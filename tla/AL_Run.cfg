SPECIFICATION FairSpec
CONSTANTS
  Models = {m1, m2, m3}
  MaxError = 1
  NaN = NaN
  NIter = 3
  NTrialsMax = 2
  Features = {a, b}
  Positions = {0, 4, 9, 16}
  Cols = 20
  Border = 2
  MinLevel = 0
  MaxLevel = 2
  Scale <- PowersOfTwo
INVARIANTS
  NeverWorse
  PatchesOfLevel
PROPERTIES
  RunReturns
