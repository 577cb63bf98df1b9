SPECIFICATION Spec
CONSTANTS
  Points = {p1, p2, p3}
  Keyframes = {k1, k2, k3}
  NCells = 2
  MaxNKfs = 2
  MaxFts = 0
  MaxFailed <- FailedLimits
  OutOfFrame = 2
  MaxSucceeded = 0
SYMMETRY PointSymmetry
INVARIANTS
  TypeOK
  CellsSound
  CountersWithinLimits
  OutcomeAllowed
  BestMatched
