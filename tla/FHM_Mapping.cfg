SPECIFICATION Spec
CONSTANTS
  NoFrame = NoFrame
  NoPoint = NoPoint
  Frames = {f1, f2, f3, f4}
  Points = {p1, p2}
  MaxNKfs = 3
  Restarts = TRUE
SYMMETRY GraphSymmetry
INVARIANTS
  TypeOK
  ReferencesAgree
  PointsShared
  KeyPointsCorrect
  CandidatesCorrect
  FeaturesUsable
  TrashExact
