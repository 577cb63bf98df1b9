SPECIFICATION Spec
CONSTANTS
  NoFrame = NoFrame
  Frames = {f1, f2, f3, f4}
  MaxNKfs = 1
  NewSeeds = {1, 2}
  MaxSeeds = 3
  MaxKeyframes = 2
  Calls <- RunningCalls
SYMMETRY FrameSymmetry
INVARIANTS
  TypeOK
  IteratorsValid
  ScannedSeedsYoung
  RemovedSeedsGone
  SeedsInBatches
  SeedsOfKeyframes
  DepthsNotStale
PROPERTIES
  FrontLostOnlyInReset
  ImplementsSeedFilter
CHECK_DEADLOCK FALSE
