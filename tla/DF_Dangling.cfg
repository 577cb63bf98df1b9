SPECIFICATION Spec
CONSTANTS
  NoFrame = NoFrame
  Frames = {f1, f2, f3, f4}
  MaxNKfs = 1
  NewSeeds = {1}
  MaxSeeds = 2
  MaxKeyframes = 3
  Calls <- RunningCalls
SYMMETRY FrameSymmetry
INVARIANTS
  NoDanglingSeed
CHECK_DEADLOCK FALSE
