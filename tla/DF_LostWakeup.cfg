SPECIFICATION FairSpec
CONSTANTS
  NoFrame = NoFrame
  Frames = {f1, f2, f3}
  MaxNKfs = 1
  NewSeeds = {0}
  MaxSeeds = 1
  MaxKeyframes = 3
  Calls <- TrackingCalls
PROPERTIES
  KeyframeServed
