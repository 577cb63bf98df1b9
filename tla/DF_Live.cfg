SPECIFICATION FairSpec
CONSTANTS
  NoFrame = NoFrame
  Frames = {f1, f2, f3}
  MaxNKfs = 1
  NewSeeds = {1}
  MaxSeeds = 1
  MaxKeyframes = 2
  Calls <- StoppingCalls
INVARIANTS
  FrontDefined
PROPERTIES
  CallsReturn
  QueuedFrameServed
  KeyframeServedInStream
