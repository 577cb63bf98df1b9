SPECIFICATION FairSpec
CONSTANTS
  MaxNKfs = 3
  MaxFts = 5
  QualityMinFts = 2
  QualityMaxFtsDrop = 1
  MinEdges = 1
  Matches = {0, 1, 2, 3, 4, 5, 6}
INVARIANTS
  QualityOfStage
PROPERTIES
  ImplementsStages
  ResetServed
  PendingStartServed
