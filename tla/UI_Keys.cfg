SPECIFICATION FairKeySpec
CONSTANTS
  MaxKeys = 4
PROPERTIES
  KeysReturnedOnce
  DestructorReturns
CHECK_DEADLOCK FALSE
