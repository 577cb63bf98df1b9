SPECIFICATION RingSpec
CONSTANTS
  Values = {0, 1, 5}
  arr_size_ = 4
INVARIANTS
  MeanOfWindow
PROPERTIES
  KeepsLatest
