SPECIFICATION Spec
CONSTANTS
  Width = 5
  Height = 3
  cell_size_ = 2
  n_pyr_levels_ = 2
  MaxCorners = 5
  Matched <- FirstCell
  MaxScore = 2
  detection_threshold = 1
INVARIANTS
  NonmaxExact
  FeaturesSpread
