SPECIFICATION Spec
CONSTANTS
  BufferSize = 5
  Tids = {0}
  Qps <- OneQp
  RefreshTypes = {"IDR"}
  RadlPictures = TRUE
  TargetTids = {0}
  SliceCounts = {1}
  MaxLeading = 2
  MaxTrailing = 2
  MaxPics = 6
  PocLsbs = 8
INVARIANTS ContextsAlwaysAgree
CHECK_DEADLOCK FALSE
