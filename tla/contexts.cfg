SPECIFICATION Spec
CONSTANTS
  BufferSize = 2
  Tids = {0, 1}
  Qps <- TwoQps
  RefreshTypes = {"IDR", "CRA", "GDR"}
  RadlPictures = FALSE
  TargetTids = {0, 1}
  SliceCounts = {1, 2}
  MaxLeading = 1
  MaxTrailing = 2
  MaxPics = 5
  PocLsbs = 4
INVARIANTS TypeOK ContextsAgree StoresConverge
CHECK_DEADLOCK FALSE
