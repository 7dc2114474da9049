SPECIFICATION ChainSpec
CONSTANTS
  Configs <- MCConfigs
  NoUnit = NoUnit
  Pictures = {}
  SpsSet <- MCSpsSet
  MaxTid = 5
  MaxPics = 100
  None = None
CHECK_DEADLOCK FALSE
INVARIANTS PassesChecks SameReferences FramesInOrder
