SPECIFICATION StreamSpec
CONSTANTS
  None = None
  Pictures = {}
  SpsSet <- TwoLayers
  MaxTid = 1
  MaxPics = 5
  FirstTypes = {"IDR", "CRA", "GDR"}
  MaxLeading = 1
  MaxTrailing = 3
  OutputFlags = {TRUE}
  GdrPoc = 2
  GdrRefs = {1}
  Recoveries = {0, 2}
  Situations = {}
INVARIANTS NeverAborts PredictsFromOwnSequence  AtMostOneExtension OutputInOrder WaitingBounded
CHECK_DEADLOCK FALSE
