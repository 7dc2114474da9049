SPECIFICATION FairStreamSpec
CONSTANTS
  None = None
  Pictures = {}
  SpsSet <- SmallDpb
  MaxTid = 0
  MaxPics = 3
  FirstTypes = {"IDR", "CRA", "GDR"}
  MaxLeading = 1
  MaxTrailing = 2
  OutputFlags = {TRUE, FALSE}
  GdrPoc = 2
  GdrRefs = {1}
  Recoveries = {0, 2}
  Situations = {}
PROPERTIES ImplementsVideo WritesEverything
CHECK_DEADLOCK FALSE
