SPECIFICATION Spec
CONSTANTS
  None = None
  Pictures <- AnyPictures
  SpsSet <- TightDpb
  MaxTid = 0
  MaxPics = 5
INVARIANTS TypeOK FlagsConsistent DecodesIntoOwnBuffer NoPictureLost OneFate
PROPERTIES TakesFreeBuffersOnly SilentDuringRecovery
CHECK_DEADLOCK FALSE
