SPECIFICATION FairSpec
CONSTANTS
  None = None
  MaxLsb = 8
  StartPocs = {12}
  Steps = {3}
  Layouts <- SmallLayouts
  Skips = {0, 1}
  HighestTids = {0, 1}
  Excluded = {"CRA last of -s", "IDR first after -s", "EOS before the first", "one after EOS"}
  MaxPics = 5
PROPERTIES WholePictures SeisWithTheirPicture PocsAgree SequencesStartAlike AllFinished
CHECK_DEADLOCK FALSE
