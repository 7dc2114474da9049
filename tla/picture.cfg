SPECIFICATION PictureSpec
CONSTANTS
  Sizes <- SmallPictures
  TileLists <- SmallLists
  RasterLists <- SmallRasters
  MaxSlices = 6
INVARIANTS PictureTypeOK  ContextsAgree StartsFromAbove SubstreamsFit QpsAgreeInOneTile
CHECK_DEADLOCK FALSE
