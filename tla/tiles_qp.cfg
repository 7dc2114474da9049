SPECIFICATION PictureSpec
CONSTANTS
  Sizes <- OnePicture
  TileLists <- SmallLists
  RasterLists <- SmallRasters
  MaxSlices = 6
INVARIANTS QpsAgree
CHECK_DEADLOCK FALSE
