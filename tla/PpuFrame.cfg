SPECIFICATION FairSpec
CONSTANTS
  Lines = 7
  VBlankLine = 4
  OverscanLine = 6
  Offset = 2
  MaxQueue = 2
  MaxWrites = 1
INVARIANTS OwnFrame PictureWhole SpritesFetched
PROPERTY FramesEnd
