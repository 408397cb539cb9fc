SPECIFICATION Spec
CONSTANTS
  Tracks = {t1}
  NoTrack = none
  FrameCount <- MCFrameCount
  Lead = 2
  BusyTime = 2
  MAXTS = 8
  MaxStep = 2
  FrameTime = 2
  MaxPos = 5
  MaxWrites = 3
PROPERTY ApuRunsForward
