SPECIFICATION Spec
CONSTANTS
  Dot = 2
  Dots = 5
  RefreshAt = 3
  HBlankAt = 5
  Stall = 2
  Lines = 2
  HTimes = {0, 3}
  VTimes = {0, 1}
  Cycles = {1, 3}
  Slowest = 3
  HdmaTime = 6
  MAXTS = 100
  MaxAccesses = 2
  MaxWrites = 2
INVARIANT LinesAgree
INVARIANT NmiServed
INVARIANT TimerOnTime
INVARIANT Awakes
