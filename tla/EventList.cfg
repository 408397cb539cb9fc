SPECIFICATION Spec
CONSTANTS
  Idle = {3, 4}
  MaxTS = 12
  Far = 13
  MaxStep = 2
  FrameTime = 2
INVARIANTS ListSound EarliestFirst NoneOverdue
PROPERTY StartsBeforeEvents
