SPECIFICATION Spec
CONSTANTS
  V = {0, 1}
  MaxQueue = 2
  MaxWrites = 4
INVARIANT SameColors
