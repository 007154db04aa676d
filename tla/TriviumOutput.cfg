CONSTANTS
  Keys <- MCKeys
  Rounds = 1152
  MaxInts = 1
SPECIFICATION Spec
CHECK_DEADLOCK FALSE
INVARIANT OutputAsCommented
