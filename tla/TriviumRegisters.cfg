CONSTANTS
  Keys <- MCKeys
  Rounds = 1152
  MaxInts = 16
SPECIFICATION Spec
CHECK_DEADLOCK FALSE
INVARIANT TypeOK
PROPERTIES ImplementsShiftRegisters Invertible
