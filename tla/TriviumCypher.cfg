CONSTANTS
  CharsPerInt = 2
  IntsPerVector = 2
  Pieces = {0, 1, 3, 4, 6, 8, 9}
  MaxText = 12
  MaxPieces = 3
SPECIFICATION Spec
CHECK_DEADLOCK FALSE
INVARIANTS TypeOK Recovered NoGarbage KeyUsedOnce
