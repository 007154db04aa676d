CONSTANTS
  BlockSize = 4
  VectorSize = 2
  VideoLength = 8
  MaxLine = 3
  PipeSize = 4
  MaxSessions = 3
  MaxShortReads = 1
  MaxRestarts = 1
SPECIFICATION MCSpec
INVARIANTS TypeOK NothingDuplicated SeesTheVideo LossIsForever NoSessionLeftBehind
PROPERTIES ServesAgain VideoArrives
CHECK_DEADLOCK FALSE
