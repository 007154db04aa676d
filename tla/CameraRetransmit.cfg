CONSTANTS
  BlockSize = 2
  VectorSize = 2
  VideoLength = 5
  MaxLine = 2
  PipeSize = 3
  MaxSessions = 3
  MaxShortReads = 0
  MaxRestarts = 1
SPECIFICATION Spec
PROPERTY RetransmitsEveryLine
CHECK_DEADLOCK FALSE
