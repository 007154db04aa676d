CONSTANTS
  Main = Main
  Worker = Worker
  None = None
  BlockSize = 2
  WordSize = 2
  Workers = {"GPU"}
  InputSizes = {3}
  MaxErrors = 0
SPECIFICATION Spec
INVARIANT WholeFileEncrypted
