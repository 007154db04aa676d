CONSTANTS
  Main = Main
  Worker = Worker
  None = None
  BlockSize = 3
  WordSize = 2
  Workers = {"GPU", "CPU"}
  InputSizes = {0, 1, 4, 6}
  MaxErrors = 1
SPECIFICATION FairSpec
INVARIANTS TypeOK OutputInOrder HeapAccounting
PROPERTIES MainFinishes WorkerCatchesUp
