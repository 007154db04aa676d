CONSTANTS
  NumQPUs = 3
  Lanes = 2
  Kernels = {"V1", "V2", "hybrid", "trivium"}
  Sizes = {0, 1, 2, 3, 5, 6, 7, 8, 12, 13}
SPECIFICATION FairSpec
INVARIANTS TypeOK XorsItsOwn Complete Overrun FifoBalanced
PROPERTIES StoredOnce Terminates
