CONSTANTS
  Producers = {p1, p2}
  Consumers = {c1, c2}
  Elements = {a, b}
  None = None
  QueueBound = 2
SPECIFICATION FairBoundedSpec
INVARIANTS TypeOK MutualExclusion TakesWhatItRead NoLostWakeup
PROPERTIES ImplementsFifo ImplementsFairFifo
