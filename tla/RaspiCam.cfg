CONSTANT MaxBuffers = 3
SPECIFICATION FairSpec
INVARIANTS TypeOK BuffersKept GrabbedIsFresh
PROPERTY CallsReturn
