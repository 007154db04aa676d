SPECIFICATION FairSpec
CONSTANTS NumLanes = 2
          WordSize = 6
          NumRegs = 2
          Programs <- MCPrograms
INVARIANTS TypeOK AllocatedApart Encodable
PROPERTY SameOutput
CHECK_DEADLOCK FALSE
