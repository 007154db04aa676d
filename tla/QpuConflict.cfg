SPECIFICATION Spec
CONSTANTS NumLanes = 2
          WordSize = 6
          NumRegs = 32
          Programs <- IndexPrograms
INVARIANT ConflictsAreResolved
CHECK_DEADLOCK FALSE
