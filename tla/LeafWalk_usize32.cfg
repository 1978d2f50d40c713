SPECIFICATION StreamedSpec
CONSTANTS
    U16Max = 63
    U32Max = 4095
    UsizeMax = 4095
    IsizeMax = 2047
    MAX_LEAF_NODES = 4
    Volumes <- EdgeVolumes
INVARIANTS
    NoPanic
CHECK_DEADLOCK FALSE
