SPECIFICATION AuditSpec
CONSTANTS
    U16Max = 63
    U32Max = 4095
    UsizeMax = 16777215
    IsizeMax = 8388607
    MAX_LEAF_NODES = 3
    Volumes <- AuditVolumes
INVARIANTS
    OutsideLinkReported
CHECK_DEADLOCK FALSE
