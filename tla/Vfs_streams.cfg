SPECIFICATION VfsSpec
CONSTANTS
    CNIDs = {1, 2}
    Names = {"decmpfs", "other"}
    DECMPFS_XATTR_NAME = "decmpfs"
    Contents = {"x", "y"}
    Records <- AllRecords
    MaxRecords = 3
    U16Max = 1
    UsizeMax = 3
    U64Max = 7
    Nodes <- MCNodes
    Decodes <- MCDecodes
    Declared <- MCDeclared
    Served <- WholeRecords
    BufferLens = {1, 2}
    Offsets = {0, 1, 3, 4, 7}
INVARIANTS
    TypeOK
    ListedAreRead
    ReadsAreListed
    DecmpfsAgrees
    VfsTypeOK
    SizeShownIsRead
PROPERTIES
    PiecesMakeTheContent
CHECK_DEADLOCK FALSE
