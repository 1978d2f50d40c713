SPECIFICATION Spec
CONSTANTS
    CHUNK_SIZE = 2
    UsizeMax = 63
    MaxDecoded = 3
    Files <- SmallFiles
INVARIANTS
    TypeOK
    ChunksTileTheFork
    NothingLeftOut
    PaddingNeverRead
    WorkBounded
    FlaggedCannotDecode
CHECK_DEADLOCK FALSE
