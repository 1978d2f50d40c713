SPECIFICATION Spec
CONSTANTS
    CNIDs = {1, 2}
    Sizes = {0, 7, 9}
    Records <- AllRecords
    HFS_EPOCH_TO_UNIX = 5
    VolumeDates = {0, 5}
    MaxRecords = 3
INVARIANTS
    TypeOK
    DanglingIffUnlisted
    DuplicatesSettleAlike
    ForksMatchStat
    AuditedFilesAreRead
    TimesShownAreAudited
CHECK_DEADLOCK FALSE
