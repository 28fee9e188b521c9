\* A db init, then any three commands on one path, side by side, with errors and crashes.
SPECIFICATION OrderedSpec
CONSTANTS
    p1 = p1
    p2 = p2
    p3 = p3
    p4 = p4
    NULL = NULL
    Proc = {p1, p2, p3, p4}
    BackupPath = {"copy"}
    Apart <- Careful
    MayCrash = {"init", "write", "backup"}
    MaxCrashes = 1
INVARIANTS
    TypeOK
    StoredIsVisible
    LogBelongsToFile
    FailedInitLeavesNothing
    RestoredIsWhole
PROPERTIES
    EveryCommandEnds
CHECK_DEADLOCK FALSE
