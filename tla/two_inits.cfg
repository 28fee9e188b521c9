\* Two db inits at the same time.
SPECIFICATION Spec
CONSTANTS
    p1 = p1
    p2 = p2
    p3 = p3
    p4 = p4
    NULL = NULL
    Proc = {p1, p2, p3, p4}
    BackupPath = {"copy"}
    Apart <- TwoInits
    MayCrash = {}
    MaxCrashes = 0
PROPERTIES
    ExistingFilesKept
CHECK_DEADLOCK FALSE
