\* An output path that is taken, or the path of the database itself, is given to db backup.
SPECIFICATION Spec
CONSTANTS
    p1 = p1
    p2 = p2
    p3 = p3
    p4 = p4
    NULL = NULL
    Proc = {p1, p2, p3, p4}
    BackupPath = {"db", "copy"}
    Apart <- OneAtATime
    MayCrash = {}
    MaxCrashes = 0
PROPERTIES
    ExistingFilesKept
CHECK_DEADLOCK FALSE
