\* Bank commands between two quizzes: retire, activate, revise, rebuild.
SPECIFICATION SnapshotSpec
CONSTANTS
    u1 = u1
    q1 = q1
    q2 = q2
    q3 = q3
    c1 = c1
    c2 = c2
    topic = topic
    theme = theme
    mode = mode
    Unit = {u1}
    IncludeInQuizzes = {u1}
    Concept = {c1, c2}
    Tag = {topic, theme, mode}
    UnitOf <- MCUnitOf
    ConceptOf <- MCConceptOf
    BankPosition <- MCBankPosition
    TagKind <- MCTagKind
    BankFile <- MCBankFile
    DefaultLimit = 10
    MaxLimit = 2
    ClockGoesBack = FALSE
    Bank = {q1, q2}
    MaxRevision = 2
    MaxQuizzes = 2
    MaxQuestions = 4
    MaxResponses = 0
    MaxRecords = 0
    MaxClock = 1
    Starts = {1, topic}
    Limits = {0}
    Grades = {"correct"}
    Checkpoints = {1}
    Sources = {}
PROPERTIES
    StartTakesCurrentBank
    RowsKept
CHECK_DEADLOCK FALSE
