\* Adaptive selection when the wall clock may be set back.
SPECIFICATION AdaptiveSpec
CONSTANTS
    u1 = u1
    q1 = q1
    q2 = q2
    q3 = q3
    c1 = c1
    c2 = c2
    topic = topic
    theme = theme
    mode = mode
    Unit = {u1}
    IncludeInQuizzes = {u1}
    Concept = {c1, c2}
    Tag = {topic, theme, mode}
    UnitOf <- MCUnitOf
    ConceptOf <- MCConceptOf
    BankPosition <- MCBankPosition
    TagKind <- MCTagKind
    BankFile <- MCBankFile
    DefaultLimit = 10
    MaxLimit = 2
    ClockGoesBack = TRUE
    Bank = {q1, q2}
    MaxRevision = 1
    MaxQuizzes = 2
    MaxQuestions = 5
    MaxResponses = 3
    MaxRecords = 0
    MaxClock = 2
    Starts = {topic}
    Limits = {0, 2}
    Grades = {"incorrect", "correct"}
    Checkpoints = {}
    Sources = {}
PROPERTIES
    AdaptiveWeakestFirst
CHECK_DEADLOCK FALSE
