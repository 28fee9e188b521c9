\* A quiz of one question, abandoned.
SPECIFICATION QuizSpec
CONSTANTS
    u1 = u1
    q1 = q1
    q2 = q2
    q3 = q3
    c1 = c1
    c2 = c2
    topic = topic
    theme = theme
    mode = mode
    Unit = {u1}
    IncludeInQuizzes = {u1}
    Concept = {c1, c2}
    Tag = {topic, theme, mode}
    UnitOf <- MCUnitOf
    ConceptOf <- MCConceptOf
    BankPosition <- MCBankPosition
    TagKind <- MCTagKind
    BankFile <- MCBankFile
    DefaultLimit = 10
    MaxLimit = 2
    ClockGoesBack = FALSE
    Bank = {q1}
    MaxRevision = 1
    MaxQuizzes = 1
    MaxQuestions = 3
    MaxResponses = 1
    MaxRecords = 0
    MaxClock = 1
    Starts = {4}
    Limits = {0}
    Grades = {"incorrect", "correct"}
    Checkpoints = {}
    Sources = {}
PROPERTIES
    QuestionsMoveByTable
CHECK_DEADLOCK FALSE
