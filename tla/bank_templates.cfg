\* Import, revise, retire, activate and rebuild over two one-question units.
SPECIFICATION MCSpec
CONSTANTS
    u1 = u1
    u2 = u2
    q1 = q1
    q2 = q2
    c1 = c1
    c2 = c2
    t1 = t1
    t2 = t2
    theme = theme
    mode = mode
    n1 = n1
    n2 = n2
    n3 = n3
    Unit = {u1, u2}
    IncludeInQuizzes = {u1}
    Bank = {q1, q2}
    Concept = {c1, c2}
    Tag = {t1, t2, theme, mode}
    UnitOf <- MCUnitOf
    ConceptOf <- MCConceptOf
    BankPosition <- MCBankPosition
    TagKind <- MCTagKind
    BankFile <- MCBankFile
    MaxRevision = 2
    Text = {n1, n2, n3}
    NameOf <- MCNameOf
    Alias = {n2, t2}
    MaxRelations = 1
INVARIANTS
    ChaptersCumulative
    RebuildMakesTemplatesCurrent
    RebuildValidates
PROPERTIES
    RevisionsNeverReset
    ReferencesSteady
