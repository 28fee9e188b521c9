\* Two units of one book: syncs, statuses and a bank import beside an author's edits.
SPECIFICATION IndexableSpec
CONSTANTS
    u1 = u1
    u2 = u2
    pa = pa
    pb = pb
    NULL = NULL
    Unit = {u1, u2}
    Path = {pa, pb}
    CorpusOf <- OneBook
    Text <- Texts
    Manifest <- Manifests
    MaxEdits = 2
    Citation <- Citations
INVARIANTS
    TypeOK
    SectionsMatchHash
    SectionsTile
    LastSyncStands
    RefusedWithReason
    StatusTellsTruth
    SourcesStand
    AutomaticLinksTile
PROPERTIES
    BankedStaysFrozen
