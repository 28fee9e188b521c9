------------------------------ MODULE CorpusSync ------------------------------
(***************************************************************************)
(* The corpus: source files and the manifest that lists them, corpus sync  *)
(* that indexes them in the database, and corpus status that compares the  *)
(* three (src/src/commands_corpus.c).                                      *)
(*                                                                         *)
(* Neither command locks the files: sync reads a source once to parse it   *)
(* and once more to hash it, status reads the manifest at its start and    *)
(* again at its end, and an author may edit any of them in between.  Sync  *)
(* runs in one write transaction and works on a copy of the rows until it  *)
(* commits; status reads the rows that are committed when each of its      *)
(* statements runs.                                                        *)
(*                                                                         *)
(* A text is a sequence of lines, and stands for its own SHA-256.  A unit  *)
(* and its section rows are one record; banked tells that concepts or      *)
(* questions were imported for it, and torn, a history field, that the     *)
(* text that was parsed was not the text that was hashed.                  *)
(***************************************************************************)
EXTENDS Naturals, FiniteSets, FiniteSetsExt, Sequences

CONSTANTS
    Unit,        \* the units of all corpora
    CorpusOf,    \* the corpus of a unit
    Path,        \* the paths of source files
    Text,        \* the contents a source may have
    Manifest,    \* the manifests an author may write
    NULL,        \* no file, no row
    MaxEdits     \* bound: the edits of a behaviour

LineKind == {"title", "text", "page", "numbered", "summary"}

ASSUME CorpusAssumption ==
    /\ IsFiniteSet(Unit)
    /\ NULL \notin Text
    /\ Text \subseteq Seq([kind : LineKind, page : Nat, key : STRING])
    /\ Manifest \subseteq
           Seq([unit : Unit, path : Path, include : BOOLEAN,
                exempt : SUBSET (STRING \X Nat)])
    /\ MaxEdits \in Nat

VARIABLES
    source,     \* the contents of a path, or NULL
    manifest,   \* the manifest file
    db,         \* the committed row of a unit
    sync,       \* the corpus sync that runs, or ran last
    status,     \* the corpus status that runs, or ran last
    synced,     \* history: the manifest of the last sync that committed
    edits       \* bound: the edits so far

vars == <<source, manifest, db, sync, status, synced, edits>>

-----------------------------------------------------------------------------
(* Parsing a source. *)

Markers(text) == {i \in DOMAIN text : text[i].kind = "page"}

Parses(text) ==
    /\ text # <<>>
    /\ text[1].kind = "title"
    /\ Markers(text) # {}

FirstMarker(text) == Min(Markers(text))

(* The page a line is on: the last marker at or above it. *)
PageAt(text, i) == text[Max({j \in Markers(text) : j <= i})].page

(* The opening starts at the first marker, the others at their headings. *)
SectionStarts(text) ==
    {FirstMarker(text)} \cup
    {i \in DOMAIN text : i > FirstMarker(text) /\ text[i].kind \in {"numbered", "summary"}}

HeadingKey(text, i) == IF i = FirstMarker(text) THEN "opening" ELSE text[i].key

(* The second section of a name has its position added to its key. *)
SectionKey(text, i) ==
    LET above == {j \in SectionStarts(text) : j < i}
        repeated == \E j \in above : HeadingKey(text, j) = HeadingKey(text, i)
    IN  <<HeadingKey(text, i), IF repeated THEN Cardinality(above) + 1 ELSE 0>>

(* Mutant of SectionEnd: a section ends at the heading of the next. *)
SectionEndAtHeading(text, i) ==
    Min({j \in SectionStarts(text) : j > i} \cup {Len(text)})

(* A section ends above the next heading, the last one with the text. *)
SectionEnd(text, i) ==
    Min({j - 1 : j \in {k \in SectionStarts(text) : k > i}} \cup {Len(text)})

Sections == [text \in {t \in Text : Parses(t)} |->
    {[key        |-> SectionKey(text, i),
      start_line |-> i,
      end_line   |-> SectionEnd(text, i),
      start_page |-> PageAt(text, i),
      end_page   |-> PageAt(text, SectionEnd(text, i)),
      is_summary |-> text[i].kind = "summary"] : i \in SectionStarts(text)}]

Keys(sections) == {s.key : s \in sections}

(* The schema refuses pages that run backwards. *)
PagesRise(text) == PageAt(text, FirstMarker(text)) <= PageAt(text, Len(text))
SectionPagesRise(sections) == \A s \in sections : s.start_page <= s.end_page

-----------------------------------------------------------------------------
(* The manifest. *)

(* The index of an entry in the units of its corpus. *)
Position(m, i) ==
    Cardinality({j \in 1 .. i : CorpusOf[m[j].unit] = CorpusOf[m[i].unit]})

WellFormed(m) ==
    /\ m # <<>>
    /\ \A i, j \in DOMAIN m :
           i # j => m[i].unit # m[j].unit /\ m[i].path # m[j].path

-----------------------------------------------------------------------------
(* Synchronizing one unit: its row, its sections, its exemptions. *)

(* The sections of a row are those of some text that parsed. *)
Row == [path : Path, position : Nat, include : BOOLEAN, hash : Text, lines : Nat,
        sections : {Sections[text] : text \in DOMAIN Sections},
        exempt : SUBSET (STRING \X Nat), banked : BOOLEAN, torn : BOOLEAN]

ASSUME RowAssumption == NULL \notin Row

Banked(row) == row # NULL /\ row.banked

(* Mutant of SourceChanged: a unit with a bank is never synchronized again. *)
AnyBanked(row, digest) == Banked(row)

(* Mutant of SourceChanged: the bank is not looked for. *)
NeverChanged(row, digest) == FALSE

SourceChanged(row, digest) == Banked(row) /\ row.hash # digest

(* Another row has the path, or the position in the corpus. *)
PlaceTaken(rows, u, path, position) ==
    \E other \in Unit \ {u} :
        /\ rows[other] # NULL
        /\ \/ rows[other].path = path
           \/ /\ CorpusOf[other] = CorpusOf[u]
              /\ rows[other].position = position

(* Mutant of KeepsSections: the old sections are never deleted. *)
KeepsAnySections(row, digest) == row # NULL

KeepsSections(row, digest) == row # NULL /\ (Banked(row) \/ row.hash = digest)

SectionsAfter(row, parsed, digest) ==
    IF KeepsSections(row, digest) THEN row.sections ELSE Sections[parsed]

Refused(rows, entry, position, parsed, digest) ==
    LET row == rows[entry.unit]
        sections == SectionsAfter(row, parsed, digest)
    IN  \/ SourceChanged(row, digest)
        \/ PlaceTaken(rows, entry.unit, entry.path, position)
        \/ ~ PagesRise(parsed)
        \/ ~ KeepsSections(row, digest) /\ ~ SectionPagesRise(sections)
        \/ ~ entry.exempt \subseteq Keys(sections)

(* Mutant of Synchronized: exemptions are set, and never removed. *)
ExemptionsAdded(row, entry, position, parsed, digest) ==
    [path     |-> entry.path,
     position |-> position,
     include  |-> entry.include,
     hash     |-> digest,
     lines    |-> Len(parsed),
     sections |-> SectionsAfter(row, parsed, digest),
     exempt   |-> entry.exempt \cup IF KeepsSections(row, digest) THEN row.exempt ELSE {},
     banked   |-> Banked(row),
     torn     |-> \/ parsed # digest
                  \/ KeepsSections(row, digest) /\ row.torn]

Synchronized(row, entry, position, parsed, digest) ==
    [path     |-> entry.path,
     position |-> position,
     include  |-> entry.include,
     hash     |-> digest,
     lines    |-> Len(parsed),
     sections |-> SectionsAfter(row, parsed, digest),
     exempt   |-> entry.exempt,
     banked   |-> Banked(row),
     torn     |-> \/ parsed # digest
                  \/ KeepsSections(row, digest) /\ row.torn]

-----------------------------------------------------------------------------
(* corpus sync. *)

Running == {"parse", "hash"}

NoSync == [pc |-> "idle", manifest |-> <<>>, index |-> 1, parsed |-> NULL,
           rows |-> [u \in Unit |-> NULL], edited |-> FALSE]

(* BEGIN IMMEDIATE, then the manifest is read.  A refused manifest ends    *)
(* the command.                                                            *)
SyncBegin ==
    /\ sync.pc \notin Running
    /\ sync' = [pc       |-> IF WellFormed(manifest) THEN "parse" ELSE "failed",
                manifest |-> manifest,
                index    |-> 1,
                parsed   |-> NULL,
                rows     |-> db,
                edited   |-> FALSE]
    /\ UNCHANGED <<source, manifest, db, status, synced, edits>>

Entry == sync.manifest[sync.index]

(* The transaction is rolled back. *)
SyncFails == sync' = [sync EXCEPT !.pc = "failed", !.parsed = NULL,
                                  !.rows = [u \in Unit |-> NULL]]

ParseUnit ==
    /\ sync.pc = "parse"
    /\ sync.index <= Len(sync.manifest)
    /\ LET text == source[Entry.path]
       IN  IF text # NULL /\ Parses(text)
           THEN sync' = [sync EXCEPT !.pc = "hash", !.parsed = text]
           ELSE SyncFails
    /\ UNCHANGED <<source, manifest, db, status, synced, edits>>

(* Mutant of HashUnit: a source that has gone since it was parsed is not   *)
(* noticed.                                                                *)
HashUnitUnchecked ==
    /\ sync.pc = "hash"
    /\ LET digest == source[Entry.path]
           position == Position(sync.manifest, sync.index)
       IN  IF Refused(sync.rows, Entry, position, sync.parsed, digest)
           THEN SyncFails
           ELSE sync' = [sync EXCEPT
                    !.pc = "parse",
                    !.index = @ + 1,
                    !.parsed = NULL,
                    !.rows[Entry.unit] =
                        Synchronized(@, Entry, position, sync.parsed, digest)]
    /\ UNCHANGED <<source, manifest, db, status, synced, edits>>

HashUnit ==
    /\ sync.pc = "hash"
    /\ LET digest == source[Entry.path]
           position == Position(sync.manifest, sync.index)
       IN  IF digest = NULL \/ Refused(sync.rows, Entry, position, sync.parsed, digest)
           THEN SyncFails
           ELSE sync' = [sync EXCEPT
                    !.pc = "parse",
                    !.index = @ + 1,
                    !.parsed = NULL,
                    !.rows[Entry.unit] =
                        Synchronized(@, Entry, position, sync.parsed, digest)]
    /\ UNCHANGED <<source, manifest, db, status, synced, edits>>

SyncCommit ==
    /\ sync.pc = "parse"
    /\ sync.index > Len(sync.manifest)
    /\ db' = sync.rows
    /\ synced' = sync.manifest
    /\ sync' = NoSync
    /\ status' = [status EXCEPT !.disturbed = @ \/ sync.edited]
    /\ UNCHANGED <<source, manifest, edits>>

-----------------------------------------------------------------------------
(* corpus status. *)

NoStatus == [pc |-> "idle", manifest |-> <<>>, index |-> 1, digest |-> NULL,
             in_sync |-> FALSE, disturbed |-> FALSE]

StatusBegin ==
    /\ status.pc \in {"idle", "done"}
    /\ status' = [pc        |-> IF WellFormed(manifest) THEN "digest" ELSE "done",
                  manifest  |-> manifest,
                  index     |-> 1,
                  digest    |-> NULL,
                  in_sync   |-> WellFormed(manifest),
                  disturbed |-> FALSE]
    /\ UNCHANGED <<source, manifest, db, sync, synced, edits>>

StatusDigest ==
    /\ status.pc = "digest"
    /\ status.index <= Len(status.manifest)
    /\ status' = [status EXCEPT !.pc = "select",
                                !.digest = source[status.manifest[status.index].path]]
    /\ UNCHANGED <<source, manifest, db, sync, synced, edits>>

(* Mutant of RowMatches: the exemptions are not compared. *)
RowMatchesButExemptions(row, entry, digest) ==
    /\ row # NULL
    /\ digest # NULL
    /\ row.hash = digest
    /\ row.include = entry.include
    /\ row.path = entry.path

RowMatches(row, entry, digest) ==
    /\ row # NULL
    /\ digest # NULL
    /\ row.hash = digest
    /\ row.include = entry.include
    /\ row.path = entry.path
    /\ row.exempt = entry.exempt

StatusSelect ==
    /\ status.pc = "select"
    /\ LET entry == status.manifest[status.index]
       IN  status' = [status EXCEPT
               !.pc = "digest",
               !.index = @ + 1,
               !.digest = NULL,
               !.in_sync = @ /\ RowMatches(db[entry.unit], entry, status.digest)]
    /\ UNCHANGED <<source, manifest, db, sync, synced, edits>>

Unlisted(m) == {u \in Unit : db[u] # NULL /\ \A i \in DOMAIN m : m[i].unit # u}

(* The manifest is read again to count the rows it does not list. *)
StatusUnlisted ==
    /\ status.pc = "digest"
    /\ status.index > Len(status.manifest)
    /\ status' = [status EXCEPT !.pc = "done",
                                !.in_sync = @ /\ Unlisted(manifest) = {}]
    /\ UNCHANGED <<source, manifest, db, sync, synced, edits>>

-----------------------------------------------------------------------------
(* The author, and bank import. *)

Edited ==
    /\ edits < MaxEdits
    /\ edits' = edits + 1
    /\ sync' = [sync EXCEPT !.edited = TRUE]
    /\ status' = [status EXCEPT !.disturbed = TRUE]

EditSource ==
    /\ \E path \in Path, text \in Text \cup {NULL} :
           /\ text # source[path]
           /\ source' = [source EXCEPT ![path] = text]
    /\ Edited
    /\ UNCHANGED <<manifest, db, synced>>

EditManifest ==
    /\ \E m \in Manifest :
           /\ m # manifest
           /\ manifest' = m
    /\ Edited
    /\ UNCHANGED <<source, db, synced>>

(* A bank is imported once for a unit: its concepts and questions are      *)
(* never deleted, and cite sections of the unit that are not summaries.    *)
(* The import waits for the write lock.                                    *)
BankImport ==
    /\ sync.pc \notin Running
    /\ \E u \in Unit :
           /\ db[u] # NULL
           /\ ~ Banked(db[u])
           /\ \E s \in db[u].sections : ~ s.is_summary
           /\ db' = [db EXCEPT ![u].banked = TRUE]
    /\ UNCHANGED <<source, manifest, sync, status, synced, edits>>

Init ==
    /\ source \in [Path -> Text \cup {NULL}]
    /\ manifest \in Manifest
    /\ db = [u \in Unit |-> NULL]
    /\ sync = NoSync
    /\ status = NoStatus
    /\ synced = <<>>
    /\ edits = 0

Next ==
    \/ SyncBegin
    \/ ParseUnit
    \/ HashUnit
    \/ SyncCommit
    \/ StatusBegin
    \/ StatusDigest
    \/ StatusSelect
    \/ StatusUnlisted
    \/ EditSource
    \/ EditManifest
    \/ BankImport

Spec == Init /\ [][Next]_vars

-----------------------------------------------------------------------------
(* Properties. *)

(* Every variable holds a value of its kind. *)
TypeOK ==
    /\ source \in [Path -> Text \cup {NULL}]
    /\ manifest \in Manifest
    /\ db \in [Unit -> Row \cup {NULL}]
    /\ sync \in [pc : Running \cup {"idle", "failed"}, manifest : Manifest \cup {<<>>},
                 index : Nat, parsed : Text \cup {NULL},
                 rows : [Unit -> Row \cup {NULL}], edited : BOOLEAN]
    /\ status \in [pc : {"idle", "digest", "select", "done"},
                   manifest : Manifest \cup {<<>>}, index : Nat,
                   digest : Text \cup {NULL}, in_sync : BOOLEAN, disturbed : BOOLEAN]
    /\ synced \in Manifest \cup {<<>>}
    /\ edits \in 0 .. MaxEdits

Indexed == {u \in Unit : db[u] # NULL}

(* The sections and the line count of a unit are those of the text whose   *)
(* hash it has, however often the source, the manifest and the bank have   *)
(* changed, unless a source was edited between the two reads of a sync.    *)
SectionsMatchHash ==
    \A u \in Indexed :
        \/ db[u].torn
        \/ /\ db[u].sections = Sections[db[u].hash]
           /\ db[u].lines = Len(db[u].hash)

(* The sections of a unit leave no line out and share none, and their keys *)
(* differ: a bank's line range never meets an unindexed gap, and the       *)
(* section rows never violate their own UNIQUE constraint.                 *)
SectionsTile ==
    \A u \in Indexed :
        LET sections == db[u].sections
            last == Max({s.end_line : s \in sections})
        IN  /\ \A s, t \in sections : s.key = t.key => s = t
            /\ \A s \in sections :
                   /\ s.start_line <= s.end_line
                   /\ \/ s.end_line = last
                      \/ \E t \in sections : t.start_line = s.end_line + 1
            /\ \A s, t \in sections :
                   s # t => s.end_line < t.start_line \/ t.end_line < s.start_line

(* The rows are what the last committed sync made of its manifest: each    *)
(* unit has the place, the inclusion and the exemptions it was given,      *)
(* those that an earlier manifest had and this one dropped are gone, and a *)
(* sync that failed after some units has left no trace.                    *)
LastSyncStands ==
    \A i \in DOMAIN synced :
        LET entry == synced[i]
            row == db[entry.unit]
        IN  /\ row # NULL
            /\ row.path = entry.path
            /\ row.position = Position(synced, i)
            /\ row.include = entry.include
            /\ row.exempt = entry.exempt
            /\ row.exempt \subseteq Keys(row.sections)

(* Once a unit has a bank, no sync ever changes its sections or the hash   *)
(* of its source, even when the source is edited while a sync runs.        *)
BankedStaysFrozen ==
    [][\A u \in Indexed :
           Banked(db[u]) =>
               /\ Banked(db'[u])
               /\ db'[u].sections = db[u].sections
               /\ db'[u].hash = db[u].hash]_vars

(* The manifest gives every unit the path and position its row has, and    *)
(* every new unit a path and a position of its own.                        *)
Appends(m) ==
    \A i \in DOMAIN m :
        /\ db[m[i].unit] # NULL =>
               /\ db[m[i].unit].path = m[i].path
               /\ db[m[i].unit].position = Position(m, i)
        /\ ~ PlaceTaken(db, m[i].unit, m[i].path, Position(m, i))

(* A source that can be indexed, with the sections the entry exempts. *)
Indexable(entry) ==
    LET text == source[entry.path]
    IN  /\ text # NULL
        /\ Parses(text)
        /\ PagesRise(text)
        /\ SectionPagesRise(Sections[text])
        /\ entry.exempt \subseteq Keys(Sections[text])

(* A sync is refused only for a reason: with files at rest, a manifest     *)
(* that leaves the units in their places and adds new ones behind them,    *)
(* with sources that can be indexed and that have not changed under a      *)
(* bank, is accepted.                                                      *)
RefusedWithReason ==
    sync.pc = "failed" /\ ~ sync.edited =>
        \/ ~ WellFormed(sync.manifest)
        \/ ~ Appends(sync.manifest)
        \/ \E i \in DOMAIN sync.manifest :
               LET entry == sync.manifest[i]
                   row == db[entry.unit]
               IN  \/ ~ Indexable(entry)
                   \/ Banked(row) /\ row.hash # source[entry.path]
                   \/ row # NULL /\ row.torn

(* When corpus status reports in_sync, and no file was edited meanwhile    *)
(* (nor a sync committed what it had read before an edit), the rows, the   *)
(* manifest and the sources do agree, although status looks at one unit    *)
(* after the other and syncs may commit in between.                        *)
StatusTellsTruth ==
    status.pc = "done" /\ status.in_sync /\ ~ status.disturbed =>
        /\ Unlisted(manifest) = {}
        /\ \A i \in DOMAIN manifest :
               LET entry == manifest[i]
                   row == db[entry.unit]
               IN  /\ row # NULL
                   /\ row.path = entry.path
                   /\ row.include = entry.include
                   /\ row.exempt = entry.exempt
                   /\ row.hash = source[entry.path]
                   /\ row.torn \/ row.sections = Sections[source[entry.path]]
=============================================================================
