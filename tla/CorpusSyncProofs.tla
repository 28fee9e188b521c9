-------------------------- MODULE CorpusSyncProofs ---------------------------
(***************************************************************************)
(* What corpus sync keeps, for every corpus, text, manifest and number of  *)
(* edits: the types of the tables, the sections of a unit those of the     *)
(* hash it has, and the sections of a unit with a bank as they are.  And   *)
(* what that keeps for the bank: the sources of its questions stand, as a  *)
(* link that was inside a body section stays there.                        *)
(*                                                                         *)
(* The invariant speaks of the committed rows and of the rows the sync     *)
(* works on alike: a unit is synchronized in the latter, and they become   *)
(* the former at the commit.                                               *)
(***************************************************************************)
EXTENDS BankProvenance, FiniteSetTheorems, TLAPS, WellFoundedInduction

(* Where sync and status stand in their manifests.                         *)
Standing ==
    /\ sync.index >= 1
    /\ sync.pc \in Running => sync.manifest \in Manifest
    /\ sync.pc = "hash" =>
           sync.index \in DOMAIN sync.manifest /\ sync.parsed \in DOMAIN Sections
    /\ status.index >= 1
    /\ status.pc \in {"digest", "select"} => status.manifest \in Manifest
    /\ status.pc = "select" => status.index \in DOMAIN status.manifest

(* SectionsMatchHash, of one row.                                          *)
Fits(row) ==
    \/ row = NULL
    \/ row.torn
    \/ /\ row.sections = Sections[row.hash]
       /\ row.lines = Len(row.hash)

RowsFit == \A u \in Unit : Fits(db[u]) /\ Fits(sync.rows[u])

(* A sync that runs has changed no unit with a bank, and brought no bank.  *)
KeepsBank(old, new) ==
    /\ Banked(new) <=> Banked(old)
    /\ Banked(old) => new.sections = old.sections /\ new.hash = old.hash

BanksKept == sync.pc \in Running => \A u \in Unit : KeepsBank(db[u], sync.rows[u])

Inv == TypeOK /\ Standing /\ RowsFit /\ BanksKept

-----------------------------------------------------------------------------
(* The elements of a sequence are elements of its set.                     *)
LEMMA Element ==
    ASSUME NEW S, NEW m \in Seq(S), NEW i \in DOMAIN m
    PROVE  i \in Nat /\ m[i] \in S
OBVIOUS

(* An entry of a manifest has the columns that sync stores.                *)
LEMMA EntryType ==
    ASSUME NEW m \in Manifest, NEW i \in DOMAIN m
    PROVE  /\ m[i].unit \in Unit
           /\ m[i].path \in Path
           /\ m[i].include \in BOOLEAN
           /\ m[i].exempt \in SUBSET (STRING \X Nat)
<1>1. m \in Seq([unit : Unit, path : Path, include : BOOLEAN, exempt : SUBSET (STRING \X Nat)])
  BY CorpusAssumption DEF CorpusAssumption
<1>2. m[i] \in [unit : Unit, path : Path, include : BOOLEAN, exempt : SUBSET (STRING \X Nat)]
  BY <1>1, Element
<1> QED BY <1>2

(* The position of an entry is a number.                                   *)
LEMMA PositionType ==
    ASSUME NEW m \in Manifest, NEW i \in DOMAIN m
    PROVE  Position(m, i) \in Nat
<1>1. m \in Seq([unit : Unit, path : Path, include : BOOLEAN, exempt : SUBSET (STRING \X Nat)])
  BY CorpusAssumption DEF CorpusAssumption
<1>2. i \in Nat
  BY <1>1, Element
<1>3. IsFiniteSet(1 .. i)
  BY <1>2, FS_Interval
<1>4. IsFiniteSet({j \in 1 .. i : CorpusOf[m[j].unit] = CorpusOf[m[i].unit]})
  BY <1>3, FS_Subset
<1> QED BY <1>4, FS_CardinalityType DEF Position

(* A unit that is synchronized gets a row of the table.                    *)
LEMMA SynchronizedType ==
    ASSUME NEW row \in Row \cup {NULL}, NEW m \in Manifest, NEW i \in DOMAIN m,
           NEW parsed \in DOMAIN Sections, NEW digest \in Text
    PROVE  Synchronized(row, m[i], Position(m, i), parsed, digest) \in Row
<1>1. parsed \in Text
  BY DEF Sections
<1>2. Len(parsed) \in Nat
  BY <1>1, CorpusAssumption DEF CorpusAssumption
<1>3. SectionsAfter(row, parsed, digest) \in {Sections[text] : text \in DOMAIN Sections}
  <2>1. CASE KeepsSections(row, digest)
    BY <2>1 DEF SectionsAfter, KeepsSections, Row
  <2>2. CASE ~ KeepsSections(row, digest)
    BY <2>2 DEF SectionsAfter
  <2> QED BY <2>1, <2>2
<1>4. Banked(row) \in BOOLEAN
  BY DEF Banked, Row
<1>5. (parsed # digest \/ (KeepsSections(row, digest) /\ row.torn)) \in BOOLEAN
  OBVIOUS
<1> DEFINE sections == SectionsAfter(row, parsed, digest)
           banked == Banked(row)
           torn == parsed # digest \/ (KeepsSections(row, digest) /\ row.torn)
           position == Position(m, i)
           lines == Len(parsed)
<1>6. sections \in {Sections[text] : text \in DOMAIN Sections}
  BY <1>3
<1>7. banked \in BOOLEAN /\ torn \in BOOLEAN
  BY <1>4, <1>5
<1>8. position \in Nat /\ lines \in Nat
  BY <1>2, PositionType
<1>9. Synchronized(row, m[i], Position(m, i), parsed, digest) =
        [path |-> m[i].path, position |-> position, include |-> m[i].include,
         hash |-> digest, lines |-> lines, sections |-> sections,
         exempt |-> m[i].exempt, banked |-> banked, torn |-> torn]
  BY DEF Synchronized
<1> HIDE DEF sections, banked, torn, position, lines
<1> QED BY <1>6, <1>7, <1>8, <1>9, EntryType DEF Row

(* The row that is stored fits its hash, if the old one did: sections are  *)
(* kept only under the hash they had.                                      *)
LEMMA SynchronizedFits ==
    ASSUME NEW row \in Row \cup {NULL}, NEW entry, NEW position,
           NEW parsed, NEW digest,
           Fits(row), ~ SourceChanged(row, digest)
    PROVE  Fits(Synchronized(row, entry, position, parsed, digest))
<1> DEFINE new == Synchronized(row, entry, position, parsed, digest)
<1>1. /\ new.hash = digest
      /\ new.lines = Len(parsed)
      /\ new.sections = SectionsAfter(row, parsed, digest)
      /\ new.torn = (parsed # digest \/ (KeepsSections(row, digest) /\ row.torn))
  BY DEF Synchronized
<1>2. SUFFICES ASSUME ~ new.torn
               PROVE  new.sections = Sections[new.hash] /\ new.lines = Len(new.hash)
  BY DEF Fits
<1>3. parsed = digest /\ ~ (KeepsSections(row, digest) /\ row.torn)
  BY <1>1, <1>2
<1>4. CASE KeepsSections(row, digest)
  <2>1. row # NULL /\ row.hash = digest
    BY <1>4 DEF KeepsSections, SourceChanged
  <2>2. row.sections = Sections[digest]
    BY <1>3, <1>4, <2>1 DEF Fits
  <2>3. new.sections = Sections[digest]
    BY <1>1, <1>4, <2>2 DEF SectionsAfter
  <2> QED BY <1>1, <1>3, <2>3
<1>5. CASE ~ KeepsSections(row, digest)
  BY <1>1, <1>3, <1>5 DEF SectionsAfter
<1> QED BY <1>4, <1>5

(* The row of a unit with a bank keeps its sections and its hash.          *)
LEMMA SynchronizedKeepsBank ==
    ASSUME NEW row \in Row \cup {NULL}, NEW entry, NEW position,
           NEW parsed, NEW digest,
           Synchronized(row, entry, position, parsed, digest) \in Row,
           ~ SourceChanged(row, digest)
    PROVE  KeepsBank(row, Synchronized(row, entry, position, parsed, digest))
<1> DEFINE new == Synchronized(row, entry, position, parsed, digest)
<1>1. /\ new.hash = digest
      /\ new.sections = SectionsAfter(row, parsed, digest)
      /\ new.banked = Banked(row)
  BY DEF Synchronized
<1>2. new # NULL
  BY RowAssumption DEF RowAssumption
<1>3. Banked(new) <=> Banked(row)
  BY <1>1, <1>2 DEF Banked
<1>4. ASSUME Banked(row)
      PROVE  new.sections = row.sections /\ new.hash = row.hash
  <2>1. row.hash = digest
    BY <1>4 DEF SourceChanged
  <2>2. KeepsSections(row, digest)
    BY <1>4 DEF KeepsSections, Banked
  <2> QED BY <1>1, <2>1, <2>2 DEF SectionsAfter
<1> QED BY <1>3, <1>4 DEF KeepsBank

-----------------------------------------------------------------------------
(* No unit has a row at the start.                                         *)
LEMMA InvInit == Init => Inv
<1> SUFFICES ASSUME Init PROVE Inv
  OBVIOUS
<1>1. TypeOK
  BY CorpusAssumption DEF Init, TypeOK, NoSync, NoStatus, CorpusAssumption
<1>2. Standing
  BY DEF Init, Standing, NoSync, NoStatus, Running
<1>3. RowsFit
  BY DEF Init, RowsFit, Fits, NoSync
<1>4. BanksKept
  BY DEF Init, BanksKept, NoSync, Running
<1> QED BY <1>1, <1>2, <1>3, <1>4 DEF Inv

(* The sync starts from the rows that are committed.                       *)
LEMMA SyncBeginStep == Inv /\ SyncBegin => Inv'
<1> SUFFICES ASSUME Inv, SyncBegin PROVE Inv'
  OBVIOUS
<1>1. TypeOK'
  BY DEF Inv, TypeOK, SyncBegin, Running
<1>2. Standing'
  BY DEF Inv, Standing, SyncBegin, TypeOK, Running
<1>3. RowsFit'
  BY DEF Inv, RowsFit, SyncBegin
<1>4. BanksKept'
  <2>1. sync'.rows = db /\ db' = db
    BY DEF SyncBegin
  <2> QED BY <2>1 DEF BanksKept, KeepsBank
<1> QED BY <1>1, <1>2, <1>3, <1>4 DEF Inv

(* A sync that fails forgets its rows.                                     *)
LEMMA SyncFailsStep ==
    ASSUME Inv, SyncFails, UNCHANGED <<source, manifest, db, status, synced, edits>>
    PROVE  Inv'
<1>1. /\ sync'.pc = "failed"
      /\ sync'.rows = [u \in Unit |-> NULL]
      /\ sync'.index = sync.index
  BY DEF Inv, TypeOK, SyncFails
<1>2. TypeOK'
  BY DEF Inv, TypeOK, SyncFails
<1>3. Standing'
  BY <1>1 DEF Inv, Standing, Running
<1>4. RowsFit'
  BY <1>1 DEF Inv, RowsFit, Fits
<1>5. BanksKept'
  BY <1>1 DEF BanksKept, Running
<1> QED BY <1>2, <1>3, <1>4, <1>5 DEF Inv

(* What is parsed has sections.                                            *)
LEMMA ParseUnitStep == Inv /\ ParseUnit => Inv'
<1> SUFFICES ASSUME Inv, ParseUnit PROVE Inv'
  OBVIOUS
<1> DEFINE text == source[Entry.path]
<1>1. CASE text # NULL /\ Parses(text)
  <2>1. sync' = [sync EXCEPT !.pc = "hash", !.parsed = text]
    BY <1>1 DEF ParseUnit
  <2>2. sync.manifest \in Manifest /\ sync.index \in DOMAIN sync.manifest
    <3>1. sync.manifest \in Manifest /\ sync.index \in Nat /\ sync.index >= 1
      BY DEF Inv, TypeOK, Standing, ParseUnit, Running
    <3>2. sync.manifest \in
            Seq([unit : Unit, path : Path, include : BOOLEAN, exempt : SUBSET (STRING \X Nat)])
      BY <3>1, CorpusAssumption DEF CorpusAssumption
    <3>3. sync.index <= Len(sync.manifest)
      BY DEF ParseUnit
    <3>4. DOMAIN sync.manifest = 1 .. Len(sync.manifest) /\ Len(sync.manifest) \in Nat
      BY <3>2
    <3> QED BY <3>1, <3>3, <3>4
  <2>3. Entry.path \in Path
    BY <2>2, EntryType DEF Entry
  <2>4. text \in Text
    BY <1>1, <2>3 DEF Inv, TypeOK
  <2>5. text \in DOMAIN Sections
    BY <1>1, <2>4 DEF Sections
  <2> HIDE DEF text
  <2>6. TypeOK'
    BY <2>1, <2>4 DEF Inv, TypeOK, ParseUnit, Running
  <2>7. /\ sync'.pc = "hash" /\ sync'.parsed = text
        /\ sync'.manifest = sync.manifest
        /\ sync'.index = sync.index
        /\ sync'.rows = sync.rows
    BY <2>1 DEF Inv, TypeOK
  <2>8. Standing'
    BY <2>2, <2>5, <2>7 DEF Inv, Standing, ParseUnit, Running
  <2>9. RowsFit'
    BY <2>7 DEF Inv, RowsFit, ParseUnit
  <2>10. BanksKept'
    BY <2>7 DEF Inv, BanksKept, ParseUnit, Running
  <2> QED BY <2>6, <2>8, <2>9, <2>10 DEF Inv
<1>2. CASE ~ (text # NULL /\ Parses(text))
  BY <1>2, SyncFailsStep DEF ParseUnit
<1> QED BY <1>1, <1>2

(* The unit that is synchronized fits its hash and keeps its bank; the     *)
(* others are left alone.                                                  *)
LEMMA HashUnitStep == Inv /\ HashUnit => Inv'
<1> SUFFICES ASSUME Inv, HashUnit PROVE Inv'
  OBVIOUS
<1> DEFINE digest == source[Entry.path]
           position == Position(sync.manifest, sync.index)
           refused == digest = NULL \/ Refused(sync.rows, Entry, position, sync.parsed, digest)
<1>1. CASE refused
  BY <1>1, SyncFailsStep DEF HashUnit
<1>2. CASE ~ refused
  <2>1. PICK u, row, new :
          /\ u = Entry.unit
          /\ row = sync.rows[u]
          /\ new = Synchronized(row, Entry, position, sync.parsed, digest)
    OBVIOUS
  <2>2. /\ sync.manifest \in Manifest
        /\ sync.index \in DOMAIN sync.manifest
        /\ sync.parsed \in DOMAIN Sections
        /\ sync.index \in Nat
    BY DEF Inv, TypeOK, Standing, HashUnit, Running
  <2>3. Entry = sync.manifest[sync.index] /\ Entry.path \in Path /\ u \in Unit
    BY <2>1, <2>2, EntryType DEF Entry
  <2>4. row \in Row \cup {NULL} /\ digest \in Text
    BY <1>2, <2>1, <2>3 DEF Inv, TypeOK
  <2>5. new \in Row
    BY <2>1, <2>2, <2>3, <2>4, SynchronizedType
  <2>6. ~ SourceChanged(row, digest)
    BY <1>2, <2>1 DEF Refused
  <2>7. Fits(row)
    BY <2>1, <2>3 DEF Inv, RowsFit
  <2>8. Fits(new)
    BY <2>1, <2>4, <2>6, <2>7, SynchronizedFits
  <2>9. KeepsBank(row, new)
    BY <2>1, <2>4, <2>5, <2>6, SynchronizedKeepsBank
  <2>10. sync' = [sync EXCEPT !.pc = "parse", !.index = @ + 1, !.parsed = NULL,
                              !.rows[u] = new]
    <3>1. sync' = [sync EXCEPT
              !.pc = "parse",
              !.index = @ + 1,
              !.parsed = NULL,
              !.rows[Entry.unit] = Synchronized(@, Entry, position, sync.parsed, digest)]
      BY <1>2, Zenon DEF HashUnit
    <3> QED BY <2>1, <3>1
  <2>11. /\ sync'.pc = "parse"
         /\ sync'.manifest = sync.manifest
         /\ sync'.index = sync.index + 1
         /\ sync'.parsed = NULL
         /\ sync'.rows = [sync.rows EXCEPT ![u] = new]
         /\ sync'.edited = sync.edited
    BY <2>10 DEF Inv, TypeOK
  <2>12. sync.rows \in [Unit -> Row \cup {NULL}]
    BY DEF Inv, TypeOK
  <2>13. sync'.rows \in [Unit -> Row \cup {NULL}]
    BY <2>5, <2>11, <2>12
  <2>14. TypeOK'
    <3>1. PICK rows : rows = sync'.rows
      OBVIOUS
    <3>2. PICK next \in Nat : next = sync.index + 1
      BY <2>2
    <3>3. sync' = [sync EXCEPT !.pc = "parse", !.index = next, !.parsed = NULL,
                               !.rows = rows]
      BY <2>10, <2>11, <3>1, <3>2 DEF Inv, TypeOK
    <3>4. rows \in [Unit -> Row \cup {NULL}]
      BY <2>13, <3>1
    <3>5. sync' \in [pc : Running \cup {"idle", "failed"}, manifest : Manifest \cup {<<>>},
                     index : Nat, parsed : Text \cup {NULL},
                     rows : [Unit -> Row \cup {NULL}], edited : BOOLEAN]
      BY <3>2, <3>3, <3>4 DEF Inv, TypeOK, Running
    <3> QED BY <3>5 DEF Inv, TypeOK, HashUnit
  <2>15. Standing'
    BY <2>2, <2>11 DEF Inv, Standing, HashUnit, Running
  <2>16. RowsFit'
    BY <2>8, <2>11, <2>12 DEF Inv, RowsFit, HashUnit
  <2>17. BanksKept'
    <3>1. \A v \in Unit : KeepsBank(db[v], sync.rows[v])
      BY DEF Inv, BanksKept, HashUnit, Running
    <3>2. KeepsBank(db[u], new)
      BY <2>1, <2>3, <2>9, <3>1 DEF KeepsBank
    <3>3. \A v \in Unit : KeepsBank(db[v], sync'.rows[v])
      BY <2>11, <2>12, <3>1, <3>2
    <3> QED BY <3>3 DEF BanksKept, HashUnit
  <2> QED BY <2>14, <2>15, <2>16, <2>17 DEF Inv
<1> QED BY <1>1, <1>2

(* The rows the sync worked on become the rows of the database.            *)
LEMMA SyncCommitStep == Inv /\ SyncCommit => Inv'
<1> SUFFICES ASSUME Inv, SyncCommit PROVE Inv'
  OBVIOUS
<1>1. db' = sync.rows /\ sync' = NoSync
  BY DEF SyncCommit
<1>2. TypeOK'
  <2>1. db' \in [Unit -> Row \cup {NULL}]
    BY <1>1 DEF Inv, TypeOK
  <2>2. sync' \in [pc : Running \cup {"idle", "failed"}, manifest : Manifest \cup {<<>>},
                   index : Nat, parsed : Text \cup {NULL},
                   rows : [Unit -> Row \cup {NULL}], edited : BOOLEAN]
    BY <1>1 DEF NoSync
  <2>3. status' \in [pc : {"idle", "digest", "select", "done"},
                     manifest : Manifest \cup {<<>>}, index : Nat,
                     digest : Text \cup {NULL}, in_sync : BOOLEAN, disturbed : BOOLEAN]
    BY DEF Inv, TypeOK, SyncCommit
  <2>4. synced' \in Manifest \cup {<<>>}
    BY DEF Inv, TypeOK, SyncCommit
  <2> QED BY <2>1, <2>2, <2>3, <2>4 DEF Inv, TypeOK, SyncCommit
<1>3. Standing'
  <2>1. /\ status'.pc = status.pc /\ status'.index = status.index
        /\ status'.manifest = status.manifest
    BY DEF Inv, TypeOK, SyncCommit
  <2> QED BY <1>1, <2>1 DEF Inv, Standing, NoSync, Running
<1>4. RowsFit'
  BY <1>1 DEF Inv, RowsFit, NoSync, Fits
<1>5. BanksKept'
  BY <1>1 DEF BanksKept, NoSync, Running
<1> QED BY <1>2, <1>3, <1>4, <1>5 DEF Inv

(* Status changes nothing but its own place.                               *)
LEMMA StatusStep ==
    Inv /\ (StatusBegin \/ StatusDigest \/ StatusSelect \/ StatusUnlisted) => Inv'
<1> SUFFICES ASSUME Inv, StatusBegin \/ StatusDigest \/ StatusSelect \/ StatusUnlisted
             PROVE  Inv'
  OBVIOUS
<1>1. UNCHANGED <<source, manifest, db, sync, synced, edits>>
  BY DEF StatusBegin, StatusDigest, StatusSelect, StatusUnlisted
<1>2. RowsFit' /\ BanksKept'
  BY <1>1 DEF Inv, RowsFit, BanksKept
<1> DEFINE StatusType == [pc : {"idle", "digest", "select", "done"},
                          manifest : Manifest \cup {<<>>}, index : Nat,
                          digest : Text \cup {NULL}, in_sync : BOOLEAN,
                          disturbed : BOOLEAN]
<1>3. SUFFICES /\ status' \in StatusType
               /\ status'.index >= 1
               /\ status'.pc \in {"digest", "select"} => status'.manifest \in Manifest
               /\ status'.pc = "select" => status'.index \in DOMAIN status'.manifest
  BY <1>1, <1>2 DEF Inv, TypeOK, Standing
<1>4. status \in StatusType /\ status.index >= 1
  BY DEF Inv, TypeOK, Standing
<1>5. CASE StatusBegin
  <2>1. PICK b \in BOOLEAN : b = WellFormed(manifest)
    BY Zenon DEF WellFormed
  <2>2. manifest \in Manifest
    BY DEF Inv, TypeOK
  <2>3. status' = [pc |-> IF b THEN "digest" ELSE "done", manifest |-> manifest, index |-> 1,
                   digest |-> NULL, in_sync |-> b, disturbed |-> FALSE]
    BY <1>5, <2>1, Zenon DEF StatusBegin
  <2> QED BY <2>1, <2>2, <2>3
<1>6. CASE StatusDigest
  <2>1. status.manifest \in Manifest /\ status.index \in Nat
    BY <1>4, <1>6 DEF Inv, Standing, StatusDigest
  <2>2. status.index \in DOMAIN status.manifest
    <3>1. status.manifest \in
            Seq([unit : Unit, path : Path, include : BOOLEAN, exempt : SUBSET (STRING \X Nat)])
      BY <2>1, CorpusAssumption DEF CorpusAssumption
    <3>2. status.index <= Len(status.manifest)
      BY <1>6 DEF StatusDigest
    <3>3. DOMAIN status.manifest = 1 .. Len(status.manifest) /\ Len(status.manifest) \in Nat
      BY <3>1
    <3> QED BY <1>4, <2>1, <3>2, <3>3
  <2>3. PICK digest : digest = source[status.manifest[status.index].path]
    OBVIOUS
  <2>4. digest \in Text \cup {NULL}
    BY <2>1, <2>2, <2>3, EntryType DEF Inv, TypeOK
  <2>5. status' = [status EXCEPT !.pc = "select", !.digest = digest]
    BY <1>6, <2>3 DEF StatusDigest
  <2> QED BY <1>4, <2>1, <2>2, <2>4, <2>5
<1>7. CASE StatusSelect
  <2>1. PICK b \in BOOLEAN :
          b = (status.in_sync /\ RowMatches(db[status.manifest[status.index].unit],
                                            status.manifest[status.index], status.digest))
    OBVIOUS
  <2>2. PICK next \in Nat : next = status.index + 1 /\ next >= 1
    BY <1>4
  <2>3. status' = [status EXCEPT !.pc = "digest", !.index = next, !.digest = NULL,
                                 !.in_sync = b]
    BY <1>7, <2>1, <2>2, Zenon DEF StatusSelect
  <2>4. status.manifest \in Manifest
    BY <1>7 DEF Inv, Standing, StatusSelect
  <2> QED BY <1>4, <2>1, <2>2, <2>3, <2>4
<1>8. CASE StatusUnlisted
  BY <1>4, <1>8 DEF StatusUnlisted
<1> QED BY <1>5, <1>6, <1>7, <1>8

(* A file that is edited is still a text, or a manifest.                   *)
LEMMA EditStep == Inv /\ (EditSource \/ EditManifest) => Inv'
<1> SUFFICES ASSUME Inv, EditSource \/ EditManifest PROVE Inv'
  OBVIOUS
<1>1. /\ db' = db
      /\ synced' = synced
      /\ edits < MaxEdits /\ edits' = edits + 1
      /\ sync' = [sync EXCEPT !.edited = TRUE]
      /\ status' = [status EXCEPT !.disturbed = TRUE]
  BY DEF EditSource, EditManifest, Edited
<1>2. source' \in [Path -> Text \cup {NULL}] /\ manifest' \in Manifest
  BY DEF Inv, TypeOK, EditSource, EditManifest
<1>3. edits' \in 0 .. MaxEdits
  BY <1>1, CorpusAssumption DEF Inv, TypeOK, CorpusAssumption
<1>4. /\ sync'.pc = sync.pc /\ sync'.manifest = sync.manifest
      /\ sync'.index = sync.index /\ sync'.parsed = sync.parsed
      /\ sync'.rows = sync.rows
      /\ status'.pc = status.pc /\ status'.manifest = status.manifest
      /\ status'.index = status.index
  BY <1>1 DEF Inv, TypeOK
<1>5. TypeOK'
  BY <1>1, <1>2, <1>3 DEF Inv, TypeOK
<1>6. Standing'
  BY <1>4 DEF Inv, Standing
<1>7. RowsFit' /\ BanksKept'
  BY <1>1, <1>4 DEF Inv, RowsFit, BanksKept
<1> QED BY <1>5, <1>6, <1>7 DEF Inv

(* A bank is imported for a unit; its sections stay as they are.           *)
LEMMA BankImportStep == Inv /\ BankImport => Inv'
<1> SUFFICES ASSUME Inv, BankImport PROVE Inv'
  OBVIOUS
<1>1. /\ sync.pc \notin Running
      /\ UNCHANGED <<source, manifest, sync, status, synced, edits>>
  BY DEF BankImport
<1>2. PICK u \in Unit : db[u] # NULL /\ db' = [db EXCEPT ![u].banked = TRUE]
  BY DEF BankImport
<1>3. db[u] \in Row
  BY <1>2 DEF Inv, TypeOK
<1>4. PICK row, new : row = db[u] /\ new = [row EXCEPT !.banked = TRUE]
  OBVIOUS
<1>5. /\ new \in Row
      /\ new.sections = row.sections /\ new.hash = row.hash
      /\ new.lines = row.lines /\ new.torn = row.torn
  BY <1>3, <1>4 DEF Row
<1>6. db' = [db EXCEPT ![u] = new]
  BY <1>2, <1>4
<1>7. TypeOK'
  BY <1>1, <1>5, <1>6 DEF Inv, TypeOK
<1>8. Standing'
  BY <1>1 DEF Inv, Standing
<1>9. RowsFit'
  <2>1. Fits(row) /\ row # NULL
    BY <1>2, <1>4 DEF Inv, RowsFit
  <2>2. Fits(new)
    BY <1>5, <2>1 DEF Fits
  <2>3. db \in [Unit -> Row \cup {NULL}]
    BY DEF Inv, TypeOK
  <2> QED BY <1>1, <1>6, <2>2, <2>3 DEF Inv, RowsFit
<1>10. BanksKept'
  BY <1>1 DEF BanksKept
<1> QED BY <1>7, <1>8, <1>9, <1>10 DEF Inv

(* Every step keeps the invariant.                                         *)
LEMMA InvStep == Inv /\ [Next]_vars => Inv'
<1> SUFFICES ASSUME Inv, [Next]_vars PROVE Inv'
  OBVIOUS
<1>1. CASE UNCHANGED vars
  BY <1>1 DEF vars, Inv, TypeOK, Standing, RowsFit, BanksKept
<1>2. CASE Next
  BY <1>2, SyncBeginStep, ParseUnitStep, HashUnitStep, SyncCommitStep, StatusStep,
     EditStep, BankImportStep DEF Next
<1> QED BY <1>1, <1>2

LEMMA InvAlways == Spec => []Inv
BY InvInit, InvStep, PTL DEF Spec

-----------------------------------------------------------------------------
(* The tables, the sync and the status hold values of their kinds          *)
(* (commands_corpus.c, every operation).                                   *)
THEOREM CorpusTypeCorrect == Spec => []TypeOK
<1>1. Inv => TypeOK
  BY DEF Inv
<1> QED BY <1>1, InvAlways, PTL

(* The sections of a unit are those of the text whose hash it has          *)
(* (synchronize_unit), unless a source was edited between the two reads.   *)
THEOREM SectionsFit == Spec => []SectionsMatchHash
<1>1. Inv => SectionsMatchHash
  BY DEF Inv, RowsFit, Fits, SectionsMatchHash, Indexed
<1> QED BY <1>1, InvAlways, PTL

(* What a command keeps of a unit with a bank; only an import brings one.  *)
Frozen == \A u \in Indexed :
              Banked(db[u]) =>
                  /\ Banked(db'[u])
                  /\ db'[u].sections = db[u].sections
                  /\ db'[u].hash = db[u].hash

LEMMA FrozenStep == Inv /\ Next => Frozen
<1> SUFFICES ASSUME Inv, Next PROVE Frozen
  OBVIOUS
<1>1. CASE SyncCommit
  <2>1. db' = sync.rows /\ sync.pc \in Running
    BY <1>1 DEF SyncCommit, Running
  <2> QED BY <2>1 DEF Inv, BanksKept, KeepsBank, Indexed, Frozen
<1>2. CASE BankImport
  <2>1. PICK u \in Unit : ~ Banked(db[u]) /\ db' = [db EXCEPT ![u].banked = TRUE]
    BY <1>2 DEF BankImport
  <2>2. \A v \in Unit \ {u} : db'[v] = db[v]
    BY <2>1 DEF Inv, TypeOK
  <2> QED BY <2>1, <2>2 DEF Indexed, Frozen
<1>3. CASE db' = db
  BY <1>3 DEF Frozen
<1> QED BY <1>1, <1>2, <1>3 DEF Next, SyncBegin, ParseUnit, HashUnit, StatusBegin,
           StatusDigest, StatusSelect, StatusUnlisted, EditSource, EditManifest

(* No sync changes the sections or the hash of a unit with a bank          *)
(* (synchronize_unit), whatever is edited while it runs.                   *)
THEOREM BankFrozen == Spec => BankedStaysFrozen
<1>1. Inv /\ [Next]_vars => [Frozen]_vars
  BY FrozenStep
<1> QED BY <1>1, InvAlways, PTL DEF Spec, BankedStaysFrozen, Frozen

-----------------------------------------------------------------------------
(* Numbers below are well-founded, as a relation the provers can use.      *)
LEMMA NatRelation ==
    \E R : IsWellFoundedOn(R, Nat) /\ \A x, y \in Nat : x < y => <<x, y>> \in R
<1> DEFINE R == {ss \in Nat \X Nat : ss[1] < ss[2]}
<1>1. IsWellFoundedOn(R, Nat)
  BY NatLessThanWellFounded DEF OpToRel
<1>2. \A x, y \in Nat : x < y => <<x, y>> \in R
  OBVIOUS
<1> HIDE DEF R
<1> QED BY <1>1, <1>2

(* Min is an element, and the least.                                       *)
LEMMA MinLeast ==
    ASSUME NEW S, S \subseteq Nat, S # {}
    PROVE  Min(S) \in S /\ \A y \in S : Min(S) <= y
<1>1. PICK R : IsWellFoundedOn(R, Nat) /\ \A x, y \in Nat : x < y => <<x, y>> \in R
  BY NatRelation
<1>2. ASSUME NEW U, NEW T, IsWellFoundedOn(R, U), T \subseteq U, T # {}
      PROVE  \E x \in T : \A y \in T : ~ (<<y, x>> \in R)
  BY <1>2, WFMin
<1>3. IsWellFoundedOn(R, Nat)
  BY <1>1
<1>4. PICK x \in S : \A y \in S : ~ (<<y, x>> \in R)
  BY <1>2, <1>3
<1>5. \A y \in S : ~ (y < x)
  BY <1>1, <1>4
<1>6. \A y \in S : x <= y
  BY <1>5
<1> QED BY <1>6 DEF Min

(* The sections of one text.                                               *)
SectionAt(text, i) ==
    [key        |-> SectionKey(text, i),
     start_line |-> i,
     end_line   |-> SectionEnd(text, i),
     start_page |-> PageAt(text, i),
     end_page   |-> PageAt(text, SectionEnd(text, i)),
     is_summary |-> text[i].kind = "summary"]

LEMMA SectionsAre ==
    ASSUME NEW text \in DOMAIN Sections
    PROVE  Sections[text] = {SectionAt(text, i) : i \in SectionStarts(text)}
BY DEF Sections, SectionAt

(* Sections start at lines of the text, and there is one.                  *)
LEMMA StartLines ==
    ASSUME NEW text \in DOMAIN Sections
    PROVE  /\ Len(text) \in Nat
           /\ SectionStarts(text) \subseteq 1 .. Len(text)
           /\ SectionStarts(text) # {}
<1>1. text \in Text /\ Parses(text)
  BY DEF Sections
<1>2. text \in Seq([kind : LineKind, page : Nat, key : STRING])
  BY <1>1, CorpusAssumption DEF CorpusAssumption
<1>3. DOMAIN text = 1 .. Len(text) /\ Len(text) \in Nat
  BY <1>2
<1>4. Markers(text) \subseteq DOMAIN text /\ Markers(text) # {}
  BY <1>1 DEF Markers, Parses
<1>5. FirstMarker(text) \in DOMAIN text
  <2>1. Markers(text) \subseteq Nat
    BY <1>3, <1>4
  <2> QED BY <1>4, <2>1, MinLeast DEF FirstMarker
<1> QED BY <1>3, <1>5 DEF SectionStarts

(* A section ends above the next one, or with the text.                    *)
LEMMA EndLines ==
    ASSUME NEW text \in DOMAIN Sections, NEW i \in SectionStarts(text)
    PROVE  /\ SectionEnd(text, i) \in Nat
           /\ i <= SectionEnd(text, i)
           /\ SectionEnd(text, i) <= Len(text)
           /\ \A j \in SectionStarts(text) : j > i => SectionEnd(text, i) < j
           /\ \/ SectionEnd(text, i) = Len(text)
              \/ SectionEnd(text, i) + 1 \in SectionStarts(text)
<1> DEFINE below == {k \in SectionStarts(text) : k > i}
           ends == {j - 1 : j \in below} \cup {Len(text)}
<1>1. /\ Len(text) \in Nat /\ i \in 1 .. Len(text)
      /\ SectionStarts(text) \subseteq 1 .. Len(text)
  BY StartLines
<1>2. \A j \in below : j \in Nat /\ j - 1 \in Nat /\ i <= j - 1 /\ (j - 1) + 1 = j
  BY <1>1
<1>3. ends \subseteq Nat /\ \A e \in ends : i <= e
  BY <1>1, <1>2
<1>4. SectionEnd(text, i) = Min(ends)
  BY DEF SectionEnd
<1>5. Len(text) \in ends
  OBVIOUS
<1>6. \A j \in below : j - 1 \in ends
  OBVIOUS
<1>7. \A e \in ends : e = Len(text) \/ e + 1 \in below
  BY <1>2
<1> HIDE DEF ends
<1>8. SectionEnd(text, i) \in ends /\ \A e \in ends : SectionEnd(text, i) <= e
  BY <1>3, <1>4, <1>5, MinLeast
<1>9. \A j \in below : SectionEnd(text, i) < j
  <2> SUFFICES ASSUME NEW j \in below PROVE SectionEnd(text, i) < j
    OBVIOUS
  <2>1. SectionEnd(text, i) <= j - 1 /\ j \in Nat /\ SectionEnd(text, i) \in Nat
    BY <1>2, <1>3, <1>6, <1>8
  <2> QED BY <2>1
<1> QED BY <1>1, <1>3, <1>5, <1>7, <1>8, <1>9

(* No two sections of a text have the same key.                            *)
LEMMA KeysDiffer ==
    ASSUME NEW text \in DOMAIN Sections, NEW i \in SectionStarts(text),
           NEW j \in SectionStarts(text), i < j
    PROVE  SectionKey(text, i) # SectionKey(text, j)
<1> DEFINE Above(n) == {k \in SectionStarts(text) : k < n}
           Repeated(n) == \E k \in Above(n) : HeadingKey(text, k) = HeadingKey(text, n)
           Number(n) == IF Repeated(n) THEN Cardinality(Above(n)) + 1 ELSE 0
<1>1. /\ Len(text) \in Nat /\ i \in Nat /\ j \in Nat
      /\ SectionStarts(text) \subseteq 1 .. Len(text)
  BY StartLines
<1>2. \A n : SectionKey(text, n) = <<HeadingKey(text, n), Number(n)>>
  BY DEF SectionKey
<1>3. IsFiniteSet(SectionStarts(text))
  <2>1. 1 \in Int /\ Len(text) \in Int
    BY <1>1
  <2>2. IsFiniteSet(1 .. Len(text))
    BY <2>1, FS_Interval
  <2> QED BY <1>1, <2>2, FS_Subset
<1>4. IsFiniteSet(Above(j)) /\ IsFiniteSet(Above(i))
  BY <1>3, FS_Subset
<1>5. Above(i) \subseteq Above(j) /\ i \in Above(j) /\ i \notin Above(i)
  BY <1>1
<1>6. Cardinality(Above(i)) # Cardinality(Above(j))
  BY <1>4, <1>5, FS_Subset
<1>7. Cardinality(Above(i)) \in Nat /\ Cardinality(Above(j)) \in Nat
  BY <1>4, FS_CardinalityType
<1> SUFFICES ASSUME HeadingKey(text, i) = HeadingKey(text, j), Number(i) = Number(j)
             PROVE  FALSE
  BY <1>2
<1>8. Repeated(j)
  BY <1>5
<1> HIDE DEF Above
<1>9. CASE Repeated(i)
  BY <1>6, <1>7, <1>8, <1>9
<1>10. CASE ~ Repeated(i)
  BY <1>7, <1>8, <1>10
<1> QED BY <1>9, <1>10

(* SectionsTile, of the sections of one text.                              *)
Tiled(sections) ==
    /\ \A s, t \in sections : s.key = t.key => s = t
    /\ \A s \in sections :
           /\ s.start_line <= s.end_line
           /\ \/ s.end_line = Max({o.end_line : o \in sections})
              \/ \E t \in sections : t.start_line = s.end_line + 1
    /\ \A s, t \in sections :
           s # t => s.end_line < t.start_line \/ t.end_line < s.start_line

LEMMA SectionsTiled ==
    ASSUME NEW text \in DOMAIN Sections
    PROVE  Tiled(Sections[text])
<1> DEFINE sections == Sections[text]
           starts == SectionStarts(text)
<1>1. sections = {SectionAt(text, i) : i \in starts}
  BY SectionsAre
<1>2. \A i : /\ SectionAt(text, i).key = SectionKey(text, i)
             /\ SectionAt(text, i).start_line = i
             /\ SectionAt(text, i).end_line = SectionEnd(text, i)
  BY DEF SectionAt
<1>3. /\ Len(text) \in Nat
      /\ \A i \in starts : i \in Nat /\ SectionEnd(text, i) \in Nat
  BY StartLines, EndLines
<1> HIDE DEF sections, starts
<1>4. ASSUME NEW s \in sections, NEW t \in sections, s.key = t.key PROVE s = t
  <2>1. PICK i \in starts, j \in starts : s = SectionAt(text, i) /\ t = SectionAt(text, j)
    BY <1>1
  <2>2. SectionKey(text, i) = SectionKey(text, j)
    BY <1>2, <1>4, <2>1
  <2>3. ~ (i < j) /\ ~ (j < i)
    BY <2>2, KeysDiffer DEF starts
  <2> QED BY <1>3, <2>1, <2>3
<1>5. ASSUME NEW s \in sections, NEW t \in sections, s # t
      PROVE  s.end_line < t.start_line \/ t.end_line < s.start_line
  <2>1. PICK i \in starts, j \in starts : s = SectionAt(text, i) /\ t = SectionAt(text, j)
    BY <1>1
  <2>2. i < j \/ j < i
    BY <1>3, <1>5, <2>1
  <2>3. i < j => SectionEnd(text, i) < j
    BY EndLines DEF starts
  <2>4. j < i => SectionEnd(text, j) < i
    BY EndLines DEF starts
  <2> QED BY <1>2, <2>1, <2>2, <2>3, <2>4
<1> DEFINE ends == {o.end_line : o \in sections}
<1>6. ASSUME NEW s \in sections, s.end_line = Len(text)
      PROVE  s.end_line = Max(ends)
  <2>1. Len(text) \in ends /\ \A e \in ends : e \in Nat /\ Len(text) >= e
    <3>1. \A i \in starts : SectionEnd(text, i) <= Len(text)
      BY EndLines DEF starts
    <3> QED BY <1>1, <1>2, <1>3, <1>6, <3>1
  <2> HIDE DEF ends
  <2>2. \E e \in ends : \A o \in ends : e >= o
    BY <2>1
  <2>3. Max(ends) \in ends /\ \A o \in ends : Max(ends) >= o
    BY <2>2 DEF Max
  <2>4. Max(ends) \in Nat /\ Max(ends) >= Len(text) /\ Len(text) >= Max(ends)
    BY <2>1, <2>3
  <2> QED BY <1>3, <1>6, <2>4
<1>7. ASSUME NEW s \in sections
      PROVE  /\ s.start_line <= s.end_line
             /\ s.end_line = Max(ends) \/ \E t \in sections : t.start_line = s.end_line + 1
  <2>1. PICK i \in starts : s = SectionAt(text, i)
    BY <1>1
  <2>2. s.start_line = i /\ s.end_line = SectionEnd(text, i)
    BY <1>2, <2>1
  <2>3. /\ i <= SectionEnd(text, i)
        /\ SectionEnd(text, i) = Len(text) \/ SectionEnd(text, i) + 1 \in starts
    BY EndLines DEF starts
  <2>4. CASE SectionEnd(text, i) = Len(text)
    BY <1>6, <2>2, <2>3, <2>4
  <2>5. CASE SectionEnd(text, i) + 1 \in starts
    <3>1. SectionAt(text, SectionEnd(text, i) + 1) \in sections
      BY <1>1, <2>5
    <3> QED BY <1>2, <2>2, <2>3, <3>1
  <2> QED BY <2>3, <2>4, <2>5
<1> QED BY <1>4, <1>5, <1>7 DEF Tiled, sections

(* The sections of a unit leave no line out, share none and have keys of   *)
(* their own (parse_source_document, insert_sections).                     *)
THEOREM SectionsAreTiled == Spec => []SectionsTile
<1>1. TypeOK => SectionsTile
  <2> SUFFICES ASSUME TypeOK, NEW u \in Indexed PROVE Tiled(db[u].sections)
    BY DEF SectionsTile, Tiled
  <2>1. db[u] \in Row
    BY DEF TypeOK, Indexed
  <2>2. PICK text \in DOMAIN Sections : db[u].sections = Sections[text]
    BY <2>1 DEF Row
  <2> QED BY <2>2, SectionsTiled
<1> QED BY <1>1, CorpusTypeCorrect, PTL

(* The lines of a section are numbers in order.                            *)
LEMMA SectionLines ==
    ASSUME NEW text \in DOMAIN Sections, NEW s \in Sections[text]
    PROVE  s.start_line \in Nat /\ s.end_line \in Nat /\ s.start_line <= s.end_line
<1>1. PICK i \in SectionStarts(text) : s = SectionAt(text, i)
  BY SectionsAre
<1>2. i \in Nat /\ SectionEnd(text, i) \in Nat /\ i <= SectionEnd(text, i)
  BY StartLines, EndLines
<1> QED BY <1>1, <1>2 DEF SectionAt

-----------------------------------------------------------------------------
(* How far a sync and a status have come.                                  *)

(* The row of entry i of a manifest is what the entry says.                *)
Placed(rows, m, i) ==
    LET row == rows[m[i].unit]
    IN  /\ row # NULL
        /\ row.path = m[i].path
        /\ row.position = Position(m, i)
        /\ row.include = m[i].include
        /\ row.exempt = m[i].exempt
        /\ row.exempt \subseteq Keys(row.sections)

Done(m, index) == {i \in DOMAIN m : i < index}

(* A sync that runs has placed the units of the entries it is done with    *)
(* and left the others as they were.  While no file is edited it is at     *)
(* work on the files that are there.                                       *)
SyncSoFar ==
    sync.pc \in Running =>
        /\ WellFormed(sync.manifest)
        /\ \A i \in Done(sync.manifest, sync.index) : Placed(sync.rows, sync.manifest, i)
        /\ \A u \in Unit :
               (\A i \in Done(sync.manifest, sync.index) : sync.manifest[i].unit # u) =>
                   sync.rows[u] = db[u]
        /\ ~ sync.edited =>
               /\ sync.manifest = manifest
               /\ sync.pc = "hash" => sync.parsed = source[Entry.path]
               /\ \A i \in Done(sync.manifest, sync.index) :
                      sync.rows[sync.manifest[i].unit].hash = source[sync.manifest[i].path]

(* Entry i of the manifest has the row and the source it should have.      *)
InSync(rows, m, files, i) == RowMatches(rows[m[i].unit], m[i], files[m[i].path])

(* While no file is edited, a status that says in_sync so far is right     *)
(* about the entries it is done with, and in the end about all of them.    *)
StatusSoFar ==
    status.in_sync /\ ~ status.disturbed =>
        /\ status.pc \in {"digest", "select"} =>
               /\ status.manifest = manifest
               /\ \A i \in Done(manifest, status.index) : InSync(db, manifest, source, i)
        /\ status.pc = "select" => status.digest = source[manifest[status.index].path]
        /\ status.pc = "done" =>
               /\ Unlisted(manifest) = {}
               /\ \A i \in DOMAIN manifest : InSync(db, manifest, source, i)

SyncInv == Inv /\ SyncSoFar /\ StatusSoFar /\ LastSyncStands /\ RefusedWithReason

(* A manifest is a finite list.                                            *)
LEMMA EntriesOf ==
    ASSUME NEW m \in Manifest
    PROVE  /\ Len(m) \in Nat
           /\ DOMAIN m = 1 .. Len(m)
BY CorpusAssumption DEF CorpusAssumption

(* Two units of a corpus never have the same position in a manifest.       *)
LEMMA PositionsDiffer ==
    ASSUME NEW m \in Manifest, NEW i \in DOMAIN m, NEW j \in DOMAIN m, j < i,
           CorpusOf[m[j].unit] = CorpusOf[m[i].unit]
    PROVE  Position(m, j) # Position(m, i)
<1> DEFINE UpTo(n) == {k \in 1 .. n : CorpusOf[m[k].unit] = CorpusOf[m[i].unit]}
<1>1. i \in Nat /\ j \in Nat /\ i >= 1
  BY EntriesOf
<1>2. Position(m, j) = Cardinality(UpTo(j)) /\ Position(m, i) = Cardinality(UpTo(i))
  BY DEF Position
<1>3. IsFiniteSet(UpTo(i))
  <2>1. 1 \in Int /\ i \in Int
    BY <1>1
  <2>2. IsFiniteSet(1 .. i)
    BY <2>1, FS_Interval
  <2> QED BY <2>2, FS_Subset
<1>4. UpTo(j) \subseteq UpTo(i) /\ i \in UpTo(i) /\ i \notin UpTo(j)
  BY <1>1
<1> HIDE DEF UpTo
<1> QED BY <1>2, <1>3, <1>4, FS_Subset

-----------------------------------------------------------------------------
(* One unit.                                                               *)

(* What HashUnit does to the sync where it is not refused.                 *)
LEMMA Accepted ==
    ASSUME Inv, HashUnit,
           ~ (source[Entry.path] = NULL
              \/ Refused(sync.rows, Entry, Position(sync.manifest, sync.index),
                         sync.parsed, source[Entry.path]))
    PROVE  /\ Entry.unit \in Unit
           /\ sync'.pc = "parse"
           /\ sync'.manifest = sync.manifest
           /\ sync'.index = sync.index + 1
           /\ sync'.edited = sync.edited
           /\ sync'.rows =
                [sync.rows EXCEPT ![Entry.unit] =
                    Synchronized(sync.rows[Entry.unit], Entry,
                                 Position(sync.manifest, sync.index),
                                 sync.parsed, source[Entry.path])]
           /\ Synchronized(sync.rows[Entry.unit], Entry,
                           Position(sync.manifest, sync.index),
                           sync.parsed, source[Entry.path]) \in Row
<1> DEFINE digest == source[Entry.path]
           position == Position(sync.manifest, sync.index)
<1>1. PICK u, new :
        /\ u = Entry.unit
        /\ new = Synchronized(sync.rows[u], Entry, position, sync.parsed, digest)
  OBVIOUS
<1>2. sync' = [sync EXCEPT !.pc = "parse", !.index = @ + 1, !.parsed = NULL,
                           !.rows[u] = new]
  <2>1. sync' = [sync EXCEPT
            !.pc = "parse",
            !.index = @ + 1,
            !.parsed = NULL,
            !.rows[Entry.unit] = Synchronized(@, Entry, position, sync.parsed, digest)]
    BY Zenon DEF HashUnit
  <2> QED BY <1>1, <2>1
<1>3. /\ sync.manifest \in Manifest
      /\ sync.index \in DOMAIN sync.manifest
      /\ sync.parsed \in DOMAIN Sections
  BY DEF Inv, Standing, HashUnit, Running
<1>4. Entry = sync.manifest[sync.index] /\ Entry.path \in Path /\ Entry.unit \in Unit
  BY <1>3, EntryType DEF Entry
<1>5. sync.rows[u] \in Row \cup {NULL} /\ digest \in Text
  BY <1>1, <1>4 DEF Inv, TypeOK
<1>6. new \in Row
  BY <1>1, <1>3, <1>4, <1>5, SynchronizedType
<1> QED BY <1>1, <1>2, <1>4, <1>6 DEF Inv, TypeOK

(* It is then what its entry says.                                         *)
LEMMA AcceptedPlaced ==
    ASSUME NEW rows, NEW entry, NEW position, NEW parsed, NEW digest,
           ~ Refused(rows, entry, position, parsed, digest),
           Synchronized(rows[entry.unit], entry, position, parsed, digest) \in Row
    PROVE  LET row == Synchronized(rows[entry.unit], entry, position, parsed, digest)
           IN  /\ row # NULL
               /\ row.path = entry.path
               /\ row.position = position
               /\ row.include = entry.include
               /\ row.exempt = entry.exempt
               /\ row.exempt \subseteq Keys(row.sections)
               /\ row.hash = digest
<1> DEFINE row == Synchronized(rows[entry.unit], entry, position, parsed, digest)
<1>1. row # NULL
  BY RowAssumption DEF RowAssumption
<1>2. /\ row.path = entry.path /\ row.position = position /\ row.include = entry.include
      /\ row.exempt = entry.exempt /\ row.hash = digest
      /\ row.sections = SectionsAfter(rows[entry.unit], parsed, digest)
  BY DEF Synchronized
<1>3. entry.exempt \subseteq Keys(SectionsAfter(rows[entry.unit], parsed, digest))
  BY DEF Refused
<1> QED BY <1>1, <1>2, <1>3

(* Only the entry that comes next is new among those that are done.        *)
LEMMA DoneGrows ==
    ASSUME NEW m, NEW n \in Nat, DOMAIN m \subseteq Nat
    PROVE  \A i \in Done(m, n + 1) : i \in Done(m, n) \/ i = n
BY DEF Done

LEMMA HashUnitSoFar ==
    ASSUME Inv, SyncSoFar, HashUnit, sync'.pc \in Running
    PROVE  SyncSoFar'
<1> DEFINE m == sync.manifest
           n == sync.index
           digest == source[Entry.path]
           new == Synchronized(sync.rows[Entry.unit], Entry, Position(m, n),
                               sync.parsed, digest)
<1>1. ~ (digest = NULL \/ Refused(sync.rows, Entry, Position(m, n), sync.parsed, digest))
  <2>1. SyncFails => sync'.pc = "failed"
    BY DEF SyncFails, Inv, TypeOK
  <2> QED BY <2>1 DEF HashUnit, Running
<1>2. /\ Entry.unit \in Unit
      /\ sync'.pc = "parse" /\ sync'.manifest = m /\ sync'.index = n + 1
      /\ sync'.edited = sync.edited
      /\ sync'.rows = [sync.rows EXCEPT ![Entry.unit] = new]
      /\ new \in Row
  BY <1>1, Accepted
<1>3. /\ m \in Manifest /\ n \in DOMAIN m /\ n \in Nat /\ DOMAIN m \subseteq Nat
      /\ sync.pc = "hash" /\ Entry = m[n]
  BY EntriesOf DEF Inv, Standing, HashUnit, Running, Entry
<1>4. /\ WellFormed(m)
      /\ \A i \in Done(m, n) : Placed(sync.rows, m, i)
      /\ \A u \in Unit : (\A i \in Done(m, n) : m[i].unit # u) => sync.rows[u] = db[u]
      /\ ~ sync.edited =>
             /\ m = manifest
             /\ \A i \in Done(m, n) : sync.rows[m[i].unit].hash = source[m[i].path]
  BY <1>3 DEF SyncSoFar, Running
<1>5. UNCHANGED <<source, manifest, db>>
  BY DEF HashUnit
<1>6. sync.rows \in [Unit -> Row \cup {NULL}]
  BY DEF Inv, TypeOK
<1> HIDE DEF m, n, new, digest
<1>7. \A i \in Done(m, n) : m[i].unit \in Unit /\ m[i].unit # m[n].unit
  <2>1. \A i \in Done(m, n) : i \in DOMAIN m /\ i # n
    BY <1>3 DEF Done
  <2>2. \A i, j \in DOMAIN m : i # j => m[i].unit # m[j].unit
    BY <1>4 DEF WellFormed
  <2>3. \A i \in DOMAIN m : m[i].unit \in Unit
    BY <1>3, EntryType
  <2> QED BY <1>3, <2>1, <2>2, <2>3
<1>8. /\ sync'.rows[m[n].unit] = new
      /\ \A i \in Done(m, n) : sync'.rows[m[i].unit] = sync.rows[m[i].unit]
      /\ \A u \in Unit : u # m[n].unit => sync'.rows[u] = sync.rows[u]
  BY <1>2, <1>3, <1>6, <1>7
<1>9. Placed(sync'.rows, m, n) /\ new.hash = digest
  <2>1. /\ ~ Refused(sync.rows, m[n], Position(m, n), sync.parsed, digest)
        /\ new = Synchronized(sync.rows[m[n].unit], m[n], Position(m, n),
                              sync.parsed, digest)
    BY <1>1, <1>3 DEF new
  <2>2. Synchronized(sync.rows[m[n].unit], m[n], Position(m, n), sync.parsed, digest) \in Row
    BY <1>2, <2>1
  <2>3. /\ new # NULL
        /\ new.path = m[n].path
        /\ new.position = Position(m, n)
        /\ new.include = m[n].include
        /\ new.exempt = m[n].exempt
        /\ new.exempt \subseteq Keys(new.sections)
        /\ new.hash = digest
    BY <2>1, <2>2, AcceptedPlaced
  <2> QED BY <1>8, <2>3 DEF Placed
<1>10. \A i \in Done(m, n) : Placed(sync'.rows, m, i)
  BY <1>4, <1>8 DEF Placed
<1>11. \A i \in Done(m, n + 1) : i \in Done(m, n) \/ i = n
  BY <1>3, DoneGrows
<1>12. \A i \in Done(m, n) : i \in Done(m, n + 1)
  BY <1>3 DEF Done
<1>13. n \in Done(m, n + 1)
  BY <1>3 DEF Done
<1>14. \A i \in Done(m, n + 1) : Placed(sync'.rows, m, i)
  BY <1>9, <1>10, <1>11
<1>15. ASSUME NEW u \in Unit, \A i \in Done(m, n + 1) : m[i].unit # u
       PROVE  sync'.rows[u] = db[u]
  <2>1. u # m[n].unit /\ \A i \in Done(m, n) : m[i].unit # u
    BY <1>12, <1>13, <1>15
  <2> QED BY <1>4, <1>8, <2>1
<1>16. ASSUME ~ sync.edited
       PROVE  \A i \in Done(m, n + 1) : sync'.rows[m[i].unit].hash = source[m[i].path]
  <2>1. digest = source[m[n].path]
    BY <1>3 DEF digest
  <2> QED BY <1>4, <1>8, <1>9, <1>11, <1>16, <2>1
<1>17. sync'.pc # "hash"
  BY <1>2
<1> QED BY <1>2, <1>4, <1>5, <1>14, <1>15, <1>16, <1>17 DEF SyncSoFar

-----------------------------------------------------------------------------
(* Steps of the sync.                                                      *)
LEMMA SyncSoFarInit == Init => SyncSoFar /\ StatusSoFar /\ LastSyncStands /\ RefusedWithReason
BY DEF Init, NoSync, NoStatus, SyncSoFar, StatusSoFar, LastSyncStands, RefusedWithReason,
       Running

LEMMA SyncBeginSoFar ==
    ASSUME Inv, SyncBegin
    PROVE  SyncSoFar' /\ RefusedWithReason'
<1>1. sync' = [pc |-> IF WellFormed(manifest) THEN "parse" ELSE "failed",
               manifest |-> manifest, index |-> 1, parsed |-> NULL, rows |-> db,
               edited |-> FALSE]
  BY DEF SyncBegin
<1>2. /\ sync'.manifest = manifest /\ sync'.index = 1 /\ sync'.rows = db
      /\ sync'.pc # "hash"
      /\ WellFormed(manifest) => sync'.pc # "failed"
      /\ sync'.pc \in Running => WellFormed(manifest)
  BY <1>1 DEF Running
<1>3. UNCHANGED <<source, manifest, db>>
  BY DEF SyncBegin
<1>4. Done(manifest, 1) = {}
  <2>1. manifest \in Manifest
    BY DEF Inv, TypeOK
  <2> QED BY <2>1, EntriesOf DEF Done
<1>5. SyncSoFar'
  BY <1>2, <1>3, <1>4 DEF SyncSoFar
<1>6. RefusedWithReason'
  <2>1. sync'.pc = "failed" => ~ WellFormed(sync'.manifest)
    BY <1>2
  <2> QED BY <2>1 DEF RefusedWithReason
<1> QED BY <1>5, <1>6

(* The entry a sync is at.                                                 *)
LEMMA AtEntry ==
    ASSUME Inv, ParseUnit \/ HashUnit
    PROVE  /\ sync.manifest \in Manifest
           /\ sync.index \in DOMAIN sync.manifest
           /\ Entry = sync.manifest[sync.index]
           /\ Entry.path \in Path
           /\ sync.pc \in Running
<1>1. sync.pc \in Running /\ sync.manifest \in Manifest
  BY DEF Inv, Standing, ParseUnit, HashUnit, Running
<1>2. sync.index \in DOMAIN sync.manifest
  <2>1. CASE HashUnit
    BY <2>1 DEF Inv, Standing, HashUnit
  <2>2. CASE ParseUnit
    BY <1>1, <2>2, EntriesOf DEF Inv, TypeOK, Standing, ParseUnit
  <2> QED BY <2>1, <2>2
<1> QED BY <1>1, <1>2, EntryType DEF Entry

LEMMA ParseUnitSoFar ==
    ASSUME Inv, SyncSoFar, ParseUnit, sync'.pc \in Running
    PROVE  SyncSoFar'
<1> DEFINE text == source[Entry.path]
<1>1. sync' = [sync EXCEPT !.pc = "hash", !.parsed = text]
  <2>1. SyncFails => sync'.pc = "failed"
    BY DEF SyncFails, Inv, TypeOK
  <2> QED BY <2>1 DEF ParseUnit, Running
<1> HIDE DEF text
<1>2. /\ sync'.manifest = sync.manifest /\ sync'.index = sync.index
      /\ sync'.rows = sync.rows /\ sync'.edited = sync.edited /\ sync'.parsed = text
  BY <1>1 DEF Inv, TypeOK
<1>3. UNCHANGED <<source, manifest, db>> /\ sync.pc \in Running
  BY DEF ParseUnit, Running
<1>4. sync'.parsed = source'[sync'.manifest[sync'.index].path]
  BY <1>2, <1>3 DEF text, Entry
<1> QED BY <1>2, <1>3, <1>4 DEF SyncSoFar, Entry

(* A sync that stops, commits or stands still is at work on nothing.       *)
LEMMA NotRunning ==
    ASSUME sync'.pc \notin Running
    PROVE  SyncSoFar'
BY DEF SyncSoFar

LEMMA CommitIsDone ==
    ASSUME Inv, SyncCommit
    PROVE  /\ sync.manifest \in Manifest /\ sync.pc \in Running
           /\ Done(sync.manifest, sync.index) = DOMAIN sync.manifest
<1>1. sync.manifest \in Manifest /\ sync.index \in Nat /\ sync.index > Len(sync.manifest)
      /\ sync.pc \in Running
  BY DEF Inv, TypeOK, Standing, SyncCommit, Running
<1> QED BY <1>1, EntriesOf DEF Done

LEMMA SyncCommitSoFar ==
    ASSUME Inv, SyncSoFar, SyncCommit
    PROVE  SyncSoFar' /\ LastSyncStands' /\ RefusedWithReason'
<1>1. db' = sync.rows /\ synced' = sync.manifest /\ sync' = NoSync
  BY DEF SyncCommit
<1>2. \A i \in DOMAIN sync.manifest : Placed(sync.rows, sync.manifest, i)
  BY CommitIsDone DEF SyncSoFar
<1>3. LastSyncStands'
  BY <1>1, <1>2 DEF LastSyncStands, Placed
<1>4. sync'.pc = "idle"
  BY <1>1 DEF NoSync
<1> QED BY <1>3, <1>4 DEF SyncSoFar, RefusedWithReason, Running

(* A sync of files at rest that commits leaves the rows in_sync was said   *)
(* of, and changes no row the manifest does not list.                      *)
LEMMA SyncCommitStatus ==
    ASSUME Inv, SyncSoFar, StatusSoFar, SyncCommit
    PROVE  StatusSoFar'
<1>1. /\ db' = sync.rows
      /\ UNCHANGED <<source, manifest>>
      /\ status' = [status EXCEPT !.disturbed = @ \/ sync.edited]
  BY DEF SyncCommit
<1>2. /\ status'.pc = status.pc /\ status'.manifest = status.manifest
      /\ status'.index = status.index /\ status'.digest = status.digest
      /\ status'.in_sync = status.in_sync
      /\ status'.disturbed = (status.disturbed \/ sync.edited)
  BY <1>1 DEF Inv, TypeOK
<1> SUFFICES ASSUME status.in_sync, ~ status.disturbed, ~ sync.edited PROVE StatusSoFar'
  BY <1>2 DEF StatusSoFar
<1>3. /\ sync.manifest = manifest
      /\ \A i \in DOMAIN manifest :
             /\ Placed(sync.rows, manifest, i)
             /\ sync.rows[manifest[i].unit].hash = source[manifest[i].path]
      /\ \A u \in Unit : (\A i \in DOMAIN manifest : manifest[i].unit # u) =>
             sync.rows[u] = db[u]
  BY CommitIsDone DEF SyncSoFar
<1>4. \A i \in DOMAIN manifest : InSync(sync.rows, manifest, source, i)
  <2> SUFFICES ASSUME NEW i \in DOMAIN manifest PROVE InSync(sync.rows, manifest, source, i)
    OBVIOUS
  <2>1. manifest \in Manifest /\ manifest[i].unit \in Unit
    BY EntryType DEF Inv, TypeOK
  <2>2. sync.rows[manifest[i].unit] # NULL
    BY <1>3 DEF Placed
  <2>3. sync.rows[manifest[i].unit] \in Row
    BY <2>1, <2>2 DEF Inv, TypeOK
  <2>4. sync.rows[manifest[i].unit].hash # NULL
    BY <2>3, CorpusAssumption DEF Row, CorpusAssumption
  <2>5. source[manifest[i].path] # NULL
    BY <1>3, <2>4
  <2> QED BY <1>3, <2>2, <2>5 DEF InSync, RowMatches, Placed
<1>5. Unlisted(manifest)' = Unlisted(manifest)
  BY <1>1, <1>3 DEF Unlisted
<1> QED BY <1>1, <1>2, <1>4, <1>5 DEF StatusSoFar, Done

-----------------------------------------------------------------------------
(* Steps of the status, the author and the import.                         *)
LEMMA StatusBeginSoFar ==
    ASSUME Inv, StatusBegin
    PROVE  StatusSoFar'
<1>1. /\ status' = [pc        |-> IF WellFormed(manifest) THEN "digest" ELSE "done",
                    manifest  |-> manifest, index |-> 1, digest |-> NULL,
                    in_sync   |-> WellFormed(manifest), disturbed |-> FALSE]
      /\ UNCHANGED manifest
  BY DEF StatusBegin
<1>2. Done(manifest, 1) = {}
  <2>1. manifest \in Manifest
    BY DEF Inv, TypeOK
  <2> QED BY <2>1, EntriesOf DEF Done
<1> SUFFICES ASSUME WellFormed(manifest) PROVE StatusSoFar'
  BY <1>1 DEF StatusSoFar
<1>3. status'.pc = "digest" /\ status'.manifest = manifest /\ status'.index = 1
  BY <1>1
<1> QED BY <1>1, <1>2, <1>3 DEF StatusSoFar

LEMMA StatusDigestSoFar ==
    ASSUME Inv, StatusSoFar, StatusDigest
    PROVE  StatusSoFar'
<1> DEFINE digest == source[status.manifest[status.index].path]
<1>1. /\ status' = [status EXCEPT !.pc = "select", !.digest = digest]
      /\ UNCHANGED <<source, manifest, db>>
      /\ status.pc = "digest"
  BY DEF StatusDigest
<1>2. /\ status'.pc = "select" /\ status'.digest = digest
      /\ status'.manifest = status.manifest /\ status'.index = status.index
      /\ status'.in_sync = status.in_sync /\ status'.disturbed = status.disturbed
  BY <1>1 DEF Inv, TypeOK
<1> QED BY <1>1, <1>2 DEF StatusSoFar

LEMMA StatusSelectSoFar ==
    ASSUME Inv, StatusSoFar, StatusSelect
    PROVE  StatusSoFar'
<1> DEFINE m == status.manifest
           n == status.index
           matches == RowMatches(db[m[n].unit], m[n], status.digest)
<1>1. PICK b : b = (status.in_sync /\ matches)
  OBVIOUS
<1>2. status' = [status EXCEPT !.pc = "digest", !.index = @ + 1, !.digest = NULL,
                               !.in_sync = b]
  BY <1>1, Zenon DEF StatusSelect
<1>3. /\ status'.pc = "digest" /\ status'.index = n + 1 /\ status'.manifest = m
      /\ status'.in_sync = b /\ status'.disturbed = status.disturbed
  BY <1>2 DEF Inv, TypeOK
<1>4. /\ UNCHANGED <<source, manifest, db>> /\ status.pc = "select"
      /\ m \in Manifest /\ n \in DOMAIN m /\ n \in Nat /\ DOMAIN m \subseteq Nat
  BY EntriesOf DEF Inv, TypeOK, Standing, StatusSelect
<1> HIDE DEF m, n
<1> SUFFICES ASSUME b = TRUE, ~ status.disturbed PROVE StatusSoFar'
  <2>1. b \in BOOLEAN
    BY <1>1
  <2> QED BY <1>3, <2>1 DEF StatusSoFar
<1>5. status.in_sync /\ matches
  BY <1>1
<1>6. /\ m = manifest
      /\ \A i \in Done(m, n) : InSync(db, m, source, i)
      /\ status.digest = source[m[n].path]
  BY <1>4, <1>5 DEF StatusSoFar, m, n
<1>7. InSync(db, m, source, n)
  BY <1>5, <1>6 DEF InSync
<1>8. \A i \in Done(m, n + 1) : InSync(db, m, source, i)
  BY <1>4, <1>6, <1>7, DoneGrows
<1> QED BY <1>3, <1>4, <1>6, <1>8 DEF StatusSoFar

LEMMA StatusUnlistedSoFar ==
    ASSUME Inv, StatusSoFar, StatusUnlisted
    PROVE  StatusSoFar'
<1>1. PICK b : b = (status.in_sync /\ Unlisted(manifest) = {})
  OBVIOUS
<1>2. status' = [status EXCEPT !.pc = "done", !.in_sync = b]
  BY <1>1, Zenon DEF StatusUnlisted
<1>3. /\ status'.pc = "done" /\ status'.in_sync = b
      /\ status'.disturbed = status.disturbed
  BY <1>2 DEF Inv, TypeOK
<1>4. /\ UNCHANGED <<source, manifest, db>>
      /\ status.pc = "digest" /\ status.index \in Nat
      /\ status.manifest \in Manifest /\ status.index > Len(status.manifest)
  BY DEF Inv, TypeOK, Standing, StatusUnlisted
<1>5. Done(status.manifest, status.index) = DOMAIN status.manifest
  BY <1>4, EntriesOf DEF Done
<1> SUFFICES ASSUME b = TRUE, ~ status.disturbed PROVE StatusSoFar'
  <2>1. b \in BOOLEAN
    BY <1>1
  <2> QED BY <1>3, <2>1 DEF StatusSoFar
<1>6. status.in_sync /\ Unlisted(manifest) = {}
  BY <1>1
<1>7. \A i \in DOMAIN manifest : InSync(db, manifest, source, i)
  BY <1>4, <1>5, <1>6 DEF StatusSoFar
<1>8. Unlisted(manifest)' = {}
  BY <1>4, <1>6 DEF Unlisted
<1> QED BY <1>3, <1>4, <1>7, <1>8 DEF StatusSoFar

(* After an edit nothing is promised of the sync and the status that run.  *)
LEMMA EditSoFar ==
    ASSUME Inv, SyncSoFar, LastSyncStands, EditSource \/ EditManifest
    PROVE  SyncSoFar' /\ StatusSoFar' /\ LastSyncStands' /\ RefusedWithReason'
<1>1. /\ sync' = [sync EXCEPT !.edited = TRUE]
      /\ status' = [status EXCEPT !.disturbed = TRUE]
      /\ UNCHANGED <<db, synced>>
  BY DEF EditSource, EditManifest, Edited
<1>2. /\ sync'.pc = sync.pc /\ sync'.manifest = sync.manifest
      /\ sync'.index = sync.index /\ sync'.rows = sync.rows
      /\ sync'.edited = TRUE /\ status'.disturbed = TRUE
  BY <1>1 DEF Inv, TypeOK
<1>3. SyncSoFar'
  BY <1>1, <1>2 DEF SyncSoFar
<1>4. StatusSoFar' /\ RefusedWithReason'
  BY <1>2 DEF StatusSoFar, RefusedWithReason
<1>5. LastSyncStands'
  BY <1>1 DEF LastSyncStands
<1> QED BY <1>3, <1>4, <1>5

(* An import marks one row, and changes nothing else of it.                *)
LEMMA ImportMarks ==
    ASSUME Inv, BankImport
    PROVE  /\ sync.pc \notin Running
           /\ UNCHANGED <<source, manifest, sync, status, synced, edits>>
           /\ \A u \in Unit :
                  /\ (db'[u] = NULL) <=> (db[u] = NULL)
                  /\ db[u] # NULL =>
                         /\ db'[u].path = db[u].path
                         /\ db'[u].position = db[u].position
                         /\ db'[u].include = db[u].include
                         /\ db'[u].exempt = db[u].exempt
                         /\ db'[u].sections = db[u].sections
                         /\ db'[u].hash = db[u].hash
                         /\ db'[u].torn = db[u].torn
                         /\ db[u].banked => db'[u].banked
<1>1. /\ sync.pc \notin Running
      /\ UNCHANGED <<source, manifest, sync, status, synced, edits>>
  BY DEF BankImport
<1>2. PICK v \in Unit : db[v] # NULL /\ db' = [db EXCEPT ![v].banked = TRUE]
  BY DEF BankImport
<1>3. db \in [Unit -> Row \cup {NULL}] /\ db[v] \in Row
  BY <1>2 DEF Inv, TypeOK
<1>4. PICK row, new : row = db[v] /\ new = [row EXCEPT !.banked = TRUE]
  OBVIOUS
<1>5. /\ new \in Row
      /\ new.path = row.path /\ new.position = row.position /\ new.include = row.include
      /\ new.exempt = row.exempt /\ new.sections = row.sections /\ new.hash = row.hash
      /\ new.torn = row.torn /\ new.banked = TRUE
  BY <1>3, <1>4 DEF Row
<1>6. db' = [db EXCEPT ![v] = new]
  BY <1>2, <1>4
<1>7. new # NULL
  BY <1>5, RowAssumption DEF RowAssumption
<1> QED BY <1>1, <1>2, <1>3, <1>4, <1>5, <1>6, <1>7

LEMMA ImportSoFar ==
    ASSUME Inv, StatusSoFar, LastSyncStands, RefusedWithReason, BankImport
    PROVE  SyncSoFar' /\ StatusSoFar' /\ LastSyncStands' /\ RefusedWithReason'
<1>1. SyncSoFar'
  BY ImportMarks DEF SyncSoFar
<1>2. /\ manifest \in Manifest /\ synced \in Manifest \cup {<<>>}
      /\ sync.manifest \in Manifest \cup {<<>>}
  BY DEF Inv, TypeOK
<1>3. \A m \in Manifest \cup {<<>>} : \A i \in DOMAIN m : m[i].unit \in Unit
  BY EntryType
<1>4. LastSyncStands'
  <2> SUFFICES ASSUME NEW i \in DOMAIN synced PROVE Placed(db', synced, i)
    BY ImportMarks DEF LastSyncStands, Placed
  <2>1. Placed(db, synced, i)
    BY DEF LastSyncStands, Placed
  <2>2. synced[i].unit \in Unit
    BY <1>2, <1>3
  <2> QED BY <2>1, <2>2, ImportMarks DEF Placed
<1>5. StatusSoFar'
  <2>1. \A i \in DOMAIN manifest :
          InSync(db, manifest, source, i) => InSync(db', manifest, source, i)
    BY <1>2, <1>3, ImportMarks DEF InSync, RowMatches
  <2>2. Unlisted(manifest)' = Unlisted(manifest)
    BY ImportMarks DEF Unlisted
  <2> QED BY <2>1, <2>2, ImportMarks DEF StatusSoFar, Done
<1>6. RefusedWithReason'
  <2> SUFFICES ASSUME sync.pc = "failed", ~ sync.edited PROVE RefusedWithReason'
    BY ImportMarks DEF RefusedWithReason
  <2> DEFINE m == sync.manifest
  <2>1. CASE ~ WellFormed(m)
    BY <2>1, ImportMarks DEF RefusedWithReason
  <2>2. CASE ~ Appends(m)
    <3>1. \A i \in DOMAIN m : m[i].unit \in Unit
      BY <1>2, <1>3
    <3>2. \A u, path, position :
            PlaceTaken(db', u, path, position) <=> PlaceTaken(db, u, path, position)
      BY ImportMarks DEF PlaceTaken
    <3>3. Appends(m)' => Appends(m)
      <4> HIDE DEF m
      <4>1. m' = m
        BY ImportMarks DEF m
      <4> QED BY <3>1, <3>2, <4>1, ImportMarks DEF Appends, PlaceTaken
    <3> QED BY <2>2, <3>3, ImportMarks DEF RefusedWithReason
  <2>3. ASSUME NEW i \in DOMAIN m,
               \/ ~ Indexable(m[i])
               \/ Banked(db[m[i].unit]) /\ db[m[i].unit].hash # source[m[i].path]
               \/ db[m[i].unit] # NULL /\ db[m[i].unit].torn
        PROVE  RefusedWithReason'
    <3>1. m[i].unit \in Unit
      BY <1>2, <1>3
    <3>2. Indexable(m[i])' <=> Indexable(m[i])
      BY ImportMarks DEF Indexable
    <3>3. Banked(db[m[i].unit]) => Banked(db'[m[i].unit])
      BY <3>1, ImportMarks DEF Banked
    <3> QED BY <2>3, <3>1, <3>2, <3>3, ImportMarks DEF RefusedWithReason, Banked
  <2> QED BY <2>1, <2>2, <2>3 DEF RefusedWithReason
<1> QED BY <1>1, <1>4, <1>5, <1>6

-----------------------------------------------------------------------------
(* What a sync that fails has found.                                       *)
Reason(m) ==
    \/ ~ WellFormed(m)
    \/ ~ Appends(m)
    \/ \E i \in DOMAIN m :
           LET entry == m[i]
               row == db[entry.unit]
           IN  \/ ~ Indexable(entry)
               \/ Banked(row) /\ row.hash # source[entry.path]
               \/ row # NULL /\ row.torn

(* The row of an entry that was placed takes no place of a later entry.    *)
LEMMA PlaceFree ==
    ASSUME Inv, SyncSoFar, HashUnit, Appends(sync.manifest)
    PROVE  ~ PlaceTaken(sync.rows, Entry.unit, Entry.path,
                        Position(sync.manifest, sync.index))
<1> DEFINE m == sync.manifest
           n == sync.index
<1>1. m \in Manifest /\ n \in DOMAIN m /\ Entry = m[n] /\ sync.pc \in Running
  BY AtEntry
<1>2. /\ WellFormed(m)
      /\ \A i \in Done(m, n) : Placed(sync.rows, m, i)
      /\ \A u \in Unit : (\A i \in Done(m, n) : m[i].unit # u) => sync.rows[u] = db[u]
  BY <1>1 DEF SyncSoFar
<1>3. ~ PlaceTaken(db, m[n].unit, m[n].path, Position(m, n))
  BY <1>1 DEF Appends
<1> HIDE DEF m, n
<1> SUFFICES ASSUME NEW other \in Unit \ {m[n].unit}, sync.rows[other] # NULL,
                    \/ sync.rows[other].path = m[n].path
                    \/ /\ CorpusOf[other] = CorpusOf[m[n].unit]
                       /\ sync.rows[other].position = Position(m, n)
             PROVE  FALSE
  BY <1>1 DEF PlaceTaken, m, n
<1>4. ASSUME NEW j \in Done(m, n), m[j].unit = other
      PROVE  FALSE
  <2>1. j \in DOMAIN m /\ j < n /\ j # n
    <3>1. j \in Nat /\ n \in Nat /\ j < n /\ j \in DOMAIN m
      BY <1>1, EntriesOf DEF Done
    <3> QED BY <3>1
  <2>2. m[j].path # m[n].path
    BY <1>1, <1>2, <2>1 DEF WellFormed
  <2>3. sync.rows[other].path = m[j].path /\ sync.rows[other].position = Position(m, j)
    BY <1>2, <1>4 DEF Placed
  <2>4. CorpusOf[m[j].unit] = CorpusOf[m[n].unit] => Position(m, j) # Position(m, n)
    BY <1>1, <2>1, PositionsDiffer
  <2> QED BY <1>4, <2>2, <2>3, <2>4
<1>5. sync.rows[other] = db[other]
  BY <1>2, <1>4
<1> QED BY <1>3, <1>5 DEF PlaceTaken

(* A unit is refused for a reason.                                         *)
LEMMA RefusedReason ==
    ASSUME Inv, SyncSoFar, HashUnit, ~ sync.edited,
           \/ source[Entry.path] = NULL
           \/ Refused(sync.rows, Entry, Position(sync.manifest, sync.index),
                      sync.parsed, source[Entry.path])
    PROVE  Reason(sync.manifest)
<1> DEFINE m == sync.manifest
           n == sync.index
           digest == source[Entry.path]
           row == db[Entry.unit]
<1>1. /\ m \in Manifest /\ n \in DOMAIN m /\ Entry = m[n] /\ sync.pc \in Running
      /\ sync.pc = "hash" /\ sync.parsed \in DOMAIN Sections
  BY AtEntry DEF HashUnit, Inv, Standing
<1>2. sync.parsed = digest
  BY <1>1 DEF SyncSoFar
<1>3. digest \in Text /\ digest # NULL
  BY <1>1, <1>2, CorpusAssumption DEF Sections, CorpusAssumption
<1> SUFFICES ASSUME Appends(m), Indexable(Entry),
                    ~ (Banked(row) /\ row.hash # digest),
                    ~ (row # NULL /\ row.torn)
             PROVE  FALSE
  BY <1>1 DEF Reason
<1>4. Entry.unit \in Unit
  BY <1>1, EntryType
<1>5. sync.rows[Entry.unit] = row
  <2>1. \A i \in Done(m, n) : m[i].unit # m[n].unit
    <3>1. \A i \in Done(m, n) : i \in DOMAIN m /\ i # n
      BY <1>1, EntriesOf DEF Done
    <3>2. WellFormed(m)
      BY <1>1 DEF SyncSoFar
    <3> QED BY <1>1, <3>1, <3>2 DEF WellFormed
  <2> QED BY <1>1, <1>4, <2>1 DEF SyncSoFar
<1>6. Fits(row)
  BY <1>4 DEF Inv, RowsFit
<1>7. ~ PlaceTaken(sync.rows, Entry.unit, Entry.path, Position(m, n))
  BY PlaceFree
<1>8. /\ PagesRise(digest)
      /\ SectionPagesRise(Sections[digest])
      /\ Entry.exempt \subseteq Keys(Sections[digest])
  BY DEF Indexable
<1>9. ~ SourceChanged(row, digest)
  BY DEF SourceChanged
<1>10. SectionsAfter(row, digest, digest) = Sections[digest]
  <2>1. CASE KeepsSections(row, digest)
    <3>1. row # NULL /\ row.hash = digest
      BY <2>1 DEF KeepsSections, Banked
    <3> QED BY <1>6, <2>1, <3>1 DEF Fits, SectionsAfter
  <2>2. CASE ~ KeepsSections(row, digest)
    BY <2>2 DEF SectionsAfter
  <2> QED BY <2>1, <2>2
<1> HIDE DEF m, n, digest, row
<1>11. Refused(sync.rows, Entry, Position(m, n), digest, digest)
  BY <1>2, <1>3 DEF m, n, digest
<1> QED BY <1>5, <1>7, <1>8, <1>9, <1>10, <1>11 DEF Refused

LEMMA FailsWithReason ==
    ASSUME Inv, SyncSoFar, ParseUnit \/ HashUnit
    PROVE  RefusedWithReason'
<1>1. UNCHANGED <<source, manifest, db>>
  BY DEF ParseUnit, HashUnit
<1>2. sync'.manifest = sync.manifest /\ sync'.edited = sync.edited
  <2>1. SyncFails => sync'.manifest = sync.manifest /\ sync'.edited = sync.edited
    BY DEF SyncFails, Inv, TypeOK
  <2>2. CASE ParseUnit
    BY <2>1, <2>2 DEF ParseUnit, Inv, TypeOK
  <2>3. CASE HashUnit
    BY <2>1, <2>3, Accepted DEF HashUnit
  <2> QED BY <2>2, <2>3
<1> SUFFICES ASSUME sync'.pc = "failed", ~ sync.edited PROVE Reason(sync.manifest)
  <2>1. Reason(sync.manifest) => Reason(sync.manifest)'
    <3>1. PICK m : m = sync.manifest /\ m = sync'.manifest
      BY <1>2
    <3>2. Reason(m) => Reason(m)'
      BY <1>1 DEF Reason, Appends, PlaceTaken, Indexable
    <3>3. Reason(sync.manifest) <=> Reason(m)
      BY <3>1
    <3>4. Reason(sync.manifest)' <=> Reason(m)'
      BY <3>1 DEF Reason, Appends
    <3> QED BY <3>2, <3>3, <3>4
  <2>2. RefusedWithReason' <=>
            (sync'.pc = "failed" /\ ~ sync'.edited => Reason(sync.manifest)')
    BY DEF RefusedWithReason, Reason
  <2> QED BY <1>2, <2>1, <2>2
<1>3. CASE ParseUnit
  <2> DEFINE text == source[Entry.path]
  <2>1. ~ (text # NULL /\ Parses(text))
    <3>1. sync' = [sync EXCEPT !.pc = "hash", !.parsed = text] => sync'.pc = "hash"
      BY DEF Inv, TypeOK
    <3> QED BY <1>3, <3>1 DEF ParseUnit
  <2>2. ~ Indexable(Entry)
    BY <2>1 DEF Indexable
  <2> QED BY <1>3, <2>2, AtEntry DEF Reason
<1>4. CASE HashUnit
  <2>1. \/ source[Entry.path] = NULL
        \/ Refused(sync.rows, Entry, Position(sync.manifest, sync.index),
                   sync.parsed, source[Entry.path])
    BY <1>4, Accepted
  <2> QED BY <1>4, <2>1, RefusedReason
<1> QED BY <1>3, <1>4

-----------------------------------------------------------------------------
LEMMA SyncInvStep == SyncInv /\ [Next]_vars => SyncInv'
<1> SUFFICES ASSUME SyncInv, [Next]_vars PROVE SyncInv'
  OBVIOUS
<1> USE DEF SyncInv
<1>1. Inv'
  BY InvStep
<1>2. CASE SyncBegin
  <2>1. UNCHANGED <<source, manifest, db, status, synced>>
    BY <1>2 DEF SyncBegin
  <2>2. StatusSoFar' /\ LastSyncStands'
    BY <2>1 DEF StatusSoFar, Unlisted, LastSyncStands
  <2> QED BY <1>1, <1>2, <2>2, SyncBeginSoFar
<1>3. CASE ParseUnit \/ HashUnit
  <2>1. UNCHANGED <<source, manifest, db, status, synced>>
    BY <1>3 DEF ParseUnit, HashUnit
  <2>2. StatusSoFar' /\ LastSyncStands'
    BY <2>1 DEF StatusSoFar, Unlisted, LastSyncStands
  <2>3. SyncSoFar'
    BY <1>3, ParseUnitSoFar, HashUnitSoFar, NotRunning
  <2> QED BY <1>1, <1>3, <2>2, <2>3, FailsWithReason
<1>4. CASE SyncCommit
  BY <1>1, <1>4, SyncCommitSoFar, SyncCommitStatus
<1>5. CASE StatusBegin \/ StatusDigest \/ StatusSelect \/ StatusUnlisted
  <2>1. UNCHANGED <<source, manifest, db, sync, synced>>
    BY <1>5 DEF StatusBegin, StatusDigest, StatusSelect, StatusUnlisted
  <2>2. SyncSoFar' /\ LastSyncStands'
    BY <2>1 DEF SyncSoFar, LastSyncStands, Entry
  <2>3. RefusedWithReason'
    BY <2>1 DEF RefusedWithReason, Appends, PlaceTaken, Indexable
  <2>4. StatusSoFar'
    BY <1>5, StatusBeginSoFar, StatusDigestSoFar, StatusSelectSoFar, StatusUnlistedSoFar
  <2> QED BY <1>1, <2>2, <2>3, <2>4
<1>6. CASE EditSource \/ EditManifest
  BY <1>1, <1>6, EditSoFar
<1>7. CASE BankImport
  BY <1>1, <1>7, ImportSoFar
<1>8. CASE UNCHANGED vars
  <2>1. UNCHANGED <<source, manifest, db, sync, status, synced>>
    BY <1>8 DEF vars
  <2>2. SyncSoFar' /\ LastSyncStands' /\ StatusSoFar'
    BY <2>1 DEF SyncSoFar, LastSyncStands, Entry, StatusSoFar, Unlisted
  <2>3. RefusedWithReason'
    BY <2>1 DEF RefusedWithReason, Appends, PlaceTaken, Indexable
  <2> QED BY <1>1, <2>2, <2>3
<1> QED BY <1>2, <1>3, <1>4, <1>5, <1>6, <1>7, <1>8 DEF Next

LEMMA SyncInvAlways == Spec => []SyncInv
<1>1. Init => SyncInv
  BY InvInit, SyncSoFarInit DEF SyncInv
<1> QED BY <1>1, SyncInvStep, PTL DEF Spec

(* The rows are what the last sync that committed made of its manifest,    *)
(* entry by entry, whatever failed or was read since                       *)
(* (lbdb_command_corpus_sync).                                             *)
THEOREM LastSync == Spec => []LastSyncStands
<1>1. SyncInv => LastSyncStands
  BY DEF SyncInv
<1> QED BY <1>1, SyncInvAlways, PTL

(* With files at rest, corpus sync is refused only for a malformed         *)
(* manifest, a place that is taken, a source that cannot be indexed or has *)
(* changed under a bank (synchronize_unit).                                *)
THEOREM WithReason == Spec => []RefusedWithReason
<1>1. SyncInv => RefusedWithReason
  BY DEF SyncInv
<1> QED BY <1>1, SyncInvAlways, PTL

(* When corpus status says in_sync and no file was edited meanwhile, the   *)
(* rows, the manifest and the sources agree, whatever syncs committed      *)
(* between its statements (lbdb_command_corpus_status).                    *)
THEOREM StatusTrue == Spec => []StatusTellsTruth
<1>1. SyncInv => StatusTellsTruth
  <2> SUFFICES ASSUME SyncInv, status.pc = "done", status.in_sync, ~ status.disturbed
               PROVE  /\ Unlisted(manifest) = {}
                      /\ \A i \in DOMAIN manifest :
                             LET entry == manifest[i]
                                 row == db[entry.unit]
                             IN  /\ row # NULL
                                 /\ row.path = entry.path
                                 /\ row.include = entry.include
                                 /\ row.exempt = entry.exempt
                                 /\ row.hash = source[entry.path]
                                 /\ row.torn \/ row.sections = Sections[source[entry.path]]
    BY DEF StatusTellsTruth
  <2>1. /\ Unlisted(manifest) = {}
        /\ \A i \in DOMAIN manifest : InSync(db, manifest, source, i)
    BY DEF SyncInv, StatusSoFar
  <2>2. \A i \in DOMAIN manifest : Fits(db[manifest[i].unit])
    BY EntryType DEF SyncInv, Inv, TypeOK, RowsFit
  <2> QED BY <2>1, <2>2 DEF InSync, RowMatches, Fits
<1> QED BY <1>1, SyncInvAlways, PTL

-----------------------------------------------------------------------------
(* The links of a question.                                                *)

(* The links that are made for a range are inside its sections.            *)
LEMMA AutomaticInside ==
    ASSUME NEW u \in Unit, db[u] \in Row, NEW citation \in Citation,
           Covered(u, citation), NEW link \in AutomaticLinks(u, citation)
    PROVE  LinkInside(u, link)
<1>1. citation.start_line \in Nat /\ citation.end_line \in Nat
  BY CitationAssumption DEF CitationAssumption
<1>2. PICK s \in SectionsForRange(u, citation) :
        /\ link.key = s.key
        /\ link.start_line = Larger(citation.start_line, s.start_line)
        /\ link.end_line = Smaller(citation.end_line, s.end_line)
  BY DEF AutomaticLinks
<1>3. s \in db[u].sections /\ ~ s.is_summary
  BY DEF SectionsForRange, Covered
<1>4. PICK text \in DOMAIN Sections : db[u].sections = Sections[text]
  BY DEF Row
<1>5. s.start_line \in Nat /\ s.end_line \in Nat /\ s.start_line <= s.end_line
  BY <1>3, <1>4, SectionLines
<1>6. s.start_line <= citation.end_line /\ s.end_line >= citation.start_line
  BY DEF SectionsForRange
<1>7. 0 < citation.start_line /\ citation.start_line <= citation.end_line
  BY DEF Covered
<1>8. /\ s.start_line <= link.start_line
      /\ 0 < link.start_line
      /\ link.start_line <= link.end_line
      /\ link.end_line <= s.end_line
  BY <1>1, <1>2, <1>5, <1>6, <1>7 DEF Larger, Smaller
<1> QED BY <1>2, <1>3, <1>8 DEF LinkInside

LEMMA LinksInside ==
    ASSUME NEW u \in Unit, db[u] \in Row, NEW citation \in Citation, Storable(u, citation),
           NEW link \in LinksFor(u, citation)
    PROVE  LinkInside(u, link)
BY AutomaticInside DEF LinksFor, Storable

-----------------------------------------------------------------------------
(* A question has a unit with a bank, links inside its sections, and,      *)
(* until its source fields are revised, columns that agree with them.      *)
Sound(u) ==
    provenance[u] # NULL =>
        /\ db[u] # NULL /\ Banked(db[u])
        /\ \A link \in provenance[u].links : LinkInside(u, link)
        /\ ~ provenance[u].revised =>
               Agrees(provenance[u].section, provenance[u].start_line,
                      provenance[u].end_line, provenance[u].links)

ProvenanceInv ==
    /\ Inv
    /\ provenance = [u \in Unit |-> provenance[u]]
    /\ \A u \in Unit : Sound(u)

(* A question whose unit keeps its sections stays sound.                   *)
LEMMA KeepsSound ==
    ASSUME NEW u \in Unit, Sound(u), provenance'[u] = provenance[u],
           provenance[u] # NULL => db'[u] # NULL /\ Banked(db'[u])
                                   /\ db'[u].sections = db[u].sections
    PROVE  Sound(u)'
<1> SUFFICES ASSUME provenance[u] # NULL PROVE Sound(u)'
  BY DEF Sound
<1>1. \A link \in provenance[u].links : LinkInside(u, link)'
  BY DEF Sound, LinkInside
<1> QED BY <1>1 DEF Sound

(* A question whose source fields are stored is sound.                     *)
LEMMA StoredSound ==
    ASSUME NEW u \in Unit, NEW citation \in Citation, NEW revised \in BOOLEAN,
           db[u] \in Row, Storable(u, citation),
           ~ revised => FlatProvenance(u, citation),
           db'[u] # NULL, Banked(db'[u]), db'[u].sections = db[u].sections,
           provenance'[u] = Sourced(u, citation, revised)
    PROVE  Sound(u)'
<1>1. /\ provenance'[u].links = LinksFor(u, citation)
      /\ provenance'[u].revised = revised
      /\ provenance'[u].section = citation.section
      /\ provenance'[u].start_line = citation.start_line
      /\ provenance'[u].end_line = citation.end_line
  BY DEF Sourced
<1>2. \A link \in provenance'[u].links : LinkInside(u, link)'
  BY <1>1, LinksInside DEF LinkInside
<1>3. ~ revised => Agrees(citation.section, citation.start_line, citation.end_line,
                          LinksFor(u, citation))
  BY DEF FlatProvenance
<1>4. ~ provenance'[u].revised =>
          Agrees(provenance'[u].section, provenance'[u].start_line,
                 provenance'[u].end_line, provenance'[u].links)
  BY <1>1, <1>3
<1> QED BY <1>2, <1>4 DEF Sound

LEMMA ProvenanceInvInit == ProvenanceInit => ProvenanceInv
BY InvInit DEF ProvenanceInit, ProvenanceInv, Sound

(* Only an import brings a bank, and it leaves the sections as they are.   *)
LEMMA ImportKeepsSections ==
    ASSUME Inv, Next, NEW u \in NewlyBanked
    PROVE  u \in Unit /\ db[u] \in Row /\ db'[u] # NULL /\ Banked(db'[u])
           /\ db'[u].sections = db[u].sections
<1>1. u \in Unit /\ Banked(db'[u]) /\ ~ Banked(db[u])
  BY DEF NewlyBanked
<1>2. CASE SyncCommit
  <2>1. db' = sync.rows /\ sync.pc \in Running
    BY <1>2 DEF SyncCommit, Running
  <2>2. Banked(sync.rows[u]) <=> Banked(db[u])
    BY <1>1, <2>1 DEF Inv, BanksKept, KeepsBank
  <2> QED BY <1>1, <2>1, <2>2
<1>3. CASE BankImport
  <2>1. PICK v \in Unit : db[v] # NULL /\ db' = [db EXCEPT ![v].banked = TRUE]
    BY <1>3 DEF BankImport
  <2>2. v = u
    BY <1>1, <2>1 DEF Inv, TypeOK
  <2>3. db[u] \in Row
    BY <2>1, <2>2 DEF Inv, TypeOK
  <2>4. db'[u] = [db[u] EXCEPT !.banked = TRUE]
    BY <2>1, <2>2 DEF Inv, TypeOK
  <2>5. db'[u].sections = db[u].sections
    BY <2>3, <2>4 DEF Row
  <2> QED BY <1>1, <2>3, <2>5 DEF Banked
<1>4. CASE db' = db
  BY <1>1, <1>4
<1> QED BY <1>2, <1>3, <1>4 DEF Next, SyncBegin, ParseUnit, HashUnit, StatusBegin,
           StatusDigest, StatusSelect, StatusUnlisted, EditSource, EditManifest

LEMMA CorpusStepSound == ProvenanceInv /\ CorpusStep => ProvenanceInv'
<1> SUFFICES ASSUME ProvenanceInv, CorpusStep PROVE ProvenanceInv'
  OBVIOUS
<1>1. Inv /\ Next
  BY DEF ProvenanceInv, CorpusStep
<1>2. Inv'
  BY <1>1, InvStep
<1>3. ASSUME NEW u \in Unit, provenance'[u] = provenance[u]
      PROVE  Sound(u)'
  <2>1. Sound(u)
    BY DEF ProvenanceInv
  <2>2. ASSUME provenance[u] # NULL
        PROVE  db'[u] # NULL /\ Banked(db'[u]) /\ db'[u].sections = db[u].sections
    <3>1. u \in Indexed /\ Banked(db[u])
      BY <2>1, <2>2 DEF Sound, Indexed
    <3> QED BY <1>1, <3>1, FrozenStep DEF Frozen, Banked
  <2> QED BY <1>3, <2>1, <2>2, KeepsSound
<1>4. CASE UNCHANGED provenance
  BY <1>2, <1>3, <1>4 DEF ProvenanceInv
<1>5. CASE ~ UNCHANGED provenance
  <2>1. PICK u \in NewlyBanked, citation \in Citation :
          /\ Storable(u, citation)
          /\ FlatProvenance(u, citation)
          /\ provenance' = [provenance EXCEPT ![u] = Sourced(u, citation, FALSE)]
    BY <1>5 DEF CorpusStep
  <2>2. u \in Unit /\ db[u] \in Row /\ db'[u] # NULL /\ Banked(db'[u])
        /\ db'[u].sections = db[u].sections
    BY <1>1, <2>1, ImportKeepsSections
  <2>3. provenance'[u] = Sourced(u, citation, FALSE)
    BY <2>1, <2>2 DEF ProvenanceInv
  <2>4. Sound(u)'
    BY <2>1, <2>2, <2>3, StoredSound
  <2>5. \A v \in Unit \ {u} : provenance'[v] = provenance[v]
    BY <2>1 DEF ProvenanceInv
  <2>6. provenance' = [v \in Unit |-> provenance'[v]]
    BY <2>1 DEF ProvenanceInv
  <2> QED BY <1>2, <1>3, <2>4, <2>5, <2>6 DEF ProvenanceInv
<1> QED BY <1>4, <1>5

LEMMA ReviseSound == ProvenanceInv /\ ReviseSources => ProvenanceInv'
<1> SUFFICES ASSUME ProvenanceInv, ReviseSources PROVE ProvenanceInv'
  OBVIOUS
<1>1. UNCHANGED <<source, manifest, db, sync, status, synced>>
  BY DEF ReviseSources
<1>2. Inv'
  <2>1. edits' \in 0 .. MaxEdits
    BY CorpusAssumption DEF ProvenanceInv, Inv, TypeOK, ReviseSources, CorpusAssumption
  <2> QED BY <1>1, <2>1 DEF ProvenanceInv, Inv, TypeOK, Standing, RowsFit, BanksKept
<1>3. PICK u \in Unit, citation \in Citation :
        /\ provenance[u] # NULL
        /\ Storable(u, citation)
        /\ provenance' = [provenance EXCEPT ![u] = Sourced(u, citation, TRUE)]
  BY DEF ReviseSources
<1>4. db[u] # NULL /\ Banked(db[u])
  BY <1>3 DEF ProvenanceInv, Sound
<1>5. db[u] \in Row
  BY <1>4 DEF ProvenanceInv, Inv, TypeOK
<1>6. provenance'[u] = Sourced(u, citation, TRUE)
  BY <1>3 DEF ProvenanceInv
<1>7. Sound(u)'
  BY <1>1, <1>3, <1>4, <1>5, <1>6, StoredSound
<1>8. ASSUME NEW v \in Unit \ {u} PROVE Sound(v)'
  <2>1. provenance'[v] = provenance[v]
    BY <1>3 DEF ProvenanceInv
  <2>2. Sound(v) /\ db' = db
    BY <1>1 DEF ProvenanceInv
  <2> QED BY <2>1, <2>2 DEF Sound, LinkInside
<1>9. provenance' = [v \in Unit |-> provenance'[v]]
  BY <1>3 DEF ProvenanceInv
<1> QED BY <1>2, <1>7, <1>8, <1>9 DEF ProvenanceInv

(* Every step keeps that.                                                  *)
LEMMA ProvenanceAlways == ProvenanceSpec => []ProvenanceInv
<1>1. ProvenanceInv /\ [ProvenanceNext]_<<vars, provenance>> => ProvenanceInv'
  <2> SUFFICES ASSUME ProvenanceInv, [ProvenanceNext]_<<vars, provenance>>
               PROVE  ProvenanceInv'
    OBVIOUS
  <2>1. CASE CorpusStep
    BY <2>1, CorpusStepSound
  <2>2. CASE ReviseSources
    BY <2>2, ReviseSound
  <2>3. CASE UNCHANGED <<vars, provenance>>
    <3>1. Inv'
      BY <2>3, InvStep DEF ProvenanceInv
    <3>2. db' = db /\ provenance' = provenance
      BY <2>3 DEF vars
    <3> QED BY <3>1, <3>2 DEF ProvenanceInv, Sound, LinkInside
  <2> QED BY <2>1, <2>2, <2>3 DEF ProvenanceNext
<1> QED BY <1>1, ProvenanceInvInit, PTL DEF ProvenanceSpec

-----------------------------------------------------------------------------
(* However sources and manifests are edited and synchronized, the links of *)
(* a question stay inside the body sections of its unit, and bank validate *)
(* finds fault with revised questions only (import_question,               *)
(* synchronize_unit, lbdb_command_bank_validate).                          *)
THEOREM SourcesHold == ProvenanceSpec => []SourcesStand
<1>1. ProvenanceInv => SourcesStand
  BY DEF ProvenanceInv, Sound, SourcesStand, Cited, InvalidQuestionSources
<1> QED BY <1>1, ProvenanceAlways, PTL

-----------------------------------------------------------------------------
(* The links made for a range.                                             *)
LinkOf(s, first, last, role) ==
    [key        |-> s.key,
     start_line |-> Larger(first, s.start_line),
     end_line   |-> Smaller(last, s.end_line),
     role       |-> role]

(* AutomaticLinksTile, of the links of a range.                            *)
TileRange(first, last, links) ==
    /\ UNION {l.start_line .. l.end_line : l \in links} = first .. last
    /\ \A line \in first .. last :
           Cardinality({l \in links : line \in l.start_line .. l.end_line}) = 1
    /\ Cardinality({l \in links : l.role = "primary"}) = 1

LEMMA AutomaticTile ==
    ASSUME NEW u \in Unit, db[u] \in Row, NEW citation \in Citation, Covered(u, citation)
    PROVE  TileRange(citation.start_line, citation.end_line, AutomaticLinks(u, citation))
<1> DEFINE first == citation.start_line
           last == citation.end_line
           S == SectionsForRange(u, citation)
           Role(s) == IF s = FirstOf(S) THEN "primary" ELSE "supporting"
           Made(s) == LinkOf(s, first, last, Role(s))
           links == AutomaticLinks(u, citation)
<1>1. first \in Nat /\ last \in Nat
  BY CitationAssumption DEF CitationAssumption
<1>2. PICK text \in DOMAIN Sections : db[u].sections = Sections[text]
  BY DEF Row
<1>3. \A s \in S : s.start_line \in Nat /\ s.end_line \in Nat /\ s.start_line <= s.end_line
  BY <1>2, SectionLines DEF SectionsForRange
<1>4. \A s, t \in S : s # t => s.end_line < t.start_line \/ t.end_line < s.start_line
  BY <1>2, SectionsTiled DEF SectionsForRange, Tiled
<1>5. links = {Made(s) : s \in S}
  BY DEF AutomaticLinks, LinkOf
<1>6. first <= last /\ \A line \in first .. last : \E s \in S : line \in s.start_line .. s.end_line
  BY DEF Covered
<1>7. \A s : /\ Made(s).start_line = Larger(first, s.start_line)
             /\ Made(s).end_line = Smaller(last, s.end_line)
             /\ Made(s).role = Role(s)
  BY DEF LinkOf
<1>8. FirstOf(S) \in S
  <2> DEFINE starts == {s.start_line : s \in S}
  <2>1. first \in first .. last
    BY <1>1, <1>6
  <2>2. starts \subseteq Nat /\ starts # {}
    BY <1>3, <1>6, <2>1
  <2>3. Min(starts) \in starts /\ \A n \in starts : Min(starts) <= n
    BY <2>2, MinLeast
  <2>4. PICK s \in S : s.start_line = Min(starts)
    BY <2>3
  <2>5. \A t \in S : s.start_line <= t.start_line
    BY <2>3, <2>4
  <2> HIDE DEF S
  <2> QED BY <2>5 DEF FirstOf
<1> HIDE DEF first, last, S, Made, links
<1>9. ASSUME NEW s \in S, NEW line
      PROVE  line \in Made(s).start_line .. Made(s).end_line <=>
                 line \in first .. last /\ line \in s.start_line .. s.end_line
  BY <1>1, <1>3, <1>7 DEF Larger, Smaller
<1>10. UNION {l.start_line .. l.end_line : l \in links} = first .. last
  <2>1. ASSUME NEW l \in links, NEW line \in l.start_line .. l.end_line
        PROVE  line \in first .. last
    BY <1>5, <1>9
  <2>2. ASSUME NEW line \in first .. last
        PROVE  \E l \in links : line \in l.start_line .. l.end_line
    <3>1. PICK s \in S : line \in s.start_line .. s.end_line
      BY <1>6
    <3>2. Made(s) \in links /\ line \in Made(s).start_line .. Made(s).end_line
      BY <1>5, <1>9, <3>1
    <3> QED BY <3>2
  <2> QED BY <2>1, <2>2
<1>11. ASSUME NEW line \in first .. last
       PROVE  Cardinality({l \in links : line \in l.start_line .. l.end_line}) = 1
  <2>1. PICK s \in S : line \in s.start_line .. s.end_line
    BY <1>6
  <2>2. Made(s) \in links /\ line \in Made(s).start_line .. Made(s).end_line
    BY <1>5, <1>9, <2>1
  <2>3. ASSUME NEW l \in links, line \in l.start_line .. l.end_line
        PROVE  l = Made(s)
    <3>1. PICK t \in S : l = Made(t)
      BY <1>5
    <3>2. line \in t.start_line .. t.end_line
      BY <1>9, <2>3, <3>1
    <3>3. line \in Nat
      BY <1>1
    <3>4. t = s
      BY <1>3, <1>4, <2>1, <3>2, <3>3
    <3> QED BY <3>1, <3>4
  <2>4. {l \in links : line \in l.start_line .. l.end_line} = {Made(s)}
    BY <2>2, <2>3
  <2> QED BY <2>4, FS_Singleton
<1>12. Cardinality({l \in links : l.role = "primary"}) = 1
  <2>1. {l \in links : l.role = "primary"} = {Made(FirstOf(S))}
    BY <1>5, <1>7, <1>8
  <2> QED BY <2>1, FS_Singleton
<1> QED BY <1>10, <1>11, <1>12 DEF TileRange, first, last, links

(* The question of a unit, whose links were made for its range.            *)
Tiles(q) == q.automatic => TileRange(q.start_line, q.end_line, q.links)

LEMMA SourcedTiles ==
    ASSUME NEW u \in Unit, db[u] \in Row, NEW citation \in Citation, NEW revised,
           Storable(u, citation)
    PROVE  Tiles(Sourced(u, citation, revised))
<1>1. Covered(u, citation)
  BY DEF Storable
<1>2. citation.sources = {} =>
          TileRange(citation.start_line, citation.end_line, LinksFor(u, citation))
  BY <1>1, AutomaticTile DEF LinksFor
<1> QED BY <1>2 DEF Tiles, Sourced

AllTile == \A u \in Unit : provenance[u] # NULL => Tiles(provenance[u])

LEMMA StoredTiles ==
    ASSUME ProvenanceInv, AllTile, CorpusStep \/ ReviseSources
    PROVE  AllTile'
<1>1. CASE UNCHANGED provenance
  BY <1>1 DEF AllTile
<1>2. CASE ~ UNCHANGED provenance
  <2>1. PICK u \in Unit, citation \in Citation, revised \in BOOLEAN :
          /\ db[u] \in Row
          /\ Storable(u, citation)
          /\ provenance' = [provenance EXCEPT ![u] = Sourced(u, citation, revised)]
    <3>1. CASE CorpusStep
      <4>1. PICK u \in NewlyBanked, citation \in Citation :
              /\ Storable(u, citation)
              /\ provenance' = [provenance EXCEPT ![u] = Sourced(u, citation, FALSE)]
        BY <1>2, <3>1 DEF CorpusStep
      <4>2. u \in Unit /\ db[u] \in Row
        BY <3>1, ImportKeepsSections DEF CorpusStep, ProvenanceInv
      <4> QED BY <4>1, <4>2
    <3>2. CASE ReviseSources
      <4>1. PICK u \in Unit, citation \in Citation :
              /\ provenance[u] # NULL
              /\ Storable(u, citation)
              /\ provenance' = [provenance EXCEPT ![u] = Sourced(u, citation, TRUE)]
        BY <3>2 DEF ReviseSources
      <4>2. db[u] # NULL /\ Inv
        BY <4>1 DEF ProvenanceInv, Sound
      <4>3. db[u] \in Row
        BY <4>2 DEF Inv, TypeOK
      <4> QED BY <4>1, <4>3
    <3> QED BY <3>1, <3>2
  <2>2. Tiles(Sourced(u, citation, revised))
    BY <2>1, SourcedTiles
  <2>3. provenance = [v \in Unit |-> provenance[v]]
    BY DEF ProvenanceInv
  <2>4. \A v \in Unit :
          provenance'[v] = IF v = u THEN Sourced(u, citation, revised) ELSE provenance[v]
    BY <2>1, <2>3
  <2> QED BY <2>2, <2>4 DEF AllTile
<1> QED BY <1>1, <1>2

(* Links that were made for a range have each of its lines once, and one   *)
(* of them is primary (insert_source_links).                               *)
THEOREM LinksTile == ProvenanceSpec => []AutomaticLinksTile
<1>1. ProvenanceInit => AllTile
  BY DEF ProvenanceInit, AllTile
<1>2. ProvenanceInv /\ AllTile /\ [ProvenanceNext]_<<vars, provenance>> => AllTile'
  BY StoredTiles DEF ProvenanceNext, AllTile
<1>3. AllTile => AutomaticLinksTile
  BY DEF AllTile, Tiles, TileRange, AutomaticLinksTile, Cited
<1> QED BY <1>1, <1>2, <1>3, ProvenanceAlways, PTL DEF ProvenanceSpec
=============================================================================
