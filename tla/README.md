# Verification of learn-book-db

learn-book-db is a command-line program in C23 that keeps a source-grounded
question bank and runs quizzes from it.  All state is one SQLite database; every
invocation is one process that runs one command.  This directory holds TLA+
modules of its state-changing logic, TLC configurations that check them on small
instances, and TLAPS proofs of the properties that matter most.

## The system

| Component | State | Operations | Hard part | Correct when |
|---|---|---|---|---|
| Quiz sessions (`commands_quiz.c`) | `quiz_sessions`, `quiz_objectives`, `quiz_questions`, `quiz_responses` | start, next, defer, requeue, follow-up, pause, resume, complete, abandon, submit, regrade | long sequences of legal commands; guards spread over handlers, tables, triggers and indexes | one question asked, one live session per template, terminal sessions resolved and frozen, attempts and positions numbered without gaps, snapshots untouched by the bank |
| Question bank (`commands_bank.c`) | `question_bank`, `question_tags`, `question_sources`, `concepts` | import, revise, retire, activate; validate, export, search read | an import must never land on a bank; revisions must stay out of old snapshots | revisions only grow; a failing file imports nothing; every question cites body sections its unit has |
| Templates (`commands_tag_template.c`) | `quiz_templates`, `quiz_template_questions` | rebuild | links are stale between rebuilds | chapter templates cumulative, everything active askable after a rebuild |
| Evidence (`commands_learning_report.c`) | `learning_records` | add, and the record linked to a submitted response | two foreign keys that must agree | evidence names the quiz of its response |
| Audit (`app.c`) | `db_operations`, `quiz_events` | one row per write, one event per lifecycle change | written by hand beside each update | the newest event gives the state |
| Write transactions (`app.c`, `database.c`) | SQLite's lock and WAL | open, BEGIN IMMEDIATE, 5 s busy timeout, COMMIT or ROLLBACK, output | crash or failed output after COMMIT, retries | all of a command or none |
| Database file (`commands_db.c`) | the file, its `-wal` and `-shm`, staged files | init, doctor, status, backup, restore | two processes on one path, a crash between unlink and rename | no committed change lost |
| Corpus (`commands_corpus.c`) | `source_units`, `source_sections` | sync, status | two reads of a source that may be edited, rows changed one by one under unique keys | sections and hash of one text; the text of a unit with a bank never changes; a status tells the truth |
| Tags (`commands_tag_template.c`) | `tags`, `tag_aliases`, `tag_relations` | alias and relation add, remove | case-insensitive names | a reference names one tag, or none |
| Reports (`commands_learning_report.c`, views of `schema.c`) | none | active, quiz, coverage, mastery, state-drift, stats | several SELECTs outside a transaction | numbers that add up, no drift to report |
| Command line, JSON, paths, hashing | none | parse, dispatch, format, read files | none across calls | |

A write command opens the database, begins an immediate transaction, checks its
arguments against the rows, writes the domain rows and their `quiz_events`, adds
one `db_operations` row, commits, and prints.  Commands interact only through
the tables: import fills the bank, rebuild derives the templates from it, start
copies bank rows into a snapshot, the session commands move that snapshot, and
the next start of a topic template reads the responses of the earlier ones.
`corpus sync` fills the units and sections that imports cite, and is refused
where it would change the text under them.

## The modules

| Module | What it is |
|---|---|
| `QuestionBank` | the bank and the templates, with the commands that write them |
| `QuizLifecycle` | EXTENDS `QuestionBank`: sessions, questions, responses, evidence and events; `Next` lets bank commands and quiz commands interleave |
| `QuizPromise` | what a quiz promises its learner, without tables |
| `QuizReports` | EXTENDS `QuizLifecycle`: the view `quiz_progress` and `report state-drift` |
| `QuizRefinement` | EXTENDS `QuizReports`: INSTANCE `QuizPromise` with the tables as its state |
| `BankValidate` | EXTENDS `QuestionBank`: what `bank validate` counts |
| `TagCatalog` | EXTENDS `QuestionBank`: tags, aliases and relations beside the bank commands |
| `CorpusSync` | sources, manifest, `corpus sync` and `corpus status`, read by read |
| `BankProvenance` | EXTENDS `CorpusSync`: the sources of bank questions under import, revision and sync |
| `DatabaseFile` | the database file, its log and a backup's output under `db init`, write commands, `db backup` and `db restore`, one process each, step by step |
| `MCBank`, `MCQuiz`, `MCCorpus`, `MCDatabaseFile` | small instances for TLC |
| `QuestionBankProofs`, `TagCatalogProofs`, `CorpusSyncProofs` | theorems about the bank and `bank validate`, the tags, the corpus and the sources of questions |
| `QuizLifecycleProofs`, `QuizHistoryProofs`, `QuizReportsProofs`, `QuizRefinementProofs` | theorems about quizzes: the types and the sessions, what happens to a row over time, snapshots and reports, and the promise; `QuizHistoryProofs` says, command by command, what a step may do to each table |
| `DatabaseFileProofs` | theorems about the database file |

### QuestionBank

`question_bank[q]` is the row of a question with its tags; a question that no
file has brought is `Absent`.  `quiz_templates[t]` is a template with its links.
A template is identified by unit and quarter, or by tag, as the unique index
`quiz_templates_identity` does.  `db_operations` is the newest audit row.

- `BankImport(units, file)` is `bank import` of any set of units: the conflict
  (`Importable`), then every row as the file says (`Imported`), `active` and
  `revision` included.  Several files are one transaction.
- `BankRevise`, `BankRetire`, `BankActivate` change one row and leave templates
  alone, so templates are stale until the next `TemplateRebuild`.
- `TemplateRebuild` deactivates every template and reactivates, with new links,
  the four of each included unit with an active question and one for each topic
  or theme tag on an active question.  `ScopesAreLegal` is the CHECK on
  `scope_type`: where it fails the transaction rolls back, so there is no step.

### QuizLifecycle

A table is a sequence and the id of a row is its index; no modelled command
deletes a row of these tables.  `quiz_sessions` holds the objectives of a
session, which are written once.  `session_events`, `question_events` and
`response_events` hold the newest event of each row.

- `QuizStart` takes an active template, refuses `--limit` on a chapter template,
  and then either returns the live session with the least id (`StartExisting`)
  or builds a snapshot (`CreateSnapshot`).  `select_template_questions` gives
  the rows of its ORDER BY and LIMIT.
- `QuizNext` has the two ways of the handler: the asked question is returned, or
  the planned one with the least position is asked.
- `QuizDefer`, `QuizRequeue`, `QuizFollowUp`, `QuizPause`, `QuizResume`,
  `QuizComplete`, `QuizAbandon`, `ResponseSubmit`, `ResponseRegrade` and
  `LearningAdd` are one action per command.  The guards come from the handler
  (`InProgress`, `UnresolvedOf`), from the transition tables, or from the schema:
  nothing but the trigger `terminal_response_update` keeps `ResponseRegrade` out
  of a finished quiz.
- `Tick` moves the wall clock, which `answered_at` reads at the insert.  Two
  responses may have the same time; with `ClockGoesBack` the clock may be set
  back.

Because `BEGIN IMMEDIATE` admits one writer and readers see only committed
states, a command is one action; a command that fails leaves no trace, so
failures are the absence of a step.  Operators under a comment that starts with
"Mutant" are faulty variants of the definition that follows them; they are not
part of the specification and show that each property notices such a fault.

### QuizPromise, QuizReports, QuizRefinement

`QuizPromise` has a quiz's phase, the questions still to do, the one it waits
for, those done, and a grade for each.  `QuizRefinement` reads this from the
tables: the phase is `quiz_sessions.state`, the grade of a question is the
assessment of its response with the greatest attempt number, as
`quiz_progress` finds it.  A submitted answer to a question already answered,
and a regrade, are both `Regrade`; a regrade of a response that is not the
latest is a step the promise does not see.  The questions of an abandoned quiz
stay in `todo`.

A report takes no transaction, so two of its SELECTs may see two states.  Each
operator of `QuizReports` is one SELECT: what holds of it in every state holds
in every report.

### BankValidate, TagCatalog

`BankValidate` has one operator for each count of `bank validate` over
questions, tags, concepts and templates; concepts are never deleted, so their
rows are those of the imported questions.

`TagCatalog` adds the rows of `tags`, which `get_or_create_tag` makes and
nothing removes, and of `tag_aliases` and `tag_relations`, with the four
commands that write them.  `Matches` is the SELECT of `lbdb_resolve_tag_id`:
a reference that is a decimal number, or has a colon, is an ID or a `kind:name`,
and everything else is compared with the names and the aliases.  `tag alias-add`
accepts an alias of either form, but the alias is then never looked up: it can be
listed and removed, and names nothing.  The cfg has such an alias (`t2`).

### CorpusSync

A text is a sequence of lines of five kinds, and stands for its SHA-256.
`Sections` is `parse_source_document`: the opening from the first page marker,
a section at each numbered or summary heading, its end set when the next one is
found, a repeated key told apart by its position.  `SyncBegin`, `ParseUnit`,
`HashUnit`, `SyncCommit` are `corpus sync`: each unit is read once to parse it
and once more to hash it, then its row, sections and exemptions are written in
the transaction (`Synchronized`), or the whole sync fails (`SyncFails`).
`StatusBegin`, `StatusDigest`, `StatusSelect`, `StatusUnlisted` are
`corpus status`, which takes no transaction and reads the manifest twice.
`EditSource` and `EditManifest` are the author, between any two of these steps.
`BankImport` is here what it does to a unit: from then on `synchronize_unit`
refuses another hash.  The fields `torn`, `edited` and `disturbed` are history:
they record that a file was edited between two reads, and the properties use
them to say what is promised when none was.

### BankProvenance

One question for each unit, with its flat columns (section, first and last line)
and its links.  `Covered` is `sections_for_range`; `AutomaticLinks` and
`LinkInside` are the two ways of `insert_source_links`; `FlatProvenance` is
`validate_flat_provenance`, which the import calls (`CorpusStep`) and
`bank revise` does not (`ReviseSources`).  `InvalidQuestionSources` is the query
of `bank validate`.

### DatabaseFile

Here a command is a process that takes one step at a time, so that commands
interleave, fail and crash between their steps.  `file` is the directory entry
of the database and of the copy, `log` the entry of `-wal` and `-shm`; `conn` is
what a process has open, which stays the same when an entry goes to another
file.  A file has pages and a log has frames, both sets of operations: an
operation, a file and a log are named by the process that makes them, as each
process runs one command.

- `InitCheck`, `InitCreate` or `OpenExisting`, `Begin`, `Commit`, `Close` are
  `lbdb_command_db_init`; a write command starts at `OpenExisting`
  (`lbdb_begin_write`, `lbdb_commit_write`).  `Busy` is the end of the 5 s busy
  timeout, `SchemaError` and `StatementFails` the failures inside the
  transaction.  For `db init` every failure after the open leads to `UnlinkFile`
  and `UnlinkLog`.
- `BackupCheck`, `BackupCreate`, `BackupOpenCopy`, `BackupRestarts`,
  `BackupDone` are `lbdb_command_db_backup` with the copy loop of
  `lbdb_database_backup`; every error leads to `UnlinkOutput`.
- `RestoreStage`, `RestoreUnlinksLog`, `RestoreRename` are
  `lbdb_command_db_restore`.  The stage has a name with the process id in it, so
  building it is one step; its source must pass the checks of `db doctor`, the
  fingerprint of the schema among them (`Healthy`): it holds what a `db init`
  committed.
- SQLite is modelled from its use: a connection joins the log that is there or
  makes one, the write lock goes with the log, the last connection to close
  moves the log into the file and deletes it, unless it is read-only or the
  entry has gone to another file (`Checkpoints`), a database file that is
  created drops the log beside it.  Opening the file and its log is one step,
  there is no checkpoint before the close, and no power failure.

## What the runs check

| Run | Instance | Question |
|---|---|---|
| `bank_templates` | two units of one question, one of them not in quizzes, two topics, a theme, a mode, revisions 1..2, three names, two aliases, one relation | what imports, revisions, retirements, activations and rebuilds in any order leave in the templates, what `bank validate` says after a rebuild, and what tag references name |
| `corpus` | two units of one book, two sources, four texts, five manifests, four citations; two edits or revisions | what sync stores, what status says and what questions cite, while an author edits |
| `one_quiz` | one quiz of two base questions, one follow-up, two responses | all orders of the session commands, the reports on them, and the promise they keep |
| `two_quizzes` | two quizzes of one question, final and topic template, one response, one evidence record | sessions side by side and one after the other |
| `snapshot` | two questions, two quizzes, all bank commands between starts, from the empty bank on | what a snapshot takes and keeps |
| `adaptive` | three topic questions, two topic quizzes with limits, three responses, regrades, a clock of two values | adaptive order and limits |
| `database_file` | a `db init` that succeeds, fails or crashes, then three processes, each with any command, at most one crash | whether what was reported as stored stays readable, and whether every command ends |
| `abandon_table`, `clock_set_back`, `capital_kinds`, `backup_overwrites`, `two_inits` | see below | five statements of the documentation that do not hold |

`bank_templates` checks `ChaptersCumulative`, `RebuildMakesTemplatesCurrent`,
`RebuildValidates`, `RevisionsNeverReset` and `ReferencesSteady`.  `corpus` checks
`TypeOK`, `SectionsMatchHash`, `SectionsTile`, `LastSyncStands`,
`RefusedWithReason`, `StatusTellsTruth`, `SourcesStand`, `AutomaticLinksTile` and
`BankedStaysFrozen`.  `one_quiz` checks `OneAskedPerQuiz`, `QuestionHistory`,
`TerminalIsResolved`, `SnapshotShape`, `AttemptsNumbered`, `EventsReplay`,
`EventsChain`, `PausedIsQuiet`, `ProgressAddsUp`, `NoDrift` and the refinement
`PromiseKept`.  `two_quizzes` checks `TypeOK`,
`OneLiveSessionPerTemplate`, `EvidenceLinksAgree` and `TerminalFrozen`.
`snapshot` checks `StartTakesCurrentBank` and `RowsKept`, `adaptive` checks
`AdaptiveWeakestFirst` and `RowsKept`.  `database_file` checks `TypeOK`,
`StoredIsVisible`, `LogBelongsToFile`, `FailedInitLeavesNothing`,
`RestoredIsWhole` and `EveryCommandEnds`.  Each property is stated in words above
its definition.

### Bounds

`MaxRevision`, `MaxQuizzes`, `MaxQuestions`, `MaxResponses`, `MaxRecords`,
`MaxClock` and `MaxLimit` cap counters the program leaves unbounded; they appear
only in guards.  The hazards need few rows: two questions of one quiz for
anything about order or about a second asked question, a third for a follow-up
after base questions; two sessions for anything that relates sessions; two
responses for attempts of one or of two questions, and three responses over two
quizzes for a selection whose ranks differ; two revisions for a stale copy; two
clock values for ties and order.  A quiz interacts with another one only through
the template it was started from and through the responses to the same bank
question, so two are enough.  The safety properties of the theorems below are
proved for every bound as well.  `DefaultLimit` keeps its value 10, so
the limits that cut a selection are those given with `--limit`.  Runs that start
after a rebuild begin in the state that an import and a rebuild lead to;
`snapshot` begins with the empty bank and reaches that state itself.

`bank_templates` starts from the empty database and takes three restrictions on
what is given to the commands, which keep the tags and the bank from multiplying
each other.  Imported questions stay in the first three quarters
(`WithinQuarters`).  Aliases and relations are those of the two topics
(`TopicsOnly`), and exist only while no template is active and the second
question is as it was imported (`TidiedInTime`); a rebuild reads neither table.

In `corpus` two edits are enough for each reading hazard: one between the two
reads of a source, one before and one after them, or one of the manifest and one
of a source.  Two units are needed for the unique path and position, a repeated
heading and a summary for the keys, a text whose pages run backwards and one
without pages for the refusals.  `MaxEdits` counts the revisions of question
sources too.

In `database_file` three processes after the first `db init` give every pair of
commands side by side, a third that finds or changes what the two left, and the
chain that fills a log, backs up, and restores.  They are interchangeable, so
they start in a fixed order, which is no restriction of what they do.
`MaxCrashes` bounds the crashes.  `Apart` and `MayCrash` are not bounds but what
the user is assumed to do: one `db init` at a time, no restore beside a command
that writes, no crash (and no failing rename, which has the same effect) of a
restore, and backups to a path other than the database's.  Each assumption is
needed: with two inits or a backup to the database's path the runs below fail,
with the others lifted TLC violates `StoredIsVisible` or `LogBelongsToFile`, as
the hazards at `src/src/commands_db.c:804` and `:806` say.

Deadlock is checked in the bank and corpus runs.  In the quiz runs it is off: the bounds
stop them when every row is used and every session is terminal, and in the runs
of `DatabaseFile` because processes end.

The quiz, bank and corpus modules assume no fairness: the program promises nothing about
what its user does next, and their properties are safety properties.
`DatabaseFile` assumes weak fairness of each process's `Work`, the steps of a
command that goes as far as it can: the operating system goes on running a
process, and no step waits for another process without end, because the wait for
the lock is cut off after 5 s.  No error, no crash and no start is assumed to
happen.  `EveryCommandEnds` has the copy loop as its hard case: it begins anew
at each commit of another process, and ends because each process commits once; a
source that is written without pause would keep it from ending.

## What does not hold

Five statements of the documentation, each with a run that violates it:

- `abandon_table`: docs/architecture.md says a handler cannot write a target
  state until its `(event, from, to)` tuple is in the transition table.  Quiz
  abandon writes `retired`, which is in no tuple.
- `clock_set_back`: topic quizzes take the latest assessment by the wall clock.
  After the clock is set back, an older assessment counts as the latest one.
  `adaptive` shows the order is right while the clock only moves forward, ties
  included.
- `capital_kinds`: import and rebuild compare tag kinds without case, the CHECK
  on `scope_type` with case.  A bank with the kind `Topic` imports, and then no
  rebuild succeeds, for any unit.
- `backup_overwrites`: docs/agent-interface.md says backups refuse to overwrite
  files.  `db backup` refuses, and then unlinks the path it was given, as it
  does after every error: the file that was to be kept is gone, and with the
  path of the database, the database.
- `two_inits`: docs/agent-interface.md says `db init` refuses an existing
  destination.  Two inits that both find none open the same file, and the one
  that fails unlinks the database of the other.

Met while modelling, and stated in the models rather than by a run of their own:

- `bank revise` does not call `validate_flat_provenance`, so after a revision of
  its sources the flat columns of a question need not match its links, against
  docs/schema.md:30.  A revision of the justification alone replaces links that
  a file gave by the automatic ones.  `SourcesStand` therefore says less of
  revised questions.
- A manifest that swaps the positions of two units is refused although its final
  state is legal, because units are updated row by row under
  `UNIQUE(corpus_slug, position)`.  It needs a manifest between the two.
- A source edited between the two reads of a sync leaves the sections of one
  text under the hash of another (`torn`), and no later sync mends it as long as
  the file keeps the text that was hashed.
- `tag alias-add` accepts aliases that no reference can reach, see above.

## What is proved

For every value of the constants that the named assumptions allow, and for every
bound (`Spec` is that of the component the proofs are about):

| Module | Theorem | Statement |
|---|---|---|
| `QuestionBankProofs` | `BankTypeCorrect` | `BankSpec => []BankTypeOK` |
| | `RevisionsAreKept` | `BankSpec => RevisionsNeverReset` |
| | `ChaptersAreCumulative` | `BankSpec => []ChaptersCumulative` |
| | `RebuildIsCurrent` | `BankSpec => []RebuildMakesTemplatesCurrent` |
| | `Validates` | `BankSpec => []RebuildValidates` |
| `TagCatalogProofs` | `Steady` | `CatalogSpec => ReferencesSteady` |
| `QuizLifecycleProofs` | `TypeCorrect` | `Spec => []TypeOK` |
| | `OneAsked` | `Spec => []OneAskedPerQuiz` |
| | `OneLive` | `Spec => []OneLiveSessionPerTemplate` |
| | `TerminalResolved` | `Spec => []TerminalIsResolved` |
| `QuizHistoryProofs` | `History` | `Spec => []QuestionHistory` |
| | `Replay` | `Spec => []EventsReplay` |
| | `Chain` | `Spec => EventsChain` |
| | `PausedQuiet` | `Spec => PausedIsQuiet` |
| | `Frozen` | `Spec => TerminalFrozen` |
| | `Kept` | `Spec => RowsKept` |
| | `LinksAgree` | `Spec => []EvidenceLinksAgree` |
| | `Numbered` | `Spec => []AttemptsNumbered` |
| `QuizReportsProofs` | `Shaped` | `Spec => []SnapshotShape` |
| | `DriftNever` | `Spec => []NoDrift` |
| | `ProgressRight` | `Spec => []ProgressAddsUp` |
| | `TakesCurrentBank` | `Spec => StartTakesCurrentBank` |
| | `WeakestFirst` | `~ClockGoesBack` gives `Spec => AdaptiveWeakestFirst` |
| `QuizRefinementProofs` | `Refines` | `Spec => PromiseKept` |
| `CorpusSyncProofs` | `CorpusTypeCorrect` | `Spec => []TypeOK` |
| | `SectionsFit` | `Spec => []SectionsMatchHash` |
| | `BankFrozen` | `Spec => BankedStaysFrozen` |
| | `SectionsAreTiled` | `Spec => []SectionsTile` |
| | `LastSync` | `Spec => []LastSyncStands` |
| | `WithReason` | `Spec => []RefusedWithReason` |
| | `StatusTrue` | `Spec => []StatusTellsTruth` |
| | `SourcesHold` | `ProvenanceSpec => []SourcesStand` |
| | `LinksTile` | `ProvenanceSpec => []AutomaticLinksTile` |
| `DatabaseFileProofs` | `FilesTypeCorrect` | `Spec => []TypeOK` |
| | `RestoredWhole` | `Spec => []RestoredIsWhole` |
| | `StoredStays` | `UsedWithCare` gives `Spec => []StoredIsVisible` |
| | `LogBelongs` | `UsedWithCare` gives `Spec => []LogBelongsToFile` |
| | `FailedInitClean` | `UsedWithCare` gives `Spec => []FailedInitLeavesNothing` |

`BankAssumption` and `QuizAssumption` say that the bank is finite, that units,
concepts and positions are functions of the questions with distinct positions,
that files are properly tagged, which import and revise validate, that no bank
question is the null foreign key, and that the bounds are numbers.
`CatalogAssumption` says that a kind and a name belong to one tag, as the key of
`tags` does, and that an ID is no name.  `CorpusAssumption` says that texts are
sequences of lines, that manifests are sequences of entries, and that a text is
not the missing file; `RowAssumption` that a row is not the missing row;
`CitationAssumption` gives citations their types.  `ConceptAssumption` says that
a concept belongs to one unit, as its row in `concepts` does; `Validates` needs
it, since `bank validate` counts concepts by unit.  `DatabaseFileAssumption`
says that no process and no command is `NULL`, and types the rest.

Two hypotheses are more than types, and restrict how the program is used:
`~ClockGoesBack`, and `UsedWithCare`: one `db init` at a time, no restore beside
another restore, an init or a write, no restore cut off, no backup onto the
database.  Both are how the passing runs are configured, and the runs
`clock_set_back`, `two_inits` and `backup_overwrites` show what happens without
them.

**Bank.**  `ChaptersCumulative` is inductive: only a rebuild writes templates, it
writes the four of a unit together, and smaller quarters select smaller sets.
`RebuildMakesTemplatesCurrent` is guarded by the newest audit row: a rebuild
makes it true and every other command writes another row.  In its proof a
question outside the rebuilt chapters has an inactive unit or an excluded one.

`Validates` turns from questions to numbers: `bank validate` compares how many
templates and how many links there are.  `RebuildMakesTemplatesCurrent` says what
an active template holds but not how many there are, so two more invariants are
needed.  `TagsProper` says that an imported question is tagged as a file must be,
and `UnitTemplatesCurrent` that after a rebuild every chapter template of a unit
with an active question is active and holds its questions; a bijection from
`1..4` then counts the four of a unit.

**Tags.**  `Steady` compares what a reference matches before and after a command:
the bank commands and `alias-add` only add matches, `alias-remove` only takes
some away, relations are not read.  A reference that names a tag on both sides
then names the same one.

**Quizzes.**  `BankTypeOK` and `TypeOK` are inductive as they stand.  The proof of
`TypeCorrect` has one lemma per command and rests on lemmas about tables as
sequences: what appending one row, appending a block of rows, or updating one row
keeps of the type and of the domain.  The foreign keys make it more than a typing
argument, as the row types of one table depend on the domain of another, so each
append has to show that the rows already there stay well typed.

`OneAskedPerQuiz` and `OneLiveSessionPerTemplate` are inductive together with
`TypeOK`, which is needed to know that a new row has an id that no other row
names.  For the first, the one step that matters is `NextAsks`, whose guard says
that no question of the quiz is asked; a new question is planned.  For the
second it is `CreateSnapshot`, taken only where `LiveSessions(t)` is empty, and
that no transition leads from a terminal state back to a live one.
`TerminalIsResolved` is inductive with `TypeOK` too: its last part, that a
retired question belongs to an abandoned session, is what keeps `QuizComplete`
from finding one, and the guards of the question commands keep a terminal
session's questions where they are.

`QuizHistoryProofs` begins by saying once what a command may do to the tables:
`StepKind` has one disjunct for each way a row moves (a question moves, is added, is answered, a
session moves, ...), with what stays, and `StepKinds` shows that every step is one
of them.  The history theorems and the refinement are proved from `StepKind` and
never open a command again.  `Refines` needs `RefinementInv`: the types, one asked
question (what the quiz waits for is one question), `QuestionHistory` (a planned
question has no response, so its grade appears with its answer),
`TerminalIsResolved` (a completed quiz has nothing to do) and the row bounds.
`SubmittedIsLatest` and `RegradedIsAsLate` say what the greatest attempt number
finds after a new response and after a regrade.

`EvidenceLinksAgree` and `AttemptsNumbered` are inductive with `TypeOK`.  For the
first, a response never moves to another quiz; for the second, a new response
comes after all others to its question and takes their number plus one, which
`IsNextAttempt` reads from the greatest number there is.

`SnapshotShape` is proved quiz by quiz (`Shape`).  The rows of a quiz are either
as they were (`ShapeKept`: every command but two), or made by `quiz start`
(`ShapeStarts`), which numbers a selection without repetition from 1, or grown by
one question at the next position (`ShapeGrows`), for an objective the quiz has.
`NextPositionCounts` is the counting step: the greatest of `1..n` plus one is
`n + 1`.  From it, `CountNumbered` gives the size of a set that is numbered
`1..n`, and with it `NoDrift` and `ProgressAddsUp` follow from `QuizInv`, the
conjunction of what was proved before, without a further induction.  In
`ProgressAddsUp` each answered question has exactly one latest response
(`OneLatest`), so counting by grade splits the answered questions in three.

`StartTakesCurrentBank` and `AdaptiveWeakestFirst` are action properties: a new
quiz row appears only in `CreateSnapshot` (`NewQuizIsSnapshot`), whose rows
`SnapshotRow` describes.  The second needs an invariant of its own, that
`answered_at` rises with the response id and is never ahead of the clock
(`StepKeepsDates`), for which `~ClockGoesBack` is needed; then the latest response
by time and id, which the program takes, is the one submitted last
(`RankIsLatest`).

**Corpus.**  The invariant `Inv` is `TypeOK`, `Standing` (what holds of a sync and a
status at each of their steps), `RowsFit` and `BanksKept`.  The last two speak of
the committed rows and of the rows a running sync has built alike, so that
`SyncCommit` has nothing left to show.  `BanksKept` is where the one guard that
matters enters: a unit with a bank and another hash makes `HashUnit` fail the
sync.

`LastSyncStands`, `RefusedWithReason` and `StatusTellsTruth` need to know how far
a process has come.  `SyncSoFar`: the entries before the index are placed in the
rows being built, every other unit is as committed, and while no file is edited
the sync is at work on the manifest and the texts that are there.  `StatusSoFar`:
a status that still says `in_sync` has found every entry before its index right,
and those stay right under a sync that commits in between, because that sync read
the same files.  With these the first two are inductive as they are stated, and
the third is the last case of `StatusSoFar`.  `SectionsTile` is a fact about
every text, so it follows from `TypeOK`: the end of a section is the line before
the next start (`EndLines`), found as a least element, and the key of a repeated
heading carries its position (`KeysDiffer`).

**Sources.**  `SourcesHold` composes the two: a question with sources has a unit
with a bank (`Sound`), a unit with a bank keeps its sections (`FrozenStep`), so a
link that was inside a body section when it was stored stays inside it.
`LinksTile` joins it to `SectionsTile`: the body sections that meet a range cut it
into pieces, and the first of them is the primary link.  That the
automatic links are inside needs that the lines of a section are in order, which
is an argument about least elements (`MinLeast`, from the well-foundedness of the
numbers).

**Database file.**  `FilesInv` holds however the commands are used, and says what
each location of a process implies: the command it can belong to (`Placed`), what
it has open there (`Holding`), which process an entry, a log or a connection can
come from (`Named`), and that what a restore has staged holds the schema
(`Whole`).  It gives `TypeOK` and `RestoredIsWhole` with any mixture of commands,
any number of processes and any crashes.

The other three need `CareInv`, under `UsedWithCare`.  Its parts are that inits
and restores are where care puts them (`Alone`), that frames are of committed
operations, that the log is empty while there is no database or while a restore
puts its own in place (`LogEmpty`), and where an init stands (`InitsWork`).
`WritersStand` is the argument: a command that writes has open what the path
names, or it has open the empty database of an init that failed and was removed,
so that nothing it could store is lost.  The proofs have one lemma for each
action and invariant.

Proving `Whole` for any number of processes changed the model: `Healthy` used to
ask only that the copy holds something.  A backup may run beside a restore, and
one that opens the database after the restore has unlinked the log and before it
renames its stage reads the old file's pages and a new log's frames.  With enough
processes that copy need not hold the operation that created the schema; the
program refuses such a copy by its fingerprint (`src/src/commands_db.c:225`),
and so does the model now.

## What stays with TLC

- `EveryCommandEnds`, which is liveness under fairness.  Liveness and ENABLED are
  outside what the provers do.
- The five statements that do not hold: a run shows each counterexample.
- What recursive definitions compute for every input would be an induction over
  data, which the provers cannot do either.  The proofs need none: where a proof
  goes over the natural numbers it takes a least counterexample (`LeastNat`,
  `MinLeast`), which the well-foundedness of the numbers gives.

Every other property of a passing run is a theorem.

## What is not modelled

- The command line, its parsing and dispatch, JSON output, path resolution and
  hashing: one process reads or writes them and keeps nothing.
- Output that fails after the commit, and a caller that then repeats a write; a
  power failure, which may lose the last commits under `synchronous=NORMAL`.
- Coverage, mastery and statistics reports, the comparison with `LEARNING.md`,
  concept coverage of a bank, and `bank export`: they read, combine and print,
  and no command reads their results back.
- Of the modelled commands: the text of questions, options, answers, feedback,
  reasons, justifications and topics, and with them the multiple choice checks;
  titles of units and templates; `supersedes_question_id`, which no command sets.
- Of `corpus sync`: the words of a page, reasons of exemptions, and paths that
  leave the root.  The quiz and bank modules take the units as constants, so a
  manifest that excludes a unit while a template of it is active is in no run.

## Plan

Done: the bank, its templates and tags; the quiz commands with their refinement
of `QuizPromise` and their reports; corpus and question sources; the database
file; and the theorems above.

Left, in this order:

1. A caller that repeats a write whose output it did not see.
2. Mastery and coverage as operators over the tables of `QuizLifecycle`.

## Running

    tlc -workers 2 -config one_quiz.cfg MCQuiz
    tlapm QuizLifecycleProofs.tla

`PROJECT.json` lists every run with its module and configuration, the source
lines of every definition, the hazards and the properties that cover them.
