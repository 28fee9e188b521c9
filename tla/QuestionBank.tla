---------------------------- MODULE QuestionBank ----------------------------
(***************************************************************************)
(* The question bank and the quiz templates of learn-book-db: the commands *)
(* bank import, bank revise, bank retire, bank activate and template       *)
(* rebuild (src/commands_bank.c, src/commands_tag_template.c).             *)
(*                                                                         *)
(* Every command is one BEGIN IMMEDIATE transaction, so it is one action.  *)
(* Abstractions:                                                           *)
(*   - a row's text (prompt, rubric, provenance) is its revision number;   *)
(*   - a template's id is its identity (the index quiz_templates_identity  *)
(*     makes the two correspond), and a template that was never stored is  *)
(*     an inactive one without questions: no command tells them apart;     *)
(*   - quiz_template_questions.position always numbers the links in the    *)
(*     order of (unit_id, position), which no command changes once the row *)
(*     exists, so links are a set ordered by BankPosition;                 *)
(*   - db_operations is its newest row: no command reads an older one.     *)
(***************************************************************************)
EXTENDS Integers, FiniteSets

CONSTANTS
    Unit,               \* rows of source_units
    IncludeInQuizzes,   \* the units whose include_in_quizzes is 1
    Bank,               \* the questions that bank files may carry
    UnitOf,             \* question_bank.unit_id
    Concept,            \* the concepts that bank files may carry
    ConceptOf,          \* question_bank.concept_id
    BankPosition,       \* rank of a question in the order (unit_id, position)
    Tag,                \* rows of tags
    TagKind,            \* tags.kind, as its first writer spelled it
    BankFile,           \* what the bank files may say of every question
    MaxRevision         \* bound on question_bank.revision

VARIABLES
    question_bank,      \* the bank rows, with their question_tags
    quiz_templates,     \* the templates, with their quiz_template_questions
    db_operations       \* the newest audit row

bank_vars == <<question_bank, quiz_templates, db_operations>>

-----------------------------------------------------------------------------
(* Quarters of a unit: the four values of earliest_checkpoint and of a     *)
(* chapter template's checkpoint, times four.                              *)
Checkpoint == 1..4

Kind == {"topic", "theme", "mode", "Topic", "Theme", "Mode"}

Lower == [k \in Kind |-> CASE k \in {"topic", "Topic"} -> "topic"
                           [] k \in {"theme", "Theme"} -> "theme"
                           [] k \in {"mode", "Mode"}   -> "mode"]

(* One file entry for a question: the columns bank import stores.          *)
Entry == [active: BOOLEAN, revision: 1..MaxRevision,
          earliest_checkpoint: Checkpoint, tags: SUBSET Tag]

(* insert_question_tags accepts a tag list only with the three kinds,      *)
(* compared without case.                                                  *)
ProperlyTagged(tags) ==
    \A kind \in {"topic", "theme", "mode"} :
        \E t \in tags : Lower[TagKind[t]] = kind

ASSUME BankAssumption ==
    /\ IsFiniteSet(Bank)
    /\ IncludeInQuizzes \subseteq Unit
    /\ UnitOf \in [Bank -> Unit]
    /\ ConceptOf \in [Bank -> Concept]
    /\ BankPosition \in [Bank -> Nat]
    /\ \A p, q \in Bank : BankPosition[p] = BankPosition[q] => p = q
    /\ TagKind \in [Tag -> Kind]
    /\ MaxRevision \in Nat
    /\ BankFile \subseteq [Bank -> Entry]
    /\ \A f \in BankFile : \A q \in Bank : ProperlyTagged(f[q].tags)

ChapterTemplate == [unit_id: Unit, checkpoint: Checkpoint]
TagTemplate == [tag_id: Tag]
Template == ChapterTemplate \cup TagTemplate

(* Rows of question_bank; a question that no file has brought is absent.   *)
Question == [imported: BOOLEAN, active: BOOLEAN, revision: 0..MaxRevision,
             earliest_checkpoint: Checkpoint, tags: SUBSET Tag]

Absent == [imported |-> FALSE, active |-> FALSE, revision |-> 0,
           earliest_checkpoint |-> 1, tags |-> {}]

(* lbdb_record_operation, the last statement of every write transaction.   *)
Operation(command, entity_type, entity_id) ==
    [command |-> command, entity_type |-> entity_type, entity_id |-> entity_id]

UnitQuestions(u) == {q \in Bank : UnitOf[q] = u}

IsActive(q) == question_bank[q].active

BankInit ==
    /\ question_bank = [q \in Bank |-> Absent]
    /\ quiz_templates = [t \in Template |-> [active |-> FALSE, questions |-> {}]]
    /\ db_operations = Operation("db.init", "database", 0)

-----------------------------------------------------------------------------
(* import_question: the row takes active and revision from the file.       *)
Imported(entry) ==
    [imported |-> TRUE, active |-> entry.active, revision |-> entry.revision,
     earliest_checkpoint |-> entry.earliest_checkpoint, tags |-> entry.tags]

(* Mutant: only active questions make a bank exist.                        *)
NoneActive(u) == \A q \in UnitQuestions(u) : ~question_bank[q].active

(* A unit without an imported bank: its import cannot conflict.            *)
Importable(u) == \A q \in UnitQuestions(u) : ~question_bank[q].imported

(* bank import: the named files, all of them or none.  One conflict aborts *)
(* the whole transaction.                                                  *)
BankImport(units, file) ==
    /\ units # {}
    /\ \A u \in units : UnitQuestions(u) # {} /\ Importable(u)
    /\ question_bank' = [q \in Bank |->
           IF UnitOf[q] \in units THEN Imported(file[q]) ELSE question_bank[q]]
    /\ db_operations' = Operation("bank.import", "bank", 0)
    /\ UNCHANGED quiz_templates

(* bank_set_active, with its conflict when nothing would change.           *)
BankSetActive(q, active) ==
    /\ question_bank[q].imported
    /\ question_bank[q].active # active
    /\ question_bank' = [question_bank EXCEPT ![q].active = active]
    /\ db_operations' =
           Operation(IF active THEN "bank.activate" ELSE "bank.retire", "bank_question", q)
    /\ UNCHANGED quiz_templates

BankRetire(q) == BankSetActive(q, FALSE)
BankActivate(q) == BankSetActive(q, TRUE)

(* bank revise: the merged row may move to another checkpoint, and its tags *)
(* are replaced when the input names tags.  Templates keep their links.    *)
BankRevise(q, checkpoint, tags) ==
    /\ question_bank[q].imported
    /\ question_bank[q].revision < MaxRevision
    /\ ProperlyTagged(tags)
    /\ question_bank' = [question_bank EXCEPT
           ![q].revision = @ + 1,
           ![q].earliest_checkpoint = checkpoint,
           ![q].tags = tags]
    /\ db_operations' = Operation("bank.revise", "bank_question", q)
    /\ UNCHANGED quiz_templates

-----------------------------------------------------------------------------
(* Mutants: a checkpoint takes its own quarter only; a tag takes retired   *)
(* questions too.                                                          *)
QuarterQuestions(t) ==
    {q \in UnitQuestions(t.unit_id) :
        IsActive(q) /\ question_bank[q].earliest_checkpoint = t.checkpoint}

TaggedQuestions(t) == {q \in Bank : t.tag_id \in question_bank[q].tags}

(* replace_template_questions: the active questions of the unit up to the  *)
(* checkpoint, or of the tag.                                              *)
ChapterQuestions(t) ==
    {q \in UnitQuestions(t.unit_id) :
        IsActive(q) /\ question_bank[q].earliest_checkpoint <= t.checkpoint}

TagQuestions(t) == {q \in Bank : IsActive(q) /\ t.tag_id \in question_bank[q].tags}

TemplateQuestions(t) ==
    IF t \in ChapterTemplate THEN ChapterQuestions(t) ELSE TagQuestions(t)

(* The units and tags template rebuild enumerates: an included unit with an *)
(* active question, a topic or theme tag (whatever its case) on one.       *)
RebuiltChapters ==
    {t \in ChapterTemplate :
        t.unit_id \in IncludeInQuizzes /\ \E q \in UnitQuestions(t.unit_id) : IsActive(q)}

RebuiltTags ==
    {t \in TagTemplate :
        Lower[TagKind[t.tag_id]] \in {"topic", "theme"} /\ TagQuestions(t) # {}}

(* get_or_create_template stores the tag's kind as scope_type, and the     *)
(* CHECK of quiz_templates knows only the lower-case spellings: any other  *)
(* one aborts the rebuild.                                                 *)
ScopesAreLegal == \A t \in RebuiltTags : TagKind[t.tag_id] \in {"topic", "theme"}

TemplateRebuild ==
    /\ ScopesAreLegal
    /\ quiz_templates' = [t \in Template |->
           IF t \in RebuiltChapters \cup RebuiltTags
           THEN [active |-> TRUE, questions |-> TemplateQuestions(t)]
           ELSE [quiz_templates[t] EXCEPT !.active = FALSE]]
    /\ db_operations' = Operation("template.rebuild", "quiz_template", 0)
    /\ UNCHANGED question_bank

BankNext ==
    \/ \E units \in SUBSET Unit, file \in BankFile : BankImport(units, file)
    \/ \E q \in Bank : BankRetire(q)
    \/ \E q \in Bank : BankActivate(q)
    \/ \E q \in Bank, checkpoint \in Checkpoint, tags \in SUBSET Tag :
           BankRevise(q, checkpoint, tags)
    \/ TemplateRebuild

BankSpec == BankInit /\ [][BankNext]_bank_vars

-----------------------------------------------------------------------------
(* The tables have their columns' types.                                   *)
BankTypeOK ==
    /\ question_bank \in [Bank -> Question]
    /\ quiz_templates \in [Template -> [active: BOOLEAN, questions: SUBSET Bank]]

(* "Cumulative" selections (docs/schema.md): whatever was revised, retired *)
(* or activated since the last rebuild, the template of an earlier         *)
(* checkpoint never holds a question that a later one of the unit lacks,   *)
(* and the four are started or refused together.                           *)
ChaptersCumulative ==
    \A s, t \in ChapterTemplate :
        s.unit_id = t.unit_id /\ s.checkpoint < t.checkpoint =>
            /\ quiz_templates[s].questions \subseteq quiz_templates[t].questions
            /\ quiz_templates[s].active = quiz_templates[t].active

(* An import never lands on a bank that is there: a question once imported *)
(* stays imported, and its revision never goes back.                       *)
RevisionsNeverReset ==
    [][\A q \in Bank :
        question_bank[q].imported =>
            /\ question_bank'[q].imported
            /\ question_bank'[q].revision >= question_bank[q].revision]_bank_vars

(* Every active question of an included unit can be asked after a rebuild: *)
(* it is in the unit's active final template, in the active template of    *)
(* each topic and theme tag it carries, and in no checkpoint template      *)
(* before its own; and no active template holds a retired question.        *)
Askable(q) ==
    LET chapter == [unit_id |-> UnitOf[q], checkpoint |-> 4]
    IN  /\ UnitOf[q] \in IncludeInQuizzes =>
               quiz_templates[chapter].active /\ q \in quiz_templates[chapter].questions
        /\ \A t \in question_bank[q].tags :
               Lower[TagKind[t]] \in {"topic", "theme"} =>
                   /\ quiz_templates[[tag_id |-> t]].active
                   /\ q \in quiz_templates[[tag_id |-> t]].questions
        /\ \A t \in ChapterTemplate :
               quiz_templates[t].active /\ q \in quiz_templates[t].questions =>
                   question_bank[q].earliest_checkpoint <= t.checkpoint

TemplatesCurrent ==
    /\ \A q \in Bank : IsActive(q) => Askable(q)
    /\ \A t \in Template : quiz_templates[t].active =>
           \A q \in quiz_templates[t].questions : IsActive(q)

RebuildMakesTemplatesCurrent ==
    db_operations.command = "template.rebuild" => TemplatesCurrent

(* The documented workflow imports banks, then rebuilds the templates      *)
(* (README.md): no bank that import accepted makes the rebuild fail.       *)
RebuildPossible == (\E q \in Bank : question_bank[q].imported) => ScopesAreLegal
=============================================================================
