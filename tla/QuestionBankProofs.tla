------------------------- MODULE QuestionBankProofs -------------------------
(***************************************************************************)
(* Proofs about QuestionBank, for every bank, every set of units and tags  *)
(* and every file: the tables are well typed, imports never reset a        *)
(* question, chapter templates stay cumulative, and a rebuild leaves every *)
(* active question askable and the numbers that bank validate compares.    *)
(***************************************************************************)
EXTENDS BankValidate, FiniteSetTheorems, TLAPS

-----------------------------------------------------------------------------
(* A chapter template is never a tag template: their columns differ.       *)
LEMMA TemplatesDisjoint ==
    \A t \in ChapterTemplate : t \notin TagTemplate
<1> SUFFICES ASSUME NEW t \in ChapterTemplate, t \in TagTemplate PROVE FALSE
  OBVIOUS
<1>1. "unit_id" \in DOMAIN t
  BY DEF ChapterTemplate
<1>2. DOMAIN t = {"tag_id"}
  BY DEF TagTemplate
<1> QED
  BY <1>1, <1>2

(* A rebuild links questions of the bank only.                             *)
LEMMA TemplateQuestionsInBank ==
    \A t \in Template : TemplateQuestions(t) \subseteq Bank
BY DEF TemplateQuestions, ChapterQuestions, TagQuestions, UnitQuestions

-----------------------------------------------------------------------------
(* The first state is well typed.                                          *)
LEMMA BankInitType == BankInit => BankTypeOK
BY BankAssumption DEF BankInit, BankTypeOK, Absent, Question, Checkpoint

(* Every bank command keeps the types.                                     *)
LEMMA BankNextType ==
    ASSUME BankTypeOK, BankNext
    PROVE  BankTypeOK'
<1>1. ASSUME NEW units \in SUBSET Unit, NEW file \in BankFile, BankImport(units, file)
      PROVE  BankTypeOK'
  <2>1. \A q \in Bank : file[q] \in Entry
    BY BankAssumption
  <2>2. \A q \in Bank : Imported(file[q]) \in Question
    BY <2>1, BankAssumption DEF Imported, Entry, Question
  <2> QED
    BY <1>1, <2>2 DEF BankImport, BankTypeOK
<1>2. ASSUME NEW q \in Bank, NEW active \in BOOLEAN, BankSetActive(q, active)
      PROVE  BankTypeOK'
  BY <1>2 DEF BankSetActive, BankTypeOK, Question
<1>3. ASSUME NEW q \in Bank, NEW checkpoint \in Checkpoint, NEW tags \in SUBSET Tag,
             BankRevise(q, checkpoint, tags)
      PROVE  BankTypeOK'
  <2> DEFINE row == [question_bank[q] EXCEPT !.revision = @ + 1,
                         !.earliest_checkpoint = checkpoint, !.tags = tags]
  <2>1. row \in Question
    <3>1. question_bank[q] \in Question /\ question_bank[q].revision < MaxRevision
      BY <1>3 DEF BankRevise, BankTypeOK
    <3>2. question_bank[q].revision + 1 \in 0..MaxRevision
      BY <3>1, BankAssumption DEF Question
    <3> QED
      BY <3>1, <3>2 DEF Question
  <2>2. question_bank' = [question_bank EXCEPT ![q] = row]
    BY <1>3 DEF BankRevise, BankTypeOK, Question
  <2> QED
    BY <1>3, <2>1, <2>2 DEF BankRevise, BankTypeOK
<1>4. ASSUME TemplateRebuild PROVE BankTypeOK'
  BY <1>4, TemplateQuestionsInBank DEF TemplateRebuild, BankTypeOK
<1> QED
  BY <1>1, <1>2, <1>3, <1>4 DEF BankNext, BankRetire, BankActivate

(* The question bank and the templates are well typed in every state the   *)
(* bank commands reach.                                                    *)
THEOREM BankTypeCorrect == BankSpec => []BankTypeOK
<1>1. BankTypeOK /\ UNCHANGED bank_vars => BankTypeOK'
  BY DEF BankTypeOK, bank_vars
<1> QED
  BY <1>1, BankInitType, BankNextType, PTL DEF BankSpec

-----------------------------------------------------------------------------
(* An import that lands on an imported bank is refused, so no command ever *)
(* forgets a question or takes its revision back.                          *)
THEOREM RevisionsAreKept == BankSpec => RevisionsNeverReset
<1> DEFINE Kept(q) == /\ question_bank'[q].imported
                      /\ question_bank'[q].revision >= question_bank[q].revision
<1>1. ASSUME BankTypeOK, BankNext, NEW q \in Bank, question_bank[q].imported
      PROVE  Kept(q)
  <2> USE BankAssumption DEF BankTypeOK, Question
  <2>1. ASSUME NEW units \in SUBSET Unit, NEW file \in BankFile, BankImport(units, file)
        PROVE  Kept(q)
    <3>1. UnitOf[q] \notin units
      BY <1>1, <2>1 DEF BankImport, Importable, UnitQuestions
    <3>2. question_bank'[q] = question_bank[q]
      BY <2>1, <3>1 DEF BankImport
    <3> QED
      BY <1>1, <3>2
  <2>2. ASSUME NEW p \in Bank, NEW active \in BOOLEAN, BankSetActive(p, active)
        PROVE  Kept(q)
    BY <1>1, <2>2 DEF BankSetActive
  <2>3. ASSUME NEW p \in Bank, NEW checkpoint \in Checkpoint, NEW tags \in SUBSET Tag,
               BankRevise(p, checkpoint, tags)
        PROVE  Kept(q)
    BY <1>1, <2>3 DEF BankRevise
  <2>4. ASSUME TemplateRebuild PROVE Kept(q)
    BY <1>1, <2>4 DEF TemplateRebuild
  <2> QED
    BY <1>1, <2>1, <2>2, <2>3, <2>4 DEF BankNext, BankRetire, BankActivate
<1>2. BankTypeOK /\ [BankNext]_bank_vars =>
      [\A q \in Bank : question_bank[q].imported => Kept(q)]_bank_vars
  BY <1>1
<1> QED
  BY <1>2, BankTypeCorrect, PTL DEF BankSpec, RevisionsNeverReset

-----------------------------------------------------------------------------
(* The rows a rebuild leaves for a chapter template: rebuilt, or retired   *)
(* with the links it had.                                                  *)
LEMMA RebuiltChapterRow ==
    ASSUME BankTypeOK, TemplateRebuild, NEW t \in ChapterTemplate
    PROVE  /\ t \in RebuiltChapters =>
                  /\ quiz_templates'[t].active = TRUE
                  /\ quiz_templates'[t].questions = ChapterQuestions(t)
           /\ t \notin RebuiltChapters =>
                  /\ quiz_templates'[t].active = FALSE
                  /\ quiz_templates'[t].questions = quiz_templates[t].questions
<1>1. t \in Template /\ t \notin RebuiltTags
  BY TemplatesDisjoint DEF Template, RebuiltTags
<1>2. quiz_templates[t] \in [active: BOOLEAN, questions: SUBSET Bank]
  BY <1>1 DEF BankTypeOK
<1>3. CASE t \in RebuiltChapters
  <2>1. quiz_templates'[t] = [active |-> TRUE, questions |-> TemplateQuestions(t)]
    BY <1>1, <1>3 DEF TemplateRebuild
  <2> QED
    BY <1>3, <2>1 DEF TemplateQuestions
<1>4. CASE t \notin RebuiltChapters
  <2>1. quiz_templates'[t] = [quiz_templates[t] EXCEPT !.active = FALSE]
    BY <1>1, <1>4 DEF TemplateRebuild
  <2> QED
    BY <1>2, <1>4, <2>1
<1> QED
  BY <1>3, <1>4

(* Chapter templates are cumulative in every state the bank commands       *)
(* reach: a rebuild takes a unit's checkpoints together, and nothing else  *)
(* touches a template.                                                     *)
THEOREM ChaptersAreCumulative == BankSpec => []ChaptersCumulative
<1>1. BankInit => ChaptersCumulative
  BY DEF BankInit, ChaptersCumulative, Template
<1>2. ASSUME BankTypeOK, ChaptersCumulative, TemplateRebuild
      PROVE  ChaptersCumulative'
  <2> SUFFICES ASSUME NEW s \in ChapterTemplate, NEW t \in ChapterTemplate,
                      s.unit_id = t.unit_id, s.checkpoint < t.checkpoint
               PROVE  /\ quiz_templates'[s].questions \subseteq quiz_templates'[t].questions
                      /\ quiz_templates'[s].active = quiz_templates'[t].active
    BY DEF ChaptersCumulative
  <2>1. s \in RebuiltChapters <=> t \in RebuiltChapters
    BY DEF RebuiltChapters
  <2>2. ChapterQuestions(s) \subseteq ChapterQuestions(t)
    <3> SUFFICES ASSUME NEW q \in ChapterQuestions(s) PROVE q \in ChapterQuestions(t)
      OBVIOUS
    <3>1. /\ q \in UnitQuestions(t.unit_id) /\ q \in Bank /\ IsActive(q)
          /\ question_bank[q].earliest_checkpoint <= s.checkpoint
      BY DEF ChapterQuestions, UnitQuestions
    <3>2. question_bank[q].earliest_checkpoint \in 1..4 /\ s.checkpoint \in 1..4
          /\ t.checkpoint \in 1..4
      BY <3>1, <1>2 DEF BankTypeOK, Question, ChapterTemplate, Checkpoint
    <3> QED
      BY <3>1, <3>2 DEF ChapterQuestions
  <2>3. /\ quiz_templates[s].questions \subseteq quiz_templates[t].questions
        /\ quiz_templates[s].active = quiz_templates[t].active
    BY <1>2 DEF ChaptersCumulative
  <2>4. CASE s \in RebuiltChapters
    BY <1>2, <2>1, <2>2, <2>4, RebuiltChapterRow
  <2>5. CASE s \notin RebuiltChapters
    BY <1>2, <2>1, <2>3, <2>5, RebuiltChapterRow
  <2> QED
    BY <2>4, <2>5
<1>3. ASSUME ChaptersCumulative, UNCHANGED quiz_templates
      PROVE  ChaptersCumulative'
  BY <1>3 DEF ChaptersCumulative
<1>4. BankTypeOK /\ ChaptersCumulative /\ [BankNext]_bank_vars => ChaptersCumulative'
  <2>1. BankNext => UNCHANGED quiz_templates \/ TemplateRebuild
    BY DEF BankNext, BankImport, BankRetire, BankActivate, BankSetActive, BankRevise
  <2> QED
    BY <1>2, <1>3, <2>1 DEF bank_vars
<1> QED
  BY <1>1, <1>4, BankTypeCorrect, PTL DEF BankSpec

(* Whatever happened to the bank since the last one, a rebuild leaves its  *)
(* active questions askable and its active templates without retired ones. *)
THEOREM RebuildIsCurrent == BankSpec => []RebuildMakesTemplatesCurrent
<1>1. BankInit => RebuildMakesTemplatesCurrent
  BY DEF BankInit, RebuildMakesTemplatesCurrent, Operation
<1>2. ASSUME BankTypeOK, TemplateRebuild PROVE TemplatesCurrent'
  <2>1. ASSUME NEW q \in Bank, IsActive(q)
        PROVE  Askable(q)'
    <3> DEFINE chapter == [unit_id |-> UnitOf[q], checkpoint |-> 4]
    <3>1. question_bank[q] \in Question /\ UnitOf[q] \in Unit
      BY <1>2, BankAssumption DEF BankTypeOK
    <3>2. UNCHANGED question_bank
      BY <1>2 DEF TemplateRebuild
    <3>3. chapter \in ChapterTemplate
      BY <3>1 DEF ChapterTemplate, Checkpoint
    <3>4. UnitOf[q] \in IncludeInQuizzes =>
              quiz_templates'[chapter].active /\ q \in quiz_templates'[chapter].questions
      <4>1. chapter.unit_id = UnitOf[q] /\ chapter.checkpoint = 4
        OBVIOUS
      <4> HIDE DEF chapter
      <4>2. question_bank[q].earliest_checkpoint <= 4
        BY <3>1 DEF Question, Checkpoint
      <4>3. q \in ChapterQuestions(chapter)
        BY <2>1, <4>1, <4>2 DEF ChapterQuestions, UnitQuestions
      <4>4. UnitOf[q] \in IncludeInQuizzes => chapter \in RebuiltChapters
        BY <2>1, <3>3, <4>1 DEF RebuiltChapters, UnitQuestions
      <4> QED
        BY <1>2, <3>3, <4>3, <4>4, RebuiltChapterRow
    <3>5. ASSUME NEW t \in question_bank[q].tags, Lower[TagKind[t]] \in {"topic", "theme"}
          PROVE  /\ quiz_templates'[[tag_id |-> t]].active
                 /\ q \in quiz_templates'[[tag_id |-> t]].questions
      <4> DEFINE template == [tag_id |-> t]
      <4>1. template \in TagTemplate /\ template.tag_id = t
        BY <3>1 DEF TagTemplate, Question
      <4> HIDE DEF template
      <4>2. template \in Template /\ template \notin ChapterTemplate
        BY <4>1, TemplatesDisjoint DEF Template
      <4>3. q \in TagQuestions(template)
        BY <2>1, <4>1 DEF TagQuestions
      <4>4. template \in RebuiltTags
        BY <3>5, <4>1, <4>3 DEF RebuiltTags
      <4>5. quiz_templates'[template] = [active |-> TRUE, questions |-> TagQuestions(template)]
        BY <1>2, <4>2, <4>4 DEF TemplateRebuild, TemplateQuestions
      <4>6. quiz_templates'[template].active /\ q \in quiz_templates'[template].questions
        BY <4>3, <4>5
      <4> QED
        BY <4>6 DEF template
    <3>6. ASSUME NEW t \in ChapterTemplate, quiz_templates'[t].active,
                 q \in quiz_templates'[t].questions
          PROVE  question_bank[q].earliest_checkpoint <= t.checkpoint
      <4>1. t \in RebuiltChapters /\ q \in ChapterQuestions(t)
        BY <1>2, <3>6, RebuiltChapterRow
      <4> QED
        BY <4>1 DEF ChapterQuestions
    <3> QED
      BY <3>2, <3>4, <3>5, <3>6 DEF Askable
  <2>2. ASSUME NEW t \in Template, quiz_templates'[t].active,
               NEW q \in quiz_templates'[t].questions
        PROVE  IsActive(q)
    <3>1. t \in RebuiltChapters \cup RebuiltTags
      BY <1>2, <2>2 DEF TemplateRebuild, BankTypeOK
    <3>2. q \in TemplateQuestions(t)
      BY <1>2, <2>2, <3>1 DEF TemplateRebuild
    <3> QED
      BY <3>2 DEF TemplateQuestions, ChapterQuestions, TagQuestions
  <2>3. \A q \in Bank : IsActive(q)' <=> IsActive(q)
    BY <1>2 DEF TemplateRebuild, IsActive
  <2>4. \A t \in Template : quiz_templates'[t].questions \subseteq Bank
    BY <1>2, BankNextType DEF BankNext, BankTypeOK
  <2> QED
    BY <2>1, <2>2, <2>3, <2>4 DEF TemplatesCurrent
<1>3. ASSUME BankTypeOK, RebuildMakesTemplatesCurrent, [BankNext]_bank_vars
      PROVE  RebuildMakesTemplatesCurrent'
  <2>1. CASE TemplateRebuild
    BY <1>2, <1>3, <2>1 DEF RebuildMakesTemplatesCurrent
  <2>2. CASE BankNext /\ ~TemplateRebuild
    <3>1. ASSUME NEW q \in Bank, NEW active \in BOOLEAN, BankSetActive(q, active)
          PROVE  db_operations'.command # "template.rebuild"
      BY <3>1 DEF BankSetActive, Operation
    <3>2. ASSUME NEW units, NEW file, BankImport(units, file)
          PROVE  db_operations'.command # "template.rebuild"
      BY <3>2 DEF BankImport, Operation
    <3>3. ASSUME NEW q, NEW checkpoint, NEW tags, BankRevise(q, checkpoint, tags)
          PROVE  db_operations'.command # "template.rebuild"
      BY <3>3 DEF BankRevise, Operation
    <3>4. db_operations'.command # "template.rebuild"
      BY <2>2, <3>1, <3>2, <3>3 DEF BankNext, BankRetire, BankActivate
    <3> QED
      BY <3>4 DEF RebuildMakesTemplatesCurrent
  <2>3. CASE UNCHANGED bank_vars
    BY <1>3, <2>3 DEF RebuildMakesTemplatesCurrent, TemplatesCurrent, Askable, IsActive,
                      bank_vars
  <2> QED
    BY <1>3, <2>1, <2>2, <2>3
<1>4. BankTypeOK /\ RebuildMakesTemplatesCurrent /\ [BankNext]_bank_vars =>
          RebuildMakesTemplatesCurrent'
  BY <1>3
<1> QED
  BY <1>1, <1>4, BankTypeCorrect, PTL DEF BankSpec

-----------------------------------------------------------------------------
(* Import and revise accept no question without a topic, a theme and a     *)
(* mode, and only an import makes a question active that was absent.       *)
TagsProper ==
    \A q \in Bank :
        /\ question_bank[q].imported => ProperlyTagged(question_bank[q].tags)
        /\ IsActive(q) => question_bank[q].imported

LEMMA TagsStayProper ==
    ASSUME BankTypeOK, TagsProper, [BankNext]_bank_vars
    PROVE  TagsProper'
<1> SUFFICES ASSUME NEW q \in Bank
             PROVE  /\ question_bank'[q].imported => ProperlyTagged(question_bank'[q].tags)
                    /\ question_bank'[q].active => question_bank'[q].imported
  BY DEF TagsProper, IsActive
<1>1. /\ question_bank[q].imported => ProperlyTagged(question_bank[q].tags)
      /\ question_bank[q].active => question_bank[q].imported
      /\ question_bank[q] \in Question
  BY DEF TagsProper, IsActive, BankTypeOK
<1>2. ASSUME NEW units \in SUBSET Unit, NEW file \in BankFile, BankImport(units, file)
      PROVE  question_bank'[q] = question_bank[q] \/ question_bank'[q] = Imported(file[q])
  BY <1>2 DEF BankImport
<1>3. ASSUME NEW file \in BankFile, question_bank'[q] = Imported(file[q])
      PROVE  question_bank'[q].imported /\ ProperlyTagged(question_bank'[q].tags)
  BY <1>3, BankAssumption DEF Imported
<1>4. ASSUME NEW p \in Bank, NEW active \in BOOLEAN, BankSetActive(p, active)
      PROVE  /\ question_bank'[q].imported = question_bank[q].imported
             /\ question_bank'[q].tags = question_bank[q].tags
             /\ question_bank'[q].active => question_bank[q].imported
  BY <1>1, <1>4 DEF BankSetActive, BankTypeOK, Question
<1>5. ASSUME NEW p \in Bank, NEW checkpoint \in Checkpoint, NEW tags \in SUBSET Tag,
             BankRevise(p, checkpoint, tags)
      PROVE  /\ question_bank'[q].imported = question_bank[q].imported
             /\ question_bank'[q].active = question_bank[q].active
             /\ question_bank'[q].tags = question_bank[q].tags
                    \/ ProperlyTagged(question_bank'[q].tags)
  BY <1>1, <1>5 DEF BankRevise, BankTypeOK, Question
<1>6. CASE UNCHANGED question_bank
  BY <1>1, <1>6
<1> QED
  BY <1>1, <1>2, <1>3, <1>4, <1>5, <1>6
     DEF BankNext, BankRetire, BankActivate, TemplateRebuild, bank_vars

LEMMA TagsAreProper == BankSpec => []TagsProper
<1>1. BankInit => TagsProper
  BY DEF BankInit, TagsProper, IsActive, Absent
<1>2. BankTypeOK /\ TagsProper /\ [BankNext]_bank_vars => TagsProper'
  BY TagsStayProper
<1> QED
  BY <1>1, <1>2, BankTypeCorrect, PTL DEF BankSpec

-----------------------------------------------------------------------------
(* What the rebuild leaves, for as long as it is the newest operation.     *)
UnitTemplatesCurrent ==
    \A t \in ChapterTemplate :
        t.unit_id \in IncludeInQuizzes /\ (\E q \in UnitQuestions(t.unit_id) : IsActive(q)) =>
            quiz_templates[t].active /\ quiz_templates[t].questions = ChapterQuestions(t)

LEMMA RebuildMakesUnitsCurrent ==
    ASSUME BankTypeOK, TemplateRebuild
    PROVE  UnitTemplatesCurrent'
<1>1. UNCHANGED question_bank
  BY DEF TemplateRebuild
<1>2. \A t : ChapterQuestions(t)' = ChapterQuestions(t)
  BY <1>1 DEF ChapterQuestions, IsActive
<1>3. \A q : IsActive(q)' = IsActive(q)
  BY <1>1 DEF IsActive
<1>4. ASSUME NEW t \in ChapterTemplate, t.unit_id \in IncludeInQuizzes,
             \E q \in UnitQuestions(t.unit_id) : IsActive(q)
      PROVE  quiz_templates'[t].active /\ quiz_templates'[t].questions = ChapterQuestions(t)
  BY <1>4, RebuiltChapterRow DEF RebuiltChapters
<1> QED
  BY <1>2, <1>3, <1>4 DEF UnitTemplatesCurrent

(* The four templates of a unit, and no others, are its.                   *)
LEMMA FourChapters ==
    ASSUME NEW u \in Unit
    PROVE  LET all == {t \in ChapterTemplate : t.unit_id = u}
           IN  IsFiniteSet(all) /\ Cardinality(all) = 4
<1> DEFINE Chapter(c) == [unit_id |-> u, checkpoint |-> c]
           all == {t \in ChapterTemplate : t.unit_id = u}
           f == [c \in 1..4 |-> Chapter(c)]
<1>1. \A c \in 1..4 : f[c] \in all
  BY DEF ChapterTemplate, Checkpoint
<1>2. \A t \in all : \E c \in 1..4 : f[c] = t
  BY DEF ChapterTemplate, Checkpoint
<1>3. \A c, d \in 1..4 : f[c] = f[d] => c = d
  <2>1. \A c \in 1..4 : f[c].checkpoint = c
    OBVIOUS
  <2> HIDE DEF f
  <2> QED
    BY <2>1
<1>4. f \in [1..4 -> all]
  BY <1>1
<1> HIDE DEF f, all
<1>5. ExistsBijection(1..4, all)
  BY <1>2, <1>3, <1>4
     DEF ExistsBijection, Bijection, Injection, Surjection, IsInjective
<1>6. IsFiniteSet(1..4) /\ Cardinality(1..4) = 4
  <2>1. 1 \in Int /\ 4 \in Int /\ ~ (1 > 4) /\ 4 - 1 + 1 = 4
    OBVIOUS
  <2> QED
    BY <2>1, FS_Interval
<1> QED
  BY <1>5, <1>6, FS_Bijection DEF all

(* An included unit with an active question has no template error.         *)
LEMMA NoUnitError ==
    ASSUME BankTypeOK, UnitTemplatesCurrent, NEW u \in IncludeInQuizzes,
           NEW p \in UnitQuestions(u), IsActive(p)
    PROVE  u \notin UnitErrors
<1>1. u \in Unit
  BY BankAssumption
<1>2. \A t \in ChapterTemplate : t.unit_id = u =>
          quiz_templates[t].active /\ quiz_templates[t].questions = ChapterQuestions(t)
  BY DEF UnitTemplatesCurrent
<1>3. ActiveChapters(u) = {t \in ChapterTemplate : t.unit_id = u}
  BY <1>2 DEF ActiveChapters
<1>4. Cardinality(ActiveChapters(u)) = 4
  BY <1>1, <1>3, FourChapters
<1> DEFINE last == [unit_id |-> u, checkpoint |-> 4]
<1>5. last \in ActiveChapters(u) /\ last.checkpoint = 4 /\ last.unit_id = u
  BY <1>1, <1>3 DEF ChapterTemplate, Checkpoint
<1>6. \A t \in ActiveChapters(u) : t.checkpoint = 4 => t = last
  BY <1>3 DEF ChapterTemplate, Checkpoint
<1> HIDE DEF last
<1>7. {s \in ActiveChapters(u) : s.checkpoint = 4} = {last}
  BY <1>5, <1>6
<1>8. last \in ChapterTemplate
  BY <1>3, <1>5
<1>9. FinalLinks(u) = ChapterQuestions(last)
  BY <1>2, <1>5, <1>7, <1>8 DEF FinalLinks
<1>10. \A q \in Bank : question_bank[q].earliest_checkpoint <= 4
  BY DEF BankTypeOK, Question, Checkpoint
<1>11. ChapterQuestions(last) = {q \in UnitQuestions(u) : IsActive(q)}
  BY <1>5, <1>10 DEF ChapterQuestions, UnitQuestions
<1> QED
  BY <1>4, <1>9, <1>11 DEF UnitErrors

-----------------------------------------------------------------------------
(* Where templates are current and tags proper, bank validate finds only   *)
(* what is missing from the bank itself.                                   *)
LEMMA ValidatesWhenCurrent ==
    ASSUME BankTypeOK, TagsProper, UnitTemplatesCurrent, TemplatesCurrent
    PROVE  /\ \A u \in UnitErrors : ConceptRows(u) \subseteq ConceptsWithoutQuestions
           /\ MissingConcepts = {} /\ ConceptsWithoutQuestions = {} => Valid(FALSE)
<1>1. ASSUME NEW u \in UnitErrors, NEW c \in ConceptRows(u), c \notin ConceptsWithoutQuestions
      PROVE  FALSE
  <2>1. u \in IncludeInQuizzes /\ u \in Unit
    BY BankAssumption DEF UnitErrors
  <2>2. PICK q \in Bank : ConceptOf[q] = c /\ IsActive(q)
    BY <1>1, <2>1 DEF ConceptsWithoutQuestions
  <2>3. PICK p \in Bank : UnitOf[p] = u /\ ConceptOf[p] = c
    BY DEF ConceptRows, UnitQuestions
  <2>4. q \in UnitQuestions(u)
    BY <2>2, <2>3, ConceptAssumption DEF UnitQuestions
  <2> QED
    BY <2>1, <2>2, <2>4, NoUnitError
<1>2. ASSUME MissingConcepts = {}, ConceptsWithoutQuestions = {}
      PROVE  Valid(FALSE)
  <2>1. MissingTagKinds = {}
    BY DEF MissingTagKinds, TagsProper
  <2>2. UnitErrors = {}
    <3> SUFFICES ASSUME NEW u \in UnitErrors PROVE FALSE
      OBVIOUS
    <3>1. ConceptRows(u) = {}
      BY <1>1, <1>2
    <3>2. u \in IncludeInQuizzes /\ u \notin MissingConcepts
      BY DEF UnitErrors
    <3> QED
      BY <3>1, <3>2 DEF MissingConcepts
  <2>3. TagErrors = {}
    <3> SUFFICES ASSUME NEW t \in TagErrors PROVE FALSE
      OBVIOUS
    <3> DEFINE template == [tag_id |-> t]
    <3>1. /\ Lower[TagKind[t]] \in {"topic", "theme"}
          /\ TagQuestions(template) # {}
          /\ ~quiz_templates[template].active
      BY DEF TagErrors
    <3>2. template.tag_id = t
      OBVIOUS
    <3> HIDE DEF template
    <3>3. PICK q \in Bank : IsActive(q) /\ t \in question_bank[q].tags
      BY <3>1, <3>2 DEF TagQuestions
    <3>4. Askable(q)
      BY <3>3 DEF TemplatesCurrent
    <3>5. quiz_templates[[tag_id |-> t]].active
      BY <3>1, <3>3, <3>4 DEF Askable
    <3> QED
      BY <3>1, <3>5 DEF template
  <2>4. StructuralErrors = 0 /\ CompletenessErrors = 0
    BY <1>2, <2>1, <2>2, <2>3, FS_EmptySet DEF StructuralErrors, CompletenessErrors
  <2> QED
    BY <2>4 DEF Valid
<1> QED
  BY <1>1, <1>2

(* Every other command is the newest operation after it.                   *)
LEMMA OnlyRebuild ==
    ASSUME [BankNext]_bank_vars, db_operations'.command = "template.rebuild"
    PROVE  \/ TemplateRebuild
           \/ UNCHANGED bank_vars
<1>1. ASSUME NEW q \in Bank, NEW active \in BOOLEAN, BankSetActive(q, active)
      PROVE  FALSE
  BY <1>1 DEF BankSetActive, Operation
<1>2. ASSUME NEW units, NEW file, BankImport(units, file)
      PROVE  FALSE
  BY <1>2 DEF BankImport, Operation
<1>3. ASSUME NEW q, NEW checkpoint, NEW tags, BankRevise(q, checkpoint, tags)
      PROVE  FALSE
  BY <1>3 DEF BankRevise, Operation
<1> QED
  BY <1>1, <1>2, <1>3 DEF BankNext, BankRetire, BankActivate

(* Straight after a rebuild bank validate finds fault with the templates   *)
(* of no unit that has an active question, and with nothing at all when no *)
(* concept lacks one (lbdb_command_bank_validate, README.md).              *)
THEOREM Validates == BankSpec => []RebuildValidates
<1> DEFINE UnitsCurrent ==
             db_operations.command = "template.rebuild" => UnitTemplatesCurrent
<1>1. BankInit => UnitsCurrent
  BY DEF BankInit, Operation
<1>2. ASSUME BankTypeOK, UnitsCurrent, [BankNext]_bank_vars
      PROVE  UnitsCurrent'
  <2>1. ASSUME UNCHANGED bank_vars PROVE UnitTemplatesCurrent' = UnitTemplatesCurrent
    BY <2>1 DEF bank_vars, UnitTemplatesCurrent, ChapterQuestions, IsActive
  <2> QED
    BY <1>2, <2>1, OnlyRebuild, RebuildMakesUnitsCurrent DEF bank_vars
<1>3. BankTypeOK /\ TagsProper /\ UnitsCurrent /\ RebuildMakesTemplatesCurrent =>
          RebuildValidates
  BY ValidatesWhenCurrent DEF RebuildValidates, RebuildMakesTemplatesCurrent
<1>4. BankTypeOK /\ UnitsCurrent /\ [BankNext]_bank_vars => UnitsCurrent'
  BY <1>2
<1> HIDE DEF UnitsCurrent
<1> QED
  BY <1>1, <1>3, <1>4, BankTypeCorrect, TagsAreProper, RebuildIsCurrent, PTL DEF BankSpec
=============================================================================
