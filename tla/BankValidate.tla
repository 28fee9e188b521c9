---------------------------- MODULE BankValidate ----------------------------
(***************************************************************************)
(* What the command bank validate counts over the tables of QuestionBank   *)
(* (src/commands_bank.c, lbdb_command_bank_validate).  The command reads   *)
(* and writes nothing; each count is one SELECT, so each operator here is  *)
(* read in one state.  The counts over source links, sections and the      *)
(* coverage flags of concepts need columns that QuestionBank abstracts.    *)
(*                                                                         *)
(* An imported concept has its row for ever and brings its questions with  *)
(* it, so the rows of concepts are those of the imported questions.        *)
(***************************************************************************)
EXTENDS QuestionBank

(* A concept and its questions are imported for one unit.                  *)
ASSUME ConceptAssumption ==
    \A p, q \in Bank : ConceptOf[p] = ConceptOf[q] => UnitOf[p] = UnitOf[q]

ConceptRows(u) == {ConceptOf[q] : q \in {p \in UnitQuestions(u) : question_bank[p].imported}}

MissingConcepts == {u \in IncludeInQuizzes : ConceptRows(u) = {}}

MissingTagKinds == {q \in Bank : IsActive(q) /\ ~ProperlyTagged(question_bank[q].tags)}

ConceptsWithoutQuestions ==
    {c \in UNION {ConceptRows(u) : u \in Unit} : \A q \in Bank : ConceptOf[q] = c => ~IsActive(q)}

ActiveChapters(u) == {t \in ChapterTemplate : t.unit_id = u /\ quiz_templates[t].active}

(* The links of the unit's final template, if that is active.              *)
FinalLinks(u) ==
    UNION {quiz_templates[t].questions : t \in {s \in ActiveChapters(u) : s.checkpoint = 4}}

(* template_errors, not counted under --allow-incomplete: the first query  *)
(* compares the two numbers, not the questions.                            *)
UnitErrors ==
    {u \in IncludeInQuizzes \ MissingConcepts :
        \/ Cardinality(ActiveChapters(u)) # 4
        \/ Cardinality(FinalLinks(u)) # Cardinality({q \in UnitQuestions(u) : IsActive(q)})}

TagErrors ==
    {t \in Tag :
        /\ Lower[TagKind[t]] \in {"topic", "theme"}
        /\ TagQuestions([tag_id |-> t]) # {}
        /\ ~quiz_templates[[tag_id |-> t]].active}

StructuralErrors == Cardinality(MissingTagKinds)

CompletenessErrors ==
    Cardinality(MissingConcepts) + Cardinality(ConceptsWithoutQuestions)
        + Cardinality(UnitErrors) + Cardinality(TagErrors)

Valid(allow_incomplete) ==
    StructuralErrors + (IF allow_incomplete THEN 0 ELSE CompletenessErrors) = 0

-----------------------------------------------------------------------------
(* The documented workflow validates after a rebuild (README.md): then     *)
(* bank validate counts a template error only for an included unit whose   *)
(* questions are all retired, and it is valid once every included unit is  *)
(* imported and every concept has an active question.                      *)
RebuildValidates ==
    db_operations.command = "template.rebuild" =>
        /\ \A u \in UnitErrors : ConceptRows(u) \subseteq ConceptsWithoutQuestions
        /\ MissingConcepts = {} /\ ConceptsWithoutQuestions = {} => Valid(FALSE)
=============================================================================
