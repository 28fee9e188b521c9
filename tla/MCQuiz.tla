------------------------------- MODULE MCQuiz -------------------------------
(***************************************************************************)
(* Small instances of QuizLifecycle: one unit u1 with the questions q1, q2 *)
(* and q3 of the concepts c1 and c2, every question tagged with a topic, a *)
(* theme and a mode.  QuizSpec starts after bank import and template       *)
(* rebuild and runs the quiz commands alone, SnapshotSpec runs the bank    *)
(* commands between them.                                                  *)
(***************************************************************************)
EXTENDS QuizRefinement

CONSTANTS u1, q1, q2, q3, c1, c2, topic, theme, mode,
          Starts,       \* the templates quiz start is called with, by tag or quarter
          Limits,       \* the values of --limit, 0 when it is absent
          Grades,       \* the assessments submitted
          Checkpoints,  \* where a revision may move a question
          Sources       \* the source types of learning add

MCUnitOf == [q \in Bank |-> u1]
MCConceptOf == [q \in Bank |-> IF q = q1 THEN c1 ELSE c2]
MCBankPosition == [q \in Bank |-> IF q = q1 THEN 1 ELSE IF q = q2 THEN 2 ELSE 3]
MCTagKind == [t \in Tag |-> IF t = topic THEN "topic" ELSE IF t = theme THEN "theme" ELSE "mode"]

Row(checkpoint) ==
    [active |-> TRUE, revision |-> 1, earliest_checkpoint |-> checkpoint, tags |-> Tag]

MCBankFile == {[q \in Bank |-> Row(MCBankPosition[q])]}

StartTemplates ==
    {[tag_id |-> t] : t \in Starts \cap Tag} \cup
    {[unit_id |-> u1, checkpoint |-> c] : c \in Starts \ Tag}

(* The bank after its import and a rebuild.                                *)
RebuiltBank ==
    /\ question_bank \in {[q \in Bank |-> Imported(file[q])] : file \in BankFile}
    /\ quiz_templates = [t \in Template |->
           IF t \in RebuiltChapters \cup RebuiltTags
           THEN [active |-> TRUE, questions |-> TemplateQuestions(t)]
           ELSE [active |-> FALSE, questions |-> {}]]
    /\ db_operations = Operation("template.rebuild", "quiz_template", 0)

NoQuizzes ==
    /\ quiz_sessions = <<>>
    /\ quiz_questions = <<>>
    /\ quiz_responses = <<>>
    /\ learning_records = <<>>
    /\ session_events = <<>>
    /\ question_events = <<>>
    /\ response_events = <<>>
    /\ now = 1

QuizInit == RebuiltBank /\ NoQuizzes

SomeSubmit ==
    \E i \in DOMAIN quiz_questions, assessment \in Grades, linked \in BOOLEAN :
        ResponseSubmit(i, assessment, linked)

SomeRegrade ==
    \E response \in DOMAIN quiz_responses, assessment \in Grades :
        ResponseRegrade(response, assessment)

SomeLearningAdd ==
    \E source_type \in Sources, quiz \in Quizzes \cup {NULL},
       response \in DOMAIN quiz_responses \cup {NULL} :
        LearningAdd(source_type, quiz, response)

QuizNextState ==
    \/ \E t \in StartTemplates, requested \in Limits : QuizStart(t, requested)
    \/ \E quiz \in Quizzes : SessionCommand(quiz)
    \/ SomeSubmit
    \/ SomeRegrade
    \/ SomeLearningAdd
    \/ Tick

QuizSpec == QuizInit /\ [][QuizNextState]_vars

(* Enough of a quiz to be finished, between the bank's own changes.        *)
SnapshotNextState ==
    \/ BankCommand /\ \A q \in Bank : question_bank'[q].imported =>
           /\ question_bank'[q].earliest_checkpoint \in Checkpoints \cup {MCBankPosition[q]}
           /\ question_bank'[q].tags = Tag
    \/ \E t \in StartTemplates, requested \in Limits : QuizStart(t, requested)
    \/ \E quiz \in Quizzes : NextAsks(quiz) \/ QuizAbandon(quiz)
    \/ SomeSubmit

(* A topic quiz is answered, some of it regraded, and given up, and another *)
(* one is started.                                                         *)
AdaptiveNextState ==
    \/ \E t \in StartTemplates, requested \in Limits : QuizStart(t, requested)
    \/ \E quiz \in Quizzes : NextAsks(quiz) \/ QuizAbandon(quiz)
    \/ SomeSubmit
    \/ SomeRegrade
    \/ Tick

AdaptiveSpec == QuizInit /\ [][AdaptiveNextState]_vars

SnapshotSpec == Init /\ [][SnapshotNextState]_vars
=============================================================================
