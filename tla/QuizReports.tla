----------------------------- MODULE QuizReports -----------------------------
(***************************************************************************)
(* What is reported of a quiz: the view quiz_progress, which quiz status,  *)
(* quiz list and report quiz show, and report state-drift, which looks for *)
(* tables that disagree (src/src/schema.c,                                 *)
(* src/src/commands_learning_report.c).                                    *)
(*                                                                         *)
(* A report takes no transaction.  Each part below is one SELECT, and so   *)
(* it sees one state; two parts of a report may see two.  What holds of    *)
(* each part in every state holds of it in every report.                   *)
(***************************************************************************)
EXTENDS QuizLifecycle

(* Mutant: the join takes all responses of a question.                     *)
AnyResponse(i) == ResponsesTo(i)

(* ORDER BY attempt_number DESC, id DESC LIMIT 1: no element or one.       *)
LatestResponse(i) ==
    {r \in ResponsesTo(i) : \A o \in ResponsesTo(i) :
        \/ quiz_responses[o].attempt_number < quiz_responses[r].attempt_number
        \/ /\ quiz_responses[o].attempt_number = quiz_responses[r].attempt_number
           /\ o <= r}

BaseQuestions(quiz) == {i \in QuestionsOf(quiz) : quiz_questions[i].origin = "base"}
InState(quiz, state) == {i \in QuestionsOf(quiz) : quiz_questions[i].state = state}
LatestIs(quiz, assessment) ==
    {i \in QuestionsOf(quiz) :
        \E r \in LatestResponse(i) : quiz_responses[r].assessment = assessment}

(* The row of a quiz in the view quiz_progress.                            *)
QuizProgress(quiz) ==
    [total     |-> Cardinality(QuestionsOf(quiz)),
     base      |-> Cardinality(BaseQuestions(quiz)),
     follow_up |-> Cardinality(QuestionsOf(quiz) \ BaseQuestions(quiz)),
     states    |-> [state \in QuestionState |-> Cardinality(InState(quiz, state))],
     responses |-> [a \in Assessment |-> Cardinality(LatestIs(quiz, a))]]

(* The four queries of report state-drift.                                 *)
MultipleAsked == {s \in Quizzes : Cardinality(Asked(s)) > 1}

AnsweredWithoutResponse ==
    {i \in DOMAIN quiz_questions :
        quiz_questions[i].state = "answered" /\ ResponsesTo(i) = {}}

CompletedUnresolved ==
    {s \in Quizzes : quiz_sessions[s].state = "completed" /\ UnresolvedOf(s) # {}}

BaseCountMismatch ==
    {s \in Quizzes : quiz_sessions[s].base_question_count # Cardinality(BaseQuestions(s))}

-----------------------------------------------------------------------------
(* The numbers of quiz_progress agree with each other: every answered      *)
(* question counts under exactly one grade, however often it was answered  *)
(* or regraded, and no other question under any; at most one question is   *)
(* asked; a quiz is completed only with as many answers as questions.      *)
ProgressAddsUp ==
    \A s \in Quizzes :
        LET row == QuizProgress(s)
        IN  /\ row.states["answered"] = row.responses["correct"]
                   + row.responses["partially_correct"] + row.responses["incorrect"]
            /\ row.base = quiz_sessions[s].base_question_count
            /\ row.total = row.base + row.follow_up
            /\ row.states["asked"] <= 1
            /\ quiz_sessions[s].state = "completed" => row.total = row.states["answered"]

(* report state-drift has nothing to report of the database, in whatever   *)
(* state each of its queries sees it.                                      *)
NoDrift ==
    /\ MultipleAsked = {}
    /\ AnsweredWithoutResponse = {}
    /\ CompletedUnresolved = {}
    /\ BaseCountMismatch = {}
=============================================================================
