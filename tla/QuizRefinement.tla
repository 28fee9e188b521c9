---------------------------- MODULE QuizRefinement ----------------------------
(***************************************************************************)
(* The tables of QuizLifecycle as the promise of QuizPromise: a quiz's     *)
(* phase is the state of its session, its questions are the rows that name *)
(* it, and the grade of a question is that of its latest response, as the  *)
(* reports find it.                                                        *)
(***************************************************************************)
EXTENDS QuizReports

PhaseOf(quiz) == IF quiz \in Quizzes THEN quiz_sessions[quiz].state ELSE "none"
TodoOf(quiz) == {i \in QuestionsOf(quiz) : quiz_questions[i].state # "answered"}
DoneOf(quiz) == {i \in QuestionsOf(quiz) : quiz_questions[i].state = "answered"}
GradeOf(i) == {quiz_responses[r].assessment : r \in LatestResponse(i)}

phases == [quiz \in 1..MaxQuizzes |-> PhaseOf(quiz)]
todos == [quiz \in 1..MaxQuizzes |-> TodoOf(quiz)]
currents == [quiz \in 1..MaxQuizzes |-> Asked(quiz)]
dones == [quiz \in 1..MaxQuizzes |-> DoneOf(quiz)]
grades == [i \in 1..MaxQuestions |-> GradeOf(i)]

Promise == INSTANCE QuizPromise WITH
    Quiz <- 1..MaxQuizzes, Question <- 1..MaxQuestions, Grade <- Assessment,
    phase <- phases, todo <- todos, current <- currents, done <- dones, grade <- grades

(* The quiz commands keep the promise of QuizPromise: every command of     *)
(* commands_quiz.c is one step of it, or none that it sees.                *)
PromiseKept == Promise!Spec
=============================================================================
