----------------------------- MODULE QuizPromise -----------------------------
(***************************************************************************)
(* What a quiz promises its learner, whatever the tables are like: it asks *)
(* one question at a time, keeps every question until it is answered, is   *)
(* completed only when none is left, keeps still while it is paused and    *)
(* for ever once it is over.  An answered question has one grade, and      *)
(* nothing changes it after the end.  QuizRefinement shows that            *)
(* QuizLifecycle keeps the promise.                                        *)
(*                                                                         *)
(* The questions of an abandoned quiz stay in todo: they were never        *)
(* answered.                                                               *)
(***************************************************************************)
CONSTANTS
    Quiz,
    Question,
    Grade

VARIABLES
    phase,      \* how far a quiz is
    todo,       \* the questions of a quiz without an answer
    current,    \* the question a quiz waits for, if any
    done,       \* the answered questions of a quiz
    grade       \* the grade of a question, if any

promise == <<phase, todo, current, done, grade>>

Fresh == Question \ UNION {todo[quiz] \cup done[quiz] : quiz \in Quiz}

Init ==
    /\ phase = [quiz \in Quiz |-> "none"]
    /\ todo = [quiz \in Quiz |-> {}]
    /\ current = [quiz \in Quiz |-> {}]
    /\ done = [quiz \in Quiz |-> {}]
    /\ grade = [question \in Question |-> {}]

(* A quiz starts with some questions that no quiz has had.                 *)
Begin(quiz) ==
    /\ phase[quiz] = "none"
    /\ \E questions \in SUBSET Fresh :
           /\ questions # {}
           /\ todo' = [todo EXCEPT ![quiz] = questions]
    /\ phase' = [phase EXCEPT ![quiz] = "in_progress"]
    /\ UNCHANGED <<current, done, grade>>

(* A question is added while the quiz runs.                                *)
Extend(quiz) ==
    /\ phase[quiz] = "in_progress"
    /\ \E question \in Fresh : todo' = [todo EXCEPT ![quiz] = @ \cup {question}]
    /\ UNCHANGED <<phase, current, done, grade>>

Ask(quiz) ==
    /\ phase[quiz] = "in_progress"
    /\ current[quiz] = {}
    /\ \E question \in todo[quiz] : current' = [current EXCEPT ![quiz] = {question}]
    /\ UNCHANGED <<phase, todo, done, grade>>

(* The current question is put off, not dropped.                           *)
PutOff(quiz) ==
    /\ phase[quiz] = "in_progress"
    /\ current[quiz] # {}
    /\ current' = [current EXCEPT ![quiz] = {}]
    /\ UNCHANGED <<phase, todo, done, grade>>

Answer(quiz) ==
    /\ phase[quiz] = "in_progress"
    /\ \E question \in current[quiz], given \in Grade :
           /\ todo' = [todo EXCEPT ![quiz] = @ \ {question}]
           /\ done' = [done EXCEPT ![quiz] = @ \cup {question}]
           /\ grade' = [grade EXCEPT ![question] = {given}]
    /\ current' = [current EXCEPT ![quiz] = {}]
    /\ UNCHANGED phase

(* An answered question is answered again, or its answer graded anew.      *)
Regrade(quiz) ==
    /\ phase[quiz] \in {"in_progress", "paused"}
    /\ \E question \in done[quiz], given \in Grade :
           grade' = [grade EXCEPT ![question] = {given}]
    /\ UNCHANGED <<phase, todo, current, done>>

Pause(quiz) ==
    /\ phase[quiz] = "in_progress"
    /\ phase' = [phase EXCEPT ![quiz] = "paused"]
    /\ UNCHANGED <<todo, current, done, grade>>

Resume(quiz) ==
    /\ phase[quiz] = "paused"
    /\ phase' = [phase EXCEPT ![quiz] = "in_progress"]
    /\ UNCHANGED <<todo, current, done, grade>>

Finish(quiz) ==
    /\ phase[quiz] = "in_progress"
    /\ todo[quiz] = {}
    /\ phase' = [phase EXCEPT ![quiz] = "completed"]
    /\ UNCHANGED <<todo, current, done, grade>>

GiveUp(quiz) ==
    /\ phase[quiz] \in {"in_progress", "paused"}
    /\ phase' = [phase EXCEPT ![quiz] = "abandoned"]
    /\ current' = [current EXCEPT ![quiz] = {}]
    /\ UNCHANGED <<todo, done, grade>>

Next ==
    \E quiz \in Quiz :
        \/ Begin(quiz) \/ Extend(quiz)
        \/ Ask(quiz) \/ PutOff(quiz) \/ Answer(quiz) \/ Regrade(quiz)
        \/ Pause(quiz) \/ Resume(quiz) \/ Finish(quiz) \/ GiveUp(quiz)

Spec == Init /\ [][Next]_promise
=============================================================================
