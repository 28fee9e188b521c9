-------------------------- MODULE QuizHistoryProofs --------------------------
(***************************************************************************)
(* What the tables of a quiz remember: proofs that the states of its       *)
(* questions, its responses, its evidence and its events tell one story,   *)
(* and that what is over or paused stands still.                           *)
(*                                                                         *)
(* Every step of QuizLifecycle is one of seven kinds, told by the rows it  *)
(* writes: nothing of a quiz, a new quiz, a move of a question, a question *)
(* added, a move of a session, an answer, a new grade.  The proofs about   *)
(* the tables of a quiz are by these kinds.                                *)
(***************************************************************************)
EXTENDS QuizLifecycleProofs

(* No session, question or response is written.                            *)
NothingMoves ==
    UNCHANGED <<quiz_sessions, quiz_questions, quiz_responses, event_tables>>

(* The rows of the other questions, and of the sessions and responses.     *)
QuestionsKept(others) ==
    \A j \in others :
        quiz_questions'[j] = quiz_questions[j] /\ question_events'[j] = question_events[j]

SessionsKept(others) ==
    \A s \in others :
        quiz_sessions'[s] = quiz_sessions[s] /\ session_events'[s] = session_events[s]

ResponsesKept(others) ==
    \A r \in others :
        quiz_responses'[r] = quiz_responses[r] /\ response_events'[r] = response_events[r]

(* A session in progress is added, with planned questions.                 *)
QuizStarts ==
    LET quiz == Len(quiz_sessions) + 1
        added == DOMAIN quiz_questions' \ DOMAIN quiz_questions
    IN  /\ quiz <= MaxQuizzes
        /\ quiz \notin Quizzes
        /\ Quizzes' = Quizzes \cup {quiz}
        /\ SessionsKept(Quizzes)
        /\ quiz_sessions'[quiz].state = "in_progress"
        /\ session_events'[quiz].to = "in_progress"
        /\ DOMAIN quiz_questions \subseteq DOMAIN quiz_questions'
        /\ DOMAIN quiz_questions' \subseteq 1..MaxQuestions
        /\ QuestionsKept(DOMAIN quiz_questions)
        /\ added # {}
        /\ \A i \in added :
               /\ quiz_questions'[i].quiz_id = quiz
               /\ quiz_questions'[i].state = "planned"
               /\ quiz_questions'[i].asked_at = FALSE
               /\ question_events'[i] = NoEvent
        /\ UNCHANGED <<quiz_responses, response_events>>

(* A question of a session in progress is asked, deferred or requeued.     *)
QuestionMoves(i) ==
    LET old == quiz_questions[i]
        new == quiz_questions'[i]
        event == question_events'[i]
    IN  /\ i \in DOMAIN quiz_questions
        /\ quiz_sessions[old.quiz_id].state = "in_progress"
        /\ \/ /\ Asked(old.quiz_id) = {}
              /\ old.state = "planned"
              /\ new = [old EXCEPT !.state = "asked", !.asked_at = TRUE]
              /\ event = [event_type |-> "question_asked", previous_state |-> "none"]
           \/ /\ old.state = "asked"
              /\ new = [old EXCEPT !.state = "deferred", !.asked_at = old.asked_at]
              /\ event = [event_type |-> "question_deferred", previous_state |-> old.state]
           \/ /\ old.state \in {"asked", "deferred"}
              /\ new = [old EXCEPT !.state = "planned", !.asked_at = FALSE]
              /\ event = [event_type |-> "question_requeued", previous_state |-> old.state]
        /\ DOMAIN quiz_questions' = DOMAIN quiz_questions
        /\ QuestionsKept(DOMAIN quiz_questions \ {i})
        /\ UNCHANGED <<quiz_sessions, session_events, quiz_responses, response_events>>

(* A follow-up is added to a session in progress.                          *)
QuestionAdded(quiz) ==
    LET i == Len(quiz_questions) + 1
    IN  /\ quiz \in Quizzes
        /\ quiz_sessions[quiz].state = "in_progress"
        /\ i <= MaxQuestions
        /\ i \notin DOMAIN quiz_questions
        /\ DOMAIN quiz_questions' = DOMAIN quiz_questions \cup {i}
        /\ QuestionsKept(DOMAIN quiz_questions)
        /\ quiz_questions'[i].quiz_id = quiz
        /\ quiz_questions'[i].state = "planned"
        /\ quiz_questions'[i].asked_at = FALSE
        /\ question_events'[i] = [event_type |-> "follow_up_added", previous_state |-> "none"]
        /\ UNCHANGED <<quiz_sessions, session_events, quiz_responses, response_events>>

(* The unresolved questions of a quiz are retired.                         *)
QuestionsRetired(quiz) ==
    /\ DOMAIN quiz_questions' = DOMAIN quiz_questions
    /\ QuestionsKept(DOMAIN quiz_questions \ UnresolvedOf(quiz))
    /\ \A i \in UnresolvedOf(quiz) :
           /\ quiz_questions'[i] = [quiz_questions[i] EXCEPT !.state = "retired"]
           /\ question_events'[i] = [event_type |-> "question_retired",
                                     previous_state |-> quiz_questions[i].state]

(* A live session pauses, resumes, completes or is abandoned.              *)
SessionMoves(quiz) ==
    LET old == quiz_sessions[quiz]
        new == quiz_sessions'[quiz]
        target == new.state
    IN  /\ quiz \in Quizzes
        /\ Quizzes' = Quizzes
        /\ SessionsKept(Quizzes \ {quiz})
        /\ new = [old EXCEPT !.state = target, !.completed_at = target \in Terminal]
        /\ session_events'[quiz].from = old.state
        /\ session_events'[quiz].to = target
        /\ \/ /\ old.state = "in_progress"
              /\ target = "paused"
              /\ UNCHANGED <<quiz_questions, question_events>>
           \/ /\ old.state = "paused"
              /\ target = "in_progress"
              /\ UNCHANGED <<quiz_questions, question_events>>
           \/ /\ old.state = "in_progress"
              /\ target = "completed"
              /\ UnresolvedOf(quiz) = {}
              /\ UNCHANGED <<quiz_questions, question_events>>
           \/ /\ old.state \in Live
              /\ target = "abandoned"
              /\ QuestionsRetired(quiz)
        /\ UNCHANGED <<quiz_responses, response_events>>

(* A question of a session in progress is answered.                        *)
QuestionAnswered(i) ==
    LET old == quiz_questions[i]
        r == Len(quiz_responses) + 1
        response == quiz_responses'[r]
    IN  /\ i \in DOMAIN quiz_questions
        /\ quiz_sessions[old.quiz_id].state = "in_progress"
        /\ old.state \in {"asked", "answered"}
        /\ quiz_questions'[i] = [old EXCEPT !.state = "answered"]
        /\ question_events'[i] =
               [event_type |-> "answer_submitted", previous_state |-> old.state]
        /\ DOMAIN quiz_questions' = DOMAIN quiz_questions
        /\ QuestionsKept(DOMAIN quiz_questions \ {i})
        /\ r \notin DOMAIN quiz_responses
        /\ DOMAIN quiz_responses' = DOMAIN quiz_responses \cup {r}
        /\ ResponsesKept(DOMAIN quiz_responses)
        /\ response.question_id = i
        /\ response.attempt_number \in Nat
        /\ IsNextAttempt(i, response.attempt_number)
        /\ response.assessment \in Assessment
        /\ response_events'[r] = [event_type |-> "answer_submitted", before |-> "none",
                                  after |-> response.assessment]
        /\ UNCHANGED <<quiz_sessions, session_events>>

(* A response of a session that is not terminal is graded anew.            *)
ResponseRegraded(r) ==
    LET old == quiz_responses[r]
        new == quiz_responses'[r]
    IN  /\ r \in DOMAIN quiz_responses
        /\ quiz_sessions[QuizOf(r)].state \notin Terminal
        /\ new.assessment \in Assessment
        /\ new = [old EXCEPT !.assessment = new.assessment]
        /\ response_events'[r] = [event_type |-> "response_regraded",
                                  before |-> old.assessment, after |-> new.assessment]
        /\ DOMAIN quiz_responses' = DOMAIN quiz_responses
        /\ ResponsesKept(DOMAIN quiz_responses \ {r})
        /\ UNCHANGED <<quiz_sessions, session_events, quiz_questions, question_events>>

StepKind ==
    \/ NothingMoves
    \/ QuizStarts
    \/ \E i : QuestionMoves(i)
    \/ \E quiz : QuestionAdded(quiz)
    \/ \E quiz : SessionMoves(quiz)
    \/ \E i : QuestionAnswered(i)
    \/ \E r : ResponseRegraded(r)

-----------------------------------------------------------------------------
(* The event tables are sequences, as long as the tables they are about.   *)
LEMMA EventTables ==
    ASSUME TypeOK
    PROVE  /\ session_events \in Seq(SessionEvent) /\ Len(session_events) = Len(quiz_sessions)
           /\ question_events \in Seq(QuestionEvent)
           /\ Len(question_events) = Len(quiz_questions)
           /\ response_events \in Seq(ResponseEvent)
           /\ Len(response_events) = Len(quiz_responses)
           /\ DOMAIN session_events = Quizzes
           /\ DOMAIN question_events = DOMAIN quiz_questions
           /\ DOMAIN response_events = DOMAIN quiz_responses
<1>1. /\ Len(quiz_sessions) \in Nat /\ Len(quiz_questions) \in Nat
      /\ Len(quiz_responses) \in Nat
      /\ Quizzes = 1..Len(quiz_sessions)
      /\ DOMAIN quiz_questions = 1..Len(quiz_questions)
      /\ DOMAIN quiz_responses = 1..Len(quiz_responses)
  BY TablesAreFunctions
<1>2. /\ session_events \in [1..Len(quiz_sessions) -> SessionEvent]
      /\ question_events \in [1..Len(quiz_questions) -> QuestionEvent]
      /\ response_events \in [1..Len(quiz_responses) -> ResponseEvent]
  BY <1>1 DEF TypeOK
<1> QED
  BY <1>1, <1>2, FunctionIsSeq

(* create_quiz_snapshot starts a quiz.                                     *)
LEMMA SnapshotKind ==
    ASSUME TypeOK, NEW t \in Template, NEW limit \in Nat, CreateSnapshot(t, limit)
    PROVE  QuizStarts
<1> DEFINE quiz == Len(quiz_sessions) + 1
           started == [event |-> "start", from |-> "planned", to |-> "in_progress"]
<1>1. PICK selected \in select_template_questions(t, limit) :
        /\ selected # <<>>
        /\ Len(quiz_questions) + Len(selected) <= MaxQuestions
        /\ quiz_questions' = quiz_questions \o
               [i \in 1..Len(selected) |-> BaseQuestion(quiz, i, selected[i])]
        /\ session_events' = Append(session_events, started)
        /\ question_events' = question_events \o [i \in 1..Len(selected) |-> NoEvent]
  BY DEF CreateSnapshot, NextId
<1> DEFINE n == Len(selected)
           base == [i \in 1..n |-> BaseQuestion(quiz, i, selected[i])]
           events == [i \in 1..n |-> NoEvent]
<1>2. n \in Nat /\ DOMAIN selected = 1..n /\ \A i \in 1..n : selected[i] \in Bank
  BY SelectedType
<1>3. n # 0
  BY <1>1, <1>2, SelectedType DEF select_template_questions
<1>4. /\ Len(quiz_sessions) \in Nat /\ Quizzes = 1..Len(quiz_sessions)
      /\ Len(quiz_questions) \in Nat /\ DOMAIN quiz_questions = 1..Len(quiz_questions)
      /\ quiz_sessions \in Seq(SessionRow) /\ quiz_questions \in Seq(QuestionRow)
  BY TablesAreFunctions DEF TypeOK
<1>5. quiz <= MaxQuizzes /\ UNCHANGED <<quiz_responses, response_events>>
  BY <1>4, QuizAssumption DEF CreateSnapshot
<1>6. /\ \A s \in Quizzes : session_events'[s] = session_events[s]
      /\ session_events'[quiz].to = "in_progress"
  <2>1. started \in SessionEvent /\ started.to = "in_progress"
    BY DEF SessionEvent, SessionState
  <2> HIDE DEF started
  <2> QED
    BY <1>1, <2>1, EventTables, AppendRow
<1>7. /\ \A i \in DOMAIN quiz_questions : question_events'[i] = question_events[i]
      /\ \A i \in 1..(Len(quiz_questions) + n) \ DOMAIN quiz_questions :
             question_events'[i] = NoEvent
  <2>1. events \in [1..n -> QuestionEvent] /\ \A i \in 1..n : events[i] = NoEvent
    BY DEF NoEvent, QuestionEvent
  <2>2. question_events' = question_events \o events
    BY <1>1
  <2> HIDE DEF events, n
  <2> QED
    BY <1>2, <2>1, <2>2, EventTables, ConcatRows
<1>8. /\ DOMAIN quiz_questions' = 1..(Len(quiz_questions) + n)
      /\ \A i \in DOMAIN quiz_questions' \ DOMAIN quiz_questions :
             quiz_questions'[i].asked_at = FALSE
  <2> DEFINE Row == QuestionRow'
  <2>1. Quizzes \subseteq Quizzes' /\ quiz \in Quizzes'
    BY SnapshotRows
  <2>2. QuestionRow \subseteq Row
    BY <2>1 DEF QuestionRow
  <2>3. base \in [1..n -> Row]
    BY <1>2, <2>1, BaseQuestionType
  <2>4. \A i \in 1..n : base[i].asked_at = FALSE
    BY DEF BaseQuestion
  <2>5. quiz_questions' = quiz_questions \o base
    BY <1>1
  <2> HIDE DEF base, n, Row
  <2>6. quiz_questions \in Seq(Row)
    BY <1>4, <2>2, SeqMonotonic
  <2> QED
    BY <1>2, <1>4, <2>3, <2>4, <2>5, <2>6, ConcatRows
<1>9. /\ DOMAIN quiz_questions' \subseteq 1..MaxQuestions
      /\ Len(quiz_questions) + 1 \in DOMAIN quiz_questions' \ DOMAIN quiz_questions
  BY <1>1, <1>2, <1>3, <1>4, <1>8, QuizAssumption
<1> HIDE DEF n, base, events, started
<1>10. /\ Quizzes' = Quizzes \cup {quiz} /\ quiz \notin Quizzes
       /\ \A s \in Quizzes : quiz_sessions'[s] = quiz_sessions[s]
       /\ quiz_sessions'[quiz].state = "in_progress"
       /\ DOMAIN quiz_questions \subseteq DOMAIN quiz_questions'
       /\ \A i \in DOMAIN quiz_questions : quiz_questions'[i] = quiz_questions[i]
       /\ \A i \in DOMAIN quiz_questions' \ DOMAIN quiz_questions :
              quiz_questions'[i].state = "planned" /\ quiz_questions'[i].quiz_id = quiz
  BY SnapshotRows
<1>11. \A i \in DOMAIN quiz_questions' \ DOMAIN quiz_questions : question_events'[i] = NoEvent
  BY <1>7, <1>8
<1> QED
  BY <1>5, <1>6, <1>7, <1>8, <1>9, <1>10, <1>11 DEF QuizStarts, QuestionsKept, SessionsKept

(* quiz next asks a question.                                              *)
LEMMA NextKind ==
    ASSUME TypeOK, NEW quiz, NextAsks(quiz)
    PROVE  \E i : QuestionMoves(i)
<1> DEFINE event == [event_type |-> "question_asked", previous_state |-> "none"]
<1>1. PICK i \in Planned(quiz) :
        /\ quiz_questions' = [quiz_questions EXCEPT ![i].state = "asked", ![i].asked_at = TRUE]
        /\ question_events' = [question_events EXCEPT ![i] = event]
  BY DEF NextAsks
<1>2. /\ i \in DOMAIN quiz_questions /\ quiz_questions[i].quiz_id = quiz
      /\ quiz_questions[i].state = "planned"
  BY DEF Planned, QuestionsOf
<1>3. /\ quiz_sessions[quiz].state = "in_progress" /\ Asked(quiz) = {}
      /\ UNCHANGED <<quiz_sessions, session_events, quiz_responses, response_events>>
  BY DEF NextAsks, InProgress
<1>4. /\ DOMAIN quiz_questions' = DOMAIN quiz_questions
      /\ \A j \in DOMAIN quiz_questions : j # i => quiz_questions'[j] = quiz_questions[j]
      /\ quiz_questions'[i] = [quiz_questions[i] EXCEPT !.state = "asked", !.asked_at = TRUE]
  BY <1>1, <1>2, QuestionUpdate DEF QuestionState
<1>5. /\ question_events'[i] = event
      /\ \A j \in DOMAIN quiz_questions : j # i => question_events'[j] = question_events[j]
  BY <1>1, <1>2, EventTables
<1> QED
  BY <1>2, <1>3, <1>4, <1>5 DEF QuestionMoves, QuestionsKept

(* quiz defer and quiz requeue move one.                                   *)
LEMMA DeferRequeueKind ==
    ASSUME TypeOK, NEW quiz, NEW i \in QuestionsOf(quiz),
           QuizDefer(quiz, i) \/ QuizRequeue(quiz, i)
    PROVE  QuestionMoves(i)
<1>1. /\ i \in DOMAIN quiz_questions /\ quiz_questions[i].quiz_id = quiz
  BY DEF QuestionsOf
<1>2. quiz_questions[i].asked_at \in BOOLEAN
  BY <1>1, TablesAreFunctions DEF QuestionRow
<1> DEFINE old == quiz_questions[i]
<1>3. PICK event \in {"defer", "requeue"}, state \in QuestionState,
           event_type \in {"question_deferred", "question_requeued"}, asked_at \in BOOLEAN :
        /\ QuestionStateChange(quiz, i, event, state, event_type, asked_at)
        /\ \/ /\ old.state = "asked" /\ state = "deferred"
              /\ event_type = "question_deferred" /\ asked_at = old.asked_at
           \/ /\ old.state \in {"asked", "deferred"} /\ state = "planned"
              /\ event_type = "question_requeued" /\ asked_at = FALSE
  <2>1. CASE QuizDefer(quiz, i)
    <3>1. QuestionStateChange(quiz, i, "defer", "deferred", "question_deferred", old.asked_at)
      BY <2>1 DEF QuizDefer
    <3>2. old.state = "asked" /\ "deferred" \in QuestionState
      BY <3>1 DEF QuestionStateChange, QuestionTransitions, QuestionState
    <3>3. old.asked_at \in BOOLEAN
      BY <1>2
    <3> QED
      BY <3>1, <3>2, <3>3
  <2>2. CASE QuizRequeue(quiz, i)
    <3>1. QuestionStateChange(quiz, i, "requeue", "planned", "question_requeued", FALSE)
      BY <2>2 DEF QuizRequeue
    <3>2. old.state \in {"asked", "deferred"} /\ "planned" \in QuestionState
      BY <3>1 DEF QuestionStateChange, QuestionTransitions, QuestionState
    <3> QED
      BY <3>1, <3>2
  <2> QED
    BY <2>1, <2>2
<1>4. /\ DOMAIN quiz_questions' = DOMAIN quiz_questions
      /\ \A j \in DOMAIN quiz_questions : j # i => quiz_questions'[j] = quiz_questions[j]
      /\ quiz_questions'[i] = [old EXCEPT !.state = state, !.asked_at = asked_at]
  BY <1>1, <1>3, QuestionUpdate DEF QuestionStateChange
<1>5. question_events' = [question_events EXCEPT
          ![i] = [event_type |-> event_type, previous_state |-> old.state]]
  BY <1>3 DEF QuestionStateChange
<1>6. /\ question_events'[i] = [event_type |-> event_type, previous_state |-> old.state]
      /\ \A j \in DOMAIN quiz_questions : j # i => question_events'[j] = question_events[j]
  BY <1>1, <1>5, EventTables
<1>7. QuestionsKept(DOMAIN quiz_questions \ {i})
  BY <1>4, <1>6 DEF QuestionsKept
<1>8. /\ quiz_sessions[old.quiz_id].state = "in_progress"
      /\ UNCHANGED <<quiz_sessions, session_events, quiz_responses, response_events>>
  BY <1>1, <1>3 DEF QuestionStateChange, InProgress
<1> QED
  BY <1>1, <1>3, <1>4, <1>6, <1>7, <1>8, Zenon DEF QuestionMoves

(* quiz follow-up adds one.                                                *)
LEMMA FollowUpKind ==
    ASSUME TypeOK, NEW quiz, NEW concept \in Concept, QuizFollowUp(quiz, concept)
    PROVE  QuestionAdded(quiz)
<1> DEFINE n == Len(quiz_questions)
           event == [event_type |-> "follow_up_added", previous_state |-> "none"]
<1>1. /\ quiz \in Quizzes /\ quiz_sessions[quiz].state = "in_progress"
      /\ n < MaxQuestions
      /\ question_events' = Append(question_events, event)
      /\ UNCHANGED <<quiz_sessions, session_events, quiz_responses, response_events>>
  BY DEF QuizFollowUp, InProgress
<1>2. PICK position \in 1..NextId(quiz_questions) :
        quiz_questions' = Append(quiz_questions, FollowUpQuestion(quiz, position, concept))
  BY DEF QuizFollowUp
<1>3. n \in Nat /\ quiz_questions \in Seq(QuestionRow)
  BY TablesAreFunctions DEF TypeOK
<1>4. position \in Nat \ {0}
  BY <1>3 DEF NextId
<1>5. FollowUpQuestion(quiz, position, concept) \in QuestionRow
  BY <1>1, <1>4 DEF FollowUpQuestion, QuestionRow, QuestionState
<1>6. quiz_questions'[n + 1] = FollowUpQuestion(quiz, position, concept)
  BY <1>2, <1>3, <1>5, AppendRow
<1>7. /\ question_events'[n + 1] = event
      /\ \A j \in DOMAIN quiz_questions : question_events'[j] = question_events[j]
  <2>1. event \in QuestionEvent
    BY DEF QuestionEvent
  <2> HIDE DEF event
  <2> QED
    BY <1>1, <2>1, EventTables, AppendRow
<1>8. /\ DOMAIN quiz_questions' = DOMAIN quiz_questions \cup {n + 1}
      /\ n + 1 \notin DOMAIN quiz_questions
      /\ \A i \in DOMAIN quiz_questions : quiz_questions'[i] = quiz_questions[i]
  BY FollowUpType
<1>9. n + 1 <= MaxQuestions
  BY <1>1, <1>3, QuizAssumption
<1>10. /\ quiz_questions'[n + 1].quiz_id = quiz
       /\ quiz_questions'[n + 1].state = "planned"
       /\ quiz_questions'[n + 1].asked_at = FALSE
  BY <1>6 DEF FollowUpQuestion
<1> QED
  BY <1>1, <1>7, <1>8, <1>9, <1>10, Zenon DEF QuestionAdded, QuestionsKept

(* The tail of session_state_change moves a session.                       *)
LEMMA SessionRowMoves ==
    ASSUME TypeOK, NEW quiz \in Quizzes, NEW target \in SessionState,
           NEW event \in {"pause", "resume", "complete", "abandon"},
           WriteSessionState(quiz, event, target)
    PROVE  /\ Quizzes' = Quizzes
           /\ SessionsKept(Quizzes \ {quiz})
           /\ quiz_sessions'[quiz].state = target
           /\ quiz_sessions'[quiz] = [quiz_sessions[quiz] EXCEPT
                  !.state = target, !.completed_at = target \in Terminal]
           /\ session_events'[quiz].from = quiz_sessions[quiz].state
           /\ session_events'[quiz].to = target
<1>1. /\ Quizzes' = Quizzes
      /\ \A s \in Quizzes : s # quiz => quiz_sessions'[s] = quiz_sessions[s]
      /\ quiz_sessions'[quiz].state = target
  BY SessionUpdate
<1>2. quiz_sessions'[quiz] = [quiz_sessions[quiz] EXCEPT
          !.state = target, !.completed_at = target \in Terminal]
  BY TablesAreFunctions DEF WriteSessionState
<1>3. /\ session_events'[quiz] =
             [event |-> event, from |-> quiz_sessions[quiz].state, to |-> target]
      /\ \A s \in Quizzes : s # quiz => session_events'[s] = session_events[s]
  BY EventTables DEF WriteSessionState
<1> QED
  BY <1>1, <1>2, <1>3 DEF SessionsKept

(* quiz pause, resume and complete move it.                                *)
LEMMA SessionMoveKind ==
    ASSUME TypeOK, NEW quiz, QuizPause(quiz) \/ QuizResume(quiz) \/ QuizComplete(quiz)
    PROVE  SessionMoves(quiz)
<1>1. quiz \in Quizzes
  BY DEF QuizPause, QuizResume, QuizComplete, MayChange
<1>2. UNCHANGED <<quiz_questions, question_events, quiz_responses, response_events>>
  BY DEF QuizPause, QuizResume, QuizComplete
<1>3. CASE QuizPause(quiz)
  <2>1. WriteSessionState(quiz, "pause", "paused") /\ quiz_sessions[quiz].state = "in_progress"
    BY <1>3 DEF QuizPause, MayChange, SessionTransitions
  <2> QED
    BY <1>1, <1>2, <2>1, SessionRowMoves DEF SessionMoves, SessionState
<1>4. CASE QuizResume(quiz)
  <2>1. WriteSessionState(quiz, "resume", "in_progress") /\ quiz_sessions[quiz].state = "paused"
    BY <1>4 DEF QuizResume, MayChange, SessionTransitions
  <2> QED
    BY <1>1, <1>2, <2>1, SessionRowMoves DEF SessionMoves, SessionState
<1>5. CASE QuizComplete(quiz)
  <2>1. /\ WriteSessionState(quiz, "complete", "completed")
        /\ quiz_sessions[quiz].state = "in_progress" /\ UnresolvedOf(quiz) = {}
    BY <1>5 DEF QuizComplete, MayChange, SessionTransitions
  <2> QED
    BY <1>1, <1>2, <2>1, SessionRowMoves DEF SessionMoves, SessionState
<1> QED
  BY <1>3, <1>4, <1>5

(* quiz abandon moves it and retires its unresolved questions.             *)
LEMMA AbandonKind ==
    ASSUME TypeOK, NEW quiz, QuizAbandon(quiz)
    PROVE  SessionMoves(quiz)
<1>1. /\ quiz \in Quizzes /\ quiz_sessions[quiz].state \in Live
      /\ WriteSessionState(quiz, "abandon", "abandoned")
      /\ UNCHANGED <<quiz_responses, response_events>>
  BY OnlyLiveMove DEF QuizAbandon
<1>2. QuestionsRetired(quiz)
  <2>1. DOMAIN quiz_questions' = DOMAIN quiz_questions
    BY AbandonedRows
  <2>2. UnresolvedOf(quiz) \subseteq DOMAIN quiz_questions
    BY DEF UnresolvedOf, QuestionsOf
  <2>3. \A i \in DOMAIN quiz_questions :
            quiz_questions'[i] = IF i \in UnresolvedOf(quiz)
                                 THEN [quiz_questions[i] EXCEPT !.state = "retired"]
                                 ELSE quiz_questions[i]
    BY DEF QuizAbandon
  <2>4. \A i \in DOMAIN quiz_questions :
            question_events'[i] = IF i \in UnresolvedOf(quiz)
                                  THEN [event_type |-> "question_retired",
                                        previous_state |-> quiz_questions[i].state]
                                  ELSE question_events[i]
    BY EventTables DEF QuizAbandon
  <2> QED
    BY <2>1, <2>2, <2>3, <2>4 DEF QuestionsRetired, QuestionsKept
<1> QED
  BY <1>1, <1>2, SessionRowMoves DEF SessionMoves, SessionState

(* response submit answers a question.                                     *)
LEMMA SubmitKind ==
    ASSUME TypeOK, NEW i \in DOMAIN quiz_questions, NEW assessment \in Assessment,
           NEW linked \in BOOLEAN, ResponseSubmit(i, assessment, linked)
    PROVE  QuestionAnswered(i)
<1> DEFINE r == Len(quiz_responses) + 1
           event == [event_type |-> "answer_submitted", before |-> "none", after |-> assessment]
<1>1. PICK attempt \in 1..r :
        /\ IsNextAttempt(i, attempt)
        /\ quiz_responses' = Append(quiz_responses,
               [question_id |-> i, attempt_number |-> attempt,
                answered_at |-> now, assessment |-> assessment])
  BY DEF ResponseSubmit, NextId
<1> DEFINE row == [question_id |-> i, attempt_number |-> attempt,
                   answered_at |-> now, assessment |-> assessment]
<1>2. /\ quiz_sessions[quiz_questions[i].quiz_id].state = "in_progress"
      /\ quiz_questions[i].state \in {"asked", "answered"}
      /\ quiz_questions' = [quiz_questions EXCEPT ![i].state = "answered"]
      /\ question_events' = [question_events EXCEPT
             ![i] = [event_type |-> "answer_submitted",
                     previous_state |-> quiz_questions[i].state]]
      /\ response_events' = Append(response_events, event)
      /\ UNCHANGED <<quiz_sessions, session_events>>
  BY DEF ResponseSubmit, QuestionTransitions
<1>3. /\ Len(quiz_responses) \in Nat /\ DOMAIN quiz_responses = 1..Len(quiz_responses)
      /\ quiz_responses \in Seq(ResponseRow)
      /\ quiz_questions \in [DOMAIN quiz_questions -> QuestionRow]
  BY TablesAreFunctions DEF TypeOK
<1>4. row \in ResponseRow /\ attempt \in Nat
  BY <1>3 DEF ResponseRow, TypeOK
<1>5. /\ DOMAIN quiz_responses' = DOMAIN quiz_responses \cup {r}
      /\ r \notin DOMAIN quiz_responses
      /\ quiz_responses'[r] = row
      /\ \A o \in DOMAIN quiz_responses : quiz_responses'[o] = quiz_responses[o]
  <2> HIDE DEF row
  <2> QED
    BY <1>1, <1>3, <1>4, AppendRow DEF row
<1>6. /\ response_events'[r] = event
      /\ \A o \in DOMAIN quiz_responses : response_events'[o] = response_events[o]
  <2>1. event \in ResponseEvent
    BY DEF ResponseEvent
  <2> HIDE DEF event
  <2> QED
    BY <1>2, <2>1, EventTables, AppendRow
<1>7. /\ DOMAIN quiz_questions' = DOMAIN quiz_questions
      /\ quiz_questions'[i] = [quiz_questions[i] EXCEPT !.state = "answered"]
      /\ \A j \in DOMAIN quiz_questions : j # i => quiz_questions'[j] = quiz_questions[j]
  BY <1>2, <1>3
<1>8. /\ question_events'[i] =
             [event_type |-> "answer_submitted", previous_state |-> quiz_questions[i].state]
      /\ \A j \in DOMAIN quiz_questions : j # i => question_events'[j] = question_events[j]
  BY <1>2, EventTables
<1>9. /\ quiz_responses'[r].question_id = i
      /\ quiz_responses'[r].attempt_number = attempt
      /\ quiz_responses'[r].assessment = assessment
  BY <1>5
<1>10. QuestionsKept(DOMAIN quiz_questions \ {i}) /\ ResponsesKept(DOMAIN quiz_responses)
  BY <1>5, <1>6, <1>7, <1>8 DEF QuestionsKept, ResponsesKept
<1> HIDE DEF row
<1> QED
  BY <1>1, <1>2, <1>4, <1>5, <1>6, <1>7, <1>8, <1>9, <1>10, Zenon DEF QuestionAnswered

(* response regrade regrades one.                                          *)
LEMMA RegradeKind ==
    ASSUME TypeOK, NEW r \in DOMAIN quiz_responses, NEW assessment \in Assessment,
           ResponseRegrade(r, assessment)
    PROVE  ResponseRegraded(r)
<1> DEFINE event == [event_type |-> "response_regraded",
                     before |-> quiz_responses[r].assessment, after |-> assessment]
<1>1. /\ quiz_sessions[QuizOf(r)].state \notin Terminal
      /\ quiz_responses' = [quiz_responses EXCEPT ![r].assessment = assessment]
      /\ response_events' = [response_events EXCEPT ![r] = event]
      /\ UNCHANGED <<quiz_sessions, session_events, quiz_questions, question_events>>
  BY DEF ResponseRegrade, RegradeAllowed
<1>2. quiz_responses \in [DOMAIN quiz_responses -> ResponseRow]
  BY TablesAreFunctions
<1>3. /\ DOMAIN quiz_responses' = DOMAIN quiz_responses
      /\ quiz_responses'[r] = [quiz_responses[r] EXCEPT !.assessment = assessment]
      /\ \A o \in DOMAIN quiz_responses : o # r => quiz_responses'[o] = quiz_responses[o]
  BY <1>1, <1>2
<1>4. quiz_responses'[r].assessment = assessment
  BY <1>2, <1>3 DEF ResponseRow
<1>5. /\ response_events'[r] = event
      /\ \A o \in DOMAIN quiz_responses : o # r => response_events'[o] = response_events[o]
  BY <1>1, EventTables
<1> QED
  BY <1>1, <1>3, <1>4, <1>5 DEF ResponseRegraded, ResponsesKept

(* Every step is of one of the kinds.                                      *)
LEMMA StepKinds ==
    ASSUME TypeOK, [Next]_vars
    PROVE  StepKind
<1>1. BankCommand \/ Tick \/ UNCHANGED vars => NothingMoves
  BY DEF BankCommand, Tick, vars, quiz_vars, quiz_tables, NothingMoves
<1>2. ASSUME NEW t \in Template, NEW requested \in 0..MaxLimit, QuizStart(t, requested)
      PROVE  StepKind
  <2>1. StartExisting(t) => NothingMoves
    BY DEF StartExisting, quiz_vars, quiz_tables, NothingMoves
  <2> QED
    BY <1>2, <2>1, SnapshotKind, QuizAssumption DEF QuizStart, StepKind
<1>3. ASSUME NEW quiz \in Quizzes, SessionCommand(quiz)
      PROVE  StepKind
  <2>1. NextAlreadyAsked(quiz) => NothingMoves
    BY DEF NextAlreadyAsked, quiz_vars, quiz_tables, NothingMoves
  <2> QED
    BY <1>3, <2>1, NextKind, DeferRequeueKind, FollowUpKind, SessionMoveKind, AbandonKind
    DEF SessionCommand, QuizNext, StepKind
<1>4. ASSUME NEW i \in DOMAIN quiz_questions, NEW assessment \in Assessment,
             NEW linked \in BOOLEAN, ResponseSubmit(i, assessment, linked)
      PROVE  StepKind
  BY <1>4, SubmitKind DEF StepKind
<1>5. ASSUME NEW r \in DOMAIN quiz_responses, NEW assessment \in Assessment,
             ResponseRegrade(r, assessment)
      PROVE  StepKind
  BY <1>5, RegradeKind DEF StepKind
<1>6. \A source_type, quiz, response : LearningAdd(source_type, quiz, response) => NothingMoves
  BY DEF LearningAdd, NothingMoves
<1> QED
  BY <1>1, <1>2, <1>3, <1>4, <1>5, <1>6 DEF Next, QuizCommand, StepKind

-----------------------------------------------------------------------------
(* The responses to a question after a step: no step takes one away.       *)
LEMMA ResponsesAfter ==
    ASSUME TypeOK, StepKind
    PROVE  /\ \A i : (\A k : QuestionAnswered(k) => k # i) => ResponsesTo(i)' = ResponsesTo(i)
           /\ \A i : QuestionAnswered(i) =>
                  ResponsesTo(i)' = ResponsesTo(i) \cup {Len(quiz_responses) + 1}
<1>1. UNCHANGED quiz_responses => \A i : ResponsesTo(i)' = ResponsesTo(i)
  BY DEF ResponsesTo
<1>2. ASSUME NEW k, QuestionAnswered(k)
      PROVE  /\ \A i : i # k => ResponsesTo(i)' = ResponsesTo(i)
             /\ ResponsesTo(k)' = ResponsesTo(k) \cup {Len(quiz_responses) + 1}
  <2> DEFINE r == Len(quiz_responses) + 1
  <2>1. /\ DOMAIN quiz_responses' = DOMAIN quiz_responses \cup {r}
        /\ r \notin DOMAIN quiz_responses
        /\ \A o \in DOMAIN quiz_responses : quiz_responses'[o] = quiz_responses[o]
        /\ quiz_responses'[r].question_id = k
    BY <1>2 DEF QuestionAnswered, ResponsesKept
  <2> HIDE DEF r
  <2> QED
    BY <2>1 DEF ResponsesTo, r
<1>3. ASSUME NEW r, ResponseRegraded(r)
      PROVE  \A i : ResponsesTo(i)' = ResponsesTo(i)
  <2>1. /\ DOMAIN quiz_responses' = DOMAIN quiz_responses /\ r \in DOMAIN quiz_responses
        /\ \A o \in DOMAIN quiz_responses \ {r} : quiz_responses'[o] = quiz_responses[o]
        /\ quiz_responses'[r] =
               [quiz_responses[r] EXCEPT !.assessment = quiz_responses'[r].assessment]
    BY <1>3 DEF ResponseRegraded, ResponsesKept
  <2>2. quiz_responses'[r].question_id = quiz_responses[r].question_id
    BY <2>1, TablesAreFunctions DEF ResponseRow
  <2> QED
    BY <2>1, <2>2 DEF ResponsesTo
<1>4. \A k : QuestionAnswered(k) => \A i : QuestionAnswered(i) => i = k
  <2> SUFFICES ASSUME NEW k, QuestionAnswered(k), NEW i, QuestionAnswered(i) PROVE i = k
    OBVIOUS
  <2> QED
    BY DEF QuestionAnswered
<1>5. CASE \E k : QuestionAnswered(k)
  BY <1>2, <1>4, <1>5
<1>6. CASE \A k : ~QuestionAnswered(k)
  <2>1. UNCHANGED quiz_responses \/ \E r : ResponseRegraded(r)
    BY <1>6 DEF StepKind, NothingMoves, QuizStarts, QuestionMoves, QuestionAdded, SessionMoves
  <2> QED
    BY <1>1, <1>3, <1>6, <2>1
<1> QED
  BY <1>5, <1>6

(* A row has the fields of its type.                                       *)
LEMMA RowFields ==
    ASSUME TypeOK
    PROVE  /\ \A s \in Quizzes : quiz_sessions[s] \in SessionRow
           /\ \A i \in DOMAIN quiz_questions : quiz_questions[i] \in QuestionRow
           /\ \A r \in DOMAIN quiz_responses : quiz_responses[r] \in ResponseRow
BY TablesAreFunctions

(* What a step makes of the states of the questions.                       *)
LEMMA QuestionAfter ==
    ASSUME TypeOK, StepKind
    PROVE  \A i \in DOMAIN quiz_questions' :
             \/ /\ i \in DOMAIN quiz_questions
                /\ quiz_questions'[i] = quiz_questions[i]
                /\ question_events'[i] = question_events[i]
                /\ ~QuestionAnswered(i)
             \/ /\ i \notin DOMAIN quiz_questions
                /\ quiz_questions'[i].state = "planned"
                /\ quiz_questions'[i].asked_at = FALSE
                /\ question_events'[i].event_type \in {"none", "follow_up_added"}
                /\ question_events'[i].previous_state = "none"
                /\ ~QuestionAnswered(i)
             \/ QuestionMoves(i) /\ ~QuestionAnswered(i)
             \/ /\ i \in DOMAIN quiz_questions
                /\ quiz_questions[i].state \in Unresolved
                /\ quiz_questions'[i] = [quiz_questions[i] EXCEPT !.state = "retired"]
                /\ question_events'[i] = [event_type |-> "question_retired",
                                          previous_state |-> quiz_questions[i].state]
                /\ ~QuestionAnswered(i)
                /\ \E quiz : SessionMoves(quiz) /\ quiz_sessions'[quiz].state = "abandoned"
                             /\ quiz_questions[i].quiz_id = quiz
             \/ QuestionAnswered(i)
<1> SUFFICES ASSUME NEW i \in DOMAIN quiz_questions', ~QuestionAnswered(i)
             PROVE  \/ /\ i \in DOMAIN quiz_questions
                       /\ quiz_questions'[i] = quiz_questions[i]
                       /\ question_events'[i] = question_events[i]
                    \/ /\ i \notin DOMAIN quiz_questions
                       /\ quiz_questions'[i].state = "planned"
                       /\ quiz_questions'[i].asked_at = FALSE
                       /\ question_events'[i].event_type \in {"none", "follow_up_added"}
                       /\ question_events'[i].previous_state = "none"
                    \/ QuestionMoves(i)
                    \/ /\ i \in DOMAIN quiz_questions
                       /\ quiz_questions[i].state \in Unresolved
                       /\ quiz_questions'[i] = [quiz_questions[i] EXCEPT !.state = "retired"]
                       /\ question_events'[i] = [event_type |-> "question_retired",
                                                 previous_state |-> quiz_questions[i].state]
                       /\ \E quiz : SessionMoves(quiz) /\ quiz_sessions'[quiz].state = "abandoned"
                                    /\ quiz_questions[i].quiz_id = quiz
  BY Zenon
<1>1. CASE NothingMoves \/ \E r : ResponseRegraded(r)
  BY <1>1 DEF NothingMoves, ResponseRegraded, event_tables
<1>2. CASE QuizStarts
  BY <1>2 DEF QuizStarts, QuestionsKept, NoEvent
<1>3. ASSUME NEW k, QuestionMoves(k) PROVE QuestionMoves(i) \/
             (i \in DOMAIN quiz_questions /\ quiz_questions'[i] = quiz_questions[i]
              /\ question_events'[i] = question_events[i])
  BY <1>3 DEF QuestionMoves, QuestionsKept
<1>4. ASSUME NEW quiz, QuestionAdded(quiz)
      PROVE  IF i \in DOMAIN quiz_questions
             THEN /\ quiz_questions'[i] = quiz_questions[i]
                  /\ question_events'[i] = question_events[i]
             ELSE /\ quiz_questions'[i].state = "planned"
                  /\ quiz_questions'[i].asked_at = FALSE
                  /\ question_events'[i].event_type \in {"none", "follow_up_added"}
                  /\ question_events'[i].previous_state = "none"
  BY <1>4 DEF QuestionAdded, QuestionsKept
<1>5. ASSUME NEW quiz, SessionMoves(quiz)
      PROVE  \/ /\ i \in DOMAIN quiz_questions
                /\ quiz_questions'[i] = quiz_questions[i]
                /\ question_events'[i] = question_events[i]
             \/ /\ i \in DOMAIN quiz_questions
                /\ quiz_questions[i].state \in Unresolved
                /\ quiz_questions'[i] = [quiz_questions[i] EXCEPT !.state = "retired"]
                /\ question_events'[i] = [event_type |-> "question_retired",
                                          previous_state |-> quiz_questions[i].state]
                /\ quiz_sessions'[quiz].state = "abandoned"
                /\ quiz_questions[i].quiz_id = quiz
  <2>1. CASE UNCHANGED <<quiz_questions, question_events>>
    BY <2>1
  <2>2. CASE QuestionsRetired(quiz) /\ quiz_sessions'[quiz].state = "abandoned"
    BY <2>2 DEF QuestionsRetired, QuestionsKept, UnresolvedOf, QuestionsOf
  <2> QED
    BY <1>5, <2>1, <2>2 DEF SessionMoves
<1>6. ASSUME NEW k, QuestionAnswered(k)
      PROVE  /\ i \in DOMAIN quiz_questions /\ quiz_questions'[i] = quiz_questions[i]
             /\ question_events'[i] = question_events[i]
  BY <1>6 DEF QuestionAnswered, QuestionsKept
<1> QED
  BY <1>1, <1>2, <1>3, <1>4, <1>5, <1>6 DEF StepKind

-----------------------------------------------------------------------------
LEMMA StepKeepsHistory ==
    ASSUME TypeOK, QuestionHistory, StepKind
    PROVE  QuestionHistory'
<1> SUFFICES ASSUME NEW i \in DOMAIN quiz_questions'
             PROVE  LET q == quiz_questions'[i]
                    IN  /\ q.state = "answered" <=> ResponsesTo(i)' # {}
                        /\ q.state = "planned" => ~q.asked_at
                        /\ q.state \in {"asked", "deferred", "answered"} => q.asked_at
  BY DEF QuestionHistory
<1>1. i \in DOMAIN quiz_questions =>
        /\ quiz_questions[i] \in QuestionRow
        /\ quiz_questions[i].state = "answered" <=> ResponsesTo(i) # {}
        /\ quiz_questions[i].state = "planned" => ~quiz_questions[i].asked_at
        /\ quiz_questions[i].state \in {"asked", "deferred", "answered"} =>
               quiz_questions[i].asked_at
  BY RowFields DEF QuestionHistory
<1>2. i \notin DOMAIN quiz_questions => ResponsesTo(i) = {}
  BY RowFields DEF ResponsesTo, ResponseRow
<1>3. ~QuestionAnswered(i) => ResponsesTo(i)' = ResponsesTo(i)
  BY ResponsesAfter
<1>4. CASE /\ i \in DOMAIN quiz_questions /\ quiz_questions'[i] = quiz_questions[i]
           /\ ~QuestionAnswered(i)
  BY <1>1, <1>3, <1>4
<1>5. CASE /\ i \notin DOMAIN quiz_questions /\ quiz_questions'[i].state = "planned"
           /\ quiz_questions'[i].asked_at = FALSE /\ ~QuestionAnswered(i)
  BY <1>2, <1>3, <1>5
<1>6. CASE QuestionMoves(i) /\ ~QuestionAnswered(i)
  BY <1>1, <1>3, <1>6 DEF QuestionMoves, QuestionRow
<1>7. CASE /\ i \in DOMAIN quiz_questions /\ quiz_questions[i].state \in Unresolved
           /\ quiz_questions'[i] = [quiz_questions[i] EXCEPT !.state = "retired"]
           /\ ~QuestionAnswered(i)
  BY <1>1, <1>3, <1>7 DEF QuestionRow, Unresolved
<1>8. CASE QuestionAnswered(i)
  <2>1. ResponsesTo(i)' # {}
    BY <1>8, ResponsesAfter
  <2>2. /\ i \in DOMAIN quiz_questions /\ quiz_questions[i].state \in {"asked", "answered"}
        /\ quiz_questions'[i] = [quiz_questions[i] EXCEPT !.state = "answered"]
    BY <1>8 DEF QuestionAnswered
  <2> QED
    BY <1>1, <2>1, <2>2 DEF QuestionRow
<1> QED
  BY <1>4, <1>5, <1>6, <1>7, <1>8, QuestionAfter

(* A question is answered exactly when it has a response, and asked_at     *)
(* tells whether it was ever put: quiz next, defer, requeue, follow-up,    *)
(* abandon and response submit keep both.                                  *)
THEOREM History == Spec => []QuestionHistory
<1>1. Init => QuestionHistory
  BY DEF Init, QuestionHistory
<1>2. TypeOK /\ QuestionHistory /\ [Next]_vars => QuestionHistory'
  BY StepKinds, StepKeepsHistory
<1> QED
  BY <1>1, <1>2, TypeCorrect, PTL DEF Spec

-----------------------------------------------------------------------------
LEMMA StepKeepsReplay ==
    ASSUME TypeOK, EventsReplay, StepKind
    PROVE  EventsReplay'
<1>1. ASSUME NEW s \in Quizzes'
      PROVE  quiz_sessions'[s].state = session_events'[s].to
  <2>1. s \in Quizzes => quiz_sessions[s].state = session_events[s].to
    BY DEF EventsReplay
  <2>2. CASE UNCHANGED <<quiz_sessions, session_events>>
    BY <1>1, <2>1, <2>2 DEF Quizzes
  <2>3. CASE QuizStarts
    BY <1>1, <2>1, <2>3 DEF QuizStarts, SessionsKept
  <2>4. ASSUME NEW quiz, SessionMoves(quiz)
        PROVE  quiz_sessions'[s].state = session_events'[s].to
    BY <1>1, <2>1, <2>4 DEF SessionMoves, SessionsKept
  <2> QED
    BY <2>2, <2>3, <2>4 DEF StepKind, NothingMoves, QuestionMoves, QuestionAdded,
       QuestionAnswered, ResponseRegraded, event_tables
<1>2. ASSUME NEW i \in DOMAIN quiz_questions'
      PROVE  quiz_questions'[i].state = StateAfter[question_events'[i].event_type]
  <2>1. i \in DOMAIN quiz_questions =>
          /\ quiz_questions[i] \in QuestionRow
          /\ quiz_questions[i].state = StateAfter[question_events[i].event_type]
    BY RowFields DEF EventsReplay
  <2>2. CASE QuestionMoves(i)
    <3>1. \/ /\ quiz_questions'[i].state = "asked"
             /\ question_events'[i].event_type = "question_asked"
          \/ /\ quiz_questions'[i].state = "deferred"
             /\ question_events'[i].event_type = "question_deferred"
          \/ /\ quiz_questions'[i].state = "planned"
             /\ question_events'[i].event_type = "question_requeued"
      <4>1. i \in DOMAIN quiz_questions /\ quiz_questions[i] \in QuestionRow
        BY <2>1, <2>2 DEF QuestionMoves
      <4>2. CASE quiz_questions'[i] = [quiz_questions[i] EXCEPT !.state = "asked",
                                                                !.asked_at = TRUE]
                 /\ question_events'[i] = [event_type |-> "question_asked",
                                           previous_state |-> "none"]
        BY <4>1, <4>2 DEF QuestionRow
      <4>3. CASE quiz_questions'[i] =
                     [quiz_questions[i] EXCEPT !.state = "deferred",
                                               !.asked_at = quiz_questions[i].asked_at]
                 /\ question_events'[i] = [event_type |-> "question_deferred",
                                           previous_state |-> quiz_questions[i].state]
        BY <4>1, <4>3 DEF QuestionRow
      <4>4. CASE quiz_questions'[i] = [quiz_questions[i] EXCEPT !.state = "planned",
                                                                !.asked_at = FALSE]
                 /\ question_events'[i] = [event_type |-> "question_requeued",
                                           previous_state |-> quiz_questions[i].state]
        BY <4>1, <4>4 DEF QuestionRow
      <4> QED
        BY <2>2, <4>2, <4>3, <4>4, Zenon DEF QuestionMoves
    <3> QED
      BY <3>1 DEF StateAfter
  <2>3. CASE QuestionAnswered(i)
    <3>1. /\ quiz_questions'[i].state = "answered"
          /\ question_events'[i].event_type = "answer_submitted"
      BY <2>1, <2>3 DEF QuestionAnswered, QuestionRow
    <3> QED
      BY <3>1 DEF StateAfter
  <2>4. CASE ~QuestionMoves(i) /\ ~QuestionAnswered(i)
    <3>1. \/ /\ i \in DOMAIN quiz_questions
             /\ quiz_questions'[i] = quiz_questions[i]
             /\ question_events'[i] = question_events[i]
          \/ /\ quiz_questions'[i].state = "planned"
             /\ question_events'[i].event_type \in {"none", "follow_up_added"}
          \/ /\ i \in DOMAIN quiz_questions
             /\ quiz_questions'[i] = [quiz_questions[i] EXCEPT !.state = "retired"]
             /\ question_events'[i] = [event_type |-> "question_retired",
                                       previous_state |-> quiz_questions[i].state]
      BY <1>2, <2>4, QuestionAfter, Zenon
    <3> QED
      BY <2>1, <3>1 DEF QuestionRow, StateAfter
  <2> QED
    BY <2>2, <2>3, <2>4
<1>3. ASSUME NEW r \in DOMAIN quiz_responses'
      PROVE  quiz_responses'[r].assessment = response_events'[r].after
  <2>1. r \in DOMAIN quiz_responses => quiz_responses[r].assessment = response_events[r].after
    BY DEF EventsReplay
  <2>2. CASE UNCHANGED <<quiz_responses, response_events>>
    BY <1>3, <2>1, <2>2
  <2>3. ASSUME NEW i, QuestionAnswered(i)
        PROVE  quiz_responses'[r].assessment = response_events'[r].after
    BY <1>3, <2>1, <2>3 DEF QuestionAnswered, ResponsesKept
  <2>4. ASSUME NEW o, ResponseRegraded(o)
        PROVE  quiz_responses'[r].assessment = response_events'[r].after
    BY <1>3, <2>1, <2>4 DEF ResponseRegraded, ResponsesKept
  <2> QED
    BY <2>2, <2>3, <2>4 DEF StepKind, NothingMoves, QuizStarts, QuestionMoves, QuestionAdded,
       SessionMoves, event_tables
<1> QED
  BY <1>1, <1>2, <1>3 DEF EventsReplay

(* quiz_events tells the state: whatever the commands did, the newest      *)
(* event of a row gives the state or the grade the row has.                *)
THEOREM Replay == Spec => []EventsReplay
<1>1. Init => EventsReplay
  BY DEF Init, EventsReplay, Quizzes
<1>2. TypeOK /\ EventsReplay /\ [Next]_vars => EventsReplay'
  BY StepKinds, StepKeepsReplay
<1> QED
  BY <1>1, <1>2, TypeCorrect, PTL DEF Spec

-----------------------------------------------------------------------------
(* No step gives a question another quiz.                                  *)
LEMMA QuizOfQuestion ==
    ASSUME TypeOK, StepKind, NEW i \in DOMAIN quiz_questions
    PROVE  i \in DOMAIN quiz_questions' /\ quiz_questions'[i].quiz_id = quiz_questions[i].quiz_id
<1>1. quiz_questions[i] \in QuestionRow
  BY RowFields
<1>2. i \in DOMAIN quiz_questions'
  <2>1. \/ DOMAIN quiz_questions' = DOMAIN quiz_questions
        \/ QuizStarts
        \/ \E quiz : QuestionAdded(quiz)
    BY DEF StepKind, NothingMoves, QuestionMoves, SessionMoves, QuestionsRetired,
           QuestionAnswered, ResponseRegraded
  <2> QED
    BY <2>1 DEF QuizStarts, QuestionAdded
<1>3. CASE QuestionMoves(i)
  <2>1. \E state, seen :
          quiz_questions'[i] = [quiz_questions[i] EXCEPT !.state = state, !.asked_at = seen]
    BY <1>3, Zenon DEF QuestionMoves
  <2> QED
    BY <1>1, <1>2, <2>1 DEF QuestionRow
<1>4. CASE QuestionAnswered(i)
  <2>1. quiz_questions'[i] = [quiz_questions[i] EXCEPT !.state = "answered"]
    BY <1>4 DEF QuestionAnswered
  <2> QED
    BY <1>1, <1>2, <2>1 DEF QuestionRow
<1>5. CASE ~QuestionMoves(i) /\ ~QuestionAnswered(i)
  <2>1. \/ quiz_questions'[i] = quiz_questions[i]
        \/ quiz_questions'[i] = [quiz_questions[i] EXCEPT !.state = "retired"]
    BY <1>2, <1>5, QuestionAfter, Zenon
  <2> QED
    BY <1>1, <1>2, <2>1 DEF QuestionRow
<1> QED
  BY <1>3, <1>4, <1>5

(* The questions of a quiz that is not in progress stand still, unless it  *)
(* is abandoned.                                                           *)
LEMMA Standing ==
    ASSUME TypeOK, StepKind, NEW s \in Quizzes, quiz_sessions[s].state # "in_progress"
    PROVE  /\ QuestionsOf(s)' = QuestionsOf(s)
           /\ \A i \in QuestionsOf(s) :
                  /\ ResponsesTo(i)' = ResponsesTo(i)
                  /\ \/ quiz_questions'[i] = quiz_questions[i]
                     \/ SessionMoves(s) /\ quiz_sessions'[s].state = "abandoned"
<1>1. ASSUME NEW i \in DOMAIN quiz_questions' \ DOMAIN quiz_questions
      PROVE  quiz_questions'[i].quiz_id # s
  <2>1. QuizStarts \/ \E quiz : QuestionAdded(quiz)
    BY <1>1 DEF StepKind, NothingMoves, QuestionMoves, SessionMoves, QuestionsRetired,
                QuestionAnswered, ResponseRegraded
  <2>2. CASE QuizStarts
    BY <1>1, <2>2 DEF QuizStarts
  <2>3. CASE \E quiz : QuestionAdded(quiz)
    BY <1>1, <2>3 DEF QuestionAdded
  <2> QED
    BY <2>1, <2>2, <2>3
<1>2. QuestionsOf(s)' = QuestionsOf(s)
  BY <1>1, QuizOfQuestion DEF QuestionsOf
<1>3. ASSUME NEW i \in QuestionsOf(s)
      PROVE  /\ ResponsesTo(i)' = ResponsesTo(i)
             /\ \/ quiz_questions'[i] = quiz_questions[i]
                \/ SessionMoves(s) /\ quiz_sessions'[s].state = "abandoned"
  <2>1. i \in DOMAIN quiz_questions /\ quiz_questions[i].quiz_id = s
    BY DEF QuestionsOf
  <2>2. ~QuestionMoves(i) /\ ~QuestionAnswered(i)
    BY <2>1 DEF QuestionMoves, QuestionAnswered
  <2>3. ResponsesTo(i)' = ResponsesTo(i)
    BY <2>2, ResponsesAfter
  <2>4. i \in DOMAIN quiz_questions'
    BY <2>1, QuizOfQuestion
  <2> QED
    BY <2>1, <2>2, <2>3, <2>4, QuestionAfter, Zenon
<1> QED
  BY <1>2, <1>3

LEMMA StepLeavesPaused ==
    ASSUME TypeOK, StepKind, NEW s \in Quizzes,
           quiz_sessions[s].state = "paused", quiz_sessions'[s].state # "abandoned"
    PROVE  /\ QuestionsOf(s)' = QuestionsOf(s)
           /\ \A i \in QuestionsOf(s) :
                  quiz_questions'[i] = quiz_questions[i] /\ ResponsesTo(i)' = ResponsesTo(i)
BY Standing

(* A paused quiz is quiet: no command asks, defers, requeues, answers or   *)
(* adds a question of it, and quiz abandon alone retires them.             *)
THEOREM PausedQuiet == Spec => PausedIsQuiet
<1>1. TypeOK /\ [Next]_vars =>
        \A s \in Quizzes :
            quiz_sessions[s].state = "paused" /\ quiz_sessions'[s].state # "abandoned" =>
                /\ QuestionsOf(s)' = QuestionsOf(s)
                /\ \A i \in QuestionsOf(s) :
                       quiz_questions'[i] = quiz_questions[i] /\ ResponsesTo(i)' = ResponsesTo(i)
  BY StepKinds, StepLeavesPaused
<1> QED
  BY <1>1, TypeCorrect, PTL DEF Spec, PausedIsQuiet

LEMMA StepLeavesTerminal ==
    ASSUME TypeOK, StepKind, NEW s \in Quizzes, quiz_sessions[s].state \in Terminal
    PROVE  /\ quiz_sessions'[s] = quiz_sessions[s]
           /\ QuestionsOf(s)' = QuestionsOf(s)
           /\ \A i \in QuestionsOf(s) :
                  /\ quiz_questions'[i] = quiz_questions[i]
                  /\ ResponsesTo(i)' = ResponsesTo(i)
                  /\ \A r \in ResponsesTo(i) : quiz_responses'[r] = quiz_responses[r]
<1>1. quiz_sessions[s].state \notin Live
  BY DEF Terminal, Live
<1>2. ~SessionMoves(s)
  BY <1>1 DEF SessionMoves, Live
<1>3. quiz_sessions'[s] = quiz_sessions[s]
  BY <1>2 DEF StepKind, NothingMoves, QuizStarts, QuestionMoves, QuestionAdded, SessionMoves,
     SessionsKept, QuestionAnswered, ResponseRegraded
<1>4. quiz_sessions[s].state # "in_progress"
  BY DEF Terminal
<1>5. ASSUME NEW i \in QuestionsOf(s), NEW r \in ResponsesTo(i)
      PROVE  quiz_responses'[r] = quiz_responses[r]
  <2>1. r \in DOMAIN quiz_responses /\ QuizOf(r) = s
    BY <1>5 DEF QuestionsOf, ResponsesTo, QuizOf
  <2>2. ~ResponseRegraded(r)
    BY <2>1 DEF ResponseRegraded
  <2> QED
    BY <2>1, <2>2 DEF StepKind, NothingMoves, QuizStarts, QuestionMoves, QuestionAdded,
       SessionMoves, QuestionAnswered, ResponseRegraded, ResponsesKept
<1> QED
  BY <1>2, <1>3, <1>4, <1>5, Standing

(* What is over stays as it was: no command touches a completed or         *)
(* abandoned quiz, its questions or its responses, or adds any.            *)
THEOREM Frozen == Spec => TerminalFrozen
<1>1. TypeOK /\ [Next]_vars =>
        \A s \in Quizzes : quiz_sessions[s].state \in Terminal =>
            /\ quiz_sessions'[s] = quiz_sessions[s]
            /\ QuestionsOf(s)' = QuestionsOf(s)
            /\ \A i \in QuestionsOf(s) :
                   /\ quiz_questions'[i] = quiz_questions[i]
                   /\ ResponsesTo(i)' = ResponsesTo(i)
                   /\ \A r \in ResponsesTo(i) : quiz_responses'[r] = quiz_responses[r]
  BY StepKinds, StepLeavesTerminal
<1> QED
  BY <1>1, TypeCorrect, PTL DEF Spec, TerminalFrozen

-----------------------------------------------------------------------------
LEMMA StepChains ==
    ASSUME TypeOK, StepKind
    PROVE  /\ \A s \in Quizzes : session_events'[s] # session_events[s] =>
                  session_events'[s].from = quiz_sessions[s].state
           /\ \A i \in DOMAIN quiz_questions :
                  /\ question_events'[i] # question_events[i]
                  /\ question_events'[i].previous_state # "none"
                  => question_events'[i].previous_state = quiz_questions[i].state
           /\ \A r \in DOMAIN quiz_responses :
                  response_events'[r] # response_events[r] =>
                      response_events'[r].before = quiz_responses[r].assessment
<1>1. ASSUME NEW s \in Quizzes, session_events'[s] # session_events[s]
      PROVE  session_events'[s].from = quiz_sessions[s].state
  <2>1. SessionMoves(s)
    BY <1>1 DEF StepKind, NothingMoves, QuizStarts, QuestionMoves, QuestionAdded, SessionMoves,
       SessionsKept, QuestionAnswered, ResponseRegraded, event_tables
  <2> QED
    BY <2>1 DEF SessionMoves
<1>2. ASSUME NEW i \in DOMAIN quiz_questions, question_events'[i] # question_events[i],
             question_events'[i].previous_state # "none"
      PROVE  question_events'[i].previous_state = quiz_questions[i].state
  <2>1. i \in DOMAIN quiz_questions'
    BY QuizOfQuestion
  <2>2. CASE QuestionMoves(i)
    <3>1. \E event_type : \/ question_events'[i] = [event_type |-> event_type,
                                                  previous_state |-> "none"]
                          \/ question_events'[i] = [event_type |-> event_type,
                                                  previous_state |-> quiz_questions[i].state]
      BY <2>2, Zenon DEF QuestionMoves
    <3> QED
      BY <1>2, <3>1
  <2>3. CASE QuestionAnswered(i)
    BY <2>3 DEF QuestionAnswered
  <2>4. CASE ~QuestionMoves(i) /\ ~QuestionAnswered(i)
    <3>1. question_events'[i] = [event_type |-> "question_retired",
                                 previous_state |-> quiz_questions[i].state]
      BY <1>2, <2>1, <2>4, QuestionAfter, Zenon
    <3> QED
      BY <3>1
  <2> QED
    BY <2>2, <2>3, <2>4
<1>3. ASSUME NEW r \in DOMAIN quiz_responses, response_events'[r] # response_events[r]
      PROVE  response_events'[r].before = quiz_responses[r].assessment
  <2>1. ResponseRegraded(r)
    BY <1>3 DEF StepKind, NothingMoves, QuizStarts, QuestionMoves, QuestionAdded, SessionMoves,
       QuestionAnswered, ResponseRegraded, ResponsesKept, event_tables
  <2> QED
    BY <2>1 DEF ResponseRegraded
<1> QED
  BY <1>1, <1>2, <1>3

(* Every event says what its command found: from, previous_state and       *)
(* before are the state or the grade the row had.                          *)
THEOREM Chain == Spec => EventsChain
<1>1. TypeOK /\ [Next]_vars =>
        /\ \A s \in Quizzes : session_events'[s] # session_events[s] =>
               session_events'[s].from = quiz_sessions[s].state
        /\ \A i \in DOMAIN quiz_questions :
               /\ question_events'[i] # question_events[i]
               /\ question_events'[i].previous_state # "none"
               => question_events'[i].previous_state = quiz_questions[i].state
        /\ \A r \in DOMAIN quiz_responses :
               response_events'[r] # response_events[r] =>
                   response_events'[r].before = quiz_responses[r].assessment
  BY StepKinds, StepChains
<1> QED
  BY <1>1, TypeCorrect, PTL DEF Spec, EventsChain

-----------------------------------------------------------------------------
(* learning_records only grows.                                            *)
LEMMA LearningRows ==
    ASSUME TypeOK, [Next]_vars
    PROVE  \A l \in DOMAIN learning_records : learning_records'[l] = learning_records[l]
<1>1. UNCHANGED learning_records \/
      \E record : learning_records' = Append(learning_records, record)
  BY DEF Next, vars, quiz_vars, quiz_tables, BankCommand, Tick, QuizCommand, SessionCommand,
     QuizStart, StartExisting, CreateSnapshot, QuizNext, NextAlreadyAsked, NextAsks,
     QuizDefer, QuizRequeue, QuestionStateChange, QuizFollowUp, QuizPause, QuizResume,
     QuizComplete, QuizAbandon, ResponseSubmit, ResponseRegrade, LearningAdd
<1>2. learning_records \in Seq(LearningRow)
  BY DEF TypeOK
<1> QED
  BY <1>1, <1>2

LEMMA StepKeepsRows ==
    ASSUME TypeOK, StepKind
    PROVE  /\ \A s \in Quizzes :
                  quiz_sessions'[s] = [quiz_sessions[s] EXCEPT
                      !.state = quiz_sessions'[s].state,
                      !.completed_at = quiz_sessions'[s].completed_at]
           /\ \A i \in DOMAIN quiz_questions :
                  quiz_questions'[i] = [quiz_questions[i] EXCEPT
                      !.state = quiz_questions'[i].state,
                      !.asked_at = quiz_questions'[i].asked_at]
           /\ \A r \in DOMAIN quiz_responses :
                  quiz_responses'[r] = [quiz_responses[r] EXCEPT
                      !.assessment = quiz_responses'[r].assessment]
<1>1. ASSUME NEW s \in Quizzes
      PROVE  quiz_sessions'[s] = [quiz_sessions[s] EXCEPT
                 !.state = quiz_sessions'[s].state,
                 !.completed_at = quiz_sessions'[s].completed_at]
  <2>1. quiz_sessions[s] \in SessionRow
    BY RowFields
  <2>2. CASE SessionMoves(s)
    <3>1. \E state, ended : quiz_sessions'[s] =
              [quiz_sessions[s] EXCEPT !.state = state, !.completed_at = ended]
      BY <2>2, Zenon DEF SessionMoves
    <3> QED
      BY <2>1, <3>1 DEF SessionRow
  <2>3. CASE ~SessionMoves(s)
    <3>1. quiz_sessions'[s] = quiz_sessions[s]
      BY <2>3 DEF StepKind, NothingMoves, QuizStarts, QuestionMoves, QuestionAdded,
         SessionMoves, SessionsKept, QuestionAnswered, ResponseRegraded
    <3> QED
      BY <2>1, <3>1 DEF SessionRow
  <2> QED
    BY <2>2, <2>3
<1>2. ASSUME NEW i \in DOMAIN quiz_questions
      PROVE  quiz_questions'[i] = [quiz_questions[i] EXCEPT
                 !.state = quiz_questions'[i].state,
                 !.asked_at = quiz_questions'[i].asked_at]
  <2>1. quiz_questions[i] \in QuestionRow /\ i \in DOMAIN quiz_questions'
    BY RowFields, QuizOfQuestion
  <2>2. CASE QuestionMoves(i)
    <3>1. \E state, seen : quiz_questions'[i] =
              [quiz_questions[i] EXCEPT !.state = state, !.asked_at = seen]
      BY <2>2, Zenon DEF QuestionMoves
    <3> QED
      BY <2>1, <3>1 DEF QuestionRow
  <2>3. CASE QuestionAnswered(i)
    <3>1. quiz_questions'[i] = [quiz_questions[i] EXCEPT !.state = "answered"]
      BY <2>3 DEF QuestionAnswered
    <3> QED
      BY <2>1, <3>1 DEF QuestionRow
  <2>4. CASE ~QuestionMoves(i) /\ ~QuestionAnswered(i)
    <3>1. \/ quiz_questions'[i] = quiz_questions[i]
          \/ quiz_questions'[i] = [quiz_questions[i] EXCEPT !.state = "retired"]
      BY <2>1, <2>4, QuestionAfter, Zenon
    <3> QED
      BY <2>1, <3>1 DEF QuestionRow
  <2> QED
    BY <2>2, <2>3, <2>4
<1>3. ASSUME NEW r \in DOMAIN quiz_responses
      PROVE  quiz_responses'[r] = [quiz_responses[r] EXCEPT
                 !.assessment = quiz_responses'[r].assessment]
  <2>1. quiz_responses[r] \in ResponseRow
    BY RowFields
  <2>2. CASE ResponseRegraded(r)
    BY <2>2 DEF ResponseRegraded
  <2>3. CASE ~ResponseRegraded(r)
    <3>1. quiz_responses'[r] = quiz_responses[r]
      BY <2>3 DEF StepKind, NothingMoves, QuizStarts, QuestionMoves, QuestionAdded,
         SessionMoves, QuestionAnswered, ResponseRegraded, ResponsesKept
    <3> QED
      BY <2>1, <3>1 DEF ResponseRow
  <2> QED
    BY <2>2, <2>3
<1> QED
  BY <1>1, <1>2, <1>3

(* Snapshots are immutable but for their states: no command, of the bank   *)
(* or of the quiz, changes what a question asks or what was answered when. *)
THEOREM Kept == Spec => RowsKept
<1>1. TypeOK /\ [Next]_vars =>
        /\ \A s \in Quizzes :
               quiz_sessions'[s] = [quiz_sessions[s] EXCEPT
                   !.state = quiz_sessions'[s].state,
                   !.completed_at = quiz_sessions'[s].completed_at]
        /\ \A i \in DOMAIN quiz_questions :
               quiz_questions'[i] = [quiz_questions[i] EXCEPT
                   !.state = quiz_questions'[i].state,
                   !.asked_at = quiz_questions'[i].asked_at]
        /\ \A r \in DOMAIN quiz_responses :
               quiz_responses'[r] = [quiz_responses[r] EXCEPT
                   !.assessment = quiz_responses'[r].assessment]
        /\ \A l \in DOMAIN learning_records :
               learning_records'[l] = learning_records[l]
  BY StepKinds, StepKeepsRows, LearningRows
<1> QED
  BY <1>1, TypeCorrect, PTL DEF Spec, RowsKept

-----------------------------------------------------------------------------
(* The quiz of a response after a step.                                    *)
QuizAfter(response) == quiz_questions'[quiz_responses'[response].question_id].quiz_id

(* The quiz of a response stays the quiz of its question.                  *)
LEMMA QuizOfKept ==
    ASSUME TypeOK, StepKind, NEW r \in DOMAIN quiz_responses
    PROVE  /\ r \in DOMAIN quiz_responses'
           /\ quiz_responses'[r].question_id = quiz_responses[r].question_id
           /\ quiz_responses'[r].attempt_number = quiz_responses[r].attempt_number
           /\ QuizAfter(r) = QuizOf(r)
<1>1. quiz_responses[r] \in ResponseRow /\ quiz_responses[r].question_id \in DOMAIN quiz_questions
  BY RowFields, QuizOfType
<1>2. r \in DOMAIN quiz_responses'
  BY DEF StepKind, NothingMoves, QuizStarts, QuestionMoves, QuestionAdded, SessionMoves,
     QuestionAnswered, ResponseRegraded
<1>3. /\ quiz_responses'[r].question_id = quiz_responses[r].question_id
      /\ quiz_responses'[r].attempt_number = quiz_responses[r].attempt_number
  <2>1. quiz_responses'[r] =
            [quiz_responses[r] EXCEPT !.assessment = quiz_responses'[r].assessment]
    BY StepKeepsRows
  <2> QED
    BY <1>1, <2>1 DEF ResponseRow
<1>4. quiz_questions'[quiz_responses[r].question_id].quiz_id =
          quiz_questions[quiz_responses[r].question_id].quiz_id
  BY <1>1, QuizOfQuestion
<1> QED
  BY <1>2, <1>3, <1>4 DEF QuizOf, QuizAfter

(* A learning record that a step adds agrees with its links.               *)
LEMMA NewEvidence ==
    ASSUME TypeOK, [Next]_vars, TypeOK'
    PROVE  \/ UNCHANGED learning_records
           \/ \E record :
                /\ learning_records' = Append(learning_records, record)
                /\ record.quiz_response_id # NULL =>
                       record.quiz_id = QuizAfter(record.quiz_response_id)
                /\ record.source_type = "quiz" <=> record.quiz_id # NULL
<1>1. \/ UNCHANGED learning_records
      \/ \E source_type \in SourceType, quiz \in Quizzes \cup {NULL},
            response \in DOMAIN quiz_responses \cup {NULL} :
             LearningAdd(source_type, quiz, response)
      \/ \E i \in DOMAIN quiz_questions, assessment \in Assessment :
             ResponseSubmit(i, assessment, TRUE)
  <2>1. CASE BankCommand \/ Tick \/ UNCHANGED vars
    BY <2>1 DEF BankCommand, Tick, vars, quiz_vars, quiz_tables
  <2>2. ASSUME NEW quiz, SessionCommand(quiz)
        PROVE  UNCHANGED learning_records
    BY <2>2 DEF SessionCommand, QuizNext, NextAlreadyAsked, NextAsks, QuizDefer, QuizRequeue,
       QuestionStateChange, QuizFollowUp, QuizPause, QuizResume, QuizComplete, QuizAbandon,
       quiz_vars, quiz_tables
  <2>3. ASSUME NEW t, NEW requested, QuizStart(t, requested)
        PROVE  UNCHANGED learning_records
    BY <2>3 DEF QuizStart, StartExisting, CreateSnapshot, quiz_vars, quiz_tables
  <2>4. ASSUME NEW response, NEW assessment, ResponseRegrade(response, assessment)
        PROVE  UNCHANGED learning_records
    BY <2>4 DEF ResponseRegrade
  <2>5. ASSUME NEW i, NEW assessment, ResponseSubmit(i, assessment, FALSE)
        PROVE  UNCHANGED learning_records
    BY <2>5 DEF ResponseSubmit
  <2> QED
    BY <2>1, <2>2, <2>3, <2>4, <2>5 DEF Next, QuizCommand
<1>2. ASSUME NEW source_type \in SourceType, NEW quiz \in Quizzes \cup {NULL},
             NEW response \in DOMAIN quiz_responses \cup {NULL},
             LearningAdd(source_type, quiz, response)
      PROVE  \E record :
                /\ learning_records' = Append(learning_records, record)
                /\ record.quiz_response_id # NULL =>
                       record.quiz_id = QuizAfter(record.quiz_response_id)
                /\ record.source_type = "quiz" <=> record.quiz_id # NULL
  <2> DEFINE record == LearningRecord(source_type, quiz, response)
  <2>1. learning_records' = Append(learning_records, record)
    BY <1>2 DEF LearningAdd
  <2>2. /\ record.quiz_response_id = response
        /\ record.source_type = source_type
        /\ record.quiz_id = IF quiz = NULL THEN DerivedQuiz(response) ELSE quiz
    BY DEF LearningRecord
  <2>3. /\ quiz # NULL /\ response # NULL => DerivedQuiz(response) = quiz
        /\ source_type = "quiz" <=> quiz # NULL \/ response # NULL
    BY <1>2 DEF LearningAdd, LearningLinksAgree
  <2>4. response # NULL => /\ DerivedQuiz(response) = QuizOf(response)
                           /\ QuizOf(response) # NULL
                           /\ QuizAfter(response) = QuizOf(response)
    <3>1. response # NULL => QuizOf(response) \in Quizzes
      BY QuizOfType
    <3>2. UNCHANGED <<quiz_questions, quiz_responses>>
      BY <1>2 DEF LearningAdd
    <3> QED
      BY <3>1, <3>2, TablesAreFunctions DEF DerivedQuiz, QuizOf, QuizAfter, NULL
  <2>5. response = NULL => DerivedQuiz(response) = NULL
    BY DEF DerivedQuiz
  <2>6. record.quiz_response_id # NULL => record.quiz_id = QuizAfter(record.quiz_response_id)
    BY <2>2, <2>3, <2>4
  <2>7. record.source_type = "quiz" <=> record.quiz_id # NULL
    BY <2>2, <2>3, <2>4, <2>5
  <2> HIDE DEF record
  <2> QED
    BY <2>1, <2>6, <2>7
<1>3. ASSUME NEW i \in DOMAIN quiz_questions, NEW assessment \in Assessment,
             ResponseSubmit(i, assessment, TRUE)
      PROVE  \E record :
                /\ learning_records' = Append(learning_records, record)
                /\ record.quiz_response_id # NULL =>
                       record.quiz_id = QuizAfter(record.quiz_response_id)
                /\ record.source_type = "quiz" <=> record.quiz_id # NULL
  <2> DEFINE quiz == quiz_questions[i].quiz_id
             response == NextId(quiz_responses)
             record == LearningRecord("quiz", quiz, response)
  <2>1. learning_records' = Append(learning_records, record)
    BY <1>3 DEF ResponseSubmit
  <2>2. quiz # NULL
    BY TablesAreFunctions DEF QuestionRow, NULL
  <2>3. /\ record.quiz_response_id = response
        /\ record.source_type = "quiz"
        /\ record.quiz_id = quiz
    BY <2>2 DEF LearningRecord
  <2>4. QuizAfter(response) = quiz
    <3>1. quiz_responses'[response].question_id = i
      <4>1. PICK row : /\ quiz_responses' = Append(quiz_responses, row)
                       /\ row.question_id = i
        <5>1. \E attempt : quiz_responses' = Append(quiz_responses,
                  [question_id |-> i, attempt_number |-> attempt,
                   answered_at |-> now, assessment |-> assessment])
          BY <1>3 DEF ResponseSubmit
        <5> QED
          BY <5>1
      <4> QED
        BY <4>1 DEF NextId, TypeOK
    <3>2. quiz_questions' = [quiz_questions EXCEPT ![i].state = "answered"]
      BY <1>3 DEF ResponseSubmit
    <3>3. quiz_questions'[i].quiz_id = quiz
      BY <3>2, TablesAreFunctions DEF QuestionRow
    <3> QED
      BY <3>1, <3>3 DEF QuizAfter
  <2> HIDE DEF record, quiz, response
  <2> QED
    BY <2>1, <2>2, <2>3, <2>4
<1> QED
  BY <1>1, <1>2, <1>3

LEMMA StepKeepsLinks ==
    ASSUME TypeOK, TypeOK', EvidenceLinksAgree, [Next]_vars
    PROVE  EvidenceLinksAgree'
<1> SUFFICES ASSUME NEW l \in DOMAIN learning_records'
             PROVE  LET record == learning_records'[l]
                    IN  /\ record.quiz_response_id # NULL =>
                               record.quiz_id = QuizAfter(record.quiz_response_id)
                        /\ record.source_type = "quiz" <=> record.quiz_id # NULL
  BY DEF EvidenceLinksAgree, QuizOf, QuizAfter
<1>1. CASE l \in DOMAIN learning_records
  <2>1. learning_records'[l] = learning_records[l]
    BY <1>1, LearningRows
  <2>2. learning_records[l].quiz_response_id \in DOMAIN quiz_responses \cup {NULL}
    <3>1. learning_records[l] \in LearningRow
      BY <1>1 DEF TypeOK
    <3> QED
      BY <3>1 DEF LearningRow
  <2> QED
    BY <1>1, <2>1, <2>2, StepKinds, QuizOfKept DEF EvidenceLinksAgree
<1>2. CASE l \notin DOMAIN learning_records
  <2>1. PICK record : /\ learning_records' = Append(learning_records, record)
                      /\ record.quiz_response_id # NULL =>
                             record.quiz_id = QuizAfter(record.quiz_response_id)
                      /\ record.source_type = "quiz" <=> record.quiz_id # NULL
    BY <1>2, NewEvidence
  <2>2. learning_records'[l] = record
    BY <1>2, <2>1 DEF TypeOK
  <2> QED
    BY <2>1, <2>2
<1> QED
  BY <1>1, <1>2

(* Evidence agrees with its links: a record linked to a response names the *)
(* quiz of that response, whether learning add was given the quiz, derived *)
(* it, or response submit wrote the record; and no row that a record is    *)
(* linked to moves to another quiz later.                                  *)
THEOREM LinksAgree == Spec => []EvidenceLinksAgree
<1>1. Init => EvidenceLinksAgree
  BY DEF Init, EvidenceLinksAgree
<1>2. TypeOK /\ TypeOK' /\ EvidenceLinksAgree /\ [Next]_vars => EvidenceLinksAgree'
  BY StepKeepsLinks
<1> QED
  BY <1>1, <1>2, TypeCorrect, PTL DEF Spec

-----------------------------------------------------------------------------
(* The responses up to one, and that they are finitely many.               *)
UpTo(i, r) == {o \in ResponsesTo(i) : o <= r}

LEMMA FewResponses ==
    ASSUME TypeOK, NEW S \in SUBSET DOMAIN quiz_responses
    PROVE  IsFiniteSet(S) /\ Cardinality(S) \in Nat
<1>1. IsFiniteSet(DOMAIN quiz_responses)
  <2>1. Len(quiz_responses) \in Int /\ DOMAIN quiz_responses = 1..Len(quiz_responses)
    BY TablesAreFunctions
  <2>2. IsFiniteSet(1..Len(quiz_responses))
    BY <2>1, FS_Interval
  <2> QED
    BY <2>1, <2>2
<1> QED
  BY <1>1, FS_Subset, FS_CardinalityType

(* The next attempt number counts the attempts.                            *)
LEMMA NextAttemptCounts ==
    ASSUME TypeOK, AttemptsNumbered, NEW i \in DOMAIN quiz_questions,
           NEW attempt \in Nat, IsNextAttempt(i, attempt)
    PROVE  attempt = Cardinality(ResponsesTo(i)) + 1
<1>1. /\ ResponsesTo(i) \subseteq DOMAIN quiz_responses
      /\ DOMAIN quiz_responses \subseteq Nat
      /\ \A r \in ResponsesTo(i) : quiz_responses[r].attempt_number \in Nat \ {0}
  BY TablesAreFunctions DEF ResponsesTo, ResponseRow
<1>2. CASE attempt = 1
  <2>1. ResponsesTo(i) = {}
    BY <1>1, <1>2 DEF IsNextAttempt
  <2> QED
    BY <1>2, <2>1, FS_EmptySet
<1>3. ASSUME NEW r \in ResponsesTo(i), quiz_responses[r].attempt_number = attempt - 1
      PROVE  attempt = Cardinality(ResponsesTo(i)) + 1
  <2>1. ASSUME NEW o \in ResponsesTo(i), o > r
        PROVE  FALSE
    <3>1. /\ UpTo(i, r) \subseteq UpTo(i, o)
          /\ UpTo(i, r) # UpTo(i, o)
      BY <1>1, <2>1 DEF UpTo
    <3>2. IsFiniteSet(UpTo(i, o)) /\ Cardinality(UpTo(i, o)) \in Nat
      BY <1>1, FewResponses DEF UpTo
    <3>3. Cardinality(UpTo(i, r)) < Cardinality(UpTo(i, o)) /\ Cardinality(UpTo(i, r)) \in Nat
      BY <3>1, <3>2, FS_Subset, FS_CardinalityType
    <3>4. /\ quiz_responses[r].attempt_number = Cardinality(UpTo(i, r))
          /\ quiz_responses[o].attempt_number = Cardinality(UpTo(i, o))
          /\ quiz_responses[o].attempt_number < attempt
      BY DEF AttemptsNumbered, UpTo, IsNextAttempt
    <3> QED
      BY <1>3, <3>2, <3>3, <3>4
  <2>2. UpTo(i, r) = ResponsesTo(i)
    BY <1>1, <2>1 DEF UpTo
  <2>3. quiz_responses[r].attempt_number = Cardinality(UpTo(i, r))
    BY DEF AttemptsNumbered, UpTo
  <2> QED
    BY <1>1, <1>3, <2>2, <2>3
<1> QED
  BY <1>2, <1>3 DEF IsNextAttempt

LEMMA StepKeepsAttempts ==
    ASSUME TypeOK, TypeOK', AttemptsNumbered, StepKind
    PROVE  AttemptsNumbered'
<1> SUFFICES ASSUME NEW i \in DOMAIN quiz_questions', NEW r \in ResponsesTo(i)'
             PROVE  quiz_responses'[r].attempt_number = Cardinality(UpTo(i, r)')
  BY DEF AttemptsNumbered, UpTo
<1>1. r \in ResponsesTo(i) => i \in DOMAIN quiz_questions /\ r \in DOMAIN quiz_responses
  BY TablesAreFunctions DEF ResponsesTo, ResponseRow
<1>2. r \in ResponsesTo(i) =>
        /\ quiz_responses'[r].attempt_number = quiz_responses[r].attempt_number
        /\ quiz_responses[r].attempt_number = Cardinality(UpTo(i, r))
  BY <1>1, QuizOfKept DEF AttemptsNumbered, UpTo
<1>3. CASE ~QuestionAnswered(i)
  <2>1. ResponsesTo(i)' = ResponsesTo(i)
    BY <1>3, ResponsesAfter
  <2> QED
    BY <1>2, <2>1 DEF UpTo
<1>4. CASE QuestionAnswered(i)
  <2> DEFINE new == Len(quiz_responses) + 1
  <2>1. ResponsesTo(i)' = ResponsesTo(i) \cup {new}
    BY <1>4, ResponsesAfter
  <2>2. ResponsesTo(i) \subseteq DOMAIN quiz_responses /\ \A o \in DOMAIN quiz_responses : o < new
    BY TablesAreFunctions DEF ResponsesTo
  <2>3. CASE r \in ResponsesTo(i)
    <3>1. UpTo(i, r)' = UpTo(i, r)
      BY <2>1, <2>2, <2>3, TablesAreFunctions DEF UpTo
    <3> QED
      BY <1>2, <2>3, <3>1
  <2>4. CASE r = new
    <3>1. UpTo(i, r)' = ResponsesTo(i) \cup {new}
      BY <2>1, <2>2, <2>4, TablesAreFunctions DEF UpTo
    <3>2. IsFiniteSet(ResponsesTo(i)) /\ new \notin ResponsesTo(i)
      BY <2>2, FewResponses
    <3>3. Cardinality(ResponsesTo(i) \cup {new}) = Cardinality(ResponsesTo(i)) + 1
      BY <3>2, FS_AddElement
    <3>4. /\ i \in DOMAIN quiz_questions
          /\ quiz_responses'[new].attempt_number \in Nat
          /\ IsNextAttempt(i, quiz_responses'[new].attempt_number)
      BY <1>4 DEF QuestionAnswered
    <3>5. quiz_responses'[new].attempt_number = Cardinality(ResponsesTo(i)) + 1
      BY <3>4, NextAttemptCounts
    <3> QED
      BY <2>4, <3>1, <3>3, <3>5
  <2> QED
    BY <2>1, <2>3, <2>4
<1> QED
  BY <1>3, <1>4

(* The attempts at a question are numbered without a gap in the order they *)
(* were submitted: the number response submit takes, one more than the     *)
(* greatest, is one more than the number of attempts.                      *)
THEOREM Numbered == Spec => []AttemptsNumbered
<1>1. Init => AttemptsNumbered
  BY DEF Init, AttemptsNumbered
<1>2. TypeOK /\ TypeOK' /\ AttemptsNumbered /\ [Next]_vars => AttemptsNumbered'
  BY StepKinds, StepKeepsAttempts
<1> QED
  BY <1>1, <1>2, TypeCorrect, PTL DEF Spec
==============================================================================
