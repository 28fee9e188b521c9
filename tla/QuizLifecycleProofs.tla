------------------------- MODULE QuizLifecycleProofs -------------------------
(***************************************************************************)
(* Proofs about QuizLifecycle, for every bank, every template and every    *)
(* bound: its tables are well typed, at most one question of a quiz is     *)
(* asked, at most one session of a template is live, and a terminal quiz   *)
(* is resolved.                                                            *)
(***************************************************************************)
EXTENDS QuizLifecycle, QuestionBankProofs, SequenceTheorems, FiniteSetTheorems, TLAPS

-----------------------------------------------------------------------------
(* Tables as sequences.                                                    *)

(* A function over 1..n is a sequence of length n.                         *)
LEMMA FunctionIsSeq ==
    ASSUME NEW S, NEW n \in Nat, NEW f \in [1..n -> S]
    PROVE  f \in Seq(S) /\ Len(f) = n /\ DOMAIN f = 1..n
<1>1. f \in Seq(S)
  BY SeqDef
<1>2. Len(f) \in Nat /\ DOMAIN f = 1..Len(f)
  BY <1>1, LenProperties
<1>3. DOMAIN f = 1..n
  OBVIOUS
<1>4. Len(f) = n
  BY <1>2, <1>3
<1> QED
  BY <1>1, <1>3, <1>4

(* INSERT adds the last row of a table and keeps the others.               *)
LEMMA AppendRow ==
    ASSUME NEW S, NEW table \in Seq(S), NEW row \in S
    PROVE  /\ Append(table, row) \in Seq(S)
           /\ Len(Append(table, row)) = Len(table) + 1
           /\ DOMAIN Append(table, row) = DOMAIN table \cup {Len(table) + 1}
           /\ Append(table, row)[Len(table) + 1] = row
           /\ \A i \in DOMAIN table :
                  i # Len(table) + 1 /\ Append(table, row)[i] = table[i]
<1>1. Len(table) \in Nat /\ DOMAIN table = 1..Len(table)
  BY LenProperties
<1>2. /\ Append(table, row) \in Seq(S)
      /\ Len(Append(table, row)) = Len(table) + 1
      /\ Append(table, row)[Len(table) + 1] = row
      /\ \A i \in 1..Len(table) : Append(table, row)[i] = table[i]
  BY <1>1
<1>3. DOMAIN Append(table, row) = 1..(Len(table) + 1)
  BY <1>2, LenProperties
<1> QED
  BY <1>1, <1>2, <1>3

(* A bulk INSERT adds rows at the end of a table and keeps the others.     *)
LEMMA ConcatRows ==
    ASSUME NEW S, NEW table \in Seq(S), NEW n \in Nat, NEW rows \in [1..n -> S]
    PROVE  /\ table \o rows \in Seq(S)
           /\ Len(table \o rows) = Len(table) + n
           /\ DOMAIN (table \o rows) = 1..(Len(table) + n)
           /\ DOMAIN table = 1..Len(table)
           /\ \A i \in DOMAIN table : (table \o rows)[i] = table[i]
           /\ \A i \in DOMAIN (table \o rows) \ DOMAIN table :
                  i - Len(table) \in 1..n /\ (table \o rows)[i] = rows[i - Len(table)]
<1>1. rows \in Seq(S) /\ Len(rows) = n
  BY FunctionIsSeq
<1>2. Len(table) \in Nat /\ DOMAIN table = 1..Len(table)
  BY LenProperties
<1>3. /\ table \o rows \in Seq(S)
      /\ Len(table \o rows) = Len(table) + n
      /\ \A i \in 1..(Len(table) + n) :
             (table \o rows)[i] =
                 IF i <= Len(table) THEN table[i] ELSE rows[i - Len(table)]
  BY <1>1, ConcatProperties
<1>4. DOMAIN (table \o rows) = 1..(Len(table) + n)
  BY <1>3, LenProperties
<1> QED
  BY <1>2, <1>3, <1>4

-----------------------------------------------------------------------------
(* Rows.                                                                   *)

(* What TypeOK says of the tables, as functions over their ids.            *)
LEMMA TablesAreFunctions ==
    ASSUME TypeOK
    PROVE  /\ Len(quiz_sessions) \in Nat /\ Len(quiz_questions) \in Nat
           /\ Len(quiz_responses) \in Nat /\ Len(learning_records) \in Nat
           /\ Quizzes = 1..Len(quiz_sessions)
           /\ DOMAIN quiz_questions = 1..Len(quiz_questions)
           /\ DOMAIN quiz_responses = 1..Len(quiz_responses)
           /\ quiz_sessions \in [Quizzes -> SessionRow]
           /\ quiz_questions \in [DOMAIN quiz_questions -> QuestionRow]
           /\ quiz_responses \in [DOMAIN quiz_responses -> ResponseRow]
<1> USE DEF TypeOK, Quizzes
<1>1. Len(quiz_sessions) \in Nat /\ quiz_sessions \in [1..Len(quiz_sessions) -> SessionRow]
  BY LenProperties
<1>2. Len(quiz_questions) \in Nat /\ quiz_questions \in [1..Len(quiz_questions) -> QuestionRow]
  BY LenProperties
<1>3. Len(quiz_responses) \in Nat /\ quiz_responses \in [1..Len(quiz_responses) -> ResponseRow]
  BY LenProperties
<1>4. Len(learning_records) \in Nat
  BY LenProperties
<1> QED
  BY <1>1, <1>2, <1>3, <1>4

(* A row of a child table stays one while its parent table grows.          *)
LEMMA ForeignKeysKept ==
    ASSUME Quizzes \subseteq Quizzes',
           DOMAIN quiz_questions \subseteq (DOMAIN quiz_questions)',
           DOMAIN quiz_responses \subseteq (DOMAIN quiz_responses)'
    PROVE  /\ QuestionRow \subseteq QuestionRow'
           /\ ResponseRow \subseteq ResponseRow'
           /\ LearningRow \subseteq LearningRow'
<1>1. QuestionRow \subseteq QuestionRow'
  BY DEF QuestionRow
<1>2. ResponseRow \subseteq ResponseRow'
  BY DEF ResponseRow
<1>3. LearningRow \subseteq LearningRow'
  BY DEF LearningRow
<1> QED
  BY <1>1, <1>2, <1>3

(* The UPDATE of a question's state and asked_at.                          *)
LEMMA QuestionUpdate ==
    ASSUME TypeOK, NEW i \in DOMAIN quiz_questions,
           NEW state \in QuestionState, NEW asked_at \in BOOLEAN,
           NEW table,
           table = [quiz_questions EXCEPT ![i].state = state, ![i].asked_at = asked_at]
    PROVE  /\ table \in Seq(QuestionRow)
           /\ DOMAIN table = DOMAIN quiz_questions
           /\ Len(table) = Len(quiz_questions)
           /\ \A j \in DOMAIN quiz_questions :
                  table[j] = IF j = i
                             THEN [quiz_questions[j] EXCEPT !.state = state, !.asked_at = asked_at]
                             ELSE quiz_questions[j]
<1>1. /\ Len(quiz_questions) \in Nat
      /\ DOMAIN quiz_questions = 1..Len(quiz_questions)
      /\ quiz_questions \in [DOMAIN quiz_questions -> QuestionRow]
  BY TablesAreFunctions
<1> DEFINE row == [quiz_questions[i] EXCEPT !.state = state, !.asked_at = asked_at]
<1>2. row \in QuestionRow
  BY <1>1 DEF QuestionRow
<1>3. table = [quiz_questions EXCEPT ![i] = row]
  BY <1>1 DEF QuestionRow
<1>4. table \in [DOMAIN quiz_questions -> QuestionRow]
  BY <1>1, <1>2, <1>3
<1>5. table \in [1..Len(quiz_questions) -> QuestionRow]
  BY <1>1, <1>4
<1>6. table \in Seq(QuestionRow) /\ Len(table) = Len(quiz_questions)
  <2> HIDE DEF row
  <2> QED  BY <1>1, <1>5, FunctionIsSeq, Zenon
<1> QED
  BY <1>1, <1>3, <1>4, <1>6

-----------------------------------------------------------------------------
(* Type correctness, action by action.                                     *)

(* A command that leaves the tables of quizzes keeps their types.          *)
LEMMA QuizTablesKept ==
    ASSUME TypeOK, BankTypeOK', UNCHANGED <<quiz_tables, event_tables>>, now' \in Nat
    PROVE  TypeOK'
BY DEF TypeOK, quiz_tables, event_tables, Quizzes, QuestionRow, ResponseRow, LearningRow

(* The state before the first command is well typed.                       *)
LEMMA InitType == Init => TypeOK
<1> SUFFICES ASSUME Init PROVE TypeOK
  OBVIOUS
<1>1. BankTypeOK
  BY BankInitType DEF Init
<1>2. \A S : <<>> \in Seq(S)
  BY EmptySeq
<1>3. \A S : <<>> \in [DOMAIN <<>> -> S]
  OBVIOUS
<1> QED
  BY <1>1, <1>2, <1>3 DEF Init, TypeOK, Quizzes

(* The number of questions a template gives is a number.                   *)
LEMMA SelectionSizeType ==
    ASSUME TypeOK, NEW t \in Template, NEW limit \in Nat
    PROVE  SelectionSize(t, limit) \in Nat /\ Candidates(t) \subseteq Bank
<1>1. Candidates(t) \subseteq Bank
  BY DEF TypeOK, BankTypeOK, Candidates
<1>2. IsFiniteSet(Candidates(t))
  BY <1>1, BankAssumption, FS_Subset
<1>3. Cardinality(Candidates(t)) \in Nat
  BY <1>2, FS_CardinalityType
<1> QED
  BY <1>1, <1>3 DEF SelectionSize

(* The questions quiz start selects are a sequence of bank questions.      *)
LEMMA SelectedType ==
    ASSUME TypeOK, NEW t \in Template, NEW limit \in Nat,
           NEW selected \in select_template_questions(t, limit)
    PROVE  /\ Len(selected) \in Nat
           /\ DOMAIN selected = 1..Len(selected)
           /\ \A i \in 1..Len(selected) : selected[i] \in Candidates(t) /\ selected[i] \in Bank
<1> DEFINE n == SelectionSize(t, limit)
<1>1. n \in Nat /\ Candidates(t) \subseteq Bank
  BY SelectionSizeType
<1>2. selected \in [1..n -> Candidates(t)]
  BY DEF select_template_questions
<1> HIDE DEF n
<1>3. Len(selected) = n /\ DOMAIN selected = 1..n
  BY <1>1, <1>2, FunctionIsSeq
<1> QED
  BY <1>1, <1>2, <1>3

(* A snapshot's questions are planned rows of the new session.             *)
LEMMA BaseQuestionType ==
    ASSUME TypeOK, NEW quiz \in Quizzes', NEW position \in Nat \ {0}, NEW bank \in Bank
    PROVE  BaseQuestion(quiz, position, bank) \in QuestionRow'
<1>1. question_bank[bank] \in Question /\ ConceptOf[bank] \in Concept
  BY BankAssumption DEF TypeOK, BankTypeOK
<1>2. question_bank[bank].revision \in Nat
  BY <1>1, BankAssumption DEF Question
<1> QED
  BY <1>1, <1>2 DEF BaseQuestion, QuestionRow, QuestionState

(* What create_quiz_snapshot adds: one session, and its planned questions  *)
(* after those that were there.                                            *)
LEMMA SnapshotRows ==
    ASSUME TypeOK, NEW t \in Template, NEW limit \in Nat, CreateSnapshot(t, limit)
    PROVE  /\ quiz_sessions' \in Seq(SessionRow)
           /\ Quizzes' = Quizzes \cup {Len(quiz_sessions) + 1}
           /\ Len(quiz_sessions) + 1 \notin Quizzes
           /\ \A s \in Quizzes : quiz_sessions'[s] = quiz_sessions[s]
           /\ quiz_sessions'[Len(quiz_sessions) + 1].template_id = t
           /\ quiz_sessions'[Len(quiz_sessions) + 1].state = "in_progress"
           /\ quiz_sessions'[Len(quiz_sessions) + 1].completed_at = FALSE
           /\ quiz_questions' \in Seq(QuestionRow')
           /\ DOMAIN quiz_questions \subseteq (DOMAIN quiz_questions)'
           /\ \A i \in DOMAIN quiz_questions : quiz_questions'[i] = quiz_questions[i]
           /\ \A i \in (DOMAIN quiz_questions)' \ DOMAIN quiz_questions :
                  /\ quiz_questions'[i].state = "planned"
                  /\ quiz_questions'[i].quiz_id = Len(quiz_sessions) + 1
           /\ session_events' \in [Quizzes' -> SessionEvent]
           /\ question_events' \in [(DOMAIN quiz_questions)' -> QuestionEvent]
<1> DEFINE quiz == Len(quiz_sessions) + 1
<1>1. PICK selected \in select_template_questions(t, limit) :
        /\ quiz_sessions' = Append(quiz_sessions, StartedSession(t, selected))
        /\ quiz_questions' = quiz_questions \o
               [i \in 1..Len(selected) |-> BaseQuestion(quiz, i, selected[i])]
        /\ session_events' = Append(session_events,
               [event |-> "start", from |-> "planned", to |-> "in_progress"])
        /\ question_events' = question_events \o [i \in 1..Len(selected) |-> NoEvent]
  BY DEF CreateSnapshot, NextId
<1> DEFINE n == Len(selected)
           base == [i \in 1..n |-> BaseQuestion(quiz, i, selected[i])]
<1>2. /\ n \in Nat /\ DOMAIN selected = 1..n
      /\ \A i \in 1..n : selected[i] \in Bank
  BY SelectedType
<1>3. StartedSession(t, selected) \in SessionRow
  BY <1>2, BankAssumption DEF StartedSession, SessionRow, SessionState
<1>4. /\ quiz_sessions \in Seq(SessionRow) /\ Len(quiz_sessions) \in Nat
      /\ Quizzes = 1..Len(quiz_sessions)
  BY TablesAreFunctions DEF TypeOK
<1>5. /\ quiz_sessions' \in Seq(SessionRow)
      /\ Len(quiz_sessions') = quiz
      /\ Quizzes' = Quizzes \cup {quiz}
      /\ quiz \notin Quizzes
      /\ quiz_sessions'[quiz] = StartedSession(t, selected)
      /\ \A s \in Quizzes : quiz_sessions'[s] = quiz_sessions[s]
  BY <1>1, <1>3, <1>4, AppendRow DEF Quizzes
<1>6. QuestionRow \subseteq QuestionRow'
  BY <1>5 DEF QuestionRow
<1>7. quiz_questions \in Seq(QuestionRow') /\ Len(quiz_questions) \in Nat
      /\ DOMAIN quiz_questions = 1..Len(quiz_questions)
  BY <1>6, SeqMonotonic, TablesAreFunctions DEF TypeOK
<1>8. base \in [1..n -> QuestionRow']
  BY <1>2, <1>5, BaseQuestionType
<1>9. \A i \in 1..n : base[i].state = "planned" /\ base[i].quiz_id = quiz
  BY DEF BaseQuestion
<1>10. quiz_questions' = quiz_questions \o base
  BY <1>1
<1> HIDE DEF base, n
<1>11. /\ quiz_questions' \in Seq(QuestionRow')
       /\ DOMAIN quiz_questions' = 1..(Len(quiz_questions) + n)
       /\ \A i \in DOMAIN quiz_questions : quiz_questions'[i] = quiz_questions[i]
       /\ \A i \in DOMAIN quiz_questions' \ DOMAIN quiz_questions :
              i - Len(quiz_questions) \in 1..n /\ quiz_questions'[i] = base[i - Len(quiz_questions)]
  <2> DEFINE Row == QuestionRow'
  <2>1. quiz_questions \in Seq(Row) /\ base \in [1..n -> Row]
    BY <1>7, <1>8
  <2> HIDE DEF Row
  <2>2. quiz_questions \o base \in Seq(Row)
    BY <1>2, <2>1, ConcatRows
  <2>3. DOMAIN (quiz_questions \o base) = 1..(Len(quiz_questions) + n)
    BY <1>2, <2>1, ConcatRows
  <2>4. \A i \in DOMAIN quiz_questions : (quiz_questions \o base)[i] = quiz_questions[i]
    BY <1>2, <2>1, ConcatRows
  <2>5. \A i \in DOMAIN (quiz_questions \o base) \ DOMAIN quiz_questions :
            i - Len(quiz_questions) \in 1..n
            /\ (quiz_questions \o base)[i] = base[i - Len(quiz_questions)]
    BY <1>2, <2>1, ConcatRows
  <2> QED
    BY <1>10, <2>2, <2>3, <2>4, <2>5 DEF Row
<1>12. session_events' \in [Quizzes' -> SessionEvent]
  <2> DEFINE started == [event |-> "start", from |-> "planned", to |-> "in_progress"]
  <2>1. session_events \in [1..Len(quiz_sessions) -> SessionEvent]
    BY <1>4 DEF TypeOK
  <2>2. session_events \in Seq(SessionEvent) /\ Len(session_events) = Len(quiz_sessions)
    BY <1>4, <2>1, FunctionIsSeq
  <2>3. started \in SessionEvent
    BY DEF SessionEvent, SessionState
  <2>4. session_events' = Append(session_events, started)
    BY <1>1
  <2> HIDE DEF started
  <2>5. session_events' \in Seq(SessionEvent) /\ Len(session_events') = quiz
    BY <2>2, <2>3, <2>4, AppendRow
  <2> QED
    BY <1>4, <1>5, <2>5, LenProperties
<1>13. question_events' \in [DOMAIN quiz_questions' -> QuestionEvent]
  <2> DEFINE events == [i \in 1..n |-> NoEvent]
  <2>1. question_events \in [1..Len(quiz_questions) -> QuestionEvent]
    BY <1>7 DEF TypeOK
  <2>2. question_events \in Seq(QuestionEvent) /\ Len(question_events) = Len(quiz_questions)
    BY <1>7, <2>1, FunctionIsSeq
  <2>3. events \in [1..n -> QuestionEvent]
    BY DEF NoEvent, QuestionEvent
  <2>4. question_events' = question_events \o events
    BY <1>1 DEF n
  <2> HIDE DEF events
  <2>5. question_events' \in Seq(QuestionEvent)
        /\ Len(question_events') = Len(quiz_questions) + n
    BY <1>2, <2>2, <2>3, <2>4, ConcatRows
  <2> QED
    BY <1>11, <2>5, LenProperties
<1>14. DOMAIN quiz_questions \subseteq DOMAIN quiz_questions'
  BY <1>2, <1>7, <1>11
<1>15. \A i \in DOMAIN quiz_questions' \ DOMAIN quiz_questions :
           quiz_questions'[i].state = "planned" /\ quiz_questions'[i].quiz_id = quiz
  BY <1>9, <1>11
<1>16. /\ quiz_sessions'[quiz].template_id = t
       /\ quiz_sessions'[quiz].state = "in_progress"
       /\ quiz_sessions'[quiz].completed_at = FALSE
  BY <1>5 DEF StartedSession
<1> QED
  BY <1>5, <1>11, <1>12, <1>13, <1>14, <1>15, <1>16

(* A new snapshot is well typed.                                           *)
LEMMA SnapshotType ==
    ASSUME TypeOK, NEW t \in Template, NEW limit \in Nat, CreateSnapshot(t, limit)
    PROVE  TypeOK'
<1>1. /\ quiz_sessions' \in Seq(SessionRow')
      /\ quiz_questions' \in Seq(QuestionRow')
      /\ session_events' \in [Quizzes' -> SessionEvent']
      /\ question_events' \in [(DOMAIN quiz_questions)' -> QuestionEvent']
  BY SnapshotRows DEF SessionRow, SessionEvent, QuestionEvent
<1>2. /\ UNCHANGED <<question_bank, quiz_templates, quiz_responses, learning_records,
                     response_events, now>>
  BY DEF CreateSnapshot
<1>3. Quizzes \subseteq Quizzes'
  BY SnapshotRows
<1>4. ResponseRow \subseteq ResponseRow' /\ LearningRow \subseteq LearningRow'
  BY <1>2, <1>3, SnapshotRows, ForeignKeysKept
<1>5. quiz_responses \in Seq(ResponseRow') /\ learning_records \in Seq(LearningRow')
  BY <1>4, SeqMonotonic DEF TypeOK
<1> QED
  BY <1>1, <1>2, <1>5 DEF TypeOK, BankTypeOK

(* A command that updates one question and inserts its event.              *)
LEMMA QuestionMoveType ==
    ASSUME TypeOK, NEW i \in DOMAIN quiz_questions,
           NEW state \in QuestionState, NEW asked_at \in BOOLEAN, NEW event \in QuestionEvent,
           quiz_questions' =
               [quiz_questions EXCEPT ![i].state = state, ![i].asked_at = asked_at],
           question_events' = [question_events EXCEPT ![i] = event],
           UNCHANGED <<question_bank, quiz_templates, quiz_sessions, quiz_responses,
                       learning_records, session_events, response_events, now>>
    PROVE  TypeOK'
<1>1. quiz_questions' \in Seq(QuestionRow) /\ DOMAIN quiz_questions' = DOMAIN quiz_questions
  BY QuestionUpdate
<1>2. Quizzes' = Quizzes
  BY DEF Quizzes
<1>3. QuestionRow' = QuestionRow /\ ResponseRow' = ResponseRow /\ LearningRow' = LearningRow
  BY <1>1, <1>2 DEF QuestionRow, ResponseRow, LearningRow
<1>4. question_events' \in [DOMAIN quiz_questions' -> QuestionEvent]
  BY <1>1 DEF TypeOK
<1> QED
  BY <1>1, <1>2, <1>3, <1>4
  DEF TypeOK, BankTypeOK, SessionRow, SessionEvent, QuestionEvent, ResponseEvent

(* quiz next keeps the types.                                              *)
LEMMA NextType ==
    ASSUME TypeOK, NEW quiz, QuizNext(quiz)
    PROVE  TypeOK'
<1>1. CASE NextAlreadyAsked(quiz)
  BY <1>1, QuizTablesKept
  DEF NextAlreadyAsked, TypeOK, BankTypeOK, quiz_vars, quiz_tables, event_tables
<1>2. CASE NextAsks(quiz)
  <2>1. PICK i \in Planned(quiz) :
          /\ quiz_questions' =
                 [quiz_questions EXCEPT ![i].state = "asked", ![i].asked_at = TRUE]
          /\ question_events' = [question_events EXCEPT
                 ![i] = [event_type |-> "question_asked", previous_state |-> "none"]]
    BY <1>2 DEF NextAsks
  <2>2. /\ i \in DOMAIN quiz_questions /\ "asked" \in QuestionState
        /\ [event_type |-> "question_asked", previous_state |-> "none"] \in QuestionEvent
    BY DEF Planned, QuestionsOf, QuestionState, QuestionEvent
  <2> QED
    BY <1>2, <2>1, <2>2, QuestionMoveType DEF NextAsks
<1> QED
  BY <1>1, <1>2 DEF QuizNext

(* The common body of quiz defer and quiz requeue keeps the types.         *)
LEMMA QuestionStateChangeType ==
    ASSUME TypeOK, NEW quiz, NEW i \in DOMAIN quiz_questions, NEW event,
           NEW target \in QuestionState, NEW asked_at \in BOOLEAN,
           NEW event_type \in {"question_deferred", "question_requeued"},
           QuestionStateChange(quiz, i, event, target, event_type, asked_at)
    PROVE  TypeOK'
<1>1. quiz_questions[i].state \in QuestionState
  BY TablesAreFunctions DEF QuestionRow
<1>2. [event_type |-> event_type, previous_state |-> quiz_questions[i].state] \in QuestionEvent
  BY <1>1 DEF QuestionEvent
<1> QED
  BY <1>2, QuestionMoveType DEF QuestionStateChange

(* quiz defer and quiz requeue keep the types.                             *)
LEMMA DeferRequeueType ==
    ASSUME TypeOK, NEW quiz, NEW i \in QuestionsOf(quiz),
           QuizDefer(quiz, i) \/ QuizRequeue(quiz, i)
    PROVE  TypeOK'
<1>1. i \in DOMAIN quiz_questions
  BY DEF QuestionsOf
<1>2. quiz_questions[i].asked_at \in BOOLEAN
  BY <1>1, TablesAreFunctions DEF QuestionRow
<1>3. "deferred" \in QuestionState /\ "planned" \in QuestionState
  BY DEF QuestionState
<1> QED
  BY <1>1, <1>2, <1>3, QuestionStateChangeType DEF QuizDefer, QuizRequeue

(* quiz follow-up keeps the types.                                         *)
LEMMA FollowUpType ==
    ASSUME TypeOK, NEW quiz, NEW concept \in Concept, QuizFollowUp(quiz, concept)
    PROVE  /\ TypeOK'
           /\ DOMAIN quiz_questions' = DOMAIN quiz_questions \cup {Len(quiz_questions) + 1}
           /\ Len(quiz_questions) + 1 \notin DOMAIN quiz_questions
           /\ \A i \in DOMAIN quiz_questions : quiz_questions'[i] = quiz_questions[i]
           /\ quiz_questions'[Len(quiz_questions) + 1].state = "planned"
           /\ quiz_questions'[Len(quiz_questions) + 1].quiz_id = quiz
<1> DEFINE event == [event_type |-> "follow_up_added", previous_state |-> "none"]
<1>1. PICK position \in 1..NextId(quiz_questions) :
        quiz_questions' = Append(quiz_questions, FollowUpQuestion(quiz, position, concept))
  BY DEF QuizFollowUp
<1>2. /\ quiz \in Quizzes
      /\ question_events' = Append(question_events, event)
      /\ UNCHANGED <<question_bank, quiz_templates, quiz_sessions, quiz_responses,
                     learning_records, session_events, response_events, now>>
  BY DEF QuizFollowUp, InProgress
<1>3. position \in Nat \ {0}
  BY TablesAreFunctions DEF NextId
<1>4. FollowUpQuestion(quiz, position, concept) \in QuestionRow
  BY <1>2, <1>3 DEF FollowUpQuestion, QuestionRow, QuestionState
<1>5. /\ quiz_questions' \in Seq(QuestionRow)
      /\ Len(quiz_questions') = Len(quiz_questions) + 1
      /\ DOMAIN quiz_questions' = DOMAIN quiz_questions \cup {Len(quiz_questions) + 1}
      /\ quiz_questions'[Len(quiz_questions) + 1] = FollowUpQuestion(quiz, position, concept)
      /\ \A i \in DOMAIN quiz_questions :
             i # Len(quiz_questions) + 1 /\ quiz_questions'[i] = quiz_questions[i]
  BY <1>1, <1>4, AppendRow DEF TypeOK
<1>6. question_events' \in [DOMAIN quiz_questions' -> QuestionEvent]
  <2>1. /\ Len(quiz_questions) \in Nat /\ DOMAIN quiz_questions = 1..Len(quiz_questions)
        /\ question_events \in [1..Len(quiz_questions) -> QuestionEvent]
    BY TablesAreFunctions DEF TypeOK
  <2>2. question_events \in Seq(QuestionEvent) /\ Len(question_events) = Len(quiz_questions)
    BY <2>1, FunctionIsSeq
  <2>3. event \in QuestionEvent
    BY DEF QuestionEvent
  <2> HIDE DEF event
  <2>4. question_events' \in Seq(QuestionEvent)
        /\ Len(question_events') = Len(quiz_questions) + 1
    BY <1>2, <2>2, <2>3, AppendRow
  <2>5. /\ question_events' \in [1..Len(question_events') -> QuestionEvent]
        /\ DOMAIN quiz_questions' = 1..Len(quiz_questions')
    BY <1>5, <2>4, LenProperties
  <2> QED
    BY <1>5, <2>4, <2>5
<1>7. Quizzes' = Quizzes
  BY <1>2 DEF Quizzes
<1>8. QuestionRow' = QuestionRow /\ ResponseRow \subseteq ResponseRow' /\ LearningRow' = LearningRow
  BY <1>2, <1>5, <1>7 DEF QuestionRow, ResponseRow, LearningRow
<1>9. quiz_responses \in Seq(ResponseRow')
  BY <1>8, SeqMonotonic DEF TypeOK
<1>10. TypeOK'
  BY <1>2, <1>5, <1>6, <1>7, <1>8, <1>9
  DEF TypeOK, BankTypeOK, SessionRow, SessionEvent, QuestionEvent, ResponseEvent
<1> QED
  BY <1>5, <1>10 DEF FollowUpQuestion

(* What the tail of session_state_change writes.                           *)
LEMMA SessionUpdate ==
    ASSUME TypeOK, NEW quiz \in Quizzes, NEW target \in SessionState,
           NEW event \in {"pause", "resume", "complete", "abandon"},
           WriteSessionState(quiz, event, target)
    PROVE  /\ quiz_sessions' \in Seq(SessionRow)
           /\ Quizzes' = Quizzes
           /\ session_events' \in [Quizzes -> SessionEvent]
           /\ \A s \in Quizzes : s # quiz => quiz_sessions'[s] = quiz_sessions[s]
           /\ quiz_sessions'[quiz].template_id = quiz_sessions[quiz].template_id
           /\ quiz_sessions'[quiz].state = target
           /\ quiz_sessions'[quiz].completed_at = (target \in Terminal)
<1> DEFINE row == [quiz_sessions[quiz] EXCEPT
                       !.state = target, !.completed_at = target \in Terminal]
           entry == [event |-> event, from |-> quiz_sessions[quiz].state, to |-> target]
<1>1. /\ Len(quiz_sessions) \in Nat /\ Quizzes = 1..Len(quiz_sessions)
      /\ quiz_sessions \in [Quizzes -> SessionRow]
  BY TablesAreFunctions
<1>2. row \in SessionRow
  <2> DEFINE done == target \in Terminal
  <2>1. done \in BOOLEAN
    OBVIOUS
  <2>2. row = [quiz_sessions[quiz] EXCEPT !.state = target, !.completed_at = done]
    OBVIOUS
  <2> HIDE DEF done, row
  <2> QED
    BY <1>1, <2>1, <2>2 DEF SessionRow
<1>3. quiz_sessions' = [quiz_sessions EXCEPT ![quiz] = row]
  BY <1>1 DEF WriteSessionState, SessionRow
<1>4. quiz_sessions' \in [1..Len(quiz_sessions) -> SessionRow]
  BY <1>1, <1>2, <1>3
<1>5. quiz_sessions' \in Seq(SessionRow) /\ Quizzes' = Quizzes
  <2> HIDE DEF row
  <2>1. quiz_sessions' \in Seq(SessionRow) /\ DOMAIN quiz_sessions' = 1..Len(quiz_sessions)
    BY <1>1, <1>4, FunctionIsSeq
  <2> QED
    BY <1>1, <2>1 DEF Quizzes
<1>6. entry \in SessionEvent
  BY <1>1 DEF SessionEvent, SessionRow
<1>7. session_events' = [session_events EXCEPT ![quiz] = entry]
  BY DEF WriteSessionState
<1>8. session_events' \in [Quizzes -> SessionEvent]
  <2> HIDE DEF entry
  <2> QED  BY <1>6, <1>7 DEF TypeOK
<1>9. /\ row.template_id = quiz_sessions[quiz].template_id
      /\ row.state = target
      /\ row.completed_at = (target \in Terminal)
  BY <1>1 DEF SessionRow
<1>10. /\ quiz_sessions'[quiz] = row
       /\ \A s \in Quizzes : s # quiz => quiz_sessions'[s] = quiz_sessions[s]
  BY <1>1, <1>3
<1> HIDE DEF row
<1> QED
  BY <1>5, <1>8, <1>9, <1>10

(* quiz pause, quiz resume and quiz complete keep the types.               *)
LEMMA SessionMoveType ==
    ASSUME TypeOK, NEW quiz, QuizPause(quiz) \/ QuizResume(quiz) \/ QuizComplete(quiz)
    PROVE  TypeOK'
<1>1. PICK event \in {"pause", "resume", "complete", "abandon"}, target \in SessionState :
        WriteSessionState(quiz, event, target)
  BY DEF QuizPause, QuizResume, QuizComplete, SessionState
<1>2. quiz \in Quizzes
  BY DEF QuizPause, QuizResume, QuizComplete, MayChange
<1>3. UNCHANGED <<question_bank, quiz_templates, quiz_questions, quiz_responses,
                  learning_records, question_events, response_events, now>>
  BY DEF QuizPause, QuizResume, QuizComplete
<1>4. /\ quiz_sessions' \in Seq(SessionRow) /\ Quizzes' = Quizzes
      /\ session_events' \in [Quizzes -> SessionEvent]
  BY <1>1, <1>2, SessionUpdate
<1>5. QuestionRow' = QuestionRow /\ ResponseRow' = ResponseRow /\ LearningRow' = LearningRow
  BY <1>3, <1>4 DEF QuestionRow, ResponseRow, LearningRow
<1> QED
  BY <1>3, <1>4, <1>5
  DEF TypeOK, BankTypeOK, SessionRow, SessionEvent, QuestionEvent, ResponseEvent

(* What quiz abandon does to the questions: the quiz's unresolved ones are *)
(* retired, and no other one moves.                                        *)
LEMMA AbandonedRows ==
    ASSUME TypeOK, NEW quiz, QuizAbandon(quiz)
    PROVE  /\ quiz_questions' \in Seq(QuestionRow)
           /\ DOMAIN quiz_questions' = DOMAIN quiz_questions
           /\ \A i \in DOMAIN quiz_questions :
                  /\ quiz_questions'[i].quiz_id = quiz_questions[i].quiz_id
                  /\ i \in UnresolvedOf(quiz) => quiz_questions'[i].state = "retired"
                  /\ i \notin UnresolvedOf(quiz) => quiz_questions'[i] = quiz_questions[i]
<1>1. /\ Len(quiz_questions) \in Nat /\ DOMAIN quiz_questions = 1..Len(quiz_questions)
      /\ quiz_questions \in [DOMAIN quiz_questions -> QuestionRow]
  BY TablesAreFunctions
<1>2. quiz_questions' = [i \in DOMAIN quiz_questions |->
           IF i \in UnresolvedOf(quiz)
           THEN [quiz_questions[i] EXCEPT !.state = "retired"]
           ELSE quiz_questions[i]]
  BY DEF QuizAbandon
<1>3. \A i \in DOMAIN quiz_questions :
          /\ [quiz_questions[i] EXCEPT !.state = "retired"] \in QuestionRow
          /\ [quiz_questions[i] EXCEPT !.state = "retired"].quiz_id = quiz_questions[i].quiz_id
          /\ [quiz_questions[i] EXCEPT !.state = "retired"].state = "retired"
  BY <1>1 DEF QuestionRow, QuestionState
<1>4. quiz_questions' \in [1..Len(quiz_questions) -> QuestionRow]
  BY <1>1, <1>2, <1>3
<1>5. quiz_questions' \in Seq(QuestionRow)
  BY <1>1, <1>4, FunctionIsSeq
<1> QED
  BY <1>2, <1>3, <1>5

(* quiz abandon keeps the types.                                           *)
LEMMA AbandonType ==
    ASSUME TypeOK, NEW quiz, QuizAbandon(quiz)
    PROVE  TypeOK'
<1>1. /\ quiz_questions' \in Seq(QuestionRow) /\ DOMAIN quiz_questions' = DOMAIN quiz_questions
  BY AbandonedRows
<1>2. /\ quiz \in Quizzes /\ "abandoned" \in SessionState
      /\ WriteSessionState(quiz, "abandon", "abandoned")
      /\ UNCHANGED <<question_bank, quiz_templates, quiz_responses, learning_records,
                     response_events, now>>
  BY DEF QuizAbandon, MayChange, SessionState
<1>3. /\ quiz_sessions' \in Seq(SessionRow) /\ Quizzes' = Quizzes
      /\ session_events' \in [Quizzes -> SessionEvent]
  BY <1>2, SessionUpdate
<1>4. question_events' \in [DOMAIN quiz_questions -> QuestionEvent]
  <2>1. \A i \in DOMAIN quiz_questions : quiz_questions[i].state \in QuestionState
    BY TablesAreFunctions DEF QuestionRow
  <2>2. \A i \in DOMAIN quiz_questions :
            [event_type |-> "question_retired", previous_state |-> quiz_questions[i].state]
                \in QuestionEvent
    BY <2>1 DEF QuestionEvent
  <2> QED
    BY <2>2 DEF TypeOK, QuizAbandon
<1>5. QuestionRow' = QuestionRow /\ ResponseRow' = ResponseRow /\ LearningRow' = LearningRow
  BY <1>1, <1>2, <1>3 DEF QuestionRow, ResponseRow, LearningRow
<1> QED
  BY <1>1, <1>2, <1>3, <1>4, <1>5
  DEF TypeOK, BankTypeOK, SessionRow, SessionEvent, QuestionEvent, ResponseEvent

(* A response belongs to a question, hence to a quiz.                      *)
LEMMA QuizOfType ==
    ASSUME TypeOK, NEW response \in DOMAIN quiz_responses
    PROVE  /\ quiz_responses[response].question_id \in DOMAIN quiz_questions
           /\ QuizOf(response) \in Quizzes
<1>1. quiz_responses[response].question_id \in DOMAIN quiz_questions
  BY TablesAreFunctions DEF ResponseRow
<1> QED
  BY <1>1, TablesAreFunctions DEF QuizOf, QuestionRow

(* learning add keeps the types: the quiz it derives from a response is a  *)
(* quiz.                                                                   *)
LEMMA LearningAddType ==
    ASSUME TypeOK, NEW source_type \in SourceType, NEW quiz, NEW response,
           LearningAdd(source_type, quiz, response)
    PROVE  TypeOK'
<1>1. /\ quiz \in Quizzes \cup {NULL} /\ response \in DOMAIN quiz_responses \cup {NULL}
      /\ learning_records' =
             Append(learning_records, LearningRecord(source_type, quiz, response))
      /\ UNCHANGED <<question_bank, quiz_templates, quiz_sessions, quiz_questions,
                     quiz_responses, event_tables, now>>
  BY DEF LearningAdd, LearningLinksAgree
<1>2. DerivedQuiz(response) \in Quizzes \cup {NULL}
  BY <1>1, QuizOfType DEF DerivedQuiz
<1>3. LearningRecord(source_type, quiz, response) \in LearningRow
  BY <1>1, <1>2 DEF LearningRecord, LearningRow
<1>4. learning_records' \in Seq(LearningRow)
  BY <1>1, <1>3, AppendRow DEF TypeOK
<1>5. Quizzes' = Quizzes
  BY <1>1 DEF Quizzes
<1>6. QuestionRow' = QuestionRow /\ ResponseRow' = ResponseRow /\ LearningRow' = LearningRow
  BY <1>1, <1>5 DEF QuestionRow, ResponseRow, LearningRow
<1> QED
  BY <1>1, <1>4, <1>5, <1>6
  DEF TypeOK, BankTypeOK, event_tables, SessionRow, SessionEvent, QuestionEvent, ResponseEvent

(* What response submit writes to the questions: the answered one.         *)
LEMMA AnsweredRows ==
    ASSUME TypeOK, NEW i \in DOMAIN quiz_questions, NEW assessment, NEW linked,
           ResponseSubmit(i, assessment, linked)
    PROVE  /\ quiz_questions' \in Seq(QuestionRow)
           /\ DOMAIN quiz_questions' = DOMAIN quiz_questions
           /\ \A j \in DOMAIN quiz_questions :
                  /\ quiz_questions'[j].quiz_id = quiz_questions[j].quiz_id
                  /\ j = i => quiz_questions'[j].state = "answered"
                  /\ j # i => quiz_questions'[j] = quiz_questions[j]
<1> DEFINE row == [quiz_questions[i] EXCEPT !.state = "answered"]
<1>1. /\ quiz_questions \in Seq(QuestionRow) /\ DOMAIN quiz_questions = 1..Len(quiz_questions)
      /\ quiz_questions \in [DOMAIN quiz_questions -> QuestionRow]
      /\ Len(quiz_questions) \in Nat
  BY TablesAreFunctions DEF TypeOK
<1>2. /\ row \in QuestionRow /\ row.quiz_id = quiz_questions[i].quiz_id
      /\ row.state = "answered"
  BY <1>1 DEF QuestionRow, QuestionState
<1>3. quiz_questions' = [quiz_questions EXCEPT ![i] = row]
  BY <1>1 DEF ResponseSubmit
<1> HIDE DEF row
<1>4. quiz_questions' \in [1..Len(quiz_questions) -> QuestionRow]
  BY <1>1, <1>2, <1>3
<1>5. quiz_questions' \in Seq(QuestionRow)
  BY <1>1, <1>4, FunctionIsSeq
<1> QED
  BY <1>1, <1>2, <1>3, <1>5

(* response submit keeps the types, whether it is linked to a new learning *)
(* record or not.                                                          *)
LEMMA SubmitType ==
    ASSUME TypeOK, NEW i \in DOMAIN quiz_questions, NEW assessment \in Assessment,
           NEW linked \in BOOLEAN, ResponseSubmit(i, assessment, linked)
    PROVE  TypeOK'
<1> DEFINE quiz == quiz_questions[i].quiz_id
           response == Len(quiz_responses) + 1
           question_event == [event_type |-> "answer_submitted",
                              previous_state |-> quiz_questions[i].state]
           response_event == [event_type |-> "answer_submitted",
                              before |-> "none", after |-> assessment]
<1>1. PICK attempt \in 1..response :
        quiz_responses' = Append(quiz_responses,
            [question_id |-> i, attempt_number |-> attempt,
             answered_at |-> now, assessment |-> assessment])
  BY DEF ResponseSubmit, NextId
<1>2. /\ question_events' = [question_events EXCEPT ![i] = question_event]
      /\ response_events' = Append(response_events, response_event)
      /\ learning_records' =
             IF linked
             THEN Append(learning_records, LearningRecord("quiz", quiz, response))
             ELSE learning_records
      /\ UNCHANGED <<question_bank, quiz_templates, quiz_sessions, session_events, now>>
  BY DEF ResponseSubmit, NextId
<1>3. /\ quiz_questions' \in Seq(QuestionRow) /\ DOMAIN quiz_questions' = DOMAIN quiz_questions
  BY AnsweredRows
<1>4. /\ Len(quiz_responses) \in Nat /\ DOMAIN quiz_responses = 1..Len(quiz_responses)
      /\ quiz \in Quizzes /\ quiz_questions[i].state \in QuestionState
      /\ quiz_responses \in Seq(ResponseRow)
  BY TablesAreFunctions DEF TypeOK, QuestionRow
<1>5. /\ quiz_responses' \in Seq(ResponseRow)
      /\ Len(quiz_responses') = response
      /\ DOMAIN quiz_responses' = DOMAIN quiz_responses \cup {response}
      /\ DOMAIN quiz_responses' = 1..response
  <2>1. [question_id |-> i, attempt_number |-> attempt,
         answered_at |-> now, assessment |-> assessment] \in ResponseRow
    BY <1>4 DEF ResponseRow, TypeOK
  <2> QED
    BY <1>1, <1>4, <2>1, AppendRow, LenProperties
<1>6. Quizzes' = Quizzes
  BY <1>2 DEF Quizzes
<1>7. /\ QuestionRow' = QuestionRow /\ ResponseRow' = ResponseRow
      /\ LearningRow \subseteq LearningRow'
  BY <1>3, <1>5, <1>6 DEF QuestionRow, ResponseRow, LearningRow
<1>8. question_events' \in [DOMAIN quiz_questions -> QuestionEvent]
  <2>1. question_event \in QuestionEvent
    BY <1>4 DEF QuestionEvent
  <2> HIDE DEF question_event
  <2> QED
    BY <1>2, <2>1 DEF TypeOK
<1>9. response_events' \in [DOMAIN quiz_responses' -> ResponseEvent]
  <2>1. response_event \in ResponseEvent
    BY DEF ResponseEvent
  <2>2. response_events \in [1..Len(quiz_responses) -> ResponseEvent]
    BY <1>4 DEF TypeOK
  <2>3. response_events \in Seq(ResponseEvent) /\ Len(response_events) = Len(quiz_responses)
    BY <1>4, <2>2, FunctionIsSeq
  <2> HIDE DEF response_event
  <2>4. response_events' \in Seq(ResponseEvent) /\ Len(response_events') = response
    BY <1>2, <2>1, <2>3, AppendRow
  <2> QED
    BY <1>5, <2>4, LenProperties
<1>10. learning_records' \in Seq(LearningRow')
  <2>1. learning_records \in Seq(LearningRow')
    BY <1>7, SeqMonotonic DEF TypeOK
  <2>2. response # NULL
    BY <1>4 DEF NULL
  <2>3. LearningRecord("quiz", quiz, response) \in LearningRow'
    <3>1. quiz # NULL
      BY <1>4, TablesAreFunctions DEF NULL
    <3>2. LearningRecord("quiz", quiz, response) =
              [source_type |-> "quiz", quiz_response_id |-> response, quiz_id |-> quiz]
      BY <3>1 DEF LearningRecord
    <3> QED
      BY <1>4, <1>5, <1>6, <3>2 DEF LearningRow, SourceType
  <2> QED
    BY <1>2, <2>1, <2>3, AppendRow
<1> QED
  BY <1>2, <1>3, <1>5, <1>6, <1>7, <1>8, <1>9, <1>10
  DEF TypeOK, BankTypeOK, SessionRow, SessionEvent, QuestionEvent, ResponseEvent

(* response regrade keeps the types.                                       *)
LEMMA RegradeType ==
    ASSUME TypeOK, NEW response \in DOMAIN quiz_responses, NEW assessment \in Assessment,
           ResponseRegrade(response, assessment)
    PROVE  TypeOK'
<1> DEFINE row == [quiz_responses[response] EXCEPT !.assessment = assessment]
           event == [event_type |-> "response_regraded",
                     before |-> quiz_responses[response].assessment, after |-> assessment]
<1>1. /\ Len(quiz_responses) \in Nat /\ DOMAIN quiz_responses = 1..Len(quiz_responses)
      /\ quiz_responses \in [DOMAIN quiz_responses -> ResponseRow]
  BY TablesAreFunctions
<1>2. row \in ResponseRow
  BY <1>1 DEF ResponseRow
<1>3. event \in ResponseEvent
  BY <1>1 DEF ResponseRow, ResponseEvent
<1>4. /\ quiz_responses' = [quiz_responses EXCEPT ![response] = row]
      /\ response_events' = [response_events EXCEPT ![response] = event]
      /\ UNCHANGED <<question_bank, quiz_templates, quiz_sessions, quiz_questions,
                     learning_records, session_events, question_events, now>>
  BY <1>1 DEF ResponseRegrade
<1> HIDE DEF row, event
<1>5. quiz_responses' \in [1..Len(quiz_responses) -> ResponseRow]
  BY <1>1, <1>2, <1>4
<1>6. quiz_responses' \in Seq(ResponseRow) /\ DOMAIN quiz_responses' = DOMAIN quiz_responses
  BY <1>1, <1>5, FunctionIsSeq
<1>7. response_events' \in [DOMAIN quiz_responses' -> ResponseEvent]
  BY <1>3, <1>4, <1>6 DEF TypeOK
<1>8. Quizzes' = Quizzes
  BY <1>4 DEF Quizzes
<1>9. QuestionRow' = QuestionRow /\ ResponseRow' = ResponseRow /\ LearningRow' = LearningRow
  BY <1>4, <1>6, <1>8 DEF QuestionRow, ResponseRow, LearningRow
<1> QED
  BY <1>4, <1>6, <1>7, <1>8, <1>9
  DEF TypeOK, BankTypeOK, SessionRow, SessionEvent, QuestionEvent, ResponseEvent

(* quiz start keeps the types.                                             *)
LEMMA StartType ==
    ASSUME TypeOK, NEW t \in Template, NEW requested \in Nat, QuizStart(t, requested)
    PROVE  TypeOK'
<1>1. CASE StartExisting(t)
  BY <1>1, QuizTablesKept
  DEF StartExisting, TypeOK, BankTypeOK, quiz_vars, quiz_tables, event_tables
<1>2. ASSUME NEW limit \in Nat, CreateSnapshot(t, limit) PROVE TypeOK'
  BY <1>2, SnapshotType
<1> QED
  BY <1>1, <1>2, QuizAssumption DEF QuizStart

-----------------------------------------------------------------------------
(* Every step keeps the types.                                             *)
LEMMA NextKeepsType ==
    ASSUME TypeOK, [Next]_vars
    PROVE  TypeOK'
<1>1. ASSUME BankCommand PROVE TypeOK'
  <2>1. BankTypeOK'
    BY <1>1, BankNextType DEF BankCommand, TypeOK
  <2> QED
    BY <1>1, <2>1, QuizTablesKept DEF BankCommand, TypeOK, quiz_vars
<1>2. ASSUME NEW t \in Template, NEW requested \in 0..MaxLimit, QuizStart(t, requested)
      PROVE  TypeOK'
  BY <1>2, QuizAssumption, StartType
<1>3. ASSUME NEW quiz \in Quizzes, SessionCommand(quiz)
      PROVE  TypeOK'
  BY <1>3, NextType, DeferRequeueType, FollowUpType, SessionMoveType, AbandonType
  DEF SessionCommand
<1>4. ASSUME NEW i \in DOMAIN quiz_questions, NEW assessment \in Assessment,
             NEW linked \in BOOLEAN, ResponseSubmit(i, assessment, linked)
      PROVE  TypeOK'
  BY <1>4, SubmitType
<1>5. ASSUME NEW response \in DOMAIN quiz_responses, NEW assessment \in Assessment,
             ResponseRegrade(response, assessment)
      PROVE  TypeOK'
  BY <1>5, RegradeType
<1>6. ASSUME NEW source_type \in SourceType, NEW quiz, NEW response,
             LearningAdd(source_type, quiz, response)
      PROVE  TypeOK'
  BY <1>6, LearningAddType
<1>7. ASSUME Tick PROVE TypeOK'
  <2>1. BankTypeOK' /\ now' \in Nat
    BY <1>7, QuizAssumption DEF Tick, bank_vars, TypeOK, BankTypeOK
  <2> QED
    BY <1>7, <2>1, QuizTablesKept DEF Tick
<1>8. ASSUME UNCHANGED vars PROVE TypeOK'
  <2>1. BankTypeOK' /\ now' \in Nat
    BY <1>8 DEF vars, bank_vars, quiz_vars, TypeOK, BankTypeOK
  <2> QED
    BY <1>8, <2>1, QuizTablesKept DEF vars, quiz_vars
<1> QED
  BY <1>1, <1>2, <1>3, <1>4, <1>5, <1>6, <1>7, <1>8 DEF Next, QuizCommand

(* The tables are well typed, and every foreign key names a row, in every  *)
(* reachable state.                                                        *)
THEOREM TypeCorrect == Spec => []TypeOK
<1>1. TypeOK /\ [Next]_vars => TypeOK'
  BY NextKeepsType
<1> QED
  BY <1>1, InitType, PTL DEF Spec

-----------------------------------------------------------------------------
(* At most one asked question.                                             *)

(* It is kept by a step after which every asked question was asked before. *)
LEMMA NoNewAsked ==
    ASSUME OneAskedPerQuiz,
           \A i \in DOMAIN quiz_questions' : quiz_questions'[i].state = "asked" =>
               /\ i \in DOMAIN quiz_questions
               /\ quiz_questions[i].state = "asked"
               /\ quiz_questions'[i].quiz_id = quiz_questions[i].quiz_id
    PROVE  OneAskedPerQuiz'
BY DEF OneAskedPerQuiz

(* quiz next asks only when nothing of the quiz is asked.                  *)
LEMMA NextAsksOne ==
    ASSUME TypeOK, OneAskedPerQuiz, NEW quiz, NextAsks(quiz)
    PROVE  OneAskedPerQuiz'
<1>1. PICK i \in Planned(quiz) :
        quiz_questions' = [quiz_questions EXCEPT ![i].state = "asked", ![i].asked_at = TRUE]
  BY DEF NextAsks
<1>2. i \in DOMAIN quiz_questions /\ quiz_questions[i].quiz_id = quiz
  BY DEF Planned, QuestionsOf
<1>3. /\ DOMAIN quiz_questions' = DOMAIN quiz_questions
      /\ \A j \in DOMAIN quiz_questions : j # i => quiz_questions'[j] = quiz_questions[j]
      /\ quiz_questions'[i] = [quiz_questions[i] EXCEPT !.state = "asked", !.asked_at = TRUE]
  BY <1>1, <1>2, QuestionUpdate DEF QuestionState
<1>4. quiz_questions'[i].quiz_id = quiz
  BY <1>2, <1>3, TablesAreFunctions DEF QuestionRow
<1>5. \A j \in DOMAIN quiz_questions :
          quiz_questions[j].quiz_id = quiz => quiz_questions[j].state # "asked"
  BY DEF NextAsks, Asked, QuestionsOf
<1> SUFFICES ASSUME NEW a \in DOMAIN quiz_questions, NEW b \in DOMAIN quiz_questions,
                    quiz_questions'[a].state = "asked", quiz_questions'[b].state = "asked",
                    quiz_questions'[a].quiz_id = quiz_questions'[b].quiz_id
             PROVE  a = b
  BY <1>3 DEF OneAskedPerQuiz
<1>6. CASE a = i \/ b = i
  BY <1>3, <1>4, <1>5, <1>6
<1>7. CASE a # i /\ b # i
  BY <1>3, <1>7 DEF OneAskedPerQuiz
<1> QED
  BY <1>6, <1>7

(* quiz defer and quiz requeue move a question away from asked, or between *)
(* two other states.                                                       *)
LEMMA DeferRequeueAsked ==
    ASSUME TypeOK, OneAskedPerQuiz, NEW quiz, NEW i \in QuestionsOf(quiz),
           QuizDefer(quiz, i) \/ QuizRequeue(quiz, i)
    PROVE  OneAskedPerQuiz'
<1>1. i \in DOMAIN quiz_questions
  BY DEF QuestionsOf
<1>2. PICK state \in {"deferred", "planned"}, asked_at \in BOOLEAN :
        quiz_questions' =
            [quiz_questions EXCEPT ![i].state = state, ![i].asked_at = asked_at]
  <2>1. quiz_questions[i].asked_at \in BOOLEAN
    BY <1>1, TablesAreFunctions DEF QuestionRow
  <2> QED
    BY <2>1 DEF QuizDefer, QuizRequeue, QuestionStateChange
<1>3. /\ DOMAIN quiz_questions' = DOMAIN quiz_questions
      /\ \A j \in DOMAIN quiz_questions : j # i => quiz_questions'[j] = quiz_questions[j]
      /\ quiz_questions'[i] = [quiz_questions[i] EXCEPT !.state = state, !.asked_at = asked_at]
  BY <1>1, <1>2, QuestionUpdate DEF QuestionState
<1>4. quiz_questions'[i].state # "asked"
  BY <1>1, <1>3, TablesAreFunctions DEF QuestionRow
<1> QED
  BY <1>3, <1>4, NoNewAsked

(* Every step keeps it.                                                    *)
LEMMA NextKeepsOneAsked ==
    ASSUME TypeOK, OneAskedPerQuiz, [Next]_vars
    PROVE  OneAskedPerQuiz'
<1>1. ASSUME UNCHANGED quiz_questions PROVE OneAskedPerQuiz'
  BY <1>1 DEF OneAskedPerQuiz
<1>2. ASSUME NEW t \in Template, NEW requested \in 0..MaxLimit, QuizStart(t, requested)
      PROVE  OneAskedPerQuiz'
  <2>1. ASSUME NEW limit \in Nat, CreateSnapshot(t, limit) PROVE OneAskedPerQuiz'
    BY <2>1, SnapshotRows, NoNewAsked
  <2> QED
    BY <1>1, <1>2, <2>1, QuizAssumption DEF QuizStart, StartExisting, quiz_vars, quiz_tables
<1>3. ASSUME NEW quiz \in Quizzes, SessionCommand(quiz)
      PROVE  OneAskedPerQuiz'
  <2>1. CASE QuizNext(quiz)
    BY <1>1, <2>1, NextAsksOne DEF QuizNext, NextAlreadyAsked, quiz_vars, quiz_tables
  <2>2. ASSUME NEW i \in QuestionsOf(quiz), QuizDefer(quiz, i) \/ QuizRequeue(quiz, i)
        PROVE  OneAskedPerQuiz'
    BY <2>2, DeferRequeueAsked
  <2>3. ASSUME NEW concept \in Concept, QuizFollowUp(quiz, concept) PROVE OneAskedPerQuiz'
    BY <2>3, FollowUpType, NoNewAsked
  <2>4. CASE QuizPause(quiz) \/ QuizResume(quiz) \/ QuizComplete(quiz)
    BY <1>1, <2>4 DEF QuizPause, QuizResume, QuizComplete
  <2>5. CASE QuizAbandon(quiz)
    BY <2>5, AbandonedRows, NoNewAsked
  <2> QED
    BY <1>3, <2>1, <2>2, <2>3, <2>4, <2>5 DEF SessionCommand
<1>4. ASSUME NEW i \in DOMAIN quiz_questions, NEW assessment \in Assessment,
             NEW linked \in BOOLEAN, ResponseSubmit(i, assessment, linked)
      PROVE  OneAskedPerQuiz'
  BY <1>4, AnsweredRows, NoNewAsked
<1>5. BankCommand \/ Tick \/ UNCHANGED vars => UNCHANGED quiz_questions
  BY DEF BankCommand, Tick, vars, quiz_vars, quiz_tables
<1>6. \A source_type, quiz, response :
          LearningAdd(source_type, quiz, response) => UNCHANGED quiz_questions
  BY DEF LearningAdd
<1>7. \A response, assessment :
          ResponseRegrade(response, assessment) => UNCHANGED quiz_questions
  BY DEF ResponseRegrade
<1> QED
  BY <1>1, <1>2, <1>3, <1>4, <1>5, <1>6, <1>7 DEF Next, QuizCommand

(* At most one question of a quiz is asked and unanswered, in every        *)
(* reachable state: the handlers keep it without the unique index.         *)
THEOREM OneAsked == Spec => []OneAskedPerQuiz
<1>1. Init => OneAskedPerQuiz
  BY DEF Init, OneAskedPerQuiz
<1>2. TypeOK /\ OneAskedPerQuiz /\ [Next]_vars => OneAskedPerQuiz'
  BY NextKeepsOneAsked
<1> QED
  BY <1>1, <1>2, TypeCorrect, PTL DEF Spec

-----------------------------------------------------------------------------
(* At most one live session of a template.                                 *)

(* It is kept by a step after which every live session was live before.    *)
LEMMA NoNewLive ==
    ASSUME OneLiveSessionPerTemplate,
           \A s \in Quizzes' : quiz_sessions'[s].state \in Live =>
               /\ s \in Quizzes
               /\ quiz_sessions[s].state \in Live
               /\ quiz_sessions'[s].template_id = quiz_sessions[s].template_id
    PROVE  OneLiveSessionPerTemplate'
BY DEF OneLiveSessionPerTemplate

(* A session that pauses, resumes, completes or is abandoned was live.     *)
LEMMA OnlyLiveMove ==
    \A quiz, event, target : MayChange(quiz, event, target) =>
        quiz \in Quizzes /\ quiz_sessions[quiz].state \in Live
BY DEF MayChange, SessionTransitions, Live

(* So such a command makes no other session live.                          *)
LEMMA SessionMoveLive ==
    ASSUME TypeOK, OneLiveSessionPerTemplate, NEW quiz, NEW target \in SessionState,
           NEW event \in {"pause", "resume", "complete", "abandon"},
           MayChange(quiz, event, target), WriteSessionState(quiz, event, target)
    PROVE  OneLiveSessionPerTemplate'
<1>1. quiz \in Quizzes /\ quiz_sessions[quiz].state \in Live
  BY OnlyLiveMove
<1>2. /\ Quizzes' = Quizzes
      /\ \A s \in Quizzes : s # quiz => quiz_sessions'[s] = quiz_sessions[s]
      /\ quiz_sessions'[quiz].template_id = quiz_sessions[quiz].template_id
  BY <1>1, SessionUpdate
<1> QED
  BY <1>1, <1>2, NoNewLive

(* A new session is live, and quiz start makes one only for a template     *)
(* that has none.                                                          *)
LEMMA SnapshotLive ==
    ASSUME TypeOK, OneLiveSessionPerTemplate, NEW t \in Template, NEW limit \in Nat,
           CreateSnapshot(t, limit), LiveSessions(t) = {}
    PROVE  OneLiveSessionPerTemplate'
<1> DEFINE new == Len(quiz_sessions) + 1
<1>1. /\ Quizzes' = Quizzes \cup {new} /\ new \notin Quizzes
      /\ \A s \in Quizzes : quiz_sessions'[s] = quiz_sessions[s]
      /\ quiz_sessions'[new].template_id = t
  BY SnapshotRows
<1>2. \A s \in Quizzes :
          quiz_sessions[s].state \in Live => quiz_sessions[s].template_id # t
  BY DEF LiveSessions
<1> HIDE DEF new
<1> QED
  BY <1>1, <1>2 DEF OneLiveSessionPerTemplate

(* Every step keeps it.                                                    *)
LEMMA NextKeepsOneLive ==
    ASSUME TypeOK, OneLiveSessionPerTemplate, [Next]_vars
    PROVE  OneLiveSessionPerTemplate'
<1>1. ASSUME UNCHANGED quiz_sessions PROVE OneLiveSessionPerTemplate'
  BY <1>1 DEF OneLiveSessionPerTemplate, Quizzes
<1>2. ASSUME NEW t \in Template, NEW requested \in 0..MaxLimit, QuizStart(t, requested)
      PROVE  OneLiveSessionPerTemplate'
  <2>1. CASE LiveSessions(t) # {}
    BY <1>1, <1>2, <2>1 DEF QuizStart, StartExisting, quiz_vars, quiz_tables
  <2>2. CASE LiveSessions(t) = {}
    BY <1>2, <2>2, SnapshotLive, QuizAssumption DEF QuizStart
  <2> QED
    BY <2>1, <2>2
<1>3. ASSUME NEW quiz \in Quizzes, SessionCommand(quiz)
      PROVE  OneLiveSessionPerTemplate'
  <2>1. CASE QuizPause(quiz) \/ QuizResume(quiz) \/ QuizComplete(quiz) \/ QuizAbandon(quiz)
    BY <2>1, SessionMoveLive
    DEF QuizPause, QuizResume, QuizComplete, QuizAbandon, SessionState
  <2>2. QuizNext(quiz) => UNCHANGED quiz_sessions
    BY DEF QuizNext, NextAlreadyAsked, NextAsks, quiz_vars, quiz_tables
  <2>3. \A i : QuizDefer(quiz, i) \/ QuizRequeue(quiz, i) => UNCHANGED quiz_sessions
    BY DEF QuizDefer, QuizRequeue, QuestionStateChange
  <2>4. \A concept : QuizFollowUp(quiz, concept) => UNCHANGED quiz_sessions
    BY DEF QuizFollowUp
  <2> QED
    BY <1>1, <1>3, <2>1, <2>2, <2>3, <2>4 DEF SessionCommand
<1>4. \A i, assessment, linked :
          ResponseSubmit(i, assessment, linked) => UNCHANGED quiz_sessions
  BY DEF ResponseSubmit
<1>5. BankCommand \/ Tick \/ UNCHANGED vars => UNCHANGED quiz_sessions
  BY DEF BankCommand, Tick, vars, quiz_vars, quiz_tables
<1>6. \A source_type, quiz, response :
          LearningAdd(source_type, quiz, response) => UNCHANGED quiz_sessions
  BY DEF LearningAdd
<1>7. \A response, assessment :
          ResponseRegrade(response, assessment) => UNCHANGED quiz_sessions
  BY DEF ResponseRegrade
<1> QED
  BY <1>1, <1>2, <1>3, <1>4, <1>5, <1>6, <1>7 DEF Next, QuizCommand

(* At most one session of a template is live, in every reachable state,    *)
(* though no index of the schema says so.                                  *)
THEOREM OneLive == Spec => []OneLiveSessionPerTemplate
<1>1. Init => OneLiveSessionPerTemplate
  BY DEF Init, OneLiveSessionPerTemplate, Quizzes
<1>2. TypeOK /\ OneLiveSessionPerTemplate /\ [Next]_vars => OneLiveSessionPerTemplate'
  BY NextKeepsOneLive
<1> QED
  BY <1>1, <1>2, TypeCorrect, PTL DEF Spec

-----------------------------------------------------------------------------
(* What a terminal session leaves of its questions.                        *)

(* A step that leaves the sessions alone keeps it, if every question it    *)
(* writes belongs to a session in progress and is not retired.             *)
LEMMA ResolvedKept ==
    ASSUME TypeOK, TerminalIsResolved, UNCHANGED quiz_sessions,
           \A i \in DOMAIN quiz_questions' :
               \/ i \in DOMAIN quiz_questions /\ quiz_questions'[i] = quiz_questions[i]
               \/ /\ quiz_sessions[quiz_questions'[i].quiz_id].state = "in_progress"
                  /\ quiz_questions'[i].state # "retired"
    PROVE  TerminalIsResolved'
<1>1. ASSUME NEW i \in DOMAIN quiz_questions'
      PROVE  LET session == quiz_sessions[quiz_questions'[i].quiz_id].state
             IN  /\ session = "completed" => quiz_questions'[i].state = "answered"
                 /\ session = "abandoned" => quiz_questions'[i].state \in {"answered", "retired"}
                 /\ quiz_questions'[i].state = "retired" => session = "abandoned"
  <2>1. CASE i \in DOMAIN quiz_questions /\ quiz_questions'[i] = quiz_questions[i]
    BY <2>1 DEF TerminalIsResolved
  <2>2. CASE /\ quiz_sessions[quiz_questions'[i].quiz_id].state = "in_progress"
             /\ quiz_questions'[i].state # "retired"
    BY <2>2
  <2> QED
    BY <1>1, <2>1, <2>2
<1>2. \A s \in Quizzes :
          quiz_sessions[s].completed_at <=> quiz_sessions[s].state \in Terminal
  BY DEF TerminalIsResolved
<1> QED
  BY <1>1, <1>2 DEF TerminalIsResolved, Quizzes

(* quiz start adds a session in progress and planned questions of it.      *)
LEMMA SnapshotResolved ==
    ASSUME TypeOK, TerminalIsResolved, NEW t \in Template, NEW limit \in Nat,
           CreateSnapshot(t, limit)
    PROVE  TerminalIsResolved'
<1> DEFINE new == Len(quiz_sessions) + 1
<1>1. /\ Quizzes' = Quizzes \cup {new}
      /\ \A s \in Quizzes : quiz_sessions'[s] = quiz_sessions[s]
      /\ quiz_sessions'[new].state = "in_progress"
      /\ quiz_sessions'[new].completed_at = FALSE
      /\ \A i \in DOMAIN quiz_questions : quiz_questions'[i] = quiz_questions[i]
      /\ \A i \in DOMAIN quiz_questions' \ DOMAIN quiz_questions :
             quiz_questions'[i].state = "planned" /\ quiz_questions'[i].quiz_id = new
  BY SnapshotRows
<1>2. \A i \in DOMAIN quiz_questions : quiz_questions[i].quiz_id \in Quizzes
  BY TablesAreFunctions DEF QuestionRow
<1> HIDE DEF new
<1>3. ASSUME NEW s \in Quizzes'
      PROVE  quiz_sessions'[s].completed_at <=> quiz_sessions'[s].state \in Terminal
  BY <1>1, <1>3 DEF TerminalIsResolved, Terminal
<1>4. ASSUME NEW i \in DOMAIN quiz_questions'
      PROVE  LET session == quiz_sessions'[quiz_questions'[i].quiz_id].state
             IN  /\ session = "completed" => quiz_questions'[i].state = "answered"
                 /\ session = "abandoned" => quiz_questions'[i].state \in {"answered", "retired"}
                 /\ quiz_questions'[i].state = "retired" => session = "abandoned"
  <2>1. CASE i \in DOMAIN quiz_questions
    BY <1>1, <1>2, <2>1 DEF TerminalIsResolved
  <2>2. CASE i \notin DOMAIN quiz_questions
    BY <1>1, <1>4, <2>2
  <2> QED
    BY <2>1, <2>2
<1> QED
  BY <1>3, <1>4 DEF TerminalIsResolved

(* A question command writes one question of a session in progress.        *)
LEMMA QuestionCommandResolved ==
    ASSUME TypeOK, TerminalIsResolved, NEW quiz, NEW i \in DOMAIN quiz_questions,
           quiz_questions[i].quiz_id = quiz, InProgress(quiz),
           NEW state \in QuestionState \ {"retired"}, NEW asked_at \in BOOLEAN,
           quiz_questions' =
               [quiz_questions EXCEPT ![i].state = state, ![i].asked_at = asked_at],
           UNCHANGED quiz_sessions
    PROVE  TerminalIsResolved'
<1>1. /\ DOMAIN quiz_questions' = DOMAIN quiz_questions
      /\ \A j \in DOMAIN quiz_questions : j # i => quiz_questions'[j] = quiz_questions[j]
      /\ quiz_questions'[i] = [quiz_questions[i] EXCEPT !.state = state, !.asked_at = asked_at]
  BY QuestionUpdate
<1>2. quiz_questions'[i].quiz_id = quiz /\ quiz_questions'[i].state = state
  BY <1>1, TablesAreFunctions DEF QuestionRow
<1> QED
  BY <1>1, <1>2, ResolvedKept DEF InProgress

(* The session that moves had no retired question; quiz complete finds no  *)
(* unresolved one, and quiz abandon retires them.                          *)
LEMMA SessionMoveResolved ==
    ASSUME TypeOK, TerminalIsResolved, NEW quiz, NEW target \in SessionState,
           NEW event \in {"pause", "resume", "complete", "abandon"},
           MayChange(quiz, event, target), WriteSessionState(quiz, event, target),
           DOMAIN quiz_questions' = DOMAIN quiz_questions,
           \A i \in DOMAIN quiz_questions :
               /\ quiz_questions'[i].quiz_id = quiz_questions[i].quiz_id
               /\ quiz_questions'[i] = quiz_questions[i]
                  \/ /\ target = "abandoned" /\ quiz_questions'[i].state = "retired"
                     /\ quiz_questions[i].quiz_id = quiz,
           target \in Terminal => \A i \in QuestionsOf(quiz) :
               quiz_questions'[i].state \in QuestionState \ Unresolved,
           target = "completed" => UNCHANGED quiz_questions
    PROVE  TerminalIsResolved'
<1>1. quiz \in Quizzes /\ quiz_sessions[quiz].state \in Live
  BY OnlyLiveMove
<1>2. /\ Quizzes' = Quizzes
      /\ \A s \in Quizzes : s # quiz => quiz_sessions'[s] = quiz_sessions[s]
      /\ quiz_sessions'[quiz].state = target
      /\ quiz_sessions'[quiz].completed_at = (target \in Terminal)
  BY <1>1, SessionUpdate
<1>3. ASSUME NEW s \in Quizzes
      PROVE  quiz_sessions'[s].completed_at <=> quiz_sessions'[s].state \in Terminal
  <2>1. CASE s = quiz
    BY <1>2, <2>1
  <2>2. CASE s # quiz
    BY <1>2, <2>2 DEF TerminalIsResolved
  <2> QED
    BY <2>1, <2>2
<1>4. ASSUME NEW i \in DOMAIN quiz_questions
      PROVE  LET session == quiz_sessions'[quiz_questions'[i].quiz_id].state
             IN  /\ session = "completed" => quiz_questions'[i].state = "answered"
                 /\ session = "abandoned" => quiz_questions'[i].state \in {"answered", "retired"}
                 /\ quiz_questions'[i].state = "retired" => session = "abandoned"
  <2>1. quiz_questions[i].quiz_id \in Quizzes
    BY TablesAreFunctions DEF QuestionRow
  <2>2. CASE quiz_questions[i].quiz_id # quiz
    BY <1>2, <2>1, <2>2 DEF TerminalIsResolved
  <2>3. CASE quiz_questions[i].quiz_id = quiz
    <3>1. quiz_questions[i].state # "retired"
      BY <1>1, <2>3 DEF TerminalIsResolved, Live
    <3>2. target \in Terminal => quiz_questions'[i].state \in {"answered", "retired"}
      BY <2>3 DEF QuestionsOf, QuestionState, Unresolved
    <3> QED
      BY <1>2, <2>3, <3>1, <3>2 DEF Terminal
  <2> QED
    BY <2>2, <2>3
<1> QED
  BY <1>2, <1>3, <1>4 DEF TerminalIsResolved

(* Every step keeps it.                                                    *)
LEMMA NextKeepsResolved ==
    ASSUME TypeOK, TerminalIsResolved, [Next]_vars
    PROVE  TerminalIsResolved'
<1>1. ASSUME UNCHANGED <<quiz_sessions, quiz_questions>> PROVE TerminalIsResolved'
  BY <1>1 DEF TerminalIsResolved, Quizzes
<1>2. ASSUME NEW t \in Template, NEW requested \in 0..MaxLimit, QuizStart(t, requested)
      PROVE  TerminalIsResolved'
  BY <1>1, <1>2, SnapshotResolved, QuizAssumption
  DEF QuizStart, StartExisting, quiz_vars, quiz_tables
<1>3. ASSUME NEW quiz \in Quizzes, SessionCommand(quiz)
      PROVE  TerminalIsResolved'
  <2>1. CASE NextAlreadyAsked(quiz)
    BY <1>1, <2>1 DEF NextAlreadyAsked, quiz_vars, quiz_tables
  <2>2. CASE NextAsks(quiz)
    <3>1. PICK i \in Planned(quiz) :
            quiz_questions' = [quiz_questions EXCEPT ![i].state = "asked", ![i].asked_at = TRUE]
      BY <2>2 DEF NextAsks
    <3> QED
      BY <2>2, <3>1, QuestionCommandResolved
      DEF NextAsks, Planned, QuestionsOf, QuestionState
  <2>3. ASSUME NEW i \in QuestionsOf(quiz), QuizDefer(quiz, i) \/ QuizRequeue(quiz, i)
        PROVE  TerminalIsResolved'
    <3>1. i \in DOMAIN quiz_questions /\ quiz_questions[i].quiz_id = quiz
      BY DEF QuestionsOf
    <3>2. quiz_questions[i].asked_at \in BOOLEAN
      BY <3>1, TablesAreFunctions DEF QuestionRow
    <3>3. PICK state \in {"deferred", "planned"}, asked_at \in BOOLEAN :
            quiz_questions' =
                [quiz_questions EXCEPT ![i].state = state, ![i].asked_at = asked_at]
      BY <2>3, <3>2 DEF QuizDefer, QuizRequeue, QuestionStateChange
    <3>4. InProgress(quiz) /\ UNCHANGED quiz_sessions
      BY <2>3 DEF QuizDefer, QuizRequeue, QuestionStateChange
    <3> QED
      BY <3>1, <3>3, <3>4, QuestionCommandResolved DEF QuestionState
  <2>4. ASSUME NEW concept \in Concept, QuizFollowUp(quiz, concept) PROVE TerminalIsResolved'
    <3>1. InProgress(quiz) /\ UNCHANGED quiz_sessions
      BY <2>4 DEF QuizFollowUp
    <3> QED
      BY <2>4, <3>1, FollowUpType, ResolvedKept DEF InProgress
  <2>5. CASE QuizPause(quiz) \/ QuizResume(quiz)
    BY <2>5, SessionMoveResolved DEF QuizPause, QuizResume, SessionState, Terminal
  <2>6. CASE QuizComplete(quiz)
    <3>1. \A i \in QuestionsOf(quiz) : quiz_questions[i].state \in QuestionState \ Unresolved
      BY <2>6, TablesAreFunctions DEF QuizComplete, UnresolvedOf, QuestionsOf, QuestionRow
    <3> QED
      BY <2>6, <3>1, SessionMoveResolved DEF QuizComplete, SessionState
  <2>7. CASE QuizAbandon(quiz)
    <3>1. \A i \in QuestionsOf(quiz) : quiz_questions'[i].state \in QuestionState \ Unresolved
      BY <2>7, AbandonedRows, TablesAreFunctions
      DEF UnresolvedOf, QuestionsOf, QuestionRow, QuestionState, Unresolved
    <3>2. \A i \in UnresolvedOf(quiz) : quiz_questions[i].quiz_id = quiz
      BY DEF UnresolvedOf, QuestionsOf
    <3> QED
      BY <2>7, <3>1, <3>2, AbandonedRows, SessionMoveResolved DEF QuizAbandon, SessionState
  <2> QED
    BY <1>3, <2>1, <2>2, <2>3, <2>4, <2>5, <2>6, <2>7 DEF SessionCommand, QuizNext
<1>4. ASSUME NEW i \in DOMAIN quiz_questions, NEW assessment \in Assessment,
             NEW linked \in BOOLEAN, ResponseSubmit(i, assessment, linked)
      PROVE  TerminalIsResolved'
  <2>1. /\ quiz_sessions[quiz_questions[i].quiz_id].state = "in_progress"
        /\ UNCHANGED quiz_sessions
    BY <1>4 DEF ResponseSubmit
  <2> QED
    BY <1>4, <2>1, AnsweredRows, ResolvedKept
<1>5. BankCommand \/ Tick \/ UNCHANGED vars => UNCHANGED <<quiz_sessions, quiz_questions>>
  BY DEF BankCommand, Tick, vars, quiz_vars, quiz_tables
<1>6. \A source_type, quiz, response :
          LearningAdd(source_type, quiz, response) => UNCHANGED <<quiz_sessions, quiz_questions>>
  BY DEF LearningAdd
<1>7. \A response, assessment :
          ResponseRegrade(response, assessment) => UNCHANGED <<quiz_sessions, quiz_questions>>
  BY DEF ResponseRegrade
<1> QED
  BY <1>1, <1>2, <1>3, <1>4, <1>5, <1>6, <1>7 DEF Next, QuizCommand

(* A completed quiz has only answered questions and an abandoned one has   *)
(* none left open, in every reachable state.                               *)
THEOREM TerminalResolved == Spec => []TerminalIsResolved
<1>1. Init => TerminalIsResolved
  BY DEF Init, TerminalIsResolved, Quizzes
<1>2. TypeOK /\ TerminalIsResolved /\ [Next]_vars => TerminalIsResolved'
  BY NextKeepsResolved
<1> QED
  BY <1>1, <1>2, TypeCorrect, PTL DEF Spec

=============================================================================
