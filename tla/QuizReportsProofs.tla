-------------------------- MODULE QuizReportsProofs --------------------------
(***************************************************************************)
(* What reports may count on: snapshots are numbered without gaps, the     *)
(* numbers of quiz_progress add up, report state-drift has nothing to say. *)
(* And what a new quiz asks: current bank questions, the weakest first.    *)
(*                                                                         *)
(* The counting rests on one fact: where n rows are numbered 1..n, as many *)
(* have the numbers 1..m as m says.                                        *)
(***************************************************************************)
EXTENDS QuizReports, QuizHistoryProofs, WellFoundedInduction

-----------------------------------------------------------------------------
(* The newest response.                                                    *)

(* Numbers are well ordered.                                               *)
LEMMA LeastNat ==
    ASSUME NEW T, T \subseteq Nat, T # {}
    PROVE  \E n \in T : \A m \in T : n <= m
<1> DEFINE Less == {ss \in Nat \X Nat : ss[1] < ss[2]}
<1>1. IsWellFoundedOn(Less, Nat)
  BY NatLessThanWellFounded, Zenon DEF OpToRel
<1>2. \A m, n \in Nat : <<m, n>> \in Less <=> m < n
  OBVIOUS
<1> HIDE DEF Less
<1>3. PICK n \in T : \A m \in T : ~ (<<m, n>> \in Less)
  BY <1>1, WFMin
<1>4. ASSUME NEW m \in T PROVE n <= m
  <2>1. m \in Nat /\ n \in Nat
    OBVIOUS
  <2>2. ~ (m < n)
    BY <1>2, <1>3, <2>1
  <2> QED
    BY <2>1, <2>2
<1> QED
  BY <1>4

(* What ORDER BY answered_at DESC, id DESC puts first.                     *)
NotAfter(o, r) ==
    \/ quiz_responses[o].answered_at < quiz_responses[r].answered_at
    \/ quiz_responses[o].answered_at = quiz_responses[r].answered_at /\ o <= r

(* Among any responses there is one that none comes after: of the least    *)
(* prefix of the table that had none, the last row would be the one.       *)
LEMMA NewestExists ==
    ASSUME TypeOK, NEW S \in SUBSET DOMAIN quiz_responses, S # {}
    PROVE  \E r \in S : \A o \in S : NotAfter(o, r)
<1> DEFINE n == Len(quiz_responses)
           HasNewest(P) == \E r \in P : \A o \in P : NotAfter(o, r)
           Lacking == {k \in Nat : S \cap 1..k # {} /\ ~HasNewest(S \cap 1..k)}
<1>1. /\ n \in Nat /\ S \subseteq 1..n
      /\ \A r \in S : quiz_responses[r].answered_at \in Nat
  BY TablesAreFunctions DEF ResponseRow
<1>2. SUFFICES ASSUME Lacking # {} PROVE FALSE
  <2>1. n \notin Lacking
    BY <1>2
  <2>2. S \cap 1..n = S
    BY <1>1
  <2> QED
    BY <1>1, <2>1, <2>2
<1>3. PICK k \in Lacking : \A m \in Lacking : k <= m
  <2>1. Lacking \subseteq Nat
    OBVIOUS
  <2> HIDE DEF Lacking
  <2> QED
    BY <1>2, <2>1, LeastNat
<1>4. k \in Nat /\ k # 0
  <2>1. S \cap 1..0 = {}
    OBVIOUS
  <2> QED
    BY <2>1
<1>5. k - 1 \in Nat /\ k - 1 \notin Lacking
  BY <1>3, <1>4
<1>6. CASE k \notin S
  <2>1. S \cap 1..k = S \cap 1..(k - 1)
    BY <1>4, <1>6
  <2> QED
    BY <1>3, <1>5, <2>1
<1>7. CASE k \in S
  <2>0. /\ k \in Nat /\ quiz_responses[k].answered_at \in Nat
        /\ \A o \in S \cap 1..(k - 1) :
               o \in Nat /\ o < k /\ quiz_responses[o].answered_at \in Nat
    <3>1. k \in Nat /\ quiz_responses[k].answered_at \in Nat
      BY <1>1, <1>4, <1>7
    <3>2. ASSUME NEW o \in S \cap 1..(k - 1)
          PROVE  o \in Nat /\ o < k /\ quiz_responses[o].answered_at \in Nat
      <4>1. o \in S /\ o \in 1..(k - 1)
        OBVIOUS
      <4> HIDE DEF Lacking
      <4> QED
        BY <1>1, <1>4, <4>1
    <3> QED
      BY <3>1, <3>2
  <2>1. S \cap 1..k = (S \cap 1..(k - 1)) \cup {k}
    <3>1. 1..k = 1..(k - 1) \cup {k}
      BY <1>4
    <3> QED
      BY <1>7, <3>1
  <2>2. NotAfter(k, k)
    BY <1>4 DEF NotAfter
  <2>3. CASE S \cap 1..(k - 1) = {}
    <3>1. HasNewest(S \cap 1..k)
      BY <2>1, <2>2, <2>3
    <3> QED
      BY <3>1
  <2>4. ASSUME NEW r \in S \cap 1..(k - 1), \A o \in S \cap 1..(k - 1) : NotAfter(o, r)
        PROVE  FALSE
    <3>1. CASE NotAfter(k, r)
      <4>1. \A o \in S \cap 1..k : NotAfter(o, r)
        BY <2>1, <2>4, <3>1
      <4> QED
        BY <2>1, <4>1
    <3>2. CASE ~NotAfter(k, r)
      <4>1. quiz_responses[r].answered_at <= quiz_responses[k].answered_at
        BY <2>0, <3>2 DEF NotAfter
      <4>2. ASSUME NEW o \in S \cap 1..(k - 1) PROVE NotAfter(o, k)
        <5>1. NotAfter(o, r)
          BY <2>4
        <5> QED
          BY <2>0, <4>1, <5>1 DEF NotAfter
      <4>3. \A o \in S \cap 1..k : NotAfter(o, k)
        BY <2>1, <2>2, <4>2
      <4> QED
        BY <2>1, <4>3
    <3> QED
      BY <3>1, <3>2
  <2> QED
    BY <1>5, <2>3, <2>4
<1> QED
  BY <1>6, <1>7

(* The rank of a bank question is a number.                                *)
LEMMA WeaknessType ==
    ASSUME TypeOK, NEW bank
    PROVE  Weakness(bank) \in Nat
<1>1. CASE Seen(bank) # {}
  <2>1. Seen(bank) \in SUBSET DOMAIN quiz_responses
    BY DEF Seen
  <2>2. \E r \in Seen(bank) : \A o \in Seen(bank) : NotAfter(o, r)
    BY <1>1, <2>1, NewestExists
  <2>3. NewestByClock(Seen(bank)) \in Seen(bank)
    BY <2>2 DEF NewestByClock, NotAfter
  <2>4. quiz_responses[NewestByClock(Seen(bank))].assessment \in Assessment
    BY <2>1, <2>3, TablesAreFunctions DEF ResponseRow
  <2> QED
    BY <1>1, <2>4 DEF Weakness, Rank, Assessment
<1>2. CASE Seen(bank) = {}
  BY <1>2 DEF Weakness
<1> QED
  BY <1>1, <1>2

(* No question is selected twice.                                          *)
LEMMA SelectedOnce ==
    ASSUME TypeOK, NEW t \in Template, NEW limit \in Nat,
           NEW selected \in select_template_questions(t, limit),
           NEW i \in 1..Len(selected), NEW j \in 1..Len(selected), selected[i] = selected[j]
    PROVE  i = j
<1>1. /\ DOMAIN selected = 1..Len(selected) /\ Len(selected) \in Nat
      /\ selected[i] \in Bank
  BY SelectedType
<1>2. ~SelectsBefore(t, selected[i], selected[i])
  <2>1. Weakness(selected[i]) \in Nat /\ BankPosition[selected[i]] \in Nat
    BY <1>1, WeaknessType, BankAssumption
  <2> QED
    BY <2>1 DEF SelectsBefore
<1>3. \A k, l \in 1..Len(selected) : k < l => SelectsBefore(t, selected[k], selected[l])
  BY <1>1 DEF select_template_questions
<1> QED
  BY <1>1, <1>2, <1>3

-----------------------------------------------------------------------------
(* Snapshots.  What SnapshotShape says of one quiz, of any row of its      *)
(* session and any table of questions.                                     *)
RowsOf(questions, s) == {i \in DOMAIN questions : questions[i].quiz_id = s}
BaseOf(questions, s) == {i \in RowsOf(questions, s) : questions[i].origin = "base"}

Shape(session, questions, s) ==
    /\ session.base_question_count > 0
    /\ {questions[i].position : i \in RowsOf(questions, s)} =
           1..Cardinality(RowsOf(questions, s))
    /\ {questions[i].position : i \in BaseOf(questions, s)} = 1..session.base_question_count
    /\ \A i, j \in BaseOf(questions, s) :
           questions[i].bank_question_id = questions[j].bank_question_id => i = j
    /\ \A i \in RowsOf(questions, s) : questions[i].objective_id \in session.objectives
    /\ \A i \in BaseOf(questions, s) :
           questions[i].objective_id = ConceptOf[questions[i].bank_question_id]
    /\ \A concept \in session.objectives :
           \E i \in BaseOf(questions, s) : questions[i].objective_id = concept

LEMMA ShapeOfEach ==
    /\ SnapshotShape <=> \A s \in Quizzes : Shape(quiz_sessions[s], quiz_questions, s)
    /\ SnapshotShape' <=>
           \A s \in DOMAIN quiz_sessions' : Shape(quiz_sessions'[s], quiz_questions', s)
BY DEF SnapshotShape, Shape, RowsOf, BaseOf, QuestionsOf, Quizzes

(* The columns the shape reads.                                            *)
SameColumns(old, new) ==
    /\ new.quiz_id = old.quiz_id
    /\ new.position = old.position
    /\ new.origin = old.origin
    /\ new.objective_id = old.objective_id
    /\ new.bank_question_id = old.bank_question_id

LEMMA ShapeKept ==
    ASSUME NEW old, NEW new, NEW s, NEW before, NEW after,
           RowsOf(new, s) = RowsOf(old, s),
           \A i \in RowsOf(old, s) : SameColumns(old[i], new[i]),
           after.base_question_count = before.base_question_count,
           after.objectives = before.objectives,
           Shape(before, old, s)
    PROVE  Shape(after, new, s)
<1>1. BaseOf(new, s) = BaseOf(old, s)
  BY DEF BaseOf, SameColumns
<1>2. /\ {new[i].position : i \in RowsOf(old, s)} = {old[i].position : i \in RowsOf(old, s)}
      /\ {new[i].position : i \in BaseOf(old, s)} = {old[i].position : i \in BaseOf(old, s)}
  BY DEF BaseOf, SameColumns
<1>3. \A i \in BaseOf(old, s) : SameColumns(old[i], new[i])
  BY DEF BaseOf
<1> QED
  BY <1>1, <1>2, <1>3 DEF Shape, SameColumns

(* A follow-up takes the number after the last.                            *)
LEMMA ShapeGrows ==
    ASSUME NEW old, NEW new, NEW s, NEW session, NEW k,
           IsFiniteSet(RowsOf(old, s)),
           k \notin RowsOf(old, s),
           RowsOf(new, s) = RowsOf(old, s) \cup {k},
           \A i \in RowsOf(old, s) : new[i] = old[i],
           new[k].position = Cardinality(RowsOf(old, s)) + 1,
           new[k].origin = "follow_up",
           new[k].objective_id \in session.objectives,
           Shape(session, old, s)
    PROVE  Shape(session, new, s)
<1>1. BaseOf(new, s) = BaseOf(old, s) /\ \A i \in BaseOf(old, s) : new[i] = old[i]
  BY DEF BaseOf
<1> DEFINE n == Cardinality(RowsOf(old, s))
<1>2. Cardinality(RowsOf(new, s)) = n + 1 /\ n \in Nat
  BY FS_AddElement, FS_CardinalityType
<1>3. {new[i].position : i \in RowsOf(new, s)} = 1..(n + 1)
  <2>1. {new[i].position : i \in RowsOf(new, s)} =
            {old[i].position : i \in RowsOf(old, s)} \cup {new[k].position}
    OBVIOUS
  <2>2. 1..(n + 1) = 1..n \cup {n + 1}
    BY <1>2
  <2> QED
    BY <2>1, <2>2 DEF Shape
<1>4. {new[i].position : i \in BaseOf(old, s)} = {old[i].position : i \in BaseOf(old, s)}
  BY <1>1
<1> HIDE DEF n
<1> QED
  BY <1>1, <1>2, <1>3, <1>4 DEF Shape

(* The rows create_quiz_snapshot adds have the shape.                      *)
Started(session, questions, s, first, n, selected) ==
    /\ n > 0
    /\ DOMAIN selected = 1..n
    /\ \A i, j \in 1..n : selected[i] = selected[j] => i = j
    /\ RowsOf(questions, s) = (first + 1)..(first + n)
    /\ \A i \in (first + 1)..(first + n) :
           /\ questions[i].position = i - first
           /\ questions[i].origin = "base"
           /\ questions[i].objective_id = ConceptOf[selected[i - first]]
           /\ questions[i].bank_question_id = selected[i - first]
    /\ session.base_question_count = n
    /\ session.objectives = {ConceptOf[selected[i]] : i \in DOMAIN selected}

LEMMA ShapeStarts ==
    ASSUME NEW questions, NEW s, NEW session, NEW first \in Nat, NEW n \in Nat, NEW selected,
           Started(session, questions, s, first, n, selected)
    PROVE  Shape(session, questions, s)
<1> USE DEF Started
<1> DEFINE Rows == (first + 1)..(first + n)
<1>1. BaseOf(questions, s) = Rows
  BY DEF BaseOf
<1>2. \A i \in Rows : i - first \in 1..n
  OBVIOUS
<1>3. \A i \in 1..n : first + i \in Rows /\ (first + i) - first = i
  OBVIOUS
<1>4. Cardinality(Rows) = n
  <2>1. first + 1 \in Int /\ first + n \in Int /\ (first + n) - (first + 1) + 1 = n
        /\ ~ (first + 1 > first + n)
    OBVIOUS
  <2> QED
    BY <2>1, FS_Interval
<1>5. {questions[i].position : i \in Rows} = 1..n
  <2>1. \A i \in Rows : questions[i].position \in 1..n
    BY <1>2
  <2>2. \A i \in 1..n : first + i \in Rows /\ questions[first + i].position = i
    BY <1>3
  <2> HIDE DEF Rows, Started
  <2> QED
    BY <2>1, <2>2
<1>6. \A i, j \in Rows : questions[i].bank_question_id = questions[j].bank_question_id => i = j
  <2>1. \A i, j \in Rows : i - first = j - first => i = j
    OBVIOUS
  <2> QED
    BY <1>2, <2>1
<1>7. \A i \in Rows : questions[i].objective_id \in session.objectives
  BY <1>2
<1>8. ASSUME NEW concept \in session.objectives
      PROVE  \E i \in Rows : questions[i].objective_id = concept
  <2>1. PICK i \in 1..n : concept = ConceptOf[selected[i]]
    OBVIOUS
  <2>2. first + i \in Rows /\ questions[first + i].objective_id = ConceptOf[selected[i]]
    BY <1>3
  <2> QED
    BY <2>1, <2>2
<1> HIDE DEF Rows
<1>9. RowsOf(questions, s) = Rows
  BY DEF Rows
<1>10. \A i \in Rows : questions[i].objective_id = ConceptOf[questions[i].bank_question_id]
  BY DEF Rows
<1> QED
  BY <1>1, <1>4, <1>5, <1>6, <1>7, <1>8, <1>9, <1>10 DEF Shape

(* Only quiz follow-up and a new quiz add rows to these tables.            *)
LEMMA StepGrows ==
    ASSUME TypeOK, [Next]_vars
    PROVE  \/ Quizzes' = Quizzes /\ DOMAIN quiz_questions' = DOMAIN quiz_questions
           \/ \E quiz, concept : QuizFollowUp(quiz, concept)
           \/ \E t \in Template, limit \in Nat : CreateSnapshot(t, limit)
<1> DEFINE Same == Quizzes' = Quizzes /\ DOMAIN quiz_questions' = DOMAIN quiz_questions
<1>1. CASE BankCommand \/ Tick \/ UNCHANGED vars
  BY <1>1 DEF BankCommand, Tick, vars, quiz_vars, quiz_tables, Quizzes
<1>2. ASSUME NEW quiz, SessionCommand(quiz)
      PROVE  Same \/ \E concept : QuizFollowUp(quiz, concept)
  <2>1. CASE QuizNext(quiz)
    BY <2>1 DEF QuizNext, NextAlreadyAsked, NextAsks, quiz_vars, quiz_tables, Quizzes
  <2>2. CASE \E i : QuizDefer(quiz, i) \/ QuizRequeue(quiz, i)
    BY <2>2 DEF QuizDefer, QuizRequeue, QuestionStateChange, Quizzes
  <2>3. CASE QuizPause(quiz) \/ QuizResume(quiz) \/ QuizComplete(quiz)
    BY <2>3 DEF QuizPause, QuizResume, QuizComplete, WriteSessionState, Quizzes
  <2>4. CASE QuizAbandon(quiz)
    BY <2>4 DEF QuizAbandon, WriteSessionState, Quizzes
  <2> QED
    BY <1>2, <2>1, <2>2, <2>3, <2>4 DEF SessionCommand
<1>3. ASSUME NEW t \in Template, NEW requested \in 0..MaxLimit, QuizStart(t, requested)
      PROVE  Same \/ \E limit \in Nat : CreateSnapshot(t, limit)
  <2>1. CASE StartExisting(t)
    BY <2>1 DEF StartExisting, quiz_vars, quiz_tables, Quizzes
  <2>2. CASE CreateSnapshot(t, IF requested > 0 THEN requested ELSE DefaultLimit)
    BY <2>2, QuizAssumption
  <2> QED
    BY <1>3, <2>1, <2>2 DEF QuizStart
<1>4. ASSUME NEW i, NEW assessment, NEW linked, ResponseSubmit(i, assessment, linked)
      PROVE  Same
  BY <1>4 DEF ResponseSubmit, Quizzes
<1>5. ASSUME NEW r, NEW assessment, ResponseRegrade(r, assessment)
      PROVE  Same
  BY <1>5 DEF ResponseRegrade, Quizzes
<1>6. ASSUME NEW source_type, NEW quiz, NEW response, LearningAdd(source_type, quiz, response)
      PROVE  Same
  BY <1>6 DEF LearningAdd, Quizzes
<1> DEFINE Follows == \E quiz, concept : QuizFollowUp(quiz, concept)
           Starts == \E t \in Template, limit \in Nat : CreateSnapshot(t, limit)
<1>7. CASE QuizCommand
  <2>1. CASE \E quiz \in Quizzes : SessionCommand(quiz)
    BY <1>2, <2>1
  <2>2. CASE \E t \in Template, requested \in 0..MaxLimit : QuizStart(t, requested)
    BY <1>3, <2>2
  <2>3. CASE \E i \in DOMAIN quiz_questions, assessment \in Assessment, linked \in BOOLEAN :
                 ResponseSubmit(i, assessment, linked)
    BY <1>4, <2>3
  <2>4. CASE \E response \in DOMAIN quiz_responses, assessment \in Assessment :
                 ResponseRegrade(response, assessment)
    BY <1>5, <2>4
  <2>5. CASE \E source_type \in SourceType, quiz \in Quizzes \cup {NULL},
                response \in DOMAIN quiz_responses \cup {NULL} :
                 LearningAdd(source_type, quiz, response)
    BY <1>6, <2>5
  <2> QED
    BY <1>7, <2>1, <2>2, <2>3, <2>4, <2>5, Zenon DEF QuizCommand
<1> QED
  BY <1>1, <1>7 DEF Next

(* Two numberings without a gap: the next position is one more than the    *)
(* number of questions.                                                    *)
LEMMA NextPositionCounts ==
    ASSUME NEW n \in Nat, NEW S \in SUBSET Nat, S = 1..n, NEW position \in Nat \ {0},
           \A p \in S : p < position,
           position = 1 \/ \E p \in S : p = position - 1
    PROVE  position = n + 1
<1>1. CASE n = 0
  BY <1>1
<1>2. CASE n # 0
  <2>1. n \in S
    BY <1>2
  <2>2. position > n
    BY <2>1
  <2> QED
    BY <1>2, <2>2
<1> QED
  BY <1>1, <1>2

(* The rows of a quiz are finitely many.                                   *)
LEMMA FewQuestions ==
    ASSUME TypeOK, NEW S \in SUBSET DOMAIN quiz_questions
    PROVE  IsFiniteSet(S) /\ Cardinality(S) \in Nat
<1>1. Len(quiz_questions) \in Int /\ DOMAIN quiz_questions = 1..Len(quiz_questions)
  BY TablesAreFunctions
<1>2. IsFiniteSet(1..Len(quiz_questions))
  BY <1>1, FS_Interval
<1> QED
  BY <1>1, <1>2, FS_Subset, FS_CardinalityType

(* quiz follow-up keeps the shape of every quiz.                           *)
LEMMA FollowUpShape ==
    ASSUME TypeOK, SnapshotShape, NEW quiz, NEW concept, QuizFollowUp(quiz, concept)
    PROVE  SnapshotShape'
<1> DEFINE k == Len(quiz_questions) + 1
<1>1. PICK position \in 1..k :
        /\ IsNextPosition(quiz, position)
        /\ quiz_questions' = Append(quiz_questions, FollowUpQuestion(quiz, position, concept))
  BY DEF QuizFollowUp, NextId
<1>2. /\ quiz \in Quizzes /\ concept \in quiz_sessions[quiz].objectives
      /\ quiz_sessions' = quiz_sessions /\ k \in Nat
  BY TablesAreFunctions DEF QuizFollowUp, InProgress
<1>3. concept \in Concept
  BY <1>2, TablesAreFunctions DEF SessionRow
<1>4. FollowUpQuestion(quiz, position, concept) \in QuestionRow
  BY <1>2, <1>3 DEF FollowUpQuestion, QuestionRow, QuestionState
<1>5. /\ DOMAIN quiz_questions' = DOMAIN quiz_questions \cup {k}
      /\ quiz_questions'[k] = FollowUpQuestion(quiz, position, concept)
      /\ \A i \in DOMAIN quiz_questions : i # k /\ quiz_questions'[i] = quiz_questions[i]
  BY <1>1, <1>4, AppendRow DEF TypeOK
<1> HIDE DEF k
<1>6. /\ quiz_questions'[k].quiz_id = quiz /\ quiz_questions'[k].position = position
      /\ quiz_questions'[k].origin = "follow_up" /\ quiz_questions'[k].objective_id = concept
  BY <1>5 DEF FollowUpQuestion
<1>7. ASSUME NEW s \in Quizzes, s # quiz
      PROVE  Shape(quiz_sessions[s], quiz_questions', s)
  <2>1. RowsOf(quiz_questions', s) = RowsOf(quiz_questions, s)
    BY <1>5, <1>6, <1>7 DEF RowsOf
  <2>2. \A i \in RowsOf(quiz_questions, s) : SameColumns(quiz_questions[i], quiz_questions'[i])
    BY <1>5 DEF RowsOf, SameColumns
  <2>3. Shape(quiz_sessions[s], quiz_questions, s)
    BY ShapeOfEach
  <2> QED
    BY <2>1, <2>2, <2>3, ShapeKept
<1>8. Shape(quiz_sessions[quiz], quiz_questions', quiz)
  <2> DEFINE n == Cardinality(RowsOf(quiz_questions, quiz))
             Positions == {quiz_questions[i].position : i \in RowsOf(quiz_questions, quiz)}
  <2>1. Shape(quiz_sessions[quiz], quiz_questions, quiz)
    BY <1>2, ShapeOfEach
  <2>2. IsFiniteSet(RowsOf(quiz_questions, quiz)) /\ n \in Nat
    BY FewQuestions DEF RowsOf
  <2>3. Positions = 1..n /\ Positions \subseteq Nat
    BY <2>1, <2>2 DEF Shape
  <2>4. /\ \A p \in Positions : p < position
        /\ position = 1 \/ \E p \in Positions : p = position - 1
    BY <1>1 DEF IsNextPosition, RowsOf, QuestionsOf
  <2>5. position \in Nat \ {0}
    BY <1>2
  <2> HIDE DEF Positions
  <2>6. position = n + 1
    BY <2>2, <2>3, <2>4, <2>5, NextPositionCounts
  <2>7. RowsOf(quiz_questions', quiz) = RowsOf(quiz_questions, quiz) \cup {k}
        /\ k \notin RowsOf(quiz_questions, quiz)
        /\ \A i \in RowsOf(quiz_questions, quiz) : quiz_questions'[i] = quiz_questions[i]
    BY <1>5, <1>6 DEF RowsOf
  <2> QED
    BY <1>2, <1>6, <2>1, <2>2, <2>6, <2>7, ShapeGrows
<1> QED
  BY <1>2, <1>7, <1>8, ShapeOfEach DEF Quizzes

-----------------------------------------------------------------------------
(* What create_quiz_snapshot writes, row by row.                           *)
Snapshot(t, limit, selected) ==
    LET quiz == Len(quiz_sessions) + 1
        first == Len(quiz_questions)
        n == Len(selected)
    IN  /\ n > 0
        /\ quiz \notin Quizzes
        /\ Quizzes' = Quizzes \cup {quiz}
        /\ \A s \in Quizzes : quiz_sessions'[s] = quiz_sessions[s]
        /\ quiz_sessions'[quiz] = StartedSession(t, selected)
        /\ DOMAIN quiz_questions' = 1..(first + n)
        /\ \A i \in DOMAIN quiz_questions : quiz_questions'[i] = quiz_questions[i]
        /\ \A i \in (first + 1)..(first + n) :
               quiz_questions'[i] = BaseQuestion(quiz, i - first, selected[i - first])
        /\ UNCHANGED <<question_bank, quiz_templates>>

LEMMA SnapshotWrites ==
    ASSUME TypeOK, NEW t \in Template, NEW limit \in Nat, CreateSnapshot(t, limit)
    PROVE  \E selected \in select_template_questions(t, limit) : Snapshot(t, limit, selected)
<1> DEFINE quiz == Len(quiz_sessions) + 1
           first == Len(quiz_questions)
<1>1. PICK selected \in select_template_questions(t, limit) :
        /\ selected # <<>>
        /\ quiz_sessions' = Append(quiz_sessions, StartedSession(t, selected))
        /\ quiz_questions' = quiz_questions \o
               [i \in 1..Len(selected) |-> BaseQuestion(quiz, i, selected[i])]
  BY DEF CreateSnapshot, NextId
<1> DEFINE n == Len(selected)
           base == [i \in 1..n |-> BaseQuestion(quiz, i, selected[i])]
<1>2. /\ n \in Nat /\ DOMAIN selected = 1..n
      /\ \A i \in 1..n : selected[i] \in Bank
  BY SelectedType
<1>3. n # 0
  BY <1>1, <1>2, SelectedType DEF select_template_questions
<1>4. StartedSession(t, selected) \in SessionRow
  BY <1>2, BankAssumption DEF StartedSession, SessionRow, SessionState
<1>5. /\ Quizzes' = Quizzes \cup {quiz} /\ quiz \notin Quizzes
      /\ quiz_sessions'[quiz] = StartedSession(t, selected)
      /\ \A s \in Quizzes : quiz_sessions'[s] = quiz_sessions[s]
  BY <1>1, <1>4, AppendRow DEF Quizzes, TypeOK
<1>6. /\ first \in Nat /\ DOMAIN quiz_questions = 1..first
      /\ quiz_questions \in Seq(QuestionRow)
  BY TablesAreFunctions DEF TypeOK
<1> DEFINE Row == QuestionRow'
<1>7. QuestionRow \subseteq Row
  BY <1>5 DEF QuestionRow
<1>8. base \in [1..n -> Row]
  BY <1>2, <1>5, BaseQuestionType
<1>9. \A i \in 1..n : base[i] = BaseQuestion(quiz, i, selected[i])
  OBVIOUS
<1>10. quiz_questions' = quiz_questions \o base
  BY <1>1
<1> HIDE DEF base, Row, n
<1>11. quiz_questions \in Seq(Row)
  BY <1>6, <1>7, SeqMonotonic
<1>12. /\ DOMAIN quiz_questions' = 1..(first + n)
       /\ \A i \in DOMAIN quiz_questions : quiz_questions'[i] = quiz_questions[i]
       /\ \A i \in DOMAIN quiz_questions' \ DOMAIN quiz_questions :
              i - first \in 1..n /\ quiz_questions'[i] = base[i - first]
  <2>1. DOMAIN (quiz_questions \o base) = 1..(first + n)
    BY <1>2, <1>8, <1>11, ConcatRows
  <2>2. \A i \in DOMAIN quiz_questions : (quiz_questions \o base)[i] = quiz_questions[i]
    BY <1>2, <1>8, <1>11, ConcatRows
  <2>3. \A i \in DOMAIN (quiz_questions \o base) \ DOMAIN quiz_questions :
            i - first \in 1..n /\ (quiz_questions \o base)[i] = base[i - first]
    BY <1>2, <1>8, <1>11, ConcatRows
  <2> QED
    BY <1>10, <2>1, <2>2, <2>3
<1>13. ASSUME NEW i \in (first + 1)..(first + n)
       PROVE  quiz_questions'[i] = BaseQuestion(quiz, i - first, selected[i - first])
  <2>1. i \in DOMAIN quiz_questions' \ DOMAIN quiz_questions
    BY <1>2, <1>6, <1>12
  <2> QED
    BY <1>9, <1>12, <2>1
<1>14. UNCHANGED <<question_bank, quiz_templates>>
  BY DEF CreateSnapshot
<1>15. n > 0
  BY <1>2, <1>3
<1>16. Snapshot(t, limit, selected)
  BY <1>5, <1>12, <1>13, <1>14, <1>15 DEF Snapshot, n
<1> QED
  BY <1>16

(* A new quiz has the shape and leaves the others theirs.                  *)
LEMMA StartShape ==
    ASSUME TypeOK, SnapshotShape, NEW t \in Template, NEW limit \in Nat,
           CreateSnapshot(t, limit)
    PROVE  SnapshotShape'
<1> DEFINE quiz == Len(quiz_sessions) + 1
           first == Len(quiz_questions)
<1>1. PICK selected \in select_template_questions(t, limit) : Snapshot(t, limit, selected)
  BY SnapshotWrites
<1> DEFINE n == Len(selected)
           Added == (first + 1)..(first + n)
<1>2. /\ n \in Nat /\ n > 0 /\ DOMAIN selected = 1..n
      /\ first \in Nat /\ DOMAIN quiz_questions = 1..first
  BY <1>1, SelectedType, TablesAreFunctions DEF Snapshot
<1>3. /\ quiz \notin Quizzes /\ Quizzes' = Quizzes \cup {quiz}
      /\ \A s \in Quizzes : quiz_sessions'[s] = quiz_sessions[s]
      /\ quiz_sessions'[quiz] = StartedSession(t, selected)
      /\ DOMAIN quiz_questions' = 1..(first + n)
      /\ \A i \in DOMAIN quiz_questions : quiz_questions'[i] = quiz_questions[i]
      /\ \A i \in Added :
             quiz_questions'[i] = BaseQuestion(quiz, i - first, selected[i - first])
  BY <1>1 DEF Snapshot
<1>4. DOMAIN quiz_questions' = DOMAIN quiz_questions \cup Added
  BY <1>2, <1>3
<1>5. ASSUME NEW i \in Added
      PROVE  /\ quiz_questions'[i].quiz_id = quiz
             /\ quiz_questions'[i].position = i - first
             /\ quiz_questions'[i].origin = "base"
             /\ quiz_questions'[i].objective_id = ConceptOf[selected[i - first]]
             /\ quiz_questions'[i].bank_question_id = selected[i - first]
  <2>1. quiz_questions'[i] = BaseQuestion(quiz, i - first, selected[i - first])
    BY <1>3
  <2> HIDE DEF quiz, first, n
  <2> QED
    BY <2>1 DEF BaseQuestion
<1>6. \A i \in DOMAIN quiz_questions : quiz_questions[i].quiz_id \in Quizzes
  BY TablesAreFunctions DEF QuestionRow
<1>7. \A i, j \in 1..n : selected[i] = selected[j] => i = j
  BY SelectedOnce
<1>8. /\ quiz_sessions'[quiz].base_question_count = n
      /\ quiz_sessions'[quiz].objectives = {ConceptOf[selected[i]] : i \in DOMAIN selected}
  BY <1>3 DEF StartedSession
<1> HIDE DEF Added, n, quiz, first
<1>9. ASSUME NEW s \in Quizzes
      PROVE  Shape(quiz_sessions'[s], quiz_questions', s)
  <2>1. RowsOf(quiz_questions', s) = RowsOf(quiz_questions, s)
    BY <1>3, <1>4, <1>5 DEF RowsOf
  <2>2. \A i \in RowsOf(quiz_questions, s) : SameColumns(quiz_questions[i], quiz_questions'[i])
    BY <1>3 DEF RowsOf, SameColumns
  <2>3. Shape(quiz_sessions[s], quiz_questions, s) /\ quiz_sessions'[s] = quiz_sessions[s]
    BY <1>3, ShapeOfEach
  <2> QED
    BY <2>1, <2>2, <2>3, ShapeKept
<1>10. Shape(quiz_sessions'[quiz], quiz_questions', quiz)
  <2>1. RowsOf(quiz_questions', quiz) = (first + 1)..(first + n)
    <3>1. \A i \in DOMAIN quiz_questions : quiz_questions'[i].quiz_id # quiz
      BY <1>3, <1>6
    <3> QED
      BY <1>4, <1>5, <3>1 DEF RowsOf, Added
  <2>2. \A i \in (first + 1)..(first + n) :
            /\ quiz_questions'[i].position = i - first
            /\ quiz_questions'[i].origin = "base"
            /\ quiz_questions'[i].objective_id = ConceptOf[selected[i - first]]
            /\ quiz_questions'[i].bank_question_id = selected[i - first]
    BY <1>5 DEF Added
  <2>3. Started(quiz_sessions'[quiz], quiz_questions', quiz, first, n, selected)
    BY <1>2, <1>7, <1>8, <2>1, <2>2 DEF Started
  <2> QED
    BY <1>2, <2>3, ShapeStarts
<1> QED
  BY <1>3, <1>9, <1>10, ShapeOfEach DEF Quizzes

(* No other step changes a column the shape reads.                         *)
LEMMA SameRowsShape ==
    ASSUME TypeOK, StepKind, SnapshotShape,
           Quizzes' = Quizzes, DOMAIN quiz_questions' = DOMAIN quiz_questions
    PROVE  SnapshotShape'
<1>1. \A i \in DOMAIN quiz_questions : SameColumns(quiz_questions[i], quiz_questions'[i])
  <2> SUFFICES ASSUME NEW i \in DOMAIN quiz_questions
               PROVE  SameColumns(quiz_questions[i], quiz_questions'[i])
    OBVIOUS
  <2>1. quiz_questions[i] \in QuestionRow
    BY RowFields
  <2>2. quiz_questions'[i] = [quiz_questions[i] EXCEPT
            !.state = quiz_questions'[i].state, !.asked_at = quiz_questions'[i].asked_at]
    BY StepKeepsRows, Zenon
  <2> QED
    BY <2>1, <2>2 DEF QuestionRow, SameColumns
<1>2. ASSUME NEW s \in Quizzes
      PROVE  Shape(quiz_sessions'[s], quiz_questions', s)
  <2>1. RowsOf(quiz_questions', s) = RowsOf(quiz_questions, s)
    BY <1>1 DEF RowsOf, SameColumns
  <2>2. /\ quiz_sessions'[s].base_question_count = quiz_sessions[s].base_question_count
        /\ quiz_sessions'[s].objectives = quiz_sessions[s].objectives
    <3>1. quiz_sessions[s] \in SessionRow
      BY RowFields
    <3>2. quiz_sessions'[s] = [quiz_sessions[s] EXCEPT
              !.state = quiz_sessions'[s].state,
              !.completed_at = quiz_sessions'[s].completed_at]
      BY StepKeepsRows, Zenon
    <3> QED
      BY <3>1, <3>2 DEF SessionRow
  <2>3. \A i \in RowsOf(quiz_questions, s) : SameColumns(quiz_questions[i], quiz_questions'[i])
    BY <1>1 DEF RowsOf
  <2> QED
    BY <2>1, <2>2, <2>3, ShapeKept, ShapeOfEach
<1> QED
  BY <1>2, ShapeOfEach DEF Quizzes

(* A quiz keeps the shape of its snapshot: quiz start numbers the distinct *)
(* questions it selects from 1, quiz follow-up takes the number after the  *)
(* last for an objective the quiz has, and nothing else writes a column    *)
(* of it.                                                                  *)
THEOREM Shaped == Spec => []SnapshotShape
<1>1. Init => SnapshotShape
  BY DEF Init, SnapshotShape, Quizzes
<1>2. TypeOK /\ SnapshotShape /\ [Next]_vars => SnapshotShape'
  BY StepGrows, StepKinds, FollowUpShape, StartShape, SameRowsShape
<1> QED
  BY <1>1, <1>2, TypeCorrect, PTL DEF Spec

-----------------------------------------------------------------------------
(* Counting.                                                               *)

(* Where n things are numbered 1..n, as many have the numbers 1..m.        *)
LEMMA CountNumbered ==
    ASSUME NEW S, IsFiniteSet(S), NEW f \in [S -> Nat], NEW B \in SUBSET S, NEW m \in Nat,
           {f[i] : i \in S} = 1..Cardinality(S),
           {f[i] : i \in B} = 1..m
    PROVE  Cardinality(B) = m
<1> DEFINE n == Cardinality(S)
<1>1. n \in Nat /\ Cardinality(1..n) = n
  <2>1. n \in Nat
    BY FS_CardinalityType
  <2>2. 1 \in Int /\ n \in Int
    BY <2>1
  <2>3. Cardinality(1..n) = IF 1 > n THEN 0 ELSE n - 1 + 1
    BY <2>2, FS_Interval
  <2> QED
    BY <2>1, <2>3
<1>2. f \in Injection(S, 1..n)
  <2>1. f \in Surjection(S, 1..n)
    BY DEF Surjection
  <2> QED
    BY <1>1, <2>1, FS_SurjSameCardinalityImpliesInj
<1> DEFINE g == [i \in B |-> f[i]]
<1>3. g \in Injection(B, 1..m)
  <2>1. \A i \in B : f[i] \in {f[j] : j \in B}
    OBVIOUS
  <2>2. g \in [B -> 1..m]
    BY <2>1
  <2>3. \A i, j \in S : f[i] = f[j] => i = j
    BY <1>2 DEF Injection, IsInjective
  <2>4. \A i, j \in B : g[i] = g[j] => i = j
    BY <2>3
  <2> HIDE DEF g
  <2> QED
    BY <2>2, <2>4 DEF Injection, IsInjective
<1>4. g \in Surjection(B, 1..m)
  BY DEF Surjection
<1>5. IsFiniteSet(1..m) /\ Cardinality(1..m) = m
  <2>1. 1 \in Int /\ m \in Int
    OBVIOUS
  <2>2. IsFiniteSet(1..m) /\ Cardinality(1..m) = IF 1 > m THEN 0 ELSE m - 1 + 1
    BY <2>1, FS_Interval
  <2> QED
    BY <2>2
<1> HIDE DEF g
<1>6. Cardinality(B) = Cardinality(1..m)
  BY <1>3, <1>4, <1>5, FS_Injection
<1> QED
  BY <1>5, <1>6

(* A quiz has the base questions its session counts.                       *)
LEMMA BaseCount ==
    ASSUME TypeOK, SnapshotShape, NEW s \in Quizzes
    PROVE  Cardinality(BaseQuestions(s)) = quiz_sessions[s].base_question_count
<1> DEFINE S == QuestionsOf(s)
           f == [i \in S |-> quiz_questions[i].position]
           m == quiz_sessions[s].base_question_count
<1>1. IsFiniteSet(S)
  BY FewQuestions DEF QuestionsOf
<1>2. f \in [S -> Nat]
  BY RowFields DEF QuestionsOf, QuestionRow
<1>3. m \in Nat
  BY RowFields DEF SessionRow
<1>4. BaseQuestions(s) \in SUBSET S
  BY DEF BaseQuestions
<1>5. /\ {quiz_questions[i].position : i \in S} = 1..Cardinality(S)
      /\ {quiz_questions[i].position : i \in BaseQuestions(s)} = 1..m
  BY DEF SnapshotShape, BaseQuestions
<1>6. {f[i] : i \in S} = 1..Cardinality(S) /\ {f[i] : i \in BaseQuestions(s)} = 1..m
  BY <1>4, <1>5
<1> HIDE DEF S, f, m
<1>7. Cardinality(BaseQuestions(s)) = m
  BY <1>1, <1>2, <1>3, <1>4, <1>6, CountNumbered
<1> QED
  BY <1>7 DEF m

(* At most one question of a quiz is asked.                                *)
LEMMA AskedCount ==
    ASSUME TypeOK, OneAskedPerQuiz, NEW s \in Quizzes
    PROVE  Cardinality(Asked(s)) \in {0, 1}
<1>1. CASE Asked(s) = {}
  BY <1>1, FS_EmptySet
<1>2. ASSUME NEW i \in Asked(s)
      PROVE  Cardinality(Asked(s)) = 1
  <2>1. Asked(s) = {i}
    BY DEF Asked, QuestionsOf, OneAskedPerQuiz
  <2> QED
    BY <2>1, FS_Singleton
<1> QED
  BY <1>1, <1>2

(* The invariants of a quiz the reports rest on.                           *)
QuizInv ==
    /\ TypeOK
    /\ OneAskedPerQuiz
    /\ QuestionHistory
    /\ TerminalIsResolved
    /\ SnapshotShape
    /\ AttemptsNumbered

LEMMA QuizInvariant == Spec => []QuizInv
BY TypeCorrect, OneAsked, History, TerminalResolved, Shaped, Numbered, PTL DEF QuizInv

LEMMA DriftFree == QuizInv => NoDrift
<1> SUFFICES ASSUME QuizInv PROVE NoDrift
  OBVIOUS
<1> USE DEF QuizInv
<1>1. MultipleAsked = {}
  <2>1. \A s \in Quizzes : ~ (Cardinality(Asked(s)) > 1)
    BY AskedCount
  <2> QED
    BY <2>1 DEF MultipleAsked
<1>2. AnsweredWithoutResponse = {}
  BY DEF AnsweredWithoutResponse, QuestionHistory
<1>3. CompletedUnresolved = {}
  <2> SUFFICES ASSUME NEW s \in Quizzes, quiz_sessions[s].state = "completed",
                      NEW i \in UnresolvedOf(s)
               PROVE  FALSE
    BY DEF CompletedUnresolved
  <2>1. i \in DOMAIN quiz_questions /\ quiz_questions[i].quiz_id = s
        /\ quiz_questions[i].state \in Unresolved
    BY DEF UnresolvedOf, QuestionsOf
  <2>2. quiz_questions[i].state = "answered"
    BY <2>1 DEF TerminalIsResolved
  <2> QED
    BY <2>1, <2>2 DEF Unresolved
<1>4. BaseCountMismatch = {}
  BY BaseCount DEF BaseCountMismatch
<1> QED
  BY <1>1, <1>2, <1>3, <1>4 DEF NoDrift

(* report state-drift never has anything to report: no command, in any     *)
(* order, leaves two questions asked, an answered question without a       *)
(* response, a completed quiz unresolved or a base question uncounted.     *)
THEOREM DriftNever == Spec => []NoDrift
BY QuizInvariant, DriftFree, PTL

-----------------------------------------------------------------------------
(* The latest response.                                                    *)

(* Of some numbers up to n, one is the greatest.                           *)
LEMMA GreatestOf ==
    ASSUME NEW n \in Nat, NEW S \in SUBSET (1..n), S # {}
    PROVE  \E r \in S : \A o \in S : o <= r
<1> DEFINE Bounds == {m \in Nat : \A o \in S : o <= m}
<1>1. n \in Bounds
  OBVIOUS
<1>2. PICK k \in Bounds : \A m \in Bounds : k <= m
  <2>1. Bounds \subseteq Nat /\ Bounds # {}
    BY <1>1
  <2> HIDE DEF Bounds
  <2> QED
    BY <2>1, LeastNat
<1>3. k \in Nat /\ k # 0
  <2>1. PICK o \in S : TRUE
    OBVIOUS
  <2>2. o <= k /\ o \in 1..n
    OBVIOUS
  <2> QED
    BY <2>2
<1>4. k - 1 \in Nat /\ k - 1 \notin Bounds
  BY <1>2, <1>3
<1>5. PICK o \in S : ~ (o <= k - 1)
  BY <1>4
<1>6. o = k
  BY <1>2, <1>3, <1>5
<1> QED
  BY <1>2, <1>6

(* A question with responses has one latest response, one without none.    *)
LEMMA OneLatest ==
    ASSUME TypeOK, AttemptsNumbered, NEW i \in DOMAIN quiz_questions
    PROVE  IF ResponsesTo(i) = {} THEN LatestResponse(i) = {}
           ELSE \E r \in ResponsesTo(i) : LatestResponse(i) = {r}
<1> DEFINE S == ResponsesTo(i)
<1>1. S \subseteq DOMAIN quiz_responses /\ S \subseteq 1..Len(quiz_responses)
      /\ Len(quiz_responses) \in Nat
      /\ \A r \in S : r \in Nat /\ quiz_responses[r].attempt_number \in Nat
  BY TablesAreFunctions DEF ResponsesTo, ResponseRow
<1>2. CASE S = {}
  BY <1>2 DEF LatestResponse
<1>3. CASE S # {}
  <2>1. PICK r \in S : \A o \in S : o <= r
    BY <1>1, <1>3, GreatestOf
  <2>2. ASSUME NEW o \in S
        PROVE  quiz_responses[o].attempt_number <= quiz_responses[r].attempt_number
    <3>1. UpTo(i, o) \subseteq UpTo(i, r)
      BY <1>1, <2>1 DEF UpTo
    <3>2. IsFiniteSet(UpTo(i, r)) /\ Cardinality(UpTo(i, r)) \in Nat
      BY <1>1, FewResponses DEF UpTo
    <3>3. Cardinality(UpTo(i, o)) <= Cardinality(UpTo(i, r))
      BY <3>1, <3>2, FS_Subset
    <3> QED
      BY <3>3 DEF AttemptsNumbered, UpTo
  <2>3. r \in LatestResponse(i)
    BY <1>1, <2>1, <2>2 DEF LatestResponse
  <2>4. ASSUME NEW l \in LatestResponse(i)
        PROVE  l = r
    <3>1. /\ l \in S
          /\ \/ quiz_responses[r].attempt_number < quiz_responses[l].attempt_number
             \/ r <= l
      BY DEF LatestResponse
    <3>2. /\ l \in Nat /\ r \in Nat /\ l <= r
          /\ quiz_responses[l].attempt_number \in Nat
          /\ quiz_responses[r].attempt_number \in Nat
          /\ quiz_responses[l].attempt_number <= quiz_responses[r].attempt_number
      <4>1. /\ l \in Nat /\ r \in Nat
            /\ quiz_responses[l].attempt_number \in Nat
            /\ quiz_responses[r].attempt_number \in Nat
        BY <1>1, <3>1
      <4> QED
        BY <2>1, <2>2, <3>1, <4>1
    <3> QED
      BY <3>1, <3>2
  <2> QED
    BY <1>3, <2>3, <2>4
<1> QED
  BY <1>2, <1>3

(* The answered questions of a quiz are those with a grade, by grade.      *)
LEMMA AnsweredByGrade ==
    ASSUME QuizInv, NEW s \in Quizzes
    PROVE  Cardinality(InState(s, "answered")) =
               Cardinality(LatestIs(s, "correct")) + Cardinality(LatestIs(s, "partially_correct"))
                   + Cardinality(LatestIs(s, "incorrect"))
<1> USE DEF QuizInv
<1> DEFINE A == LatestIs(s, "correct")
           B == LatestIs(s, "partially_correct")
           C == LatestIs(s, "incorrect")
<1>1. ASSUME NEW i \in QuestionsOf(s)
      PROVE  /\ \A r, l \in LatestResponse(i) : r = l
             /\ \A r \in LatestResponse(i) : quiz_responses[r].assessment \in Assessment
             /\ quiz_questions[i].state = "answered" <=> LatestResponse(i) # {}
  <2>1. i \in DOMAIN quiz_questions
    BY DEF QuestionsOf
  <2>2. \A r \in LatestResponse(i) : quiz_responses[r].assessment \in Assessment
    BY RowFields DEF LatestResponse, ResponsesTo, ResponseRow
  <2>3. quiz_questions[i].state = "answered" <=> ResponsesTo(i) # {}
    BY <2>1 DEF QuestionHistory
  <2> QED
    BY <2>1, <2>2, <2>3, OneLatest
<1>2. InState(s, "answered") = A \cup B \cup C
  BY <1>1 DEF InState, LatestIs, Assessment
<1>3. A \cap B = {} /\ (A \cup B) \cap C = {}
  BY <1>1 DEF LatestIs
<1>4. /\ IsFiniteSet(A) /\ IsFiniteSet(B) /\ IsFiniteSet(C)
      /\ Cardinality(A) \in Nat /\ Cardinality(B) \in Nat /\ Cardinality(C) \in Nat
  BY FewQuestions DEF LatestIs, QuestionsOf
<1> HIDE DEF A, B, C
<1>5. Cardinality({}) = 0
  BY FS_EmptySet
<1>6. /\ IsFiniteSet(A \cup B)
      /\ Cardinality(A \cup B) = Cardinality(A) + Cardinality(B) - Cardinality(A \cap B)
  BY <1>4, FS_Union
<1>7. Cardinality((A \cup B) \cup C) =
          Cardinality(A \cup B) + Cardinality(C) - Cardinality((A \cup B) \cap C)
  BY <1>4, <1>6, FS_Union
<1>8. Cardinality(A \cap B) = 0 /\ Cardinality((A \cup B) \cap C) = 0
  BY <1>3, <1>5
<1>9. Cardinality((A \cup B) \cup C) = Cardinality(A) + Cardinality(B) + Cardinality(C)
  BY <1>4, <1>6, <1>7, <1>8
<1> QED
  BY <1>2, <1>9 DEF A, B, C

LEMMA RowAddsUp == QuizInv => ProgressAddsUp
<1> SUFFICES ASSUME QuizInv, NEW s \in Quizzes
             PROVE  LET row == QuizProgress(s)
                    IN  /\ row.states["answered"] = row.responses["correct"]
                               + row.responses["partially_correct"] + row.responses["incorrect"]
                        /\ row.base = quiz_sessions[s].base_question_count
                        /\ row.total = row.base + row.follow_up
                        /\ row.states["asked"] <= 1
                        /\ quiz_sessions[s].state = "completed" => row.total = row.states["answered"]
  BY DEF ProgressAddsUp
<1> DEFINE row == QuizProgress(s)
<1>1. /\ row.total = Cardinality(QuestionsOf(s))
      /\ row.base = Cardinality(BaseQuestions(s))
      /\ row.follow_up = Cardinality(QuestionsOf(s) \ BaseQuestions(s))
      /\ \A state \in QuestionState : row.states[state] = Cardinality(InState(s, state))
      /\ \A a \in Assessment : row.responses[a] = Cardinality(LatestIs(s, a))
  BY DEF QuizProgress
<1>2. /\ "answered" \in QuestionState /\ "asked" \in QuestionState
      /\ {"correct", "partially_correct", "incorrect"} \subseteq Assessment
  BY DEF QuestionState, Assessment
<1> HIDE DEF row
<1>3. row.states["answered"] = row.responses["correct"]
          + row.responses["partially_correct"] + row.responses["incorrect"]
  BY <1>1, <1>2, AnsweredByGrade
<1>4. row.base = quiz_sessions[s].base_question_count
  BY <1>1, BaseCount DEF QuizInv
<1>5. row.total = row.base + row.follow_up
  <2>1. /\ IsFiniteSet(QuestionsOf(s)) /\ Cardinality(QuestionsOf(s)) \in Nat
        /\ Cardinality(BaseQuestions(s)) \in Nat
    BY FewQuestions DEF QuestionsOf, BaseQuestions, QuizInv
  <2>2. QuestionsOf(s) \cap BaseQuestions(s) = BaseQuestions(s)
    BY DEF BaseQuestions
  <2>3. Cardinality(QuestionsOf(s) \ BaseQuestions(s)) =
            Cardinality(QuestionsOf(s)) - Cardinality(BaseQuestions(s))
    BY <2>1, <2>2, FS_Difference
  <2> QED
    BY <1>1, <2>1, <2>3
<1>6. row.states["asked"] <= 1
  <2>1. InState(s, "asked") = Asked(s)
    BY DEF InState, Asked
  <2> QED
    BY <1>1, <1>2, <2>1, AskedCount DEF QuizInv
<1>7. quiz_sessions[s].state = "completed" => row.total = row.states["answered"]
  <2>1. quiz_sessions[s].state = "completed" => InState(s, "answered") = QuestionsOf(s)
    BY DEF InState, QuestionsOf, TerminalIsResolved, QuizInv
  <2> QED
    BY <1>1, <1>2, <2>1
<1> QED
  BY <1>3, <1>4, <1>5, <1>6, <1>7 DEF row

(* The row quiz_progress gives of a quiz always adds up: however often a   *)
(* question was answered and regraded, its one latest response counts, and *)
(* base and follow-up questions make the total.                            *)
THEOREM ProgressRight == Spec => []ProgressAddsUp
BY QuizInvariant, RowAddsUp, PTL

-----------------------------------------------------------------------------
(* What a new quiz asks.                                                   *)

(* A template is of a chapter or of a tag.                                 *)
LEMMA TwoKinds == \A t : ~ (t \in ChapterTemplate /\ t \in TagTemplate)
<1> SUFFICES ASSUME NEW t \in ChapterTemplate, t \in TagTemplate PROVE FALSE
  OBVIOUS
<1>1. DOMAIN t = {"unit_id", "checkpoint"}
  BY DEF ChapterTemplate
<1>2. DOMAIN t = {"tag_id"}
  BY DEF TagTemplate
<1> QED
  BY <1>1, <1>2

(* The quiz and the questions a step inserts are one snapshot, or none.    *)
LEMMA NewQuizIsSnapshot ==
    ASSUME TypeOK, [Next]_vars, NEW s \in NewQuizzes
    PROVE  \E t \in Template, limit \in Nat :
               \E selected \in select_template_questions(t, limit) :
                   /\ Snapshot(t, limit, selected)
                   /\ s = Len(quiz_sessions) + 1
                   /\ quiz_sessions'[s].template_id = t
                   /\ NewQuestions(s) =
                          (Len(quiz_questions) + 1)..(Len(quiz_questions) + Len(selected))
<1>1. ASSUME NEW quiz, NEW concept, QuizFollowUp(quiz, concept) PROVE FALSE
  <2>1. quiz_sessions' = quiz_sessions
    BY <1>1 DEF QuizFollowUp
  <2> QED
    BY <2>1 DEF NewQuizzes
<1>2. PICK t \in Template, limit \in Nat : CreateSnapshot(t, limit)
  <2>1. ~ (Quizzes' = Quizzes)
    BY DEF NewQuizzes, Quizzes
  <2> QED
    BY <1>1, <2>1, StepGrows
<1>3. PICK selected \in select_template_questions(t, limit) : Snapshot(t, limit, selected)
  BY <1>2, SnapshotWrites
<1> DEFINE quiz == Len(quiz_sessions) + 1
           first == Len(quiz_questions)
           n == Len(selected)
<1>4. /\ s = quiz
      /\ quiz_sessions'[quiz] = StartedSession(t, selected)
      /\ DOMAIN quiz_questions' = 1..(first + n)
      /\ \A i \in (first + 1)..(first + n) :
             quiz_questions'[i] = BaseQuestion(quiz, i - first, selected[i - first])
  BY <1>3 DEF Snapshot, NewQuizzes, Quizzes
<1>5. quiz_sessions'[s].template_id = t
  BY <1>4 DEF StartedSession
<1>6. n \in Nat /\ first \in Nat /\ DOMAIN quiz_questions = 1..first
  BY SelectedType, TablesAreFunctions
<1>7. ASSUME NEW i \in (first + 1)..(first + n) PROVE quiz_questions'[i].quiz_id = s
  <2>1. quiz_questions'[i] = BaseQuestion(quiz, i - first, selected[i - first])
    BY <1>4
  <2> HIDE DEF quiz
  <2> QED
    BY <1>4, <2>1 DEF BaseQuestion
<1>8. NewQuestions(s) = {i \in 1..(first + n) : quiz_questions'[i].quiz_id = s} \ 1..first
  BY <1>4, <1>6 DEF NewQuestions, QuestionsOf
<1> HIDE DEF quiz, first, n
<1>9. NewQuestions(s) = (first + 1)..(first + n)
  BY <1>6, <1>7, <1>8
<1> QED
  BY <1>3, <1>4, <1>5, <1>9 DEF quiz, first, n

(* What a snapshot writes of question i of its quiz.                       *)
LEMMA SnapshotRow ==
    ASSUME TypeOK, NEW t \in Template, NEW limit \in Nat,
           NEW selected \in select_template_questions(t, limit), Snapshot(t, limit, selected),
           NEW i \in (Len(quiz_questions) + 1)..(Len(quiz_questions) + Len(selected))
    PROVE  /\ i - Len(quiz_questions) \in 1..Len(selected)
           /\ quiz_questions'[i].bank_question_id = selected[i - Len(quiz_questions)]
           /\ quiz_questions'[i].revision =
                  question_bank[selected[i - Len(quiz_questions)]].revision
<1> DEFINE first == Len(quiz_questions)
<1>1. quiz_questions'[i] =
          BaseQuestion(Len(quiz_sessions) + 1, i - first, selected[i - first])
  BY DEF Snapshot
<1>2. first \in Nat /\ Len(selected) \in Nat
  BY SelectedType, TablesAreFunctions
<1>3. i - first \in 1..Len(selected)
  BY <1>2
<1> HIDE DEF first
<1>4. /\ quiz_questions'[i].bank_question_id = selected[i - first]
      /\ quiz_questions'[i].revision = question_bank[selected[i - first]].revision
  BY <1>1 DEF BaseQuestion
<1> QED
  BY <1>3, <1>4 DEF first

(* A chapter template selects all its active questions, in order.          *)
LEMMA ChapterSelectsAll ==
    ASSUME TypeOK, NEW t \in Template, t \in ChapterTemplate, NEW limit \in Nat,
           NEW selected \in select_template_questions(t, limit)
    PROVE  /\ {selected[i] : i \in 1..Len(selected)} = Candidates(t)
           /\ \A i, j \in 1..Len(selected) :
                  i < j => BankPosition[selected[i]] < BankPosition[selected[j]]
<1> DEFINE n == Len(selected)
<1>1. ~Adaptive(t)
  BY TwoKinds DEF Adaptive
<1>2. n \in Nat /\ DOMAIN selected = 1..n /\ \A i \in 1..n : selected[i] \in Candidates(t)
  BY SelectedType
<1>3. IsFiniteSet(Candidates(t)) /\ Cardinality(Candidates(t)) \in Nat
  BY SelectionSizeType, BankAssumption, FS_Subset, FS_CardinalityType
<1>4. /\ selected \in [1..SelectionSize(t, limit) -> Candidates(t)]
      /\ SelectionSize(t, limit) = Cardinality(Candidates(t))
  BY <1>1 DEF select_template_questions, SelectionSize
<1>5. n = Cardinality(Candidates(t))
  BY <1>2, <1>3, <1>4
<1>6. selected \in Injection(1..n, Candidates(t))
  BY <1>2, <1>4, <1>5, SelectedOnce DEF Injection, IsInjective
<1>7. Cardinality(1..n) = n
  <2>1. 1 \in Int /\ n \in Int
    BY <1>2
  <2>2. Cardinality(1..n) = IF 1 > n THEN 0 ELSE n - 1 + 1
    BY <2>1, FS_Interval
  <2> QED
    BY <1>2, <2>2
<1>8. selected \in Surjection(1..n, Candidates(t))
  BY <1>3, <1>5, <1>6, <1>7, FS_Injection
<1>9. {selected[i] : i \in 1..n} = Candidates(t)
  BY <1>2, <1>8 DEF Surjection
<1>10. \A i, j \in 1..n : i < j => SelectsBefore(t, selected[i], selected[j])
  BY <1>2 DEF select_template_questions
<1> QED
  BY <1>1, <1>9, <1>10 DEF SelectsBefore

LEMMA StepTakesCurrentBank ==
    ASSUME TypeOK, [Next]_vars, NEW s \in NewQuizzes, NEW t, t = quiz_sessions'[s].template_id
    PROVE  LET taken == {quiz_questions'[i].bank_question_id : i \in NewQuestions(s)}
               linked == {q \in quiz_templates[t].questions : IsActive(q)}
           IN  /\ taken \subseteq linked
               /\ t \in ChapterTemplate => taken = linked
               /\ \A i \in NewQuestions(s) :
                      quiz_questions'[i].revision =
                          question_bank[quiz_questions'[i].bank_question_id].revision
               /\ t \in ChapterTemplate => \A i, j \in NewQuestions(s) : i < j =>
                      BankPosition[quiz_questions'[i].bank_question_id] <
                          BankPosition[quiz_questions'[j].bank_question_id]
<1>1. t \in Template
  BY NewQuizIsSnapshot
<1>2. PICK limit \in Nat :
        \E selected \in select_template_questions(t, limit) :
            /\ Snapshot(t, limit, selected)
            /\ NewQuestions(s) =
                   (Len(quiz_questions) + 1)..(Len(quiz_questions) + Len(selected))
  BY NewQuizIsSnapshot
<1>s. PICK selected \in select_template_questions(t, limit) :
        /\ Snapshot(t, limit, selected)
        /\ NewQuestions(s) = (Len(quiz_questions) + 1)..(Len(quiz_questions) + Len(selected))
  BY <1>2
<1> DEFINE first == Len(quiz_questions)
           n == Len(selected)
           taken == {quiz_questions'[i].bank_question_id : i \in NewQuestions(s)}
<1>3. /\ first \in Nat /\ n \in Nat
      /\ \A j \in 1..n : selected[j] \in Candidates(t)
  BY <1>1, SelectedType, TablesAreFunctions
<1>4. \A i \in NewQuestions(s) :
          /\ i - first \in 1..n
          /\ quiz_questions'[i].bank_question_id = selected[i - first]
          /\ quiz_questions'[i].revision = question_bank[selected[i - first]].revision
  BY <1>1, <1>s, SnapshotRow
<1>5. NewQuestions(s) = (first + 1)..(first + n)
  BY <1>s
<1> HIDE DEF first, n
<1>6. taken = {selected[j] : j \in 1..n}
  <2>1. \A j \in 1..n : first + j \in NewQuestions(s) /\ (first + j) - first = j
    BY <1>3, <1>5
  <2> QED
    BY <1>4, <2>1
<1>7. Candidates(t) = {q \in quiz_templates[t].questions : IsActive(q)}
  BY DEF Candidates, IsActive
<1>8. taken \subseteq Candidates(t)
  BY <1>3, <1>6
<1>9. t \in ChapterTemplate => taken = Candidates(t)
  BY <1>1, <1>6, ChapterSelectsAll DEF n
<1>10. ASSUME t \in ChapterTemplate, NEW i \in NewQuestions(s), NEW j \in NewQuestions(s), i < j
       PROVE  BankPosition[quiz_questions'[i].bank_question_id] <
                  BankPosition[quiz_questions'[j].bank_question_id]
  <2>1. i - first < j - first
    BY <1>3, <1>5, <1>10
  <2>2. BankPosition[selected[i - first]] < BankPosition[selected[j - first]]
    BY <1>1, <1>4, <1>10, <2>1, ChapterSelectsAll DEF n
  <2> QED
    BY <1>4, <2>2
<1> QED
  BY <1>4, <1>7, <1>8, <1>9, <1>10

(* A quiz is made of what the template links and the bank says at that     *)
(* moment: quiz start takes active questions only, at the revision they    *)
(* have, and from a chapter all of them in the order of the unit.          *)
THEOREM TakesCurrentBank == Spec => StartTakesCurrentBank
<1>1. TypeOK /\ [Next]_vars =>
        \A s \in NewQuizzes :
            LET t == quiz_sessions'[s].template_id
                taken == {quiz_questions'[i].bank_question_id : i \in NewQuestions(s)}
                linked == {q \in quiz_templates[t].questions : IsActive(q)}
            IN  /\ taken \subseteq linked
                /\ t \in ChapterTemplate => taken = linked
                /\ \A i \in NewQuestions(s) :
                       quiz_questions'[i].revision =
                           question_bank[quiz_questions'[i].bank_question_id].revision
                /\ t \in ChapterTemplate => \A i, j \in NewQuestions(s) : i < j =>
                       BankPosition[quiz_questions'[i].bank_question_id] <
                           BankPosition[quiz_questions'[j].bank_question_id]
  BY StepTakesCurrentBank
<1> QED
  BY <1>1, TypeCorrect, PTL DEF Spec, StartTakesCurrentBank

-----------------------------------------------------------------------------
(* Weakest first.  While the clock is not set back, responses are dated in *)
(* the order they are submitted, and none after the present.               *)
DatedInOrder ==
    \A r \in DOMAIN quiz_responses :
        /\ quiz_responses[r].answered_at <= now
        /\ \A o \in DOMAIN quiz_responses :
               o <= r => quiz_responses[o].answered_at <= quiz_responses[r].answered_at

(* A step dates no old response anew and a new one by the clock.           *)
LEMMA StepDates ==
    ASSUME TypeOK, ~ClockGoesBack, [Next]_vars
    PROVE  /\ now <= now'
           /\ \/ /\ DOMAIN quiz_responses' = DOMAIN quiz_responses
                 /\ \A r \in DOMAIN quiz_responses :
                        quiz_responses'[r].answered_at = quiz_responses[r].answered_at
              \/ /\ DOMAIN quiz_responses' = DOMAIN quiz_responses \cup {Len(quiz_responses) + 1}
                 /\ \A r \in DOMAIN quiz_responses : quiz_responses'[r] = quiz_responses[r]
                 /\ quiz_responses'[Len(quiz_responses) + 1].answered_at = now
<1>1. now \in Nat
  BY DEF TypeOK
<1>2. now <= now'
  <2>1. CASE UNCHANGED now
    BY <1>1, <2>1
  <2>2. CASE Tick
    <3>1. PICK time \in 1..MaxClock : time > now /\ now' = time
      BY <2>2 DEF Tick
    <3> QED
      BY <1>1, <3>1, QuizAssumption
  <2>3. QuizCommand \/ BankCommand \/ UNCHANGED vars => UNCHANGED now
    BY DEF QuizCommand, BankCommand, vars, quiz_vars, SessionCommand, QuizStart, StartExisting,
       CreateSnapshot, QuizNext, NextAlreadyAsked, NextAsks, QuizDefer, QuizRequeue,
       QuestionStateChange, QuizFollowUp, QuizPause, QuizResume, QuizComplete, QuizAbandon,
       ResponseSubmit, ResponseRegrade, LearningAdd
  <2> QED
    BY <2>1, <2>2, <2>3 DEF Next
<1>3. \/ /\ DOMAIN quiz_responses' = DOMAIN quiz_responses
         /\ \A r \in DOMAIN quiz_responses :
                quiz_responses'[r].answered_at = quiz_responses[r].answered_at
      \/ /\ DOMAIN quiz_responses' = DOMAIN quiz_responses \cup {Len(quiz_responses) + 1}
         /\ \A r \in DOMAIN quiz_responses : quiz_responses'[r] = quiz_responses[r]
         /\ quiz_responses'[Len(quiz_responses) + 1].answered_at = now
  <2>1. CASE UNCHANGED quiz_responses
    BY <2>1
  <2>2. ASSUME NEW i \in DOMAIN quiz_questions, NEW assessment \in Assessment, NEW linked,
               ResponseSubmit(i, assessment, linked)
        PROVE  /\ DOMAIN quiz_responses' = DOMAIN quiz_responses \cup {Len(quiz_responses) + 1}
               /\ \A r \in DOMAIN quiz_responses : quiz_responses'[r] = quiz_responses[r]
               /\ quiz_responses'[Len(quiz_responses) + 1].answered_at = now
    <3>1. PICK attempt \in 1..(Len(quiz_responses) + 1) :
            quiz_responses' = Append(quiz_responses,
                [question_id |-> i, attempt_number |-> attempt,
                 answered_at |-> now, assessment |-> assessment])
      BY <2>2 DEF ResponseSubmit, NextId
    <3> DEFINE row == [question_id |-> i, attempt_number |-> attempt,
                       answered_at |-> now, assessment |-> assessment]
    <3>2. attempt \in Nat \ {0}
      BY TablesAreFunctions
    <3>3. row \in ResponseRow
      BY <1>1, <3>2 DEF ResponseRow
    <3>4. row.answered_at = now /\ quiz_responses' = Append(quiz_responses, row)
      BY <3>1
    <3> HIDE DEF row
    <3> QED
      BY <3>3, <3>4, AppendRow DEF TypeOK
  <2>3. ASSUME NEW r \in DOMAIN quiz_responses, NEW assessment \in Assessment,
               ResponseRegrade(r, assessment)
        PROVE  /\ DOMAIN quiz_responses' = DOMAIN quiz_responses
               /\ \A o \in DOMAIN quiz_responses :
                      quiz_responses'[o].answered_at = quiz_responses[o].answered_at
    <3>1. quiz_responses' = [quiz_responses EXCEPT ![r].assessment = assessment]
      BY <2>3 DEF ResponseRegrade
    <3> QED
      BY <3>1, TablesAreFunctions DEF ResponseRow
  <2>4. UNCHANGED quiz_responses
        \/ (\E i \in DOMAIN quiz_questions, assessment \in Assessment, linked \in BOOLEAN :
                 ResponseSubmit(i, assessment, linked))
        \/ (\E r \in DOMAIN quiz_responses, assessment \in Assessment :
                 ResponseRegrade(r, assessment))
    BY DEF Next, QuizCommand, BankCommand, Tick, vars, quiz_vars, quiz_tables, SessionCommand,
       QuizStart, StartExisting, CreateSnapshot, QuizNext, NextAlreadyAsked, NextAsks, QuizDefer,
       QuizRequeue, QuestionStateChange, QuizFollowUp, QuizPause, QuizResume, QuizComplete,
       QuizAbandon, LearningAdd
  <2> QED
    BY <2>1, <2>2, <2>3, <2>4
<1> QED
  BY <1>2, <1>3

LEMMA StepKeepsDates ==
    ASSUME TypeOK, TypeOK', ~ClockGoesBack, DatedInOrder, [Next]_vars
    PROVE  DatedInOrder'
<1> DEFINE At(r) == quiz_responses[r].answered_at
           New(r) == quiz_responses'[r].answered_at
           k == Len(quiz_responses) + 1
<1>1. /\ DOMAIN quiz_responses = 1..Len(quiz_responses) /\ Len(quiz_responses) \in Nat
      /\ \A r \in DOMAIN quiz_responses : At(r) \in Nat
      /\ now \in Nat /\ now' \in Nat
  BY TablesAreFunctions DEF ResponseRow, TypeOK
<1>2. now <= now'
  BY StepDates
<1>3. \A r \in DOMAIN quiz_responses : r < k /\ At(r) <= now
  BY <1>1 DEF DatedInOrder
<1>4. CASE /\ DOMAIN quiz_responses' = DOMAIN quiz_responses
           /\ \A r \in DOMAIN quiz_responses : New(r) = At(r)
  <2>1. \A r \in DOMAIN quiz_responses' : New(r) <= now'
    BY <1>1, <1>2, <1>3, <1>4
  <2> QED
    BY <1>4, <2>1 DEF DatedInOrder
<1>5. CASE /\ DOMAIN quiz_responses' = DOMAIN quiz_responses \cup {k}
           /\ \A r \in DOMAIN quiz_responses : New(r) = At(r)
           /\ New(k) = now
  <2>1. \A r \in DOMAIN quiz_responses' : New(r) <= now /\ New(r) \in Nat
    BY <1>1, <1>3, <1>5
  <2>2. \A r \in DOMAIN quiz_responses' : New(r) <= now'
    BY <1>1, <1>2, <2>1
  <2>3. ASSUME NEW r \in DOMAIN quiz_responses', NEW o \in DOMAIN quiz_responses', o <= r
        PROVE  New(o) <= New(r)
    <3>1. CASE r = k
      BY <1>5, <2>1, <3>1
    <3>2. CASE r # k
      <4>1. r \in DOMAIN quiz_responses /\ o \in DOMAIN quiz_responses
        BY <1>1, <1>5, <2>3, <3>2
      <4> QED
        BY <1>5, <2>3, <4>1 DEF DatedInOrder
    <3> QED
      BY <3>1, <3>2
  <2> QED
    BY <2>2, <2>3 DEF DatedInOrder
<1> QED
  BY <1>4, <1>5, StepDates

(* The newest by the clock is then the last submitted.                     *)
LEMMA RankIsLatest ==
    ASSUME TypeOK, DatedInOrder, NEW bank
    PROVE  LatestRank(bank) = Weakness(bank) /\ Weakness(bank) \in Nat
<1> DEFINE S == Seen(bank)
<1>1. Weakness(bank) \in Nat
  BY WeaknessType
<1>2. CASE S = {}
  BY <1>1, <1>2 DEF LatestRank, Weakness
<1>3. CASE S # {}
  <2>1. /\ S \in SUBSET DOMAIN quiz_responses
        /\ S \in SUBSET (1..Len(quiz_responses))
        /\ Len(quiz_responses) \in Nat
        /\ \A r \in S : r \in Nat /\ quiz_responses[r].answered_at \in Nat
    BY TablesAreFunctions DEF Seen, ResponseRow
  <2>2. \E r \in S : \A o \in S : NotAfter(o, r)
    BY <1>3, <2>1, NewestExists
  <2>3. /\ NewestByClock(S) \in S
        /\ \A o \in S : NotAfter(o, NewestByClock(S))
    BY <2>2 DEF NewestByClock, NotAfter
  <2>4. \E r \in S : \A o \in S : o <= r
    BY <1>3, <2>1, GreatestOf
  <2>5. LastSubmitted(bank) \in S /\ \A o \in S : o <= LastSubmitted(bank)
    BY <2>4 DEF LastSubmitted
  <2> DEFINE r == NewestByClock(S)
             l == LastSubmitted(bank)
  <2>6. r \in S /\ l \in S /\ NotAfter(l, r) /\ r <= l
    BY <2>3, <2>5
  <2>7. quiz_responses[r].answered_at <= quiz_responses[l].answered_at
    BY <2>1, <2>6 DEF DatedInOrder
  <2> HIDE DEF r, l
  <2>8. r = l
    BY <2>1, <2>6, <2>7 DEF NotAfter
  <2> QED
    BY <1>1, <1>3, <2>8 DEF LatestRank, Weakness, r, l
<1> QED
  BY <1>2, <1>3

(* An adaptive selection takes the weakest first.                          *)
LEMMA WeakestSelected ==
    ASSUME TypeOK, DatedInOrder, NEW t \in Template, t \in TagTemplate, NEW limit \in Nat,
           NEW selected \in select_template_questions(t, limit), NEW i \in 1..Len(selected)
    PROVE  /\ \A j \in 1..Len(selected) :
                  i < j => LatestRank(selected[i]) <= LatestRank(selected[j])
           /\ \A q \in Candidates(t) :
                  (\A j \in 1..Len(selected) : selected[j] # q) =>
                      LatestRank(selected[i]) <= LatestRank(q)
<1>1. DOMAIN selected = 1..Len(selected)
  BY SelectedType
<1>2. ASSUME NEW p, NEW q, SelectsBefore(t, p, q)
      PROVE  LatestRank(p) <= LatestRank(q)
  <2>1. /\ LatestRank(p) = Weakness(p) /\ Weakness(p) \in Nat
        /\ LatestRank(q) = Weakness(q) /\ Weakness(q) \in Nat
    BY RankIsLatest
  <2>2. Weakness(p) < Weakness(q) \/ Weakness(p) = Weakness(q)
    BY <1>2 DEF SelectsBefore, Adaptive
  <2> QED
    BY <2>1, <2>2
<1>3. /\ \A j \in 1..Len(selected) : i < j => SelectsBefore(t, selected[i], selected[j])
      /\ \A q \in Candidates(t) :
             (\A j \in 1..Len(selected) : selected[j] # q) => SelectsBefore(t, selected[i], q)
  BY <1>1 DEF select_template_questions
<1> QED
  BY <1>2, <1>3

LEMMA StepWeakestFirst ==
    ASSUME TypeOK, DatedInOrder, [Next]_vars, NEW s \in NewQuizzes,
           NEW t, t = quiz_sessions'[s].template_id, t \in TagTemplate
    PROVE  \A i \in NewQuestions(s) :
               /\ \A j \in NewQuestions(s) : i < j =>
                      LatestRank(quiz_questions'[i].bank_question_id) <=
                          LatestRank(quiz_questions'[j].bank_question_id)
               /\ \A q \in Candidates(t) :
                      (\A j \in NewQuestions(s) : quiz_questions'[j].bank_question_id # q) =>
                          LatestRank(quiz_questions'[i].bank_question_id) <= LatestRank(q)
<1>1. t \in Template
  BY NewQuizIsSnapshot
<1>2. PICK limit \in Nat :
        \E selected \in select_template_questions(t, limit) :
            /\ Snapshot(t, limit, selected)
            /\ NewQuestions(s) =
                   (Len(quiz_questions) + 1)..(Len(quiz_questions) + Len(selected))
  BY NewQuizIsSnapshot
<1>3. PICK selected \in select_template_questions(t, limit) :
        /\ Snapshot(t, limit, selected)
        /\ NewQuestions(s) = (Len(quiz_questions) + 1)..(Len(quiz_questions) + Len(selected))
  BY <1>2
<1> DEFINE first == Len(quiz_questions)
           n == Len(selected)
           Asks(i) == quiz_questions'[i].bank_question_id
<1>4. first \in Nat /\ n \in Nat
  BY <1>1, SelectedType, TablesAreFunctions
<1>5. \A i \in NewQuestions(s) : i - first \in 1..n /\ Asks(i) = selected[i - first]
  BY <1>1, <1>3, SnapshotRow
<1>6. \A j \in 1..n : first + j \in NewQuestions(s) /\ Asks(first + j) = selected[j]
  BY <1>3, <1>4, <1>5
<1>7. \A i, j \in NewQuestions(s) : i < j => i - first < j - first
  BY <1>3, <1>4
<1>8. \A k \in 1..n :
        /\ \A j \in 1..n : k < j => LatestRank(selected[k]) <= LatestRank(selected[j])
        /\ \A q \in Candidates(t) : (\A j \in 1..n : selected[j] # q) =>
               LatestRank(selected[k]) <= LatestRank(q)
  BY <1>1, WeakestSelected
<1> HIDE DEF first, n, Asks
<1>9. ASSUME NEW i \in NewQuestions(s), NEW j \in NewQuestions(s), i < j
      PROVE  LatestRank(Asks(i)) <= LatestRank(Asks(j))
  BY <1>5, <1>7, <1>8, <1>9
<1>10. ASSUME NEW i \in NewQuestions(s), NEW q \in Candidates(t),
              \A j \in NewQuestions(s) : Asks(j) # q
       PROVE  LatestRank(Asks(i)) <= LatestRank(q)
  <2>1. \A j \in 1..n : selected[j] # q
    BY <1>6, <1>10
  <2> QED
    BY <1>5, <1>8, <2>1
<1> QED
  BY <1>9, <1>10 DEF Asks

(* A topic or theme quiz asks the weakest first, by the latest assessment, *)
(* provided that the clock is never set back: then the order by            *)
(* answered_at that quiz start takes is the order of submission.           *)
THEOREM WeakestFirst ==
    ASSUME ~ClockGoesBack
    PROVE  Spec => AdaptiveWeakestFirst
<1>1. Init => DatedInOrder
  BY DEF Init, DatedInOrder
<1>2. TypeOK /\ TypeOK' /\ DatedInOrder /\ [Next]_vars => DatedInOrder'
  BY StepKeepsDates
<1>3. TypeOK /\ DatedInOrder /\ [Next]_vars =>
        \A s \in NewQuizzes :
            LET t == quiz_sessions'[s].template_id
                Asks(i) == quiz_questions'[i].bank_question_id
            IN  t \in TagTemplate =>
                \A i \in NewQuestions(s) :
                    /\ \A j \in NewQuestions(s) :
                           i < j => LatestRank(Asks(i)) <= LatestRank(Asks(j))
                    /\ \A q \in Candidates(t) :
                           (\A j \in NewQuestions(s) : Asks(j) # q) =>
                               LatestRank(Asks(i)) <= LatestRank(q)
  BY StepWeakestFirst
<1> QED
  BY <1>1, <1>2, <1>3, TypeCorrect, PTL DEF Spec, AdaptiveWeakestFirst
==============================================================================
