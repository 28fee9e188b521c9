------------------------- MODULE QuizRefinementProofs -------------------------
(***************************************************************************)
(* QuizLifecycle implements QuizPromise: every kind of step of             *)
(* QuizHistoryProofs is a step of the promise, or one it does not see.     *)
(***************************************************************************)
EXTENDS QuizRefinement, QuizHistoryProofs

(* The rows stay within their bounds, and no session is left as planned.   *)
WithinBounds ==
    /\ Quizzes \subseteq 1..MaxQuizzes
    /\ DOMAIN quiz_questions \subseteq 1..MaxQuestions
    /\ \A s \in Quizzes : quiz_sessions[s].state # "planned"

RefinementInv ==
    /\ TypeOK
    /\ OneAskedPerQuiz
    /\ QuestionHistory
    /\ TerminalIsResolved
    /\ WithinBounds

LEMMA StepKeepsBounds ==
    ASSUME TypeOK, WithinBounds, StepKind
    PROVE  WithinBounds'
<1>1. CASE UNCHANGED quiz_sessions
  <2>1. DOMAIN quiz_questions' \subseteq 1..MaxQuestions
    <3>1. ~QuizStarts
      BY <1>1 DEF QuizStarts, Quizzes
    <3>2. CASE DOMAIN quiz_questions' = DOMAIN quiz_questions
      BY <3>2 DEF WithinBounds
    <3>3. ASSUME NEW quiz, QuestionAdded(quiz)
          PROVE  DOMAIN quiz_questions' \subseteq 1..MaxQuestions
      BY <3>3, TablesAreFunctions DEF QuestionAdded, WithinBounds
    <3> QED
      BY <3>1, <3>2, <3>3 DEF StepKind, NothingMoves, QuestionMoves, SessionMoves,
         QuestionsRetired, QuestionAnswered, ResponseRegraded
  <2>2. Quizzes' = Quizzes
    BY <1>1 DEF Quizzes
  <2>3. quiz_sessions' = quiz_sessions
    BY <1>1
  <2> QED
    BY <2>1, <2>2, <2>3, Zenon DEF WithinBounds
<1>2. CASE QuizStarts
  <2>1. PICK quiz : quiz = Len(quiz_sessions) + 1
    OBVIOUS
  <2>2. quiz \in 1..MaxQuizzes
    BY <1>2, <2>1, TablesAreFunctions, QuizAssumption DEF QuizStarts
  <2>3. /\ Quizzes' = Quizzes \cup {quiz}
        /\ \A s \in Quizzes : quiz_sessions'[s] = quiz_sessions[s]
        /\ quiz_sessions'[quiz].state = "in_progress"
        /\ DOMAIN quiz_questions' \subseteq 1..MaxQuestions
    BY <1>2, <2>1 DEF QuizStarts, SessionsKept
  <2> QED
    BY <2>2, <2>3 DEF WithinBounds
<1>3. ASSUME NEW quiz, SessionMoves(quiz)
      PROVE  WithinBounds'
  <2>1. /\ quiz \in Quizzes /\ Quizzes' = Quizzes
        /\ SessionsKept(Quizzes \ {quiz})
        /\ quiz_sessions'[quiz].state \in {"paused", "in_progress", "completed", "abandoned"}
    BY <1>3 DEF SessionMoves
  <2>2. DOMAIN quiz_questions' = DOMAIN quiz_questions
    BY <1>3 DEF SessionMoves, QuestionsRetired
  <2> QED
    BY <2>1, <2>2 DEF WithinBounds, SessionsKept
<1> QED
  BY <1>1, <1>2, <1>3 DEF StepKind, NothingMoves, QuestionMoves, QuestionAdded,
     QuestionAnswered, ResponseRegraded

LEMMA Invariants == Spec => []RefinementInv
<1>1. Init => WithinBounds
  BY DEF Init, WithinBounds, Quizzes
<1>2. TypeOK /\ WithinBounds /\ [Next]_vars => WithinBounds'
  BY StepKinds, StepKeepsBounds
<1> QED
  BY <1>1, <1>2, TypeCorrect, OneAsked, History, TerminalResolved, PTL DEF Spec, RefinementInv

-----------------------------------------------------------------------------
(* The parts of the mapping that a step leaves alone.                      *)
LEMMA PhasesSame == UNCHANGED quiz_sessions => phases' = phases
BY DEF phases, PhaseOf, Quizzes

LEMMA QuestionsSame ==
    UNCHANGED quiz_questions => UNCHANGED <<todos, currents, dones>>
BY DEF todos, currents, dones, TodoOf, DoneOf, Asked, QuestionsOf

LEMMA GradesSame == UNCHANGED quiz_responses => grades' = grades
BY DEF grades, GradeOf, LatestResponse, ResponsesTo

(* What the mapping makes of a step on one question.                       *)
LEMMA OneQuestion ==
    ASSUME RefinementInv, NEW i \in DOMAIN quiz_questions,
           DOMAIN quiz_questions' = DOMAIN quiz_questions,
           QuestionsKept(DOMAIN quiz_questions \ {i}),
           NEW quiz, quiz = quiz_questions[i].quiz_id, quiz_questions'[i].quiz_id = quiz,
           NEW state, state = quiz_questions'[i].state
    PROVE  /\ quiz \in 1..MaxQuizzes
           /\ todos' = [todos EXCEPT ![quiz] = TodoOf(quiz)']
           /\ TodoOf(quiz)' =
                  IF state = "answered" THEN TodoOf(quiz) \ {i} ELSE TodoOf(quiz) \cup {i}
           /\ dones' = [dones EXCEPT ![quiz] = DoneOf(quiz)']
           /\ DoneOf(quiz)' =
                  IF state = "answered" THEN DoneOf(quiz) \cup {i} ELSE DoneOf(quiz) \ {i}
           /\ currents' = [currents EXCEPT ![quiz] = Asked(quiz)']
           /\ Asked(quiz)' =
                  IF state = "asked" THEN Asked(quiz) \cup {i} ELSE Asked(quiz) \ {i}
<1>1. quiz \in 1..MaxQuizzes
  BY RowFields DEF RefinementInv, WithinBounds, QuestionRow
<1>2. \A s : QuestionsOf(s)' = QuestionsOf(s)
  BY DEF QuestionsOf, QuestionsKept
<1>3. i \in QuestionsOf(quiz) /\ \A s : s # quiz => i \notin QuestionsOf(s)
  BY DEF QuestionsOf
<1>4. \A s : \A j \in QuestionsOf(s) : j # i => quiz_questions'[j] = quiz_questions[j]
  BY DEF QuestionsOf, QuestionsKept
<1>5. \A s : s # quiz => UNCHANGED <<TodoOf(s), DoneOf(s), Asked(s)>>
  BY <1>2, <1>3, <1>4 DEF TodoOf, DoneOf, Asked
<1>6. TodoOf(quiz)' = IF state = "answered" THEN TodoOf(quiz) \ {i} ELSE TodoOf(quiz) \cup {i}
  BY <1>2, <1>3, <1>4 DEF TodoOf
<1>7. DoneOf(quiz)' = IF state = "answered" THEN DoneOf(quiz) \cup {i} ELSE DoneOf(quiz) \ {i}
  BY <1>2, <1>3, <1>4 DEF DoneOf
<1>8. Asked(quiz)' = IF state = "asked" THEN Asked(quiz) \cup {i} ELSE Asked(quiz) \ {i}
  BY <1>2, <1>3, <1>4 DEF Asked
<1>9. todos' = [todos EXCEPT ![quiz] = TodoOf(quiz)']
  BY <1>1, <1>5 DEF todos
<1>10. dones' = [dones EXCEPT ![quiz] = DoneOf(quiz)']
  BY <1>1, <1>5 DEF dones
<1>11. currents' = [currents EXCEPT ![quiz] = Asked(quiz)']
  BY <1>1, <1>5 DEF currents
<1> QED
  BY <1>1, <1>6, <1>7, <1>8, <1>9, <1>10, <1>11

-----------------------------------------------------------------------------
(* A new quiz begins.                                                      *)
LEMMA StartBegins ==
    ASSUME RefinementInv, QuizStarts
    PROVE  Promise!Next
<1>1. PICK quiz, added :
        /\ quiz \in 1..MaxQuizzes /\ quiz \notin Quizzes /\ Quizzes' = Quizzes \cup {quiz}
        /\ \A s \in Quizzes : quiz_sessions'[s] = quiz_sessions[s]
        /\ quiz_sessions'[quiz].state = "in_progress"
        /\ added # {} /\ added \subseteq 1..MaxQuestions
        /\ added \cap DOMAIN quiz_questions = {}
        /\ DOMAIN quiz_questions' = DOMAIN quiz_questions \cup added
        /\ \A i \in DOMAIN quiz_questions : quiz_questions'[i] = quiz_questions[i]
        /\ \A i \in added :
               quiz_questions'[i].quiz_id = quiz /\ quiz_questions'[i].state = "planned"
        /\ UNCHANGED quiz_responses
  <2>1. PICK quiz : quiz = Len(quiz_sessions) + 1
    OBVIOUS
  <2>2. PICK added : added = DOMAIN quiz_questions' \ DOMAIN quiz_questions
    OBVIOUS
  <2>3. quiz \in 1..MaxQuizzes
    BY <2>1, TablesAreFunctions, QuizAssumption DEF RefinementInv, QuizStarts
  <2>4. /\ quiz \notin Quizzes /\ Quizzes' = Quizzes \cup {quiz}
        /\ \A s \in Quizzes : quiz_sessions'[s] = quiz_sessions[s]
        /\ quiz_sessions'[quiz].state = "in_progress"
        /\ UNCHANGED quiz_responses
    BY <2>1 DEF QuizStarts, SessionsKept
  <2>5. /\ added # {} /\ added \subseteq 1..MaxQuestions
        /\ added \cap DOMAIN quiz_questions = {}
        /\ DOMAIN quiz_questions' = DOMAIN quiz_questions \cup added
        /\ \A i \in DOMAIN quiz_questions : quiz_questions'[i] = quiz_questions[i]
        /\ \A i \in added :
               quiz_questions'[i].quiz_id = quiz /\ quiz_questions'[i].state = "planned"
    BY <2>1, <2>2 DEF QuizStarts, QuestionsKept
  <2> QED
    BY <2>3, <2>4, <2>5
<1>2. \A i \in DOMAIN quiz_questions : quiz_questions[i].quiz_id \in Quizzes
  BY RowFields DEF RefinementInv, QuestionRow
<1>3. \A s : s # quiz => QuestionsOf(s)' = QuestionsOf(s)
  BY <1>1 DEF QuestionsOf
<1>4. QuestionsOf(quiz) = {} /\ QuestionsOf(quiz)' = added
  <2>1. QuestionsOf(quiz) = {}
    BY <1>1, <1>2 DEF QuestionsOf
  <2>2. QuestionsOf(quiz)' = {i \in DOMAIN quiz_questions' : quiz_questions'[i].quiz_id = quiz}
    BY DEF QuestionsOf
  <2>3. \A i \in DOMAIN quiz_questions : quiz_questions'[i].quiz_id # quiz
    BY <1>1, <1>2
  <2> QED
    BY <1>1, <2>1, <2>2, <2>3
<1>5. \A s : \A i \in QuestionsOf(s) : quiz_questions'[i] = quiz_questions[i]
  BY <1>1 DEF QuestionsOf
<1>6. \A s : s # quiz => UNCHANGED <<TodoOf(s), DoneOf(s), Asked(s)>>
  BY <1>3, <1>5 DEF TodoOf, DoneOf, Asked
<1>7. /\ TodoOf(quiz)' = added
      /\ DoneOf(quiz) = {} /\ DoneOf(quiz)' = {}
      /\ Asked(quiz) = {} /\ Asked(quiz)' = {}
  BY <1>1, <1>4 DEF TodoOf, DoneOf, Asked
<1>8. todos' = [todos EXCEPT ![quiz] = added]
  BY <1>1, <1>6, <1>7 DEF todos
<1>9. UNCHANGED <<dones, currents>>
  BY <1>6, <1>7 DEF dones, currents
<1>10. UNCHANGED grades
  BY <1>1, GradesSame
<1>11. phases[quiz] = "none" /\ phases' = [phases EXCEPT ![quiz] = "in_progress"]
  <2>1. PhaseOf(quiz) = "none" /\ PhaseOf(quiz)' = "in_progress"
    BY <1>1 DEF PhaseOf
  <2>2. \A s : s # quiz => PhaseOf(s)' = PhaseOf(s)
    BY <1>1 DEF PhaseOf
  <2> QED
    BY <1>1, <2>1, <2>2 DEF phases
<1>12. added \subseteq Promise!Fresh
  <2>1. \A s \in 1..MaxQuizzes : todos[s] \cup dones[s] \subseteq DOMAIN quiz_questions
    BY DEF todos, dones, TodoOf, DoneOf, QuestionsOf
  <2> QED
    BY <1>1, <2>1 DEF Promise!Fresh
<1>13. Promise!Begin(quiz)
  BY <1>1, <1>8, <1>9, <1>10, <1>11, <1>12 DEF Promise!Begin
<1> QED
  BY <1>1, <1>13 DEF Promise!Next

(* The mapped state of a quiz.                                             *)
LEMMA MappedQuiz ==
    ASSUME NEW quiz \in 1..MaxQuizzes
    PROVE  /\ quiz \in Quizzes => phases[quiz] = quiz_sessions[quiz].state
           /\ todos[quiz] = TodoOf(quiz)
           /\ dones[quiz] = DoneOf(quiz)
           /\ currents[quiz] = Asked(quiz)
           /\ todos = [todos EXCEPT ![quiz] = TodoOf(quiz)]
           /\ dones = [dones EXCEPT ![quiz] = DoneOf(quiz)]
           /\ currents = [currents EXCEPT ![quiz] = Asked(quiz)]
<1>1. /\ quiz \in Quizzes => phases[quiz] = quiz_sessions[quiz].state
      /\ todos[quiz] = TodoOf(quiz)
      /\ dones[quiz] = DoneOf(quiz)
      /\ currents[quiz] = Asked(quiz)
  BY DEF phases, PhaseOf, todos, dones, currents
<1>2. todos = [todos EXCEPT ![quiz] = TodoOf(quiz)]
  BY DEF todos
<1>3. dones = [dones EXCEPT ![quiz] = DoneOf(quiz)]
  BY DEF dones
<1>4. currents = [currents EXCEPT ![quiz] = Asked(quiz)]
  BY DEF currents
<1> QED
  BY <1>1, <1>2, <1>3, <1>4

(* A question that is asked, deferred or requeued is asked or put off.     *)
LEMMA MoveAsks ==
    ASSUME RefinementInv, NEW i, QuestionMoves(i)
    PROVE  Promise!Next \/ UNCHANGED Promise!promise
<1>1. PICK quiz : quiz = quiz_questions[i].quiz_id
  OBVIOUS
<1>2. PICK state : state = quiz_questions'[i].state
  OBVIOUS
<1>3. /\ i \in DOMAIN quiz_questions /\ quiz_questions[i] \in QuestionRow
      /\ quiz_sessions[quiz].state = "in_progress"
      /\ DOMAIN quiz_questions' = DOMAIN quiz_questions
      /\ QuestionsKept(DOMAIN quiz_questions \ {i})
      /\ UNCHANGED <<quiz_sessions, quiz_responses>>
  BY <1>1, RowFields DEF QuestionMoves, RefinementInv
<1>4. /\ quiz_questions'[i].quiz_id = quiz
      /\ \/ Asked(quiz) = {} /\ quiz_questions[i].state = "planned" /\ state = "asked"
         \/ quiz_questions[i].state = "asked" /\ state = "deferred"
         \/ quiz_questions[i].state \in {"asked", "deferred"} /\ state = "planned"
  <2>1. CASE /\ Asked(quiz) = {} /\ quiz_questions[i].state = "planned"
             /\ quiz_questions'[i] = [quiz_questions[i] EXCEPT !.state = "asked",
                                                               !.asked_at = TRUE]
    BY <1>1, <1>2, <1>3, <2>1 DEF QuestionRow
  <2>2. CASE /\ quiz_questions[i].state = "asked"
             /\ quiz_questions'[i] = [quiz_questions[i] EXCEPT !.state = "deferred",
                                          !.asked_at = quiz_questions[i].asked_at]
    BY <1>1, <1>2, <1>3, <2>2 DEF QuestionRow
  <2>3. CASE /\ quiz_questions[i].state \in {"asked", "deferred"}
             /\ quiz_questions'[i] = [quiz_questions[i] EXCEPT !.state = "planned",
                                                               !.asked_at = FALSE]
    BY <1>1, <1>2, <1>3, <2>3 DEF QuestionRow
  <2> QED
    BY <1>1, <2>1, <2>2, <2>3, Zenon DEF QuestionMoves
<1>5. quiz \in Quizzes /\ i \in QuestionsOf(quiz) /\ quiz_questions[i].state # "answered"
  BY <1>1, <1>3, <1>4 DEF QuestionRow, QuestionsOf
<1>6. /\ quiz \in 1..MaxQuizzes
      /\ todos' = [todos EXCEPT ![quiz] = TodoOf(quiz)']
      /\ TodoOf(quiz)' = TodoOf(quiz) \cup {i}
      /\ dones' = [dones EXCEPT ![quiz] = DoneOf(quiz)']
      /\ DoneOf(quiz)' = DoneOf(quiz) \ {i}
      /\ currents' = [currents EXCEPT ![quiz] = Asked(quiz)']
      /\ Asked(quiz)' = IF state = "asked" THEN Asked(quiz) \cup {i} ELSE Asked(quiz) \ {i}
  BY <1>1, <1>2, <1>3, <1>4, OneQuestion
<1>7. i \in TodoOf(quiz) /\ i \notin DoneOf(quiz)
  BY <1>5 DEF TodoOf, DoneOf
<1>8. UNCHANGED <<phases, todos, dones, grades>>
  BY <1>3, <1>6, <1>7, MappedQuiz, PhasesSame, GradesSame
<1>9. /\ phases[quiz] = "in_progress" /\ currents[quiz] = Asked(quiz)
      /\ todos[quiz] = TodoOf(quiz)
  BY <1>3, <1>5, <1>6, MappedQuiz
<1>10. CASE Asked(quiz) = {} /\ state = "asked"
  <2>1. currents' = [currents EXCEPT ![quiz] = {i}]
    BY <1>6, <1>10
  <2>2. Promise!Ask(quiz)
    BY <1>7, <1>8, <1>9, <1>10, <2>1 DEF Promise!Ask
  <2> QED
    BY <1>6, <2>2 DEF Promise!Next
<1>11. CASE quiz_questions[i].state = "asked" /\ state # "asked"
  <2>1. Asked(quiz) = {i}
    BY <1>5, <1>11 DEF Asked, QuestionsOf, RefinementInv, OneAskedPerQuiz
  <2>2. currents' = [currents EXCEPT ![quiz] = {}]
    BY <1>6, <1>11, <2>1
  <2>3. Promise!PutOff(quiz)
    BY <1>8, <1>9, <2>1, <2>2 DEF Promise!PutOff
  <2> QED
    BY <1>6, <2>3 DEF Promise!Next
<1>12. CASE quiz_questions[i].state = "deferred" /\ state # "asked"
  <2>1. i \notin Asked(quiz)
    BY <1>12 DEF Asked
  <2>2. currents' = currents
    BY <1>6, <1>12, <2>1, MappedQuiz
  <2> QED
    BY <1>8, <2>2 DEF Promise!promise
<1> QED
  BY <1>4, <1>10, <1>11, <1>12

(* A follow-up extends the quiz.                                           *)
LEMMA FollowUpExtends ==
    ASSUME RefinementInv, NEW quiz, QuestionAdded(quiz)
    PROVE  Promise!Next
<1>1. PICK i : i = Len(quiz_questions) + 1
  OBVIOUS
<1>2. /\ quiz \in Quizzes /\ quiz_sessions[quiz].state = "in_progress"
      /\ i \notin DOMAIN quiz_questions
      /\ DOMAIN quiz_questions' = DOMAIN quiz_questions \cup {i}
      /\ \A j \in DOMAIN quiz_questions : quiz_questions'[j] = quiz_questions[j]
      /\ quiz_questions'[i].quiz_id = quiz /\ quiz_questions'[i].state = "planned"
      /\ UNCHANGED <<quiz_sessions, quiz_responses>>
  BY <1>1 DEF QuestionAdded, QuestionsKept
<1>3. i \in 1..MaxQuestions /\ quiz \in 1..MaxQuizzes
  BY <1>1, <1>2, TablesAreFunctions, QuizAssumption DEF QuestionAdded, RefinementInv, WithinBounds
<1>4. /\ \A s : s # quiz => QuestionsOf(s)' = QuestionsOf(s)
      /\ QuestionsOf(quiz)' = QuestionsOf(quiz) \cup {i}
  BY <1>2 DEF QuestionsOf
<1>5. /\ \A s : \A j \in QuestionsOf(s) : quiz_questions'[j] = quiz_questions[j]
      /\ i \notin QuestionsOf(quiz)
  BY <1>2 DEF QuestionsOf
<1>6. \A s : s # quiz => TodoOf(s)' = TodoOf(s)
  BY <1>4, <1>5 DEF TodoOf
<1>7. \A s : UNCHANGED <<DoneOf(s), Asked(s)>>
  <2>1. \A s : s # quiz => UNCHANGED <<DoneOf(s), Asked(s)>>
    BY <1>4, <1>5 DEF DoneOf, Asked
  <2>2. UNCHANGED <<DoneOf(quiz), Asked(quiz)>>
    BY <1>2, <1>4, <1>5 DEF DoneOf, Asked
  <2> QED
    BY <2>1, <2>2
<1>8. TodoOf(quiz)' = TodoOf(quiz) \cup {i}
  BY <1>2, <1>4, <1>5 DEF TodoOf
<1>9. todos' = [todos EXCEPT ![quiz] = @ \cup {i}]
  BY <1>3, <1>6, <1>8 DEF todos
<1>10. UNCHANGED <<phases, currents, dones, grades>>
  BY <1>2, <1>7, PhasesSame, GradesSame DEF dones, currents
<1>11. i \in Promise!Fresh
  <2>1. \A s \in 1..MaxQuizzes : todos[s] \cup dones[s] \subseteq DOMAIN quiz_questions
    BY DEF todos, dones, TodoOf, DoneOf, QuestionsOf
  <2> QED
    BY <1>2, <1>3, <2>1 DEF Promise!Fresh
<1>12. Promise!Extend(quiz)
  BY <1>2, <1>3, <1>9, <1>10, <1>11, MappedQuiz DEF Promise!Extend
<1> QED
  BY <1>3, <1>12 DEF Promise!Next

(* A session pauses, resumes, finishes or gives up.                        *)
LEMMA SessionMovesPhase ==
    ASSUME RefinementInv, NEW quiz, SessionMoves(quiz)
    PROVE  Promise!Next
<1>1. PICK target : target = quiz_sessions'[quiz].state
  OBVIOUS
<1>2. /\ quiz \in Quizzes /\ Quizzes' = Quizzes
      /\ \A s \in Quizzes \ {quiz} : quiz_sessions'[s] = quiz_sessions[s]
      /\ UNCHANGED quiz_responses
  BY DEF SessionMoves, SessionsKept
<1>3. quiz \in 1..MaxQuizzes /\ quiz_sessions[quiz].state # "planned"
  BY <1>2 DEF RefinementInv, WithinBounds
<1>4. phases' = [phases EXCEPT ![quiz] = target]
  <2>1. PhaseOf(quiz)' = target /\ \A s : s # quiz => PhaseOf(s)' = PhaseOf(s)
    BY <1>1, <1>2 DEF PhaseOf
  <2> QED
    BY <1>3, <2>1 DEF phases
<1>5. grades' = grades
  BY <1>2, GradesSame
<1>6. phases[quiz] = quiz_sessions[quiz].state
  BY <1>2, <1>3, MappedQuiz
<1>7. CASE /\ quiz_sessions[quiz].state = "in_progress" /\ target = "paused"
           /\ UNCHANGED <<quiz_questions, question_events>>
  <2>1. Promise!Pause(quiz)
    BY <1>4, <1>5, <1>6, <1>7, QuestionsSame DEF Promise!Pause
  <2> QED
    BY <1>3, <2>1 DEF Promise!Next
<1>8. CASE /\ quiz_sessions[quiz].state = "paused" /\ target = "in_progress"
           /\ UNCHANGED <<quiz_questions, question_events>>
  <2>1. Promise!Resume(quiz)
    BY <1>4, <1>5, <1>6, <1>8, QuestionsSame DEF Promise!Resume
  <2> QED
    BY <1>3, <2>1 DEF Promise!Next
<1>9. CASE /\ quiz_sessions[quiz].state = "in_progress" /\ target = "completed"
           /\ UnresolvedOf(quiz) = {}
           /\ UNCHANGED <<quiz_questions, question_events>>
  <2>1. ASSUME NEW i \in TodoOf(quiz)
        PROVE  FALSE
    <3>1. /\ i \in DOMAIN quiz_questions /\ quiz_questions[i].quiz_id = quiz
          /\ quiz_questions[i] \in QuestionRow
          /\ quiz_questions[i].state # "answered" /\ i \notin UnresolvedOf(quiz)
      BY <1>9, RowFields DEF TodoOf, QuestionsOf, RefinementInv
    <3>2. quiz_questions[i].state = "retired"
      BY <3>1 DEF QuestionRow, QuestionState, UnresolvedOf, Unresolved, QuestionsOf
    <3> QED
      BY <1>9, <3>1, <3>2 DEF RefinementInv, TerminalIsResolved
  <2>2. todos[quiz] = {}
    BY <1>3, <2>1, MappedQuiz
  <2>3. Promise!Finish(quiz)
    BY <1>4, <1>5, <1>6, <1>9, <2>2, QuestionsSame DEF Promise!Finish
  <2> QED
    BY <1>3, <2>3 DEF Promise!Next
<1>10. CASE /\ quiz_sessions[quiz].state \in Live /\ target = "abandoned"
            /\ QuestionsRetired(quiz)
  <2>1. /\ DOMAIN quiz_questions' = DOMAIN quiz_questions
        /\ \A i \in DOMAIN quiz_questions \ UnresolvedOf(quiz) :
               quiz_questions'[i] = quiz_questions[i]
        /\ \A i \in UnresolvedOf(quiz) : i \in DOMAIN quiz_questions /\
               quiz_questions'[i] = [quiz_questions[i] EXCEPT !.state = "retired"]
    BY <1>10 DEF QuestionsRetired, QuestionsKept, UnresolvedOf, QuestionsOf
  <2>2. \A i \in UnresolvedOf(quiz) :
            /\ quiz_questions'[i].state = "retired"
            /\ quiz_questions'[i].quiz_id = quiz_questions[i].quiz_id
            /\ quiz_questions[i].quiz_id = quiz
    <3>1. \A i \in UnresolvedOf(quiz) :
              quiz_questions[i] \in QuestionRow /\ quiz_questions[i].quiz_id = quiz
      BY RowFields DEF RefinementInv, UnresolvedOf, QuestionsOf
    <3> QED
      BY <2>1, <3>1 DEF QuestionRow
  <2>3. \A s : QuestionsOf(s)' = QuestionsOf(s)
    BY <2>1, <2>2 DEF QuestionsOf
  <2>4. \A i \in DOMAIN quiz_questions :
            /\ i \in UnresolvedOf(quiz) => /\ quiz_questions[i].state # "answered"
                                           /\ quiz_questions'[i].state = "retired"
            /\ i \notin UnresolvedOf(quiz) => quiz_questions'[i] = quiz_questions[i]
    BY <2>1, <2>2 DEF UnresolvedOf, Unresolved
  <2>5. \A s : UNCHANGED <<TodoOf(s), DoneOf(s)>>
    BY <2>3, <2>4 DEF TodoOf, DoneOf, QuestionsOf
  <2>6. \A s : s # quiz => Asked(s)' = Asked(s)
    <3>1. \A s : s # quiz => \A i \in QuestionsOf(s) : quiz_questions'[i] = quiz_questions[i]
      BY <2>2, <2>4 DEF QuestionsOf
    <3> QED
      BY <2>3, <3>1 DEF Asked
  <2>7. Asked(quiz)' = {}
    <3>1. \A i \in QuestionsOf(quiz) : quiz_questions[i].state = "asked" => i \in UnresolvedOf(quiz)
      BY DEF UnresolvedOf, Unresolved
    <3>2. \A i \in QuestionsOf(quiz) : quiz_questions'[i].state # "asked"
      BY <2>4, <3>1 DEF QuestionsOf
    <3> QED
      BY <2>3, <3>2 DEF Asked
  <2>8. currents' = [currents EXCEPT ![quiz] = {}]
    BY <1>3, <2>6, <2>7 DEF currents
  <2>9. UNCHANGED <<todos, dones>>
    BY <2>5 DEF todos, dones
  <2>10. Promise!GiveUp(quiz)
    BY <1>3, <1>4, <1>5, <1>6, <1>10, <2>8, <2>9 DEF Promise!GiveUp, Live
  <2> QED
    BY <1>3, <2>10 DEF Promise!Next
<1> QED
  BY <1>1, <1>7, <1>8, <1>9, <1>10 DEF SessionMoves

-----------------------------------------------------------------------------
(* A response submitted is the latest to its question, the only one; a     *)
(* regrade leaves which one that is.                                       *)
LEMMA SubmittedIsLatest ==
    ASSUME RefinementInv, NEW i, QuestionAnswered(i), NEW r, r = Len(quiz_responses) + 1
    PROVE  /\ LatestResponse(i)' = {r}
           /\ \A j : j # i => LatestResponse(j)' = LatestResponse(j)
<1>1. /\ DOMAIN quiz_responses' = DOMAIN quiz_responses \cup {r}
      /\ r \notin DOMAIN quiz_responses
      /\ \A o \in DOMAIN quiz_responses : quiz_responses'[o] = quiz_responses[o]
      /\ quiz_responses'[r].question_id = i
  BY DEF QuestionAnswered, ResponsesKept
<1>2. PICK attempt \in Nat : attempt = quiz_responses'[r].attempt_number
  BY DEF QuestionAnswered
<1>3. \A o \in ResponsesTo(i) :
        /\ quiz_responses[o].attempt_number \in Nat
        /\ quiz_responses[o].attempt_number < attempt
        /\ quiz_responses'[o] = quiz_responses[o]
  BY <1>1, <1>2, RowFields
  DEF QuestionAnswered, IsNextAttempt, ResponsesTo, RefinementInv, ResponseRow
<1>4. ResponsesTo(i)' = ResponsesTo(i) \cup {r} /\ r \notin ResponsesTo(i)
  BY <1>1 DEF ResponsesTo
<1>5. \A j : j # i => ResponsesTo(j)' = ResponsesTo(j)
  BY <1>1 DEF ResponsesTo
<1>6. r \in Nat
  BY TablesAreFunctions DEF RefinementInv
<1>7. r \in LatestResponse(i)'
  BY <1>2, <1>3, <1>4, <1>6 DEF LatestResponse
<1>8. \A o \in ResponsesTo(i) : o \notin LatestResponse(i)'
  BY <1>2, <1>3, <1>4 DEF LatestResponse
<1>9. LatestResponse(i)' \subseteq ResponsesTo(i)'
  BY DEF LatestResponse
<1>10. LatestResponse(i)' = {r}
  BY <1>4, <1>7, <1>8, <1>9
<1>11. \A j : j # i => LatestResponse(j)' = LatestResponse(j)
  <2>1. \A j : \A o \in ResponsesTo(j) : quiz_responses'[o] = quiz_responses[o]
    BY <1>1 DEF ResponsesTo
  <2> QED
    BY <1>5, <2>1 DEF LatestResponse
<1> QED
  BY <1>10, <1>11

LEMMA RegradedIsAsLate ==
    ASSUME RefinementInv, NEW r, ResponseRegraded(r)
    PROVE  /\ \A i : LatestResponse(i)' = LatestResponse(i)
           /\ \A i : r \in LatestResponse(i) => LatestResponse(i) = {r}
<1>1. /\ DOMAIN quiz_responses' = DOMAIN quiz_responses /\ r \in DOMAIN quiz_responses
      /\ \A o \in DOMAIN quiz_responses \ {r} : quiz_responses'[o] = quiz_responses[o]
      /\ quiz_responses'[r] =
             [quiz_responses[r] EXCEPT !.assessment = quiz_responses'[r].assessment]
  BY DEF ResponseRegraded, ResponsesKept
<1>2. \A o \in DOMAIN quiz_responses :
        /\ quiz_responses'[o].question_id = quiz_responses[o].question_id
        /\ quiz_responses'[o].attempt_number = quiz_responses[o].attempt_number
  BY <1>1, RowFields DEF ResponseRow, RefinementInv
<1>3. \A i : ResponsesTo(i)' = ResponsesTo(i) /\ ResponsesTo(i) \subseteq DOMAIN quiz_responses
  BY <1>1, <1>2 DEF ResponsesTo
<1>4. \A i : LatestResponse(i)' = LatestResponse(i)
  BY <1>2, <1>3 DEF LatestResponse
<1>5. \A o \in DOMAIN quiz_responses : o \in Nat /\ quiz_responses[o].attempt_number \in Nat
  BY TablesAreFunctions, RowFields DEF RefinementInv, ResponseRow
<1>6. \A i : r \in LatestResponse(i) => LatestResponse(i) = {r}
  <2>1. \A i : \A o, p \in LatestResponse(i) : o = p
    BY <1>3, <1>5 DEF LatestResponse
  <2> QED
    BY <2>1
<1> QED
  BY <1>4, <1>6

(* A response submitted answers the current question, or an answered one   *)
(* again.                                                                  *)
LEMMA SubmitAnswers ==
    ASSUME RefinementInv, NEW i, QuestionAnswered(i)
    PROVE  Promise!Next
<1>1. PICK quiz, r, given :
        /\ quiz = quiz_questions[i].quiz_id
        /\ r = Len(quiz_responses) + 1
        /\ given = quiz_responses'[r].assessment
  <2> WITNESS quiz_questions[i].quiz_id, Len(quiz_responses) + 1,
              quiz_responses'[Len(quiz_responses) + 1].assessment
  <2> QED
    OBVIOUS
<1>2. /\ i \in DOMAIN quiz_questions /\ quiz_questions[i] \in QuestionRow
      /\ quiz_sessions[quiz].state = "in_progress"
      /\ quiz_questions[i].state \in {"asked", "answered"}
      /\ quiz_questions'[i] = [quiz_questions[i] EXCEPT !.state = "answered"]
      /\ DOMAIN quiz_questions' = DOMAIN quiz_questions
      /\ QuestionsKept(DOMAIN quiz_questions \ {i})
      /\ given \in Assessment
      /\ UNCHANGED quiz_sessions
  BY <1>1, RowFields DEF QuestionAnswered, RefinementInv
<1>3. quiz_questions'[i].quiz_id = quiz /\ quiz_questions'[i].state = "answered"
  BY <1>1, <1>2 DEF QuestionRow
<1>4. quiz \in Quizzes /\ i \in QuestionsOf(quiz) /\ i \in 1..MaxQuestions
  BY <1>1, <1>2 DEF QuestionRow, QuestionsOf, RefinementInv, WithinBounds
<1>5. /\ quiz \in 1..MaxQuizzes
      /\ todos' = [todos EXCEPT ![quiz] = TodoOf(quiz)']
      /\ TodoOf(quiz)' = TodoOf(quiz) \ {i}
      /\ dones' = [dones EXCEPT ![quiz] = DoneOf(quiz)']
      /\ DoneOf(quiz)' = DoneOf(quiz) \cup {i}
      /\ currents' = [currents EXCEPT ![quiz] = Asked(quiz)']
      /\ Asked(quiz)' = Asked(quiz) \ {i}
  BY <1>1, <1>2, <1>3, OneQuestion
<1>6. grades' = [grades EXCEPT ![i] = {given}]
  <2>1. GradeOf(i)' = {given}
    BY <1>1, SubmittedIsLatest DEF GradeOf
  <2>2. \A j : j # i => GradeOf(j)' = GradeOf(j)
    <3>1. \A j : \A o \in LatestResponse(j) : quiz_responses'[o] = quiz_responses[o]
      BY DEF QuestionAnswered, ResponsesKept, LatestResponse, ResponsesTo
    <3> QED
      BY <1>1, <3>1, SubmittedIsLatest DEF GradeOf
  <2> QED
    BY <1>4, <2>1, <2>2 DEF grades
<1>7. phases' = phases /\ phases[quiz] = "in_progress"
  BY <1>2, <1>4, <1>5, PhasesSame, MappedQuiz
<1>8. CASE quiz_questions[i].state = "asked"
  <2>1. Asked(quiz) = {i}
    BY <1>4, <1>8 DEF Asked, QuestionsOf, RefinementInv, OneAskedPerQuiz
  <2>2. currents[quiz] = {i} /\ currents' = [currents EXCEPT ![quiz] = {}]
    BY <1>5, <2>1, MappedQuiz
  <2>3. /\ todos' = [todos EXCEPT ![quiz] = @ \ {i}]
        /\ dones' = [dones EXCEPT ![quiz] = @ \cup {i}]
    BY <1>5, MappedQuiz
  <2>4. Promise!Answer(quiz)
    BY <1>2, <1>6, <1>7, <2>2, <2>3 DEF Promise!Answer
  <2> QED
    BY <1>5, <2>4 DEF Promise!Next
<1>9. CASE quiz_questions[i].state = "answered"
  <2>1. i \in DoneOf(quiz) /\ i \notin TodoOf(quiz) /\ i \notin Asked(quiz)
    BY <1>4, <1>9 DEF DoneOf, TodoOf, Asked
  <2>2. UNCHANGED <<todos, currents, dones>>
    BY <1>5, <2>1, MappedQuiz
  <2>3. i \in dones[quiz]
    BY <1>5, <2>1, MappedQuiz
  <2>4. Promise!Regrade(quiz)
    BY <1>2, <1>6, <1>7, <2>2, <2>3 DEF Promise!Regrade
  <2> QED
    BY <1>5, <2>4 DEF Promise!Next
<1> QED
  BY <1>2, <1>8, <1>9

(* A regrade gives an answered question its grade, or changes an older     *)
(* response, which the promise does not see.                               *)
LEMMA RegradeRegrades ==
    ASSUME RefinementInv, NEW r, ResponseRegraded(r)
    PROVE  Promise!Next \/ UNCHANGED Promise!promise
<1>1. PICK i, quiz, given :
        /\ i = quiz_responses[r].question_id
        /\ quiz = quiz_questions[i].quiz_id
        /\ given = quiz_responses'[r].assessment
  <2> WITNESS quiz_responses[r].question_id,
              quiz_questions[quiz_responses[r].question_id].quiz_id,
              quiz_responses'[r].assessment
  <2> QED
    OBVIOUS
<1>2. /\ r \in DOMAIN quiz_responses /\ r \in ResponsesTo(i) /\ given \in Assessment
      /\ quiz_sessions[quiz].state \notin Terminal
      /\ \A o \in DOMAIN quiz_responses \ {r} : quiz_responses'[o] = quiz_responses[o]
      /\ UNCHANGED <<quiz_sessions, quiz_questions>>
  BY <1>1 DEF ResponseRegraded, ResponsesKept, ResponsesTo, QuizOf
<1>3. /\ i \in DOMAIN quiz_questions /\ quiz \in Quizzes
      /\ i \in QuestionsOf(quiz) /\ quiz_questions[i].state = "answered"
  BY <1>1, <1>2, RowFields
  DEF RefinementInv, QuestionHistory, ResponseRow, QuestionRow, QuestionsOf
<1>4. /\ i \in 1..MaxQuestions /\ quiz \in 1..MaxQuizzes
      /\ quiz_sessions[quiz].state \in {"in_progress", "paused"}
  <2>1. quiz_sessions[quiz].state \in SessionState /\ quiz_sessions[quiz].state # "planned"
    BY <1>3, RowFields DEF RefinementInv, WithinBounds, SessionRow
  <2> QED
    BY <1>2, <1>3, <2>1 DEF SessionState, Terminal, RefinementInv, WithinBounds
<1>5. UNCHANGED <<phases, todos, currents, dones>>
  BY <1>2, PhasesSame, QuestionsSame
<1>6. \A j : LatestResponse(j) \subseteq ResponsesTo(j)
  BY DEF LatestResponse
<1>7. \A j : j # i => GradeOf(j)' = GradeOf(j)
  <2>1. \A j : j # i => \A o \in LatestResponse(j) : quiz_responses'[o] = quiz_responses[o]
    BY <1>1, <1>2, <1>6 DEF ResponsesTo
  <2> QED
    BY <2>1, RegradedIsAsLate DEF GradeOf
<1>8. CASE r \in LatestResponse(i)
  <2>1. GradeOf(i)' = {given}
    BY <1>1, <1>8, RegradedIsAsLate DEF GradeOf
  <2>2. grades' = [grades EXCEPT ![i] = {given}]
    BY <1>4, <1>7, <2>1 DEF grades
  <2>3. i \in dones[quiz] /\ phases[quiz] \in {"in_progress", "paused"}
    BY <1>3, <1>4, MappedQuiz DEF DoneOf
  <2>4. Promise!Regrade(quiz)
    BY <1>2, <1>5, <2>2, <2>3 DEF Promise!Regrade
  <2> QED
    BY <1>4, <2>4 DEF Promise!Next
<1>9. CASE r \notin LatestResponse(i)
  <2>1. \A o \in LatestResponse(i) : quiz_responses'[o] = quiz_responses[o]
    BY <1>2, <1>6, <1>9 DEF ResponsesTo
  <2>2. GradeOf(i)' = GradeOf(i)
    BY <2>1, RegradedIsAsLate DEF GradeOf
  <2>3. grades' = grades
    BY <1>7, <2>2 DEF grades
  <2> QED
    BY <1>5, <2>3 DEF Promise!promise
<1> QED
  BY <1>8, <1>9

-----------------------------------------------------------------------------
LEMMA NextKeepsPromise ==
    ASSUME RefinementInv, [Next]_vars
    PROVE  [Promise!Next]_(Promise!promise)
<1>1. StepKind
  BY StepKinds DEF RefinementInv
<1>2. CASE NothingMoves
  BY <1>2, PhasesSame, QuestionsSame, GradesSame DEF NothingMoves, Promise!promise
<1> QED
  BY <1>1, <1>2, StartBegins, MoveAsks, FollowUpExtends, SessionMovesPhase, SubmitAnswers,
     RegradeRegrades
  DEF StepKind

(* The commands of commands_quiz.c keep the promise of QuizPromise:        *)
(* whatever the order and the number of the commands, each is one step of  *)
(* it, or none that it sees.                                               *)
THEOREM Refines == Spec => PromiseKept
<1>1. Init => Promise!Init
  <2>1. Init => /\ \A s : PhaseOf(s) = "none" /\ TodoOf(s) = {} /\ Asked(s) = {} /\ DoneOf(s) = {}
                /\ \A i : GradeOf(i) = {}
    BY DEF Init, PhaseOf, Quizzes, TodoOf, Asked, DoneOf, GradeOf, QuestionsOf, LatestResponse,
           ResponsesTo
  <2> QED
    BY <2>1 DEF Promise!Init, phases, todos, currents, dones, grades
<1>2. RefinementInv /\ [Next]_vars => [Promise!Next]_(Promise!promise)
  BY NextKeepsPromise
<1> QED
  BY <1>1, <1>2, Invariants, PTL DEF Spec, PromiseKept, Promise!Spec
=============================================================================
