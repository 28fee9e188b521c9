--------------------------- MODULE QuizLifecycle ---------------------------
(***************************************************************************)
(* Quiz sessions of learn-book-db, from quiz start to quiz complete or     *)
(* quiz abandon, over the bank and the templates of QuestionBank: the      *)
(* commands of src/commands_quiz.c, and learning add of                    *)
(* src/commands_learning_report.c.                                         *)
(*                                                                         *)
(* Tables are sequences: the id of a row is its index, as no command       *)
(* deletes a row of them, and foreign keys are ids.  Every command is one  *)
(* BEGIN IMMEDIATE transaction, so it is one action: what it writes on the *)
(* way (a session is inserted as planned and started) no one else reads.   *)
(* A command that fails rolls back, so it is not an action.                *)
(* Abstractions:                                                           *)
(*   - an objective is its concept (quiz_objectives holds one row for each *)
(*     distinct concept of a quiz), and lives in its session's row;        *)
(*   - the content a snapshot copies is the revision it was copied at;     *)
(*   - completed_at and asked_at are kept as "is not null";                *)
(*   - quiz_events is the newest row that moved each session, question and *)
(*     response: no command reads an event, the older rows only add        *)
(*     history;                                                            *)
(*   - feedback, answers, reasons and learning topics are left out.        *)
(***************************************************************************)
EXTENDS QuestionBank, Sequences

CONSTANTS
    DefaultLimit,       \* questions of a topic quiz started without --limit
    MaxLimit,           \* bound on --limit
    MaxQuizzes,         \* bound on the rows of quiz_sessions
    MaxQuestions,       \* bound on the rows of quiz_questions
    MaxResponses,       \* bound on the rows of quiz_responses
    MaxRecords,         \* bound on the rows of learning_records
    MaxClock,           \* bound on the wall clock
    ClockGoesBack       \* whether the wall clock may be set back

(* Foreign keys without a row are null; ids start at 1.                    *)
NULL == 0

ASSUME QuizAssumption ==
    /\ NULL \notin Bank
    /\ DefaultLimit \in Nat \ {0}
    /\ MaxLimit \in Nat
    /\ MaxQuizzes \in Nat
    /\ MaxQuestions \in Nat
    /\ MaxResponses \in Nat
    /\ MaxRecords \in Nat
    /\ MaxClock \in Nat \ {0}
    /\ ClockGoesBack \in BOOLEAN

VARIABLES
    quiz_sessions,      \* quiz_sessions with their quiz_objectives
    quiz_questions,
    quiz_responses,
    learning_records,
    session_events,     \* the newest session event of each session
    question_events,    \* the newest lifecycle event of each question
    response_events,    \* the newest event of each response
    now                 \* the wall clock the DEFAULT of answered_at reads

quiz_tables == <<quiz_sessions, quiz_questions, quiz_responses, learning_records>>
event_tables == <<session_events, question_events, response_events>>
quiz_vars == <<quiz_tables, event_tables, now>>
vars == <<bank_vars, quiz_vars>>

-----------------------------------------------------------------------------
(* The lifecycle tables, as the code sorts them.                           *)
SessionTransitions ==
    { <<"abandon", "in_progress", "abandoned">>,
      <<"abandon", "paused", "abandoned">>,
      <<"abandon", "planned", "abandoned">>,
      <<"complete", "in_progress", "completed">>,
      <<"pause", "in_progress", "paused">>,
      <<"resume", "paused", "in_progress">>,
      <<"start", "planned", "in_progress">> }

QuestionTransitions ==
    { <<"answer", "answered", "answered">>,
      <<"answer", "asked", "answered">>,
      <<"defer", "asked", "deferred">>,
      <<"next", "planned", "asked">>,
      <<"requeue", "asked", "planned">>,
      <<"requeue", "deferred", "planned">> }

SessionState == {"planned", "in_progress", "paused", "completed", "abandoned"}
QuestionState == {"planned", "asked", "deferred", "answered", "retired"}
Assessment == {"incorrect", "partially_correct", "correct"}

Live == {"planned", "in_progress", "paused"}
Terminal == {"completed", "abandoned"}
Unresolved == {"planned", "asked", "deferred"}

Quizzes == DOMAIN quiz_sessions
QuestionsOf(quiz) == {i \in DOMAIN quiz_questions : quiz_questions[i].quiz_id = quiz}
ResponsesTo(question) ==
    {r \in DOMAIN quiz_responses : quiz_responses[r].question_id = question}
QuizOf(response) == quiz_questions[quiz_responses[response].question_id].quiz_id

(* Mutant: the rowid is read before the insert.                            *)
IdBeforeInsert(table) == Len(table)

(* The id the next row of a table gets (sqlite3_last_insert_rowid).        *)
NextId(table) == Len(table) + 1

Init ==
    /\ BankInit
    /\ quiz_sessions = <<>>
    /\ quiz_questions = <<>>
    /\ quiz_responses = <<>>
    /\ learning_records = <<>>
    /\ session_events = <<>>
    /\ question_events = <<>>
    /\ response_events = <<>>
    /\ now = 1

-----------------------------------------------------------------------------
(* Selection.  The responses to any snapshot of a bank question; the one   *)
(* with the greatest (answered_at, id); and the rank the ORDER BY gives    *)
(* the question: unseen, then weakest first.                               *)
Seen(bank) ==
    {r \in DOMAIN quiz_responses :
        quiz_questions[quiz_responses[r].question_id].bank_question_id = bank}

(* Mutant: the ORDER BY lacks "r.id DESC", so a tie goes to the older row. *)
NewestWithoutId(responses) ==
    CHOOSE r \in responses : \A o \in responses :
        \/ quiz_responses[o].answered_at < quiz_responses[r].answered_at
        \/ quiz_responses[o].answered_at = quiz_responses[r].answered_at /\ r <= o

NewestByClock(responses) ==
    CHOOSE r \in responses : \A o \in responses :
        \/ quiz_responses[o].answered_at < quiz_responses[r].answered_at
        \/ quiz_responses[o].answered_at = quiz_responses[r].answered_at /\ o <= r

Rank == [incorrect |-> 1, partially_correct |-> 2, correct |-> 3]

Weakness(bank) ==
    IF Seen(bank) = {} THEN 0 ELSE Rank[quiz_responses[NewestByClock(Seen(bank))].assessment]

Adaptive(t) == t \in TagTemplate

SelectsBefore(t, p, q) ==
    \/ Adaptive(t) /\ Weakness(p) < Weakness(q)
    \/ /\ Adaptive(t) => Weakness(p) = Weakness(q)
       /\ BankPosition[p] < BankPosition[q]

(* Mutant: the join lacks "q.active=1".                                    *)
LinkedCandidates(t) == quiz_templates[t].questions

(* The links whose question is still active.                               *)
Candidates(t) == {q \in quiz_templates[t].questions : question_bank[q].active}

(* LIMIT applies to topic and theme templates only.                        *)
SelectionSize(t, limit) ==
    IF Adaptive(t) /\ limit < Cardinality(Candidates(t))
    THEN limit ELSE Cardinality(Candidates(t))

(* The rows ORDER BY ... LIMIT returns: the set has one element.           *)
select_template_questions(t, limit) ==
    {selected \in [1..SelectionSize(t, limit) -> Candidates(t)] :
        \A i \in DOMAIN selected :
            /\ \A j \in DOMAIN selected : i < j => SelectsBefore(t, selected[i], selected[j])
            /\ \A q \in Candidates(t) :
                   (\A j \in DOMAIN selected : selected[j] # q) =>
                       SelectsBefore(t, selected[i], q)}

(* Mutant: a paused session does not count as live.                        *)
RunningSessions(t) ==
    {s \in Quizzes :
        quiz_sessions[s].template_id = t /\ quiz_sessions[s].state \in {"planned", "in_progress"}}

LiveSessions(t) ==
    {s \in Quizzes : quiz_sessions[s].template_id = t /\ quiz_sessions[s].state \in Live}

(* The session row quiz start leaves behind: planned, then started.        *)
StartedSession(t, selected) ==
    [template_id |-> t, state |-> "in_progress", completed_at |-> FALSE,
     base_question_count |-> Len(selected),
     objectives |-> {ConceptOf[selected[i]] : i \in DOMAIN selected}]

BaseQuestion(quiz, position, bank) ==
    [quiz_id |-> quiz, position |-> position, origin |-> "base",
     objective_id |-> ConceptOf[bank], bank_question_id |-> bank,
     revision |-> question_bank[bank].revision,
     state |-> "planned", asked_at |-> FALSE]

NoEvent == [event_type |-> "none", previous_state |-> "none"]

(* create_quiz_snapshot *)
CreateSnapshot(t, limit) ==
    /\ Len(quiz_sessions) < MaxQuizzes
    /\ <<"start", "planned", "in_progress">> \in SessionTransitions
    /\ \E selected \in select_template_questions(t, limit) :
        LET quiz == NextId(quiz_sessions)
            base == [i \in 1..Len(selected) |-> BaseQuestion(quiz, i, selected[i])]
        IN  /\ selected # <<>>
            /\ Len(quiz_questions) + Len(selected) <= MaxQuestions
            /\ quiz_sessions' = Append(quiz_sessions, StartedSession(t, selected))
            /\ quiz_questions' = quiz_questions \o base
            /\ session_events' = Append(session_events,
                   [event |-> "start", from |-> "planned", to |-> "in_progress"])
            /\ question_events' = question_events \o [i \in 1..Len(selected) |-> NoEvent]
            /\ db_operations' = Operation("quiz.start", "quiz_session", quiz)
    /\ UNCHANGED <<question_bank, quiz_templates, quiz_responses, learning_records,
                   response_events, now>>

(* The live session with the least id is returned as it is.                *)
StartExisting(t) ==
    /\ \E quiz \in LiveSessions(t) :
        /\ \A s \in LiveSessions(t) : quiz <= s
        /\ db_operations' = Operation("quiz.start", "quiz_session", quiz)
    /\ UNCHANGED <<question_bank, quiz_templates, quiz_vars>>

(* requested = 0 when --limit is absent.                                   *)
QuizStart(t, requested) ==
    /\ quiz_templates[t].active
    /\ t \in ChapterTemplate => requested = 0
    /\ IF LiveSessions(t) # {}
       THEN StartExisting(t)
       ELSE CreateSnapshot(t, IF requested > 0 THEN requested ELSE DefaultLimit)

-----------------------------------------------------------------------------
(* Mutant: the guard refuses terminal sessions only.                       *)
NotTerminal(quiz) == quiz \in Quizzes /\ quiz_sessions[quiz].state \notin Terminal

InProgress(quiz) == quiz \in Quizzes /\ quiz_sessions[quiz].state = "in_progress"

Asked(quiz) == {i \in QuestionsOf(quiz) : quiz_questions[i].state = "asked"}
Planned(quiz) == {i \in QuestionsOf(quiz) : quiz_questions[i].state = "planned"}

(* quiz next with an asked question: only the audit row is new.            *)
NextAlreadyAsked(quiz) ==
    /\ InProgress(quiz)
    /\ Asked(quiz) # {}
    /\ db_operations' = Operation("quiz.next", "quiz_session", quiz)
    /\ UNCHANGED <<question_bank, quiz_templates, quiz_vars>>

(* Mutant: quiz next does not look for an asked question first.            *)
NextAsksAnother(quiz) ==
    /\ InProgress(quiz)
    /\ \E i \in Planned(quiz) :
        /\ quiz_questions' = [quiz_questions EXCEPT ![i].state = "asked", ![i].asked_at = TRUE]
        /\ question_events' = [question_events EXCEPT
               ![i] = [event_type |-> "question_asked", previous_state |-> "none"]]
    /\ db_operations' = Operation("quiz.next", "quiz_session", quiz)
    /\ UNCHANGED <<question_bank, quiz_templates, quiz_sessions, quiz_responses,
                   learning_records, session_events, response_events, now>>

(* quiz next: the planned question with the least position is asked.       *)
NextAsks(quiz) ==
    /\ InProgress(quiz)
    /\ Asked(quiz) = {}
    /\ \E i \in Planned(quiz) :
        /\ \A j \in Planned(quiz) : quiz_questions[i].position <= quiz_questions[j].position
        /\ <<"next", quiz_questions[i].state, "asked">> \in QuestionTransitions
        /\ quiz_questions' = [quiz_questions EXCEPT ![i].state = "asked", ![i].asked_at = TRUE]
        /\ question_events' = [question_events EXCEPT
               ![i] = [event_type |-> "question_asked", previous_state |-> "none"]]
    /\ db_operations' = Operation("quiz.next", "quiz_session", quiz)
    /\ UNCHANGED <<question_bank, quiz_templates, quiz_sessions, quiz_responses,
                   learning_records, session_events, response_events, now>>

QuizNext(quiz) == NextAlreadyAsked(quiz) \/ NextAsks(quiz)

(* question_state_change *)
QuestionStateChange(quiz, i, event, target, event_type, asked_at) ==
    /\ InProgress(quiz)
    /\ i \in QuestionsOf(quiz)
    /\ <<event, quiz_questions[i].state, target>> \in QuestionTransitions
    /\ quiz_questions' =
           [quiz_questions EXCEPT ![i].state = target, ![i].asked_at = asked_at]
    /\ question_events' = [question_events EXCEPT
           ![i] = [event_type |-> event_type, previous_state |-> quiz_questions[i].state]]
    /\ db_operations' = Operation("quiz." \o event, "quiz_question", i)
    /\ UNCHANGED <<question_bank, quiz_templates, quiz_sessions, quiz_responses,
                   learning_records, session_events, response_events, now>>

(* Mutants: the event names of the two commands are swapped; requeue       *)
(* leaves asked_at.                                                        *)
DeferRecordedAsRequeue(quiz, i) ==
    QuestionStateChange(quiz, i, "defer", "deferred", "question_requeued",
                        quiz_questions[i].asked_at)

RequeueKeepsAskedAt(quiz, i) ==
    QuestionStateChange(quiz, i, "requeue", "planned", "question_requeued",
                        quiz_questions[i].asked_at)

(* defer keeps asked_at, requeue clears it.                                *)
QuizDefer(quiz, i) ==
    QuestionStateChange(quiz, i, "defer", "deferred", "question_deferred",
                        quiz_questions[i].asked_at)

QuizRequeue(quiz, i) ==
    QuestionStateChange(quiz, i, "requeue", "planned", "question_requeued", FALSE)

(* Mutant: a follow-up is stored as a base question.                       *)
FollowUpAsBase(quiz, position, concept) ==
    [quiz_id |-> quiz, position |-> position, origin |-> "base",
     objective_id |-> concept, bank_question_id |-> NULL, revision |-> 0,
     state |-> "planned", asked_at |-> FALSE]

FollowUpQuestion(quiz, position, concept) ==
    [quiz_id |-> quiz, position |-> position, origin |-> "follow_up",
     objective_id |-> concept, bank_question_id |-> NULL, revision |-> 0,
     state |-> "planned", asked_at |-> FALSE]

(* Mutant: the greatest position in use, without the +1.                   *)
IsLastPosition(quiz, position) ==
    /\ \A i \in QuestionsOf(quiz) : quiz_questions[i].position <= position
    /\ \E i \in QuestionsOf(quiz) : quiz_questions[i].position = position

(* coalesce(max(position),0)+1 over the quiz.                              *)
IsNextPosition(quiz, position) ==
    /\ \A i \in QuestionsOf(quiz) : quiz_questions[i].position < position
    /\ position = 1 \/ \E i \in QuestionsOf(quiz) : quiz_questions[i].position = position - 1

(* quiz follow-up: appended for one objective of the same quiz.            *)
QuizFollowUp(quiz, concept) ==
    /\ InProgress(quiz)
    /\ Len(quiz_questions) < MaxQuestions
    /\ concept \in quiz_sessions[quiz].objectives
    /\ \E position \in 1..NextId(quiz_questions) :
        /\ IsNextPosition(quiz, position)
        /\ quiz_questions' =
               Append(quiz_questions, FollowUpQuestion(quiz, position, concept))
    /\ question_events' = Append(question_events,
           [event_type |-> "follow_up_added", previous_state |-> "none"])
    /\ db_operations' = Operation("quiz.follow-up", "quiz_question", NextId(quiz_questions))
    /\ UNCHANGED <<question_bank, quiz_templates, quiz_sessions, quiz_responses,
                   learning_records, session_events, response_events, now>>

-----------------------------------------------------------------------------
(* Mutant: a deferred question counts as resolved.                         *)
UnresolvedButDeferred(quiz) ==
    {i \in QuestionsOf(quiz) : quiz_questions[i].state \in {"planned", "asked"}}

UnresolvedOf(quiz) ==
    {i \in QuestionsOf(quiz) : quiz_questions[i].state \in Unresolved}

(* The tail of session_state_change: the session row, its event and the    *)
(* audit row.                                                              *)
WriteSessionState(quiz, event, target) ==
    /\ quiz_sessions' = [quiz_sessions EXCEPT
           ![quiz].state = target, ![quiz].completed_at = target \in Terminal]
    /\ session_events' = [session_events EXCEPT
           ![quiz] = [event |-> event, from |-> quiz_sessions[quiz].state, to |-> target]]
    /\ db_operations' = Operation("quiz." \o event, "quiz_session", quiz)

MayChange(quiz, event, target) ==
    quiz \in Quizzes /\ <<event, quiz_sessions[quiz].state, target>> \in SessionTransitions

QuizPause(quiz) ==
    /\ MayChange(quiz, "pause", "paused")
    /\ WriteSessionState(quiz, "pause", "paused")
    /\ UNCHANGED <<question_bank, quiz_templates, quiz_questions, quiz_responses,
                   learning_records, question_events, response_events, now>>

QuizResume(quiz) ==
    /\ MayChange(quiz, "resume", "in_progress")
    /\ WriteSessionState(quiz, "resume", "in_progress")
    /\ UNCHANGED <<question_bank, quiz_templates, quiz_questions, quiz_responses,
                   learning_records, question_events, response_events, now>>

QuizComplete(quiz) ==
    /\ MayChange(quiz, "complete", "completed")
    /\ UnresolvedOf(quiz) = {}
    /\ WriteSessionState(quiz, "complete", "completed")
    /\ UNCHANGED <<question_bank, quiz_templates, quiz_questions, quiz_responses,
                   learning_records, question_events, response_events, now>>

(* Mutant: the retirement events are inserted after the UPDATE.            *)
AbandonEventsLate(quiz) ==
    /\ MayChange(quiz, "abandon", "abandoned")
    /\ quiz_questions' = [i \in DOMAIN quiz_questions |->
           IF i \in UnresolvedOf(quiz)
           THEN [quiz_questions[i] EXCEPT !.state = "retired"]
           ELSE quiz_questions[i]]
    /\ question_events' = [i \in DOMAIN question_events |->
           IF i \in UnresolvedOf(quiz)
           THEN [event_type |-> "question_retired", previous_state |-> quiz_questions'[i].state]
           ELSE question_events[i]]
    /\ WriteSessionState(quiz, "abandon", "abandoned")
    /\ UNCHANGED <<question_bank, quiz_templates, quiz_responses, learning_records,
                   response_events, now>>

(* Abandoning retires the unresolved questions, whatever the transition    *)
(* table says of them; their events carry the states they had.             *)
QuizAbandon(quiz) ==
    /\ MayChange(quiz, "abandon", "abandoned")
    /\ question_events' = [i \in DOMAIN question_events |->
           IF i \in UnresolvedOf(quiz)
           THEN [event_type |-> "question_retired", previous_state |-> quiz_questions[i].state]
           ELSE question_events[i]]
    /\ quiz_questions' = [i \in DOMAIN quiz_questions |->
           IF i \in UnresolvedOf(quiz)
           THEN [quiz_questions[i] EXCEPT !.state = "retired"]
           ELSE quiz_questions[i]]
    /\ WriteSessionState(quiz, "abandon", "abandoned")
    /\ UNCHANGED <<question_bank, quiz_templates, quiz_responses, learning_records,
                   response_events, now>>

-----------------------------------------------------------------------------
(* lbdb_insert_learning_record: the quiz a response is linked to, and the  *)
(* rows that pass its checks.                                              *)
SourceType == {"conversation", "quiz", "code_review"}

DerivedQuiz(response) == IF response = NULL THEN NULL ELSE QuizOf(response)

LearningRecord(source_type, quiz, response) ==
    [source_type |-> source_type, quiz_response_id |-> response,
     quiz_id |-> IF quiz = NULL THEN DerivedQuiz(response) ELSE quiz]

(* Mutant: the quiz given is not compared with the response's.             *)
LearningLinksExist(source_type, quiz, response) ==
    /\ response # NULL => response \in DOMAIN quiz_responses
    /\ quiz # NULL => quiz \in Quizzes
    /\ source_type = "quiz" <=> quiz # NULL \/ response # NULL

LearningLinksAgree(source_type, quiz, response) ==
    /\ response # NULL => response \in DOMAIN quiz_responses
    /\ quiz # NULL => quiz \in Quizzes
    /\ quiz # NULL /\ response # NULL => DerivedQuiz(response) = quiz
    /\ source_type = "quiz" <=> quiz # NULL \/ response # NULL

(* learning add; without --source-type the links decide it.                *)
LearningAdd(source_type, quiz, response) ==
    /\ Len(learning_records) < MaxRecords
    /\ LearningLinksAgree(source_type, quiz, response)
    /\ learning_records' =
           Append(learning_records, LearningRecord(source_type, quiz, response))
    /\ db_operations' = Operation("learning.add", "learning_record", NextId(learning_records))
    /\ UNCHANGED <<question_bank, quiz_templates, quiz_sessions, quiz_questions,
                   quiz_responses, event_tables, now>>

(* Mutant: the maximum is taken over all responses.                        *)
IsNextAttemptOfAll(question, attempt) ==
    /\ \A r \in DOMAIN quiz_responses : quiz_responses[r].attempt_number < attempt
    /\ \/ attempt = 1
       \/ \E r \in DOMAIN quiz_responses : quiz_responses[r].attempt_number = attempt - 1

(* coalesce(max(attempt_number),0)+1 over the question.                    *)
IsNextAttempt(question, attempt) ==
    /\ \A r \in ResponsesTo(question) : quiz_responses[r].attempt_number < attempt
    /\ \/ attempt = 1
       \/ \E r \in ResponsesTo(question) : quiz_responses[r].attempt_number = attempt - 1

(* response submit, with a linked learning record or without.              *)
ResponseSubmit(i, assessment, linked) ==
    LET quiz == quiz_questions[i].quiz_id
        response == NextId(quiz_responses)
    IN  /\ Len(quiz_responses) < MaxResponses
        /\ linked => Len(learning_records) < MaxRecords
        /\ quiz_sessions[quiz].state = "in_progress"
        /\ <<"answer", quiz_questions[i].state, "answered">> \in QuestionTransitions
        /\ \E attempt \in 1..response :
            /\ IsNextAttempt(i, attempt)
            /\ quiz_responses' = Append(quiz_responses,
                   [question_id |-> i, attempt_number |-> attempt,
                    answered_at |-> now, assessment |-> assessment])
        /\ quiz_questions' = [quiz_questions EXCEPT ![i].state = "answered"]
        /\ question_events' = [question_events EXCEPT
               ![i] = [event_type |-> "answer_submitted",
                       previous_state |-> quiz_questions[i].state]]
        /\ response_events' = Append(response_events,
               [event_type |-> "answer_submitted", before |-> "none", after |-> assessment])
        /\ learning_records' =
               IF linked
               THEN Append(learning_records, LearningRecord("quiz", quiz, response))
               ELSE learning_records
        /\ db_operations' = Operation("response.submit", "quiz_response", response)
        /\ UNCHANGED <<question_bank, quiz_templates, quiz_sessions, session_events, now>>

(* Mutant: the schema lacks the trigger.                                   *)
RegradeUnchecked(response) == response \in DOMAIN quiz_responses

(* terminal_response_update, the trigger that alone keeps a regrade out of *)
(* a terminal session.                                                     *)
RegradeAllowed(response) == quiz_sessions[QuizOf(response)].state \notin Terminal

(* Mutant: the regrade dates the response anew.                            *)
RegradeDatesAnew(response, assessment) ==
    /\ RegradeAllowed(response)
    /\ quiz_responses' = [quiz_responses EXCEPT
           ![response].assessment = assessment, ![response].answered_at = now]
    /\ response_events' = [response_events EXCEPT
           ![response] = [event_type |-> "response_regraded",
                          before |-> quiz_responses[response].assessment,
                          after |-> assessment]]
    /\ db_operations' = Operation("response.regrade", "quiz_response", response)
    /\ UNCHANGED <<question_bank, quiz_templates, quiz_sessions, quiz_questions,
                   learning_records, session_events, question_events, now>>

ResponseRegrade(response, assessment) ==
    /\ RegradeAllowed(response)
    /\ quiz_responses' = [quiz_responses EXCEPT ![response].assessment = assessment]
    /\ response_events' = [response_events EXCEPT
           ![response] = [event_type |-> "response_regraded",
                          before |-> quiz_responses[response].assessment,
                          after |-> assessment]]
    /\ db_operations' = Operation("response.regrade", "quiz_response", response)
    /\ UNCHANGED <<question_bank, quiz_templates, quiz_sessions, quiz_questions,
                   learning_records, session_events, question_events, now>>

-----------------------------------------------------------------------------
(* The wall clock, which strftime('now') reads.                            *)
Tick ==
    /\ \E time \in 1..MaxClock : time # now /\ (time > now \/ ClockGoesBack) /\ now' = time
    /\ UNCHANGED <<bank_vars, quiz_tables, event_tables>>

SessionCommand(quiz) ==
    \/ QuizNext(quiz)
    \/ \E i \in QuestionsOf(quiz) : QuizDefer(quiz, i)
    \/ \E i \in QuestionsOf(quiz) : QuizRequeue(quiz, i)
    \/ \E concept \in Concept : QuizFollowUp(quiz, concept)
    \/ QuizPause(quiz)
    \/ QuizResume(quiz)
    \/ QuizComplete(quiz)
    \/ QuizAbandon(quiz)

QuizCommand ==
    \/ \E t \in Template, requested \in 0..MaxLimit : QuizStart(t, requested)
    \/ \E quiz \in Quizzes : SessionCommand(quiz)
    \/ \E i \in DOMAIN quiz_questions, assessment \in Assessment, linked \in BOOLEAN :
           ResponseSubmit(i, assessment, linked)
    \/ \E response \in DOMAIN quiz_responses, assessment \in Assessment :
           ResponseRegrade(response, assessment)
    \/ \E source_type \in SourceType, quiz \in Quizzes \cup {NULL},
          response \in DOMAIN quiz_responses \cup {NULL} :
           LearningAdd(source_type, quiz, response)

(* Mutant: snapshots follow the bank instead of copying it.                *)
BankCommandReachesSnapshots ==
    /\ BankNext
    /\ quiz_questions' = [i \in DOMAIN quiz_questions |->
           IF quiz_questions[i].bank_question_id = NULL THEN quiz_questions[i]
           ELSE [quiz_questions[i] EXCEPT
                    !.revision = question_bank'[quiz_questions[i].bank_question_id].revision]]
    /\ UNCHANGED <<quiz_sessions, quiz_responses, learning_records, event_tables, now>>

(* A bank command writes no table of a quiz.                               *)
BankCommand == BankNext /\ UNCHANGED quiz_vars

Next == BankCommand \/ QuizCommand \/ Tick

Spec == Init /\ [][Next]_vars

-----------------------------------------------------------------------------
SessionRow ==
    [template_id: Template, state: SessionState, completed_at: BOOLEAN,
     base_question_count: Nat, objectives: SUBSET Concept]

QuestionRow ==
    [quiz_id: Quizzes, position: Nat \ {0}, origin: {"base", "follow_up"},
     objective_id: Concept, bank_question_id: Bank \cup {NULL}, revision: Nat,
     state: QuestionState, asked_at: BOOLEAN]

ResponseRow ==
    [question_id: DOMAIN quiz_questions, attempt_number: Nat \ {0},
     answered_at: Nat, assessment: Assessment]

LearningRow ==
    [source_type: SourceType, quiz_id: Quizzes \cup {NULL},
     quiz_response_id: DOMAIN quiz_responses \cup {NULL}]

SessionEvent ==
    [event: {"start", "pause", "resume", "complete", "abandon"},
     from: SessionState, to: SessionState]

QuestionEvent ==
    [event_type: {"none", "follow_up_added", "question_asked", "question_deferred",
                  "question_requeued", "answer_submitted", "question_retired"},
     previous_state: QuestionState \cup {"none"}]

ResponseEvent ==
    [event_type: {"answer_submitted", "response_regraded"},
     before: Assessment \cup {"none"}, after: Assessment]

(* The columns have their types, every foreign key names a row, and every  *)
(* row that moves has its event.                                           *)
TypeOK ==
    /\ BankTypeOK
    /\ quiz_sessions \in Seq(SessionRow)
    /\ quiz_questions \in Seq(QuestionRow)
    /\ quiz_responses \in Seq(ResponseRow)
    /\ learning_records \in Seq(LearningRow)
    /\ session_events \in [Quizzes -> SessionEvent]
    /\ question_events \in [DOMAIN quiz_questions -> QuestionEvent]
    /\ response_events \in [DOMAIN quiz_responses -> ResponseEvent]
    /\ now \in Nat

(* At most one question of a quiz is asked and unanswered: the handlers'   *)
(* own logic keeps what the index quiz_questions_one_asked would refuse.   *)
OneAskedPerQuiz ==
    \A i, j \in DOMAIN quiz_questions :
        /\ quiz_questions[i].state = "asked"
        /\ quiz_questions[j].state = "asked"
        /\ quiz_questions[i].quiz_id = quiz_questions[j].quiz_id
        => i = j

(* A template has at most one live session.  No index says so: quiz start  *)
(* returns the live session of a template instead of a second one.         *)
OneLiveSessionPerTemplate ==
    \A r, s \in Quizzes :
        /\ quiz_sessions[r].state \in Live
        /\ quiz_sessions[s].state \in Live
        /\ quiz_sessions[r].template_id = quiz_sessions[s].template_id
        => r = s

(* A question is answered exactly when it has a response, which report     *)
(* state-drift looks for, and asked_at is null exactly when it is planned  *)
(* or was retired before it was asked.                                     *)
QuestionHistory ==
    \A i \in DOMAIN quiz_questions :
        LET q == quiz_questions[i]
        IN  /\ q.state = "answered" <=> ResponsesTo(i) # {}
            /\ q.state = "planned" => ~q.asked_at
            /\ q.state \in {"asked", "deferred", "answered"} => q.asked_at

(* A completed quiz has only answered questions, an abandoned one answered *)
(* and retired ones, and nothing else is ever retired.                     *)
TerminalIsResolved ==
    /\ \A s \in Quizzes :
           quiz_sessions[s].completed_at <=> quiz_sessions[s].state \in Terminal
    /\ \A i \in DOMAIN quiz_questions :
           LET session == quiz_sessions[quiz_questions[i].quiz_id].state
           IN  /\ session = "completed" => quiz_questions[i].state = "answered"
               /\ session = "abandoned" => quiz_questions[i].state \in {"answered", "retired"}
               /\ quiz_questions[i].state = "retired" => session = "abandoned"

(* A quiz's questions are numbered 1..n without a gap, its base questions  *)
(* first and as many as base_question_count; no bank question occurs       *)
(* twice; every question serves an objective of its own quiz, a base       *)
(* question that of its concept, and no objective is without one.          *)
SnapshotShape ==
    \A s \in Quizzes :
        LET session == quiz_sessions[s]
            base == {i \in QuestionsOf(s) : quiz_questions[i].origin = "base"}
            At(i) == quiz_questions[i].position
        IN  /\ session.base_question_count > 0
            /\ {At(i) : i \in QuestionsOf(s)} = 1..Cardinality(QuestionsOf(s))
            /\ {At(i) : i \in base} = 1..session.base_question_count
            /\ \A i, j \in base :
                   quiz_questions[i].bank_question_id = quiz_questions[j].bank_question_id => i = j
            /\ \A i \in QuestionsOf(s) : quiz_questions[i].objective_id \in session.objectives
            /\ \A i \in base :
                   quiz_questions[i].objective_id = ConceptOf[quiz_questions[i].bank_question_id]
            /\ \A concept \in session.objectives :
                   \E i \in base : quiz_questions[i].objective_id = concept

(* The attempts at a question are numbered 1..n in the order submitted, so *)
(* "the greatest attempt number" of progress and mastery is the last one.  *)
AttemptsNumbered ==
    \A i \in DOMAIN quiz_questions : \A r \in ResponsesTo(i) :
        quiz_responses[r].attempt_number = Cardinality({o \in ResponsesTo(i) : o <= r})

(* Evidence linked to a response names that response's quiz, and only      *)
(* evidence of source type quiz is linked to one.                          *)
EvidenceLinksAgree ==
    \A l \in DOMAIN learning_records :
        LET record == learning_records[l]
        IN  /\ record.quiz_response_id # NULL => record.quiz_id = QuizOf(record.quiz_response_id)
            /\ record.source_type = "quiz" <=> record.quiz_id # NULL

(* What the newest event of a question says its state is.                  *)
StateAfter ==
    [none |-> "planned", follow_up_added |-> "planned", question_requeued |-> "planned",
     question_asked |-> "asked", question_deferred |-> "deferred",
     answer_submitted |-> "answered", question_retired |-> "retired"]

(* quiz_events tells the state: the newest event of a session, a question  *)
(* and a response gives the state, or the grade, the row has.              *)
EventsReplay ==
    /\ \A s \in Quizzes : quiz_sessions[s].state = session_events[s].to
    /\ \A i \in DOMAIN quiz_questions :
           quiz_questions[i].state = StateAfter[question_events[i].event_type]
    /\ \A r \in DOMAIN quiz_responses :
           quiz_responses[r].assessment = response_events[r].after

-----------------------------------------------------------------------------
(* An event that replaces another one starts where that one ended: from,   *)
(* previous_state and before are the values the command found.             *)
EventsChain ==
    [][ /\ \A s \in Quizzes : session_events'[s] # session_events[s] =>
               session_events'[s].from = quiz_sessions[s].state
        /\ \A i \in DOMAIN quiz_questions :
               /\ question_events'[i] # question_events[i]
               /\ question_events'[i].previous_state # "none"
               => question_events'[i].previous_state = quiz_questions[i].state
        /\ \A r \in DOMAIN quiz_responses :
               response_events'[r] # response_events[r] =>
                   response_events'[r].before = quiz_responses[r].assessment ]_vars

(* A completed or abandoned quiz never changes again: neither its session, *)
(* nor its questions, nor their responses, and nothing is added to it.     *)
TerminalFrozen ==
    [][\A s \in Quizzes : quiz_sessions[s].state \in Terminal =>
        /\ quiz_sessions'[s] = quiz_sessions[s]
        /\ QuestionsOf(s)' = QuestionsOf(s)
        /\ \A i \in QuestionsOf(s) :
               /\ quiz_questions'[i] = quiz_questions[i]
               /\ ResponsesTo(i)' = ResponsesTo(i)
               /\ \A r \in ResponsesTo(i) : quiz_responses'[r] = quiz_responses[r]]_vars

(* While a quiz is paused its questions stand still: none is asked,        *)
(* deferred, requeued, answered or added before it is resumed; abandoning  *)
(* it is the only other way on.                                            *)
PausedIsQuiet ==
    [][\A s \in Quizzes :
        quiz_sessions[s].state = "paused" /\ quiz_sessions'[s].state # "abandoned" =>
            /\ QuestionsOf(s)' = QuestionsOf(s)
            /\ \A i \in QuestionsOf(s) :
                   quiz_questions'[i] = quiz_questions[i] /\ ResponsesTo(i)' = ResponsesTo(i)]_vars

(* Snapshots are immutable but for their states: no row disappears, and a  *)
(* bank revision, a rebuild or a regrade leaves a question's content, place *)
(* and objective and a response's question, number and time as they were.  *)
RowsKept ==
    [][ /\ \A s \in Quizzes :
               quiz_sessions'[s] = [quiz_sessions[s] EXCEPT
                   !.state = quiz_sessions'[s].state,
                   !.completed_at = quiz_sessions'[s].completed_at]
        /\ \A i \in DOMAIN quiz_questions :
               quiz_questions'[i] = [quiz_questions[i] EXCEPT
                   !.state = quiz_questions'[i].state,
                   !.asked_at = quiz_questions'[i].asked_at]
        /\ \A r \in DOMAIN quiz_responses :
               quiz_responses'[r] = [quiz_responses[r] EXCEPT
                   !.assessment = quiz_responses'[r].assessment]
        /\ \A l \in DOMAIN learning_records :
               learning_records'[l] = learning_records[l] ]_vars

(* The sessions and questions a step inserts.                              *)
NewQuizzes == (DOMAIN quiz_sessions)' \ DOMAIN quiz_sessions
NewQuestions(quiz) == QuestionsOf(quiz)' \ DOMAIN quiz_questions

(* A new snapshot takes what the template links and the bank says at that  *)
(* moment: only active questions, at their current revision, and all of    *)
(* them in the order of the unit when the template is a chapter's.         *)
StartTakesCurrentBank ==
    [][\A s \in NewQuizzes :
        LET t == quiz_sessions'[s].template_id
            taken == {quiz_questions'[i].bank_question_id : i \in NewQuestions(s)}
            linked == {q \in quiz_templates[t].questions : IsActive(q)}
        IN  /\ taken \subseteq linked
            /\ t \in ChapterTemplate => taken = linked
            /\ \A i \in NewQuestions(s) :
                   quiz_questions'[i].revision =
                       question_bank[quiz_questions'[i].bank_question_id].revision
            /\ t \in ChapterTemplate => \A i, j \in NewQuestions(s) : i < j =>
                   BankPosition[quiz_questions'[i].bank_question_id] <
                       BankPosition[quiz_questions'[j].bank_question_id]]_vars

(* The rank of a bank question by the assessment submitted last.           *)
LastSubmitted(bank) == CHOOSE r \in Seen(bank) : \A o \in Seen(bank) : o <= r

LatestRank(bank) ==
    IF Seen(bank) = {} THEN 0 ELSE Rank[quiz_responses[LastSubmitted(bank)].assessment]

(* "Topic/theme selections prioritize unseen questions, then weak latest   *)
(* assessments" (docs/schema.md): a new topic or theme quiz asks a         *)
(* question before, or instead of, another one only if the latest          *)
(* assessment of the other one is no weaker.                               *)
AdaptiveWeakestFirst ==
    [][\A s \in NewQuizzes :
        LET t == quiz_sessions'[s].template_id
            Asks(i) == quiz_questions'[i].bank_question_id
        IN  t \in TagTemplate =>
            \A i \in NewQuestions(s) :
                /\ \A j \in NewQuestions(s) : i < j => LatestRank(Asks(i)) <= LatestRank(Asks(j))
                /\ \A q \in Candidates(t) :
                       (\A j \in NewQuestions(s) : Asks(j) # q) =>
                           LatestRank(Asks(i)) <= LatestRank(q)]_vars

(* "A handler cannot write a target state until the corresponding          *)
(* (event, from, to) tuple is present" (docs/architecture.md): every       *)
(* change of a question's state is a tuple of its transition table.        *)
QuestionsMoveByTable ==
    [][\A i \in DOMAIN quiz_questions :
        quiz_questions'[i].state # quiz_questions[i].state =>
            \E transition \in QuestionTransitions :
                /\ transition[2] = quiz_questions[i].state
                /\ transition[3] = quiz_questions'[i].state]_vars
=============================================================================
