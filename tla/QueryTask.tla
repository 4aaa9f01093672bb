------------------------------- MODULE QueryTask -------------------------------
(***************************************************************************)
(* The life of a QueryTask: a question is submitted, analysed by the       *)
(* models, perhaps clarified with the user, executed as one read-only SQL  *)
(* query, and answered.                                                    *)
(*                                                                         *)
(*   task_service.py             submit, request / submit / cancel          *)
(*                               clarification, delete conversation         *)
(*   semantic_task_service.py    analyze                                    *)
(*   query_execution_service.py  execute                                    *)
(*   repositories.py             the rows and the optimistic update          *)
(*                                                                         *)
(* Every HTTP request is served by a handler thread.  A `with uow_factory` *)
(* block is one transaction.  Blocks that read the task row FOR UPDATE hold *)
(* its lock until they commit, so each is one action.  Blocks that read it  *)
(* without a lock are two actions, Begin... (the read) and the action that  *)
(* commits, because other transactions may commit in between; so are        *)
(* analyze and execute, which leave the database to call a model or the    *)
(* data source between two transactions.                                    *)
(*                                                                         *)
(* A definition introduced as a faulty variant of another is not the code:  *)
(* it is the bug the properties below are there to notice.                  *)
(*                                                                         *)
(* A request the code refuses without writing (unknown task, wrong version, *)
(* wrong clarification, replay of a processed id) changes no state and is   *)
(* not a step.                                                              *)
(***************************************************************************)
EXTENDS Integers, Sequences, TaskStateMachine

CONSTANTS
  Tasks,           \* the task ids uuid4 can draw
  Conversations,   \* conversation ids
  ConversationOf,  \* the conversation a task id is submitted in
  Handlers,        \* request handler threads
  Requests,        \* request ids and Idempotency-Keys the clients use
  ProcessedLimit,  \* _PROCESSED_REQUEST_LIMIT
  NoTask,          \* NULL in query_runs.task_id
  NoRequest,       \* no request id
  MaxVersion,      \* bound: highest version a task row reaches
  MaxCrashes       \* bound: handlers that die without finishing

ASSUME TasksAssumption == NoTask \notin Tasks
ASSUME RequestsAssumption == NoRequest \notin Requests
ASSUME ConversationAssumption == ConversationOf \in [Tasks -> Conversations]
ASSUME LimitAssumption == ProcessedLimit \in Nat \ {0}
ASSUME BoundsAssumption == MaxVersion \in Nat \ {0} /\ MaxCrashes \in Nat

VARIABLES
  query_tasks,     \* [Tasks -> Row]: the table query_tasks, state_json included
  issued,          \* task ids already drawn
  query_runs,      \* the table query_runs, in the order of its autoincrement id
  chat_messages,   \* [Tasks -> Seq(Message)]: the messages of a task, in order
  handler,         \* [Handlers -> Handler]: what each thread is doing
  crashes          \* how many handlers have died

vars == <<query_tasks, issued, query_runs, chat_messages, handler, crashes>>

-------------------------------------------------------------------------------
(* The rows *)

NoClarification == [id |-> 0, type |-> "none", task_version |-> 0]

NoExecution == [request_id |-> NoRequest, run_id |-> 0, status |-> "none"]

\* A task row that does not exist: not yet submitted, or deleted.
NoRow ==
  [status |-> "NONE", stage |-> "NONE", version |-> 0,
   clarification |-> NoClarification, logical_dsl |-> FALSE,
   execution |-> NoExecution, processed |-> <<>>, answers |-> <<>>]

Exists(t) == query_tasks[t].status # "NONE"

\* Faulty variant of NewClarification: the token keeps an older version.
StaleClarification(expected, type) ==
  [id |-> expected + 1, type |-> type, task_version |-> expected - 1]

\* A fresh clarification, uuid4.  A task gets at most one per version, so the
\* version it is created for names it.  Its task_version is the version a
\* continuation token must present.
NewClarification(expected, type) ==
  [id |-> expected + 1, type |-> type, task_version |-> expected + 1]

\* A row added to query_runs.  `request_id` is not a column: it is a history
\* component that remembers which execute request caused the run.
Run(t, r, status) == [task_id |-> t, request_id |-> r, status |-> status]

Message(kind, ref) == [kind |-> kind, ref |-> ref]

\* The kinds of message that tell the user how the task ended.
OutcomeKinds == {"query_result", "task_error", "intent_boundary"}

\* _processed_replay finds the request id among the processed ones.
IsProcessed(row, r) == \E i \in DOMAIN row.processed : row.processed[i] = r

\* _record_processed_request: a first-in first-out window of request ids.
RecordProcessedRequest(processed, r) ==
  IF Len(processed) < ProcessedLimit
  THEN Append(processed, r)
  ELSE Append(Tail(processed), r)

\* Faulty variant of UpdateOptimistically: the row is stored whatever the table
\* holds by now.
OverwriteTask(t, expected, row) ==
  query_tasks' = [query_tasks EXCEPT ![t] = [row EXCEPT !.version = expected + 1]]

\* QueryTaskRepository.update_optimistically: UPDATE ... WHERE id = t AND
\* version = expected; the statement sees the latest committed row.
UpdateOptimistically(t, expected, row) ==
  /\ Exists(t)
  /\ query_tasks[t].version = expected
  /\ query_tasks' = [query_tasks EXCEPT ![t] = [row EXCEPT !.version = expected + 1]]

AddMessages(t, messages) ==
  chat_messages' = [chat_messages EXCEPT ![t] = @ \o messages]

-------------------------------------------------------------------------------
(* Handler threads *)

Idle ==
  [op |-> "idle", task |-> NoTask, version |-> 0, request |-> NoRequest,
   run |-> 0, row |-> NoRow]

Work(op, t, v, r, run, row) ==
  [op |-> op, task |-> t, version |-> v, request |-> r, run |-> run, row |-> row]

Start(h, work) ==
  /\ handler[h] = Idle
  /\ handler' = [handler EXCEPT ![h] = work]

Return(h) == handler' = [handler EXCEPT ![h] = Idle]

\* The row a closing transaction locks is the one the handler worked from:
\* it still exists and _require_version accepts it.
StillCurrent(h) ==
  /\ Exists(handler[h].task)
  /\ query_tasks[handler[h].task].version = handler[h].version

Init ==
  /\ query_tasks = [t \in Tasks |-> NoRow]
  /\ issued = {}
  /\ query_runs = <<>>
  /\ chat_messages = [t \in Tasks |-> <<>>]
  /\ handler = [h \in Handlers |-> Idle]
  /\ crashes = 0

-------------------------------------------------------------------------------
(* submit_question, once it has found neither the task nor a reason to refuse. *)

SubmitQuestion(t, r) ==
  /\ t \notin issued
  /\ issued' = issued \cup {t}
  /\ query_tasks' =
       [query_tasks EXCEPT ![t] =
          [NoRow EXCEPT !.status = "RUNNING", !.stage = "INTENT_ROUTING",
                        !.processed = RecordProcessedRequest(<<>>, r)]]
  /\ AddMessages(t, <<Message("question", 0)>>)
  /\ UNCHANGED <<query_runs, handler, crashes>>

-------------------------------------------------------------------------------
(* analyze: a read, model calls outside any transaction, a locked write. *)

\* _require_analyzable
Analyzable(t) ==
  /\ query_tasks[t].status = "RUNNING"
  /\ query_tasks[t].stage \in {"INTENT_ROUTING", "SLOT_EXTRACTION"}

BeginAnalyze(h, t, v) ==
  /\ Exists(t)
  /\ query_tasks[t].version = v
  /\ Analyzable(t)
  /\ v < MaxVersion
  /\ Start(h, Work("analyze", t, v, NoRequest, 0, NoRow))
  /\ UNCHANGED <<query_tasks, issued, query_runs, chat_messages, crashes>>

\* The slot frame is complete: the task is ready to execute.
AnalyzeReady(h) ==
  LET t == handler[h].task  v == handler[h].version IN
  /\ handler[h].op = "analyze"
  /\ StillCurrent(h) /\ Analyzable(t)
  /\ UpdateOptimistically(t, v,
       [query_tasks[t] EXCEPT !.status = "RUNNING", !.stage = "LOGICAL_DSL",
                              !.clarification = NoClarification,
                              !.logical_dsl = TRUE])
  /\ Return(h)
  /\ UNCHANGED <<issued, query_runs, chat_messages, crashes>>

\* A slot is missing or ambiguous: the user is asked.
AnalyzeAsks(h) ==
  LET t == handler[h].task  v == handler[h].version
      question == NewClarification(v, "semantic_slots")
  IN
  /\ handler[h].op = "analyze"
  /\ StillCurrent(h) /\ Analyzable(t)
  /\ UpdateOptimistically(t, v,
       [query_tasks[t] EXCEPT !.status = "WAITING_USER", !.stage = "CLARIFICATION",
                              !.clarification = question,
                              !.logical_dsl = FALSE])
  /\ AddMessages(t, <<Message("clarification", question.id)>>)
  /\ Return(h)
  /\ UNCHANGED <<issued, query_runs, crashes>>

\* The stages _finish_analysis_failure is called with.
AnalysisFailureStages ==
  {"INTENT_ROUTING", "SLOT_EXTRACTION", "ENTITY_RESOLUTION", "VALIDATION"}

\* _finish_analysis_failure: a model was unavailable or its answer unusable.
AnalyzeFails(h) ==
  LET t == handler[h].task  v == handler[h].version IN
  /\ handler[h].op = "analyze"
  /\ StillCurrent(h) /\ Analyzable(t)
  /\ \E stage \in AnalysisFailureStages :
       UpdateOptimistically(t, v,
         [query_tasks[t] EXCEPT !.status = "FAILED", !.stage = stage])
  /\ query_runs' = Append(query_runs, Run(t, NoRequest, "failed"))
  /\ AddMessages(t, <<Message("task_error", 0)>>)
  /\ Return(h)
  /\ UNCHANGED <<issued, crashes>>

\* _finish_intent_boundary: not a metric query.  Chat is recorded as a
\* "success" run, a capability that is not available as "unsupported".  Only
\* the version is checked again, not that the task can still be analysed.
AnalyzeOutOfScope(h) ==
  LET t == handler[h].task  v == handler[h].version IN
  /\ handler[h].op = "analyze"
  /\ StillCurrent(h)
  /\ UpdateOptimistically(t, v,
       [query_tasks[t] EXCEPT !.status = "SUCCEEDED", !.stage = "RESULT_FORMATTING"])
  /\ \E status \in {"success", "unsupported"} :
       query_runs' = Append(query_runs, Run(t, NoRequest, status))
  /\ AddMessages(t, <<Message("intent_boundary", 0)>>)
  /\ Return(h)
  /\ UNCHANGED <<issued, crashes>>

-------------------------------------------------------------------------------
(* Clarification: every operation reads the row without a lock and relies on *)
(* update_optimistically to notice that it changed.                         *)

BeginAnswer(h, t, v, r) ==
  LET row == query_tasks[t] IN
  /\ Exists(t)
  /\ ~IsProcessed(row, r)
  /\ row.version = v
  /\ row.clarification # NoClarification
  /\ v < MaxVersion
  /\ Start(h, Work("answer", t, v, r, 0, row))
  /\ UNCHANGED <<query_tasks, issued, query_runs, chat_messages, crashes>>

\* What submit_clarification writes whatever the answer resolves to; `moves`
\* is the part of the row that depends on it, `messages` what follows the
\* answer in the transcript.
WriteAnswer(h, moves, messages) ==
  LET work == handler[h]  old == work.row IN
  /\ work.op = "answer"
  /\ CanTransition(old.status, old.stage, moves.status, moves.stage)
  /\ UpdateOptimistically(work.task, work.version,
       [moves EXCEPT
          !.processed = RecordProcessedRequest(old.processed, work.request),
          !.answers = Append(old.answers, [id |-> old.clarification.id,
                                           request_id |-> work.request])])
  /\ AddMessages(work.task,
       <<Message("clarification_answer", old.clarification.id)>> \o messages)
  /\ Return(h)
  /\ UNCHANGED <<issued, query_runs, crashes>>

\* The answer completes the slot frame.
AnswerResolves(h) ==
  LET old == handler[h].row IN
  /\ old.clarification.type = "semantic_slots"
  /\ WriteAnswer(h,
       [old EXCEPT !.status = "RUNNING", !.stage = "LOGICAL_DSL",
                   !.clarification = NoClarification, !.logical_dsl = TRUE],
       <<Message("resolved_question", 0)>>)

\* The answer leaves a slot open: _renew_semantic_clarification asks again.
AnswerAsksAgain(h) ==
  LET old == handler[h].row
      question == NewClarification(handler[h].version, "semantic_slots")
  IN
  /\ old.clarification.type = "semantic_slots"
  /\ WriteAnswer(h,
       [old EXCEPT !.status = "WAITING_USER", !.stage = "CLARIFICATION",
                   !.clarification = question, !.logical_dsl = FALSE],
       <<Message("clarification", question.id)>>)

\* The answer to a clarification the semantic service did not create.
AnswerOther(h) ==
  LET old == handler[h].row IN
  /\ old.clarification.type # "semantic_slots"
  /\ WriteAnswer(h,
       [old EXCEPT !.status = "RUNNING", !.stage = "VALIDATION",
                   !.clarification = NoClarification],
       <<>>)

\* cancel_clarification records no request id: a repeated cancel conflicts.
BeginCancel(h, t, v) ==
  LET row == query_tasks[t] IN
  /\ Exists(t)
  /\ row.version = v
  /\ row.clarification # NoClarification
  /\ v < MaxVersion
  /\ Start(h, Work("cancel", t, v, NoRequest, 0, row))
  /\ UNCHANGED <<query_tasks, issued, query_runs, chat_messages, crashes>>

Cancel(h) ==
  LET work == handler[h]  old == work.row IN
  /\ work.op = "cancel"
  /\ CanTransition(old.status, old.stage, "CANCELLED", "CLARIFICATION")
  /\ UpdateOptimistically(work.task, work.version,
       [old EXCEPT !.status = "CANCELLED", !.stage = "CLARIFICATION",
                   !.clarification = NoClarification])
  /\ Return(h)
  /\ UNCHANGED <<issued, query_runs, chat_messages, crashes>>

\* request_clarification, the internal transition no route calls yet.
BeginRequestClarification(h, t, v, r) ==
  LET row == query_tasks[t] IN
  /\ Exists(t)
  /\ ~IsProcessed(row, r)
  /\ row.version = v
  /\ CanTransition(row.status, row.stage, "WAITING_USER", "CLARIFICATION")
  /\ v < MaxVersion
  /\ Start(h, Work("request", t, v, r, 0, row))
  /\ UNCHANGED <<query_tasks, issued, query_runs, chat_messages, crashes>>

RequestClarification(h) ==
  LET work == handler[h]  old == work.row
      question == NewClarification(work.version, "manual")
  IN
  /\ work.op = "request"
  /\ UpdateOptimistically(work.task, work.version,
       [old EXCEPT !.status = "WAITING_USER", !.stage = "CLARIFICATION",
                   !.clarification = question,
                   !.processed = RecordProcessedRequest(@, work.request)])
  /\ AddMessages(work.task, <<Message("clarification", question.id)>>)
  /\ Return(h)
  /\ UNCHANGED <<issued, query_runs, crashes>>

-------------------------------------------------------------------------------
(* execute: _prepare registers the run and commits, the SQL runs outside any *)
(* transaction, _finish_success or _finish_failure locks the task again.     *)

\* Faulty variant of IsLastExecution: executions are never replayed.
NeverReplayed(row, r) == FALSE

\* _execution_replay: the request id of the last registered execution gets
\* its summary back, or QUERY_ALREADY_RUNNING while there is none.
IsLastExecution(row, r) == row.execution.request_id = r

\* _prepare up to the plan.  _require_executable lets a task that is already
\* in EXECUTION through: keeping status and stage is a legal transition.
MayExecute(t, v, r) ==
  LET row == query_tasks[t] IN
  /\ Exists(t)
  /\ ~IsLastExecution(row, r)
  /\ row.version = v
  /\ CanTransition(row.status, row.stage, "RUNNING", "EXECUTION")
  /\ v + 2 <= MaxVersion

\* Faulty variants of ExecutePrepare: the run is committed and the task row is
\* not; the handler keeps the version it read and not the one it wrote.
PrepareRunOnly(h, t, v, r) ==
  LET run == Len(query_runs) + 1 IN
  /\ MayExecute(t, v, r)
  /\ query_tasks[t].logical_dsl
  /\ query_runs' = Append(query_runs, Run(t, r, "running"))
  /\ Start(h, Work("execute", t, v, r, run, NoRow))
  /\ UNCHANGED <<query_tasks, issued, chat_messages, crashes>>

PrepareKeepingVersion(h, t, v, r) ==
  LET run == Len(query_runs) + 1 IN
  /\ MayExecute(t, v, r)
  /\ query_tasks[t].logical_dsl
  /\ query_runs' = Append(query_runs, Run(t, r, "running"))
  /\ UpdateOptimistically(t, v,
       [query_tasks[t] EXCEPT
          !.status = "RUNNING", !.stage = "EXECUTION",
          !.execution = [request_id |-> r, run_id |-> run, status |-> "running"]])
  /\ Start(h, Work("execute", t, v, r, run, NoRow))
  /\ UNCHANGED <<issued, chat_messages, crashes>>

ExecutePrepare(h, t, v, r) ==
  LET run == Len(query_runs) + 1 IN
  /\ MayExecute(t, v, r)
  /\ query_tasks[t].logical_dsl
  /\ query_runs' = Append(query_runs, Run(t, r, "running"))
  /\ UpdateOptimistically(t, v,
       [query_tasks[t] EXCEPT
          !.status = "RUNNING", !.stage = "EXECUTION",
          !.execution = [request_id |-> r, run_id |-> run, status |-> "running"]])
  /\ Start(h, Work("execute", t, v + 1, r, run, NoRow))
  /\ UNCHANGED <<issued, chat_messages, crashes>>

\* _record_planning_failure, in the transaction of _prepare: no permission, an
\* unsupported shape or an invalid plan.  The task fails where it stands.
ExecutePlanFails(t, v, r) ==
  LET run == Len(query_runs) + 1 IN
  /\ MayExecute(t, v, r)
  /\ \E status \in {"failed", "unsupported"} :
       /\ query_runs' = Append(query_runs, Run(t, r, status))
       /\ UpdateOptimistically(t, v,
            [query_tasks[t] EXCEPT
               !.status = "FAILED",
               !.execution = [request_id |-> r, run_id |-> run, status |-> status]])
  /\ AddMessages(t, <<Message("query_result", run)>>)
  /\ UNCHANGED <<issued, handler, crashes>>

\* Faulty variants of Finish: the run is closed before the task is checked; the
\* task is closed and its run is not.
FinishRunFirst(h, runStatus, status, stage) ==
  LET work == handler[h] IN
  /\ work.op = "execute"
  /\ query_runs' = [query_runs EXCEPT ![work.run].status = runStatus]
  /\ Return(h)
  /\ UNCHANGED <<query_tasks, issued, chat_messages, crashes>>

FinishTaskOnly(h, runStatus, status, stage) ==
  LET work == handler[h]  t == work.task IN
  /\ work.op = "execute"
  /\ StillCurrent(h)
  /\ UpdateOptimistically(t, work.version,
       [query_tasks[t] EXCEPT
          !.status = status, !.stage = stage,
          !.execution = [request_id |-> work.request, run_id |-> work.run,
                         status |-> runStatus]])
  /\ AddMessages(t, <<Message("query_result", work.run)>>)
  /\ Return(h)
  /\ UNCHANGED <<query_runs, issued, crashes>>

\* What _finish_success and _finish_failure share.
Finish(h, runStatus, status, stage) ==
  LET work == handler[h]  t == work.task IN
  /\ work.op = "execute"
  /\ StillCurrent(h)
  /\ query_runs' = [query_runs EXCEPT ![work.run].status = runStatus]
  /\ UpdateOptimistically(t, work.version,
       [query_tasks[t] EXCEPT
          !.status = status, !.stage = stage,
          !.execution = [request_id |-> work.request, run_id |-> work.run,
                         status |-> runStatus]])
  /\ AddMessages(t, <<Message("query_result", work.run)>>)
  /\ Return(h)
  /\ UNCHANGED <<issued, crashes>>

FinishSuccess(h) == Finish(h, "succeeded", "SUCCEEDED", "RESULT_FORMATTING")

FinishFailure(h) == Finish(h, "failed", "FAILED", "EXECUTION")

-------------------------------------------------------------------------------
(* delete_conversation and what can happen to any handler. *)

\* The DELETE cascades to the tasks and messages of the conversation and sets
\* query_runs.task_id to NULL, whatever the tasks are doing.
DeleteConversation(c) ==
  LET doomed == {t \in Tasks : ConversationOf[t] = c /\ Exists(t)} IN
  /\ doomed # {}
  /\ query_tasks' = [t \in Tasks |-> IF t \in doomed THEN NoRow ELSE query_tasks[t]]
  /\ chat_messages' = [t \in Tasks |-> IF t \in doomed THEN <<>> ELSE chat_messages[t]]
  /\ query_runs' =
       [i \in DOMAIN query_runs |->
          IF query_runs[i].task_id \in doomed
          THEN [query_runs[i] EXCEPT !.task_id = NoTask]
          ELSE query_runs[i]]
  /\ UNCHANGED <<issued, handler, crashes>>

\* The closing transaction finds the task deleted or changed, raises and rolls
\* back: the client gets a 404, a 409 or a 500.
Rejected(h) ==
  /\ handler[h].op # "idle"
  /\ ~StillCurrent(h)
  /\ Return(h)
  /\ UNCHANGED <<query_tasks, issued, query_runs, chat_messages, crashes>>

\* The handler ends without its closing transaction: the process dies, the
\* database is lost, or an exception leaves execute outside its try block
\* (rendering the answer) or analyze outside its except clauses.
Crash(h) ==
  /\ handler[h].op # "idle"
  /\ crashes < MaxCrashes
  /\ crashes' = crashes + 1
  /\ Return(h)
  /\ UNCHANGED <<query_tasks, issued, query_runs, chat_messages>>

\* The steps that end the work of a handler.
Complete(h) ==
  \/ AnalyzeReady(h) \/ AnalyzeAsks(h) \/ AnalyzeFails(h) \/ AnalyzeOutOfScope(h)
  \/ AnswerResolves(h) \/ AnswerAsksAgain(h) \/ AnswerOther(h)
  \/ Cancel(h) \/ RequestClarification(h)
  \/ FinishSuccess(h) \/ FinishFailure(h)
  \/ Rejected(h)

\* The requests clients send, with the version they believe the task has.
ClientRequest ==
  \/ \E t \in Tasks, r \in Requests : SubmitQuestion(t, r)
  \/ \E h \in Handlers, t \in Tasks, v \in 0..MaxVersion :
       BeginAnalyze(h, t, v) \/ BeginCancel(h, t, v)
  \/ \E h \in Handlers, t \in Tasks, v \in 0..MaxVersion, r \in Requests :
       \/ BeginAnswer(h, t, v, r)
       \/ BeginRequestClarification(h, t, v, r)
       \/ ExecutePrepare(h, t, v, r)
  \/ \E t \in Tasks, v \in 0..MaxVersion, r \in Requests : ExecutePlanFails(t, v, r)
  \/ \E c \in Conversations : DeleteConversation(c)

Next == ClientRequest \/ \E h \in Handlers : Complete(h) \/ Crash(h)

Spec == Init /\ [][Next]_vars

\* A handler that is not killed finishes: models and SQL have timeouts and
\* nothing else blocks it.  Clients owe nothing.
Fairness == \A h \in Handlers : WF_vars(Complete(h))

FairSpec == Spec /\ Fairness

-------------------------------------------------------------------------------
(* Properties *)

Clarification ==
  [id : Nat, type : {"none", "semantic_slots", "manual"}, task_version : Nat]

RunStatus == {"running", "succeeded", "failed", "unsupported", "success"}

Execution ==
  [request_id : Requests \cup {NoRequest}, run_id : Nat,
   status : RunStatus \cup {"none"}]

Row ==
  [status : Status \cup {"NONE"}, stage : Stage \cup {"NONE"},
   version : 0..MaxVersion, clarification : Clarification, logical_dsl : BOOLEAN,
   execution : Execution, processed : Seq(Requests),
   answers : Seq([id : Nat, request_id : Requests])]

MessageKinds ==
  OutcomeKinds \cup
  {"question", "clarification", "clarification_answer", "resolved_question"}

RunRow ==
  [task_id : Tasks \cup {NoTask}, request_id : Requests \cup {NoRequest},
   status : RunStatus]

MessageRow == [kind : MessageKinds, ref : Nat]

HandlerState ==
  [op : {"idle", "analyze", "execute", "answer", "cancel", "request"},
   task : Tasks \cup {NoTask}, version : 0..(MaxVersion - 1),
   request : Requests \cup {NoRequest}, run : Nat, row : Row]

\* Every variable holds what the tables and threads can hold.
TypeOK ==
  /\ query_tasks \in [Tasks -> Row]
  /\ issued \in SUBSET Tasks
  /\ query_runs \in Seq(RunRow)
  /\ chat_messages \in [Tasks -> Seq(MessageRow)]
  /\ handler \in [Handlers -> HandlerState]
  /\ crashes \in 0..MaxCrashes

LastMessage(t) == chat_messages[t][Len(chat_messages[t])]

IsOutcome(m) == m.kind \in OutcomeKinds

IsAnswerTo(m, id) == m.kind = "clarification_answer" /\ m.ref = id

\* The user is told exactly once how a task ended, after everything else that
\* was said, and only when it did end: no interleaving of analysis, execution
\* and clarification adds a second answer, leaves an ended task without one or
\* continues the conversation of a task behind its answer.  A cancelled task
\* ends without one (cancel_clarification adds no message).
OneOutcome ==
  \A t \in Tasks :
    /\ \A i \in DOMAIN chat_messages[t] :
         IsOutcome(chat_messages[t][i]) =>
           /\ i = Len(chat_messages[t])
           /\ query_tasks[t].status \in {"SUCCEEDED", "FAILED"}
    /\ query_tasks[t].status \in {"SUCCEEDED", "FAILED"} =>
         chat_messages[t] # <<>> /\ IsOutcome(LastMessage(t))

\* A task waits exactly while a clarification is active; the clarification
\* carries the version the row has now, so the continuation token of the
\* question the user saw last can be redeemed and no older one can.
WaitingMeansAsked ==
  \A t \in Tasks :
    LET row == query_tasks[t] IN
    /\ row.status = "WAITING_USER" <=> row.clarification # NoClarification
    /\ row.status = "WAITING_USER" =>
         /\ row.stage = "CLARIFICATION"
         /\ row.clarification.task_version = row.version
         /\ chat_messages[t] # <<>>
         /\ LastMessage(t) = Message("clarification", row.clarification.id)

\* A run that succeeded is the one its task reports: the task has succeeded,
\* names that run, and its transcript ends with that run's result.  So of the
\* executions that overlap at most one counts.
SucceededRunIsReported ==
  \A t \in Tasks : \A i \in DOMAIN query_runs :
    (query_runs[i].task_id = t /\ query_runs[i].status = "succeeded") =>
      /\ query_tasks[t].status = "SUCCEEDED"
      /\ query_tasks[t].execution.run_id = i
      /\ chat_messages[t] # <<>>
      /\ LastMessage(t) = Message("query_result", i)

\* The execution a task row remembers is a row of query_runs of that task with
\* that outcome: state_json and query_runs never drift apart.
ExecutionMatchesRun ==
  \A t \in Tasks :
    LET execution == query_tasks[t].execution IN
    execution # NoExecution =>
      /\ execution.run_id \in DOMAIN query_runs
      /\ query_runs[execution.run_id].task_id = t
      /\ query_runs[execution.run_id].status = execution.status

\* A handler whose SQL is out and whose closing transaction would be accepted
\* is the only such handler of its task, works on the run the task names, and
\* that run has not ended: a result that arrives late is never recorded.
ExecutorOwnsTask ==
  \A h \in Handlers :
    (handler[h].op = "execute" /\ StillCurrent(h)) =>
      LET work == handler[h]  row == query_tasks[work.task] IN
      /\ row.status = "RUNNING" /\ row.stage = "EXECUTION"
      /\ row.execution = [request_id |-> work.request, run_id |-> work.run,
                          status |-> "running"]
      /\ \A other \in Handlers \ {h} :
           ~(handler[other].op = "execute" /\ handler[other].task = work.task
             /\ StillCurrent(other))

\* A version names one content of the row: a handler whose closing transaction
\* would pass the version check works on exactly the row it decided on, however
\* long the model or the SQL took.  So what it checked before still holds, and
\* the operations that write back the row they read erase nobody's update.
SnapshotHolds(h) ==
  LET work == handler[h]  row == query_tasks[work.task] IN
  (work.op # "idle" /\ StillCurrent(h)) =>
    /\ work.op = "analyze" => Analyzable(work.task)
    /\ work.op = "execute" => row.status = "RUNNING" /\ row.stage = "EXECUTION"
    /\ work.op \in {"answer", "cancel", "request"} => work.row = row
    /\ work.op \in {"answer", "cancel"} => row.clarification # NoClarification
    /\ work.op = "request" =>
         CanTransition(row.status, row.stage, "WAITING_USER", "CLARIFICATION")

SnapshotsHold == \A h \in Handlers : SnapshotHolds(h)

\* No clarification is answered twice, and an answer in the transcript is in
\* state_json too: two answers that race, or an answer and a cancellation,
\* never both commit and never erase one another.
AnsweredOnce ==
  \A t \in Tasks :
    /\ \A i, j \in DOMAIN chat_messages[t] :
         (/\ chat_messages[t][i].kind = "clarification_answer"
          /\ IsAnswerTo(chat_messages[t][j], chat_messages[t][i].ref)) => i = j
    /\ \A i \in DOMAIN chat_messages[t] :
         chat_messages[t][i].kind = "clarification_answer" =>
           \E k \in DOMAIN query_tasks[t].answers :
             query_tasks[t].answers[k].id = chat_messages[t][i].ref

\* No two executions of one task under one request id are out or have
\* succeeded: an Idempotency-Key names one SQL execution.
OneRunPerRequest ==
  \A i, j \in DOMAIN query_runs :
    (/\ query_runs[i].status \in {"running", "succeeded"}
     /\ query_runs[j].status \in {"running", "succeeded"}
     /\ query_runs[i].task_id = query_runs[j].task_id
     /\ query_runs[i].task_id # NoTask
     /\ query_runs[i].request_id = query_runs[j].request_id) => i = j

\* A retry with the key of the last execution starts no other: two executions
\* of one task under one key, out or successful, have one of another key
\* between them.
RetryRunsOnce ==
  \A i, j \in DOMAIN query_runs :
    (/\ i < j
     /\ query_runs[i].status \in {"running", "succeeded"}
     /\ query_runs[j].status \in {"running", "succeeded"}
     /\ query_runs[i].task_id = query_runs[j].task_id
     /\ query_runs[i].task_id # NoTask
     /\ query_runs[i].request_id = query_runs[j].request_id) =>
       \E k \in i + 1 .. j - 1 :
         /\ query_runs[k].task_id = query_runs[i].task_id
         /\ query_runs[k].request_id # query_runs[i].request_id

\* Once a task has ended nothing in its row or its transcript changes: not by
\* a model or SQL answer that arrives late, not by an answer, a cancellation
\* or a second execution.  Only deleting the conversation removes it.
TerminalIsFinal ==
  [][\A t \in Tasks :
       (query_tasks[t].status \in TerminalStatus /\ Exists(t)') =>
         UNCHANGED <<query_tasks[t], chat_messages[t]>>]_vars

\* Every committed change of a task raises its version by one and the version
\* covers the transcript: a client that sees the version it knows has missed
\* nothing, so deciding on a snapshot of that version is safe.
VersionCoversEveryWrite ==
  [][\A t \in Tasks :
       (/\ Exists(t) /\ Exists(t)'
        /\ <<query_tasks[t], chat_messages[t]>>' # <<query_tasks[t], chat_messages[t]>>) =>
         query_tasks[t]'.version = query_tasks[t].version + 1]_vars

\* A deleted task stays deleted: a handler that was analysing, answering or
\* executing it when the conversation was deleted writes no row, no message
\* and no run for it.
DeletedStaysDeleted ==
  [][\A t \in issued :
       ~Exists(t) =>
         /\ ~Exists(t)' /\ chat_messages[t]' = <<>>
         /\ \A i \in DOMAIN query_runs' : query_runs'[i].task_id # t]_vars

\* If no handler dies, a task whose SQL was started ends or is deleted, also
\* when another execution overtook the one that started it.
ExecutionSettles ==
  \A t \in Tasks :
    query_tasks[t].stage = "EXECUTION" /\ query_tasks[t].status = "RUNNING"
      ~> query_tasks[t].status \in TerminalStatus \cup {"NONE"}
===============================================================================
