------------------------------ MODULE Integration ------------------------------
(***************************************************************************)
(* Messages of external channels drive the tasks of QueryTask.             *)
(*                                                                         *)
(*   integration_service.py  ask: one message is submitted, analysed and    *)
(*                           executed in one request                        *)
(*   channel_service.py      build_command: which task does a reply answer? *)
(*   continuation_tokens.py  a token names task, version and clarification  *)
(*                                                                         *)
(* Every transaction here is an action of QueryTask with the place in `ask` *)
(* it belongs to, so the invariants of QueryTask hold of this system too.   *)
(* Between the transactions of one delivery everybody else may commit.      *)
(*                                                                         *)
(* The message id is the idempotency key of a question, the request id of   *)
(* a reply and, with a prefix, the request id of an execution.  A client    *)
(* uses an id for one message; whatever delivers messages may deliver one   *)
(* again at any time.  The unique index behind submit_question belongs to   *)
(* Conversations; here its read and insert are one step.                    *)
(***************************************************************************)
EXTENDS QueryTask, FiniteSets

CONSTANTS
  Messages,      \* message ids; the other Requests are ids of HTTP requests
  HttpRequest    \* the request id a question is stored with

ASSUME MessagesAssumption == Messages \subseteq Requests /\ HttpRequest \in Requests \ Messages

\* Task ids have 128 bits: the tasks that wait can be counted.
ASSUME FiniteAssumption == IsFiniteSet(Tasks)

VARIABLES
  asked,         \* [Tasks -> message]: query_tasks.idempotency_key
  content,       \* [Messages -> Content]: what the client wrote, once it did
  step           \* [Handlers -> Step]: where in `ask` a handler is

integrationVars == <<vars, asked, content, step>>

NoRef == [task |-> NoTask, id |-> 0]

\* What a message says: a question, a reply that names a clarification, a
\* reply with a continuation token, or a reply with nothing but its session,
\* which over the channel route may come without an idempotency key: its
\* external message id is its request id then.
Content(kind, c, ref) == [kind |-> kind, conversation |-> c, ref |-> ref]

Unsent == Content("none", CHOOSE c \in Conversations : TRUE, NoRef)

\* Where a delivery is: `at` names the next statement of ask; task, version and
\* id are the command or the result it holds, row is the result's content.
Step(at, m, t, v, id, row) ==
  [at |-> at, message |-> m, task |-> t, version |-> v, id |-> id, row |-> row]

NoStep == Step("none", NoRequest, NoTask, 0, 0, NoRow)

InStep(h, at) == step[h].at = at

Goto(h, s) == step' = [step EXCEPT ![h] = s]

\* _task_result of the row as this step leaves it.
Result(m, t, row) == Step("current", m, t, row.version, 0, row)

\* The clarifications clients have been shown, and their tokens.
Shown ==
  {[task |-> t, id |-> query_tasks[t].clarification.id] :
     t \in {u \in Tasks : query_tasks[u].status = "WAITING_USER"}}

IInit ==
  /\ Init
  /\ asked = [t \in Tasks |-> NoRequest]
  /\ content = [m \in Messages |-> Unsent]
  /\ step = [h \in Handlers |-> NoStep]

-------------------------------------------------------------------------------
(* A delivery starts *)

\* A client writes a message; its replies refer to what it was shown.
Send(m) ==
  /\ content[m] = Unsent
  /\ \E c \in Conversations :
       \/ content' = [content EXCEPT ![m] = Content("ask", c, NoRef)]
       \/ content' = [content EXCEPT ![m] = Content("session", c, NoRef)]
       \/ content' = [content EXCEPT ![m] = Content("keyless", c, NoRef)]
       \/ \E ref \in Shown, kind \in {"reply", "token"} :
            content' = [content EXCEPT ![m] = Content(kind, c, ref)]
  /\ UNCHANGED <<vars, asked, step>>

\* submit_question: the task of an earlier delivery, or a new one.
DeliverQuestion(h, m) ==
  LET c == content[m].conversation
      found == {t \in Tasks : Exists(t) /\ ConversationOf[t] = c /\ asked[t] = m}
  IN
  /\ content[m].kind = "ask"
  /\ handler[h] = Idle /\ InStep(h, "none")
  /\ \/ \E t \in found :
          /\ Goto(h, Result(m, t, query_tasks[t]))
          /\ UNCHANGED <<vars, asked>>
     \/ /\ found = {}
        /\ \E t \in Tasks :
             /\ ConversationOf[t] = c
             /\ SubmitQuestion(t, HttpRequest)
             /\ asked' = [asked EXCEPT ![t] = m]
             /\ Goto(h, Result(m, t, query_tasks'[t]))
  /\ UNCHANGED content

\* list_waiting_for_conversation
Waiting(c) ==
  {t \in Tasks : /\ ConversationOf[t] = c
                 /\ query_tasks[t].status = "WAITING_USER"
                 /\ query_tasks[t].stage = "CLARIFICATION"}

\* Faulty variant of Candidates: the clarification the reply names is ignored.
AnyWaiting(said) == Waiting(said.conversation)

\* The tasks of the session a reply may answer.  Clarification ids are uuids:
\* naming one names its task.
Candidates(said) ==
  {t \in Waiting(said.conversation) :
     said.ref = NoRef \/ said.ref = [task |-> t, id |-> query_tasks[t].clarification.id]}

Keyed(m) == content[m].kind # "keyless"

\* The tasks of the session that have processed this reply before; nobody looks
\* for one without a key.
Processed(m) ==
  {t \in Tasks : /\ Keyed(m)
                 /\ Exists(t)
                 /\ ConversationOf[t] = content[m].conversation
                 /\ IsProcessed(query_tasks[t], m)}

Target(t, id) == [task |-> t, version |-> query_tasks[t].version, id |-> id]

\* The task that is waiting, if there is exactly one.
OnlyCandidate(m) ==
  LET waiting == Candidates(content[m]) IN
  IF Cardinality(waiting) = 1
  THEN {Target(t, query_tasks[t].clarification.id) : t \in waiting}
  ELSE {}

\* Faulty variants of Resolved: a task that waits comes before the task that
\* has processed the reply; with several candidates one is taken.
WaitingFirst(m) ==
  IF content[m].kind = "token"
  THEN {[task |-> content[m].ref.task, version |-> content[m].ref.id, id |-> content[m].ref.id]}
  ELSE IF OnlyCandidate(m) # {}
  THEN OnlyCandidate(m)
  ELSE {Target(t, content[m].ref.id) : t \in Processed(m)}

\* _resolve_target: nothing, or the target of the reply.  A token is taken at
\* its word; its version is the task_version of its clarification.
Resolved(m) ==
  IF content[m].kind = "token"
  THEN {[task |-> content[m].ref.task, version |-> content[m].ref.id, id |-> content[m].ref.id]}
  ELSE IF Processed(m) # {}
  THEN {Target(t, content[m].ref.id) : t \in Processed(m)}
  ELSE OnlyCandidate(m)

\* build_command, a transaction of its own.
Correlate(h, m) ==
  /\ content[m].kind \in {"reply", "token", "session", "keyless"}
  /\ handler[h] = Idle /\ InStep(h, "none")
  /\ \E target \in Resolved(m) :
       Goto(h, Step("correlated", m, target.task, target.version, target.id, NoRow))
  /\ UNCHANGED <<vars, asked, content>>

-------------------------------------------------------------------------------
(* The other transactions of a delivery *)

\* submit_clarification accepts the command as far as its unlocked read goes.
BeginReply(h) ==
  LET at == step[h] IN
  /\ InStep(h, "correlated")
  /\ BeginAnswer(h, at.task, at.version, at.message)
  /\ query_tasks[at.task].clarification.id = at.id
  /\ Goto(h, [at EXCEPT !.at = "answering"])
  /\ UNCHANGED <<asked, content>>

\* Only `ask` goes on after the reply; the channel route returns the result.
AfterReply(h, row) ==
  IF content[step[h].message].kind = "reply"
  THEN Goto(h, Result(step[h].message, step[h].task, row))
  ELSE Goto(h, NoStep)

CommitReply(h) ==
  /\ InStep(h, "answering")
  /\ AnswerResolves(h) \/ AnswerAsksAgain(h)
  /\ AfterReply(h, query_tasks'[step[h].task])
  /\ UNCHANGED <<asked, content>>

\* The fingerprint of a processed reply names its clarification.
IsReplay(at, row) ==
  /\ IsProcessed(row, at.message)
  /\ \E k \in DOMAIN row.answers :
       row.answers[k] = [id |-> at.id, request_id |-> at.message]

\* _processed_replay: the result is the task as it is now.
ReplayReply(h) ==
  LET at == step[h]  row == query_tasks[at.task] IN
  /\ InStep(h, "correlated")
  /\ IsReplay(at, row)
  /\ AfterReply(h, row)
  /\ UNCHANGED <<vars, asked, content>>

\* Anything else submit_clarification finds is a 404 or 409.
RefuseReply(h) ==
  LET at == step[h]  row == query_tasks[at.task] IN
  /\ InStep(h, "correlated")
  /\ \/ ~Exists(at.task)
     \/ IsProcessed(row, at.message) /\ ~IsReplay(at, row)
     \/ /\ ~IsProcessed(row, at.message)
        /\ row.version # at.version \/ row.clarification.id # at.id
  /\ Goto(h, NoStep)
  /\ UNCHANGED <<vars, asked, content>>

ToAnalyze(row) ==
  row.status = "RUNNING" /\ row.stage \in {"INTENT_ROUTING", "SLOT_EXTRACTION"}

StartAnalysis(h) ==
  /\ InStep(h, "current") /\ ToAnalyze(step[h].row)
  /\ BeginAnalyze(h, step[h].task, step[h].version)
  /\ Goto(h, [step[h] EXCEPT !.at = "analyzing"])
  /\ UNCHANGED <<asked, content>>

EndAnalysis(h) ==
  /\ InStep(h, "analyzing")
  /\ AnalyzeReady(h) \/ AnalyzeAsks(h) \/ AnalyzeFails(h) \/ AnalyzeOutOfScope(h)
  /\ Goto(h, Result(step[h].message, step[h].task, query_tasks'[step[h].task]))
  /\ UNCHANGED <<asked, content>>

\* Faulty variant of ToExecute: a task whose SQL is out is executed by nobody
\* else, but a task that was clarified is not executed either.
ToExecuteUnlessAnswered(row) == row.logical_dsl /\ row.status = "RUNNING" /\ row.answers = <<>>

\* The result has a logical DSL and holds no answer yet.
ToExecute(row) == row.logical_dsl /\ row.status \in {"RUNNING", "FAILED"}

StartExecution(h) ==
  /\ InStep(h, "current") /\ ~ToAnalyze(step[h].row) /\ ToExecute(step[h].row)
  /\ \/ /\ ExecutePrepare(h, step[h].task, step[h].version, step[h].message)
        /\ Goto(h, [step[h] EXCEPT !.at = "executing"])
     \/ /\ ExecutePlanFails(step[h].task, step[h].version, step[h].message)
        /\ Goto(h, NoStep)
  /\ UNCHANGED <<asked, content>>

EndExecution(h) ==
  /\ InStep(h, "executing")
  /\ FinishSuccess(h) \/ FinishFailure(h)
  /\ Goto(h, NoStep)
  /\ UNCHANGED <<asked, content>>

\* The delivery is answered: with the clarification, the answer or an error,
\* among them the conflict of an analysis or execution that is not accepted.
Respond(h) ==
  LET at == step[h] IN
  /\ InStep(h, "current")
  /\ \/ ~ToAnalyze(at.row) /\ ~ToExecute(at.row)
     \/ ~Exists(at.task)
     \/ query_tasks[at.task].version # at.version
     \/ ~ToAnalyze(at.row) /\ IsLastExecution(query_tasks[at.task], at.message)
     \/ ~ToAnalyze(at.row) /\ at.row.status = "FAILED"
  /\ Goto(h, NoStep)
  /\ UNCHANGED <<vars, asked, content>>

\* The closing transaction finds the task deleted or changed.
DeliveryRefused(h) ==
  /\ ~InStep(h, "none")
  /\ Rejected(h)
  /\ Goto(h, NoStep)
  /\ UNCHANGED <<asked, content>>

\* The process dies, also between two transactions of a delivery.
DeliveryCrashes(h) ==
  /\ ~InStep(h, "none")
  /\ \/ Crash(h)
     \/ /\ handler[h] = Idle /\ crashes < MaxCrashes
        /\ crashes' = crashes + 1
        /\ UNCHANGED <<query_tasks, issued, query_runs, chat_messages, handler>>
  /\ Goto(h, NoStep)
  /\ UNCHANGED <<asked, content>>

-------------------------------------------------------------------------------
(* The browser works on the same tasks. *)

BrowserCancels(h) ==
  /\ InStep(h, "none")
  /\ \/ \E t \in Tasks : BeginCancel(h, t, query_tasks[t].version)
     \/ Cancel(h)
     \/ Rejected(h)
  /\ UNCHANGED <<asked, content, step>>

BrowserDeletes(c) ==
  /\ DeleteConversation(c)
  /\ UNCHANGED <<asked, content, step>>

Advance(h) ==
  \/ BeginReply(h) \/ CommitReply(h) \/ ReplayReply(h) \/ RefuseReply(h)
  \/ StartAnalysis(h) \/ EndAnalysis(h) \/ StartExecution(h) \/ EndExecution(h)
  \/ Respond(h) \/ DeliveryRefused(h)

INext ==
  \/ \E m \in Messages : Send(m)
  \/ \E h \in Handlers :
       \/ \E m \in Messages : DeliverQuestion(h, m) \/ Correlate(h, m)
       \/ Advance(h) \/ DeliveryCrashes(h) \/ BrowserCancels(h)
  \/ \E c \in Conversations : BrowserDeletes(c)

ISpec == IInit /\ [][INext]_integrationVars

\* As in QueryTask: a request that is not killed is carried through.
IFairSpec == ISpec /\ \A h \in Handlers : WF_integrationVars(Advance(h))

-------------------------------------------------------------------------------
(* Properties *)

\* A reply that names a clarification, by its id or by a token, answers that
\* clarification or none; without a token it answers in its own session only.
\* Correlation and answer are two transactions, and the task may be answered,
\* asked again, cancelled or deleted between them.
ReplyReachesItsQuestion ==
  \A t \in Tasks : \A k \in DOMAIN query_tasks[t].answers :
    LET answer == query_tasks[t].answers[k]  said == content[answer.request_id] IN
    /\ said.kind \in {"reply", "token"} => said.ref = [task |-> t, id |-> answer.id]
    /\ said.kind # "token" => said.conversation = ConversationOf[t]

\* However often and in whatever order a reply is delivered, it answers one
\* clarification of a task, and with an idempotency key of one task: a reply that
\* names only its session, delivered again when another task of the session waits,
\* does not answer that one too.  (Without a key it does.)
ReplyActsOnce ==
  \A t, u \in Tasks :
    \A i \in DOMAIN query_tasks[t].answers, j \in DOMAIN query_tasks[u].answers :
      (query_tasks[t].answers[i].request_id = query_tasks[u].answers[j].request_id) =>
        /\ t = u => i = j
        /\ Keyed(query_tasks[t].answers[i].request_id) => t = u

\* The task was last answered over the channel route, whose client goes on.
LeftToClient(t) ==
  LET answers == query_tasks[t].answers IN
  answers # <<>> /\ content[answers[Len(answers)].request_id].kind # "reply"

\* One delivery is enough: if no process dies, a question asked over a channel
\* ends, waits for its user or is deleted, whatever deliveries and cancellations
\* overtake each other on the way.  (Or its task reached the bound.)
QuestionGetsAnswered ==
  \A t \in Tasks :
    Exists(t) ~> \/ ~Exists(t)
                 \/ query_tasks[t].status \in TerminalStatus \cup {"WAITING_USER"}
                 \/ LeftToClient(t)
                 \/ query_tasks[t].version + 2 > MaxVersion
===============================================================================
