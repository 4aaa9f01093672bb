----------------------------- MODULE QueryTaskProofs -----------------------------
(***************************************************************************)
(* Tasks and the replies of external channels, proved for every set of      *)
(* tasks, handlers, requests and messages.                                  *)
(*                                                                         *)
(* The safety of QueryTask                                                  *)
(*  1. Seen from one task, every step leaves it alone, creates it, removes  *)
(*     it, or rewrites it under the next version: the task goes on, asks    *)
(*     the user, or settles (TaskStep).  This is where the code is read.    *)
(*  2. Therefore a row whose version a handler still knows is the row it    *)
(*     read: the snapshots handlers decide on hold (HandlerStep).           *)
(*  3. The safety properties follow from 1 alone.                           *)
(*                                                                         *)
(* Executions and answers of QueryTask                                      *)
(*  4. A step is read once more for everything it leaves in the tables      *)
(*     (StepKind).                                                          *)
(*  5. query_runs and state_json agree, a retried key starts no second      *)
(*     execution.                                                           *)
(*  6. No clarification is answered twice, a deleted task leaves nothing    *)
(*     behind.                                                              *)
(*  7. QueryTask implements TaskLifecycle.                                  *)
(*                                                                         *)
(* Replies of external channels (Integration)                               *)
(*  8. Every step of a delivery is a step of QueryTask, or a process that   *)
(*     dies between two transactions (TasksStep).  So what is proved of     *)
(*     QueryTask holds here.                                                *)
(*  9. Seen from one row, a step leaves it, removes it, creates it, rewrites*)
(*     it under the next version, or stores the reply of one delivery       *)
(*     (RowsStep).                                                          *)
(* 10. Seen from a delivery: one whose target is still as it was correlated *)
(*     is live.  What is live may become stale and never comes back to life *)
(*     (LiveBefore).                                                        *)
(* 11. Deliveries stay typed.                                               *)
(* 12. A reply reaches the question it answers.                             *)
(* 13. A reply acts once.                                                   *)
(***************************************************************************)
EXTENDS Integration, QueryTaskLifecycle, FiniteSetTheorems, SequenceTheorems, TLAPS

-------------------------------------------------------------------------------
(* The safety of QueryTask *)
(* Types: TypeInv is inductive by itself. *)

\* A busy handler works for a task that was issued, and an operation that
\* carries a request id has one.
HandlersWellFormed ==
  \A h \in Handlers :
    handler[h].op # "idle" =>
      /\ handler[h].task \in Tasks
      /\ handler[h].op \in {"answer", "request", "execute"} =>
           handler[h].request \in Requests

TypeInv == TypeOK /\ HandlersWellFormed

-------------------------------------------------------------------------------
(* Lemmas about the helpers *)

LEMMA ConstantTypes ==
  /\ NoClarification \in Clarification
  /\ NoExecution \in Execution
  /\ NoRow \in Row
  BY BoundsAssumption
  DEF NoClarification, Clarification, NoExecution, Execution, RunStatus, NoRow,
      Row, Status, Stage

\* The optimistic update keeps the table well typed as long as the version it
\* expects is below the bound.
LEMMA UpdateType ==
  ASSUME TypeOK, NEW t \in Tasks, NEW v \in 0..(MaxVersion - 1), NEW row \in Row,
         UpdateOptimistically(t, v, row)
  PROVE  query_tasks' \in [Tasks -> Row]
  <1>1. v + 1 \in 0..MaxVersion
    BY BoundsAssumption
  <1>2. [row EXCEPT !.version = v + 1] \in Row
    BY <1>1 DEF Row
  <1>3. QED
    BY <1>2 DEF UpdateOptimistically, TypeOK

LEMMA MessagesType ==
  ASSUME TypeOK, NEW t \in Tasks,
         NEW messages \in Seq(MessageRow),
         AddMessages(t, messages)
  PROVE  chat_messages' \in [Tasks -> Seq(MessageRow)]
  <1>1. chat_messages \in [Tasks -> Seq(MessageRow)]
    BY DEF TypeOK
  <1>2. chat_messages[t] \o messages \in Seq(MessageRow)
    BY <1>1, ConcatProperties
  <1>3. QED
    BY <1>1, <1>2 DEF AddMessages

LEMMA RecordType ==
  ASSUME NEW processed \in Seq(Requests), NEW r \in Requests
  PROVE  RecordProcessedRequest(processed, r) \in Seq(Requests)
  BY LimitAssumption DEF RecordProcessedRequest

LEMMA AppendRunType ==
  ASSUME TypeOK, NEW t \in Tasks, NEW r \in Requests \cup {NoRequest},
         NEW status \in RunStatus,
         query_runs' = Append(query_runs, Run(t, r, status))
  PROVE  query_runs' \in Seq(RunRow)
  <1>1. Run(t, r, status) \in RunRow
    BY DEF Run, RunRow
  <1>2. QED
    BY <1>1, AppendProperties DEF TypeOK

\* A thread that starts well-formed work, and one that returns.
LEMMA StartType ==
  ASSUME TypeInv, NEW h \in Handlers, NEW work \in HandlerState,
         work.task \in Tasks,
         work.op \in {"answer", "request", "execute"} => work.request \in Requests,
         Start(h, work)
  PROVE  handler' \in [Handlers -> HandlerState] /\ HandlersWellFormed'
  BY DEF TypeInv, TypeOK, HandlersWellFormed, Start

LEMMA ReturnType ==
  ASSUME TypeInv, NEW h \in Handlers, Return(h)
  PROVE  handler' \in [Handlers -> HandlerState] /\ HandlersWellFormed'
  <1>1. Idle \in HandlerState /\ Idle.op = "idle"
    BY ConstantTypes, BoundsAssumption DEF Idle, HandlerState
  <1>2. QED
    BY <1>1 DEF TypeInv, TypeOK, HandlersWellFormed, Return

-------------------------------------------------------------------------------
(* Type correctness *)

LEMMA TypeInit == Init => TypeInv
  <1> SUFFICES ASSUME Init PROVE TypeInv
    OBVIOUS
  <1>1. Idle \in HandlerState /\ Idle.op = "idle"
    BY ConstantTypes, BoundsAssumption DEF Idle, HandlerState
  <1>2. TypeOK
    BY <1>1, ConstantTypes, BoundsAssumption, EmptySeq DEF Init, TypeOK
  <1>3. HandlersWellFormed
    BY <1>1 DEF Init, HandlersWellFormed
  <1>4. QED
    BY <1>2, <1>3 DEF TypeInv

LEMMA SubmitType ==
  ASSUME TypeInv, NEW t \in Tasks, NEW r \in Requests, SubmitQuestion(t, r)
  PROVE  TypeInv'
  <1>1. RecordProcessedRequest(<<>>, r) \in Seq(Requests)
    BY RecordType, EmptySeq
  <1>2. query_tasks' \in [Tasks -> Row]
    BY <1>1, ConstantTypes DEF SubmitQuestion, TypeInv, TypeOK, Row, Status, Stage
  <1>3. <<Message("question", 0)>> \in Seq(MessageRow)
    BY DEF Message, MessageRow, MessageKinds
  <1>4. chat_messages' \in [Tasks -> Seq(MessageRow)]
    BY <1>3, MessagesType DEF SubmitQuestion, TypeInv
  <1>5. QED
    BY <1>2, <1>4 DEF SubmitQuestion, TypeInv, TypeOK, HandlersWellFormed

LEMMA AnalyzeType ==
  ASSUME TypeInv, NEW h \in Handlers,
         AnalyzeReady(h) \/ AnalyzeAsks(h) \/ AnalyzeFails(h) \/ AnalyzeOutOfScope(h)
  PROVE  TypeInv'
  <1> DEFINE t == handler[h].task
             v == handler[h].version
             question == NewClarification(v, "semantic_slots")
  <1>1. t \in Tasks /\ v \in 0..(MaxVersion - 1)
    BY DEF AnalyzeReady, AnalyzeAsks, AnalyzeFails, AnalyzeOutOfScope, TypeInv,
           TypeOK, HandlersWellFormed, HandlerState
  <1>2. query_tasks[t] \in Row
    BY <1>1 DEF TypeInv, TypeOK
  <1>3. question \in Clarification
    BY <1>1, BoundsAssumption DEF NewClarification, Clarification
  <1>4. handler' \in [Handlers -> HandlerState] /\ HandlersWellFormed'
    BY ReturnType DEF AnalyzeReady, AnalyzeAsks, AnalyzeFails, AnalyzeOutOfScope
  <1>5. CASE AnalyzeReady(h)
    <2>1. [query_tasks[t] EXCEPT !.status = "RUNNING", !.stage = "LOGICAL_DSL",
                                 !.clarification = NoClarification,
                                 !.logical_dsl = TRUE] \in Row
      BY <1>2, ConstantTypes DEF Row, Status, Stage
    <2>2. query_tasks' \in [Tasks -> Row]
      BY <1>1, <1>5, <2>1, UpdateType DEF AnalyzeReady, TypeInv
    <2>3. QED
      BY <1>4, <1>5, <2>2 DEF AnalyzeReady, TypeInv, TypeOK
  <1>6. CASE AnalyzeAsks(h)
    <2>1. [query_tasks[t] EXCEPT !.status = "WAITING_USER", !.stage = "CLARIFICATION",
                                 !.clarification = question,
                                 !.logical_dsl = FALSE] \in Row
      BY <1>2, <1>3 DEF Row, Status, Stage
    <2>2. query_tasks' \in [Tasks -> Row]
      BY <1>1, <1>6, <2>1, UpdateType DEF AnalyzeAsks, TypeInv
    <2>3. <<Message("clarification", question.id)>> \in Seq(MessageRow)
      BY <1>3 DEF Message, MessageRow, MessageKinds, Clarification
    <2>4. chat_messages' \in [Tasks -> Seq(MessageRow)]
      BY <1>1, <1>6, <2>3, MessagesType DEF AnalyzeAsks, TypeInv
    <2>5. QED
      BY <1>4, <1>6, <2>2, <2>4 DEF AnalyzeAsks, TypeInv, TypeOK
  <1>7. CASE AnalyzeFails(h)
    <2>1. PICK stage \in AnalysisFailureStages :
            UpdateOptimistically(t, v,
              [query_tasks[t] EXCEPT !.status = "FAILED", !.stage = stage])
      BY <1>7 DEF AnalyzeFails
    <2>2. [query_tasks[t] EXCEPT !.status = "FAILED", !.stage = stage] \in Row
      BY <1>2 DEF Row, Status, Stage, AnalysisFailureStages
    <2>3. query_tasks' \in [Tasks -> Row]
      BY <1>1, <2>1, <2>2, UpdateType DEF TypeInv
    <2>4. <<Message("task_error", 0)>> \in Seq(MessageRow)
      BY DEF Message, MessageRow, MessageKinds, OutcomeKinds
    <2>5. chat_messages' \in [Tasks -> Seq(MessageRow)]
      BY <1>1, <1>7, <2>4, MessagesType DEF AnalyzeFails, TypeInv
    <2>6. query_runs' \in Seq(RunRow)
      BY <1>1, <1>7, AppendRunType DEF AnalyzeFails, TypeInv, RunStatus
    <2>7. QED
      BY <1>4, <1>7, <2>3, <2>5, <2>6 DEF AnalyzeFails, TypeInv, TypeOK
  <1>8. CASE AnalyzeOutOfScope(h)
    <2>1. [query_tasks[t] EXCEPT !.status = "SUCCEEDED",
                                 !.stage = "RESULT_FORMATTING"] \in Row
      BY <1>2 DEF Row, Status, Stage
    <2>2. query_tasks' \in [Tasks -> Row]
      BY <1>1, <1>8, <2>1, UpdateType DEF AnalyzeOutOfScope, TypeInv
    <2>3. <<Message("intent_boundary", 0)>> \in Seq(MessageRow)
      BY DEF Message, MessageRow, MessageKinds, OutcomeKinds
    <2>4. chat_messages' \in [Tasks -> Seq(MessageRow)]
      BY <1>1, <1>8, <2>3, MessagesType DEF AnalyzeOutOfScope, TypeInv
    <2>5. query_runs' \in Seq(RunRow)
      BY <1>1, <1>8, AppendRunType DEF AnalyzeOutOfScope, TypeInv, RunStatus
    <2>6. QED
      BY <1>4, <1>8, <2>2, <2>4, <2>5 DEF AnalyzeOutOfScope, TypeInv, TypeOK
  <1>9. QED
    BY <1>5, <1>6, <1>7, <1>8

LEMMA BeginType ==
  ASSUME TypeInv, NEW h \in Handlers, NEW t \in Tasks, NEW v \in 0..MaxVersion,
         NEW r,
         \/ BeginAnalyze(h, t, v) \/ BeginCancel(h, t, v)
         \/ /\ r \in Requests
            /\ BeginAnswer(h, t, v, r) \/ BeginRequestClarification(h, t, v, r)
  PROVE  TypeInv'
  <1> DEFINE row == query_tasks[t]
  <1>1. row \in Row /\ v \in Nat /\ MaxVersion \in Nat
    BY BoundsAssumption DEF TypeInv, TypeOK
  <1>2. PICK op \in {"analyze", "answer", "cancel", "request"},
             q \in Requests \cup {NoRequest}, snapshot \in Row :
          /\ op \in {"answer", "request"} => q \in Requests
          /\ v < MaxVersion
          /\ Start(h, Work(op, t, v, q, 0, snapshot))
          /\ UNCHANGED <<query_tasks, issued, query_runs, chat_messages, crashes>>
    <2>1. CASE BeginAnalyze(h, t, v)
      BY <2>1, ConstantTypes DEF BeginAnalyze
    <2>2. CASE BeginCancel(h, t, v)
      BY <2>2, <1>1 DEF BeginCancel
    <2>3. CASE r \in Requests /\ BeginAnswer(h, t, v, r)
      BY <2>3, <1>1 DEF BeginAnswer
    <2>4. CASE r \in Requests /\ BeginRequestClarification(h, t, v, r)
      BY <2>4, <1>1 DEF BeginRequestClarification
    <2>5. QED
      BY <2>1, <2>2, <2>3, <2>4
  <1> DEFINE work == Work(op, t, v, q, 0, snapshot)
  <1>3. /\ work \in HandlerState
        /\ work.task \in Tasks
        /\ work.op \in {"answer", "request", "execute"} => work.request \in Requests
    BY <1>1, <1>2 DEF Work, HandlerState
  <1>4. handler' \in [Handlers -> HandlerState] /\ HandlersWellFormed'
    BY <1>2, <1>3, StartType
  <1>5. QED
    BY <1>2, <1>4 DEF TypeInv, TypeOK

\* What the three ways to write an answer have in common.
LEMMA WriteAnswerType ==
  ASSUME TypeInv, NEW h \in Handlers, NEW moves \in Row,
         NEW messages \in Seq(MessageRow),
         WriteAnswer(h, moves, messages)
  PROVE  TypeInv'
  <1> DEFINE work == handler[h]
             old == work.row
             answer == [id |-> old.clarification.id, request_id |-> work.request]
             said == <<Message("clarification_answer", old.clarification.id)>>
             written == [moves EXCEPT
                           !.processed = RecordProcessedRequest(old.processed, work.request),
                           !.answers = Append(old.answers, answer)]
  <1>1. /\ work.task \in Tasks /\ work.version \in 0..(MaxVersion - 1)
        /\ work.request \in Requests /\ old \in Row
    BY DEF WriteAnswer, TypeInv, TypeOK, HandlersWellFormed, HandlerState
  <1>2. old.clarification.id \in Nat
    BY <1>1 DEF Row, Clarification
  <1>3. RecordProcessedRequest(old.processed, work.request) \in Seq(Requests)
    BY <1>1, RecordType DEF Row
  <1>4. Append(old.answers, answer) \in Seq([id : Nat, request_id : Requests])
    BY <1>1, <1>2, AppendProperties DEF Row
  <1>5. written \in Row
    BY <1>3, <1>4 DEF Row
  <1>6. query_tasks' \in [Tasks -> Row]
    BY <1>1, <1>5, UpdateType DEF WriteAnswer, TypeInv
  <1>7. said \in Seq(MessageRow)
    BY <1>2 DEF Message, MessageRow, MessageKinds
  <1>8. said \o messages \in Seq(MessageRow)
    BY <1>7, ConcatProperties
  <1>9. chat_messages' \in [Tasks -> Seq(MessageRow)]
    BY <1>1, <1>8, MessagesType DEF WriteAnswer, TypeInv
  <1>10. handler' \in [Handlers -> HandlerState] /\ HandlersWellFormed'
    BY ReturnType DEF WriteAnswer
  <1>11. QED
    BY <1>6, <1>9, <1>10 DEF WriteAnswer, TypeInv, TypeOK

LEMMA ClarificationType ==
  ASSUME TypeInv, NEW h \in Handlers,
         \/ AnswerResolves(h) \/ AnswerAsksAgain(h) \/ AnswerOther(h)
         \/ Cancel(h) \/ RequestClarification(h)
  PROVE  TypeInv'
  <1> DEFINE work == handler[h]
             t == work.task
             v == work.version
             old == work.row
  <1>1. t \in Tasks /\ v \in 0..(MaxVersion - 1) /\ old \in Row
    BY DEF AnswerResolves, AnswerAsksAgain, AnswerOther, WriteAnswer, Cancel,
           RequestClarification, TypeInv, TypeOK, HandlersWellFormed, HandlerState
  <1>2. NewClarification(v, "semantic_slots") \in Clarification
        /\ NewClarification(v, "manual") \in Clarification
    BY <1>1, BoundsAssumption DEF NewClarification, Clarification
  <1>3. CASE AnswerResolves(h)
    <2>1. [old EXCEPT !.status = "RUNNING", !.stage = "LOGICAL_DSL",
                      !.clarification = NoClarification, !.logical_dsl = TRUE] \in Row
      BY <1>1, ConstantTypes DEF Row, Status, Stage
    <2>2. <<Message("resolved_question", 0)>> \in Seq(MessageRow)
      BY DEF Message, MessageRow, MessageKinds
    <2>3. QED
      BY <1>3, <2>1, <2>2, WriteAnswerType DEF AnswerResolves
  <1>4. CASE AnswerAsksAgain(h)
    <2> DEFINE question == NewClarification(v, "semantic_slots")
    <2>1. [old EXCEPT !.status = "WAITING_USER", !.stage = "CLARIFICATION",
                      !.clarification = question, !.logical_dsl = FALSE] \in Row
      BY <1>1, <1>2 DEF Row, Status, Stage
    <2>2. <<Message("clarification", question.id)>> \in Seq(MessageRow)
      BY <1>2 DEF Message, MessageRow, MessageKinds, Clarification
    <2>3. QED
      BY <1>4, <2>1, <2>2, WriteAnswerType DEF AnswerAsksAgain
  <1>5. CASE AnswerOther(h)
    <2>1. [old EXCEPT !.status = "RUNNING", !.stage = "VALIDATION",
                      !.clarification = NoClarification] \in Row
      BY <1>1, ConstantTypes DEF Row, Status, Stage
    <2>2. QED
      BY <1>5, <2>1, EmptySeq, WriteAnswerType DEF AnswerOther
  <1>6. CASE Cancel(h)
    <2>1. [old EXCEPT !.status = "CANCELLED", !.stage = "CLARIFICATION",
                      !.clarification = NoClarification] \in Row
      BY <1>1, ConstantTypes DEF Row, Status, Stage
    <2>2. query_tasks' \in [Tasks -> Row]
      BY <1>1, <1>6, <2>1, UpdateType DEF Cancel, TypeInv
    <2>3. handler' \in [Handlers -> HandlerState] /\ HandlersWellFormed'
      BY <1>6, ReturnType DEF Cancel
    <2>4. QED
      BY <1>6, <2>2, <2>3 DEF Cancel, TypeInv, TypeOK
  <1>7. CASE RequestClarification(h)
    <2> DEFINE question == NewClarification(v, "manual")
    <2>1. work.request \in Requests
      BY <1>7 DEF RequestClarification, TypeInv, HandlersWellFormed
    <2>2. RecordProcessedRequest(old.processed, work.request) \in Seq(Requests)
      BY <1>1, <2>1, RecordType DEF Row
    <2>3. [old EXCEPT !.status = "WAITING_USER", !.stage = "CLARIFICATION",
                      !.clarification = question,
                      !.processed = RecordProcessedRequest(@, work.request)] \in Row
      BY <1>1, <1>2, <2>2 DEF Row, Status, Stage
    <2>4. query_tasks' \in [Tasks -> Row]
      BY <1>1, <1>7, <2>3, UpdateType DEF RequestClarification, TypeInv
    <2>5. <<Message("clarification", question.id)>> \in Seq(MessageRow)
      BY <1>2 DEF Message, MessageRow, MessageKinds, Clarification
    <2>6. chat_messages' \in [Tasks -> Seq(MessageRow)]
      BY <1>1, <1>7, <2>5, MessagesType DEF RequestClarification, TypeInv
    <2>7. handler' \in [Handlers -> HandlerState] /\ HandlersWellFormed'
      BY <1>7, ReturnType DEF RequestClarification
    <2>8. QED
      BY <1>7, <2>4, <2>6, <2>7 DEF RequestClarification, TypeInv, TypeOK
  <1>8. QED
    BY <1>3, <1>4, <1>5, <1>6, <1>7

\* Changing the elements of a table of runs in place keeps it a table of runs.
LEMMA RewriteRunsType ==
  ASSUME TypeOK, NEW runs,
         runs = [i \in DOMAIN query_runs |-> runs[i]],
         \A i \in DOMAIN query_runs : runs[i] \in RunRow
  PROVE  runs \in Seq(RunRow)
  <1>1. query_runs \in Seq(RunRow)
    BY DEF TypeOK
  <1>2. Len(query_runs) \in Nat /\ DOMAIN query_runs = 1..Len(query_runs)
    BY <1>1
  <1>3. runs = [i \in 1..Len(query_runs) |-> runs[i]]
    BY <1>2
  <1>4. \A i \in 1..Len(query_runs) : runs[i] \in RunRow
    BY <1>2
  <1>5. runs \in [1..Len(query_runs) -> RunRow]
    BY <1>3, <1>4
  <1>6. QED
    BY <1>2, <1>5, SeqDef

LEMMA ExecuteType ==
  ASSUME TypeInv, NEW h, NEW t \in Tasks, NEW v \in 0..MaxVersion,
         NEW r \in Requests,
         (h \in Handlers /\ ExecutePrepare(h, t, v, r)) \/ ExecutePlanFails(t, v, r)
  PROVE  TypeInv'
  <1> DEFINE run == Len(query_runs) + 1
             row == query_tasks[t]
  <1>1. /\ v \in 0..(MaxVersion - 1) /\ v + 1 \in 0..(MaxVersion - 1)
        /\ row \in Row /\ run \in Nat
    BY BoundsAssumption
    DEF ExecutePrepare, ExecutePlanFails, MayExecute, TypeInv, TypeOK
  <1>2. CASE h \in Handlers /\ ExecutePrepare(h, t, v, r)
    <2> DEFINE work == Work("execute", t, v + 1, r, run, NoRow)
               execution == [request_id |-> r, run_id |-> run, status |-> "running"]
    <2>1. execution \in Execution
      BY <1>1 DEF Execution, RunStatus
    <2>2. [row EXCEPT !.status = "RUNNING", !.stage = "EXECUTION",
                      !.execution = execution] \in Row
      BY <1>1, <2>1 DEF Row, Status, Stage
    <2>3. query_tasks' \in [Tasks -> Row]
      BY <1>1, <1>2, <2>2, UpdateType DEF ExecutePrepare, TypeInv
    <2>4. query_runs' \in Seq(RunRow)
      BY <1>2, AppendRunType DEF ExecutePrepare, TypeInv, RunStatus
    <2>5. /\ work \in HandlerState /\ work.task \in Tasks
          /\ work.op \in {"answer", "request", "execute"} => work.request \in Requests
      BY <1>1, ConstantTypes DEF Work, HandlerState
    <2>6. handler' \in [Handlers -> HandlerState] /\ HandlersWellFormed'
      BY <1>2, <2>5, StartType DEF ExecutePrepare
    <2>7. QED
      BY <1>2, <2>3, <2>4, <2>6 DEF ExecutePrepare, TypeInv, TypeOK
  <1>3. CASE ExecutePlanFails(t, v, r)
    <2>1. PICK status \in {"failed", "unsupported"} :
            /\ query_runs' = Append(query_runs, Run(t, r, status))
            /\ UpdateOptimistically(t, v,
                 [row EXCEPT !.status = "FAILED",
                             !.execution = [request_id |-> r, run_id |-> run,
                                            status |-> status]])
      BY <1>3 DEF ExecutePlanFails
    <2>2. [request_id |-> r, run_id |-> run, status |-> status] \in Execution
      BY <1>1 DEF Execution, RunStatus
    <2>3. [row EXCEPT !.status = "FAILED",
                      !.execution = [request_id |-> r, run_id |-> run,
                                     status |-> status]] \in Row
      BY <1>1, <2>2 DEF Row, Status
    <2>4. query_tasks' \in [Tasks -> Row]
      BY <1>1, <2>1, <2>3, UpdateType DEF TypeInv
    <2>5. query_runs' \in Seq(RunRow)
      BY <2>1, AppendRunType DEF TypeInv, RunStatus
    <2>6. <<Message("query_result", run)>> \in Seq(MessageRow)
      BY <1>1 DEF Message, MessageRow, MessageKinds, OutcomeKinds
    <2>7. chat_messages' \in [Tasks -> Seq(MessageRow)]
      BY <1>3, <2>6, MessagesType DEF ExecutePlanFails, TypeInv
    <2>8. QED
      BY <1>3, <2>4, <2>5, <2>7 DEF ExecutePlanFails, TypeInv, TypeOK, HandlersWellFormed
  <1>4. QED
    BY <1>2, <1>3

LEMMA FinishType ==
  ASSUME TypeInv, NEW h \in Handlers, NEW runStatus \in RunStatus,
         NEW status \in Status, NEW stage \in Stage,
         Finish(h, runStatus, status, stage)
  PROVE  TypeInv'
  <1> DEFINE work == handler[h]
             t == work.task
             execution == [request_id |-> work.request, run_id |-> work.run,
                           status |-> runStatus]
  <1>1. /\ t \in Tasks /\ work.version \in 0..(MaxVersion - 1)
        /\ work.request \in Requests /\ work.run \in Nat
    BY DEF Finish, TypeInv, TypeOK, HandlersWellFormed, HandlerState
  <1>2. query_tasks[t] \in Row
    BY <1>1 DEF TypeInv, TypeOK
  <1>3. execution \in Execution
    BY <1>1 DEF Execution
  <1>4. [query_tasks[t] EXCEPT !.status = status, !.stage = stage,
                               !.execution = execution] \in Row
    BY <1>2, <1>3 DEF Row
  <1>5. query_tasks' \in [Tasks -> Row]
    BY <1>1, <1>4, UpdateType DEF Finish, TypeInv
  <1>6. query_runs' \in Seq(RunRow)
    <2>1. query_runs' = [i \in DOMAIN query_runs |-> query_runs'[i]]
      BY DEF Finish
    <2>2. \A i \in DOMAIN query_runs : query_runs[i] \in RunRow
      BY DEF TypeInv, TypeOK
    <2>3. \A i \in DOMAIN query_runs : query_runs'[i] \in RunRow
      BY <2>2 DEF Finish, RunRow
    <2>4. QED
      BY <2>1, <2>3, RewriteRunsType DEF TypeInv
  <1>7. <<Message("query_result", work.run)>> \in Seq(MessageRow)
    BY <1>1 DEF Message, MessageRow, MessageKinds, OutcomeKinds
  <1>8. chat_messages' \in [Tasks -> Seq(MessageRow)]
    BY <1>1, <1>7, MessagesType DEF Finish, TypeInv
  <1>9. handler' \in [Handlers -> HandlerState] /\ HandlersWellFormed'
    BY ReturnType DEF Finish
  <1>10. QED
    BY <1>5, <1>6, <1>8, <1>9 DEF Finish, TypeInv, TypeOK

LEMMA DeleteType ==
  ASSUME TypeInv, NEW c \in Conversations, DeleteConversation(c)
  PROVE  TypeInv'
  <1>1. query_tasks' \in [Tasks -> Row]
    BY ConstantTypes DEF DeleteConversation, TypeInv, TypeOK
  <1>2. chat_messages' \in [Tasks -> Seq(MessageRow)]
    BY EmptySeq DEF DeleteConversation, TypeInv, TypeOK
  <1>3. query_runs' = [i \in DOMAIN query_runs |-> query_runs'[i]]
    BY DEF DeleteConversation
  <1>4. \A i \in DOMAIN query_runs : query_runs[i] \in RunRow
    BY DEF TypeInv, TypeOK
  <1>5. \A i \in DOMAIN query_runs : query_runs'[i] \in RunRow
    BY <1>4 DEF DeleteConversation, RunRow
  <1>6. query_runs' \in Seq(RunRow)
    BY <1>3, <1>5, RewriteRunsType DEF TypeInv
  <1>7. QED
    BY <1>1, <1>2, <1>6 DEF DeleteConversation, TypeInv, TypeOK, HandlersWellFormed

LEMMA TypeStep == TypeInv /\ [Next]_vars => TypeInv'
  <1> SUFFICES ASSUME TypeInv, [Next]_vars PROVE TypeInv'
    OBVIOUS
  <1>1. ASSUME NEW t \in Tasks, NEW r \in Requests, SubmitQuestion(t, r)
        PROVE  TypeInv'
    BY <1>1, SubmitType
  <1>2. ASSUME NEW h \in Handlers, NEW t \in Tasks, NEW v \in 0..MaxVersion,
               BeginAnalyze(h, t, v) \/ BeginCancel(h, t, v)
        PROVE  TypeInv'
    BY <1>2, BeginType
  <1>3. ASSUME NEW h \in Handlers, NEW t \in Tasks, NEW v \in 0..MaxVersion,
               NEW r \in Requests,
               BeginAnswer(h, t, v, r) \/ BeginRequestClarification(h, t, v, r)
        PROVE  TypeInv'
    BY <1>3, BeginType
  <1>4. ASSUME NEW h \in Handlers, NEW t \in Tasks, NEW v \in 0..MaxVersion,
               NEW r \in Requests, ExecutePrepare(h, t, v, r)
        PROVE  TypeInv'
    BY <1>4, ExecuteType
  <1>5. ASSUME NEW t \in Tasks, NEW v \in 0..MaxVersion, NEW r \in Requests,
               ExecutePlanFails(t, v, r)
        PROVE  TypeInv'
    BY <1>5, ExecuteType
  <1>6. ASSUME NEW c \in Conversations, DeleteConversation(c)
        PROVE  TypeInv'
    BY <1>6, DeleteType
  <1>7. ASSUME NEW h \in Handlers, Complete(h)
        PROVE  TypeInv'
    <2>1. CASE AnalyzeReady(h) \/ AnalyzeAsks(h) \/ AnalyzeFails(h) \/ AnalyzeOutOfScope(h)
      BY <2>1, AnalyzeType
    <2>2. CASE \/ AnswerResolves(h) \/ AnswerAsksAgain(h) \/ AnswerOther(h)
               \/ Cancel(h) \/ RequestClarification(h)
      BY <2>2, ClarificationType
    <2>3. CASE FinishSuccess(h)
      BY <2>3, FinishType DEF FinishSuccess, RunStatus, Status, Stage
    <2>4. CASE FinishFailure(h)
      BY <2>4, FinishType DEF FinishFailure, RunStatus, Status, Stage
    <2>5. CASE Rejected(h)
      BY <2>5, ReturnType DEF Rejected, TypeInv, TypeOK
    <2>6. QED
      BY <1>7, <2>1, <2>2, <2>3, <2>4, <2>5 DEF Complete
  <1>8. ASSUME NEW h \in Handlers, Crash(h)
        PROVE  TypeInv'
    BY <1>8, ReturnType, BoundsAssumption DEF Crash, TypeInv, TypeOK
  <1>9. CASE UNCHANGED vars
    BY <1>9 DEF vars, TypeInv, TypeOK, HandlersWellFormed
  <1>10. QED
    BY <1>1, <1>2, <1>3, <1>4, <1>5, <1>6, <1>7, <1>8, <1>9 DEF Next, ClientRequest

\* The tables and threads only ever hold well-formed rows and work.
THEOREM TypeCorrect == Spec => []TypeOK
  <1>1. Spec => []TypeInv
    BY TypeInit, TypeStep, PTL DEF Spec
  <1>2. TypeInv => TypeOK
    BY DEF TypeInv
  <1>3. QED
    BY <1>1, <1>2, PTL

-------------------------------------------------------------------------------
(* What a handler knows, and the inductive invariant *)

\* A busy handler works on an issued task and is not ahead of its row.
NotAhead(h) ==
  handler[h].op # "idle" =>
    /\ handler[h].task \in issued
    /\ Exists(handler[h].task) =>
         handler[h].version <= query_tasks[handler[h].task].version

Known ==
  /\ \A t \in Tasks : Exists(t) => t \in issued
  /\ \A h \in Handlers : NotAhead(h)

\* The inductive invariant.
SafeInv ==
  /\ TypeInv
  /\ Known
  /\ SnapshotsHold
  /\ OneOutcome
  /\ WaitingMeansAsked

-------------------------------------------------------------------------------
(* What a step can do to one task *)

NoOutcomeIn(messages) == \A i \in DOMAIN messages : ~IsOutcome(messages[i])

Untouched(t) == UNCHANGED <<query_tasks[t], chat_messages[t]>>

Created(t) ==
  /\ t \notin issued /\ t \in issued'
  /\ query_tasks'[t].status = "RUNNING"
  /\ query_tasks'[t].clarification = NoClarification
  /\ NoOutcomeIn(chat_messages'[t])

Removed(t) == query_tasks'[t] = NoRow /\ chat_messages'[t] = <<>>

\* The task goes on, or is cancelled without an outcome.
GoesOn(t) ==
  /\ query_tasks'[t].status \in {"RUNNING", "CANCELLED"}
  /\ query_tasks'[t].clarification = NoClarification
  /\ NoOutcomeIn(chat_messages'[t])

\* The user is asked, under the version of the new row.
Asks(t) ==
  LET row == query_tasks'[t] IN
  /\ row.status = "WAITING_USER" /\ row.stage = "CLARIFICATION"
  /\ row.clarification # NoClarification
  /\ row.clarification.task_version = row.version
  /\ NoOutcomeIn(chat_messages'[t])
  /\ chat_messages'[t] # <<>>
  /\ chat_messages'[t][Len(chat_messages'[t])]
       = Message("clarification", row.clarification.id)

\* The task ends and the user is told, once.
Settles(t) ==
  /\ query_tasks'[t].status \in {"SUCCEEDED", "FAILED"}
  /\ query_tasks'[t].clarification = NoClarification
  /\ \E before \in Seq(MessageRow), m \in MessageRow :
       /\ NoOutcomeIn(before) /\ IsOutcome(m)
       /\ chat_messages'[t] = Append(before, m)

Rewritten(t) ==
  /\ Exists(t)
  /\ query_tasks[t].status \in {"RUNNING", "WAITING_USER"}
  /\ query_tasks'[t].version = query_tasks[t].version + 1
  /\ GoesOn(t) \/ Asks(t) \/ Settles(t)

TaskMoves ==
  /\ issued \subseteq issued'
  /\ \A t \in Tasks : Untouched(t) \/ Created(t) \/ Removed(t) \/ Rewritten(t)

-------------------------------------------------------------------------------
(* Lemmas about transcripts *)

LEMMA AppendLast ==
  ASSUME NEW S, NEW s \in Seq(S), NEW e \in S
  PROVE  /\ Append(s, e) # <<>>
         /\ Len(Append(s, e)) = Len(s) + 1
         /\ DOMAIN Append(s, e) = 1..(Len(s) + 1)
         /\ Append(s, e)[Len(s) + 1] = e
         /\ \A i \in 1..Len(s) : Append(s, e)[i] = s[i]
  BY AppendProperties

\* Two messages added in one transaction are added one after the other.
LEMMA ConcatTwo ==
  ASSUME NEW s \in Seq(MessageRow), NEW d \in MessageRow
  PROVE  /\ s \o <<d>> = Append(s, d)
         /\ s \o (<<d>> \o <<>>) = Append(s, d)
         /\ \A e \in MessageRow : s \o (<<d>> \o <<e>>) = Append(Append(s, d), e)
  OBVIOUS

\* A message that is no outcome leaves a transcript without one.
LEMMA AppendNoOutcome ==
  ASSUME NEW s \in Seq(MessageRow), NEW m \in MessageRow,
         NoOutcomeIn(s), ~IsOutcome(m)
  PROVE  Append(s, m) \in Seq(MessageRow) /\ NoOutcomeIn(Append(s, m))
  <1>1. Append(s, m) \in Seq(MessageRow)
    BY AppendProperties
  <1>2. DOMAIN s = 1..Len(s) /\ Len(s) \in Nat
    OBVIOUS
  <1>3. ASSUME NEW i \in 1..(Len(s) + 1)
        PROVE  ~IsOutcome(Append(s, m)[i])
    <2>1. CASE i = Len(s) + 1
      BY <2>1, AppendLast
    <2>2. CASE i # Len(s) + 1
      <3>1. i \in 1..Len(s)
        BY <1>2, <2>2
      <3>2. QED
        BY <3>1, <1>2, AppendLast DEF NoOutcomeIn
    <2>3. QED
      BY <2>1, <2>2
  <1>4. QED
    BY <1>1, <1>3, AppendLast DEF NoOutcomeIn

-------------------------------------------------------------------------------
(* What the helpers of QueryTask do to the task they are called for *)

LEMMA UpdatedRow ==
  ASSUME TypeInv, NEW t \in Tasks, NEW v, NEW row \in Row,
         UpdateOptimistically(t, v, row)
  PROVE  /\ Exists(t) /\ query_tasks[t].version = v
         /\ query_tasks'[t] = [row EXCEPT !.version = v + 1]
         /\ \A u \in Tasks \ {t} : query_tasks'[u] = query_tasks[u]
  BY DEF UpdateOptimistically, TypeInv, TypeOK

LEMMA SaidMessages ==
  ASSUME TypeInv, NEW t \in Tasks, NEW messages, AddMessages(t, messages)
  PROVE  /\ chat_messages[t] \in Seq(MessageRow)
         /\ chat_messages'[t] = chat_messages[t] \o messages
         /\ \A u \in Tasks \ {t} : chat_messages'[u] = chat_messages[u]
  BY DEF AddMessages, TypeInv, TypeOK

\* What a busy handler holds.
LEMMA BusyHandler ==
  ASSUME TypeInv, NEW h \in Handlers, handler[h].op # "idle"
  PROVE  /\ handler[h].task \in Tasks
         /\ handler[h].version \in Nat
         /\ handler[h].row \in Row
         /\ handler[h].run \in Nat
         /\ query_tasks[handler[h].task] \in Row
         /\ handler[h].op \in {"answer", "request", "execute"} =>
              handler[h].request \in Requests
  BY DEF TypeInv, TypeOK, HandlersWellFormed, HandlerState

\* A task that has not ended has told no outcome, and asks nothing while it runs.
LEMMA ActiveTask ==
  ASSUME SafeInv, NEW t \in Tasks,
         query_tasks[t].status \in {"RUNNING", "WAITING_USER"}
  PROVE  /\ Exists(t)
         /\ NoOutcomeIn(chat_messages[t])
         /\ query_tasks[t].status = "RUNNING" =>
              query_tasks[t].clarification = NoClarification
  BY DEF SafeInv, OneOutcome, WaitingMeansAsked, NoOutcomeIn, Exists

\* Execution starts only from RUNNING: a task that waits is in CLARIFICATION,
\* from which no move leads to EXECUTION.
LEMMA ExecutableIsRunning ==
  ASSUME NEW status, NEW stage, CanTransition(status, stage, "RUNNING", "EXECUTION")
  PROVE  status = "RUNNING"
  <1>1. status \in {"RUNNING", "WAITING_USER"}
    BY DEF CanTransition, Status, StatusSuccessors
  <1>2. CASE status = "WAITING_USER"
    <2>1. stage = "CLARIFICATION"
      BY <1>2 DEF CanTransition
    <2>2. "EXECUTION" \notin StageSuccessors["CLARIFICATION"]
      BY DEF StageSuccessors, Stage
    <2>3. QED
      BY <2>1, <2>2 DEF CanTransition
  <1>3. QED
    BY <1>1, <1>2

LEMMA MayWaitIsActive ==
  ASSUME NEW status, NEW stage,
         CanTransition(status, stage, "WAITING_USER", "CLARIFICATION")
  PROVE  status \in {"RUNNING", "WAITING_USER"}
  BY DEF CanTransition, Status, StatusSuccessors

\* A clarification that is created is one, and carries the next version.
LEMMA FreshClarification ==
  ASSUME NEW v \in Nat, NEW type
  PROVE  /\ NewClarification(v, type) # NoClarification
         /\ NewClarification(v, type).task_version = v + 1
  BY DEF NewClarification, NoClarification

\* A step that rewrites one task moves that task only.
LEMMA OneTaskMoves ==
  ASSUME NEW t \in Tasks, issued' = issued, Rewritten(t),
         \A u \in Tasks \ {t} : query_tasks'[u] = query_tasks[u],
         \A u \in Tasks \ {t} : chat_messages'[u] = chat_messages[u]
  PROVE  TaskMoves
  BY DEF TaskMoves, Untouched

LEMMA NothingMoves ==
  ASSUME UNCHANGED <<query_tasks, chat_messages, issued>>
  PROVE  TaskMoves
  BY DEF TaskMoves, Untouched
-------------------------------------------------------------------------------
(* Part 1: every action moves its tasks *)

LEMMA SubmitMoves ==
  ASSUME SafeInv, NEW t \in Tasks, NEW r \in Requests, SubmitQuestion(t, r)
  PROVE  TaskMoves
  <1> DEFINE m == Message("question", 0)
  <1>1. ~Exists(t) /\ query_tasks[t] \in Row
    BY DEF SubmitQuestion, SafeInv, Known, TypeInv, TypeOK
  <1>2. NoOutcomeIn(chat_messages[t])
    BY <1>1 DEF SafeInv, OneOutcome, NoOutcomeIn, Exists
  <1>3. m \in MessageRow /\ ~IsOutcome(m)
    BY DEF Message, MessageRow, MessageKinds, IsOutcome, OutcomeKinds
  <1>4. /\ chat_messages[t] \in Seq(MessageRow)
        /\ chat_messages'[t] = Append(chat_messages[t], m)
        /\ \A u \in Tasks \ {t} : chat_messages'[u] = chat_messages[u]
    <2>1. /\ chat_messages[t] \in Seq(MessageRow)
          /\ chat_messages'[t] = chat_messages[t] \o <<m>>
          /\ \A u \in Tasks \ {t} : chat_messages'[u] = chat_messages[u]
      BY SaidMessages DEF SubmitQuestion, SafeInv
    <2> HIDE DEF m
    <2>2. QED
      BY <1>3, <2>1, ConcatTwo
  <1>5. NoOutcomeIn(chat_messages'[t])
    BY <1>2, <1>3, <1>4, AppendNoOutcome
  <1>6. /\ query_tasks'[t].status = "RUNNING"
        /\ query_tasks'[t].clarification = NoClarification
        /\ \A u \in Tasks \ {t} : query_tasks'[u] = query_tasks[u]
    BY DEF SubmitQuestion, SafeInv, TypeInv, TypeOK, NoRow
  <1>7. Created(t)
    BY <1>5, <1>6 DEF SubmitQuestion, Created
  <1>8. QED
    BY <1>4, <1>6, <1>7 DEF SubmitQuestion, TaskMoves, Untouched

\* A task that is told its outcome while it runs settles.
LEMMA ToldSettles ==
  ASSUME SafeInv, NEW t \in Tasks, NEW v, NEW row \in Row, NEW m \in MessageRow,
         query_tasks[t].status = "RUNNING",
         UpdateOptimistically(t, v, row),
         row.status \in {"SUCCEEDED", "FAILED"},
         row.clarification = query_tasks[t].clarification,
         AddMessages(t, <<m>>), IsOutcome(m), issued' = issued
  PROVE  TaskMoves
  <1>1. /\ Exists(t) /\ NoOutcomeIn(chat_messages[t])
        /\ row.clarification = NoClarification
    BY ActiveTask
  <1>2. /\ query_tasks'[t] = [row EXCEPT !.version = v + 1]
        /\ query_tasks[t].version = v
        /\ \A u \in Tasks \ {t} : query_tasks'[u] = query_tasks[u]
    BY UpdatedRow DEF SafeInv
  <1>3. /\ query_tasks'[t].version = v + 1
        /\ query_tasks'[t].status \in {"SUCCEEDED", "FAILED"}
        /\ query_tasks'[t].clarification = NoClarification
    BY <1>1, <1>2 DEF Row
  <1>4. /\ chat_messages[t] \in Seq(MessageRow)
        /\ chat_messages'[t] = Append(chat_messages[t], m)
        /\ \A u \in Tasks \ {t} : chat_messages'[u] = chat_messages[u]
    <2>1. /\ chat_messages[t] \in Seq(MessageRow)
          /\ chat_messages'[t] = chat_messages[t] \o <<m>>
          /\ \A u \in Tasks \ {t} : chat_messages'[u] = chat_messages[u]
      BY SaidMessages DEF SafeInv
    <2>2. chat_messages[t] \o <<m>> = Append(chat_messages[t], m)
      BY <2>1, ConcatTwo
    <2>3. QED
      BY <2>1, <2>2
  <1>5. Settles(t)
    BY <1>1, <1>3, <1>4 DEF Settles
  <1>6. Rewritten(t)
    BY <1>1, <1>2, <1>3, <1>5 DEF Rewritten
  <1>7. QED
    BY <1>2, <1>4, <1>6, OneTaskMoves

\* A task that is asked, after messages that tell no outcome, waits.
LEMMA AskedWaits ==
  ASSUME SafeInv, NEW t \in Tasks, NEW v \in Nat, NEW type, NEW row \in Row,
         NEW before \in Seq(MessageRow), NoOutcomeIn(before),
         query_tasks[t].status \in {"RUNNING", "WAITING_USER"},
         UpdateOptimistically(t, v, row),
         row.status = "WAITING_USER", row.stage = "CLARIFICATION",
         row.clarification = NewClarification(v, type),
         chat_messages'[t] =
           Append(before, Message("clarification", row.clarification.id)),
         \A u \in Tasks \ {t} : chat_messages'[u] = chat_messages[u],
         issued' = issued
  PROVE  TaskMoves
  <1> DEFINE m == Message("clarification", row.clarification.id)
  <1>1. Exists(t)
    BY ActiveTask
  <1>2. /\ query_tasks'[t] = [row EXCEPT !.version = v + 1]
        /\ query_tasks[t].version = v
        /\ \A u \in Tasks \ {t} : query_tasks'[u] = query_tasks[u]
    BY UpdatedRow DEF SafeInv
  <1>3. /\ query_tasks'[t].version = v + 1
        /\ query_tasks'[t].status = "WAITING_USER"
        /\ query_tasks'[t].stage = "CLARIFICATION"
        /\ query_tasks'[t].clarification = row.clarification
    BY <1>2 DEF Row
  <1>4. /\ row.clarification # NoClarification
        /\ row.clarification.task_version = v + 1
    BY FreshClarification
  <1>5. m \in MessageRow /\ ~IsOutcome(m)
    BY DEF Message, MessageRow, MessageKinds, IsOutcome, OutcomeKinds, Row, Clarification
  <1>6. NoOutcomeIn(chat_messages'[t])
    BY <1>5, AppendNoOutcome
  <1>7. /\ chat_messages'[t] # <<>>
        /\ chat_messages'[t][Len(chat_messages'[t])] = m
    BY <1>5, AppendLast
  <1>8. Asks(t)
    BY <1>3, <1>4, <1>6, <1>7 DEF Asks
  <1>9. Rewritten(t)
    BY <1>1, <1>2, <1>3, <1>8 DEF Rewritten
  <1>10. QED
    BY <1>2, <1>9, OneTaskMoves

\* A task that is rewritten as running or cancelled, asking nothing, goes on.
LEMMA RewrittenGoesOn ==
  ASSUME SafeInv, NEW t \in Tasks, NEW v, NEW row \in Row,
         query_tasks[t].status \in {"RUNNING", "WAITING_USER"},
         UpdateOptimistically(t, v, row),
         row.status \in {"RUNNING", "CANCELLED"},
         row.clarification = NoClarification,
         NoOutcomeIn(chat_messages'[t]),
         \A u \in Tasks \ {t} : chat_messages'[u] = chat_messages[u],
         issued' = issued
  PROVE  TaskMoves
  <1>1. Exists(t)
    BY ActiveTask
  <1>2. /\ query_tasks'[t] = [row EXCEPT !.version = v + 1]
        /\ query_tasks[t].version = v
        /\ \A u \in Tasks \ {t} : query_tasks'[u] = query_tasks[u]
    BY UpdatedRow DEF SafeInv
  <1>3. /\ query_tasks'[t].version = v + 1
        /\ query_tasks'[t].status = row.status
        /\ query_tasks'[t].clarification = row.clarification
    BY <1>2 DEF Row
  <1>4. GoesOn(t)
    BY <1>3 DEF GoesOn
  <1>5. Rewritten(t)
    BY <1>1, <1>2, <1>3, <1>4 DEF Rewritten
  <1>6. QED
    BY <1>2, <1>5, OneTaskMoves

LEMMA AnalyzeMoves ==
  ASSUME SafeInv, NEW h \in Handlers,
         AnalyzeReady(h) \/ AnalyzeAsks(h) \/ AnalyzeFails(h) \/ AnalyzeOutOfScope(h)
  PROVE  TaskMoves
  <1> DEFINE t == handler[h].task
             v == handler[h].version
             row == query_tasks[t]
             question == NewClarification(v, "semantic_slots")
  <1>0. handler[h].op = "analyze" /\ StillCurrent(h)
    BY DEF AnalyzeReady, AnalyzeAsks, AnalyzeFails, AnalyzeOutOfScope
  <1>1. t \in Tasks /\ v \in Nat /\ row \in Row
    BY <1>0, BusyHandler DEF SafeInv
  \* After an analysis that ended as a boundary nothing but the version is
  \* checked again: that the task still runs is what SnapshotsHold says.
  <1>2. row.status = "RUNNING"
    BY <1>0 DEF Analyzable, SafeInv, SnapshotsHold, SnapshotHolds
  <1>3. NoOutcomeIn(chat_messages[t])
    BY <1>1, <1>2, ActiveTask
  <1>4. question \in Clarification
    BY <1>1 DEF NewClarification, Clarification
  <1>5. CASE AnalyzeReady(h)
    <2> DEFINE new == [row EXCEPT !.status = "RUNNING", !.stage = "LOGICAL_DSL",
                                  !.clarification = NoClarification,
                                  !.logical_dsl = TRUE]
    <2>1. /\ new \in Row /\ new.status = "RUNNING"
          /\ new.clarification = NoClarification
      BY <1>1, ConstantTypes DEF Row, Status, Stage
    <2>2. QED
      BY <1>1, <1>2, <1>3, <1>5, <2>1, RewrittenGoesOn DEF AnalyzeReady
  <1>6. CASE AnalyzeAsks(h)
    <2> DEFINE new == [row EXCEPT !.status = "WAITING_USER", !.stage = "CLARIFICATION",
                                  !.clarification = question,
                                  !.logical_dsl = FALSE]
               m == Message("clarification", question.id)
    <2>1. /\ new \in Row /\ new.status = "WAITING_USER"
          /\ new.stage = "CLARIFICATION"
          /\ new.clarification = NewClarification(v, "semantic_slots")
      BY <1>1, <1>4 DEF Row, Status, Stage
    <2>2. m \in MessageRow
      BY <1>4 DEF Message, MessageRow, MessageKinds, Clarification
    <2>3. AddMessages(t, <<m>>) /\ UpdateOptimistically(t, v, new) /\ issued' = issued
      BY <1>6 DEF AnalyzeAsks
    <2>4. /\ chat_messages[t] \in Seq(MessageRow)
          /\ chat_messages'[t] = chat_messages[t] \o <<m>>
          /\ \A u \in Tasks \ {t} : chat_messages'[u] = chat_messages[u]
      BY <1>1, <2>3, SaidMessages DEF SafeInv
    <2>5. chat_messages'[t] = Append(chat_messages[t], Message("clarification", new.clarification.id))
      BY <2>1, <2>2, <2>4, ConcatTwo
    <2> HIDE DEF t, v, new
    <2>6. QED
      BY <1>1, <1>2, <1>3, <2>1, <2>3, <2>4, <2>5, AskedWaits
  <1>7. CASE AnalyzeFails(h)
    <2>1. PICK stage \in AnalysisFailureStages :
            UpdateOptimistically(t, v, [row EXCEPT !.status = "FAILED", !.stage = stage])
      BY <1>7 DEF AnalyzeFails
    <2> DEFINE new == [row EXCEPT !.status = "FAILED", !.stage = stage]
               m == Message("task_error", 0)
    <2>2. /\ new \in Row /\ new.status = "FAILED"
          /\ new.clarification = row.clarification
      BY <1>1 DEF Row, Status, Stage, AnalysisFailureStages
    <2>3. m \in MessageRow /\ IsOutcome(m)
      BY DEF Message, MessageRow, MessageKinds, OutcomeKinds, IsOutcome
    <2>4. AddMessages(t, <<m>>) /\ issued' = issued
      BY <1>7 DEF AnalyzeFails
    <2>5. QED
      BY <1>1, <1>2, <2>1, <2>2, <2>3, <2>4, ToldSettles
  <1>8. CASE AnalyzeOutOfScope(h)
    <2> DEFINE new == [row EXCEPT !.status = "SUCCEEDED", !.stage = "RESULT_FORMATTING"]
               m == Message("intent_boundary", 0)
    <2>1. /\ new \in Row /\ new.status = "SUCCEEDED"
          /\ new.clarification = row.clarification
      BY <1>1 DEF Row, Status, Stage
    <2>2. m \in MessageRow /\ IsOutcome(m)
      BY DEF Message, MessageRow, MessageKinds, OutcomeKinds, IsOutcome
    <2>3. AddMessages(t, <<m>>) /\ issued' = issued /\ UpdateOptimistically(t, v, new)
      BY <1>8 DEF AnalyzeOutOfScope
    <2>4. QED
      BY <1>1, <1>2, <2>1, <2>2, <2>3, ToldSettles
  <1>9. QED
    BY <1>5, <1>6, <1>7, <1>8

\* Whoever writes a row back that was read without a lock works on that row.
LEMMA UnlockedSnapshot ==
  ASSUME SafeInv, NEW h \in Handlers,
         handler[h].op \in {"answer", "cancel", "request"}, StillCurrent(h)
  PROVE  /\ handler[h].row = query_tasks[handler[h].task]
         /\ query_tasks[handler[h].task].status \in {"RUNNING", "WAITING_USER"}
  <1> DEFINE work == handler[h]
             row == query_tasks[work.task]
  <1>1. work.task \in Tasks
    BY BusyHandler DEF SafeInv
  <1>2. work.row = row
    BY DEF SafeInv, SnapshotsHold, SnapshotHolds
  <1>3. CASE work.op \in {"answer", "cancel"}
    <2>1. row.clarification # NoClarification
      BY <1>3 DEF SafeInv, SnapshotsHold, SnapshotHolds
    <2>2. QED
      BY <1>1, <1>2, <2>1 DEF SafeInv, WaitingMeansAsked
  <1>4. CASE work.op = "request"
    <2>1. CanTransition(row.status, row.stage, "WAITING_USER", "CLARIFICATION")
      BY <1>4 DEF SafeInv, SnapshotsHold, SnapshotHolds
    <2>2. QED
      BY <1>2, <2>1, MayWaitIsActive
  <1>5. QED
    BY <1>3, <1>4

\* The row and the transcript an answer leaves.
LEMMA AnswerWritten ==
  ASSUME SafeInv, NEW h \in Handlers, NEW moves \in Row,
         NEW messages \in Seq(MessageRow),
         WriteAnswer(h, moves, messages)
  PROVE  LET t == handler[h].task
             said == Message("clarification_answer", handler[h].row.clarification.id)
         IN
         /\ t \in Tasks
         /\ query_tasks[t].status \in {"RUNNING", "WAITING_USER"}
         /\ NoOutcomeIn(chat_messages[t])
         /\ said \in MessageRow /\ ~IsOutcome(said)
         /\ chat_messages[t] \in Seq(MessageRow)
         /\ chat_messages'[t] = chat_messages[t] \o (<<said>> \o messages)
         /\ \A u \in Tasks \ {t} : chat_messages'[u] = chat_messages[u]
         /\ issued' = issued
         /\ \E row \in Row :
              /\ UpdateOptimistically(t, handler[h].version, row)
              /\ row.status = moves.status /\ row.stage = moves.stage
              /\ row.clarification = moves.clarification
  <1> DEFINE work == handler[h]
             t == work.task
             old == work.row
             said == Message("clarification_answer", old.clarification.id)
             answer == [id |-> old.clarification.id, request_id |-> work.request]
             row == [moves EXCEPT
                       !.processed = RecordProcessedRequest(old.processed, work.request),
                       !.answers = Append(old.answers, answer)]
  <1>1. work.op = "answer"
    BY DEF WriteAnswer
  <1>2. /\ UpdateOptimistically(t, work.version, row)
        /\ AddMessages(t, <<said>> \o messages)
        /\ issued' = issued
    BY DEF WriteAnswer
  <1>3. t \in Tasks /\ old \in Row /\ work.request \in Requests
    BY <1>1, BusyHandler DEF SafeInv
  <1>4. StillCurrent(h)
    BY <1>2 DEF UpdateOptimistically, StillCurrent
  <1>5. query_tasks[t].status \in {"RUNNING", "WAITING_USER"}
    BY <1>1, <1>4, UnlockedSnapshot
  <1>6. NoOutcomeIn(chat_messages[t])
    BY <1>3, <1>5, ActiveTask
  <1>7. /\ old.clarification.id \in Nat /\ answer.id \in Nat
        /\ answer.request_id \in Requests
        /\ old.processed \in Seq(Requests)
        /\ old.answers \in Seq([id : Nat, request_id : Requests])
    BY <1>3 DEF Row, Clarification
  <1>8. said \in MessageRow /\ ~IsOutcome(said)
    BY <1>7 DEF Message, MessageRow, MessageKinds, IsOutcome, OutcomeKinds
  <1>9. RecordProcessedRequest(old.processed, work.request) \in Seq(Requests)
    BY <1>3, <1>7, RecordType
  <1>10. Append(old.answers, answer) \in Seq([id : Nat, request_id : Requests])
    BY <1>7, AppendProperties
  <1>11. /\ row \in Row
         /\ row.status = moves.status /\ row.stage = moves.stage
         /\ row.clarification = moves.clarification
    BY <1>9, <1>10 DEF Row
  <1>12. /\ chat_messages[t] \in Seq(MessageRow)
         /\ chat_messages'[t] = chat_messages[t] \o (<<said>> \o messages)
         /\ \A u \in Tasks \ {t} : chat_messages'[u] = chat_messages[u]
    BY <1>2, <1>3, SaidMessages DEF SafeInv
  <1> HIDE DEF t, old, said, row
  <1>13. \E r \in Row :
           /\ UpdateOptimistically(t, work.version, r)
           /\ r.status = moves.status /\ r.stage = moves.stage
           /\ r.clarification = moves.clarification
    BY <1>2, <1>11
  <1>14. QED
    BY <1>2, <1>3, <1>5, <1>6, <1>8, <1>12, <1>13 DEF t, old, said

\* An answer after which the task runs.
LEMMA AnswerMovesOn ==
  ASSUME SafeInv, NEW h \in Handlers, NEW moves \in Row,
         NEW messages \in Seq(MessageRow),
         moves.status = "RUNNING", moves.clarification = NoClarification,
         \/ messages = <<>>
         \/ \E m \in MessageRow : messages = <<m>> /\ ~IsOutcome(m),
         WriteAnswer(h, moves, messages)
  PROVE  TaskMoves
  <1> DEFINE t == handler[h].task
             said == Message("clarification_answer", handler[h].row.clarification.id)
  <1>1. /\ t \in Tasks
        /\ query_tasks[t].status \in {"RUNNING", "WAITING_USER"}
        /\ NoOutcomeIn(chat_messages[t])
        /\ said \in MessageRow /\ ~IsOutcome(said)
        /\ chat_messages[t] \in Seq(MessageRow)
        /\ chat_messages'[t] = chat_messages[t] \o (<<said>> \o messages)
        /\ \A u \in Tasks \ {t} : chat_messages'[u] = chat_messages[u]
        /\ issued' = issued
    BY AnswerWritten
  <1>2. PICK row \in Row :
          /\ UpdateOptimistically(t, handler[h].version, row)
          /\ row.status = moves.status /\ row.stage = moves.stage
          /\ row.clarification = moves.clarification
    BY AnswerWritten
  <1> HIDE DEF t, said
  <1>3. /\ Append(chat_messages[t], said) \in Seq(MessageRow)
        /\ NoOutcomeIn(Append(chat_messages[t], said))
    BY <1>1, AppendNoOutcome
  <1>4. NoOutcomeIn(chat_messages'[t])
    <2>1. CASE messages = <<>>
      BY <1>1, <1>3, <2>1, ConcatTwo
    <2>2. CASE \E m \in MessageRow : messages = <<m>> /\ ~IsOutcome(m)
      <3>1. PICK m \in MessageRow : messages = <<m>> /\ ~IsOutcome(m)
        BY <2>2
      <3>2. chat_messages'[t] = Append(Append(chat_messages[t], said), m)
        <4>1. chat_messages'[t] = chat_messages[t] \o (<<said>> \o <<m>>)
          BY <1>1, <3>1
        <4>2. /\ chat_messages[t] \in Seq(MessageRow)
              /\ said \in MessageRow /\ m \in MessageRow
          BY <1>1
        <4>3. QED
          BY <4>1, <4>2, ConcatTwo
      <3>3. QED
        BY <1>3, <3>1, <3>2, AppendNoOutcome
    <2>3. QED
      BY <2>1, <2>2
  <1>5. QED
    BY <1>1, <1>2, <1>4, RewrittenGoesOn

LEMMA AnswerMoves ==
  ASSUME SafeInv, NEW h \in Handlers,
         AnswerResolves(h) \/ AnswerAsksAgain(h) \/ AnswerOther(h)
  PROVE  TaskMoves
  <1> DEFINE t == handler[h].task
             v == handler[h].version
             old == handler[h].row
  <1>0. handler[h].op = "answer"
    BY DEF AnswerResolves, AnswerAsksAgain, AnswerOther, WriteAnswer
  <1>1. t \in Tasks /\ v \in Nat /\ old \in Row
    BY <1>0, BusyHandler DEF SafeInv
  <1>2. CASE AnswerResolves(h)
    <2> DEFINE moves == [old EXCEPT !.status = "RUNNING", !.stage = "LOGICAL_DSL",
                                    !.clarification = NoClarification,
                                    !.logical_dsl = TRUE]
               m == Message("resolved_question", 0)
    <2>1. /\ moves \in Row /\ moves.status = "RUNNING"
          /\ moves.clarification = NoClarification
      BY <1>1, ConstantTypes DEF Row, Status, Stage
    <2>2. m \in MessageRow /\ ~IsOutcome(m)
      BY DEF Message, MessageRow, MessageKinds, OutcomeKinds, IsOutcome
    <2>3. WriteAnswer(h, moves, <<m>>)
      BY <1>2 DEF AnswerResolves
    <2> HIDE DEF moves, m
    <2>4. QED
      BY <2>1, <2>2, <2>3, <<m>> \in Seq(MessageRow), AnswerMovesOn
  <1>3. CASE AnswerOther(h)
    <2> DEFINE moves == [old EXCEPT !.status = "RUNNING", !.stage = "VALIDATION",
                                    !.clarification = NoClarification]
    <2>1. /\ moves \in Row /\ moves.status = "RUNNING"
          /\ moves.clarification = NoClarification
      BY <1>1, ConstantTypes DEF Row, Status, Stage
    <2>2. WriteAnswer(h, moves, <<>>)
      BY <1>3 DEF AnswerOther
    <2> HIDE DEF moves
    <2>3. QED
      BY <2>1, <2>2, EmptySeq, AnswerMovesOn
  <1>4. CASE AnswerAsksAgain(h)
    <2> DEFINE question == NewClarification(v, "semantic_slots")
               moves == [old EXCEPT !.status = "WAITING_USER", !.stage = "CLARIFICATION",
                                    !.clarification = question,
                                    !.logical_dsl = FALSE]
               m == Message("clarification", question.id)
               said == Message("clarification_answer", old.clarification.id)
    <2>1. question \in Clarification
      BY <1>1 DEF NewClarification, Clarification
    <2>2. /\ moves \in Row /\ moves.status = "WAITING_USER"
          /\ moves.stage = "CLARIFICATION"
          /\ moves.clarification = NewClarification(v, "semantic_slots")
      BY <1>1, <2>1 DEF Row, Status, Stage
    <2>3. m \in MessageRow
      BY <2>1 DEF Message, MessageRow, MessageKinds, Clarification
    <2>4. WriteAnswer(h, moves, <<m>>)
      BY <1>4 DEF AnswerAsksAgain
    <2> DEFINE messages == <<m>>
    <2>a. messages \in Seq(MessageRow) /\ WriteAnswer(h, moves, messages)
      BY <2>3, <2>4
    <2> HIDE DEF moves, messages
    <2>5. /\ query_tasks[t].status \in {"RUNNING", "WAITING_USER"}
          /\ NoOutcomeIn(chat_messages[t])
          /\ said \in MessageRow /\ ~IsOutcome(said)
          /\ chat_messages[t] \in Seq(MessageRow)
          /\ chat_messages'[t] = chat_messages[t] \o (<<said>> \o messages)
          /\ \A u \in Tasks \ {t} : chat_messages'[u] = chat_messages[u]
          /\ issued' = issued
      BY <2>2, <2>a, AnswerWritten
    <2>6. PICK row \in Row :
            /\ UpdateOptimistically(t, v, row)
            /\ row.status = moves.status /\ row.stage = moves.stage
            /\ row.clarification = moves.clarification
      BY <2>2, <2>a, AnswerWritten
    <2> HIDE DEF t, v, said
    <2>7. chat_messages'[t] = Append(Append(chat_messages[t], said),
                                     Message("clarification", row.clarification.id))
      <3>1. m = Message("clarification", row.clarification.id)
        BY <2>2, <2>6 DEF v
      <3> HIDE DEF m
      <3>2. QED
        BY <2>3, <2>5, <3>1, ConcatTwo DEF messages
    <2>8. /\ Append(chat_messages[t], said) \in Seq(MessageRow)
          /\ NoOutcomeIn(Append(chat_messages[t], said))
      BY <2>5, AppendNoOutcome
    <2>9. QED
      BY <1>1, <2>2, <2>5, <2>6, <2>7, <2>8, AskedWaits
  <1>5. QED
    BY <1>2, <1>3, <1>4

LEMMA CancelMoves ==
  ASSUME SafeInv, NEW h \in Handlers, Cancel(h)
  PROVE  TaskMoves
  <1> DEFINE t == handler[h].task
             v == handler[h].version
             old == handler[h].row
             new == [old EXCEPT !.status = "CANCELLED", !.stage = "CLARIFICATION",
                                !.clarification = NoClarification]
  <1>1. handler[h].op = "cancel"
    BY DEF Cancel
  <1>2. t \in Tasks /\ old \in Row
    BY <1>1, BusyHandler DEF SafeInv
  <1>3. UpdateOptimistically(t, v, new) /\ UNCHANGED <<issued, chat_messages>>
    BY DEF Cancel
  <1>4. query_tasks[t].status \in {"RUNNING", "WAITING_USER"}
    BY <1>1, <1>3, UnlockedSnapshot DEF UpdateOptimistically, StillCurrent
  <1>5. /\ new \in Row /\ new.status = "CANCELLED"
        /\ new.clarification = NoClarification
    BY <1>2, ConstantTypes DEF Row, Status, Stage
  <1>6. NoOutcomeIn(chat_messages'[t])
    BY <1>2, <1>3, <1>4, ActiveTask
  <1> HIDE DEF t, v, new
  <1>7. QED
    BY <1>2, <1>3, <1>4, <1>5, <1>6, RewrittenGoesOn

LEMMA RequestClarificationMoves ==
  ASSUME SafeInv, NEW h \in Handlers, RequestClarification(h)
  PROVE  TaskMoves
  <1> DEFINE work == handler[h]
             t == work.task
             v == work.version
             old == work.row
             question == NewClarification(v, "manual")
             m == Message("clarification", question.id)
             new == [old EXCEPT !.status = "WAITING_USER", !.stage = "CLARIFICATION",
                                !.clarification = question,
                                !.processed = RecordProcessedRequest(@, work.request)]
  <1>1. work.op = "request"
    BY DEF RequestClarification
  <1>2. t \in Tasks /\ v \in Nat /\ old \in Row /\ work.request \in Requests
    BY <1>1, BusyHandler DEF SafeInv
  <1>3. /\ UpdateOptimistically(t, v, new)
        /\ AddMessages(t, <<m>>)
        /\ issued' = issued
    BY DEF RequestClarification
  <1>4. query_tasks[t].status \in {"RUNNING", "WAITING_USER"}
    BY <1>1, <1>3, UnlockedSnapshot DEF UpdateOptimistically, StillCurrent
  <1>5. question \in Clarification
    BY <1>2 DEF NewClarification, Clarification
  <1>6. RecordProcessedRequest(old.processed, work.request) \in Seq(Requests)
    BY <1>2, RecordType DEF Row
  <1>7. /\ new \in Row /\ new.status = "WAITING_USER"
        /\ new.stage = "CLARIFICATION"
        /\ new.clarification = NewClarification(v, "manual")
    BY <1>2, <1>5, <1>6 DEF Row, Status, Stage
  <1>8. m \in MessageRow
    BY <1>5 DEF Message, MessageRow, MessageKinds, Clarification
  <1>9. /\ chat_messages[t] \in Seq(MessageRow)
        /\ chat_messages'[t] = chat_messages[t] \o <<m>>
        /\ \A u \in Tasks \ {t} : chat_messages'[u] = chat_messages[u]
    BY <1>2, <1>3, SaidMessages DEF SafeInv
  <1>10. chat_messages'[t] =
           Append(chat_messages[t], Message("clarification", new.clarification.id))
    BY <1>7, <1>8, <1>9, ConcatTwo
  <1>11. NoOutcomeIn(chat_messages[t])
    BY <1>2, <1>4, ActiveTask
  <1> HIDE DEF t, v, new
  <1>12. QED
    BY <1>2, <1>3, <1>4, <1>7, <1>9, <1>10, <1>11, AskedWaits

LEMMA ExecuteMoves ==
  ASSUME SafeInv, NEW h, NEW t \in Tasks, NEW v \in 0..MaxVersion, NEW r \in Requests,
         ExecutePrepare(h, t, v, r) \/ ExecutePlanFails(t, v, r)
  PROVE  TaskMoves
  <1> DEFINE row == query_tasks[t]
             run == Len(query_runs) + 1
  <1>1. row \in Row /\ run \in Nat
    BY DEF SafeInv, TypeInv, TypeOK
  <1>2. row.status = "RUNNING"
    BY ExecutableIsRunning DEF ExecutePrepare, ExecutePlanFails, MayExecute
  <1>3. NoOutcomeIn(chat_messages[t]) /\ row.clarification = NoClarification
    BY <1>2, ActiveTask
  <1>4. CASE ExecutePrepare(h, t, v, r)
    <2> DEFINE execution == [request_id |-> r, run_id |-> run, status |-> "running"]
               new == [row EXCEPT !.status = "RUNNING", !.stage = "EXECUTION",
                                  !.execution = execution]
    <2>1. execution \in Execution
      BY <1>1 DEF Execution, RunStatus
    <2>2. /\ new \in Row /\ new.status = "RUNNING"
          /\ new.clarification = row.clarification
      BY <1>1, <2>1 DEF Row, Status, Stage
    <2>3. UpdateOptimistically(t, v, new) /\ UNCHANGED <<issued, chat_messages>>
      BY <1>4 DEF ExecutePrepare
    <2> HIDE DEF new
    <2>4. QED
      BY <1>2, <1>3, <2>2, <2>3, RewrittenGoesOn
  <1>5. CASE ExecutePlanFails(t, v, r)
    <2>1. PICK status \in {"failed", "unsupported"} :
            UpdateOptimistically(t, v,
              [row EXCEPT !.status = "FAILED",
                          !.execution = [request_id |-> r, run_id |-> run,
                                         status |-> status]])
      BY <1>5 DEF ExecutePlanFails
    <2> DEFINE execution == [request_id |-> r, run_id |-> run, status |-> status]
               new == [row EXCEPT !.status = "FAILED", !.execution = execution]
               m == Message("query_result", run)
    <2>2. execution \in Execution
      BY <1>1 DEF Execution, RunStatus
    <2>3. /\ new \in Row /\ new.status = "FAILED"
          /\ new.clarification = row.clarification
      BY <1>1, <2>2 DEF Row, Status
    <2>4. m \in MessageRow /\ IsOutcome(m)
      BY <1>1 DEF Message, MessageRow, MessageKinds, OutcomeKinds, IsOutcome
    <2>5. AddMessages(t, <<m>>) /\ issued' = issued
      BY <1>5 DEF ExecutePlanFails
    <2> HIDE DEF m
    <2>6. QED
      BY <1>2, <2>1, <2>3, <2>4, <2>5, ToldSettles
  <1>6. QED
    BY <1>4, <1>5

LEMMA FinishMoves ==
  ASSUME SafeInv, NEW h \in Handlers, NEW runStatus \in RunStatus,
         NEW status \in {"SUCCEEDED", "FAILED"}, NEW stage \in Stage,
         Finish(h, runStatus, status, stage)
  PROVE  TaskMoves
  <1> DEFINE work == handler[h]
             t == work.task
             row == query_tasks[t]
             execution == [request_id |-> work.request, run_id |-> work.run,
                           status |-> runStatus]
             new == [row EXCEPT !.status = status, !.stage = stage,
                                !.execution = execution]
             m == Message("query_result", work.run)
  <1>1. work.op = "execute" /\ StillCurrent(h)
    BY DEF Finish
  <1>2. /\ t \in Tasks /\ row \in Row
        /\ work.request \in Requests /\ work.run \in Nat
    BY <1>1, BusyHandler DEF SafeInv
  <1>3. row.status = "RUNNING"
    BY <1>1 DEF SafeInv, SnapshotsHold, SnapshotHolds
  <1>4. execution \in Execution
    BY <1>2 DEF Execution
  <1>5. /\ new \in Row /\ new.status = status
        /\ new.clarification = row.clarification
    BY <1>2, <1>4 DEF Row, Status
  <1>6. m \in MessageRow /\ IsOutcome(m)
    BY <1>2 DEF Message, MessageRow, MessageKinds, OutcomeKinds, IsOutcome
  <1>7. /\ UpdateOptimistically(t, work.version, new)
        /\ AddMessages(t, <<m>>)
        /\ issued' = issued
    BY DEF Finish
  <1> HIDE DEF new, m
  <1>8. QED
    BY <1>2, <1>3, <1>5, <1>6, <1>7, ToldSettles

LEMMA DeleteMoves ==
  ASSUME SafeInv, NEW c \in Conversations, DeleteConversation(c)
  PROVE  TaskMoves
  <1>1. ASSUME NEW t \in Tasks
        PROVE  Untouched(t) \/ Removed(t)
    BY DEF DeleteConversation, Untouched, Removed, SafeInv, TypeInv, TypeOK
  <1>2. QED
    BY <1>1 DEF DeleteConversation, TaskMoves

\* Part 1, put together.
LEMMA TaskStep == SafeInv /\ [Next]_vars => TaskMoves
  <1> SUFFICES ASSUME SafeInv, [Next]_vars PROVE TaskMoves
    OBVIOUS
  <1>1. ASSUME NEW t \in Tasks, NEW r \in Requests, SubmitQuestion(t, r)
        PROVE  TaskMoves
    BY <1>1, SubmitMoves
  <1>2. ASSUME NEW h \in Handlers, NEW t \in Tasks, NEW v \in 0..MaxVersion,
               BeginAnalyze(h, t, v) \/ BeginCancel(h, t, v)
        PROVE  TaskMoves
    BY <1>2, NothingMoves DEF BeginAnalyze, BeginCancel
  <1>3. ASSUME NEW h \in Handlers, NEW t \in Tasks, NEW v \in 0..MaxVersion,
               NEW r \in Requests,
               BeginAnswer(h, t, v, r) \/ BeginRequestClarification(h, t, v, r)
        PROVE  TaskMoves
    BY <1>3, NothingMoves DEF BeginAnswer, BeginRequestClarification
  <1>4. ASSUME NEW h \in Handlers, NEW t \in Tasks, NEW v \in 0..MaxVersion,
               NEW r \in Requests, ExecutePrepare(h, t, v, r)
        PROVE  TaskMoves
    BY <1>4, ExecuteMoves
  <1>5. ASSUME NEW t \in Tasks, NEW v \in 0..MaxVersion, NEW r \in Requests,
               ExecutePlanFails(t, v, r)
        PROVE  TaskMoves
    BY <1>5, ExecuteMoves
  <1>6. ASSUME NEW c \in Conversations, DeleteConversation(c)
        PROVE  TaskMoves
    BY <1>6, DeleteMoves
  <1>7. ASSUME NEW h \in Handlers, Complete(h)
        PROVE  TaskMoves
    <2>1. CASE AnalyzeReady(h) \/ AnalyzeAsks(h) \/ AnalyzeFails(h) \/ AnalyzeOutOfScope(h)
      BY <2>1, AnalyzeMoves
    <2>2. CASE AnswerResolves(h) \/ AnswerAsksAgain(h) \/ AnswerOther(h)
      BY <2>2, AnswerMoves
    <2>3. CASE Cancel(h)
      BY <2>3, CancelMoves
    <2>4. CASE RequestClarification(h)
      BY <2>4, RequestClarificationMoves
    <2>5. CASE FinishSuccess(h)
      BY <2>5, FinishMoves DEF FinishSuccess, RunStatus, Stage
    <2>6. CASE FinishFailure(h)
      BY <2>6, FinishMoves DEF FinishFailure, RunStatus, Stage
    <2>7. CASE Rejected(h)
      BY <2>7, NothingMoves DEF Rejected
    <2>8. QED
      BY <1>7, <2>1, <2>2, <2>3, <2>4, <2>5, <2>6, <2>7 DEF Complete
  <1>8. ASSUME NEW h \in Handlers, Crash(h)
        PROVE  TaskMoves
    BY <1>8, NothingMoves DEF Crash
  <1>9. CASE UNCHANGED vars
    BY <1>9, NothingMoves DEF vars
  <1>10. QED
    BY <1>1, <1>2, <1>3, <1>4, <1>5, <1>6, <1>7, <1>8, <1>9 DEF Next, ClientRequest

-------------------------------------------------------------------------------
(* Part 2: the snapshots of the handlers *)

\* A handler that does not move itself is not disturbed: the row it works on is
\* the same, or gone, or has a version it does not know.
LEMMA Undisturbed ==
  ASSUME SafeInv, TaskMoves, NEW h \in Handlers, handler'[h] = handler[h]
  PROVE  NotAhead(h)' /\ SnapshotHolds(h)'
  <1> DEFINE t == handler[h].task
  <1>1. CASE handler[h].op = "idle"
    BY <1>1 DEF NotAhead, SnapshotHolds
  <1>2. CASE handler[h].op # "idle"
    <2>1. /\ t \in Tasks /\ handler[h].version \in Nat
          /\ query_tasks[t].version \in Nat
      <3>1. /\ t \in Tasks /\ handler[h].version \in Nat
            /\ query_tasks[t] \in Row
        BY <1>2, BusyHandler DEF SafeInv
      <3>2. query_tasks[t].version \in 0..MaxVersion
        BY <3>1 DEF Row
      <3>3. QED
        BY <3>1, <3>2, BoundsAssumption
    <2>2. /\ t \in issued
          /\ Exists(t) => handler[h].version <= query_tasks[t].version
      BY <1>2 DEF SafeInv, Known, NotAhead
    <2>3. t \in issued'
      BY <2>2 DEF TaskMoves
    <2>4. CASE Untouched(t)
      <3>1. query_tasks'[t] = query_tasks[t]
        BY <2>4 DEF Untouched
      <3>2. NotAhead(h)'
        BY <2>2, <2>3, <3>1 DEF NotAhead, Exists
      <3>3. SnapshotHolds(h)
        BY DEF SafeInv, SnapshotsHold
      <3>4. SnapshotHolds(h)'
        BY <3>1, <3>3 DEF SnapshotHolds, StillCurrent, Exists, Analyzable
      <3>5. QED
        BY <3>2, <3>4
    <2>5. CASE Removed(t)
      BY <2>3, <2>5 DEF Removed, NoRow, NotAhead, SnapshotHolds, StillCurrent, Exists
    <2>6. CASE Rewritten(t)
      <3>1. query_tasks'[t].version = query_tasks[t].version + 1 /\ Exists(t)
        BY <2>6 DEF Rewritten
      <3>2. handler[h].version < query_tasks'[t].version
        BY <2>1, <2>2, <3>1
      <3>3. QED
        BY <2>1, <2>3, <3>1, <3>2 DEF NotAhead, SnapshotHolds, StillCurrent, Exists
    <2>7. QED
      BY <2>1, <2>2, <2>4, <2>5, <2>6 DEF TaskMoves, Created
  <1>3. QED
    BY <1>1, <1>2

LEMMA ReturnUndisturbed ==
  ASSUME SafeInv, TaskMoves, NEW h \in Handlers, Return(h)
  PROVE  \A g \in Handlers : NotAhead(g)' /\ SnapshotHolds(g)'
  <1>1. ASSUME NEW g \in Handlers
        PROVE  NotAhead(g)' /\ SnapshotHolds(g)'
    <2>1. CASE g = h
      <3>1. handler'[g] = Idle
        BY <2>1 DEF Return, SafeInv, TypeInv, TypeOK
      <3>2. QED
        BY <3>1 DEF Idle, NotAhead, SnapshotHolds
    <2>2. CASE g # h
      <3>1. handler'[g] = handler[g]
        BY <2>2 DEF Return, SafeInv, TypeInv, TypeOK
      <3>2. QED
        BY <3>1, Undisturbed
    <2>3. QED
      BY <2>1, <2>2
  <1>2. QED
    BY <1>1

\* A handler that begins holds what it has just read.
LEMMA BeginReads ==
  ASSUME SafeInv, TaskMoves, NEW h \in Handlers, NEW t \in Tasks,
         NEW v \in 0..MaxVersion, NEW op, NEW r, NEW row,
         Start(h, Work(op, t, v, r, 0, row)),
         UNCHANGED <<query_tasks, issued>>,
         Exists(t), query_tasks[t].version = v,
         op \in {"analyze", "answer", "cancel", "request"},
         op = "analyze" => Analyzable(t),
         op # "analyze" => row = query_tasks[t],
         op \in {"answer", "cancel"} => query_tasks[t].clarification # NoClarification,
         op = "request" =>
           CanTransition(query_tasks[t].status, query_tasks[t].stage,
                         "WAITING_USER", "CLARIFICATION")
  PROVE  \A g \in Handlers : NotAhead(g)' /\ SnapshotHolds(g)'
  <1>1. t \in issued /\ v \in Nat
    BY BoundsAssumption DEF SafeInv, Known
  <1>2. handler'[h] = [op |-> op, task |-> t, version |-> v, request |-> r,
                       run |-> 0, row |-> row]
    BY DEF Start, Work, SafeInv, TypeInv, TypeOK
  <1>3. NotAhead(h)'
    BY <1>1, <1>2 DEF NotAhead, Exists
  <1>4. SnapshotHolds(h)'
    BY <1>2 DEF SnapshotHolds, StillCurrent, Exists, Analyzable
  <1>5. ASSUME NEW g \in Handlers, g # h
        PROVE  NotAhead(g)' /\ SnapshotHolds(g)'
    <2>1. handler'[g] = handler[g]
      BY <1>5 DEF Start, SafeInv, TypeInv, TypeOK
    <2>2. QED
      BY <2>1, Undisturbed
  <1>6. QED
    BY <1>3, <1>4, <1>5

LEMMA BeginStep ==
  ASSUME SafeInv, TaskMoves, NEW h \in Handlers, NEW t \in Tasks,
         NEW v \in 0..MaxVersion, NEW r,
         \/ BeginAnalyze(h, t, v) \/ BeginCancel(h, t, v)
         \/ BeginAnswer(h, t, v, r) \/ BeginRequestClarification(h, t, v, r)
  PROVE  \A g \in Handlers : NotAhead(g)' /\ SnapshotHolds(g)'
  <1>1. CASE BeginAnalyze(h, t, v)
    BY <1>1, BeginReads DEF BeginAnalyze
  <1>2. CASE BeginCancel(h, t, v)
    BY <1>2, BeginReads DEF BeginCancel
  <1>3. CASE BeginAnswer(h, t, v, r)
    BY <1>3, BeginReads DEF BeginAnswer
  <1>4. CASE BeginRequestClarification(h, t, v, r)
    BY <1>4, BeginReads DEF BeginRequestClarification
  <1>5. QED
    BY <1>1, <1>2, <1>3, <1>4

\* What the transaction of _prepare leaves: the handler holds the version that
\* the transaction wrote.
SqlIsOut(h, t, v, r) ==
  /\ Exists(t) /\ t \in issued /\ v \in Nat /\ query_tasks[t].version = v
  /\ query_tasks'[t].version = v + 1
  /\ query_tasks'[t].status = "RUNNING"
  /\ query_tasks'[t].stage = "EXECUTION"
  /\ query_tasks'[t].execution =
       [request_id |-> r, run_id |-> Len(query_runs) + 1, status |-> "running"]
  /\ handler'[h] =
       [op |-> "execute", task |-> t, version |-> v + 1, request |-> r,
        run |-> Len(query_runs) + 1, row |-> NoRow]
  /\ \A g \in Handlers \ {h} : handler'[g] = handler[g]

LEMMA Prepared ==
  ASSUME SafeInv, NEW h \in Handlers, NEW t \in Tasks, NEW v \in 0..MaxVersion,
         NEW r \in Requests, ExecutePrepare(h, t, v, r)
  PROVE  SqlIsOut(h, t, v, r)
  <1> DEFINE run == Len(query_runs) + 1
             execution == [request_id |-> r, run_id |-> run, status |-> "running"]
             row == [query_tasks[t] EXCEPT !.status = "RUNNING", !.stage = "EXECUTION",
                                           !.execution = execution]
  <1>1. Exists(t) /\ t \in issued /\ v \in Nat /\ query_tasks[t] \in Row /\ run \in Nat
    BY BoundsAssumption
    DEF ExecutePrepare, MayExecute, SafeInv, Known, TypeInv, TypeOK
  <1>2. execution \in Execution
    BY <1>1 DEF Execution, RunStatus
  <1>3. /\ row \in Row /\ row.status = "RUNNING" /\ row.stage = "EXECUTION"
        /\ row.execution = execution
    BY <1>1, <1>2 DEF Row, Status, Stage
  <1>4. UpdateOptimistically(t, v, row)
    BY DEF ExecutePrepare
  <1> HIDE DEF row
  <1>5. query_tasks'[t] = [row EXCEPT !.version = v + 1] /\ query_tasks[t].version = v
    BY <1>3, <1>4, UpdatedRow DEF SafeInv
  <1>6. /\ query_tasks'[t].version = v + 1
        /\ query_tasks'[t].status = "RUNNING"
        /\ query_tasks'[t].stage = "EXECUTION"
        /\ query_tasks'[t].execution = execution
    BY <1>3, <1>5 DEF Row
  <1>7. /\ handler'[h] = [op |-> "execute", task |-> t, version |-> v + 1,
                          request |-> r, run |-> run, row |-> NoRow]
        /\ \A g \in Handlers \ {h} : handler'[g] = handler[g]
    BY DEF ExecutePrepare, Start, Work, SafeInv, TypeInv, TypeOK
  <1>8. QED
    BY <1>1, <1>5, <1>6, <1>7 DEF SqlIsOut

LEMMA PrepareStep ==
  ASSUME SafeInv, TaskMoves, NEW h \in Handlers, NEW t \in Tasks,
         NEW v \in 0..MaxVersion, NEW r \in Requests, ExecutePrepare(h, t, v, r)
  PROVE  \A g \in Handlers : NotAhead(g)' /\ SnapshotHolds(g)'
  <1>0. SqlIsOut(h, t, v, r)
    BY Prepared
  <1>1. /\ v \in Nat /\ t \in issued'
        /\ query_tasks'[t].version = v + 1
        /\ query_tasks'[t].status = "RUNNING"
        /\ query_tasks'[t].stage = "EXECUTION"
        /\ handler'[h].op = "execute" /\ handler'[h].task = t
        /\ handler'[h].version = v + 1
        /\ \A g \in Handlers \ {h} : handler'[g] = handler[g]
    BY <1>0 DEF SqlIsOut, TaskMoves
  <1>2. NotAhead(h)'
    BY <1>1 DEF NotAhead
  <1>3. SnapshotHolds(h)'
    BY <1>1 DEF SnapshotHolds
  <1>4. QED
    BY <1>1, <1>2, <1>3, Undisturbed

LEMMA StillUndisturbed ==
  ASSUME SafeInv, TaskMoves, handler' = handler
  PROVE  \A g \in Handlers : NotAhead(g)' /\ SnapshotHolds(g)'
  BY Undisturbed

\* Part 2, put together.
LEMMA HandlerStep ==
  ASSUME SafeInv, TaskMoves, [Next]_vars
  PROVE  \A g \in Handlers : NotAhead(g)' /\ SnapshotHolds(g)'
  <1> DEFINE Goal == \A g \in Handlers : NotAhead(g)' /\ SnapshotHolds(g)'
  <1>1. ASSUME NEW t \in Tasks, NEW r \in Requests, SubmitQuestion(t, r)
        PROVE  Goal
    BY <1>1, StillUndisturbed DEF SubmitQuestion
  <1>2. ASSUME NEW h \in Handlers, NEW t \in Tasks, NEW v \in 0..MaxVersion,
               BeginAnalyze(h, t, v) \/ BeginCancel(h, t, v)
        PROVE  Goal
    BY <1>2, BeginStep
  <1>3. ASSUME NEW h \in Handlers, NEW t \in Tasks, NEW v \in 0..MaxVersion,
               NEW r \in Requests,
               BeginAnswer(h, t, v, r) \/ BeginRequestClarification(h, t, v, r)
        PROVE  Goal
    BY <1>3, BeginStep
  <1>4. ASSUME NEW h \in Handlers, NEW t \in Tasks, NEW v \in 0..MaxVersion,
               NEW r \in Requests, ExecutePrepare(h, t, v, r)
        PROVE  Goal
    BY <1>4, PrepareStep
  <1>5. ASSUME NEW t \in Tasks, NEW v \in 0..MaxVersion, NEW r \in Requests,
               ExecutePlanFails(t, v, r)
        PROVE  Goal
    BY <1>5, StillUndisturbed DEF ExecutePlanFails
  <1>6. ASSUME NEW c \in Conversations, DeleteConversation(c)
        PROVE  Goal
    BY <1>6, StillUndisturbed DEF DeleteConversation
  <1>7. ASSUME NEW h \in Handlers, Complete(h)
        PROVE  Goal
    <2>1. Return(h)
      BY <1>7
      DEF Complete, AnalyzeReady, AnalyzeAsks, AnalyzeFails, AnalyzeOutOfScope,
          AnswerResolves, AnswerAsksAgain, AnswerOther, WriteAnswer, Cancel,
          RequestClarification, FinishSuccess, FinishFailure, Finish, Rejected
    <2>2. QED
      BY <2>1, ReturnUndisturbed
  <1>8. ASSUME NEW h \in Handlers, Crash(h)
        PROVE  Goal
    BY <1>8, ReturnUndisturbed DEF Crash
  <1>9. CASE UNCHANGED vars
    BY <1>9, StillUndisturbed DEF vars
  <1>10. QED
    BY <1>1, <1>2, <1>3, <1>4, <1>5, <1>6, <1>7, <1>8, <1>9 DEF Next, ClientRequest

-------------------------------------------------------------------------------
(* Part 3: what follows for the rows and the transcripts *)

LEMMA OutcomeStep ==
  ASSUME SafeInv, TaskMoves
  PROVE  OneOutcome'
  <1> DEFINE Silent(t) ==
               /\ NoOutcomeIn(chat_messages'[t])
               /\ query_tasks'[t].status \notin {"SUCCEEDED", "FAILED"}
             TellsOnce(t) ==
               /\ \A i \in DOMAIN chat_messages'[t] :
                    IsOutcome(chat_messages'[t][i]) => i = Len(chat_messages'[t])
               /\ query_tasks'[t].status \in {"SUCCEEDED", "FAILED"}
               /\ chat_messages'[t] # <<>>
               /\ IsOutcome(chat_messages'[t][Len(chat_messages'[t])])
  <1>1. ASSUME NEW t \in Tasks
        PROVE  Untouched(t) \/ Silent(t) \/ TellsOnce(t)
    <2>1. CASE Created(t)
      BY <2>1 DEF Created
    <2>2. CASE Removed(t)
      BY <2>2 DEF Removed, NoRow, NoOutcomeIn
    <2>3. CASE Rewritten(t)
      <3>1. CASE GoesOn(t) \/ Asks(t)
        BY <3>1 DEF GoesOn, Asks
      <3>2. CASE Settles(t)
        <4>1. PICK before \in Seq(MessageRow), m \in MessageRow :
                /\ NoOutcomeIn(before) /\ IsOutcome(m)
                /\ chat_messages'[t] = Append(before, m)
          BY <3>2 DEF Settles
        <4>2. /\ chat_messages'[t] # <<>>
              /\ Len(chat_messages'[t]) = Len(before) + 1
              /\ DOMAIN chat_messages'[t] = 1..(Len(before) + 1)
              /\ chat_messages'[t][Len(before) + 1] = m
              /\ \A i \in 1..Len(before) : chat_messages'[t][i] = before[i]
          BY <4>1, AppendLast
        <4>3. Len(before) \in Nat /\ DOMAIN before = 1..Len(before)
          OBVIOUS
        <4>4. \A i \in 1..Len(before) : ~IsOutcome(chat_messages'[t][i])
          BY <4>1, <4>2, <4>3 DEF NoOutcomeIn
        <4>5. \A i \in 1..(Len(before) + 1) :
                i \in 1..Len(before) \/ i = Len(before) + 1
          BY <4>3
        <4>6. QED
          BY <3>2, <4>1, <4>2, <4>4, <4>5 DEF Settles
      <3>3. QED
        BY <2>3, <3>1, <3>2 DEF Rewritten
    <2>4. QED
      BY <2>1, <2>2, <2>3 DEF TaskMoves
  <1>2. ASSUME NEW t \in Tasks
        PROVE  /\ \A i \in DOMAIN chat_messages'[t] :
                    IsOutcome(chat_messages'[t][i]) =>
                      /\ i = Len(chat_messages'[t])
                      /\ query_tasks'[t].status \in {"SUCCEEDED", "FAILED"}
               /\ query_tasks'[t].status \in {"SUCCEEDED", "FAILED"} =>
                    /\ chat_messages'[t] # <<>>
                    /\ IsOutcome(chat_messages'[t][Len(chat_messages'[t])])
    <2>1. CASE Untouched(t)
      BY <2>1 DEF Untouched, SafeInv, OneOutcome, LastMessage
    <2>2. CASE Silent(t)
      BY <2>2 DEF NoOutcomeIn
    <2>3. CASE TellsOnce(t)
      BY <2>3
    <2>4. QED
      BY <1>1, <2>1, <2>2, <2>3
  <1>3. QED
    BY <1>2 DEF OneOutcome, LastMessage

LEMMA WaitingStep ==
  ASSUME SafeInv, TaskMoves
  PROVE  WaitingMeansAsked'
  <1>1. ASSUME NEW t \in Tasks
        PROVE  LET row == query_tasks'[t] IN
               /\ row.status = "WAITING_USER" <=> row.clarification # NoClarification
               /\ row.status = "WAITING_USER" =>
                    /\ row.stage = "CLARIFICATION"
                    /\ row.clarification.task_version = row.version
                    /\ chat_messages'[t] # <<>>
                    /\ chat_messages'[t][Len(chat_messages'[t])]
                         = Message("clarification", row.clarification.id)
    <2>1. CASE Untouched(t)
      BY <2>1 DEF Untouched, SafeInv, WaitingMeansAsked, LastMessage
    <2>2. CASE Created(t)
      BY <2>2 DEF Created
    <2>3. CASE Removed(t)
      BY <2>3 DEF Removed, NoRow
    <2>4. CASE GoesOn(t) \/ Settles(t)
      BY <2>4 DEF GoesOn, Settles
    <2>5. CASE Asks(t)
      BY <2>5 DEF Asks
    <2>6. QED
      BY <2>1, <2>2, <2>3, <2>4, <2>5 DEF TaskMoves, Rewritten
  <1>2. QED
    BY <1>1 DEF WaitingMeansAsked, LastMessage

LEMMA SafeInit == Init => SafeInv
  <1> SUFFICES ASSUME Init PROVE SafeInv
    OBVIOUS
  <1>1. TypeInv
    BY TypeInit
  <1>2. Known /\ SnapshotsHold
    BY DEF Init, Known, NotAhead, SnapshotsHold, SnapshotHolds, Exists, NoRow, Idle
  <1>3. OneOutcome /\ WaitingMeansAsked
    BY DEF Init, OneOutcome, WaitingMeansAsked, NoRow
  <1>4. QED
    BY <1>1, <1>2, <1>3 DEF SafeInv

LEMMA SafeStep == SafeInv /\ [Next]_vars => SafeInv'
  <1> SUFFICES ASSUME SafeInv, [Next]_vars PROVE SafeInv'
    OBVIOUS
  <1>1. TypeInv'
    BY TypeStep DEF SafeInv
  <1>2. TaskMoves
    BY TaskStep
  <1>3. \A g \in Handlers : NotAhead(g)' /\ SnapshotHolds(g)'
    BY <1>2, HandlerStep
  <1>4. \A t \in Tasks : Exists(t)' => t \in issued'
    BY <1>2 DEF TaskMoves, Untouched, Created, Removed, Rewritten, Exists, NoRow,
                SafeInv, Known
  <1>5. Known' /\ SnapshotsHold'
    BY <1>3, <1>4 DEF Known, SnapshotsHold
  <1>6. OneOutcome' /\ WaitingMeansAsked'
    BY <1>2, OutcomeStep, WaitingStep
  <1>7. QED
    BY <1>1, <1>5, <1>6 DEF SafeInv

LEMMA SafeAlways == Spec => []SafeInv
  BY SafeInit, SafeStep, PTL DEF Spec

-------------------------------------------------------------------------------
(* Who owns an execution *)

\* While a handler keeps its work and its version is accepted after a step, the
\* step left its row alone.
LEMMA CurrentMeansUntouched ==
  ASSUME SafeInv, TaskMoves, NEW h \in Handlers, handler'[h] = handler[h],
         handler[h].op # "idle", StillCurrent(h)'
  PROVE  /\ query_tasks'[handler[h].task] = query_tasks[handler[h].task]
         /\ StillCurrent(h)
  <1> DEFINE t == handler[h].task
  <1>1. t \in Tasks /\ query_tasks[t] \in Row /\ handler[h].version \in Nat
    BY BusyHandler DEF SafeInv
  <1>2. query_tasks[t].version \in 0..MaxVersion
    BY <1>1 DEF Row
  <1>3. /\ t \in issued
        /\ Exists(t) => handler[h].version <= query_tasks[t].version
    BY DEF SafeInv, Known, NotAhead
  <1>4. query_tasks'[t].status # "NONE" /\ query_tasks'[t].version = handler[h].version
    BY DEF StillCurrent, Exists
  <1>5. ~Created(t)
    BY <1>3 DEF Created
  <1>6. ~Removed(t)
    BY <1>4 DEF Removed, NoRow
  <1>7. ~Rewritten(t)
    <2> SUFFICES ASSUME Rewritten(t) PROVE FALSE
      OBVIOUS
    <2>1. query_tasks'[t].version = query_tasks[t].version + 1 /\ Exists(t)
      BY DEF Rewritten
    <2>2. QED
      BY <1>1, <1>2, <1>3, <1>4, <2>1, BoundsAssumption
  <1>8. Untouched(t)
    BY <1>1, <1>5, <1>6, <1>7 DEF TaskMoves
  <1>9. QED
    BY <1>4, <1>8 DEF Untouched, StillCurrent, Exists

\* Only _prepare sends SQL out.
LEMMA OnlyPrepareExecutes ==
  ASSUME SafeInv, [Next]_vars, NEW h \in Handlers,
         handler'[h].op = "execute", handler'[h] # handler[h]
  PROVE  \E t \in Tasks, v \in 0..MaxVersion, r \in Requests : ExecutePrepare(h, t, v, r)
  <1>1. ASSUME NEW t \in Tasks, NEW r \in Requests, SubmitQuestion(t, r)
        PROVE  FALSE
    BY <1>1 DEF SubmitQuestion
  <1>2. ASSUME NEW g \in Handlers, NEW op, NEW t, NEW v, NEW r, NEW row,
               op # "execute", Start(g, Work(op, t, v, r, 0, row))
        PROVE  FALSE
    BY <1>2 DEF Start, Work, SafeInv, TypeInv, TypeOK
  <1>3. ASSUME NEW g \in Handlers, NEW t \in Tasks, NEW v \in 0..MaxVersion,
               BeginAnalyze(g, t, v) \/ BeginCancel(g, t, v)
        PROVE  FALSE
    BY <1>2, <1>3 DEF BeginAnalyze, BeginCancel
  <1>4. ASSUME NEW g \in Handlers, NEW t \in Tasks, NEW v \in 0..MaxVersion,
               NEW r \in Requests,
               BeginAnswer(g, t, v, r) \/ BeginRequestClarification(g, t, v, r)
        PROVE  FALSE
    BY <1>2, <1>4 DEF BeginAnswer, BeginRequestClarification
  <1>5. ASSUME NEW g \in Handlers, NEW t \in Tasks, NEW v \in 0..MaxVersion,
               NEW r \in Requests, ExecutePrepare(g, t, v, r), g # h
        PROVE  FALSE
    <2>1. SqlIsOut(g, t, v, r)
      BY <1>5, Prepared
    <2>2. QED
      BY <1>5, <2>1 DEF SqlIsOut
  <1>6. ASSUME NEW t \in Tasks, NEW v \in 0..MaxVersion, NEW r \in Requests,
               ExecutePlanFails(t, v, r)
        PROVE  FALSE
    BY <1>6 DEF ExecutePlanFails
  <1>7. ASSUME NEW c \in Conversations, DeleteConversation(c)
        PROVE  FALSE
    BY <1>7 DEF DeleteConversation
  <1>8. ASSUME NEW g \in Handlers, Return(g)
        PROVE  FALSE
    BY <1>8 DEF Return, Idle, SafeInv, TypeInv, TypeOK
  <1>9. ASSUME NEW g \in Handlers, Complete(g) \/ Crash(g)
        PROVE  FALSE
    <2>1. Return(g)
      BY <1>9
      DEF Complete, AnalyzeReady, AnalyzeAsks, AnalyzeFails, AnalyzeOutOfScope,
          AnswerResolves, AnswerAsksAgain, AnswerOther, WriteAnswer, Cancel,
          RequestClarification, FinishSuccess, FinishFailure, Finish, Rejected, Crash
    <2>2. QED
      BY <1>8, <2>1
  <1>10. ~UNCHANGED vars
    BY DEF vars
  <1>11. QED
    BY <1>1, <1>3, <1>4, <1>5, <1>6, <1>7, <1>9, <1>10 DEF Next, ClientRequest

LEMMA OwnerStep == SafeInv /\ ExecutorOwnsTask /\ [Next]_vars => ExecutorOwnsTask'
  <1> SUFFICES ASSUME SafeInv, ExecutorOwnsTask, [Next]_vars,
                      NEW h \in Handlers, handler'[h].op = "execute", StillCurrent(h)'
               PROVE  LET work == handler'[h]  row == query_tasks'[work.task] IN
                      /\ row.status = "RUNNING" /\ row.stage = "EXECUTION"
                      /\ row.execution = [request_id |-> work.request,
                                          run_id |-> work.run, status |-> "running"]
                      /\ \A other \in Handlers \ {h} :
                           ~(handler'[other].op = "execute"
                             /\ handler'[other].task = work.task
                             /\ StillCurrent(other)')
    BY DEF ExecutorOwnsTask
  <1>1. TaskMoves
    BY TaskStep
  \* Who starts an execution gives the row a version nobody else knows.
  <1>2. ASSUME NEW g \in Handlers, NEW t \in Tasks, NEW v \in 0..MaxVersion,
               NEW r \in Requests, ExecutePrepare(g, t, v, r),
               NEW other \in Handlers \ {g},
               handler'[other].op = "execute", handler'[other].task = t,
               StillCurrent(other)'
        PROVE  FALSE
    <2>0. SqlIsOut(g, t, v, r)
      BY <1>2, Prepared
    <2>1. /\ handler'[other] = handler[other] /\ v \in Nat
          /\ query_tasks[t].version = v /\ query_tasks'[t].version = v + 1
      BY <2>0 DEF SqlIsOut
    <2>2. query_tasks'[t] = query_tasks[t]
      BY <1>1, <1>2, <2>1, CurrentMeansUntouched
    <2>3. QED
      BY <2>1, <2>2
  <1>3. CASE handler'[h] # handler[h]
    <2>1. PICK t \in Tasks, v \in 0..MaxVersion, r \in Requests :
            ExecutePrepare(h, t, v, r)
      BY <1>3, OnlyPrepareExecutes
    <2>2. SqlIsOut(h, t, v, r)
      BY <2>1, Prepared
    <2>3. handler'[h].task = t
      BY <2>2 DEF SqlIsOut
    <2>4. ASSUME NEW other \in Handlers \ {h},
                 handler'[other].op = "execute", handler'[other].task = t,
                 StillCurrent(other)'
          PROVE  FALSE
      BY <1>2, <2>1, <2>4
    <2>5. QED
      BY <2>2, <2>3, <2>4 DEF SqlIsOut
  <1>4. CASE handler'[h] = handler[h]
    <2> DEFINE t == handler[h].task
    <2>1. query_tasks'[t] = query_tasks[t] /\ StillCurrent(h)
      BY <1>1, <1>4, CurrentMeansUntouched
    <2>2. /\ query_tasks[t].status = "RUNNING" /\ query_tasks[t].stage = "EXECUTION"
          /\ query_tasks[t].execution = [request_id |-> handler[h].request,
                                         run_id |-> handler[h].run,
                                         status |-> "running"]
          /\ \A other \in Handlers \ {h} :
               ~(handler[other].op = "execute" /\ handler[other].task = t
                 /\ StillCurrent(other))
      BY <1>4, <2>1 DEF ExecutorOwnsTask
    <2>3. ASSUME NEW other \in Handlers \ {h},
                 handler'[other].op = "execute", handler'[other].task = t,
                 StillCurrent(other)'
          PROVE  FALSE
      <3>1. CASE handler'[other] = handler[other]
        <4>1. StillCurrent(other)
          BY <1>1, <2>3, <3>1, CurrentMeansUntouched
        <4>2. QED
          BY <2>2, <2>3, <3>1, <4>1
      <3>2. CASE handler'[other] # handler[other]
        <4>1. PICK u \in Tasks, v \in 0..MaxVersion, r \in Requests :
                ExecutePrepare(other, u, v, r)
          BY <2>3, <3>2, OnlyPrepareExecutes
        <4>2. handler'[other].task = u
          <5>1. SqlIsOut(other, u, v, r)
            BY <4>1, Prepared
          <5>2. QED
            BY <5>1 DEF SqlIsOut
        <4>3. QED
          BY <1>2, <1>4, <2>3, <4>1, <4>2
      <3>3. QED
        BY <3>1, <3>2
    <2>4. QED
      BY <1>4, <2>1, <2>2, <2>3
  <1>5. QED
    BY <1>3, <1>4

-------------------------------------------------------------------------------
(* The theorems *)

\* The user is told exactly once how a task ended: whatever the interleaving of
\* analyze, execute, the clarification operations, deletion and crashes.
THEOREM OutcomeToldOnce == Spec => []OneOutcome
  <1>1. SafeInv => OneOutcome
    BY DEF SafeInv
  <1>2. QED
    BY <1>1, SafeAlways, PTL

\* A task waits exactly while the question the user saw last can be answered
\* with the version the row has.
THEOREM WaitsForTheLastQuestion == Spec => []WaitingMeansAsked
  <1>1. SafeInv => WaitingMeansAsked
    BY DEF SafeInv
  <1>2. QED
    BY <1>1, SafeAlways, PTL

\* A handler that passes the version check of its closing transaction works on
\* exactly the row it decided on.
THEOREM DecisionsStayValid == Spec => []SnapshotsHold
  <1>1. SafeInv => SnapshotsHold
    BY DEF SafeInv
  <1>2. QED
    BY <1>1, SafeAlways, PTL

\* A task that has ended is never written again; it can only be deleted.
THEOREM EndedTasksAreFinal == Spec => TerminalIsFinal
  <1>1. SafeInv /\ [Next]_vars =>
          [\A t \in Tasks :
             (query_tasks[t].status \in TerminalStatus /\ Exists(t)') =>
               UNCHANGED <<query_tasks[t], chat_messages[t]>>]_vars
    <2> SUFFICES ASSUME SafeInv, [Next]_vars, NEW t \in Tasks,
                        query_tasks[t].status \in TerminalStatus, Exists(t)'
                 PROVE  UNCHANGED <<query_tasks[t], chat_messages[t]>>
      OBVIOUS
    <2>1. t \in issued
      BY DEF TerminalStatus, SafeInv, Known, Exists
    <2>2. Untouched(t) \/ Created(t) \/ Removed(t) \/ Rewritten(t)
      BY TaskStep DEF TaskMoves
    <2>3. QED
      BY <2>1, <2>2
      DEF Untouched, Created, Removed, Rewritten, NoRow, Exists, TerminalStatus
  <1>2. QED
    BY <1>1, SafeAlways, PTL DEF Spec, TerminalIsFinal

\* Every change of a row or a transcript raises the version of the row by one.
THEOREM VersionsCoverWrites == Spec => VersionCoversEveryWrite
  <1>1. SafeInv /\ [Next]_vars =>
          [\A t \in Tasks :
             (/\ Exists(t) /\ Exists(t)'
              /\ <<query_tasks[t], chat_messages[t]>>'
                   # <<query_tasks[t], chat_messages[t]>>) =>
               query_tasks[t]'.version = query_tasks[t].version + 1]_vars
    <2> SUFFICES ASSUME SafeInv, [Next]_vars, NEW t \in Tasks,
                        Exists(t), Exists(t)', ~Untouched(t)
                 PROVE  query_tasks'[t].version = query_tasks[t].version + 1
      BY DEF Untouched
    <2>1. t \in issued
      BY DEF SafeInv, Known
    <2>2. Created(t) \/ Removed(t) \/ Rewritten(t)
      BY TaskStep DEF TaskMoves
    <2>3. QED
      BY <2>1, <2>2 DEF Created, Removed, Rewritten, NoRow, Exists
  <1>2. QED
    BY <1>1, SafeAlways, PTL DEF Spec, VersionCoversEveryWrite

\* Of the handlers whose SQL is out for one task at most one can still close it,
\* and it works on the run the task names.
THEOREM ExecutionHasOneOwner == Spec => []ExecutorOwnsTask
  <1>1. Init => ExecutorOwnsTask
    BY DEF Init, ExecutorOwnsTask, Idle
  <1>2. QED
    BY <1>1, OwnerStep, SafeAlways, PTL DEF Spec

-------------------------------------------------------------------------------
(* Executions and answers of QueryTask *)

\* No task is ever left RUNNING in a stage other than these.  SLOT_EXTRACTION,
\* which _require_analyzable also admits, is written by nobody: from there a
\* failing analysis could move a task backwards.
RunningStage == {"INTENT_ROUTING", "LOGICAL_DSL", "VALIDATION", "EXECUTION"}

RunningStages ==
  \A t \in Tasks : query_tasks[t].status = "RUNNING" => query_tasks[t].stage \in RunningStage

\* What the reading of a step rests on.
BaseInv == SafeInv /\ ExecutorOwnsTask /\ RunningStages

-------------------------------------------------------------------------------
(* Part 4: the kinds of step *)

NoAnswerIn(messages) ==
  \A i \in DOMAIN messages : messages[i].kind # "clarification_answer"

\* The pair of status and stage moves as the tables allow, or an analysis fails
\* with the stage _model_failure_stage names.
LegalMove(t) ==
  LET row == query_tasks[t]  new == query_tasks'[t] IN
  \/ CanTransition(row.status, row.stage, new.status, new.stage)
  \/ /\ row.status = "RUNNING" /\ row.stage = "INTENT_ROUTING"
     /\ new.status = "FAILED" /\ new.stage = "ENTITY_RESOLUTION"

\* The step rewrites task t, legally, and touches no other.
Alone(t) ==
  /\ issued' = issued
  /\ Rewritten(t)
  /\ \A u \in Tasks \ {t} : Untouched(u)
  /\ LegalMove(t)
  /\ query_tasks'[t].status = "RUNNING" => query_tasks'[t].stage \in RunningStage

\* A new task.
Submitted(t) ==
  /\ t \notin issued /\ issued' = issued \cup {t}
  /\ query_tasks'[t].status = "RUNNING"
  /\ query_tasks'[t].stage = "INTENT_ROUTING"
  /\ query_tasks'[t].execution = NoExecution
  /\ query_tasks'[t].clarification = NoClarification
  /\ chat_messages'[t] = chat_messages[t] \o <<Message("question", 0)>>
  /\ \A u \in Tasks \ {t} : Untouched(u)
  /\ query_runs' = query_runs

\* The task is moved without being answered or executed; an analysis that ends
\* it logs a run under no request id.
Moved(t) ==
  LET row == query_tasks[t]  new == query_tasks'[t] IN
  /\ Alone(t)
  /\ new.execution = row.execution /\ new.answers = row.answers
  /\ new.clarification.id = new.clarification.task_version
  /\ \E said \in Seq(MessageRow) :
       NoAnswerIn(said) /\ chat_messages'[t] = chat_messages[t] \o said
  /\ \/ query_runs' = query_runs
     \/ \E status \in {"failed", "success", "unsupported"} :
          query_runs' = Append(query_runs, Run(t, NoRequest, status))

\* The active clarification is answered.
Answered(t) ==
  LET row == query_tasks[t]  new == query_tasks'[t]  id == row.clarification.id IN
  /\ Alone(t)
  /\ row.clarification # NoClarification
  /\ new.execution = row.execution
  /\ \E r \in Requests : new.answers = Append(row.answers, [id |-> id, request_id |-> r])
  /\ new.clarification.id = new.clarification.task_version
  /\ \E said \in Seq(MessageRow) :
       /\ NoAnswerIn(said)
       /\ chat_messages'[t] =
            chat_messages[t] \o (<<Message("clarification_answer", id)>> \o said)
  /\ query_runs' = query_runs

\* A run is registered under key r, in the row and in query_runs.
Registered(t, r, status) ==
  LET row == query_tasks[t]  new == query_tasks'[t] IN
  /\ Alone(t)
  /\ ~IsLastExecution(row, r)
  /\ new.answers = row.answers /\ new.clarification = row.clarification
  /\ new.execution = [request_id |-> r, run_id |-> Len(query_runs) + 1, status |-> status]
  /\ \E said \in Seq(MessageRow) :
       NoAnswerIn(said) /\ chat_messages'[t] = chat_messages[t] \o said
  /\ query_runs' = Append(query_runs, Run(t, r, status))

\* The run the row names is closed, in the row and in query_runs.
Closed(t, status) ==
  LET row == query_tasks[t]  new == query_tasks'[t]  run == row.execution.run_id
      m == Message("query_result", run)
  IN
  /\ Alone(t)
  /\ row.execution.status = "running"
  /\ new.answers = row.answers /\ new.clarification = row.clarification
  /\ new.execution = [row.execution EXCEPT !.status = status]
  /\ status = "succeeded" => new.status = "SUCCEEDED"
  /\ m \in MessageRow
  /\ chat_messages'[t] = Append(chat_messages[t], m)
  /\ query_runs' = [query_runs EXCEPT ![run].status = status]

\* A conversation goes with its tasks.
Forgotten(gone) ==
  /\ gone # {} /\ issued' = issued
  /\ \A t \in gone : Exists(t) /\ Removed(t)
  /\ \A t \in Tasks \ gone : Untouched(t)
  /\ query_runs' =
       [i \in DOMAIN query_runs |->
          IF query_runs[i].task_id \in gone
          THEN [query_runs[i] EXCEPT !.task_id = NoTask]
          ELSE query_runs[i]]

StepKind ==
  \/ UNCHANGED <<query_tasks, chat_messages, issued, query_runs>>
  \/ \E t \in Tasks : Submitted(t) \/ Moved(t) \/ Answered(t)
  \/ \E t \in Tasks, r \in Requests, status \in {"running", "failed", "unsupported"} :
       Registered(t, r, status)
  \/ \E t \in Tasks, status \in {"succeeded", "failed"} : Closed(t, status)
  \/ \E gone \in SUBSET Tasks : Forgotten(gone)

-------------------------------------------------------------------------------
(* What an optimistic update leaves, as the fields of the row *)

LEMMA WrittenRow ==
  ASSUME SafeInv, TaskMoves, NEW t \in Tasks, NEW v, NEW row \in Row,
         UpdateOptimistically(t, v, row), row.status # "NONE", issued' = issued
  PROVE  /\ Rewritten(t)
         /\ \A u \in Tasks \ {t} : query_tasks'[u] = query_tasks[u]
         /\ query_tasks'[t].status = row.status
         /\ query_tasks'[t].stage = row.stage
         /\ query_tasks'[t].clarification = row.clarification
         /\ query_tasks'[t].execution = row.execution
         /\ query_tasks'[t].answers = row.answers
  <1>1. /\ Exists(t) /\ query_tasks[t].version = v
        /\ query_tasks'[t] = [row EXCEPT !.version = v + 1]
        /\ \A u \in Tasks \ {t} : query_tasks'[u] = query_tasks[u]
    BY UpdatedRow DEF SafeInv
  <1>2. /\ query_tasks'[t].status = row.status
        /\ query_tasks'[t].stage = row.stage
        /\ query_tasks'[t].clarification = row.clarification
        /\ query_tasks'[t].execution = row.execution
        /\ query_tasks'[t].answers = row.answers
        /\ query_tasks'[t].version = v + 1
    BY <1>1 DEF Row
  <1>3. v \in Nat
    <2>1. query_tasks[t] \in Row
      BY DEF SafeInv, TypeInv, TypeOK
    <2>2. QED
      BY <1>1, <2>1, BoundsAssumption DEF Row
  <1>4. query_tasks'[t].version # query_tasks[t].version
    <2>1. query_tasks[t].version = v /\ query_tasks'[t].version = v + 1
      BY <1>1, <1>2
    <2>2. QED
      BY <1>3, <2>1
  <1>5. ~Created(t)
    BY DEF Created
  <1>6. ~Removed(t)
    BY <1>2 DEF Removed, NoRow
  <1>7. Rewritten(t)
    BY <1>4, <1>5, <1>6 DEF TaskMoves, Untouched
  <1>8. QED
    BY <1>1, <1>2, <1>7

\* A write of one task that also keeps the other transcripts, and is legal.
LEMMA WritesAlone ==
  ASSUME SafeInv, TaskMoves, NEW t \in Tasks, NEW v, NEW row \in Row,
         UpdateOptimistically(t, v, row), issued' = issued,
         \A u \in Tasks \ {t} : chat_messages'[u] = chat_messages[u],
         \/ CanTransition(query_tasks[t].status, query_tasks[t].stage,
                          row.status, row.stage)
         \/ /\ query_tasks[t].status = "RUNNING"
            /\ query_tasks[t].stage = "INTENT_ROUTING"
            /\ row.status = "FAILED" /\ row.stage = "ENTITY_RESOLUTION",
         row.status = "RUNNING" => row.stage \in RunningStage
  PROVE  /\ Alone(t)
         /\ query_tasks'[t].clarification = row.clarification
         /\ query_tasks'[t].execution = row.execution
         /\ query_tasks'[t].answers = row.answers
  <1>1. row.status # "NONE"
    BY DEF CanTransition, Status, StatusSuccessors
  <1>2. /\ Rewritten(t)
        /\ \A u \in Tasks \ {t} : query_tasks'[u] = query_tasks[u]
        /\ query_tasks'[t].status = row.status
        /\ query_tasks'[t].stage = row.stage
        /\ query_tasks'[t].clarification = row.clarification
        /\ query_tasks'[t].execution = row.execution
        /\ query_tasks'[t].answers = row.answers
    BY <1>1, WrittenRow
  <1>3. LegalMove(t)
    BY <1>2 DEF LegalMove
  <1>4. QED
    BY <1>2, <1>3 DEF Alone, Untouched

-------------------------------------------------------------------------------
(* Entries of the tables *)

LEMMA TableEntries ==
  /\ {"SUCCEEDED", "FAILED", "WAITING_USER"} \subseteq StatusSuccessors["RUNNING"]
  /\ {"SLOT_EXTRACTION", "VALIDATION", "CLARIFICATION", "LOGICAL_DSL",
      "RESULT_FORMATTING"} \subseteq StageSuccessors["INTENT_ROUTING"]
  /\ "RESULT_FORMATTING" \in StageSuccessors["EXECUTION"]
  <1>1. /\ "RUNNING" \in Status
        /\ "INTENT_ROUTING" \in Stage /\ "EXECUTION" \in Stage
    BY DEF Status, Stage
  <1>2. StatusSuccessors["RUNNING"] =
          {"WAITING_USER", "SUCCEEDED", "FAILED", "CANCELLED", "EXPIRED"}
    BY <1>1 DEF StatusSuccessors
  <1>3. StageSuccessors["INTENT_ROUTING"] =
          {"SLOT_EXTRACTION", "VALIDATION", "CLARIFICATION", "LOGICAL_DSL",
           "RESULT_FORMATTING"}
    BY <1>1 DEF StageSuccessors
  <1>4. StageSuccessors["EXECUTION"] = {"RESULT_FORMATTING"}
    BY <1>1 DEF StageSuccessors
  <1>5. QED
    BY <1>2, <1>3, <1>4

\* Where a task that is being analysed can go.
LEMMA FromRouting ==
  ASSUME NEW status, NEW stage,
         \/ status = "RUNNING" /\ stage = "LOGICAL_DSL"
         \/ status = "WAITING_USER" /\ stage = "CLARIFICATION"
         \/ status = "SUCCEEDED" /\ stage = "RESULT_FORMATTING"
         \/ status = "FAILED" /\ stage \in {"INTENT_ROUTING", "SLOT_EXTRACTION", "VALIDATION"}
  PROVE  CanTransition("RUNNING", "INTENT_ROUTING", status, stage)
  BY TableEntries DEF CanTransition, Status, Stage

\* How a task whose SQL is out can end.
LEMMA FromExecution ==
  /\ CanTransition("RUNNING", "EXECUTION", "SUCCEEDED", "RESULT_FORMATTING")
  /\ CanTransition("RUNNING", "EXECUTION", "FAILED", "EXECUTION")
  BY TableEntries DEF CanTransition, Status, Stage

LEMMA FailsInPlace ==
  ASSUME NEW stage \in Stage
  PROVE  CanTransition("RUNNING", stage, "FAILED", stage)
  BY TableEntries DEF CanTransition, Status

\* A clarification that is created carries its id as the version of its token.
LEMMA ClarificationNamesVersion ==
  ASSUME NEW v \in Nat, NEW type
  PROVE  NewClarification(v, type).id = NewClarification(v, type).task_version
  BY DEF NewClarification

-------------------------------------------------------------------------------
(* The kind of each action *)

\* A handler that analyses and whose version is accepted: its task has not left
\* INTENT_ROUTING.
LEMMA AnalysisSnapshot ==
  ASSUME BaseInv, NEW h \in Handlers, handler[h].op = "analyze", StillCurrent(h)
  PROVE  LET t == handler[h].task IN
         /\ t \in Tasks /\ handler[h].version \in Nat /\ query_tasks[t] \in Row
         /\ query_tasks[t].status = "RUNNING"
         /\ query_tasks[t].stage = "INTENT_ROUTING"
  <1> DEFINE t == handler[h].task
  <1>1. t \in Tasks /\ handler[h].version \in Nat /\ query_tasks[t] \in Row
    BY BusyHandler DEF BaseInv, SafeInv
  <1>2. /\ query_tasks[t].status = "RUNNING"
        /\ query_tasks[t].stage \in {"INTENT_ROUTING", "SLOT_EXTRACTION"}
    BY DEF BaseInv, SafeInv, SnapshotsHold, SnapshotHolds, Analyzable
  <1>3. query_tasks[t].stage \in RunningStage
    BY <1>1, <1>2 DEF BaseInv, RunningStages
  <1>4. QED
    BY <1>1, <1>2, <1>3 DEF RunningStage

LEMMA SaidOne ==
  ASSUME TypeInv, NEW t \in Tasks, NEW m \in MessageRow, AddMessages(t, <<m>>),
         m.kind # "clarification_answer"
  PROVE  /\ \E said \in Seq(MessageRow) :
              NoAnswerIn(said) /\ chat_messages'[t] = chat_messages[t] \o said
         /\ \A u \in Tasks \ {t} : chat_messages'[u] = chat_messages[u]
  <1>1. <<m>> \in Seq(MessageRow) /\ NoAnswerIn(<<m>>)
    BY DEF NoAnswerIn
  <1>2. QED
    BY <1>1, SaidMessages

LEMMA SaidNothing ==
  ASSUME TypeInv, NEW t \in Tasks, chat_messages' = chat_messages
  PROVE  /\ \E said \in Seq(MessageRow) :
              NoAnswerIn(said) /\ chat_messages'[t] = chat_messages[t] \o said
         /\ \A u \in Tasks \ {t} : chat_messages'[u] = chat_messages[u]
  <1>1. <<>> \in Seq(MessageRow) /\ NoAnswerIn(<<>>)
    BY DEF NoAnswerIn
  <1>2. chat_messages[t] \in Seq(MessageRow)
    BY DEF TypeInv, TypeOK
  <1>3. chat_messages[t] \o <<>> = chat_messages[t]
    BY <1>2
  <1>4. QED
    BY <1>1, <1>3

LEMMA AnalyzeKind ==
  ASSUME BaseInv, TaskMoves, NEW h \in Handlers,
         AnalyzeReady(h) \/ AnalyzeAsks(h) \/ AnalyzeFails(h) \/ AnalyzeOutOfScope(h)
  PROVE  StepKind
  <1> DEFINE t == handler[h].task
             v == handler[h].version
             row == query_tasks[t]
             question == NewClarification(v, "semantic_slots")
  <1>0. handler[h].op = "analyze" /\ StillCurrent(h)
    BY DEF AnalyzeReady, AnalyzeAsks, AnalyzeFails, AnalyzeOutOfScope
  <1>1. /\ t \in Tasks /\ v \in Nat /\ row \in Row
        /\ row.status = "RUNNING" /\ row.stage = "INTENT_ROUTING"
    BY <1>0, AnalysisSnapshot
  <1>2. row.clarification = NoClarification
    BY <1>1, ActiveTask DEF BaseInv
  <1>3. issued' = issued /\ SafeInv /\ TypeInv
    BY DEF AnalyzeReady, AnalyzeAsks, AnalyzeFails, AnalyzeOutOfScope, BaseInv, SafeInv
  <1>4. CASE AnalyzeReady(h)
    <2> DEFINE new == [row EXCEPT !.status = "RUNNING", !.stage = "LOGICAL_DSL",
                                  !.clarification = NoClarification,
                                  !.logical_dsl = TRUE]
    <2>1. /\ new \in Row /\ new.status = "RUNNING" /\ new.stage = "LOGICAL_DSL"
          /\ new.clarification = NoClarification
          /\ new.execution = row.execution /\ new.answers = row.answers
      BY <1>1, ConstantTypes DEF Row, Status, Stage
    <2>2. UpdateOptimistically(t, v, new) /\ UNCHANGED <<chat_messages, query_runs>>
      BY <1>4 DEF AnalyzeReady
    <2> HIDE DEF t, v, new
    <2>3. /\ CanTransition(row.status, row.stage, new.status, new.stage)
          /\ new.stage \in RunningStage
      BY <1>1, <2>1, FromRouting DEF RunningStage
    <2>a. \A u \in Tasks \ {t} : chat_messages'[u] = chat_messages[u]
      BY <2>2
    <2>4. /\ Alone(t)
          /\ query_tasks'[t].clarification = new.clarification
          /\ query_tasks'[t].execution = new.execution
          /\ query_tasks'[t].answers = new.answers
      BY <1>1, <1>3, <2>1, <2>2, <2>3, <2>a, WritesAlone
    <2>5. Moved(t)
      BY <1>1, <1>3, <2>1, <2>2, <2>4, SaidNothing DEF Moved, NoClarification
    <2>6. QED
      BY <1>1, <2>5 DEF StepKind
  <1>5. CASE AnalyzeAsks(h)
    <2> DEFINE new == [row EXCEPT !.status = "WAITING_USER", !.stage = "CLARIFICATION",
                                  !.clarification = question,
                                  !.logical_dsl = FALSE]
               m == Message("clarification", question.id)
    <2>0. question \in Clarification
      BY <1>1 DEF NewClarification, Clarification
    <2>1. /\ new \in Row /\ new.status = "WAITING_USER" /\ new.stage = "CLARIFICATION"
          /\ new.clarification = question
          /\ new.execution = row.execution /\ new.answers = row.answers
      BY <1>1, <2>0 DEF Row, Status, Stage
    <2>2. /\ UpdateOptimistically(t, v, new) /\ AddMessages(t, <<m>>)
          /\ query_runs' = query_runs
      BY <1>5 DEF AnalyzeAsks
    <2>3. m \in MessageRow /\ m.kind # "clarification_answer"
      BY <2>0 DEF Message, MessageRow, MessageKinds, Clarification
    <2> HIDE DEF t, v, new, m
    <2>4. CanTransition(row.status, row.stage, new.status, new.stage)
      BY <1>1, <2>1, FromRouting
    <2>5. /\ \E said \in Seq(MessageRow) :
               NoAnswerIn(said) /\ chat_messages'[t] = chat_messages[t] \o said
          /\ \A u \in Tasks \ {t} : chat_messages'[u] = chat_messages[u]
      BY <1>1, <1>3, <2>2, <2>3, SaidOne
    <2>6. /\ Alone(t)
          /\ query_tasks'[t].clarification = new.clarification
          /\ query_tasks'[t].execution = new.execution
          /\ query_tasks'[t].answers = new.answers
      BY <1>1, <1>3, <2>1, <2>2, <2>4, <2>5, WritesAlone
    <2>7. Moved(t)
      BY <1>1, <2>1, <2>2, <2>5, <2>6, ClarificationNamesVersion DEF Moved
    <2>8. QED
      BY <1>1, <2>7 DEF StepKind
  <1>6. CASE AnalyzeFails(h)
    <2>1. PICK stage \in AnalysisFailureStages :
            UpdateOptimistically(t, v, [row EXCEPT !.status = "FAILED", !.stage = stage])
      BY <1>6 DEF AnalyzeFails
    <2> DEFINE new == [row EXCEPT !.status = "FAILED", !.stage = stage]
               m == Message("task_error", 0)
    <2>2. /\ new \in Row /\ new.status = "FAILED" /\ new.stage = stage
          /\ new.clarification = NoClarification
          /\ new.execution = row.execution /\ new.answers = row.answers
      BY <1>1, <1>2 DEF Row, Status, Stage, AnalysisFailureStages
    <2>3. /\ AddMessages(t, <<m>>) /\ UpdateOptimistically(t, v, new)
          /\ query_runs' = Append(query_runs, Run(t, NoRequest, "failed"))
      BY <1>6, <2>1 DEF AnalyzeFails
    <2>4. m \in MessageRow /\ m.kind # "clarification_answer"
      BY DEF Message, MessageRow, MessageKinds, OutcomeKinds
    <2> HIDE DEF t, v, new, m
    <2>5. \/ CanTransition(row.status, row.stage, new.status, new.stage)
          \/ new.stage = "ENTITY_RESOLUTION"
      BY <1>1, <2>2, FromRouting DEF AnalysisFailureStages
    <2>6. /\ \E said \in Seq(MessageRow) :
               NoAnswerIn(said) /\ chat_messages'[t] = chat_messages[t] \o said
          /\ \A u \in Tasks \ {t} : chat_messages'[u] = chat_messages[u]
      BY <1>1, <1>3, <2>3, <2>4, SaidOne
    <2>7. /\ Alone(t)
          /\ query_tasks'[t].clarification = new.clarification
          /\ query_tasks'[t].execution = new.execution
          /\ query_tasks'[t].answers = new.answers
      BY <1>1, <1>3, <2>2, <2>3, <2>5, <2>6, WritesAlone
    <2>a. \E status \in {"failed", "success", "unsupported"} :
            query_runs' = Append(query_runs, Run(t, NoRequest, status))
      BY <2>3
    <2>8. Moved(t)
      <3>1. /\ query_tasks'[t].clarification = NoClarification
            /\ query_tasks'[t].execution = query_tasks[t].execution
            /\ query_tasks'[t].answers = query_tasks[t].answers
        BY <2>2, <2>7
      <3>2. NoClarification.id = NoClarification.task_version
        BY DEF NoClarification
      <3>3. QED
        BY <2>6, <2>7, <2>a, <3>1, <3>2 DEF Moved
    <2>9. QED
      BY <1>1, <2>8 DEF StepKind
  <1>7. CASE AnalyzeOutOfScope(h)
    <2> DEFINE new == [row EXCEPT !.status = "SUCCEEDED", !.stage = "RESULT_FORMATTING"]
               m == Message("intent_boundary", 0)
    <2>1. /\ new \in Row /\ new.status = "SUCCEEDED" /\ new.stage = "RESULT_FORMATTING"
          /\ new.clarification = NoClarification
          /\ new.execution = row.execution /\ new.answers = row.answers
      BY <1>1, <1>2 DEF Row, Status, Stage
    <2>2. AddMessages(t, <<m>>) /\ UpdateOptimistically(t, v, new)
      BY <1>7 DEF AnalyzeOutOfScope
    <2>3. \E status \in {"failed", "success", "unsupported"} :
            query_runs' = Append(query_runs, Run(t, NoRequest, status))
      BY <1>7 DEF AnalyzeOutOfScope
    <2>4. m \in MessageRow /\ m.kind # "clarification_answer"
      BY DEF Message, MessageRow, MessageKinds, OutcomeKinds
    <2> HIDE DEF t, v, new, m
    <2>5. CanTransition(row.status, row.stage, new.status, new.stage)
      BY <1>1, <2>1, FromRouting
    <2>6. /\ \E said \in Seq(MessageRow) :
               NoAnswerIn(said) /\ chat_messages'[t] = chat_messages[t] \o said
          /\ \A u \in Tasks \ {t} : chat_messages'[u] = chat_messages[u]
      BY <1>1, <1>3, <2>2, <2>4, SaidOne
    <2>7. /\ Alone(t)
          /\ query_tasks'[t].clarification = new.clarification
          /\ query_tasks'[t].execution = new.execution
          /\ query_tasks'[t].answers = new.answers
      BY <1>1, <1>3, <2>1, <2>2, <2>5, <2>6, WritesAlone
    <2>8. Moved(t)
      <3>1. /\ query_tasks'[t].clarification = NoClarification
            /\ query_tasks'[t].execution = query_tasks[t].execution
            /\ query_tasks'[t].answers = query_tasks[t].answers
        BY <2>1, <2>7
      <3>2. NoClarification.id = NoClarification.task_version
        BY DEF NoClarification
      <3>3. QED
        BY <2>3, <2>6, <2>7, <3>1, <3>2 DEF Moved
    <2>9. QED
      BY <1>1, <2>8 DEF StepKind
  <1>8. QED
    BY <1>4, <1>5, <1>6, <1>7

\* A handler that writes back the row it read, and whose version is accepted,
\* read the row the table holds.
LEMMA ReadRow ==
  ASSUME BaseInv, NEW h \in Handlers,
         handler[h].op \in {"answer", "cancel", "request"}, StillCurrent(h)
  PROVE  /\ handler[h].task \in Tasks /\ handler[h].version \in Nat
         /\ handler[h].row \in Row
         /\ handler[h].row = query_tasks[handler[h].task]
         /\ handler[h].op \in {"answer", "cancel"} =>
              handler[h].row.clarification # NoClarification
  BY BusyHandler DEF BaseInv, SafeInv, SnapshotsHold, SnapshotHolds

LEMMA AnsweredBy ==
  ASSUME BaseInv, TaskMoves, NEW h \in Handlers, NEW moves \in Row,
         NEW messages \in Seq(MessageRow), NoAnswerIn(messages),
         moves.execution = handler[h].row.execution,
         moves.answers = handler[h].row.answers,
         moves.clarification.id = moves.clarification.task_version,
         moves.status = "RUNNING" => moves.stage \in RunningStage,
         WriteAnswer(h, moves, messages)
  PROVE  StepKind
  <1> DEFINE work == handler[h]
             t == work.task
             old == work.row
             id == old.clarification.id
             answer == [id |-> id, request_id |-> work.request]
             said == Message("clarification_answer", id)
             row == [moves EXCEPT
                       !.processed = RecordProcessedRequest(old.processed, work.request),
                       !.answers = Append(old.answers, answer)]
  <1>1. /\ work.op = "answer" /\ issued' = issued /\ query_runs' = query_runs
        /\ UpdateOptimistically(t, work.version, row)
        /\ AddMessages(t, <<said>> \o messages)
        /\ CanTransition(old.status, old.stage, moves.status, moves.stage)
    BY DEF WriteAnswer
  <1>2. StillCurrent(h)
    BY <1>1 DEF UpdateOptimistically, StillCurrent
  <1>3. /\ t \in Tasks /\ old \in Row /\ old = query_tasks[t]
        /\ old.clarification # NoClarification
    BY <1>1, <1>2, ReadRow
  <1>4. work.request \in Requests /\ SafeInv /\ TypeInv
    BY <1>1, BusyHandler DEF BaseInv, SafeInv
  <1>5. /\ id \in Nat /\ old.processed \in Seq(Requests)
        /\ old.answers \in Seq([id : Nat, request_id : Requests])
    BY <1>3 DEF Row, Clarification
  <1>6. RecordProcessedRequest(old.processed, work.request) \in Seq(Requests)
    BY <1>4, <1>5, RecordType
  <1>7. Append(old.answers, answer) \in Seq([id : Nat, request_id : Requests])
    BY <1>4, <1>5, AppendProperties
  <1>8. /\ row \in Row
        /\ row.status = moves.status /\ row.stage = moves.stage
        /\ row.clarification = moves.clarification
        /\ row.execution = moves.execution
        /\ row.answers = Append(old.answers, answer)
    BY <1>6, <1>7 DEF Row
  <1>9. /\ chat_messages'[t] = chat_messages[t] \o (<<said>> \o messages)
        /\ \A u \in Tasks \ {t} : chat_messages'[u] = chat_messages[u]
    BY <1>1, <1>3, <1>4, SaidMessages
  <1> HIDE DEF t, old, row
  <1>10. /\ Alone(t)
         /\ query_tasks'[t].clarification = row.clarification
         /\ query_tasks'[t].execution = row.execution
         /\ query_tasks'[t].answers = row.answers
    BY <1>1, <1>3, <1>4, <1>8, <1>9, WritesAlone
  <1>11. \E r \in Requests :
           query_tasks'[t].answers =
             Append(query_tasks[t].answers, [id |-> id, request_id |-> r])
    BY <1>3, <1>4, <1>8, <1>10
  <1>12. moves.execution = old.execution
    BY DEF old
  <1>13. Answered(t)
    BY <1>1, <1>3, <1>8, <1>9, <1>10, <1>11, <1>12 DEF Answered
  <1>14. QED
    BY <1>3, <1>13 DEF StepKind

LEMMA AnswerKind ==
  ASSUME BaseInv, TaskMoves, NEW h \in Handlers,
         AnswerResolves(h) \/ AnswerAsksAgain(h) \/ AnswerOther(h)
  PROVE  StepKind
  <1> DEFINE old == handler[h].row
             v == handler[h].version
  <1>0. handler[h].op = "answer"
    BY DEF AnswerResolves, AnswerAsksAgain, AnswerOther, WriteAnswer
  <1>1. v \in Nat /\ old \in Row
    BY <1>0, BusyHandler DEF BaseInv, SafeInv
  <1>2. CASE AnswerResolves(h)
    <2> DEFINE moves == [old EXCEPT !.status = "RUNNING", !.stage = "LOGICAL_DSL",
                                    !.clarification = NoClarification,
                                    !.logical_dsl = TRUE]
               messages == <<Message("resolved_question", 0)>>
    <2>1. /\ moves \in Row /\ moves.stage \in RunningStage
          /\ moves.execution = old.execution /\ moves.answers = old.answers
          /\ moves.clarification.id = moves.clarification.task_version
      BY <1>1, ConstantTypes DEF Row, Status, Stage, RunningStage, NoClarification
    <2>2. messages \in Seq(MessageRow) /\ NoAnswerIn(messages)
      BY DEF Message, MessageRow, MessageKinds, NoAnswerIn
    <2>3. WriteAnswer(h, moves, messages)
      BY <1>2 DEF AnswerResolves
    <2> HIDE DEF moves, messages
    <2>4. QED
      BY <2>1, <2>2, <2>3, AnsweredBy
  <1>3. CASE AnswerAsksAgain(h)
    <2> DEFINE question == NewClarification(v, "semantic_slots")
               moves == [old EXCEPT !.status = "WAITING_USER", !.stage = "CLARIFICATION",
                                    !.clarification = question, !.logical_dsl = FALSE]
               messages == <<Message("clarification", question.id)>>
    <2>1. question \in Clarification /\ question.id = question.task_version
      BY <1>1 DEF NewClarification, Clarification
    <2>2. /\ moves \in Row /\ moves.status # "RUNNING"
          /\ moves.execution = old.execution /\ moves.answers = old.answers
          /\ moves.clarification.id = moves.clarification.task_version
      BY <1>1, <2>1 DEF Row, Status, Stage
    <2>3. messages \in Seq(MessageRow) /\ NoAnswerIn(messages)
      BY <2>1 DEF Message, MessageRow, MessageKinds, NoAnswerIn, Clarification
    <2>4. WriteAnswer(h, moves, messages)
      BY <1>3 DEF AnswerAsksAgain
    <2> HIDE DEF moves, messages
    <2>5. QED
      BY <2>2, <2>3, <2>4, AnsweredBy
  <1>4. CASE AnswerOther(h)
    <2> DEFINE moves == [old EXCEPT !.status = "RUNNING", !.stage = "VALIDATION",
                                    !.clarification = NoClarification]
    <2>1. /\ moves \in Row /\ moves.stage \in RunningStage
          /\ moves.execution = old.execution /\ moves.answers = old.answers
          /\ moves.clarification.id = moves.clarification.task_version
      BY <1>1, ConstantTypes DEF Row, Status, Stage, RunningStage, NoClarification
    <2>2. <<>> \in Seq(MessageRow) /\ NoAnswerIn(<<>>)
      BY DEF NoAnswerIn
    <2>3. WriteAnswer(h, moves, <<>>)
      BY <1>4 DEF AnswerOther
    <2> HIDE DEF moves
    <2>4. QED
      BY <2>1, <2>2, <2>3, AnsweredBy
  <1>5. QED
    BY <1>2, <1>3, <1>4

LEMMA CancelKind ==
  ASSUME BaseInv, TaskMoves, NEW h \in Handlers, Cancel(h)
  PROVE  StepKind
  <1> DEFINE t == handler[h].task
             v == handler[h].version
             old == handler[h].row
             new == [old EXCEPT !.status = "CANCELLED", !.stage = "CLARIFICATION",
                                !.clarification = NoClarification]
  <1>1. /\ handler[h].op = "cancel" /\ UpdateOptimistically(t, v, new)
        /\ issued' = issued /\ chat_messages' = chat_messages /\ query_runs' = query_runs
        /\ CanTransition(old.status, old.stage, "CANCELLED", "CLARIFICATION")
        /\ SafeInv /\ TypeInv
    BY DEF Cancel, BaseInv, SafeInv
  <1>2. t \in Tasks /\ old \in Row /\ old = query_tasks[t]
    BY <1>1, ReadRow DEF UpdateOptimistically, StillCurrent
  <1>3. /\ new \in Row /\ new.status = "CANCELLED" /\ new.stage = "CLARIFICATION"
        /\ new.clarification = NoClarification
        /\ new.execution = old.execution /\ new.answers = old.answers
    BY <1>2, ConstantTypes DEF Row, Status, Stage
  <1>4. /\ \E said \in Seq(MessageRow) :
             NoAnswerIn(said) /\ chat_messages'[t] = chat_messages[t] \o said
        /\ \A u \in Tasks \ {t} : chat_messages'[u] = chat_messages[u]
    BY <1>1, <1>2, SaidNothing
  <1> HIDE DEF t, v, old, new
  <1>5. /\ Alone(t)
        /\ query_tasks'[t].clarification = new.clarification
        /\ query_tasks'[t].execution = new.execution
        /\ query_tasks'[t].answers = new.answers
    BY <1>1, <1>2, <1>3, <1>4, WritesAlone
  <1>6. Moved(t)
    BY <1>1, <1>2, <1>3, <1>4, <1>5 DEF Moved, NoClarification
  <1>7. QED
    BY <1>2, <1>6 DEF StepKind

LEMMA RequestKind ==
  ASSUME BaseInv, TaskMoves, NEW h \in Handlers, RequestClarification(h)
  PROVE  StepKind
  <1> DEFINE work == handler[h]
             t == work.task
             v == work.version
             old == work.row
             question == NewClarification(v, "manual")
             m == Message("clarification", question.id)
             new == [old EXCEPT !.status = "WAITING_USER", !.stage = "CLARIFICATION",
                                !.clarification = question,
                                !.processed = RecordProcessedRequest(@, work.request)]
  <1>1. /\ work.op = "request" /\ UpdateOptimistically(t, v, new)
        /\ issued' = issued /\ AddMessages(t, <<m>>) /\ query_runs' = query_runs
        /\ SafeInv /\ TypeInv
    BY DEF RequestClarification, BaseInv, SafeInv
  <1>2. StillCurrent(h)
    BY <1>1 DEF UpdateOptimistically, StillCurrent
  <1>3. /\ t \in Tasks /\ v \in Nat /\ old \in Row /\ old = query_tasks[t]
        /\ CanTransition(old.status, old.stage, "WAITING_USER", "CLARIFICATION")
    BY <1>1, <1>2, ReadRow DEF SafeInv, SnapshotsHold, SnapshotHolds
  <1>4. work.request \in Requests
    BY <1>1, BusyHandler
  <1>5. RecordProcessedRequest(old.processed, work.request) \in Seq(Requests)
    BY <1>3, <1>4, RecordType DEF Row
  <1>6. question \in Clarification /\ question.id = question.task_version
    BY <1>3 DEF NewClarification, Clarification
  <1>7. /\ new \in Row /\ new.status = "WAITING_USER" /\ new.stage = "CLARIFICATION"
        /\ new.clarification = question
        /\ new.execution = old.execution /\ new.answers = old.answers
    BY <1>3, <1>5, <1>6 DEF Row, Status, Stage
  <1>8. m \in MessageRow /\ m.kind # "clarification_answer"
    BY <1>6 DEF Message, MessageRow, MessageKinds, Clarification
  <1> HIDE DEF m
  <1>9. /\ \E said \in Seq(MessageRow) :
             NoAnswerIn(said) /\ chat_messages'[t] = chat_messages[t] \o said
        /\ \A u \in Tasks \ {t} : chat_messages'[u] = chat_messages[u]
    BY <1>1, <1>3, <1>8, SaidOne
  <1> HIDE DEF t, v, old, new, question
  <1>10. /\ Alone(t)
         /\ query_tasks'[t].clarification = new.clarification
         /\ query_tasks'[t].execution = new.execution
         /\ query_tasks'[t].answers = new.answers
    BY <1>1, <1>3, <1>7, <1>9, WritesAlone
  <1>11. Moved(t)
    BY <1>1, <1>3, <1>6, <1>7, <1>9, <1>10 DEF Moved
  <1>12. QED
    BY <1>3, <1>11 DEF StepKind

LEMMA ExecuteKind ==
  ASSUME BaseInv, TaskMoves, NEW h, NEW t \in Tasks, NEW v \in 0..MaxVersion,
         NEW r \in Requests,
         ExecutePrepare(h, t, v, r) \/ ExecutePlanFails(t, v, r)
  PROVE  StepKind
  <1> DEFINE row == query_tasks[t]
             run == Len(query_runs) + 1
  <1>1. /\ row \in Row /\ run \in Nat /\ SafeInv /\ TypeInv
        /\ ~IsLastExecution(row, r) /\ issued' = issued
        /\ CanTransition(row.status, row.stage, "RUNNING", "EXECUTION")
    BY DEF BaseInv, SafeInv, TypeInv, TypeOK, ExecutePrepare, ExecutePlanFails, MayExecute
  <1>2. row.status = "RUNNING" /\ row.stage \in Stage
    BY <1>1, ExecutableIsRunning DEF CanTransition
  <1>3. CASE ExecutePrepare(h, t, v, r)
    <2> DEFINE execution == [request_id |-> r, run_id |-> run, status |-> "running"]
               new == [row EXCEPT !.status = "RUNNING", !.stage = "EXECUTION",
                                  !.execution = execution]
    <2>1. execution \in Execution
      BY <1>1 DEF Execution, RunStatus
    <2>2. /\ new \in Row /\ new.status = "RUNNING" /\ new.stage = "EXECUTION"
          /\ new.clarification = row.clarification
          /\ new.execution = execution /\ new.answers = row.answers
      BY <1>1, <2>1 DEF Row, Status, Stage
    <2>3. /\ UpdateOptimistically(t, v, new) /\ chat_messages' = chat_messages
          /\ query_runs' = Append(query_runs, Run(t, r, "running"))
      BY <1>3 DEF ExecutePrepare
    <2> HIDE DEF new
    <2>4. /\ \E said \in Seq(MessageRow) :
               NoAnswerIn(said) /\ chat_messages'[t] = chat_messages[t] \o said
          /\ \A u \in Tasks \ {t} : chat_messages'[u] = chat_messages[u]
      BY <1>1, <2>3, SaidNothing
    <2>5. new.stage \in RunningStage
      BY <2>2 DEF RunningStage
    <2>6. /\ Alone(t)
          /\ query_tasks'[t].clarification = new.clarification
          /\ query_tasks'[t].execution = new.execution
          /\ query_tasks'[t].answers = new.answers
      BY <1>1, <2>2, <2>3, <2>4, <2>5, WritesAlone
    <2>7. Registered(t, r, "running")
      BY <1>1, <2>2, <2>3, <2>4, <2>6 DEF Registered
    <2>8. QED
      BY <2>7 DEF StepKind
  <1>4. CASE ExecutePlanFails(t, v, r)
    <2>1. PICK status \in {"failed", "unsupported"} :
            /\ query_runs' = Append(query_runs, Run(t, r, status))
            /\ UpdateOptimistically(t, v,
                 [row EXCEPT !.status = "FAILED",
                             !.execution = [request_id |-> r, run_id |-> run,
                                            status |-> status]])
      BY <1>4 DEF ExecutePlanFails
    <2> DEFINE execution == [request_id |-> r, run_id |-> run, status |-> status]
               new == [row EXCEPT !.status = "FAILED", !.execution = execution]
               m == Message("query_result", run)
    <2>2. execution \in Execution
      BY <1>1 DEF Execution, RunStatus
    <2>3. /\ new \in Row /\ new.status = "FAILED" /\ new.stage = row.stage
          /\ new.clarification = row.clarification
          /\ new.execution = execution /\ new.answers = row.answers
      BY <1>1, <2>2 DEF Row, Status
    <2>4. UpdateOptimistically(t, v, new) /\ AddMessages(t, <<m>>)
      BY <1>4, <2>1 DEF ExecutePlanFails
    <2>5. m \in MessageRow /\ m.kind # "clarification_answer"
      BY <1>1 DEF Message, MessageRow, MessageKinds, OutcomeKinds
    <2> HIDE DEF new, m
    <2>6. /\ \E said \in Seq(MessageRow) :
               NoAnswerIn(said) /\ chat_messages'[t] = chat_messages[t] \o said
          /\ \A u \in Tasks \ {t} : chat_messages'[u] = chat_messages[u]
      BY <1>1, <2>4, <2>5, SaidOne
    <2>7. CanTransition(row.status, row.stage, new.status, new.stage)
      BY <1>2, <2>3, FailsInPlace
    <2>8. /\ Alone(t)
          /\ query_tasks'[t].clarification = new.clarification
          /\ query_tasks'[t].execution = new.execution
          /\ query_tasks'[t].answers = new.answers
      BY <1>1, <2>3, <2>4, <2>6, <2>7, WritesAlone
    <2>9. Registered(t, r, status)
      BY <1>1, <2>1, <2>3, <2>6, <2>8 DEF Registered
    <2>10. QED
      BY <2>9 DEF StepKind
  <1>5. QED
    BY <1>3, <1>4

LEMMA FinishKind ==
  ASSUME BaseInv, TaskMoves, NEW h \in Handlers,
         NEW runStatus, NEW status, NEW stage,
         \/ runStatus = "succeeded" /\ status = "SUCCEEDED" /\ stage = "RESULT_FORMATTING"
         \/ runStatus = "failed" /\ status = "FAILED" /\ stage = "EXECUTION",
         Finish(h, runStatus, status, stage)
  PROVE  StepKind
  <1> DEFINE work == handler[h]
             t == work.task
             row == query_tasks[t]
             execution == [request_id |-> work.request, run_id |-> work.run,
                           status |-> runStatus]
             new == [row EXCEPT !.status = status, !.stage = stage,
                                !.execution = execution]
             m == Message("query_result", work.run)
  <1>1. /\ work.op = "execute" /\ StillCurrent(h) /\ issued' = issued
        /\ UpdateOptimistically(t, work.version, new)
        /\ AddMessages(t, <<m>>)
        /\ query_runs' = [query_runs EXCEPT ![work.run].status = runStatus]
        /\ SafeInv /\ TypeInv
    BY DEF Finish, BaseInv, SafeInv
  <1>2. /\ t \in Tasks /\ row \in Row
        /\ work.request \in Requests /\ work.run \in Nat
    BY <1>1, BusyHandler
  <1>3. /\ row.status = "RUNNING" /\ row.stage = "EXECUTION"
        /\ row.execution = [request_id |-> work.request, run_id |-> work.run,
                            status |-> "running"]
    BY <1>1 DEF BaseInv, ExecutorOwnsTask
  <1>4. execution \in Execution
    BY <1>2 DEF Execution, RunStatus
  <1>5. /\ new \in Row /\ new.status = status /\ new.stage = stage
        /\ new.clarification = row.clarification
        /\ new.execution = execution /\ new.answers = row.answers
    BY <1>2, <1>4 DEF Row, Status, Stage
  <1>6. m \in MessageRow /\ m.kind # "clarification_answer"
    BY <1>2 DEF Message, MessageRow, MessageKinds, OutcomeKinds
  <1>7. /\ chat_messages[t] \in Seq(MessageRow)
        /\ chat_messages'[t] = chat_messages[t] \o <<m>>
        /\ \A u \in Tasks \ {t} : chat_messages'[u] = chat_messages[u]
    BY <1>1, <1>2, SaidMessages
  <1>8. execution = [row.execution EXCEPT !.status = runStatus]
    BY <1>3
  <1>9. row.execution.status = "running" /\ row.execution.run_id = work.run
    BY <1>3
  <1>10. CanTransition(row.status, row.stage, new.status, new.stage)
    BY <1>3, <1>5, FromExecution
  <1> HIDE DEF new, m, execution
  <1>11. chat_messages'[t] = Append(chat_messages[t], m)
    BY <1>6, <1>7, ConcatTwo
  <1>12. /\ Alone(t)
         /\ query_tasks'[t].status = new.status
         /\ query_tasks'[t].clarification = new.clarification
         /\ query_tasks'[t].execution = new.execution
         /\ query_tasks'[t].answers = new.answers
    BY <1>1, <1>2, <1>5, <1>7, <1>10, WritesAlone, WrittenRow
  <1>13. Closed(t, runStatus)
    BY <1>1, <1>5, <1>6, <1>8, <1>9, <1>11, <1>12 DEF Closed, m
  <1>14. QED
    BY <1>2, <1>13 DEF StepKind

LEMMA SubmitKind ==
  ASSUME BaseInv, NEW t \in Tasks, NEW r \in Requests, SubmitQuestion(t, r)
  PROVE  StepKind
  <1>1. /\ \A u \in Tasks \ {t} : query_tasks'[u] = query_tasks[u]
        /\ query_tasks'[t].status = "RUNNING"
        /\ query_tasks'[t].stage = "INTENT_ROUTING"
        /\ query_tasks'[t].execution = NoExecution
        /\ query_tasks'[t].clarification = NoClarification
    BY DEF SubmitQuestion, BaseInv, SafeInv, TypeInv, TypeOK, NoRow
  <1>2. /\ chat_messages'[t] = chat_messages[t] \o <<Message("question", 0)>>
        /\ \A u \in Tasks \ {t} : chat_messages'[u] = chat_messages[u]
    BY SaidMessages DEF SubmitQuestion, BaseInv, SafeInv
  <1>3. Submitted(t)
    BY <1>1, <1>2 DEF SubmitQuestion, Submitted, Untouched
  <1>4. QED
    BY <1>3 DEF StepKind

LEMMA DeleteKind ==
  ASSUME BaseInv, NEW c \in Conversations, DeleteConversation(c)
  PROVE  StepKind
  <1> DEFINE gone == {t \in Tasks : ConversationOf[t] = c /\ Exists(t)}
  <1>1. \A t \in gone : Exists(t) /\ Removed(t)
    BY DEF DeleteConversation, Removed
  <1>2. \A t \in Tasks \ gone : Untouched(t)
    BY DEF DeleteConversation, Untouched
  <1>3. /\ gone # {} /\ issued' = issued
        /\ query_runs' =
             [i \in DOMAIN query_runs |->
                IF query_runs[i].task_id \in gone
                THEN [query_runs[i] EXCEPT !.task_id = NoTask]
                ELSE query_runs[i]]
    BY DEF DeleteConversation
  <1>4. gone \in SUBSET Tasks
    OBVIOUS
  <1> HIDE DEF gone
  <1>5. Forgotten(gone)
    BY <1>1, <1>2, <1>3 DEF Forgotten
  <1>6. QED
    BY <1>4, <1>5 DEF StepKind

\* Part 4, put together.
LEMMA KindOfStep == BaseInv /\ [Next]_vars => StepKind
  <1> SUFFICES ASSUME BaseInv, [Next]_vars PROVE StepKind
    OBVIOUS
  <1>0. TaskMoves
    BY TaskStep DEF BaseInv
  <1>1. ASSUME NEW t \in Tasks, NEW r \in Requests, SubmitQuestion(t, r)
        PROVE  StepKind
    BY <1>1, SubmitKind
  <1>2. ASSUME NEW h \in Handlers, NEW t \in Tasks, NEW v \in 0..MaxVersion,
               BeginAnalyze(h, t, v) \/ BeginCancel(h, t, v)
        PROVE  StepKind
    BY <1>2 DEF BeginAnalyze, BeginCancel, StepKind
  <1>3. ASSUME NEW h \in Handlers, NEW t \in Tasks, NEW v \in 0..MaxVersion,
               NEW r \in Requests,
               BeginAnswer(h, t, v, r) \/ BeginRequestClarification(h, t, v, r)
        PROVE  StepKind
    BY <1>3 DEF BeginAnswer, BeginRequestClarification, StepKind
  <1>4. ASSUME NEW h \in Handlers, NEW t \in Tasks, NEW v \in 0..MaxVersion,
               NEW r \in Requests, ExecutePrepare(h, t, v, r)
        PROVE  StepKind
    BY <1>0, <1>4, ExecuteKind
  <1>5. ASSUME NEW t \in Tasks, NEW v \in 0..MaxVersion, NEW r \in Requests,
               ExecutePlanFails(t, v, r)
        PROVE  StepKind
    BY <1>0, <1>5, ExecuteKind
  <1>6. ASSUME NEW c \in Conversations, DeleteConversation(c)
        PROVE  StepKind
    BY <1>6, DeleteKind
  <1>7. ASSUME NEW h \in Handlers, Complete(h)
        PROVE  StepKind
    <2>1. CASE AnalyzeReady(h) \/ AnalyzeAsks(h) \/ AnalyzeFails(h) \/ AnalyzeOutOfScope(h)
      BY <1>0, <2>1, AnalyzeKind
    <2>2. CASE AnswerResolves(h) \/ AnswerAsksAgain(h) \/ AnswerOther(h)
      BY <1>0, <2>2, AnswerKind
    <2>3. CASE Cancel(h)
      BY <1>0, <2>3, CancelKind
    <2>4. CASE RequestClarification(h)
      BY <1>0, <2>4, RequestKind
    <2>5. CASE FinishSuccess(h)
      BY <1>0, <2>5, FinishKind DEF FinishSuccess
    <2>6. CASE FinishFailure(h)
      BY <1>0, <2>6, FinishKind DEF FinishFailure
    <2>7. CASE Rejected(h)
      BY <2>7 DEF Rejected, StepKind
    <2>8. QED
      BY <1>7, <2>1, <2>2, <2>3, <2>4, <2>5, <2>6, <2>7 DEF Complete
  <1>8. ASSUME NEW h \in Handlers, Crash(h)
        PROVE  StepKind
    BY <1>8 DEF Crash, StepKind
  <1>9. CASE UNCHANGED vars
    BY <1>9 DEF vars, StepKind
  <1>10. QED
    BY <1>1, <1>2, <1>3, <1>4, <1>5, <1>6, <1>7, <1>8, <1>9 DEF Next, ClientRequest

LEMMA BaseInit == Init => BaseInv
  <1>1. Init => RunningStages
    BY DEF Init, RunningStages, NoRow
  <1>2. QED
    BY <1>1, SafeInit DEF BaseInv, Init, ExecutorOwnsTask, Idle

LEMMA BaseStep == BaseInv /\ [Next]_vars => BaseInv'
  <1>1. BaseInv /\ [Next]_vars => RunningStages'
    <2> SUFFICES ASSUME BaseInv, [Next]_vars, NEW t \in Tasks,
                        query_tasks'[t].status = "RUNNING"
                 PROVE  query_tasks'[t].stage \in RunningStage
      BY DEF RunningStages
    <2>1. query_tasks[t].status = "RUNNING" => query_tasks[t].stage \in RunningStage
      BY DEF BaseInv, RunningStages
    <2>2. "INTENT_ROUTING" \in RunningStage
      BY DEF RunningStage
    <2>3. ASSUME NEW u \in Tasks, Alone(u)
          PROVE  query_tasks'[t].stage \in RunningStage
      BY <2>1, <2>3 DEF Alone, Untouched
    <2>4. ASSUME NEW u \in Tasks, Submitted(u)
          PROVE  query_tasks'[t].stage \in RunningStage
      BY <2>1, <2>2, <2>4 DEF Submitted, Untouched
    <2>5. ASSUME NEW gone \in SUBSET Tasks, Forgotten(gone)
          PROVE  query_tasks'[t].stage \in RunningStage
      BY <2>1, <2>5 DEF Forgotten, Untouched, Removed, NoRow
    <2>6. CASE query_tasks' = query_tasks
      BY <2>1, <2>6
    <2>7. QED
      BY <2>3, <2>4, <2>5, <2>6, KindOfStep
      DEF StepKind, Moved, Answered, Registered, Closed
  <1>2. QED
    BY <1>1, SafeStep, OwnerStep DEF BaseInv

-------------------------------------------------------------------------------
(* Part 5: executions *)

\* A run names a task that is there, or none.
RunsKnown ==
  \A i \in DOMAIN query_runs :
    query_runs[i].task_id # NoTask => Exists(query_runs[i].task_id)

\* A task that is not there has no transcript.
GoneIsSilent == \A t \in Tasks : ~Exists(t) => chat_messages[t] = <<>>

\* The execution a row remembers is, field by field, a run of that task.
ExecutionNamesRun ==
  \A t \in Tasks :
    LET execution == query_tasks[t].execution IN
    execution # NoExecution =>
      /\ execution.run_id \in DOMAIN query_runs
      /\ query_runs[execution.run_id] = Run(t, execution.request_id, execution.status)

\* It is the last one the task registered.
LatestExecution ==
  \A t \in Tasks : \A i \in DOMAIN query_runs :
    (query_runs[i].task_id = t /\ query_runs[i].request_id # NoRequest) =>
      /\ query_tasks[t].execution # NoExecution
      /\ i <= query_tasks[t].execution.run_id

\* Runs logged by an analysis are never out.
OnlyKeysRun ==
  \A i \in DOMAIN query_runs :
    query_runs[i].status \in {"running", "succeeded"} => query_runs[i].request_id # NoRequest

RunsInv ==
  /\ RunsKnown
  /\ GoneIsSilent
  /\ ExecutionNamesRun
  /\ LatestExecution
  /\ OnlyKeysRun
  /\ SucceededRunIsReported
  /\ RetryRunsOnce

\* A task that is written was there, had not ended, and is still there.
LEMMA WrittenTask ==
  ASSUME NEW t \in Tasks, Alone(t)
  PROVE  /\ Exists(t) /\ Exists(t)'
         /\ query_tasks[t].status \notin {"SUCCEEDED", "FAILED", "CANCELLED"}
         /\ \A u \in Tasks \ {t} : Untouched(u)
  BY DEF Alone, Rewritten, GoesOn, Asks, Settles, Exists

\* A step that leaves query_runs alone, removes no task, and changes no row that
\* has succeeded.
LEMMA KeptRuns ==
  ASSUME BaseInv, RunsInv, query_runs' = query_runs, GoneIsSilent',
         \A u \in Tasks : Exists(u) => Exists(u)',
         \A u \in Tasks :
           \/ query_tasks'[u].execution = query_tasks[u].execution
           \/ ~Exists(u) /\ query_tasks'[u].execution = NoExecution,
         \A u \in Tasks : query_tasks[u].status = "SUCCEEDED" => Untouched(u)
  PROVE  RunsInv'
  <1>1. ASSUME NEW i \in DOMAIN query_runs
        PROVE  query_runs[i] \in RunRow
    BY DEF BaseInv, SafeInv, TypeInv, TypeOK
  <1>2. RunsKnown'
    <2> SUFFICES ASSUME NEW i \in DOMAIN query_runs, query_runs[i].task_id # NoTask
                 PROVE  Exists(query_runs[i].task_id)'
      BY DEF RunsKnown, Exists
    <2>1. query_runs[i].task_id \in Tasks
      BY <1>1 DEF RunRow
    <2>2. QED
      BY <2>1 DEF RunsInv, RunsKnown
  <1>3. ASSUME NEW u \in Tasks, NEW i \in DOMAIN query_runs, query_runs[i].task_id = u
        PROVE  Exists(u) /\ query_tasks'[u].execution = query_tasks[u].execution
    BY <1>3, TasksAssumption DEF RunsInv, RunsKnown
  <1>4. ExecutionNamesRun'
    BY DEF RunsInv, ExecutionNamesRun
  <1>5. LatestExecution'
    BY <1>3 DEF RunsInv, LatestExecution
  <1>6. OnlyKeysRun' /\ RetryRunsOnce'
    BY DEF RunsInv, OnlyKeysRun, RetryRunsOnce
  <1>7. SucceededRunIsReported'
    BY DEF RunsInv, SucceededRunIsReported, LastMessage, Untouched
  <1>8. QED
    BY <1>2, <1>4, <1>5, <1>6, <1>7 DEF RunsInv

LEMMA AppendRun ==
  ASSUME BaseInv, NEW t \in Tasks, NEW q \in Requests \cup {NoRequest},
         NEW status \in RunStatus,
         query_runs' = Append(query_runs, Run(t, q, status))
  PROVE  LET n == Len(query_runs) IN
         /\ n \in Nat /\ DOMAIN query_runs = 1..n /\ DOMAIN query_runs' = 1..(n + 1)
         /\ query_runs'[n + 1] = Run(t, q, status)
         /\ \A i \in 1..n : query_runs'[i] = query_runs[i] /\ query_runs[i] \in RunRow
         /\ \A i \in 1..(n + 1) : i \in 1..n \/ i = n + 1
  <1>1. query_runs \in Seq(RunRow)
    BY DEF BaseInv, SafeInv, TypeInv, TypeOK
  <1>2. Run(t, q, status) \in RunRow
    BY DEF Run, RunRow
  <1>3. QED
    BY <1>1, <1>2, AppendLast

\* A step that adds a run which has not succeeded to a task that is active.
LEMMA AddedRun ==
  ASSUME BaseInv, RunsInv, GoneIsSilent', NEW t \in Tasks, Alone(t),
         NEW q \in Requests \cup {NoRequest}, NEW status \in RunStatus \ {"succeeded"},
         query_runs' = Append(query_runs, Run(t, q, status)),
         \/ /\ q = NoRequest /\ status # "running"
            /\ query_tasks'[t].execution = query_tasks[t].execution
         \/ /\ q # NoRequest /\ q # query_tasks[t].execution.request_id
            /\ query_tasks'[t].execution =
                 [request_id |-> q, run_id |-> Len(query_runs) + 1, status |-> status]
  PROVE  RunsInv'
  <1> DEFINE n == Len(query_runs)
  <1>1. /\ n \in Nat /\ DOMAIN query_runs = 1..n /\ DOMAIN query_runs' = 1..(n + 1)
        /\ query_runs'[n + 1] = Run(t, q, status)
        /\ \A i \in 1..n : query_runs'[i] = query_runs[i] /\ query_runs[i] \in RunRow
        /\ \A i \in 1..(n + 1) : i \in 1..n \/ i = n + 1
    BY AppendRun
  <1>2. /\ Exists(t)' /\ query_tasks[t].status # "SUCCEEDED"
        /\ \A u \in Tasks \ {t} : query_tasks'[u] = query_tasks[u]
        /\ \A u \in Tasks \ {t} : chat_messages'[u] = chat_messages[u]
    BY WrittenTask DEF Untouched
  <1> HIDE DEF n
  <1>3. /\ query_runs'[n + 1].task_id = t /\ query_runs'[n + 1].request_id = q
        /\ query_runs'[n + 1].status = status
    BY <1>1 DEF Run
  <1>4. RunsKnown'
    <2> SUFFICES ASSUME NEW i \in 1..(n + 1), query_runs'[i].task_id # NoTask
                 PROVE  query_tasks'[query_runs'[i].task_id].status # "NONE"
      BY <1>1 DEF RunsKnown, Exists
    <2>1. CASE i = n + 1
      BY <1>2, <1>3, <2>1 DEF Exists
    <2>2. CASE i \in 1..n
      <3>1. Exists(query_runs[i].task_id) /\ query_runs[i].task_id \in Tasks
        BY <1>1, <2>2 DEF RunsInv, RunsKnown, RunRow
      <3>2. QED
        BY <1>1, <1>2, <2>2, <3>1 DEF Exists
    <2>3. QED
      BY <1>1, <2>1, <2>2
  <1>5. ExecutionNamesRun'
    <2> SUFFICES ASSUME NEW u \in Tasks, query_tasks'[u].execution # NoExecution
                 PROVE  LET execution == query_tasks'[u].execution IN
                        /\ execution.run_id \in 1..(n + 1)
                        /\ query_runs'[execution.run_id] =
                             Run(u, execution.request_id, execution.status)
      BY <1>1 DEF ExecutionNamesRun
    <2>1. CASE query_tasks'[u].execution = query_tasks[u].execution
      <3> DEFINE e == query_tasks[u].execution.run_id
      <3>1. e \in 1..n /\ query_runs[e] = Run(u, query_tasks[u].execution.request_id,
                                              query_tasks[u].execution.status)
        BY <1>1, <2>1 DEF RunsInv, ExecutionNamesRun
      <3>2. e \in 1..(n + 1) /\ query_runs'[e] = query_runs[e]
        BY <1>1, <3>1
      <3>3. QED
        BY <2>1, <3>1, <3>2
    <2>2. CASE query_tasks'[u].execution # query_tasks[u].execution
      <3>1. u = t /\ query_tasks'[t].execution =
                       [request_id |-> q, run_id |-> n + 1, status |-> status]
        BY <1>2, <2>2 DEF n
      <3>2. QED
        BY <1>1, <3>1
    <2>3. QED
      BY <2>1, <2>2
  <1>6. LatestExecution'
    <2> SUFFICES ASSUME NEW u \in Tasks, NEW i \in 1..(n + 1),
                        query_runs'[i].task_id = u, query_runs'[i].request_id # NoRequest
                 PROVE  /\ query_tasks'[u].execution # NoExecution
                        /\ i <= query_tasks'[u].execution.run_id
      BY <1>1 DEF LatestExecution
    <2>1. CASE u = t /\ q # NoRequest
      <3>1. query_tasks'[u].execution =
              [request_id |-> q, run_id |-> n + 1, status |-> status]
        BY <2>1 DEF n
      <3>2. query_tasks'[u].execution.run_id = n + 1
        BY <3>1
      <3>3. query_tasks'[u].execution # NoExecution
        BY <1>1, <3>2 DEF NoExecution
      <3>4. QED
        BY <1>1, <3>2, <3>3
    <2>2. CASE u # t \/ q = NoRequest
      <3>1. i \in 1..n
        BY <1>1, <1>3, <2>2
      <3>2. query_tasks'[u].execution = query_tasks[u].execution
        BY <1>2, <2>2
      <3>3. query_runs[i].task_id = u /\ query_runs[i].request_id # NoRequest
        BY <1>1, <3>1
      <3>4. QED
        BY <1>1, <3>1, <3>2, <3>3 DEF RunsInv, LatestExecution
    <2>3. QED
      BY <2>1, <2>2
  <1>7. OnlyKeysRun'
    BY <1>1, <1>3 DEF RunsInv, OnlyKeysRun
  <1>8. SucceededRunIsReported'
    <2> SUFFICES ASSUME NEW u \in Tasks, NEW i \in 1..(n + 1),
                        query_runs'[i].task_id = u, query_runs'[i].status = "succeeded"
                 PROVE  /\ query_tasks'[u].status = "SUCCEEDED"
                        /\ query_tasks'[u].execution.run_id = i
                        /\ chat_messages'[u] # <<>>
                        /\ chat_messages'[u][Len(chat_messages'[u])]
                             = Message("query_result", i)
      BY <1>1 DEF SucceededRunIsReported, LastMessage
    <2>1. i \in 1..n
      BY <1>1, <1>3
    <2>2. query_runs[i].task_id = u /\ query_runs[i].status = "succeeded"
      BY <1>1, <2>1
    <2>3. /\ query_tasks[u].status = "SUCCEEDED"
          /\ query_tasks[u].execution.run_id = i
          /\ chat_messages[u] # <<>>
          /\ chat_messages[u][Len(chat_messages[u])] = Message("query_result", i)
      BY <1>1, <2>1, <2>2 DEF RunsInv, SucceededRunIsReported, LastMessage
    <2>4. u # t
      BY <1>2, <2>3
    <2>5. QED
      BY <1>2, <2>3, <2>4
  \* The key of the new run is not the one the row remembers, whose run is the
  \* last the task registered: that run lies between.
  <1>9. RetryRunsOnce'
    <2> SUFFICES ASSUME NEW i \in 1..(n + 1), NEW j \in 1..(n + 1), i < j,
                        query_runs'[i].status \in {"running", "succeeded"},
                        query_runs'[j].status \in {"running", "succeeded"},
                        query_runs'[i].task_id = query_runs'[j].task_id,
                        query_runs'[i].task_id # NoTask,
                        query_runs'[i].request_id = query_runs'[j].request_id
                 PROVE  \E k \in i + 1 .. j - 1 :
                          /\ query_runs'[k].task_id = query_runs'[i].task_id
                          /\ query_runs'[k].request_id # query_runs'[i].request_id
      BY <1>1 DEF RetryRunsOnce
    <2>1. i \in 1..n /\ query_runs'[i] = query_runs[i]
      BY <1>1
    <2>2. CASE j \in 1..n
      <3>1. query_runs'[j] = query_runs[j]
        BY <1>1, <2>2
      <3>2. PICK k \in i + 1 .. j - 1 :
              /\ query_runs[k].task_id = query_runs[i].task_id
              /\ query_runs[k].request_id # query_runs[i].request_id
        BY <1>1, <2>1, <2>2, <3>1 DEF RunsInv, RetryRunsOnce
      <3>3. k \in 1..n
        BY <1>1, <2>1, <2>2
      <3>4. query_runs'[k] = query_runs[k]
        BY <1>1, <3>3
      <3>5. QED
        BY <2>1, <3>2, <3>4
    <2>3. CASE j = n + 1
      <3> DEFINE e == query_tasks[t].execution.run_id
      <3>1. /\ query_runs[i].task_id = t /\ query_runs[i].request_id = q
            /\ query_runs[i].status \in {"running", "succeeded"}
        BY <1>3, <2>1, <2>3
      <3>2. q # NoRequest
        BY <1>1, <2>1, <3>1 DEF RunsInv, OnlyKeysRun
      <3>3. query_tasks[t].execution # NoExecution /\ i <= e
        BY <1>1, <2>1, <3>1, <3>2 DEF RunsInv, LatestExecution
      <3>4. e \in 1..n /\ query_runs[e] = Run(t, query_tasks[t].execution.request_id,
                                              query_tasks[t].execution.status)
        BY <1>1, <3>3 DEF RunsInv, ExecutionNamesRun
      <3> HIDE DEF e
      <3>5. query_runs[e].task_id = t /\ query_runs[e].request_id # q
        BY <3>2, <3>4 DEF Run
      <3>6. e # i
        BY <3>1, <3>5
      <3>7. e \in i + 1 .. j - 1
        BY <1>1, <2>1, <2>3, <3>3, <3>4, <3>6
      <3>8. query_runs'[e] = query_runs[e]
        BY <1>1, <3>4
      <3>9. QED
        BY <2>1, <3>1, <3>5, <3>7, <3>8
    <2>4. QED
      BY <1>1, <2>2, <2>3
  <1>10. QED
    BY <1>4, <1>5, <1>6, <1>7, <1>8, <1>9 DEF RunsInv

\* Closing the run the row names.
LEMMA ClosedRun ==
  ASSUME BaseInv, RunsInv, GoneIsSilent', NEW t \in Tasks,
         NEW status \in {"succeeded", "failed"}, Closed(t, status)
  PROVE  RunsInv'
  <1> DEFINE n == Len(query_runs)
             old == query_tasks[t].execution
             e == old.run_id
  <1>1. /\ n \in Nat /\ DOMAIN query_runs = 1..n
        /\ \A i \in 1..n : query_runs[i] \in RunRow
    BY DEF BaseInv, SafeInv, TypeInv, TypeOK
  <1>2. /\ Alone(t) /\ old.status = "running"
        /\ query_tasks'[t].execution = [old EXCEPT !.status = status]
        /\ query_runs' = [query_runs EXCEPT ![e].status = status]
        /\ status = "succeeded" => query_tasks'[t].status = "SUCCEEDED"
    BY DEF Closed
  <1>3. old # NoExecution /\ old \in Execution
    BY <1>2 DEF NoExecution, BaseInv, SafeInv, TypeInv, TypeOK, Row
  <1>4. e \in 1..n /\ query_runs[e] = Run(t, old.request_id, "running")
    BY <1>1, <1>2, <1>3 DEF RunsInv, ExecutionNamesRun
  <1>5. /\ query_runs[e].task_id = t /\ query_runs[e].status = "running"
        /\ query_runs[e].request_id = old.request_id
    BY <1>4 DEF Run
  <1> HIDE DEF n, old, e
  <1>6. /\ DOMAIN query_runs' = 1..n
        /\ query_runs'[e] = Run(t, old.request_id, status)
        /\ \A i \in 1..n : i # e => query_runs'[i] = query_runs[i]
    BY <1>1, <1>2, <1>4 DEF Run
  <1>7. query_runs'[e].status = status
    BY <1>6 DEF Run
  <1>8. \A i \in 1..n : /\ query_runs'[i].task_id = query_runs[i].task_id
                        /\ query_runs'[i].request_id = query_runs[i].request_id
    BY <1>5, <1>6 DEF Run
  <1>9. /\ Exists(t)' /\ query_tasks[t].status # "SUCCEEDED"
        /\ \A u \in Tasks \ {t} : query_tasks'[u] = query_tasks[u]
        /\ \A u \in Tasks \ {t} : chat_messages'[u] = chat_messages[u]
    BY <1>2, WrittenTask DEF Untouched
  <1>10. /\ query_tasks'[t].execution.run_id = e
         /\ query_tasks'[t].execution.request_id = old.request_id
         /\ query_tasks'[t].execution.status = status
         /\ query_tasks'[t].execution # NoExecution
    BY <1>2, <1>3 DEF Execution, NoExecution, old, e
  <1>11. RunsKnown'
    <2> SUFFICES ASSUME NEW i \in 1..n, query_runs'[i].task_id # NoTask
                 PROVE  query_tasks'[query_runs'[i].task_id].status # "NONE"
      BY <1>6 DEF RunsKnown, Exists
    <2>1. Exists(query_runs[i].task_id) /\ query_runs[i].task_id \in Tasks
      BY <1>1, <1>8 DEF RunsInv, RunsKnown, RunRow
    <2>2. QED
      BY <1>8, <1>9, <2>1 DEF Exists
  <1>12. ExecutionNamesRun'
    <2> SUFFICES ASSUME NEW u \in Tasks, query_tasks'[u].execution # NoExecution
                 PROVE  LET execution == query_tasks'[u].execution IN
                        /\ execution.run_id \in 1..n
                        /\ query_runs'[execution.run_id] =
                             Run(u, execution.request_id, execution.status)
      BY <1>6 DEF ExecutionNamesRun
    <2>1. CASE u = t
      BY <1>4, <1>6, <1>10, <2>1
    <2>2. CASE u # t
      <3> DEFINE f == query_tasks[u].execution.run_id
      <3>1. query_tasks'[u].execution = query_tasks[u].execution
        BY <1>9, <2>2
      <3>2. f \in 1..n /\ query_runs[f] = Run(u, query_tasks[u].execution.request_id,
                                              query_tasks[u].execution.status)
        BY <1>1, <3>1 DEF RunsInv, ExecutionNamesRun
      <3>3. f # e
        BY <1>5, <2>2, <3>2 DEF Run
      <3>4. QED
        BY <1>6, <3>1, <3>2, <3>3
    <2>3. QED
      BY <2>1, <2>2
  <1>13. LatestExecution'
    <2> SUFFICES ASSUME NEW u \in Tasks, NEW i \in 1..n,
                        query_runs'[i].task_id = u, query_runs'[i].request_id # NoRequest
                 PROVE  /\ query_tasks'[u].execution # NoExecution
                        /\ i <= query_tasks'[u].execution.run_id
      BY <1>6 DEF LatestExecution
    <2>1. /\ query_tasks[u].execution # NoExecution
          /\ i <= query_tasks[u].execution.run_id
      BY <1>1, <1>8 DEF RunsInv, LatestExecution
    <2>2. CASE u = t
      BY <1>10, <2>1, <2>2 DEF old, e
    <2>3. CASE u # t
      BY <1>9, <2>1, <2>3
    <2>4. QED
      BY <2>2, <2>3
  \* The only run whose status changes was out.
  <1>14. \A i \in 1..n :
           query_runs'[i].status \in {"running", "succeeded"} =>
             query_runs[i].status \in {"running", "succeeded"}
    BY <1>5, <1>6
  <1>15. OnlyKeysRun'
    BY <1>1, <1>6, <1>8, <1>14 DEF RunsInv, OnlyKeysRun
  <1>16. SucceededRunIsReported'
    <2> SUFFICES ASSUME NEW u \in Tasks, NEW i \in 1..n,
                        query_runs'[i].task_id = u, query_runs'[i].status = "succeeded"
                 PROVE  /\ query_tasks'[u].status = "SUCCEEDED"
                        /\ query_tasks'[u].execution.run_id = i
                        /\ chat_messages'[u] # <<>>
                        /\ chat_messages'[u][Len(chat_messages'[u])]
                             = Message("query_result", i)
      BY <1>6 DEF SucceededRunIsReported, LastMessage
    <2>1. CASE i = e
      <3>1. u = t /\ status = "succeeded"
        BY <1>5, <1>7, <1>8, <2>1
      <3> DEFINE m == Message("query_result", e)
      <3>2. /\ chat_messages[t] \in Seq(MessageRow) /\ m \in MessageRow
            /\ chat_messages'[t] = Append(chat_messages[t], m)
        BY DEF Closed, BaseInv, SafeInv, TypeInv, TypeOK, old, e
      <3> HIDE DEF m
      <3>3. /\ chat_messages'[t] # <<>>
            /\ chat_messages'[t][Len(chat_messages'[t])] = m
        BY <3>2, AppendLast
      <3>4. QED
        BY <1>2, <1>10, <2>1, <3>1, <3>3 DEF m
    <2>2. CASE i # e
      <3>1. query_runs[i].task_id = u /\ query_runs[i].status = "succeeded"
        BY <1>6, <2>2
      <3>2. /\ query_tasks[u].status = "SUCCEEDED"
            /\ query_tasks[u].execution.run_id = i
            /\ chat_messages[u] # <<>>
            /\ chat_messages[u][Len(chat_messages[u])] = Message("query_result", i)
        BY <1>1, <3>1 DEF RunsInv, SucceededRunIsReported, LastMessage
      <3>3. u # t
        BY <1>9, <3>2
      <3>4. QED
        BY <1>9, <3>2, <3>3
    <2>3. QED
      BY <2>1, <2>2
  <1>17. RetryRunsOnce'
    <2> SUFFICES ASSUME NEW i \in 1..n, NEW j \in 1..n, i < j,
                        query_runs'[i].status \in {"running", "succeeded"},
                        query_runs'[j].status \in {"running", "succeeded"},
                        query_runs'[i].task_id = query_runs'[j].task_id,
                        query_runs'[i].task_id # NoTask,
                        query_runs'[i].request_id = query_runs'[j].request_id
                 PROVE  \E k \in i + 1 .. j - 1 :
                          /\ query_runs'[k].task_id = query_runs'[i].task_id
                          /\ query_runs'[k].request_id # query_runs'[i].request_id
      BY <1>6 DEF RetryRunsOnce
    <2>0. /\ query_runs[i].status \in {"running", "succeeded"}
          /\ query_runs[j].status \in {"running", "succeeded"}
          /\ query_runs[i].task_id = query_runs[j].task_id
          /\ query_runs[i].task_id # NoTask
          /\ query_runs[i].request_id = query_runs[j].request_id
      BY <1>1, <1>8, <1>14
    <2>1. PICK k \in i + 1 .. j - 1 :
            /\ query_runs[k].task_id = query_runs[i].task_id
            /\ query_runs[k].request_id # query_runs[i].request_id
      BY <1>1, <2>0 DEF RunsInv, RetryRunsOnce
    <2>2. k \in 1..n
      BY <1>1
    <2>3. QED
      BY <1>8, <2>1, <2>2
  <1>18. QED
    BY <1>11, <1>12, <1>13, <1>15, <1>16, <1>17 DEF RunsInv

\* Deleting tasks takes their runs out of everything that is said about runs.
LEMMA ForgottenRuns ==
  ASSUME BaseInv, RunsInv, GoneIsSilent', NEW gone \in SUBSET Tasks, Forgotten(gone)
  PROVE  RunsInv'
  <1> DEFINE n == Len(query_runs)
  <1>1. /\ n \in Nat /\ DOMAIN query_runs = 1..n
        /\ \A i \in 1..n : query_runs[i] \in RunRow
    BY DEF BaseInv, SafeInv, TypeInv, TypeOK
  <1> HIDE DEF n
  <1>2. /\ DOMAIN query_runs' = 1..n
        /\ \A i \in 1..n :
             query_runs'[i] = IF query_runs[i].task_id \in gone
                              THEN [query_runs[i] EXCEPT !.task_id = NoTask]
                              ELSE query_runs[i]
    BY <1>1 DEF Forgotten
  <1>3. /\ \A u \in gone : query_tasks'[u] = NoRow
        /\ \A u \in Tasks \ gone : query_tasks'[u] = query_tasks[u]
        /\ \A u \in Tasks \ gone : chat_messages'[u] = chat_messages[u]
    BY DEF Forgotten, Removed, Untouched
  <1>4. \A i \in 1..n : /\ query_runs'[i].request_id = query_runs[i].request_id
                        /\ query_runs'[i].status = query_runs[i].status
    BY <1>1, <1>2 DEF RunRow
  <1>5. ASSUME NEW i \in 1..n, query_runs'[i].task_id # NoTask
        PROVE  /\ query_runs'[i] = query_runs[i]
               /\ query_runs[i].task_id \in Tasks \ gone
    BY <1>1, <1>2, <1>5 DEF RunRow
  <1>6. RunsKnown'
    <2> SUFFICES ASSUME NEW i \in 1..n, query_runs'[i].task_id # NoTask
                 PROVE  query_tasks'[query_runs'[i].task_id].status # "NONE"
      BY <1>2 DEF RunsKnown, Exists
    <2>1. /\ query_runs'[i] = query_runs[i] /\ query_runs[i].task_id \in Tasks \ gone
          /\ query_runs[i].task_id # NoTask
      BY <1>5
    <2>2. Exists(query_runs[i].task_id)
      BY <1>1, <2>1 DEF RunsInv, RunsKnown
    <2>3. QED
      BY <1>3, <2>1, <2>2 DEF Exists
  <1>7. ExecutionNamesRun'
    <2> SUFFICES ASSUME NEW u \in Tasks, query_tasks'[u].execution # NoExecution
                 PROVE  LET execution == query_tasks'[u].execution IN
                        /\ execution.run_id \in 1..n
                        /\ query_runs'[execution.run_id] =
                             Run(u, execution.request_id, execution.status)
      BY <1>2 DEF ExecutionNamesRun
    <2>1. u \notin gone
      BY <1>3 DEF NoRow
    <2>2. query_tasks'[u] = query_tasks[u]
      BY <1>3, <2>1
    <2> DEFINE f == query_tasks[u].execution.run_id
    <2>3. f \in 1..n /\ query_runs[f] = Run(u, query_tasks[u].execution.request_id,
                                            query_tasks[u].execution.status)
      BY <1>1, <2>2 DEF RunsInv, ExecutionNamesRun
    <2>4. query_runs[f].task_id \notin gone
      BY <2>1, <2>3 DEF Run
    <2>5. QED
      BY <1>2, <2>2, <2>3, <2>4
  <1>8. LatestExecution'
    <2> SUFFICES ASSUME NEW u \in Tasks, NEW i \in 1..n,
                        query_runs'[i].task_id = u, query_runs'[i].request_id # NoRequest
                 PROVE  /\ query_tasks'[u].execution # NoExecution
                        /\ i <= query_tasks'[u].execution.run_id
      BY <1>2 DEF LatestExecution
    <2>1. query_runs'[i] = query_runs[i] /\ u \in Tasks \ gone
      BY <1>5, TasksAssumption
    <2>2. QED
      BY <1>1, <1>3, <2>1 DEF RunsInv, LatestExecution
  <1>9. OnlyKeysRun'
    BY <1>1, <1>2, <1>4 DEF RunsInv, OnlyKeysRun
  <1>10. SucceededRunIsReported'
    <2> SUFFICES ASSUME NEW u \in Tasks, NEW i \in 1..n,
                        query_runs'[i].task_id = u, query_runs'[i].status = "succeeded"
                 PROVE  /\ query_tasks'[u].status = "SUCCEEDED"
                        /\ query_tasks'[u].execution.run_id = i
                        /\ chat_messages'[u] # <<>>
                        /\ chat_messages'[u][Len(chat_messages'[u])]
                             = Message("query_result", i)
      BY <1>2 DEF SucceededRunIsReported, LastMessage
    <2>1. query_runs'[i] = query_runs[i] /\ u \in Tasks \ gone
      BY <1>5, TasksAssumption
    <2>2. query_tasks'[u] = query_tasks[u] /\ chat_messages'[u] = chat_messages[u]
      BY <1>3, <2>1
    <2>3. QED
      BY <1>1, <2>1, <2>2 DEF RunsInv, SucceededRunIsReported, LastMessage
  <1>11. RetryRunsOnce'
    <2> SUFFICES ASSUME NEW i \in 1..n, NEW j \in 1..n, i < j,
                        query_runs'[i].status \in {"running", "succeeded"},
                        query_runs'[j].status \in {"running", "succeeded"},
                        query_runs'[i].task_id = query_runs'[j].task_id,
                        query_runs'[i].task_id # NoTask,
                        query_runs'[i].request_id = query_runs'[j].request_id
                 PROVE  \E k \in i + 1 .. j - 1 :
                          /\ query_runs'[k].task_id = query_runs'[i].task_id
                          /\ query_runs'[k].request_id # query_runs'[i].request_id
      BY <1>2 DEF RetryRunsOnce
    <2>1. /\ query_runs'[i] = query_runs[i] /\ query_runs'[j] = query_runs[j]
          /\ query_runs[i].task_id \in Tasks \ gone
      BY <1>5
    <2>2. PICK k \in i + 1 .. j - 1 :
            /\ query_runs[k].task_id = query_runs[i].task_id
            /\ query_runs[k].request_id # query_runs[i].request_id
      BY <1>1, <2>1 DEF RunsInv, RetryRunsOnce
    <2>3. k \in 1..n
      BY <1>1
    <2>4. query_runs'[k] = query_runs[k]
      BY <1>2, <2>1, <2>2, <2>3
    <2>5. QED
      BY <2>1, <2>2, <2>4
  <1>12. QED
    BY <1>6, <1>7, <1>8, <1>9, <1>10, <1>11 DEF RunsInv

LEMMA SilentStep ==
  ASSUME BaseInv, GoneIsSilent, StepKind
  PROVE  GoneIsSilent'
  <1> SUFFICES ASSUME NEW t \in Tasks, ~Exists(t)'
               PROVE  chat_messages'[t] = <<>>
    BY DEF GoneIsSilent, Exists
  <1>1. CASE Untouched(t)
    BY <1>1 DEF Untouched, GoneIsSilent, Exists
  <1>2. CASE Removed(t)
    BY <1>2 DEF Removed
  <1>3. ASSUME NEW u \in Tasks, Alone(u)
        PROVE  Untouched(t)
    <2>1. t # u
      BY <1>3, WrittenTask
    <2>2. QED
      BY <1>3, <2>1 DEF Alone
  <1>4. ASSUME NEW u \in Tasks, Submitted(u)
        PROVE  Untouched(t)
    BY <1>4 DEF Submitted, Exists
  <1>5. ASSUME NEW gone \in SUBSET Tasks, Forgotten(gone)
        PROVE  Untouched(t) \/ Removed(t)
    BY <1>5 DEF Forgotten
  <1>6. CASE UNCHANGED <<query_tasks, chat_messages, issued, query_runs>>
    BY <1>6 DEF GoneIsSilent, Exists
  <1>7. QED
    BY <1>1, <1>2, <1>3, <1>4, <1>5, <1>6
    DEF StepKind, Moved, Answered, Registered, Closed

\* Part 5, put together.
LEMMA RunsStep ==
  ASSUME BaseInv, RunsInv, StepKind
  PROVE  RunsInv'
  <1>0. GoneIsSilent'
    BY SilentStep DEF RunsInv
  <1>1. CASE UNCHANGED <<query_tasks, chat_messages, issued, query_runs>>
    BY <1>0, <1>1, KeptRuns DEF Untouched, Exists
  <1>2. ASSUME NEW t \in Tasks, Submitted(t)
        PROVE  RunsInv'
    <2>1. ~Exists(t) /\ query_tasks[t].status # "SUCCEEDED"
      BY <1>2 DEF Submitted, BaseInv, SafeInv, Known, Exists
    <2>2. /\ \A u \in Tasks : Exists(u) => Exists(u)'
          /\ \A u \in Tasks :
               \/ query_tasks'[u].execution = query_tasks[u].execution
               \/ ~Exists(u) /\ query_tasks'[u].execution = NoExecution
          /\ \A u \in Tasks : query_tasks[u].status = "SUCCEEDED" => Untouched(u)
      BY <1>2, <2>1 DEF Submitted, Untouched, Exists
    <2>3. QED
      BY <1>0, <1>2, <2>2, KeptRuns DEF Submitted
  <1>3. ASSUME NEW t \in Tasks, Alone(t), query_runs' = query_runs,
               query_tasks'[t].execution = query_tasks[t].execution
        PROVE  RunsInv'
    <2>1. /\ Exists(t)' /\ query_tasks[t].status # "SUCCEEDED"
          /\ \A u \in Tasks \ {t} : Untouched(u)
      BY <1>3, WrittenTask
    <2>2. /\ \A u \in Tasks : Exists(u) => Exists(u)'
          /\ \A u \in Tasks : query_tasks'[u].execution = query_tasks[u].execution
          /\ \A u \in Tasks : query_tasks[u].status = "SUCCEEDED" => Untouched(u)
      BY <1>3, <2>1 DEF Untouched, Exists
    <2>3. QED
      BY <1>0, <1>3, <2>2, KeptRuns
  <1>4. ASSUME NEW t \in Tasks, Moved(t)
        PROVE  RunsInv'
    <2>1. Alone(t) /\ query_tasks'[t].execution = query_tasks[t].execution
      BY <1>4 DEF Moved
    <2>2. ASSUME NEW status \in {"failed", "success", "unsupported"},
                 query_runs' = Append(query_runs, Run(t, NoRequest, status))
          PROVE  RunsInv'
      <3>1. status \in RunStatus \ {"succeeded"} /\ status # "running"
        BY DEF RunStatus
      <3>2. QED
        BY <1>0, <2>1, <2>2, <3>1, AddedRun
    <2>3. QED
      BY <1>3, <1>4, <2>1, <2>2 DEF Moved
  <1>5. ASSUME NEW t \in Tasks, Answered(t)
        PROVE  RunsInv'
    BY <1>3, <1>5 DEF Answered
  <1>6. ASSUME NEW t \in Tasks, NEW r \in Requests,
               NEW status \in {"running", "failed", "unsupported"},
               Registered(t, r, status)
        PROVE  RunsInv'
    <2>1. /\ Alone(t) /\ r # query_tasks[t].execution.request_id
          /\ query_tasks'[t].execution =
               [request_id |-> r, run_id |-> Len(query_runs) + 1, status |-> status]
          /\ query_runs' = Append(query_runs, Run(t, r, status))
      BY <1>6 DEF Registered, IsLastExecution
    <2>2. r # NoRequest /\ status \in RunStatus \ {"succeeded"}
      BY RequestsAssumption DEF RunStatus
    <2>3. QED
      BY <1>0, <2>1, <2>2, AddedRun
  <1>7. ASSUME NEW t \in Tasks, NEW status \in {"succeeded", "failed"}, Closed(t, status)
        PROVE  RunsInv'
    BY <1>0, <1>7, ClosedRun
  <1>8. ASSUME NEW gone \in SUBSET Tasks, Forgotten(gone)
        PROVE  RunsInv'
    BY <1>0, <1>8, ForgottenRuns
  <1>9. QED
    BY <1>1, <1>2, <1>4, <1>5, <1>6, <1>7, <1>8 DEF StepKind

LEMMA RunsInit == Init => RunsInv
  BY DEF Init, RunsInv, RunsKnown, GoneIsSilent, ExecutionNamesRun, LatestExecution,
         OnlyKeysRun, SucceededRunIsReported, RetryRunsOnce, NoRow

-------------------------------------------------------------------------------
(* Part 6: answers *)

\* The answers of a transcript: each to a question asked under an earlier version
\* of the row, each in state_json, each to a question of its own.
Linked(row, transcript) ==
  \A i \in DOMAIN transcript :
    transcript[i].kind = "clarification_answer" =>
      /\ transcript[i].ref < row.version
      /\ \E k \in DOMAIN row.answers : row.answers[k].id = transcript[i].ref
      /\ \A j \in DOMAIN transcript :
           IsAnswerTo(transcript[j], transcript[i].ref) => i = j

\* A clarification carries its id as the version of its token.
AnswersInv ==
  \A t \in Tasks :
    /\ query_tasks[t].clarification.id = query_tasks[t].clarification.task_version
    /\ Linked(query_tasks[t], chat_messages[t])

LEMMA LinkedGrows ==
  ASSUME NEW row \in Row, NEW new \in Row, NEW s \in Seq(MessageRow),
         NEW said \in Seq(MessageRow), NoAnswerIn(said), Linked(row, s),
         new.version >= row.version, new.answers = row.answers
  PROVE  Linked(new, s \o said)
  <1> DEFINE grown == s \o said
  <1>1. /\ Len(s) \in Nat /\ Len(said) \in Nat
        /\ DOMAIN s = 1..Len(s) /\ DOMAIN said = 1..Len(said)
        /\ DOMAIN grown = 1..(Len(s) + Len(said))
        /\ \A i \in 1..Len(s) : grown[i] = s[i]
        /\ \A i \in 1..(Len(s) + Len(said)) :
             i \notin 1..Len(s) => /\ i - Len(s) \in 1..Len(said)
                                   /\ grown[i] = said[i - Len(s)]
    BY ConcatProperties
  <1> HIDE DEF grown
  <1>2. \A i \in DOMAIN grown :
          grown[i].kind = "clarification_answer" => i \in DOMAIN s /\ grown[i] = s[i]
    BY <1>1 DEF NoAnswerIn
  <1>a. \A i \in DOMAIN s : s[i] \in MessageRow
    OBVIOUS
  <1>3. \A i \in DOMAIN s : s[i].ref \in Nat
    BY <1>a DEF MessageRow
  <1>4. row.version \in Nat /\ new.version \in Nat
    BY BoundsAssumption DEF Row
  <1>5. SUFFICES ASSUME NEW i \in DOMAIN grown,
                        grown[i].kind = "clarification_answer"
                 PROVE  /\ grown[i].ref < new.version
                        /\ \E k \in DOMAIN new.answers : new.answers[k].id = grown[i].ref
                        /\ \A j \in DOMAIN grown :
                             IsAnswerTo(grown[j], grown[i].ref) => i = j
    BY DEF Linked, grown
  <1>6. i \in DOMAIN s /\ grown[i] = s[i]
    BY <1>2, <1>5
  <1>7. /\ s[i].ref < row.version
        /\ \E k \in DOMAIN row.answers : row.answers[k].id = s[i].ref
        /\ \A j \in DOMAIN s : IsAnswerTo(s[j], s[i].ref) => i = j
    BY <1>5, <1>6 DEF Linked
  <1>8. s[i].ref < new.version
    BY <1>3, <1>4, <1>6, <1>7
  <1>9. \A j \in DOMAIN grown : IsAnswerTo(grown[j], grown[i].ref) => i = j
    BY <1>2, <1>6, <1>7 DEF IsAnswerTo
  <1>10. QED
    BY <1>6, <1>7, <1>8, <1>9

\* The answer to the clarification of the present version.
LEMMA LinkedAnswer ==
  ASSUME NEW row \in Row, NEW new \in Row, NEW s \in Seq(MessageRow), Linked(row, s),
         NEW r \in Requests,
         new.version = row.version + 1,
         new.answers = Append(row.answers, [id |-> row.version, request_id |-> r])
  PROVE  /\ Message("clarification_answer", row.version) \in MessageRow
         /\ Linked(new, Append(s, Message("clarification_answer", row.version)))
  <1> DEFINE a == Message("clarification_answer", row.version)
             said == Append(s, a)
             n == Len(s)
             answer == [id |-> row.version, request_id |-> r]
             m == Len(row.answers)
  <1>1. row.version \in Nat /\ row.answers \in Seq([id : Nat, request_id : Requests])
    BY BoundsAssumption DEF Row
  <1>2. /\ a \in MessageRow /\ a.ref = row.version
        /\ answer \in [id : Nat, request_id : Requests] /\ answer.id = row.version
    BY <1>1 DEF Message, MessageRow, MessageKinds
  <1> HIDE DEF a, answer
  <1>3. /\ n \in Nat /\ DOMAIN s = 1..n /\ DOMAIN said = 1..(n + 1)
        /\ said[n + 1] = a /\ \A i \in 1..n : said[i] = s[i] /\ s[i] \in MessageRow
        /\ \A i \in 1..(n + 1) : i \in 1..n \/ i = n + 1
    BY <1>2, AppendLast
  <1>4. /\ m \in Nat /\ DOMAIN row.answers = 1..m /\ DOMAIN new.answers = 1..(m + 1)
        /\ new.answers[m + 1] = answer
        /\ \A k \in 1..m : new.answers[k] = row.answers[k]
    BY <1>1, <1>2, AppendLast DEF answer
  <1>5. \A i \in 1..n : s[i].ref \in Nat
    BY <1>3 DEF MessageRow
  <1> HIDE DEF said, n, m
  <1>6. ASSUME NEW i \in 1..n, s[i].kind = "clarification_answer"
        PROVE  /\ s[i].ref < row.version
               /\ \E k \in DOMAIN row.answers : row.answers[k].id = s[i].ref
               /\ \A j \in DOMAIN s : IsAnswerTo(s[j], s[i].ref) => i = j
    BY <1>3, <1>6 DEF Linked
  <1>7. ASSUME NEW i \in 1..(n + 1), said[i].kind = "clarification_answer"
        PROVE  /\ said[i].ref < new.version
               /\ \E k \in DOMAIN new.answers : new.answers[k].id = said[i].ref
               /\ \A j \in DOMAIN said : IsAnswerTo(said[j], said[i].ref) => i = j
    <2>1. CASE i \in 1..n
      <3>0. said[i] = s[i] /\ s[i].ref \in Nat
        BY <1>3, <1>5, <2>1
      <3>1. /\ s[i].ref < row.version
            /\ \E k \in DOMAIN row.answers : row.answers[k].id = s[i].ref
            /\ \A j \in DOMAIN s : IsAnswerTo(s[j], s[i].ref) => i = j
        BY <1>6, <1>7, <2>1, <3>0
      <3>2. said[i].ref < new.version
        BY <1>1, <3>0, <3>1
      <3>3. \E k \in DOMAIN new.answers : new.answers[k].id = said[i].ref
        <4>1. PICK k \in 1..m : row.answers[k].id = s[i].ref
          BY <1>4, <3>1
        <4>2. k \in 1..(m + 1) /\ new.answers[k] = row.answers[k]
          BY <1>4, <4>1
        <4>3. QED
          BY <1>4, <3>0, <4>1, <4>2
      <3>4. a.ref # s[i].ref
        BY <1>1, <1>2, <3>0, <3>1
      <3>5. ASSUME NEW j \in 1..(n + 1), IsAnswerTo(said[j], said[i].ref)
            PROVE  i = j
        <4>1. j \in 1..n
          BY <1>3, <3>0, <3>4, <3>5 DEF IsAnswerTo
        <4>2. QED
          BY <1>3, <3>0, <3>1, <3>5, <4>1
      <3>6. QED
        BY <1>3, <3>2, <3>3, <3>5
    <2>2. CASE i = n + 1
      <3>1. said[i] = a
        BY <1>3, <2>2
      <3>2. said[i].ref < new.version
        BY <1>1, <1>2, <3>1
      <3>3. m + 1 \in DOMAIN new.answers /\ new.answers[m + 1].id = said[i].ref
        BY <1>2, <1>4, <3>1
      <3>4. ASSUME NEW j \in 1..(n + 1), IsAnswerTo(said[j], said[i].ref)
            PROVE  i = j
        <4>1. CASE j \in 1..n
          <5>1. s[j].kind = "clarification_answer" /\ s[j].ref = row.version
            BY <1>2, <1>3, <3>1, <3>4, <4>1 DEF IsAnswerTo
          <5>2. s[j].ref < row.version
            BY <1>6, <4>1, <5>1
          <5>3. QED
            BY <1>1, <5>1, <5>2
        <4>2. QED
          BY <1>3, <2>2, <4>1
      <3>5. QED
        BY <1>3, <3>2, <3>3, <3>4
    <2>3. QED
      BY <1>3, <1>7, <2>1, <2>2
  <1>8. Linked(new, said)
    BY <1>3, <1>7 DEF Linked
  <1>9. QED
    BY <1>2, <1>8 DEF said, a

LEMMA AnswersStep ==
  ASSUME BaseInv, RunsInv, AnswersInv, StepKind, TypeInv'
  PROVE  AnswersInv'
  <1> SUFFICES ASSUME NEW t \in Tasks
               PROVE  /\ query_tasks'[t].clarification.id
                           = query_tasks'[t].clarification.task_version
                      /\ Linked(query_tasks'[t], chat_messages'[t])
    BY DEF AnswersInv, Linked
  <1> DEFINE row == query_tasks[t]
             new == query_tasks'[t]
             Goal == /\ new.clarification.id = new.clarification.task_version
                     /\ Linked(new, chat_messages'[t])
  <1>1. /\ row \in Row /\ new \in Row /\ chat_messages[t] \in Seq(MessageRow)
        /\ row.version \in Nat /\ new.version \in Nat
    <2>1. /\ row \in Row /\ new \in Row /\ chat_messages[t] \in Seq(MessageRow)
      BY DEF BaseInv, SafeInv, TypeInv, TypeOK
    <2>2. row.version \in 0..MaxVersion /\ new.version \in 0..MaxVersion
      BY <2>1 DEF Row
    <2>3. QED
      BY <2>1, <2>2, BoundsAssumption
  <1>2. /\ row.clarification.id = row.clarification.task_version
        /\ Linked(row, chat_messages[t])
    BY DEF AnswersInv
  <1>3. CASE Untouched(t)
    BY <1>2, <1>3 DEF Untouched
  <1>4. CASE Removed(t)
    BY <1>4 DEF Removed, NoRow, NoClarification, Linked
  <1> DEFINE Grows == \E said \in Seq(MessageRow) :
                         NoAnswerIn(said) /\ chat_messages'[t] = chat_messages[t] \o said
  <1>6. ASSUME Alone(t), Grows, new.answers = row.answers,
               new.clarification.id = new.clarification.task_version
        PROVE  Goal
    <2>1. new.version >= row.version
      BY <1>1, <1>6 DEF Alone, Rewritten
    <2>2. QED
      BY <1>1, <1>2, <1>6, <2>1, LinkedGrows
  <1>7. CASE Submitted(t)
    <2>1. chat_messages[t] = <<>>
      BY <1>7 DEF Submitted, RunsInv, GoneIsSilent, BaseInv, SafeInv, Known
    <2>2. chat_messages'[t] = <<Message("question", 0)>>
      BY <1>7, <2>1 DEF Submitted
    <2>3. Linked(new, chat_messages'[t])
      BY <2>2 DEF Linked, Message
    <2>4. QED
      BY <1>7, <2>3 DEF Submitted, NoClarification
  <1>8. CASE Moved(t)
    BY <1>6, <1>8 DEF Moved
  \* The clarification that is answered is the one of the present version.
  <1>9. CASE Answered(t)
    <2> DEFINE id == row.clarification.id
               a == Message("clarification_answer", id)
               one == <<a>>
    <2>1. /\ Alone(t) /\ row.clarification # NoClarification
          /\ new.clarification.id = new.clarification.task_version
      BY <1>9 DEF Answered
    <2>2. PICK r \in Requests :
            new.answers = Append(row.answers, [id |-> id, request_id |-> r])
      BY <1>9 DEF Answered
    <2>3. PICK said \in Seq(MessageRow) :
            NoAnswerIn(said) /\ chat_messages'[t] = chat_messages[t] \o (one \o said)
      BY <1>9 DEF Answered
    <2>4. id = row.version
      BY <1>2, <2>1 DEF BaseInv, SafeInv, WaitingMeansAsked
    <2>5. new.version = row.version + 1
      BY <2>1 DEF Alone, Rewritten
    <2>6. a \in MessageRow /\ Linked(new, Append(chat_messages[t], a))
      BY <1>1, <1>2, <2>2, <2>4, <2>5, LinkedAnswer
    <2> HIDE DEF a, one
    <2>7. Append(chat_messages[t], a) \in Seq(MessageRow)
      BY <1>1, <2>6, AppendProperties
    <2>a. chat_messages[t] \o (one \o said) = Append(chat_messages[t], a) \o said
      <3>1. one \in Seq(MessageRow)
        BY <2>6 DEF one
      <3>2. (chat_messages[t] \o one) \o said = chat_messages[t] \o (one \o said)
        <4> DEFINE s == chat_messages[t]
        <4>1. s \in Seq(MessageRow)
          BY <1>1
        <4> HIDE DEF s
        <4>2. (s \o one) \o said = s \o (one \o said)
          BY <3>1, <4>1, ConcatAssociative
        <4>3. QED
          BY <4>2 DEF s
      <3>3. chat_messages[t] \o one = Append(chat_messages[t], a)
        BY <1>1, <2>6, AppendIsConcat DEF one
      <3>4. QED
        BY <3>2, <3>3
    <2>8. chat_messages'[t] = Append(chat_messages[t], a) \o said
      BY <2>3, <2>a
    <2>b. new.version >= new.version
      BY <1>1
    <2>9. Linked(new, Append(chat_messages[t], a) \o said)
      BY <1>1, <2>3, <2>6, <2>7, <2>b, LinkedGrows
    <2>10. QED
      BY <2>1, <2>8, <2>9
  <1>10. ASSUME NEW r \in Requests, NEW status, Registered(t, r, status)
         PROVE  Goal
    BY <1>2, <1>6, <1>10 DEF Registered
  <1>11. ASSUME NEW status, Closed(t, status)
         PROVE  Goal
    <2> DEFINE m == Message("query_result", row.execution.run_id)
    <2>1. m \in MessageRow /\ chat_messages'[t] = Append(chat_messages[t], m)
      BY <1>11 DEF Closed
    <2>2. <<m>> \in Seq(MessageRow) /\ NoAnswerIn(<<m>>)
      BY <2>1 DEF NoAnswerIn, Message
    <2> HIDE DEF m
    <2>3. chat_messages'[t] = chat_messages[t] \o <<m>>
      BY <1>1, <2>1, AppendIsConcat
    <2>4. QED
      BY <1>2, <1>6, <1>11, <2>2, <2>3 DEF Closed
  <1>12. ASSUME NEW u \in Tasks, u # t, Submitted(u) \/ Alone(u)
         PROVE  Untouched(t)
    BY <1>12 DEF Submitted, Alone
  <1>13. ASSUME NEW gone \in SUBSET Tasks, Forgotten(gone)
         PROVE  Untouched(t) \/ Removed(t)
    BY <1>13 DEF Forgotten
  <1>14. CASE UNCHANGED <<query_tasks, chat_messages, issued, query_runs>>
    BY <1>3, <1>14 DEF Untouched
  <1>15. ASSUME NEW u \in Tasks, Submitted(u) \/ Moved(u) \/ Answered(u)
         PROVE  Goal
    BY <1>3, <1>7, <1>8, <1>9, <1>12, <1>15 DEF Moved, Answered
  <1>16. ASSUME NEW u \in Tasks, NEW r \in Requests, NEW status, Registered(u, r, status)
         PROVE  Goal
    BY <1>3, <1>10, <1>12, <1>16 DEF Registered
  <1>17. ASSUME NEW u \in Tasks, NEW status, Closed(u, status)
         PROVE  Goal
    BY <1>3, <1>11, <1>12, <1>17 DEF Closed
  <1>18. QED
    BY <1>3, <1>4, <1>13, <1>14, <1>15, <1>16, <1>17 DEF StepKind

LEMMA AnswersInit == Init => AnswersInv
  BY DEF Init, AnswersInv, Linked, NoRow, NoClarification

-------------------------------------------------------------------------------
(* Everything that is invariant of QueryTask *)

TaskInv == BaseInv /\ RunsInv /\ AnswersInv

LEMMA TaskInvInit == Init => TaskInv
  BY BaseInit, RunsInit, AnswersInit DEF TaskInv

LEMMA TaskInvStep == TaskInv /\ [Next]_vars => TaskInv'
  BY KindOfStep, BaseStep, RunsStep, AnswersStep DEF TaskInv, BaseInv, SafeInv

LEMMA TaskInvAlways == Spec => []TaskInv
  BY TaskInvInit, TaskInvStep, PTL DEF Spec

-------------------------------------------------------------------------------
(* The theorems *)

LEMMA InvariantImplies ==
  TaskInv =>
    /\ TypeOK /\ OneOutcome /\ WaitingMeansAsked /\ SnapshotsHold /\ ExecutorOwnsTask
    /\ ExecutionMatchesRun /\ SucceededRunIsReported /\ RetryRunsOnce /\ AnsweredOnce
  <1>1. RunsInv => ExecutionMatchesRun
    <2> SUFFICES ASSUME RunsInv, NEW t \in Tasks,
                        query_tasks[t].execution # NoExecution
                 PROVE  LET execution == query_tasks[t].execution IN
                        /\ execution.run_id \in DOMAIN query_runs
                        /\ query_runs[execution.run_id].task_id = t
                        /\ query_runs[execution.run_id].status = execution.status
      BY DEF ExecutionMatchesRun
    <2> DEFINE execution == query_tasks[t].execution
    <2>1. /\ execution.run_id \in DOMAIN query_runs
          /\ query_runs[execution.run_id] = Run(t, execution.request_id, execution.status)
      BY DEF RunsInv, ExecutionNamesRun
    <2>2. QED
      BY <2>1 DEF Run
  <1>2. AnswersInv => AnsweredOnce
    BY DEF AnswersInv, Linked, AnsweredOnce
  <1>3. QED
    BY <1>1, <1>2 DEF TaskInv, BaseInv, RunsInv, SafeInv, TypeInv

\* The execution a row remembers is a run of that task with that outcome:
\* state_json and query_runs, written by three transactions of two operations,
\* never drift apart.
THEOREM StateMatchesRuns == Spec => []ExecutionMatchesRun
  BY InvariantImplies, TaskInvAlways, PTL

\* Of the executions of a task that overlap at most one counts, and it is the one
\* whose result the user is shown.
THEOREM OneRunCounts == Spec => []SucceededRunIsReported
  BY InvariantImplies, TaskInvAlways, PTL

\* A retry under the key of the last execution starts no other.
THEOREM RetriesAreReplayed == Spec => []RetryRunsOnce
  BY InvariantImplies, TaskInvAlways, PTL

\* No clarification is answered twice, and no answer is lost from state_json.
THEOREM NoAnswerTwice == Spec => []AnsweredOnce
  BY InvariantImplies, TaskInvAlways, PTL

\* A handler that was at work on a task when its conversation was deleted writes
\* no row, no message and no run for it.
THEOREM NothingComesBack == Spec => DeletedStaysDeleted
  <1>1. BaseInv /\ RunsInv /\ [Next]_vars =>
          [\A t \in issued :
             ~Exists(t) =>
               /\ ~Exists(t)' /\ chat_messages[t]' = <<>>
               /\ \A i \in DOMAIN query_runs' : query_runs'[i].task_id # t]_vars
    <2> SUFFICES ASSUME BaseInv, RunsInv, [Next]_vars, NEW t \in issued, ~Exists(t)
                 PROVE  /\ ~Exists(t)' /\ chat_messages'[t] = <<>>
                        /\ \A i \in DOMAIN query_runs' : query_runs'[i].task_id # t
      OBVIOUS
    <2>1. t \in Tasks
      BY DEF BaseInv, SafeInv, TypeInv, TypeOK
    <2>2. RunsInv'
      BY KindOfStep, RunsStep
    <2>3. Untouched(t) \/ Removed(t)
      BY <2>1, TaskStep DEF BaseInv, TaskMoves, Created, Rewritten
    <2>4. query_tasks'[t].status = "NONE"
      BY <2>3 DEF Untouched, Removed, Exists, NoRow
    <2>5. chat_messages'[t] = <<>>
      BY <2>1, <2>2, <2>4 DEF RunsInv, GoneIsSilent, Exists
    <2>6. \A i \in DOMAIN query_runs' : query_runs'[i].task_id # t
      BY <2>1, <2>2, <2>4, TasksAssumption DEF RunsInv, RunsKnown, Exists
    <2>7. QED
      BY <2>4, <2>5, <2>6 DEF Exists
  <1>2. QED
    BY <1>1, TaskInvAlways, PTL DEF TaskInv, Spec, DeletedStaysDeleted

-------------------------------------------------------------------------------
(* Part 7: QueryTask implements TaskLifecycle: every step of the services is, *)
(* to a watcher, a step of the lifecycle or no step at all.                   *)

\* The watcher's view of one task.
Look(t) == [status |-> query_tasks[t].status, stage |-> query_tasks[t].stage]

LEMMA LifeOfTask == \A t \in Tasks : LifeOf[t] = Look(t) /\ LifeOf'[t] = Look(t)'
  BY DEF LifeOf, Look

LEMMA ToldTask == \A t \in Tasks : t \in Told <=> ~NoOutcomeIn(chat_messages[t])
  BY DEF Told, NoOutcomeIn

LEMMA ToldTaskNext == \A t \in Tasks : t \in Told' <=> ~NoOutcomeIn(chat_messages'[t])
  BY DEF Told, NoOutcomeIn

\* A step that writes one task moves the watcher's view of that task only.
LEMMA LookMoves ==
  ASSUME NEW t \in Tasks, \A u \in Tasks \ {t} : Untouched(u)
  PROVE  /\ LifeOf' = [LifeOf EXCEPT ![t] = Look(t)']
         /\ \A u \in Tasks \ {t} : u \in Told' <=> u \in Told
  <1>1. LifeOf' = [LifeOf EXCEPT ![t] = Look(t)']
    BY DEF LifeOf, Look, Untouched
  <1>2. \A u \in Tasks \ {t} : chat_messages'[u] = chat_messages[u]
    BY DEF Untouched
  <1>3. QED
    BY <1>1, <1>2, ToldTask, ToldTaskNext

LEMMA TellsNobody ==
  ASSUME NEW t \in Tasks, \A u \in Tasks \ {t} : u \in Told' <=> u \in Told,
         t \notin Told, t \notin Told'
  PROVE  Told' = Told
  <1>1. Told \subseteq Tasks /\ Told' \subseteq Tasks
    BY DEF Told
  <1>2. QED
    BY <1>1

LEMMA TellsOne ==
  ASSUME NEW t \in Tasks, \A u \in Tasks \ {t} : u \in Told' <=> u \in Told,
         t \in Told'
  PROVE  Told' = Told \cup {t}
  <1>1. Told \subseteq Tasks /\ Told' \subseteq Tasks
    BY DEF Told
  <1>2. QED
    BY <1>1

\* The lifecycle's tables are the services' tables.
LEMMA SameTables ==
  ASSUME NEW a, NEW b, NEW c, NEW d, CanTransition(a, b, c, d)
  PROVE  Lifecycle!CanTransition(a, b, c, d)
  BY DEF CanTransition, Status, Stage, StatusSuccessors, StageSuccessors,
     Lifecycle!CanTransition, Lifecycle!Status, Lifecycle!Stage,
     Lifecycle!StatusSuccessors, Lifecycle!StageSuccessors

\* A task that is submitted is submitted.
LEMMA SubmittedRefines ==
  ASSUME BaseInv, TaskMoves, NEW t \in Tasks, Submitted(t)
  PROVE  Lifecycle!Submit(t)
  <1>1. ~Exists(t)
    BY DEF Submitted, BaseInv, SafeInv, Known
  <1>2. t \notin Told
    BY <1>1, ToldTask DEF BaseInv, SafeInv, OneOutcome, NoOutcomeIn, Exists
  <1>3. Created(t)
    BY <1>1 DEF Submitted, TaskMoves, Untouched, Removed, Rewritten, NoRow, Exists
  <1>4. t \notin Told'
    BY <1>3, ToldTaskNext DEF Created
  <1>5. /\ LifeOf' = [LifeOf EXCEPT ![t] = Look(t)']
        /\ \A u \in Tasks \ {t} : u \in Told' <=> u \in Told
    BY LookMoves DEF Submitted
  <1>6. Told' = Told
    BY <1>2, <1>4, <1>5, TellsNobody
  <1>7. Look(t)' = [status |-> "RUNNING", stage |-> "INTENT_ROUTING"]
    BY DEF Submitted, Look
  <1>8. QED
    BY <1>5, <1>6, <1>7 DEF Submitted, Lifecycle!Submit

\* A task that is written advances or settles.
LEMMA AloneRefines ==
  ASSUME BaseInv, TypeInv', NEW t \in Tasks, Alone(t)
  PROVE  Lifecycle!Next
  <1> DEFINE to == Look(t)'
  <1>1. /\ query_tasks'[t] \in Row /\ issued' = issued
        /\ query_tasks[t].status \in {"RUNNING", "WAITING_USER"}
    BY DEF TypeInv, TypeOK, Alone, Rewritten
  <1>2. to \in Lifecycle!Seen
    BY <1>1 DEF Lifecycle!Seen, Look, Row, Lifecycle!Status, Lifecycle!Stage, Status, Stage
  <1>3. /\ LifeOf' = [LifeOf EXCEPT ![t] = to]
        /\ \A u \in Tasks \ {t} : u \in Told' <=> u \in Told
    BY LookMoves DEF Alone
  <1>4. t \notin Told
    BY <1>1, ActiveTask, ToldTask DEF BaseInv
  <1>5. Lifecycle!Allowed(LifeOf[t], to)
    <2>1. LifeOf[t] = Look(t)
      BY LifeOfTask
    <2>2. LegalMove(t)
      BY DEF Alone
    <2>3. CASE CanTransition(query_tasks[t].status, query_tasks[t].stage,
                             query_tasks'[t].status, query_tasks'[t].stage)
      BY <2>1, <2>3, SameTables DEF Look, Lifecycle!Allowed
    <2>4. QED
      BY <2>1, <2>2, <2>3 DEF LegalMove, Look, Lifecycle!Allowed
  <1>6. LifeOf'[t] = to
    BY LifeOfTask
  <1>7. to.status = query_tasks'[t].status
    BY DEF Look
  <1> HIDE DEF to
  <1>8. CASE GoesOn(t) \/ Asks(t)
    <2>1. to.status \in {"RUNNING", "WAITING_USER", "CANCELLED"}
      BY <1>7, <1>8 DEF GoesOn, Asks
    <2>2. t \notin Told'
      BY <1>8, ToldTaskNext DEF GoesOn, Asks
    <2>3. Told' = Told
      BY <1>3, <1>4, <2>2, TellsNobody
    <2>4. Lifecycle!Advance(t, to)
      BY <1>1, <1>3, <1>5, <2>1, <2>3 DEF Lifecycle!Advance
    <2>5. QED
      BY <1>2, <1>6, <2>4 DEF Lifecycle!Next
  <1>9. CASE Settles(t)
    <2>1. to.status \in {"SUCCEEDED", "FAILED"}
      BY <1>7, <1>9 DEF Settles
    <2>2. t \in Told'
      <3>1. PICK before \in Seq(MessageRow), m \in MessageRow :
              IsOutcome(m) /\ chat_messages'[t] = Append(before, m)
        BY <1>9 DEF Settles
      <3>2. /\ Len(before) + 1 \in DOMAIN chat_messages'[t]
            /\ chat_messages'[t][Len(before) + 1] = m
        BY <3>1, AppendLast
      <3>3. QED
        BY <3>1, <3>2, ToldTaskNext DEF NoOutcomeIn
    <2>3. Told' = Told \cup {t}
      BY <1>3, <2>2, TellsOne
    <2>4. Lifecycle!Settle(t, to)
      BY <1>1, <1>3, <1>4, <1>5, <2>1, <2>3 DEF Lifecycle!Settle
    <2>5. QED
      BY <1>2, <1>6, <2>4 DEF Lifecycle!Next
  <1>10. QED
    BY <1>8, <1>9 DEF Alone, Rewritten

\* Tasks that are deleted are forgotten.
LEMMA ForgottenRefines ==
  ASSUME NEW gone \in SUBSET Tasks, Forgotten(gone)
  PROVE  Lifecycle!Forget(gone)
  <1>1. /\ gone # {} /\ issued' = issued
        /\ \A t \in gone : /\ query_tasks[t].status # "NONE"
                           /\ query_tasks'[t] = NoRow /\ chat_messages'[t] = <<>>
        /\ \A t \in Tasks \ gone : /\ query_tasks'[t] = query_tasks[t]
                                   /\ chat_messages'[t] = chat_messages[t]
    BY DEF Forgotten, Exists, Removed, Untouched
  <1>2. \A t \in gone : LifeOf[t] # Lifecycle!Nothing
    <2> SUFFICES ASSUME NEW t \in gone
                 PROVE  LifeOf[t] # Lifecycle!Nothing
      OBVIOUS
    <2>1. LifeOf[t].status = query_tasks[t].status
      BY DEF LifeOf
    <2>2. Lifecycle!Nothing.status = "NONE"
      BY DEF Lifecycle!Nothing
    <2>3. QED
      BY <1>1, <2>1, <2>2
  <1>3. ASSUME NEW t \in Tasks
        PROVE  LifeOf'[t] = IF t \in gone THEN Lifecycle!Nothing ELSE LifeOf[t]
    <2>1. CASE t \in gone
      <3>1. query_tasks'[t] = NoRow
        BY <1>1, <2>1
      <3>2. LifeOf'[t] = [status |-> query_tasks'[t].status, stage |-> query_tasks'[t].stage]
        BY DEF LifeOf
      <3>3. NoRow.status = "NONE" /\ NoRow.stage = "NONE"
        BY DEF NoRow
      <3>4. LifeOf'[t] = [status |-> "NONE", stage |-> "NONE"]
        BY <3>1, <3>2, <3>3
      <3>5. QED
        BY <2>1, <3>4 DEF Lifecycle!Nothing
    <2>2. CASE t \notin gone
      <3>1. query_tasks'[t] = query_tasks[t]
        BY <1>1, <2>2
      <3>2. LifeOf'[t] = LifeOf[t]
        BY <3>1, LifeOfTask DEF Look
      <3>3. QED
        BY <2>2, <3>2
    <2>3. QED
      BY <2>1, <2>2
  <1>4. LifeOf' = [t \in Tasks |-> IF t \in gone THEN Lifecycle!Nothing ELSE LifeOf[t]]
    <2>1. LifeOf' = [t \in Tasks |-> LifeOf'[t]]
      BY DEF LifeOf
    <2>2. QED
      BY <1>3, <2>1
  <1>5. ASSUME NEW t \in Tasks
        PROVE  t \in Told' <=> t \in Told /\ t \notin gone
    <2>1. CASE t \in gone
      BY <1>1, <2>1, ToldTaskNext DEF NoOutcomeIn
    <2>2. CASE t \notin gone
      BY <1>1, <2>2, ToldTask, ToldTaskNext
    <2>3. QED
      BY <2>1, <2>2
  <1>6. Told' = Told \ gone
    <2>1. Told \subseteq Tasks /\ Told' \subseteq Tasks
      BY DEF Told
    <2>2. QED
      BY <1>5, <2>1
  <1>7. QED
    BY <1>1, <1>2, <1>4, <1>6 DEF Lifecycle!Forget

LEMMA LifecycleInit == Init => Lifecycle!Init
  BY DEF Init, Lifecycle!Init, LifeOf, Told, NoRow, Lifecycle!Nothing

LEMMA LifecycleStep == BaseInv /\ [Next]_vars => [Lifecycle!Next]_(Lifecycle!watched)
  <1> SUFFICES ASSUME BaseInv, [Next]_vars
               PROVE  Lifecycle!Next \/ UNCHANGED Lifecycle!watched
    OBVIOUS
  <1>1. StepKind /\ TaskMoves /\ TypeInv'
    BY KindOfStep, TaskStep, TypeStep DEF BaseInv, SafeInv
  <1>2. CASE UNCHANGED <<query_tasks, chat_messages, issued, query_runs>>
    BY <1>2 DEF Lifecycle!watched, LifeOf, Told
  <1>3. ASSUME NEW t \in Tasks, Submitted(t)
        PROVE  Lifecycle!Next
    BY <1>1, <1>3, SubmittedRefines DEF Lifecycle!Next
  <1>4. ASSUME NEW t \in Tasks, Alone(t)
        PROVE  Lifecycle!Next
    BY <1>1, <1>4, AloneRefines
  <1>5. ASSUME NEW gone \in SUBSET Tasks, Forgotten(gone)
        PROVE  Lifecycle!Next
    BY <1>5, ForgottenRefines DEF Lifecycle!Next
  <1>6. QED
    BY <1>1, <1>2, <1>3, <1>4, <1>5 DEF StepKind, Moved, Answered, Registered, Closed

\* Whatever the handlers, crashes and deletions do, a watcher sees a task take only
\* the moves of the lifecycle, end at most once, and be told its outcome in the
\* very step in which it ends.
THEOREM ServicesImplementLifecycle == Spec => ImplementsLifecycle
  BY LifecycleInit, LifecycleStep, TaskInvAlways, PTL
  DEF TaskInv, Spec, ImplementsLifecycle, Lifecycle!Spec

-------------------------------------------------------------------------------
(* Replies of external channels *)

Kinds == {"none", "ask", "session", "keyless", "reply", "token"}

ReplyKinds == {"reply", "token", "session", "keyless"}

Places == {"none", "current", "correlated", "answering", "analyzing", "executing"}

ContentType ==
  [kind : Kinds, conversation : Conversations \cup {Unsent.conversation},
   ref : [task : Tasks \cup {NoTask}, id : Nat]]

StepType ==
  [at : Places, message : Messages \cup {NoRequest}, task : Tasks \cup {NoTask},
   version : Nat, id : Nat, row : Row]

\* A delivery is typed, and one that is under way has a message and a task.
DeliveriesTyped ==
  /\ content \in [Messages -> ContentType]
  /\ step \in [Handlers -> StepType]
  /\ \A h \in Handlers : ~InStep(h, "none") => step[h].message \in Messages /\ step[h].task \in Tasks

\* What a reply names was shown once: the task was issued, and its row has the
\* version of the clarification or a later one.
RefKnown(m) ==
  content[m].kind \in {"reply", "token"} =>
    LET ref == content[m].ref IN
    /\ ref.task \in issued
    /\ Exists(ref.task) => ref.id <= query_tasks[ref.task].version

\* A delivery that has correlated its reply and has not stored it.
Replying(h) == InStep(h, "correlated") \/ InStep(h, "answering")

\* What a delivery found is still there, and has not got this reply.
Live(h) ==
  LET at == step[h]  row == query_tasks[at.task] IN
  /\ Replying(h)
  /\ Exists(at.task) /\ row.version = at.version
  /\ ~IsProcessed(row, at.message)

\* What correlation decided.
Correlated(h) ==
  LET at == step[h]  said == content[at.message] IN
  Replying(h) =>
    /\ said.kind \in ReplyKinds
    /\ at.task \in issued
    /\ Exists(at.task) => at.version <= query_tasks[at.task].version
    /\ said.kind # "token" => ConversationOf[at.task] = said.conversation
    /\ said.kind = "token" => said.ref = [task |-> at.task, id |-> at.id]
    /\ Live(h) /\ said.kind # "token" => at.task \in Candidates(said)

\* The transaction that answers works for the delivery it belongs to.
Answering(h) ==
  LET at == step[h]  work == handler[h]  said == content[at.message] IN
  InStep(h, "answering") =>
    /\ work.op = "answer" /\ work.task = at.task /\ work.version = at.version
    /\ work.request = at.message /\ work.row.clarification.id = at.id
    /\ ~IsProcessed(work.row, at.message)
    /\ said.kind \in {"reply", "token"} => said.ref = [task |-> at.task, id |-> at.id]

\* Every answer is the reply of a channel, to the question it meant.
AnswerMeant(t, answer) ==
  LET said == content[answer.request_id] IN
  /\ answer.request_id \in Messages
  /\ said.kind \in ReplyKinds
  /\ said.kind \in {"reply", "token"} => said.ref = [task |-> t, id |-> answer.id]
  /\ said.kind # "token" => said.conversation = ConversationOf[t]

AnswersMeant ==
  \A t \in Tasks : \A k \in DOMAIN query_tasks[t].answers :
    AnswerMeant(t, query_tasks[t].answers[k])

\* The inductive invariant of ReplyReachesItsQuestion.
DeliveryInv ==
  /\ TaskInv
  /\ DeliveriesTyped
  /\ \A m \in Messages : RefKnown(m)
  /\ \A h \in Handlers : Correlated(h) /\ Answering(h)
  /\ AnswersMeant

-------------------------------------------------------------------------------

\* No row forgets a request id: it records at most one per version.
WindowSuffices == MaxVersion < ProcessedLimit

HasAnswer(t, m) ==
  \E k \in DOMAIN query_tasks[t].answers : query_tasks[t].answers[k].request_id = m

\* The requests a row has processed, its answers among them.
RowRemembers(row) ==
  /\ Len(row.processed) <= row.version + 1
  /\ \A k \in DOMAIN row.answers : IsProcessed(row, row.answers[k].request_id)

\* While a delivery is live nobody has stored its reply, if it has a key, and
\* other live deliveries of it have the same target.
LiveIsFresh ==
  \A h \in Handlers : Live(h) =>
    /\ Keyed(step[h].message) => \A t \in Tasks : ~HasAnswer(t, step[h].message)
    /\ \A g \in Handlers :
         Live(g) /\ step[g].message = step[h].message => step[g].task = step[h].task

\* The inductive invariant of ReplyActsOnce.
OnceInv ==
  /\ \A t \in Tasks : Exists(t) => RowRemembers(query_tasks[t])
  /\ \A t \in Tasks : ~Exists(t) => query_tasks[t].answers = <<>>
  /\ LiveIsFresh
  /\ ReplyActsOnce
-------------------------------------------------------------------------------
(* Part 8: a delivery takes the steps of QueryTask *)

\* A process dies between two transactions.
DiesBetween ==
  /\ crashes < MaxCrashes /\ crashes' = crashes + 1
  /\ UNCHANGED <<query_tasks, issued, query_runs, chat_messages, handler>>

LEMMA TasksStep ==
  ASSUME TypeOK, DeliveriesTyped, [INext]_integrationVars
  PROVE  [Next]_vars \/ DiesBetween
  <1>1. CASE UNCHANGED integrationVars
    BY <1>1 DEF integrationVars
  <1>2. ASSUME NEW m \in Messages, Send(m)
        PROVE  [Next]_vars
    BY <1>2 DEF Send
  <1>3. ASSUME NEW h \in Handlers, NEW m \in Messages, DeliverQuestion(h, m) \/ Correlate(h, m)
        PROVE  [Next]_vars
    <2>1. CASE Correlate(h, m)
      BY <2>1 DEF Correlate
    <2>2. CASE DeliverQuestion(h, m)
      <3>1. UNCHANGED vars \/ \E t \in Tasks : SubmitQuestion(t, HttpRequest)
        BY <2>2 DEF DeliverQuestion
      <3>2. QED
        BY <3>1, MessagesAssumption DEF Next, ClientRequest
    <2>3. QED
      BY <1>3, <2>1, <2>2
  <1>4. ASSUME NEW h \in Handlers, Advance(h)
        PROVE  [Next]_vars
    <2> DEFINE at == step[h]
    <2>1. /\ at.version \in Nat
          /\ ~InStep(h, "none") => at.message \in Requests /\ at.task \in Tasks
      BY MessagesAssumption DEF DeliveriesTyped, StepType
    <2>2. ASSUME NEW v \in Nat, v < MaxVersion \/ v + 2 <= MaxVersion
          PROVE  v \in 0..MaxVersion
      BY <2>2, BoundsAssumption
    <2>3. CASE BeginReply(h)
      <3>1. /\ BeginAnswer(h, at.task, at.version, at.message)
            /\ at.version < MaxVersion
            /\ ~InStep(h, "none")
        BY <2>3 DEF BeginReply, BeginAnswer, InStep
      <3>2. QED
        BY <2>1, <2>2, <3>1 DEF Next, ClientRequest
    <2>4. CASE CommitReply(h)
      BY <2>4 DEF CommitReply, Next, Complete
    <2>5. CASE ReplayReply(h) \/ RefuseReply(h) \/ Respond(h)
      BY <2>5 DEF ReplayReply, RefuseReply, Respond
    <2>6. CASE StartAnalysis(h)
      <3>1. /\ BeginAnalyze(h, at.task, at.version)
            /\ at.version < MaxVersion
            /\ ~InStep(h, "none")
        BY <2>6 DEF StartAnalysis, BeginAnalyze, InStep
      <3>2. QED
        BY <2>1, <2>2, <3>1 DEF Next, ClientRequest
    <2>7. CASE EndAnalysis(h)
      BY <2>7 DEF EndAnalysis, Next, Complete
    <2>8. CASE StartExecution(h)
      <3>1. /\ \/ ExecutePrepare(h, at.task, at.version, at.message)
               \/ ExecutePlanFails(at.task, at.version, at.message)
            /\ at.version + 2 <= MaxVersion
            /\ ~InStep(h, "none")
        BY <2>8 DEF StartExecution, ExecutePrepare, ExecutePlanFails, MayExecute, InStep
      <3>2. QED
        BY <2>1, <2>2, <3>1 DEF Next, ClientRequest
    <2>9. CASE EndExecution(h)
      BY <2>9 DEF EndExecution, Next, Complete
    <2>10. CASE DeliveryRefused(h)
      BY <2>10 DEF DeliveryRefused, Next, Complete
    <2>11. QED
      BY <1>4, <2>3, <2>4, <2>5, <2>6, <2>7, <2>8, <2>9, <2>10 DEF Advance
  <1>5. ASSUME NEW h \in Handlers, DeliveryCrashes(h)
        PROVE  [Next]_vars \/ DiesBetween
    BY <1>5 DEF DeliveryCrashes, DiesBetween, Next
  <1>6. ASSUME NEW h \in Handlers, BrowserCancels(h)
        PROVE  [Next]_vars
    <2>1. ASSUME NEW t \in Tasks, BeginCancel(h, t, query_tasks[t].version)
          PROVE  [Next]_vars
      <3>1. query_tasks[t].version \in 0..MaxVersion
        BY DEF TypeOK, Row
      <3>2. QED
        BY <2>1, <3>1 DEF Next, ClientRequest
    <2>2. QED
      BY <1>6, <2>1 DEF BrowserCancels, Next, Complete
  <1>7. ASSUME NEW c \in Conversations, BrowserDeletes(c)
        PROVE  [Next]_vars
    BY <1>7 DEF BrowserDeletes, Next, ClientRequest
  <1>8. QED
    BY <1>1, <1>2, <1>3, <1>4, <1>5, <1>6, <1>7 DEF INext

\* Nothing that is invariant of the tasks depends on who died.
LEMMA TaskInvKept ==
  ASSUME TaskInv, DiesBetween
  PROVE  TaskInv'
  <1>1. TypeInv'
    BY BoundsAssumption DEF DiesBetween, TaskInv, BaseInv, SafeInv, TypeInv, TypeOK, HandlersWellFormed
  <1>2. /\ Known' /\ SnapshotsHold' /\ OneOutcome' /\ WaitingMeansAsked'
        /\ ExecutorOwnsTask' /\ RunningStages'
    BY DEF DiesBetween, TaskInv, BaseInv, SafeInv, Known, NotAhead, SnapshotsHold, SnapshotHolds,
           StillCurrent, Analyzable, OneOutcome, LastMessage, WaitingMeansAsked,
           ExecutorOwnsTask, RunningStages, Exists
  <1>3. RunsInv'
    BY DEF DiesBetween, TaskInv, RunsInv, RunsKnown, GoneIsSilent, ExecutionNamesRun,
           LatestExecution, OnlyKeysRun, SucceededRunIsReported, RetryRunsOnce, Exists, LastMessage
  <1>4. AnswersInv'
    BY DEF DiesBetween, TaskInv, AnswersInv
  <1>5. QED
    BY <1>1, <1>2, <1>3, <1>4 DEF TaskInv, BaseInv, SafeInv

LEMMA TasksStaySound ==
  ASSUME TaskInv, DeliveriesTyped, [INext]_integrationVars
  PROVE  TaskInv'
  <1>1. TypeOK
    BY InvariantImplies
  <1>2. QED
    BY <1>1, TasksStep, TaskInvStep, TaskInvKept

-------------------------------------------------------------------------------
(* Part 9: what a step does to one row *)

RowNew(t) ==
  LET new == query_tasks'[t] IN
  /\ t \notin issued
  /\ new.version = 0 /\ new.answers = <<>> /\ Len(new.processed) = 1

RowNext(t) ==
  LET row == query_tasks[t]  new == query_tasks'[t] IN
  /\ Exists(t)
  /\ new.status # "NONE" /\ new.version = row.version + 1
  /\ new.processed = row.processed /\ new.answers = row.answers

RowMoves(t) ==
  \/ query_tasks'[t] = query_tasks[t] \/ query_tasks'[t] = NoRow
  \/ RowNew(t) \/ RowNext(t)

\* The reply of delivery h is stored in its task.
Stored(h) ==
  LET at == step[h]  row == query_tasks[at.task]  new == query_tasks'[at.task] IN
  /\ InStep(h, "answering")
  /\ at.message \in Messages /\ at.task \in Tasks
  /\ Exists(at.task) /\ row.version = at.version /\ row.version < MaxVersion
  /\ ~IsProcessed(row, at.message)
  /\ row.clarification.id = at.id
  /\ new.status # "NONE" /\ new.version = row.version + 1
  /\ new.processed = RecordProcessedRequest(row.processed, at.message)
  /\ new.answers = Append(row.answers, [id |-> at.id, request_id |-> at.message])
  /\ \A u \in Tasks \ {at.task} : query_tasks'[u] = query_tasks[u]

LEMMA RowUpdated ==
  ASSUME TypeOK, NEW t \in Tasks, NEW v, NEW row \in Row,
         UpdateOptimistically(t, v, row), row.status # "NONE",
         row.processed = query_tasks[t].processed, row.answers = query_tasks[t].answers
  PROVE  \A u \in Tasks : RowMoves(u)
  <1>1. /\ query_tasks'[t] = [row EXCEPT !.version = v + 1]
        /\ \A u \in Tasks \ {t} : query_tasks'[u] = query_tasks[u]
        /\ Exists(t) /\ query_tasks[t].version = v
    BY DEF UpdateOptimistically, TypeOK
  <1>2. RowNext(t)
    BY <1>1 DEF RowNext, Row
  <1>3. QED
    BY <1>1, <1>2 DEF RowMoves

LEMMA RowsKept ==
  ASSUME query_tasks' = query_tasks
  PROVE  \A u \in Tasks : RowMoves(u)
  BY DEF RowMoves

LEMMA AnalysisRows ==
  ASSUME TypeInv, NEW h \in Handlers,
         AnalyzeReady(h) \/ AnalyzeAsks(h) \/ AnalyzeFails(h) \/ AnalyzeOutOfScope(h)
  PROVE  \A u \in Tasks : RowMoves(u)
  <1> DEFINE t == handler[h].task
             v == handler[h].version
             row == query_tasks[t]
             question == NewClarification(v, "semantic_slots")
  <1>1. handler[h].op # "idle" /\ TypeOK
    BY DEF AnalyzeReady, AnalyzeAsks, AnalyzeFails, AnalyzeOutOfScope, TypeInv
  <1>2. t \in Tasks /\ row \in Row /\ v \in Nat
    BY <1>1, BusyHandler
  <1>3. NoClarification \in Clarification /\ question \in Clarification
    BY <1>2, ConstantTypes DEF NewClarification, Clarification
  <1>4. CASE AnalyzeReady(h)
    <2> DEFINE new == [row EXCEPT !.status = "RUNNING", !.stage = "LOGICAL_DSL",
                                  !.clarification = NoClarification, !.logical_dsl = TRUE]
    <2>1. new \in Row /\ new.status # "NONE" /\ new.processed = row.processed
          /\ new.answers = row.answers
      BY <1>2, <1>3 DEF Row, Status, Stage
    <2>2. UpdateOptimistically(t, v, new)
      BY <1>4 DEF AnalyzeReady
    <2> HIDE DEF new, t, v
    <2>3. QED
      BY <1>1, <1>2, <2>1, <2>2, RowUpdated
  <1>5. CASE AnalyzeAsks(h)
    <2> DEFINE new == [row EXCEPT !.status = "WAITING_USER", !.stage = "CLARIFICATION",
                                  !.clarification = question, !.logical_dsl = FALSE]
    <2>1. new \in Row /\ new.status # "NONE" /\ new.processed = row.processed
          /\ new.answers = row.answers
      BY <1>2, <1>3 DEF Row, Status, Stage
    <2>2. UpdateOptimistically(t, v, new)
      BY <1>5 DEF AnalyzeAsks
    <2> HIDE DEF new, t, v
    <2>3. QED
      BY <1>1, <1>2, <2>1, <2>2, RowUpdated
  <1>6. CASE AnalyzeFails(h)
    <2>1. PICK stage \in AnalysisFailureStages :
            UpdateOptimistically(t, v, [row EXCEPT !.status = "FAILED", !.stage = stage])
      BY <1>6 DEF AnalyzeFails
    <2> DEFINE new == [row EXCEPT !.status = "FAILED", !.stage = stage]
    <2>2. new \in Row /\ new.status # "NONE" /\ new.processed = row.processed
          /\ new.answers = row.answers
      BY <1>2, <1>3 DEF Row, Status, Stage, AnalysisFailureStages
    <2>3. UpdateOptimistically(t, v, new)
      BY <2>1
    <2> HIDE DEF new, t, v
    <2>4. QED
      BY <1>1, <1>2, <2>2, <2>3, RowUpdated
  <1>7. CASE AnalyzeOutOfScope(h)
    <2> DEFINE new == [row EXCEPT !.status = "SUCCEEDED", !.stage = "RESULT_FORMATTING"]
    <2>1. new \in Row /\ new.status # "NONE" /\ new.processed = row.processed
          /\ new.answers = row.answers
      BY <1>2, <1>3 DEF Row, Status, Stage
    <2>2. UpdateOptimistically(t, v, new)
      BY <1>7 DEF AnalyzeOutOfScope
    <2> HIDE DEF new, t, v
    <2>3. QED
      BY <1>1, <1>2, <2>1, <2>2, RowUpdated
  <1>8. QED
    BY <1>4, <1>5, <1>6, <1>7

LEMMA ExecutionRows ==
  ASSUME TypeInv, NEW h \in Handlers, NEW t \in Tasks, NEW v \in Nat, NEW r \in Requests,
         \/ ExecutePrepare(h, t, v, r) \/ ExecutePlanFails(t, v, r)
         \/ FinishSuccess(h) \/ FinishFailure(h)
  PROVE  \A u \in Tasks : RowMoves(u)
  <1>1. TypeOK /\ query_tasks[t] \in Row
    BY DEF TypeInv, TypeOK
  <1>2. Len(query_runs) + 1 \in Nat
    BY <1>1 DEF TypeOK
  <1>3. CASE ExecutePrepare(h, t, v, r)
    <2> DEFINE execution == [request_id |-> r, run_id |-> Len(query_runs) + 1,
                             status |-> "running"]
               new == [query_tasks[t] EXCEPT !.status = "RUNNING", !.stage = "EXECUTION",
                                             !.execution = execution]
    <2>1. execution \in Execution
      BY <1>2 DEF Execution, RunStatus
    <2>2. /\ new \in Row /\ new.status # "NONE" /\ new.processed = query_tasks[t].processed
          /\ new.answers = query_tasks[t].answers
      BY <1>1, <2>1 DEF Row, Status, Stage
    <2>3. UpdateOptimistically(t, v, new)
      BY <1>3 DEF ExecutePrepare
    <2> HIDE DEF new
    <2>4. QED
      BY <1>1, <2>2, <2>3, RowUpdated
  <1>4. CASE ExecutePlanFails(t, v, r)
    <2>1. PICK status \in {"failed", "unsupported"} :
            UpdateOptimistically(t, v,
              [query_tasks[t] EXCEPT !.status = "FAILED",
                 !.execution = [request_id |-> r, run_id |-> Len(query_runs) + 1,
                                status |-> status]])
      BY <1>4 DEF ExecutePlanFails
    <2> DEFINE execution == [request_id |-> r, run_id |-> Len(query_runs) + 1,
                             status |-> status]
               new == [query_tasks[t] EXCEPT !.status = "FAILED", !.execution = execution]
    <2>2. execution \in Execution
      BY <1>2 DEF Execution, RunStatus
    <2>3. /\ new \in Row /\ new.status # "NONE" /\ new.processed = query_tasks[t].processed
          /\ new.answers = query_tasks[t].answers
      BY <1>1, <2>2 DEF Row, Status, Stage
    <2>4. UpdateOptimistically(t, v, new)
      BY <2>1
    <2> HIDE DEF new
    <2>5. QED
      BY <1>1, <2>3, <2>4, RowUpdated
  <1>5. ASSUME NEW runStatus \in RunStatus, NEW status \in Status, NEW stage \in Stage,
               Finish(h, runStatus, status, stage)
        PROVE  \A u \in Tasks : RowMoves(u)
    <2> DEFINE work == handler[h]
               row == query_tasks[work.task]
               execution == [request_id |-> work.request, run_id |-> work.run,
                             status |-> runStatus]
               new == [row EXCEPT !.status = status, !.stage = stage, !.execution = execution]
    <2>1. work.op = "execute"
      BY <1>5 DEF Finish
    <2>2. /\ work.task \in Tasks /\ row \in Row /\ work.request \in Requests
          /\ work.run \in Nat
      BY <2>1, BusyHandler
    <2>3. execution \in Execution
      BY <2>2 DEF Execution
    <2>4. /\ new \in Row /\ new.status # "NONE" /\ new.processed = row.processed
          /\ new.answers = row.answers
      BY <2>2, <2>3 DEF Row, Status
    <2>5. UpdateOptimistically(work.task, work.version, new)
      BY <1>5 DEF Finish
    <2> HIDE DEF new, work
    <2>6. QED
      BY <1>1, <2>2, <2>4, <2>5, RowUpdated
  <1>6. CASE FinishSuccess(h) \/ FinishFailure(h)
    BY <1>5, <1>6 DEF FinishSuccess, FinishFailure, RunStatus, Status, Stage
  <1>7. QED
    BY <1>3, <1>4, <1>6

LEMMA CancelRows ==
  ASSUME SafeInv, NEW h \in Handlers, Cancel(h)
  PROVE  \A u \in Tasks : RowMoves(u)
  <1> DEFINE work == handler[h]
             new == [work.row EXCEPT !.status = "CANCELLED", !.stage = "CLARIFICATION",
                                     !.clarification = NoClarification]
  <1>1. /\ work.op = "cancel" /\ StillCurrent(h)
        /\ UpdateOptimistically(work.task, work.version, new)
    BY DEF Cancel, UpdateOptimistically, StillCurrent
  <1>2. work.row = query_tasks[work.task] /\ work.task \in Tasks /\ work.row \in Row
    BY <1>1, UnlockedSnapshot, BusyHandler DEF SafeInv
  <1>3. /\ new \in Row /\ new.status # "NONE"
        /\ new.processed = query_tasks[work.task].processed
        /\ new.answers = query_tasks[work.task].answers
    BY <1>2, ConstantTypes DEF Row, Status, Stage
  <1>4. TypeOK
    BY DEF SafeInv, TypeInv
  <1> HIDE DEF new, work
  <1>5. QED
    BY <1>1, <1>2, <1>3, <1>4, RowUpdated

LEMMA SubmitRows ==
  ASSUME TypeOK, NEW t \in Tasks, NEW r \in Requests, SubmitQuestion(t, r)
  PROVE  \A u \in Tasks : RowMoves(u)
  <1>1. /\ t \notin issued
        /\ query_tasks'[t] = [NoRow EXCEPT !.status = "RUNNING", !.stage = "INTENT_ROUTING",
                                           !.processed = RecordProcessedRequest(<<>>, r)]
        /\ \A u \in Tasks \ {t} : query_tasks'[u] = query_tasks[u]
    BY DEF SubmitQuestion, TypeOK
  <1>2. RecordProcessedRequest(<<>>, r) = <<r>>
    BY LimitAssumption DEF RecordProcessedRequest
  <1>3. RowNew(t)
    BY <1>1, <1>2 DEF RowNew, NoRow
  <1>4. QED
    BY <1>1, <1>3 DEF RowMoves

\* A reply that is committed is stored, whatever it leads to.
LEMMA ReplyStored ==
  ASSUME SafeInv, DeliveriesTyped, NEW h \in Handlers, Answering(h), CommitReply(h)
  PROVE  Stored(h)
  <1> DEFINE at == step[h]
             work == handler[h]
             old == work.row
  <1>1. /\ InStep(h, "answering") /\ (AnswerResolves(h) \/ AnswerAsksAgain(h))
        /\ at.message \in Messages /\ at.task \in Tasks
    BY DEF CommitReply, DeliveriesTyped, InStep
  <1>2. /\ work.op = "answer" /\ work.task = at.task /\ work.version = at.version
        /\ work.request = at.message /\ old.clarification.id = at.id
        /\ ~IsProcessed(old, at.message)
    BY <1>1 DEF Answering
  <1>3. PICK moves, messages :
          /\ WriteAnswer(h, moves, messages)
          /\ old \in Row => moves \in Row /\ moves.status \in {"RUNNING", "WAITING_USER"}
    <2>1. old \in Row /\ work.version \in Nat
      BY <1>2, BusyHandler DEF SafeInv
    <2>2. NewClarification(work.version, "semantic_slots") \in Clarification
      BY <2>1 DEF NewClarification, Clarification
    <2>3. CASE AnswerResolves(h)
      <3> DEFINE next == [old EXCEPT !.status = "RUNNING", !.stage = "LOGICAL_DSL",
                                     !.clarification = NoClarification, !.logical_dsl = TRUE]
      <3>1. WriteAnswer(h, next, <<Message("resolved_question", 0)>>)
        BY <2>3 DEF AnswerResolves
      <3>2. next \in Row /\ next.status = "RUNNING"
        BY <2>1, ConstantTypes DEF Row, Status, Stage
      <3> HIDE DEF next
      <3>3. QED
        BY <3>1, <3>2
    <2>4. CASE AnswerAsksAgain(h)
      <3> DEFINE question == NewClarification(work.version, "semantic_slots")
                 next == [old EXCEPT !.status = "WAITING_USER", !.stage = "CLARIFICATION",
                                     !.clarification = question, !.logical_dsl = FALSE]
      <3>1. WriteAnswer(h, next, <<Message("clarification", question.id)>>)
        BY <2>4 DEF AnswerAsksAgain
      <3>2. next \in Row /\ next.status = "WAITING_USER"
        BY <2>1, <2>2 DEF Row, Status, Stage
      <3> HIDE DEF next
      <3>3. QED
        BY <3>1, <3>2
    <2>5. QED
      BY <1>1, <2>3, <2>4
  <1> DEFINE processed == RecordProcessedRequest(old.processed, work.request)
             answers == Append(old.answers, [id |-> old.clarification.id,
                                             request_id |-> work.request])
             new == [moves EXCEPT !.processed = processed, !.answers = answers]
  <1>4. UpdateOptimistically(work.task, work.version, new)
    BY <1>3 DEF WriteAnswer
  <1>5. old = query_tasks[at.task] /\ old \in Row /\ work.version < MaxVersion
    <2>1. StillCurrent(h)
      BY <1>4 DEF UpdateOptimistically, StillCurrent
    <2>2. old = query_tasks[at.task] /\ old \in Row
      BY <1>2, <2>1, UnlockedSnapshot, BusyHandler DEF SafeInv
    <2>3. work.version \in 0..(MaxVersion - 1)
      BY DEF SafeInv, TypeInv, TypeOK, HandlerState
    <2>4. QED
      BY <2>2, <2>3, BoundsAssumption
  <1>6. moves \in Row /\ moves.status # "NONE"
    BY <1>3, <1>5
  <1>7. /\ Exists(at.task) /\ query_tasks[at.task].version = at.version
        /\ query_tasks'[at.task] = [new EXCEPT !.version = at.version + 1]
        /\ \A u \in Tasks \ {at.task} : query_tasks'[u] = query_tasks[u]
    BY <1>1, <1>2, <1>4 DEF UpdateOptimistically, SafeInv, TypeInv, TypeOK
  <1> HIDE DEF processed, answers
  <1>8. LET row == query_tasks'[at.task] IN
        /\ row.status = moves.status /\ row.version = at.version + 1
        /\ row.processed = processed /\ row.answers = answers
    BY <1>6, <1>7 DEF Row
  <1>9. /\ processed = RecordProcessedRequest(query_tasks[at.task].processed, at.message)
        /\ answers = Append(query_tasks[at.task].answers,
                            [id |-> at.id, request_id |-> at.message])
    BY <1>2, <1>5 DEF processed, answers
  <1>10. /\ query_tasks[at.task].version < MaxVersion
         /\ ~IsProcessed(query_tasks[at.task], at.message)
         /\ query_tasks[at.task].clarification.id = at.id
    BY <1>2, <1>5, <1>7
  <1> HIDE DEF work, old, new
  <1>11. QED
    BY <1>1, <1>6, <1>7, <1>8, <1>9, <1>10 DEF Stored

LEMMA RowsStep ==
  ASSUME TaskInv, DeliveriesTyped, \A h \in Handlers : Answering(h), [INext]_integrationVars
  PROVE  \/ \A t \in Tasks : RowMoves(t)
         \/ \E h \in Handlers : CommitReply(h) /\ Stored(h)
  <1> DEFINE Moves == \A t \in Tasks : RowMoves(t)
  <1>0. SafeInv /\ TypeInv /\ TypeOK
    BY DEF TaskInv, BaseInv, SafeInv, TypeInv
  <1>1. CASE UNCHANGED query_tasks
    BY <1>1, RowsKept
  <1>2. ASSUME NEW h \in Handlers, NEW m \in Messages, DeliverQuestion(h, m)
        PROVE  Moves
    <2>1. UNCHANGED query_tasks \/ \E t \in Tasks : SubmitQuestion(t, HttpRequest)
      BY <1>2 DEF DeliverQuestion, vars
    <2>2. QED
      BY <1>0, <2>1, RowsKept, SubmitRows, MessagesAssumption
  <1>3. ASSUME NEW h \in Handlers, EndAnalysis(h)
        PROVE  Moves
    BY <1>0, <1>3, AnalysisRows DEF EndAnalysis
  <1>4. ASSUME NEW h \in Handlers, StartExecution(h) \/ EndExecution(h)
        PROVE  Moves
    <2>1. /\ ~InStep(h, "none") /\ step[h].version \in Nat
          /\ step[h].task \in Tasks /\ step[h].message \in Requests
      BY <1>4, MessagesAssumption
      DEF StartExecution, EndExecution, InStep, DeliveriesTyped, StepType
    <2>2. QED
      BY <1>0, <1>4, <2>1, ExecutionRows DEF StartExecution, EndExecution
  <1>5. ASSUME NEW h \in Handlers, CommitReply(h)
        PROVE  Stored(h)
    BY <1>0, <1>5, ReplyStored
  <1>6. ASSUME NEW h \in Handlers, BrowserCancels(h)
        PROVE  Moves
    <2>1. UNCHANGED query_tasks \/ Cancel(h)
      BY <1>6 DEF BrowserCancels, BeginCancel, Rejected
    <2>2. QED
      BY <1>0, <2>1, RowsKept, CancelRows
  <1>7. ASSUME NEW c \in Conversations, BrowserDeletes(c)
        PROVE  Moves
    BY <1>7 DEF BrowserDeletes, DeleteConversation, RowMoves
  <1>8. ASSUME NEW h \in Handlers,
               \/ BeginReply(h) \/ ReplayReply(h) \/ RefuseReply(h) \/ StartAnalysis(h)
               \/ Respond(h) \/ DeliveryRefused(h) \/ DeliveryCrashes(h)
        PROVE  UNCHANGED query_tasks
    BY <1>8
    DEF BeginReply, BeginAnswer, ReplayReply, RefuseReply, StartAnalysis, BeginAnalyze,
        Respond, DeliveryRefused, Rejected, DeliveryCrashes, Crash, vars
  <1>9. ASSUME NEW m \in Messages, NEW h, Send(m) \/ Correlate(h, m)
        PROVE  UNCHANGED query_tasks
    BY <1>9 DEF Send, Correlate, vars
  <1>10. CASE UNCHANGED integrationVars
    BY <1>1, <1>10 DEF integrationVars, vars
  <1>11. QED
    BY <1>1, <1>2, <1>3, <1>4, <1>5, <1>6, <1>7, <1>8, <1>9, <1>10 DEF INext, Advance

-------------------------------------------------------------------------------
(* Part 10: what a step does to deliveries *)

\* A message is written once.
LEMMA ContentMoves ==
  ASSUME DeliveriesTyped, [INext]_integrationVars, NEW m \in Messages
  PROVE  Send(m) \/ content'[m] = content[m]
  <1>1. ASSUME NEW n \in Messages, Send(n), n # m
        PROVE  content'[m] = content[m]
    BY <1>1 DEF Send, DeliveriesTyped
  <1>2. (\E n \in Messages : Send(n)) \/ content' = content
    BY DEF INext, DeliverQuestion, Correlate, Advance, BeginReply, CommitReply, ReplayReply,
           RefuseReply, StartAnalysis, EndAnalysis, StartExecution, EndExecution, Respond,
           DeliveryRefused, DeliveryCrashes, BrowserCancels, BrowserDeletes, integrationVars
  <1>3. QED
    BY <1>1, <1>2

LEMMA ContentKept ==
  ASSUME DeliveriesTyped, [INext]_integrationVars, NEW m \in Messages, content[m].kind # "none"
  PROVE  content'[m] = content[m]
  <1>1. Unsent.kind = "none"
    BY DEF Unsent, Content
  <1>2. QED
    BY <1>1, ContentMoves DEF Send

\* Where a delivery can be after a step.
LEMMA DeliveryMoves ==
  ASSUME TaskInv, DeliveriesTyped, NEW h \in Handlers, [INext]_integrationVars
  PROVE  \/ step'[h] = step[h] /\ (InStep(h, "answering") => handler'[h] = handler[h])
         \/ ~Replying(h)'
         \/ \E m \in Messages : Correlate(h, m)
         \/ BeginReply(h)
  <1> DEFINE Stays == step'[h] = step[h] /\ (InStep(h, "answering") => handler'[h] = handler[h])
             Off == ~Replying(h)'
  <1>1. /\ step \in [Handlers -> StepType]
        /\ handler \in [Handlers -> HandlerState]
    BY DEF DeliveriesTyped, TaskInv, BaseInv, SafeInv, TypeInv, TypeOK
  <1>2. CASE UNCHANGED <<step, handler>>
    BY <1>2
  \* A handler that goes somewhere, alone.
  <1>3. ASSUME NEW g \in Handlers, NEW s, Goto(g, s), g # h,
               \/ handler' = handler \/ Return(g)
               \/ \E work : Start(g, work)
        PROVE  Stays
    BY <1>1, <1>3 DEF Goto, Return, Start
  <1>4. ASSUME NEW g \in Handlers, NEW s, Goto(g, s), g = h, s.at \notin {"correlated", "answering"}
        PROVE  Off
    <2>1. step'[h] = s
      BY <1>1, <1>4 DEF Goto
    <2>2. QED
      BY <1>4, <2>1 DEF Replying, InStep
  <1>5. NoStep.at = "none"
    BY DEF NoStep, Step
  <1>6. \A m, t, row : Result(m, t, row).at = "current"
    BY DEF Result, Step
  <1>7. ASSUME NEW g \in Handlers, NEW m \in Messages, DeliverQuestion(g, m)
        PROVE  Stays \/ Off
    <2>1. PICK t, row : Goto(g, Result(m, t, row)) /\ handler' = handler
      BY <1>7 DEF DeliverQuestion, SubmitQuestion, vars
    <2>2. QED
      BY <1>3, <1>4, <1>6, <2>1
  <1>8. ASSUME NEW g \in Handlers, NEW m \in Messages, Correlate(g, m), g # h
        PROVE  Stays
    BY <1>3, <1>8 DEF Correlate, vars
  <1>9. ASSUME NEW g \in Handlers, BeginReply(g), g # h
        PROVE  Stays
    BY <1>3, <1>9 DEF BeginReply, BeginAnswer
  <1>10. ASSUME NEW g \in Handlers, CommitReply(g)
         PROVE  Stays \/ Off
    <2>1. Return(g)
      BY <1>10 DEF CommitReply, AnswerResolves, AnswerAsksAgain, WriteAnswer
    <2>2. PICK s : Goto(g, s) /\ s.at \in {"current", "none"}
      BY <1>5, <1>6, <1>10 DEF CommitReply, AfterReply
    <2>3. QED
      BY <1>3, <1>4, <2>1, <2>2
  <1>11. ASSUME NEW g \in Handlers, ReplayReply(g) \/ RefuseReply(g) \/ Respond(g)
         PROVE  Stays \/ Off
    <2>1. PICK s : Goto(g, s) /\ s.at \in {"current", "none"} /\ handler' = handler
      BY <1>5, <1>6, <1>11 DEF ReplayReply, RefuseReply, Respond, AfterReply, vars
    <2>2. QED
      BY <1>3, <1>4, <2>1
  <1>12. ASSUME NEW g \in Handlers, StartAnalysis(g)
         PROVE  Stays \/ Off
    <2>1. PICK s, work : Goto(g, s) /\ s.at = "analyzing" /\ Start(g, work)
      BY <1>1, <1>12 DEF StartAnalysis, BeginAnalyze, StepType
    <2>2. QED
      BY <1>3, <1>4, <2>1
  <1>13. ASSUME NEW g \in Handlers, EndAnalysis(g)
         PROVE  Stays \/ Off
    <2>1. Return(g)
      BY <1>13
      DEF EndAnalysis, AnalyzeReady, AnalyzeAsks, AnalyzeFails, AnalyzeOutOfScope
    <2>2. QED
      BY <1>3, <1>4, <1>6, <1>13, <2>1 DEF EndAnalysis
  <1>14. ASSUME NEW g \in Handlers, StartExecution(g)
         PROVE  Stays \/ Off
    <2>1. CASE ExecutePrepare(g, step[g].task, step[g].version, step[g].message)
               /\ Goto(g, [step[g] EXCEPT !.at = "executing"])
      <3>1. PICK s, work : Goto(g, s) /\ s.at = "executing" /\ Start(g, work)
        BY <1>1, <2>1 DEF ExecutePrepare, StepType
      <3>2. QED
        BY <1>3, <1>4, <3>1
    <2>2. CASE ExecutePlanFails(step[g].task, step[g].version, step[g].message)
               /\ Goto(g, NoStep)
      BY <1>3, <1>4, <1>5, <2>2 DEF ExecutePlanFails
    <2>3. QED
      BY <1>14, <2>1, <2>2 DEF StartExecution
  <1>15. ASSUME NEW g \in Handlers, EndExecution(g) \/ DeliveryRefused(g) \/ DeliveryCrashes(g)
         PROVE  Stays \/ Off
    <2>1. Goto(g, NoStep) /\ (handler' = handler \/ Return(g))
      BY <1>15 DEF EndExecution, FinishSuccess, FinishFailure, Finish, DeliveryRefused, Rejected,
                   DeliveryCrashes, Crash
    <2>2. QED
      BY <1>3, <1>4, <1>5, <2>1
  <1>16. ASSUME NEW g \in Handlers, BrowserCancels(g)
         PROVE  Stays
    <2>1. InStep(g, "none") /\ step' = step /\ (Return(g) \/ \E work : Start(g, work))
      BY <1>16 DEF BrowserCancels, BeginCancel, Cancel, Rejected
    <2>2. QED
      BY <1>1, <2>1 DEF InStep, Return, Start
  <1>17. ASSUME NEW c, BrowserDeletes(c)
         PROVE  Stays
    BY <1>17 DEF BrowserDeletes, DeleteConversation
  <1>18. ASSUME NEW m, Send(m)
         PROVE  Stays
    BY <1>18 DEF Send, vars
  <1>19. CASE UNCHANGED integrationVars
    BY <1>2, <1>19 DEF integrationVars, vars
  <1>20. QED
    BY <1>7, <1>8, <1>9, <1>10, <1>11, <1>12, <1>13, <1>14, <1>15, <1>16, <1>17, <1>18, <1>19
    DEF INext, Advance

-------------------------------------------------------------------------------
(* Part 11: deliveries stay typed *)

LEMMA NothingUnderWay == NoStep \in StepType /\ NoStep.at = "none"
  BY ConstantTypes DEF NoStep, Step, StepType, Places

LEMMA GotoTyped ==
  ASSUME DeliveriesTyped, NEW h \in Handlers, NEW s \in StepType, Goto(h, s),
         s.at # "none" => s.message \in Messages /\ s.task \in Tasks,
         content' = content
  PROVE  DeliveriesTyped'
  BY DEF DeliveriesTyped, Goto, InStep

LEMMA ResultTyped ==
  ASSUME NEW m \in Messages, NEW t \in Tasks, NEW row \in Row
  PROVE  /\ Result(m, t, row) \in StepType
         /\ Result(m, t, row).message \in Messages /\ Result(m, t, row).task \in Tasks
  <1>1. row.version \in Nat
    BY BoundsAssumption DEF Row
  <1>2. QED
    BY <1>1 DEF Result, Step, StepType, Places

\* What is waiting, or has processed a reply, is a task of the session.
LEMMA FoundTasks ==
  ASSUME TaskInv, NEW m
  PROVE  /\ \A t \in Processed(m) \cup Waiting(content[m].conversation) :
              /\ t \in Tasks /\ t \in issued /\ Exists(t)
              /\ ConversationOf[t] = content[m].conversation
              /\ query_tasks[t].version \in Nat /\ query_tasks[t].clarification.id \in Nat
         /\ Candidates(content[m]) \subseteq Waiting(content[m].conversation)
  <1>1. TypeOK /\ Known
    BY DEF TaskInv, BaseInv, SafeInv, TypeInv
  <1>2. \A t \in Tasks : query_tasks[t].version \in Nat /\ query_tasks[t].clarification.id \in Nat
    BY <1>1, BoundsAssumption DEF TypeOK, Row, Clarification
  <1>3. Candidates(content[m]) \subseteq Waiting(content[m].conversation)
    BY DEF Candidates
  <1>4. \A t \in Processed(m) \cup Waiting(content[m].conversation) :
          t \in Tasks /\ Exists(t) /\ ConversationOf[t] = content[m].conversation
    BY DEF Processed, Waiting, Exists
  <1>5. QED
    BY <1>1, <1>2, <1>3, <1>4 DEF Known

\* The only candidate is a candidate, and there is no other.
LEMMA OnlyOne ==
  ASSUME NEW m, NEW target \in OnlyCandidate(m)
  PROVE  \E t \in Tasks :
           /\ Candidates(content[m]) = {t}
           /\ target = Target(t, query_tasks[t].clarification.id)
  <1> DEFINE waiting == Candidates(content[m])
  <1>1. waiting \subseteq Tasks
    BY DEF Candidates, Waiting
  <1>2. IsFiniteSet(waiting)
    BY <1>1, FiniteAssumption, FS_Subset
  <1>3. Cardinality(waiting) = 1
    BY DEF OnlyCandidate
  <1>4. PICK t : waiting = {t}
    BY <1>2, <1>3, FS_Singleton
  <1>5. target \in {Target(u, query_tasks[u].clarification.id) : u \in waiting}
    BY <1>3 DEF OnlyCandidate
  <1>6. QED
    BY <1>1, <1>4, <1>5

\* What build_command returns.
LEMMA TargetFound ==
  ASSUME TaskInv, DeliveriesTyped, NEW m \in Messages, RefKnown(m),
         content[m].kind \in ReplyKinds, NEW target \in Resolved(m)
  PROVE  /\ target.task \in Tasks /\ target.task \in issued
         /\ target.version \in Nat /\ target.id \in Nat
         /\ Exists(target.task) => target.version <= query_tasks[target.task].version
         /\ content[m].kind = "token" =>
              content[m].ref = [task |-> target.task, id |-> target.id]
         /\ content[m].kind # "token" =>
              /\ ConversationOf[target.task] = content[m].conversation
              /\ \/ target.task \in Processed(m)
                 \/ Processed(m) = {} /\ Candidates(content[m]) = {target.task}
  <1> DEFINE said == content[m]
  <1>1. /\ said \in ContentType /\ issued \in SUBSET Tasks
    BY DEF DeliveriesTyped, TaskInv, BaseInv, SafeInv, TypeInv, TypeOK
  <1>2. CASE said.kind = "token"
    <2>1. target = [task |-> said.ref.task, version |-> said.ref.id, id |-> said.ref.id]
      BY <1>2 DEF Resolved
    <2>2. said.ref = [task |-> said.ref.task, id |-> said.ref.id] /\ said.ref.id \in Nat
      BY <1>1 DEF ContentType
    <2>3. QED
      BY <1>1, <1>2, <2>1, <2>2 DEF RefKnown
  <1>3. CASE said.kind # "token" /\ Processed(m) # {}
    <2>1. PICK t \in Processed(m) : target = Target(t, said.ref.id)
      BY <1>3 DEF Resolved
    <2>2. said.ref.id \in Nat
      BY <1>1 DEF ContentType
    <2>3. target.task = t /\ target.version = query_tasks[t].version /\ target.id = said.ref.id
      BY <2>1 DEF Target
    <2>4. QED
      BY <1>3, <2>1, <2>2, <2>3, FoundTasks
  <1>4. CASE said.kind # "token" /\ Processed(m) = {}
    <2>1. target \in OnlyCandidate(m)
      BY <1>4 DEF Resolved
    <2>2. PICK t \in Tasks :
            Candidates(said) = {t} /\ target = Target(t, query_tasks[t].clarification.id)
      BY <2>1, OnlyOne
    <2>3. /\ target.task = t /\ target.version = query_tasks[t].version
          /\ target.id = query_tasks[t].clarification.id
      BY <2>2 DEF Target
    <2>4. t \in Waiting(said.conversation)
      BY <2>2, FoundTasks
    <2>5. QED
      BY <1>4, <2>2, <2>3, <2>4, FoundTasks
  <1>5. QED
    BY <1>2, <1>3, <1>4

LEMMA SendTyped ==
  ASSUME TaskInv, DeliveriesTyped, NEW m \in Messages, Send(m)
  PROVE  /\ DeliveriesTyped'
         /\ content'[m].kind \in {"reply", "token"} => content'[m].ref \in Shown
         /\ \A n \in Messages \ {m} : content'[n] = content[n]
  <1>1. PICK new :
          /\ content' = [content EXCEPT ![m] = new]
          /\ new \in ContentType
          /\ new.kind \in {"reply", "token"} => new.ref \in Shown
    <2>1. PICK c \in Conversations :
             \/ content' = [content EXCEPT ![m] = Content("ask", c, NoRef)]
             \/ content' = [content EXCEPT ![m] = Content("session", c, NoRef)]
             \/ content' = [content EXCEPT ![m] = Content("keyless", c, NoRef)]
             \/ \E ref \in Shown, kind \in {"reply", "token"} :
                  content' = [content EXCEPT ![m] = Content(kind, c, ref)]
      BY DEF Send
    <2>2. \A ref \in Shown : ref \in [task : Tasks, id : Nat]
      <3>1. \A t \in Tasks : query_tasks[t].clarification.id \in Nat
        BY DEF TaskInv, BaseInv, SafeInv, TypeInv, TypeOK, Row, Clarification
      <3>2. QED
        BY <3>1 DEF Shown
    <2>3. NoRef \in [task : Tasks \cup {NoTask}, id : Nat]
      BY DEF NoRef
    <2>4. ASSUME NEW kind \in {"ask", "session", "keyless"},
                 content' = [content EXCEPT ![m] = Content(kind, c, NoRef)]
          PROVE  \E new : /\ content' = [content EXCEPT ![m] = new]
                          /\ new \in ContentType
                          /\ new.kind \in {"reply", "token"} => new.ref \in Shown
      <3>1. Content(kind, c, NoRef) \in ContentType /\ Content(kind, c, NoRef).kind = kind
        BY <2>3 DEF Content, ContentType, Kinds
      <3>2. QED
        BY <2>4, <3>1
    <2>5. ASSUME NEW ref \in Shown, NEW kind \in {"reply", "token"},
                 content' = [content EXCEPT ![m] = Content(kind, c, ref)]
          PROVE  \E new : /\ content' = [content EXCEPT ![m] = new]
                          /\ new \in ContentType
                          /\ new.kind \in {"reply", "token"} => new.ref \in Shown
      <3>1. /\ Content(kind, c, ref) \in ContentType /\ Content(kind, c, ref).ref = ref
        BY <2>2 DEF Content, ContentType, Kinds
      <3>2. QED
        BY <2>5, <3>1
    <2>6. QED
      BY <2>1, <2>4, <2>5
  <1>2. step' = step
    BY DEF Send
  <1>3. QED
    BY <1>1, <1>2 DEF DeliveriesTyped, InStep

LEMMA TypedStep ==
  ASSUME TaskInv, TaskInv', DeliveriesTyped, \A m \in Messages : RefKnown(m),
         [INext]_integrationVars
  PROVE  DeliveriesTyped'
  <1>1. \A t \in Tasks : query_tasks[t] \in Row /\ query_tasks'[t] \in Row
    BY DEF TaskInv, BaseInv, SafeInv, TypeInv, TypeOK
  <1>2. step \in [Handlers -> StepType]
    BY DEF DeliveriesTyped
  <1>3. ASSUME NEW h \in Handlers, Goto(h, NoStep), content' = content
        PROVE  DeliveriesTyped'
    BY <1>3, GotoTyped, NothingUnderWay
  <1>4. ASSUME NEW h \in Handlers, NEW m \in Messages, NEW t \in Tasks, NEW row \in Row,
               Goto(h, Result(m, t, row)), content' = content
        PROVE  DeliveriesTyped'
    <2> DEFINE s == Result(m, t, row)
    <2>1. s \in StepType /\ s.message \in Messages /\ s.task \in Tasks /\ Goto(h, s)
      BY <1>4, ResultTyped
    <2> HIDE DEF s
    <2>2. QED
      BY <1>4, <2>1, GotoTyped
  \* The delivery goes on with what it has.
  <1>5. ASSUME NEW h \in Handlers, NEW at \in Places, ~InStep(h, "none"),
               Goto(h, [step[h] EXCEPT !.at = at]), content' = content
        PROVE  DeliveriesTyped'
    <2> DEFINE s == [step[h] EXCEPT !.at = at]
    <2>1. /\ s \in StepType /\ s.message = step[h].message /\ s.task = step[h].task
      BY <1>2 DEF StepType
    <2>2. s.message \in Messages /\ s.task \in Tasks /\ Goto(h, s)
      BY <1>5, <2>1 DEF DeliveriesTyped
    <2> HIDE DEF s
    <2>3. QED
      BY <1>5, <2>1, <2>2, GotoTyped
  <1>6. ASSUME NEW h \in Handlers, ~InStep(h, "none")
        PROVE  step[h].message \in Messages /\ step[h].task \in Tasks
    BY <1>6 DEF DeliveriesTyped
  <1>7. ASSUME NEW h \in Handlers, NEW row \in Row, ~InStep(h, "none"), AfterReply(h, row),
               content' = content
        PROVE  DeliveriesTyped'
    BY <1>3, <1>4, <1>6, <1>7 DEF AfterReply
  <1>8. ASSUME NEW m \in Messages, Send(m)
        PROVE  DeliveriesTyped'
    BY <1>8, SendTyped
  <1>9. ASSUME NEW h \in Handlers, NEW m \in Messages, DeliverQuestion(h, m)
        PROVE  DeliveriesTyped'
    <2>1. \E t \in Tasks : \/ Goto(h, Result(m, t, query_tasks[t]))
                           \/ Goto(h, Result(m, t, query_tasks'[t]))
      BY <1>9 DEF DeliverQuestion
    <2>2. content' = content
      BY <1>9 DEF DeliverQuestion
    <2>3. QED
      BY <1>1, <1>4, <2>1, <2>2
  <1>10. ASSUME NEW h \in Handlers, NEW m \in Messages, Correlate(h, m)
         PROVE  DeliveriesTyped'
    <2>1. PICK target \in Resolved(m) :
            Goto(h, Step("correlated", m, target.task, target.version, target.id, NoRow))
      BY <1>10 DEF Correlate
    <2>2. target.task \in Tasks /\ target.version \in Nat /\ target.id \in Nat
      BY <1>10, TargetFound DEF Correlate, ReplyKinds
    <2> DEFINE s == Step("correlated", m, target.task, target.version, target.id, NoRow)
    <2>3. s \in StepType /\ s.message \in Messages /\ s.task \in Tasks
      BY <2>2, ConstantTypes DEF Step, StepType, Places
    <2>4. Goto(h, s) /\ content' = content
      BY <1>10, <2>1 DEF Correlate
    <2> HIDE DEF s
    <2>5. QED
      BY <2>3, <2>4, GotoTyped
  <1>11. ASSUME NEW h \in Handlers, Advance(h)
         PROVE  DeliveriesTyped'
    <2>1. content' = content /\ ~InStep(h, "none")
      BY <1>11
      DEF Advance, BeginReply, CommitReply, ReplayReply, RefuseReply, StartAnalysis, EndAnalysis,
          StartExecution, EndExecution, Respond, DeliveryRefused, InStep
    <2>2. step[h].message \in Messages /\ step[h].task \in Tasks
      BY <1>6, <2>1
    <2>3. CASE BeginReply(h)
      BY <1>5, <2>1, <2>3 DEF BeginReply, Places
    <2>4. CASE CommitReply(h) \/ ReplayReply(h)
      <3>1. \/ AfterReply(h, query_tasks[step[h].task])
            \/ AfterReply(h, query_tasks'[step[h].task])
        BY <2>4 DEF CommitReply, ReplayReply
      <3>2. QED
        BY <1>1, <1>7, <2>1, <2>2, <3>1
    <2>5. CASE RefuseReply(h) \/ Respond(h) \/ EndExecution(h) \/ DeliveryRefused(h)
      BY <1>3, <2>1, <2>5 DEF RefuseReply, Respond, EndExecution, DeliveryRefused
    <2>6. CASE StartAnalysis(h) \/ StartExecution(h)
      BY <1>3, <1>5, <2>1, <2>6 DEF StartAnalysis, StartExecution, Places
    <2>7. CASE EndAnalysis(h)
      <3>1. Goto(h, Result(step[h].message, step[h].task, query_tasks'[step[h].task]))
        BY <2>7 DEF EndAnalysis
      <3>2. QED
        BY <1>1, <1>4, <2>1, <2>2, <3>1
    <2>8. QED
      BY <1>11, <2>3, <2>4, <2>5, <2>6, <2>7 DEF Advance
  <1>12. ASSUME NEW h \in Handlers, DeliveryCrashes(h)
         PROVE  DeliveriesTyped'
    BY <1>3, <1>12 DEF DeliveryCrashes
  <1>13. CASE UNCHANGED <<content, step>>
    BY <1>13 DEF DeliveriesTyped, InStep
  <1>14. ASSUME NEW h \in Handlers, BrowserCancels(h)
         PROVE  DeliveriesTyped'
    BY <1>13, <1>14 DEF BrowserCancels
  <1>15. ASSUME NEW c, BrowserDeletes(c)
         PROVE  DeliveriesTyped'
    BY <1>13, <1>15 DEF BrowserDeletes
  <1>16. CASE UNCHANGED integrationVars
    BY <1>13, <1>16 DEF integrationVars
  <1>17. QED
    BY <1>8, <1>9, <1>10, <1>11, <1>12, <1>14, <1>15, <1>16 DEF INext

-------------------------------------------------------------------------------
(* Part 12: ReplyReachesItsQuestion *)

\* Task ids are not used again.
LEMMA IssuedGrows ==
  ASSUME TaskInv, DeliveriesTyped, [INext]_integrationVars
  PROVE  issued \subseteq issued'
  <1>1. TypeOK /\ SafeInv
    BY DEF TaskInv, BaseInv, SafeInv, TypeInv
  <1>2. [Next]_vars \/ DiesBetween
    BY <1>1, TasksStep
  <1>3. CASE DiesBetween
    BY <1>3 DEF DiesBetween
  <1>4. QED
    BY <1>1, <1>2, <1>3, TaskStep DEF TaskMoves

\* A row gets older with every write, and no task comes back.
LEMMA Aging ==
  ASSUME TaskInv, DeliveriesTyped, \A h \in Handlers : Answering(h), [INext]_integrationVars,
         NEW t \in issued, Exists(t)'
  PROVE  /\ Exists(t)
         /\ query_tasks[t].version <= query_tasks'[t].version
         /\ query_tasks'[t].version = query_tasks[t].version =>
              query_tasks'[t] = query_tasks[t]
  <1>1. TypeOK /\ t \in Tasks
    BY DEF TaskInv, BaseInv, SafeInv, TypeInv, TypeOK
  <1>2. query_tasks[t].version \in Nat
    BY <1>1, BoundsAssumption DEF TypeOK, Row
  <1>3. CASE RowMoves(t)
    BY <1>2, <1>3 DEF RowMoves, RowNew, RowNext, Exists, NoRow
  <1>4. ASSUME NEW h \in Handlers, Stored(h)
        PROVE  \/ query_tasks'[t] = query_tasks[t]
               \/ Exists(t) /\ query_tasks'[t].version = query_tasks[t].version + 1
    BY <1>1, <1>4 DEF Stored
  <1>5. QED
    BY <1>1, <1>2, <1>3, <1>4, RowsStep DEF Exists

\* What is live was live, and its target is as it was.
LEMMA LiveBefore ==
  ASSUME TaskInv, DeliveriesTyped, \A h \in Handlers : Answering(h), [INext]_integrationVars,
         NEW h \in Handlers, Correlated(h), step'[h] = step[h], Live(h)'
  PROVE  Live(h) /\ query_tasks'[step[h].task] = query_tasks[step[h].task]
  <1> DEFINE t == step[h].task
  <1>1. Replying(h)
    BY DEF Live, Replying, InStep
  <1>2. /\ t \in issued
        /\ Exists(t) => step[h].version <= query_tasks[t].version
    BY <1>1 DEF Correlated
  <1>3. Exists(t)' /\ query_tasks'[t].version = step[h].version
    BY DEF Live, Exists
  <1>4. /\ Exists(t) /\ query_tasks[t].version <= query_tasks'[t].version
        /\ query_tasks'[t].version = query_tasks[t].version => query_tasks'[t] = query_tasks[t]
    BY <1>2, <1>3, Aging
  <1>5. query_tasks[t].version \in Nat /\ step[h].version \in Nat
    BY <1>2, BoundsAssumption
    DEF TaskInv, BaseInv, SafeInv, TypeInv, TypeOK, Row, DeliveriesTyped, StepType
  <1>6. query_tasks[t].version = step[h].version
    BY <1>2, <1>3, <1>4, <1>5
  <1>7. query_tasks'[t] = query_tasks[t]
    BY <1>3, <1>4, <1>6
  <1>8. QED
    BY <1>1, <1>4, <1>6, <1>7 DEF Live, IsProcessed

LEMMA RefKnownStep ==
  ASSUME TaskInv, DeliveriesTyped, \A h \in Handlers : Answering(h), [INext]_integrationVars,
         NEW m \in Messages, RefKnown(m)
  PROVE  RefKnown(m)'
  <1> DEFINE Remains(t) == query_tasks'[t].status # "NONE"
  <1>1. ASSUME NEW ref \in [task : Tasks, id : Nat], ref.task \in issued,
               Exists(ref.task) => ref.id <= query_tasks[ref.task].version
        PROVE  /\ ref.task \in issued'
               /\ Remains(ref.task) => ref.id <= query_tasks'[ref.task].version
    <2>1. TypeOK /\ TypeOK'
      BY TasksStaySound DEF TaskInv, BaseInv, SafeInv, TypeInv
    <2>2. query_tasks[ref.task].version \in Nat /\ query_tasks'[ref.task].version \in Nat
      BY <2>1, BoundsAssumption DEF TypeOK, Row
    <2>3. QED
      BY <1>1, <2>2, Aging, IssuedGrows DEF Exists
  <1>2. CASE Send(m)
    <2>1. SUFFICES ASSUME content'[m].kind \in {"reply", "token"}
                   PROVE  LET ref == content'[m].ref IN
                          /\ ref.task \in issued'
                          /\ Remains(ref.task) => ref.id <= query_tasks'[ref.task].version
      BY DEF RefKnown, Exists
    <2>2. content'[m].ref \in Shown
      BY <1>2, <2>1, SendTyped
    <2>3. PICK t \in Tasks :
            /\ query_tasks[t].status = "WAITING_USER"
            /\ content'[m].ref = [task |-> t, id |-> query_tasks[t].clarification.id]
      BY <2>2 DEF Shown
    <2>4. /\ query_tasks[t].clarification.id = query_tasks[t].version
          /\ t \in issued /\ query_tasks[t].version \in Nat
      BY <2>3, BoundsAssumption
      DEF TaskInv, AnswersInv, BaseInv, SafeInv, WaitingMeansAsked, Known, Exists, TypeInv,
          TypeOK, Row
    <2>5. query_tasks' = query_tasks /\ issued' = issued
      BY <1>2 DEF Send, vars
    <2>6. QED
      BY <2>3, <2>4, <2>5 DEF Exists
  <1>3. CASE content'[m] = content[m]
    <2>1. SUFFICES ASSUME content[m].kind \in {"reply", "token"}
                   PROVE  LET ref == content[m].ref IN
                          /\ ref.task \in issued'
                          /\ Remains(ref.task) => ref.id <= query_tasks'[ref.task].version
      BY <1>3 DEF RefKnown, Exists
    <2>2. /\ content[m].ref.task \in issued
          /\ Exists(content[m].ref.task) =>
               content[m].ref.id <= query_tasks[content[m].ref.task].version
      BY <2>1 DEF RefKnown
    <2>3. content[m].ref \in [task : Tasks, id : Nat]
      <3>1. content[m] \in ContentType
        BY DEF DeliveriesTyped
      <3>2. issued \subseteq Tasks
        BY DEF TaskInv, BaseInv, SafeInv, TypeInv, TypeOK
      <3>3. QED
        BY <2>2, <3>1, <3>2 DEF ContentType
    <2>4. QED
      BY <1>1, <2>2, <2>3
  <1>4. QED
    BY <1>2, <1>3, ContentMoves

\* A delivery that stays where it is keeps what correlation decided.
LEMMA CorrelatedStays ==
  ASSUME TaskInv, DeliveriesTyped, \A h \in Handlers : Answering(h), [INext]_integrationVars,
         NEW h \in Handlers, Correlated(h), step'[h] = step[h]
  PROVE  Correlated(h)'
  <1> DEFINE at == step[h]
             said == content[at.message]
  <1>1. SUFFICES ASSUME Replying(h)
                 PROVE  Correlated(h)'
    BY DEF Correlated, Replying, InStep
  <1>2. /\ said.kind \in ReplyKinds /\ at.task \in issued
        /\ Exists(at.task) => at.version <= query_tasks[at.task].version
        /\ said.kind # "token" => ConversationOf[at.task] = said.conversation
        /\ said.kind = "token" => said.ref = [task |-> at.task, id |-> at.id]
        /\ Live(h) /\ said.kind # "token" => at.task \in Candidates(said)
    BY <1>1 DEF Correlated
  <1>3. at.message \in Messages /\ at.version \in Nat /\ issued \subseteq Tasks
    BY <1>1 DEF DeliveriesTyped, StepType, Replying, InStep, TaskInv, BaseInv, SafeInv, TypeInv,
                TypeOK
  <1>4. content'[at.message] = said
    BY <1>2, <1>3, ContentKept DEF ReplyKinds
  <1>5. at.task \in issued'
    BY <1>2, IssuedGrows
  <1>6. Exists(at.task)' => at.version <= query_tasks'[at.task].version
    <2>1. TypeOK /\ TypeOK'
      BY TasksStaySound DEF TaskInv, BaseInv, SafeInv, TypeInv
    <2>2. query_tasks[at.task].version \in Nat /\ query_tasks'[at.task].version \in Nat
      BY <1>2, <1>3, <2>1, BoundsAssumption DEF TypeOK, Row
    <2>3. QED
      BY <1>2, <1>3, <2>2, Aging
  <1>7. ASSUME Live(h)', said.kind # "token"
        PROVE  at.task \in Candidates(said)'
    <2>1. Live(h) /\ query_tasks'[at.task] = query_tasks[at.task]
      BY <1>7, LiveBefore
    <2>2. at.task \in Candidates(said)
      BY <1>2, <1>7, <2>1
    <2>3. QED
      BY <1>4, <2>1, <2>2 DEF Candidates, Waiting
  <1> HIDE DEF said
  <1>8. QED
    BY <1>2, <1>4, <1>5, <1>6, <1>7 DEF Correlated, Exists, said

\* A delivery that has just correlated its reply.
LEMMA CorrelatedNow ==
  ASSUME TaskInv, DeliveriesTyped, NEW h \in Handlers, NEW m \in Messages, RefKnown(m),
         Correlate(h, m)
  PROVE  Correlated(h)' /\ step'[h].at = "correlated" /\ step'[h].message = m
  <1> DEFINE said == content[m]
  <1>1. PICK target \in Resolved(m) :
          Goto(h, Step("correlated", m, target.task, target.version, target.id, NoRow))
    BY DEF Correlate
  <1>2. said.kind \in ReplyKinds /\ UNCHANGED <<query_tasks, issued, content>>
    BY DEF Correlate, ReplyKinds, vars
  <1>3. /\ step'[h].at = "correlated" /\ step'[h].message = m
        /\ step'[h].task = target.task /\ step'[h].version = target.version
        /\ step'[h].id = target.id
    BY <1>1 DEF Goto, DeliveriesTyped, Step
  <1>4. /\ target.task \in issued
        /\ Exists(target.task) => target.version <= query_tasks[target.task].version
        /\ said.kind = "token" => said.ref = [task |-> target.task, id |-> target.id]
        /\ said.kind # "token" =>
             /\ ConversationOf[target.task] = said.conversation
             /\ target.task \in Processed(m) \/ target.task \in Candidates(said)
    BY <1>2, TargetFound
  <1>5. ASSUME Live(h)', said.kind # "token"
        PROVE  target.task \in Candidates(said)'
    <2>1. target.task \notin Processed(m)
      BY <1>2, <1>3, <1>5 DEF Live, Processed, IsProcessed
    <2>2. QED
      BY <1>2, <1>4, <1>5, <2>1 DEF Candidates, Waiting
  <1> HIDE DEF said
  <1>6. QED
    BY <1>2, <1>3, <1>4, <1>5 DEF Correlated, Exists, said

\* A delivery that begins to answer was live: the unlocked read saw the target.
LEMMA BegunReply ==
  ASSUME TaskInv, DeliveriesTyped, NEW h \in Handlers, Correlated(h),
         RefKnown(step[h].message), BeginReply(h)
  PROVE  /\ Live(h) /\ Correlated(h)' /\ Answering(h)'
         /\ step'[h] = [step[h] EXCEPT !.at = "answering"]
         /\ query_tasks' = query_tasks
  <1> DEFINE at == step[h]
             said == content[at.message]
             row == query_tasks[at.task]
  <1>1. /\ InStep(h, "correlated")
        /\ BeginAnswer(h, at.task, at.version, at.message)
        /\ row.clarification.id = at.id
        /\ step'[h] = [at EXCEPT !.at = "answering"]
        /\ UNCHANGED <<query_tasks, issued, content>>
    BY DEF BeginReply, BeginAnswer, Goto, DeliveriesTyped
  <1>2. /\ step'[h].at = "answering" /\ step'[h].message = at.message
        /\ step'[h].task = at.task /\ step'[h].version = at.version /\ step'[h].id = at.id
    BY <1>1 DEF DeliveriesTyped, StepType
  <1>3. Replying(h) /\ Live(h)
    BY <1>1 DEF Replying, Live, BeginAnswer
  <1>4. /\ said.kind \in ReplyKinds /\ at.task \in issued
        /\ Exists(at.task) => at.version <= row.version
        /\ said.kind # "token" => ConversationOf[at.task] = said.conversation
        /\ said.kind = "token" => said.ref = [task |-> at.task, id |-> at.id]
        /\ said.kind # "token" => at.task \in Candidates(said)
    BY <1>3 DEF Correlated
  <1>5. said.kind # "token" => at.task \in Candidates(said)'
    BY <1>1, <1>4 DEF Candidates, Waiting
  <1>6. Correlated(h)'
    <2> HIDE DEF said
    <2>1. QED
      BY <1>1, <1>2, <1>4, <1>5 DEF Correlated, Exists, said
  <1>7. ASSUME said.kind = "reply"
        PROVE  said.ref = [task |-> at.task, id |-> at.id]
    <2>1. said.ref = NoRef \/ said.ref = [task |-> at.task, id |-> row.clarification.id]
      BY <1>4, <1>7 DEF Candidates
    <2>2. said.ref.task \in issued /\ issued \subseteq Tasks
      BY <1>7 DEF RefKnown, TaskInv, BaseInv, SafeInv, TypeInv, TypeOK
    <2>3. said.ref # NoRef
      BY <2>2, TasksAssumption DEF NoRef
    <2>4. QED
      BY <1>1, <2>1, <2>3
  <1>8. handler'[h] = Work("answer", at.task, at.version, at.message, 0, row)
    BY <1>1 DEF BeginAnswer, Start, TaskInv, BaseInv, SafeInv, TypeInv, TypeOK
  <1>9. ~IsProcessed(row, at.message)
    BY <1>1 DEF BeginAnswer
  <1>10. Answering(h)'
    <2>1. /\ handler'[h].op = "answer" /\ handler'[h].task = at.task
          /\ handler'[h].version = at.version /\ handler'[h].request = at.message
          /\ handler'[h].row = row
      BY <1>8 DEF Work
    <2> HIDE DEF row, said
    <2>2. QED
      BY <1>1, <1>2, <1>4, <1>7, <1>9, <2>1 DEF Answering, IsProcessed, row, said
  <1>11. QED
    BY <1>1, <1>3, <1>6, <1>10

LEMMA RepliesStep ==
  ASSUME TaskInv, DeliveriesTyped, \A m \in Messages : RefKnown(m),
         \A h \in Handlers : Correlated(h) /\ Answering(h), [INext]_integrationVars,
         NEW h \in Handlers
  PROVE  Correlated(h)' /\ Answering(h)'
  <1>1. CASE step'[h] = step[h] /\ (InStep(h, "answering") => handler'[h] = handler[h])
    <2>1. Correlated(h)'
      BY <1>1, CorrelatedStays
    <2>2. SUFFICES ASSUME InStep(h, "answering")
                   PROVE  Answering(h)'
      BY <1>1, <2>1 DEF Answering, InStep
    <2>3. content'[step[h].message] = content[step[h].message]
      <3>1. step[h].message \in Messages
        BY <2>2 DEF DeliveriesTyped, InStep
      <3>2. content[step[h].message].kind \in ReplyKinds
        BY <2>2 DEF Correlated, Replying
      <3>3. QED
        BY <3>1, <3>2, ContentKept DEF ReplyKinds
    <2>4. QED
      BY <1>1, <2>2, <2>3 DEF Answering, InStep, IsProcessed
  <1>2. CASE ~Replying(h)'
    BY <1>2 DEF Correlated, Answering, Replying, InStep
  <1>3. ASSUME NEW m \in Messages, Correlate(h, m)
        PROVE  Correlated(h)' /\ Answering(h)'
    BY <1>3, CorrelatedNow DEF Answering, InStep
  <1>4. CASE BeginReply(h)
    <2>1. step[h].message \in Messages
      BY <1>4 DEF BeginReply, InStep, DeliveriesTyped
    <2>2. QED
      BY <1>4, <2>1, BegunReply
  <1>5. QED
    BY <1>1, <1>2, <1>3, <1>4, DeliveryMoves

LEMMA MeantStep ==
  ASSUME TaskInv, DeliveriesTyped, \A h \in Handlers : Correlated(h) /\ Answering(h),
         AnswersMeant, [INext]_integrationVars
  PROVE  AnswersMeant'
  <1> DEFINE MeantNow(t, answer) ==
               LET said == content'[answer.request_id] IN
               /\ answer.request_id \in Messages
               /\ said.kind \in ReplyKinds
               /\ said.kind \in {"reply", "token"} => said.ref = [task |-> t, id |-> answer.id]
               /\ said.kind # "token" => said.conversation = ConversationOf[t]
             MeantAt(t) ==
               \A k \in DOMAIN query_tasks'[t].answers : MeantNow(t, query_tasks'[t].answers[k])
  <1>1. ASSUME NEW t, NEW answer, AnswerMeant(t, answer)
        PROVE  MeantNow(t, answer)
    <2>1. content'[answer.request_id] = content[answer.request_id]
      BY <1>1, ContentKept DEF AnswerMeant, ReplyKinds
    <2>2. QED
      BY <1>1, <2>1 DEF AnswerMeant
  <1> HIDE DEF MeantNow
  <1>2. ASSUME NEW t \in Tasks
        PROVE  \A k \in DOMAIN query_tasks[t].answers : MeantNow(t, query_tasks[t].answers[k])
    BY <1>1 DEF AnswersMeant
  <1>3. ASSUME NEW t \in Tasks, RowMoves(t)
        PROVE  MeantAt(t)
    <2>1. query_tasks'[t].answers = query_tasks[t].answers \/ query_tasks'[t].answers = <<>>
      BY <1>3 DEF RowMoves, RowNew, RowNext, NoRow
    <2>2. QED
      BY <1>2, <2>1
  <1>4. ASSUME NEW h \in Handlers, Stored(h), NEW t \in Tasks
        PROVE  MeantAt(t)
    <2> DEFINE at == step[h]
               said == content[at.message]
               answers == query_tasks[at.task].answers
               answer == [id |-> at.id, request_id |-> at.message]
    <2>1. CASE t # at.task
      BY <1>2, <1>4, <2>1 DEF Stored
    <2>2. CASE t = at.task
      <3>1. /\ at.message \in Messages /\ said.kind \in ReplyKinds
            /\ said.kind \in {"reply", "token"} => said.ref = [task |-> t, id |-> at.id]
            /\ said.kind # "token" => said.conversation = ConversationOf[t]
        BY <1>4, <2>2 DEF Stored, Correlated, Answering, Replying
      <3>2. MeantNow(t, answer)
        <4>1. answer.id = at.id /\ answer.request_id = at.message
          OBVIOUS
        <4> HIDE DEF answer
        <4>2. AnswerMeant(t, answer)
          BY <3>1, <4>1 DEF AnswerMeant
        <4>3. QED
          BY <1>1, <4>2
      <3>3. answers \in Seq([id : Nat, request_id : Requests])
        BY <2>2 DEF TaskInv, BaseInv, SafeInv, TypeInv, TypeOK, Row
      <3>4. query_tasks'[t].answers = Append(answers, answer)
        BY <1>4, <2>2 DEF Stored
      <3>5. /\ DOMAIN Append(answers, answer) = 1..(Len(answers) + 1)
            /\ Append(answers, answer)[Len(answers) + 1] = answer
            /\ \A k \in 1..Len(answers) : Append(answers, answer)[k] = answers[k]
            /\ DOMAIN answers = 1..Len(answers) /\ Len(answers) \in Nat
        <4>1. answer \in [id : Nat, request_id : Requests]
          BY <3>1, MessagesAssumption DEF DeliveriesTyped, StepType
        <4> HIDE DEF answer
        <4>2. DOMAIN answers = 1..Len(answers) /\ Len(answers) \in Nat
          BY <3>3
        <4> HIDE DEF answers
        <4>3. QED
          BY <3>3, <4>1, <4>2, AppendLast
      <3> HIDE DEF answer
      <3>6. ASSUME NEW k \in 1..(Len(answers) + 1)
            PROVE  MeantNow(t, Append(answers, answer)[k])
        <4>1. CASE k = Len(answers) + 1
          BY <3>2, <3>5, <4>1
        <4>2. CASE k # Len(answers) + 1
          <5>1. k \in DOMAIN answers /\ Append(answers, answer)[k] = answers[k]
            BY <3>5, <4>2
          <5>2. QED
            BY <1>2, <2>2, <5>1
        <4>3. QED
          BY <4>1, <4>2
      <3>7. QED
        BY <3>4, <3>5, <3>6
    <2>3. QED
      BY <2>1, <2>2
  <1>5. \A t \in Tasks : MeantAt(t)
    BY <1>3, <1>4, RowsStep
  <1>6. QED
    BY <1>5 DEF AnswersMeant, AnswerMeant, MeantNow

LEMMA DeliveryStep == DeliveryInv /\ [INext]_integrationVars => DeliveryInv'
  <1> SUFFICES ASSUME DeliveryInv, [INext]_integrationVars PROVE DeliveryInv'
    OBVIOUS
  <1>1. TaskInv'
    BY TasksStaySound DEF DeliveryInv
  <1>2. DeliveriesTyped'
    BY <1>1, TypedStep DEF DeliveryInv
  <1>3. \A m \in Messages : RefKnown(m)'
    BY RefKnownStep DEF DeliveryInv
  <1>4. \A h \in Handlers : Correlated(h)' /\ Answering(h)'
    BY RepliesStep DEF DeliveryInv
  <1>5. AnswersMeant'
    BY MeantStep DEF DeliveryInv
  <1>6. QED
    BY <1>1, <1>2, <1>3, <1>4, <1>5 DEF DeliveryInv

LEMMA DeliveryInit == IInit => DeliveryInv
  <1> SUFFICES ASSUME IInit PROVE DeliveryInv
    OBVIOUS
  <1>1. TaskInv
    BY TaskInvInit DEF IInit
  <1>2. Unsent \in ContentType /\ Unsent.kind = "none"
    <2>1. NoRef \in [task : Tasks \cup {NoTask}, id : Nat]
      BY DEF NoRef
    <2>2. Unsent = [kind |-> "none", conversation |-> Unsent.conversation, ref |-> NoRef]
      BY DEF Unsent, Content
    <2>3. QED
      BY <2>1, <2>2 DEF ContentType, Kinds
  <1>3. DeliveriesTyped
    BY <1>2, NothingUnderWay DEF IInit, DeliveriesTyped, InStep
  <1>4. \A m \in Messages : RefKnown(m)
    BY <1>2 DEF IInit, RefKnown
  <1>5. \A h \in Handlers : Correlated(h) /\ Answering(h)
    BY NothingUnderWay DEF IInit, Correlated, Answering, Replying, InStep
  <1>6. AnswersMeant
    BY DEF IInit, Init, NoRow, AnswersMeant
  <1>7. QED
    BY <1>1, <1>3, <1>4, <1>5, <1>6 DEF DeliveryInv

LEMMA DeliveryAlways == ISpec => []DeliveryInv
  BY DeliveryInit, DeliveryStep, PTL DEF ISpec

\* What is proved of the tasks holds when channels deliver their messages again,
\* late and in any order, and processes die between two transactions of a delivery.
THEOREM TasksStaySafe ==
  ISpec => [](/\ TypeOK /\ OneOutcome /\ WaitingMeansAsked /\ SnapshotsHold
              /\ ExecutorOwnsTask /\ ExecutionMatchesRun /\ SucceededRunIsReported
              /\ RetryRunsOnce /\ AnsweredOnce)
  <1>1. DeliveryInv => TaskInv
    BY DEF DeliveryInv
  <1>2. QED
    BY <1>1, InvariantImplies, DeliveryAlways, PTL

\* A reply answers the clarification it names or none, and by its id in its own
\* session only.
THEOREM RepliesReachTheirQuestion == ISpec => []ReplyReachesItsQuestion
  <1>1. DeliveryInv => ReplyReachesItsQuestion
    BY DEF DeliveryInv, AnswersMeant, AnswerMeant, ReplyReachesItsQuestion
  <1>2. QED
    BY <1>1, DeliveryAlways, PTL

-------------------------------------------------------------------------------
(* Part 13: ReplyActsOnce *)

LEMMA StoredLive ==
  ASSUME NEW h \in Handlers, Stored(h)
  PROVE  Live(h)
  BY DEF Stored, Live, Replying

\* The sequence of answers a stored reply leaves.
LEMMA AnswerAdded ==
  ASSUME TaskInv, DeliveriesTyped, NEW h \in Handlers, Stored(h)
  PROVE  LET at == step[h]
             answers == query_tasks[at.task].answers
             new == query_tasks'[at.task].answers
         IN
         /\ Len(answers) \in Nat /\ DOMAIN answers = 1..Len(answers)
         /\ DOMAIN new = 1..(Len(answers) + 1)
         /\ new[Len(answers) + 1].request_id = at.message
         /\ \A k \in 1..Len(answers) : new[k] = answers[k]
  <1> DEFINE at == step[h]
             answers == query_tasks[at.task].answers
             answer == [id |-> at.id, request_id |-> at.message]
             Answer == [id : Nat, request_id : Requests]
  <1>1. /\ at.task \in Tasks /\ at.message \in Requests /\ at.id \in Nat
        /\ query_tasks'[at.task].answers = Append(answers, answer)
    BY MessagesAssumption DEF Stored, DeliveriesTyped, StepType
  <1>2. answers \in Seq(Answer)
    BY <1>1 DEF TaskInv, BaseInv, SafeInv, TypeInv, TypeOK, Row
  <1>3. Len(answers) \in Nat /\ DOMAIN answers = 1..Len(answers)
    BY <1>2
  <1>4. answer \in Answer /\ answer.request_id = at.message
    BY <1>1
  <1> HIDE DEF answer, answers, Answer
  <1>5. /\ DOMAIN Append(answers, answer) = 1..(Len(answers) + 1)
        /\ Append(answers, answer)[Len(answers) + 1] = answer
        /\ \A k \in 1..Len(answers) : Append(answers, answer)[k] = answers[k]
    BY <1>2, <1>4, AppendLast
  <1>6. QED
    BY <1>1, <1>3, <1>4, <1>5 DEF answers

\* Answers are stored one at a time.
LEMMA AnswersGrow ==
  ASSUME TaskInv, DeliveriesTyped, \A h \in Handlers : Answering(h), [INext]_integrationVars
  PROVE  \/ \A t \in Tasks : query_tasks'[t].answers \in {query_tasks[t].answers, <<>>}
         \/ \E h \in Handlers :
              /\ CommitReply(h) /\ Stored(h)
              /\ \A t \in Tasks, m \in Messages :
                   HasAnswer(t, m)' =>
                     HasAnswer(t, m) \/ (t = step[h].task /\ m = step[h].message)
  <1>1. ASSUME NEW t \in Tasks, RowMoves(t)
        PROVE  query_tasks'[t].answers \in {query_tasks[t].answers, <<>>}
    BY <1>1 DEF RowMoves, RowNew, RowNext, NoRow
  <1>2. ASSUME NEW h \in Handlers, Stored(h), NEW t \in Tasks, NEW m \in Messages,
               HasAnswer(t, m)'
        PROVE  HasAnswer(t, m) \/ (t = step[h].task /\ m = step[h].message)
    <2> DEFINE at == step[h]
               answers == query_tasks[at.task].answers
    <2>1. CASE t # at.task
      BY <1>2, <2>1 DEF Stored, HasAnswer
    <2>2. CASE t = at.task
      <3>1. PICK k \in DOMAIN query_tasks'[t].answers : query_tasks'[t].answers[k].request_id = m
        BY <1>2 DEF HasAnswer
      <3> DEFINE n == Len(answers)
      <3>2. /\ n \in Nat
            /\ DOMAIN query_tasks'[t].answers = 1..(n + 1)
        BY <1>2, <2>2, AnswerAdded
      <3> HIDE DEF n
      <3>3. k \in 1..n \/ k = n + 1
        BY <3>1, <3>2
      <3>4. QED
        BY <1>2, <2>2, <3>1, <3>3, AnswerAdded DEF HasAnswer, n
    <2>3. QED
      BY <2>1, <2>2
  <1>3. QED
    BY <1>1, <1>2, RowsStep

\* A request id that is recorded while there is room pushes none out.
LEMMA RecordedWithRoom ==
  ASSUME NEW processed \in Seq(Requests), NEW m \in Requests, Len(processed) < ProcessedLimit
  PROVE  LET new == RecordProcessedRequest(processed, m) IN
         /\ Len(new) = Len(processed) + 1
         /\ \E i \in DOMAIN new : new[i] = m
         /\ \A i \in DOMAIN processed : i \in DOMAIN new /\ new[i] = processed[i]
  <1>1. RecordProcessedRequest(processed, m) = Append(processed, m)
    BY DEF RecordProcessedRequest
  <1>2. /\ Len(Append(processed, m)) = Len(processed) + 1
        /\ DOMAIN Append(processed, m) = 1..(Len(processed) + 1)
        /\ Append(processed, m)[Len(processed) + 1] = m
        /\ \A i \in 1..Len(processed) : Append(processed, m)[i] = processed[i]
    BY AppendLast
  <1>3. Len(processed) \in Nat /\ DOMAIN processed = 1..Len(processed)
    OBVIOUS
  <1>4. Len(processed) + 1 \in 1..(Len(processed) + 1)
    BY <1>3
  <1>5. QED
    BY <1>1, <1>2, <1>3, <1>4

LEMMA RememberedStep ==
  ASSUME WindowSuffices, DeliveryInv, [INext]_integrationVars, NEW t \in Tasks,
         Exists(t) => RowRemembers(query_tasks[t]), Exists(t)'
  PROVE  RowRemembers(query_tasks'[t])
  <1>1. TypeOK /\ TaskInv /\ DeliveriesTyped /\ \A h \in Handlers : Answering(h)
    BY DEF DeliveryInv, TaskInv, BaseInv, SafeInv, TypeInv
  <1>2. /\ query_tasks[t].processed \in Seq(Requests) /\ query_tasks[t].version \in Nat
        /\ Len(query_tasks[t].processed) \in Nat
    BY <1>1, BoundsAssumption DEF TypeOK, Row
  <1>3. CASE query_tasks'[t] = query_tasks[t]
    BY <1>3 DEF Exists
  <1>4. CASE RowNew(t)
    BY <1>4 DEF RowNew, RowRemembers
  <1>5. CASE RowNext(t)
    BY <1>2, <1>5 DEF RowNext, RowRemembers, IsProcessed
  <1>6. ASSUME NEW h \in Handlers, Stored(h), t = step[h].task
        PROVE  RowRemembers(query_tasks'[t])
    <2> DEFINE m == step[h].message
               row == query_tasks[t]
               new == query_tasks'[t]
    <2>1. /\ Exists(t) /\ row.version < MaxVersion /\ m \in Requests
          /\ new.version = row.version + 1
          /\ new.processed = RecordProcessedRequest(row.processed, m)
      BY <1>6, MessagesAssumption DEF Stored
    <2>2. Len(row.processed) <= row.version + 1 /\ Len(row.processed) < ProcessedLimit
      BY <1>2, <2>1, BoundsAssumption, LimitAssumption DEF RowRemembers, WindowSuffices
    <2>3. /\ Len(new.processed) = Len(row.processed) + 1
          /\ IsProcessed(new, m)
          /\ \A r : IsProcessed(row, r) => IsProcessed(new, r)
      BY <1>2, <2>1, <2>2, RecordedWithRoom DEF IsProcessed
    <2>4. ASSUME NEW k \in DOMAIN new.answers
          PROVE  IsProcessed(new, new.answers[k].request_id)
      <3>1. /\ Len(row.answers) \in Nat /\ DOMAIN row.answers = 1..Len(row.answers)
            /\ DOMAIN new.answers = 1..(Len(row.answers) + 1)
            /\ new.answers[Len(row.answers) + 1].request_id = m
            /\ \A i \in 1..Len(row.answers) : new.answers[i] = row.answers[i]
        BY <1>1, <1>6, AnswerAdded
      <3>2. k \in DOMAIN row.answers \/ k = Len(row.answers) + 1
        BY <3>1
      <3>3. QED
        BY <2>1, <2>3, <3>1, <3>2 DEF RowRemembers
    <2> HIDE DEF m, new, row
    <2>5. Len(new.processed) <= new.version + 1
      BY <1>2, <2>1, <2>2, <2>3 DEF row
    <2>6. QED
      BY <2>4, <2>5 DEF RowRemembers, new
  <1>7. ASSUME NEW h \in Handlers, Stored(h), t # step[h].task
        PROVE  query_tasks'[t] = query_tasks[t]
    BY <1>7 DEF Stored
  <1>8. query_tasks'[t] # NoRow
    BY DEF Exists, NoRow
  <1>9. QED
    BY <1>1, <1>3, <1>4, <1>5, <1>6, <1>7, <1>8, RowsStep DEF RowMoves

LEMMA GoneStep ==
  ASSUME DeliveryInv, [INext]_integrationVars, NEW t \in Tasks,
         ~Exists(t) => query_tasks[t].answers = <<>>, ~Exists(t)'
  PROVE  query_tasks'[t].answers = <<>>
  <1>1. CASE RowMoves(t)
    BY <1>1 DEF RowMoves, RowNew, RowNext, Exists, NoRow
  <1>2. ASSUME NEW h \in Handlers, Stored(h)
        PROVE  query_tasks'[t] = query_tasks[t]
    BY <1>2 DEF Stored, Exists
  <1>3. QED
    BY <1>1, <1>2, RowsStep DEF DeliveryInv, Exists

\* A reply that was correlated and is live is stored nowhere under its key, and names
\* its target alone: by token, or as the only task of its session that waits.
LEMMA FreshTarget ==
  ASSUME DeliveryInv, OnceInv, NEW h \in Handlers, NEW m \in Messages, Correlate(h, m), Live(h)'
  PROVE  /\ Keyed(m) => \A t \in Tasks : ~HasAnswer(t, m)
         /\ content[m].kind = "token" => content[m].ref.task = step'[h].task
         /\ content[m].kind # "token" => Candidates(content[m]) = {step'[h].task}
  <1> DEFINE said == content[m]
  <1>1. /\ TaskInv /\ DeliveriesTyped /\ RefKnown(m) /\ AnswersMeant
        /\ said.kind \in ReplyKinds /\ query_tasks' = query_tasks
    BY DEF DeliveryInv, Correlate, ReplyKinds, vars
  <1>2. PICK target \in Resolved(m) :
          Goto(h, Step("correlated", m, target.task, target.version, target.id, NoRow))
    BY DEF Correlate
  <1>3. step'[h].message = m /\ step'[h].task = target.task
    BY <1>1, <1>2 DEF Goto, DeliveriesTyped, Step
  <1>4. /\ Exists(target.task) /\ ~IsProcessed(query_tasks[target.task], m)
    BY <1>1, <1>3 DEF Live, Exists, IsProcessed
  <1>5. /\ said.kind = "token" => said.ref = [task |-> target.task, id |-> target.id]
        /\ said.kind # "token" =>
             \/ target.task \in Processed(m)
             \/ Processed(m) = {} /\ Candidates(said) = {target.task}
    BY <1>1, TargetFound
  <1>6. target.task \notin Processed(m)
    BY <1>4 DEF Processed
  <1>7. ASSUME Keyed(m), NEW t \in Tasks, HasAnswer(t, m)
        PROVE  FALSE
    <2>1. PICK k \in DOMAIN query_tasks[t].answers : query_tasks[t].answers[k].request_id = m
      BY <1>7 DEF HasAnswer
    <2>2. Exists(t) /\ IsProcessed(query_tasks[t], m)
      BY <2>1 DEF OnceInv, RowRemembers
    <2>3. /\ said.kind \in {"reply", "token"} =>
               said.ref = [task |-> t, id |-> query_tasks[t].answers[k].id]
          /\ said.kind # "token" => said.conversation = ConversationOf[t]
      BY <1>1, <2>1 DEF AnswersMeant, AnswerMeant
    <2>4. CASE said.kind = "token"
      <3>1. t = target.task
        BY <1>5, <2>3, <2>4
      <3>2. QED
        BY <1>4, <2>2, <3>1
    <2>5. CASE said.kind # "token"
      <3>1. t \in Processed(m)
        BY <1>7, <2>2, <2>3, <2>5 DEF Processed
      <3>2. QED
        BY <1>5, <1>6, <2>5, <3>1
    <2>6. QED
      BY <2>4, <2>5
  <1>8. QED
    BY <1>3, <1>5, <1>6, <1>7

\* Where a live delivery comes from: it was live already, or it has just been
\* correlated.  Others are then where they were.
LEMMA LiveOrigin ==
  ASSUME DeliveryInv, [INext]_integrationVars, NEW h \in Handlers, Live(h)'
  PROVE  \/ /\ Live(h) /\ step'[h].message = step[h].message /\ step'[h].task = step[h].task
            /\ query_tasks'[step[h].task] = query_tasks[step[h].task]
         \/ \E m \in Messages :
              /\ Correlate(h, m) /\ step'[h].message = m /\ query_tasks' = query_tasks
              /\ \A g \in Handlers \ {h} : step'[g] = step[g]
  <1>1. /\ TaskInv /\ DeliveriesTyped /\ Correlated(h)
        /\ \A g \in Handlers : Answering(g)
        /\ \A m \in Messages : RefKnown(m)
    BY DEF DeliveryInv
  <1>2. Replying(h)'
    BY DEF Live, Replying, InStep
  <1>3. CASE step'[h] = step[h]
    BY <1>1, <1>3, LiveBefore
  <1>4. ASSUME NEW m \in Messages, Correlate(h, m)
        PROVE  /\ step'[h].message = m /\ query_tasks' = query_tasks
               /\ \A g \in Handlers \ {h} : step'[g] = step[g]
    <2>1. step'[h].message = m
      BY <1>1, <1>4, CorrelatedNow
    <2>2. query_tasks' = query_tasks /\ \A g \in Handlers \ {h} : step'[g] = step[g]
      BY <1>1, <1>4 DEF Correlate, Goto, DeliveriesTyped, vars
    <2>3. QED
      BY <2>1, <2>2
  <1>5. CASE BeginReply(h)
    <2>1. step[h].message \in Messages
      BY <1>1, <1>5 DEF BeginReply, InStep, DeliveriesTyped
    <2>2. /\ Live(h) /\ query_tasks' = query_tasks
          /\ step'[h] = [step[h] EXCEPT !.at = "answering"]
      BY <1>1, <1>5, <2>1, BegunReply
    <2>3. step'[h].message = step[h].message /\ step'[h].task = step[h].task
      BY <1>1, <2>2 DEF DeliveriesTyped, StepType
    <2>4. QED
      BY <2>2, <2>3
  <1>6. QED
    BY <1>1, <1>2, <1>3, <1>4, <1>5, DeliveryMoves

\* A delivery that is live says after the step what it said before.
LEMMA LiveSaysTheSame ==
  ASSUME DeliveryInv, [INext]_integrationVars, NEW h \in Handlers, Live(h)',
         step'[h].message \in Messages
  PROVE  content'[step'[h].message] = content[step'[h].message]
  <1>1. content[step'[h].message].kind \in ReplyKinds
    <2>1. CASE Live(h) /\ step'[h].message = step[h].message
      BY <2>1 DEF DeliveryInv, Correlated, Live
    <2>2. ASSUME NEW m \in Messages, Correlate(h, m), step'[h].message = m
          PROVE  content[step'[h].message].kind \in ReplyKinds
      BY <2>2 DEF Correlate, ReplyKinds
    <2>3. QED
      BY <2>1, <2>2, LiveOrigin
  <1>2. QED
    BY <1>1, ContentKept DEF ReplyKinds, DeliveryInv

\* Nobody has stored the reply of a live delivery, after the step either.
LEMMA FreshStep ==
  ASSUME DeliveryInv, OnceInv, [INext]_integrationVars, NEW h \in Handlers, Live(h)',
         NEW m \in Messages, step'[h].message = m, Keyed(m), NEW t \in Tasks
  PROVE  ~HasAnswer(t, m)'
  <1>1. TaskInv /\ DeliveriesTyped /\ \A g \in Handlers : Answering(g)
    BY DEF DeliveryInv
  <1>2. CASE /\ Live(h) /\ step[h].message = m
             /\ query_tasks'[step[h].task] = query_tasks[step[h].task]
    <2>1. ~HasAnswer(t, m)
      BY <1>2 DEF OnceInv, LiveIsFresh
    <2>2. CASE query_tasks'[t].answers \in {query_tasks[t].answers, <<>>}
      BY <2>1, <2>2 DEF HasAnswer
    <2>3. ASSUME NEW g \in Handlers, Stored(g), m = step[g].message
          PROVE  FALSE
      <3>1. step[g].task = step[h].task
        BY <1>2, <2>3, StoredLive DEF OnceInv, LiveIsFresh
      <3>2. /\ step[g].task \in Tasks
            /\ query_tasks'[step[g].task].version = query_tasks[step[g].task].version + 1
        BY <2>3 DEF Stored
      <3>3. query_tasks[step[g].task] \in Row
        BY <1>1, <3>2 DEF TaskInv, BaseInv, SafeInv, TypeInv, TypeOK
      <3>4. query_tasks[step[g].task].version \in Nat
        BY <3>3, BoundsAssumption DEF Row
      <3>5. QED
        BY <1>2, <3>1, <3>2, <3>4
    <2>4. QED
      BY <1>1, <2>1, <2>2, <2>3, AnswersGrow
  <1>3. CASE Correlate(h, m) /\ query_tasks' = query_tasks
    <2>1. ~HasAnswer(t, m)
      BY <1>3, FreshTarget
    <2>2. QED
      BY <1>3, <2>1 DEF HasAnswer
  <1>4. QED
    BY <1>2, <1>3, LiveOrigin

\* A delivery that was live keeps a second one from finding another target.
LEMMA SecondTarget ==
  ASSUME DeliveryInv, OnceInv, NEW h \in Handlers, NEW g \in Handlers, NEW m \in Messages,
         Correlate(h, m), Live(h)', Live(g), step[g].message = m
  PROVE  step'[h].task = step[g].task
  <1>1. Correlated(g) /\ Replying(g)
    BY DEF DeliveryInv, Live
  <1>2. CASE content[m].kind = "token"
    BY <1>1, <1>2, FreshTarget DEF Correlated
  <1>3. CASE content[m].kind # "token"
    <2>1. step[g].task \in Candidates(content[m])
      BY <1>1, <1>3 DEF Correlated
    <2>2. QED
      BY <1>3, <2>1, FreshTarget
  <1>4. QED
    BY <1>2, <1>3

LEMMA TargetsAgree ==
  ASSUME DeliveryInv, OnceInv, [INext]_integrationVars, NEW h \in Handlers, NEW g \in Handlers,
         Live(h)', Live(g)', step'[g].message = step'[h].message
  PROVE  step'[g].task = step'[h].task
  <1> DEFINE WasLive(f) ==
               /\ Live(f) /\ step'[f].message = step[f].message /\ step'[f].task = step[f].task
             IsNew(f) ==
               \E m \in Messages :
                 /\ Correlate(f, m) /\ step'[f].message = m
                 /\ \A e \in Handlers \ {f} : step'[e] = step[e]
  <1>1. (WasLive(h) \/ IsNew(h)) /\ (WasLive(g) \/ IsNew(g))
    BY LiveOrigin
  <1>2. CASE WasLive(h) /\ WasLive(g)
    BY <1>2 DEF OnceInv, LiveIsFresh
  <1>3. CASE IsNew(h) /\ WasLive(g)
    BY <1>3, SecondTarget
  <1>4. CASE WasLive(h) /\ IsNew(g)
    BY <1>4, SecondTarget
  <1>5. CASE IsNew(h) /\ IsNew(g) /\ g # h
    <2>1. step'[g] = step[g] /\ InStep(g, "none")
      BY <1>5 DEF Correlate
    <2>2. QED
      BY <2>1 DEF Live, Replying, InStep
  <1>6. QED
    BY <1>1, <1>2, <1>3, <1>4, <1>5

\* What an answer was given with is what its message says.
LEMMA AnswersSayTheSame ==
  ASSUME DeliveryInv, [INext]_integrationVars, NEW t \in Tasks,
         NEW k \in DOMAIN query_tasks'[t].answers
  PROVE  LET m == query_tasks'[t].answers[k].request_id IN content'[m] = content[m]
  <1>1. TaskInv /\ DeliveriesTyped /\ \A g \in Handlers : Correlated(g) /\ Answering(g)
    BY DEF DeliveryInv
  <1> DEFINE m == query_tasks'[t].answers[k].request_id
  <1>2. m \in Messages /\ content[m].kind \in ReplyKinds
    <2>1. CASE \A s \in Tasks : query_tasks'[s].answers \in {query_tasks[s].answers, <<>>}
      <3>1. query_tasks'[t].answers = query_tasks[t].answers
        BY <2>1
      <3> HIDE DEF m
      <3>2. AnswerMeant(t, query_tasks[t].answers[k])
        BY <3>1 DEF DeliveryInv, AnswersMeant
      <3>3. QED
        BY <3>1, <3>2 DEF AnswerMeant, m
    <2>2. ASSUME NEW h \in Handlers, Stored(h)
          PROVE  m \in Messages /\ content[m].kind \in ReplyKinds
      <3> DEFINE a == step[h].task
                 n == Len(query_tasks[a].answers)
      <3>1. CASE t # a
        BY <2>2, <3>1 DEF Stored, DeliveryInv, AnswersMeant, AnswerMeant
      <3>2. CASE t = a
        <4>1. /\ n \in Nat /\ DOMAIN query_tasks[a].answers = 1..n
              /\ DOMAIN query_tasks'[a].answers = 1..(n + 1)
              /\ query_tasks'[a].answers[n + 1].request_id = step[h].message
              /\ \A i \in 1..n : query_tasks'[a].answers[i] = query_tasks[a].answers[i]
          BY <1>1, <2>2, AnswerAdded
        <4>2. step[h].message \in Messages /\ content[step[h].message].kind \in ReplyKinds
          BY <1>1, <2>2 DEF Stored, Correlated, Replying
        <4> HIDE DEF n
        <4>3. k \in 1..n \/ k = n + 1
          BY <3>2, <4>1
        <4>4. QED
          BY <3>2, <4>1, <4>2, <4>3 DEF DeliveryInv, AnswersMeant, AnswerMeant
      <3>3. QED
        BY <3>1, <3>2
    <2>3. QED
      BY <1>1, <2>1, <2>2, AnswersGrow
  <1>3. QED
    BY <1>1, <1>2, ContentKept DEF ReplyKinds

LEMMA ActsOnceStep ==
  ASSUME DeliveryInv, OnceInv, [INext]_integrationVars
  PROVE  ReplyActsOnce'
  <1>1. TaskInv /\ DeliveriesTyped /\ \A g \in Handlers : Answering(g)
    BY DEF DeliveryInv
  <1>2. SUFFICES ASSUME NEW t \in Tasks, NEW u \in Tasks,
                        NEW i \in DOMAIN query_tasks'[t].answers,
                        NEW j \in DOMAIN query_tasks'[u].answers,
                        query_tasks'[t].answers[i].request_id =
                          query_tasks'[u].answers[j].request_id
                 PROVE  /\ t = u => i = j
                        /\ Keyed(query_tasks'[t].answers[i].request_id) => t = u
    <2>1. SUFFICES ASSUME NEW t \in Tasks, NEW u \in Tasks,
                          NEW i \in DOMAIN query_tasks'[t].answers,
                          NEW j \in DOMAIN query_tasks'[u].answers,
                          query_tasks'[t].answers[i].request_id =
                            query_tasks'[u].answers[j].request_id
                   PROVE  /\ t = u => i = j
                          /\ content'[query_tasks'[t].answers[i].request_id].kind # "keyless" =>
                               t = u
      BY DEF ReplyActsOnce, Keyed
    <2>2. content'[query_tasks'[t].answers[i].request_id] =
            content[query_tasks'[t].answers[i].request_id]
      BY AnswersSayTheSame
    <2>3. QED
      BY <2>1, <2>2 DEF Keyed
  \* An answer that was there before.
  <1> DEFINE Old(s, k) ==
               /\ k \in DOMAIN query_tasks[s].answers
               /\ query_tasks'[s].answers[k] = query_tasks[s].answers[k]
  <1>3. CASE Old(t, i) /\ Old(u, j)
    BY <1>2, <1>3 DEF OnceInv, ReplyActsOnce
  <1>4. CASE \A s \in Tasks : query_tasks'[s].answers \in {query_tasks[s].answers, <<>>}
    BY <1>3, <1>4
  <1>5. ASSUME NEW h \in Handlers, Stored(h)
        PROVE  /\ t = u => i = j
               /\ Keyed(query_tasks'[t].answers[i].request_id) => t = u
    <2> DEFINE a == step[h].task
               last == Len(query_tasks[a].answers) + 1
               New(s, k) == s = a /\ k = last /\ query_tasks'[s].answers[k].request_id = step[h].message
    <2>1. ASSUME NEW s \in Tasks, NEW k \in DOMAIN query_tasks'[s].answers
          PROVE  Old(s, k) \/ New(s, k)
      <3>1. CASE s # a
        BY <1>5, <2>1, <3>1 DEF Stored
      <3>2. CASE s = a
        <4>1. /\ Len(query_tasks[a].answers) \in Nat
              /\ DOMAIN query_tasks[a].answers = 1..Len(query_tasks[a].answers)
              /\ DOMAIN query_tasks'[a].answers = 1..last
              /\ query_tasks'[a].answers[last].request_id = step[h].message
              /\ \A n \in 1..Len(query_tasks[a].answers) :
                   query_tasks'[a].answers[n] = query_tasks[a].answers[n]
          BY <1>1, <1>5, AnswerAdded
        <4>2. k \in 1..Len(query_tasks[a].answers) \/ k = last
          BY <2>1, <3>2, <4>1
        <4>3. QED
          BY <3>2, <4>1, <4>2
      <3>3. QED
        BY <3>1, <3>2
    <2>2. ASSUME NEW s \in Tasks, NEW k, Old(s, k),
                 query_tasks'[s].answers[k].request_id = step[h].message
          PROVE  s # a /\ ~Keyed(step[h].message)
      <3>1. HasAnswer(s, step[h].message)
        BY <2>2 DEF HasAnswer
      <3>2. s # a
        <4>1. Exists(a) /\ ~IsProcessed(query_tasks[a], step[h].message)
          BY <1>5 DEF Stored
        <4>2. a \in Tasks
          BY <1>5 DEF Stored
        <4>3. QED
          BY <3>1, <4>1, <4>2 DEF OnceInv, RowRemembers, HasAnswer
      <3>3. ~Keyed(step[h].message)
        BY <1>5, <3>1, StoredLive DEF OnceInv, LiveIsFresh
      <3>4. QED
        BY <3>2, <3>3
    <2>3. CASE New(t, i) /\ New(u, j)
      BY <2>3
    <2>4. CASE New(t, i) /\ Old(u, j)
      BY <1>2, <2>2, <2>4
    <2>5. CASE Old(t, i) /\ New(u, j)
      BY <1>2, <2>2, <2>5
    <2>6. QED
      BY <1>3, <2>1, <2>3, <2>4, <2>5
  <1>6. QED
    BY <1>1, <1>4, <1>5, AnswersGrow

LEMMA OnceStep ==
  ASSUME WindowSuffices
  PROVE  DeliveryInv /\ OnceInv /\ [INext]_integrationVars => OnceInv'
  <1> SUFFICES ASSUME DeliveryInv, OnceInv, [INext]_integrationVars
               PROVE  OnceInv'
    OBVIOUS
  <1>1. \A t \in Tasks : Exists(t)' => RowRemembers(query_tasks'[t])
    BY RememberedStep DEF OnceInv
  <1>2. \A t \in Tasks : ~Exists(t)' => query_tasks'[t].answers = <<>>
    BY GoneStep DEF OnceInv
  <1>3. LiveIsFresh'
    <2>1. ASSUME NEW h \in Handlers, Live(h)'
          PROVE  step'[h].message \in Messages
      <3>1. DeliveriesTyped'
        BY DeliveryStep DEF DeliveryInv
      <3>2. QED
        BY <2>1, <3>1 DEF DeliveriesTyped, Live, Replying, InStep
    <2>2. ASSUME NEW h \in Handlers, Live(h)', Keyed(step[h].message)', NEW t \in Tasks
          PROVE  ~HasAnswer(t, step[h].message)'
      <3>1. Keyed(step'[h].message)
        BY <2>1, <2>2, LiveSaysTheSame DEF Keyed
      <3>2. QED
        BY <2>1, <2>2, <3>1, FreshStep DEF HasAnswer
    <2>3. QED
      BY <2>2, TargetsAgree DEF LiveIsFresh
  <1>4. ReplyActsOnce'
    BY ActsOnceStep
  <1>5. QED
    BY <1>1, <1>2, <1>3, <1>4 DEF OnceInv, Exists, RowRemembers, IsProcessed

LEMMA OnceInit == IInit => OnceInv
  <1> SUFFICES ASSUME IInit PROVE OnceInv
    OBVIOUS
  <1>1. \A t \in Tasks : query_tasks[t] = NoRow
    BY DEF IInit, Init
  <1>2. \A h \in Handlers : ~Live(h)
    BY NothingUnderWay DEF IInit, Live, Replying, InStep
  <1>3. QED
    BY <1>1, <1>2 DEF OnceInv, Exists, NoRow, LiveIsFresh, ReplyActsOnce

\* However often and in whatever order a reply is delivered, it answers one
\* clarification of a task, and with a key of one task.  The row has to remember the reply: it records at
\* most one request per version, so a task that is written fewer times than
\* _PROCESSED_REQUEST_LIMIT forgets none.
THEOREM RepliesActOnce ==
  ASSUME WindowSuffices
  PROVE  ISpec => []ReplyActsOnce
  <1>1. DeliveryInv /\ OnceInv /\ [INext]_integrationVars => DeliveryInv' /\ OnceInv'
    BY DeliveryStep, OnceStep
  <1>2. ISpec => [](DeliveryInv /\ OnceInv)
    BY <1>1, DeliveryInit, OnceInit, PTL DEF ISpec
  <1>3. OnceInv => ReplyActsOnce
    BY DEF OnceInv
  <1>4. QED
    BY <1>2, <1>3, PTL

=============================================================================
