# A formal model of ask-metric

ask-metric answers questions about bank metrics: a question becomes a *task*,
models read it, the user may be asked to clarify, one read-only SQL query is
executed, and the answer is stored in the conversation. This directory holds
TLA+ modules of the backend, the TLC configurations that check them and the
theorems TLAPS checks. Paths below are relative to the repository; `.../` stands
for `backend-next/src/ask_metric/`.

* Check a model: `tlc -workers 2 -config QueryTask.cfg MCQueryTask.tla`; section 3
  names the configuration and the module of each run.
* Check proofs: `tlapm QueryTaskProofs.tla`; section 4 names the modules with
  theorems.

`PROJECT.json` lists components, runs, mutants, findings, hazards and theorems,
and maps every definition to the lines it models.

## 1. Inventory

| Component | State it keeps | Operations | What makes it correct | Model |
|---|---|---|---|---|
| State machine (`.../domain/task_state_machine.py`) | none | `require_transition` | waiting is tied to the clarification stage; nothing leaves a terminal status | `TaskStateMachine` |
| Task services (`.../application/task_service.py`, `semantic_task_service.py`, `query_execution_service.py`) | tables `query_tasks` (status, stage, version, `state_json`), `query_runs`, `chat_messages` | submit, analyze, request / submit / cancel clarification, execute, delete | one outcome per task, told with the end of the task; nothing is lost, done twice or done late | `QueryTask`, `TaskLifecycle` |
| Submission (`submit_question`, `.../infrastructure/db/repositories.py`) | `chat_conversations`, unique index on (conversation, request) | create or replay, limit per user, rename, delete, clean-up | one task per idempotency key; the limit; clean-up spares what is in use | `Conversations` |
| Integration and channels (`integration_service.py`, `channel_service.py`) | none of its own: reads tasks and tokens | one message drives submit, analyse, execute; replies are correlated with a task | a reply reaches the question it answers; a message delivered twice acts once | `Integration` |
| Authentication (`auth_service.py`, `integration_identity.py`, `api/dependencies.py`, `scripts/`) | `app_users` with `session_version` | login, logout, single sign-on, scripts | only the newest session is accepted; a change of an account ends its sessions | `Sessions` |
| Catalogue vectors (`.../infrastructure/model/catalog_vectors.py`, `provider.py`) | matrix, rows, configuration fingerprint under a lock; the model semaphore | fill in batches, look up | vectors of two models are never compared | `CatalogVectors` |
| Start-up and registration (`main.py`, `query_initialization.py`, `nacos_registry.py`) | warm-up thread, stop event, status, registration | start, warm up with retries, end | ready comes without help and is true; the end ends, in order | `Startup` |
| Runtime configuration (`.../infrastructure/model/configuration.py`, `query/templates.py`, `api/routes/model_config.py`, `core/env_file.py`) | live files, history of versions | publish, roll back, update endpoints | what was there can be rolled back to; the newest version runs | `ConfigHistory` |
| Accuracy test centre (`test_center.py`, `test_case_import.py`, `scripts/run_accuracy_suite.py`) | JSON files of suites and runs, a thread and a child process per run | edit, import, start, execute, restart | an active run is executed and ends; an import repeats nothing | `TestSuites`, `AccuracyRuns` |
| Semantic pipeline (`metric_matching.py`, `semantic_normalization.py`, `semantic_engine.py`, `slot_frame_adapter.py`, `semantic_workflow.py`) | slots and clarification in `state_json` | match, analyse, ask, answer, normalise | nothing is guessed, nothing recognised is lost, the query asks for what exists | `MetricMatching`, `TimeExpressions`, `SlotFrames`, `Clarifications` |
| Catalogue (`api/routes/catalogs.py`, `catalog_sync.py`, `.../infrastructure/semantic/catalogs.py`, `deploy/package/intranet_deploy.py`) | `metric_terms`, `org_terms`, `metric_synonyms`, a process-wide cache | administer, synchronise with the data lake, clean up, read | manual work survives a synchronisation; what was added is served | `Catalogue` |
| Query planning and results (`domain/query_execution.py`, `result_*.py`, `sql_safety.py`, `export/xlsx.py`) | none | plan, render SQL, render answers | - | not modelled |
| Data sources (`.../infrastructure/query/*`) | external database | one read-only query with a timeout | - | the gap between two transactions of `QueryTask` |
| Browser client (`frontend-vue`) | the panel's task, version and keys | submits, analyses and executes | - | any request at any moment |
| Deployment scripts (`deploy/package`) | release directories, the current link | install, upgrade, roll back | - | not modelled but for the catalogue's |
| Schema, migrations, logging, errors | - | - | the constraints the modules rely on | - |

### How the parts interact

Clients (browser panel, integration API, channels) call HTTP routes. FastAPI
runs each route in a thread of its pool, so requests interleave freely, in one
process and across worker processes; the database and a few files are all they
share. A client names the version of the task it knows (`expected_version`) and
a request id or `Idempotency-Key`. `analyze` and `execute` leave the database
for seconds to call models or the data source and come back in a second
transaction. The clarification operations read the task without a lock and rely
on `update_optimistically` (`UPDATE ... WHERE id = ? AND version = ?`).
`delete_conversation` removes tasks and messages by cascade under whatever is in
progress, and sets `query_runs.task_id` to NULL. `analyze` reads the catalogue
through the cache, compares the question with the vectors of `CatalogVectors`
and works with the configuration that is live at that moment. Scripts of the
operator write accounts and the catalogue beside the running service.

### What is hard

* a model or SQL answer that arrives after the task was cancelled, deleted,
  executed by somebody else or moved on;
* two answers, or an answer and a cancellation, to one question; a reply that is
  delivered again when another question waits;
* three tables that must agree on how a task ended;
* retries of requests whose response was lost, a bounded memory of request ids;
* counts and rows that are read before a lock, a form or another system's answer
  and used after it: the conversation limit, session versions, catalogue rows;
* files that are staged, renamed and recorded without any lock;
* processes that die between the two steps of an operation;
* catalogue and configuration changing under a computation that takes minutes;
* names that several things have, answers that come in pieces, days at the turn
  of a month or a year.

`hazards` in PROJECT.json lists these at their lines. Each names the properties
that guard it or says why none does.

## 2. Modules

| Module | Models | Builds on |
|---|---|---|
| `TaskStateMachine` | `_STATUS_TRANSITIONS`, `_STAGE_TRANSITIONS`, `require_transition` | |
| `QueryTask` | tasks, runs, transcripts, handler threads | `TaskStateMachine` |
| `TaskLifecycle` | abstract specification: what a watcher sees of a task | `TaskStateMachine` |
| `QueryTaskLifecycle` | the refinement mapping from `QueryTask` to `TaskLifecycle` | both |
| `Integration` | channel messages that drive the actions of `QueryTask` | `QueryTask` |
| `Conversations` | submission under idempotency keys, limit, clean-up | |
| `Sessions` | accounts, tokens, scripts | |
| `CatalogVectors` | the vector cache and the model semaphore | |
| `Startup` | the life of a process around its cache | `CatalogVectors` |
| `ConfigHistory` | files and histories of the configuration | |
| `TestSuites` | suites and imports | |
| `AccuracyRuns` | runs of a suite | `TestSuites` |
| `MetricMatching` | metric names in a text | |
| `TimeExpressions` | the days an expression means, and what they should be | |
| `SlotFrames` | analysis of a question | the two above |
| `Clarifications` | the dialogue over one question | `SlotFrames` |
| `Catalogue` | the catalogue, who writes and who reads it | |
| `QueryTaskProofs` | theorems about tasks, handlers, runs and answers, the refinement, and channels | `QueryTaskLifecycle`, `Integration` |
| `ConversationsProofs`, `SessionsProofs`, `StartupProofs`, `ConfigHistoryProofs`, `AccuracyRunsProofs`, `CatalogueProofs`, `ClarificationsProofs` | theorems about the module they name | that module |
| `MC...` | the instance of the module for TLC | |

`Integration` and `Startup` compose: their next-state relations are made of the
actions of the module they extend, each with the place in `ask` or `lifespan` it
belongs to, so everything shown of that module holds of its steps here as well.

Faulty variants. Some definitions are introduced as a *faulty variant* of the
definition that follows them (`OverwriteTask` before `UpdateOptimistically`,
`WholeRow` before `Written`, ...). They model plausible bugs, not the code. No
action uses them; replacing the definition by its variant makes TLC report the
property named in `mutants`, which shows that the property depends on the code
being as it is.

### QueryTask

State. `query_tasks[t]` is a row: `status`, `stage` (`current_stage`),
`version`, and of `state_json` the parts the operations decide on:
`clarification` (id, type, the version its continuation token presents),
`logical_dsl` (present or not), `execution` (request id, run, status of its
summary), `processed` (the request ids already applied) and `answers`. A task id
is drawn by uuid4 and never again (`issued`). `query_runs` is a sequence in the
order of its autoincrement key. Each run carries one history component,
`request_id`, which is no column: it remembers who caused the run.
`chat_messages[t]` are the messages of a task in order. `handler[h]` is a
request handler between two transactions: what it does, on which task, with
which version, request id, run and (for the unlocked reads) the row it read.

Atomicity. One action is one committed transaction, or one unlocked read.

| Action | Code |
|---|---|
| `SubmitQuestion` | `submit_question` when nothing is found to replay or refuse |
| `BeginAnalyze`; `AnalyzeReady`, `AnalyzeAsks`, `AnalyzeFails`, `AnalyzeOutOfScope` | `analyze`: the read; then the locked write that fits what the models said |
| `BeginAnswer`; `AnswerResolves`, `AnswerAsksAgain`, `AnswerOther` | `submit_clarification`: the unlocked read; then the optimistic write |
| `BeginCancel`; `Cancel` | `cancel_clarification` |
| `BeginRequestClarification`; `RequestClarification` | `request_clarification` (no route calls it yet) |
| `ExecutePrepare`, `ExecutePlanFails` | `_prepare`: registers the run, or records why there is none |
| `FinishSuccess`, `FinishFailure` | `_finish_success`, `_finish_failure` |
| `DeleteConversation` | `delete_conversation` with the cascades of the schema |
| `Rejected` | a closing transaction that raises (404, 409) and rolls back |
| `Crash` | a handler that ends without its closing transaction: the process dies, or an exception leaves `execute` outside its `try` |

A request that the code refuses without a write, and a replay it answers from
`state_json`, change nothing and are no steps. What the models, the planner and
the data source say is chosen freely. `_add_result_message` skips tasks that
belong to an internal analysis; `require_query_task` refuses those before, so
the case does not arise. A transaction that the database fails (deadlock, lock
timeout) is a `Rejected` or a `Crash`.

`TaskLifecycle` says what a watcher may see: a task goes through the moves the
state machine lists, with a version that grows, settles once, and is silent
afterwards. Its one move outside the tables is the first observation of
section 5.

### Integration

`content[m]` is what a client wrote once it used the id `m`: a question, or a
reply that names a clarification by id, presents a token, or gives a session
only, with an idempotency key or without one (`Keyed`): over the channel route
the external message id is then the request id, and nobody looks for a task that
has processed it before. `step[h]` is the place of a handler in `ask`. `Send` fixes a message;
`DeliverQuestion` and `Correlate` are the first transaction of a delivery, which
may happen again at any moment; `Advance` is the next transaction of a delivery
in progress (answer, replay, analyse, execute, respond); `DeliveryCrashes` ends
one anywhere; `BrowserCancels` and `BrowserDeletes` are the panel of the same
user. A full task reference is checked like a token. The table of reply mappings
finds nothing, because only `request_clarification` would fill it.

### Conversations

`conversations` has owner and `updated_at`; `tasks` every task ever inserted,
`live` until it is deleted. A submission is `BeginSubmit` (one snapshot: the
conversation, the task with the key, the number of conversations) and
`CommitSubmit`. If an insert fails on the unique index (`Collide`) or on the
primary key or the foreign key of the conversation (`LoseConversation`), the
handler goes on with `Recover` or `RetryReads`, as the error handler of
`submit_question` does. `DriverNamesConstraint` says whether the driver's error
names the constraint. `RenameConversation`, `DeleteConversation` and
`CleanupConversations` are one transaction each; `TaskEnds` stands for all that
`QueryTask` does.

### Sessions

`app_users[u]` is the account, `tokens` the claims of every token handed out,
`worker[w]` what a request or script has read. `BeginLogin` (or `BeginSession`,
after single sign-on resolved the user) and `CommitLogin` are the read and the
`UPDATE ... session_version + 1`; `BeginLogout` and `CommitLogout` alike.
`BeginResolve` and `CommitResolve` are `resolve`, which provisions or updates an
account from an external profile, `ResolveCollides` its lost insert.
`BeginSync`/`CommitSync` and `BeginReset`/`CommitReset` are one account's part of
`sync_bank_identity.py` and `create_local_user.py`. `Stored` is how the ORM
writes: the columns that differ from what was read, over whatever the row has
become. Scripts begin and commit beside logins and one another. `overtaken` is a
history variable: the accounts on which a script has stored a version that it
computed from a row that was no longer the row.

### CatalogVectors and Startup

A vector is the model that made it and the text it stands for; a buffer is the
array a matrix lives in. `Ask`, `Acquire`, `CallForBatch`, `TakeSlot`,
`AnswerBatch`, `Loaded`, `CallForQuestion`, `AnswerQuestion`, `Rank` are the path
of a question; `LockTimeout`, `SlotTimeout` and `Fail` its errors. `Publish`
changes the embedding configuration, `ChangeCatalog` the enabled metrics, at any
moment. The array holds rows in place when the catalogue changes, as the code
does, and what a reader holds is a view of a buffer, not a copy.

`Startup` adds `stage` (of `lifespan`), `stop`, `status`, the warm-up `thread`,
and the registration. `ThreadStep` is the warm-up: attempts, back-off, ready.
`Test` and `EndTest` are `test_model_connection`, which takes a place of the
semaphore whether or not the catalogue is ready, also while the warm-up waits for
one. `returned` is a history variable of `CatalogVectors`: a configuration came
back to a worker whose call was made under another.
`StartRegistry`, `EndOfService`, `StopWarmup`, `Close` are `lifespan` in order.
`Recover` is no code: from then on models answer and nobody publishes
or tests (`healthy`), which liveness is conditional on.

### ConfigHistory

`live` and `temp` are the files under their name and under the name with `.tmp`,
`history` the versions of each key. A request is a chain of system calls, each a
step of its own because nothing locks: read, `Open` (truncates), `Write`,
`Replace` (renames), `LoadRegistry`, `ReadBack`, `Number`, `Record`, with the
baseline first if the history is empty. `UpdateModel` with `StoreCredentials`,
`NoCredentials`, `RefuseCredentials` is the update of a model's endpoint and
credentials. `Crash` ends all requests anywhere, also between `Open` and `Write`.

A template's file holds a text with variables. `Shown[text]` is what the routes
of the administrators make of it, with the names of tables and columns that the
program is built with, because they pass no `template_variables`; it is what is
recorded, as the baseline and as a version. What the service queries with, the
names of the settings, is not recorded and not modelled. A text with a variable
that is not known cannot be shown: `Listable` is whether all templates can, and
`unlisted` remembers that they once could not. A template's file is no JSON, so
that an emptied or mixed one is a text as well.

### TestSuites and AccuracyRuns

`suites` is the file of suites. `CreateSuite`, `UpdateSuite`, `DeleteSuite` are
one step each under the repository's lock; an import is `PreviewImport`,
`ReadForImport`, `WriteImport`; `PostCases` a client that confirms a
list of its own. `runs` is the file of runs, newest first, `executor[r]` the thread of
a run, `child[r]` its process with the two pipes. `Services`, `MakePair`,
`CheckRuns`, `QueueRun` are a request that starts a run (its thread may fail to
start after the run was saved); `Prepare`, `Spawn`,
`ReadLine`, `ChildEnds`, `Close`, `Failing`, `FailingSilently` the thread;
`AnswerCase`, `WriteDiagnostics`, `PrintResults`, `Exit`, `ChildFails` the child.
`Crash` ends the process; the next repository that is opened ends the runs it
left.

### MetricMatching, TimeExpressions, SlotFrames, Clarifications

Texts are sequences of characters; one character may stand for a word when
nothing inside it matters. `Resolve` is `MetricMatcher.resolve` (spans, ties,
longer names, partial aliases), `ParseTime` is `parse_time_expression` on the
captures of its regular expressions, `Analysed` is the way from the checked
output of the extraction model through `SemanticEngine.analyze` to a normalised
frame. What language models return is an input: the extraction, the similarity
scores, the metric picked for a comparison. `TimeExpressions` also holds a
reference definition, `Means`: whether a day is in the period the words name,
stated by the day, without ends of ranges.

`Clarifications` is the dialogue: `Analyze` or `Refuse`, then
`SubmitClarification(a)` with structured or free answers until nothing is
missing (`Advance`, `Answered`, `Dsl`). `Synchronize` changes the catalogue and
`Midnight` the day between them.

### Catalogue

`metric_terms` and `org_terms` are rows with name, `manual` (all that only
administrators maintain), `enabled` and `updated_at`. `work[w]` is a database
session: what it read in its snapshot, what it wants to write, what it has
flushed and locked. `CreateMetric` ... `DeleteOrganization` are the routes of
administrators, `StartSync`, `SyncMetrics`, `SyncOrganizations` the
synchronisation, `ReadForCleanUp`, `CleanUp` the removal of simulated rows; each
ends in `Save` (the flush), `Commit` or `RollBack`. `Written` is the mapper's
unit of work: it writes the columns that differ from what was read and stamps
the row with the second of the statement. `ReadVersions`, `HitCache`,
`MissCache`, `Fill` are `list_enabled`, whose cache is keyed by the newest
`updated_at` of two tables: the snapshot, its comparison with the cache, and the
filling of the cache are three steps. Rows of organisations without a name are
counted by a synchronisation and left alone (`OrgNames`). A clean-up deletes the
synonyms it has read, and not those added since.
`LoadLake` lets the data lake be loaded again between the two queries a
synchronisation makes.

## 3. Runs

| Run | Module, configuration | Instance | Distinct states |
|---|---|---|---|
| `tasks` | `MCQueryTask`, `QueryTask.cfg` | 2 tasks of one conversation, 2 handlers, 2 request ids, 4 versions, 1 crash | 686,733 |
| `replies` | `MCIntegration`, `IntegrationReplies.cfg` | 2 tasks of one session, 3 messages with or without a key, 2 handlers, 3 versions, 1 crash | 509,355 |
| `channel_settles` | `MCIntegration`, `IntegrationSettles.cfg` | 1 task, its question and a reply, 2 handlers, 5 versions, no crash | 12,200 |
| `submissions` | `MCConversations`, `Conversations.cfg` | 2 users, 2 conversations, 2 keys, 2 handlers, limit 1 | 1,208,238 |
| `sessions` | `MCSessions`, `Sessions.cfg` | 1 account, 2 organisations, 2 requests or scripts at once, 3 tokens | 1,718,529 |
| `start_up` | `MCStartup`, `Startup.cfg` | the warm-up, 2 requests and connection tests, 2 models, 2 catalogues, 1 slot | 1,337,616 |
| `settings` | `MCConfigHistory`, `ConfigHistory.cfg` | 2 prompts, 2 templates, 1 endpoint, 2 requests at once, 3 in all, 1 crash | 1,540,486 |
| `test_centre` | `MCAccuracyRuns`, `AccuracyRuns.cfg` | 2 suites, 2 requests that start runs, 2 runs, 1 import, 1 crash | 445,483 |
| `clarifications` | `MCClarifications`, `Clarifications.cfg` | 4 metrics, 2 organisations, 3 catalogues, 350 questions, 17 answers, 2 rounds | 97,095 |
| `catalogue` | `MCCatalogue`, `Catalogue.cfg` | 2 metrics, 2 organisations, 2 sessions at once, 2 loads of the lake, 2 commits | 1,832,389 |
| `retry` | `MCQueryTask`, `QueryTaskRetry.cfg` | finding 1 | - |
| `script_overtaken` | `MCSessions`, `ScriptOvertaken.cfg` | finding 2 | - |

What they show:

* `tasks`. In every order of analyse, answer, cancel, execute, delete and a
  death of a handler: who closes a task decided on the row it closes
  (`SnapshotsHold`); the user is told once how it ended (`OneOutcome`); a task
  waits exactly for the question asked last (`WaitingMeansAsked`); no
  clarification is answered twice (`AnsweredOnce`); of executions that overlap
  one owns the task (`ExecutorOwnsTask`), and transcript, `state_json` and
  `query_runs` agree on it (`SucceededRunIsReported`, `ExecutionMatchesRun`); a
  retry with the last key starts nothing (`RetryRunsOnce`); ended tasks stay as
  they are, versions cover every write, deleted tasks are never written; and
  `QueryTask` implements `TaskLifecycle` (`ImplementsLifecycle`).
* `replies`. A reply answers the clarification it names or none
  (`ReplyReachesItsQuestion`), and one of a task only, however often it is
  delivered; with an idempotency key it answers one task only (`ReplyActsOnce`).
* `channel_settles`. If no process dies, a task whose SQL was started ends
  (`ExecutionSettles`), and a question that was delivered once ends, or waits
  for its user (`QuestionGetsAnswered`).
* `submissions`. Clients are told of their own question's task, and of one
  (`RepliesAgree`); the limit is passed only by what was in progress when it was
  reached (`LimitOvershootBounded`); clean-up keeps what is in use and the newest
  rest (`CleanupSparesUse`).
* `sessions`. A login leaves exactly its own token accepted (`LoginIsNewest`); a
  script ends the sessions of an account it changes for good
  (`ScriptEndsSessions`). Scripts and logins overlap at will; both properties
  except what has happened to an account after a script stored a version that had
  been raised since it read it, which finding 2 shows to be the case that fails.
* `start_up`. A question is compared with vectors of its own model and
  catalogue, until a configuration returns to a call that was made under another
  (`OneSpaceUntilReturn`); the HTTP client is closed after its last call
  (`ClientOutlivesCalls`); the end of the process ends (`ShutdownEnds`); once
  models answer, the warm-up gets ready (`BecomesReady`).
* `settings`. What was there before the first publication is in the history
  (`OriginalIsKept`), wherever a process dies; without overlap and crash the
  newest record is what is live (`NewestIsLive`), unless a template was published
  that cannot be shown. Both speak of a template as the administrators are shown
  it; what that leaves out is an observation of section 5.
* `test_centre`. A run shown as active is executed (`ActiveIsExecuted`) and ends
  (`RunEnds`); a completed one has a result for every case
  (`CompletedIsComplete`); an import repeats no case (`ImportAddsNoDuplicates`).
* `clarifications`. The query asks for what the catalogue has and for days that
  exist (`DslIsComplete`); a metric's name that several have is asked for
  (`AmbiguousMetricIsAsked`); expressions of time mean what their words say, day
  by day (`TimesMeanWhatTheySay`); an organisation is queried only if the
  question names it or has the words for all, if the user chose it, or if a
  catalogue read since has given it the name of such a one
  (`OrganisationsAreGrounded`); what was recognised survives an
  answer (`PreservedIsKept`); a complete answer is enough
  (`CompleteAnswerResolves`).
* `catalogue`. A synchronisation changes names only, and nothing of rows for
  which the lake has no name (`SyncKeepsManualWork`);
  additions are served unless they share a second with, or were overtaken by,
  what the cache was filled from (`AdditionsAreServed`).

### Bounds

* `MaxVersion` is the number of writes of one task: an operation that would pass
  it is not started (`execute` needs two). Four let a task be asked, answered and
  executed, or executed twice with one execution overtaking the other, or asked
  three times and cancelled. A conflict on a task has two parties, so two
  handlers. `ProcessedLimit` is 1 in `tasks` instead of 50, so that the window of
  processed request ids slides; in the other runs it holds every id.
* `MaxCrashes` is 1: a handler that dies leaves only rows or files behind, and a
  second death leaves nothing the first does not.
* `Conversations`: the limit and `KeepLatest` are 1, so that every first question
  meets the limit; besides one user everybody asks one question, which is the
  other party of every collision. Three tasks and two seconds let a conversation
  be older, as old, and newer than another. Both users may name the same
  conversation.
* `Sessions`: three tokens and two versions let a login, a script and a second
  login overlap in every order, and let a script set a version back to one that
  is in use.
* `Startup`: batches of one text and one slot make every call a place to be
  overtaken. Texts are shared between the catalogues, and one has a text twice.
  The constraint `Promised` stops after the step with which a configuration
  returns to a call that was made under another; a configuration may come back at
  any other moment. Beyond it `OneSpaceUntilReturn` says nothing (without it TLC
  finds `OneVectorSpace` violated, section 5), and liveness is not claimed;
  `ClosedAfterTheLastCall` and `QuestionsSeeTheirTexts` (section 4) are proved
  without it.
* `ConfigHistory`: three requests are a publication, one that overlaps it and one
  after both. The texts are the original, which has variables, that text as it is
  shown, one without variables, and one with a variable that is not known, besides
  what an emptied and a mixed file hold.
* `AccuracyRuns`: `PipeSize = 0` makes every diagnostic fill the pipe; `Kept` 1
  makes the file of runs drop one. The constraint `OneManager` stops after the
  step that makes a second manager (an observation below). Beyond it
  `ActiveIsExecuted` says nothing, by its own premise, and `RunEnds` is not
  claimed; the two others are proved with any number of managers.
* `Clarifications`: every input is one question with the extraction a model may
  return for it, good, incomplete, garbled or made up. Days are the edges of
  years, months and the leap day of 2023 and 2024. In one of the catalogues an
  organisation has the name of another as its alias. Two rounds are an incomplete
  and a completing answer; `MaxChanges` 1 is one synchronisation or midnight
  between them.
* `Catalogue`: `Scopes` is the scope `initialize`, of which the others are parts.
  Two commits over one second (`MaxClock`) let two writers overlap, share a
  second, or follow one another, with the reader's snapshot before, between and
  after.

Users, handlers, requests, prompts and the like are interchangeable and reduced
by symmetry in runs without liveness. Deadlock is not checked: in every module
the system rightly stops when all requests are answered and a bound is reached.

### Fairness

* `FairSpec` of `QueryTask` and `IFairSpec` of `Integration` ask that a handler
  which is not killed goes on (`WF`). Model calls, the model semaphore and the
  SQL have timeouts whose exceptions are turned into a closing transaction, and
  no handler waits for another outside the database. Nothing is asked of clients,
  and `MaxCrashes` is 0: the code promises no recovery of a task whose handler
  was killed.
* `SFairSpec` of `Startup` asks that the warm-up thread goes on, that a
  connection test ends, which has the timeout of every call, and that `lifespan`
  takes its next step. Calls may fail for ever; `BecomesReady` is
  conditional on a time from which they do not.
* `FairSpec` of `AccuracyRuns` asks that the thread of a run and its child go on.
  Nobody else is asked for anything.

## 4. Proofs

A run shows a property on one small instance; a theorem holds for every value of
the constants: every set of tasks, users, requests, texts, suites, and every
bound. Nothing is assumed but the named assumptions of the modules and, where
the table says so, a hypothesis of the theorem.

| Theorem | Property | Hypothesis |
|---|---|---|
| `QueryTaskProofs!TypeCorrect` | `TypeOK` | |
| `OutcomeToldOnce` | `OneOutcome` | |
| `WaitsForTheLastQuestion` | `WaitingMeansAsked` | |
| `DecisionsStayValid` | `SnapshotsHold` | |
| `EndedTasksAreFinal` | `TerminalIsFinal` | |
| `VersionsCoverWrites` | `VersionCoversEveryWrite` | |
| `ExecutionHasOneOwner` | `ExecutorOwnsTask` | |
| `StateMatchesRuns` | `ExecutionMatchesRun` | |
| `OneRunCounts` | `SucceededRunIsReported` | |
| `RetriesAreReplayed` | `RetryRunsOnce` | |
| `NoAnswerTwice` | `AnsweredOnce` | |
| `NothingComesBack` | `DeletedStaysDeleted` | |
| `ServicesImplementLifecycle` | `ImplementsLifecycle` | |
| `TasksStaySafe` | the invariants of `QueryTask` under `ISpec` | |
| `RepliesReachTheirQuestion` | `ReplyReachesItsQuestion` | |
| `RepliesActOnce` | `ReplyActsOnce` | `WindowSuffices` |
| `ConversationsProofs!SubmissionsAgree` | `RepliesAgree` | |
| `LimitPassedBoundedly` | `LimitOvershootBounded` | |
| `CleanupTakesTheRest` | `CleanupSparesUse` | |
| `SessionsProofs!TypeCorrect` | types | |
| `LoginLeavesOneToken` | `LoginIsNewest` | |
| `ScriptsEndSessions` | `ScriptEndsSessions` | |
| `StartupProofs!QuestionsSeeTheirTexts` | every question sees its catalogue's texts | |
| `NoTwoModelsMeet` | `OneSpaceUntilReturn` | |
| `ClosedAfterTheLastCall` | `ClientOutlivesCalls` | |
| `ConfigHistoryProofs!TypeCorrect` | types | |
| `OriginalStays` | `OriginalIsKept` | |
| `NewestStaysLive` | `NewestIsLive` | |
| `AccuracyRunsProofs!TypeCorrect` | types | |
| `ImportsAddNothingTwice` | `ImportAddsNoDuplicates` | |
| `CompletedRunsAreComplete` | `CompletedIsComplete` | |
| `ActiveRunsAreExecuted` | `ActiveIsExecuted` | |
| `CatalogueProofs!TypeCorrect` | types | |
| `AdditionsReachReaders` | `AdditionsAreServed` | |
| `ManualWorkIsKept` | `SyncKeepsManualWork` | |
| `ClarificationsProofs!QueriesAreComplete` | `DslIsComplete` | |
| `TimesAreUnderstood` | `TimesMeanWhatTheySay` | |
| `CompleteAnswersResolve` | `CompleteAnswerResolves` | |
| `RecognisedIsKept` | `PreservedIsKept` | |
| `OrganisationsComeFromTheUser` | `OrganisationsAreGrounded` | |
| `SharedNamesWait` | a question with a shared name of metrics waits for its user | |
| `SharedMetricsAreAsked` | `AmbiguousMetricIsAsked` | `ChoicesFit` |

Every invariant and every action property a passing run checks is stated by one
of these.

### Assumptions

The hypotheses are part of what is claimed.

* `WindowSuffices` (`MaxVersion < ProcessedLimit`): a task has fewer writes than
  the window of processed request ids holds, which is 50
  (`task_service.py:84`). After 50 further writes the code forgets an id
  (`task_service.py:994`), and a message that old acts again.
* `ChoicesFit`: what a question and its phrases leave in doubt are no more than
  three metrics, and no more than `max_candidates`, whose default is three. A
  clarification offers three (`semantic_workflow.py:343`), so of four that share a name one
  is not offered. `SharedNamesWait` needs no such hypothesis: the question waits
  for the user in any case.

The assumptions on constants that a proof needs besides types and values for
"nothing": threads, users, workers and tasks are finite in number (task ids have
128 bits); conversation ids are totally ordered, as a primary key is (`IdRank`);
a catalogue that is embedded is not empty; a prompt and a template never have
the same name; codes of metrics are unique in a catalogue, as the index on them
demands; an answer sets metrics, organisations or the time, which is what
clarifications ask for. TLC evaluates `ChoicesFit` on the instance of the run
`clarifications`, which satisfies it.

### The task services

`TypeOK` is inductive together with `HandlersWellFormed`: a busy handler works
for an issued task and has a request id where its operation needs one. The
safety properties rest on one inductive invariant,

    SafeInv == TypeInv /\ Known /\ SnapshotsHold /\ OneOutcome /\ WaitingMeansAsked

`Known` says that rows belong to issued tasks and that no handler is ahead of
the version of its row. `SnapshotsHold` is the heart: if the version a handler
knows is still the version of the row, the row is the one it read, so what it
checked then (analysable, a clarification is active, executing) holds now. It
is needed because `_finish_intent_boundary`, `_finish_success` and the
clarification writes check nothing but the version before they end or rewrite a
task; without it `OneOutcome` is not inductive. `OneOutcome` and
`WaitingMeansAsked` are needed in turn, because what may be written depends on
the task having told no outcome and asking nothing while it runs.

The argument has three parts. `TaskStep` reads the code: by
cases over the actions, each step leaves a task alone, creates it, removes it, or
rewrites it under the next version so that it goes on, asks, or settles.
`HandlerStep` follows: a rewritten row has a version no other handler knows.
`OutcomeStep`, `WaitingStep` and the two action properties follow from
`TaskStep` alone. `ExecutorOwnsTask` is inductive relative to `SafeInv`: only
`_prepare` sends SQL out (`OnlyPrepareExecutes`), and it gives the row a version
that overtakes every execution before it.

A second reading of every step (`StepKind`) serves the runs: it submits a task,
asks, takes an answer, moves a task on otherwise, registers a run, closes one, or
forgets the tasks of a conversation. The second invariant adds

    RunsInv == RunsKnown /\ GoneIsSilent /\ ExecutionNamesRun /\ LatestExecution /\ OnlyKeysRun /\ ...

and `AnswersInv`. `ExecutionNamesRun` and `LatestExecution` tie `state_json` to
`query_runs`: the run that `state_json` names is the task's, is the last one
registered for it, and agrees with the summary on how far it got. Of two
executions that overlap the older one's run is therefore never the one that is
reported, and `ExecutorOwnsTask` says that the older one cannot close the task.
`OnlyKeysRun` ties the run to the key that caused it. `AnswersInv` says that an
answer in the transcript names a version the row has left, and is the only one to
that question; a new question takes the next version, so no answer can name it
yet. `NothingComesBack` needs that a deleted task is no handler's current row.

The refinement takes `TaskLifecycle`'s steps one by one: `StepKind`
gives the move of the abstract task, `CanTransition` the table, and
`WaitingMeansAsked` and `OneOutcome` what the watcher is told. The deletion of a
conversation is one step of the abstract specification for all its tasks.

### Channels

`TasksStep` shows that every step of `Integration` is a step of `QueryTask`, or
leaves its variables alone, or is the death of a delivery between two
transactions, so that the invariants above hold here (`TasksStaySafe`); nothing
of their proofs is repeated. `DeliveryInv` adds what a delivery carries between
its transactions: a reply was correlated with a task of its own session, or with the one its token
names (`Correlated`), and an answer in progress is to the clarification that was
found then (`Answering`). If a reply gives only the session, that was the one
task that waited, and the version check refuses the answer if the task has moved
on since.

`OnceInv` is needed for `RepliesActOnce`: a row remembers every request that
answered it (`RowRemembers`, where `WindowSuffices` enters), and while a delivery
can still store its reply, nobody has stored it, and every other delivery of it
that still can has the same task (`LiveIsFresh`). Of those only one can: the
first to write takes the version the others present. That a request answers one
task only is claimed of replies with a key; of the others it says that they answer
one clarification of each task.

### Submissions

`ReplyInv == TypeOK /\ KeysUnique /\ RepliesTrue`: one live task has a key in a
conversation (the unique index), and a client is told of a task that was asked
what it asked. It holds through the recovery from a lost race, with and without
the name of the constraint. `LimitOvershootBounded` is inductive as it stands,
with the types: a submission begins to create a conversation only below the
limit, when at most all handlers do so. `CleanupSparesUse` rests on `Rank`, the number of
newer conversations of the same user that may go: names of equal age are ordered
by their ids, so the ranks are different and those below `KeepLatest` are as many
as there are.

### Accounts

`SessionInv == TypeOK /\ NotAhead`. No token is ahead of the row of its account,
unless the account is in `overtaken`, so that the version a login writes is new;
`TypeOK` is what excludes a version that no integer has. A request that stores
another column writes the version it read only if it differs from it, which it
never does; a script stores the version it computed. If the version it read is
still that of the row, the row advances (`RowAdvances`); if not, the account is in
`overtaken` from then on. The exception is the weakest that the code leaves: it
begins with the one commit that may take a version back.

### Vectors and start-up

    VectorInv == TypeOK /\ CacheIsTrue /\ \A w \in Workers : Sound(w)

`CacheIsTrue`: under the registered catalogue each text has a row, the row of a
text holds its vector, and the array is as long as the rows. `Sound(w)` is what a
worker knows at its place (`Knows`), what it is loading under the lock (`Loads`),
what the buffer it took a view of holds (`Sees`), and which model it called
(`Called`). The array is written by the holder of the lock while others rank
with views of it: `Sees` survives because a batch is written behind the rows of
the registered texts, which are the only ones a view of the current array has.
`Called` and the models of the rows hold until a configuration returns: till then
a worker that finds its own configuration in force was answered by its model.
`LifeInv` relates stage, thread, tests and workers: no request or test after the
end of service, no warm-up after it was joined, and the client is closed after
all of them.

### Configuration

`KeptInv`: what a request is going to record, and what a file or its temporary
file holds, is of a key whose original is in the history already, or is the
original (`Safe`, `Backed`). It has to speak of `temp` because requests write over
each other's temporary files, and a rename may publish what another request
wrote. `NewestStaysLive` rests on `AloneInv`: while no requests overlapped and
none died (`Alone`), the one request there is finds at each of its steps what it
left (`Undisturbed`), and between requests history and files agree (`Rest`): a prompt
as it is, a template as it is shown, which it can be as long as `unlisted` is
false.

### Test centre

`SuitesInv` says that what an import holds to write adds nothing twice to the
suite it read (`MergedIsNew`). `Merge` is a loop over a list; that its result
keeps the property is an induction over the places of the list, which the library's theorems
cannot give here: `ThroughTheLoop` states it with a set of numbers in place of a
predicate and is proved by the least place that is missing.

`RunsInv` follows a run from its thread to the file. `KnowsItsRun` says what the
thread is about to store; `NothingLost` that every number of the suite is in one
place, waiting, answered, printed or among the results, until the child fails; a
thread completes a run only when nothing is left to read of a child that did
not. `ListedHadThreads`
says that the runs in the file have had a thread, so a new run is none of them.
The theorem holds with any number of managers and restarts.
`ActiveIsExecuted` is about the service while it made one manager: it says so
itself (`~doubled`), and with two it is false (section 5). It needs that no
request gets past the lock without a manager (`RequestsHavePairs`).

### Catalogue

    CatalogueInv == TypeOK /\ Stamped /\ Views /\ Cached /\ SyncInv /\ Exclusive

`Stamped` says that no row is newer than the clock and none was committed later
than the last commit; `Views` that the snapshot a reader holds has every row that
was not committed since as it is; `Cached` the same of the cache. If the key of
the cache is the key of the database, a row the cache lacks was committed after
the cache was read, and is no newer than what was newest then: that is
`AdditionsAreServed`. Without `Stamped` the key could be ahead of a row that is
still to be written.

`SyncInv` says what a synchronisation wants to write: each row as it was read,
enabled, with a name the lake has for it, nothing else; and what it has flushed
is computed from rows that are still there. The latter holds because rows that
were flushed are locked until the commit, and no row is locked twice
(`Exclusive`). It is needed since the mapper writes columns, not rows: what an
administrator committed between the read and the flush stays, and nothing can
come between the flush and the commit.

What the lake's rows come to is the result of two loops, `_select_latest` and
`_build_metric_catalog`. Each is a recursive function over the number of rows read,
and `ThroughTheLoop` (as in `AccuracyRunsProofs`) carries a fact from each number
to the next, so that both are understood for every length of the lake.

### Questions

`ClarificationsInv` relates the frame and what is asked: the slots are well
formed, what is not missing is there (`Filling`), every missing slot has a field
(`Covers`), an organisation is asked for only while none is known, and a query is
complete. It holds for every extraction a model may return, because
`normalize_slot_frame` and `advance_slot_frame` check each slot again, and for
every synchronisation between two rounds, because they read the catalogue that is
then in force.

* Times (Parts 1 and 2) need no invariant. For each form of an expression the
  range that `parse_time_expression` computes from ends of months, quarters and
  years is shown to hold exactly the days that the reference definition `Means`
  describes one by one. The last n days are an induction over a number
  (`DaysBackIs`).
* Answers (Part 5). `CompleteAnswersResolve` follows the slots of a complete
  answer through patch, normalisation and completion. `RecognisedIsKept` says
  something of metrics only: the invariant shows that a field for organisations never
  shows a recognised one, so that half of the property asks nothing of the code.
* Organisations (Parts 6 and 7). `OrganisationsInv` says that the organisations
  of the frame are in every set that has those the question names, those its words
  for all ground and those the user chose, and that is closed under handing a name
  over (`Closed`): a slot holds a name only, and `normalize_slot_frame`
  (`semantic_normalization.py:54`) reads a name that a synchronisation has made
  the alias of another organisation as that one. It rests on what texts contain: a
  term found in what `_outside_metric_text` leaves is in the question, a blank of
  the term standing for what was blanked out (`HasOutside`); and words found in the
  protected text are in the question, or in the markup of a placeholder
  (`HasProtected`, by following each character to where it came from; `ThreeMore`
  is the step over one placeholder). Nothing is asked of names, texts or
  catalogues.
* Shared names (Part 8). The hits of several metrics on one span are all
  preferred, so all are in doubt (`SharedIsDoubtful`), in the question and in a
  phrase that is resolved alone; while anything is in doubt nothing is decided
  (`DoubtIsOpen`), and what was cut to the first candidates is complete if it fits
  (`DoubtfulFit`).

`Kept`, `Scan`, `Selected`, `OrgSpans`, `Protect` and the loops of the
synchronisation are written as recursive functions, or by what their result
satisfies, so that the provers can reason about them.

### Only model-checked

Liveness, which is out of the prover's reach: `ExecutionSettles`,
`QuestionGetsAnswered`, `ShutdownEnds`, `BecomesReady`, `RunEnds`. The two runs
that show a divergence, `retry` and `script_overtaken`, are TLC's as well. What `SequenceMatcher.ratio` computes
(`Common`) is used by the proofs as a number of which nothing is known.

## 5. Findings and observations

Two places where the code does other than a document or a comment of the
repository says; a run shows each.

1. *An idempotency key of `execute` is remembered only until another one is
   used* (run `retry`). `_execution_replay` (`query_execution_service.py:609`)
   compares the key with the last registered execution. Execute under r1, then
   under r2 while the first SQL is out, then under r1 with the new version: the
   SQL of r1 runs a second time. The guide (`docs/关键代码阅读指南.md:184`) says
   that the key avoids a repeated execution. A retry with the last key starts
   nothing (`RetryRunsOnce`).
2. *A token outlives the change of its account* (run `script_overtaken`).
   `sync_bank_identity.py:385` adds one to the version that was read when the
   script began; it reads all accounts, checks the workbook and may wait for a
   password before it commits. A login in between has been given exactly the
   version the script stores, and its token stays accepted although the account was
   moved or renamed; it is even so if it was disabled, once it is enabled
   again. Two logins in between and the script sets the version back. The
   instructions (`行内用户机构同步脚本使用说明.txt:249`) say without a condition that
   the change makes old tokens invalid, and do not ask that the service be stopped.

Modelling met these as well. The modules have the steps that lead to them; no
run states their opposite.

Tasks and submissions:

* A failing analysis moves a task from `INTENT_ROUTING` to `FAILED` in
  `ENTITY_RESOLUTION`, a move the tables of the state machine do not list.
  `TaskLifecycle` lists it explicitly; `ImplementsLifecycle` shows that it is the
  only one.
* The recovery of a lost creation race reads the name of the constraint from
  PostgreSQL's diagnostics; pymysql gives none, and the loser is told of an
  error. Its next attempt finds the task (`DriverNamesConstraint = FALSE`).
* A task whose handler is killed while its SQL is out answers
  `QUERY_ALREADY_RUNNING` to its key for ever; another key revives it.
* A message delivered again while its first delivery is between two transactions
  continues it, and one of the two is refused with a conflict.
* A reply over the channel route that gives only its session and no idempotency
  key is not looked up (`channel_service.py:148`): delivered again when another
  task of the session waits, it answers that one too.
  `docs/external-api.md:433-434` advises to prefer the continuation token, and does
  not say so.

Accounts:

* The organisation of an account changes with an external profile and its
  session version does not, so that a token which was refused for its
  organisation fits again when the account returns
  (`integration_identity.py:108`).
* A login stores the rehashed password over a password that was set after it read
  the account (`auth_service.py:110`).

Configuration:

* Two publications that overlap may record one number twice, and the newest
  record need not be what is live; a crash after the rename leaves what is live
  unrecorded; two administrators who change different prompts at once lose one
  change, since all prompts are one file (`model_config.py:460`); both stage it
  under one temporary name (`configuration.py:386`).
* Credentials that are refused leave the new endpoint in place.
* An embedding configuration that is published and rolled back while a batch is
  out leaves the vectors of the other model in the cache, under the fingerprint
  of the one that returned: `_ensure_current` compares fingerprints after the
  call (`catalog_vectors.py:112`), and a fingerprint is a hash of the contents.
  `backend-next/README.md:309` says that reloading keeps vector spaces from being
  mixed. Without the constraint `Promised` TLC finds `OneVectorSpace` violated;
  the property that is checked, `OneSpaceUntilReturn`, ends there.
* What is recorded of a template is its text with the names that are built in:
  `list_templates` renders (`templates.py:97`, `165-182`), and the routes of the
  administrators pass no variables (`model_config.py:221-235`, `609-629`), while
  the service renders with the settings (`dependencies.py:194-206`). The installed
  text with its variables is not in the history. A template that is published and
  rolled back to its baseline queries the built-in tables from then on, although
  `backend-next/README.md:249-253` says that tables and fields come from `SIT_*`
  settings, the built-in ones being a default, and that templates can be rolled
  back. `OriginalIsKept` and `NewestIsLive` therefore speak of what is shown.
* A template with a variable that is not known is in place before it is rendered
  (`templates.py:123-140`): the request fails, no version is recorded, and every
  list of templates fails from then on. The page of the administrators
  (`frontend-vue/src/views/LlmView.vue:330`) says that a configuration is validated
  before it is published, and that its version is kept.

Test centre:

* The first two requests may each make a manager (`api/routes/test_center.py:39`);
  the second repository ends the first one's run as interrupted, and two runs may
  execute at once.
* A thread that fails before its `try`, whose last save fails, or that cannot be
  started after its run was saved (`test_center.py:364`), leaves its run active,
  and no other can start until the service restarts (`test_center.py:378`).
* A child that fills the pipe of standard error waits for a parent that reads
  standard output first (`test_center.py:420`).
* An import that appends writes over what was saved to the suite since its
  confirmation read it.

Questions:

* An alias that several metrics have blocks a longer official name that contains
  it. A free answer that names two of the pending metrics or organisations is
  never understood, and one that names one of them drops the other. A metric
  confirmed in the first round is lost in the second if a pending answer has left
  the catalogue meanwhile; an organisation that left it is dropped without a
  word, as is an unknown organisation beside a known one.
* A short name that two organisations have is not asked for:
  `_merge_code_detected_entities` (`semantic_engine.py:765`) takes every
  organisation one of whose names is in the question. The acceptance test
  `frontend-vue/docs/stage6-manual-acceptance.md:137-143` expects a clarification,
  and so does the comment at `semantic_engine.py:883-884`.
* If an organisation's name is another's alias, the one listed last gets it. A
  name that a synchronisation has handed to another organisation moves a query that
  waits for its user to that one. `OrganisationsAreGrounded` follows names as they
  are handed over.
* A scope of all organisations needs its words in the question, and
  `backend-next/README.md:63-64` says that they may not come from the name of a metric
  or an organisation; the comment at `semantic_engine.py:718-719` asks for words
  of the question. They are searched in the text the model was shown, in which
  names are placeholders, and only angle brackets are excluded
  (`semantic_engine.py:727-731`): a scope text that quotes what stands between the
  brackets, such as `ORG`, counts as grounded, and all organisations are queried.
  `OrganisationsAreGrounded` names it as its exception (`NamedByScope`).
* The words need not be words: a punctuation mark quoted from the question grounds
  all organisations, since the text is only required not to be blank.
* A relative time is read again on the day of the answer. A range of ISO dates
  with one-digit months is refused. The month that `较` compares with is dropped.

Catalogue:

* A synonym that is deleted stays served until the next change that is stamped
  (`backend-next/README.md:308` says that deleted texts are dropped); so does
  what was committed in the second of the newest row, or late.
* A metric an administrator retired is enabled again by a synchronisation whose
  lake has it. The `--full` of the command changes nothing, although
  `backend-next/docs/sit-data-lake.md:139-141` says that it disables missing rows.
* Under the scope `all`, an unexpected number of organisations is reported as
  nothing written when the metrics have been committed.
* Two administrators who edit one row at once leave columns of both.
* `org_abbr` is not used: a new organisation starts without aliases, as the
  comment at `catalog_sync.py:239` says, and an old one keeps its own
  (`catalog_sync.py:240`). `backend-next/docs/sit-data-lake.md:52` says that it is
  merged into `org_terms.aliases`. The same guide (line 48) takes the code of an
  organisation from another column than the code does.
* An organisation of the lake without a name counts as present and is not
  created (`catalog_sync.py:227-230`): a clean-up that moves accounts to it fails on
  the foreign key, and nothing is cleaned up.

## 6. Not modelled, and why

* *Query planning, SQL rendering, results, exports.* Pure transformations of a
  query and of rows, without state. `QueryTask` chooses success or failure, so
  its properties hold whatever they do. What they compute is text and layout.
* *Data sources.* One call to the business database with a timeout: the time
  between `ExecutePrepare` and `FinishSuccess` or `FinishFailure`.
* *Chat and rerank calls.* The time between two transactions of `QueryTask`;
  their answers are inputs of `SlotFrames`. The semaphore and the embedding call
  are in `CatalogVectors`.
* *Intent router.* A greeting or another intent is `AnalyzeOutOfScope`; which
  sentence is which is a matter of words.
* *Browser client.* What the panel sends is any request at any moment with any
  version and key it has seen, which `QueryTask` and `Integration` enumerate.
* *Deployment scripts.* Steps of one operator on one host with nothing beside
  them; those that change accounts or the catalogue are in `Sessions` and
  `Catalogue`.
* *Schema, migrations.* Table definitions; cascade, SET NULL and unique indexes
  are part of the modules that rely on them.
* *Logging, cryptography, HTTP, texts of prompts and messages.* Observed by no
  property.

The lock manager of the database is not modelled: a transaction that holds row
locks is one action, or holds the rows it has flushed (`Catalogue`). In `Sessions`
expiry and the uniqueness of user names are left out; in `Catalogue` data sets,
which nothing reads, and the values a clean-up deletes.

## 7. Plan

1. Larger instances of `Conversations` (three handlers) and `Catalogue` (all
   scopes) when the bounds of a run allow.
2. The hazards that no property covers yet: each is an observation of section 5,
   and a property of it would state what the code should do instead.
3. The greeting and intent router, and `query_shape_for`, as operators below
   `SlotFrames`.
