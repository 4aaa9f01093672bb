\* Two tasks of one conversation share query_runs; deleting it touches both.
CONSTANTS
  t1 = t1
  t2 = t2
  c1 = c1
  h1 = h1
  h2 = h2
  r1 = r1
  r2 = r2
  Tasks = {t1, t2}
  Handlers = {h1, h2}
  Requests = {r1, r2}
  Conversation = c1
  Conversations = {c1}
  ConversationOf <- MCConversationOf
  ProcessedLimit = 1
  NoTask = NoTask
  NoRequest = NoRequest
  MaxVersion = 4
  MaxCrashes = 1
SPECIFICATION Spec
CHECK_DEADLOCK FALSE
SYMMETRY Interchangeable
INVARIANTS
  TypeOK
  OneOutcome
  WaitingMeansAsked
  ExecutorOwnsTask
  SnapshotsHold
  AnsweredOnce
  SucceededRunIsReported
  ExecutionMatchesRun
  RetryRunsOnce
PROPERTIES
  TerminalIsFinal
  VersionCoversEveryWrite
  DeletedStaysDeleted
  ImplementsLifecycle
