\* Two Idempotency-Keys alternate on one task.
CONSTANTS
  t1 = t1
  c1 = c1
  h1 = h1
  h2 = h2
  r1 = r1
  r2 = r2
  Tasks = {t1}
  Handlers = {h1, h2}
  Requests = {r1, r2}
  Conversation = c1
  Conversations = {c1}
  ConversationOf <- MCConversationOf
  ProcessedLimit = 3
  NoTask = NoTask
  NoRequest = NoRequest
  MaxVersion = 5
  MaxCrashes = 1
SPECIFICATION Spec
CHECK_DEADLOCK FALSE
SYMMETRY Interchangeable
INVARIANT OneRunPerRequest
