\* One task, its question and a reply, no crash.
CONSTANTS
  t1 = t1
  m1 = m1
  m2 = m2
  h1 = h1
  h2 = h2
  c1 = c1
  http = http
  Tasks = {t1}
  Handlers = {h1, h2}
  Messages = {m1, m2}
  Requests = {m1, m2, http}
  HttpRequest = http
  Conversation = c1
  Conversations = {c1}
  ConversationOf <- MCConversationOf
  ProcessedLimit = 4
  NoTask = NoTask
  NoRequest = NoRequest
  MaxVersion = 5
  MaxCrashes = 0
SPECIFICATION IFairSpec
CHECK_DEADLOCK FALSE
PROPERTIES
  ExecutionSettles
  QuestionGetsAnswered
