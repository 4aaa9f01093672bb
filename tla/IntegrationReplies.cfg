\* Two tasks of one session, three messages delivered again and again.
CONSTANTS
  t1 = t1
  t2 = t2
  m1 = m1
  m2 = m2
  m3 = m3
  h1 = h1
  h2 = h2
  c1 = c1
  http = http
  Tasks = {t1, t2}
  Handlers = {h1, h2}
  Messages = {m1, m2, m3}
  Requests = {m1, m2, m3, http}
  HttpRequest = http
  Conversation = c1
  Conversations = {c1}
  ConversationOf <- MCConversationOf
  ProcessedLimit = 4
  NoTask = NoTask
  NoRequest = NoRequest
  MaxVersion = 3
  MaxCrashes = 1
SPECIFICATION ISpec
CHECK_DEADLOCK FALSE
SYMMETRY Interchangeable
INVARIANTS
  ReplyReachesItsQuestion
  ReplyActsOnce
