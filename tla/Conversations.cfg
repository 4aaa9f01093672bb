\* Two users, conversations at the limit; the driver names the violated constraint.
CONSTANTS
  u1 = u1
  u2 = u2
  c1 = c1
  c2 = c2
  c3 = c3
  k1 = k1
  k2 = k2
  q1 = q1
  h1 = h1
  h2 = h2
  Users = {u1, u2}
  ConversationIds = {c1, c2}
  Keys = {k1, k2}
  Questions = {q1}
  Asked <- MCAsked
  Handlers = {h1, h2}
  NoUser = NoUser
  Limit = 1
  KeepLatest = 1
  DriverNamesConstraint = TRUE
  IdRank <- MCIdRank
  MaxTasks = 3
  MaxTime = 2
SPECIFICATION Spec
CHECK_DEADLOCK FALSE
SYMMETRY Interchangeable
INVARIANTS
  RepliesAgree
  LimitOvershootBounded
PROPERTY CleanupSparesUse
