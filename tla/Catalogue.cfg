\* Two sessions at a time: administrators, the synchronisation, readers.
CONSTANTS
  m1 = m1
  m2 = m2
  o1 = o1
  o2 = o2
  w1 = w1
  w2 = w2
  u1 = u1
  typed = typed
  Workers = {w1, w2}
  Metrics = {m1, m2}
  Orgs = {o1, o2}
  Users = {u1}
  Words <- MCWords
  Entries <- MCEntries
  Synonyms <- MCSynonyms
  Scopes = {"initialize"}
  Lakes <- MCLakes
  Payloads <- MCPayloads
  InitialMetrics <- MCInitialMetrics
  InitialOrgs <- MCInitialOrgs
  InitialSynonyms <- MCInitialSynonyms
  InitialUsers <- MCInitialUsers
  ExpectedCount = 1
  Fallback = o1
  Prefix = "org"
  Blank = Blank
  Today = 1
  MaxClock = 1
  MaxCommits = 2
SPECIFICATION Spec
CHECK_DEADLOCK FALSE
SYMMETRY Interchangeable
INVARIANT AdditionsAreServed
PROPERTY SyncKeepsManualWork
