\* The warm-up thread and two requests, until a configuration returns.
CONSTANTS
  w1 = w1
  w2 = w2
  warm = warm
  m1 = m1
  m2 = m2
  t1 = t1
  t2 = t2
  Workers = {w1, w2, warm}
  Warm = warm
  Models = {m1, m2}
  Catalogs <- SharedTexts
  Width <- SameWidth
  BatchSize = 1
  MaxConcurrency = 1
  NoModel = NoModel
  NoWorker = NoWorker
SPECIFICATION SFairSpec
CONSTRAINT Promised
CHECK_DEADLOCK FALSE
INVARIANTS
  OneSpaceUntilReturn
  ClientOutlivesCalls
PROPERTIES
  ShutdownEnds
  BecomesReady
