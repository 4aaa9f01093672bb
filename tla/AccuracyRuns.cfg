\* Two suites, two requests that start runs, one import.
CONSTANTS
  b0 = b0
  s1 = s1
  q1 = q1
  q2 = q2
  q3 = q3
  a1 = a1
  d1 = d1
  w1 = w1
  w2 = w2
  Baseline = b0
  SuiteIds = {b0, s1}
  Questions = {q1, q2, q3}
  Answers = {a1}
  Nothing = Nothing
  DefaultCases <- MCDefaultCases
  Lists <- MCLists
  Sheets <- MCSheets
  Admins = {d1}
  MaxEdits = 1
  Workers = {w1, w2}
  Kept = 1
  PipeSize = 0
  NoRun = NoRun
  MaxCases = 2
  MaxRuns = 2
  MaxPairs = 2
  MaxCrashes = 1
SPECIFICATION FairSpec
CONSTRAINT OneManager
CHECK_DEADLOCK FALSE
INVARIANTS
  ActiveIsExecuted
  CompletedIsComplete
PROPERTIES
  ImportAddsNoDuplicates
  RunEnds
