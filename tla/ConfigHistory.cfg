\* Two administrators, at once or one after the other; a process may die.
CONSTANTS
  p1 = p1
  p2 = p2
  t1 = t1
  t2 = t2
  plain = plain
  unknown = unknown
  built = built
  m1 = m1
  w1 = w1
  w2 = w2
  Prompts = {p1, p2}
  Templates = {t1, t2}
  Texts <- MCTexts
  Values = {plain, unknown}
  Shown <- MCShown
  Unrendered = Unrendered
  Blank = Blank
  Garbled = Garbled
  Settings = {m1}
  Original = Original
  Workers = {w1, w2}
  MaxRequests = 3
  MaxCrashes = 1
SPECIFICATION Spec
CHECK_DEADLOCK FALSE
SYMMETRY Interchangeable
INVARIANTS
  OriginalIsKept
  NewestIsLive
