SPECIFICATION Spec
CONSTANTS
  f1 = f1  f2 = f2  d1 = d1  k1 = k1  l1 = l1  v1 = v1  v2 = v2  v3 = v3
  a = a  b = b  k = k  l = l  a2 = a2  k2 = k2  l2 = l2
  Files = {f1, f2}
  Docs = {d1}
  Keys = {k1}
  Lists = {l1}
  Value = {v1, v2}
  Ids = {a, b, k, l, a2, k2, l2}
  Absent = Absent  Garbage = Garbage  Unsaved = Unsaved
  Whole = Whole  NoEntry = NoEntry
  Releases <- ThreeReleases
  HandItems = {v1, v2}
  Window = {"file", "document"}
  LateErrors = TRUE
  MaxRuns = 3
  MaxEdits = 1
  MaxFaults = 1
INVARIANTS JournalClaimsOnlyEarned
PROPERTIES UnparseableLeftAlone
CHECK_DEADLOCK FALSE
