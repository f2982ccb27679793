SPECIFICATION Spec
CONSTANTS
  f1 = f1  f2 = f2  d1 = d1  k1 = k1  l1 = l1  v1 = v1  v2 = v2  v3 = v3
  a = a  b = b  k = k  l = l  a2 = a2  k2 = k2  l2 = l2
  Files = {f1, f2}
  Docs = {d1}
  Keys = {k1}
  Lists = {l1}
  Value = {v1, v2, v3}
  Ids = {a, b, k, l, a2, k2, l2}
  Absent = Absent  Garbage = Garbage  Unsaved = Unsaved
  Whole = Whole  NoEntry = NoEntry
  Releases <- FourReleases
  HandItems = {v3}
  Window = {}
  LateErrors = FALSE
  MaxRuns = 3
  MaxEdits = 2
  MaxFaults = 2
INVARIANTS TypeOK JournalClaimsOnlyEarned NoOrphans ApplyAllOrNothing RollbackUndoesThisRun
PROPERTIES UnparseableLeftAlone UsersContentKept JournalTrue
CHECK_DEADLOCK FALSE
