SPECIFICATION Spec
CONSTANTS
  journal = journal  doc = doc  old = old  new = new  install = install  update = update
  Paths = {journal, doc}
  Content = {old}
  Absent = Absent  Unwritten = Unwritten
  Touches <- SmallAndLarge
  Commands = {install}
  Keep = 2
  Breaks = {"write", "crash", "rmtree"}
  MaxGen = 4
  MaxFaults = 1
INVARIANTS TypeOK RecentWhole Undoable LastUndoable
PROPERTIES RestoreIsExact ImplementsLog
CHECK_DEADLOCK FALSE
