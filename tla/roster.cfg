SPECIFICATION Spec
CONSTANTS
  a1 = a1 a2 = a2 a3 = a3 old = old new = new f1 = f1 f2 = f2 None = None
  Job = {1, 2, 3, 4, 5}
  Asset = {a1, a2, a3}
  Stored = {a1, a2}
  Value = {old, new}
  Blank = old
  Filter = {f1, f2}
  NoFilter = f1
  LastPage = 2
  Scenarios <- RosterScenarios
INVARIANT CardsCurrent
PROPERTY HiddenKept
PROPERTY NothingLost
PROPERTY AskedFirst
CHECK_DEADLOCK FALSE
