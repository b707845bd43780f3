\* Undo and redo of edits on two keys, with a foreign op.
CONSTANTS
  a = a
  b = b
  k1 = k1
  k2 = k2
  v1 = v1
  v2 = v2
  Absent = Absent
  None = None
  Actors = {a}
  Keys = {k1, k2}
  Values = {v1, v2}
  InitialDoc <- TwoDoc
  Commands <- Mixed
  Environment = {"error"}
  MaxIntents = 3
  MaxForeign = 1
  MaxFaults = 1
  MaxUndo = 2
  Window = 9
SPECIFICATION Spec
INVARIANTS HistoryBounded HistoryFollowsRebase
CHECK_DEADLOCK FALSE
