\* A pending undo is re-executed over a foreign edit.
CONSTANTS
  a = a
  b = b
  k1 = k1
  k2 = k2
  v1 = v1
  v2 = v2
  Absent = Absent
  None = None
  Actors = {a}
  Keys = {k1}
  Values = {v1, v2}
  InitialDoc <- OneDoc
  Commands <- FlipAndPut
  Environment = {}
  MaxIntents = 2
  MaxForeign = 1
  MaxFaults = 0
  MaxUndo = 2
  Window = 9
SPECIFICATION Spec
INVARIANTS UndoNeverOverwrites
CHECK_DEADLOCK FALSE
