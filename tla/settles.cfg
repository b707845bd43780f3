\* Under fairness, everything issued is submitted and everybody catches up.
CONSTANTS
  a = a
  b = b
  k1 = k1
  k2 = k2
  v1 = v1
  v2 = v2
  Absent = Absent
  None = None
  Actors = {a}
  Keys = {k1}
  Values = {v1, v2}
  InitialDoc <- OneDoc
  Commands <- FlipAndDrop
  Environment = {"error", "mangled", "disconnect", "checkpoint", "compact", "short", "publish", "put"}
  MaxIntents = 2
  MaxForeign = 1
  MaxFaults = 1
  MaxUndo = 0
  Window = 2
SPECIFICATION FairSpec
PROPERTIES Settles
CHECK_DEADLOCK FALSE
