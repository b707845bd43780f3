\* A foreign op makes one pending intention drop.
CONSTANTS
  a = a
  b = b
  k1 = k1
  k2 = k2
  v1 = v1
  v2 = v2
  Absent = Absent
  None = None
  Actors = {a}
  Keys = {k1}
  Values = {v1, v2}
  InitialDoc <- OneDoc
  Commands <- FlipAndDrop
  Environment = {}
  MaxIntents = 1
  MaxForeign = 1
  MaxFaults = 0
  MaxUndo = 0
  Window = 9
SPECIFICATION Spec
PROPERTIES RevisionInvalidates
CHECK_DEADLOCK FALSE
