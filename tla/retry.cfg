\* Two faults around the posts of two intentions: lost requests and answers, resyncs.
CONSTANTS
  a = a
  b = b
  k1 = k1
  k2 = k2
  v1 = v1
  v2 = v2
  Absent = Absent
  None = None
  Actors = {a}
  Keys = {k1}
  Values = {v1, v2}
  InitialDoc <- OneDoc
  Commands <- FlipAndDrop
  Environment = {"error", "mangled", "garbage", "checkpoint"}
  MaxIntents = 2
  MaxForeign = 1
  MaxFaults = 2
  MaxUndo = 0
  Window = 9
SPECIFICATION Spec
INVARIANTS CommitOrder NeverShownTwice OpIdNamesOneContent
PROPERTIES ImplementsCollabLog
CHECK_DEADLOCK FALSE
