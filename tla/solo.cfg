\* One session beside participants that are not modelled, and one fault of any kind.
CONSTANTS
  a = a
  b = b
  k1 = k1
  k2 = k2
  v1 = v1
  v2 = v2
  Absent = Absent
  None = None
  Actors = {a}
  Keys = {k1}
  Values = {v1, v2}
  InitialDoc <- OneDoc
  Commands <- FlipAndDrop
  Environment = {"error", "mangled", "garbage", "disconnect", "fetch", "checkpoint", "compact", "publish", "put", "close", "denied"}
  MaxIntents = 2
  MaxForeign = 1
  MaxFaults = 1
  MaxUndo = 0
  Window = 2
SPECIFICATION Spec
INVARIANTS TypeOK ConfirmedIsServerPrefix OptimisticIsReplay NeverRestsBehind NoStrandedWork CheckpointIsPrefix
PROPERTIES BacktrackIsRepaid EndIsFinal
CHECK_DEADLOCK FALSE
