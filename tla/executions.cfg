\* A run of this window and one of a peer in a store for one entry.
CONSTANTS
  own = own
  peer = peer
  Jobs = {own, peer}
  Own = {own}
  Cached = {peer}
  Cap = 1
  TombCap = 1
  Env = {"failed", "cancelled", "echo", "chatter", "view", "drop", "forget", "read"}
  MaxTrouble = 2
  MaxWire = 1
  MaxEcho = 1
SPECIFICATION Spec
INVARIANTS TypeOK  SideSetsFollowMap OverCapOnlyProtected  PlansFollowRuns
PROPERTIES TerminalIsFinal LossIsCurrent ReadsNeverRegress
CHECK_DEADLOCK FALSE
