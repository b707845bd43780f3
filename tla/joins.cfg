\* A window adopts what its tab was edited to, the other replaces; posts race.
CONSTANTS
  p = p
  q = q
  d1 = d1
  d2 = d2
  d3 = d3
  None = None
  Ports = {p, q}
  Replacing = {p}
  Docs = {d1, d2, d3}
  Heartbeat = 1
  Timeout = 1
  Lease = 2
  MaxOps = 1
  Editing = {q}
  MaxEdits = 2
  Freezable = {}
SPECIFICATION Spec
SYMMETRY DocSymmetry
INVARIANTS TypeOK StreamHasNoGap HeldDocIsShared NoEditLostByJoining
PROPERTIES AdoptionExcludesPeers
