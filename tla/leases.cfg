\* A window that replaces, and is edited meanwhile, may freeze.
CONSTANTS
  p = p
  q = q
  d1 = d1
  d2 = d2
  None = None
  Ports = {p, q}
  Replacing = {q}
  Docs = {d1, d2}
  Heartbeat = 1
  Timeout = 1
  Lease = 2
  MaxOps = 0
  Editing = {q}
  MaxEdits = 1
  Freezable = {q}
SPECIFICATION Spec
SYMMETRY DocSymmetry
INVARIANTS HeldDocIsShared OpsOfThisLife AttentiveKeepsLease NoEditLostByJoining
