\* A window leaves between the open and the adoption of another.
CONSTANTS
  p = p
  q = q
  d1 = d1
  d2 = d2
  None = None
  Ports = {p, q}
  Replacing = {q}
  Docs = {d1, d2}
  Heartbeat = 1
  Timeout = 1
  Lease = 2
  MaxOps = 1
  Editing = {p}
  MaxEdits = 1
  Freezable = {}
SYMMETRY DocSymmetry
SPECIFICATION Spec
INVARIANTS AdoptAnswerIsExpected
