\* A window may freeze while it joins, and the worker may stop.
CONSTANTS
  p = p
  q = q
  d1 = d1
  d2 = d2
  None = None
  Ports = {p, q}
  Replacing = {q}
  Docs = {d1, d2}
  Heartbeat = 1
  Timeout = 1
  Lease = 2
  MaxOps = 0
  Editing = {}
  MaxEdits = 0
  Freezable = {q}
SPECIFICATION FairSpec
PROPERTIES JoinEnds
