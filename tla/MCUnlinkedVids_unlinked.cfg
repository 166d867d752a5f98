CONSTANTS
  Vids = {v1, v2}
  Dids = {d1, d2}
  Users = {u1}
  Shards = {s1, s2}
  Defs = {k1}
  Requests = {r1, r2}
  None = None
  Serial = FALSE
  Faults = {"read", "remap"}
  Cleaning = FALSE
SYMMETRY MCSymmetry
SPECIFICATION ScanSpec
INVARIANTS
  ScanInv
  UnlinkedAreGone
PROPERTIES
  UnlinkedByOwnRequest
