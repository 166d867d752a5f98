CONSTANTS
  Vids = {v1, v2}
  Dids = {d1, d2, d3}
  Users = {u1}
  Shards = {s1}
  Defs = {k1, k2}
  Requests = {r1, r2}
  None = None
  Serial = TRUE
  Faults = {"incident"}
  Cleaning = TRUE
SYMMETRY MCSymmetry
SPECIFICATION Spec
INVARIANTS
  CleanInv
  NoOrphans
  NoDanglingRelations
PROPERTIES
  HandledBeforeLinked
