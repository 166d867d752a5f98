CONSTANTS
  Vids = {v1, v2}
  Dids = {d1, d2}
  Users = {u1}
  Shards = {s1, s2}
  Defs = {k1}
  Requests = {r1, r2}
  None = None
  Serial = TRUE
  Faults = {"engine", "database", "crash", "remap"}
  Cleaning = FALSE
SPECIFICATION Spec
INVARIANTS
  SerialInv
  OkIsTrue
PROPERTIES
  ImplementsStore
