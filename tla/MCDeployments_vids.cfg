CONSTANTS
  Vids = {v1, v2}
  Dids = {d1, d2}
  Users = {u1}
  Shards = {s1}
  Defs = {k1}
  Requests = {r1, r2}
  None = None
  Serial = FALSE
  Faults = {"database", "crash"}
  Cleaning = TRUE
SYMMETRY MCSymmetry
SPECIFICATION Spec
INVARIANTS
  TypeOK
  IndInv
  NoLeakedTransaction
  CleanupSparesDeployments
  OneVidPerDeployment
PROPERTIES
  RemovedUnderLock
