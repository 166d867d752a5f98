CONSTANTS
  Users = {u1, u2, u3, u4}
  Shards = {s1, s2}
  Calls = {c1, c2, c3}
  Operations = {"ensure"}
  Breaks = FALSE
  None = None
SYMMETRY MCSymmetry
SPECIFICATION Spec
INVARIANTS
  EnsureInv
  EnsuredIsMapped
  Balanced
