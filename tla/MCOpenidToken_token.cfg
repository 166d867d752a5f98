CONSTANTS
  Callers = {c1, c2}
  Life = 5
  RefreshLife = 6
  Buffer = 3
  Timeout = 2
  MaxTime = 5
  None = None
SPECIFICATION Spec
SYMMETRY MCSymmetry
INVARIANTS
  IndInv
  EmptyOnlyWhenDisturbed
PROPERTIES
  CachedTokenLasts
