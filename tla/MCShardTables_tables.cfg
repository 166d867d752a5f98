CONSTANTS
  Users = {u1, u2}
  Shards = {s1, s2}
  Calls = {c1, c2}
  Operations = {"ensure", "set", "remove", "add"}
  Breaks = TRUE
  None = None
SPECIFICATION FairSpec
INVARIANTS
  IndInv
  MappedToRegistered
PROPERTIES
  KeepsShard
  ImplementsShardMap
  EventuallyFresh
