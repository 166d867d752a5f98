CONSTANTS
  Vids = {v1}
  Dids = {d1, d2}
  Users = {u1}
  Shards = {s1}
  Defs = {k1}
  Requests = {r1, r2}
  None = None
  Serial = FALSE
  Faults = {"engine"}
  Cleaning = FALSE
SPECIFICATION FairSpec
PROPERTIES
  EveryRequestEnds
