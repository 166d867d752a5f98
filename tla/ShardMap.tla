------------------------------ MODULE ShardMap ------------------------------
(***************************************************************************)
(* What lib/shards promises: every user has at most one shard, which is a  *)
(* registered one, and keeps it until he is moved to another one or his    *)
(* shard is removed.                                                       *)
(***************************************************************************)
CONSTANTS Users, Shards, None

VARIABLES
  registered,  \* the shards in use
  mapping      \* mapping[u]: the shard of user u, or None

Init ==
  /\ registered \in SUBSET Shards
  /\ mapping = [u \in Users |-> None]

Register(s) ==
  /\ registered' = registered \cup {s}
  /\ UNCHANGED mapping

Assign(u, s) ==
  /\ mapping[u] = None
  /\ s \in registered
  /\ mapping' = [mapping EXCEPT ![u] = s]
  /\ UNCHANGED registered

Move(u, s) ==
  /\ mapping[u] # None
  /\ s \in registered
  /\ mapping' = [mapping EXCEPT ![u] = s]
  /\ UNCHANGED registered

\* All users of a shard lose it at once, together with the shard.
Retire(s) ==
  /\ registered' = registered \ {s}
  /\ mapping' = [u \in Users |-> IF mapping[u] = s THEN None ELSE mapping[u]]

Next ==
  \/ \E s \in Shards : Register(s) \/ Retire(s)
  \/ \E u \in Users, s \in Shards : Assign(u, s) \/ Move(u, s)

Spec == Init /\ [][Next]_<<registered, mapping>>
=============================================================================
