---------------------------- MODULE MCShardTables ----------------------------
(* Instances of ShardTables for TLC. *)
EXTENDS ShardTables, TLC

\* Users, shards and calls are interchangeable.
MCSymmetry == Permutations(Users) \cup Permutations(Shards) \cup Permutations(Calls)
=============================================================================
