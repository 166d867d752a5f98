--------------------------- MODULE MCUnlinkedVids ---------------------------
(* Instances of UnlinkedVids for TLC. *)
EXTENDS UnlinkedVids, TLC

\* Vids, deployment ids, shards and request slots are interchangeable.
MCSymmetry ==
  Permutations(Vids) \cup Permutations(Dids) \cup Permutations(Shards)
    \cup Permutations(Requests)
=============================================================================
