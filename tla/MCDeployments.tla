---------------------------- MODULE MCDeployments ----------------------------
(* Instances of Deployments for TLC. *)
EXTENDS Deployments, TLC

\* Vids, deployment ids, shards and request slots are interchangeable.
MCSymmetry ==
  Permutations(Vids) \cup Permutations(Dids) \cup Permutations(Shards)
    \cup Permutations(Requests)
=============================================================================
