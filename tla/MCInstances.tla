----------------------------- MODULE MCInstances -----------------------------
(* Instances of Instances for TLC: a vid can be given from one user to the   *)
(* other between the calls of a request.                                     *)
EXTENDS Instances, TLC

CONSTANTS u1, u2, d1, d2

MCTenant == d1 :> u1 @@ d2 :> u2

MCSymmetry == Permutations(Instances)
=============================================================================
