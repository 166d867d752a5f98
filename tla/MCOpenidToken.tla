--------------------------- MODULE MCOpenidToken ---------------------------
(* Instances of OpenidToken for TLC. *)
EXTENDS OpenidToken, TLC

\* Callers are interchangeable.
MCSymmetry == Permutations(Callers)
=============================================================================
