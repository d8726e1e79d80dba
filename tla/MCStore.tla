------------------------------ MODULE MCStore ------------------------------
(* Instances of Store for TLC.                                             *)
EXTENDS Store, TLC

CONSTANTS r1, r2, u1, u2

RequestSymmetry == Permutations({r1, r2}) \cup Permutations({u1, u2})
=============================================================================
