--------------------------- MODULE MCAuthSessions ---------------------------
(***************************************************************************)
(* AuthSessions for TLC.  Request slots are interchangeable.               *)
(***************************************************************************)
EXTENDS AuthSessions, TLC

Symmetry == Permutations(Requests)
=============================================================================
