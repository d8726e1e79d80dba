--------------------------- MODULE MCRateLimiter ---------------------------
(***************************************************************************)
(* Model values for RateLimiter: callers and keys are interchangeable.     *)
(***************************************************************************)
EXTENDS RateLimiter, TLC

Symmetry == Permutations(Callers) \cup Permutations(Keys)
=============================================================================
