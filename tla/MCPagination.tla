---------------------------- MODULE MCPagination ----------------------------
(* Instance of Pagination for TLC.                                         *)
EXTENDS Pagination

CONSTANTS w1, w2

\* Below the clamp, within it and above.
MCLimits == {-1, 0, 1, 2, 3}
=============================================================================
