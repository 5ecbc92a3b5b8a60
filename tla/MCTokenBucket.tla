--------------------------- MODULE MCTokenBucket ---------------------------
(* Small instances of TokenBucket for TLC. *)
EXTENDS TokenBucket

CONSTANTS c1, c2, c3
=============================================================================
