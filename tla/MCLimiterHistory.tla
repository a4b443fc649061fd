--------------------------- MODULE MCLimiterHistory ---------------------------
(* The limiters and their history on a small instance.                     *)
EXTENDS LimiterHistory
=============================================================================
