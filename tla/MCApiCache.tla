----------------------------- MODULE MCApiCache -----------------------------
(* Instances of ApiCache for TLC. *)
EXTENDS ApiCache

CONSTANTS c1, c2, today, tomorrow
=============================================================================
