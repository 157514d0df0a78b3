----------------------------- MODULE MCRouterWal -----------------------------
(* Instances of RouterWal for TLC. *)
EXTENDS RouterWal

MCRequests == 1..3
=============================================================================
