---------------------------- MODULE MCSenderRetry ----------------------------
(***************************************************************************)
(* Small instances of SenderRetry: an envelope sent twice, and a           *)
(* request that reuses its identity for other content.                     *)
(***************************************************************************)
EXTENDS SenderRetry

CONSTANTS other, key

OneKey     == [r \in Requests |-> key]
Contents   == [r \in Requests |-> IF r = other THEN "other" ELSE "same"]
=============================================================================
