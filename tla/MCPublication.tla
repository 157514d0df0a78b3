---------------------------- MODULE MCPublication ----------------------------
(***************************************************************************)
(* Small instances of Publication: two inboxes with a fan-out, one inbox   *)
(* with several submissions, and the deletion of an inbox.                 *)
(***************************************************************************)
EXTENDS Publication, TLC

CONSTANTS t1, t2, r1, r2

FanoutBatch == (r1 :> {t1, t2}) @@ (r2 :> {t1})
SingleBatch == [r \in Requests |-> {t1}]

Submissions == Permutations(Requests)
=============================================================================
