------------------------- MODULE MCSubmissionBarrier -------------------------
(***************************************************************************)
(* Small instances of SubmissionBarrier: a cutover of one account against  *)
(* submissions that know the account root and one that does not, two       *)
(* receivers, and a second cutover.                                        *)
(***************************************************************************)
EXTENDS SubmissionBarrier, TLC

CONSTANTS root, box, s1, s2, a1, a2, c1, c2

AllKinds == (s1 :> "submit") @@ (s2 :> "submit") @@ (a1 :> "ack") @@ (a2 :> "ack")
            @@ (c1 :> "cutover") @@ (c2 :> "cutover")
AllPaths == (s1 :> <<root, box>>) @@ (s2 :> <<box>>) @@ (a1 :> <<box>>) @@ (a2 :> <<box>>)
            @@ (c1 :> <<root, box>>) @@ (c2 :> <<root, box>>)

ThreadKind == [th \in Threads |-> AllKinds[th]]
ThreadPath == [th \in Threads |-> AllPaths[th]]
=============================================================================
