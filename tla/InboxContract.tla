---------------------------- MODULE InboxContract ----------------------------
(***************************************************************************)
(* What the publication core promises the two ends of an inbox, without    *)
(* threads, descriptors, a resolver or crashes.  A reader that has caught  *)
(* up with the published prefix has missed nothing: rows appear only above *)
(* it, all rows of a submission at once.  A sender that was answered knows *)
(* the fate of its submission for good.  Publication is shown to implement *)
(* this specification.                                                     *)
(***************************************************************************)
EXTENDS Naturals

CONSTANTS Targets, Requests, NoReq, Batch, MaxSeq

VARIABLES
    prefix,    \* the published watermark of each target
    row,       \* the submission stored at a sequence
    acked,     \* sequences the receiver has acknowledged
    answer,    \* what the sender was told
    deleted    \* targets whose account is gone

contractVars == <<prefix, row, acked, answer, deleted>>

Sequences == Targets \X (1..MaxSeq)
StoredAt(r) == {sl \in Sequences : row[sl] = r}

ContractInit ==
    /\ prefix = [t \in Targets |-> 0]
    /\ row = [sl \in Sequences |-> NoReq]
    /\ acked = {} /\ deleted = {}
    /\ answer = [r \in Requests |-> "none"]

\* All rows of a submission become durable in one step, above the prefix.
Fill(r) ==
    /\ UNCHANGED <<prefix, acked, answer, deleted>>
    /\ answer[r] = "none" /\ StoredAt(r) = {}
    /\ \E at \in [Batch[r] -> 1..MaxSeq] :
         /\ \A t \in Batch[r] : /\ t \notin deleted /\ at[t] > prefix[t]
                                /\ row[<<t, at[t]>>] = NoReq
         /\ row' = [sl \in Sequences |-> IF sl[1] \in Batch[r] /\ sl[2] = at[sl[1]]
                                         THEN r ELSE row[sl]]

Publish ==
    /\ UNCHANGED <<row, acked, answer, deleted>>
    /\ prefix' \in [Targets -> 0..MaxSeq]
    /\ \A t \in Targets \ deleted : prefix'[t] >= prefix[t]

Settle(t) ==
    /\ UNCHANGED <<prefix, row, answer, deleted>>
    /\ \E S \in SUBSET (1..prefix[t]) :
         /\ \A s \in S : row[<<t, s>>] # NoReq
         /\ acked' = acked \cup {<<t, s>> : s \in S}

\* "accepted" is told when every child is stored, "aborted" (safe to retry) when
\* none is; "error" promises nothing.
Answer(r, what) ==
    /\ UNCHANGED <<prefix, row, acked, deleted>>
    /\ answer[r] = "none"
    /\ what = "accepted" => \A t \in Batch[r] : t \in deleted \/ \E sl \in StoredAt(r) : sl[1] = t
    /\ what = "aborted" => StoredAt(r) = {}
    /\ answer' = [answer EXCEPT ![r] = what]

Delete(t) ==
    /\ UNCHANGED <<prefix, answer>>
    /\ t \notin deleted /\ deleted' = deleted \cup {t}
    /\ row' = [sl \in Sequences |-> IF sl[1] = t THEN NoReq ELSE row[sl]]
    /\ acked' = {sl \in acked : sl[1] # t}

ContractNext ==
    \/ Publish
    \/ \E r \in Requests : Fill(r) \/ \E what \in {"accepted", "aborted", "error"} : Answer(r, what)
    \/ \E t \in Targets : Settle(t) \/ Delete(t)

ContractSpec == ContractInit /\ [][ContractNext]_contractVars
=============================================================================
