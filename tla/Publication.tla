----------------------------- MODULE Publication -----------------------------
(***************************************************************************)
(* The publication core of the router store                                *)
(* (crates/ramflux-node-core/src/router_store/publication.rs): how an      *)
(* inbox sequence is reserved, handed to a durable writer, accepted or     *)
(* tombstoned, published as a prefix, settled by the receiver, and         *)
(* recovered after the process dies.                                       *)
(*                                                                         *)
(* Threads: one blocking thread per request, the store's resolver thread,  *)
(* receivers (acknowledgements), the deletion of a target, shutdown, and   *)
(* the supervisor that aborts a fenced process.  A step of the model is    *)
(* one critical section of the registry lock, one atomic operation on a    *)
(* descriptor, or one storage transaction.                                 *)
(***************************************************************************)
EXTENDS Integers, FiniteSets, FiniteSetsExt

CONSTANTS
    Targets,     \* delivery targets; a target has one inbox
    Requests,    \* submissions; each one runs once
    NoReq,       \* "no row" in the durable inbox table
    Batch,       \* the targets of a submission: one, or several for a fan-out
    Deletable,   \* targets whose account deletion may be finalised
    MaxSeq,      \* the largest sequence (u64::MAX in the code)
    Capacity,    \* ABORTED_RANGE_CAPACITY
    MaxCrashes   \* bound on spontaneous process deaths

ASSUME BatchAssumption == Batch \in [Requests -> (SUBSET Targets) \ {{}}]
ASSUME BoundAssumption == MaxSeq \in Nat /\ Capacity \in Nat /\ MaxCrashes \in Nat
ASSUME NoReqAssumption == NoReq \notin Requests
ASSUME DeletableAssumption == Deletable \subseteq Targets

Seqs  == 1..MaxSeq
Slots == Targets \X Seqs   \* an assignment: a sequence of one inbox

VARIABLES
    \* the registry, under its mutex
    allocated,   \* highest sequence handed out, per target
    published,   \* the published prefix P, per target (kept while down: what clients saw)
    committed,   \* committed_settled, per target
    inflight,    \* assignments not yet resolved
    aborted,     \* tombstoned sequences (the coalesced ranges, as a set)
    retired,     \* targets being deleted
    \* descriptors, atomics shared by a request and the resolver
    dstate,      \* the persistence state of each assignment
    detached,    \* assignments whose guard was dropped
    \* process-wide flags
    up, fenced, stopping, crashes,
    recovered,   \* the issued counter the running process started from
    \* the resolver thread
    rpc, rstop, snap, cand, claimed,
    \* request threads
    pc, mine, todo, verdict,
    ackPend,     \* settled value committed durably and not yet in the registry
    \* durable storage
    row, acked, durIssued, durAborted, durSettled, deleted

registry == <<allocated, published, committed, inflight, aborted, retired>>
process  == <<up, fenced, stopping, crashes, recovered>>
resolver == <<rpc, rstop, snap, cand, claimed>>
request  == <<pc, mine, todo, verdict>>
durable  == <<row, acked, durIssued, durAborted, durSettled, deleted>>
vars == <<registry, dstate, detached, process, resolver, request, ackPend, durable>>

-----------------------------------------------------------------------------
(* Sets of assignments.                                                    *)

SeqsOf(S, t) == {s \in Seqs : <<t, s>> \in S}

\* First sequences of the ranges that coalesce keeps for inbox t.
RangeStarts(S, t) == {s \in SeqsOf(S, t) : <<t, s - 1>> \notin S}

\* Only what lies above the settled prefix of t (prune_ranges, commit_settled).
Pruned(S, t, settled) == {sl \in S : sl[1] # t \/ sl[2] > settled}

Larger(a, b) == IF a >= b THEN a ELSE b
Smaller(a, b) == IF a <= b THEN a ELSE b

\* The published prefix: everything before the first assignment in flight.
PrefixOf(S, t, top) ==
    IF SeqsOf(S, t) = {} THEN top
    ELSE Min(SeqsOf(S, t)) - 1

\* The counter written with rows or tombstones, in the same transaction.
IssuedWith(S) ==
    [t \in Targets |-> IF SeqsOf(S, t) = {} THEN durIssued[t]
                       ELSE Larger(durIssued[t], Max(SeqsOf(S, t)))]

PStates == {"Reserved", "Definite", "Claimed", "HandedOff",
            "Accepted", "AbortedDurable", "FatalUncertain"}

Live == {"prepared", "writing", "accepting", "capturing", "awaiting"}
Ended == {"replied", "gone", "lost"}

-----------------------------------------------------------------------------
Init ==
    /\ allocated = [t \in Targets |-> 0]
    /\ published = [t \in Targets |-> 0]
    /\ committed = [t \in Targets |-> 0]
    /\ recovered = [t \in Targets |-> 0]
    /\ durIssued = [t \in Targets |-> 0]
    /\ durSettled = [t \in Targets |-> 0]
    /\ ackPend = [t \in Targets |-> 0]
    /\ retired = {} /\ deleted = {}
    /\ inflight = {} /\ aborted = {} /\ detached = {} /\ durAborted = {} /\ acked = {}
    /\ dstate = [sl \in Slots |-> "none"]
    /\ row = [sl \in Slots |-> NoReq]
    /\ up = TRUE /\ fenced = FALSE /\ stopping = FALSE /\ crashes = 0
    /\ rpc = "scan" /\ rstop = FALSE /\ snap = {} /\ cand = {} /\ claimed = {}
    /\ pc = [r \in Requests |-> "idle"]
    /\ mine = [r \in Requests |-> {}]
    /\ todo = [r \in Requests |-> {}]
    /\ verdict = [r \in Requests |-> "none"]

-----------------------------------------------------------------------------
(* Request threads.                                                        *)

\* Mutant: only the ranges already stored are charged.
HasRoomUncharged(t) ==
    /\ t \notin retired /\ t \notin deleted
    /\ Cardinality(RangeStarts(aborted, t)) < Capacity
    /\ allocated[t] < MaxSeq

\* What reserve_batch requires of one inbox of the batch.
HasRoom(t) ==
    /\ t \notin retired /\ t \notin deleted
    /\ Cardinality(RangeStarts(aborted, t)) + Cardinality(SeqsOf(inflight, t)) < Capacity
    /\ allocated[t] < MaxSeq

\* Every child of the batch is assigned, or none.
Reserve(r) ==
    /\ up /\ pc[r] = "idle"
    /\ ~stopping /\ ~fenced
    /\ \A t \in Batch[r] : HasRoom(t)
    /\ LET new == {<<t, allocated[t] + 1>> : t \in Batch[r]}
       IN /\ inflight' = inflight \cup new
          /\ dstate' = [sl \in Slots |-> IF sl \in new THEN "Reserved" ELSE dstate[sl]]
          /\ mine' = [mine EXCEPT ![r] = new]
          /\ todo' = [todo EXCEPT ![r] = new]
    /\ allocated' = [t \in Targets |-> IF t \in Batch[r] THEN allocated[t] + 1 ELSE allocated[t]]
    /\ pc' = [pc EXCEPT ![r] = "prepared"]
    /\ UNCHANGED <<published, committed, aborted, retired, detached, process, resolver,
                   verdict, ackPend, durable>>

\* Mutant: a write that did not complete is taken for no write.
ProvedNotAccepted(r, ds, fence) ==
    \A sl \in mine[r] : ds[sl] # "Accepted"

\* proved_non_write: no child of the request was handed to a writer.
ProvedNonWrite(r, ds, fence) ==
    ~fence /\ \A sl \in mine[r] : ds[sl] \in {"Reserved", "Definite", "Claimed", "AbortedDurable"}

\* A failed store operation: answered aborted_retry_safe on proof, else the process aborts.
AfterStoreError(r, ds, fence) ==
    IF ProvedNonWrite(r, ds, fence)
    THEN /\ pc' = [pc EXCEPT ![r] = "capturing"]
         /\ verdict' = [verdict EXCEPT ![r] = "aborted"]
         /\ todo' = [todo EXCEPT ![r] = mine[r]]
    ELSE /\ pc' = [pc EXCEPT ![r] = "lost"]
         /\ verdict' = verdict
         /\ todo' = [todo EXCEPT ![r] = {}]

\* PublicationWrite handles of the request are dropped before completion.
DropWrites(r) ==
    [sl \in Slots |-> IF sl \in mine[r] /\ dstate[sl] = "HandedOff"
                      THEN "FatalUncertain" ELSE dstate[sl]]

\* The caller refuses the prepared submission before any store call.
Refuse(r) ==
    /\ up /\ pc[r] = "prepared" /\ todo[r] = mine[r]
    /\ pc' = [pc EXCEPT ![r] = "capturing"]
    /\ verdict' = [verdict EXCEPT ![r] = "error"]
    /\ UNCHANGED <<registry, dstate, detached, process, resolver, mine, todo, ackPend, durable>>

\* Mutant: dropping a guard does not detach its assignment.
PanicAttached(r) ==
    /\ up /\ pc[r] = "prepared" /\ todo[r] = mine[r]
    /\ pc' = [pc EXCEPT ![r] = "gone"]
    /\ todo' = [todo EXCEPT ![r] = {}]
    /\ UNCHANGED <<registry, dstate, detached, process, resolver, mine, verdict, ackPend, durable>>

\* The preparation panics: its guards are dropped, nobody answers.
Panic(r) ==
    /\ up /\ pc[r] = "prepared" /\ todo[r] = mine[r]
    /\ detached' = detached \cup (mine[r] \cap inflight)
    /\ pc' = [pc EXCEPT ![r] = "gone"]
    /\ todo' = [todo EXCEPT ![r] = {}]
    /\ UNCHANGED <<registry, dstate, process, resolver, mine, verdict, ackPend, durable>>

HandOff(r, sl) ==
    /\ up /\ pc[r] = "prepared" /\ sl \in todo[r]
    /\ ~fenced /\ dstate[sl] = "Reserved"
    /\ dstate' = [dstate EXCEPT ![sl] = "HandedOff"]
    /\ todo' = [todo EXCEPT ![r] = @ \ {sl}]
    /\ pc' = [pc EXCEPT ![r] = IF todo[r] = {sl} THEN "writing" ELSE "prepared"]
    /\ UNCHANGED <<registry, detached, process, resolver, mine, verdict, ackPend, durable>>

\* The resolver claimed this child first, or the process is fenced.
HandOffLost(r, sl) ==
    /\ up /\ pc[r] = "prepared" /\ sl \in todo[r]
    /\ fenced \/ dstate[sl] # "Reserved"
    /\ dstate' = DropWrites(r)
    /\ fenced' = (fenced \/ dstate' # dstate)
    /\ AfterStoreError(r, dstate', fenced')
    /\ UNCHANGED <<registry, detached, up, stopping, crashes, recovered, resolver, mine,
                   ackPend, durable>>

\* Mutant: the rows are stored without their issued counter.
StoreRowsOnly(r) ==
    /\ row' = [sl \in Slots |-> IF sl \in mine[r] THEN r ELSE row[sl]]
    /\ UNCHANGED durIssued

\* One transaction stores every row of the batch with its issued counter.
StoreRows(r) ==
    /\ row' = [sl \in Slots |-> IF sl \in mine[r] THEN r ELSE row[sl]]
    /\ durIssued' = IssuedWith(mine[r])

Write(r) ==
    /\ up /\ pc[r] = "writing"
    /\ StoreRows(r)
    /\ pc' = [pc EXCEPT ![r] = "accepting"]
    /\ todo' = [todo EXCEPT ![r] = mine[r]]
    /\ UNCHANGED <<registry, dstate, detached, process, resolver, mine, verdict, ackPend,
                   acked, durAborted, durSettled, deleted>>

\* The writer reports a failure; the transaction may or may not have landed.
WriteFails(r) ==
    /\ up /\ pc[r] = "writing"
    /\ StoreRows(r) \/ UNCHANGED <<row, durIssued>>
    /\ dstate' = DropWrites(r)
    /\ fenced' = TRUE
    /\ AfterStoreError(r, dstate', fenced')
    /\ UNCHANGED <<registry, detached, up, stopping, crashes, recovered, resolver, mine,
                   ackPend, acked, durAborted, durSettled, deleted>>

\* Mutant: an assignment that finishes out of order publishes the ones before it.
FinishUpTo(sl, tombstone) ==
    IF fenced
    THEN UNCHANGED <<published, inflight, aborted, detached>>
    ELSE /\ inflight' = inflight \ {sl}
         /\ detached' = detached \ {sl}
         /\ aborted' = IF tombstone THEN aborted \cup {sl} ELSE aborted
         /\ published' = [published EXCEPT ![sl[1]] = Larger(@, sl[2])]

\* finish: resolve one assignment in the registry, unless the process is fenced.
Finish(sl, tombstone) ==
    IF fenced
    THEN UNCHANGED <<published, inflight, aborted, detached>>
    ELSE /\ inflight' = inflight \ {sl}
         /\ detached' = detached \ {sl}
         /\ aborted' = IF tombstone THEN aborted \cup {sl} ELSE aborted
         /\ published' = [published EXCEPT ![sl[1]] =
                             PrefixOf(inflight \ {sl}, sl[1], allocated[sl[1]])]

\* The request is done with one child; after the last one it awaits publication.
DoneWith(r, sl, result) ==
    /\ todo' = [todo EXCEPT ![r] = @ \ {sl}]
    /\ IF todo[r] = {sl}
       THEN /\ pc' = [pc EXCEPT ![r] = "awaiting"]
            /\ verdict' = [verdict EXCEPT ![r] = result]
       ELSE UNCHANGED <<pc, verdict>>

\* accepted_durable, first half: the evidence is recorded unless fenced.
\* Children are completed one after the other.
Accept(r, sl) ==
    /\ up /\ pc[r] = "accepting" /\ sl \in todo[r]
    /\ \A x \in todo[r] : dstate[x] = "HandedOff"
    /\ IF fenced
       THEN /\ dstate' = [dstate EXCEPT ![sl] = "FatalUncertain"]
            /\ DoneWith(r, sl, "accepted")
       ELSE /\ dstate' = [dstate EXCEPT ![sl] = "Accepted"]
            /\ UNCHANGED <<todo, pc, verdict>>
    /\ UNCHANGED <<registry, detached, process, resolver, mine, ackPend, durable>>

\* accepted_durable, second half: finish.
FinishAccepted(r, sl) ==
    /\ up /\ pc[r] = "accepting" /\ sl \in todo[r] /\ dstate[sl] = "Accepted"
    /\ Finish(sl, FALSE)
    /\ DoneWith(r, sl, "accepted")
    /\ UNCHANGED <<allocated, committed, retired, dstate, process, resolver, mine, ackPend,
                   durable>>

\* capture: after an error every guard still reserved becomes a definite non-write.
DefiniteNonWrite(r, sl) ==
    /\ up /\ pc[r] = "capturing" /\ sl \in todo[r]
    /\ IF dstate[sl] = "Reserved"
       THEN /\ dstate' = [dstate EXCEPT ![sl] = "Definite"]
            /\ detached' = detached \cup {sl}
       ELSE UNCHANGED <<dstate, detached>>
    /\ DoneWith(r, sl, verdict[r])
    /\ UNCHANGED <<registry, process, resolver, mine, ackPend, durable>>

\* The response waits until every child lies in the published prefix.
Reply(r) ==
    /\ up /\ pc[r] = "awaiting" /\ ~fenced
    /\ \A sl \in mine[r] : published[sl[1]] >= sl[2]
    /\ pc' = [pc EXCEPT ![r] = "replied"]
    /\ UNCHANGED <<registry, dstate, detached, process, resolver, mine, todo, verdict, ackPend,
                   durable>>

\* The client goes away; the guards are dropped.
Cancel(r) ==
    /\ up /\ pc[r] = "awaiting"
    /\ pc' = [pc EXCEPT ![r] = "gone"]
    /\ detached' = detached \cup (mine[r] \cap inflight)
    /\ UNCHANGED <<registry, dstate, process, resolver, mine, todo, verdict, ackPend, durable>>

-----------------------------------------------------------------------------
(* The resolver thread.                                                    *)

ResolverScan ==
    /\ up /\ rpc = "scan"
    /\ IF fenced
       THEN rpc' = "exited" /\ UNCHANGED <<snap, rstop>>
       ELSE rpc' = "claim" /\ snap' = inflight /\ rstop' = stopping
    /\ UNCHANGED <<registry, dstate, detached, process, cand, claimed, request, ackPend, durable>>

\* Mutant: the persistence state of a descriptor is not looked at.
ResolverLoadAny(sl) ==
    /\ up /\ rpc = "claim" /\ cand = {} /\ sl \in snap
    /\ snap' = snap \ {sl}
    /\ cand' = IF rstop \/ sl \in detached THEN {<<sl, dstate[sl]>>} ELSE {}
    /\ UNCHANGED <<registry, dstate, detached, process, rpc, rstop, claimed, request, ackPend,
                   durable>>

\* Mutant: an assignment abandoned without a verdict is not picked up.
ResolverLoadDefinite(sl) ==
    /\ up /\ rpc = "claim" /\ cand = {} /\ sl \in snap
    /\ snap' = snap \ {sl}
    /\ cand' = IF (rstop \/ sl \in detached) /\ dstate[sl] = "Definite"
               THEN {<<sl, dstate[sl]>>} ELSE {}
    /\ UNCHANGED <<registry, dstate, detached, process, rpc, rstop, claimed, request, ackPend,
                   durable>>

\* Load the state of the next descriptor of the snapshot.
ResolverLoad(sl) ==
    /\ up /\ rpc = "claim" /\ cand = {} /\ sl \in snap
    /\ snap' = snap \ {sl}
    /\ cand' = IF (rstop \/ sl \in detached) /\ dstate[sl] \in {"Reserved", "Definite"}
               THEN {<<sl, dstate[sl]>>} ELSE {}
    /\ UNCHANGED <<registry, dstate, detached, process, rpc, rstop, claimed, request, ackPend,
                   durable>>

\* Mutant: a plain store instead of the compare-and-exchange.
ResolverClaimStore(c) ==
    /\ up /\ rpc = "claim" /\ c \in cand
    /\ cand' = {}
    /\ dstate' = [dstate EXCEPT ![c[1]] = "Claimed"]
    /\ claimed' = claimed \cup {c[1]}
    /\ UNCHANGED <<registry, detached, process, rpc, rstop, snap, request, ackPend, durable>>

\* Compare-and-exchange from the loaded state; a lost race skips the descriptor.
ResolverClaim(c) ==
    /\ up /\ rpc = "claim" /\ c \in cand
    /\ cand' = {}
    /\ IF dstate[c[1]] = c[2]
       THEN /\ dstate' = [dstate EXCEPT ![c[1]] = "Claimed"]
            /\ claimed' = claimed \cup {c[1]}
       ELSE UNCHANGED <<dstate, claimed>>
    /\ UNCHANGED <<registry, detached, process, rpc, rstop, snap, request, ackPend, durable>>

\* abort_batch: the tombstones and the issued counter, one transaction.
StoreTombstones ==
    /\ durAborted' = durAborted \cup claimed
    /\ durIssued' = IssuedWith(claimed)

ResolverAbort ==
    /\ up /\ rpc = "claim" /\ snap = {} /\ cand = {} /\ claimed # {}
    /\ StoreTombstones
    /\ rpc' = IF fenced THEN "exited" ELSE "finish"
    /\ UNCHANGED <<registry, dstate, detached, process, rstop, snap, cand, claimed, request,
                   ackPend, row, acked, durSettled, deleted>>

ResolverAbortFails ==
    /\ up /\ rpc = "claim" /\ snap = {} /\ cand = {} /\ claimed # {}
    /\ StoreTombstones \/ UNCHANGED <<durAborted, durIssued>>
    /\ fenced' = TRUE
    /\ rpc' = "exited"
    /\ UNCHANGED <<registry, dstate, detached, up, stopping, crashes, recovered, rstop, snap,
                   cand, claimed, request, ackPend, row, acked, durSettled, deleted>>

ResolverFinish(sl) ==
    /\ up /\ rpc = "finish" /\ sl \in claimed
    /\ dstate' = [dstate EXCEPT ![sl] = "AbortedDurable"]
    /\ Finish(sl, TRUE)
    /\ claimed' = claimed \ {sl}
    /\ UNCHANGED <<allocated, committed, retired, process, rpc, rstop, snap, cand, request,
                   ackPend, durable>>

\* End of one pass.  The last pass of a stopping store fences what it could not resolve.
ResolverEnd ==
    /\ up /\ rpc \in {"claim", "finish"} /\ snap = {} /\ cand = {} /\ claimed = {}
    /\ rpc' = IF rstop THEN "exited" ELSE "scan"
    /\ fenced' = (fenced \/ (rstop /\ inflight # {}))
    /\ UNCHANGED <<registry, dstate, detached, up, stopping, crashes, recovered, rstop, snap,
                   cand, claimed, request, ackPend, durable>>

-----------------------------------------------------------------------------
(* Receivers, registration and deletion.                                   *)

\* Rows of t a receiver may be shown: durable, unacknowledged, in the prefix.
Visible(t) ==
    {s \in Seqs : row[<<t, s>>] # NoReq /\ <<t, s>> \notin acked /\ s <= published[t]}

\* Mutant: rows not yet retired do not hold the settled prefix back.
SettledToPrefix(t, done) == published[t]

\* checkpoint_settlement: the published view, stopped by the first row not yet retired.
SettledWith(t, done) ==
    LET open == {s \in Seqs : s > durSettled[t] /\ row[<<t, s>>] # NoReq /\ <<t, s>> \notin done}
    IN  IF open = {} THEN published[t]
        ELSE Smaller(published[t], PrefixOf({<<t, s>> : s \in open}, t, 0))

\* One acknowledgement batch: cursor, row removal and pruning in one transaction.
Acknowledge(t, S) ==
    /\ up /\ t \notin deleted /\ ackPend[t] = 0
    /\ S # {} /\ S \subseteq Visible(t)
    /\ acked' = acked \cup {<<t, s>> : s \in S}
    /\ durSettled' = [durSettled EXCEPT ![t] = SettledWith(t, acked')]
    /\ durAborted' = Pruned(durAborted, t, durSettled'[t])
    /\ ackPend' = [ackPend EXCEPT ![t] = durSettled'[t]]
    /\ UNCHANGED <<registry, dstate, detached, process, resolver, request, row, durIssued, deleted>>

\* commit_settled, after the commit and under the registry lock.
CommitSettled(t) ==
    /\ up /\ ackPend[t] # 0
    /\ committed' = [committed EXCEPT ![t] = Larger(@, ackPend[t])]
    /\ aborted' = Pruned(aborted, t, ackPend[t])
    /\ ackPend' = [ackPend EXCEPT ![t] = 0]
    /\ UNCHANGED <<allocated, published, inflight, retired, dstate, detached, process, resolver,
                   request, durable>>

\* Mutant: registration publishes past assignments in flight.
RegisterPublishing(t, issued) ==
    /\ up /\ ~stopping /\ t \notin retired /\ t \notin deleted
    /\ issued <= durIssued[t]
    /\ allocated' = [allocated EXCEPT ![t] = Larger(@, issued)]
    /\ published' = [published EXCEPT ![t] = allocated'[t]]
    /\ UNCHANGED <<committed, inflight, aborted, retired, dstate, detached, process, resolver,
                   request, ackPend, durable>>

\* register, with the durable counter some request read a while ago.
Register(t, issued) ==
    /\ up /\ ~stopping /\ t \notin retired /\ t \notin deleted
    /\ issued <= durIssued[t]
    /\ allocated' = [allocated EXCEPT ![t] = Larger(@, issued)]
    /\ published' = IF SeqsOf(inflight, t) = {}
                    THEN [published EXCEPT ![t] = allocated'[t]] ELSE published
    /\ UNCHANGED <<committed, inflight, aborted, retired, dstate, detached, process, resolver,
                   request, ackPend, durable>>

\* Mutant: deletion starts with assignments in flight.
RetireBusyTarget(t) ==
    /\ up /\ t \in Deletable /\ t \notin retired /\ t \notin deleted
    /\ retired' = retired \cup {t}
    /\ UNCHANGED <<allocated, published, committed, inflight, aborted, dstate, detached, process,
                   resolver, request, ackPend, durable>>

\* retire_target: refused while an assignment is in flight.
RetireTarget(t) ==
    /\ up /\ t \in Deletable /\ t \notin retired /\ t \notin deleted
    /\ SeqsOf(inflight, t) = {}
    /\ retired' = retired \cup {t}
    /\ UNCHANGED <<allocated, published, committed, inflight, aborted, dstate, detached, process,
                   resolver, request, ackPend, durable>>

\* The deletion transaction: rows, counters and ranges go, the marker stays.
EraseTarget(t) ==
    /\ deleted' = deleted \cup {t}
    /\ row' = [sl \in Slots |-> IF sl[1] = t THEN NoReq ELSE row[sl]]
    /\ acked' = {sl \in acked : sl[1] # t}
    /\ durAborted' = {sl \in durAborted : sl[1] # t}
    /\ durIssued' = [durIssued EXCEPT ![t] = 0]
    /\ durSettled' = [durSettled EXCEPT ![t] = 0]

DeleteTarget(t) ==
    /\ up /\ t \in retired /\ t \notin deleted
    /\ EraseTarget(t)
    /\ UNCHANGED <<registry, dstate, detached, process, resolver, request, ackPend>>

\* The deletion fails: the target is un-retired and the process is fenced.
DeleteFails(t) ==
    /\ up /\ t \in retired /\ t \notin deleted
    /\ EraseTarget(t) \/ UNCHANGED durable
    /\ retired' = retired \ {t}
    /\ fenced' = TRUE
    /\ UNCHANGED <<allocated, published, committed, inflight, aborted, dstate, detached, up,
                   stopping, crashes, recovered, resolver, request, ackPend>>

\* TargetRetirement::commit.
RetireCommit(t) ==
    /\ up /\ t \in retired /\ t \in deleted /\ SeqsOf(aborted, t) # {}
    /\ aborted' = {sl \in aborted : sl[1] # t}
    /\ UNCHANGED <<allocated, published, committed, inflight, retired, dstate, detached, process,
                   resolver, request, ackPend, durable>>

-----------------------------------------------------------------------------
(* The process.                                                            *)

Shutdown ==
    /\ up /\ ~stopping
    /\ stopping' = TRUE
    /\ UNCHANGED <<registry, dstate, detached, up, fenced, crashes, recovered, resolver, request,
                   ackPend, durable>>

\* Everything but storage is lost; an unanswered request never gets an answer.
Die ==
    /\ up /\ up' = FALSE
    /\ inflight' = {} /\ detached' = {} /\ retired' = {}
    /\ dstate' = [sl \in Slots |-> "none"]
    /\ fenced' = FALSE /\ stopping' = FALSE
    /\ rpc' = "scan" /\ rstop' = FALSE /\ snap' = {} /\ cand' = {} /\ claimed' = {}
    /\ pc' = [r \in Requests |-> IF pc[r] \in Live THEN "lost" ELSE pc[r]]
    /\ mine' = [r \in Requests |-> IF pc[r] = "replied" THEN mine[r] ELSE {}]
    /\ todo' = [r \in Requests |-> {}]
    /\ ackPend' = [t \in Targets |-> 0]
    /\ UNCHANGED <<allocated, published, committed, aborted, recovered, verdict, durable>>

\* The supervisor aborts a fenced process.
Abort == fenced /\ Die /\ UNCHANGED crashes

\* A stopped store's process ends.
Exit == stopping /\ rpc = "exited" /\ Die /\ UNCHANGED crashes

\* The process dies at any other moment.
Crash == crashes < MaxCrashes /\ Die /\ crashes' = crashes + 1

\* publication_core: the registry is rebuilt from storage.
Restart ==
    /\ ~up /\ up' = TRUE
    /\ allocated' = durIssued
    /\ published' = durIssued
    /\ committed' = durSettled
    /\ aborted' = durAborted
    /\ recovered' = durIssued
    /\ UNCHANGED <<inflight, retired, dstate, detached, fenced, stopping, crashes, resolver,
                   request, ackPend, durable>>

-----------------------------------------------------------------------------
\* The thread of a request, as far as it runs without waiting for others.
RequestRuns(r) ==
    \/ Refuse(r)
    \/ Write(r) \/ WriteFails(r)
    \/ \E sl \in Slots : \/ HandOff(r, sl) \/ HandOffLost(r, sl)
                         \/ Accept(r, sl) \/ FinishAccepted(r, sl)
                         \/ DefiniteNonWrite(r, sl)
    \/ Reply(r)

ResolverRuns ==
    \/ ResolverScan \/ ResolverAbort \/ ResolverAbortFails \/ ResolverEnd
    \/ \E sl \in Slots : ResolverLoad(sl) \/ ResolverFinish(sl)
    \/ \E c \in cand : ResolverClaim(c)

Next ==
    \/ \E r \in Requests : Reserve(r) \/ Panic(r) \/ Cancel(r) \/ RequestRuns(r)
    \/ ResolverRuns
    \/ \E t \in Targets : \/ \E S \in SUBSET Seqs : Acknowledge(t, S)
                          \/ CommitSettled(t)
                          \/ \E i \in 0..MaxSeq : Register(t, i)
                          \/ RetireTarget(t) \/ DeleteTarget(t) \/ DeleteFails(t)
                          \/ RetireCommit(t)
    \/ Shutdown \/ Abort \/ Exit \/ Crash \/ Restart

Spec == Init /\ [][Next]_vars

\* Blocking threads and the resolver (woken by unpark, and every second) run;
\* the supervisor aborts a fenced process; the node is restarted.
Fairness ==
    /\ \A r \in Requests : WF_vars(RequestRuns(r))
    /\ WF_vars(ResolverRuns)
    /\ WF_vars(Abort)
    /\ WF_vars(Restart)

FairSpec == Spec /\ Fairness

-----------------------------------------------------------------------------
\* Types of the variables.
TypeOK ==
    /\ allocated \in [Targets -> 0..MaxSeq] /\ published \in [Targets -> 0..MaxSeq]
    /\ committed \in [Targets -> 0..MaxSeq] /\ recovered \in [Targets -> 0..MaxSeq]
    /\ durIssued \in [Targets -> 0..MaxSeq] /\ durSettled \in [Targets -> 0..MaxSeq]
    /\ ackPend \in [Targets -> 0..MaxSeq]
    /\ inflight \subseteq Slots /\ aborted \subseteq Slots /\ detached \subseteq Slots
    /\ durAborted \subseteq Slots /\ acked \subseteq Slots
    /\ snap \subseteq Slots /\ claimed \subseteq Slots
    /\ cand \subseteq Slots \X {"Reserved", "Definite"}
    /\ retired \subseteq Targets /\ deleted \subseteq Targets
    /\ dstate \in [Slots -> PStates \cup {"none"}]
    /\ row \in [Slots -> Requests \cup {NoReq}]
    /\ up \in BOOLEAN /\ fenced \in BOOLEAN /\ stopping \in BOOLEAN /\ rstop \in BOOLEAN
    /\ crashes \in 0..MaxCrashes
    /\ rpc \in {"scan", "claim", "finish", "exited"}
    /\ pc \in [Requests -> {"idle"} \cup Live \cup Ended]
    /\ mine \in [Requests -> SUBSET Slots] /\ todo \in [Requests -> SUBSET Slots]
    /\ verdict \in [Requests -> {"none", "accepted", "aborted", "error"}]

\* A submission answered "accepted" has all its rows in storage, whatever crashes
\* followed, unless its target was deleted (record_leased_fanout, published).
AcceptedIsDurable ==
    \A r \in Requests : pc[r] = "replied" /\ verdict[r] = "accepted" =>
        /\ mine[r] # {}
        /\ \A sl \in mine[r] : row[sl] = r \/ sl[1] \in deleted

\* aborted_retry_safe is the truth: no row of that submission is or will be stored
\* (proved_non_write).
AbortedIsRetrySafe ==
    \A r \in Requests : verdict[r] = "aborted" => \A sl \in Slots : row[sl] # r

\* A running store publishes no assignment still in flight, and what it publishes
\* is durable: every sequence assigned by this process inside the prefix is a row,
\* a tombstone or settled (finish, accepted_durable, abort_batch).
PrefixExplained ==
    up => \A t \in Targets \ (deleted \cup retired) : \A s \in 1..published[t] :
        /\ <<t, s>> \notin inflight
        /\ s > recovered[t] =>
              row[<<t, s>>] # NoReq \/ <<t, s>> \in durAborted \/ s <= durSettled[t]

\* The receiver's settled prefix covers no unacknowledged row and stays inside what
\* is durably issued; the registry never shows more than what is durably settled
\* (receiver_settlement, commit_settled).
SettledIsRetired ==
    \A t \in Targets \ deleted :
        /\ committed[t] <= durSettled[t] /\ durSettled[t] <= durIssued[t]
        /\ \A s \in 1..durSettled[t] : row[<<t, s>>] # NoReq => <<t, s>> \in acked

\* A row and a tombstone never share a sequence (the hand-off and the claim are one race).
RowOrTombstone == \A sl \in durAborted : row[sl] = NoReq

\* The abort ledger never outgrows its capacity, on disk in any crash state or in
\* memory with every assignment in flight aborted (reserve_batch charges a range
\* for every reservation).
LedgerFits ==
    \A t \in Targets :
        /\ Cardinality(RangeStarts(durAborted, t)) <= Capacity
        /\ Cardinality(RangeStarts(aborted, t)) + Cardinality(SeqsOf(inflight, t)) <= Capacity

\* The store keeps the contract of its inboxes: what was published without a row
\* stays empty and the watermark never moves backwards, across crash and restart; a
\* fan-out is stored as a whole or not at all; answers are final; a deleted target
\* stays empty.
Contract == INSTANCE InboxContract WITH
    prefix <- published,
    answer <- [r \in Requests |-> IF pc[r] = "replied" THEN verdict[r] ELSE "none"]

KeepsContract == Contract!ContractSpec

\* Every submission that reserved is answered, unless its client or the process goes:
\* each one runs once, so from some point on none of them is still under way
\* (PublishedOperation::published, AssignmentGuard::drop).
EveryRequestEnds == <>[](\A r \in Requests : pc[r] \notin Live)

\* No abandoned assignment holds the prefix back for ever: once the submissions have
\* ended, a running store publishes everything it allocated (resolver).
PrefixCatchesUp == <>[](up => \A t \in Targets : published[t] = allocated[t])
=============================================================================
