----------------------- MODULE PublicationPrefixProofs -----------------------
(***************************************************************************)
(* What the publication core shows the two ends of an inbox, for every     *)
(* instance: the published prefix is durable, the settled prefix was       *)
(* acknowledged, and every step is one that InboxContract allows.          *)
(*                                                                         *)
(* The strengthening adds to RaceInv that what is in flight lies above the *)
(* prefix (InFlight), that what left the registry is in storage            *)
(* (Resolved), that the counters of an inbox are ordered                   *)
(* settled <= published <= issued, through crashes as well (Ordered), and  *)
(* which assignments a live request has (Shaped).                          *)
(***************************************************************************)
EXTENDS PublicationProofs

USE DEF Slots

\* Descriptors whose fate is open.
Undecided == {"Reserved", "Definite", "Claimed", "HandedOff"}

\* What is in flight lies above the prefix of an inbox that is not being deleted;
\* an undecided descriptor is in flight.
InFlight ==
    /\ up \/ inflight = {}
    /\ \A sl \in Slots : dstate[sl] \in Undecided => sl \in inflight
    /\ \A t \in Targets, s \in Seqs : <<t, s>> \in inflight =>
          /\ t \notin retired /\ t \notin deleted
          /\ published[t] < s /\ s <= allocated[t]

\* What is no longer in flight is durable.
Resolved ==
    /\ up => \A t \in Targets \ deleted :
          /\ published[t] <= allocated[t]
          /\ \A s \in Seqs : recovered[t] < s /\ s <= allocated[t] =>
                \/ <<t, s>> \in inflight \/ row[<<t, s>>] # NoReq
                \/ <<t, s>> \in durAborted \/ s <= durSettled[t]
    /\ \A sl \in Slots : dstate[sl] = "Accepted" => row[sl] # NoReq \/ sl[1] \in deleted
    /\ rpc = "finish" => \A sl \in claimed :
          sl \in durAborted \/ sl[1] \in deleted \/ sl[2] <= durSettled[sl[1]]

\* The counters of an inbox are ordered, and what is settled was acknowledged.
Ordered ==
    \A t \in Targets \ deleted :
        /\ committed[t] <= durSettled[t] /\ ackPend[t] <= durSettled[t]
        /\ durSettled[t] <= published[t] /\ published[t] <= durIssued[t]
        /\ recovered[t] <= durIssued[t]
        /\ \A s \in Seqs : s <= durSettled[t] /\ row[<<t, s>>] # NoReq => <<t, s>> \in acked

\* A live request has one assignment in each of its inboxes, and a verdict once
\* it has nothing more to do.
Shaped ==
    \A r \in Requests :
        /\ pc[r] \in Live =>
              \E assigned \in [Batch[r] -> Seqs] : mine[r] = {<<t, assigned[t]>> : t \in Batch[r]}
        /\ pc[r] \in {"capturing", "awaiting"} => verdict[r] # "none"

PrefixInv == InFlight /\ Resolved /\ Ordered /\ Shaped

LEMMA InitPrefixInv == Init => PrefixInv
<1> SUFFICES ASSUME Init PROVE PrefixInv
  OBVIOUS
<1>1. InFlight
  BY DEF Init, InFlight, Undecided
<1>2. Resolved
  BY BoundAssumption DEF Init, Resolved, Seqs
<1>3. Ordered
  BY BoundAssumption DEF Init, Ordered, Seqs
<1>4. Shaped
  BY DEF Init, Shaped, Live
<1> QED BY <1>1, <1>2, <1>3, <1>4 DEF PrefixInv

-----------------------------------------------------------------------------
(* Requests: their assignments and verdicts.                               *)

\* The step of one request, or of none.
LEMMA ShapedByOne ==
    ASSUME TypeOK, Shaped, NEW r \in Requests,
           \A q \in Requests : q # r => pc'[q] = pc[q] /\ mine'[q] = mine[q] /\ verdict'[q] = verdict[q],
           \/ pc'[r] \notin Live
           \/ pc[r] \in Live /\ mine'[r] = mine[r],
           pc'[r] \in {"capturing", "awaiting"} => verdict'[r] # "none"
    PROVE  Shaped'
BY DEF Shaped

LEMMA RequestShaped ==
    ASSUME TypeOK, RaceInv, Shaped, NEW r \in Requests, Panic(r) \/ Cancel(r) \/ RequestRuns(r)
    PROVE  Shaped'
<1> USE DEF TypeOK
<1>0. UNCHANGED mine
  BY DEF Panic, Cancel, RequestRuns, Refuse, Write, WriteFails, HandOff, HandOffLost, Accept,
         FinishAccepted, DefiniteNonWrite, Reply
<1>1. CASE Panic(r) \/ Cancel(r) \/ Reply(r) \/ Refuse(r) \/ Write(r)
  BY <1>0, <1>1, ShapedByOne DEF Panic, Cancel, Reply, Refuse, Write, Live
<1>2. CASE WriteFails(r) \/ \E sl \in Slots : HandOffLost(r, sl)
  <2>1. pc[r] \in {"writing", "prepared"} /\ \E ds, f : AfterStoreError(r, ds, f)
    BY <1>2 DEF WriteFails, HandOffLost
  <2> QED BY <1>0, <2>1, ShapedByOne DEF AfterStoreError, Live
<1>3. ASSUME NEW sl \in Slots, HandOff(r, sl) PROVE Shaped'
  <2>1. /\ pc[r] = "prepared" /\ verdict' = verdict
        /\ pc' = [pc EXCEPT ![r] = IF todo[r] = {sl} THEN "writing" ELSE "prepared"]
    BY <1>3 DEF HandOff
  <2> QED BY <1>0, <2>1, ShapedByOne DEF Live
<1>4. ASSUME NEW sl \in Slots, Accept(r, sl) \/ FinishAccepted(r, sl) \/ DefiniteNonWrite(r, sl)
      PROVE  Shaped'
  <2>1. /\ pc[r] \in {"accepting", "capturing"}
        /\ \/ UNCHANGED <<pc, verdict>>
           \/ DoneWith(r, sl, "accepted")
           \/ pc[r] = "capturing" /\ DoneWith(r, sl, verdict[r])
    BY <1>4 DEF Accept, FinishAccepted, DefiniteNonWrite
  <2>2. /\ \A q \in Requests : q # r => pc'[q] = pc[q] /\ verdict'[q] = verdict[q]
        /\ pc'[r] \in {pc[r], "awaiting"} /\ pc[r] \in Live
        /\ pc'[r] \in {"capturing", "awaiting"} => verdict'[r] # "none"
    BY <2>1 DEF DoneWith, Shaped, Live
  <2> QED BY <1>0, <2>2, ShapedByOne
<1> QED BY <1>1, <1>2, <1>3, <1>4 DEF RequestRuns

LEMMA ReserveShaped ==
    ASSUME TypeOK, Shaped, NEW r \in Requests, Reserve(r)
    PROVE  Shaped'
<1>1. /\ pc' = [pc EXCEPT ![r] = "prepared"] /\ verdict' = verdict
      /\ mine' = [mine EXCEPT ![r] = {<<t, allocated[t] + 1>> : t \in Batch[r]}]
      /\ \A t \in Batch[r] : t \in Targets /\ allocated[t] + 1 \in Seqs
  <2>1. /\ pc' = [pc EXCEPT ![r] = "prepared"] /\ verdict' = verdict
        /\ mine' = [mine EXCEPT ![r] = {<<t, allocated[t] + 1>> : t \in Batch[r]}]
        /\ \A t \in Batch[r] : allocated[t] < MaxSeq
    BY DEF Reserve, HasRoom
  <2>2. \A t \in Batch[r] : t \in Targets
    BY BatchAssumption
  <2>3. \A t \in Targets : allocated[t] \in 0..MaxSeq
    BY DEF TypeOK
  <2>4. \A t \in Batch[r] : allocated[t] + 1 \in Seqs
    BY <2>1, <2>2, <2>3, BoundAssumption DEF Seqs
  <2> QED BY <2>1, <2>2, <2>4
<1>2. PICK assigned \in [Batch[r] -> Seqs] : assigned = [t \in Batch[r] |-> allocated[t] + 1]
  BY <1>1
<1>3. mine'[r] = {<<t, assigned[t]>> : t \in Batch[r]}
  BY <1>1, <1>2 DEF TypeOK
<1>4. pc'[r] = "prepared"
  BY <1>1 DEF TypeOK
<1> SUFFICES ASSUME NEW q \in Requests
             PROVE  /\ pc'[q] \in Live => \E f \in [Batch[q] -> Seqs] :
                          mine'[q] = {<<t, f[t]>> : t \in Batch[q]}
                    /\ pc'[q] \in {"capturing", "awaiting"} => verdict'[q] # "none"
  BY DEF Shaped
<1>5. CASE q = r
  <2>1. \E f \in [Batch[r] -> Seqs] : mine'[r] = {<<t, f[t]>> : t \in Batch[r]}
    BY <1>3
  <2> QED BY <1>4, <1>5, <2>1
<1>6. CASE q # r
  <2>1. pc'[q] = pc[q] /\ mine'[q] = mine[q] /\ verdict'[q] = verdict[q]
    BY <1>1, <1>6 DEF TypeOK
  <2> QED BY <2>1 DEF Shaped
<1> QED BY <1>5, <1>6

-----------------------------------------------------------------------------
(* Steps that leave the registry alone.                                    *)

\* Descriptors move on, rows appear where an assignment is in flight, tombstones
\* and the issued counter grow.
Calm ==
    /\ UNCHANGED <<allocated, published, committed, inflight, retired, up, recovered, ackPend,
                   acked, durSettled, deleted>>
    /\ \A sl \in Slots : dstate'[sl] \in Undecided => dstate[sl] \in Undecided
    /\ \A sl \in Slots : dstate'[sl] = "Accepted" =>
          dstate[sl] = "Accepted" \/ row[sl] # NoReq \/ sl[1] \in deleted
    /\ \A sl \in Slots : row'[sl] = row[sl] \/ (row'[sl] # NoReq /\ sl \in inflight)
    /\ \A t \in Targets : durIssued[t] <= durIssued'[t]
    /\ durAborted \subseteq durAborted'
    /\ rpc' = "finish" => \/ claimed' \subseteq durAborted'
                          \/ rpc = "finish" /\ claimed' = claimed

LEMMA CalmKeeps ==
    ASSUME TypeOK, TypeOK', PrefixInv, Shaped', Calm
    PROVE  PrefixInv'
<1>0. UNCHANGED <<allocated, published, committed, inflight, retired, up, recovered, ackPend,
                  acked, durSettled, deleted>>
  BY DEF Calm
<1>1. InFlight'
  BY <1>0 DEF PrefixInv, InFlight, Calm
<1>2. Resolved'
  <2>1. \A sl \in Slots : row[sl] # NoReq => row'[sl] # NoReq
    BY DEF Calm
  <2>2. \A t \in Targets, s \in Seqs : <<t, s>> \in Slots
    OBVIOUS
  <2>3. \A sl \in Slots : dstate'[sl] = "Accepted" => row'[sl] # NoReq \/ sl[1] \in deleted
    BY <2>1 DEF PrefixInv, Resolved, Calm
  <2>4. claimed' \subseteq Slots /\ durAborted \subseteq durAborted'
    BY DEF TypeOK, Calm
  <2>5. rpc' = "finish" => \A sl \in claimed' :
           sl \in durAborted' \/ sl[1] \in deleted \/ sl[2] <= durSettled[sl[1]]
    BY <2>4 DEF PrefixInv, Resolved, Calm
  <2> QED BY <1>0, <2>1, <2>2, <2>3, <2>4, <2>5 DEF PrefixInv, Resolved
<1>3. Ordered'
  <2> SUFFICES ASSUME NEW t \in Targets, t \notin deleted
               PROVE  /\ published[t] <= durIssued'[t] /\ recovered[t] <= durIssued'[t]
                      /\ \A s \in Seqs : s <= durSettled[t] /\ row'[<<t, s>>] # NoReq =>
                            <<t, s>> \in acked
    BY <1>0 DEF PrefixInv, Ordered
  <2>1. published[t] <= durIssued'[t] /\ recovered[t] <= durIssued'[t]
    <3>1. durIssued[t] <= durIssued'[t] /\ published[t] <= durIssued[t] /\ recovered[t] <= durIssued[t]
      BY DEF Calm, PrefixInv, Ordered
    <3>2. /\ durIssued[t] \in Nat /\ durIssued'[t] \in Nat
          /\ published[t] \in Nat /\ recovered[t] \in Nat
      BY BoundAssumption DEF TypeOK
    <3> QED BY <3>1, <3>2
  <2>2. ASSUME NEW s \in Seqs, s <= durSettled[t], row'[<<t, s>>] # NoReq
        PROVE  <<t, s>> \in acked
    <3>1. durSettled[t] <= published[t] /\ durSettled[t] \in Nat /\ published[t] \in Nat /\ s \in Nat
      BY BoundAssumption DEF PrefixInv, Ordered, TypeOK, Seqs
    <3>2. <<t, s>> \notin inflight
      BY <2>2, <3>1 DEF PrefixInv, InFlight
    <3>3. row[<<t, s>>] # NoReq
      BY <2>2, <3>2 DEF Calm
    <3> QED BY <2>2, <3>3 DEF PrefixInv, Ordered
  <2> QED BY <2>1, <2>2
<1> QED BY <1>1, <1>2, <1>3 DEF PrefixInv

\* The steps of a request between its reservation and its answer, and of the
\* resolver up to the tombstones.
LEMMA RequestCalm ==
    ASSUME TypeOK, TypeOK', RaceInv, PrefixInv, NEW r \in Requests,
           \/ Panic(r) \/ Cancel(r) \/ Refuse(r) \/ Reply(r) \/ Write(r) \/ WriteFails(r)
           \/ \E sl \in Slots : \/ HandOff(r, sl) \/ HandOffLost(r, sl) \/ Accept(r, sl)
                                \/ DefiniteNonWrite(r, sl)
    PROVE  Calm
<1> USE DEF TypeOK
<1>0. /\ UNCHANGED <<allocated, published, committed, inflight, retired, up, recovered, ackPend,
                     acked, durSettled, deleted>>
      /\ UNCHANGED <<durAborted, rpc, claimed>>
  BY DEF Panic, Cancel, Refuse, Reply, Write, WriteFails, HandOff, HandOffLost, Accept,
         DefiniteNonWrite, registry, process, resolver, durable
<1>1. \A t \in Targets : durIssued[t] <= durIssued[t]
  BY BoundAssumption
<1>2. CASE Panic(r) \/ Cancel(r) \/ Refuse(r) \/ Reply(r)
  <2>1. UNCHANGED <<dstate, row, durIssued>>
    BY <1>2 DEF Panic, Cancel, Refuse, Reply, durable
  <2> QED BY <1>0, <1>1, <2>1 DEF Calm
<1>3. CASE Write(r) \/ WriteFails(r)
  <2>1. /\ up /\ pc[r] = "writing"
        /\ \/ StoreRows(r)
           \/ UNCHANGED <<row, durIssued>>
        /\ dstate' = dstate \/ dstate' = DropWrites(r)
    BY <1>3 DEF Write, WriteFails
  <2>2. \A sl \in Slots : dstate'[sl] = dstate[sl] \/ dstate'[sl] = "FatalUncertain"
    BY <2>1 DEF DropWrites
  <2>3. CASE StoreRows(r)
    <3>1. /\ \A x \in Slots : row'[x] = IF x \in mine[r] THEN r ELSE row[x]
          /\ \A x \in mine[r] : x \in Slots /\ row[x] = NoReq /\ dstate[x] = "HandedOff"
          /\ \A t \in Targets : durIssued[t] <= durIssued'[t]
      BY <2>1, <2>3, StoreRowsRaceInv
    <3>2. \A x \in mine[r] : x \in inflight
      BY <3>1 DEF PrefixInv, InFlight, Undecided
    <3> QED BY <1>0, <2>2, <3>1, <3>2, NoReqAssumption DEF Calm, Undecided
  <2>4. CASE UNCHANGED <<row, durIssued>>
    BY <1>0, <1>1, <2>2, <2>4 DEF Calm, Undecided
  <2> QED BY <2>1, <2>3, <2>4
<1>4. ASSUME NEW sl \in Slots, HandOff(r, sl) \/ HandOffLost(r, sl) \/ DefiniteNonWrite(r, sl)
      PROVE  Calm
  <2>1. UNCHANGED <<row, durIssued>>
    BY <1>4 DEF HandOff, HandOffLost, DefiniteNonWrite, durable
  <2>2. \A x \in Slots : \/ dstate'[x] = dstate[x] \/ dstate'[x] = "FatalUncertain"
                         \/ dstate'[x] \in {"HandedOff", "Definite"} /\ dstate[x] = "Reserved"
    BY <1>4 DEF HandOff, HandOffLost, DefiniteNonWrite, DropWrites
  <2> QED BY <1>0, <1>1, <2>1, <2>2 DEF Calm, Undecided
<1>5. ASSUME NEW sl \in Slots, Accept(r, sl) PROVE Calm
  <2>1. UNCHANGED <<row, durIssued>>
    BY <1>5 DEF Accept, durable
  <2>2. \A x \in Slots : \/ dstate'[x] = dstate[x]
                         \/ x = sl /\ dstate'[x] \in {"Accepted", "FatalUncertain"}
    BY <1>5 DEF Accept
  <2>3. row[sl] # NoReq \/ sl[1] \in deleted
    <3>1. pc[r] = "accepting" /\ sl \in mine[r]
      BY <1>5 DEF Accept, RaceInv, Ownership
    <3> QED BY <3>1, NoReqAssumption DEF RaceInv, Answers
  <2> QED BY <1>0, <1>1, <2>1, <2>2, <2>3 DEF Calm, Undecided
<1> QED BY <1>2, <1>3, <1>4, <1>5

LEMMA ResolverCalm ==
    ASSUME TypeOK, TypeOK', RaceInv, PrefixInv,
           \/ ResolverScan \/ ResolverAbort \/ ResolverAbortFails \/ ResolverEnd \/ Shutdown
           \/ \E sl \in Slots : ResolverLoad(sl)
           \/ \E c \in cand : ResolverClaim(c)
           \/ \E t \in Targets : RetireCommit(t)
    PROVE  Calm /\ UNCHANGED <<pc, mine, verdict>>
<1> USE DEF TypeOK
<1>0. /\ UNCHANGED <<allocated, published, committed, inflight, retired, up, recovered, ackPend,
                     acked, durSettled, deleted>>
      /\ UNCHANGED <<row, pc, mine, verdict>>
  BY DEF ResolverScan, ResolverAbort, ResolverAbortFails, ResolverEnd, Shutdown, ResolverLoad,
         ResolverClaim, RetireCommit, registry, process, resolver, request, durable
<1>1. \A t \in Targets : durIssued[t] <= durIssued[t]
  BY BoundAssumption
<1>2. CASE \/ ResolverScan \/ ResolverEnd \/ Shutdown \/ \E sl \in Slots : ResolverLoad(sl)
           \/ \E t \in Targets : RetireCommit(t)
  <2>1. UNCHANGED <<dstate, durIssued, durAborted, claimed>> /\ (rpc' = "finish" => rpc = "finish")
    BY <1>2 DEF ResolverScan, ResolverEnd, Shutdown, ResolverLoad, RetireCommit, resolver, durable
  <2> QED BY <1>0, <1>1, <2>1 DEF Calm
<1>3. ASSUME NEW c \in cand, ResolverClaim(c) PROVE Calm
  <2>1. UNCHANGED <<durIssued, durAborted, rpc>> /\ rpc = "claim"
    BY <1>3 DEF ResolverClaim, durable
  <2>2. \A x \in Slots : dstate'[x] = dstate[x]
                         \/ (dstate'[x] = "Claimed" /\ dstate[x] \in {"Reserved", "Definite"})
    BY <1>3 DEF ResolverClaim
  <2> QED BY <1>0, <1>1, <2>1, <2>2 DEF Calm, Undecided
<1>4. CASE ResolverAbort \/ ResolverAbortFails
  <2>1. /\ UNCHANGED <<dstate, claimed>>
        /\ \/ StoreTombstones
           \/ UNCHANGED <<durAborted, durIssued>> /\ rpc' = "exited"
    BY <1>4 DEF ResolverAbort, ResolverAbortFails
  <2>2. CASE StoreTombstones
    <3>1. durAborted' = durAborted \cup claimed /\ durIssued' = IssuedWith(claimed)
      BY <2>2 DEF StoreTombstones
    <3>2. \A t \in Targets : IssuedWith(claimed)[t] >= durIssued[t]
          /\ IssuedWith(claimed)[t] \in 0..MaxSeq
      BY IssuedWithProperties
    <3>3. \A t \in Targets : durIssued[t] <= durIssued'[t]
      BY <3>1, <3>2, BoundAssumption
    <3> QED BY <1>0, <2>1, <3>1, <3>3 DEF Calm
  <2>3. CASE UNCHANGED <<durAborted, durIssued>> /\ rpc' = "exited"
    BY <1>0, <1>1, <2>1, <2>3 DEF Calm
  <2> QED BY <2>1, <2>2, <2>3
<1> QED BY <1>0, <1>2, <1>3, <1>4

-----------------------------------------------------------------------------
(* Steps on the registry.                                                  *)

\* A reservation lies above the prefix.
LEMMA ReservePrefix ==
    ASSUME TypeOK, TypeOK', RaceInv, PrefixInv, NEW r \in Requests, Reserve(r)
    PROVE  PrefixInv'
<1> DEFINE new == {<<t, allocated[t] + 1>> : t \in Batch[r]}
<1>0. /\ up
      /\ \A t \in Batch[r] : /\ t \in Targets /\ allocated[t] < MaxSeq
                             /\ t \notin retired /\ t \notin deleted
      /\ inflight' = inflight \cup new
      /\ dstate' = [sl \in Slots |-> IF sl \in new THEN "Reserved" ELSE dstate[sl]]
      /\ allocated' = [t \in Targets |-> IF t \in Batch[r] THEN allocated[t] + 1 ELSE allocated[t]]
      /\ UNCHANGED <<published, committed, retired, up, recovered, rpc, claimed, ackPend, row, acked,
                     durIssued, durAborted, durSettled, deleted>>
  BY BatchAssumption DEF Reserve, HasRoom, process, resolver, durable
<1>1. \A t \in Targets, s \in Seqs : <<t, s>> \in new <=> t \in Batch[r] /\ s = allocated[t] + 1
  OBVIOUS
<1>2. Shaped'
  BY ReserveShaped DEF PrefixInv
<1> HIDE DEF new
<1>3. \A t \in Targets : allocated[t] \in Nat /\ published[t] \in Nat
  BY BoundAssumption DEF TypeOK
<1>4. \A t \in Targets : allocated'[t] = IF t \in Batch[r] THEN allocated[t] + 1 ELSE allocated[t]
  BY <1>0
<1>5. InFlight'
  <2>1. \A sl \in Slots : dstate'[sl] \in Undecided => sl \in inflight'
    BY <1>0 DEF PrefixInv, InFlight
  <2>2. ASSUME NEW t \in Targets, NEW s \in Seqs, <<t, s>> \in inflight'
        PROVE  /\ t \notin retired' /\ t \notin deleted'
               /\ published'[t] < s /\ s <= allocated'[t]
    <3>1. CASE <<t, s>> \in new
      <4>1. t \in Batch[r] /\ s = allocated[t] + 1 /\ allocated'[t] = allocated[t] + 1
        BY <1>1, <1>4, <3>1
      <4>2. published[t] <= allocated[t]
        BY <1>0, <4>1 DEF PrefixInv, Resolved
      <4> QED BY <1>0, <1>3, <4>1, <4>2
    <3>2. CASE <<t, s>> \in inflight
      <4>1. t \notin retired /\ t \notin deleted /\ published[t] < s /\ s <= allocated[t] /\ s \in Nat
        BY <3>2, BoundAssumption DEF PrefixInv, InFlight, Seqs
      <4> QED BY <1>0, <1>3, <1>4, <4>1
    <3> QED BY <1>0, <2>2, <3>1, <3>2
  <2> QED BY <1>0, <2>1, <2>2 DEF InFlight
<1>6. Resolved'
  <2>1. ASSUME NEW t \in Targets, t \notin deleted
        PROVE  /\ published[t] <= allocated'[t]
               /\ \A s \in Seqs : recovered[t] < s /\ s <= allocated'[t] =>
                    \/ <<t, s>> \in inflight' \/ row[<<t, s>>] # NoReq
                    \/ <<t, s>> \in durAborted \/ s <= durSettled[t]
    <3>1. published[t] <= allocated[t]
      BY <1>0, <2>1 DEF PrefixInv, Resolved
    <3>2. ASSUME NEW s \in Seqs, recovered[t] < s, s <= allocated'[t]
          PROVE  \/ <<t, s>> \in inflight' \/ row[<<t, s>>] # NoReq
                 \/ <<t, s>> \in durAborted \/ s <= durSettled[t]
      <4>1. s \in Nat
        BY BoundAssumption DEF Seqs
      <4>2. s <= allocated[t] \/ (t \in Batch[r] /\ s = allocated[t] + 1)
        BY <1>3, <1>4, <3>2, <4>1
      <4> QED BY <1>0, <1>1, <2>1, <3>2, <4>2 DEF PrefixInv, Resolved
    <3> QED BY <1>3, <1>4, <3>1, <3>2
  <2>2. \A sl \in Slots : dstate'[sl] = "Accepted" => dstate[sl] = "Accepted"
    BY <1>0
  <2> QED BY <1>0, <2>1, <2>2 DEF PrefixInv, Resolved
<1>7. Ordered'
  BY <1>0 DEF PrefixInv, Ordered
<1> QED BY <1>2, <1>5, <1>6, <1>7 DEF PrefixInv

\* The prefix never goes back, stays within what is allocated and stops before
\* the first assignment in flight; so it stays within what is issued.
LEMMA AdvancePrefix ==
    ASSUME TypeOK, TypeOK', RaceInv, PrefixInv, Shaped', up, up', NEW t \in Targets,
           NEW p, published' = [published EXCEPT ![t] = p],
           p = PrefixOf(inflight', t, allocated[t]),
           inflight' \subseteq inflight,
           \A x \in inflight : x \notin inflight' =>
               x[1] \in deleted \/ row[x] # NoReq \/ x \in durAborted \/ x[2] <= durSettled[x[1]],
           \A sl \in Slots : dstate'[sl] \in Undecided => dstate[sl] \in Undecided /\ sl \in inflight',
           \A sl \in Slots : dstate'[sl] = "Accepted" => dstate[sl] = "Accepted",
           claimed' \subseteq claimed,
           UNCHANGED <<allocated, committed, retired, recovered, rpc, ackPend, row, acked, durIssued,
                       durAborted, durSettled, deleted>>
    PROVE  PrefixInv'
<1>0. /\ published \in [Targets -> 0..MaxSeq] /\ allocated \in [Targets -> 0..MaxSeq]
      /\ recovered \in [Targets -> 0..MaxSeq] /\ durIssued \in [Targets -> 0..MaxSeq]
      /\ durSettled \in [Targets -> 0..MaxSeq] /\ inflight \subseteq Slots
      /\ claimed \subseteq Slots
  BY DEF TypeOK
<1>1. /\ p \in 0..MaxSeq
      /\ \A s \in Seqs : <<t, s>> \in inflight' => p < s
      /\ SeqsOf(inflight', t) = {} => p = allocated[t]
      /\ \A s \in Seqs : (s > p /\ SeqsOf(inflight', t) # {}) =>
            \E x \in SeqsOf(inflight', t) : x = p + 1
  BY <1>0, PrefixOfProperties
<1>2. \A u \in Targets : published'[u] = IF u = t THEN p ELSE published[u]
  BY <1>0
<1>3. t \notin deleted => published[t] <= p /\ p <= allocated[t]
  <2> SUFFICES ASSUME t \notin deleted PROVE published[t] <= p /\ p <= allocated[t]
    OBVIOUS
  <2>1. published[t] <= allocated[t] /\ published[t] \in Nat /\ allocated[t] \in 0..MaxSeq
    BY <1>0, BoundAssumption DEF PrefixInv, Resolved
  <2>2. CASE SeqsOf(inflight', t) = {}
    BY <1>1, <2>1, <2>2, BoundAssumption
  <2>3. CASE SeqsOf(inflight', t) # {}
    <3>1. PICK y \in SeqsOf(inflight', t) : TRUE
      BY <2>3
    <3>2. y \in Seqs /\ <<t, y>> \in inflight' /\ y \in Nat
      BY BoundAssumption DEF SeqsOf, Seqs
    <3>3. p < y
      BY <1>1, <3>2
    <3>4. PICK x \in SeqsOf(inflight', t) : x = p + 1
      BY <1>1, <2>3, <3>2, <3>3, BoundAssumption
    <3>5. x \in Seqs /\ <<t, x>> \in inflight
      BY <3>4 DEF SeqsOf
    <3>6. published[t] < x /\ x <= allocated[t]
      BY <3>5 DEF PrefixInv, InFlight
    <3> QED BY <1>1, <2>1, <3>4, <3>6, BoundAssumption
  <2> QED BY <2>2, <2>3
<1>4. InFlight'
  <2>1. ASSUME NEW u \in Targets, NEW s \in Seqs, <<u, s>> \in inflight'
        PROVE  u \notin retired /\ u \notin deleted /\ published'[u] < s /\ s <= allocated[u]
    <3>1. u \notin retired /\ u \notin deleted /\ published[u] < s /\ s <= allocated[u]
      BY <2>1 DEF PrefixInv, InFlight
    <3> QED BY <1>1, <1>2, <2>1, <3>1
  <2> QED BY <2>1 DEF InFlight
<1>5. Resolved'
  <2>1. ASSUME NEW u \in Targets, u \notin deleted
        PROVE  /\ published'[u] <= allocated[u]
               /\ \A s \in Seqs : recovered[u] < s /\ s <= allocated[u] =>
                    \/ <<u, s>> \in inflight' \/ row[<<u, s>>] # NoReq
                    \/ <<u, s>> \in durAborted \/ s <= durSettled[u]
    <3>1. published[u] <= allocated[u]
      BY <2>1 DEF PrefixInv, Resolved
    <3>2. ASSUME NEW s \in Seqs, recovered[u] < s, s <= allocated[u]
          PROVE  \/ <<u, s>> \in inflight' \/ row[<<u, s>>] # NoReq
                 \/ <<u, s>> \in durAborted \/ s <= durSettled[u]
      <4>1. \/ <<u, s>> \in inflight \/ row[<<u, s>>] # NoReq
            \/ <<u, s>> \in durAborted \/ s <= durSettled[u]
        BY <2>1, <3>2 DEF PrefixInv, Resolved
      <4> QED BY <2>1, <4>1
    <3> QED BY <1>2, <1>3, <2>1, <3>1, <3>2
  <2>2. rpc = "finish" => \A sl \in claimed' :
           sl \in durAborted \/ sl[1] \in deleted \/ sl[2] <= durSettled[sl[1]]
    BY DEF PrefixInv, Resolved
  <2>3. \A sl \in Slots : dstate'[sl] = "Accepted" => row[sl] # NoReq \/ sl[1] \in deleted
    BY DEF PrefixInv, Resolved
  <2> QED BY <2>1, <2>2, <2>3 DEF Resolved
<1>6. Ordered'
  <2>1. ASSUME NEW u \in Targets, u \notin deleted
        PROVE  durSettled[u] <= published'[u] /\ published'[u] <= durIssued[u]
    <3>1. /\ durSettled[u] <= published[u] /\ published[u] <= durIssued[u]
          /\ recovered[u] <= durIssued[u]
      BY <2>1 DEF PrefixInv, Ordered
    <3>2. CASE u # t
      BY <1>2, <3>1, <3>2
    <3>3. CASE u = t
      <4>1. /\ durSettled[t] \in Nat /\ published[t] \in Nat /\ durIssued[t] \in Nat
            /\ recovered[t] \in Nat /\ p \in Nat /\ published'[u] = p
        BY <1>0, <1>1, <1>2, <3>3, BoundAssumption
      <4>2. durSettled[t] <= p
        BY <1>3, <2>1, <3>1, <3>3, <4>1
      <4>3. CASE p <= recovered[t]
        BY <3>1, <3>3, <4>1, <4>2, <4>3
      <4>4. CASE p > recovered[t]
        <5>1. p \in Seqs /\ p <= allocated[t] /\ <<t, p>> \notin inflight'
          BY <1>1, <1>3, <2>1, <3>3, <4>1, <4>4, BoundAssumption DEF Seqs
        <5>2. \/ row[<<t, p>>] # NoReq \/ <<t, p>> \in durAborted \/ p <= durSettled[t]
          BY <1>5, <2>1, <3>3, <4>1, <4>4, <5>1 DEF Resolved
        <5>3. <<t, p>> \in Slots /\ <<t, p>>[1] = t /\ <<t, p>>[2] = p
          BY <5>1
        <5>4. row[<<t, p>>] # NoReq \/ <<t, p>> \in durAborted => p <= durIssued[t]
          BY <5>3 DEF RaceInv, CountersBound
        <5> QED BY <3>1, <3>3, <4>1, <4>2, <5>2, <5>4
      <4> QED BY <4>1, <4>3, <4>4
    <3> QED BY <3>2, <3>3
  <2> QED BY <2>1 DEF PrefixInv, Ordered
<1> QED BY <1>4, <1>5, <1>6 DEF PrefixInv

\* Resolving an assignment in the registry; a fenced process resolves nothing.
LEMMA FinishPrefix ==
    ASSUME TypeOK, TypeOK', RaceInv, PrefixInv, Shaped', up, up', NEW sl \in Slots,
           NEW tombstone \in BOOLEAN, Finish(sl, tombstone),
           sl[1] \in deleted \/ row[sl] # NoReq \/ sl \in durAborted \/ sl[2] <= durSettled[sl[1]],
           \A x \in Slots : dstate'[x] \in Undecided => dstate[x] \in Undecided /\ x # sl,
           \A x \in Slots : dstate'[x] = "Accepted" => dstate[x] = "Accepted",
           claimed' \subseteq claimed,
           UNCHANGED <<allocated, committed, retired, recovered, rpc, ackPend, row, acked, durIssued,
                       durAborted, durSettled, deleted>>
    PROVE  PrefixInv'
<1>1. CASE fenced
  <2>1. UNCHANGED <<published, inflight>>
    BY <1>1 DEF Finish
  <2>2. InFlight'
    BY <2>1 DEF PrefixInv, InFlight
  <2>3. Resolved'
    BY <2>1 DEF PrefixInv, Resolved
  <2>4. Ordered'
    BY <2>1 DEF PrefixInv, Ordered
  <2> QED BY <2>2, <2>3, <2>4 DEF PrefixInv
<1>2. CASE ~fenced
  <2>1. PICK t \in Targets : t = sl[1]
    OBVIOUS
  <2>2. PICK p : p = PrefixOf(inflight', t, allocated[t])
    OBVIOUS
  <2>3. inflight' = inflight \ {sl} /\ published' = [published EXCEPT ![t] = p]
    BY <1>2, <2>1, <2>2 DEF Finish
  <2>4. \A x \in Slots : dstate'[x] \in Undecided => dstate[x] \in Undecided /\ x \in inflight'
    BY <2>3 DEF PrefixInv, InFlight
  <2>5. \A x \in inflight : x \notin inflight' =>
           x[1] \in deleted \/ row[x] # NoReq \/ x \in durAborted \/ x[2] <= durSettled[x[1]]
    BY <2>3
  <2> QED BY <2>2, <2>3, <2>4, <2>5, AdvancePrefix
<1> QED BY <1>1, <1>2 DEF TypeOK

LEMMA FinishAcceptedPrefix ==
    ASSUME TypeOK, TypeOK', RaceInv, PrefixInv, NEW r \in Requests, NEW sl \in Slots,
           FinishAccepted(r, sl)
    PROVE  PrefixInv'
<1>1. /\ up /\ dstate[sl] = "Accepted" /\ Finish(sl, FALSE)
      /\ UNCHANGED <<up, dstate, claimed>>
      /\ UNCHANGED <<allocated, committed, retired, recovered, rpc, ackPend, row, acked, durIssued,
                     durAborted, durSettled, deleted>>
  BY DEF FinishAccepted, process, resolver, durable
<1>2. Shaped'
  BY RequestShaped DEF PrefixInv, RequestRuns
<1>3. sl[1] \in deleted \/ row[sl] # NoReq
  BY <1>1 DEF PrefixInv, Resolved
<1>4. \A x \in Slots : dstate'[x] \in Undecided => dstate[x] \in Undecided /\ x # sl
  BY <1>1 DEF Undecided
<1> QED BY <1>1, <1>2, <1>3, <1>4, FinishPrefix

LEMMA ResolverFinishPrefix ==
    ASSUME TypeOK, TypeOK', RaceInv, PrefixInv, NEW sl \in Slots, ResolverFinish(sl)
    PROVE  PrefixInv'
<1>1. /\ up /\ sl \in claimed /\ rpc = "finish" /\ Finish(sl, TRUE)
      /\ dstate' = [dstate EXCEPT ![sl] = "AbortedDurable"]
      /\ claimed' \subseteq claimed /\ UNCHANGED <<up, pc, mine, verdict>>
      /\ UNCHANGED <<allocated, committed, retired, recovered, rpc, ackPend, row, acked, durIssued,
                     durAborted, durSettled, deleted>>
  BY DEF ResolverFinish, process, request, durable
<1>2. Shaped'
  BY <1>1 DEF PrefixInv, Shaped
<1>3. sl \in durAborted \/ sl[1] \in deleted \/ sl[2] <= durSettled[sl[1]]
  BY <1>1 DEF PrefixInv, Resolved
<1>4. \A x \in Slots : dstate'[x] = IF x = sl THEN "AbortedDurable" ELSE dstate[x]
  BY <1>1 DEF TypeOK
<1>5. \A x \in Slots : dstate'[x] \in Undecided => dstate[x] \in Undecided /\ x # sl
  BY <1>4 DEF Undecided
<1>6. \A x \in Slots : dstate'[x] = "Accepted" => dstate[x] = "Accepted"
  BY <1>4
<1> QED BY <1>1, <1>2, <1>3, <1>5, <1>6, FinishPrefix

\* register never raises what is allocated: a durable counter is never above it.
LEMMA RegisterPrefix ==
    ASSUME TypeOK, TypeOK', RaceInv, PrefixInv, NEW t \in Targets, NEW i \in 0..MaxSeq,
           Register(t, i)
    PROVE  PrefixInv'
<1>1. /\ up /\ i <= durIssued[t]
      /\ allocated' = [allocated EXCEPT ![t] = Larger(@, i)]
      /\ published' = IF SeqsOf(inflight, t) = {}
                      THEN [published EXCEPT ![t] = allocated'[t]] ELSE published
      /\ UNCHANGED <<up, inflight, dstate, claimed, pc, mine, verdict>>
      /\ UNCHANGED <<committed, retired, recovered, rpc, ackPend, row, acked, durIssued,
                     durAborted, durSettled, deleted>>
  BY DEF Register, process, resolver, request, durable
<1>2. allocated' = allocated
  <2>1. /\ durIssued[t] <= allocated[t] /\ durIssued[t] \in Nat /\ allocated[t] \in Nat /\ i \in Nat
        /\ allocated \in [Targets -> 0..MaxSeq]
    BY <1>1, BoundAssumption DEF RaceInv, CountersBound, TypeOK
  <2>2. Larger(allocated[t], i) = allocated[t]
    BY <1>1, <2>1 DEF Larger
  <2> QED BY <1>1, <2>1, <2>2
<1>3. Shaped'
  BY <1>1 DEF PrefixInv, Shaped
<1>4. CASE SeqsOf(inflight, t) # {}
  <2>1. published' = published
    BY <1>1, <1>4
  <2>2. InFlight'
    BY <1>1, <1>2, <2>1 DEF PrefixInv, InFlight
  <2>3. Resolved'
    BY <1>1, <1>2, <2>1 DEF PrefixInv, Resolved
  <2>4. Ordered'
    BY <1>1, <2>1 DEF PrefixInv, Ordered
  <2> QED BY <1>3, <2>2, <2>3, <2>4 DEF PrefixInv
<1>5. CASE SeqsOf(inflight, t) = {}
  <2>1. PICK p : p = PrefixOf(inflight', t, allocated[t])
    OBVIOUS
  <2>2. p = allocated[t]
    BY <1>1, <1>5, <2>1 DEF PrefixOf
  <2>3. published' = [published EXCEPT ![t] = p]
    BY <1>1, <1>2, <1>5, <2>2
  <2>4. \A x \in Slots : dstate'[x] \in Undecided => dstate[x] \in Undecided /\ x \in inflight'
    BY <1>1 DEF PrefixInv, InFlight
  <2> QED BY <1>1, <1>2, <1>3, <2>1, <2>3, <2>4, AdvancePrefix
<1> QED BY <1>4, <1>5

-----------------------------------------------------------------------------
(* Receivers and deletion.                                                 *)

\* checkpoint_settlement moves forward, inside the prefix, over rows that are done.
LEMMA SettledWithProperties ==
    ASSUME TypeOK, NEW t \in Targets, NEW done, durSettled[t] <= published[t]
    PROVE  /\ SettledWith(t, done) \in 0..MaxSeq
           /\ durSettled[t] <= SettledWith(t, done) /\ SettledWith(t, done) <= published[t]
           /\ \A s \in Seqs : s > durSettled[t] /\ s <= SettledWith(t, done) /\ row[<<t, s>>] # NoReq
                 => <<t, s>> \in done
<1>1. PICK open : open = {s \in Seqs : s > durSettled[t] /\ row[<<t, s>>] # NoReq /\ <<t, s>> \notin done}
  OBVIOUS
<1>2. durSettled[t] \in 0..MaxSeq /\ published[t] \in 0..MaxSeq
  BY DEF TypeOK
<1>3. CASE open = {}
  <2>1. SettledWith(t, done) = published[t]
    BY <1>1, <1>3 DEF SettledWith
  <2> QED BY <1>1, <1>2, <1>3, <2>1
<1>4. CASE open # {}
  <2>1. PICK S : S = {<<t, s>> : s \in open}
    OBVIOUS
  <2>2. PICK p : p = PrefixOf(S, t, 0)
    OBVIOUS
  <2>3. SettledWith(t, done) = Smaller(published[t], p)
    BY <1>1, <1>4, <2>1, <2>2 DEF SettledWith
  <2>4. SeqsOf(S, t) = open
    BY <1>1, <2>1 DEF SeqsOf
  <2>5. 0 \in 0..MaxSeq
    BY BoundAssumption
  <2>6. /\ p \in 0..MaxSeq
        /\ \A s \in Seqs : <<t, s>> \in S => p < s
        /\ \A s \in Seqs : s > p => \E x \in open : x = p + 1
    BY <1>4, <2>2, <2>4, <2>5, PrefixOfProperties
  <2>7. \A s \in open : s \in Seqs /\ <<t, s>> \in S /\ s > durSettled[t] /\ s \in Nat
    BY <1>1, <2>1, BoundAssumption DEF Seqs
  <2>8. durSettled[t] <= p
    <3>1. PICK y \in open : TRUE
      BY <1>4
    <3>2. PICK x \in open : x = p + 1
      BY <2>6, <2>7, <3>1, BoundAssumption
    <3>3. x > durSettled[t] /\ p \in Nat /\ durSettled[t] \in Nat
      <4>1. p \in 0..MaxSeq
        BY <2>6
      <4>2. x > durSettled[t]
        BY <2>7
      <4> QED BY <1>2, <4>1, <4>2, BoundAssumption
    <3> QED BY <3>2, <3>3
  <2>9. ASSUME NEW s \in Seqs, s <= p PROVE s \notin open
    <3>1. p \in 0..MaxSeq /\ (s \in open => p < s)
      BY <2>6, <2>7
    <3>2. p \in Nat /\ s \in Nat
      BY <3>1, BoundAssumption DEF Seqs
    <3> QED BY <2>9, <3>1, <3>2
  <2>10. /\ SettledWith(t, done) \in 0..MaxSeq
         /\ durSettled[t] <= SettledWith(t, done) /\ SettledWith(t, done) <= published[t]
         /\ SettledWith(t, done) <= p
    BY <1>2, <2>3, <2>6, <2>8, BoundAssumption DEF Smaller
  <2>11. \A s \in Seqs : s <= SettledWith(t, done) => s <= p
    BY <2>6, <2>10, BoundAssumption DEF Seqs
  <2> QED BY <1>1, <2>9, <2>10, <2>11
<1> QED BY <1>3, <1>4

\* What an acknowledgement changes.
LEMMA AcknowledgeSettles ==
    ASSUME TypeOK, PrefixInv, NEW t \in Targets, NEW S \in SUBSET Seqs, Acknowledge(t, S)
    PROVE  /\ t \notin deleted /\ up
           /\ \A u \in Targets : /\ durSettled[u] <= durSettled'[u]
                                 /\ u # t => durSettled'[u] = durSettled[u] /\ ackPend'[u] = ackPend[u]
           /\ durSettled'[t] <= published[t] /\ ackPend'[t] = durSettled'[t]
           /\ \A s \in Seqs : s <= durSettled'[t] /\ row[<<t, s>>] # NoReq => <<t, s>> \in acked'
           /\ acked \subseteq acked'
           /\ \A u \in Targets, s \in Seqs : <<u, s>> \in durAborted' <=>
                 <<u, s>> \in durAborted /\ (u # t \/ s > durSettled'[t])
<1>1. /\ up /\ t \notin deleted
      /\ acked' = acked \cup {<<t, s>> : s \in S}
      /\ durSettled' = [durSettled EXCEPT ![t] = SettledWith(t, acked')]
      /\ durAborted' = Pruned(durAborted, t, durSettled'[t])
      /\ ackPend' = [ackPend EXCEPT ![t] = durSettled'[t]]
  BY DEF Acknowledge
<1>2. durSettled \in [Targets -> 0..MaxSeq] /\ ackPend \in [Targets -> 0..MaxSeq]
  BY DEF TypeOK
<1>3. durSettled[t] <= published[t]
  BY <1>1 DEF PrefixInv, Ordered
<1>4. PICK v : v = SettledWith(t, acked')
  OBVIOUS
<1>5. /\ v \in 0..MaxSeq /\ durSettled[t] <= v /\ v <= published[t]
      /\ \A s \in Seqs : s > durSettled[t] /\ s <= v /\ row[<<t, s>>] # NoReq => <<t, s>> \in acked'
  BY <1>3, <1>4, SettledWithProperties
<1>6. durSettled'[t] = v /\ ackPend'[t] = v
  BY <1>1, <1>2, <1>4
<1>7. \A u \in Targets : u # t => durSettled'[u] = durSettled[u] /\ ackPend'[u] = ackPend[u]
  BY <1>1, <1>2
<1>8. \A u \in Targets : durSettled[u] <= durSettled'[u]
  BY <1>2, <1>5, <1>6, <1>7, BoundAssumption
<1>9. ASSUME NEW s \in Seqs, s <= v, row[<<t, s>>] # NoReq PROVE <<t, s>> \in acked'
  <2>1. CASE s > durSettled[t]
    BY <1>5, <1>9, <2>1
  <2>2. CASE s <= durSettled[t]
    BY <1>1, <1>9, <2>2 DEF PrefixInv, Ordered
  <2> QED BY <1>2, <2>1, <2>2, BoundAssumption DEF Seqs
<1>10. \A u \in Targets, s \in Seqs : <<u, s>> \in durAborted' <=>
           <<u, s>> \in durAborted /\ (u # t \/ s > v)
  BY <1>1, <1>6 DEF Pruned
<1> QED BY <1>1, <1>5, <1>6, <1>7, <1>8, <1>9, <1>10

LEMMA AcknowledgePrefix ==
    ASSUME TypeOK, TypeOK', PrefixInv, NEW t \in Targets, NEW S \in SUBSET Seqs, Acknowledge(t, S)
    PROVE  PrefixInv'
<1>0. UNCHANGED <<allocated, published, committed, inflight, retired, dstate, up, recovered, rpc,
                  claimed, pc, mine, verdict, row, durIssued, deleted>>
  BY DEF Acknowledge, registry, process, resolver, request
<1>1. /\ t \notin deleted
      /\ \A u \in Targets : /\ durSettled[u] <= durSettled'[u]
                            /\ u # t => durSettled'[u] = durSettled[u] /\ ackPend'[u] = ackPend[u]
      /\ durSettled'[t] <= published[t] /\ ackPend'[t] = durSettled'[t]
      /\ \A s \in Seqs : s <= durSettled'[t] /\ row[<<t, s>>] # NoReq => <<t, s>> \in acked'
      /\ acked \subseteq acked'
      /\ \A u \in Targets, s \in Seqs : <<u, s>> \in durAborted' <=>
            <<u, s>> \in durAborted /\ (u # t \/ s > durSettled'[t])
  BY AcknowledgeSettles
<1>2. \A u \in Targets : /\ durSettled[u] \in Nat /\ durSettled'[u] \in Nat /\ committed[u] \in Nat
                         /\ ackPend[u] \in Nat
  BY BoundAssumption DEF TypeOK
<1>3. \A s \in Seqs : s \in Nat
  BY BoundAssumption DEF Seqs
\* A tombstone stays, or lies in the settled prefix; so does what was settled.
<1>4. \A u \in Targets, s \in Seqs : <<u, s>> \in durAborted \/ s <= durSettled[u] =>
         <<u, s>> \in durAborted' \/ s <= durSettled'[u]
  BY <1>1, <1>2, <1>3
<1>5. InFlight'
  BY <1>0 DEF PrefixInv, InFlight
<1>6. Resolved'
  <2>1. ASSUME rpc = "finish", NEW sl \in claimed
        PROVE  sl \in durAborted' \/ sl[1] \in deleted \/ sl[2] <= durSettled'[sl[1]]
    <3>1. sl \in Slots
      BY DEF TypeOK
    <3>2. PICK u \in Targets, s \in Seqs : sl = <<u, s>>
      BY <3>1
    <3>3. <<u, s>> \in durAborted \/ u \in deleted \/ s <= durSettled[u]
      BY <2>1, <3>2 DEF PrefixInv, Resolved
    <3> QED BY <1>4, <3>2, <3>3
  <2>2. ASSUME up, NEW u \in Targets \ deleted
        PROVE  /\ published[u] <= allocated[u]
               /\ \A s \in Seqs : recovered[u] < s /\ s <= allocated[u] =>
                     \/ <<u, s>> \in inflight \/ row[<<u, s>>] # NoReq
                     \/ <<u, s>> \in durAborted' \/ s <= durSettled'[u]
    BY <1>4, <2>2 DEF PrefixInv, Resolved
  <2> QED BY <1>0, <2>1, <2>2 DEF PrefixInv, Resolved
<1>7. Ordered'
  <2> SUFFICES ASSUME NEW u \in Targets, u \notin deleted
               PROVE  /\ committed[u] <= durSettled'[u] /\ ackPend'[u] <= durSettled'[u]
                      /\ durSettled'[u] <= published[u]
                      /\ \A s \in Seqs : s <= durSettled'[u] /\ row[<<u, s>>] # NoReq =>
                            <<u, s>> \in acked'
    BY <1>0 DEF PrefixInv, Ordered
  <2>1. /\ committed[u] <= durSettled[u] /\ ackPend[u] <= durSettled[u]
        /\ durSettled[u] <= published[u]
        /\ \A s \in Seqs : s <= durSettled[u] /\ row[<<u, s>>] # NoReq => <<u, s>> \in acked
    BY DEF PrefixInv, Ordered
  <2> QED BY <1>1, <1>2, <2>1
<1>8. Shaped'
  BY <1>0 DEF PrefixInv, Shaped
<1> QED BY <1>5, <1>6, <1>7, <1>8 DEF PrefixInv

LEMMA CommitSettledPrefix ==
    ASSUME TypeOK, TypeOK', PrefixInv, NEW t \in Targets, CommitSettled(t) \/ RetireTarget(t)
    PROVE  PrefixInv'
<1>0. /\ UNCHANGED <<allocated, published, inflight, dstate, up, recovered, rpc, claimed, pc, mine,
                     verdict, row, acked, durIssued, durAborted, durSettled, deleted>>
  BY DEF CommitSettled, RetireTarget, process, resolver, request, durable
<1>1. CASE CommitSettled(t)
  <2>1. /\ UNCHANGED retired
        /\ committed' = [committed EXCEPT ![t] = Larger(@, ackPend[t])]
        /\ ackPend' = [ackPend EXCEPT ![t] = 0]
    BY <1>1 DEF CommitSettled
  <2>2. ASSUME NEW u \in Targets, u \notin deleted
        PROVE  committed'[u] <= durSettled[u] /\ ackPend'[u] <= durSettled[u]
    <3>1. committed[u] <= durSettled[u] /\ ackPend[u] <= durSettled[u]
      BY <2>2 DEF PrefixInv, Ordered
    <3>2. /\ committed \in [Targets -> 0..MaxSeq] /\ ackPend \in [Targets -> 0..MaxSeq]
          /\ durSettled \in [Targets -> 0..MaxSeq]
      BY DEF TypeOK
    <3> QED BY <2>1, <3>1, <3>2, BoundAssumption DEF Larger
  <2>3. InFlight' /\ Resolved'
    BY <1>0, <2>1 DEF PrefixInv, InFlight, Resolved
  <2>4. Ordered' /\ Shaped'
    BY <1>0, <2>2 DEF PrefixInv, Ordered, Shaped
  <2> QED BY <2>3, <2>4 DEF PrefixInv
<1>2. CASE RetireTarget(t)
  <2>1. SeqsOf(inflight, t) = {} /\ retired' = retired \cup {t} /\ UNCHANGED <<committed, ackPend>>
    BY <1>2 DEF RetireTarget
  <2>2. \A s \in Seqs : <<t, s>> \notin inflight
    BY <2>1 DEF SeqsOf
  <2>3. InFlight'
    BY <1>0, <2>1, <2>2 DEF PrefixInv, InFlight
  <2>4. Resolved' /\ Ordered' /\ Shaped'
    BY <1>0, <2>1 DEF PrefixInv, Resolved, Ordered, Shaped
  <2> QED BY <2>3, <2>4 DEF PrefixInv
<1> QED BY <1>1, <1>2

\* Deletion erases an inbox with nothing in flight.
LEMMA DeletePrefix ==
    ASSUME TypeOK, TypeOK', PrefixInv, NEW t \in Targets, DeleteTarget(t) \/ DeleteFails(t)
    PROVE  PrefixInv'
<1>0. /\ t \in retired /\ retired' \subseteq retired
      /\ UNCHANGED <<allocated, published, committed, inflight, dstate, up, recovered, rpc, claimed,
                     pc, mine, verdict, ackPend>>
      /\ EraseTarget(t) \/ UNCHANGED durable
  BY DEF DeleteTarget, DeleteFails, registry, process, resolver, request
<1>1. CASE UNCHANGED durable
  <2>1. UNCHANGED <<row, acked, durIssued, durAborted, durSettled, deleted>>
    BY <1>1 DEF durable
  <2>2. InFlight'
    BY <1>0, <2>1 DEF PrefixInv, InFlight
  <2>3. Resolved' /\ Ordered' /\ Shaped'
    BY <1>0, <2>1 DEF PrefixInv, Resolved, Ordered, Shaped
  <2> QED BY <2>2, <2>3 DEF PrefixInv
<1>2. CASE EraseTarget(t)
  <2>1. /\ deleted' = deleted \cup {t}
        /\ \A x \in Slots : x[1] # t => row'[x] = row[x]
        /\ acked' = {x \in acked : x[1] # t}
        /\ durAborted' = {x \in durAborted : x[1] # t}
        /\ \A u \in Targets : u # t => durIssued'[u] = durIssued[u] /\ durSettled'[u] = durSettled[u]
    BY <1>2 DEF EraseTarget, TypeOK
  <2>2. \A u \in Targets, s \in Seqs : u # t =>
           /\ row'[<<u, s>>] = row[<<u, s>>]
           /\ <<u, s>> \in acked => <<u, s>> \in acked'
           /\ <<u, s>> \in durAborted => <<u, s>> \in durAborted'
    BY <2>1
  <2>3. InFlight'
    BY <1>0, <2>1 DEF PrefixInv, InFlight
  <2>4. Resolved'
    <3>1. ASSUME NEW sl \in Slots, dstate[sl] = "Accepted"
          PROVE  row'[sl] # NoReq \/ sl[1] \in deleted'
      BY <2>1, <3>1 DEF PrefixInv, Resolved
    <3>2. ASSUME rpc = "finish", NEW sl \in claimed
          PROVE  sl \in durAborted' \/ sl[1] \in deleted' \/ sl[2] <= durSettled'[sl[1]]
      <4>1. sl \in Slots
        BY DEF TypeOK
      <4>2. sl \in durAborted \/ sl[1] \in deleted \/ sl[2] <= durSettled[sl[1]]
        BY <3>2 DEF PrefixInv, Resolved
      <4> QED BY <2>1, <4>1, <4>2
    <3>3. ASSUME up, NEW u \in Targets \ deleted'
          PROVE  /\ published[u] <= allocated[u]
                 /\ \A s \in Seqs : recovered[u] < s /\ s <= allocated[u] =>
                       \/ <<u, s>> \in inflight \/ row'[<<u, s>>] # NoReq
                       \/ <<u, s>> \in durAborted' \/ s <= durSettled'[u]
      BY <2>1, <2>2, <3>3 DEF PrefixInv, Resolved
    <3> QED BY <1>0, <3>1, <3>2, <3>3 DEF Resolved
  <2>5. Ordered'
    BY <1>0, <2>1, <2>2 DEF PrefixInv, Ordered
  <2>6. Shaped'
    BY <1>0 DEF PrefixInv, Shaped
  <2> QED BY <2>3, <2>4, <2>5, <2>6 DEF PrefixInv
<1> QED BY <1>0, <1>1, <1>2

-----------------------------------------------------------------------------
(* The process.                                                            *)

\* A restart publishes what was issued; nothing is in flight then.
LEMMA ProcessPrefix ==
    ASSUME TypeOK, TypeOK', PrefixInv, Abort \/ Exit \/ Crash \/ Restart
    PROVE  PrefixInv'
<1>1. CASE Abort \/ Exit \/ Crash
  <2>1. /\ up' = FALSE /\ inflight' = {} /\ claimed' = {}
        /\ dstate' = [sl \in Slots |-> "none"]
        /\ pc' = [r \in Requests |-> IF pc[r] \in Live THEN "lost" ELSE pc[r]]
        /\ ackPend' = [t \in Targets |-> 0]
        /\ UNCHANGED <<published, committed, recovered, row, acked, durIssued, durAborted, durSettled,
                       deleted>>
    BY <1>1 DEF Abort, Exit, Crash, Die, durable
  <2>2. InFlight'
    BY <2>1 DEF InFlight, Undecided
  <2>3. Resolved'
    BY <2>1 DEF Resolved
  <2>4. Ordered'
    <3>1. \A t \in Targets : ackPend'[t] = 0 /\ 0 <= durSettled[t]
      BY <2>1, BoundAssumption DEF TypeOK
    <3> QED BY <2>1, <3>1 DEF PrefixInv, Ordered
  <2>5. Shaped'
    BY <2>1 DEF Shaped, Live
  <2> QED BY <2>2, <2>3, <2>4, <2>5 DEF PrefixInv
<1>2. CASE Restart
  <2>1. /\ ~up /\ allocated' = durIssued /\ published' = durIssued /\ committed' = durSettled
        /\ recovered' = durIssued
        /\ UNCHANGED <<inflight, dstate, retired, rpc, claimed, pc, mine, verdict, ackPend, row, acked,
                       durIssued, durAborted, durSettled, deleted>>
    BY <1>2 DEF Restart, resolver, request, durable
  <2>2. \A t \in Targets : durIssued[t] \in Nat /\ durSettled[t] \in Nat
    BY BoundAssumption DEF TypeOK
  <2>3. inflight = {}
    BY <2>1 DEF PrefixInv, InFlight
  <2>4. InFlight'
    BY <2>1, <2>3 DEF PrefixInv, InFlight
  <2>5. Resolved'
    <3>1. \A t \in Targets, s \in Seqs : ~(durIssued[t] < s /\ s <= durIssued[t])
      BY <2>2, BoundAssumption DEF Seqs
    <3>2. \A t \in Targets : durIssued[t] <= durIssued[t]
      BY <2>2
    <3> QED BY <2>1, <3>1, <3>2 DEF PrefixInv, Resolved
  <2>6. Ordered'
    <3> SUFFICES ASSUME NEW t \in Targets, t \notin deleted
                 PROVE  /\ durSettled[t] <= durSettled[t] /\ durIssued[t] <= durIssued[t]
                        /\ durSettled[t] <= durIssued[t]
      BY <2>1 DEF PrefixInv, Ordered
    <3>1. durSettled[t] <= published[t] /\ published[t] <= durIssued[t] /\ published[t] \in Nat
      BY BoundAssumption DEF PrefixInv, Ordered, TypeOK
    <3> QED BY <2>2, <3>1
  <2>7. Shaped'
    BY <2>1 DEF PrefixInv, Shaped
  <2> QED BY <2>4, <2>5, <2>6, <2>7 DEF PrefixInv
<1> QED BY <1>1, <1>2

LEMMA NextPrefixInv ==
    ASSUME TypeOK, TypeOK', RaceInv, PrefixInv, [Next]_vars
    PROVE  PrefixInv'
<1>1. CASE UNCHANGED vars
  <2>1. InFlight' /\ Resolved'
    BY <1>1 DEF PrefixInv, InFlight, Resolved, vars, registry, process, resolver, durable
  <2>2. Ordered' /\ Shaped'
    BY <1>1 DEF PrefixInv, Ordered, Shaped, vars, registry, process, request, durable
  <2> QED BY <2>1, <2>2 DEF PrefixInv
<1>2. ASSUME NEW r \in Requests, Reserve(r) \/ Panic(r) \/ Cancel(r) \/ RequestRuns(r)
      PROVE  PrefixInv'
  <2>1. CASE Reserve(r)
    BY <2>1, ReservePrefix
  <2>2. CASE \E sl \in Slots : FinishAccepted(r, sl)
    BY <2>2, FinishAcceptedPrefix
  <2>3. CASE Panic(r) \/ Cancel(r) \/ (RequestRuns(r) /\ ~\E sl \in Slots : FinishAccepted(r, sl))
    <3>1. Shaped'
      BY <2>3, RequestShaped DEF PrefixInv
    <3>2. Calm
      BY <2>3, RequestCalm DEF RequestRuns
    <3> QED BY <3>1, <3>2, CalmKeeps
  <2> QED BY <1>2, <2>1, <2>2, <2>3
<1>3. CASE ResolverRuns \/ Shutdown \/ \E t \in Targets : RetireCommit(t)
  <2>1. CASE \E sl \in Slots : ResolverFinish(sl)
    BY <2>1, ResolverFinishPrefix
  <2>2. CASE ~\E sl \in Slots : ResolverFinish(sl)
    <3>1. Calm /\ UNCHANGED <<pc, mine, verdict>>
      BY <1>3, <2>2, ResolverCalm DEF ResolverRuns
    <3>2. Shaped'
      BY <3>1 DEF PrefixInv, Shaped
    <3> QED BY <3>1, <3>2, CalmKeeps
  <2> QED BY <2>1, <2>2
<1>4. ASSUME NEW t \in Targets,
             \/ \E S \in SUBSET Seqs : Acknowledge(t, S)
             \/ CommitSettled(t)
             \/ \E i \in 0..MaxSeq : Register(t, i)
             \/ RetireTarget(t) \/ DeleteTarget(t) \/ DeleteFails(t)
      PROVE  PrefixInv'
  BY <1>4, AcknowledgePrefix, CommitSettledPrefix, RegisterPrefix, DeletePrefix
<1>5. CASE Abort \/ Exit \/ Crash \/ Restart
  BY <1>5, ProcessPrefix
<1> QED BY <1>1, <1>2, <1>3, <1>4, <1>5 DEF Next

LEMMA PrefixInvariant == Spec => []PrefixInv
<1>1. Init => PrefixInv
  BY InitPrefixInv
<1>2. TypeOK /\ TypeOK' /\ RaceInv /\ PrefixInv /\ [Next]_vars => PrefixInv'
  BY NextPrefixInv
<1> QED BY <1>1, <1>2, RaceInvariant, PTL DEF Spec

-----------------------------------------------------------------------------
\* A running store publishes nothing that is still in flight, and every sequence
\* it assigned below the watermark is a row, a tombstone or settled.
THEOREM PrefixIsExplained == Spec => []PrefixExplained
<1>1. TypeOK /\ PrefixInv => PrefixExplained
  <2> SUFFICES ASSUME TypeOK, PrefixInv, up, NEW t \in Targets \ (deleted \cup retired),
                      NEW s \in 1..published[t]
               PROVE  /\ <<t, s>> \notin inflight
                      /\ s > recovered[t] =>
                            row[<<t, s>>] # NoReq \/ <<t, s>> \in durAborted \/ s <= durSettled[t]
    BY DEF PrefixExplained
  <2>1. published[t] \in 0..MaxSeq /\ allocated[t] \in 0..MaxSeq /\ recovered[t] \in 0..MaxSeq
    BY DEF TypeOK
  <2>2. s \in Seqs /\ s <= published[t] /\ s \in Nat
    BY <2>1, BoundAssumption DEF Seqs
  <2>3. published[t] <= allocated[t]
    BY DEF PrefixInv, Resolved
  <2>4. s <= allocated[t]
    BY <2>1, <2>2, <2>3, BoundAssumption
  <2>5. <<t, s>> \notin inflight
    <3>1. <<t, s>> \in inflight => published[t] < s
      BY <2>2 DEF PrefixInv, InFlight
    <3>2. published[t] \in Nat
      BY <2>1, BoundAssumption
    <3> QED BY <2>2, <3>1, <3>2
  <2>6. ASSUME s > recovered[t]
        PROVE  row[<<t, s>>] # NoReq \/ <<t, s>> \in durAborted \/ s <= durSettled[t]
    <3>1. recovered[t] < s
      BY <2>1, <2>2, <2>6, BoundAssumption
    <3> QED BY <2>2, <2>4, <2>5, <3>1 DEF PrefixInv, Resolved
  <2> QED BY <2>5, <2>6
<1> QED BY <1>1, TypeCorrect, PrefixInvariant, PTL

\* Nothing unacknowledged is settled, nothing is settled that was not issued, and the
\* registry never runs ahead of storage: through every crash, acknowledgement and
\* restart.
THEOREM SettledRetired == Spec => []SettledIsRetired
<1>1. TypeOK /\ PrefixInv => SettledIsRetired
  <2> SUFFICES ASSUME TypeOK, PrefixInv, NEW t \in Targets \ deleted
               PROVE  /\ committed[t] <= durSettled[t] /\ durSettled[t] <= durIssued[t]
                      /\ \A s \in 1..durSettled[t] : row[<<t, s>>] # NoReq => <<t, s>> \in acked
    BY DEF SettledIsRetired
  <2>1. durSettled[t] \in 0..MaxSeq /\ published[t] \in 0..MaxSeq /\ durIssued[t] \in 0..MaxSeq
    BY DEF TypeOK
  <2>2. /\ committed[t] <= durSettled[t] /\ durSettled[t] <= published[t]
        /\ published[t] <= durIssued[t]
        /\ \A s \in Seqs : s <= durSettled[t] /\ row[<<t, s>>] # NoReq => <<t, s>> \in acked
    BY DEF PrefixInv, Ordered
  <2>3. durSettled[t] <= durIssued[t]
    BY <2>1, <2>2, BoundAssumption
  <2>4. \A s \in 1..durSettled[t] : s \in Seqs /\ s <= durSettled[t]
    BY <2>1, BoundAssumption DEF Seqs
  <2> QED BY <2>2, <2>3, <2>4
<1> QED BY <1>1, TypeCorrect, PrefixInvariant, PTL

-----------------------------------------------------------------------------
(* Publication implements InboxContract.                                   *)

\* What the senders were told.
Told == [r \in Requests |-> IF pc[r] = "replied" THEN verdict[r] ELSE "none"]

\* Only Reply tells anybody anything, and nothing said is taken back.
LEMMA ToldKept ==
    ASSUME \A r \in Requests : /\ pc'[r] = "replied" <=> pc[r] = "replied"
                               /\ pc[r] = "replied" => verdict'[r] = verdict[r]
    PROVE  Told' = Told
BY DEF Told

LEMMA OthersTellNothing ==
    ASSUME TypeOK, NEW r \in Requests, Reserve(r) \/ Panic(r) \/ Cancel(r) \/ RequestRuns(r), ~Reply(r)
    PROVE  Told' = Told
<1> USE DEF TypeOK
<1>1. CASE Reserve(r) \/ Panic(r) \/ Cancel(r) \/ Refuse(r) \/ Write(r)
  BY <1>1, ToldKept DEF Reserve, Panic, Cancel, Refuse, Write
<1>2. CASE WriteFails(r) \/ \E sl \in Slots : HandOffLost(r, sl)
  <2>1. pc[r] \in {"writing", "prepared"} /\ \E ds, f : AfterStoreError(r, ds, f)
    BY <1>2 DEF WriteFails, HandOffLost
  <2> QED BY <2>1, ToldKept DEF AfterStoreError
<1>3. ASSUME NEW sl \in Slots, HandOff(r, sl) PROVE Told' = Told
  <2>1. pc[r] = "prepared" /\ verdict' = verdict
    BY <1>3 DEF HandOff
  <2>2. pc'[r] # "replied" /\ \A q \in Requests : q # r => pc'[q] = pc[q]
    BY <1>3 DEF HandOff
  <2> QED BY <2>1, <2>2, ToldKept
<1>4. ASSUME NEW sl \in Slots, Accept(r, sl) \/ FinishAccepted(r, sl) \/ DefiniteNonWrite(r, sl)
      PROVE  Told' = Told
  <2>1. /\ pc[r] \in {"accepting", "capturing"}
        /\ \/ UNCHANGED <<pc, verdict>>
           \/ \E v : DoneWith(r, sl, v)
    BY <1>4 DEF Accept, FinishAccepted, DefiniteNonWrite
  <2>2. /\ \A q \in Requests : q # r => pc'[q] = pc[q] /\ verdict'[q] = verdict[q]
        /\ pc'[r] \in {pc[r], "awaiting"}
    BY <2>1 DEF DoneWith
  <2> QED BY <2>1, <2>2, ToldKept
<1> QED BY <1>1, <1>2, <1>3, <1>4 DEF RequestRuns

\* The rows of a submission appear in one step, one in each of its inboxes, above
\* the prefix.
LEMMA StoreFills ==
    ASSUME TypeOK, RaceInv, PrefixInv, NEW r \in Requests, pc[r] = "writing", StoreRows(r),
           UNCHANGED <<published, acked, deleted>>, Told' = Told
    PROVE  Contract!Fill(r)
<1>1. PICK at \in [Batch[r] -> Seqs] : mine[r] = {<<t, at[t]>> : t \in Batch[r]}
  BY DEF PrefixInv, Shaped, Live
<1>2. \A sl \in mine[r] : sl \in Slots /\ row[sl] = NoReq /\ dstate[sl] = "HandedOff"
  BY DEF RaceInv, Ownership, TypeOK
<1>3. \A sl \in mine[r] : sl \in inflight
  BY <1>2 DEF PrefixInv, InFlight, Undecided
<1>4. ASSUME NEW t \in Batch[r]
      PROVE  t \notin deleted /\ at[t] > published[t] /\ row[<<t, at[t]>>] = NoReq
  <2>1. <<t, at[t]>> \in mine[r] /\ at[t] \in Seqs /\ t \in Targets
    BY <1>1, BatchAssumption
  <2>2. t \notin deleted /\ published[t] < at[t]
    BY <1>3, <2>1 DEF PrefixInv, InFlight
  <2>3. published[t] \in Nat /\ at[t] \in Nat
    BY <2>1, BoundAssumption DEF TypeOK, Seqs
  <2> QED BY <1>2, <2>1, <2>2, <2>3
<1>5. \A sl \in Slots : sl \in mine[r] <=> sl[1] \in Batch[r] /\ sl[2] = at[sl[1]]
  <2> SUFFICES ASSUME NEW sl \in Slots
               PROVE  sl \in mine[r] <=> sl[1] \in Batch[r] /\ sl[2] = at[sl[1]]
    OBVIOUS
  <2>1. sl = <<sl[1], sl[2]>>
    OBVIOUS
  <2> QED BY <1>1, <2>1
<1>6. row' = [sl \in Slots |-> IF sl \in mine[r] THEN r ELSE row[sl]]
  BY DEF StoreRows
<1>7. row' = [sl \in Slots |-> IF sl[1] \in Batch[r] /\ sl[2] = at[sl[1]] THEN r ELSE row[sl]]
  BY <1>5, <1>6
<1>8. \A sl \in Slots : row[sl] # r
  BY DEF RaceInv, Answers
<1>9. Contract!StoredAt(r) = {}
  BY <1>8 DEF Contract!StoredAt, Contract!Sequences, Seqs
<1>10. Told[r] = "none"
  BY DEF Told
<1> QED BY <1>1, <1>4, <1>7, <1>9, <1>10 DEF Contract!Fill, Contract!Sequences, Told, Seqs

\* An answer is the truth when it is given.
LEMMA ReplyAnswers ==
    ASSUME TypeOK, RaceInv, PrefixInv, NEW r \in Requests, Reply(r)
    PROVE  \E what \in {"accepted", "aborted", "error"} : Contract!Answer(r, what)
<1>1. /\ pc[r] = "awaiting" /\ pc' = [pc EXCEPT ![r] = "replied"]
      /\ UNCHANGED <<published, row, acked, deleted, verdict>>
  BY DEF Reply, registry, durable
<1>2. verdict[r] \in {"accepted", "aborted", "error"}
  BY <1>1 DEF PrefixInv, Shaped, TypeOK
<1>3. Told[r] = "none" /\ Told' = [Told EXCEPT ![r] = verdict[r]]
  BY <1>1 DEF Told, TypeOK
<1>4. ASSUME verdict[r] = "accepted", NEW t \in Batch[r]
      PROVE  t \in deleted \/ \E sl \in Contract!StoredAt(r) : sl[1] = t
  <2>1. PICK at \in [Batch[r] -> Seqs] : mine[r] = {<<u, at[u]>> : u \in Batch[r]}
    BY <1>1 DEF PrefixInv, Shaped, Live
  <2>2. <<t, at[t]>> \in mine[r] /\ <<t, at[t]>> \in Slots
    BY <2>1, BatchAssumption
  <2>3. row[<<t, at[t]>>] = r \/ t \in deleted
    BY <1>4, <2>2 DEF RaceInv, Answers
  <2>4. row[<<t, at[t]>>] = r => <<t, at[t]>> \in Contract!StoredAt(r)
    BY <2>2 DEF Contract!StoredAt, Contract!Sequences, Seqs
  <2> QED BY <2>3, <2>4
<1>5. verdict[r] = "aborted" => Contract!StoredAt(r) = {}
  BY DEF RaceInv, Answers, Contract!StoredAt, Contract!Sequences, Seqs
<1>6. PICK what \in {"accepted", "aborted", "error"} : what = verdict[r]
  BY <1>2
<1>7. Contract!Answer(r, what)
  BY <1>1, <1>3, <1>4, <1>5, <1>6 DEF Contract!Answer, Told
<1> QED BY <1>7

\* The watermark of an inbox never moves back, across crash and restart.
LEMMA PrefixGrows ==
    ASSUME TypeOK, TypeOK', PrefixInv, RaceInv,
           \/ \E r \in Requests, sl \in Slots : FinishAccepted(r, sl)
           \/ \E sl \in Slots : ResolverFinish(sl)
           \/ \E t \in Targets, i \in 0..MaxSeq : Register(t, i)
           \/ Restart
    PROVE  \A t \in Targets \ deleted : published'[t] >= published[t]
<1>0. \A t \in Targets : /\ published[t] \in Nat /\ published'[t] \in Nat /\ allocated[t] \in Nat
                         /\ durIssued[t] \in Nat
  BY BoundAssumption DEF TypeOK
<1>1. CASE Restart
  <2>1. \A t \in Targets \ deleted : published'[t] = durIssued[t] /\ published[t] <= durIssued[t]
    BY <1>1 DEF Restart, PrefixInv, Ordered
  <2> QED BY <1>0, <2>1
<1>2. ASSUME NEW u \in Targets, NEW i \in 0..MaxSeq, Register(u, i)
      PROVE  \A t \in Targets \ deleted : published'[t] >= published[t]
  <2>1. up /\ u \notin deleted
    BY <1>2 DEF Register
  <2>2. published[u] <= allocated[u]
    BY <2>1 DEF PrefixInv, Resolved
  <2>3. allocated'[u] >= allocated[u] /\ allocated'[u] \in Nat
    <3>1. allocated' = [allocated EXCEPT ![u] = Larger(@, i)] /\ allocated \in [Targets -> 0..MaxSeq]
      BY <1>2 DEF Register, TypeOK
    <3> QED BY <3>1, BoundAssumption DEF Larger
  <2>4. published' = [published EXCEPT ![u] = allocated'[u]] \/ published' = published
    BY <1>2 DEF Register
  <2>5. published \in [Targets -> 0..MaxSeq]
    BY DEF TypeOK
  <2>6. CASE published' = published
    BY <1>0, <2>6
  <2>7. CASE published' = [published EXCEPT ![u] = allocated'[u]]
    <3>1. published'[u] = allocated'[u] /\ \A t \in Targets : t # u => published'[t] = published[t]
      BY <2>5, <2>7
    <3> QED BY <1>0, <2>2, <2>3, <3>1
  <2> QED BY <2>4, <2>6, <2>7
<1>3. ASSUME NEW sl \in Slots, up, UNCHANGED allocated, Finish(sl, TRUE) \/ Finish(sl, FALSE)
      PROVE  \A t \in Targets \ deleted : published'[t] >= published[t]
  <2>1. CASE published' = published
    BY <1>0, <2>1
  <2>2. CASE published' # published
    <3>1. PICK u \in Targets : u = sl[1]
      OBVIOUS
    <3>2. PICK S : S = inflight \ {sl}
      OBVIOUS
    <3>3. PICK p : p = PrefixOf(S, u, allocated[u])
      OBVIOUS
    <3>4. published' = [published EXCEPT ![u] = p]
      BY <1>3, <2>2, <3>1, <3>2, <3>3 DEF Finish
    <3>5. published \in [Targets -> 0..MaxSeq] /\ allocated[u] \in 0..MaxSeq
      BY DEF TypeOK
    <3>6. published'[u] = p /\ \A t \in Targets : t # u => published'[t] = published[t]
      BY <3>4, <3>5
    <3>7. /\ p \in 0..MaxSeq
          /\ \A s \in Seqs : <<u, s>> \in S => p < s
          /\ SeqsOf(S, u) = {} => p = allocated[u]
          /\ \A s \in Seqs : (s > p /\ SeqsOf(S, u) # {}) => \E x \in SeqsOf(S, u) : x = p + 1
      BY <3>3, <3>5, PrefixOfProperties
    <3>8. u \notin deleted => published[u] <= p
      <4> SUFFICES ASSUME u \notin deleted PROVE published[u] <= p
        OBVIOUS
      <4>1. CASE SeqsOf(S, u) = {}
        BY <1>3, <3>7, <4>1 DEF PrefixInv, Resolved
      <4>2. CASE SeqsOf(S, u) # {}
        <5>1. PICK y \in SeqsOf(S, u) : TRUE
          BY <4>2
        <5>2. y \in Seqs /\ <<u, y>> \in S /\ y \in Nat
          BY BoundAssumption DEF SeqsOf, Seqs
        <5>3. p < y /\ p \in 0..MaxSeq
          BY <3>7, <5>2
        <5>4. y > p
          BY <5>2, <5>3, BoundAssumption
        <5>5. PICK x \in SeqsOf(S, u) : x = p + 1
          BY <3>7, <4>2, <5>2, <5>4
        <5>6. x \in Seqs /\ <<u, x>> \in inflight
          BY <3>2, <5>5 DEF SeqsOf
        <5>7. published[u] < x
          BY <5>6 DEF PrefixInv, InFlight
        <5> QED BY <1>0, <5>3, <5>5, <5>7, BoundAssumption
      <4> QED BY <4>1, <4>2
    <3> QED BY <1>0, <3>6, <3>7, <3>8, BoundAssumption
  <2> QED BY <2>1, <2>2
<1>4. ASSUME NEW r \in Requests, NEW sl \in Slots, FinishAccepted(r, sl)
      PROVE  \A t \in Targets \ deleted : published'[t] >= published[t]
  BY <1>3, <1>4 DEF FinishAccepted
<1>5. ASSUME NEW sl \in Slots, ResolverFinish(sl)
      PROVE  \A t \in Targets \ deleted : published'[t] >= published[t]
  BY <1>3, <1>5 DEF ResolverFinish
<1> QED BY <1>1, <1>2, <1>4, <1>5

\* Every step is a step of the contract, or changes nothing it speaks of.
LEMMA StepKeepsContract ==
    ASSUME TypeOK, TypeOK', RaceInv, PrefixInv, [Next]_vars
    PROVE  [Contract!ContractNext]_(Contract!contractVars)
<1> DEFINE Stutter == UNCHANGED <<published, row, acked, deleted>> /\ Told' = Told
           Goal == [Contract!ContractNext]_(Contract!contractVars)
<1>0. Stutter => Goal
  BY DEF Contract!contractVars, Told
<1>1. CASE UNCHANGED vars
  <2>1. UNCHANGED <<published, row, acked, deleted, pc, verdict>>
    BY <1>1 DEF vars, registry, request, durable
  <2> QED BY <1>0, <2>1, ToldKept
<1>2. ASSUME NEW r \in Requests, Reserve(r) \/ Panic(r) \/ Cancel(r) \/ RequestRuns(r)
      PROVE  Goal
  <2>1. CASE Reply(r)
    BY <2>1, ReplyAnswers DEF Contract!ContractNext
  <2>2. CASE ~Reply(r)
    <3>1. Told' = Told
      BY <1>2, <2>2, OthersTellNothing
    <3>2. CASE Write(r) \/ WriteFails(r)
      <4>1. /\ pc[r] = "writing" /\ (StoreRows(r) \/ UNCHANGED row)
            /\ UNCHANGED <<published, acked, deleted>>
        BY <3>2 DEF Write, WriteFails, registry
      <4>2. CASE StoreRows(r)
        <5>1. Contract!Fill(r)
          BY <3>1, <3>2, <4>1, <4>2, StoreFills DEF Write, WriteFails
        <5> QED BY <5>1 DEF Contract!ContractNext
      <4>3. CASE UNCHANGED row
        BY <1>0, <3>1, <4>1, <4>3
      <4> QED BY <3>2, <4>2, <4>3 DEF Write, WriteFails
    <3>3. CASE \E sl \in Slots : FinishAccepted(r, sl)
      <4>1. UNCHANGED <<row, acked, deleted>>
        BY <3>3 DEF FinishAccepted, durable
      <4>2. published' \in [Targets -> 0..MaxSeq] /\ \A t \in Targets \ deleted : published'[t] >= published[t]
        BY <3>3, PrefixGrows DEF TypeOK
      <4>3. Contract!Publish
        BY <3>1, <4>1, <4>2 DEF Contract!Publish, Told
      <4> QED BY <4>3 DEF Contract!ContractNext
    <3>4. CASE \/ Reserve(r) \/ Panic(r) \/ Cancel(r) \/ Refuse(r)
               \/ \E sl \in Slots : \/ HandOff(r, sl) \/ HandOffLost(r, sl) \/ Accept(r, sl)
                                    \/ DefiniteNonWrite(r, sl)
      <4>1. UNCHANGED <<published, row, acked, deleted>>
        BY <3>4 DEF Reserve, Panic, Cancel, Refuse, HandOff, HandOffLost, Accept, DefiniteNonWrite,
                    registry, durable
      <4> QED BY <1>0, <3>1, <4>1
    <3> QED BY <1>2, <2>2, <3>2, <3>3, <3>4 DEF RequestRuns
  <2> QED BY <2>1, <2>2
<1>3. CASE ResolverRuns \/ Shutdown \/ \E t \in Targets : CommitSettled(t) \/ RetireTarget(t) \/ RetireCommit(t)
  <2>1. UNCHANGED <<row, acked, deleted, pc, verdict>>
    BY <1>3 DEF ResolverRuns, ResolverScan, ResolverAbort, ResolverAbortFails, ResolverEnd,
                ResolverLoad, ResolverFinish, ResolverClaim, Shutdown, CommitSettled, RetireTarget,
                RetireCommit, request, durable
  <2>2. Told' = Told
    BY <2>1, ToldKept
  <2>3. CASE \E sl \in Slots : ResolverFinish(sl)
    <3>1. published' \in [Targets -> 0..MaxSeq] /\ \A t \in Targets \ deleted : published'[t] >= published[t]
      BY <2>3, PrefixGrows DEF TypeOK
    <3>2. Contract!Publish
      BY <2>1, <2>2, <3>1 DEF Contract!Publish, Told
    <3> QED BY <3>2 DEF Contract!ContractNext
  <2>4. CASE ~\E sl \in Slots : ResolverFinish(sl)
    <3>1. UNCHANGED published
      BY <1>3, <2>4 DEF ResolverRuns, ResolverScan, ResolverAbort, ResolverAbortFails, ResolverEnd,
                ResolverLoad, ResolverClaim, Shutdown, CommitSettled, RetireTarget, RetireCommit, registry
    <3> QED BY <1>0, <2>1, <2>2, <3>1
  <2> QED BY <2>3, <2>4
<1>4. ASSUME NEW t \in Targets, \E i \in 0..MaxSeq : Register(t, i) PROVE Goal
  <2>1. UNCHANGED <<row, acked, deleted, pc, verdict>>
    BY <1>4 DEF Register, request, durable
  <2>2. Told' = Told
    BY <2>1, ToldKept
  <2>3. published' \in [Targets -> 0..MaxSeq] /\ \A u \in Targets \ deleted : published'[u] >= published[u]
    BY <1>4, PrefixGrows DEF TypeOK
  <2>4. Contract!Publish
    BY <2>1, <2>2, <2>3 DEF Contract!Publish, Told
  <2> QED BY <2>4 DEF Contract!ContractNext
<1>5. ASSUME NEW t \in Targets, NEW S \in SUBSET Seqs, Acknowledge(t, S) PROVE Goal
  <2>1. /\ UNCHANGED <<published, row, deleted, pc, verdict>>
        /\ S \subseteq Visible(t) /\ acked' = acked \cup {<<t, s>> : s \in S}
    BY <1>5 DEF Acknowledge, registry, request
  <2>2. Told' = Told
    BY <2>1, ToldKept
  <2>3. published[t] \in 0..MaxSeq
    BY DEF TypeOK
  <2>4. ASSUME NEW s \in S PROVE s \in 1..published[t] /\ row[<<t, s>>] # NoReq
    <3>1. s \in Seqs /\ s <= published[t] /\ row[<<t, s>>] # NoReq
      BY <2>1 DEF Visible
    <3> QED BY <2>3, <3>1, BoundAssumption DEF Seqs
  <2>5. Contract!Settle(t)
    BY <2>1, <2>2, <2>4 DEF Contract!Settle, Told
  <2> QED BY <2>5 DEF Contract!ContractNext
<1>6. ASSUME NEW t \in Targets, DeleteTarget(t) \/ DeleteFails(t) PROVE Goal
  <2>1. /\ UNCHANGED <<published, pc, verdict>> /\ t \notin deleted
        /\ EraseTarget(t) \/ UNCHANGED durable
    BY <1>6 DEF DeleteTarget, DeleteFails, registry, request
  <2>2. Told' = Told
    BY <2>1, ToldKept
  <2>3. CASE UNCHANGED durable
    BY <1>0, <2>1, <2>2, <2>3 DEF durable
  <2>4. CASE EraseTarget(t)
    <3>1. Contract!Delete(t)
      BY <2>1, <2>2, <2>4 DEF EraseTarget, Contract!Delete, Contract!Sequences, Told, Seqs
    <3> QED BY <3>1 DEF Contract!ContractNext
  <2> QED BY <2>1, <2>3, <2>4
<1>7. CASE Abort \/ Exit \/ Crash
  <2>1. /\ UNCHANGED <<published, row, acked, deleted, verdict>>
        /\ pc' = [r \in Requests |-> IF pc[r] \in Live THEN "lost" ELSE pc[r]]
    BY <1>7 DEF Abort, Exit, Crash, Die, durable
  <2>2. Told' = Told
    BY <2>1, ToldKept DEF Live
  <2> QED BY <1>0, <2>1, <2>2
<1>8. CASE Restart
  <2>1. UNCHANGED <<row, acked, deleted, pc, verdict>>
    BY <1>8 DEF Restart, request, durable
  <2>2. Told' = Told
    BY <2>1, ToldKept
  <2>3. published' \in [Targets -> 0..MaxSeq] /\ \A u \in Targets \ deleted : published'[u] >= published[u]
    BY <1>8, PrefixGrows DEF TypeOK
  <2>4. Contract!Publish
    BY <2>1, <2>2, <2>3 DEF Contract!Publish, Told
  <2> QED BY <2>4 DEF Contract!ContractNext
<1> QED BY <1>1, <1>2, <1>3, <1>4, <1>5, <1>6, <1>7, <1>8 DEF Next

\* The publication core implements the contract of its inboxes: a reader that caught
\* up with the watermark missed nothing, a fan-out is stored whole or not at all, and
\* what a sender was told stays true until its target is deleted.
THEOREM ContractKept == Spec => KeepsContract
<1>1. Init => Contract!ContractInit
  BY DEF Init, Contract!ContractInit, Contract!Sequences, Seqs
<1>2. TypeOK /\ TypeOK' /\ RaceInv /\ PrefixInv /\ [Next]_vars
         => [Contract!ContractNext]_(Contract!contractVars)
  BY StepKeepsContract
<1> QED BY <1>1, <1>2, RaceInvariant, PrefixInvariant, PTL DEF Spec, KeepsContract, Contract!ContractSpec
=============================================================================
