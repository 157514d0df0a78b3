-------------------------- MODULE PublicationProofs --------------------------
(***************************************************************************)
(* Theorems about Publication, for every set of targets and requests, every*)
(* batch, every capacity and any number of sequences and crashes.          *)
(***************************************************************************)
EXTENDS Publication, WellFoundedInduction, TLAPS

\* A nonempty set of naturals has a least member.
LEMMA LeastNatural ==
    ASSUME NEW S \in SUBSET Nat, S # {}
    PROVE  \E m \in S : \A y \in S : m <= y
<1> DEFINE Less == {ss \in Nat \X Nat : ss[1] < ss[2]}
<1>1. IsWellFoundedOn(Less, Nat)
  BY NatLessThanWellFounded, Zenon DEF OpToRel
<1> HIDE DEF Less
<1>2. \E m \in S : \A y \in S : ~ (<<y, m>> \in Less)
  BY <1>1, WFMin
<1>3. \A x, y \in Nat : <<y, x>> \in Less <=> y < x
  BY DEF Less
<1>4. PICK m \in S : \A y \in S : ~ (<<y, m>> \in Less)
  BY <1>2
<1>5. \A y \in S : ~ (y < m)
  BY <1>3, <1>4
<1> QED BY <1>5

\* A nonempty set of sequences has a least and a greatest member.
LEMMA LeastSeq ==
    ASSUME NEW S \in SUBSET Seqs, S # {}
    PROVE  Min(S) \in S /\ \A x \in S : Min(S) <= x
<1>1. S \in SUBSET Nat
  BY BoundAssumption DEF Seqs
<1>2. \E m \in S : \A y \in S : m <= y
  BY <1>1, LeastNatural
<1> QED BY <1>2 DEF Min

LEMMA GreatestSeq ==
    ASSUME NEW S \in SUBSET Seqs, S # {}
    PROVE  Max(S) \in S /\ \A x \in S : x <= Max(S)
<1> DEFINE D == {d \in Nat : \E x \in S : d = MaxSeq - x}
<1>1. \A x \in S : x \in Nat /\ MaxSeq - x \in D
  BY BoundAssumption DEF Seqs
<1>2. D \in SUBSET Nat /\ D # {}
  BY <1>1
<1>3. PICK d \in D : \A y \in D : d <= y
  BY <1>2, LeastNatural
<1>4. PICK m \in S : d = MaxSeq - m
  OBVIOUS
<1>5. \A y \in S : m >= y
  BY <1>1, <1>3, <1>4, BoundAssumption
<1>6. Max(S) \in S /\ \A y \in S : Max(S) >= y
  BY <1>5 DEF Max
<1> QED BY <1>1, <1>6

\* What PrefixOf returns: the top when nothing is in flight, else just below the
\* first assignment in flight.
LEMMA PrefixOfProperties ==
    ASSUME NEW S, NEW t, NEW top \in 0..MaxSeq
    PROVE  /\ PrefixOf(S, t, top) \in 0..MaxSeq
           /\ \A s \in Seqs : <<t, s>> \in S => PrefixOf(S, t, top) < s
           /\ \A s \in Seqs : (s > PrefixOf(S, t, top) /\ SeqsOf(S, t) # {}) =>
                 \E x \in SeqsOf(S, t) : x = PrefixOf(S, t, top) + 1
           /\ SeqsOf(S, t) = {} => PrefixOf(S, t, top) = top
<1>1. SeqsOf(S, t) \in SUBSET Seqs
  BY DEF SeqsOf
<1>2. CASE SeqsOf(S, t) = {}
  BY <1>2 DEF PrefixOf, SeqsOf
<1>3. CASE SeqsOf(S, t) # {}
  <2>1. Min(SeqsOf(S, t)) \in SeqsOf(S, t) /\ \A x \in SeqsOf(S, t) : Min(SeqsOf(S, t)) <= x
    BY <1>1, <1>3, LeastSeq
  <2>2. PrefixOf(S, t, top) = Min(SeqsOf(S, t)) - 1
    BY <1>3 DEF PrefixOf
  <2>3. \A s \in Seqs : <<t, s>> \in S => s \in SeqsOf(S, t)
    BY DEF SeqsOf
  <2> HIDE DEF PrefixOf
  <2> QED BY <1>1, <1>3, <2>1, <2>2, <2>3, BoundAssumption DEF Seqs
<1> QED BY <1>2, <1>3

\* The issued counter stored with a set of assignments bounds all of them.
LEMMA IssuedWithProperties ==
    ASSUME NEW S, durIssued \in [Targets -> 0..MaxSeq]
    PROVE  /\ IssuedWith(S) \in [Targets -> 0..MaxSeq]
           /\ \A t \in Targets : IssuedWith(S)[t] >= durIssued[t]
           /\ \A t \in Targets, s \in Seqs : <<t, s>> \in S => IssuedWith(S)[t] >= s
           /\ \A t \in Targets : \/ IssuedWith(S)[t] = durIssued[t]
                                 \/ \E s \in Seqs : <<t, s>> \in S /\ IssuedWith(S)[t] = s
<1> SUFFICES ASSUME NEW t \in Targets
             PROVE  /\ IssuedWith(S)[t] \in 0..MaxSeq
                    /\ IssuedWith(S)[t] >= durIssued[t]
                    /\ \A s \in Seqs : <<t, s>> \in S => IssuedWith(S)[t] >= s
                    /\ \/ IssuedWith(S)[t] = durIssued[t]
                       \/ \E s \in Seqs : <<t, s>> \in S /\ IssuedWith(S)[t] = s
  BY DEF IssuedWith
<1>1. SeqsOf(S, t) \in SUBSET Seqs /\ \A s \in Seqs : <<t, s>> \in S <=> s \in SeqsOf(S, t)
  BY DEF SeqsOf
<1>2. CASE SeqsOf(S, t) = {}
  BY <1>1, <1>2, BoundAssumption DEF IssuedWith
<1>3. CASE SeqsOf(S, t) # {}
  <2>1. Max(SeqsOf(S, t)) \in SeqsOf(S, t) /\ \A x \in SeqsOf(S, t) : x <= Max(SeqsOf(S, t))
    BY <1>1, <1>3, GreatestSeq
  <2>2. IssuedWith(S)[t] = Larger(durIssued[t], Max(SeqsOf(S, t)))
    BY <1>3 DEF IssuedWith
  <2> QED BY <1>1, <2>1, <2>2, BoundAssumption DEF Larger, Seqs
<1> QED BY <1>2, <1>3

-----------------------------------------------------------------------------
USE DEF Slots

\* The types hold initially.
LEMMA InitTypeOK == Init => TypeOK
<1> SUFFICES ASSUME Init PROVE TypeOK
  OBVIOUS
<1>1. [t \in Targets |-> 0] \in [Targets -> 0..MaxSeq] /\ 0 \in 0..MaxCrashes
  BY BoundAssumption
<1>2. allocated \in [Targets -> 0..MaxSeq] /\ published \in [Targets -> 0..MaxSeq]
      /\ committed \in [Targets -> 0..MaxSeq] /\ recovered \in [Targets -> 0..MaxSeq]
      /\ durIssued \in [Targets -> 0..MaxSeq] /\ durSettled \in [Targets -> 0..MaxSeq]
      /\ ackPend \in [Targets -> 0..MaxSeq]
  BY <1>1, Zenon DEF Init
<1> QED BY <1>1, <1>2 DEF Init, TypeOK, Live, Ended, PStates

\* The three variables AfterStoreError sets keep their types.
LEMMA AfterStoreErrorTypeOK ==
    ASSUME TypeOK, NEW r \in Requests, NEW ds, NEW f, AfterStoreError(r, ds, f)
    PROVE  /\ pc' \in [Requests -> {"idle"} \cup Live \cup Ended]
           /\ verdict' \in [Requests -> {"none", "accepted", "aborted", "error"}]
           /\ todo' \in [Requests -> SUBSET Slots]
<1>1. CASE ProvedNonWrite(r, ds, f)
  <2>1. /\ pc' = [pc EXCEPT ![r] = "capturing"] /\ verdict' = [verdict EXCEPT ![r] = "aborted"]
        /\ todo' = [todo EXCEPT ![r] = mine[r]]
    BY <1>1 DEF AfterStoreError
  <2>2. mine[r] \in SUBSET Slots
    BY DEF TypeOK
  <2>3. todo' \in [Requests -> SUBSET Slots]
    BY <2>1, <2>2 DEF TypeOK
  <2> QED BY <2>1, <2>3 DEF TypeOK, Live, Ended
<1>2. CASE ~ProvedNonWrite(r, ds, f)
  BY <1>2 DEF AfterStoreError, TypeOK, Live, Ended
<1> QED BY <1>1, <1>2

\* The three variables DoneWith sets keep their types.
LEMMA DoneWithTypeOK ==
    ASSUME TypeOK, NEW r \in Requests, NEW sl \in Slots,
           NEW v \in {"none", "accepted", "aborted", "error"}, DoneWith(r, sl, v)
    PROVE  /\ pc' \in [Requests -> {"idle"} \cup Live \cup Ended]
           /\ verdict' \in [Requests -> {"none", "accepted", "aborted", "error"}]
           /\ todo' \in [Requests -> SUBSET Slots]
<1>1. CASE todo[r] = {sl}
  <2>1. /\ pc' = [pc EXCEPT ![r] = "awaiting"] /\ verdict' = [verdict EXCEPT ![r] = v]
        /\ todo' = [todo EXCEPT ![r] = @ \ {sl}]
    BY <1>1 DEF DoneWith
  <2>2. todo' \in [Requests -> SUBSET Slots]
    BY <2>1 DEF TypeOK
  <2> QED BY <2>1, <2>2 DEF TypeOK, Live, Ended
<1>2. CASE todo[r] # {sl}
  BY <1>2 DEF DoneWith, TypeOK, Live, Ended
<1> QED BY <1>1, <1>2

\* The types of what one step of a request thread changes.
LEMMA RequestTypeOK ==
    ASSUME TypeOK, NEW r \in Requests,
           Reserve(r) \/ Panic(r) \/ Cancel(r) \/ RequestRuns(r)
    PROVE  TypeOK'
<1> USE BatchAssumption, BoundAssumption DEF TypeOK, Live, Ended, PStates
<1>1. CASE Reserve(r)
  <2> DEFINE new == {<<t, allocated[t] + 1>> : t \in Batch[r]}
  <2>1. \A t \in Batch[r] : t \in Targets /\ allocated[t] + 1 \in Seqs
    BY <1>1 DEF Reserve, HasRoom, Seqs
  <2>2. new \subseteq Slots
    BY <2>1
  <2>3. allocated' \in [Targets -> 0..MaxSeq]
    BY <1>1, <2>1 DEF Reserve, Seqs
  <2> HIDE DEF new
  <2>4. inflight' \subseteq Slots /\ mine' \in [Requests -> SUBSET Slots]
        /\ todo' \in [Requests -> SUBSET Slots]
    BY <1>1, <2>2 DEF Reserve, new
  <2>5. dstate' \in [Slots -> PStates \cup {"none"}]
    BY <1>1 DEF Reserve
  <2> QED BY <1>1, <2>3, <2>4, <2>5 DEF Reserve, process, resolver, durable
<1>2. CASE Panic(r)
  BY <1>2 DEF Panic, registry, process, resolver, durable
<1>3. CASE Cancel(r)
  BY <1>3 DEF Cancel, registry, process, resolver, durable
<1>4. CASE Refuse(r)
  BY <1>4 DEF Refuse, registry, process, resolver, durable
<1>5. CASE Write(r)
  <2>1. durIssued' \in [Targets -> 0..MaxSeq]
    BY <1>5, IssuedWithProperties DEF Write, StoreRows
  <2> QED BY <1>5, <2>1 DEF Write, StoreRows, registry, process, resolver
<1>6. CASE WriteFails(r)
  <2>1. durIssued' \in [Targets -> 0..MaxSeq]
    BY <1>6, IssuedWithProperties DEF WriteFails, StoreRows
  <2>2. row' \in [Slots -> Requests \cup {NoReq}]
    BY <1>6 DEF WriteFails, StoreRows
  <2>3. dstate' \in [Slots -> PStates \cup {"none"}]
    BY <1>6 DEF WriteFails, DropWrites
  <2>4. pc' \in [Requests -> {"idle"} \cup Live \cup Ended]
        /\ verdict' \in [Requests -> {"none", "accepted", "aborted", "error"}]
        /\ todo' \in [Requests -> SUBSET Slots]
    BY <1>6, AfterStoreErrorTypeOK DEF WriteFails
  <2> QED BY <1>6, <2>1, <2>2, <2>3, <2>4 DEF WriteFails, registry, resolver
<1>7. ASSUME NEW sl \in Slots, HandOff(r, sl) PROVE TypeOK'
  BY <1>7 DEF HandOff, registry, process, resolver, durable
<1>8. ASSUME NEW sl \in Slots, HandOffLost(r, sl) PROVE TypeOK'
  <2>1. dstate' \in [Slots -> PStates \cup {"none"}] /\ fenced' \in BOOLEAN
    BY <1>8 DEF HandOffLost, DropWrites
  <2>2. pc' \in [Requests -> {"idle"} \cup Live \cup Ended]
        /\ verdict' \in [Requests -> {"none", "accepted", "aborted", "error"}]
        /\ todo' \in [Requests -> SUBSET Slots]
    BY <1>8, AfterStoreErrorTypeOK DEF HandOffLost
  <2> QED BY <1>8, <2>1, <2>2 DEF HandOffLost, registry, resolver, durable
<1>9. ASSUME NEW sl \in Slots, Accept(r, sl) PROVE TypeOK'
  <2>1. pc' \in [Requests -> {"idle"} \cup Live \cup Ended]
        /\ verdict' \in [Requests -> {"none", "accepted", "aborted", "error"}]
        /\ todo' \in [Requests -> SUBSET Slots]
    BY <1>9, DoneWithTypeOK DEF Accept
  <2>2. dstate' \in [Slots -> PStates \cup {"none"}]
    BY <1>9 DEF Accept
  <2> QED BY <1>9, <2>1, <2>2 DEF Accept, registry, process, resolver, durable
<1>10. ASSUME NEW sl \in Slots, FinishAccepted(r, sl) PROVE TypeOK'
  <2>1. published' \in [Targets -> 0..MaxSeq]
    BY <1>10, PrefixOfProperties DEF FinishAccepted, Finish
  <2>2. /\ pc' \in [Requests -> {"idle"} \cup Live \cup Ended]
        /\ verdict' \in [Requests -> {"none", "accepted", "aborted", "error"}]
        /\ todo' \in [Requests -> SUBSET Slots]
    BY <1>10, DoneWithTypeOK DEF FinishAccepted
  <2>3. inflight' \subseteq Slots /\ aborted' \subseteq Slots /\ detached' \subseteq Slots
    BY <1>10 DEF FinishAccepted, Finish
  <2> QED BY <1>10, <2>1, <2>2, <2>3 DEF FinishAccepted, process, resolver, durable
<1>11. ASSUME NEW sl \in Slots, DefiniteNonWrite(r, sl) PROVE TypeOK'
  <2>1. pc' \in [Requests -> {"idle"} \cup Live \cup Ended]
        /\ verdict' \in [Requests -> {"none", "accepted", "aborted", "error"}]
        /\ todo' \in [Requests -> SUBSET Slots]
    <3>1. verdict[r] \in {"none", "accepted", "aborted", "error"} /\ DoneWith(r, sl, verdict[r])
      BY <1>11 DEF DefiniteNonWrite
    <3> QED BY <3>1, DoneWithTypeOK
  <2>2. dstate' \in [Slots -> PStates \cup {"none"}] /\ detached' \subseteq Slots
    <3>1. CASE dstate[sl] = "Reserved"
      <4>1. dstate' = [dstate EXCEPT ![sl] = "Definite"] /\ detached' = detached \cup {sl}
        BY <1>11, <3>1 DEF DefiniteNonWrite
      <4>2. dstate' \in [Slots -> PStates \cup {"none"}]
        BY <4>1
      <4>3. detached' \subseteq Slots
        BY <1>11, <4>1
      <4> QED BY <4>2, <4>3
    <3>2. CASE dstate[sl] # "Reserved"
      BY <1>11, <3>2 DEF DefiniteNonWrite
    <3> QED BY <3>1, <3>2
  <2> QED BY <1>11, <2>1, <2>2 DEF DefiniteNonWrite, registry, process, resolver, durable
<1>12. CASE Reply(r)
  BY <1>12 DEF Reply, registry, process, resolver, durable
<1> QED BY <1>1, <1>2, <1>3, <1>4, <1>5, <1>6, <1>7, <1>8, <1>9, <1>10, <1>11, <1>12
        DEF RequestRuns

\* The types of what one step of the resolver changes.
LEMMA ResolverTypeOK ==
    ASSUME TypeOK, ResolverRuns
    PROVE  TypeOK'
<1> USE BoundAssumption DEF TypeOK, PStates
<1>1. CASE ResolverScan
  BY <1>1 DEF ResolverScan, registry, process, request, durable
<1>2. CASE ResolverAbort
  <2>1. durIssued' \in [Targets -> 0..MaxSeq]
    BY <1>2, IssuedWithProperties DEF ResolverAbort, StoreTombstones
  <2> QED BY <1>2, <2>1 DEF ResolverAbort, StoreTombstones, registry, process, request
<1>3. CASE ResolverAbortFails
  <2>1. durIssued' \in [Targets -> 0..MaxSeq] /\ durAborted' \subseteq Slots
    BY <1>3, IssuedWithProperties DEF ResolverAbortFails, StoreTombstones
  <2> QED BY <1>3, <2>1 DEF ResolverAbortFails, registry, request
<1>4. CASE ResolverEnd
  BY <1>4 DEF ResolverEnd, registry, request, durable
<1>5. ASSUME NEW sl \in Slots, ResolverLoad(sl) PROVE TypeOK'
  <2>1. cand' \subseteq Slots \X {"Reserved", "Definite"} /\ snap' \subseteq Slots
    BY <1>5 DEF ResolverLoad
  <2> QED BY <1>5, <2>1 DEF ResolverLoad, registry, process, request, durable
<1>6. ASSUME NEW sl \in Slots, ResolverFinish(sl) PROVE TypeOK'
  <2>1. published' \in [Targets -> 0..MaxSeq]
    BY <1>6, PrefixOfProperties DEF ResolverFinish, Finish
  <2>2. aborted' \subseteq Slots /\ inflight' \subseteq Slots /\ detached' \subseteq Slots
    BY <1>6 DEF ResolverFinish, Finish
  <2> QED BY <1>6, <2>1, <2>2 DEF ResolverFinish, process, request, durable
<1>7. ASSUME NEW c \in cand, ResolverClaim(c) PROVE TypeOK'
  <2>1. c[1] \in Slots
    BY <1>7
  <2>2. dstate' \in [Slots -> PStates \cup {"none"}] /\ claimed' \subseteq Slots
    <3>1. CASE dstate[c[1]] = c[2]
      BY <1>7, <2>1, <3>1 DEF ResolverClaim
    <3>2. CASE dstate[c[1]] # c[2]
      BY <1>7, <3>2 DEF ResolverClaim
    <3> QED BY <3>1, <3>2
  <2> QED BY <1>7, <2>2 DEF ResolverClaim, registry, process, request, durable
<1> QED BY <1>1, <1>2, <1>3, <1>4, <1>5, <1>6, <1>7 DEF ResolverRuns

\* The types of what receivers, registration and deletion change.
LEMMA TargetTypeOK ==
    ASSUME TypeOK, NEW t \in Targets,
           \/ \E S \in SUBSET Seqs : Acknowledge(t, S)
           \/ CommitSettled(t)
           \/ \E i \in 0..MaxSeq : Register(t, i)
           \/ RetireTarget(t) \/ DeleteTarget(t) \/ DeleteFails(t) \/ RetireCommit(t)
    PROVE  TypeOK'
<1> USE BoundAssumption DEF TypeOK, PStates
<1>1. ASSUME NEW S \in SUBSET Seqs, Acknowledge(t, S) PROVE TypeOK'
  <2>1. \A done : SettledWith(t, done) \in 0..MaxSeq
    <3> TAKE done
    <3> DEFINE open == {s \in Seqs : s > durSettled[t] /\ row[<<t, s>>] # NoReq
                                      /\ <<t, s>> \notin done}
    <3>1. PrefixOf({<<t, s>> : s \in open}, t, 0) \in 0..MaxSeq
      BY PrefixOfProperties
    <3>2. SettledWith(t, done) = IF open = {} THEN published[t]
               ELSE Smaller(published[t], PrefixOf({<<t, s>> : s \in open}, t, 0))
      BY DEF SettledWith
    <3> HIDE DEF open
    <3> QED BY <3>1, <3>2 DEF Smaller
  <2>2. durSettled' \in [Targets -> 0..MaxSeq] /\ durSettled'[t] \in 0..MaxSeq
    BY <1>1, <2>1 DEF Acknowledge
  <2>3. ackPend' \in [Targets -> 0..MaxSeq]
    BY <1>1, <2>2 DEF Acknowledge
  <2>4. acked' \subseteq Slots
    BY <1>1 DEF Acknowledge
  <2>5. durAborted' \subseteq Slots
    BY <1>1 DEF Acknowledge, Pruned
  <2> QED BY <1>1, <2>2, <2>3, <2>4, <2>5
          DEF Acknowledge, registry, process, resolver, request
<1>2. CASE CommitSettled(t)
  BY <1>2 DEF CommitSettled, Larger, Pruned, process, resolver, request, durable
<1>3. ASSUME NEW i \in 0..MaxSeq, Register(t, i) PROVE TypeOK'
  BY <1>3 DEF Register, Larger, process, resolver, request, durable
<1>4. CASE RetireTarget(t)
  BY <1>4 DEF RetireTarget, process, resolver, request, durable
<1>5. CASE DeleteTarget(t)
  BY <1>5 DEF DeleteTarget, EraseTarget, registry, process, resolver, request
<1>6. CASE DeleteFails(t)
  BY <1>6 DEF DeleteFails, EraseTarget, resolver, request, durable
<1>7. CASE RetireCommit(t)
  BY <1>7 DEF RetireCommit, process, resolver, request, durable
<1> QED BY <1>1, <1>2, <1>3, <1>4, <1>5, <1>6, <1>7

\* The types of what the life of the process changes.
LEMMA ProcessTypeOK ==
    ASSUME TypeOK, Shutdown \/ Abort \/ Exit \/ Crash \/ Restart
    PROVE  TypeOK'
<1> USE BoundAssumption DEF TypeOK, PStates
<1>1. CASE Shutdown
  BY <1>1 DEF Shutdown, registry, resolver, request, durable
<1>2. CASE Restart
  BY <1>2 DEF Restart, resolver, request, durable
<1>3. CASE Abort \/ Exit \/ Crash
  <2>1. Die /\ crashes' \in 0..MaxCrashes
    BY <1>3 DEF Abort, Exit, Crash
  <2>2. pc' \in [Requests -> {"idle"} \cup Live \cup Ended]
    BY <2>1 DEF Die, Live, Ended
  <2>3. mine' \in [Requests -> SUBSET Slots] /\ todo' \in [Requests -> SUBSET Slots]
        /\ ackPend' \in [Targets -> 0..MaxSeq]
    BY <2>1 DEF Die
  <2> QED BY <2>1, <2>2, <2>3 DEF Die, durable
<1> QED BY <1>1, <1>2, <1>3

\* Every step of the publication core keeps the variables in their types.
THEOREM TypeCorrect == Spec => []TypeOK
<1>1. Init => TypeOK
  BY InitTypeOK
<1>2. TypeOK /\ [Next]_vars => TypeOK'
  <2> SUFFICES ASSUME TypeOK, [Next]_vars PROVE TypeOK'
    OBVIOUS
  <2>1. CASE UNCHANGED vars
    BY <2>1 DEF TypeOK, vars, registry, process, resolver, request, durable
  <2>2. CASE Next
    BY <2>2, RequestTypeOK, ResolverTypeOK, TargetTypeOK, ProcessTypeOK DEF Next
  <2> QED BY <2>1, <2>2
<1> QED BY <1>1, <1>2, PTL DEF Spec

-----------------------------------------------------------------------------
(***************************************************************************)
(* The race between a request that hands its assignment to a writer and    *)
(* the resolver that tombstones it: whoever wins, for every instance, a    *)
(* row and a tombstone never share a sequence, "accepted" means stored and *)
(* "aborted_retry_safe" means never stored.                                *)
(*                                                                         *)
(* None of the three is inductive alone.  Their common strengthening says  *)
(* that a fresh sequence lies above everything ever stored                 *)
(* (CountersBound), that a descriptor's state tells what storage holds     *)
(* (DescriptorTruth), that a live request is the only one to touch its     *)
(* descriptors (Ownership), and what each stage of a request implies about *)
(* its rows (Answers).                                                     *)
(***************************************************************************)
USE DEF Slots

CountersBound ==
    /\ up => \A t \in Targets : durIssued[t] <= allocated[t]
    /\ \A sl \in Slots : row[sl] # NoReq \/ sl \in durAborted => sl[2] <= durIssued[sl[1]]
    /\ \A sl \in Slots : dstate[sl] # "none" => up /\ sl[2] <= allocated[sl[1]]

DescriptorTruth ==
    /\ \A sl \in Slots : dstate[sl] \in {"Reserved", "Definite", "Claimed", "AbortedDurable"}
                            => row[sl] = NoReq
    /\ \A sl \in durAborted :
          row[sl] = NoReq /\ dstate[sl] \in {"none", "Claimed", "AbortedDurable"}
    /\ \A sl \in claimed : dstate[sl] = "Claimed"

Ownership ==
    /\ \A r \in Requests : todo[r] \subseteq mine[r]
    /\ \A r \in Requests : pc[r] \in Live =>
          mine[r] # {} /\ \A sl \in mine[r] : dstate[sl] # "none"
    /\ \A r, q \in Requests : pc[r] \in Live /\ pc[q] \in Live /\ r # q =>
          \A sl \in mine[r] : sl \notin mine[q]
    /\ \A r \in Requests : pc[r] \in {"prepared", "writing"} =>
          \A sl \in mine[r] : row[sl] = NoReq /\ (sl \notin todo[r] => dstate[sl] = "HandedOff")
    /\ \A r \in Requests : pc[r] = "writing" => todo[r] = {}

Answers ==
    /\ \A r \in Requests : pc[r] \in {"idle", "prepared", "writing", "accepting"} =>
          verdict[r] = "none"
    /\ \A r \in Requests : pc[r] = "accepting" \/ verdict[r] = "accepted" =>
          \A sl \in mine[r] : row[sl] = r \/ sl[1] \in deleted
    /\ \A r \in Requests : pc[r] = "replied" => mine[r] # {}
    /\ \A r \in Requests : pc[r] \in {"idle", "prepared", "writing", "capturing"}
                           \/ verdict[r] \in {"aborted", "error"} =>
          \A sl \in Slots : row[sl] # r

RaceInv == CountersBound /\ DescriptorTruth /\ Ownership /\ Answers

\* It holds initially.
LEMMA InitRaceInv == Init => RaceInv
BY NoReqAssumption DEF Init, RaceInv, CountersBound, DescriptorTruth, Ownership, Answers, Live

\* The steps that leave descriptors, storage and request threads alone.
LEMMA FrameRaceInv ==
    ASSUME RaceInv, UNCHANGED <<allocated, up, dstate, claimed, request, row, durIssued,
                                durAborted, deleted>>
    PROVE  RaceInv'
BY DEF request, RaceInv, CountersBound, DescriptorTruth, Ownership, Answers

LEMMA QuietRaceInv ==
    ASSUME TypeOK, RaceInv,
           \/ ResolverScan \/ ResolverEnd \/ Shutdown
           \/ \E sl \in Slots : ResolverLoad(sl)
           \/ \E t \in Targets : CommitSettled(t) \/ RetireTarget(t) \/ RetireCommit(t)
    PROVE  RaceInv'
<1>1. UNCHANGED <<allocated, up, dstate, claimed, request, row, durIssued, durAborted, deleted>>
  BY DEF ResolverScan, ResolverEnd, Shutdown, ResolverLoad, CommitSettled, RetireTarget,
         RetireCommit, registry, process, resolver, durable
<1> QED BY <1>1, FrameRaceInv

\* Reserving takes sequences no descriptor, row or tombstone has used.
LEMMA ReserveRaceInv ==
    ASSUME TypeOK, RaceInv, NEW r \in Requests, Reserve(r)
    PROVE  RaceInv'
<1> DEFINE new == {<<t, allocated[t] + 1>> : t \in Batch[r]}
<1>1. /\ up /\ pc[r] = "idle"
      /\ \A t \in Batch[r] : t \in Targets /\ allocated[t] < MaxSeq
      /\ dstate' = [sl \in Slots |-> IF sl \in new THEN "Reserved" ELSE dstate[sl]]
      /\ mine' = [mine EXCEPT ![r] = new]
      /\ todo' = [todo EXCEPT ![r] = new]
      /\ allocated' = [t \in Targets |-> IF t \in Batch[r] THEN allocated[t] + 1
                                         ELSE allocated[t]]
      /\ pc' = [pc EXCEPT ![r] = "prepared"]
      /\ UNCHANGED <<up, claimed, verdict, row, durIssued, durAborted, deleted>>
  BY BatchAssumption DEF Reserve, HasRoom, process, resolver, durable
<1>2. new # {} /\ new \subseteq Slots
  <2>1. \A t \in Batch[r] : t \in Targets /\ allocated[t] + 1 \in Seqs
    BY <1>1, BoundAssumption DEF TypeOK, Seqs
  <2>2. Batch[r] # {}
    BY BatchAssumption
  <2>3. new # {}
    BY <2>2
  <2>4. ASSUME NEW sl \in new PROVE sl \in Slots
    <3>1. PICK t \in Batch[r] : sl = <<t, allocated[t] + 1>>
      OBVIOUS
    <3> QED BY <2>1, <3>1
  <2> QED BY <2>3, <2>4
<1>3. \A sl \in new : sl[2] = allocated[sl[1]] + 1 /\ sl[1] \in Batch[r]
  OBVIOUS
<1> HIDE DEF new
<1>4. \A sl \in new : row[sl] = NoReq /\ sl \notin durAborted /\ dstate[sl] = "none"
  BY <1>1, <1>2, <1>3, BoundAssumption DEF RaceInv, CountersBound, TypeOK, Seqs
<1>5. CountersBound'
  <2>1. \A t \in Targets : allocated[t] <= allocated'[t]
    BY <1>1, BoundAssumption DEF TypeOK
  <2>2. \A sl \in new : sl[2] <= allocated'[sl[1]]
    BY <1>1, <1>2, <1>3, BoundAssumption DEF TypeOK
  <2>3. up' => \A t \in Targets : durIssued'[t] <= allocated'[t]
    BY <1>1, <2>1, BoundAssumption DEF RaceInv, CountersBound, TypeOK
  <2>4. ASSUME NEW sl \in Slots, dstate'[sl] # "none"
        PROVE  up' /\ sl[2] <= allocated'[sl[1]]
    <3>1. CASE sl \in new
      BY <1>1, <2>2, <3>1
    <3>2. CASE sl \notin new
      <4>1. dstate[sl] # "none"
        BY <1>1, <2>4, <3>2
      <4>2. sl[1] \in Targets /\ sl[2] \in Seqs /\ sl[2] <= allocated[sl[1]]
        BY <4>1 DEF RaceInv, CountersBound
      <4> QED BY <1>1, <2>1, <4>2, BoundAssumption DEF TypeOK, Seqs
    <3> QED BY <3>1, <3>2
  <2> QED BY <1>1, <2>3, <2>4 DEF RaceInv, CountersBound
<1>6. DescriptorTruth'
  BY <1>1, <1>2, <1>4 DEF RaceInv, DescriptorTruth, TypeOK
<1>7. Ownership'
  BY <1>1, <1>2, <1>4 DEF RaceInv, Ownership, TypeOK, Live
<1>8. Answers'
  BY <1>1, <1>2, <1>4 DEF RaceInv, Answers, TypeOK, Live
<1> QED BY <1>5, <1>6, <1>7, <1>8 DEF RaceInv

\* A request that only moves on, or gives up, without touching storage.
LEMMA MoveRaceInv ==
    ASSUME TypeOK, RaceInv, NEW r \in Requests,
           Refuse(r) \/ Panic(r) \/ Reply(r) \/ Cancel(r)
    PROVE  RaceInv'
<1> USE DEF TypeOK, RaceInv
<1>1. CASE Refuse(r)
  <2> USE DEF Refuse, registry, process, resolver, durable
  <2>1. CountersBound' /\ DescriptorTruth'
    BY <1>1 DEF CountersBound, DescriptorTruth
  <2>2. Ownership'
    BY <1>1 DEF Ownership, Live
  <2>3. Answers'
    BY <1>1 DEF Answers
  <2> QED BY <2>1, <2>2, <2>3
<1>2. CASE Panic(r)
  <2> USE DEF Panic, registry, process, resolver, durable
  <2>1. CountersBound' /\ DescriptorTruth'
    BY <1>2 DEF CountersBound, DescriptorTruth
  <2>2. Ownership'
    BY <1>2 DEF Ownership, Live
  <2>3. Answers'
    BY <1>2 DEF Answers
  <2> QED BY <2>1, <2>2, <2>3
<1>3. CASE Reply(r)
  <2> USE DEF Reply, registry, process, resolver, durable
  <2>1. CountersBound' /\ DescriptorTruth'
    BY <1>3 DEF CountersBound, DescriptorTruth
  <2>2. Ownership'
    BY <1>3 DEF Ownership, Live
  <2>3. Answers'
    BY <1>3 DEF Answers, Ownership, Live
  <2> QED BY <2>1, <2>2, <2>3
<1>4. CASE Cancel(r)
  <2> USE DEF Cancel, registry, process, resolver, durable
  <2>1. CountersBound' /\ DescriptorTruth'
    BY <1>4 DEF CountersBound, DescriptorTruth
  <2>2. Ownership'
    BY <1>4 DEF Ownership, Live
  <2>3. Answers'
    BY <1>4 DEF Answers
  <2> QED BY <2>1, <2>2, <2>3
<1> QED BY <1>1, <1>2, <1>3, <1>4

\* The hand-off takes the descriptor out of the resolver's reach.
LEMMA HandOffRaceInv ==
    ASSUME TypeOK, RaceInv, NEW r \in Requests, NEW sl \in Slots, HandOff(r, sl)
    PROVE  RaceInv'
<1> USE DEF TypeOK, RaceInv, HandOff, registry, process, resolver, durable
<1>1. CountersBound'
  BY DEF CountersBound
<1>2. DescriptorTruth'
  BY DEF DescriptorTruth
<1>3. Ownership'
  BY DEF Ownership, Live
<1>4. Answers'
  BY DEF Answers
<1> QED BY <1>1, <1>2, <1>3, <1>4

\* An error: on proof the request captures its verdict, else it is lost.
LEMMA HandOffLostRaceInv ==
    ASSUME TypeOK, RaceInv, NEW r \in Requests, NEW sl \in Slots, HandOffLost(r, sl)
    PROVE  RaceInv'
<1>1. /\ up /\ pc[r] = "prepared" /\ sl \in todo[r]
      /\ dstate' = DropWrites(r)
      /\ \/ /\ pc' = [pc EXCEPT ![r] = "capturing"]
            /\ verdict' = [verdict EXCEPT ![r] = "aborted"]
            /\ todo' = [todo EXCEPT ![r] = mine[r]]
         \/ /\ pc' = [pc EXCEPT ![r] = "lost"]
            /\ verdict' = verdict
            /\ todo' = [todo EXCEPT ![r] = {}]
      /\ UNCHANGED <<allocated, up, claimed, mine, row, durIssued, durAborted, deleted>>
  BY DEF HandOffLost, AfterStoreError, registry, resolver, durable
<1>2. \A x \in Slots : \/ dstate'[x] = dstate[x]
                       \/ x \in mine[r] /\ dstate[x] = "HandedOff" /\ dstate'[x] = "FatalUncertain"
  BY <1>1 DEF DropWrites
<1> USE DEF TypeOK, RaceInv
<1>3. CountersBound'
  BY <1>1, <1>2 DEF CountersBound
<1>4. DescriptorTruth'
  BY <1>1, <1>2 DEF DescriptorTruth
<1>5. Ownership'
  <2>1. \A q \in Requests : todo'[q] \subseteq mine'[q]
    BY <1>1 DEF Ownership
  <2>2. \A q \in Requests : pc'[q] \in Live => pc[q] \in Live
    BY <1>1 DEF Live
  <2>3. \A q \in Requests : pc'[q] \in Live =>
           mine'[q] # {} /\ \A x \in mine'[q] : dstate'[x] # "none"
    BY <1>1, <1>2, <2>2 DEF Ownership
  <2>4. \A q \in Requests : pc'[q] \in {"prepared", "writing"} => q # r /\ pc[q] = pc'[q]
    BY <1>1
  <2>5. ASSUME NEW q \in Requests, pc'[q] \in {"prepared", "writing"}, NEW x \in mine'[q]
        PROVE  row'[x] = NoReq /\ (x \notin todo'[q] => dstate'[x] = "HandedOff")
    <3>1. x \notin mine[r]
      BY <1>1, <2>4, <2>5 DEF Ownership, Live
    <3>2. dstate'[x] = dstate[x] /\ todo'[q] = todo[q]
      BY <1>1, <1>2, <2>4, <2>5, <3>1
    <3> QED BY <1>1, <2>4, <2>5, <3>2 DEF Ownership
  <2>6. \A q \in Requests : pc'[q] = "writing" => todo'[q] = {}
    BY <1>1, <2>4 DEF Ownership
  <2> QED BY <1>1, <2>1, <2>2, <2>3, <2>5, <2>6 DEF Ownership
<1>6. Answers'
  BY <1>1 DEF Answers
<1> QED BY <1>3, <1>4, <1>5, <1>6

\* The transaction stores rows that were empty, of descriptors handed off.
LEMMA StoreRowsRaceInv ==
    ASSUME TypeOK, RaceInv, NEW r \in Requests, up, pc[r] = "writing", StoreRows(r)
    PROVE  /\ \A x \in Slots : row'[x] = IF x \in mine[r] THEN r ELSE row[x]
           /\ \A x \in mine[r] : x \in Slots /\ row[x] = NoReq /\ dstate[x] = "HandedOff"
           /\ \A t \in Targets : durIssued[t] <= durIssued'[t] /\ durIssued'[t] <= allocated[t]
           /\ \A x \in mine[r] : x[2] <= durIssued'[x[1]]
<1> USE DEF TypeOK, RaceInv
<1>1. \A x \in Slots : row'[x] = IF x \in mine[r] THEN r ELSE row[x]
  BY DEF StoreRows
<1>2. \A x \in mine[r] : x \in Slots /\ row[x] = NoReq /\ dstate[x] = "HandedOff"
  BY DEF Ownership
<1>3. durIssued' = IssuedWith(mine[r])
  BY DEF StoreRows
<1>4. ASSUME NEW t \in Targets
      PROVE  durIssued[t] <= durIssued'[t] /\ durIssued'[t] <= allocated[t]
  <2>1. durIssued'[t] >= durIssued[t] /\ durIssued[t] <= allocated[t]
    BY <1>3, IssuedWithProperties DEF CountersBound
  <2>2. CASE durIssued'[t] = durIssued[t]
    BY <2>1, <2>2, BoundAssumption
  <2>3. CASE \E s \in Seqs : <<t, s>> \in mine[r] /\ durIssued'[t] = s
    <3>1. PICK s \in Seqs : <<t, s>> \in mine[r] /\ durIssued'[t] = s
      BY <2>3
    <3>2. s <= allocated[t]
      BY <1>2, <3>1 DEF CountersBound
    <3> QED BY <2>1, <3>1, <3>2, BoundAssumption DEF Seqs
  <2> QED BY <1>3, <2>2, <2>3, IssuedWithProperties
<1>5. ASSUME NEW x \in mine[r] PROVE x[2] <= durIssued'[x[1]]
  <2>1. x \in Slots /\ x = <<x[1], x[2]>> /\ x[1] \in Targets /\ x[2] \in Seqs
    BY <1>2
  <2>2. durIssued'[x[1]] >= x[2] /\ durIssued'[x[1]] \in 0..MaxSeq
    BY <1>3, <2>1, IssuedWithProperties
  <2> QED BY <2>1, <2>2, BoundAssumption DEF Seqs
<1> QED BY <1>1, <1>2, <1>4, <1>5

LEMMA WriteRaceInv ==
    ASSUME TypeOK, TypeOK', RaceInv, NEW r \in Requests, Write(r)
    PROVE  RaceInv'
<1>1. /\ up /\ pc[r] = "writing" /\ StoreRows(r)
      /\ pc' = [pc EXCEPT ![r] = "accepting"]
      /\ todo' = [todo EXCEPT ![r] = mine[r]]
      /\ UNCHANGED <<allocated, up, dstate, claimed, mine, verdict, durAborted, deleted>>
  BY DEF Write, registry, process, resolver
<1>2. /\ \A x \in Slots : row'[x] = IF x \in mine[r] THEN r ELSE row[x]
      /\ \A x \in mine[r] : x \in Slots /\ row[x] = NoReq /\ dstate[x] = "HandedOff"
      /\ \A t \in Targets : durIssued[t] <= durIssued'[t] /\ durIssued'[t] <= allocated[t]
      /\ \A x \in mine[r] : x[2] <= durIssued'[x[1]]
  BY <1>1, StoreRowsRaceInv
<1> USE DEF TypeOK, RaceInv
<1>3. CountersBound'
  <2>1. ASSUME NEW x \in Slots, row'[x] # NoReq \/ x \in durAborted'
        PROVE  x[2] <= durIssued'[x[1]]
    <3>1. CASE x \in mine[r]
      BY <1>2, <3>1
    <3>2. CASE x \notin mine[r]
      <4>1. x[1] \in Targets /\ x[2] \in Seqs /\ x[2] <= durIssued[x[1]]
        BY <1>1, <1>2, <2>1, <3>2 DEF CountersBound
      <4> QED BY <1>2, <4>1, BoundAssumption DEF Seqs
    <3> QED BY <3>1, <3>2
  <2> QED BY <1>1, <1>2, <2>1 DEF CountersBound
<1>4. DescriptorTruth'
  BY <1>1, <1>2 DEF DescriptorTruth
<1>5. Ownership'
  BY <1>1, <1>2 DEF Ownership, Live
<1>6. Answers'
  BY <1>1, <1>2, NoReqAssumption DEF Answers
<1> QED BY <1>3, <1>4, <1>5, <1>6

\* A failed write never yields a verdict: the request is lost with the process.
LEMMA WriteFailsRaceInv ==
    ASSUME TypeOK, TypeOK', RaceInv, NEW r \in Requests, WriteFails(r)
    PROVE  RaceInv'
<1>1. /\ up /\ pc[r] = "writing" /\ (StoreRows(r) \/ UNCHANGED <<row, durIssued>>)
      /\ dstate' = DropWrites(r)
      /\ pc' = [pc EXCEPT ![r] = "lost"]
      /\ todo' = [todo EXCEPT ![r] = {}]
      /\ UNCHANGED <<allocated, up, claimed, mine, verdict, durAborted, deleted>>
  BY DEF WriteFails, AfterStoreError, ProvedNonWrite, registry, resolver
<1>2. \A x \in Slots : \/ dstate'[x] = dstate[x]
                       \/ x \in mine[r] /\ dstate[x] = "HandedOff" /\ dstate'[x] = "FatalUncertain"
  BY <1>1 DEF DropWrites
<1> USE DEF TypeOK, RaceInv
<1>3. /\ \A x \in Slots : row'[x] = row[x] \/ (x \in mine[r] /\ row'[x] = r)
      /\ \A x \in mine[r] : x \in Slots /\ row[x] = NoReq /\ dstate[x] = "HandedOff"
      /\ \A t \in Targets : durIssued[t] <= durIssued'[t] /\ durIssued'[t] <= allocated[t]
      /\ \A x \in mine[r] : row'[x] = row[x] \/ x[2] <= durIssued'[x[1]]
  <2>1. CASE StoreRows(r)
    BY <1>1, <2>1, StoreRowsRaceInv
  <2>2. CASE UNCHANGED <<row, durIssued>>
    BY <1>1, <2>2, BoundAssumption DEF CountersBound, Ownership
  <2> QED BY <1>1, <2>1, <2>2
<1>4. CountersBound'
  <2>1. ASSUME NEW x \in Slots, row'[x] # NoReq \/ x \in durAborted'
        PROVE  x[2] <= durIssued'[x[1]]
    <3>1. CASE row'[x] # row[x]
      BY <1>3, <3>1
    <3>2. CASE row'[x] = row[x]
      <4>1. x[1] \in Targets /\ x[2] \in Seqs /\ x[2] <= durIssued[x[1]]
        BY <1>1, <2>1, <3>2 DEF CountersBound
      <4> QED BY <1>3, <4>1, BoundAssumption DEF Seqs
    <3> QED BY <3>1, <3>2
  <2> QED BY <1>1, <1>2, <1>3, <2>1 DEF CountersBound
<1>5. DescriptorTruth'
  <2>1. \A x \in Slots : \/ dstate'[x] = dstate[x] /\ row'[x] = row[x]
                         \/ dstate[x] = "HandedOff" /\ dstate'[x] \in {"HandedOff", "FatalUncertain"}
    BY <1>2, <1>3
  <2> QED BY <1>1, <2>1 DEF DescriptorTruth
<1>6. Ownership'
  <2>1. \A q \in Requests : pc'[q] \in Live => q # r /\ pc'[q] = pc[q] /\ todo'[q] = todo[q]
    BY <1>1 DEF Live
  <2>2. \A q \in Requests : pc'[q] \in Live => \A x \in mine[q] : x \in Slots /\ x \notin mine[r]
    BY <1>1, <2>1 DEF Ownership, Live
  <2>3. \A q \in Requests : pc'[q] \in Live =>
           \A x \in mine[q] : dstate'[x] = dstate[x] /\ row'[x] = row[x]
    BY <1>2, <1>3, <2>2
  <2> QED BY <1>1, <2>1, <2>3 DEF Ownership, Live
<1>7. Answers'
  BY <1>1, <1>3, NoReqAssumption DEF Answers
<1> QED BY <1>4, <1>5, <1>6, <1>7

\* A request completes a child: its own descriptor moves, the rows stay.
LEMMA CompleteRaceInv ==
    ASSUME TypeOK, RaceInv, NEW r \in Requests, NEW sl \in Slots,
           Accept(r, sl) \/ FinishAccepted(r, sl) \/ DefiniteNonWrite(r, sl)
    PROVE  RaceInv'
<1>1. /\ up /\ sl \in todo[r]
      /\ \/ pc[r] = "accepting" /\ dstate[sl] \in {"HandedOff", "Accepted"}
            /\ dstate'[sl] \in {"Accepted", "FatalUncertain"}
         \/ pc[r] = "capturing" /\ dstate[sl] = "Reserved" /\ dstate'[sl] = "Definite"
         \/ pc[r] = "capturing" /\ dstate'[sl] = dstate[sl]
      /\ \A x \in Slots : x # sl => dstate'[x] = dstate[x]
      /\ UNCHANGED <<allocated, up, claimed, mine, row, durIssued, durAborted, deleted>>
  <2>1. CASE Accept(r, sl)
    <3>1. dstate' = [dstate EXCEPT ![sl] = "FatalUncertain"]
          \/ dstate' = [dstate EXCEPT ![sl] = "Accepted"]
      BY <2>1 DEF Accept
    <3> QED BY <2>1, <3>1 DEF Accept, TypeOK, registry, process, resolver, durable
  <2>2. CASE FinishAccepted(r, sl)
    BY <2>2 DEF FinishAccepted, process, resolver, durable
  <2>3. CASE DefiniteNonWrite(r, sl)
    <3>1. CASE dstate[sl] = "Reserved"
      <4>1. dstate' = [dstate EXCEPT ![sl] = "Definite"]
        BY <2>3, <3>1 DEF DefiniteNonWrite
      <4> QED BY <2>3, <3>1, <4>1 DEF DefiniteNonWrite, TypeOK, registry, process, resolver, durable
    <3>2. CASE dstate[sl] # "Reserved"
      BY <2>3, <3>2 DEF DefiniteNonWrite, registry, process, resolver, durable
    <3> QED BY <3>1, <3>2
  <2> QED BY <2>1, <2>2, <2>3
<1>2. /\ todo' = [todo EXCEPT ![r] = @ \ {sl}]
         \/ UNCHANGED todo
      /\ \/ UNCHANGED <<pc, verdict>>
         \/ /\ pc' = [pc EXCEPT ![r] = "awaiting"]
            /\ \/ pc[r] = "accepting" /\ verdict' = [verdict EXCEPT ![r] = "accepted"]
               \/ verdict' = [verdict EXCEPT ![r] = verdict[r]]
  BY DEF Accept, FinishAccepted, DefiniteNonWrite, DoneWith
<1> USE DEF TypeOK, RaceInv
<1>3. CountersBound'
  BY <1>1 DEF CountersBound, Ownership, Live
<1>4. DescriptorTruth'
  BY <1>1 DEF DescriptorTruth
<1>5. Ownership'
  <2>1. \A q \in Requests : pc'[q] \in Live => pc[q] \in Live
    BY <1>1, <1>2 DEF Live
  <2>2. \A q \in Requests : pc'[q] \in {"prepared", "writing"} => q # r /\ pc'[q] = pc[q]
    BY <1>1, <1>2
  <2>3. \A q \in Requests : todo'[q] \subseteq mine'[q]
    BY <1>1, <1>2 DEF Ownership
  <2>4. \A q \in Requests : pc'[q] \in Live =>
           mine'[q] # {} /\ \A x \in mine'[q] : dstate'[x] # "none"
    <3>1. \A x \in Slots : dstate[x] # "none" => dstate'[x] # "none"
      BY <1>1
    <3> QED BY <1>1, <2>1, <3>1 DEF Ownership
  <2>5. \A p, q \in Requests : pc'[p] \in Live /\ pc'[q] \in Live /\ p # q =>
           \A x \in mine'[p] : x \notin mine'[q]
    BY <1>1, <2>1 DEF Ownership
  <2>6. ASSUME NEW q \in Requests, pc'[q] \in {"prepared", "writing"}
        PROVE  /\ pc'[q] = "writing" => todo'[q] = {}
               /\ \A x \in mine'[q] : /\ row'[x] = NoReq
                                      /\ x \notin todo'[q] => dstate'[x] = "HandedOff"
    <3>1. q # r /\ pc[q] = pc'[q] /\ mine'[q] = mine[q]
      BY <1>1, <2>2, <2>6
    <3>2. todo'[q] = todo[q]
      BY <1>2, <3>1
    <3>3. sl \in mine[r] /\ pc[q] \in Live /\ pc[r] \in Live
      BY <1>1, <2>6, <3>1 DEF Ownership, Live
    <3>4. \A x \in mine[q] : x # sl /\ x \in Slots
      BY <3>1, <3>3 DEF Ownership
    <3> QED BY <1>1, <2>6, <3>1, <3>2, <3>4 DEF Ownership
  <2> QED BY <2>3, <2>4, <2>5, <2>6 DEF Ownership
<1>6. Answers'
  <2>1. ASSUME NEW q \in Requests, q # r
        PROVE  pc'[q] = pc[q] /\ verdict'[q] = verdict[q]
    BY <1>2, <2>1
  <2>2. pc[r] \in {"accepting", "capturing"} /\ pc'[r] \in {pc[r], "awaiting"}
    BY <1>1, <1>2
  <2>3. \/ pc'[r] = pc[r] /\ verdict'[r] = verdict[r]
        \/ pc'[r] = "awaiting" /\ pc[r] = "accepting" /\ verdict'[r] = "accepted"
        \/ pc'[r] = "awaiting" /\ verdict'[r] = verdict[r]
    BY <1>2
  <2>4. \A q \in Requests : pc'[q] \in {"idle", "prepared", "writing", "accepting"} =>
           verdict'[q] = "none"
    BY <2>1, <2>3 DEF Answers
  <2>5. \A q \in Requests : pc'[q] = "accepting" \/ verdict'[q] = "accepted" =>
           \A x \in mine'[q] : row'[x] = q \/ x[1] \in deleted'
    BY <1>1, <2>1, <2>3 DEF Answers
  <2>6. \A q \in Requests : pc'[q] = "replied" => mine'[q] # {}
    BY <1>1, <2>1, <2>2, <2>3 DEF Answers
  <2>7. \A q \in Requests : pc'[q] \in {"idle", "prepared", "writing", "capturing"}
                           \/ verdict'[q] \in {"aborted", "error"} =>
           \A x \in Slots : row'[x] # q
    BY <1>1, <2>1, <2>3 DEF Answers
  <2> QED BY <2>4, <2>5, <2>6, <2>7 DEF Answers
<1> QED BY <1>3, <1>4, <1>5, <1>6

\* The claim: only a descriptor that is not handed off.
LEMMA ClaimRaceInv ==
    ASSUME TypeOK, RaceInv, NEW c \in cand, ResolverClaim(c)
    PROVE  RaceInv'
<1> USE DEF TypeOK, RaceInv
<1>1. c[1] \in Slots /\ c[2] \in {"Reserved", "Definite"}
  OBVIOUS
<1>2. CASE dstate[c[1]] # c[2]
  <2>1. UNCHANGED <<allocated, up, dstate, claimed, request, row, durIssued, durAborted, deleted>>
    BY <1>2 DEF ResolverClaim, registry, process, durable
  <2> QED BY <2>1, FrameRaceInv
<1>3. CASE dstate[c[1]] = c[2]
  <2>1. /\ dstate' = [dstate EXCEPT ![c[1]] = "Claimed"]
        /\ claimed' = claimed \cup {c[1]}
        /\ UNCHANGED <<allocated, up, pc, mine, todo, verdict, row, durIssued, durAborted, deleted>>
    BY <1>3 DEF ResolverClaim, registry, process, request, durable
  <2>2. CountersBound'
    BY <1>1, <1>3, <2>1 DEF CountersBound
  <2>3. DescriptorTruth'
    BY <1>1, <1>3, <2>1 DEF DescriptorTruth
  <2>4. Ownership'
    BY <1>1, <1>3, <2>1 DEF Ownership
  <2>5. Answers'
    BY <2>1 DEF Answers
  <2> QED BY <2>2, <2>3, <2>4, <2>5
<1> QED BY <1>2, <1>3

\* The tombstones cover claimed descriptors only, whose sequences have no row.
LEMMA TombstoneRaceInv ==
    ASSUME TypeOK, RaceInv, ResolverAbort \/ ResolverAbortFails
    PROVE  RaceInv'
<1> USE DEF TypeOK, RaceInv
<1>1. /\ up
      /\ UNCHANGED <<allocated, up, dstate, claimed, pc, mine, todo, verdict, row, deleted>>
  BY DEF ResolverAbort, ResolverAbortFails, registry, process, request
<1>2. CASE UNCHANGED <<durAborted, durIssued>>
  BY <1>1, <1>2, FrameRaceInv DEF request
<1>3. CASE StoreTombstones
  <2>1. durAborted' = durAborted \cup claimed /\ durIssued' = IssuedWith(claimed)
    BY <1>3 DEF StoreTombstones
  <2>2. ASSUME NEW t \in Targets
        PROVE  durIssued[t] <= durIssued'[t] /\ durIssued'[t] <= allocated[t]
    <3>1. durIssued'[t] >= durIssued[t] /\ durIssued[t] <= allocated[t]
      BY <1>1, <2>1, IssuedWithProperties DEF CountersBound
    <3>2. CASE durIssued'[t] = durIssued[t]
      BY <3>1, <3>2, BoundAssumption
    <3>3. CASE \E s \in Seqs : <<t, s>> \in claimed /\ durIssued'[t] = s
      <4>1. PICK s \in Seqs : <<t, s>> \in claimed /\ durIssued'[t] = s
        BY <3>3
      <4>2. s <= allocated[t]
        BY <4>1 DEF CountersBound, DescriptorTruth
      <4> QED BY <3>1, <4>1, <4>2, BoundAssumption DEF Seqs
    <3> QED BY <2>1, <3>2, <3>3, IssuedWithProperties
  <2>3. CountersBound'
    <3>1. ASSUME NEW x \in Slots, row'[x] # NoReq \/ x \in durAborted'
          PROVE  x[2] <= durIssued'[x[1]]
      <4>1. x = <<x[1], x[2]>> /\ x[1] \in Targets /\ x[2] \in Seqs
        OBVIOUS
      <4>2. CASE x \in claimed
        <5>1. durIssued'[x[1]] >= x[2] /\ durIssued'[x[1]] \in 0..MaxSeq
          BY <2>1, <4>1, <4>2, IssuedWithProperties
        <5> QED BY <4>1, <5>1, BoundAssumption DEF Seqs
      <4>3. CASE x \notin claimed
        <5>1. x[2] <= durIssued[x[1]]
          BY <1>1, <2>1, <3>1, <4>3 DEF CountersBound
        <5>2. durIssued'[x[1]] \in 0..MaxSeq
          BY <2>1, <4>1, IssuedWithProperties
        <5> QED BY <2>2, <4>1, <5>1, <5>2, BoundAssumption DEF Seqs
      <4> QED BY <4>2, <4>3
    <3> QED BY <1>1, <2>2, <3>1 DEF CountersBound
  <2>4. DescriptorTruth'
    BY <1>1, <2>1 DEF DescriptorTruth
  <2>5. Ownership' /\ Answers'
    BY <1>1 DEF Ownership, Answers
  <2> QED BY <2>3, <2>4, <2>5
<1> QED BY <1>2, <1>3 DEF ResolverAbort, ResolverAbortFails

LEMMA ResolverFinishRaceInv ==
    ASSUME TypeOK, RaceInv, NEW sl \in Slots, ResolverFinish(sl)
    PROVE  RaceInv'
<1> USE DEF TypeOK, RaceInv
<1>1. /\ sl \in claimed /\ dstate[sl] = "Claimed"
      /\ dstate' = [dstate EXCEPT ![sl] = "AbortedDurable"]
      /\ claimed' = claimed \ {sl}
      /\ UNCHANGED <<allocated, up, pc, mine, todo, verdict, row, durIssued, durAborted, deleted>>
  BY DEF ResolverFinish, DescriptorTruth, process, request, durable
<1>2. CountersBound'
  BY <1>1 DEF CountersBound
<1>3. DescriptorTruth'
  BY <1>1 DEF DescriptorTruth
<1>4. Ownership'
  BY <1>1 DEF Ownership
<1>5. Answers'
  BY <1>1 DEF Answers
<1> QED BY <1>2, <1>3, <1>4, <1>5

\* Receivers, registration and deletion.
LEMMA TargetRaceInv ==
    ASSUME TypeOK, RaceInv, NEW t \in Targets,
           \/ \E S \in SUBSET Seqs : Acknowledge(t, S)
           \/ \E i \in 0..MaxSeq : Register(t, i)
           \/ DeleteTarget(t) \/ DeleteFails(t)
    PROVE  RaceInv'
<1> USE DEF TypeOK, RaceInv
<1>1. ASSUME NEW S \in SUBSET Seqs, Acknowledge(t, S) PROVE RaceInv'
  <2>1. /\ durAborted' \subseteq durAborted
        /\ UNCHANGED <<allocated, up, dstate, claimed, request, row, durIssued, deleted>>
    BY <1>1 DEF Acknowledge, Pruned, registry, process, resolver
  <2>2. CountersBound' /\ DescriptorTruth'
    BY <2>1 DEF CountersBound, DescriptorTruth
  <2>3. Ownership' /\ Answers'
    BY <2>1 DEF Ownership, Answers, request
  <2> QED BY <2>2, <2>3
<1>2. ASSUME NEW i \in 0..MaxSeq, Register(t, i) PROVE RaceInv'
  <2>1. /\ allocated' = [allocated EXCEPT ![t] = Larger(@, i)]
        /\ UNCHANGED <<up, dstate, claimed, request, row, durIssued, durAborted, deleted>>
    BY <1>2 DEF Register, process, resolver, durable
  <2>2. \A u \in Targets : allocated[u] <= allocated'[u] /\ allocated'[u] \in 0..MaxSeq
    BY <2>1, BoundAssumption DEF Larger
  <2>3. up' => \A u \in Targets : durIssued'[u] <= allocated'[u]
    BY <2>1, <2>2, BoundAssumption DEF CountersBound
  <2>4. ASSUME NEW x \in Slots, dstate'[x] # "none"
        PROVE  up' /\ x[2] <= allocated'[x[1]]
    <3>1. up /\ x[1] \in Targets /\ x[2] \in Seqs /\ x[2] <= allocated[x[1]]
      BY <2>1, <2>4 DEF CountersBound
    <3> QED BY <2>1, <2>2, <3>1, BoundAssumption DEF Seqs
  <2>5. CountersBound'
    BY <2>1, <2>3, <2>4 DEF CountersBound
  <2>6. DescriptorTruth' /\ Ownership' /\ Answers'
    BY <2>1 DEF DescriptorTruth, Ownership, Answers, request
  <2> QED BY <2>5, <2>6
<1>3. CASE DeleteTarget(t) \/ DeleteFails(t)
  <2>1. UNCHANGED <<allocated, up, dstate, claimed, pc, mine, todo, verdict>>
    BY <1>3 DEF DeleteTarget, DeleteFails, registry, process, resolver, request
  <2>2. CASE UNCHANGED durable
    BY <2>1, <2>2, FrameRaceInv DEF durable, request
  <2>3. CASE EraseTarget(t)
    <3>1. /\ deleted' = deleted \cup {t}
          /\ \A x \in Slots : row'[x] = IF x[1] = t THEN NoReq ELSE row[x]
          /\ durAborted' = {x \in durAborted : x[1] # t}
          /\ durIssued' = [durIssued EXCEPT ![t] = 0]
      BY <2>3 DEF EraseTarget
    <3>2. CountersBound'
      BY <2>1, <3>1, BoundAssumption DEF CountersBound
    <3>3. DescriptorTruth'
      BY <2>1, <3>1 DEF DescriptorTruth
    <3>4. Ownership'
      BY <2>1, <3>1 DEF Ownership
    <3>5. Answers'
      BY <2>1, <3>1, NoReqAssumption DEF Answers
    <3> QED BY <3>2, <3>3, <3>4, <3>5
  <2> QED BY <1>3, <2>2, <2>3 DEF DeleteTarget, DeleteFails
<1> QED BY <1>1, <1>2, <1>3

\* Death keeps storage and the answers given; restart starts from storage.
LEMMA ProcessRaceInv ==
    ASSUME TypeOK, RaceInv, Abort \/ Exit \/ Crash \/ Restart
    PROVE  RaceInv'
<1> USE DEF TypeOK, RaceInv
<1>1. CASE Restart
  <2>1. \A x \in Slots : dstate[x] = "none"
    BY <1>1 DEF Restart, CountersBound
  <2>2. /\ allocated' = durIssued
        /\ UNCHANGED <<dstate, claimed, request, row, durIssued, durAborted, deleted>>
    BY <1>1 DEF Restart, resolver, durable
  <2>3. CountersBound'
    BY <2>1, <2>2, BoundAssumption DEF CountersBound
  <2>4. DescriptorTruth' /\ Ownership' /\ Answers'
    BY <2>2 DEF DescriptorTruth, Ownership, Answers, request
  <2> QED BY <2>3, <2>4
<1>2. CASE Abort \/ Exit \/ Crash
  <2>1. /\ up' = FALSE
        /\ dstate' = [sl \in Slots |-> "none"]
        /\ claimed' = {}
        /\ pc' = [r \in Requests |-> IF pc[r] \in Live THEN "lost" ELSE pc[r]]
        /\ mine' = [r \in Requests |-> IF pc[r] = "replied" THEN mine[r] ELSE {}]
        /\ todo' = [r \in Requests |-> {}]
        /\ UNCHANGED <<allocated, verdict, row, durIssued, durAborted, deleted>>
    BY <1>2 DEF Abort, Exit, Crash, Die, durable
  <2>2. CountersBound' /\ DescriptorTruth'
    BY <2>1 DEF CountersBound, DescriptorTruth
  <2>3. \A r \in Requests : /\ pc'[r] \notin Live
                           /\ pc'[r] \in {pc[r], "lost"}
                           /\ mine'[r] \subseteq mine[r]
                           /\ pc'[r] = "replied" => pc[r] = "replied" /\ mine'[r] = mine[r]
    BY <2>1 DEF Live
  <2>4. Ownership'
    BY <2>1, <2>3 DEF Ownership, Live
  <2>5. Answers'
    BY <2>1, <2>3 DEF Answers, Live
  <2> QED BY <2>2, <2>4, <2>5
<1> QED BY <1>1, <1>2

\* Every step keeps the strengthening.
LEMMA NextRaceInv ==
    ASSUME TypeOK, TypeOK', RaceInv, [Next]_vars
    PROVE  RaceInv'
<1>1. CASE UNCHANGED vars
  BY <1>1, FrameRaceInv DEF vars, registry, process, resolver, durable
<1>2. ASSUME NEW r \in Requests, Reserve(r) \/ Panic(r) \/ Cancel(r) \/ RequestRuns(r)
      PROVE  RaceInv'
  BY <1>2, ReserveRaceInv, MoveRaceInv, HandOffRaceInv, HandOffLostRaceInv, WriteRaceInv,
     WriteFailsRaceInv, CompleteRaceInv DEF RequestRuns
<1>3. CASE ResolverRuns
  BY <1>3, QuietRaceInv, ClaimRaceInv, TombstoneRaceInv, ResolverFinishRaceInv DEF ResolverRuns
<1>4. ASSUME NEW t \in Targets,
             \/ \E S \in SUBSET Seqs : Acknowledge(t, S)
             \/ CommitSettled(t)
             \/ \E i \in 0..MaxSeq : Register(t, i)
             \/ RetireTarget(t) \/ DeleteTarget(t) \/ DeleteFails(t)
             \/ RetireCommit(t)
      PROVE  RaceInv'
  BY <1>4, QuietRaceInv, TargetRaceInv
<1>5. CASE Shutdown \/ Abort \/ Exit \/ Crash \/ Restart
  BY <1>5, QuietRaceInv, ProcessRaceInv
<1> QED BY <1>1, <1>2, <1>3, <1>4, <1>5 DEF Next

LEMMA RaceInvariant == Spec => [](TypeOK /\ RaceInv)
<1>1. Init => RaceInv
  BY InitRaceInv
<1>2. TypeOK /\ TypeOK' /\ RaceInv /\ [Next]_vars => RaceInv'
  BY NextRaceInv
<1> QED BY <1>1, <1>2, TypeCorrect, PTL DEF Spec

-----------------------------------------------------------------------------
\* A row and a tombstone never share a sequence.
THEOREM RowTombstoneExclusive == Spec => []RowOrTombstone
<1>1. TypeOK /\ RaceInv => RowOrTombstone
  <2> SUFFICES ASSUME TypeOK, RaceInv, NEW sl \in durAborted PROVE row[sl] = NoReq
    BY DEF RowOrTombstone
  <2> QED BY DEF TypeOK, RaceInv, DescriptorTruth
<1> QED BY <1>1, RaceInvariant, PTL

\* aborted_retry_safe is never said of a submission that has or will get a row.
THEOREM AbortedRetrySafe == Spec => []AbortedIsRetrySafe
<1>1. RaceInv => AbortedIsRetrySafe
  BY DEF RaceInv, Answers, AbortedIsRetrySafe
<1> QED BY <1>1, RaceInvariant, PTL

\* An accepted submission is stored, through every crash, until its target is deleted.
THEOREM AcceptedDurable == Spec => []AcceptedIsDurable
<1>1. RaceInv => AcceptedIsDurable
  BY DEF RaceInv, Answers, AcceptedIsDurable
<1> QED BY <1>1, RaceInvariant, PTL
=============================================================================
