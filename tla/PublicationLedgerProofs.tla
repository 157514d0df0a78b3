----------------------- MODULE PublicationLedgerProofs -----------------------
(***************************************************************************)
(* The abort ledger of an inbox never outgrows ABORTED_RANGE_CAPACITY, for *)
(* every capacity and every instance: reserve_batch charges one range for  *)
(* every assignment in flight, and no order of aborts, acknowledgements,   *)
(* deletions, crashes and restarts makes more ranges than were charged.    *)
(*                                                                         *)
(* The first half is about ranges: adding n tombstones adds at most n      *)
(* ranges, and pruning the settled prefix, which may cut a range in two    *)
(* and leave its upper half, adds none.  The second half links the ledger  *)
(* on disk to the one in memory (LedgerLinked): they differ by tombstones  *)
(* whose assignments are still in flight and by what is settled already.   *)
(***************************************************************************)
EXTENDS PublicationPrefixProofs, FiniteSetTheorems

USE DEF Slots

-----------------------------------------------------------------------------
(* Ranges.                                                                 *)

LEMMA RangesFinite ==
    ASSUME NEW S, NEW t
    PROVE  /\ RangeStarts(S, t) \subseteq SeqsOf(S, t)
           /\ IsFiniteSet(RangeStarts(S, t)) /\ Cardinality(RangeStarts(S, t)) \in Nat
           /\ IsFiniteSet(SeqsOf(S, t)) /\ Cardinality(SeqsOf(S, t)) \in Nat
<1>1. IsFiniteSet(Seqs)
  BY FS_Interval, BoundAssumption DEF Seqs
<1>2. RangeStarts(S, t) \subseteq SeqsOf(S, t) /\ SeqsOf(S, t) \subseteq Seqs
  BY DEF RangeStarts, SeqsOf
<1>3. IsFiniteSet(RangeStarts(S, t)) /\ IsFiniteSet(SeqsOf(S, t))
  BY <1>1, <1>2, FS_Subset
<1> QED BY <1>2, <1>3, FS_CardinalityType

\* n more tombstones are at most n more ranges.
LEMMA RangesOfUnion ==
    ASSUME NEW A, NEW X, NEW t
    PROVE  Cardinality(RangeStarts(A \cup X, t)) <=
               Cardinality(RangeStarts(A, t)) + Cardinality(SeqsOf(X, t))
<1>1. PICK R : R = RangeStarts(A, t)
  OBVIOUS
<1>2. PICK F : F = SeqsOf(X, t)
  OBVIOUS
<1>3. PICK U : U = RangeStarts(A \cup X, t)
  OBVIOUS
<1>4. U \subseteq R \cup F
  BY <1>1, <1>2, <1>3 DEF RangeStarts, SeqsOf
<1>5. /\ IsFiniteSet(R) /\ Cardinality(R) \in Nat /\ IsFiniteSet(F) /\ Cardinality(F) \in Nat
      /\ Cardinality(U) \in Nat
  BY <1>1, <1>2, <1>3, RangesFinite
<1>6. IsFiniteSet(R \cup F) /\ Cardinality(R \cup F) = Cardinality(R) + Cardinality(F) - Cardinality(R \cap F)
  BY <1>5, FS_Union
<1>7. IsFiniteSet(R \cap F)
  BY <1>5, FS_Subset
<1>8. Cardinality(R \cap F) \in Nat
  BY <1>7, FS_CardinalityType
<1>9. Cardinality(U) <= Cardinality(R \cup F)
  BY <1>4, <1>6, FS_Subset
<1>10. Cardinality(U) <= Cardinality(R) + Cardinality(F)
  BY <1>5, <1>6, <1>8, <1>9
<1> QED BY <1>1, <1>2, <1>3, <1>10

\* Pruning what is settled may leave the upper half of a range, and then drops the
\* first range: the number of ranges does not grow.
LEMMA RangesOfPruned ==
    ASSUME NEW A \in SUBSET Slots, NEW t \in Targets, NEW v \in 0..MaxSeq
    PROVE  Cardinality(RangeStarts(Pruned(A, t, v), t)) <= Cardinality(RangeStarts(A, t))
<1>1. PICK R : R = RangeStarts(A, t)
  OBVIOUS
<1>2. PICK P : P = RangeStarts(Pruned(A, t, v), t)
  OBVIOUS
<1>3. IsFiniteSet(R) /\ Cardinality(R) \in Nat /\ IsFiniteSet(P) /\ Cardinality(P) \in Nat
  BY <1>1, <1>2, RangesFinite
<1>4. \A s \in Seqs : /\ s \in R <=> <<t, s>> \in A /\ <<t, s - 1>> \notin A
                      /\ s \in P <=> /\ <<t, s>> \in A /\ s > v
                                     /\ ~(<<t, s - 1>> \in A /\ s - 1 > v)
  BY <1>1, <1>2 DEF RangeStarts, SeqsOf, Pruned
<1>5. R \subseteq Seqs /\ P \subseteq Seqs
  BY <1>1, <1>2 DEF RangeStarts, SeqsOf
<1>6. \A s \in Seqs : s \in Nat /\ s >= 1
  BY BoundAssumption DEF Seqs
<1>7. v \in Nat
  BY BoundAssumption
<1>8. \A s \in P : s \in R \/ s = v + 1
  <2> SUFFICES ASSUME NEW s \in P, s \notin R PROVE s = v + 1
    OBVIOUS
  <2>1. s \in Seqs /\ s \in Nat /\ s > v /\ ~(s - 1 > v)
    BY <1>4, <1>5, <1>6
  <2> QED BY <1>7, <2>1
<1>9. CASE P \subseteq R
  <2>1. Cardinality(P) <= Cardinality(R)
    BY <1>3, <1>9, FS_Subset
  <2> QED BY <1>1, <1>2, <2>1
<1>10. CASE ~(P \subseteq R)
  <2>1. v + 1 \in P /\ v + 1 \notin R
    BY <1>8, <1>10
  <2>2. v + 1 \in Seqs /\ <<t, v>> \in A
    <3>1. v + 1 \in Seqs
      BY <1>5, <2>1
    <3>2. <<t, (v + 1) - 1>> \in A
      BY <1>4, <2>1, <3>1
    <3>3. (v + 1) - 1 = v
      BY <1>7
    <3> QED BY <3>1, <3>2, <3>3
  <2>3. PICK S : S = SeqsOf(A, t)
    OBVIOUS
  <2>4. v \in S /\ S \in SUBSET Seqs
    <3>1. v \in Seqs
      BY <2>2
    <3> QED BY <2>2, <2>3, <3>1 DEF SeqsOf
  <2>5. PICK m : m = Min(S)
    OBVIOUS
  <2>6. m \in S /\ \A x \in S : m <= x
    BY <2>4, <2>5, LeastSeq
  <2>7. m \in R
    <3>1. m \in Seqs /\ <<t, m>> \in A /\ m \in Nat
      BY <1>6, <2>3, <2>4, <2>6 DEF SeqsOf
    <3>2. <<t, m - 1>> \notin A
      <4> SUFFICES ASSUME <<t, m - 1>> \in A PROVE FALSE
        OBVIOUS
      <4>1. m - 1 \in Seqs
        OBVIOUS
      <4>2. m - 1 \in S
        BY <2>3, <4>1 DEF SeqsOf
      <4>3. m <= m - 1
        BY <2>6, <4>2
      <4> QED BY <3>1, <4>3
    <3> QED BY <1>4, <3>1, <3>2
  <2>8. m \notin P
    <3>1. m <= v /\ m \in Seqs /\ m \in Nat
      BY <1>6, <2>4, <2>6
    <3>2. ~(m > v)
      BY <1>7, <3>1
    <3> QED BY <1>4, <3>1, <3>2
  <2>9. P \subseteq (R \ {m}) \cup {v + 1}
    BY <1>8, <2>8
  <2>10. IsFiniteSet(R \ {m}) /\ Cardinality(R \ {m}) = Cardinality(R) - 1
    BY <1>3, <2>7, FS_RemoveElement
  <2>11. /\ IsFiniteSet((R \ {m}) \cup {v + 1})
         /\ Cardinality((R \ {m}) \cup {v + 1}) = Cardinality(R \ {m}) + 1
    BY <2>1, <2>10, FS_AddElement
  <2>12. Cardinality(P) <= Cardinality((R \ {m}) \cup {v + 1})
    BY <2>9, <2>11, FS_Subset
  <2>13. Cardinality(P) <= Cardinality(R)
    BY <1>3, <2>10, <2>11, <2>12
  <2> QED BY <1>1, <1>2, <2>13
<1> QED BY <1>9, <1>10

\* A ledger on disk that differs from the one in memory by assignments in flight and
\* by what is settled has no more ranges than the memory is charged for.
LEMMA DiskWithinCharge ==
    ASSUME NEW D \in SUBSET Slots, NEW A \in SUBSET Slots, NEW F \in SUBSET Slots,
           NEW t \in Targets, NEW v \in 0..MaxSeq,
           \A s \in Seqs : <<t, s>> \in D => s > v /\ (<<t, s>> \in A \/ <<t, s>> \in F),
           \A s \in Seqs : <<t, s>> \in A => <<t, s>> \in D \/ s <= v
    PROVE  Cardinality(RangeStarts(D, t)) <=
               Cardinality(RangeStarts(A, t)) + Cardinality(SeqsOf(F, t))
<1>1. PICK X : X = D \cap F
  OBVIOUS
<1>2. PICK P : P = Pruned(A \cup X, t, v)
  OBVIOUS
<1>3. v \in Nat /\ \A s \in Seqs : s \in Nat
  BY BoundAssumption DEF Seqs
<1>4. \A s \in Seqs : <<t, s>> \in D <=> <<t, s>> \in P
  <2> SUFFICES ASSUME NEW s \in Seqs PROVE <<t, s>> \in D <=> <<t, s>> \in P
    OBVIOUS
  <2>1. <<t, s>> \in P <=> (<<t, s>> \in A \/ <<t, s>> \in X) /\ s > v
    BY <1>2 DEF Pruned
  <2>2. s <= v => ~(s > v)
    BY <1>3
  <2> QED BY <1>1, <2>1, <2>2
<1>5. A \cup X \in SUBSET Slots /\ P \in SUBSET Slots
  BY <1>1, <1>2 DEF Pruned
<1>6. \A s : <<t, s>> \in D <=> <<t, s>> \in P
  BY <1>4, <1>5
<1>7. RangeStarts(D, t) = RangeStarts(P, t)
  BY <1>6 DEF RangeStarts, SeqsOf
<1>8. Cardinality(RangeStarts(P, t)) <= Cardinality(RangeStarts(A \cup X, t))
  BY <1>2, <1>5, RangesOfPruned
<1>9. Cardinality(RangeStarts(A \cup X, t)) <=
          Cardinality(RangeStarts(A, t)) + Cardinality(SeqsOf(X, t))
  BY RangesOfUnion
<1>10. Cardinality(SeqsOf(X, t)) <= Cardinality(SeqsOf(F, t))
  <2>1. SeqsOf(X, t) \subseteq SeqsOf(F, t)
    BY <1>1 DEF SeqsOf
  <2> QED BY <2>1, RangesFinite, FS_Subset
<1>11. /\ Cardinality(RangeStarts(D, t)) \in Nat /\ Cardinality(RangeStarts(P, t)) \in Nat
       /\ Cardinality(RangeStarts(A \cup X, t)) \in Nat /\ Cardinality(RangeStarts(A, t)) \in Nat
       /\ Cardinality(SeqsOf(X, t)) \in Nat /\ Cardinality(SeqsOf(F, t)) \in Nat
  BY RangesFinite
<1> QED BY <1>7, <1>8, <1>9, <1>10, <1>11

-----------------------------------------------------------------------------
(* The ledger on disk and the ledger in memory.                            *)

LedgerLinked ==
    /\ \A t \in Targets \ deleted, s \in Seqs : <<t, s>> \in durAborted => s > durSettled[t]
    /\ up => \A t \in Targets \ deleted, s \in Seqs :
          /\ <<t, s>> \in durAborted => <<t, s>> \in aborted \/ <<t, s>> \in inflight
          /\ <<t, s>> \in aborted => <<t, s>> \in durAborted \/ s <= durSettled[t]
    /\ \A t \in deleted, s \in Seqs : <<t, s>> \notin durAborted

\* What reserve_batch charges an inbox for.
Charged ==
    \A t \in Targets :
        Cardinality(RangeStarts(aborted, t)) + Cardinality(SeqsOf(inflight, t)) <= Capacity

OnDisk == \A t \in Targets : Cardinality(RangeStarts(durAborted, t)) <= Capacity

LedgerInv == LedgerLinked /\ Charged /\ OnDisk

LEMMA NoRanges ==
    ASSUME NEW S, NEW t, \A s \in Seqs : <<t, s>> \notin S
    PROVE  Cardinality(RangeStarts(S, t)) = 0 /\ Cardinality(SeqsOf(S, t)) = 0
<1>1. RangeStarts(S, t) = {} /\ SeqsOf(S, t) = {}
  BY DEF RangeStarts, SeqsOf
<1> QED BY <1>1, FS_EmptySet

LEMMA InitLedgerInv == Init => LedgerInv
<1> SUFFICES ASSUME Init PROVE LedgerInv
  OBVIOUS
<1>1. LedgerLinked
  BY DEF Init, LedgerLinked
<1>2. \A t \in Targets : /\ Cardinality(RangeStarts(aborted, t)) = 0
                         /\ Cardinality(RangeStarts(durAborted, t)) = 0
                         /\ Cardinality(SeqsOf(inflight, t)) = 0
  BY NoRanges DEF Init
<1>3. Charged /\ OnDisk
  BY <1>2, BoundAssumption DEF Charged, OnDisk
<1> QED BY <1>1, <1>3 DEF LedgerInv

\* In a running process the disk is within what memory is charged for.
LEMMA DiskFollows ==
    ASSUME TypeOK', LedgerLinked', Charged', up'
    PROVE  LedgerInv'
<1>1. ASSUME NEW t \in Targets PROVE Cardinality(RangeStarts(durAborted', t)) <= Capacity
  <2>1. /\ durAborted' \in SUBSET Slots /\ aborted' \in SUBSET Slots /\ inflight' \in SUBSET Slots
        /\ durSettled'[t] \in 0..MaxSeq
    BY DEF TypeOK
  <2>2. CASE t \in deleted'
    <3>1. Cardinality(RangeStarts(durAborted', t)) = 0
      BY <2>2, NoRanges DEF LedgerLinked
    <3> QED BY <3>1, BoundAssumption
  <2>3. CASE t \notin deleted'
    <3>1. Cardinality(RangeStarts(durAborted', t)) <=
              Cardinality(RangeStarts(aborted', t)) + Cardinality(SeqsOf(inflight', t))
      <4>1. \A s \in Seqs : <<t, s>> \in durAborted' =>
               s > durSettled'[t] /\ (<<t, s>> \in aborted' \/ <<t, s>> \in inflight')
        BY <2>3 DEF LedgerLinked
      <4>2. \A s \in Seqs : <<t, s>> \in aborted' => <<t, s>> \in durAborted' \/ s <= durSettled'[t]
        BY <2>3 DEF LedgerLinked
      <4> QED BY <2>1, <4>1, <4>2, DiskWithinCharge
    <3>2. Cardinality(RangeStarts(aborted', t)) + Cardinality(SeqsOf(inflight', t)) <= Capacity
      BY DEF Charged
    <3>3. /\ Cardinality(RangeStarts(durAborted', t)) \in Nat
          /\ Cardinality(RangeStarts(aborted', t)) \in Nat
          /\ Cardinality(SeqsOf(inflight', t)) \in Nat
      BY RangesFinite
    <3> QED BY <3>1, <3>2, <3>3, BoundAssumption
  <2> QED BY <2>2, <2>3
<1>2. OnDisk'
  BY <1>1 DEF OnDisk
<1> QED BY <1>2 DEF LedgerInv

\* Steps that leave both ledgers alone.
LEMMA FrameLedger ==
    ASSUME LedgerInv, UNCHANGED <<aborted, inflight, durAborted, durSettled, deleted, up>>
    PROVE  LedgerInv'
BY DEF LedgerInv, LedgerLinked, Charged, OnDisk

LEMMA QuietLedger ==
    ASSUME LedgerInv,
           \/ \E r \in Requests :
                 \/ Panic(r) \/ Cancel(r) \/ Refuse(r) \/ Reply(r) \/ Write(r) \/ WriteFails(r)
                 \/ \E sl \in Slots : \/ HandOff(r, sl) \/ HandOffLost(r, sl) \/ Accept(r, sl)
                                      \/ DefiniteNonWrite(r, sl)
           \/ ResolverScan \/ ResolverEnd \/ Shutdown
           \/ \E sl \in Slots : ResolverLoad(sl)
           \/ \E c \in cand : ResolverClaim(c)
           \/ \E t \in Targets : RetireTarget(t) \/ \E i \in 0..MaxSeq : Register(t, i)
    PROVE  LedgerInv'
<1>1. UNCHANGED <<aborted, inflight, durAborted, durSettled, deleted, up>>
  BY DEF Panic, Cancel, Refuse, Reply, Write, WriteFails, HandOff, HandOffLost, Accept,
         DefiniteNonWrite, ResolverScan, ResolverEnd, Shutdown, ResolverLoad, ResolverClaim,
         RetireTarget, Register, registry, process, durable
<1> QED BY <1>1, FrameLedger

\* A reservation is charged before it is made.
LEMMA ReserveLedger ==
    ASSUME TypeOK, TypeOK', LedgerInv, NEW r \in Requests, Reserve(r)
    PROVE  LedgerInv'
<1>1. /\ up' /\ inflight' = inflight \cup {<<t, allocated[t] + 1>> : t \in Batch[r]}
      /\ \A t \in Batch[r] :
            Cardinality(RangeStarts(aborted, t)) + Cardinality(SeqsOf(inflight, t)) < Capacity
      /\ UNCHANGED <<aborted, durAborted, durSettled, deleted, up>>
  BY DEF Reserve, HasRoom, process, durable
<1>2. LedgerLinked'
  BY <1>1 DEF LedgerInv, LedgerLinked
<1>3. ASSUME NEW t \in Targets
      PROVE  Cardinality(RangeStarts(aborted, t)) + Cardinality(SeqsOf(inflight', t)) <= Capacity
  <2>1. /\ IsFiniteSet(SeqsOf(inflight, t)) /\ Cardinality(SeqsOf(inflight, t)) \in Nat
        /\ Cardinality(RangeStarts(aborted, t)) \in Nat /\ Cardinality(SeqsOf(inflight', t)) \in Nat
    BY RangesFinite
  <2>2. CASE t \notin Batch[r]
    <3>1. SeqsOf(inflight', t) = SeqsOf(inflight, t)
      BY <1>1, <2>2 DEF SeqsOf
    <3> QED BY <3>1 DEF LedgerInv, Charged
  <2>3. CASE t \in Batch[r]
    <3>1. SeqsOf(inflight', t) \subseteq SeqsOf(inflight, t) \cup {allocated[t] + 1}
      BY <1>1 DEF SeqsOf
    <3>2. /\ IsFiniteSet(SeqsOf(inflight, t) \cup {allocated[t] + 1})
          /\ Cardinality(SeqsOf(inflight, t) \cup {allocated[t] + 1}) \in
                {Cardinality(SeqsOf(inflight, t)), Cardinality(SeqsOf(inflight, t)) + 1}
      BY <2>1, FS_AddElement
    <3>3. Cardinality(SeqsOf(inflight', t)) <= Cardinality(SeqsOf(inflight, t) \cup {allocated[t] + 1})
      BY <3>1, <3>2, FS_Subset
    <3>4. Cardinality(RangeStarts(aborted, t)) + Cardinality(SeqsOf(inflight, t)) < Capacity
      BY <1>1, <2>3
    <3> QED BY <2>1, <3>2, <3>3, <3>4, BoundAssumption
  <2> QED BY <2>2, <2>3
<1>4. Charged'
  BY <1>1, <1>3 DEF Charged
<1> QED BY <1>1, <1>2, <1>4, DiskFollows

\* A resolved assignment is no longer charged; one that was aborted leaves at most one
\* range in its place.
LEMMA FinishCharge ==
    ASSUME TypeOK, Charged, NEW sl \in Slots, sl \in inflight, inflight' = inflight \ {sl},
           aborted' = aborted \/ aborted' = aborted \cup {sl}
    PROVE  Charged'
<1> SUFFICES ASSUME NEW t \in Targets
             PROVE  Cardinality(RangeStarts(aborted', t)) + Cardinality(SeqsOf(inflight', t)) <= Capacity
  BY DEF Charged
<1>0. Cardinality(RangeStarts(aborted, t)) + Cardinality(SeqsOf(inflight, t)) <= Capacity
  BY DEF Charged
<1>1. /\ IsFiniteSet(SeqsOf(inflight, t)) /\ Cardinality(SeqsOf(inflight, t)) \in Nat
      /\ Cardinality(RangeStarts(aborted, t)) \in Nat /\ Cardinality(SeqsOf(inflight', t)) \in Nat
      /\ Cardinality(RangeStarts(aborted', t)) \in Nat
      /\ IsFiniteSet(SeqsOf({sl}, t)) /\ Cardinality(SeqsOf({sl}, t)) \in Nat
  BY RangesFinite
<1>2. PICK u \in Targets, s \in Seqs : sl = <<u, s>>
  OBVIOUS
<1>3. CASE t # u
  <2>1. SeqsOf(inflight', t) = SeqsOf(inflight, t) /\ RangeStarts(aborted', t) = RangeStarts(aborted, t)
    BY <1>2, <1>3 DEF SeqsOf, RangeStarts
  <2> QED BY <1>0, <2>1
<1>4. CASE t = u
  <2>1. SeqsOf(inflight', t) = SeqsOf(inflight, t) \ {s} /\ s \in SeqsOf(inflight, t)
    BY <1>2, <1>4 DEF SeqsOf
  <2>2. Cardinality(SeqsOf(inflight', t)) = Cardinality(SeqsOf(inflight, t)) - 1
    BY <1>1, <2>1, FS_RemoveElement
  <2>3. SeqsOf({sl}, t) = {s}
    BY <1>2, <1>4 DEF SeqsOf
  <2>4. Cardinality(SeqsOf({sl}, t)) = 1
    BY <2>3, FS_Singleton
  <2>5. Cardinality(RangeStarts(aborted \cup {sl}, t)) <= Cardinality(RangeStarts(aborted, t)) + 1
    BY <2>4, RangesOfUnion
  <2>6. Cardinality(RangeStarts(aborted', t)) <= Cardinality(RangeStarts(aborted, t)) + 1
    <3>1. CASE aborted' = aborted
      BY <1>1, <3>1
    <3>2. CASE aborted' = aborted \cup {sl}
      BY <2>5, <3>2
    <3> QED BY <3>1, <3>2
  <2> QED BY <1>0, <1>1, <2>2, <2>6, BoundAssumption
<1> QED BY <1>3, <1>4

LEMMA FinishLedger ==
    ASSUME TypeOK, TypeOK', RaceInv, PrefixInv, LedgerInv, NEW sl \in Slots,
           (\E r \in Requests : FinishAccepted(r, sl)) \/ ResolverFinish(sl)
    PROVE  LedgerInv'
<1>0. up /\ up' /\ UNCHANGED <<durAborted, durSettled, deleted, up>>
  <2>1. CASE ResolverFinish(sl)
    BY <2>1 DEF ResolverFinish, process, durable
  <2>2. ASSUME NEW r \in Requests, FinishAccepted(r, sl)
        PROVE  up /\ up' /\ UNCHANGED <<durAborted, durSettled, deleted, up>>
    BY <2>2 DEF FinishAccepted, process, durable
  <2> QED BY <2>1, <2>2
<1>1. CASE fenced
  <2>1. UNCHANGED <<aborted, inflight>>
    BY <1>1 DEF FinishAccepted, ResolverFinish, Finish
  <2> QED BY <1>0, <2>1, FrameLedger
<1>2. CASE ~fenced /\ ResolverFinish(sl)
  <2>1. /\ sl \in claimed /\ rpc = "finish"
        /\ inflight' = inflight \ {sl} /\ aborted' = aborted \cup {sl}
    BY <1>2 DEF ResolverFinish, Finish
  <2>2. sl \in inflight
    BY <2>1 DEF RaceInv, DescriptorTruth, PrefixInv, InFlight, Undecided
  <2>3. Charged'
    BY <2>1, <2>2, FinishCharge DEF LedgerInv
  <2>4. sl \in durAborted \/ sl[1] \in deleted \/ sl[2] <= durSettled[sl[1]]
    BY <2>1 DEF PrefixInv, Resolved
  <2>5. LedgerLinked'
    BY <1>0, <2>1, <2>4 DEF LedgerInv, LedgerLinked
  <2> QED BY <1>0, <2>3, <2>5, DiskFollows
<1>3. CASE ~fenced /\ \E r \in Requests : FinishAccepted(r, sl)
  <2>1. dstate[sl] = "Accepted" /\ inflight' = inflight \ {sl} /\ aborted' = aborted
    BY <1>3 DEF FinishAccepted, Finish
  <2>2. sl \notin durAborted
    BY <2>1 DEF RaceInv, DescriptorTruth
  <2>3. LedgerLinked'
    BY <1>0, <2>1, <2>2 DEF LedgerInv, LedgerLinked
  <2>4. Charged'
    <3>1. CASE sl \in inflight
      BY <2>1, <3>1, FinishCharge DEF LedgerInv
    <3>2. CASE sl \notin inflight
      <4>1. inflight' = inflight
        BY <2>1, <3>2
      <4> QED BY <2>1, <4>1 DEF LedgerInv, Charged
    <3> QED BY <3>1, <3>2
  <2> QED BY <1>0, <2>3, <2>4, DiskFollows
<1> QED BY <1>1, <1>2, <1>3

\* Tombstones are written for claimed assignments, which are in flight.
LEMMA TombstoneLedger ==
    ASSUME TypeOK, TypeOK', RaceInv, PrefixInv, LedgerInv, ResolverAbort \/ ResolverAbortFails
    PROVE  LedgerInv'
<1>1. /\ up /\ UNCHANGED <<aborted, inflight, durSettled, deleted, up>>
      /\ durAborted' = durAborted \cup claimed \/ durAborted' = durAborted
  BY DEF ResolverAbort, ResolverAbortFails, StoreTombstones, registry, process
<1>2. \A t \in Targets, s \in Seqs : <<t, s>> \in claimed =>
         <<t, s>> \in inflight /\ t \notin deleted /\ s > durSettled[t]
  <2> SUFFICES ASSUME NEW t \in Targets, NEW s \in Seqs, <<t, s>> \in claimed
               PROVE  <<t, s>> \in inflight /\ t \notin deleted /\ s > durSettled[t]
    OBVIOUS
  <2>1. <<t, s>> \in inflight
    BY DEF RaceInv, DescriptorTruth, PrefixInv, InFlight, Undecided
  <2>2. t \notin deleted /\ published[t] < s
    BY <2>1 DEF PrefixInv, InFlight
  <2>3. durSettled[t] <= published[t]
    BY <2>2 DEF PrefixInv, Ordered
  <2>4. published[t] \in Nat /\ durSettled[t] \in Nat /\ s \in Nat
    BY BoundAssumption DEF TypeOK, Seqs
  <2> QED BY <2>1, <2>2, <2>3, <2>4
<1>3. deleted \subseteq Targets
  BY DEF TypeOK
<1>4. LedgerLinked'
  BY <1>1, <1>2, <1>3 DEF LedgerInv, LedgerLinked
<1>5. Charged' /\ up'
  BY <1>1 DEF LedgerInv, Charged
<1> QED BY <1>4, <1>5, DiskFollows

\* Settling prunes the disk first and the registry later.
LEMMA SettleLedger ==
    ASSUME TypeOK, TypeOK', PrefixInv, LedgerInv, NEW t \in Targets,
           (\E S \in SUBSET Seqs : Acknowledge(t, S)) \/ CommitSettled(t)
    PROVE  LedgerInv'
<1>0. \A u \in Targets : /\ durSettled[u] \in Nat /\ durSettled'[u] \in Nat /\ ackPend[u] \in 0..MaxSeq
                         /\ ackPend[u] \in Nat
  BY BoundAssumption DEF TypeOK
<1>1. \A s \in Seqs : s \in Nat
  BY BoundAssumption DEF Seqs
<1>2. ASSUME NEW S \in SUBSET Seqs, Acknowledge(t, S) PROVE LedgerInv'
  <2>1. UNCHANGED <<aborted, inflight, deleted, up>>
    BY <1>2 DEF Acknowledge, registry, process
  <2>2. /\ t \notin deleted /\ up
        /\ \A u \in Targets : /\ durSettled[u] <= durSettled'[u]
                              /\ u # t => durSettled'[u] = durSettled[u]
        /\ \A u \in Targets, s \in Seqs : <<u, s>> \in durAborted' <=>
              <<u, s>> \in durAborted /\ (u # t \/ s > durSettled'[t])
    BY <1>2, AcknowledgeSettles
  <2>3. LedgerLinked'
    <3>1. ASSUME NEW u \in Targets \ deleted, NEW s \in Seqs
          PROVE  /\ <<u, s>> \in durAborted' =>
                       s > durSettled'[u] /\ (<<u, s>> \in aborted \/ <<u, s>> \in inflight)
                 /\ <<u, s>> \in aborted => <<u, s>> \in durAborted' \/ s <= durSettled'[u]
      <4>1. /\ <<u, s>> \in durAborted =>
                  s > durSettled[u] /\ (<<u, s>> \in aborted \/ <<u, s>> \in inflight)
            /\ <<u, s>> \in aborted => <<u, s>> \in durAborted \/ s <= durSettled[u]
        BY <2>2 DEF LedgerInv, LedgerLinked
      <4>2. CASE u = t
        BY <1>0, <1>1, <2>2, <4>1, <4>2
      <4>3. CASE u # t
        BY <2>2, <4>1, <4>3
      <4> QED BY <4>2, <4>3
    <3>2. \A u \in deleted, s \in Seqs : <<u, s>> \notin durAborted'
      BY <2>2 DEF LedgerInv, LedgerLinked, TypeOK
    <3> QED BY <2>1, <3>1, <3>2 DEF LedgerLinked
  <2>4. Charged' /\ up'
    BY <2>1, <2>2 DEF LedgerInv, Charged
  <2> QED BY <2>3, <2>4, DiskFollows
<1>3. CASE CommitSettled(t)
  <2>1. /\ up /\ aborted' = Pruned(aborted, t, ackPend[t])
        /\ UNCHANGED <<inflight, durAborted, durSettled, deleted, up>>
    BY <1>3 DEF CommitSettled, process, durable
  <2>2. \A u \in Targets, s \in Seqs : <<u, s>> \in aborted' <=>
           <<u, s>> \in aborted /\ (u # t \/ s > ackPend[t])
    BY <2>1 DEF Pruned
  <2>3. LedgerLinked'
    <3>1. ASSUME NEW u \in Targets \ deleted, NEW s \in Seqs
          PROVE  /\ <<u, s>> \in durAborted => <<u, s>> \in aborted' \/ <<u, s>> \in inflight
                 /\ <<u, s>> \in aborted' => <<u, s>> \in durAborted \/ s <= durSettled[u]
      <4>1. /\ <<u, s>> \in durAborted =>
                  s > durSettled[u] /\ (<<u, s>> \in aborted \/ <<u, s>> \in inflight)
            /\ <<u, s>> \in aborted => <<u, s>> \in durAborted \/ s <= durSettled[u]
        BY <2>1 DEF LedgerInv, LedgerLinked
      <4>2. ackPend[u] <= durSettled[u]
        BY DEF PrefixInv, Ordered
      <4>3. s > durSettled[u] => s > ackPend[u]
        BY <1>0, <1>1, <4>2
      <4> QED BY <2>2, <4>1, <4>3
    <3> QED BY <2>1, <3>1 DEF LedgerInv, LedgerLinked
  <2>4. ASSUME NEW u \in Targets
        PROVE  Cardinality(RangeStarts(aborted', u)) + Cardinality(SeqsOf(inflight, u)) <= Capacity
    <3>1. Cardinality(RangeStarts(aborted', u)) <= Cardinality(RangeStarts(aborted, u))
      <4>1. CASE u = t
        <5>1. aborted \in SUBSET Slots /\ ackPend[t] \in 0..MaxSeq
          BY DEF TypeOK
        <5> QED BY <2>1, <4>1, <5>1, RangesOfPruned
      <4>2. CASE u # t
        <5>1. RangeStarts(aborted', u) = RangeStarts(aborted, u)
          BY <2>1, <4>2 DEF Pruned, RangeStarts, SeqsOf
        <5> QED BY <5>1, RangesFinite
      <4> QED BY <4>1, <4>2
    <3>2. Cardinality(RangeStarts(aborted, u)) + Cardinality(SeqsOf(inflight, u)) <= Capacity
      BY DEF LedgerInv, Charged
    <3>3. /\ Cardinality(RangeStarts(aborted', u)) \in Nat /\ Cardinality(RangeStarts(aborted, u)) \in Nat
          /\ Cardinality(SeqsOf(inflight, u)) \in Nat
      BY RangesFinite
    <3> QED BY <3>1, <3>2, <3>3, BoundAssumption
  <2>5. Charged' /\ up'
    BY <2>1, <2>4 DEF Charged
  <2> QED BY <2>3, <2>5, DiskFollows
<1> QED BY <1>2, <1>3

LEMMA DeleteLedger ==
    ASSUME TypeOK, TypeOK', LedgerInv, NEW t \in Targets,
           DeleteTarget(t) \/ DeleteFails(t) \/ RetireCommit(t)
    PROVE  LedgerInv'
<1>1. CASE DeleteTarget(t) \/ DeleteFails(t)
  <2>1. up /\ UNCHANGED <<aborted, inflight, up>> /\ (EraseTarget(t) \/ UNCHANGED durable)
    BY <1>1 DEF DeleteTarget, DeleteFails, registry, process
  <2>2. CASE UNCHANGED durable
    BY <2>1, <2>2, FrameLedger DEF durable
  <2>3. CASE EraseTarget(t)
    <3>1. /\ deleted' = deleted \cup {t} /\ durAborted' = {sl \in durAborted : sl[1] # t}
          /\ \A u \in Targets : u # t => durSettled'[u] = durSettled[u]
      BY <2>3 DEF EraseTarget, TypeOK
    <3>2. \A u \in Targets, s \in Seqs : <<u, s>> \in durAborted' <=> <<u, s>> \in durAborted /\ u # t
      BY <3>1
    <3>3. LedgerLinked'
      BY <2>1, <3>1, <3>2 DEF LedgerInv, LedgerLinked, TypeOK
    <3>4. Charged' /\ up'
      BY <2>1 DEF LedgerInv, Charged
    <3> QED BY <3>3, <3>4, DiskFollows
  <2> QED BY <2>1, <2>2, <2>3
<1>2. CASE RetireCommit(t)
  <2>1. /\ up /\ t \in deleted /\ aborted' = {sl \in aborted : sl[1] # t}
        /\ UNCHANGED <<inflight, durAborted, durSettled, deleted, up>>
    BY <1>2 DEF RetireCommit, process, durable
  <2>2. LedgerLinked'
    BY <2>1 DEF LedgerInv, LedgerLinked
  <2>3. ASSUME NEW u \in Targets
        PROVE  Cardinality(RangeStarts(aborted', u)) + Cardinality(SeqsOf(inflight, u)) <= Capacity
    <3>0. Cardinality(RangeStarts(aborted, u)) + Cardinality(SeqsOf(inflight, u)) <= Capacity
      BY DEF LedgerInv, Charged
    <3>1. CASE u = t
      <4>1. Cardinality(RangeStarts(aborted', u)) = 0
        BY <2>1, <3>1, NoRanges
      <4>2. Cardinality(RangeStarts(aborted, u)) \in Nat /\ Cardinality(SeqsOf(inflight, u)) \in Nat
        BY RangesFinite
      <4> QED BY <3>0, <4>1, <4>2, BoundAssumption
    <3>2. CASE u # t
      <4>1. RangeStarts(aborted', u) = RangeStarts(aborted, u)
        BY <2>1, <3>2 DEF RangeStarts, SeqsOf
      <4> QED BY <3>0, <4>1
    <3> QED BY <3>1, <3>2
  <2>4. Charged' /\ up'
    BY <2>1, <2>3 DEF Charged
  <2> QED BY <2>2, <2>4, DiskFollows
<1> QED BY <1>1, <1>2

\* Death keeps the disk as it is; the restarted registry reads it.
LEMMA ProcessLedger ==
    ASSUME TypeOK, PrefixInv, LedgerInv, Abort \/ Exit \/ Crash \/ Restart
    PROVE  LedgerInv'
<1>1. CASE Abort \/ Exit \/ Crash
  <2>1. up' = FALSE /\ inflight' = {} /\ UNCHANGED <<aborted, durAborted, durSettled, deleted>>
    BY <1>1 DEF Abort, Exit, Crash, Die, durable
  <2>2. LedgerLinked' /\ OnDisk'
    BY <2>1 DEF LedgerInv, LedgerLinked, OnDisk
  <2>3. ASSUME NEW t \in Targets
        PROVE  Cardinality(RangeStarts(aborted', t)) + Cardinality(SeqsOf(inflight', t)) <= Capacity
    <3>1. Cardinality(SeqsOf(inflight', t)) = 0
      BY <2>1, NoRanges
    <3>2. Cardinality(RangeStarts(aborted, t)) + Cardinality(SeqsOf(inflight, t)) <= Capacity
      BY DEF LedgerInv, Charged
    <3>3. Cardinality(RangeStarts(aborted, t)) \in Nat /\ Cardinality(SeqsOf(inflight, t)) \in Nat
      BY RangesFinite
    <3> QED BY <2>1, <3>1, <3>2, <3>3, BoundAssumption
  <2>4. Charged'
    BY <2>3 DEF Charged
  <2> QED BY <2>2, <2>4 DEF LedgerInv
<1>2. CASE Restart
  <2>1. ~up /\ aborted' = durAborted /\ UNCHANGED <<inflight, durAborted, durSettled, deleted>>
    BY <1>2 DEF Restart, durable
  <2>2. inflight = {}
    BY <2>1 DEF PrefixInv, InFlight
  <2>3. LedgerLinked' /\ OnDisk'
    BY <2>1 DEF LedgerInv, LedgerLinked, OnDisk
  <2>4. ASSUME NEW t \in Targets
        PROVE  Cardinality(RangeStarts(aborted', t)) + Cardinality(SeqsOf(inflight', t)) <= Capacity
    <3>1. Cardinality(SeqsOf(inflight', t)) = 0
      BY <2>1, <2>2, NoRanges
    <3>2. Cardinality(RangeStarts(durAborted, t)) <= Capacity
      BY DEF LedgerInv, OnDisk
    <3>3. Cardinality(RangeStarts(durAborted, t)) \in Nat
      BY RangesFinite
    <3> QED BY <2>1, <3>1, <3>2, <3>3, BoundAssumption
  <2>5. Charged'
    BY <2>4 DEF Charged
  <2> QED BY <2>3, <2>5 DEF LedgerInv
<1> QED BY <1>1, <1>2

LEMMA NextLedgerInv ==
    ASSUME TypeOK, TypeOK', RaceInv, PrefixInv, LedgerInv, [Next]_vars
    PROVE  LedgerInv'
<1>1. CASE UNCHANGED vars
  BY <1>1, FrameLedger DEF vars, registry, process, durable
<1>2. ASSUME NEW r \in Requests, Reserve(r) \/ Panic(r) \/ Cancel(r) \/ RequestRuns(r)
      PROVE  LedgerInv'
  BY <1>2, ReserveLedger, FinishLedger, QuietLedger DEF RequestRuns
<1>3. CASE ResolverRuns
  BY <1>3, QuietLedger, TombstoneLedger, FinishLedger DEF ResolverRuns
<1>4. ASSUME NEW t \in Targets,
             \/ \E S \in SUBSET Seqs : Acknowledge(t, S)
             \/ CommitSettled(t)
             \/ \E i \in 0..MaxSeq : Register(t, i)
             \/ RetireTarget(t) \/ DeleteTarget(t) \/ DeleteFails(t)
             \/ RetireCommit(t)
      PROVE  LedgerInv'
  BY <1>4, QuietLedger, SettleLedger, DeleteLedger
<1>5. CASE Shutdown \/ Abort \/ Exit \/ Crash \/ Restart
  BY <1>5, QuietLedger, ProcessLedger
<1> QED BY <1>1, <1>2, <1>3, <1>4, <1>5 DEF Next

\* Neither the ledger on disk, in any crash state, nor the one in memory with every
\* assignment in flight aborted, outgrows the capacity reserve_batch charges against.
THEOREM LedgerStaysWithinCapacity == Spec => []LedgerFits
<1>1. Init => LedgerInv
  BY InitLedgerInv
<1>2. TypeOK /\ TypeOK' /\ RaceInv /\ PrefixInv /\ LedgerInv /\ [Next]_vars => LedgerInv'
  BY NextLedgerInv
<1>3. LedgerInv => LedgerFits
  BY DEF LedgerInv, Charged, OnDisk, LedgerFits
<1> QED BY <1>1, <1>2, <1>3, RaceInvariant, PrefixInvariant, PTL DEF Spec
=============================================================================
