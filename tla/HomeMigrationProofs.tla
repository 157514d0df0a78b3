------------------------- MODULE HomeMigrationProofs -------------------------
(***************************************************************************)
(* Theorems about HomeMigration, for every set of nodes, moves and         *)
(* envelopes, every tree of moves over the home records, and all delays.   *)
(***************************************************************************)
EXTENDS HomeMigration, TLAPS

-----------------------------------------------------------------------------
(* The chain of home records.                                              *)

\* A set of records that contains, with a move, the record it replaces.
Closed(S) == S \in SUBSET Records /\ \A m \in Moves \cap S : Base[m] \in S

\* What Lineage is, without its definition: the least closed set with r.
LEMMA LineageLeast ==
  ASSUME NEW r \in Records
  PROVE  /\ r \in Lineage[r] /\ Closed(Lineage[r])
         /\ \A S : Closed(S) /\ r \in S => Lineage[r] \subseteq S
<1> USE MoveAssumption DEF Closed
<1>1. Lineage[r] = {x \in Records : \A S \in SUBSET Records :
                      r \in S /\ (\A m \in Moves \cap S : Base[m] \in S) => x \in S}
  BY DEF Lineage
<1>2. r \in Lineage[r]
  BY <1>1
<1>3. \A m \in Moves \cap Lineage[r] : Base[m] \in Lineage[r]
  BY <1>1 DEF Records
<1>4. Lineage[r] \in SUBSET Records
  BY <1>1
<1>5. \A S : Closed(S) /\ r \in S => Lineage[r] \subseteq S
  BY <1>1
<1> QED BY <1>2, <1>3, <1>4, <1>5

\* A move extends the chain of the record it replaces.
LEMMA LineageBase ==
  ASSUME NEW m \in Moves
  PROVE  Base[m] \in Lineage[m]
BY LineageLeast, MoveAssumption DEF Records, Closed

LEMMA LineageTransitive ==
  ASSUME NEW r \in Records, NEW x \in Lineage[r]
  PROVE  x \in Records /\ Lineage[x] \subseteq Lineage[r]
<1>1. Closed(Lineage[r])
  BY LineageLeast
<1>2. x \in Records
  BY <1>1 DEF Closed
<1> QED BY <1>1, <1>2, LineageLeast

\* Epochs grow along the chain.
LEMMA LineageEpoch ==
  ASSUME NEW r \in Records, NEW x \in Lineage[r]
  PROVE  Epoch[x] <= Epoch[r]
<1> DEFINE S == {y \in Records : Epoch[y] <= Epoch[r]}
<1>1. Closed(S)
  BY MoveAssumption DEF Closed, Records
<1>2. r \in S
  BY MoveAssumption
<1> QED BY <1>1, <1>2, LineageLeast

\* A proper ancestor of r has a successor on the chain of r.
LEMMA LineageSuccessor ==
  ASSUME NEW r \in Records, NEW x \in Lineage[r], x # r
  PROVE  \E m \in Moves : m \in Lineage[r] /\ Base[m] = x
<1> DEFINE S == {y \in Lineage[r] : y = r \/ \E m \in Moves : m \in Lineage[r] /\ Base[m] = y}
<1>1. Closed(Lineage[r]) /\ r \in Lineage[r]
  BY LineageLeast
<1>2. Closed(S) /\ r \in S
  BY <1>1 DEF Closed
<1> QED BY <1>2, LineageLeast

-----------------------------------------------------------------------------
(* Types.                                                                  *)

\* A transaction reads a clock that is not behind what its node stored.
LEMMA ClockRead ==
  ASSUME ClockTypes, NEW n \in Nodes, NEW now \in Now(n)
  PROVE  now \in 0..MaxTime /\ floor[n] <= now /\ now <= time
BY TimeAssumption DEF ClockTypes, Now

LEMMA ClockStored ==
  ASSUME ClockTypes, NEW n \in Nodes, NEW now \in Now(n), UNCHANGED time,
         Store(n, now) \/ UNCHANGED floor
  PROVE  ClockTypes'
BY ClockRead DEF ClockTypes, Store

LEMMA InitTypes == Init => TypeOK
<1> SUFFICES ASSUME Init PROVE TypeOK
  OBVIOUS
<1> USE MoveAssumption, TimeAssumption DEF Init
<1>1. ClockTypes
  BY DEF ClockTypes
<1>2. HomeTypes
  BY DEF HomeTypes, Routes, NoRoute
<1>3. CallTypes
  BY DEF CallTypes, Phases
<1>4. SourceTypes
  BY DEF SourceTypes
<1>5. MailTypes
  BY DEF MailTypes, Drains
<1> QED BY <1>1, <1>2, <1>3, <1>4, <1>5 DEF TypeOK

\* The effects that several actions share.
LEMMA ActivateTypes ==
  ASSUME TypeOK, NEW m \in Moves, NEW now \in Now(Dst[m]), ActivateEffect(m, now), UNCHANGED time
  PROVE  /\ ClockTypes' /\ HomeTypes'
         /\ dop' \in [Moves -> [phase : Phases, offered : 0..MaxTime, sealed : 0..MaxTime]]
<1>1. Dst[m] \in Nodes /\ Epoch[m] \in Nat
  BY MoveAssumption DEF Records
<1>2. ClockTypes'
  BY <1>1, ClockStored DEF TypeOK, ActivateEffect
<1>3. HomeTypes'
  BY <1>1 DEF TypeOK, HomeTypes, ActivateEffect, Routes, Records
<1>4. dop' \in [Moves -> [phase : Phases, offered : 0..MaxTime, sealed : 0..MaxTime]]
  BY DEF TypeOK, CallTypes, ActivateEffect, Phases
<1> QED BY <1>2, <1>3, <1>4

LEMMA FenceTypes ==
  ASSUME TypeOK, NEW m \in Moves, NEW now \in Now(Dst[m]), FenceEffect(m, now), UNCHANGED time
  PROVE  /\ ClockTypes' /\ HomeTypes'
         /\ dop' \in [Moves -> [phase : Phases, offered : 0..MaxTime, sealed : 0..MaxTime]]
<1>1. Dst[m] \in Nodes /\ Epoch[m] \in Nat
  BY MoveAssumption DEF Records
<1>2. ClockTypes'
  BY <1>1, ClockStored DEF TypeOK, FenceEffect
<1>3. HomeTypes'
  BY <1>1 DEF TypeOK, HomeTypes, FenceEffect, Routes, Records
<1>4. dop' \in [Moves -> [phase : Phases, offered : 0..MaxTime, sealed : 0..MaxTime]]
  BY DEF TypeOK, CallTypes, FenceEffect, Phases
<1> QED BY <1>2, <1>3, <1>4

\* Moves: from the attestation to the courier.
LEMMA MoveTypes ==
  ASSUME TypeOK, NEW m \in Moves, MoveStep(m)
  PROVE  TypeOK'
<1> USE DEF TypeOK
<1>0. Src[m] \in Nodes /\ Dst[m] \in Nodes /\ Base[m] \in Records /\ Epoch[m] \in Nat
  BY MoveAssumption DEF Records
<1>1. ASSUME NEW now \in Now(Src[m]), Attest(m, now) PROVE TypeOK'
  <2>1. ClockTypes'
    BY <1>0, <1>1, ClockStored DEF Attest
  <2>2. HomeTypes'
    BY <1>0, <1>1 DEF Attest, HomeTypes, Records
  <2> QED BY <1>1, <2>1, <2>2 DEF Attest, CallTypes, SourceTypes, MailTypes, source, mail
<1>2. ASSUME NEW now \in Now(Src[m]), SourceCommit(m, now) PROVE TypeOK'
  <2> SUFFICES ASSUME FirstCommit(m, now)
               PROVE  ClockTypes' /\ HomeTypes' /\ SourceTypes' /\ MailTypes'
    <3>1. CallTypes'
      BY <1>2 DEF SourceCommit, Answer, CallTypes
    <3>2. CASE UNCHANGED <<floor, homes, source, mail>>
      BY <1>2, <3>1, <3>2 DEF SourceCommit, homes, source, mail,
           ClockTypes, HomeTypes, SourceTypes, MailTypes
    <3>3. FirstCommit(m, now) \/ UNCHANGED <<floor, homes, source, mail>>
      BY <1>2 DEF SourceCommit
    <3> QED BY <3>1, <3>2, <3>3
  <2>1. ClockTypes'
    BY <1>0, <1>2, ClockStored DEF SourceCommit, FirstCommit
  <2>2. HomeTypes'
    BY <1>0 DEF FirstCommit, HomeTypes, Routes, Records
  <2>3. SourceTypes'
    BY <1>0, ClockRead DEF FirstCommit, SourceTypes
  <2>4. MailTypes'
    BY DEF FirstCommit, MailTypes
  <2> QED BY <2>1, <2>2, <2>3, <2>4
<1>3. ASSUME NEW now \in Now(Src[m]), SourceStatus(m, now) PROVE TypeOK'
  <2>1. ClockTypes'
    BY <1>0, <1>3, ClockStored DEF SourceStatus, SignFence
  <2>2. CallTypes'
    BY <1>3 DEF SourceStatus, Answer, CallTypes
  <2>3. SourceTypes'
    <3>1. CASE UNCHANGED source
      BY <3>1 DEF SourceTypes, source
    <3>2. CASE SignFence(m, now, FALSE)
      BY <3>2 DEF SignFence, SourceTypes
    <3> QED BY <1>3, <3>1, <3>2 DEF SourceStatus
  <2> QED BY <1>3, <2>1, <2>2, <2>3 DEF SourceStatus, HomeTypes, MailTypes, homes, mail
<1>4. ASSUME NEW now \in Now(Src[m]), Cancel(m, now) PROVE TypeOK'
  <2>1. ClockTypes'
    BY <1>0, <1>4, ClockStored DEF Cancel, SignFence
  <2>3. SourceTypes'
    BY <1>4 DEF Cancel, SignFence, SourceTypes
  <2> QED BY <1>4, <2>1, <2>3 DEF Cancel, HomeTypes, CallTypes, MailTypes, homes, mail
<1>5. ASSUME NEW now \in Now(Dst[m]), Prepare(m, now) PROVE TypeOK'
  <2>1. ClockTypes'
    BY <1>0, <1>5, ClockStored DEF Prepare
  <2>2. HomeTypes'
    BY <1>0, <1>5 DEF Prepare, HomeTypes
  <2>3. CallTypes'
    BY <1>0, <1>5, ClockRead, TimeAssumption DEF Prepare, CallTypes, Phases
  <2> QED BY <1>5, <2>1, <2>2, <2>3 DEF Prepare, SourceTypes, MailTypes, source, mail
<1>6. ASSUME NEW now \in Now(Dst[m]), Abort(m, now) PROVE TypeOK'
  <2>1. ClockTypes'
    BY <1>0, <1>6, ClockStored DEF Abort
  <2>3. CallTypes'
    BY <1>6 DEF Abort, CallTypes, Phases
  <2> QED BY <1>6, <2>1, <2>3 DEF Abort, HomeTypes, SourceTypes, MailTypes, homes, source, mail
<1>7. ASSUME NEW now \in Now(Dst[m]), Seal(m, now) PROVE TypeOK'
  <2>1. ClockTypes'
    BY <1>0, <1>7, ClockStored DEF Seal
  <2>2. HomeTypes'
    BY <1>0, <1>7 DEF Seal, HomeTypes, Routes
  <2>3. CallTypes'
    <3>1. now \in 0..MaxTime
      BY <1>0, ClockRead
    <3>2. /\ dop' = [dop EXCEPT ![m].phase = "Sealed", ![m].sealed = now]
          /\ UNCHANGED <<attested, courier, lateCalls>>
      BY <1>7 DEF Seal
    <3>3. "Sealed" \in Phases
      BY DEF Phases, Pending
    <3> QED BY <3>1, <3>2, <3>3 DEF CallTypes
  <2> QED BY <1>7, <2>1, <2>2, <2>3 DEF Seal, SourceTypes, MailTypes, source, mail
<1>8. ASSUME NEW now \in Now(Dst[m]), RelayProof(m, now) PROVE TypeOK'
  BY <1>0, <1>8, ActivateTypes DEF RelayProof, CallTypes, SourceTypes, MailTypes, source, mail
<1>9. ASSUME NEW now \in Now(Dst[m]), RelayFence(m, now) PROVE TypeOK'
  BY <1>0, <1>9, FenceTypes DEF RelayFence, CallTypes, SourceTypes, MailTypes, source, mail
<1>10. ASSUME NEW now \in Now(Dst[m]), OwnerCommit(m, now) PROVE TypeOK'
  BY <1>10 DEF OwnerCommit, Calls, ClockTypes, HomeTypes, CallTypes, SourceTypes, MailTypes,
       homes, source, mail
<1>11. ASSUME NEW now \in Now(Dst[m]), CourierClaim(m, now) PROVE TypeOK'
  <2>1. ClockTypes'
    BY <1>0, <1>11, ClockStored DEF CourierClaim
  <2> QED BY <1>11, <2>1 DEF CourierClaim, HomeTypes, CallTypes, SourceTypes, MailTypes,
            homes, source, mail
<1>12. ASSUME NEW now \in Now(Dst[m]), CourierAsk(m, now) PROVE TypeOK'
  <2>1. ClockTypes'
    BY <1>0, <1>12, ClockStored DEF CourierAsk
  <2>2. CallTypes'
    BY <1>12 DEF CourierAsk, Retry, CallTypes, Phases, Pending
  <2> QED BY <1>12, <2>1, <2>2 DEF CourierAsk, HomeTypes, SourceTypes, MailTypes,
            homes, source, mail
<1>13. ASSUME NEW now \in Now(Dst[m]), NEW delayed \in BOOLEAN, CourierReturn(m, now, delayed)
       PROVE TypeOK'
  <2>1. ClockTypes'
    BY <1>0, <1>13, ClockStored DEF CourierReturn, StoreIf
  <2>2. CallTypes'
    BY <1>13 DEF CourierReturn, Retry, CallTypes, Calls, Phases, Pending
  <2> QED BY <1>13, <2>1, <2>2 DEF CourierReturn, HomeTypes, SourceTypes, MailTypes,
            homes, source, mail
<1>14. ASSUME NEW now \in Now(Dst[m]), CourierApply(m, now) PROVE TypeOK'
  <2>1. UNCHANGED <<time, attested, lateCalls>> /\ SourceTypes' /\ MailTypes'
    BY <1>14 DEF CourierApply, SourceTypes, MailTypes, source, mail
  <2>2. courier' \in [Moves -> {"idle", "claimed", "commit", "status", "committed", "fenced"}]
    BY <1>14 DEF CourierApply, CallTypes
  <2>3. CASE ActivateEffect(m, now)
    BY <2>1, <2>2, <2>3, ActivateTypes DEF CallTypes
  <2>4. CASE FenceEffect(m, now)
    BY <2>1, <2>2, <2>4, FenceTypes DEF CallTypes
  <2>5. CASE Retry(m, StatusOnly(m, now)) /\ StoreIf(Dst[m], now, dop[m].phase \in Pending)
               /\ UNCHANGED homes
    <3>1. ClockTypes'
      BY <1>0, <2>1, <2>5, ClockStored DEF StoreIf
    <3>2. CallTypes'
      BY <2>1, <2>2, <2>5 DEF Retry, CallTypes, Phases, Pending
    <3> QED BY <2>1, <2>5, <3>1, <3>2 DEF HomeTypes, homes
  <2> QED BY <1>14, <2>3, <2>4, <2>5 DEF CourierApply
<1> QED BY <1>1, <1>2, <1>3, <1>4, <1>5, <1>6, <1>7, <1>8, <1>9, <1>10, <1>11, <1>12, <1>13,
          <1>14 DEF MoveStep

\* Mail: what the drain, receivers and senders do at a node.
LEMMA SettledTypes ==
  ASSUME MailTypes, NEW n \in Nodes, NEW S, Settled(n, S)
  PROVE  /\ drain' \in [Moves -> [Envelopes -> {"none", "Pending", "Held", "Rejected"}]]
         /\ box' \in [Nodes -> SUBSET Envelopes]
BY DEF Settled, MailTypes

LEMMA ForwardedTypes ==
  ASSUME TypeOK, NEW p \in Moves, NEW e \in Envelopes, NEW now \in Now(Dst[p]),
         Forwarded(p, e, now), UNCHANGED <<time, attested, courier, lateCalls>>
  PROVE  /\ ClockTypes' /\ HomeTypes' /\ CallTypes'
         /\ box' \in [Nodes -> SUBSET Envelopes]
         /\ taken' \in [Nodes -> SUBSET Envelopes]
         /\ hopped' \in [Nodes -> SUBSET Envelopes]
<1>1. box' \in [Nodes -> SUBSET Envelopes] /\ taken' \in [Nodes -> SUBSET Envelopes]
      /\ hopped' \in [Nodes -> SUBSET Envelopes]
  BY MoveAssumption DEF TypeOK, MailTypes, Forwarded, Accept
<1>2. CASE ActivateEffect(p, now)
  BY <1>1, <1>2, ActivateTypes DEF TypeOK, CallTypes
<1>3. CASE UNCHANGED <<floor, homes, dop>>
  BY <1>1, <1>3 DEF TypeOK, ClockTypes, HomeTypes, CallTypes, homes
<1> QED BY <1>1, <1>2, <1>3 DEF Forwarded

LEMMA DrainTypes ==
  ASSUME TypeOK, NEW m \in Moves, NEW e \in Envelopes, DrainStep(m, e)
  PROVE  TypeOK'
<1> USE DEF TypeOK
<1>0. Src[m] \in Nodes
  BY MoveAssumption
<1>1. PICK now \in Now(Src[m]) :
        DrainExpired(m, e, now) \/ DrainHold(m, e, now) \/ DrainSend(m, e, now)
  BY DEF DrainStep
<1>2. ClockTypes' /\ HomeTypes' /\ CallTypes' /\ SourceTypes'
  <2>1. Store(Src[m], now) /\ UNCHANGED <<MailRest, homes, dop>>
    BY <1>1 DEF DrainExpired, DrainHold, DrainSend
  <2>2. ClockTypes'
    BY <1>0, <2>1, ClockStored DEF MailRest
  <2> QED BY <2>1, <2>2 DEF MailRest, HomeTypes, CallTypes, SourceTypes, homes, source
<1>3. closed' \subseteq Moves
  BY <1>1 DEF DrainExpired, DrainHold, DrainSend, Latch, MailTypes
<1>4. MailTypes'
  <2>1. CASE DrainExpired(m, e, now)
    <3>1. drainer' \in [Nodes -> Drains]
      BY <1>0, <2>1 DEF DrainExpired, MailTypes, Drains
    <3> QED BY <1>0, <1>3, <2>1, <3>1, SettledTypes DEF DrainExpired, MailTypes, MailRest
  <2>2. CASE DrainHold(m, e, now)
    BY <1>3, <2>2 DEF DrainHold, MailTypes, MailRest
  <2>3. CASE DrainSend(m, e, now)
    <3>1. head[Src[m]] \in Moves
      BY <2>3 DEF DrainSend, WindowOpen
    <3>2. drainer' \in [Nodes -> Drains]
      BY <1>0, <2>3, <3>1 DEF DrainSend, MailTypes, Drains
    <3> QED BY <1>3, <2>3, <3>2 DEF DrainSend, MailTypes, MailRest
  <2> QED BY <1>1, <2>1, <2>2, <2>3
<1> QED BY <1>2, <1>4

LEMMA NodeTypes ==
  ASSUME TypeOK, NEW n \in Nodes, NodeStep(n)
  PROVE  TypeOK'
<1> USE DEF TypeOK
<1>0. drainer[n] \in Drains
  BY DEF MailTypes
<1>1. ASSUME drainer[n][1] = "sending"
      PROVE  /\ drainer[n][2] \in Moves /\ drainer[n][3] \in Envelopes
             /\ drainer[n][4] \in Moves
  BY <1>0, <1>1 DEF Drains, IdleDrain
<1>2. ASSUME drainer[n][1] = "reply"
      PROVE  drainer[n][2] \in Moves /\ drainer[n][3] \in Envelopes
  BY <1>0, <1>2 DEF Drains, IdleDrain
<1>3. ASSUME drainer[n][1] = "finish"
      PROVE  drainer[n][2] \in Moves
  BY <1>0, <1>3 DEF Drains, IdleDrain
<1>4. IdleDrain \in Drains
  BY DEF Drains
<1>5. ASSUME NEW now \in Now(n), Cleanup(n, now) PROVE TypeOK'
  <2>1. ClockTypes'
    BY <1>5, ClockStored DEF Cleanup
  <2>2. CallTypes'
    BY <1>5 DEF Cleanup, CallTypes, Phases
  <2>3. SourceTypes'
    BY <1>5 DEF Cleanup, SourceTypes
  <2> QED BY <1>5, <2>1, <2>2, <2>3 DEF Cleanup, HomeTypes, MailTypes, homes, mail
<1>6. ASSUME NEW now \in Now(n), DrainSettle(n, now) PROVE TypeOK'
  <2>1. UNCHANGED <<MailRest, homes, dop, closed, lateForwards>>
    BY <1>6 DEF DrainSettle
  <2>2. ClockTypes'
    BY <1>6, <2>1, ClockStored DEF DrainSettle, StoreIf, MailRest
  <2>3. HomeTypes' /\ CallTypes' /\ SourceTypes'
    BY <2>1 DEF MailRest, HomeTypes, CallTypes, SourceTypes, homes, source
  <2>4. drainer' \in [Nodes -> Drains]
    <3>1. drainer[n][2] \in Moves
      BY <1>2, <1>6 DEF DrainSettle
    <3>2. PICK d \in {IdleDrain, <<"finish", drainer[n][2]>>} : drainer' = [drainer EXCEPT ![n] = d]
      BY <1>6 DEF DrainSettle
    <3>3. d \in Drains
      BY <1>4, <3>1 DEF Drains
    <3> QED BY <3>2, <3>3 DEF MailTypes
  <2>5. /\ drain' \in [Moves -> [Envelopes -> {"none", "Pending", "Held", "Rejected"}]]
        /\ box' \in [Nodes -> SUBSET Envelopes]
    <3>1. CASE Settled(n, {drainer[n][3]})
      BY <3>1, SettledTypes
    <3>2. CASE UNCHANGED <<box, drain>>
      BY <3>2 DEF MailTypes
    <3>3. CASE UNCHANGED box /\ drain' = [drain EXCEPT ![drainer[n][2]][drainer[n][3]] = "Rejected"]
      BY <1>2, <1>6, <3>3 DEF DrainSettle, MailTypes
    <3> QED BY <1>6, <3>1, <3>2, <3>3 DEF DrainSettle
  <2> QED BY <2>1, <2>2, <2>3, <2>4, <2>5 DEF MailTypes, MailRest
<1>7. ASSUME NEW now \in Now(n), DrainFinish(n, now) PROVE TypeOK'
  <2>1. ClockTypes'
    BY <1>7, ClockStored DEF DrainFinish
  <2>2. SourceTypes'
    BY <1>3, <1>7 DEF DrainFinish, SourceTypes
  <2>3. MailTypes'
    BY <1>4, <1>7 DEF DrainFinish, MailTypes
  <2> QED BY <1>7, <2>1, <2>2, <2>3 DEF DrainFinish, HomeTypes, CallTypes, homes
<1>8. ASSUME NEW now \in Now(n), NEW delayed \in BOOLEAN, DrainLost(n, now, delayed) PROVE TypeOK'
  <2>1. UNCHANGED <<MailRest, homes, dop, closed, box>>
    BY <1>8 DEF DrainLost
  <2>2. ClockTypes'
    BY <1>8, <2>1, ClockStored DEF DrainLost, StoreIf, MailRest
  <2>3. HomeTypes' /\ CallTypes' /\ SourceTypes'
    BY <2>1 DEF MailRest, HomeTypes, CallTypes, SourceTypes, homes, source
  <2>4. drain' \in [Moves -> [Envelopes -> {"none", "Pending", "Held", "Rejected"}]]
    BY <1>1, <1>8 DEF DrainLost, MailTypes
  <2>5. lateForwards' \subseteq Moves \X Envelopes /\ drainer' \in [Nodes -> Drains]
    BY <1>1, <1>4, <1>8 DEF DrainLost, MailTypes
  <2> QED BY <2>1, <2>2, <2>3, <2>4, <2>5 DEF MailTypes, MailRest
<1>9. ASSUME NEW now \in Now(n), NEW e \in Envelopes, SubmitForward(n, e, now) PROVE TypeOK'
  <2>1. ClockTypes'
    BY <1>9, ClockStored DEF SubmitForward
  <2>2. MailTypes'
    BY <1>9 DEF SubmitForward, WindowOpen, MailTypes
  <2> QED BY <1>9, <2>1, <2>2 DEF SubmitForward, HomeTypes, CallTypes, SourceTypes, homes, source
<1>10. ASSUME DrainLand(n) PROVE TypeOK'
  <2> DEFINE m == drainer[n][2]
             e == drainer[n][3]
             p == drainer[n][4]
  <2>1. m \in Moves /\ e \in Envelopes /\ p \in Moves
    BY <1>1, <1>10 DEF DrainLand
  <2>2. UNCHANGED <<time, attested, courier, lateCalls, source, drain, closed, lateForwards, acked>>
    BY <1>10 DEF DrainLand
  <2>3. drainer' \in [Nodes -> Drains]
    BY <1>10, <2>1 DEF DrainLand, MailTypes, Drains
  <2>4. CASE \E now \in Now(Dst[p]) : Forwarded(p, e, now)
    <3>1. PICK now \in Now(Dst[p]) : Forwarded(p, e, now)
      BY <2>4
    <3> HIDE DEF m, e, p
    <3>2. /\ ClockTypes' /\ HomeTypes' /\ CallTypes'
          /\ box' \in [Nodes -> SUBSET Envelopes]
          /\ taken' \in [Nodes -> SUBSET Envelopes]
          /\ hopped' \in [Nodes -> SUBSET Envelopes]
      BY <2>1, <2>2, <3>1, ForwardedTypes
    <3> QED BY <2>2, <2>3, <3>2 DEF SourceTypes, MailTypes, source
  <2>5. CASE UNCHANGED <<floor, homes, dop, box, taken, hopped>>
    BY <2>2, <2>3, <2>5 DEF ClockTypes, HomeTypes, CallTypes, SourceTypes, MailTypes, homes, source
  <2> QED BY <1>10, <2>4, <2>5 DEF DrainLand
<1>11. ASSUME NEW e \in Envelopes, Submit(n, e) PROVE TypeOK'
  <2>1. MailTypes'
    BY <1>11 DEF Submit, Accept, MailTypes
  <2> QED BY <1>11, <2>1 DEF Submit, ClockTypes, HomeTypes, CallTypes, SourceTypes, homes, source
<1>12. ASSUME NEW e \in Envelopes, ReceiverAck(n, e) PROVE TypeOK'
  <2>1. MailTypes'
    BY <1>12, SettledTypes DEF ReceiverAck, MailTypes
  <2> QED BY <1>12, <2>1 DEF ReceiverAck, ClockTypes, HomeTypes, CallTypes, SourceTypes, homes,
            source
<1>13. ASSUME NEW e \in Envelopes, Sweep(n, e) PROVE TypeOK'
  <2>1. MailTypes'
    BY <1>13, SettledTypes DEF Sweep, MailTypes
  <2> QED BY <1>13, <2>1 DEF Sweep, ClockTypes, HomeTypes, CallTypes, SourceTypes, homes, source
<1>14. ASSUME NEW delayed \in BOOLEAN, Crash(n, delayed) PROVE TypeOK'
  <2>1. CallTypes'
    BY <1>14 DEF Crash, CallTypes
  <2>2. MailTypes'
    BY <1>1, <1>4, <1>14 DEF Crash, MailTypes
  <2> QED BY <1>14, <2>1, <2>2 DEF Crash, ClockTypes, HomeTypes, SourceTypes, homes, source
<1> QED BY <1>5, <1>6, <1>7, <1>8, <1>9, <1>10, <1>11, <1>12, <1>13, <1>14 DEF NodeStep

LEMMA NextTypes == TypeOK /\ [Next]_vars => TypeOK'
<1> SUFFICES ASSUME TypeOK, [Next]_vars PROVE TypeOK'
  OBVIOUS
<1>1. CASE Tick
  BY <1>1, TimeAssumption DEF TypeOK, Tick, ClockTypes, HomeTypes, CallTypes, SourceTypes,
       MailTypes, homes, source, mail
<1>2. ASSUME NEW m \in Moves, NEW e \in Envelopes, NEW now \in Now(Dst[m]), LateForward(m, e, now)
      PROVE  TypeOK'
  <2>1. /\ ClockTypes' /\ HomeTypes' /\ CallTypes'
        /\ box' \in [Nodes -> SUBSET Envelopes]
        /\ taken' \in [Nodes -> SUBSET Envelopes]
        /\ hopped' \in [Nodes -> SUBSET Envelopes]
    BY <1>2, ForwardedTypes DEF LateForward
  <2> QED BY <1>2, <2>1 DEF LateForward, TypeOK, SourceTypes, MailTypes, source
<1>3. CASE UNCHANGED vars
  BY <1>3 DEF vars, TypeOK, ClockTypes, HomeTypes, CallTypes, SourceTypes, MailTypes, homes,
       source, mail
<1> QED BY <1>1, <1>2, <1>3, MoveTypes, DrainTypes, NodeTypes DEF Next

\* Every variable of a migration keeps its type, and no node stores a clock that
\* is ahead of time.
THEOREM TypeCorrect == Spec => []TypeOK
BY InitTypes, NextTypes, PTL DEF Spec

-----------------------------------------------------------------------------
(* The inductive invariants.                                               *)

Committed == {m \in Moves : committedAt[m] # Never}
Signed == Committed \cup {Genesis}

\* The record a node goes by: its head, or the one it would be registered with.
Held(n) == IF head[n] = NoRecord THEN Genesis ELSE head[n]

\* The signed records form one chain without a gap and without a fork.
Chain ==
  /\ \A m \in Committed : Base[m] \in Signed
  /\ \E tip \in Signed : Signed \subseteq Lineage[tip]

\* What is on file or under way was signed.
OnlySigned ==
  /\ \A n \in Nodes : head[n] # NoRecord => head[n] \in Signed
  /\ \A m \in attested : Base[m] \in Signed
  /\ \A f \in lateForwards : f[1] \in Committed
  /\ \A n \in Nodes : drainer[n][1] = "sending" => drainer[n][4] \in Committed

\* A source never forgets a move it committed: its head is that move or later.
SourcesRemember ==
  \A m \in Committed : head[Src[m]] # NoRecord /\ m \in Lineage[head[Src[m]]]

\* A node with an open gate is the home its record names, and the record has no
\* signed successor.
OpenIsNewest ==
  \A n \in Nodes : gate[n] = "open" /\ (n = Origin \/ head[n] # NoRecord) =>
    Home(Held(n)) = n /\ \A m \in Committed : Base[m] # Held(n)

HomeInv == Chain /\ OnlySigned /\ SourcesRemember /\ OpenIsNewest

\* Calls are made, and fences signed, only for offers on file.
Offered ==
  /\ \A m \in Moves : courier[m] # "idle" => dop[m].phase # "None"
  /\ \A c \in lateCalls : dop[c[2]].phase # "None"
  /\ \A m \in issued : dop[m].phase # "None"

\* A fence that is signed is stored, or its signer's clock can no longer go back
\* to an instant at which the move could be committed.
FencesHold == \A m \in issued : m \in fences \/ floor[Src[m]] > HardDeadline(m)

OutcomeInv == Offered /\ FencesHold /\ OutcomeExclusive

-----------------------------------------------------------------------------
(* What a step may do to the homes and to the outcome.                     *)

ClocksAdvance == \A n \in Nodes : floor[n] <= floor'[n]

OffersStay ==
  \A m \in Moves : dop[m].phase # "None" =>
    dop'[m].phase # "None" /\ dop'[m].offered = dop[m].offered

Activates(m, now) ==
  /\ m \in Committed /\ head[Dst[m]] \in {Base[m], m} /\ ActivateEffect(m, now)
  /\ UNCHANGED <<committedAt, attested>>

HomeStep ==
  \/ UNCHANGED <<head, gate, committedAt>> /\ attested' \subseteq attested
  \/ \E m \in Moves : \E now : Attest(m, now) \/ Prepare(m, now) \/ Activates(m, now)
  \/ \E m \in Moves : \E now \in Now(Src[m]) :
       committedAt[m] = Never /\ FirstCommit(m, now) /\ UNCHANGED attested

OutcomeStep ==
  \/ UNCHANGED <<issued, fences, committedAt>>
  \/ \E m \in Moves : \E now \in Now(Src[m]) :
       /\ UNCHANGED dop /\ committedAt[m] = Never /\ dop[m].phase # "None"
       /\ FirstCommit(m, now) \/ \E cancel \in BOOLEAN : SignFence(m, now, cancel)
  \/ \E n \in Nodes : \E now \in Now(n) : Cleanup(n, now)

ForwardStep ==
  /\ \A f \in lateForwards' : \/ f \in lateForwards
                              \/ \E n \in Nodes : f[1] = head[n] /\ f[1] \in Moves
                              \/ \E n \in Nodes : drainer[n][1] = "sending" /\ f[1] = drainer[n][4]
  /\ \A n \in Nodes : drainer'[n][1] = "sending" =>
       drainer'[n] = drainer[n] \/ (drainer'[n][4] = head[n] /\ head[n] \in Moves)

Steps == ClocksAdvance /\ OffersStay /\ (Offered => Offered') /\ HomeStep /\ OutcomeStep
           /\ ForwardStep

LEMMA StoreAdvances ==
  ASSUME ClockTypes, NEW n \in Nodes, NEW now \in Now(n), Store(n, now) \/ UNCHANGED floor
  PROVE  ClocksAdvance
BY ClockRead DEF ClockTypes, Store, ClocksAdvance

LEMMA FloorUnchanged ==
  ASSUME ClockTypes, UNCHANGED floor
  PROVE  ClocksAdvance
BY DEF ClockTypes, ClocksAdvance

LEMMA MoveSteps ==
  ASSUME TypeOK, Offered, NEW m \in Moves, MoveStep(m)
  PROVE  Steps
<1>0. Src[m] \in Nodes /\ Dst[m] \in Nodes
  BY MoveAssumption
<1>1. ClocksAdvance
  <2>1. ASSUME NEW now \in Now(Src[m]), Attest(m, now) \/ SourceCommit(m, now)
                              \/ SourceStatus(m, now) \/ Cancel(m, now)
        PROVE  ClocksAdvance
    <3>1. Store(Src[m], now) \/ UNCHANGED floor
      BY <2>1 DEF Attest, SourceCommit, FirstCommit, SourceStatus, SignFence, Cancel
    <3> QED BY <1>0, <3>1, StoreAdvances DEF TypeOK
  <2>2. ASSUME NEW now \in Now(Dst[m]),
               \/ Prepare(m, now) \/ Abort(m, now) \/ Seal(m, now)
               \/ RelayProof(m, now) \/ RelayFence(m, now) \/ OwnerCommit(m, now)
               \/ CourierClaim(m, now) \/ CourierAsk(m, now) \/ CourierApply(m, now)
               \/ \E delayed \in BOOLEAN : CourierReturn(m, now, delayed)
        PROVE  ClocksAdvance
    <3>1. Store(Dst[m], now) \/ UNCHANGED floor
      BY <2>2 DEF Prepare, Abort, Seal, RelayProof, RelayFence, OwnerCommit, CourierClaim,
           CourierAsk, CourierApply, CourierReturn, StoreIf, ActivateEffect, FenceEffect
    <3> QED BY <1>0, <3>1, StoreAdvances DEF TypeOK
  <2> QED BY <2>1, <2>2 DEF MoveStep
<1>2. ForwardStep
  <2>1. UNCHANGED <<lateForwards, drainer>>
    BY DEF MoveStep, Attest, SourceCommit, FirstCommit, SourceStatus, Cancel,
         Prepare, Abort, Seal, RelayProof, RelayFence, OwnerCommit, CourierClaim, CourierAsk,
         CourierApply, CourierReturn, mail
  <2> QED BY <2>1 DEF ForwardStep
<1>3. /\ dop \in [Moves -> [phase : Phases, offered : 0..MaxTime, sealed : 0..MaxTime]]
      /\ courier \in [Moves -> {"idle", "claimed", "commit", "status", "committed", "fenced"}]
      /\ lateCalls \subseteq Calls
  BY DEF TypeOK, CallTypes
<1> DEFINE Rest == OffersStay /\ Offered' /\ HomeStep /\ OutcomeStep
<1>4. ASSUME NEW now \in Now(Src[m]), Attest(m, now) PROVE Rest
  BY <1>4 DEF Attest, OffersStay, Offered, HomeStep, OutcomeStep, source
<1>5. ASSUME NEW now \in Now(Src[m]), SourceCommit(m, now) PROVE Rest
  <2>1. dop[m].phase # "None"
    BY <1>5 DEF SourceCommit, Called, Offered
  <2>2. UNCHANGED <<dop, attested, lateCalls>> /\ OffersStay
    BY <1>5 DEF SourceCommit, OffersStay
  <2>3. CASE committedAt[m] = Never /\ FirstCommit(m, now)
    <3>1. Offered'
      BY <1>3, <1>5, <2>1, <2>2, <2>3 DEF SourceCommit, Answer, FirstCommit, Offered
    <3> QED BY <2>1, <2>2, <2>3, <3>1 DEF HomeStep, OutcomeStep
  <2>4. CASE UNCHANGED <<homes, source>>
    <3>1. Offered'
      BY <1>3, <1>5, <2>1, <2>2, <2>4 DEF SourceCommit, Answer, source, Offered
    <3> QED BY <2>2, <2>4, <3>1 DEF HomeStep, OutcomeStep, homes, source
  <2> QED BY <1>5, <2>3, <2>4 DEF SourceCommit
<1>6. ASSUME NEW now \in Now(Src[m]), SourceStatus(m, now) PROVE Rest
  <2>1. dop[m].phase # "None"
    BY <1>6 DEF SourceStatus, Called, Offered
  <2>2. UNCHANGED <<dop, attested, lateCalls, homes>> /\ OffersStay
    BY <1>6 DEF SourceStatus, OffersStay
  <2>3. CASE committedAt[m] = Never /\ SignFence(m, now, FALSE)
    <3>1. Offered'
      BY <1>3, <1>6, <2>1, <2>2, <2>3 DEF SourceStatus, Answer, SignFence, Offered
    <3> QED BY <2>1, <2>2, <2>3, <3>1 DEF HomeStep, OutcomeStep, SignFence, homes
  <2>4. CASE UNCHANGED source
    <3>1. Offered'
      BY <1>3, <1>6, <2>1, <2>2, <2>4 DEF SourceStatus, Answer, source, Offered
    <3> QED BY <2>2, <2>4, <3>1 DEF HomeStep, OutcomeStep, homes, source
  <2> QED BY <1>6, <2>3, <2>4 DEF SourceStatus
<1>7. ASSUME NEW now \in Now(Src[m]), Cancel(m, now) PROVE Rest
  <2>1. Offered'
    BY <1>3, <1>7 DEF Cancel, SignFence, Offered
  <2> QED BY <1>7, <2>1 DEF Cancel, SignFence, OffersStay, HomeStep, OutcomeStep, homes
<1>8. ASSUME NEW now \in Now(Dst[m]), Prepare(m, now) PROVE Rest
  <2>1. Offered' /\ OffersStay
    BY <1>3, <1>8 DEF Prepare, Offered, OffersStay, source, Calls
  <2> QED BY <1>8, <2>1 DEF Prepare, HomeStep, OutcomeStep, source
<1>9. ASSUME NEW now \in Now(Dst[m]), UNCHANGED <<head, gate, attested, source>>,
             \A k \in Moves : /\ dop'[k].offered = dop[k].offered
                              /\ dop[k].phase # "None" => dop'[k].phase # "None"
                              /\ courier'[k] # "idle" => courier[k] # "idle" \/ dop[k].phase # "None",
             \A c \in lateCalls' : c \in Calls /\ (c \in lateCalls \/ dop[c[2]].phase # "None")
      PROVE  Rest
  <2>1. issued \subseteq Moves
    BY DEF TypeOK, SourceTypes
  <2>2. Offered' /\ OffersStay
    BY <1>3, <1>9, <2>1 DEF Offered, OffersStay, source, Calls
  <2> QED BY <1>9, <2>2 DEF HomeStep, OutcomeStep, source
<1>10. ASSUME NEW now \in Now(Dst[m]), Abort(m, now) PROVE Rest
  BY <1>3, <1>9, <1>10 DEF Abort, homes
<1>11. ASSUME NEW now \in Now(Dst[m]), Seal(m, now) PROVE Rest
  BY <1>3, <1>9, <1>11 DEF Seal
<1>12. ASSUME NEW now \in Now(Dst[m]), MayActivate(m), ActivateEffect(m, now),
              UNCHANGED <<attested, lateCalls, source>>,
              courier' = courier \/ courier' = [courier EXCEPT ![m] = "idle"]
       PROVE  Rest
  <2>1. Offered' /\ OffersStay
    BY <1>3, <1>12 DEF MayActivate, ActivateEffect, Offered, OffersStay, source, Calls
  <2> QED BY <1>12, <2>1 DEF HomeStep, OutcomeStep, Activates, MayActivate, Committed, source
<1>13. ASSUME NEW now \in Now(Dst[m]), RelayProof(m, now) PROVE Rest
  BY <1>12, <1>13 DEF RelayProof
<1>14. ASSUME NEW now \in Now(Dst[m]), FenceEffect(m, now),
              UNCHANGED <<attested, lateCalls, source>>,
              courier' = courier \/ courier' = [courier EXCEPT ![m] = "idle"]
       PROVE  Rest
  BY <1>3, <1>9, <1>14 DEF FenceEffect
<1>15. ASSUME NEW now \in Now(Dst[m]), RelayFence(m, now) PROVE Rest
  BY <1>14, <1>15 DEF RelayFence
<1>16. ASSUME NEW now \in Now(Dst[m]), OwnerCommit(m, now) PROVE Rest
  BY <1>3, <1>9, <1>16 DEF OwnerCommit, homes, Calls, Pending
<1>17. ASSUME NEW now \in Now(Dst[m]), CourierClaim(m, now) PROVE Rest
  BY <1>3, <1>9, <1>17 DEF CourierClaim, homes, Pending
<1>18. ASSUME NEW now \in Now(Dst[m]), CourierAsk(m, now) PROVE Rest
  BY <1>3, <1>9, <1>18 DEF CourierAsk, Retry, homes, Pending
<1>19. ASSUME NEW now \in Now(Dst[m]), CourierApply(m, now) PROVE Rest
  <2>1. CASE MayActivate(m) /\ ActivateEffect(m, now)
    BY <1>12, <1>19, <2>1 DEF CourierApply
  <2>2. CASE FenceEffect(m, now)
    BY <1>14, <1>19, <2>2 DEF CourierApply
  <2>3. CASE Retry(m, StatusOnly(m, now)) /\ UNCHANGED homes
    <3> HIDE DEF Rest
    <3> QED BY <1>3, <1>9, <1>19, <2>3 DEF CourierApply, Retry, homes, Pending
  <2> QED BY <1>19, <2>1, <2>2, <2>3 DEF CourierApply
<1>20. ASSUME NEW now \in Now(Dst[m]), NEW delayed \in BOOLEAN, CourierReturn(m, now, delayed)
       PROVE Rest
  <2>1. dop[m].phase # "None"
    BY <1>20 DEF CourierReturn, Offered
  <2> HIDE DEF Rest
  <2> QED BY <1>3, <1>9, <1>20, <2>1 DEF CourierReturn, Retry, Calls, homes, Pending
<1> QED
  <2> HIDE DEF Rest
  <2>1. Rest
    BY <1>4, <1>5, <1>6, <1>7, <1>8, <1>10, <1>11, <1>13, <1>15, <1>16, <1>17, <1>18, <1>19, <1>20
       DEF MoveStep
  <2> QED BY <1>1, <1>2, <2>1 DEF Rest, Steps

\* A forward activates its move, or leaves the homes alone.
LEMMA ForwardedSteps ==
  ASSUME TypeOK, Offered, NEW p \in Committed, NEW e \in Envelopes, NEW now \in Now(Dst[p]),
         Forwarded(p, e, now), UNCHANGED <<attested, courier, lateCalls, source>>
  PROVE  ClocksAdvance /\ OffersStay /\ Offered' /\ HomeStep /\ OutcomeStep
<1>0. /\ dop \in [Moves -> [phase : Phases, offered : 0..MaxTime, sealed : 0..MaxTime]]
      /\ lateCalls \subseteq Calls /\ p \in Moves /\ Dst[p] \in Nodes
  BY MoveAssumption DEF TypeOK, CallTypes, Committed
<1>1. OutcomeStep
  BY DEF OutcomeStep, source
<1>2. CASE ActivateEffect(p, now)
  <2>1. ClocksAdvance
    BY <1>0, <1>2, StoreAdvances DEF TypeOK, ActivateEffect
  <2>2. Offered' /\ OffersStay
    BY <1>0, <1>2 DEF ActivateEffect, Offered, OffersStay, source, Calls
  <2>3. HomeStep
    BY <1>0, <1>2 DEF HomeStep, Activates, Forwarded, ProofHolds, source
  <2> QED BY <1>1, <2>1, <2>2, <2>3
<1>3. CASE UNCHANGED <<floor, homes, dop>>
  <2>1. ClocksAdvance
    BY <1>3, FloorUnchanged DEF TypeOK
  <2> QED BY <1>1, <1>3, <2>1 DEF HomeStep, OffersStay, Offered, homes, source
<1> QED BY <1>2, <1>3 DEF Forwarded

LEMMA DrainSteps ==
  ASSUME TypeOK, Offered, NEW m \in Moves, NEW e \in Envelopes, DrainStep(m, e)
  PROVE  Steps
<1>0. Src[m] \in Nodes
  BY MoveAssumption
<1>1. PICK now \in Now(Src[m]) :
        DrainExpired(m, e, now) \/ DrainHold(m, e, now) \/ DrainSend(m, e, now)
  BY DEF DrainStep
<1>2. Store(Src[m], now) /\ UNCHANGED <<MailRest, homes, dop, lateForwards>>
  BY <1>1 DEF DrainExpired, DrainHold, DrainSend
<1>3. ClocksAdvance
  BY <1>0, <1>2, StoreAdvances DEF TypeOK
<1>4. OffersStay /\ Offered' /\ HomeStep /\ OutcomeStep
  BY <1>2 DEF MailRest, homes, source, OffersStay, Offered, HomeStep, OutcomeStep
<1>5. ForwardStep
  <2>1. CASE DrainExpired(m, e, now) \/ DrainHold(m, e, now)
    BY <1>0, <1>2, <2>1 DEF DrainExpired, DrainHold, IdleDrain, ForwardStep, TypeOK, MailTypes
  <2>2. CASE DrainSend(m, e, now)
    BY <1>0, <1>2, <2>2 DEF DrainSend, WindowOpen, ForwardStep, TypeOK, MailTypes
  <2> QED BY <1>1, <2>1, <2>2
<1> QED BY <1>3, <1>4, <1>5 DEF Steps

LEMMA NodeSteps ==
  ASSUME TypeOK, Offered, OnlySigned, NEW n \in Nodes, NodeStep(n)
  PROVE  Steps
<1> DEFINE Rest == ClocksAdvance /\ OffersStay /\ Offered' /\ HomeStep /\ OutcomeStep
<1>0. /\ dop \in [Moves -> [phase : Phases, offered : 0..MaxTime, sealed : 0..MaxTime]]
      /\ courier \in [Moves -> {"idle", "claimed", "commit", "status", "committed", "fenced"}]
      /\ lateCalls \subseteq Calls /\ drainer \in [Nodes -> Drains]
  BY DEF TypeOK, CallTypes, MailTypes
<1>1. ASSUME NEW now \in Now(n), Store(n, now) \/ UNCHANGED floor,
             UNCHANGED <<head, gate, attested, dop, courier, lateCalls, committedAt, fences, issued>>
      PROVE  Rest
  <2>1. ClocksAdvance
    BY <1>1, StoreAdvances DEF TypeOK
  <2> QED BY <1>1, <2>1 DEF OffersStay, Offered, HomeStep, OutcomeStep
<1>2. ASSUME UNCHANGED <<lateForwards, drainer>> PROVE ForwardStep
  BY <1>2 DEF ForwardStep
<1>3. ASSUME UNCHANGED lateForwards,
             \E new \in Drains : new[1] # "sending" /\ drainer' = [drainer EXCEPT ![n] = new]
      PROVE  ForwardStep
  BY <1>0, <1>3 DEF ForwardStep
<1>4. ASSUME NEW now \in Now(n), Cleanup(n, now) PROVE Steps
  <2>1. ClocksAdvance
    BY <1>4, StoreAdvances DEF TypeOK, Cleanup
  <2>2. OffersStay /\ Offered'
    BY <1>0, <1>4 DEF Cleanup, OffersStay, Offered, Calls, TypeOK, SourceTypes
  <2>3. HomeStep /\ OutcomeStep
    BY <1>4 DEF Cleanup, HomeStep, OutcomeStep, homes
  <2>4. ForwardStep
    BY <1>2, <1>4 DEF Cleanup, mail
  <2> QED BY <2>1, <2>2, <2>3, <2>4 DEF Steps
<1>5. ASSUME NEW now \in Now(n), DrainSettle(n, now) PROVE Steps
  <2>1. Rest
    BY <1>1, <1>5 DEF DrainSettle, StoreIf, MailRest, homes, source
  <2>2. UNCHANGED lateForwards
        /\ drainer' \in {[drainer EXCEPT ![n] = IdleDrain],
                         [drainer EXCEPT ![n] = <<"finish", drainer[n][2]>>]}
    BY <1>5 DEF DrainSettle
  <2>3. drainer[n][2] \in Moves
    BY <1>0, <1>5 DEF DrainSettle, Drains, IdleDrain
  <2>4. ForwardStep
    BY <1>3, <2>2, <2>3 DEF Drains, IdleDrain
  <2> QED BY <2>1, <2>4 DEF Steps
<1>6. ASSUME NEW now \in Now(n), DrainFinish(n, now) PROVE Steps
  <2>1. Rest
    BY <1>1, <1>6 DEF DrainFinish, homes
  <2>2. ForwardStep
    BY <1>3, <1>6 DEF DrainFinish, Drains, IdleDrain
  <2> QED BY <2>1, <2>2 DEF Steps
<1>7. ASSUME NEW now \in Now(n), NEW delayed \in BOOLEAN, DrainLost(n, now, delayed) PROVE Steps
  <2>1. Rest
    BY <1>1, <1>7 DEF DrainLost, StoreIf, MailRest, homes, source
  <2>2. ForwardStep
    BY <1>0, <1>7 DEF DrainLost, ForwardStep, IdleDrain
  <2> QED BY <2>1, <2>2 DEF Steps
<1>8. ASSUME NEW now \in Now(n), NEW e \in Envelopes, SubmitForward(n, e, now) PROVE Steps
  <2>1. Rest
    BY <1>1, <1>8 DEF SubmitForward, homes, source
  <2>2. ForwardStep
    BY <1>8 DEF SubmitForward, WindowOpen, ForwardStep
  <2> QED BY <2>1, <2>2 DEF Steps
<1>9. ASSUME DrainLand(n) PROVE Steps
  <2> DEFINE m == drainer[n][2]
             e == drainer[n][3]
             p == drainer[n][4]
  <2>1. m \in Moves /\ e \in Envelopes /\ p \in Committed
    BY <1>0, <1>9 DEF DrainLand, OnlySigned, Drains, IdleDrain
  <2>2. UNCHANGED <<attested, courier, lateCalls, source, lateForwards>>
    BY <1>9 DEF DrainLand
  <2>3. ForwardStep
    <3>1. drainer' \in {[drainer EXCEPT ![n] = <<"reply", m, e, "BAck">>],
                        [drainer EXCEPT ![n] = <<"reply", m, e, "Rejected">>]}
      BY <1>9 DEF DrainLand
    <3> HIDE DEF m, e
    <3> QED BY <1>3, <2>1, <2>2, <3>1 DEF Drains
  <2>4. CASE \E now \in Now(Dst[p]) : Forwarded(p, e, now)
    <3> HIDE DEF m, e, p
    <3> QED BY <2>1, <2>2, <2>3, <2>4, ForwardedSteps DEF Steps
  <2>5. CASE UNCHANGED <<floor, homes, dop>>
    <3>1. floor[n] \in Now(n)
      BY DEF Now
    <3>2. Rest
      BY <1>1, <2>2, <2>5, <3>1 DEF homes, source
    <3> QED BY <2>3, <3>2 DEF Steps
  <2> QED BY <1>9, <2>4, <2>5 DEF DrainLand
<1>10. ASSUME NEW e \in Envelopes, Submit(n, e) \/ ReceiverAck(n, e) \/ Sweep(n, e) PROVE Steps
  <2>1. UNCHANGED <<floor, homes, attested, dop, courier, lateCalls, source, drainer, lateForwards>>
    BY <1>10 DEF Submit, ReceiverAck, Sweep
  <2>2. floor[n] \in Now(n)
    BY DEF Now
  <2>3. Rest
    BY <1>1, <2>1, <2>2 DEF homes, source
  <2> QED BY <1>2, <2>1, <2>3 DEF Steps
<1>11. ASSUME NEW delayed \in BOOLEAN, Crash(n, delayed) PROVE Steps
  <2>1. ClocksAdvance
    BY <1>11, FloorUnchanged DEF Crash, TypeOK
  <2>2. OffersStay /\ Offered'
    BY <1>0, <1>11 DEF Crash, OffersStay, Offered, Calls, source
  <2>3. HomeStep /\ OutcomeStep
    BY <1>11 DEF Crash, HomeStep, OutcomeStep, homes, source
  <2>4. ForwardStep
    BY <1>0, <1>11 DEF Crash, ForwardStep, IdleDrain
  <2> QED BY <2>1, <2>2, <2>3, <2>4 DEF Steps
<1> QED BY <1>4, <1>5, <1>6, <1>7, <1>8, <1>9, <1>10, <1>11 DEF NodeStep

LEMMA NextSteps ==
  ASSUME TypeOK, Offered, OnlySigned, [Next]_vars
  PROVE  Steps
<1>1. CASE Tick \/ UNCHANGED vars
  <2>1. UNCHANGED <<floor, homes, dop, courier, lateCalls, source, mail>>
        /\ attested' \subseteq attested
    BY <1>1 DEF Tick, vars
  <2>2. ClocksAdvance
    BY <2>1, FloorUnchanged DEF TypeOK
  <2> QED BY <2>1, <2>2 DEF Steps, OffersStay, Offered, HomeStep, OutcomeStep, ForwardStep, homes,
            source, mail
<1>2. ASSUME NEW m \in Moves, NEW e \in Envelopes, NEW now \in Now(Dst[m]), LateForward(m, e, now)
      PROVE  Steps
  <2>1. m \in Committed
    BY <1>2 DEF LateForward, OnlySigned
  <2>2. ForwardStep
    BY <1>2 DEF LateForward, ForwardStep
  <2> QED BY <1>2, <2>1, <2>2, ForwardedSteps DEF LateForward, Steps
<1> QED BY <1>1, <1>2, MoveSteps, DrainSteps, NodeSteps DEF Next

-----------------------------------------------------------------------------
(* One outcome.                                                            *)

LEMMA HardDeadlineTyped ==
  ASSUME TypeOK, NEW m \in Moves
  PROVE  HardDeadline(m) \in Nat
BY TimeAssumption DEF TypeOK, CallTypes, HardDeadline

LEMMA OutcomeKept ==
  ASSUME TypeOK, TypeOK', Steps, OutcomeInv
  PROVE  OutcomeInv'
<1> USE DEF OutcomeInv
<1>0. issued \subseteq Moves /\ floor \in [Nodes -> 0..MaxTime] /\ floor' \in [Nodes -> 0..MaxTime]
      /\ Src \in [Moves -> Nodes] /\ fences \subseteq issued
      /\ committedAt \in [Moves -> {Never} \cup 0..MaxTime]
  BY MoveAssumption DEF TypeOK, ClockTypes, SourceTypes
<1>1. Offered'
  BY DEF Steps
<1>2. \A m \in issued : HardDeadline(m)' = HardDeadline(m) /\ HardDeadline(m) \in Nat
  BY <1>0, HardDeadlineTyped DEF Steps, OffersStay, Offered, HardDeadline
<1>3. \A m \in issued : floor[Src[m]] > HardDeadline(m) => floor'[Src[m]] > HardDeadline(m)'
  <2> SUFFICES ASSUME NEW m \in issued, floor[Src[m]] > HardDeadline(m)
               PROVE  floor'[Src[m]] > HardDeadline(m)'
    OBVIOUS
  <2>1. Src[m] \in Nodes
    BY <1>0
  <2>2. floor[Src[m]] <= floor'[Src[m]]
    BY <2>1 DEF Steps, ClocksAdvance
  <2> QED BY <1>0, <1>2, <2>1, <2>2, TimeAssumption
<1>4. CASE UNCHANGED <<issued, fences, committedAt>>
  BY <1>1, <1>3, <1>4 DEF FencesHold, OutcomeExclusive
<1>5. ASSUME NEW m \in Moves, NEW now \in Now(Src[m]), UNCHANGED dop, committedAt[m] = Never,
             FirstCommit(m, now)
      PROVE  OutcomeInv'
  <2>1. UNCHANGED <<issued, fences>> /\ m \notin fences /\ now <= HardDeadline(m)
    BY <1>5 DEF FirstCommit, MayCommit
  <2>2. now \in 0..MaxTime /\ floor[Src[m]] <= now
    BY <1>0, <1>5, ClockRead DEF TypeOK
  <2>3. m \notin issued
    BY <1>0, <1>2, <2>1, <2>2, TimeAssumption DEF FencesHold
  <2>4. OutcomeExclusive'
    BY <1>0, <1>5, <2>1, <2>3 DEF FirstCommit, OutcomeExclusive
  <2>5. FencesHold'
    BY <1>3, <2>1 DEF FencesHold
  <2> QED BY <1>1, <2>4, <2>5
<1>6. ASSUME NEW m \in Moves, NEW now \in Now(Src[m]), NEW cancel \in BOOLEAN, UNCHANGED dop,
             committedAt[m] = Never, SignFence(m, now, cancel)
      PROVE  OutcomeInv'
  <2>1. OutcomeExclusive'
    BY <1>6 DEF SignFence, OutcomeExclusive
  <2>2. HardDeadline(m)' = HardDeadline(m) /\ HardDeadline(m) \in Nat
    BY <1>6, HardDeadlineTyped DEF HardDeadline
  <2>3. now \in 0..MaxTime
    BY <1>0, <1>6, ClockRead DEF TypeOK
  <2>4. m \in fences' \/ floor'[Src[m]] > HardDeadline(m)'
    BY <1>0, <1>6, <2>2, <2>3, TimeAssumption DEF SignFence, Store
  <2>5. FencesHold'
    BY <1>3, <1>6, <2>4 DEF SignFence, FencesHold
  <2> QED BY <1>1, <2>1, <2>5
<1>7. ASSUME NEW n \in Nodes, NEW now \in Now(n), Cleanup(n, now)
      PROVE  OutcomeInv'
  <2>1. UNCHANGED <<issued, committedAt>> /\ fences' = fences \ DeadFences(n, now)
        /\ floor'[n] = now
    BY <1>0, <1>7 DEF Cleanup, Store
  <2>2. \A m \in DeadFences(n, now) : Src[m] = n /\ now > HardDeadline(m)
    BY DEF DeadFences
  <2>3. FencesHold'
    BY <1>2, <1>3, <2>1, <2>2 DEF FencesHold
  <2> QED BY <1>1, <2>1, <2>3 DEF OutcomeExclusive
<1> QED BY <1>4, <1>5, <1>6, <1>7 DEF Steps, OutcomeStep

-----------------------------------------------------------------------------
(* One home.                                                               *)

\* A commit follows the newest signed record.
LEMMA CommitExtendsTip ==
  ASSUME HomeInv, NEW m \in Moves, head[Src[m]] = Base[m], m \notin Committed
  PROVE  /\ Base[m] \in Signed /\ Signed \subseteq Lineage[Base[m]]
         /\ \A k \in Committed : Base[k] # Base[m]
<1>1. Base[m] \in Records /\ Src[m] = Home(Base[m]) /\ Src[m] \in Nodes /\ NoRecord \notin Records
  BY MoveAssumption
<1>2. Base[m] \in Signed
  BY <1>1 DEF HomeInv, OnlySigned
<1>3. \A k \in Committed : Base[k] # Base[m]
  <2> SUFFICES ASSUME NEW k \in Committed, Base[k] = Base[m] PROVE FALSE
    OBVIOUS
  <2>1. k \in Moves /\ Src[k] = Src[m] /\ Epoch[k] = Epoch[Base[m]] + 1
    BY <1>1, MoveAssumption DEF Committed
  <2>2. k \in Lineage[Base[m]]
    BY <2>1 DEF HomeInv, SourcesRemember
  <2>3. Epoch[k] <= Epoch[Base[m]]
    BY <1>1, <2>2, LineageEpoch
  <2> QED BY <1>1, <2>1, <2>3, MoveAssumption
<1>4. PICK tip \in Signed : Signed \subseteq Lineage[tip]
  BY DEF HomeInv, Chain
<1>5. tip \in Records
  BY <1>4 DEF Signed, Committed, Records
<1>6. Base[m] = tip
  <2> SUFFICES ASSUME Base[m] # tip PROVE FALSE
    OBVIOUS
  <2>1. PICK k \in Moves : k \in Lineage[tip] /\ Base[k] = Base[m]
    BY <1>2, <1>4, <1>5, LineageSuccessor
  <2>2. Closed(Signed)
    BY MoveAssumption DEF HomeInv, Chain, Closed, Signed, Committed, Records
  <2>3. k \in Signed
    BY <1>4, <1>5, <2>1, <2>2, LineageLeast
  <2>4. k \in Committed
    BY <2>3, MoveAssumption DEF Signed
  <2> QED BY <1>3, <2>1, <2>4
<1> QED BY <1>2, <1>3, <1>4, <1>6

\* What is on file stays signed, whichever way the homes change.
LEMMA SignedGrows ==
  ASSUME TypeOK, HomeStep
  PROVE  Committed \subseteq Committed' /\ Signed \subseteq Signed'
BY DEF HomeStep, Attest, Prepare, Activates, FirstCommit, TypeOK, SourceTypes, Committed,
     Signed, source

LEMMA ForwardsSigned ==
  ASSUME TypeOK, HomeInv, Steps
  PROVE  /\ \A f \in lateForwards' : f[1] \in Committed'
         /\ \A n \in Nodes : drainer'[n][1] = "sending" => drainer'[n][4] \in Committed'
<1>1. Committed \subseteq Committed'
  BY SignedGrows DEF Steps
<1>2. \A n \in Nodes : head[n] \in Moves => head[n] \in Committed
  BY MoveAssumption DEF HomeInv, OnlySigned, Signed, Records
<1> QED BY <1>1, <1>2 DEF HomeInv, OnlySigned, Steps, ForwardStep

LEMMA AttestKept ==
  ASSUME TypeOK, HomeInv, Steps, NEW m \in Moves, NEW now, Attest(m, now)
  PROVE  HomeInv'
<1>1. Src[m] \in Nodes /\ Base[m] \in Records /\ Src \in [Moves -> Nodes]
      /\ NoRecord \notin Records /\ Genesis \in Records
  BY MoveAssumption DEF Records
<1>2. head \in [Nodes -> Records \cup {NoRecord}]
  BY DEF TypeOK, HomeTypes
<1>3. UNCHANGED <<gate, committedAt, Committed, Signed>>
  BY DEF Attest, source, Committed, Signed
<1>4. /\ head' = [head EXCEPT ![Src[m]] = Base[m]]
      /\ head[Src[m]] = Base[m] \/ (head[Src[m]] = NoRecord /\ Base[m] = Genesis /\ Src[m] = Origin)
  BY <1>1 DEF Attest
<1>5. Base[m] \in Signed
  BY <1>1, <1>4 DEF HomeInv, OnlySigned, Signed
<1>6. Chain'
  BY <1>3 DEF HomeInv, Chain
<1>7. OnlySigned'
  BY <1>2, <1>3, <1>4, <1>5, ForwardsSigned DEF HomeInv, OnlySigned, Attest
<1>8. SourcesRemember'
  BY <1>1, <1>2, <1>3, <1>4 DEF HomeInv, SourcesRemember, Committed
<1>9. OpenIsNewest'
  BY <1>1, <1>2, <1>3, <1>4 DEF HomeInv, OpenIsNewest, Held
<1> QED BY <1>6, <1>7, <1>8, <1>9 DEF HomeInv

LEMMA PrepareKept ==
  ASSUME TypeOK, HomeInv, Steps, NEW m \in Moves, NEW now, Prepare(m, now)
  PROVE  HomeInv'
<1>1. Dst[m] \in Nodes /\ Base[m] \in Records /\ Src \in [Moves -> Nodes]
      /\ NoRecord \notin Records /\ Genesis \in Records
  BY MoveAssumption DEF Records
<1>2. head \in [Nodes -> Records \cup {NoRecord}]
      /\ gate \in [Nodes -> {"open", "DormantInbox", "HomeMigrated"}]
  BY DEF TypeOK, HomeTypes
<1>3. UNCHANGED <<attested, committedAt, Committed, Signed>>
      /\ head' = [head EXCEPT ![Dst[m]] = Base[m]]
      /\ gate' = [gate EXCEPT ![Dst[m]] = "DormantInbox"]
  BY DEF Prepare, source, Committed, Signed
<1>4. Base[m] \in Signed
  BY DEF Prepare, HomeInv, OnlySigned
<1>5. Chain'
  BY <1>3 DEF HomeInv, Chain
<1>6. OnlySigned'
  BY <1>2, <1>3, <1>4, ForwardsSigned DEF HomeInv, OnlySigned
<1>7. SourcesRemember'
  <2> SUFFICES ASSUME NEW k \in Committed
               PROVE  head'[Src[k]] # NoRecord /\ k \in Lineage[head'[Src[k]]]
    BY <1>3 DEF SourcesRemember
  <2>1. head[Src[k]] # NoRecord /\ k \in Lineage[head[Src[k]]] /\ Src[k] \in Nodes
    BY <1>1 DEF HomeInv, SourcesRemember, Committed
  <2>2. CASE Src[k] = Dst[m]
    <3>1. head[Dst[m]] \in Lineage[Base[m]]
      BY <2>1, <2>2 DEF Prepare
    <3> QED BY <1>1, <1>2, <1>3, <2>1, <2>2, <3>1, LineageTransitive
  <2>3. CASE Src[k] # Dst[m]
    BY <1>2, <1>3, <2>1, <2>3
  <2> QED BY <2>2, <2>3
<1>8. OpenIsNewest'
  BY <1>1, <1>2, <1>3 DEF HomeInv, OpenIsNewest, Held
<1> QED BY <1>5, <1>6, <1>7, <1>8 DEF HomeInv

LEMMA CommitKept ==
  ASSUME TypeOK, HomeInv, Steps, NEW m \in Moves, NEW now \in Now(Src[m]), committedAt[m] = Never,
         FirstCommit(m, now), UNCHANGED attested
  PROVE  HomeInv'
<1>1. Src[m] \in Nodes /\ Base[m] \in Records /\ Src \in [Moves -> Nodes] /\ m \in Records
      /\ NoRecord \notin Records /\ Genesis \in Records /\ Src[m] = Home(Base[m])
      /\ Base \in [Moves -> Records] /\ Epoch[m] = Epoch[Base[m]] + 1 /\ Epoch \in [Records -> Nat]
  BY MoveAssumption DEF Records
<1>2. head \in [Nodes -> Records \cup {NoRecord}]
      /\ gate \in [Nodes -> {"open", "DormantInbox", "HomeMigrated"}]
      /\ committedAt \in [Moves -> {Never} \cup 0..MaxTime]
  BY DEF TypeOK, HomeTypes, SourceTypes
<1>3. head[Src[m]] = Base[m] /\ head' = [head EXCEPT ![Src[m]] = m]
      /\ gate' = [gate EXCEPT ![Src[m]] = "HomeMigrated"]
  BY DEF FirstCommit, MayCommit
<1>4. Committed' = Committed \cup {m} /\ Signed' = Signed \cup {m}
  <2>1. now # Never
    BY <1>1, ClockRead DEF TypeOK, Never
  <2> QED BY <1>2, <2>1 DEF FirstCommit, Committed, Signed
<1>5. /\ Base[m] \in Signed /\ Signed \subseteq Lineage[Base[m]]
      /\ \A k \in Committed : Base[k] # Base[m]
  BY <1>3, CommitExtendsTip DEF Committed
<1>6. Lineage[Base[m]] \subseteq Lineage[m] /\ m \in Lineage[m] /\ Base[m] \in Lineage[m]
  BY <1>1, LineageBase, LineageTransitive, LineageLeast
<1>7. Chain'
  BY <1>4, <1>5, <1>6 DEF HomeInv, Chain
<1>8. OnlySigned'
  BY <1>2, <1>3, <1>4, ForwardsSigned DEF HomeInv, OnlySigned
<1>9. SourcesRemember'
  <2> SUFFICES ASSUME NEW k \in Committed \cup {m}
               PROVE  head'[Src[k]] # NoRecord /\ k \in Lineage[head'[Src[k]]]
    BY <1>4 DEF SourcesRemember
  <2>1. k = m \/ (head[Src[k]] # NoRecord /\ k \in Lineage[head[Src[k]]])
    BY DEF HomeInv, SourcesRemember
  <2>2. Src[k] \in Nodes
    BY <1>1 DEF Committed
  <2> QED BY <1>1, <1>2, <1>3, <1>6, <2>1, <2>2
<1>10. OpenIsNewest'
  <2> SUFFICES ASSUME NEW n \in Nodes, gate'[n] = "open", n = Origin \/ head'[n] # NoRecord
               PROVE  Home(Held(n)') = n /\ \A k \in Committed' : Base[k] # Held(n)'
    BY DEF OpenIsNewest
  <2>1. n # Src[m] /\ gate[n] = "open" /\ head'[n] = head[n]
    BY <1>1, <1>2, <1>3
  <2>2. Held(n)' = Held(n) /\ Home(Held(n)) = n /\ \A k \in Committed : Base[k] # Held(n)
    BY <2>1 DEF HomeInv, OpenIsNewest, Held
  <2>3. Base[m] # Held(n)
    BY <1>1, <2>1, <2>2
  <2> QED BY <1>4, <2>2, <2>3
<1> QED BY <1>7, <1>8, <1>9, <1>10 DEF HomeInv

LEMMA ActivateKept ==
  ASSUME TypeOK, HomeInv, Steps, NEW m \in Moves, NEW now, Activates(m, now)
  PROVE  HomeInv'
<1>1. Dst[m] \in Nodes /\ Base[m] \in Records /\ Src \in [Moves -> Nodes] /\ m \in Records
      /\ m # NoRecord /\ Home(m) = Dst[m] /\ Epoch \in [Records -> Nat]
      /\ Epoch[m] = Epoch[Base[m]] + 1
  BY MoveAssumption DEF Records, Home
<1>2. head \in [Nodes -> Records \cup {NoRecord}]
      /\ gate \in [Nodes -> {"open", "DormantInbox", "HomeMigrated"}]
  BY DEF TypeOK, HomeTypes
<1>3. UNCHANGED <<attested, committedAt, Committed, Signed>>
      /\ head' = [head EXCEPT ![Dst[m]] = m] /\ gate' = [gate EXCEPT ![Dst[m]] = "open"]
      /\ m \in Committed /\ head[Dst[m]] \in {Base[m], m}
  BY DEF Activates, ActivateEffect, Committed, Signed
<1>4. Lineage[Base[m]] \subseteq Lineage[m]
  BY <1>1, LineageBase, LineageTransitive
<1>5. Chain'
  BY <1>3 DEF HomeInv, Chain
<1>6. OnlySigned'
  BY <1>2, <1>3, ForwardsSigned DEF HomeInv, OnlySigned, Signed
<1>7. SourcesRemember'
  <2> SUFFICES ASSUME NEW k \in Committed
               PROVE  head'[Src[k]] # NoRecord /\ k \in Lineage[head'[Src[k]]]
    BY <1>3 DEF SourcesRemember
  <2>1. head[Src[k]] # NoRecord /\ k \in Lineage[head[Src[k]]] /\ Src[k] \in Nodes
    BY <1>1 DEF HomeInv, SourcesRemember, Committed
  <2> QED BY <1>1, <1>2, <1>3, <1>4, <2>1
<1>8. \A k \in Committed : Base[k] # m
  <2> SUFFICES ASSUME NEW k \in Committed, Base[k] = m PROVE FALSE
    OBVIOUS
  <2>1. k \in Moves /\ k \in Records /\ Src[k] = Dst[m] /\ Epoch[k] = Epoch[m] + 1
    BY <1>1, MoveAssumption DEF Committed, Records
  <2>2. k \in Lineage[head[Dst[m]]]
    BY <2>1 DEF HomeInv, SourcesRemember
  <2>3. Epoch[k] <= Epoch[head[Dst[m]]]
    BY <1>1, <1>3, <2>2, LineageEpoch
  <2> QED BY <1>1, <1>3, <2>1, <2>3
<1>9. OpenIsNewest'
  BY <1>1, <1>2, <1>3, <1>8 DEF HomeInv, OpenIsNewest, Held
<1> QED BY <1>5, <1>6, <1>7, <1>9 DEF HomeInv

LEMMA HomeKept ==
  ASSUME TypeOK, HomeInv, Steps
  PROVE  HomeInv'
<1>1. CASE UNCHANGED <<head, gate, committedAt>> /\ attested' \subseteq attested
  <2>1. UNCHANGED <<Committed, Signed>>
    BY <1>1 DEF Committed, Signed
  <2>2. OnlySigned'
    BY <1>1, <2>1, ForwardsSigned DEF HomeInv, OnlySigned
  <2> QED BY <1>1, <2>1, <2>2 DEF HomeInv, Chain, SourcesRemember, OpenIsNewest, Held
<1> QED BY <1>1, AttestKept, PrepareKept, CommitKept, ActivateKept DEF Steps, HomeStep

LEMMA InitInvariant == Init => HomeInv /\ OutcomeInv
<1> SUFFICES ASSUME Init PROVE HomeInv /\ OutcomeInv
  OBVIOUS
<1>1. Committed = {} /\ Signed = {Genesis}
  BY DEF Init, Committed, Signed
<1>2. Genesis \in Lineage[Genesis]
  BY LineageLeast DEF Records
<1>3. HomeInv
  BY <1>1, <1>2 DEF HomeInv, Chain, OnlySigned, SourcesRemember, OpenIsNewest, Held, Home, Init,
       IdleDrain
<1>4. OutcomeInv
  BY DEF Init, OutcomeInv, Offered, FencesHold, OutcomeExclusive
<1> QED BY <1>3, <1>4

LEMMA InvariantHolds == Spec => [](TypeOK /\ HomeInv /\ OutcomeInv)
<1>1. TypeOK /\ HomeInv /\ OutcomeInv /\ [Next]_vars => (TypeOK /\ HomeInv /\ OutcomeInv)'
  <2> SUFFICES ASSUME TypeOK, HomeInv, OutcomeInv, [Next]_vars
               PROVE  (TypeOK /\ HomeInv /\ OutcomeInv)'
    OBVIOUS
  <2>1. TypeOK'
    BY NextTypes
  <2>2. Steps
    BY NextSteps DEF HomeInv, OutcomeInv
  <2> QED BY <2>1, <2>2, HomeKept, OutcomeKept
<1> QED BY <1>1, InitTypes, InitInvariant, PTL DEF Spec

-----------------------------------------------------------------------------
(* The theorems.                                                           *)

\* The source never signs both a commit and a fence of one authorization, for
\* any number of competing moves, pruned fences and clocks set back.
THEOREM OneOutcome == Spec => []OutcomeExclusive
<1>1. OutcomeInv => OutcomeExclusive
  BY DEF OutcomeInv
<1> QED BY <1>1, InvariantHolds, PTL

\* At most one node serves the account, for any number of nodes and any tree of
\* successive and competing moves, round trips included.
THEOREM OneHomeServes == Spec => []OneHome
<1>1. TypeOK /\ HomeInv => OneHome
  <2> SUFFICES ASSUME TypeOK, HomeInv, NEW n \in Nodes, NEW k \in Nodes, Serves(n), Serves(k)
               PROVE  n = k
    BY DEF OneHome
  <2>1. PICK tip \in Signed : Signed \subseteq Lineage[tip]
    BY DEF HomeInv, Chain
  <2>2. tip \in Records /\ Closed(Signed)
    BY <2>1, MoveAssumption DEF HomeInv, Chain, Closed, Signed, Committed, Records
  <2>3. ASSUME NEW x \in Nodes, Serves(x) PROVE Held(x) = tip /\ Home(tip) = x
    <3>1. Home(Held(x)) = x /\ \A m \in Committed : Base[m] # Held(x)
      BY <2>3 DEF Serves, HomeInv, OpenIsNewest
    <3>2. Held(x) \in Signed
      BY DEF Held, HomeInv, OnlySigned, Signed
    <3>3. ASSUME Held(x) # tip PROVE FALSE
      <4>1. PICK m \in Moves : m \in Lineage[tip] /\ Base[m] = Held(x)
        BY <2>1, <2>2, <3>2, <3>3, LineageSuccessor
      <4>2. m \in Committed
        BY <2>1, <2>2, <4>1, LineageLeast, MoveAssumption DEF Signed
      <4> QED BY <3>1, <4>1, <4>2
    <3> QED BY <3>1, <3>3
  <2> QED BY <2>3
<1> QED BY <1>1, InvariantHolds, PTL

\* A node never goes back to an older home record: not by a stale base, a late
\* activation or a commit.
THEOREM HeadsMoveForward == Spec => HeadsAdvance
<1>1. TypeOK /\ HomeInv /\ OutcomeInv /\ [Next]_vars =>
        [\A n \in Nodes : head[n] # NoRecord /\ head'[n] # head[n] =>
            head[n] \in Lineage[head'[n]]]_vars
  <2> SUFFICES ASSUME TypeOK, HomeInv, OutcomeInv, [Next]_vars, NEW n \in Nodes,
                      head[n] # NoRecord, head'[n] # head[n]
               PROVE  head[n] \in Lineage[head'[n]]
    OBVIOUS
  <2>1. HomeStep
    BY NextSteps DEF HomeInv, OutcomeInv, Steps
  <2>2. head \in [Nodes -> Records \cup {NoRecord}]
    BY DEF TypeOK, HomeTypes
  <2>3. ASSUME NEW m \in Moves, NEW now, Attest(m, now) PROVE head[n] \in Lineage[head'[n]]
    BY <2>2, <2>3 DEF Attest
  <2>4. ASSUME NEW m \in Moves, NEW now, Prepare(m, now) PROVE head[n] \in Lineage[head'[n]]
    BY <2>2, <2>4 DEF Prepare
  <2>5. ASSUME NEW m \in Moves, NEW now, Activates(m, now) PROVE head[n] \in Lineage[head'[n]]
    BY <2>2, <2>5, LineageBase DEF Activates, ActivateEffect
  <2>6. ASSUME NEW m \in Moves, NEW now, FirstCommit(m, now) PROVE head[n] \in Lineage[head'[n]]
    BY <2>2, <2>6, LineageBase DEF FirstCommit, MayCommit
  <2> QED BY <2>1, <2>3, <2>4, <2>5, <2>6 DEF HomeStep
<1> QED BY <1>1, InvariantHolds, PTL DEF Spec, HeadsAdvance

-----------------------------------------------------------------------------
(* Mail: the inductive invariants.                                         *)

\* The account never returns: no node is the home of two records of a chain.
NoReturn == \A r \in Records : \A x, y \in Lineage[r] : Home(x) = Home(y) => x = y

Early == {"None", "Prepared"}
Ends == {"Active", "Expired", "Aborted", "Compacted"}

\* Nothing is asked of a source, and nothing committed, before the seal.
Unsealed ==
  \A m \in Moves : dop[m].phase \in Early =>
    courier[m] = "idle" /\ m \notin Committed /\ \A c \in lateCalls : c[2] # m

OnePrepared ==
  \A m, k \in Moves : dop[m].phase = "Prepared" /\ dop[k].phase = "Prepared" /\ Dst[m] = Dst[k]
                        => m = k

\* A sealed move holds its node's guard and the dormant route.
PendingGuard ==
  \A m \in Moves : dop[m].phase \in Pending =>
    guard[Dst[m]] = m /\ route[Dst[m]].move = m /\ ~route[Dst[m]].active

\* A reservation keeps the gate closed until a competing move was activated, whose
\* route it may then not seal over.
Reserved ==
  \A m \in Moves : dop[m].phase = "Prepared" =>
    \/ head[Dst[m]] = Base[m] /\ gate[Dst[m]] # "open"
    \/ /\ head[Dst[m]] \in Moves /\ Epoch[head[Dst[m]]] >= Epoch[m]
       /\ route[Dst[m]].epoch >= Epoch[m] /\ ~route[Dst[m]].released
       /\ guard[Dst[m]] = NoRecord

\* A route is of a move from or to its node; the dormant route of the head is
\* of a move away.
RouteOwn ==
  \A n \in Nodes : route[n].move \in Moves =>
    /\ n \in {Src[route[n].move], Dst[route[n].move]}
    /\ head[n] = route[n].move /\ ~route[n].active => Src[route[n].move] = n

RouteInv == Unsealed /\ OnePrepared /\ PendingGuard /\ Reserved /\ RouteOwn

\* An unexpired envelope in an inbox lies at the node that serves the account, or
\* is an obligation of the drain of a move away from its node.
Obliged ==
  \A n \in Nodes : \A e \in box[n] : time < RetainUntil[e] =>
    Serves(n) \/ \E m \in Moves : Src[m] = n /\ e \in Rows(m)

\* Only homes take mail.
TakenHome == \A n \in Nodes, e \in Envelopes : e \in taken[n] => \E r \in Signed : Home(r) = n

Acknowledged(n) == drainer[n][1] = "reply" /\ drainer[n][4] = "BAck"

\* The next home has what the drain was acknowledged for.
ForwardsTaken ==
  \A n \in Nodes :
    /\ drainer[n][1] = "sending" => Src[drainer[n][4]] = n
    /\ Acknowledged(n) => \E p \in Committed : Src[p] = n /\ drainer[n][3] \in taken[Dst[p]]

\* Of the homes that took an envelope nobody acknowledged, one whose successor has
\* not taken it still holds it.
Last(n, e) == \A p \in Committed : Src[p] = n => e \notin taken[Dst[p]]
Custody ==
  \A e \in Envelopes : (time < RetainUntil[e] /\ \E n \in Nodes : e \in taken[n]) =>
    \E n \in Nodes : e \in acked[n] \/ (e \in box[n] /\ Last(n, e))

CustodyInv == TakenHome /\ ForwardsTaken /\ Custody

-----------------------------------------------------------------------------
(* Mail: what a step may do.                                               *)

PhasesKept ==
  \A m \in Moves : \/ dop'[m].phase = dop[m].phase
                   \/ dop[m].phase \in Pending /\ dop'[m].phase \in Pending
                   \/ dop[m].phase # "None" /\ dop'[m].phase \in Ends

CallStep ==
  /\ \A m \in Moves : courier'[m] # "idle" => courier[m] # "idle" \/ dop[m].phase \notin Early
  /\ \A c \in lateCalls' : c \in lateCalls \/ courier[c[2]] # "idle" \/ dop[c[2]].phase \notin Early

RouteStep ==
  \/ UNCHANGED homes /\ PhasesKept
  \/ \E m \in Moves : \E now : Attest(m, now) \/ Prepare(m, now) \/ Seal(m, now)
  \/ \E m \in Moves : \E now :
       /\ dop[m].phase \in Pending
       /\ (head[Dst[m]] \in {Base[m], m} /\ ActivateEffect(m, now)) \/ FenceEffect(m, now)

MailStep ==
  \/ UNCHANGED <<box, taken, acked>> /\ \A m \in Moves : Rows(m)' = Rows(m)
  \/ \E n \in Nodes, e \in Envelopes :
       /\ Settled(n, {e}) /\ UNCHANGED <<homes, taken>>
       /\ \/ (time >= RetainUntil[e] \/ (Acknowledged(n) /\ drainer[n][3] = e)) /\ UNCHANGED acked
          \/ acked' = [acked EXCEPT ![n] = @ \cup {e}]
  \/ \E n \in Nodes, e \in Envelopes : Accept(n, e) /\ Serves(n)' /\ UNCHANGED <<drain, acked>>

Quiet == UNCHANGED committedAt /\ RouteStep /\ MailStep

CommitStep ==
  \E m \in Moves : \E now \in Now(Src[m]) :
    committedAt[m] = Never /\ Called("commit", m) /\ FirstCommit(m, now) /\ UNCHANGED <<time, dop>>

DrainerStep ==
  \A n \in Nodes :
    /\ drainer'[n][1] = "sending" =>
         \/ drainer'[n] = drainer[n]
         \/ /\ head[n] \in Moves /\ drainer'[n][4] = head[n]
            /\ ~route[n].active /\ route[n].move = head[n]
    /\ Acknowledged(n)' =>
         \/ drainer'[n] = drainer[n]
         \/ drainer[n][1] = "sending" /\ drainer'[n][3] \in taken'[Dst[drainer[n][4]]]

Effects == time <= time' /\ CallStep /\ DrainerStep /\ (Quiet \/ CommitStep)

LEMMA SameRows ==
  ASSUME UNCHANGED <<box, taken, drain, acked>>
  PROVE  MailStep
BY DEF MailStep, Rows

LEMMA SameDrainer ==
  ASSUME UNCHANGED drainer
  PROVE  DrainerStep
BY DEF DrainerStep

LEMMA MoveEffects ==
  ASSUME TypeOK, NEW m \in Moves, MoveStep(m)
  PROVE  Effects
<1>0. /\ dop \in [Moves -> [phase : Phases, offered : 0..MaxTime, sealed : 0..MaxTime]]
      /\ courier \in [Moves -> {"idle", "claimed", "commit", "status", "committed", "fenced"}]
      /\ time \in 0..MaxTime /\ MaxTime \in Nat
  BY TimeAssumption DEF TypeOK, CallTypes, ClockTypes
<1>1. UNCHANGED time /\ time <= time' /\ UNCHANGED drainer
  <2>1. UNCHANGED <<time, drainer>>
    BY DEF MoveStep, Attest, SourceCommit, FirstCommit, SourceStatus, Cancel, Prepare, Abort, Seal,
         RelayProof, RelayFence, OwnerCommit, CourierClaim, CourierAsk, CourierReturn, CourierApply,
         mail
  <2> QED BY <1>0, <2>1
<1>2. DrainerStep
  BY <1>1, SameDrainer
<1>3. ASSUME UNCHANGED <<committedAt, mail>>, RouteStep, CallStep PROVE Effects
  BY <1>1, <1>2, <1>3, SameRows DEF Effects, Quiet, mail
<1>4. ASSUME UNCHANGED homes, PhasesKept PROVE RouteStep
  BY <1>4 DEF RouteStep
<1>5. ASSUME UNCHANGED dop PROVE PhasesKept
  BY <1>5 DEF PhasesKept
<1>6. ASSUME UNCHANGED <<courier, lateCalls>> PROVE CallStep
  BY <1>6 DEF CallStep
<1>7. ASSUME NEW now, Attest(m, now) \/ Prepare(m, now) \/ Seal(m, now) PROVE Effects
  <2>1. RouteStep
    BY <1>7 DEF RouteStep
  <2>2. UNCHANGED <<committedAt, mail, courier, lateCalls>>
    BY <1>7 DEF Attest, Prepare, Seal, source
  <2> QED BY <1>3, <1>6, <2>1, <2>2
<1>8. ASSUME NEW now \in Now(Src[m]), SourceCommit(m, now) PROVE Effects
  <2>1. CallStep
    BY <1>0, <1>8 DEF SourceCommit, Answer, CallStep
  <2>2. CASE committedAt[m] # Never
    BY <1>3, <1>4, <1>5, <1>8, <2>1, <2>2 DEF SourceCommit, source
  <2>3. CASE committedAt[m] = Never
    BY <1>1, <1>2, <1>8, <2>1, <2>3 DEF SourceCommit, Effects, CommitStep
  <2> QED BY <2>2, <2>3
<1>9. ASSUME NEW now, SourceStatus(m, now) PROVE Effects
  <2>1. CallStep
    BY <1>0, <1>9 DEF SourceStatus, Answer, CallStep
  <2> QED BY <1>3, <1>4, <1>5, <1>9, <2>1 DEF SourceStatus, SignFence, source
<1>10. ASSUME NEW now, Cancel(m, now) PROVE Effects
  BY <1>3, <1>4, <1>5, <1>6, <1>10 DEF Cancel, SignFence
<1>11. ASSUME NEW now, Abort(m, now) PROVE Effects
  <2>1. PhasesKept
    BY <1>0, <1>11 DEF Abort, PhasesKept, Ends
  <2> QED BY <1>3, <1>4, <1>6, <1>11, <2>1 DEF Abort, source
<1>12. ASSUME NEW now, RelayProof(m, now) \/ RelayFence(m, now) PROVE Effects
  <2>1. RouteStep
    BY <1>12 DEF RelayProof, RelayFence, MayActivate, RouteStep
  <2> QED BY <1>3, <1>6, <1>12, <2>1 DEF RelayProof, RelayFence, source
<1>13. ASSUME NEW now, OwnerCommit(m, now) PROVE Effects
  <2>1. CallStep
    BY <1>0, <1>13 DEF OwnerCommit, CallStep, Pending, Early
  <2> QED BY <1>3, <1>4, <1>5, <1>13, <2>1 DEF OwnerCommit, source
<1>14. ASSUME NEW now, CourierClaim(m, now) PROVE Effects
  <2>1. CallStep
    BY <1>0, <1>14 DEF CourierClaim, CallStep, Pending, Early
  <2> QED BY <1>3, <1>4, <1>5, <1>14, <2>1 DEF CourierClaim, source
<1>15. ASSUME NEW unknown, Retry(m, unknown) \/ UNCHANGED dop PROVE PhasesKept
  BY <1>0, <1>15 DEF Retry, PhasesKept, Pending
<1>16. ASSUME NEW now, CourierAsk(m, now) PROVE Effects
  <2>1. CallStep
    BY <1>0, <1>16 DEF CourierAsk, CallStep
  <2>2. PhasesKept
    BY <1>15, <1>16 DEF CourierAsk
  <2> QED BY <1>3, <1>4, <1>16, <2>1, <2>2 DEF CourierAsk, source
<1>17. ASSUME NEW now, NEW delayed, CourierReturn(m, now, delayed) PROVE Effects
  <2>1. CallStep
    BY <1>0, <1>17 DEF CourierReturn, CallStep
  <2>2. PhasesKept
    BY <1>15, <1>17 DEF CourierReturn
  <2> QED BY <1>3, <1>4, <1>17, <2>1, <2>2 DEF CourierReturn, source
<1>18. ASSUME NEW now, CourierApply(m, now) PROVE Effects
  <2>1. CallStep
    BY <1>0, <1>18 DEF CourierApply, CallStep
  <2>2. RouteStep
    <3>1. CASE Retry(m, StatusOnly(m, now)) /\ UNCHANGED homes
      BY <1>4, <1>15, <3>1
    <3>2. CASE MayActivate(m) /\ ActivateEffect(m, now)
      BY <3>2 DEF MayActivate, RouteStep
    <3>3. CASE dop[m].phase \in Pending /\ FenceEffect(m, now)
      BY <3>3 DEF RouteStep
    <3> QED BY <1>18, <3>1, <3>2, <3>3 DEF CourierApply
  <2> QED BY <1>3, <1>18, <2>1, <2>2 DEF CourierApply, source
<1> QED BY <1>7, <1>8, <1>9, <1>10, <1>11, <1>12, <1>13, <1>14, <1>16, <1>17, <1>18 DEF MoveStep

\* A forward that lands activates its move if need be, and is taken.
LEMMA ForwardEffects ==
  ASSUME TypeOK, NEW p \in Moves, NEW e \in Envelopes, NEW now, Forwarded(p, e, now),
         UNCHANGED <<committedAt, drain, acked>>
  PROVE  Quiet /\ e \in taken'[Dst[p]]
<1>1. Dst[p] \in Nodes /\ head \in [Nodes -> Records \cup {NoRecord}] /\ NoRecord \notin Records
      /\ p \in Records /\ gate \in [Nodes -> {"open", "DormantInbox", "HomeMigrated"}]
      /\ route \in [Nodes -> Routes] /\ taken \in [Nodes -> SUBSET Envelopes]
  BY MoveAssumption DEF TypeOK, HomeTypes, MailTypes, Records
<1>2. CASE dop[p].phase \in Pending
  <2>1. ActivateEffect(p, now) /\ head[Dst[p]] \in {Base[p], p}
    BY <1>2 DEF Forwarded, ProofHolds
  <2>2. Serves(Dst[p])'
    BY <1>1, <2>1 DEF ActivateEffect, Serves
  <2> QED BY <1>1, <1>2, <2>1, <2>2 DEF Quiet, RouteStep, MailStep, Forwarded, Accept
<1>3. CASE dop[p].phase \notin Pending
  <2>1. Serves(Dst[p]) /\ UNCHANGED <<homes, dop>>
    BY <1>3 DEF Forwarded
  <2>2. Serves(Dst[p])'
    BY <2>1 DEF Serves, homes
  <2>3. PhasesKept
    BY <2>1 DEF PhasesKept
  <2> QED BY <1>1, <2>1, <2>2, <2>3 DEF Quiet, RouteStep, MailStep, Forwarded, Accept
<1> QED BY <1>2, <1>3

LEMMA DrainEffects ==
  ASSUME TypeOK, NEW m \in Moves, NEW e \in Envelopes, DrainStep(m, e)
  PROVE  Effects
<1>0. /\ Src[m] \in Nodes /\ time \in 0..MaxTime /\ MaxTime \in Nat
      /\ drainer \in [Nodes -> Drains] /\ RetainUntil[e] \in Nat
      /\ drain \in [Moves -> [Envelopes -> {"none", "Pending", "Held", "Rejected"}]]
  BY MoveAssumption, TimeAssumption DEF TypeOK, ClockTypes, MailTypes
<1>1. PICK now \in Now(Src[m]) :
        DrainExpired(m, e, now) \/ DrainHold(m, e, now) \/ DrainSend(m, e, now)
  BY DEF DrainStep
<1>2. UNCHANGED <<MailRest, homes, dop>>
  BY <1>1 DEF DrainExpired, DrainHold, DrainSend
<1>3. time <= time' /\ CallStep /\ UNCHANGED committedAt /\ RouteStep
  BY <1>0, <1>2 DEF MailRest, CallStep, RouteStep, PhasesKept, source
<1>4. now <= time /\ now \in Nat
  BY <1>0, ClockRead DEF TypeOK
<1>5. CASE DrainExpired(m, e, now)
  <2>1. MailStep
    <3>1. Settled(Src[m], {e}) /\ UNCHANGED <<homes, taken, acked>> /\ time >= RetainUntil[e]
      BY <1>0, <1>2, <1>4, <1>5 DEF DrainExpired, MailRest
    <3> QED BY <1>0, <3>1 DEF MailStep
  <2>2. DrainerStep
    BY <1>0, <1>5 DEF DrainExpired, DrainerStep, Acknowledged, IdleDrain
  <2> QED BY <1>3, <2>1, <2>2 DEF Effects, Quiet
<1>6. CASE DrainHold(m, e, now)
  <2>1. \A k \in Moves : Rows(k)' = Rows(k)
    BY <1>0, <1>6 DEF DrainHold, Rows
  <2>2. MailStep
    BY <1>2, <1>6, <2>1 DEF DrainHold, MailStep, MailRest
  <2> QED BY <1>3, <1>6, <2>2, SameDrainer DEF Effects, Quiet, DrainHold
<1>7. CASE DrainSend(m, e, now)
  <2>1. MailStep
    BY <1>2, <1>7, SameRows DEF DrainSend, MailRest
  <2>2. DrainerStep
    BY <1>0, <1>7 DEF DrainSend, WindowOpen, DrainerStep, Acknowledged
  <2> QED BY <1>3, <2>1, <2>2 DEF Effects, Quiet
<1> QED BY <1>1, <1>5, <1>6, <1>7

LEMMA NodeEffects ==
  ASSUME TypeOK, NEW n \in Nodes, NodeStep(n)
  PROVE  Effects
<1>0. /\ dop \in [Moves -> [phase : Phases, offered : 0..MaxTime, sealed : 0..MaxTime]]
      /\ courier \in [Moves -> {"idle", "claimed", "commit", "status", "committed", "fenced"}]
      /\ time \in 0..MaxTime /\ MaxTime \in Nat /\ drainer \in [Nodes -> Drains]
      /\ drain \in [Moves -> [Envelopes -> {"none", "Pending", "Held", "Rejected"}]]
      /\ RetainUntil \in [Envelopes -> Nat]
  BY TimeAssumption DEF TypeOK, CallTypes, ClockTypes, MailTypes
<1>1. ASSUME UNCHANGED <<time, homes, dop, courier, lateCalls, committedAt>>, DrainerStep, MailStep
      PROVE  Effects
  BY <1>0, <1>1 DEF Effects, Quiet, RouteStep, PhasesKept, CallStep
<1>2. ASSUME NEW new, drainer' = [drainer EXCEPT ![n] = new], new[1] \notin {"sending", "reply"}
      PROVE  DrainerStep
  BY <1>0, <1>2 DEF DrainerStep, Acknowledged
<1>3. drainer[n][1] = "reply" => drainer[n][2] \in Moves /\ drainer[n][3] \in Envelopes
  BY <1>0 DEF Drains, IdleDrain
<1>4. drainer[n][1] = "sending" =>
        drainer[n][2] \in Moves /\ drainer[n][3] \in Envelopes /\ drainer[n][4] \in Moves
  BY <1>0 DEF Drains, IdleDrain
<1>5. ASSUME NEW now \in Now(n), Cleanup(n, now) PROVE Effects
  <2>1. PhasesKept
    BY <1>0, <1>5 DEF Cleanup, PhasesKept, DeadDestination, Ends
  <2>2. RouteStep /\ CallStep /\ time <= time' /\ UNCHANGED committedAt
    BY <1>0, <1>5, <2>1 DEF Cleanup, RouteStep, CallStep
  <2> QED BY <1>5, <2>2, SameRows, SameDrainer DEF Cleanup, mail, Effects, Quiet
<1>6. ASSUME NEW now \in Now(n), DrainSettle(n, now) PROVE Effects
  <2> DEFINE m == drainer[n][2]
             e == drainer[n][3]
  <2>1. m \in Moves /\ e \in Envelopes /\ drainer[n][1] = "reply"
        /\ UNCHANGED <<MailRest, homes, dop>>
    BY <1>3, <1>6 DEF DrainSettle
  <2>2. DrainerStep
    <3>1. PICK d \in {IdleDrain, <<"finish", m>>} : drainer' = [drainer EXCEPT ![n] = d]
      BY <1>6 DEF DrainSettle
    <3>2. d[1] \notin {"sending", "reply"}
      BY DEF IdleDrain
    <3> QED BY <1>2, <3>1, <3>2
  <2>3. MailStep
    <3>1. CASE Settled(n, {e}) /\ drainer[n][4] = "BAck"
      BY <2>1, <3>1 DEF MailStep, MailRest, Acknowledged
    <3>2. CASE UNCHANGED <<box, drain>>
      BY <2>1, <3>2, SameRows DEF MailRest
    <3>3. CASE UNCHANGED box /\ e \in Rows(m) /\ drain' = [drain EXCEPT ![m][e] = "Rejected"]
      <4>1. \A k \in Moves : Rows(k)' = Rows(k)
        BY <1>0, <2>1, <3>3 DEF Rows
      <4> QED BY <2>1, <3>3, <4>1 DEF MailStep, MailRest
    <3> QED BY <1>6, <3>1, <3>2, <3>3 DEF DrainSettle
  <2> QED BY <1>1, <2>1, <2>2, <2>3 DEF MailRest, source
<1>7. ASSUME NEW now \in Now(n), DrainFinish(n, now) PROVE Effects
  <2>1. DrainerStep
    BY <1>2, <1>7 DEF DrainFinish, IdleDrain
  <2> QED BY <1>1, <1>7, <2>1, SameRows DEF DrainFinish
<1>8. ASSUME NEW now \in Now(n), NEW delayed \in BOOLEAN, DrainLost(n, now, delayed) PROVE Effects
  <2>1. DrainerStep
    BY <1>2, <1>8 DEF DrainLost, IdleDrain
  <2>2. \A k \in Moves : Rows(k)' = Rows(k)
    BY <1>0, <1>4, <1>8 DEF DrainLost, Rows
  <2> QED BY <1>1, <1>8, <2>1, <2>2 DEF DrainLost, MailStep, MailRest, source
<1>9. ASSUME NEW now \in Now(n), NEW e \in Envelopes, SubmitForward(n, e, now) PROVE Effects
  BY <1>1, <1>9, SameRows, SameDrainer DEF SubmitForward, source
<1>10. ASSUME DrainLand(n) PROVE Effects
  <2> DEFINE m == drainer[n][2]
             e == drainer[n][3]
             p == drainer[n][4]
  <2>1. m \in Moves /\ e \in Envelopes /\ p \in Moves /\ drainer[n][1] = "sending"
    BY <1>4, <1>10 DEF DrainLand
  <2>2. UNCHANGED <<time, courier, lateCalls, source, drain, acked>>
    BY <1>10 DEF DrainLand
  <2>3. CASE /\ \E now \in Now(Dst[p]) : Forwarded(p, e, now)
             /\ drainer' = [drainer EXCEPT ![n] = <<"reply", m, e, "BAck">>]
    <3>1. Quiet /\ e \in taken'[Dst[p]]
      <4> HIDE DEF m, e, p
      <4> QED BY <2>1, <2>2, <2>3, ForwardEffects DEF source
    <3>2. DrainerStep
      BY <1>0, <2>1, <2>3, <3>1 DEF DrainerStep, Acknowledged
    <3> QED BY <1>0, <2>2, <3>1, <3>2 DEF Effects, CallStep
  <2>4. CASE /\ UNCHANGED <<floor, homes, dop, box, taken, hopped>>
             /\ drainer' = [drainer EXCEPT ![n] = <<"reply", m, e, "Rejected">>]
    <3>1. DrainerStep
      BY <1>0, <2>1, <2>4 DEF DrainerStep, Acknowledged
    <3> QED BY <1>1, <2>2, <2>4, <3>1, SameRows DEF source
  <2> QED BY <1>10, <2>3, <2>4 DEF DrainLand
<1>11. ASSUME NEW e \in Envelopes, Submit(n, e) PROVE Effects
  <2>1. Serves(n)' /\ Accept(n, e)
    BY <1>11 DEF Submit, Serves, homes
  <2>2. MailStep
    BY <1>11, <2>1 DEF Submit, MailStep
  <2> QED BY <1>1, <1>11, <2>2, SameDrainer DEF Submit, source
<1>12. ASSUME NEW e \in Envelopes, ReceiverAck(n, e) \/ Sweep(n, e) PROVE Effects
  <2>1. MailStep
    BY <1>12 DEF ReceiverAck, Sweep, MailStep
  <2> QED BY <1>1, <1>12, <2>1, SameDrainer DEF ReceiverAck, Sweep, source
<1>13. ASSUME NEW delayed \in BOOLEAN, Crash(n, delayed) PROVE Effects
  <2>1. DrainerStep
    BY <1>2, <1>13 DEF Crash, IdleDrain
  <2>2. CallStep
    BY <1>0, <1>13 DEF Crash, CallStep, Calls
  <2>3. RouteStep /\ time <= time' /\ UNCHANGED committedAt
    BY <1>0, <1>13 DEF Crash, RouteStep, PhasesKept, source
  <2> QED BY <1>13, <2>1, <2>2, <2>3, SameRows DEF Crash, Effects, Quiet
<1> QED BY <1>5, <1>6, <1>7, <1>8, <1>9, <1>10, <1>11, <1>12, <1>13 DEF NodeStep

LEMMA NextEffects ==
  ASSUME TypeOK, [Next]_vars
  PROVE  Effects
<1>0. time \in 0..MaxTime /\ MaxTime \in Nat
  BY TimeAssumption DEF TypeOK, ClockTypes
<1>1. CASE Tick \/ UNCHANGED vars
  <2>1. UNCHANGED <<homes, dop, courier, lateCalls, source, mail>> /\ time <= time'
    BY <1>0, <1>1 DEF Tick, vars
  <2>2. RouteStep /\ CallStep
    BY <2>1 DEF RouteStep, PhasesKept, CallStep
  <2> QED BY <2>1, <2>2, SameRows, SameDrainer DEF Effects, Quiet, mail, source
<1>2. ASSUME NEW m \in Moves, NEW e \in Envelopes, NEW now \in Now(Dst[m]), LateForward(m, e, now)
      PROVE  Effects
  <2>1. Quiet
    BY <1>2, ForwardEffects DEF LateForward, source
  <2>2. CallStep /\ time <= time'
    BY <1>0, <1>2 DEF LateForward, CallStep
  <2> QED BY <1>2, <2>1, <2>2, SameDrainer DEF LateForward, Effects
<1> QED BY <1>1, <1>2, MoveEffects, DrainEffects, NodeEffects DEF Next

-----------------------------------------------------------------------------
(* Mail: reservations, seals and routes.                                   *)

LEMMA MoveFacts ==
  ASSUME TypeOK, NEW m \in Moves
  PROVE  /\ Src[m] \in Nodes /\ Dst[m] \in Nodes /\ Dst[m] # Src[m] /\ Src[m] = Home(Base[m])
         /\ Base[m] \in Records /\ m \in Records /\ Home(m) = Dst[m] /\ m # NoRecord
         /\ Base[m] # NoRecord /\ Epoch[m] \in Nat /\ Epoch[Base[m]] \in Nat
         /\ Epoch[m] = Epoch[Base[m]] + 1 /\ Genesis # NoRecord
BY MoveAssumption DEF Records, Home

LEMMA StateFacts ==
  ASSUME TypeOK
  PROVE  /\ dop \in [Moves -> [phase : Phases, offered : 0..MaxTime, sealed : 0..MaxTime]]
         /\ head \in [Nodes -> Records \cup {NoRecord}]
         /\ gate \in [Nodes -> {"open", "DormantInbox", "HomeMigrated"}]
         /\ route \in [Nodes -> Routes] /\ guard \in [Nodes -> Moves \cup {NoRecord}]
         /\ committedAt \in [Moves -> {Never} \cup 0..MaxTime]
BY DEF TypeOK, CallTypes, HomeTypes, SourceTypes

\* A phase before the seal was one before the step.
LEMMA EarlyBefore ==
  ASSUME TypeOK, Effects, NEW m \in Moves, dop'[m].phase \in Early
  PROVE  dop[m].phase \in Early
<1>1. CASE PhasesKept \/ UNCHANGED dop
  BY <1>1 DEF PhasesKept, Early, Ends, Pending
<1>2. ASSUME NEW k \in Moves, NEW now,
             Attest(k, now) \/ Prepare(k, now) \/ Seal(k, now)
               \/ ActivateEffect(k, now) \/ FenceEffect(k, now)
      PROVE  dop[m].phase \in Early
  BY <1>2, StateFacts DEF Attest, Prepare, Seal, ActivateEffect, FenceEffect, Early
<1> QED BY <1>1, <1>2 DEF Effects, Quiet, CommitStep, RouteStep

LEMMA UnsealedKept ==
  ASSUME TypeOK, RouteInv, Effects
  PROVE  Unsealed'
<1> SUFFICES ASSUME NEW m \in Moves, dop'[m].phase \in Early
             PROVE  courier'[m] = "idle" /\ m \notin Committed' /\ \A c \in lateCalls' : c[2] # m
  BY DEF Unsealed
<1>1. /\ dop[m].phase \in Early /\ courier[m] = "idle" /\ m \notin Committed
      /\ \A c \in lateCalls : c[2] # m
  BY EarlyBefore DEF RouteInv, Unsealed
<1>2. courier'[m] = "idle" /\ \A c \in lateCalls' : c[2] # m
  BY <1>1 DEF Effects, CallStep
<1>3. m \notin Committed'
  <2>1. CASE Quiet
    BY <1>1, <2>1 DEF Quiet, Committed
  <2>2. CASE CommitStep
    <3>1. PICK k \in Moves : Called("commit", k) /\ \E now : FirstCommit(k, now)
      BY <2>2 DEF CommitStep
    <3>2. k # m
      BY <1>1, <3>1 DEF Called
    <3> QED BY <1>1, <3>1, <3>2, StateFacts DEF FirstCommit, Committed
  <2> QED BY <2>1, <2>2 DEF Effects
<1> QED BY <1>2, <1>3

LEMMA CommitRoutes ==
  ASSUME TypeOK, HomeInv, RouteInv, CommitStep
  PROVE  OnePrepared' /\ PendingGuard' /\ Reserved' /\ RouteOwn'
<1>1. PICK m \in Moves : \E now \in Now(Src[m]) : FirstCommit(m, now) /\ UNCHANGED dop
  BY DEF CommitStep
<1> DEFINE n == Src[m]
<1>2. /\ guard[n] = NoRecord /\ head[n] = Base[m]
      /\ head' = [head EXCEPT ![n] = m] /\ gate' = [gate EXCEPT ![n] = "HomeMigrated"]
      /\ route' = [route EXCEPT ![n] = [epoch |-> Epoch[m], move |-> m,
                                        active |-> FALSE, released |-> FALSE]]
      /\ guard' = [guard EXCEPT ![n] = NoRecord] /\ UNCHANGED dop
  BY <1>1 DEF FirstCommit, MayCommit, NoLiveWindow
<1>3. n \in Nodes
  BY MoveFacts
<1> HIDE DEF n
<1>4. OnePrepared'
  BY <1>2 DEF RouteInv, OnePrepared
<1>5. PendingGuard'
  <2> SUFFICES ASSUME NEW k \in Moves, dop[k].phase \in Pending
               PROVE  guard'[Dst[k]] = k /\ route'[Dst[k]].move = k /\ ~route'[Dst[k]].active
    BY <1>2 DEF PendingGuard
  <2>1. guard[Dst[k]] = k /\ route[Dst[k]].move = k /\ ~route[Dst[k]].active
    BY DEF RouteInv, PendingGuard
  <2>2. Dst[k] # n
    BY <1>2, <2>1, MoveFacts
  <2> QED BY <1>2, <2>1, <2>2, StateFacts, MoveFacts
<1>6. Reserved'
  <2> SUFFICES ASSUME NEW k \in Moves, dop[k].phase = "Prepared" PROVE
        \/ head'[Dst[k]] = Base[k] /\ gate'[Dst[k]] # "open"
        \/ /\ head'[Dst[k]] \in Moves /\ Epoch[head'[Dst[k]]] >= Epoch[k]
           /\ route'[Dst[k]].epoch >= Epoch[k] /\ ~route'[Dst[k]].released
           /\ guard'[Dst[k]] = NoRecord
    BY <1>2 DEF Reserved
  <2>1. \/ head[Dst[k]] = Base[k] /\ gate[Dst[k]] # "open"
        \/ /\ head[Dst[k]] \in Moves /\ Epoch[head[Dst[k]]] >= Epoch[k]
           /\ route[Dst[k]].epoch >= Epoch[k] /\ ~route[Dst[k]].released
           /\ guard[Dst[k]] = NoRecord
    BY DEF RouteInv, Reserved
  <2>2. CASE Dst[k] # n
    BY <1>2, <2>1, <2>2, StateFacts, MoveFacts
  <2>3. CASE Dst[k] = n
    <3>1. Epoch[head[n]] >= Epoch[k]
      BY <1>2, <2>1, <2>3, MoveFacts DEF n
    <3>2. Epoch[m] >= Epoch[k]
      BY <1>2, <3>1, MoveFacts
    <3> QED BY <1>2, <1>3, <2>3, <3>2, StateFacts, MoveFacts
  <2> QED BY <2>2, <2>3
<1>7. RouteOwn'
  <2> SUFFICES ASSUME NEW x \in Nodes, route'[x].move \in Moves
               PROVE  /\ x \in {Src[route'[x].move], Dst[route'[x].move]}
                      /\ head'[x] = route'[x].move /\ ~route'[x].active => Src[route'[x].move] = x
    BY DEF RouteOwn
  <2>1. CASE x = n
    BY <1>2, <1>3, <2>1, StateFacts DEF n
  <2>2. CASE x # n
    BY <1>2, <2>2, StateFacts DEF RouteInv, RouteOwn
  <2> QED BY <2>1, <2>2
<1> QED BY <1>4, <1>5, <1>6, <1>7

LEMMA AttestRoutes ==
  ASSUME TypeOK, HomeInv, RouteInv, NEW m \in Moves, NEW now, Attest(m, now)
  PROVE  OnePrepared' /\ PendingGuard' /\ Reserved' /\ RouteOwn'
<1>1. /\ UNCHANGED <<gate, route, guard, dop>> /\ head' = [head EXCEPT ![Src[m]] = Base[m]]
      /\ head[Src[m]] = Base[m] \/ (head[Src[m]] = NoRecord /\ Base[m] = Genesis)
  BY MoveFacts DEF Attest
<1>2. \A x \in Nodes : head'[x] = head[x] \/ (head[x] = NoRecord /\ head'[x] = Genesis)
  BY <1>1, StateFacts, MoveFacts
<1>3. OnePrepared' /\ PendingGuard'
  BY <1>1 DEF RouteInv, OnePrepared, PendingGuard
<1>4. Reserved'
  <2>1. \A k \in Moves : dop[k].phase = "Prepared" => head'[Dst[k]] = head[Dst[k]]
    BY <1>2, MoveFacts, MoveAssumption DEF RouteInv, Reserved, Records
  <2> QED BY <1>1, <2>1 DEF RouteInv, Reserved
<1>5. RouteOwn'
  BY <1>1, <1>2, MoveAssumption DEF RouteInv, RouteOwn
<1> QED BY <1>3, <1>4, <1>5

LEMMA PrepareRoutes ==
  ASSUME TypeOK, HomeInv, RouteInv, NEW m \in Moves, NEW now, Prepare(m, now)
  PROVE  OnePrepared' /\ PendingGuard' /\ Reserved' /\ RouteOwn'
<1> DEFINE n == Dst[m]
<1>1. /\ UNCHANGED <<route, guard>> /\ head' = [head EXCEPT ![n] = Base[m]]
      /\ gate' = [gate EXCEPT ![n] = "DormantInbox"]
      /\ dop' = [dop EXCEPT ![m] = [phase |-> "Prepared", offered |-> now, sealed |-> 0]]
      /\ \A k \in Moves : Dst[k] = n => dop[k].phase # "Prepared"
  BY DEF Prepare
<1>2. n \in Nodes /\ n # Src[m] /\ Home(Base[m]) = Src[m]
  BY MoveFacts
<1>3. \A k \in Moves : dop'[k].phase = IF k = m THEN "Prepared" ELSE dop[k].phase
  BY <1>1, StateFacts
<1>4. OnePrepared'
  BY <1>1, <1>3 DEF RouteInv, OnePrepared
<1>5. PendingGuard'
  BY <1>1, <1>3 DEF RouteInv, PendingGuard, Pending
<1>6. Reserved'
  <2> SUFFICES ASSUME NEW k \in Moves, dop'[k].phase = "Prepared" PROVE
        \/ head'[Dst[k]] = Base[k] /\ gate'[Dst[k]] # "open"
        \/ /\ head'[Dst[k]] \in Moves /\ Epoch[head'[Dst[k]]] >= Epoch[k]
           /\ route[Dst[k]].epoch >= Epoch[k] /\ ~route[Dst[k]].released
           /\ guard[Dst[k]] = NoRecord
    BY <1>1 DEF Reserved
  <2>1. CASE k = m
    BY <1>1, <1>2, <2>1, StateFacts
  <2>2. CASE k # m
    <3>1. dop[k].phase = "Prepared" /\ Dst[k] # n
      BY <1>1, <1>3, <2>2
    <3> QED BY <1>1, <3>1, StateFacts, MoveFacts DEF RouteInv, Reserved
  <2> QED BY <2>1, <2>2
<1>7. RouteOwn'
  <2> SUFFICES ASSUME NEW x \in Nodes, route[x].move \in Moves, head'[x] = route[x].move,
                      ~route[x].active
               PROVE  Src[route[x].move] = x
    BY <1>1 DEF RouteInv, RouteOwn
  <2>1. CASE x = n
    <3>1. Base[m] = route[x].move /\ x \in {Src[route[x].move], Dst[route[x].move]}
      BY <1>1, <1>2, <2>1, StateFacts DEF RouteInv, RouteOwn
    <3>2. Dst[route[x].move] = Src[m]
      BY <1>2, <3>1, MoveFacts
    <3> QED BY <1>2, <2>1, <3>1, <3>2
  <2>2. CASE x # n
    BY <1>1, <2>2, StateFacts DEF RouteInv, RouteOwn
  <2> QED BY <2>1, <2>2
<1> QED BY <1>4, <1>5, <1>6, <1>7

LEMMA SealRoutes ==
  ASSUME TypeOK, HomeInv, RouteInv, NEW m \in Moves, NEW now, Seal(m, now)
  PROVE  OnePrepared' /\ PendingGuard' /\ Reserved' /\ RouteOwn'
<1> DEFINE n == Dst[m]
<1>1. /\ UNCHANGED <<head, gate>> /\ dop[m].phase = "Prepared" /\ guard[n] \in {NoRecord, m}
      /\ route' = [route EXCEPT ![n] = [epoch |-> Epoch[m], move |-> m,
                                        active |-> FALSE, released |-> FALSE]]
      /\ guard' = [guard EXCEPT ![n] = m]
      /\ dop' = [dop EXCEPT ![m].phase = "Sealed", ![m].sealed = now]
  BY DEF Seal, NoLiveWindow
<1>2. n \in Nodes /\ n # Src[m]
  BY MoveFacts
<1>3. \A k \in Moves : dop'[k].phase = IF k = m THEN "Sealed" ELSE dop[k].phase
  BY <1>1, StateFacts
<1>4. OnePrepared'
  BY <1>1, <1>3 DEF RouteInv, OnePrepared
<1>5. PendingGuard'
  <2> SUFFICES ASSUME NEW k \in Moves, dop'[k].phase \in Pending
               PROVE  guard'[Dst[k]] = k /\ route'[Dst[k]].move = k /\ ~route'[Dst[k]].active
    BY DEF PendingGuard
  <2>1. CASE k = m
    BY <1>1, <1>2, <2>1, StateFacts
  <2>2. CASE k # m
    <3>1. guard[Dst[k]] = k /\ route[Dst[k]].move = k /\ ~route[Dst[k]].active
      BY <1>3, <2>2 DEF RouteInv, PendingGuard
    <3>2. Dst[k] # n
      BY <1>1, <2>2, <3>1, MoveFacts
    <3> QED BY <1>1, <3>1, <3>2, StateFacts, MoveFacts
  <2> QED BY <2>1, <2>2
<1>6. Reserved'
  <2>1. \A k \in Moves : dop'[k].phase = "Prepared" => dop[k].phase = "Prepared" /\ Dst[k] # n
    BY <1>1, <1>3 DEF RouteInv, OnePrepared
  <2> QED BY <1>1, <2>1, StateFacts, MoveFacts DEF RouteInv, Reserved
<1>7. RouteOwn'
  <2>1. head[n] # m
    <3>1. m \notin Committed /\ m # Genesis /\ m # NoRecord
      BY <1>1, MoveFacts, MoveAssumption DEF RouteInv, Unsealed, Early
    <3> QED BY <1>2, <3>1 DEF HomeInv, OnlySigned, Signed
  <2> QED BY <1>1, <1>2, <2>1, StateFacts DEF RouteInv, RouteOwn
<1> QED BY <1>4, <1>5, <1>6, <1>7

LEMMA ActivateRoutes ==
  ASSUME TypeOK, HomeInv, RouteInv, NEW m \in Moves, NEW now, dop[m].phase \in Pending,
         head[Dst[m]] \in {Base[m], m}, ActivateEffect(m, now)
  PROVE  OnePrepared' /\ PendingGuard' /\ Reserved' /\ RouteOwn'
<1> DEFINE n == Dst[m]
<1>1. /\ head' = [head EXCEPT ![n] = m] /\ gate' = [gate EXCEPT ![n] = "open"]
      /\ route' = [route EXCEPT ![n] = [epoch |-> Epoch[m], move |-> m,
                                        active |-> TRUE, released |-> FALSE]]
      /\ guard' = [guard EXCEPT ![n] = NoRecord] /\ dop' = [dop EXCEPT ![m].phase = "Active"]
  BY DEF ActivateEffect
<1>2. n \in Nodes /\ n # Src[m] /\ Home(m) = n
  BY MoveFacts
<1>3. \A k \in Moves : dop'[k].phase = IF k = m THEN "Active" ELSE dop[k].phase
  BY <1>1, StateFacts
<1>4. guard[n] = m
  BY DEF RouteInv, PendingGuard
<1>5. OnePrepared'
  BY <1>3 DEF RouteInv, OnePrepared
<1>6. PendingGuard'
  <2> SUFFICES ASSUME NEW k \in Moves, dop'[k].phase \in Pending
               PROVE  guard'[Dst[k]] = k /\ route'[Dst[k]].move = k /\ ~route'[Dst[k]].active
    BY DEF PendingGuard
  <2>1. k # m
    BY <1>3 DEF Pending
  <2>2. guard[Dst[k]] = k /\ route[Dst[k]].move = k /\ ~route[Dst[k]].active
    BY <1>3, <2>1 DEF RouteInv, PendingGuard
  <2> QED BY <1>1, <1>4, <2>1, <2>2, StateFacts, MoveFacts
<1>7. Reserved'
  <2> SUFFICES ASSUME NEW k \in Moves, dop'[k].phase = "Prepared" PROVE
        \/ head'[Dst[k]] = Base[k] /\ gate'[Dst[k]] # "open"
        \/ /\ head'[Dst[k]] \in Moves /\ Epoch[head'[Dst[k]]] >= Epoch[k]
           /\ route'[Dst[k]].epoch >= Epoch[k] /\ ~route'[Dst[k]].released
           /\ guard'[Dst[k]] = NoRecord
    BY DEF Reserved
  <2>1. /\ dop[k].phase = "Prepared"
        /\ \/ head[Dst[k]] = Base[k] /\ gate[Dst[k]] # "open"
           \/ /\ head[Dst[k]] \in Moves /\ Epoch[head[Dst[k]]] >= Epoch[k]
              /\ route[Dst[k]].epoch >= Epoch[k] /\ ~route[Dst[k]].released
              /\ guard[Dst[k]] = NoRecord
    BY <1>3 DEF RouteInv, Reserved
  <2>2. CASE Dst[k] # n
    BY <1>1, <2>1, <2>2, StateFacts, MoveFacts
  <2>3. CASE Dst[k] = n
    <3>1. Base[k] \in {Base[m], m}
      BY <1>4, <2>1, <2>3, MoveFacts
    <3>2. Base[k] # m
      BY <1>2, <2>3, MoveFacts
    <3>3. Epoch[m] >= Epoch[k]
      BY <3>1, <3>2, MoveFacts
    <3> QED BY <1>1, <1>2, <2>3, <3>3, StateFacts
  <2> QED BY <2>2, <2>3
<1>8. RouteOwn'
  BY <1>1, <1>2, StateFacts DEF RouteInv, RouteOwn
<1> QED BY <1>5, <1>6, <1>7, <1>8

LEMMA FenceRoutes ==
  ASSUME TypeOK, HomeInv, RouteInv, NEW m \in Moves, NEW now, dop[m].phase \in Pending,
         FenceEffect(m, now)
  PROVE  OnePrepared' /\ PendingGuard' /\ Reserved' /\ RouteOwn'
<1> DEFINE n == Dst[m]
<1>1. /\ UNCHANGED <<head, gate>>
      /\ route' = [route EXCEPT ![n] = [epoch |-> Epoch[m], move |-> m,
                                        active |-> FALSE, released |-> TRUE]]
      /\ guard' = [guard EXCEPT ![n] = NoRecord] /\ dop' = [dop EXCEPT ![m].phase = "Expired"]
  BY DEF FenceEffect
<1>2. n \in Nodes /\ n # Src[m]
  BY MoveFacts
<1>3. \A k \in Moves : dop'[k].phase = IF k = m THEN "Expired" ELSE dop[k].phase
  BY <1>1, StateFacts
<1>4. guard[n] = m /\ route[n].move = m /\ ~route[n].active
  BY DEF RouteInv, PendingGuard
<1>5. OnePrepared'
  BY <1>3 DEF RouteInv, OnePrepared
<1>6. PendingGuard'
  <2> SUFFICES ASSUME NEW k \in Moves, dop'[k].phase \in Pending
               PROVE  guard'[Dst[k]] = k /\ route'[Dst[k]].move = k /\ ~route'[Dst[k]].active
    BY DEF PendingGuard
  <2>1. k # m
    BY <1>3 DEF Pending
  <2>2. guard[Dst[k]] = k /\ route[Dst[k]].move = k /\ ~route[Dst[k]].active
    BY <1>3, <2>1 DEF RouteInv, PendingGuard
  <2> QED BY <1>1, <1>4, <2>1, <2>2, StateFacts, MoveFacts
<1>7. Reserved'
  <2> SUFFICES ASSUME NEW k \in Moves, dop'[k].phase = "Prepared" PROVE
        \/ head[Dst[k]] = Base[k] /\ gate[Dst[k]] # "open"
        \/ /\ head[Dst[k]] \in Moves /\ Epoch[head[Dst[k]]] >= Epoch[k]
           /\ route'[Dst[k]].epoch >= Epoch[k] /\ ~route'[Dst[k]].released
           /\ guard'[Dst[k]] = NoRecord
    BY <1>1 DEF Reserved
  <2>1. dop[k].phase = "Prepared"
    BY <1>3
  <2>2. CASE Dst[k] # n
    BY <1>1, <2>1, <2>2, StateFacts, MoveFacts DEF RouteInv, Reserved
  <2>3. CASE Dst[k] = n
    BY <1>4, <2>1, <2>3, MoveFacts DEF RouteInv, Reserved
  <2> QED BY <2>2, <2>3
<1>8. RouteOwn'
  <2>1. head[n] # m
    BY <1>2, <1>4 DEF RouteInv, RouteOwn
  <2> QED BY <1>1, <1>2, <2>1, StateFacts DEF RouteInv, RouteOwn
<1> QED BY <1>5, <1>6, <1>7, <1>8

LEMMA RouteKept ==
  ASSUME TypeOK, HomeInv, RouteInv, Effects
  PROVE  RouteInv'
<1>1. CASE UNCHANGED homes /\ PhasesKept
  <2>1. \A k \in Moves : /\ dop'[k].phase \in Pending => dop[k].phase \in Pending
                         /\ dop'[k].phase = "Prepared" => dop[k].phase = "Prepared"
    BY <1>1 DEF PhasesKept, Pending, Ends
  <2> QED BY <1>1, <2>1, UnsealedKept DEF RouteInv, OnePrepared, PendingGuard, Reserved, RouteOwn,
            homes
<1>2. CASE CommitStep
  BY <1>2, CommitRoutes, UnsealedKept DEF RouteInv
<1>3. ASSUME NEW m \in Moves, NEW now, Attest(m, now) \/ Prepare(m, now) \/ Seal(m, now)
      PROVE  RouteInv'
  BY <1>3, AttestRoutes, PrepareRoutes, SealRoutes, UnsealedKept DEF RouteInv
<1>4. ASSUME NEW m \in Moves, NEW now, dop[m].phase \in Pending,
             (head[Dst[m]] \in {Base[m], m} /\ ActivateEffect(m, now)) \/ FenceEffect(m, now)
      PROVE  RouteInv'
  BY <1>4, ActivateRoutes, FenceRoutes, UnsealedKept DEF RouteInv
<1> QED BY <1>1, <1>2, <1>3, <1>4 DEF Effects, Quiet, RouteStep

-----------------------------------------------------------------------------
(* Mail: obligations.                                                      *)

LEMMA SignedClosed ==
  ASSUME HomeInv
  PROVE  Closed(Signed)
BY MoveAssumption DEF HomeInv, Chain, Closed, Signed, Committed, Records

\* A node that is to be the next home does not serve the account.
LEMMA PrepareIdle ==
  ASSUME TypeOK, HomeInv, NEW m \in Moves, NEW now, Prepare(m, now)
  PROVE  ~Serves(Dst[m])
<1> SUFFICES ASSUME Serves(Dst[m]) PROVE FALSE
  OBVIOUS
<1> DEFINE n == Dst[m]
<1>1. n \in Nodes /\ Base[m] \in Records /\ Home(Base[m]) # n
  BY MoveFacts
<1>2. head[n] # NoRecord /\ head[n] \in Lineage[Base[m]]
  BY DEF Prepare, Serves
<1>3. Home(head[n]) = n /\ \A k \in Committed : Base[k] # head[n]
  BY <1>1, <1>2 DEF Serves, HomeInv, OpenIsNewest, Held
<1>4. PICK k \in Moves : k \in Lineage[Base[m]] /\ Base[k] = head[n]
  BY <1>1, <1>2, <1>3, LineageSuccessor
<1>5. Base[m] \in Signed
  BY DEF Prepare, HomeInv, OnlySigned
<1>6. k \in Committed
  BY <1>1, <1>4, <1>5, SignedClosed, LineageLeast, MoveAssumption DEF Signed
<1> QED BY <1>3, <1>4, <1>6

\* Only a commit stops a node that serves the account.
LEMMA ServesOn ==
  ASSUME TypeOK, HomeInv, RouteInv, RouteStep, NEW n \in Nodes, Serves(n)
  PROVE  Serves(n)'
<1>1. CASE UNCHANGED homes
  BY <1>1 DEF Serves, homes
<1>2. ASSUME NEW m \in Moves, NEW now, Attest(m, now) PROVE Serves(n)'
  BY <1>2, MoveFacts, StateFacts DEF Attest, Serves
<1>3. ASSUME NEW m \in Moves, NEW now, Prepare(m, now) PROVE Serves(n)'
  <2>1. n # Dst[m]
    BY <1>3, PrepareIdle
  <2> QED BY <1>3, <2>1, StateFacts DEF Prepare, Serves
<1>4. ASSUME NEW m \in Moves, NEW now, Seal(m, now) PROVE Serves(n)'
  <2>1. gate[Dst[m]] # "open"
    <3>1. Epoch[m] \in Nat /\ route[Dst[m]].epoch \in Nat
      BY MoveFacts, StateFacts DEF Routes
    <3> QED BY <1>4, <3>1 DEF Seal, RouteInv, Reserved
  <2> QED BY <1>4, <2>1, StateFacts DEF Seal, Serves
<1>5. ASSUME NEW m \in Moves, NEW now, ActivateEffect(m, now) PROVE Serves(n)'
  BY <1>5, MoveFacts, StateFacts DEF ActivateEffect, Serves
<1>6. ASSUME NEW m \in Moves, NEW now, dop[m].phase \in Pending, FenceEffect(m, now)
      PROVE  Serves(n)'
  <2>1. n # Dst[m]
    BY <1>6 DEF RouteInv, PendingGuard, Serves
  <2> QED BY <1>6, <2>1, StateFacts DEF FenceEffect, Serves
<1> QED BY <1>1, <1>2, <1>3, <1>4, <1>5, <1>6 DEF RouteStep

LEMMA MailFacts ==
  ASSUME TypeOK
  PROVE  /\ drain \in [Moves -> [Envelopes -> {"none", "Pending", "Held", "Rejected"}]]
         /\ box \in [Nodes -> SUBSET Envelopes] /\ taken \in [Nodes -> SUBSET Envelopes]
         /\ acked \in [Nodes -> SUBSET Envelopes] /\ time \in Nat
         /\ drainer \in [Nodes -> Drains] /\ RetainUntil \in [Envelopes -> Nat]
BY TimeAssumption DEF TypeOK, MailTypes, ClockTypes

\* What had not expired before a step has not expired since.
LEMMA Unexpired ==
  ASSUME TypeOK, TypeOK', Effects, NEW e \in Envelopes, time' < RetainUntil[e]
  PROVE  time < RetainUntil[e]
<1>1. time \in Nat /\ time' \in Nat /\ RetainUntil[e] \in Nat
  BY TimeAssumption DEF TypeOK, ClockTypes
<1> QED BY <1>1 DEF Effects

LEMMA ObligedKept ==
  ASSUME TypeOK, TypeOK', HomeInv, RouteInv, Obliged, Effects
  PROVE  Obliged'
<1> SUFFICES ASSUME NEW n \in Nodes, NEW e \in box'[n], time' < RetainUntil[e]
             PROVE  Serves(n)' \/ \E m \in Moves : Src[m] = n /\ e \in Rows(m)'
  BY DEF Obliged
<1>1. e \in Envelopes /\ time < RetainUntil[e]
  BY Unexpired DEF TypeOK, MailTypes
<1>2. e \in box[n] => Serves(n) \/ \E m \in Moves : Src[m] = n /\ e \in Rows(m)
  BY <1>1 DEF Obliged
<1>3. CASE CommitStep
  <2>1. PICK m \in Moves : \E t \in Now(Src[m]) : FirstCommit(m, t)
    BY <1>3 DEF CommitStep
  <2>2. PICK now \in Now(Src[m]) : FirstCommit(m, now)
    BY <2>1
  <2>3. e \in box[n] /\ Src[m] \in Nodes
    BY <2>2, MoveFacts DEF FirstCommit
  <2>4. CASE n = Src[m]
    <3>1. now \in Nat /\ now <= time
      BY <2>3, ClockRead, TimeAssumption DEF TypeOK
    <3>2. e \in Backlog(n, now)
      BY <1>1, <2>3, <3>1, MailFacts DEF Backlog
    <3>3. drain'[m][e] = "Pending"
      BY <1>1, <2>2, <2>4, <3>2, MailFacts DEF FirstCommit
    <3> QED BY <1>1, <2>4, <3>3 DEF Rows
  <2>5. CASE n # Src[m]
    <3>1. Serves(n) => Serves(n)'
      BY <2>2, <2>5, StateFacts DEF FirstCommit, Serves
    <3>2. \A k \in Moves : Src[k] = n => Rows(k)' = Rows(k)
      BY <2>2, <2>5, MailFacts DEF FirstCommit, Rows
    <3> QED BY <1>2, <2>3, <3>1, <3>2
  <2> QED BY <2>4, <2>5
<1>4. CASE Quiet
  <2>1. Serves(n) => Serves(n)'
    BY <1>4, ServesOn DEF Quiet
  <2>2. CASE UNCHANGED box /\ \A m \in Moves : Rows(m)' = Rows(m)
    BY <1>2, <2>1, <2>2
  <2>3. ASSUME NEW x \in Nodes, NEW f \in Envelopes, Settled(x, {f})
        PROVE  Serves(n)' \/ \E m \in Moves : Src[m] = n /\ e \in Rows(m)'
    <3>1. e \in box[n] /\ (x = n => e # f)
      BY <2>3, MailFacts DEF Settled
    <3>2. \A m \in Moves : Src[m] = n => drain'[m][e] = drain[m][e]
      BY <1>1, <2>3, <3>1, MailFacts DEF Settled
    <3> QED BY <1>1, <1>2, <2>1, <3>1, <3>2 DEF Rows
  <2>4. ASSUME NEW x \in Nodes, NEW f \in Envelopes, Accept(x, f), Serves(x)', UNCHANGED drain
        PROVE  Serves(n)' \/ \E m \in Moves : Src[m] = n /\ e \in Rows(m)'
    <3>1. n = x \/ e \in box[n]
      BY <2>4, MailFacts DEF Accept
    <3> QED BY <1>2, <2>1, <2>4, <3>1 DEF Rows
  <2> QED BY <1>4, <2>2, <2>3, <2>4 DEF Quiet, MailStep
<1> QED BY <1>3, <1>4 DEF Effects

-----------------------------------------------------------------------------
(* Mail: custody, for an account that never returns.                       *)

\* The home that serves has no signed move away from it.
LEMMA ServesLast ==
  ASSUME NoReturn, HomeInv, NEW n \in Nodes, Serves(n)
  PROVE  /\ \E r \in Signed : Home(r) = n
         /\ \A p \in Committed : Src[p] # n
<1>1. PICK tip \in Signed : Signed \subseteq Lineage[tip]
  BY DEF HomeInv, Chain
<1>2. tip \in Records
  BY <1>1 DEF Signed, Committed, Records
<1>3. Home(Held(n)) = n /\ \A m \in Committed : Base[m] # Held(n)
  BY DEF Serves, HomeInv, OpenIsNewest
<1>4. Held(n) \in Signed
  BY DEF Held, HomeInv, OnlySigned, Signed
<1>5. ASSUME NEW p \in Committed, Src[p] = n PROVE FALSE
  <2>1. Base[p] \in Signed /\ Home(Base[p]) = n
    BY <1>5, MoveAssumption DEF HomeInv, Chain, Committed
  <2>2. Base[p] = Held(n)
    BY <1>1, <1>2, <1>3, <1>4, <2>1 DEF NoReturn
  <2> QED BY <1>3, <2>2
<1> QED BY <1>3, <1>4, <1>5

LEMMA ServesLastNext ==
  ASSUME NEW n \in Nodes
  PROVE  (NoReturn /\ HomeInv /\ Serves(n) => \A p \in Committed : Src[p] # n)'
<1>1. NoReturn /\ HomeInv /\ Serves(n) => \A p \in Committed : Src[p] # n
  BY ServesLast
<1> QED BY <1>1, PTL

\* A move goes to a node that was no home before.
LEMMA FreshHome ==
  ASSUME NoReturn, TypeOK, HomeInv, NEW m \in Moves, m \notin Committed, head[Src[m]] = Base[m],
         NEW r \in Signed
  PROVE  Home(r) # Dst[m]
<1>1. m \in Records /\ Home(m) = Dst[m] /\ m # Genesis
  BY MoveFacts, MoveAssumption
<1>2. Signed \subseteq Lineage[Base[m]]
  BY CommitExtendsTip
<1>3. Lineage[Base[m]] \subseteq Lineage[m] /\ m \in Lineage[m]
  BY <1>1, LineageBase, LineageTransitive, LineageLeast
<1>4. r # m
  BY <1>1 DEF Signed
<1> QED BY <1>1, <1>2, <1>3, <1>4 DEF NoReturn

LEMMA TakenGrows ==
  ASSUME TypeOK, Effects
  PROVE  /\ \A n \in Nodes : taken[n] \subseteq taken'[n]
         /\ Committed \subseteq Committed' /\ Signed \subseteq Signed'
<1>1. UNCHANGED taken \/ \E n \in Nodes, e \in Envelopes : Accept(n, e)
  BY DEF Effects, Quiet, MailStep, CommitStep, FirstCommit
<1>2. \A n \in Nodes : taken[n] \subseteq taken'[n]
  BY <1>1, MailFacts DEF Accept
<1>3. Committed \subseteq Committed'
  <2>1. CASE CommitStep
    <3>1. PICK m \in Moves : \E now \in Now(Src[m]) : committedAt[m] = Never /\ FirstCommit(m, now)
      BY <2>1 DEF CommitStep
    <3> QED BY <3>1, StateFacts DEF FirstCommit, Committed
  <2>2. CASE Quiet
    BY <2>2 DEF Quiet, Committed
  <2> QED BY <2>1, <2>2 DEF Effects
<1> QED BY <1>2, <1>3 DEF Signed

LEMMA TakenHomeKept ==
  ASSUME NoReturn, TypeOK, HomeInv', CustodyInv, Effects
  PROVE  TakenHome'
<1> SUFFICES ASSUME NEW n \in Nodes, NEW e \in Envelopes, e \in taken'[n]
             PROVE  \E r \in Signed' : Home(r) = n
  BY DEF TakenHome
<1>1. CASE e \in taken[n]
  BY <1>1, TakenGrows DEF CustodyInv, TakenHome
<1>2. CASE e \notin taken[n]
  <2>1. PICK x \in Nodes, f \in Envelopes : Accept(x, f) /\ Serves(x)'
    BY <1>2 DEF Effects, Quiet, MailStep, CommitStep, FirstCommit
  <2>2. x = n
    BY <1>2, <2>1, MailFacts DEF Accept
  <2>3. /\ Home(Held(n))' = n /\ Held(n)' \in Signed'
    BY <2>1, <2>2 DEF Serves, HomeInv, OpenIsNewest, OnlySigned, Held, Signed
  <2> QED BY <2>3 DEF Home
<1> QED BY <1>1, <1>2

LEMMA ForwardsTakenKept ==
  ASSUME TypeOK, TypeOK', HomeInv, RouteInv, CustodyInv, Effects
  PROVE  ForwardsTaken'
<1> SUFFICES ASSUME NEW n \in Nodes
             PROVE  /\ drainer'[n][1] = "sending" => Src[drainer'[n][4]] = n
                    /\ Acknowledged(n)' => \E p \in Committed' :
                                             Src[p] = n /\ drainer'[n][3] \in taken'[Dst[p]]
  BY DEF ForwardsTaken
<1>1. drainer'[n][1] = "sending" => Src[drainer'[n][4]] = n
  BY DEF Effects, DrainerStep, CustodyInv, ForwardsTaken, RouteInv, RouteOwn
<1>2. ASSUME Acknowledged(n)'
      PROVE  \E p \in Committed' : Src[p] = n /\ drainer'[n][3] \in taken'[Dst[p]]
  <2>1. CASE drainer'[n] = drainer[n]
    <3>1. PICK p \in Committed : Src[p] = n /\ drainer[n][3] \in taken[Dst[p]]
      BY <1>2, <2>1 DEF Acknowledged, CustodyInv, ForwardsTaken
    <3>2. Dst[p] \in Nodes
      BY MoveFacts DEF Committed
    <3> QED BY <2>1, <3>1, <3>2, TakenGrows
  <2>2. CASE drainer[n][1] = "sending" /\ drainer'[n][3] \in taken'[Dst[drainer[n][4]]]
    BY <2>2, TakenGrows DEF CustodyInv, ForwardsTaken, HomeInv, OnlySigned
  <2> QED BY <1>2, <2>1, <2>2 DEF Effects, DrainerStep
<1> QED BY <1>1, <1>2

LEMMA CustodyKept ==
  ASSUME NoReturn, TypeOK, TypeOK', HomeInv, HomeInv', CustodyInv, Effects
  PROVE  Custody'
<1> SUFFICES ASSUME NEW e \in Envelopes, time' < RetainUntil[e], NEW s \in Nodes, e \in taken'[s]
             PROVE  \E n \in Nodes : e \in acked'[n] \/ (e \in box'[n] /\ Last(n, e)')
  BY DEF Custody
<1>1. time < RetainUntil[e]
  BY Unexpired
<1>2. (\E n \in Nodes : e \in taken[n]) =>
        \E n \in Nodes : e \in acked[n] \/ (e \in box[n] /\ Last(n, e))
  BY <1>1 DEF CustodyInv, Custody
<1>3. CASE CommitStep
  <2>1. PICK m \in Moves : \E t \in Now(Src[m]) : committedAt[m] = Never /\ FirstCommit(m, t)
    BY <1>3 DEF CommitStep
  <2>2. UNCHANGED <<box, taken, acked>> /\ m \notin Committed /\ head[Src[m]] = Base[m]
    BY <2>1 DEF FirstCommit, MayCommit, Committed
  <2>3. Committed' \subseteq Committed \cup {m}
    BY <2>1, StateFacts DEF FirstCommit, Committed
  <2>4. e \notin taken[Dst[m]]
    <3>1. Dst[m] \in Nodes
      BY MoveFacts
    <3> QED BY <2>2, <3>1, FreshHome DEF CustodyInv, TakenHome
  <2>5. PICK n \in Nodes : e \in acked[n] \/ (e \in box[n] /\ Last(n, e))
    BY <1>2, <2>2
  <2> QED BY <2>2, <2>3, <2>4, <2>5 DEF Last
<1>4. CASE Quiet
  <2>1. UNCHANGED Committed
    BY <1>4 DEF Quiet, Committed
  <2>2. ASSUME UNCHANGED taken
        PROVE  \E n \in Nodes : e \in acked[n] \/ (e \in box[n] /\ Last(n, e)')
    BY <1>2, <2>1, <2>2 DEF Last
  <2>3. CASE UNCHANGED <<box, taken, acked>>
    BY <2>2, <2>3
  <2>4. ASSUME NEW x \in Nodes, NEW f \in Envelopes, Settled(x, {f}), UNCHANGED taken,
               \/ (time >= RetainUntil[f] \/ (Acknowledged(x) /\ drainer[x][3] = f))
                    /\ UNCHANGED acked
               \/ acked' = [acked EXCEPT ![x] = @ \cup {f}]
        PROVE  \E n \in Nodes : e \in acked'[n] \/ (e \in box'[n] /\ Last(n, e)')
    <3>1. PICK n \in Nodes : e \in acked[n] \/ (e \in box[n] /\ Last(n, e)')
      BY <2>2, <2>4
    <3>2. \A k \in Nodes : acked[k] \subseteq acked'[k]
      BY <2>4, MailFacts
    <3>3. CASE n # x \/ e # f
      <4>1. e \in box[n] => e \in box'[n]
        BY <2>4, <3>3, MailFacts DEF Settled
      <4> QED BY <3>1, <3>2, <4>1
    <3>4. CASE n = x /\ e = f
      <4>1. CASE acked' = [acked EXCEPT ![x] = @ \cup {f}]
        BY <3>4, <4>1, MailFacts
      <4>2. CASE Acknowledged(x) /\ drainer[x][3] = f /\ UNCHANGED acked
        <5>1. ~Last(n, e)'
          BY <2>1, <2>4, <3>4, <4>2 DEF Last, CustodyInv, ForwardsTaken
        <5> QED BY <3>1, <3>2, <5>1
      <4>3. ~(time >= RetainUntil[f])
        BY <1>1, <3>4, MailFacts
      <4> QED BY <2>4, <4>1, <4>2, <4>3
    <3> QED BY <3>3, <3>4
  <2>5. ASSUME NEW x \in Nodes, NEW f \in Envelopes, Accept(x, f), Serves(x)', UNCHANGED acked
        PROVE  \E n \in Nodes : e \in acked'[n] \/ (e \in box'[n] /\ Last(n, e)')
    <3>1. CASE f = e /\ e \notin taken[x]
      <4>1. e \in box'[x]
        BY <2>5, <3>1, MailFacts DEF Accept
      <4>2. \A p \in Committed' : Src[p] # x
        BY <2>5, ServesLastNext DEF NoReturn
      <4> QED BY <4>1, <4>2 DEF Last
    <3>2. CASE f # e \/ e \in taken[x]
      <4>1. \A n \in Nodes : /\ e \in taken'[n] => e \in taken[n]
                             /\ e \in box[n] => e \in box'[n]
        BY <2>5, <3>2, MailFacts DEF Accept
      <4>2. PICK n \in Nodes : e \in acked[n] \/ (e \in box[n] /\ Last(n, e))
        BY <1>2, <4>1
      <4>3. Last(n, e) => Last(n, e)'
        BY <2>1, <4>1, MoveFacts DEF Last, Committed
      <4> QED BY <2>5, <4>1, <4>2, <4>3
    <3> QED BY <3>1, <3>2
  <2> QED BY <1>4, <2>3, <2>4, <2>5 DEF Quiet, MailStep
<1> QED BY <1>3, <1>4 DEF Effects

LEMMA InitMail == Init => RouteInv /\ Obliged /\ CustodyInv
<1> SUFFICES ASSUME Init PROVE RouteInv /\ Obliged /\ CustodyInv
  OBVIOUS
<1>1. RouteInv
  BY MoveAssumption DEF Init, RouteInv, Unsealed, OnePrepared, PendingGuard, Reserved, RouteOwn, Early,
       Pending, Committed, NoRoute, Records
<1>2. Obliged
  BY DEF Init, Obliged
<1>3. CustodyInv
  BY DEF Init, CustodyInv, TakenHome, ForwardsTaken, Acknowledged, Custody, IdleDrain
<1> QED BY <1>1, <1>2, <1>3

-----------------------------------------------------------------------------
(* The theorems about mail.                                                *)

LEMMA RoutesHold == Spec => [](RouteInv /\ Obliged)
<1>1. TypeOK /\ HomeInv /\ TypeOK' /\ RouteInv /\ Obliged /\ [Next]_vars
        => RouteInv' /\ Obliged'
  <2> SUFFICES ASSUME TypeOK, HomeInv, TypeOK', RouteInv, Obliged, [Next]_vars
               PROVE  RouteInv' /\ Obliged'
    OBVIOUS
  <2>1. Effects
    BY NextEffects
  <2> QED BY <2>1, RouteKept, ObligedKept
<1> QED BY <1>1, InvariantHolds, InitMail, PTL DEF Spec

\* What an inbox holds is never forgotten by a move: an unexpired envelope lies at the
\* node that serves the account, or the drain of its node still owes it; for any
\* tree of moves, round trips, crashes and lost answers included.
THEOREM InboxesOwed == Spec => []Obliged
BY RoutesHold, PTL

\* When the account never returns to a node, no accepted envelope is stranded: until
\* its retention ends a receiver has acknowledged it, or it lies where it is served
\* or owed, however its copies were submitted, forwarded, repeated and settled.
THEOREM MailKept == ASSUME NoReturn PROVE Spec => []NothingStranded
<1>1. TypeOK /\ HomeInv /\ TypeOK' /\ HomeInv' /\ RouteInv /\ CustodyInv /\ [Next]_vars
        => CustodyInv'
  <2> SUFFICES ASSUME TypeOK, HomeInv, TypeOK', HomeInv', RouteInv, CustodyInv, [Next]_vars
               PROVE  CustodyInv'
    OBVIOUS
  <2>1. Effects
    BY NextEffects
  <2> QED BY <2>1, TakenHomeKept, ForwardsTakenKept, CustodyKept DEF CustodyInv
<1>2. TypeOK /\ Obliged /\ CustodyInv => NothingStranded
  <2> SUFFICES ASSUME TypeOK, Obliged, CustodyInv, NEW e \in Envelopes, time < RetainUntil[e],
                      \E n \in Nodes : e \in taken[n]
               PROVE  \E n \in Nodes :
                        \/ e \in acked[n]
                        \/ e \in box[n] /\ (Serves(n) \/ \E m \in Moves : Src[m] = n /\ e \in Rows(m))
    BY DEF NothingStranded
  <2> QED BY DEF Obliged, CustodyInv, Custody
<1> QED BY <1>1, <1>2, InvariantHolds, RoutesHold, InitMail, PTL DEF Spec
=============================================================================
