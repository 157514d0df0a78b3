----------------------- MODULE SubmissionBarrierProofs -----------------------
(***************************************************************************)
(* Theorems about SubmissionBarrier, for every set of operations, every    *)
(* assignment of keys to them and any number of gates and restarts.        *)
(***************************************************************************)
EXTENDS SubmissionBarrier, FiniteSetTheorems, WellFoundedInduction, TLAPS

-----------------------------------------------------------------------------
(* The inductive invariant.                                                *)

Before(th) == {Path[th][i] : i \in 1..(at[th] - 1)}
UpTo(th)   == {Path[th][i] : i \in 1..at[th]}

Shut == {"admitted", "capture", "commit", "cache"}

\* What a thread holds, from where it is.
StageOf(th) ==
    /\ pc[th] = "idle" => acquired[th] = {}
    /\ pc[th] \in {"permit", "lookup", "enter", "wait"} => acquired[th] = Before(th)
    /\ pc[th] \in Shut \cup {"check", "settle", "settled"} => acquired[th] = UpTo(th)
    /\ pc[th] \in Shut => at[th] = Len(Path[th])
    /\ pc[th] \in {"enter", "wait", "unmap", "free"} => lease[th][Key(th)] # NoGate
    /\ pc[th] = "drop" => Leases(th) # {}
    /\ pc[th] \in {"unmap", "free"} => Key(th) \notin acquired[th]
    /\ pc[th] \in {"permit", "check", "admitted"} => Kind[th] = "submit"
    /\ pc[th] \in {"settle", "settled"} => Kind[th] = "ack"
    /\ pc[th] \in {"wait", "capture", "commit", "cache"} => Kind[th] = "cutover"
Staged == \A th \in Threads : StageOf(th)

\* A lease is of a key of its thread's path.  It refers to the gate in the map,
\* unless its thread is about to drop that reference.
Referenced ==
    \A th \in Threads, k \in Keys :
        /\ k \in acquired[th] => lease[th][k] # NoGate
        /\ lease[th][k] # NoGate =>
              /\ k \in KeysOf(th)
              /\ lease[th][k] = mapped[k] \/ (pc[th] = "free" /\ Key(th) = k)

Readers(k) == {th \in Threads : Kind[th] # "cutover" /\ k \in acquired[th]}
Waiters(k) == {th \in Threads : pc[th] = "wait" /\ Key(th) = k}

\* The gate in the map counts the threads that hold its key or wait for it.
Counted ==
    \A k \in Keys : mapped[k] # NoGate =>
        /\ gate[k][mapped[k]].readers = Cardinality(Readers(k))
        /\ gate[k][mapped[k]].waiting = Cardinality(Waiters(k))
        /\ gate[k][mapped[k]].writer <=>
              \E th \in Threads : Kind[th] = "cutover" /\ k \in acquired[th]

\* A thread that settles its mailbox still holds it, and the gate says so.
Settling ==
    \A th \in settling :
        /\ Kind[th] = "ack" /\ pc[th] \in {"settled", "drop"}
        /\ Path[th][1] \in acquired[th]
        /\ gate[Path[th][1]][mapped[Path[th][1]]].held

GateInv == TypeOK /\ Staged /\ Referenced /\ Counted /\ CutoverExcludes
             /\ Settling /\ SettlementExclusive

-----------------------------------------------------------------------------
(* Paths, keys and counts.                                                 *)

LEMMA PathFacts ==
    ASSUME NEW th \in Threads
    PROVE  /\ Path[th] \in Seq(Keys) /\ Len(Path[th]) \in Nat /\ Len(Path[th]) >= 1
           /\ DOMAIN Path[th] = 1..Len(Path[th])
           /\ \A i \in DOMAIN Path[th] : Path[th][i] \in Keys
           /\ \A i, j \in DOMAIN Path[th] : Path[th][i] = Path[th][j] => i = j
           /\ Kind[th] = "ack" => Len(Path[th]) = 1
           /\ Kind[th] \in {"submit", "ack", "cutover"}
           /\ KeysOf(th) \subseteq Keys
BY PathAssumption, KindAssumption DEF Keys, KeysOf

LEMMA KeyFacts ==
    ASSUME TypeOK, NEW th \in Threads
    PROVE  /\ at[th] \in DOMAIN Path[th] /\ at[th] \in 1..Len(Path[th])
           /\ Key(th) \in Keys /\ Key(th) \in KeysOf(th)
           /\ Before(th) \subseteq KeysOf(th) /\ Key(th) \notin Before(th)
           /\ UpTo(th) = Before(th) \cup {Key(th)} /\ UpTo(th) \subseteq KeysOf(th)
           /\ at[th] = Len(Path[th]) => UpTo(th) = KeysOf(th)
<1>1. at[th] \in DOMAIN Path[th] /\ at[th] \in 1..Len(Path[th])
  BY PathFacts DEF TypeOK
<1>2. Key(th) \in Keys /\ Key(th) \in KeysOf(th)
  BY <1>1, PathFacts DEF Key, KeysOf
<1>3. Before(th) \subseteq KeysOf(th) /\ Key(th) \notin Before(th)
  BY <1>1, PathFacts DEF Key, KeysOf, Before
<1>4. UpTo(th) = Before(th) \cup {Key(th)}
  BY <1>1, PathFacts DEF Key, UpTo, Before
<1>5. at[th] = Len(Path[th]) => UpTo(th) = KeysOf(th)
  BY <1>1, PathFacts DEF UpTo, KeysOf
<1> QED BY <1>1, <1>2, <1>3, <1>4, <1>5

LEMMA LeastIndex ==
    ASSUME NEW th \in Threads, NEW S \in SUBSET DOMAIN Path[th], S # {}
    PROVE  (CHOOSE i \in S : \A j \in S : i <= j) \in S
<1> DEFINE Less == {ss \in Nat \X Nat : ss[1] < ss[2]}
<1>1. IsWellFoundedOn(Less, Nat)
  BY NatLessThanWellFounded, Zenon DEF OpToRel
<1>2. S \in SUBSET Nat
  BY PathFacts
<1>3. \A i, j \in Nat : <<j, i>> \in Less <=> j < i
  OBVIOUS
<1> HIDE DEF Less
<1>4. PICK i \in S : \A j \in S : ~ (<<j, i>> \in Less)
  BY <1>1, <1>2, WFMin
<1>5. \A j \in S : i \in Nat /\ j \in Nat
  BY <1>2
<1>6. \A j \in S : ~ (j < i)
  BY <1>3, <1>4, <1>5
<1>7. \A j \in S : i <= j
  BY <1>5, <1>6
<1> QED BY <1>7

LEMMA FiniteThreads ==
    ASSUME NEW S \in SUBSET Threads
    PROVE  /\ IsFiniteSet(S) /\ Cardinality(S) \in Nat /\ (Cardinality(S) = 0 <=> S = {})
           /\ \A x \in Threads : x \notin S => Cardinality(S \cup {x}) = Cardinality(S) + 1
           /\ \A x \in S : Cardinality(S \ {x}) = Cardinality(S) - 1 /\ Cardinality(S) >= 1
<1>1. IsFiniteSet(S)
  BY ThreadAssumption, FS_Subset
<1>2. Cardinality(S) \in Nat /\ (Cardinality(S) = 0 <=> S = {})
  BY <1>1, FS_CardinalityType, FS_EmptySet
<1>3. \A x \in Threads : x \notin S => Cardinality(S \cup {x}) = Cardinality(S) + 1
  BY <1>1, FS_AddElement
<1>4. \A x \in S : Cardinality(S \ {x}) = Cardinality(S) - 1
  BY <1>1, FS_RemoveElement
<1> QED BY <1>1, <1>2, <1>3, <1>4

-----------------------------------------------------------------------------
(* Steps that leave the gates alone.                                       *)

\* The other threads stand where they stood.
OthersStand(th) ==
    \A q \in Threads : q # th => /\ pc'[q] = pc[q] /\ at'[q] = at[q]
                                 /\ acquired'[q] = acquired[q] /\ lease'[q] = lease[q]

LEMMA StagedByOne ==
    ASSUME Staged, NEW th \in Threads, OthersStand(th), StageOf(th)'
    PROVE  Staged'
<1> SUFFICES ASSUME NEW q \in Threads, q # th PROVE StageOf(q)'
  BY DEF Staged
<1>1. StageOf(q)
  BY DEF Staged
<1>2. /\ pc'[q] = pc[q] /\ at'[q] = at[q] /\ acquired'[q] = acquired[q] /\ lease'[q] = lease[q]
  BY DEF OthersStand
<1>3. Before(q)' = Before(q) /\ UpTo(q)' = UpTo(q) /\ Key(q)' = Key(q) /\ Leases(q)' = Leases(q)
  BY <1>2 DEF Before, UpTo, Key, Leases
<1> QED BY <1>1, <1>2, <1>3 DEF StageOf

\* A thread goes on without touching a gate.
GoesOn(th, where) ==
    /\ pc' = [pc EXCEPT ![th] = where]
    /\ at' = at \/ \E i : at' = [at EXCEPT ![th] = i]
    /\ UNCHANGED <<gates, settling>>
    /\ {pc[th], where} \cap {"wait", "free"} = {}
    /\ th \in settling => where \in {"settled", "drop"}

LEMMA GoesOnKeeps ==
    ASSUME GateInv, NEW th \in Threads, NEW where, GoesOn(th, where), TypeOK', StageOf(th)'
    PROVE  GateInv'
<1> USE DEF GateInv
<1>0. pc \in [Threads -> Stages] /\ at \in [Threads -> Nat]
  BY DEF TypeOK
<1>1. UNCHANGED <<mapped, gate, lease, acquired, settling>>
  BY DEF GoesOn, gates
<1>2. \A q \in Threads : q # th => pc'[q] = pc[q] /\ at'[q] = at[q] /\ Key(q)' = Key(q)
  BY <1>0 DEF GoesOn, Key
<1>3. pc'[th] = where /\ where \notin {"wait", "free"} /\ pc[th] \notin {"wait", "free"}
  BY <1>0 DEF GoesOn
<1>4. Staged'
  BY <1>1, <1>2, StagedByOne DEF OthersStand
<1>5. Referenced'
  BY <1>1, <1>2, <1>3 DEF Referenced
<1>6. \A k \in Keys : Waiters(k)' = Waiters(k) /\ Readers(k)' = Readers(k)
  BY <1>1, <1>2, <1>3 DEF Waiters, Readers
<1>7. Counted'
  BY <1>1, <1>6 DEF Counted
<1>8. CutoverExcludes' /\ SettlementExclusive'
  BY <1>1 DEF CutoverExcludes, SettlementExclusive
<1>9. settling \subseteq Threads
  BY DEF TypeOK
<1>10. Settling'
  BY <1>1, <1>2, <1>3, <1>9 DEF Settling, GoesOn
<1> QED BY <1>4, <1>5, <1>7, <1>8, <1>10

\* Until its release a settling thread only goes to "settled" and "drop".
LEMMA NotSettling ==
    ASSUME GateInv, NEW th \in Threads, pc[th] \notin {"settled", "drop"}
    PROVE  th \notin settling
BY DEF GateInv, Settling

LEMMA BeginKeeps ==
    ASSUME GateInv, NEW th \in Threads, Begin(th)
    PROVE  GateInv'
<1> DEFINE where == IF Kind[th] = "submit" /\ Path[th][1] \in Mailboxes THEN "permit" ELSE "lookup"
<1>1. TypeOK'
  BY PathFacts DEF GateInv, TypeOK, Begin, Goto, gates, storage, Stages
<1>2. GoesOn(th, where)
  BY NotSettling DEF Begin, Goto, GoesOn
<1>3. StageOf(th)'
  <2>1. pc'[th] = where /\ at'[th] = 1 /\ acquired'[th] = {}
    BY DEF GateInv, TypeOK, Staged, StageOf, Begin, Goto, gates
  <2>2. Before(th)' = {}
    BY <2>1 DEF Before
  <2> QED BY <2>1, <2>2 DEF StageOf, Shut
<1> HIDE DEF where
<1> QED BY <1>1, <1>2, <1>3, GoesOnKeeps

\* A refused thread drops the leases it has, if any.
LEMMA GiveUpKeeps ==
    ASSUME GateInv, NEW th \in Threads, pc[th] \in {"lookup", "permit"}, GiveUp(th),
           UNCHANGED <<gates, settling, at, intent, view, inactive, fenced, storage>>
    PROVE  GateInv'
<1>1. acquired[th] \subseteq KeysOf(th)
  BY KeyFacts DEF GateInv, Staged, StageOf
<1>2. Leases(th) = {} => acquired[th] = {}
  BY <1>1, PathFacts DEF GateInv, Referenced, Leases, KeysOf
<1>3. PICK where \in {"idle", "drop"} :
        /\ pc' = [pc EXCEPT ![th] = where]
        /\ where = "idle" => Leases(th) = {}
        /\ where = "drop" => Leases(th) # {}
  BY DEF GiveUp, Goto
<1>4. TypeOK'
  <2>1. permits' \subseteq Threads
    BY DEF GateInv, TypeOK, GiveUp
  <2> QED BY <1>3, <2>1 DEF GateInv, TypeOK, Stages, gates, storage
<1>5. GoesOn(th, where)
  BY <1>3, NotSettling DEF GoesOn
<1>6. StageOf(th)'
  <2>1. pc'[th] = where /\ acquired'[th] = acquired[th] /\ Leases(th)' = Leases(th)
    BY <1>3 DEF GateInv, TypeOK, gates, Leases
  <2> QED BY <1>2, <1>3, <2>1 DEF StageOf, Shut
<1> QED BY <1>4, <1>5, <1>6, GoesOnKeeps

LEMMA PermitKeeps ==
    ASSUME GateInv, NEW th \in Threads, Permit(th)
    PROVE  GateInv'
<1>1. CASE GiveUp(th)
  BY <1>1, GiveUpKeeps DEF Permit
<1>2. CASE permits' = permits \cup {th} /\ Goto(th, "lookup")
  <2>1. TypeOK'
    BY <1>2 DEF GateInv, TypeOK, Permit, Goto, Stages, gates, storage
  <2>2. GoesOn(th, "lookup")
    BY <1>2, NotSettling DEF Permit, Goto, GoesOn
  <2>3. StageOf(th)'
    BY <1>2 DEF GateInv, TypeOK, Staged, StageOf, Permit, Goto, Before, Shut, gates
  <2> QED BY <2>1, <2>2, <2>3, GoesOnKeeps
<1> QED BY <1>1, <1>2 DEF Permit

\* From any stage at which something is acquired a thread may go and drop it.
LEMMA ToDropKeeps ==
    ASSUME GateInv, NEW th \in Threads, Goto(th, "drop"), UNCHANGED <<gates, settling, at>>,
           TypeOK', pc[th] \in Shut \cup {"check", "settle", "settled", "enter"}
    PROVE  GateInv'
<1>1. GoesOn(th, "drop")
  BY DEF Goto, GoesOn, Shut
<1>2. lease[th][Key(th)] # NoGate
  BY KeyFacts DEF GateInv, Staged, StageOf, Referenced
<1>3. Leases(th) # {}
  BY <1>2, KeyFacts DEF GateInv, Leases, Key
<1>4. StageOf(th)'
  <2>1. pc'[th] = "drop" /\ Leases(th)' = Leases(th)
    BY DEF GateInv, TypeOK, Goto, gates, Leases
  <2> QED BY <1>3, <2>1 DEF StageOf, Shut
<1> QED BY <1>1, <1>4, GoesOnKeeps

LEMMA CheckKeeps ==
    ASSUME GateInv, NEW th \in Threads, Check(th)
    PROVE  GateInv'
<1>0. at[th] \in 1..Len(Path[th]) /\ Len(Path[th]) \in Nat /\ DOMAIN Path[th] = 1..Len(Path[th])
      /\ pc[th] = "check"
  BY KeyFacts, PathFacts DEF GateInv, Check
<1>1. TypeOK'
  <2>1. at' \in [Threads -> Nat] /\ \A q \in Threads : at'[q] \in DOMAIN Path[q]
    <3>1. at' = at \/ (at[th] < Len(Path[th]) /\ at' = [at EXCEPT ![th] = @ + 1])
      BY DEF Check
    <3>2. at \in [Threads -> Nat] /\ \A q \in Threads : at[q] \in DOMAIN Path[q]
      BY DEF GateInv, TypeOK
    <3> QED BY <1>0, <3>1, <3>2
  <2>2. pc' \in [Threads -> Stages]
    BY DEF GateInv, TypeOK, Check, Goto, Stages
  <2> QED BY <2>1, <2>2 DEF GateInv, TypeOK, Check, gates, storage
<1>2. CASE Goto(th, "drop") /\ UNCHANGED at
  BY <1>0, <1>1, <1>2, ToDropKeeps DEF Check
<1>3. CASE at[th] = Len(Path[th]) /\ Goto(th, "admitted") /\ UNCHANGED at
  <2>1. GoesOn(th, "admitted")
    BY <1>0, <1>3, NotSettling DEF Check, Goto, GoesOn
  <2>2. StageOf(th)'
    BY <1>0, <1>3 DEF GateInv, TypeOK, Staged, StageOf, Check, Goto, UpTo, Shut, gates
  <2> QED BY <1>1, <2>1, <2>2, GoesOnKeeps
<1>4. CASE Goto(th, "permit") /\ at' = [at EXCEPT ![th] = @ + 1]
  <2>1. GoesOn(th, "permit")
    BY <1>0, <1>4, NotSettling DEF Check, Goto, GoesOn
  <2>2. StageOf(th)'
    <3>1. pc'[th] = "permit" /\ at'[th] = at[th] + 1 /\ acquired' = acquired
      BY <1>4 DEF GateInv, TypeOK, Check, Goto, gates
    <3>2. Before(th)' = UpTo(th)
      BY <1>0, <3>1 DEF Before, UpTo
    <3> QED BY <1>0, <3>1, <3>2 DEF GateInv, Staged, StageOf, Shut
  <2> QED BY <1>1, <2>1, <2>2, GoesOnKeeps
<1> QED BY <1>2, <1>3, <1>4 DEF Check

\* The steps under the leases.
LEMMA WorkKeeps ==
    ASSUME GateInv, NEW th \in Threads,
           \/ Store(th) \/ StoreFails(th) \/ SettleTimeout(th) \/ Settled(th)
           \/ Capture(th) \/ Commit(th) \/ CommitFails(th) \/ Cache(th)
    PROVE  GateInv'
<1>0. KeysOf(th) \subseteq Keys
  BY PathFacts
<1>1. CASE Store(th) \/ StoreFails(th)
  <2>1. rows' \in [Mailboxes -> SUBSET Threads]
    <3>1. rows' = rows \/ rows' = [rows EXCEPT ![Key(th)] = @ \cup {th}]
      BY <1>1 DEF Store, StoreFails
    <3>2. rows \in [Mailboxes -> SUBSET Threads]
      BY DEF GateInv, TypeOK
    <3>3. CASE Key(th) \in Mailboxes
      BY <3>1, <3>2, <3>3
    <3>4. CASE Key(th) \notin Mailboxes
      <4>1. [rows EXCEPT ![Key(th)] = @ \cup {th}] = rows
        BY <3>2, <3>4
      <4> QED BY <3>1, <3>2, <4>1
    <3> QED BY <3>3, <3>4
  <2>2. TypeOK'
    <3>1. pc' \in [Threads -> Stages] /\ fenced' \in BOOLEAN
      BY <1>1 DEF GateInv, TypeOK, Store, StoreFails, Goto, Stages
    <3> QED BY <1>1, <2>1, <3>1 DEF GateInv, TypeOK, Store, StoreFails, gates
  <2> QED BY <1>1, <2>2, ToDropKeeps DEF Store, StoreFails, Shut
<1>2. CASE SettleTimeout(th) \/ Settled(th)
  <2>1. TypeOK'
    BY <1>2 DEF GateInv, TypeOK, SettleTimeout, Settled, Goto, Stages, gates, storage
  <2> QED BY <1>2, <2>1, ToDropKeeps DEF SettleTimeout, Settled, Shut
<1>3. CASE Capture(th)
  <2>1. TypeOK'
    BY <1>3 DEF GateInv, TypeOK, Capture, Goto, Stages, gates, storage
  <2>2. GoesOn(th, "commit")
    BY <1>3, NotSettling DEF Capture, Goto, GoesOn
  <2>3. StageOf(th)'
    BY <1>3 DEF GateInv, TypeOK, Staged, StageOf, Capture, Goto, UpTo, Shut, gates
  <2> QED BY <2>1, <2>2, <2>3, GoesOnKeeps
<1>4. CASE Commit(th) \/ CommitFails(th)
  <2>1. migrated' \subseteq Keys /\ captured' \in [Mailboxes -> SUBSET Threads] /\ rows' = rows
    <3>1. CASE UNCHANGED storage
      BY <3>1 DEF GateInv, TypeOK, storage
    <3>2. CASE Transition(th)
      BY <1>0, <3>2 DEF GateInv, TypeOK, Transition
    <3> QED BY <1>4, <3>1, <3>2 DEF Commit, CommitFails
  <2>2. pc[th] = "commit" /\ UNCHANGED <<gates, settling, permits, at, intent, view, inactive>>
        /\ fenced' \in BOOLEAN /\ (Goto(th, "drop") \/ Goto(th, "cache"))
    BY <1>4 DEF GateInv, TypeOK, Commit, CommitFails
  <2>3. TypeOK'
    BY <2>1, <2>2 DEF GateInv, TypeOK, Goto, Stages, gates
  <2>4. CASE Goto(th, "drop")
    BY <2>2, <2>3, <2>4, ToDropKeeps DEF Shut
  <2>5. CASE Goto(th, "cache")
    <3>1. GoesOn(th, "cache")
      BY <2>2, <2>5, NotSettling DEF Goto, GoesOn
    <3>2. StageOf(th)'
      BY <2>2, <2>5 DEF GateInv, TypeOK, Staged, StageOf, Goto, UpTo, Shut, gates
    <3> QED BY <2>3, <3>1, <3>2, GoesOnKeeps
  <2> QED BY <2>2, <2>4, <2>5
<1>5. CASE Cache(th)
  <2>1. TypeOK'
    BY <1>0, <1>5 DEF GateInv, TypeOK, Cache, Goto, Stages, gates, storage
  <2> QED BY <1>5, <2>1, ToDropKeeps DEF Cache, Shut
<1> QED BY <1>1, <1>2, <1>3, <1>4, <1>5

-----------------------------------------------------------------------------
(* Steps on a gate.                                                        *)

GateStates == [readers : Nat, writer : BOOLEAN, waiting : Nat, held : BOOLEAN]

\* A thread at its gate: the lease refers to the gate in the map.
LEMMA AtGate ==
    ASSUME GateInv, NEW th \in Threads, NEW k \in Keys,
           k \in acquired[th] \/ (pc[th] \in {"enter", "wait", "unmap"} /\ k = Key(th))
    PROVE  /\ lease[th][k] = mapped[k] /\ mapped[k] \in Gens /\ mapped[k] # NoGate
           /\ k \in KeysOf(th)
<1>1. lease[th][k] # NoGate
  BY DEF GateInv, Staged, StageOf, Referenced
<1>2. ~ (pc[th] = "free" /\ Key(th) = k)
  BY DEF GateInv, Staged, StageOf
<1>3. lease[th][k] = mapped[k] /\ k \in KeysOf(th)
  BY <1>1, <1>2 DEF GateInv, Referenced
<1> QED BY <1>1, <1>3 DEF GateInv, TypeOK

\* Lookup: a thread takes a reference to the gate in the map, a fresh one if
\* there was none.
LEMMA LookupKeeps ==
    ASSUME GateInv, NEW th \in Threads, Lookup(th)
    PROVE  GateInv'
<1> DEFINE k == Key(th)
           new == CHOOSE g \in Gens : StrongCount(k, g) = 0
<1> USE DEF GateInv
<1>0. k \in Keys /\ k \in KeysOf(th)
  BY KeyFacts
<1>1. mapped \in [Keys -> Gens \cup {NoGate}] /\ lease \in [Threads -> [Keys -> Gens \cup {NoGate}]]
      /\ gate \in [Keys -> [Gens -> GateStates]] /\ pc \in [Threads -> Stages]
  BY DEF TypeOK, GateStates
<1>2. ASSUME mapped[k] = NoGate PROVE new \in Gens
  <2>1. [q \in Threads |-> lease[q][k]] \in [Threads -> Gens \cup {NoGate}]
    BY <1>0, <1>1
  <2>2. PICK g \in Gens : \A q \in Threads : [r \in Threads |-> lease[r][k]][q] # g
    BY <2>1, AllocationAssumption
  <2>3. {q \in Threads : lease[q][k] = g} = {}
    BY <2>2
  <2>4. StrongCount(k, g) = 0
    <3>1. mapped[k] # g
      BY <1>2, NoGateAssumption
    <3> HIDE DEF k
    <3> QED BY <2>3, <3>1, FS_EmptySet DEF StrongCount
  <2> QED BY <2>4
<1>3. /\ mapped' \in [Keys -> Gens \cup {NoGate}] /\ mapped'[k] \in Gens
      /\ \A x \in Keys : mapped[x] # NoGate => mapped'[x] = mapped[x]
      /\ \A x \in Keys : x # k => mapped'[x] = mapped[x]
  <2>1. CASE mapped[k] = NoGate
    <3>1. mapped' = [mapped EXCEPT ![k] = new]
      BY <2>1 DEF Lookup
    <3> HIDE DEF new, k
    <3> QED BY <1>0, <1>1, <1>2, <2>1, <3>1
  <2>2. CASE mapped[k] # NoGate
    <3>1. mapped' = mapped
      BY <2>2 DEF Lookup
    <3> QED BY <1>0, <1>1, <2>2, <3>1
  <2> QED BY <2>1, <2>2
<1>4. /\ gate' \in [Keys -> [Gens -> GateStates]]
      /\ \A x \in Keys : mapped[x] # NoGate => gate'[x] = gate[x]
      /\ mapped[k] = NoGate => gate'[k][mapped'[k]] = FreshGate
  <2>1. CASE mapped[k] = NoGate
    <3>1. mapped' = [mapped EXCEPT ![k] = new] /\ gate' = [gate EXCEPT ![k][new] = FreshGate]
      BY <2>1 DEF Lookup
    <3>2. FreshGate \in GateStates
      BY DEF FreshGate, GateStates
    <3> HIDE DEF new, k
    <3> QED BY <1>0, <1>1, <1>2, <2>1, <3>1, <3>2
  <2>2. CASE mapped[k] # NoGate
    BY <1>1, <2>2 DEF Lookup
  <2> QED BY <2>1, <2>2
<1>5. lease' = [lease EXCEPT ![th][k] = mapped'[k]] /\ pc' = [pc EXCEPT ![th] = "enter"]
      /\ UNCHANGED <<acquired, settling, permits, at, intent, view, inactive, fenced, storage>>
      /\ pc[th] = "lookup"
  BY DEF Lookup, Goto
<1> HIDE DEF new
<1>6. TypeOK'
  BY <1>0, <1>1, <1>3, <1>4, <1>5 DEF TypeOK, Stages, storage, GateStates
<1>7. Staged'
  <2>1. OthersStand(th)
    BY <1>1, <1>5 DEF OthersStand
  <2>2. pc'[th] = "enter" /\ Key(th)' = k /\ Before(th)' = Before(th) /\ acquired'[th] = acquired[th]
        /\ lease'[th][k] # NoGate
    BY <1>0, <1>1, <1>3, <1>5, NoGateAssumption DEF Key, Before
  <2>3. StageOf(th)'
    BY <1>5, <2>2 DEF Staged, StageOf, Shut
  <2> QED BY <2>1, <2>3, StagedByOne
<1>8. Referenced'
  BY <1>0, <1>1, <1>3, <1>5, NoGateAssumption DEF Referenced, Key
<1>9. \A x \in Keys : Readers(x)' = Readers(x) /\ Waiters(x)' = Waiters(x)
  BY <1>1, <1>5 DEF Readers, Waiters, Key
<1>10. ASSUME mapped[k] = NoGate
       PROVE  Readers(k) = {} /\ Waiters(k) = {} /\ \A q \in Threads : k \notin acquired[q]
  <2>1. \A q \in Threads : k \notin acquired[q]
    BY <1>0, <1>10, AtGate
  <2>2. \A q \in Threads : pc[q] = "wait" => Key(q) # k
    BY <1>0, <1>10, AtGate
  <2> QED BY <2>1, <2>2 DEF Readers, Waiters
<1>11. Counted'
  <2> SUFFICES ASSUME NEW x \in Keys, mapped'[x] # NoGate
               PROVE  /\ gate'[x][mapped'[x]].readers = Cardinality(Readers(x))
                      /\ gate'[x][mapped'[x]].waiting = Cardinality(Waiters(x))
                      /\ gate'[x][mapped'[x]].writer <=>
                            \E q \in Threads : Kind[q] = "cutover" /\ x \in acquired[q]
    BY <1>5, <1>9 DEF Counted
  <2>1. CASE mapped[x] # NoGate
    BY <1>3, <1>4, <2>1 DEF Counted
  <2>2. CASE mapped[x] = NoGate
    <3>1. x = k
      BY <1>3, <2>2
    <3>2. /\ gate'[x][mapped'[x]].readers = 0 /\ gate'[x][mapped'[x]].waiting = 0
          /\ gate'[x][mapped'[x]].writer = FALSE
      BY <1>4, <2>2, <3>1 DEF FreshGate
    <3>3. Readers(x) = {} /\ Waiters(x) = {} /\ \A q \in Threads : x \notin acquired[q]
      BY <1>10, <2>2, <3>1
    <3> QED BY <3>2, <3>3, FS_EmptySet
  <2> QED BY <2>1, <2>2
<1>12. Settling'
  <2>1. \A q \in settling : q \in Threads /\ q # th /\ Path[q][1] \in Keys
    <3>1. settling \subseteq Threads /\ th \notin settling
      BY <1>5, NotSettling DEF TypeOK
    <3>2. \A q \in Threads : Path[q][1] \in Keys
      BY PathFacts
    <3> QED BY <3>1, <3>2
  <2>2. \A q \in settling : mapped[Path[q][1]] # NoGate
    BY <2>1, AtGate DEF Settling
  <2> QED BY <1>1, <1>3, <1>4, <1>5, <2>1, <2>2 DEF Settling
<1> QED BY <1>5, <1>6, <1>7, <1>8, <1>11, <1>12 DEF CutoverExcludes, SettlementExclusive

\* The count of the gate in the map of k after a step.
CountedAt(k) ==
    /\ gate[k][mapped[k]].readers = Cardinality(Readers(k))
    /\ gate[k][mapped[k]].waiting = Cardinality(Waiters(k))
    /\ gate[k][mapped[k]].writer <=> \E th \in Threads : Kind[th] = "cutover" /\ k \in acquired[th]

\* A thread changes the gate of one key, which is the gate in the map.
TouchesGate(th, k, where) ==
    /\ \E new : gate' = [gate EXCEPT ![k][mapped[k]] = new]
    /\ UNCHANGED <<mapped, lease>>
    /\ \E own : own \ {k} = acquired[th] \ {k} /\ acquired' = [acquired EXCEPT ![th] = own]
    /\ pc' = [pc EXCEPT ![th] = where]
    /\ at' = at \/ \E i : at' = [at EXCEPT ![th] = i]
    /\ pc[th] # "free" /\ where # "free"
    /\ pc[th] = "wait" => Key(th) = k
    /\ where = "wait" => Key(th)' = k

LEMMA TouchesGateKeeps ==
    ASSUME GateInv, NEW th \in Threads, NEW k \in Keys, NEW where, TouchesGate(th, k, where),
           lease[th][k] = mapped[k], mapped[k] \in Gens, TypeOK', StageOf(th)', CountedAt(k)'
    PROVE  Staged' /\ Referenced' /\ Counted'
<1> USE DEF GateInv
<1>0. pc \in [Threads -> Stages] /\ at \in [Threads -> Nat] /\ acquired \in [Threads -> SUBSET Keys]
      /\ gate \in [Keys -> [Gens -> GateStates]] /\ mapped \in [Keys -> Gens \cup {NoGate}]
  BY DEF TypeOK, GateStates
<1>1. UNCHANGED <<mapped, lease>> /\ pc'[th] = where
  BY <1>0 DEF TouchesGate
<1>2. \A q \in Threads : q # th => /\ pc'[q] = pc[q] /\ at'[q] = at[q] /\ Key(q)' = Key(q)
                                   /\ acquired'[q] = acquired[q]
  BY <1>0 DEF TouchesGate, Key
<1>3. \A x \in Keys : x # k => (x \in acquired'[th] <=> x \in acquired[th])
  BY <1>0 DEF TouchesGate
<1>4. Staged'
  BY <1>1, <1>2, StagedByOne DEF OthersStand
<1>5. Referenced'
  <2> SUFFICES ASSUME NEW q \in Threads, NEW x \in Keys
               PROVE  /\ x \in acquired'[q] => lease[q][x] # NoGate
                      /\ lease[q][x] # NoGate =>
                            /\ x \in KeysOf(q)
                            /\ lease[q][x] = mapped[x] \/ (pc'[q] = "free" /\ Key(q)' = x)
    BY <1>1 DEF Referenced
  <2>1. /\ x \in acquired[q] => lease[q][x] # NoGate
        /\ lease[q][x] # NoGate =>
              /\ x \in KeysOf(q)
              /\ lease[q][x] = mapped[x] \/ (pc[q] = "free" /\ Key(q) = x)
    BY DEF Referenced
  <2>2. CASE q # th
    BY <1>2, <2>1, <2>2
  <2>3. CASE q = th
    BY <1>3, <2>1, <2>3, NoGateAssumption DEF TouchesGate
  <2> QED BY <2>2, <2>3
<1>6. \A x \in Keys : x # k => Readers(x)' = Readers(x) /\ Waiters(x)' = Waiters(x)
  <2> SUFFICES ASSUME NEW x \in Keys, x # k
               PROVE  Readers(x)' = Readers(x) /\ Waiters(x)' = Waiters(x)
    OBVIOUS
  <2>1. \A q \in Threads : x \in acquired'[q] <=> x \in acquired[q]
    BY <1>2, <1>3
  <2>2. \A q \in Threads : (pc'[q] = "wait" /\ Key(q)' = x) <=> (pc[q] = "wait" /\ Key(q) = x)
    BY <1>1, <1>2 DEF TouchesGate
  <2> QED BY <2>1, <2>2 DEF Readers, Waiters
<1>7. Counted'
  <2> SUFFICES ASSUME NEW x \in Keys, mapped[x] # NoGate, x # k PROVE CountedAt(x)'
    BY <1>1 DEF Counted, CountedAt
  <2>1. CountedAt(x)
    BY DEF Counted, CountedAt
  <2>2. gate'[x] = gate[x]
    BY <1>0 DEF TouchesGate
  <2>3. \A q \in Threads : x \in acquired'[q] <=> x \in acquired[q]
    BY <1>2, <1>3
  <2> QED BY <1>1, <1>6, <2>1, <2>2, <2>3 DEF CountedAt
<1> QED BY <1>4, <1>5, <1>7

\* What is known of the gate a thread has acquired, enters or waits for.
LEMMA GateKnown ==
    ASSUME GateInv, NEW k \in Keys, mapped[k] \in Gens
    PROVE  /\ CountedAt(k) /\ gate[k][mapped[k]] \in GateStates
           /\ gate \in [Keys -> [Gens -> GateStates]]
BY NoGateAssumption DEF GateInv, Counted, CountedAt, TypeOK, GateStates

\* Settlements are not disturbed while nobody touches "held".
LEMMA HeldUndisturbed ==
    ASSUME GateInv, NEW th \in Threads, NEW k \in Keys, NEW where, TouchesGate(th, k, where),
           mapped[k] \in Gens, gate'[k][mapped[k]].held = gate[k][mapped[k]].held,
           th \notin settling, UNCHANGED settling
    PROVE  Settling' /\ SettlementExclusive'
<1>0. pc \in [Threads -> Stages] /\ acquired \in [Threads -> SUBSET Keys]
      /\ gate \in [Keys -> [Gens -> GateStates]] /\ mapped \in [Keys -> Gens \cup {NoGate}]
      /\ settling \subseteq Threads
  BY DEF GateInv, TypeOK, GateStates
<1>1. UNCHANGED mapped
  BY DEF TouchesGate
<1>2. \A q \in settling : pc'[q] = pc[q] /\ acquired'[q] = acquired[q]
  BY <1>0 DEF TouchesGate
<1>3. \A x \in Keys : x # k => gate'[x] = gate[x]
  BY <1>0 DEF TouchesGate
<1>4. \A q \in Threads : Path[q][1] \in Keys
  BY PathFacts
<1>5. \A q \in settling : gate'[Path[q][1]][mapped[Path[q][1]]].held
  BY <1>0, <1>3, <1>4 DEF GateInv, Settling
<1> QED BY <1>1, <1>2, <1>5 DEF GateInv, Settling, SettlementExclusive

LEMMA EnterReaderKeeps ==
    ASSUME GateInv, NEW th \in Threads, EnterReader(th)
    PROVE  GateInv'
<1> DEFINE where == IF Kind[th] = "ack" THEN "settle" ELSE "check"
<1>k. PICK k \in Keys : k = Key(th)
  BY KeyFacts DEF GateInv
<1>g. PICK g : g = gate[k][mapped[k]]
  OBVIOUS
<1>0. /\ pc[th] = "enter" /\ Kind[th] # "cutover" /\ th \notin settling
      /\ UNCHANGED <<mapped, lease, settling, permits, at, intent, view, inactive, fenced, storage>>
  BY NotSettling DEF EnterReader
<1>1. lease[th][k] = mapped[k] /\ mapped[k] \in Gens /\ GateOf(th) = g
  BY <1>k, <1>g, <1>0, AtGate DEF GateInv, GateOf
<1>2. CASE g.writer \/ g.waiting # 0
  <2>1. Goto(th, "drop") /\ UNCHANGED <<gate, acquired>>
    BY <1>1, <1>2 DEF EnterReader
  <2>2. TypeOK'
    BY <1>0, <2>1 DEF GateInv, TypeOK, Goto, Stages, storage
  <2> QED BY <1>0, <2>1, <2>2, ToDropKeeps DEF gates
<1>3. CASE ~g.writer /\ g.waiting = 0
  <2>1. /\ gate' = [gate EXCEPT ![k][mapped[k]] = [g EXCEPT !.readers = @ + 1]]
        /\ acquired' = [acquired EXCEPT ![th] = @ \cup {k}]
        /\ pc' = [pc EXCEPT ![th] = where]
    BY <1>k, <1>1, <1>3 DEF EnterReader, SetGate, Goto
  <2>2. CountedAt(k) /\ g \in GateStates /\ gate \in [Keys -> [Gens -> GateStates]]
    BY <1>g, <1>1, GateKnown
  <2>3. where \in {"settle", "check"} /\ acquired \in [Threads -> SUBSET Keys]
        /\ pc \in [Threads -> Stages]
    BY DEF GateInv, TypeOK
  <2>4. acquired[th] = Before(th) /\ k \notin Before(th) /\ UpTo(th) = Before(th) \cup {k}
    BY <1>k, <1>0, KeyFacts DEF GateInv, Staged, StageOf
  <2> HIDE DEF where
  <2>5. /\ gate'[k][mapped[k]].readers = g.readers + 1 /\ gate'[k][mapped[k]].waiting = g.waiting
        /\ gate'[k][mapped[k]].writer = g.writer /\ gate'[k][mapped[k]].held = g.held
        /\ gate' \in [Keys -> [Gens -> GateStates]]
    <3>1. PICK n : n = [g EXCEPT !.readers = @ + 1]
      OBVIOUS
    <3>2. n \in GateStates /\ n.readers = g.readers + 1 /\ n.waiting = g.waiting
          /\ n.writer = g.writer /\ n.held = g.held
      BY <2>2, <3>1 DEF GateStates
    <3>3. gate'[k][mapped[k]] = n /\ gate' \in [Keys -> [Gens -> GateStates]]
      BY <1>1, <2>1, <2>2, <3>1, <3>2
    <3> QED BY <3>2, <3>3
  <2>6. TypeOK'
    <3>1. pc' \in [Threads -> Stages] /\ acquired' \in [Threads -> SUBSET Keys]
      BY <1>1, <2>1, <2>3 DEF Stages
    <3> QED BY <1>0, <2>5, <3>1 DEF GateInv, TypeOK, storage, GateStates
  <2>7. StageOf(th)'
    <3>1. acquired'[th] = UpTo(th) /\ UpTo(th)' = UpTo(th) /\ pc'[th] = where
      BY <1>0, <2>1, <2>3, <2>4 DEF UpTo
    <3>2. Kind[th] \in {"submit", "ack"}
      BY <1>0, PathFacts
    <3> QED BY <2>3, <3>1, <3>2 DEF StageOf, Shut, where
  <2>8. CountedAt(k)'
    <3>1. Readers(k)' = Readers(k) \cup {th} /\ th \notin Readers(k) /\ Readers(k) \in SUBSET Threads
      BY <1>0, <2>1, <2>3, <2>4 DEF Readers
    <3>2. Waiters(k)' = Waiters(k)
      BY <1>0, <2>1, <2>3 DEF Waiters, Key
    <3>3. (\E q \in Threads : Kind[q] = "cutover" /\ k \in acquired'[q]) <=>
          (\E q \in Threads : Kind[q] = "cutover" /\ k \in acquired[q])
      BY <1>0, <2>1, <2>3
    <3>4. Cardinality(Readers(k)') = Cardinality(Readers(k)) + 1
      BY <3>1, FiniteThreads
    <3> QED BY <1>0, <2>2, <2>5, <3>2, <3>3, <3>4, <1>g DEF CountedAt
  <2>9. TouchesGate(th, k, where)
    BY <1>0, <2>1, <2>3 DEF TouchesGate
  <2>10. Staged' /\ Referenced' /\ Counted'
    BY <1>1, <2>6, <2>7, <2>8, <2>9, TouchesGateKeeps
  <2>11. Settling' /\ SettlementExclusive'
    BY <1>0, <1>1, <2>5, <2>9, <1>g, HeldUndisturbed
  <2>12. \A q \in Threads : Kind[q] = "cutover" => k \notin acquired[q]
    BY <1>g, <1>3, <2>2 DEF CountedAt
  <2>13. CutoverExcludes'
    BY <1>0, <2>1, <2>3, <2>12 DEF GateInv, CutoverExcludes
  <2> QED BY <2>6, <2>10, <2>11, <2>13 DEF GateInv
<1>4. g.writer \in BOOLEAN
  BY <1>g, <1>1, GateKnown DEF GateStates
<1> QED BY <1>2, <1>3, <1>4

\* A cutover takes its gate, at once or after it waited.
LEMMA OwnKeeps ==
    ASSUME GateInv, NEW th \in Threads, NEW queued \in {0, 1},
           pc[th] = (IF queued = 1 THEN "wait" ELSE "enter"), Kind[th] = "cutover",
           Free(th), Own(th, queued),
           UNCHANGED <<mapped, lease, settling, permits, intent, view, inactive, fenced, storage>>
    PROVE  GateInv'
<1>k. PICK k \in Keys : k = Key(th)
  BY KeyFacts DEF GateInv
<1>g. PICK g : g = gate[k][mapped[k]]
  OBVIOUS
<1>0. th \notin settling /\ acquired \in [Threads -> SUBSET Keys] /\ pc \in [Threads -> Stages]
      /\ at \in [Threads -> Nat] /\ \A q \in Threads : at[q] \in DOMAIN Path[q]
  BY NotSettling DEF GateInv, TypeOK
<1>1. lease[th][k] = mapped[k] /\ mapped[k] \in Gens /\ GateOf(th) = g
  BY <1>k, <1>g, AtGate DEF GateInv, GateOf
<1>2. CountedAt(k) /\ g \in GateStates /\ gate \in [Keys -> [Gens -> GateStates]]
  BY <1>g, <1>1, GateKnown
<1>3. /\ gate' = [gate EXCEPT ![k][mapped[k]] = [g EXCEPT !.writer = TRUE, !.waiting = @ - queued]]
      /\ acquired' = [acquired EXCEPT ![th] = @ \cup {k}]
  BY <1>k, <1>1 DEF Own, SetGate
<1>4. PICK where \in {"capture", "commit", "lookup"} :
        /\ pc' = [pc EXCEPT ![th] = where]
        /\ \/ where # "lookup" /\ at' = at /\ at[th] = Len(Path[th])
           \/ where = "lookup" /\ at[th] # Len(Path[th]) /\ at' = [at EXCEPT ![th] = @ + 1]
  BY DEF Own, Goto
<1>5. acquired[th] = Before(th) /\ k \notin Before(th) /\ UpTo(th) = Before(th) \cup {k}
      /\ at[th] \in 1..Len(Path[th]) /\ Len(Path[th]) \in Nat /\ DOMAIN Path[th] = 1..Len(Path[th])
  BY <1>k, KeyFacts, PathFacts DEF GateInv, Staged, StageOf
<1>6. ~g.writer /\ g.readers = 0
  BY <1>1 DEF Free
<1>7. Readers(k) = {} /\ \A q \in Threads : k \notin acquired[q]
  <2>1. Cardinality(Readers(k)) = 0 /\ Readers(k) \in SUBSET Threads
    BY <1>g, <1>2, <1>6 DEF CountedAt, Readers
  <2>2. Readers(k) = {}
    BY <2>1, FiniteThreads
  <2>3. ~ \E q \in Threads : Kind[q] = "cutover" /\ k \in acquired[q]
    BY <1>g, <1>2, <1>6 DEF CountedAt
  <2> QED BY <2>2, <2>3 DEF Readers
<1>8. Waiters(k)' = Waiters(k) \ {th} /\ (th \in Waiters(k) <=> queued = 1)
  BY <1>k, <1>0, <1>4 DEF Waiters, Key
<1>9. Cardinality(Waiters(k)') = Cardinality(Waiters(k)) - queued
      /\ Cardinality(Waiters(k)) - queued \in Nat
  <2>1. Waiters(k) \in SUBSET Threads
    BY DEF Waiters
  <2>2. Cardinality(Waiters(k)) \in Nat /\ (th \in Waiters(k) =>
          Cardinality(Waiters(k) \ {th}) = Cardinality(Waiters(k)) - 1 /\ Cardinality(Waiters(k)) >= 1)
    BY <2>1, FiniteThreads
  <2>3. CASE queued = 1
    BY <1>8, <2>2, <2>3
  <2>4. CASE queued = 0
    <3>1. Waiters(k)' = Waiters(k)
      BY <1>8, <2>4
    <3> QED BY <2>2, <2>4, <3>1
  <2> QED BY <2>3, <2>4
<1>10. g.waiting = Cardinality(Waiters(k))
  BY <1>g, <1>2 DEF CountedAt
<1>11. /\ gate'[k][mapped[k]].readers = g.readers
       /\ gate'[k][mapped[k]].waiting = g.waiting - queued
       /\ gate'[k][mapped[k]].writer = TRUE /\ gate'[k][mapped[k]].held = g.held
       /\ gate' \in [Keys -> [Gens -> GateStates]]
  BY <1>1, <1>2, <1>3, <1>9, <1>10 DEF GateStates
<1>12. TypeOK'
  <2>1. pc' \in [Threads -> Stages] /\ acquired' \in [Threads -> SUBSET Keys]
    BY <1>0, <1>3, <1>4 DEF Stages
  <2>2. at' \in [Threads -> Nat] /\ \A q \in Threads : at'[q] \in DOMAIN Path[q]
    <3>1. CASE at' = at
      BY <1>0, <3>1
    <3>2. CASE at[th] # Len(Path[th]) /\ at' = [at EXCEPT ![th] = @ + 1]
      <4>1. at[th] + 1 \in DOMAIN Path[th] /\ at[th] + 1 \in Nat
        BY <1>5, <3>2
      <4> QED BY <1>0, <3>2, <4>1
    <3> QED BY <1>4, <3>1, <3>2
  <2> QED BY <1>11, <2>1, <2>2 DEF GateInv, TypeOK, storage, GateStates
<1>13. StageOf(th)'
  <2>1. acquired'[th] = UpTo(th) /\ pc'[th] = where
    BY <1>0, <1>3, <1>4, <1>5
  <2>2. CASE where = "lookup"
    <3>1. Before(th)' = UpTo(th)
      BY <1>0, <1>4, <1>5, <2>2 DEF Before, UpTo
    <3> QED BY <2>1, <2>2, <3>1 DEF StageOf, Shut
  <2>3. CASE where # "lookup"
    <3>1. UpTo(th)' = UpTo(th) /\ at'[th] = Len(Path[th])
      BY <1>4, <2>3 DEF UpTo
    <3> QED BY <1>4, <2>1, <2>3, <3>1 DEF StageOf, Shut
  <2> QED BY <2>2, <2>3
<1>14. CountedAt(k)'
  <2>1. Readers(k)' = {}
    BY <1>0, <1>3, <1>7 DEF Readers
  <2>2. \E q \in Threads : Kind[q] = "cutover" /\ k \in acquired'[q]
    BY <1>0, <1>3
  <2> QED BY <1>6, <1>9, <1>10, <1>11, <2>1, <2>2, FS_EmptySet DEF CountedAt
<1>15. TouchesGate(th, k, where)
  BY <1>k, <1>3, <1>4 DEF TouchesGate
<1>16. Staged' /\ Referenced' /\ Counted'
  BY <1>1, <1>12, <1>13, <1>14, <1>15, TouchesGateKeeps
<1>17. Settling' /\ SettlementExclusive'
  BY <1>g, <1>0, <1>1, <1>11, <1>15, HeldUndisturbed
<1>18. CutoverExcludes'
  BY <1>0, <1>3, <1>7 DEF GateInv, CutoverExcludes
<1> QED BY <1>12, <1>16, <1>17, <1>18 DEF GateInv

\* A cutover joins the queue of its gate, or leaves it.
LEMMA QueueKeeps ==
    ASSUME GateInv, NEW th \in Threads, NEW joins \in BOOLEAN,
           pc[th] = (IF joins THEN "enter" ELSE "wait"), Kind[th] = "cutover",
           SetGate(th, [GateOf(th) EXCEPT !.waiting = IF joins THEN @ + 1 ELSE @ - 1]),
           Goto(th, IF joins THEN "wait" ELSE "drop"),
           UNCHANGED <<mapped, lease, acquired, settling, permits, at, intent, view, inactive,
                       fenced, storage>>
    PROVE  GateInv'
<1> DEFINE where == IF joins THEN "wait" ELSE "drop"
<1>k. PICK k \in Keys : k = Key(th)
  BY KeyFacts DEF GateInv
<1>g. PICK g : g = gate[k][mapped[k]]
  OBVIOUS
<1>0. th \notin settling /\ acquired \in [Threads -> SUBSET Keys] /\ pc \in [Threads -> Stages]
  BY NotSettling DEF GateInv, TypeOK
<1>1. lease[th][k] = mapped[k] /\ mapped[k] \in Gens /\ GateOf(th) = g /\ k \in KeysOf(th)
  BY <1>k, <1>g, AtGate DEF GateInv, GateOf
<1>2. CountedAt(k) /\ g \in GateStates /\ gate \in [Keys -> [Gens -> GateStates]]
  BY <1>g, <1>1, GateKnown
<1>3. /\ gate' = [gate EXCEPT ![k][mapped[k]] =
                    [g EXCEPT !.waiting = IF joins THEN @ + 1 ELSE @ - 1]]
      /\ pc' = [pc EXCEPT ![th] = where]
  BY <1>k, <1>1 DEF SetGate, Goto
<1>4. Key(th)' = k
  BY <1>k DEF Key
<1>5. Waiters(k)' = (IF joins THEN Waiters(k) \cup {th} ELSE Waiters(k) \ {th})
      /\ (th \in Waiters(k) <=> ~joins)
  <2>1. \A q \in Threads : Key(q)' = Key(q)
    BY DEF Key
  <2> QED BY <1>k, <1>0, <1>3, <2>1 DEF Waiters
<1>6. Cardinality(Waiters(k)') = (IF joins THEN g.waiting + 1 ELSE g.waiting - 1)
      /\ Cardinality(Waiters(k)') \in Nat
  <2>1. Waiters(k) \in SUBSET Threads /\ g.waiting = Cardinality(Waiters(k))
    BY <1>g, <1>2 DEF Waiters, CountedAt
  <2>2. CASE joins
    <3>1. Cardinality(Waiters(k) \cup {th}) = Cardinality(Waiters(k)) + 1
          /\ Cardinality(Waiters(k)) \in Nat
      BY <1>5, <2>1, <2>2, FiniteThreads
    <3> QED BY <1>5, <2>1, <2>2, <3>1
  <2>3. CASE ~joins
    <3>1. Cardinality(Waiters(k) \ {th}) = Cardinality(Waiters(k)) - 1
          /\ Cardinality(Waiters(k)) \in Nat /\ Cardinality(Waiters(k)) >= 1
      BY <1>5, <2>1, <2>3, FiniteThreads
    <3> QED BY <1>5, <2>1, <2>3, <3>1
  <2> QED BY <2>2, <2>3
<1> HIDE DEF where
<1>7. /\ gate'[k][mapped[k]].readers = g.readers
      /\ gate'[k][mapped[k]].waiting = Cardinality(Waiters(k)')
      /\ gate'[k][mapped[k]].writer = g.writer /\ gate'[k][mapped[k]].held = g.held
      /\ gate' \in [Keys -> [Gens -> GateStates]]
  BY <1>1, <1>2, <1>3, <1>6 DEF GateStates
<1>8. where \in {"wait", "drop"} /\ (where = "wait" => Key(th)' = k)
  BY <1>4 DEF where
<1>9. TypeOK'
  <2>1. pc' \in [Threads -> Stages]
    BY <1>0, <1>3, <1>8 DEF Stages
  <2> QED BY <1>7, <2>1 DEF GateInv, TypeOK, storage, GateStates
<1>10. StageOf(th)'
  <2>1. acquired'[th] = Before(th) /\ Before(th)' = Before(th) /\ pc'[th] = where
        /\ lease'[th][k] # NoGate
    BY <1>0, <1>1, <1>3, NoGateAssumption DEF GateInv, Staged, StageOf, Before
  <2>2. Leases(th)' # {}
    BY <1>1, <2>1 DEF Leases, KeysOf
  <2> QED BY <1>4, <1>8, <2>1, <2>2 DEF StageOf, Shut
<1>11. CountedAt(k)'
  <2>1. Readers(k)' = Readers(k)
    BY DEF Readers
  <2>2. g.readers = Cardinality(Readers(k))
        /\ (g.writer <=> \E q \in Threads : Kind[q] = "cutover" /\ k \in acquired[q])
    BY <1>g, <1>2 DEF CountedAt
  <2>3. UNCHANGED <<mapped, acquired>>
    OBVIOUS
  <2> QED BY <1>7, <2>1, <2>2, <2>3 DEF CountedAt
<1>12. TouchesGate(th, k, where)
  <2>1. acquired' = [acquired EXCEPT ![th] = acquired[th]]
    BY <1>0
  <2> QED BY <1>k, <1>3, <1>8, <2>1 DEF TouchesGate
<1>13. Staged' /\ Referenced' /\ Counted'
  BY <1>1, <1>9, <1>10, <1>11, <1>12, TouchesGateKeeps
<1>14. Settling' /\ SettlementExclusive'
  BY <1>g, <1>0, <1>1, <1>7, <1>12, HeldUndisturbed
<1> QED BY <1>9, <1>13, <1>14 DEF GateInv, CutoverExcludes

LEMMA WriterKeeps ==
    ASSUME GateInv, NEW th \in Threads, EnterWriter(th) \/ TakeWriter(th) \/ WriterTimeout(th)
    PROVE  GateInv'
<1>0. TakeWriter(th) \/ WriterTimeout(th) => Kind[th] = "cutover"
  BY DEF TakeWriter, WriterTimeout, GateInv, Staged, StageOf
<1>1. CASE EnterWriter(th) /\ Free(th)
  BY <1>1, OwnKeeps DEF EnterWriter
<1>2. CASE EnterWriter(th) /\ ~Free(th)
  BY <1>2, QueueKeeps DEF EnterWriter
<1>3. CASE TakeWriter(th)
  BY <1>0, <1>3, OwnKeeps DEF TakeWriter
<1>4. CASE WriterTimeout(th)
  BY <1>0, <1>4, QueueKeeps DEF WriterTimeout
<1> QED BY <1>1, <1>2, <1>3, <1>4

-----------------------------------------------------------------------------
(* Settlements, and the departure of a lease.                              *)

\* The thread's lease takes the settlement of its mailbox.
LEMMA SettleKeeps ==
    ASSUME GateInv, NEW th \in Threads, Settle(th)
    PROVE  GateInv'
<1>k. PICK k \in Keys : k = Key(th)
  BY KeyFacts DEF GateInv
<1>g. PICK g : g = gate[k][mapped[k]]
  OBVIOUS
<1>0. /\ pc[th] = "settle" /\ Kind[th] = "ack" /\ th \notin settling
      /\ acquired \in [Threads -> SUBSET Keys] /\ pc \in [Threads -> Stages]
      /\ settling \subseteq Threads
      /\ UNCHANGED <<mapped, lease, acquired, permits, at, intent, view, inactive, fenced, storage>>
  BY NotSettling DEF Settle, GateInv, TypeOK, Staged, StageOf
<1>1. k \in acquired[th] /\ acquired[th] = UpTo(th)
  BY <1>k, <1>0, KeyFacts DEF GateInv, Staged, StageOf
<1>2. lease[th][k] = mapped[k] /\ mapped[k] \in Gens /\ GateOf(th) = g
  BY <1>k, <1>g, <1>1, AtGate DEF GateInv, GateOf
<1>3. CountedAt(k) /\ g \in GateStates /\ gate \in [Keys -> [Gens -> GateStates]]
  BY <1>g, <1>2, GateKnown
<1>4. /\ gate' = [gate EXCEPT ![k][mapped[k]] = [g EXCEPT !.held = TRUE]]
      /\ pc' = [pc EXCEPT ![th] = "settled"] /\ settling' = settling \cup {th} /\ ~g.held
  BY <1>k, <1>2 DEF Settle, SetGate, Goto
<1>5. /\ gate'[k][mapped[k]].readers = g.readers /\ gate'[k][mapped[k]].waiting = g.waiting
      /\ gate'[k][mapped[k]].writer = g.writer /\ gate'[k][mapped[k]].held = TRUE
      /\ gate' \in [Keys -> [Gens -> GateStates]]
      /\ \A x \in Keys : x # k => gate'[x] = gate[x]
  BY <1>2, <1>3, <1>4 DEF GateStates
<1>6. TypeOK'
  <2>1. pc' \in [Threads -> Stages] /\ settling' \subseteq Threads
    BY <1>0, <1>4 DEF Stages
  <2> QED BY <1>0, <1>5, <2>1 DEF GateInv, TypeOK, storage, GateStates
<1>7. StageOf(th)'
  <2>1. pc'[th] = "settled" /\ acquired'[th] = UpTo(th) /\ UpTo(th)' = UpTo(th)
    BY <1>0, <1>1, <1>4 DEF UpTo
  <2> QED BY <1>0, <2>1 DEF StageOf, Shut
<1>8. CountedAt(k)'
  <2>1. Readers(k)' = Readers(k)
    BY <1>0 DEF Readers
  <2>2. Waiters(k)' = Waiters(k)
    BY <1>0, <1>4 DEF Waiters, Key
  <2> QED BY <1>g, <1>0, <1>3, <1>5, <2>1, <2>2 DEF CountedAt
<1>9. TouchesGate(th, k, "settled")
  <2>1. acquired' = [acquired EXCEPT ![th] = acquired[th]]
    BY <1>0
  <2> QED BY <1>0, <1>4, <2>1 DEF TouchesGate
<1>10. Staged' /\ Referenced' /\ Counted'
  BY <1>2, <1>6, <1>7, <1>8, <1>9, TouchesGateKeeps
<1>11. Path[th][1] = k
  <2>1. Len(Path[th]) = 1 /\ at[th] \in 1..Len(Path[th])
    BY <1>0, PathFacts, KeyFacts DEF GateInv
  <2>2. at[th] = 1
    BY <2>1
  <2> QED BY <1>k, <2>2 DEF Key
<1>12. \A q \in settling : Path[q][1] # k
  BY <1>g, <1>4 DEF GateInv, Settling
<1>13. SettlementExclusive'
  BY <1>4, <1>11, <1>12 DEF GateInv, SettlementExclusive
<1>14. Settling'
  <2> SUFFICES ASSUME NEW q \in settling'
               PROVE  /\ Kind[q] = "ack" /\ pc'[q] \in {"settled", "drop"}
                      /\ Path[q][1] \in acquired[q]
                      /\ gate'[Path[q][1]][mapped[Path[q][1]]].held
    BY <1>0 DEF Settling
  <2>1. CASE q = th
    BY <1>0, <1>1, <1>4, <1>5, <1>11, <2>1
  <2>2. CASE q # th
    <3>1. q \in settling /\ q \in Threads
      BY <1>0, <1>4, <2>2
    <3>2. Path[q][1] \in Keys
      BY <3>1, PathFacts
    <3> QED BY <1>0, <1>4, <1>5, <1>12, <2>2, <3>1, <3>2 DEF GateInv, Settling
  <2> QED BY <2>1, <2>2
<1>15. CutoverExcludes'
  BY <1>0 DEF GateInv, CutoverExcludes
<1> QED BY <1>6, <1>10, <1>13, <1>14, <1>15 DEF GateInv

\* The lease that goes next is one the thread has.
LEMMA DropNextIsLease ==
    ASSUME NEW th \in Threads, Leases(th) # {}
    PROVE  DropNext(th) \in Leases(th)
<1> DEFINE refused == {i \in Leases(th) : Path[th][i] \notin acquired[th]}
           rest == IF refused # {} THEN refused ELSE Leases(th) \ {1}
<1>1. rest \in SUBSET DOMAIN Path[th] /\ rest \subseteq Leases(th)
  BY DEF Leases
<1>2. CASE rest = {}
  <2>1. DropNext(th) = 1
    BY <1>2 DEF DropNext
  <2> QED BY <1>2, <2>1
<1>3. CASE rest # {}
  <2>1. DropNext(th) = CHOOSE i \in rest : \A j \in rest : i <= j
    BY <1>3 DEF DropNext
  <2> HIDE DEF rest
  <2>2. (CHOOSE i \in rest : \A j \in rest : i <= j) \in rest
    BY <1>1, <1>3, LeastIndex
  <2> QED BY <1>1, <2>1, <2>2
<1> QED BY <1>2, <1>3

LEMMA ReleaseKeeps ==
    ASSUME GateInv, NEW th \in Threads, Release(th)
    PROVE  GateInv'
<1>d. PICK d : d = DropNext(th)
  OBVIOUS
<1>0. /\ pc[th] = "drop" /\ pc' = [pc EXCEPT ![th] = "unmap"] /\ at' = [at EXCEPT ![th] = d]
      /\ acquired \in [Threads -> SUBSET Keys] /\ pc \in [Threads -> Stages]
      /\ settling \subseteq Threads /\ settling' = settling \ {th} /\ at \in [Threads -> Nat]
      /\ \A q \in Threads : at[q] \in DOMAIN Path[q]
      /\ UNCHANGED <<mapped, lease, permits, intent, view, inactive, fenced, storage>>
  BY <1>d DEF Release, Goto, GateInv, TypeOK
<1>1. d \in Leases(th) /\ d \in DOMAIN Path[th] /\ d \in Nat
  BY <1>d, <1>0, DropNextIsLease, PathFacts DEF GateInv, Staged, StageOf, Leases
<1>k. PICK k \in Keys : k = Path[th][d]
  BY <1>1, PathFacts
<1>g. PICK g : g = gate[k][mapped[k]]
  OBVIOUS
<1>2. lease[th][k] = mapped[k] /\ mapped[k] \in Gens /\ lease[th][k] # NoGate
  BY <1>k, <1>0, <1>1 DEF GateInv, Referenced, Leases, TypeOK
<1>3. CountedAt(k) /\ g \in GateStates /\ gate \in [Keys -> [Gens -> GateStates]]
  BY <1>g, <1>2, GateKnown
<1>4. PICK new : new = Released(th, k, g)
  OBVIOUS
<1>5. /\ gate' = [gate EXCEPT ![k][mapped[k]] = new]
      /\ acquired' = [acquired EXCEPT ![th] = @ \ {k}]
  BY <1>d, <1>k, <1>g, <1>2, <1>3, <1>4 DEF Release
<1>6. Readers(k) \in SUBSET Threads /\ g.readers = Cardinality(Readers(k))
      /\ (th \in Readers(k) <=> Kind[th] # "cutover" /\ k \in acquired[th])
      /\ Readers(k)' = Readers(k) \ {th}
  BY <1>g, <1>0, <1>3, <1>5 DEF CountedAt, Readers
<1>7. th \in Readers(k) => Cardinality(Readers(k)') = g.readers - 1 /\ g.readers >= 1
  BY <1>6, FiniteThreads
<1>8. th \notin Readers(k) => Readers(k)' = Readers(k)
  BY <1>6
<1>9. /\ new.readers = Cardinality(Readers(k)') /\ new.readers \in Nat
      /\ new.waiting = g.waiting
      /\ new.writer = (g.writer /\ ~(k \in acquired[th] /\ Kind[th] = "cutover"))
      /\ new.held = (g.held /\ ~(k \in acquired[th] /\ th \in settling))
      /\ new \in GateStates
  <2>1. CASE k \notin acquired[th]
    BY <1>3, <1>4, <1>6, <1>8, <2>1 DEF Released, GateStates
  <2>2. CASE k \in acquired[th] /\ Kind[th] = "cutover"
    BY <1>3, <1>4, <1>6, <1>8, <2>2 DEF Released, GateStates
  <2>3. CASE k \in acquired[th] /\ Kind[th] # "cutover"
    <3>1. Cardinality(Readers(k)') = g.readers - 1 /\ g.readers - 1 \in Nat
      BY <1>3, <1>6, <1>7, <2>3 DEF GateStates
    <3>2. new = [g EXCEPT !.held = IF th \in settling THEN FALSE ELSE @, !.writer = @,
                          !.readers = @ - 1]
      BY <1>4, <2>3 DEF Released
    <3>3. /\ new.readers = g.readers - 1 /\ new.waiting = g.waiting /\ new.writer = g.writer
          /\ new.held = (g.held /\ th \notin settling)
          /\ new \in GateStates
      BY <1>3, <3>1, <3>2 DEF GateStates
    <3>4. g.writer \in BOOLEAN
      BY <1>3 DEF GateStates
    <3> QED BY <2>3, <3>1, <3>3, <3>4
  <2> QED BY <2>1, <2>2, <2>3
<1>10. gate'[k][mapped[k]] = new /\ gate' \in [Keys -> [Gens -> GateStates]]
       /\ \A x \in Keys : x # k => gate'[x] = gate[x]
  BY <1>2, <1>3, <1>5, <1>9
<1>11. TypeOK'
  <2>1. /\ pc' \in [Threads -> Stages] /\ settling' \subseteq Threads
        /\ acquired' \in [Threads -> SUBSET Keys]
        /\ at' \in [Threads -> Nat] /\ \A q \in Threads : at'[q] \in DOMAIN Path[q]
    BY <1>0, <1>1, <1>5 DEF Stages
  <2> QED BY <1>0, <1>10, <2>1 DEF GateInv, TypeOK, storage, GateStates
<1>12. Key(th)' = k
  BY <1>k, <1>0 DEF Key
<1>13. StageOf(th)'
  <2>1. pc'[th] = "unmap" /\ lease'[th][k] # NoGate /\ k \notin acquired'[th]
    BY <1>0, <1>2, <1>5
  <2> QED BY <1>12, <2>1 DEF StageOf, Shut
<1>14. CountedAt(k)'
  <2>1. Waiters(k)' = Waiters(k)
    BY <1>0 DEF Waiters, Key
  <2>2. (\E q \in Threads : Kind[q] = "cutover" /\ k \in acquired'[q]) <=>
        (/\ \E q \in Threads : Kind[q] = "cutover" /\ k \in acquired[q]
         /\ ~(k \in acquired[th] /\ Kind[th] = "cutover"))
    BY <1>0, <1>5 DEF GateInv, CutoverExcludes
  <2> QED BY <1>g, <1>0, <1>3, <1>9, <1>10, <2>1, <2>2 DEF CountedAt
<1>15. TouchesGate(th, k, "unmap")
  BY <1>0, <1>5, <1>12 DEF TouchesGate
<1>16. Staged' /\ Referenced' /\ Counted'
  BY <1>2, <1>11, <1>13, <1>14, <1>15, TouchesGateKeeps
<1>17. SettlementExclusive' /\ CutoverExcludes'
  BY <1>0, <1>5 DEF GateInv, SettlementExclusive, CutoverExcludes
<1>18. Settling'
  <2> SUFFICES ASSUME NEW q \in settling, q # th
               PROVE  /\ Kind[q] = "ack" /\ pc'[q] \in {"settled", "drop"}
                      /\ Path[q][1] \in acquired'[q]
                      /\ gate'[Path[q][1]][mapped[Path[q][1]]].held
    BY <1>0 DEF Settling
  <2>1. q \in Threads /\ Path[q][1] \in Keys
    BY <1>0, PathFacts
  <2>2. /\ Kind[q] = "ack" /\ pc[q] \in {"settled", "drop"} /\ Path[q][1] \in acquired[q]
        /\ gate[Path[q][1]][mapped[Path[q][1]]].held
    BY DEF GateInv, Settling
  <2>3. pc'[q] = pc[q] /\ acquired'[q] = acquired[q]
    BY <1>0, <1>5, <2>1
  <2>4. CASE Path[q][1] # k
    BY <1>10, <2>1, <2>2, <2>3, <2>4
  <2>5. CASE Path[q][1] = k
    <3>1. th \notin settling
      <4> SUFFICES ASSUME th \in settling PROVE FALSE
        OBVIOUS
      <4>1. Len(Path[th]) = 1 /\ d \in 1..Len(Path[th])
        BY <1>1, PathFacts DEF GateInv, Settling
      <4>2. Path[th][1] = k
        BY <1>k, <4>1
      <4> QED BY <2>5, <4>2 DEF GateInv, SettlementExclusive
    <3> QED BY <1>g, <1>9, <1>10, <2>2, <2>3, <2>5, <3>1
  <2> QED BY <2>4, <2>5
<1> QED BY <1>11, <1>16, <1>17, <1>18 DEF GateInv

\* The map entry goes with its last lease.
LEMMA UnmapKeeps ==
    ASSUME GateInv, NEW th \in Threads, Unmap(th)
    PROVE  GateInv'
<1>k. PICK k \in Keys : k = Key(th)
  BY KeyFacts DEF GateInv
<1>0. /\ pc[th] = "unmap" /\ pc' = [pc EXCEPT ![th] = "free"] /\ th \notin settling
      /\ mapped \in [Keys -> Gens \cup {NoGate}] /\ pc \in [Threads -> Stages]
      /\ settling \subseteq Threads
      /\ UNCHANGED <<gate, lease, acquired, settling, permits, at, intent, view, inactive, fenced,
                     storage>>
  BY NotSettling DEF Unmap, Goto, GateInv, TypeOK
<1>1. lease[th][k] = mapped[k] /\ mapped[k] \in Gens /\ mapped[k] # NoGate
  BY <1>k, <1>0, AtGate
<1>2. \A q \in Threads : Key(q)' = Key(q) /\ (q # th => pc'[q] = pc[q])
  BY <1>0 DEF Key
<1>3. /\ mapped' \in [Keys -> Gens \cup {NoGate}]
      /\ \A x \in Keys : x # k => mapped'[x] = mapped[x]
      /\ mapped'[k] = mapped[k] \/ (mapped'[k] = NoGate /\ StrongCount(k, mapped[k]) = 2)
  BY <1>k, <1>0, <1>1 DEF Unmap
<1>4. ASSUME mapped'[k] # mapped[k], NEW q \in Threads, q # th PROVE lease[q][k] # mapped[k]
  <2> DEFINE S == {r \in Threads : lease[r][k] = mapped[k]}
  <2>1. Cardinality(S) + 1 = 2
    BY <1>3, <1>4 DEF StrongCount
  <2>2. S \in SUBSET Threads /\ th \in S
    BY <1>1
  <2>3. Cardinality(S \ {th}) = Cardinality(S) - 1 /\ Cardinality(S) \in Nat
    BY <2>2, FiniteThreads
  <2>4. Cardinality(S \ {th}) = 0 /\ S \ {th} \in SUBSET Threads
    BY <2>1, <2>2, <2>3
  <2>5. S \ {th} = {}
    BY <2>4, FiniteThreads
  <2> QED BY <1>4, <2>5
<1>5. TypeOK'
  BY <1>0, <1>3 DEF GateInv, TypeOK, Stages, storage
<1>6. Staged'
  <2>1. OthersStand(th)
    BY <1>0, <1>2 DEF OthersStand
  <2>2. pc'[th] = "free" /\ Key(th)' = Key(th)
    BY <1>0, <1>2
  <2>3. StageOf(th)'
    BY <1>0, <2>2 DEF GateInv, Staged, StageOf, Shut
  <2> QED BY <2>1, <2>3, StagedByOne DEF GateInv
<1>7. Referenced'
  <2> SUFFICES ASSUME NEW q \in Threads, NEW x \in Keys
               PROVE  /\ x \in acquired[q] => lease[q][x] # NoGate
                      /\ lease[q][x] # NoGate =>
                            /\ x \in KeysOf(q)
                            /\ lease[q][x] = mapped'[x] \/ (pc'[q] = "free" /\ Key(q) = x)
    BY <1>0, <1>2 DEF Referenced
  <2>1. /\ x \in acquired[q] => lease[q][x] # NoGate
        /\ lease[q][x] # NoGate =>
              /\ x \in KeysOf(q)
              /\ lease[q][x] = mapped[x] \/ (pc[q] = "free" /\ Key(q) = x)
    BY DEF GateInv, Referenced
  <2>2. CASE q = th
    BY <1>k, <1>0, <1>3, <2>1, <2>2
  <2>3. CASE q # th
    BY <1>2, <1>3, <1>4, <2>1, <2>3
  <2> QED BY <2>2, <2>3
<1>8. \A x \in Keys : Readers(x)' = Readers(x) /\ Waiters(x)' = Waiters(x)
  BY <1>0, <1>2 DEF Readers, Waiters
<1>9. \A x \in Keys : mapped'[x] # NoGate => mapped'[x] = mapped[x]
  BY <1>3
<1>10. Counted'
  BY <1>0, <1>8, <1>9 DEF GateInv, Counted
<1>11. Settling'
  <2> SUFFICES ASSUME NEW q \in settling
               PROVE  /\ Kind[q] = "ack" /\ pc'[q] \in {"settled", "drop"}
                      /\ Path[q][1] \in acquired[q]
                      /\ gate[Path[q][1]][mapped'[Path[q][1]]].held
    BY <1>0 DEF Settling
  <2>1. q \in Threads /\ q # th /\ Path[q][1] \in Keys
    BY <1>0, PathFacts
  <2>2. /\ Kind[q] = "ack" /\ pc[q] \in {"settled", "drop"} /\ Path[q][1] \in acquired[q]
        /\ gate[Path[q][1]][mapped[Path[q][1]]].held
    BY DEF GateInv, Settling
  <2>3. lease[q][Path[q][1]] = mapped[Path[q][1]]
    BY <2>1, <2>2, AtGate
  <2>4. mapped'[Path[q][1]] = mapped[Path[q][1]]
    BY <1>3, <1>4, <2>1, <2>3
  <2> QED BY <1>2, <2>1, <2>2, <2>4
<1> QED BY <1>0, <1>5, <1>6, <1>7, <1>10, <1>11 DEF GateInv, CutoverExcludes, SettlementExclusive

\* The reference goes; the thread drops its next lease, or is done.
LEMMA DropReferenceKeeps ==
    ASSUME GateInv, NEW th \in Threads, DropReference(th)
    PROVE  GateInv'
<1>k. PICK k \in Keys : k = Key(th)
  BY KeyFacts DEF GateInv
<1>0. /\ pc[th] = "free" /\ th \notin settling
      /\ lease \in [Threads -> [Keys -> Gens \cup {NoGate}]] /\ pc \in [Threads -> Stages]
      /\ settling \subseteq Threads /\ permits' \subseteq Threads
      /\ lease' = [lease EXCEPT ![th][k] = NoGate]
      /\ UNCHANGED <<mapped, gate, acquired, settling, at, intent, view, inactive, fenced, storage>>
  BY <1>k, NotSettling DEF DropReference, GateInv, TypeOK
<1>1. PICK where \in {"idle", "drop"} :
        /\ pc' = [pc EXCEPT ![th] = where]
        /\ where = "idle" <=> Leases(th) = {at[th]}
  BY DEF DropReference, Goto
<1>2. k \notin acquired[th] /\ lease[th][k] # NoGate /\ at[th] \in Leases(th)
  BY <1>k, <1>0, KeyFacts DEF GateInv, Staged, StageOf, Leases, Key
<1>3. \A x \in Keys : lease'[th][x] = IF x = k THEN NoGate ELSE lease[th][x]
  BY <1>0
<1>4. \A q \in Threads : q # th => lease'[q] = lease[q] /\ pc'[q] = pc[q]
  BY <1>0, <1>1
<1>5. pc'[th] = where /\ \A q \in Threads : Key(q)' = Key(q)
  BY <1>0, <1>1 DEF Key
<1>6. TypeOK'
  <2>1. lease' \in [Threads -> [Keys -> Gens \cup {NoGate}]] /\ pc' \in [Threads -> Stages]
    BY <1>0, <1>1 DEF Stages
  <2> QED BY <1>0, <2>1 DEF GateInv, TypeOK, storage
<1>7. acquired[th] \subseteq {Path[th][i] : i \in Leases(th) \ {at[th]}}
  <2> SUFFICES ASSUME NEW x \in acquired[th] PROVE x \in {Path[th][i] : i \in Leases(th) \ {at[th]}}
    OBVIOUS
  <2>1. x \in Keys /\ x # k
    BY <1>2 DEF GateInv, TypeOK
  <2>2. lease[th][x] # NoGate /\ x \in KeysOf(th)
    BY <2>1 DEF GateInv, Referenced
  <2> QED BY <1>k, <2>1, <2>2 DEF KeysOf, Leases, Key
<1>8. Leases(th) # {at[th]} => Leases(th)' # {}
  <2> SUFFICES ASSUME NEW i \in Leases(th), i # at[th] PROVE i \in Leases(th)'
    BY <1>2
  <2>1. i \in DOMAIN Path[th] /\ Path[th][i] \in Keys /\ lease[th][Path[th][i]] # NoGate
    BY PathFacts DEF Leases
  <2>2. Path[th][i] # k
    BY <1>k, <2>1, PathFacts, KeyFacts DEF GateInv, Key
  <2> QED BY <1>3, <2>1, <2>2 DEF Leases
<1>9. Staged'
  <2>1. OthersStand(th)
    BY <1>0, <1>4 DEF OthersStand
  <2>2. where = "idle" => acquired'[th] = {}
    BY <1>0, <1>1, <1>7
  <2>3. StageOf(th)'
    BY <1>1, <1>5, <1>8, <2>2 DEF StageOf, Shut
  <2> QED BY <2>1, <2>3, StagedByOne DEF GateInv
<1>10. Referenced'
  <2> SUFFICES ASSUME NEW q \in Threads, NEW x \in Keys
               PROVE  /\ x \in acquired[q] => lease'[q][x] # NoGate
                      /\ lease'[q][x] # NoGate =>
                            /\ x \in KeysOf(q)
                            /\ lease'[q][x] = mapped[x] \/ (pc'[q] = "free" /\ Key(q) = x)
    BY <1>0, <1>5 DEF Referenced
  <2>1. /\ x \in acquired[q] => lease[q][x] # NoGate
        /\ lease[q][x] # NoGate =>
              /\ x \in KeysOf(q)
              /\ lease[q][x] = mapped[x] \/ (pc[q] = "free" /\ Key(q) = x)
    BY DEF GateInv, Referenced
  <2>2. CASE q = th
    BY <1>k, <1>2, <1>3, <2>1, <2>2
  <2>3. CASE q # th
    BY <1>4, <2>1, <2>3
  <2> QED BY <2>2, <2>3
<1>11. \A x \in Keys : Readers(x)' = Readers(x) /\ Waiters(x)' = Waiters(x)
  BY <1>0, <1>1, <1>4, <1>5 DEF Readers, Waiters
<1>12. Counted'
  BY <1>0, <1>11 DEF GateInv, Counted
<1>13. Settling'
  BY <1>0, <1>4 DEF GateInv, Settling
<1> QED BY <1>0, <1>6, <1>9, <1>10, <1>12, <1>13 DEF GateInv, CutoverExcludes, SettlementExclusive

-----------------------------------------------------------------------------
(* The whole system.                                                       *)

\* The initial state and the state after a restart: no gate, no lease.
LEMMA NothingHeld ==
    ASSUME TypeOK, mapped = [k \in Keys |-> NoGate],
           lease = [th \in Threads |-> [k \in Keys |-> NoGate]],
           acquired = [th \in Threads |-> {}], settling = {}, pc = [th \in Threads |-> "idle"]
    PROVE  GateInv
<1>1. Staged
  BY DEF Staged, StageOf, Shut
<1>2. Referenced /\ Counted
  BY DEF Referenced, Counted
<1> QED BY <1>1, <1>2 DEF GateInv, Settling, CutoverExcludes, SettlementExclusive

LEMMA FreshTypes ==
    /\ [k \in Keys |-> [g \in Gens |-> FreshGate]] \in [Keys -> [Gens -> GateStates]]
    /\ \A th \in Threads : 1 \in DOMAIN Path[th]
BY PathFacts DEF FreshGate, GateStates

LEMMA InitGateInv == Init => GateInv
<1> SUFFICES ASSUME Init PROVE GateInv
  OBVIOUS
<1>1. gate \in [Keys -> [Gens -> GateStates]]
  BY FreshTypes DEF Init
<1>2. TypeOK
  BY <1>1, FreshTypes DEF Init, TypeOK, Stages, GateStates
<1> QED BY <1>2, NothingHeld DEF Init

LEMMA RestartKeeps ==
    ASSUME GateInv, Restart
    PROVE  GateInv'
<1>1. gate' \in [Keys -> [Gens -> GateStates]]
  BY FreshTypes DEF Restart
<1>2. TypeOK'
  BY <1>1 DEF GateInv, Restart, TypeOK, Stages, storage, GateStates
<1>3. Staged'
  BY DEF Restart, Staged, StageOf, Shut
<1>4. Referenced' /\ Counted'
  BY DEF Restart, Referenced, Counted
<1> QED BY <1>2, <1>3, <1>4 DEF Restart, GateInv, Settling, CutoverExcludes, SettlementExclusive

LEMMA NextGateInv == GateInv /\ [Next]_vars => GateInv'
<1> SUFFICES ASSUME GateInv, [Next]_vars PROVE GateInv'
  OBVIOUS
<1>1. CASE UNCHANGED vars
  <2>1. UNCHANGED <<mapped, gate, lease, acquired, settling, permits, pc, at, intent, view,
                    inactive, fenced, migrated, rows, captured>>
    BY <1>1 DEF vars, gates, storage
  <2>2. TypeOK' /\ CutoverExcludes' /\ SettlementExclusive' /\ Settling'
    BY <2>1 DEF GateInv, TypeOK, CutoverExcludes, Settling, SettlementExclusive
  <2>3. \A th \in Threads : Before(th)' = Before(th) /\ UpTo(th)' = UpTo(th)
                             /\ Key(th)' = Key(th) /\ Leases(th)' = Leases(th)
    BY <2>1 DEF Before, UpTo, Key, Leases
  <2>4. Staged' /\ Referenced'
    BY <2>1, <2>3 DEF GateInv, Staged, StageOf, Referenced
  <2>5. \A k \in Keys : Readers(k)' = Readers(k) /\ Waiters(k)' = Waiters(k)
    BY <2>1, <2>3 DEF Readers, Waiters
  <2>6. Counted'
    BY <2>1, <2>5 DEF GateInv, Counted
  <2> QED BY <2>2, <2>4, <2>6 DEF GateInv
<1>2. CASE Restart
  BY <1>2, RestartKeeps
<1>3. ASSUME NEW th \in Threads, Begin(th) \/ Runs(th) \/ WriterTimeout(th) \/ SettleTimeout(th)
      PROVE  GateInv'
  <2>1. CASE Begin(th)
    BY <2>1, BeginKeeps
  <2>2. CASE Lookup(th) \/ LookupFenced(th)
    BY <2>2, LookupKeeps, GiveUpKeeps DEF LookupFenced
  <2>3. CASE EnterReader(th) \/ EnterWriter(th) \/ TakeWriter(th) \/ WriterTimeout(th)
    BY <2>3, EnterReaderKeeps, WriterKeeps
  <2>4. CASE Check(th) \/ Permit(th)
    BY <2>4, CheckKeeps, PermitKeeps
  <2>5. CASE \/ Store(th) \/ StoreFails(th) \/ SettleTimeout(th) \/ Settled(th)
             \/ Capture(th) \/ Commit(th) \/ CommitFails(th) \/ Cache(th)
    BY <2>5, WorkKeeps
  <2>6. CASE Settle(th) \/ Release(th) \/ Unmap(th) \/ DropReference(th)
    BY <2>6, SettleKeeps, ReleaseKeeps, UnmapKeeps, DropReferenceKeeps
  <2> QED BY <1>3, <2>1, <2>2, <2>3, <2>4, <2>5, <2>6 DEF Runs
<1> QED BY <1>1, <1>2, <1>3 DEF Next

LEMMA GateInvHolds == Spec => []GateInv
BY InitGateInv, NextGateInv, PTL DEF Spec

\* Every gate counts its readers and its queue without ever going below zero,
\* and a thread stands at a key of its own path (State and the Drop of a lease
\* in submission_barrier.rs).
THEOREM TypeCorrect == Spec => []TypeOK
<1>1. GateInv => TypeOK
  BY DEF GateInv
<1> QED BY <1>1, GateInvHolds, PTL

\* No operation holds a mailbox or a root together with a cutover, although the
\* gate of a key is removed from the map and replaced while leases come and go
\* (TargetGates::acquire, drop of a lease).
THEOREM CutoversExclude == Spec => []CutoverExcludes
<1>1. GateInv => CutoverExcludes
  BY DEF GateInv
<1> QED BY <1>1, GateInvHolds, PTL

\* Two receivers never settle one mailbox at once (acquire_acknowledgement).
THEOREM SettlementsExclude == Spec => []SettlementExclusive
<1>1. GateInv => SettlementExclusive
  BY DEF GateInv
<1> QED BY <1>1, GateInvHolds, PTL

-----------------------------------------------------------------------------
(* Admission and the backlog.                                              *)

Arriving == {"permit", "lookup", "enter", "check"}

\* The keys a submission has checked are at home, and so are those of an
\* activation that still has to take them out of the caches.
HomeOf(th) ==
    ~fenced =>
        /\ Kind[th] = "submit" /\ pc[th] \in Arriving => Before(th) \cap migrated = {}
        /\ pc[th] = "admitted" => KeysOf(th) \cap migrated = {}
        /\ pc[th] = "cache" /\ intent[th] = "activate" => KeysOf(th) \cap migrated = {}

\* What a cutover captured is still all there is when it commits.
ViewOf(th) ==
    pc[th] = "commit" /\ intent[th] = "commit" =>
        \A t \in KeysOf(th) \cap Mailboxes : view[th][t] = rows[t]

\* A key that moved away is in the caches, or the cutover that moved it is about
\* to put it there and still holds the key.
Cached ==
    ~fenced => \A k \in migrated : k \in inactive \/
        \E c \in Threads : pc[c] = "cache" /\ intent[c] = "commit" /\ k \in KeysOf(c)

AdmitInv ==
    /\ \A th \in Threads : HomeOf(th) /\ ViewOf(th)
    /\ Cached
    /\ BacklogComplete

\* An operation past its last gate holds its whole path.
LEMMA HoldsAll ==
    ASSUME GateInv, NEW th \in Threads, pc[th] \in Shut
    PROVE  acquired[th] = KeysOf(th) /\ Key(th) \in acquired[th]
BY KeyFacts DEF GateInv, Staged, StageOf

\* A cutover past its last gate has nobody else on its path.
LEMMA CutoverAlone ==
    ASSUME GateInv, NEW c \in Threads, pc[c] \in {"capture", "commit", "cache"},
           NEW q \in Threads, q # c
    PROVE  KeysOf(c) \cap acquired[q] = {}
BY HoldsAll DEF GateInv, Staged, StageOf, CutoverExcludes, Shut

\* A step of one thread on which storage, the caches and the fence do not depend.
Quiet(th) ==
    /\ \A q \in Threads : q # th => /\ pc'[q] = pc[q] /\ at'[q] = at[q] /\ intent'[q] = intent[q]
                                    /\ view'[q] = view[q]
    /\ UNCHANGED <<inactive, fenced, storage>>
    /\ pc[th] # "cache" /\ pc'[th] # "cache"

LEMMA QuietKeeps ==
    ASSUME AdmitInv, NEW th \in Threads, Quiet(th), HomeOf(th)', ViewOf(th)'
    PROVE  AdmitInv'
<1>1. UNCHANGED <<inactive, fenced, migrated, rows, captured>>
  BY DEF Quiet, storage
<1>2. \A q \in Threads : HomeOf(q)' /\ ViewOf(q)'
  <2> SUFFICES ASSUME NEW q \in Threads, q # th PROVE HomeOf(q)' /\ ViewOf(q)'
    OBVIOUS
  <2>1. pc'[q] = pc[q] /\ at'[q] = at[q] /\ intent'[q] = intent[q] /\ view'[q] = view[q]
    BY DEF Quiet
  <2>2. Before(q)' = Before(q)
    BY <2>1 DEF Before
  <2> QED BY <1>1, <2>1, <2>2 DEF AdmitInv, HomeOf, ViewOf
<1>3. Cached'
  BY <1>1 DEF AdmitInv, Cached, Quiet
<1>4. BacklogComplete'
  BY <1>1 DEF AdmitInv, BacklogComplete
<1> QED BY <1>2, <1>3, <1>4 DEF AdmitInv

\* Arriving at a gate, and leaving.
LEMMA MovesKeep ==
    ASSUME GateInv, AdmitInv, NEW th \in Threads,
           \/ Begin(th) \/ Lookup(th) \/ LookupFenced(th) \/ EnterReader(th) \/ EnterWriter(th)
           \/ TakeWriter(th) \/ WriterTimeout(th) \/ Permit(th) \/ Settle(th) \/ SettleTimeout(th)
           \/ Settled(th) \/ Release(th) \/ Unmap(th) \/ DropReference(th)
    PROVE  AdmitInv'
<1>0. /\ pc \in [Threads -> Stages] /\ at \in [Threads -> Nat]
      /\ intent \in [Threads -> {"commit", "activate"}] /\ UNCHANGED view
  BY DEF GateInv, TypeOK, Begin, Lookup, LookupFenced, EnterReader, EnterWriter, TakeWriter,
         WriterTimeout, Permit, Settle, SettleTimeout, Settled, Release, Unmap, DropReference
<1>1. CASE Begin(th)
  <2>1. /\ at'[th] = 1 /\ pc'[th] \in {"permit", "lookup"} /\ pc[th] = "idle"
        /\ \A q \in Threads : q # th => pc'[q] = pc[q] /\ at'[q] = at[q] /\ intent'[q] = intent[q]
        /\ UNCHANGED <<inactive, fenced, storage>>
    BY <1>0, <1>1 DEF Begin, Goto
  <2>2. Quiet(th)
    BY <1>0, <2>1 DEF Quiet
  <2>3. Before(th)' = {}
    BY <2>1 DEF Before
  <2>4. HomeOf(th)' /\ ViewOf(th)'
    BY <2>1, <2>3 DEF HomeOf, ViewOf
  <2> QED BY <2>2, <2>4, QuietKeeps
<1>2. CASE Lookup(th) \/ EnterReader(th) \/ Permit(th) \/ LookupFenced(th)
  <2>1. /\ UNCHANGED <<at, intent, inactive, fenced, storage>> /\ pc[th] \in Arriving
        /\ \E where \in Arriving \cup {"settle", "drop", "idle"} : pc' = [pc EXCEPT ![th] = where]
    BY <1>2 DEF Lookup, EnterReader, Permit, LookupFenced, GiveUp, Goto, Arriving
  <2>2. Quiet(th)
    BY <1>0, <2>1 DEF Quiet, Arriving
  <2>3. pc'[th] \in Arriving \cup {"settle", "drop", "idle"} /\ Before(th)' = Before(th)
    BY <1>0, <2>1 DEF Before
  <2>4. UNCHANGED <<fenced, migrated>> /\ HomeOf(th)
    BY <2>1 DEF storage, AdmitInv
  <2>5. HomeOf(th)' /\ ViewOf(th)'
    BY <2>1, <2>3, <2>4 DEF HomeOf, ViewOf, Arriving
  <2> QED BY <2>2, <2>5, QuietKeeps
<1>3. CASE EnterWriter(th) \/ TakeWriter(th)
  <2>1. /\ UNCHANGED <<intent, inactive, fenced, storage>> /\ pc[th] \in {"enter", "wait"}
        /\ Kind[th] = "cutover"
        /\ \E where \in {"capture", "commit", "lookup", "wait"} :
              /\ pc' = [pc EXCEPT ![th] = where]
              /\ where = "commit" => intent[th] # "commit"
        /\ at' = at \/ \E i : at' = [at EXCEPT ![th] = i]
    BY <1>3 DEF EnterWriter, TakeWriter, Own, Goto, GateInv, Staged, StageOf
  <2>2. Quiet(th)
    BY <1>0, <2>1 DEF Quiet
  <2>3. pc'[th] \in {"capture", "commit", "lookup", "wait"}
        /\ (pc'[th] = "commit" => intent'[th] # "commit")
    BY <1>0, <2>1
  <2>4. HomeOf(th)' /\ ViewOf(th)'
    BY <2>1, <2>3 DEF HomeOf, ViewOf
  <2> QED BY <2>2, <2>4, QuietKeeps
<1>4. CASE \/ WriterTimeout(th) \/ Settle(th) \/ SettleTimeout(th) \/ Settled(th) \/ Release(th)
           \/ Unmap(th) \/ DropReference(th)
  <2>1. /\ UNCHANGED <<intent, inactive, fenced, storage>>
        /\ pc[th] \in {"wait", "settle", "settled", "drop", "unmap", "free"}
        /\ \E where \in {"drop", "settled", "unmap", "free", "idle"} : pc' = [pc EXCEPT ![th] = where]
        /\ at' = at \/ \E i : at' = [at EXCEPT ![th] = i]
    BY <1>4 DEF WriterTimeout, Settle, SettleTimeout, Settled, Release, Unmap, DropReference, Goto
  <2>2. Quiet(th)
    BY <1>0, <2>1 DEF Quiet
  <2>3. pc'[th] \in {"drop", "settled", "unmap", "free", "idle"}
    BY <1>0, <2>1
  <2>4. HomeOf(th)' /\ ViewOf(th)'
    BY <2>3 DEF HomeOf, ViewOf, Arriving
  <2> QED BY <2>2, <2>4, QuietKeeps
<1> QED BY <1>1, <1>2, <1>3, <1>4

\* A key found out of the caches under its lease is at home: the cutover that
\* moved it would still hold the key.
LEMMA CheckedIsHome ==
    ASSUME GateInv, AdmitInv, NEW th \in Threads, pc[th] = "check", ~fenced,
           Key(th) \notin inactive
    PROVE  Key(th) \notin migrated
<1> SUFFICES ASSUME Key(th) \in migrated PROVE FALSE
  OBVIOUS
<1>1. PICK c \in Threads : pc[c] = "cache" /\ intent[c] = "commit" /\ Key(th) \in KeysOf(c)
  BY DEF AdmitInv, Cached
<1>2. Key(th) \in acquired[th]
  BY KeyFacts DEF GateInv, Staged, StageOf
<1>3. c # th
  BY <1>1
<1> QED BY <1>1, <1>2, <1>3, CutoverAlone

LEMMA CheckAdmits ==
    ASSUME GateInv, AdmitInv, NEW th \in Threads, Check(th)
    PROVE  AdmitInv'
<1>0. /\ pc \in [Threads -> Stages] /\ at \in [Threads -> Nat] /\ pc[th] = "check"
      /\ UNCHANGED <<view, intent, inactive, fenced, storage>>
  BY DEF GateInv, TypeOK, Check
<1>1. /\ \E where \in {"drop", "admitted", "permit"} : pc' = [pc EXCEPT ![th] = where]
      /\ at' = at \/ at' = [at EXCEPT ![th] = @ + 1]
  BY DEF Check, Goto
<1>2. Quiet(th)
  BY <1>0, <1>1 DEF Quiet
<1>3. UNCHANGED <<fenced, migrated>>
  BY <1>0 DEF storage
<1>4. ViewOf(th)' /\ pc'[th] \in {"drop", "admitted", "permit"}
  BY <1>0, <1>1 DEF ViewOf
<1>5. HomeOf(th)'
  <2> SUFFICES ASSUME ~fenced, pc'[th] # "drop"
               PROVE  /\ pc'[th] = "permit" => Before(th)' \cap migrated = {}
                      /\ pc'[th] = "admitted" => KeysOf(th) \cap migrated = {}
    BY <1>3, <1>4 DEF HomeOf, Arriving
  <2>1. Key(th) \notin inactive
    BY <1>0 DEF Check, Goto
  <2>2. UpTo(th) \cap migrated = {}
    <3>1. Before(th) \cap migrated = {}
      BY <1>0 DEF AdmitInv, HomeOf, Arriving, GateInv, Staged, StageOf
    <3>2. Key(th) \notin migrated
      BY <1>0, <2>1, CheckedIsHome
    <3> QED BY <3>1, <3>2, KeyFacts DEF GateInv
  <2>3. CASE pc'[th] = "admitted"
    <3>1. at[th] = Len(Path[th])
      BY <1>0, <2>3 DEF Check, Goto
    <3> QED BY <2>2, <2>3, <3>1, KeyFacts DEF GateInv
  <2>4. CASE pc'[th] = "permit"
    <3>1. at'[th] = at[th] + 1 /\ at[th] \in Nat
      BY <1>0, <2>4 DEF Check, Goto
    <3>2. Before(th)' = UpTo(th)
      BY <3>1 DEF Before, UpTo
    <3> QED BY <2>2, <2>4, <3>2
  <2> QED BY <1>4, <2>3, <2>4
<1> QED BY <1>2, <1>4, <1>5, QuietKeeps

\* A submission is stored: its mailbox is at home and no cutover has captured it.
LEMMA StoreAdmits ==
    ASSUME GateInv, AdmitInv, NEW th \in Threads, Store(th) \/ StoreFails(th)
    PROVE  AdmitInv'
<1>0. /\ pc \in [Threads -> Stages] /\ rows \in [Mailboxes -> SUBSET Threads] /\ pc[th] = "admitted"
      /\ pc' = [pc EXCEPT ![th] = "drop"] /\ (fenced => fenced')
      /\ UNCHANGED <<at, view, intent, inactive, migrated, captured>>
  BY DEF GateInv, TypeOK, Store, StoreFails, Goto
<1>1. rows' = rows \/ (~fenced /\ rows' = [rows EXCEPT ![Key(th)] = @ \cup {th}])
  BY DEF Store, StoreFails
<1>2. \A t \in Mailboxes : rows'[t] = rows[t] \/ (~fenced /\ t = Key(th))
  BY <1>0, <1>1
<1>3. Key(th) \in acquired[th] /\ acquired[th] = KeysOf(th)
  BY <1>0, HoldsAll DEF Shut
<1>4. \A q \in Threads : HomeOf(q)' /\ ViewOf(q)'
  <2> SUFFICES ASSUME NEW q \in Threads PROVE HomeOf(q)' /\ ViewOf(q)'
    OBVIOUS
  <2>1. CASE q = th
    BY <1>0, <2>1 DEF HomeOf, ViewOf, Arriving
  <2>2. CASE q # th
    <3>1. pc'[q] = pc[q] /\ Before(q)' = Before(q)
      BY <1>0, <2>2 DEF Before
    <3>2. HomeOf(q)'
      BY <1>0, <3>1 DEF AdmitInv, HomeOf
    <3>3. ViewOf(q)'
      <4> SUFFICES ASSUME pc[q] = "commit", intent[q] = "commit", NEW t \in KeysOf(q) \cap Mailboxes
                   PROVE  view[q][t] = rows'[t]
        BY <1>0, <3>1 DEF ViewOf
      <4>1. view[q][t] = rows[t]
        BY DEF AdmitInv, ViewOf
      <4>2. t # Key(th)
        BY <1>3, <2>2, CutoverAlone
      <4> QED BY <1>2, <4>1, <4>2
    <3> QED BY <3>2, <3>3
  <2> QED BY <2>1, <2>2
<1>5. Cached'
  BY <1>0 DEF AdmitInv, Cached
<1>6. BacklogComplete'
  <2> SUFFICES ASSUME NEW t \in Mailboxes \cap migrated PROVE rows'[t] = captured[t]
    BY <1>0 DEF BacklogComplete
  <2>1. rows[t] = captured[t]
    BY DEF AdmitInv, BacklogComplete
  <2>2. ~fenced => t # Key(th)
    BY <1>0, <1>3 DEF AdmitInv, HomeOf
  <2> QED BY <1>2, <2>1, <2>2
<1> QED BY <1>4, <1>5, <1>6 DEF AdmitInv

\* The transaction of a cutover moves the keys it holds, nobody else's.
LEMMA TransitionAdmits ==
    ASSUME GateInv, AdmitInv, NEW th \in Threads, pc[th] = "commit", ~fenced, Transition(th),
           \/ fenced' /\ Goto(th, "drop")
           \/ ~fenced' /\ Goto(th, "cache"),
           UNCHANGED <<gates, at, intent, view, inactive>>
    PROVE  AdmitInv'
<1>0. /\ pc \in [Threads -> Stages] /\ intent \in [Threads -> {"commit", "activate"}]
      /\ captured \in [Mailboxes -> SUBSET Threads] /\ rows' = rows
      /\ \E where \in {"drop", "cache"} : /\ pc' = [pc EXCEPT ![th] = where]
                                          /\ where = "cache" <=> ~fenced'
  BY DEF GateInv, TypeOK, Transition, Goto
<1>1. /\ pc'[th] \in {"drop", "cache"} /\ (pc'[th] = "cache" <=> ~fenced')
      /\ \A q \in Threads : q # th => pc'[q] = pc[q]
  BY <1>0
<1>2. \A k : k \in migrated' /\ k \notin migrated => k \in KeysOf(th) /\ intent[th] = "commit"
  BY DEF Transition
<1>3. intent[th] = "activate" => KeysOf(th) \cap migrated' = {}
  BY DEF Transition
<1>4. \A q \in Threads : q # th => KeysOf(th) \cap acquired[q] = {}
  BY CutoverAlone
<1>5. \A q \in Threads : HomeOf(q)' /\ ViewOf(q)'
  <2> SUFFICES ASSUME NEW q \in Threads PROVE HomeOf(q)' /\ ViewOf(q)'
    OBVIOUS
  <2>1. CASE q = th
    BY <1>1, <1>3, <2>1 DEF HomeOf, ViewOf, Arriving
  <2>2. CASE q # th
    <3>1. pc'[q] = pc[q] /\ Before(q)' = Before(q)
      BY <1>1, <2>2 DEF Before
    <3>2. ViewOf(q)'
      BY <1>0, <3>1 DEF AdmitInv, ViewOf
    <3>3. HomeOf(q)'
      <4>1. HomeOf(q) /\ ~fenced
        BY DEF AdmitInv
      <4>2. Kind[q] = "submit" /\ pc[q] \in Arriving => Before(q) \subseteq acquired[q]
        BY KeyFacts DEF GateInv, Staged, StageOf, Arriving
      <4>3. pc[q] \in {"admitted", "cache"} => acquired[q] = KeysOf(q)
        BY HoldsAll DEF Shut
      <4> QED BY <1>2, <1>4, <2>2, <3>1, <4>1, <4>2, <4>3 DEF HomeOf
    <3> QED BY <3>2, <3>3
  <2> QED BY <2>1, <2>2
<1>6. Cached'
  <2> SUFFICES ASSUME ~fenced', NEW k \in migrated', k \notin inactive
               PROVE  \E c \in Threads : pc'[c] = "cache" /\ intent[c] = "commit" /\ k \in KeysOf(c)
    BY DEF Cached
  <2>1. CASE k \in migrated
    BY <1>1, <2>1 DEF AdmitInv, Cached
  <2>2. CASE k \notin migrated
    BY <1>1, <1>2, <2>2
  <2> QED BY <2>1, <2>2
<1>7. BacklogComplete'
  <2> SUFFICES ASSUME NEW t \in Mailboxes, t \in migrated' PROVE rows[t] = captured'[t]
    BY <1>0 DEF BacklogComplete
  <2>1. CASE intent[th] = "commit" /\ t \in KeysOf(th)
    BY <2>1 DEF Transition, AdmitInv, ViewOf
  <2>2. CASE ~(intent[th] = "commit" /\ t \in KeysOf(th))
    <3>1. t \in migrated /\ captured'[t] = captured[t]
      BY <1>0, <1>2, <2>2 DEF Transition
    <3> QED BY <3>1 DEF AdmitInv, BacklogComplete
  <2> QED BY <2>1, <2>2
<1> QED BY <1>5, <1>6, <1>7 DEF AdmitInv

LEMMA CutoverAdmits ==
    ASSUME GateInv, AdmitInv, NEW th \in Threads, Capture(th) \/ Commit(th) \/ CommitFails(th)
    PROVE  AdmitInv'
<1>0. /\ pc \in [Threads -> Stages] /\ view \in [Threads -> [Mailboxes -> SUBSET Threads]]
      /\ fenced \in BOOLEAN
  BY DEF GateInv, TypeOK
<1>1. CASE Capture(th)
  <2>1. /\ pc[th] = "capture" /\ pc' = [pc EXCEPT ![th] = "commit"]
        /\ view' = [view EXCEPT ![th] = rows]
        /\ UNCHANGED <<at, intent, inactive, fenced, storage>>
    BY <1>1 DEF Capture, Goto
  <2>2. Quiet(th)
    BY <1>0, <2>1 DEF Quiet
  <2>3. pc'[th] = "commit" /\ view'[th] = rows /\ rows' = rows
    BY <1>0, <2>1 DEF storage
  <2>4. HomeOf(th)' /\ ViewOf(th)'
    BY <2>3 DEF HomeOf, ViewOf, Arriving
  <2> QED BY <2>2, <2>4, QuietKeeps
<1>2. CASE (Commit(th) \/ CommitFails(th)) /\ ~UNCHANGED storage
  BY <1>0, <1>2, TransitionAdmits DEF Commit, CommitFails
<1>3. CASE (Commit(th) \/ CommitFails(th)) /\ UNCHANGED storage
  <2>1. /\ pc[th] = "commit" /\ UNCHANGED <<at, intent, view, inactive, migrated, rows, captured>>
        /\ (fenced => fenced')
        /\ \E where \in {"drop", "cache"} :
              /\ pc' = [pc EXCEPT ![th] = where]
              /\ where = "cache" => ~fenced /\ Transition(th) /\ ~fenced' /\ UNCHANGED gates
    BY <1>0, <1>3 DEF Commit, CommitFails, Goto, storage
  <2>2. CASE pc' = [pc EXCEPT ![th] = "drop"]
    <3>1. \A q \in Threads : HomeOf(q)' /\ ViewOf(q)'
      <4> SUFFICES ASSUME NEW q \in Threads PROVE HomeOf(q)' /\ ViewOf(q)'
        OBVIOUS
      <4>1. pc'[q] = (IF q = th THEN "drop" ELSE pc[q]) /\ Before(q)' = Before(q)
        BY <1>0, <2>1, <2>2 DEF Before
      <4> QED BY <2>1, <4>1 DEF AdmitInv, HomeOf, ViewOf, Arriving
    <3>2. Cached' /\ BacklogComplete'
      BY <1>0, <2>1, <2>2 DEF AdmitInv, Cached, BacklogComplete
    <3> QED BY <3>1, <3>2 DEF AdmitInv
  <2>3. CASE pc' = [pc EXCEPT ![th] = "cache"]
    <3>1. ~fenced /\ Transition(th) /\ ~fenced' /\ UNCHANGED gates /\ Goto(th, "cache")
      <4>1. "cache" # "drop" /\ pc'[th] = "cache"
        BY <1>0, <2>3
      <4> QED BY <1>0, <2>1, <4>1 DEF Goto
    <3> QED BY <2>1, <3>1, TransitionAdmits
  <2> QED BY <2>1, <2>2, <2>3
<1> QED BY <1>1, <1>2, <1>3

\* The caches follow, under the same leases.
LEMMA CacheAdmits ==
    ASSUME GateInv, AdmitInv, NEW th \in Threads, Cache(th)
    PROVE  AdmitInv'
<1>0. /\ pc \in [Threads -> Stages] /\ intent \in [Threads -> {"commit", "activate"}]
      /\ pc[th] = "cache" /\ pc' = [pc EXCEPT ![th] = "drop"]
      /\ UNCHANGED <<at, intent, view, fenced, migrated, rows, captured>>
  BY DEF GateInv, TypeOK, Cache, Goto, storage
<1>1. \A q \in Threads : HomeOf(q)' /\ ViewOf(q)'
  <2> SUFFICES ASSUME NEW q \in Threads PROVE HomeOf(q)' /\ ViewOf(q)'
    OBVIOUS
  <2>1. pc'[q] = (IF q = th THEN "drop" ELSE pc[q]) /\ Before(q)' = Before(q)
    BY <1>0 DEF Before
  <2> QED BY <1>0, <2>1 DEF AdmitInv, HomeOf, ViewOf, Arriving
<1>2. Cached'
  <2> SUFFICES ASSUME ~fenced, NEW k \in migrated, k \notin inactive'
               PROVE  \E c \in Threads : pc'[c] = "cache" /\ intent[c] = "commit" /\ k \in KeysOf(c)
    BY <1>0 DEF Cached
  <2>1. inactive' = IF intent[th] = "commit" THEN inactive \cup KeysOf(th)
                    ELSE inactive \ KeysOf(th)
    BY DEF Cache
  <2>2. intent[th] = "activate" => k \notin KeysOf(th)
    BY <1>0 DEF AdmitInv, HomeOf
  <2>3. k \notin inactive /\ (intent[th] = "commit" => k \notin KeysOf(th))
    BY <1>0, <2>1, <2>2
  <2>4. PICK c \in Threads : pc[c] = "cache" /\ intent[c] = "commit" /\ k \in KeysOf(c)
    BY <2>3 DEF AdmitInv, Cached
  <2>5. c # th
    BY <2>3, <2>4
  <2> QED BY <1>0, <2>4, <2>5
<1>3. BacklogComplete'
  BY <1>0 DEF AdmitInv, BacklogComplete
<1> QED BY <1>1, <1>2, <1>3 DEF AdmitInv

LEMMA InitAdmitInv == Init => AdmitInv
BY DEF Init, AdmitInv, HomeOf, ViewOf, Cached, BacklogComplete, Arriving

LEMMA NextAdmitInv == GateInv /\ AdmitInv /\ [Next]_vars => AdmitInv'
<1> SUFFICES ASSUME GateInv, AdmitInv, [Next]_vars PROVE AdmitInv'
  OBVIOUS
<1>1. CASE UNCHANGED vars
  <2>1. UNCHANGED <<pc, at, intent, view, inactive, fenced, migrated, rows, captured>>
    BY <1>1 DEF vars, storage
  <2>2. \A th \in Threads : Before(th)' = Before(th)
    BY <2>1 DEF Before
  <2> QED BY <2>1, <2>2 DEF AdmitInv, HomeOf, ViewOf, Cached, BacklogComplete
<1>2. CASE Restart
  <2>1. /\ pc' = [th \in Threads |-> "idle"] /\ inactive' = migrated
        /\ UNCHANGED <<migrated, rows, captured>>
    BY <1>2 DEF Restart, storage
  <2> QED BY <2>1 DEF AdmitInv, HomeOf, ViewOf, Cached, BacklogComplete, Arriving
<1>3. ASSUME NEW th \in Threads, Begin(th) \/ Runs(th) \/ WriterTimeout(th) \/ SettleTimeout(th)
      PROVE  AdmitInv'
  <2>1. CASE Check(th)
    BY <2>1, CheckAdmits
  <2>2. CASE Store(th) \/ StoreFails(th)
    BY <2>2, StoreAdmits
  <2>3. CASE Capture(th) \/ Commit(th) \/ CommitFails(th)
    BY <2>3, CutoverAdmits
  <2>4. CASE Cache(th)
    BY <2>4, CacheAdmits
  <2> QED BY <1>3, <2>1, <2>2, <2>3, <2>4, MovesKeep DEF Runs
<1> QED BY <1>1, <1>2, <1>3 DEF Next

LEMMA AdmitInvHolds == Spec => []AdmitInv
BY InitAdmitInv, NextAdmitInv, GateInvHolds, PTL DEF Spec

\* A submission past its checks whose process can still store finds its mailbox
\* and its root at home: acquire_submission reads the caches under the lease and
\* a cutover fills them under the barrier.
THEOREM AdmittedAtHome == Spec => []AdmittedIsHome
<1>1. AdmitInv => AdmittedIsHome
  BY DEF AdmitInv, HomeOf, AdmittedIsHome
<1> QED BY <1>1, AdmitInvHolds, PTL

\* The backlog committed with a migration is everything its mailboxes accepted:
\* nothing is stored between migration_backlog_barrier and the transaction, or
\* after it, over crashes and failed commits.
THEOREM BacklogsComplete == Spec => []BacklogComplete
<1>1. AdmitInv => BacklogComplete
  BY DEF AdmitInv
<1> QED BY <1>1, AdmitInvHolds, PTL
=============================================================================
