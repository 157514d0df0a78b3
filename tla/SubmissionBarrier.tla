-------------------------- MODULE SubmissionBarrier --------------------------
(***************************************************************************)
(* Admission leases of the router store                                    *)
(* (crates/ramflux-node-core/src/router_store/submission_barrier.rs): one  *)
(* gate per mailbox and per account root, taken as a reader by submissions *)
(* and acknowledgements and as a writer by a home-migration cutover.       *)
(*                                                                         *)
(* A gate is an object shared by reference count.  The map from keys to    *)
(* gates holds one reference, every lease one more; the last lease to      *)
(* leave removes the map entry.  A step is one critical section of the map *)
(* lock or of a gate's lock, one atomic drop of a reference, or one        *)
(* storage transaction.                                                    *)
(***************************************************************************)
EXTENDS Integers, Sequences, FiniteSets

CONSTANTS
    Threads,     \* operations in progress; each one repeats for ever
    Kind,        \* "submit", "ack" or "cutover"
    Roots,       \* account roots (migration_root_gates)
    Mailboxes,   \* delivery targets (submission_gates)
    Path,        \* the keys a thread acquires, in order
    Gens,        \* identities of gate objects of one key
    NoGate,      \* no gate: an empty map entry, a lease not created
    MaxPermits   \* permits of submission_admission

ASSUME KindAssumption == Kind \in [Threads -> {"submit", "ack", "cutover"}]
ASSUME PathAssumption ==
    \A th \in Threads : /\ Path[th] \in Seq(Roots \cup Mailboxes)
                        /\ Len(Path[th]) >= 1
                        /\ Kind[th] = "ack" => Len(Path[th]) = 1
                        /\ \A i, j \in DOMAIN Path[th] : Path[th][i] = Path[th][j] => i = j
ASSUME NoGateAssumption == NoGate \notin Gens
ASSUME ThreadAssumption == IsFiniteSet(Threads)
\* An allocation never returns a gate that a lease still refers to.
ASSUME AllocationAssumption ==
    \A used \in [Threads -> Gens \cup {NoGate}] : \E g \in Gens : \A th \in Threads : used[th] # g
ASSUME PermitAssumption == MaxPermits \in Nat

Keys == Roots \cup Mailboxes

VARIABLES
    mapped,     \* TargetGates: the gate of each key
    gate,       \* State of each gate object
    lease,      \* the gate each thread's lease of a key refers to
    acquired,   \* keys whose lease is acquired, per thread
    settling,   \* threads whose lease holds the settlement of its mailbox
    permits,    \* threads holding a permit of submission_admission
    pc, at,     \* where a thread is, and which key of its path it works on
    intent,     \* what a cutover wants: to commit the migration or to activate
    view,       \* the backlog a cutover captured
    inactive,   \* inactive_migration_roots and _targets, the caches
    fenced,     \* fatal_durability
    \* durable
    migrated,   \* keys whose home moved away
    rows,       \* submissions stored in each mailbox
    captured    \* the backlog scheduled with a committed migration

gates   == <<mapped, gate, lease, acquired>>
storage == <<migrated, rows, captured>>
vars == <<gates, settling, permits, pc, at, intent, view, inactive, fenced, storage>>

FreshGate == [readers |-> 0, writer |-> FALSE, waiting |-> 0, held |-> FALSE]

Key(th)    == Path[th][at[th]]
GateOf(th) == gate[Key(th)][lease[th][Key(th)]]

KeysOf(th) == {Path[th][i] : i \in DOMAIN Path[th]}

\* The gate of the key the thread works on, updated.
SetGate(th, new) ==
    gate' = [gate EXCEPT ![Key(th)][lease[th][Key(th)]] = new]

Leases(th) == {i \in DOMAIN Path[th] : lease[th][Path[th][i]] # NoGate}

StrongCount(k, g) ==
    Cardinality({th \in Threads : lease[th][k] = g}) + (IF mapped[k] = g THEN 1 ELSE 0)

Init ==
    /\ mapped = [k \in Keys |-> NoGate]
    /\ gate = [k \in Keys |-> [g \in Gens |-> FreshGate]]
    /\ lease = [th \in Threads |-> [k \in Keys |-> NoGate]]
    /\ acquired = [th \in Threads |-> {}]
    /\ settling = {} /\ permits = {}
    /\ pc = [th \in Threads |-> "idle"]
    /\ at = [th \in Threads |-> 1]
    /\ intent = [th \in Threads |-> "commit"]
    /\ view = [th \in Threads |-> [t \in Mailboxes |-> {}]]
    /\ inactive = {} /\ fenced = FALSE
    /\ migrated = {}
    /\ rows = [t \in Mailboxes |-> {}]
    /\ captured = [t \in Mailboxes |-> {}]

-----------------------------------------------------------------------------
(* TargetGates::acquire.                                                   *)

Goto(th, where) == pc' = [pc EXCEPT ![th] = where]

\* Refused: the leases taken so far are dropped.
GiveUp(th) ==
    IF Leases(th) = {}
    THEN Goto(th, "idle") /\ permits' = permits \ {th}
    ELSE Goto(th, "drop") /\ UNCHANGED permits

\* An operation arrives.
Begin(th) ==
    /\ pc[th] = "idle"
    /\ \E goal \in (IF Kind[th] = "cutover" THEN {"commit", "activate"} ELSE {"commit"}) :
          intent' = [intent EXCEPT ![th] = goal]
    /\ at' = [at EXCEPT ![th] = 1]
    /\ Goto(th, IF Kind[th] = "submit" /\ Path[th][1] \in Mailboxes THEN "permit" ELSE "lookup")
    /\ UNCHANGED <<gates, settling, permits, view, inactive, fenced, storage>>

\* The map entry of the key, inserted when absent; the lease takes a reference.
Lookup(th) ==
    LET k == Key(th)
        new == CHOOSE g \in Gens : StrongCount(k, g) = 0
    IN  /\ pc[th] = "lookup" /\ ~fenced
        /\ IF mapped[k] = NoGate
           THEN /\ mapped' = [mapped EXCEPT ![k] = new]
                /\ gate' = [gate EXCEPT ![k][new] = FreshGate]
           ELSE UNCHANGED <<mapped, gate>>
        /\ lease' = [lease EXCEPT ![th][k] = mapped'[k]]
        /\ Goto(th, "enter")
        /\ UNCHANGED <<acquired, settling, permits, at, intent, view, inactive, fenced, storage>>

\* A fenced process refuses before there is a lease.
LookupFenced(th) ==
    /\ pc[th] = "lookup" /\ fenced
    /\ GiveUp(th)
    /\ UNCHANGED <<gates, settling, at, intent, view, inactive, fenced, storage>>

\* Mutant: a queued cutover does not keep new readers out.
EnterReaderPastQueue(th) ==
    /\ pc[th] = "enter" /\ Kind[th] # "cutover"
    /\ IF GateOf(th).writer
       THEN Goto(th, "drop") /\ UNCHANGED <<gate, acquired>>
       ELSE /\ SetGate(th, [GateOf(th) EXCEPT !.readers = @ + 1])
            /\ acquired' = [acquired EXCEPT ![th] = @ \cup {Key(th)}]
            /\ Goto(th, IF Kind[th] = "ack" THEN "settle" ELSE "check")
    /\ UNCHANGED <<mapped, lease, settling, permits, at, intent, view, inactive, fenced, storage>>

\* Readers never wait: a cutover that holds the gate or queues for it refuses them.
EnterReader(th) ==
    /\ pc[th] = "enter" /\ Kind[th] # "cutover"
    /\ IF GateOf(th).writer \/ GateOf(th).waiting # 0
       THEN Goto(th, "drop") /\ UNCHANGED <<gate, acquired>>
       ELSE /\ SetGate(th, [GateOf(th) EXCEPT !.readers = @ + 1])
            /\ acquired' = [acquired EXCEPT ![th] = @ \cup {Key(th)}]
            /\ Goto(th, IF Kind[th] = "ack" THEN "settle" ELSE "check")
    /\ UNCHANGED <<mapped, lease, settling, permits, at, intent, view, inactive, fenced, storage>>

\* Mutant: the cutover waits for another cutover only.
FreeOfWriters(th) == ~GateOf(th).writer

Free(th) == ~GateOf(th).writer /\ GateOf(th).readers = 0

\* The writer owns the key and goes on to the next one of its path.
Own(th, queued) ==
    /\ SetGate(th, [GateOf(th) EXCEPT !.writer = TRUE, !.waiting = @ - queued])
    /\ acquired' = [acquired EXCEPT ![th] = @ \cup {Key(th)}]
    /\ IF at[th] = Len(Path[th])
       THEN Goto(th, IF intent[th] = "commit" THEN "capture" ELSE "commit") /\ UNCHANGED at
       ELSE Goto(th, "lookup") /\ at' = [at EXCEPT ![th] = @ + 1]

EnterWriter(th) ==
    /\ pc[th] = "enter" /\ Kind[th] = "cutover"
    /\ IF Free(th)
       THEN Own(th, 0)
       ELSE /\ SetGate(th, [GateOf(th) EXCEPT !.waiting = @ + 1])
            /\ Goto(th, "wait")
            /\ UNCHANGED <<acquired, at>>
    /\ UNCHANGED <<mapped, lease, settling, permits, intent, view, inactive, fenced, storage>>

TakeWriter(th) ==
    /\ pc[th] = "wait" /\ Free(th)
    /\ Own(th, 1)
    /\ UNCHANGED <<mapped, lease, settling, permits, intent, view, inactive, fenced, storage>>

\* 250 ms are over and the gate is still taken.
WriterTimeout(th) ==
    /\ pc[th] = "wait" /\ ~Free(th)
    /\ SetGate(th, [GateOf(th) EXCEPT !.waiting = @ - 1])
    /\ Goto(th, "drop")
    /\ UNCHANGED <<mapped, lease, acquired, settling, permits, at, intent, view, inactive, fenced,
                   storage>>

-----------------------------------------------------------------------------
(* The three operations under their leases.                                *)

\* acquire_home_operation and acquire_submission: the caches are read under the lease.
Check(th) ==
    /\ pc[th] = "check"
    /\ \/ /\ Key(th) \in inactive
          /\ Goto(th, "drop") /\ UNCHANGED at
       \/ /\ Key(th) \notin inactive /\ at[th] = Len(Path[th])
          /\ Goto(th, "admitted") /\ UNCHANGED at
       \/ /\ Key(th) \notin inactive /\ at[th] < Len(Path[th])
          /\ Goto(th, "permit") /\ at' = [at EXCEPT ![th] = @ + 1]
    /\ UNCHANGED <<gates, settling, permits, intent, view, inactive, fenced, storage>>

\* Before the mailbox: one permit, or a capacity refusal.
Permit(th) ==
    /\ pc[th] = "permit"
    /\ IF Cardinality(permits) < MaxPermits
       THEN permits' = permits \cup {th} /\ Goto(th, "lookup")
       ELSE GiveUp(th)
    /\ UNCHANGED <<gates, settling, at, intent, view, inactive, fenced, storage>>

\* The submission is stored under its lease, or given up.
Store(th) ==
    /\ pc[th] = "admitted"
    /\ \/ ~fenced /\ rows' = [rows EXCEPT ![Key(th)] = @ \cup {th}]
       \/ UNCHANGED rows
    /\ Goto(th, "drop")
    /\ UNCHANGED <<gates, settling, permits, at, intent, view, inactive, fenced, migrated, captured>>

\* The write fails, perhaps after it landed, and fences the process.
StoreFails(th) ==
    /\ pc[th] = "admitted" /\ ~fenced
    /\ \/ rows' = [rows EXCEPT ![Key(th)] = @ \cup {th}]
       \/ UNCHANGED rows
    /\ fenced' = TRUE
    /\ Goto(th, "drop")
    /\ UNCHANGED <<gates, settling, permits, at, intent, view, inactive, migrated, captured>>

\* acquire_acknowledgement: one settlement of a mailbox at a time.
Settle(th) ==
    /\ pc[th] = "settle" /\ ~GateOf(th).held
    /\ SetGate(th, [GateOf(th) EXCEPT !.held = TRUE])
    /\ settling' = settling \cup {th}
    /\ Goto(th, "settled")
    /\ UNCHANGED <<mapped, lease, acquired, permits, at, intent, view, inactive, fenced, storage>>

SettleTimeout(th) ==
    /\ pc[th] = "settle" /\ GateOf(th).held
    /\ Goto(th, "drop")
    /\ UNCHANGED <<gates, settling, permits, at, intent, view, inactive, fenced, storage>>

\* The acknowledgement is recorded (module Publication) and the lease goes.
Settled(th) ==
    /\ pc[th] = "settled"
    /\ Goto(th, "drop")
    /\ UNCHANGED <<gates, settling, permits, at, intent, view, inactive, fenced, storage>>

\* migration_backlog_barrier: what the mailboxes hold, read under the barrier.
Capture(th) ==
    /\ pc[th] = "capture"
    /\ view' = [view EXCEPT ![th] = rows]
    /\ Goto(th, "commit")
    /\ UNCHANGED <<gates, settling, permits, at, intent, inactive, fenced, storage>>

\* The transaction of commit_home_migration or of the activation.
Transition(th) ==
    /\ migrated' = IF intent[th] = "commit" THEN migrated \cup KeysOf(th)
                   ELSE migrated \ KeysOf(th)
    /\ captured' = IF intent[th] = "commit"
                   THEN [t \in Mailboxes |-> IF t \in KeysOf(th) THEN view[th][t] ELSE captured[t]]
                   ELSE captured
    /\ UNCHANGED rows

\* Another cutover may have won meanwhile.
Moot(th) == (intent[th] = "commit") <=> Path[th][1] \in migrated

Commit(th) ==
    /\ pc[th] = "commit"
    /\ IF fenced \/ Moot(th)
       THEN Goto(th, "drop") /\ UNCHANGED storage
       ELSE Goto(th, "cache") /\ Transition(th)
    /\ UNCHANGED <<gates, settling, permits, at, intent, view, inactive, fenced>>

\* A failed commit may have landed; the process is fenced.
CommitFails(th) ==
    /\ pc[th] = "commit" /\ ~fenced /\ ~Moot(th)
    /\ Transition(th) \/ UNCHANGED storage
    /\ fenced' = TRUE
    /\ Goto(th, "drop")
    /\ UNCHANGED <<gates, settling, permits, at, intent, view, inactive>>

\* Mutant: only the root is cached as moved away.
CacheRoot(th) ==
    /\ pc[th] = "cache"
    /\ \/ inactive' = IF intent[th] = "commit" THEN inactive \cup {Path[th][1]}
                      ELSE inactive \ {Path[th][1]}
       \/ fenced /\ UNCHANGED inactive
    /\ Goto(th, "drop")
    /\ UNCHANGED <<gates, settling, permits, at, intent, view, fenced, storage>>

\* cache_migration_root and cache_migration_routes, still under the barrier; a
\* commit during which the process was fenced reports an error and caches nothing.
Cache(th) ==
    /\ pc[th] = "cache"
    /\ \/ inactive' = IF intent[th] = "commit" THEN inactive \cup KeysOf(th)
                      ELSE inactive \ KeysOf(th)
       \/ fenced /\ UNCHANGED inactive
    /\ Goto(th, "drop")
    /\ UNCHANGED <<gates, settling, permits, at, intent, view, fenced, storage>>

-----------------------------------------------------------------------------
(* Dropping the leases: the one that was refused, then the mailboxes in    *)
(* path order, the root last.                                              *)

DropNext(th) ==
    LET refused == {i \in Leases(th) : Path[th][i] \notin acquired[th]}
        rest == IF refused # {} THEN refused ELSE Leases(th) \ {1}
    IN  IF rest = {} THEN 1 ELSE CHOOSE i \in rest : \A j \in rest : i <= j

\* Mutant: whoever leaves ends the settlement of the mailbox.
ReleasedSettlement(th, k, g) ==
    IF k \notin acquired[th] THEN g
    ELSE [g EXCEPT !.held = FALSE,
                   !.writer = IF Kind[th] = "cutover" THEN FALSE ELSE @,
                   !.readers = IF Kind[th] = "cutover" THEN @ ELSE @ - 1]

\* The gate after the lease of k is dropped.
Released(th, k, g) ==
    IF k \notin acquired[th] THEN g
    ELSE [g EXCEPT !.held = IF th \in settling THEN FALSE ELSE @,
                   !.writer = IF Kind[th] = "cutover" THEN FALSE ELSE @,
                   !.readers = IF Kind[th] = "cutover" THEN @ ELSE @ - 1]

Release(th) ==
    /\ pc[th] = "drop"
    /\ at' = [at EXCEPT ![th] = DropNext(th)]
    /\ LET k == Path[th][DropNext(th)]
           g == lease[th][k]
       IN  /\ gate' = [gate EXCEPT ![k][g] = Released(th, k, @)]
           /\ acquired' = [acquired EXCEPT ![th] = @ \ {k}]
    /\ settling' = settling \ {th}
    /\ Goto(th, "unmap")
    /\ UNCHANGED <<mapped, lease, permits, intent, view, inactive, fenced, storage>>

\* Mutant: every departing lease removes the map entry.
UnmapAlways(th) ==
    /\ pc[th] = "unmap"
    /\ mapped' = [mapped EXCEPT ![Key(th)] = NoGate]
    /\ Goto(th, "free")
    /\ UNCHANGED <<gate, lease, acquired, settling, permits, at, intent, view, inactive, fenced,
                   storage>>

\* The map entry goes when the map and this lease hold the only references.
Unmap(th) ==
    /\ pc[th] = "unmap"
    /\ mapped' = [mapped EXCEPT ![Key(th)] =
                     IF StrongCount(Key(th), lease[th][Key(th)]) = 2 THEN NoGate ELSE @]
    /\ Goto(th, "free")
    /\ UNCHANGED <<gate, lease, acquired, settling, permits, at, intent, view, inactive, fenced,
                   storage>>

\* After drop returns the fields go: the reference of this lease, then the next lease.
DropReference(th) ==
    /\ pc[th] = "free"
    /\ lease' = [lease EXCEPT ![th][Key(th)] = NoGate]
    /\ IF Leases(th) = {at[th]}
       THEN Goto(th, "idle") /\ permits' = permits \ {th}
       ELSE Goto(th, "drop") /\ UNCHANGED permits
    /\ UNCHANGED <<mapped, gate, acquired, settling, at, intent, view, inactive, fenced, storage>>

\* The supervisor aborts a fenced process; the next one loads the durable gates.
Restart ==
    /\ fenced /\ fenced' = FALSE
    /\ mapped' = [k \in Keys |-> NoGate]
    /\ gate' = [k \in Keys |-> [g \in Gens |-> FreshGate]]
    /\ lease' = [th \in Threads |-> [k \in Keys |-> NoGate]]
    /\ acquired' = [th \in Threads |-> {}]
    /\ settling' = {} /\ permits' = {}
    /\ pc' = [th \in Threads |-> "idle"]
    /\ inactive' = migrated
    /\ UNCHANGED <<at, intent, view, storage>>

-----------------------------------------------------------------------------
\* What a thread does on its own once its operation has begun.
Runs(th) ==
    \/ Lookup(th) \/ LookupFenced(th) \/ EnterReader(th) \/ EnterWriter(th) \/ TakeWriter(th)
    \/ Check(th) \/ Permit(th) \/ Store(th) \/ StoreFails(th)
    \/ Settle(th) \/ Settled(th)
    \/ Capture(th) \/ Commit(th) \/ CommitFails(th) \/ Cache(th)
    \/ Release(th) \/ Unmap(th) \/ DropReference(th)

Next ==
    \/ \E th \in Threads : Begin(th) \/ Runs(th) \/ WriterTimeout(th) \/ SettleTimeout(th)
    \/ Restart

Spec == Init /\ [][Next]_vars

\* Threads run and condition variables wake them; no timeout is relied upon.
Fairness == \A th \in Threads : WF_vars(Runs(th))

FairSpec == Spec /\ Fairness

-----------------------------------------------------------------------------
Stages == {"idle", "lookup", "enter", "wait", "check", "permit", "admitted", "settle", "settled",
           "capture", "commit", "cache", "drop", "unmap", "free"}

\* Types; no count of a gate is ever negative (a lease that was not acquired
\* releases nothing).
TypeOK ==
    /\ mapped \in [Keys -> Gens \cup {NoGate}]
    /\ gate \in [Keys -> [Gens -> [readers : Nat, writer : BOOLEAN, waiting : Nat,
                                   held : BOOLEAN]]]
    /\ lease \in [Threads -> [Keys -> Gens \cup {NoGate}]]
    /\ acquired \in [Threads -> SUBSET Keys]
    /\ settling \subseteq Threads /\ permits \subseteq Threads
    /\ pc \in [Threads -> Stages]
    /\ at \in [Threads -> Nat] /\ \A th \in Threads : at[th] \in DOMAIN Path[th]
    /\ intent \in [Threads -> {"commit", "activate"}]
    /\ view \in [Threads -> [Mailboxes -> SUBSET Threads]]
    /\ inactive \subseteq Keys /\ migrated \subseteq Keys /\ fenced \in BOOLEAN
    /\ rows \in [Mailboxes -> SUBSET Threads] /\ captured \in [Mailboxes -> SUBSET Threads]

\* A cutover shares a mailbox or a root with nobody, whatever generation of the
\* gate each of them holds (TargetGates::acquire and the removal in Drop).
CutoverExcludes ==
    \A th, q \in Threads : th # q /\ Kind[th] = "cutover" => acquired[th] \cap acquired[q] = {}

\* Receivers settle a mailbox one at a time (acquire_acknowledgement).
SettlementExclusive ==
    \A th, q \in settling : th # q => Path[th][1] # Path[q][1]

\* A submission past its checks that can still store finds its mailbox and its
\* root at home (acquire_submission checks under the lease, the cutover caches
\* under the barrier).
AdmittedIsHome ==
    \A th \in Threads : pc[th] = "admitted" /\ ~fenced =>
        KeysOf(th) \cap migrated = {}

\* The backlog scheduled with a migration is all the mailbox ever accepted: no
\* submission slips between the capture and the commit, or after it.
BacklogComplete ==
    \A t \in Mailboxes \cap migrated : rows[t] = captured[t]

\* A queued cutover gets its turn although readers keep coming: it never depends
\* on its timeout.
CutoverGetsTurn ==
    \A th \in {q \in Threads : Kind[q] = "cutover"} : pc[th] = "wait" ~> pc[th] # "wait"
=============================================================================
