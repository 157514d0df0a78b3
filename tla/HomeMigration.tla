---------------------------- MODULE HomeMigration ----------------------------
(***************************************************************************)
(* Moving an account from one home node to another.  The destination       *)
(* reserves and seals, the source alone commits or fences the signed       *)
(* authorization, the destination activates on the source's proof, and the *)
(* source then drains what its inbox still holds.  Calls between nodes are *)
(* lost, delayed and repeated, nodes crash, and a node's clock may step    *)
(* back as far as the floor it has stored.                                 *)
(*                                                                         *)
(* One account and one of its devices.  A home record is Genesis or the    *)
(* move whose commit signed it; a signed record, fence or proof is known   *)
(* to everybody once it exists, since its owner may relay it at any time.  *)
(***************************************************************************)
EXTENDS Integers, FiniteSets

CONSTANTS
  Nodes, Moves, Envelopes,
  Genesis, NoRecord,      \* the first home record; no home record
  Origin,                 \* node at which the account is registered
  Src, Dst, Base, Epoch,  \* of a move: nodes, record it replaces, its home epoch
  SealDelay, CommitDelay, Skew, Forward,  \* MAX_SEAL_DELAY, MAX_COMMIT_DELAY, ...
  RetainUntil,            \* of an envelope: inbox_retain_until
  MaxTime, MaxOffer       \* bounds: last instant, last instant of an offer

Records == Moves \cup {Genesis}
Home(r) == IF r = Genesis THEN Origin ELSE Dst[r]

ASSUME MoveAssumption ==
  /\ Genesis \notin Moves /\ NoRecord \notin Records /\ Origin \in Nodes
  /\ Src \in [Moves -> Nodes] /\ Dst \in [Moves -> Nodes] /\ Base \in [Moves -> Records]
  /\ Epoch \in [Records -> Nat] /\ Epoch[Genesis] = 0
  /\ \A m \in Moves : /\ Src[m] = Home(Base[m]) /\ Dst[m] # Src[m]
                      /\ Epoch[m] = Epoch[Base[m]] + 1

ASSUME TimeAssumption ==
  /\ {SealDelay, CommitDelay, Skew, Forward, MaxTime, MaxOffer} \subseteq Nat
  /\ RetainUntil \in [Envelopes -> Nat]
  /\ Forward > SealDelay + CommitDelay + 2 * Skew
  /\ MaxTime > MaxOffer + SealDelay + CommitDelay + 2 * Skew

VARIABLES
  time,         \* the clock of a node that is right
  floor,        \* CLOCK: the latest instant each node has stored
  head,         \* HEADS: the home record each node holds
  gate,         \* ROOT_GATES: what a node answers the account's devices
  route,        \* TARGETS: the row of the device's inbox
  guard,        \* GUARDS: the sealed operation of the account
  attested,     \* attestations not older than a minute
  dop,          \* the destination's operation row of each move
  courier,      \* what the destination's courier does for each move
  lateCalls,    \* commit and status calls still in the network
  committedAt,  \* PROOFS: instant of a move's commit, -1 before
  fences,       \* FENCES: stored noncommit fences
  issued,       \* fences the source has signed, stored or not
  sop,          \* the source's operation row: "Live" holds a budget
  drain,        \* ENTRIES: the obligations a commit captured
  closed,       \* CLOSED: forwarding windows seen closed
  drainer,      \* what the drain worker of each node does
  lateForwards, \* forwards still in the network
  box,          \* unsettled rows of the device's inbox at each node
  taken,        \* local delivery index: envelopes a node ever stored
  hopped,       \* stored envelopes that carry a forward count
  acked         \* history: envelopes the receiver acknowledged at each node

homes == <<head, gate, route, guard>>
source == <<committedAt, fences, issued, sop>>
mail == <<drain, closed, drainer, lateForwards, box, taken, hopped, acked>>
vars == <<time, floor, homes, attested, dop, courier, lateCalls, source, mail>>

Never == -1
NoRoute == [epoch |-> 0, move |-> NoRecord, active |-> TRUE, released |-> TRUE]
IdleDrain == <<"idle">>
Pending == {"Sealed", "CommitPending", "CommitOutcomeUnknown"}
Calls == {"commit", "status"} \X Moves

\* clock: the wall clock of the moment, or one that was set back, never
\* below the stored floor.  A transaction that commits stores what it read.
Now(n) == {floor[n], time}
Store(n, now) == floor' = [floor EXCEPT ![n] = now]

HardDeadline(m) == dop[m].offered + SealDelay + CommitDelay + 2 * Skew
Deadline(m) == dop[m].sealed + CommitDelay
ForwardUntil(m) == committedAt[m] + Forward

\* Records that lie on the chain from Genesis to r, r included: those in every
\* set that has r and, with a move, the record the move replaces.
Lineage ==
  [r \in Records |-> {x \in Records : \A S \in SUBSET Records :
     r \in S /\ (\A m \in Moves \cap S : Base[m] \in S) => x \in S}]

\* home_migration_target_active at a node that knows the account.
Serves(n) ==
  /\ n = Origin \/ head[n] # NoRecord
  /\ gate[n] = "open" /\ route[n].active

\* require_no_live_window.
NoLiveWindow(n, own, now) ==
  /\ guard[n] \in {NoRecord, own}
  /\ head[n] \in Moves => now >= ForwardUntil(head[n])

Init ==
  /\ time = 0 /\ floor = [n \in Nodes |-> 0]
  /\ head = [n \in Nodes |-> NoRecord] /\ gate = [n \in Nodes |-> "open"]
  /\ route = [n \in Nodes |-> NoRoute] /\ guard = [n \in Nodes |-> NoRecord]
  /\ attested = {} /\ lateCalls = {} /\ courier = [m \in Moves |-> "idle"]
  /\ dop = [m \in Moves |-> [phase |-> "None", offered |-> 0, sealed |-> 0]]
  /\ committedAt = [m \in Moves |-> Never] /\ fences = {} /\ issued = {}
  /\ sop = [m \in Moves |-> "None"]
  /\ drain = [m \in Moves |-> [e \in Envelopes |-> "none"]] /\ closed = {}
  /\ drainer = [n \in Nodes |-> IdleDrain] /\ lateForwards = {}
  /\ box = [n \in Nodes |-> {}] /\ taken = [n \in Nodes |-> {}]
  /\ hopped = [n \in Nodes |-> {}] /\ acked = [n \in Nodes |-> {}]

-----------------------------------------------------------------------------
(* Reserving and sealing, at the destination *)

\* attest_home_migration: the first attestation creates the genesis record.
Attest(m, now) ==
  LET n == Src[m]
      h == IF head[n] = NoRecord /\ n = Origin THEN Genesis ELSE head[n]
  IN /\ h = Base[m]
     /\ head' = [head EXCEPT ![n] = h]
     /\ attested' = attested \cup {m}
     /\ Store(n, now)
     /\ UNCHANGED <<time, gate, route, guard, dop, courier, lateCalls, source, mail>>

\* Mutant: the reservation does not close the account's gate.
PrepareOpenGate(m, now) ==
  LET n == Dst[m]
  IN /\ m \in attested /\ dop[m].phase = "None" /\ now <= MaxOffer
     /\ IF head[n] = NoRecord THEN n # Origin ELSE head[n] \in Lineage[Base[m]]
     /\ \A k \in Moves : Dst[k] = n => dop[k].phase # "Prepared"
     /\ head' = [head EXCEPT ![n] = Base[m]]
     /\ dop' = [dop EXCEPT ![m] = [phase |-> "Prepared", offered |-> now, sealed |-> 0]]
     /\ Store(n, now)
     /\ UNCHANGED <<time, gate, route, guard, attested, courier, lateCalls, source, mail>>

\* Mutant: the base of the offer is not compared with the head on file.
PrepareAnyBase(m, now) ==
  LET n == Dst[m]
  IN /\ m \in attested /\ dop[m].phase = "None" /\ now <= MaxOffer
     /\ \A k \in Moves : Dst[k] = n => dop[k].phase # "Prepared"
     /\ head' = [head EXCEPT ![n] = Base[m]]
     /\ gate' = [gate EXCEPT ![n] = "DormantInbox"]
     /\ dop' = [dop EXCEPT ![m] = [phase |-> "Prepared", offered |-> now, sealed |-> 0]]
     /\ Store(n, now)
     /\ UNCHANGED <<time, route, guard, attested, courier, lateCalls, source, mail>>

\* prepare_in_transaction.  One unsealed reservation per account.
Prepare(m, now) ==
  LET n == Dst[m]
  IN /\ m \in attested /\ dop[m].phase = "None" /\ now <= MaxOffer
     /\ IF head[n] = NoRecord THEN n # Origin ELSE head[n] \in Lineage[Base[m]]
     /\ \A k \in Moves : Dst[k] = n => dop[k].phase # "Prepared"
     /\ head' = [head EXCEPT ![n] = Base[m]]
     /\ gate' = [gate EXCEPT ![n] = "DormantInbox"]
     /\ dop' = [dop EXCEPT ![m] = [phase |-> "Prepared", offered |-> now, sealed |-> 0]]
     /\ Store(n, now)
     /\ UNCHANGED <<time, route, guard, attested, courier, lateCalls, source, mail>>

\* abort_prepared_home_migration.
Abort(m, now) ==
  /\ dop[m].phase = "Prepared"
  /\ dop' = [dop EXCEPT ![m].phase = "Aborted"]
  /\ Store(Dst[m], now)
  /\ UNCHANGED <<time, homes, attested, courier, lateCalls, source, mail>>

\* seal_in_transaction: the account's signed authorization is bound to the
\* reservation, the inbox route becomes dormant, the courier is scheduled.
Seal(m, now) ==
  LET n == Dst[m]
  IN /\ dop[m].phase = "Prepared" /\ now <= dop[m].offered + SealDelay
     /\ NoLiveWindow(n, m, now)
     /\ \/ route[n].epoch < Epoch[m]
        \/ route[n].epoch = Epoch[m] /\ route[n].released
     /\ dop' = [dop EXCEPT ![m].phase = "Sealed", ![m].sealed = now]
     /\ route' = [route EXCEPT ![n] = [epoch |-> Epoch[m], move |-> m,
                                       active |-> FALSE, released |-> FALSE]]
     /\ guard' = [guard EXCEPT ![n] = m]
     /\ Store(n, now)
     /\ UNCHANGED <<time, head, gate, attested, courier, lateCalls, source, mail>>

-----------------------------------------------------------------------------
(* The outcome, at the source *)

\* capture: what is unsettled and unexpired in the inbox at the cutover.
Backlog(n, now) == {e \in box[n] : RetainUntil[e] > now}

\* The checks of the first commit, all made inside its transaction.
MayCommit(m, now) ==
  LET n == Src[m]
  IN /\ m \notin fences
     /\ now <= Deadline(m) /\ now <= HardDeadline(m) /\ dop[m].sealed <= now + Skew
     /\ head[n] = Base[m]
     /\ NoLiveWindow(n, NoRecord, now)
     /\ \A k \in Moves, e \in Backlog(n, now) : Src[k] = n => drain[k][e] = "none"

\* persist_source_commit and what precedes it in the transaction.
FirstCommit(m, now) ==
  LET n == Src[m]
  IN /\ MayCommit(m, now)
     /\ committedAt' = [committedAt EXCEPT ![m] = now]
     /\ head' = [head EXCEPT ![n] = m]
     /\ gate' = [gate EXCEPT ![n] = "HomeMigrated"]
     /\ route' = [route EXCEPT ![n] = [epoch |-> Epoch[m], move |-> m,
                                       active |-> FALSE, released |-> FALSE]]
     /\ guard' = [guard EXCEPT ![n] = NoRecord]
     /\ drain' = [drain EXCEPT ![m] = [e \in Envelopes |->
                     IF e \in Backlog(n, now) THEN "Pending" ELSE "none"]]
     /\ sop' = [sop EXCEPT ![m] = IF Backlog(n, now) = {} THEN "Done" ELSE "Live"]
     /\ Store(n, now)
     /\ UNCHANGED <<fences, issued, closed, drainer, lateForwards, box, taken, hopped, acked>>

\* A call the source may be looking at, and the answer to a waiting courier.
Called(kind, m) == courier[m] = kind \/ <<kind, m>> \in lateCalls
Answer(kind, m, outcome) ==
  courier' = IF courier[m] = kind THEN [courier EXCEPT ![m] = outcome] ELSE courier

\* commit_home_migration: a permanent outcome is returned as it is.
SourceCommit(m, now) ==
  /\ Called("commit", m)
  /\ Answer("commit", m, "committed")
  /\ IF committedAt[m] # Never
     THEN UNCHANGED <<floor, homes, source, mail>>
     ELSE FirstCommit(m, now)
  /\ UNCHANGED <<time, attested, dop, lateCalls>>

\* Mutant: a stored cancellation is not signed.
SignFenceUnsigned(m, now, cancel) ==
  /\ cancel \/ now > HardDeadline(m)
  /\ head[Src[m]] # NoRecord /\ Base[m] \in Lineage[head[Src[m]]]
  /\ issued' = IF now <= HardDeadline(m) THEN issued ELSE issued \cup {m}
  /\ fences' = IF now <= HardDeadline(m) THEN fences \cup {m} ELSE fences
  /\ Store(Src[m], now)
  /\ UNCHANGED <<committedAt, sop>>

\* fence_authorization, without a permanent outcome: an owner's cancellation
\* is stored; after the hard deadline a fence is signed and not stored.
SignFence(m, now, cancel) ==
  /\ cancel \/ now > HardDeadline(m)
  /\ head[Src[m]] # NoRecord /\ Base[m] \in Lineage[head[Src[m]]]
  /\ issued' = issued \cup {m}
  /\ fences' = IF now <= HardDeadline(m) THEN fences \cup {m} ELSE fences
  /\ Store(Src[m], now)
  /\ UNCHANGED <<committedAt, sop>>

\* fence_home_authorization for the courier's status call.
SourceStatus(m, now) ==
  /\ Called("status", m)
  /\ IF committedAt[m] # Never \/ m \in fences
     THEN UNCHANGED <<floor, source>>
     ELSE SignFence(m, now, FALSE)
  /\ Answer("status", m, IF committedAt[m] # Never THEN "committed" ELSE "fenced")
  /\ UNCHANGED <<time, homes, attested, dop, lateCalls, mail>>

\* abort_owner with an authorization: the owner cancels at the source,
\* sealed or not, once the offer exists to authorize.
Cancel(m, now) ==
  /\ dop[m].phase # "None" /\ committedAt[m] = Never /\ m \notin fences
  /\ SignFence(m, now, TRUE)
  /\ UNCHANGED <<time, homes, attested, dop, courier, lateCalls, mail>>

-----------------------------------------------------------------------------
(* The outcome, at the destination *)

\* verify_activation_base, activation_allowed and the phases.
MayActivate(m) ==
  /\ committedAt[m] # Never
  /\ dop[m].phase \in Pending /\ head[Dst[m]] \in {Base[m], m}

\* apply_forwarded_activation.
ActivateEffect(m, now) ==
  LET n == Dst[m]
  IN /\ head' = [head EXCEPT ![n] = m]
     /\ gate' = [gate EXCEPT ![n] = "open"]
     /\ route' = [route EXCEPT ![n] = [epoch |-> Epoch[m], move |-> m,
                                       active |-> TRUE, released |-> FALSE]]
     /\ guard' = [guard EXCEPT ![n] = NoRecord]
     /\ dop' = [dop EXCEPT ![m].phase = "Active"]
     /\ Store(n, now)

\* accept_home_noncommit_fence, once per operation.
FenceEffect(m, now) ==
  LET n == Dst[m]
  IN /\ route' = [route EXCEPT ![n] = [epoch |-> Epoch[m], move |-> m,
                                       active |-> FALSE, released |-> TRUE]]
     /\ guard' = [guard EXCEPT ![n] = NoRecord]
     /\ dop' = [dop EXCEPT ![m].phase = "Expired"]
     /\ Store(n, now)
     /\ UNCHANGED <<head, gate>>

\* activate_owner, fence_owner: the owner relays what the source signed.
RelayProof(m, now) ==
  /\ MayActivate(m) /\ ActivateEffect(m, now)
  /\ UNCHANGED <<time, attested, courier, lateCalls, source, mail>>

RelayFence(m, now) ==
  /\ m \in issued /\ dop[m].phase \in Pending /\ FenceEffect(m, now)
  /\ UNCHANGED <<time, attested, courier, lateCalls, source, mail>>

\* commit_owner: the owner makes the destination send its sealed evidence.
OwnerCommit(m, now) ==
  /\ dop[m].phase \in Pending \cup {"Expired"} /\ now <= Deadline(m)
  /\ lateCalls' = lateCalls \cup {<<"commit", m>>}
  /\ UNCHANGED <<time, floor, homes, attested, dop, courier, source, mail>>

\* claim_migration_courier: one tick at a time; the lease and the backoff of
\* a claim are shorter than one unit of time.
CourierClaim(m, now) ==
  /\ courier[m] = "idle" /\ dop[m].phase \in Pending
  /\ courier' = [courier EXCEPT ![m] = "claimed"]
  /\ Store(Dst[m], now)
  /\ UNCHANGED <<time, homes, attested, dop, lateCalls, source, mail>>

\* retry_migration_courier: nothing if the operation is no longer pending.
Retry(m, unknown) ==
  dop' = IF dop[m].phase \in Pending
         THEN [dop EXCEPT ![m].phase = IF unknown THEN "CommitOutcomeUnknown"
                                                  ELSE "CommitPending"]
         ELSE dop
StoreIf(n, now, test) == IF test THEN Store(n, now) ELSE UNCHANGED floor

StatusOnly(m, now) == now > Deadline(m) \/ dop[m].phase = "CommitOutcomeUnknown"

\* courier_item up to the exchange.  Between the deadline and the end of the
\* permitted skew nothing is sent.
CourierAsk(m, now) ==
  /\ courier[m] = "claimed"
  /\ \/ /\ dop[m].phase \notin Pending
        /\ courier' = [courier EXCEPT ![m] = "idle"]
        /\ UNCHANGED <<floor, dop>>
     \/ /\ dop[m].phase \in Pending /\ StatusOnly(m, now) /\ now <= Deadline(m) + Skew
        /\ courier' = [courier EXCEPT ![m] = "idle"]
        /\ Retry(m, TRUE) /\ Store(Dst[m], now)
     \/ /\ dop[m].phase \in Pending
        /\ StatusOnly(m, now) => now > Deadline(m) + Skew
        /\ courier' = [courier EXCEPT ![m] =
                          IF StatusOnly(m, now) THEN "status" ELSE "commit"]
        /\ UNCHANGED <<floor, dop>>
  /\ UNCHANGED <<time, homes, attested, lateCalls, source, mail>>

\* The exchange fails or is refused; the call may still reach the source.
CourierReturn(m, now, delayed) ==
  /\ courier[m] \in {"commit", "status"}
  /\ lateCalls' = IF delayed THEN lateCalls \cup {<<courier[m], m>>} ELSE lateCalls
  /\ Retry(m, courier[m] = "status")
  /\ StoreIf(Dst[m], now, dop[m].phase \in Pending)
  /\ courier' = [courier EXCEPT ![m] = "idle"]
  /\ UNCHANGED <<time, homes, attested, source, mail>>

\* The signed outcome is applied; a refusal to apply it is retried.
CourierApply(m, now) ==
  /\ courier[m] \in {"committed", "fenced"}
  /\ courier' = [courier EXCEPT ![m] = "idle"]
  /\ \/ courier[m] = "committed" /\ MayActivate(m) /\ ActivateEffect(m, now)
     \/ courier[m] = "fenced" /\ dop[m].phase \in Pending /\ FenceEffect(m, now)
     \/ /\ dop[m].phase \in Pending => courier[m] = "committed" /\ ~MayActivate(m)
        /\ Retry(m, StatusOnly(m, now))
        /\ StoreIf(Dst[m], now, dop[m].phase \in Pending)
        /\ UNCHANGED homes
  /\ UNCHANGED <<time, attested, lateCalls, source, mail>>

-----------------------------------------------------------------------------
(* Mail, and the drain of what the former home holds *)

\* A sender submits to a node that serves the account; a repeated envelope
\* is recognised by the local delivery index.
Accept(n, e) ==
  /\ box' = [box EXCEPT ![n] = IF e \in taken[n] THEN @ ELSE @ \cup {e}]
  /\ taken' = [taken EXCEPT ![n] = @ \cup {e}]

Submit(n, e) ==
  /\ Serves(n) /\ time < RetainUntil[e] /\ e \notin taken[n]
  /\ Accept(n, e)
  /\ UNCHANGED <<time, floor, homes, attested, dop, courier, lateCalls, source,
                 drain, closed, drainer, lateForwards, hopped, acked>>

\* migration_forward_window: of the head, whatever move a row belongs to.
WindowOpen(n, now) ==
  /\ head[n] \in Moves /\ ~route[n].active /\ route[n].move = head[n]
  /\ head[n] \notin closed
  /\ committedAt[head[n]] <= now /\ now < ForwardUntil(head[n])
Latch(n, now) ==
  closed' = IF /\ head[n] \in Moves /\ ~route[n].active /\ route[n].move = head[n]
               /\ now >= ForwardUntil(head[n])
            THEN closed \cup {head[n]} ELSE closed

\* prepare_committed_home_forward: new mail at the former home.
SubmitForward(n, e, now) ==
  /\ WindowOpen(n, now) /\ e \notin taken[n] /\ <<head[n], e>> \notin lateForwards
  /\ lateForwards' = lateForwards \cup {<<head[n], e>>}
  /\ Store(n, now)
  /\ UNCHANGED <<time, homes, attested, dop, courier, lateCalls, source,
                 drain, closed, drainer, box, taken, hopped, acked>>

\* check_forwarded_target: the proof must match an operation still on file.
ProofHolds(p) ==
  /\ dop[p].phase \in Pending \cup {"Active"}
  /\ head[Dst[p]] \in {Base[p], p}

\* submit_forwarded_envelope_inner: activate on the proof, then store or
\* recognise the envelope in the ordinary inbox.
Forwarded(p, e, now) ==
  /\ ProofHolds(p) /\ now < RetainUntil[e]
  /\ IF dop[p].phase \in Pending
     THEN ActivateEffect(p, now)
     ELSE Serves(Dst[p]) /\ UNCHANGED <<floor, homes, dop>>
  /\ Accept(Dst[p], e)
  /\ hopped' = [hopped EXCEPT ![Dst[p]] = IF e \in taken[Dst[p]] THEN @ ELSE @ \cup {e}]

\* receiver_ack, receiver_settled, and the terminal half of apply.
Settled(n, S) ==
  /\ box' = [box EXCEPT ![n] = @ \ S]
  /\ drain' = [m \in Moves |-> IF Src[m] # n THEN drain[m] ELSE
                  [e \in Envelopes |-> IF e \in S THEN "none" ELSE drain[m][e]]]

Rows(m) == {e \in Envelopes : drain[m][e] # "none"}
MailRest == <<time, attested, courier, lateCalls, source, taken, hopped, acked>>

\* Mutant: a row the destination rejected does not expire.
DrainExpiredUnrejected(m, e, now) ==
  LET n == Src[m]
  IN /\ drainer[n] = IdleDrain /\ drain[m][e] \in {"Pending", "Held"}
     /\ now >= RetainUntil[e]
     /\ Latch(n, now) /\ Store(n, now)
     /\ Settled(n, {e})
     /\ drainer' = [drainer EXCEPT ![n] = IF Rows(m) = {e} THEN <<"finish", m>>
                                                           ELSE IdleDrain]
     /\ UNCHANGED <<MailRest, homes, dop, lateForwards>>

\* tick, for one due row.  The retention deadline passed: settled as expired.
DrainExpired(m, e, now) ==
  LET n == Src[m]
  IN /\ drainer[n] = IdleDrain /\ e \in Rows(m) /\ now >= RetainUntil[e]
     /\ Latch(n, now) /\ Store(n, now)
     /\ Settled(n, {e})
     /\ drainer' = [drainer EXCEPT ![n] = IF Rows(m) = {e} THEN <<"finish", m>>
                                                           ELSE IdleDrain]
     /\ UNCHANGED <<MailRest, homes, dop, lateForwards>>

\* The window is closed, or the row was forwarded once already
\* (migration_second_hop): it is held.
DrainHold(m, e, now) ==
  LET n == Src[m]
  IN /\ drainer[n] = IdleDrain /\ drain[m][e] \in {"Pending", "Held"}
     /\ now < RetainUntil[e] /\ (WindowOpen(n, now) => e \in hopped[n])
     /\ Latch(n, now) /\ Store(n, now)
     /\ drain' = [drain EXCEPT ![m][e] = "Held"]
     /\ UNCHANGED <<MailRest, homes, dop, drainer, lateForwards, box>>

\* The window is open: the row is sent with the proof of the head.
DrainSend(m, e, now) ==
  LET n == Src[m]
  IN /\ drainer[n] = IdleDrain /\ drain[m][e] \in {"Pending", "Held"}
     /\ now < RetainUntil[e] /\ WindowOpen(n, now) /\ e \notin hopped[n]
     /\ drainer' = [drainer EXCEPT ![n] = <<"sending", m, e, head[n]>>]
     /\ Store(n, now)
     /\ UNCHANGED <<MailRest, homes, dop, drain, closed, lateForwards, box>>

\* The destination takes the forward, or refuses it for good.
DrainLand(n) ==
  /\ drainer[n][1] = "sending"
  /\ LET m == drainer[n][2]  e == drainer[n][3]  p == drainer[n][4]
     IN \/ /\ \E now \in Now(Dst[p]) : Forwarded(p, e, now)
           /\ drainer' = [drainer EXCEPT ![n] = <<"reply", m, e, "BAck">>]
        \/ /\ ProofHolds(p) /\ e \notin taken[Dst[p]]
           /\ drainer' = [drainer EXCEPT ![n] = <<"reply", m, e, "Rejected">>]
           /\ UNCHANGED <<floor, homes, dop, box, taken, hopped>>
  /\ UNCHANGED <<time, attested, courier, lateCalls, source,
                 drain, closed, lateForwards, acked>>

\* Mutant: a lost answer counts as an acknowledgement.
DrainLostSettled(n, now, delayed) ==
  /\ drainer[n][1] = "sending"
  /\ LET e == drainer[n][3]  p == drainer[n][4]
     IN /\ Settled(n, {e})
        /\ lateForwards' = IF delayed THEN lateForwards \cup {<<p, e>>} ELSE lateForwards
        /\ Store(n, now)
  /\ drainer' = [drainer EXCEPT ![n] = IdleDrain]
  /\ UNCHANGED <<MailRest, homes, dop, closed>>

\* No usable answer: the row is held; the forward may still arrive.
DrainLost(n, now, delayed) ==
  /\ drainer[n][1] = "sending"
  /\ LET m == drainer[n][2]  e == drainer[n][3]  p == drainer[n][4]
     IN /\ drain' = [drain EXCEPT ![m][e] = IF @ = "none" THEN @ ELSE "Held"]
        /\ lateForwards' = IF delayed THEN lateForwards \cup {<<p, e>>} ELSE lateForwards
        /\ StoreIf(n, now, e \in Rows(m))
  /\ drainer' = [drainer EXCEPT ![n] = IdleDrain]
  /\ UNCHANGED <<MailRest, homes, dop, closed, box>>

\* settle_migration_drain with an answer.
DrainSettle(n, now) ==
  /\ drainer[n][1] = "reply"
  /\ LET m == drainer[n][2]  e == drainer[n][3]
         row == e \in Rows(m)
     IN /\ StoreIf(n, now, row)
        /\ IF drainer[n][4] = "BAck"
           THEN /\ IF row THEN Settled(n, {e}) ELSE UNCHANGED <<box, drain>>
                /\ drainer' = [drainer EXCEPT ![n] =
                      IF Rows(m) \ {e} = {} THEN <<"finish", m>> ELSE IdleDrain]
           ELSE /\ drain' = IF row THEN [drain EXCEPT ![m][e] = "Rejected"] ELSE drain
                /\ drainer' = [drainer EXCEPT ![n] = IdleDrain]
                /\ UNCHANGED box
  /\ UNCHANGED <<MailRest, homes, dop, closed, lateForwards>>

\* finish_home_migration_backlog, a transaction of its own.
DrainFinish(n, now) ==
  /\ drainer[n][1] = "finish"
  /\ LET m == drainer[n][2]
     IN sop' = IF sop[m] = "Live" /\ Rows(m) = {} THEN [sop EXCEPT ![m] = "Done"] ELSE sop
  /\ drainer' = [drainer EXCEPT ![n] = IdleDrain]
  /\ Store(n, now)
  /\ UNCHANGED <<time, homes, attested, dop, courier, lateCalls, committedAt, fences,
                 issued, drain, closed, lateForwards, box, taken, hopped, acked>>

\* A delayed forward reaches the destination.
LateForward(p, e, now) ==
  /\ <<p, e>> \in lateForwards /\ e \notin taken[Dst[p]]
  /\ Forwarded(p, e, now)
  /\ UNCHANGED <<time, attested, courier, lateCalls, source,
                 drain, closed, drainer, lateForwards, acked>>

\* The receiver acknowledges, at the former home too; the drain row goes
\* with the inbox row.
ReceiverAck(n, e) ==
  /\ e \in box[n]
  /\ Settled(n, {e})
  /\ acked' = [acked EXCEPT ![n] = @ \cup {e}]
  /\ UNCHANGED <<time, floor, homes, attested, dop, courier, lateCalls, source,
                 closed, drainer, lateForwards, taken, hopped>>

\* The retention sweep settles an expired row the same way.
Sweep(n, e) ==
  /\ e \in box[n] /\ time >= RetainUntil[e]
  /\ Settled(n, {e})
  /\ UNCHANGED <<time, floor, homes, attested, dop, courier, lateCalls, source,
                 closed, drainer, lateForwards, taken, hopped, acked>>

-----------------------------------------------------------------------------
(* Clean-up, time and crashes *)

\* Operation rows cleanup_home_migrations removes: the index entry is due and
\* the phase is final; a committed row that holds a budget is kept.
ExpiresAt(m) == IF dop[m].phase \in {"Prepared", "Aborted"}
                THEN dop[m].offered + SealDelay + Skew ELSE HardDeadline(m)
DeadDestination(n, now) ==
  {m \in Moves : /\ Dst[m] = n /\ now > ExpiresAt(m)
                 /\ dop[m].phase \in {"Prepared", "Expired", "Aborted", "Active"}}
DeadSource(n, now) ==
  {m \in Moves : Src[m] = n /\ sop[m] = "Done" /\ now > ForwardUntil(m)}
DeadFences(n, now) == {m \in fences : Src[m] = n /\ now > HardDeadline(m)}

\* Mutant: the clean-up does not store the clock it pruned by.
CleanupUnclocked(n, now) ==
  /\ DeadDestination(n, now) \cup DeadSource(n, now) \cup DeadFences(n, now) # {}
  /\ dop' = [m \in Moves |-> IF m \in DeadDestination(n, now)
                             THEN [dop[m] EXCEPT !.phase = "Compacted"] ELSE dop[m]]
  /\ sop' = [m \in Moves |-> IF m \in DeadSource(n, now) THEN "Compacted" ELSE sop[m]]
  /\ fences' = fences \ DeadFences(n, now)
  /\ UNCHANGED <<time, floor, homes, attested, courier, lateCalls, committedAt, issued, mail>>

\* cleanup_home_migrations.
Cleanup(n, now) ==
  /\ DeadDestination(n, now) \cup DeadSource(n, now) \cup DeadFences(n, now) # {}
  /\ dop' = [m \in Moves |-> IF m \in DeadDestination(n, now)
                             THEN [dop[m] EXCEPT !.phase = "Compacted"] ELSE dop[m]]
  /\ sop' = [m \in Moves |-> IF m \in DeadSource(n, now) THEN "Compacted" ELSE sop[m]]
  /\ fences' = fences \ DeadFences(n, now)
  /\ Store(n, now)
  /\ UNCHANGED <<time, homes, attested, courier, lateCalls, committedAt, issued, mail>>

\* A minute passes: attestations expire.
Tick ==
  /\ time < MaxTime /\ time' = time + 1 /\ attested' = {}
  /\ UNCHANGED <<floor, homes, dop, courier, lateCalls, source, mail>>

\* The tables survive; the exchanges the node had open do not.
Crash(n, delayed) ==
  /\ drainer[n] # IdleDrain \/ \E m \in Moves : Dst[m] = n /\ courier[m] # "idle"
  /\ courier' = [m \in Moves |-> IF Dst[m] = n THEN "idle" ELSE courier[m]]
  /\ lateCalls' = IF delayed
                  THEN lateCalls \cup {c \in Calls : Dst[c[2]] = n /\ courier[c[2]] = c[1]}
                  ELSE lateCalls
  /\ lateForwards' = IF delayed /\ drainer[n][1] = "sending"
                     THEN lateForwards \cup {<<drainer[n][4], drainer[n][3]>>}
                     ELSE lateForwards
  /\ drainer' = [drainer EXCEPT ![n] = IdleDrain]
  /\ UNCHANGED <<time, floor, homes, attested, dop, source, drain, closed, box, taken,
                 hopped, acked>>

-----------------------------------------------------------------------------
MoveStep(m) ==
  \/ \E now \in Now(Src[m]) : Attest(m, now) \/ SourceCommit(m, now)
                              \/ SourceStatus(m, now) \/ Cancel(m, now)
  \/ \E now \in Now(Dst[m]) :
       \/ Prepare(m, now) \/ Abort(m, now) \/ Seal(m, now)
       \/ RelayProof(m, now) \/ RelayFence(m, now) \/ OwnerCommit(m, now)
       \/ CourierClaim(m, now) \/ CourierAsk(m, now) \/ CourierApply(m, now)
       \/ \E delayed \in BOOLEAN : CourierReturn(m, now, delayed)

DrainStep(m, e) ==
  \E now \in Now(Src[m]) :
    DrainExpired(m, e, now) \/ DrainHold(m, e, now) \/ DrainSend(m, e, now)

NodeStep(n) ==
  \/ \E now \in Now(n) :
       \/ Cleanup(n, now) \/ DrainSettle(n, now) \/ DrainFinish(n, now)
       \/ \E delayed \in BOOLEAN : DrainLost(n, now, delayed)
       \/ \E e \in Envelopes : SubmitForward(n, e, now)
  \/ DrainLand(n)
  \/ \E e \in Envelopes : Submit(n, e) \/ ReceiverAck(n, e) \/ Sweep(n, e)
  \/ \E delayed \in BOOLEAN : Crash(n, delayed)

Next ==
  \/ Tick
  \/ \E m \in Moves : MoveStep(m)
  \/ \E m \in Moves, e \in Envelopes :
       DrainStep(m, e) \/ \E now \in Now(Dst[m]) : LateForward(m, e, now)
  \/ \E n \in Nodes : NodeStep(n)

Spec == Init /\ [][Next]_vars

\* Clocks advance; the courier, the drain worker and the clean-up run for
\* ever and read a right clock again and again; a status call repeated for ever
\* is answered while the caller still waits, and a crash does not hit the same
\* step every time.
FairSpec ==
  /\ Spec /\ WF_vars(Tick)
  /\ \A m \in Moves : /\ WF_vars(CourierClaim(m, time)) /\ SF_vars(CourierAsk(m, time))
                      /\ WF_vars(CourierReturn(m, time, FALSE))
                      /\ SF_vars(SourceStatus(m, time)) /\ SF_vars(CourierApply(m, time))
  /\ \A m \in Moves, e \in Envelopes : SF_vars(DrainExpired(m, e, time))
  /\ \A n \in Nodes : /\ WF_vars(Cleanup(n, time)) /\ WF_vars(DrainFinish(n, time))
                      /\ WF_vars(DrainSettle(n, time))
                      /\ WF_vars(DrainLost(n, time, FALSE))

-----------------------------------------------------------------------------
Phases == Pending \cup {"None", "Prepared", "Active", "Expired", "Aborted", "Compacted"}
Routes == [epoch : Nat, move : Moves \cup {NoRecord}, active : BOOLEAN, released : BOOLEAN]
Drains == {IdleDrain} \cup ({"finish"} \X Moves)
            \cup ({"sending"} \X Moves \X Envelopes \X Moves)
            \cup ({"reply"} \X Moves \X Envelopes \X {"BAck", "Rejected"})

ClockTypes ==
  /\ time \in 0..MaxTime /\ floor \in [Nodes -> 0..MaxTime]
  /\ \A n \in Nodes : floor[n] <= time
HomeTypes ==
  /\ head \in [Nodes -> Records \cup {NoRecord}]
  /\ gate \in [Nodes -> {"open", "DormantInbox", "HomeMigrated"}]
  /\ route \in [Nodes -> Routes] /\ guard \in [Nodes -> Moves \cup {NoRecord}]
CallTypes ==
  /\ attested \subseteq Moves /\ lateCalls \subseteq Calls
  /\ dop \in [Moves -> [phase : Phases, offered : 0..MaxTime, sealed : 0..MaxTime]]
  /\ courier \in [Moves -> {"idle", "claimed", "commit", "status", "committed", "fenced"}]
SourceTypes ==
  /\ committedAt \in [Moves -> {Never} \cup 0..MaxTime]
  /\ fences \subseteq Moves /\ issued \subseteq Moves /\ fences \subseteq issued
  /\ sop \in [Moves -> {"None", "Live", "Done", "Compacted"}]
MailTypes ==
  /\ drain \in [Moves -> [Envelopes -> {"none", "Pending", "Held", "Rejected"}]]
  /\ closed \subseteq Moves /\ drainer \in [Nodes -> Drains]
  /\ lateForwards \subseteq Moves \X Envelopes
  /\ box \in [Nodes -> SUBSET Envelopes] /\ taken \in [Nodes -> SUBSET Envelopes]
  /\ hopped \in [Nodes -> SUBSET Envelopes] /\ acked \in [Nodes -> SUBSET Envelopes]

\* Every variable has its type, and a stored clock is never ahead of time.
TypeOK == ClockTypes /\ HomeTypes /\ CallTypes /\ SourceTypes /\ MailTypes

\* At most one node serves the account, however commits, activations, fences,
\* cancellations and stale copies of them interleave (root_gate.rs, TARGETS).
OneHome == \A n, k \in Nodes : Serves(n) /\ Serves(k) => n = k

\* The source never signs both outcomes of one authorization: not after a
\* fence was pruned, not after one that was never stored, not with a clock
\* set back (fence.rs, source.rs).
OutcomeExclusive == \A m \in issued : committedAt[m] = Never

\* The home record of a node only moves forward on the chain: a stale base or
\* a late activation never takes a node back (destination.rs).
HeadsAdvance ==
  [][\A n \in Nodes : head[n] # NoRecord /\ head'[n] # head[n]
                        => head[n] \in Lineage[head'[n]]]_vars

\* An accepted envelope that has not expired was acknowledged by its receiver,
\* or lies at a node that serves it, or is an obligation of the node it lies at.
NothingStranded ==
  \A e \in Envelopes : (time < RetainUntil[e] /\ \E n \in Nodes : e \in taken[n]) =>
    \E n \in Nodes :
      \/ e \in acked[n]
      \/ e \in box[n] /\ (Serves(n) \/ \E m \in Moves : Src[m] = n /\ e \in Rows(m))

\* Every move that was sealed comes to an end: the courier brings home a proof
\* or a fence, and after a commit every obligation of the drain is settled, the
\* held and the rejected ones when their retention ends, although calls are
\* lost, clocks step back and nodes crash (courier.rs, migration_drain.rs).
Unfinished(m) == dop[m].phase \in Pending \/ Rows(m) # {}
MoveCompletes == \A m \in Moves : Unfinished(m) ~> ~Unfinished(m)
=============================================================================
