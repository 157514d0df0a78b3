--------------------------- MODULE InboxSettlement ---------------------------
(***************************************************************************)
(* How a mailbox gets rid of its deliveries: acknowledgement through a     *)
(* candidate copy (router/ack_batch.rs, inbox/ack_candidate.rs), negative  *)
(* acknowledgement and dead letters (inbox.rs), expiry and the retention   *)
(* sweep (router/retention.rs, router_store/retention.rs), the durable     *)
(* cursor that all of them checkpoint (router_store/settlement.rs), and    *)
(* recovery from the rows or from the submission log (router_store.rs).    *)
(*                                                                         *)
(* One mailbox.  Its receivers are serialised by the settlement lease; the *)
(* sweepers (the 30-second worker and the retention service's requests)    *)
(* hold no lease.  A step is one critical section of the shard lock or one *)
(* storage transaction.  The publication core is reduced to the set of     *)
(* sequences in flight, which determines the published prefix.             *)
(***************************************************************************)
EXTENDS Integers, FiniteSets, FiniteSetsExt, Sequences, SequencesExt, TLC

CONSTANTS
    MaxSeq,      \* deliveries submitted in a behaviour
    Window,      \* ROUTER_ACK_WINDOW
    NackLimit,   \* ROUTER_NACK_RETRY_LIMIT
    DeadLimit,   \* ROUTER_DEAD_LETTER_LIMIT
    BatchLimit,  \* sequences of one session acknowledgement (64 in the code)
    Sweepers,    \* threads that run the retention sweep
    Wal,         \* deliveries are stored in the submission log, not in redb
    Mortal,      \* deliveries whose deadline can pass
    AckAbove,    \* receivers also acknowledge stored rows above the prefix
    Failures,    \* what storage may refuse before its commit: "ack", "nack"
    MaxCrashes   \* bound on process deaths

ASSUME BoundsAssumption ==
    /\ {MaxSeq, Window, NackLimit, DeadLimit, BatchLimit} \subseteq Nat \ {0}
    /\ MaxCrashes \in Nat
ASSUME MortalAssumption == Mortal \subseteq 1..MaxSeq
ASSUME ModeAssumption == {Wal, AckAbove} \subseteq BOOLEAN /\ Failures \subseteq {"ack", "nack"}

Seqs == 1..MaxSeq

VARIABLES
    mem,       \* the mailbox in the shard: rows and cursor
    inflight,  \* sequences allocated and neither stored nor aborted
    due,       \* checkpoint_due holds the mailbox
    rows,      \* live rows of the store: the redb table or the log's projection
    log,       \* every row ever stored
    cur,       \* the durable cursor
    durIssued, \* the durable issued counter
    expired,   \* deliveries whose deadline the clock has passed
    lease,     \* the receiver operation that holds the settlement lease
    sweep,     \* the sweep each sweeper is in
    told,      \* sequences a receiver was told are acknowledged
    done,      \* sequences acknowledged in the store, or dead-lettered
    crashes

vars == <<mem, inflight, due, rows, log, cur, durIssued, expired, lease, sweep,
          told, done, crashes>>

NoAttempts == [s \in Seqs |-> 0]
Idle == [phase |-> "idle"]

Init ==
    /\ mem = [issued |-> 0, pending |-> {}, settled |-> 0, acked |-> {},
              attempts |-> NoAttempts, dead |-> <<>>, last |-> 0, retired |-> {}]
    /\ cur = [settled |-> 0, acked |-> {}, attempts |-> NoAttempts,
              dead |-> <<>>, last |-> 0]
    /\ inflight = {} /\ due = FALSE
    /\ rows = {} /\ log = {} /\ durIssued = 0
    /\ expired = {}
    /\ lease = Idle
    /\ sweep = [w \in Sweepers |-> Idle]
    /\ told = {} /\ done = {}
    /\ crashes = 0

(***************************************************************************)
(* The mailbox operations of inbox.rs, as functions of the mailbox.        *)
(***************************************************************************)
\* The published prefix: everything below the first sequence in flight.
Published == IF inflight = {} THEN mem.issued ELSE Min(inflight) - 1

\* The largest prefix without a row of live, no larger than p.
PrefixBelow(live, p) == IF live = {} THEN p ELSE Min({p, Min(live) - 1})

Above(S, n) == {s \in S : s > n}

AdvanceSettled(m, p) ==
    LET settled == Max({m.settled, PrefixBelow(m.pending, p)})
    IN  [m EXCEPT !.settled = settled,
                  !.acked = Above(@, settled),
                  !.attempts = [s \in Seqs |-> IF s \in m.pending THEN @[s] ELSE 0]]

\* The records of the list that are in S, in their order.
Keep(dead, S) ==
    LET kept[i \in 0..Len(dead)] ==
            IF i = 0 THEN <<>>
            ELSE IF dead[i] \in S THEN Append(kept[i - 1], dead[i]) ELSE kept[i - 1]
    IN  kept[Len(dead)]

\* The newest DeadLimit records.
Bounded(dead) ==
    IF Len(dead) <= DeadLimit THEN dead
    ELSE SubSeq(dead, Len(dead) - DeadLimit + 1, Len(dead))

DeadLetter(m, s) ==
    [m EXCEPT !.pending = @ \ {s},
              !.attempts[s] = 0,
              !.acked = IF s > m.settled THEN @ \union {s} ELSE @,
              !.retired = @ \union {s},
              !.dead = Bounded(Append(@, s))]

\* The window has no room for s: full, and s neither next nor already there.
WindowFull(m, s) ==
    /\ Cardinality(m.acked) >= Window
    /\ s > m.settled + 1
    /\ s \notin m.acked

\* ack_backpressure_retry: the window is full behind an assignment in flight.
Backpressure(m, s) ==
    /\ WindowFull(m, s)
    /\ inflight # {} /\ Min(inflight) < s
    /\ Min(m.acked) >= Min(inflight)

\* Dead-letter the oldest deliveries below s until the window has room.
MakeRoom(m, s, p) ==
    LET room[h \in Nat] ==
            IF h = 0 THEN m
            ELSE IF h \in m.pending /\ WindowFull(room[h - 1], s)
                 THEN AdvanceSettled(DeadLetter(room[h - 1], h), p)
                 ELSE room[h - 1]
    IN  room[s - 1]

\* A sequence the mailbox knows: outstanding, or already settled.
Known(m, s) == s \in m.pending \/ s \in m.acked \/ s <= m.settled

ApplyAck(m, s, p) ==
    LET roomy == MakeRoom([m EXCEPT !.retired = {}], s, p)
    IN  AdvanceSettled([roomy EXCEPT !.last = s, !.acked = @ \union {s},
                                     !.attempts[s] = 0, !.pending = @ \ {s}], p)

\* One member of a batch: a refused one leaves the candidate as it was.
ApplyMember(b, s) ==
    IF ~Known(b.m, s) \/ Backpressure(b.m, s) THEN b
    ELSE LET n == ApplyAck(b.m, s, Published)
         IN  [m |-> n, acks |-> b.acks \union {s}, retired |-> b.retired \union n.retired]

\* A batch on the candidate, in the order of the sequences.
ApplyBatch(m, S) ==
    LET batch[s \in Nat] ==
            IF s = 0 THEN [m |-> m, acks |-> {}, retired |-> {}]
            ELSE IF s \in S THEN ApplyMember(batch[s - 1], s) ELSE batch[s - 1]
    IN  batch[MaxSeq]

\* Mutant: one negative acknowledgement too many before the dead letter.
ApplyNackLate(m, s, p) ==
    LET n == [m EXCEPT !.retired = {}]
    IN  IF s \notin m.pending THEN n
        ELSE IF m.attempts[s] + 1 <= NackLimit THEN [n EXCEPT !.attempts[s] = @ + 1]
        ELSE AdvanceSettled(DeadLetter(n, s), p)

ApplyNack(m, s, p) ==
    LET n == [m EXCEPT !.retired = {}]
    IN  IF s \notin m.pending THEN n
        ELSE IF m.attempts[s] + 1 < NackLimit THEN [n EXCEPT !.attempts[s] = @ + 1]
        ELSE AdvanceSettled(DeadLetter(n, s), p)

ExpireEntries(m, horizon, p) ==
    LET n == AdvanceSettled([m EXCEPT !.pending = @ \ horizon], p)
    IN  [n EXCEPT !.dead = Keep(@, Seqs \ horizon)]

(***************************************************************************)
(* The durable cursor.                                                     *)
(***************************************************************************)
\* The mailbox the store describes: the cursor c with the rows in pending.
Mailbox(c, pending) ==
    [issued |-> durIssued, pending |-> pending, settled |-> c.settled,
     acked |-> c.acked, attempts |-> c.attempts, dead |-> c.dead, last |-> c.last,
     retired |-> {}]

Retires(c, s) == s = c.last \/ s \in c.acked \/ s \in c.retired

\* Mutant: the published prefix is settled without looking at the rows.
CheckpointSettlementBlind(incoming, visible, p) ==
    LET c == [incoming EXCEPT !.acked = @ \union cur.acked]
    IN  [c EXCEPT !.settled = p, !.acked = Above(@, p)]

\* The cursor that incoming becomes over the rows the transaction sees.
CheckpointSettlement(incoming, visible, p) ==
    LET c == [incoming EXCEPT !.acked = @ \union cur.acked]
        live == {s \in Above(visible, cur.settled) : ~Retires(c, s)}
        settled == PrefixBelow(live, p)
    IN  [c EXCEPT !.settled = settled, !.acked = Above(@, settled)]

MergeCursor(c) ==
    LET settled == Max({c.settled, cur.settled})
    IN  [settled |-> settled, acked |-> Above(c.acked \union cur.acked, settled),
         attempts |-> c.attempts, dead |-> c.dead, last |-> c.last]

\* The rows a transaction removes: by key in redb, through the settled cursor
\* in the log's projection.
Removed(c, byKey) ==
    IF Wal THEN {s \in Seqs : s <= c.settled} \union c.acked \union c.retired
           ELSE byKey

\* Mutant: the cursor is written as it was taken.
CheckpointOverwrite(incoming, visible, base, byKey, p) ==
    /\ cur' = [settled |-> incoming.settled, acked |-> incoming.acked,
               attempts |-> incoming.attempts, dead |-> incoming.dead,
               last |-> incoming.last]
    /\ rows' = base \ Removed(incoming, byKey)
    /\ durIssued' = Max({durIssued, incoming.issued})

\* One checkpoint transaction: the head scan sees visible, base are the rows
\* it does not remove on its own account.
Checkpoint(incoming, visible, base, byKey, p) ==
    LET c == CheckpointSettlement(incoming, visible, p)
    IN  /\ cur' = MergeCursor(c)
        /\ rows' = base \ Removed(c, byKey)
        /\ durIssued' = Max({durIssued, incoming.issued})

\* What a receiver's commit removes, and what a retention checkpoint removes.
ReceiverKeys(c) == c.retired
RetentionKeys(c) == c.retired \union c.acked \union {c.last} \union cur.acked

(***************************************************************************)
(* Submissions, as far as the mailbox sees them.                           *)
(***************************************************************************)
\* A submission is allocated the next sequence and appended to the shard.
AppendEntry ==
    /\ mem.issued < MaxSeq
    /\ LET s == mem.issued + 1
       IN  /\ mem' = [mem EXCEPT !.issued = s, !.pending = @ \union {s}]
           /\ inflight' = inflight \union {s}
    /\ UNCHANGED <<due, rows, log, cur, durIssued, expired, lease, sweep, told,
                   done, crashes>>

\* Its row is durable and its assignment leaves the registry.
Store(s) ==
    /\ s \in inflight
    /\ inflight' = inflight \ {s}
    /\ rows' = rows \union {s}
    /\ log' = log \union {s}
    /\ durIssued' = Max({durIssued, s})
    /\ UNCHANGED <<mem, due, cur, expired, lease, sweep, told, done, crashes>>

\* Its assignment is tombstoned; the cleanup hook retires the pending row.
AbortEntry(s) ==
    /\ s \in inflight
    /\ inflight' = inflight \ {s}
    /\ mem' = [mem EXCEPT !.pending = @ \ {s}]
    /\ durIssued' = Max({durIssued, s})
    /\ UNCHANGED <<due, rows, log, cur, expired, lease, sweep, told, done, crashes>>

(***************************************************************************)
(* Receivers, under the settlement lease.                                  *)
(***************************************************************************)
\* A session acknowledges published sequences; the other path acknowledges a
\* stored delivery wherever it is.
AckInputs ==
    {S \in SUBSET (1..Published) : Cardinality(S) \in 1..BatchLimit}
        \union (IF AckAbove THEN {{s} : s \in Above(log, Published)} ELSE {})

\* The candidate is cloned from the shard and the batch applied to it.
AckBegin(S) ==
    /\ lease = Idle
    /\ LET b == ApplyBatch(mem, S)
       IN  /\ b.acks # {}
           /\ lease' = [phase |-> "ack", cand |-> [b.m EXCEPT !.retired = b.retired],
                        acks |-> b.acks, before |-> ToSet(mem.dead)]
    /\ UNCHANGED <<mem, inflight, due, rows, log, cur, durIssued, expired, sweep,
                   told, done, crashes>>

\* record_leased_ack_batch: the acknowledged rows are retired as well.
AckCommit ==
    /\ lease.phase = "ack"
    /\ LET c == [lease.cand EXCEPT !.retired = @ \union lease.acks]
       IN  /\ Checkpoint(c, rows, rows, ReceiverKeys(c), Published)
           /\ done' = done \union c.retired
    /\ lease' = [lease EXCEPT !.phase = "committed"]
    /\ UNCHANGED <<mem, inflight, due, log, expired, sweep, told, crashes>>

\* Mutant: the candidate replaces the shard's rows.
PublishAckCursorWhole(m, c, acks, before) ==
    [c EXCEPT !.issued = m.issued, !.retired = {}]

\* The committed candidate merged with what the shard became meanwhile.
PublishAckCursor(m, c, acks, before) ==
    LET added == Keep(c.dead, m.pending \ (before \union ToSet(m.dead)))
    IN  [issued   |-> m.issued,
         pending  |-> m.pending \ (acks \union c.retired),
         settled  |-> Max({c.settled, m.settled}),
         acked    |-> c.acked \union m.acked,
         attempts |-> c.attempts,
         dead     |-> Bounded(m.dead \o added),
         last     |-> c.last,
         retired  |-> {}]

\* Mutant: a prefix that grew during the commit is not checkpointed.
AckPublishQuiet ==
    /\ lease.phase = "committed"
    /\ mem' = AdvanceSettled(PublishAckCursor(mem, lease.cand, lease.acks, lease.before),
                             Published)
    /\ due' = due
    /\ told' = told \union lease.acks
    /\ lease' = Idle
    /\ UNCHANGED <<inflight, rows, log, cur, durIssued, expired, sweep, done, crashes>>

AckPublish ==
    /\ lease.phase = "committed"
    /\ mem' = AdvanceSettled(PublishAckCursor(mem, lease.cand, lease.acks, lease.before),
                             Published)
    /\ due' = (due \/ mem'.settled > lease.cand.settled)
    /\ told' = told \union lease.acks
    /\ lease' = Idle
    /\ UNCHANGED <<inflight, rows, log, cur, durIssued, expired, sweep, done, crashes>>

\* A negative acknowledgement changes the shard first and the store after.
NackApply(s) ==
    /\ lease = Idle
    /\ s \in 1..Published
    /\ mem' = ApplyNack(mem, s, Published)
    /\ due' = (due \/ mem'.retired # {})
    /\ lease' = [phase |-> "nack", cand |-> mem']
    /\ done' = done \union mem'.retired
    /\ UNCHANGED <<inflight, rows, log, cur, durIssued, expired, sweep, told, crashes>>

NackCommit ==
    /\ lease.phase = "nack"
    /\ Checkpoint(lease.cand, rows, rows, ReceiverKeys(lease.cand), Published)
    /\ lease' = Idle
    /\ UNCHANGED <<mem, inflight, due, log, expired, sweep, told, done, crashes>>

\* A commit is refused while the transaction is still the caller's.
CommitFails ==
    /\ lease.phase \in Failures
    /\ lease' = Idle
    /\ UNCHANGED <<mem, inflight, due, rows, log, cur, durIssued, expired, sweep,
                   told, done, crashes>>

(***************************************************************************)
(* The retention sweep, with one reading of the clock.                     *)
(***************************************************************************)
Elapse(s) ==
    /\ s \in Mortal \ expired
    /\ s <= mem.issued
    /\ expired' = expired \union {s}
    /\ UNCHANGED <<mem, inflight, due, rows, log, cur, durIssued, lease, sweep, told,
                   done, crashes>>

\* Expired deliveries leave the shard.
SweepExpire(w) ==
    /\ sweep[w] = Idle
    /\ IF mem.pending \intersect expired = {} THEN UNCHANGED <<mem, due>>
       ELSE /\ mem' = ExpireEntries(mem, expired, Published)
            /\ due' = TRUE
    /\ sweep' = [sweep EXCEPT ![w] = [phase |-> "expired", horizon |-> expired]]
    /\ UNCHANGED <<inflight, rows, log, cur, durIssued, expired, lease, told, done,
                   crashes>>

\* The cursors that are due are taken, and then saved in one transaction.
SweepTake(w) ==
    /\ sweep[w].phase = "expired"
    /\ IF due THEN /\ mem' = AdvanceSettled(mem, Published)
                   /\ sweep' = [sweep EXCEPT ![w] = [phase |-> "taken",
                                    horizon |-> @.horizon, cursor |-> mem']]
       ELSE /\ mem' = mem
            /\ sweep' = [sweep EXCEPT ![w].phase = "saved"]
    /\ due' = FALSE
    /\ UNCHANGED <<inflight, rows, log, cur, durIssued, expired, lease, told, done,
                   crashes>>

SweepSave(w) ==
    /\ sweep[w].phase = "taken"
    /\ LET c == sweep[w].cursor IN Checkpoint(c, rows, rows, RetentionKeys(c), Published)
    /\ sweep' = [sweep EXCEPT ![w] = [phase |-> "saved", horizon |-> @.horizon]]
    /\ UNCHANGED <<mem, inflight, due, log, expired, lease, told, done, crashes>>

\* The durable rows past the deadline go, with a checkpoint of the prefix.
SweepPurge(w) ==
    /\ sweep[w].phase = "saved"
    /\ LET live == rows \ sweep[w].horizon
           old == Mailbox(cur, {})
       IN  IF live = rows THEN UNCHANGED <<cur, rows, durIssued>>
           ELSE Checkpoint(old, live, live, RetentionKeys(old), Published)
    /\ sweep' = [sweep EXCEPT ![w] = Idle]
    /\ UNCHANGED <<mem, inflight, due, log, expired, lease, told, done, crashes>>

(***************************************************************************)
(* The process dies and loads the mailbox again before it serves.          *)
(***************************************************************************)
\* Mutant: the log is read through the settled prefix alone.
RecoveredPrefix == IF Wal THEN Above(log, cur.settled) ELSE rows

\* The rows of the store after it was opened: the table, or the log read
\* through the durable cursor.
Recovered == IF Wal THEN Above(log, cur.settled) \ cur.acked ELSE rows

\* The rows delivered again: the log's are filtered by their deadline.
Restored == IF Wal THEN Recovered \ expired ELSE Recovered

Crash ==
    /\ crashes < MaxCrashes
    /\ crashes' = crashes + 1
    /\ LET m == AdvanceSettled(Mailbox(cur, Restored), durIssued)
       IN  /\ mem' = m
           /\ IF Wal \/ m.settled # cur.settled
              THEN Checkpoint(m, Restored, Recovered, RetentionKeys(m), durIssued)
              ELSE UNCHANGED <<cur, rows, durIssued>>
    /\ inflight' = {} /\ due' = FALSE
    /\ lease' = Idle
    /\ sweep' = [w \in Sweepers |-> Idle]
    /\ UNCHANGED <<log, expired, told, done>>

Sweep(w) == SweepExpire(w) \/ SweepTake(w) \/ SweepSave(w) \/ SweepPurge(w)

Next ==
    \/ AppendEntry
    \/ \E s \in Seqs : Store(s) \/ AbortEntry(s) \/ NackApply(s) \/ Elapse(s)
    \/ \E S \in AckInputs : AckBegin(S)
    \/ AckCommit \/ AckPublish
    \/ NackCommit \/ CommitFails
    \/ \E w \in Sweepers : Sweep(w)
    \/ Crash

Spec == Init /\ [][Next]_vars

(***************************************************************************)
(* The threads of the process keep running: a receiver that holds the      *)
(* lease finishes, and every sweeper keeps sweeping.                       *)
(***************************************************************************)
Receive == AckCommit \/ AckPublish \/ NackCommit

FairSpec == Spec /\ WF_vars(Receive) /\ \A w \in Sweepers : WF_vars(Sweep(w))

-----------------------------------------------------------------------------
(***************************************************************************)
(* Properties.                                                             *)
(***************************************************************************)
MailboxType == [issued : 0..MaxSeq, pending : SUBSET Seqs, settled : 0..MaxSeq,
                acked : SUBSET Seqs, attempts : [Seqs -> 0..NackLimit - 1],
                dead : BoundedSeq(Seqs, DeadLimit), last : 0..MaxSeq,
                retired : SUBSET Seqs]

TypeOK ==
    /\ mem \in MailboxType
    /\ Mailbox(cur, {}) \in MailboxType
    /\ rows \subseteq log /\ log \subseteq Seqs
    /\ inflight \subseteq 1..mem.issued
    /\ durIssued \in 0..mem.issued
    /\ lease.phase \in {"idle", "ack", "committed", "nack"}
    /\ \A w \in Sweepers : sweep[w].phase \in {"idle", "expired", "taken", "saved"}
    /\ expired \subseteq Mortal /\ due \in BOOLEAN
    /\ told \subseteq Seqs /\ done \subseteq Seqs

\* Every stored delivery can still be read, unless the store retired it (by an
\* acknowledgement or as a dead letter) or its deadline passed.
NothingLost == log \subseteq mem.pending \union done \union expired

\* A receiver is never given again what it was told is acknowledged.
AckSticks == told \intersect mem.pending = {}

\* A dead letter in the store has no row left beside it.
DeadLetterHasNoRow == ToSet(cur.dead) \intersect rows = {}

\* What the cursors say of a sequence is true: the settled prefixes cover no row
\* that is still to be delivered, in the shard or in the store, and none in
\* flight; a dead letter in the store has no row beside it.
SettledTruth ==
    /\ \A s \in mem.pending \union inflight : s > mem.settled
    /\ \A s \in rows \union inflight : s > cur.settled
    /\ DeadLetterHasNoRow

\* The durable prefix only grows, whatever is written over it.
SettledMonotone == [][cur'.settled >= cur.settled]_vars

\* What the shard has settled becomes durable: again and again the store has
\* caught up with the shard (checkpoint_due, retain_cursor_checkpoints).
SettledPersists == []<>(cur.settled >= mem.settled)
=============================================================================
