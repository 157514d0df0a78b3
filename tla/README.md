# Ramflux: a verification project in TLA+

Ramflux is an end-to-end encrypted messaging system: clients (the SDK, `rf`,
agents) talk to a *gateway*; a *router* stores opaque envelopes in per-device
inboxes; *notify*, *relay*, *signaling*, *federation* and *retention* services
surround it. This directory models the part of it where concurrency, crashes and
durability meet: the delivery path of the router, in
`crates/ramflux-node-core/src`, the submission log under it, and the move of an
account from one home node to another. Six state machines and two abstract
specifications are model-checked with TLC; safety of all six state machines, and
the refinement of both abstract specifications, are proved with TLAPS for every value
of their constants.

Source paths are relative to `crates/ramflux-node-core/src` unless they say
otherwise. `PROJECT.json` maps every definition to its lines.

## 1. The system

### What happens to an envelope

1. A client submits an envelope. `prepare_submission` (router_engine.rs) looks up
   whether the same envelope was sent before (*sender retries*), takes a permit
   and a lease on the mailbox (*admission leases*), appends the delivery to the
   in-memory shard and **reserves** an inbox sequence (*publication core*).
2. The reservation is a descriptor with an atomic state. The request **hands it
   off** to the durable writer; the writer stores the row, or the store's
   **resolver** thread, if the request gave up, claims the descriptor and stores a
   **tombstone**. Exactly one of them may win.
3. When the assignments below it are all resolved, a sequence is part of the
   **published prefix** P; only then is the client answered `accepted` or
   `aborted_retry_safe`, and only then does a receiver see the delivery.
4. The receiver acknowledges, in batches and out of order, or nacks; deliveries
   also expire. What is gone from the bottom of the mailbox is the **settled
   prefix** R, kept in memory and in a durable cursor (*inbox settlement*).
5. Any error that leaves the outcome of a commit unknown **fences** the process
   (`fatal_durability.rs`); a supervisor aborts it, and recovery starts from the
   store and the submission log.

### Inventory

| Component | State | Operations | What makes it correct |
| --- | --- | --- | --- |
| publication core (`router_store/publication.rs`, `publication/`) | per inbox: allocated, published, committed settled, in-flight descriptors, aborted ranges | reserve, hand off, accept, definite non-write, resolver scan/claim/abort, settle, register, retire, recover | a sequence is a row or a tombstone, never both; answers tell the truth; P is explained, monotone and catches up |
| admission leases (`router_store/submission_barrier.rs`) | map of reference-counted gates; readers, writer, waiting, settlement per gate | acquire as reader or writer, settle, release, unmap | a home cutover excludes everybody, settlements exclude each other, an admitted submission is at home, no starvation |
| sender retries (`router_store/sender_retry*`) | registry of slots, durable sender index, permits | admit, attach, bind, resolve, drop, close | an envelope is stored once; all retries agree; no waiter waits for ever |
| inbox settlement (`inbox.rs`, `inbox/`, `router/ack_batch.rs`, `session_push.rs`, `router_store/settlement.rs`) | pending rows, cursor (settled, acked, attempts, dead letters), due mark; durable rows and cursor | append, ack batch, nack, dead letter, checkpoint, recover | nothing is lost, nothing acknowledged comes back, the settled prefix is true |
| retention (`router_store/retention.rs`, `router/retention.rs`, router `retention.rs`) | deadline indexes, taken cursors | expire, take, save, purge | a stale cursor never undoes a newer one |
| replay guard (`replay_guard.rs`, `publication/operation.rs`) | tentative and durable replay keys, resources held by assignments | reserve, commit, release | a resource is freed once, and a key is not freed while its row may exist |
| router WAL (`router_wal.rs`, `router_wal/`, `durability_io.rs`) | segment files, chain and incarnation in redb, in-memory index | append, group commit or pipeline, roll, retire, recover, rotate the incarnation | what a caller was told is stored is found until it is due, or the incarnation changes; a crash alone never changes it |
| home migration (`home_migration_store/`, `home_migration_courier.rs`, `home_migration_operations.rs`, router `migration_drain.rs`) | at two nodes: head record, gate, route, guard, operation rows, proofs, fences, drain rows, clock floor | attest, prepare, seal, commit, fence, activate, courier, drain, clean up | one home, one outcome per authorization, no envelope stranded, the move ends |
| forwarded delivery (`forwarded_delivery.rs`, `router/committed_forward.rs`) | local delivery index, forward count | forward, activate on the proof, recognise | once at the destination, never a second hop |
| custody (`custody_*.rs`) | budgets, sessions, authorities | admit, deliver, revoke | budgets are not exceeded |
| gateway (`apps/ramflux-gateway`) | sessions, push queue, issued probe | push, ack, resume | order and loss across reconnects |
| notify (`notify.rs`, `notify_wal.rs`) | wakes, WAL, routes | enqueue, attempt, retire | a wake is not lost, not repeated for ever |
| federation, relay, signaling | spool; objects and grants; calls | deliver, store, relay | later, or out of scope |
| SDK, storage, sync, crypto, transport, protocol | client state; pure data; I/O | | receipts planned; the rest out of reach |

### How the components interact

`prepare_submission` calls the retry registry, then the leases, then the shard and
the publication core; the store's commit calls back into the core, the core's
`finish` calls the retry registry's abort hook and the shard's cleanup hook; the
settlement transaction reads P from the core and later tells it the new R; a
cutover takes the same gates as everybody else, as a writer. With the log enabled, the
store's commit is an append to it. The two nodes of a move share nothing: the
destination's courier and the source's drain worker call the other node, and an owner
may carry any signed record from one to the other. Lock order is shard,
then publication registry; neither crosses storage I/O, which is why so much of the
code works on values read before a commit and applied after it.

### What is hard here

* **Interleaving and atomicity.** Hand-off against claim of one descriptor; a
  snapshot of the registry used after the lock is gone; lookup and registration of
  a retry; a candidate cursor cloned before a commit and merged after it; two
  sweepers with stale cursors.
* **Crashes.** Between a commit and its publication; after a write that reported an
  error; between the three steps of a sweep; with any part of an unsynced file left,
  in the middle of a roll, a retirement or a rotation.
* **Unreliable delivery and clocks.** A commit or status call lost, or answered after
  the courier gave up; a forward stored although its answer was lost; a clock that
  steps back over a deadline by which something was already pruned.
* **Partial failure.** One child of a fan-out taken by the resolver; a nack that
  changed memory and not the store; an owner dropped after its row was stored.
* **Liveness.** A panicking request must not block the prefix; a waiter must be
  resolved; a queued cutover must get its turn; a prefix settled in memory must
  become durable; every append is answered; a sealed move reaches a proof or a fence
  and its backlog an end.
* **Limits.** The last sequence, the abort ledger's budget, permits, the ack
  window, the nack limit, the dead-letter list.

`PROJECT.json` lists these as hazards, each at its line with the properties that
would catch it going wrong.

## 2. The modules

A step of every model is one critical section of a lock, one atomic operation or
one storage transaction: the grain at which threads of the code can interleave.

### Publication (`Publication.tla`)

Threads: one per request, the resolver, receivers, the deletion of a target,
shutdown, the supervisor. `allocated`, `published`, `committed`, `inflight`,
`aborted` and `retired` are the registry; `dstate` and `detached` the descriptors;
`row`, `acked`, `durIssued`, `durAborted`, `durSettled`, `deleted` the store.

* A submission is a *batch* of assignments, so fan-outs and single submissions are
  one action set. `Reserve` charges capacity for the whole batch or refuses it.
* `HandOff` and `ResolverClaim` are the two compare-and-exchange operations on a
  descriptor. The resolver's scan, its load of each descriptor and its claim are
  separate steps, as in the code.
* `WriteFails` covers an error before and after the commit landed: the outcome is
  chosen nondeterministically and the process is fenced.
* Aborted ranges are the set of their sequences; `RangeStarts` counts the ranges
  that `coalesce` would keep, which is what the budget is about. The reservation
  counter equals the number of assignments in flight and is not a variable.
* Deletion un-retires and fences under the shard lock when it fails, so that is one
  step. An incarnation is abstracted: a deleted target stays deleted.
* After a crash `published` keeps its value while the process is down, since it
  is what clients saw. There may be unexplained holes below the recovered counter
  (an assignment in flight when the process died); they are never filled.
* `ackPend = 0` as a guard of `Acknowledge` is the settlement lease, which
  serialises the receivers of a mailbox.
* Left out: the upgrade failure of a dropped core, and replay resources.

**InboxContract** (`InboxContract.tla`) is what this promises, without threads,
descriptors, a resolver or crashes: rows appear above the published prefix and all
rows of a submission at once, the prefix only moves forward, an answer is given once
and is true, a deleted inbox stays empty. `KeepsContract` says that Publication
implements it. The mapping takes `published`, `row`, `acked` and `deleted` as they
are and reads the answer from the request's stage and verdict.

### SubmissionBarrier (`SubmissionBarrier.tla`)

Gates are objects with identities (`Gens`), reached from the map and from leases by
reference; `StrongCount` is the `Arc` count. A thread walks the keys of its path in
order (root, then mailbox), waits or gives up, checks the caches, takes a permit,
does its work and drops its leases one at a time. Dropping is three steps (release
the gate, unmap if alone, drop the reference), as `Drop` and the field drop are in
Rust. Threads repeat for ever.

`Gens` stands for memory: an allocation finds an object no lease refers to
(`AllocationAssumption`), and there are finitely many threads.

Left out: lock poisoning, a fan-out over several mailboxes, and the second lease of
`retain_home_operation`. The caches of inactive roots and targets change in one
step; the recheck of a competing commit is part of `Commit`. Timeouts may fire at
any time and liveness never relies on one.

### SenderRetry (`SenderRetry.tla`)

A slot is named after the request that created it. `permit` says where the
admission permit is: with the slot, or with a reply under way. The assignment of
the owner is reduced to the fate of its descriptor, which is what module
Publication proves about it: handed to the writer or aborted, not both. `Close` is
the store being dropped under a live owner whose assignment is not bound yet.

`KeyOf` is one key for the registry and for the durable index. In the code the
registry's key also carries the device (replay_guard.rs:175), the index's does not
(router_store.rs:401); the requests of the model come from one device, for which the two
tell the same requests apart.

Left out: expiry of index entries, the incarnation check after a deletion, the
replay guard, several children of one envelope.

### InboxSettlement (`InboxSettlement.tla`)

One mailbox. `mem` is the mailbox in the shard, `cur` the durable cursor, `rows` the
live rows of the store and `log` every row ever stored. The constant `Wal` chooses
between the two storages: in redb rows are removed by key; in the submission log
nothing is removed, the projection hides what the cursor covers, and recovery
reads the log again through the cursor (`Recovered`).

* `AckBegin` clones the mailbox and applies the batch to the clone (one step: the
  clone is private), `AckCommit` is the transaction, `AckPublish` merges the clone
  with what the shard became meanwhile. A nack changes the shard first
  (`NackApply`) and the store after (`NackCommit`).
* The sweep is the four steps of `retention.rs`: expire in memory, take the due
  cursors, save them, purge the store. The periodic worker and the requests of the
  retention service are two sweepers; the runs have one of them.
* `Checkpoint` is the transaction all of them share: `CheckpointSettlement` walks
  the rows above the previous prefix, `MergeCursor` merges with the previous cursor,
  `Removed` are the rows that go.
* The publication core is reduced to `inflight`; P follows from it.
* The loops of the code over ordered sequences (`MakeRoom`, `ApplyBatch`, `Keep`) are
  recursive functions over the sequences.
* `AckAbove` allows acknowledgements of stored rows above P, as the test
  `guard_blocked_ack_window` of `router/ack_batch/tests.rs` makes them; sessions
  only acknowledge up to P. `Mortal` are the deliveries whose deadline can pass.
  `Failures` says what storage may refuse before its commit, acks or nacks.
* A failed commit of a sweep is inside `fatal_durability::run` and fences the
  process, so it is a `Crash`; the requeue after it is not reached and not
  modelled. The startup checkpoint is part of `Crash`. The log's
  `observe_settlement` is part of the commit it follows.
* Left out: selectors by envelope id for old clients, the bounded lists of recent
  envelope ids, incarnations, the settlement of migrated rows.

### RouterWal (`RouterWal.tla`)

One shard directory. `disk` maps a segment to its file as the page cache shows it,
with the number of frames known to be on disk (`durable`, -1 while the file's
directory entry is not synced either); `assoc` is the association row in redb
(incarnation, rotation marker, anchor and head of the chain); `mem`, `writer`,
`queue`, `fsyncQ`, `flush` and `sweep` are the process.

* Both modes are modelled: group commit, where the writer syncs and answers, and the
  pipeline, where it passes groups to the fsync thread and goes on writing. In the
  pipeline a roll does not sync the file it leaves; the group carries both files.
* A roll is the code's four steps: create with a header, sync file and directory,
  commit the head in redb, use it. Retention moves the anchor in redb before it
  unlinks. `RollBegin` may fire whenever the segment holds a frame, because a
  segment also rolls by age.
* `Crash` is a power loss: every file keeps what was synced and any prefix of the
  rest, possibly with a torn frame. `WriterError` leaves a torn frame and fences.
* Start-up is `Recover`, or, when a recorded segment is missing or a header names a
  predecessor that is not there, `RotateMark`, `RewriteOne` per segment and
  `RotateCommit`, with a crash possible between them; then `OpenCreate` and `Open`. The
  sweep and the rewriting take the lowest segment of the set they have left, which is
  the order of the code's sorted lists. `inspect`, the truncation of a bad tail and the
  re-sync are part of the step that calls them; `StartCutShort` is a start that dies
  after them and before its first commit.
* `EmptyResidue` and `Repaired` are the repair inside `inspect`: the header of a newest
  file that holds no frame is written anew, whether it was cut short or complete, and
  then names the file below it. Segments are inspected in ascending order and only the
  newest is repaired, so every parent is compared after the repair.
* `LoseSegment` takes any file of the chain away while the log is down. `Unseen` are the
  losses this repair can hide (section 3): a segment that is neither the recorded anchor
  nor the recorded head, below a head that holds no record. `clock.gone` collects the
  records of such segments.
* Simplified in `Mismatch`: the `identity` file, incarnations of recovered records
  that contradict the cursors, and cursors without an association row rotate as well
  (recovery.rs:179, 345-353). They stand for a foreign or restored directory, which is
  not modelled; in the directory of the model they agree.
* Left out: segments of the first format, the operator's quarantine
  (`maintenance.rs`), the issued watermarks in redb, several shards (they share only
  the fence and the association row), and a tail of zero bytes, which recovery
  refuses and leaves to the operator.

**DurableLog** (`DurableLog.tla`) is the promise: a record whose append succeeded, or
that a lookup has shown, is found after every restart until it is due, unless the
restart announces a loss by a new incarnation. `Implements` says that RouterWal
refines it, with the records in `clock.gone` no longer promised; `live` is the index of a running process, `epoch` the incarnation it
opened with. `owed`, the records somebody was told are stored, is a history variable
of both.

### HomeMigration (`HomeMigration.tla`)

One account with one device, and any number of nodes and moves. A home record is
`Genesis` or the move whose commit created it; `Base` and `Epoch` of a move are the
record it replaces and its epoch. The variables are the tables of
`home_migration_store.rs` (`head`, `gate`, `route`, `guard`, the destination's
operation `dop` and the source's `sop`, `committedAt` for PROOFS, `fences`, `drain`,
`closed`, `floor` for CLOCK), the courier and the drain worker with the calls they
have open, and the inbox rows and the local delivery index of each node.

* `Lineage[r]` is the chain of a record, which the code walks back record by record
  (`VerifiedHome::extends`): the records in every set that has `r` and, with a move,
  the record it replaces. Stated so, it needs no recursion.
* A transaction reads `now`: the right time, or any clock not below the stored floor,
  of which the two extremes are taken; a transaction that commits stores it. Code
  that refuses rolls the floor back with the rest, and so does the model.
* A signed proof or fence is a fact: `RelayProof` and `RelayFence` may bring it to
  the destination at any time. `issued` are fences that were ever signed, stored or
  not; this is what `OutcomeExclusive` is about.
* A call that the caller gave up on stays in `lateCalls` or `lateForwards` and may
  be served later, more than once.
* `DrainLand` covers both answers of the destination; `Rejected` is the signed
  permanent refusal. `hopped` are rows stored from a forward: they carry a forward
  count and are held instead of forwarded again.
* Simplified: the hard deadline counts from the offer's instant, in the code from
  `authorization.issued_at` (time.rs:20); commit, fence and clean-up use the one value
  either way. `ProofHolds` leaves out the comparison with the base's node record
  (forwarded.rs:54), so it admits more forwards; a refused forward is a `DrainLost`. The
  courier's retry is status-only by what holds when its answer is applied, in the code by
  what held when it asked (home_migration_courier.rs:100).
* Left out: signatures and chain proofs, numeric budgets (only the live flag and one
  unsealed reservation per account), the courier's lease and backoff (shorter than a
  unit of time), counters of the backlog (they follow from the rows), recovery of the
  custody authority. The caches of inactive routes are equal to the tables here;
  SubmissionBarrier is about the moments at which they are not. Migration is
  release-gated (`docs/home_migration_runtime.md`).

## 3. What is checked

"Mutant" means that for every property a plausible bug in the code (named in
`PROJECT.json`) makes TLC report that property violated under the same
configuration. States are distinct states.

| Run | Bounds | Properties | States |
| --- | --- | --- | --- |
| pub_inbox | 1 inbox, 3 submissions, 3 sequences, 2 ranges, deletion, aborts and restarts | TypeOK, PrefixExplained, SettledIsRetired, RowOrTombstone, LedgerFits, KeepsContract | 2.7 M |
| pub_fanout | 2 inboxes, a fan-out over both and a submission to one, 1 crash, fair | AcceptedIsDurable, AbortedIsRetrySafe, KeepsContract, EveryRequestEnds, PrefixCatchesUp | 0.5 M |
| bar_submit | 2 submissions (one without a root), 1 cutover, fair | AdmittedIsHome, BacklogComplete, CutoverGetsTurn | 0.5 M |
| bar_receivers | 2 receivers, 2 cutovers | SettlementExclusive, CutoverExcludes | 2.5 M |
| retry | 2 equal requests, 1 with other content, 2 permits, 1 crash, fair | TypeOK, StoredOnce, AcceptedAgree, AbortedIsFinal, SlotIsAttended, PermitsReturn, WaitersResolve | 0.2 M |
| inbox_redb | 3 deliveries (1 mortal), window 1, nack limit 2, 1 sweeper, 1 crash | TypeOK, NothingLost, SettledTruth, SettledMonotone | 4.0 M |
| inbox_wal | 3 immortal deliveries in the log, acks above P, refused acks, 1 sweeper, 1 crash, fair | NothingLost, AckSticks, SettledPersists | 0.7 M |
| wal | 3 appends, 3 segments of 2 frames, both modes, 1 crash beside those of a fence, 1 error, 1 lost segment, 2 instants, fair | TypeOK, NoSpuriousRotation, Implements, EveryAppendAnswered | 0.4 M |
| mig_moves | 2 nodes, 2 competing moves (symmetric), 5 instants, commit delay 1, skew 1 | OneHome, OutcomeExclusive, HeadsAdvance | 0.6 M |
| mig_drain | 2 nodes, 1 move, 1 envelope that outlives the window, 3 instants, fair | TypeOK, NothingStranded, MoveCompletes | 0.1 M |

What the runs show together: the answers of the router are true and final
(`AcceptedIsDurable`, `AbortedIsRetrySafe`, `AcceptedAgree`, `AbortedIsFinal`),
what a receiver has passed never changes behind it (`KeepsContract`), what was acknowledged is gone and what was not is still there
(`AckSticks`, `NothingLost`, `SettledTruth`, `SettledIsRetired`), the log under
the store keeps what it confirmed (`Implements`), a migration takes everything along,
lets nobody in and leaves one home (`BacklogComplete`, `AdmittedIsHome`, `OneHome`,
`NothingStranded`), and nobody waits for ever.

Why the bounds are enough for the cases that matter: two or three submissions put
one assignment below, at and above the one being raced; a ledger of two ranges is
full with two non-adjacent tombstones; every failed write or tombstone fences,
aborts and restarts the process, without bound, and in the runs with a crash it
also falls between any two other steps; gate identities let a gate be removed and
recreated under every thread of the run; a window of one is full after one
out-of-order acknowledgement. Two requests with one identity make an owner and a
waiter, the third is the conflict, and two permits leave the last of them none. Three
appends make a batch of two and a group behind it, and put frames on either side of two
rolls; with three segments there is one that is neither anchor nor head, and a head that
was rolled to and holds nothing. The crash after an error and one more interrupt a
recovery; the second instant makes a closed segment old enough to retire. `MaxExtent`
bounds segments and instants together: a third segment is rolled to before time passes. In mig_moves the deadlines (seal, commit, skew) all fall inside the
five instants, so that commits before, at and after the deadline, fences signed and
pruned, and clocks that step back all happen; in mig_drain the window closes before
the envelope expires, so that rows are forwarded, held and expired. The offer is
made at the first instant, which only shifts time.
Bounds that the instances cannot show are what the proofs are for: the last
sequence of an inbox (pub_inbox has as many sequences as submissions), more inboxes,
more retries, more crashes.
`CHECK_DEADLOCK FALSE` stands where the system may stop: requests of SenderRetry and
appends of RouterWal are made once, and time in RouterWal and HomeMigration ends.

### Fairness

* Publication: weak fairness of each request's next step, of the resolver, of the
  supervisor's abort of a fenced process and of the restart: OS threads run, and
  the process is supervised. Clients, receivers, deletion, shutdown, panics and
  crashes are not fair.
* SubmissionBarrier: weak fairness of each thread's own next step; starting an
  operation is not fair. Timeouts are part of no fair action that liveness needs.
* SenderRetry: weak fairness of each request, the resolver and the supervisor.
* InboxSettlement: weak fairness of the lease holder's next step and of each
  sweeper, which is a loop with a 30-second sleep. Receivers need not come.
* RouterWal: weak fairness of the writer, of the fsync thread and of the abort of a
  fenced process. Requests, the sweep, start-up, time, errors and crashes are not
  fair; `EveryAppendAnswered` counts the end of the process as an answer.
* HomeMigration: time passes; the courier, the drain worker and the clean-up are
  loops with a sleep (weak fairness with the right clock). Strong fairness of the
  courier's question, of the source's answer to a status call, of its application
  and of the expiry of a row: the loops repeat for ever, and a network or a crash
  that defeats every single repetition is excluded. Commits, owners, forwards that
  arrive, receivers and the sweep are not fair: a move also ends when no commit and
  no forward ever succeeds.

### Where the documents and the code disagree

Two runs expect a violation; each checks what a document says. `PROJECT.json`
quotes the lines.

* **inbox_ack_returns / AckSticks.** With the log, an acknowledgement taken while a
  lower row is expired in memory and not yet in the log is pruned from the acked set
  by the shard's prefix, while the durable prefix stops at the lower row. The stored
  cursor names the sequence neither way and a crash restores the delivery.
* **inbox_nack_retry / DeadLetterHasNoRow.** The last nack changes the shard, then
  storage refuses it; the retry stores the dead letter and not the removal.
The passing inbox runs are configured around these two and the following: `AckSticks` is checked in
the log without expiry; `DeadLetterHasNoRow` is part of `SettledTruth`, checked where
storage refuses no nack and receivers acknowledge what is published; `SettledPersists` likewise, because a refused nack leaves the
shard's prefix ahead without marking the mailbox due. They hold there.

Met in the proof of `SettledTruth`, which needs `AckAbove = FALSE`: *a delivery in flight
is dead-lettered to make room.* Of four deliveries the first is aborted, the second is
stored and acknowledged above the prefix, the third is in flight. The clean-up of the
aborted one (router.rs:234) does not advance the shard's prefix, so the second stays in
the window below the third, and `check_ack_window_room` (inbox.rs:565), which compares
the window's first entry with the first assignment in flight, lets an acknowledgement of
the fourth pass. It makes room by dead-lettering the third, which the comment at
inbox.rs:554 excludes, and the third can then be stored beside its dead letter. TLC finds
it with `AckAbove = TRUE`, `MaxSeq = 4` and `Window = 1`. Sessions do not get here, because
they acknowledge only what is published; a batch as in the test `guard_blocked_ack_window`
does.

Seen while modelling a migration, listed as hazards without a property:

* *A compacted route refuses forwards.* The destination's clean-up removes an active
  operation at the hard deadline (about half an hour), the source forwards for a day.
  Afterwards `check_forwarded_target` (home_migration_store/forwarded.rs:40) answers
  `EvidenceRequired` to every forward that carries the proof, and what is left of the
  backlog is held at the source until it expires. `docs/home_node_migration.md:672`
  says an offer's expiry does not limit an active route.
* *The budget of a finished drain.* `finish_home_migration_backlog` is called by the
  drain worker after a row it settled itself. If the last row is settled by a
  receiver or the sweep, or the node stops in between, the source's operation stays
  `Committed` with its live budget, and the clean-up defers it for ever.
* *A move and a move back.* An envelope stored at A and, by the sender's retry, at B
  too, is settled at A as a duplicate. When the account moves back, B's drain is
  answered as a duplicate from A's delivery index and settles it as well: no node
  holds the envelope and no receiver has it. TLC finds this on two nodes with the moves
  a to b and b to a. `NothingStranded` is therefore checked for a single move, and
  proved for accounts that never return to a node.

Met in the refinement of the log: *a lost segment below an empty head is not noticed.*
`inspect` takes a newest file of at most a header's length for residue and writes its
header anew (recovery.rs:207), a complete one too, with the file found below it as parent;
the comparison of the parents comes after that (recovery.rs:236), and
`recorded_head_missing` (recovery.rs:162) looks for the anchor and the head only. Let
segment 1 be the anchor, segment 2 hold records that callers were told are stored, and 3
be the head just rolled to, still without a frame. The power fails and file 2 is lost: the
next start links 3 to 1, does not rotate, and serves the old incarnation without the
records. `docs/server-data.md:255` says that lost required segments rotate it before
readiness. A head whose only frame was torn comes to the same in two starts, when the
first truncates it and dies before its first commit: that is why `Unseen` asks for a head
without a *readable* frame. TLC finds both with `due` mapped to `DueSet` alone in `Log`.
`Implements` is therefore stated with the records of a segment lost between the anchor and
such a head excused. The excuse reaches no further: where another header still shows the
loss, or the anchor or the head itself is missing, the start rotates, and the incarnation
it announces is what DurableLog asks for.

A corner of the log: when every active segment is lost and one below the anchor was
left behind by an interrupted retirement, the start after the rotation rotates again;
`NoSpuriousRotation` is stated for a directory nothing was taken from.

Seen elsewhere and not stated as a property: two leases of a mailbox that
end together leave its idle map entry until a later lease ends alone
(submission_barrier.rs:76); dead letters made by nacks enter the acknowledgement
window without the check that acknowledgements pass (inbox.rs:615); a sweep can
write an older list of dead letters over a newer one (retention.rs:195 of the
store); dead letters are pruned only when another delivery of the mailbox expires in
the same sweep (inbox.rs:764).

## 4. What is proved

The theorems hold for arbitrary constants: any number of inboxes, requests,
sequences, identities, permits, segments, nodes, moves and crashes, under the `ASSUME`s of the
modules (constants have their types, `NoReq`, `None`, `NoGate` and `NoRecord` are none
of the things they stand for, a move starts where its base record is, requests of the
log are positive numbers, a segment is retired no earlier than its records are due), which
TLC evaluates in the runs. They are of the form `Spec => []P`, except `HeadsMoveForward` and
`PrefixOnlyGrows`, action properties, and `ContractKept` and `LogKept`, refinements. None of the invariants is
inductive as it stands; each paragraph names the strengthening and why it is needed.

**PublicationProofs** `TypeCorrect`, `RowTombstoneExclusive`, `AbortedRetrySafe`,
`AcceptedDurable`. The counters stay within the range of sequences: a batch is refused
before any of its children passes the last one. That the resolver may store a tombstone follows from the
descriptor's state, and what a state means depends on who can still change it. The
invariant is `RaceInv == CountersBound /\ DescriptorTruth /\ Ownership /\ Answers`:
a fresh sequence lies above everything stored (so a reservation never meets an old
row, across restarts); the state of a descriptor tells what storage holds; a live
request is the only one to touch its descriptors; a request's stage and verdict
tell which of its rows exist. There is one lemma per group of actions.

**PublicationPrefixProofs** `PrefixIsExplained`, `SettledRetired`, `ContractKept`.
`PrefixInv == InFlight /\ Resolved /\ Ordered /\ Shaped`, on top of `RaceInv`: an
undecided descriptor is in flight and lies above the prefix, so the prefix never
passes it; an assignment that left the registry is a row, a tombstone or settled;
settled <= published <= issued in every state of the process, down included, and what
is settled was acknowledged; a live request has exactly one assignment per inbox.
With it every step is a step of `InboxContract`: a store transaction is `Fill` (all
rows of a submission, above the prefix), the reply is `Answer`, whatever moves the
watermark is `Publish`, an acknowledgement's transaction is `Settle`, the erasing one
is `Delete`, everything else, crashes and restarts included, changes nothing a client
sees.

**PublicationLedgerProofs** `LedgerStaysWithinCapacity`. The lemmas count ranges: n
more tombstones make at most n more ranges, and pruning the settled prefix may cut a
range in two but then drops the first one, so it makes none. `LedgerInv ==
LedgerLinked /\ Charged /\ OnDisk` relates the two ledgers: a tombstone on disk and not
in memory belongs to an assignment still in flight, for which `reserve_batch` has
charged a range; one in memory and not on disk is settled.

**SubmissionBarrierProofs** `TypeCorrect`, `CutoversExclude`, `SettlementsExclude`,
`AdmittedAtHome`, `BacklogsComplete`. `GateInv`: where a thread is tells which keys it
holds (`Staged`); every lease refers to the gate in the map, except one whose thread is
just dropping that last reference (`Referenced`), so there are never two gates of one
key in use; that gate counts exactly the threads that hold or queue (`Counted`);
a settling thread still holds its mailbox and the gate says so (`Settling`). Exclusion
follows from the counts. `AdmitInv == HomeOf /\ ViewOf /\ Cached /\ BacklogComplete`:
unless the process is fenced, a key that moved away is in the caches, or the cutover
that moved it still holds it and is about to cache it; what a submission has checked
stays at home while it holds its leases; a captured backlog cannot change while its
cutover holds the mailbox.

**SenderRetryProofs** `TypeCorrect`, `RetriesStoredOnce`, `RetriesAgree`,
`AbortedFinal`, `SlotsAttended`, `PermitsReturned`. Two invariants:
`RetryInv == IndexTruth /\ Holders /\ Stages /\ Verdicts /\ Attached /\ Answers`
for safety, whose core is `Holders`: a request that may still write is the
registered one and nothing is stored under its identity. And
`SlotInv == Permits /\ Attended`: a permit is with a registered slot or a reply
under way, and somebody will come back to every slot.

**HomeMigrationProofs** `TypeCorrect`, `OneOutcome`, `OneHomeServes`,
`HeadsMoveForward`, `InboxesOwed`, `MailKept`. The lemmas on `Lineage` (least closed set, transitive, epochs grow
along it, a proper ancestor has a successor on the chain) replace induction over it.
`HomeInv == Chain /\ OnlySigned /\ SourcesRemember /\ OpenIsNewest`: the signed records
form one chain, every head is one of them, a source's head never lies before a commit
it signed, and a node with an open gate is the home its record names, with no signed
successor. `OutcomeInv == Offered /\ FencesHold /\ OutcomeExclusive`: a fence that was
signed is still stored, or its signer's clock floor has passed the deadline after which
no commit of it is accepted; this is why pruning fences and setting clocks back are
harmless together.

`MailKept` (`NothingStranded`) has two halves.

* `InboxesOwed`, for every tree of moves: an unexpired envelope in an inbox lies where it
  is served, or the drain of its node owes it (`Obliged`). Only the commit, which captures
  the backlog, may stop a node that serves. That a *reservation* or a *seal* never does is
  the hard part: a competing move may be activated between the two, which reopens the gate
  the reservation closed. `RouteInv == Unsealed /\ OnePrepared /\ PendingGuard /\ Reserved
  /\ RouteOwn` shows that the seal is then refused, by the epoch of the unreleased route.
* `Custody`: of the homes that took an envelope nobody acknowledged, one whose successor
  has not taken it still has it in its inbox. A drain settles a row only after the next
  home took the envelope (`ForwardsTaken`), so it never settles that one; a new commit
  keeps it, since the next home was no home before (`TakenHome`). This needs the
  hypothesis `NoReturn`, no node is the home of two records of a chain; without it the
  statement is false (section 3).

**RouterWalProofs** `TypeCorrect`, `RotationNeedsLoss`, `LogKept`. Every start inspects the
segment headers against the row in redb, so the theorem needs to know what every
interrupted step leaves there. `Chain(C)` says that `C` is the recorded chain: from
anchor to head, with every file in that range, each naming the member below it.
`ChainInv` follows it through the life of a process. `Running`: the chain is on disk
and at most one file lies above the head, complete and naming the head, the one the
writer is rolling to; the sweep unlinks only below the anchor. `Stopped`: a power loss
keeps the chain, because everything up to the head was synced with its directory
(`FilesKept`), and of the file above the head nothing, a short header, or all of it. A
lost segment leaves the same `C` with a hole, which is why `C` is not read off the
disk. `NoMismatch` is the core: without a loss, what `Stopped` describes passes
`inspect`. `Rewriting` and `Recovered` carry the chain through an interrupted
rotation, whose segments name their predecessor one after the other. `Committing`
(group commit: the writer waits for the reply of its batch) keeps a late reply from
resetting a writer that is rolling.

`LogKept` (`Spec => Implements`) needs, beside the headers, to follow every record from
its caller to the disk and back through a start. `Kept(r, T)` is the notion it turns on:
`r` is due, or it is synced in a segment at or above the anchor, or written to one of the
files `T` that are still to be synced. `DataInv` is the conjunction of

* `Placed`: a request in progress is in one place, the queue, the writer's batch, a
  queued group, a group being synced or one being answered, and its caller waits; a
  process that is not running has none. So nobody is answered twice, and what a group
  makes visible is still pending.
* `Framed`: a record was accepted no later than its file was last written. With `Stale`
  and the retention constants, `Retired` follows: what the anchor has passed is due.
* `Clean`: the synced part of a file has no torn frame, and before an error nothing has,
  so that reading up to the first bad frame loses nothing synced.
* `FlightKept`: what the batch, the queue and the groups hold is `Kept` with the files
  each of them carries (`Unsynced`, `Unflushed`). That is where pipeline mode could go
  wrong: a roll leaves an unsynced file behind, and only the group still names it.
* `IndexKept`: what a lookup finds is synced, also after a start.
* `OwedKept`: what was told and is not excused is `Kept`, unless the incarnation has moved
  or, while the log is down, a start can see a hole in the chain. `Whole` says it can see
  none: anchor and head are there, and either the head is `BareHead`, to be linked anew,
  or every file names the one below it. `LosingBreaks` shows that a lost segment leaves a
  hole, because the file above it names a parent that is not there, unless the loss is
  `Unseen`; then `OwedLose` finds what was synced in it among the excused. `NotResidue` and
  `MatchingWhole` show that a start which does not rotate has seen no hole, `OwedCutShort`
  that one which dies early hides none; `KeptIsRead` that a start then reads everything
  kept. `Epochs` ties the marker of a rotation to a newer
  incarnation, so that a crash inside a rotation cannot be taken for a clean stop.

Then every action is a step of DurableLog or a stutter: `ReplyOne` and `Lookup` are its
confirmation, `ApplyGroup` its apply, the I/O errors its refusal, `SweepBegin` its
expiry, `Open` its restart, a lost segment a step that at most excuses records.

**InboxSettlementProofs** `TypeCorrect`, `PrefixOnlyGrows`, `DeliveriesKept`,
`AcknowledgementSticks`, `CursorsTellTheTruth`. The module starts with the least member of
a set of naturals, from which it takes induction as a lemma about sets, and with it a
lemma per operator: what `AdvanceSettled`, `MakeRoom`, `ApplyBatch`, `PublishAckCursor`
and `Checkpoint` return is described by what they add to a cursor and what they leave.

* `DeliveriesKept` (`NothingLost`, both storages, no condition) needs to know of every
  copy of a cursor that is under way, the candidate of a lease and the cursor a sweep
  took, that it records no more than what was retired: `KeptInv == TypeInv /\ Counters
  /\ StoreRetired /\ LeaseRetired /\ SweepKept /\ RowsKept`. A stale sweep is harmless
  because of it, not because of the order of the writes.
* `AcknowledgementSticks` (`AckSticks`). In redb nothing more is needed than that the rows
  are gone (`Forgotten`). In the log the row stays, and the durable cursor has to cover it
  for ever: `WalInv` adds that the shard's prefix stays behind its rows (`Ahead`), that
  every row is pending, covered or a nack about to be committed (`Alone`), and that the
  cursor of a commit covers what it acknowledges (`Covered`). That is what an expiry in
  memory or a refused nack destroys, so the theorem assumes for the log that there are
  none; inbox_ack_returns is the counterexample with an expiry.
* `CursorsTellTheTruth` (`SettledTruth`) follows the *marks* of a cursor, its
  acknowledged sequences, dead letters and last acknowledgement: none is in flight
  (`MarksPast`), none has a row beside it unless the lease that retires it is still open
  (`MarksGone`), the durable prefix covers no row (`RowsAhead`), and an open batch retires
  nothing in flight (`Guarded`). In the log also `MarksCovered`: a start must not find a
  mark the prefix does not explain. It is assumed that storage refuses no nack
  (inbox_nack_retry refutes it otherwise), that receivers acknowledge what is published
  (section 3), and for the log that no deadline passes.

**Only model-checked.** Liveness (TLAPS here has neither fairness nor `ENABLED`).

## 5. What is not modelled

* Cryptography, wire formats, transport, HTTP and QUIC handlers, configuration.
* Client storage (SQLite transactions) and the SDK.
* Wall-clock arithmetic, except in HomeMigration and RouterWal, where deadlines and
  ages are small numbers: elsewhere a deadline is only passed or not.
* Loss of data by redb: a committed transaction is durable.
* Most of the repository by size. Of some 360 000 lines, 200 000 are the client
  library and the rest is largely transport, wire types, handlers and schema code,
  whose correctness is a matter of data and not of interleavings. What is modelled is
  the part in which a wrong order loses or repeats a message.
* The parts listed `not_modelled` in `PROJECT.json`, with the reason for each.

## 6. Plan

In this order:

1. **ReplayResources**: the tentative and durable replay reservations an assignment
   carries (publication.rs 549-610 and 788-816, replay_guard.rs, operation.rs), and
   the order in which an aborted answer and the release of the reservation reach the
   client (sender_retry/registry.rs:234).
2. **Compositions** of Publication with SenderRetry and with InboxSettlement, in place
   of their present abstractions of it.
3. **PushQueue** and **IssuedProbe** of the gateway; **NotifyWal**; delivery receipts
   of the SDK.

## 7. Running it

    tlc -config MCPubInbox.cfg MCPublication        # any run of PROJECT.json
    tlapm PublicationProofs.tla                     # any *Proofs module
