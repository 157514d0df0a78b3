------------------------------ MODULE RouterWal ------------------------------
(***************************************************************************)
(* The router's submission log: one shard directory of append-only segment *)
(* files, its writer thread, the fsync thread of pipeline mode, the        *)
(* retention sweep that unlinks old segments, and start-up, which repairs, *)
(* truncates, and rotates the inbox incarnation when a file is missing.    *)
(*                                                                         *)
(* A power loss keeps of every file a prefix that contains what was synced,*)
(* possibly with a torn frame at its end; a file whose directory was never *)
(* synced may be gone.  Frame sizes are abstracted: a segment that holds   *)
(* some frames may be full, one that holds SegmentFrames is.               *)
(***************************************************************************)
EXTENDS Integers, Sequences, FiniteSets, SequencesExt, FiniteSetsExt

CONSTANTS
  Requests,       \* appends callers may ask for
  BatchMax,       \* records per group commit
  SegmentFrames,  \* frames that fill a segment
  Modes,          \* subset of {"sync", "pipeline"}: the mode a start may read
  Ttl,            \* lifetime of a record
  RetireAfter,    \* age at which a closed segment is unlinked
  MaxTime, MaxSegments, MaxCrashes, MaxDamage, MaxFaults,   \* bounds of the model
  MaxExtent       \* bound of the segments and the instants together

ASSUME WalAssumption ==
  /\ Requests \subseteq Nat \ {0}
  /\ BatchMax \in Nat \ {0} /\ SegmentFrames \in Nat \ {0}
  /\ Modes \subseteq {"sync", "pipeline"} /\ Modes # {}
  /\ Ttl \in Nat /\ RetireAfter \in Nat /\ RetireAfter >= Ttl
  /\ {MaxTime, MaxSegments, MaxCrashes, MaxDamage, MaxFaults, MaxExtent} \subseteq Nat

VARIABLES
  disk,     \* segment id -> file, as the page cache shows it
  assoc,    \* the association row in redb: incarnation, rotation marker, chain
  mem,      \* the process: phase, mode, fence, in-memory index
  writer,   \* the writer thread: batch, records left, files it touched
  queue,    \* requests sent to the writer
  fsyncQ,   \* groups sent to the fsync thread
  flush,    \* the groups being synced and answered
  sweep,    \* the retention sweep
  callers,  \* what the callers know: reply and acceptance time of each request
  clock,    \* time, the budgets of the environment, and what it took away unseen
  owed,     \* history: records reported as stored
  served    \* history: the incarnation of the last open

vars == <<disk, assoc, mem, writer, queue, fsyncQ, flush, sweep, callers, clock,
          owed, served>>

Torn == 0   \* a frame cut short by a crash or a failed write; requests are positive
NoSegment == 0
Files == [frames : Seq(Requests \cup {Torn}), header : {"short", "whole"},
          id : Nat, parent : Nat, durable : Int, mtime : Nat]

IdleWriter == [pc |-> "idle", batch |-> <<>>, left |-> <<>>, files |-> {}]
IdleFlush == [stage |-> "idle", groups |-> <<>>, left |-> <<>>, files |-> {}]
IdleSweep == [pc |-> "idle", ids |-> {}]

Segments == DOMAIN disk
Newest == IF Segments = {} THEN NoSegment ELSE Max(Segments)
WithSegment(s, f) == [t \in Segments \cup {s} |-> IF t = s THEN f ELSE disk[t]]
WithoutSegment(s) == [t \in Segments \ {s} |-> disk[t]]

\* Segments recovery reads: those at or above the recorded anchor.
AtOrAbove(anchor) == {s \in Segments : s >= anchor}
Active == AtOrAbove(assoc.anchor)

\* replay_expires_at < now.
Due(r) == callers.reply[r] # "idle" /\ callers.accepted[r] + Ttl < clock.now
DueSet == {r \in Requests : Due(r)}

Up == mem.phase = "up" /\ ~mem.fenced

-----------------------------------------------------------------------------
(* Appending *)

\* record_submission, submit: the request is queued for the shard's writer.
\* Requests are numbered in the order in which they are made.
Submit(r) ==
  /\ Up /\ callers.reply[r] = "idle"
  /\ \A q \in Requests : q < r => callers.reply[q] # "idle"
  /\ queue' = Append(queue, r)
  /\ callers' = [callers EXCEPT !.reply[r] = "pending", !.accepted[r] = clock.now]
  /\ UNCHANGED <<disk, assoc, mem, writer, fsyncQ, flush, sweep, clock, owed, served>>

\* The writer takes a first request and whatever else arrives in its window.
TakeBatch(n) ==
  /\ Up /\ writer.pc = "idle"
  /\ n \in 1..Min({BatchMax, Len(queue)})
  /\ writer' = [pc |-> "append", batch |-> SubSeq(queue, 1, n),
                left |-> SubSeq(queue, 1, n), files |-> {}]
  /\ queue' = SubSeq(queue, n + 1, Len(queue))
  /\ UNCHANGED <<disk, assoc, mem, fsyncQ, flush, sweep, callers, clock, owed, served>>

\* write_record, with room in the current segment.
AppendOne ==
  /\ Up /\ writer.pc = "append" /\ writer.left # <<>>
  /\ Len(disk[mem.seg].frames) < SegmentFrames
  /\ disk' = [disk EXCEPT ![mem.seg].frames = Append(@, Head(writer.left)),
                          ![mem.seg].mtime = clock.now]
  /\ writer' = [writer EXCEPT !.left = Tail(@), !.files = @ \cup {mem.seg}]
  /\ UNCHANGED <<assoc, mem, queue, fsyncQ, flush, sweep, callers, clock, owed, served>>

\* The segment is full or old: group commit syncs it before it rolls,
\* pipeline mode leaves that to the fsync thread.
RollBegin ==
  /\ Up /\ writer.pc = "append" /\ writer.left # <<>>
  /\ disk[mem.seg].frames # <<>>
  /\ Newest < MaxSegments /\ Newest + clock.now < MaxExtent
  /\ disk' = IF mem.mode = "sync"
             THEN [disk EXCEPT ![mem.seg].durable = Len(disk[mem.seg].frames)]
             ELSE disk
  /\ writer' = [writer EXCEPT !.pc = "roll"]
  /\ UNCHANGED <<assoc, mem, queue, fsyncQ, flush, sweep, callers, clock, owed, served>>

NewFile(s, parent) ==
  [frames |-> <<>>, header |-> "whole", id |-> assoc.inc, parent |-> parent,
   durable |-> -1, mtime |-> clock.now]

\* roll_segment creates the next file and writes its header ...
RollCreate ==
  /\ Up /\ writer.pc = "roll"
  /\ disk' = WithSegment(mem.seg + 1, NewFile(mem.seg + 1, assoc.head))
  /\ writer' = [writer EXCEPT !.pc = "header"]
  /\ UNCHANGED <<assoc, mem, queue, fsyncQ, flush, sweep, callers, clock, owed, served>>

\* ... syncs the file and the directory ...
RollSync ==
  /\ Up /\ writer.pc = "header"
  /\ disk' = [disk EXCEPT ![mem.seg + 1].durable = 0]
  /\ writer' = [writer EXCEPT !.pc = "head"]
  /\ UNCHANGED <<assoc, mem, queue, fsyncQ, flush, sweep, callers, clock, owed, served>>

\* Mutant: the new file is used without recording it as the head.
RollHeadUnrecorded ==
  /\ Up /\ writer.pc = "head"
  /\ mem' = [mem EXCEPT !.seg = @ + 1]
  /\ writer' = [writer EXCEPT !.pc = "append"]
  /\ UNCHANGED <<disk, assoc, queue, fsyncQ, flush, sweep, callers, clock, owed, served>>

\* ... and commits the new head before the first frame is written to it.
RollHead ==
  /\ Up /\ writer.pc = "head"
  /\ assoc' = [assoc EXCEPT !.head = mem.seg + 1]
  /\ mem' = [mem EXCEPT !.seg = @ + 1]
  /\ writer' = [writer EXCEPT !.pc = "append"]
  /\ UNCHANGED <<disk, queue, fsyncQ, flush, sweep, callers, clock, owed, served>>

\* Mutant: only the file the writer ended in is passed on.
FinishBatchLastFile ==
  /\ Up /\ writer.pc = "append" /\ writer.left = <<>>
  /\ IF mem.mode = "sync"
     THEN /\ flush' = [stage |-> "sync", groups |-> <<writer.batch>>, left |-> <<>>,
                       files |-> {mem.seg}]
          /\ writer' = [IdleWriter EXCEPT !.pc = "commit"]
          /\ UNCHANGED fsyncQ
     ELSE /\ fsyncQ' = Append(fsyncQ, [batch |-> writer.batch, files |-> {mem.seg}])
          /\ writer' = IdleWriter
          /\ UNCHANGED flush
  /\ UNCHANGED <<disk, assoc, mem, queue, sweep, callers, clock, owed, served>>

\* The batch is written: group commit syncs the current file itself, pipeline
\* mode passes on every file the batch touched and takes the next batch.
FinishBatch ==
  /\ Up /\ writer.pc = "append" /\ writer.left = <<>>
  /\ IF mem.mode = "sync"
     THEN /\ flush' = [stage |-> "sync", groups |-> <<writer.batch>>, left |-> <<>>,
                       files |-> {mem.seg}]
          /\ writer' = [IdleWriter EXCEPT !.pc = "commit"]
          /\ UNCHANGED fsyncQ
     ELSE /\ fsyncQ' = Append(fsyncQ, [batch |-> writer.batch, files |-> writer.files])
          /\ writer' = IdleWriter
          /\ UNCHANGED flush
  /\ UNCHANGED <<disk, assoc, mem, queue, sweep, callers, clock, owed, served>>

\* Mutant: the channel is drained and only the first group kept.
TakeGroupsFirst(n) ==
  /\ Up /\ mem.mode = "pipeline" /\ flush.stage = "idle"
  /\ n \in 1..Len(fsyncQ)
  /\ flush' = [stage |-> "sync", left |-> <<>>, groups |-> <<fsyncQ[1].batch>>,
               files |-> UNION {fsyncQ[i].files : i \in 1..n}]
  /\ fsyncQ' = SubSeq(fsyncQ, n + 1, Len(fsyncQ))
  /\ UNCHANGED <<disk, assoc, mem, writer, queue, sweep, callers, clock, owed, served>>

\* The fsync thread takes the first n groups and the union of their files.
TakeGroups(n) ==
  /\ Up /\ mem.mode = "pipeline" /\ flush.stage = "idle"
  /\ n \in 1..Len(fsyncQ)
  /\ flush' = [stage |-> "sync", left |-> <<>>,
               groups |-> [i \in 1..n |-> fsyncQ[i].batch],
               files |-> UNION {fsyncQ[i].files : i \in 1..n}]
  /\ fsyncQ' = SubSeq(fsyncQ, n + 1, Len(fsyncQ))
  /\ UNCHANGED <<disk, assoc, mem, writer, queue, sweep, callers, clock, owed, served>>

\* sync_all of one file makes everything written to it so far durable; a file
\* the sweep has unlinked is synced through its open handle.
SyncFile(s) ==
  /\ Up /\ flush.stage = "sync" /\ s \in flush.files
  /\ disk' = IF s \in Segments
             THEN [disk EXCEPT ![s].durable = Len(disk[s].frames)] ELSE disk
  /\ flush' = [flush EXCEPT !.files = @ \ {s},
                            !.stage = IF flush.files = {s} THEN "apply" ELSE "sync"]
  /\ UNCHANGED <<assoc, mem, writer, queue, fsyncQ, sweep, callers, clock, owed, served>>

\* router_wal_ack_success: the group is applied to the index ...
ApplyGroup ==
  /\ Up /\ flush.stage = "apply"
  /\ mem' = [mem EXCEPT !.index = @ \cup ToSet(Head(flush.groups))]
  /\ flush' = [flush EXCEPT !.stage = "reply", !.left = Head(flush.groups),
                            !.groups = Tail(@)]
  /\ UNCHANGED <<disk, assoc, writer, queue, fsyncQ, sweep, callers, clock, owed, served>>

\* ... and its callers are answered one by one, each under the publication gate.
ReplyOne ==
  /\ Up /\ flush.stage = "reply"
  /\ callers' = [callers EXCEPT !.reply[Head(flush.left)] = "ok"]
  /\ owed' = owed \cup {Head(flush.left)}
  /\ IF Len(flush.left) > 1
     THEN flush' = [flush EXCEPT !.left = Tail(@)] /\ UNCHANGED writer
     ELSE IF flush.groups # <<>>
          THEN flush' = [flush EXCEPT !.stage = "apply", !.left = <<>>] /\ UNCHANGED writer
          ELSE flush' = IdleFlush
               /\ writer' = IF mem.mode = "sync" THEN IdleWriter ELSE writer
  /\ UNCHANGED <<disk, assoc, mem, queue, fsyncQ, sweep, clock, served>>

\* sender_assignment, retry_lookup: a sender whose append failed, or was cut
\* off by a crash, asks again and is answered from the index.
Lookup(r) ==
  /\ Up /\ callers.reply[r] = "err" /\ r \in mem.index /\ ~Due(r)
  /\ callers' = [callers EXCEPT !.reply[r] = "ok"]
  /\ owed' = owed \cup {r}
  /\ UNCHANGED <<disk, assoc, mem, writer, queue, fsyncQ, flush, sweep, clock, served>>

Refused(S) == [callers EXCEPT !.reply = [r \in Requests |->
                 IF r \in S /\ @[r] = "pending" THEN "err" ELSE @[r]]]

\* An I/O error of the writer: the batch is refused and the process fenced.  A
\* failed write leaves part of a frame behind.
WriterError ==
  /\ Up /\ clock.faults < MaxFaults
  /\ writer.pc \in {"append", "roll", "header", "head"}
  /\ disk' \in IF writer.pc = "append" /\ writer.left # <<>>
               THEN {disk, [disk EXCEPT ![mem.seg].frames = Append(@, Torn)]}
               ELSE {disk}
  /\ callers' = Refused(ToSet(writer.batch))
  /\ mem' = [mem EXCEPT !.fenced = TRUE]
  /\ clock' = [clock EXCEPT !.faults = @ + 1]
  /\ UNCHANGED <<assoc, writer, queue, fsyncQ, flush, sweep, owed, served>>

\* A failed sync refuses every group it covered; group commit is the same.
SyncError ==
  /\ Up /\ clock.faults < MaxFaults /\ flush.stage = "sync"
  /\ callers' = Refused(UNION {ToSet(flush.groups[i]) : i \in DOMAIN flush.groups})
  /\ mem' = [mem EXCEPT !.fenced = TRUE]
  /\ clock' = [clock EXCEPT !.faults = @ + 1]
  /\ UNCHANGED <<disk, assoc, writer, queue, fsyncQ, flush, sweep, owed, served>>

\* Another thread of the process, the sweep or another store operation, fails.
FenceElsewhere ==
  /\ Up /\ clock.faults < MaxFaults
  /\ mem' = [mem EXCEPT !.fenced = TRUE]
  /\ clock' = [clock EXCEPT !.faults = @ + 1]
  /\ UNCHANGED <<disk, assoc, writer, queue, fsyncQ, flush, sweep, callers, owed, served>>

-----------------------------------------------------------------------------
(* Retention *)

\* Segments are worked on in ascending order.
SweepOver(ids) == [pc |-> IF ids = {} THEN "idle" ELSE "files", ids |-> ids]

\* prune drops due records from the index and lists every segment but the newest.
SweepBegin ==
  /\ Up /\ sweep.pc = "idle" /\ clock.now > 0
  /\ mem' = [mem EXCEPT !.index = @ \ DueSet]
  /\ sweep' = SweepOver(Segments \ {Newest})
  /\ UNCHANGED <<disk, assoc, writer, queue, fsyncQ, flush, callers, clock, owed, served>>

Stale(s) == clock.now - disk[s].mtime > RetireAfter

\* Mutant: the head may be retired as well.
RetirableHead(s) == s <= assoc.anchor

\* retire: a segment below the anchor is free, the anchor may move on unless it
\* is the head, anything else is kept.
Retirable(s) == s < assoc.anchor \/ (s = assoc.anchor /\ s < assoc.head)

\* A listed segment: the anchor is committed past it before it is unlinked.
SweepSegment ==
  /\ Up /\ sweep.pc = "files"
  /\ LET s == Min(sweep.ids) IN
     IF Stale(s) /\ Retirable(s)
     THEN /\ assoc' = IF s < assoc.anchor THEN assoc
                      ELSE [assoc EXCEPT !.anchor = Min({t \in Segments : t > s})]
          /\ sweep' = [sweep EXCEPT !.pc = "unlink"]
     ELSE /\ sweep' = SweepOver(sweep.ids \ {s})
          /\ UNCHANGED assoc
  /\ UNCHANGED <<disk, mem, writer, queue, fsyncQ, flush, callers, clock, owed, served>>

SweepUnlink ==
  /\ Up /\ sweep.pc = "unlink"
  /\ disk' = WithoutSegment(Min(sweep.ids))
  /\ sweep' = SweepOver(sweep.ids \ {Min(sweep.ids)})
  /\ UNCHANGED <<assoc, mem, writer, queue, fsyncQ, flush, callers, clock, owed, served>>

-----------------------------------------------------------------------------
(* Crashes, damage and start-up *)

\* What a power loss may leave of a file, the header "gone" for nothing of it.
Remains(f) ==
  IF f.durable = -1
  THEN {[f EXCEPT !.header = h] : h \in {"gone", "short", "whole"}}
  ELSE {[f EXCEPT !.frames = SubSeq(f.frames, 1, n)] : n \in f.durable..Len(f.frames)}
       \cup {[f EXCEPT !.frames = Append(SubSeq(f.frames, 1, n), Torn)] :
               n \in f.durable..(Len(f.frames) - 1)}

AllFiles == UNION {Remains(disk[s]) : s \in Segments}

\* Every append in progress has failed for its caller.
Crash ==
  /\ mem.phase # "down" /\ (mem.fenced \/ clock.crashes < MaxCrashes)
  /\ \E after \in {g \in [Segments -> AllFiles] : \A s \in Segments : g[s] \in Remains(disk[s])} :
       disk' = [s \in {t \in Segments : after[t].header # "gone"} |-> after[s]]
  /\ callers' = Refused(Requests)
  /\ mem' = [mem EXCEPT !.phase = "down", !.fenced = FALSE, !.index = {}, !.todo = {}]
  /\ writer' = IdleWriter /\ queue' = <<>> /\ fsyncQ' = <<>>
  /\ flush' = IdleFlush /\ sweep' = IdleSweep
  /\ clock' = [clock EXCEPT !.crashes = IF mem.fenced THEN @ ELSE @ + 1]
  /\ UNCHANGED <<assoc, owed, served>>

Previous(s) == LET below == {t \in Active : t < s}
               IN  IF below = {} THEN NoSegment ELSE Max(below)

\* recover_router_wal_segment reads frames up to the first bad one.
Readable(frames) ==
  LET bad == SelectInSeq(frames, LAMBDA x : x = Torn)
  IN  IF bad = 0 THEN frames ELSE SubSeq(frames, 1, bad - 1)

\* A segment between the recorded two, below a head that holds no record.  A
\* start writes the header of such a head anew: it may take no notice of the loss.
Unseen(s) ==
  /\ assoc.head = Newest /\ Readable(disk[Newest].frames) = <<>>
  /\ s \notin {assoc.anchor, assoc.head}

\* A segment of the chain disappears while the router is down.
LoseSegment(s) ==
  /\ mem.phase = "down" /\ clock.damage < MaxDamage
  /\ s \in Active /\ s <= assoc.head
  /\ disk' = WithoutSegment(s)
  /\ clock' = [clock EXCEPT !.damage = @ + 1,
                  !.gone = IF Unseen(s) THEN @ \cup ToSet(Readable(disk[s].frames)) ELSE @]
  /\ UNCHANGED <<assoc, mem, writer, queue, fsyncQ, flush, sweep, callers, owed, served>>

Tick ==
  /\ clock.now < MaxTime /\ Newest + clock.now < MaxExtent
  /\ clock' = [clock EXCEPT !.now = @ + 1]
  /\ UNCHANGED <<disk, assoc, mem, writer, queue, fsyncQ, flush, sweep, callers, owed, served>>

\* A newest file with part of a header, or a header and nothing else.
EmptyResidue(s) == s = Newest /\ (disk[s].header = "short" \/ disk[s].frames = <<>>)

\* inspect writes the header of such a file anew, a complete one too: it then
\* names the file below, whatever it named before.
Repaired(s) ==
  IF EmptyResidue(s)
  THEN [disk[s] EXCEPT !.header = "whole", !.id = assoc.inc, !.parent = Previous(s)]
  ELSE disk[s]

\* inspect: a recorded segment is missing, or a header names another directory
\* or a predecessor that is not there.
Mismatch ==
  \/ assoc.head # NoSegment /\ ~({assoc.head, assoc.anchor} \subseteq Segments)
  \/ \E s \in Active : \/ Repaired(s).id # assoc.inc
                       \/ Previous(s) # NoSegment /\ Repaired(s).parent # Previous(s)

\* recover_router_wal_segment truncates the file at the first bad frame and syncs it.
Truncated(s) ==
  LET frames == Readable(disk[s].frames)
  IN  [Repaired(s) EXCEPT !.frames = frames, !.durable = Len(frames), !.mtime = clock.now]

RecoveredDisk(from) == [s \in Segments |-> IF s \in AtOrAbove(from) THEN Truncated(s) ELSE disk[s]]
RecoveredIndex(from) == UNION {ToSet(Readable(disk[s].frames)) : s \in AtOrAbove(from)}

Decodable == \A s \in Active : Repaired(s).header = "whole"

\* A start that dies before its first commit has repaired and truncated files.
StartCutShort ==
  /\ mem.phase = "down" /\ Decodable
  /\ disk' = RecoveredDisk(assoc.anchor)
  /\ UNCHANGED <<assoc, mem, writer, queue, fsyncQ, flush, sweep, callers, clock, owed, served>>

\* prepare without rotation: recover, rewrite the identity, commit the chain.
Recover ==
  /\ mem.phase = "down" /\ Decodable
  /\ ~Mismatch /\ ~assoc.pending
  /\ disk' = RecoveredDisk(assoc.anchor)
  /\ assoc' = [assoc EXCEPT !.head = Newest,
                            !.anchor = IF assoc.head = NoSegment /\ Segments # {}
                                       THEN Min(Segments) ELSE @]
  /\ mem' = [mem EXCEPT !.phase = "recovered", !.index = RecoveredIndex(assoc.anchor)]
  /\ UNCHANGED <<writer, queue, fsyncQ, flush, sweep, callers, clock, owed, served>>

\* prepare with rotation: the marker and, unless one is pending, a new
\* incarnation are committed before any segment is rewritten.
RotateMark ==
  /\ mem.phase = "down" /\ Decodable
  /\ Mismatch \/ assoc.pending
  /\ disk' = RecoveredDisk(assoc.anchor)
  /\ assoc' = [assoc EXCEPT !.pending = TRUE, !.inc = IF assoc.pending THEN @ ELSE @ + 1]
  /\ mem' = [mem EXCEPT !.phase = "rewriting", !.todo = Active]
  /\ UNCHANGED <<writer, queue, fsyncQ, flush, sweep, callers, clock, owed, served>>

\* rewrite replaces one segment through a synced temporary file and a rename.
RewriteOne ==
  /\ mem.phase = "rewriting" /\ mem.todo # {}
  /\ LET s == Min(mem.todo) IN
     /\ disk' = [disk EXCEPT ![s].id = assoc.inc, ![s].parent = Previous(s),
                             ![s].mtime = clock.now]
     /\ mem' = [mem EXCEPT !.todo = @ \ {s}]
  /\ UNCHANGED <<assoc, writer, queue, fsyncQ, flush, sweep, callers, clock, owed, served>>

\* The chain is taken from the files, recovered again, and the marker removed.
RotateCommit ==
  /\ mem.phase = "rewriting" /\ mem.todo = {}
  /\ LET anchor == IF Active = {} THEN NoSegment ELSE Min(Active) IN
     /\ disk' = RecoveredDisk(anchor)
     /\ assoc' = [assoc EXCEPT !.pending = FALSE, !.anchor = anchor,
                               !.head = IF Active = {} THEN NoSegment ELSE Max(Active)]
     /\ mem' = [mem EXCEPT !.phase = "recovered", !.index = RecoveredIndex(anchor)]
  /\ UNCHANGED <<writer, queue, fsyncQ, flush, sweep, callers, clock, owed, served>>

\* RouterWalWriterState::open: an empty directory gets its first segment ...
OpenCreate ==
  /\ mem.phase = "recovered" /\ Active = {}
  /\ disk' = WithSegment(1, NewFile(1, NoSegment))
  /\ UNCHANGED <<assoc, mem, writer, queue, fsyncQ, flush, sweep, callers, clock, owed, served>>

\* ... which is synced with its directory; the head is committed and the log
\* opens in the mode the environment names.
Open(mode) ==
  /\ mem.phase = "recovered" /\ Active # {}
  /\ LET s == Max(Active) IN
     /\ disk' = [disk EXCEPT ![s].durable = Len(disk[s].frames)]
     /\ assoc' = [assoc EXCEPT !.head = s,
                               !.anchor = IF assoc.head = NoSegment THEN s ELSE @]
     /\ mem' = [mem EXCEPT !.phase = "up", !.seg = s, !.mode = mode]
  /\ owed' = IF assoc.inc > served THEN owed \cap mem.index ELSE owed
  /\ served' = assoc.inc
  /\ UNCHANGED <<writer, queue, fsyncQ, flush, sweep, callers, clock>>

-----------------------------------------------------------------------------

Init ==
  /\ disk = [s \in {} |-> {}]
  /\ assoc = [inc |-> 0, pending |-> FALSE, anchor |-> NoSegment, head |-> NoSegment]
  /\ mem = [phase |-> "down", mode |-> CHOOSE m \in Modes : TRUE, fenced |-> FALSE,
            seg |-> NoSegment, index |-> {}, todo |-> {}]
  /\ writer = IdleWriter /\ queue = <<>> /\ fsyncQ = <<>>
  /\ flush = IdleFlush /\ sweep = IdleSweep
  /\ callers = [reply |-> [r \in Requests |-> "idle"], accepted |-> [r \in Requests |-> 0]]
  /\ clock = [now |-> 0, crashes |-> 0, damage |-> 0, faults |-> 0, gone |-> {}]
  /\ owed = {} /\ served = 0

WriterStep ==
  \/ \E n \in 1..BatchMax : TakeBatch(n)
  \/ AppendOne \/ RollBegin \/ RollCreate \/ RollSync \/ RollHead \/ FinishBatch
FlushStep ==
  \/ \E n \in 1..Cardinality(Requests) : TakeGroups(n)
  \/ \E s \in 1..MaxSegments : SyncFile(s)
  \/ ApplyGroup \/ ReplyOne
SweepStep == SweepSegment \/ SweepUnlink
StartStep == Recover \/ RotateMark \/ RewriteOne \/ RotateCommit \/ OpenCreate
             \/ \E mode \in Modes : Open(mode)

Next ==
  \/ \E r \in Requests : Submit(r) \/ Lookup(r)
  \/ WriterStep \/ FlushStep \/ SweepBegin \/ SweepStep \/ StartStep
  \/ WriterError \/ SyncError \/ FenceElsewhere \/ Crash \/ StartCutShort \/ Tick
  \/ \E s \in 1..MaxSegments : LoseSegment(s)

Spec == Init /\ [][Next]_vars

\* Threads that can run do, and a fenced process aborts.
Fairness == WF_vars(WriterStep) /\ WF_vars(FlushStep) /\ WF_vars(mem.fenced /\ Crash)

FairSpec == Spec /\ Fairness

-----------------------------------------------------------------------------
(* Properties *)

\* Types, and the two bounds the code relies on without a check: the writer
\* never appends to a segment that is not the recorded head, and a batch keeps
\* to BatchMax.
TypeOK ==
  /\ \A s \in Segments : disk[s] \in Files /\ disk[s].durable \in -1..Len(disk[s].frames)
  /\ assoc \in [inc : Nat, pending : BOOLEAN, anchor : Nat, head : Nat]
  /\ mem.phase \in {"down", "rewriting", "recovered", "up"} /\ mem.mode \in Modes
  /\ mem.index \subseteq Requests
  /\ Len(writer.batch) <= BatchMax
  /\ Up /\ writer.pc = "append" => mem.seg = assoc.head
  /\ callers.reply \in [Requests -> {"idle", "pending", "ok", "err"}]
  /\ owed \subseteq Requests

\* The log keeps the promise of DurableLog: what a caller was told is stored is
\* found after every restart until it is due, or the incarnation has changed.
\* Excused are the records of a segment whose loss a start cannot see.
Log == INSTANCE DurableLog WITH
  reply <- callers.reply,
  live <- IF mem.phase = "up" THEN mem.index ELSE {},
  due <- DueSet \cup clock.gone,
  epoch <- served,
  open <- mem.phase = "up"

Implements == Log!AbsSpec

\* A crash at any point of an append, a roll, a sweep or a start-up never makes
\* the next start rotate the incarnation: only a segment that was taken away does.
NoSpuriousRotation == clock.damage = 0 => assoc.inc = 0 /\ ~assoc.pending

\* Every caller of an append is answered, by the writer, by the fsync thread or
\* by the end of the process: each asks once, so there is always a later time
\* at which nobody waits.
EveryAppendAnswered == []<>(\A r \in Requests : callers.reply[r] # "pending")
=============================================================================
