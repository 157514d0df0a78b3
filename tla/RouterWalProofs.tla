--------------------------- MODULE RouterWalProofs ---------------------------
(***************************************************************************)
(* Theorems about RouterWal, for any number of appends, segments, crashes, *)
(* errors and lost segments, in both modes.                                *)
(***************************************************************************)
EXTENDS RouterWal, SequenceTheorems, WellFoundedInduction, TLAPS

-----------------------------------------------------------------------------
(* Least and greatest segments, and the readable part of a file.           *)

Bounded(S) == \E b \in Nat : S \subseteq 0..b

LEMMA Least ==
  ASSUME NEW S \in SUBSET Nat, S # {}
  PROVE  Min(S) \in S /\ Min(S) \in Nat /\ \A x \in S : Min(S) <= x
<1> DEFINE Less == {ss \in Nat \X Nat : ss[1] < ss[2]}
<1>1. IsWellFoundedOn(Less, Nat)
  BY NatLessThanWellFounded, Zenon DEF OpToRel
<1>2. \A i, j \in Nat : <<j, i>> \in Less <=> j < i
  OBVIOUS
<1> HIDE DEF Less
<1>3. PICK i \in S : \A j \in S : ~ (<<j, i>> \in Less)
  BY <1>1, WFMin
<1>4. \A j \in S : i \in Nat /\ j \in Nat
  OBVIOUS
<1>5. \A j \in S : ~ (j < i)
  BY <1>2, <1>3, <1>4
<1>6. \A j \in S : i <= j
  BY <1>4, <1>5
<1> QED BY <1>6 DEF Min

LEMMA Greatest ==
  ASSUME NEW S \in SUBSET Nat, S # {}, Bounded(S)
  PROVE  Max(S) \in S /\ Max(S) \in Nat /\ \A x \in S : x <= Max(S)
<1> DEFINE U == {b \in Nat : \A x \in S : x <= b}
<1>1. U \in SUBSET Nat /\ U # {}
  BY DEF Bounded
<1>2. PICK m \in U : \A b \in U : m <= b
  BY <1>1, Least
<1>3. m \in Nat /\ \A x \in S : x \in Nat /\ x <= m
  BY <1>1, <1>2
<1>4. m \in S
  <2> SUFFICES ASSUME m \notin S PROVE FALSE
    OBVIOUS
  <2>1. \A x \in S : x <= m - 1
    BY <1>3
  <2>2. PICK x \in S : x \in Nat /\ x <= m - 1
    BY <1>3, <2>1
  <2>3. m - 1 \in U
    BY <1>3, <2>1, <2>2
  <2> QED BY <1>2, <1>3, <2>3
<1>5. \A x \in S : m >= x
  BY <1>3
<1>6. Max(S) \in S /\ \A y \in S : Max(S) >= y
  BY <1>4, <1>5 DEF Max
<1> QED BY <1>6

LEMMA BoundedSets ==
  /\ \A S \in SUBSET Nat : \A T \in SUBSET S : Bounded(S) => Bounded(T)
  /\ \A S \in SUBSET Nat, x \in Nat : Bounded(S) => Bounded(S \cup {x})
  /\ Bounded({})
<1>1. \A S \in SUBSET Nat : \A T \in SUBSET S : Bounded(S) => Bounded(T)
  BY DEF Bounded
<1>2. ASSUME NEW S \in SUBSET Nat, NEW x \in Nat, Bounded(S) PROVE Bounded(S \cup {x})
  <2>1. PICK b \in Nat : S \subseteq 0..b
    BY <1>2 DEF Bounded
  <2>2. b + x \in Nat /\ S \cup {x} \subseteq 0..(b + x)
    BY <2>1
  <2> QED BY <2>2 DEF Bounded
<1>3. Bounded({})
  BY DEF Bounded
<1> QED BY <1>1, <1>2, <1>3

\* Recovery keeps the frames before the first bad one.
LEMMA ReadableFrames ==
  ASSUME NEW frames \in Seq(Requests \cup {Torn})
  PROVE  /\ Readable(frames) \in Seq(Requests)
         /\ Len(Readable(frames)) \in 0..Len(frames)
         /\ \A i \in 1..Len(Readable(frames)) : Readable(frames)[i] = frames[i] /\ frames[i] # Torn
         /\ \A n \in 0..Len(frames) : (\A i \in 1..n : frames[i] # Torn) => n <= Len(Readable(frames))
<1> DEFINE I == {i \in 1..Len(frames) : frames[i] = Torn}
<1>0. Len(frames) \in Nat /\ \A i \in 1..Len(frames) : frames[i] \in Requests \cup {Torn}
  OBVIOUS
<1>1. Readable(frames) = IF I = {} \/ Min(I) = 0 THEN frames ELSE SubSeq(frames, 1, Min(I) - 1)
  BY DEF Readable, SelectInSeq
<1>i. I \in SUBSET Nat /\ \A i : i \in I <=> i \in 1..Len(frames) /\ frames[i] = Torn
  BY <1>0
<1> HIDE DEF I
<1>2. CASE I = {}
  <2>1. Readable(frames) = frames /\ \A i \in 1..Len(frames) : frames[i] # Torn
    BY <1>1, <1>2, <1>i
  <2>2. \A i \in 1..Len(frames) : frames[i] \in Requests
    BY <1>0, <2>1
  <2>3. frames \in Seq(Requests)
    BY <2>2
  <2> QED BY <1>0, <2>1, <2>3
<1>3. CASE I # {}
  <2>1. PICK m : m = Min(I)
    OBVIOUS
  <2>2. m \in I /\ \A x \in I : m <= x
    BY <1>3, <1>i, <2>1, Least
  <2>3. m \in 1..Len(frames) /\ frames[m] = Torn
    BY <1>i, <2>2
  <2>4. \A i \in 1..(m - 1) : frames[i] # Torn /\ frames[i] \in Requests
    BY <1>0, <1>i, <2>2, <2>3
  <2>5. Readable(frames) = SubSeq(frames, 1, m - 1)
    BY <1>0, <1>1, <1>3, <2>1, <2>3
  <2>6. /\ Len(SubSeq(frames, 1, m - 1)) = m - 1
        /\ \A i \in 1..(m - 1) : SubSeq(frames, 1, m - 1)[i] = frames[i]
        /\ SubSeq(frames, 1, m - 1) \in Seq(Requests \cup {Torn})
    BY <1>0, <2>3
  <2>7. SubSeq(frames, 1, m - 1) \in Seq(Requests)
    BY <2>4, <2>6
  <2> QED BY <1>0, <2>3, <2>4, <2>5, <2>6, <2>7
<1> QED BY <1>2, <1>3

-----------------------------------------------------------------------------
(* Types.                                                                  *)

Groups == Seq(Requests) \ {<<>>}
Appending == {"append", "roll", "header", "head"}

FileTypes ==
  /\ disk \in [Segments -> Files]
  /\ Segments \subseteq Nat \ {0} /\ Bounded(Segments)
  /\ \A s \in Segments : disk[s].durable \in -1..Len(disk[s].frames)

StoreTypes ==
  /\ assoc \in [inc : Nat, pending : BOOLEAN, anchor : Nat, head : Nat]
  /\ mem \in [phase : {"down", "rewriting", "recovered", "up"}, mode : Modes, fenced : BOOLEAN,
              seg : Nat, index : SUBSET Requests, todo : SUBSET Nat]

WriterTypes ==
  /\ writer \in [pc : {"idle", "commit"} \cup Appending, batch : Seq(Requests),
                 left : Seq(Requests), files : SUBSET Nat]
  /\ Len(writer.batch) <= BatchMax
  /\ writer.pc \in Appending => writer.batch # <<>>
  /\ queue \in Seq(Requests)

FlushTypes ==
  /\ fsyncQ \in Seq([batch : Groups, files : SUBSET Nat])
  /\ flush \in [stage : {"idle", "sync", "apply", "reply"}, groups : Seq(Groups),
                left : Seq(Requests), files : SUBSET Nat]
  /\ flush.stage \in {"sync", "apply"} => flush.groups # <<>>
  /\ flush.stage = "reply" => flush.left # <<>>

SweepTypes ==
  /\ sweep \in [pc : {"idle", "files", "unlink"}, ids : SUBSET Nat]
  /\ sweep.pc # "idle" => sweep.ids # {}

CallerTypes ==
  /\ callers \in [reply : [Requests -> {"idle", "pending", "ok", "err"}],
                  accepted : [Requests -> Nat]]
  /\ clock \in [now : Nat, crashes : Nat, damage : Nat, faults : Nat, gone : SUBSET Requests]
  /\ owed \in SUBSET Requests /\ served \in Nat

WalTypes == FileTypes /\ StoreTypes /\ WriterTypes /\ FlushTypes /\ SweepTypes /\ CallerTypes

LEMMA InitTypes == Init => WalTypes
<1> SUFFICES ASSUME Init PROVE WalTypes
  OBVIOUS
<1>1. FileTypes
  BY BoundedSets DEF Init, FileTypes, Segments
<1>2. StoreTypes
  BY WalAssumption DEF Init, StoreTypes, NoSegment
<1>3. WriterTypes
  BY WalAssumption DEF Init, WriterTypes, IdleWriter, Appending
<1>4. FlushTypes
  BY DEF Init, FlushTypes, IdleFlush
<1>5. SweepTypes
  BY DEF Init, SweepTypes, IdleSweep
<1>6. CallerTypes
  BY DEF Init, CallerTypes
<1> QED BY <1>1, <1>2, <1>3, <1>4, <1>5, <1>6 DEF WalTypes

\* Files: a changed one, and the directory as a whole.
FileOK(f) == f \in Files /\ f.durable \in -1..Len(f.frames)

LEMMA FileFacts ==
  ASSUME FileTypes, NEW s \in Segments
  PROVE  /\ s \in Nat /\ s > 0 /\ FileOK(disk[s])
         /\ disk[s].frames \in Seq(Requests \cup {Torn}) /\ Len(disk[s].frames) \in Nat
         /\ disk[s].header \in {"short", "whole"} /\ disk[s].id \in Nat /\ disk[s].parent \in Nat
         /\ disk[s].durable \in Int /\ disk[s].mtime \in Nat
<1>1. s \in Nat /\ s > 0 /\ FileOK(disk[s])
  BY DEF FileTypes, FileOK
<1> QED BY <1>1 DEF FileOK, Files

LEMMA EditedDisk ==
  ASSUME FileTypes, NEW s, NEW f, disk' = [disk EXCEPT ![s] = f], s \in Segments => FileOK(f)
  PROVE  /\ FileTypes' /\ Segments' = Segments
         /\ \A t \in Segments : disk'[t] = IF t = s THEN f ELSE disk[t]
BY DEF FileTypes, FileOK, Segments

LEMMA MadeDisk ==
  ASSUME NEW S \in SUBSET (Nat \ {0}), Bounded(S), DOMAIN disk' = S,
         disk' = [s \in S |-> disk'[s]], \A s \in S : FileOK(disk'[s])
  PROVE  FileTypes' /\ Segments' = S
BY DEF FileTypes, FileOK, Segments

\* Appending and syncing leave the headers alone.
SameHeaders ==
  /\ Segments' = Segments
  /\ \A t \in Segments :
       /\ disk'[t].parent = disk[t].parent /\ disk'[t].header = disk[t].header
       /\ disk'[t].id = disk[t].id
       /\ disk[t].durable >= 0 => disk'[t].durable >= 0
       /\ t # mem.seg => disk'[t].frames = disk[t].frames

LEMMA SyncedDisk ==
  ASSUME FileTypes, NEW s, disk' = [disk EXCEPT ![s].durable = Len(disk[s].frames)]
  PROVE  /\ FileTypes' /\ SameHeaders
         /\ \A t \in Segments : disk'[t].frames = disk[t].frames /\ disk'[t].mtime = disk[t].mtime
         /\ \A t \in Segments : disk'[t].durable = IF t = s THEN Len(disk[s].frames) ELSE disk[t].durable
<1>1. PICK f : f = [disk[s] EXCEPT !.durable = Len(disk[s].frames)]
  OBVIOUS
<1>2. ASSUME s \in Segments
      PROVE  /\ FileOK(f) /\ f.parent = disk[s].parent /\ f.header = disk[s].header
             /\ f.id = disk[s].id /\ f.frames = disk[s].frames /\ f.mtime = disk[s].mtime
             /\ f.durable = Len(disk[s].frames) /\ f.durable >= 0
  <2>1. /\ disk[s] \in Files /\ Len(disk[s].frames) \in Nat
    BY <1>2, FileFacts DEF FileOK
  <2>2. /\ f \in Files /\ f.parent = disk[s].parent /\ f.header = disk[s].header
        /\ f.id = disk[s].id /\ f.frames = disk[s].frames /\ f.mtime = disk[s].mtime
        /\ f.durable = Len(disk[s].frames)
    BY <1>1, <2>1 DEF Files
  <2> QED BY <2>1, <2>2 DEF FileOK
<1>3. disk' = [disk EXCEPT ![s] = f]
  BY <1>1
<1>4. /\ FileTypes' /\ Segments' = Segments
      /\ \A t \in Segments : disk'[t] = IF t = s THEN f ELSE disk[t]
  <2>1. s \in Segments => FileOK(f)
    BY <1>2
  <2> QED BY <1>3, <2>1, EditedDisk
<1> QED BY <1>2, <1>4 DEF SameHeaders

\* A frame, or part of one, at the end of a file.
Extended(f, old, x, n) == f \in {[old EXCEPT !.frames = Append(@, x)],
                                 [old EXCEPT !.frames = Append(@, x), !.mtime = n]}

LEMMA ExtendedFile ==
  ASSUME FileTypes, NEW s, NEW x \in Requests \cup {Torn}, NEW n \in Nat, NEW f,
         \A t : t # mem.seg => t # s, disk' = [disk EXCEPT ![s] = f],
         Extended(f, disk[s], x, n)
  PROVE  FileTypes' /\ SameHeaders /\ \A t \in Segments : disk'[t].durable = disk[t].durable
<1>2. s \in Segments => /\ FileOK(f) /\ f.parent = disk[s].parent /\ f.header = disk[s].header
                        /\ f.id = disk[s].id /\ f.durable = disk[s].durable
  <2> SUFFICES ASSUME s \in Segments
               PROVE  /\ FileOK(f) /\ f.parent = disk[s].parent /\ f.header = disk[s].header
                      /\ f.id = disk[s].id /\ f.durable = disk[s].durable
    OBVIOUS
  <2>1. /\ Append(disk[s].frames, x) \in Seq(Requests \cup {Torn})
        /\ Len(Append(disk[s].frames, x)) = Len(disk[s].frames) + 1
        /\ Len(disk[s].frames) \in Nat /\ disk[s] \in Files
        /\ disk[s].durable \in Int /\ disk[s].durable \in -1..Len(disk[s].frames)
    BY FileFacts DEF FileOK
  <2>2. /\ f \in Files /\ f.parent = disk[s].parent /\ f.header = disk[s].header
        /\ f.id = disk[s].id /\ f.durable = disk[s].durable
        /\ f.frames = Append(disk[s].frames, x)
    BY <2>1 DEF Files, Extended
  <2> QED BY <2>1, <2>2 DEF FileOK
<1>4. /\ FileTypes' /\ Segments' = Segments
      /\ \A t \in Segments : disk'[t] = IF t = s THEN f ELSE disk[t]
  <2>1. s \in Segments => FileOK(f)
    BY <1>2
  <2> QED BY <2>1, EditedDisk
<1> QED BY <1>2, <1>4 DEF SameHeaders

LEMMA WrittenDisk ==
  ASSUME WalTypes, AppendOne \/ RollBegin \/ WriterError \/ \E s \in 1..MaxSegments : SyncFile(s)
  PROVE  FileTypes' /\ SameHeaders
<1>0. UNCHANGED disk => FileTypes' /\ SameHeaders
  <2> SUFFICES ASSUME disk' = disk PROVE FileTypes' /\ SameHeaders
    OBVIOUS
  <2>1. Segments' = Segments
    BY DEF Segments
  <2> QED BY <2>1 DEF WalTypes, FileTypes, SameHeaders
<1>1. CASE AppendOne
  <2>1. Head(writer.left) \in Requests \cup {Torn} /\ clock.now \in Nat
    BY <1>1 DEF WalTypes, WriterTypes, CallerTypes, AppendOne
  <2>2. PICK f : f = [disk[mem.seg] EXCEPT !.frames = Append(@, Head(writer.left)),
                                           !.mtime = clock.now]
    OBVIOUS
  <2>3. disk' = [disk EXCEPT ![mem.seg] = f]
    BY <1>1, <2>2 DEF AppendOne
  <2>4. Extended(f, disk[mem.seg], Head(writer.left), clock.now)
    BY <2>2 DEF Extended
  <2> QED BY <2>1, <2>3, <2>4, ExtendedFile DEF WalTypes
<1>2. CASE RollBegin
  <2>1. UNCHANGED disk \/ disk' = [disk EXCEPT ![mem.seg].durable = Len(disk[mem.seg].frames)]
    BY <1>2 DEF RollBegin
  <2> QED BY <1>0, <2>1, SyncedDisk DEF WalTypes
<1>3. CASE WriterError
  <2>1. CASE disk' = [disk EXCEPT ![mem.seg].frames = Append(@, Torn)]
    <3>1. PICK f : f = [disk[mem.seg] EXCEPT !.frames = Append(@, Torn)]
      OBVIOUS
    <3>2. disk' = [disk EXCEPT ![mem.seg] = f]
      BY <2>1, <3>1
    <3>3. Extended(f, disk[mem.seg], Torn, 0)
      BY <3>1 DEF Extended
    <3>4. Torn \in Requests \cup {Torn} /\ 0 \in Nat
      OBVIOUS
    <3> QED BY <3>2, <3>3, <3>4, ExtendedFile DEF WalTypes
  <2> QED BY <1>0, <1>3, <2>1 DEF WriterError
<1>4. ASSUME NEW s \in 1..MaxSegments, SyncFile(s) PROVE FileTypes' /\ SameHeaders
  <2>1. UNCHANGED disk \/ disk' = [disk EXCEPT ![s].durable = Len(disk[s].frames)]
    BY <1>4 DEF SyncFile
  <2> QED BY <1>0, <2>1, SyncedDisk DEF WalTypes
<1> QED BY <1>1, <1>2, <1>3, <1>4

\* A directory with one file more or one less.
LEMMA GrownDisk ==
  ASSUME FileTypes, NEW s \in Nat \ {0}, NEW f, FileOK(f), disk' = WithSegment(s, f)
  PROVE  /\ FileTypes' /\ Segments' = Segments \cup {s} /\ disk'[s] = f
         /\ \A t \in Segments : t # s => disk'[t] = disk[t]
<1>1. /\ DOMAIN disk' = Segments \cup {s} /\ disk' = [t \in Segments \cup {s} |-> disk'[t]]
      /\ \A t \in Segments \cup {s} : disk'[t] = IF t = s THEN f ELSE disk[t]
  BY DEF WithSegment
<1>2. Segments \cup {s} \in SUBSET (Nat \ {0}) /\ Bounded(Segments \cup {s})
  BY BoundedSets DEF FileTypes
<1>3. \A t \in Segments \cup {s} : FileOK(disk'[t])
  BY <1>1, FileFacts
<1> QED BY <1>1, <1>2, <1>3, MadeDisk

LEMMA ShrunkDisk ==
  ASSUME FileTypes, NEW s, disk' = WithoutSegment(s)
  PROVE  /\ FileTypes' /\ Segments' = Segments \ {s}
         /\ \A t \in Segments \ {s} : disk'[t] = disk[t]
<1>1. /\ DOMAIN disk' = Segments \ {s} /\ disk' = [t \in Segments \ {s} |-> disk'[t]]
      /\ \A t \in Segments \ {s} : disk'[t] = disk[t]
  BY DEF WithoutSegment
<1>2. Segments \ {s} \in SUBSET (Nat \ {0}) /\ Bounded(Segments \ {s})
  BY BoundedSets DEF FileTypes
<1>3. \A t \in Segments \ {s} : FileOK(disk'[t])
  BY <1>1, FileFacts
<1> QED BY <1>1, <1>2, <1>3, MadeDisk

\* What a power loss leaves of one file.
LEMMA RemainsFacts ==
  ASSUME NEW f, FileOK(f), NEW g \in Remains(f)
  PROVE  /\ g.parent = f.parent /\ g.id = f.id /\ g.durable = f.durable /\ g.mtime = f.mtime
         /\ g.header # "gone" => FileOK(g)
         /\ f.durable >= 0 => g.header = f.header /\ g.header # "gone"
         /\ f.durable = -1 => g.frames = f.frames
         /\ \A i \in 1..f.durable : g.frames[i] = f.frames[i]
<1>0. /\ f \in Files /\ f.frames \in Seq(Requests \cup {Torn}) /\ Len(f.frames) \in Nat
      /\ f.durable \in Int /\ f.durable \in -1..Len(f.frames) /\ f.header \in {"short", "whole"}
  BY DEF FileOK, Files
<1>1. CASE f.durable = -1
  <2>1. PICK h \in {"gone", "short", "whole"} : g = [f EXCEPT !.header = h]
    BY <1>1 DEF Remains
  <2>2. /\ g.parent = f.parent /\ g.id = f.id /\ g.durable = f.durable /\ g.mtime = f.mtime
        /\ g.frames = f.frames /\ g.header = h /\ (h # "gone" => g \in Files)
    BY <1>0, <2>1 DEF Files
  <2> QED BY <1>0, <1>1, <2>2 DEF FileOK
<1>2. CASE f.durable # -1
  <2>1. PICK fr, n : /\ g = [f EXCEPT !.frames = fr] /\ n \in f.durable..Len(f.frames)
                     /\ fr = SubSeq(f.frames, 1, n) \/ fr = Append(SubSeq(f.frames, 1, n), Torn)
    <3>1. \/ \E n \in f.durable..Len(f.frames) : g = [f EXCEPT !.frames = SubSeq(f.frames, 1, n)]
          \/ \E n \in f.durable..(Len(f.frames) - 1) :
                g = [f EXCEPT !.frames = Append(SubSeq(f.frames, 1, n), Torn)]
      BY <1>2 DEF Remains
    <3>2. f.durable..(Len(f.frames) - 1) \subseteq f.durable..Len(f.frames)
      BY <1>0
    <3> QED BY <3>1, <3>2
  <2>2. n \in Nat /\ f.durable <= n /\ n <= Len(f.frames) /\ f.durable >= 0
    BY <1>0, <1>2, <2>1
  <2>3. /\ SubSeq(f.frames, 1, n) \in Seq(Requests \cup {Torn}) /\ Len(SubSeq(f.frames, 1, n)) = n
        /\ \A i \in 1..n : SubSeq(f.frames, 1, n)[i] = f.frames[i]
    BY <1>0, <2>2
  <2>4. /\ Append(SubSeq(f.frames, 1, n), Torn) \in Seq(Requests \cup {Torn})
        /\ Len(Append(SubSeq(f.frames, 1, n), Torn)) = n + 1
        /\ \A i \in 1..n : Append(SubSeq(f.frames, 1, n), Torn)[i] = f.frames[i]
    <3>1. PICK q : q = SubSeq(f.frames, 1, n)
      OBVIOUS
    <3>2. q \in Seq(Requests \cup {Torn}) /\ Len(q) = n /\ \A i \in 1..n : q[i] = f.frames[i]
      BY <2>3, <3>1
    <3>3. /\ Append(q, Torn) \in Seq(Requests \cup {Torn}) /\ Len(Append(q, Torn)) = n + 1
          /\ \A i \in 1..n : Append(q, Torn)[i] = q[i]
      BY <2>2, <3>2
    <3> QED BY <3>1, <3>2, <3>3
  <2>5. /\ fr \in Seq(Requests \cup {Torn}) /\ Len(fr) >= n /\ Len(fr) \in Nat
        /\ \A i \in 1..n : fr[i] = f.frames[i]
    <3>1. fr = SubSeq(f.frames, 1, n) \/ fr = Append(SubSeq(f.frames, 1, n), Torn)
      BY <2>1
    <3>2. n >= n /\ n + 1 >= n /\ n + 1 \in Nat
      BY <2>2
    <3>3. CASE fr = SubSeq(f.frames, 1, n)
      BY <2>2, <2>3, <3>2, <3>3, Zenon
    <3>4. CASE fr = Append(SubSeq(f.frames, 1, n), Torn)
      BY <2>4, <3>2, <3>4, Zenon
    <3> QED BY <3>1, <3>3, <3>4
  <2>6. /\ g.parent = f.parent /\ g.id = f.id /\ g.durable = f.durable /\ g.mtime = f.mtime
        /\ g.frames = fr /\ g.header = f.header /\ g \in Files
    BY <1>0, <2>1, <2>5 DEF Files
  <2> QED BY <1>0, <2>2, <2>5, <2>6 DEF FileOK
<1> QED BY <1>1, <1>2

LEMMA CrashedDisk ==
  ASSUME FileTypes, Crash
  PROVE  /\ FileTypes' /\ Segments' \subseteq Segments
         /\ \A t \in Segments : disk[t].durable >= 0 =>
              t \in Segments' /\ disk'[t].header = disk[t].header
         /\ \A t \in Segments' :
              /\ disk'[t].parent = disk[t].parent /\ disk'[t].id = disk[t].id
              /\ disk'[t].durable = disk[t].durable /\ disk'[t].mtime = disk[t].mtime
              /\ disk[t].durable = -1 => disk'[t].frames = disk[t].frames
              /\ \A i \in 1..disk[t].durable : disk'[t].frames[i] = disk[t].frames[i]
<1>1. PICK after : /\ \A s \in Segments : after[s] \in Remains(disk[s])
                   /\ disk' = [s \in {t \in Segments : after[t].header # "gone"} |-> after[s]]
  BY DEF Crash
<1>2. PICK S : S = {t \in Segments : after[t].header # "gone"}
  OBVIOUS
<1>3. DOMAIN disk' = S /\ disk' = [s \in S |-> disk'[s]] /\ \A s \in S : disk'[s] = after[s]
  BY <1>1, <1>2
<1>4. S \in SUBSET (Nat \ {0}) /\ Bounded(S)
  BY <1>2, BoundedSets DEF FileTypes
<1>5. \A s \in S : FileOK(disk'[s])
  BY <1>1, <1>2, <1>3, FileFacts, RemainsFacts
<1>6. FileTypes' /\ Segments' = S
  BY <1>3, <1>4, <1>5, MadeDisk
<1>7. \A t \in Segments : FileOK(disk[t]) /\ after[t] \in Remains(disk[t])
  BY <1>1, FileFacts
<1>8. ASSUME NEW t \in Segments, disk[t].durable >= 0
      PROVE  t \in Segments' /\ disk'[t].header = disk[t].header
  BY <1>2, <1>3, <1>6, <1>7, <1>8, RemainsFacts
<1>9. ASSUME NEW t \in Segments'
      PROVE  /\ disk'[t].parent = disk[t].parent /\ disk'[t].id = disk[t].id
             /\ disk'[t].durable = disk[t].durable /\ disk'[t].mtime = disk[t].mtime
             /\ disk[t].durable = -1 => disk'[t].frames = disk[t].frames
             /\ \A i \in 1..disk[t].durable : disk'[t].frames[i] = disk[t].frames[i]
  <2>1. t \in Segments /\ disk'[t] = after[t]
    BY <1>2, <1>3, <1>6
  <2> QED BY <1>7, <2>1, RemainsFacts
<1> QED BY <1>2, <1>6, <1>8, <1>9

\* The directory as recovery leaves it.
LEMMA RepairedFile ==
  ASSUME FileTypes, StoreTypes, NEW s \in Segments
  PROVE  /\ Repaired(s) \in Files /\ Repaired(s).frames = disk[s].frames
         /\ Repaired(s).mtime = disk[s].mtime /\ Repaired(s).durable = disk[s].durable
         /\ \/ Repaired(s) = disk[s]
            \/ /\ EmptyResidue(s) /\ Repaired(s).header = "whole"
               /\ Repaired(s).id = assoc.inc /\ Repaired(s).parent = Previous(s)
<1>1. disk[s] \in Files /\ assoc.inc \in Nat
  BY FileFacts DEF FileOK, StoreTypes
<1>2. Previous(s) \in Nat
  <2>1. PICK B : B = {t \in Active : t < s}
    OBVIOUS
  <2>2. B \in SUBSET Nat /\ Bounded(B)
    BY <2>1, BoundedSets DEF FileTypes, Active, AtOrAbove
  <2>3. Previous(s) = IF B = {} THEN NoSegment ELSE Max(B)
    BY <2>1 DEF Previous
  <2> QED BY <2>2, <2>3, Greatest DEF NoSegment
<1>3. CASE EmptyResidue(s)
  <2>1. Repaired(s) = [disk[s] EXCEPT !.header = "whole", !.id = assoc.inc, !.parent = Previous(s)]
    BY <1>3 DEF Repaired
  <2> QED BY <1>1, <1>2, <1>3, <2>1 DEF Files
<1>4. CASE ~EmptyResidue(s)
  BY <1>1, <1>4 DEF Repaired
<1> QED BY <1>3, <1>4

LEMMA RecoveredFiles ==
  ASSUME FileTypes, StoreTypes, CallerTypes, NEW from \in Nat, disk' = RecoveredDisk(from)
  PROVE  /\ FileTypes' /\ Segments' = Segments
         /\ \A s \in Segments : s < from => disk'[s] = disk[s]
         /\ \A s \in Segments : s >= from =>
              /\ disk'[s].frames = Readable(disk[s].frames)
              /\ disk'[s].durable = Len(Readable(disk[s].frames)) /\ disk'[s].durable >= 0
              /\ disk'[s].header = Repaired(s).header /\ disk'[s].id = Repaired(s).id
              /\ disk'[s].parent = Repaired(s).parent /\ disk'[s].mtime = clock.now
<1>1. /\ DOMAIN disk' = Segments /\ disk' = [s \in Segments |-> disk'[s]]
      /\ \A s \in Segments : disk'[s] = IF s >= from THEN Truncated(s) ELSE disk[s]
  BY DEF RecoveredDisk, AtOrAbove
<1>2. ASSUME NEW s \in Segments
      PROVE  /\ FileOK(Truncated(s))
             /\ Truncated(s).frames = Readable(disk[s].frames)
             /\ Truncated(s).durable = Len(Readable(disk[s].frames)) /\ Truncated(s).durable >= 0
             /\ Truncated(s).header = Repaired(s).header /\ Truncated(s).id = Repaired(s).id
             /\ Truncated(s).parent = Repaired(s).parent /\ Truncated(s).mtime = clock.now
  <2>1. PICK rf, fr : rf = Repaired(s) /\ fr = Readable(disk[s].frames)
    OBVIOUS
  <2>2. /\ rf \in Files /\ fr \in Seq(Requests) /\ Len(fr) \in Nat /\ clock.now \in Nat
        /\ fr \in Seq(Requests \cup {Torn})
    BY <2>1, RepairedFile, FileFacts, ReadableFrames DEF CallerTypes
  <2>3. Truncated(s) = [rf EXCEPT !.frames = fr, !.durable = Len(fr), !.mtime = clock.now]
    BY <2>1 DEF Truncated
  <2>4. /\ Truncated(s) \in Files /\ Truncated(s).frames = fr /\ Truncated(s).durable = Len(fr)
        /\ Truncated(s).header = rf.header /\ Truncated(s).id = rf.id
        /\ Truncated(s).parent = rf.parent /\ Truncated(s).mtime = clock.now
    <3>1. PICK tr, n, now : tr = Truncated(s) /\ n = Len(fr) /\ now = clock.now
      OBVIOUS
    <3>2. tr = [rf EXCEPT !.frames = fr, !.durable = n, !.mtime = now] /\ n \in Int /\ now \in Nat
      BY <2>2, <2>3, <3>1
    <3>3. /\ tr \in Files /\ tr.frames = fr /\ tr.durable = n /\ tr.header = rf.header
          /\ tr.id = rf.id /\ tr.parent = rf.parent /\ tr.mtime = now
      BY <2>2, <3>2 DEF Files
    <3> QED BY <3>1, <3>3
  <2> QED BY <2>1, <2>2, <2>4 DEF FileOK
<1>3. \A s \in Segments : FileOK(disk'[s])
  BY <1>1, <1>2, FileFacts
<1>4. Segments \in SUBSET (Nat \ {0}) /\ Bounded(Segments)
  BY DEF FileTypes
<1>5. FileTypes' /\ Segments' = Segments
  BY <1>1, <1>3, <1>4, MadeDisk
<1>6. \A s \in Segments : s \in Nat
  BY <1>4
<1> QED BY <1>1, <1>2, <1>5, <1>6

LEMMA PreviousSegment ==
  ASSUME FileTypes, NEW s \in Nat
  PROVE  /\ Previous(s) \in Nat
         /\ Previous(s) # NoSegment =>
              /\ Previous(s) \in Active /\ Previous(s) < s
              /\ \A t \in Active : ~(Previous(s) < t /\ t < s)
         /\ Previous(s) = NoSegment => \A t \in Active : t >= s
<1>1. PICK B : B = {t \in Active : t < s}
  OBVIOUS
<1>2. B \in SUBSET Nat /\ Bounded(B) /\ Active \in SUBSET Nat /\ \A t \in B : t > 0
  <2>1. B \in SUBSET Segments /\ Active \in SUBSET Segments
    BY <1>1 DEF Active, AtOrAbove
  <2>2. Segments \in SUBSET Nat /\ Bounded(Segments) /\ \A t \in Segments : t > 0
    BY DEF FileTypes
  <2> QED BY <2>1, <2>2, BoundedSets
<1>3. Previous(s) = IF B = {} THEN NoSegment ELSE Max(B)
  BY <1>1 DEF Previous
<1>4. CASE B = {}
  BY <1>1, <1>2, <1>3, <1>4 DEF NoSegment
<1>5. CASE B # {}
  <2>1. PICK m : m = Max(B)
    OBVIOUS
  <2>2. m \in B /\ m \in Nat /\ \A x \in B : x <= m
    BY <1>2, <1>5, <2>1, Greatest
  <2> QED BY <1>1, <1>2, <1>3, <1>5, <2>1, <2>2 DEF NoSegment
<1> QED BY <1>4, <1>5

LEMMA RewrittenFile ==
  ASSUME FileTypes, StoreTypes, CallerTypes, RewriteOne
  PROVE  /\ Min(mem.todo) \in mem.todo /\ Min(mem.todo) \in Nat
         /\ FileTypes' /\ Segments' = Segments
         /\ \A t \in Segments :
              /\ t # Min(mem.todo) => disk'[t] = disk[t]
              /\ disk'[t].frames = disk[t].frames /\ disk'[t].durable = disk[t].durable
              /\ disk'[t].header = disk[t].header
              /\ t = Min(mem.todo) => disk'[t].parent = Previous(t) /\ disk'[t].id = assoc.inc
<1>1. PICK s : s = Min(mem.todo)
  OBVIOUS
<1>2. s \in mem.todo /\ s \in Nat
  BY <1>1, Least DEF StoreTypes, RewriteOne
<1>3. PICK f : f = [disk[s] EXCEPT !.id = assoc.inc, !.parent = Previous(s), !.mtime = clock.now]
  OBVIOUS
<1>4. disk' = [disk EXCEPT ![s] = f]
  BY <1>1, <1>3 DEF RewriteOne
<1>5. s \in Segments => /\ FileOK(f) /\ f.frames = disk[s].frames /\ f.durable = disk[s].durable
                        /\ f.header = disk[s].header /\ f.parent = Previous(s) /\ f.id = assoc.inc
  <2> SUFFICES ASSUME s \in Segments
               PROVE  /\ FileOK(f) /\ f.frames = disk[s].frames /\ f.durable = disk[s].durable
                      /\ f.header = disk[s].header /\ f.parent = Previous(s) /\ f.id = assoc.inc
    OBVIOUS
  <2>1. /\ disk[s] \in Files /\ disk[s].durable \in -1..Len(disk[s].frames)
        /\ Previous(s) \in Nat /\ assoc.inc \in Nat /\ clock.now \in Nat
    BY <1>2, FileFacts, PreviousSegment DEF FileOK, StoreTypes, CallerTypes
  <2>2. /\ f \in Files /\ f.frames = disk[s].frames /\ f.durable = disk[s].durable
        /\ f.header = disk[s].header /\ f.parent = Previous(s) /\ f.id = assoc.inc
    BY <1>3, <2>1 DEF Files
  <2> QED BY <2>1, <2>2 DEF FileOK
<1>6. s \in Segments => FileOK(f)
  BY <1>5
<1>7. /\ FileTypes' /\ Segments' = Segments
      /\ \A t \in Segments : disk'[t] = IF t = s THEN f ELSE disk[t]
  BY <1>4, <1>6, EditedDisk
<1> QED BY <1>1, <1>2, <1>5, <1>7

LEMMA SyncedHeader ==
  ASSUME FileTypes, NEW s, disk' = [disk EXCEPT ![s].durable = 0]
  PROVE  /\ FileTypes' /\ SameHeaders
         /\ s \in Segments => disk'[s].durable = 0
         /\ \A t \in Segments : disk'[t].frames = disk[t].frames /\ disk'[t].mtime = disk[t].mtime
         /\ \A t \in Segments : t # s => disk'[t] = disk[t]
<1>1. PICK f : f = [disk[s] EXCEPT !.durable = 0]
  OBVIOUS
<1>2. disk' = [disk EXCEPT ![s] = f]
  BY <1>1
<1>3. s \in Segments => /\ FileOK(f) /\ f.parent = disk[s].parent /\ f.header = disk[s].header
                        /\ f.id = disk[s].id /\ f.frames = disk[s].frames /\ f.mtime = disk[s].mtime
                        /\ f.durable = 0
  <2> SUFFICES ASSUME s \in Segments
               PROVE  /\ FileOK(f) /\ f.parent = disk[s].parent /\ f.header = disk[s].header
                      /\ f.id = disk[s].id /\ f.frames = disk[s].frames /\ f.mtime = disk[s].mtime
                      /\ f.durable = 0
    OBVIOUS
  <2>1. disk[s] \in Files /\ Len(disk[s].frames) \in Nat
    BY FileFacts DEF FileOK
  <2>2. /\ f \in Files /\ f.parent = disk[s].parent /\ f.header = disk[s].header
        /\ f.id = disk[s].id /\ f.frames = disk[s].frames /\ f.mtime = disk[s].mtime
        /\ f.durable = 0
    BY <1>1, <2>1 DEF Files
  <2> QED BY <2>1, <2>2 DEF FileOK
<1>4. s \in Segments => FileOK(f)
  BY <1>3
<1>5. /\ FileTypes' /\ Segments' = Segments
      /\ \A t \in Segments : disk'[t] = IF t = s THEN f ELSE disk[t]
  BY <1>2, <1>4, EditedDisk
<1> QED BY <1>3, <1>5 DEF SameHeaders

-----------------------------------------------------------------------------
(* Types of the process.                                                   *)

LEMMA SubmitTypes ==
  ASSUME WalTypes, NEW r \in Requests, Submit(r) \/ Lookup(r)
  PROVE  WriterTypes' /\ CallerTypes'
<1>1. CASE Submit(r)
  <2>1. /\ queue' = Append(queue, r) /\ UNCHANGED <<writer, clock, owed, served>>
        /\ callers' = [callers EXCEPT !.reply[r] = "pending", !.accepted[r] = clock.now]
    BY <1>1 DEF Submit
  <2>2. WriterTypes'
    BY <2>1 DEF WalTypes, WriterTypes
  <2> QED BY <2>1, <2>2 DEF WalTypes, CallerTypes
<1>2. CASE Lookup(r)
  BY <1>2 DEF WalTypes, WriterTypes, CallerTypes, Lookup
<1> QED BY <1>1, <1>2

LEMMA TakeBatchTypes ==
  ASSUME WalTypes, NEW n \in 1..BatchMax, TakeBatch(n)
  PROVE  WriterTypes'
<1>1. n \in Nat /\ BatchMax \in Nat /\ n <= BatchMax /\ n >= 1
  BY WalAssumption
<1>2. queue \in Seq(Requests) /\ Len(queue) \in Nat
  BY DEF WalTypes, WriterTypes
<1>3. n <= Len(queue)
  <2>1. {BatchMax, Len(queue)} \in SUBSET Nat /\ {BatchMax, Len(queue)} # {}
    BY <1>1, <1>2
  <2>2. n \in 1..Min({BatchMax, Len(queue)})
    BY DEF TakeBatch
  <2>3. Min({BatchMax, Len(queue)}) \in Nat /\ Min({BatchMax, Len(queue)}) <= Len(queue)
    BY <2>1, Least
  <2> QED BY <1>2, <2>2, <2>3
<1>4. PICK b : b = SubSeq(queue, 1, n)
  OBVIOUS
<1>5. b \in Seq(Requests) /\ Len(b) = n
  BY <1>1, <1>2, <1>3, <1>4
<1>6. SubSeq(queue, n + 1, Len(queue)) \in Seq(Requests)
  BY <1>1, <1>2, <1>3
<1>7. b # <<>>
  BY <1>1, <1>5
<1>8. /\ writer' = [pc |-> "append", batch |-> b, left |-> b, files |-> {}]
      /\ queue' = SubSeq(queue, n + 1, Len(queue))
  BY <1>4 DEF TakeBatch
<1> QED BY <1>1, <1>5, <1>6, <1>7, <1>8 DEF WriterTypes, Appending

LEMMA WriterStepTypes ==
  ASSUME WalTypes, AppendOne \/ RollBegin \/ RollCreate \/ RollSync \/ RollHead
  PROVE  WriterTypes' /\ StoreTypes'
<1>0. /\ writer \in [pc : {"idle", "commit"} \cup Appending, batch : Seq(Requests),
                     left : Seq(Requests), files : SUBSET Nat]
      /\ mem.seg \in Nat
      /\ writer.pc \in Appending => writer.batch # <<>>
  BY DEF WalTypes, WriterTypes, StoreTypes
<1>1. CASE AppendOne
  <2>1. /\ writer' = [writer EXCEPT !.left = Tail(@), !.files = @ \cup {mem.seg}]
        /\ UNCHANGED <<assoc, mem, queue>>
    BY <1>1 DEF AppendOne
  <2>2. Tail(writer.left) \in Seq(Requests) /\ writer.files \cup {mem.seg} \in SUBSET Nat
    BY <1>0, <1>1 DEF AppendOne
  <2> QED BY <2>1, <2>2 DEF WalTypes, WriterTypes, StoreTypes
<1>2. CASE RollBegin \/ RollCreate \/ RollSync
  <2>1. /\ \E pc \in Appending : writer' = [writer EXCEPT !.pc = pc]
        /\ writer.pc \in Appending /\ UNCHANGED <<assoc, mem, queue>>
    BY <1>2 DEF RollBegin, RollCreate, RollSync, Appending
  <2> QED BY <1>0, <2>1 DEF WalTypes, WriterTypes, StoreTypes
<1>3. CASE RollHead
  <2>1. /\ writer' = [writer EXCEPT !.pc = "append"] /\ writer.pc \in Appending /\ queue' = queue
        /\ assoc' = [assoc EXCEPT !.head = mem.seg + 1] /\ mem' = [mem EXCEPT !.seg = @ + 1]
    BY <1>3 DEF RollHead, Appending
  <2>2. WriterTypes'
    <3>1. writer' \in [pc : {"idle", "commit"} \cup Appending, batch : Seq(Requests),
                       left : Seq(Requests), files : SUBSET Nat]
          /\ writer'.batch = writer.batch
      BY <1>0, <2>1 DEF Appending
    <3> QED BY <1>0, <2>1, <3>1 DEF WalTypes, WriterTypes
  <2>3. PICK n : n = mem.seg + 1
    OBVIOUS
  <2>4. n \in Nat /\ assoc' = [assoc EXCEPT !.head = n] /\ mem' = [mem EXCEPT !.seg = n]
    BY <1>0, <2>1, <2>3
  <2>5. StoreTypes'
    BY <2>4 DEF WalTypes, StoreTypes
  <2> QED BY <2>2, <2>5
<1> QED BY <1>1, <1>2, <1>3

LEMMA FinishBatchTypes ==
  ASSUME WalTypes, FinishBatch
  PROVE  WriterTypes' /\ FlushTypes'
<1>0. /\ writer.batch \in Seq(Requests) /\ writer.batch # <<>> /\ writer.files \in SUBSET Nat
      /\ mem.seg \in Nat /\ BatchMax \in Nat
  BY WalAssumption DEF WalTypes, WriterTypes, StoreTypes, FinishBatch, Appending
<1>1. writer.batch \in Groups
  BY <1>0 DEF Groups
<1>2. WriterTypes'
  <2>1. writer' \in {[IdleWriter EXCEPT !.pc = "commit"], IdleWriter} /\ queue' = queue
    BY DEF FinishBatch
  <2>2. PICK k \in {"idle", "commit"} :
          writer' = [pc |-> k, batch |-> <<>>, left |-> <<>>, files |-> {}]
    BY <2>1 DEF IdleWriter
  <2>5. <<>> \in Seq(Requests) /\ k \notin Appending
    BY DEF Appending
  <2>3. writer' \in [pc : {"idle", "commit"} \cup Appending, batch : Seq(Requests),
                      left : Seq(Requests), files : SUBSET Nat]
    BY <2>2, <2>5
  <2>4. Len(writer'.batch) <= BatchMax
    BY <1>0, <2>2
  <2> QED BY <2>1, <2>2, <2>3, <2>4, <2>5 DEF WalTypes, WriterTypes
<1>3. CASE mem.mode = "sync"
  <2>1. /\ flush' = [stage |-> "sync", groups |-> <<writer.batch>>, left |-> <<>>,
                     files |-> {mem.seg}]
        /\ fsyncQ' = fsyncQ
    BY <1>3 DEF FinishBatch
  <2>2. PICK g : g = <<writer.batch>>
    OBVIOUS
  <2>3. g \in Seq(Groups) /\ g # <<>>
    BY <1>1, <2>2
  <2>4. flush' = [stage |-> "sync", groups |-> g, left |-> <<>>, files |-> {mem.seg}]
    BY <2>1, <2>2
  <2> QED BY <1>0, <1>2, <2>1, <2>3, <2>4 DEF WalTypes, FlushTypes
<1>4. CASE mem.mode # "sync"
  <2>1. /\ fsyncQ' = Append(fsyncQ, [batch |-> writer.batch, files |-> writer.files])
        /\ flush' = flush
    BY <1>4 DEF FinishBatch
  <2>2. [batch |-> writer.batch, files |-> writer.files] \in [batch : Groups, files : SUBSET Nat]
    BY <1>0, <1>1
  <2>3. fsyncQ' \in Seq([batch : Groups, files : SUBSET Nat])
    BY <2>1, <2>2 DEF WalTypes, FlushTypes
  <2> QED BY <1>2, <2>1, <2>3 DEF WalTypes, FlushTypes
<1> QED BY <1>3, <1>4

LEMMA TakeGroupsTypes ==
  ASSUME WalTypes, NEW n \in Nat, TakeGroups(n)
  PROVE  FlushTypes'
<1>1. PICK q, E : q = fsyncQ /\ E = [batch : Groups, files : SUBSET Nat]
  OBVIOUS
<1>2. q \in Seq(E) /\ Len(q) \in Nat
  BY <1>1 DEF WalTypes, FlushTypes
<1>3. n >= 1 /\ n <= Len(q)
  BY <1>1, <1>2 DEF TakeGroups
<1>4. \A i \in 1..n : q[i].batch \in Groups /\ q[i].files \in SUBSET Nat
  <2>1. \A i \in 1..Len(q) : q[i] \in E
    BY <1>2
  <2>2. \A i \in 1..n : q[i] \in E
    BY <1>2, <1>3, <2>1
  <2> QED BY <1>1, <2>2
<1>5. PICK g, F : g = [i \in 1..n |-> q[i].batch] /\ F = UNION {q[i].files : i \in 1..n}
  OBVIOUS
<1>6. g \in Seq(Groups) /\ g # <<>>
  <2>1. g \in [1..n -> Groups]
    BY <1>4, <1>5
  <2>2. g \in Seq(Groups) /\ Len(g) = n
    BY <2>1
  <2> QED BY <1>3, <2>2
<1>7. F \in SUBSET Nat
  BY <1>4, <1>5
<1>8. SubSeq(q, n + 1, Len(q)) \in Seq(E)
  BY <1>2, <1>3
<1>9. /\ flush' = [stage |-> "sync", left |-> <<>>, groups |-> g, files |-> F]
      /\ fsyncQ' = SubSeq(q, n + 1, Len(q))
  BY <1>1, <1>5 DEF TakeGroups
<1> QED BY <1>1, <1>6, <1>7, <1>8, <1>9 DEF FlushTypes

LEMMA SyncFileTypes ==
  ASSUME WalTypes, NEW s, SyncFile(s)
  PROVE  FlushTypes'
<1>1. /\ flush' = [flush EXCEPT !.files = @ \ {s},
                                !.stage = IF flush.files = {s} THEN "apply" ELSE "sync"]
      /\ flush.stage = "sync" /\ fsyncQ' = fsyncQ
  BY DEF SyncFile
<1>2. PICK st \in {"apply", "sync"} : st = IF flush.files = {s} THEN "apply" ELSE "sync"
  OBVIOUS
<1>3. flush' = [flush EXCEPT !.files = @ \ {s}, !.stage = st]
  BY <1>1, <1>2
<1> QED BY <1>1, <1>3 DEF WalTypes, FlushTypes

LEMMA ApplyGroupTypes ==
  ASSUME WalTypes, ApplyGroup
  PROVE  FlushTypes' /\ StoreTypes'
<1>1. PICK h, t, gs : h = Head(flush.groups) /\ t = Tail(flush.groups) /\ gs = flush.groups
  OBVIOUS
<1>2. gs \in Seq(Groups) /\ gs # <<>>
  BY <1>1 DEF WalTypes, FlushTypes, ApplyGroup
<1>3. h \in Groups /\ t \in Seq(Groups)
  BY <1>1, <1>2
<1>4. h \in Seq(Requests) /\ h # <<>>
  BY <1>3 DEF Groups
<1>5. ToSet(h) \in SUBSET Requests
  BY <1>4 DEF ToSet
<1>6. FlushTypes'
  <2>1. flush' = [flush EXCEPT !.stage = "reply", !.left = h, !.groups = t] /\ fsyncQ' = fsyncQ
    BY <1>1 DEF ApplyGroup
  <2> QED BY <1>3, <1>4, <2>1 DEF WalTypes, FlushTypes
<1>7. StoreTypes'
  <2>1. mem' = [mem EXCEPT !.index = @ \cup ToSet(h)] /\ assoc' = assoc
    BY <1>1 DEF ApplyGroup
  <2> QED BY <1>5, <2>1 DEF WalTypes, StoreTypes
<1> QED BY <1>6, <1>7

LEMMA IdleTypes ==
  /\ IdleWriter \in [pc : {"idle"}, batch : Seq(Requests), left : Seq(Requests), files : SUBSET Nat]
  /\ IdleWriter.pc = "idle" /\ Len(IdleWriter.batch) = 0
  /\ IdleFlush \in [stage : {"idle"}, groups : Seq(Groups), left : Seq(Requests), files : SUBSET Nat]
  /\ IdleFlush.stage = "idle"
BY DEF IdleWriter, IdleFlush

LEMMA ReplyOneTypes ==
  ASSUME WalTypes, ReplyOne
  PROVE  FlushTypes' /\ WriterTypes' /\ CallerTypes'
<1>1. PICK l : l = flush.left
  OBVIOUS
<1>2. l \in Seq(Requests) /\ l # <<>> /\ Head(l) \in Requests /\ Tail(l) \in Seq(Requests)
  BY <1>1 DEF WalTypes, FlushTypes, ReplyOne
<1>3. CallerTypes'
  <2>1. /\ callers' = [callers EXCEPT !.reply[Head(l)] = "ok"]
        /\ owed' = owed \cup {Head(l)} /\ UNCHANGED <<clock, served>>
    BY <1>1 DEF ReplyOne
  <2> QED BY <1>2, <2>1 DEF WalTypes, CallerTypes
<1>4. WriterTypes'
  <2>1. queue' = queue /\ (writer' = writer \/ writer' = IdleWriter)
    BY DEF ReplyOne
  <2>2. BatchMax \in Nat
    BY WalAssumption
  <2> QED BY <2>1, <2>2, IdleTypes DEF WalTypes, WriterTypes, Appending
<1>5. FlushTypes'
  <2>1. fsyncQ' = fsyncQ
    BY DEF ReplyOne
  <2>2. CASE Len(l) > 1
    <3>1. flush' = [flush EXCEPT !.left = Tail(l)] /\ flush.stage = "reply"
      BY <1>1, <2>2 DEF ReplyOne
    <3>2. PICK t : t = Tail(l)
      OBVIOUS
    <3>4. t \in Seq(Requests) /\ Len(t) = Len(l) - 1 /\ Len(l) \in Nat
      BY <1>2, <3>2
    <3>5. t # <<>>
      BY <2>2, <3>4
    <3>3. Tail(l) # <<>>
      BY <3>2, <3>5
    <3> QED BY <1>2, <2>1, <3>1, <3>3 DEF WalTypes, FlushTypes
  <2>3. CASE ~(Len(l) > 1) /\ flush.groups # <<>>
    <3>0. <<>> \in Seq(Requests)
      OBVIOUS
    <3>1. PICK e \in Seq(Requests) : e = <<>>
      BY <3>0
    <3>2. flush' = [flush EXCEPT !.stage = "apply", !.left = e]
      BY <1>1, <2>3, <3>1 DEF ReplyOne
    <3> QED BY <2>1, <2>3, <3>1, <3>2 DEF WalTypes, FlushTypes
  <2>4. CASE flush' = IdleFlush
    BY <2>1, <2>4, IdleTypes DEF WalTypes, FlushTypes
  <2> QED BY <1>1, <2>2, <2>3, <2>4 DEF ReplyOne
<1> QED BY <1>3, <1>4, <1>5

\* Refusing some pending callers.
LEMMA RefusedCallers ==
  ASSUME CallerTypes, NEW S
  PROVE  /\ Refused(S) \in [reply : [Requests -> {"idle", "pending", "ok", "err"}],
                            accepted : [Requests -> Nat]]
         /\ Refused(S).accepted = callers.accepted
         /\ \A r \in Requests : Refused(S).reply[r] =
              IF r \in S /\ callers.reply[r] = "pending" THEN "err" ELSE callers.reply[r]
<1>1. PICK f : f = [r \in Requests |-> IF r \in S /\ callers.reply[r] = "pending"
                                       THEN "err" ELSE callers.reply[r]]
  OBVIOUS
<1>2. Refused(S) = [callers EXCEPT !.reply = f]
  BY <1>1 DEF Refused
<1>3. f \in [Requests -> {"idle", "pending", "ok", "err"}]
  BY <1>1 DEF CallerTypes
<1> QED BY <1>1, <1>2, <1>3 DEF CallerTypes

LEMMA ErrorTypes ==
  ASSUME WalTypes, WriterError \/ SyncError \/ FenceElsewhere
  PROVE  StoreTypes' /\ CallerTypes'
<1>1. /\ mem' = [mem EXCEPT !.fenced = TRUE] /\ assoc' = assoc
      /\ clock' = [clock EXCEPT !.faults = @ + 1] /\ UNCHANGED <<owed, served>>
  BY DEF WriterError, SyncError, FenceElsewhere
<1>2. callers' = callers \/ \E S : callers' = Refused(S)
  BY Zenon DEF WriterError, SyncError, FenceElsewhere
<1>3. callers' \in [reply : [Requests -> {"idle", "pending", "ok", "err"}],
                    accepted : [Requests -> Nat]]
  BY <1>2, RefusedCallers DEF WalTypes, CallerTypes
<1>4. StoreTypes'
  BY <1>1 DEF WalTypes, StoreTypes
<1>5. clock' \in [now : Nat, crashes : Nat, damage : Nat, faults : Nat, gone : SUBSET Requests]
  BY <1>1 DEF WalTypes, CallerTypes
<1> QED BY <1>1, <1>3, <1>4, <1>5 DEF WalTypes, CallerTypes

LEMMA SweepOverTypes ==
  ASSUME NEW ids \in SUBSET Nat
  PROVE  /\ SweepOver(ids) \in [pc : {"idle", "files", "unlink"}, ids : SUBSET Nat]
         /\ SweepOver(ids).pc # "unlink"
         /\ SweepOver(ids).pc # "idle" => SweepOver(ids).ids # {}
BY DEF SweepOver

LEMMA SweepStepTypes ==
  ASSUME WalTypes, mem.phase = "up" => assoc.head \in Segments, SweepBegin \/ SweepStep
  PROVE  SweepTypes' /\ StoreTypes'
<1>1. CASE SweepBegin
  <2>1. sweep' = SweepOver(Segments \ {Newest}) /\ mem' = [mem EXCEPT !.index = @ \ DueSet]
        /\ assoc' = assoc
    BY <1>1 DEF SweepBegin
  <2>2. Segments \ {Newest} \in SUBSET Nat
    BY DEF WalTypes, FileTypes
  <2>3. SweepTypes'
    BY <2>1, <2>2, SweepOverTypes DEF SweepTypes
  <2> QED BY <2>1, <2>3 DEF WalTypes, StoreTypes
<1>2. CASE SweepSegment
  <2>1. PICK s : s = Min(sweep.ids)
    OBVIOUS
  <2>2. /\ sweep.ids \ {s} \in SUBSET Nat /\ sweep.pc = "files" /\ sweep.ids # {}
        /\ sweep \in [pc : {"idle", "files", "unlink"}, ids : SUBSET Nat]
    BY <1>2 DEF WalTypes, SweepTypes, SweepSegment
  <2>3. sweep' = [sweep EXCEPT !.pc = "unlink"] \/ sweep' = SweepOver(sweep.ids \ {s})
    BY <1>2, <2>1 DEF SweepSegment
  <2>4. SweepTypes'
    BY <2>2, <2>3, SweepOverTypes DEF SweepTypes
  <2>5. mem' = mem /\ (assoc' # assoc => /\ s = assoc.anchor /\ s < assoc.head
                        /\ assoc' = [assoc EXCEPT !.anchor = Min({t \in Segments : t > s})])
    <3>1. s \in Nat
      BY <2>1, <2>2, Least
    <3>2. assoc.anchor \in Nat
      BY DEF WalTypes, StoreTypes
    <3> QED BY <1>2, <2>1, <3>1, <3>2 DEF SweepSegment, Retirable
  <2>6. StoreTypes'
    <3>1. PICK above : above = {t \in Segments : t > s}
      OBVIOUS
    <3>2. above \in SUBSET Nat
      BY <3>1 DEF WalTypes, FileTypes
    <3>3. assoc' # assoc => above # {} /\ Min(above) \in Nat
      <4> SUFFICES ASSUME assoc' # assoc PROVE above # {} /\ Min(above) \in Nat
        OBVIOUS
      <4>1. assoc.head \in Segments /\ assoc.head \in Nat /\ s < assoc.head /\ s \in Nat
        BY <1>2, <2>5 DEF SweepSegment, Up, WalTypes, StoreTypes
      <4>2. above # {}
        BY <3>1, <4>1
      <4> QED BY <3>2, <4>2, Least
    <3>4. assoc' = assoc \/ assoc' = [assoc EXCEPT !.anchor = Min(above)]
      BY <2>5, <3>1
    <3> QED BY <2>5, <3>3, <3>4 DEF WalTypes, StoreTypes
  <2> QED BY <2>4, <2>6
<1>3. CASE SweepUnlink
  <2>1. PICK s : s = Min(sweep.ids)
    OBVIOUS
  <2>2. sweep' = SweepOver(sweep.ids \ {s}) /\ UNCHANGED <<mem, assoc>>
    BY <1>3, <2>1 DEF SweepUnlink
  <2>3. sweep.ids \ {s} \in SUBSET Nat
    BY DEF WalTypes, SweepTypes
  <2> QED BY <2>2, <2>3, SweepOverTypes DEF WalTypes, StoreTypes, SweepTypes
<1> QED BY <1>1, <1>2, <1>3 DEF SweepStep

LEMMA CrashTypes ==
  ASSUME WalTypes, Crash
  PROVE  /\ WalTypes'
         /\ writer' = IdleWriter /\ sweep' = IdleSweep /\ assoc' = assoc
         /\ mem'.phase = "down" /\ clock'.damage = clock.damage
<1>0. writer' = IdleWriter /\ sweep' = IdleSweep /\ assoc' = assoc
  BY DEF Crash
<1>1. FileTypes'
  BY CrashedDisk DEF WalTypes
<1>2. StoreTypes' /\ mem'.phase = "down"
  <2>1. mem' = [mem EXCEPT !.phase = "down", !.fenced = FALSE, !.index = {}, !.todo = {}]
    BY DEF Crash
  <2> QED BY <1>0, <2>1 DEF WalTypes, StoreTypes
<1>3. WriterTypes'
  <2>1. queue' = <<>> /\ BatchMax \in Nat
    BY WalAssumption DEF Crash
  <2>2. queue' \in Seq(Requests)
    BY <2>1
  <2> QED BY <1>0, <2>1, <2>2, IdleTypes DEF WriterTypes, Appending
<1>4. FlushTypes'
  <2>1. fsyncQ' = <<>> /\ flush' = IdleFlush
    BY DEF Crash
  <2>2. fsyncQ' \in Seq([batch : Groups, files : SUBSET Nat])
    BY <2>1
  <2> QED BY <2>1, <2>2, IdleTypes DEF FlushTypes
<1>5. SweepTypes'
  BY <1>0 DEF SweepTypes, IdleSweep
<1>6. CallerTypes' /\ clock'.damage = clock.damage
  <2>1. callers' = Refused(Requests) /\ UNCHANGED <<owed, served>>
    BY DEF Crash
  <2>2. clock' = clock \/ clock' = [clock EXCEPT !.crashes = @ + 1]
    BY DEF Crash, WalTypes, CallerTypes
  <2>3. callers' \in [reply : [Requests -> {"idle", "pending", "ok", "err"}],
                      accepted : [Requests -> Nat]]
    BY <2>1, RefusedCallers DEF WalTypes
  <2>4. /\ clock' \in [now : Nat, crashes : Nat, damage : Nat, faults : Nat, gone : SUBSET Requests]
        /\ clock'.damage = clock.damage
    BY <2>2 DEF WalTypes, CallerTypes
  <2> QED BY <2>1, <2>3, <2>4 DEF WalTypes, CallerTypes
<1> QED BY <1>0, <1>1, <1>2, <1>3, <1>4, <1>5, <1>6 DEF WalTypes

\* Start-up: the files, the association row and the process.
LEMMA ReadTypes ==
  ASSUME FileTypes, NEW s \in Segments
  PROVE  ToSet(Readable(disk[s].frames)) \in SUBSET Requests
<1>1. PICK fr : fr = Readable(disk[s].frames)
  OBVIOUS
<1>2. fr \in Seq(Requests)
  BY <1>1, FileFacts, ReadableFrames
<1> QED BY <1>1, <1>2 DEF ToSet

LEMMA IndexTypes ==
  ASSUME FileTypes, NEW from \in Nat
  PROVE  RecoveredIndex(from) \in SUBSET Requests
BY ReadTypes DEF RecoveredIndex, AtOrAbove

\* What a segment that disappears does to the clock.
LEMMA LostClock ==
  ASSUME WalTypes, NEW s, LoseSegment(s)
  PROVE  /\ clock' \in [now : Nat, crashes : Nat, damage : Nat, faults : Nat, gone : SUBSET Requests]
         /\ clock'.damage = clock.damage + 1 /\ clock'.now = clock.now
         /\ clock.gone \subseteq clock'.gone
         /\ Unseen(s) => ToSet(Readable(disk[s].frames)) \subseteq clock'.gone
<1>1. PICK g : g = IF Unseen(s) THEN clock.gone \cup ToSet(Readable(disk[s].frames)) ELSE clock.gone
  OBVIOUS
<1>2. /\ clock' = [clock EXCEPT !.damage = @ + 1, !.gone = g] /\ s \in Segments
  BY <1>1 DEF LoseSegment, Active, AtOrAbove
<1>3. clock \in [now : Nat, crashes : Nat, damage : Nat, faults : Nat, gone : SUBSET Requests]
  BY DEF WalTypes, CallerTypes
<1>4. g \in SUBSET Requests
  BY <1>1, <1>2, <1>3, ReadTypes DEF WalTypes
<1>5. /\ clock' \in [now : Nat, crashes : Nat, damage : Nat, faults : Nat, gone : SUBSET Requests]
      /\ clock'.damage = clock.damage + 1 /\ clock'.now = clock.now /\ clock'.gone = g
  <2>1. PICK n : n = clock.damage + 1
    OBVIOUS
  <2>2. n \in Nat /\ clock' = [clock EXCEPT !.damage = n, !.gone = g]
    BY <1>2, <1>3, <2>1
  <2>3. /\ clock' \in [now : Nat, crashes : Nat, damage : Nat, faults : Nat, gone : SUBSET Requests]
        /\ clock'.damage = n /\ clock'.now = clock.now /\ clock'.gone = g
    BY <1>3, <1>4, <2>2
  <2> QED BY <2>1, <2>3
<1>6. /\ clock.gone \subseteq g
      /\ Unseen(s) => ToSet(Readable(disk[s].frames)) \subseteq g
  BY <1>1
<1> QED BY <1>5, <1>6

LEMMA ActiveSegments ==
  ASSUME FileTypes
  PROVE  /\ Active \in SUBSET Segments /\ Active \in SUBSET Nat /\ Bounded(Active)
         /\ Active # {} => /\ Max(Active) \in Active /\ Min(Active) \in Active
                           /\ Max(Active) \in Nat /\ Min(Active) \in Nat
                           /\ \A t \in Active : Min(Active) <= t /\ t <= Max(Active)
         /\ Segments # {} => /\ Newest = Max(Segments) /\ Newest \in Segments
                             /\ Min(Segments) \in Segments
                             /\ \A t \in Segments : Min(Segments) <= t /\ t <= Newest
         /\ Newest \in Nat /\ (Newest = NoSegment <=> Segments = {})
<1>1. Segments \in SUBSET Nat /\ Bounded(Segments) /\ \A t \in Segments : t > 0
  BY DEF FileTypes
<1>2. Active \in SUBSET Segments /\ Active \in SUBSET Nat
  BY <1>1 DEF Active, AtOrAbove
<1>3. Bounded(Active)
  BY <1>1, <1>2, BoundedSets
<1>4. Segments = {} => Newest = 0
  BY DEF Newest, NoSegment
<1>5. Segments # {} => Newest = Max(Segments)
  BY DEF Newest
<1>6. Segments # {} => /\ Newest \in Segments /\ Min(Segments) \in Segments
                       /\ \A t \in Segments : Min(Segments) <= t /\ t <= Newest
  BY <1>1, <1>5, Least, Greatest
<1>7. Active # {} => /\ Max(Active) \in Active /\ Min(Active) \in Active
                     /\ Max(Active) \in Nat /\ Min(Active) \in Nat
                     /\ \A t \in Active : Min(Active) <= t /\ t <= Max(Active)
  BY <1>2, <1>3, Least, Greatest
<1>8. Newest \in Nat /\ (Newest = NoSegment <=> Segments = {})
  <2>1. CASE Segments = {}
    BY <1>4, <2>1 DEF NoSegment
  <2>2. CASE Segments # {}
    <3>1. Newest \in Segments
      BY <1>6, <2>2
    <3> QED BY <1>1, <2>2, <3>1 DEF NoSegment
  <2> QED BY <2>1, <2>2
<1> QED BY <1>2, <1>3, <1>5, <1>6, <1>7, <1>8

LEMMA StartTypes ==
  ASSUME WalTypes, StartStep
  PROVE  WalTypes'
<1> DEFINE Rest == UNCHANGED <<writer, queue, fsyncQ, flush, sweep, callers, clock>>
<1>0. FileTypes' /\ StoreTypes' /\ owed' \in SUBSET Requests /\ served' \in Nat /\ Rest => WalTypes'
  BY DEF WalTypes, WriterTypes, FlushTypes, SweepTypes, CallerTypes
<1>t. /\ FileTypes /\ StoreTypes /\ CallerTypes /\ assoc.anchor \in Nat /\ assoc.inc \in Nat
      /\ assoc.inc + 1 \in Nat /\ owed \in SUBSET Requests /\ served \in Nat /\ clock.now \in Nat
  BY DEF WalTypes, StoreTypes, CallerTypes
<1>1. CASE Recover
  <2>1. PICK a, ix : /\ a = IF assoc.head = NoSegment /\ Segments # {} THEN Min(Segments) ELSE assoc.anchor
                     /\ ix = RecoveredIndex(assoc.anchor)
    OBVIOUS
  <2>2. a \in Nat /\ ix \in SUBSET Requests /\ Newest \in Nat
    BY <1>t, <2>1, ActiveSegments, IndexTypes DEF FileTypes
  <2>3. /\ disk' = RecoveredDisk(assoc.anchor) /\ Rest /\ UNCHANGED <<owed, served>>
        /\ assoc' = [assoc EXCEPT !.head = Newest, !.anchor = a]
        /\ mem' = [mem EXCEPT !.phase = "recovered", !.index = ix]
    BY <1>1, <2>1 DEF Recover
  <2>4. FileTypes'
    BY <1>t, <2>3, RecoveredFiles
  <2>5. StoreTypes'
    BY <2>2, <2>3 DEF WalTypes, StoreTypes
  <2> QED BY <1>0, <1>t, <2>3, <2>4, <2>5
<1>2. CASE RotateMark
  <2>1. PICK n : n = IF assoc.pending THEN assoc.inc ELSE assoc.inc + 1
    OBVIOUS
  <2>2. n \in Nat /\ Active \in SUBSET Nat
    BY <1>t, <2>1, ActiveSegments
  <2>3. /\ disk' = RecoveredDisk(assoc.anchor) /\ Rest /\ UNCHANGED <<owed, served>>
        /\ assoc' = [assoc EXCEPT !.pending = TRUE, !.inc = n]
        /\ mem' = [mem EXCEPT !.phase = "rewriting", !.todo = Active]
    BY <1>2, <2>1 DEF RotateMark
  <2>4. FileTypes'
    BY <1>t, <2>3, RecoveredFiles
  <2>5. StoreTypes'
    BY <2>2, <2>3 DEF WalTypes, StoreTypes
  <2> QED BY <1>0, <1>t, <2>3, <2>4, <2>5
<1>3. CASE RewriteOne
  <2>1. /\ \E s : mem' = [mem EXCEPT !.todo = @ \ {s}] 
        /\ Rest /\ UNCHANGED <<assoc, owed, served>>
    BY <1>3 DEF RewriteOne
  <2>2. FileTypes'
    BY <1>t, <1>3, RewrittenFile
  <2>3. StoreTypes'
    BY <2>1 DEF WalTypes, StoreTypes
  <2> QED BY <1>0, <1>t, <2>1, <2>2, <2>3
<1>4. CASE RotateCommit
  <2>1. PICK a, h, ix : /\ a = IF Active = {} THEN NoSegment ELSE Min(Active)
                        /\ h = IF Active = {} THEN NoSegment ELSE Max(Active)
                        /\ ix = RecoveredIndex(a)
    OBVIOUS
  <2>2. a \in Nat /\ h \in Nat
    BY <1>t, <2>1, ActiveSegments DEF NoSegment
  <2>3. ix \in SUBSET Requests
    BY <1>t, <2>1, <2>2, IndexTypes
  <2>4. /\ disk' = RecoveredDisk(a) /\ Rest /\ UNCHANGED <<owed, served>>
        /\ assoc' = [assoc EXCEPT !.pending = FALSE, !.anchor = a, !.head = h]
        /\ mem' = [mem EXCEPT !.phase = "recovered", !.index = ix]
    BY <1>4, <2>1 DEF RotateCommit
  <2>5. FileTypes'
    BY <1>t, <2>2, <2>4, RecoveredFiles
  <2>6. StoreTypes'
    BY <2>2, <2>3, <2>4 DEF WalTypes, StoreTypes
  <2> QED BY <1>0, <1>t, <2>4, <2>5, <2>6
<1>5. CASE OpenCreate
  <2>1. PICK f : f = NewFile(1, NoSegment)
    OBVIOUS
  <2>2. FileOK(f)
    BY <1>t, <2>1 DEF NewFile, NoSegment, FileOK, Files
  <2>3. disk' = WithSegment(1, f) /\ Rest /\ UNCHANGED <<assoc, mem, owed, served>>
    BY <1>5, <2>1 DEF OpenCreate
  <2>4. FileTypes'
    BY <1>t, <2>2, <2>3, GrownDisk
  <2> QED BY <1>0, <1>t, <2>3, <2>4 DEF StoreTypes
<1>6. ASSUME NEW mode \in Modes, Open(mode) PROVE WalTypes'
  <2>1. PICK s, a : s = Max(Active) /\ a = IF assoc.head = NoSegment THEN s ELSE assoc.anchor
    OBVIOUS
  <2>2. s \in Nat /\ a \in Nat
    BY <1>t, <1>6, <2>1, ActiveSegments DEF Open
  <2>3. /\ disk' = [disk EXCEPT ![s].durable = Len(disk[s].frames)]
        /\ assoc' = [assoc EXCEPT !.head = s, !.anchor = a]
        /\ mem' = [mem EXCEPT !.phase = "up", !.seg = s, !.mode = mode]
        /\ Rest
    BY <1>6, <2>1 DEF Open
  <2>4. FileTypes'
    BY <1>t, <2>3, SyncedDisk
  <2>5. StoreTypes'
    BY <2>2, <2>3 DEF WalTypes, StoreTypes
  <2>6. owed' \in SUBSET Requests /\ served' \in Nat
    BY <1>t, <1>6 DEF Open
  <2> QED BY <1>0, <2>3, <2>4, <2>5, <2>6
<1> QED BY <1>1, <1>2, <1>3, <1>4, <1>5, <1>6 DEF StartStep

LEMMA NewFileOK ==
  ASSUME WalTypes, NEW s, NEW p \in Nat
  PROVE  /\ FileOK(NewFile(s, p))
         /\ NewFile(s, p).frames = <<>> /\ NewFile(s, p).header = "whole"
         /\ NewFile(s, p).id = assoc.inc /\ NewFile(s, p).parent = p
         /\ NewFile(s, p).durable = -1
<1>1. assoc.inc \in Nat /\ clock.now \in Nat
  BY DEF WalTypes, StoreTypes, CallerTypes
<1> QED BY <1>1 DEF NewFile, FileOK, Files

LEMMA NextTypes ==
  ASSUME WalTypes, mem.phase = "up" => assoc.head \in Segments, [Next]_vars
  PROVE  WalTypes'
<1>u. /\ UNCHANGED disk => FileTypes'
      /\ UNCHANGED <<assoc, mem>> => StoreTypes'
      /\ UNCHANGED <<writer, queue>> => WriterTypes'
      /\ UNCHANGED <<fsyncQ, flush>> => FlushTypes'
      /\ UNCHANGED sweep => SweepTypes'
      /\ UNCHANGED <<callers, clock, owed, served>> => CallerTypes'
  <2>1. UNCHANGED disk => FileTypes'
    BY DEF WalTypes, FileTypes, Segments
  <2>2. UNCHANGED <<assoc, mem>> => StoreTypes'
    BY DEF WalTypes, StoreTypes
  <2>3. UNCHANGED <<writer, queue>> => WriterTypes'
    BY DEF WalTypes, WriterTypes
  <2>4. UNCHANGED <<fsyncQ, flush>> => FlushTypes'
    BY DEF WalTypes, FlushTypes
  <2>5. UNCHANGED sweep => SweepTypes'
    BY DEF WalTypes, SweepTypes
  <2>6. UNCHANGED <<callers, clock, owed, served>> => CallerTypes'
    BY DEF WalTypes, CallerTypes
  <2> QED BY <2>1, <2>2, <2>3, <2>4, <2>5, <2>6
<1>1. ASSUME NEW r \in Requests, Submit(r) \/ Lookup(r) PROVE WalTypes'
  <2>1. UNCHANGED <<disk, assoc, mem, fsyncQ, flush, sweep>>
    BY <1>1 DEF Submit, Lookup
  <2> QED BY <1>1, <1>u, <2>1, SubmitTypes DEF WalTypes
<1>2. ASSUME NEW n \in 1..BatchMax, TakeBatch(n) PROVE WalTypes'
  <2>1. UNCHANGED <<disk, assoc, mem, fsyncQ, flush, sweep, callers, clock, owed, served>>
    BY <1>2 DEF TakeBatch
  <2> QED BY <1>2, <1>u, <2>1, TakeBatchTypes DEF WalTypes
<1>3. CASE AppendOne \/ RollBegin \/ RollCreate \/ RollSync \/ RollHead
  <2>1. UNCHANGED <<fsyncQ, flush, sweep, callers, clock, owed, served>>
    BY <1>3 DEF AppendOne, RollBegin, RollCreate, RollSync, RollHead
  <2>2. FileTypes'
    <3>1. CASE AppendOne \/ RollBegin
      BY <3>1, WrittenDisk
    <3>2. CASE RollCreate
      <4>1. mem.seg + 1 \in Nat \ {0} /\ assoc.head \in Nat
        BY DEF WalTypes, StoreTypes
      <4>2. PICK f : f = NewFile(mem.seg + 1, assoc.head)
        OBVIOUS
      <4>3. FileOK(f) /\ disk' = WithSegment(mem.seg + 1, f)
        BY <3>2, <4>1, <4>2, NewFileOK DEF RollCreate
      <4> QED BY <4>1, <4>3, GrownDisk DEF WalTypes
    <3>3. CASE RollSync
      <4>1. PICK s : s = mem.seg + 1
        OBVIOUS
      <4>2. disk' = [disk EXCEPT ![s].durable = 0]
        BY <3>3, <4>1 DEF RollSync
      <4> QED BY <4>2, SyncedHeader DEF WalTypes
    <3>4. CASE RollHead
      BY <1>u, <3>4 DEF RollHead
    <3> QED BY <1>3, <3>1, <3>2, <3>3, <3>4
  <2> QED BY <1>3, <1>u, <2>1, <2>2, WriterStepTypes DEF WalTypes
<1>4. CASE FinishBatch
  <2>1. UNCHANGED <<disk, assoc, mem, sweep, callers, clock, owed, served>>
    BY <1>4 DEF FinishBatch
  <2> QED BY <1>4, <1>u, <2>1, FinishBatchTypes DEF WalTypes
<1>5. CASE FlushStep
  <2>1. ASSUME NEW n \in 1..Cardinality(Requests), TakeGroups(n) PROVE WalTypes'
    <3>1. UNCHANGED <<disk, assoc, mem, writer, queue, sweep, callers, clock, owed, served>>
      BY <2>1 DEF TakeGroups
    <3>2. n \in Nat
      <4>1. Len(fsyncQ) \in Nat
        BY DEF WalTypes, FlushTypes
      <4> QED BY <2>1, <4>1 DEF TakeGroups
    <3> QED BY <1>u, <2>1, <3>1, <3>2, TakeGroupsTypes DEF WalTypes
  <2>2. ASSUME NEW s \in 1..MaxSegments, SyncFile(s) PROVE WalTypes'
    <3>1. UNCHANGED <<assoc, mem, writer, queue, fsyncQ, sweep, callers, clock, owed, served>>
      BY <2>2 DEF SyncFile
    <3> QED BY <1>u, <2>2, <3>1, SyncFileTypes, WrittenDisk DEF WalTypes
  <2>3. CASE ApplyGroup
    <3>1. UNCHANGED <<disk, assoc, writer, queue, fsyncQ, sweep, callers, clock, owed, served>>
      BY <2>3 DEF ApplyGroup
    <3> QED BY <1>u, <2>3, <3>1, ApplyGroupTypes DEF WalTypes
  <2>4. CASE ReplyOne
    <3>1. UNCHANGED <<disk, assoc, mem, queue, fsyncQ, sweep, clock, served>>
      BY <2>4 DEF ReplyOne
    <3> QED BY <1>u, <2>4, <3>1, ReplyOneTypes DEF WalTypes
  <2> QED BY <1>5, <2>1, <2>2, <2>3, <2>4 DEF FlushStep
<1>6. CASE SweepBegin \/ SweepStep
  <2>1. UNCHANGED <<writer, queue, fsyncQ, flush, callers, clock, owed, served>>
    BY <1>6 DEF SweepBegin, SweepStep, SweepSegment, SweepUnlink
  <2>2. FileTypes'
    <3>1. CASE UNCHANGED disk
      BY <1>u, <3>1
    <3>2. CASE SweepUnlink
      BY <3>2, ShrunkDisk DEF SweepUnlink, WalTypes
    <3> QED BY <1>6, <3>1, <3>2 DEF SweepBegin, SweepStep, SweepSegment
  <2> QED BY <1>6, <1>u, <2>1, <2>2, SweepStepTypes DEF WalTypes
<1>7. CASE WriterError \/ SyncError \/ FenceElsewhere
  <2>1. UNCHANGED <<writer, queue, fsyncQ, flush, sweep>>
    BY <1>7 DEF WriterError, SyncError, FenceElsewhere
  <2>2. FileTypes'
    <3>1. CASE WriterError
      BY <3>1, WrittenDisk
    <3> QED BY <1>7, <1>u, <3>1 DEF SyncError, FenceElsewhere
  <2> QED BY <1>7, <1>u, <2>1, <2>2, ErrorTypes DEF WalTypes
<1>8. CASE Tick
  <2>1. /\ clock' = [clock EXCEPT !.now = @ + 1]
        /\ UNCHANGED <<disk, assoc, mem, writer, queue, fsyncQ, flush, sweep, callers, owed, served>>
    BY <1>8 DEF Tick
  <2>2. CallerTypes'
    BY <2>1 DEF WalTypes, CallerTypes
  <2> QED BY <1>u, <2>1, <2>2 DEF WalTypes
<1>9. ASSUME NEW s \in 1..MaxSegments, LoseSegment(s) PROVE WalTypes'
  <2>1. /\ disk' = WithoutSegment(s)
        /\ UNCHANGED <<assoc, mem, writer, queue, fsyncQ, flush, sweep, callers, owed, served>>
    BY <1>9 DEF LoseSegment
  <2>2. CallerTypes'
    BY <1>9, <2>1, LostClock DEF WalTypes, CallerTypes
  <2>3. FileTypes'
    BY <2>1, ShrunkDisk DEF WalTypes
  <2> QED BY <1>u, <2>1, <2>2, <2>3 DEF WalTypes
<1>10. CASE UNCHANGED vars
  BY <1>10, <1>u DEF vars, WalTypes
<1>11. CASE StartCutShort
  <2>1. /\ disk' = RecoveredDisk(assoc.anchor)
        /\ UNCHANGED <<assoc, mem, writer, queue, fsyncQ, flush, sweep, callers, clock, owed, served>>
    BY <1>11 DEF StartCutShort
  <2>2. FileTypes'
    BY <2>1, RecoveredFiles DEF WalTypes, StoreTypes
  <2> QED BY <1>u, <2>1, <2>2 DEF WalTypes
<1> QED BY <1>1, <1>2, <1>3, <1>4, <1>5, <1>6, <1>7, <1>8, <1>9, <1>10, <1>11, StartTypes, CrashTypes
        DEF Next, WriterStep

-----------------------------------------------------------------------------
(* The chain of segments.                                                  *)

\* p is the member of C next below t.
Below(C, p, t) == p \in C /\ p < t /\ \A c \in C : ~(p < c /\ c < t)

\* C is the chain redb records: it runs from the anchor to the head, it holds
\* every file in that range, and every file on it names its predecessor.
Chain(C) ==
  /\ assoc.anchor \in C /\ assoc.head \in C
  /\ \A c \in C : assoc.anchor <= c /\ c <= assoc.head
  /\ \A s \in Segments : assoc.anchor <= s /\ s <= assoc.head => s \in C
  /\ \A t \in C \cap Segments : t # assoc.anchor => Below(C, disk[t].parent, t)

\* Files up to the head are on disk with their header.
FilesKept ==
  /\ \A s \in Segments : s <= assoc.head => disk[s].durable >= 0 /\ disk[s].header = "whole"
  /\ assoc.head = NoSegment => assoc.anchor = NoSegment
  /\ assoc.anchor <= assoc.head

\* The process runs on the whole chain; at most one file lies above the head, the
\* one the writer is rolling to.
Running ==
  mem.phase = "up" =>
    /\ assoc.head # NoSegment /\ mem.seg = assoc.head /\ ~assoc.pending
    /\ Chain(Active \ {assoc.head + 1})
    /\ writer.pc \in {"header", "head"} <=> assoc.head + 1 \in Segments
    /\ \A s \in Segments : s > assoc.head =>
         /\ s = assoc.head + 1 /\ disk[s].parent = assoc.head
         /\ disk[s].header = "whole"
         /\ writer.pc = "head" => disk[s].durable >= 0
    /\ sweep.pc = "unlink" => Min(sweep.ids) < assoc.anchor

\* A start that recovered has the chain in the files.
Recovered ==
  mem.phase = "recovered" =>
    /\ ~assoc.pending
    /\ assoc.head # NoSegment => Chain(Active)
    /\ \A s \in Segments : /\ disk[s].header = "whole"
                           /\ disk[s].durable >= 0 \/ Segments = {s}
                           /\ assoc.head # NoSegment => s <= assoc.head

Rewriting ==
  /\ assoc.pending => mem.phase \in {"down", "rewriting"}
  /\ mem.phase = "rewriting" =>
       /\ assoc.pending
       /\ \A s \in Active : /\ disk[s].durable >= 0 /\ disk[s].header = "whole"
                            /\ s \notin mem.todo => disk[s].parent = Previous(s)

\* What a stopped process leaves: the chain, of which segments may have been
\* taken away, and perhaps the file it was rolling to.
Stopped ==
  mem.phase = "down" /\ ~assoc.pending /\ assoc.head # NoSegment =>
    /\ clock.damage = 0 => {assoc.anchor, assoc.head} \subseteq Segments
    /\ {assoc.anchor, assoc.head} \subseteq Segments =>
         \E C \in SUBSET Nat : Chain(C) /\ (clock.damage = 0 => C \subseteq Segments)
    /\ \A s \in Segments : s > assoc.head =>
         /\ s = assoc.head + 1
         /\ disk[s].header = "short" \/ disk[s].parent = assoc.head \/ assoc.head \notin Segments

Idle == mem.phase # "up" => writer = IdleWriter /\ sweep = IdleSweep

\* Nothing was taken away, and nothing names another directory.
Undamaged ==
  clock.damage = 0 =>
    /\ assoc.inc = 0 /\ ~assoc.pending
    /\ \A s \in Segments : disk[s].id = 0
    /\ assoc.head = NoSegment => Segments \subseteq {1}

ChainInv == FilesKept /\ Running /\ Recovered /\ Rewriting /\ Stopped /\ Idle /\ Undamaged

LEMMA ChainTypes ==
  ASSUME WalTypes
  PROVE  /\ assoc.anchor \in Nat /\ assoc.head \in Nat /\ assoc.inc \in Nat
         /\ assoc.pending \in BOOLEAN /\ mem.seg \in Nat /\ clock.damage \in Nat
         /\ Segments \in SUBSET Nat /\ \A s \in Segments : s > 0
         /\ Active = {s \in Segments : s >= assoc.anchor}
         /\ \A s \in Segments : /\ disk[s].parent \in Nat /\ disk[s].durable \in Int
                                /\ disk[s].id \in Nat
<1>1. /\ assoc.anchor \in Nat /\ assoc.head \in Nat /\ assoc.inc \in Nat
      /\ assoc.pending \in BOOLEAN /\ mem.seg \in Nat /\ clock.damage \in Nat
      /\ Segments \in SUBSET Nat /\ \A s \in Segments : s > 0
  BY DEF WalTypes, StoreTypes, CallerTypes, FileTypes
<1>2. Active = {s \in Segments : s >= assoc.anchor}
  BY DEF Active, AtOrAbove
<1> QED BY <1>1, <1>2, FileFacts DEF WalTypes

LEMMA SameActive ==
  ASSUME Segments' = Segments, assoc'.anchor = assoc.anchor
  PROVE  Active' = Active /\ \A s : Previous(s)' = Previous(s)
<1>1. Active' = Active
  BY DEF Active, AtOrAbove
<1> QED BY <1>1 DEF Previous

LEMMA SameChain ==
  ASSUME NEW C, SameHeaders, assoc' = assoc, Chain(C)
  PROVE  Chain(C)'
BY DEF SameHeaders, Chain, Below

\* A step that neither makes nor removes a file nor touches a header.
Quiet ==
  /\ SameHeaders /\ assoc' = assoc /\ mem'.phase = mem.phase /\ mem'.seg = mem.seg
  /\ mem'.todo = mem.todo /\ clock'.damage = clock.damage
  /\ writer'.pc \in {"header", "head"} <=> writer.pc \in {"header", "head"}
  /\ \/ writer'.pc = "head" => writer.pc = "head"
     \/ \A s \in Segments : s > assoc.head => disk'[s].durable >= 0
  /\ sweep'.pc = "unlink" => Min(sweep'.ids) < assoc.anchor
  /\ mem.phase # "up" => writer' = writer /\ sweep' = sweep

LEMMA QuietStep ==
  ASSUME WalTypes, ChainInv, Quiet
  PROVE  ChainInv'
<1>0. /\ Segments' = Segments /\ assoc' = assoc /\ mem'.phase = mem.phase /\ mem'.seg = mem.seg
      /\ mem'.todo = mem.todo /\ clock'.damage = clock.damage
      /\ \A t \in Segments :
           /\ disk'[t].parent = disk[t].parent /\ disk'[t].header = disk[t].header
           /\ disk'[t].id = disk[t].id
           /\ disk[t].durable >= 0 => disk'[t].durable >= 0
  BY DEF Quiet, SameHeaders
<1>1. Active' = Active /\ \A s : Previous(s)' = Previous(s)
  BY <1>0, SameActive
<1>2. \A C : Chain(C) => Chain(C)'
  BY <1>0, SameChain DEF Quiet
<1>3. FilesKept'
  BY <1>0 DEF ChainInv, FilesKept
<1>4. Running'
  <2> SUFFICES ASSUME mem.phase = "up"
               PROVE  /\ assoc.head # NoSegment /\ mem'.seg = assoc.head /\ ~assoc.pending
                      /\ Chain(Active \ {assoc.head + 1})'
                      /\ writer'.pc \in {"header", "head"} <=> assoc.head + 1 \in Segments
                      /\ \A s \in Segments : s > assoc.head =>
                           /\ s = assoc.head + 1 /\ disk'[s].parent = assoc.head
                           /\ disk'[s].header = "whole"
                           /\ writer'.pc = "head" => disk'[s].durable >= 0
                      /\ sweep'.pc = "unlink" => Min(sweep'.ids) < assoc.anchor
    BY <1>0 DEF Running
  <2>1. /\ assoc.head # NoSegment /\ mem.seg = assoc.head /\ ~assoc.pending
        /\ Chain(Active \ {assoc.head + 1})
        /\ writer.pc \in {"header", "head"} <=> assoc.head + 1 \in Segments
        /\ \A s \in Segments : s > assoc.head =>
             /\ s = assoc.head + 1 /\ disk[s].parent = assoc.head
             /\ disk[s].header = "whole"
             /\ writer.pc = "head" => disk[s].durable >= 0
    BY DEF ChainInv, Running
  <2>2. Chain(Active \ {assoc.head + 1})'
    BY <1>0, <1>1, <1>2, <2>1
  <2>3. ASSUME NEW s \in Segments, s > assoc.head, writer'.pc = "head" PROVE disk'[s].durable >= 0
    BY <1>0, <2>1, <2>3 DEF Quiet
  <2> QED BY <1>0, <2>1, <2>2, <2>3 DEF Quiet
<1>5. Recovered'
  BY <1>0, <1>1, <1>2 DEF ChainInv, Recovered
<1>6. Rewriting'
  <2>1. /\ assoc.pending => mem.phase \in {"down", "rewriting"}
        /\ mem.phase = "rewriting" => assoc.pending
    BY DEF ChainInv, Rewriting
  <2>2. ASSUME mem.phase = "rewriting", NEW s \in Active
        PROVE  /\ disk'[s].durable >= 0 /\ disk'[s].header = "whole"
               /\ s \notin mem.todo => disk'[s].parent = Previous(s)
    <3>1. /\ disk[s].durable >= 0 /\ disk[s].header = "whole" /\ s \in Segments
          /\ s \notin mem.todo => disk[s].parent = Previous(s)
      BY <2>2 DEF ChainInv, Rewriting, Active, AtOrAbove
    <3> QED BY <1>0, <3>1
  <2> QED BY <1>0, <1>1, <2>1, <2>2, Zenon DEF Rewriting
<1>7. Stopped'
  BY <1>0, <1>2 DEF ChainInv, Stopped
<1>8. Idle'
  BY <1>0 DEF ChainInv, Idle, Quiet
<1>9. Undamaged'
  BY <1>0 DEF ChainInv, Undamaged
<1> QED BY <1>3, <1>4, <1>5, <1>6, <1>7, <1>8, <1>9 DEF ChainInv

\* Group commit: the writer waits while its batch is synced and answered.
Committing ==
  flush.stage # "idle" => mem.phase = "up" /\ (mem.mode = "sync" => writer.pc = "commit")

LEMMA CommittingStep ==
  ASSUME WalTypes, Committing, [Next]_vars
  PROVE  Committing'
<1>t. /\ mem \in [phase : {"down", "rewriting", "recovered", "up"}, mode : Modes,
                  fenced : BOOLEAN, seg : Nat, index : SUBSET Requests, todo : SUBSET Nat]
      /\ writer \in [pc : {"idle", "commit"} \cup Appending, batch : Seq(Requests),
                     left : Seq(Requests), files : SUBSET Nat]
      /\ flush \in [stage : {"idle", "sync", "apply", "reply"}, groups : Seq(Groups),
                     left : Seq(Requests), files : SUBSET Nat]
  BY DEF WalTypes, StoreTypes, WriterTypes, FlushTypes
<1>1. CASE /\ mem'.phase = mem.phase /\ mem'.mode = mem.mode /\ UNCHANGED writer
           /\ flush.stage = "idle" /\ flush'.stage # "idle" => mem.mode # "sync" /\ mem.phase = "up"
  BY <1>1 DEF Committing
<1>2. CASE \E r \in Requests : Submit(r) \/ Lookup(r)
  BY <1>1, <1>2 DEF Submit, Lookup
<1>3. CASE UNCHANGED flush /\ mem'.phase = mem.phase /\ mem'.mode = mem.mode /\ writer.pc # "commit"
  BY <1>3 DEF Committing
<1>4. CASE WriterStep
  <2>1. CASE FinishBatch
    <3>1. /\ mem.phase = "up" /\ mem' = mem
          /\ mem.mode = "sync" => writer' = [IdleWriter EXCEPT !.pc = "commit"]
          /\ mem.mode # "sync" => flush' = flush
      BY <2>1 DEF FinishBatch, Up
    <3>2. mem.mode = "sync" => writer'.pc = "commit"
      BY <3>1 DEF IdleWriter
    <3> QED BY <3>1, <3>2 DEF Committing
  <2>2. CASE RollHead
    <3>1. mem' = [mem EXCEPT !.seg = @ + 1] /\ writer.pc # "commit" /\ flush' = flush
      BY <2>2 DEF RollHead
    <3> QED BY <1>t, <1>3, <3>1
  <2> QED BY <1>3, <1>4, <2>1, <2>2
          DEF WriterStep, TakeBatch, AppendOne, RollBegin, RollCreate, RollSync
<1>5. CASE FlushStep
  <2>1. ASSUME NEW n, TakeGroups(n) PROVE Committing'
    BY <1>1, <2>1 DEF TakeGroups, Up
  <2>2. ASSUME NEW s, SyncFile(s) PROVE Committing'
    BY <1>1, <2>2 DEF SyncFile
  <2>3. CASE ApplyGroup
    <3>1. /\ mem' = [mem EXCEPT !.index = @ \cup ToSet(Head(flush.groups))]
          /\ UNCHANGED writer /\ flush.stage # "idle"
      BY <2>3 DEF ApplyGroup
    <3> QED BY <1>t, <1>1, <3>1
  <2>4. CASE ReplyOne
    <3>1. mem' = mem /\ flush.stage # "idle" /\ (flush' = IdleFlush \/ UNCHANGED writer)
      BY <2>4 DEF ReplyOne
    <3> QED BY <3>1, IdleTypes DEF Committing
  <2> QED BY <1>5, <2>1, <2>2, <2>3, <2>4 DEF FlushStep
<1>6. CASE SweepBegin \/ SweepStep \/ WriterError \/ SyncError \/ FenceElsewhere
  <2>1. /\ UNCHANGED <<writer, flush>>
        /\ \/ mem' = mem \/ mem' = [mem EXCEPT !.fenced = TRUE]
           \/ mem' = [mem EXCEPT !.index = @ \ DueSet]
    BY <1>6 DEF SweepBegin, SweepStep, SweepSegment, SweepUnlink, WriterError, SyncError, FenceElsewhere
  <2>2. mem'.phase = mem.phase /\ mem'.mode = mem.mode
    BY <1>t, <2>1
  <2> QED BY <1>1, <2>1, <2>2
<1>7. CASE StartStep
  <2>1. mem.phase # "up" /\ flush' = flush
    BY <1>7 DEF StartStep, Recover, RotateMark, RewriteOne, RotateCommit, OpenCreate, Open
  <2> QED BY <2>1 DEF Committing
<1>8. CASE Crash
  BY <1>8, IdleTypes DEF Crash, Committing
<1>9. CASE Tick \/ StartCutShort \/ (\E s \in 1..MaxSegments : LoseSegment(s)) \/ UNCHANGED vars
  BY <1>1, <1>9 DEF Tick, StartCutShort, LoseSegment, vars
<1> QED BY <1>2, <1>4, <1>5, <1>6, <1>7, <1>8, <1>9 DEF Next

LEMMA SameDisk ==
  ASSUME UNCHANGED disk
  PROVE  SameHeaders
<1>1. Segments' = Segments
  BY DEF Segments
<1> QED BY <1>1 DEF SameHeaders

LEMMA QuietActions ==
  ASSUME WalTypes, ChainInv, Committing,
         \/ \E r \in Requests : Submit(r) \/ Lookup(r)
         \/ \E n \in 1..BatchMax : TakeBatch(n)
         \/ AppendOne \/ RollBegin \/ RollSync \/ FinishBatch \/ FlushStep \/ SweepBegin
         \/ WriterError \/ SyncError \/ FenceElsewhere \/ Tick
         \/ UNCHANGED vars
  PROVE  ChainInv'
<1>1. SUFFICES Quiet
  BY <1>1, QuietStep
<1>t. ChainInv /\ WalTypes /\ mem \in [phase : {"down", "rewriting", "recovered", "up"},
        mode : Modes, fenced : BOOLEAN, seg : Nat, index : SUBSET Requests, todo : SUBSET Nat]
  BY DEF WalTypes, StoreTypes
<1>c. clock \in [now : Nat, crashes : Nat, damage : Nat, faults : Nat, gone : SUBSET Requests]
  BY DEF WalTypes, CallerTypes
<1>s. mem.phase = "up" /\ sweep.pc = "unlink" => Min(sweep.ids) < assoc.anchor
  BY DEF ChainInv, Running
<1>d. mem.phase # "up" => sweep.pc # "unlink"
  BY DEF ChainInv, Idle, IdleSweep
<1>k. \A A \in {"idle", "append", "roll", "commit"} : A \notin {"header", "head"}
  OBVIOUS
<1> DEFINE Kept == UNCHANGED <<assoc, sweep>> /\ mem'.phase = mem.phase /\ mem'.seg = mem.seg
                   /\ mem'.todo = mem.todo /\ clock'.damage = clock.damage
<1>q. ASSUME Kept, SameHeaders, UNCHANGED writer \/ (/\ mem.phase = "up"
               /\ writer.pc \in {"idle", "append", "commit"} /\ writer'.pc \in {"idle", "append", "roll", "commit"})
      PROVE Quiet
  BY <1>q, <1>s, <1>d DEF Quiet
<1>2. CASE \E r \in Requests : Submit(r) \/ Lookup(r)
  BY <1>2, <1>q, SameDisk DEF Submit, Lookup
<1>3. CASE \E n \in 1..BatchMax : TakeBatch(n)
  BY <1>3, <1>q, SameDisk DEF TakeBatch, Up
<1>4. CASE AppendOne
  <2>1. SameHeaders
    BY <1>4, WrittenDisk
  <2>2. /\ writer.pc = "append" /\ mem.phase = "up" /\ Kept
        /\ writer' = [writer EXCEPT !.left = Tail(@), !.files = @ \cup {mem.seg}]
    BY <1>4 DEF AppendOne, Up
  <2>3. writer'.pc = "append"
    BY <2>2 DEF WalTypes, WriterTypes
  <2> QED BY <1>q, <2>1, <2>2, <2>3
<1>5. CASE RollBegin
  <2>1. SameHeaders
    BY <1>5, WrittenDisk
  <2>2. /\ writer.pc = "append" /\ mem.phase = "up" /\ Kept
        /\ writer' = [writer EXCEPT !.pc = "roll"]
    BY <1>5 DEF RollBegin, Up
  <2>3. writer'.pc = "roll"
    BY <2>2 DEF WalTypes, WriterTypes
  <2> QED BY <1>q, <2>1, <2>2, <2>3
<1>6. CASE RollSync
  <2>1. PICK n : n = mem.seg + 1
    OBVIOUS
  <2>2. disk' = [disk EXCEPT ![n].durable = 0]
    BY <1>6, <2>1 DEF RollSync
  <2>3. /\ SameHeaders
        /\ n \in Segments => disk'[n].durable = 0
    BY <2>2, SyncedHeader DEF WalTypes
  <2>4. /\ writer.pc = "header" /\ mem.phase = "up" /\ Kept
        /\ writer' = [writer EXCEPT !.pc = "head"]
    BY <1>6 DEF RollSync, Up
  <2>5. writer'.pc = "head"
    BY <2>4 DEF WalTypes, WriterTypes
  <2>6. \A s \in Segments : s > assoc.head => s = n
    BY <2>1, <2>4 DEF ChainInv, Running
  <2>7. \A s \in Segments : s > assoc.head => disk'[s].durable >= 0
    BY <2>3, <2>6
  <2> QED BY <1>s, <2>3, <2>4, <2>5, <2>7 DEF Quiet
<1>7. CASE FinishBatch
  <2>1. writer'.pc \in {"idle", "commit"}
    BY <1>7 DEF FinishBatch, IdleWriter
  <2> QED BY <1>7, <1>q, <2>1, SameDisk DEF FinishBatch, Up
<1>8. CASE FlushStep
  <2>1. ASSUME NEW n, TakeGroups(n) PROVE Quiet
    BY <2>1, <1>q, SameDisk DEF TakeGroups
  <2>2. ASSUME NEW s \in 1..MaxSegments, SyncFile(s) PROVE Quiet
    <3>1. SameHeaders
      BY <2>2, WrittenDisk
    <3> QED BY <2>2, <3>1, <1>q DEF SyncFile
  <2>3. CASE ApplyGroup
    <3>1. /\ mem' = [mem EXCEPT !.index = @ \cup ToSet(Head(flush.groups))]
          /\ UNCHANGED <<disk, assoc, sweep, clock, writer>>
      BY <2>3 DEF ApplyGroup
    <3>2. mem'.phase = mem.phase /\ mem'.seg = mem.seg /\ mem'.todo = mem.todo
      BY <1>t, <3>1
    <3> QED BY <3>1, <3>2, <1>q, SameDisk
  <2>4. CASE ReplyOne
    <3>1. UNCHANGED <<disk, assoc, mem, sweep, clock>>
      BY <2>4 DEF ReplyOne
    <3>2. UNCHANGED writer \/ (mem.mode = "sync" /\ writer' = IdleWriter)
      BY <2>4 DEF ReplyOne
    <3>3. CASE UNCHANGED writer
      BY <1>q, <3>1, <3>3, SameDisk
    <3>4. CASE mem.mode = "sync" /\ writer' = IdleWriter
      <4>1. writer.pc = "commit" /\ mem.phase = "up" /\ writer'.pc = "idle"
        BY <2>4, <3>4, IdleTypes DEF Committing, ReplyOne
      <4> QED BY <1>q, <3>1, <4>1, SameDisk
    <3> QED BY <3>2, <3>3, <3>4
  <2> QED BY <1>8, <2>1, <2>2, <2>3, <2>4 DEF FlushStep
<1>9. CASE SweepBegin
  <2>1. /\ mem' = [mem EXCEPT !.index = @ \ DueSet] /\ mem.phase = "up"
        /\ UNCHANGED <<disk, assoc, clock, writer>> /\ sweep' = SweepOver(Segments \ {Newest})
    BY <1>9 DEF SweepBegin, Up
  <2>2. mem'.phase = mem.phase /\ mem'.seg = mem.seg /\ mem'.todo = mem.todo
    BY <1>t, <2>1
  <2>3. sweep'.pc # "unlink"
    BY <2>1 DEF SweepOver
  <2> QED BY <2>1, <2>2, <2>3, SameDisk DEF Quiet
<1>10. CASE WriterError \/ SyncError \/ FenceElsewhere
  <2>1. /\ mem' = [mem EXCEPT !.fenced = TRUE] /\ clock' = [clock EXCEPT !.faults = @ + 1]
        /\ UNCHANGED <<assoc, writer, sweep>>
    BY <1>10 DEF WriterError, SyncError, FenceElsewhere
  <2>2. /\ mem'.phase = mem.phase /\ mem'.seg = mem.seg /\ mem'.todo = mem.todo
        /\ clock'.damage = clock.damage
    BY <1>t, <1>c, <2>1
  <2>3. SameHeaders
    <3>1. CASE WriterError
      BY <3>1, WrittenDisk
    <3> QED BY <1>10, <3>1, SameDisk DEF SyncError, FenceElsewhere
  <2> QED BY <2>1, <2>2, <2>3, <1>q
<1>11. CASE Tick
  <2>1. clock' = [clock EXCEPT !.now = @ + 1] /\ UNCHANGED <<disk, assoc, mem, writer, sweep>>
    BY <1>11 DEF Tick
  <2>2. clock'.damage = clock.damage
    BY <1>c, <2>1
  <2> QED BY <2>1, <2>2, <1>q, SameDisk
<1>12. CASE UNCHANGED vars
  BY <1>12, <1>q, SameDisk DEF vars
<1> QED BY <1>2, <1>3, <1>4, <1>5, <1>6, <1>7, <1>8, <1>9, <1>10, <1>11, <1>12

\* While the process runs, only the parts about a running process matter.
LEMMA RunningStep ==
  ASSUME mem'.phase = "up", FilesKept', Running', ~assoc'.pending, Undamaged'
  PROVE  ChainInv'
BY DEF ChainInv, Recovered, Rewriting, Stopped, Idle

LEMMA RunningFacts ==
  ASSUME WalTypes, ChainInv, mem.phase = "up"
  PROVE  /\ assoc.head # NoSegment /\ mem.seg = assoc.head /\ ~assoc.pending
         /\ Chain(Active \ {assoc.head + 1})
         /\ assoc.head \in Segments /\ assoc.anchor \in Segments /\ assoc.anchor <= assoc.head
         /\ writer.pc \in {"header", "head"} <=> assoc.head + 1 \in Segments
         /\ \A s \in Segments : s > assoc.head =>
              /\ s = assoc.head + 1 /\ disk[s].parent = assoc.head /\ disk[s].header = "whole"
              /\ writer.pc = "head" => disk[s].durable >= 0
         /\ sweep.pc = "unlink" => Min(sweep.ids) < assoc.anchor
         /\ \A s \in Segments : s <= assoc.head => disk[s].durable >= 0 /\ disk[s].header = "whole"
         /\ clock.damage = 0 => assoc.inc = 0 /\ \A s \in Segments : disk[s].id = 0
<1>1. /\ assoc.head # NoSegment /\ mem.seg = assoc.head /\ ~assoc.pending
      /\ Chain(Active \ {assoc.head + 1})
      /\ writer.pc \in {"header", "head"} <=> assoc.head + 1 \in Segments
      /\ \A s \in Segments : s > assoc.head =>
           /\ s = assoc.head + 1 /\ disk[s].parent = assoc.head /\ disk[s].header = "whole"
           /\ writer.pc = "head" => disk[s].durable >= 0
      /\ sweep.pc = "unlink" => Min(sweep.ids) < assoc.anchor
  BY DEF ChainInv, Running
<1>2. assoc.head \in Segments /\ assoc.anchor \in Segments /\ assoc.anchor <= assoc.head
  <2>1. /\ assoc.head \in Active \ {assoc.head + 1} /\ assoc.anchor \in Active \ {assoc.head + 1}
        /\ \A c \in Active \ {assoc.head + 1} : c <= assoc.head
    BY <1>1 DEF Chain
  <2> QED BY <2>1 DEF Active, AtOrAbove
<1>3. /\ \A s \in Segments : s <= assoc.head => disk[s].durable >= 0 /\ disk[s].header = "whole"
      /\ clock.damage = 0 => assoc.inc = 0 /\ \A s \in Segments : disk[s].id = 0
  BY DEF ChainInv, FilesKept, Undamaged
<1> QED BY <1>1, <1>2, <1>3

LEMMA RollCreateChain ==
  ASSUME WalTypes, ChainInv, RollCreate
  PROVE  ChainInv'
<1>1. PICK n, h, f : n = mem.seg + 1 /\ h = assoc.head /\ f = NewFile(mem.seg + 1, assoc.head)
  OBVIOUS
<1>2. mem.phase = "up" /\ h \in Nat /\ n = h + 1 /\ n \notin Segments /\ Segments \in SUBSET Nat
  <2>1. mem.phase = "up" /\ writer.pc = "roll"
    BY DEF RollCreate, Up
  <2> QED BY <1>1, <2>1, RunningFacts, ChainTypes
<1>3. FileOK(f) /\ f.header = "whole" /\ f.id = assoc.inc /\ f.parent = h
  BY <1>1, <1>2, NewFileOK
<1>4. /\ Segments' = Segments \cup {n} /\ disk'[n] = f
      /\ \A t \in Segments : disk'[t] = disk[t]
  <2>1. disk' = WithSegment(n, f) /\ n \in Nat \ {0}
    BY <1>1, <1>2 DEF RollCreate
  <2>2. /\ Segments' = Segments \cup {n} /\ disk'[n] = f
        /\ \A t \in Segments : t # n => disk'[t] = disk[t]
    BY <1>3, <2>1, GrownDisk DEF WalTypes
  <2> QED BY <1>2, <2>2
<1>5. UNCHANGED <<assoc, mem, sweep, clock>> /\ writer'.pc = "header"
  BY DEF RollCreate, WalTypes, WriterTypes
<1>6. FilesKept'
  BY <1>1, <1>2, <1>4, <1>5 DEF ChainInv, FilesKept
<1>7. Undamaged'
  <2>1. clock.damage = 0 => /\ assoc.inc = 0 /\ ~assoc.pending
                            /\ \A s \in Segments : disk[s].id = 0
                            /\ assoc.head # NoSegment
    BY <1>2, RunningFacts DEF ChainInv, Undamaged
  <2>2. clock.damage = 0 => \A s \in Segments' : disk'[s].id = 0
    BY <1>3, <1>4, <2>1
  <2> QED BY <1>5, <2>1, <2>2 DEF Undamaged
<1>8. Running'
  <2>1. Active' \ {n} = Active \ {n}
    BY <1>4, <1>5 DEF Active, AtOrAbove
  <2>2. Chain(Active \ {n})
    BY <1>1, <1>2, RunningFacts
  <2>3. Chain(Active \ {n})'
    <3>1. PICK C : C = Active \ {n}
      OBVIOUS
    <3>2. /\ assoc.anchor \in C /\ h \in C
          /\ \A c \in C : assoc.anchor <= c /\ c <= h
          /\ \A s \in Segments : assoc.anchor <= s /\ s <= h => s \in C
          /\ \A t \in C \cap Segments : t # assoc.anchor => Below(C, disk[t].parent, t)
      BY <1>1, <2>2, <3>1 DEF Chain
    <3>3. \A s \in Segments' : assoc.anchor <= s /\ s <= h => s \in C
      BY <1>2, <1>4, <3>2
    <3>4. \A t \in C \cap Segments' : t # assoc.anchor => Below(C, disk'[t].parent, t)
      BY <1>4, <3>1, <3>2
    <3>5. C = (Active \ {n})'
      BY <2>1, <3>1
    <3> QED BY <1>1, <1>5, <3>2, <3>3, <3>4, <3>5 DEF Chain
  <2>4. Chain(Active \ {assoc.head + 1})'
    BY <1>1, <1>2, <1>5, <2>3
  <2>5. \A s \in Segments' : s > h => /\ s = h + 1 /\ disk'[s].parent = h
                                      /\ disk'[s].header = "whole"
    BY <1>1, <1>2, <1>3, <1>4, RunningFacts
  <2>6. /\ assoc'.head # NoSegment /\ mem'.seg = assoc'.head /\ ~assoc'.pending
        /\ sweep'.pc = "unlink" => Min(sweep'.ids) < assoc'.anchor
    BY <1>1, <1>2, <1>5, RunningFacts
  <2>7. writer'.pc \in {"header", "head"} /\ h + 1 \in Segments' /\ writer'.pc # "head"
    BY <1>2, <1>4, <1>5
  <2>8. assoc'.head = h
    BY <1>1, <1>5
  <2> QED BY <2>4, <2>5, <2>6, <2>7, <2>8 DEF Running
<1> QED BY <1>2, <1>5, <1>6, <1>7, <1>8, RunningStep, RunningFacts

LEMMA RollHeadChain ==
  ASSUME WalTypes, ChainInv, RollHead
  PROVE  ChainInv'
<1>1. PICK h, n, a : h = assoc.head /\ n = assoc.head + 1 /\ a = assoc.anchor
  OBVIOUS
<1>2. /\ mem.phase = "up" /\ writer.pc = "head"
      /\ UNCHANGED <<disk, sweep, clock>>
      /\ mem.seg = h /\ h \in Nat /\ n = h + 1 /\ a \in Nat /\ a <= h
  BY <1>1, RunningFacts, ChainTypes DEF RollHead, Up
<1>3. /\ assoc' = [assoc EXCEPT !.head = n] /\ mem' = [mem EXCEPT !.seg = n]
      /\ writer' = [writer EXCEPT !.pc = "append"]
  BY <1>1, <1>2 DEF RollHead
<1>4. /\ assoc'.head = n /\ assoc'.anchor = a /\ assoc'.inc = assoc.inc
      /\ assoc'.pending = assoc.pending
  BY <1>1, <1>3 DEF WalTypes, StoreTypes
<1>5. mem'.phase = "up" /\ mem'.seg = n /\ writer'.pc = "append"
  BY <1>2, <1>3 DEF WalTypes, StoreTypes, WriterTypes
<1>6. Segments' = Segments /\ disk' = disk /\ Segments \in SUBSET Nat
  BY <1>2, ChainTypes DEF Segments
<1>7. /\ n \in Segments /\ disk[n].durable >= 0 /\ disk[n].header = "whole" /\ disk[n].parent = h
      /\ \A s \in Segments : s <= n
  BY <1>1, <1>2, <1>6, RunningFacts
<1>8. FilesKept'
  <2>1. \A s \in Segments : s <= n => s <= h \/ s = n
    BY <1>2, <1>6
  <2>2. \A s \in Segments : s <= n => disk[s].durable >= 0 /\ disk[s].header = "whole"
    BY <1>1, <1>2, <1>7, <2>1, RunningFacts
  <2> QED BY <1>2, <1>4, <1>6, <2>2 DEF FilesKept, NoSegment
<1>9. Undamaged'
  BY <1>2, <1>4, <1>6 DEF ChainInv, Undamaged, NoSegment
<1>10. PICK C, D : C = Active \ {n} /\ D = Active
  OBVIOUS
<1>11. D = (Active \ {assoc.head + 1})' /\ D = C \cup {n}
  <2>1. n + 1 \notin Segments
    BY <1>2, <1>6, <1>7
  <2>2. Active' = D /\ n + 1 \notin D /\ n \in D
    BY <1>1, <1>2, <1>4, <1>6, <1>7, <1>10, <2>1 DEF Active, AtOrAbove
  <2> QED BY <1>4, <1>10, <2>2
<1>12. /\ a \in C /\ h \in C
       /\ \A c \in C : a <= c /\ c <= h
       /\ \A s \in Segments : a <= s /\ s <= h => s \in C
       /\ \A t \in C \cap Segments : t # a => Below(C, disk[t].parent, t)
  <2>1. Chain(C)
    BY <1>1, <1>2, <1>10, RunningFacts
  <2> QED BY <1>1, <2>1 DEF Chain
<1>13. C \in SUBSET Segments
  BY <1>10 DEF Active, AtOrAbove
<1>14. Chain(D)'
  <2>1. \A t \in D \cap Segments : t # a => Below(D, disk[t].parent, t)
    <3>1. ASSUME NEW t \in C, t # a PROVE Below(D, disk[t].parent, t)
      <4>1. Below(C, disk[t].parent, t) /\ t <= h
        BY <1>12, <1>13, <3>1
      <4>0. disk[t].parent \in C /\ disk[t].parent < t
        BY <4>1 DEF Below
      <4>5. t \in Nat
        BY <1>6, <1>13
      <4>2. disk[t].parent \in C /\ disk[t].parent < t /\ t \in Nat /\ t < n
        BY <1>2, <4>0, <4>1, <4>5
      <4>3. ASSUME NEW c \in D PROVE ~(disk[t].parent < c /\ c < t)
        <5>1. CASE c \in C
          BY <4>1, <5>1 DEF Below
        <5>2. CASE c = n
          BY <1>2, <4>2, <5>2
        <5> QED BY <1>11, <5>1, <5>2
      <4> QED BY <1>11, <4>2, <4>3 DEF Below
    <3>2. Below(D, disk[n].parent, n)
      BY <1>2, <1>6, <1>7, <1>11, <1>12, <1>13 DEF Below
    <3> QED BY <1>11, <3>1, <3>2
  <2>2. \A s \in Segments : a <= s /\ s <= n => s \in D
    BY <1>2, <1>6, <1>11, <1>12
  <2>3. \A c \in D : a <= c /\ c <= n
    BY <1>2, <1>6, <1>11, <1>12, <1>13
  <2> QED BY <1>4, <1>6, <1>11, <1>12, <2>1, <2>2, <2>3 DEF Chain
<1>15. Running'
  <2>1. Chain(Active \ {assoc.head + 1})'
    BY <1>11, <1>14
  <2>2. n + 1 \notin Segments' /\ \A s \in Segments' : ~(s > n)
    BY <1>2, <1>6, <1>7
  <2>3. n # NoSegment /\ ~assoc'.pending /\ writer'.pc \notin {"header", "head"}
    BY <1>2, <1>4, <1>5, RunningFacts DEF NoSegment
  <2>4. sweep'.pc = "unlink" => Min(sweep'.ids) < a
    BY <1>1, <1>2, RunningFacts
  <2> QED BY <1>4, <1>5, <2>1, <2>2, <2>3, <2>4 DEF Running
<1> QED BY <1>2, <1>4, <1>5, <1>8, <1>9, <1>15, RunningStep, RunningFacts

LEMMA SweepSegmentChain ==
  ASSUME WalTypes, ChainInv, SweepSegment
  PROVE  ChainInv'
<1>1. PICK s, h, a : s = Min(sweep.ids) /\ h = assoc.head /\ a = assoc.anchor
  OBVIOUS
<1>2. /\ mem.phase = "up" /\ UNCHANGED <<disk, mem, writer, clock>>
      /\ Segments \in SUBSET Nat /\ h \in Nat /\ a \in Nat /\ h \in Segments /\ a <= h
  BY <1>1, RunningFacts, ChainTypes DEF SweepSegment, Up
<1>3. sweep.ids \in SUBSET Nat /\ s \in Nat
  <2>1. sweep.ids \in SUBSET Nat /\ sweep.ids # {}
    BY DEF WalTypes, SweepTypes, SweepSegment
  <2> QED BY <1>1, <2>1, Least
<1>4. CASE assoc' = assoc
  <2>1. sweep'.pc = "unlink" => sweep' = [sweep EXCEPT !.pc = "unlink"] /\ s < a
    <3>1. CASE sweep' = SweepOver(sweep.ids \ {s})
      BY <3>1 DEF SweepOver
    <3>2. CASE ~(s < a) /\ sweep' = [sweep EXCEPT !.pc = "unlink"] /\ Retirable(s)
      <4>1. s = a /\ s < h /\ assoc' = [assoc EXCEPT !.anchor = Min({t \in Segments : t > s})]
        BY <1>1, <1>2, <1>3, <3>2 DEF SweepSegment, Retirable, SweepOver
      <4>2. PICK A : A = {t \in Segments : t > s}
        OBVIOUS
      <4>3. A \in SUBSET Nat /\ h \in A /\ \A t \in A : t > s
        BY <1>2, <4>1, <4>2
      <4>4. Min(A) > s
        BY <4>3, Least
      <4>5. assoc'.anchor = Min(A)
        BY <4>1, <4>2 DEF WalTypes, StoreTypes
      <4>6. s = a /\ assoc'.anchor = a /\ a \in Nat
        BY <1>1, <1>2, <1>4, <4>1
      <4>7. FALSE
        BY <4>4, <4>5, <4>6
      <4> QED BY <4>7
    <3>3. CASE s < a /\ sweep' = [sweep EXCEPT !.pc = "unlink"]
      BY <3>3
    <3>4. sweep' = SweepOver(sweep.ids \ {s}) \/ (sweep' = [sweep EXCEPT !.pc = "unlink"] /\ Retirable(s))
      BY <1>1, Zenon DEF SweepSegment
    <3> QED BY <3>1, <3>2, <3>3, <3>4
  <2>2. sweep'.pc = "unlink" => Min(sweep'.ids) < assoc.anchor
    <3> SUFFICES ASSUME sweep'.pc = "unlink" PROVE Min(sweep'.ids) < assoc.anchor
      OBVIOUS
    <3>1. sweep'.ids = sweep.ids
      BY <2>1 DEF WalTypes, SweepTypes
    <3> QED BY <1>1, <2>1, <3>1
  <2>3. Quiet
    BY <1>2, <1>4, <2>2, SameDisk DEF Quiet
  <2> QED BY <2>3, QuietStep
<1>5. CASE assoc' # assoc
  <2>1. /\ s = a /\ a < h /\ sweep' = [sweep EXCEPT !.pc = "unlink"]
        /\ assoc' = [assoc EXCEPT !.anchor = Min({t \in Segments : t > s})]
    BY <1>1, <1>2, <1>3, <1>5 DEF SweepSegment, Retirable
  <2>2. PICK A, b : A = {t \in Segments : t > s} /\ b = Min(A)
    OBVIOUS
  <2>3. A \in SUBSET Nat /\ h \in A /\ \A t \in A : t > s
    BY <1>2, <2>1, <2>2
  <2>4. b \in A /\ b \in Nat /\ \A t \in A : b <= t
    BY <2>2, <2>3, Least
  <2>5. b \in Segments /\ a < b /\ b <= h /\ \A t \in Segments : a < t => b <= t
    BY <1>2, <2>1, <2>2, <2>3, <2>4
  <2>6. /\ assoc'.anchor = b /\ assoc'.head = h /\ assoc'.inc = assoc.inc
        /\ assoc'.pending = assoc.pending
    BY <1>1, <2>1, <2>2 DEF WalTypes, StoreTypes
  <2>7. Segments' = Segments
    BY <1>2 DEF Segments
  <2>8. FilesKept'
    BY <1>1, <1>2, <2>5, <2>6, <2>7, RunningFacts DEF FilesKept
  <2>9. Undamaged'
    BY <1>1, <1>2, <2>6, <2>7 DEF ChainInv, Undamaged
  <2>10. PICK C, D : C = Active \ {h + 1} /\ D = C \ {a}
    OBVIOUS
  <2>11. D = (Active \ {assoc.head + 1})'
    <3>1. Active = {t \in Segments : t >= a} /\ Active' = {t \in Segments : t >= b}
      BY <1>1, <2>6, <2>7 DEF Active, AtOrAbove
    <3>2. \A t \in Segments : t >= b <=> t >= a /\ t # a
      BY <1>2, <2>4, <2>5
    <3>3. Active' = Active \ {a}
      BY <3>1, <3>2
    <3> QED BY <2>6, <2>10, <3>3
  <2>12. /\ h \in C
         /\ \A c \in C : a <= c /\ c <= h
         /\ \A t \in Segments : a <= t /\ t <= h => t \in C
         /\ \A t \in C \cap Segments : t # a => Below(C, disk[t].parent, t)
    <3>1. Chain(C)
      BY <1>1, <1>2, <2>10, RunningFacts
    <3> QED BY <1>1, <3>1 DEF Chain
  <2>13. C \in SUBSET Segments
    BY <2>10 DEF Active, AtOrAbove
  <2>14. Chain(D)'
    <3>1. ASSUME NEW t \in D, t # b PROVE Below(D, disk[t].parent, t)
      <4>1. Below(C, disk[t].parent, t) /\ t \in Segments /\ t \in Nat /\ a < t /\ b < t
        BY <1>2, <2>5, <2>10, <2>12, <2>13, <3>1
      <4>2. b \in C
        BY <1>2, <2>1, <2>4, <2>5, <2>12
      <4>3. disk[t].parent \in C /\ disk[t].parent < t /\ disk[t].parent # a
        BY <2>5, <4>1, <4>2 DEF Below
      <4> QED BY <2>10, <4>1, <4>3 DEF Below
    <3>2. \A c \in D : b <= c /\ c <= h
      BY <1>2, <2>5, <2>10, <2>12, <2>13
    <3>3. \A t \in Segments : b <= t /\ t <= h => t \in D
      BY <1>2, <2>4, <2>5, <2>10, <2>12
    <3>4. b \in D /\ h \in D
      BY <1>2, <2>1, <2>4, <2>5, <2>10, <2>12
    <3>5. \A t \in D \cap Segments' : t # assoc'.anchor => Below(D, disk'[t].parent, t)
      BY <1>2, <2>6, <3>1
    <3> QED BY <2>6, <2>7, <3>2, <3>3, <3>4, <3>5 DEF Chain
  <2>15. Running'
    <3>1. Chain(Active \ {assoc.head + 1})'
      BY <2>11, <2>14
    <3>2. sweep'.pc = "unlink" /\ Min(sweep'.ids) < b
      BY <1>1, <2>1, <2>5 DEF WalTypes, SweepTypes
    <3>3. /\ h # NoSegment /\ mem.seg = h /\ ~assoc'.pending
          /\ writer.pc \in {"header", "head"} <=> h + 1 \in Segments
          /\ \A t \in Segments : t > h =>
               /\ t = h + 1 /\ disk[t].parent = h /\ disk[t].header = "whole"
               /\ writer.pc = "head" => disk[t].durable >= 0
      BY <1>1, <1>2, <2>6, RunningFacts
    <3> QED BY <1>2, <2>6, <2>7, <3>1, <3>2, <3>3 DEF Running
  <2> QED BY <1>1, <1>2, <2>6, <2>8, <2>9, <2>15, RunningStep, RunningFacts
<1> QED BY <1>4, <1>5

LEMMA SweepUnlinkChain ==
  ASSUME WalTypes, ChainInv, SweepUnlink
  PROVE  ChainInv'
<1>1. PICK s, h, a : s = Min(sweep.ids) /\ h = assoc.head /\ a = assoc.anchor
  OBVIOUS
<1>2. /\ mem.phase = "up" /\ UNCHANGED <<assoc, mem, writer, clock>> /\ sweep.pc = "unlink"
      /\ Segments \in SUBSET Nat /\ h \in Nat /\ a \in Nat /\ s < a /\ a <= h
  BY <1>1, RunningFacts, ChainTypes DEF SweepUnlink, Up
<1>3. s \in Nat
  <2>1. sweep.ids \in SUBSET Nat /\ sweep.ids # {}
    BY <1>2 DEF WalTypes, SweepTypes
  <2> QED BY <1>1, <2>1, Least
<1>4. /\ Segments' = Segments \ {s}
      /\ \A t \in Segments \ {s} : disk'[t] = disk[t]
  BY <1>1, ShrunkDisk DEF SweepUnlink, WalTypes
<1>5. sweep'.pc # "unlink"
  BY DEF SweepUnlink, SweepOver
<1>6. FilesKept'
  BY <1>2, <1>4 DEF ChainInv, FilesKept
<1>7. Undamaged'
  BY <1>2, <1>4 DEF ChainInv, Undamaged
<1>8. Running'
  <2>1. Active' = Active
    BY <1>1, <1>2, <1>3, <1>4 DEF Active, AtOrAbove
  <2>2. PICK C : C = Active \ {h + 1}
    OBVIOUS
  <2>3. Chain(C) /\ C \in SUBSET Segments
    BY <1>1, <1>2, <2>2, RunningFacts DEF Active, AtOrAbove
  <2>4. Chain(C)'
    <3>1. \A t \in C \cap Segments' : t \in Segments /\ disk'[t] = disk[t]
      BY <1>4
    <3>2. assoc' = assoc /\ Segments' \in SUBSET Segments
      BY <1>2, <1>4
    <3> QED BY <2>3, <3>1, <3>2 DEF Chain
  <2>5. Chain(Active \ {assoc.head + 1})'
    BY <1>1, <1>2, <2>1, <2>2, <2>4
  <2>6. h + 1 \in Segments' <=> h + 1 \in Segments
    BY <1>2, <1>3, <1>4
  <2>7. /\ h # NoSegment /\ mem.seg = h /\ ~assoc.pending
        /\ writer.pc \in {"header", "head"} <=> h + 1 \in Segments
        /\ \A t \in Segments : t > h =>
             /\ t = h + 1 /\ disk[t].parent = h /\ disk[t].header = "whole"
             /\ writer.pc = "head" => disk[t].durable >= 0
    BY <1>1, <1>2, RunningFacts
  <2>8. \A t \in Segments' : t \in Segments /\ disk'[t] = disk[t]
    BY <1>4
  <2> QED BY <1>1, <1>2, <1>5, <2>5, <2>6, <2>7, <2>8 DEF Running
<1> QED BY <1>2, <1>6, <1>7, <1>8, RunningStep, RunningFacts

-----------------------------------------------------------------------------
(* Crashes and lost files.                                                 *)

\* While the process is down, only the files and what they record matter.
LEMMA DownStep ==
  ASSUME mem'.phase = "down", FilesKept', Stopped', Idle', Undamaged'
  PROVE  ChainInv'
BY DEF ChainInv, Running, Recovered, Rewriting

LEMMA CrashChain ==
  ASSUME WalTypes, ChainInv, Crash
  PROVE  ChainInv'
<1>1. /\ writer' = IdleWriter /\ sweep' = IdleSweep /\ assoc' = assoc
      /\ mem'.phase = "down" /\ clock'.damage = clock.damage
  BY CrashTypes
<1>2. /\ Segments' \in SUBSET Segments
      /\ \A t \in Segments : disk[t].durable >= 0 =>
           t \in Segments' /\ disk'[t].header = disk[t].header
      /\ \A t \in Segments' :
           /\ disk'[t].parent = disk[t].parent /\ disk'[t].id = disk[t].id
           /\ disk'[t].durable = disk[t].durable
  BY CrashedDisk DEF WalTypes
<1>3. FilesKept'
  BY <1>1, <1>2 DEF ChainInv, FilesKept
<1>4. Idle'
  BY <1>1 DEF Idle
<1>5. Undamaged'
  BY <1>1, <1>2 DEF ChainInv, Undamaged
<1>6. Stopped'
  <2> SUFFICES ASSUME ~assoc.pending, assoc.head # NoSegment
               PROVE  /\ {assoc.anchor, assoc.head} \subseteq Segments'
                      /\ \E C \in SUBSET Nat : Chain(C)' /\ (clock.damage = 0 => C \subseteq Segments')
                      /\ \A s \in Segments' : s > assoc.head =>
                           /\ s = assoc.head + 1
                           /\ disk'[s].header = "short" \/ disk'[s].parent = assoc.head
    BY <1>1 DEF Stopped
  <2>1. PICK C : C = Active \ {assoc.head + 1}
    OBVIOUS
  <2>2. /\ Chain(C) 
        /\ \A s \in Segments : s > assoc.head => s = assoc.head + 1 /\ disk[s].parent = assoc.head
    <3>1. CASE mem.phase = "up"
      BY <2>1, <3>1, RunningFacts
    <3>2. CASE mem.phase = "recovered"
      <4>1. Chain(Active) /\ \A s \in Segments : s <= assoc.head
        BY <3>2 DEF ChainInv, Recovered
      <4>2. \A s \in Segments : s \in Nat /\ assoc.head \in Nat
        BY ChainTypes
      <4>3. assoc.head + 1 \notin Active /\ \A s \in Segments : ~(s > assoc.head)
        BY <4>1, <4>2 DEF Active, AtOrAbove
      <4>4. C = Active
        BY <2>1, <4>3
      <4> QED BY <4>1, <4>3, <4>4
    <3>3. mem.phase \in {"up", "recovered"}
      BY DEF Crash, WalTypes, StoreTypes, ChainInv, Rewriting
    <3> QED BY <3>1, <3>2, <3>3
  <2>3. C \in SUBSET Segments /\ C \in SUBSET Nat
    BY <2>1, ChainTypes DEF Active, AtOrAbove
  <2>4. C \subseteq Segments'
    <3>1. \A t \in C : t <= assoc.head
      BY <2>2 DEF Chain
    <3> QED BY <1>2, <2>3, <3>1 DEF ChainInv, FilesKept
  <2>5. Chain(C)'
    BY <1>1, <1>2, <2>2 DEF Chain
  <2>6. {assoc.anchor, assoc.head} \subseteq Segments'
    BY <2>2, <2>4 DEF Chain
  <2> QED BY <1>2, <2>2, <2>3, <2>4, <2>5, <2>6
<1> QED BY <1>1, <1>3, <1>4, <1>5, <1>6, DownStep

LEMMA LoseSegmentChain ==
  ASSUME WalTypes, ChainInv, NEW s, LoseSegment(s)
  PROVE  ChainInv'
<1>1. /\ UNCHANGED <<assoc, mem, writer, sweep>> /\ mem.phase = "down"
      /\ disk' = WithoutSegment(s)
  BY DEF LoseSegment
<1>2. clock'.damage # 0
  <2>1. clock'.damage = clock.damage + 1 /\ clock.damage \in Nat
    BY LostClock DEF WalTypes, CallerTypes
  <2> QED BY <2>1
<1>3. Segments' \in SUBSET Segments /\ \A t \in Segments' : disk'[t] = disk[t]
  BY <1>1, ShrunkDisk DEF WalTypes
<1>4. FilesKept'
  BY <1>1, <1>3 DEF ChainInv, FilesKept
<1>5. Idle'
  BY <1>1 DEF ChainInv, Idle
<1>6. Undamaged'
  BY <1>2 DEF Undamaged
<1>7. \A C : Chain(C) => Chain(C)'
  BY <1>1, <1>3 DEF Chain
<1>8. Stopped'
  BY <1>1, <1>2, <1>3, <1>7 DEF ChainInv, Stopped
<1> QED BY <1>1, <1>4, <1>5, <1>6, <1>8, DownStep

-----------------------------------------------------------------------------
(* Start-up.                                                               *)

\* A directory that nothing was taken from passes inspection.
LEMMA NoMismatch ==
  ASSUME WalTypes, ChainInv, mem.phase = "down", clock.damage = 0
  PROVE  ~Mismatch
<1>0. /\ assoc.inc = 0 /\ ~assoc.pending /\ \A s \in Segments : disk[s].id = 0
      /\ assoc.head = NoSegment => Segments \subseteq {1}
  BY DEF ChainInv, Undamaged
<1>1. /\ Segments \in SUBSET Nat /\ assoc.head \in Nat /\ assoc.anchor \in Nat
      /\ Active = {s \in Segments : s >= assoc.anchor} /\ \A s \in Segments : disk[s].parent \in Nat
  BY ChainTypes
<1>2. \A s \in Segments : Repaired(s).id = assoc.inc
  BY <1>0, RepairedFile DEF WalTypes
<1>3. CASE assoc.head = NoSegment
  <2>1. ASSUME NEW s \in Active PROVE Previous(s) = NoSegment
    <3>1. Active \subseteq {1} /\ s \in Nat
      BY <1>0, <1>1, <1>3
    <3> QED BY <3>1, PreviousSegment DEF WalTypes
  <2>2. \A s \in Active : s \in Segments
    BY <1>1
  <2> QED BY <1>2, <1>3, <2>1, <2>2 DEF Mismatch
<1>4. CASE assoc.head # NoSegment
  <2>1. PICK h, a : h = assoc.head /\ a = assoc.anchor
    OBVIOUS
  <2>2. PICK C \in SUBSET Nat : Chain(C) /\ C \subseteq Segments
    <3>1. {assoc.anchor, assoc.head} \subseteq Segments
      BY <1>0, <1>4 DEF ChainInv, Stopped
    <3> QED BY <1>0, <1>4, <3>1 DEF ChainInv, Stopped
  <2>3. /\ a \in C /\ h \in C /\ \A c \in C : a <= c /\ c <= h
        /\ \A s \in Segments : a <= s /\ s <= h => s \in C
        /\ \A t \in C \cap Segments : t # a => Below(C, disk[t].parent, t)
    BY <2>1, <2>2 DEF Chain
  <2>4. {assoc.head, assoc.anchor} \subseteq Segments
    BY <2>1, <2>2, <2>3
  <2>5. ASSUME NEW s \in Active, Previous(s) # NoSegment, Repaired(s) = disk[s]
        PROVE  disk[s].parent = Previous(s) \/ EmptyResidue(s)
    <3>1. PICK p : p = Previous(s)
      OBVIOUS
    <3>2. s \in Segments /\ s \in Nat /\ a <= s /\ h \in Nat /\ a \in Nat
      BY <1>1, <2>1
    <3>3. /\ p \in Nat /\ p \in Segments /\ a <= p /\ p < s
          /\ \A t \in Segments : t >= a => ~(p < t /\ t < s)
      <4>1. /\ p \in Active /\ p < s /\ p \in Nat
            /\ \A t \in Active : ~(p < t /\ t < s)
        BY <2>5, <3>1, <3>2, PreviousSegment DEF WalTypes
      <4> QED BY <1>1, <2>1, <4>1
    <3>4. CASE s <= h
      <4>1. s \in C /\ s # a
        BY <2>3, <3>2, <3>3, <3>4
      <4>2. /\ disk[s].parent \in C /\ disk[s].parent < s
            /\ \A c \in C : ~(disk[s].parent < c /\ c < s)
        BY <2>3, <3>2, <4>1 DEF Below
      <4>3. p \in C
        BY <2>3, <3>2, <3>3, <3>4
      <4>4. disk[s].parent \in Nat /\ disk[s].parent \in Segments /\ a <= disk[s].parent
        BY <2>2, <2>3, <4>2
      <4>5. disk[s].parent = p
        BY <3>3, <4>2, <4>3, <4>4
      <4> QED BY <3>1, <4>5
    <3>5. CASE ~(s <= h)
      <4>1. /\ s = h + 1
            /\ disk[s].header = "short" \/ disk[s].parent = h
            /\ \A t \in Segments : t > h => t = h + 1
        BY <1>0, <1>4, <2>1, <2>4, <3>2, <3>5 DEF ChainInv, Stopped
      <4>2. \A t \in Segments : t <= s
        BY <1>1, <3>2, <4>1
      <4>3. s = Newest
        <5>1. Newest \in Segments /\ \A t \in Segments : t <= Newest
          BY <3>2, ActiveSegments DEF WalTypes
        <5> QED BY <1>1, <3>2, <4>2, <5>1
      <4>4. p = h
        BY <2>2, <2>3, <3>2, <3>3, <4>1
      <4> QED BY <3>1, <4>1, <4>3, <4>4 DEF EmptyResidue
    <3> QED BY <3>4, <3>5
  <2>6. ASSUME NEW s \in Active, Previous(s) # NoSegment PROVE Repaired(s).parent = Previous(s)
    <3>1. s \in Segments
      BY <1>1
    <3>2. CASE Repaired(s) = disk[s]
      <4>1. CASE EmptyResidue(s)
        <5>1. Repaired(s) = [disk[s] EXCEPT !.header = "whole", !.id = assoc.inc, !.parent = Previous(s)]
          BY <4>1 DEF Repaired
        <5>2. disk[s] \in Files
          BY <3>1, FileFacts DEF FileOK, WalTypes
        <5> QED BY <5>1, <5>2 DEF Files
      <4> QED BY <2>5, <2>6, <3>2, <4>1
    <3>3. CASE Repaired(s) # disk[s]
      BY <3>1, <3>3, RepairedFile DEF WalTypes
    <3> QED BY <3>2, <3>3
  <2> QED BY <1>1, <1>2, <2>4, <2>6 DEF Mismatch
<1> QED BY <1>3, <1>4

\* The segments a start reads form a chain once every one of them names the
\* segment before it.
LEMMA ChainOfActive ==
  ASSUME WalTypes, NEW a \in Active, NEW h \in Active, \A t \in Active : a <= t /\ t <= h,
         Segments' = Segments, assoc'.anchor = a, assoc'.head = h,
         \A t \in Active : Previous(t) # NoSegment => disk'[t].parent = Previous(t)
  PROVE  Active' = Active /\ Chain(Active)'
<1>1. /\ Segments \in SUBSET Nat /\ assoc.anchor \in Nat
      /\ Active = {s \in Segments : s >= assoc.anchor} /\ \A s \in Segments : s > 0
  BY ChainTypes
<1>2. \A t \in Segments : t >= a <=> t >= assoc.anchor
  BY <1>1
<1>3. Active' = {s \in Segments : s >= a}
  BY DEF Active, AtOrAbove
<1>4. Active' = Active
  BY <1>1, <1>2, <1>3
<1>5. ASSUME NEW t \in Active, t # a PROVE Below(Active, disk'[t].parent, t)
  <2>1. a < t /\ t \in Nat
    BY <1>1, <1>5
  <2>2. Previous(t) # NoSegment
    BY <1>1, <2>1, PreviousSegment DEF WalTypes
  <2>3. /\ Previous(t) \in Active /\ Previous(t) < t
        /\ \A c \in Active : ~(Previous(t) < c /\ c < t)
    BY <2>1, <2>2, PreviousSegment DEF WalTypes
  <2> QED BY <2>2, <2>3 DEF Below
<1>6. \A s \in Segments : a <= s /\ s <= h => s \in Active
  BY <1>1
<1> QED BY <1>4, <1>5, <1>6 DEF Chain

LEMMA RecoverChain ==
  ASSUME WalTypes, ChainInv, Recover
  PROVE  ChainInv'
<1>1. PICK a, ix : /\ a = IF assoc.head = NoSegment /\ Segments # {} THEN Min(Segments) ELSE assoc.anchor
                   /\ ix = RecoveredIndex(assoc.anchor)
  OBVIOUS
<1>2. /\ mem.phase = "down" /\ Decodable /\ ~Mismatch /\ ~assoc.pending
      /\ disk' = RecoveredDisk(assoc.anchor)
      /\ assoc' = [assoc EXCEPT !.head = Newest, !.anchor = a]
      /\ mem' = [mem EXCEPT !.phase = "recovered", !.index = ix]
      /\ UNCHANGED <<writer, sweep, clock>>
  BY <1>1 DEF Recover
<1>3. /\ assoc'.head = Newest /\ assoc'.anchor = a /\ assoc'.inc = assoc.inc
      /\ assoc'.pending = assoc.pending
  BY <1>2 DEF WalTypes, StoreTypes
<1>4. mem'.phase = "recovered"
  BY <1>2 DEF WalTypes, StoreTypes
<1>5. /\ Segments \in SUBSET Nat /\ assoc.anchor \in Nat /\ assoc.head \in Nat
      /\ Active = {s \in Segments : s >= assoc.anchor} /\ \A s \in Segments : s > 0
  BY ChainTypes
<1>6. /\ Segments' = Segments
      /\ \A s \in Segments : s < assoc.anchor => disk'[s] = disk[s]
      /\ \A s \in Active : /\ disk'[s].durable >= 0 /\ disk'[s].header = Repaired(s).header
                           /\ disk'[s].id = Repaired(s).id /\ disk'[s].parent = Repaired(s).parent
  BY <1>2, <1>5, RecoveredFiles DEF WalTypes
<1>7. /\ \A s \in Active : Repaired(s).header = "whole" /\ Repaired(s).id = assoc.inc
      /\ \A s \in Active : Previous(s) # NoSegment => Repaired(s).parent = Previous(s)
      /\ assoc.head # NoSegment => assoc.head \in Segments /\ assoc.anchor \in Segments
  BY <1>2 DEF Decodable, Mismatch
<1>8. /\ \A s \in Segments : s <= assoc.head => disk[s].durable >= 0 /\ disk[s].header = "whole"
      /\ assoc.head = NoSegment => assoc.anchor = NoSegment
      /\ assoc.anchor <= assoc.head
  BY DEF ChainInv, FilesKept
<1>9. \A s \in Segments : disk'[s].durable >= 0 /\ disk'[s].header = "whole"
  <2>1. ASSUME NEW s \in Segments, s < assoc.anchor PROVE disk'[s].durable >= 0 /\ disk'[s].header = "whole"
    BY <1>5, <1>6, <1>8, <2>1
  <2>2. ASSUME NEW s \in Segments, ~(s < assoc.anchor) PROVE disk'[s].durable >= 0 /\ disk'[s].header = "whole"
    BY <1>5, <1>6, <1>7, <2>2
  <2> QED BY <2>1, <2>2
<1>10. Segments # {} => /\ a \in Active /\ Newest \in Active
                        /\ \A t \in Active : a <= t /\ t <= Newest
                        /\ \A t \in Segments : t <= Newest
  <2> SUFFICES ASSUME Segments # {}
               PROVE  /\ a \in Active /\ Newest \in Active
                      /\ \A t \in Active : a <= t /\ t <= Newest
                      /\ \A t \in Segments : t <= Newest
    OBVIOUS
  <2>1. /\ Newest \in Segments /\ Min(Segments) \in Segments
        /\ \A t \in Segments : Min(Segments) <= t /\ t <= Newest
    BY ActiveSegments DEF WalTypes
  <2>2. CASE assoc.head = NoSegment
    <3>1. a = Min(Segments) /\ assoc.anchor = 0
      BY <1>1, <1>8, <2>2 DEF NoSegment
    <3>2. \A s \in Segments : s >= assoc.anchor
      BY <1>5, <3>1
    <3>4. Active = Segments
      BY <1>5, <3>2
    <3> QED BY <2>1, <3>1, <3>4
  <2>3. CASE assoc.head # NoSegment
    <3>1. a = assoc.anchor /\ a \in Segments
      BY <1>1, <1>7, <2>3
    <3>2. a \in Nat /\ Newest \in Nat /\ a <= Newest
      BY <1>5, <2>1, <3>1
    <3>3. a \in Active /\ Newest \in Active /\ \A t \in Active : a <= t /\ t \in Segments
      BY <1>5, <2>1, <3>1, <3>2
    <3> QED BY <2>1, <3>3
  <2> QED BY <2>2, <2>3
<1>11. Segments = {} => Newest = 0 /\ a = 0
  <2> SUFFICES ASSUME Segments = {} PROVE Newest = 0 /\ a = 0
    OBVIOUS
  <2>1. assoc.head = NoSegment
    BY <1>7
  <2> QED BY <1>1, <1>8, <2>1 DEF Newest, NoSegment
<1>12. FilesKept'
  <2>1. CASE Segments = {}
    BY <1>3, <1>6, <1>11, <2>1 DEF FilesKept, NoSegment
  <2>2. CASE Segments # {}
    <3>0. Newest \in Segments /\ a <= Newest
      BY <1>5, <1>10, <2>2
    <3>1. Newest # NoSegment /\ a <= Newest
      BY <1>5, <3>0 DEF NoSegment
    <3> QED BY <1>3, <1>6, <1>9, <3>1 DEF FilesKept
  <2> QED BY <2>1, <2>2
<1>13. Recovered'
  <2>1. Segments # {} => Chain(Active)'
    <3> SUFFICES ASSUME Segments # {} PROVE Chain(Active)'
      OBVIOUS
    <3>1. \A t \in Active : Previous(t) # NoSegment => disk'[t].parent = Previous(t)
      BY <1>6, <1>7
    <3> QED BY <1>3, <1>6, <1>10, <3>1, ChainOfActive, Zenon
  <2>2. assoc'.head # NoSegment => Segments # {}
    BY <1>3, <1>11 DEF NoSegment
  <2> QED BY <1>2, <1>3, <1>6, <1>9, <1>10, <2>1, <2>2 DEF Recovered
<1>14. Idle'
  BY <1>2, <1>4 DEF ChainInv, Idle
<1>15. Undamaged'
  <2>1. clock.damage = 0 => assoc.inc = 0 /\ \A s \in Segments : disk[s].id = 0
    BY DEF ChainInv, Undamaged
  <2>2. clock.damage = 0 => \A s \in Segments : disk'[s].id = 0
    BY <1>5, <1>6, <1>7, <2>1
  <2>3. assoc'.head = NoSegment => Segments = {}
    BY <1>3, <1>5, <1>10 DEF NoSegment
  <2> QED BY <1>2, <1>3, <1>6, <2>1, <2>2, <2>3 DEF Undamaged
<1>16. Running' /\ Rewriting' /\ Stopped'
  BY <1>2, <1>3, <1>4 DEF Running, Rewriting, Stopped
<1> QED BY <1>12, <1>13, <1>14, <1>15, <1>16 DEF ChainInv

LEMMA RotateMarkChain ==
  ASSUME WalTypes, ChainInv, RotateMark
  PROVE  ChainInv'
<1>1. PICK n : n = IF assoc.pending THEN assoc.inc ELSE assoc.inc + 1
  OBVIOUS
<1>2. /\ mem.phase = "down" /\ Decodable /\ (Mismatch \/ assoc.pending)
      /\ disk' = RecoveredDisk(assoc.anchor)
      /\ assoc' = [assoc EXCEPT !.pending = TRUE, !.inc = n]
      /\ mem' = [mem EXCEPT !.phase = "rewriting", !.todo = Active]
      /\ UNCHANGED <<writer, sweep, clock>>
  BY <1>1 DEF RotateMark
<1>3. clock.damage # 0
  BY <1>2, NoMismatch DEF ChainInv, Undamaged
<1>4. /\ assoc'.head = assoc.head /\ assoc'.anchor = assoc.anchor /\ assoc'.pending = TRUE
      /\ mem'.phase = "rewriting" /\ mem'.todo = Active
  BY <1>2 DEF WalTypes, StoreTypes
<1>5. /\ Segments \in SUBSET Nat /\ assoc.anchor \in Nat /\ assoc.head \in Nat
      /\ Active = {s \in Segments : s >= assoc.anchor}
  BY ChainTypes
<1>6. /\ Segments' = Segments
      /\ \A s \in Segments : s < assoc.anchor => disk'[s] = disk[s]
      /\ \A s \in Active : disk'[s].durable >= 0 /\ disk'[s].header = Repaired(s).header
  BY <1>2, <1>5, RecoveredFiles DEF WalTypes
<1>7. \A s \in Active : disk'[s].durable >= 0 /\ disk'[s].header = "whole"
  BY <1>2, <1>6 DEF Decodable
<1>8. Active' = Active
  BY <1>4, <1>6, SameActive
<1>9. FilesKept'
  <2>1. ASSUME NEW s \in Segments, s <= assoc.head PROVE disk'[s].durable >= 0 /\ disk'[s].header = "whole"
    <3>1. CASE s < assoc.anchor
      BY <1>6, <2>1, <3>1 DEF ChainInv, FilesKept
    <3>2. CASE ~(s < assoc.anchor)
      BY <1>5, <1>7, <3>2
    <3> QED BY <3>1, <3>2
  <2> QED BY <1>4, <1>6, <2>1 DEF ChainInv, FilesKept
<1>10. Rewriting'
  BY <1>4, <1>7, <1>8 DEF Rewriting
<1>11. Idle'
  BY <1>2, <1>4 DEF ChainInv, Idle
<1>12. Running' /\ Recovered' /\ Stopped' /\ Undamaged'
  BY <1>2, <1>3, <1>4 DEF Running, Recovered, Stopped, Undamaged
<1> QED BY <1>9, <1>10, <1>11, <1>12 DEF ChainInv

\* A start that stops early leaves the chain, or relinks an empty head to the
\* file below it.
LEMMA StartCutShortChain ==
  ASSUME WalTypes, ChainInv, StartCutShort
  PROVE  ChainInv'
<1>1. PICK h, a : h = assoc.head /\ a = assoc.anchor
  OBVIOUS
<1>2. /\ mem.phase = "down" /\ Decodable /\ disk' = RecoveredDisk(a)
      /\ UNCHANGED <<assoc, mem, writer, sweep, clock>>
  BY <1>1 DEF StartCutShort
<1>3. /\ Segments \in SUBSET Nat /\ a \in Nat /\ h \in Nat /\ a <= h
      /\ Active = {s \in Segments : s >= a} /\ \A s \in Segments : s > 0
  BY <1>1, ChainTypes DEF ChainInv, FilesKept
<1>4. /\ Segments' = Segments
      /\ \A s \in Segments : s < a => disk'[s] = disk[s]
      /\ \A s \in Active : /\ disk'[s].durable >= 0 /\ disk'[s].header = Repaired(s).header
                           /\ disk'[s].id = Repaired(s).id /\ disk'[s].parent = Repaired(s).parent
  BY <1>2, <1>3, RecoveredFiles DEF WalTypes
<1>5. ASSUME NEW s \in Active
      PROVE  /\ Repaired(s).header = "whole"
             /\ \/ Repaired(s) = disk[s]
                \/ /\ s = Newest /\ Repaired(s).parent = Previous(s)
                   /\ Repaired(s).id = assoc.inc
  BY <1>2, <1>3, RepairedFile DEF WalTypes, Decodable, EmptyResidue
<1>6. FilesKept'
  <2>1. ASSUME NEW s \in Segments, s <= h PROVE disk'[s].durable >= 0 /\ disk'[s].header = "whole"
    <3>1. CASE s < a
      BY <1>1, <1>4, <2>1, <3>1 DEF ChainInv, FilesKept
    <3>2. CASE ~(s < a)
      BY <1>3, <1>4, <1>5, <3>2
    <3> QED BY <3>1, <3>2
  <2> QED BY <1>1, <1>2, <1>4, <2>1 DEF ChainInv, FilesKept
<1>7. Idle'
  BY <1>2 DEF ChainInv, Idle
<1>8. Undamaged'
  <2>1. clock.damage = 0 => /\ assoc.inc = 0 /\ ~assoc.pending
                            /\ \A s \in Segments : disk[s].id = 0
                            /\ assoc.head = NoSegment => Segments \subseteq {1}
    BY DEF ChainInv, Undamaged
  <2>2. clock.damage = 0 => \A s \in Segments : disk'[s].id = 0
    BY <1>3, <1>4, <1>5, <2>1
  <2> QED BY <1>2, <1>4, <2>1, <2>2 DEF Undamaged
<1>9. Stopped'
  <2> SUFFICES ASSUME ~assoc.pending, h # NoSegment
               PROVE  /\ clock.damage = 0 => {a, h} \subseteq Segments
                      /\ {a, h} \subseteq Segments =>
                           \E C \in SUBSET Nat : Chain(C)' /\ (clock.damage = 0 => C \subseteq Segments)
                      /\ \A s \in Segments : s > h =>
                           s = h + 1 /\ (disk'[s].parent = h \/ h \notin Segments)
    BY <1>1, <1>2, <1>4, Zenon DEF Stopped
  <2>0. /\ clock.damage = 0 => {a, h} \subseteq Segments
        /\ {a, h} \subseteq Segments =>
             \E C \in SUBSET Nat : Chain(C) /\ (clock.damage = 0 => C \subseteq Segments)
        /\ \A s \in Segments : s > h =>
             s = h + 1 /\ (disk[s].header = "short" \/ disk[s].parent = h \/ h \notin Segments)
    BY <1>1, <1>2 DEF ChainInv, Stopped
  <2>1. ASSUME NEW s \in Segments, s > h, h \in Segments
        PROVE  disk'[s].parent = h
    <3>1. /\ s = h + 1
          /\ disk[s].header = "short" \/ disk[s].parent = h
          /\ s \in Active /\ h \in Active /\ s \in Nat
      BY <1>3, <2>0, <2>1
    <3>2. CASE Repaired(s) = disk[s]
      BY <1>4, <1>5, <3>1, <3>2
    <3>3. CASE Repaired(s).parent = Previous(s)
      <4>1. /\ Previous(s) \in Nat
            /\ Previous(s) # NoSegment => Previous(s) < s /\ ~(Previous(s) < h /\ h < s)
            /\ Previous(s) = NoSegment => h >= s
        BY <3>1, PreviousSegment DEF WalTypes
      <4>2. Previous(s) = h
        <5>1. PICK p \in Nat : p = Previous(s)
          BY <4>1
        <5>2. p # NoSegment
          BY <1>3, <3>1, <4>1, <5>1
        <5>3. p < h + 1 /\ ~(p < h)
          BY <1>3, <3>1, <4>1, <5>1, <5>2
        <5> QED BY <1>3, <5>1, <5>3
      <4> QED BY <1>4, <3>1, <3>3, <4>2
    <3> QED BY <1>5, <3>1, <3>2, <3>3
  <2>2. ASSUME {a, h} \subseteq Segments
        PROVE  \E C \in SUBSET Nat : Chain(C)' /\ (clock.damage = 0 => C \subseteq Segments)
    <3>1. PICK C \in SUBSET Nat : Chain(C) /\ (clock.damage = 0 => C \subseteq Segments)
      BY <2>0, <2>2
    <3>2. /\ a \in C /\ h \in C /\ \A c \in C : a <= c /\ c <= h
          /\ \A s \in Segments : a <= s /\ s <= h => s \in C
          /\ \A t \in C \cap Segments : t # a => Below(C, disk[t].parent, t)
      BY <1>1, <3>1 DEF Chain
    <3>3. CASE \A t \in C \cap Segments : t # a => disk'[t].parent = disk[t].parent
      <4>1. \A t \in C \cap Segments : t # a => Below(C, disk'[t].parent, t)
        BY <3>2, <3>3
      <4>2. Chain(C)'
        BY <1>1, <1>2, <1>4, <3>2, <4>1 DEF Chain
      <4> QED BY <3>1, <4>2
    <3>4. ASSUME NEW u \in C \cap Segments, u # a, disk'[u].parent # disk[u].parent
          PROVE  \E D \in SUBSET Nat : Chain(D)' /\ (clock.damage = 0 => D \subseteq Segments)
      <4>1. u \in Active /\ u \in Nat /\ u <= h /\ a < u
        BY <1>3, <3>2, <3>4
      <4>2. u = Newest /\ disk'[u].parent = Previous(u)
        BY <1>4, <1>5, <3>4, <4>1
      <4>3. u = h /\ \A t \in Segments : t <= h
        <5>1. \A t \in Segments : t <= Newest
          BY <4>1, ActiveSegments DEF WalTypes, Active, AtOrAbove
        <5> QED BY <1>3, <2>2, <4>1, <4>2, <5>1
      <4>4. PICK p : p = Previous(h)
        OBVIOUS
      <4>5. /\ p \in Nat /\ p \in Segments /\ a <= p /\ p < h
            /\ \A t \in Segments : a <= t => ~(p < t /\ t < h)
        <5>1. a \in Active /\ a < h
          BY <1>3, <2>2, <4>1, <4>3
        <5>2. /\ p \in Active /\ p < h /\ p \in Nat
              /\ \A t \in Active : ~(p < t /\ t < h)
          BY <1>3, <4>4, <5>1, PreviousSegment DEF WalTypes
        <5> QED BY <1>3, <5>2
      <4>6. PICK D : D = {c \in C : c <= p} \cup {h}
        OBVIOUS
      <4>7. D \in SUBSET C /\ a \in D /\ h \in D /\ p \in D
        BY <1>3, <3>2, <4>5, <4>6
      <4>8. \A s \in Segments : a <= s /\ s <= h => s \in D
        BY <1>3, <3>2, <4>5, <4>6
      <4>9. ASSUME NEW t \in D \cap Segments, t # a PROVE Below(D, disk'[t].parent, t)
        <5>1. CASE t = h
          <6>1. disk'[t].parent = p
            BY <4>2, <4>3, <4>4, <5>1
          <6>2. \A c \in D : ~(p < c /\ c < h)
            BY <1>3, <4>5, <4>6
          <6> QED BY <4>5, <4>7, <5>1, <6>1, <6>2 DEF Below
        <5>2. CASE t # h
          <6>1. t \in C /\ t <= p /\ t \in Nat /\ t \in Active /\ t # Newest
            BY <1>3, <3>2, <4>2, <4>3, <4>6, <4>9, <5>2
          <6>2. disk'[t].parent = disk[t].parent
            BY <1>4, <1>5, <6>1
          <6>3. PICK q : q = disk[t].parent
            OBVIOUS
          <6>4. q \in C /\ q < t /\ \A c \in C : ~(q < c /\ c < t)
            BY <3>2, <4>9, <6>1, <6>3 DEF Below
          <6>5. q \in D
            BY <4>5, <4>6, <6>1, <6>4
          <6> QED BY <4>7, <6>2, <6>3, <6>4, <6>5 DEF Below
        <5> QED BY <5>1, <5>2
      <4>10. \A c \in D : a <= c /\ c <= h
        BY <3>2, <4>7
      <4>11. Chain(D)'
        BY <1>1, <1>2, <1>4, <4>7, <4>8, <4>9, <4>10 DEF Chain
      <4>12. clock.damage = 0 => D \subseteq Segments
        BY <3>1, <4>7
      <4> QED BY <4>7, <4>11, <4>12
    <3> QED BY <3>3, <3>4
  <2> QED BY <2>0, <2>1, <2>2
<1> QED BY <1>2, <1>6, <1>7, <1>8, <1>9, DownStep

LEMMA RewriteOneChain ==
  ASSUME WalTypes, ChainInv, RewriteOne
  PROVE  ChainInv'
<1>1. PICK m : m = Min(mem.todo)
  OBVIOUS
<1>2. /\ mem.phase = "rewriting" /\ UNCHANGED <<assoc, writer, sweep, clock>>
      /\ mem' = [mem EXCEPT !.todo = @ \ {m}]
  BY <1>1 DEF RewriteOne
<1>3. /\ Segments' = Segments
      /\ \A t \in Segments :
           /\ t # m => disk'[t] = disk[t]
           /\ disk'[t].durable = disk[t].durable /\ disk'[t].header = disk[t].header
           /\ t = m => disk'[t].parent = Previous(t)
  BY <1>1, RewrittenFile DEF WalTypes
<1>4. mem'.phase = "rewriting" /\ mem'.todo = mem.todo \ {m}
  BY <1>2 DEF WalTypes, StoreTypes
<1>5. Active' = Active /\ \A s : Previous(s)' = Previous(s)
  BY <1>2, <1>3, SameActive
<1>6. /\ assoc.pending /\ clock.damage # 0
      /\ \A s \in Active : /\ disk[s].durable >= 0 /\ disk[s].header = "whole" /\ s \in Segments
                           /\ s \notin mem.todo => disk[s].parent = Previous(s)
  BY <1>2 DEF ChainInv, Rewriting, Undamaged, Active, AtOrAbove
<1>7. FilesKept'
  BY <1>2, <1>3 DEF ChainInv, FilesKept
<1>8. Rewriting'
  <2>1. ASSUME NEW s \in Active
        PROVE  /\ disk'[s].durable >= 0 /\ disk'[s].header = "whole"
               /\ s \notin mem'.todo => disk'[s].parent = Previous(s)
    BY <1>3, <1>4, <1>6
  <2>2. assoc'.pending
    BY <1>2, <1>6
  <2> QED BY <1>4, <1>5, <2>1, <2>2, Zenon DEF Rewriting
<1>9. Idle'
  BY <1>2, <1>4 DEF ChainInv, Idle
<1>10. Running' /\ Recovered' /\ Stopped' /\ Undamaged'
  BY <1>2, <1>4, <1>6 DEF Running, Recovered, Stopped, Undamaged
<1> QED BY <1>7, <1>8, <1>9, <1>10 DEF ChainInv

LEMMA RotateCommitChain ==
  ASSUME WalTypes, ChainInv, RotateCommit
  PROVE  ChainInv'
<1>1. PICK a, h, ix : /\ a = IF Active = {} THEN NoSegment ELSE Min(Active)
                      /\ h = IF Active = {} THEN NoSegment ELSE Max(Active)
                      /\ ix = RecoveredIndex(a)
  OBVIOUS
<1>2. /\ mem.phase = "rewriting" /\ mem.todo = {} /\ UNCHANGED <<writer, sweep, clock>>
      /\ disk' = RecoveredDisk(a)
      /\ assoc' = [assoc EXCEPT !.pending = FALSE, !.anchor = a, !.head = h]
      /\ mem' = [mem EXCEPT !.phase = "recovered", !.index = ix]
  BY <1>1 DEF RotateCommit
<1>3. /\ assoc'.head = h /\ assoc'.anchor = a /\ assoc'.pending = FALSE
      /\ mem'.phase = "recovered"
  BY <1>2 DEF WalTypes, StoreTypes
<1>4. /\ Segments \in SUBSET Nat /\ assoc.anchor \in Nat /\ assoc.head \in Nat
      /\ Active = {s \in Segments : s >= assoc.anchor} /\ \A s \in Segments : s > 0
  BY ChainTypes
<1>5. /\ assoc.pending /\ clock.damage # 0
      /\ \A s \in Active : disk[s].header = "whole" /\ disk[s].parent = Previous(s)
  BY <1>2 DEF ChainInv, Rewriting, Undamaged
<1>6. Active # {} => /\ a \in Active /\ h \in Active /\ a \in Nat /\ h \in Nat
                     /\ \A t \in Active : a <= t /\ t <= h
  BY <1>1, ActiveSegments DEF WalTypes
<1>7. Active = {} => a = 0 /\ h = 0
  BY <1>1 DEF NoSegment
<1>8. a \in Nat /\ h \in Nat
  BY <1>6, <1>7
<1>9. /\ Segments' = Segments
      /\ \A s \in Segments : s < a => disk'[s] = disk[s]
      /\ \A s \in Segments : s >= a => /\ disk'[s].durable >= 0 /\ disk'[s].header = Repaired(s).header
                                       /\ disk'[s].parent = Repaired(s).parent
  BY <1>2, <1>8, RecoveredFiles DEF WalTypes
<1>10. ASSUME NEW s \in Segments
       PROVE  /\ disk[s].header = "whole"
              /\ s \notin Active => disk[s].durable >= 0
              /\ s \in Active \/ s < assoc.anchor
  BY <1>4, <1>5 DEF ChainInv, FilesKept
<1>11. ASSUME NEW s \in Segments
       PROVE  /\ Repaired(s).header = "whole"
              /\ s \in Active => Repaired(s).parent = disk[s].parent
  BY <1>5, <1>10, RepairedFile DEF WalTypes
<1>12. \A s \in Segments : disk'[s].durable >= 0 /\ disk'[s].header = "whole"
  <2>1. ASSUME NEW s \in Segments, s < a PROVE disk'[s].durable >= 0 /\ disk'[s].header = "whole"
    <3>1. s \notin Active
      BY <1>4, <1>6, <1>8, <2>1
    <3> QED BY <1>9, <1>10, <2>1, <3>1
  <2>2. ASSUME NEW s \in Segments, ~(s < a) PROVE disk'[s].durable >= 0 /\ disk'[s].header = "whole"
    <3>1. s >= a
      BY <1>4, <1>8, <2>2
    <3> QED BY <1>9, <1>10, <1>11, <3>1
  <2> QED BY <2>1, <2>2
<1>13. FilesKept'
  <2>1. CASE Active = {}
    BY <1>3, <1>7, <1>9, <1>12, <2>1 DEF FilesKept, NoSegment
  <2>2. CASE Active # {}
    <3>1. a <= h /\ h # NoSegment
      BY <1>4, <1>6, <2>2 DEF NoSegment
    <3> QED BY <1>3, <1>9, <1>12, <3>1 DEF FilesKept
  <2> QED BY <2>1, <2>2
<1>14. Recovered'
  <2>1. Active # {} => Chain(Active)'
    <3> SUFFICES ASSUME Active # {} PROVE Chain(Active)'
      OBVIOUS
    <3>1. \A t \in Active : Previous(t) # NoSegment => disk'[t].parent = Previous(t)
      BY <1>4, <1>5, <1>6, <1>9, <1>11
    <3> QED BY <1>3, <1>6, <1>9, <3>1, ChainOfActive, Zenon
  <2>2. h # NoSegment => Active # {} /\ \A s \in Segments : s <= h
    <3> SUFFICES ASSUME h # NoSegment PROVE Active # {} /\ \A s \in Segments : s <= h
      OBVIOUS
    <3>1. Active # {}
      BY <1>7 DEF NoSegment
    <3>2. ASSUME NEW s \in Segments PROVE s <= h
      BY <1>4, <1>6, <1>10, <3>1
    <3> QED BY <3>1, <3>2
  <2> QED BY <1>3, <1>9, <1>12, <2>1, <2>2 DEF Recovered
<1>15. Idle'
  BY <1>2, <1>3 DEF ChainInv, Idle
<1>16. Running' /\ Rewriting' /\ Stopped' /\ Undamaged'
  BY <1>2, <1>3, <1>5 DEF Running, Rewriting, Stopped, Undamaged
<1> QED BY <1>13, <1>14, <1>15, <1>16 DEF ChainInv

LEMMA OpenCreateChain ==
  ASSUME WalTypes, ChainInv, OpenCreate
  PROVE  ChainInv'
<1>1. /\ mem.phase = "recovered" /\ Active = {} /\ UNCHANGED <<assoc, mem, writer, sweep, clock>>
      /\ disk' = WithSegment(1, NewFile(1, NoSegment))
  BY DEF OpenCreate
<1>2. assoc.head = NoSegment /\ ~assoc.pending
  <2>1. assoc.head # NoSegment => assoc.anchor \in Active
    BY <1>1 DEF ChainInv, Recovered, Chain
  <2> QED BY <1>1, <2>1 DEF ChainInv, Recovered
<1>3. assoc.anchor = 0 /\ assoc.head = 0
  BY <1>2 DEF ChainInv, FilesKept, NoSegment
<1>4. Segments = {}
  <2>1. \A s \in Segments : s >= assoc.anchor
    BY <1>3, ChainTypes
  <2> QED BY <1>1, <2>1 DEF Active, AtOrAbove
<1>5. PICK f : f = NewFile(1, NoSegment)
  OBVIOUS
<1>6. FileOK(f) /\ f.header = "whole" /\ f.id = assoc.inc
  <2>1. NoSegment \in Nat
    BY DEF NoSegment
  <2> QED BY <1>5, <2>1, NewFileOK
<1>7. Segments' = {1} /\ disk'[1] = f
  <2>1. disk' = WithSegment(1, f) /\ 1 \in Nat \ {0}
    BY <1>1, <1>5
  <2>2. Segments' = Segments \cup {1} /\ disk'[1] = f
    BY <1>6, <2>1, GrownDisk DEF WalTypes
  <2> QED BY <1>4, <2>2
<1>8. FilesKept'
  BY <1>1, <1>3, <1>7 DEF FilesKept, NoSegment
<1>9. Recovered'
  BY <1>1, <1>2, <1>6, <1>7 DEF Recovered
<1>10. Idle'
  BY <1>1 DEF ChainInv, Idle
<1>11. Undamaged'
  BY <1>1, <1>2, <1>6, <1>7 DEF ChainInv, Undamaged
<1>12. Running' /\ Rewriting' /\ Stopped'
  BY <1>1, <1>2 DEF Running, Rewriting, Stopped
<1> QED BY <1>8, <1>9, <1>10, <1>11, <1>12 DEF ChainInv

LEMMA OpenChain ==
  ASSUME WalTypes, ChainInv, NEW mode, Open(mode)
  PROVE  ChainInv'
<1>1. PICK s, a : s = Max(Active) /\ a = IF assoc.head = NoSegment THEN s ELSE assoc.anchor
  OBVIOUS
<1>2. /\ mem.phase = "recovered" /\ Active # {} /\ UNCHANGED <<writer, sweep, clock>>
      /\ disk' = [disk EXCEPT ![s].durable = Len(disk[s].frames)]
      /\ assoc' = [assoc EXCEPT !.head = s, !.anchor = a]
      /\ mem' = [mem EXCEPT !.phase = "up", !.seg = s, !.mode = mode]
  BY <1>1 DEF Open
<1>3. /\ assoc'.head = s /\ assoc'.anchor = a /\ assoc'.pending = assoc.pending
      /\ assoc'.inc = assoc.inc /\ mem'.phase = "up" /\ mem'.seg = s
  BY <1>2 DEF WalTypes, StoreTypes
<1>4. /\ Segments \in SUBSET Nat /\ assoc.anchor \in Nat /\ assoc.head \in Nat
      /\ Active = {t \in Segments : t >= assoc.anchor} /\ \A t \in Segments : t > 0
  BY ChainTypes
<1>5. s \in Active /\ s \in Nat /\ \A t \in Active : t <= s
  BY <1>1, <1>2, ActiveSegments DEF WalTypes
<1>6. s \in Segments /\ assoc.anchor <= s /\ \A t \in Segments : t <= s
  BY <1>4, <1>5
<1>7. /\ Segments' = Segments
      /\ \A t \in Segments : /\ disk'[t].parent = disk[t].parent /\ disk'[t].header = disk[t].header
                             /\ disk'[t].id = disk[t].id
                             /\ disk[t].durable >= 0 => disk'[t].durable >= 0
      /\ disk'[s].durable >= 0
  <2>1. /\ SameHeaders
        /\ \A t \in Segments : disk'[t].durable = IF t = s THEN Len(disk[s].frames) ELSE disk[t].durable
    BY <1>2, SyncedDisk DEF WalTypes
  <2>2. Len(disk[s].frames) \in Nat
    BY <1>6, FileFacts DEF WalTypes
  <2>3. disk'[s].durable >= 0
    BY <1>6, <2>1, <2>2
  <2> QED BY <2>1, <2>3 DEF SameHeaders
<1>8. /\ ~assoc.pending
      /\ assoc.head # NoSegment => Chain(Active)
      /\ \A t \in Segments : disk[t].header = "whole" /\ (disk[t].durable >= 0 \/ Segments = {t})
  BY <1>2 DEF ChainInv, Recovered
<1>9. \A t \in Segments : disk'[t].header = "whole" /\ disk'[t].durable >= 0
  BY <1>6, <1>7, <1>8
<1>10. a \in Nat /\ a <= s /\ s # NoSegment
  BY <1>1, <1>4, <1>5, <1>6 DEF NoSegment
<1>11. FilesKept'
  BY <1>3, <1>7, <1>9, <1>10 DEF FilesKept
<1>12. Undamaged'
  BY <1>2, <1>3, <1>7, <1>10 DEF ChainInv, Undamaged
<1>13. s + 1 \notin Segments /\ \A t \in Segments : ~(t > s)
  BY <1>4, <1>5, <1>6
<1>14. Chain(Active \ {assoc.head + 1})'
  <2>1. PICK D : D = {t \in Segments : t >= a}
    OBVIOUS
  <2>2. D = (Active \ {assoc.head + 1})'
    <3>1. Active' = D
      BY <1>3, <1>7, <2>1 DEF Active, AtOrAbove
    <3> QED BY <1>3, <1>13, <2>1, <3>1
  <2>3. a \in D /\ s \in D /\ \A c \in D : a <= c /\ c <= s
    <3>1. a \in Segments
      <4>1. assoc.head # NoSegment => assoc.anchor \in Active
        BY <1>8 DEF Chain
      <4> QED BY <1>1, <1>4, <1>6, <4>1
    <3> QED BY <1>4, <1>6, <1>10, <2>1, <3>1
  <2>4. \A t \in D : t # a => Below(D, disk[t].parent, t)
    <3>1. CASE assoc.head = NoSegment
      BY <1>1, <1>4, <1>6, <2>1, <2>3, <3>1
    <3>2. CASE assoc.head # NoSegment
      <4>1. D = Active /\ a = assoc.anchor
        BY <1>1, <1>4, <2>1, <3>2
      <4>2. \A t \in Active \cap Segments : t # assoc.anchor => Below(Active, disk[t].parent, t)
        BY <1>8, <3>2 DEF Chain
      <4> QED BY <1>4, <4>1, <4>2
    <3> QED BY <3>1, <3>2
  <2>5. \A t \in D \cap Segments' : t # a => Below(D, disk'[t].parent, t)
    BY <1>7, <2>4
  <2>6. \A t \in Segments' : a <= t /\ t <= s => t \in D
    BY <1>4, <1>7, <1>10, <2>1
  <2>7. Chain(D)'
    BY <1>3, <2>3, <2>5, <2>6 DEF Chain
  <2> QED BY <2>2, <2>7
<1>15. Running'
  <2>1. writer'.pc \notin {"header", "head"} /\ sweep'.pc # "unlink"
    <3>1. writer' = IdleWriter /\ sweep' = IdleSweep
      BY <1>2 DEF ChainInv, Idle
    <3> QED BY <3>1 DEF IdleWriter, IdleSweep
  <2> QED BY <1>3, <1>7, <1>8, <1>10, <1>13, <1>14, <2>1 DEF Running
<1> QED BY <1>3, <1>8, <1>11, <1>12, <1>15, RunningStep

-----------------------------------------------------------------------------
(* The theorems.                                                           *)

WalInv == WalTypes /\ Committing /\ ChainInv

LEMMA WalInvInit == Init => WalInv
<1> SUFFICES ASSUME Init PROVE WalInv
  OBVIOUS
<1>1. /\ Segments = {} /\ assoc.head = NoSegment /\ assoc.anchor = NoSegment
      /\ ~assoc.pending /\ assoc.inc = 0 /\ mem.phase = "down"
      /\ writer = IdleWriter /\ sweep = IdleSweep /\ flush = IdleFlush
  BY DEF Init, Segments
<1>2. Committing
  BY <1>1, IdleTypes DEF Committing
<1>3. ChainInv
  BY <1>1 DEF ChainInv, FilesKept, Running, Recovered, Rewriting, Stopped, Idle, Undamaged, NoSegment
<1> QED BY <1>2, <1>3, InitTypes DEF WalInv

LEMMA WalInvStep == WalInv /\ [Next]_vars => WalInv'
<1> SUFFICES ASSUME WalInv, [Next]_vars PROVE WalInv'
  OBVIOUS
<1> USE DEF WalInv
<1>1. WalTypes'
  <2>1. mem.phase = "up" => assoc.head \in Segments
    BY RunningFacts
  <2> QED BY <2>1, NextTypes
<1>2. Committing'
  BY CommittingStep
<1>3. ChainInv'
  <2>1. ASSUME NEW s \in 1..MaxSegments, LoseSegment(s) PROVE ChainInv'
    BY <2>1, LoseSegmentChain
  <2>2. CASE StartStep
    <3>1. ASSUME NEW mode \in Modes, Open(mode) PROVE ChainInv'
      BY <3>1, OpenChain
    <3> QED BY <2>2, <3>1, RecoverChain, RotateMarkChain, RewriteOneChain, RotateCommitChain,
               OpenCreateChain DEF StartStep
  <2>3. CASE SweepStep
    BY <2>3, SweepSegmentChain, SweepUnlinkChain DEF SweepStep
  <2>4. CASE WriterStep
    BY <2>4, QuietActions, RollCreateChain, RollHeadChain DEF WriterStep
  <2>5. CASE \/ \E r \in Requests : Submit(r) \/ Lookup(r)
             \/ FlushStep \/ SweepBegin \/ WriterError \/ SyncError \/ FenceElsewhere \/ Tick
             \/ UNCHANGED vars
    BY <2>5, QuietActions
  <2>6. CASE Crash \/ StartCutShort
    BY <2>6, CrashChain, StartCutShortChain
  <2> QED BY <2>1, <2>2, <2>3, <2>4, <2>5, <2>6 DEF Next
<1> QED BY <1>1, <1>2, <1>3

\* Types; the writer appends only to the segment redb records as the head, and
\* batches keep to BatchMax (RouterWalWriterState, write_record, roll_segment).
THEOREM TypeCorrect == Spec => []TypeOK
<1>1. WalInv => TypeOK
  <2> SUFFICES ASSUME WalInv PROVE TypeOK
    OBVIOUS
  <2>1. \A s \in Segments : disk[s] \in Files /\ disk[s].durable \in -1..Len(disk[s].frames)
    BY FileFacts DEF WalInv, WalTypes, FileOK
  <2>2. Up /\ writer.pc = "append" => mem.seg = assoc.head
    BY RunningFacts DEF WalInv, Up
  <2>3. /\ assoc \in [inc : Nat, pending : BOOLEAN, anchor : Nat, head : Nat]
        /\ mem.phase \in {"down", "rewriting", "recovered", "up"} /\ mem.mode \in Modes
        /\ mem.index \subseteq Requests
    BY DEF WalInv, WalTypes, StoreTypes
  <2>4. Len(writer.batch) <= BatchMax
    BY DEF WalInv, WalTypes, WriterTypes
  <2>5. callers.reply \in [Requests -> {"idle", "pending", "ok", "err"}] /\ owed \subseteq Requests
    BY DEF WalInv, WalTypes, CallerTypes
  <2> QED BY <2>1, <2>2, <2>3, <2>4, <2>5 DEF TypeOK
<1> QED BY <1>1, WalInvInit, WalInvStep, PTL DEF Spec

\* Unless a recorded segment was taken away, no start rotates the incarnation,
\* whatever the crash points and errors before it (inspect, prepare).
THEOREM RotationNeedsLoss == Spec => []NoSpuriousRotation
<1>1. WalInv => NoSpuriousRotation
  BY DEF WalInv, ChainInv, Undamaged, NoSpuriousRotation
<1> QED BY <1>1, WalInvInit, WalInvStep, PTL DEF Spec

-----------------------------------------------------------------------------
(* Where the requests are.                                                 *)

Unique(q) == \A i, j \in DOMAIN q : q[i] = q[j] => i = j

AllOf(gs) == UNION {ToSet(gs[i]) : i \in DOMAIN gs}

UniqueAll(gs) ==
  \A i, j \in DOMAIN gs : /\ Unique(gs[i])
                          /\ i # j => ToSet(gs[i]) \cap ToSet(gs[j]) = {}

Batches == [i \in DOMAIN fsyncQ |-> fsyncQ[i].batch]

Apart(A, B, C, D, E) ==
  /\ A \cap (B \cup C \cup D \cup E) = {}
  /\ B \cap (C \cup D \cup E) = {}
  /\ C \cap (D \cup E) = {}
  /\ D \cap E = {}

Lanes(Q, B, F, G, L) == ToSet(Q) \cup ToSet(B) \cup AllOf(F) \cup AllOf(G) \cup ToSet(L)

LanesOK(Q, B, F, G, L) ==
  /\ Unique(Q) /\ Unique(B) /\ UniqueAll(F) /\ UniqueAll(G) /\ Unique(L)
  /\ Apart(ToSet(Q), ToSet(B), AllOf(F), AllOf(G), ToSet(L))

Flying == Lanes(queue, writer.batch, Batches, flush.groups, flush.left)

\* Every request in progress is in one place, and its caller is still waiting.
Placed ==
  /\ LanesOK(queue, writer.batch, Batches, flush.groups, flush.left)
  /\ ToSet(writer.left) \subseteq ToSet(writer.batch)
  /\ mem.phase # "up" => Flying = {} /\ ~mem.fenced
  /\ Up => \A r \in Flying : callers.reply[r] = "pending"

-----------------------------------------------------------------------------
(* Where the records are.                                                  *)

\* A record in a file was accepted before the file was last written.
WellFramed(f) ==
  /\ f.mtime <= clock.now
  /\ \A i \in 1..Len(f.frames) : f.frames[i] # Torn =>
       callers.reply[f.frames[i]] # "idle" /\ callers.accepted[f.frames[i]] <= f.mtime

Framed ==
  /\ \A r \in Requests : callers.reply[r] # "idle" => callers.accepted[r] <= clock.now
  /\ \A s \in Segments : WellFramed(disk[s])

\* What is synced is not torn, and nothing is before an error or a crash.
Clean ==
  \A s \in Active :
    /\ \A i \in 1..disk[s].durable : disk[s].frames[i] # Torn
    /\ Up \/ mem.phase \in {"rewriting", "recovered"} =>
         \A i \in 1..Len(disk[s].frames) : disk[s].frames[i] # Torn
    /\ mem.phase = "up" /\ s > assoc.head => disk[s].frames = <<>>

\* Every record of the segment is past its deadline.
Spent(s) == \A i \in 1..Len(disk[s].frames) :
              disk[s].frames[i] # Torn => Due(disk[s].frames[i])

Retired ==
  /\ \A s \in Segments : s < assoc.anchor => Spent(s)
  /\ mem.phase = "recovered" /\ assoc.head = NoSegment => \A s \in Segments : Spent(s)

\* r is due, or it is synced in an active segment or written to one in T.
Kept(r, T) ==
  \/ Due(r)
  \/ \E s \in Active : \E i \in 1..Len(disk[s].frames) :
        disk[s].frames[i] = r /\ (i <= disk[s].durable \/ s \in T)

\* The files that still have to be synced for the writer's batch, for the groups.
Unsynced == IF mem.mode = "pipeline" THEN writer.files
            ELSE IF writer.pc = "append" THEN {mem.seg} ELSE {}

Unflushed == IF flush.stage = "sync" THEN flush.files ELSE {}

BatchKept == \A r \in ToSet(writer.batch) \ ToSet(writer.left) : Kept(r, Unsynced)
QueuedKept == \A i \in DOMAIN fsyncQ : \A r \in ToSet(fsyncQ[i].batch) : Kept(r, fsyncQ[i].files)
GroupsKept == \A r \in AllOf(flush.groups) : Kept(r, Unflushed)
LeftKept == \A r \in ToSet(flush.left) : r \in mem.index \/ Due(r)

\* What was written for a request in progress is still there.
FlightKept == Up => BatchKept /\ QueuedKept /\ GroupsKept /\ LeftKept

IndexKept ==
  /\ \A r \in mem.index : callers.reply[r] # "idle" /\ Kept(r, {})
  /\ mem.phase \notin {"up", "recovered"} => mem.index = {}

\* The head is the newest file and holds no record: a start links it anew.
BareHead == assoc.head = Newest /\ Readable(disk[Newest].frames) = <<>>

\* As far as a start can see, the files the chain records are all there.
Whole ==
  /\ {assoc.anchor, assoc.head} \subseteq Segments
  /\ BareHead \/ Chain({s \in Active : s <= assoc.head})

\* What callers were told is kept, unless a segment is missing or the next open
\* announces a new incarnation.  What a loss took away unseen is excused.
OwedKept ==
  assoc.inc = served =>
    /\ mem.phase = "up" \/ (mem.phase = "down" /\ Whole) =>
         \A r \in owed \ clock.gone : Kept(r, {})
    /\ mem.phase = "recovered" => \A r \in owed \ clock.gone : r \in mem.index \/ Due(r)
    /\ assoc.head = NoSegment => owed = {}

Epochs ==
  /\ served <= assoc.inc
  /\ assoc.pending => served < assoc.inc
  /\ mem.phase = "up" => assoc.inc = served

DataInv == Placed /\ Framed /\ Clean /\ Retired /\ FlightKept /\ IndexKept /\ OwedKept /\ Epochs

-----------------------------------------------------------------------------
(* Callers and time.                                                       *)

\* A request keeps its acceptance time, time does not go back, and what is due
\* stays due.
CallersGo ==
  /\ clock.now <= clock'.now /\ clock'.now \in Nat
  /\ \A r \in Requests :
       /\ callers.reply[r] # "idle" =>
            callers'.reply[r] # "idle" /\ callers'.accepted[r] = callers.accepted[r]
       /\ callers.reply[r] = "idle" =>
            callers'.reply[r] = "idle" \/ callers'.accepted[r] = clock.now
       /\ Due(r) => Due(r)'

LEMMA SameCallers ==
  ASSUME WalTypes, clock.now <= clock'.now, clock'.now \in Nat,
         \A r \in Requests : callers.reply[r] # "idle" =>
            callers'.reply[r] # "idle" /\ callers'.accepted[r] = callers.accepted[r],
         \A r \in Requests : callers.reply[r] = "idle" =>
            callers'.reply[r] = "idle" \/ callers'.accepted[r] = clock.now
  PROVE  CallersGo
<1> SUFFICES ASSUME NEW r \in Requests, Due(r) PROVE Due(r)'
  BY DEF CallersGo
<1>1. PICK a \in Nat, n \in Nat, m \in Nat :
        a = callers.accepted[r] /\ n = clock.now /\ m = clock'.now
  BY DEF WalTypes, CallerTypes
<1>2. callers.reply[r] # "idle" /\ a + Ttl < n
  BY <1>1 DEF Due
<1>3. a + Ttl < m
  BY <1>1, <1>2, WalAssumption
<1> QED BY <1>1, <1>2, <1>3 DEF Due

LEMMA RefusedGo ==
  ASSUME WalTypes, NEW S, callers' = Refused(S), clock'.now = clock.now
  PROVE  CallersGo
<1>1. clock.now \in Nat
  BY DEF WalTypes, CallerTypes
<1> QED BY <1>1, RefusedCallers, SameCallers DEF WalTypes

LEMMA CallersStep ==
  ASSUME WalTypes, Placed, [Next]_vars
  PROVE  CallersGo
<1>0. clock.now \in Nat /\ callers.reply \in [Requests -> {"idle", "pending", "ok", "err"}]
      /\ callers \in [reply : [Requests -> {"idle", "pending", "ok", "err"}],
                      accepted : [Requests -> Nat]]
      /\ clock \in [now : Nat, crashes : Nat, damage : Nat, faults : Nat, gone : SUBSET Requests]
  BY DEF WalTypes, CallerTypes
<1>1. CASE callers' = callers /\ clock'.now = clock.now
  BY <1>0, <1>1, SameCallers
<1>2. ASSUME NEW r \in Requests, Submit(r) PROVE CallersGo
  <2>1. callers.reply[r] = "idle" /\ clock' = clock /\ callers'.accepted[r] = clock.now
        /\ \A q \in Requests : q # r => /\ callers'.reply[q] = callers.reply[q]
                                        /\ callers'.accepted[q] = callers.accepted[q]
    BY <1>0, <1>2 DEF Submit
  <2> QED BY <1>0, <2>1, SameCallers
<1>3. ASSUME NEW r \in Requests, Lookup(r) PROVE CallersGo
  <2>1. /\ callers'.accepted = callers.accepted /\ clock' = clock
        /\ \A q \in Requests :
             \/ callers'.reply[q] = callers.reply[q]
             \/ callers'.reply[q] = "ok" /\ callers.reply[q] # "idle"
    <3>1. PICK R \in [Requests -> {"idle", "pending", "ok", "err"}] : R = callers.reply
      BY <1>0
    <3>2. callers'.reply = [R EXCEPT ![r] = "ok"] /\ callers'.accepted = callers.accepted
          /\ clock' = clock /\ R[r] = "err"
      BY <1>0, <1>3, <3>1 DEF Lookup
    <3>3. \A q \in Requests : callers'.reply[q] = IF q = r THEN "ok" ELSE R[q]
      BY <3>2
    <3> QED BY <3>1, <3>2, <3>3
  <2> QED BY <1>0, <2>1, SameCallers
<1>4. CASE ReplyOne
  <2>1. Head(flush.left) \in ToSet(flush.left)
    <3>1. PICK q \in Seq(Requests) : q = flush.left /\ q # <<>>
      BY <1>4 DEF ReplyOne, WalTypes, FlushTypes
    <3> QED BY <3>1 DEF ToSet
  <2>2. callers.reply[Head(flush.left)] = "pending"
    BY <1>4, <2>1 DEF ReplyOne, Placed, Flying, Lanes
  <2>3. /\ callers'.accepted = callers.accepted /\ clock' = clock
        /\ \A q \in Requests :
             \/ callers'.reply[q] = callers.reply[q]
             \/ callers'.reply[q] = "ok" /\ callers.reply[q] # "idle"
    <3>1. PICK R \in [Requests -> {"idle", "pending", "ok", "err"}] : R = callers.reply
      BY <1>0
    <3>0. PICK r : r = Head(flush.left)
      OBVIOUS
    <3>2. callers'.reply = [R EXCEPT ![r] = "ok"] /\ callers'.accepted = callers.accepted
          /\ clock' = clock
      BY <1>0, <1>4, <3>0, <3>1 DEF ReplyOne
    <3>3. R[r] = "pending"
      BY <2>2, <3>0, <3>1
    <3>4. \A q \in Requests : callers'.reply[q] = IF q = r THEN "ok" ELSE R[q]
      BY <3>2
    <3> QED BY <3>1, <3>2, <3>3, <3>4
  <2> QED BY <1>0, <2>3, SameCallers
<1>5. CASE WriterError \/ SyncError \/ Crash
  <2>1. (\E S : callers' = Refused(S)) /\ clock'.now = clock.now
    BY <1>0, <1>5 DEF WriterError, SyncError, Crash
  <2> QED BY <2>1, RefusedGo
<1>6. CASE Tick
  <2>1. callers' = callers /\ clock'.now = clock.now + 1
    BY <1>0, <1>6 DEF Tick
  <2> QED BY <1>0, <2>1, SameCallers
<1>7. CASE SweepBegin \/ SweepStep \/ StartStep \/ WriterStep \/ UNCHANGED vars
  <2>1. callers' = callers /\ clock' = clock
    BY <1>7 DEF SweepBegin, SweepStep, SweepSegment, SweepUnlink, StartStep, Recover, RotateMark,
                RewriteOne, RotateCommit, OpenCreate, Open, WriterStep, TakeBatch, AppendOne,
                RollBegin, RollCreate, RollSync, RollHead, FinishBatch, vars
  <2> QED BY <1>1, <2>1
<1>8. CASE FlushStep
  <2>1. ReplyOne \/ (callers' = callers /\ clock' = clock)
    BY <1>8 DEF FlushStep, TakeGroups, SyncFile, ApplyGroup
  <2> QED BY <1>1, <1>4, <2>1
<1>9. CASE FenceElsewhere \/ StartCutShort \/ \E s \in 1..MaxSegments : LoseSegment(s)
  <2>1. callers' = callers
    BY <1>9 DEF FenceElsewhere, StartCutShort, LoseSegment
  <2>2. clock'.now = clock.now
    BY <1>0, <1>9, LostClock DEF FenceElsewhere, StartCutShort
  <2> QED BY <1>1, <2>1, <2>2
<1> QED BY <1>2, <1>3, <1>5, <1>6, <1>7, <1>8, <1>9 DEF Next

LEMMA AcceptedStep ==
  ASSUME WalTypes, CallersGo,
         \A r \in Requests : callers.reply[r] # "idle" => callers.accepted[r] <= clock.now
  PROVE  (\A r \in Requests : callers.reply[r] # "idle" => callers.accepted[r] <= clock.now)'
<1>1. SUFFICES ASSUME NEW r \in Requests, callers'.reply[r] # "idle"
               PROVE  callers'.accepted[r] <= clock'.now
  OBVIOUS
<1>2. PICK n \in Nat, m \in Nat : n = clock.now /\ m = clock'.now
  BY DEF CallersGo, WalTypes, CallerTypes
<1>a. PICK a : a = callers'.accepted[r]
  OBVIOUS
<1>3. n <= m
  BY <1>2 DEF CallersGo
<1>4. a = n \/ (a = callers.accepted[r] /\ callers.reply[r] # "idle")
  BY <1>1, <1>2, <1>a DEF CallersGo
<1>5. callers.accepted[r] \in Nat
  BY DEF WalTypes, CallerTypes
<1> QED BY <1>2, <1>3, <1>4, <1>5, <1>a

-----------------------------------------------------------------------------
(* What a step does to the files.                                          *)

\* File s stays, with what was written to it and what was synced.
Carries(s) ==
  /\ s \in Segments' /\ Len(disk[s].frames) <= Len(disk'[s].frames)
  /\ \A i \in 1..Len(disk[s].frames) : disk'[s].frames[i] = disk[s].frames[i]
  /\ disk[s].durable <= disk'[s].durable
  /\ disk[s].mtime <= disk'[s].mtime /\ disk'[s].mtime <= clock.now

\* At most one frame is appended: part of one by a failing writer, or a record.
Appends(s) ==
  \/ disk'[s].frames = disk[s].frames
  \/ /\ disk'[s].frames = Append(disk[s].frames, Torn)
     /\ s = mem.seg /\ mem.phase = "up" /\ mem'.phase = "up" /\ mem'.fenced
  \/ /\ disk'[s].frames = Append(disk[s].frames, Head(writer.left))
     /\ s = mem.seg /\ AppendOne /\ disk'[s].mtime = clock.now

Syncs(s) ==
  \/ disk'[s].durable = disk[s].durable
  \/ disk'[s].durable = 0
  \/ /\ disk'[s].durable = Len(disk[s].frames) /\ disk'[s].frames = disk[s].frames
     /\ Up \/ mem.phase = "recovered"

DiskGrows ==
  /\ \A s \in Segments : Carries(s) /\ Appends(s) /\ Syncs(s)
  /\ \A s \in Segments' \ Segments :
       disk'[s].frames = <<>> /\ disk'[s].mtime = clock.now /\ disk'[s].durable = -1

LEMMA SameFile ==
  ASSUME FileTypes, NEW s \in Segments, s \in Segments', disk'[s].frames = disk[s].frames,
         disk[s].durable <= disk'[s].durable, disk[s].mtime <= disk'[s].mtime,
         disk'[s].mtime <= clock.now, Syncs(s)
  PROVE  Carries(s) /\ Appends(s) /\ Syncs(s)
<1>1. Len(disk[s].frames) \in Nat
  BY FileFacts
<1> QED BY <1>1 DEF Carries, Appends

LEMMA GrowsSame ==
  ASSUME FileTypes, Framed, disk' = disk
  PROVE  DiskGrows
<1>1. Segments' = Segments
  BY DEF Segments
<1>2. ASSUME NEW s \in Segments PROVE Carries(s) /\ Appends(s) /\ Syncs(s)
  <2>1. disk[s].durable \in Int /\ disk[s].mtime \in Nat
    BY FileFacts
  <2> QED BY <1>1, <2>1, SameFile DEF Syncs, Framed, WellFramed
<1> QED BY <1>1, <1>2 DEF DiskGrows

LEMMA GrowsSynced ==
  ASSUME FileTypes, Framed, NEW s, disk' = [disk EXCEPT ![s].durable = Len(disk[s].frames)],
         Up \/ mem.phase = "recovered"
  PROVE  DiskGrows
<1>1. /\ Segments' = Segments
      /\ \A t \in Segments : disk'[t].frames = disk[t].frames /\ disk'[t].mtime = disk[t].mtime
      /\ \A t \in Segments : disk'[t].durable = IF t = s THEN Len(disk[s].frames) ELSE disk[t].durable
  BY SyncedDisk DEF SameHeaders
<1>2. ASSUME NEW t \in Segments PROVE Carries(t) /\ Appends(t) /\ Syncs(t)
  <2>1. disk[t].durable \in Int /\ disk[t].mtime \in Nat /\ Len(disk[t].frames) \in Nat
        /\ disk[t].durable \in -1..Len(disk[t].frames)
    BY FileFacts DEF FileOK
  <2>2. /\ disk[t].durable <= disk'[t].durable /\ disk[t].mtime <= disk'[t].mtime
        /\ disk'[t].mtime <= clock.now
    BY <1>1, <2>1 DEF Framed, WellFramed
  <2>3. Syncs(t)
    BY <1>1 DEF Syncs
  <2> QED BY <1>1, <2>2, <2>3, SameFile
<1> QED BY <1>1, <1>2 DEF DiskGrows

LEMMA GrowsCreated ==
  ASSUME WalTypes, Framed, NEW s \in Nat \ {0}, NEW p \in Nat, s \notin Segments,
         disk' = WithSegment(s, NewFile(s, p))
  PROVE  DiskGrows
<1>1. /\ Segments' = Segments \cup {s} /\ disk'[s] = NewFile(s, p)
      /\ \A t \in Segments : disk'[t] = disk[t]
  BY NewFileOK, GrownDisk DEF WalTypes
<1>2. ASSUME NEW t \in Segments PROVE Carries(t) /\ Appends(t) /\ Syncs(t)
  <2>1. disk[t].durable \in Int /\ disk[t].mtime \in Nat
    BY FileFacts DEF WalTypes
  <2> QED BY <1>1, <2>1, SameFile DEF Syncs, WalTypes, Framed, WellFramed
<1>3. disk'[s].frames = <<>> /\ disk'[s].mtime = clock.now /\ disk'[s].durable = -1
  BY <1>1, NewFileOK DEF NewFile
<1> QED BY <1>1, <1>2, <1>3 DEF DiskGrows

\* A frame, or part of one, at the end of the current file.
LEMMA AppendedFile ==
  ASSUME FileTypes, NEW s \in Segments, NEW x, NEW f, NEW n \in Nat, n = clock.now,
         disk[s].mtime <= n,
         disk' = [disk EXCEPT ![s] = f], Extended(f, disk[s], x, n)
  PROVE  /\ Segments' = Segments /\ Carries(s)
         /\ disk'[s].frames = Append(disk[s].frames, x) /\ disk'[s].durable = disk[s].durable
         /\ disk'[s].mtime \in {disk[s].mtime, n}
         /\ \A t \in Segments : t # s => disk'[t] = disk[t]
<1>1. PICK old \in Files : old = disk[s]
  BY DEF FileTypes
<1>2. f.frames = Append(old.frames, x) /\ f.durable = old.durable /\ f.mtime \in {old.mtime, n}
  BY <1>1 DEF Extended, Files
<1>3. Segments' = Segments /\ disk'[s] = f /\ \A t \in Segments : t # s => disk'[t] = disk[t]
  BY DEF FileTypes, Segments
<1>4. old.frames \in Seq(Requests \cup {Torn}) /\ old.durable \in Int /\ old.mtime \in Nat
  BY <1>1 DEF Files
<1>5. Carries(s)
  <2>1. Len(f.frames) = Len(old.frames) + 1 /\ Len(old.frames) \in Nat
        /\ \A i \in 1..Len(old.frames) : f.frames[i] = old.frames[i]
    BY <1>2, <1>4
  <2>2. old.mtime <= f.mtime /\ f.mtime <= clock.now
    BY <1>1, <1>2, <1>4
  <2> QED BY <1>1, <1>2, <1>3, <1>4, <2>1, <2>2 DEF Carries
<1> QED BY <1>1, <1>2, <1>3, <1>5

LEMMA GrowsAppended ==
  ASSUME FileTypes, Framed, NEW x, NEW f, NEW n \in Nat, n = clock.now, mem.seg \in Segments,
         disk[mem.seg].mtime <= n,
         disk' = [disk EXCEPT ![mem.seg] = f], Extended(f, disk[mem.seg], x, n),
         disk'[mem.seg].frames = Append(disk[mem.seg].frames, x) => Appends(mem.seg)
  PROVE  DiskGrows
<1>1. PICK s \in Segments : s = mem.seg
  OBVIOUS
<1>2. /\ Segments' = Segments /\ Carries(s)
      /\ disk'[s].frames = Append(disk[s].frames, x) /\ disk'[s].durable = disk[s].durable
      /\ \A t \in Segments : t # s => disk'[t] = disk[t]
  BY <1>1, AppendedFile
<1>3. Appends(s) /\ Syncs(s)
  BY <1>1, <1>2 DEF Syncs
<1>4. ASSUME NEW t \in Segments, t # s PROVE Carries(t) /\ Appends(t) /\ Syncs(t)
  <2>1. disk[t].durable \in Int /\ disk[t].mtime \in Nat
    BY FileFacts
  <2> QED BY <1>2, <1>4, <2>1, SameFile DEF Syncs, Framed, WellFramed
<1> QED BY <1>2, <1>3, <1>4 DEF DiskGrows

\* Files disappear or are cut only by a crash, a loss, an unlink, or a start.
Reads == Recover \/ RotateMark \/ RotateCommit \/ StartCutShort
Loses == Crash \/ SweepUnlink \/ \E s \in 1..MaxSegments : LoseSegment(s)

LEMMA GrowingDisk ==
  ASSUME WalInv, Clean, Framed, [Next]_vars, ~Reads, ~Loses
  PROVE  DiskGrows
<1>0. WalTypes /\ FileTypes /\ ChainInv /\ clock.now \in Nat
  BY DEF WalInv, WalTypes, CallerTypes
<1>1. CASE disk' = disk
  BY <1>0, <1>1, GrowsSame
<1>2. Up => /\ mem.seg = assoc.head /\ mem.seg \in Segments /\ mem.seg \in Nat
            /\ disk[mem.seg].mtime <= clock.now /\ mem.phase = "up"
  BY <1>0, RunningFacts, ChainTypes DEF Up, Framed, WellFramed
<1>3. CASE AppendOne
  <2>1. PICK f : disk' = [disk EXCEPT ![mem.seg] = f]
                 /\ Extended(f, disk[mem.seg], Head(writer.left), clock.now)
    BY <1>3 DEF AppendOne, Extended
  <2>2. disk'[mem.seg].mtime = clock.now
    <3>1. disk[mem.seg] \in Files
      BY <1>0, <1>2, <1>3 DEF AppendOne, FileTypes
    <3> QED BY <1>0, <1>2, <1>3, <3>1 DEF AppendOne, FileTypes, Files, Segments
  <2>3. disk'[mem.seg].frames = Append(disk[mem.seg].frames, Head(writer.left)) => Appends(mem.seg)
    BY <1>3, <2>2 DEF Appends
  <2> QED BY <1>0, <1>2, <1>3, <2>1, <2>3, GrowsAppended DEF AppendOne
<1>4. CASE WriterError
  <2>1. CASE disk' = [disk EXCEPT ![mem.seg].frames = Append(@, Torn)]
    <3>1. PICK f : disk' = [disk EXCEPT ![mem.seg] = f]
                   /\ Extended(f, disk[mem.seg], Torn, clock.now)
      BY <2>1 DEF Extended
    <3>2. mem.phase = "up" /\ mem'.phase = "up" /\ mem'.fenced
      BY <1>0, <1>4 DEF WriterError, Up, WalTypes, StoreTypes
    <3>3. disk'[mem.seg].frames = Append(disk[mem.seg].frames, Torn) => Appends(mem.seg)
      BY <3>2 DEF Appends
    <3> QED BY <1>0, <1>2, <1>4, <3>1, <3>3, GrowsAppended DEF WriterError
  <2> QED BY <1>1, <1>4, <2>1 DEF WriterError
<1>5. CASE RollBegin
  BY <1>0, <1>1, <1>5, GrowsSynced DEF RollBegin
<1>6. ASSUME NEW s \in 1..MaxSegments, SyncFile(s) PROVE DiskGrows
  BY <1>0, <1>1, <1>6, GrowsSynced DEF SyncFile
<1>7. ASSUME NEW mode \in Modes, Open(mode) PROVE DiskGrows
  <2>1. PICK s : s = Max(Active)
    OBVIOUS
  <2>2. disk' = [disk EXCEPT ![s].durable = Len(disk[s].frames)] /\ mem.phase = "recovered"
    BY <1>7, <2>1 DEF Open
  <2> QED BY <1>0, <2>2, GrowsSynced
<1>8. CASE RollCreate
  <2>1. mem.seg + 1 \notin Segments /\ mem.seg + 1 \in Nat \ {0} /\ assoc.head \in Nat
    <3>1. writer.pc \notin {"header", "head"}
      BY <1>8 DEF RollCreate
    <3>2. mem.phase = "up"
      BY <1>8 DEF RollCreate, Up
    <3> QED BY <1>0, <3>1, <3>2, RunningFacts, ChainTypes
  <2>2. disk' = WithSegment(mem.seg + 1, NewFile(mem.seg + 1, assoc.head))
    BY <1>8 DEF RollCreate
  <2> QED BY <1>0, <2>1, <2>2, GrowsCreated
<1>9. CASE OpenCreate
  <2>1. Active = {} /\ disk' = WithSegment(1, NewFile(1, NoSegment)) /\ mem.phase = "recovered"
    BY <1>9 DEF OpenCreate
  <2>2. 1 \notin Segments
    <3>1. CASE assoc.anchor <= 1
      BY <1>0, <2>1, <3>1, ChainTypes
    <3>2. CASE assoc.anchor > 1
      <4>1. assoc.anchor \in Nat /\ assoc.head \in Nat
        BY <1>0, ChainTypes
      <4>2. assoc.head # NoSegment
        BY <1>0, <3>2, <4>1 DEF ChainInv, FilesKept, NoSegment
      <4>3. assoc.anchor \in Active
        BY <1>0, <2>1, <4>2 DEF ChainInv, Recovered, Chain
      <4> QED BY <2>1, <4>3
    <3> QED BY <1>0, <3>1, <3>2, ChainTypes
  <2> QED BY <1>0, <2>1, <2>2, GrowsCreated DEF NoSegment
<1>10. CASE RollSync
  <2>1. disk' = [disk EXCEPT ![mem.seg + 1].durable = 0] /\ Up
    BY <1>10 DEF RollSync
  <2>2. PICK s : s = mem.seg + 1
    OBVIOUS
  <2>3. /\ Segments' = Segments
        /\ s \in Segments => disk'[s].durable = 0
        /\ \A t \in Segments : disk'[t].frames = disk[t].frames /\ disk'[t].mtime = disk[t].mtime
        /\ \A t \in Segments : t # s => disk'[t] = disk[t]
    BY <1>0, <2>1, <2>2, SyncedHeader DEF SameHeaders
  <2>4. ASSUME NEW t \in Segments PROVE Carries(t) /\ Appends(t) /\ Syncs(t)
    <3>1. /\ disk[t].durable \in Int /\ disk[t].mtime \in Nat
          /\ disk[t].durable \in -1..Len(disk[t].frames)
      BY <1>0, FileFacts DEF FileOK
    <3>2. Syncs(t)
      BY <2>3 DEF Syncs
    <3>4. disk'[t].mtime <= clock.now
      BY <2>3 DEF Framed, WellFramed
    <3>3. disk[t].durable <= disk'[t].durable
      <4>1. CASE t # s
        BY <2>3, <3>1, <4>1
      <4>2. CASE t = s
        <5>1. t \in Active /\ t > assoc.head
          <6>1. s \in Nat /\ s > assoc.head /\ assoc.anchor <= assoc.head /\ assoc.anchor \in Nat
                /\ assoc.head \in Nat
            BY <1>0, <1>2, <2>1, <2>2, ChainTypes DEF ChainInv, FilesKept
          <6> QED BY <1>0, <4>2, <6>1, ChainTypes
        <5>2. disk[t].frames = <<>>
          BY <1>2, <2>1, <5>1 DEF Clean
        <5> QED BY <2>3, <3>1, <4>2, <5>2
      <4> QED BY <4>1, <4>2
    <3> QED BY <1>0, <2>3, <3>1, <3>2, <3>3, <3>4, SameFile
  <2> QED BY <2>3, <2>4 DEF DiskGrows
<1>11. CASE RewriteOne
  <2>1. /\ Min(mem.todo) \in mem.todo /\ Segments' = Segments
        /\ \A t \in Segments :
              /\ t # Min(mem.todo) => disk'[t] = disk[t]
              /\ disk'[t].frames = disk[t].frames /\ disk'[t].durable = disk[t].durable
    BY <1>0, <1>11, RewrittenFile DEF WalTypes
  <2>2. ASSUME NEW t \in Segments PROVE Carries(t) /\ Appends(t) /\ Syncs(t)
    <3>1. disk[t].durable \in Int /\ disk[t].mtime \in Nat /\ disk[t] \in Files
      BY <1>0, FileFacts DEF FileTypes
    <3>2. disk[t].mtime <= disk'[t].mtime /\ disk'[t].mtime <= clock.now
      <4>1. CASE t = Min(mem.todo)
        <5>1. disk'[t].mtime = clock.now
          BY <1>0, <1>11, <3>1, <4>1 DEF RewriteOne, FileTypes, Files, Segments
        <5> QED BY <1>0, <5>1 DEF Framed, WellFramed
      <4> QED BY <2>1, <3>1, <4>1 DEF Framed, WellFramed
    <3> QED BY <1>0, <2>1, <3>1, <3>2, SameFile DEF Syncs
  <2> QED BY <2>1, <2>2 DEF DiskGrows
<1>12. CASE StartStep
  BY <1>7, <1>9, <1>11, <1>12 DEF StartStep, Reads
<1>13. CASE WriterStep
  <2>1. (\E n \in 1..BatchMax : TakeBatch(n)) \/ RollHead \/ FinishBatch => disk' = disk
    BY DEF TakeBatch, RollHead, FinishBatch
  <2> QED BY <1>1, <1>3, <1>5, <1>8, <1>10, <1>13, <2>1 DEF WriterStep
<1>14. CASE FlushStep
  <2>1. (\E n \in 1..Cardinality(Requests) : TakeGroups(n)) \/ ApplyGroup \/ ReplyOne => disk' = disk
    BY DEF TakeGroups, ApplyGroup, ReplyOne
  <2> QED BY <1>1, <1>6, <1>14, <2>1 DEF FlushStep
<1>15. CASE \/ \E r \in Requests : Submit(r) \/ Lookup(r)
            \/ SweepBegin \/ SweepSegment \/ SyncError \/ FenceElsewhere \/ Tick \/ UNCHANGED vars
  <2>1. disk' = disk
    BY <1>15 DEF Submit, Lookup, SweepBegin, SweepSegment, SyncError, FenceElsewhere, Tick, vars
  <2> QED BY <1>1, <2>1
<1> QED BY <1>4, <1>12, <1>13, <1>14, <1>15 DEF Next, SweepStep, Loses, Reads

\* What a start reads: the readable part of every file from some segment on, which
\* is then synced.
Reading(from) ==
  /\ from \in Nat /\ Segments' = Segments
  /\ \A s \in Segments : s < from => disk'[s] = disk[s]
  /\ \A s \in Segments : s >= from =>
       /\ disk'[s].frames = Readable(disk[s].frames)
       /\ disk'[s].durable = Len(disk'[s].frames) /\ disk'[s].mtime = clock.now
  /\ \A s \in Segments : s >= assoc'.anchor <=> s >= from

LEMMA ReadingDisk ==
  ASSUME WalInv, Reads
  PROVE  \E from \in Nat :
           /\ Reading(from) /\ FileTypes'
           /\ Recover \/ RotateMark \/ StartCutShort => from = assoc.anchor
           /\ Recover \/ RotateCommit => mem'.index = RecoveredIndex(from)
           /\ RotateCommit => IF Active = {} THEN from = 0 ELSE from = Min(Active)
<1>0. /\ WalTypes /\ FileTypes /\ StoreTypes /\ CallerTypes /\ ChainInv /\ assoc.anchor \in Nat
      /\ Segments \in SUBSET Nat
  BY ChainTypes DEF WalInv, WalTypes
<1>1. ASSUME NEW from \in Nat, disk' = RecoveredDisk(from),
             \A s \in Segments : s >= assoc'.anchor <=> s >= from
      PROVE  Reading(from) /\ FileTypes'
  BY <1>0, <1>1, RecoveredFiles DEF Reading
<1>2. CASE Recover
  <2>1. disk' = RecoveredDisk(assoc.anchor) /\ mem'.index = RecoveredIndex(assoc.anchor)
    BY <1>0, <1>2 DEF Recover, StoreTypes
  <2>2. \A s \in Segments : s >= assoc'.anchor <=> s >= assoc.anchor
    <3>1. CASE assoc.head = NoSegment /\ Segments # {}
      <4>1. assoc'.anchor = Min(Segments) /\ assoc.anchor = 0
        BY <1>0, <1>2, <3>1 DEF Recover, StoreTypes, ChainInv, FilesKept, NoSegment
      <4> QED BY <1>0, <4>1, Least
    <3>2. CASE ~(assoc.head = NoSegment /\ Segments # {})
      <4>1. assoc'.anchor = assoc.anchor
        BY <1>0, <1>2, <3>2 DEF Recover, StoreTypes
      <4> QED BY <4>1
    <3> QED BY <3>1, <3>2
  <2>3. ~RotateMark /\ ~RotateCommit
    BY <1>2 DEF Recover, RotateMark, RotateCommit
  <2> QED BY <1>0, <1>1, <2>1, <2>2, <2>3
<1>3. CASE RotateMark
  <2>1. disk' = RecoveredDisk(assoc.anchor) /\ assoc'.anchor = assoc.anchor
    BY <1>0, <1>3 DEF RotateMark, StoreTypes
  <2>2. ~Recover /\ ~RotateCommit
    BY <1>3 DEF Recover, RotateMark, RotateCommit
  <2> QED BY <1>0, <1>1, <2>1, <2>2
<1>4. CASE RotateCommit
  <2>1. PICK from : from = IF Active = {} THEN NoSegment ELSE Min(Active)
    OBVIOUS
  <2>2. /\ disk' = RecoveredDisk(from) /\ assoc'.anchor = from
        /\ mem'.index = RecoveredIndex(from)
    BY <1>0, <1>4, <2>1 DEF RotateCommit, StoreTypes
  <2>3. from \in Nat
    BY <1>0, <2>1, ActiveSegments DEF NoSegment
  <2>4. ~Recover /\ ~RotateMark /\ ~StartCutShort
    BY <1>4 DEF Recover, RotateMark, RotateCommit, StartCutShort
  <2>5. IF Active = {} THEN from = 0 ELSE from = Min(Active)
    BY <2>1 DEF NoSegment
  <2> QED BY <1>1, <2>2, <2>3, <2>4, <2>5
<1>5. CASE StartCutShort
  <2>1. disk' = RecoveredDisk(assoc.anchor) /\ assoc'.anchor = assoc.anchor
    BY <1>5 DEF StartCutShort
  <2>2. ~Recover /\ ~RotateCommit
    BY <1>0, <1>5 DEF StartCutShort, Recover, RotateCommit, StoreTypes
  <2> QED BY <1>0, <1>1, <2>1, <2>2
<1> QED BY <1>2, <1>3, <1>4, <1>5 DEF Reads

\* A power loss cuts a file and may leave part of a frame at its end.
LEMMA RemainsFrames ==
  ASSUME NEW f, FileOK(f), NEW g \in Remains(f)
  PROVE  \A i \in 1..Len(g.frames) : g.frames[i] = Torn \/ (i \in 1..Len(f.frames) /\ g.frames[i] = f.frames[i])
<1>1. f \in Files /\ f.durable \in -1..Len(f.frames) /\ f.frames \in Seq(Requests \cup {Torn})
      /\ Len(f.frames) \in Nat
  BY DEF FileOK, Files
<1>2. CASE f.durable = -1
  <2>1. g.frames = f.frames
    BY <1>2, RemainsFacts
  <2> QED BY <1>1, <2>1
<1>3. CASE f.durable # -1
  <2>1. f.durable \in Nat
    BY <1>1, <1>3
  <2>2. ASSUME NEW n \in f.durable..Len(f.frames), g = [f EXCEPT !.frames = SubSeq(f.frames, 1, n)]
        PROVE  \A i \in 1..Len(g.frames) : i \in 1..Len(f.frames) /\ g.frames[i] = f.frames[i]
    <3>1. g.frames = SubSeq(f.frames, 1, n)
      BY <1>1, <2>2 DEF Files
    <3>2. n \in 0..Len(f.frames)
      BY <1>1, <2>1
    <3> QED BY <1>1, <3>1, <3>2
  <2>3. ASSUME NEW n \in f.durable..(Len(f.frames) - 1),
               g = [f EXCEPT !.frames = Append(SubSeq(f.frames, 1, n), Torn)]
        PROVE  \A i \in 1..Len(g.frames) : g.frames[i] = Torn \/ (i \in 1..Len(f.frames) /\ g.frames[i] = f.frames[i])
    <3>1. g.frames = Append(SubSeq(f.frames, 1, n), Torn)
      BY <1>1, <2>3 DEF Files
    <3>2. n \in 0..Len(f.frames) /\ n \in Nat
      BY <1>1, <2>1
    <3>3. PICK q \in Seq(Requests \cup {Torn}) :
             q = SubSeq(f.frames, 1, n) /\ Len(q) = n /\ \A i \in 1..n : q[i] = f.frames[i]
      <4>1. SubSeq(f.frames, 1, n) \in Seq(Requests \cup {Torn})
        BY <1>1, <3>2, SubSeqProperties
      <4>2. Len(SubSeq(f.frames, 1, n)) = n
        BY <1>1, <3>2, SubSeqProperties
      <4>3. \A i \in 1..n : SubSeq(f.frames, 1, n)[i] = f.frames[i]
        BY <1>1, <3>2, SubSeqProperties
      <4> QED BY <4>1, <4>2, <4>3
    <3>4. Len(g.frames) = n + 1 /\ \A i \in 1..n : g.frames[i] = q[i]
      <4>1. g.frames = Append(q, Torn)
        BY <3>1, <3>3
      <4>2. Len(q) = n
        BY <3>3
      <4> QED BY <3>2, <4>1, <4>2
    <3>5. ASSUME NEW i \in 1..(n + 1) PROVE i \in 1..n \/ i = n + 1
      BY <3>2
    <3>6. g.frames[n + 1] = Torn
      BY <3>1, <3>2, <3>3
    <3> QED BY <1>1, <3>2, <3>3, <3>4, <3>5, <3>6
  <2> QED BY <1>3, <2>2, <2>3 DEF Remains
<1> QED BY <1>2, <1>3

LEMMA CrashedFrames ==
  ASSUME FileTypes, Crash, NEW s \in Segments'
  PROVE  /\ s \in Segments
         /\ \A i \in 1..Len(disk'[s].frames) :
              \/ disk'[s].frames[i] = Torn
              \/ i \in 1..Len(disk[s].frames) /\ disk'[s].frames[i] = disk[s].frames[i]
<1>1. s \in Segments
  BY CrashedDisk
<1>2. PICK after : /\ \A t \in Segments : after[t] \in Remains(disk[t])
                   /\ disk' = [t \in {u \in Segments : after[u].header # "gone"} |-> after[t]]
  BY DEF Crash
<1>3. disk'[s] = after[s]
  BY <1>2 DEF Segments
<1>4. FileOK(disk[s])
  BY <1>1, FileFacts
<1> QED BY <1>1, <1>2, <1>3, <1>4, RemainsFrames

-----------------------------------------------------------------------------
(* The records in the files.                                               *)

LEMMA FramedFiles ==
  ASSUME WalTypes, FileTypes', CallersGo, Framed, \A s \in Segments' : WellFramed(disk'[s])
  PROVE  Framed'
<1>1. (\A r \in Requests : callers.reply[r] # "idle" => callers.accepted[r] <= clock.now)'
  BY AcceptedStep DEF Framed
<1>2. ASSUME NEW s \in Segments' PROVE WellFramed(disk[s])'
  <2>1. PICK f \in Files : f = disk'[s] /\ WellFramed(f)
    BY <1>2 DEF FileTypes
  <2>2. f.mtime \in Nat /\ f.frames \in Seq(Requests \cup {Torn}) /\ Len(f.frames) \in Nat
    BY DEF Files
  <2>3. f.mtime <= clock'.now
    <3>1. clock.now \in Nat /\ clock'.now \in Nat /\ clock.now <= clock'.now
      BY DEF WalTypes, CallerTypes, CallersGo
    <3> QED BY <2>1, <2>2, <3>1 DEF WellFramed
  <2>4. ASSUME NEW i \in 1..Len(f.frames), f.frames[i] # Torn
        PROVE  callers'.reply[f.frames[i]] # "idle" /\ callers'.accepted[f.frames[i]] <= f.mtime
    <3>1. f.frames[i] \in Requests
      BY <2>2, <2>4
    <3>2. callers.reply[f.frames[i]] # "idle" /\ callers.accepted[f.frames[i]] <= f.mtime
      BY <2>1, <2>4 DEF WellFramed
    <3> QED BY <3>1, <3>2 DEF CallersGo
  <2> QED BY <2>1, <2>3, <2>4 DEF WellFramed
<1> QED BY <1>1, <1>2 DEF Framed

\* The frames of g are among those of f, and g is not older.
LEMMA FewerFrames ==
  ASSUME NEW f \in Files, NEW g \in Files, WellFramed(f), f.mtime <= g.mtime, g.mtime <= clock.now,
         CallerTypes,
         \A i \in 1..Len(g.frames) : g.frames[i] = Torn
            \/ \E j \in 1..Len(f.frames) : g.frames[i] = f.frames[j]
  PROVE  WellFramed(g)
<1>1. f.mtime \in Nat /\ g.mtime \in Nat /\ f.frames \in Seq(Requests \cup {Torn})
  BY DEF Files
<1>2. ASSUME NEW i \in 1..Len(g.frames), g.frames[i] # Torn
      PROVE  callers.reply[g.frames[i]] # "idle" /\ callers.accepted[g.frames[i]] <= g.mtime
  <2>1. PICK j \in 1..Len(f.frames) : g.frames[i] = f.frames[j]
    BY <1>2
  <2>2. PICK r \in Requests : r = f.frames[j]
    BY <1>1, <1>2, <2>1
  <2>3. callers.reply[r] # "idle" /\ callers.accepted[r] <= f.mtime
    BY <1>2, <2>1, <2>2 DEF WellFramed
  <2>4. callers.accepted[r] \in Nat
    BY DEF CallerTypes
  <2> QED BY <1>1, <2>1, <2>2, <2>3, <2>4
<1> QED BY <1>2 DEF WellFramed

\* One frame more, of a request in progress.
LEMMA OneMoreFrame ==
  ASSUME NEW f \in Files, NEW g \in Files, WellFramed(f), f.mtime <= g.mtime, g.mtime <= clock.now,
         CallerTypes, NEW x, g.frames = Append(f.frames, x),
         x # Torn => x \in Requests /\ callers.reply[x] # "idle" /\ callers.accepted[x] <= g.mtime
  PROVE  WellFramed(g)
<1>1. f.mtime \in Nat /\ g.mtime \in Nat /\ f.frames \in Seq(Requests \cup {Torn})
  BY DEF Files
<1>2. PICK q : q = f.frames
  OBVIOUS
<1>3. q \in Seq(Requests \cup {Torn}) /\ g.frames = Append(q, x)
  BY <1>1, <1>2
<1>4. Len(q) \in Nat /\ Len(g.frames) = Len(q) + 1 /\ g.frames[Len(q) + 1] = x
      /\ \A i \in 1..Len(q) : g.frames[i] = q[i]
  BY <1>3
<1>5. ASSUME NEW i \in 1..Len(g.frames), g.frames[i] # Torn
      PROVE  callers.reply[g.frames[i]] # "idle" /\ callers.accepted[g.frames[i]] <= g.mtime
  <2>1. CASE i = Len(q) + 1
    BY <1>4, <1>5, <2>1
  <2>2. CASE i # Len(q) + 1
    <3>1. i \in 1..Len(q) /\ g.frames[i] = q[i]
      BY <1>4, <2>2
    <3>2. PICK r \in Requests : r = q[i]
      BY <1>3, <1>5, <3>1
    <3>3. callers.reply[r] # "idle" /\ callers.accepted[r] <= f.mtime
      BY <1>2, <1>5, <3>1, <3>2 DEF WellFramed
    <3>4. callers.accepted[r] \in Nat
      BY DEF CallerTypes
    <3> QED BY <1>1, <3>1, <3>2, <3>3, <3>4
  <2> QED BY <2>1, <2>2
<1> QED BY <1>5 DEF WellFramed

\* The record the writer appends is one of its batch, whose caller waits.
LEMMA AppendedRecord ==
  ASSUME WalTypes, Placed, Framed, AppendOne
  PROVE  /\ Head(writer.left) \in Requests /\ Head(writer.left) # Torn
         /\ Head(writer.left) \in ToSet(writer.left)
         /\ callers.reply[Head(writer.left)] = "pending"
         /\ callers.accepted[Head(writer.left)] <= clock.now
<1>1. PICK q \in Seq(Requests) : q = writer.left /\ q # <<>>
  BY DEF AppendOne, WalTypes, WriterTypes
<1>2. Head(q) \in Requests /\ Head(q) \in ToSet(q)
  BY <1>1 DEF ToSet
<1>3. Head(q) # Torn
  BY <1>2, WalAssumption DEF Torn
<1>4. Head(q) \in Flying /\ Up
  BY <1>1, <1>2 DEF Placed, Flying, Lanes, AppendOne
<1>5. callers.reply[Head(q)] = "pending"
  BY <1>4 DEF Placed
<1> QED BY <1>1, <1>2, <1>3, <1>5 DEF Framed

LEMMA FramedStep ==
  ASSUME WalInv, Placed, Framed, Clean, CallersGo, [Next]_vars
  PROVE  Framed'
<1>0. WalInv' /\ WalTypes /\ WalTypes' /\ FileTypes /\ FileTypes' /\ CallerTypes /\ clock.now \in Nat
  BY WalInvStep DEF WalInv, WalTypes, CallerTypes
<1>1. /\ \A s \in Segments : disk[s] \in Files /\ WellFramed(disk[s])
      /\ \A s \in Segments' : disk'[s] \in Files
  BY <1>0 DEF FileTypes, Framed
<1> SUFFICES ASSUME NEW s \in Segments' PROVE WellFramed(disk'[s])
  BY <1>0, FramedFiles
<1>2. CASE ~Reads /\ ~Loses
  <2>1. DiskGrows
    BY <1>2, GrowingDisk
  <2>2. CASE s \notin Segments
    <3>1. disk'[s].frames = <<>> /\ disk'[s].mtime = clock.now
      BY <2>1, <2>2 DEF DiskGrows
    <3> QED BY <1>0, <3>1 DEF WellFramed
  <2>3. CASE s \in Segments
    <3>1. PICK f \in Files, g \in Files : f = disk[s] /\ g = disk'[s] /\ WellFramed(f)
      BY <1>1, <2>3
    <3>2. Carries(s) /\ Appends(s)
      BY <2>1, <2>3 DEF DiskGrows
    <3>3. f.mtime <= g.mtime /\ g.mtime <= clock.now
      BY <3>1, <3>2 DEF Carries
    <3>4. CASE g.frames = f.frames
      BY <1>0, <3>1, <3>3, <3>4, FewerFrames
    <3>5. CASE g.frames = Append(f.frames, Torn)
      BY <1>0, <3>1, <3>3, <3>5, OneMoreFrame
    <3>6. CASE AppendOne /\ g.frames = Append(f.frames, Head(writer.left)) /\ g.mtime = clock.now
      <4>1. PICK x : x = Head(writer.left)
        OBVIOUS
      <4>2. x \in Requests /\ callers.reply[x] # "idle" /\ callers.accepted[x] <= g.mtime
        BY <1>0, <3>6, <4>1, AppendedRecord
      <4> QED BY <1>0, <3>1, <3>3, <3>6, <4>1, <4>2, OneMoreFrame
    <3> QED BY <3>1, <3>2, <3>4, <3>5, <3>6 DEF Appends
  <2> QED BY <2>2, <2>3
<1>3. CASE Reads
  <2>1. PICK from \in Nat : Reading(from)
    BY <1>3, ReadingDisk
  <2>2. s \in Segments /\ s \in Nat
    BY <1>0, <2>1, FileFacts DEF Reading
  <2>3. PICK f \in Files, g \in Files : f = disk[s] /\ g = disk'[s] /\ WellFramed(f)
    BY <1>1, <2>2
  <2>4. CASE s < from
    BY <2>1, <2>2, <2>3, <2>4 DEF Reading
  <2>5. CASE s >= from
    <3>1. g.frames = Readable(f.frames) /\ g.mtime = clock.now
      BY <2>1, <2>2, <2>3, <2>5 DEF Reading
    <3>2. f.frames \in Seq(Requests \cup {Torn}) /\ f.mtime <= clock.now /\ Len(f.frames) \in Nat
      BY <2>3 DEF Files, WellFramed
    <3>3. \A i \in 1..Len(g.frames) : i \in 1..Len(f.frames) /\ g.frames[i] = f.frames[i]
      BY <3>1, <3>2, ReadableFrames
    <3>4. \A i \in 1..Len(g.frames) : \E j \in 1..Len(f.frames) : g.frames[i] = f.frames[j]
      BY <3>3
    <3>5. CallerTypes /\ f.mtime <= g.mtime /\ g.mtime <= clock.now
      BY <1>0, <3>1, <3>2 DEF WalTypes, CallerTypes
    <3>6. WellFramed(g)
      BY <2>3, <3>4, <3>5, FewerFrames
    <3> QED BY <2>3, <3>6
  <2> QED BY <2>2, <2>4, <2>5
<1>4. CASE Crash
  <2>1. /\ s \in Segments
        /\ \A i \in 1..Len(disk'[s].frames) :
              \/ disk'[s].frames[i] = Torn
              \/ i \in 1..Len(disk[s].frames) /\ disk'[s].frames[i] = disk[s].frames[i]
    BY <1>0, <1>4, CrashedFrames
  <2>2. disk'[s].mtime = disk[s].mtime
    BY <1>0, <1>4, CrashedDisk
  <2>3. PICK f \in Files, g \in Files : f = disk[s] /\ g = disk'[s] /\ WellFramed(f)
    BY <1>1, <2>1
  <2>4. f.mtime <= g.mtime /\ g.mtime <= clock.now
    BY <2>2, <2>3 DEF WellFramed, Files
  <2> QED BY <1>0, <2>1, <2>3, <2>4, FewerFrames
<1>5. CASE SweepUnlink \/ \E t \in 1..MaxSegments : LoseSegment(t)
  <2>1. \E t : disk' = WithoutSegment(t)
    BY <1>5 DEF SweepUnlink, LoseSegment
  <2>2. s \in Segments /\ disk'[s] = disk[s]
    BY <1>0, <2>1, ShrunkDisk
  <2> QED BY <1>1, <2>2
<1> QED BY <1>2, <1>3, <1>4, <1>5 DEF Loses

-----------------------------------------------------------------------------
(* The association row and the phase of the process.                       *)

Opens == \E mode \in Modes : Open(mode)

\* Outside a start and a crash the chain only moves up, and the phase stays.
RowGrows ==
  /\ mem'.phase = mem.phase /\ mem'.mode = mem.mode /\ (mem.fenced => mem'.fenced)
  /\ assoc'.inc = assoc.inc /\ assoc'.pending = assoc.pending
  /\ assoc.anchor <= assoc'.anchor /\ assoc.head <= assoc'.head
  /\ assoc'.anchor # assoc.anchor => SweepSegment
  /\ assoc'.head # assoc.head => mem.phase = "up"
  /\ served' = served

LEMMA RowStep ==
  ASSUME WalInv, [Next]_vars, ~Reads, ~Crash, ~Opens
  PROVE  RowGrows
<1>0. /\ WalTypes /\ ChainInv /\ StoreTypes /\ assoc.anchor \in Nat /\ assoc.head \in Nat
      /\ Segments \in SUBSET Nat
  BY ChainTypes DEF WalInv, WalTypes
<1>1. CASE assoc' = assoc /\ mem' = mem /\ served' = served
  BY <1>0, <1>1 DEF RowGrows
<1>2. CASE /\ assoc' = assoc /\ served' = served
           /\ mem'.phase = mem.phase /\ mem'.mode = mem.mode /\ (mem.fenced => mem'.fenced)
  BY <1>0, <1>2 DEF RowGrows
<1>3. CASE RollHead
  <2>1. /\ assoc'.head = assoc.head + 1 /\ assoc'.anchor = assoc.anchor /\ assoc'.inc = assoc.inc
        /\ assoc'.pending = assoc.pending /\ served' = served /\ mem.phase = "up"
        /\ mem'.phase = mem.phase /\ mem'.mode = mem.mode /\ mem'.fenced = mem.fenced
    <3>1. mem.seg = assoc.head /\ mem.phase = "up"
      BY <1>0, <1>3, RunningFacts DEF RollHead, Up
    <3> QED BY <1>0, <1>3, <3>1 DEF RollHead, StoreTypes
  <2> QED BY <1>0, <2>1 DEF RowGrows
<1>4. CASE SweepSegment
  <2>1. CASE assoc' = assoc
    BY <1>1, <1>4, <2>1 DEF SweepSegment
  <2>2. PICK s : s = Min(sweep.ids)
    OBVIOUS
  <2>3. CASE assoc' = [assoc EXCEPT !.anchor = Min({t \in Segments : t > s})] /\ ~(s < assoc.anchor)
             /\ Retirable(s)
    <3>1. s \in Nat /\ s = assoc.anchor /\ s < assoc.head
      <4>1. sweep.ids \in SUBSET Nat /\ sweep.ids # {}
        BY <1>0, <1>4 DEF WalTypes, SweepTypes, SweepSegment
      <4>2. s \in Nat
        BY <2>2, <4>1, Least
      <4> QED BY <1>0, <2>3, <4>2 DEF Retirable
    <3>2. PICK T : T = {t \in Segments : t > s}
      OBVIOUS
    <3>3. assoc.head \in T /\ T \in SUBSET Nat
      BY <1>0, <1>4, <3>1, <3>2, RunningFacts DEF SweepSegment, Up
    <3>4. Min(T) \in T
      BY <3>3, Least
    <3>5. Min(T) \in Nat /\ Min(T) > s
      BY <3>2, <3>3, <3>4
    <3>6. /\ assoc'.anchor = Min(T) /\ assoc'.head = assoc.head /\ assoc'.inc = assoc.inc
          /\ assoc'.pending = assoc.pending /\ mem' = mem /\ served' = served
      BY <1>0, <1>4, <2>3, <3>2 DEF SweepSegment, StoreTypes
    <3> QED BY <1>0, <1>4, <3>1, <3>5, <3>6 DEF RowGrows
  <2> QED BY <1>4, <2>1, <2>2, <2>3 DEF SweepSegment
<1>5. CASE ApplyGroup \/ SweepBegin \/ WriterError \/ SyncError \/ FenceElsewhere \/ RewriteOne
  <2>1. /\ assoc' = assoc /\ served' = served
        /\ mem'.phase = mem.phase /\ mem'.mode = mem.mode /\ (mem.fenced => mem'.fenced)
    BY <1>0, <1>5 DEF ApplyGroup, SweepBegin, WriterError, SyncError, FenceElsewhere, RewriteOne,
                      StoreTypes
  <2> QED BY <1>2, <2>1
<1>6. CASE \/ \E r \in Requests : Submit(r) \/ Lookup(r)
           \/ SweepUnlink \/ OpenCreate \/ Tick \/ UNCHANGED vars
           \/ \E s \in 1..MaxSegments : LoseSegment(s)
  <2>1. assoc' = assoc /\ mem' = mem /\ served' = served
    BY <1>6 DEF Submit, Lookup, SweepUnlink, OpenCreate, Tick, LoseSegment, vars
  <2> QED BY <1>1, <2>1
<1>7. CASE WriterStep
  <2>1. RollHead \/ (assoc' = assoc /\ mem' = mem /\ served' = served)
    BY <1>7 DEF WriterStep, TakeBatch, AppendOne, RollBegin, RollCreate, RollSync, FinishBatch
  <2> QED BY <1>1, <1>3, <2>1
<1>8. CASE FlushStep
  <2>1. ApplyGroup \/ (assoc' = assoc /\ mem' = mem /\ served' = served)
    BY <1>8 DEF FlushStep, TakeGroups, SyncFile, ReplyOne
  <2> QED BY <1>1, <1>5, <2>1
<1>9. CASE StartStep
  BY <1>5, <1>6, <1>9 DEF StartStep, Reads, Opens
<1> QED BY <1>4, <1>5, <1>6, <1>7, <1>8, <1>9 DEF Next, SweepStep, Reads

LEMMA OpenRow ==
  ASSUME WalInv, Opens
  PROVE  /\ mem.phase = "recovered" /\ mem'.phase = "up" /\ mem'.fenced = mem.fenced
         /\ mem'.index = mem.index
         /\ assoc'.head \in Active /\ assoc'.head \in Nat \ {0} /\ \A s \in Active : s <= assoc'.head
         /\ IF assoc.head = NoSegment THEN assoc'.anchor = assoc'.head /\ assoc.anchor = 0
                                      ELSE assoc'.anchor = assoc.anchor
         /\ assoc.anchor <= assoc'.anchor /\ assoc'.anchor <= assoc'.head
         /\ assoc'.inc = assoc.inc /\ served' = assoc.inc
         /\ owed' = IF assoc.inc > served THEN owed \cap mem.index ELSE owed
         /\ UNCHANGED <<writer, queue, fsyncQ, flush, sweep, callers, clock>>
<1>0. /\ WalTypes /\ FileTypes /\ ChainInv /\ StoreTypes /\ assoc.anchor \in Nat /\ assoc.head \in Nat
      /\ Active = {s \in Segments : s >= assoc.anchor} /\ \A s \in Segments : s > 0
  BY ChainTypes DEF WalInv, WalTypes
<1>1. PICK mode \in Modes : Open(mode)
  BY DEF Opens
<1>2. PICK s : s = Max(Active)
  OBVIOUS
<1>3. /\ mem.phase = "recovered" /\ Active # {}
      /\ assoc' = [assoc EXCEPT !.head = s, !.anchor = IF assoc.head = NoSegment THEN s ELSE @]
      /\ mem' = [mem EXCEPT !.phase = "up", !.seg = s, !.mode = mode]
      /\ owed' = IF assoc.inc > served THEN owed \cap mem.index ELSE owed
      /\ served' = assoc.inc
      /\ UNCHANGED <<writer, queue, fsyncQ, flush, sweep, callers, clock>>
  BY <1>1, <1>2 DEF Open
<1>4. /\ s \in Active /\ s \in Nat /\ \A t \in Active : t <= s
  BY <1>0, <1>2, <1>3, ActiveSegments, Greatest
<1>5. /\ mem'.phase = "up" /\ mem'.fenced = mem.fenced /\ mem'.index = mem.index
      /\ assoc'.head = s /\ assoc'.inc = assoc.inc
      /\ assoc'.anchor = IF assoc.head = NoSegment THEN s ELSE assoc.anchor
  BY <1>0, <1>3 DEF StoreTypes
<1>6. assoc.head = NoSegment => assoc.anchor = 0
  BY <1>0 DEF ChainInv, FilesKept, NoSegment
<1>7. assoc.anchor <= s /\ s > 0
  BY <1>0, <1>4
<1> QED BY <1>0, <1>3, <1>4, <1>5, <1>6, <1>7

-----------------------------------------------------------------------------
(* Torn frames, and segments that are no longer needed.                    *)

CleanFile(f) == \A i \in 1..Len(f.frames) : f.frames[i] # Torn

\* A step that keeps the files keeps a clean one clean, or an error is recorded.
LEMMA CleanGrowth ==
  ASSUME WalTypes, Placed, Framed, DiskGrows, NEW s \in Segments, CleanFile(disk[s])
  PROVE  CleanFile(disk'[s]) \/ (mem'.phase = "up" /\ mem'.fenced)
<1>1. PICK q, r : q = disk[s].frames /\ r = Head(writer.left)
  OBVIOUS
<1>2. q \in Seq(Requests \cup {Torn}) /\ Len(q) \in Nat /\ \A i \in 1..Len(q) : q[i] # Torn
  BY <1>1, FileFacts DEF WalTypes, CleanFile
<1>3. Appends(s)
  BY DEF DiskGrows
<1>4. CASE disk'[s].frames = q
  BY <1>1, <1>2, <1>4 DEF CleanFile
<1>5. CASE disk'[s].frames = Append(q, r) /\ AppendOne
  <2>1. r # Torn
    BY <1>1, <1>5, AppendedRecord
  <2>2. /\ Len(Append(q, r)) = Len(q) + 1 /\ Append(q, r)[Len(q) + 1] = r
        /\ \A i \in 1..Len(q) : Append(q, r)[i] = q[i]
    BY <1>2
  <2>3. \A i \in 1..(Len(q) + 1) : i \in 1..Len(q) \/ i = Len(q) + 1
    BY <1>2
  <2> QED BY <1>2, <1>5, <2>1, <2>2, <2>3 DEF CleanFile
<1> QED BY <1>1, <1>3, <1>4, <1>5 DEF Appends

LEMMA CleanStep ==
  ASSUME WalInv, Placed, Framed, Clean, [Next]_vars
  PROVE  Clean'
<1>0. /\ WalTypes /\ FileTypes /\ FileTypes' /\ ChainInv /\ assoc.anchor \in Nat /\ assoc.head \in Nat
      /\ Segments \in SUBSET Nat /\ Segments' \in SUBSET Nat /\ assoc'.anchor \in Nat /\ assoc'.head \in Nat
      /\ Active = {s \in Segments : s >= assoc.anchor} /\ Active' = {s \in Segments' : s >= assoc'.anchor}
  <2>1. WalTypes /\ WalTypes' /\ ChainInv
    BY WalInvStep DEF WalInv
  <2>2. Active = {s \in Segments : s >= assoc.anchor} /\ Active' = {s \in Segments' : s >= assoc'.anchor}
    BY DEF Active, AtOrAbove
  <2> QED BY <2>1, <2>2 DEF WalTypes, FileTypes, StoreTypes
<1> SUFFICES ASSUME NEW s \in Active'
             PROVE  /\ \A i \in 1..disk'[s].durable : disk'[s].frames[i] # Torn
                    /\ Up' \/ mem'.phase \in {"rewriting", "recovered"} => CleanFile(disk'[s])
                    /\ mem'.phase = "up" /\ s > assoc'.head => disk'[s].frames = <<>>
  BY DEF Clean, CleanFile
<1>1. s \in Segments' /\ s \in Nat /\ s >= assoc'.anchor
  BY <1>0
<1>2. CASE ~Reads /\ ~Loses
  <2>1. DiskGrows
    BY <1>2, GrowingDisk
  <2>2. CASE s \notin Segments
    <3>1. disk'[s].frames = <<>> /\ disk'[s].durable = -1
      BY <1>1, <2>1, <2>2 DEF DiskGrows
    <3> QED BY <3>1 DEF CleanFile
  <2>3. CASE s \in Segments
    <3>1. /\ assoc.anchor <= assoc'.anchor
          /\ \/ /\ mem'.phase = mem.phase /\ assoc.head <= assoc'.head
                /\ mem.fenced => mem'.fenced
             \/ /\ mem.phase = "recovered" /\ mem'.phase = "up"
                /\ s \in Active => s <= assoc'.head
      BY <1>2, RowStep, OpenRow DEF RowGrows, Loses
    <3>2. s \in Active
      BY <1>0, <1>1, <2>3, <3>1
    <3>3. PICK q : q = disk[s].frames
      OBVIOUS
    <3>4. /\ q \in Seq(Requests \cup {Torn}) /\ Len(q) \in Nat /\ disk[s].durable \in -1..Len(q)
          /\ disk[s].durable \in Int
      BY <1>0, <2>3, <3>3, FileFacts DEF FileOK
    <3>5. Carries(s) /\ Appends(s) /\ Syncs(s)
      BY <2>1, <2>3 DEF DiskGrows
    <3>6. \A i \in 1..disk[s].durable : q[i] # Torn
      BY <3>2, <3>3 DEF Clean
    <3>7. Up \/ mem.phase \in {"rewriting", "recovered"} => CleanFile(disk[s])
      BY <3>2 DEF Clean, CleanFile
    <3>8. ASSUME NEW i \in 1..disk'[s].durable PROVE disk'[s].frames[i] # Torn
      <4>1. CASE disk'[s].durable = disk[s].durable
        <5>1. i \in 1..disk[s].durable /\ i \in 1..Len(q)
          BY <3>4, <3>8, <4>1
        <5>2. disk'[s].frames[i] = q[i]
          BY <3>3, <3>5, <5>1 DEF Carries
        <5> QED BY <3>6, <5>1, <5>2
      <4>2. CASE disk'[s].durable = Len(q) /\ disk'[s].frames = q /\ (Up \/ mem.phase = "recovered")
        BY <3>3, <3>4, <3>7, <4>2 DEF CleanFile
      <4> QED BY <3>3, <3>5, <4>1, <4>2 DEF Syncs
    <3>9. ASSUME Up' \/ mem'.phase \in {"rewriting", "recovered"} PROVE CleanFile(disk'[s])
      <4>1. Up \/ mem.phase \in {"rewriting", "recovered"}
        BY <3>1, <3>9 DEF Up
      <4>2. ~(mem'.phase = "up" /\ mem'.fenced)
        BY <3>9 DEF Up
      <4> QED BY <1>0, <2>1, <2>3, <3>7, <4>1, <4>2, CleanGrowth
    <3>10. ASSUME mem'.phase = "up", s > assoc'.head PROVE disk'[s].frames = <<>>
      <4>1. mem.phase = "up" /\ s > assoc.head
        BY <1>0, <1>1, <3>1, <3>2, <3>10
      <4>2. q = <<>> /\ s # mem.seg
        BY <1>0, <3>2, <3>3, <4>1, RunningFacts DEF Clean
      <4> QED BY <3>3, <3>5, <4>2 DEF Appends
    <3> QED BY <3>8, <3>9, <3>10
  <2> QED BY <2>2, <2>3
<1>3. CASE Reads
  <2>1. PICK from \in Nat : Reading(from)
    BY <1>3, ReadingDisk
  <2>2. s \in Segments /\ s >= from
    BY <1>1, <2>1 DEF Reading
  <2>3. PICK q \in Seq(Requests \cup {Torn}) : q = disk[s].frames
    BY <1>0, <2>2, FileFacts
  <2>4. disk'[s].frames = Readable(q) /\ disk'[s].durable = Len(Readable(q))
    BY <2>1, <2>2, <2>3 DEF Reading
  <2>5. \A i \in 1..Len(Readable(q)) : Readable(q)[i] # Torn
    BY ReadableFrames
  <2>6. mem'.phase # "up"
    <3>1. mem \in [phase : {"down", "rewriting", "recovered", "up"}, mode : Modes, fenced : BOOLEAN,
                   seg : Nat, index : SUBSET Requests, todo : SUBSET Nat]
      BY <1>0 DEF WalTypes, StoreTypes
    <3> QED BY <1>3, <3>1 DEF Reads, Recover, RotateMark, RotateCommit, StartCutShort
  <2> QED BY <2>4, <2>5, <2>6 DEF CleanFile
<1>4. CASE Crash
  <2>1. assoc' = assoc /\ mem'.phase = "down"
    BY <1>0, <1>4, CrashTypes
  <2>2. /\ s \in Segments /\ disk'[s].durable = disk[s].durable
        /\ \A i \in 1..disk[s].durable : disk'[s].frames[i] = disk[s].frames[i]
    BY <1>0, <1>1, <1>4, CrashedDisk
  <2>3. s \in Active
    BY <1>0, <1>1, <2>1, <2>2
  <2> QED BY <2>1, <2>2, <2>3 DEF Clean, Up
<1>5. CASE SweepUnlink \/ \E t \in 1..MaxSegments : LoseSegment(t)
  <2>1. (\E t : disk' = WithoutSegment(t)) /\ assoc' = assoc /\ mem' = mem
    BY <1>5 DEF SweepUnlink, LoseSegment
  <2>2. s \in Segments /\ disk'[s] = disk[s]
    BY <1>0, <1>1, <2>1, ShrunkDisk
  <2>3. s \in Active
    BY <1>0, <1>1, <2>1, <2>2
  <2> QED BY <2>1, <2>2, <2>3 DEF Clean, Up, CleanFile
<1> QED BY <1>2, <1>3, <1>4, <1>5 DEF Loses

LEMMA SpentStep ==
  ASSUME FileTypes, FileTypes', CallersGo, NEW s \in Segments, s \in Segments', Spent(s),
         \A i \in 1..Len(disk'[s].frames) : disk'[s].frames[i] = Torn
            \/ \E j \in 1..Len(disk[s].frames) : disk'[s].frames[i] = disk[s].frames[j]
  PROVE  Spent(s)'
<1> SUFFICES ASSUME NEW i \in 1..Len(disk'[s].frames), disk'[s].frames[i] # Torn
             PROVE  Due(disk[s].frames[i])'
  BY DEF Spent
<1>1. PICK j \in 1..Len(disk[s].frames) : disk'[s].frames[i] = disk[s].frames[j]
  OBVIOUS
<1>2. PICK r : r = disk[s].frames[j]
  OBVIOUS
<1>3. r \in Requests
  <2>1. disk[s].frames \in Seq(Requests \cup {Torn})
    BY FileFacts
  <2> QED BY <1>1, <1>2, <2>1
<1>4. Due(r)
  BY <1>1, <1>2 DEF Spent
<1>5. Due(r)'
  BY <1>3, <1>4 DEF CallersGo
<1> QED BY <1>1, <1>2, <1>5 DEF Due

\* A segment that was not written for RetireAfter holds nothing but due records.
LEMMA StaleSpent ==
  ASSUME WalTypes, Framed, NEW s \in Segments, Stale(s)
  PROVE  Spent(s)
<1> SUFFICES ASSUME NEW i \in 1..Len(disk[s].frames), disk[s].frames[i] # Torn
             PROVE  Due(disk[s].frames[i])
  BY DEF Spent
<1>1. PICK r : r = disk[s].frames[i]
  OBVIOUS
<1>2. r \in Requests
  <2>1. disk[s].frames \in Seq(Requests \cup {Torn})
    BY FileFacts DEF WalTypes
  <2> QED BY <1>1, <2>1
<1>3. callers.reply[r] # "idle" /\ callers.accepted[r] <= disk[s].mtime
  BY <1>1 DEF Framed, WellFramed
<1>4. PICK a \in Nat, m \in Nat, n \in Nat : a = callers.accepted[r] /\ m = disk[s].mtime /\ n = clock.now
  BY <1>2, FileFacts DEF WalTypes, CallerTypes
<1>5. n - m > RetireAfter /\ a <= m
  BY <1>3, <1>4 DEF Stale
<1>6. a + Ttl < n
  <2>1. Ttl \in Nat /\ RetireAfter \in Nat /\ RetireAfter >= Ttl
    BY WalAssumption
  <2> QED BY <1>5, <2>1
<1> QED BY <1>1, <1>3, <1>4, <1>6 DEF Due

\* What the anchor moves past is spent.
LEMMA PassedSpent ==
  ASSUME WalInv, Framed, Retired, [Next]_vars, ~Reads, ~Crash, NEW s \in Segments, s < assoc'.anchor
  PROVE  Spent(s)
<1>0. /\ WalTypes /\ ChainInv /\ assoc.anchor \in Nat /\ assoc.head \in Nat /\ Segments \in SUBSET Nat
      /\ StoreTypes
  BY ChainTypes DEF WalInv, WalTypes
<1>1. CASE s < assoc.anchor
  BY <1>1 DEF Retired
<1>2. CASE Opens /\ s >= assoc.anchor
  <2>1. mem.phase = "recovered" /\ (assoc.head = NoSegment \/ assoc'.anchor = assoc.anchor)
    BY <1>2, OpenRow
  <2>2. assoc.head = NoSegment
    BY <1>0, <1>2, <2>1
  <2> QED BY <2>1, <2>2 DEF Retired
<1>3. CASE ~Opens /\ s >= assoc.anchor
  <2>1. SweepSegment /\ assoc'.anchor # assoc.anchor
    BY <1>0, <1>3, RowStep DEF RowGrows
  <2>2. PICK m : m = Min(sweep.ids)
    OBVIOUS
  <2>3. /\ Stale(m) /\ Retirable(m) /\ ~(m < assoc.anchor)
        /\ assoc' = [assoc EXCEPT !.anchor = Min({t \in Segments : t > m})]
    BY <2>1, <2>2 DEF SweepSegment
  <2>4. m = assoc.anchor /\ m < assoc.head
    <3>1. sweep.ids \in SUBSET Nat /\ sweep.ids # {}
      BY <1>0, <2>1 DEF WalTypes, SweepTypes, SweepSegment
    <3>2. m \in Nat
      BY <2>2, <3>1, Least
    <3> QED BY <1>0, <2>3, <3>2 DEF Retirable
  <2>5. PICK T : T = {t \in Segments : t > m}
    OBVIOUS
  <2>6. assoc.head \in T /\ T \in SUBSET Nat /\ m \in Segments
    BY <1>0, <2>1, <2>4, <2>5, RunningFacts DEF SweepSegment, Up
  <2>7. assoc'.anchor = Min(T)
    BY <1>0, <2>3, <2>5 DEF StoreTypes
  <2>8. s \notin T
    BY <2>6, <2>7, <1>0, Least
  <2>9. s = m
    BY <1>0, <1>3, <2>4, <2>5, <2>8
  <2> QED BY <1>0, <2>3, <2>6, <2>9, StaleSpent
<1> QED BY <1>0, <1>1, <1>2, <1>3

LEMMA RetiredStep ==
  ASSUME WalInv, Placed, Framed, Clean, Retired, CallersGo, [Next]_vars
  PROVE  Retired'
<1>0. /\ WalTypes /\ FileTypes /\ FileTypes' /\ ChainInv /\ assoc.anchor \in Nat /\ assoc.head \in Nat
      /\ Segments \in SUBSET Nat /\ Segments' \in SUBSET Nat /\ assoc'.anchor \in Nat /\ assoc'.head \in Nat
      /\ Active = {s \in Segments : s >= assoc.anchor} /\ StoreTypes
  <2>1. WalTypes /\ WalTypes' /\ ChainInv
    BY WalInvStep DEF WalInv
  <2>2. Active = {s \in Segments : s >= assoc.anchor}
    BY DEF Active, AtOrAbove
  <2> QED BY <2>1, <2>2 DEF WalTypes, FileTypes, StoreTypes
<1> SUFFICES ASSUME NEW s \in Segments',
                    s < assoc'.anchor \/ (mem'.phase = "recovered" /\ assoc'.head = NoSegment)
             PROVE  Spent(s)'
  BY DEF Retired
<1>1. CASE ~Reads /\ ~Crash
  <2>1. s \in Segments => Spent(s)
    <3>1. CASE s < assoc'.anchor
      BY <1>1, <3>1, PassedSpent
    <3>2. CASE mem'.phase = "recovered" /\ assoc'.head = NoSegment
      <4>1. mem.phase = "recovered" /\ assoc.head = NoSegment
        <5>1. ~Opens
          BY <3>2, OpenRow
        <5>2. RowGrows
          BY <1>1, <5>1, RowStep
        <5> QED BY <1>0, <3>2, <5>2 DEF RowGrows, NoSegment
      <4> QED BY <4>1 DEF Retired
    <3> QED BY <3>1, <3>2
  <2>2. CASE Loses
    <3>1. \E t : disk' = WithoutSegment(t)
      BY <1>1, <2>2 DEF Loses, SweepUnlink, LoseSegment
    <3>2. s \in Segments /\ disk'[s] = disk[s]
      BY <1>0, <3>1, ShrunkDisk
    <3> QED BY <1>0, <2>1, <3>2, SpentStep
  <2>3. CASE ~Loses
    <3>1. DiskGrows
      BY <1>1, <2>3, GrowingDisk
    <3>2. CASE s \notin Segments
      <4>1. disk'[s].frames = <<>>
        BY <3>1, <3>2 DEF DiskGrows
      <4> QED BY <4>1 DEF Spent
    <3>3. CASE s \in Segments
      <4>1. disk'[s].frames = disk[s].frames
        <5>1. CASE mem.phase = "up"
          <6>1. mem.seg = assoc.head /\ assoc.anchor <= assoc.head /\ assoc.anchor \in Segments
            BY <1>0, <5>1, RunningFacts
          <6>2. s # mem.seg
            <7>1. ~Opens
              BY <5>1, OpenRow
            <7>2. mem'.phase = "up" /\ RowGrows
              BY <1>1, <5>1, <7>1, RowStep DEF RowGrows
            <7>3. s < assoc'.anchor
              BY <7>2
            <7>4. assoc'.anchor <= assoc'.head /\ (assoc'.anchor # assoc.anchor => assoc'.head = assoc.head)
              <8>1. assoc'.anchor <= assoc'.head
                BY WalInvStep DEF WalInv, ChainInv, FilesKept
              <8>2. assoc'.anchor # assoc.anchor => SweepSegment
                BY <7>2 DEF RowGrows
              <8>3. SweepSegment => assoc'.head = assoc.head
                BY <1>0 DEF SweepSegment, StoreTypes
              <8> QED BY <8>1, <8>2, <8>3
            <7> QED BY <1>0, <6>1, <7>3, <7>4
          <6> QED BY <3>1, <3>3, <6>2 DEF DiskGrows, Appends
        <5>2. CASE mem.phase # "up"
          BY <3>1, <3>3, <5>2 DEF DiskGrows, Appends, AppendOne, Up
        <5> QED BY <5>1, <5>2
      <4>2. Len(disk[s].frames) \in Nat
        BY <1>0, <3>3, FileFacts
      <4> QED BY <1>0, <2>1, <3>3, <4>1, <4>2, SpentStep
    <3> QED BY <3>2, <3>3
  <2> QED BY <2>2, <2>3
<1>2. CASE Crash
  <2>1. assoc' = assoc /\ mem'.phase = "down"
    BY <1>0, <1>2, CrashTypes
  <2>2. /\ s \in Segments
        /\ \A i \in 1..Len(disk'[s].frames) :
              \/ disk'[s].frames[i] = Torn
              \/ i \in 1..Len(disk[s].frames) /\ disk'[s].frames[i] = disk[s].frames[i]
    BY <1>0, <1>2, CrashedFrames
  <2>3. Spent(s)
    BY <2>1, <2>2 DEF Retired
  <2> QED BY <1>0, <2>2, <2>3, SpentStep
<1>3. CASE Reads
  <2>1. PICK from \in Nat :
           /\ Reading(from)
           /\ Recover \/ RotateMark \/ StartCutShort => from = assoc.anchor
           /\ RotateCommit => IF Active = {} THEN from = 0 ELSE from = Min(Active)
    BY <1>3, ReadingDisk
  <2>2. s \in Segments /\ s \in Nat
    BY <1>0, <2>1 DEF Reading
  <2>3. Spent(s)
    <3>1. CASE s < assoc'.anchor
      <4>1. s < from
        BY <1>0, <2>1, <2>2, <3>1 DEF Reading
      <4>2. s < assoc.anchor
        <5>1. CASE RotateCommit
          <6>1. Active # {} /\ from = Min(Active)
            BY <2>1, <2>2, <4>1, <5>1
          <6>2. \A t \in Active : from <= t
            BY <1>0, <6>1, Least
          <6>3. s \notin Active
            BY <2>1, <2>2, <4>1, <6>2
          <6> QED BY <1>0, <2>2, <6>3
        <5> QED BY <1>3, <2>1, <4>1, <5>1 DEF Reads
      <4> QED BY <2>2, <4>2 DEF Retired
    <3>2. CASE mem'.phase = "recovered" /\ assoc'.head = NoSegment
      <4>1. CASE Recover
        <5>1. assoc'.head = Newest /\ Segments # {}
          BY <1>0, <2>2, <4>1 DEF Recover, StoreTypes
        <5>2. Newest \in Segments
          BY <1>0, <5>1, Greatest DEF Newest, FileTypes
        <5> QED BY <1>0, <3>2, <5>1, <5>2, FileFacts DEF NoSegment
      <4>2. CASE RotateMark \/ StartCutShort
        <5>1. mem'.phase \in {"rewriting", "down"}
          BY <1>0, <4>2 DEF RotateMark, StartCutShort, StoreTypes
        <5> QED BY <3>2, <5>1
      <4>3. CASE RotateCommit
        <5>1. assoc'.head = IF Active = {} THEN NoSegment ELSE Max(Active)
          BY <1>0, <4>3 DEF RotateCommit, StoreTypes
        <5>2. Active = {}
          <6>1. Active # {} => Max(Active) \in Active /\ Active \in SUBSET Segments
            BY <1>0, ActiveSegments
          <6> QED BY <1>0, <3>2, <5>1, <6>1, FileFacts DEF NoSegment
        <5> QED BY <1>0, <2>2, <5>2 DEF Retired
      <4> QED BY <1>3, <4>1, <4>2, <4>3 DEF Reads
    <3> QED BY <3>1, <3>2
  <2>4. PICK q \in Seq(Requests \cup {Torn}) : q = disk[s].frames /\ Len(q) \in Nat
    BY <1>0, <2>2, FileFacts
  <2>5. disk'[s].frames = q \/ disk'[s].frames = Readable(q)
    BY <2>1, <2>2, <2>4 DEF Reading
  <2>6. \A i \in 1..Len(disk'[s].frames) : i \in 1..Len(q) /\ disk'[s].frames[i] = q[i]
    BY <2>4, <2>5, ReadableFrames
  <2> QED BY <1>0, <2>2, <2>3, <2>4, <2>6, SpentStep
<1> QED BY <1>1, <1>2, <1>3

-----------------------------------------------------------------------------
(* What is kept stays kept.                                                *)

KeptOn == \A r \in Requests : \A T : Kept(r, T) => Kept(r, T)'

LEMMA KeptThere ==
  ASSUME NEW r, NEW T, NEW s \in Active', NEW i \in 1..Len(disk'[s].frames),
         disk'[s].frames[i] = r, i <= disk'[s].durable \/ s \in T
  PROVE  Kept(r, T)'
BY DEF Kept

LEMMA KeptDue ==
  ASSUME NEW r, NEW T, Due(r)'
  PROVE  Kept(r, T)'
BY DEF Kept

LEMMA KeptMore ==
  ASSUME NEW r, NEW T, NEW U, T \subseteq U, Kept(r, T)'
  PROVE  Kept(r, U)'
BY DEF Kept

LEMMA KeptSynced ==
  ASSUME NEW r, NEW T, NEW s, Kept(r, T)', s \in Active' => disk'[s].durable = Len(disk'[s].frames),
         s \in Active' => Len(disk'[s].frames) \in Nat
  PROVE  Kept(r, T \ {s})'
BY DEF Kept

LEMMA KeptStep ==
  ASSUME WalInv, Placed, Framed, Clean, Retired, CallersGo, [Next]_vars, ~Reads, ~Crash,
         ~(\E s \in 1..MaxSegments : LoseSegment(s))
  PROVE  KeptOn
<1>0. /\ WalTypes /\ FileTypes /\ FileTypes' /\ ChainInv /\ assoc.anchor \in Nat /\ assoc.head \in Nat
      /\ Segments \in SUBSET Nat /\ Segments' \in SUBSET Nat /\ assoc'.anchor \in Nat /\ assoc'.head \in Nat
      /\ Active = {s \in Segments : s >= assoc.anchor} /\ Active' = {s \in Segments' : s >= assoc'.anchor}
  <2>1. WalTypes /\ WalTypes' /\ ChainInv
    BY WalInvStep DEF WalInv
  <2>2. Active = {s \in Segments : s >= assoc.anchor} /\ Active' = {s \in Segments' : s >= assoc'.anchor}
    BY DEF Active, AtOrAbove
  <2> QED BY <2>1, <2>2 DEF WalTypes, FileTypes, StoreTypes
<1> SUFFICES ASSUME NEW r \in Requests, NEW T, Kept(r, T) PROVE Kept(r, T)'
  BY DEF KeptOn
<1>1. CASE Due(r)
  BY <1>1, KeptDue DEF CallersGo
<1>2. CASE ~Due(r)
  <2>1. PICK s \in Active : \E i \in 1..Len(disk[s].frames) :
                               disk[s].frames[i] = r /\ (i <= disk[s].durable \/ s \in T)
    BY <1>2 DEF Kept
  <2>2. PICK i \in 1..Len(disk[s].frames) : disk[s].frames[i] = r /\ (i <= disk[s].durable \/ s \in T)
    BY <2>1
  <2>3. s \in Segments /\ s \in Nat /\ s >= assoc.anchor
    BY <1>0
  <2>4. ~(s < assoc'.anchor)
    <3> SUFFICES ASSUME s < assoc'.anchor PROVE FALSE
      OBVIOUS
    <3>1. Spent(s)
      BY <2>3, PassedSpent
    <3>2. r # Torn
      BY WalAssumption DEF Torn
    <3> QED BY <1>2, <2>2, <3>1, <3>2 DEF Spent
  <2>5. CASE SweepUnlink
    <3>1. PICK m : m = Min(sweep.ids)
      OBVIOUS
    <3>2. disk' = WithoutSegment(m) /\ m < assoc.anchor
      BY <1>0, <2>5, <3>1, RunningFacts DEF SweepUnlink, Up
    <3>3. s # m
      BY <1>0, <2>3, <3>2
    <3>4. s \in Segments' /\ disk'[s] = disk[s]
      BY <1>0, <2>3, <3>2, <3>3, ShrunkDisk
    <3>5. s \in Active'
      BY <1>0, <2>3, <2>4, <3>4
    <3> QED BY <2>2, <3>4, <3>5, KeptThere
  <2>6. CASE ~SweepUnlink
    <3>1. Carries(s)
      BY <2>3, <2>6, GrowingDisk DEF DiskGrows, Loses
    <3>2. s \in Segments' /\ Len(disk[s].frames) \in Nat /\ Len(disk'[s].frames) \in Nat
          /\ disk[s].durable \in Int /\ disk'[s].durable \in Int
      <4>1. s \in Segments'
        BY <3>1 DEF Carries
      <4>2. disk'[s] \in Files
        BY <1>0, <4>1 DEF FileTypes
      <4> QED BY <1>0, <2>3, <4>1, <4>2, FileFacts DEF Files
    <3>3. s \in Active'
      BY <1>0, <2>3, <2>4, <3>2
    <3>4. i \in 1..Len(disk'[s].frames) /\ disk'[s].frames[i] = r
      BY <2>2, <3>1, <3>2 DEF Carries
    <3>5. i <= disk'[s].durable \/ s \in T
      BY <2>2, <3>1, <3>2 DEF Carries
    <3> QED BY <3>3, <3>4, <3>5, KeptThere
  <2> QED BY <2>5, <2>6
<1> QED BY <1>1, <1>2

\* A power loss keeps what was synced.
LEMMA KeptCrash ==
  ASSUME WalInv, CallersGo, Crash, NEW r \in Requests, Kept(r, {})
  PROVE  Kept(r, {})'
<1>0. WalTypes /\ FileTypes
  BY DEF WalInv, WalTypes
<1>1. CASE Due(r)
  BY <1>1, KeptDue DEF CallersGo
<1>2. CASE ~Due(r)
  <2>1. PICK s \in Active : \E i \in 1..Len(disk[s].frames) :
                               disk[s].frames[i] = r /\ i <= disk[s].durable
    BY <1>2 DEF Kept
  <2>2. PICK i \in 1..Len(disk[s].frames) : disk[s].frames[i] = r /\ i <= disk[s].durable
    BY <2>1
  <2>3. s \in Segments /\ Len(disk[s].frames) \in Nat /\ disk[s].durable \in Int
    BY <1>0, FileFacts DEF Active, AtOrAbove
  <2>4. i \in 1..disk[s].durable /\ disk[s].durable >= 0
    BY <2>2, <2>3
  <2>5. /\ FileTypes' /\ s \in Segments' /\ disk'[s].durable = disk[s].durable
        /\ disk'[s].frames[i] = r
    BY <1>0, <2>2, <2>3, <2>4, CrashedDisk
  <2>6. disk'[s].durable \in -1..Len(disk'[s].frames) /\ Len(disk'[s].frames) \in Nat
    <3>1. disk'[s] \in Files /\ disk'[s].durable \in -1..Len(disk'[s].frames)
      BY <2>5 DEF FileTypes
    <3>2. disk'[s].frames \in Seq(Requests \cup {Torn})
      BY <3>1 DEF Files
    <3> QED BY <3>1, <3>2
  <2>7. i \in 1..Len(disk'[s].frames) /\ i <= disk'[s].durable
    BY <2>3, <2>4, <2>5, <2>6
  <2>8. s \in Active'
    <3>1. assoc' = assoc
      BY DEF Crash
    <3> QED BY <2>5, <3>1 DEF Active, AtOrAbove
  <2> QED BY <2>5, <2>7, <2>8, KeptThere
<1> QED BY <1>1, <1>2

-----------------------------------------------------------------------------
(* Sequences without repetition.                                           *)

LEMMA SetOfSeq ==
  ASSUME NEW S, NEW q \in Seq(S)
  PROVE  /\ ToSet(q) \in SUBSET S /\ DOMAIN q = 1..Len(q) /\ Len(q) \in Nat
         /\ \A x : x \in ToSet(q) <=> \E i \in 1..Len(q) : q[i] = x
         /\ Unique(q) <=> \A i, j \in 1..Len(q) : q[i] = q[j] => i = j
BY DEF ToSet, Unique

LEMMA AppendedSet ==
  ASSUME NEW S, NEW q \in Seq(S), NEW x \in S
  PROVE  /\ ToSet(Append(q, x)) = ToSet(q) \cup {x}
         /\ Unique(q) /\ x \notin ToSet(q) => Unique(Append(q, x))
<1>1. PICK p : p = Append(q, x)
  OBVIOUS
<1>2. /\ p \in Seq(S) /\ Len(p) = Len(q) + 1 /\ Len(q) \in Nat /\ p[Len(q) + 1] = x
      /\ \A i \in 1..Len(q) : p[i] = q[i]
  BY <1>1
<1>3. \A i \in 1..Len(p) : i \in 1..Len(q) \/ i = Len(q) + 1
  BY <1>2
<1>4. \A i \in 1..Len(q) : i \in 1..Len(p)
  BY <1>2
<1>5. Len(q) + 1 \in 1..Len(p)
  BY <1>2
<1>6. ToSet(p) = ToSet(q) \cup {x}
  <2>1. \A y : y \in ToSet(p) <=> \E i \in 1..Len(p) : p[i] = y
    BY <1>2, SetOfSeq
  <2>2. \A y : y \in ToSet(q) <=> \E i \in 1..Len(q) : q[i] = y
    BY SetOfSeq
  <2> QED BY <1>2, <1>3, <1>4, <1>5, <2>1, <2>2
<1>7. ASSUME Unique(q), x \notin ToSet(q) PROVE Unique(p)
  <2>1. \A i \in 1..Len(q) : q[i] # x
    BY <1>7, SetOfSeq
  <2>2. \A i, j \in 1..Len(q) : q[i] = q[j] => i = j
    BY <1>7, SetOfSeq
  <2>3. \A i, j \in 1..Len(p) : p[i] = p[j] => i = j
    BY <1>2, <1>3, <2>1, <2>2
  <2> QED BY <1>2, <2>3, SetOfSeq
<1> QED BY <1>1, <1>6, <1>7

LEMMA SplitSeq ==
  ASSUME NEW S, NEW q \in Seq(S), NEW n \in 1..Len(q)
  PROVE  /\ SubSeq(q, 1, n) \in Seq(S) /\ SubSeq(q, n + 1, Len(q)) \in Seq(S)
         /\ Len(SubSeq(q, 1, n)) = n /\ Len(SubSeq(q, n + 1, Len(q))) = Len(q) - n
         /\ \A i \in 1..n : SubSeq(q, 1, n)[i] = q[i]
         /\ \A i \in 1..(Len(q) - n) : SubSeq(q, n + 1, Len(q))[i] = q[n + i]
<1>1. Len(q) \in Nat /\ n \in Nat /\ 1 <= n /\ n <= Len(q)
  OBVIOUS
<1>2. /\ SubSeq(q, 1, n) \in Seq(S) /\ Len(SubSeq(q, 1, n)) = n
      /\ \A i \in 1..n : SubSeq(q, 1, n)[i] = q[i]
  BY <1>1
<1>3. CASE n < Len(q)
  <2>1. n + 1 \in 1..Len(q) /\ Len(q) \in 1..Len(q)
    BY <1>1, <1>3
  <2>2. SubSeq(q, n + 1, Len(q)) \in Seq(S)
    BY <1>1, <2>1
  <2>3. Len(SubSeq(q, n + 1, Len(q))) = Len(q) - n
    BY <1>1, <1>3
  <2>4. \A i \in 1..(Len(q) - n) : SubSeq(q, n + 1, Len(q))[i] = q[n + i]
    <3>1. \A i \in 1..(Len(q) - n) : SubSeq(q, n + 1, Len(q))[i] = q[(n + 1) + i - 1]
      BY <1>1, <1>3
    <3>2. \A i \in 1..(Len(q) - n) : (n + 1) + i - 1 = n + i
      BY <1>1
    <3> QED BY <3>1, <3>2
  <2> QED BY <1>2, <2>2, <2>3, <2>4
<1>4. CASE n = Len(q)
  <2>1. SubSeq(q, n + 1, Len(q)) = <<>>
    BY <1>1, <1>4
  <2> QED BY <1>1, <1>2, <1>4, <2>1
<1> QED BY <1>1, <1>3, <1>4

LEMMA SplitSet ==
  ASSUME NEW S, NEW q \in Seq(S), NEW n \in 1..Len(q), NEW a \in Seq(S), NEW b \in Seq(S),
         Len(a) = n, Len(b) = Len(q) - n, \A i \in 1..n : a[i] = q[i],
         \A i \in 1..(Len(q) - n) : b[i] = q[n + i]
  PROVE  /\ ToSet(q) = ToSet(a) \cup ToSet(b)
         /\ Unique(q) => Unique(a) /\ Unique(b) /\ ToSet(a) \cap ToSet(b) = {}
<1>1. Len(q) \in Nat /\ n \in Nat /\ n >= 1 /\ n <= Len(q)
  OBVIOUS
<1>2. /\ \A y : y \in ToSet(a) <=> \E i \in 1..n : q[i] = y
      /\ \A y : y \in ToSet(b) <=> \E i \in 1..(Len(q) - n) : q[n + i] = y
      /\ \A y : y \in ToSet(q) <=> \E i \in 1..Len(q) : q[i] = y
  <2>1. \A y : y \in ToSet(a) <=> \E i \in 1..Len(a) : a[i] = y
    BY <1>1, SetOfSeq
  <2>2. \A y : y \in ToSet(b) <=> \E i \in 1..Len(b) : b[i] = y
    BY <1>1, SetOfSeq
  <2>3. \A y : y \in ToSet(q) <=> \E i \in 1..Len(q) : q[i] = y
    BY SetOfSeq
  <2>4. \A y : (\E i \in 1..Len(a) : a[i] = y) <=> \E i \in 1..n : q[i] = y
    OBVIOUS
  <2>5. \A y : (\E i \in 1..Len(b) : b[i] = y) <=> \E i \in 1..(Len(q) - n) : q[n + i] = y
    OBVIOUS
  <2> QED BY <2>1, <2>2, <2>3, <2>4, <2>5, Zenon
<1>3. /\ \A i \in 1..n : i \in 1..Len(q)
      /\ \A i \in 1..(Len(q) - n) : n + i \in 1..Len(q) /\ n + i \notin 1..n
      /\ \A i \in 1..Len(q) : i \in 1..n \/ (i - n \in 1..(Len(q) - n) /\ n + (i - n) = i)
  BY <1>1
<1>4. ToSet(q) = ToSet(a) \cup ToSet(b)
  <2>1. ASSUME NEW y \in ToSet(q) PROVE y \in ToSet(a) \cup ToSet(b)
    <3>1. PICK i \in 1..Len(q) : q[i] = y
      BY <1>2
    <3> QED BY <1>2, <1>3, <3>1
  <2> QED BY <1>2, <1>3, <2>1
<1>5. ASSUME Unique(q) PROVE Unique(a) /\ Unique(b) /\ ToSet(a) \cap ToSet(b) = {}
  <2>1. \A i, j \in 1..Len(q) : q[i] = q[j] => i = j
    BY <1>5, SetOfSeq
  <2>2. \A i, j \in 1..n : a[i] = a[j] => i = j
    BY <1>1, <1>3, <2>1
  <2>3. \A i, j \in 1..(Len(q) - n) : b[i] = b[j] => i = j
    <3> SUFFICES ASSUME NEW i \in 1..(Len(q) - n), NEW j \in 1..(Len(q) - n), b[i] = b[j] PROVE i = j
      OBVIOUS
    <3>1. q[n + i] = q[n + j]
      BY <1>1
    <3>2. n + i = n + j
      BY <1>3, <2>1, <3>1
    <3> QED BY <1>1, <3>2
  <2>4. ToSet(a) \cap ToSet(b) = {}
    <3> SUFFICES ASSUME NEW y \in ToSet(a), y \in ToSet(b) PROVE FALSE
      OBVIOUS
    <3>1. PICK i \in 1..n : q[i] = y
      BY <1>2
    <3>2. PICK j \in 1..(Len(q) - n) : q[n + j] = y
      BY <1>2
    <3>3. n + j \in 1..Len(q) /\ n + j \notin 1..n /\ i \in 1..Len(q)
      BY <1>3
    <3>4. i = n + j
      BY <2>1, <3>1, <3>2, <3>3
    <3> QED BY <3>3, <3>4
  <2>5. Unique(a)
    BY <2>2, SetOfSeq
  <2>6. Unique(b)
    BY <2>3, SetOfSeq
  <2> QED BY <2>4, <2>5, <2>6
<1> QED BY <1>4, <1>5

LEMMA TailSet ==
  ASSUME NEW S, NEW q \in Seq(S), q # <<>>
  PROVE  /\ Head(q) \in ToSet(q) /\ ToSet(q) = {Head(q)} \cup ToSet(Tail(q)) /\ Tail(q) \in Seq(S)
         /\ Head(q) \in S
         /\ Unique(q) => Unique(Tail(q)) /\ Head(q) \notin ToSet(Tail(q))
<1>1. PICK t, h : t = Tail(q) /\ h = Head(q)
  OBVIOUS
<1>2. /\ Len(q) \in Nat /\ Len(q) >= 1 /\ t \in Seq(S) /\ Len(t) = Len(q) - 1 /\ h = q[1] /\ h \in S
  BY <1>1
<1>3. \A i \in 1..(Len(q) - 1) : t[i] = q[i + 1]
  BY <1>1
<1>4. /\ \A y : y \in ToSet(t) <=> \E i \in 1..(Len(q) - 1) : q[i + 1] = y
      /\ \A y : y \in ToSet(q) <=> \E i \in 1..Len(q) : q[i] = y
  <2>1. \A y : y \in ToSet(t) <=> \E i \in 1..Len(t) : t[i] = y
    BY <1>2, SetOfSeq
  <2>2. \A y : (\E i \in 1..Len(t) : t[i] = y) <=> \E i \in 1..(Len(q) - 1) : q[i + 1] = y
    BY <1>2, <1>3
  <2>3. \A y : y \in ToSet(q) <=> \E i \in 1..Len(q) : q[i] = y
    BY SetOfSeq
  <2> QED BY <2>1, <2>2, <2>3, Zenon
<1>5. /\ \A i \in 1..(Len(q) - 1) : i + 1 \in 1..Len(q) /\ i + 1 # 1
      /\ \A i \in 1..Len(q) : i = 1 \/ (i - 1 \in 1..(Len(q) - 1) /\ (i - 1) + 1 = i)
      /\ 1 \in 1..Len(q)
  BY <1>2
<1>6. h \in ToSet(q)
  BY <1>2, <1>4, <1>5
<1>7. ToSet(q) = {h} \cup ToSet(t)
  <2>1. ASSUME NEW y \in ToSet(q), y # h PROVE y \in ToSet(t)
    <3>1. PICK i \in 1..Len(q) : q[i] = y
      BY <1>4
    <3>2. i - 1 \in 1..(Len(q) - 1) /\ (i - 1) + 1 = i
      BY <1>2, <1>5, <2>1, <3>1
    <3>3. q[(i - 1) + 1] = y
      BY <3>1, <3>2
    <3> QED BY <1>4, <3>2, <3>3
  <2>2. ASSUME NEW y \in ToSet(t) PROVE y \in ToSet(q)
    BY <1>4, <1>5
  <2> QED BY <1>6, <2>1, <2>2
<1>8. ASSUME Unique(q) PROVE Unique(t) /\ h \notin ToSet(t)
  <2>1. \A i, j \in 1..Len(q) : q[i] = q[j] => i = j
    BY <1>8, SetOfSeq
  <2>2. h \notin ToSet(t)
    BY <1>2, <1>4, <1>5, <2>1
  <2>3. \A i, j \in 1..Len(t) : t[i] = t[j] => i = j
    <3> SUFFICES ASSUME NEW i \in 1..(Len(q) - 1), NEW j \in 1..(Len(q) - 1), t[i] = t[j] PROVE i = j
      BY <1>2
    <3>1. q[i + 1] = q[j + 1]
      BY <1>3
    <3>2. i + 1 = j + 1
      BY <1>5, <2>1, <3>1
    <3> QED BY <1>2, <3>2
  <2> QED BY <1>2, <2>2, <2>3, SetOfSeq
<1> QED BY <1>1, <1>2, <1>6, <1>7, <1>8

\* Sequences of groups.
LEMMA SetOfGroups ==
  ASSUME NEW G, NEW gs \in Seq(G)
  PROVE  /\ Len(gs) \in Nat
         /\ \A x : x \in AllOf(gs) <=> \E i \in 1..Len(gs) : x \in ToSet(gs[i])
         /\ UniqueAll(gs) <=> \A i, j \in 1..Len(gs) :
              Unique(gs[i]) /\ (i # j => ToSet(gs[i]) \cap ToSet(gs[j]) = {})
<1>1. DOMAIN gs = 1..Len(gs) /\ Len(gs) \in Nat
  OBVIOUS
<1> QED BY <1>1, Zenon DEF AllOf, UniqueAll

LEMMA AppendedGroup ==
  ASSUME NEW G, NEW gs \in Seq(G), NEW g \in G
  PROVE  /\ AllOf(Append(gs, g)) = AllOf(gs) \cup ToSet(g)
         /\ UniqueAll(gs) /\ Unique(g) /\ AllOf(gs) \cap ToSet(g) = {} => UniqueAll(Append(gs, g))
<1>1. PICK p : p = Append(gs, g)
  OBVIOUS
<1>2. /\ p \in Seq(G) /\ Len(p) = Len(gs) + 1 /\ Len(gs) \in Nat /\ p[Len(gs) + 1] = g
      /\ \A i \in 1..Len(gs) : p[i] = gs[i]
  BY <1>1
<1>3. /\ \A i \in 1..Len(p) : i \in 1..Len(gs) \/ i = Len(gs) + 1
      /\ \A i \in 1..Len(gs) : i \in 1..Len(p)
      /\ Len(gs) + 1 \in 1..Len(p)
  BY <1>2
<1>4. /\ \A x : x \in AllOf(p) <=> \E i \in 1..Len(p) : x \in ToSet(p[i])
      /\ \A x : x \in AllOf(gs) <=> \E i \in 1..Len(gs) : x \in ToSet(gs[i])
  BY <1>2, SetOfGroups
<1>5. AllOf(p) = AllOf(gs) \cup ToSet(g)
  <2>1. ASSUME NEW x \in AllOf(p), x \notin ToSet(g) PROVE x \in AllOf(gs)
    <3>1. PICK i \in 1..Len(p) : x \in ToSet(p[i])
      BY <1>4
    <3>2. i \in 1..Len(gs) /\ p[i] = gs[i]
      BY <1>2, <1>3, <2>1, <3>1
    <3> QED BY <1>4, <3>1, <3>2
  <2>2. ASSUME NEW x \in AllOf(gs) PROVE x \in AllOf(p)
    <3>1. PICK i \in 1..Len(gs) : x \in ToSet(gs[i])
      BY <1>4
    <3>2. i \in 1..Len(p) /\ p[i] = gs[i]
      BY <1>2, <1>3
    <3> QED BY <1>4, <3>1, <3>2
  <2>3. ASSUME NEW x \in ToSet(g) PROVE x \in AllOf(p)
    BY <1>2, <1>3, <1>4
  <2> QED BY <2>1, <2>2, <2>3
<1>6. ASSUME UniqueAll(gs), Unique(g), AllOf(gs) \cap ToSet(g) = {} PROVE UniqueAll(p)
  <2>1. \A i, j \in 1..Len(gs) :
           Unique(gs[i]) /\ (i # j => ToSet(gs[i]) \cap ToSet(gs[j]) = {})
    BY <1>6, SetOfGroups
  <2>2. \A i \in 1..Len(gs) : ToSet(gs[i]) \cap ToSet(g) = {}
    BY <1>4, <1>6
  <2>3. ASSUME NEW i \in 1..Len(p), NEW j \in 1..Len(p)
        PROVE  Unique(p[i]) /\ (i # j => ToSet(p[i]) \cap ToSet(p[j]) = {})
    <3>1. CASE i \in 1..Len(gs) /\ j \in 1..Len(gs)
      <4>1. p[i] = gs[i] /\ p[j] = gs[j]
        BY <1>2, <3>1
      <4> QED BY <2>1, <3>1, <4>1
    <3>2. CASE i \in 1..Len(gs) /\ j = Len(gs) + 1
      <4>1. p[i] = gs[i] /\ p[j] = g
        BY <1>2, <3>2
      <4> QED BY <2>1, <2>2, <3>2, <4>1
    <3>3. CASE i = Len(gs) + 1 /\ j \in 1..Len(gs)
      <4>1. p[i] = g /\ p[j] = gs[j]
        BY <1>2, <3>3
      <4> QED BY <1>6, <2>2, <3>3, <4>1
    <3>4. CASE i = Len(gs) + 1 /\ j = Len(gs) + 1
      BY <1>2, <1>6, <3>4
    <3> QED BY <1>3, <3>1, <3>2, <3>3, <3>4
  <2> QED BY <1>2, <2>3, SetOfGroups
<1> QED BY <1>1, <1>5, <1>6

LEMMA OneGroup ==
  ASSUME NEW g
  PROVE  AllOf(<<g>>) = ToSet(g) /\ (Unique(g) => UniqueAll(<<g>>))
<1>1. DOMAIN <<g>> = {1} /\ <<g>>[1] = g
  OBVIOUS
<1> QED BY <1>1 DEF AllOf, UniqueAll

\* The first n groups and the others; the head of a sequence is the case n = 1.
LEMMA SplitGroups ==
  ASSUME NEW G, NEW gs \in Seq(G), NEW n \in 1..Len(gs), NEW a \in Seq(G), NEW b \in Seq(G),
         Len(a) = n, Len(b) = Len(gs) - n, \A i \in 1..n : a[i] = gs[i],
         \A i \in 1..(Len(gs) - n) : b[i] = gs[n + i]
  PROVE  /\ AllOf(gs) = AllOf(a) \cup AllOf(b)
         /\ UniqueAll(gs) => UniqueAll(a) /\ UniqueAll(b) /\ AllOf(a) \cap AllOf(b) = {}
<1>1. Len(gs) \in Nat /\ n \in Nat /\ n >= 1 /\ n <= Len(gs)
  OBVIOUS
<1>2. /\ \A x : x \in AllOf(a) <=> \E i \in 1..n : x \in ToSet(gs[i])
      /\ \A x : x \in AllOf(b) <=> \E i \in 1..(Len(gs) - n) : x \in ToSet(gs[n + i])
      /\ \A x : x \in AllOf(gs) <=> \E i \in 1..Len(gs) : x \in ToSet(gs[i])
  <2>1. \A x : x \in AllOf(a) <=> \E i \in 1..Len(a) : x \in ToSet(a[i])
    BY SetOfGroups
  <2>2. \A x : x \in AllOf(b) <=> \E i \in 1..Len(b) : x \in ToSet(b[i])
    BY SetOfGroups
  <2>3. \A x : x \in AllOf(gs) <=> \E i \in 1..Len(gs) : x \in ToSet(gs[i])
    BY SetOfGroups
  <2>4. \A x : (\E i \in 1..Len(a) : x \in ToSet(a[i])) <=> \E i \in 1..n : x \in ToSet(gs[i])
    OBVIOUS
  <2>5. \A x : (\E i \in 1..Len(b) : x \in ToSet(b[i])) <=> \E i \in 1..(Len(gs) - n) : x \in ToSet(gs[n + i])
    OBVIOUS
  <2> QED BY <2>1, <2>2, <2>3, <2>4, <2>5, Zenon
<1>3. /\ \A i \in 1..n : i \in 1..Len(gs)
      /\ \A i \in 1..(Len(gs) - n) : n + i \in 1..Len(gs) /\ n + i \notin 1..n
      /\ \A i \in 1..Len(gs) : i \in 1..n \/ (i - n \in 1..(Len(gs) - n) /\ n + (i - n) = i)
  BY <1>1
<1>4. AllOf(gs) = AllOf(a) \cup AllOf(b)
  <2>1. ASSUME NEW y \in AllOf(gs) PROVE y \in AllOf(a) \cup AllOf(b)
    <3>1. PICK i \in 1..Len(gs) : y \in ToSet(gs[i])
      BY <1>2
    <3>2. CASE i \in 1..n
      BY <1>2, <3>1, <3>2
    <3>3. CASE i - n \in 1..(Len(gs) - n) /\ n + (i - n) = i
      <4>1. y \in ToSet(gs[n + (i - n)])
        BY <3>1, <3>3
      <4> QED BY <1>2, <3>3, <4>1
    <3> QED BY <1>3, <3>2, <3>3
  <2>2. \A y \in AllOf(a) : y \in AllOf(gs)
    BY <1>2, <1>3
  <2>3. \A y \in AllOf(b) : y \in AllOf(gs)
    BY <1>2, <1>3
  <2> QED BY <2>1, <2>2, <2>3
<1>5. ASSUME UniqueAll(gs) PROVE UniqueAll(a) /\ UniqueAll(b) /\ AllOf(a) \cap AllOf(b) = {}
  <2>1. \A i, j \in 1..Len(gs) :
           Unique(gs[i]) /\ (i # j => ToSet(gs[i]) \cap ToSet(gs[j]) = {})
    BY <1>5, SetOfGroups
  <2>2. \A i, j \in 1..Len(a) : Unique(a[i]) /\ (i # j => ToSet(a[i]) \cap ToSet(a[j]) = {})
    <3> SUFFICES ASSUME NEW i \in 1..n, NEW j \in 1..n
                 PROVE  Unique(a[i]) /\ (i # j => ToSet(a[i]) \cap ToSet(a[j]) = {})
      OBVIOUS
    <3>1. a[i] = gs[i] /\ a[j] = gs[j] /\ i \in 1..Len(gs) /\ j \in 1..Len(gs)
      BY <1>3
    <3> QED BY <2>1, <3>1
  <2>3. \A i, j \in 1..Len(b) : Unique(b[i]) /\ (i # j => ToSet(b[i]) \cap ToSet(b[j]) = {})
    <3> SUFFICES ASSUME NEW i \in 1..(Len(gs) - n), NEW j \in 1..(Len(gs) - n)
                 PROVE  Unique(b[i]) /\ (i # j => ToSet(b[i]) \cap ToSet(b[j]) = {})
      OBVIOUS
    <3>1. b[i] = gs[n + i] /\ b[j] = gs[n + j] /\ n + i \in 1..Len(gs) /\ n + j \in 1..Len(gs)
      BY <1>3
    <3>2. i # j => n + i # n + j
      BY <1>1
    <3> QED BY <2>1, <3>1, <3>2
  <2>4. AllOf(a) \cap AllOf(b) = {}
    <3> SUFFICES ASSUME NEW y \in AllOf(a), y \in AllOf(b) PROVE FALSE
      OBVIOUS
    <3>1. PICK i \in 1..n : y \in ToSet(gs[i])
      BY <1>2
    <3>2. PICK j \in 1..(Len(gs) - n) : y \in ToSet(gs[n + j])
      BY <1>2
    <3>3. n + j \in 1..Len(gs) /\ n + j \notin 1..n /\ i \in 1..Len(gs)
      BY <1>3
    <3> QED BY <2>1, <3>1, <3>2, <3>3
  <2> QED BY <2>2, <2>3, <2>4, SetOfGroups
<1> QED BY <1>4, <1>5

-----------------------------------------------------------------------------
(* Every request in progress is in one place.                              *)

LEMMA NoLane ==
  ToSet(<<>>) = {} /\ Unique(<<>>) /\ AllOf(<<>>) = {} /\ UniqueAll(<<>>)
BY DEF ToSet, Unique, AllOf, UniqueAll

\* The moves of requests between the queue (Q), the writer's batch (B), the groups
\* queued for a sync (F), those being synced (G), and those being answered (L).
LEMMA LaneSubmit ==
  ASSUME NEW Q \in Seq(Requests), NEW B, NEW F, NEW G, NEW L, NEW x \in Requests,
         LanesOK(Q, B, F, G, L), x \notin Lanes(Q, B, F, G, L)
  PROVE  /\ LanesOK(Append(Q, x), B, F, G, L)
         /\ Lanes(Append(Q, x), B, F, G, L) = Lanes(Q, B, F, G, L) \cup {x}
<1>1. ToSet(Append(Q, x)) = ToSet(Q) \cup {x} /\ Unique(Append(Q, x))
  BY AppendedSet DEF LanesOK, Lanes
<1> QED BY <1>1 DEF LanesOK, Lanes, Apart

LEMMA LaneBatch ==
  ASSUME NEW Q \in Seq(Requests), NEW B, NEW F, NEW G, NEW L, NEW n \in 1..Len(Q),
         LanesOK(Q, B, F, G, L)
  PROVE  /\ LanesOK(SubSeq(Q, n + 1, Len(Q)), SubSeq(Q, 1, n), F, G, L)
         /\ Lanes(SubSeq(Q, n + 1, Len(Q)), SubSeq(Q, 1, n), F, G, L) \subseteq Lanes(Q, B, F, G, L)
<1>1. PICK a, b : a = SubSeq(Q, 1, n) /\ b = SubSeq(Q, n + 1, Len(Q))
  OBVIOUS
<1>2. /\ a \in Seq(Requests) /\ b \in Seq(Requests) /\ Len(a) = n /\ Len(b) = Len(Q) - n
      /\ \A i \in 1..n : a[i] = Q[i]
      /\ \A i \in 1..(Len(Q) - n) : b[i] = Q[n + i]
  BY <1>1, SplitSeq
<1>3. /\ ToSet(Q) = ToSet(a) \cup ToSet(b)
      /\ Unique(Q) => Unique(a) /\ Unique(b) /\ ToSet(a) \cap ToSet(b) = {}
  BY <1>2, SplitSet
<1>4. LanesOK(b, a, F, G, L) /\ Lanes(b, a, F, G, L) \subseteq Lanes(Q, B, F, G, L)
  BY <1>3 DEF LanesOK, Lanes, Apart
<1> QED BY <1>1, <1>4

LEMMA LaneFinish ==
  ASSUME NEW Q, NEW B \in Groups, NEW F \in Seq(Groups), NEW G, NEW L, LanesOK(Q, B, F, G, L)
  PROVE  /\ LanesOK(Q, <<>>, F, <<B>>, <<>>) /\ LanesOK(Q, <<>>, Append(F, B), G, L)
         /\ Lanes(Q, <<>>, F, <<B>>, <<>>) \subseteq Lanes(Q, B, F, G, L)
         /\ Lanes(Q, <<>>, Append(F, B), G, L) \subseteq Lanes(Q, B, F, G, L)
<1>1. AllOf(<<B>>) = ToSet(B) /\ UniqueAll(<<B>>)
  BY OneGroup DEF LanesOK
<1>2. AllOf(Append(F, B)) = AllOf(F) \cup ToSet(B) /\ UniqueAll(Append(F, B))
  <2>1. UniqueAll(F) /\ Unique(B) /\ AllOf(F) \cap ToSet(B) = {}
    BY DEF LanesOK, Apart
  <2> HIDE DEF Groups
  <2> QED BY <2>1, AppendedGroup
<1> QED BY <1>1, <1>2, NoLane DEF LanesOK, Lanes, Apart

LEMMA HeadGroup ==
  ASSUME NEW gs \in Seq(Groups), gs # <<>>
  PROVE  /\ Head(gs) \in Groups /\ Tail(gs) \in Seq(Groups)
         /\ AllOf(gs) = ToSet(Head(gs)) \cup AllOf(Tail(gs))
         /\ UniqueAll(gs) => /\ Unique(Head(gs)) /\ UniqueAll(Tail(gs))
                             /\ ToSet(Head(gs)) \cap AllOf(Tail(gs)) = {}
<1>1. PICK h, t, a : h = Head(gs) /\ t = Tail(gs) /\ a = <<h>>
  OBVIOUS
<1>2. /\ h \in Groups /\ t \in Seq(Groups) /\ h = gs[1] /\ Len(t) = Len(gs) - 1 /\ Len(gs) \in Nat
      /\ 1 \in 1..Len(gs)
  BY <1>1
<1>3. a \in Seq(Groups) /\ Len(a) = 1 /\ a[1] = gs[1]
  BY <1>1, <1>2
<1>4. \A i \in 1..(Len(gs) - 1) : t[i] = gs[1 + i]
  BY <1>1
<1>5. \A i \in 1..1 : a[i] = gs[i]
  BY <1>3
<1>6. /\ AllOf(gs) = AllOf(a) \cup AllOf(t)
      /\ UniqueAll(gs) => UniqueAll(a) /\ UniqueAll(t) /\ AllOf(a) \cap AllOf(t) = {}
  <2>1. PICK n \in 1..Len(gs) : n = 1
    BY <1>2
  <2>2. /\ Len(a) = n /\ Len(t) = Len(gs) - n
        /\ \A i \in 1..n : a[i] = gs[i]
        /\ \A i \in 1..(Len(gs) - n) : t[i] = gs[n + i]
    BY <1>2, <1>3, <1>4, <1>5, <2>1
  <2> QED BY <1>2, <1>3, <2>2, SplitGroups
<1>7. AllOf(a) = ToSet(h) /\ (UniqueAll(a) => Unique(h))
  <2>1. DOMAIN a = {1} /\ a[1] = h
    BY <1>1
  <2> QED BY <2>1 DEF AllOf, UniqueAll
<1> QED BY <1>1, <1>2, <1>6, <1>7

LEMMA LaneApply ==
  ASSUME NEW Q, NEW B, NEW F, NEW G \in Seq(Groups), G # <<>>, NEW L, LanesOK(Q, B, F, G, L)
  PROVE  /\ LanesOK(Q, B, F, Tail(G), Head(G))
         /\ Lanes(Q, B, F, Tail(G), Head(G)) \subseteq Lanes(Q, B, F, G, L)
<1>1. PICK h, t : h = Head(G) /\ t = Tail(G)
  OBVIOUS
<1>2. /\ AllOf(G) = ToSet(h) \cup AllOf(t)
      /\ UniqueAll(G) => Unique(h) /\ UniqueAll(t) /\ ToSet(h) \cap AllOf(t) = {}
  BY <1>1, HeadGroup
<1>3. LanesOK(Q, B, F, t, h) /\ Lanes(Q, B, F, t, h) \subseteq Lanes(Q, B, F, G, L)
  BY <1>2 DEF LanesOK, Lanes, Apart
<1> QED BY <1>1, <1>3


LEMMA LaneTypes ==
  ASSUME WalTypes
  PROVE  /\ queue \in Seq(Requests) /\ writer.batch \in Seq(Requests) /\ writer.left \in Seq(Requests)
         /\ flush.groups \in Seq(Groups) /\ flush.left \in Seq(Requests)
         /\ Batches \in Seq(Groups) /\ Len(Batches) = Len(fsyncQ) /\ Len(fsyncQ) \in Nat
         /\ \A i \in 1..Len(fsyncQ) : Batches[i] = fsyncQ[i].batch /\ fsyncQ[i].batch \in Groups
         /\ Flying \subseteq Requests
<1>1. /\ queue \in Seq(Requests) /\ writer.batch \in Seq(Requests) /\ writer.left \in Seq(Requests)
      /\ flush.groups \in Seq(Groups) /\ flush.left \in Seq(Requests)
  BY DEF WalTypes, WriterTypes, FlushTypes
<1>2. PICK q, E : q = fsyncQ /\ E = [batch : Groups, files : SUBSET Nat]
  OBVIOUS
<1>3. q \in Seq(E) /\ DOMAIN q = 1..Len(q) /\ Len(q) \in Nat
  BY <1>2 DEF WalTypes, FlushTypes
<1>4. \A i \in 1..Len(q) : q[i].batch \in Groups
  <2>1. \A i \in 1..Len(q) : q[i] \in E
    BY <1>3
  <2> QED BY <1>2, <2>1
<1>5. Batches = [i \in 1..Len(q) |-> q[i].batch]
  BY <1>2, <1>3 DEF Batches
<1>6. Batches \in Seq(Groups) /\ Len(Batches) = Len(q) /\ \A i \in 1..Len(q) : Batches[i] = q[i].batch
  <2>1. PICK g : g = [i \in 1..Len(q) |-> q[i].batch]
    OBVIOUS
  <2>2. g \in [1..Len(q) -> Groups] /\ \A i \in 1..Len(q) : g[i] = q[i].batch
    BY <1>4, <2>1
  <2>3. g \in Seq(Groups) /\ Len(g) = Len(q)
    BY <1>3, <2>2
  <2> QED BY <1>5, <2>1, <2>2, <2>3
<1>7. ASSUME NEW gs \in Seq(Groups) PROVE AllOf(gs) \subseteq Requests
  <2>1. ASSUME NEW i \in 1..Len(gs) PROVE ToSet(gs[i]) \subseteq Requests
    <3>1. gs[i] \in Groups
      BY <1>7
    <3>2. gs[i] \in Seq(Requests)
      BY <3>1 DEF Groups
    <3> QED BY <3>2, SetOfSeq
  <2> QED BY <1>7, <2>1, SetOfGroups
<1>8. Flying \subseteq Requests
  <2>1. ToSet(queue) \subseteq Requests /\ ToSet(writer.batch) \subseteq Requests
        /\ ToSet(flush.left) \subseteq Requests
    BY <1>1, SetOfSeq
  <2>2. AllOf(Batches) \subseteq Requests /\ AllOf(flush.groups) \subseteq Requests
    BY <1>1, <1>6, <1>7
  <2> QED BY <2>1, <2>2 DEF Flying, Lanes
<1> QED BY <1>1, <1>2, <1>3, <1>4, <1>6, <1>8

\* Requests move and leave; those that stay keep their reply.
LEMMA PlacedLess ==
  ASSUME Placed, LanesOK(queue, writer.batch, Batches, flush.groups, flush.left)',
         Flying' \subseteq Flying, ToSet(writer'.left) \subseteq ToSet(writer'.batch),
         mem'.phase = "up" <=> mem.phase = "up", mem.fenced => mem'.fenced,
         mem.phase # "up" => mem'.fenced = mem.fenced,
         Up' => \A r \in Flying' : callers'.reply[r] = callers.reply[r]
  PROVE  Placed'
<1>1. mem'.phase # "up" => Flying' = {} /\ ~mem'.fenced
  BY DEF Placed
<1>2. ASSUME Up', NEW r \in Flying' PROVE callers'.reply[r] = "pending"
  BY <1>2 DEF Placed, Up
<1> QED BY <1>1, <1>2 DEF Placed

LEMMA PlacedSame ==
  ASSUME Placed, queue' = queue, writer'.batch = writer.batch, fsyncQ' = fsyncQ,
         flush'.groups = flush.groups, flush'.left = flush.left,
         ToSet(writer'.left) \subseteq ToSet(writer'.batch),
         mem'.phase = "up" <=> mem.phase = "up", mem.fenced => mem'.fenced,
         mem.phase # "up" => mem'.fenced = mem.fenced,
         Up' => \A r \in Flying : callers'.reply[r] = callers.reply[r]
  PROVE  Placed'
<1>1. Batches' = Batches
  BY DEF Batches
<1>2. Flying' = Flying
  BY <1>1 DEF Flying, Lanes
<1>3. LanesOK(queue, writer.batch, Batches, flush.groups, flush.left)'
  BY <1>1 DEF Placed, LanesOK
<1> QED BY <1>2, <1>3, PlacedLess

LEMMA PlacedSubmit ==
  ASSUME WalTypes, Placed, NEW r \in Requests, Submit(r)
  PROVE  Placed'
<1>1. /\ queue' = Append(queue, r) /\ UNCHANGED <<mem, writer, fsyncQ, flush>> /\ Up
      /\ callers.reply[r] = "idle"
  BY DEF Submit
<1>2. callers'.reply[r] = "pending" /\ \A x \in Requests : x # r => callers'.reply[x] = callers.reply[x]
  BY DEF Submit, WalTypes, CallerTypes
<1>3. Batches' = Batches
  BY <1>1 DEF Batches
<1>4. r \notin Flying
  BY <1>1 DEF Placed
<1>5. LanesOK(queue', writer.batch, Batches, flush.groups, flush.left)
      /\ Lanes(queue', writer.batch, Batches, flush.groups, flush.left) = Flying \cup {r}
  BY <1>1, <1>4, LaneTypes, LaneSubmit DEF Placed, Flying
<1>6. Flying' = Flying \cup {r} /\ LanesOK(queue, writer.batch, Batches, flush.groups, flush.left)'
  BY <1>1, <1>3, <1>5 DEF Flying, Lanes, LanesOK
<1>7. \A x \in Flying' : callers'.reply[x] = "pending"
  BY <1>1, <1>2, <1>6, LaneTypes DEF Placed
<1> QED BY <1>1, <1>6, <1>7 DEF Placed, Up

LEMMA PlacedBatch ==
  ASSUME WalTypes, Placed, NEW n \in 1..BatchMax, TakeBatch(n)
  PROVE  Placed'
<1>1. /\ queue' = SubSeq(queue, n + 1, Len(queue)) /\ UNCHANGED <<mem, fsyncQ, flush, callers>>
      /\ writer'.batch = SubSeq(queue, 1, n) /\ writer'.left = writer'.batch
  BY DEF TakeBatch
<1>2. n \in 1..Len(queue)
  <2>1. BatchMax \in Nat /\ Len(queue) \in Nat
    BY WalAssumption, LaneTypes
  <2>2. Min({BatchMax, Len(queue)}) \in {BatchMax, Len(queue)}
        /\ \A x \in {BatchMax, Len(queue)} : Min({BatchMax, Len(queue)}) <= x
    BY <2>1, Least
  <2>3. n \in 1..Min({BatchMax, Len(queue)})
    BY DEF TakeBatch
  <2> QED BY <2>1, <2>2, <2>3
<1>3. Batches' = Batches
  BY <1>1 DEF Batches
<1>4. LanesOK(queue', writer'.batch, Batches, flush.groups, flush.left)
      /\ Lanes(queue', writer'.batch, Batches, flush.groups, flush.left) \subseteq Flying
  BY <1>1, <1>2, LaneTypes, LaneBatch DEF Placed, Flying
<1>5. Flying' \subseteq Flying /\ LanesOK(queue, writer.batch, Batches, flush.groups, flush.left)'
  BY <1>1, <1>3, <1>4 DEF Flying, Lanes, LanesOK
<1> QED BY <1>1, <1>5, PlacedLess

LEMMA PlacedFinish ==
  ASSUME WalTypes, Placed, FinishBatch
  PROVE  Placed'
<1>0. PICK B : B = writer.batch
  OBVIOUS
<1>1. B \in Groups
  BY <1>0, LaneTypes DEF FinishBatch, WalTypes, WriterTypes, Appending, Groups
<1>2. /\ UNCHANGED <<mem, queue, callers>> /\ writer'.batch = <<>> /\ writer'.left = <<>>
  BY DEF FinishBatch, IdleWriter
<1>3. /\ LanesOK(queue, <<>>, Batches, <<B>>, <<>>)
      /\ LanesOK(queue, <<>>, Append(Batches, B), flush.groups, flush.left)
      /\ Lanes(queue, <<>>, Batches, <<B>>, <<>>) \subseteq Flying
      /\ Lanes(queue, <<>>, Append(Batches, B), flush.groups, flush.left) \subseteq Flying
  <2>1. /\ LanesOK(queue, B, Batches, flush.groups, flush.left) /\ Batches \in Seq(Groups)
        /\ Flying = Lanes(queue, B, Batches, flush.groups, flush.left)
    BY <1>0, LaneTypes DEF Placed, Flying
  <2> HIDE DEF Groups
  <2> QED BY <1>1, <2>1, LaneFinish
<1>4. CASE mem.mode = "sync"
  <2>1. flush'.groups = <<B>> /\ flush'.left = <<>> /\ fsyncQ' = fsyncQ
    BY <1>0, <1>4 DEF FinishBatch
  <2>2. Batches' = Batches
    BY <2>1 DEF Batches
  <2>3. Flying' \subseteq Flying /\ LanesOK(queue, writer.batch, Batches, flush.groups, flush.left)'
    BY <1>2, <1>3, <2>1, <2>2 DEF Flying, Lanes, LanesOK
  <2> QED BY <1>2, <2>3, PlacedLess
<1>5. CASE mem.mode # "sync"
  <2>1. fsyncQ' = Append(fsyncQ, [batch |-> B, files |-> writer.files]) /\ flush' = flush
    BY <1>0, <1>5 DEF FinishBatch
  <2>2. Batches' = Append(Batches, B)
    <3>1. PICK q, e, bs, E : /\ q = fsyncQ /\ e = [batch |-> B, files |-> writer.files]
                             /\ bs = Batches /\ E = [batch : Groups, files : SUBSET Nat]
      OBVIOUS
    <3>2. /\ q \in Seq(E) /\ e \in E /\ bs \in Seq(Groups) /\ Len(bs) = Len(q) /\ e.batch = B
          /\ \A i \in 1..Len(q) : bs[i] = q[i].batch
      BY <1>1, <3>1, LaneTypes DEF WalTypes, FlushTypes, WriterTypes
    <3>3. PICK p : p = Append(q, e)
      OBVIOUS
    <3>4. /\ p \in Seq(E) /\ Len(p) = Len(q) + 1 /\ Len(q) \in Nat /\ p[Len(q) + 1] = e
          /\ DOMAIN p = 1..Len(p) /\ \A i \in 1..Len(q) : p[i] = q[i]
      BY <3>2, <3>3
    <3>5. Batches' = [i \in 1..Len(p) |-> p[i].batch]
      BY <2>1, <3>1, <3>3, <3>4 DEF Batches
    <3>6. PICK c : c = Append(bs, B)
      OBVIOUS
    <3>7. /\ c \in Seq(Groups) /\ Len(c) = Len(q) + 1 /\ c[Len(q) + 1] = B
          /\ \A i \in 1..Len(q) : c[i] = bs[i]
      BY <1>1, <3>2, <3>6
    <3>8. c = [i \in 1..Len(c) |-> c[i]]
      BY <3>7
    <3>9. \A i \in 1..Len(p) : p[i].batch = c[i]
      <4>1. \A i \in 1..Len(p) : i \in 1..Len(q) \/ i = Len(q) + 1
        BY <3>4
      <4> QED BY <3>2, <3>4, <3>7, <4>1
    <3> QED BY <3>1, <3>4, <3>5, <3>6, <3>7, <3>8, <3>9
  <2>3. Flying' \subseteq Flying /\ LanesOK(queue, writer.batch, Batches, flush.groups, flush.left)'
    BY <1>2, <1>3, <2>1, <2>2 DEF Flying, Lanes, LanesOK
  <2> QED BY <1>2, <2>3, PlacedLess
<1> QED BY <1>4, <1>5

\* What the fsync thread takes off its queue, and what it leaves.
LEMMA TakenGroups ==
  ASSUME WalTypes, NEW n \in Nat, TakeGroups(n)
  PROVE  /\ n \in 1..Len(fsyncQ) /\ Batches' \in Seq(Groups) /\ flush'.groups \in Seq(Groups)
         /\ Len(flush'.groups) = n /\ Len(Batches') = Len(fsyncQ) - n
         /\ \A i \in 1..n : flush'.groups[i] = Batches[i]
         /\ \A i \in 1..(Len(fsyncQ) - n) : Batches'[i] = Batches[n + i]
         /\ DOMAIN fsyncQ' = 1..(Len(fsyncQ) - n)
         /\ \A i \in 1..(Len(fsyncQ) - n) : fsyncQ'[i] = fsyncQ[n + i]
         /\ flush'.left = <<>> /\ flush'.stage = "sync"
         /\ flush'.files = UNION {fsyncQ[i].files : i \in 1..n}
         /\ UNCHANGED <<mem, queue, writer, callers>>
<1>1. PICK q, E : q = fsyncQ /\ E = [batch : Groups, files : SUBSET Nat]
  OBVIOUS
<1>2. q \in Seq(E) /\ Len(q) \in Nat /\ n \in 1..Len(q)
  BY <1>1 DEF WalTypes, FlushTypes, TakeGroups
<1>3. PICK b : b = SubSeq(q, n + 1, Len(q))
  OBVIOUS
<1>4. /\ b \in Seq(E) /\ Len(b) = Len(q) - n /\ \A i \in 1..(Len(q) - n) : b[i] = q[n + i]
  BY <1>2, <1>3, SplitSeq
<1>5. /\ fsyncQ' = b /\ flush'.left = <<>> /\ flush'.groups = [i \in 1..n |-> q[i].batch]
      /\ flush'.stage = "sync" /\ flush'.files = UNION {q[i].files : i \in 1..n}
      /\ UNCHANGED <<mem, queue, writer, callers>>
  BY <1>1, <1>3 DEF TakeGroups
<1>6. \A i \in 1..Len(q) : q[i].batch \in Groups /\ Batches[i] = q[i].batch
  BY <1>1, LaneTypes
<1>7. /\ \A i \in 1..n : i \in 1..Len(q)
      /\ \A i \in 1..(Len(q) - n) : n + i \in 1..Len(q)
      /\ n \in Nat /\ Len(q) - n \in Nat
  BY <1>2
<1>8. /\ flush'.groups \in Seq(Groups) /\ Len(flush'.groups) = n
      /\ \A i \in 1..n : flush'.groups[i] = Batches[i]
  <2>1. PICK g : g = [i \in 1..n |-> q[i].batch]
    OBVIOUS
  <2>2. g \in [1..n -> Groups] /\ \A i \in 1..n : g[i] = q[i].batch
    BY <1>6, <1>7, <2>1
  <2>3. g \in Seq(Groups) /\ Len(g) = n
    BY <1>7, <2>2
  <2> QED BY <1>5, <1>6, <1>7, <2>1, <2>2, <2>3
<1>9. /\ Batches' \in Seq(Groups) /\ Len(Batches') = Len(q) - n
      /\ \A i \in 1..(Len(q) - n) : Batches'[i] = Batches[n + i]
  <2>1. PICK m \in Nat : m = Len(q) - n
    BY <1>7
  <2>2. DOMAIN b = 1..m
    BY <1>4, <2>1
  <2>3. Batches' = [i \in 1..m |-> b[i].batch]
    BY <1>5, <2>2 DEF Batches
  <2>4. PICK g : g = [i \in 1..m |-> b[i].batch]
    OBVIOUS
  <2>5. \A i \in 1..m : b[i].batch = Batches[n + i] /\ Batches[n + i] \in Groups
    BY <1>4, <1>6, <1>7, <2>1
  <2>6. g \in [1..m -> Groups] /\ \A i \in 1..m : g[i] = Batches[n + i]
    BY <2>4, <2>5
  <2>7. g \in Seq(Groups) /\ Len(g) = m
    BY <2>6
  <2> QED BY <2>1, <2>3, <2>4, <2>6, <2>7
<1>10. DOMAIN fsyncQ' = 1..(Len(q) - n) /\ \A i \in 1..(Len(q) - n) : fsyncQ'[i] = q[n + i]
  BY <1>4, <1>5
<1>11. q = fsyncQ
  BY <1>1
<1>12. /\ n \in 1..Len(fsyncQ) /\ Len(Batches') = Len(fsyncQ) - n
       /\ \A i \in 1..(Len(fsyncQ) - n) : Batches'[i] = Batches[n + i]
  BY ONLY <1>2, <1>9, <1>11
<1>13. /\ DOMAIN fsyncQ' = 1..(Len(fsyncQ) - n)
       /\ \A i \in 1..(Len(fsyncQ) - n) : fsyncQ'[i] = fsyncQ[n + i]
  BY ONLY <1>10, <1>11
<1>14. flush'.files = UNION {fsyncQ[i].files : i \in 1..n}
  BY ONLY <1>5, <1>11
<1>15. flush'.left = <<>> /\ flush'.stage = "sync" /\ UNCHANGED <<mem, queue, writer, callers>>
  BY ONLY <1>5
<1> QED BY ONLY <1>8, <1>9, <1>12, <1>13, <1>14, <1>15

LEMMA PlacedTake ==
  ASSUME WalTypes, Placed, NEW n \in Nat, TakeGroups(n)
  PROVE  Placed'
<1>1. PICK F, b, a : F = Batches /\ b = Batches' /\ a = flush'.groups
  OBVIOUS
<1>2. /\ F \in Seq(Groups) /\ n \in 1..Len(F) /\ a \in Seq(Groups) /\ b \in Seq(Groups)
      /\ Len(a) = n /\ Len(b) = Len(F) - n
      /\ \A i \in 1..n : a[i] = F[i]
      /\ \A i \in 1..(Len(F) - n) : b[i] = F[n + i]
  BY <1>1, LaneTypes, TakenGroups
<1>3. PICK Q, B, G, L : Q = queue /\ B = writer.batch /\ G = flush.groups /\ L = flush.left
  OBVIOUS
<1>4. LanesOK(Q, B, b, a, <<>>) /\ Lanes(Q, B, b, a, <<>>) \subseteq Flying
  <2>1. LanesOK(Q, B, F, G, L) /\ Flying = Lanes(Q, B, F, G, L)
    BY <1>1, <1>3 DEF Placed, Flying
  <2>2. LanesOK(Q, B, b, a, <<>>) /\ Lanes(Q, B, b, a, <<>>) \subseteq Lanes(Q, B, F, G, L)
    <3>1. /\ AllOf(F) = AllOf(a) \cup AllOf(b)
          /\ UniqueAll(F) => UniqueAll(a) /\ UniqueAll(b) /\ AllOf(a) \cap AllOf(b) = {}
      BY <1>2, SplitGroups
    <3> QED BY <2>1, <3>1, NoLane DEF LanesOK, Lanes, Apart
  <2> QED BY <2>1, <2>2
<1>5. flush'.left = <<>> /\ UNCHANGED <<mem, queue, writer, callers>>
  BY TakenGroups
<1>6. Flying' \subseteq Flying /\ LanesOK(queue, writer.batch, Batches, flush.groups, flush.left)'
  BY <1>1, <1>3, <1>4, <1>5 DEF Flying, Lanes, LanesOK
<1>7. ToSet(writer'.left) \subseteq ToSet(writer'.batch)
  BY <1>5 DEF Placed
<1> QED BY <1>5, <1>6, <1>7, PlacedLess

LEMMA PlacedApply ==
  ASSUME WalTypes, Placed, ApplyGroup
  PROVE  Placed'
<1>1. PICK G : G = flush.groups
  OBVIOUS
<1>2. G \in Seq(Groups) /\ G # <<>>
  BY <1>1, LaneTypes DEF ApplyGroup, WalTypes, FlushTypes
<1>3. /\ flush'.groups = Tail(G) /\ flush'.left = Head(G)
      /\ UNCHANGED <<queue, writer, fsyncQ, callers>>
      /\ mem'.phase = mem.phase /\ mem'.fenced = mem.fenced
  BY <1>1 DEF ApplyGroup, WalTypes, FlushTypes, StoreTypes
<1>4. /\ LanesOK(queue, writer.batch, Batches, Tail(G), Head(G))
      /\ Lanes(queue, writer.batch, Batches, Tail(G), Head(G)) \subseteq Flying
  BY <1>1, <1>2, LaneApply DEF Placed, Flying
<1>5. Batches' = Batches
  BY <1>3 DEF Batches
<1>6. Flying' \subseteq Flying /\ LanesOK(queue, writer.batch, Batches, flush.groups, flush.left)'
  BY <1>3, <1>4, <1>5 DEF Flying, Lanes, LanesOK
<1>7. ToSet(writer'.left) \subseteq ToSet(writer'.batch)
  BY <1>3 DEF Placed
<1> QED BY <1>3, <1>6, <1>7, PlacedLess

\* The request at the head of the group is answered; the others stay where they are.
LEMMA Replied ==
  ASSUME WalTypes, ReplyOne
  PROVE  /\ flush.left \in Seq(Requests) /\ flush.left # <<>> /\ Head(flush.left) \in Requests
         /\ writer'.batch \in {writer.batch, <<>>} /\ flush'.groups \in {flush.groups, <<>>}
         /\ flush'.left \in {Tail(flush.left), <<>>}
         /\ writer' = writer \/ writer' = IdleWriter
         /\ callers'.accepted = callers.accepted
         /\ \A x \in Requests : callers'.reply[x] =
              IF x = Head(flush.left) THEN "ok" ELSE callers.reply[x]
         /\ UNCHANGED <<queue, fsyncQ, mem>>
<1>1. flush.left \in Seq(Requests) /\ flush.left # <<>>
  BY DEF ReplyOne, WalTypes, FlushTypes
<1>2. writer' = writer \/ writer' = IdleWriter
  BY DEF ReplyOne
<1>3. writer'.batch \in {writer.batch, <<>>}
  BY <1>2 DEF IdleWriter
<1>4. \/ flush' = [flush EXCEPT !.left = Tail(@)]
      \/ flush' = [flush EXCEPT !.stage = "apply", !.left = <<>>]
      \/ flush' = IdleFlush
  BY DEF ReplyOne
<1>5. flush'.groups \in {flush.groups, <<>>} /\ flush'.left \in {Tail(flush.left), <<>>}
  <2>1. flush \in [stage : {"idle", "sync", "apply", "reply"}, groups : Seq(Groups),
                   left : Seq(Requests), files : SUBSET Nat]
    BY DEF WalTypes, FlushTypes
  <2>2. CASE flush' = [flush EXCEPT !.left = Tail(@)]
    BY <2>1, <2>2
  <2>3. CASE flush' = [flush EXCEPT !.stage = "apply", !.left = <<>>]
    BY <2>1, <2>3
  <2>4. CASE flush' = IdleFlush
    BY <2>4 DEF IdleFlush
  <2> QED BY <1>4, <2>2, <2>3, <2>4
<1>6. PICK R, h : R = callers.reply /\ h = Head(flush.left)
  OBVIOUS
<1>7. R \in [Requests -> {"idle", "pending", "ok", "err"}] /\ h \in Requests
  BY <1>1, <1>6 DEF WalTypes, CallerTypes
<1>8. callers'.reply = [R EXCEPT ![h] = "ok"] /\ callers'.accepted = callers.accepted
  BY <1>6 DEF ReplyOne, WalTypes, CallerTypes
<1>9. \A x \in Requests : callers'.reply[x] = IF x = h THEN "ok" ELSE R[x]
  BY <1>7, <1>8
<1>10. UNCHANGED <<queue, fsyncQ, mem>>
  BY DEF ReplyOne
<1> QED BY <1>1, <1>2, <1>3, <1>5, <1>6, <1>7, <1>8, <1>9, <1>10

LEMMA PlacedReply ==
  ASSUME WalTypes, Placed, ReplyOne
  PROVE  Placed'
<1>1. PICK C, H, M, L : C = writer'.batch /\ H = flush'.groups /\ M = flush'.left /\ L = flush.left
  OBVIOUS
<1>2. /\ L \in Seq(Requests) /\ L # <<>> /\ C \in {writer.batch, <<>>} /\ H \in {flush.groups, <<>>}
      /\ M \in {Tail(L), <<>>}
      /\ UNCHANGED <<queue, fsyncQ, mem>>
      /\ \A x \in Requests : x # Head(L) => callers'.reply[x] = callers.reply[x]
  BY <1>1, Replied
<1>3. /\ LanesOK(queue, C, Batches, H, M) /\ Lanes(queue, C, Batches, H, M) \subseteq Flying
      /\ Head(L) \notin Lanes(queue, C, Batches, H, M)
  <2>1. PICK Q, B, F, G : Q = queue /\ B = writer.batch /\ F = Batches /\ G = flush.groups
    OBVIOUS
  <2>2. LanesOK(Q, B, F, G, L) /\ Flying = Lanes(Q, B, F, G, L)
    BY <1>1, <2>1 DEF Placed, Flying
  <2>3. /\ L \in Seq(Requests) /\ L # <<>>
        /\ C = B \/ C = <<>>
        /\ H = G \/ H = <<>>
        /\ M = Tail(L) \/ M = <<>>
    BY <1>2, <2>1
  <2>4. /\ LanesOK(Q, C, F, H, M) /\ Lanes(Q, C, F, H, M) \subseteq Lanes(Q, B, F, G, L)
        /\ Head(L) \notin Lanes(Q, C, F, H, M)
    <3>1. PICK h, t : h = Head(L) /\ t = Tail(L)
      OBVIOUS
    <3>2. /\ h \in ToSet(L) /\ ToSet(L) = {h} \cup ToSet(t)
          /\ Unique(L) => Unique(t) /\ h \notin ToSet(t)
      BY <2>3, <3>1, TailSet
    <3>3. Unique(M) /\ ToSet(M) \subseteq ToSet(L) \ {h}
      BY <2>2, <2>3, <3>1, <3>2, NoLane DEF LanesOK
    <3>4. UniqueAll(H) /\ AllOf(H) \subseteq AllOf(G) /\ Unique(C) /\ ToSet(C) \subseteq ToSet(B)
      BY <2>2, <2>3, NoLane DEF LanesOK
    <3>5. LanesOK(Q, C, F, H, M) /\ Lanes(Q, C, F, H, M) \subseteq Lanes(Q, B, F, G, L)
      BY <2>2, <3>3, <3>4 DEF LanesOK, Lanes, Apart
    <3>6. h \notin Lanes(Q, C, F, H, M)
      BY <2>2, <3>2, <3>3, <3>4 DEF LanesOK, Lanes, Apart
    <3> QED BY <3>1, <3>5, <3>6
  <2> QED BY <2>1, <2>2, <2>4
<1>4. Batches' = Batches
  BY <1>2 DEF Batches
<1>5. /\ Flying' = Lanes(queue, C, Batches, H, M)
      /\ LanesOK(queue, writer.batch, Batches, flush.groups, flush.left)'
  BY <1>1, <1>2, <1>3, <1>4 DEF Flying, Lanes, LanesOK
<1>6. ToSet(writer'.left) \subseteq ToSet(writer'.batch)
  <2>1. writer' = writer \/ writer' = IdleWriter
    BY Replied
  <2> QED BY <2>1, NoLane DEF Placed, IdleWriter
<1>7. \A r \in Flying' : callers'.reply[r] = callers.reply[r]
  BY <1>2, <1>3, <1>5, LaneTypes
<1> QED BY <1>2, <1>3, <1>5, <1>6, <1>7, PlacedLess

\* Nothing that is in progress moves in these steps.
LEMMA PlacedStill ==
  ASSUME WalTypes, Placed, UNCHANGED <<queue, fsyncQ>>,
         writer'.batch = writer.batch, ToSet(writer'.left) \subseteq ToSet(writer.left),
         flush'.groups = flush.groups, flush'.left = flush.left,
         mem'.phase = "up" <=> mem.phase = "up", mem.fenced => mem'.fenced,
         mem.phase # "up" => mem'.fenced = mem.fenced,
         Up' => callers' = callers
  PROVE  Placed'
<1>1. ToSet(writer'.left) \subseteq ToSet(writer'.batch)
  BY DEF Placed
<1> QED BY <1>1, PlacedSame

LEMMA PlacedQuiet ==
  ASSUME WalTypes, Placed,
         \/ AppendOne \/ RollBegin \/ RollCreate \/ RollSync \/ RollHead
         \/ SweepBegin \/ SweepStep \/ Tick \/ StartCutShort
         \/ \E s \in 1..MaxSegments : SyncFile(s) \/ LoseSegment(s)
         \/ UNCHANGED vars
  PROVE  Placed'
<1>1. UNCHANGED <<queue, fsyncQ, callers>>
  BY DEF AppendOne, RollBegin, RollCreate, RollSync, RollHead, SweepBegin, SweepStep, SweepSegment,
         SweepUnlink, Tick, StartCutShort, SyncFile, LoseSegment, vars
<1>2. writer'.batch = writer.batch /\ (writer'.left = writer.left \/ AppendOne)
  BY DEF AppendOne, RollBegin, RollCreate, RollSync, RollHead, SweepBegin, SweepStep, SweepSegment,
         SweepUnlink, Tick, StartCutShort, SyncFile, LoseSegment, vars, WalTypes, WriterTypes
<1>3. flush'.groups = flush.groups /\ flush'.left = flush.left
  BY DEF AppendOne, RollBegin, RollCreate, RollSync, RollHead, SweepBegin, SweepStep, SweepSegment,
         SweepUnlink, Tick, StartCutShort, SyncFile, LoseSegment, vars, WalTypes, FlushTypes
<1>4. mem'.phase = mem.phase /\ mem'.fenced = mem.fenced
  BY DEF AppendOne, RollBegin, RollCreate, RollSync, RollHead, SweepBegin, SweepStep, SweepSegment,
         SweepUnlink, Tick, StartCutShort, SyncFile, LoseSegment, vars, WalTypes, StoreTypes
<1>5. ToSet(writer'.left) \subseteq ToSet(writer.left)
  <2>1. CASE AppendOne
    <3>1. writer'.left = Tail(writer.left) /\ writer.left # <<>> /\ writer.left \in Seq(Requests)
      BY <2>1 DEF AppendOne, WalTypes, WriterTypes
    <3> QED BY <3>1, TailSet
  <2> QED BY <1>2, <2>1
<1> QED BY <1>1, <1>2, <1>3, <1>4, <1>5, PlacedStill

LEMMA PlacedLookup ==
  ASSUME WalTypes, Placed, NEW r \in Requests, Lookup(r)
  PROVE  Placed'
<1>1. /\ Up /\ callers.reply[r] = "err" /\ UNCHANGED <<mem, writer, queue, fsyncQ, flush>>
      /\ callers' = [callers EXCEPT !.reply[r] = "ok"]
  BY DEF Lookup
<1>2. r \notin Flying /\ ToSet(writer'.left) \subseteq ToSet(writer'.batch)
  BY <1>1 DEF Placed
<1>3. \A x \in Requests : x # r => callers'.reply[x] = callers.reply[x]
  BY <1>1 DEF WalTypes, CallerTypes
<1>4. \A x \in Flying : callers'.reply[x] = callers.reply[x]
  BY <1>2, <1>3, LaneTypes
<1> QED BY <1>1, <1>2, <1>4, PlacedSame

LEMMA PlacedError ==
  ASSUME WalTypes, Placed, WriterError \/ SyncError \/ FenceElsewhere
  PROVE  Placed'
<1>1. UNCHANGED <<queue, fsyncQ, writer, flush>>
  BY DEF WriterError, SyncError, FenceElsewhere
<1>2. mem.phase = "up" /\ mem' = [mem EXCEPT !.fenced = TRUE]
  BY DEF WriterError, SyncError, FenceElsewhere, Up
<1>3. mem'.phase = "up" /\ mem'.fenced
  BY <1>2 DEF WalTypes, StoreTypes
<1>4. ~Up'
  BY <1>3 DEF Up
<1> QED BY <1>1, <1>2, <1>3, <1>4, PlacedStill

LEMMA PlacedEmpty ==
  ASSUME queue = <<>>, writer.batch = <<>>, writer.left = <<>>, fsyncQ = <<>>,
         flush.groups = <<>>, flush.left = <<>>, ~mem.fenced
  PROVE  Placed
<1>1. Batches = <<>>
  BY DEF Batches
<1>2. Flying = {} /\ LanesOK(queue, writer.batch, Batches, flush.groups, flush.left)
  BY <1>1, NoLane DEF Flying, Lanes, LanesOK, Apart
<1> QED BY <1>2, NoLane DEF Placed

LEMMA PlacedCrash ==
  ASSUME WalTypes, Placed, Crash
  PROVE  Placed'
<1>1. /\ queue' = <<>> /\ writer' = IdleWriter /\ fsyncQ' = <<>> /\ flush' = IdleFlush
      /\ mem' = [mem EXCEPT !.phase = "down", !.fenced = FALSE, !.index = {}, !.todo = {}]
  BY DEF Crash
<1>2. ~mem'.fenced
  BY <1>1 DEF WalTypes, StoreTypes
<1>3. /\ writer'.batch = <<>> /\ writer'.left = <<>> /\ flush'.groups = <<>> /\ flush'.left = <<>>
  BY <1>1 DEF IdleWriter, IdleFlush
<1>4. Batches' = <<>>
  BY <1>1 DEF Batches
<1>5. Flying' = {} /\ LanesOK(queue, writer.batch, Batches, flush.groups, flush.left)'
  BY <1>1, <1>3, <1>4, NoLane DEF Flying, Lanes, LanesOK, Apart
<1> QED BY <1>2, <1>3, <1>5, NoLane DEF Placed

LEMMA PlacedStart ==
  ASSUME WalInv, Placed, StartStep
  PROVE  Placed'
<1>1. UNCHANGED <<queue, writer, fsyncQ, flush, callers>> /\ mem.phase # "up"
  BY DEF StartStep, Recover, RotateMark, RewriteOne, RotateCommit, OpenCreate, Open
<1>2. mem'.fenced = mem.fenced
  BY DEF StartStep, Recover, RotateMark, RewriteOne, RotateCommit, OpenCreate, Open, WalInv,
         WalTypes, StoreTypes
<1>3. Batches' = Batches
  BY <1>1 DEF Batches
<1>4. Flying' = Flying /\ LanesOK(queue, writer.batch, Batches, flush.groups, flush.left)'
  BY <1>1, <1>3 DEF Flying, Lanes, LanesOK, Placed
<1> QED BY <1>1, <1>2, <1>4 DEF Placed

LEMMA PlacedStep ==
  ASSUME WalInv, Placed, [Next]_vars
  PROVE  Placed'
<1>0. WalTypes
  BY DEF WalInv
<1>1. CASE \E r \in Requests : Submit(r) \/ Lookup(r)
  BY <1>0, <1>1, PlacedSubmit, PlacedLookup
<1>2. CASE WriterStep
  BY <1>0, <1>2, PlacedBatch, PlacedFinish, PlacedQuiet DEF WriterStep
<1>3. CASE FlushStep
  <2>1. CASE \E n \in 1..Cardinality(Requests) : TakeGroups(n)
    <3>1. PICK n : n \in 1..Cardinality(Requests) /\ TakeGroups(n)
      BY <2>1
    <3>2. n \in Nat
      BY <1>0, <3>1 DEF TakeGroups, WalTypes, FlushTypes
    <3> QED BY <1>0, <3>1, <3>2, PlacedTake
  <2>2. CASE \E s \in 1..MaxSegments : SyncFile(s)
    BY <1>0, <2>2, PlacedQuiet
  <2> QED BY <1>0, <1>3, <2>1, <2>2, PlacedApply, PlacedReply DEF FlushStep
<1>4. CASE \/ SweepBegin \/ SweepStep \/ Tick \/ StartCutShort \/ UNCHANGED vars
           \/ \E s \in 1..MaxSegments : LoseSegment(s)
  BY <1>0, <1>4, PlacedQuiet
<1>5. CASE WriterError \/ SyncError \/ FenceElsewhere
  BY <1>0, <1>5, PlacedError
<1>6. CASE Crash
  BY <1>0, <1>6, PlacedCrash
<1>7. CASE StartStep
  BY <1>7, PlacedStart
<1> QED BY <1>1, <1>2, <1>3, <1>4, <1>5, <1>6, <1>7 DEF Next

-----------------------------------------------------------------------------
(* What is in progress is kept.                                            *)

LEMMA KeptStays ==
  ASSUME KeptOn, NEW r \in Requests, NEW T, NEW U, T \subseteq U, Kept(r, T)
  PROVE  Kept(r, U)'
<1>1. Kept(r, T)'
  BY DEF KeptOn
<1> QED BY <1>1, KeptMore

LEMMA BatchStays ==
  ASSUME WalTypes, KeptOn, BatchKept, Unsynced \subseteq Unsynced',
         ToSet(writer'.batch) \ ToSet(writer'.left) \subseteq ToSet(writer.batch) \ ToSet(writer.left)
  PROVE  BatchKept'
<1>1. PICK T, U : T = Unsynced /\ U = Unsynced'
  OBVIOUS
<1>2. ToSet(writer.batch) \subseteq Requests
  BY LaneTypes, SetOfSeq
<1>3. ASSUME NEW r \in ToSet(writer'.batch) \ ToSet(writer'.left) PROVE Kept(r, U)'
  <2>1. r \in Requests /\ Kept(r, T)
    BY <1>1, <1>2, <1>3 DEF BatchKept
  <2> QED BY <1>1, <2>1, KeptStays
<1> QED BY <1>1, <1>3 DEF BatchKept, Kept

LEMMA BatchNone ==
  ASSUME ToSet(writer'.batch) \subseteq ToSet(writer'.left)
  PROVE  BatchKept'
BY DEF BatchKept

LEMMA BatchAppend ==
  ASSUME WalInv, KeptOn, BatchKept, Placed, Framed, AppendOne
  PROVE  BatchKept'
<1>0. WalTypes
  BY DEF WalInv
<1>1. PICK T, U, s, x : T = Unsynced /\ U = Unsynced' /\ s = mem.seg /\ x = Head(writer.left)
  OBVIOUS
<1>2. /\ writer.left \in Seq(Requests) /\ writer.left # <<>> /\ writer'.left = Tail(writer.left)
      /\ writer'.batch = writer.batch /\ writer'.pc = "append" /\ writer.pc = "append"
      /\ writer'.files = writer.files \cup {s} /\ mem' = mem /\ assoc' = assoc
  BY <1>0, <1>1 DEF AppendOne, WalTypes, WriterTypes
<1>3. T \subseteq U /\ s \in U
  BY <1>1, <1>2 DEF Unsynced
<1>4. s \in Segments /\ s >= assoc.anchor /\ assoc.anchor \in Nat /\ s \in Nat
  BY <1>0, <1>1, RunningFacts, ChainTypes DEF AppendOne, Up, WalInv
<1>5. PICK q \in Seq(Requests \cup {Torn}) : q = disk[s].frames
  BY <1>0, <1>4, FileFacts DEF WalTypes
<1>6. Segments' = Segments /\ disk'[s].frames = Append(q, x)
  <2>1. disk[s] \in Files /\ DOMAIN disk = Segments
    BY <1>0, <1>4, FileFacts DEF WalTypes, FileOK, Segments
  <2>2. disk' = [disk EXCEPT ![s].frames = Append(@, x), ![s].mtime = clock.now]
    BY <1>1 DEF AppendOne
  <2> QED BY <1>4, <1>5, <2>1, <2>2 DEF Files, Segments
<1>7. x \in Requests
  BY <1>0, <1>1, AppendedRecord
<1>8. Kept(x, U)'
  <2>1. PICK i : i = Len(q) + 1
    OBVIOUS
  <2>2. i \in 1..Len(disk'[s].frames) /\ disk'[s].frames[i] = x
    BY <1>5, <1>6, <1>7, <2>1
  <2>3. s \in Active'
    BY <1>2, <1>4, <1>6 DEF Active, AtOrAbove
  <2> QED BY <1>3, <2>2, <2>3, KeptThere
<1>9. ASSUME NEW r \in ToSet(writer'.batch) \ ToSet(writer'.left) PROVE Kept(r, U)'
  <2>1. r = x \/ r \in ToSet(writer.batch) \ ToSet(writer.left)
    BY <1>1, <1>2, <1>9, TailSet
  <2>2. CASE r # x
    <3>1. r \in Requests /\ Kept(r, T)
      BY <1>0, <1>1, <2>1, <2>2, LaneTypes, SetOfSeq DEF BatchKept
    <3> QED BY <1>3, <3>1, KeptStays
  <2> QED BY <1>8, <2>2
<1> QED BY <1>1, <1>9 DEF BatchKept, Kept

\* Group commit syncs the segment before it rolls.
LEMMA BatchRoll ==
  ASSUME WalInv, KeptOn, BatchKept, RollBegin
  PROVE  BatchKept'
<1>0. WalTypes
  BY DEF WalInv
<1>1. PICK T, U, s : T = Unsynced /\ U = Unsynced' /\ s = mem.seg
  OBVIOUS
<1>2. /\ writer'.left = writer.left /\ writer'.batch = writer.batch /\ writer'.pc = "roll"
      /\ writer.pc = "append" /\ writer'.files = writer.files /\ mem' = mem
  BY <1>0, <1>1 DEF RollBegin, WalTypes, WriterTypes
<1>3. CASE mem.mode = "pipeline"
  <2>1. Unsynced \subseteq Unsynced'
    BY <1>2, <1>3 DEF Unsynced
  <2> QED BY <1>0, <1>2, <2>1, BatchStays
<1>4. CASE mem.mode # "pipeline"
  <2>1. T = {s} /\ U = {}
    BY <1>1, <1>2, <1>4 DEF Unsynced
  <2>2. mem.mode = "sync"
    BY <1>0, <1>4, WalAssumption DEF WalTypes, StoreTypes
  <2>3. disk' = [disk EXCEPT ![s].durable = Len(disk[s].frames)]
    BY <1>1, <2>2 DEF RollBegin
  <2>4. s \in Segments
    BY <1>0, <1>1, RunningFacts DEF RollBegin, Up, WalInv
  <2>5. disk'[s].durable = Len(disk'[s].frames) /\ Len(disk'[s].frames) \in Nat
    BY <1>0, <2>3, <2>4, SyncedDisk, FileFacts DEF WalTypes
  <2>6. ASSUME NEW r \in ToSet(writer'.batch) \ ToSet(writer'.left) PROVE Kept(r, U)'
    <3>1. r \in Requests /\ Kept(r, T)
      BY <1>0, <1>1, <1>2, <2>6, LaneTypes, SetOfSeq DEF BatchKept
    <3>2. Kept(r, T)'
      BY <3>1 DEF KeptOn
    <3>3. Kept(r, T \ {s})'
      BY <2>5, <3>2, KeptSynced
    <3>4. T \ {s} = U
      BY <2>1
    <3> QED BY <3>3, <3>4
  <2> QED BY <1>1, <2>6 DEF BatchKept, Kept
<1> QED BY <1>3, <1>4

LEMMA QueuedStays ==
  ASSUME WalTypes, KeptOn, QueuedKept, fsyncQ' = fsyncQ
  PROVE  QueuedKept'
<1>1. ASSUME NEW i \in DOMAIN fsyncQ', NEW r \in ToSet(fsyncQ'[i].batch), NEW U, U = fsyncQ'[i].files
      PROVE  Kept(r, U)'
  <2>1. i \in DOMAIN fsyncQ /\ r \in ToSet(fsyncQ[i].batch) /\ U = fsyncQ[i].files
    BY <1>1
  <2>2. DOMAIN fsyncQ = 1..Len(fsyncQ)
    BY DEF WalTypes, FlushTypes
  <2>3. r \in Requests
    <3>1. fsyncQ[i].batch \in Groups
      BY <2>1, <2>2, LaneTypes
    <3>2. fsyncQ[i].batch \in Seq(Requests)
      BY <3>1 DEF Groups
    <3> QED BY <2>1, <3>2, SetOfSeq
  <2>4. Kept(r, U)
    BY <2>1 DEF QueuedKept
  <2> QED BY <2>3, <2>4 DEF KeptOn
<1> QED BY <1>1 DEF QueuedKept, Kept

LEMMA QueuedFinish ==
  ASSUME WalInv, KeptOn, QueuedKept, BatchKept, FinishBatch
  PROVE  QueuedKept'
<1>0. WalTypes
  BY DEF WalInv
<1>1. CASE mem.mode = "sync"
  BY <1>0, <1>1, QueuedStays DEF FinishBatch
<1>2. CASE mem.mode # "sync"
  <2>1. PICK q, e, E, T : /\ q = fsyncQ /\ e = [batch |-> writer.batch, files |-> writer.files]
                          /\ E = [batch : Groups, files : SUBSET Nat] /\ T = writer.files
    OBVIOUS
  <2>2. q \in Seq(E) /\ e \in E /\ e.batch = writer.batch /\ e.files = T
    <3>1. writer.batch \in Groups
      BY <1>0, LaneTypes DEF FinishBatch, WalTypes, WriterTypes, Appending, Groups
    <3> QED BY <1>0, <2>1, <3>1 DEF WalTypes, FlushTypes, WriterTypes
  <2>3. fsyncQ' = Append(q, e)
    BY <1>2, <2>1 DEF FinishBatch
  <2>4. ASSUME NEW i \in DOMAIN fsyncQ' PROVE (i \in 1..Len(q) /\ fsyncQ'[i] = q[i]) \/ fsyncQ'[i] = e
    BY <2>2, <2>3, <2>4
  <2>5. \A r \in ToSet(writer.batch) : r \in Requests /\ Kept(r, T)
    <3>1. mem.mode = "pipeline"
      BY <1>0, <1>2, WalAssumption DEF WalTypes, StoreTypes
    <3>2. T = Unsynced
      BY <2>1, <3>1 DEF Unsynced
    <3>3. ToSet(writer.left) = {}
      BY NoLane DEF FinishBatch
    <3> QED BY <1>0, <3>2, <3>3, LaneTypes, SetOfSeq DEF BatchKept
  <2>6. \A i \in 1..Len(q) : \A r \in ToSet(q[i].batch) : r \in Requests /\ Kept(r, q[i].files)
    <3>1. SUFFICES ASSUME NEW i \in 1..Len(q), NEW r \in ToSet(q[i].batch)
                   PROVE  r \in Requests /\ Kept(r, q[i].files)
      OBVIOUS
    <3>2. q[i].batch \in Seq(Requests)
      BY <1>0, <2>1, LaneTypes DEF Groups
    <3>3. i \in DOMAIN fsyncQ
      BY <2>1, <2>2
    <3> QED BY <2>1, <3>2, <3>3, SetOfSeq DEF QueuedKept
  <2>7. ASSUME NEW i \in DOMAIN fsyncQ', NEW r \in ToSet(fsyncQ'[i].batch), NEW U, U = fsyncQ'[i].files
        PROVE  Kept(r, U)'
    <3>1. r \in Requests /\ Kept(r, U)
      <4>1. CASE fsyncQ'[i] = e
        BY <2>2, <2>5, <2>7, <4>1
      <4>2. CASE i \in 1..Len(q) /\ fsyncQ'[i] = q[i]
        BY <2>6, <2>7, <4>2
      <4> QED BY <2>4, <4>1, <4>2
    <3> QED BY <3>1 DEF KeptOn
  <2> QED BY <2>7 DEF QueuedKept, Kept
<1> QED BY <1>1, <1>2

LEMMA QueuedTake ==
  ASSUME WalTypes, KeptOn, QueuedKept, NEW n \in Nat, TakeGroups(n)
  PROVE  QueuedKept'
<1>1. /\ n \in 1..Len(fsyncQ) /\ DOMAIN fsyncQ' = 1..(Len(fsyncQ) - n)
      /\ \A i \in 1..(Len(fsyncQ) - n) : fsyncQ'[i] = fsyncQ[n + i]
  BY TakenGroups
<1>2. Len(fsyncQ) \in Nat /\ DOMAIN fsyncQ = 1..Len(fsyncQ)
  BY DEF WalTypes, FlushTypes
<1>3. ASSUME NEW i \in DOMAIN fsyncQ', NEW r \in ToSet(fsyncQ'[i].batch), NEW U, U = fsyncQ'[i].files
      PROVE  Kept(r, U)'
  <2>1. PICK j \in 1..Len(fsyncQ) : fsyncQ'[i] = fsyncQ[j]
    BY <1>1, <1>2, <1>3
  <2>2. fsyncQ[j].batch \in Seq(Requests)
    BY LaneTypes DEF Groups
  <2>3. r \in Requests
    BY <1>3, <2>1, <2>2, SetOfSeq
  <2>4. Kept(r, U)
    BY <1>2, <1>3, <2>1 DEF QueuedKept
  <2> QED BY <2>3, <2>4 DEF KeptOn
<1> QED BY <1>3 DEF QueuedKept, Kept

LEMMA GroupRequests ==
  ASSUME WalTypes
  PROVE  AllOf(flush.groups) \subseteq Requests
<1>1. ASSUME NEW i \in 1..Len(flush.groups) PROVE ToSet(flush.groups[i]) \subseteq Requests
  <2>1. flush.groups[i] \in Seq(Requests)
    <3>1. flush.groups[i] \in Groups
      BY <1>1, LaneTypes
    <3> QED BY <3>1 DEF Groups
  <2> QED BY <2>1, SetOfSeq
<1> QED BY <1>1, LaneTypes, SetOfGroups

LEMMA GroupsStay ==
  ASSUME WalTypes, KeptOn, GroupsKept, AllOf(flush'.groups) \subseteq AllOf(flush.groups),
         Unflushed \subseteq Unflushed'
  PROVE  GroupsKept'
<1>1. PICK T, U : T = Unflushed /\ U = Unflushed'
  OBVIOUS
<1>2. ASSUME NEW r \in AllOf(flush'.groups) PROVE Kept(r, U)'
  <2>1. r \in Requests /\ Kept(r, T)
    BY <1>1, <1>2, GroupRequests DEF GroupsKept
  <2> QED BY <1>1, <2>1, KeptStays
<1> QED BY <1>1, <1>2 DEF GroupsKept, Kept

LEMMA GroupsFinish ==
  ASSUME WalInv, KeptOn, GroupsKept, BatchKept, FinishBatch
  PROVE  GroupsKept'
<1>0. WalTypes
  BY DEF WalInv
<1>1. CASE mem.mode # "sync"
  <2>1. flush' = flush
    BY <1>1 DEF FinishBatch
  <2>2. AllOf(flush'.groups) \subseteq AllOf(flush.groups) /\ Unflushed \subseteq Unflushed'
    BY <2>1 DEF Unflushed
  <2> QED BY <1>0, <2>2, GroupsStay
<1>2. CASE mem.mode = "sync"
  <2>1. /\ flush' = [stage |-> "sync", groups |-> <<writer.batch>>, left |-> <<>>, files |-> {mem.seg}]
        /\ writer.pc = "append" /\ writer.left = <<>>
    BY <1>2 DEF FinishBatch
  <2>2. PICK U : U = {mem.seg}
    OBVIOUS
  <2>3. Unflushed' = U /\ Unsynced = U
    BY <1>2, <2>1, <2>2 DEF Unflushed, Unsynced
  <2>4. flush'.groups = <<writer.batch>>
    BY <2>1
  <2>5. AllOf(flush'.groups) = ToSet(writer.batch)
    BY <2>4, OneGroup
  <2>6. ASSUME NEW r \in AllOf(flush'.groups) PROVE Kept(r, U)'
    <3>1. r \in Requests /\ Kept(r, U)
      BY <1>0, <2>1, <2>3, <2>5, <2>6, NoLane, LaneTypes, SetOfSeq DEF BatchKept
    <3> QED BY <3>1 DEF KeptOn
  <2> QED BY <2>3, <2>6 DEF GroupsKept, Kept
<1> QED BY <1>1, <1>2

LEMMA GroupsTake ==
  ASSUME WalTypes, KeptOn, QueuedKept, NEW n \in Nat, TakeGroups(n)
  PROVE  GroupsKept'
<1>1. /\ n \in 1..Len(fsyncQ) /\ flush'.groups \in Seq(Groups) /\ Len(flush'.groups) = n
      /\ \A i \in 1..n : flush'.groups[i] = Batches[i]
      /\ flush'.stage = "sync" /\ flush'.files = UNION {fsyncQ[i].files : i \in 1..n}
  BY TakenGroups
<1>2. PICK U : U = UNION {fsyncQ[i].files : i \in 1..n}
  OBVIOUS
<1>3. Unflushed' = U
  BY <1>1, <1>2 DEF Unflushed
<1>4. Len(fsyncQ) \in Nat /\ DOMAIN fsyncQ = 1..Len(fsyncQ)
  BY DEF WalTypes, FlushTypes
<1>5. ASSUME NEW r \in AllOf(flush'.groups) PROVE Kept(r, U)'
  <2>1. PICK gs : gs = flush'.groups
    OBVIOUS
  <2>2. gs \in Seq(Groups) /\ Len(gs) = n /\ r \in AllOf(gs)
    BY <1>1, <1>5, <2>1
  <2>3. PICK i \in 1..n : r \in ToSet(gs[i])
    BY <2>2, SetOfGroups
  <2>4. i \in 1..Len(fsyncQ) /\ gs[i] = fsyncQ[i].batch
    <3>1. i \in 1..Len(fsyncQ)
      BY <1>1, <1>4
    <3>2. Batches[i] = fsyncQ[i].batch
      BY <3>1, LaneTypes
    <3>3. gs[i] = Batches[i]
      BY <1>1, <2>1
    <3> QED BY <3>1, <3>2, <3>3
  <2>5. gs[i] \in Seq(Requests)
    BY <2>4, LaneTypes DEF Groups
  <2>6. PICK T : T = fsyncQ[i].files
    OBVIOUS
  <2>7. r \in Requests /\ Kept(r, T) /\ T \subseteq U
    <3>1. r \in Requests
      BY <2>3, <2>5, SetOfSeq
    <3>2. Kept(r, T)
      BY <1>4, <2>3, <2>4, <2>6 DEF QueuedKept
    <3>3. T \subseteq U
      BY <1>2, <2>6
    <3> QED BY <3>1, <3>2, <3>3
  <2> QED BY <2>7, KeptStays
<1> QED BY <1>3, <1>5 DEF GroupsKept, Kept

LEMMA GroupsSync ==
  ASSUME WalTypes, KeptOn, GroupsKept, NEW s, SyncFile(s)
  PROVE  GroupsKept'
<1>1. PICK T, U : T = Unflushed /\ U = Unflushed'
  OBVIOUS
<1>2. /\ flush'.groups = flush.groups /\ flush'.files = flush.files \ {s} /\ flush.stage = "sync"
      /\ flush'.stage = IF flush.files = {s} THEN "apply" ELSE "sync"
  BY DEF SyncFile, WalTypes, FlushTypes
<1>3. T \ {s} = U
  BY <1>1, <1>2 DEF Unflushed
<1>4. s \in Segments => disk'[s].durable = Len(disk'[s].frames) /\ Len(disk'[s].frames) \in Nat
  <2>1. SUFFICES ASSUME s \in Segments
                 PROVE  disk'[s].durable = Len(disk'[s].frames) /\ Len(disk'[s].frames) \in Nat
    OBVIOUS
  <2>2. disk' = [disk EXCEPT ![s].durable = Len(disk[s].frames)]
    BY <2>1 DEF SyncFile
  <2> QED BY <2>1, <2>2, SyncedDisk, FileFacts DEF WalTypes
<1>5. s \in Active' => s \in Segments
  <2>1. Segments' = Segments
    <3>1. CASE s \in Segments
      <4>1. disk' = [disk EXCEPT ![s].durable = Len(disk[s].frames)]
        BY <3>1 DEF SyncFile
      <4> QED BY <4>1, SyncedDisk DEF SameHeaders, WalTypes
    <3>2. CASE s \notin Segments
      BY <3>2 DEF SyncFile, Segments
    <3> QED BY <3>1, <3>2
  <2> QED BY <2>1 DEF Active, AtOrAbove
<1>6. ASSUME NEW r \in AllOf(flush'.groups) PROVE Kept(r, U)'
  <2>1. r \in Requests /\ Kept(r, T)
    BY <1>1, <1>2, <1>6, GroupRequests DEF GroupsKept
  <2>2. Kept(r, T)'
    BY <2>1 DEF KeptOn
  <2>3. Kept(r, T \ {s})'
    BY <1>4, <1>5, <2>2, KeptSynced
  <2> QED BY <1>3, <2>3
<1> QED BY <1>1, <1>6 DEF GroupsKept, Kept

LEMMA LeftStays ==
  ASSUME WalTypes, CallersGo, LeftKept, ToSet(flush'.left) \subseteq ToSet(flush.left),
         \A r \in mem.index : r \in mem'.index \/ Due(r)
  PROVE  LeftKept'
<1>1. ToSet(flush.left) \subseteq Requests
  BY LaneTypes, SetOfSeq
<1>2. ASSUME NEW r \in ToSet(flush'.left) PROVE r \in mem'.index \/ Due(r)'
  <2>1. r \in Requests /\ (r \in mem.index \/ Due(r))
    BY <1>1, <1>2 DEF LeftKept
  <2> QED BY <2>1 DEF CallersGo
<1> QED BY <1>2 DEF LeftKept

LEMMA LeftApply ==
  ASSUME WalTypes, ApplyGroup
  PROVE  LeftKept'
<1>1. flush'.left = Head(flush.groups) /\ mem'.index = mem.index \cup ToSet(Head(flush.groups))
  BY DEF ApplyGroup, WalTypes, FlushTypes, StoreTypes
<1> QED BY <1>1 DEF LeftKept

\* Actions that leave the requests in progress where they are.
LEMMA FlightQuiet ==
  ASSUME WalTypes, KeptOn, CallersGo, Up, FlightKept, UNCHANGED <<writer, fsyncQ, flush>>,
         mem'.mode = mem.mode, mem'.seg = mem.seg,
         \A r \in mem.index : r \in mem'.index \/ Due(r)
  PROVE  FlightKept'
<1>1. Unsynced' = Unsynced /\ Unflushed' = Unflushed
  BY DEF Unsynced, Unflushed
<1>2. BatchKept /\ QueuedKept /\ GroupsKept /\ LeftKept
  BY DEF FlightKept
<1>3. BatchKept'
  BY <1>1, <1>2, BatchStays
<1>4. QueuedKept'
  BY <1>2, QueuedStays
<1>5. GroupsKept'
  BY <1>1, <1>2, GroupsStay
<1>6. LeftKept'
  BY <1>2, LeftStays
<1> QED BY <1>3, <1>4, <1>5, <1>6 DEF FlightKept

LEMMA FlightWriter ==
  ASSUME WalInv, KeptOn, CallersGo, Placed, Framed, Up, FlightKept, WriterStep
  PROVE  FlightKept'
<1>0. WalTypes /\ BatchKept /\ QueuedKept /\ GroupsKept /\ LeftKept
  BY DEF WalInv, FlightKept
<1>1. mem'.index = mem.index /\ mem'.mode = mem.mode
  BY <1>0 DEF WriterStep, TakeBatch, AppendOne, RollBegin, RollCreate, RollSync, RollHead, FinishBatch,
              WalTypes, StoreTypes
<1>2. CASE FinishBatch
  <2>1. writer'.batch = <<>> /\ writer'.left = <<>>
    BY <1>2 DEF FinishBatch, IdleWriter
  <2>2. BatchKept'
    BY <2>1, BatchNone
  <2>3. ToSet(flush'.left) \subseteq ToSet(flush.left)
    BY <1>2, NoLane DEF FinishBatch
  <2>4. LeftKept'
    BY <1>0, <1>1, <2>3, LeftStays
  <2> QED BY <1>0, <1>2, <2>2, <2>4, QueuedFinish, GroupsFinish DEF FlightKept
<1>3. CASE ~FinishBatch
  <2>1. UNCHANGED <<fsyncQ, flush>>
    BY <1>3 DEF WriterStep, TakeBatch, AppendOne, RollBegin, RollCreate, RollSync, RollHead
  <2>2. QueuedKept' /\ LeftKept'
    BY <1>0, <1>1, <2>1, QueuedStays, LeftStays
  <2>3. Unflushed' = Unflushed
    BY <2>1 DEF Unflushed
  <2>4. GroupsKept'
    BY <1>0, <2>1, <2>3, GroupsStay
  <2>5. BatchKept'
    <3>1. CASE \E n \in 1..BatchMax : TakeBatch(n)
      <4>1. writer'.batch = writer'.left
        BY <3>1 DEF TakeBatch
      <4> QED BY <4>1, BatchNone
    <3>2. CASE AppendOne
      BY <1>0, <3>2, BatchAppend
    <3>3. CASE RollBegin
      BY <1>0, <3>3, BatchRoll
    <3>4. CASE RollCreate \/ RollSync \/ RollHead
      <4>1. writer'.batch = writer.batch /\ writer'.left = writer.left /\ writer'.files = writer.files
        BY <1>0, <3>4 DEF RollCreate, RollSync, RollHead, WalTypes, WriterTypes
      <4>2. writer.pc # "append"
        BY <3>4 DEF RollCreate, RollSync, RollHead
      <4>3. Unsynced \subseteq Unsynced'
        BY <1>1, <4>1, <4>2 DEF Unsynced
      <4> QED BY <1>0, <4>1, <4>3, BatchStays
    <3> QED BY <1>3, <3>1, <3>2, <3>3, <3>4 DEF WriterStep
  <2> QED BY <2>2, <2>4, <2>5 DEF FlightKept
<1> QED BY <1>2, <1>3

LEMMA FlightFlush ==
  ASSUME WalInv, KeptOn, CallersGo, Placed, Up, FlightKept, FlushStep
  PROVE  FlightKept'
<1>0. WalTypes /\ BatchKept /\ QueuedKept /\ GroupsKept /\ LeftKept
  BY DEF WalInv, FlightKept
<1>1. mem.index \subseteq mem'.index /\ mem'.mode = mem.mode /\ mem'.seg = mem.seg
  <2>1. CASE ApplyGroup
    BY <1>0, <2>1 DEF ApplyGroup, WalTypes, StoreTypes
  <2>2. CASE ~ApplyGroup
    <3>1. mem' = mem
      BY <2>2 DEF FlushStep, TakeGroups, SyncFile, ReplyOne
    <3> QED BY <3>1
  <2> QED BY <2>1, <2>2
<1>2. BatchKept'
  <2>1. CASE writer' = writer
    <3>1. Unsynced' = Unsynced
      BY <1>1, <2>1 DEF Unsynced
    <3> QED BY <1>0, <2>1, <3>1, BatchStays
  <2>2. CASE writer' = IdleWriter
    <3>1. writer'.batch = <<>> /\ writer'.left = <<>>
      BY <2>2 DEF IdleWriter
    <3> QED BY <3>1, BatchNone
  <2> QED BY <2>1, <2>2 DEF FlushStep, TakeGroups, SyncFile, ApplyGroup, ReplyOne
<1>3. CASE \E n \in 1..Cardinality(Requests) : TakeGroups(n)
  <2>1. PICK n : n \in 1..Cardinality(Requests) /\ TakeGroups(n)
    BY <1>3
  <2>2. n \in Nat
    BY <1>0, <2>1 DEF TakeGroups, WalTypes, FlushTypes
  <2>3. flush'.left = <<>>
    BY <1>0, <2>1, <2>2, TakenGroups
  <2>4. LeftKept'
    BY <1>0, <1>1, <2>3, NoLane, LeftStays
  <2> QED BY <1>0, <1>2, <2>1, <2>2, <2>4, QueuedTake, GroupsTake DEF FlightKept
<1>4. CASE \E s \in 1..MaxSegments : SyncFile(s)
  <2>1. PICK s \in 1..MaxSegments : SyncFile(s)
    BY <1>4
  <2>2. fsyncQ' = fsyncQ /\ flush'.left = flush.left
    BY <1>0, <2>1 DEF SyncFile, WalTypes, FlushTypes
  <2>3. QueuedKept' /\ LeftKept' /\ GroupsKept'
    BY <1>0, <1>1, <2>1, <2>2, QueuedStays, LeftStays, GroupsSync
  <2> QED BY <1>2, <2>3 DEF FlightKept
<1>5. CASE ApplyGroup
  <2>1. /\ fsyncQ' = fsyncQ /\ flush.stage = "apply" /\ flush'.stage = "reply"
        /\ flush'.groups = Tail(flush.groups)
    BY <1>0, <1>5 DEF ApplyGroup, WalTypes, FlushTypes
  <2>2. flush.groups \in Seq(Groups) /\ flush.groups # <<>>
    BY <1>0, <2>1, LaneTypes DEF WalTypes, FlushTypes
  <2>3. AllOf(flush'.groups) \subseteq AllOf(flush.groups)
    BY <2>1, <2>2, HeadGroup
  <2>4. Unflushed = {} /\ Unflushed' = {}
    BY <2>1 DEF Unflushed
  <2>5. GroupsKept' /\ QueuedKept' /\ LeftKept'
    BY <1>0, <1>5, <2>1, <2>3, <2>4, GroupsStay, QueuedStays, LeftApply
  <2> QED BY <1>2, <2>5 DEF FlightKept
<1>6. CASE ReplyOne
  <2>1. /\ fsyncQ' = fsyncQ /\ flush.stage = "reply"
    BY <1>6 DEF ReplyOne
  <2>2. /\ flush.left \in Seq(Requests) /\ flush.left # <<>>
        /\ flush'.groups \in {flush.groups, <<>>} /\ flush'.left \in {Tail(flush.left), <<>>}
    BY <1>0, <1>6, Replied
  <2>3. AllOf(flush'.groups) \subseteq AllOf(flush.groups)
    BY <2>2, NoLane
  <2>4. Unflushed = {}
    BY <2>1 DEF Unflushed
  <2>5. ToSet(flush'.left) \subseteq ToSet(flush.left)
    <3>1. ToSet(Tail(flush.left)) \subseteq ToSet(flush.left)
      BY <2>2, TailSet
    <3> QED BY <2>2, <3>1, NoLane
  <2>6. GroupsKept' /\ QueuedKept' /\ LeftKept'
    BY <1>0, <1>1, <2>1, <2>3, <2>4, <2>5, GroupsStay, QueuedStays, LeftStays
  <2> QED BY <1>2, <2>6 DEF FlightKept
<1> QED BY <1>3, <1>4, <1>5, <1>6 DEF FlushStep

LEMMA FlightNone ==
  ASSUME WalTypes, mem.phase # "up", Placed, UNCHANGED <<writer, fsyncQ, flush>>
  PROVE  FlightKept'
<1>1. Flying = {}
  BY DEF Placed
<1>2. /\ ToSet(writer.batch) = {} /\ AllOf(Batches) = {} /\ AllOf(flush.groups) = {} /\ ToSet(flush.left) = {}
  BY <1>1 DEF Flying, Lanes
<1>3. \A i \in DOMAIN fsyncQ : ToSet(fsyncQ[i].batch) = {}
  <2>1. PICK bs : bs = Batches
    OBVIOUS
  <2>2. bs \in Seq(Groups) /\ Len(bs) = Len(fsyncQ) /\ AllOf(bs) = {}
    BY <1>2, <2>1, LaneTypes
  <2>3. \A i \in 1..Len(bs) : ToSet(bs[i]) = {}
    BY <2>2, SetOfGroups
  <2>4. \A i \in 1..Len(fsyncQ) : bs[i] = fsyncQ[i].batch
    BY <2>1, LaneTypes
  <2>5. DOMAIN fsyncQ = 1..Len(fsyncQ)
    BY DEF WalTypes, FlushTypes
  <2> QED BY <2>2, <2>3, <2>4, <2>5
<1>4. BatchKept' /\ GroupsKept' /\ LeftKept'
  BY <1>2 DEF BatchKept, GroupsKept, LeftKept
<1>5. QueuedKept'
  BY <1>3 DEF QueuedKept
<1> QED BY <1>4, <1>5 DEF FlightKept

LEMMA FlightStep ==
  ASSUME WalInv, Placed, Framed, Clean, Retired, FlightKept, CallersGo, [Next]_vars
  PROVE  FlightKept'
<1>0. WalTypes
  BY DEF WalInv
<1>1. SUFFICES ASSUME Up' PROVE FlightKept'
  BY DEF FlightKept
<1>2. CASE Opens
  <2>1. mem.phase # "up" /\ UNCHANGED <<writer, fsyncQ, flush>>
    BY <1>2, OpenRow
  <2> QED BY <1>0, <2>1, FlightNone
<1>3. CASE ~Opens
  <2>1. ~Reads /\ ~Crash /\ Up /\ ~(\E s \in 1..MaxSegments : LoseSegment(s))
    <3>1. ~Reads /\ ~Crash
      BY <1>0, <1>1 DEF Reads, Recover, RotateMark, RotateCommit, StartCutShort, Crash, Up, WalTypes, StoreTypes
    <3>2. Up
      BY <1>1, <1>3, <3>1, RowStep DEF RowGrows, Up
    <3> QED BY <3>1, <3>2 DEF LoseSegment, Up
  <2>2. KeptOn
    BY <2>1, KeptStep
  <2>3. CASE WriterStep
    BY <2>1, <2>2, <2>3, FlightWriter
  <2>4. CASE FlushStep
    BY <2>1, <2>2, <2>4, FlightFlush
  <2>5. CASE (\E r \in Requests : Submit(r) \/ Lookup(r)) \/ SweepBegin \/ SweepStep \/ Tick \/ UNCHANGED vars
    <3>1. UNCHANGED <<writer, fsyncQ, flush>>
      BY <2>5 DEF Submit, Lookup, SweepBegin, SweepStep, SweepSegment, SweepUnlink, Tick, vars
    <3>2. mem'.mode = mem.mode /\ mem'.seg = mem.seg /\ (mem'.index = mem.index \/ mem'.index = mem.index \ DueSet)
      BY <1>0, <2>5 DEF Submit, Lookup, SweepBegin, SweepStep, SweepSegment, SweepUnlink, Tick, vars,
                        WalTypes, StoreTypes
    <3>3. \A r \in mem.index : r \in mem'.index \/ Due(r)
      BY <3>2 DEF DueSet
    <3> QED BY <1>0, <2>1, <2>2, <3>1, <3>2, <3>3, FlightQuiet
  <2>6. CASE WriterError \/ SyncError \/ FenceElsewhere
    BY <1>0, <1>1, <2>6 DEF WriterError, SyncError, FenceElsewhere, Up, WalTypes, StoreTypes
  <2>7. CASE StartStep
    BY <1>3, <2>1, <2>7 DEF StartStep, Opens, Reads, RewriteOne, OpenCreate, Up
  <2> QED BY <2>1, <2>3, <2>4, <2>5, <2>6, <2>7 DEF Next, Reads
<1> QED BY <1>2, <1>3

-----------------------------------------------------------------------------
(* What a lookup finds is kept.                                            *)

LEMMA IndexSame ==
  ASSUME WalTypes, CallersGo, KeptOn, IndexKept, NEW r \in mem.index
  PROVE  callers'.reply[r] # "idle" /\ Kept(r, {})'
<1>1. r \in Requests
  BY DEF WalTypes, StoreTypes
<1>2. callers.reply[r] # "idle" /\ Kept(r, {})
  BY DEF IndexKept
<1>3. PICK T : T = {}
  OBVIOUS
<1>4. Kept(r, T)'
  BY <1>1, <1>2, <1>3 DEF KeptOn
<1> QED BY <1>1, <1>2, <1>3, <1>4 DEF CallersGo

LEMMA IndexApply ==
  ASSUME WalTypes, CallersGo, KeptOn, Placed, FlightKept, IndexKept, ApplyGroup
  PROVE  IndexKept'
<1>1. /\ mem'.index = mem.index \cup ToSet(Head(flush.groups)) /\ mem'.phase = "up" /\ Up
      /\ flush.stage = "apply"
  BY DEF ApplyGroup, Up, WalTypes, StoreTypes
<1>2. flush.groups \in Seq(Groups) /\ flush.groups # <<>>
  BY <1>1, LaneTypes DEF WalTypes, FlushTypes
<1>3. ToSet(Head(flush.groups)) \subseteq AllOf(flush.groups)
  BY <1>2, HeadGroup
<1>4. Unflushed = {}
  BY <1>1 DEF Unflushed
<1>5. ASSUME NEW r \in ToSet(Head(flush.groups)) PROVE callers'.reply[r] # "idle" /\ Kept(r, {})'
  <2>1. r \in AllOf(flush.groups) /\ r \in Requests
    BY <1>3, <1>5, GroupRequests
  <2>2. PICK T : T = {}
    OBVIOUS
  <2>3. Kept(r, T)
    BY <1>1, <1>4, <2>1, <2>2 DEF FlightKept, GroupsKept
  <2>4. Kept(r, T)'
    BY <2>1, <2>3 DEF KeptOn
  <2>5. r \in Flying
    BY <2>1 DEF Flying, Lanes
  <2>6. callers.reply[r] # "idle"
    BY <1>1, <2>5 DEF Placed
  <2> QED BY <2>1, <2>2, <2>4, <2>6 DEF CallersGo
<1>6. \A r \in mem'.index : callers'.reply[r] # "idle" /\ Kept(r, {})'
  BY <1>1, <1>5, IndexSame
<1> QED BY <1>1, <1>6 DEF IndexKept

\* What start-up reads is synced, and was accepted.
LEMMA ReadKept ==
  ASSUME WalInv, Framed, NEW from \in Nat, Reading(from), FileTypes', callers' = callers,
         NEW r \in RecoveredIndex(from)
  PROVE  callers'.reply[r] # "idle" /\ Kept(r, {})'
<1>0. WalTypes
  BY DEF WalInv
<1>1. PICK s \in Segments : s >= from /\ r \in ToSet(Readable(disk[s].frames))
  BY DEF RecoveredIndex, AtOrAbove
<1>2. disk[s].frames \in Seq(Requests \cup {Torn})
  BY <1>0, FileFacts DEF WalTypes
<1>3. PICK f, q : f = disk[s].frames /\ q = Readable(f)
  OBVIOUS
<1>4. q \in Seq(Requests) /\ Len(q) \in 0..Len(f) /\ \A i \in 1..Len(q) : q[i] = f[i] /\ f[i] # Torn
  BY <1>2, <1>3, ReadableFrames
<1>5. PICK i \in 1..Len(q) : q[i] = r
  BY <1>1, <1>3, <1>4, SetOfSeq
<1>6. Len(f) \in Nat /\ i \in 1..Len(f) /\ f[i] = r /\ r # Torn
  BY <1>2, <1>3, <1>4, <1>5
<1>7. callers.reply[r] # "idle"
  BY <1>3, <1>6 DEF Framed, WellFramed
<1>8. disk'[s].frames = q /\ disk'[s].durable = Len(q) /\ s \in Segments' /\ s >= assoc'.anchor
  BY <1>1, <1>3 DEF Reading
<1>9. s \in Active'
  BY <1>8 DEF Active, AtOrAbove
<1>10. i \in 1..Len(disk'[s].frames) /\ disk'[s].frames[i] = r /\ i <= disk'[s].durable
  BY <1>4, <1>5, <1>8
<1>11. Kept(r, {})'
  BY <1>9, <1>10, KeptThere
<1> QED BY <1>7, <1>11

LEMMA IndexRead ==
  ASSUME WalInv, Framed, IndexKept, Reads
  PROVE  IndexKept'
<1>0. WalTypes
  BY DEF WalInv
<1>1. PICK from \in Nat : /\ Reading(from) /\ FileTypes'
                          /\ Recover \/ RotateCommit => mem'.index = RecoveredIndex(from)
  BY ReadingDisk
<1>2. callers' = callers
  BY DEF Reads, Recover, RotateMark, RotateCommit, StartCutShort
<1>3. CASE Recover \/ RotateCommit
  <2>1. mem'.phase = "recovered"
    BY <1>0, <1>3 DEF Recover, RotateCommit, WalTypes, StoreTypes
  <2>2. \A r \in mem'.index : callers'.reply[r] # "idle" /\ Kept(r, {})'
    BY <1>1, <1>2, <1>3, ReadKept
  <2> QED BY <2>1, <2>2 DEF IndexKept
<1>4. CASE RotateMark \/ StartCutShort
  <2>1. mem.phase = "down" /\ mem'.index = mem.index
    BY <1>0, <1>4 DEF RotateMark, StartCutShort, WalTypes, StoreTypes
  <2>2. mem'.index = {}
    BY <2>1 DEF IndexKept
  <2> QED BY <2>2 DEF IndexKept
<1> QED BY <1>3, <1>4 DEF Reads

LEMMA IndexStep ==
  ASSUME WalInv, Placed, Framed, Clean, Retired, FlightKept, IndexKept, CallersGo, [Next]_vars
  PROVE  IndexKept'
<1>0. WalTypes
  BY DEF WalInv
<1>1. CASE Reads
  BY <1>1, IndexRead
<1>2. CASE Crash
  <2>1. mem'.index = {}
    BY <1>0, <1>2 DEF Crash, WalTypes, StoreTypes
  <2> QED BY <2>1 DEF IndexKept
<1>3. CASE \E s \in 1..MaxSegments : LoseSegment(s)
  <2>1. mem.phase = "down" /\ mem' = mem
    BY <1>3 DEF LoseSegment
  <2>2. mem'.index = {}
    BY <2>1 DEF IndexKept
  <2> QED BY <2>2 DEF IndexKept
<1>4. CASE ~Reads /\ ~Crash /\ ~\E s \in 1..MaxSegments : LoseSegment(s)
  <2>1. KeptOn
    BY <1>4, KeptStep
  <2>2. CASE ApplyGroup
    BY <1>0, <2>1, <2>2, IndexApply
  <2>3. CASE ~ApplyGroup
    <3>1. mem'.index \subseteq mem.index
      BY <1>0, <1>4, <2>3 DEF Next, Reads, Submit, Lookup, WriterStep, TakeBatch, AppendOne, RollBegin,
         RollCreate, RollSync, RollHead, FinishBatch, FlushStep, TakeGroups, SyncFile, ReplyOne,
         SweepBegin, SweepStep, SweepSegment, SweepUnlink, StartStep, RewriteOne, OpenCreate, Open,
         WriterError, SyncError, FenceElsewhere, Tick, vars, WalTypes, StoreTypes
    <3>2. \A r \in mem'.index : callers'.reply[r] # "idle" /\ Kept(r, {})'
      BY <1>0, <2>1, <3>1, IndexSame
    <3>3. mem'.phase \notin {"up", "recovered"} => mem'.index = {}
      <4>1. CASE Opens
        BY <4>1, OpenRow
      <4>2. CASE ~Opens
        BY <1>4, <3>1, <4>2, RowStep DEF RowGrows, IndexKept
      <4> QED BY <4>1, <4>2
    <3> QED BY <3>2, <3>3 DEF IndexKept
  <2> QED BY <2>2, <2>3
<1> QED BY <1>1, <1>2, <1>3, <1>4

-----------------------------------------------------------------------------
(* What callers were told is kept.                                         *)

LEMMA EpochsStep ==
  ASSUME WalInv, Epochs, [Next]_vars
  PROVE  Epochs'
<1>0. WalTypes /\ assoc.inc \in Nat /\ served \in Nat
  BY ChainTypes DEF WalInv, WalTypes, CallerTypes
<1>1. CASE Opens
  <2>1. assoc'.inc = assoc.inc /\ served' = assoc.inc /\ mem.phase = "recovered"
    BY <1>1, OpenRow
  <2>2. ~assoc.pending
    BY <2>1 DEF WalInv, ChainInv, Recovered
  <2>3. assoc'.pending = assoc.pending
    BY <1>0, <1>1 DEF Opens, Open, WalTypes, StoreTypes
  <2> QED BY <1>0, <2>1, <2>2, <2>3 DEF Epochs
<1>2. CASE Crash
  <2>1. assoc' = assoc /\ served' = served /\ mem'.phase = "down"
    BY <1>0, <1>2 DEF Crash, WalTypes, StoreTypes
  <2> QED BY <2>1 DEF Epochs
<1>3. CASE Recover \/ RotateCommit
  <2>1. assoc'.inc = assoc.inc /\ served' = served /\ mem'.phase = "recovered"
    BY <1>0, <1>3 DEF Recover, RotateCommit, WalTypes, StoreTypes
  <2>2. ~assoc'.pending
    BY <1>0, <1>3 DEF Recover, RotateCommit, WalTypes, StoreTypes
  <2> QED BY <2>1, <2>2 DEF Epochs
<1>4. CASE RotateMark
  <2>1. /\ assoc'.inc = (IF assoc.pending THEN assoc.inc ELSE assoc.inc + 1) /\ served' = served
        /\ mem'.phase = "rewriting"
    BY <1>0, <1>4 DEF RotateMark, WalTypes, StoreTypes
  <2> QED BY <1>0, <2>1 DEF Epochs
<1>5. CASE ~Opens /\ ~Crash /\ ~Reads
  <2>1. RowGrows
    BY <1>5, RowStep
  <2> QED BY <2>1 DEF RowGrows, Epochs
<1>6. CASE StartCutShort
  BY <1>6 DEF StartCutShort, Epochs
<1> QED BY <1>1, <1>2, <1>3, <1>4, <1>5, <1>6 DEF Reads

\* Only a loss takes records away unseen.
LEMMA GoneSame ==
  ASSUME WalTypes, [Next]_vars, ~\E s \in 1..MaxSegments : LoseSegment(s)
  PROVE  clock'.gone = clock.gone
<1>1. CASE WriterError \/ SyncError \/ FenceElsewhere \/ Crash \/ Tick
  BY <1>1 DEF WriterError, SyncError, FenceElsewhere, Crash, Tick, WalTypes, CallerTypes
<1>2. CASE ~(WriterError \/ SyncError \/ FenceElsewhere \/ Crash \/ Tick)
  <2>1. clock' = clock
    BY <1>2 DEF Next, Submit, Lookup, WriterStep, TakeBatch, AppendOne, RollBegin, RollCreate, RollSync,
       RollHead, FinishBatch, FlushStep, TakeGroups, SyncFile, ApplyGroup, ReplyOne, SweepBegin,
       SweepStep, SweepSegment, SweepUnlink, StartStep, Recover, RotateMark, RewriteOne, RotateCommit,
       OpenCreate, Open, StartCutShort, vars
  <2> QED BY <2>1
<1> QED BY <1>1, <1>2

\* Below a head with records a start links no recorded file anew.
LEMMA NotResidue ==
  ASSUME WalInv, ~BareHead, assoc.head \in Segments, NEW t \in Segments, t <= assoc.head
  PROVE  Repaired(t) = disk[t]
<1>0. WalTypes /\ FileTypes /\ StoreTypes
  BY DEF WalInv, WalTypes
<1>1. SUFFICES ASSUME EmptyResidue(t) PROVE FALSE
  BY <1>0, RepairedFile
<1>2. t = Newest /\ assoc.head <= Newest /\ Newest \in Nat /\ assoc.head \in Nat
  BY <1>0, <1>1, ActiveSegments, ChainTypes DEF EmptyResidue
<1>3. t = assoc.head
  BY <1>2
<1>4. disk[t].header = "whole"
  BY DEF WalInv, ChainInv, FilesKept
<1>5. disk[t].frames = <<>>
  BY <1>1, <1>4 DEF EmptyResidue
<1>6. Readable(disk[t].frames) = <<>>
  <2>1. PICK q : q = Readable(disk[t].frames)
    OBVIOUS
  <2>2. q \in Seq(Requests) /\ Len(q) \in 0..0
    BY <1>0, <1>5, <2>1, FileFacts, ReadableFrames DEF FileOK, Files
  <2> QED BY <2>1, <2>2
<1> QED BY <1>2, <1>3, <1>6 DEF BareHead

\* A start that finds no mismatch has every recorded file, as far as it can see.
LEMMA MatchingWhole ==
  ASSUME WalInv, ~Mismatch, assoc.head # NoSegment
  PROVE  Whole
<1> SUFFICES ASSUME {assoc.anchor, assoc.head} \subseteq Segments, ~BareHead
             PROVE  Chain({s \in Active : s <= assoc.head})
  BY DEF Whole, Mismatch
<1>0. WalTypes /\ FileTypes /\ StoreTypes
  BY DEF WalInv, WalTypes
<1>1. PICK C : C = {s \in Active : s <= assoc.head}
  OBVIOUS
<1>2. /\ assoc.anchor \in Nat /\ assoc.head \in Nat /\ Segments \subseteq Nat
      /\ Active = {s \in Segments : s >= assoc.anchor}
  BY <1>0, ChainTypes
<1>3. assoc.head \in Segments /\ assoc.anchor \in Segments /\ assoc.anchor <= assoc.head
  BY DEF Mismatch, WalInv, ChainInv, FilesKept
<1>4. assoc.anchor \in C /\ assoc.head \in C /\ \A c \in C : assoc.anchor <= c /\ c <= assoc.head
  BY <1>1, <1>2, <1>3
<1>5. \A s \in Segments : assoc.anchor <= s /\ s <= assoc.head => s \in C
  BY <1>1, <1>2
<1>6. ASSUME NEW t \in C, t # assoc.anchor PROVE Below(C, disk[t].parent, t)
  <2>1. t \in Active /\ t \in Segments /\ t <= assoc.head /\ t \in Nat /\ assoc.anchor \in Active
        /\ assoc.anchor < t
    BY <1>1, <1>2, <1>3, <1>6
  <2>2. PICK p : p = Previous(t)
    OBVIOUS
  <2>3. p # NoSegment
    <3>1. p = NoSegment => \A u \in Active : u >= t
      BY <1>0, <2>1, <2>2, PreviousSegment
    <3> QED BY <1>2, <2>1, <3>1
  <2>4. p \in Active /\ p < t /\ \A u \in Active : ~(p < u /\ u < t)
    BY <1>0, <2>1, <2>2, <2>3, PreviousSegment
  <2>5. Repaired(t).parent = p
    BY <2>1, <2>2, <2>3 DEF Mismatch
  <2>6. Repaired(t) = disk[t]
    BY <1>3, <2>1, NotResidue
  <2>7. p \in C
    BY <1>1, <1>2, <2>1, <2>4
  <2>8. \A c \in C : c \in Active
    BY <1>1
  <2> QED BY <2>4, <2>5, <2>6, <2>7, <2>8 DEF Below
<1>7. Chain(C)
  BY <1>4, <1>5, <1>6 DEF Chain
<1> QED BY <1>1, <1>7

\* Start-up reads every synced record of a file.
LEMMA SyncedIsRead ==
  ASSUME WalTypes, Clean, NEW s \in Active, NEW i \in 1..Len(disk[s].frames), i <= disk[s].durable
  PROVE  disk[s].frames[i] \in ToSet(Readable(disk[s].frames))
<1>1. PICK f, q, d : f = disk[s].frames /\ q = Readable(f) /\ d = disk[s].durable
  OBVIOUS
<1>2. f \in Seq(Requests \cup {Torn}) /\ d \in -1..Len(f) /\ Len(f) \in Nat
  BY <1>1, FileFacts DEF WalTypes, FileOK, Active, AtOrAbove
<1>3. \A j \in 1..d : f[j] # Torn
  BY <1>1 DEF Clean
<1>4. i \in 1..d /\ d \in 0..Len(f)
  BY <1>1, <1>2
<1>5. q \in Seq(Requests) /\ Len(q) \in 0..Len(f) /\ \A j \in 1..Len(q) : q[j] = f[j]
  BY <1>1, <1>2, ReadableFrames
<1>6. d <= Len(q)
  BY <1>1, <1>2, <1>3, <1>4, ReadableFrames
<1>7. i \in 1..Len(q) /\ q[i] = f[i]
  BY <1>2, <1>4, <1>5, <1>6
<1>8. q[i] \in ToSet(q)
  BY <1>5, <1>7, SetOfSeq
<1> QED BY <1>1, <1>7, <1>8

\* A start that reads every synced record finds what is kept.
LEMMA KeptIsRead ==
  ASSUME WalInv, Clean, NEW r \in Requests, Kept(r, {})
  PROVE  r \in RecoveredIndex(assoc.anchor) \/ Due(r)
<1>0. WalTypes
  BY DEF WalInv
<1>1. SUFFICES ASSUME ~Due(r) PROVE r \in RecoveredIndex(assoc.anchor)
  OBVIOUS
<1>2. PICK s \in Active : \E i \in 1..Len(disk[s].frames) : disk[s].frames[i] = r /\ i <= disk[s].durable
  BY <1>1 DEF Kept
<1>3. PICK i \in 1..Len(disk[s].frames) : disk[s].frames[i] = r /\ i <= disk[s].durable
  BY <1>2
<1>4. s \in Segments /\ s \in AtOrAbove(assoc.anchor)
  BY DEF Active, AtOrAbove
<1>5. r \in ToSet(Readable(disk[s].frames))
  BY <1>0, <1>3, <1>4, SyncedIsRead
<1> QED BY <1>4, <1>5 DEF RecoveredIndex

\* Without a segment of the chain it is not whole, unless the loss is one that a
\* start may not see.
LEMMA LosingBreaks ==
  ASSUME WalInv, Epochs, assoc.inc = served, NEW s, LoseSegment(s), ~Unseen(s)
  PROVE  ~Whole'
<1>0. WalTypes /\ FileTypes
  BY DEF WalInv, WalTypes
<1>1. /\ mem.phase = "down" /\ s \in Active /\ s <= assoc.head /\ disk' = WithoutSegment(s)
      /\ assoc' = assoc
  BY DEF LoseSegment
<1>2. /\ assoc.anchor \in Nat /\ assoc.head \in Nat /\ Segments \subseteq Nat
      /\ \A t \in Segments : t > 0
      /\ Active = {t \in Segments : t >= assoc.anchor}
      /\ assoc.inc \in Nat /\ \A t \in Segments : disk[t].parent \in Nat
  BY <1>0, ChainTypes
<1>3. Segments' = Segments \ {s} /\ \A t \in Segments \ {s} : disk'[t] = disk[t]
  BY <1>0, <1>1, ShrunkDisk
<1>4. s \in Segments /\ s \in Nat /\ s >= assoc.anchor /\ assoc.head # NoSegment
  BY <1>1, <1>2 DEF NoSegment
<1>5. ~assoc.pending
  BY <1>2 DEF Epochs
<1>6. SUFFICES ASSUME Whole' PROVE FALSE
  OBVIOUS
<1>7. PICK C \in SUBSET Nat : Chain(C)
  <2>1. {assoc.anchor, assoc.head} \subseteq Segments
    BY <1>1, <1>3, <1>6 DEF Whole
  <2> QED BY <1>1, <1>4, <1>5, <2>1 DEF WalInv, ChainInv, Stopped
<1>bare. ~BareHead'
  <2>1. assoc.head \in Segments /\ s \notin {assoc.anchor, assoc.head}
    BY <1>1, <1>3, <1>6 DEF Whole
  <2>2. ~BareHead
    BY <2>1 DEF Unseen, BareHead
  <2>3. Newest \in Segments /\ Newest \in Nat /\ \A t \in Segments : t <= Newest
    BY <1>0, <2>1, ActiveSegments
  <2>4. Newest # s
    BY <1>1, <1>2, <1>4, <2>1, <2>3
  <2>5. PICK S : S = Segments \ {s}
    OBVIOUS
  <2>6. S \in SUBSET Nat /\ S # {} /\ Bounded(S) /\ Newest \in S /\ \A t \in S : t <= Newest
    BY <1>0, <2>3, <2>4, <2>5, BoundedSets DEF FileTypes
  <2>7. Newest' = Newest
    <3>1. Newest' = Max(S)
      BY <1>3, <2>5, <2>6 DEF Newest
    <3>2. Max(S) \in S /\ Max(S) \in Nat /\ Newest <= Max(S) /\ Max(S) <= Newest
      BY <2>6, Greatest
    <3>3. Max(S) = Newest
      BY ONLY <2>3, <3>2
    <3> QED BY ONLY <3>1, <3>3
  <2>8. disk'[Newest] = disk[Newest]
    BY <1>3, <2>3, <2>4
  <2> QED BY <1>1, <2>2, <2>7, <2>8 DEF BareHead
<1>8. PICK D : D = {t \in Active' : t <= assoc'.head}
  OBVIOUS
<1>9. D = {t \in Segments \ {s} : t >= assoc.anchor /\ t <= assoc.head}
  BY <1>1, <1>3, <1>8 DEF Active, AtOrAbove
<1>10. /\ assoc.anchor \in D /\ assoc.head \in D
       /\ \A t \in D : t # assoc.anchor => Below(D, disk[t].parent, t)
  <2>1. Chain(D)'
    BY <1>6, <1>8, <1>bare DEF Whole, Chain
  <2>2. assoc.anchor \in D /\ assoc.head \in D
    BY <1>1, <2>1 DEF Chain
  <2>3. ASSUME NEW t \in D, t # assoc.anchor PROVE Below(D, disk[t].parent, t)
    <3>1. t \in Segments' /\ disk'[t] = disk[t]
      BY <1>3, <1>9
    <3>2. Below(D, disk'[t].parent, t)
      BY <1>1, <2>1, <2>3, <3>1 DEF Chain
    <3> QED BY <3>1, <3>2
  <2> QED BY <2>2, <2>3
<1>11. PICK U : U = {t \in D : t > s}
  OBVIOUS
<1>12. U \subseteq Nat /\ U # {}
  <2>1. assoc.head # s
    BY <1>9, <1>10
  <2>2. assoc.head > s
    BY <1>1, <1>2, <1>4, <2>1
  <2>3. D \subseteq Nat
    BY <1>2, <1>9
  <2> QED BY <1>10, <1>11, <2>2, <2>3
<1>13. PICK t : t = Min(U)
  OBVIOUS
<1>14. t \in U /\ \A u \in U : t <= u
  BY <1>12, <1>13, Least
<1>15. t \in D /\ t > s /\ t \in Nat /\ t # assoc.anchor /\ t \in Segments
  BY <1>2, <1>4, <1>9, <1>11, <1>12, <1>14
<1>16. PICK p : p = disk[t].parent
  OBVIOUS
<1>17. p \in D /\ p < t /\ p \in Nat /\ p # s
  BY <1>2, <1>9, <1>10, <1>15, <1>16 DEF Below
<1>18. p < s
  BY <1>4, <1>11, <1>12, <1>14, <1>15, <1>17
<1>19. s \in C /\ t \in C
  BY <1>1, <1>2, <1>4, <1>7, <1>9, <1>15 DEF Chain
<1>20. Below(C, p, t)
  BY <1>7, <1>15, <1>16, <1>19 DEF Chain
<1> QED BY <1>15, <1>18, <1>19, <1>20 DEF Below

LEMMA OwedCrash ==
  ASSUME WalInv, CallersGo, IndexKept, Epochs, OwedKept, Crash
  PROVE  OwedKept'
<1>0. WalTypes /\ owed \subseteq Requests /\ assoc.inc \in Nat
  BY ChainTypes DEF WalInv, WalTypes, CallerTypes
<1>1. /\ assoc' = assoc /\ served' = served /\ owed' = owed /\ mem'.phase = "down"
      /\ mem.phase # "down" /\ clock'.gone = clock.gone
  BY <1>0 DEF Crash, WalTypes, StoreTypes, CallerTypes
<1>2. SUFFICES ASSUME assoc.inc = served PROVE OwedKept'
  BY <1>1 DEF OwedKept
<1>3. ~assoc.pending
  BY <1>0, <1>2 DEF Epochs
<1>4. mem.phase = "up" \/ mem.phase = "recovered"
  BY <1>0, <1>1, <1>3 DEF WalTypes, StoreTypes, WalInv, ChainInv, Rewriting
<1>5. ASSUME NEW r \in owed \ clock.gone PROVE Kept(r, {})
  <2>1. CASE mem.phase = "up"
    BY <1>2, <1>5, <2>1 DEF OwedKept
  <2>2. CASE mem.phase = "recovered"
    <3>1. r \in mem.index \/ Due(r)
      BY <1>2, <1>5, <2>2 DEF OwedKept
    <3> QED BY <3>1 DEF IndexKept, Kept
  <2> QED BY <1>4, <2>1, <2>2
<1>6. \A r \in (owed \ clock.gone)' : Kept(r, {})'
  BY <1>0, <1>1, <1>5, KeptCrash
<1>7. assoc'.head = NoSegment => owed' = {}
  BY <1>1, <1>2 DEF OwedKept
<1> QED BY <1>1, <1>6, <1>7 DEF OwedKept

LEMMA OwedOpen ==
  ASSUME WalInv, KeptOn, IndexKept, Epochs, OwedKept, Opens
  PROVE  OwedKept'
<1>0. WalTypes /\ owed \subseteq Requests /\ assoc.inc \in Nat /\ served \in Nat /\ mem.index \subseteq Requests
  BY ChainTypes DEF WalInv, WalTypes, CallerTypes, StoreTypes
<1>1. /\ mem.phase = "recovered" /\ mem'.phase = "up" /\ assoc'.head # NoSegment
      /\ owed' = (IF assoc.inc > served THEN owed \cap mem.index ELSE owed) /\ clock' = clock
  BY OpenRow DEF NoSegment
<1>2. ASSUME NEW r \in (owed \ clock.gone)' PROVE Kept(r, {})'
  <2>1. r \in mem.index \/ Due(r)
    <3>1. CASE assoc.inc > served
      BY <1>1, <1>2, <3>1
    <3>2. CASE ~(assoc.inc > served)
      <4>1. assoc.inc = served /\ r \in owed \ clock.gone
        BY <1>0, <1>1, <1>2, <3>2 DEF Epochs
      <4> QED BY <1>1, <4>1 DEF OwedKept
    <3> QED BY <3>1, <3>2
  <2>2. PICK T : T = {}
    OBVIOUS
  <2>3. Kept(r, T)
    BY <2>1, <2>2 DEF IndexKept, Kept
  <2>4. r \in Requests
    BY <1>0, <1>1, <1>2
  <2>5. Kept(r, T)'
    BY <2>3, <2>4 DEF KeptOn
  <2> QED BY <2>2, <2>5
<1> QED BY <1>1, <1>2 DEF OwedKept

LEMMA OwedRecover ==
  ASSUME WalInv, Clean, Epochs, OwedKept, Recover
  PROVE  OwedKept'
<1>0. WalTypes /\ owed \subseteq Requests
  BY DEF WalInv, WalTypes, CallerTypes
<1>1. /\ mem.phase = "down" /\ mem'.phase = "recovered" /\ assoc'.inc = assoc.inc /\ served' = served
      /\ owed' = owed /\ callers' = callers /\ clock' = clock /\ assoc'.head = Newest
      /\ mem'.index = RecoveredIndex(assoc.anchor) /\ ~Mismatch
  BY <1>0 DEF Recover, WalTypes, StoreTypes
<1>2. SUFFICES ASSUME assoc.inc = served PROVE OwedKept'
  BY <1>1 DEF OwedKept
<1>3. CASE assoc.head = NoSegment
  <2>1. owed' = {}
    BY <1>1, <1>2, <1>3 DEF OwedKept
  <2> QED BY <1>1, <2>1 DEF OwedKept
<1>4. CASE assoc.head # NoSegment
  <2>1. Whole
    BY <1>1, <1>4, MatchingWhole
  <2>2. \A r \in owed \ clock.gone : Kept(r, {})
    BY <1>1, <1>2, <2>1 DEF OwedKept
  <2>3. \A r \in owed \ clock.gone : r \in RecoveredIndex(assoc.anchor) \/ Due(r)
    BY <1>0, <2>2, KeptIsRead
  <2>4. \A r \in (owed \ clock.gone)' : r \in mem'.index \/ Due(r)'
    BY <1>1, <2>3 DEF Due
  <2>5. assoc'.head # NoSegment
    <3>1. assoc.head \in Segments
      BY <1>1, <1>4 DEF Mismatch
    <3> QED BY <1>0, <1>1, <3>1, ActiveSegments DEF WalTypes
  <2> QED BY <1>1, <2>4, <2>5 DEF OwedKept
<1> QED BY <1>3, <1>4

\* A running log owes what it has answered from the index, and that is kept.
LEMMA OwedRunning ==
  ASSUME WalInv, KeptOn, Placed, FlightKept, IndexKept, OwedKept, assoc.inc = served,
         mem.phase = "up", [Next]_vars, clock'.gone = clock.gone, NEW r \in (owed \ clock.gone)'
  PROVE  Kept(r, {})'
<1>0. WalTypes /\ owed \subseteq Requests /\ mem.index \subseteq Requests
  BY DEF WalInv, WalTypes, CallerTypes, StoreTypes
<1>1. PICK T : T = {}
  OBVIOUS
<1>2. ASSUME r \in owed \/ r \in mem.index \/ (r \in Requests /\ Due(r)) PROVE Kept(r, T)'
  <2>1. Kept(r, T)
    BY <1>1, <1>2 DEF OwedKept, IndexKept, Kept
  <2> QED BY <1>0, <1>2, <2>1 DEF KeptOn
<1>3. CASE ReplyOne
  <2>1. owed' = owed \cup {Head(flush.left)} /\ Up
    BY <1>3 DEF ReplyOne
  <2>2. Head(flush.left) \in ToSet(flush.left) /\ Head(flush.left) \in Requests
    BY <1>0, <1>3, Replied, TailSet
  <2>3. Head(flush.left) \in mem.index \/ Due(Head(flush.left))
    BY <2>1, <2>2 DEF FlightKept, LeftKept
  <2> QED BY <1>1, <1>2, <2>1, <2>2, <2>3
<1>4. ASSUME NEW x \in Requests, Lookup(x) PROVE Kept(r, T)'
  <2>1. owed' = owed \cup {x} /\ x \in mem.index
    BY <1>4 DEF Lookup
  <2> QED BY <1>2, <2>1
<1>5. CASE owed' = owed
  BY <1>1, <1>2, <1>5
<1>6. owed' = owed \/ ReplyOne \/ \E x \in Requests : Lookup(x)
  BY DEF Next, Submit, WriterStep, TakeBatch, AppendOne, RollBegin, RollCreate, RollSync, RollHead,
         FinishBatch, FlushStep, TakeGroups, SyncFile, ApplyGroup, SweepBegin, SweepStep, SweepSegment,
         SweepUnlink, StartStep, Recover, RotateMark, RewriteOne, RotateCommit, OpenCreate, Open,
         StartCutShort, WriterError, SyncError, FenceElsewhere, Crash, Tick, LoseSegment, vars
<1> QED BY <1>1, <1>3, <1>4, <1>5, <1>6

LEMMA OwedWaiting ==
  ASSUME WalInv, KeptOn, CallersGo, OwedKept, mem.phase # "up", [Next]_vars, clock'.gone = clock.gone,
         ~Reads, ~Crash, ~Opens, ~\E s \in 1..MaxSegments : LoseSegment(s)
  PROVE  OwedKept'
<1>0. WalTypes /\ owed \subseteq Requests
  BY DEF WalInv, WalTypes, CallerTypes
<1>1. RewriteOne \/ OpenCreate \/ Tick \/ UNCHANGED vars
  BY DEF Next, Up, Reads, Opens, Submit, Lookup, WriterStep, TakeBatch, AppendOne, RollBegin, RollCreate,
         RollSync, RollHead, FinishBatch, FlushStep, TakeGroups, SyncFile, ApplyGroup, ReplyOne,
         SweepBegin, SweepStep, SweepSegment, SweepUnlink, StartStep, WriterError, SyncError, FenceElsewhere
<1>2. assoc' = assoc /\ served' = served /\ owed' = owed
  BY <1>1 DEF RewriteOne, OpenCreate, Tick, vars
<1>3. mem'.phase = mem.phase /\ mem'.index = mem.index
  BY <1>0, <1>1 DEF RewriteOne, OpenCreate, Tick, vars, WalTypes, StoreTypes
<1>4. SUFFICES ASSUME assoc.inc = served PROVE OwedKept'
  BY <1>2 DEF OwedKept
<1>5. ASSUME mem'.phase = "down", Whole' PROVE \A r \in (owed \ clock.gone)' : Kept(r, {})'
  <2>1. disk' = disk
    BY <1>1, <1>3, <1>5 DEF RewriteOne, OpenCreate, Tick, vars
  <2>2. Whole
    BY <1>2, <1>5, <2>1 DEF Whole, BareHead, Chain, Active, AtOrAbove, Segments, Newest
  <2>3. \A r \in owed \ clock.gone : Kept(r, {})
    BY <1>3, <1>4, <1>5, <2>2 DEF OwedKept
  <2>4. PICK T : T = {}
    OBVIOUS
  <2>5. \A r \in owed \ clock.gone : Kept(r, T)'
    BY <1>0, <2>3, <2>4 DEF KeptOn
  <2> QED BY <1>2, <2>4, <2>5
<1>6. mem'.phase = "recovered" => \A r \in (owed \ clock.gone)' : r \in mem'.index \/ Due(r)'
  BY <1>0, <1>2, <1>3, <1>4 DEF OwedKept, CallersGo
<1>7. assoc'.head = NoSegment => owed' = {}
  BY <1>2, <1>4 DEF OwedKept
<1>8. mem'.phase # "up"
  BY <1>3
<1> QED BY <1>5, <1>6, <1>7, <1>8 DEF OwedKept

\* A loss leaves what is owed in other files, breaks the chain, or is excused.
LEMMA OwedLose ==
  ASSUME WalInv, Clean, CallersGo, Epochs, OwedKept, NEW s, LoseSegment(s)
  PROVE  OwedKept'
<1>0. WalTypes /\ FileTypes /\ owed \subseteq Requests
  BY DEF WalInv, WalTypes, CallerTypes
<1>1. /\ assoc' = assoc /\ mem' = mem /\ mem.phase = "down" /\ owed' = owed /\ served' = served
      /\ s \in Active /\ disk' = WithoutSegment(s)
  BY DEF LoseSegment
<1>2. /\ clock.gone \subseteq clock'.gone
      /\ Unseen(s) => ToSet(Readable(disk[s].frames)) \subseteq clock'.gone
  BY <1>0, LostClock
<1>3. Segments' = Segments \ {s} /\ \A t \in Segments \ {s} : disk'[t] = disk[t]
  BY <1>0, <1>1, ShrunkDisk
<1>4. ASSUME assoc.inc = served, Whole', NEW r \in owed, r \notin clock'.gone PROVE Kept(r, {})'
  <2>1. Unseen(s)
    BY <1>4, LosingBreaks
  <2>2. Whole
    <3>1. {assoc.anchor, assoc.head} \subseteq Segments
      BY <1>1, <1>3, <1>4 DEF Whole
    <3> QED BY <2>1, <3>1 DEF Whole, BareHead, Unseen
  <2>3. r \in Requests /\ Kept(r, {})
    BY <1>0, <1>1, <1>2, <1>4, <2>2 DEF OwedKept
  <2>4. CASE Due(r)
    BY <2>3, <2>4, KeptDue DEF CallersGo
  <2>5. CASE ~Due(r)
    <3>1. PICK t \in Active : \E i \in 1..Len(disk[t].frames) : disk[t].frames[i] = r /\ i <= disk[t].durable
      BY <2>3, <2>5 DEF Kept
    <3>2. PICK i \in 1..Len(disk[t].frames) : disk[t].frames[i] = r /\ i <= disk[t].durable
      BY <3>1
    <3>3. t \in Segments /\ t >= assoc.anchor
      BY DEF Active, AtOrAbove
    <3>4. t # s
      <4>1. r \in ToSet(Readable(disk[t].frames))
        BY <1>0, <1>1, <3>2, <3>3, SyncedIsRead
      <4> QED BY <1>2, <1>4, <2>1, <4>1
    <3>5. t \in Active' /\ disk'[t] = disk[t]
      BY <1>1, <1>3, <3>3, <3>4 DEF Active, AtOrAbove
    <3> QED BY <3>2, <3>5, KeptThere
  <2> QED BY <2>4, <2>5
<1>5. assoc.inc = served /\ assoc'.head = NoSegment => owed' = {}
  BY <1>1 DEF OwedKept
<1> QED BY <1>1, <1>4, <1>5 DEF OwedKept

\* A start that is cut short has cut off nothing that is owed, and its repairs
\* leave a loss as visible as it was.
LEMMA OwedCutShort ==
  ASSUME WalInv, Framed, Clean, OwedKept, StartCutShort
  PROVE  OwedKept'
<1>0. WalTypes /\ FileTypes /\ owed \subseteq Requests /\ Reads
  BY DEF WalInv, WalTypes, CallerTypes, Reads
<1>1. /\ assoc' = assoc /\ mem' = mem /\ mem.phase = "down" /\ owed' = owed /\ served' = served
      /\ callers' = callers /\ clock' = clock /\ disk' = RecoveredDisk(assoc.anchor)
  BY DEF StartCutShort
<1>2. /\ assoc.anchor \in Nat /\ assoc.head \in Nat /\ Segments \subseteq Nat
      /\ assoc.anchor <= assoc.head
  BY <1>0, ChainTypes DEF WalInv, ChainInv, FilesKept
<1>3. Reading(assoc.anchor) /\ FileTypes'
  <2>1. PICK from \in Nat : Reading(from) /\ FileTypes' /\ from = assoc.anchor
    BY <1>0, ReadingDisk
  <2> QED BY <2>1
<1>4. /\ Segments' = Segments
      /\ \A t \in Segments : t >= assoc.anchor =>
           /\ disk'[t].frames = Readable(disk[t].frames) /\ disk'[t].parent = Repaired(t).parent
  BY <1>0, <1>1, <1>2, RecoveredFiles DEF WalTypes
<1>5. Newest' = Newest
  BY <1>4 DEF Newest
<1>6. ASSUME Whole' PROVE Whole
  <2>1. {assoc.anchor, assoc.head} \subseteq Segments
    BY <1>1, <1>4, <1>6 DEF Whole
  <2>2. CASE BareHead'
    <3>1. assoc.head = Newest /\ Readable(disk'[Newest].frames) = <<>>
      BY <1>1, <1>5, <2>2 DEF BareHead
    <3>2. PICK f, q : f = disk[Newest].frames /\ q = Readable(f)
      OBVIOUS
    <3>3. disk'[Newest].frames = q
      BY <1>2, <1>4, <2>1, <3>1, <3>2
    <3>4. f \in Seq(Requests \cup {Torn})
      BY <1>0, <2>1, <3>1, <3>2, FileFacts
    <3>5. q \in Seq(Requests) /\ Len(q) \in Nat /\ \A i \in 1..Len(q) : q[i] # Torn
      BY <3>2, <3>4, ReadableFrames
    <3>6. q \in Seq(Requests \cup {Torn})
      BY <3>5
    <3>7. Len(q) <= Len(Readable(q))
      BY <3>5, <3>6, ReadableFrames
    <3>8. Len(q) = 0
      BY <3>1, <3>3, <3>5, <3>7
    <3>9. q = <<>>
      BY <3>5, <3>8
    <3> QED BY <2>1, <3>1, <3>2, <3>9 DEF Whole, BareHead
  <2>3. CASE ~BareHead' /\ ~BareHead
    <3>1. PICK C : C = {t \in Active : t <= assoc.head}
      OBVIOUS
    <3>2. C = {t \in Active : t <= assoc.head}'
      BY <1>1, <1>4, <3>1 DEF Active, AtOrAbove
    <3>3. Chain(C)'
      BY <1>6, <2>3, <3>2 DEF Whole, Chain
    <3>4. \A t \in C \cap Segments : disk'[t].parent = disk[t].parent
      <4> SUFFICES ASSUME NEW t \in C \cap Segments PROVE disk'[t].parent = disk[t].parent
        OBVIOUS
      <4>1. t >= assoc.anchor /\ t <= assoc.head
        BY <3>1 DEF Active, AtOrAbove
      <4>2. Repaired(t) = disk[t]
        BY <2>1, <2>3, <4>1, NotResidue
      <4> QED BY <1>4, <4>1, <4>2
    <3>5. Chain(C)
      BY <1>1, <1>4, <3>3, <3>4 DEF Chain
    <3> QED BY <2>1, <3>1, <3>5 DEF Whole
  <2> QED BY <2>1, <2>2, <2>3 DEF Whole
<1>7. ASSUME assoc.inc = served, Whole', NEW r \in owed \ clock.gone PROVE Kept(r, {})'
  <2>1. r \in Requests /\ Kept(r, {})
    BY <1>0, <1>1, <1>6, <1>7 DEF OwedKept
  <2>2. CASE r \in RecoveredIndex(assoc.anchor)
    BY <1>1, <1>2, <1>3, <2>2, ReadKept
  <2>3. CASE Due(r)
    <3>1. Due(r)'
      BY <1>1, <2>3 DEF Due
    <3> QED BY <3>1, KeptDue
  <2> QED BY <2>1, <2>2, <2>3, KeptIsRead
<1>8. assoc.inc = served /\ assoc'.head = NoSegment => owed' = {}
  BY <1>1 DEF OwedKept
<1> QED BY <1>1, <1>7, <1>8 DEF OwedKept

LEMMA OwedStep ==
  ASSUME WalInv, DataInv, CallersGo, [Next]_vars
  PROVE  OwedKept'
<1>0. WalTypes /\ assoc.inc \in Nat /\ served \in Nat
  BY ChainTypes DEF WalInv, WalTypes, CallerTypes
<1>1. Placed /\ Framed /\ Clean /\ Retired /\ FlightKept /\ IndexKept /\ OwedKept /\ Epochs
  BY DEF DataInv
<1>2. CASE Recover
  BY <1>1, <1>2, OwedRecover
<1>3. CASE RotateMark \/ RotateCommit
  <2>1. served' # assoc'.inc
    <3>1. CASE RotateMark
      <4>1. /\ assoc'.inc = (IF assoc.pending THEN assoc.inc ELSE assoc.inc + 1) /\ served' = served
        BY <1>0, <3>1 DEF RotateMark, WalTypes, StoreTypes
      <4> QED BY <1>0, <1>1, <4>1 DEF Epochs
    <3>2. CASE RotateCommit
      <4>1. assoc'.inc = assoc.inc /\ served' = served /\ mem.phase = "rewriting"
        BY <1>0, <3>2 DEF RotateCommit, WalTypes, StoreTypes
      <4>2. assoc.pending
        BY <4>1 DEF WalInv, ChainInv, Rewriting
      <4> QED BY <1>0, <1>1, <4>1, <4>2 DEF Epochs
    <3> QED BY <1>3, <3>1, <3>2
  <2> QED BY <2>1 DEF OwedKept
<1>4. CASE Crash
  BY <1>1, <1>4, OwedCrash
<1>5. CASE \E s \in 1..MaxSegments : LoseSegment(s)
  BY <1>1, <1>5, OwedLose
<1>6. CASE ~Reads /\ ~Crash /\ ~\E s \in 1..MaxSegments : LoseSegment(s)
  <2>1. KeptOn /\ clock'.gone = clock.gone
    BY <1>0, <1>1, <1>6, KeptStep, GoneSame
  <2>2. CASE Opens
    BY <1>1, <2>1, <2>2, OwedOpen
  <2>3. CASE ~Opens /\ mem.phase = "up"
    <3>1. RowGrows
      BY <1>6, <2>3, RowStep
    <3>2. mem'.phase = "up" /\ assoc.inc = served
      BY <1>1, <2>3, <3>1 DEF RowGrows, Epochs
    <3>3. assoc'.head # NoSegment
      <4>1. assoc.head \in Nat /\ assoc.head # 0
        BY <1>0, <2>3, RunningFacts, ChainTypes DEF WalInv, NoSegment
      <4>2. assoc.head <= assoc'.head
        BY <3>1 DEF RowGrows
      <4> QED BY <4>1, <4>2 DEF NoSegment
    <3>4. \A r \in (owed \ clock.gone)' : Kept(r, {})'
      BY <1>1, <2>1, <2>3, <3>2, OwedRunning
    <3> QED BY <3>2, <3>3, <3>4 DEF OwedKept
  <2>4. CASE ~Opens /\ mem.phase # "up"
    BY <1>1, <1>6, <2>1, <2>4, OwedWaiting
  <2> QED BY <2>2, <2>3, <2>4
<1>7. CASE StartCutShort
  BY <1>1, <1>7, OwedCutShort
<1> QED BY <1>2, <1>3, <1>4, <1>5, <1>6, <1>7 DEF Reads

LEMMA DataInvInit == Init => DataInv
<1>1. SUFFICES ASSUME Init PROVE DataInv
  OBVIOUS
<1>2. Placed
  BY <1>1, PlacedEmpty DEF Init, IdleWriter, IdleFlush
<1>3. Segments = {}
  BY <1>1 DEF Init, Segments
<1>4. Active = {}
  BY <1>3 DEF Active, AtOrAbove
<1>5. Framed /\ Clean /\ Retired
  BY <1>1, <1>3, <1>4 DEF Init, Framed, Clean, Retired
<1>6. FlightKept /\ IndexKept /\ OwedKept /\ Epochs
  BY <1>1 DEF Init, FlightKept, IndexKept, OwedKept, Epochs, Up
<1> QED BY <1>2, <1>5, <1>6 DEF DataInv

LEMMA DataInvStep ==
  ASSUME WalInv, DataInv, [Next]_vars
  PROVE  DataInv'
<1>1. Placed /\ Framed /\ Clean /\ Retired /\ FlightKept /\ IndexKept /\ OwedKept /\ Epochs /\ WalTypes
  BY DEF DataInv, WalInv
<1>2. CallersGo
  BY <1>1, CallersStep
<1>3. Placed' /\ Framed' /\ Clean' /\ Retired'
  BY <1>1, <1>2, PlacedStep, FramedStep, CleanStep, RetiredStep
<1>4. FlightKept' /\ IndexKept' /\ OwedKept' /\ Epochs'
  BY <1>1, <1>2, FlightStep, IndexStep, OwedStep, EpochsStep
<1> QED BY <1>3, <1>4 DEF DataInv

-----------------------------------------------------------------------------
(* The log implements DurableLog.                                          *)

LEMMA SameDue ==
  ASSUME WalTypes, clock'.now = clock.now,
         \A r \in Requests : callers.reply[r] # "idle" \/ callers'.reply[r] # "idle" =>
            /\ callers.reply[r] # "idle" /\ callers'.reply[r] # "idle"
            /\ callers'.accepted[r] = callers.accepted[r]
  PROVE  DueSet' = DueSet
<1>1. ASSUME NEW r \in Requests PROVE Due(r)' <=> Due(r)
  BY <1>1 DEF Due
<1> QED BY <1>1 DEF DueSet

LEMMA RefineInit == Init => Log!AbsInit
<1>1. SUFFICES ASSUME Init PROVE Log!AbsInit
  OBVIOUS
<1>2. DueSet = {}
  BY <1>1 DEF Init, DueSet, Due
<1> QED BY <1>1, <1>2 DEF Init, Log!AbsInit

LEMMA RefineSubmit ==
  ASSUME WalTypes, NEW r \in Requests, Submit(r)
  PROVE  Log!AbsSubmit(r)
<1>1. /\ UNCHANGED <<mem, clock, owed, served>> /\ mem.phase = "up" /\ callers.reply[r] = "idle"
      /\ callers' = [callers EXCEPT !.reply[r] = "pending", !.accepted[r] = clock.now]
  BY DEF Submit, Up
<1>2. PICK R, A, n : R = callers.reply /\ A = callers.accepted /\ n = clock.now
  OBVIOUS
<1>3. R \in [Requests -> {"idle", "pending", "ok", "err"}] /\ A \in [Requests -> Nat] /\ n \in Nat
  BY <1>2 DEF WalTypes, CallerTypes
<1>4. callers'.reply = [R EXCEPT ![r] = "pending"] /\ callers'.accepted = [A EXCEPT ![r] = n]
  BY <1>1, <1>2 DEF WalTypes, CallerTypes
<1>5. ASSUME NEW x \in Requests PROVE Due(x)' <=> Due(x)
  <2>1. CASE x = r
    <3>1. callers'.accepted[x] = n /\ clock'.now = n
      BY <1>1, <1>2, <1>3, <1>4, <2>1
    <3>2. Ttl \in Nat
      BY WalAssumption
    <3>3. ~Due(x)'
      BY <1>3, <3>1, <3>2 DEF Due
    <3> QED BY <1>1, <2>1, <3>3 DEF Due
  <2>2. CASE x # r
    <3>1. callers'.reply[x] = callers.reply[x] /\ callers'.accepted[x] = callers.accepted[x]
      BY <1>2, <1>3, <1>4, <2>2
    <3> QED BY <1>1, <3>1 DEF Due
  <2> QED BY <2>1, <2>2
<1>6. DueSet' = DueSet
  BY <1>5 DEF DueSet
<1> QED BY <1>1, <1>2, <1>4, <1>6 DEF Log!AbsSubmit

LEMMA RefineConfirm ==
  ASSUME WalTypes, NEW r \in Requests, mem.phase = "up", UNCHANGED <<mem, clock, served>>,
         callers.reply[r] \in {"pending", "err"}, r \in mem.index \/ Due(r),
         callers' = [callers EXCEPT !.reply[r] = "ok"], owed' = owed \cup {r}
  PROVE  Log!AbsConfirm(r)
<1>1. PICK R : R = callers.reply
  OBVIOUS
<1>2. R \in [Requests -> {"idle", "pending", "ok", "err"}]
  BY <1>1 DEF WalTypes, CallerTypes
<1>3. callers'.reply = [R EXCEPT ![r] = "ok"] /\ callers'.accepted = callers.accepted
  BY <1>1 DEF WalTypes, CallerTypes
<1>4. \A x \in Requests : callers'.reply[x] = IF x = r THEN "ok" ELSE callers.reply[x]
  BY <1>1, <1>2, <1>3
<1>5. DueSet' = DueSet
  BY <1>3, <1>4, SameDue
<1>6. r \in mem.index \cup DueSet
  BY DEF DueSet
<1> QED BY <1>1, <1>3, <1>5, <1>6 DEF Log!AbsConfirm

LEMMA RefineReply ==
  ASSUME WalTypes, Placed, FlightKept, ReplyOne
  PROVE  Log!AbsConfirm(Head(flush.left))
<1>1. PICK r : r = Head(flush.left)
  OBVIOUS
<1>2. r \in Requests /\ flush.left \in Seq(Requests) /\ flush.left # <<>>
  BY <1>1, Replied
<1>3. r \in ToSet(flush.left)
  BY <1>1, <1>2, TailSet
<1>4. /\ Up /\ UNCHANGED <<mem, clock, served>> /\ owed' = owed \cup {r}
      /\ callers' = [callers EXCEPT !.reply[r] = "ok"]
  BY <1>1 DEF ReplyOne
<1>5. r \in mem.index \/ Due(r)
  BY <1>3, <1>4 DEF FlightKept, LeftKept
<1>6. callers.reply[r] = "pending"
  BY <1>3, <1>4 DEF Placed, Flying, Lanes
<1>7. mem.phase = "up"
  BY <1>4 DEF Up
<1> QED BY <1>1, <1>2, <1>4, <1>5, <1>6, <1>7, RefineConfirm

LEMMA RefineLookup ==
  ASSUME WalTypes, NEW r \in Requests, Lookup(r)
  PROVE  Log!AbsConfirm(r)
<1>1. /\ mem.phase = "up" /\ UNCHANGED <<mem, clock, served>> /\ owed' = owed \cup {r}
      /\ callers' = [callers EXCEPT !.reply[r] = "ok"] /\ callers.reply[r] = "err" /\ r \in mem.index
  BY DEF Lookup, Up
<1> QED BY <1>1, RefineConfirm

LEMMA RefineApply ==
  ASSUME WalTypes, Placed, ApplyGroup
  PROVE  Log!AbsApply
<1>1. PICK S : S = ToSet(Head(flush.groups))
  OBVIOUS
<1>2. /\ Up /\ UNCHANGED <<callers, clock, owed, served>> /\ mem'.index = mem.index \cup S
      /\ mem'.phase = mem.phase /\ flush.stage = "apply"
  BY <1>1 DEF ApplyGroup, WalTypes, StoreTypes
<1>3. flush.groups \in Seq(Groups) /\ flush.groups # <<>>
  BY <1>2, LaneTypes DEF WalTypes, FlushTypes
<1>4. S \subseteq AllOf(flush.groups)
  BY <1>1, <1>3, HeadGroup
<1>5. S \subseteq Requests /\ \A r \in S : callers.reply[r] = "pending"
  BY <1>2, <1>4, GroupRequests DEF Placed, Flying, Lanes
<1>6. DueSet' = DueSet
  BY <1>2, SameDue
<1>7. mem.phase = "up" /\ mem'.phase = "up"
  BY <1>2 DEF Up
<1>8. S \in SUBSET {r \in Requests : callers.reply[r] = "pending"}
  BY <1>5
<1> QED BY <1>2, <1>6, <1>7, <1>8 DEF Log!AbsApply

LEMMA RefusedReplies ==
  ASSUME WalTypes, NEW S, callers' = Refused(S), clock'.now = clock.now
  PROVE  /\ DueSet' = DueSet
         /\ callers'.reply = [r \in Requests |->
              IF r \in {x \in Requests : x \in S /\ callers.reply[x] = "pending"} THEN "err"
              ELSE callers.reply[r]]
<1>1. /\ callers'.reply \in [Requests -> {"idle", "pending", "ok", "err"}]
      /\ callers'.accepted = callers.accepted
      /\ \A r \in Requests : callers'.reply[r] =
              IF r \in S /\ callers.reply[r] = "pending" THEN "err" ELSE callers.reply[r]
  BY RefusedCallers DEF WalTypes
<1>2. DueSet' = DueSet
  BY <1>1, SameDue
<1> QED BY <1>1, <1>2

LEMMA RefineError ==
  ASSUME WalTypes, WriterError \/ SyncError
  PROVE  Log!AbsRefuse
<1>1. PICK S : callers' = Refused(S)
  BY DEF WriterError, SyncError
<1>2. UNCHANGED <<owed, served>> /\ mem' = [mem EXCEPT !.fenced = TRUE]
      /\ clock' = [clock EXCEPT !.faults = @ + 1]
  BY DEF WriterError, SyncError
<1>3. /\ mem'.phase = mem.phase /\ mem'.index = mem.index
      /\ clock'.now = clock.now /\ clock'.gone = clock.gone
  BY <1>2 DEF WalTypes, StoreTypes, CallerTypes
<1>4. PICK P : P = {x \in Requests : x \in S /\ callers.reply[x] = "pending"}
  OBVIOUS
<1>5. DueSet' = DueSet /\ callers'.reply = [r \in Requests |-> IF r \in P THEN "err" ELSE callers.reply[r]]
  BY <1>1, <1>3, <1>4, RefusedReplies
<1>6. P \in SUBSET {r \in Requests : callers.reply[r] = "pending"}
  BY <1>4
<1> QED BY <1>2, <1>3, <1>5, <1>6 DEF Log!AbsRefuse

LEMMA RefineCrash ==
  ASSUME WalTypes, Crash
  PROVE  Log!AbsCrash
<1>1. /\ callers' = Refused(Requests) /\ UNCHANGED <<owed, served>>
      /\ mem' = [mem EXCEPT !.phase = "down", !.fenced = FALSE, !.index = {}, !.todo = {}]
      /\ clock' = [clock EXCEPT !.crashes = IF mem.fenced THEN @ ELSE @ + 1]
  BY DEF Crash
<1>2. mem'.phase = "down" /\ clock'.now = clock.now /\ clock'.gone = clock.gone
  BY <1>1 DEF WalTypes, StoreTypes, CallerTypes
<1>3. DueSet' = DueSet /\ callers'.reply = [r \in Requests |->
              IF r \in {x \in Requests : x \in Requests /\ callers.reply[x] = "pending"} THEN "err"
              ELSE callers.reply[r]]
  BY <1>1, <1>2, RefusedReplies
<1>4. callers'.reply = [r \in Requests |-> IF callers.reply[r] = "pending" THEN "err" ELSE callers.reply[r]]
  BY <1>3
<1> QED BY <1>1, <1>2, <1>3, <1>4 DEF Log!AbsCrash

LEMMA RefineSweep ==
  ASSUME WalTypes, SweepBegin
  PROVE  Log!AbsExpire
<1>1. /\ UNCHANGED <<callers, clock, owed, served>> /\ mem.phase = "up" /\ mem'.phase = "up"
      /\ mem'.index = mem.index \ DueSet
  BY DEF SweepBegin, Up, WalTypes, StoreTypes
<1>2. DueSet' = DueSet
  BY <1>1, SameDue
<1> QED BY <1>1, <1>2 DEF Log!AbsExpire

LEMMA RefineTick ==
  ASSUME WalTypes, CallersGo, Tick
  PROVE  Log!AbsAge
<1>1. UNCHANGED <<mem, callers, owed, served>>
  BY DEF Tick
<1>2. DueSet \subseteq DueSet' /\ DueSet' \subseteq Requests
  BY DEF CallersGo, DueSet
<1>3. clock'.gone = clock.gone /\ clock.gone \subseteq Requests
  BY DEF Tick, WalTypes, CallerTypes
<1> QED BY <1>1, <1>2, <1>3 DEF Log!AbsAge

\* A loss only takes records away: those a start cannot miss are excused at once.
LEMMA RefineLose ==
  ASSUME WalTypes, NEW s, LoseSegment(s)
  PROVE  Log!AbsAge
<1>1. UNCHANGED <<mem, callers, owed, served>>
  BY DEF LoseSegment
<1>2. clock'.now = clock.now /\ clock.gone \subseteq clock'.gone /\ clock'.gone \subseteq Requests
  BY LostClock
<1>3. DueSet' = DueSet /\ DueSet \subseteq Requests
  BY <1>1, <1>2, SameDue DEF DueSet
<1> QED BY <1>1, <1>2, <1>3 DEF Log!AbsAge

LEMMA RefineOpen ==
  ASSUME WalInv, IndexKept, Epochs, OwedKept, Opens
  PROVE  Log!AbsRestart
<1>0. WalTypes /\ assoc.inc \in Nat /\ served \in Nat /\ mem.index \subseteq Requests /\ owed \subseteq Requests
  BY ChainTypes DEF WalInv, WalTypes, CallerTypes, StoreTypes
<1>1. /\ mem.phase = "recovered" /\ mem'.phase = "up" /\ mem'.index = mem.index /\ served' = assoc.inc
      /\ owed' = (IF assoc.inc > served THEN owed \cap mem.index ELSE owed)
      /\ callers' = callers /\ clock' = clock
  BY OpenRow
<1>2. DueSet' = DueSet
  BY <1>0, <1>1, SameDue
<1>3. mem.index \subseteq {r \in Requests : callers.reply[r] # "idle"}
  BY <1>0 DEF IndexKept
<1>4. \/ served' = served /\ owed \ (DueSet \cup clock.gone) \subseteq mem.index /\ owed' = owed
      \/ served' > served /\ owed' = owed \cap mem.index
  <2>1. CASE assoc.inc > served
    BY <1>1, <2>1
  <2>2. CASE ~(assoc.inc > served)
    <3>1. assoc.inc = served
      BY <1>0, <2>2 DEF Epochs
    <3>2. \A r \in owed \ clock.gone : r \in mem.index \/ Due(r)
      BY <1>1, <3>1 DEF OwedKept
    <3>3. owed \ (DueSet \cup clock.gone) \subseteq mem.index
      BY <1>0, <3>2 DEF DueSet
    <3> QED BY <1>1, <2>2, <3>1, <3>3
  <2> QED BY <2>1, <2>2
<1> QED BY <1>1, <1>2, <1>3, <1>4 DEF Log!AbsRestart

LEMMA RefineStutter ==
  ASSUME WalTypes,
         \/ WriterStep
         \/ \E n \in 1..Cardinality(Requests) : TakeGroups(n)
         \/ \E s \in 1..MaxSegments : SyncFile(s)
         \/ SweepStep \/ Reads \/ RewriteOne \/ OpenCreate \/ FenceElsewhere
         \/ UNCHANGED vars
  PROVE  UNCHANGED Log!absVars
<1>1. UNCHANGED <<callers, owed, served>>
  BY DEF WriterStep, TakeBatch, AppendOne, RollBegin, RollCreate, RollSync, RollHead, FinishBatch,
         TakeGroups, SyncFile, SweepStep, SweepSegment, SweepUnlink, Reads, Recover,
         RotateMark, RotateCommit, StartCutShort, RewriteOne, OpenCreate, FenceElsewhere, vars
<1>2. clock'.now = clock.now /\ clock'.gone = clock.gone
  BY DEF WriterStep, TakeBatch, AppendOne, RollBegin, RollCreate, RollSync, RollHead, FinishBatch,
         TakeGroups, SyncFile, SweepStep, SweepSegment, SweepUnlink, Reads, Recover,
         RotateMark, RotateCommit, StartCutShort, RewriteOne, OpenCreate, FenceElsewhere, vars, WalTypes, CallerTypes
<1>3. \/ mem.phase # "up" /\ mem'.phase # "up"
      \/ mem'.phase = mem.phase /\ mem'.index = mem.index
  BY DEF WriterStep, TakeBatch, AppendOne, RollBegin, RollCreate, RollSync, RollHead, FinishBatch,
         TakeGroups, SyncFile, SweepStep, SweepSegment, SweepUnlink, Reads, Recover,
         RotateMark, RotateCommit, StartCutShort, RewriteOne, OpenCreate, FenceElsewhere, vars, WalTypes, StoreTypes
<1>4. DueSet' = DueSet
  BY <1>1, <1>2, SameDue
<1> QED BY <1>1, <1>2, <1>3, <1>4 DEF Log!absVars

\* Every step of the log is a step of DurableLog, or leaves its view unchanged.
LEMMA RefineStep ==
  ASSUME WalInv, DataInv, [Next]_vars
  PROVE  [Log!AbsNext]_(Log!absVars)
<1>0. WalTypes /\ Placed /\ FlightKept /\ IndexKept /\ OwedKept /\ Epochs
  BY DEF WalInv, DataInv
<1>1. CallersGo
  BY <1>0, CallersStep
<1>2. CASE \E r \in Requests : Submit(r) \/ Lookup(r)
  BY <1>0, <1>2, RefineSubmit, RefineLookup DEF Log!AbsNext
<1>3. CASE FlushStep
  <2>1. CASE ReplyOne
    <3>1. Head(flush.left) \in Requests
      BY <1>0, <2>1, Replied
    <3> QED BY <1>0, <2>1, <3>1, RefineReply DEF Log!AbsNext
  <2>2. CASE ApplyGroup
    BY <1>0, <2>2, RefineApply DEF Log!AbsNext
  <2> QED BY <1>0, <1>3, <2>1, <2>2, RefineStutter DEF FlushStep
<1>4. CASE WriterError \/ SyncError
  BY <1>0, <1>4, RefineError DEF Log!AbsNext
<1>5. CASE Crash \/ SweepBegin \/ Tick
  BY <1>0, <1>1, <1>5, RefineCrash, RefineSweep, RefineTick DEF Log!AbsNext
<1>6. CASE StartStep
  <2>1. CASE Opens
    BY <1>0, <2>1, RefineOpen DEF Log!AbsNext
  <2>2. CASE Reads \/ RewriteOne \/ OpenCreate
    BY <1>0, <2>2, RefineStutter
  <2> QED BY <1>6, <2>1, <2>2 DEF StartStep, Opens, Reads
<1>7. CASE WriterStep \/ SweepStep \/ FenceElsewhere \/ StartCutShort \/ UNCHANGED vars
  BY <1>0, <1>7, RefineStutter DEF Reads
<1>8. CASE \E s \in 1..MaxSegments : LoseSegment(s)
  BY <1>0, <1>8, RefineLose DEF Log!AbsNext
<1> QED BY <1>2, <1>3, <1>4, <1>5, <1>6, <1>7, <1>8 DEF Next

\* The log keeps the promise of DurableLog, in every behaviour: what a caller
\* was told is stored is found after every restart until it is due, or the
\* restart announces a new incarnation (router_wal_ack_success, prepare, open).
\* Excused are only the records of a segment that was lost between the anchor
\* and a head that holds no record: inspect links such a head anew.
THEOREM LogKept == Spec => Implements
<1>1. Init => WalInv /\ DataInv /\ Log!AbsInit
  BY WalInvInit, DataInvInit, RefineInit
<1>2. WalInv /\ DataInv /\ [Next]_vars => WalInv' /\ DataInv'
  BY WalInvStep, DataInvStep
<1>3. WalInv /\ DataInv /\ [Next]_vars => [Log!AbsNext]_(Log!absVars)
  BY RefineStep
<1> QED BY <1>1, <1>2, <1>3, PTL DEF Spec, Implements, Log!AbsSpec
=============================================================================
