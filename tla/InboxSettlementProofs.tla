------------------------ MODULE InboxSettlementProofs ------------------------
(***************************************************************************)
(* Theorems about InboxSettlement, for every number of deliveries, every   *)
(* window and limit, any number of sweepers and of crashes, in both modes  *)
(* of storage.                                                             *)
(***************************************************************************)
EXTENDS InboxSettlement, WellFoundedInduction, SequenceTheorems, TLAPS

-----------------------------------------------------------------------------
(***************************************************************************)
(* Least members, induction, and functions defined by recursion.           *)
(***************************************************************************)
LEMMA LeastNatural ==
    ASSUME NEW S \in SUBSET Nat, S # {}
    PROVE  Min(S) \in S /\ Min(S) \in Nat /\ \A y \in S : Min(S) <= y
<1> DEFINE Less == {ss \in Nat \X Nat : ss[1] < ss[2]}
<1>1. IsWellFoundedOn(Less, Nat)
  BY NatLessThanWellFounded, Zenon DEF OpToRel
<1> HIDE DEF Less
<1>2. PICK m \in S : \A y \in S : ~ (<<y, m>> \in Less)
  BY <1>1, WFMin
<1>3. \A x, y \in Nat : <<y, x>> \in Less <=> y < x
  BY DEF Less
<1>4. \A y \in S : m <= y
  <2>1. \A y \in S : ~ (y < m)
    BY <1>2, <1>3
  <2> QED BY <2>1
<1>5. Min(S) \in S /\ \A y \in S : Min(S) <= y
  BY <1>4 DEF Min
<1> QED BY <1>5

LEMMA LargerOfTwo ==
    ASSUME NEW x \in Nat, NEW y \in Nat
    PROVE  Max({x, y}) = IF x >= y THEN x ELSE y
BY DEF Max

\* A set of numbers that holds zero and every successor of a member is Nat.
LEMMA Induction ==
    ASSUME NEW S \in SUBSET Nat, 0 \in S, \A n \in S : n + 1 \in S
    PROVE  \A n \in Nat : n \in S
<1> SUFFICES ASSUME Nat \ S # {} PROVE FALSE
  OBVIOUS
<1>1. PICK k : k = Min(Nat \ S)
  OBVIOUS
<1>2. k \in Nat /\ k \notin S /\ \A y \in Nat \ S : k <= y
  BY <1>1, LeastNatural
<1>3. k # 0 /\ k - 1 \in Nat
  BY <1>2
<1>4. k - 1 \in S
  BY <1>2, <1>3
<1> QED BY <1>2, <1>3, <1>4

\* A function on the numbers may be defined from its value at zero and the step
\* to the next number.
StepOn(T, step) == step \in [Nat \X T -> T]

Iterates(f, T, base, step) ==
    /\ f \in [Nat -> T] /\ f[0] = base
    /\ \A n \in Nat : f[n + 1] = step[<<n + 1, f[n]>>]

LEMMA Recursion ==
    ASSUME NEW T, NEW base \in T, NEW step, StepOn(T, step)
    PROVE  \E f : Iterates(f, T, base, step)
<1> USE DEF StepOn
<1> DEFINE Part(h, n) == /\ h \in [0..n -> T] /\ h[0] = base
                         /\ \A i \in 0..n : i # n => h[i + 1] = step[<<i + 1, h[i]>>]
           Defined == {n \in Nat : \E h : Part(h, n)}
<1>1. \A n \in Nat : n \in Defined
  <2>1. 0 \in Defined
    <3>1. Part([i \in 0..0 |-> base], 0)
      OBVIOUS
    <3> QED BY <3>1
  <2>2. ASSUME NEW n \in Defined PROVE n + 1 \in Defined
    <3>1. PICK h : Part(h, n)
      OBVIOUS
    <3>2. PICK v \in T : v = step[<<n + 1, h[n]>>]
      BY <3>1
    <3>3. PICK g : g = [i \in 0..(n + 1) |-> IF i = n + 1 THEN v ELSE h[i]]
      OBVIOUS
    <3>4. g \in [0..(n + 1) -> T] /\ g[0] = base
      BY <3>1, <3>3
    <3>5. \A i \in 0..(n + 1) : i # n + 1 => g[i + 1] = step[<<i + 1, g[i]>>]
      <4> SUFFICES ASSUME NEW i \in 0..(n + 1), i # n + 1
                   PROVE  g[i + 1] = step[<<i + 1, g[i]>>]
        OBVIOUS
      <4>1. i \in 0..n /\ g[i] = h[i]
        BY <3>3
      <4>2. CASE i = n
        BY <3>2, <3>3, <4>1, <4>2
      <4>3. CASE i # n
        <5>1. g[i + 1] = h[i + 1]
          BY <3>3, <4>1, <4>3
        <5> QED BY <3>1, <4>1, <4>3, <5>1
      <4> QED BY <4>2, <4>3
    <3>6. Part(g, n + 1)
      BY <3>4, <3>5
    <3> QED BY <3>6
  <2> HIDE DEF Defined
  <2>3. Defined \in SUBSET Nat
    BY DEF Defined
  <2> QED BY <2>1, <2>2, <2>3, Induction
<1>2. ASSUME NEW n \in Nat, NEW k \in Nat, NEW h, NEW g, Part(h, n), Part(g, k), n <= k
      PROVE  h[n] = g[n]
  <2> DEFINE Same == {i \in Nat : i <= n => h[i] = g[i]}
  <2>1. 0 \in Same
    BY <1>2
  <2>2. ASSUME NEW i \in Same PROVE i + 1 \in Same
    <3> SUFFICES ASSUME i + 1 <= n PROVE h[i + 1] = g[i + 1]
      OBVIOUS
    <3>1. i \in 0..n /\ i # n /\ i \in 0..k /\ i # k /\ h[i] = g[i]
      BY <1>2
    <3>2. h[i + 1] = step[<<i + 1, h[i]>>] /\ g[i + 1] = step[<<i + 1, g[i]>>]
      BY <1>2, <3>1
    <3> QED BY <3>1, <3>2
  <2> HIDE DEF Same
  <2>3. Same \in SUBSET Nat
    BY DEF Same
  <2>4. n \in Same
    BY <2>1, <2>2, <2>3, Induction
  <2> QED BY <2>4 DEF Same
<1> DEFINE H(n) == CHOOSE h : Part(h, n)
<1>3. \A n \in Nat : Part(H(n), n)
  BY <1>1
<1> HIDE DEF H
<1>4. PICK f : f = [n \in Nat |-> H(n)[n]]
  OBVIOUS
<1>5. f \in [Nat -> T]
  BY <1>3, <1>4
<1>6. f[0] = base
  BY <1>3, <1>4
<1>7. ASSUME NEW n \in Nat PROVE f[n + 1] = step[<<n + 1, f[n]>>]
  <2>1. n \in 0..(n + 1) /\ n # n + 1 /\ n + 1 \in Nat /\ n <= n + 1
    OBVIOUS
  <2>2. Part(H(n), n) /\ Part(H(n + 1), n + 1)
    BY <1>3
  <2>3. H(n)[n] = H(n + 1)[n]
    <3> HIDE DEF Part
    <3> QED BY <1>2, <2>1, <2>2
  <2>4. H(n + 1)[n + 1] = step[<<n + 1, H(n + 1)[n]>>]
    BY <2>1, <2>2
  <2>5. f[n + 1] = H(n + 1)[n + 1] /\ f[n] = H(n)[n]
    BY <1>4
  <2> QED BY <2>3, <2>4, <2>5
<1>8. Iterates(f, T, base, step)
  BY <1>5, <1>6, <1>7 DEF Iterates
<1> QED BY <1>8

-----------------------------------------------------------------------------
(***************************************************************************)
(* What the operations on a mailbox return.                                *)
(***************************************************************************)
LEMMA PrefixBelowFacts ==
    ASSUME NEW live \in SUBSET Seqs, NEW p \in 0..MaxSeq
    PROVE  /\ PrefixBelow(live, p) \in 0..MaxSeq
           /\ PrefixBelow(live, p) <= p
           /\ \A s \in live : s > PrefixBelow(live, p)
           /\ \A q \in 0..p : (\A s \in live : s > q) => q <= PrefixBelow(live, p)
<1>1. CASE live = {}
  BY <1>1, BoundsAssumption DEF PrefixBelow
<1>2. CASE live # {}
  <2>1. PICK k : k = Min(live)
    OBVIOUS
  <2>2. k \in live /\ k \in Seqs /\ \A y \in live : k <= y
    <3>1. live \in SUBSET Nat
      BY DEF Seqs
    <3> QED BY <1>2, <2>1, <3>1, LeastNatural
  <2>3. k - 1 \in 0..MaxSeq
    BY <2>2, BoundsAssumption DEF Seqs
  <2>4. PICK q : q = Min({p, k - 1})
    OBVIOUS
  <2>5. q \in {p, k - 1} /\ q <= p /\ q <= k - 1
    <3>1. {p, k - 1} \in SUBSET Nat /\ {p, k - 1} # {}
      BY <2>3
    <3> QED BY <2>4, <3>1, LeastNatural
  <2>6. PrefixBelow(live, p) = q
    BY <1>2, <2>1, <2>4 DEF PrefixBelow
  <2> QED BY <2>2, <2>3, <2>5, <2>6, BoundsAssumption DEF Seqs
<1> QED BY <1>1, <1>2

\* The sequence s is settled according to the cursor c.
Covers(c, s) == s <= c.settled \/ s \in c.acked

LEMMA AdvanceSettledFacts ==
    ASSUME NEW m \in MailboxType, NEW p \in 0..MaxSeq
    PROVE  LET n == AdvanceSettled(m, p)
           IN  /\ n \in MailboxType
               /\ n.issued = m.issued /\ n.pending = m.pending /\ n.dead = m.dead
               /\ n.last = m.last /\ n.retired = m.retired
               /\ m.settled <= n.settled /\ (n.settled = m.settled \/ n.settled <= p)
               /\ n.acked = Above(m.acked, n.settled)
               /\ (\A s \in m.pending : s > m.settled) => \A s \in m.pending : s > n.settled
<1>1. PICK q : q = PrefixBelow(m.pending, p)
  OBVIOUS
<1>2. m.pending \in SUBSET Seqs /\ m.settled \in 0..MaxSeq /\ m.acked \in SUBSET Seqs
  BY DEF MailboxType
<1>3. q \in 0..MaxSeq /\ q <= p /\ \A s \in m.pending : s > q
  BY <1>1, <1>2, PrefixBelowFacts
<1>4. PICK top : top = Max({m.settled, q})
  OBVIOUS
<1>5. /\ top \in 0..MaxSeq /\ m.settled <= top
      /\ top = m.settled \/ top = q
  <2>1. m.settled \in Nat /\ q \in Nat
    BY <1>2, <1>3
  <2>2. top = IF m.settled >= q THEN m.settled ELSE q
    BY <1>4, <2>1, LargerOfTwo
  <2> QED BY <1>2, <1>3, <2>1, <2>2
<1>6. PICK attempts : attempts = [s \in Seqs |-> IF s \in m.pending THEN m.attempts[s] ELSE 0]
  OBVIOUS
<1>7. attempts \in [Seqs -> 0..NackLimit - 1]
  <2>1. m.attempts \in [Seqs -> 0..NackLimit - 1]
    BY DEF MailboxType
  <2>2. 0 \in 0..NackLimit - 1
    BY BoundsAssumption
  <2> QED BY <1>6, <2>1, <2>2
<1>8. AdvanceSettled(m, p) = [m EXCEPT !.settled = top, !.acked = Above(m.acked, top),
                                       !.attempts = attempts]
  BY <1>1, <1>4, <1>6 DEF AdvanceSettled
<1>9. Above(m.acked, top) \in SUBSET Seqs
  BY <1>2 DEF Above
<1>10. AdvanceSettled(m, p) \in MailboxType
  BY <1>5, <1>7, <1>8, <1>9 DEF MailboxType
<1> QED BY <1>2, <1>3, <1>5, <1>8, <1>10 DEF MailboxType

\* A list of dead letters.
LEMMA DeadList ==
    ASSUME NEW d
    PROVE  d \in BoundedSeq(Seqs, DeadLimit) <=> d \in Seq(Seqs) /\ Len(d) <= DeadLimit
<1>1. DeadLimit \in Nat
  BY BoundsAssumption
<1>2. ASSUME d \in BoundedSeq(Seqs, DeadLimit) PROVE d \in Seq(Seqs) /\ Len(d) <= DeadLimit
  <2>1. PICK k \in 0..DeadLimit : d \in [1..k -> Seqs]
    BY <1>2 DEF BoundedSeq, SeqOf
  <2>2. k \in Nat /\ k <= DeadLimit
    BY <1>1, <2>1
  <2> QED BY <2>1, <2>2
<1>3. ASSUME d \in Seq(Seqs), Len(d) <= DeadLimit PROVE d \in BoundedSeq(Seqs, DeadLimit)
  <2>1. Len(d) \in 0..DeadLimit /\ d \in [1..Len(d) -> Seqs]
    BY <1>1, <1>3
  <2> QED BY <2>1 DEF BoundedSeq, SeqOf
<1> QED BY <1>2, <1>3

LEMMA BoundedFacts ==
    ASSUME NEW d \in Seq(Seqs)
    PROVE  /\ Bounded(d) \in BoundedSeq(Seqs, DeadLimit)
           /\ ToSet(Bounded(d)) \subseteq ToSet(d)
<1>1. DeadLimit \in Nat \ {0}
  BY BoundsAssumption
<1>2. CASE Len(d) <= DeadLimit
  BY <1>2, DeadList DEF Bounded
<1>3. CASE Len(d) > DeadLimit
  <2>1. PICK k : k = Len(d) - DeadLimit + 1
    OBVIOUS
  <2>2. k \in 1..Len(d) /\ Len(d) \in Nat /\ Len(d) - k + 1 = DeadLimit
    BY <1>1, <1>3, <2>1
  <2>3. PICK e : e = SubSeq(d, k, Len(d))
    OBVIOUS
  <2>4. e \in Seq(Seqs) /\ Len(e) = DeadLimit /\ \A i \in 1..Len(e) : e[i] = d[k + i - 1]
    BY <1>1, <2>2, <2>3, SubSeqProperties
  <2>5. Bounded(d) = e
    BY <1>1, <1>3, <2>1, <2>3 DEF Bounded
  <2>6. \A i \in 1..Len(e) : k + i - 1 \in 1..Len(d)
    BY <1>1, <2>2, <2>4
  <2>7. ToSet(e) \subseteq ToSet(d)
    BY <2>4, <2>6 DEF ToSet
  <2>8. e \in BoundedSeq(Seqs, DeadLimit)
    BY <1>1, <2>4, DeadList
  <2> QED BY <2>5, <2>7, <2>8
<1> QED BY <1>1, <1>2, <1>3

\* Keep, like a filter, returns members of the list that are in S.
LEMMA KeepFacts ==
    ASSUME NEW d \in BoundedSeq(Seqs, DeadLimit), NEW S
    PROVE  /\ Keep(d, S) \in BoundedSeq(Seqs, DeadLimit)
           /\ ToSet(Keep(d, S)) \subseteq ToSet(d) \intersect S
<1>1. d \in Seq(Seqs) /\ Len(d) \in Nat /\ Len(d) <= DeadLimit
  BY DeadList
<1>2. PICK T : T = Seq(Seqs)
  OBVIOUS
<1>3. <<>> \in T /\ \A e \in T, x \in Seqs : Append(e, x) \in T
  BY <1>2
<1>4. \A i \in 1..Len(d) : d[i] \in Seqs /\ d[i] \in ToSet(d)
  BY <1>1 DEF ToSet
<1> DEFINE step == [z \in Nat \X T |->
                       IF z[1] \in 1..Len(d) /\ d[z[1]] \in S THEN Append(z[2], d[z[1]])
                       ELSE z[2]]
           Filter(g) == [i \in 0..Len(d) |->
                          IF i = 0 THEN <<>>
                          ELSE IF d[i] \in S THEN Append(g[i - 1], d[i]) ELSE g[i - 1]]
<1>5. step \in [Nat \X T -> T]
  BY <1>3, <1>4
<1>6. PICK f \in [Nat -> T] :
          f[0] = <<>> /\ \A n \in Nat : f[n + 1] = step[<<n + 1, f[n]>>]
  <2> HIDE DEF step
  <2>1. PICK f : Iterates(f, T, <<>>, step)
    BY <1>3, <1>5, Recursion DEF StepOn
  <2> QED BY <2>1 DEF Iterates
<1>7. \E g : g = Filter(g)
  <2>1. PICK g : g = [i \in 0..Len(d) |-> f[i]]
    OBVIOUS
  <2>2. ASSUME NEW i \in 0..Len(d) PROVE g[i] = Filter(g)[i]
    <3>1. CASE i = 0
      BY <1>6, <2>1, <3>1
    <3>2. CASE i # 0
      <4>1. i - 1 \in Nat /\ i - 1 \in 0..Len(d) /\ i \in 1..Len(d) /\ (i - 1) + 1 = i
        BY <1>1, <3>2
      <4>2. f[i] = step[<<i, f[i - 1]>>]
        BY <1>6, <4>1
      <4>3. PICK e \in T : e = f[i - 1]
        BY <1>6, <4>1
      <4>4. step[<<i, e>>] = IF d[i] \in S THEN Append(e, d[i]) ELSE e
        BY <4>1
      <4>5. g[i] = f[i] /\ g[i - 1] = f[i - 1]
        BY <2>1, <4>1
      <4> QED BY <3>2, <4>2, <4>3, <4>4, <4>5
    <3> QED BY <3>1, <3>2
  <2> QED BY <2>1, <2>2
<1>8. PICK kept : kept = Filter(kept) /\ Keep(d, S) = kept[Len(d)]
  <2>1. PICK kept : kept = CHOOSE h : h = Filter(h)
    OBVIOUS
  <2>2. kept = Filter(kept)
    BY <1>7, <2>1
  <2>3. Keep(d, S) = kept[Len(d)]
    BY <2>1 DEF Keep
  <2> QED BY <2>2, <2>3
<1>9. kept[0] = <<>>
  BY <1>1, <1>8
<1>10. \A i \in 1..Len(d) :
          kept[i] = IF d[i] \in S THEN Append(kept[i - 1], d[i]) ELSE kept[i - 1]
  <2> TAKE i \in 1..Len(d)
  <2>1. i \in 0..Len(d) /\ i # 0
    BY <1>1
  <2>2. Filter(kept)[i] = IF d[i] \in S THEN Append(kept[i - 1], d[i]) ELSE kept[i - 1]
    BY <2>1
  <2> HIDE DEF Filter
  <2> QED BY <1>8, <2>2
<1> HIDE DEF step, Filter
<1> DEFINE P(e, i) == e \in T /\ Len(e) <= i /\ ToSet(e) \subseteq ToSet(d) \intersect S
           Good == {i \in Nat : i <= Len(d) => P(kept[i], i)}
<1>11. 0 \in Good
  <2>1. P(<<>>, 0)
    <3>1. ToSet(<<>>) = {}
      BY DEF ToSet
    <3> QED BY <1>3, <3>1
  <2> QED BY <1>9, <2>1
<1>12. ASSUME NEW e, NEW i \in Nat, P(e, i), i + 1 <= Len(d)
       PROVE  P(IF d[i + 1] \in S THEN Append(e, d[i + 1]) ELSE e, i + 1)
  <2>1. i + 1 \in 1..Len(d)
    BY <1>1, <1>12
  <2>2. PICK x \in Seqs : x = d[i + 1] /\ x \in ToSet(d)
    BY <1>4, <2>1
  <2>3. e \in Seq(Seqs) /\ Len(e) \in Nat
    BY <1>2, <1>12
  <2>4. CASE x \in S
    <3>1. PICK a : a = Append(e, x)
      OBVIOUS
    <3>2. a \in Seq(Seqs) /\ Len(a) = Len(e) + 1
      BY <2>3, <3>1
    <3>3. ToSet(a) \subseteq ToSet(e) \union {x}
      BY <2>3, <3>1 DEF ToSet
    <3>4. P(a, i + 1)
      <4>1. Len(e) <= i /\ ToSet(e) \subseteq ToSet(d) \intersect S
        BY <1>12
      <4>2. Len(a) <= i + 1
        BY <2>3, <3>2, <4>1
      <4>3. ToSet(a) \subseteq ToSet(d) \intersect S
        BY <2>2, <2>4, <3>3, <4>1
      <4> QED BY <1>2, <3>2, <4>2, <4>3
    <3> HIDE DEF P
    <3> QED BY <2>2, <2>4, <3>1, <3>4
  <2>5. CASE x \notin S
    <3>1. P(e, i + 1)
      BY <1>12, <2>3
    <3> HIDE DEF P
    <3> QED BY <2>2, <2>5, <3>1
  <2> QED BY <2>4, <2>5
<1> HIDE DEF P
<1>13. ASSUME NEW i \in Good PROVE i + 1 \in Good
  <2> SUFFICES ASSUME i + 1 <= Len(d) PROVE P(kept[i + 1], i + 1)
    OBVIOUS
  <2>1. i \in Nat /\ i + 1 \in 1..Len(d) /\ (i + 1) - 1 = i /\ i <= Len(d)
    BY <1>1
  <2>2. P(kept[i], i)
    BY <2>1
  <2>3. kept[i + 1] = IF d[i + 1] \in S THEN Append(kept[i], d[i + 1]) ELSE kept[i]
    BY <1>10, <2>1
  <2> QED BY <1>12, <2>1, <2>2, <2>3
<1>14. Len(d) \in Good
  <2> HIDE DEF Good
  <2>1. Good \in SUBSET Nat
    BY DEF Good
  <2> QED BY <1>1, <1>11, <1>13, <2>1, Induction
<1>15. P(Keep(d, S), Len(d))
  BY <1>1, <1>8, <1>14
<1>16. Keep(d, S) \in Seq(Seqs) /\ Len(Keep(d, S)) <= Len(d) /\ Len(Keep(d, S)) \in Nat
  BY <1>2, <1>15 DEF P
<1>17. Len(Keep(d, S)) <= DeadLimit
  BY <1>1, <1>16, BoundsAssumption
<1> QED BY <1>15, <1>16, <1>17, DeadList DEF P

\* From m to n the sequences in gone have left the mailbox and are settled in it,
\* with p as the published prefix.
Settles(m, n, gone, p) ==
    /\ n \in MailboxType /\ n.issued = m.issued
    /\ n.pending \subseteq m.pending /\ m.pending \subseteq n.pending \union gone
    /\ m.settled <= n.settled
    /\ n.settled = m.settled \/ n.settled <= p
    /\ n.acked \subseteq m.acked \union gone
    /\ \A x \in Seqs : (Covers(m, x) \/ x \in gone) => Covers(n, x)
    /\ (\A x \in m.pending : x > m.settled) => \A x \in n.pending : x > n.settled
    /\ ToSet(n.dead) \subseteq ToSet(m.dead) \union gone

LEMMA SettlesReflexive ==
    ASSUME NEW m \in MailboxType, NEW p
    PROVE  Settles(m, m, {}, p)
<1>1. m.settled \in 0..MaxSeq
  BY DEF MailboxType
<1> QED BY <1>1, BoundsAssumption DEF Settles

LEMMA SettlesTransitive ==
    ASSUME NEW m \in MailboxType, NEW n, NEW k, NEW S \in SUBSET Seqs,
           NEW T \in SUBSET Seqs, NEW p \in 0..MaxSeq,
           Settles(m, n, S, p), Settles(n, k, T, p)
    PROVE  Settles(m, k, S \union T, p)
<1>1. /\ m.settled \in 0..MaxSeq /\ n.settled \in 0..MaxSeq /\ k.settled \in 0..MaxSeq
      /\ k \in MailboxType /\ k.issued = m.issued
  BY DEF Settles, MailboxType
<1>2. k.pending \subseteq m.pending /\ m.pending \subseteq k.pending \union (S \union T)
  BY DEF Settles
<1>3. m.settled <= k.settled /\ (k.settled = m.settled \/ k.settled <= p)
  <2>1. /\ m.settled <= n.settled /\ n.settled <= k.settled
        /\ n.settled = m.settled \/ n.settled <= p
        /\ k.settled = n.settled \/ k.settled <= p
    BY DEF Settles
  <2> QED BY <1>1, <2>1
<1>4. k.acked \subseteq m.acked \union (S \union T)
  BY DEF Settles
<1>5. \A x \in Seqs : (Covers(m, x) \/ x \in S \union T) => Covers(k, x)
  BY DEF Settles
<1>6. (\A x \in m.pending : x > m.settled) => \A x \in k.pending : x > k.settled
  BY DEF Settles
<1>7. ToSet(k.dead) \subseteq ToSet(m.dead) \union (S \union T)
  BY DEF Settles
<1> QED BY <1>1, <1>2, <1>3, <1>4, <1>5, <1>6, <1>7 DEF Settles

\* A mailbox n that lost what is in gone and has it among its acknowledged or
\* settled sequences settles once its prefix is advanced.
LEMMA AdvanceSettles ==
    ASSUME NEW m \in MailboxType, NEW n \in MailboxType, NEW gone \in SUBSET Seqs,
           NEW p \in 0..MaxSeq,
           n.issued = m.issued, n.pending = m.pending \ gone, n.settled = m.settled,
           n.acked \subseteq m.acked \union gone, m.acked \subseteq n.acked,
           \A x \in gone : Covers(n, x), ToSet(n.dead) \subseteq ToSet(m.dead) \union gone
    PROVE  /\ Settles(m, AdvanceSettled(n, p), gone, p)
           /\ AdvanceSettled(n, p).retired = n.retired /\ AdvanceSettled(n, p).last = n.last
<1>1. PICK k : k = AdvanceSettled(n, p)
  OBVIOUS
<1>2. /\ k \in MailboxType
      /\ k.issued = n.issued /\ k.pending = n.pending /\ k.dead = n.dead
      /\ k.last = n.last /\ k.retired = n.retired
      /\ n.settled <= k.settled
      /\ k.settled = n.settled \/ k.settled <= p
      /\ k.acked = Above(n.acked, k.settled)
      /\ (\A s \in n.pending : s > n.settled) => \A s \in n.pending : s > k.settled
  BY <1>1, AdvanceSettledFacts
<1>3. n.settled \in Nat /\ k.settled \in Nat
  BY <1>2 DEF MailboxType
<1>4. k.acked \subseteq m.acked \union gone
  BY <1>2 DEF Above
<1>5. ASSUME NEW x \in Seqs, Covers(m, x) \/ x \in gone PROVE Covers(k, x)
  <2>1. Covers(n, x)
    BY <1>5 DEF Covers
  <2>2. x \in Nat
    BY DEF Seqs
  <2> QED BY <1>2, <1>3, <2>1, <2>2 DEF Covers, Above
<1>6. (\A x \in m.pending : x > m.settled) => \A x \in k.pending : x > k.settled
  BY <1>2
<1>7. k.pending \subseteq m.pending /\ m.pending \subseteq k.pending \union gone
  BY <1>2
<1> QED BY <1>1, <1>2, <1>4, <1>5, <1>6, <1>7 DEF Settles

LEMMA DeadLetterSettles ==
    ASSUME NEW m \in MailboxType, NEW s \in Seqs, NEW p \in 0..MaxSeq
    PROVE  LET n == AdvanceSettled(DeadLetter(m, s), p)
           IN  Settles(m, n, {s}, p) /\ n.retired = m.retired \union {s} /\ n.last = m.last
<1>1. PICK d : d = Bounded(Append(m.dead, s))
  OBVIOUS
<1>2. d \in BoundedSeq(Seqs, DeadLimit) /\ ToSet(d) \subseteq ToSet(m.dead) \union {s}
  <2>1. m.dead \in Seq(Seqs)
    BY DeadList DEF MailboxType
  <2>2. PICK e : e = m.dead
    OBVIOUS
  <2>3. Append(e, s) \in Seq(Seqs) /\ ToSet(Append(e, s)) \subseteq ToSet(e) \union {s}
    BY <2>1, <2>2 DEF ToSet
  <2> QED BY <1>1, <2>2, <2>3, BoundedFacts
<1>3. PICK attempts : attempts = [m.attempts EXCEPT ![s] = 0]
  OBVIOUS
<1>4. attempts \in [Seqs -> 0..NackLimit - 1]
  <2>1. m.attempts \in [Seqs -> 0..NackLimit - 1] /\ 0 \in 0..NackLimit - 1
    BY BoundsAssumption DEF MailboxType
  <2> QED BY <1>3, <2>1
<1>5. PICK acked : acked = IF s > m.settled THEN m.acked \union {s} ELSE m.acked
  OBVIOUS
<1>6. PICK n : n = DeadLetter(m, s)
  OBVIOUS
<1>7. n = [m EXCEPT !.pending = m.pending \ {s}, !.attempts = attempts, !.acked = acked,
                    !.retired = m.retired \union {s}, !.dead = d]
  BY <1>1, <1>3, <1>5, <1>6 DEF DeadLetter, MailboxType
<1>8. /\ n \in MailboxType /\ n.issued = m.issued /\ n.pending = m.pending \ {s}
      /\ n.settled = m.settled /\ n.acked = acked /\ n.dead = d
      /\ n.retired = m.retired \union {s} /\ n.last = m.last
  BY <1>2, <1>4, <1>5, <1>7 DEF MailboxType
<1>9. Covers(n, s) /\ acked \subseteq m.acked \union {s} /\ m.acked \subseteq acked
  <2>1. m.settled \in Nat /\ s \in Nat
    BY DEF MailboxType, Seqs
  <2> QED BY <1>5, <1>8, <2>1 DEF Covers
<1>10. PICK gone \in SUBSET Seqs : gone = {s}
  OBVIOUS
<1>11. /\ Settles(m, AdvanceSettled(n, p), gone, p)
       /\ AdvanceSettled(n, p).retired = n.retired /\ AdvanceSettled(n, p).last = n.last
  BY <1>2, <1>8, <1>9, <1>10, AdvanceSettles
<1> QED BY <1>6, <1>8, <1>10, <1>11

\* Making room dead-letters deliveries below s and leaves their records behind.
LEMMA MakeRoomFacts ==
    ASSUME NEW m \in MailboxType, NEW s \in Seqs, NEW p \in 0..MaxSeq, m.retired = {}
    PROVE  LET n == MakeRoom(m, s, p)
           IN  /\ Settles(m, n, n.retired, p) /\ n.last = m.last
               /\ \A x \in n.retired : x \in m.pending /\ x < s
<1> DEFINE body(n, h) == IF h \in m.pending /\ WindowFull(n, s)
                         THEN AdvanceSettled(DeadLetter(n, h), p) ELSE n
           step == [z \in Nat \X MailboxType |-> body(z[2], z[1])]
           Room(f) == [h \in Nat |-> IF h = 0 THEN m
                                     ELSE IF h \in m.pending /\ WindowFull(f[h - 1], s)
                                          THEN AdvanceSettled(DeadLetter(f[h - 1], h), p)
                                          ELSE f[h - 1]]
<1>1. m.pending \in SUBSET Seqs
  BY DEF MailboxType
<1>2. ASSUME NEW n \in MailboxType, NEW h \in Nat PROVE body(n, h) \in MailboxType
  <2>1. CASE h \in m.pending
    <3>1. Settles(n, AdvanceSettled(DeadLetter(n, h), p), {h}, p)
      BY <1>1, <2>1, DeadLetterSettles
    <3> QED BY <3>1 DEF Settles
  <2>2. CASE h \notin m.pending
    BY <2>2
  <2> QED BY <2>1, <2>2
<1>3. StepOn(MailboxType, step)
  <2> HIDE DEF body
  <2> QED BY <1>2 DEF StepOn
<1>4. PICK f : Iterates(f, MailboxType, m, step)
  <2> HIDE DEF step
  <2> QED BY <1>3, Recursion
<1>5. /\ f \in [Nat -> MailboxType] /\ f[0] = m
      /\ \A n \in Nat : f[n + 1] = body(f[n], n + 1)
  <2> HIDE DEF body
  <2>1. f \in [Nat -> MailboxType] /\ f[0] = m /\ \A n \in Nat : f[n + 1] = step[<<n + 1, f[n]>>]
    <3> HIDE DEF step
    <3> QED BY <1>4 DEF Iterates
  <2>2. \A n \in Nat : step[<<n + 1, f[n]>>] = body(f[n], n + 1)
    BY <2>1
  <2> QED BY <2>1, <2>2
<1>6. f = Room(f)
  <2>1. ASSUME NEW h \in Nat PROVE f[h] = Room(f)[h]
    <3>1. CASE h = 0
      BY <1>5, <3>1
    <3>2. CASE h # 0
      <4>1. h - 1 \in Nat /\ (h - 1) + 1 = h
        BY <3>2
      <4>2. f[h] = body(f[h - 1], h)
        <5> HIDE DEF body
        <5> QED BY <1>5, <4>1
      <4> QED BY <3>2, <4>2
    <3> QED BY <3>1, <3>2
  <2>2. DOMAIN f = Nat /\ f = [h \in Nat |-> f[h]]
    BY <1>5
  <2> QED BY <2>1, <2>2
<1>7. PICK room : room = Room(room) /\ MakeRoom(m, s, p) = room[s - 1]
  <2>1. PICK room : room = CHOOSE h : h = Room(h)
    OBVIOUS
  <2>2. room = Room(room)
    BY <1>6, <2>1
  <2>3. MakeRoom(m, s, p) = room[s - 1]
    BY <2>1 DEF MakeRoom
  <2> QED BY <2>2, <2>3
<1>8. room[0] = m
  <2>1. Room(room)[0] = m
    OBVIOUS
  <2> HIDE DEF Room
  <2> QED BY <1>7, <2>1
<1>9. \A h \in Nat : room[h + 1] = body(room[h], h + 1)
  <2> TAKE h \in Nat
  <2>1. h + 1 \in Nat /\ h + 1 # 0 /\ (h + 1) - 1 = h
    OBVIOUS
  <2>2. Room(room)[h + 1] = body(room[h], h + 1)
    BY <2>1
  <2> HIDE DEF Room, body
  <2> QED BY <1>7, <2>2
<1> HIDE DEF step, Room
<1> DEFINE P(n, h) == /\ Settles(m, n, n.retired, p) /\ n.last = m.last
                      /\ \A x \in n.retired : x \in m.pending /\ x <= h
           Good == {h \in Nat : P(room[h], h)}
<1>10. P(m, 0)
  BY SettlesReflexive
<1>11. ASSUME NEW n, NEW h \in Nat, P(n, h) PROVE P(body(n, h + 1), h + 1)
  <2>1. n \in MailboxType /\ n.retired \in SUBSET Seqs /\ n.retired \in SUBSET Nat
    BY <1>11 DEF Settles, MailboxType, Seqs
  <2>2. CASE h + 1 \in m.pending /\ WindowFull(n, s)
    <3>1. PICK k : k = AdvanceSettled(DeadLetter(n, h + 1), p)
      OBVIOUS
    <3>2. h + 1 \in Seqs
      BY <1>1, <2>2
    <3>3. Settles(n, k, {h + 1}, p) /\ k.retired = n.retired \union {h + 1} /\ k.last = n.last
      <4> HIDE DEF P, body
      <4>1. PICK head \in Seqs : head = h + 1
        BY <3>2
      <4>2. n \in MailboxType /\ k = AdvanceSettled(DeadLetter(n, head), p)
        BY <2>1, <3>1, <4>1
      <4>3. Settles(n, k, {head}, p) /\ k.retired = n.retired \union {head} /\ k.last = n.last
        BY <4>2, DeadLetterSettles, Zenon
      <4> QED BY <4>1, <4>3
    <3>4. Settles(m, k, n.retired \union {h + 1}, p)
      <4>1. Settles(m, n, n.retired, p)
        BY <1>11
      <4>2. {h + 1} \in SUBSET Seqs
        BY <3>2
      <4> HIDE DEF P, body
      <4> QED BY <2>1, <3>3, <4>1, <4>2, SettlesTransitive
    <3>5. \A x \in k.retired : x \in m.pending /\ x <= h + 1
      <4>1. \A x \in n.retired : x \in m.pending /\ x <= h /\ x \in Nat
        BY <1>11, <2>1
      <4> QED BY <2>2, <3>3, <4>1
    <3>6. P(k, h + 1)
      BY <1>11, <3>3, <3>4, <3>5
    <3> HIDE DEF P
    <3> QED BY <2>2, <3>1, <3>6
  <2>3. CASE ~(h + 1 \in m.pending /\ WindowFull(n, s))
    <3>1. P(n, h + 1)
      BY <1>11, <2>1
    <3> HIDE DEF P
    <3> QED BY <2>3, <3>1
  <2> QED BY <2>2, <2>3
<1> HIDE DEF P, body
<1>12. s - 1 \in Good
  <2>1. Good \in SUBSET Nat /\ 0 \in Good
    BY <1>8, <1>10
  <2>2. ASSUME NEW h \in Good PROVE h + 1 \in Good
    BY <1>9, <1>11
  <2>3. s - 1 \in Nat
    BY DEF Seqs
  <2> HIDE DEF Good
  <2> QED BY <2>1, <2>2, <2>3, Induction
<1>13. P(MakeRoom(m, s, p), s - 1)
  BY <1>7, <1>12
<1>14. s \in Nat /\ \A x \in m.pending : x \in Nat
  BY <1>1 DEF Seqs
<1> QED BY <1>13, <1>14 DEF P

LEMMA ApplyAckFacts ==
    ASSUME NEW m \in MailboxType, NEW s \in Seqs, NEW p \in 0..MaxSeq
    PROVE  LET n == ApplyAck(m, s, p)
           IN  /\ Settles(m, n, n.retired \union {s}, p) /\ n.last = s
               /\ \A x \in n.retired : x \in m.pending /\ x < s
<1>1. PICK b : b = [m EXCEPT !.retired = {}]
  OBVIOUS
<1>2. /\ b \in MailboxType /\ b.issued = m.issued /\ b.pending = m.pending
      /\ b.settled = m.settled /\ b.acked = m.acked /\ b.dead = m.dead /\ b.retired = {}
  BY <1>1 DEF MailboxType
<1>3. PICK r : r = MakeRoom(b, s, p)
  OBVIOUS
<1>4. Settles(b, r, r.retired, p) /\ \A x \in r.retired : x \in b.pending /\ x < s
  BY <1>2, <1>3, MakeRoomFacts
<1>5. r \in MailboxType /\ r.retired \in SUBSET Seqs
  BY <1>4 DEF Settles, MailboxType
<1>6. Settles(m, r, r.retired, p)
  BY <1>2, <1>4 DEF Settles, Covers
<1>7. PICK n : n = [r EXCEPT !.last = s, !.acked = @ \union {s}, !.attempts[s] = 0,
                             !.pending = @ \ {s}]
  OBVIOUS
<1>8. /\ n \in MailboxType /\ n.issued = r.issued /\ n.pending = r.pending \ {s}
      /\ n.settled = r.settled /\ n.acked = r.acked \union {s} /\ n.dead = r.dead
      /\ n.retired = r.retired /\ n.last = s
  <2>1. PICK attempts : attempts = [r.attempts EXCEPT ![s] = 0]
    OBVIOUS
  <2>2. attempts \in [Seqs -> 0..NackLimit - 1]
    <3>1. r.attempts \in [Seqs -> 0..NackLimit - 1] /\ 0 \in 0..NackLimit - 1
      BY <1>5, BoundsAssumption DEF MailboxType
    <3> QED BY <2>1, <3>1
  <2>3. n = [r EXCEPT !.last = s, !.acked = r.acked \union {s}, !.attempts = attempts,
                      !.pending = r.pending \ {s}]
    BY <1>5, <1>7, <2>1 DEF MailboxType
  <2>4. s \in 0..MaxSeq /\ r.acked \union {s} \in SUBSET Seqs /\ r.pending \ {s} \in SUBSET Seqs
    <3>1. s \in 0..MaxSeq
      BY BoundsAssumption DEF Seqs
    <3>2. r.acked \in SUBSET Seqs /\ r.pending \in SUBSET Seqs
      BY <1>5 DEF MailboxType
    <3> QED BY <3>1, <3>2
  <2>5. /\ n.issued = r.issued /\ n.pending = r.pending \ {s} /\ n.settled = r.settled
        /\ n.acked = r.acked \union {s} /\ n.dead = r.dead /\ n.retired = r.retired
        /\ n.last = s
    BY <1>5, <2>3 DEF MailboxType
  <2>6. n \in MailboxType
    BY <1>5, <2>2, <2>3, <2>4 DEF MailboxType
  <2> QED BY <2>5, <2>6
<1>9. Covers(n, s)
  BY <1>8 DEF Covers
<1>10. PICK gone \in SUBSET Seqs : gone = {s}
  OBVIOUS
<1>11. /\ Settles(r, AdvanceSettled(n, p), gone, p)
       /\ AdvanceSettled(n, p).retired = n.retired /\ AdvanceSettled(n, p).last = n.last
  BY <1>5, <1>8, <1>9, <1>10, AdvanceSettles
<1>12. Settles(m, AdvanceSettled(n, p), r.retired \union gone, p)
  BY <1>5, <1>6, <1>11, SettlesTransitive
<1>13. ApplyAck(m, s, p) = AdvanceSettled(n, p)
  BY <1>1, <1>3, <1>7 DEF ApplyAck
<1> QED BY <1>2, <1>4, <1>8, <1>10, <1>11, <1>12, <1>13

\* What is true of a batch that has got as far as b, from the mailbox m.
BatchType == [m : MailboxType, acks : SUBSET Seqs, retired : SUBSET Seqs]

BatchFrom(m, b, S, p) ==
    /\ b \in BatchType
    /\ Settles(m, b.m, b.acks \union b.retired, p)
    /\ b.acks \subseteq S
    /\ \A x \in b.retired : \E s \in S : x < s
    /\ b.acks # {} => b.m.last \in b.acks

LEMMA ApplyMemberFacts ==
    ASSUME NEW m \in MailboxType, NEW b, NEW S \in SUBSET Seqs, NEW s \in S,
           Published \in 0..MaxSeq, BatchFrom(m, b, S, Published)
    PROVE  BatchFrom(m, ApplyMember(b, s), S, Published)
<1>1. CASE ~Known(b.m, s) \/ Backpressure(b.m, s)
  BY <1>1 DEF ApplyMember
<1>2. CASE ~(~Known(b.m, s) \/ Backpressure(b.m, s))
  <2>1. PICK n : n = ApplyAck(b.m, s, Published)
    OBVIOUS
  <2>2. b.m \in MailboxType /\ b.acks \in SUBSET Seqs /\ b.retired \in SUBSET Seqs
    BY DEF BatchFrom, BatchType
  <2>3. /\ Settles(b.m, n, n.retired \union {s}, Published) /\ n.last = s
        /\ \A x \in n.retired : x \in b.m.pending /\ x < s
    BY <2>1, <2>2, ApplyAckFacts
  <2>4. n \in MailboxType /\ n.retired \in SUBSET Seqs
    BY <2>3 DEF Settles, MailboxType
  <2>5. PICK gone \in SUBSET Seqs : gone = b.acks \union b.retired
    BY <2>2
  <2>6. PICK more \in SUBSET Seqs : more = n.retired \union {s}
    BY <2>4
  <2>7. Settles(m, n, gone \union more, Published)
    BY <2>2, <2>3, <2>5, <2>6, SettlesTransitive DEF BatchFrom
  <2>8. PICK acks \in SUBSET Seqs : acks = b.acks \union {s}
    BY <2>2
  <2>9. PICK retired \in SUBSET Seqs : retired = b.retired \union n.retired
    BY <2>2, <2>4
  <2>10. gone \union more = acks \union retired
    BY <2>5, <2>6, <2>8, <2>9
  <2>11. PICK c : c = [m |-> n, acks |-> acks, retired |-> retired]
    OBVIOUS
  <2>12. c \in BatchType /\ c.m = n /\ c.acks = acks /\ c.retired = retired
    BY <2>4, <2>11 DEF BatchType
  <2>13. \A x \in retired : \E y \in S : x < y
    BY <2>3, <2>9 DEF BatchFrom
  <2>14. acks \subseteq S /\ n.last \in acks
    BY <2>3, <2>8 DEF BatchFrom
  <2>15. BatchFrom(m, c, S, Published)
    BY <2>7, <2>10, <2>12, <2>13, <2>14 DEF BatchFrom
  <2> QED BY <1>2, <2>1, <2>8, <2>9, <2>11, <2>15 DEF ApplyMember
<1> QED BY <1>1, <1>2

LEMMA ApplyBatchFacts ==
    ASSUME NEW m \in MailboxType, NEW S \in SUBSET Seqs, Published \in 0..MaxSeq
    PROVE  BatchFrom(m, ApplyBatch(m, S), S, Published)
<1>1. PICK start : start = [m |-> m, acks |-> {}, retired |-> {}]
  OBVIOUS
<1>2. PICK T : T = {b \in BatchType : BatchFrom(m, b, S, Published)}
  OBVIOUS
<1>3. start \in T
  <2>1. start \in BatchType /\ start.m = m /\ start.acks = {} /\ start.retired = {}
    BY <1>1 DEF BatchType
  <2>2. Settles(m, m, {}, Published)
    BY SettlesReflexive
  <2> QED BY <1>2, <2>1, <2>2 DEF BatchFrom
<1> DEFINE body(b, s) == IF s \in S THEN ApplyMember(b, s) ELSE b
           step == [z \in Nat \X T |-> body(z[2], z[1])]
           Batch(f) == [s \in Nat |-> IF s = 0 THEN start
                                      ELSE IF s \in S THEN ApplyMember(f[s - 1], s)
                                           ELSE f[s - 1]]
<1>4. ASSUME NEW b \in T, NEW s \in Nat PROVE body(b, s) \in T
  <2>1. CASE s \in S
    <3>1. BatchFrom(m, ApplyMember(b, s), S, Published)
      BY <1>2, <2>1, ApplyMemberFacts
    <3> QED BY <1>2, <2>1, <3>1 DEF BatchFrom
  <2>2. CASE s \notin S
    BY <2>2
  <2> QED BY <2>1, <2>2
<1>5. StepOn(T, step)
  <2> HIDE DEF body
  <2> QED BY <1>4 DEF StepOn
<1>6. PICK f : Iterates(f, T, start, step)
  <2> HIDE DEF step
  <2> QED BY <1>3, <1>5, Recursion
<1>7. /\ f \in [Nat -> T] /\ f[0] = start
      /\ \A n \in Nat : f[n + 1] = body(f[n], n + 1)
  <2> HIDE DEF body
  <2>1. f \in [Nat -> T] /\ f[0] = start /\ \A n \in Nat : f[n + 1] = step[<<n + 1, f[n]>>]
    <3> HIDE DEF step
    <3> QED BY <1>6 DEF Iterates
  <2>2. \A n \in Nat : step[<<n + 1, f[n]>>] = body(f[n], n + 1)
    BY <2>1
  <2> QED BY <2>1, <2>2
<1>8. f = Batch(f)
  <2>1. ASSUME NEW s \in Nat PROVE f[s] = Batch(f)[s]
    <3>1. CASE s = 0
      BY <1>7, <3>1
    <3>2. CASE s # 0
      <4>1. s - 1 \in Nat /\ (s - 1) + 1 = s
        BY <3>2
      <4>2. f[s] = body(f[s - 1], s)
        <5> HIDE DEF body
        <5> QED BY <1>7, <4>1
      <4> QED BY <3>2, <4>2
    <3> QED BY <3>1, <3>2
  <2>2. DOMAIN f = Nat /\ f = [s \in Nat |-> f[s]]
    BY <1>7
  <2> QED BY <2>1, <2>2
<1>9. PICK batch : batch = Batch(batch) /\ ApplyBatch(m, S) = batch[MaxSeq]
  <2>1. PICK batch : batch = CHOOSE h : h = Batch(h)
    OBVIOUS
  <2>2. batch = Batch(batch)
    BY <1>8, <2>1
  <2>3. ApplyBatch(m, S) = batch[MaxSeq]
    BY <1>1, <2>1 DEF ApplyBatch
  <2> QED BY <2>2, <2>3
<1>10. batch[0] = start
  <2>1. Batch(batch)[0] = start
    OBVIOUS
  <2> HIDE DEF Batch
  <2> QED BY <1>9, <2>1
<1>11. \A s \in Nat : batch[s + 1] = body(batch[s], s + 1)
  <2> TAKE s \in Nat
  <2>1. s + 1 \in Nat /\ s + 1 # 0 /\ (s + 1) - 1 = s
    OBVIOUS
  <2>2. Batch(batch)[s + 1] = body(batch[s], s + 1)
    BY <2>1
  <2> HIDE DEF Batch, body
  <2> QED BY <1>9, <2>2
<1> HIDE DEF step, Batch, body
<1> DEFINE Good == {s \in Nat : batch[s] \in T}
<1>12. MaxSeq \in Good
  <2>1. Good \in SUBSET Nat /\ 0 \in Good
    BY <1>3, <1>10
  <2>2. ASSUME NEW s \in Good PROVE s + 1 \in Good
    <3>1. s \in Nat /\ s + 1 \in Nat /\ batch[s] \in T
      OBVIOUS
    <3>2. body(batch[s], s + 1) \in T
      BY <1>4, <3>1
    <3> QED BY <1>11, <3>1, <3>2
  <2>3. MaxSeq \in Nat
    BY BoundsAssumption
  <2> HIDE DEF Good
  <2> QED BY <2>1, <2>2, <2>3, Induction
<1> QED BY <1>2, <1>9, <1>12

LEMMA ApplyNackFacts ==
    ASSUME NEW m \in MailboxType, NEW s \in Seqs, NEW p \in 0..MaxSeq
    PROVE  LET n == ApplyNack(m, s, p)
           IN  /\ Settles(m, n, n.retired, p) /\ n.last = m.last
               /\ n.retired \subseteq {s}
<1>1. PICK b : b = [m EXCEPT !.retired = {}]
  OBVIOUS
<1>2. /\ b \in MailboxType /\ b.issued = m.issued /\ b.pending = m.pending
      /\ b.settled = m.settled /\ b.acked = m.acked /\ b.dead = m.dead /\ b.retired = {}
      /\ b.attempts = m.attempts /\ b.last = m.last
  BY <1>1 DEF MailboxType
<1>3. PICK n : n = ApplyNack(m, s, p)
  OBVIOUS
<1>4. Settles(m, b, {}, p)
  <2>1. Settles(b, b, {}, p)
    BY <1>2, SettlesReflexive
  <2> QED BY <1>2, <2>1 DEF Settles, Covers
<1>5. CASE s \notin m.pending
  <2>1. n = b
    BY <1>1, <1>3, <1>5 DEF ApplyNack
  <2> QED BY <1>2, <1>3, <1>4, <2>1
<1>6. CASE s \in m.pending /\ m.attempts[s] + 1 < NackLimit
  <2>1. PICK attempts : attempts = [m.attempts EXCEPT ![s] = @ + 1]
    OBVIOUS
  <2>2. attempts \in [Seqs -> 0..NackLimit - 1]
    <3>1. m.attempts \in [Seqs -> 0..NackLimit - 1] /\ NackLimit \in Nat
      BY BoundsAssumption DEF MailboxType
    <3>2. m.attempts[s] + 1 \in 0..NackLimit - 1
      BY <1>6, <3>1
    <3> QED BY <2>1, <3>1, <3>2
  <2>3. n = [b EXCEPT !.attempts = attempts]
    BY <1>1, <1>2, <1>3, <1>6, <2>1 DEF ApplyNack, MailboxType
  <2>4. /\ n \in MailboxType /\ n.issued = b.issued /\ n.pending = b.pending
        /\ n.settled = b.settled /\ n.acked = b.acked /\ n.dead = b.dead /\ n.retired = {}
        /\ n.last = b.last
    BY <1>2, <2>2, <2>3 DEF MailboxType
  <2>5. Settles(m, n, {}, p)
    BY <1>4, <2>4 DEF Settles, Covers
  <2> QED BY <1>2, <1>3, <2>4, <2>5
<1>7. CASE s \in m.pending /\ ~(m.attempts[s] + 1 < NackLimit)
  <2>1. n = AdvanceSettled(DeadLetter(b, s), p)
    BY <1>1, <1>3, <1>7 DEF ApplyNack
  <2>2. Settles(b, n, {s}, p) /\ n.retired = b.retired \union {s} /\ n.last = b.last
    BY <1>2, <2>1, DeadLetterSettles
  <2>3. PICK gone \in SUBSET Seqs : gone = {s}
    OBVIOUS
  <2>4. PICK none \in SUBSET Seqs : none = {}
    OBVIOUS
  <2>5. Settles(m, n, none \union gone, p)
    BY <1>2, <1>4, <2>2, <2>3, <2>4, SettlesTransitive
  <2>6. none \union gone = n.retired
    BY <1>2, <2>2, <2>3, <2>4
  <2> QED BY <1>2, <1>3, <2>2, <2>5, <2>6
<1> QED BY <1>5, <1>6, <1>7

\* Expiry empties the mailbox of what is past its deadline and settles the rest.
LEMMA ExpireEntriesFacts ==
    ASSUME NEW m \in MailboxType, NEW horizon \in SUBSET Seqs, NEW p \in 0..MaxSeq
    PROVE  LET n == ExpireEntries(m, horizon, p)
           IN  /\ n \in MailboxType /\ n.issued = m.issued /\ n.pending = m.pending \ horizon
               /\ n.last = m.last /\ n.retired = m.retired
               /\ m.settled <= n.settled /\ (n.settled = m.settled \/ n.settled <= p)
               /\ n.acked = Above(m.acked, n.settled)
               /\ ToSet(n.dead) \subseteq ToSet(m.dead)
               /\ (\A s \in m.pending : s > m.settled) => \A s \in n.pending : s > n.settled
<1>1. PICK b : b = [m EXCEPT !.pending = @ \ horizon]
  OBVIOUS
<1>2. /\ b \in MailboxType /\ b.issued = m.issued /\ b.pending = m.pending \ horizon
      /\ b.settled = m.settled /\ b.acked = m.acked /\ b.dead = m.dead
      /\ b.retired = m.retired /\ b.last = m.last
  BY <1>1 DEF MailboxType
<1>3. PICK a : a = AdvanceSettled(b, p)
  OBVIOUS
<1>4. /\ a \in MailboxType
      /\ a.issued = b.issued /\ a.pending = b.pending /\ a.dead = b.dead
      /\ a.last = b.last /\ a.retired = b.retired
      /\ b.settled <= a.settled
      /\ a.settled = b.settled \/ a.settled <= p
      /\ a.acked = Above(b.acked, a.settled)
      /\ (\A s \in b.pending : s > b.settled) => \A s \in b.pending : s > a.settled
  BY <1>2, <1>3, AdvanceSettledFacts
<1>5. PICK d : d = Keep(a.dead, Seqs \ horizon)
  OBVIOUS
<1>6. d \in BoundedSeq(Seqs, DeadLimit) /\ ToSet(d) \subseteq ToSet(m.dead)
  <2>1. a.dead \in BoundedSeq(Seqs, DeadLimit)
    BY <1>4 DEF MailboxType
  <2> QED BY <1>2, <1>4, <1>5, <2>1, KeepFacts
<1>7. PICK n : n = ExpireEntries(m, horizon, p)
  OBVIOUS
<1>8. n = [a EXCEPT !.dead = d]
  BY <1>1, <1>3, <1>4, <1>5, <1>7 DEF ExpireEntries, MailboxType
<1>9. /\ n \in MailboxType /\ n.issued = a.issued /\ n.pending = a.pending /\ n.dead = d
      /\ n.last = a.last /\ n.retired = a.retired /\ n.settled = a.settled /\ n.acked = a.acked
  BY <1>4, <1>6, <1>8 DEF MailboxType
<1> QED BY <1>2, <1>4, <1>6, <1>7, <1>9

\* The mailbox n is m with the committed candidate c merged into it.
Merged(m, c, acks, n) ==
    /\ n \in MailboxType /\ n.issued = m.issued
    /\ n.pending = m.pending \ (acks \union c.retired)
    /\ m.settled <= n.settled /\ c.settled <= n.settled
    /\ n.settled = m.settled \/ n.settled = c.settled
    /\ n.acked = c.acked \union m.acked /\ n.last = c.last /\ n.retired = {}
    /\ ToSet(n.dead) \subseteq ToSet(m.dead) \union ToSet(c.dead)

LEMMA PublishAckCursorFacts ==
    ASSUME NEW m \in MailboxType, NEW c \in MailboxType, NEW acks \in SUBSET Seqs,
           NEW before \in SUBSET Seqs
    PROVE  Merged(m, c, acks, PublishAckCursor(m, c, acks, before))
<1>1. /\ m.dead \in BoundedSeq(Seqs, DeadLimit) /\ c.dead \in BoundedSeq(Seqs, DeadLimit)
      /\ m.settled \in 0..MaxSeq /\ c.settled \in 0..MaxSeq
      /\ m.acked \in SUBSET Seqs /\ c.acked \in SUBSET Seqs /\ m.pending \in SUBSET Seqs
      /\ c.attempts \in [Seqs -> 0..NackLimit - 1] /\ c.last \in 0..MaxSeq
      /\ m.issued \in 0..MaxSeq
  BY DEF MailboxType
<1>2. PICK added : added = Keep(c.dead, m.pending \ (before \union ToSet(m.dead)))
  OBVIOUS
<1>3. added \in BoundedSeq(Seqs, DeadLimit) /\ ToSet(added) \subseteq ToSet(c.dead)
  BY <1>1, <1>2, KeepFacts
<1>4. PICK old : old = m.dead
  OBVIOUS
<1>5. added \in Seq(Seqs) /\ old \in Seq(Seqs)
  BY <1>1, <1>3, <1>4, DeadList
<1>6. PICK all : all = old \o added
  OBVIOUS
<1>7. all \in Seq(Seqs) /\ ToSet(all) \subseteq ToSet(old) \union ToSet(added)
  <2>1. /\ all \in Seq(Seqs) /\ Len(all) = Len(old) + Len(added)
        /\ \A i \in 1..Len(all) : all[i] = IF i <= Len(old) THEN old[i] ELSE added[i - Len(old)]
    BY <1>5, <1>6, ConcatProperties
  <2>2. Len(old) \in Nat /\ Len(added) \in Nat
    BY <1>5
  <2>3. ASSUME NEW i \in 1..Len(all) PROVE all[i] \in ToSet(old) \union ToSet(added)
    <3>1. CASE i <= Len(old)
      <4>1. i \in 1..Len(old) /\ all[i] = old[i]
        BY <2>1, <2>2, <3>1
      <4> QED BY <1>5, <4>1 DEF ToSet
    <3>2. CASE i > Len(old)
      <4>1. i - Len(old) \in 1..Len(added) /\ all[i] = added[i - Len(old)]
        BY <2>1, <2>2, <3>2
      <4> QED BY <1>5, <4>1 DEF ToSet
    <3> QED BY <2>2, <3>1, <3>2
  <2>4. ToSet(all) \subseteq ToSet(old) \union ToSet(added)
    BY <2>1, <2>3 DEF ToSet
  <2> QED BY <2>1, <2>4
<1>8. PICK d : d = Bounded(all)
  OBVIOUS
<1>9. d \in BoundedSeq(Seqs, DeadLimit) /\ ToSet(d) \subseteq ToSet(m.dead) \union ToSet(c.dead)
  BY <1>3, <1>4, <1>7, <1>8, BoundedFacts
<1>10. PICK top : top = Max({c.settled, m.settled})
  OBVIOUS
<1>11. /\ top \in 0..MaxSeq /\ m.settled <= top /\ c.settled <= top
       /\ top = m.settled \/ top = c.settled
  <2>1. m.settled \in Nat /\ c.settled \in Nat
    BY <1>1
  <2>2. top = IF c.settled >= m.settled THEN c.settled ELSE m.settled
    BY <1>10, <2>1, LargerOfTwo
  <2> QED BY <1>1, <2>1, <2>2
<1>12. PublishAckCursor(m, c, acks, before) =
          [issued   |-> m.issued,
           pending  |-> m.pending \ (acks \union c.retired),
           settled  |-> top,
           acked    |-> c.acked \union m.acked,
           attempts |-> c.attempts,
           dead     |-> d,
           last     |-> c.last,
           retired  |-> {}]
  BY <1>2, <1>4, <1>6, <1>8, <1>10 DEF PublishAckCursor
<1>13. /\ m.pending \ (acks \union c.retired) \in SUBSET Seqs
       /\ c.acked \union m.acked \in SUBSET Seqs
  BY <1>1
<1>14. PICK n : n = PublishAckCursor(m, c, acks, before)
  OBVIOUS
<1>15. /\ n \in MailboxType /\ n.issued = m.issued
       /\ n.pending = m.pending \ (acks \union c.retired) /\ n.settled = top
       /\ n.acked = c.acked \union m.acked /\ n.last = c.last /\ n.retired = {} /\ n.dead = d
  BY <1>1, <1>9, <1>11, <1>12, <1>13, <1>14 DEF MailboxType
<1>16. Merged(m, c, acks, n)
  BY <1>9, <1>11, <1>15 DEF Merged
<1> QED BY <1>14, <1>16

-----------------------------------------------------------------------------
(***************************************************************************)
(* What a checkpoint does to the store.                                    *)
(***************************************************************************)
CursorType == [settled : 0..MaxSeq, acked : SUBSET Seqs, attempts : [Seqs -> 0..NackLimit - 1],
               dead : BoundedSeq(Seqs, DeadLimit), last : 0..MaxSeq]

\* The checkpoint of c passes over the row s.
Passed(c, s) == s <= cur.settled \/ s = c.last \/ s \in c.acked \union cur.acked \union c.retired

\* What the checkpoint of c leaves behind.
Checkpointed(c, visible, base, byKey, p) ==
    /\ cur' \in CursorType
    /\ cur.settled <= cur'.settled
    /\ cur'.settled = cur.settled \/ cur'.settled <= p
    /\ cur'.acked \subseteq cur.acked \union c.acked
    /\ \A s \in Seqs : Covers(cur, s) \/ s \in c.acked => Covers(cur', s)
    /\ cur'.dead = c.dead /\ cur'.last = c.last
    /\ \A s \in visible : s > cur'.settled \/ Passed(c, s)
    /\ \A q \in 0..p : (\A s \in visible : s > q \/ Passed(c, s)) => q <= cur'.settled
    /\ rows' \subseteq base
    /\ ~Wal => rows' = base \ byKey
    /\ Wal => rows' \intersect c.retired = {}
    /\ Wal => \A s \in rows' : s > cur'.settled \/ cur'.settled = cur.settled
    /\ \A s \in base \ rows' : \/ s <= cur'.settled
                               \/ s \in c.acked \union cur.acked \union c.retired
                               \/ ~Wal /\ s \in byKey
    /\ durIssued' \in 0..MaxSeq /\ durIssued <= durIssued' /\ c.issued <= durIssued'
    /\ durIssued' = durIssued \/ durIssued' = c.issued

LEMMA CheckpointFacts ==
    ASSUME NEW c \in MailboxType, NEW visible \in SUBSET Seqs, NEW base \in SUBSET Seqs,
           NEW byKey, NEW p \in 0..MaxSeq, cur \in CursorType, durIssued \in 0..MaxSeq,
           Checkpoint(c, visible, base, byKey, p)
    PROVE  Checkpointed(c, visible, base, byKey, p)
<1>1. /\ c.settled \in 0..MaxSeq /\ c.acked \in SUBSET Seqs /\ c.issued \in 0..MaxSeq
      /\ c.retired \in SUBSET Seqs /\ c.attempts \in [Seqs -> 0..NackLimit - 1]
      /\ c.dead \in BoundedSeq(Seqs, DeadLimit) /\ c.last \in 0..MaxSeq
  BY DEF MailboxType
<1>2. cur.settled \in 0..MaxSeq /\ cur.acked \in SUBSET Seqs
  BY DEF CursorType
<1>3. PICK a : a = [c EXCEPT !.acked = @ \union cur.acked]
  OBVIOUS
<1>4. PICK live : live = {s \in Above(visible, cur.settled) : ~Retires(a, s)}
  OBVIOUS
<1>5. PICK q : q = PrefixBelow(live, p)
  OBVIOUS
<1>6. PICK r : r = CheckpointSettlement(c, visible, p)
  OBVIOUS
<1>7. r = [a EXCEPT !.settled = q, !.acked = Above(@, q)]
  BY <1>3, <1>4, <1>5, <1>6 DEF CheckpointSettlement
<1>8. live \in SUBSET Seqs
  BY <1>4 DEF Above
<1>9. /\ q \in 0..MaxSeq /\ q <= p /\ \A s \in live : s > q
      /\ \A x \in 0..p : (\A s \in live : s > x) => x <= q
  BY <1>5, <1>8, PrefixBelowFacts
<1>10. a.acked = c.acked \union cur.acked /\ a.last = c.last /\ a.retired = c.retired
  BY <1>3 DEF MailboxType
<1>11. \A s \in visible : s \in live <=> ~Passed(c, s)
  <2> TAKE s \in visible
  <2>1. s \in Nat /\ cur.settled \in Nat
    BY <1>2 DEF Seqs
  <2> QED BY <1>4, <1>10, <2>1 DEF Above, Retires, Passed
<1>12. /\ r.settled = q /\ r.acked = Above(c.acked \union cur.acked, q)
       /\ r.attempts = c.attempts /\ r.dead = c.dead /\ r.last = c.last
       /\ r.retired = c.retired /\ r.issued = c.issued
  BY <1>3, <1>7 DEF MailboxType
<1>13. PICK top : top = Max({q, cur.settled})
  OBVIOUS
<1>14. top = IF q >= cur.settled THEN q ELSE cur.settled
  <2>1. q \in Nat /\ cur.settled \in Nat
    BY <1>2, <1>9
  <2> QED BY <1>13, <2>1, LargerOfTwo
<1>15. /\ top \in 0..MaxSeq /\ cur.settled <= top /\ q <= top
       /\ top = cur.settled \/ top = q
  BY <1>2, <1>9, <1>14
<1>16. cur' = [settled |-> top, acked |-> Above(r.acked \union cur.acked, top),
               attempts |-> r.attempts, dead |-> r.dead, last |-> r.last]
  BY <1>6, <1>12, <1>13 DEF Checkpoint, MergeCursor
<1>17. Above(r.acked \union cur.acked, top) = Above(c.acked \union cur.acked, top)
  <2>1. \A s \in Seqs : s > top => s > q
    BY <1>9, <1>15 DEF Seqs
  <2> QED BY <1>1, <1>2, <1>12, <2>1 DEF Above
<1>18. /\ cur'.settled = top /\ cur'.acked = Above(c.acked \union cur.acked, top)
       /\ cur'.dead = c.dead /\ cur'.last = c.last
  BY <1>12, <1>16, <1>17
<1>19. cur' \in CursorType
  <2>1. Above(c.acked \union cur.acked, top) \in SUBSET Seqs
    BY <1>1, <1>2 DEF Above
  <2> QED BY <1>1, <1>12, <1>15, <1>16, <1>17, <2>1 DEF CursorType
<1>20. \A s \in Seqs : Covers(cur, s) \/ s \in c.acked => Covers(cur', s)
  <2> TAKE s \in Seqs
  <2>1. s \in Nat /\ cur.settled \in Nat /\ top \in Nat
    BY <1>2, <1>15 DEF Seqs
  <2> QED BY <1>15, <1>18, <2>1 DEF Covers, Above
<1>21. \A s \in visible : s > cur'.settled \/ Passed(c, s)
  <2> TAKE s \in visible
  <2>1. s \in Nat /\ q \in Nat /\ cur.settled \in Nat
    BY <1>2, <1>9 DEF Seqs
  <2>2. s > q \/ Passed(c, s)
    BY <1>9, <1>11
  <2>3. s <= cur.settled => Passed(c, s)
    BY DEF Passed
  <2> QED BY <1>15, <1>18, <2>1, <2>2, <2>3
<1>22. \A x \in 0..p : (\A s \in visible : s > x \/ Passed(c, s)) => x <= cur'.settled
  <2> SUFFICES ASSUME NEW x \in 0..p, \A s \in visible : s > x \/ Passed(c, s)
               PROVE  x <= cur'.settled
    OBVIOUS
  <2>1. \A s \in live : s \in visible
    BY <1>4 DEF Above
  <2>2. \A s \in live : s > x
    BY <1>11, <2>1
  <2>3. x <= q
    BY <1>9, <2>2
  <2> QED BY <1>9, <1>15, <1>18, <2>3
<1>23. rows' = base \ Removed(r, byKey) /\ durIssued' = Max({durIssued, c.issued})
  BY <1>6 DEF Checkpoint
<1>24. /\ rows' \subseteq base
       /\ ~Wal => rows' = base \ byKey
       /\ Wal => rows' \intersect c.retired = {}
  BY <1>12, <1>23 DEF Removed
<1>25. Wal => \A s \in rows' : s > q
  <2> SUFFICES ASSUME Wal, NEW s \in rows' PROVE s > q
    OBVIOUS
  <2>0. s \in base /\ base \in SUBSET Seqs
    BY <1>23
  <2>1. s \in Seqs /\ s \in Nat /\ q \in Nat
    BY <1>9, <2>0 DEF Seqs
  <2>2. s \notin {x \in Seqs : x <= r.settled}
    BY <1>23 DEF Removed
  <2> QED BY <1>12, <2>1, <2>2
<1>26. Wal => \A s \in rows' : s > cur'.settled \/ cur'.settled = cur.settled
  BY <1>15, <1>18, <1>25
<1>27. ASSUME NEW s \in base \ rows'
       PROVE  \/ s <= cur'.settled
              \/ s \in c.acked \union cur.acked \union c.retired
              \/ ~Wal /\ s \in byKey
  <2>1. CASE Wal
    <3>1. s <= r.settled \/ s \in r.acked \/ s \in r.retired
      <4>1. s \in Removed(r, byKey)
        BY <1>23
      <4>2. s \in {x \in Seqs : x <= r.settled} \union r.acked \union r.retired
        BY <2>1, <4>1 DEF Removed
      <4> QED BY <4>2
    <3>2. s <= q => s <= cur'.settled
      <4>1. s \in Nat /\ q \in Nat /\ top \in Nat /\ q <= top
        BY <1>9, <1>15 DEF Seqs
      <4> QED BY <1>18, <4>1
    <3> QED BY <1>12, <3>1, <3>2 DEF Above
  <2>2. CASE ~Wal
    BY <1>24, <2>2
  <2> QED BY <2>1, <2>2
<1>28. /\ durIssued' \in 0..MaxSeq /\ durIssued <= durIssued' /\ c.issued <= durIssued'
       /\ durIssued' = durIssued \/ durIssued' = c.issued
  <2>1. durIssued \in Nat /\ c.issued \in Nat
    BY <1>1
  <2>2. durIssued' = IF durIssued >= c.issued THEN durIssued ELSE c.issued
    BY <1>23, <2>1, LargerOfTwo
  <2> QED BY <1>1, <2>1, <2>2
<1>29. cur'.acked \subseteq cur.acked \union c.acked
  BY <1>18 DEF Above
<1>30. /\ cur.settled <= cur'.settled
       /\ cur'.settled = cur.settled \/ cur'.settled <= p
  BY <1>9, <1>15, <1>18
<1> QED BY <1>18, <1>19, <1>20, <1>21, <1>22, <1>24, <1>26, <1>27, <1>28, <1>29, <1>30 DEF Checkpointed

-----------------------------------------------------------------------------
(***************************************************************************)
(* Types.  A receiver holds a copy of the mailbox from AckBegin or         *)
(* NackApply on, a sweeper from SweepTake on.                              *)
(***************************************************************************)
Busy == lease.phase \in {"ack", "committed"}
Taken(w) == sweep[w].phase = "taken"

AckLease == [phase : {"ack", "committed"}, cand : MailboxType, acks : SUBSET Seqs,
             before : SUBSET Seqs]
NackLease == [phase : {"nack"}, cand : MailboxType]
PlainSweep == [phase : {"expired", "saved"}, horizon : SUBSET Seqs]
TakenSweep == [phase : {"taken"}, horizon : SUBSET Seqs, cursor : MailboxType]

MailTypes ==
    /\ mem \in MailboxType /\ cur \in CursorType
    /\ rows \subseteq log /\ log \subseteq Seqs
    /\ inflight \subseteq 1..mem.issued /\ durIssued \in 0..mem.issued
    /\ expired \subseteq Mortal /\ due \in BOOLEAN
    /\ told \subseteq Seqs /\ done \subseteq Seqs

LeaseTypes ==
    /\ lease = Idle \/ lease \in NackLease \/ lease \in AckLease
    /\ lease.phase # "idle" => lease.cand.issued <= mem.issued

SweepTypes ==
    /\ DOMAIN sweep = Sweepers
    /\ \A w \in Sweepers : sweep[w] = Idle \/ sweep[w] \in PlainSweep \/ sweep[w] \in TakenSweep
    /\ \A w \in Sweepers : Taken(w) => sweep[w].cursor.issued <= mem.issued

TypeInv == MailTypes /\ LeaseTypes /\ SweepTypes

LEMMA LeaseCases ==
    ASSUME LeaseTypes
    PROVE  /\ lease.phase \in {"idle", "ack", "committed", "nack"}
           /\ lease.phase = "idle" <=> lease = Idle
           /\ lease.phase = "nack" => lease \in NackLease /\ lease.cand \in MailboxType
           /\ Busy => /\ lease \in AckLease /\ lease.cand \in MailboxType
                      /\ lease.acks \in SUBSET Seqs /\ lease.before \in SUBSET Seqs
<1>1. CASE lease = Idle
  BY <1>1 DEF Idle, Busy
<1>2. CASE lease \in NackLease
  BY <1>2 DEF NackLease, Idle, Busy
<1>3. CASE lease \in AckLease
  BY <1>3 DEF AckLease, Idle, Busy
<1> QED BY <1>1, <1>2, <1>3 DEF LeaseTypes

LEMMA SweepCases ==
    ASSUME SweepTypes, NEW w \in Sweepers
    PROVE  /\ sweep[w].phase \in {"idle", "expired", "taken", "saved"}
           /\ sweep[w].phase = "idle" <=> sweep[w] = Idle
           /\ sweep[w].phase \in {"expired", "saved"} => sweep[w] \in PlainSweep
           /\ Taken(w) => sweep[w] \in TakenSweep /\ sweep[w].cursor \in MailboxType
           /\ sweep[w].phase # "idle" => sweep[w].horizon \in SUBSET Seqs
<1>1. CASE sweep[w] = Idle
  BY <1>1 DEF Idle, Taken
<1>2. CASE sweep[w] \in PlainSweep
  BY <1>2 DEF PlainSweep, Idle, Taken
<1>3. CASE sweep[w] \in TakenSweep
  BY <1>3 DEF TakenSweep, Idle, Taken
<1> QED BY <1>1, <1>2, <1>3 DEF SweepTypes

\* The published prefix reaches to the first sequence in flight and no further.
LEMMA PublishedFacts ==
    ASSUME MailTypes
    PROVE  /\ Published \in 0..MaxSeq /\ Published <= mem.issued
           /\ mem.issued \in 0..MaxSeq
           /\ \A s \in inflight : s > Published
           /\ \A q \in 0..mem.issued : (\A s \in inflight : s > q) => q <= Published
<1>1. mem.issued \in 0..MaxSeq /\ mem.issued \in Nat /\ inflight \subseteq 1..mem.issued
  BY BoundsAssumption DEF MailTypes, MailboxType
<1>2. CASE inflight = {}
  BY <1>1, <1>2 DEF Published
<1>3. CASE inflight # {}
  <2>1. inflight \in SUBSET Nat
    BY <1>1
  <2>2. PICK k : k = Min(inflight)
    OBVIOUS
  <2>3. k \in inflight /\ \A s \in inflight : k <= s
    BY <1>3, <2>1, <2>2, LeastNatural
  <2>4. Published = k - 1
    BY <1>3, <2>2 DEF Published
  <2>5. k \in 1..mem.issued
    BY <1>1, <2>3
  <2>6. Published \in 0..MaxSeq /\ Published <= mem.issued
    BY <1>1, <2>4, <2>5, BoundsAssumption
  <2>7. \A s \in inflight : s > Published
    BY <2>1, <2>3, <2>4
  <2>8. \A q \in 0..mem.issued : (\A s \in inflight : s > q) => q <= Published
    BY <1>1, <2>3, <2>4, <2>5
  <2> QED BY <1>1, <2>6, <2>7, <2>8
<1> QED BY <1>2, <1>3

LEMMA TypeInvImpliesTypeOK ==
    ASSUME TypeInv
    PROVE  TypeOK
<1>1. Mailbox(cur, {}) \in MailboxType
  <2>1. durIssued \in 0..MaxSeq
    BY BoundsAssumption DEF TypeInv, MailTypes, MailboxType
  <2>2. cur \in CursorType
    BY DEF TypeInv, MailTypes
  <2> QED BY <2>1, <2>2 DEF Mailbox, MailboxType, CursorType
<1>2. lease.phase \in {"idle", "ack", "committed", "nack"}
  BY LeaseCases DEF TypeInv
<1>3. \A w \in Sweepers : sweep[w].phase \in {"idle", "expired", "taken", "saved"}
  BY SweepCases DEF TypeInv
<1> QED BY <1>1, <1>2, <1>3 DEF TypeInv, MailTypes, TypeOK

LEMMA TypeInvInit ==
    ASSUME Init
    PROVE  TypeInv
<1>1. <<>> \in BoundedSeq(Seqs, DeadLimit)
  <2>1. <<>> \in Seq(Seqs) /\ Len(<<>>) <= DeadLimit
    BY BoundsAssumption
  <2> QED BY <2>1, DeadList
<1>2. NoAttempts \in [Seqs -> 0..NackLimit - 1] /\ 0 \in 0..MaxSeq
  BY BoundsAssumption DEF NoAttempts
<1>3. PICK nil : nil = <<>>
  OBVIOUS
<1>4. mem \in MailboxType /\ cur \in CursorType /\ mem.issued = 0
  <2>1. mem = [issued |-> 0, pending |-> {}, settled |-> 0, acked |-> {},
               attempts |-> NoAttempts, dead |-> nil, last |-> 0, retired |-> {}]
    BY <1>3 DEF Init
  <2>2. cur = [settled |-> 0, acked |-> {}, attempts |-> NoAttempts, dead |-> nil, last |-> 0]
    BY <1>3 DEF Init
  <2>3. nil \in BoundedSeq(Seqs, DeadLimit)
    BY <1>1, <1>3
  <2> QED BY <1>2, <2>1, <2>2, <2>3 DEF MailboxType, CursorType
<1>5. MailTypes
  <2>1. /\ inflight = {} /\ due = FALSE /\ rows = {} /\ log = {} /\ durIssued = 0
        /\ expired = {} /\ told = {} /\ done = {}
    BY DEF Init
  <2>2. durIssued \in 0..mem.issued
    BY <1>4, <2>1
  <2> QED BY <1>4, <2>1, <2>2 DEF MailTypes
<1>6. LeaseTypes
  BY DEF Init, LeaseTypes, Idle
<1>7. SweepTypes
  BY DEF Init, SweepTypes, Idle, Taken
<1> QED BY <1>5, <1>6, <1>7 DEF TypeInv

\* A lease or a sweep that does not change stays well typed while the mailbox
\* issues more sequences.
LEMMA LeaseTypesStable ==
    ASSUME LeaseTypes, mem \in MailboxType, mem' \in MailboxType, mem.issued <= mem'.issued,
           lease' = lease
    PROVE  LeaseTypes'
<1>1. lease.phase # "idle" => lease.cand \in MailboxType
  BY LeaseCases DEF Busy
<1>2. mem.issued \in Nat /\ mem'.issued \in Nat
  BY DEF MailboxType
<1>3. lease.phase # "idle" => lease.cand.issued \in Nat
  BY <1>1 DEF MailboxType
<1> QED BY <1>2, <1>3 DEF LeaseTypes

LEMMA SweepTypesStable ==
    ASSUME SweepTypes, mem \in MailboxType, mem' \in MailboxType, mem.issued <= mem'.issued,
           sweep' = sweep
    PROVE  SweepTypes'
<1>1. \A w \in Sweepers : Taken(w) => sweep[w].cursor.issued \in Nat
  BY SweepCases DEF MailboxType
<1>2. mem.issued \in Nat /\ mem'.issued \in Nat
  BY DEF MailboxType
<1> QED BY <1>1, <1>2 DEF SweepTypes, Taken

LEMMA AppendEntryFacts ==
    ASSUME TypeInv, AppendEntry
    PROVE  \E s \in Seqs :
             /\ s = mem.issued + 1 /\ mem' \in MailboxType /\ mem'.issued = s
             /\ mem'.pending = mem.pending \union {s}
             /\ mem'.settled = mem.settled /\ mem'.acked = mem.acked /\ mem'.dead = mem.dead
             /\ mem'.last = mem.last /\ mem'.retired = mem.retired
             /\ inflight' = inflight \union {s}
<1>1. mem \in MailboxType /\ mem.issued \in 0..MaxSeq /\ mem.issued < MaxSeq /\ mem.pending \in SUBSET Seqs
  BY DEF TypeInv, MailTypes, MailboxType, AppendEntry
<1>2. PICK s : s = mem.issued + 1
  OBVIOUS
<1>3. s \in Seqs /\ s \in 0..MaxSeq
  BY <1>1, <1>2, BoundsAssumption DEF Seqs
<1>4. mem' = [mem EXCEPT !.issued = s, !.pending = mem.pending \union {s}]
  BY <1>2 DEF AppendEntry
<1>5. mem.pending \union {s} \in SUBSET Seqs
  BY <1>1, <1>3
<1>6. /\ mem' \in MailboxType /\ mem'.issued = s /\ mem'.pending = mem.pending \union {s}
      /\ mem'.settled = mem.settled /\ mem'.acked = mem.acked /\ mem'.dead = mem.dead
      /\ mem'.last = mem.last /\ mem'.retired = mem.retired
  BY <1>1, <1>3, <1>4, <1>5 DEF MailboxType
<1> QED BY <1>2, <1>3, <1>6 DEF AppendEntry

LEMMA TypeAppend ==
    ASSUME TypeInv, AppendEntry
    PROVE  TypeInv'
<1>1. PICK s \in Seqs :
             /\ s = mem.issued + 1 /\ mem' \in MailboxType /\ mem'.issued = s
             /\ inflight' = inflight \union {s}
  BY AppendEntryFacts
<1>2. mem \in MailboxType /\ mem.issued \in Nat
  BY DEF TypeInv, MailTypes, MailboxType
<1>3. mem.issued <= mem'.issued
  BY <1>1, <1>2
<1>4. inflight' \subseteq 1..mem'.issued
  <2>1. inflight \subseteq 1..mem.issued
    BY DEF TypeInv, MailTypes
  <2>2. PICK n \in Nat : n = mem.issued
    BY <1>2
  <2>3. \A x \in 1..n : x \in 1..(n + 1)
    OBVIOUS
  <2>4. mem'.issued = n + 1 /\ s \in 1..(n + 1)
    BY <1>1, <2>2
  <2> QED BY <1>1, <2>1, <2>2, <2>3, <2>4
<1>5. durIssued' \in 0..mem'.issued
  <2>1. durIssued \in 0..mem.issued /\ durIssued' = durIssued
    BY DEF TypeInv, MailTypes, AppendEntry
  <2> QED BY <1>1, <1>2, <2>1
<1>6. MailTypes'
  BY <1>1, <1>4, <1>5 DEF TypeInv, MailTypes, AppendEntry
<1>7. LeaseTypes' /\ SweepTypes'
  BY <1>1, <1>2, <1>3, LeaseTypesStable, SweepTypesStable DEF TypeInv, AppendEntry
<1> QED BY <1>6, <1>7 DEF TypeInv

LEMMA StoredCount ==
    ASSUME MailTypes, NEW s \in inflight, durIssued' = Max({durIssued, s})
    PROVE  /\ s \in Seqs /\ durIssued' \in 0..mem.issued
           /\ durIssued <= durIssued' /\ s <= durIssued'
<1>1. /\ mem.issued \in 0..MaxSeq /\ mem.issued \in Nat /\ durIssued \in 0..mem.issued
      /\ s \in 1..mem.issued
  BY BoundsAssumption DEF MailTypes, MailboxType
<1>2. durIssued \in Nat /\ s \in Nat
  BY <1>1
<1>3. durIssued' = IF durIssued >= s THEN durIssued ELSE s
  BY <1>2, LargerOfTwo
<1> QED BY <1>1, <1>2, <1>3, BoundsAssumption DEF Seqs

LEMMA TypeStore ==
    ASSUME TypeInv, NEW s \in Seqs, Store(s)
    PROVE  TypeInv'
<1>1. durIssued' \in 0..mem.issued
  BY StoredCount DEF TypeInv, Store
<1>2. MailTypes'
  BY <1>1 DEF TypeInv, MailTypes, Store
<1>3. mem \in MailboxType /\ mem' \in MailboxType /\ mem.issued <= mem'.issued
  <2>1. mem \in MailboxType /\ mem' = mem
    BY DEF TypeInv, MailTypes, Store
  <2> QED BY <2>1 DEF MailboxType
<1>4. LeaseTypes' /\ SweepTypes'
  BY <1>3, LeaseTypesStable, SweepTypesStable DEF TypeInv, Store
<1> QED BY <1>2, <1>4 DEF TypeInv

LEMMA AbortEntryFacts ==
    ASSUME TypeInv, NEW s \in Seqs, AbortEntry(s)
    PROVE  /\ mem' \in MailboxType /\ mem'.issued = mem.issued
           /\ mem'.pending = mem.pending \ {s}
           /\ mem'.settled = mem.settled /\ mem'.acked = mem.acked /\ mem'.dead = mem.dead
           /\ mem'.last = mem.last /\ mem'.retired = mem.retired
<1>1. mem \in MailboxType /\ mem.pending \in SUBSET Seqs
  BY DEF TypeInv, MailTypes, MailboxType
<1>2. mem' = [mem EXCEPT !.pending = mem.pending \ {s}]
  BY DEF AbortEntry
<1> QED BY <1>1, <1>2 DEF MailboxType

LEMMA TypeAbort ==
    ASSUME TypeInv, NEW s \in Seqs, AbortEntry(s)
    PROVE  TypeInv'
<1>1. mem' \in MailboxType /\ mem'.issued = mem.issued
  BY AbortEntryFacts
<1>2. durIssued' \in 0..mem.issued
  BY StoredCount DEF TypeInv, AbortEntry
<1>3. MailTypes'
  BY <1>1, <1>2 DEF TypeInv, MailTypes, AbortEntry
<1>4. mem \in MailboxType /\ mem.issued <= mem'.issued
  <2>1. mem \in MailboxType
    BY DEF TypeInv, MailTypes
  <2> QED BY <1>1, <2>1 DEF MailboxType
<1>5. LeaseTypes' /\ SweepTypes'
  BY <1>1, <1>4, LeaseTypesStable, SweepTypesStable DEF TypeInv, AbortEntry
<1> QED BY <1>3, <1>5 DEF TypeInv

\* What a receiver takes with it from AckBegin.
LEMMA AckBeginFacts ==
    ASSUME TypeInv, NEW S \in AckInputs, AckBegin(S)
    PROVE  /\ lease = Idle /\ lease' \in AckLease /\ lease'.phase = "ack"
           /\ Settles(mem, lease'.cand, lease'.acks \union lease'.cand.retired, Published)
           /\ lease'.acks \subseteq S /\ S \in SUBSET Seqs
           /\ \A x \in lease'.cand.retired : \E s \in S : x < s
           /\ lease'.cand.last \in lease'.acks
           /\ \A s \in S : s <= Published \/ (AckAbove /\ s \in log)
<1>1. MailTypes /\ mem \in MailboxType /\ Published \in 0..MaxSeq
  BY PublishedFacts DEF TypeInv, MailTypes
<1>2. S \in SUBSET Seqs /\ \A s \in S : s <= Published \/ (AckAbove /\ s \in log)
  <2>1. CASE S \in SUBSET (1..Published)
    BY <1>1, <2>1, BoundsAssumption DEF Seqs
  <2>2. CASE S \notin SUBSET (1..Published)
    <3>1. AckAbove
      BY <2>2 DEF AckInputs
    <3>2. PICK s \in Above(log, Published) : S = {s}
      BY <2>2, <3>1 DEF AckInputs
    <3>3. s \in log /\ log \subseteq Seqs
      BY <1>1 DEF Above, MailTypes
    <3> QED BY <3>1, <3>2, <3>3
  <2> QED BY <2>1, <2>2
<1>3. PICK b : b = ApplyBatch(mem, S)
  OBVIOUS
<1>4. BatchFrom(mem, b, S, Published)
  BY <1>1, <1>2, <1>3, ApplyBatchFacts
<1>5. /\ b.m \in MailboxType /\ b.acks \in SUBSET Seqs /\ b.retired \in SUBSET Seqs
      /\ b.acks # {} /\ lease = Idle
  BY <1>3, <1>4 DEF BatchFrom, BatchType, AckBegin
<1>6. PICK c : c = [b.m EXCEPT !.retired = b.retired]
  OBVIOUS
<1>7. /\ c \in MailboxType /\ c.retired = b.retired /\ c.issued = b.m.issued
      /\ c.pending = b.m.pending /\ c.settled = b.m.settled /\ c.acked = b.m.acked
      /\ c.dead = b.m.dead /\ c.last = b.m.last
  BY <1>5, <1>6 DEF MailboxType
<1>8. PICK before : before = ToSet(mem.dead)
  OBVIOUS
<1>9. before \in SUBSET Seqs
  <2>1. mem.dead \in Seq(Seqs)
    BY <1>1, DeadList DEF MailboxType
  <2> QED BY <1>8, <2>1 DEF ToSet
<1>10. lease' = [phase |-> "ack", cand |-> c, acks |-> b.acks, before |-> before]
  BY <1>3, <1>6, <1>8 DEF AckBegin
<1>11. /\ lease' \in AckLease /\ lease'.phase = "ack" /\ lease'.cand = c
       /\ lease'.acks = b.acks
  BY <1>5, <1>7, <1>9, <1>10 DEF AckLease
<1>12. Settles(mem, c, b.acks \union b.retired, Published)
  BY <1>4, <1>7 DEF BatchFrom, Settles, Covers
<1> QED BY <1>2, <1>4, <1>5, <1>7, <1>11, <1>12 DEF BatchFrom

LEMMA TypeAckBegin ==
    ASSUME TypeInv, NEW S \in AckInputs, AckBegin(S)
    PROVE  TypeInv'
<1>1. /\ lease' \in AckLease
      /\ Settles(mem, lease'.cand, lease'.acks \union lease'.cand.retired, Published)
  BY AckBeginFacts
<1>2. mem' = mem /\ mem \in MailboxType /\ mem.issued \in Nat
  BY DEF TypeInv, MailTypes, AckBegin, MailboxType
<1>3. lease'.cand.issued = mem.issued
  BY <1>1 DEF Settles
<1>4. LeaseTypes'
  BY <1>1, <1>2, <1>3 DEF LeaseTypes
<1>5. MailTypes'
  BY DEF TypeInv, MailTypes, AckBegin
<1>6. SweepTypes'
  BY <1>2, SweepTypesStable DEF TypeInv, AckBegin
<1> QED BY <1>4, <1>5, <1>6 DEF TypeInv

LEMMA AckCommitFacts ==
    ASSUME TypeInv, AckCommit
    PROVE  /\ lease.phase = "ack" /\ lease \in AckLease
           /\ lease.cand \in MailboxType /\ lease.acks \in SUBSET Seqs
           /\ lease' \in AckLease /\ lease'.phase = "committed" /\ lease'.cand = lease.cand
           /\ lease'.acks = lease.acks /\ lease'.before = lease.before
           /\ \E c \in MailboxType :
                 /\ c.issued = lease.cand.issued /\ c.settled = lease.cand.settled
                 /\ c.acked = lease.cand.acked /\ c.dead = lease.cand.dead
                 /\ c.last = lease.cand.last
                 /\ c.retired = lease.cand.retired \union lease.acks
                 /\ Checkpoint(c, rows, rows, c.retired, Published)
                 /\ done' = done \union c.retired
<1>1. lease.phase = "ack"
  BY DEF AckCommit
<1>2. lease \in AckLease /\ lease.cand \in MailboxType /\ lease.acks \in SUBSET Seqs
  BY <1>1, LeaseCases DEF TypeInv, Busy
<1>3. PICK l : l = lease
  OBVIOUS
<1>4. lease' = [l EXCEPT !.phase = "committed"] /\ l \in AckLease
  BY <1>2, <1>3 DEF AckCommit
<1>5. /\ lease' \in AckLease /\ lease'.phase = "committed" /\ lease'.cand = l.cand
      /\ lease'.acks = l.acks /\ lease'.before = l.before
  BY <1>4 DEF AckLease
<1>6. PICK c : c = [lease.cand EXCEPT !.retired = @ \union lease.acks]
  OBVIOUS
<1>7. PICK k \in MailboxType : k = lease.cand
  BY <1>2
<1>8. c = [k EXCEPT !.retired = k.retired \union lease.acks] /\ k.retired \in SUBSET Seqs
  BY <1>6, <1>7 DEF MailboxType
<1>9. /\ c \in MailboxType
      /\ c.issued = k.issued /\ c.settled = k.settled /\ c.acked = k.acked
      /\ c.dead = k.dead /\ c.last = k.last /\ c.retired = k.retired \union lease.acks
  BY <1>2, <1>8 DEF MailboxType
<1>10. Checkpoint(c, rows, rows, c.retired, Published) /\ done' = done \union c.retired
  BY <1>6 DEF AckCommit, ReceiverKeys
<1> QED BY <1>1, <1>2, <1>3, <1>5, <1>7, <1>9, <1>10

\* A checkpoint of a copy that is not ahead of the mailbox.
LEMMA TypeCheckpoint ==
    ASSUME MailTypes, NEW c \in MailboxType, c.issued <= mem.issued, NEW visible \in SUBSET Seqs,
           NEW base \in SUBSET log, NEW byKey, NEW p \in 0..MaxSeq,
           Checkpoint(c, visible, base, byKey, p)
    PROVE  /\ cur' \in CursorType /\ rows' \subseteq log /\ durIssued' \in 0..mem.issued
           /\ durIssued <= durIssued' /\ durIssued \in 0..MaxSeq
<1>1. /\ cur \in CursorType /\ durIssued \in 0..MaxSeq /\ base \in SUBSET Seqs
      /\ durIssued \in 0..mem.issued /\ mem.issued \in Nat
  BY BoundsAssumption DEF MailTypes, MailboxType
<1>2. /\ cur' \in CursorType /\ rows' \subseteq base
      /\ durIssued' \in 0..MaxSeq /\ durIssued <= durIssued'
      /\ durIssued' = durIssued \/ durIssued' = c.issued
  <2>1. Checkpointed(c, visible, base, byKey, p)
    BY <1>1, CheckpointFacts
  <2> QED BY <2>1 DEF Checkpointed
<1>3. c.issued \in Nat
  BY DEF MailboxType
<1> QED BY <1>1, <1>2, <1>3

LEMMA TypeAckCommit ==
    ASSUME TypeInv, AckCommit
    PROVE  TypeInv'
<1>1. /\ lease.phase = "ack" /\ lease' \in AckLease /\ lease'.cand = lease.cand
      /\ lease.cand \in MailboxType
  BY AckCommitFacts
<1>2. PICK c \in MailboxType :
         /\ c.issued = lease.cand.issued
         /\ Checkpoint(c, rows, rows, c.retired, Published)
         /\ done' = done \union c.retired
  BY AckCommitFacts
<1>3. MailTypes /\ Published \in 0..MaxSeq /\ rows \in SUBSET log /\ rows \in SUBSET Seqs
  BY PublishedFacts DEF TypeInv, MailTypes
<1>4. c.issued <= mem.issued /\ c.retired \in SUBSET Seqs
  <2>1. lease.cand.issued <= mem.issued
    BY <1>1 DEF TypeInv, LeaseTypes
  <2>2. c.retired \in SUBSET Seqs
    BY DEF MailboxType
  <2> QED BY <1>2, <2>1, <2>2
<1>5. cur' \in CursorType /\ rows' \subseteq log /\ durIssued' \in 0..mem.issued
  BY <1>2, <1>3, <1>4, TypeCheckpoint
<1>6. MailTypes'
  BY <1>2, <1>3, <1>4, <1>5 DEF MailTypes, AckCommit
<1>7. LeaseTypes'
  BY <1>1 DEF TypeInv, LeaseTypes, AckCommit
<1>8. SweepTypes'
  <2>1. mem' = mem /\ mem \in MailboxType /\ mem.issued \in Nat
    BY DEF TypeInv, MailTypes, AckCommit, MailboxType
  <2> QED BY <2>1, SweepTypesStable DEF TypeInv, AckCommit
<1> QED BY <1>6, <1>7, <1>8 DEF TypeInv

\* What the shard's mailbox becomes when a committed candidate is published.
LEMMA AckPublishFacts ==
    ASSUME TypeInv, AckPublish
    PROVE  /\ lease.phase = "committed" /\ lease \in AckLease /\ lease' = Idle
           /\ lease.cand \in MailboxType /\ lease.acks \in SUBSET Seqs
           /\ mem' \in MailboxType /\ mem'.issued = mem.issued
           /\ mem'.pending = mem.pending \ (lease.acks \union lease.cand.retired)
           /\ mem.settled <= mem'.settled /\ lease.cand.settled <= mem'.settled
           /\ \/ mem'.settled = mem.settled \/ mem'.settled = lease.cand.settled
              \/ mem'.settled <= Published
           /\ mem'.acked = Above(mem.acked \union lease.cand.acked, mem'.settled)
           /\ mem'.last = lease.cand.last /\ mem'.retired = {}
           /\ ToSet(mem'.dead) \subseteq ToSet(mem.dead) \union ToSet(lease.cand.dead)
           /\ (/\ \A s \in mem.pending : s > mem.settled
               /\ \A s \in mem.pending : s \in lease.acks \union lease.cand.retired
                                            \/ s > lease.cand.settled)
              => \A s \in mem'.pending : s > mem'.settled
<1>1. lease.phase = "committed" /\ lease' = Idle
  BY DEF AckPublish
<1>2. /\ lease \in AckLease /\ lease.cand \in MailboxType /\ lease.acks \in SUBSET Seqs
      /\ lease.before \in SUBSET Seqs
  BY <1>1, LeaseCases DEF TypeInv, Busy
<1>3. MailTypes /\ mem \in MailboxType /\ Published \in 0..MaxSeq
  BY PublishedFacts DEF TypeInv, MailTypes
<1>4. PICK c \in MailboxType : c = lease.cand
  BY <1>2
<1>5. PICK acks \in SUBSET Seqs, before \in SUBSET Seqs : acks = lease.acks /\ before = lease.before
  BY <1>2
<1>6. PICK n : n = PublishAckCursor(mem, c, acks, before)
  OBVIOUS
<1>70. Merged(mem, c, acks, n)
  BY <1>3, <1>6, PublishAckCursorFacts
<1>7. /\ n \in MailboxType /\ n.issued = mem.issued
      /\ n.pending = mem.pending \ (acks \union c.retired)
      /\ mem.settled <= n.settled /\ c.settled <= n.settled
      /\ n.settled = mem.settled \/ n.settled = c.settled
      /\ n.acked = c.acked \union mem.acked /\ n.last = c.last /\ n.retired = {}
      /\ ToSet(n.dead) \subseteq ToSet(mem.dead) \union ToSet(c.dead)
  BY <1>70 DEF Merged
<1>8. mem' = AdvanceSettled(n, Published)
  BY <1>4, <1>5, <1>6 DEF AckPublish
<1>9. /\ mem' \in MailboxType
      /\ mem'.issued = n.issued /\ mem'.pending = n.pending /\ mem'.dead = n.dead
      /\ mem'.last = n.last /\ mem'.retired = n.retired
      /\ n.settled <= mem'.settled
      /\ mem'.settled = n.settled \/ mem'.settled <= Published
      /\ mem'.acked = Above(n.acked, mem'.settled)
      /\ (\A s \in n.pending : s > n.settled) => \A s \in n.pending : s > mem'.settled
  BY <1>3, <1>7, <1>8, AdvanceSettledFacts
<1>10. /\ mem.settled \in Nat /\ n.settled \in Nat /\ mem'.settled \in Nat
       /\ c.settled \in Nat
  BY <1>2, <1>3, <1>4, <1>7, <1>9 DEF MailboxType
<1>11. mem.settled <= mem'.settled /\ c.settled <= mem'.settled
  BY <1>7, <1>9, <1>10
<1>12. \/ mem'.settled = mem.settled \/ mem'.settled = c.settled
       \/ mem'.settled <= Published
  BY <1>7, <1>9
<1>13. mem'.acked = Above(mem.acked \union c.acked, mem'.settled)
  <2>1. n.acked = mem.acked \union c.acked
    BY <1>7
  <2> QED BY <1>9, <2>1
<1>14. ASSUME \A s \in mem.pending : s > mem.settled,
              \A s \in mem.pending : s \in acks \union c.retired \/ s > c.settled
       PROVE  \A s \in mem'.pending : s > mem'.settled
  <2>1. \A s \in n.pending : s > n.settled
    BY <1>7, <1>14
  <2> QED BY <1>9, <2>1
<1> QED BY <1>1, <1>2, <1>4, <1>5, <1>7, <1>9, <1>11, <1>12, <1>13, <1>14

LEMMA TypeAckPublish ==
    ASSUME TypeInv, AckPublish
    PROVE  TypeInv'
<1>1. /\ lease' = Idle /\ mem' \in MailboxType /\ mem'.issued = mem.issued
      /\ lease.acks \in SUBSET Seqs
  BY AckPublishFacts
<1>2. due' \in BOOLEAN
  BY DEF AckPublish
<1>3. told' \subseteq Seqs
  BY <1>1 DEF TypeInv, MailTypes, AckPublish
<1>4. MailTypes'
  BY <1>1, <1>2, <1>3 DEF TypeInv, MailTypes, AckPublish
<1>5. LeaseTypes'
  BY <1>1 DEF LeaseTypes, Idle
<1>6. mem \in MailboxType /\ mem.issued <= mem'.issued
  <2>1. mem \in MailboxType
    BY DEF TypeInv, MailTypes
  <2> QED BY <1>1, <2>1 DEF MailboxType
<1>7. SweepTypes'
  BY <1>1, <1>6, SweepTypesStable DEF TypeInv, AckPublish
<1> QED BY <1>4, <1>5, <1>7 DEF TypeInv

LEMMA NackApplyFacts ==
    ASSUME TypeInv, NEW s \in Seqs, NackApply(s)
    PROVE  /\ lease = Idle /\ lease' \in NackLease /\ lease'.phase = "nack"
           /\ lease'.cand = mem' /\ mem' \in MailboxType
           /\ Settles(mem, mem', mem'.retired, Published)
           /\ mem'.last = mem.last /\ mem'.retired \subseteq {s} /\ s <= Published
           /\ done' = done \union mem'.retired
<1>1. MailTypes /\ mem \in MailboxType /\ Published \in 0..MaxSeq
  BY PublishedFacts DEF TypeInv, MailTypes
<1>2. mem' = ApplyNack(mem, s, Published) /\ lease = Idle /\ s \in 1..Published
  BY DEF NackApply
<1>3. /\ Settles(mem, mem', mem'.retired, Published) /\ mem'.last = mem.last
      /\ mem'.retired \subseteq {s}
  BY <1>1, <1>2, ApplyNackFacts
<1>4. mem' \in MailboxType
  BY <1>3 DEF Settles
<1>5. lease' = [phase |-> "nack", cand |-> mem']
  BY DEF NackApply
<1>6. lease' \in NackLease /\ lease'.phase = "nack" /\ lease'.cand = mem'
  BY <1>4, <1>5 DEF NackLease
<1>7. s <= Published
  BY <1>1, <1>2
<1> QED BY <1>2, <1>3, <1>4, <1>6, <1>7 DEF NackApply

LEMMA TypeNackApply ==
    ASSUME TypeInv, NEW s \in Seqs, NackApply(s)
    PROVE  TypeInv'
<1>1. /\ lease' \in NackLease /\ lease'.cand = mem' /\ mem' \in MailboxType
      /\ Settles(mem, mem', mem'.retired, Published) /\ done' = done \union mem'.retired
  BY NackApplyFacts
<1>2. mem'.issued = mem.issued /\ mem'.retired \in SUBSET Seqs
  BY <1>1 DEF Settles, MailboxType
<1>3. due' \in BOOLEAN
  BY DEF NackApply
<1>4. MailTypes'
  BY <1>1, <1>2, <1>3 DEF TypeInv, MailTypes, NackApply
<1>5. mem \in MailboxType /\ mem'.issued <= mem'.issued /\ mem.issued <= mem'.issued
  <2>1. mem \in MailboxType
    BY DEF TypeInv, MailTypes
  <2> QED BY <1>1, <1>2, <2>1 DEF MailboxType
<1>6. LeaseTypes'
  BY <1>1, <1>5 DEF LeaseTypes
<1>7. SweepTypes'
  BY <1>1, <1>5, SweepTypesStable DEF TypeInv, NackApply
<1> QED BY <1>4, <1>6, <1>7 DEF TypeInv

LEMMA TypeNackCommit ==
    ASSUME TypeInv, NackCommit
    PROVE  TypeInv'
<1>1. /\ lease.cand \in MailboxType
      /\ Checkpoint(lease.cand, rows, rows, ReceiverKeys(lease.cand), Published)
      /\ lease.cand.issued <= mem.issued
  BY LeaseCases DEF TypeInv, LeaseTypes, NackCommit
<1>2. MailTypes /\ Published \in 0..MaxSeq /\ rows \in SUBSET log /\ rows \in SUBSET Seqs
  BY PublishedFacts DEF TypeInv, MailTypes
<1>3. cur' \in CursorType /\ rows' \subseteq log /\ durIssued' \in 0..mem.issued
  BY <1>1, <1>2, TypeCheckpoint
<1>4. MailTypes'
  BY <1>2, <1>3 DEF MailTypes, NackCommit
<1>5. LeaseTypes'
  BY DEF LeaseTypes, NackCommit, Idle
<1>6. SweepTypes'
  <2>1. mem' = mem /\ mem \in MailboxType /\ mem.issued \in Nat
    BY DEF TypeInv, MailTypes, NackCommit, MailboxType
  <2> QED BY <2>1, SweepTypesStable DEF TypeInv, NackCommit
<1> QED BY <1>4, <1>5, <1>6 DEF TypeInv

LEMMA TypeCommitFails ==
    ASSUME TypeInv, CommitFails
    PROVE  TypeInv'
<1>1. MailTypes'
  BY DEF TypeInv, MailTypes, CommitFails
<1>2. LeaseTypes'
  BY DEF LeaseTypes, CommitFails, Idle
<1>3. SweepTypes'
  <2>1. mem' = mem /\ mem \in MailboxType /\ mem.issued \in Nat
    BY DEF TypeInv, MailTypes, CommitFails, MailboxType
  <2> QED BY <2>1, SweepTypesStable DEF TypeInv, CommitFails
<1> QED BY <1>1, <1>2, <1>3 DEF TypeInv

LEMMA TypeElapse ==
    ASSUME TypeInv, NEW s \in Seqs, Elapse(s)
    PROVE  TypeInv'
<1>1. mem' = mem /\ mem \in MailboxType /\ mem.issued \in Nat
  BY DEF TypeInv, MailTypes, Elapse, MailboxType
<1>2. MailTypes'
  BY DEF TypeInv, MailTypes, Elapse
<1>3. LeaseTypes' /\ SweepTypes'
  BY <1>1, LeaseTypesStable, SweepTypesStable DEF TypeInv, Elapse
<1> QED BY <1>2, <1>3 DEF TypeInv

\* The sweep that a sweeper is in is the only one that changes.
LEMMA SweepTypesStep ==
    ASSUME SweepTypes, mem \in MailboxType, mem' \in MailboxType, mem.issued <= mem'.issued,
           NEW w \in Sweepers, NEW x, sweep' = [sweep EXCEPT ![w] = x],
           x = Idle \/ x \in PlainSweep \/ (x \in TakenSweep /\ x.cursor.issued <= mem'.issued)
    PROVE  SweepTypes'
<1>1. DOMAIN sweep' = Sweepers /\ sweep'[w] = x /\ \A v \in Sweepers \ {w} : sweep'[v] = sweep[v]
  BY DEF SweepTypes
<1>2. \A v \in Sweepers : Taken(v) => sweep[v].cursor.issued \in Nat
  BY SweepCases DEF MailboxType
<1>3. mem.issued \in Nat /\ mem'.issued \in Nat
  BY DEF MailboxType
<1>4. ASSUME NEW v \in Sweepers
      PROVE  sweep'[v] = Idle \/ sweep'[v] \in PlainSweep \/ sweep'[v] \in TakenSweep
  BY <1>1 DEF SweepTypes
<1>5. ASSUME NEW v \in Sweepers, sweep'[v].phase = "taken"
      PROVE  sweep'[v].cursor.issued <= mem'.issued
  <2>1. CASE v = w
    <3>1. x.phase = "taken"
      BY <1>1, <1>5, <2>1
    <3>2. x \in TakenSweep
      BY <3>1 DEF Idle, PlainSweep
    <3>3. x \notin PlainSweep /\ x # Idle
      BY <3>1 DEF Idle, PlainSweep
    <3> QED BY <1>1, <2>1, <3>3
  <2>2. CASE v # w
    <3>1. sweep'[v] = sweep[v]
      BY <1>1, <2>2
    <3>2. Taken(v) /\ sweep[v].cursor.issued <= mem.issued
      BY <1>5, <3>1 DEF Taken, SweepTypes
    <3> QED BY <1>2, <1>3, <3>1, <3>2
  <2> QED BY <2>1, <2>2
<1> QED BY <1>1, <1>4, <1>5 DEF SweepTypes, Taken

LEMMA SweepExpireFacts ==
    ASSUME TypeInv, NEW w \in Sweepers, SweepExpire(w)
    PROVE  /\ mem' \in MailboxType /\ mem'.issued = mem.issued
           /\ mem'.pending = mem.pending \ expired
           /\ mem'.last = mem.last /\ mem'.retired = mem.retired
           /\ mem.settled <= mem'.settled
           /\ mem'.settled = mem.settled \/ mem'.settled <= Published
           /\ mem'.acked \subseteq mem.acked
           /\ \A s \in Seqs : Covers(mem, s) => Covers(mem', s)
           /\ ToSet(mem'.dead) \subseteq ToSet(mem.dead)
           /\ (\A s \in mem.pending : s > mem.settled) => \A s \in mem'.pending : s > mem'.settled
<1>1. MailTypes /\ mem \in MailboxType /\ Published \in 0..MaxSeq /\ expired \in SUBSET Seqs
  BY PublishedFacts, MortalAssumption DEF TypeInv, MailTypes, Seqs
<1>2. CASE mem.pending \intersect expired = {}
  <2>1. mem' = mem
    BY <1>2 DEF SweepExpire
  <2>2. mem.settled \in Nat
    BY <1>1 DEF MailboxType
  <2> QED BY <1>1, <1>2, <2>1, <2>2 DEF Covers
<1>3. CASE mem.pending \intersect expired # {}
  <2>1. PICK n : n = ExpireEntries(mem, expired, Published)
    OBVIOUS
  <2>2. /\ n \in MailboxType /\ n.issued = mem.issued /\ n.pending = mem.pending \ expired
        /\ n.last = mem.last /\ n.retired = mem.retired
        /\ mem.settled <= n.settled
        /\ n.settled = mem.settled \/ n.settled <= Published
        /\ n.acked = Above(mem.acked, n.settled)
        /\ ToSet(n.dead) \subseteq ToSet(mem.dead)
        /\ (\A s \in mem.pending : s > mem.settled) => \A s \in n.pending : s > n.settled
    BY <1>1, <2>1, ExpireEntriesFacts
  <2>3. mem' = n
    BY <1>3, <2>1 DEF SweepExpire
  <2>4. ASSUME NEW s \in Seqs, Covers(mem, s) PROVE Covers(n, s)
    <3>1. mem.settled \in Nat /\ n.settled \in Nat /\ s \in Nat
      BY <1>1, <2>2 DEF MailboxType, Seqs
    <3> QED BY <2>2, <2>4, <3>1 DEF Covers, Above
  <2>5. n.acked \subseteq mem.acked
    BY <2>2 DEF Above
  <2> QED BY <2>2, <2>3, <2>4, <2>5
<1> QED BY <1>2, <1>3

LEMMA TypeSweepExpire ==
    ASSUME TypeInv, NEW w \in Sweepers, SweepExpire(w)
    PROVE  TypeInv'
<1>1. mem' \in MailboxType /\ mem'.issued = mem.issued
  BY SweepExpireFacts
<1>2. mem \in MailboxType /\ mem.issued <= mem'.issued
  <2>1. mem \in MailboxType
    BY DEF TypeInv, MailTypes
  <2> QED BY <1>1, <2>1 DEF MailboxType
<1>3. due' \in BOOLEAN
  BY DEF SweepExpire, TypeInv, MailTypes
<1>4. MailTypes'
  BY <1>1, <1>3 DEF TypeInv, MailTypes, SweepExpire
<1>5. LeaseTypes'
  BY <1>1, <1>2, LeaseTypesStable DEF TypeInv, SweepExpire
<1>6. PICK x : x = [phase |-> "expired", horizon |-> expired]
  OBVIOUS
<1>7. sweep' = [sweep EXCEPT ![w] = x] /\ x \in PlainSweep
  <2>1. expired \in SUBSET Seqs
    BY MortalAssumption DEF TypeInv, MailTypes, Seqs
  <2> QED BY <1>6, <2>1 DEF SweepExpire, PlainSweep
<1>8. SweepTypes'
  BY <1>1, <1>2, <1>7, SweepTypesStep DEF TypeInv
<1> QED BY <1>4, <1>5, <1>8 DEF TypeInv

LEMMA SweepTakeFacts ==
    ASSUME TypeInv, NEW w \in Sweepers, SweepTake(w)
    PROVE  /\ sweep[w].phase = "expired" /\ sweep[w].horizon \in SUBSET Seqs
           /\ mem' \in MailboxType /\ mem'.issued = mem.issued /\ mem'.pending = mem.pending
           /\ mem'.last = mem.last /\ mem'.retired = mem.retired /\ mem'.dead = mem.dead
           /\ mem.settled <= mem'.settled
           /\ mem'.settled = mem.settled \/ mem'.settled <= Published
           /\ mem'.acked \subseteq mem.acked
           /\ \A s \in Seqs : Covers(mem, s) => Covers(mem', s)
           /\ (\A s \in mem.pending : s > mem.settled) => \A s \in mem'.pending : s > mem'.settled
           /\ \E x : /\ sweep' = [sweep EXCEPT ![w] = x] /\ x.horizon = sweep[w].horizon
                     /\ \/ x \in PlainSweep
                        \/ x \in TakenSweep /\ x.cursor = mem'
<1>1. MailTypes /\ mem \in MailboxType /\ Published \in 0..MaxSeq
  BY PublishedFacts DEF TypeInv, MailTypes
<1>2. sweep[w].phase = "expired" /\ sweep[w] \in PlainSweep /\ sweep[w].horizon \in SUBSET Seqs
  BY SweepCases DEF SweepTake, TypeInv
<1>3. CASE ~due
  <2>1. mem' = mem /\ sweep' = [sweep EXCEPT ![w].phase = "saved"]
    BY <1>3 DEF SweepTake
  <2>2. mem.settled \in Nat
    BY <1>1 DEF MailboxType
  <2>3. PICK y \in PlainSweep : y = sweep[w]
    BY <1>2
  <2>4. PICK x : x = [y EXCEPT !.phase = "saved"]
    OBVIOUS
  <2>5. x \in PlainSweep /\ x.horizon = y.horizon
    BY <2>4 DEF PlainSweep
  <2>6. sweep' = [sweep EXCEPT ![w] = x]
    BY <2>1, <2>3, <2>4
  <2>7. \E z : /\ sweep' = [sweep EXCEPT ![w] = z] /\ z.horizon = sweep[w].horizon
               /\ \/ z \in PlainSweep
                  \/ z \in TakenSweep /\ z.cursor = mem'
    BY <2>3, <2>5, <2>6
  <2>8. \A s \in Seqs : Covers(mem, s) => Covers(mem', s)
    BY <2>1 DEF Covers
  <2>9. /\ mem' \in MailboxType /\ mem'.issued = mem.issued /\ mem'.pending = mem.pending
        /\ mem'.last = mem.last /\ mem'.retired = mem.retired /\ mem'.dead = mem.dead
        /\ mem.settled <= mem'.settled
        /\ mem'.settled = mem.settled \/ mem'.settled <= Published
        /\ mem'.acked \subseteq mem.acked
        /\ (\A s \in mem.pending : s > mem.settled) => \A s \in mem'.pending : s > mem'.settled
    BY <1>1, <2>1, <2>2
  <2> QED BY <1>2, <2>7, <2>8, <2>9
<1>4. CASE due
  <2>1. mem' = AdvanceSettled(mem, Published)
    BY <1>4 DEF SweepTake
  <2>2. /\ mem' \in MailboxType
        /\ mem'.issued = mem.issued /\ mem'.pending = mem.pending /\ mem'.dead = mem.dead
        /\ mem'.last = mem.last /\ mem'.retired = mem.retired
        /\ mem.settled <= mem'.settled
        /\ mem'.settled = mem.settled \/ mem'.settled <= Published
        /\ mem'.acked = Above(mem.acked, mem'.settled)
        /\ (\A s \in mem.pending : s > mem.settled) => \A s \in mem.pending : s > mem'.settled
    BY <1>1, <2>1, AdvanceSettledFacts
  <2>3. ASSUME NEW s \in Seqs, Covers(mem, s) PROVE Covers(mem', s)
    <3>1. mem.settled \in Nat /\ mem'.settled \in Nat /\ s \in Nat
      BY <1>1, <2>2 DEF MailboxType, Seqs
    <3> QED BY <2>2, <2>3, <3>1 DEF Covers, Above
  <2>4. mem'.acked \subseteq mem.acked
    BY <2>2 DEF Above
  <2>5. PICK x : x = [phase |-> "taken", horizon |-> sweep[w].horizon, cursor |-> mem']
    OBVIOUS
  <2>6. x \in TakenSweep /\ x.horizon = sweep[w].horizon /\ x.cursor = mem'
    BY <1>2, <2>2, <2>5 DEF TakenSweep
  <2>7. sweep' = [sweep EXCEPT ![w] = x]
    BY <1>4, <2>5 DEF SweepTake
  <2>8. \E y : /\ sweep' = [sweep EXCEPT ![w] = y] /\ y.horizon = sweep[w].horizon
               /\ \/ y \in PlainSweep
                  \/ y \in TakenSweep /\ y.cursor = mem'
    BY <2>6, <2>7
  <2> QED BY <1>2, <2>2, <2>3, <2>4, <2>8
<1>5. due \in BOOLEAN
  BY <1>1 DEF MailTypes
<1> QED BY <1>3, <1>4, <1>5

LEMMA TypeSweepTake ==
    ASSUME TypeInv, NEW w \in Sweepers, SweepTake(w)
    PROVE  TypeInv'
<1>1. mem' \in MailboxType /\ mem'.issued = mem.issued
  BY SweepTakeFacts
<1>2. PICK x : /\ sweep' = [sweep EXCEPT ![w] = x]
               /\ x \in PlainSweep \/ (x \in TakenSweep /\ x.cursor = mem')
  BY SweepTakeFacts
<1>3. mem \in MailboxType /\ mem.issued <= mem'.issued /\ mem'.issued <= mem'.issued
  <2>1. mem \in MailboxType
    BY DEF TypeInv, MailTypes
  <2> QED BY <1>1, <2>1 DEF MailboxType
<1>4. MailTypes'
  BY <1>1 DEF TypeInv, MailTypes, SweepTake
<1>5. LeaseTypes'
  BY <1>1, <1>3, LeaseTypesStable DEF TypeInv, SweepTake
<1>6. x = Idle \/ x \in PlainSweep \/ (x \in TakenSweep /\ x.cursor.issued <= mem'.issued)
  BY <1>2, <1>3
<1>7. SweepTypes'
  BY <1>1, <1>2, <1>3, <1>6, SweepTypesStep DEF TypeInv
<1> QED BY <1>4, <1>5, <1>7 DEF TypeInv

LEMMA SweepSaveFacts ==
    ASSUME TypeInv, NEW w \in Sweepers, SweepSave(w)
    PROVE  /\ Taken(w) /\ sweep[w].cursor \in MailboxType /\ sweep[w].horizon \in SUBSET Seqs
           /\ sweep[w].cursor.issued <= mem.issued
           /\ Checkpoint(sweep[w].cursor, rows, rows, RetentionKeys(sweep[w].cursor), Published)
           /\ \E x \in PlainSweep : /\ sweep' = [sweep EXCEPT ![w] = x]
                                    /\ x.horizon = sweep[w].horizon
<1>1. Taken(w)
  BY DEF SweepSave, Taken
<1>2. sweep[w].phase # "idle"
  BY <1>1 DEF Taken
<1>3. /\ sweep[w] \in TakenSweep /\ sweep[w].cursor \in MailboxType
      /\ sweep[w].horizon \in SUBSET Seqs
  BY <1>1, <1>2, SweepCases DEF TypeInv
<1>4. sweep[w].cursor.issued <= mem.issued
  BY <1>1 DEF TypeInv, SweepTypes
<1>5. PICK x : x = [phase |-> "saved", horizon |-> sweep[w].horizon]
  OBVIOUS
<1>6. x \in PlainSweep /\ x.horizon = sweep[w].horizon
  BY <1>3, <1>5 DEF PlainSweep
<1>7. sweep' = [sweep EXCEPT ![w] = x]
  BY <1>5 DEF SweepSave
<1>8. Checkpoint(sweep[w].cursor, rows, rows, RetentionKeys(sweep[w].cursor), Published)
  BY DEF SweepSave
<1> QED BY <1>1, <1>3, <1>4, <1>6, <1>7, <1>8

LEMMA TypeSweepSave ==
    ASSUME TypeInv, NEW w \in Sweepers, SweepSave(w)
    PROVE  TypeInv'
<1>1. /\ sweep[w].cursor \in MailboxType /\ sweep[w].cursor.issued <= mem.issued
      /\ Checkpoint(sweep[w].cursor, rows, rows, RetentionKeys(sweep[w].cursor), Published)
  BY SweepSaveFacts
<1>2. PICK x \in PlainSweep : sweep' = [sweep EXCEPT ![w] = x]
  BY SweepSaveFacts
<1>3. MailTypes /\ Published \in 0..MaxSeq /\ rows \in SUBSET log /\ rows \in SUBSET Seqs
  BY PublishedFacts DEF TypeInv, MailTypes
<1>4. cur' \in CursorType /\ rows' \subseteq log /\ durIssued' \in 0..mem.issued
  BY <1>1, <1>3, TypeCheckpoint
<1>5. mem' = mem /\ mem \in MailboxType /\ mem' \in MailboxType /\ mem.issued <= mem'.issued
  BY <1>3 DEF MailTypes, SweepSave, MailboxType
<1>6. MailTypes'
  BY <1>3, <1>4 DEF MailTypes, SweepSave
<1>7. LeaseTypes'
  BY <1>5, LeaseTypesStable DEF TypeInv, SweepSave
<1>8. SweepTypes'
  BY <1>2, <1>5, SweepTypesStep DEF TypeInv
<1> QED BY <1>6, <1>7, <1>8 DEF TypeInv

\* The mailbox that the store describes.
LEMMA MailboxFacts ==
    ASSUME cur \in CursorType, durIssued \in 0..MaxSeq, NEW pending \in SUBSET Seqs
    PROVE  LET n == Mailbox(cur, pending)
           IN  /\ n \in MailboxType /\ n.issued = durIssued /\ n.pending = pending
               /\ n.settled = cur.settled /\ n.acked = cur.acked /\ n.dead = cur.dead
               /\ n.last = cur.last /\ n.retired = {}
BY DEF Mailbox, MailboxType, CursorType

LEMMA SweepPurgeFacts ==
    ASSUME TypeInv, NEW w \in Sweepers, SweepPurge(w)
    PROVE  /\ sweep[w].phase = "saved" /\ sweep[w].horizon \in SUBSET Seqs
           /\ sweep' = [sweep EXCEPT ![w] = Idle]
           /\ \/ UNCHANGED <<cur, rows, durIssued>>
              \/ \E c \in MailboxType, live \in SUBSET log :
                    /\ c.issued = durIssued /\ c.pending = {} /\ c.settled = cur.settled
                    /\ c.acked = cur.acked /\ c.dead = cur.dead /\ c.last = cur.last
                    /\ c.retired = {}
                    /\ live = rows \ sweep[w].horizon
                    /\ Checkpoint(c, live, live, RetentionKeys(c), Published)
<1>1. MailTypes /\ cur \in CursorType /\ durIssued \in 0..MaxSeq /\ rows \subseteq log
  BY BoundsAssumption DEF TypeInv, MailTypes, MailboxType
<1>2. sweep[w].phase = "saved"
  BY DEF SweepPurge
<1>3. sweep[w].horizon \in SUBSET Seqs
  BY <1>2, SweepCases DEF TypeInv
<1>4. PICK c : c = Mailbox(cur, {})
  OBVIOUS
<1>5. /\ c \in MailboxType /\ c.issued = durIssued /\ c.pending = {}
      /\ c.settled = cur.settled /\ c.acked = cur.acked /\ c.dead = cur.dead
      /\ c.last = cur.last /\ c.retired = {}
  BY <1>1, <1>4, MailboxFacts
<1>6. PICK live \in SUBSET log : live = rows \ sweep[w].horizon
  BY <1>1
<1>7. \/ UNCHANGED <<cur, rows, durIssued>>
      \/ Checkpoint(c, live, live, RetentionKeys(c), Published)
  BY <1>4, <1>6 DEF SweepPurge
<1>8. sweep' = [sweep EXCEPT ![w] = Idle]
  BY DEF SweepPurge
<1> QED BY <1>2, <1>3, <1>5, <1>6, <1>7, <1>8

LEMMA TypeSweepPurge ==
    ASSUME TypeInv, NEW w \in Sweepers, SweepPurge(w)
    PROVE  TypeInv'
<1>1. sweep' = [sweep EXCEPT ![w] = Idle]
  BY DEF SweepPurge
<1>2. MailTypes /\ Published \in 0..MaxSeq /\ log \in SUBSET Seqs /\ mem \in MailboxType
  BY PublishedFacts DEF TypeInv, MailTypes
<1>3. cur' \in CursorType /\ rows' \subseteq log /\ durIssued' \in 0..mem.issued
  <2>1. CASE UNCHANGED <<cur, rows, durIssued>>
    BY <1>2, <2>1 DEF MailTypes
  <2>2. CASE ~UNCHANGED <<cur, rows, durIssued>>
    <3>1. PICK c \in MailboxType, live \in SUBSET log :
             c.issued = durIssued /\ Checkpoint(c, live, live, RetentionKeys(c), Published)
      BY <2>2, SweepPurgeFacts
    <3>2. c.issued <= mem.issued /\ live \in SUBSET Seqs
      <4>1. durIssued \in 0..mem.issued /\ mem.issued \in Nat
        BY <1>2 DEF MailTypes, MailboxType
      <4> QED BY <1>2, <3>1, <4>1
    <3> QED BY <1>2, <3>1, <3>2, TypeCheckpoint
  <2> QED BY <2>1, <2>2
<1>4. mem' = mem /\ mem' \in MailboxType /\ mem.issued <= mem'.issued
  BY <1>2 DEF SweepPurge, MailboxType
<1>5. MailTypes'
  BY <1>2, <1>3 DEF MailTypes, SweepPurge
<1>6. LeaseTypes'
  BY <1>2, <1>4, LeaseTypesStable DEF TypeInv, SweepPurge
<1>7. SweepTypes'
  BY <1>1, <1>2, <1>4, SweepTypesStep DEF TypeInv
<1> QED BY <1>5, <1>6, <1>7 DEF TypeInv

\* What is loaded after the process died, and what recovery writes back.
LEMMA CrashFacts ==
    ASSUME TypeInv, Crash
    PROVE  /\ Recovered \in SUBSET log /\ Restored \in SUBSET Recovered
           /\ durIssued \in 0..MaxSeq
           /\ mem' \in MailboxType /\ mem'.issued = durIssued /\ mem'.pending = Restored
           /\ mem'.dead = cur.dead /\ mem'.last = cur.last /\ mem'.retired = {}
           /\ cur.settled <= mem'.settled
           /\ mem'.settled = cur.settled \/ mem'.settled <= durIssued
           /\ mem'.acked = Above(cur.acked, mem'.settled)
           /\ (\A s \in Restored : s > cur.settled) => \A s \in Restored : s > mem'.settled
           /\ \/ ~Wal /\ UNCHANGED <<cur, rows, durIssued>> /\ mem'.settled = cur.settled
              \/ Checkpoint(mem', Restored, Recovered, RetentionKeys(mem'), durIssued)
           /\ lease' = Idle /\ sweep' = [w \in Sweepers |-> Idle] /\ inflight' = {}
<1>1. MailTypes /\ cur \in CursorType /\ durIssued \in 0..MaxSeq /\ rows \subseteq log /\ log \subseteq Seqs
  BY BoundsAssumption DEF TypeInv, MailTypes, MailboxType
<1>2. Recovered \in SUBSET log /\ Restored \in SUBSET Recovered
  BY <1>1 DEF Recovered, Restored, Above
<1>3. PICK restored \in SUBSET Seqs : restored = Restored
  BY <1>1, <1>2
<1>4. PICK n : n = Mailbox(cur, restored)
  OBVIOUS
<1>5. /\ n \in MailboxType /\ n.issued = durIssued /\ n.pending = restored
      /\ n.settled = cur.settled /\ n.acked = cur.acked /\ n.dead = cur.dead
      /\ n.last = cur.last /\ n.retired = {}
  BY <1>1, <1>4, MailboxFacts
<1>6. mem' = AdvanceSettled(n, durIssued)
  BY <1>3, <1>4 DEF Crash
<1>7. /\ mem' \in MailboxType
      /\ mem'.issued = n.issued /\ mem'.pending = n.pending /\ mem'.dead = n.dead
      /\ mem'.last = n.last /\ mem'.retired = n.retired
      /\ n.settled <= mem'.settled
      /\ mem'.settled = n.settled \/ mem'.settled <= durIssued
      /\ mem'.acked = Above(n.acked, mem'.settled)
      /\ (\A s \in n.pending : s > n.settled) => \A s \in n.pending : s > mem'.settled
  BY <1>1, <1>5, <1>6, AdvanceSettledFacts
<1>8. \/ ~Wal /\ UNCHANGED <<cur, rows, durIssued>> /\ mem'.settled = cur.settled
      \/ Checkpoint(mem', Restored, Recovered, RetentionKeys(mem'), durIssued)
  BY <1>3, <1>4, <1>6 DEF Crash
<1>9. lease' = Idle /\ sweep' = [w \in Sweepers |-> Idle] /\ inflight' = {}
  BY DEF Crash
<1> QED BY <1>1, <1>2, <1>3, <1>5, <1>7, <1>8, <1>9

LEMMA TypeCrash ==
    ASSUME TypeInv, Crash
    PROVE  TypeInv'
<1>1. /\ Recovered \in SUBSET log /\ Restored \in SUBSET Recovered
      /\ durIssued \in 0..MaxSeq /\ mem' \in MailboxType /\ mem'.issued = durIssued
      /\ lease' = Idle /\ sweep' = [w \in Sweepers |-> Idle] /\ inflight' = {}
  BY CrashFacts
<1>2. /\ MailTypes /\ cur \in CursorType /\ rows \subseteq log /\ log \subseteq Seqs
      /\ mem.issued \in Nat /\ durIssued \in 0..mem.issued /\ durIssued \in Nat
  BY DEF TypeInv, MailTypes, MailboxType
<1>3. cur' \in CursorType /\ rows' \subseteq log /\ durIssued' = durIssued
  <2>1. CASE UNCHANGED <<cur, rows, durIssued>>
    BY <1>2, <2>1
  <2>2. CASE ~UNCHANGED <<cur, rows, durIssued>>
    <3>1. Checkpoint(mem', Restored, Recovered, RetentionKeys(mem'), durIssued)
      BY <2>2, CrashFacts
    <3>2. PICK c \in MailboxType, visible \in SUBSET Seqs, base \in SUBSET Seqs :
             c = mem' /\ visible = Restored /\ base = Recovered
      BY <1>1, <1>2
    <3>3. Checkpointed(c, visible, base, RetentionKeys(c), durIssued)
      BY <1>1, <1>2, <3>1, <3>2, CheckpointFacts
    <3>4. /\ cur' \in CursorType /\ rows' \subseteq base
          /\ durIssued' = durIssued \/ durIssued' = c.issued
      BY <3>3 DEF Checkpointed
    <3> QED BY <1>1, <1>2, <3>2, <3>4
  <2> QED BY <2>1, <2>2
<1>4. durIssued' \in 0..mem'.issued
  BY <1>1, <1>2, <1>3
<1>5. MailTypes'
  BY <1>1, <1>2, <1>3, <1>4 DEF MailTypes, Crash
<1>6. LeaseTypes'
  BY <1>1 DEF LeaseTypes, Idle
<1>7. SweepTypes'
  BY <1>1 DEF SweepTypes, Taken, Idle
<1> QED BY <1>5, <1>6, <1>7 DEF TypeInv

LEMMA TypeStutter ==
    ASSUME TypeInv, UNCHANGED vars
    PROVE  TypeInv'
<1>1. MailTypes'
  BY DEF TypeInv, MailTypes, vars
<1>2. LeaseTypes'
  BY DEF TypeInv, LeaseTypes, vars
<1>3. SweepTypes'
  BY DEF TypeInv, SweepTypes, vars, Taken
<1> QED BY <1>1, <1>2, <1>3 DEF TypeInv

LEMMA TypeInvStep ==
    ASSUME TypeInv, [Next]_vars
    PROVE  TypeInv'
<1>1. CASE UNCHANGED vars
  BY <1>1, TypeStutter
<1>2. CASE AppendEntry
  BY <1>2, TypeAppend
<1>3. ASSUME NEW s \in Seqs, Store(s) \/ AbortEntry(s) \/ NackApply(s) \/ Elapse(s)
      PROVE  TypeInv'
  BY <1>3, TypeStore, TypeAbort, TypeNackApply, TypeElapse
<1>4. ASSUME NEW S \in AckInputs, AckBegin(S)
      PROVE  TypeInv'
  BY <1>4, TypeAckBegin
<1>5. CASE AckCommit \/ AckPublish \/ NackCommit \/ CommitFails
  BY <1>5, TypeAckCommit, TypeAckPublish, TypeNackCommit, TypeCommitFails
<1>6. ASSUME NEW w \in Sweepers, Sweep(w)
      PROVE  TypeInv'
  BY <1>6, TypeSweepExpire, TypeSweepTake, TypeSweepSave, TypeSweepPurge DEF Sweep
<1>7. CASE Crash
  BY <1>7, TypeCrash
<1> QED BY <1>1, <1>2, <1>3, <1>4, <1>5, <1>6, <1>7 DEF Next

LEMMA TypeInvHolds == Spec => []TypeInv
<1>1. Init => TypeInv
  BY TypeInvInit
<1>2. TypeInv /\ [Next]_vars => TypeInv'
  BY TypeInvStep
<1> QED BY <1>1, <1>2, PTL DEF Spec

\* Every state the threads and the recovery reach is well typed: counters within
\* the issued sequences, attempts below the limit, dead letters within theirs.
THEOREM TypeCorrect == Spec => []TypeOK
<1>1. TypeInv => TypeOK
  BY TypeInvImpliesTypeOK
<1> QED BY <1>1, TypeInvHolds, PTL

-----------------------------------------------------------------------------
(***************************************************************************)
(* Every checkpoint the system takes, and what it leaves.                  *)
(***************************************************************************)
LEMMA AckCommitCheckpoint ==
    ASSUME TypeInv, AckCommit
    PROVE  \E c \in MailboxType :
             /\ c.issued = lease.cand.issued /\ c.settled = lease.cand.settled
             /\ c.acked = lease.cand.acked /\ c.dead = lease.cand.dead
             /\ c.last = lease.cand.last /\ c.retired = lease.cand.retired \union lease.acks
             /\ Checkpointed(c, rows, rows, c.retired, Published)
             /\ done' = done \union c.retired
<1>1. PICK c \in MailboxType :
         /\ c.issued = lease.cand.issued /\ c.settled = lease.cand.settled
         /\ c.acked = lease.cand.acked /\ c.dead = lease.cand.dead
         /\ c.last = lease.cand.last /\ c.retired = lease.cand.retired \union lease.acks
         /\ Checkpoint(c, rows, rows, c.retired, Published)
         /\ done' = done \union c.retired
  BY AckCommitFacts
<1>2. /\ MailTypes /\ Published \in 0..MaxSeq /\ rows \in SUBSET Seqs /\ cur \in CursorType
      /\ durIssued \in 0..MaxSeq
  BY PublishedFacts, BoundsAssumption DEF TypeInv, MailTypes, MailboxType
<1>3. Checkpointed(c, rows, rows, c.retired, Published)
  BY <1>1, <1>2, CheckpointFacts
<1> QED BY <1>1, <1>3

LEMMA NackCommitCheckpoint ==
    ASSUME TypeInv, NackCommit
    PROVE  /\ lease.phase = "nack" /\ lease.cand \in MailboxType
           /\ Checkpointed(lease.cand, rows, rows, lease.cand.retired, Published)
<1>1. lease.phase = "nack" /\ lease.cand \in MailboxType
  BY LeaseCases DEF NackCommit, TypeInv
<1>2. Checkpoint(lease.cand, rows, rows, lease.cand.retired, Published)
  BY DEF NackCommit, ReceiverKeys
<1>3. /\ MailTypes /\ Published \in 0..MaxSeq /\ rows \in SUBSET Seqs /\ cur \in CursorType
      /\ durIssued \in 0..MaxSeq
  BY PublishedFacts, BoundsAssumption DEF TypeInv, MailTypes, MailboxType
<1> QED BY <1>1, <1>2, <1>3, CheckpointFacts

LEMMA SweepSaveCheckpoint ==
    ASSUME TypeInv, NEW w \in Sweepers, SweepSave(w)
    PROVE  Checkpointed(sweep[w].cursor, rows, rows, RetentionKeys(sweep[w].cursor), Published)
<1>1. /\ sweep[w].cursor \in MailboxType
      /\ Checkpoint(sweep[w].cursor, rows, rows, RetentionKeys(sweep[w].cursor), Published)
  BY SweepSaveFacts
<1>2. /\ MailTypes /\ Published \in 0..MaxSeq /\ rows \in SUBSET Seqs /\ cur \in CursorType
      /\ durIssued \in 0..MaxSeq
  BY PublishedFacts, BoundsAssumption DEF TypeInv, MailTypes, MailboxType
<1> QED BY <1>1, <1>2, CheckpointFacts

LEMMA SweepPurgeCheckpoint ==
    ASSUME TypeInv, NEW w \in Sweepers, SweepPurge(w), ~UNCHANGED <<cur, rows, durIssued>>
    PROVE  \E c \in MailboxType, live \in SUBSET log :
             /\ c.issued = durIssued /\ c.pending = {} /\ c.settled = cur.settled
             /\ c.acked = cur.acked /\ c.dead = cur.dead /\ c.last = cur.last
             /\ c.retired = {}
             /\ live = rows \ sweep[w].horizon
             /\ Checkpointed(c, live, live, RetentionKeys(c), Published)
<1>1. PICK c \in MailboxType, live \in SUBSET log :
             /\ c.issued = durIssued /\ c.pending = {} /\ c.settled = cur.settled
             /\ c.acked = cur.acked /\ c.dead = cur.dead /\ c.last = cur.last
             /\ c.retired = {}
             /\ live = rows \ sweep[w].horizon
             /\ Checkpoint(c, live, live, RetentionKeys(c), Published)
  BY SweepPurgeFacts
<1>2. /\ MailTypes /\ Published \in 0..MaxSeq /\ live \in SUBSET Seqs /\ cur \in CursorType
      /\ durIssued \in 0..MaxSeq
  BY PublishedFacts, BoundsAssumption DEF TypeInv, MailTypes, MailboxType
<1>3. Checkpointed(c, live, live, RetentionKeys(c), Published)
  BY <1>1, <1>2, CheckpointFacts
<1> QED BY <1>1, <1>3

LEMMA CrashCheckpoint ==
    ASSUME TypeInv, Crash
    PROVE  \/ ~Wal /\ UNCHANGED <<cur, rows, durIssued>> /\ mem'.settled = cur.settled
           \/ Checkpointed(mem', Restored, Recovered, RetentionKeys(mem'), durIssued)
<1>1. /\ Recovered \in SUBSET log /\ Restored \in SUBSET Recovered
      /\ durIssued \in 0..MaxSeq /\ mem' \in MailboxType
      /\ \/ ~Wal /\ UNCHANGED <<cur, rows, durIssued>> /\ mem'.settled = cur.settled
         \/ Checkpoint(mem', Restored, Recovered, RetentionKeys(mem'), durIssued)
  BY CrashFacts
<1>2. cur \in CursorType /\ Recovered \in SUBSET Seqs /\ Restored \in SUBSET Seqs
  BY <1>1 DEF TypeInv, MailTypes
<1>3. CASE Checkpoint(mem', Restored, Recovered, RetentionKeys(mem'), durIssued)
  <2>1. PICK c \in MailboxType, visible \in SUBSET Seqs, base \in SUBSET Seqs :
           c = mem' /\ visible = Restored /\ base = Recovered
    BY <1>1, <1>2
  <2>2. PICK byKey : byKey = RetentionKeys(mem')
    OBVIOUS
  <2>3. Checkpoint(c, visible, base, byKey, durIssued)
    BY <1>3, <2>1, <2>2
  <2>4. Checkpointed(c, visible, base, byKey, durIssued)
    BY <1>1, <1>2, <2>3, CheckpointFacts
  <2> QED BY <2>1, <2>2, <2>4
<1> QED BY <1>1, <1>3

\* The durable settled prefix never moves back, whichever of the receivers, the
\* sweepers and the recovery writes the cursor and however old its copy is.
THEOREM PrefixOnlyGrows == Spec => SettledMonotone
<1>1. TypeInv /\ [Next]_vars => [cur'.settled >= cur.settled]_vars
  <2> SUFFICES ASSUME TypeInv, Next PROVE cur'.settled >= cur.settled
    OBVIOUS
  <2>0. cur.settled \in Nat
    BY DEF TypeInv, MailTypes, CursorType
  <2>1. CASE cur' = cur
    BY <2>0, <2>1
  <2>2. ASSUME NEW c, NEW visible, NEW base, NEW byKey, NEW p,
               Checkpointed(c, visible, base, byKey, p)
        PROVE  cur'.settled >= cur.settled
    <3>1. cur.settled <= cur'.settled /\ cur' \in CursorType
      BY <2>2 DEF Checkpointed
    <3>2. cur'.settled \in Nat
      BY <3>1 DEF CursorType
    <3> QED BY <2>0, <3>1, <3>2
  <2>3. CASE AckCommit
    BY <2>2, <2>3, AckCommitCheckpoint
  <2>4. CASE NackCommit
    BY <2>2, <2>4, NackCommitCheckpoint
  <2>5. ASSUME NEW w \in Sweepers, Sweep(w) PROVE cur'.settled >= cur.settled
    <3>1. CASE SweepExpire(w) \/ SweepTake(w)
      BY <2>1, <3>1 DEF SweepExpire, SweepTake
    <3>2. CASE SweepSave(w)
      BY <2>2, <3>2, SweepSaveCheckpoint
    <3>3. CASE SweepPurge(w)
      <4>1. CASE UNCHANGED <<cur, rows, durIssued>>
        BY <2>1, <4>1
      <4>2. CASE ~UNCHANGED <<cur, rows, durIssued>>
        BY <2>2, <3>3, <4>2, SweepPurgeCheckpoint
      <4> QED BY <4>1, <4>2
    <3> QED BY <2>5, <3>1, <3>2, <3>3 DEF Sweep
  <2>6. CASE Crash
    BY <2>1, <2>2, <2>6, CrashCheckpoint
  <2>7. CASE \/ AppendEntry \/ AckPublish \/ CommitFails
             \/ \E s \in Seqs : Store(s) \/ AbortEntry(s) \/ NackApply(s) \/ Elapse(s)
             \/ \E S \in AckInputs : AckBegin(S)
    <3>1. cur' = cur
      BY <2>7 DEF AppendEntry, AckPublish, CommitFails, Store, AbortEntry, NackApply, Elapse, AckBegin
    <3> QED BY <2>1, <3>1
  <2> QED BY <2>3, <2>4, <2>5, <2>6, <2>7 DEF Next
<1> QED BY <1>1, TypeInvHolds, PTL DEF Spec, SettledMonotone

-----------------------------------------------------------------------------
(***************************************************************************)
(* Nothing is lost.  Whatever a cursor records as retired has been retired *)
(* in the store or as a dead letter, the durable prefix covers no row that *)
(* is still owed, and a copy of the mailbox that is checkpointed late      *)
(* never records more than that.                                           *)
(***************************************************************************)
Records(c) == c.acked \union c.retired \union ({c.last} \ {0})

Counters ==
    /\ \A s \in 1..mem.issued : s \in inflight \/ s <= durIssued
    /\ log \subseteq 1..durIssued /\ log \intersect inflight = {}
    /\ cur.settled <= durIssued
    /\ \A s \in inflight : cur.settled < s

StoreRetired == cur.acked \subseteq done /\ cur.last \in done \union {0}

LeaseRetired ==
    /\ Busy => /\ lease.cand.acked \subseteq done \union lease.cand.retired \union lease.acks
               /\ lease.cand.last \in lease.acks
    /\ lease.phase = "committed" => lease.cand.retired \union lease.acks \subseteq done
    /\ lease.phase = "nack" => Records(lease.cand) \subseteq done

SweepKept ==
    \A w \in Sweepers : /\ Taken(w) => Records(sweep[w].cursor) \subseteq done
                        /\ sweep[w].phase # "idle" => sweep[w].horizon \subseteq expired

RowsKept ==
    /\ log \subseteq rows \union done \union expired
    /\ log \union inflight \subseteq mem.pending \union done \union expired
    /\ \A s \in log : s <= cur.settled => s \in done \union expired

KeptInv ==
    /\ TypeInv /\ Counters
    /\ Records(mem) \subseteq done /\ StoreRetired /\ LeaseRetired /\ SweepKept
    /\ RowsKept

LEMMA KeptInit ==
    ASSUME Init
    PROVE  KeptInv
<1>1. TypeInv
  BY TypeInvInit
<1>2. /\ mem.issued = 0 /\ mem.pending = {} /\ mem.settled = 0 /\ mem.acked = {}
      /\ mem.last = 0 /\ mem.retired = {}
      /\ cur.settled = 0 /\ cur.acked = {} /\ cur.last = 0
      /\ inflight = {} /\ log = {} /\ rows = {} /\ durIssued = 0
      /\ lease = Idle /\ sweep = [w \in Sweepers |-> Idle]
  BY DEF Init
<1>3. Counters
  BY <1>2 DEF Counters
<1>4. Records(mem) \subseteq done /\ StoreRetired
  BY <1>2 DEF Records, StoreRetired
<1>5. LeaseRetired
  BY <1>2 DEF LeaseRetired, Busy, Idle
<1>6. SweepKept
  BY <1>2 DEF SweepKept, Taken, Idle
<1>7. RowsKept
  BY <1>2 DEF RowsKept
<1> QED BY <1>1, <1>3, <1>4, <1>5, <1>6, <1>7 DEF KeptInv

\* The published prefix is durable: below it nothing is in flight.
LEMMA PublishedDurable ==
    ASSUME TypeInv, Counters
    PROVE  Published <= durIssued
<1>1. /\ Published \in 0..MaxSeq /\ Published <= mem.issued /\ \A s \in inflight : s > Published
  BY PublishedFacts DEF TypeInv
<1>2. durIssued \in Nat /\ mem.issued \in Nat
  BY DEF TypeInv, MailTypes, MailboxType
<1>3. CASE Published = 0
  BY <1>2, <1>3
<1>4. CASE Published # 0
  <2>1. Published \in 1..mem.issued
    BY <1>1, <1>2, <1>4
  <2>2. Published \notin inflight
    BY <1>1
  <2> QED BY <2>1, <2>2 DEF Counters
<1> QED BY <1>3, <1>4

\* A lease or a sweep that a step leaves alone records nothing new.
LEMMA LeaseRetiredStable ==
    ASSUME LeaseRetired, lease' = lease, done \subseteq done'
    PROVE  LeaseRetired'
BY DEF LeaseRetired, Busy, Records

LEMMA SweepKeptStable ==
    ASSUME SweepKept, sweep' = sweep, done \subseteq done', expired \subseteq expired'
    PROVE  SweepKept'
BY DEF SweepKept, Taken, Records

LEMMA SweepKeptStep ==
    ASSUME SweepKept, SweepTypes, NEW w \in Sweepers, NEW x, sweep' = [sweep EXCEPT ![w] = x],
           done \subseteq done', expired \subseteq expired',
           x.phase = "taken" => Records(x.cursor) \subseteq done',
           x.phase # "idle" => x.horizon \subseteq expired'
    PROVE  SweepKept'
<1>1. sweep'[w] = x /\ \A v \in Sweepers \ {w} : sweep'[v] = sweep[v]
  BY DEF SweepTypes
<1> SUFFICES ASSUME NEW v \in Sweepers
             PROVE  /\ sweep'[v].phase = "taken" => Records(sweep'[v].cursor) \subseteq done'
                    /\ sweep'[v].phase # "idle" => sweep'[v].horizon \subseteq expired'
  BY DEF SweepKept, Taken, Records
<1>2. CASE v = w
  BY <1>1, <1>2
<1>3. CASE v # w
  <2>1. sweep'[v] = sweep[v]
    BY <1>1, <1>3
  <2>2. /\ sweep[v].phase = "taken" => Records(sweep[v].cursor) \subseteq done
        /\ sweep[v].phase # "idle" => sweep[v].horizon \subseteq expired
    BY DEF SweepKept, Taken
  <2> QED BY <2>1, <2>2
<1> QED BY <1>2, <1>3

\* The store still holds every delivery that is not in gone, and its cursor
\* records only what is in retired.
StoreKeeps(retired, gone) ==
    /\ log \subseteq rows' \union gone
    /\ \A s \in log : s <= cur'.settled => s \in gone
    /\ cur'.acked \subseteq retired
    /\ cur'.last \in retired \union {0}

\* What a checkpoint leaves of the store's promises: the rows it removes and the
\* prefix it writes cover only what is in gone, when all that its copy records
\* and all that its keys name is retired.
LEMMA CheckpointKeeps ==
    ASSUME NEW c \in MailboxType, NEW visible, NEW base \in SUBSET log, NEW byKey, NEW p,
           NEW retired, NEW gone, TypeInv,
           Checkpointed(c, visible, base, byKey, p), Records(c) \subseteq retired,
           byKey \subseteq retired \union {0}, cur.acked \subseteq retired,
           retired \subseteq gone,
           log \subseteq visible \union gone, log \subseteq base \union gone,
           \A s \in log : s <= cur.settled => s \in gone
    PROVE  StoreKeeps(retired, gone)
<1>1. log \subseteq Seqs /\ 0 \notin Seqs /\ \A s \in Seqs : s \in Nat
  BY DEF TypeInv, MailTypes, Seqs
<1>2. c.acked \subseteq retired /\ c.retired \subseteq retired /\ c.last \in retired \union {0}
  BY DEF Records
<1>3. cur' \in CursorType /\ cur'.settled \in Nat
  BY DEF Checkpointed, CursorType
<1>4. ASSUME NEW s \in log, s <= cur'.settled PROVE s \in gone
  <2>1. CASE s \in visible
    <3>1. s > cur'.settled \/ Passed(c, s)
      BY <2>1 DEF Checkpointed
    <3>2. ~(s > cur'.settled)
      BY <1>1, <1>3, <1>4
    <3>3. s <= cur.settled \/ s = c.last \/ s \in c.acked \union cur.acked \union c.retired
      BY <3>1, <3>2 DEF Passed
    <3>4. s # 0
      BY <1>1
    <3> QED BY <1>2, <3>3, <3>4
  <2>2. CASE s \notin visible
    BY <2>2
  <2> QED BY <2>1, <2>2
<1>5. ASSUME NEW s \in log, s \notin gone PROVE s \in rows'
  <2>1. s \in base
    BY <1>5
  <2>2. SUFFICES ASSUME s \notin rows' PROVE FALSE
    OBVIOUS
  <2>3. \/ s <= cur'.settled
        \/ s \in c.acked \union cur.acked \union c.retired
        \/ s \in byKey
    BY <2>1, <2>2 DEF Checkpointed
  <2>4. s # 0
    BY <1>1
  <2> QED BY <1>2, <1>4, <1>5, <2>3, <2>4
<1>6. cur'.acked \subseteq cur.acked \union c.acked /\ cur'.last = c.last
  BY DEF Checkpointed
<1> QED BY <1>2, <1>4, <1>5, <1>6 DEF StoreKeeps

LEMMA CheckpointCounters ==
    ASSUME TypeInv, Counters, NEW c \in MailboxType, NEW visible, NEW base, NEW byKey,
           Checkpointed(c, visible, base, byKey, Published),
           mem' = mem, inflight' = inflight, log' = log
    PROVE  Counters'
<1>1. Published <= durIssued /\ Published \in 0..MaxSeq /\ \A s \in inflight : s > Published
  BY PublishedDurable, PublishedFacts DEF TypeInv
<1>2. /\ cur' \in CursorType
      /\ cur'.settled = cur.settled \/ cur'.settled <= Published
      /\ durIssued' \in 0..MaxSeq /\ durIssued <= durIssued'
  BY DEF Checkpointed
<1>3. /\ cur'.settled \in Nat /\ cur.settled \in Nat /\ durIssued \in Nat /\ durIssued' \in Nat
      /\ Published \in Nat /\ mem.issued \in Nat
  BY <1>1, <1>2 DEF CursorType, TypeInv, MailTypes, MailboxType
<1>4. inflight \subseteq Nat
  BY <1>3 DEF TypeInv, MailTypes
<1>5. cur'.settled <= durIssued' /\ \A s \in inflight : cur'.settled < s
  BY <1>1, <1>2, <1>3, <1>4 DEF Counters
<1>6. \A s \in 1..mem.issued : s \in inflight \/ s <= durIssued'
  BY <1>2, <1>3 DEF Counters
<1>7. log \subseteq 1..durIssued'
  <2>1. \A s \in 1..durIssued : s \in 1..durIssued'
    BY <1>2, <1>3
  <2> QED BY <2>1 DEF Counters
<1>8. log \intersect inflight = {}
  BY DEF Counters
<1> QED BY <1>5, <1>6, <1>7, <1>8 DEF Counters

LEMMA KeptAppend ==
    ASSUME KeptInv, AppendEntry
    PROVE  KeptInv'
<1>1. TypeInv /\ TypeInv'
  BY TypeAppend DEF KeptInv
<1>2. PICK s \in Seqs :
             /\ s = mem.issued + 1 /\ mem' \in MailboxType /\ mem'.issued = s
             /\ mem'.pending = mem.pending \union {s}
             /\ mem'.acked = mem.acked /\ mem'.last = mem.last /\ mem'.retired = mem.retired
             /\ inflight' = inflight \union {s}
  BY <1>1, AppendEntryFacts
<1>3. UNCHANGED <<rows, log, cur, durIssued, expired, lease, sweep, done>>
  BY DEF AppendEntry
<1>4. mem.issued \in Nat /\ durIssued \in 0..mem.issued /\ cur.settled \in Nat /\ s \in Nat
  BY <1>1 DEF TypeInv, MailTypes, MailboxType, CursorType, Seqs
<1>5. cur.settled < s /\ s \notin log
  <2>1. cur.settled <= durIssued /\ log \subseteq 1..durIssued
    BY DEF KeptInv, Counters
  <2>2. s \notin 1..durIssued
    BY <1>2, <1>4
  <2> QED BY <1>2, <1>4, <2>1, <2>2
<1>6. \A x \in 1..mem'.issued : x \in inflight' \/ x <= durIssued
  <2> TAKE x \in 1..mem'.issued
  <2>1. x = s \/ x \in 1..mem.issued
    BY <1>2, <1>4
  <2> QED BY <1>2, <2>1 DEF KeptInv, Counters
<1>7. Counters'
  BY <1>2, <1>3, <1>5, <1>6 DEF KeptInv, Counters
<1>8. Records(mem') \subseteq done' /\ StoreRetired'
  BY <1>2, <1>3 DEF KeptInv, Records, StoreRetired
<1>9. LeaseRetired' /\ SweepKept'
  BY <1>3, LeaseRetiredStable, SweepKeptStable DEF KeptInv
<1>10. RowsKept'
  BY <1>2, <1>3 DEF KeptInv, RowsKept
<1>11. (Records(mem) \subseteq done)'
  BY <1>8 DEF Records
<1> QED BY <1>1, <1>7, <1>8, <1>9, <1>10, <1>11 DEF KeptInv

LEMMA KeptStore ==
    ASSUME KeptInv, NEW s \in Seqs, Store(s)
    PROVE  KeptInv'
<1>1. TypeInv /\ TypeInv'
  BY TypeStore DEF KeptInv
<1>2. UNCHANGED <<mem, cur, expired, lease, sweep, done>>
  BY DEF Store
<1>3. /\ s \in inflight /\ inflight' = inflight \ {s} /\ rows' = rows \union {s}
      /\ log' = log \union {s}
  BY DEF Store
<1>4. durIssued' \in 0..mem.issued /\ durIssued <= durIssued' /\ s <= durIssued'
  BY <1>1, StoredCount DEF TypeInv, Store
<1>5. /\ mem.issued \in Nat /\ durIssued \in Nat /\ cur.settled \in Nat /\ s \in Nat /\ s > 0
      /\ durIssued' \in Nat
  BY <1>1, <1>4 DEF TypeInv, MailTypes, MailboxType, CursorType, Seqs
<1>6. \A x \in 1..mem.issued : x \in inflight' \/ x <= durIssued'
  BY <1>3, <1>4, <1>5 DEF KeptInv, Counters
<1>7. log' \subseteq 1..durIssued'
  <2>1. \A x \in 1..durIssued : x \in 1..durIssued'
    BY <1>4, <1>5
  <2>2. s \in 1..durIssued'
    BY <1>4, <1>5
  <2> QED BY <1>3, <2>1, <2>2 DEF KeptInv, Counters
<1>8. cur.settled <= durIssued'
  BY <1>4, <1>5 DEF KeptInv, Counters
<1>9. log' \intersect inflight' = {} /\ \A x \in inflight' : cur.settled < x
  BY <1>3 DEF KeptInv, Counters
<1>10. Counters'
  BY <1>2, <1>6, <1>7, <1>8, <1>9 DEF Counters
<1>11. (Records(mem) \subseteq done)' /\ StoreRetired'
  BY <1>2 DEF KeptInv, Records, StoreRetired
<1>12. LeaseRetired' /\ SweepKept'
  BY <1>2, LeaseRetiredStable, SweepKeptStable DEF KeptInv
<1>13. ~(s <= cur.settled)
  BY <1>3, <1>5 DEF KeptInv, Counters
<1>14. RowsKept'
  BY <1>2, <1>3, <1>13 DEF KeptInv, RowsKept
<1> QED BY <1>1, <1>10, <1>11, <1>12, <1>14 DEF KeptInv

LEMMA KeptAbort ==
    ASSUME KeptInv, NEW s \in Seqs, AbortEntry(s)
    PROVE  KeptInv'
<1>1. TypeInv /\ TypeInv'
  BY TypeAbort DEF KeptInv
<1>2. UNCHANGED <<rows, log, cur, expired, lease, sweep, done>>
  BY DEF AbortEntry
<1>3. s \in inflight /\ inflight' = inflight \ {s}
  BY DEF AbortEntry
<1>4. /\ mem'.issued = mem.issued /\ mem'.pending = mem.pending \ {s}
      /\ mem'.acked = mem.acked /\ mem'.last = mem.last /\ mem'.retired = mem.retired
  BY <1>1, AbortEntryFacts
<1>5. durIssued' \in 0..mem.issued /\ durIssued <= durIssued' /\ s <= durIssued'
  BY <1>1, StoredCount DEF TypeInv, AbortEntry
<1>6. /\ mem.issued \in Nat /\ durIssued \in Nat /\ cur.settled \in Nat /\ s \in Nat
      /\ durIssued' \in Nat
  BY <1>1, <1>5 DEF TypeInv, MailTypes, MailboxType, CursorType, Seqs
<1>7. \A x \in 1..mem'.issued : x \in inflight' \/ x <= durIssued'
  BY <1>3, <1>4, <1>5, <1>6 DEF KeptInv, Counters
<1>8. log \subseteq 1..durIssued'
  <2>1. \A x \in 1..durIssued : x \in 1..durIssued'
    BY <1>5, <1>6
  <2> QED BY <2>1 DEF KeptInv, Counters
<1>9. cur.settled <= durIssued'
  BY <1>5, <1>6 DEF KeptInv, Counters
<1>10. Counters'
  BY <1>2, <1>3, <1>7, <1>8, <1>9 DEF KeptInv, Counters
<1>11. (Records(mem) \subseteq done)' /\ StoreRetired'
  BY <1>2, <1>4 DEF KeptInv, Records, StoreRetired
<1>12. LeaseRetired' /\ SweepKept'
  BY <1>2, LeaseRetiredStable, SweepKeptStable DEF KeptInv
<1>13. s \notin log
  BY <1>3 DEF KeptInv, Counters
<1>14. RowsKept'
  BY <1>2, <1>3, <1>4, <1>13 DEF KeptInv, RowsKept
<1> QED BY <1>1, <1>10, <1>11, <1>12, <1>14 DEF KeptInv

LEMMA KeptAckBegin ==
    ASSUME KeptInv, NEW S \in AckInputs, AckBegin(S)
    PROVE  KeptInv'
<1>1. TypeInv /\ TypeInv'
  BY TypeAckBegin DEF KeptInv
<1>2. UNCHANGED <<mem, inflight, rows, log, cur, durIssued, expired, sweep, done>>
  BY DEF AckBegin
<1>3. /\ lease'.phase = "ack" /\ lease'.cand.last \in lease'.acks
      /\ Settles(mem, lease'.cand, lease'.acks \union lease'.cand.retired, Published)
  BY <1>1, AckBeginFacts
<1>4. lease'.cand.acked \subseteq mem.acked \union (lease'.acks \union lease'.cand.retired)
  BY <1>3 DEF Settles
<1>5. mem.acked \subseteq done
  BY DEF KeptInv, Records
<1>6. LeaseRetired'
  BY <1>2, <1>3, <1>4, <1>5 DEF LeaseRetired, Busy
<1>7. SweepKept'
  BY <1>2, SweepKeptStable DEF KeptInv
<1>8. Counters' /\ (Records(mem) \subseteq done)' /\ StoreRetired' /\ RowsKept'
  BY <1>2 DEF KeptInv, Counters, Records, StoreRetired, RowsKept
<1> QED BY <1>1, <1>6, <1>7, <1>8 DEF KeptInv

LEMMA KeptAckCommit ==
    ASSUME KeptInv, AckCommit
    PROVE  KeptInv'
<1>1. TypeInv /\ TypeInv'
  BY TypeAckCommit DEF KeptInv
<1>2. UNCHANGED <<mem, inflight, log, expired, sweep>>
  BY DEF AckCommit
<1>3. PICK c \in MailboxType :
         /\ c.acked = lease.cand.acked
         /\ c.last = lease.cand.last /\ c.retired = lease.cand.retired \union lease.acks
         /\ Checkpointed(c, rows, rows, c.retired, Published)
         /\ done' = done \union c.retired
  BY <1>1, AckCommitCheckpoint
<1>4. /\ lease.phase = "ack" /\ lease'.phase = "committed" /\ lease'.cand = lease.cand
      /\ lease'.acks = lease.acks
  BY <1>1, AckCommitFacts
<1>5. /\ lease.cand.acked \subseteq done \union lease.cand.retired \union lease.acks
      /\ lease.cand.last \in lease.acks
  BY <1>4 DEF KeptInv, LeaseRetired, Busy
<1>6. Records(c) \subseteq done' /\ c.retired \subseteq done' \union {0}
  BY <1>3, <1>5 DEF Records
<1>7. PICK gone : gone = done' \union expired
  OBVIOUS
<1>8. cur.acked \subseteq done' /\ done' \subseteq gone
  BY <1>3, <1>7 DEF KeptInv, StoreRetired
<1>9. log \subseteq rows \union gone /\ \A s \in log : s <= cur.settled => s \in gone
  BY <1>3, <1>7 DEF KeptInv, RowsKept
<1>10. rows \in SUBSET log
  BY <1>1 DEF TypeInv, MailTypes
<1>11. StoreKeeps(done', gone)
  BY <1>1, <1>3, <1>6, <1>8, <1>9, <1>10, CheckpointKeeps
<1>12. Counters'
  BY <1>1, <1>2, <1>3, CheckpointCounters DEF KeptInv
<1>13. (Records(mem) \subseteq done)' /\ StoreRetired'
  BY <1>2, <1>3, <1>11 DEF KeptInv, Records, StoreRetired, StoreKeeps
<1>14. LeaseRetired'
  BY <1>3, <1>4, <1>5 DEF LeaseRetired, Busy
<1>15. SweepKept'
  BY <1>2, <1>3, SweepKeptStable DEF KeptInv
<1>16. RowsKept'
  BY <1>2, <1>3, <1>7, <1>11 DEF KeptInv, RowsKept, StoreKeeps
<1> QED BY <1>1, <1>12, <1>13, <1>14, <1>15, <1>16 DEF KeptInv

LEMMA KeptAckPublish ==
    ASSUME KeptInv, AckPublish
    PROVE  KeptInv'
<1>1. TypeInv /\ TypeInv'
  BY TypeAckPublish DEF KeptInv
<1>2. UNCHANGED <<inflight, rows, log, cur, durIssued, expired, sweep, done>>
  BY DEF AckPublish
<1>3. /\ lease.phase = "committed" /\ lease' = Idle /\ mem'.issued = mem.issued
      /\ mem'.pending = mem.pending \ (lease.acks \union lease.cand.retired)
      /\ mem'.acked = Above(mem.acked \union lease.cand.acked, mem'.settled)
      /\ mem'.last = lease.cand.last /\ mem'.retired = {}
  BY <1>1, AckPublishFacts
<1>4. /\ lease.cand.acked \subseteq done /\ lease.cand.last \in done
      /\ lease.acks \union lease.cand.retired \subseteq done
  BY <1>3 DEF KeptInv, LeaseRetired, Busy
<1>5. mem'.acked \subseteq done
  BY <1>3, <1>4 DEF KeptInv, Records, Above
<1>6. (Records(mem) \subseteq done)'
  BY <1>2, <1>3, <1>4, <1>5 DEF Records
<1>7. Counters' /\ StoreRetired'
  BY <1>2, <1>3 DEF KeptInv, Counters, StoreRetired
<1>8. LeaseRetired'
  BY <1>3 DEF LeaseRetired, Busy, Idle
<1>9. SweepKept'
  BY <1>2, SweepKeptStable DEF KeptInv
<1>10. RowsKept'
  BY <1>2, <1>3, <1>4 DEF KeptInv, RowsKept
<1> QED BY <1>1, <1>6, <1>7, <1>8, <1>9, <1>10 DEF KeptInv

LEMMA KeptNackApply ==
    ASSUME KeptInv, NEW s \in Seqs, NackApply(s)
    PROVE  KeptInv'
<1>1. TypeInv /\ TypeInv'
  BY TypeNackApply DEF KeptInv
<1>2. UNCHANGED <<inflight, rows, log, cur, durIssued, expired, sweep>>
  BY DEF NackApply
<1>3. /\ lease'.phase = "nack" /\ lease'.cand = mem'
      /\ Settles(mem, mem', mem'.retired, Published)
      /\ mem'.last = mem.last /\ done' = done \union mem'.retired
  BY <1>1, NackApplyFacts
<1>4. /\ mem'.issued = mem.issued /\ mem'.acked \subseteq mem.acked \union mem'.retired
      /\ mem.pending \subseteq mem'.pending \union mem'.retired
  BY <1>3 DEF Settles
<1>5. Records(mem') \subseteq done'
  BY <1>3, <1>4 DEF KeptInv, Records
<1>6. (Records(mem) \subseteq done)'
  BY <1>5 DEF Records
<1>7. Counters' /\ StoreRetired'
  BY <1>2, <1>3, <1>4 DEF KeptInv, Counters, StoreRetired
<1>8. LeaseRetired'
  BY <1>3, <1>5 DEF LeaseRetired, Busy, Records
<1>9. SweepKept'
  BY <1>2, <1>3, SweepKeptStable DEF KeptInv
<1>10. RowsKept'
  BY <1>2, <1>3, <1>4 DEF KeptInv, RowsKept
<1> QED BY <1>1, <1>6, <1>7, <1>8, <1>9, <1>10 DEF KeptInv

LEMMA KeptNackCommit ==
    ASSUME KeptInv, NackCommit
    PROVE  KeptInv'
<1>1. TypeInv /\ TypeInv'
  BY TypeNackCommit DEF KeptInv
<1>2. UNCHANGED <<mem, inflight, log, expired, sweep, done>> /\ lease' = Idle
  BY DEF NackCommit
<1>3. /\ lease.phase = "nack" /\ lease.cand \in MailboxType
      /\ Checkpointed(lease.cand, rows, rows, lease.cand.retired, Published)
  BY <1>1, NackCommitCheckpoint
<1>4. Records(lease.cand) \subseteq done /\ lease.cand.retired \subseteq done \union {0}
  BY <1>3 DEF KeptInv, LeaseRetired, Records
<1>5. PICK gone : gone = done \union expired
  OBVIOUS
<1>6. cur.acked \subseteq done /\ done \subseteq gone
  BY <1>5 DEF KeptInv, StoreRetired
<1>7. log \subseteq rows \union gone /\ \A s \in log : s <= cur.settled => s \in gone
  BY <1>5 DEF KeptInv, RowsKept
<1>8. rows \in SUBSET log
  BY <1>1 DEF TypeInv, MailTypes
<1>9. StoreKeeps(done, gone)
  BY <1>1, <1>3, <1>4, <1>6, <1>7, <1>8, CheckpointKeeps
<1>10. Counters'
  BY <1>1, <1>2, <1>3, CheckpointCounters DEF KeptInv
<1>11. (Records(mem) \subseteq done)' /\ StoreRetired'
  BY <1>2, <1>9 DEF KeptInv, Records, StoreRetired, StoreKeeps
<1>12. LeaseRetired'
  BY <1>2 DEF LeaseRetired, Busy, Idle
<1>13. SweepKept'
  BY <1>2, SweepKeptStable DEF KeptInv
<1>14. RowsKept'
  BY <1>2, <1>5, <1>9 DEF KeptInv, RowsKept, StoreKeeps
<1> QED BY <1>1, <1>10, <1>11, <1>12, <1>13, <1>14 DEF KeptInv

LEMMA KeptCommitFails ==
    ASSUME KeptInv, CommitFails
    PROVE  KeptInv'
<1>1. TypeInv'
  BY TypeCommitFails DEF KeptInv
<1>2. /\ UNCHANGED <<mem, inflight, rows, log, cur, durIssued, expired, sweep, done>>
      /\ lease' = Idle
  BY DEF CommitFails
<1>3. LeaseRetired'
  BY <1>2 DEF LeaseRetired, Busy, Idle
<1>4. SweepKept'
  BY <1>2, SweepKeptStable DEF KeptInv
<1>5. Counters' /\ (Records(mem) \subseteq done)' /\ StoreRetired' /\ RowsKept'
  BY <1>2 DEF KeptInv, Counters, Records, StoreRetired, RowsKept
<1> QED BY <1>1, <1>3, <1>4, <1>5 DEF KeptInv

LEMMA KeptElapse ==
    ASSUME KeptInv, NEW s \in Seqs, Elapse(s)
    PROVE  KeptInv'
<1>1. TypeInv'
  BY TypeElapse DEF KeptInv
<1>2. /\ UNCHANGED <<mem, inflight, rows, log, cur, durIssued, lease, sweep, done>>
      /\ expired' = expired \union {s}
  BY DEF Elapse
<1>3. LeaseRetired' /\ SweepKept'
  BY <1>2, LeaseRetiredStable, SweepKeptStable DEF KeptInv
<1>4. Counters' /\ (Records(mem) \subseteq done)' /\ StoreRetired' /\ RowsKept'
  BY <1>2 DEF KeptInv, Counters, Records, StoreRetired, RowsKept
<1> QED BY <1>1, <1>3, <1>4 DEF KeptInv

LEMMA KeptSweepExpire ==
    ASSUME KeptInv, NEW w \in Sweepers, SweepExpire(w)
    PROVE  KeptInv'
<1>1. TypeInv /\ TypeInv'
  BY TypeSweepExpire DEF KeptInv
<1>2. UNCHANGED <<inflight, rows, log, cur, durIssued, expired, lease, done>>
  BY DEF SweepExpire
<1>3. /\ mem'.issued = mem.issued /\ mem'.pending = mem.pending \ expired
      /\ mem'.last = mem.last /\ mem'.retired = mem.retired /\ mem'.acked \subseteq mem.acked
  BY <1>1, SweepExpireFacts
<1>4. PICK x : x = [phase |-> "expired", horizon |-> expired]
  OBVIOUS
<1>5. sweep' = [sweep EXCEPT ![w] = x] /\ x.phase = "expired" /\ x.horizon = expired
  BY <1>4 DEF SweepExpire
<1>6. SweepKept'
  <2>1. SweepKept /\ SweepTypes /\ x.phase # "taken" /\ x.horizon \subseteq expired'
    BY <1>1, <1>2, <1>5 DEF KeptInv, TypeInv
  <2> QED BY <1>2, <1>5, <2>1, SweepKeptStep
<1>7. LeaseRetired'
  BY <1>2, LeaseRetiredStable DEF KeptInv
<1>8. Counters' /\ StoreRetired'
  BY <1>2, <1>3 DEF KeptInv, Counters, StoreRetired
<1>9. (Records(mem) \subseteq done)'
  BY <1>2, <1>3 DEF KeptInv, Records
<1>10. RowsKept'
  BY <1>2, <1>3 DEF KeptInv, RowsKept
<1> QED BY <1>1, <1>6, <1>7, <1>8, <1>9, <1>10 DEF KeptInv

LEMMA KeptSweepTake ==
    ASSUME KeptInv, NEW w \in Sweepers, SweepTake(w)
    PROVE  KeptInv'
<1>1. TypeInv /\ TypeInv'
  BY TypeSweepTake DEF KeptInv
<1>2. UNCHANGED <<inflight, rows, log, cur, durIssued, expired, lease, done>>
  BY DEF SweepTake
<1>3. /\ mem'.issued = mem.issued /\ mem'.pending = mem.pending
      /\ mem'.last = mem.last /\ mem'.retired = mem.retired /\ mem'.acked \subseteq mem.acked
      /\ sweep[w].phase = "expired"
  BY <1>1, SweepTakeFacts
<1>4. PICK x : /\ sweep' = [sweep EXCEPT ![w] = x] /\ x.horizon = sweep[w].horizon
               /\ \/ x \in PlainSweep
                  \/ x \in TakenSweep /\ x.cursor = mem'
  BY <1>1, SweepTakeFacts
<1>5. Records(mem') \subseteq done'
  BY <1>2, <1>3 DEF KeptInv, Records
<1>6. SweepKept'
  <2>1. SweepKept /\ SweepTypes /\ sweep[w].horizon \subseteq expired
    BY <1>1, <1>3 DEF KeptInv, TypeInv, SweepKept
  <2>2. x.phase = "taken" => Records(x.cursor) \subseteq done'
    <3>1. CASE x \in PlainSweep
      BY <3>1 DEF PlainSweep
    <3>2. CASE x \in TakenSweep /\ x.cursor = mem'
      BY <1>5, <3>2
    <3> QED BY <1>4, <3>1, <3>2
  <2>3. x.horizon \subseteq expired'
    BY <1>2, <1>4, <2>1
  <2> QED BY <1>2, <1>4, <2>1, <2>2, <2>3, SweepKeptStep
<1>7. LeaseRetired'
  BY <1>2, LeaseRetiredStable DEF KeptInv
<1>8. Counters' /\ StoreRetired'
  BY <1>2, <1>3 DEF KeptInv, Counters, StoreRetired
<1>9. (Records(mem) \subseteq done)'
  BY <1>5 DEF Records
<1>10. RowsKept'
  BY <1>2, <1>3 DEF KeptInv, RowsKept
<1> QED BY <1>1, <1>6, <1>7, <1>8, <1>9, <1>10 DEF KeptInv

LEMMA KeptSweepSave ==
    ASSUME KeptInv, NEW w \in Sweepers, SweepSave(w)
    PROVE  KeptInv'
<1>1. TypeInv /\ TypeInv'
  BY TypeSweepSave DEF KeptInv
<1>2. UNCHANGED <<mem, inflight, log, expired, lease, done>>
  BY DEF SweepSave
<1>3. PICK c \in MailboxType : c = sweep[w].cursor
  BY <1>1, SweepSaveFacts
<1>4. Checkpointed(c, rows, rows, RetentionKeys(c), Published) /\ Taken(w)
  BY <1>1, <1>3, SweepSaveCheckpoint, SweepSaveFacts
<1>5. Records(c) \subseteq done
  BY <1>3, <1>4 DEF KeptInv, SweepKept
<1>6. cur.acked \subseteq done
  BY DEF KeptInv, StoreRetired
<1>7. RetentionKeys(c) \subseteq done \union {0}
  BY <1>5, <1>6 DEF RetentionKeys, Records
<1>8. PICK gone : gone = done \union expired
  OBVIOUS
<1>9. done \subseteq gone /\ log \subseteq rows \union gone
  BY <1>8 DEF KeptInv, RowsKept
<1>10. \A s \in log : s <= cur.settled => s \in gone
  BY <1>8 DEF KeptInv, RowsKept
<1>11. rows \in SUBSET log
  BY <1>1 DEF TypeInv, MailTypes
<1>12. StoreKeeps(done, gone)
  BY <1>1, <1>4, <1>5, <1>6, <1>7, <1>9, <1>10, <1>11, CheckpointKeeps
<1>13. Counters'
  BY <1>1, <1>2, <1>4, CheckpointCounters DEF KeptInv
<1>14. (Records(mem) \subseteq done)' /\ StoreRetired'
  BY <1>2, <1>12 DEF KeptInv, Records, StoreRetired, StoreKeeps
<1>15. LeaseRetired'
  BY <1>2, LeaseRetiredStable DEF KeptInv
<1>16. SweepKept'
  <2>1. PICK x \in PlainSweep : sweep' = [sweep EXCEPT ![w] = x] /\ x.horizon = sweep[w].horizon
    BY <1>1, SweepSaveFacts
  <2>2. SweepKept /\ SweepTypes /\ sweep[w].horizon \subseteq expired
    BY <1>1, <1>4 DEF KeptInv, TypeInv, SweepKept, Taken
  <2>3. x.phase # "taken" /\ x.horizon \subseteq expired'
    BY <1>2, <2>1, <2>2 DEF PlainSweep
  <2> QED BY <1>2, <2>1, <2>2, <2>3, SweepKeptStep
<1>17. RowsKept'
  BY <1>2, <1>8, <1>12 DEF KeptInv, RowsKept, StoreKeeps
<1> QED BY <1>1, <1>13, <1>14, <1>15, <1>16, <1>17 DEF KeptInv

LEMMA KeptSweepPurge ==
    ASSUME KeptInv, NEW w \in Sweepers, SweepPurge(w)
    PROVE  KeptInv'
<1>1. TypeInv /\ TypeInv'
  BY TypeSweepPurge DEF KeptInv
<1>2. UNCHANGED <<mem, inflight, log, expired, lease, done>>
  BY DEF SweepPurge
<1>3. sweep' = [sweep EXCEPT ![w] = Idle] /\ sweep[w].phase = "saved"
  BY DEF SweepPurge
<1>4. PICK gone : gone = done \union expired
  OBVIOUS
<1>5. Counters' /\ StoreKeeps(done, gone)
  <2>1. CASE UNCHANGED <<cur, rows, durIssued>>
    <3>1. Counters'
      BY <1>2, <2>1 DEF KeptInv, Counters
    <3>2. StoreKeeps(done, gone)
      BY <1>4, <2>1 DEF KeptInv, StoreRetired, RowsKept, StoreKeeps
    <3> QED BY <3>1, <3>2
  <2>2. CASE ~UNCHANGED <<cur, rows, durIssued>>
    <3>1. PICK c \in MailboxType, live \in SUBSET log :
             /\ c.acked = cur.acked /\ c.last = cur.last /\ c.retired = {}
             /\ live = rows \ sweep[w].horizon
             /\ Checkpointed(c, live, live, RetentionKeys(c), Published)
      BY <1>1, <2>2, SweepPurgeCheckpoint
    <3>2. cur.acked \subseteq done /\ cur.last \in done \union {0}
      BY DEF KeptInv, StoreRetired
    <3>3. Records(c) \subseteq done
      BY <3>1, <3>2 DEF Records
    <3>4. RetentionKeys(c) \subseteq done \union {0}
      BY <3>1, <3>2 DEF RetentionKeys
    <3>5. done \subseteq gone /\ \A s \in log : s <= cur.settled => s \in gone
      BY <1>4 DEF KeptInv, RowsKept
    <3>6. log \subseteq live \union gone
      <4>1. sweep[w].horizon \subseteq expired
        BY <1>3 DEF KeptInv, SweepKept
      <4> QED BY <1>4, <3>1, <4>1 DEF KeptInv, RowsKept
    <3>7. StoreKeeps(done, gone)
      BY <1>1, <3>1, <3>2, <3>3, <3>4, <3>5, <3>6, CheckpointKeeps
    <3>8. Counters'
      BY <1>1, <1>2, <3>1, CheckpointCounters DEF KeptInv
    <3> QED BY <3>7, <3>8
  <2> QED BY <2>1, <2>2
<1>6. (Records(mem) \subseteq done)' /\ StoreRetired'
  BY <1>2, <1>5 DEF KeptInv, Records, StoreRetired, StoreKeeps
<1>7. LeaseRetired'
  BY <1>2, LeaseRetiredStable DEF KeptInv
<1>8. SweepKept'
  <2>1. SweepKept /\ SweepTypes
    BY <1>1 DEF KeptInv, TypeInv
  <2>2. Idle.phase # "taken" /\ Idle.phase = "idle"
    BY DEF Idle
  <2> QED BY <1>2, <1>3, <2>1, <2>2, SweepKeptStep
<1>9. RowsKept'
  BY <1>2, <1>4, <1>5 DEF KeptInv, RowsKept, StoreKeeps
<1> QED BY <1>1, <1>5, <1>6, <1>7, <1>8, <1>9 DEF KeptInv

\* Recovery writes no counter, and no prefix beyond the durable counter.
LEMMA CrashDurable ==
    ASSUME TypeInv, Crash, Counters
    PROVE  durIssued' = durIssued /\ cur'.settled <= durIssued /\ cur'.settled \in Nat
<1>1. cur.settled \in Nat /\ cur.settled <= durIssued /\ durIssued \in Nat
  BY DEF TypeInv, MailTypes, CursorType, Counters
<1>2. CASE UNCHANGED <<cur, rows, durIssued>>
  BY <1>1, <1>2
<1>3. CASE Checkpointed(mem', Restored, Recovered, RetentionKeys(mem'), durIssued)
  <2>1. /\ cur' \in CursorType
        /\ cur'.settled = cur.settled \/ cur'.settled <= durIssued
        /\ durIssued' = durIssued \/ durIssued' = mem'.issued
    BY <1>3 DEF Checkpointed
  <2>2. mem'.issued = durIssued
    BY CrashFacts
  <2>3. cur'.settled \in Nat
    BY <2>1 DEF CursorType
  <2> QED BY <1>1, <2>1, <2>2, <2>3
<1> QED BY <1>2, <1>3, CrashCheckpoint

LEMMA KeptCrash ==
    ASSUME KeptInv, Crash
    PROVE  KeptInv'
<1>1. TypeInv /\ TypeInv'
  BY TypeCrash DEF KeptInv
<1>2. UNCHANGED <<log, expired, done>>
  BY DEF Crash
<1>3. /\ Recovered \in SUBSET log /\ Restored \in SUBSET Recovered
      /\ mem' \in MailboxType /\ mem'.issued = durIssued /\ mem'.pending = Restored
      /\ mem'.last = cur.last /\ mem'.retired = {}
      /\ mem'.acked = Above(cur.acked, mem'.settled)
      /\ lease' = Idle /\ sweep' = [w \in Sweepers |-> Idle] /\ inflight' = {}
  BY <1>1, CrashFacts
<1>4. durIssued' = durIssued /\ cur'.settled <= durIssued /\ cur'.settled \in Nat
  BY <1>1, CrashDurable DEF KeptInv
<1>5. cur.acked \subseteq done /\ cur.last \in done \union {0} /\ mem'.acked \subseteq cur.acked
  BY <1>3 DEF KeptInv, StoreRetired, Above
<1>6. Records(mem') \subseteq done
  BY <1>3, <1>5 DEF Records
<1>7. log \subseteq Seqs /\ cur.settled \in Nat
  BY <1>1 DEF TypeInv, MailTypes, CursorType
<1>8. PICK gone : gone = done \union expired
  OBVIOUS
<1>9. log \subseteq Restored \union gone
  <2>1. ASSUME NEW s \in log, s \notin gone PROVE s \in Restored
    <3>1. s \in rows /\ ~(s <= cur.settled) /\ s \notin cur.acked /\ s \notin expired
      BY <1>5, <1>8, <2>1 DEF KeptInv, RowsKept
    <3>2. s > cur.settled
      BY <1>7, <3>1 DEF Seqs
    <3> QED BY <3>1, <3>2 DEF Restored, Recovered, Above
  <2> QED BY <2>1
<1>10. StoreKeeps(done, gone)
  <2>1. CASE UNCHANGED <<cur, rows, durIssued>>
    BY <1>8, <2>1 DEF KeptInv, StoreRetired, RowsKept, StoreKeeps
  <2>2. CASE Checkpointed(mem', Restored, Recovered, RetentionKeys(mem'), durIssued)
    <3>1. PICK c \in MailboxType, visible, base \in SUBSET log :
             c = mem' /\ visible = Restored /\ base = Recovered
      BY <1>3
    <3>2. RetentionKeys(c) \subseteq done \union {0}
      BY <1>3, <1>5, <3>1 DEF RetentionKeys
    <3>3. done \subseteq gone /\ \A s \in log : s <= cur.settled => s \in gone
      BY <1>8 DEF KeptInv, RowsKept
    <3>4. log \subseteq visible \union gone /\ log \subseteq base \union gone
      BY <1>3, <1>9, <3>1
    <3>5. Checkpointed(c, visible, base, RetentionKeys(c), durIssued) /\ Records(c) \subseteq done
      BY <1>6, <2>2, <3>1
    <3> QED BY <1>1, <1>5, <3>2, <3>3, <3>4, <3>5, CheckpointKeeps
  <2> QED BY <1>1, <2>1, <2>2, CrashCheckpoint
<1>11. Counters'
  <2>1. \A s \in 1..mem'.issued : s <= durIssued
    BY <1>3, <1>4 DEF TypeInv, MailTypes
  <2>2. log \subseteq 1..durIssued
    BY DEF KeptInv, Counters
  <2> QED BY <1>2, <1>3, <1>4, <2>1, <2>2 DEF Counters
<1>12. (Records(mem) \subseteq done)' /\ StoreRetired'
  <2>1. Records(mem') \subseteq done'
    BY <1>2, <1>6
  <2> QED BY <1>2, <1>10, <2>1 DEF Records, StoreRetired, StoreKeeps
<1>13. LeaseRetired'
  BY <1>3 DEF LeaseRetired, Busy, Idle
<1>14. SweepKept'
  BY <1>3 DEF SweepKept, Taken, Idle
<1>15. RowsKept'
  BY <1>2, <1>3, <1>8, <1>9, <1>10 DEF RowsKept, StoreKeeps
<1> QED BY <1>1, <1>11, <1>12, <1>13, <1>14, <1>15 DEF KeptInv

LEMMA KeptStutter ==
    ASSUME KeptInv, UNCHANGED vars
    PROVE  KeptInv'
<1>1. TypeInv'
  BY TypeStutter DEF KeptInv
<1>2. UNCHANGED <<mem, inflight, rows, log, cur, durIssued, expired, lease, sweep, done>>
  BY DEF vars
<1>3. LeaseRetired' /\ SweepKept'
  BY <1>2, LeaseRetiredStable, SweepKeptStable DEF KeptInv
<1>4. Counters' /\ (Records(mem) \subseteq done)' /\ StoreRetired' /\ RowsKept'
  BY <1>2 DEF KeptInv, Counters, Records, StoreRetired, RowsKept
<1> QED BY <1>1, <1>3, <1>4 DEF KeptInv

LEMMA KeptStep ==
    ASSUME KeptInv, [Next]_vars
    PROVE  KeptInv'
<1>1. CASE UNCHANGED vars
  BY <1>1, KeptStutter
<1>2. CASE AppendEntry
  BY <1>2, KeptAppend
<1>3. ASSUME NEW s \in Seqs, Store(s) \/ AbortEntry(s) \/ NackApply(s) \/ Elapse(s)
      PROVE  KeptInv'
  BY <1>3, KeptStore, KeptAbort, KeptNackApply, KeptElapse
<1>4. ASSUME NEW S \in AckInputs, AckBegin(S)
      PROVE  KeptInv'
  BY <1>4, KeptAckBegin
<1>5. CASE AckCommit \/ AckPublish \/ NackCommit \/ CommitFails
  BY <1>5, KeptAckCommit, KeptAckPublish, KeptNackCommit, KeptCommitFails
<1>6. ASSUME NEW w \in Sweepers, Sweep(w)
      PROVE  KeptInv'
  BY <1>6, KeptSweepExpire, KeptSweepTake, KeptSweepSave, KeptSweepPurge DEF Sweep
<1>7. CASE Crash
  BY <1>7, KeptCrash
<1> QED BY <1>1, <1>2, <1>3, <1>4, <1>5, <1>6, <1>7 DEF Next

LEMMA KeptInvHolds == Spec => []KeptInv
<1>1. Init => KeptInv
  BY KeptInit
<1>2. KeptInv /\ [Next]_vars => KeptInv'
  BY KeptStep
<1> QED BY <1>1, <1>2, PTL DEF Spec

\* A stored delivery stays readable until the store retired it or its deadline
\* passed, through candidates that are committed late, refused commits, sweeps
\* that race them and restarts, with the rows in redb or in the submission log.
THEOREM DeliveriesKept == Spec => []NothingLost
<1>1. KeptInv => NothingLost
  BY DEF KeptInv, RowsKept, NothingLost
<1> QED BY <1>1, KeptInvHolds, PTL

-----------------------------------------------------------------------------
(***************************************************************************)
(* Sequences in the past and prefixes that can be settled.                 *)
(***************************************************************************)
\* Every sequence of S is durably issued, and none is in flight.
Past(S) == S \subseteq 1..durIssued /\ S \intersect inflight = {}

\* A prefix that ends at x lies below everything in flight.
Below(x) == x <= mem.issued /\ \A s \in inflight : x < s

\* A step issues at most the next sequence, and forgets no counter but in a
\* restart.
LEMMA Progress ==
    ASSUME KeptInv, [Next]_vars
    PROVE  /\ durIssued \in Nat /\ durIssued' \in Nat /\ durIssued <= durIssued'
           /\ mem.issued \in Nat /\ mem'.issued \in Nat
           /\ \A s \in inflight' : s \in inflight \/ s = mem.issued + 1
           /\ mem.issued <= mem'.issued \/ Crash
<1>1. TypeInv /\ TypeInv' /\ Counters
  BY TypeInvStep DEF KeptInv
<1>2. durIssued \in Nat /\ durIssued' \in Nat /\ mem.issued \in Nat /\ mem'.issued \in Nat
  BY <1>1 DEF TypeInv, MailTypes, MailboxType
<1>3. ASSUME NEW c, NEW visible, NEW base, NEW byKey, NEW p,
             Checkpointed(c, visible, base, byKey, p)
      PROVE  durIssued <= durIssued'
  BY <1>3 DEF Checkpointed
<1>4. CASE UNCHANGED vars
  BY <1>2, <1>4 DEF vars
<1>5. CASE AppendEntry
  <2>1. PICK s \in Seqs : /\ s = mem.issued + 1 /\ mem'.issued = s
                          /\ inflight' = inflight \union {s}
    BY <1>1, <1>5, AppendEntryFacts
  <2>2. durIssued' = durIssued
    BY <1>5 DEF AppendEntry
  <2> QED BY <1>2, <2>1, <2>2
<1>6. ASSUME NEW s \in Seqs, Store(s) \/ AbortEntry(s)
      PROVE  /\ durIssued <= durIssued' /\ mem'.issued = mem.issued
             /\ inflight' \subseteq inflight
  <2>1. s \in inflight /\ durIssued' = Max({durIssued, s}) /\ inflight' = inflight \ {s}
    BY <1>6 DEF Store, AbortEntry
  <2>2. durIssued <= durIssued'
    BY <1>1, <2>1, StoredCount DEF TypeInv
  <2>3. mem'.issued = mem.issued
    BY <1>1, <1>6, AbortEntryFacts DEF Store
  <2> QED BY <2>1, <2>2, <2>3
<1>7. ASSUME NEW s \in Seqs, NackApply(s)
      PROVE  durIssued' = durIssued /\ mem'.issued = mem.issued /\ inflight' = inflight
  <2>1. Settles(mem, mem', mem'.retired, Published)
    BY <1>1, <1>7, NackApplyFacts
  <2> QED BY <1>7, <2>1 DEF NackApply, Settles
<1>8. ASSUME NEW s \in Seqs, Elapse(s)
      PROVE  durIssued' = durIssued /\ mem'.issued = mem.issued /\ inflight' = inflight
  BY <1>8 DEF Elapse
<1>9. ASSUME NEW S \in AckInputs, AckBegin(S)
      PROVE  durIssued' = durIssued /\ mem'.issued = mem.issued /\ inflight' = inflight
  BY <1>9 DEF AckBegin
<1>10. CASE AckCommit
  <2>1. durIssued <= durIssued'
    BY <1>1, <1>3, <1>10, AckCommitCheckpoint
  <2>2. mem' = mem /\ inflight' = inflight
    BY <1>10 DEF AckCommit
  <2> QED BY <1>2, <2>1, <2>2
<1>11. CASE AckPublish
  <2>1. mem'.issued = mem.issued
    BY <1>1, <1>11, AckPublishFacts
  <2>2. durIssued' = durIssued /\ inflight' = inflight
    BY <1>11 DEF AckPublish
  <2> QED BY <1>2, <2>1, <2>2
<1>12. CASE NackCommit
  <2>1. durIssued <= durIssued'
    BY <1>1, <1>3, <1>12, NackCommitCheckpoint
  <2>2. mem' = mem /\ inflight' = inflight
    BY <1>12 DEF NackCommit
  <2> QED BY <1>2, <2>1, <2>2
<1>13. CASE CommitFails
  BY <1>2, <1>13 DEF CommitFails
<1>14. ASSUME NEW w \in Sweepers, Sweep(w)
       PROVE  durIssued <= durIssued' /\ mem'.issued = mem.issued /\ inflight' = inflight
  <2>1. CASE SweepExpire(w)
    <3>1. durIssued' = durIssued /\ inflight' = inflight
      BY <2>1 DEF SweepExpire
    <3> QED BY <1>1, <1>2, <2>1, <3>1, SweepExpireFacts
  <2>2. CASE SweepTake(w)
    <3>1. durIssued' = durIssued /\ inflight' = inflight
      BY <2>2 DEF SweepTake
    <3> QED BY <1>1, <1>2, <2>2, <3>1, SweepTakeFacts
  <2>3. CASE SweepSave(w)
    <3>1. mem' = mem /\ inflight' = inflight
      BY <2>3 DEF SweepSave
    <3> QED BY <1>1, <1>3, <2>3, <3>1, SweepSaveCheckpoint
  <2>4. CASE SweepPurge(w)
    <3>1. mem' = mem /\ inflight' = inflight
      BY <2>4 DEF SweepPurge
    <3>2. CASE UNCHANGED <<cur, rows, durIssued>>
      BY <1>2, <3>1, <3>2
    <3>3. CASE ~UNCHANGED <<cur, rows, durIssued>>
      BY <1>1, <1>3, <2>4, <3>1, <3>3, SweepPurgeCheckpoint
    <3> QED BY <3>2, <3>3
  <2> QED BY <1>14, <2>1, <2>2, <2>3, <2>4 DEF Sweep
<1>15. CASE Crash
  <2>1. durIssued' = durIssued /\ inflight' = {}
    BY <1>1, <1>15, CrashDurable, CrashFacts
  <2> QED BY <1>2, <1>15, <2>1
<1>16. CASE \/ \E s \in Seqs : Store(s) \/ AbortEntry(s) \/ NackApply(s) \/ Elapse(s)
            \/ \E S \in AckInputs : AckBegin(S)
            \/ \E w \in Sweepers : Sweep(w)
  <2>1. durIssued <= durIssued' /\ mem'.issued = mem.issued /\ inflight' \subseteq inflight
    BY <1>2, <1>6, <1>7, <1>8, <1>9, <1>14, <1>16
  <2> QED BY <1>2, <2>1
<1> QED BY <1>4, <1>5, <1>10, <1>11, <1>12, <1>13, <1>15, <1>16 DEF Next

LEMMA PastStable ==
    ASSUME KeptInv, [Next]_vars, NEW S, Past(S)
    PROVE  S \subseteq 1..durIssued' /\ S \intersect inflight' = {}
<1>1. /\ durIssued \in Nat /\ durIssued' \in Nat /\ durIssued <= durIssued'
      /\ mem.issued \in Nat
      /\ \A s \in inflight' : s \in inflight \/ s = mem.issued + 1
  BY Progress
<1>2. durIssued <= mem.issued
  BY <1>1 DEF KeptInv, TypeInv, MailTypes
<1>3. ASSUME NEW s \in S PROVE s \in 1..durIssued' /\ s \notin inflight'
  <2>1. s \in 1..durIssued /\ s \notin inflight
    BY DEF Past
  <2>2. s \in 1..durIssued' /\ s # mem.issued + 1
    BY <1>1, <1>2, <2>1
  <2> QED BY <1>1, <2>1, <2>2
<1> QED BY <1>3

LEMMA BelowStable ==
    ASSUME KeptInv, [Next]_vars, ~Crash, NEW x \in Nat, Below(x)
    PROVE  x <= mem'.issued /\ \A s \in inflight' : x < s
<1>1. /\ mem.issued \in Nat /\ mem'.issued \in Nat /\ mem.issued <= mem'.issued
      /\ \A s \in inflight' : s \in inflight \/ s = mem.issued + 1
  BY Progress
<1>2. x <= mem.issued /\ \A s \in inflight : x < s
  BY DEF Below
<1> QED BY <1>1, <1>2

LEMMA PublishedBelow ==
    ASSUME TypeInv, NEW x \in Nat, x <= Published
    PROVE  Below(x)
<1>1. /\ Published \in Nat /\ Published <= mem.issued /\ mem.issued \in Nat
      /\ \A s \in inflight : s > Published
  BY PublishedFacts DEF TypeInv
<1>2. inflight \subseteq Nat
  BY <1>1 DEF TypeInv, MailTypes
<1> QED BY <1>1, <1>2 DEF Below

LEMMA BelowPublished ==
    ASSUME TypeInv, NEW x \in Nat, Below(x)
    PROVE  x <= Published
<1>1. mem.issued \in Nat /\ x \in 0..mem.issued /\ inflight \subseteq Nat
  BY DEF TypeInv, MailTypes, MailboxType, Below
<1>2. \A s \in inflight : s > x
  BY <1>1 DEF Below
<1> QED BY <1>1, <1>2, PublishedFacts DEF TypeInv

-----------------------------------------------------------------------------
(***************************************************************************)
(* The shard's settled prefix stays behind its rows.                       *)
(***************************************************************************)
Ahead ==
    /\ Below(mem.settled)
    /\ lease.phase # "idle" => Below(lease.cand.settled)
    /\ \A s \in mem.pending : s > mem.settled
    /\ Busy => \A s \in mem.pending : \/ s \in lease.acks \union lease.cand.retired
                                      \/ s > lease.cand.settled

LEMMA AheadInit ==
    ASSUME Init
    PROVE  Ahead
<1>1. /\ mem.settled = 0 /\ mem.issued = 0 /\ mem.pending = {} /\ inflight = {}
      /\ lease = Idle
  BY DEF Init
<1> QED BY <1>1 DEF Ahead, Below, Busy, Idle

\* A step that leaves the lease alone.
LEMMA AheadFrame ==
    ASSUME KeptInv, KeptInv', [Next]_vars, ~Crash, Ahead, lease' = lease,
           mem'.settled = mem.settled \/ mem'.settled <= Published,
           \A s \in mem'.pending : s \in mem.pending \/ s = mem.issued + 1,
           \A s \in mem'.pending : s > mem'.settled
    PROVE  Ahead'
<1>1. mem.settled \in Nat /\ mem'.settled \in Nat /\ mem.issued \in Nat
  BY DEF KeptInv, TypeInv, MailTypes, MailboxType
<1>2. PICK x \in Nat : x = mem'.settled
  BY <1>1
<1>3. Below(x)
  <2>1. CASE mem'.settled = mem.settled
    BY <1>2, <2>1 DEF Ahead
  <2>2. CASE mem'.settled <= Published
    BY <1>2, <2>2, PublishedBelow DEF KeptInv
  <2> QED BY <2>1, <2>2
<1>4. Below(mem.settled)'
  <2>1. x <= mem'.issued /\ \A s \in inflight' : x < s
    BY <1>3, BelowStable
  <2> QED BY <1>2, <2>1 DEF Below
<1>5. (lease.phase # "idle" => Below(lease.cand.settled))'
  <2> SUFFICES ASSUME lease.phase # "idle" PROVE Below(lease.cand.settled)'
    BY DEF Below
  <2>1. lease.cand.settled \in Nat
    BY LeaseCases DEF KeptInv, TypeInv, MailboxType, Busy
  <2>2. PICK y \in Nat : y = lease.cand.settled
    BY <2>1
  <2>3. Below(y)
    BY <2>2 DEF Ahead
  <2>4. y <= mem'.issued /\ \A s \in inflight' : y < s
    BY <2>3, BelowStable
  <2> QED BY <2>2, <2>4 DEF Below
<1>6. ASSUME Busy, NEW s \in mem'.pending
      PROVE  s \in lease.acks \union lease.cand.retired \/ s > lease.cand.settled
  <2>1. CASE s \in mem.pending
    BY <1>6, <2>1 DEF Ahead
  <2>2. CASE s = mem.issued + 1
    <3>1. lease.cand.settled \in Nat
      BY <1>6, LeaseCases DEF KeptInv, TypeInv, MailboxType
    <3>2. lease.cand.settled <= mem.issued
      BY <1>6 DEF Ahead, Below, Busy
    <3> QED BY <1>1, <2>2, <3>1, <3>2
  <2> QED BY <2>1, <2>2
<1> QED BY <1>4, <1>5, <1>6 DEF Ahead, Busy

LEMMA AheadAckBegin ==
    ASSUME KeptInv, Ahead, NEW S \in AckInputs, AckBegin(S)
    PROVE  Ahead'
<1>1. mem' = mem /\ inflight' = inflight
  BY DEF AckBegin
<1>2. /\ lease'.phase = "ack" /\ lease' \in AckLease
      /\ Settles(mem, lease'.cand, lease'.acks \union lease'.cand.retired, Published)
  BY AckBeginFacts DEF KeptInv
<1>3. PICK c \in MailboxType : c = lease'.cand
  BY <1>2 DEF Settles
<1>4. /\ c.settled = mem.settled \/ c.settled <= Published
      /\ mem.pending \subseteq c.pending \union (lease'.acks \union c.retired)
      /\ \A s \in c.pending : s > c.settled
  BY <1>2, <1>3 DEF Settles, Ahead
<1>5. PICK x \in Nat : x = c.settled
  BY DEF MailboxType
<1>6. Below(x)
  <2>1. CASE c.settled = mem.settled
    BY <1>5, <2>1 DEF Ahead
  <2>2. CASE c.settled <= Published
    BY <1>5, <2>2, PublishedBelow DEF KeptInv
  <2> QED BY <1>4, <2>1, <2>2
<1>7. Below(lease.cand.settled)'
  BY <1>1, <1>3, <1>5, <1>6 DEF Below
<1>8. Below(mem.settled)'
  BY <1>1 DEF Ahead, Below
<1>9. \A s \in mem'.pending : \/ s \in lease'.acks \union lease'.cand.retired
                              \/ s > lease'.cand.settled
  BY <1>1, <1>3, <1>4
<1> QED BY <1>1, <1>7, <1>8, <1>9 DEF Ahead, Busy

LEMMA AheadAckCommit ==
    ASSUME KeptInv, Ahead, AckCommit
    PROVE  Ahead'
<1>1. mem' = mem /\ inflight' = inflight
  BY DEF AckCommit
<1>2. /\ lease.phase = "ack" /\ lease'.phase = "committed" /\ lease'.cand = lease.cand
      /\ lease'.acks = lease.acks
  BY AckCommitFacts DEF KeptInv
<1>3. Below(mem.settled)' /\ Below(lease.cand.settled)'
  BY <1>1, <1>2 DEF Ahead, Below
<1> QED BY <1>1, <1>2, <1>3 DEF Ahead, Busy

LEMMA AheadAckPublish ==
    ASSUME KeptInv, Ahead, AckPublish
    PROVE  Ahead'
<1>1. TypeInv /\ inflight' = inflight
  BY DEF AckPublish, KeptInv
<1>2. /\ lease.phase = "committed" /\ lease' = Idle /\ mem'.issued = mem.issued
      /\ mem' \in MailboxType
      /\ \/ mem'.settled = mem.settled \/ mem'.settled = lease.cand.settled
         \/ mem'.settled <= Published
  BY <1>1, AckPublishFacts
<1>3. /\ \A s \in mem.pending : s > mem.settled
      /\ \A s \in mem.pending : s \in lease.acks \union lease.cand.retired
                                   \/ s > lease.cand.settled
  BY <1>2 DEF Ahead, Busy
<1>4. \A s \in mem'.pending : s > mem'.settled
  BY <1>1, <1>3, AckPublishFacts
<1>5. PICK x \in Nat : x = mem'.settled
  BY <1>2 DEF MailboxType
<1>6. Below(x)
  <2>1. CASE mem'.settled = mem.settled
    BY <1>5, <2>1 DEF Ahead
  <2>2. CASE mem'.settled = lease.cand.settled
    BY <1>2, <1>5, <2>2 DEF Ahead
  <2>3. CASE mem'.settled <= Published
    BY <1>1, <1>5, <2>3, PublishedBelow
  <2> QED BY <1>2, <2>1, <2>2, <2>3
<1>7. Below(mem.settled)'
  BY <1>1, <1>2, <1>5, <1>6 DEF Below
<1>8. lease'.phase = "idle"
  BY <1>2 DEF Idle
<1> QED BY <1>4, <1>7, <1>8 DEF Ahead, Busy

LEMMA AheadNackApply ==
    ASSUME KeptInv, Ahead, NEW s \in Seqs, NackApply(s)
    PROVE  Ahead'
<1>1. inflight' = inflight
  BY DEF NackApply
<1>2. /\ lease'.phase = "nack" /\ lease'.cand = mem' /\ mem' \in MailboxType
      /\ Settles(mem, mem', mem'.retired, Published)
  BY NackApplyFacts DEF KeptInv
<1>3. /\ mem'.settled = mem.settled \/ mem'.settled <= Published
      /\ \A x \in mem'.pending : x > mem'.settled
      /\ mem'.issued = mem.issued
  BY <1>2 DEF Settles, Ahead
<1>4. PICK x \in Nat : x = mem'.settled
  BY <1>2 DEF MailboxType
<1>5. Below(x)
  <2>1. CASE mem'.settled = mem.settled
    BY <1>4, <2>1 DEF Ahead
  <2>2. CASE mem'.settled <= Published
    BY <1>4, <2>2, PublishedBelow DEF KeptInv
  <2> QED BY <1>3, <2>1, <2>2
<1>6. Below(mem.settled)' /\ Below(lease.cand.settled)'
  BY <1>1, <1>2, <1>3, <1>4, <1>5 DEF Below
<1> QED BY <1>2, <1>3, <1>6 DEF Ahead, Busy

LEMMA AheadRelease ==
    ASSUME Ahead, NackCommit \/ CommitFails
    PROVE  Ahead'
<1>1. mem' = mem /\ inflight' = inflight /\ lease' = Idle
  BY DEF NackCommit, CommitFails
<1>2. Below(mem.settled)'
  BY <1>1 DEF Ahead, Below
<1> QED BY <1>1, <1>2 DEF Ahead, Busy, Idle

LEMMA AheadCrash ==
    ASSUME KeptInv, Crash, \A s \in Restored : s > cur.settled
    PROVE  Ahead'
<1>1. TypeInv /\ Counters
  BY DEF KeptInv
<1>2. /\ mem' \in MailboxType /\ mem'.issued = durIssued /\ mem'.pending = Restored
      /\ mem'.settled = cur.settled \/ mem'.settled <= durIssued
      /\ lease' = Idle /\ inflight' = {}
  BY <1>1, CrashFacts
<1>3. \A s \in Restored : s > mem'.settled
  BY <1>1, CrashFacts
<1>4. mem'.settled <= mem'.issued
  BY <1>1, <1>2 DEF Counters
<1>5. Below(mem.settled)'
  BY <1>2, <1>4 DEF Below
<1> QED BY <1>2, <1>3, <1>5 DEF Ahead, Busy, Idle

LEMMA AheadStep ==
    ASSUME KeptInv, Ahead, [Next]_vars, Crash => \A s \in Restored : s > cur.settled
    PROVE  Ahead'
<1>1. TypeInv /\ KeptInv'
  BY KeptStep DEF KeptInv
<1>2. CASE Crash
  BY <1>2, AheadCrash
<1>3. CASE ~Crash
  <2>1. ASSUME lease' = lease, mem'.settled = mem.settled, mem'.pending \subseteq mem.pending
        PROVE  Ahead'
    <3>1. \A s \in mem'.pending : s > mem'.settled
      BY <2>1 DEF Ahead
    <3> QED BY <1>1, <1>3, <2>1, <3>1, AheadFrame
  <2>2. CASE UNCHANGED vars
    BY <2>1, <2>2 DEF vars
  <2>3. CASE AppendEntry
    <3>1. PICK s \in Seqs :
             /\ s = mem.issued + 1 /\ mem'.pending = mem.pending \union {s}
             /\ mem'.settled = mem.settled
      BY <1>1, <2>3, AppendEntryFacts
    <3>2. s > mem.settled
      <4>1. mem.settled \in Nat /\ mem.issued \in Nat /\ mem.settled <= mem.issued
        BY <1>1 DEF TypeInv, MailTypes, MailboxType, Ahead, Below
      <4> QED BY <3>1, <4>1
    <3>3. \A x \in mem'.pending : x > mem'.settled
      BY <3>1, <3>2 DEF Ahead
    <3>4. lease' = lease
      BY <2>3 DEF AppendEntry
    <3> QED BY <1>1, <1>3, <3>1, <3>3, <3>4, AheadFrame
  <2>4. ASSUME NEW s \in Seqs, Store(s) \/ AbortEntry(s) \/ NackApply(s) \/ Elapse(s)
        PROVE  Ahead'
    <3>1. CASE Store(s) \/ Elapse(s)
      BY <2>1, <3>1 DEF Store, Elapse
    <3>2. CASE AbortEntry(s)
      <4>1. lease' = lease
        BY <3>2 DEF AbortEntry
      <4>2. mem'.settled = mem.settled /\ mem'.pending \subseteq mem.pending
        BY <1>1, <3>2, AbortEntryFacts
      <4> QED BY <2>1, <4>1, <4>2
    <3>3. CASE NackApply(s)
      BY <3>3, AheadNackApply
    <3> QED BY <2>4, <3>1, <3>2, <3>3
  <2>5. ASSUME NEW S \in AckInputs, AckBegin(S) PROVE Ahead'
    BY <2>5, AheadAckBegin
  <2>6. CASE AckCommit \/ AckPublish \/ NackCommit \/ CommitFails
    BY <2>6, AheadAckCommit, AheadAckPublish, AheadRelease
  <2>7. ASSUME NEW w \in Sweepers, Sweep(w) PROVE Ahead'
    <3>1. CASE SweepExpire(w)
      <4>1. lease' = lease
        BY <3>1 DEF SweepExpire
      <4>2. /\ mem'.pending \subseteq mem.pending
            /\ mem'.settled = mem.settled \/ mem'.settled <= Published
            /\ (\A s \in mem.pending : s > mem.settled) => \A s \in mem'.pending : s > mem'.settled
        BY <1>1, <3>1, SweepExpireFacts
      <4>3. \A s \in mem'.pending : s > mem'.settled
        BY <4>2 DEF Ahead
      <4> QED BY <1>1, <1>3, <4>1, <4>2, <4>3, AheadFrame
    <3>2. CASE SweepTake(w)
      <4>1. lease' = lease
        BY <3>2 DEF SweepTake
      <4>2. /\ mem'.pending = mem.pending
            /\ mem'.settled = mem.settled \/ mem'.settled <= Published
            /\ (\A s \in mem.pending : s > mem.settled) => \A s \in mem'.pending : s > mem'.settled
        BY <1>1, <3>2, SweepTakeFacts
      <4>3. \A s \in mem'.pending : s > mem'.settled
        BY <4>2 DEF Ahead
      <4> QED BY <1>1, <1>3, <4>1, <4>2, <4>3, AheadFrame
    <3>3. CASE SweepSave(w) \/ SweepPurge(w)
      BY <2>1, <3>3 DEF SweepSave, SweepPurge
    <3> QED BY <2>7, <3>1, <3>2, <3>3 DEF Sweep
  <2> QED BY <1>3, <2>2, <2>3, <2>4, <2>5, <2>6, <2>7 DEF Next
<1> QED BY <1>2, <1>3

-----------------------------------------------------------------------------
(***************************************************************************)
(* What a step can do to the lease, the rows and the cursor.               *)
(***************************************************************************)
LEMMA LeaseMoves ==
    ASSUME [Next]_vars
    PROVE  /\ told' = told \/ AckPublish
           /\ \/ lease' = lease
              \/ \E S \in AckInputs : AckBegin(S)
              \/ AckCommit
              \/ \E s \in Seqs : NackApply(s)
              \/ lease' = Idle
<1>1. CASE UNCHANGED vars
  BY <1>1 DEF vars
<1>2. CASE AppendEntry \/ AckCommit \/ AckPublish \/ NackCommit \/ CommitFails \/ Crash
  BY <1>2 DEF AppendEntry, AckCommit, AckPublish, NackCommit, CommitFails, Crash
<1>3. ASSUME NEW s \in Seqs, Store(s) \/ AbortEntry(s) \/ NackApply(s) \/ Elapse(s)
      PROVE  told' = told /\ (lease' = lease \/ NackApply(s))
  BY <1>3 DEF Store, AbortEntry, NackApply, Elapse
<1>4. ASSUME NEW S \in AckInputs, AckBegin(S)
      PROVE  told' = told
  BY <1>4 DEF AckBegin
<1>5. ASSUME NEW w \in Sweepers, Sweep(w)
      PROVE  told' = told /\ lease' = lease
  BY <1>5 DEF Sweep, SweepExpire, SweepTake, SweepSave, SweepPurge
<1> QED BY <1>1, <1>2, <1>3, <1>4, <1>5 DEF Next

\* Only a submission adds to the pending rows, but for a restart.
LEMMA PendingStep ==
    ASSUME TypeInv, [Next]_vars, ~Crash
    PROVE  /\ \A s \in mem'.pending : s \in mem.pending \/ s = mem.issued + 1
           /\ AckPublish => mem'.pending = mem.pending \ (lease.acks \union lease.cand.retired)
<1>2. CASE AppendEntry
  <2>1. \A s \in mem'.pending : s \in mem.pending \/ s = mem.issued + 1
    BY <1>2, AppendEntryFacts
  <2>2. AckPublish => mem'.pending = mem.pending \ (lease.acks \union lease.cand.retired)
    BY AckPublishFacts
  <2> QED BY <2>1, <2>2
<1>3. ASSUME mem'.pending \subseteq mem.pending
      PROVE  /\ \A s \in mem'.pending : s \in mem.pending \/ s = mem.issued + 1
             /\ AckPublish => mem'.pending = mem.pending \ (lease.acks \union lease.cand.retired)
  BY <1>3, AckPublishFacts
<1>4. ASSUME NEW s \in Seqs, Store(s) \/ AbortEntry(s) \/ NackApply(s) \/ Elapse(s)
      PROVE  mem'.pending \subseteq mem.pending
  <2>1. CASE Store(s) \/ Elapse(s)
    BY <2>1 DEF Store, Elapse
  <2>2. CASE AbortEntry(s)
    BY <2>2, AbortEntryFacts
  <2>3. CASE NackApply(s)
    <3>1. Settles(mem, mem', mem'.retired, Published)
      BY <2>3, NackApplyFacts
    <3> QED BY <3>1 DEF Settles
  <2> QED BY <1>4, <2>1, <2>2, <2>3
<1>5. ASSUME NEW S \in AckInputs, AckBegin(S)
      PROVE  mem'.pending \subseteq mem.pending
  BY <1>5 DEF AckBegin
<1>6. CASE AckCommit \/ NackCommit \/ CommitFails \/ UNCHANGED vars
  BY <1>3, <1>6 DEF AckCommit, NackCommit, CommitFails, vars
<1>7. CASE AckPublish
  BY <1>3, <1>7, AckPublishFacts
<1>8. ASSUME NEW w \in Sweepers, Sweep(w)
      PROVE  mem'.pending \subseteq mem.pending
  <2>1. CASE SweepExpire(w)
    BY <2>1, SweepExpireFacts
  <2>2. CASE SweepTake(w)
    BY <2>2, SweepTakeFacts
  <2>3. CASE SweepSave(w) \/ SweepPurge(w)
    BY <2>3 DEF SweepSave, SweepPurge
  <2> QED BY <1>8, <2>1, <2>2, <2>3 DEF Sweep
<1> QED BY <1>2, <1>3, <1>4, <1>5, <1>6, <1>7, <1>8 DEF Next

\* Only a submission adds a row, but where the log is read again.
LEMMA RowsStep ==
    ASSUME TypeInv, [Next]_vars, ~(Wal /\ Crash)
    PROVE  \A s \in rows' : s \in rows \/ s \in inflight
<1>1. ASSUME NEW c, NEW visible, NEW base, NEW byKey, NEW p, base \subseteq rows,
             Checkpointed(c, visible, base, byKey, p)
      PROVE  rows' \subseteq rows
  BY <1>1 DEF Checkpointed
<1>2. CASE AckCommit
  BY <1>1, <1>2, AckCommitCheckpoint
<1>3. CASE NackCommit
  BY <1>1, <1>3, NackCommitCheckpoint
<1>4. ASSUME NEW w \in Sweepers, Sweep(w)
      PROVE  rows' \subseteq rows
  <2>1. CASE SweepExpire(w) \/ SweepTake(w)
    BY <2>1 DEF SweepExpire, SweepTake
  <2>2. CASE SweepSave(w)
    BY <1>1, <2>2, SweepSaveCheckpoint
  <2>3. CASE SweepPurge(w)
    <3>1. CASE UNCHANGED <<cur, rows, durIssued>>
      BY <3>1
    <3>2. CASE ~UNCHANGED <<cur, rows, durIssued>>
      <4>1. PICK c \in MailboxType, live \in SUBSET log :
               /\ live = rows \ sweep[w].horizon
               /\ Checkpointed(c, live, live, RetentionKeys(c), Published)
        BY <2>3, <3>2, SweepPurgeCheckpoint
      <4>2. live \subseteq rows
        BY <4>1
      <4> QED BY <1>1, <4>1, <4>2
    <3> QED BY <3>1, <3>2
  <2> QED BY <1>4, <2>1, <2>2, <2>3 DEF Sweep
<1>5. CASE Crash
  <2>1. Recovered \subseteq rows
    BY <1>5 DEF Recovered
  <2>2. CASE UNCHANGED <<cur, rows, durIssued>>
    BY <2>2
  <2>3. CASE Checkpointed(mem', Restored, Recovered, RetentionKeys(mem'), durIssued)
    <3>1. rows' \subseteq Recovered
      BY <2>3 DEF Checkpointed
    <3> QED BY <2>1, <3>1
  <2> QED BY <1>5, <2>2, <2>3, CrashCheckpoint
<1>6. ASSUME NEW s \in Seqs, Store(s) \/ AbortEntry(s) \/ NackApply(s) \/ Elapse(s)
      PROVE  \A x \in rows' : x \in rows \/ x \in inflight
  BY <1>6 DEF Store, AbortEntry, NackApply, Elapse
<1>7. CASE \/ AppendEntry \/ AckPublish \/ CommitFails \/ UNCHANGED vars
           \/ \E S \in AckInputs : AckBegin(S)
  BY <1>7 DEF AppendEntry, AckPublish, CommitFails, AckBegin, vars
<1> QED BY <1>2, <1>3, <1>4, <1>5, <1>6, <1>7 DEF Next

\* What the durable cursor covers it covers for good.
LEMMA CoversStep ==
    ASSUME TypeInv, [Next]_vars, NEW s \in Seqs, Covers(cur, s)
    PROVE  Covers(cur', s)
<1>1. CASE cur' = cur
  BY <1>1 DEF Covers
<1>2. ASSUME NEW c, NEW visible, NEW base, NEW byKey, NEW p,
             Checkpointed(c, visible, base, byKey, p)
      PROVE  Covers(cur', s)
  BY <1>2 DEF Checkpointed
<1>3. CASE AckCommit
  BY <1>2, <1>3, AckCommitCheckpoint
<1>4. CASE NackCommit
  BY <1>2, <1>4, NackCommitCheckpoint
<1>5. ASSUME NEW w \in Sweepers, Sweep(w) PROVE Covers(cur', s)
  <2>1. CASE SweepExpire(w) \/ SweepTake(w)
    BY <1>1, <2>1 DEF SweepExpire, SweepTake
  <2>2. CASE SweepSave(w)
    BY <1>2, <2>2, SweepSaveCheckpoint
  <2>3. CASE SweepPurge(w)
    <3>1. CASE UNCHANGED <<cur, rows, durIssued>>
      BY <1>1, <3>1
    <3>2. CASE ~UNCHANGED <<cur, rows, durIssued>>
      BY <1>2, <2>3, <3>2, SweepPurgeCheckpoint
    <3> QED BY <3>1, <3>2
  <2> QED BY <1>5, <2>1, <2>2, <2>3 DEF Sweep
<1>6. CASE Crash
  BY <1>1, <1>2, <1>6, CrashCheckpoint
<1>7. CASE \/ AppendEntry \/ AckPublish \/ CommitFails \/ UNCHANGED vars
           \/ \E x \in Seqs : Store(x) \/ AbortEntry(x) \/ NackApply(x) \/ Elapse(x)
           \/ \E S \in AckInputs : AckBegin(S)
  <2>1. cur' = cur
    BY <1>7 DEF AppendEntry, AckPublish, CommitFails, vars, Store, AbortEntry, NackApply, Elapse, AckBegin
  <2> QED BY <1>1, <2>1
<1> QED BY <1>3, <1>4, <1>5, <1>6, <1>7 DEF Next

-----------------------------------------------------------------------------
(***************************************************************************)
(* An acknowledgement sticks.                                              *)
(***************************************************************************)
Told == Past(told) /\ (Busy => Past(lease.acks))

LEMMA ToldStep ==
    ASSUME KeptInv, Told, [Next]_vars
    PROVE  Told'
<1>1. TypeInv /\ Counters
  BY DEF KeptInv
<1>2. Past(told)'
  <2>1. PICK S : S = told'
    OBVIOUS
  <2>2. Past(S)
    <3>1. CASE told' = told
      BY <2>1, <3>1 DEF Told
    <3>2. CASE AckPublish
      <4>1. Past(lease.acks) /\ told' = told \union lease.acks
        BY <3>2 DEF Told, Busy, AckPublish
      <4> QED BY <2>1, <4>1 DEF Told, Past
    <3> QED BY <3>1, <3>2, LeaseMoves
  <2>3. S \subseteq 1..durIssued' /\ S \intersect inflight' = {}
    BY <2>2, PastStable
  <2> QED BY <2>1, <2>3 DEF Past
<1>3. ASSUME lease'.phase \in {"ack", "committed"} PROVE Past(lease.acks)'
  <2>1. PICK S : S = lease'.acks
    OBVIOUS
  <2>2. Past(S)
    <3>1. CASE lease' = lease
      BY <1>3, <2>1, <3>1 DEF Told, Busy
    <3>2. CASE \E T \in AckInputs : AckBegin(T)
      <4>1. PICK T \in AckInputs : AckBegin(T)
        BY <3>2
      <4>2. /\ S \subseteq T /\ T \in SUBSET Seqs
            /\ \A s \in T : s <= Published \/ (AckAbove /\ s \in log)
        BY <1>1, <2>1, <4>1, AckBeginFacts
      <4>3. /\ Published <= durIssued /\ Published \in Nat /\ durIssued \in Nat
            /\ \A s \in inflight : s > Published
        BY <1>1, PublishedDurable, PublishedFacts DEF TypeInv, MailTypes
      <4>4. log \subseteq 1..durIssued /\ log \intersect inflight = {}
        BY <1>1 DEF Counters
      <4>5. ASSUME NEW s \in S PROVE s \in 1..durIssued /\ s \notin inflight
        <5>1. s \in Seqs /\ s \in Nat /\ s > 0
          BY <4>2 DEF Seqs
        <5>2. CASE s <= Published
          <6>1. s \in 1..durIssued
            BY <4>3, <5>1, <5>2
          <6>2. ~(s > Published)
            BY <4>3, <5>1, <5>2
          <6> QED BY <4>3, <6>1, <6>2
        <5>3. CASE s \in log
          BY <4>4, <5>3
        <5> QED BY <4>2, <5>2, <5>3
      <4> QED BY <4>5 DEF Past
    <3>3. CASE AckCommit
      <4>1. lease.phase = "ack" /\ lease'.acks = lease.acks
        BY <1>1, <3>3, AckCommitFacts
      <4> QED BY <2>1, <4>1 DEF Told, Busy
    <3>4. CASE \E s \in Seqs : NackApply(s)
      <4>1. lease'.phase = "nack"
        BY <1>1, <3>4, NackApplyFacts
      <4> QED BY <1>3, <4>1
    <3>5. CASE lease' = Idle
      BY <1>3, <3>5 DEF Idle
    <3> QED BY <3>1, <3>2, <3>3, <3>4, <3>5, LeaseMoves
  <2>3. S \subseteq 1..durIssued' /\ S \intersect inflight' = {}
    BY <2>2, PastStable
  <2> QED BY <2>1, <2>3 DEF Past
<1> QED BY <1>2, <1>3 DEF Told, Busy

\* What a receiver was told stays out of the shard, unless a restart brings it back.
LEMMA SticksStep ==
    ASSUME KeptInv, Told, AckSticks, [Next]_vars, Crash => told \intersect Restored = {}
    PROVE  AckSticks'
<1>1. TypeInv
  BY DEF KeptInv
<1>2. CASE Crash
  <2>1. mem'.pending = Restored /\ told' = told
    BY <1>1, <1>2, CrashFacts DEF Crash
  <2> QED BY <1>2, <2>1 DEF AckSticks
<1>3. CASE ~Crash
  <2>1. \A s \in mem'.pending : s \in mem.pending \/ s = mem.issued + 1
    BY <1>1, <1>3, PendingStep
  <2>2. mem.issued + 1 \notin 1..durIssued
    BY <1>1 DEF TypeInv, MailTypes, MailboxType
  <2>3. CASE told' = told
    BY <2>1, <2>2, <2>3 DEF AckSticks, Told, Past
  <2>4. CASE AckPublish
    <3>1. mem'.pending = mem.pending \ (lease.acks \union lease.cand.retired)
      BY <1>1, <1>3, <2>4, PendingStep
    <3>2. told' = told \union lease.acks
      BY <2>4 DEF AckPublish
    <3> QED BY <3>1, <3>2 DEF AckSticks
  <2> QED BY <2>3, <2>4, LeaseMoves
<1> QED BY <1>2, <1>3

\* In redb an acknowledgement removes the row itself.
Forgotten ==
    /\ told \intersect rows = {}
    /\ lease.phase = "committed" => lease.acks \intersect rows = {}

LEMMA ForgottenStep ==
    ASSUME KeptInv, Told, Forgotten, ~Wal, [Next]_vars
    PROVE  Forgotten'
<1>1. TypeInv /\ \A s \in rows' : s \in rows \/ s \in inflight
  BY RowsStep DEF KeptInv
<1>2. told' \intersect rows' = {}
  <2>1. CASE told' = told
    BY <1>1, <2>1 DEF Told, Past, Forgotten
  <2>2. CASE AckPublish
    <3>1. rows' = rows /\ told' = told \union lease.acks /\ lease.phase = "committed"
      BY <2>2 DEF AckPublish
    <3> QED BY <3>1 DEF Forgotten
  <2> QED BY <2>1, <2>2, LeaseMoves
<1>3. ASSUME lease'.phase = "committed" PROVE lease'.acks \intersect rows' = {}
  <2>1. CASE lease' = lease
    BY <1>1, <1>3, <2>1 DEF Told, Busy, Past, Forgotten
  <2>2. CASE \E T \in AckInputs : AckBegin(T)
    BY <1>1, <1>3, <2>2, AckBeginFacts
  <2>3. CASE AckCommit
    <3>1. PICK c \in MailboxType :
             /\ c.retired = lease.cand.retired \union lease.acks
             /\ Checkpointed(c, rows, rows, c.retired, Published)
      BY <1>1, <2>3, AckCommitCheckpoint
    <3>2. rows' = rows \ c.retired
      BY <3>1 DEF Checkpointed
    <3>3. lease'.acks = lease.acks
      BY <1>1, <2>3, AckCommitFacts
    <3> QED BY <3>1, <3>2, <3>3
  <2>4. CASE \E s \in Seqs : NackApply(s)
    BY <1>1, <1>3, <2>4, NackApplyFacts
  <2>5. CASE lease' = Idle
    BY <1>3, <2>5 DEF Idle
  <2> QED BY <2>1, <2>2, <2>3, <2>4, <2>5, LeaseMoves
<1> QED BY <1>2, <1>3 DEF Forgotten

RedbInv == KeptInv /\ Told /\ AckSticks /\ Forgotten

LEMMA RedbStep ==
    ASSUME RedbInv, ~Wal, [Next]_vars
    PROVE  RedbInv'
<1>1. KeptInv' /\ Told' /\ Forgotten'
  BY KeptStep, ToldStep, ForgottenStep DEF RedbInv
<1>2. Crash => told \intersect Restored = {}
  BY DEF RedbInv, Forgotten, Restored, Recovered
<1>3. AckSticks'
  BY <1>2, SticksStep DEF RedbInv
<1> QED BY <1>1, <1>3 DEF RedbInv

\* In the submission log the row stays, and the cursor has to cover it.  A row
\* is pending in the shard, or covered, or a dead letter about to be committed.
Nacked(s) ==
    /\ lease.phase = "nack" /\ s \in rows
    /\ s \in mem.retired /\ s \in lease.cand.retired

Alone == \A s \in rows \union inflight : s \in mem.pending \/ Covers(cur, s) \/ Nacked(s)

Covered ==
    /\ \A s \in told : Covers(cur, s)
    /\ Busy => \A s \in lease.acks \union lease.cand.retired : Covers(lease.cand, s)
    /\ lease.phase = "committed" =>
         \A s \in lease.acks \union lease.cand.retired : Covers(cur, s)

\* The store's prefix reaches that of the copy it checkpoints when the copy
\* accounts for every row below.
LEMMA Reaches ==
    ASSUME TypeInv, NEW c \in MailboxType, NEW visible, NEW base, NEW byKey, NEW p \in Nat,
           Checkpointed(c, visible, base, byKey, p), c.settled <= p,
           visible \subseteq Seqs, \A s \in visible : s <= c.settled => Passed(c, s)
    PROVE  \A s \in Seqs : Covers(c, s) => Covers(cur', s)
<1>1. c.settled \in Nat /\ c.settled \in 0..p
  BY DEF MailboxType
<1>2. \A s \in visible : s > c.settled \/ Passed(c, s)
  BY <1>1 DEF Seqs
<1>3. c.settled <= cur'.settled /\ cur'.settled \in Nat
  BY <1>1, <1>2 DEF Checkpointed, CursorType
<1>4. ASSUME NEW s \in Seqs, Covers(c, s) PROVE Covers(cur', s)
  <2>1. CASE s \in c.acked
    BY <2>1 DEF Checkpointed
  <2>2. CASE s <= c.settled
    <3>1. s \in Nat
      BY DEF Seqs
    <3> QED BY <1>1, <1>3, <2>2, <3>1 DEF Covers
  <2> QED BY <1>4, <2>1, <2>2 DEF Covers
<1> QED BY <1>4

LEMMA AckCommitReaches ==
    ASSUME KeptInv, Ahead, Alone, AckCommit
    PROVE  \A s \in Seqs : Covers(lease.cand, s) => Covers(cur', s)
<1>1. TypeInv
  BY DEF KeptInv
<1>2. PICK c \in MailboxType :
         /\ c.settled = lease.cand.settled /\ c.acked = lease.cand.acked
         /\ c.retired = lease.cand.retired \union lease.acks
         /\ Checkpointed(c, rows, rows, c.retired, Published)
  BY <1>1, AckCommitCheckpoint
<1>3. lease.phase = "ack" /\ lease.cand \in MailboxType /\ lease.acks \in SUBSET Seqs
  BY <1>1, AckCommitFacts
<1>4. PICK x \in Nat : x = c.settled
  BY DEF MailboxType
<1>5. Below(x)
  BY <1>2, <1>3, <1>4 DEF Ahead
<1>6. c.settled <= Published /\ Published \in Nat
  BY <1>1, <1>4, <1>5, BelowPublished, PublishedFacts DEF TypeInv
<1>7. ASSUME NEW s \in rows, s <= c.settled PROVE Passed(c, s)
  <2>1. s \in mem.pending \/ Covers(cur, s)
    BY <1>3 DEF Alone, Nacked
  <2>2. CASE s \in mem.pending
    <3>1. s \in lease.acks \union lease.cand.retired \/ s > c.settled
      BY <1>2, <1>3, <2>2 DEF Ahead, Busy
    <3>2. ~(s > c.settled)
      BY <1>1, <1>4, <1>7 DEF TypeInv, MailTypes, Seqs
    <3> QED BY <1>2, <3>1, <3>2 DEF Passed
  <2>3. CASE Covers(cur, s)
    BY <2>3 DEF Covers, Passed
  <2> QED BY <2>1, <2>2, <2>3
<1>8. rows \subseteq Seqs
  BY <1>1 DEF TypeInv, MailTypes
<1>9. \A s \in Seqs : Covers(c, s) => Covers(cur', s)
  BY <1>1, <1>2, <1>6, <1>7, <1>8, Reaches
<1> QED BY <1>2, <1>9 DEF Covers

LEMMA CoveredAckCommit ==
    ASSUME KeptInv, Ahead, Alone, Covered, AckCommit
    PROVE  \A s \in lease.acks \union lease.cand.retired : Covers(cur', s)
<1>1. lease.phase = "ack" /\ lease.cand \in MailboxType /\ lease.acks \in SUBSET Seqs
  BY AckCommitFacts DEF KeptInv
<1>2. \A s \in lease.acks \union lease.cand.retired : s \in Seqs /\ Covers(lease.cand, s)
  BY <1>1 DEF MailboxType, Covered, Busy
<1> QED BY <1>2, AckCommitReaches

LEMMA CoveredStep ==
    ASSUME KeptInv, Ahead, Alone, Covered, [Next]_vars
    PROVE  Covered'
<1>1. TypeInv
  BY DEF KeptInv
<1>2. \A s \in Seqs : Covers(cur, s) => Covers(cur', s)
  BY <1>1, CoversStep
<1>3. ASSUME NEW s \in told' PROVE Covers(cur', s)
  <2>1. CASE told' = told
    <3>1. s \in Seqs /\ Covers(cur, s)
      BY <1>1, <1>3, <2>1 DEF TypeInv, MailTypes, Covered
    <3> QED BY <1>2, <3>1
  <2>2. CASE AckPublish
    <3>1. told' = told \union lease.acks /\ lease.phase = "committed"
      BY <2>2 DEF AckPublish
    <3>2. lease.acks \in SUBSET Seqs
      BY <1>1, <2>2, AckPublishFacts
    <3>3. s \in Seqs /\ Covers(cur, s)
      BY <1>1, <1>3, <3>1, <3>2 DEF TypeInv, MailTypes, Covered
    <3> QED BY <1>2, <3>3
  <2> QED BY <2>1, <2>2, LeaseMoves
<1>4. ASSUME lease'.phase \in {"ack", "committed"},
             NEW s \in lease'.acks \union lease'.cand.retired
      PROVE  Covers(lease'.cand, s)
  <2>1. CASE lease' = lease
    BY <1>4, <2>1 DEF Covered, Busy, Covers
  <2>2. CASE \E T \in AckInputs : AckBegin(T)
    <3>1. /\ Settles(mem, lease'.cand, lease'.acks \union lease'.cand.retired, Published)
          /\ lease' \in AckLease
      BY <1>1, <2>2, AckBeginFacts
    <3>2. s \in Seqs
      BY <1>4, <3>1 DEF AckLease, MailboxType
    <3> QED BY <1>4, <3>1, <3>2 DEF Settles
  <2>3. CASE AckCommit
    <3>1. lease.phase = "ack" /\ lease'.acks = lease.acks /\ lease'.cand = lease.cand
      BY <1>1, <2>3, AckCommitFacts
    <3> QED BY <1>4, <3>1 DEF Covered, Busy, Covers
  <2>4. CASE \E x \in Seqs : NackApply(x)
    BY <1>1, <1>4, <2>4, NackApplyFacts
  <2>5. CASE lease' = Idle
    BY <1>4, <2>5 DEF Idle
  <2> QED BY <2>1, <2>2, <2>3, <2>4, <2>5, LeaseMoves
<1>5. ASSUME lease'.phase = "committed", NEW s \in lease'.acks \union lease'.cand.retired
      PROVE  Covers(cur', s)
  <2>1. CASE lease' = lease
    <3>1. lease.cand \in MailboxType /\ lease.acks \in SUBSET Seqs
      BY <1>1, <1>5, <2>1, LeaseCases DEF TypeInv, Busy
    <3>2. s \in Seqs
      BY <1>5, <2>1, <3>1 DEF MailboxType
    <3>3. Covers(cur, s)
      BY <1>5, <2>1 DEF Covered
    <3> QED BY <1>2, <3>2, <3>3
  <2>2. CASE \E T \in AckInputs : AckBegin(T)
    BY <1>1, <1>5, <2>2, AckBeginFacts
  <2>3. CASE AckCommit
    <3>1. lease'.acks = lease.acks /\ lease'.cand = lease.cand
      BY <1>1, <2>3, AckCommitFacts
    <3> QED BY <1>5, <2>3, <3>1, CoveredAckCommit
  <2>4. CASE \E x \in Seqs : NackApply(x)
    BY <1>1, <1>5, <2>4, NackApplyFacts
  <2>5. CASE lease' = Idle
    BY <1>5, <2>5 DEF Idle
  <2> QED BY <2>1, <2>2, <2>3, <2>4, <2>5, LeaseMoves
<1> QED BY <1>3, <1>4, <1>5 DEF Covered, Busy, Covers

\* The sequences that have a row or are in flight after a step, but for a restart.
LEMMA RowsMoves ==
    ASSUME KeptInv, [Next]_vars, ~Crash, NEW s \in rows' \union inflight'
    PROVE  /\ s \in Seqs
           /\ s \in rows \union inflight \/ (s \in inflight' /\ s = mem.issued + 1)
           /\ s \in rows /\ s \notin rows' => s = mem.issued + 1
<1>1. TypeInv /\ TypeInv' /\ Counters
  BY TypeInvStep DEF KeptInv
<1>2. s \in Seqs
  <2>1. CASE s \in rows'
    BY <1>1, <2>1 DEF TypeInv, MailTypes
  <2>2. CASE s \in inflight'
    <3>1. PICK n : n = mem'.issued
      OBVIOUS
    <3>2. inflight' \subseteq 1..n /\ n \in 0..MaxSeq
      BY <1>1, <3>1 DEF TypeInv, MailTypes, MailboxType
    <3> QED BY <2>2, <3>2, BoundsAssumption DEF Seqs
  <2> QED BY <2>1, <2>2
<1>3. \A x \in inflight' : x \in inflight \/ x = mem.issued + 1
  BY Progress
<1>4. \A x \in rows' : x \in rows \/ x \in inflight
  BY <1>1, RowsStep
<1>5. rows \intersect inflight = {}
  BY <1>1 DEF TypeInv, MailTypes, Counters
<1> QED BY <1>2, <1>3, <1>4, <1>5

\* A step that leaves the lease alone.
LEMMA AloneFrame ==
    ASSUME KeptInv, Alone, [Next]_vars, ~Crash, lease' = lease, mem'.retired = mem.retired,
           \A s \in inflight' : s = mem.issued + 1 => s \in mem'.pending,
           \A s \in mem.pending : s \in rows' \union inflight' => s \in mem'.pending
    PROVE  Alone'
<1>1. TypeInv
  BY DEF KeptInv
<1>2. ASSUME NEW s \in rows' \union inflight', s \notin mem'.pending, ~Covers(cur', s)
      PROVE  lease'.phase = "nack" /\ s \in rows' /\ s \in mem'.retired /\ s \in lease'.cand.retired
  <2>1. /\ s \in Seqs
        /\ s \in rows \union inflight \/ (s \in inflight' /\ s = mem.issued + 1)
        /\ s \in rows /\ s \notin rows' => s = mem.issued + 1
    BY RowsMoves
  <2>2. s \in rows \union inflight
    BY <1>2, <2>1
  <2>3. s \notin mem.pending /\ ~Covers(cur, s)
    BY <1>1, <1>2, <2>1, CoversStep
  <2>4. Nacked(s)
    BY <2>2, <2>3 DEF Alone
  <2>5. s \in rows'
    <3>1. SUFFICES ASSUME s \notin rows' PROVE FALSE
      OBVIOUS
    <3>2. s \in rows
      BY <2>4 DEF Nacked
    <3>3. s = mem.issued + 1 /\ s \in inflight'
      BY <1>2, <2>1, <3>1, <3>2
    <3> QED BY <1>2, <3>3
  <2> QED BY <2>4, <2>5 DEF Nacked
<1> QED BY <1>2 DEF Alone, Nacked, Covers

\* A step that starts without a negative acknowledgement under way.
LEMMA AloneReceiver ==
    ASSUME KeptInv, Alone, [Next]_vars, ~Crash, lease.phase # "nack",
           inflight' = inflight,
           \A s \in mem.pending : s \in mem'.pending \/ Covers(cur, s)
    PROVE  Alone'
<1>1. TypeInv
  BY DEF KeptInv
<1>2. ASSUME NEW s \in rows' \union inflight' PROVE s \in mem'.pending \/ Covers(cur', s)
  <2>1. s \in Seqs /\ s \in rows \union inflight
    <3>1. s \in Seqs
      BY RowsMoves
    <3>2. \A x \in rows' : x \in rows \/ x \in inflight
      BY <1>1, RowsStep
    <3> QED BY <3>1, <3>2
  <2>2. s \in mem.pending \/ Covers(cur, s)
    BY <2>1 DEF Alone, Nacked
  <2> QED BY <1>1, <2>1, <2>2, CoversStep
<1> QED BY <1>2 DEF Alone, Covers

LEMMA AloneNackApply ==
    ASSUME KeptInv, Alone, [Next]_vars, NEW n \in Seqs, NackApply(n)
    PROVE  Alone'
<1>1. TypeInv
  BY DEF KeptInv
<1>2. /\ lease = Idle /\ lease'.phase = "nack" /\ lease'.cand = mem' /\ mem' \in MailboxType
      /\ Settles(mem, mem', mem'.retired, Published)
      /\ mem'.retired \subseteq {n} /\ n <= Published
  BY <1>1, NackApplyFacts
<1>3. rows' = rows /\ inflight' = inflight /\ cur' = cur
  BY DEF NackApply
<1>4. mem.pending \subseteq mem'.pending \union mem'.retired
  BY <1>2 DEF Settles
<1>5. n \notin inflight
  <2>1. (\A s \in inflight : s > Published) /\ Published \in Nat
    BY <1>1, PublishedFacts DEF TypeInv
  <2>2. ~(n > Published)
    BY <1>2, <2>1 DEF Seqs
  <2> QED BY <2>1, <2>2
<1>6. ASSUME NEW s \in rows \union inflight, s \notin mem'.pending, ~Covers(cur, s)
      PROVE  s \in rows /\ s \in mem'.retired
  <2>1. lease.phase # "nack"
    BY <1>2 DEF Idle
  <2>2. s \in mem.pending
    BY <1>6, <2>1 DEF Alone, Nacked
  <2>3. s \in mem'.retired /\ s = n
    BY <1>2, <1>4, <1>6, <2>2
  <2> QED BY <1>5, <1>6, <2>3
<1> QED BY <1>2, <1>3, <1>6 DEF Alone, Nacked, Covers

LEMMA AloneNackCommit ==
    ASSUME KeptInv, Alone, Wal, [Next]_vars, ~Crash, NackCommit
    PROVE  Alone'
<1>1. TypeInv
  BY DEF KeptInv
<1>2. Checkpointed(lease.cand, rows, rows, lease.cand.retired, Published)
  BY <1>1, NackCommitCheckpoint
<1>3. rows' \intersect lease.cand.retired = {} /\ rows' \subseteq rows
  BY <1>2 DEF Checkpointed
<1>4. mem' = mem /\ inflight' = inflight
  BY DEF NackCommit
<1>5. rows \intersect inflight = {}
  BY <1>1 DEF TypeInv, MailTypes, KeptInv, Counters
<1>6. ASSUME NEW s \in rows' \union inflight' PROVE s \in mem'.pending \/ Covers(cur', s)
  <2>1. s \in Seqs /\ s \in rows \union inflight
    BY <1>3, <1>4, <1>6, RowsMoves
  <2>2. ~Nacked(s)
    BY <1>3, <1>4, <1>5, <1>6 DEF Nacked
  <2>3. s \in mem.pending \/ Covers(cur, s)
    BY <2>1, <2>2 DEF Alone
  <2> QED BY <1>1, <1>4, <2>1, <2>3, CoversStep
<1> QED BY <1>6 DEF Alone, Covers

LEMMA AloneCrash ==
    ASSUME KeptInv, Wal, expired = {}, Crash
    PROVE  Alone'
<1>1. TypeInv
  BY DEF KeptInv
<1>2. mem'.pending = Restored /\ inflight' = {}
  BY <1>1, CrashFacts
<1>3. Restored = Recovered
  BY DEF Restored
<1>4. rows' \subseteq Recovered
  <2>1. Checkpointed(mem', Restored, Recovered, RetentionKeys(mem'), durIssued)
    BY <1>1, CrashCheckpoint
  <2> QED BY <2>1 DEF Checkpointed
<1> QED BY <1>2, <1>3, <1>4 DEF Alone

LEMMA AloneStep ==
    ASSUME KeptInv, Covered, Alone, Wal, Mortal = {}, "nack" \notin Failures, [Next]_vars
    PROVE  Alone'
<1>1. TypeInv /\ expired = {}
  BY DEF KeptInv, TypeInv, MailTypes
<1>2. CASE Crash
  BY <1>1, <1>2, AloneCrash
<1>3. CASE ~Crash
  <2>1. ASSUME lease' = lease, mem'.retired = mem.retired, inflight' \subseteq inflight,
               mem'.pending = mem.pending
        PROVE  Alone'
    <3>1. \A s \in inflight' : s = mem.issued + 1 => s \in mem'.pending
      <4>1. mem.issued \in Nat /\ inflight \subseteq 1..mem.issued
        BY <1>1 DEF TypeInv, MailTypes, MailboxType
      <4>2. mem.issued + 1 \notin 1..mem.issued
        BY <4>1
      <4> QED BY <2>1, <4>1, <4>2
    <3> QED BY <1>3, <2>1, <3>1, AloneFrame
  <2>2. CASE UNCHANGED vars
    BY <2>1, <2>2 DEF vars
  <2>3. CASE AppendEntry
    <3>1. PICK s \in Seqs :
             /\ s = mem.issued + 1 /\ mem'.pending = mem.pending \union {s}
             /\ mem'.retired = mem.retired
      BY <1>1, <2>3, AppendEntryFacts
    <3>2. lease' = lease
      BY <2>3 DEF AppendEntry
    <3>3. /\ \A x \in inflight' : x = mem.issued + 1 => x \in mem'.pending
          /\ \A x \in mem.pending : x \in mem'.pending
      BY <3>1
    <3> QED BY <1>3, <3>1, <3>2, <3>3, AloneFrame
  <2>4. ASSUME NEW s \in Seqs, Store(s) \/ AbortEntry(s) \/ NackApply(s) \/ Elapse(s)
        PROVE  Alone'
    <3>1. CASE Store(s) \/ Elapse(s)
      BY <2>1, <3>1 DEF Store, Elapse
    <3>2. CASE AbortEntry(s)
      <4>1. lease' = lease /\ inflight' = inflight \ {s} /\ s \in inflight /\ rows' = rows
        BY <3>2 DEF AbortEntry
      <4>2. mem'.pending = mem.pending \ {s} /\ mem'.retired = mem.retired
        BY <1>1, <3>2, AbortEntryFacts
      <4>3. s \notin rows
        BY <1>1, <4>1 DEF TypeInv, MailTypes, KeptInv, Counters
      <4>4. \A x \in inflight' : x = mem.issued + 1 => x \in mem'.pending
        <5>1. mem.issued \in Nat /\ inflight \subseteq 1..mem.issued
          BY <1>1 DEF TypeInv, MailTypes, MailboxType
        <5>2. mem.issued + 1 \notin 1..mem.issued
          BY <5>1
        <5> QED BY <4>1, <5>1, <5>2
      <4>5. \A x \in mem.pending : x \in rows' \union inflight' => x \in mem'.pending
        BY <4>1, <4>2, <4>3
      <4> QED BY <1>3, <4>1, <4>2, <4>4, <4>5, AloneFrame
    <3>3. CASE NackApply(s)
      BY <3>3, AloneNackApply
    <3> QED BY <2>4, <3>1, <3>2, <3>3
  <2>5. ASSUME NEW S \in AckInputs, AckBegin(S) PROVE Alone'
    <3>1. lease.phase # "nack" /\ inflight' = inflight /\ mem' = mem
      BY <2>5 DEF AckBegin, Idle
    <3> QED BY <1>3, <3>1, AloneReceiver
  <2>6. CASE AckCommit
    <3>1. lease.phase # "nack" /\ inflight' = inflight /\ mem' = mem
      BY <2>6 DEF AckCommit
    <3> QED BY <1>3, <3>1, AloneReceiver
  <2>7. CASE CommitFails
    <3>1. lease.phase # "nack" /\ inflight' = inflight /\ mem' = mem
      BY <2>7 DEF CommitFails
    <3> QED BY <1>3, <3>1, AloneReceiver
  <2>8. CASE AckPublish
    <3>1. lease.phase = "committed" /\ inflight' = inflight
      BY <2>8 DEF AckPublish
    <3>2. mem'.pending = mem.pending \ (lease.acks \union lease.cand.retired)
      BY <1>1, <2>8, AckPublishFacts
    <3>3. \A s \in mem.pending : s \in mem'.pending \/ Covers(cur, s)
      BY <3>1, <3>2 DEF Covered
    <3> QED BY <1>3, <3>1, <3>3, AloneReceiver
  <2>9. CASE NackCommit
    BY <1>3, <2>9, AloneNackCommit
  <2>10. ASSUME NEW w \in Sweepers, Sweep(w) PROVE Alone'
    <3>1. CASE SweepExpire(w)
      <4>1. lease' = lease /\ inflight' = inflight
        BY <3>1 DEF SweepExpire
      <4>2. mem'.pending = mem.pending /\ mem'.retired = mem.retired
        BY <1>1, <3>1, SweepExpireFacts
      <4> QED BY <2>1, <4>1, <4>2
    <3>2. CASE SweepTake(w)
      <4>1. lease' = lease /\ inflight' = inflight
        BY <3>2 DEF SweepTake
      <4>2. mem'.pending = mem.pending /\ mem'.retired = mem.retired
        BY <1>1, <3>2, SweepTakeFacts
      <4> QED BY <2>1, <4>1, <4>2
    <3>3. CASE SweepSave(w) \/ SweepPurge(w)
      BY <2>1, <3>3 DEF SweepSave, SweepPurge
    <3> QED BY <2>10, <3>1, <3>2, <3>3 DEF Sweep
  <2> QED BY <1>3, <2>2, <2>3, <2>4, <2>5, <2>6, <2>7, <2>8, <2>9, <2>10 DEF Next
<1> QED BY <1>2, <1>3

WalInv == KeptInv /\ Told /\ AckSticks /\ Ahead /\ Alone /\ Covered

LEMMA WalInit ==
    ASSUME Init
    PROVE  WalInv
<1>1. KeptInv /\ Ahead
  BY KeptInit, AheadInit
<1>2. told = {} /\ lease = Idle /\ rows = {} /\ inflight = {}
  BY DEF Init
<1> QED BY <1>1, <1>2 DEF WalInv, Told, Past, Busy, Idle, AckSticks, Alone, Covered

LEMMA WalStep ==
    ASSUME WalInv, Wal, Mortal = {}, "nack" \notin Failures, [Next]_vars
    PROVE  WalInv'
<1>1. KeptInv' /\ Told' /\ Alone' /\ Covered'
  BY KeptStep, ToldStep, AloneStep, CoveredStep DEF WalInv
<1>2. \A s \in Restored : s > cur.settled /\ s \notin cur.acked
  BY DEF Restored, Recovered, Above
<1>3. Ahead'
  BY <1>2, AheadStep DEF WalInv
<1>4. told \intersect Restored = {}
  <2>1. ASSUME NEW s \in told, s \in Restored PROVE FALSE
    <3>1. s <= cur.settled \/ s \in cur.acked
      BY <2>1 DEF WalInv, Covered, Covers
    <3>2. s > cur.settled /\ s \notin cur.acked
      BY <1>2, <2>1
    <3>3. s \in Nat /\ cur.settled \in Nat
      BY <2>1 DEF WalInv, KeptInv, TypeInv, MailTypes, CursorType, Seqs
    <3> QED BY <3>1, <3>2, <3>3
  <2> QED BY <2>1
<1>5. AckSticks'
  BY <1>4, SticksStep DEF WalInv
<1> QED BY <1>1, <1>3, <1>5 DEF WalInv

\* A receiver never gets again what it was told is acknowledged, whatever
\* crashes and sweeps come between.  With the rows in redb this needs nothing;
\* with the submission log it needs that no deadline passes and that the commit
\* of a negative acknowledgement is not refused.
THEOREM AcknowledgementSticks ==
    ASSUME Wal => Mortal = {} /\ "nack" \notin Failures
    PROVE  Spec => []AckSticks
<1>1. CASE ~Wal
  <2>1. Init => RedbInv
    <3> SUFFICES ASSUME Init PROVE RedbInv
      OBVIOUS
    <3>1. KeptInv
      BY KeptInit
    <3>2. told = {} /\ lease = Idle
      BY DEF Init
    <3> QED BY <3>1, <3>2 DEF RedbInv, Told, Past, Busy, Idle, AckSticks, Forgotten
  <2>2. RedbInv /\ [Next]_vars => RedbInv'
    BY <1>1, RedbStep
  <2>3. RedbInv => AckSticks
    BY DEF RedbInv
  <2> QED BY <2>1, <2>2, <2>3, PTL DEF Spec
<1>2. CASE Wal
  <2>1. Init => WalInv
    BY WalInit
  <2>2. WalInv /\ [Next]_vars => WalInv'
    BY <1>2, WalStep
  <2>3. WalInv => AckSticks
    BY DEF WalInv
  <2> QED BY <2>1, <2>2, <2>3, PTL DEF Spec
<1> QED BY <1>1, <1>2

-----------------------------------------------------------------------------
(***************************************************************************)
(* The cursors speak the truth.  A mark of a cursor is a sequence that it  *)
(* names: a dead letter, a member of the window, the last acknowledgement. *)
(* No mark has a row beside it, but while its retirement is on its way to  *)
(* the store.                                                              *)
(***************************************************************************)
Marks(c) == ToSet(c.dead) \union c.acked \union ({c.last} \ {0})

\* What a step can do to the marks of the shard's cursor.
LEMMA MarksMoves ==
    ASSUME TypeInv, [Next]_vars
    PROVE  \/ /\ Marks(mem') \subseteq Marks(mem) /\ mem'.retired = mem.retired
              /\ \A s \in Seqs : Covers(mem, s) => Covers(mem', s)
           \/ AckPublish
           \/ \E s \in Seqs : NackApply(s)
           \/ Crash
<1>1. ASSUME mem'.retired = mem.retired, mem'.acked = mem.acked, mem'.dead = mem.dead,
             mem'.last = mem.last, mem'.settled = mem.settled
      PROVE  /\ Marks(mem') \subseteq Marks(mem) /\ mem'.retired = mem.retired
             /\ \A s \in Seqs : Covers(mem, s) => Covers(mem', s)
  BY <1>1 DEF Marks, Covers
<1>2. CASE AppendEntry
  <2>1. /\ mem'.retired = mem.retired /\ mem'.acked = mem.acked /\ mem'.dead = mem.dead
        /\ mem'.last = mem.last /\ mem'.settled = mem.settled
    BY <1>2, AppendEntryFacts
  <2> QED BY <1>1, <2>1
<1>3. ASSUME NEW s \in Seqs, AbortEntry(s)
      PROVE  /\ mem'.retired = mem.retired /\ mem'.acked = mem.acked /\ mem'.dead = mem.dead
             /\ mem'.last = mem.last /\ mem'.settled = mem.settled
  BY <1>3, AbortEntryFacts
<1>4. ASSUME NEW w \in Sweepers, SweepExpire(w) \/ SweepTake(w)
      PROVE  /\ Marks(mem') \subseteq Marks(mem) /\ mem'.retired = mem.retired
             /\ \A s \in Seqs : Covers(mem, s) => Covers(mem', s)
  <2>1. CASE SweepExpire(w)
    <3>1. /\ mem'.acked \subseteq mem.acked /\ ToSet(mem'.dead) \subseteq ToSet(mem.dead)
          /\ mem'.last = mem.last /\ mem'.retired = mem.retired
          /\ \A s \in Seqs : Covers(mem, s) => Covers(mem', s)
      BY <2>1, SweepExpireFacts
    <3> QED BY <3>1 DEF Marks
  <2>2. CASE SweepTake(w)
    <3>1. /\ mem'.acked \subseteq mem.acked /\ mem'.dead = mem.dead
          /\ mem'.last = mem.last /\ mem'.retired = mem.retired
          /\ \A s \in Seqs : Covers(mem, s) => Covers(mem', s)
      BY <2>2, SweepTakeFacts
    <3> QED BY <3>1 DEF Marks
  <2> QED BY <1>4, <2>1, <2>2
<1>5. CASE \/ AckCommit \/ NackCommit \/ CommitFails \/ UNCHANGED vars
           \/ \E s \in Seqs : Store(s) \/ Elapse(s)
           \/ \E S \in AckInputs : AckBegin(S)
           \/ \E w \in Sweepers : SweepSave(w) \/ SweepPurge(w)
  <2>1. mem' = mem
    BY <1>5 DEF AckCommit, NackCommit, CommitFails, vars, Store, Elapse, AckBegin, SweepSave, SweepPurge
  <2> QED BY <1>1, <2>1
<1> QED BY <1>1, <1>2, <1>3, <1>4, <1>5 DEF Next, Sweep

\* A negative acknowledgement marks what it dead-letters.
LEMMA MarksNackApply ==
    ASSUME TypeInv, NEW s \in Seqs, NackApply(s)
    PROVE  Marks(mem') \subseteq Marks(mem) \union mem'.retired
<1>1. Settles(mem, mem', mem'.retired, Published) /\ mem'.last = mem.last
  BY NackApplyFacts
<1> QED BY <1>1 DEF Settles, Marks

LEMMA MarksAckPublish ==
    ASSUME TypeInv, AckPublish
    PROVE  Marks(mem') \subseteq Marks(mem) \union Marks(lease.cand)
<1>1. /\ mem'.acked = Above(mem.acked \union lease.cand.acked, mem'.settled)
      /\ mem'.last = lease.cand.last
      /\ ToSet(mem'.dead) \subseteq ToSet(mem.dead) \union ToSet(lease.cand.dead)
  BY AckPublishFacts
<1> QED BY <1>1 DEF Above, Marks

LEMMA MarksAckBegin ==
    ASSUME TypeInv, NEW S \in AckInputs, AckBegin(S)
    PROVE  Marks(lease'.cand) \subseteq Marks(mem) \union (lease'.acks \union lease'.cand.retired)
<1>1. /\ Settles(mem, lease'.cand, lease'.acks \union lease'.cand.retired, Published)
      /\ lease'.cand.last \in lease'.acks
  BY AckBeginFacts
<1> QED BY <1>1 DEF Settles, Marks

LEMMA MarksCrash ==
    ASSUME TypeInv, Crash
    PROVE  Marks(mem') \subseteq Marks(cur)
<1>1. /\ mem'.dead = cur.dead /\ mem'.last = cur.last
      /\ mem'.acked = Above(cur.acked, mem'.settled)
  BY CrashFacts
<1> QED BY <1>1 DEF Above, Marks

LEMMA MarksCheckpoint ==
    ASSUME NEW c, NEW visible, NEW base, NEW byKey, NEW p,
           Checkpointed(c, visible, base, byKey, p)
    PROVE  Marks(cur') \subseteq Marks(cur) \union Marks(c)
<1>1. cur'.acked \subseteq cur.acked \union c.acked /\ cur'.dead = c.dead /\ cur'.last = c.last
  BY DEF Checkpointed
<1> QED BY <1>1 DEF Marks

\* The steps that write the cursor.
LEMMA CursorMoves ==
    ASSUME TypeInv, [Next]_vars
    PROVE  \/ cur' = cur /\ \A s \in rows' : s \in rows \/ s \in inflight
           \/ AckCommit
           \/ NackCommit
           \/ \E w \in Sweepers : SweepSave(w)
           \/ \E w \in Sweepers : SweepPurge(w) /\ ~UNCHANGED <<cur, rows, durIssued>>
           \/ Crash
<1>1. ASSUME cur' = cur, ~Crash
      PROVE  cur' = cur /\ \A s \in rows' : s \in rows \/ s \in inflight
  BY <1>1, RowsStep
<1>2. ASSUME NEW w \in Sweepers, Sweep(w), ~SweepSave(w)
      PROVE  cur' = cur \/ (SweepPurge(w) /\ ~UNCHANGED <<cur, rows, durIssued>>)
  BY <1>2 DEF Sweep, SweepExpire, SweepTake
<1>3. CASE \/ AppendEntry \/ AckPublish \/ CommitFails \/ UNCHANGED vars
           \/ \E x \in Seqs : Store(x) \/ AbortEntry(x) \/ NackApply(x) \/ Elapse(x)
           \/ \E S \in AckInputs : AckBegin(S)
  <2>1. cur' = cur
    BY <1>3 DEF AppendEntry, AckPublish, CommitFails, vars, Store, AbortEntry, NackApply, Elapse, AckBegin
  <2> QED BY <1>1, <2>1
<1> QED BY <1>1, <1>2, <1>3 DEF Next

\* A copy that a sweeper holds is the one it held, or the shard's cursor.
LEMMA SweepMoves ==
    ASSUME TypeInv, [Next]_vars, NEW w \in Sweepers, sweep'[w].phase = "taken"
    PROVE  \/ Taken(w) /\ sweep'[w].cursor = sweep[w].cursor /\ ~Crash
           \/ SweepTake(w) /\ sweep'[w].cursor = mem'
<1>1. CASE Crash
  <2>1. sweep'[w] = Idle
    BY <1>1 DEF Crash
  <2> QED BY <2>1 DEF Idle
<1>2. CASE sweep' = sweep /\ ~Crash
  BY <1>2 DEF Taken
<1>3. ASSUME NEW v \in Sweepers, Sweep(v), ~Crash
      PROVE  \/ Taken(w) /\ sweep'[w].cursor = sweep[w].cursor /\ ~Crash
             \/ SweepTake(w) /\ sweep'[w].cursor = mem'
  <2>1. DOMAIN sweep = Sweepers
    BY DEF TypeInv, SweepTypes
  <2>2. ASSUME NEW x, sweep' = [sweep EXCEPT ![v] = x], v # w
        PROVE  Taken(w) /\ sweep'[w].cursor = sweep[w].cursor
    <3>1. sweep'[w] = sweep[w]
      BY <2>1, <2>2
    <3> QED BY <3>1 DEF Taken
  <2>3. CASE v # w
    <3>1. PICK x : sweep' = [sweep EXCEPT ![v] = x]
      <4>1. CASE SweepExpire(v)
        BY <4>1 DEF SweepExpire
      <4>2. CASE SweepTake(v)
        BY <4>2, SweepTakeFacts
      <4>3. CASE SweepSave(v)
        BY <4>3, SweepSaveFacts
      <4>4. CASE SweepPurge(v)
        BY <4>4, SweepPurgeFacts
      <4> QED BY <1>3, <4>1, <4>2, <4>3, <4>4 DEF Sweep
    <3> QED BY <1>3, <2>2, <2>3, <3>1
  <2>4. CASE v = w
    <3>1. CASE SweepExpire(w)
      <4>1. sweep'[w].phase = "expired"
        BY <2>1, <3>1 DEF SweepExpire
      <4> QED BY <4>1
    <3>2. CASE SweepTake(w)
      <4>1. PICK x : /\ sweep' = [sweep EXCEPT ![w] = x]
                     /\ \/ x \in PlainSweep
                        \/ x \in TakenSweep /\ x.cursor = mem'
        BY <3>2, SweepTakeFacts
      <4>2. sweep'[w] = x
        BY <2>1, <4>1
      <4>3. x \notin PlainSweep
        BY <4>2 DEF PlainSweep
      <4> QED BY <3>2, <4>1, <4>2, <4>3
    <3>3. CASE SweepSave(w)
      <4>1. PICK x \in PlainSweep : sweep' = [sweep EXCEPT ![w] = x]
        BY <3>3, SweepSaveFacts
      <4>2. sweep'[w] = x
        BY <2>1, <4>1
      <4> QED BY <4>2 DEF PlainSweep
    <3>4. CASE SweepPurge(w)
      <4>1. sweep'[w] = Idle
        BY <2>1, <3>4, SweepPurgeFacts
      <4> QED BY <4>1 DEF Idle
    <3> QED BY <1>3, <2>4, <3>1, <3>2, <3>3, <3>4 DEF Sweep
  <2> QED BY <2>3, <2>4
<1>4. CASE \/ AppendEntry \/ AckCommit \/ AckPublish \/ NackCommit \/ CommitFails
           \/ UNCHANGED vars
           \/ \E x \in Seqs : Store(x) \/ AbortEntry(x) \/ NackApply(x) \/ Elapse(x)
           \/ \E S \in AckInputs : AckBegin(S)
  <2>1. sweep' = sweep
    BY <1>4 DEF AppendEntry, AckCommit, AckPublish, NackCommit, CommitFails, vars, Store,
                AbortEntry, NackApply, Elapse, AckBegin
  <2> QED BY <1>1, <1>2, <2>1
<1> QED BY <1>1, <1>3, <1>4 DEF Next

\* What is published is in the past.
LEMMA PublishedPast ==
    ASSUME KeptInv, NEW S \in SUBSET Seqs, \A s \in S : s <= Published
    PROVE  Past(S)
<1>1. /\ Published <= durIssued /\ Published \in Nat /\ durIssued \in Nat
      /\ \A s \in inflight : s > Published
  BY PublishedDurable, PublishedFacts DEF KeptInv, TypeInv, MailTypes
<1>2. ASSUME NEW s \in S PROVE s \in 1..durIssued /\ s \notin inflight
  <2>1. s \in Nat /\ s > 0 /\ s <= Published
    BY DEF Seqs
  <2>2. s \in 1..durIssued
    BY <1>1, <2>1
  <2>3. ~(s > Published)
    BY <1>1, <2>1
  <2> QED BY <1>1, <2>2, <2>3
<1> QED BY <1>2 DEF Past

\* A session acknowledges what is published, and makes room below it.
Guarded == Busy => Past(lease.acks \union lease.cand.retired)

LEMMA GuardedAckBegin ==
    ASSUME KeptInv, AckAbove = FALSE, NEW S \in AckInputs, AckBegin(S)
    PROVE  Past(lease'.acks \union lease'.cand.retired)
<1>1. /\ lease' \in AckLease /\ lease'.acks \subseteq S /\ S \in SUBSET Seqs
      /\ \A x \in lease'.cand.retired : \E s \in S : x < s
      /\ \A s \in S : s <= Published
  BY AckBeginFacts DEF KeptInv
<1>2. lease'.cand.retired \in SUBSET Seqs
  BY <1>1 DEF AckLease, MailboxType
<1>3. Published \in Nat
  BY PublishedFacts DEF KeptInv, TypeInv
<1>4. ASSUME NEW x \in lease'.cand.retired PROVE x <= Published
  <2>1. PICK s \in S : x < s
    BY <1>1
  <2>2. x \in Nat /\ s \in Nat
    BY <1>1, <1>2 DEF Seqs
  <2>3. s <= Published
    BY <1>1
  <2> QED BY <1>3, <2>1, <2>2, <2>3
<1>5. PICK T \in SUBSET Seqs : T = lease'.acks \union lease'.cand.retired
  BY <1>1, <1>2
<1>6. \A s \in T : s <= Published
  BY <1>1, <1>4, <1>5
<1> QED BY <1>5, <1>6, PublishedPast

LEMMA GuardedStep ==
    ASSUME KeptInv, Guarded, AckAbove = FALSE, [Next]_vars
    PROVE  Guarded'
<1>1. TypeInv
  BY DEF KeptInv
<1>2. ASSUME lease'.phase \in {"ack", "committed"}
      PROVE  Past(lease.acks \union lease.cand.retired)'
  <2>1. PICK S : S = lease'.acks \union lease'.cand.retired
    OBVIOUS
  <2>2. Past(S)
    <3>1. CASE lease' = lease
      BY <1>2, <2>1, <3>1 DEF Guarded, Busy
    <3>2. CASE \E T \in AckInputs : AckBegin(T)
      BY <2>1, <3>2, GuardedAckBegin
    <3>3. CASE AckCommit
      <4>1. lease.phase = "ack" /\ lease'.acks = lease.acks /\ lease'.cand = lease.cand
        BY <1>1, <3>3, AckCommitFacts
      <4> QED BY <2>1, <4>1 DEF Guarded, Busy
    <3>4. CASE \E s \in Seqs : NackApply(s)
      BY <1>1, <1>2, <3>4, NackApplyFacts
    <3>5. CASE lease' = Idle
      BY <1>2, <3>5 DEF Idle
    <3> QED BY <3>1, <3>2, <3>3, <3>4, <3>5, LeaseMoves
  <2>3. S \subseteq 1..durIssued' /\ S \intersect inflight' = {}
    BY <2>2, PastStable
  <2> QED BY <2>1, <2>3 DEF Past
<1> QED BY <1>2 DEF Guarded, Busy

\* Nothing marked is in flight.
MarksPast ==
    /\ Past(Marks(mem)) /\ Past(Marks(cur))
    /\ lease.phase # "idle" => Past(Marks(lease.cand))
    /\ \A w \in Sweepers : Taken(w) => Past(Marks(sweep[w].cursor))

LEMMA MarksPastMem ==
    ASSUME KeptInv, Guarded, MarksPast, [Next]_vars
    PROVE  Past(Marks(mem'))
<1>1. TypeInv
  BY DEF KeptInv
<1>2. CASE Marks(mem') \subseteq Marks(mem)
  BY <1>2 DEF MarksPast, Past
<1>3. CASE AckPublish
  <2>1. Marks(mem') \subseteq Marks(mem) \union Marks(lease.cand) /\ lease.phase = "committed"
    BY <1>1, <1>3, MarksAckPublish DEF AckPublish
  <2> QED BY <2>1 DEF MarksPast, Past
<1>4. ASSUME NEW s \in Seqs, NackApply(s) PROVE Past(Marks(mem'))
  <2>1. Marks(mem') \subseteq Marks(mem) \union mem'.retired
    BY <1>1, <1>4, MarksNackApply
  <2>2. mem'.retired \subseteq {s} /\ s <= Published
    BY <1>1, <1>4, NackApplyFacts
  <2>3. PICK S \in SUBSET Seqs : S = mem'.retired
    BY <2>2
  <2>4. Past(S)
    BY <2>2, <2>3, PublishedPast
  <2> QED BY <2>1, <2>3, <2>4 DEF MarksPast, Past
<1>5. CASE Crash
  <2>1. Marks(mem') \subseteq Marks(cur)
    BY <1>1, <1>5, MarksCrash
  <2> QED BY <2>1 DEF MarksPast, Past
<1> QED BY <1>1, <1>2, <1>3, <1>4, <1>5, MarksMoves

LEMMA MarksPastCur ==
    ASSUME KeptInv, MarksPast, [Next]_vars
    PROVE  Past(Marks(cur'))
<1>1. TypeInv
  BY DEF KeptInv
<1>2. ASSUME NEW c, NEW visible, NEW base, NEW byKey, NEW p, Past(Marks(c)),
             Checkpointed(c, visible, base, byKey, p)
      PROVE  Past(Marks(cur'))
  <2>1. Marks(cur') \subseteq Marks(cur) \union Marks(c)
    BY <1>2, MarksCheckpoint
  <2> QED BY <1>2, <2>1 DEF MarksPast, Past
<1>3. CASE cur' = cur
  BY <1>3 DEF MarksPast
<1>4. CASE AckCommit
  <2>1. PICK c \in MailboxType :
           /\ c.acked = lease.cand.acked /\ c.dead = lease.cand.dead
           /\ c.last = lease.cand.last
           /\ Checkpointed(c, rows, rows, c.retired, Published)
    BY <1>1, <1>4, AckCommitCheckpoint
  <2>2. lease.phase = "ack"
    BY <1>1, <1>4, AckCommitFacts
  <2>3. Past(Marks(c))
    BY <2>1, <2>2 DEF MarksPast, Marks
  <2> QED BY <1>2, <2>1, <2>3
<1>5. CASE NackCommit
  <2>1. /\ lease.phase = "nack"
        /\ Checkpointed(lease.cand, rows, rows, lease.cand.retired, Published)
    BY <1>1, <1>5, NackCommitCheckpoint
  <2>2. Past(Marks(lease.cand))
    BY <2>1 DEF MarksPast
  <2> QED BY <1>2, <2>1, <2>2
<1>6. ASSUME NEW w \in Sweepers, SweepSave(w) PROVE Past(Marks(cur'))
  <2>1. Checkpointed(sweep[w].cursor, rows, rows, RetentionKeys(sweep[w].cursor), Published)
    BY <1>1, <1>6, SweepSaveCheckpoint
  <2>2. Past(Marks(sweep[w].cursor))
    BY <1>6 DEF MarksPast, SweepSave, Taken
  <2> QED BY <1>2, <2>1, <2>2
<1>7. ASSUME NEW w \in Sweepers, SweepPurge(w), ~UNCHANGED <<cur, rows, durIssued>>
      PROVE  Past(Marks(cur'))
  <2>1. PICK c \in MailboxType, live \in SUBSET log :
           /\ c.acked = cur.acked /\ c.dead = cur.dead /\ c.last = cur.last
           /\ Checkpointed(c, live, live, RetentionKeys(c), Published)
    BY <1>1, <1>7, SweepPurgeCheckpoint
  <2>2. Past(Marks(c))
    BY <2>1 DEF MarksPast, Marks
  <2> QED BY <1>2, <2>1, <2>2
<1>8. CASE Crash
  <2>1. CASE UNCHANGED <<cur, rows, durIssued>>
    BY <1>3, <2>1
  <2>2. CASE Checkpointed(mem', Restored, Recovered, RetentionKeys(mem'), durIssued)
    <3>1. Marks(mem') \subseteq Marks(cur)
      BY <1>1, <1>8, MarksCrash
    <3>2. Past(Marks(mem'))
      BY <3>1 DEF MarksPast, Past
    <3> QED BY <1>2, <2>2, <3>2
  <2> QED BY <1>1, <1>8, <2>1, <2>2, CrashCheckpoint
<1> QED BY <1>1, <1>3, <1>4, <1>5, <1>6, <1>7, <1>8, CursorMoves

LEMMA MarksPastCand ==
    ASSUME KeptInv, Guarded, MarksPast, AckAbove = FALSE, [Next]_vars, lease'.phase # "idle"
    PROVE  Past(Marks(lease'.cand))
<1>1. TypeInv
  BY DEF KeptInv
<1>2. CASE lease' = lease
  BY <1>2 DEF MarksPast
<1>3. ASSUME NEW T \in AckInputs, AckBegin(T) PROVE Past(Marks(lease'.cand))
  <2>1. Marks(lease'.cand) \subseteq Marks(mem) \union (lease'.acks \union lease'.cand.retired)
    BY <1>1, <1>3, MarksAckBegin
  <2>2. Past(lease'.acks \union lease'.cand.retired)
    BY <1>3, GuardedAckBegin
  <2> QED BY <2>1, <2>2 DEF MarksPast, Past
<1>4. CASE AckCommit
  <2>1. lease.phase = "ack" /\ lease'.cand = lease.cand
    BY <1>1, <1>4, AckCommitFacts
  <2> QED BY <2>1 DEF MarksPast
<1>5. ASSUME NEW s \in Seqs, NackApply(s) PROVE Past(Marks(lease'.cand))
  <2>1. lease'.cand = mem'
    BY <1>1, <1>5, NackApplyFacts
  <2> QED BY <2>1, MarksPastMem
<1>6. CASE lease' = Idle
  BY <1>6 DEF Idle
<1> QED BY <1>2, <1>3, <1>4, <1>5, <1>6, LeaseMoves

LEMMA MarksPastStep ==
    ASSUME KeptInv, Guarded, MarksPast, AckAbove = FALSE, [Next]_vars
    PROVE  MarksPast'
<1>1. TypeInv
  BY DEF KeptInv
<1>2. ASSUME NEW c, Past(Marks(c))
      PROVE  Marks(c) \subseteq 1..durIssued' /\ Marks(c) \intersect inflight' = {}
  BY <1>2, PastStable
<1>3. Past(Marks(mem))'
  <2>1. PICK c : c = mem'
    OBVIOUS
  <2>2. Marks(c) \subseteq 1..durIssued' /\ Marks(c) \intersect inflight' = {}
    BY <1>2, <2>1, MarksPastMem
  <2> QED BY <2>1, <2>2 DEF Past, Marks
<1>4. Past(Marks(cur))'
  <2>1. PICK c : c = cur'
    OBVIOUS
  <2>2. Marks(c) \subseteq 1..durIssued' /\ Marks(c) \intersect inflight' = {}
    BY <1>2, <2>1, MarksPastCur
  <2> QED BY <2>1, <2>2 DEF Past, Marks
<1>5. ASSUME lease'.phase # "idle" PROVE Past(Marks(lease.cand))'
  <2>1. PICK c : c = lease'.cand
    OBVIOUS
  <2>2. Marks(c) \subseteq 1..durIssued' /\ Marks(c) \intersect inflight' = {}
    BY <1>2, <1>5, <2>1, MarksPastCand
  <2> QED BY <2>1, <2>2 DEF Past, Marks
<1>6. ASSUME NEW w \in Sweepers, sweep'[w].phase = "taken"
      PROVE  Past(Marks(sweep[w].cursor))'
  <2>1. PICK c : c = sweep'[w].cursor
    OBVIOUS
  <2>2. Past(Marks(c))
    <3>1. CASE Taken(w) /\ sweep'[w].cursor = sweep[w].cursor
      BY <2>1, <3>1 DEF MarksPast
    <3>2. CASE SweepTake(w) /\ sweep'[w].cursor = mem'
      BY <2>1, <3>2, MarksPastMem
    <3> QED BY <1>1, <1>6, <3>1, <3>2, SweepMoves
  <2>3. Marks(c) \subseteq 1..durIssued' /\ Marks(c) \intersect inflight' = {}
    BY <1>2, <2>2
  <2> QED BY <2>1, <2>3 DEF Past, Marks
<1> QED BY <1>3, <1>4, <1>5, <1>6 DEF MarksPast, Taken

\* The durable prefix covers no row, and a mark has a row beside it only while
\* its retirement is on its way.
RowsAhead == \A s \in rows : s > cur.settled

MarksGone ==
    /\ Marks(cur) \intersect rows = {}
    /\ \A s \in Marks(mem) \intersect rows : Nacked(s)
    /\ Busy => Marks(lease.cand) \intersect rows \subseteq lease.acks \union lease.cand.retired
    /\ lease.phase = "committed" => (lease.acks \union lease.cand.retired) \intersect rows = {}
    /\ lease.phase = "nack" => Marks(lease.cand) \intersect rows \subseteq lease.cand.retired
    /\ \A w \in Sweepers :
          Taken(w) => Marks(sweep[w].cursor) \intersect rows \subseteq sweep[w].cursor.retired

\* A checkpoint keeps the store truthful if the copy retires every row it marks.
LEMMA CheckpointTruth ==
    ASSUME NEW c \in MailboxType, NEW visible, NEW base \in SUBSET Seqs, NEW byKey, NEW p,
           cur \in CursorType, Checkpointed(c, visible, base, byKey, p),
           ~Wal => base = visible /\ c.retired \subseteq byKey,
           \A s \in base : s > cur.settled,
           Marks(cur) \intersect base = {}, Marks(c) \intersect base \subseteq c.retired
    PROVE  /\ \A s \in rows' : s > cur'.settled
           /\ Marks(cur') \intersect rows' = {}
           /\ c.retired \intersect rows' = {}
           /\ rows' \subseteq base
<1>1. rows' \subseteq base /\ c.retired \intersect rows' = {}
  BY DEF Checkpointed
<1>2. Marks(cur') \intersect rows' = {}
  <2>1. Marks(cur') \subseteq Marks(cur) \union Marks(c)
    BY MarksCheckpoint
  <2> QED BY <1>1, <2>1
<1>3. ASSUME NEW s \in rows' PROVE s > cur'.settled
  <2>1. s \in base /\ s > cur.settled /\ s \in Nat /\ s # 0 /\ cur.settled \in Nat
    BY <1>1 DEF Seqs, CursorType
  <2>2. CASE Wal
    BY <2>1, <2>2 DEF Checkpointed
  <2>3. CASE ~Wal
    <3>1. s > cur'.settled \/ Passed(c, s)
      BY <2>1, <2>3 DEF Checkpointed
    <3>2. ~(s <= cur.settled)
      BY <2>1
    <3>3. s \notin Marks(cur) \union Marks(c) \union c.retired
      BY <1>1, <2>1
    <3>4. ~Passed(c, s)
      BY <2>1, <3>2, <3>3 DEF Passed, Marks
    <3> QED BY <3>1, <3>4
  <2> QED BY <2>2, <2>3
<1> QED BY <1>1, <1>2, <1>3

\* The log is read again through a cursor that covers its marks.
CursorCovered == \A s \in Marks(cur) : Covers(cur, s)

LEMMA RecoveredTruth ==
    ASSUME TypeInv, RowsAhead, MarksGone, Wal => CursorCovered
    PROVE  /\ \A s \in Recovered : s > cur.settled
           /\ Marks(cur) \intersect Recovered = {}
<1>1. CASE ~Wal
  BY <1>1 DEF Recovered, RowsAhead, MarksGone
<1>2. CASE Wal
  <2>1. \A s \in Recovered : s > cur.settled /\ s \notin cur.acked
    BY <1>2 DEF Recovered, Above
  <2>2. Recovered \subseteq Seqs
    BY <1>2 DEF Recovered, Above, TypeInv, MailTypes
  <2>3. ASSUME NEW s \in Recovered PROVE s \notin Marks(cur)
    <3>1. s \in Nat /\ cur.settled \in Nat
      BY <2>2 DEF Seqs, TypeInv, MailTypes, CursorType
    <3>2. ~Covers(cur, s)
      BY <2>1, <3>1 DEF Covers
    <3> QED BY <1>2, <3>2 DEF CursorCovered
  <2> QED BY <2>1, <2>3
<1> QED BY <1>1, <1>2

\* What a step leaves in the store.
LEMMA StoreTruth ==
    ASSUME KeptInv, MarksPast, MarksGone, RowsAhead, Wal => CursorCovered, [Next]_vars
    PROVE  /\ \A s \in rows' : s > cur'.settled
           /\ Marks(cur') \intersect rows' = {}
           /\ AckCommit => (lease.acks \union lease.cand.retired) \intersect rows' = {}
           /\ NackCommit => lease.cand.retired \intersect rows' = {}
           /\ Crash => Marks(mem') \intersect rows' = {}
<1>1. /\ TypeInv /\ cur \in CursorType /\ cur.settled \in Nat /\ rows \in SUBSET Seqs
      /\ log \in SUBSET Seqs
  BY DEF KeptInv, TypeInv, MailTypes, CursorType
<1>2. (\A s \in rows : s > cur.settled) /\ Marks(cur) \intersect rows = {}
  BY DEF RowsAhead, MarksGone
<1>3. ASSUME cur' = cur, \A s \in rows' : s \in rows \/ s \in inflight
      PROVE  /\ \A s \in rows' : s > cur'.settled
             /\ Marks(cur') \intersect rows' = {}
  <2>1. \A s \in inflight : s > cur.settled
    <3>1. inflight \subseteq Nat
      BY <1>1 DEF TypeInv, MailTypes, MailboxType
    <3> QED BY <1>1, <3>1 DEF KeptInv, Counters
  <2>2. Marks(cur) \intersect inflight = {}
    BY DEF MarksPast, Past
  <2> QED BY <1>2, <1>3, <2>1, <2>2
<1>4. ASSUME AckCommit
      PROVE  /\ \A s \in rows' : s > cur'.settled
             /\ Marks(cur') \intersect rows' = {}
             /\ (lease.acks \union lease.cand.retired) \intersect rows' = {}
  <2>1. PICK c \in MailboxType :
           /\ c.acked = lease.cand.acked /\ c.dead = lease.cand.dead
           /\ c.last = lease.cand.last /\ c.retired = lease.cand.retired \union lease.acks
           /\ Checkpointed(c, rows, rows, c.retired, Published)
    BY <1>1, <1>4, AckCommitCheckpoint
  <2>2. lease.phase = "ack"
    BY <1>4 DEF AckCommit
  <2>3. Marks(c) = Marks(lease.cand)
    BY <2>1 DEF Marks
  <2>4. Marks(c) \intersect rows \subseteq c.retired
    BY <2>1, <2>2, <2>3 DEF MarksGone, Busy
  <2>5. /\ \A s \in rows' : s > cur'.settled
        /\ Marks(cur') \intersect rows' = {}
        /\ c.retired \intersect rows' = {}
    BY <1>1, <1>2, <2>1, <2>4, CheckpointTruth
  <2> QED BY <2>1, <2>5
<1>5. ASSUME NackCommit
      PROVE  /\ \A s \in rows' : s > cur'.settled
             /\ Marks(cur') \intersect rows' = {}
             /\ lease.cand.retired \intersect rows' = {}
  <2>1. /\ lease.phase = "nack" /\ lease.cand \in MailboxType
        /\ Checkpointed(lease.cand, rows, rows, lease.cand.retired, Published)
    BY <1>1, <1>5, NackCommitCheckpoint
  <2>2. Marks(lease.cand) \intersect rows \subseteq lease.cand.retired
    BY <2>1 DEF MarksGone
  <2> QED BY <1>1, <1>2, <2>1, <2>2, CheckpointTruth
<1>6. ASSUME NEW w \in Sweepers, SweepSave(w)
      PROVE  /\ \A s \in rows' : s > cur'.settled
             /\ Marks(cur') \intersect rows' = {}
  <2>1. PICK c \in MailboxType : c = sweep[w].cursor
    BY <1>1, <1>6, SweepSaveFacts
  <2>2. Checkpointed(c, rows, rows, RetentionKeys(c), Published)
    BY <1>1, <1>6, <2>1, SweepSaveCheckpoint
  <2>3. Marks(c) \intersect rows \subseteq c.retired
    BY <1>6, <2>1 DEF MarksGone, SweepSave, Taken
  <2>4. c.retired \subseteq RetentionKeys(c)
    BY DEF RetentionKeys
  <2> QED BY <1>1, <1>2, <2>2, <2>3, <2>4, CheckpointTruth
<1>7. ASSUME NEW w \in Sweepers, SweepPurge(w), ~UNCHANGED <<cur, rows, durIssued>>
      PROVE  /\ \A s \in rows' : s > cur'.settled
             /\ Marks(cur') \intersect rows' = {}
  <2>1. PICK c \in MailboxType, live \in SUBSET log :
           /\ c.acked = cur.acked /\ c.dead = cur.dead /\ c.last = cur.last
           /\ c.retired = {} /\ live = rows \ sweep[w].horizon
           /\ Checkpointed(c, live, live, RetentionKeys(c), Published)
    BY <1>1, <1>7, SweepPurgeCheckpoint
  <2>2. Marks(c) = Marks(cur)
    BY <2>1 DEF Marks
  <2>3. /\ \A s \in live : s > cur.settled
        /\ Marks(cur) \intersect live = {} /\ Marks(c) \intersect live \subseteq c.retired
        /\ live \in SUBSET Seqs
    BY <1>1, <1>2, <2>1, <2>2
  <2>4. c.retired \subseteq RetentionKeys(c)
    BY <2>1
  <2> QED BY <1>1, <2>1, <2>3, <2>4, CheckpointTruth
<1>8. ASSUME Crash
      PROVE  /\ \A s \in rows' : s > cur'.settled
             /\ Marks(cur') \intersect rows' = {}
             /\ Marks(mem') \intersect rows' = {}
  <2>1. Marks(mem') \subseteq Marks(cur)
    BY <1>1, <1>8, MarksCrash
  <2>2. (\A s \in Recovered : s > cur.settled) /\ Marks(cur) \intersect Recovered = {}
    BY <1>1, RecoveredTruth
  <2>3. CASE UNCHANGED <<cur, rows, durIssued>>
    BY <1>2, <2>1, <2>3
  <2>4. CASE Checkpointed(mem', Restored, Recovered, RetentionKeys(mem'), durIssued)
    <3>1. PICK c \in MailboxType, base \in SUBSET Seqs : c = mem' /\ base = Recovered /\ c.retired = {}
      BY <1>1, <1>8, CrashFacts
    <3>2. Checkpointed(c, Restored, base, RetentionKeys(c), durIssued)
      BY <2>4, <3>1 DEF RetentionKeys
    <3>3. ~Wal => base = Restored /\ c.retired \subseteq RetentionKeys(c)
      BY <3>1 DEF Restored
    <3>4. /\ \A s \in base : s > cur.settled
          /\ Marks(cur) \intersect base = {} /\ Marks(c) \intersect base \subseteq c.retired
      BY <2>1, <2>2, <3>1
    <3>5. /\ \A s \in rows' : s > cur'.settled
          /\ Marks(cur') \intersect rows' = {} /\ rows' \subseteq base
      BY <1>1, <3>2, <3>3, <3>4, CheckpointTruth
    <3> QED BY <2>1, <3>4, <3>5
  <2> QED BY <1>1, <1>8, <2>3, <2>4, CrashCheckpoint
<1>9. /\ \A s \in rows' : s > cur'.settled
      /\ Marks(cur') \intersect rows' = {}
  BY <1>1, <1>3, <1>4, <1>5, <1>6, <1>7, <1>8, CursorMoves
<1> QED BY <1>4, <1>5, <1>8, <1>9

\* A row beside something marked was there before the step.
LEMMA RowsOfPast ==
    ASSUME TypeInv, [Next]_vars, ~(Wal /\ Crash), NEW S, Past(S)
    PROVE  S \intersect rows' \subseteq rows
<1>1. \A s \in rows' : s \in rows \/ s \in inflight
  BY RowsStep
<1> QED BY <1>1 DEF Past

TruthFacts == KeptInv /\ Guarded /\ MarksPast /\ MarksGone /\ RowsAhead /\ (Wal => CursorCovered)

\* After a step a mark of the shard's cursor has a row only while a negative
\* acknowledgement is being committed.
LEMMA MarksGoneMem ==
    ASSUME TruthFacts, "nack" \notin Failures, [Next]_vars,
           NEW s \in Marks(mem') \intersect rows'
    PROVE  lease'.phase = "nack" /\ s \in mem'.retired /\ s \in lease'.cand.retired
<1>1. TypeInv
  BY DEF TruthFacts, KeptInv
<1>2. CASE Crash
  BY <1>2, StoreTruth DEF TruthFacts
<1>3. CASE ~Crash /\ Marks(mem') \subseteq Marks(mem) /\ mem'.retired = mem.retired
  <2>1. s \in Marks(mem) /\ s \in rows
    <3>1. Past(Marks(mem))
      BY DEF TruthFacts, MarksPast
    <3> QED BY <1>1, <1>3, <3>1, RowsOfPast
  <2>2. lease.phase = "nack" /\ s \in mem.retired /\ s \in lease.cand.retired
    BY <2>1 DEF TruthFacts, MarksGone, Nacked
  <2>3. lease' = lease
    <3>1. CASE \/ \E S \in AckInputs : AckBegin(S)
               \/ AckCommit
               \/ \E x \in Seqs : NackApply(x)
      BY <2>2, <3>1 DEF AckBegin, AckCommit, NackApply, Idle
    <3>2. CASE lease' = Idle
      <4>1. NackCommit => FALSE
        BY <2>2, StoreTruth DEF TruthFacts
      <4>2. ~AckPublish /\ ~CommitFails
        BY <2>2 DEF AckPublish, CommitFails
      <4>3. CASE UNCHANGED vars
        BY <4>3 DEF vars
      <4>4. CASE AppendEntry \/ \E x \in Seqs : Store(x) \/ AbortEntry(x) \/ Elapse(x)
        BY <4>4 DEF AppendEntry, Store, AbortEntry, Elapse
      <4>5. CASE \E w \in Sweepers : Sweep(w)
        BY <4>5 DEF Sweep, SweepExpire, SweepTake, SweepSave, SweepPurge
      <4> QED BY <1>3, <3>1, <4>1, <4>2, <4>3, <4>4, <4>5 DEF Next
    <3> QED BY <3>1, <3>2, LeaseMoves
  <2> QED BY <1>3, <2>2, <2>3
<1>4. CASE AckPublish
  <2>1. rows' = rows /\ lease.phase = "committed"
    BY <1>4 DEF AckPublish
  <2>2. s \in Marks(mem) \union Marks(lease.cand)
    BY <1>1, <1>4, MarksAckPublish
  <2>3. s \notin Marks(mem)
    BY <2>1 DEF TruthFacts, MarksGone, Nacked
  <2>4. s \notin Marks(lease.cand)
    BY <2>1 DEF TruthFacts, MarksGone, Busy
  <2> QED BY <2>2, <2>3, <2>4
<1>5. ASSUME NEW x \in Seqs, NackApply(x)
      PROVE  lease'.phase = "nack" /\ s \in mem'.retired /\ s \in lease'.cand.retired
  <2>1. rows' = rows /\ lease = Idle
    BY <1>5 DEF NackApply
  <2>2. s \in Marks(mem) \union mem'.retired
    BY <1>1, <1>5, MarksNackApply
  <2>3. s \notin Marks(mem)
    BY <2>1 DEF TruthFacts, MarksGone, Nacked, Idle
  <2>4. lease'.phase = "nack" /\ lease'.cand = mem'
    BY <1>1, <1>5, NackApplyFacts
  <2> QED BY <2>2, <2>3, <2>4
<1> QED BY <1>1, <1>2, <1>3, <1>4, <1>5, MarksMoves

LEMMA MarksGoneAck ==
    ASSUME TruthFacts, [Next]_vars, lease'.phase \in {"ack", "committed"}
    PROVE  Marks(lease'.cand) \intersect rows' \subseteq lease'.acks \union lease'.cand.retired
<1>1. TypeInv
  BY DEF TruthFacts, KeptInv
<1>2. ASSUME Busy, lease'.acks = lease.acks, lease'.cand = lease.cand, ~Crash
      PROVE  Marks(lease'.cand) \intersect rows' \subseteq lease'.acks \union lease'.cand.retired
  <2>1. Past(Marks(lease.cand))
    BY <1>2 DEF TruthFacts, MarksPast, Busy
  <2>2. Marks(lease.cand) \intersect rows' \subseteq rows
    BY <1>1, <1>2, <2>1, RowsOfPast
  <2> QED BY <1>2, <2>2 DEF TruthFacts, MarksGone
<1>3. ~Crash
  BY DEF Crash, Idle
<1>4. CASE lease' = lease
  BY <1>2, <1>3, <1>4 DEF Busy
<1>5. ASSUME NEW T \in AckInputs, AckBegin(T)
      PROVE  Marks(lease'.cand) \intersect rows' \subseteq lease'.acks \union lease'.cand.retired
  <2>1. Marks(lease'.cand) \subseteq Marks(mem) \union (lease'.acks \union lease'.cand.retired)
    BY <1>1, <1>5, MarksAckBegin
  <2>2. rows' = rows /\ lease = Idle
    BY <1>5 DEF AckBegin
  <2>3. Marks(mem) \intersect rows = {}
    BY <2>2 DEF TruthFacts, MarksGone, Nacked, Idle
  <2> QED BY <2>1, <2>2, <2>3
<1>6. CASE AckCommit
  <2>1. lease.phase = "ack" /\ lease'.acks = lease.acks /\ lease'.cand = lease.cand
    BY <1>1, <1>6, AckCommitFacts
  <2> QED BY <1>2, <1>3, <2>1 DEF Busy
<1>7. CASE \E x \in Seqs : NackApply(x)
  BY <1>1, <1>7, NackApplyFacts
<1>8. CASE lease' = Idle
  BY <1>8 DEF Idle
<1> QED BY <1>4, <1>5, <1>6, <1>7, <1>8, LeaseMoves

LEMMA MarksGoneCommitted ==
    ASSUME TruthFacts, [Next]_vars, lease'.phase = "committed"
    PROVE  (lease'.acks \union lease'.cand.retired) \intersect rows' = {}
<1>1. TypeInv
  BY DEF TruthFacts, KeptInv
<1>2. ~Crash
  BY DEF Crash, Idle
<1>3. CASE lease' = lease
  <2>1. PICK S : S = lease.acks \union lease.cand.retired
    OBVIOUS
  <2>2. Past(S)
    BY <1>3, <2>1 DEF TruthFacts, Guarded, Busy
  <2>3. S \intersect rows' \subseteq rows
    BY <1>1, <1>2, <2>2, RowsOfPast
  <2>4. S \intersect rows = {}
    BY <1>3, <2>1 DEF TruthFacts, MarksGone
  <2> QED BY <1>3, <2>1, <2>3, <2>4
<1>4. CASE \E T \in AckInputs : AckBegin(T)
  BY <1>1, <1>4, AckBeginFacts
<1>5. CASE AckCommit
  <2>1. lease'.acks = lease.acks /\ lease'.cand = lease.cand
    BY <1>1, <1>5, AckCommitFacts
  <2> QED BY <1>5, <2>1, StoreTruth DEF TruthFacts
<1>6. CASE \E x \in Seqs : NackApply(x)
  BY <1>1, <1>6, NackApplyFacts
<1>7. CASE lease' = Idle
  BY <1>7 DEF Idle
<1> QED BY <1>3, <1>4, <1>5, <1>6, <1>7, LeaseMoves

LEMMA MarksGoneNack ==
    ASSUME TruthFacts, "nack" \notin Failures, [Next]_vars, lease'.phase = "nack"
    PROVE  Marks(lease'.cand) \intersect rows' \subseteq lease'.cand.retired
<1>1. TypeInv
  BY DEF TruthFacts, KeptInv
<1>2. ~Crash
  BY DEF Crash, Idle
<1>3. CASE lease' = lease
  <2>1. Past(Marks(lease.cand))
    BY <1>3 DEF TruthFacts, MarksPast
  <2>2. Marks(lease.cand) \intersect rows' \subseteq rows
    BY <1>1, <1>2, <2>1, RowsOfPast
  <2> QED BY <1>3, <2>2 DEF TruthFacts, MarksGone
<1>4. CASE \E T \in AckInputs : AckBegin(T)
  BY <1>1, <1>4, AckBeginFacts
<1>5. CASE AckCommit
  BY <1>1, <1>5, AckCommitFacts
<1>6. ASSUME NEW x \in Seqs, NackApply(x)
      PROVE  Marks(lease'.cand) \intersect rows' \subseteq lease'.cand.retired
  <2>1. lease'.cand = mem'
    BY <1>1, <1>6, NackApplyFacts
  <2> QED BY <2>1, MarksGoneMem
<1>7. CASE lease' = Idle
  BY <1>7 DEF Idle
<1> QED BY <1>3, <1>4, <1>5, <1>6, <1>7, LeaseMoves

LEMMA MarksGoneStep ==
    ASSUME TruthFacts, "nack" \notin Failures, [Next]_vars
    PROVE  MarksGone' /\ RowsAhead'
<1>1. TypeInv
  BY DEF TruthFacts, KeptInv
<1>2. (\A s \in rows' : s > cur'.settled) /\ Marks(cur') \intersect rows' = {}
  BY StoreTruth DEF TruthFacts
<1>3. ASSUME NEW w \in Sweepers, sweep'[w].phase = "taken"
      PROVE  Marks(sweep'[w].cursor) \intersect rows' \subseteq sweep'[w].cursor.retired
  <2>1. CASE Taken(w) /\ sweep'[w].cursor = sweep[w].cursor /\ ~Crash
    <3>1. Past(Marks(sweep[w].cursor))
      BY <2>1 DEF TruthFacts, MarksPast
    <3>2. Marks(sweep[w].cursor) \intersect rows' \subseteq rows
      BY <1>1, <2>1, <3>1, RowsOfPast
    <3> QED BY <2>1, <3>2 DEF TruthFacts, MarksGone
  <2>2. CASE SweepTake(w) /\ sweep'[w].cursor = mem'
    BY <2>2, MarksGoneMem
  <2> QED BY <1>1, <1>3, <2>1, <2>2, SweepMoves
<1>4. \A s \in Marks(mem') \intersect rows' :
         lease'.phase = "nack" /\ s \in rows' /\ s \in mem'.retired /\ s \in lease'.cand.retired
  BY MarksGoneMem
<1>5. lease'.phase \in {"ack", "committed"} =>
         Marks(lease'.cand) \intersect rows' \subseteq lease'.acks \union lease'.cand.retired
  BY MarksGoneAck
<1>6. lease'.phase = "committed" => (lease'.acks \union lease'.cand.retired) \intersect rows' = {}
  BY MarksGoneCommitted
<1>7. lease'.phase = "nack" => Marks(lease'.cand) \intersect rows' \subseteq lease'.cand.retired
  BY MarksGoneNack
<1>8. RowsAhead'
  BY <1>2 DEF RowsAhead
<1>9. MarksGone'
  BY <1>2, <1>3, <1>4, <1>5, <1>6, <1>7 DEF MarksGone, Nacked, Busy, Taken, Marks
<1> QED BY <1>8, <1>9

\* In the submission log a mark is settled by its cursor, and a copy that is to
\* be checkpointed accounts for every row below its prefix.
Accounts(c) ==
    /\ Below(c.settled)
    /\ \A s \in Marks(c) : Covers(c, s)
    /\ \A s \in rows : s <= c.settled => Covers(cur, s) \/ s \in c.retired

MarksCovered ==
    /\ CursorCovered
    /\ \A s \in Marks(mem) : Covers(mem, s)
    /\ Busy => \A s \in Marks(lease.cand) : Covers(lease.cand, s)
    /\ lease.phase = "nack" => Accounts(lease.cand)
    /\ \A w \in Sweepers : Taken(w) => Accounts(sweep[w].cursor)

LEMMA MarksType ==
    ASSUME NEW c, c \in MailboxType \/ c \in CursorType
    PROVE  Marks(c) \subseteq Seqs
<1>1. c.dead \in BoundedSeq(Seqs, DeadLimit) /\ c.acked \in SUBSET Seqs /\ c.last \in 0..MaxSeq
  BY DEF MailboxType, CursorType
<1>2. PICK d : d = c.dead
  OBVIOUS
<1>3. ToSet(d) \subseteq Seqs
  <2>1. d \in Seq(Seqs)
    BY <1>1, <1>2, DeadList
  <2> QED BY <2>1 DEF ToSet
<1>4. {c.last} \ {0} \subseteq Seqs
  BY <1>1, BoundsAssumption DEF Seqs
<1> QED BY <1>1, <1>2, <1>3, <1>4 DEF Marks

\* The checkpoint of a copy that accounts for its rows covers what the copy covers.
LEMMA AccountsReaches ==
    ASSUME TypeInv, NEW c \in MailboxType, NEW byKey, Accounts(c),
           Checkpointed(c, rows, rows, byKey, Published)
    PROVE  \A s \in Marks(c) : Covers(cur', s)
<1>1. PICK x \in Nat : x = c.settled
  BY DEF MailboxType
<1>2. Below(x)
  BY <1>1 DEF Accounts
<1>3. c.settled <= Published /\ Published \in Nat
  BY <1>1, <1>2, BelowPublished, PublishedFacts DEF TypeInv
<1>4. ASSUME NEW s \in rows, s <= c.settled PROVE Passed(c, s)
  <2>1. Covers(cur, s) \/ s \in c.retired
    BY <1>4 DEF Accounts
  <2> QED BY <2>1 DEF Covers, Passed
<1>5. rows \subseteq Seqs
  BY DEF TypeInv, MailTypes
<1>6. \A s \in Seqs : Covers(c, s) => Covers(cur', s)
  BY <1>3, <1>4, <1>5, Reaches
<1>7. \A s \in Marks(c) : s \in Seqs /\ Covers(c, s)
  BY MarksType DEF Accounts
<1> QED BY <1>6, <1>7

LEMMA CursorCoveredStep ==
    ASSUME KeptInv, Ahead, Alone, MarksCovered, [Next]_vars
    PROVE  \A s \in Marks(cur') : Covers(cur', s)
<1>1. TypeInv /\ cur \in CursorType
  BY DEF KeptInv, TypeInv, MailTypes
<1>2. \A s \in Marks(cur) : Covers(cur', s)
  <2>1. \A s \in Marks(cur) : s \in Seqs /\ Covers(cur, s)
    BY <1>1, MarksType DEF MarksCovered, CursorCovered
  <2> QED BY <1>1, <2>1, CoversStep
<1>3. ASSUME NEW c, NEW visible, NEW base, NEW byKey, NEW p,
             Checkpointed(c, visible, base, byKey, p), \A s \in Marks(c) : Covers(cur', s)
      PROVE  \A s \in Marks(cur') : Covers(cur', s)
  <2>1. Marks(cur') \subseteq Marks(cur) \union Marks(c)
    BY <1>3, MarksCheckpoint
  <2> QED BY <1>2, <1>3, <2>1
<1>4. CASE cur' = cur
  BY <1>2, <1>4
<1>5. CASE AckCommit
  <2>1. PICK c \in MailboxType :
           /\ c.acked = lease.cand.acked /\ c.dead = lease.cand.dead
           /\ c.last = lease.cand.last
           /\ Checkpointed(c, rows, rows, c.retired, Published)
    BY <1>1, <1>5, AckCommitCheckpoint
  <2>2. lease.phase = "ack" /\ Marks(c) = Marks(lease.cand)
    BY <1>1, <1>5, <2>1, AckCommitFacts DEF Marks
  <2>3. \A s \in Marks(c) : s \in Seqs /\ Covers(lease.cand, s)
    BY <2>2, MarksType DEF MarksCovered, Busy
  <2>4. \A s \in Marks(c) : Covers(cur', s)
    BY <1>5, <2>3, AckCommitReaches
  <2> QED BY <1>3, <2>1, <2>4
<1>6. CASE NackCommit
  <2>1. /\ lease.phase = "nack" /\ lease.cand \in MailboxType
        /\ Checkpointed(lease.cand, rows, rows, lease.cand.retired, Published)
    BY <1>1, <1>6, NackCommitCheckpoint
  <2>2. Accounts(lease.cand)
    BY <2>1 DEF MarksCovered
  <2>3. \A s \in Marks(lease.cand) : Covers(cur', s)
    BY <1>1, <2>1, <2>2, AccountsReaches
  <2> QED BY <1>3, <2>1, <2>3
<1>7. ASSUME NEW w \in Sweepers, SweepSave(w)
      PROVE  \A s \in Marks(cur') : Covers(cur', s)
  <2>1. PICK c \in MailboxType : c = sweep[w].cursor
    BY <1>1, <1>7, SweepSaveFacts
  <2>2. Checkpointed(c, rows, rows, RetentionKeys(c), Published)
    BY <1>1, <1>7, <2>1, SweepSaveCheckpoint
  <2>3. Accounts(c)
    BY <1>7, <2>1 DEF MarksCovered, SweepSave, Taken
  <2>4. \A s \in Marks(c) : Covers(cur', s)
    BY <1>1, <2>2, <2>3, AccountsReaches
  <2> QED BY <1>3, <2>2, <2>4
<1>8. ASSUME NEW w \in Sweepers, SweepPurge(w), ~UNCHANGED <<cur, rows, durIssued>>
      PROVE  \A s \in Marks(cur') : Covers(cur', s)
  <2>1. PICK c \in MailboxType, live \in SUBSET log :
           /\ c.acked = cur.acked /\ c.dead = cur.dead /\ c.last = cur.last
           /\ Checkpointed(c, live, live, RetentionKeys(c), Published)
    BY <1>1, <1>8, SweepPurgeCheckpoint
  <2>2. Marks(c) = Marks(cur)
    BY <2>1 DEF Marks
  <2> QED BY <1>2, <1>3, <2>1, <2>2
<1>9. CASE Crash
  <2>1. CASE UNCHANGED <<cur, rows, durIssued>>
    BY <1>4, <2>1
  <2>2. CASE Checkpointed(mem', Restored, Recovered, RetentionKeys(mem'), durIssued)
    <3>1. Marks(mem') \subseteq Marks(cur)
      BY <1>1, <1>9, MarksCrash
    <3>2. \A s \in Marks(mem') : Covers(cur', s)
      BY <1>2, <3>1
    <3> QED BY <1>3, <2>2, <3>2
  <2> QED BY <1>1, <1>9, <2>1, <2>2, CrashCheckpoint
<1> QED BY <1>1, <1>4, <1>5, <1>6, <1>7, <1>8, <1>9, CursorMoves

LEMMA MemCoveredStep ==
    ASSUME KeptInv, MarksCovered, [Next]_vars
    PROVE  \A s \in Marks(mem') : Covers(mem', s)
<1>1. TypeInv /\ mem \in MailboxType /\ cur \in CursorType
  BY DEF KeptInv, TypeInv, MailTypes
<1>2. \A s \in Marks(mem) : s \in Seqs /\ Covers(mem, s)
  BY <1>1, MarksType DEF MarksCovered
<1>3. CASE /\ Marks(mem') \subseteq Marks(mem)
           /\ \A s \in Seqs : Covers(mem, s) => Covers(mem', s)
  BY <1>2, <1>3
<1>4. CASE AckPublish
  <2>1. Marks(mem') \subseteq Marks(mem) \union Marks(lease.cand)
    BY <1>1, <1>4, MarksAckPublish
  <2>2. /\ lease.phase = "committed" /\ lease.cand \in MailboxType /\ mem' \in MailboxType
        /\ mem.settled <= mem'.settled /\ lease.cand.settled <= mem'.settled
        /\ mem'.acked = Above(mem.acked \union lease.cand.acked, mem'.settled)
    BY <1>1, <1>4, AckPublishFacts
  <2>3. \A s \in Marks(lease.cand) : s \in Seqs /\ Covers(lease.cand, s)
    BY <2>2, MarksType DEF MarksCovered, Busy
  <2>4. mem.settled \in Nat /\ mem'.settled \in Nat /\ lease.cand.settled \in Nat
    BY <1>1, <2>2 DEF MailboxType
  <2>5. \A s \in Seqs : Covers(mem, s) \/ Covers(lease.cand, s) => Covers(mem', s)
    <3> TAKE s \in Seqs
    <3>1. s \in Nat
      BY DEF Seqs
    <3> QED BY <2>2, <2>4, <3>1 DEF Covers, Above
  <2> QED BY <1>2, <2>1, <2>3, <2>5
<1>5. ASSUME NEW x \in Seqs, NackApply(x)
      PROVE  \A s \in Marks(mem') : Covers(mem', s)
  <2>1. Marks(mem') \subseteq Marks(mem) \union mem'.retired
    BY <1>1, <1>5, MarksNackApply
  <2>2. mem' \in MailboxType /\ Settles(mem, mem', mem'.retired, Published)
    BY <1>1, <1>5, NackApplyFacts
  <2>3. mem'.retired \in SUBSET Seqs
    BY <2>2 DEF MailboxType
  <2>4. \A s \in Seqs : (Covers(mem, s) \/ s \in mem'.retired) => Covers(mem', s)
    BY <2>2 DEF Settles
  <2> QED BY <1>2, <2>1, <2>3, <2>4
<1>6. CASE Crash
  <2>1. Marks(mem') \subseteq Marks(cur)
    BY <1>1, <1>6, MarksCrash
  <2>2. /\ mem' \in MailboxType /\ cur.settled <= mem'.settled
        /\ mem'.acked = Above(cur.acked, mem'.settled)
    BY <1>1, <1>6, CrashFacts
  <2>3. \A s \in Marks(cur) : s \in Seqs /\ Covers(cur, s)
    BY <1>1, MarksType DEF MarksCovered, CursorCovered
  <2>4. cur.settled \in Nat /\ mem'.settled \in Nat
    BY <1>1, <2>2 DEF MailboxType, CursorType
  <2>5. \A s \in Seqs : Covers(cur, s) => Covers(mem', s)
    <3> TAKE s \in Seqs
    <3>1. s \in Nat
      BY DEF Seqs
    <3> QED BY <2>2, <2>4, <3>1 DEF Covers, Above
  <2> QED BY <2>1, <2>3, <2>5
<1> QED BY <1>1, <1>3, <1>4, <1>5, <1>6, MarksMoves

\* A copy goes on accounting for its rows.
LEMMA AccountsStable ==
    ASSUME KeptInv, [Next]_vars, ~Crash, NEW c \in MailboxType, Accounts(c)
    PROVE  Accounts(c)'
<1>1. TypeInv /\ rows \subseteq Seqs
  BY DEF KeptInv, TypeInv, MailTypes
<1>2. PICK x \in Nat : x = c.settled
  BY DEF MailboxType
<1>3. Below(x)
  BY <1>2 DEF Accounts
<1>4. x <= mem'.issued /\ \A s \in inflight' : x < s
  BY <1>3, BelowStable
<1>5. \A s \in rows' : s \in rows \/ s \in inflight
  BY <1>1, RowsStep
<1>6. ASSUME NEW s \in rows', s <= c.settled PROVE Covers(cur', s) \/ s \in c.retired
  <2>1. s \in rows
    <3>1. SUFFICES ASSUME s \in inflight PROVE FALSE
      BY <1>5
    <3>2. x < s
      BY <1>3, <3>1 DEF Below
    <3>3. s \in Nat
      BY <1>1, <3>1 DEF TypeInv, MailTypes, MailboxType
    <3> QED BY <1>2, <1>6, <3>2, <3>3
  <2>2. Covers(cur, s) \/ s \in c.retired
    BY <1>6, <2>1 DEF Accounts
  <2> QED BY <1>1, <2>1, <2>2, CoversStep
<1>7. \A s \in Marks(c) : Covers(c, s)
  BY DEF Accounts
<1> QED BY <1>2, <1>4, <1>6, <1>7 DEF Accounts, Below, Covers

\* The shard's cursor accounts for every row below its prefix.
LEMMA MemAccounts ==
    ASSUME KeptInv', Ahead', Alone', \A s \in Marks(mem') : Covers(mem', s),
           NEW c \in MailboxType, c = mem'
    PROVE  Accounts(c)'
<1>1. c.settled <= mem'.issued /\ \A s \in inflight' : c.settled < s
  BY DEF Ahead, Below
<1>2. \A s \in rows' : s \in Nat
  BY DEF KeptInv, TypeInv, MailTypes, Seqs
<1>3. ASSUME NEW s \in rows', s <= c.settled PROVE Covers(cur', s) \/ s \in c.retired
  <2>1. c.settled \in Nat /\ s \in Nat
    BY <1>2 DEF MailboxType
  <2>2. s \notin mem'.pending
    <3>1. SUFFICES ASSUME s \in mem'.pending PROVE FALSE
      OBVIOUS
    <3>2. s > c.settled
      BY <3>1 DEF Ahead
    <3> QED BY <1>3, <2>1, <3>2
  <2>3. Covers(cur', s) \/ s \in mem'.retired
    BY <2>2 DEF Alone, Nacked, Covers
  <2> QED BY <2>3
<1>4. \A s \in Marks(c) : Covers(c, s)
  OBVIOUS
<1> QED BY <1>1, <1>3, <1>4 DEF Accounts, Below, Covers

LEMMA MarksCoveredStep ==
    ASSUME KeptInv, Ahead, Alone, MarksCovered, [Next]_vars, KeptInv', Ahead', Alone'
    PROVE  MarksCovered'
<1>1. TypeInv /\ mem \in MailboxType /\ mem' \in MailboxType
  BY DEF KeptInv, TypeInv, MailTypes
<1>2. \A s \in Marks(cur') : Covers(cur', s)
  BY CursorCoveredStep
<1>3. \A s \in Marks(mem') : Covers(mem', s)
  BY MemCoveredStep
<1>4. PICK m \in MailboxType : m = mem'
  BY <1>1
<1>5. Accounts(m)'
  BY <1>3, <1>4, MemAccounts
<1>6. ASSUME lease'.phase \in {"ack", "committed"}
      PROVE  \A s \in Marks(lease'.cand) : Covers(lease'.cand, s)
  <2>1. CASE lease' = lease
    BY <1>6, <2>1 DEF MarksCovered, Busy
  <2>2. ASSUME NEW T \in AckInputs, AckBegin(T)
        PROVE  \A s \in Marks(lease'.cand) : Covers(lease'.cand, s)
    <3>1. Marks(lease'.cand) \subseteq Marks(mem) \union (lease'.acks \union lease'.cand.retired)
      BY <1>1, <2>2, MarksAckBegin
    <3>2. /\ lease' \in AckLease
          /\ Settles(mem, lease'.cand, lease'.acks \union lease'.cand.retired, Published)
      BY <1>1, <2>2, AckBeginFacts
    <3>3. lease'.acks \union lease'.cand.retired \in SUBSET Seqs
      BY <3>2 DEF AckLease, MailboxType
    <3>4. \A s \in Marks(mem) : s \in Seqs /\ Covers(mem, s)
      BY <1>1, MarksType DEF MarksCovered
    <3>5. \A s \in Seqs : (Covers(mem, s) \/ s \in lease'.acks \union lease'.cand.retired)
                          => Covers(lease'.cand, s)
      BY <3>2 DEF Settles
    <3> QED BY <3>1, <3>3, <3>4, <3>5
  <2>3. CASE AckCommit
    <3>1. lease.phase = "ack" /\ lease'.cand = lease.cand
      BY <1>1, <2>3, AckCommitFacts
    <3> QED BY <3>1 DEF MarksCovered, Busy
  <2>4. CASE \E x \in Seqs : NackApply(x)
    BY <1>1, <1>6, <2>4, NackApplyFacts
  <2>5. CASE lease' = Idle
    BY <1>6, <2>5 DEF Idle
  <2> QED BY <2>1, <2>2, <2>3, <2>4, <2>5, LeaseMoves
<1>7. ASSUME lease'.phase = "nack" PROVE Accounts(lease.cand)'
  <2>1. ~Crash
    BY <1>7 DEF Crash, Idle
  <2>2. CASE lease' = lease
    <3>1. PICK c \in MailboxType : c = lease.cand
      BY <1>1, <1>7, <2>2, LeaseCases DEF TypeInv
    <3>2. Accounts(c)
      BY <1>7, <2>2, <3>1 DEF MarksCovered
    <3>3. Accounts(c)'
      BY <2>1, <3>2, AccountsStable
    <3> QED BY <2>2, <3>1, <3>3 DEF Accounts, Below, Covers, Marks
  <2>3. CASE \E T \in AckInputs : AckBegin(T)
    BY <1>1, <1>7, <2>3, AckBeginFacts
  <2>4. CASE AckCommit
    BY <1>1, <1>7, <2>4, AckCommitFacts
  <2>5. CASE \E x \in Seqs : NackApply(x)
    <3>1. lease'.cand = m
      BY <1>1, <1>4, <2>5, NackApplyFacts
    <3> QED BY <1>5, <3>1 DEF Accounts, Below, Covers, Marks
  <2>6. CASE lease' = Idle
    BY <1>7, <2>6 DEF Idle
  <2> QED BY <2>2, <2>3, <2>4, <2>5, <2>6, LeaseMoves
<1>8. ASSUME NEW w \in Sweepers, sweep'[w].phase = "taken" PROVE Accounts(sweep[w].cursor)'
  <2>1. CASE Taken(w) /\ sweep'[w].cursor = sweep[w].cursor /\ ~Crash
    <3>1. PICK c \in MailboxType : c = sweep[w].cursor
      BY <1>1, <2>1, SweepCases DEF TypeInv
    <3>2. Accounts(c)
      BY <2>1, <3>1 DEF MarksCovered
    <3>3. Accounts(c)'
      BY <2>1, <3>2, AccountsStable
    <3> QED BY <2>1, <3>1, <3>3 DEF Accounts, Below, Covers, Marks
  <2>2. CASE SweepTake(w) /\ sweep'[w].cursor = mem'
    BY <1>4, <1>5, <2>2 DEF Accounts, Below, Covers, Marks
  <2> QED BY <1>1, <1>8, <2>1, <2>2, SweepMoves
<1>9. CursorCovered'
  BY <1>2 DEF CursorCovered, Covers, Marks
<1>10. (\A s \in Marks(mem) : Covers(mem, s))'
  BY <1>3 DEF Covers, Marks
<1>11. (Busy => \A s \in Marks(lease.cand) : Covers(lease.cand, s))'
  BY <1>6 DEF Busy, Covers, Marks
<1> QED BY <1>7, <1>8, <1>9, <1>10, <1>11 DEF MarksCovered, Taken

RedbTruth == TruthFacts /\ Ahead
WalTruth == TruthFacts /\ WalInv /\ MarksCovered

LEMMA TruthInit ==
    ASSUME Init
    PROVE  TruthFacts /\ Ahead /\ MarksCovered
<1>1. KeptInv /\ Ahead
  BY KeptInit, AheadInit
<1>2. /\ mem.dead = <<>> /\ mem.acked = {} /\ mem.last = 0
      /\ cur.dead = <<>> /\ cur.acked = {} /\ cur.last = 0
      /\ rows = {} /\ inflight = {} /\ lease = Idle /\ sweep = [w \in Sweepers |-> Idle]
  BY DEF Init
<1>3. Marks(mem) = {} /\ Marks(cur) = {}
  <2>1. ToSet(<<>>) = {}
    BY DEF ToSet
  <2> QED BY <1>2, <2>1 DEF Marks
<1>4. /\ lease.phase = "idle" /\ ~Busy
      /\ \A w \in Sweepers : ~Taken(w)
  BY <1>2 DEF Idle, Busy, Taken
<1>5. Guarded /\ MarksPast /\ MarksGone /\ RowsAhead /\ MarksCovered /\ CursorCovered
  BY <1>2, <1>3, <1>4 DEF Guarded, MarksPast, Past, MarksGone, RowsAhead, MarksCovered, CursorCovered
<1> QED BY <1>1, <1>5 DEF TruthFacts

LEMMA RedbTruthStep ==
    ASSUME RedbTruth, ~Wal, AckAbove = FALSE, "nack" \notin Failures, [Next]_vars
    PROVE  RedbTruth'
<1>1. KeptInv' /\ Guarded' /\ MarksPast'
  BY KeptStep, GuardedStep, MarksPastStep DEF RedbTruth, TruthFacts
<1>2. MarksGone' /\ RowsAhead'
  BY MarksGoneStep DEF RedbTruth
<1>3. \A s \in Restored : s > cur.settled
  BY DEF RedbTruth, TruthFacts, RowsAhead, Restored, Recovered
<1>4. Ahead'
  BY <1>3, AheadStep DEF RedbTruth, TruthFacts
<1> QED BY <1>1, <1>2, <1>4 DEF RedbTruth, TruthFacts

LEMMA WalTruthStep ==
    ASSUME WalTruth, Wal, Mortal = {}, AckAbove = FALSE, "nack" \notin Failures, [Next]_vars
    PROVE  WalTruth'
<1>1. KeptInv' /\ Guarded' /\ MarksPast'
  BY KeptStep, GuardedStep, MarksPastStep DEF WalTruth, TruthFacts
<1>2. MarksGone' /\ RowsAhead'
  BY MarksGoneStep DEF WalTruth
<1>3. WalInv'
  BY WalStep DEF WalTruth
<1>4. MarksCovered'
  <2>1. KeptInv /\ Ahead /\ Alone /\ Ahead' /\ Alone'
    BY <1>3 DEF WalTruth, WalInv
  <2> QED BY <1>1, <2>1, MarksCoveredStep DEF WalTruth
<1>5. CursorCovered'
  BY <1>4 DEF MarksCovered
<1> QED BY <1>1, <1>2, <1>3, <1>4, <1>5 DEF WalTruth, TruthFacts

LEMMA TruthImplies ==
    ASSUME TruthFacts, Ahead
    PROVE  SettledTruth
<1>1. \A s \in mem.pending \union inflight : s > mem.settled
  <2>1. inflight \subseteq Nat /\ mem.settled \in Nat
    BY DEF TruthFacts, KeptInv, TypeInv, MailTypes, MailboxType
  <2>2. \A s \in inflight : mem.settled < s
    BY DEF Ahead, Below
  <2>3. \A s \in inflight : s > mem.settled
    BY <2>1, <2>2
  <2> QED BY <2>3 DEF Ahead
<1>2. \A s \in rows \union inflight : s > cur.settled
  <2>1. inflight \subseteq Nat /\ cur.settled \in Nat
    BY DEF TruthFacts, KeptInv, TypeInv, MailTypes, MailboxType, CursorType
  <2>2. \A s \in inflight : s > cur.settled
    BY <2>1 DEF TruthFacts, KeptInv, Counters
  <2> QED BY <2>2 DEF TruthFacts, RowsAhead
<1>3. DeadLetterHasNoRow
  BY DEF DeadLetterHasNoRow, TruthFacts, MarksGone, Marks
<1> QED BY <1>1, <1>2, <1>3 DEF SettledTruth

\* What the cursors say is true, in the shard and in the store: a settled prefix
\* covers no row that is still to be delivered and nothing in flight, and a dead
\* letter in the store has no row beside it.  This holds for receivers that
\* acknowledge only what is published and a store that does not refuse the commit
\* of a negative acknowledgement; with the submission log, while no deadline passes.
THEOREM CursorsTellTheTruth ==
    ASSUME AckAbove = FALSE, "nack" \notin Failures, Wal => Mortal = {}
    PROVE  Spec => []SettledTruth
<1>1. CASE ~Wal
  <2>1. Init => RedbTruth
    BY TruthInit DEF RedbTruth
  <2>2. RedbTruth /\ [Next]_vars => RedbTruth'
    BY <1>1, RedbTruthStep
  <2>3. RedbTruth => SettledTruth
    BY TruthImplies DEF RedbTruth
  <2> QED BY <2>1, <2>2, <2>3, PTL DEF Spec
<1>2. CASE Wal
  <2>1. Init => WalTruth
    BY TruthInit, WalInit DEF WalTruth
  <2>2. WalTruth /\ [Next]_vars => WalTruth'
    BY <1>2, WalTruthStep
  <2>3. WalTruth => SettledTruth
    BY TruthImplies DEF WalTruth, WalInv
  <2> QED BY <2>1, <2>2, <2>3, PTL DEF Spec
<1> QED BY <1>1, <1>2
=============================================================================
