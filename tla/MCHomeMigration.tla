--------------------------- MODULE MCHomeMigration ---------------------------
(* Instances of HomeMigration for TLC. *)
EXTENDS HomeMigration, TLC

CONSTANTS a, b, m1, m2, e1

MCRetain == [e \in Envelopes |-> 2]

\* The competing moves are interchangeable.
Competing == Permutations(Moves)

\* One move.
OneSrc == m1 :> a
OneDst == m1 :> b
OneBase == m1 :> Genesis
OneEpoch == (Genesis :> 0) @@ (m1 :> 1)

\* Two moves that compete for the first home record.
TwoSrc == (m1 :> a) @@ (m2 :> a)
TwoDst == (m1 :> b) @@ (m2 :> b)
TwoBase == (m1 :> Genesis) @@ (m2 :> Genesis)
TwoEpoch == (Genesis :> 0) @@ (m1 :> 1) @@ (m2 :> 1)
=============================================================================
