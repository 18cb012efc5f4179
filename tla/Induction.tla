----------------------------- MODULE Induction ------------------------------
(***************************************************************************)
(* Induction over numbers, and functions defined by it, for the proofs of  *)
(* the other modules.  The library states induction for a predicate; here  *)
(* it is stated for a set.                                                 *)
(***************************************************************************)
EXTENDS Integers, FiniteSetsExt, WellFoundedInduction, TLAPS

\* A set of numbers has a least one.
LEMMA MinNat ==
    ASSUME NEW S \in SUBSET Nat, S # {}
    PROVE  Min(S) \in S /\ \A y \in S : Min(S) <= y
<1>1. \E x \in S : \A y \in S : ~(<<y, x>> \in OpToRel(<, Nat))
  BY NatLessThanWellFounded, WFMin
<1>2. \E x \in S : \A y \in S : x <= y
  <2>1. PICK x \in S : \A y \in S : ~(<<y, x>> \in OpToRel(<, Nat))
    BY <1>1
  <2>2. \A y \in S : y \in Nat /\ x \in Nat /\ ~(y < x)
    BY <2>1 DEF OpToRel
  <2>3. \A y \in S : x <= y
    BY <2>2
  <2> QED
    BY <2>3
<1> QED
  BY <1>2 DEF Min

\* What holds of 0, and of each number up to n with the one before, holds of
\* all of them: induction, for a set of numbers.
LEMMA UpTo ==
    ASSUME NEW n \in Nat, NEW P, 0 \in P,
           \A k \in 1..n : k - 1 \in P => k \in P
    PROVE  \A k \in 0..n : k \in P
<1> DEFINE Bad == {k \in 0..n : k \notin P}
<1>1. SUFFICES ASSUME Bad # {} PROVE FALSE
  OBVIOUS
<1>2. Bad \in SUBSET Nat
  OBVIOUS
<1>3. Min(Bad) \in Bad /\ \A y \in Bad : Min(Bad) <= y
  BY <1>1, <1>2, MinNat
<1>4. PICK m \in Bad : \A y \in Bad : m <= y
  BY <1>3
<1>5. m \in 1..n /\ m - 1 \in 0..n
  BY <1>4
<1>6. m - 1 \notin Bad
  BY <1>4, <1>5
<1> QED
  BY <1>4, <1>5, <1>6

\* f begins with v and goes on with one step T[k] after the other.
Iterates(f, n, V, v, T) ==
    /\ f \in [0..n -> V] /\ f[0] = v
    /\ \A k \in 1..n : f[k] = T[k][f[k - 1]]

\* A function that is defined by what it was for the number before exists.
LEMMA Iterated ==
    ASSUME NEW n \in Nat, NEW V, NEW v \in V, NEW T \in [1..n -> [V -> V]]
    PROVE  \E f : Iterates(f, n, V, v, T)
<1> DEFINE P == {m \in 0..n : \E f : Iterates(f, m, V, v, T)}
<1>1. 0 \in P
  <2>1. Iterates([k \in 0..0 |-> v], 0, V, v, T)
    BY DEF Iterates
  <2> QED
    BY <2>1
<1>2. ASSUME NEW m \in 1..n, m - 1 \in P PROVE m \in P
  <2>1. PICK f : Iterates(f, m - 1, V, v, T)
    BY <1>2
  <2> DEFINE g == [k \in 0..m |-> IF k = m THEN T[m][f[m - 1]] ELSE f[k]]
  <2>2. f[m - 1] \in V /\ T[m] \in [V -> V]
    BY <2>1 DEF Iterates
  <2>3. g \in [0..m -> V] /\ g[0] = v
    BY <2>1, <2>2 DEF Iterates
  <2>4. \A k \in 1..m : g[k] = T[k][g[k - 1]]
    BY <2>1 DEF Iterates
  <2>5. Iterates(g, m, V, v, T)
    BY <2>3, <2>4 DEF Iterates
  <2> QED
    BY <2>5
<1> HIDE DEF P
<1>3. \A m \in 1..n : m - 1 \in P => m \in P
  BY <1>2
<1>4. \A m \in 0..n : m \in P
  BY <1>1, <1>3, UpTo, Zenon
<1>5. n \in P
  BY <1>4
<1> QED
  BY <1>5 DEF P
=============================================================================
