------------------------------- MODULE Counting -------------------------------
(***************************************************************************)
(* Induction over the naturals, in a form without an operator as parameter *)
(* (lemmas about recursive functions use it with the set of numbers for    *)
(* which they hold), and the counting of positions in a sequence.          *)
(***************************************************************************)
EXTENDS Sequences, FiniteSetTheorems, TLAPS

(* A set of numbers with 0 and every successor has all: a least number     *)
(* that is not in it would have a predecessor that is not.                 *)
LEMMA SetInduction ==
    ASSUME NEW S, 0 \in S, \A n \in Nat : n \in S => n + 1 \in S
    PROVE  Nat \subseteq S
<1> DEFINE R == {ss \in Nat \X Nat : ss[1] < ss[2]}
           T == Nat \ S
<1> SUFFICES ASSUME T # {} PROVE FALSE
  OBVIOUS
<1>1. IsWellFoundedOn(R, Nat)
  BY NatLessThanWellFounded, Zenon DEF OpToRel
<1>2. PICK x \in T : \A y \in T : ~(<<y, x>> \in R)
  <2>1. T \subseteq Nat
    OBVIOUS
  <2> HIDE DEF R, T
  <2> QED BY <1>1, <2>1, WFMin
<1>3. x \in Nat /\ x - 1 \in Nat
  OBVIOUS
<1>4. x - 1 \in T
  BY <1>3
<1>5. <<x - 1, x>> \in R
  BY <1>3
<1> QED BY <1>2, <1>4, <1>5

(* One more position adds at most itself to a count.                       *)
LEMMA CountGrows ==
    ASSUME NEW T, NEW i \in Nat, NEW n \in Nat, i <= n + 1
    PROVE  /\ Cardinality({k \in i..n : k \in T}) \in Nat
           /\ Cardinality({k \in i..(n + 1) : k \in T})
                  = Cardinality({k \in i..n : k \in T}) + (IF n + 1 \in T THEN 1 ELSE 0)
<1> DEFINE A == {k \in i..n : k \in T}
           B == {k \in i..(n + 1) : k \in T}
<1>1. IsFiniteSet(A)
  <2>1. IsFiniteSet(i..n)
    BY FS_Interval
  <2>2. A \in SUBSET (i..n)
    OBVIOUS
  <2> QED BY <2>1, <2>2, FS_Subset
<1>2. Cardinality(A) \in Nat
  BY <1>1, FS_CardinalityType
<1>3. B = IF n + 1 \in T THEN A \cup {n + 1} ELSE A
  OBVIOUS
<1>4. n + 1 \notin A
  OBVIOUS
<1> HIDE DEF A, B
<1>5. Cardinality(B) = Cardinality(A) + (IF n + 1 \in T THEN 1 ELSE 0)
  <2>1. Cardinality(A \cup {n + 1}) = Cardinality(A) + 1
    BY <1>1, <1>4, FS_AddElement
  <2> QED BY <1>2, <1>3, <2>1
<1> QED BY <1>2, <1>5 DEF A, B

(* An increasing sequence numbers its elements.                            *)
LEMMA IncreasingCounts ==
    ASSUME NEW n \in Nat, NEW at \in Seq(1..n), NEW m \in 1..Len(at),
           \A k, l \in 1..Len(at) : k < l => at[k] < at[l]
    PROVE  Cardinality({i \in 1..n : (\E l \in 1..Len(at) : at[l] = i) /\ i <= at[m]}) = m
<1> DEFINE T == {i \in 1..n : (\E l \in 1..Len(at) : at[l] = i) /\ i <= at[m]}
           f == [l \in 1..m |-> at[l]]
<1>1. /\ Len(at) \in Nat /\ m \in Nat /\ 1..m \subseteq 1..Len(at)
      /\ \A l \in 1..Len(at) : at[l] \in 1..n
  OBVIOUS
<1>2. \A k, l \in 1..Len(at) : at[k] <= at[l] => k <= l
  BY <1>1
<1>3. \A l \in 1..m : at[l] <= at[m] /\ at[l] \in T
  <2> TAKE l \in 1..m
  <2>1. l = m \/ l < m
    BY <1>1
  <2> QED BY <1>1, <2>1
<1>4. \A i \in T : \E l \in 1..m : at[l] = i
  <2> TAKE i \in T
  <2>1. PICK l \in 1..Len(at) : at[l] = i
    OBVIOUS
  <2>2. l <= m
    BY <1>1, <1>2, <2>1
  <2> QED BY <1>1, <2>1, <2>2
<1>5. f \in [1..m -> T] /\ \A l \in 1..m : f[l] = at[l]
  BY <1>3
<1>6. \A k, l \in 1..m : f[k] = f[l] => k = l
  <2> TAKE k, l \in 1..m
  <2> HAVE f[k] = f[l]
  <2>1. at[k] <= at[l] /\ at[l] <= at[k]
    BY <1>1, <1>5
  <2> QED BY <1>1, <1>2, <2>1
<1> HIDE DEF f, T
<1>7. f \in Bijection(1..m, T)
  <2>1. f \in Surjection(1..m, T)
    BY <1>4, <1>5 DEF Surjection
  <2>2. f \in Injection(1..m, T)
    BY <1>5, <1>6 DEF Injection, IsInjective
  <2> QED BY <2>1, <2>2 DEF Bijection
<1>8. ExistsBijection(1..m, T)
  BY <1>7 DEF ExistsBijection
<1>9. Cardinality(T) = m
  BY <1>1, <1>8, FS_CountingElements
<1> QED BY <1>9 DEF T
=============================================================================
