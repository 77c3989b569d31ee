----------------------------- MODULE Induction -----------------------------
(***************************************************************************)
(* Induction over numbers, for the proofs about recursive functions: a set *)
(* of counterexamples would have a least one.                              *)
(***************************************************************************)
EXTENDS Naturals, WellFoundedInduction, TLAPS

\* A set of natural numbers has a least one.
LEMMA LeastNatural ==
  ASSUME NEW T, T \subseteq Nat, T # {}
  PROVE  \E n \in T : \A m \in T : n <= m
<1> DEFINE R == OpToRel(<, Nat)
<1>1. \A m, n \in Nat : m < n => <<m, n>> \in R
  BY DEF OpToRel
<1>2. IsWellFoundedOn(R, Nat)
  BY NatLessThanWellFounded
<1> HIDE DEF R
<1>3. PICK n \in T : \A m \in T : ~ (<<m, n>> \in R)
  BY <1>2, WFMin
<1>4. ASSUME NEW m \in T  PROVE n <= m
  <2>1. m \in Nat /\ n \in Nat
    OBVIOUS
  <2>2. ~ (m < n)
    BY <1>1, <1>3, <2>1
  <2> QED  BY <2>1, <2>2
<1> QED  BY <1>4

\* Induction: a set that has 0 and the next of each number in it has all of them.
LEMMA AllNaturals ==
  ASSUME NEW T, 0 \in T, \A n \in Nat : n \in T => n + 1 \in T
  PROVE  Nat \subseteq T
<1> DEFINE Missing == Nat \ T
<1>1. SUFFICES ASSUME Missing # {}  PROVE FALSE
  OBVIOUS
<1>2. PICK n \in Missing : \A m \in Missing : n <= m
  <2>1. Missing \subseteq Nat
    OBVIOUS
  <2> HIDE DEF Missing
  <2> QED  BY <1>1, <2>1, LeastNatural
<1>3. n \in Nat \ {0}
  OBVIOUS
<1>4. n - 1 \in Nat /\ n - 1 \notin Missing
  BY <1>2, <1>3
<1>5. n - 1 + 1 = n
  BY <1>3
<1> QED  BY <1>4, <1>5

\* Induction from the end of a sequence to its beginning.
LEMMA Downward ==
  ASSUME NEW n \in Nat, NEW T, n + 1 \in T,
         \A i \in 1..n : (\A j \in (i + 1)..(n + 1) : j \in T) => i \in T
  PROVE  1..(n + 1) \subseteq T
<1> DEFINE Wrong == {k \in 0..n : n + 1 - k \notin T}
<1>1. SUFFICES ASSUME NEW i \in 1..(n + 1), i \notin T  PROVE FALSE
  OBVIOUS
<1>2. n + 1 - i \in Wrong
  <2>1. n + 1 - (n + 1 - i) = i /\ n + 1 - i \in 0..n
    OBVIOUS
  <2> QED  BY <1>1, <2>1
<1>3. PICK k \in Wrong : \A m \in Wrong : k <= m
  <2>1. Wrong \subseteq Nat /\ Wrong # {}
    <3>1. Wrong # {}
      <4> HIDE DEF Wrong
      <4> QED  BY <1>2
    <3> QED  BY <3>1
  <2> HIDE DEF Wrong
  <2> QED  BY <2>1, LeastNatural
<1>4. k \in 0..n /\ n + 1 - k \notin T
  OBVIOUS
<1>5. CASE k = 0
  BY <1>4, <1>5
<1>6. CASE k # 0
  <2>1. n + 1 - k \in 1..n
    BY <1>4, <1>6
  <2>2. ASSUME NEW j \in (n + 1 - k + 1)..(n + 1)  PROVE j \in T
    <3>1. n + 1 - j \in 0..n /\ n + 1 - (n + 1 - j) = j /\ n + 1 - j < k
      BY <1>4, <1>6
    <3>2. n + 1 - j \notin Wrong
      BY <1>3, <1>4, <3>1
    <3> QED  BY <3>1, <3>2
  <2> QED  BY <1>4, <2>1, <2>2
<1> QED  BY <1>5, <1>6
=============================================================================
