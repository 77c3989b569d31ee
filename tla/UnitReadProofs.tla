--------------------------- MODULE UnitReadProofs ---------------------------
(***************************************************************************)
(* What is read of the units, for any of them: from registers to the one   *)
(* snapshot (Aggregation), and the words of an operation through the cache *)
(* (BulkRead). Both are computed by folds, recursive functions over the    *)
(* subsets of a set that the proofs unfold and argue about by induction.   *)
(***************************************************************************)
EXTENDS Aggregation, BulkRead, FiniteSetTheorems, SequenceTheorems, Induction

\* Induction over the subsets of a finite set: by their cardinality.
LEMMA SubsetInduction ==
  ASSUME NEW S, IsFiniteSet(S), NEW P,
         \A s \in SUBSET S : (\A x \in s : s \ {x} \in P) => s \in P
  PROVE  SUBSET S \subseteq P
<1> DEFINE T == {n \in Nat : \A s \in SUBSET S : Cardinality(s) = n => s \in P}
<1>1. \A s \in SUBSET S : IsFiniteSet(s) /\ Cardinality(s) \in Nat
  BY FS_Subset, FS_CardinalityType
<1>2. 0 \in T
  <2> SUFFICES ASSUME NEW s \in SUBSET S, Cardinality(s) = 0  PROVE s \in P
    OBVIOUS
  <2>1. s = {}
    BY <1>1, FS_EmptySet
  <2> QED  BY <2>1
<1>3. ASSUME NEW n \in Nat, n \in T  PROVE n + 1 \in T
  <2> SUFFICES ASSUME NEW s \in SUBSET S, Cardinality(s) = n + 1  PROVE s \in P
    OBVIOUS
  <2>1. ASSUME NEW x \in s  PROVE s \ {x} \in P
    <3>1. Cardinality(s \ {x}) = Cardinality(s) - 1
      BY <1>1, FS_RemoveElement
    <3>2. Cardinality(s \ {x}) = n /\ s \ {x} \in SUBSET S
      BY <3>1
    <3> QED  BY <1>3, <3>2
  <2> QED  BY <2>1
<1> HIDE DEF T
<1>4. Nat \subseteq T
  BY <1>2, <1>3, AllNaturals
<1>5. ASSUME NEW s \in SUBSET S  PROVE s \in P
  BY <1>1, <1>4 DEF T
<1> QED  BY <1>5

\* A finite set of integers has a greatest and a least member, which Max and Min choose.
LEMMA GreatestAndLeast ==
  ASSUME NEW S \in SUBSET Int, IsFiniteSet(S), S # {}
  PROVE  /\ Max(S) \in S /\ \A x \in S : x <= Max(S)
         /\ Min(S) \in S /\ \A x \in S : Min(S) <= x
<1> DEFINE P == {s \in SUBSET S : s # {} => /\ \E m \in s : \A x \in s : x <= m
                                           /\ \E m \in s : \A x \in s : m <= x}
<1>1. ASSUME NEW s \in SUBSET S, \A x \in s : s \ {x} \in P  PROVE s \in P
  <2> SUFFICES ASSUME s # {}
               PROVE  (\E m \in s : \A x \in s : x <= m) /\ (\E m \in s : \A x \in s : m <= x)
    OBVIOUS
  <2>1. PICK x \in s : TRUE
    OBVIOUS
  <2>2. CASE s \ {x} = {}
    <3>1. \A y \in s : y <= x /\ x <= y
      BY <2>2
    <3> QED  BY <3>1
  <2>3. CASE s \ {x} # {}
    <3>1. PICK m \in s \ {x} : \A y \in s \ {x} : y <= m
      BY <1>1, <2>3
    <3>2. PICK n \in s \ {x} : \A y \in s \ {x} : n <= y
      BY <1>1, <2>3
    <3>3. \E k \in s : \A y \in s : y <= k
      <4>1. CASE x <= m
        BY <3>1, <4>1
      <4>2. CASE ~ x <= m
        BY <3>1, <4>2
      <4> QED  BY <4>1, <4>2
    <3>4. \E k \in s : \A y \in s : k <= y
      <4>1. CASE n <= x
        BY <3>2, <4>1
      <4>2. CASE ~ n <= x
        BY <3>2, <4>2
      <4> QED  BY <4>1, <4>2
    <3> QED  BY <3>3, <3>4
  <2> QED  BY <2>2, <2>3
<1> HIDE DEF P
<1>2. SUBSET S \subseteq P
  BY <1>1, SubsetInduction
<1>3. (\E m \in S : \A x \in S : x <= m) /\ (\E m \in S : \A x \in S : m <= x)
  BY <1>2 DEF P
<1>4. Max(S) = CHOOSE m \in S : \A x \in S : m >= x
  BY DEF Max
<1>5. Min(S) = CHOOSE m \in S : \A x \in S : m <= x
  BY DEF Min
<1>6. \E m \in S : \A x \in S : m >= x
  BY <1>3
<1>7. Max(S) \in S /\ \A x \in S : Max(S) >= x
  BY <1>4, <1>6
<1>8. Min(S) \in S /\ \A x \in S : Min(S) <= x
  BY <1>3, <1>5
<1> QED  BY <1>7, <1>8

-----------------------------------------------------------------------------
(***************************************************************************)
(* Aggregation. The sum of a function is the same in whatever order its    *)
(* values are added (SumsAny), so that the sum of the units is that of     *)
(* their phases (SumsPlus), lies between extremes (SumsLeq) and does not   *)
(* depend on the order of the units (SumsReversed).                        *)
(***************************************************************************)

\* The element of a set that a fold takes first.
One(s) == CHOOSE x \in s : TRUE

\* The sums of the amounts over the subsets of their domain, as FoldFunction adds them up.
Sums(a) == CHOOSE iter :
  iter = [s \in SUBSET DOMAIN a |->
            IF s = {} THEN 0
            ELSE LET x == CHOOSE x \in s : TRUE IN a[x] + iter[s \ {x}]]

\* SumOver is the recursion's value on the whole domain.
LEMMA SumOverIsSums ==
  ASSUME NEW a  PROVE  SumOver(a) = Sums(a)[DOMAIN a]
BY DEF SumOver, FoldFunction, FoldFunctionOnSet, MapThenFoldSet, Sums

\* Sums(a) adds the amounts of the subsets of S up, one after the other.
AddsUp(S, a) ==
  /\ Sums(a) \in [SUBSET S -> Int] /\ Sums(a)[{}] = 0
  /\ \A s \in SUBSET S : s # {} => Sums(a)[s] = a[One(s)] + Sums(a)[s \ {One(s)}]

\* In any order.
AnyFirst(S, a) == \A s \in SUBSET S : \A y \in s : Sums(a)[s] = a[y] + Sums(a)[s \ {y}]

\* The recursion has a solution.
LEMMA SumsAdd ==
  ASSUME NEW S, IsFiniteSet(S), NEW a \in [S -> Int]
  PROVE  AddsUp(S, a)
<1> DEFINE Right(g, s) == IF s = {} THEN 0 ELSE a[One(s)] + g[s \ {One(s)}]
           Upto(n) == {s \in SUBSET S : Cardinality(s) <= n}
           T == {n \in Nat : \E g \in [SUBSET S -> Int] : \A s \in Upto(n) : g[s] = Right(g, s)}
<1>1. \A s \in SUBSET S : IsFiniteSet(s) /\ Cardinality(s) \in Nat
  BY FS_Subset, FS_CardinalityType
<1>2. \A s \in SUBSET S : s # {} =>
        One(s) \in s /\ s \ {One(s)} \in SUBSET S /\ Cardinality(s \ {One(s)}) = Cardinality(s) - 1
  <2> SUFFICES ASSUME NEW s \in SUBSET S, s # {}
               PROVE  One(s) \in s /\ s \ {One(s)} \in SUBSET S
                      /\ Cardinality(s \ {One(s)}) = Cardinality(s) - 1
    OBVIOUS
  <2>1. One(s) \in s
    BY DEF One
  <2>2. Cardinality(s \ {One(s)}) = Cardinality(s) - 1
    BY <1>1, <2>1, FS_RemoveElement
  <2> QED  BY <2>1, <2>2
<1>3. 0 \in T
  <2> DEFINE g == [s \in SUBSET S |-> 0]
  <2>1. g \in [SUBSET S -> Int]
    OBVIOUS
  <2>2. ASSUME NEW s \in Upto(0)  PROVE g[s] = Right(g, s)
    <3>1. s = {}
      BY <1>1, FS_EmptySet
    <3> QED  BY <3>1
  <2> QED  BY <2>1, <2>2
<1>4. ASSUME NEW n \in Nat, n \in T  PROVE n + 1 \in T
  <2>1. PICK g \in [SUBSET S -> Int] : \A s \in Upto(n) : g[s] = Right(g, s)
    BY <1>4
  <2> DEFINE h == [s \in SUBSET S |-> IF Cardinality(s) <= n THEN g[s] ELSE Right(g, s)]
  <2>2. h \in [SUBSET S -> Int]
    <3> SUFFICES ASSUME NEW s \in SUBSET S  PROVE Right(g, s) \in Int
      OBVIOUS
    <3>1. CASE s = {}
      BY <3>1
    <3>2. CASE s # {}
      <4>1. One(s) \in S /\ s \ {One(s)} \in SUBSET S
        BY <1>2, <3>2
      <4>2. a[One(s)] \in Int /\ g[s \ {One(s)}] \in Int
        BY <4>1
      <4> QED  BY <3>2, <4>2
    <3> QED  BY <3>1, <3>2
  <2>3. ASSUME NEW s \in Upto(n + 1)  PROVE h[s] = Right(h, s)
    <3>1. h[s] = Right(g, s)
      <4>1. CASE Cardinality(s) <= n
        BY <2>1, <4>1
      <4>2. CASE ~ Cardinality(s) <= n
        BY <4>2
      <4> QED  BY <4>1, <4>2
    <3>2. s # {} => h[s \ {One(s)}] = g[s \ {One(s)}]
      <4> SUFFICES ASSUME s # {}  PROVE h[s \ {One(s)}] = g[s \ {One(s)}]
        OBVIOUS
      <4>1. Cardinality(s) - 1 <= n
        BY <1>1
      <4> QED  BY <1>2, <4>1
    <3> HIDE DEF h
    <3> QED  BY <3>1, <3>2
  <2> HIDE DEF h, Right, Upto
  <2>4. \E f \in [SUBSET S -> Int] : \A s \in Upto(n + 1) : f[s] = Right(f, s)
    BY <2>2, <2>3
  <2> QED  BY <2>4
<1> DEFINE Solves(iter) == iter = [s \in SUBSET S |-> Right(iter, s)]
<1>5. \E iter : Solves(iter)
  <2>1. Nat \subseteq T
    <3> HIDE DEF T
    <3> QED  BY <1>3, <1>4, AllNaturals
  <2>2. Cardinality(S) \in T
    BY <1>1, <2>1
  <2>3. PICK g \in [SUBSET S -> Int] : \A s \in Upto(Cardinality(S)) : g[s] = Right(g, s)
    BY <2>2
  <2>4. ASSUME NEW s \in SUBSET S  PROVE g[s] = Right(g, s)
    <3>1. Cardinality(s) <= Cardinality(S)
      BY FS_Subset
    <3> QED  BY <2>3, <3>1
  <2> HIDE DEF Right
  <2>5. g = [s \in SUBSET S |-> Right(g, s)]
    BY <2>4
  <2> QED  BY <2>5
<1>6. Solves(Sums(a))
  <2>1. Sums(a) = CHOOSE iter : Solves(iter)
    BY DEF Sums, One
  <2> HIDE DEF Solves
  <2> QED  BY <1>5, <2>1
<1>7. Sums(a)[{}] = 0
  BY <1>6
<1>8. ASSUME NEW s \in SUBSET S, s # {}
      PROVE  Sums(a)[s] = a[One(s)] + Sums(a)[s \ {One(s)}]
  BY <1>6, <1>8
<1>9. SUBSET S \subseteq {s \in SUBSET S : Sums(a)[s] \in Int}
  <2> DEFINE P == {s \in SUBSET S : Sums(a)[s] \in Int}
  <2>1. ASSUME NEW s \in SUBSET S, \A x \in s : s \ {x} \in P  PROVE s \in P
    <3>1. CASE s = {}
      BY <1>7, <3>1
    <3>2. CASE s # {}
      <4>1. Sums(a)[s \ {One(s)}] \in Int /\ a[One(s)] \in Int
        BY <1>2, <2>1, <3>2
      <4>2. Sums(a)[s] = a[One(s)] + Sums(a)[s \ {One(s)}]
        BY <1>8, <3>2
      <4>3. Sums(a)[s] \in Int
        BY <4>1, <4>2
      <4> QED  BY <4>3
    <3> QED  BY <3>1, <3>2
  <2> HIDE DEF P
  <2>2. SUBSET S \subseteq P
    BY <2>1, SubsetInduction
  <2> QED  BY <2>2 DEF P
<1>10. Sums(a) \in [SUBSET S -> Int]
  BY <1>6, <1>9
<1> QED  BY <1>7, <1>8, <1>10 DEF AddsUp

\* Any element of a set may be taken first.
LEMMA SumsAny ==
  ASSUME NEW S, IsFiniteSet(S), NEW a \in [S -> Int]
  PROVE  AnyFirst(S, a)
<1> DEFINE Q(t) == \A z \in t : Sums(a)[t] = a[z] + Sums(a)[t \ {z}]
           P == {t \in SUBSET S : Q(t)}
<1>0. AddsUp(S, a)
  BY SumsAdd
<1>1. Sums(a) \in [SUBSET S -> Int]
  BY <1>0 DEF AddsUp
<1>2. \A t \in SUBSET S : t # {} => Sums(a)[t] = a[One(t)] + Sums(a)[t \ {One(t)}]
  BY <1>0 DEF AddsUp
<1> HIDE DEF Q
<1>3. ASSUME NEW t \in SUBSET S, \A x \in t : t \ {x} \in P  PROVE t \in P
  <2>1. ASSUME NEW z \in t  PROVE Sums(a)[t] = a[z] + Sums(a)[t \ {z}]
    <3> DEFINE x == One(t)
    <3>1. x \in t /\ Sums(a)[t] = a[x] + Sums(a)[t \ {x}]
      BY <1>2 DEF One
    <3> HIDE DEF x
    <3>2. CASE z = x
      BY <3>1, <3>2
    <3>3. CASE z # x
      <4>1. Q(t \ {x}) /\ Q(t \ {z})
        BY <1>3, <3>1
      <4>2. z \in t \ {x} /\ x \in t \ {z} /\ (t \ {x}) \ {z} = (t \ {z}) \ {x}
        BY <3>1, <3>3
      <4>3. Sums(a)[t \ {x}] = a[z] + Sums(a)[(t \ {x}) \ {z}]
        BY <4>1, <4>2 DEF Q
      <4>4. Sums(a)[t \ {z}] = a[x] + Sums(a)[(t \ {x}) \ {z}]
        BY <4>1, <4>2 DEF Q
      <4>5. a[x] \in Int /\ a[z] \in Int /\ Sums(a)[(t \ {x}) \ {z}] \in Int
        BY <1>1, <3>1
      <4> QED  BY <3>1, <4>3, <4>4, <4>5
    <3> QED  BY <3>2, <3>3
  <2> QED  BY <2>1 DEF Q
<1> HIDE DEF P
<1>4. SUBSET S \subseteq P
  BY <1>3, SubsetInduction
<1> QED  BY <1>4 DEF P, Q, AnyFirst

\* The sum of sums.
LEMMA SumsPlus ==
  ASSUME NEW S, IsFiniteSet(S), NEW a \in [S -> Int], NEW b \in [S -> Int], NEW c \in [S -> Int],
         \A x \in S : c[x] = a[x] + b[x]
  PROVE  \A s \in SUBSET S : Sums(c)[s] = Sums(a)[s] + Sums(b)[s]
<1> DEFINE P == {s \in SUBSET S : Sums(c)[s] = Sums(a)[s] + Sums(b)[s]}
<1>1. AddsUp(S, a)
  BY SumsAdd
<1>2. AddsUp(S, b)
  BY SumsAdd
<1>3. AddsUp(S, c)
  BY SumsAdd
<1>4. ASSUME NEW s \in SUBSET S, \A x \in s : s \ {x} \in P  PROVE s \in P
  <2>1. CASE s = {}
    BY <1>1, <1>2, <1>3, <2>1 DEF AddsUp
  <2>2. CASE s # {}
    <3>1. PICK x \in s : x = One(s)
      BY <2>2 DEF One
    <3>2. Sums(c)[s \ {x}] = Sums(a)[s \ {x}] + Sums(b)[s \ {x}]
      BY <1>4
    <3>3. /\ Sums(a)[s] = a[x] + Sums(a)[s \ {x}] /\ Sums(b)[s] = b[x] + Sums(b)[s \ {x}]
          /\ Sums(c)[s] = c[x] + Sums(c)[s \ {x}]
      BY <1>1, <1>2, <1>3, <2>2, <3>1 DEF AddsUp
    <3>4. a[x] \in Int /\ b[x] \in Int /\ Sums(a)[s \ {x}] \in Int /\ Sums(b)[s \ {x}] \in Int
          /\ c[x] = a[x] + b[x]
      BY <1>1, <1>2 DEF AddsUp
    <3>5. Sums(c)[s] = Sums(a)[s] + Sums(b)[s]
      BY <3>2, <3>3, <3>4
    <3> QED  BY <3>5
  <2> QED  BY <2>1, <2>2
<1> HIDE DEF P
<1>5. SUBSET S \subseteq P
  BY <1>4, SubsetInduction
<1> QED  BY <1>5 DEF P

\* Greater amounts have a greater sum.
LEMMA SumsLeq ==
  ASSUME NEW S, IsFiniteSet(S), NEW a \in [S -> Int], NEW b \in [S -> Int],
         \A x \in S : a[x] <= b[x]
  PROVE  \A s \in SUBSET S : Sums(a)[s] <= Sums(b)[s]
<1> DEFINE P == {s \in SUBSET S : Sums(a)[s] <= Sums(b)[s]}
<1>1. AddsUp(S, a)
  BY SumsAdd
<1>2. AddsUp(S, b)
  BY SumsAdd
<1>4. ASSUME NEW s \in SUBSET S, \A x \in s : s \ {x} \in P  PROVE s \in P
  <2>1. CASE s = {}
    BY <1>1, <1>2, <2>1 DEF AddsUp
  <2>2. CASE s # {}
    <3>1. PICK x \in s : x = One(s)
      BY <2>2 DEF One
    <3>2. Sums(a)[s \ {x}] <= Sums(b)[s \ {x}]
      BY <1>4
    <3>3. /\ Sums(a)[s] = a[x] + Sums(a)[s \ {x}] /\ Sums(b)[s] = b[x] + Sums(b)[s \ {x}]
      BY <1>1, <1>2, <2>2, <3>1 DEF AddsUp
    <3>4. a[x] \in Int /\ b[x] \in Int /\ Sums(a)[s \ {x}] \in Int /\ Sums(b)[s \ {x}] \in Int
          /\ a[x] <= b[x]
      BY <1>1, <1>2 DEF AddsUp
    <3>5. Sums(a)[s] <= Sums(b)[s]
      BY <3>2, <3>3, <3>4
    <3> QED  BY <3>5
  <2> QED  BY <2>1, <2>2
<1> HIDE DEF P
<1>5. SUBSET S \subseteq P
  BY <1>4, SubsetInduction
<1> QED  BY <1>5 DEF P

\* The same amount over and over.
LEMMA SumsConstant ==
  ASSUME NEW S, IsFiniteSet(S), NEW a \in [S -> Int], NEW k \in Int, \A x \in S : a[x] = k
  PROVE  \A s \in SUBSET S : Sums(a)[s] = k * Cardinality(s)
<1> DEFINE P == {s \in SUBSET S : Sums(a)[s] = k * Cardinality(s)}
<1>1. AddsUp(S, a)
  BY SumsAdd
<1>2. \A s \in SUBSET S : IsFiniteSet(s) /\ Cardinality(s) \in Nat
  BY FS_Subset, FS_CardinalityType
<1>4. ASSUME NEW s \in SUBSET S, \A x \in s : s \ {x} \in P  PROVE s \in P
  <2>1. CASE s = {}
    <3>1. Cardinality(s) = 0 /\ k * 0 = 0
      BY <2>1, FS_EmptySet
    <3> QED  BY <1>1, <2>1, <3>1 DEF AddsUp
  <2>2. CASE s # {}
    <3>1. PICK x \in s : x = One(s)
      BY <2>2 DEF One
    <3>2. Sums(a)[s \ {x}] = k * Cardinality(s \ {x})
      BY <1>4
    <3>3. Sums(a)[s] = a[x] + Sums(a)[s \ {x}]
      BY <1>1, <2>2, <3>1 DEF AddsUp
    <3>4. Cardinality(s \ {x}) = Cardinality(s) - 1 /\ Cardinality(s) \in Nat
      BY <1>2, FS_RemoveElement
    <3>5. \A n \in Nat : k + k * (n - 1) = k * n
      OBVIOUS
    <3>6. Sums(a)[s] = k * Cardinality(s)
      BY <3>2, <3>3, <3>4, <3>5
    <3> QED  BY <3>6
  <2> QED  BY <2>1, <2>2
<1> HIDE DEF P
<1>5. SUBSET S \subseteq P
  BY <1>4, SubsetInduction
<1> QED  BY <1>5 DEF P

\* The order of the amounts does not matter: those of 1 .. n counted from the other end.
LEMMA SumsReversed ==
  ASSUME NEW n \in Nat, NEW a \in [1 .. n -> Int], NEW b \in [1 .. n -> Int],
         \A u \in 1 .. n : b[u] = a[n + 1 - u]
  PROVE  Sums(b)[1 .. n] = Sums(a)[1 .. n]
<1>0. PICK S : S = 1 .. n /\ IsFiniteSet(S)
  BY FS_Interval
<1> DEFINE Back(s) == {n + 1 - u : u \in s}
           P == {s \in SUBSET S : Sums(b)[s] = Sums(a)[Back(s)]}
<1>a. a \in [S -> Int] /\ b \in [S -> Int]
  BY <1>0
<1>1. AddsUp(S, a)
  BY <1>0, <1>a, SumsAdd
<1>2. AddsUp(S, b)
  BY <1>0, <1>a, SumsAdd
<1>3. AnyFirst(S, a)
  BY <1>0, <1>a, SumsAny
<1>4. ASSUME NEW s \in SUBSET S, \A x \in s : s \ {x} \in P  PROVE s \in P
  <2>1. CASE s = {}
    <3>1. Back(s) = {}
      BY <2>1
    <3> QED  BY <1>1, <1>2, <2>1, <3>1 DEF AddsUp
  <2>2. CASE s # {}
    <3>1. PICK x \in s : x = One(s)
      BY <2>2 DEF One
    <3>2. Sums(b)[s \ {x}] = Sums(a)[Back(s \ {x})]
      BY <1>4
    <3>3. Sums(b)[s] = b[x] + Sums(b)[s \ {x}]
      BY <1>2, <2>2, <3>1 DEF AddsUp
    <3>4. n + 1 - x \in Back(s) /\ Back(s) \in SUBSET S
      BY <1>0
    <3>5. Back(s \ {x}) = Back(s) \ {n + 1 - x}
      <4>0. n \in Int /\ x \in Int /\ \A u \in s : u \in Int
        BY <1>0
      <4>1. ASSUME NEW u \in s \ {x}  PROVE n + 1 - u \in Back(s) \ {n + 1 - x}
        <5>1. n + 1 - u # n + 1 - x
          BY <4>0
        <5> QED  BY <5>1
      <4>2. ASSUME NEW u \in s, n + 1 - u # n + 1 - x  PROVE n + 1 - u \in Back(s \ {x})
        <5>1. u \in s \ {x}
          BY <4>2
        <5> QED  BY <5>1
      <4> QED  BY <4>1, <4>2
    <3>6. Sums(a)[Back(s)] = a[n + 1 - x] + Sums(a)[Back(s) \ {n + 1 - x}]
      <4> HIDE DEF Back
      <4> QED  BY <1>3, <3>4 DEF AnyFirst
    <3>7. Sums(b)[s] = Sums(a)[Back(s)]
      <4>1. b[x] = a[n + 1 - x]
        BY <1>0
      <4> HIDE DEF Back
      <4> QED  BY <3>2, <3>3, <3>5, <3>6, <4>1
    <3> QED  BY <3>7
  <2> QED  BY <2>1, <2>2
<1> HIDE DEF P, Back
<1>b. IsFiniteSet(S)
  BY <1>0
<1>5. SUBSET S \subseteq P
  BY <1>4, <1>b, SubsetInduction
<1>6. Back(S) = S
  <2>1. ASSUME NEW u \in S  PROVE u \in Back(S)
    <3>1. n + 1 - u \in S /\ n + 1 - (n + 1 - u) = u
      BY <1>0
    <3> QED  BY <3>1 DEF Back
  <2>2. Back(S) \subseteq S
    BY <1>0 DEF Back
  <2> QED  BY <2>1, <2>2
<1>7. Sums(b)[S] = Sums(a)[Back(S)]
  BY <1>5 DEF P
<1> QED  BY <1>0, <1>6, <1>7

\* The sum over the phases.
LEMMA SumOfPhases ==
  ASSUME NEW a \in [Phases -> Int]
  PROVE  SumOver(a) = a["L1"] + a["L2"] + a["L3"]
<1>0. PICK S : S = Phases /\ IsFiniteSet(S)
  <2>1. IsFiniteSet({"L1"}) /\ IsFiniteSet({"L2"}) /\ IsFiniteSet({"L3"})
    BY FS_Singleton
  <2>2. IsFiniteSet({"L1"} \cup {"L2"})
    BY <2>1, FS_Union
  <2>3. IsFiniteSet(({"L1"} \cup {"L2"}) \cup {"L3"})
    BY <2>1, <2>2, FS_Union
  <2>4. ({"L1"} \cup {"L2"}) \cup {"L3"} = Phases
    BY DEF Phases
  <2> QED  BY <2>3, <2>4
<1>1. a \in [S -> Int]
  BY <1>0
<1>2. AddsUp(S, a) /\ AnyFirst(S, a)
  BY <1>0, <1>1, SumsAdd, SumsAny
<1>3. PICK T, U : T = S \ {"L1"} /\ U = T \ {"L2"}
  OBVIOUS
<1>4. "L1" \in S /\ "L2" \in T /\ "L3" \in U /\ U \ {"L3"} = {}
  BY <1>0, <1>3 DEF Phases
<1>5. S \in SUBSET S /\ T \in SUBSET S /\ U \in SUBSET S
  BY <1>3
<1>6. /\ Sums(a)[S] = a["L1"] + Sums(a)[T]
      /\ Sums(a)[T] = a["L2"] + Sums(a)[U]
      /\ Sums(a)[U] = a["L3"] + Sums(a)[U \ {"L3"}]
  BY <1>2, <1>3, <1>4, <1>5 DEF AnyFirst
<1>7. Sums(a)[U \ {"L3"}] = 0
  BY <1>2, <1>4 DEF AddsUp
<1>8. a["L1"] \in Int /\ a["L2"] \in Int /\ a["L3"] \in Int
  BY DEF Phases
<1>9. SumOver(a) = Sums(a)[S]
  BY <1>0, SumOverIsSums
<1> QED  BY <1>6, <1>7, <1>8, <1>9

\* What is read of a unit.
UnitReadings ==
  [ value : [Fields -> Int], bits : [Ored -> SUBSET Nat], pvTotal : Int, loadTotal : Int,
    apparentTotal : Int, codes : [Slots -> Nat], charge : Nat, state : Nat ]

OfPhases(v, name) == v[<<"L1", name>>] + v[<<"L2", name>>] + v[<<"L3", name>>]

\* Its totals are those of its fields.
TotalsOfFields(u) ==
  /\ u.pvTotal = u.value[<<"pv", "PV1Power">>] + u.value[<<"pv", "PV2Power">>]
  /\ u.loadTotal = OfPhases(u.value, "Power")
  /\ u.apparentTotal = OfPhases(u.value, "ApparentPower")

UnitsKnown(units) ==
  /\ units \in Seq(UnitReadings) /\ units # <<>>
  /\ \A u \in DOMAIN units : TotalsOfFields(units[u])

\* The fields that totals are made of are summed.
LEMMA TotaledFields ==
  /\ <<"pv", "PV1Power">> \in Fields /\ <<"pv", "PV2Power">> \in Fields
  /\ \A p \in Phases, name \in {"Power", "ApparentPower"} :
       <<p, name>> \in Fields /\ <<p, name>> \notin Averaged /\ <<p, name>> \notin Hottest
<1>1. <<"pv", "PV1Power">> \in Summed /\ <<"pv", "PV2Power">> \in Summed
  BY DEF Summed
<1>2. ASSUME NEW p \in Phases, NEW name \in {"Power", "ApparentPower"}
      PROVE  <<p, name>> \in Summed /\ <<p, name>> \notin Averaged /\ <<p, name>> \notin Hottest
  <2>1. <<p, name>> \in Summed
    BY DEF Summed
  <2>2. <<p, name>> \notin Averaged
    BY DEF Averaged, Phases
  <2>3. <<p, name>> \notin Hottest
    BY DEF Hottest, ByteFields, Phases
  <2> QED  BY <2>1, <2>2, <2>3
<1> QED  BY <1>1, <1>2 DEF Fields

\* A field is a number, whichever way its words are read.
LEMMA FieldIsInteger ==
  ASSUME NEW f, NEW low \in Nat, NEW high \in Nat
  PROVE  ReadField(f, low, high) \in Int
<1>1. \A b \in Int : Signed8(b) \in Int
  BY DEF Signed8
<1>2. Signed16(low) \in Int
  BY DEF Signed16
<1>3. Signed8(low \div 256) \in Int /\ Signed8(low % 256) \in Int
  BY <1>1
<1>4. low + 65536 * high \in Int
  OBVIOUS
<1> QED  BY <1>2, <1>3, <1>4 DEF ReadField

\* What ReadUnit makes of any registers has the totals of its own fields.
LEMMA UnitIsKnown ==
  ASSUME NEW r \in UnitRegisters
  PROVE  ReadUnit(r) \in UnitReadings /\ TotalsOfFields(ReadUnit(r))
<1> DEFINE v == [f \in Fields |-> ReadField(f, r.word[f][1], r.word[f][2])]
<1>1. v \in [Fields -> Int]
  <2>1. ASSUME NEW f \in Fields  PROVE ReadField(f, r.word[f][1], r.word[f][2]) \in Int
    <3>1. PICK w \in Nat \X Nat : w = r.word[f]
      BY DEF UnitRegisters
    <3> QED  BY <3>1, FieldIsInteger
  <2> QED  BY <2>1
<1>2. [f \in Ored |-> ReadBits(r.bits[1], r.bits[2])] \in [Ored -> SUBSET Nat]
  <2>1. r.bits[1] \in SUBSET Nat /\ r.bits[2] \in SUBSET Nat
    BY DEF UnitRegisters
  <2> QED  BY <2>1 DEF ReadBits
<1>3. r.codes \in [Slots -> Nat] /\ r.charge \in Nat /\ r.state \in Nat
  BY DEF UnitRegisters
<1>4. /\ ReadUnit(r).value = v
      /\ ReadUnit(r).pvTotal = v[<<"pv", "PV1Power">>] + v[<<"pv", "PV2Power">>]
      /\ ReadUnit(r).loadTotal = OfPhases(v, "Power")
      /\ ReadUnit(r).apparentTotal = OfPhases(v, "ApparentPower")
  BY DEF ReadUnit, OfPhases
<1>5. /\ OfPhases(v, "Power") \in Int /\ OfPhases(v, "ApparentPower") \in Int
      /\ v[<<"pv", "PV1Power">>] + v[<<"pv", "PV2Power">>] \in Int
  <2> HIDE DEF v
  <2>1. \A p \in Phases : v[<<p, "Power">>] \in Int /\ v[<<p, "ApparentPower">>] \in Int
    BY <1>1, TotaledFields
  <2>2. v[<<"pv", "PV1Power">>] \in Int /\ v[<<"pv", "PV2Power">>] \in Int
    BY <1>1, TotaledFields
  <2> QED  BY <2>1, <2>2 DEF OfPhases, Phases
<1>6. ReadUnit(r) =
        [ value |-> v, bits |-> [f \in Ored |-> ReadBits(r.bits[1], r.bits[2])],
          pvTotal |-> v[<<"pv", "PV1Power">>] + v[<<"pv", "PV2Power">>],
          loadTotal |-> OfPhases(v, "Power"), apparentTotal |-> OfPhases(v, "ApparentPower"),
          codes |-> r.codes, charge |-> r.charge, state |-> r.state ]
  BY DEF ReadUnit, OfPhases
<1> HIDE DEF v
<1>7. ReadUnit(r) \in UnitReadings
  BY <1>1, <1>2, <1>3, <1>5, <1>6 DEF UnitReadings
<1>8. TotalsOfFields(ReadUnit(r))
  BY <1>4 DEF TotalsOfFields
<1> QED  BY <1>7, <1>8

\* An aggregate of several units, field by field.
Several(units) ==
  LET system == Aggregate(units)
      power == SumOver([u \in DOMAIN units |-> units[u].loadTotal])
      apparent == SumOver([u \in DOMAIN units |-> units[u].apparentTotal])
  IN  /\ system.value = [f \in Fields |-> Combine(f, units)]
      /\ system.bits = [f \in Ored |-> UNION {units[u].bits[f] : u \in DOMAIN units}]
      /\ system.pvTotal = system.value[<<"pv", "PV1Power">>].sum
                          + system.value[<<"pv", "PV2Power">>].sum
      /\ system.loadTotal = power
      /\ system.apparentTotal = apparent
      /\ system.factor = PowerFactor(power, apparent)
      /\ system.codes = [s \in Slots |-> FaultCode(units, s)]
      /\ system.charge = ChargeStatus(units)
      /\ system.state = MachineState(units)

\* And of one.
Alone(units) ==
  LET system == Aggregate(units)
      u == units[1]
  IN  /\ system.value = [f \in Fields |-> [sum |-> u.value[f], of |-> 1]]
      /\ system.bits = u.bits /\ system.pvTotal = u.pvTotal /\ system.loadTotal = u.loadTotal
      /\ system.apparentTotal = u.apparentTotal
      /\ system.factor = PowerFactor(u.loadTotal, u.apparentTotal)
      /\ system.codes = u.codes /\ system.charge = u.charge /\ system.state = u.state

\* Aggregate has two cases.
LEMMA OneOrSeveral ==
  ASSUME NEW units
  PROVE  /\ Len(units) = 1 => Alone(units)
         /\ Len(units) # 1 => Several(units)
<1>1. ASSUME Len(units) = 1  PROVE Alone(units)
  BY <1>1 DEF Alone, Aggregate
<1>2. ASSUME Len(units) # 1  PROVE Several(units)
  BY <1>2 DEF Several, Aggregate
<1> QED  BY <1>1, <1>2

\* The units are numbered, and what is read of them are integers.
LEMMA UnitsNumbered ==
  ASSUME NEW units, UnitsKnown(units)
  PROVE  /\ Len(units) \in Nat \ {0} /\ DOMAIN units = 1 .. Len(units)
         /\ IsFiniteSet(DOMAIN units)
         /\ \A u \in DOMAIN units : units[u] \in UnitReadings
<1>1. units \in Seq(UnitReadings) /\ units # <<>>
  BY DEF UnitsKnown
<1>2. Len(units) \in Nat \ {0} /\ DOMAIN units = 1 .. Len(units)
  BY <1>1, EmptySeq, LenProperties
<1>3. IsFiniteSet(1 .. Len(units))
  BY <1>2, FS_Interval
<1>4. \A u \in DOMAIN units : units[u] \in UnitReadings
  BY <1>1, <1>2, ElementOfSeq
<1> QED  BY <1>2, <1>3, <1>4

\* FaultsNeverHidden, of any units.
LEMMA FaultsAreShown ==
  ASSUME NEW units, UnitsKnown(units)
  PROVE  LET system == Aggregate(units)
         IN  /\ \A f \in Ored, b \in 0..31 :
                  b \in system.bits[f] <=> \E u \in DOMAIN units : b \in units[u].bits[f]
             /\ \A s \in Slots :
                  /\ system.codes[s] = 0 => \A u \in DOMAIN units : units[u].codes[s] = 0
                  /\ \E u \in DOMAIN units : system.codes[s] = units[u].codes[s]
<1>1. /\ Len(units) \in Nat \ {0} /\ DOMAIN units = 1 .. Len(units)
      /\ \A u \in DOMAIN units : units[u] \in UnitReadings
  BY UnitsNumbered
<1>2. CASE Len(units) = 1
  <2>1. DOMAIN units = {1}
    BY <1>1, <1>2
  <2>2. Aggregate(units).bits = units[1].bits /\ Aggregate(units).codes = units[1].codes
    BY <1>2, OneOrSeveral DEF Alone
  <2> QED  BY <2>1, <2>2
<1>3. CASE Len(units) # 1
  <2>1. /\ Aggregate(units).bits = [f \in Ored |-> UNION {units[u].bits[f] : u \in DOMAIN units}]
        /\ Aggregate(units).codes = [s \in Slots |-> FaultCode(units, s)]
    BY <1>3, OneOrSeveral DEF Several
  <2>2. ASSUME NEW f \in Ored, NEW b
        PROVE  b \in Aggregate(units).bits[f] <=> \E u \in DOMAIN units : b \in units[u].bits[f]
    BY <2>1
  <2>3. ASSUME NEW s \in Slots
        PROVE  /\ FaultCode(units, s) = 0 => \A u \in DOMAIN units : units[u].codes[s] = 0
               /\ \E u \in DOMAIN units : FaultCode(units, s) = units[u].codes[s]
    <3> DEFINE coded == {u \in DOMAIN units : units[u].codes[s] # 0}
    <3>1. CASE coded = {}
      <4>1. FaultCode(units, s) = 0 /\ \A u \in DOMAIN units : units[u].codes[s] = 0
        BY <3>1 DEF FaultCode
      <4>2. 1 \in DOMAIN units
        BY <1>1
      <4> QED  BY <4>1, <4>2
    <3>2. CASE coded # {}
      <4>1. Min(coded) \in coded
        <5>1. coded \in SUBSET Int
          BY <1>1
        <5>2. IsFiniteSet(coded)
          BY UnitsNumbered, FS_Subset
        <5> HIDE DEF coded
        <5> QED  BY <3>2, <5>1, <5>2, GreatestAndLeast
      <4>2. FaultCode(units, s) = units[Min(coded)].codes[s]
        BY <3>2 DEF FaultCode
      <4> QED  BY <4>1, <4>2
    <3> QED  BY <3>1, <3>2
  <2> QED  BY <2>1, <2>2, <2>3
<1> QED  BY <1>1, <1>2, <1>3

\* TotalsAgree, of any units.
TotalsOf(units) ==
  LET system == Aggregate(units)
      phases(name) == FoldFunction(+, 0, [p \in Phases |-> system.value[<<p, name>>].sum])
      whole(name) == \A p \in Phases : system.value[<<p, name>>].of = 1
  IN  /\ whole("Power") /\ system.loadTotal = phases("Power")
      /\ whole("ApparentPower") /\ system.apparentTotal = phases("ApparentPower")
      /\ system.pvTotal = system.value[<<"pv", "PV1Power">>].sum
                          + system.value[<<"pv", "PV2Power">>].sum
      /\ (\A u \in DOMAIN units, p \in Phases :
            units[u].value[<<p, "Power">>] <= units[u].value[<<p, "ApparentPower">>])
         => system.factor.sum <= system.factor.of

\* The readings of one field, unit by unit.
Readings(units, f) == [u \in DOMAIN units |-> units[u].value[f]]

\* The readings of a field are numbers.
LEMMA ReadingsAreIntegers ==
  ASSUME NEW units, UnitsKnown(units), NEW f \in Fields
  PROVE  Readings(units, f) \in [DOMAIN units -> Int]
<1>1. \A u \in DOMAIN units : units[u] \in UnitReadings
  BY UnitsNumbered
<1>2. \A u \in DOMAIN units : units[u].value[f] \in Int
  BY <1>1 DEF UnitReadings
<1> QED  BY <1>2 DEF Readings

\* So is their sum.
LEMMA SumIsInteger ==
  ASSUME NEW S, IsFiniteSet(S), NEW a \in [S -> Int]
  PROVE  SumOver(a) \in Int
<1>1. AddsUp(S, a)
  BY SumsAdd
<1>2. Sums(a)[S] \in Int
  BY <1>1 DEF AddsUp
<1> QED  BY <1>2, SumOverIsSums

\* The sum of a function is the sum of the three it is the sum of, value by value.
LEMMA SumOfThree ==
  ASSUME NEW S, IsFiniteSet(S), NEW a \in [S -> Int], NEW b \in [S -> Int], NEW c \in [S -> Int],
         NEW d \in [S -> Int], \A x \in S : d[x] = a[x] + b[x] + c[x]
  PROVE  SumOver(d) = SumOver(a) + SumOver(b) + SumOver(c)
<1>1. PICK e \in [S -> Int] : \A x \in S : e[x] = a[x] + b[x]
  <2>1. [x \in S |-> a[x] + b[x]] \in [S -> Int]
    OBVIOUS
  <2> QED  BY <2>1
<1>2. \A x \in S : d[x] = e[x] + c[x]
  BY <1>1
<1>3. \A s \in SUBSET S : Sums(e)[s] = Sums(a)[s] + Sums(b)[s]
  BY <1>1, SumsPlus
<1>4. \A s \in SUBSET S : Sums(d)[s] = Sums(e)[s] + Sums(c)[s]
  BY <1>2, SumsPlus
<1>5. DOMAIN a = S /\ DOMAIN b = S /\ DOMAIN c = S /\ DOMAIN d = S
  OBVIOUS
<1> QED  BY <1>3, <1>4, <1>5, SumOverIsSums

\* A sum grows with its summands.
LEMMA SumLeq ==
  ASSUME NEW S, IsFiniteSet(S), NEW a \in [S -> Int], NEW b \in [S -> Int],
         \A x \in S : a[x] <= b[x]
  PROVE  SumOver(a) <= SumOver(b)
<1>1. \A s \in SUBSET S : Sums(a)[s] <= Sums(b)[s]
  BY SumsLeq
<1>2. DOMAIN a = S /\ DOMAIN b = S
  OBVIOUS
<1> QED  BY <1>1, <1>2, SumOverIsSums

\* Total by total: the sum of the units' totals is the sum of the system's phases.
LEMMA TotalIsOfPhases ==
  ASSUME NEW units, UnitsKnown(units), NEW name \in {"Power", "ApparentPower"},
         NEW value, value = [f \in Fields |-> Combine(f, units)],
         NEW total, total \in [DOMAIN units -> Int],
         \A u \in DOMAIN units : total[u] = OfPhases(units[u].value, name)
  PROVE  /\ \A p \in Phases : value[<<p, name>>].of = 1
         /\ SumOver(total) = SumOver([p \in Phases |-> value[<<p, name>>].sum])
<1> DEFINE Sum(p) == SumOver(Readings(units, <<p, name>>))
<1>1. ASSUME NEW p \in Phases
      PROVE  /\ <<p, name>> \in Fields /\ value[<<p, name>>] = [sum |-> Sum(p), of |-> 1]
             /\ Readings(units, <<p, name>>) \in [DOMAIN units -> Int] /\ Sum(p) \in Int
  <2>1. <<p, name>> \in Fields /\ <<p, name>> \notin Averaged /\ <<p, name>> \notin Hottest
    BY TotaledFields
  <2>2. PICK f : f = <<p, name>>
    OBVIOUS
  <2>3. Combine(f, units) = [sum |-> SumOver(Readings(units, f)), of |-> 1]
    BY <2>1, <2>2 DEF Combine, Readings
  <2>4. Readings(units, f) \in [DOMAIN units -> Int]
    BY <2>1, <2>2, ReadingsAreIntegers
  <2>5. SumOver(Readings(units, f)) \in Int
    BY <2>4, UnitsNumbered, SumIsInteger
  <2> QED  BY <2>1, <2>2, <2>3, <2>4, <2>5
<1>a. ASSUME NEW p \in Phases
      PROVE  value[<<p, name>>].of = 1 /\ value[<<p, name>>].sum = Sum(p) /\ Sum(p) \in Int
  <2>1. value[<<p, name>>] = [sum |-> Sum(p), of |-> 1] /\ Sum(p) \in Int
    BY <1>1
  <2> HIDE DEF Sum
  <2> QED  BY <2>1
<1>2. SumOver(total) = Sum("L1") + Sum("L2") + Sum("L3")
  <2>1. PICK S, a, b, c : /\ S = DOMAIN units /\ a = Readings(units, <<"L1", name>>)
                          /\ b = Readings(units, <<"L2", name>>)
                          /\ c = Readings(units, <<"L3", name>>)
    OBVIOUS
  <2>2. a \in [S -> Int] /\ b \in [S -> Int] /\ c \in [S -> Int] /\ total \in [S -> Int]
    BY <1>1, <2>1 DEF Phases
  <2>3. \A x \in S : total[x] = a[x] + b[x] + c[x]
    BY <2>1 DEF Readings, OfPhases
  <2>4. IsFiniteSet(S)
    BY <2>1, UnitsNumbered
  <2>5. SumOver(total) = SumOver(a) + SumOver(b) + SumOver(c)
    BY <2>2, <2>3, <2>4, SumOfThree
  <2> QED  BY <2>1, <2>5
<1>3. PICK q : q = [p \in Phases |-> value[<<p, name>>].sum]
  OBVIOUS
<1>4. /\ q \in [Phases -> Int]
      /\ \A p \in Phases : q[p] = Sum(p)
  <2>1. \A p \in Phases : q[p] = Sum(p) /\ Sum(p) \in Int
    <3> HIDE DEF Sum
    <3> QED  BY <1>a, <1>3
  <2> QED  BY <1>3, <2>1
<1>5. SumOver(q) = Sum("L1") + Sum("L2") + Sum("L3")
  <2>1. SumOver(q) = q["L1"] + q["L2"] + q["L3"]
    BY <1>4, SumOfPhases
  <2>2. "L1" \in Phases /\ "L2" \in Phases /\ "L3" \in Phases
    BY DEF Phases
  <2> HIDE DEF Sum
  <2> QED  BY <1>4, <2>1, <2>2
<1>6. \A p \in Phases : value[<<p, name>>].of = 1
  BY <1>a
<1> QED  BY <1>2, <1>3, <1>5, <1>6

\* TotalsAgree, of any units.
LEMMA TotalsAreOfFields ==
  ASSUME NEW units, UnitsKnown(units)
  PROVE  TotalsOf(units)
<1>1. /\ Len(units) \in Nat \ {0} /\ DOMAIN units = 1 .. Len(units) /\ IsFiniteSet(DOMAIN units)
      /\ \A u \in DOMAIN units : units[u] \in UnitReadings
  BY UnitsNumbered
<1>2. \A u \in DOMAIN units : TotalsOfFields(units[u])
  BY DEF UnitsKnown
<1> DEFINE Drawn == \A u \in DOMAIN units, p \in Phases :
              units[u].value[<<p, "Power">>] <= units[u].value[<<p, "ApparentPower">>]
           power == [u \in DOMAIN units |-> units[u].loadTotal]
           apparent == [u \in DOMAIN units |-> units[u].apparentTotal]
<1>3. ASSUME NEW u \in DOMAIN units
      PROVE  /\ units[u].loadTotal \in Int /\ units[u].apparentTotal \in Int
             /\ units[u].loadTotal = OfPhases(units[u].value, "Power")
             /\ units[u].apparentTotal = OfPhases(units[u].value, "ApparentPower")
             /\ Drawn => units[u].loadTotal <= units[u].apparentTotal
  <2>1. units[u] \in UnitReadings /\ TotalsOfFields(units[u])
    BY <1>1, <1>2
  <2>2. PICK v \in [Fields -> Int] : v = units[u].value
    BY <2>1 DEF UnitReadings
  <2>3. \A p \in Phases : v[<<p, "Power">>] \in Int /\ v[<<p, "ApparentPower">>] \in Int
    BY <2>2, TotaledFields
  <2>4. Drawn => OfPhases(v, "Power") <= OfPhases(v, "ApparentPower")
    <3>1. Drawn => \A p \in Phases : v[<<p, "Power">>] <= v[<<p, "ApparentPower">>]
      BY <2>2
    <3> HIDE DEF Drawn
    <3> QED  BY <2>3, <3>1 DEF OfPhases, Phases
  <2> HIDE DEF Drawn
  <2>5. units[u].loadTotal \in Int /\ units[u].apparentTotal \in Int
    BY <2>1 DEF UnitReadings
  <2> QED  BY <2>1, <2>2, <2>4, <2>5 DEF TotalsOfFields
<1>4. ASSUME NEW a \in Int, NEW b \in Int
      PROVE  a <= b => PowerFactor(a, b).sum <= PowerFactor(a, b).of
  BY DEF PowerFactor
<1>5. \A g : FoldFunction(+, 0, g) = SumOver(g)
  BY DEF SumOver
<1>6. CASE Len(units) = 1
  <2>1. 1 \in DOMAIN units
    BY <1>1
  <2>2. /\ Aggregate(units).value = [f \in Fields |-> [sum |-> units[1].value[f], of |-> 1]]
        /\ Aggregate(units).pvTotal = units[1].pvTotal
        /\ Aggregate(units).loadTotal = units[1].loadTotal
        /\ Aggregate(units).apparentTotal = units[1].apparentTotal
        /\ Aggregate(units).factor = PowerFactor(units[1].loadTotal, units[1].apparentTotal)
    BY <1>6, OneOrSeveral DEF Alone
  <2>3. PICK v \in [Fields -> Int] : v = units[1].value
    BY <1>1, <2>1 DEF UnitReadings
  <2>4. ASSUME NEW name \in {"Power", "ApparentPower"}
        PROVE  /\ \A p \in Phases : Aggregate(units).value[<<p, name>>].of = 1
               /\ SumOver([p \in Phases |-> Aggregate(units).value[<<p, name>>].sum])
                    = OfPhases(v, name)
    <3>1. PICK q : q = [p \in Phases |-> Aggregate(units).value[<<p, name>>].sum]
      OBVIOUS
    <3>2. ASSUME NEW p \in Phases
          PROVE  /\ Aggregate(units).value[<<p, name>>].of = 1
                 /\ Aggregate(units).value[<<p, name>>].sum = v[<<p, name>>]
                 /\ v[<<p, name>>] \in Int
      <4>1. PICK f \in Fields : f = <<p, name>>
        BY TotaledFields
      <4>2. Aggregate(units).value[f] = [sum |-> v[f], of |-> 1] /\ v[f] \in Int
        BY <2>2, <2>3
      <4>3. Aggregate(units).value[f].of = 1 /\ Aggregate(units).value[f].sum = v[f]
        BY <4>2
      <4> QED  BY <4>1, <4>2, <4>3
    <3>3. q \in [Phases -> Int] /\ \A p \in Phases : q[p] = v[<<p, name>>]
      BY <3>1, <3>2
    <3>4. SumOver(q) = q["L1"] + q["L2"] + q["L3"]
      BY <3>3, SumOfPhases
    <3>5. SumOver(q) = OfPhases(v, name)
      BY <3>3, <3>4 DEF OfPhases, Phases
    <3> QED  BY <3>1, <3>2, <3>5
  <2>5. /\ \A p \in Phases : Aggregate(units).value[<<p, "Power">>].of = 1
        /\ Aggregate(units).loadTotal
             = SumOver([p \in Phases |-> Aggregate(units).value[<<p, "Power">>].sum])
    BY <1>3, <2>1, <2>2, <2>3, <2>4
  <2>6. /\ \A p \in Phases : Aggregate(units).value[<<p, "ApparentPower">>].of = 1
        /\ Aggregate(units).apparentTotal
             = SumOver([p \in Phases |-> Aggregate(units).value[<<p, "ApparentPower">>].sum])
    BY <1>3, <2>1, <2>2, <2>3, <2>4
  <2>7. Aggregate(units).pvTotal = Aggregate(units).value[<<"pv", "PV1Power">>].sum
                                   + Aggregate(units).value[<<"pv", "PV2Power">>].sum
    BY <1>2, <2>1, <2>2, TotaledFields DEF TotalsOfFields
  <2>8. Drawn => Aggregate(units).factor.sum <= Aggregate(units).factor.of
    <3> HIDE DEF Drawn
    <3> QED  BY <1>3, <1>4, <2>1, <2>2
  <2> QED  BY <1>5, <2>5, <2>6, <2>7, <2>8 DEF TotalsOf
<1>7. CASE Len(units) # 1
  <2>1. /\ Aggregate(units).value = [f \in Fields |-> Combine(f, units)]
        /\ Aggregate(units).pvTotal = Aggregate(units).value[<<"pv", "PV1Power">>].sum
                                      + Aggregate(units).value[<<"pv", "PV2Power">>].sum
        /\ Aggregate(units).loadTotal = SumOver(power)
        /\ Aggregate(units).apparentTotal = SumOver(apparent)
        /\ Aggregate(units).factor = PowerFactor(SumOver(power), SumOver(apparent))
    BY <1>7, OneOrSeveral DEF Several
  <2>2. /\ power \in [DOMAIN units -> Int] /\ apparent \in [DOMAIN units -> Int]
        /\ \A u \in DOMAIN units : power[u] = OfPhases(units[u].value, "Power")
        /\ \A u \in DOMAIN units : apparent[u] = OfPhases(units[u].value, "ApparentPower")
        /\ Drawn => \A u \in DOMAIN units : power[u] <= apparent[u]
    <3> HIDE DEF Drawn
    <3> QED  BY <1>3
  <2> HIDE DEF power, apparent, Drawn
  <2>3. PICK value : value = Aggregate(units).value
    OBVIOUS
  <2>4. /\ \A p \in Phases : value[<<p, "Power">>].of = 1
        /\ SumOver(power) = SumOver([p \in Phases |-> value[<<p, "Power">>].sum])
    BY <2>1, <2>2, <2>3, TotalIsOfPhases
  <2>5. /\ \A p \in Phases : value[<<p, "ApparentPower">>].of = 1
        /\ SumOver(apparent) = SumOver([p \in Phases |-> value[<<p, "ApparentPower">>].sum])
    BY <2>1, <2>2, <2>3, TotalIsOfPhases
  <2>6. Drawn => Aggregate(units).factor.sum <= Aggregate(units).factor.of
    <3>1. SumOver(power) \in Int /\ SumOver(apparent) \in Int
      BY <1>1, <2>2, SumIsInteger
    <3>2. Drawn => SumOver(power) <= SumOver(apparent)
      <4> SUFFICES ASSUME Drawn  PROVE SumOver(power) <= SumOver(apparent)
        OBVIOUS
      <4>1. \A u \in DOMAIN units : power[u] <= apparent[u]
        BY <2>2
      <4> QED  BY <1>1, <2>2, <4>1, SumLeq
    <3> QED  BY <1>4, <2>1, <3>1, <3>2
  <2> QED  BY <1>5, <2>1, <2>3, <2>4, <2>5, <2>6 DEF TotalsOf, Drawn
<1> QED  BY <1>1, <1>6, <1>7

\* WithinTheUnits, of any units.
WithinOf(units) ==
  \A f \in Averaged \cup Hottest :
    LET readings == {units[u].value[f] : u \in DOMAIN units}
        seen == Aggregate(units).value[f]
    IN  Min(readings) * seen.of <= seen.sum /\ seen.sum <= Max(readings) * seen.of

\* WithinTheUnits, of any units: a sum of n readings is between n times the least and n
\* times the greatest.
LEMMA ShownIsWithin ==
  ASSUME NEW units, UnitsKnown(units)
  PROVE  WithinOf(units)
<1> SUFFICES ASSUME NEW f \in Averaged \cup Hottest
             PROVE  LET readings == {units[u].value[f] : u \in DOMAIN units}
                        seen == Aggregate(units).value[f]
                    IN  /\ Min(readings) * seen.of <= seen.sum
                        /\ seen.sum <= Max(readings) * seen.of
  BY DEF WithinOf
<1>1. f \in Fields
  BY DEF Fields
<1>2. PICK n \in Nat \ {0} : n = Len(units) /\ DOMAIN units = 1 .. n
  BY UnitsNumbered
<1>3. PICK a : a = Readings(units, f) /\ a \in [1 .. n -> Int]
  BY <1>1, <1>2, ReadingsAreIntegers
<1>4. PICK readings : readings = {units[u].value[f] : u \in DOMAIN units}
  OBVIOUS
<1>5. readings = {a[u] : u \in 1 .. n}
  BY <1>2, <1>3, <1>4 DEF Readings
<1>6. PICK lo, hi \in Int : lo = Min(readings) /\ hi = Max(readings) /\ hi \in readings
                            /\ \A u \in 1 .. n : lo <= a[u] /\ a[u] <= hi
  <2>1. readings \in SUBSET Int
    BY <1>3, <1>5
  <2>2. IsFiniteSet(readings)
    <3>1. IsFiniteSet(1 .. n)
      BY FS_Interval
    <3>2. a \in Surjection(1 .. n, readings)
      BY <1>3, <1>5 DEF Surjection
    <3> QED  BY <3>1, <3>2, FS_Surjection
  <2>3. a[1] \in readings
    BY <1>5
  <2>4. /\ Max(readings) \in readings /\ \A x \in readings : x <= Max(readings)
        /\ Min(readings) \in readings /\ \A x \in readings : Min(readings) <= x
    BY <2>1, <2>2, <2>3, GreatestAndLeast
  <2>5. \A u \in 1 .. n : a[u] \in readings
    BY <1>5
  <2> QED  BY <2>1, <2>4, <2>5
<1>7. PICK seen : seen = Aggregate(units).value[f]
  OBVIOUS
<1>8. lo * seen.of <= seen.sum /\ seen.sum <= hi * seen.of
  <2>1. CASE n = 1
    <3>1. Aggregate(units).value = [g \in Fields |-> [sum |-> units[1].value[g], of |-> 1]]
      BY <1>2, <2>1, OneOrSeveral DEF Alone
    <3>2. seen = [sum |-> a[1], of |-> 1]
      BY <1>1, <1>2, <1>3, <1>7, <2>1, <3>1 DEF Readings
    <3>3. seen.sum = a[1] /\ seen.of = 1
      BY <3>2
    <3>4. lo <= a[1] /\ a[1] <= hi /\ a[1] \in Int
      BY <1>3, <1>6
    <3> QED  BY <3>3, <3>4
  <2>2. CASE n # 1
    <3>1. Aggregate(units).value = [g \in Fields |-> Combine(g, units)]
      BY <1>2, <2>2, OneOrSeveral DEF Several
    <3>2. seen = Combine(f, units)
      BY <1>1, <1>7, <3>1
    <3>3. CASE f \in Hottest
      <4>1. seen.sum = Max(readings) /\ seen.of = 1
        BY <1>4, <3>2, <3>3 DEF Combine
      <4>2. lo <= hi
        <5>1. 1 \in 1 .. n /\ a[1] \in Int
          BY <1>3
        <5>2. lo <= a[1] /\ a[1] <= hi
          BY <1>6, <5>1
        <5> QED  BY <5>1, <5>2
      <4> QED  BY <1>6, <4>1, <4>2
    <3>4. CASE f \notin Hottest
      <4>1. seen.sum = SumOver(a) /\ seen.of = n
        BY <1>2, <1>3, <3>2, <3>4 DEF Combine, Readings
      <4>2. PICK S : S = 1 .. n /\ IsFiniteSet(S) /\ Cardinality(S) = n
        <5>1. IsFiniteSet(1 .. n) /\ Cardinality(1 .. n) = n
          BY FS_Interval
        <5> QED  BY <5>1
      <4>3. PICK l \in [S -> Int], h \in [S -> Int] : \A u \in S : l[u] = lo /\ h[u] = hi
        <5>1. [u \in S |-> lo] \in [S -> Int] /\ [u \in S |-> hi] \in [S -> Int]
          BY <1>6
        <5> QED  BY <5>1
      <4>4. a \in [S -> Int] /\ IsFiniteSet(S)
        BY <1>3, <4>2
      <4>5. SumOver(l) <= SumOver(a)
        <5>1. \A u \in S : l[u] <= a[u]
          BY <1>6, <4>2, <4>3
        <5> QED  BY <4>4, <5>1, SumLeq
      <4>6. SumOver(a) <= SumOver(h)
        <5>1. \A u \in S : a[u] <= h[u]
          BY <1>6, <4>2, <4>3
        <5> QED  BY <4>4, <5>1, SumLeq
      <4>7. SumOver(l) = lo * n
        <5>1. \A u \in S : l[u] = lo
          BY <4>3
        <5>2. \A s \in SUBSET S : Sums(l)[s] = lo * Cardinality(s)
          BY <4>4, <5>1, SumsConstant
        <5>3. SumOver(l) = Sums(l)[S]
          BY SumOverIsSums
        <5> QED  BY <4>2, <5>2, <5>3
      <4>8. SumOver(h) = hi * n
        <5>1. \A u \in S : h[u] = hi
          BY <4>3
        <5>2. \A s \in SUBSET S : Sums(h)[s] = hi * Cardinality(s)
          BY <4>4, <5>1, SumsConstant
        <5>3. SumOver(h) = Sums(h)[S]
          BY SumOverIsSums
        <5> QED  BY <4>2, <5>2, <5>3
      <4> QED  BY <4>1, <4>5, <4>6, <4>7, <4>8
    <3> QED  BY <3>3, <3>4
  <2> QED  BY <2>1, <2>2
<1> QED  BY <1>4, <1>6, <1>7, <1>8

\* OrderOfUnits, of units and of the same units in another order.
SameSystem(units, others) ==
  LET one == Aggregate(units)
      other == Aggregate(others)
  IN  /\ one.value = other.value
      /\ one.bits = other.bits
      /\ one.state = other.state
      /\ one.factor = other.factor
      /\ one.charge = 0 <=> other.charge = 0

\* The sum of the units is that of the reversed units.
LEMMA SumOfReversed ==
  ASSUME NEW n \in Nat, NEW a \in [1 .. n -> Int]
  PROVE  SumOver([u \in 1 .. n |-> a[n + 1 - u]]) = SumOver(a)
<1>1. PICK b : b = [u \in 1 .. n |-> a[n + 1 - u]]
  OBVIOUS
<1>2. b \in [1 .. n -> Int] /\ \A u \in 1 .. n : b[u] = a[n + 1 - u]
  BY <1>1
<1>3. Sums(b)[1 .. n] = Sums(a)[1 .. n]
  BY <1>2, SumsReversed
<1>4. DOMAIN a = 1 .. n /\ DOMAIN b = 1 .. n
  BY <1>2
<1> QED  BY <1>1, <1>3, <1>4, SumOverIsSums

\* Whether a unit is charging is shown.
LEMMA ChargeIsShown ==
  ASSUME NEW units, UnitsKnown(units), Len(units) # 1
  PROVE  Aggregate(units).charge = 0 <=> \A u \in DOMAIN units : units[u].charge = 0
<1> DEFINE charging == {u \in DOMAIN units : units[u].charge # 0}
<1>1. Aggregate(units).charge = ChargeStatus(units)
  BY OneOrSeveral DEF Several
<1>2. CASE charging = {}
  BY <1>1, <1>2 DEF ChargeStatus
<1>3. CASE charging # {}
  <2>1. Min(charging) \in charging
    <3>1. charging \in SUBSET Int
      BY UnitsNumbered
    <3>2. IsFiniteSet(charging)
      BY UnitsNumbered, FS_Subset
    <3> HIDE DEF charging
    <3> QED  BY <1>3, <3>1, <3>2, GreatestAndLeast
  <2>2. ChargeStatus(units) = units[Min(charging)].charge
    BY <1>3 DEF ChargeStatus
  <2> QED  BY <1>1, <2>1, <2>2
<1> QED  BY <1>2, <1>3

IsReversed(units, others) == others = [u \in DOMAIN units |-> units[Len(units) + 1 - u]]

\* OrderOfUnits, of any units.
LEMMA OrderIsIrrelevant ==
  ASSUME NEW units, UnitsKnown(units), NEW others, IsReversed(units, others)
  PROVE  SameSystem(units, others)
<1>1. PICK n \in Nat \ {0} : /\ n = Len(units) /\ DOMAIN units = 1 .. n
                             /\ \A u \in 1 .. n : units[u] \in UnitReadings
  BY UnitsNumbered
<1>2. /\ DOMAIN others = 1 .. n /\ Len(others) = n
      /\ \A u \in 1 .. n : others[u] = units[n + 1 - u] /\ n + 1 - u \in 1 .. n
  <2>1. /\ DOMAIN others = 1 .. n
        /\ \A u \in 1 .. n : others[u] = units[n + 1 - u] /\ n + 1 - u \in 1 .. n
    BY <1>1 DEF IsReversed
  <2>2. others \in Seq(UnitReadings)
    BY <1>1, <2>1 DEF IsReversed
  <2> QED  BY <1>1, <2>1, <2>2, LenProperties
<1>3. \A u \in 1 .. n : n + 1 - u \in 1 .. n /\ others[n + 1 - u] = units[u]
  <2> SUFFICES ASSUME NEW u \in 1 .. n
               PROVE  n + 1 - u \in 1 .. n /\ others[n + 1 - u] = units[u]
    OBVIOUS
  <2>1. n + 1 - u \in 1 .. n /\ n + 1 - (n + 1 - u) = u
    BY <1>1
  <2> QED  BY <1>2, <2>1
<1>4. UnitsKnown(others)
  <2>1. others \in Seq(UnitReadings) /\ others # <<>>
    <3>1. \A u \in 1 .. n : others[u] \in UnitReadings
      BY <1>1, <1>2
    <3>2. others \in Seq(UnitReadings)
      BY <1>1, <1>2, <3>1 DEF IsReversed
    <3> QED  BY <1>1, <1>2, <3>2
  <2>2. \A u \in DOMAIN units : TotalsOfFields(units[u])
    BY DEF UnitsKnown
  <2>3. \A u \in DOMAIN others : TotalsOfFields(others[u])
    BY <1>1, <1>2, <2>2
  <2> QED  BY <2>1, <2>3 DEF UnitsKnown
<1>5. CASE n = 1
  <2>1. others[1] = units[1]
    BY <1>2, <1>5
  <2>2. Alone(units) /\ Alone(others)
    BY <1>1, <1>2, <1>5, OneOrSeveral
  <2>3. /\ Aggregate(units).value = Aggregate(others).value
        /\ Aggregate(units).bits = Aggregate(others).bits
        /\ Aggregate(units).factor = Aggregate(others).factor
    BY <2>1, <2>2 DEF Alone
  <2>4. /\ Aggregate(units).state = Aggregate(others).state
        /\ Aggregate(units).charge = Aggregate(others).charge
    BY <2>1, <2>2 DEF Alone
  <2> QED  BY <2>3, <2>4 DEF SameSystem
<1>6. CASE n # 1
  <2>1. Several(units) /\ Several(others)
    BY <1>1, <1>2, <1>6, OneOrSeveral
  <2>2. ASSUME NEW f \in Fields  PROVE Combine(f, units) = Combine(f, others)
    <3>1. PICK a : a = Readings(units, f) /\ a \in [1 .. n -> Int]
      BY <1>1, ReadingsAreIntegers
    <3>2. Readings(others, f) = [u \in 1 .. n |-> a[n + 1 - u]]
      BY <1>1, <1>2, <3>1 DEF Readings
    <3>3. SumOver(Readings(others, f)) = SumOver(Readings(units, f))
      <4>1. SumOver([u \in 1 .. n |-> a[n + 1 - u]]) = SumOver(a)
        BY <3>1, SumOfReversed
      <4> QED  BY <3>1, <3>2, <4>1
    <3>4. {units[u].value[f] : u \in DOMAIN units} = {others[u].value[f] : u \in DOMAIN others}
      <4>1. ASSUME NEW u \in 1 .. n
            PROVE  \E w \in 1 .. n : units[u].value[f] = others[w].value[f]
        BY <1>3
      <4>2. ASSUME NEW u \in 1 .. n
            PROVE  \E w \in 1 .. n : others[u].value[f] = units[w].value[f]
        BY <1>2
      <4>3. DOMAIN units = 1 .. n /\ DOMAIN others = 1 .. n
        BY <1>1, <1>2
      <4>4. ASSUME NEW x, x \in {units[u].value[f] : u \in DOMAIN units}
            PROVE  x \in {others[u].value[f] : u \in DOMAIN others}
        <5>1. PICK u \in 1 .. n : x = units[u].value[f]
          BY <4>3, <4>4
        <5>2. PICK w \in 1 .. n : x = others[w].value[f]
          BY <4>1, <5>1
        <5> QED  BY <4>3, <5>2
      <4>5. ASSUME NEW x, x \in {others[u].value[f] : u \in DOMAIN others}
            PROVE  x \in {units[u].value[f] : u \in DOMAIN units}
        <5>1. PICK u \in 1 .. n : x = others[u].value[f]
          BY <4>3, <4>5
        <5>2. PICK w \in 1 .. n : x = units[w].value[f]
          BY <4>2, <5>1
        <5> QED  BY <4>3, <5>2
      <4> QED  BY <4>4, <4>5
    <3>5. Len(units) = Len(others)
      BY <1>1, <1>2
    <3>6. /\ SumOver([u \in DOMAIN others |-> others[u].value[f]])
               = SumOver([u \in DOMAIN units |-> units[u].value[f]])
      BY <3>3 DEF Readings
    <3> QED  BY <3>4, <3>5, <3>6 DEF Combine
  <2>3. ASSUME NEW f \in Ored
        PROVE  UNION {units[u].bits[f] : u \in DOMAIN units}
                 = UNION {others[u].bits[f] : u \in DOMAIN others}
    <3>1. {units[u].bits[f] : u \in DOMAIN units} = {others[u].bits[f] : u \in DOMAIN others}
      <4>1. ASSUME NEW u \in 1 .. n
            PROVE  \E w \in 1 .. n : units[u].bits[f] = others[w].bits[f]
        BY <1>3
      <4>2. ASSUME NEW u \in 1 .. n
            PROVE  \E w \in 1 .. n : others[u].bits[f] = units[w].bits[f]
        BY <1>2
      <4>3. DOMAIN units = 1 .. n /\ DOMAIN others = 1 .. n
        BY <1>1, <1>2
      <4>4. ASSUME NEW x, x \in {units[u].bits[f] : u \in DOMAIN units}
            PROVE  x \in {others[u].bits[f] : u \in DOMAIN others}
        <5>1. PICK u \in 1 .. n : x = units[u].bits[f]
          BY <4>3, <4>4
        <5>2. PICK w \in 1 .. n : x = others[w].bits[f]
          BY <4>1, <5>1
        <5> QED  BY <4>3, <5>2
      <4>5. ASSUME NEW x, x \in {others[u].bits[f] : u \in DOMAIN others}
            PROVE  x \in {units[u].bits[f] : u \in DOMAIN units}
        <5>1. PICK u \in 1 .. n : x = others[u].bits[f]
          BY <4>3, <4>5
        <5>2. PICK w \in 1 .. n : x = units[w].bits[f]
          BY <4>2, <5>1
        <5> QED  BY <4>3, <5>2
      <4> QED  BY <4>4, <4>5
    <3> QED  BY <3>1
  <2>4. MachineState(units) = MachineState(others)
    <3>1. {units[u].state : u \in DOMAIN units} = {others[u].state : u \in DOMAIN others}
      <4>1. ASSUME NEW u \in 1 .. n
            PROVE  \E w \in 1 .. n : units[u].state = others[w].state
        BY <1>3
      <4>2. ASSUME NEW u \in 1 .. n
            PROVE  \E w \in 1 .. n : others[u].state = units[w].state
        BY <1>2
      <4>3. DOMAIN units = 1 .. n /\ DOMAIN others = 1 .. n
        BY <1>1, <1>2
      <4>4. ASSUME NEW x, x \in {units[u].state : u \in DOMAIN units}
            PROVE  x \in {others[u].state : u \in DOMAIN others}
        <5>1. PICK u \in 1 .. n : x = units[u].state
          BY <4>3, <4>4
        <5>2. PICK w \in 1 .. n : x = others[w].state
          BY <4>1, <5>1
        <5> QED  BY <4>3, <5>2
      <4>5. ASSUME NEW x, x \in {others[u].state : u \in DOMAIN others}
            PROVE  x \in {units[u].state : u \in DOMAIN units}
        <5>1. PICK u \in 1 .. n : x = others[u].state
          BY <4>3, <4>5
        <5>2. PICK w \in 1 .. n : x = units[w].state
          BY <4>2, <5>1
        <5> QED  BY <4>3, <5>2
      <4> QED  BY <4>4, <4>5
    <3> QED  BY <3>1 DEF MachineState
  <2>5. SumOver([u \in DOMAIN units |-> units[u].loadTotal])
          = SumOver([u \in DOMAIN others |-> others[u].loadTotal])
    <3>1. PICK a : a = [u \in 1 .. n |-> units[u].loadTotal]
      OBVIOUS
    <3>2. a \in [1 .. n -> Int]
      BY <1>1, <3>1 DEF UnitReadings
    <3>3. [u \in DOMAIN others |-> others[u].loadTotal] = [u \in 1 .. n |-> a[n + 1 - u]]
      BY <1>2, <3>1
    <3>4. SumOver([u \in 1 .. n |-> a[n + 1 - u]]) = SumOver(a)
      BY <1>1, <3>2, SumOfReversed
    <3>5. [u \in DOMAIN units |-> units[u].loadTotal] = a
      BY <1>1, <3>1
    <3> QED  BY <3>3, <3>4, <3>5
  <2>6. SumOver([u \in DOMAIN units |-> units[u].apparentTotal])
          = SumOver([u \in DOMAIN others |-> others[u].apparentTotal])
    <3>1. PICK a : a = [u \in 1 .. n |-> units[u].apparentTotal]
      OBVIOUS
    <3>2. a \in [1 .. n -> Int]
      BY <1>1, <3>1 DEF UnitReadings
    <3>3. [u \in DOMAIN others |-> others[u].apparentTotal] = [u \in 1 .. n |-> a[n + 1 - u]]
      BY <1>2, <3>1
    <3>4. SumOver([u \in 1 .. n |-> a[n + 1 - u]]) = SumOver(a)
      BY <1>1, <3>2, SumOfReversed
    <3>5. [u \in DOMAIN units |-> units[u].apparentTotal] = a
      BY <1>1, <3>1
    <3> QED  BY <3>3, <3>4, <3>5
  <2>7. Aggregate(units).charge = 0 <=> Aggregate(others).charge = 0
    <3>1. (\A u \in DOMAIN units : units[u].charge = 0)
            <=> (\A u \in DOMAIN others : others[u].charge = 0)
      BY SMTT(30), <1>1, <1>2, <1>3
    <3>2. Aggregate(units).charge = 0 <=> \A u \in DOMAIN units : units[u].charge = 0
      BY <1>1, <1>6, ChargeIsShown
    <3>3. Aggregate(others).charge = 0 <=> \A u \in DOMAIN others : others[u].charge = 0
      <4>1. Len(others) # 1
        BY <1>2, <1>6
      <4> QED  BY <1>4, <4>1, ChargeIsShown
    <3> QED  BY <3>1, <3>2, <3>3
  <2>8. Aggregate(units).value = Aggregate(others).value
    <3>1. /\ Aggregate(units).value = [f \in Fields |-> Combine(f, units)]
          /\ Aggregate(others).value = [f \in Fields |-> Combine(f, others)]
      BY <2>1 DEF Several
    <3> QED  BY <2>2, <3>1
  <2>9. Aggregate(units).bits = Aggregate(others).bits
    <3>1. /\ Aggregate(units).bits
               = [f \in Ored |-> UNION {units[u].bits[f] : u \in DOMAIN units}]
          /\ Aggregate(others).bits
               = [f \in Ored |-> UNION {others[u].bits[f] : u \in DOMAIN others}]
      BY <2>1 DEF Several
    <3> QED  BY <2>3, <3>1
  <2>10. /\ Aggregate(units).state = Aggregate(others).state
         /\ Aggregate(units).factor = Aggregate(others).factor
    BY <2>1, <2>4, <2>5, <2>6 DEF Several
  <2> QED  BY <2>7, <2>8, <2>9, <2>10 DEF SameSystem
<1> QED  BY <1>5, <1>6

\* Of any number of units, whatever their registers hold, the one snapshot shows what
\* there is: no fault hidden, totals that add up, means and extremes within the units.
THEOREM SystemShowsUnitsHolds == AggregationSpec => []SystemShowsUnits
<1> DEFINE Known == registers = <<>> \/ registers \in Installations
<1>1. AggregationInit => Known
  BY DEF AggregationInit
<1>2. Known /\ [Poll]_registers => Known'
  BY DEF Poll
<1>3. Known => SystemShowsUnits
  <2> SUFFICES ASSUME Known  PROVE SystemShowsUnits
    OBVIOUS
  <2>1. CASE registers = <<>>
    BY <2>1 DEF SystemShowsUnits, FaultsNeverHidden, TotalsAgree, WithinTheUnits, OrderOfUnits,
                Polled
  <2>2. CASE registers # <<>>
    <3>1. registers \in Seq(UnitRegisters)
      BY <2>2, InstallationsAssumption
    <3>2. PICK units : units = Units
      OBVIOUS
    <3>3. UnitsKnown(units)
      <4>1. /\ DOMAIN registers = 1 .. Len(registers) /\ Len(registers) \in Nat
            /\ \A u \in DOMAIN registers : registers[u] \in UnitRegisters
        BY <3>1, LenProperties, ElementOfSeq
      <4>2. /\ DOMAIN units = 1 .. Len(registers)
            /\ \A u \in DOMAIN units : units[u] \in UnitReadings /\ TotalsOfFields(units[u])
        BY <3>2, <4>1, UnitIsKnown DEF Units
      <4>3. units \in Seq(UnitReadings)
        BY <3>2, <4>1, <4>2, IsASeq DEF Units
      <4>4. units # <<>>
        BY <2>2, <3>1, <4>1, <4>2, EmptySeq
      <4> QED  BY <4>2, <4>3, <4>4 DEF UnitsKnown
    <3>4. FaultsNeverHidden
      BY <3>2, <3>3, FaultsAreShown DEF FaultsNeverHidden
    <3>5. TotalsAgree
      BY <3>2, <3>3, TotalsAreOfFields DEF TotalsAgree, TotalsOf
    <3>6. WithinTheUnits
      BY <3>2, <3>3, ShownIsWithin DEF WithinTheUnits, WithinOf
    <3>7. OrderOfUnits
      <4>1. PICK others : others = Reversed
        OBVIOUS
      <4>2. SameSystem(units, others)
        BY <3>2, <3>3, <4>1, OrderIsIrrelevant DEF Reversed, IsReversed
      <4> QED  BY <3>2, <4>1, <4>2 DEF OrderOfUnits, SameSystem
    <3> QED  BY <3>4, <3>5, <3>6, <3>7 DEF SystemShowsUnits
  <2> QED  BY <2>1, <2>2
<1> HIDE DEF Known
<1> QED  BY <1>1, <1>2, <1>3, PTL DEF AggregationSpec

-----------------------------------------------------------------------------
(***************************************************************************)
(* BulkRead. The spans of a group are made of neighbours and hold all of   *)
(* its registers (AllSpanned, by induction over the registers). What is    *)
(* settled stays so until the operation ends, since a part begins only     *)
(* when the spans of the one before are done (PartsAreRead); hence no      *)
(* reader is given an older word (ShownIsRead).                            *)
(***************************************************************************)

\* The spans of the registers of each set of places, as FoldLeft builds them up.
Built(group) == CHOOSE iter :
  iter = [s \in SUBSET DOMAIN group |->
            IF s = {} THEN <<>>
            ELSE LET x == Max(s) IN AddRegister(iter[s \ {x}], group[x])]

\* Spans is the recursion's value on all places.
LEMMA SpansAreBuilt ==
  ASSUME NEW group  PROVE  Spans(group) = Built(group)[DOMAIN group]
BY DEF Spans, FoldLeft, MapThenFoldSet, Built

\* The last place of the first k.
LEMMA MaxOfPlaces ==
  ASSUME NEW k \in Nat \ {0}  PROVE  Max(1 .. k) = k /\ (1 .. k) \ {k} = 1 .. k - 1
<1>1. Max(1 .. k) = CHOOSE x \in 1 .. k : \A y \in 1 .. k : x >= y
  BY DEF Max
<1>2. k \in 1 .. k /\ \A y \in 1 .. k : k >= y
  OBVIOUS
<1>3. \A x \in 1 .. k : (\A y \in 1 .. k : x >= y) => x = k
  BY <1>2
<1> QED  BY <1>1, <1>2, <1>3

BuiltUp(group) ==
  /\ Built(group)[{}] = <<>>
  /\ \A k \in 1 .. Len(group) :
       Built(group)[1 .. k] = AddRegister(Built(group)[1 .. k - 1], group[k])

\* The recursion has a solution.
LEMMA SpansBuildUp ==
  ASSUME NEW R, NEW group \in Seq(R)
  PROVE  BuiltUp(group)
<1>1. PICK S : S = DOMAIN group /\ S = 1 .. Len(group) /\ Len(group) \in Nat /\ IsFiniteSet(S)
  <2>1. DOMAIN group = 1 .. Len(group) /\ Len(group) \in Nat
    BY LenProperties
  <2> QED  BY <2>1, FS_Interval
<1> DEFINE Right(g, s) == IF s = {} THEN <<>> ELSE AddRegister(g[s \ {Max(s)}], group[Max(s)])
           Upto(n) == {s \in SUBSET S : Cardinality(s) <= n}
           T == {n \in Nat : \E g : DOMAIN g = SUBSET S /\ \A s \in Upto(n) : g[s] = Right(g, s)}
<1>2. \A s \in SUBSET S : IsFiniteSet(s) /\ Cardinality(s) \in Nat
  BY <1>1, FS_Subset, FS_CardinalityType
<1>3. \A s \in SUBSET S : s # {} =>
        s \ {Max(s)} \in SUBSET S
        /\ \A n \in Nat : Cardinality(s) <= n + 1 => Cardinality(s \ {Max(s)}) <= n
  <2> SUFFICES ASSUME NEW s \in SUBSET S, s # {}
               PROVE  s \ {Max(s)} \in SUBSET S
                      /\ \A n \in Nat : Cardinality(s) <= n + 1 => Cardinality(s \ {Max(s)}) <= n
    OBVIOUS
  <2>1. Max(s) \in s
    BY <1>1, <1>2, GreatestAndLeast
  <2>2. Cardinality(s \ {Max(s)}) = Cardinality(s) - 1
    BY <1>2, <2>1, FS_RemoveElement
  <2> QED  BY <1>2, <2>2
<1>4. 0 \in T
  <2> DEFINE g == [s \in SUBSET S |-> <<>>]
  <2>1. DOMAIN g = SUBSET S
    OBVIOUS
  <2>2. ASSUME NEW s \in Upto(0)  PROVE g[s] = Right(g, s)
    <3>1. s = {}
      BY <1>2, FS_EmptySet
    <3> QED  BY <3>1
  <2> QED  BY <2>1, <2>2
<1>5. ASSUME NEW n \in Nat, n \in T  PROVE n + 1 \in T
  <2>1. PICK g : DOMAIN g = SUBSET S /\ \A s \in Upto(n) : g[s] = Right(g, s)
    BY <1>5
  <2> DEFINE h == [s \in SUBSET S |-> IF Cardinality(s) <= n THEN g[s] ELSE Right(g, s)]
  <2>2. DOMAIN h = SUBSET S
    OBVIOUS
  <2>3. ASSUME NEW s \in Upto(n + 1)  PROVE h[s] = Right(h, s)
    <3>1. h[s] = Right(g, s)
      <4>1. CASE Cardinality(s) <= n
        BY <2>1, <4>1
      <4>2. CASE ~ Cardinality(s) <= n
        BY <4>2
      <4> QED  BY <4>1, <4>2
    <3>2. s # {} => h[s \ {Max(s)}] = g[s \ {Max(s)}]
      BY <1>3
    <3> HIDE DEF h
    <3> QED  BY <3>1, <3>2
  <2> HIDE DEF h, Right, Upto
  <2>4. \E f : DOMAIN f = SUBSET S /\ \A s \in Upto(n + 1) : f[s] = Right(f, s)
    BY <2>2, <2>3
  <2> QED  BY <2>4
<1> DEFINE Solves(iter) == iter = [s \in SUBSET S |-> Right(iter, s)]
<1>6. \E iter : Solves(iter)
  <2>1. Nat \subseteq T
    <3> HIDE DEF T
    <3> QED  BY <1>4, <1>5, AllNaturals
  <2>2. Cardinality(S) \in T
    BY <1>2, <2>1
  <2>3. PICK g : DOMAIN g = SUBSET S /\ \A s \in Upto(Cardinality(S)) : g[s] = Right(g, s)
    BY <2>2
  <2>4. ASSUME NEW s \in SUBSET S  PROVE g[s] = Right(g, s)
    <3>1. Cardinality(s) <= Cardinality(S)
      BY <1>1, FS_Subset
    <3> QED  BY <2>3, <3>1
  <2> DEFINE h == [s \in SUBSET S |-> g[s]]
  <2>5. \A s \in SUBSET S : h[s] = Right(h, s)
    <3>1. ASSUME NEW s \in SUBSET S  PROVE h[s] = Right(h, s)
      <4>1. h[s] = Right(g, s)
        BY <2>4
      <4>2. s # {} => h[s \ {Max(s)}] = g[s \ {Max(s)}]
        BY <1>3
      <4> HIDE DEF h
      <4> QED  BY <4>1, <4>2
    <3> QED  BY <3>1
  <2>6. h = [s \in SUBSET S |-> h[s]]
    OBVIOUS
  <2> HIDE DEF h, Right
  <2>7. h = [s \in SUBSET S |-> Right(h, s)]
    BY <2>5, <2>6
  <2> QED  BY <2>7
<1>7. Solves(Built(group))
  <2>1. Built(group) = CHOOSE iter : Solves(iter)
    BY <1>1 DEF Built
  <2> HIDE DEF Solves
  <2> QED  BY <1>6, <2>1
<1>8. \A s \in SUBSET S : Built(group)[s] = Right(Built(group), s)
  BY <1>7
<1>9. ASSUME NEW k \in 1 .. Len(group)
      PROVE  Built(group)[1 .. k] = AddRegister(Built(group)[1 .. k - 1], group[k])
  <2>1. Max(1 .. k) = k /\ (1 .. k) \ {k} = 1 .. k - 1
    BY <1>1, MaxOfPlaces
  <2>2. 1 .. k \in SUBSET S /\ 1 .. k # {}
    <3>1. k \in 1 .. k
      BY <1>1
    <3>2. 1 .. k \subseteq 1 .. Len(group)
      BY <1>1
    <3> QED  BY <1>1, <3>1, <3>2
  <2>3. PICK s \in SUBSET S : s = 1 .. k
    BY <2>2
  <2>4. Built(group)[s] = AddRegister(Built(group)[s \ {Max(s)}], group[Max(s)])
    BY <1>8, <2>2, <2>3
  <2> QED  BY <2>1, <2>3, <2>4
<1> QED  BY <1>8, <1>9 DEF BuiltUp

SpanType == [from : Int, to : Int, optional : BOOLEAN]

\* The last of a sequence replaced, and one added.
LEMMA LastReplaced ==
  ASSUME NEW T, NEW s \in Seq(T), s # <<>>, NEW e \in T,
         NEW r, r = Append(Front(s), e)
  PROVE  /\ r \in Seq(T) /\ r # <<>> /\ Last(r) = e
         /\ \A x \in ToSet(r) : x = e \/ x \in ToSet(s)
         /\ e \in ToSet(r) /\ \A x \in ToSet(s) : x = Last(s) \/ x \in ToSet(r)
<1>1. Len(s) \in Nat \ {0} /\ DOMAIN s = 1 .. Len(s)
  BY EmptySeq, LenProperties
<1>2. PICK n \in Nat : n = Len(s) - 1 /\ Len(s) = n + 1
  <2>1. Len(s) - 1 \in Nat /\ Len(s) = (Len(s) - 1) + 1
    BY <1>1
  <2> QED  BY <2>1
<1>3. PICK f : f = Front(s) /\ f \in Seq(T) /\ Len(f) = n /\ \A i \in 1 .. n : f[i] = s[i]
  <2>1. \A i \in 1 .. n : s[i] \in T
    BY <1>1, <1>2, ElementOfSeq
  <2>2. Front(s) = [i \in 1 .. n |-> s[i]]
    BY <1>1, <1>2 DEF Front
  <2>3. [i \in 1 .. n |-> s[i]] \in Seq(T) /\ Len([i \in 1 .. n |-> s[i]]) = n
    BY <2>1
  <2> QED  BY <2>2, <2>3
<1>4. /\ r \in Seq(T) /\ Len(r) = n + 1 /\ r[n + 1] = e
      /\ \A i \in 1 .. n : r[i] = s[i]
  <2>1. r = Append(f, e)
    BY <1>3
  <2>2. r \in Seq(T) /\ Len(r) = n + 1 /\ r[n + 1] = e /\ \A i \in 1 .. n : r[i] = f[i]
    BY <1>3, <2>1, AppendProperties
  <2> QED  BY <1>3, <2>2
<1>5. DOMAIN r = 1 .. n + 1
  BY <1>4, LenProperties
<1>6. r # <<>> /\ Last(r) = e
  BY <1>2, <1>4, <1>5, EmptySeq DEF Last
<1>7. ASSUME NEW x \in ToSet(r)  PROVE x = e \/ x \in ToSet(s)
  <2>1. PICK i \in 1 .. n + 1 : x = r[i]
    BY <1>5 DEF ToSet
  <2>2. CASE i = n + 1
    BY <1>4, <2>1, <2>2
  <2>3. CASE i # n + 1
    <3>1. i \in 1 .. n
      BY <2>3
    <3>2. i \in DOMAIN s
      BY <1>1, <1>2, <3>1
    <3> QED  BY <1>4, <2>1, <3>1, <3>2 DEF ToSet
  <2> QED  BY <2>2, <2>3
<1>8. ASSUME NEW x \in ToSet(s)  PROVE x = Last(s) \/ x \in ToSet(r)
  <2>1. PICK i \in 1 .. n + 1 : x = s[i]
    BY <1>1, <1>2 DEF ToSet
  <2>2. CASE i = n + 1
    BY <1>1, <1>2, <2>1, <2>2 DEF Last
  <2>3. CASE i # n + 1
    <3>1. i \in 1 .. n /\ i \in DOMAIN r
      BY <1>5, <2>3
    <3> QED  BY <1>4, <2>1, <3>1 DEF ToSet
  <2> QED  BY <2>2, <2>3
<1>9. e \in ToSet(r)
  <2>1. n + 1 \in DOMAIN r
    BY <1>2, <1>5
  <2> QED  BY <1>4, <2>1 DEF ToSet
<1> QED  BY <1>4, <1>6, <1>7, <1>8, <1>9

\* One added to a sequence.
LEMMA OneAppended ==
  ASSUME NEW T, NEW s \in Seq(T), NEW e \in T, NEW r, r = Append(s, e)
  PROVE  /\ r \in Seq(T) /\ r # <<>> /\ Last(r) = e
         /\ \A x \in ToSet(r) : x = e \/ x \in ToSet(s)
         /\ e \in ToSet(r) /\ \A x \in ToSet(s) : x \in ToSet(r)
<1>1. PICK n \in Nat : n = Len(s) /\ DOMAIN s = 1 .. n
  BY LenProperties
<1>2. r \in Seq(T) /\ Len(r) = n + 1 /\ r[n + 1] = e /\ \A i \in 1 .. n : r[i] = s[i]
  BY <1>1, AppendProperties
<1>3. DOMAIN r = 1 .. n + 1
  BY <1>2, LenProperties
<1>4. r # <<>> /\ Last(r) = e
  BY <1>1, <1>2, EmptySeq DEF Last
<1>5. ASSUME NEW x \in ToSet(r)  PROVE x = e \/ x \in ToSet(s)
  <2>1. PICK i \in 1 .. n + 1 : x = r[i]
    BY <1>3 DEF ToSet
  <2>2. CASE i = n + 1
    BY <1>2, <2>1, <2>2
  <2>3. CASE i # n + 1
    <3>1. i \in 1 .. n
      BY <2>3
    <3> QED  BY <1>1, <1>2, <2>1, <3>1 DEF ToSet
  <2> QED  BY <2>2, <2>3
<1>6. ASSUME NEW x \in ToSet(s)  PROVE x \in ToSet(r)
  <2>1. PICK i \in 1 .. n : x = s[i]
    BY <1>1 DEF ToSet
  <2>2. i \in DOMAIN r /\ x = r[i]
    BY <1>2, <1>3, <2>1
  <2> QED  BY <2>2 DEF ToSet
<1>7. e \in ToSet(r)
  <2>1. n + 1 \in DOMAIN r
    BY <1>1, <1>3
  <2> QED  BY <1>2, <2>1 DEF ToSet
<1> QED  BY <1>2, <1>4, <1>5, <1>6, <1>7

\* A span that begins with register i of its group and ends with register j.
Covers(s, group, i, j) ==
  /\ i <= j
  /\ s.from = group[i].at /\ s.to = End(group[j]) /\ s.optional = group[i].optional
  /\ i < j => /\ \A m \in i .. j : ~ group[m].optional
              /\ s.to - s.from <= MaxPerRead

Within(r, s) == r.at >= s.from /\ End(r) <= s.to /\ s.optional = r.optional

\* The spans of the first k registers: each is made of neighbours, and each register is in one.
SpannedTo(sp, group, k) ==
  /\ sp \in Seq(SpanType)
  /\ IF k = 0 THEN sp = <<>> ELSE sp # <<>> /\ \E i \in 1 .. k : Covers(Last(sp), group, i, k)
  /\ \A s \in ToSet(sp) : \E i, j \in 1 .. k : Covers(s, group, i, j)
  /\ \A m \in 1 .. k : \E s \in ToSet(sp) : Within(group[m], s)

\* AddRegister keeps what SpannedTo says: the register extends the last span, or begins one.
LEMMA OneMoreSpanned ==
  ASSUME NEW group \in Seq(GroupRegister), Ascending(group), NEW k \in 1 .. Len(group),
         NEW sp, SpannedTo(sp, group, k - 1), NEW r, r = AddRegister(sp, group[k])
  PROVE  SpannedTo(r, group, k)
<1>1. /\ Len(group) \in Nat /\ DOMAIN group = 1 .. Len(group)
      /\ \A m \in 1 .. Len(group) : /\ group[m].at \in Nat /\ group[m].size \in Nat \ {0}
                                    /\ group[m].optional \in BOOLEAN
  <2>1. Len(group) \in Nat /\ DOMAIN group = 1 .. Len(group)
    BY LenProperties
  <2>2. \A m \in 1 .. Len(group) : group[m] \in GroupRegister
    BY ElementOfSeq
  <2> QED  BY <2>1, <2>2 DEF GroupRegister
<1>2. PICK x : /\ x = group[k] /\ x.at \in Nat /\ End(x) \in Nat
               /\ x.optional \in BOOLEAN /\ x.at < End(x)
  BY <1>1 DEF End
<1>3. \A m \in 1 .. k : End(group[m]) \in Nat /\ End(group[m]) <= End(x)
  <2> SUFFICES ASSUME NEW m \in 1 .. k
               PROVE  End(group[m]) \in Nat /\ End(group[m]) <= End(x)
    OBVIOUS
  <2>1. m \in DOMAIN group /\ k \in DOMAIN group /\ End(group[m]) \in Nat
    BY <1>1 DEF End
  <2>2. m < k => End(group[m]) <= x.at
    BY <1>2, <2>1 DEF Ascending
  <2>3. m < k \/ m = k
    BY <1>1
  <2> QED  BY <1>2, <2>1, <2>2, <2>3
<1>4. sp \in Seq(SpanType)
  BY DEF SpannedTo
<1>5. CASE sp # <<>> /\ Extends(Last(sp), x)
  <2>1. PICK i \in 1 .. k - 1 : Covers(Last(sp), group, i, k - 1)
    BY <1>1, <1>5 DEF SpannedTo
  <2>2. PICK last \in SpanType : last = Last(sp) /\ last \in ToSet(sp)
    <3>1. Len(sp) \in 1 .. Len(sp) /\ DOMAIN sp = 1 .. Len(sp)
      BY <1>4, <1>5, EmptySeq, LenProperties
    <3> QED  BY <1>4, <3>1, ElementOfSeq DEF Last, ToSet
  <2>3. PICK e \in SpanType : /\ e = [last EXCEPT !.to = End(x)]
                              /\ e.from = last.from /\ e.to = End(x) /\ e.optional = last.optional
    <3>1. [last EXCEPT !.to = End(x)] \in SpanType
      BY <1>2 DEF SpanType
    <3> QED  BY <3>1 DEF SpanType
  <2>4. r = Append(Front(sp), e)
    BY <1>2, <1>5, <2>2, <2>3 DEF AddRegister
  <2>5. /\ r \in Seq(SpanType) /\ r # <<>> /\ Last(r) = e
        /\ \A s \in ToSet(r) : s = e \/ s \in ToSet(sp)
        /\ e \in ToSet(r) /\ \A s \in ToSet(sp) : s = Last(sp) \/ s \in ToSet(r)
    BY ZenonT(30), <1>4, <1>5, <2>4, LastReplaced
  <2>6. Covers(e, group, i, k)
    <3>1. /\ ~ x.optional /\ ~ last.optional /\ End(x) - last.from <= MaxPerRead
      BY <1>5, <2>2 DEF Extends
    <3>2. /\ last.from = group[i].at /\ last.optional = group[i].optional
          /\ i < k - 1 => \A m \in i .. k - 1 : ~ group[m].optional
      BY <2>1, <2>2 DEF Covers
    <3>3. ASSUME NEW m \in i .. k  PROVE ~ group[m].optional
      <4>1. m = k \/ m = i \/ (i < k - 1 /\ m \in i .. k - 1)
        BY <1>1
      <4> QED  BY <1>2, <3>1, <3>2, <4>1
    <3> QED  BY <1>1, <1>2, <2>3, <3>1, <3>2, <3>3 DEF Covers
  <2>7. ASSUME NEW s \in ToSet(r)  PROVE \E a, b \in 1 .. k : Covers(s, group, a, b)
    <3>1. CASE s = e
      <4>1. i \in 1 .. k /\ k \in 1 .. k
        BY <1>1
      <4> QED  BY <2>6, <3>1, <4>1
    <3>2. CASE s \in ToSet(sp)
      <4>1. PICK a, b \in 1 .. k - 1 : Covers(s, group, a, b)
        BY <3>2 DEF SpannedTo
      <4>2. a \in 1 .. k /\ b \in 1 .. k
        BY <1>1
      <4> QED  BY <4>1, <4>2
    <3> QED  BY <2>5, <3>1, <3>2
  <2>8. ASSUME NEW m \in 1 .. k  PROVE \E s \in ToSet(r) : Within(group[m], s)
    <3>1. CASE m = k
      <4>1. last.from <= x.at
        <5>1. last.from = group[i].at /\ i \in DOMAIN group /\ k \in DOMAIN group /\ i < k
          BY <1>1, <2>1, <2>2 DEF Covers
        <5>2. End(group[i]) <= x.at /\ group[i].at <= End(group[i])
          BY <1>1, <1>2, <5>1 DEF Ascending, End
        <5>3. End(group[i]) \in Nat /\ group[i].at \in Nat
          BY <1>1, <5>1 DEF End
        <5> QED  BY <1>2, <5>1, <5>2, <5>3
      <4>2. ~ x.optional /\ ~ last.optional /\ last.optional \in BOOLEAN
        BY <1>5, <2>2 DEF Extends, SpanType
      <4>3. Within(x, e)
        BY <1>2, <2>3, <4>1, <4>2 DEF Within
      <4> QED  BY <1>2, <2>5, <3>1, <4>3
    <3>2. CASE m # k
      <4>1. m \in 1 .. k - 1
        BY <1>1, <3>2
      <4>2. PICK s \in ToSet(sp) : Within(group[m], s)
        BY <4>1 DEF SpannedTo
      <4>3. CASE s = last
        <5>1. Within(group[m], e)
          BY <1>3, <2>3, <4>2, <4>3 DEF Within
        <5> QED  BY <2>5, <5>1
      <4>4. CASE s # last
        BY <2>2, <2>5, <4>2, <4>4
      <4> QED  BY <4>3, <4>4
    <3> QED  BY <3>1, <3>2
  <2>9. k \in 1 .. k /\ k # 0 /\ i \in 1 .. k
    BY <1>1
  <2> QED  BY <2>5, <2>6, <2>7, <2>8, <2>9 DEF SpannedTo
<1>6. CASE ~ (sp # <<>> /\ Extends(Last(sp), x))
  <2>1. PICK e \in SpanType : /\ e = SpanOf(x)
                              /\ e.from = x.at /\ e.to = End(x) /\ e.optional = x.optional
    <3>1. SpanOf(x) = [from |-> x.at, to |-> End(x), optional |-> x.optional]
      BY DEF SpanOf
    <3>2. [from |-> x.at, to |-> End(x), optional |-> x.optional] \in SpanType
      BY <1>2 DEF SpanType
    <3> QED  BY <3>1, <3>2
  <2>2. r = Append(sp, e)
    BY <1>2, <1>6, <2>1 DEF AddRegister
  <2>3. /\ r \in Seq(SpanType) /\ r # <<>> /\ Last(r) = e
        /\ \A s \in ToSet(r) : s = e \/ s \in ToSet(sp)
        /\ e \in ToSet(r) /\ \A s \in ToSet(sp) : s \in ToSet(r)
    BY <1>4, <2>2, OneAppended
  <2>4. Covers(e, group, k, k)
    BY <1>1, <1>2, <2>1 DEF Covers
  <2>5. ASSUME NEW s \in ToSet(r)  PROVE \E a, b \in 1 .. k : Covers(s, group, a, b)
    <3>1. CASE s = e
      <4>1. k \in 1 .. k
        BY <1>1
      <4> QED  BY <2>4, <3>1, <4>1
    <3>2. CASE s \in ToSet(sp)
      <4>1. PICK a, b \in 1 .. k - 1 : Covers(s, group, a, b)
        BY <3>2 DEF SpannedTo
      <4>2. a \in 1 .. k /\ b \in 1 .. k
        BY <1>1
      <4> QED  BY <4>1, <4>2
    <3> QED  BY <2>3, <3>1, <3>2
  <2>6. ASSUME NEW m \in 1 .. k  PROVE \E s \in ToSet(r) : Within(group[m], s)
    <3>1. CASE m = k
      <4>1. Within(x, e)
        BY <1>2, <2>1 DEF Within
      <4> QED  BY <1>2, <2>3, <3>1, <4>1
    <3>2. CASE m # k
      <4>1. m \in 1 .. k - 1
        BY <1>1, <3>2
      <4>2. PICK s \in ToSet(sp) : Within(group[m], s)
        BY <4>1 DEF SpannedTo
      <4> QED  BY <2>3, <4>2
    <3> QED  BY <3>1, <3>2
  <2>7. k \in 1 .. k /\ k # 0
    BY <1>1
  <2> QED  BY <2>3, <2>4, <2>5, <2>6, <2>7 DEF SpannedTo
<1> QED  BY <1>5, <1>6

\* Hence Spans has it of all registers.
LEMMA AllSpanned ==
  ASSUME NEW group \in Seq(GroupRegister), Ascending(group)
  PROVE  SpannedTo(Spans(group), group, Len(group))
<1>1. PICK n \in Nat : n = Len(group) /\ DOMAIN group = 1 .. n
  BY LenProperties
<1>2. BuiltUp(group)
  BY SpansBuildUp
<1> DEFINE T == {k \in Nat : k <= n => SpannedTo(Built(group)[1 .. k], group, k)}
<1>3. 0 \in T
  <2>1. 1 .. 0 = {}
    OBVIOUS
  <2>2. Built(group)[1 .. 0] = <<>>
    BY <1>2, <2>1 DEF BuiltUp
  <2>3. <<>> \in Seq(SpanType) /\ ToSet(<<>>) = {}
    BY EmptySeq DEF ToSet
  <2>4. SpannedTo(<<>>, group, 0)
    BY <2>3 DEF SpannedTo
  <2> QED  BY <2>2, <2>4
<1>4. ASSUME NEW k \in Nat, k \in T  PROVE k + 1 \in T
  <2> SUFFICES ASSUME k + 1 <= n
               PROVE  SpannedTo(Built(group)[1 .. k + 1], group, k + 1)
    OBVIOUS
  <2>1. PICK l \in 1 .. Len(group) : l = k + 1 /\ l - 1 = k
    BY <1>1
  <2>2. SpannedTo(Built(group)[1 .. k], group, k)
    BY <1>4
  <2>3. Built(group)[1 .. l] = AddRegister(Built(group)[1 .. l - 1], group[l])
    BY <1>2 DEF BuiltUp
  <2>4. PICK sp, r : sp = Built(group)[1 .. l - 1] /\ r = Built(group)[1 .. l]
    OBVIOUS
  <2>5. SpannedTo(sp, group, l - 1) /\ r = AddRegister(sp, group[l])
    BY <2>1, <2>2, <2>3, <2>4
  <2>6. SpannedTo(r, group, l)
    BY <2>5, OneMoreSpanned
  <2> QED  BY <2>1, <2>4, <2>6
<1> HIDE DEF T
<1>5. n \in T
  BY <1>3, <1>4, AllNaturals
<1> QED  BY <1>1, <1>5, SpansAreBuilt DEF T

RegistersOf(i) == operation.parts[i].registers

Got(a) == a \in DOMAIN cached /\ cached[a] = count

\* A register has been read by the operation, or cannot be.
Settled(r) == \A a \in Occupies(r) : Got(a) \/ (r.optional /\ a \in refused)

OperationIsKnown ==
  /\ outcome # "none" => operation \in Operations
  /\ outcome = "reading" => part \in 1 .. Len(operation.parts)
  /\ failed => errors

SpansAreOfPart ==
  outcome = "reading" =>
    /\ spans \in Seq(SpanType)
    /\ \A s \in ToSet(spans) :
         \E i, j \in 1 .. Len(RegistersOf(part)) : Covers(s, RegistersOf(part), i, j)

PartsAreRead ==
  ~ errors =>
    /\ outcome = "reading" =>
         /\ \A i \in 1 .. part - 1 : \A r \in ToSet(RegistersOf(i)) : Settled(r)
         /\ \A r \in ToSet(RegistersOf(part)) : Settled(r) \/ \E s \in ToSet(spans) : Within(r, s)
    /\ outcome = "done" =>
         \A i \in 1 .. Len(operation.parts) : \A r \in ToSet(RegistersOf(i)) : Settled(r)

ShownIsRead ==
  ~ errors => \A a \in DOMAIN shown \ {ChargeSourceSelection} : shown[a] = count \/ a \in refused

BulkInv == OperationIsKnown /\ SpansAreOfPart /\ PartsAreRead /\ ShownIsRead

\* What the assumption says of an operation.
LEMMA OperationsParts ==
  ASSUME NEW o \in Operations
  PROVE  /\ Len(o.parts) \in Nat \ {0} /\ DOMAIN o.parts = 1 .. Len(o.parts)
         /\ TablesAgree(o.parts)
         /\ \A i \in 1 .. Len(o.parts) :
              o.parts[i].registers \in Seq(GroupRegister) /\ Ascending(o.parts[i].registers)
<1>1. o.parts \in Seq(Parts) /\ o.parts # <<>>
  BY OperationsAssumption
<1>2. Len(o.parts) \in Nat \ {0} /\ DOMAIN o.parts = 1 .. Len(o.parts)
  BY <1>1, EmptySeq, LenProperties
<1>3. TablesAgree(o.parts) /\ \A i \in DOMAIN o.parts : Ascending(o.parts[i].registers)
  BY OperationsAssumption
<1>4. \A i \in 1 .. Len(o.parts) : o.parts[i] \in Parts
  BY <1>1, ElementOfSeq
<1>5. \A i \in 1 .. Len(o.parts) : o.parts[i].registers \in Seq(GroupRegister)
  BY <1>4 DEF Parts
<1> QED  BY <1>2, <1>3, <1>5

\* The head and the tail of a sequence, and what is in them.
LEMMA HeadAndTail ==
  ASSUME NEW T, NEW s \in Seq(T), s # <<>>
  PROVE  /\ Head(s) \in T /\ Tail(s) \in Seq(T)
         /\ Head(s) \in ToSet(s) /\ ToSet(Tail(s)) \subseteq ToSet(s)
         /\ \A x \in ToSet(s) : x = Head(s) \/ x \in ToSet(Tail(s))
<1>1. PICK n \in Nat : n = Len(s) - 1 /\ Len(s) = n + 1 /\ DOMAIN s = 1 .. n + 1
  <2>1. Len(s) \in Nat \ {0} /\ DOMAIN s = 1 .. Len(s)
    BY EmptySeq, LenProperties
  <2>2. Len(s) - 1 \in Nat /\ Len(s) = (Len(s) - 1) + 1
    BY <2>1
  <2> QED  BY <2>1, <2>2
<1>2. PICK h, t : h = Head(s) /\ t = Tail(s)
  OBVIOUS
<1>3. h \in T /\ t \in Seq(T) /\ Len(t) = n /\ \A i \in 1 .. n : t[i] = s[i + 1]
  BY <1>1, <1>2, HeadTailProperties
<1>4. DOMAIN t = 1 .. n
  BY <1>3, LenProperties
<1>5. h = s[1] /\ 1 \in DOMAIN s
  BY <1>1, <1>2
<1>6. h \in ToSet(s)
  BY <1>5 DEF ToSet
<1>7. ASSUME NEW x \in ToSet(t)  PROVE x \in ToSet(s)
  <2>1. PICK i \in 1 .. n : x = t[i]
    BY <1>4 DEF ToSet
  <2>2. i + 1 \in DOMAIN s /\ x = s[i + 1]
    BY <1>1, <1>3, <2>1
  <2> QED  BY <2>2 DEF ToSet
<1>8. ASSUME NEW x \in ToSet(s)  PROVE x = h \/ x \in ToSet(t)
  <2>1. PICK i \in 1 .. n + 1 : x = s[i]
    BY <1>1 DEF ToSet
  <2>2. CASE i = 1
    BY <1>5, <2>1, <2>2
  <2>3. CASE i # 1
    <3>1. i - 1 \in 1 .. n /\ (i - 1) + 1 = i
      BY <2>3
    <3>2. i - 1 \in DOMAIN t /\ x = t[i - 1]
      BY <1>3, <1>4, <2>1, <3>1
    <3> QED  BY <3>2 DEF ToSet
  <2> QED  BY <2>2, <2>3
<1> QED  BY <1>2, <1>3, <1>6, <1>7, <1>8

\* What is fetched is of this operation, and takes nothing away that is.
LEMMA FetchedIsGot ==
  ASSUME NEW A, cached' = Fetched(A), count' = count
  PROVE  (\A a \in A : Got(a)') /\ \A a : Got(a) => Got(a)'
<1>1. /\ DOMAIN cached' = A \cup DOMAIN cached
      /\ \A a \in A \cup DOMAIN cached : cached'[a] = IF a \in A THEN count ELSE cached[a]
  BY DEF Fetched, Over
<1>2. ASSUME NEW a \in A  PROVE Got(a)'
  BY <1>1 DEF Got
<1>3. ASSUME NEW a, Got(a)  PROVE Got(a)'
  BY <1>1, <1>3 DEF Got
<1> QED  BY <1>2, <1>3

\* What is settled stays so while its operation lasts.
LEMMA SettledStays ==
  ASSUME \A a : Got(a) => Got(a)', refused \subseteq refused', NEW r, Settled(r)
  PROVE  Settled(r)'
BY DEF Settled

\* A register within a span occupies addresses that the span asks for.
LEMMA WithinIsAsked ==
  ASSUME NEW r \in GroupRegister, NEW s \in SpanType, Within(r, s)
  PROVE  Occupies(r) \subseteq Asked(s) /\ s.optional = r.optional
BY DEF GroupRegister, SpanType, Within, Occupies, Asked, End

\* The spans of a group are made of its registers, and each register is in one.
LEMMA GroupIsSpanned ==
  ASSUME NEW group \in Seq(GroupRegister), Ascending(group)
  PROVE  /\ Spans(group) \in Seq(SpanType)
         /\ \A s \in ToSet(Spans(group)) : \E i, j \in 1 .. Len(group) : Covers(s, group, i, j)
         /\ \A r \in ToSet(group) : \E s \in ToSet(Spans(group)) : Within(r, s)
<1>1. PICK sp : sp = Spans(group)
  OBVIOUS
<1>2. SpannedTo(sp, group, Len(group))
  BY <1>1, AllSpanned
<1>3. ASSUME NEW r \in ToSet(group)  PROVE \E s \in ToSet(sp) : Within(r, s)
  <2>1. PICK m \in 1 .. Len(group) : r = group[m]
    BY LenProperties DEF ToSet
  <2> QED  BY <1>2, <2>1 DEF SpannedTo
<1> QED  BY <1>1, <1>2, <1>3 DEF SpannedTo

\* BulkInv holds before the first operation.
LEMMA BulkInvInit ==
  ASSUME BulkInit  PROVE BulkInv
BY DEF BulkInit, BulkInv, OperationIsKnown, SpansAreOfPart, PartsAreRead, ShownIsRead

\* An operation begins with the spans of its first part, none of them read.
LEMMA BulkInvBegins ==
  ASSUME BulkInv, NEW o \in Operations, BeginOperation(o)  PROVE BulkInv'
<1>1. /\ operation' = o /\ part' = 1 /\ failed' = FALSE /\ errors' = FALSE
      /\ refused' = {} /\ shown' = <<>> /\ outcome' = "reading"
      /\ spans' = Spans(o.parts[1].registers)
  BY DEF BeginOperation, BeginPart
<1>2. /\ 1 \in 1 .. Len(o.parts)
      /\ o.parts[1].registers \in Seq(GroupRegister) /\ Ascending(o.parts[1].registers)
  BY OperationsParts
<1>3. PICK group : group = o.parts[1].registers /\ group = RegistersOf(part)'
  BY <1>1 DEF RegistersOf
<1>4. /\ spans' \in Seq(SpanType)
      /\ \A s \in ToSet(spans') : \E i, j \in 1 .. Len(group) : Covers(s, group, i, j)
      /\ \A r \in ToSet(group) : \E s \in ToSet(spans') : Within(r, s)
  BY <1>1, <1>2, <1>3, GroupIsSpanned
<1>5. OperationIsKnown'
  BY <1>1, <1>2 DEF OperationIsKnown
<1>6. SpansAreOfPart'
  BY <1>3, <1>4 DEF SpansAreOfPart
<1>7. PartsAreRead'
  <2>1. 1 .. part' - 1 = {}
    BY <1>1
  <2> QED  BY <1>1, <1>3, <1>4, <2>1 DEF PartsAreRead
<1>8. ShownIsRead'
  BY <1>1 DEF ShownIsRead
<1> QED  BY <1>5, <1>6, <1>7, <1>8 DEF BulkInv

\* While a part is being read, its registers are known.
LEMMA PartIsKnown ==
  ASSUME BulkInv, outcome = "reading"
  PROVE  /\ operation \in Operations /\ part \in 1 .. Len(operation.parts)
         /\ RegistersOf(part) \in Seq(GroupRegister) /\ Ascending(RegistersOf(part))
         /\ spans \in Seq(SpanType)
BY OperationsParts DEF BulkInv, OperationIsKnown, SpansAreOfPart, RegistersOf

\* The head of the spans is dealt with: what it holds is settled.
LEMMA SpanIsDone ==
  ASSUME BulkInv, outcome = "reading", spans # <<>>, spans' = Tail(spans),
         UNCHANGED <<operation, part, outcome, count, shown>>,
         failed' => errors', ~ errors' => ~ errors,
         \A a : Got(a) => Got(a)', refused \subseteq refused',
         ~ errors' => \A a \in Asked(Head(spans)) :
                        Got(a)' \/ (Head(spans).optional /\ a \in refused')
  PROVE  BulkInv'
<1>1. /\ operation \in Operations /\ part \in 1 .. Len(operation.parts)
      /\ RegistersOf(part) \in Seq(GroupRegister) /\ spans \in Seq(SpanType)
  BY PartIsKnown
<1>2. PICK group : group = RegistersOf(part) /\ group \in Seq(GroupRegister)
  BY <1>1
<1>3. \A i : RegistersOf(i)' = RegistersOf(i)
  BY DEF RegistersOf
<1>4. PICK h : /\ h = Head(spans) /\ h \in SpanType
               /\ spans' \in Seq(SpanType) /\ ToSet(spans') \subseteq ToSet(spans)
               /\ \A x \in ToSet(spans) : x = h \/ x \in ToSet(spans')
  BY <1>1, HeadAndTail
<1>5. OperationIsKnown'
  BY DEF BulkInv, OperationIsKnown
<1>6. SpansAreOfPart'
  <2>1. \A s \in ToSet(spans) : \E i, j \in 1 .. Len(group) : Covers(s, group, i, j)
    BY <1>2 DEF BulkInv, SpansAreOfPart
  <2>2. \A s \in ToSet(spans') : \E i, j \in 1 .. Len(group) : Covers(s, group, i, j)
    BY <1>4, <2>1
  <2>3. group = RegistersOf(part)'
    BY <1>2, <1>3
  <2> QED  BY <1>4, <2>2, <2>3 DEF SpansAreOfPart
<1>7. ASSUME NEW r, Settled(r)  PROVE Settled(r)'
  BY <1>7, SettledStays
<1>8. PartsAreRead'
  <2> SUFFICES ASSUME ~ errors'  PROVE PartsAreRead'
    BY DEF PartsAreRead
  <2>1. /\ \A i \in 1 .. part - 1 : \A r \in ToSet(RegistersOf(i)) : Settled(r)
        /\ \A r \in ToSet(group) : Settled(r) \/ \E s \in ToSet(spans) : Within(r, s)
    BY <1>2 DEF BulkInv, PartsAreRead
  <2>2. ASSUME NEW r \in ToSet(group)
        PROVE  Settled(r)' \/ \E s \in ToSet(spans') : Within(r, s)
    <3>1. CASE Settled(r)
      BY <1>7, <3>1
    <3>2. CASE ~ Settled(r)
      <4>1. PICK s \in ToSet(spans) : Within(r, s)
        BY <2>1, <3>2
      <4>2. CASE s = h
        <5>1. r \in GroupRegister
          <6>1. PICK m \in 1 .. Len(group) : r = group[m]
            BY <1>2, LenProperties DEF ToSet
          <6> QED  BY <1>2, <6>1, ElementOfSeq
        <5>2. Occupies(r) \subseteq Asked(h) /\ h.optional = r.optional
          BY <1>4, <4>1, <4>2, <5>1, WithinIsAsked
        <5>3. \A a \in Asked(h) : Got(a)' \/ (h.optional /\ a \in refused')
          BY <1>4
        <5> QED  BY <5>2, <5>3 DEF Settled
      <4>3. CASE s # h
        BY <1>4, <4>1, <4>3
      <4> QED  BY <4>2, <4>3
    <3> QED  BY <3>1, <3>2
  <2>3. ASSUME NEW i \in 1 .. part - 1, NEW r \in ToSet(RegistersOf(i))  PROVE Settled(r)'
    BY <1>7, <2>1
  <2>4. outcome' # "done" /\ part' = part /\ RegistersOf(part)' = group
    BY <1>2, <1>3
  <2> QED  BY <1>3, <2>2, <2>3, <2>4 DEF PartsAreRead
<1>9. ShownIsRead'
  BY DEF BulkInv, ShownIsRead
<1> QED  BY <1>5, <1>6, <1>8, <1>9 DEF BulkInv

\* A span that is read is got.
LEMMA BulkInvReads ==
  ASSUME BulkInv, ReadSpan  PROVE BulkInv'
<1>1. /\ outcome = "reading" /\ spans # <<>> /\ spans' = Tail(spans)
      /\ cached' = Fetched(Asked(Head(spans)))
      /\ UNCHANGED <<operation, part, failed, errors, refused, count, shown, outcome>>
  BY DEF ReadSpan
<1>2. (\A a \in Asked(Head(spans)) : Got(a)') /\ \A a : Got(a) => Got(a)'
  BY <1>1, FetchedIsGot
<1>3. failed' => errors'
  BY <1>1 DEF BulkInv, OperationIsKnown
<1> QED  BY <1>1, <1>2, <1>3, SpanIsDone

\* A span that fails is refused if it is optional, and ends the part with an error if not.
LEMMA BulkInvFails ==
  ASSUME BulkInv, SpanFails  PROVE BulkInv'
<1>1. PICK h : h = Head(spans)
  OBVIOUS
<1>2. /\ outcome = "reading" /\ spans # <<>>
      /\ failed' = ~ h.optional /\ errors' = (errors \/ ~ h.optional)
      /\ refused' = IF h.optional THEN refused \cup Asked(h) ELSE refused
      /\ spans' = IF h.optional THEN Tail(spans) ELSE <<>>
      /\ UNCHANGED <<operation, part, count, cached, shown, outcome>>
  BY <1>1 DEF SpanFails
<1>3. \A a : Got(a)' <=> Got(a)
  BY <1>2 DEF Got
<1>4. CASE h.optional
  <2>1. \A a \in Asked(h) : Got(a)' \/ (h.optional /\ a \in refused')
    BY <1>2, <1>4
  <2>2. refused \subseteq refused' /\ spans' = Tail(spans) /\ ~ failed'
    BY <1>2, <1>4
  <2>3. ~ errors' => ~ errors
    BY <1>2
  <2> QED  BY <1>1, <1>2, <1>3, <2>1, <2>2, <2>3, SpanIsDone
<1>5. CASE ~ h.optional
  <2>1. errors' /\ failed' /\ spans' = <<>>
    BY <1>2, <1>5
  <2>2. <<>> \in Seq(SpanType) /\ ToSet(<<>>) = {}
    BY EmptySeq DEF ToSet
  <2>3. OperationIsKnown'
    BY <1>2, <2>1 DEF BulkInv, OperationIsKnown
  <2>4. SpansAreOfPart'
    BY <2>1, <2>2 DEF SpansAreOfPart
  <2> QED  BY <2>1, <2>3, <2>4 DEF BulkInv, PartsAreRead, ShownIsRead
<1> QED  BY <1>4, <1>5

\* Once no span is left every register up to this part is settled.
LEMMA PartIsSettled ==
  ASSUME BulkInv, outcome = "reading", spans = <<>>, ~ errors
  PROVE  \A i \in 1 .. part : \A r \in ToSet(RegistersOf(i)) : Settled(r)
<1>1. part \in Nat
  BY PartIsKnown, OperationsParts
<1>2. ToSet(spans) = {}
  BY EmptySeq DEF ToSet
<1>3. \A r \in ToSet(RegistersOf(part)) : Settled(r)
  BY <1>2 DEF BulkInv, PartsAreRead
<1>4. \A i \in 1 .. part - 1 : \A r \in ToSet(RegistersOf(i)) : Settled(r)
  BY DEF BulkInv, PartsAreRead
<1>5. \A i \in 1 .. part : i \in 1 .. part - 1 \/ i = part
  BY <1>1
<1> QED  BY <1>3, <1>4, <1>5

\* What the readers are given has been read.
LEMMA LookUpShows ==
  ASSUME BulkInv, LookUp  PROVE ShownIsRead'
<1> SUFFICES ASSUME ~ errors'  PROVE ShownIsRead'
  BY DEF ShownIsRead
<1>1. /\ outcome = "reading" /\ spans = <<>>
      /\ UNCHANGED <<operation, errors, refused, count>>
  BY DEF LookUp
<1>2. ~ errors /\ ~ failed
  BY <1>1 DEF BulkInv, OperationIsKnown
<1>3. operation \in Operations /\ part \in 1 .. Len(operation.parts)
  BY <1>1, PartIsKnown
<1> DEFINE looked == operation.parts[part].anyway \cup operation.parts[part].then
<1>4. PICK A : /\ cached' = Fetched(A)
               /\ shown' = Over([a \in looked \cap DOMAIN cached' |-> cached'[a]], shown)
  BY <1>2 DEF LookUp
<1>5. \A a : Got(a) => Got(a)'
  BY <1>1, <1>4, FetchedIsGot
<1>6. /\ DOMAIN shown' = (looked \cap DOMAIN cached') \cup DOMAIN shown
      /\ \A a \in (looked \cap DOMAIN cached') \cup DOMAIN shown :
           shown'[a] = IF a \in looked \cap DOMAIN cached' THEN cached'[a] ELSE shown[a]
  BY <1>4 DEF Over
<1>7. ASSUME NEW a \in DOMAIN shown' \ {ChargeSourceSelection}
      PROVE  shown'[a] = count \/ a \in refused
  <2>1. CASE a \in looked \cap DOMAIN cached'
    <3>1. part \in DOMAIN operation.parts /\ a \in looked \ {ChargeSourceSelection}
      BY <1>3, <2>1, OperationsParts
    <3>2. TablesAgree(operation.parts)
      BY <1>3, OperationsParts
    <3>3. PICK j \in 1 .. part : \E r \in ToSet(operation.parts[j].registers) : a \in Occupies(r)
      BY <3>1, <3>2 DEF TablesAgree
    <3>4. PICK r \in ToSet(RegistersOf(j)) : a \in Occupies(r)
      BY <3>3 DEF RegistersOf
    <3>5. Settled(r)
      BY <1>1, <1>2, <3>3, <3>4, PartIsSettled
    <3>6. Got(a) \/ a \in refused
      BY <3>4, <3>5 DEF Settled
    <3>7. Got(a)' => cached'[a] = count
      BY <1>1 DEF Got
    <3> QED  BY <1>5, <1>6, <2>1, <3>6, <3>7
  <2>2. CASE a \notin looked \cap DOMAIN cached'
    BY <1>2, <1>6, <1>7, <2>2 DEF BulkInv, ShownIsRead
  <2> QED  BY <2>1, <2>2
<1> QED  BY <1>1, <1>7 DEF ShownIsRead

\* A part is looked up once its spans are done, and the next one begins.
LEMMA BulkInvLooksUp ==
  ASSUME BulkInv, LookUp  PROVE BulkInv'
<1>1. /\ outcome = "reading" /\ spans = <<>>
      /\ UNCHANGED <<operation, errors, refused, count>>
  BY DEF LookUp
<1>2. PICK A : cached' = Fetched(A)
  BY DEF LookUp
<1>3. /\ operation \in Operations /\ part \in 1 .. Len(operation.parts)
      /\ Len(operation.parts) \in Nat
  BY <1>1, PartIsKnown, OperationsParts
<1>4. \A r : Settled(r) => Settled(r)'
  <2>1. \A a : Got(a) => Got(a)'
    BY <1>1, <1>2, FetchedIsGot
  <2> QED  BY <1>1, <2>1, SettledStays
<1>5. \A i : RegistersOf(i)' = RegistersOf(i)
  BY <1>1 DEF RegistersOf
<1>6. ~ errors => \A i \in 1 .. part : \A r \in ToSet(RegistersOf(i)) : Settled(r)'
  BY <1>1, <1>4, PartIsSettled
<1>7. ShownIsRead'
  BY LookUpShows
<1>8. CASE part = Len(operation.parts) \/ (failed /\ operation.ends)
  <2>1. outcome' = "done" /\ UNCHANGED <<part, spans, failed>>
    BY <1>8 DEF LookUp
  <2>2. OperationIsKnown'
    BY <1>1, <1>3, <2>1 DEF BulkInv, OperationIsKnown
  <2>3. SpansAreOfPart'
    BY <2>1 DEF SpansAreOfPart
  <2>4. PartsAreRead'
    <3>1. ~ errors => part = Len(operation.parts)
      BY <1>8 DEF BulkInv, OperationIsKnown
    <3>2. ~ errors' => \A i \in 1 .. Len(operation'.parts) :
                         \A r \in ToSet(RegistersOf(i)') : Settled(r)'
      BY <1>1, <1>5, <1>6, <3>1
    <3> QED  BY <2>1, <3>2 DEF PartsAreRead
  <2> QED  BY <1>7, <2>2, <2>3, <2>4 DEF BulkInv
<1>9. CASE ~ (part = Len(operation.parts) \/ (failed /\ operation.ends))
  <2>1. /\ part' = part + 1 /\ failed' = FALSE /\ outcome' = "reading"
        /\ spans' = Spans(operation.parts[part + 1].registers)
    BY <1>1, <1>9 DEF LookUp, BeginPart
  <2>2. PICK k \in 1 .. Len(operation.parts) : k = part + 1 /\ k - 1 = part
    BY <1>3, <1>9
  <2>3. PICK group : /\ group = RegistersOf(k) /\ spans' = Spans(group)
                     /\ group \in Seq(GroupRegister) /\ Ascending(group)
    BY <1>3, <2>1, <2>2, OperationsParts DEF RegistersOf
  <2>4. group = RegistersOf(part)'
    BY <1>1, <2>1, <2>2, <2>3 DEF RegistersOf
  <2>5. /\ spans' \in Seq(SpanType)
        /\ \A s \in ToSet(spans') : \E i, j \in 1 .. Len(group) : Covers(s, group, i, j)
        /\ \A r \in ToSet(group) : \E s \in ToSet(spans') : Within(r, s)
    BY <2>3, GroupIsSpanned
  <2>6. OperationIsKnown'
    BY <1>1, <1>3, <2>1, <2>2 DEF OperationIsKnown
  <2>7. SpansAreOfPart'
    BY <2>4, <2>5 DEF SpansAreOfPart
  <2>8. PartsAreRead'
    <3>1. 1 .. part' - 1 = 1 .. part
      BY <2>1, <2>2
    <3>2. ~ errors' => \A i \in 1 .. part' - 1 : \A r \in ToSet(RegistersOf(i)') : Settled(r)'
      BY <1>1, <1>5, <1>6, <3>1
    <3> QED  BY <2>1, <2>4, <2>5, <3>2 DEF PartsAreRead
  <2> QED  BY <1>7, <2>6, <2>7, <2>8 DEF BulkInv
<1> QED  BY <1>8, <1>9

\* Every step keeps BulkInv.
LEMMA BulkInvNext ==
  ASSUME BulkInv, [BulkNext]_bulkVars  PROVE BulkInv'
<1>1. CASE ReadSpan
  BY <1>1, BulkInvReads
<1>2. CASE SpanFails
  BY <1>2, BulkInvFails
<1>3. CASE LookUp
  BY <1>3, BulkInvLooksUp
<1>4. CASE Invalidate
  BY <1>4 DEF Invalidate, BulkInv, OperationIsKnown, SpansAreOfPart, PartsAreRead, ShownIsRead
<1>5. CASE \E o \in Operations : BeginOperation(o)
  BY <1>5, BulkInvBegins
<1>6. CASE UNCHANGED bulkVars
  BY <1>6 DEF bulkVars, BulkInv, OperationIsKnown, SpansAreOfPart, PartsAreRead, ShownIsRead,
              RegistersOf, Settled, Got
<1> QED  BY <1>1, <1>2, <1>3, <1>4, <1>5, <1>6 DEF BulkNext, BulkStep

\* The registers that a span asks for are those from its first to its last.
LEMMA AskedAreCovered ==
  ASSUME NEW group \in Seq(GroupRegister), Ascending(group),
         NEW i \in 1 .. Len(group), NEW j \in 1 .. Len(group),
         NEW s \in SpanType, Covers(s, group, i, j),
         NEW r \in ToSet(group), Occupies(r) \cap Asked(s) # {}
  PROVE  \E m \in i .. j : r = group[m]
<1>1. Len(group) \in Nat /\ DOMAIN group = 1 .. Len(group)
  BY LenProperties
<1>2. \A m \in 1 .. Len(group) : group[m] \in GroupRegister
  BY ElementOfSeq
<1>3. PICK m \in 1 .. Len(group) : r = group[m]
  BY <1>1 DEF ToSet
<1>4. r \in GroupRegister /\ r.at \in Nat /\ End(r) \in Nat
  BY SMTT(30), <1>2, <1>3 DEF GroupRegister, End
<1>5. s.from = group[i].at /\ s.to = End(group[j])
  BY DEF Covers
<1>6. s.from \in Int /\ s.to \in Int
  BY DEF SpanType
<1>7. PICK a \in Int : a >= r.at /\ a < End(r) /\ a >= s.from /\ a < s.to
  BY SMTT(30), <1>4, <1>6 DEF Occupies, Asked
<1>8. m >= i
  <2> SUFFICES ASSUME m < i  PROVE FALSE
    OBVIOUS
  <2>1. End(r) <= s.from
    BY <1>1, <1>3, <1>5 DEF Ascending
  <2> QED  BY <1>4, <1>6, <1>7, <2>1
<1>9. m <= j
  <2> SUFFICES ASSUME j < m  PROVE FALSE
    OBVIOUS
  <2>1. s.to <= r.at
    BY <1>1, <1>3, <1>5 DEF Ascending
  <2> QED  BY <1>4, <1>6, <1>7, <2>1
<1> QED  BY <1>3, <1>8, <1>9

\* A set whose members are all the same one.
LEMMA AtMostOne ==
  ASSUME NEW S, NEW x, \A y \in S : y = x  PROVE ~ Cardinality(S) > 1
<1>1. S = {} \/ S = {x}
  OBVIOUS
<1>2. Cardinality({}) = 0 /\ Cardinality({x}) = 1
  BY FS_EmptySet, FS_Singleton
<1> QED  BY <1>1, <1>2

\* A span with two registers is one of neighbours, none of them optional.
LEMMA InvMakesSafe ==
  ASSUME BulkInv  PROVE RequestsAreSafe
<1> SUFFICES ASSUME outcome = "reading", NEW s \in ToSet(spans)
             PROVE  LET asked == {r \in ToSet(RegistersOf(part)) : Occupies(r) \cap Asked(s) # {}}
                    IN  Cardinality(asked) > 1 =>
                          (\A r \in asked : ~ r.optional) /\ s.to - s.from <= MaxPerRead
  BY DEF RequestsAreSafe, RegistersOf
<1>1. PICK group : group = RegistersOf(part) /\ group \in Seq(GroupRegister) /\ Ascending(group)
  BY PartIsKnown
<1> DEFINE asked == {r \in ToSet(RegistersOf(part)) : Occupies(r) \cap Asked(s) # {}}
<1>2. s \in SpanType
  <2>1. spans \in Seq(SpanType)
    BY PartIsKnown
  <2>2. PICK k \in 1 .. Len(spans) : s = spans[k]
    BY <2>1, LenProperties DEF ToSet
  <2> QED  BY <2>1, <2>2, ElementOfSeq
<1>3. PICK i, j \in 1 .. Len(group) : Covers(s, group, i, j)
  BY <1>1 DEF BulkInv, SpansAreOfPart
<1>4. \A r \in asked : \E m \in i .. j : r = group[m]
  BY <1>1, <1>2, <1>3, AskedAreCovered
<1>5. i \in Int /\ j \in Int /\ i <= j
  BY <1>1, <1>3, LenProperties DEF Covers
<1>6. CASE i = j
  <2>1. \A r \in asked : r = group[i]
    BY <1>4, <1>5, <1>6
  <2> QED  BY <2>1, AtMostOne
<1>7. CASE i < j
  <2>1. (\A m \in i .. j : ~ group[m].optional) /\ s.to - s.from <= MaxPerRead
    BY <1>3, <1>7 DEF Covers
  <2> QED  BY <1>4, <2>1
<1> QED  BY <1>5, <1>6, <1>7

\* BulkInv implies the property.
LEMMA InvMakesWhole ==
  ASSUME BulkInv  PROVE ReadInWhole
<1>1. MandatoryFetched
  <2> SUFFICES ASSUME outcome = "done", ~ errors,
                      NEW i \in DOMAIN operation.parts,
                      NEW r \in ToSet(operation.parts[i].registers),
                      ~ r.optional, NEW a \in Occupies(r)
               PROVE  a \in DOMAIN cached /\ cached[a] = count
    BY DEF MandatoryFetched
  <2>1. i \in 1 .. Len(operation.parts)
    BY OperationsParts DEF BulkInv, OperationIsKnown
  <2>2. Settled(r)
    BY <2>1 DEF BulkInv, PartsAreRead, RegistersOf
  <2> QED  BY <2>2 DEF Settled, Got
<1>2. RequestsAreSafe
  BY InvMakesSafe
<1>3. ReadNow({ChargeSourceSelection})
  BY DEF BulkInv, ShownIsRead, ReadNow
<1> QED  BY <1>1, <1>2, <1>3 DEF ReadInWhole

\* Of any groups in the order of their addresses and any sets of registers that a unit
\* lacks, a read without an error has every mandatory register, asks for no optional one
\* together with others, and gives its readers no word from before.
THEOREM ReadInWholeHolds == BulkSpec => []ReadInWhole
<1>1. BulkInit => BulkInv
  BY BulkInvInit
<1>2. BulkInv /\ [BulkNext]_bulkVars => BulkInv'
  BY BulkInvNext
<1>3. BulkInv => ReadInWhole
  BY InvMakesWhole
<1> QED  BY <1>1, <1>2, <1>3, PTL DEF BulkSpec
=============================================================================
