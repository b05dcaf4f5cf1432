--------------------------- MODULE CountingLemmas ---------------------------
(***************************************************************************)
(* Facts about natural numbers, positions in a sequence and sums that      *)
(* several of the proofs rest on.  The library states the least-number     *)
(* principle and induction over an operator; here they are stated over a   *)
(* set, and proved from the well-foundedness of strict inclusion.  With    *)
(* them a sum, which the library defines by recursion over subsets, is     *)
(* shown to exist, to be one function of all subsets, to be taken apart at *)
(* any element and not to shrink.                                          *)
(***************************************************************************)
EXTENDS Integers, FiniteSets, FiniteSetsExt, Functions, FiniteSetTheorems, WellFoundedInduction, TLAPS

\* A set of natural numbers that is not empty has a least one.
LEMMA LeastNatural ==
  ASSUME NEW S \in SUBSET Nat, S # {}
  PROVE  \E n \in S : \A m \in S : n <= m
<1> DEFINE T == {1..n : n \in S}
           R == StrictSubsetOrdering(Nat)
<1>1. T \subseteq FiniteSubsetsOf(Nat) /\ T # {}
  <2>1. \A n \in S : IsFiniteSet(1..n) BY FS_Interval
  <2>2. \A n \in S : 1..n \in SUBSET Nat OBVIOUS
  <2>3. \A n \in S : 1..n \in FiniteSubsetsOf(Nat) BY <2>1, <2>2 DEF FiniteSubsetsOf
  <2>4. PICK n \in S : TRUE OBVIOUS
  <2>5. 1..n \in T BY <2>4
  <2> QED BY <2>3, <2>5
<1>2. IsWellFoundedOn(R, FiniteSubsetsOf(Nat)) BY FS_StrictSubsetOrderingWellFounded
<1>3. PICK x \in T : \A y \in T : ~(<<y, x>> \in R)
  <2> HIDE DEF T, R
  <2> QED BY <1>1, <1>2, WFMin
<1>4. PICK n \in S : x = 1..n OBVIOUS
<1>5. ASSUME NEW m \in S, m < n PROVE FALSE
  <2>1. 1..m \in SUBSET Nat /\ 1..n \in SUBSET Nat OBVIOUS
  <2>2. n \in 1..n /\ n \notin 1..m BY <1>5
  <2>3. \A k \in 1..m : k \in 1..n BY <1>5
  <2>4. 1..m \subseteq 1..n /\ 1..m # 1..n BY <2>2, <2>3
  <2>5. <<1..m, 1..n>> \in R BY <2>1, <2>4 DEF StrictSubsetOrdering
  <2> QED BY <1>3, <1>4, <2>5
<1> QED BY <1>5

\* A set that has 0, and the successor of each natural number it has, has them all.
LEMMA SetInduction ==
  ASSUME NEW S, 0 \in S, \A n \in Nat : n \in S => n + 1 \in S
  PROVE  Nat \subseteq S
<1> DEFINE T == Nat \ S
<1>1. SUFFICES ASSUME T # {} PROVE FALSE OBVIOUS
<1>2. PICK n \in T : \A m \in T : n <= m BY <1>1, LeastNatural
<1>3. n # 0 /\ n - 1 \in Nat BY <1>2
<1>4. n - 1 \in S BY <1>2, <1>3
<1> QED BY <1>3, <1>4

\* Positions of a sequence, not none, have a last one.
LEMMA GreatestIndex ==
  ASSUME NEW n \in Nat, NEW S \in SUBSET (1..n), S # {}
  PROVE  \E i \in S : \A j \in S : j <= i
<1> DEFINE T == {n - i : i \in S}
<1>1. T \in SUBSET Nat OBVIOUS
<1>2. PICK some \in S : TRUE OBVIOUS
<1>3. n - some \in T OBVIOUS
<1>4. PICK k \in T : \A m \in T : k <= m BY <1>1, <1>3, LeastNatural
<1>5. PICK i \in S : k = n - i BY <1>4
<1>6. ASSUME NEW j \in S PROVE j <= i
  <2>1. n - i <= n - j BY <1>4, <1>5
  <2> QED BY <2>1
<1> QED BY <1>6

\* Max and Min of such positions are what their names say, and nothing else is.
LEMMA MaxIndex ==
  ASSUME NEW n \in Nat, NEW S \in SUBSET (1..n), S # {}
  PROVE  /\ Max(S) \in S /\ \A j \in S : j <= Max(S)
         /\ \A m \in S : (\A j \in S : j <= m) => Max(S) = m
<1>1. PICK i \in S : \A j \in S : i >= j BY GreatestIndex
<1>2. Max(S) \in S /\ \A j \in S : Max(S) >= j BY <1>1 DEF Max
<1>3. ASSUME NEW m \in S, \A j \in S : j <= m PROVE Max(S) = m
  <2>1. PICK k \in S : k = Max(S) BY <1>2
  <2>2. k <= m /\ m <= k BY <1>2, <1>3, <2>1
  <2> QED BY <2>1, <2>2
<1> QED BY <1>2, <1>3

LEMMA MinIndex ==
  ASSUME NEW n \in Nat, NEW S \in SUBSET (1..n), S # {}
  PROVE  Min(S) \in S /\ \A j \in S : Min(S) <= j
<1>1. PICK i \in S : \A j \in S : i <= j BY LeastNatural
<1> QED BY <1>1 DEF Min

-----------------------------------------------------------------------------
(* Sums over finite sets *)

\* The element the definition of a sum takes first, and a function that has the sums over
\* all subsets of T.
Elem(s) == CHOOSE x \in s : TRUE
AddsUp(g, f, T) == g = [s \in SUBSET T |-> IF s = {} THEN 0 ELSE f[Elem(s)] + g[s \ {Elem(s)}]]

\* The element taken is of the set.
LEMMA ElemIsThere ==
  ASSUME NEW s, s # {}
  PROVE  Elem(s) \in s
BY DEF Elem

\* The sizes of the subsets of a finite set.
LEMMA Sizes ==
  ASSUME NEW A, IsFiniteSet(A), NEW s \in SUBSET A
  PROVE  /\ IsFiniteSet(s) /\ Cardinality(s) \in Nat /\ Cardinality(A) \in Nat
         /\ Cardinality(s) <= Cardinality(A)
         /\ (Cardinality(s) = 0 <=> s = {})
         /\ \A x \in s : Cardinality(s \ {x}) = Cardinality(s) - 1
<1>1. IsFiniteSet(s) /\ Cardinality(s) <= Cardinality(A) BY FS_Subset
<1>2. Cardinality(s) \in Nat /\ Cardinality(A) \in Nat BY <1>1, FS_CardinalityType
<1>3. Cardinality(s) = 0 <=> s = {} BY <1>1, FS_EmptySet
<1>4. \A x \in s : Cardinality(s \ {x}) = Cardinality(s) - 1 BY <1>1, FS_RemoveElement
<1> QED BY <1>1, <1>2, <1>3, <1>4

\* The sums of a function over the subsets of a finite set exist.
LEMMA SumsExist ==
  ASSUME NEW A, IsFiniteSet(A), NEW f \in [A -> Nat]
  PROVE  \E g \in [SUBSET A -> Nat] : AddsUp(g, f, A)
<1> DEFINE Upto(g, k) == \A s \in SUBSET A : Cardinality(s) <= k =>
                           g[s] = IF s = {} THEN 0 ELSE f[Elem(s)] + g[s \ {Elem(s)}]
           K == {k \in Nat : \E g \in [SUBSET A -> Nat] : Upto(g, k)}
<1>1. 0 \in K
  <2>1. PICK g : g = [s \in SUBSET A |-> 0] OBVIOUS
  <2>2. g \in [SUBSET A -> Nat] BY <2>1
  <2>3. ASSUME NEW s \in SUBSET A, Cardinality(s) <= 0
        PROVE  g[s] = IF s = {} THEN 0 ELSE f[Elem(s)] + g[s \ {Elem(s)}]
    <3>1. s = {}
      <4>1. Cardinality(s) = 0 BY <2>3, Sizes
      <4> QED BY <4>1, Sizes
    <3> QED BY <2>1, <3>1
  <2> QED BY <2>2, <2>3
<1>2. ASSUME NEW k \in Nat, k \in K PROVE k + 1 \in K
  <2>1. PICK g \in [SUBSET A -> Nat] : Upto(g, k) BY <1>2
  <2>2. PICK h : h = [s \in SUBSET A |-> IF Cardinality(s) = k + 1 THEN f[Elem(s)] + g[s \ {Elem(s)}] ELSE g[s]]
  OBVIOUS
  <2>3. ASSUME NEW s \in SUBSET A, Cardinality(s) = k + 1
        PROVE  /\ s # {} /\ f[Elem(s)] \in Nat /\ s \ {Elem(s)} \in SUBSET A
               /\ Cardinality(s \ {Elem(s)}) = k
    <3>1. s # {} BY <2>3, Sizes
    <3>2. Elem(s) \in s BY <3>1, ElemIsThere
    <3>3. Cardinality(s \ {Elem(s)}) = Cardinality(s) - 1 BY <3>2, Sizes
    <3> QED BY <2>3, <3>1, <3>2, <3>3
  <2>4. h \in [SUBSET A -> Nat]
    <3> SUFFICES ASSUME NEW s \in SUBSET A
                 PROVE  (IF Cardinality(s) = k + 1 THEN f[Elem(s)] + g[s \ {Elem(s)}] ELSE g[s]) \in Nat
    BY <2>2
    <3>1. CASE Cardinality(s) = k + 1
      <4>1. f[Elem(s)] \in Nat /\ g[s \ {Elem(s)}] \in Nat BY <2>1, <2>3, <3>1
      <4> QED BY <3>1, <4>1
    <3> QED BY <2>1, <3>1
  <2>5. ASSUME NEW s \in SUBSET A, Cardinality(s) <= k + 1
        PROVE  h[s] = IF s = {} THEN 0 ELSE f[Elem(s)] + h[s \ {Elem(s)}]
    <3>1. CASE Cardinality(s) = k + 1
      <4>1. PICK r : r = s \ {Elem(s)} OBVIOUS
      <4>2. r \in SUBSET A /\ Cardinality(r) = k /\ s # {} BY <2>3, <3>1, <4>1
      <4>3. h[r] = g[r] BY <2>2, <4>2
      <4>4. h[s] = f[Elem(s)] + g[r] BY <2>2, <3>1, <4>1
      <4> QED BY <4>1, <4>2, <4>3, <4>4
    <3>2. CASE Cardinality(s) # k + 1
      <4>1. Cardinality(s) <= k BY <2>5, <3>2, Sizes
      <4>2. g[s] = IF s = {} THEN 0 ELSE f[Elem(s)] + g[s \ {Elem(s)}] BY <2>1, <4>1
      <4>3. h[s] = g[s] BY <2>2, <3>2
      <4>4. CASE s = {} BY <4>2, <4>3, <4>4
      <4>5. CASE s # {}
        <5>1. PICK r : r = s \ {Elem(s)} OBVIOUS
        <5>2. Elem(s) \in s BY <4>5, ElemIsThere
        <5>3. Cardinality(r) = Cardinality(s) - 1 BY <5>1, <5>2, Sizes
        <5>4. Cardinality(r) # k + 1 /\ r \in SUBSET A BY <4>1, <5>1, <5>3, Sizes
        <5>5. h[r] = g[r] BY <2>2, <5>4
        <5> QED BY <4>2, <4>3, <4>5, <5>1, <5>5
      <4> QED BY <4>4, <4>5
    <3> QED BY <3>1, <3>2
  <2>6. Upto(h, k + 1) BY <2>5
  <2>7. \E e \in [SUBSET A -> Nat] : Upto(e, k + 1)
    <3> HIDE DEF Upto
    <3> QED BY <2>4, <2>6
  <2>8. k + 1 \in Nat OBVIOUS
  <2> HIDE DEF Upto
  <2> QED BY <2>7, <2>8
<1>3. Cardinality(A) \in K
  <2>1. Nat \subseteq K
    <3> HIDE DEF K
    <3> QED BY <1>1, <1>2, SetInduction
  <2> QED BY <2>1, Sizes
<1>4. PICK g \in [SUBSET A -> Nat] : Upto(g, Cardinality(A)) BY <1>3
<1>5. \A s \in SUBSET A : g[s] = IF s = {} THEN 0 ELSE f[Elem(s)] + g[s \ {Elem(s)}] BY <1>4, Sizes
<1>6. AddsUp(g, f, A)
  <2>1. g = [s \in SUBSET A |-> g[s]] BY <1>4
  <2>2. [s \in SUBSET A |-> g[s]] = [s \in SUBSET A |-> IF s = {} THEN 0 ELSE f[Elem(s)] + g[s \ {Elem(s)}]]
  BY <1>5
  <2> QED BY <2>1, <2>2 DEF AddsUp
<1> QED BY <1>4, <1>6

\* The sum over a subset is what any of these functions says.
LEMMA SumIs ==
  ASSUME NEW A, IsFiniteSet(A), NEW f \in [A -> Nat], NEW g \in [SUBSET A -> Nat], AddsUp(g, f, A),
         NEW T \in SUBSET A
  PROVE  SumFunctionOnSet(f, T) = g[T]
<1>1. PICK h : h = CHOOSE iter : AddsUp(iter, f, T) OBVIOUS
<1>2. SumFunctionOnSet(f, T) = h[T]
BY <1>1 DEF SumFunctionOnSet, FoldFunctionOnSet, MapThenFoldSet, AddsUp, Elem
<1>3. \A s \in SUBSET A : g[s] = IF s = {} THEN 0 ELSE f[Elem(s)] + g[s \ {Elem(s)}]
BY DEF AddsUp
<1>4. \E iter : AddsUp(iter, f, T)
  <2>1. PICK iter : iter = [s \in SUBSET T |-> g[s]] OBVIOUS
  <2>2. ASSUME NEW s \in SUBSET T PROVE iter[s] = IF s = {} THEN 0 ELSE f[Elem(s)] + iter[s \ {Elem(s)}]
    <3>1. s \in SUBSET A /\ iter[s] = g[s] /\ iter[s \ {Elem(s)}] = g[s \ {Elem(s)}] BY <2>1
    <3> QED BY <1>3, <3>1
  <2>3. iter = [s \in SUBSET T |-> iter[s]] BY <2>1
  <2>4. [s \in SUBSET T |-> iter[s]] = [s \in SUBSET T |-> IF s = {} THEN 0 ELSE f[Elem(s)] + iter[s \ {Elem(s)}]]
  BY <2>2
  <2>5. AddsUp(iter, f, T) BY <2>3, <2>4 DEF AddsUp
  <2> QED BY <2>5
<1>5. AddsUp(h, f, T) BY <1>1, <1>4
<1>6. \A s \in SUBSET T : h[s] = IF s = {} THEN 0 ELSE f[Elem(s)] + h[s \ {Elem(s)}]
BY <1>5 DEF AddsUp
<1> DEFINE K == {k \in Nat : \A s \in SUBSET T : Cardinality(s) = k => h[s] = g[s]}
<1>7. 0 \in K
  <2> SUFFICES ASSUME NEW s \in SUBSET T, Cardinality(s) = 0 PROVE h[s] = g[s] OBVIOUS
  <2>1. s \in SUBSET A /\ s = {} BY Sizes
  <2> QED BY <1>3, <1>6, <2>1
<1>8. ASSUME NEW k \in Nat, k \in K PROVE k + 1 \in K
  <2> SUFFICES ASSUME NEW s \in SUBSET T, Cardinality(s) = k + 1 PROVE h[s] = g[s] OBVIOUS
  <2>1. s \in SUBSET A /\ s # {} BY Sizes
  <2>2. Elem(s) \in s BY <2>1, ElemIsThere
  <2>3. PICK r : r = s \ {Elem(s)} OBVIOUS
  <2>4. r \in SUBSET T /\ Cardinality(r) = k BY <2>1, <2>2, <2>3, Sizes
  <2>5. h[r] = g[r] BY <1>8, <2>4
  <2> QED BY <1>3, <1>6, <2>1, <2>3, <2>5
<1>9. Cardinality(T) \in K
  <2>1. Nat \subseteq K
    <3> HIDE DEF K
    <3> QED BY <1>7, <1>8, SetInduction
  <2> QED BY <2>1, Sizes
<1>10. h[T] = g[T] BY <1>9
<1> QED BY <1>2, <1>10

TakesApart(g, f, A) == \A s \in SUBSET A : \A x \in s : g[s] = f[x] + g[s \ {x}]

\* A sum may be taken apart at any element, not only at the one the definition chooses.
LEMMA SumsApart ==
  ASSUME NEW A, IsFiniteSet(A), NEW f \in [A -> Nat], NEW g \in [SUBSET A -> Nat], AddsUp(g, f, A)
  PROVE  TakesApart(g, f, A)
<1>1. \A s \in SUBSET A : g[s] = IF s = {} THEN 0 ELSE f[Elem(s)] + g[s \ {Elem(s)}]
BY DEF AddsUp
<1> DEFINE K == {k \in Nat : \A s \in SUBSET A : Cardinality(s) = k => \A x \in s : g[s] = f[x] + g[s \ {x}]}
<1>2. 0 \in K
  <2> SUFFICES ASSUME NEW s \in SUBSET A, Cardinality(s) = 0, NEW x \in s PROVE FALSE OBVIOUS
  <2> QED BY Sizes
<1>3. ASSUME NEW k \in Nat, k \in K PROVE k + 1 \in K
  <2> SUFFICES ASSUME NEW s \in SUBSET A, Cardinality(s) = k + 1, NEW x \in s
               PROVE  g[s] = f[x] + g[s \ {x}]
  OBVIOUS
  <2>1. PICK c : c = Elem(s) OBVIOUS
  <2>2. c \in s /\ g[s] = f[c] + g[s \ {c}] BY <1>1, <2>1, ElemIsThere
  <2>3. CASE x = c BY <2>2, <2>3
  <2>4. CASE x # c
    <3>1. PICK u, v, w : u = s \ {c} /\ v = s \ {x} /\ w = s \ {c, x} OBVIOUS
    <3>2. /\ u \in SUBSET A /\ v \in SUBSET A /\ w \in SUBSET A /\ x \in u /\ c \in v
          /\ u \ {x} = w /\ v \ {c} = w
    BY <2>2, <2>4, <3>1
    <3>3. Cardinality(u) = k /\ Cardinality(v) = k BY <2>2, <3>1, Sizes
    <3>4. g[u] = f[x] + g[w] BY <1>3, <3>2, <3>3
    <3>5. g[v] = f[c] + g[w] BY <1>3, <3>2, <3>3
    <3>6. f[x] \in Nat /\ f[c] \in Nat /\ g[w] \in Nat BY <2>2, <3>2
    <3> QED BY <2>2, <3>1, <3>4, <3>5, <3>6
  <2> QED BY <2>3, <2>4
<1>4. Nat \subseteq K
  <2> HIDE DEF K
  <2> QED BY <1>2, <1>3, SetInduction
<1> QED BY <1>4, Sizes DEF TakesApart

\* A sum of natural numbers does not shrink when terms are added.
LEMMA SumsGrow ==
  ASSUME NEW A, IsFiniteSet(A), NEW f \in [A -> Nat], NEW g \in [SUBSET A -> Nat], AddsUp(g, f, A)
  PROVE  \A U \in SUBSET A : \A T \in SUBSET U : g[T] <= g[U]
<1> DEFINE K == {k \in Nat : \A U \in SUBSET A : Cardinality(U) = k => \A T \in SUBSET U : g[T] <= g[U]}
<1>1. 0 \in K
  <2> SUFFICES ASSUME NEW U \in SUBSET A, Cardinality(U) = 0, NEW T \in SUBSET U PROVE g[T] <= g[U] OBVIOUS
  <2>1. T = U BY Sizes
  <2> QED BY <2>1
<1>2. ASSUME NEW k \in Nat, k \in K PROVE k + 1 \in K
  <2> SUFFICES ASSUME NEW U \in SUBSET A, Cardinality(U) = k + 1, NEW T \in SUBSET U PROVE g[T] <= g[U] OBVIOUS
  <2>1. CASE T = U BY <2>1
  <2>2. CASE T # U
    <3>1. PICK x \in U : x \notin T BY <2>2
    <3>2. PICK V : V = U \ {x} OBVIOUS
    <3>3. V \in SUBSET A /\ T \in SUBSET V /\ Cardinality(V) = k BY <3>1, <3>2, Sizes
    <3>4. g[T] <= g[V] BY <1>2, <3>3
    <3>5. g[U] = f[x] + g[V] BY <3>1, <3>2, SumsApart DEF TakesApart
    <3>6. f[x] \in Nat /\ g[T] \in Nat /\ g[V] \in Nat BY <3>3
    <3> QED BY <3>4, <3>5, <3>6
  <2> QED BY <2>1, <2>2
<1>3. Nat \subseteq K
  <2> HIDE DEF K
  <2> QED BY <1>1, <1>2, SetInduction
<1> QED BY <1>3, Sizes

\* What the sum of a function over subsets of a finite set does.
LEMMA SumOver ==
  ASSUME NEW A, IsFiniteSet(A), NEW f \in [A -> Nat]
  PROVE  /\ SumFunctionOnSet(f, {}) = 0
         /\ \A T \in SUBSET A :
              /\ SumFunctionOnSet(f, T) \in Nat
              /\ \A x \in T : SumFunctionOnSet(f, T) = f[x] + SumFunctionOnSet(f, T \ {x})
              /\ \A S \in SUBSET T : SumFunctionOnSet(f, S) <= SumFunctionOnSet(f, T)
<1>1. PICK g \in [SUBSET A -> Nat] : AddsUp(g, f, A) BY SumsExist
<1>2. \A T \in SUBSET A : SumFunctionOnSet(f, T) = g[T] BY <1>1, SumIs
<1>3. g[{}] = 0 BY <1>1 DEF AddsUp
<1>4. TakesApart(g, f, A) BY <1>1, SumsApart
<1>5. \A U \in SUBSET A : \A T \in SUBSET U : g[T] <= g[U] BY <1>1, SumsGrow
<1>6. SumFunctionOnSet(f, {}) = 0 BY <1>2, <1>3
<1>7. ASSUME NEW T \in SUBSET A
      PROVE  /\ SumFunctionOnSet(f, T) \in Nat
             /\ \A x \in T : SumFunctionOnSet(f, T) = f[x] + SumFunctionOnSet(f, T \ {x})
             /\ \A S \in SUBSET T : SumFunctionOnSet(f, S) <= SumFunctionOnSet(f, T)
  <2>1. SumFunctionOnSet(f, T) = g[T] /\ g[T] \in Nat BY <1>1, <1>2
  <2>2. ASSUME NEW x \in T PROVE SumFunctionOnSet(f, T) = f[x] + SumFunctionOnSet(f, T \ {x})
    <3>1. SumFunctionOnSet(f, T \ {x}) = g[T \ {x}] BY <1>2
    <3> QED BY <1>4, <2>1, <3>1 DEF TakesApart
  <2>3. ASSUME NEW S \in SUBSET T PROVE SumFunctionOnSet(f, S) <= SumFunctionOnSet(f, T)
    <3>1. SumFunctionOnSet(f, S) = g[S] BY <1>2
    <3> QED BY <1>5, <2>1, <3>1
  <2> QED BY <2>1, <2>2, <2>3
<1> QED BY <1>6, <1>7
=============================================================================
