------------------------------ MODULE Counting ------------------------------
(***************************************************************************)
(* Facts about numbers, sets of numbers and sums that the proofs about     *)
(* several components rest on.  Induction is stated for a set of numbers,  *)
(* the numbers with the property, so that it can be applied to any one.    *)
(***************************************************************************)
EXTENDS FiniteSetsExt, FiniteSetTheorems, WellFoundedInduction, TLAPS

-----------------------------------------------------------------------------
(***************************************************************************)
(* Least and greatest numbers, and induction                               *)
(***************************************************************************)

\* Every set of naturals with an element has a least one.
LEMMA LeastExists ==
  ASSUME NEW S \in SUBSET Nat, S # {}
  PROVE  \E x \in S : \A y \in S : x <= y
<1> DEFINE less == OpToRel(<, Nat)
<1>1. IsWellFoundedOn(less, Nat)
  BY NatLessThanWellFounded
<1>2. \A x, y \in Nat : <<y, x>> \in less <=> y < x
  BY DEF OpToRel
<1> HIDE DEF less
<1>3. PICK x \in S : \A y \in S : <<y, x>> \notin less
  BY <1>1, WFMin
<1>4. \A y \in S : ~(y < x)
  BY <1>2, <1>3
<1> QED
  BY <1>4

\* Min and Max of naturals are what they are called.
LEMMA MinIsLeast ==
  ASSUME NEW S \in SUBSET Nat, S # {}
  PROVE  Min(S) \in S /\ \A y \in S : Min(S) <= y
BY LeastExists DEF Min

LEMMA MaxIsGreatest ==
  ASSUME NEW S \in SUBSET Nat, S # {}, NEW n \in Nat, \A y \in S : y <= n
  PROVE  Max(S) \in S /\ \A y \in S : y <= Max(S)
<1> DEFINE T == {n - y : y \in S}
<1>1. T \in SUBSET Nat /\ T # {}
  <2>1. \A y \in S : n - y \in Nat
    OBVIOUS
  <2> QED
    BY <2>1
<1>2. PICK t \in T : \A u \in T : t <= u
  BY <1>1, LeastExists
<1>3. PICK x \in S : t = n - x
  BY <1>2
<1>4. \A y \in S : n - y \in T /\ n - x <= n - y
  BY <1>2, <1>3
<1>5. \A y \in S : x >= y
  BY <1>4
<1> QED
  BY <1>5 DEF Max

\* A set of naturals that has 0 and the successors of its elements has all.
LEMMA Induction ==
  ASSUME NEW T, 0 \in T, \A n \in Nat : n \in T => n + 1 \in T
  PROVE  Nat \subseteq T
<1> SUFFICES ASSUME Nat \ T # {} PROVE FALSE
  OBVIOUS
<1>1. PICK x \in Nat \ T : \A y \in Nat \ T : x <= y
  BY LeastExists
<1>2. x # 0 /\ x - 1 \in Nat /\ x - 1 \notin Nat \ T
  BY <1>1
<1> QED
  BY <1>1, <1>2

-----------------------------------------------------------------------------
(***************************************************************************)
(* Sums                                                                    *)
(***************************************************************************)
Element(s) == CHOOSE x \in s : TRUE

\* One step of the fold by which a sum is defined.
SumStep(f, sum, s) == IF s = {} THEN 0 ELSE f[Element(s)] + sum[s \ {Element(s)}]

\* The recursive function behind a sum exists: by induction over the size of
\* the sets that it is defined on.
LEMMA SumFunctionExists ==
  ASSUME NEW f, NEW S, IsFiniteSet(S)
  PROVE  \E sum : sum = [s \in SUBSET S |-> SumStep(f, sum, s)]
<1> DEFINE Small(n) == {s \in SUBSET S : Cardinality(s) <= n}
           T == {n \in Nat : \E sum : sum = [s \in Small(n) |-> SumStep(f, sum, s)]}
<1>1. \A s \in SUBSET S : IsFiniteSet(s) /\ Cardinality(s) \in Nat
                          /\ Cardinality(s) <= Cardinality(S)
  BY FS_Subset, FS_CardinalityType
<1>2. 0 \in T
  <2>1. \A s \in Small(0) : s = {}
    BY <1>1, FS_EmptySet
  <2>2. [s \in Small(0) |-> 0]
          = [s \in Small(0) |-> SumStep(f, [t \in Small(0) |-> 0], s)]
    BY <2>1 DEF SumStep
  <2> QED
    BY <2>2
<1>3. ASSUME NEW n \in Nat, n \in T PROVE n + 1 \in T
  <2>1. PICK sum : sum = [s \in Small(n) |-> SumStep(f, sum, s)]
    BY <1>3
  <2> DEFINE next == [s \in Small(n + 1) |-> SumStep(f, sum, s)]
  <2>2. ASSUME NEW s \in Small(n + 1), s # {}
        PROVE  s \ {Element(s)} \in Small(n)
    <3>1. Element(s) \in s
      BY <2>2 DEF Element
    <3>2. Cardinality(s \ {Element(s)}) = Cardinality(s) - 1
      BY <1>1, <3>1, FS_RemoveElement
    <3> QED
      BY <1>1, <3>2
  <2>3. Small(n) \subseteq Small(n + 1)
    BY <1>1
  <2>4. \A s \in Small(n) : next[s] = sum[s]
    BY <2>1, <2>3
  <2>5. \A s \in Small(n + 1) : SumStep(f, sum, s) = SumStep(f, next, s)
    BY <2>2, <2>4 DEF SumStep
  <2>6. next = [s \in Small(n + 1) |-> SumStep(f, next, s)]
    BY <2>5
  <2> HIDE DEF next, Small
  <2>7. \E g : g = [s \in Small(n + 1) |-> SumStep(f, g, s)]
    BY <2>6
  <2> QED
    BY <2>7
<1> HIDE DEF T
<1>4. Cardinality(S) \in T
  BY <1>1, <1>2, <1>3, Induction, FS_CardinalityType
<1>5. Small(Cardinality(S)) = SUBSET S
  BY <1>1
<1> QED
  BY <1>4, <1>5 DEF T

\* "sum" is the sum of f over each subset of S: the value at one element and the
\* sum over the rest.
Sums(f, S, sum) ==
  /\ SumFunctionOnSet(f, S) = sum[S]
  /\ sum[{}] = 0
  /\ \A s \in SUBSET S : s # {} => /\ Element(s) \in s
                                   /\ sum[s] = f[Element(s)] + sum[s \ {Element(s)}]

LEMMA SumUnfolds ==
  ASSUME NEW f, NEW S, IsFiniteSet(S)
  PROVE  \E sum : Sums(f, S, sum)
<1> DEFINE sum == CHOOSE g : g = [s \in SUBSET S |-> SumStep(f, g, s)]
<1>1. SumFunctionOnSet(f, S) = sum[S]
  BY DEF SumFunctionOnSet, FoldFunctionOnSet, MapThenFoldSet, SumStep, Element
<1>2. sum = [s \in SUBSET S |-> SumStep(f, sum, s)]
  BY SumFunctionExists
<1> HIDE DEF sum
<1>3. \A s \in SUBSET S : sum[s] = SumStep(f, sum, s)
  BY <1>2
<1>4. \A s \in SUBSET S : s # {} => Element(s) \in s
  BY DEF Element
<1> QED
  BY <1>1, <1>3, <1>4 DEF SumStep, Sums

\* Terms that are at most c times as large have a sum that is; and no term is
\* larger than its sum.
LEMMA SumBound ==
  ASSUME NEW S, IsFiniteSet(S), NEW f \in [S -> Nat], NEW g \in [S -> Nat],
         NEW c \in Nat, \A x \in S : f[x] <= c * g[x]
  PROVE  /\ SumFunction(f) \in Nat /\ SumFunction(g) \in Nat
         /\ SumFunction(f) <= c * SumFunction(g)
         /\ \A x \in S : g[x] <= SumFunction(g)
<1>1. PICK F : Sums(f, S, F)
  BY SumUnfolds
<1>2. PICK G : Sums(g, S, G)
  BY SumUnfolds
<1> DEFINE Good(s) == /\ F[s] \in Nat /\ G[s] \in Nat /\ F[s] <= c * G[s]
                      /\ \A y \in s : g[y] <= G[s]
           T == {n \in Nat : \A s \in SUBSET S : Cardinality(s) = n => Good(s)}
<1>3. \A s \in SUBSET S : IsFiniteSet(s) /\ Cardinality(s) \in Nat
  BY FS_Subset, FS_CardinalityType
<1>4. 0 \in T
  <2>1. \A s \in SUBSET S : Cardinality(s) = 0 => s = {}
    BY <1>3, FS_EmptySet
  <2>2. Good({})
    BY <1>1, <1>2 DEF Sums
  <2> QED
    BY <2>1, <2>2
<1>5. ASSUME NEW n \in Nat, n \in T PROVE n + 1 \in T
  <2> SUFFICES ASSUME NEW s \in SUBSET S, Cardinality(s) = n + 1 PROVE Good(s)
    OBVIOUS
  <2>1. s # {}
    BY <1>3, FS_EmptySet
  <2> DEFINE x == Element(s)
             rest == s \ {x}
  <2>2. x \in s /\ F[s] = f[x] + F[rest] /\ G[s] = g[x] + G[rest]
    BY <1>1, <1>2, <2>1 DEF Sums
  <2> HIDE DEF x, Good
  <2>3. Cardinality(rest) = n
    <3>1. IsFiniteSet(s)
      BY <1>3
    <3>2. Cardinality(rest) = Cardinality(s) - 1
      BY <2>2, <3>1, FS_RemoveElement
    <3> QED
      BY <3>2
  <2>4. Good(rest)
    BY <1>5, <2>3
  <2>5. f[x] \in Nat /\ g[x] \in Nat /\ f[x] <= c * g[x]
    BY <2>2
  <2>6. /\ F[rest] \in Nat /\ G[rest] \in Nat /\ F[rest] <= c * G[rest]
        /\ \A y \in rest : g[y] \in Nat /\ g[y] <= G[rest]
    BY <2>4 DEF Good
  <2>7. c * (g[x] + G[rest]) = c * g[x] + c * G[rest]
        /\ c * g[x] \in Nat /\ c * G[rest] \in Nat
    BY <2>5, <2>6
  <2>8. \A y \in s : g[y] <= G[s]
    <3>1. g[x] <= G[s]
      BY <2>2, <2>5, <2>6
    <3>2. ASSUME NEW y \in rest PROVE g[y] <= G[s]
      <4>1. g[y] \in Nat /\ g[y] <= G[rest]
        BY <2>6
      <4> HIDE DEF rest
      <4> QED
        BY <2>2, <2>5, <2>6, <4>1
    <3> QED
      BY <3>1, <3>2
  <2>9. F[s] \in Nat /\ G[s] \in Nat /\ F[s] <= c * G[s]
    <3> HIDE DEF rest
    <3> QED
      BY <2>2, <2>5, <2>6, <2>7
  <2> QED
    BY <2>8, <2>9 DEF Good
<1> HIDE DEF T, Good
<1>6. Cardinality(S) \in T
  BY <1>3, <1>4, <1>5, Induction
<1>7. Good(S)
  BY <1>6 DEF T
<1>8. SumFunction(f) = F[S] /\ SumFunction(g) = G[S]
  BY <1>1, <1>2 DEF SumFunction, Sums
<1> QED
  BY <1>7, <1>8 DEF Good

\* Terms that are at least c times as large have a sum that is.
LEMMA SumAtLeast ==
  ASSUME NEW S, IsFiniteSet(S), NEW f \in [S -> Nat], NEW g \in [S -> Nat],
         NEW c \in Nat, \A x \in S : c * g[x] <= f[x]
  PROVE  c * SumFunction(g) <= SumFunction(f)
<1>1. PICK F : Sums(f, S, F)
  BY SumUnfolds
<1>2. PICK G : Sums(g, S, G)
  BY SumUnfolds
<1> DEFINE Good(s) == F[s] \in Nat /\ G[s] \in Nat /\ c * G[s] <= F[s]
           T == {n \in Nat : \A s \in SUBSET S : Cardinality(s) = n => Good(s)}
<1>3. \A s \in SUBSET S : IsFiniteSet(s) /\ Cardinality(s) \in Nat
  BY FS_Subset, FS_CardinalityType
<1>4. 0 \in T
  <2>1. \A s \in SUBSET S : Cardinality(s) = 0 => s = {}
    BY <1>3, FS_EmptySet
  <2>2. Good({})
    BY <1>1, <1>2 DEF Sums
  <2> QED
    BY <2>1, <2>2
<1>5. ASSUME NEW n \in Nat, n \in T PROVE n + 1 \in T
  <2> SUFFICES ASSUME NEW s \in SUBSET S, Cardinality(s) = n + 1 PROVE Good(s)
    OBVIOUS
  <2>1. s # {}
    BY <1>3, FS_EmptySet
  <2> DEFINE x == Element(s)
             rest == s \ {x}
  <2>2. x \in s /\ F[s] = f[x] + F[rest] /\ G[s] = g[x] + G[rest]
    BY <1>1, <1>2, <2>1 DEF Sums
  <2> HIDE DEF x, Good
  <2>3. Cardinality(rest) = n
    <3>1. IsFiniteSet(s)
      BY <1>3
    <3>2. Cardinality(rest) = Cardinality(s) - 1
      BY <2>2, <3>1, FS_RemoveElement
    <3> QED
      BY <3>2
  <2>4. Good(rest)
    BY <1>5, <2>3
  <2>5. f[x] \in Nat /\ g[x] \in Nat /\ c * g[x] <= f[x]
    BY <2>2
  <2>6. F[rest] \in Nat /\ G[rest] \in Nat /\ c * G[rest] <= F[rest]
    BY <2>4 DEF Good
  <2>7. c * (g[x] + G[rest]) = c * g[x] + c * G[rest]
        /\ c * g[x] \in Nat /\ c * G[rest] \in Nat
    BY <2>5, <2>6
  <2>8. F[s] \in Nat /\ G[s] \in Nat /\ c * G[s] <= F[s]
    <3> HIDE DEF rest
    <3> QED
      BY <2>2, <2>5, <2>6, <2>7
  <2> QED
    BY <2>8 DEF Good
<1> HIDE DEF T, Good
<1>6. Cardinality(S) \in T
  BY <1>3, <1>4, <1>5, Induction
<1>7. Good(S)
  BY <1>6 DEF T
<1>8. SumFunction(f) = F[S] /\ SumFunction(g) = G[S]
  BY <1>1, <1>2 DEF SumFunction, Sums
<1> QED
  BY <1>7, <1>8 DEF Good

LEMMA SumNat ==
  ASSUME NEW S, IsFiniteSet(S), NEW f \in [S -> Nat]
  PROVE  SumFunction(f) \in Nat /\ \A x \in S : f[x] <= SumFunction(f)
<1>1. \A x \in S : f[x] <= 1 * f[x]
  OBVIOUS
<1> QED
  BY <1>1, SumBound

\* A sum of ones is a number of elements.
LEMMA SumOfOnes ==
  ASSUME NEW S, IsFiniteSet(S)
  PROVE  SumFunction([x \in S |-> 1]) = Cardinality(S)
<1> DEFINE one == [x \in S |-> 1]
<1>1. PICK F : Sums(one, S, F)
  BY SumUnfolds
<1> DEFINE T == {n \in Nat : \A s \in SUBSET S : Cardinality(s) = n => F[s] = n}
<1>2. \A s \in SUBSET S : IsFiniteSet(s) /\ Cardinality(s) \in Nat
  BY FS_Subset, FS_CardinalityType
<1>3. 0 \in T
  <2>1. \A s \in SUBSET S : Cardinality(s) = 0 => s = {}
    BY <1>2, FS_EmptySet
  <2> QED
    BY <1>1, <2>1 DEF Sums
<1>4. ASSUME NEW n \in Nat, n \in T PROVE n + 1 \in T
  <2> SUFFICES ASSUME NEW s \in SUBSET S, Cardinality(s) = n + 1 PROVE F[s] = n + 1
    OBVIOUS
  <2>1. s # {}
    BY <1>2, FS_EmptySet
  <2> DEFINE x == Element(s)
             rest == s \ {x}
  <2>2. x \in s /\ F[s] = one[x] + F[rest]
    BY <1>1, <2>1 DEF Sums
  <2> HIDE DEF x
  <2>3. one[x] = 1
    BY <2>2
  <2>4. Cardinality(rest) = n
    <3>1. IsFiniteSet(s)
      BY <1>2
    <3>2. Cardinality(rest) = Cardinality(s) - 1
      BY <2>2, <3>1, FS_RemoveElement
    <3> QED
      BY <3>2
  <2>5. F[rest] = n
    BY <1>4, <2>4
  <2> QED
    BY <2>2, <2>3, <2>5
<1> HIDE DEF T
<1>5. Cardinality(S) \in T
  BY <1>2, <1>3, <1>4, Induction
<1>6. F[S] = Cardinality(S)
  BY <1>5 DEF T
<1>7. SumFunction(one) = F[S]
  BY <1>1 DEF SumFunction, Sums
<1> QED
  BY <1>6, <1>7

=============================================================================
