------------------------------ MODULE FiniteSums ------------------------------
(***************************************************************************)
(* Lemmas about sums over a finite set, for the modules that count         *)
(* credits.  A sum is MapThenSumSet of the community modules, which takes  *)
(* the elements out of the set one by one.                                 *)
(*                                                                         *)
(* They need an induction.  It is stated with a set in place of a          *)
(* predicate and rests on the well-foundedness of the natural numbers:     *)
(* of the sets that are outside, look at one with the fewest elements.     *)
(***************************************************************************)
EXTENDS Integers, FiniteSetsExt, FiniteSetTheorems, TLAPS

\* A set of natural numbers has a least element.
LEMMA LeastElement ==
  ASSUME NEW T, T \subseteq Nat, T # {}
  PROVE  \E n \in T : \A m \in T : n <= m
<1> DEFINE R == OpToRel(<, Nat)
<1>1. IsWellFoundedOn(R, Nat)
  BY NatLessThanWellFounded
<1> HIDE DEF R
<1>2. PICK n \in T : \A m \in T : ~ (<<m, n>> \in R)
  BY <1>1, WFMin
<1>3. \A m \in T : m \in Nat /\ n \in Nat /\ (m < n => <<m, n>> \in R)
  BY DEF R, OpToRel
<1>4. \A m \in T : m \in Nat /\ n \in Nat /\ ~ (m < n)
  BY <1>2, <1>3
<1>5. \A m \in T : n <= m
  BY <1>4
<1> QED
  BY <1>5

\* A set that has 0, and with each number the next, has all.
LEMMA NaturalInduction ==
  ASSUME NEW Q, 0 \in Q, \A n \in Nat : n \in Q => n + 1 \in Q
  PROVE  Nat \subseteq Q
<1> SUFFICES ASSUME Nat \ Q # {} PROVE FALSE
  OBVIOUS
<1>1. PICK n \in Nat \ Q : \A m \in Nat \ Q : n <= m
  BY LeastElement
<1>2. n - 1 \in Nat /\ n - 1 + 1 = n
  BY <1>1
<1>3. n - 1 \in Q
  BY <1>1, <1>2
<1> QED
  BY <1>1, <1>2, <1>3

\* A set that has a finite set whenever it has all that is left of it without
\* one element, has every subset of E.
LEMMA SubsetInduction ==
  ASSUME NEW E, IsFiniteSet(E), NEW Q,
         \A s \in SUBSET E : (\A x \in s : s \ {x} \in Q) => s \in Q
  PROVE  SUBSET E \subseteq Q
<1> SUFFICES ASSUME (SUBSET E) \ Q # {} PROVE FALSE
  OBVIOUS
<1> DEFINE Sizes == {Cardinality(s) : s \in (SUBSET E) \ Q}
<1>1. Sizes \subseteq Nat /\ Sizes # {}
  BY FS_Subset, FS_CardinalityType
<1>2. PICK n \in Sizes : \A m \in Sizes : n <= m
  BY <1>1, LeastElement
<1>3. PICK s \in (SUBSET E) \ Q : Cardinality(s) = n
  BY <1>2
<1>4. IsFiniteSet(s) /\ n \in Nat
  BY <1>1, <1>2, FS_Subset
<1>5. ASSUME NEW x \in s PROVE s \ {x} \in Q
  <2>1. Cardinality(s \ {x}) = n - 1
    BY <1>3, <1>4, FS_RemoveElement
  <2>2. n - 1 \notin Sizes
    BY <1>2, <1>4
  <2>3. s \ {x} \in SUBSET E
    OBVIOUS
  <2> QED
    BY <2>1, <2>2, <2>3
<1> QED
  BY <1>3, <1>5

-------------------------------------------------------------------------------
\* The sum of the products f[e] * g[e].
WeightedSum(f, g, E) == MapThenSumSet(LAMBDA e : f[e] * g[e], E)

\* The element of s that the sum takes next, and one step of it.
Any(s) == CHOOSE y \in s : TRUE

SumBody(f, g, it, s) ==
  IF s = {} THEN 0 ELSE f[Any(s)] * g[Any(s)] + it[s \ {Any(s)}]

IsSum(it, f, g, E) == it = [s \in SUBSET E |-> SumBody(f, g, it, s)]

LEMMA SumIsChosen ==
  ASSUME NEW f, NEW g, NEW E
  PROVE  WeightedSum(f, g, E) = (CHOOSE it : IsSum(it, f, g, E))[E]
BY Zenon DEF WeightedSum, MapThenSumSet, MapThenFoldSet, IsSum, SumBody, Any

LEMMA AnyIsElement == ASSUME NEW s, s # {} PROVE Any(s) \in s
BY DEF Any

\* The recursion has a solution, which is built from the smaller sets up.
LEMMA SumExists ==
  ASSUME NEW E, IsFiniteSet(E), NEW f \in [E -> Int], NEW g \in [E -> Int]
  PROVE  \E it \in [SUBSET E -> Int] : IsSum(it, f, g, E)
<1> DEFINE Upto(it, n) == \A s \in SUBSET E :
                            Cardinality(s) <= n => it[s] = SumBody(f, g, it, s)
           Q == {n \in Nat : \E it \in [SUBSET E -> Int] : Upto(it, n)}
<1>1. \A s \in SUBSET E : IsFiniteSet(s) /\ Cardinality(s) \in Nat
  BY FS_Subset, FS_CardinalityType
<1>2. \A s \in SUBSET E : s # {} => /\ Any(s) \in s
                                    /\ s \ {Any(s)} \in SUBSET E
                                    /\ Cardinality(s \ {Any(s)}) = Cardinality(s) - 1
  BY <1>1, AnyIsElement, FS_RemoveElement
<1>3. 0 \in Q
  <2> DEFINE z == [s \in SUBSET E |-> 0]
  <2>1. z \in [SUBSET E -> Int]
    OBVIOUS
  <2>2. \A s \in SUBSET E : Cardinality(s) <= 0 => s = {}
    BY <1>1, FS_EmptySet
  <2>3. Upto(z, 0)
    BY <2>2 DEF SumBody
  <2> QED
    BY <2>1, <2>3
<1>4. ASSUME NEW n \in Nat, n \in Q PROVE n + 1 \in Q
  <2>1. PICK it \in [SUBSET E -> Int] : Upto(it, n)
    BY <1>4
  <2> DEFINE new == [s \in SUBSET E |-> IF Cardinality(s) <= n THEN it[s]
                                        ELSE SumBody(f, g, it, s)]
  <2>2. ASSUME NEW s \in SUBSET E PROVE SumBody(f, g, it, s) \in Int
    <3>1. CASE s = {}
      BY <3>1 DEF SumBody
    <3>2. CASE s # {}
      <4>1. Any(s) \in E /\ it[s \ {Any(s)}] \in Int
        BY <1>2, <3>2
      <4>2. f[Any(s)] \in Int /\ g[Any(s)] \in Int
        BY <4>1
      <4>3. f[Any(s)] * g[Any(s)] \in Int
        BY <4>2
      <4> QED
        BY <3>2, <4>1, <4>3 DEF SumBody
    <3> QED
      BY <3>1, <3>2
  <2>3. new \in [SUBSET E -> Int]
    BY <2>2
  <2>4. ASSUME NEW s \in SUBSET E, Cardinality(s) <= n + 1
        PROVE  new[s] = SumBody(f, g, it, s) /\ SumBody(f, g, new, s) = SumBody(f, g, it, s)
    <3>1. new[s] = SumBody(f, g, it, s)
      BY <2>1
    <3>2. CASE s = {}
      BY <3>1, <3>2 DEF SumBody
    <3>3. CASE s # {}
      <4> DEFINE r == s \ {Any(s)}
      <4>1. r \in SUBSET E /\ Cardinality(r) <= n
        BY <1>1, <1>2, <2>4, <3>3
      <4>2. new[r] = it[r]
        BY <4>1
      <4> QED
        BY <3>1, <3>3, <4>2 DEF SumBody
    <3> QED
      BY <3>2, <3>3
  <2>5. Upto(new, n + 1)
    BY <2>4
  <2> HIDE DEF new, Upto
  <2> QED
    BY <2>3, <2>5
<1>5. Nat \subseteq Q
  <2> HIDE DEF Q
  <2> QED
    BY <1>3, <1>4, NaturalInduction
<1>6. Cardinality(E) \in Nat
  BY FS_CardinalityType
<1>7. PICK it \in [SUBSET E -> Int] : Upto(it, Cardinality(E))
  BY <1>5, <1>6
<1>8. \A s \in SUBSET E : it[s] = SumBody(f, g, it, s)
  BY <1>7, FS_Subset
<1> QED
  BY <1>7, <1>8 DEF IsSum

\* The recursion as a function, whose value at E is the sum.
Unfolds(it, f, g, E) ==
  /\ it \in [SUBSET E -> Int]
  /\ WeightedSum(f, g, E) = it[E]
  /\ \A s \in SUBSET E : it[s] = SumBody(f, g, it, s)

LEMMA SumUnfolds ==
  ASSUME NEW E, IsFiniteSet(E), NEW f \in [E -> Int], NEW g \in [E -> Int]
  PROVE  \E it : Unfolds(it, f, g, E)
<1> DEFINE it == CHOOSE i : IsSum(i, f, g, E)
<1>1. IsSum(it, f, g, E)
  BY SumExists
<1>2. WeightedSum(f, g, E) = it[E]
  BY SumIsChosen
<1> HIDE DEF it
<1>3. DOMAIN it = SUBSET E /\ \A s \in SUBSET E : it[s] = SumBody(f, g, it, s)
  BY <1>1 DEF IsSum
<1>4. it = [s \in SUBSET E |-> it[s]]
  BY <1>1 DEF IsSum
<1>5. \A s \in SUBSET E : it[s] \in Int
  <2> DEFINE Q == {s \in SUBSET E : it[s] \in Int}
  <2>1. ASSUME NEW s \in SUBSET E, \A x \in s : s \ {x} \in Q PROVE s \in Q
    <3>1. CASE s = {}
      <4>1. it[s] = 0
        BY <1>3, <3>1 DEF SumBody
      <4> QED
        BY <4>1
    <3>2. CASE s # {}
      <4>1. Any(s) \in s /\ it[s \ {Any(s)}] \in Int
        BY <2>1, <3>2, AnyIsElement
      <4>2. f[Any(s)] \in Int /\ g[Any(s)] \in Int
        BY <4>1
      <4>3. f[Any(s)] * g[Any(s)] \in Int
        BY <4>2
      <4>4. it[s] = f[Any(s)] * g[Any(s)] + it[s \ {Any(s)}]
        BY <1>3, <3>2 DEF SumBody
      <4>5. it[s] \in Int
        BY <4>1, <4>3, <4>4
      <4> QED
        BY <4>5
    <3> QED
      BY <3>1, <3>2
  <2> HIDE DEF Q
  <2>2. SUBSET E \subseteq Q
    BY <2>1, SubsetInduction
  <2> QED
    BY <2>2 DEF Q
<1>6. it \in [SUBSET E -> Int]
  BY <1>4, <1>5
<1>7. Unfolds(it, f, g, E)
  BY <1>2, <1>3, <1>6 DEF Unfolds
<1> QED
  BY <1>7

LEMMA SumIsInteger ==
  ASSUME NEW E, IsFiniteSet(E), NEW f \in [E -> Int], NEW g \in [E -> Int]
  PROVE  WeightedSum(f, g, E) \in Int
<1>1. PICK it : Unfolds(it, f, g, E)
  BY SumUnfolds
<1> QED
  BY <1>1 DEF Unfolds

\* When one product grows by d and the others stay, so does the sum.
LEMMA SumGrows ==
  ASSUME NEW E, IsFiniteSet(E), NEW g \in [E -> Int],
         NEW f \in [E -> Int], NEW h \in [E -> Int], NEW a \in E, NEW d \in Int,
         h[a] * g[a] = f[a] * g[a] + d,
         \A e \in E \ {a} : h[e] * g[e] = f[e] * g[e]
  PROVE  WeightedSum(h, g, E) = WeightedSum(f, g, E) + d
<1>1. PICK i : Unfolds(i, f, g, E)
  BY SumUnfolds
<1>2. PICK j : Unfolds(j, h, g, E)
  BY SumUnfolds
<1> DEFINE Q == {s \in SUBSET E : j[s] = i[s] + IF a \in s THEN d ELSE 0}
<1>3. ASSUME NEW s \in SUBSET E, \A x \in s : s \ {x} \in Q PROVE s \in Q
  <2>1. CASE s = {}
    <3>1. i[s] = 0 /\ j[s] = 0
      BY <1>1, <1>2, <2>1 DEF Unfolds, SumBody
    <3> QED
      BY <2>1, <3>1
  <2>2. CASE s # {}
    <3> DEFINE x == Any(s)
               r == s \ {x}
               p == f[x] * g[x]
               q == h[x] * g[x]
    <3>1. x \in s /\ r \in SUBSET E /\ j[r] = i[r] + IF a \in r THEN d ELSE 0
      BY <1>3, <2>2, AnyIsElement
    <3>2. i[s] = p + i[r] /\ j[s] = q + j[r]
      BY <1>1, <1>2, <2>2 DEF Unfolds, SumBody
    <3>3. p \in Int
      <4>1. f[x] \in Int /\ g[x] \in Int
        BY <3>1
      <4> QED
        BY <4>1
    <3>4. i[r] \in Int /\ q = IF x = a THEN p + d ELSE p
      BY <1>1, <3>1 DEF Unfolds
    <3>5. a \in s <=> x = a \/ a \in r
      BY <3>1
    <3>6. x = a => a \notin r
      OBVIOUS
    <3> HIDE DEF p, q, x, r
    <3>7. j[s] = i[s] + IF a \in s THEN d ELSE 0
      <4>1. CASE x = a
        <5>1. j[s] = p + d + i[r] /\ i[s] = p + i[r] /\ a \in s
          BY <3>1, <3>2, <3>4, <3>5, <3>6, <4>1
        <5> QED
          BY <3>3, <3>4, <5>1
      <4>2. CASE x # a
        <5>1. j[s] = p + j[r] /\ i[s] = p + i[r] /\ (a \in s <=> a \in r)
          BY <3>2, <3>4, <3>5, <4>2
        <5> QED
          BY <3>1, <3>3, <3>4, <5>1
      <4> QED
        BY <4>1, <4>2
    <3> QED
      BY <3>7
  <2> QED
    BY <2>1, <2>2
<1> HIDE DEF Q
<1>4. SUBSET E \subseteq Q
  BY <1>3, SubsetInduction
<1>5. j[E] = i[E] + d
  BY <1>4 DEF Q
<1> QED
  BY <1>1, <1>2, <1>5 DEF Unfolds

\* A sum of nothing is zero.
LEMMA SumIsZero ==
  ASSUME NEW E, IsFiniteSet(E), NEW g \in [E -> Int],
         NEW f \in [E -> Int], \A e \in E : f[e] = 0
  PROVE  WeightedSum(f, g, E) = 0
<1>1. PICK i : Unfolds(i, f, g, E)
  BY SumUnfolds
<1> DEFINE Q == {s \in SUBSET E : i[s] = 0}
<1>2. ASSUME NEW s \in SUBSET E, \A x \in s : s \ {x} \in Q PROVE s \in Q
  <2>1. CASE s = {}
    BY <1>1, <2>1 DEF Unfolds, SumBody
  <2>2. CASE s # {}
    <3>1. Any(s) \in E /\ i[s \ {Any(s)}] = 0
      BY <1>2, <2>2, AnyIsElement
    <3>2. f[Any(s)] * g[Any(s)] = 0
      <4>1. g[Any(s)] \in Int
        BY <3>1
      <4> QED
        BY <3>1, <4>1
    <3>3. i[s] = 0
      BY <1>1, <2>2, <3>1, <3>2 DEF Unfolds, SumBody
    <3> QED
      BY <3>3
  <2> QED
    BY <2>1, <2>2
<1> HIDE DEF Q
<1>3. SUBSET E \subseteq Q
  BY <1>2, SubsetInduction
<1> QED
  BY <1>1, <1>3 DEF Q, Unfolds
===============================================================================
