---------------------------- MODULE NumberLemmas ----------------------------
(***************************************************************************)
(* Facts about natural numbers that the proofs of several components use:   *)
(* least and greatest elements, quotients, the rank of an element in a set, *)
(* the size of what a function takes; and folds over sequences.             *)
(***************************************************************************)
EXTENDS Integers, Sequences, FiniteSetsExt, FiniteSetTheorems, WellFoundedInduction, TLAPS

-----------------------------------------------------------------------------
(* Numbers. *)

\* A set of natural numbers that is not empty has a least element.
LEMMA NatMin ==
  ASSUME NEW T \in SUBSET Nat, T # {}
  PROVE  \E n \in T : \A m \in T : n <= m
<1> DEFINE R == OpToRel(<, Nat)
<1>1. IsWellFoundedOn(R, Nat)
  BY NatLessThanWellFounded
<1>2. \A x, y \in Nat : x < y => <<x, y>> \in R
  BY DEF OpToRel
<1> HIDE DEF R
<1>3. PICK n \in T : \A m \in T : ~ (<<m, n>> \in R)
  BY <1>1, WFMin
<1>4. ASSUME NEW m \in T PROVE n <= m
  <2>1. m \in Nat /\ n \in Nat
    OBVIOUS
  <2>2. ~ (m < n)
    BY <1>2, <1>3, <2>1, Zenon
  <2> QED
    BY <2>1, <2>2
<1> QED
  BY <1>4

\* Quotient and remainder.
LEMMA DivMod ==
  ASSUME NEW a \in Nat, NEW b \in Nat \ {0}
  PROVE  /\ a \div b \in Nat /\ a % b \in 0..(b - 1)
         /\ a = b * (a \div b) + (a % b)
<1> DEFINE q == a \div b
          r == a % b
<1>1. q \in Int /\ r \in 0..(b - 1) /\ a = b * q + r
  OBVIOUS
<1> HIDE DEF q, r
<1>2. q >= 0
  BY <1>1
<1>3. q \in Nat
  BY <1>1, <1>2
<1> QED
  BY <1>1, <1>3 DEF q, r

\* The quotient and the remainder are the only numbers that make up a.
LEMMA DivModUnique ==
  ASSUME NEW b \in Nat \ {0}, NEW q \in Nat, NEW r \in 0..(b - 1)
  PROVE  (b * q + r) \div b = q /\ (b * q + r) % b = r
  OBVIOUS

\* A product grows with its factor.
LEMMA Mul ==
  ASSUME NEW a \in Nat, NEW b \in Nat, NEW c \in Nat, a <= b
  PROVE  a * c \in Nat /\ b * c \in Nat /\ a * c <= b * c
  OBVIOUS

\* A set of numbers up to n that is not empty has a greatest element.
LEMMA NatMax ==
  ASSUME NEW n \in Nat, NEW T \in SUBSET (0..n), T # {}
  PROVE  \E x \in T : \A y \in T : y <= x
<1> DEFINE D == {n - x : x \in T}
<1>1. D \in SUBSET Nat /\ D # {}
  <2>1. \A x \in T : n - x \in Nat
    OBVIOUS
  <2> QED
    BY <2>1
<1>2. PICK d \in D : \A e \in D : d <= e
  BY <1>1, NatMin
<1>3. PICK x \in T : d = n - x
  BY <1>2
<1>4. ASSUME NEW y \in T PROVE y <= x
  <2>1. n - y \in D /\ d <= n - y
    BY <1>2
  <2>2. x \in 0..n /\ y \in 0..n
    OBVIOUS
  <2> QED
    BY <1>3, <2>1, <2>2
<1> QED
  BY <1>4

-----------------------------------------------------------------------------
(* The rank of an element is the number of the smaller ones. *)

Below0(S, x) == {y \in S : y < x}

\* The smaller elements of a larger element.
LEMMA BelowSmaller ==
  ASSUME NEW S \in SUBSET Nat, NEW x \in S
  PROVE  /\ Below0(S, x) \in SUBSET Nat /\ x \notin Below0(S, x)
         /\ \A z \in S : x < z => Below0(S, x) \cup {x} \subseteq Below0(S, z)
         /\ \A z \in S : z \in Below0(S, x) \/ z = x \/ x < z
<1>1. \A y \in S : y \in Nat
  OBVIOUS
<1>2. \A y \in S : ~(y < y) /\ (y < x \/ y = x \/ x < y)
  BY <1>1
<1>3. \A y, z \in S : y < x /\ x < z => y < z
  BY <1>1
<1> QED
  BY <1>1, <1>2, <1>3, Zenon DEF Below0

\* An element has its rank, the number of the smaller ones, to itself.
LEMMA RankGrows ==
  ASSUME NEW S \in SUBSET Nat, IsFiniteSet(S), NEW x \in S
  PROVE  /\ Cardinality(Below0(S, x)) \in Nat
         /\ Cardinality(Below0(S, x)) < Cardinality(S) /\ Cardinality(S) \in Nat
         /\ \A z \in S : x < z => Cardinality(Below0(S, x)) < Cardinality(Below0(S, z))
<1>1. IsFiniteSet(Below0(S, x)) /\ Cardinality(Below0(S, x)) \in Nat
  BY FS_Subset, FS_CardinalityType DEF Below0
<1>2. Cardinality(Below0(S, x) \cup {x}) = Cardinality(Below0(S, x)) + 1
      /\ IsFiniteSet(Below0(S, x) \cup {x})
  BY <1>1, BelowSmaller, FS_AddElement
<1>3. Cardinality(Below0(S, x)) < Cardinality(S) /\ Cardinality(S) \in Nat
  <2>1. Below0(S, x) \cup {x} \subseteq S
    BY DEF Below0
  <2>2. Cardinality(Below0(S, x) \cup {x}) <= Cardinality(S) /\ Cardinality(S) \in Nat
    BY <2>1, FS_Subset, FS_CardinalityType
  <2> QED
    BY <1>1, <1>2, <2>2
<1>4. ASSUME NEW z \in S, x < z
      PROVE  Cardinality(Below0(S, x)) < Cardinality(Below0(S, z))
  <2>1. Below0(S, x) \cup {x} \subseteq Below0(S, z)
    BY <1>4, BelowSmaller
  <2>2. IsFiniteSet(Below0(S, z)) /\ Cardinality(Below0(S, z)) \in Nat
    BY FS_Subset, FS_CardinalityType DEF Below0
  <2>3. Cardinality(Below0(S, x) \cup {x}) <= Cardinality(Below0(S, z))
    BY <2>1, <2>2, FS_Subset
  <2> QED
    BY <1>1, <1>2, <2>2, <2>3
<1> QED
  BY <1>1, <1>3, <1>4

\* Every number below the size of the set is the rank of an element: the smallest one
\* that is not has an element of the rank before it, and the next element has it.
LEMMA RankExists ==
  ASSUME NEW S \in SUBSET Nat, IsFiniteSet(S), NEW i \in Nat, i < Cardinality(S)
  PROVE  \E x \in S : Cardinality(Below0(S, x)) = i
<1> DEFINE T == {n \in Nat : n < Cardinality(S)
                             /\ \A x \in S : Cardinality(Below0(S, x)) # n}
<1>1. SUFFICES ASSUME T # {} PROVE FALSE
  OBVIOUS
<1>2. PICK n \in T : \A m \in T : n <= m
  BY <1>1, NatMin
<1>3. Cardinality(S) \in Nat
  BY FS_CardinalityType
<1>4. CASE n = 0
  <2>1. S # {}
    BY <1>2, <1>4, FS_EmptySet
  <2>2. PICK x \in S : \A m \in S : x <= m
    BY <2>1, NatMin
  <2>3. Below0(S, x) = {}
    <3>1. \A y \in S : ~(y < x)
      <4>1. \A y \in S : y \in Nat
        OBVIOUS
      <4> QED
        BY <2>2, <4>1
    <3> QED
      BY <3>1, Zenon DEF Below0
  <2> QED
    BY <1>2, <1>4, <2>3, FS_EmptySet
<1>5. CASE n # 0
  <2>1. n - 1 \in Nat /\ n - 1 < Cardinality(S) /\ n - 1 \notin T
    BY <1>2, <1>3, <1>5
  <2>2. PICK x \in S : Cardinality(Below0(S, x)) = n - 1
    BY <2>1
  <2>3. IsFiniteSet(Below0(S, x))
    BY FS_Subset DEF Below0
  <2>4. Cardinality(Below0(S, x) \cup {x}) = n
    <3>1. Cardinality(Below0(S, x) \cup {x}) = Cardinality(Below0(S, x)) + 1
      BY <2>3, BelowSmaller, FS_AddElement
    <3> QED
      BY <1>2, <2>2, <3>1
  <2> DEFINE G == {y \in S : x < y}
  <2>5. CASE G = {}
    <3>1. S = Below0(S, x) \cup {x}
      <4>1. \A z \in S : ~(x < z)
        BY <2>5
      <4>2. \A z \in S : z \in Below0(S, x) \/ z = x
        BY <4>1, BelowSmaller
      <4> QED
        BY <4>2, Zenon DEF Below0
    <3> QED
      BY <1>2, <2>4, <3>1
  <2>6. CASE G # {}
    <3>1. PICK z \in G : \A m \in G : z <= m
      <4>1. G \in SUBSET Nat
        OBVIOUS
      <4> QED
        BY <2>6, <4>1, NatMin
    <3>2. Below0(S, z) = Below0(S, x) \cup {x}
      <4>1. Below0(S, x) \cup {x} \subseteq Below0(S, z)
        BY <3>1, BelowSmaller
      <4>2. \A y \in Below0(S, z) : ~(x < y)
        <5>1. \A y \in S : y \in Nat
          OBVIOUS
        <5>2. \A y \in S : y < z => ~(z <= y)
          BY <3>1, <5>1
        <5> QED
          BY <3>1, <5>2 DEF Below0
      <4>3. \A y \in Below0(S, z) : y \in Below0(S, x) \/ y = x
        BY <4>2, BelowSmaller DEF Below0
      <4> QED
        BY <4>1, <4>3, Zenon
    <3> QED
      BY <1>2, <2>4, <3>1, <3>2
  <2> QED
    BY <2>5, <2>6
<1> QED
  BY <1>4, <1>5

-----------------------------------------------------------------------------
(* Sizes. *)

\* A function takes no more values than there are arguments.
LEMMA ImageSmall ==
  ASSUME NEW f, NEW n \in Nat
  PROVE  /\ IsFiniteSet({f[i] : i \in 1..n})
         /\ Cardinality({f[i] : i \in 1..n}) \in Nat
         /\ Cardinality({f[i] : i \in 1..n}) <= n
<1> DEFINE T == {f[i] : i \in 1..n}
           g == [i \in 1..n |-> f[i]]
<1>1. g \in Surjection(1..n, T)
  BY DEF Surjection
<1>2. IsFiniteSet(1..n) /\ Cardinality(1..n) = n
  BY FS_Interval
<1> HIDE DEF T, g
<1>3. IsFiniteSet(T) /\ Cardinality(T) <= n
  BY <1>1, <1>2, FS_Surjection
<1> QED
  BY <1>3, FS_CardinalityType DEF T

\* Two finite sets together have no more elements than both have.
LEMMA UnionSmall ==
  ASSUME NEW S, NEW T, IsFiniteSet(S), IsFiniteSet(T)
  PROVE  /\ IsFiniteSet(S \cup T) /\ Cardinality(S \cup T) \in Nat
         /\ Cardinality(S \cup T) <= Cardinality(S) + Cardinality(T)
<1>1. /\ IsFiniteSet(S \cup T)
      /\ Cardinality(S \cup T) = Cardinality(S) + Cardinality(T) - Cardinality(S \cap T)
  BY FS_Union
<1>2. IsFiniteSet(S \cap T)
  BY FS_Subset
<1>3. Cardinality(S) \in Nat /\ Cardinality(T) \in Nat /\ Cardinality(S \cap T) \in Nat
      /\ Cardinality(S \cup T) \in Nat
  BY <1>1, <1>2, FS_CardinalityType
<1> QED
  BY <1>1, <1>3

-----------------------------------------------------------------------------
(* Folds over sequences of any length.  The function that the fold of the  *)
(* library defines on the sets of indices is there, and takes values of the *)
(* type that each step keeps.                                               *)

LEMMA MaxIn ==
  ASSUME NEW n \in Nat, NEW s \in SUBSET (1..n), s # {}
  PROVE  Max(s) \in s /\ Max(s) \in 1..n /\ \A y \in s : y <= Max(s)
<1>1. s \in SUBSET (0..n)
  OBVIOUS
<1>2. PICK x \in s : \A y \in s : y <= x
  BY <1>1, NatMax
<1>3. \A y \in s : x >= y
  BY <1>2
<1>4. Max(s) \in s /\ \A y \in s : Max(s) >= y
  BY <1>3, Zenon DEF Max
<1> QED
  BY <1>4

\* What is left when the greatest index is taken away.
LEMMA WithoutMax ==
  ASSUME NEW n \in Nat, NEW s \in SUBSET (1..n), s # {}
  PROVE  n # 0 /\ n - 1 \in Nat /\ s \ {Max(s)} \in SUBSET (1..(n - 1))
<1>1. Max(s) \in 1..n /\ \A y \in s : y \in 1..n /\ y <= Max(s)
  BY MaxIn
<1>2. \A y \in s : y # Max(s) => y \in 1..(n - 1)
  BY <1>1
<1>3. n # 0 /\ n - 1 \in Nat
  BY <1>1
<1>4. s \ {Max(s)} \in SUBSET (1..(n - 1))
  BY <1>2, Zenon
<1> QED
  BY <1>3, <1>4

LEMMA FoldType ==
  ASSUME NEW A, NEW n \in Nat, NEW g, g[{}] \in A,
         \A s \in SUBSET (1..n) : s # {} /\ g[s \ {Max(s)}] \in A => g[s] \in A
  PROVE  \A s \in SUBSET (1..n) : g[s] \in A
<1> DEFINE T == {k \in 0..n : \E s \in SUBSET (1..k) : g[s] \notin A}
<1>1. SUFFICES T = {}
  <2>1. n \in 0..n
    OBVIOUS
  <2> QED
    BY <2>1, Zenon
<1>2. SUFFICES ASSUME T # {} PROVE FALSE
  OBVIOUS
<1>3. PICK k \in T : \A j \in T : k <= j
  <2>1. T \in SUBSET Nat
    OBVIOUS
  <2> QED
    BY <1>2, <2>1, NatMin
<1>4. PICK s \in SUBSET (1..k) : g[s] \notin A
  BY <1>3
<1>5. k \in Nat /\ k <= n /\ s \in SUBSET (1..n)
  BY <1>3
<1>6. s # {}
  BY <1>4
<1>7. k # 0 /\ k - 1 \in Nat /\ s \ {Max(s)} \in SUBSET (1..(k - 1))
  BY <1>5, <1>6, WithoutMax
<1>8. k - 1 \in 0..n /\ k - 1 \notin T
  <2>1. k - 1 \in 0..n /\ ~(k <= k - 1)
    BY <1>5, <1>7
  <2> QED
    BY <1>3, <2>1, Zenon
<1>9. g[s \ {Max(s)}] \in A
  BY <1>7, <1>8, Zenon
<1> QED
  BY <1>4, <1>5, <1>6, <1>9

\* What the fold of q up to n with the steps of G, from b on, is on the sets of indices.
Folds(g, G, b, q, n) ==
    \A s \in SUBSET (1..n) :
        g[s] = IF s = {} THEN b ELSE G[<<g[s \ {Max(s)}], q[Max(s)]>>]

LEMMA FoldExists ==
  ASSUME NEW A, NEW D, NEW G \in [A \X D -> A], NEW b \in A, NEW q \in Seq(D)
  PROVE  \E g \in [SUBSET (1..Len(q)) -> A] : Folds(g, G, b, q, Len(q))
<1> DEFINE Solves(g, n) == Folds(g, G, b, q, n)
           T == {n \in 0..Len(q) : \A g \in [SUBSET (1..n) -> A] : ~Solves(g, n)}
<1>1. SUFFICES T = {}
  <2>1. Len(q) \in 0..Len(q)
    OBVIOUS
  <2> HIDE DEF Solves
  <2>2. \E g \in [SUBSET (1..Len(q)) -> A] : Solves(g, Len(q))
    BY <1>1, <2>1, Zenon
  <2> QED
    BY <2>2, Zenon DEF Solves
<1>2. SUFFICES ASSUME T # {} PROVE FALSE
  OBVIOUS
<1> HIDE DEF Solves
<1>3. PICK n \in T : \A j \in T : n <= j
  <2>1. T \in SUBSET Nat
    OBVIOUS
  <2> QED
    BY <1>2, <2>1, NatMin
<1>4. n \in Nat /\ n <= Len(q) /\ \A g \in [SUBSET (1..n) -> A] : ~Solves(g, n)
  <2>1. n \in 0..Len(q) /\ \A g \in [SUBSET (1..n) -> A] : ~Solves(g, n)
    BY <1>3, Zenon
  <2>2. n \in Nat /\ n <= Len(q)
    <3> HIDE DEF T
    <3> QED
      BY <2>1
  <2> QED
    BY <2>1, <2>2, Zenon
<1>5. CASE n = 0
  <2> DEFINE h == [s \in SUBSET (1..n) |-> b]
  <2>1. h \in [SUBSET (1..n) -> A]
    OBVIOUS
  <2>2. Solves(h, n)
    <3>1. \A s \in SUBSET (1..n) : s = {}
      BY <1>5
    <3> QED
      BY <3>1 DEF Folds, Solves
  <2> QED
    BY <1>4, <2>1, <2>2
<1>6. CASE n # 0
  <2>1. n - 1 \in Nat /\ n - 1 \in 0..Len(q) /\ n - 1 \notin T
    <3>1. n - 1 \in Nat /\ n - 1 \in 0..Len(q) /\ ~(n <= n - 1)
      BY <1>4, <1>6
    <3> QED
      BY <1>3, <3>1, Zenon
  <2>2. PICK g \in [SUBSET (1..(n - 1)) -> A] : Solves(g, n - 1)
    BY <2>1, Zenon
  <2> DEFINE h == [s \in SUBSET (1..n) |->
                       IF n \in s THEN G[<<g[s \ {n}], q[n]>>] ELSE g[s]]
  <2>3. \A s \in SUBSET (1..n) : /\ s \ {n} \in SUBSET (1..(n - 1))
                                 /\ n \notin s => s \in SUBSET (1..(n - 1))
    <3>1. \A i \in 1..n : i # n => i \in 1..(n - 1)
      BY <1>4
    <3> QED
      BY <3>1
  <2>4. q[n] \in D
    BY <1>4, <1>6
  <2>5. h \in [SUBSET (1..n) -> A]
    <3> SUFFICES ASSUME NEW s \in SUBSET (1..n)
                 PROVE  (IF n \in s THEN G[<<g[s \ {n}], q[n]>>] ELSE g[s]) \in A
      OBVIOUS
    <3>1. CASE n \in s
      <4>1. g[s \ {n}] \in A
        BY <2>3
      <4> QED
        BY <2>4, <3>1, <4>1
    <3>2. CASE n \notin s
      BY <2>3, <3>2
    <3> QED
      BY <3>1, <3>2
  <2>6. Solves(h, n)
    <3> SUFFICES ASSUME NEW s \in SUBSET (1..n)
                 PROVE  h[s] = IF s = {} THEN b ELSE G[<<h[s \ {Max(s)}], q[Max(s)]>>]
      BY Zenon DEF Folds, Solves
    <3>1. CASE n \in s
      <4>1. Max(s) = n
        <5>1. Max(s) \in 1..n /\ n <= Max(s)
          BY <1>4, <3>1, MaxIn
        <5> QED
          BY <1>4, <5>1
      <4>2. h[s \ {n}] = g[s \ {n}] /\ h[s] = G[<<g[s \ {n}], q[n]>>] /\ s # {}
        BY <2>3, <3>1
      <4> QED
        BY <4>1, <4>2
    <3>2. CASE n \notin s
      <4>1. s \in SUBSET (1..(n - 1)) /\ s \ {Max(s)} \in SUBSET (1..n)
            /\ n \notin s \ {Max(s)}
        BY <2>3, <3>2
      <4>2. h[s] = g[s] /\ h[s \ {Max(s)}] = g[s \ {Max(s)}]
        BY <3>2, <4>1
      <4>3. g[s] = IF s = {} THEN b ELSE G[<<g[s \ {Max(s)}], q[Max(s)]>>]
        BY <2>2, <4>1, Zenon DEF Folds, Solves
      <4> QED
        BY <4>2, <4>3, Zenon
    <3> QED
      BY <3>1, <3>2
  <2> QED
    BY <1>4, <2>5, <2>6, Zenon
<1> QED
  BY <1>5, <1>6

\* Of a function that a fold defines on the sets of indices, what the prefixes give.
LEMMA FoldPrefixes ==
  ASSUME NEW n \in Nat, NEW k \in 1..n
  PROVE  /\ 1..k \in SUBSET (1..n) /\ 1..k # {} /\ Max(1..k) = k
         /\ (1..k) \ {Max(1..k)} = 1..(k - 1) /\ k - 1 \in 0..n /\ 1..0 = {}
<1>1. k \in Nat /\ k <= n /\ k \in 1..k /\ 1..k \in SUBSET (1..n) /\ 1..0 = {} /\ k - 1 \in 0..n
  OBVIOUS
<1>2. Max(1..k) \in 1..k /\ k <= Max(1..k)
  <2>1. 1..k \in SUBSET (1..k) /\ 1..k # {}
    BY <1>1, Zenon
  <2> QED
    BY <1>1, <2>1, MaxIn
<1>3. Max(1..k) = k
  BY <1>1, <1>2
<1>4. (1..k) \ {k} = 1..(k - 1)
  BY <1>1
<1> QED
  BY <1>1, <1>3, <1>4
=============================================================================
