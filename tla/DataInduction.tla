----------------------------- MODULE DataInduction -----------------------------
(***************************************************************************)
(* Induction and recursion over the natural numbers, said of sets and      *)
(* functions instead of operators, so that the proofs about the folds and  *)
(* recursive functions of the modules can cite them.  They rest on < being *)
(* well-founded on Nat, as the library proves.                             *)
(***************************************************************************)
EXTENDS Integers, WellFoundedInduction, FiniteSetTheorems, TLAPS

\* Every set of natural numbers that is not empty has a least element.
LEMMA LeastNatural ==
  ASSUME NEW T \in SUBSET Nat, T # {}
  PROVE  \E n \in T : \A m \in T : n <= m
<1> DEFINE R == {ss \in Nat \X Nat : ss[1] < ss[2]}
<1>1. IsWellFoundedOn(R, Nat)
  BY NatLessThanWellFounded DEF OpToRel
<1>2. PICK n \in T : \A m \in T : ~ (<<m, n>> \in R)
  <2> HIDE DEF R
  <2>1. QED
    BY <1>1, WFMin
<1>3. \A m \in T : ~ (m < n)
  BY <1>2
<1>4. QED
  BY <1>3

\* A set of natural numbers with 0 and the successor of each element is Nat.
LEMMA NatSetInduction ==
  ASSUME NEW S \in SUBSET Nat, 0 \in S, \A n \in S : n + 1 \in S
  PROVE  S = Nat
<1> SUFFICES ASSUME Nat \ S # {} PROVE FALSE
  OBVIOUS
<1>1. PICK n \in Nat \ S : \A m \in Nat \ S : n <= m
  BY LeastNatural
<1>2. n # 0 /\ n - 1 \in S
  BY <1>1
<1>3. QED
  BY <1>1, <1>2

\* The same up to a bound.
LEMMA IntervalInduction ==
  ASSUME NEW N \in Nat, NEW S, 0 \in S, \A n \in 0..(N - 1) : n \in S => n + 1 \in S
  PROVE  0..N \subseteq S
<1> DEFINE G == {n \in Nat : n <= N => n \in S}
<1>1. 0 \in G /\ \A n \in G : n + 1 \in G
  OBVIOUS
<1>2. G = Nat
  <2> HIDE DEF G
  <2>1. QED
    BY <1>1, NatSetInduction DEF G
<1>3. QED
  BY <1>2

\* f is what N steps F[1] .. F[N] make of c, and of every value on the way.  The
\* definitions keep the lemmas' hypotheses and conclusions in one piece, which
\* is what the provers can instantiate.
Unfolds(f, c, F, N) == f[0] = c /\ \A k \in 1..N : f[k] = F[k][f[k - 1]]

StepsOn(S, N) == [1..N -> [S -> S]]

StaysIn(f, S, N) == f \in [0..N -> S]

SameSteps(f, g, N) == f[0] = g[0] /\ \A k \in 1..N : f[k - 1] = g[k - 1] => f[k] = g[k]

SameValues(f, g, N) == \A k \in 0..N : f[k] = g[k]

\* A function can be defined by recursion from a start and a step for each number.
LEMMA IntervalRecursion ==
  ASSUME NEW S, NEW c \in S, NEW N \in Nat, NEW F \in StepsOn(S, N)
  PROVE  \E f : StaysIn(f, S, N) /\ Unfolds(f, c, F, N)
<1> DEFINE Defines(h, n) == h[0] = c /\ \A k \in 1..n : h[k] = F[k][h[k - 1]]
           G == {n \in 0..N : \E h \in [0..n -> S] : Defines(h, n)}
<1> USE DEF StepsOn
<1>1. 0 \in G
  <2>1. [k \in 0..0 |-> c] \in [0..0 -> S] /\ Defines([k \in 0..0 |-> c], 0)
    OBVIOUS
  <2>2. \E h \in [0..0 -> S] : Defines(h, 0)
    BY <2>1
  <2> HIDE DEF Defines
  <2>3. QED
    BY <2>2
<1>2. ASSUME NEW n \in 0..(N - 1), n \in G PROVE n + 1 \in G
  <2>1. PICK h \in [0..n -> S] : Defines(h, n)
    BY <1>2
  <2> DEFINE g == [k \in 0..(n + 1) |-> IF k <= n THEN h[k] ELSE F[n + 1][h[n]]]
  <2>2. g \in [0..(n + 1) -> S]
    OBVIOUS
  <2>3. Defines(g, n + 1)
    <3>1. g[0] = c
      BY <2>1
    <3>2. ASSUME NEW k \in 1..(n + 1) PROVE g[k] = F[k][g[k - 1]]
      <4>1. CASE k <= n
        BY <2>1, <4>1
      <4>2. CASE k = n + 1
        BY <4>2
      <4>3. QED
        BY <4>1, <4>2
    <3>3. QED
      BY <3>1, <3>2
  <2> HIDE DEF g
  <2>4. QED
    BY <2>2, <2>3
<1>3. N \in G
  <2> HIDE DEF G
  <2>1. \A n \in 0..(N - 1) : n \in G => n + 1 \in G
    BY <1>2
  <2>2. 0..N \subseteq G
    BY <1>1, <2>1, IntervalInduction
  <2>3. QED
    BY <2>2
<1>4. QED
  BY <1>3 DEF StaysIn, Unfolds

\* Two functions that obey the same recursion are equal.
LEMMA IntervalUnique ==
  ASSUME NEW N \in Nat, NEW f, NEW g, SameSteps(f, g, N)
  PROVE  SameValues(f, g, N)
<1> DEFINE G == {k \in 0..N : f[k] = g[k]}
<1>1. 0 \in G /\ \A n \in 0..(N - 1) : n \in G => n + 1 \in G
  BY DEF SameSteps
<1>2. 0..N \subseteq G
  <2> HIDE DEF G
  <2>1. QED
    BY <1>1, IntervalInduction
<1>3. QED
  BY <1>2 DEF SameValues

-------------------------------------------------------------------------------
(* Sets that grow *)

Grows(F, U) == F \in [SUBSET U -> SUBSET U] /\ \A T \in SUBSET U : T \subseteq F[T]

Iterates(f, F, U, N) == f \in [0..N -> SUBSET U] /\ \A k \in 1..N : f[k] = F[f[k - 1]]

\* Sets that only grow stop growing after as many steps as there are elements.
LEMMA GrowthStops ==
  ASSUME NEW U, IsFiniteSet(U), NEW F, Grows(F, U), NEW f, Iterates(f, F, U, Cardinality(U))
  PROVE  F[f[Cardinality(U)]] = f[Cardinality(U)]
<1> DEFINE N == Cardinality(U)
           G == {k \in 0..N : F[f[k]] = f[k] \/ Cardinality(f[k]) >= k}
<1>1. N \in Nat
  BY FS_CardinalityType
<1>2. ASSUME NEW T \in SUBSET U
      PROVE  IsFiniteSet(T) /\ Cardinality(T) \in Nat /\ Cardinality(T) <= N
             /\ (Cardinality(T) = N => T = U)
  <2>1. IsFiniteSet(T) /\ Cardinality(T) <= Cardinality(U)
        /\ (Cardinality(U) = Cardinality(T) => U = T)
    BY FS_Subset
  <2>2. QED
    BY <2>1, FS_CardinalityType
<1>3. ASSUME NEW T \in SUBSET U, F[T] # T
      PROVE  Cardinality(F[T]) >= Cardinality(T) + 1
  <2>1. F[T] \in SUBSET U /\ T \in SUBSET F[T]
    BY DEF Grows
  <2>2. IsFiniteSet(F[T])
    BY <1>2, <2>1
  <2>3. Cardinality(T) <= Cardinality(F[T])
        /\ (Cardinality(F[T]) = Cardinality(T) => F[T] = T)
    BY <2>1, <2>2, FS_Subset
  <2>4. QED
    BY <1>2, <1>3, <2>1, <2>3
<1>4. 0 \in G
  BY <1>1, <1>2 DEF Iterates
<1>5. ASSUME NEW k \in 0..(N - 1), k \in G PROVE k + 1 \in G
  <2>1. f[k + 1] = F[f[k]] /\ f[k] \in SUBSET U /\ f[k + 1] \in SUBSET U
    BY <1>1 DEF Iterates
  <2>2. CASE F[f[k]] = f[k]
    BY <1>1, <2>1, <2>2
  <2>3. CASE F[f[k]] # f[k]
    <3>1. Cardinality(f[k]) >= k
      BY <1>5, <2>3
    <3>2. Cardinality(f[k + 1]) >= Cardinality(f[k]) + 1
      BY <1>3, <2>1, <2>3
    <3>3. Cardinality(f[k]) \in Nat /\ Cardinality(f[k + 1]) \in Nat
      BY <1>2, <2>1
    <3>4. QED
      BY <1>1, <3>1, <3>2, <3>3
  <2>4. QED
    BY <2>2, <2>3
<1>6. N \in G
  <2> HIDE DEF G
  <2>1. 0..N \subseteq G
    BY <1>1, <1>4, <1>5, IntervalInduction
  <2>2. QED
    BY <1>1, <2>1
<1>7. f[N] \in SUBSET U
  BY <1>1 DEF Iterates
<1>8. CASE Cardinality(f[N]) >= N
  <2>1. f[N] = U
    BY <1>1, <1>2, <1>7, <1>8
  <2>2. QED
    BY <2>1 DEF Grows
<1>9. QED
  BY <1>6, <1>8
===============================================================================
