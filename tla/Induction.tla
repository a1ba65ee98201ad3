----------------------------- MODULE Induction -----------------------------
(***************************************************************************)
(* Induction and recursion, stated for sets and functions in place of      *)
(* operators, so that a proof can use them for the set {n \in Nat : ...}   *)
(* or the function [x \in ... |-> ...] that it needs; the folds of the     *)
(* community modules: what they have in common, sums, and those over       *)
(* sequences; what gets smaller with every step; and remainders.           *)
(***************************************************************************)
EXTENDS Integers, FiniteSets, FiniteSetsExt, FiniteSetTheorems, WellFoundedInduction, TLAPS

\* Every set of natural numbers that is not empty has a least element.
LEMMA LeastNatural ==
    ASSUME NEW S \in SUBSET Nat, S # {}
    PROVE  \E m \in S : \A k \in S : m <= k
<1> DEFINE R == OpToRel(<, Nat)
<1>1. IsWellFoundedOn(R, Nat)
  BY NatLessThanWellFounded
<1>2. \A x, y \in Nat : x < y => <<x, y>> \in R
  BY DEF OpToRel
<1> HIDE DEF R
<1>3. PICK m \in S : \A k \in S : ~(<<k, m>> \in R)
  BY <1>1, WFMin
<1>4. ASSUME NEW k \in S PROVE m <= k
  <2>1. k \in Nat /\ m \in Nat
    OBVIOUS
  <2>2. ~(k < m)
    BY <1>2, <1>3, <2>1
  <2> QED
    BY <2>1, <2>2
<1> QED
  BY <1>4

\* A set of numbers that has 0 and every successor has them all.
LEMMA NumbersByInduction ==
    ASSUME NEW S \in SUBSET Nat, 0 \in S, \A n \in S : n + 1 \in S
    PROVE  S = Nat
<1> SUFFICES ASSUME S # Nat PROVE FALSE
  OBVIOUS
<1> DEFINE T == Nat \ S
<1>1. T \in SUBSET Nat /\ T # {}
  OBVIOUS
<1>2. PICK m \in T : \A k \in T : m <= k
  BY <1>1, LeastNatural
<1>3. m \in Nat /\ m # 0 /\ m \notin S
  BY <1>2
<1>4. m - 1 \in Nat /\ m - 1 \notin T
  BY <1>2, <1>3
<1>5. m - 1 + 1 \in S
  BY <1>4
<1> QED
  BY <1>3, <1>5

\* How the folds go over a set: c[T] is the element that is taken out of T, and
\* h combines it with what comes of the others.
FoldsOver(f, D, base, h, c) ==
    f = [T \in SUBSET D |-> IF T = {} THEN base ELSE h[<<c[T], f[T \ {c[T]}]>>]]

\* c takes an element out of each set but {}.
Chooses(c, D) == \A T \in (SUBSET D) \ {{}} : c[T] \in T

\* Such a function exists for every finite set.
LEMMA SubsetRecursion ==
    ASSUME NEW D, IsFiniteSet(D), NEW V, NEW base \in V, NEW h \in [D \X V -> V],
           NEW c, Chooses(c, D)
    PROVE  \E f \in [SUBSET D -> V] : FoldsOver(f, D, base, h, c)
<1> DEFINE Upto(n) == {T \in SUBSET D : Cardinality(T) <= n}
           Defines(f, n) ==
             \A T \in Upto(n) : f[T] = IF T = {} THEN base ELSE h[<<c[T], f[T \ {c[T]}]>>]
           Good == {n \in Nat : \E f \in [Upto(n) -> V] : Defines(f, n)}
<1>1. ASSUME NEW T \in SUBSET D
      PROVE  IsFiniteSet(T) /\ Cardinality(T) \in Nat /\ (Cardinality(T) = 0 <=> T = {})
  BY FS_Subset, FS_CardinalityType, FS_EmptySet
<1>2. ASSUME NEW T \in SUBSET D, T # {}
      PROVE  /\ T \ {c[T]} \in SUBSET D
             /\ Cardinality(T \ {c[T]}) = Cardinality(T) - 1
  BY <1>1, <1>2, FS_RemoveElement DEF Chooses
<1>3. 0 \in Good
  <2> DEFINE f == [T \in Upto(0) |-> base]
  <2>1. f \in [Upto(0) -> V]
    OBVIOUS
  <2>2. \A T \in Upto(0) : T = {}
    BY <1>1
  <2>3. Defines(f, 0)
    BY <2>2
  <2> QED
    BY <2>1, <2>3
<1>4. ASSUME NEW n \in Good PROVE n + 1 \in Good
  <2>1. n \in Nat
    OBVIOUS
  <2>2. PICK f \in [Upto(n) -> V] : Defines(f, n)
    OBVIOUS
  <2> DEFINE g == [T \in Upto(n + 1) |->
                     IF T = {} THEN base ELSE h[<<c[T], f[T \ {c[T]}]>>]]
  <2>3. ASSUME NEW T \in Upto(n + 1), T # {}
        PROVE  T \ {c[T]} \in Upto(n) /\ c[T] \in D
    BY <1>1, <1>2, <2>1, <2>3 DEF Chooses
  <2>4. g \in [Upto(n + 1) -> V]
    BY <2>3
  <2>5. ASSUME NEW T \in Upto(n) PROVE T \in Upto(n + 1) /\ g[T] = f[T]
    <3>1. T \in Upto(n + 1)
      BY <1>1, <2>1
    <3> QED
      BY <2>2, <3>1
  <2>6. Defines(g, n + 1)
    <3> SUFFICES ASSUME NEW T \in Upto(n + 1), T # {}
                 PROVE  g[T] = h[<<c[T], g[T \ {c[T]}]>>]
      OBVIOUS
    <3>1. g[T \ {c[T]}] = f[T \ {c[T]}]
      BY <2>3, <2>5
    <3> QED
      BY <3>1
  <2> HIDE DEF g, Upto, Defines
  <2> QED
    BY <2>1, <2>4, <2>6
<1>5. Cardinality(D) \in Nat
  BY FS_CardinalityType
<1>6. Cardinality(D) \in Good
  <2>1. Good \in SUBSET Nat
    OBVIOUS
  <2> HIDE DEF Good
  <2> QED
    BY <1>3, <1>4, <1>5, <2>1, NumbersByInduction
<1>7. Upto(Cardinality(D)) = SUBSET D
  BY FS_Subset
<1>8. PICK f \in [SUBSET D -> V] : Defines(f, Cardinality(D))
  BY <1>6, <1>7
<1>9. FoldsOver(f, D, base, h, c)
  BY <1>7, <1>8 DEF FoldsOver
<1> QED
  BY <1>9

\* G has {}, and every set that is in G without the element c takes.
Grows(G, D, c) == {} \in G /\ \A T \in (SUBSET D) \ {{}} : T \ {c[T]} \in G => T \in G

\* A set of subsets that has {} and with T \ {c[T]} also T has them all.
LEMMA SubsetInduction ==
    ASSUME NEW D, IsFiniteSet(D), NEW G \in SUBSET SUBSET D,
           NEW c, Chooses(c, D), Grows(G, D, c)
    PROVE  G = SUBSET D
<1> DEFINE Good == {n \in Nat : \A T \in SUBSET D : Cardinality(T) = n => T \in G}
<1>1. ASSUME NEW T \in SUBSET D
      PROVE  IsFiniteSet(T) /\ Cardinality(T) \in Nat /\ (Cardinality(T) = 0 <=> T = {})
  BY FS_Subset, FS_CardinalityType, FS_EmptySet
<1>2. 0 \in Good
  BY <1>1 DEF Grows
<1>3. ASSUME NEW n \in Good PROVE n + 1 \in Good
  <2> SUFFICES ASSUME NEW T \in SUBSET D, Cardinality(T) = n + 1 PROVE T \in G
    OBVIOUS
  <2>1. n \in Nat /\ T # {} /\ IsFiniteSet(T)
    BY <1>1
  <2>2. c[T] \in T
    BY <2>1 DEF Chooses
  <2>3. Cardinality(T \ {c[T]}) = n
    <3>1. Cardinality(T \ {c[T]}) = Cardinality(T) - 1
      BY <2>1, <2>2, FS_RemoveElement
    <3> QED
      BY <2>1, <3>1
  <2>4. T \ {c[T]} \in G
    BY <2>3
  <2> QED
    BY <2>1, <2>4 DEF Grows
<1>4. Good = Nat
  <2>1. Good \in SUBSET Nat
    OBVIOUS
  <2> HIDE DEF Good
  <2> QED
    BY <1>2, <1>3, <2>1, NumbersByInduction
<1> QED
  BY <1>1, <1>4

\* What a fold returns is of the kind that base and h are.
LEMMA FoldType ==
    ASSUME NEW D, IsFiniteSet(D), NEW V, NEW base \in V, NEW h \in [D \X V -> V],
           NEW c, Chooses(c, D),
           NEW f, FoldsOver(f, D, base, h, c)
    PROVE  f \in [SUBSET D -> V]
<1> DEFINE G == {T \in SUBSET D : f[T] \in V}
<1>1. f = [T \in SUBSET D |-> IF T = {} THEN base ELSE h[<<c[T], f[T \ {c[T]}]>>]]
  BY DEF FoldsOver
<1>2. G \in SUBSET SUBSET D /\ {} \in G
  BY <1>1
<1>3. ASSUME NEW T \in (SUBSET D) \ {{}}, T \ {c[T]} \in G PROVE T \in G
  <2>1. c[T] \in D /\ f[T \ {c[T]}] \in V
    BY <1>3 DEF Chooses
  <2>2. f[T] = h[<<c[T], f[T \ {c[T]}]>>]
    BY <1>1
  <2> QED
    BY <2>1, <2>2
<1> HIDE DEF G
<1>4. Grows(G, D, c)
  BY <1>2, <1>3 DEF Grows
<1>5. G = SUBSET D
  BY <1>2, <1>4, SubsetInduction
<1> QED
  BY <1>1, <1>5 DEF G

\* On the subsets of E two functions are the same.
SameSubsets(c, d, E) == \A T \in (SUBSET E) \ {{}} : c[T] = d[T]

\* To the elements of E two functions do the same.
SameSteps(h, k, E, V) == \A x \in E, v \in V : h[<<x, v>>] = k[<<x, v>>]

\* Two folds that agree on what they do to the elements of E agree on E.
LEMMA FoldsAgree ==
    ASSUME NEW D, NEW E, NEW V, NEW base \in V, E \subseteq D, IsFiniteSet(D),
           NEW h \in [D \X V -> V], NEW c, NEW f, FoldsOver(f, D, base, h, c),
           NEW k, NEW d, NEW g, FoldsOver(g, E, base, k, d),
           Chooses(c, D), SameSubsets(c, d, E), SameSteps(h, k, E, V)
    PROVE  SameSubsets(f, g, E)
<1> DEFINE G == {T \in SUBSET E : f[T] = g[T]}
<1>1. f = [T \in SUBSET D |-> IF T = {} THEN base ELSE h[<<c[T], f[T \ {c[T]}]>>]]
  BY DEF FoldsOver
<1>2. g = [T \in SUBSET E |-> IF T = {} THEN base ELSE k[<<d[T], g[T \ {d[T]}]>>]]
  BY DEF FoldsOver
<1>3. G \in SUBSET SUBSET E /\ {} \in G
  BY <1>1, <1>2
<1>4. f \in [SUBSET D -> V]
  BY FoldType
<1>5. ASSUME NEW T \in (SUBSET E) \ {{}}, T \ {c[T]} \in G PROVE T \in G
  <2>1. T \in SUBSET D /\ T # {} /\ c[T] \in E /\ c[T] = d[T]
    BY DEF Chooses, SameSubsets
  <2>2. f[T \ {c[T]}] \in V /\ f[T \ {c[T]}] = g[T \ {c[T]}]
    BY <1>4, <1>5
  <2>3. f[T] = h[<<c[T], f[T \ {c[T]}]>>]
    BY <1>1, <2>1
  <2>4. g[T] = k[<<d[T], g[T \ {d[T]}]>>]
    BY <1>2
  <2>5. h[<<c[T], f[T \ {c[T]}]>>] = k[<<c[T], f[T \ {c[T]}]>>]
    BY <2>1, <2>2 DEF SameSteps
  <2> QED
    BY <2>1, <2>2, <2>3, <2>4, <2>5
<1>6. IsFiniteSet(E) /\ Chooses(c, E)
  BY FS_Subset DEF Chooses
<1> HIDE DEF G
<1>7. Grows(G, E, c)
  BY <1>3, <1>5 DEF Grows
<1>8. G = SUBSET E
  BY <1>3, <1>6, <1>7, SubsetInduction
<1> QED
  BY <1>8 DEF G, SameSubsets

-----------------------------------------------------------------------------
(* Recursion over numbers that get smaller.                                *)

\* d makes the numbers from lim on smaller.
Decreases(d, lim) == d \in [Nat -> Nat] /\ \A n \in Nat : n >= lim => d[n] < n

\* f[n] for the numbers up to m: base, or what h makes of f[d[n]].
DefinesUpto(f, m, lim, base, h, d) ==
    \A n \in 0..m : f[n] = IF n < lim THEN base[n] ELSE h[<<n, f[d[n]]>>]

\* The same for all numbers.
IsRecursion(f, lim, base, h, d) ==
    f = [n \in Nat |-> IF n < lim THEN base[n] ELSE h[<<n, f[d[n]]>>]]

LEMMA RecursionUnique ==
    ASSUME NEW lim \in Nat, NEW base, NEW h, NEW d, Decreases(d, lim),
           NEW k \in Nat, NEW m \in Nat, NEW f, NEW g,
           DefinesUpto(f, k, lim, base, h, d), DefinesUpto(g, m, lim, base, h, d)
    PROVE  \A n \in Nat : n <= k /\ n <= m => f[n] = g[n]
<1> DEFINE Bad == {n \in Nat : n <= k /\ n <= m /\ f[n] # g[n]}
<1> SUFFICES ASSUME Bad # {} PROVE FALSE
  OBVIOUS
<1>1. Bad \in SUBSET Nat
  OBVIOUS
<1>2. PICK n \in Bad : \A j \in Bad : n <= j
  BY <1>1, LeastNatural
<1>3. n \in Nat /\ n \in 0..k /\ n \in 0..m /\ f[n] # g[n]
  OBVIOUS
<1>4. CASE n < lim
  BY <1>3, <1>4 DEF DefinesUpto
<1>5. CASE n >= lim
  <2>1. d[n] \in Nat /\ d[n] < n /\ ~(n < lim)
    BY <1>3, <1>5 DEF Decreases
  <2>2. d[n] \notin Bad
    BY <1>2, <1>3, <2>1
  <2>3. f[d[n]] = g[d[n]]
    BY <1>3, <2>1, <2>2
  <2> QED
    BY <1>3, <2>1, <2>3 DEF DefinesUpto
<1> QED
  BY <1>3, <1>4, <1>5

LEMMA RecursionExists ==
    ASSUME NEW lim \in Nat, NEW V, NEW base \in [0..(lim - 1) -> V],
           NEW h \in [Nat \X V -> V], NEW d, Decreases(d, lim)
    PROVE  \E f \in [Nat -> V] : IsRecursion(f, lim, base, h, d)
<1> DEFINE Defines(f, m) == DefinesUpto(f, m, lim, base, h, d)
           Good == {m \in Nat : \E f \in [0..m -> V] : Defines(f, m)}
<1>1. ASSUME NEW n \in Nat, n < lim PROVE base[n] \in V
  <2>1. n \in 0..(lim - 1)
    BY <1>1
  <2> QED
    BY <2>1
<1>2. 0 \in Good
  <2>1. lim > 0
    <3> SUFFICES ASSUME lim = 0 PROVE FALSE
      OBVIOUS
    <3> QED
      BY DEF Decreases
  <2>2. base[0] \in V
    BY <1>1, <2>1
  <2> DEFINE f == [n \in 0..0 |-> base[0]]
  <2>3. f \in [0..0 -> V]
    BY <2>2
  <2>4. Defines(f, 0)
    <3>1. \A n \in 0..0 : n = 0
      OBVIOUS
    <3> QED
      BY <2>1, <3>1 DEF DefinesUpto
  <2> HIDE DEF Defines, f
  <2> QED
    BY <2>3, <2>4
<1>3. ASSUME NEW m \in Good PROVE m + 1 \in Good
  <2>1. m \in Nat
    OBVIOUS
  <2>2. PICK f \in [0..m -> V] : Defines(f, m)
    OBVIOUS
  <2> DEFINE last == IF m + 1 < lim THEN base[m + 1] ELSE h[<<m + 1, f[d[m + 1]]>>]
             g == [n \in 0..(m + 1) |-> IF n <= m THEN f[n] ELSE last]
  <2>3. ASSUME NEW n \in 0..(m + 1), n >= lim PROVE d[n] \in 0..m /\ d[n] < n
    <3>2. n \in Nat /\ n <= m + 1
      BY <2>1
    <3>1. d[n] \in Nat /\ d[n] < n
      BY <2>3, <3>2 DEF Decreases
    <3> QED
      BY <2>1, <3>1, <3>2
  <2>4. last \in V
    <3>1. CASE m + 1 < lim
      BY <1>1, <2>1, <3>1
    <3>2. CASE m + 1 >= lim
      <4>1. m + 1 \in 0..(m + 1) /\ ~(m + 1 < lim)
        BY <2>1, <3>2
      <4>2. f[d[m + 1]] \in V
        BY <2>2, <2>3, <3>2, <4>1
      <4>3. h[<<m + 1, f[d[m + 1]]>>] \in V
        BY <2>1, <4>2
      <4> QED
        BY <4>1, <4>3
    <3> QED
      BY <2>1, <3>1, <3>2
  <2> HIDE DEF last
  <2>5. g \in [0..(m + 1) -> V]
    <3>1. \A n \in 0..(m + 1) : n <= m => n \in 0..m
      BY <2>1
    <3> QED
      BY <2>2, <2>4, <3>1
  <2>6. \A n \in 0..m : n \in 0..(m + 1) /\ n <= m /\ g[n] = f[n]
    BY <2>1
  <2>7. g[m + 1] = last
    BY <2>1
  <2> HIDE DEF g
  <2>8. ASSUME NEW n \in 0..(m + 1)
        PROVE  g[n] = IF n < lim THEN base[n] ELSE h[<<n, g[d[n]]>>]
    <3>1. n >= lim => g[d[n]] = f[d[n]]
      BY <2>3, <2>6
    <3>2. n < lim \/ n >= lim
      BY <2>1
    <3>3. CASE n \in 0..m
      <4>1. f[n] = IF n < lim THEN base[n] ELSE h[<<n, f[d[n]]>>]
        BY <2>2, <3>3 DEF DefinesUpto
      <4> QED
        BY <2>6, <3>1, <3>2, <3>3, <4>1
    <3>4. CASE n = m + 1
      BY <2>7, <3>1, <3>2, <3>4 DEF last
    <3> QED
      BY <2>1, <3>3, <3>4
  <2>9. Defines(g, m + 1)
    BY <2>8 DEF DefinesUpto
  <2> HIDE DEF Defines
  <2> QED
    BY <2>1, <2>5, <2>9
<1>4. Good = Nat
  <2>1. Good \in SUBSET Nat
    OBVIOUS
  <2> HIDE DEF Good
  <2> QED
    BY <1>2, <1>3, <2>1, NumbersByInduction
<1> DEFINE F(m) == CHOOSE f : f \in [0..m -> V] /\ Defines(f, m)
           all == [n \in Nat |-> F(n)[n]]
<1>5. ASSUME NEW m \in Nat PROVE F(m) \in [0..m -> V] /\ Defines(F(m), m)
  <2>1. \E f : f \in [0..m -> V] /\ Defines(f, m)
    BY <1>4
  <2> HIDE DEF Defines
  <2> QED
    BY <2>1
<1> HIDE DEF F
<1>6. ASSUME NEW m \in Nat, NEW n \in 0..m PROVE F(m)[n] = F(n)[n]
  <2>1. Defines(F(m), m) /\ Defines(F(n), n) /\ n \in Nat /\ n <= m /\ n <= n
    BY <1>5
  <2> QED
    BY <2>1, RecursionUnique
<1>7. all \in [Nat -> V]
  BY <1>5
<1>8. ASSUME NEW n \in Nat
      PROVE  all[n] = IF n < lim THEN base[n] ELSE h[<<n, all[d[n]]>>]
  <2>1. F(n)[n] = IF n < lim THEN base[n] ELSE h[<<n, F(n)[d[n]]>>]
    <3>1. Defines(F(n), n) /\ n \in 0..n
      BY <1>5
    <3> QED
      BY <3>1 DEF DefinesUpto
  <2>2. CASE n < lim
    BY <2>1, <2>2
  <2>3. CASE n >= lim
    <3>1. d[n] \in Nat /\ d[n] \in 0..n /\ ~(n < lim)
      BY <2>3 DEF Decreases
    <3>2. F(n)[d[n]] = all[d[n]]
      BY <1>6, <3>1
    <3> QED
      BY <2>1, <3>1, <3>2
  <2> QED
    BY <2>2, <2>3
<1> HIDE DEF all
<1>9. all = [n \in Nat |-> all[n]]
  BY <1>7
<1>10. IsRecursion(all, lim, base, h, d)
  BY <1>8, <1>9 DEF IsRecursion
<1> QED
  BY <1>7, <1>10

-----------------------------------------------------------------------------
(* FoldSet, and sums.                                                      *)

\* What FoldSet chooses.
Chosen(S) == [T \in SUBSET S |-> CHOOSE x \in T : TRUE]

LEMMA ChosenChooses == \A S : Chooses(Chosen(S), S)
BY DEF Chosen, Chooses

SumOf(f, S) == FoldSet(LAMBDA k, sum : sum + f[k], 0, S)

\* What SumOf does with an element.
Adding(f, S) == [p \in S \X Int |-> p[2] + f[p[1]]]

\* iter does what such a fold does, as long as it stays in V.
Follows(iter, S, V, base, h) ==
    /\ iter[{}] = base
    /\ \A T \in (SUBSET S) \ {{}} :
         LET rest == iter[T \ {Chosen(S)[T]}]
         IN rest \in V => iter[T] = h[<<Chosen(S)[T], rest>>]

\* iter is the fold with h.
IsFold(iter, S, V, base, h) ==
    \E F \in [SUBSET S -> V] :
      /\ FoldsOver(F, S, base, h, Chosen(S))
      /\ \A T \in SUBSET S : iter[T] = F[T]

\* Such a fold exists, and iter is this fold.
LEMMA FollowsFold ==
    ASSUME NEW S, IsFiniteSet(S), NEW V, NEW base \in V, NEW h \in [S \X V -> V],
           NEW iter, Follows(iter, S, V, base, h)
    PROVE  IsFold(iter, S, V, base, h)
<1> DEFINE c == Chosen(S)
<1>1. Chooses(c, S)
  BY ChosenChooses
<1> HIDE DEF c
<1>2. PICK F \in [SUBSET S -> V] : FoldsOver(F, S, base, h, c)
  BY <1>1, SubsetRecursion
<1> DEFINE G == {T \in SUBSET S : iter[T] = F[T]}
<1>3. F = [T \in SUBSET S |-> IF T = {} THEN base ELSE h[<<c[T], F[T \ {c[T]}]>>]]
  BY <1>2 DEF FoldsOver
<1>4. G \in SUBSET SUBSET S /\ {} \in G
  BY <1>3 DEF Follows
<1>5. ASSUME NEW T \in (SUBSET S) \ {{}}, T \ {c[T]} \in G PROVE T \in G
  <2>1. F[T \ {c[T]}] \in V /\ iter[T \ {c[T]}] = F[T \ {c[T]}]
    BY <1>2, <1>5
  <2>2. iter[T] = h[<<c[T], F[T \ {c[T]}]>>]
    BY <2>1 DEF Follows, c
  <2>3. F[T] = h[<<c[T], F[T \ {c[T]}]>>]
    BY <1>3
  <2> QED
    BY <2>2, <2>3
<1> HIDE DEF G
<1>6. Grows(G, S, c)
  BY <1>4, <1>5 DEF Grows
<1>7. G = SUBSET S
  BY <1>1, <1>4, <1>6, SubsetInduction
<1> QED
  BY <1>2, <1>7 DEF G, c, IsFold

\* A sum is a fold.
LEMMA SumFolds ==
    ASSUME NEW S, IsFiniteSet(S), NEW f, \A x \in S : f[x] \in Int
    PROVE  \E F \in [SUBSET S -> Int] :
             /\ FoldsOver(F, S, 0, Adding(f, S), Chosen(S))
             /\ SumOf(f, S) = F[S]
<1> DEFINE Is(F) == F = [T \in SUBSET S |->
                          IF T = {} THEN 0 ELSE F[T \ {CHOOSE x \in T : TRUE}] + f[CHOOSE x \in T : TRUE]]
           iter == CHOOSE F : Is(F)
<1>1. SumOf(f, S) = iter[S]
  BY DEF SumOf, FoldSet, MapThenFoldSet
<1>2. Adding(f, S) \in [S \X Int -> Int]
  BY DEF Adding
<1>3. Chooses(Chosen(S), S)
  BY ChosenChooses
<1> DEFINE zero == 0
           h == Adding(f, S)
           c == Chosen(S)
<1>4. PICK F \in [SUBSET S -> Int] : FoldsOver(F, S, 0, Adding(f, S), Chosen(S))
  <2>1. zero \in Int
    OBVIOUS
  <2> HIDE DEF zero, h, c
  <2>2. \E F \in [SUBSET S -> Int] : FoldsOver(F, S, zero, h, c)
    BY <1>2, <1>3, <2>1, SubsetRecursion DEF h, c
  <2> QED
    BY <2>2 DEF zero, h, c
<1>5. ASSUME NEW T \in SUBSET S, T # {}
      PROVE  /\ Chosen(S)[T] = CHOOSE x \in T : TRUE
             /\ Chosen(S)[T] \in S
             /\ \A v \in Int : Adding(f, S)[<<Chosen(S)[T], v>>] = v + f[Chosen(S)[T]]
  <2>1. Chosen(S)[T] = CHOOSE x \in T : TRUE
    BY DEF Chosen
  <2>2. Chosen(S)[T] \in S
    BY <1>3, <1>5 DEF Chooses
  <2> QED
    BY <2>1, <2>2 DEF Adding
<1>6. Is(F)
  <2>1. F = [T \in SUBSET S |-> IF T = {} THEN 0
                   ELSE Adding(f, S)[<<Chosen(S)[T], F[T \ {Chosen(S)[T]}]>>]]
    BY <1>4 DEF FoldsOver
  <2>2. ASSUME NEW T \in SUBSET S, T # {}
        PROVE  Adding(f, S)[<<Chosen(S)[T], F[T \ {Chosen(S)[T]}]>>]
                 = F[T \ {CHOOSE x \in T : TRUE}] + f[CHOOSE x \in T : TRUE]
    BY <1>4, <1>5, <2>2
  <2> QED
    BY <2>1, <2>2
<1>7. Is(iter)
  BY <1>6
<1>8. Follows(iter, S, Int, 0, Adding(f, S))
  <2> HIDE DEF iter
  <2>1. iter[{}] = 0
    BY <1>7
  <2>2. ASSUME NEW T \in (SUBSET S) \ {{}}, iter[T \ {Chosen(S)[T]}] \in Int
        PROVE  iter[T] = Adding(f, S)[<<Chosen(S)[T], iter[T \ {Chosen(S)[T]}]>>]
    <3>1. iter[T] = iter[T \ {Chosen(S)[T]}] + f[Chosen(S)[T]]
      <4>1. iter[T] = iter[T \ {CHOOSE x \in T : TRUE}] + f[CHOOSE x \in T : TRUE]
        BY <1>7
      <4>2. Chosen(S)[T] = CHOOSE x \in T : TRUE
        BY <1>5
      <4> QED
        BY <4>1, <4>2
    <3>2. Adding(f, S)[<<Chosen(S)[T], iter[T \ {Chosen(S)[T]}]>>]
            = iter[T \ {Chosen(S)[T]}] + f[Chosen(S)[T]]
      <4>1. \A v \in Int : Adding(f, S)[<<Chosen(S)[T], v>>] = v + f[Chosen(S)[T]]
        BY <1>5, <2>2
      <4>2. PICK v \in Int : v = iter[T \ {Chosen(S)[T]}]
        BY <2>2
      <4>3. Adding(f, S)[<<Chosen(S)[T], v>>] = v + f[Chosen(S)[T]]
        BY <4>1
      <4> QED
        BY <4>2, <4>3
    <3> QED
      BY <3>1, <3>2
  <2> QED
    BY <2>1, <2>2 DEF Follows
<1>9. zero \in Int
  OBVIOUS
<1> HIDE DEF iter, zero, h
<1>10. Follows(iter, S, Int, zero, h)
  BY <1>8 DEF zero, h
<1>11. IsFold(iter, S, Int, zero, h)
  <2>1. h \in [S \X Int -> Int]
    BY <1>2 DEF h
  <2> QED
    BY <1>9, <1>10, <2>1, FollowsFold
<1> QED
  BY <1>1, <1>11 DEF zero, h, IsFold

LEMMA SumEmpty == \A f : SumOf(f, {}) = 0
<1> SUFFICES ASSUME NEW f PROVE SumOf(f, {}) = 0
  OBVIOUS
<1>1. IsFiniteSet({}) /\ \A x \in {} : f[x] \in Int
  BY FS_EmptySet
<1>2. PICK F \in [SUBSET {} -> Int] :
        FoldsOver(F, {}, 0, Adding(f, {}), Chosen({})) /\ SumOf(f, {}) = F[{}]
  BY <1>1, SumFolds
<1> QED
  BY <1>2 DEF FoldsOver

LEMMA SumType ==
    ASSUME NEW S, IsFiniteSet(S), NEW f, \A x \in S : f[x] \in Int
    PROVE  SumOf(f, S) \in Int
<1>1. PICK F \in [SUBSET S -> Int] :
        FoldsOver(F, S, 0, Adding(f, S), Chosen(S)) /\ SumOf(f, S) = F[S]
  BY SumFolds
<1> QED
  BY <1>1

\* The sum as it is computed.
LEMMA SumStep ==
    ASSUME NEW S, IsFiniteSet(S), S # {}, NEW f, \A x \in S : f[x] \in Int
    PROVE  \E x \in S : SumOf(f, S) = SumOf(f, S \ {x}) + f[x]
<1> DEFINE x == Chosen(S)[S]
           E == S \ {x}
           zero == 0
           h == Adding(f, S)
           k == Adding(f, E)
           c == Chosen(S)
           d == Chosen(E)
<1>1. x \in S
  BY ChosenChooses DEF Chooses
<1>2. IsFiniteSet(E) /\ E \subseteq S
  BY FS_Subset
<1>3. PICK F \in [SUBSET S -> Int] :
        FoldsOver(F, S, 0, Adding(f, S), Chosen(S)) /\ SumOf(f, S) = F[S]
  BY SumFolds
<1>4. PICK G \in [SUBSET E -> Int] :
        FoldsOver(G, E, 0, Adding(f, E), Chosen(E)) /\ SumOf(f, E) = G[E]
  <2> HIDE DEF E
  <2> QED
    BY <1>2, SumFolds
<1>5. SameSubsets(F, G, E)
  <2>1. zero \in Int /\ h \in [S \X Int -> Int]
    BY DEF Adding
  <2>2. Chooses(c, S) /\ SameSubsets(c, d, E)
    <3> HIDE DEF E
    <3>1. Chooses(c, S)
      BY ChosenChooses
    <3>2. ASSUME NEW T \in (SUBSET E) \ {{}} PROVE c[T] = d[T]
      BY <1>2 DEF Chosen
    <3> QED
      BY <3>1, <3>2 DEF SameSubsets
  <2>3. SameSteps(h, k, E, Int)
    BY DEF Adding, SameSteps
  <2>4. FoldsOver(F, S, zero, h, c) /\ FoldsOver(G, E, zero, k, d)
    BY <1>3, <1>4
  <2> HIDE DEF zero, h, k, c, d, E
  <2> QED
    BY <1>2, <2>1, <2>2, <2>3, <2>4, FoldsAgree
<1>6. F[S] = h[<<x, F[E]>>]
  BY <1>3 DEF FoldsOver
<1>7. F[E] \in Int
  BY <1>2, <1>3
<1>8. F[S] = F[E] + f[x]
  <2> HIDE DEF x, E
  <2> QED
    BY <1>1, <1>6, <1>7 DEF Adding
<1>9. F[E] = G[E]
  <2> HIDE DEF E
  <2>1. E # {} => F[E] = G[E]
    BY <1>5 DEF SameSubsets
  <2>2. F[{}] = 0 /\ G[{}] = 0
    BY <1>3, <1>4 DEF FoldsOver
  <2> QED
    BY <2>1, <2>2
<1> QED
  BY <1>1, <1>3, <1>4, <1>8, <1>9

\* Any element can be taken out.
LEMMA SumRemove ==
    ASSUME NEW S, IsFiniteSet(S), NEW f, \A x \in S : f[x] \in Int, NEW x \in S
    PROVE  SumOf(f, S) = SumOf(f, S \ {x}) + f[x]
<1> DEFINE Good == {n \in Nat : \A T \in SUBSET S : Cardinality(T) = n =>
                      \A y \in T : SumOf(f, T) = SumOf(f, T \ {y}) + f[y]}
<1>1. ASSUME NEW T \in SUBSET S
      PROVE  /\ IsFiniteSet(T) /\ Cardinality(T) \in Nat /\ (Cardinality(T) = 0 <=> T = {})
             /\ SumOf(f, T) \in Int
             /\ \A y \in T : Cardinality(T \ {y}) = Cardinality(T) - 1
  <2>1. IsFiniteSet(T)
    BY FS_Subset
  <2>2. SumOf(f, T) \in Int
    BY <2>1, SumType
  <2> QED
    BY <2>1, <2>2, FS_CardinalityType, FS_EmptySet, FS_RemoveElement
<1>2. 0 \in Good
  BY <1>1
<1>3. ASSUME NEW n \in Good PROVE n + 1 \in Good
  <2> SUFFICES ASSUME NEW T \in SUBSET S, Cardinality(T) = n + 1, NEW y \in T
               PROVE  SumOf(f, T) = SumOf(f, T \ {y}) + f[y]
    OBVIOUS
  <2>1. n \in Nat /\ T # {} /\ IsFiniteSet(T)
    BY <1>1
  <2>2. PICK z \in T : SumOf(f, T) = SumOf(f, T \ {z}) + f[z]
    BY <2>1, SumStep
  <2>3. CASE z = y
    BY <2>2, <2>3
  <2>4. CASE z # y
    <3>1. /\ T \ {z} \in SUBSET S /\ y \in T \ {z}
          /\ T \ {y} \in SUBSET S /\ z \in T \ {y}
      BY <2>4
    <3>2. Cardinality(T \ {z}) = n /\ Cardinality(T \ {y}) = n
      <4>1. Cardinality(T \ {z}) = n + 1 - 1 /\ Cardinality(T \ {y}) = n + 1 - 1
        <5>1. \A w \in T : Cardinality(T \ {w}) = n + 1 - 1
          BY <1>1
        <5> QED
          BY <2>2, <5>1
      <4> QED
        BY <2>1, <4>1
    <3>3. SumOf(f, T \ {z}) = SumOf(f, (T \ {z}) \ {y}) + f[y]
      BY <3>1, <3>2
    <3>4. SumOf(f, T \ {y}) = SumOf(f, (T \ {y}) \ {z}) + f[z]
      BY <3>1, <3>2
    <3>5. (T \ {y}) \ {z} = (T \ {z}) \ {y} /\ (T \ {y}) \ {z} \in SUBSET S
      OBVIOUS
    <3>6. SumOf(f, (T \ {y}) \ {z}) \in Int /\ f[y] \in Int /\ f[z] \in Int
      BY <1>1, <3>5
    <3>7. SumOf(f, T) = SumOf(f, (T \ {y}) \ {z}) + f[y] + f[z]
      BY <2>2, <3>3, <3>5
    <3>8. SumOf(f, T \ {y}) + f[y] = SumOf(f, (T \ {y}) \ {z}) + f[z] + f[y]
      BY <3>4
    <3> HIDE DEF Good
    <3> QED
      BY <3>6, <3>7, <3>8
  <2> QED
    BY <2>3, <2>4
<1>4. Good = Nat
  <2>1. Good \in SUBSET Nat
    OBVIOUS
  <2> HIDE DEF Good
  <2> QED
    BY <1>2, <1>3, <2>1, NumbersByInduction
<1>5. Cardinality(S) \in Good
  BY <1>1, <1>4
<1> QED
  BY <1>5

\* The sum depends on the values on S only.
LEMMA SumAgree ==
    ASSUME NEW S, IsFiniteSet(S), NEW f, NEW g,
           \A x \in S : f[x] \in Int /\ g[x] = f[x]
    PROVE  SumOf(g, S) = SumOf(f, S)
<1> DEFINE c == Chosen(S)
           G == {T \in SUBSET S : SumOf(g, T) = SumOf(f, T)}
<1>1. Chooses(c, S)
  BY ChosenChooses
<1>2. {} \in G
  BY SumEmpty
<1>3. ASSUME NEW T \in (SUBSET S) \ {{}}, T \ {c[T]} \in G PROVE T \in G
  <2>1. IsFiniteSet(T) /\ c[T] \in T
    BY <1>1, FS_Subset DEF Chooses
  <2> HIDE DEF c
  <2>2. SumOf(f, T) = SumOf(f, T \ {c[T]}) + f[c[T]]
    BY <2>1, SumRemove
  <2>3. SumOf(g, T) = SumOf(g, T \ {c[T]}) + g[c[T]]
    BY <2>1, SumRemove
  <2> QED
    BY <1>3, <2>1, <2>2, <2>3
<1> HIDE DEF G, c
<1>4. Grows(G, S, c)
  BY <1>2, <1>3 DEF Grows
<1>5. G \in SUBSET SUBSET S
  BY DEF G
<1>6. G = SUBSET S
  BY <1>1, <1>4, <1>5, SubsetInduction
<1> QED
  BY <1>6 DEF G

\* A sum of natural numbers is one, and at least as large as each of them.
LEMMA SumNat ==
    ASSUME NEW S, IsFiniteSet(S), NEW f, \A x \in S : f[x] \in Nat
    PROVE  SumOf(f, S) \in Nat /\ \A x \in S : f[x] <= SumOf(f, S)
<1> DEFINE c == Chosen(S)
           G == {T \in SUBSET S : SumOf(f, T) \in Nat}
<1>1. Chooses(c, S)
  BY ChosenChooses
<1>2. {} \in G
  BY SumEmpty
<1>3. ASSUME NEW T \in (SUBSET S) \ {{}}, T \ {c[T]} \in G PROVE T \in G
  <2>1. IsFiniteSet(T) /\ c[T] \in T /\ \A x \in T : f[x] \in Int
    BY <1>1, FS_Subset DEF Chooses
  <2> HIDE DEF c
  <2>2. SumOf(f, T) = SumOf(f, T \ {c[T]}) + f[c[T]]
    BY <2>1, SumRemove
  <2> QED
    BY <1>3, <2>1, <2>2
<1> HIDE DEF G, c
<1>4. Grows(G, S, c)
  BY <1>2, <1>3 DEF Grows
<1>5. G \in SUBSET SUBSET S
  BY DEF G
<1>6. G = SUBSET S
  BY <1>1, <1>4, <1>5, SubsetInduction
<1>7. ASSUME NEW x \in S PROVE f[x] <= SumOf(f, S)
  <2>1. SumOf(f, S \ {x}) \in Nat /\ f[x] \in Nat
    BY <1>6 DEF G
  <2>2. \A y \in S : f[y] \in Int
    OBVIOUS
  <2>3. SumOf(f, S) = SumOf(f, S \ {x}) + f[x]
    BY <2>2, SumRemove
  <2> QED
    BY <2>1, <2>3
<1> QED
  BY <1>6, <1>7 DEF G

\* On S, f and g have integers, the same ones but for x.
SameBut(x, f, g, S) == \A y \in S : f[y] \in Int /\ g[y] \in Int /\ (y # x => g[y] = f[y])

\* The sum when one value changes.
LEMMA SumChange ==
    ASSUME NEW S, IsFiniteSet(S), NEW f, NEW g, NEW x \in S,
           SameBut(x, f, g, S)
    PROVE  SumOf(g, S) = SumOf(f, S) - f[x] + g[x]
<1>1. SumOf(f, S) = SumOf(f, S \ {x}) + f[x]
  BY SumRemove DEF SameBut
<1>2. SumOf(g, S) = SumOf(g, S \ {x}) + g[x]
  BY SumRemove DEF SameBut
<1> DEFINE E == S \ {x}
<1>3. IsFiniteSet(E) /\ \A y \in E : f[y] \in Int /\ g[y] = f[y]
  BY FS_Subset DEF SameBut
<1> HIDE DEF E
<1>4. SumOf(g, E) = SumOf(f, E) /\ SumOf(f, E) \in Int
  BY <1>3, SumAgree, SumType
<1>5. f[x] \in Int /\ g[x] \in Int
  BY DEF SameBut
<1> QED
  BY <1>1, <1>2, <1>4, <1>5 DEF E

\* The sum of the first numbers of a function.
LEMMA SumFirst ==
    ASSUME NEW n \in Nat, NEW f, \A k \in 0..n : f[k] \in Int
    PROVE  SumOf(f, 0..n) = SumOf(f, 0..(n - 1)) + f[n]
<1> DEFINE S == 0..n
<1>1. IsFiniteSet(S)
  BY FS_Interval
<1>2. n \in S /\ S \ {n} = 0..(n - 1) /\ \A k \in S : f[k] \in Int
  OBVIOUS
<1> HIDE DEF S
<1>3. SumOf(f, S) = SumOf(f, S \ {n}) + f[n]
  BY <1>1, <1>2, SumRemove
<1> QED
  BY <1>2, <1>3 DEF S

\* b takes the elements of S to different ones, and f has integers there.
OneToOne(b, S, f) ==
    /\ \A x, y \in S : b[x] = b[y] => x = y
    /\ \A x \in S : f[b[x]] \in Int

\* A sum over other indices.
LEMMA SumReindex ==
    ASSUME NEW S, IsFiniteSet(S), NEW b, NEW f, NEW g, OneToOne(b, S, f),
           \A x \in S : g[x] = f[b[x]]
    PROVE  SumOf(g, S) = SumOf(f, {b[x] : x \in S})
<1> DEFINE c == Chosen(S)
           Image(T) == {b[x] : x \in T}
           G == {T \in SUBSET S : SumOf(g, T) = SumOf(f, Image(T))}
<1>1. Chooses(c, S)
  BY ChosenChooses
<1>2. {} \in G
  BY SumEmpty
<1>3. ASSUME NEW T \in (SUBSET S) \ {{}}, T \ {c[T]} \in G PROVE T \in G
  <2>1. IsFiniteSet(T) /\ c[T] \in T
    BY <1>1, FS_Subset DEF Chooses
  <2> HIDE DEF c
  <2>2. \A x \in T : g[x] \in Int
    BY DEF OneToOne
  <2>3. SumOf(g, T) = SumOf(g, T \ {c[T]}) + g[c[T]]
    BY <2>1, <2>2, SumRemove
  <2>4. IsFiniteSet(Image(T))
    <3> DEFINE h == [x \in T |-> b[x]]
    <3>1. h \in Surjection(T, Image(T))
      BY DEF Surjection
    <3> HIDE DEF h
    <3> QED
      BY <2>1, <3>1, FS_Surjection
  <2>5. Image(T \ {c[T]}) = Image(T) \ {b[c[T]]} /\ b[c[T]] \in Image(T)
    BY <2>1 DEF OneToOne
  <2>6. \A y \in Image(T) : f[y] \in Int
    BY DEF OneToOne
  <2>7. SumOf(g, T \ {c[T]}) = SumOf(f, Image(T \ {c[T]}))
    BY <1>3
  <2>8. g[c[T]] = f[b[c[T]]]
    BY <2>1
  <2> HIDE DEF Image
  <2>9. SumOf(f, Image(T)) = SumOf(f, Image(T) \ {b[c[T]]}) + f[b[c[T]]]
    BY <2>4, <2>5, <2>6, SumRemove
  <2> QED
    BY <2>3, <2>5, <2>7, <2>8, <2>9
<1> HIDE DEF G, c
<1>4. Grows(G, S, c)
  BY <1>2, <1>3 DEF Grows
<1>5. G \in SUBSET SUBSET S
  BY DEF G
<1>6. G = SUBSET S
  BY <1>1, <1>4, <1>5, SubsetInduction
<1> QED
  BY <1>6 DEF G

-----------------------------------------------------------------------------
(* Folds over a sequence, from left to right.                              *)

\* A set of numbers up to n that is not empty has a greatest one.
LEMMA GreatestOfSome ==
    ASSUME NEW n \in Nat, NEW S \in SUBSET (1..n), S # {}
    PROVE  Max(S) \in S /\ \A k \in S : k <= Max(S)
<1> DEFINE T == {n - k : k \in S}
<1>1. T \in SUBSET Nat /\ T # {}
  <2>1. \A k \in S : n - k \in Nat
    OBVIOUS
  <2> QED
    BY <2>1
<1>2. PICK m \in T : \A k \in T : m <= k
  BY <1>1, LeastNatural
<1>3. PICK x \in S : m = n - x
  BY <1>2
<1>4. ASSUME NEW k \in S PROVE x >= k
  <2>1. n - k \in T /\ m <= n - k
    BY <1>2
  <2> QED
    BY <1>3, <2>1
<1>5. Max(S) \in S /\ \A k \in S : Max(S) >= k
  BY <1>4 DEF Max
<1> QED
  BY <1>5

LEMMA GreatestOfAll ==
    ASSUME NEW n \in Nat, n > 0
    PROVE  Max(1..n) = n /\ (1..n) \ {n} = 1..(n - 1)
<1>1. 1..n # {} /\ n \in 1..n
  OBVIOUS
<1>2. Max(1..n) \in 1..n /\ n <= Max(1..n)
  BY <1>1, GreatestOfSome
<1> QED
  BY <1>2

\* Takes the greatest number.
Greatest(n) == [T \in SUBSET (1..n) |-> Max(T)]

LEMMA GreatestChooses == \A n \in Nat : Chooses(Greatest(n), 1..n)
BY GreatestOfSome DEF Greatest, Chooses

\* What comes of the fold over each prefix.
Steps(s, n, V, base, h) ==
    /\ s \in [0..n -> V] /\ s[0] = base
    /\ \A k \in 1..n : s[k] = h[<<k, s[k - 1]>>]

\* iter folds over sets as FoldLeft does, as long as it stays in V.
FoldsLeft(iter, n, V, base, h) ==
    /\ iter[{}] = base
    /\ \A T \in (SUBSET (1..n)) \ {{}} :
         iter[T \ {Max(T)}] \in V => iter[T] = h[<<Max(T), iter[T \ {Max(T)}]>>]

\* f is the fold from left to right.
IsLeftFold(f, n, base, h) ==
    f = [T \in SUBSET (1..n) |-> IF T = {} THEN base ELSE h[<<Max(T), f[T \ {Max(T)}]>>]]

\* What it gives for the first elements.
PrefixFolds(iter, n) == [k \in 0..n |-> iter[1..k]]

LEMMA LeftFoldExists ==
    ASSUME NEW n \in Nat, NEW V, NEW base \in V, NEW h \in [(1..n) \X V -> V]
    PROVE  \E f \in [SUBSET (1..n) -> V] : IsLeftFold(f, n, base, h)
<1> DEFINE D == 1..n
           c == Greatest(n)
<1>1. IsFiniteSet(D)
  BY FS_Interval
<1>2. Chooses(c, D)
  BY GreatestChooses
<1>3. PICK f \in [SUBSET D -> V] : FoldsOver(f, D, base, h, c)
  <2> HIDE DEF D, c
  <2> QED
    BY <1>1, <1>2, SubsetRecursion DEF D
<1>4. \A T \in SUBSET D : c[T] = Max(T)
  BY DEF Greatest
<1> HIDE DEF c
<1>5. IsLeftFold(f, n, base, h)
  BY <1>3, <1>4 DEF FoldsOver, IsLeftFold
<1> QED
  BY <1>5

LEMMA LeftFoldSteps ==
    ASSUME NEW n \in Nat, NEW V, NEW base \in V, NEW h \in [(1..n) \X V -> V],
           NEW iter, FoldsLeft(iter, n, V, base, h)
    PROVE  Steps(PrefixFolds(iter, n), n, V, base, h)
<1> DEFINE s == [k \in 0..n |-> iter[1..k]]
<1>1. s[0] = base
  <2>1. 1..0 = {}
    OBVIOUS
  <2> QED
    BY <2>1 DEF FoldsLeft
<1>2. ASSUME NEW k \in 1..n, s[k - 1] \in V PROVE s[k] = h[<<k, s[k - 1]>>]
  <2>1. k \in Nat /\ k > 0 /\ 1..k \in SUBSET (1..n) /\ 1..k # {}
    OBVIOUS
  <2>2. Max(1..k) = k /\ (1..k) \ {k} = 1..(k - 1)
    BY <2>1, GreatestOfAll
  <2>3. k \in 0..n /\ k - 1 \in 0..n
    OBVIOUS
  <2>4. iter[1..(k - 1)] \in V
    BY <1>2, <2>3
  <2>5. iter[1..k] = h[<<k, iter[1..(k - 1)]>>]
    BY <2>1, <2>2, <2>4 DEF FoldsLeft
  <2> QED
    BY <2>3, <2>5
<1> HIDE DEF s
<1> DEFINE Good == {k \in Nat : k <= n => s[k] \in V}
<1>3. 0 \in Good
  BY <1>1
<1>4. ASSUME NEW k \in Good PROVE k + 1 \in Good
  <2> SUFFICES ASSUME k + 1 <= n PROVE s[k + 1] \in V
    OBVIOUS
  <2>1. k + 1 \in 1..n /\ (k + 1) - 1 = k /\ s[k] \in V
    OBVIOUS
  <2>2. s[k + 1] = h[<<k + 1, s[k]>>]
    BY <1>2, <2>1
  <2> QED
    BY <2>1, <2>2
<1>5. Good = Nat
  <2>1. Good \in SUBSET Nat
    OBVIOUS
  <2> HIDE DEF Good
  <2> QED
    BY <1>3, <1>4, <2>1, NumbersByInduction
<1>6. \A k \in 0..n : s[k] \in V
  BY <1>5
<1>7. s \in [0..n -> V]
  BY <1>6 DEF s
<1>8. ASSUME NEW k \in 1..n PROVE s[k] = h[<<k, s[k - 1]>>]
  <2>1. k - 1 \in 0..n
    OBVIOUS
  <2> QED
    BY <1>2, <1>6, <2>1
<1> QED
  BY <1>1, <1>7, <1>8 DEF Steps, s, PrefixFolds

\* Two folds that start and go on alike are the same so far.
LEMMA StepsAgree ==
    ASSUME NEW m \in Nat, NEW n \in Nat, NEW V, NEW base, NEW s, NEW h, NEW t, NEW g,
           Steps(s, n, V, base, h), Steps(t, m, V, base, g),
           m <= n, SameSteps(h, g, 1..m, V)
    PROVE  s[m] = t[m]
<1> DEFINE Good == {k \in Nat : k <= m => s[k] = t[k] /\ t[k] \in V}
<1>1. 0 \in Good
  BY DEF Steps
<1>2. ASSUME NEW k \in Good PROVE k + 1 \in Good
  <2> SUFFICES ASSUME k + 1 <= m PROVE s[k + 1] = t[k + 1] /\ t[k + 1] \in V
    OBVIOUS
  <2>1. /\ k + 1 \in 1..m /\ k + 1 \in 1..n /\ k + 1 \in 0..m /\ (k + 1) - 1 = k
        /\ s[k] = t[k] /\ t[k] \in V
    OBVIOUS
  <2>2. s[k + 1] = h[<<k + 1, s[k]>>] /\ t[k + 1] = g[<<k + 1, t[k]>>] /\ t[k + 1] \in V
    BY <2>1 DEF Steps
  <2>3. h[<<k + 1, t[k]>>] = g[<<k + 1, t[k]>>]
    BY <2>1 DEF SameSteps
  <2> QED
    BY <2>1, <2>2, <2>3
<1>3. Good = Nat
  <2>1. Good \in SUBSET Nat
    OBVIOUS
  <2> HIDE DEF Good
  <2> QED
    BY <1>1, <1>2, <2>1, NumbersByInduction
<1> QED
  BY <1>3

-----------------------------------------------------------------------------
(* What gets smaller with every step.                                      *)

\* Of two lists of numbers of the same length a is smaller where they first
\* differ.
Shrinks(a, b) == \E i \in DOMAIN b : a[i] < b[i] /\ \A j \in 1..(i - 1) : a[j] = b[j]

\* The places of a list of five.
LEMMA ShrinksAt ==
    ASSUME NEW a \in [1..5 -> Nat], NEW b \in [1..5 -> Nat],
           \/ a[1] < b[1]
           \/ a[1] = b[1] /\ a[2] < b[2]
           \/ a[1] = b[1] /\ a[2] = b[2] /\ a[3] < b[3]
           \/ a[1] = b[1] /\ a[2] = b[2] /\ a[3] = b[3] /\ a[4] < b[4]
           \/ a[1] = b[1] /\ a[2] = b[2] /\ a[3] = b[3] /\ a[4] = b[4] /\ a[5] < b[5]
    PROVE  Shrinks(a, b)
<1>1. ASSUME NEW i \in 1..5, a[i] < b[i], \A j \in 1..(i - 1) : a[j] = b[j]
      PROVE  Shrinks(a, b)
  BY <1>1 DEF Shrinks
<1>2. /\ \A j \in 1..(1 - 1) : FALSE
      /\ \A j \in 1..(2 - 1) : j = 1
      /\ \A j \in 1..(3 - 1) : j \in {1, 2}
      /\ \A j \in 1..(4 - 1) : j \in {1, 2, 3}
      /\ \A j \in 1..(5 - 1) : j \in {1, 2, 3, 4}
  OBVIOUS
<1>3. CASE a[1] < b[1]
  BY <1>1, <1>2, <1>3
<1>4. CASE a[1] = b[1] /\ a[2] < b[2]
  BY <1>1, <1>2, <1>4
<1>5. CASE a[1] = b[1] /\ a[2] = b[2] /\ a[3] < b[3]
  BY <1>1, <1>2, <1>5
<1>6. CASE a[1] = b[1] /\ a[2] = b[2] /\ a[3] = b[3] /\ a[4] < b[4]
  BY <1>1, <1>2, <1>6
<1>7. CASE a[1] = b[1] /\ a[2] = b[2] /\ a[3] = b[3] /\ a[4] = b[4] /\ a[5] < b[5]
  BY <1>1, <1>2, <1>7
<1> QED
  BY <1>3, <1>4, <1>5, <1>6, <1>7

\* No run consists of such steps for ever.
LEMMA NoEndlessShrinking ==
    ASSUME NEW n \in Nat, NEW f \in [Nat -> [1..n -> Nat]]
    PROVE  \E k \in Nat : ~Shrinks(f[k + 1], f[k])
<1> DEFINE Less == OpToRel(<, Nat)
           R == LexProductOrdering(Less, Nat, n)
<1>1. IsWellFoundedOn(Less, Nat)
  BY NatLessThanWellFounded
<1>2. \A x, y \in Nat : x < y => <<x, y>> \in Less
  BY DEF OpToRel
<1> HIDE DEF Less
<1>3. IsWellFoundedOn(R, [1..n -> Nat])
  BY <1>1, WFLexProductOrdering
<1>4. ASSUME NEW a \in [1..n -> Nat], NEW b \in [1..n -> Nat], Shrinks(a, b)
      PROVE  <<a, b>> \in R
  <2>1. PICK i \in 1..n : a[i] < b[i] /\ \A j \in 1..(i - 1) : a[j] = b[j]
    BY <1>4 DEF Shrinks
  <2>2. <<a[i], b[i]>> \in Less
    BY <1>2, <2>1
  <2> QED
    BY <2>1, <2>2 DEF LexProductOrdering
<1> HIDE DEF R
<1>5. SUFFICES ASSUME \A k \in Nat : Shrinks(f[k + 1], f[k]) PROVE FALSE
  OBVIOUS
<1>6. ASSUME NEW k \in Nat PROVE <<f[k + 1], f[k]>> \in R
  <2>1. f[k + 1] \in [1..n -> Nat] /\ f[k] \in [1..n -> Nat]
    OBVIOUS
  <2> QED
    BY <1>4, <1>5, <2>1
<1> QED
  BY <1>3, <1>6 DEF IsWellFoundedOn

-----------------------------------------------------------------------------
(* Remainders.                                                             *)

\* Quotient and remainder are the only numbers of their kind.
LEMMA DivModUnique ==
    ASSUME NEW a \in Int, NEW b \in Nat, b > 0, NEW q \in Int, NEW r \in 0..(b - 1),
           a = b * q + r
    PROVE  a % b = r /\ a \div b = q
<1> DEFINE s == a % b
           p == a \div b
<1>1. s \in 0..(b - 1) /\ p \in Int /\ a = b * p + s
  OBVIOUS
<1> HIDE DEF s, p
<1>2. p >= q + 1 => b * p >= b * q + b
  BY <1>1
<1>3. q >= p + 1 => b * q >= b * p + b
  BY <1>1
<1>4. b * p \in Int /\ b * q \in Int
  BY <1>1
<1>5. p = q
  BY <1>1, <1>2, <1>3, <1>4
<1>6. s = r
  BY <1>1, <1>4, <1>5
<1> QED
  BY <1>5, <1>6 DEF s, p

\* A number may be replaced by its remainder, and a multiple left out.
LEMMA ModPlus ==
    ASSUME NEW a \in Int, NEW c \in Int, NEW b \in Nat, b > 0
    PROVE  /\ ((a % b) + c) % b = (a + c) % b
           /\ a % b \in 0..(b - 1)
           /\ \A k \in Int : (a + b * k) % b = a % b
<1>1. ASSUME NEW x \in Int, NEW k \in Int PROVE (x + b * k) % b = x % b
  <2> DEFINE r == x % b
             q == x \div b
  <2>1. r \in 0..(b - 1) /\ q \in Int /\ x = b * q + r
    OBVIOUS
  <2> HIDE DEF r, q
  <2>2. b * q \in Int /\ b * k \in Int /\ b * (q + k) = b * q + b * k
    BY <2>1
  <2>3. x + b * k = b * (q + k) + r /\ q + k \in Int /\ x + b * k \in Int
    BY <2>1, <2>2
  <2>4. (x + b * k) % b = r
    BY <2>1, <2>3, DivModUnique
  <2> QED
    BY <2>4 DEF r
<1> DEFINE r == a % b
           q == a \div b
<1>2. r \in 0..(b - 1) /\ q \in Int /\ a = b * q + r
  OBVIOUS
<1> HIDE DEF r, q
<1>3. b * q \in Int /\ a + c = (r + c) + b * q /\ r + c \in Int
  BY <1>2
<1>4. (r + c) % b = (a + c) % b
  <2> DEFINE x == r + c
  <2>1. x \in Int /\ a + c = x + b * q
    BY <1>3
  <2> HIDE DEF x
  <2>2. (x + b * q) % b = x % b
    BY <1>1, <1>2, <2>1
  <2> QED
    BY <2>1, <2>2 DEF x
<1> QED
  BY <1>1, <1>2, <1>4 DEF r
=============================================================================
