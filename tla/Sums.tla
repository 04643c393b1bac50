-------------------------------- MODULE Sums --------------------------------
(***************************************************************************)
(* Folds over finite sets: that they have a value for every set; that the  *)
(* sum the community modules define does not depend on the order in which  *)
(* it chooses, and so grows by what is added to the set, as the balances   *)
(* of Wallets and Gamified are; and how many elements a range or an order  *)
(* of a set has room for, with the place of each.                          *)
(***************************************************************************)
EXTENDS Integers, FiniteSetsExt, Functions, FiniteSetTheorems, WellFoundedInduction, TLAPS

\* The element a fold takes first.
First(T) == CHOOSE x \in T : TRUE

\* f[T] is what a step makes of the element pick[T] and of f over the rest.
Folded(f, T, base, step, pick) == f[T] = IF T = {} THEN base ELSE step[<<pick[T], f[T \ {pick[T]}]>>]

\* What a fold over S with values in V needs.
Foldable(S, V, base, step, pick) ==
    base \in V /\ step \in [S \X V -> V] /\ \A T \in SUBSET S : T # {} => pick[T] \in T

\* f is such a fold over every subset of S.
FoldOver(f, S, V, base, step, pick) ==
    f \in [SUBSET S -> V] /\ \A T \in SUBSET S : Folded(f, T, base, step, pick)

\* g[k] is what k steps come to.
StepsTo(g, n, V, base, step) ==
    g \in [0..n -> V] /\ g[0] = base /\ \A k \in 1..n : g[k] = step[<<k, g[k - 1]>>]

\* f is the sum of d over each subset of S, in the order of the fold.
IsSum(f, S, d) == f = [T \in SUBSET S |-> IF T = {} THEN 0 ELSE d[First(T)] + f[T \ {First(T)}]]

\* The sum of the values of d.
Total(d) == (CHOOSE f : IsSum(f, DOMAIN d, d))[DOMAIN d]

\* f[T] is whole, and any element of T may be taken first.
Takes(f, T, d) == f[T] \in Int /\ \A x \in T : f[T] = d[x] + f[T \ {x}]

\* e is d with a value for x more.
Adds(S, d, x, e) ==
    /\ x \notin S /\ d \in [S -> Int] /\ e \in [S \cup {x} -> Int]
    /\ \A y \in S : e[y] = d[y]

Small(S, n) == {T \in SUBSET S : Cardinality(T) <= n}
-----------------------------------------------------------------------------
\* Some natural number of a set of them is the least.
LEMMA Least == ASSUME NEW N \in SUBSET Nat, N # {} PROVE \E m \in N : \A k \in N : m <= k
<1> DEFINE R == OpToRel(<, Nat)
<1>1. IsWellFoundedOn(R, Nat)
  BY NatLessThanWellFounded
<1>2. \A i, j \in Nat : i < j => <<i, j>> \in R
  BY DEF OpToRel
<1> HIDE DEF R
<1>3. PICK m \in N : \A k \in N : <<k, m>> \notin R
  BY <1>1, WFMin
<1>4. ASSUME NEW k \in N PROVE m <= k
  <2>1. m \in Nat /\ k \in Nat
    BY <1>3
  <2>2. ~(k < m)
    BY <1>2, <1>3, <2>1
  <2> QED  BY <2>1, <2>2
<1> QED  BY <1>3, <1>4

\* A subset of a finite set has a number of elements, one less without any.
LEMMA Subsets ==
    ASSUME NEW S, IsFiniteSet(S), NEW T \in SUBSET S
    PROVE  /\ Cardinality(T) \in Nat /\ (Cardinality(T) = 0 <=> T = {})
           /\ Cardinality(T) <= Cardinality(S)
           /\ \A x \in T : Cardinality(T \ {x}) = Cardinality(T) - 1
<1>1. IsFiniteSet(T)
  BY FS_Subset
<1> QED  BY <1>1, FS_CardinalityType, FS_EmptySet, FS_RemoveElement, FS_Subset

\* The first element of a set is one of it.
LEMMA FirstOf == \A T : T # {} => First(T) \in T
  BY DEF First

\* There is a fold over the subsets of every size.
LEMMA FoldOfSize ==
    ASSUME NEW S, IsFiniteSet(S), NEW V, NEW base, NEW step, NEW pick,
           Foldable(S, V, base, step, pick), NEW n \in Nat
    PROVE  \E f \in [Small(S, n) -> V] : \A T \in Small(S, n) : Folded(f, T, base, step, pick)
<1> USE DEF Foldable
<1> DEFINE Good(m) == \E f \in [Small(S, m) -> V] : \A T \in Small(S, m) : Folded(f, T, base, step, pick)
           Bad == {m \in Nat : ~Good(m)}
<1>1. SUFFICES ASSUME n \in Bad PROVE FALSE
  OBVIOUS
<1>2. PICK m \in Bad : \A k \in Bad : m <= k
  <2>1. Bad \in SUBSET Nat /\ Bad # {}
    BY <1>1
  <2> HIDE DEF Bad
  <2> QED  BY <2>1, Least
<1>3. m # 0
  <2>1. Good(0)
    <3>1. \A T \in Small(S, 0) : T = {}
      BY Subsets DEF Small
    <3>2. [T \in Small(S, 0) |-> base] \in [Small(S, 0) -> V]
      OBVIOUS
    <3>3. \A T \in Small(S, 0) : Folded([U \in Small(S, 0) |-> base], T, base, step, pick)
      BY <3>1 DEF Folded
    <3> QED  BY <3>2, <3>3
  <2> QED  BY <1>2, <2>1
<1>4. m - 1 \in Nat /\ m - 1 \notin Bad
  BY <1>2, <1>3
<1>5. PICK g \in [Small(S, m - 1) -> V] : \A T \in Small(S, m - 1) : Folded(g, T, base, step, pick)
  BY <1>4
<1>6. ASSUME NEW T \in Small(S, m), T # {}
      PROVE  pick[T] \in S /\ T \ {pick[T]} \in Small(S, m - 1)
  <2>1. pick[T] \in T /\ T \in SUBSET S /\ Cardinality(T) <= m
    BY <1>6 DEF Small
  <2>2. Cardinality(T) \in Nat /\ Cardinality(T \ {pick[T]}) = Cardinality(T) - 1
    BY <2>1, Subsets
  <2> QED  BY <1>4, <2>1, <2>2 DEF Small
<1> DEFINE f == [T \in Small(S, m) |-> IF T = {} THEN base ELSE step[<<pick[T], g[T \ {pick[T]}]>>]]
<1>7. f \in [Small(S, m) -> V]
  <2>1. ASSUME NEW T \in Small(S, m), T # {} PROVE step[<<pick[T], g[T \ {pick[T]}]>>] \in V
    <3>1. <<pick[T], g[T \ {pick[T]}]>> \in S \X V
      BY <1>5, <1>6, <2>1
    <3> QED  BY <3>1
  <2> QED  BY <2>1
<1>8. ASSUME NEW T \in Small(S, m - 1) PROVE T \in Small(S, m) /\ f[T] = g[T]
  <2>1. T \in Small(S, m)
    BY <1>4, Subsets DEF Small
  <2> QED  BY <1>5, <1>8, <2>1 DEF Folded
<1>9. ASSUME NEW T \in Small(S, m) PROVE Folded(f, T, base, step, pick)
  <2>1. T # {} => f[T \ {pick[T]}] = g[T \ {pick[T]}]
    BY <1>6, <1>8
  <2>2. f[T] = IF T = {} THEN base ELSE step[<<pick[T], g[T \ {pick[T]}]>>]
    OBVIOUS
  <2> HIDE DEF f
  <2> QED  BY <2>1, <2>2 DEF Folded
<1>10. Good(m)
  <2> HIDE DEF f
  <2> QED  BY <1>7, <1>9
<1> QED  BY <1>2, <1>10

\* There is a fold over all subsets.
LEMMA FoldExists ==
    ASSUME NEW S, IsFiniteSet(S), NEW V, NEW base, NEW step, NEW pick,
           Foldable(S, V, base, step, pick)
    PROVE  \E f : FoldOver(f, S, V, base, step, pick)
<1> DEFINE n == Cardinality(S)
<1>1. n \in Nat /\ SUBSET S = Small(S, n)
  BY FS_CardinalityType, Subsets DEF Small
<1> HIDE DEF n
<1>2. PICK f \in [Small(S, n) -> V] : \A T \in Small(S, n) : Folded(f, T, base, step, pick)
  BY <1>1, FoldOfSize
<1>3. FoldOver(f, S, V, base, step, pick)
  BY <1>1, <1>2 DEF FoldOver
<1> QED  BY <1>3

\* There is a sum over all subsets.
LEMMA SumExists ==
    ASSUME NEW S, IsFiniteSet(S), NEW d \in [S -> Int] PROVE \E f : IsSum(f, S, d)
<1> DEFINE step == [p \in S \X Int |-> d[p[1]] + p[2]]
           pick == [T \in SUBSET S |-> First(T)]
<1>1. step \in [S \X Int -> Int] /\ \A T \in SUBSET S : T # {} => pick[T] \in T
  BY FirstOf
<1>2. PICK f \in [SUBSET S -> Int] : \A T \in SUBSET S : Folded(f, T, 0, step, pick)
  <2> HIDE DEF step, pick
  <2>1. Foldable(S, Int, 0, step, pick)
    BY <1>1 DEF Foldable
  <2> QED  BY <2>1, FoldExists DEF FoldOver
<1>3. ASSUME NEW T \in SUBSET S PROVE f[T] = IF T = {} THEN 0 ELSE d[First(T)] + f[T \ {First(T)}]
  <2>1. T # {} => <<First(T), f[T \ {First(T)}]>> \in S \X Int
    BY FirstOf
  <2>2. pick[T] = First(T)
    OBVIOUS
  <2>3. T # {} => step[<<First(T), f[T \ {First(T)}]>>] = d[First(T)] + f[T \ {First(T)}]
    BY <2>1
  <2> HIDE DEF step, pick
  <2> QED  BY <1>2, <2>2, <2>3 DEF Folded
<1>4. f = [T \in SUBSET S |-> f[T]]
  OBVIOUS
<1> QED  BY <1>3, <1>4 DEF IsSum

\* A sum is whole, and any element may be taken first.
LEMMA SumTakes ==
    ASSUME NEW S, IsFiniteSet(S), NEW d \in [S -> Int], NEW f, IsSum(f, S, d), NEW T \in SUBSET S
    PROVE  Takes(f, T, d)
<1> DEFINE Good(U) == f[U] \in Int /\ \A x \in U : f[U] = d[x] + f[U \ {x}]
           Bad == {k \in Nat : \E U \in SUBSET S : Cardinality(U) = k /\ ~Good(U)}
<1>1. SUFFICES ASSUME ~Good(T) PROVE FALSE
  BY DEF Takes
<1>2. PICK m \in Bad : \A k \in Bad : m <= k
  <2>1. Bad \in SUBSET Nat /\ Cardinality(T) \in Bad
    BY <1>1, Subsets
  <2> HIDE DEF Bad
  <2> QED  BY <2>1, Least
<1>3. PICK U \in SUBSET S : Cardinality(U) = m /\ ~Good(U)
  BY <1>2
<1>4. ASSUME NEW V \in SUBSET S, Cardinality(V) < m PROVE Good(V)
  <2>1. Cardinality(V) \in Nat
    BY Subsets
  <2> QED  BY <1>2, <1>4, <2>1
<1>5. ASSUME NEW V \in SUBSET S PROVE f[V] = IF V = {} THEN 0 ELSE d[First(V)] + f[V \ {First(V)}]
  BY DEF IsSum
<1>6. U # {}
  <2>1. U = {} => f[U] = 0
    BY <1>5
  <2> QED  BY <1>3, <2>1
<1> DEFINE y == First(U)
<1>7. y \in U /\ f[U] = d[y] + f[U \ {y}]
  BY <1>5, <1>6, FirstOf
<1> HIDE DEF y
<1>8. ASSUME NEW x \in U PROVE U \ {x} \in SUBSET S /\ Cardinality(U \ {x}) < m /\ d[x] \in Int
  <2>1. m \in Nat /\ Cardinality(U \ {x}) = m - 1
    BY <1>2, <1>3, Subsets
  <2> QED  BY <2>1
<1>9. f[U] \in Int
  BY <1>4, <1>7, <1>8
<1>10. ASSUME NEW x \in U PROVE f[U] = d[x] + f[U \ {x}]
  <2>1. CASE x = y
    BY <1>7, <2>1
  <2>2. CASE x # y
    <3>1. f[U \ {y}] = d[x] + f[(U \ {y}) \ {x}]
      BY <1>4, <1>7, <1>8, <2>2
    <3>2. f[U \ {x}] = d[y] + f[(U \ {x}) \ {y}]
      BY <1>4, <1>7, <1>8, <2>2
    <3>3. (U \ {y}) \ {x} = (U \ {x}) \ {y}
      OBVIOUS
    <3>4. f[U \ {y}] \in Int /\ f[U \ {x}] \in Int /\ d[x] \in Int /\ d[y] \in Int
      BY <1>4, <1>7, <1>8
    <3>5. PICK a : a = f[(U \ {x}) \ {y}]
      OBVIOUS
    <3>6. a \in Int
      <4>1. (U \ {x}) \ {y} \in SUBSET S /\ Cardinality((U \ {x}) \ {y}) < m
        <5>1. Cardinality((U \ {x}) \ {y}) = Cardinality(U \ {x}) - 1 /\ Cardinality(U \ {x}) \in Nat
          BY <1>7, <2>2, Subsets
        <5> QED  BY <1>2, <1>8, <5>1
      <4> QED  BY <1>4, <3>5, <4>1
    <3>7. PICK p, q \in Int : p = d[x] /\ q = d[y]
      BY <3>4
    <3>8. f[U] = q + (p + a) /\ f[U \ {x}] = q + a
      BY <1>7, <3>1, <3>2, <3>3, <3>5, <3>7
    <3>9. q + (p + a) = p + (q + a)
      BY <3>6, <3>7
    <3> QED  BY <3>7, <3>8, <3>9
  <2> QED  BY <2>1, <2>2
<1> QED  BY <1>3, <1>9, <1>10

\* Of the whole set too.
LEMMA TakesFirst ==
    ASSUME NEW S, IsFiniteSet(S), NEW d \in [S -> Int], NEW f, IsSum(f, S, d), NEW x \in S
    PROVE  f[S] = d[x] + f[S \ {x}]
<1>1. PICK T : T = S
  OBVIOUS
<1>2. T \in SUBSET S /\ x \in T
  BY <1>1
<1>3. Takes(f, T, d)
  BY <1>2, SumTakes
<1> QED  BY <1>1, <1>2, <1>3 DEF Takes

\* Sums of the same values are the same.
LEMMA SumUnique ==
    ASSUME NEW S, IsFiniteSet(S), NEW d, NEW f, IsSum(f, S, d),
           NEW R, NEW e, NEW g, IsSum(g, R, e), S \subseteq R, \A x \in S : d[x] = e[x],
           NEW T \in SUBSET S
    PROVE  f[T] = g[T]
<1> DEFINE Bad == {k \in Nat : \E U \in SUBSET S : Cardinality(U) = k /\ f[U] # g[U]}
<1>1. SUFFICES ASSUME f[T] # g[T] PROVE FALSE
  OBVIOUS
<1>2. PICK m \in Bad : \A k \in Bad : m <= k
  <2>1. Bad \in SUBSET Nat /\ Cardinality(T) \in Bad
    BY <1>1, Subsets
  <2> HIDE DEF Bad
  <2> QED  BY <2>1, Least
<1>3. PICK U \in SUBSET S : Cardinality(U) = m /\ f[U] # g[U]
  BY <1>2
<1>4. /\ f[U] = IF U = {} THEN 0 ELSE d[First(U)] + f[U \ {First(U)}]
      /\ g[U] = IF U = {} THEN 0 ELSE e[First(U)] + g[U \ {First(U)}]
  <2>1. U \in SUBSET R
    OBVIOUS
  <2> QED  BY <2>1 DEF IsSum
<1>5. U # {} /\ First(U) \in U
  BY <1>3, <1>4, FirstOf
<1>6. U \ {First(U)} \in SUBSET S /\ Cardinality(U \ {First(U)}) = m - 1 /\ m - 1 \in Nat
  <2>1. Cardinality(U \ {First(U)}) \in Nat /\ Cardinality(U \ {First(U)}) = m - 1
    BY <1>3, <1>5, Subsets
  <2> QED  BY <2>1
<1>7. f[U \ {First(U)}] = g[U \ {First(U)}]
  BY <1>2, <1>6
<1> QED  BY <1>3, <1>4, <1>5, <1>7

\* The sum over two parts is that of both sums.
LEMMA SumSplits ==
    ASSUME NEW S, IsFiniteSet(S), NEW d \in [S -> Int], NEW f, IsSum(f, S, d),
           NEW A \in SUBSET S, NEW B \in SUBSET S, A \cap B = {}
    PROVE  f[A \cup B] = f[A] + f[B]
<1> DEFINE Bad == {k \in Nat : \E U \in SUBSET B : Cardinality(U) = k /\ f[A \cup U] # f[A] + f[U]}
<1>1. SUFFICES ASSUME f[A \cup B] # f[A] + f[B] PROVE FALSE
  OBVIOUS
<1>2. PICK m \in Bad : \A k \in Bad : m <= k
  <2>1. Bad \in SUBSET Nat /\ Cardinality(B) \in Bad
    BY <1>1, Subsets
  <2> HIDE DEF Bad
  <2> QED  BY <2>1, Least
<1>3. PICK U \in SUBSET B : Cardinality(U) = m /\ f[A \cup U] # f[A] + f[U]
  BY <1>2
<1>4. ASSUME NEW T \in SUBSET S PROVE f[T] \in Int /\ \A x \in T : f[T] = d[x] + f[T \ {x}]
  BY SumTakes DEF Takes
<1>5. U # {}
  <2>1. f[{}] = 0
    BY DEF IsSum
  <2>2. PICK a \in Int : a = f[A]
    BY <1>4
  <2>3. ASSUME U = {} PROVE f[A \cup U] = a /\ f[U] = 0
    <3>1. A \cup U = A
      BY <2>3
    <3> QED  BY <2>1, <2>2, <2>3, <3>1
  <2>4. a + 0 = a
    BY <2>2
  <2> QED  BY <1>3, <2>2, <2>3, <2>4
<1>6. PICK x : x \in U
  BY <1>5
<1>7. PICK V \in SUBSET B : V = U \ {x} /\ Cardinality(V) = m - 1 /\ m - 1 \in Nat
  <2>1. U \in SUBSET S /\ U \ {x} \in SUBSET B
    BY <1>3
  <2>2. Cardinality(U \ {x}) = m - 1 /\ Cardinality(U \ {x}) \in Nat
    BY <1>3, <1>6, <2>1, Subsets
  <2> QED  BY <2>1, <2>2
<1>8. f[A \cup V] = f[A] + f[V]
  <2>1. m \in Nat /\ ~(m <= m - 1)
    BY <1>2
  <2>2. m - 1 \notin Bad
    BY <1>2, <2>1
  <2> QED  BY <1>7, <2>2
<1>9. f[U] = d[x] + f[V] /\ f[A \cup U] = d[x] + f[A \cup V]
  <2>1. PICK W \in SUBSET S : W = A \cup U
    BY <1>3
  <2>2. W \ {x} = A \cup V /\ x \in W
    BY <1>3, <1>6, <1>7, <2>1
  <2>3. f[W] = d[x] + f[W \ {x}]
    BY <1>4, <2>2
  <2>4. f[U] = d[x] + f[U \ {x}]
    BY <1>3, <1>4, <1>6
  <2> QED  BY <1>7, <2>1, <2>2, <2>3, <2>4
<1>10. PICK p, a, v \in Int : p = d[x] /\ a = f[A] /\ v = f[V]
  BY <1>3, <1>4, <1>6, <1>7
<1> QED  BY <1>3, <1>8, <1>9, <1>10

\* Zeros sum up to zero.
LEMMA SumOfZeros ==
    ASSUME NEW S, IsFiniteSet(S), NEW d \in [S -> Int], NEW f, IsSum(f, S, d),
           NEW A \in SUBSET S, \A x \in A : d[x] = 0
    PROVE  f[A] = 0
<1> DEFINE Bad == {k \in Nat : \E U \in SUBSET A : Cardinality(U) = k /\ f[U] # 0}
<1>1. SUFFICES ASSUME f[A] # 0 PROVE FALSE
  OBVIOUS
<1>2. PICK m \in Bad : \A k \in Bad : m <= k
  <2>1. Bad \in SUBSET Nat /\ Cardinality(A) \in Bad
    BY <1>1, Subsets
  <2> HIDE DEF Bad
  <2> QED  BY <2>1, Least
<1>3. PICK U \in SUBSET A : Cardinality(U) = m /\ f[U] # 0
  BY <1>2
<1>4. U \in SUBSET S /\ f[U] = IF U = {} THEN 0 ELSE d[First(U)] + f[U \ {First(U)}]
  BY DEF IsSum
<1>5. U # {} /\ First(U) \in U
  BY <1>3, <1>4, FirstOf
<1>6. U \ {First(U)} \in SUBSET A /\ Cardinality(U \ {First(U)}) = m - 1 /\ m - 1 \in Nat
  <2>1. Cardinality(U \ {First(U)}) \in Nat /\ Cardinality(U \ {First(U)}) = m - 1
    BY <1>3, <1>4, <1>5, Subsets
  <2> QED  BY <2>1
<1>7. f[U \ {First(U)}] = 0
  BY <1>2, <1>6
<1> QED  BY <1>3, <1>4, <1>5, <1>7
-----------------------------------------------------------------------------
\* The chosen sum is one.
LEMMA TotalSum ==
    ASSUME NEW S, IsFiniteSet(S), NEW d \in [S -> Int]
    PROVE  \E f : IsSum(f, S, d) /\ Total(d) = f[S]
<1>1. \E f : IsSum(f, S, d) /\ DOMAIN d = S
  BY SumExists
<1>2. IsSum(CHOOSE f : IsSum(f, DOMAIN d, d), S, d)
  BY <1>1
<1> QED  BY <1>1, <1>2 DEF Total

\* Nothing sums up to zero.
LEMMA TotalEmpty == \A d : d \in [{} -> Int] => Total(d) = 0
<1>1. SUFFICES ASSUME NEW d \in [{} -> Int] PROVE Total(d) = 0
  OBVIOUS
<1>2. PICK f : IsSum(f, {}, d) /\ Total(d) = f[{}]
  BY FS_EmptySet, TotalSum
<1>3. {} \in SUBSET {}
  OBVIOUS
<1> QED  BY <1>2, <1>3 DEF IsSum

\* A sum is an integer.
LEMMA TotalInt ==
    ASSUME NEW S, IsFiniteSet(S), NEW d \in [S -> Int]
    PROVE  Total(d) \in Int
<1>1. PICK f : IsSum(f, S, d) /\ Total(d) = f[S]
  BY TotalSum
<1>2. f[S] \in Int
  BY <1>1, SumTakes DEF Takes
<1> QED  BY <1>1, <1>2

\* It grows by the value that is added.
LEMMA TotalAdds ==
    ASSUME NEW S, IsFiniteSet(S), NEW d, NEW x, NEW e, Adds(S, d, x, e)
    PROVE  Total(d) \in Int /\ Total(e) = Total(d) + e[x]
<1> USE DEF Adds
<1>1. PICK f : IsSum(f, S, d) /\ Total(d) = f[S]
  BY TotalSum
<1>2. IsFiniteSet(S \cup {x})
  BY FS_AddElement
<1>3. PICK g : IsSum(g, S \cup {x}, e) /\ Total(e) = g[S \cup {x}]
  BY <1>2, TotalSum
<1>4. f[S] \in Int
  BY <1>1, SumTakes DEF Takes
<1>5. g[S \cup {x}] = e[x] + g[(S \cup {x}) \ {x}]
  BY <1>2, <1>3, TakesFirst
<1>6. (S \cup {x}) \ {x} = S
  OBVIOUS
<1>7. f[S] = g[S]
  BY <1>1, <1>3, SumUnique
<1>8. e[x] \in Int
  OBVIOUS
<1>9. PICK p, q \in Int : p = f[S] /\ q = e[x]
  BY <1>4, <1>8
<1>10. Total(d) = p /\ Total(e) = q + p
  BY <1>1, <1>3, <1>5, <1>6, <1>7, <1>9
<1> QED  BY <1>9, <1>10

\* The folds of the community modules are such sums.
LEMMA TotalFold ==
    ASSUME NEW d PROVE FoldFunction(LAMBDA a, b : a + b, 0, d) = Total(d)
  BY Zenon DEF FoldFunction, FoldFunctionOnSet, MapThenFoldSet, Total, IsSum, First

\* So is the sum that Wallets takes of the rows of a history.
LEMMA TotalOf ==
    ASSUME NEW S, IsFiniteSet(S), \A row \in S : row.delta \in Int
    PROVE  MapThenSumSet(LAMBDA row : row.delta, S) = Total([row \in S |-> row.delta])
<1> DEFINE d == [row \in S |-> row.delta]
           Rows(f) == f = [T \in SUBSET S |-> IF T = {} THEN 0 ELSE First(T).delta + f[T \ {First(T)}]]
<1>1. PICK f : IsSum(f, S, d) /\ Total(d) = f[S]
  <2>1. d \in [S -> Int]
    OBVIOUS
  <2> HIDE DEF d
  <2> QED  BY <2>1, TotalSum
<1>2. ASSUME NEW g PROVE IsSum(g, S, d) <=> Rows(g)
  <2>1. \A T \in SUBSET S : T # {} => d[First(T)] = First(T).delta
    BY FirstOf
  <2>2. [T \in SUBSET S |-> IF T = {} THEN 0 ELSE d[First(T)] + g[T \ {First(T)}]]
        = [T \in SUBSET S |-> IF T = {} THEN 0 ELSE First(T).delta + g[T \ {First(T)}]]
    <3> HIDE DEF d
    <3> QED  BY <2>1
  <2> HIDE DEF d
  <2> QED  BY <2>2 DEF IsSum
<1>3. MapThenSumSet(LAMBDA row : row.delta, S) = (CHOOSE g : Rows(g))[S]
  BY Zenon DEF MapThenSumSet, MapThenFoldSet, First
<1>4. IsSum(CHOOSE g : Rows(g), S, d)
  <2> HIDE DEF d, Rows
  <2> QED  BY <1>1, <1>2
<1>5. (CHOOSE g : Rows(g))[S] = f[S]
  <2> DEFINE h == CHOOSE g : Rows(g)
  <2>1. IsSum(h, S, d) /\ S \in SUBSET S
    BY <1>4
  <2> HIDE DEF d, h
  <2>2. h[S] = f[S]
    BY <1>1, <2>1, SumUnique
  <2> QED  BY <2>2 DEF h
<1> QED  BY <1>1, <1>3, <1>5
-----------------------------------------------------------------------------
(* counting *)

\* Different numbers between bounds are no more than fit.
LEMMA FewBetween ==
    ASSUME NEW Z, NEW a \in Int, NEW n \in Nat, NEW f \in [Z -> a..(a + n - 1)],
           \A x, y \in Z : x # y => f[x] # f[y]
    PROVE  IsFiniteSet(Z) /\ Cardinality(Z) <= n
<1> DEFINE T == a..(a + n - 1)
<1>1. IsFiniteSet(T) /\ Cardinality(T) = n
  <2>1. a + n - 1 \in Int /\ (a > a + n - 1 <=> n = 0) /\ (a + n - 1) - a + 1 = n
    OBVIOUS
  <2> QED  BY <2>1, FS_Interval
<1>2. f \in Injection(Z, T)
  BY DEF Injection, IsInjective
<1> HIDE DEF T
<1> QED  BY <1>1, <1>2, FS_Injection

\* An order of a set without repetition has each element.
LEMMA OrderHasAll ==
    ASSUME NEW S, IsFiniteSet(S), NEW o \in [1..Cardinality(S) -> S],
           \A a, b \in 1..Cardinality(S) : a < b => o[a] # o[b]
    PROVE  \A x \in S : \E k \in 1..Cardinality(S) : o[k] = x
<1>1. PICK n \in Nat : n = Cardinality(S)
  BY FS_CardinalityType
<1>2. \A a, b \in 1..n : a # b => o[a] # o[b]
  <2>1. \A a, b \in 1..n : a # b => a < b \/ b < a
    OBVIOUS
  <2> QED  BY <1>1, <2>1
<1>3. o \in Injection(1..n, S)
  BY <1>1, <1>2 DEF Injection, IsInjective
<1>4. Cardinality(1..n) = n
  BY FS_Interval
<1>5. o \in Surjection(1..n, S)
  BY <1>1, <1>3, <1>4, FS_Injection
<1> QED  BY <1>1, <1>5 DEF Surjection

\* What is numbered from one to k has k elements.
LEMMA NumberedUpTo ==
    ASSUME NEW A, NEW k \in Nat, NEW o, \A a \in 1..k : o[a] \in A,
           \A a, b \in 1..k : a < b => o[a] # o[b],
           \A x \in A : \E a \in 1..k : o[a] = x
    PROVE  IsFiniteSet(A) /\ Cardinality(A) = k
<1> DEFINE f == [a \in 1..k |-> o[a]]
<1>1. \A a, b \in 1..k : a # b => f[a] # f[b]
  <2>1. \A a, b \in 1..k : a # b => a < b \/ b < a
    OBVIOUS
  <2> QED  BY <2>1
<1>2. f \in [1..k -> A] /\ \A x \in A : \E a \in 1..k : f[a] = x
  OBVIOUS
<1> HIDE DEF f
<1>3. f \in Bijection(1..k, A)
  BY <1>1, <1>2 DEF Bijection, Injection, Surjection, IsInjective
<1> QED  BY <1>3, FS_CountingElements, FS_NatBijection DEF ExistsBijection

\* Which pairs come one before the other, in one order.
StrictOrder(R, S) ==
    /\ \A i \in S : <<i, i>> \notin R
    /\ \A i, j, k \in S : <<i, j>> \in R /\ <<j, k>> \in R => <<i, k>> \in R
    /\ \A i, j \in S : i # j => <<i, j>> \in R \/ <<j, i>> \in R

\* How many come before.
Rank(R, S, i) == Cardinality({j \in S : <<j, i>> \in R})

\* In such an order each place has an element, and who comes before has the
\* lower place.
LEMMA Ranked ==
    ASSUME NEW S, IsFiniteSet(S), NEW R, StrictOrder(R, S)
    PROVE  /\ Cardinality(S) \in Nat
           /\ \A i \in S : Rank(R, S, i) \in 0..(Cardinality(S) - 1)
           /\ \A i, j \in S : <<i, j>> \in R <=> Rank(R, S, i) < Rank(R, S, j)
           /\ \A k \in 1..Cardinality(S) : \E i \in S : Rank(R, S, i) = k - 1
<1> DEFINE B(i) == {j \in S : <<j, i>> \in R}
           n == Cardinality(S)
<1>1. ASSUME NEW i \in S
      PROVE  /\ IsFiniteSet(B(i)) /\ Cardinality(B(i)) \in Nat /\ Cardinality(B(i)) < n /\ n \in Nat
  <2>1. B(i) \subseteq S /\ i \notin B(i)
    BY DEF StrictOrder
  <2> HIDE DEF B
  <2>2. IsFiniteSet(B(i)) /\ Cardinality(B(i)) <= n /\ Cardinality(B(i)) # n
    BY <2>1, FS_Subset
  <2>3. Cardinality(B(i)) \in Nat /\ n \in Nat
    BY <2>2, FS_CardinalityType
  <2> QED  BY <2>2, <2>3
<1>2. n \in Nat
  BY FS_CardinalityType
<1>3. ASSUME NEW i \in S, NEW j \in S, <<i, j>> \in R
      PROVE  Cardinality(B(i)) < Cardinality(B(j))
  <2>1. B(i) \subseteq B(j) /\ i \in B(j) /\ i \notin B(i)
    BY <1>3 DEF StrictOrder
  <2>2. Cardinality(B(i)) <= Cardinality(B(j)) /\ Cardinality(B(i)) # Cardinality(B(j))
    BY <1>1, <2>1, FS_Subset
  <2> QED  BY <1>1, <2>2
<1> DEFINE r == [i \in S |-> Cardinality(B(i)) + 1]
<1> HIDE DEF B, n
<1>4. r \in [S -> 1..n]
  BY <1>1
<1>5. \A i, j \in S : r[i] = r[j] => i = j
  <2> SUFFICES ASSUME NEW i \in S, NEW j \in S, i # j PROVE r[i] # r[j]
    OBVIOUS
  <2>1. Cardinality(B(i)) < Cardinality(B(j)) \/ Cardinality(B(j)) < Cardinality(B(i))
    BY <1>3 DEF StrictOrder
  <2> QED  BY <1>1, <2>1
<1>6. r \in Surjection(S, 1..n)
  <2>1. r \in Injection(S, 1..n)
    <3> HIDE DEF r
    <3> QED  BY <1>4, <1>5 DEF Injection, IsInjective
  <2>2. IsFiniteSet(1..n) /\ Cardinality(1..n) = n
    BY <1>2, FS_Interval
  <2> HIDE DEF r
  <2> QED  BY <2>1, <2>2, FS_Injection DEF n
<1>7. \A k \in 1..n : \E i \in S : Cardinality(B(i)) + 1 = k
  BY <1>6 DEF Surjection
<1>8. \A i \in S : Rank(R, S, i) = Cardinality(B(i))
  BY DEF Rank, B
<1>9. \A i, j \in S : <<i, j>> \in R <=> Cardinality(B(i)) < Cardinality(B(j))
  <2> TAKE i \in S, j \in S
  <2>1. CASE <<i, j>> \in R
    BY <1>3, <2>1
  <2>2. CASE <<i, j>> \notin R
    <3>1. i = j \/ <<j, i>> \in R
      BY <2>2 DEF StrictOrder
    <3> QED  BY <1>1, <1>3, <2>2, <3>1
  <2> QED  BY <2>1, <2>2
<1>10. \A k \in 1..n : \E i \in S : Cardinality(B(i)) = k - 1
  <2> TAKE k \in 1..n
  <2>1. PICK i \in S : Cardinality(B(i)) + 1 = k
    BY <1>7
  <2> QED  BY <1>1, <2>1
<1>11. \A i \in S : Cardinality(B(i)) \in 0..(n - 1)
  BY <1>1
<1> QED  BY <1>2, <1>8, <1>9, <1>10, <1>11 DEF n

\* Integers that have a bound have a greatest.
LEMMA Greatest ==
    ASSUME NEW W \in SUBSET Int, W # {}, NEW b \in Int, \A x \in W : x <= b
    PROVE  \E x \in W : \A y \in W : y <= x
<1> DEFINE N == {b - x : x \in W}
<1>1. N \in SUBSET Nat /\ N # {}
  <2>1. \A x \in W : b - x \in Nat
    OBVIOUS
  <2> QED  BY <2>1
<1>2. PICK m \in N : \A k \in N : m <= k
  <2> HIDE DEF N
  <2> QED  BY <1>1, Least
<1>3. PICK x \in W : m = b - x
  BY <1>2
<1>4. ASSUME NEW y \in W PROVE y <= x
  <2>1. m <= b - y /\ x \in Int /\ y \in Int
    BY <1>2
  <2> QED  BY <1>3, <2>1
<1> QED  BY <1>4


\* Of numbers up to n one is the greatest.
LEMMA MaxOf ==
    ASSUME NEW n \in Nat, NEW T \in SUBSET (1..n), T # {}
    PROVE  Max(T) \in T /\ \A y \in T : y <= Max(T)
<1>1. T \in SUBSET Int /\ n \in Int /\ \A x \in T : x <= n
  OBVIOUS
<1>2. \E x \in T : \A y \in T : y <= x
  BY <1>1, Greatest
<1>3. \E x \in T : \A y \in T : x >= y
  BY <1>1, <1>2
<1>4. Max(T) \in T /\ \A y \in T : Max(T) >= y
  BY <1>3 DEF Max
<1> QED  BY <1>1, <1>4

\* Of all of them it is the last.
LEMMA MaxOfRange ==
    ASSUME NEW k \in Nat \ {0} PROVE Max(1..k) = k /\ (1..k) \ {k} = 1..(k - 1) /\ 1..k # {}
<1>1. k \in 1..k /\ k \in Nat
  OBVIOUS
<1>2. PICK T : T = 1..k
  OBVIOUS
<1>3. Max(T) \in T /\ \A y \in T : y <= Max(T)
  BY <1>1, <1>2, MaxOf
<1>4. Max(T) \in 1..k /\ k <= Max(T)
  BY <1>1, <1>2, <1>3
<1>5. Max(T) = k
  BY <1>4
<1> QED  BY <1>1, <1>2, <1>5

\* There is what n steps come to.
LEMMA StepsExist ==
    ASSUME NEW n \in Nat, NEW V, NEW base \in V, NEW step \in [(1..n) \X V -> V]
    PROVE  \E g : StepsTo(g, n, V, base, step)
<1> DEFINE S == 1..n
           pick == [T \in SUBSET S |-> Max(T)]
<1>1. IsFiniteSet(S)
  BY FS_Interval
<1>2. Foldable(S, V, base, step, pick)
  <2>1. \A T \in SUBSET S : T # {} => pick[T] \in T
    BY MaxOf
  <2> HIDE DEF pick
  <2> QED  BY <2>1 DEF Foldable
<1>3. \A T \in SUBSET S : pick[T] = Max(T)
  OBVIOUS
<1> HIDE DEF pick, S
<1>4. PICK f \in [SUBSET S -> V] : \A T \in SUBSET S : Folded(f, T, base, step, pick)
  BY <1>1, <1>2, FoldExists DEF FoldOver
<1> DEFINE g == [k \in 0..n |-> f[1..k]]
<1>5. \A k \in 0..n : 1..k \in SUBSET S
  BY DEF S
<1>6. g \in [0..n -> V]
  BY <1>4, <1>5
<1>7. g[0] = base
  <2>1. 1..0 = {} /\ 0 \in 0..n
    OBVIOUS
  <2>2. f[{}] = base
    BY <1>4, <1>5, <2>1 DEF Folded
  <2> QED  BY <2>1, <2>2
<1>8. ASSUME NEW k \in 1..n PROVE g[k] = step[<<k, g[k - 1]>>]
  <2>1. PICK T \in SUBSET S : T = 1..k
    BY <1>5
  <2>2. T # {} /\ Max(T) = k /\ T \ {k} = 1..(k - 1)
    BY <2>1, MaxOfRange
  <2>3. f[T] = step[<<Max(T), f[T \ {Max(T)}]>>]
    BY <1>3, <1>4, <2>2 DEF Folded
  <2>4. g[k] = f[T] /\ g[k - 1] = f[1..(k - 1)]
    BY <2>1
  <2> HIDE DEF g
  <2> QED  BY <2>2, <2>3, <2>4
<1> HIDE DEF g
<1> QED  BY <1>6, <1>7, <1>8 DEF StepsTo
=============================================================================
