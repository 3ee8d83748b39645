---------------------------- MODULE NumberLemmas ----------------------------
(***************************************************************************)
(* Facts about numbers that the proofs of several modules cite: induction  *)
(* over a set of numbers, which the pigeonhole principle gives without an  *)
(* operator as its parameter; the least and the greatest element that Min  *)
(* and CHOOSE pick; ranks in a finite order; what a step repeated comes    *)
(* to; and the functions that recursion, folds and sums define.            *)
(***************************************************************************)
EXTENDS Integers, FiniteSets, FiniteSetsExt, FiniteSetTheorems, TLAPS

(***************************************************************************)
(* A set that has 0 and the successor of each number it has, has them all. *)
(* Otherwise k -> k + 1 maps the numbers of the set up to the missing one  *)
(* one to one into fewer.                                                  *)
(***************************************************************************)
LEMMA SetInduction ==
    ASSUME NEW A, 0 \in A, \A k \in Nat : k \in A => k + 1 \in A, NEW n \in Nat
    PROVE  n \in A
<1> SUFFICES ASSUME n \notin A PROVE FALSE
  OBVIOUS
<1> DEFINE B == A \cap (0 .. n)
           C == B \ {0}
           next == [k \in B |-> k + 1]
<1>1. IsFiniteSet(B) /\ 0 \in B
  <2>1. B \in SUBSET (0 .. n) /\ 0 \in B
    OBVIOUS
  <2>2. IsFiniteSet(0 .. n)
    BY FS_Interval
  <2> QED  BY <2>1, <2>2, FS_Subset
<1>2. /\ IsFiniteSet(C)
      /\ Cardinality(C) = Cardinality(B) - 1 /\ Cardinality(B) \in Nat
  BY <1>1, FS_RemoveElement, FS_CardinalityType
<1>3. next \in [B -> C]
  OBVIOUS
<1>4. \E x, y \in B : x # y /\ next[x] = next[y]
  <2> HIDE DEF B, C, next
  <2>1. Cardinality(C) < Cardinality(B)
    BY <1>2
  <2> QED  BY <1>1, <1>2, <1>3, <2>1, FS_PigeonHole
<1> QED  BY <1>4

(***************************************************************************)
(* A set of numbers that has one has a least.                              *)
(***************************************************************************)
LEMMA MinIsLeast ==
    ASSUME NEW S \in SUBSET Nat, S # {}
    PROVE  Min(S) \in S /\ \A k \in S : Min(S) <= k
<1> DEFINE A == {n \in Nat : \A k \in 0 .. n : k \notin S}
<1>1. \E least \in S : \A k \in S : least <= k
  <2> SUFFICES ASSUME \A least \in S : \E k \in S : ~(least <= k) PROVE FALSE
    OBVIOUS
  <2>1. 0 \in A
    OBVIOUS
  <2>2. ASSUME NEW n \in Nat, n \in A PROVE n + 1 \in A
    <3>1. n + 1 \notin S
      <4> SUFFICES ASSUME n + 1 \in S PROVE FALSE
        OBVIOUS
      <4>1. PICK k \in S : ~(n + 1 <= k)
        OBVIOUS
      <4>2. k \in 0 .. n
        BY <4>1
      <4> QED  BY <4>2, <2>2
    <3> QED  BY <2>2, <3>1
  <2>3. \A n \in Nat : n \in A
    <3> HIDE DEF A
    <3> QED  BY <2>1, <2>2, SetInduction
  <2>4. PICK k \in S : TRUE
    OBVIOUS
  <2>5. k \in Nat /\ k \in A
    BY <2>3, <2>4
  <2> QED  BY <2>4, <2>5
<1> QED  BY <1>1 DEF Min

(***************************************************************************)
(* A finite set of numbers that has one has a greatest.                    *)
(***************************************************************************)
LEMMA GreatestExists ==
    ASSUME NEW S \in SUBSET Int, IsFiniteSet(S), S # {}
    PROVE  \E most \in S : \A k \in S : k <= most
<1> DEFINE Has(T) == \E most \in T : \A k \in T : k <= most
           A == {n \in Nat : \A T \in SUBSET S : Cardinality(T) = n /\ T # {} => Has(T)}
<1>0. \A T \in SUBSET S : IsFiniteSet(T) /\ Cardinality(T) \in Nat
  BY FS_Subset, FS_CardinalityType
<1>1. 0 \in A
  BY <1>0, FS_EmptySet
<1>2. ASSUME NEW n \in Nat, n \in A PROVE n + 1 \in A
  <2> SUFFICES ASSUME NEW T \in SUBSET S, Cardinality(T) = n + 1, T # {}
               PROVE  Has(T)
    OBVIOUS
  <2>1. PICK x \in T : TRUE
    OBVIOUS
  <2>2. T \ {x} \in SUBSET S /\ Cardinality(T \ {x}) = n
    <3>1. IsFiniteSet(T)
      BY <1>0
    <3>2. Cardinality(T \ {x}) = Cardinality(T) - 1
      BY <2>1, <3>1, FS_RemoveElement
    <3> QED  BY <3>2
  <2>3. CASE T \ {x} = {}
    BY <2>1, <2>3
  <2>4. CASE T \ {x} # {}
    <3>1. PICK most \in T \ {x} : \A k \in T \ {x} : k <= most
      BY <1>2, <2>2, <2>4
    <3>2. CASE x <= most
      BY <3>1, <3>2
    <3>3. CASE ~(x <= most)
      <4>1. \A k \in T : k <= x
        BY <2>1, <3>1, <3>3
      <4> QED  BY <2>1, <4>1
    <3> QED  BY <3>2, <3>3
  <2> QED  BY <2>3, <2>4
<1>3. Cardinality(S) \in A
  <2> HIDE DEF A
  <2> QED  BY <1>0, <1>1, <1>2, SetInduction
<1> QED  BY <1>0, <1>3

(***************************************************************************)
(* What comes before in a strict order has fewer before it.                *)
(***************************************************************************)
LEMMA RanksDiffer ==
    ASSUME NEW S, IsFiniteSet(S), NEW before \in [S -> SUBSET S],
           \A i \in S : i \notin before[i],
           \A i, j \in S : i \in before[j] => before[i] \subseteq before[j],
           NEW i \in S, NEW j \in S, i \in before[j]
    PROVE  /\ Cardinality(before[i]) \in Nat /\ Cardinality(before[j]) \in Nat
           /\ Cardinality(before[i]) < Cardinality(before[j])
<1>1. IsFiniteSet(before[i]) /\ IsFiniteSet(before[j])
  BY FS_Subset
<1>2. before[i] \in SUBSET before[j] /\ before[i] # before[j]
  OBVIOUS
<1>3. Cardinality(before[i]) \in Nat /\ Cardinality(before[j]) \in Nat
  BY <1>1, FS_CardinalityType
<1>4. Cardinality(before[i]) <= Cardinality(before[j])
  BY <1>1, <1>2, FS_Subset
<1>5. Cardinality(before[i]) # Cardinality(before[j])
  BY <1>1, <1>2, FS_Subset
<1> QED  BY <1>3, <1>4, <1>5

(***************************************************************************)
(* In a finite strict order, given by what comes before each member, every *)
(* rank is taken: otherwise the members have fewer ranks than they are,    *)
(* and two would have the same.                                            *)
(***************************************************************************)
LEMMA RanksTaken ==
    ASSUME NEW S, IsFiniteSet(S), NEW before \in [S -> SUBSET S],
           \A i \in S : i \notin before[i],
           \A i, j \in S : i \in before[j] => before[i] \subseteq before[j],
           \A i, j \in S : i # j => i \in before[j] \/ j \in before[i],
           NEW k \in 1 .. Cardinality(S)
    PROVE  \E i \in S : Cardinality(before[i]) = k - 1
<1> SUFFICES ASSUME \A i \in S : Cardinality(before[i]) # k - 1 PROVE FALSE
  OBVIOUS
<1> DEFINE n == Cardinality(S)
           R == 0 .. (n - 1)
           T == R \ {k - 1}
           rank == [i \in S |-> Cardinality(before[i])]
<1>1. n \in Nat /\ k \in Nat /\ k >= 1 /\ k <= n /\ k - 1 \in R
  BY FS_CardinalityType
<1>2. \A i \in S : IsFiniteSet(before[i])
  BY FS_Subset
<1>3. IsFiniteSet(T) /\ Cardinality(T) = n - 1
  <2>1. IsFiniteSet(R)
    BY <1>1, FS_Interval
  <2>2. Cardinality(R) = n
    <3>1. 0 \in Int /\ n - 1 \in Int /\ ~(0 > n - 1)
      BY <1>1
    <3>2. Cardinality(0 .. (n - 1)) = IF 0 > n - 1 THEN 0 ELSE (n - 1) - 0 + 1
      BY <3>1, FS_Interval
    <3> QED  BY <1>1, <3>1, <3>2
  <2> HIDE DEF R
  <2>3. IsFiniteSet(R \ {k - 1}) /\ Cardinality(R \ {k - 1}) = Cardinality(R) - 1
    BY <1>1, <2>1, FS_RemoveElement
  <2> QED  BY <2>2, <2>3
<1>4. \A i, j \in S : i \in before[j] =>
          /\ Cardinality(before[i]) \in Nat /\ Cardinality(before[j]) \in Nat
          /\ Cardinality(before[i]) < Cardinality(before[j])
  BY RanksDiffer
<1>5. rank \in [S -> T]
  <2> SUFFICES ASSUME NEW i \in S PROVE Cardinality(before[i]) \in T
    OBVIOUS
  <2>1. before[i] \in SUBSET S /\ before[i] # S
    OBVIOUS
  <2>2. Cardinality(before[i]) \in Nat /\ Cardinality(before[i]) <= n
    BY <2>1, <1>2, FS_Subset, FS_CardinalityType
  <2>3. Cardinality(before[i]) # n
    BY <2>1, FS_Subset
  <2>4. Cardinality(before[i]) # k - 1
    OBVIOUS
  <2> HIDE DEF n
  <2>5. Cardinality(before[i]) \in 0 .. (n - 1)
    BY <1>1, <2>2, <2>3
  <2> QED  BY <2>4, <2>5
<1>6. \E x, y \in S : x # y /\ rank[x] = rank[y]
  <2>1. Cardinality(T) < Cardinality(S)
    BY <1>1, <1>3
  <2> HIDE DEF T, rank, n
  <2> QED  BY <1>3, <1>5, <2>1, FS_PigeonHole
<1> QED
  <2>1. PICK x \in S, y \in S : x # y /\ rank[x] = rank[y]
    BY <1>6
  <2>2. x \in before[y] \/ y \in before[x]
    BY <2>1
  <2>3. Cardinality(before[x]) = Cardinality(before[y])
    BY <2>1
  <2> QED  BY <1>4, <2>2, <2>3

(***************************************************************************)
(* A step repeated from a start has the values a recursive definition of   *)
(* them describes.                                                         *)
(***************************************************************************)
Repeats(f, S, start, step, n) ==
    /\ f \in [0 .. n -> S] /\ f[0] = start
    /\ \A k \in 1 .. n : f[k] = step[f[k - 1]]

LEMMA Repeated ==
    ASSUME NEW S, NEW start \in S, NEW step \in [S -> S], NEW n \in Nat
    PROVE  \E f : Repeats(f, S, start, step, n)
<1> DEFINE Does(f, m) == Repeats(f, S, start, step, m)
           A == {m \in Nat : \E f : Does(f, m)}
<1>1. 0 \in A
  <2> DEFINE f == [k \in 0 .. 0 |-> start]
  <2>1. f \in [0 .. 0 -> S] /\ f[0] = start
    OBVIOUS
  <2>2. \A k \in 1 .. 0 : FALSE
    OBVIOUS
  <2> HIDE DEF f
  <2>3. Does(f, 0)
    BY <2>1, <2>2 DEF Repeats
  <2> QED  BY <2>3
<1>2. ASSUME NEW m \in Nat, m \in A PROVE m + 1 \in A
  <2>0. PICK f : Does(f, m)
    BY <1>2
  <2>1. /\ f \in [0 .. m -> S] /\ f[0] = start
        /\ \A k \in 1 .. m : f[k] = step[f[k - 1]]
    BY <2>0 DEF Repeats
  <2> DEFINE more == [k \in 0 .. (m + 1) |-> IF k = m + 1 THEN step[f[m]] ELSE f[k]]
  <2>2. step[f[m]] \in S
    BY <2>1
  <2>3. more \in [0 .. (m + 1) -> S] /\ more[0] = start
    BY <2>1, <2>2
  <2>4. ASSUME NEW k \in 1 .. (m + 1) PROVE more[k] = step[more[k - 1]]
    <3>1. k - 1 \in 0 .. m /\ more[k - 1] = f[k - 1]
      OBVIOUS
    <3>2. CASE k = m + 1
      BY <3>1, <3>2
    <3>3. CASE k # m + 1
      <4>1. k \in 1 .. m /\ more[k] = f[k]
        BY <3>3
      <4> QED  BY <2>1, <3>1, <4>1
    <3> QED  BY <3>2, <3>3
  <2> HIDE DEF more
  <2>5. Does(more, m + 1)
    BY <2>3, <2>4 DEF Repeats
  <2> QED  BY <2>5
<1>3. n \in A
  <2> HIDE DEF A
  <2> QED  BY <1>1, <1>2, SetInduction
<1> QED  BY <1>3

(***************************************************************************)
(* A set that only grows within a finite one has settled after as many     *)
(* steps as that has members.                                              *)
(***************************************************************************)
LEMMA Settles ==
    ASSUME NEW S, IsFiniteSet(S), NEW start \in SUBSET S, NEW step \in [SUBSET S -> SUBSET S],
           \A T \in SUBSET S : T \subseteq step[T],
           NEW f, Repeats(f, SUBSET S, start, step, Cardinality(S))
    PROVE  step[f[Cardinality(S)]] = f[Cardinality(S)]
<1> DEFINE n == Cardinality(S)
           A == {k \in Nat : k <= n => step[f[k]] = f[k] \/ k <= Cardinality(f[k])}
<1>1. n \in Nat
  BY FS_CardinalityType
<1>2. /\ f \in [0 .. n -> SUBSET S] /\ f[0] = start
      /\ \A k \in 1 .. n : f[k] = step[f[k - 1]]
  BY DEF Repeats
<1>3. \A T \in SUBSET S : IsFiniteSet(T) /\ Cardinality(T) \in Nat
  BY FS_Subset, FS_CardinalityType
<1> HIDE DEF n
<1>4. \A k \in 0 .. n : f[k] \in SUBSET S /\ step[f[k]] \in SUBSET S /\ f[k] \subseteq step[f[k]]
  BY <1>2
<1>5. 0 \in A
  BY <1>1, <1>3, <1>4
<1>6. ASSUME NEW k \in Nat, k \in A PROVE k + 1 \in A
  <2> SUFFICES ASSUME k + 1 <= n, step[f[k + 1]] # f[k + 1] PROVE k + 1 <= Cardinality(f[k + 1])
    OBVIOUS
  <2>1. k \in 0 .. n /\ k + 1 \in 1 .. n /\ (k + 1) - 1 = k /\ k <= n
    BY <1>1
  <2>2. f[k + 1] = step[f[k]]
    BY <1>2, <2>1
  <2>3. step[f[k]] # f[k]
    BY <2>2
  <2>4. k <= Cardinality(f[k])
    BY <1>6, <2>1, <2>3
  <2>5. f[k] \in SUBSET f[k + 1] /\ f[k] # f[k + 1] /\ IsFiniteSet(f[k + 1])
        /\ Cardinality(f[k]) \in Nat /\ Cardinality(f[k + 1]) \in Nat
    <3>1. f[k + 1] \in SUBSET S
      BY <1>4, <2>1, <2>2
    <3> QED  BY <1>3, <1>4, <2>1, <2>2, <2>3, <3>1
  <2>6. /\ Cardinality(f[k]) <= Cardinality(f[k + 1])
        /\ Cardinality(f[k]) # Cardinality(f[k + 1])
    BY <2>5, FS_Subset
  <2> QED  BY <2>4, <2>5, <2>6
<1>7. n \in A
  <2> HIDE DEF A
  <2> QED  BY <1>1, <1>5, <1>6, SetInduction
<1>8. CASE n <= Cardinality(f[n])
  <2>1. f[n] \in SUBSET S /\ step[f[n]] \in SUBSET S /\ f[n] \subseteq step[f[n]]
    BY <1>1, <1>4
  <2>2. Cardinality(f[n]) <= Cardinality(S) /\ Cardinality(f[n]) \in Nat
    BY <2>1, FS_Subset, FS_CardinalityType
  <2>3. Cardinality(f[n]) = Cardinality(S)
    BY <1>1, <1>8, <2>2 DEF n
  <2>4. f[n] = S
    BY <2>1, <2>3, FS_Subset
  <2> QED  BY <2>1, <2>4 DEF n
<1>9. CASE step[f[n]] = f[n]
  BY <1>9 DEF n
<1> QED  BY <1>1, <1>7, <1>8, <1>9

\* What a step makes of a function depends, at each place, on the places that
\* lie deeper.
LooksDeeper(D, V, S, G, depth) ==
    /\ S = [D -> V] /\ G \in [S -> S]
    /\ \A f \in S : \A g \in S : \A x \in D :
        (\A y \in D : depth[y] < depth[x] => f[y] = g[y]) => G[f][x] = G[g][x]

(***************************************************************************)
(* A definition by recursion defines a function if each value of it asks   *)
(* for values at a lesser depth only.                                      *)
(***************************************************************************)
LEMMA Recursion ==
    ASSUME NEW D, NEW V, V # {}, NEW S, NEW G,
           NEW n \in Nat, NEW depth \in [D -> 0 .. n], LooksDeeper(D, V, S, G, depth)
    PROVE  \E f \in S : G[f] = f
<1>1. PICK v \in V : TRUE
  OBVIOUS
<1> DEFINE start == [x \in D |-> v]
<1>2. start \in S /\ n + 2 \in Nat /\ G \in [S -> S] /\ S = [D -> V]
  BY DEF LooksDeeper
<1> HIDE DEF start
<1>3. PICK g : Repeats(g, S, start, G, n + 2)
  BY <1>2, Repeated
<1>4. g \in [0 .. (n + 2) -> S] /\ \A k \in 1 .. (n + 2) : g[k] = G[g[k - 1]]
  BY <1>2, <1>3 DEF Repeats
<1> DEFINE Same(k) == \A x \in D : depth[x] < k => g[k][x] = g[k + 1][x]
           A == {k \in Nat : k <= n + 1 => Same(k)}
<1>5. 0 \in A
  OBVIOUS
<1>6. ASSUME NEW k \in Nat, k \in A PROVE k + 1 \in A
  <2> SUFFICES ASSUME k + 1 <= n + 1, NEW x \in D, depth[x] < k + 1
               PROVE  g[k + 1][x] = g[(k + 1) + 1][x]
    OBVIOUS
  <2>1. k \in 0 .. (n + 2) /\ k + 1 \in 1 .. (n + 2) /\ (k + 1) + 1 \in 1 .. (n + 2)
        /\ (k + 1) - 1 = k /\ ((k + 1) + 1) - 1 = k + 1 /\ k + 1 \in 0 .. (n + 2) /\ k <= n + 1
    OBVIOUS
  <2>2. g[k + 1] = G[g[k]] /\ g[(k + 1) + 1] = G[g[k + 1]]
    BY <1>4, <2>1
  <2>3. g[k] \in S /\ g[k + 1] \in S
    BY <1>4, <2>1
  <2>4. \A y \in D : depth[y] < depth[x] => depth[y] < k
    OBVIOUS
  <2>5. \A y \in D : depth[y] < depth[x] => g[k][y] = g[k + 1][y]
    BY <1>6, <2>1, <2>4
  <2>6. G[g[k]][x] = G[g[k + 1]][x]
    BY <2>3, <2>5 DEF LooksDeeper
  <2> QED  BY <2>2, <2>6
<1>7. n + 1 \in A
  <2> HIDE DEF A
  <2>1. n + 1 \in Nat
    OBVIOUS
  <2> QED  BY <1>5, <1>6, <2>1, SetInduction
<1>8. n + 1 \in 0 .. (n + 2) /\ n + 2 \in 1 .. (n + 2) /\ (n + 2) - 1 = n + 1 /\ (n + 1) + 1 = n + 2
      /\ n + 2 \in 0 .. (n + 2)
  OBVIOUS
<1>9. g[n + 1] \in S /\ g[n + 2] \in S /\ g[n + 2] = G[g[n + 1]]
  BY <1>4, <1>8
<1>10. \A x \in D : g[n + 1][x] = g[n + 2][x]
  <2>1. \A x \in D : depth[x] < n + 1
    OBVIOUS
  <2> QED  BY <1>7, <1>8, <2>1
<1>11. g[n + 1] = g[n + 2]
  BY <1>2, <1>9, <1>10
<1> QED  BY <1>9, <1>11

(***************************************************************************)
(* What a fold over a finite set repeats for every subset, some function   *)
(* gives.                                                                  *)
(***************************************************************************)
Folding(f, S, base, step) ==
    f = [T \in SUBSET S |->
            IF T = {} THEN base
            ELSE step[<<CHOOSE x \in T : TRUE, f[T \ {CHOOSE x \in T : TRUE}]>>]]

LEMMA Folded ==
    ASSUME NEW S, IsFiniteSet(S), NEW V, NEW base \in V, NEW step \in [S \X V -> V]
    PROVE  \E f \in [SUBSET S -> V] : Folding(f, S, base, step)
<1> DEFINE n == Cardinality(S)
           pick(T) == CHOOSE x \in T : TRUE
           once == [g \in [SUBSET S -> V] |->
                      [T \in SUBSET S |->
                        IF T = {} THEN base ELSE step[<<pick(T), g[T \ {pick(T)}]>>]]]
           start == [T \in SUBSET S |-> base]
<1>1. n \in Nat /\ start \in [SUBSET S -> V]
  BY FS_CardinalityType
<1>2. \A T \in SUBSET S : T # {} => pick(T) \in T
  OBVIOUS
<1>3. \A T \in SUBSET S : T # {} =>
          /\ pick(T) \in S /\ T \ {pick(T)} \in SUBSET S
          /\ Cardinality(T \ {pick(T)}) = Cardinality(T) - 1 /\ Cardinality(T) \in Nat
  <2> HIDE DEF pick
  <2>1. \A T \in SUBSET S : IsFiniteSet(T)
    BY FS_Subset
  <2> QED  BY <1>2, <2>1, FS_RemoveElement, FS_CardinalityType
<1> HIDE DEF pick
<1>4. once \in [[SUBSET S -> V] -> [SUBSET S -> V]]
  <2> SUFFICES ASSUME NEW g \in [SUBSET S -> V], NEW T \in SUBSET S
               PROVE  (IF T = {} THEN base ELSE step[<<pick(T), g[T \ {pick(T)}]>>]) \in V
    OBVIOUS
  <2> QED  BY <1>3
<1>5. \A g \in [SUBSET S -> V] : \A T \in SUBSET S :
          once[g][T] = IF T = {} THEN base ELSE step[<<pick(T), g[T \ {pick(T)}]>>]
  OBVIOUS
<1> HIDE DEF once, n
<1>6. PICK f : Repeats(f, [SUBSET S -> V], start, once, n)
  BY <1>1, <1>4, Repeated
<1>7. /\ f \in [0 .. n -> [SUBSET S -> V]] /\ f[0] = start
      /\ \A k \in 1 .. n : f[k] = once[f[k - 1]]
  BY <1>6 DEF Repeats
<1> DEFINE A == {k \in Nat : k <= n => \A T \in SUBSET S :
                    Cardinality(T) <= k => once[f[k]][T] = f[k][T]}
<1>8. 0 \in A
  <2> SUFFICES ASSUME NEW T \in SUBSET S, Cardinality(T) <= 0 PROVE once[f[0]][T] = f[0][T]
    BY <1>1
  <2>1. T = {}
    BY <1>3, FS_Subset, FS_CardinalityType, FS_EmptySet
  <2> QED  BY <1>1, <1>5, <1>7, <2>1
<1>9. ASSUME NEW k \in Nat, k \in A PROVE k + 1 \in A
  <2> SUFFICES ASSUME k + 1 <= n, NEW T \in SUBSET S, Cardinality(T) <= k + 1
               PROVE  once[f[k + 1]][T] = f[k + 1][T]
    OBVIOUS
  <2>1. k \in 0 .. n /\ k + 1 \in 1 .. n /\ (k + 1) - 1 = k /\ k <= n
    BY <1>1
  <2>2. f[k] \in [SUBSET S -> V] /\ f[k + 1] \in [SUBSET S -> V] /\ f[k + 1] = once[f[k]]
    <3>1. f[k] \in [SUBSET S -> V] /\ f[k + 1] \in [SUBSET S -> V]
      <4> HIDE DEF A
      <4> QED  BY <1>1, <1>7, <2>1
    <3>2. f[k + 1] = once[f[(k + 1) - 1]]
      BY <1>7, <2>1
    <3> QED  BY <2>1, <3>1, <3>2
  <2>3. CASE T = {}
    BY <1>5, <2>2, <2>3
  <2>4. CASE T # {}
    <3>1. T \ {pick(T)} \in SUBSET S /\ Cardinality(T \ {pick(T)}) <= k
      BY <1>3, <2>4
    <3>2. f[k + 1][T \ {pick(T)}] = f[k][T \ {pick(T)}]
      BY <1>9, <2>1, <2>2, <3>1
    <3>3. once[f[k + 1]][T] = step[<<pick(T), f[k + 1][T \ {pick(T)}]>>]
      BY <1>5, <2>2, <2>4
    <3>4. f[k + 1][T] = step[<<pick(T), f[k][T \ {pick(T)}]>>]
      BY <1>5, <2>2, <2>4
    <3> QED  BY <3>2, <3>3, <3>4
  <2> QED  BY <2>3, <2>4
<1>10. n \in A
  <2> HIDE DEF A
  <2> QED  BY <1>1, <1>8, <1>9, SetInduction
<1>11. f[n] \in [SUBSET S -> V] /\ \A T \in SUBSET S : once[f[n]][T] = f[n][T]
  <2>1. \A T \in SUBSET S : Cardinality(T) <= n
    BY FS_Subset DEF n
  <2> QED  BY <1>1, <1>7, <1>10, <2>1
<1>12. f[n] = [T \in SUBSET S |-> IF T = {} THEN base ELSE step[<<pick(T), f[n][T \ {pick(T)}]>>]]
  BY <1>5, <1>11
<1> QED  BY <1>11, <1>12 DEF Folding, pick
-----------------------------------------------------------------------------
(***************************************************************************)
(* Sums over finite sets.                                                  *)
(***************************************************************************)
Summing(f, S, c) ==
    f = [T \in SUBSET S |->
            IF T = {} THEN 0
            ELSE c[CHOOSE x \in T : TRUE] + f[T \ {CHOOSE x \in T : TRUE}]]

LEMMA SumExists ==
    ASSUME NEW S, IsFiniteSet(S), NEW c \in [S -> Nat]
    PROVE  \E f : Summing(f, S, c)
<1> DEFINE pick(T) == CHOOSE x \in T : TRUE
           step == [x \in S \X Nat |-> c[x[1]] + x[2]]
<1>1. step \in [S \X Nat -> Nat]
  OBVIOUS
<1> HIDE DEF step
<1>2. PICK f \in [SUBSET S -> Nat] : Folding(f, S, 0, step)
  BY <1>1, Folded
<1>3. \A T \in SUBSET S : T # {} => step[<<pick(T), f[T \ {pick(T)}]>>] = c[pick(T)] + f[T \ {pick(T)}]
  <2> SUFFICES ASSUME NEW T \in SUBSET S, T # {}
               PROVE  step[<<pick(T), f[T \ {pick(T)}]>>] = c[pick(T)] + f[T \ {pick(T)}]
    OBVIOUS
  <2>1. pick(T) \in S /\ T \ {pick(T)} \in SUBSET S
    OBVIOUS
  <2> HIDE DEF pick
  <2>2. <<pick(T), f[T \ {pick(T)}]>> \in S \X Nat
    BY <2>1
  <2> QED  BY <2>2 DEF step
<1>4. f = [T \in SUBSET S |-> IF T = {} THEN 0 ELSE step[<<pick(T), f[T \ {pick(T)}]>>]]
  BY <1>2 DEF Folding
<1>5. Summing(f, S, c)
  BY <1>3, <1>4 DEF Summing
<1> QED  BY <1>5

LEMMA SumsOrdered ==
    ASSUME NEW S, IsFiniteSet(S), NEW c \in [S -> Nat], NEW d \in [S -> Nat],
           \A x \in S : c[x] <= d[x],
           NEW f, Summing(f, S, c), NEW g, Summing(g, S, d)
    PROVE  f[S] \in Nat /\ g[S] \in Nat /\ f[S] <= g[S]
<1> DEFINE pick(T) == CHOOSE x \in T : TRUE
<1>1. \A T \in SUBSET S :
         /\ T = {} => f[T] = 0 /\ g[T] = 0
         /\ T # {} => /\ f[T] = c[pick(T)] + f[T \ {pick(T)}]
                      /\ g[T] = d[pick(T)] + g[T \ {pick(T)}]
  BY DEF Summing
<1>2. \A T \in SUBSET S : T # {} =>
          /\ pick(T) \in S /\ T \ {pick(T)} \in SUBSET S
          /\ Cardinality(T \ {pick(T)}) = Cardinality(T) - 1 /\ Cardinality(T) \in Nat
  <2>1. \A T \in SUBSET S : IsFiniteSet(T)
    BY FS_Subset
  <2>2. \A T \in SUBSET S : T # {} => pick(T) \in T
    OBVIOUS
  <2> HIDE DEF pick
  <2> QED  BY <2>1, <2>2, FS_RemoveElement, FS_CardinalityType
<1> HIDE DEF pick
<1> DEFINE Less(T) == f[T] \in Nat /\ g[T] \in Nat /\ f[T] <= g[T]
           A == {k \in Nat : \A T \in SUBSET S : Cardinality(T) = k => Less(T)}
<1>3. 0 \in A
  <2> SUFFICES ASSUME NEW T \in SUBSET S, Cardinality(T) = 0 PROVE Less(T)
    OBVIOUS
  <2>1. T = {}
    BY FS_Subset, FS_EmptySet
  <2>2. f[T] = 0 /\ g[T] = 0
    BY <1>1, <2>1
  <2> QED  BY <2>2
<1>4. ASSUME NEW k \in Nat, k \in A PROVE k + 1 \in A
  <2> SUFFICES ASSUME NEW T \in SUBSET S, Cardinality(T) = k + 1 PROVE Less(T)
    OBVIOUS
  <2>1. T # {}
    BY FS_EmptySet
  <2> DEFINE U == T \ {pick(T)}
  <2>2. pick(T) \in S /\ U \in SUBSET S /\ Cardinality(U) = k
    BY <1>2, <2>1
  <2>3. f[T] = c[pick(T)] + f[U] /\ g[T] = d[pick(T)] + g[U]
    BY <1>1, <2>1
  <2> HIDE DEF U
  <2>4. Less(U)
    BY <1>4, <2>2
  <2>5. c[pick(T)] \in Nat /\ d[pick(T)] \in Nat /\ c[pick(T)] <= d[pick(T)]
    BY <2>2
  <2> QED  BY <2>3, <2>4, <2>5
<1>5. Cardinality(S) \in A
  <2>1. Cardinality(S) \in Nat
    BY FS_CardinalityType
  <2> HIDE DEF A
  <2> QED  BY <1>3, <1>4, <2>1, SetInduction
<1> QED  BY <1>5

\* A walk from member to member of a set that comes back to one.
Returns(w, S, step, n) ==
    /\ w \in [0 .. n -> S] /\ \A k \in 1 .. n : w[k] = step[w[k - 1]]
    /\ \E i, j \in 0 .. n : i < j /\ w[i] = w[j]

(***************************************************************************)
(* Who goes on from member to member of a finite set comes back to one     *)
(* within as many steps as the set has members.                            *)
(***************************************************************************)
LEMMA WalkReturns ==
    ASSUME NEW D, IsFiniteSet(D), NEW S \in SUBSET D, S # {}, NEW step \in [S -> S]
    PROVE  \E w : Returns(w, S, step, Cardinality(D))
<1> DEFINE n == Cardinality(D)
<1>1. n \in Nat /\ n = Cardinality(D)
  BY FS_CardinalityType
<1>2. IsFiniteSet(S) /\ Cardinality(S) <= n /\ Cardinality(S) \in Nat
  BY FS_Subset, FS_CardinalityType
<1> HIDE DEF n
<1>3. IsFiniteSet(0 .. n) /\ Cardinality(0 .. n) = n + 1
  <2>1. 0 \in Int /\ n \in Int /\ ~(0 > n)
    BY <1>1
  <2>2. /\ IsFiniteSet(0 .. n)
        /\ Cardinality(0 .. n) = IF 0 > n THEN 0 ELSE n - 0 + 1
    BY <2>1, FS_Interval
  <2> QED  BY <2>1, <2>2
<1>4. PICK start \in S : TRUE
  OBVIOUS
<1>5. PICK w : Repeats(w, S, start, step, n)
  BY <1>1, <1>4, Repeated, Zenon
<1>6. w \in [0 .. n -> S] /\ \A k \in 1 .. n : w[k] = step[w[k - 1]]
  BY <1>5 DEF Repeats
<1>7. \E i, j \in 0 .. n : i # j /\ w[i] = w[j]
  <2> DEFINE T == 0 .. n
  <2>1. IsFiniteSet(T) /\ w \in [T -> S] /\ Cardinality(S) < Cardinality(T)
    BY <1>1, <1>2, <1>3, <1>6
  <2> HIDE DEF T
  <2>2. \E i, j \in T : i # j /\ w[i] = w[j]
    BY <1>2, <2>1, FS_PigeonHole
  <2> QED  BY <2>2 DEF T
<1>8. PICK i \in 0 .. n, j \in 0 .. n : i # j /\ w[i] = w[j]
  BY <1>7
<1>9. \E k, l \in 0 .. n : k < l /\ w[k] = w[l]
  <2>1. i < j \/ j < i
    BY <1>1, <1>8
  <2> QED  BY <1>8, <2>1
<1>10. Returns(w, S, step, n)
  BY <1>6, <1>9 DEF Returns
<1> QED  BY <1>1, <1>10
=============================================================================
