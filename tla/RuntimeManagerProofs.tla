------------------------ MODULE RuntimeManagerProofs ------------------------
(***************************************************************************)
(* Theorems about RuntimeManager, for every set of addresses, scenarios,   *)
(* services and faults, from four invariants, one on top of another: that  *)
(* the snapshot in flight and the backends agree (TInv, which needs no     *)
(* property of plans), types (KindInv), how far the phases of a call have  *)
(* come with the plan (ReachInv), and that nothing reported lacks what it  *)
(* is ordered after (GroundInv).  They rest on what the orders of the      *)
(* planner are, for any resources, which comes first.                      *)
(***************************************************************************)
EXTENDS RuntimeManager, NumberLemmas, SequenceTheorems, TLAPS

(***************************************************************************)
(* The planner's orders.                                                   *)
(***************************************************************************)
\* A sequence that has each member of A once.
Lists(s, A) ==
    /\ s \in Seq(A)
    /\ \A i, j \in DOMAIN s : s[i] = s[j] => i = j
    /\ \A a \in A : \E i \in DOMAIN s : s[i] = a

\* What a member is mapped to by g comes before it.
Follows(s, g) ==
    \A i \in DOMAIN s : \A m \in g[s[i]] : \E j \in DOMAIN s : j < i /\ s[j] = m

\* Every set of nodes of A has one that depends on none of it.
Founded(g, A) == \A S \in SUBSET A : S # {} => \E n \in S : g[n] \cap S = {}
-----------------------------------------------------------------------------
(***************************************************************************)
(* Sequences without duplicates.                                           *)
(***************************************************************************)
LEMMA ListFacts ==
    ASSUME NEW A, NEW s, Lists(s, A)
    PROVE  /\ s \in Seq(A) /\ Len(s) \in Nat /\ DOMAIN s = 1 .. Len(s)
           /\ \A i \in DOMAIN s : s[i] \in A
           /\ ToSet(s) = A
           /\ s = <<>> <=> Len(s) = 0
<1>1. s \in Seq(A) /\ Len(s) \in Nat /\ DOMAIN s = 1 .. Len(s)
  BY LenProperties DEF Lists
<1>2. \A i \in DOMAIN s : s[i] \in A
  BY <1>1, ElementOfSeq
<1>3. ToSet(s) = A
  BY <1>2 DEF Lists, ToSet
<1>4. s = <<>> <=> Len(s) = 0
  BY <1>1, EmptySeq
<1> QED  BY <1>1, <1>2, <1>3, <1>4

LEMMA ListsNone == Lists(<<>>, {})
<1>1. <<>> \in Seq({}) /\ Len(<<>>) = 0
  BY EmptySeq
<1>2. DOMAIN <<>> = 1 .. 0
  BY <1>1, LenProperties
<1>3. \A i \in 1 .. 0 : FALSE
  OBVIOUS
<1> QED  BY <1>1, <1>2, <1>3 DEF Lists

LEMMA ListsMore ==
    ASSUME NEW A, NEW s, Lists(s, A), NEW x, x \notin A
    PROVE  /\ Lists(Append(s, x), A \cup {x})
           /\ Len(Append(s, x)) = Len(s) + 1
           /\ \A i \in DOMAIN s : Append(s, x)[i] = s[i]
           /\ Append(s, x)[Len(s) + 1] = x
<1> DEFINE B == A \cup {x}
           t == Append(s, x)
<1>1. /\ s \in Seq(A) /\ Len(s) \in Nat /\ DOMAIN s = 1 .. Len(s)
      /\ \A i \in DOMAIN s : s[i] \in A
  BY ListFacts
<1>2. s \in Seq(B) /\ x \in B
  BY <1>1
<1> HIDE DEF B
<1>3. /\ t \in Seq(B) /\ Len(t) = Len(s) + 1
      /\ \A i \in 1 .. Len(s) : t[i] = s[i]
      /\ t[Len(s) + 1] = x
  BY <1>2, AppendProperties
<1> HIDE DEF t
<1>4. DOMAIN t = 1 .. (Len(s) + 1)
  BY <1>3, LenProperties
<1>5. \A i, j \in DOMAIN t : t[i] = t[j] => i = j
  <2> SUFFICES ASSUME NEW i \in DOMAIN t, NEW j \in DOMAIN t, t[i] = t[j] PROVE i = j
    OBVIOUS
  <2>1. \A k \in DOMAIN t : k \in DOMAIN s \/ k = Len(s) + 1
    BY <1>1, <1>4
  <2>2. \A k \in DOMAIN s : t[k] = s[k] /\ t[k] # x
    BY <1>1, <1>3
  <2> QED  BY <1>3, <2>1, <2>2 DEF Lists
<1>6. \A a \in B : \E i \in DOMAIN t : t[i] = a
  <2> SUFFICES ASSUME NEW a \in B PROVE \E i \in DOMAIN t : t[i] = a
    OBVIOUS
  <2>1. CASE a = x
    <3>1. Len(s) + 1 \in DOMAIN t
      BY <1>1, <1>4
    <3> QED  BY <1>3, <2>1, <3>1
  <2>2. CASE a \in A
    <3>1. PICK i \in DOMAIN s : s[i] = a
      BY <2>2 DEF Lists
    <3>2. i \in DOMAIN t /\ t[i] = a
      BY <1>1, <1>3, <1>4, <3>1
    <3> QED  BY <3>2
  <2> QED  BY <2>1, <2>2 DEF B
<1> QED  BY <1>1, <1>3, <1>5, <1>6 DEF Lists, B, t

LEMMA ListsTail ==
    ASSUME NEW A, NEW s, Lists(s, A), s # <<>>
    PROVE  Head(s) \in A /\ Lists(Tail(s), A \ {Head(s)})
<1> DEFINE B == A \ {Head(s)}
           t == Tail(s)
<1>1. /\ s \in Seq(A) /\ Len(s) \in Nat /\ DOMAIN s = 1 .. Len(s) /\ Len(s) # 0
      /\ \A i \in DOMAIN s : s[i] \in A
  BY ListFacts
<1>2. Head(s) = s[1] /\ 1 \in DOMAIN s
  BY <1>1
<1>3. /\ t \in Seq(A) /\ Len(t) = Len(s) - 1
      /\ \A i \in 1 .. Len(t) : t[i] = s[i + 1]
  BY <1>1, HeadTailProperties
<1>4. DOMAIN t = 1 .. (Len(s) - 1) /\ \A i \in DOMAIN t : i + 1 \in DOMAIN s /\ t[i] = s[i + 1]
  BY <1>1, <1>3, LenProperties
<1>5. \A i \in DOMAIN t : t[i] \in B
  <2> SUFFICES ASSUME NEW i \in DOMAIN t PROVE s[i + 1] \in A /\ s[i + 1] # s[1]
    BY <1>2, <1>4
  <2>1. i + 1 \in DOMAIN s /\ i + 1 # 1
    BY <1>4
  <2> QED  BY <1>1, <1>2, <2>1 DEF Lists
<1> HIDE DEF B, t
<1>6. t \in Seq(B)
  <2>1. t \in [1 .. (Len(s) - 1) -> B] /\ Len(s) - 1 \in Nat
    BY <1>1, <1>3, <1>4, <1>5, LenProperties
  <2> QED  BY <2>1, SeqDef
<1>7. \A i, j \in DOMAIN t : t[i] = t[j] => i = j
  <2> SUFFICES ASSUME NEW i \in DOMAIN t, NEW j \in DOMAIN t, t[i] = t[j] PROVE i = j
    OBVIOUS
  <2>1. i + 1 = j + 1
    BY <1>4 DEF Lists
  <2> QED  BY <1>4, <2>1
<1>8. \A a \in B : \E i \in DOMAIN t : t[i] = a
  <2> SUFFICES ASSUME NEW a \in B PROVE \E i \in DOMAIN t : t[i] = a
    OBVIOUS
  <2>1. PICK i \in DOMAIN s : s[i] = a
    BY DEF Lists, B
  <2>2. i # 1
    BY <1>2, <2>1 DEF B
  <2>3. i - 1 \in DOMAIN t /\ (i - 1) + 1 = i
    BY <1>1, <1>4, <2>1, <2>2
  <2> QED  BY <1>4, <2>1, <2>3
<1> QED  BY <1>1, <1>2, <1>6, <1>7, <1>8 DEF Lists, B, t

LEMMA CatFacts ==
    ASSUME NEW A, NEW s \in Seq(A), NEW t \in Seq(A)
    PROVE  /\ s \o t \in Seq(A) /\ Len(s \o t) = Len(s) + Len(t)
           /\ DOMAIN (s \o t) = 1 .. (Len(s) + Len(t))
           /\ \A i \in DOMAIN s : i \in DOMAIN (s \o t) /\ (s \o t)[i] = s[i]
           /\ \A i \in DOMAIN t : /\ Len(s) + i \in DOMAIN (s \o t)
                                  /\ (s \o t)[Len(s) + i] = t[i]
           /\ \A k \in DOMAIN (s \o t) :
                k \in DOMAIN s \/ \E i \in DOMAIN t : k = Len(s) + i
<1> DEFINE u == s \o t
<1>1. /\ u \in Seq(A) /\ Len(u) = Len(s) + Len(t)
      /\ \A i \in 1 .. Len(s) : u[i] = s[i]
      /\ \A i \in 1 .. Len(t) : u[Len(s) + i] = t[i]
  BY ConcatProperties
<1> HIDE DEF u
<1>2. /\ Len(s) \in Nat /\ Len(t) \in Nat /\ DOMAIN s = 1 .. Len(s) /\ DOMAIN t = 1 .. Len(t)
      /\ DOMAIN u = 1 .. Len(u)
  BY <1>1, LenProperties
<1>3. ASSUME NEW k \in DOMAIN u, k \notin DOMAIN s PROVE \E i \in DOMAIN t : k = Len(s) + i
  <2>1. k - Len(s) \in DOMAIN t /\ k = Len(s) + (k - Len(s))
    BY <1>1, <1>2, <1>3
  <2> QED  BY <2>1
<1>4. \A i \in DOMAIN s : i \in DOMAIN u /\ u[i] = s[i]
  BY <1>1, <1>2
<1>5. \A i \in DOMAIN t : Len(s) + i \in DOMAIN u /\ u[Len(s) + i] = t[i]
  BY <1>1, <1>2
<1> QED  BY <1>1, <1>2, <1>3, <1>4, <1>5 DEF u

LEMMA ListsCat ==
    ASSUME NEW A, NEW B, NEW s, NEW t, Lists(s, A), Lists(t, B), A \cap B = {}
    PROVE  Lists(s \o t, A \cup B)
<1> DEFINE C == A \cup B
           u == s \o t
<1>1. s \in Seq(A) /\ t \in Seq(B) /\ Len(s) \in Nat
  BY ListFacts
<1>2. s \in Seq(C) /\ t \in Seq(C)
  BY <1>1
<1> HIDE DEF C
<1>3. /\ u \in Seq(C)
      /\ \A i \in DOMAIN s : i \in DOMAIN u /\ u[i] = s[i]
      /\ \A i \in DOMAIN t : Len(s) + i \in DOMAIN u /\ u[Len(s) + i] = t[i]
      /\ \A k \in DOMAIN u : k \in DOMAIN s \/ \E i \in DOMAIN t : k = Len(s) + i
  BY <1>2, CatFacts
<1> HIDE DEF u
<1>4. (\A i \in DOMAIN s : s[i] \in A) /\ \A i \in DOMAIN t : t[i] \in B
  BY ListFacts
<1>5. ASSUME NEW i \in DOMAIN u, NEW j \in DOMAIN u, u[i] = u[j] PROVE i = j
  <2>1. CASE i \in DOMAIN s /\ j \in DOMAIN s
    BY <1>3, <1>5, <2>1 DEF Lists
  <2>2. CASE i \in DOMAIN s /\ j \notin DOMAIN s
    <3>1. u[i] \in A /\ u[j] \in B
      BY <1>3, <1>4, <2>2
    <3> QED  BY <1>5, <3>1
  <2>3. CASE i \notin DOMAIN s /\ j \in DOMAIN s
    <3>1. u[i] \in B /\ u[j] \in A
      BY <1>3, <1>4, <2>3
    <3> QED  BY <1>5, <3>1
  <2>4. CASE i \notin DOMAIN s /\ j \notin DOMAIN s
    <3>1. PICK k \in DOMAIN t : i = Len(s) + k
      BY <1>3, <2>4
    <3>2. PICK l \in DOMAIN t : j = Len(s) + l
      BY <1>3, <2>4
    <3>3. t[k] = t[l]
      BY <1>3, <1>5, <3>1, <3>2
    <3> QED  BY <3>1, <3>2, <3>3 DEF Lists
  <2> QED  BY <2>1, <2>2, <2>3, <2>4
<1>6. ASSUME NEW a \in C PROVE \E i \in DOMAIN u : u[i] = a
  <2>1. CASE a \in A
    <3>1. PICK i \in DOMAIN s : s[i] = a
      BY <2>1 DEF Lists
    <3> QED  BY <1>3, <3>1
  <2>2. CASE a \in B
    <3>1. PICK i \in DOMAIN t : t[i] = a
      BY <2>2 DEF Lists
    <3>2. Len(s) + i \in DOMAIN u /\ u[Len(s) + i] = a
      BY <1>3, <3>1
    <3> QED  BY <3>2
  <2> QED  BY <2>1, <2>2 DEF C
<1>7. Lists(u, C)
  BY <1>3, <1>5, <1>6 DEF Lists
<1> QED  BY <1>7 DEF u, C

\* A sequence that is no longer than its members are many.
LEMMA ListsLength ==
    ASSUME NEW A, IsFiniteSet(A), NEW s, Lists(s, A)
    PROVE  Len(s) <= Cardinality(A) /\ Cardinality(A) \in Nat
<1>1. /\ Len(s) \in Nat /\ DOMAIN s = 1 .. Len(s)
      /\ \A i \in DOMAIN s : s[i] \in A
  BY ListFacts
<1>2. Cardinality(A) \in Nat
  BY FS_CardinalityType
<1>3. IsFiniteSet(1 .. Len(s)) /\ Cardinality(1 .. Len(s)) = Len(s)
  <2>1. IsFiniteSet(1 .. Len(s)) /\ Cardinality(1 .. Len(s)) = IF 1 > Len(s) THEN 0 ELSE Len(s) - 1 + 1
    BY <1>1, FS_Interval, SMTT(30)
  <2> QED  BY <1>1, <2>1
<1>4. ASSUME Len(s) > Cardinality(A) PROVE FALSE
  <2> DEFINE T == 1 .. Len(s)
             f == [i \in T |-> s[i]]
  <2>1. f \in [T -> A]
    BY <1>1
  <2>2. Cardinality(A) < Cardinality(T)
    BY <1>1, <1>2, <1>3, <1>4
  <2>3. IsFiniteSet(T)
    BY <1>3
  <2> HIDE DEF T, f
  <2>4. \E i, j \in T : i # j /\ f[i] = f[j]
    BY <2>1, <2>2, <2>3, FS_PigeonHole
  <2> QED  BY <1>1, <2>4 DEF T, f, Lists
<1> QED  BY <1>1, <1>2, <1>4

LEMMA ListsReverse ==
    ASSUME NEW A, NEW s, Lists(s, A)
    PROVE  /\ Lists(Reverse(s), A) /\ Len(Reverse(s)) = Len(s)
           /\ \A i \in DOMAIN s : /\ (Len(s) - i) + 1 \in DOMAIN s
                                  /\ Reverse(s)[(Len(s) - i) + 1] = s[i]
<1> DEFINE t == Reverse(s)
           n == Len(s)
<1>1. /\ n \in Nat /\ DOMAIN s = 1 .. n
      /\ \A i \in DOMAIN s : s[i] \in A
  BY ListFacts
<1>2. t = [i \in 1 .. n |-> s[(n - i) + 1]]
  BY DEF Reverse
<1> HIDE DEF t, n
<1>3. \A i \in 1 .. n : (n - i) + 1 \in 1 .. n /\ (n - ((n - i) + 1)) + 1 = i
  BY <1>1
<1>4. t \in [1 .. n -> A] /\ \A i \in 1 .. n : t[i] = s[(n - i) + 1]
  BY <1>1, <1>2, <1>3
<1>5. t \in Seq(A) /\ DOMAIN t = 1 .. n /\ Len(t) = n
  BY <1>1, <1>4, SeqDef, LenProperties
<1>6. ASSUME NEW i \in DOMAIN t, NEW j \in DOMAIN t, t[i] = t[j] PROVE i = j
  <2>0. /\ (n - i) + 1 \in DOMAIN s /\ (n - j) + 1 \in DOMAIN s
        /\ s[(n - i) + 1] = s[(n - j) + 1]
    BY <1>1, <1>3, <1>4, <1>5, <1>6
  <2>1. (n - i) + 1 = (n - j) + 1
    BY <2>0 DEF Lists
  <2> QED  BY <1>1, <1>5, <2>1
<1>7. \A i \in DOMAIN s : (n - i) + 1 \in DOMAIN s /\ t[(n - i) + 1] = s[i]
  BY <1>1, <1>3, <1>4
<1>8. \A a \in A : \E i \in DOMAIN t : t[i] = a
  BY <1>1, <1>5, <1>7 DEF Lists
<1> QED  BY <1>5, <1>6, <1>7, <1>8 DEF Lists, t, n

LEMMA SortedLists ==
    ASSUME NEW A, IsFiniteSet(A), \A a \in A : a \in Nat
    PROVE  Lists(Sorted(A), A)
<1> DEFINE n == Cardinality(A)
           below == [a \in A |-> {b \in A : b < a}]
           s == Sorted(A)
<1>1. n \in Nat
  BY FS_CardinalityType
<1>2. \A a \in A : below[a] = {b \in A : b < a}
  OBVIOUS
<1>0. below \in [A -> SUBSET A]
  OBVIOUS
<1>3. s = [k \in 1 .. n |-> CHOOSE a \in A : Cardinality({b \in A : b < a}) = k - 1]
  BY DEF Sorted
<1> HIDE DEF below, s
<1>a. \A a \in A : a \notin below[a]
  BY <1>2
<1>b. \A a, b \in A : a \in below[b] => below[a] \subseteq below[b]
  <2> SUFFICES ASSUME NEW a \in A, NEW b \in A, a \in below[b], NEW c \in below[a]
               PROVE  c \in below[b]
    OBVIOUS
  <2>1. c \in A /\ c < a /\ a < b
    BY <1>2
  <2> QED  BY <1>2, <2>1
<1>c. \A a, b \in A : a # b => a \in below[b] \/ b \in below[a]
  <2> SUFFICES ASSUME NEW a \in A, NEW b \in A, a # b
               PROVE  a \in below[b] \/ b \in below[a]
    OBVIOUS
  <2>1. a < b \/ b < a
    OBVIOUS
  <2> QED  BY <1>2, <2>1
<1>4. ASSUME NEW k \in 1 .. n PROVE \E a \in A : Cardinality(below[a]) = k - 1
  BY <1>0, <1>1, <1>a, <1>b, <1>c, RanksTaken
<1>5. \A k \in 1 .. n : s[k] \in A /\ Cardinality(below[s[k]]) = k - 1
  <2> SUFFICES ASSUME NEW k \in 1 .. n PROVE s[k] \in A /\ Cardinality(below[s[k]]) = k - 1
    OBVIOUS
  <2>1. \E a \in A : Cardinality({b \in A : b < a}) = k - 1
    BY <1>2, <1>4
  <2>2. s[k] \in A /\ Cardinality({b \in A : b < s[k]}) = k - 1
    BY <1>3, <2>1
  <2> QED  BY <1>2, <2>2
<1>6. \A a, b \in A : a \in below[b] => Cardinality(below[a]) # Cardinality(below[b])
  <2> SUFFICES ASSUME NEW a \in A, NEW b \in A, a \in below[b]
               PROVE  Cardinality(below[a]) # Cardinality(below[b])
    OBVIOUS
  <2>1. /\ Cardinality(below[a]) \in Nat /\ Cardinality(below[b]) \in Nat
        /\ Cardinality(below[a]) < Cardinality(below[b])
    BY <1>0, <1>a, <1>b, RanksDiffer
  <2> QED  BY <2>1
<1>7. s \in Seq(A) /\ DOMAIN s = 1 .. n
  <2>1. s \in [1 .. n -> A]
    BY <1>3, <1>5
  <2> QED  BY <1>1, <2>1, SeqDef
<1>8. ASSUME NEW i \in DOMAIN s, NEW j \in DOMAIN s, s[i] = s[j] PROVE i = j
  <2>1. i - 1 = j - 1
    BY <1>5, <1>7, <1>8
  <2> QED  BY <1>1, <1>7, <2>1
<1>9. ASSUME NEW a \in A PROVE \E i \in DOMAIN s : s[i] = a
  <2>1. Cardinality(below[a]) + 1 \in 1 .. n
    <3>1. below[a] \in SUBSET A /\ below[a] # A
      BY <1>2
    <3>2. Cardinality(below[a]) \in Nat /\ Cardinality(below[a]) <= n
      BY <3>1, FS_Subset, FS_CardinalityType
    <3>3. Cardinality(below[a]) # n
      BY <3>1, FS_Subset
    <3> QED  BY <1>1, <3>2, <3>3
  <2> DEFINE k == Cardinality(below[a]) + 1
  <2>2. k \in DOMAIN s /\ s[k] \in A /\ Cardinality(below[s[k]]) = Cardinality(below[a])
    <3>1. Cardinality(below[a]) \in Int
      BY <1>2, FS_Subset, FS_CardinalityType
    <3> QED  BY <1>5, <1>7, <2>1, <3>1
  <2>3. s[k] = a
    BY <1>c, <1>6, <2>2
  <2> QED  BY <2>2, <2>3
<1> QED  BY <1>7, <1>8, <1>9 DEF Lists, s
-----------------------------------------------------------------------------
(***************************************************************************)
(* A graph that Cyclic lets pass has in every set of nodes one that        *)
(* depends on none of the set.                                             *)
(***************************************************************************)
LEMMA ReachedSteps ==
    ASSUME NEW g, IsFiniteSet(DOMAIN g), NEW from
    PROVE  /\ Reached(g, from)[0] = from
           /\ \A k \in 1 .. Cardinality(DOMAIN g) :
                Reached(g, from)[k] =
                  Reached(g, from)[k - 1]
                    \cup {x \in DOMAIN g : g[x] \cap Reached(g, from)[k - 1] # {}}
<1> DEFINE n == Cardinality(DOMAIN g)
           S == SUBSET (from \cup DOMAIN g)
           more(T) == T \cup {x \in DOMAIN g : g[x] \cap T # {}}
           step == [T \in S |-> more(T)]
           table(f) == [k \in 0 .. n |-> IF k = 0 THEN from ELSE more(f[k - 1])]
<1>1. n \in Nat
  BY FS_CardinalityType
<1>2. from \in S /\ step \in [S -> S]
  OBVIOUS
<1>3. \E f : f = table(f)
  <2> HIDE DEF step, S, n
  <2>1. PICK f : Repeats(f, S, from, step, n)
    BY <1>1, <1>2, Repeated, Zenon
  <2>2. f \in [0 .. n -> S] /\ f[0] = from /\ \A k \in 1 .. n : f[k] = step[f[k - 1]]
    BY <2>1 DEF Repeats
  <2>3. ASSUME NEW k \in 1 .. n PROVE f[k] = more(f[k - 1])
    <3>1. f[k - 1] \in S
      BY <1>1, <2>2
    <3> HIDE DEF more
    <3> QED  BY <2>2, <3>1 DEF step
  <2> HIDE DEF more
  <2>4. f = table(f)
    BY <1>1, <2>2, <2>3
  <2> QED  BY <2>4
<1>4. Reached(g, from) = CHOOSE f : f = table(f)
  BY DEF Reached
<1>5. Reached(g, from) = table(Reached(g, from))
  <2> HIDE DEF table
  <2> QED  BY <1>3, <1>4, Zenon
<1> HIDE DEF n, more
<1>6. \A r : r = table(r) => r[0] = from /\ \A k \in 1 .. n : r[k] = more(r[k - 1])
  BY <1>1
<1>7. /\ Reached(g, from)[0] = from
      /\ \A k \in 1 .. n : Reached(g, from)[k] = more(Reached(g, from)[k - 1])
  BY <1>5, <1>6
<1> QED  BY <1>7 DEF more, n

\* Otherwise one can go on from node to node in the set, and comes back to a
\* node within as many steps as there are nodes.
LEMMA AcyclicIsFounded ==
    ASSUME NEW g, IsFiniteSet(DOMAIN g), ~Cyclic(g)
    PROVE  Founded(g, DOMAIN g)
<1> SUFFICES ASSUME NEW S \in SUBSET DOMAIN g, S # {}, \A x \in S : g[x] \cap S # {}
             PROVE  FALSE
  BY DEF Founded
<1> DEFINE n == Cardinality(DOMAIN g)
           step == [x \in S |-> CHOOSE y \in S : y \in g[x]]
<1>1. n \in Nat
  BY FS_CardinalityType
<1>2. \A x \in S : step[x] \in S /\ step[x] \in g[x]
  OBVIOUS
<1>3. step \in [S -> S]
  BY <1>2
<1> HIDE DEF step
<1>4. PICK w : Returns(w, S, step, n)
  BY <1>3, WalkReturns
<1> HIDE DEF n
<1>5. w \in [0 .. n -> S] /\ \A k \in 1 .. n : w[k] \in g[w[k - 1]]
  <2>1. w \in [0 .. n -> S] /\ \A k \in 1 .. n : w[k] = step[w[k - 1]]
    BY <1>4 DEF Returns
  <2>2. \A k \in 1 .. n : w[k - 1] \in S
    BY <1>1, <2>1
  <2> QED  BY <1>2, <2>1, <2>2
<1>6. PICK i \in 0 .. n, j \in 0 .. n : i < j /\ w[i] = w[j]
  BY <1>4 DEF Returns
<1> DEFINE r == Reached(g, {w[j]})
<1>7. /\ r[0] = {w[j]}
      /\ \A k \in 1 .. n : r[k] = r[k - 1] \cup {x \in DOMAIN g : g[x] \cap r[k - 1] # {}}
  <2> DEFINE from == {w[j]}
  <2> HIDE DEF from
  <2>1. /\ Reached(g, from)[0] = from
        /\ \A k \in 1 .. n :
             Reached(g, from)[k] =
               Reached(g, from)[k - 1]
                 \cup {x \in DOMAIN g : g[x] \cap Reached(g, from)[k - 1] # {}}
    BY ReachedSteps DEF n
  <2> QED  BY <2>1 DEF from
<1> HIDE DEF r
<1>8. \A k \in 0 .. n : w[k] \in DOMAIN g
  BY <1>5
<1>9. ASSUME NEW k \in Nat, k <= j PROVE w[j - k] \in r[k]
  <2> DEFINE A == {l \in Nat : l <= j => w[j - l] \in r[l]}
  <2>1. 0 \in A
    <3>1. j - 0 = j
      BY <1>1
    <3> QED  BY <1>7, <3>1
  <2>2. ASSUME NEW l \in Nat, l \in A PROVE l + 1 \in A
    <3> SUFFICES ASSUME l + 1 <= j PROVE w[j - (l + 1)] \in r[l + 1]
      OBVIOUS
    <3>1. /\ j - l \in 1 .. n /\ (j - l) - 1 = j - (l + 1) /\ l + 1 \in 1 .. n
          /\ (l + 1) - 1 = l /\ l <= j /\ j - (l + 1) \in 0 .. n
      BY <1>1
    <3>2. w[j - l] \in r[l]
      BY <2>2, <3>1
    <3>3. w[j - l] \in g[w[j - (l + 1)]]
      BY <1>5, <3>1
    <3>4. w[j - (l + 1)] \in DOMAIN g
      BY <1>8, <3>1
    <3>5. r[l + 1] = r[l] \cup {x \in DOMAIN g : g[x] \cap r[l] # {}}
      BY <1>7, <3>1
    <3> QED  BY <3>2, <3>3, <3>4, <3>5
  <2>3. k \in A
    <3> HIDE DEF A
    <3> QED  BY <2>1, <2>2, SetInduction
  <2> QED  BY <1>9, <2>3
<1> DEFINE c == j - (i + 1)
           x == w[i + 1]
<1>10. c \in Nat /\ c <= n /\ c <= j /\ j - c = i + 1 /\ i + 1 \in 1 .. n
  BY <1>1, <1>6
<1>11. x \in r[c]
  BY <1>9, <1>10
<1>12. x \in r[n]
  <2> DEFINE A == {l \in Nat : c + l <= n => x \in r[c + l]}
  <2> HIDE DEF c, x
  <2>1. 0 \in A
    BY <1>10, <1>11
  <2>2. ASSUME NEW l \in Nat, l \in A PROVE l + 1 \in A
    <3> SUFFICES ASSUME c + (l + 1) <= n PROVE x \in r[c + (l + 1)]
      OBVIOUS
    <3>1. /\ c + (l + 1) \in 1 .. n /\ (c + (l + 1)) - 1 = c + l /\ c + l <= n
      BY <1>1, <1>10
    <3>2. r[c + l] \subseteq r[c + (l + 1)]
      <4>1. r[c + (l + 1)] =
              r[(c + (l + 1)) - 1]
                \cup {y \in DOMAIN g : g[y] \cap r[(c + (l + 1)) - 1] # {}}
        BY <1>7, <3>1
      <4> QED  BY <3>1, <4>1
    <3> QED  BY <2>2, <3>1, <3>2
  <2>3. n - c \in Nat /\ c + (n - c) = n /\ c + (n - c) <= n
    BY <1>1, <1>10
  <2>4. n - c \in A
    <3> HIDE DEF A
    <3> QED  BY <2>1, <2>2, <2>3, SetInduction
  <2> QED  BY <2>3, <2>4
<1>13. x \in Downstream(g, {w[j]})
  BY <1>12 DEF Downstream, r, n
<1>14. x \in g[w[j]] /\ w[j] \in DOMAIN g
  <2>1. (i + 1) - 1 = i
    BY <1>1
  <2> QED  BY <1>5, <1>6, <1>8, <1>10, <2>1
<1> QED  BY <1>13, <1>14 DEF Cyclic
-----------------------------------------------------------------------------
(***************************************************************************)
(* The topological order has every node once; without cycles each node     *)
(* comes after what it depends on.                                         *)
(***************************************************************************)
States(g) == [queue : Seq(DOMAIN g), done : Seq(DOMAIN g)]
Start(g) == [queue |-> Sorted({n \in DOMAIN g : g[n] = {}}), done |-> <<>>]
NextTurn(g, s) == IF s.queue = <<>> THEN s ELSE Turn(g, s)

LEMMA SortedIn ==
    ASSUME NEW D, IsFiniteSet(D), \A a \in D : a \in Nat, NEW A \in SUBSET D
    PROVE  Lists(Sorted(A), A) /\ Sorted(A) \in Seq(D)
<1>1. IsFiniteSet(A) /\ \A a \in A : a \in Nat
  BY FS_Subset
<1>2. Lists(Sorted(A), A)
  BY <1>1, SortedLists
<1>3. Sorted(A) \in Seq(A)
  BY <1>2 DEF Lists
<1> QED  BY <1>2, <1>3

LEMMA TurnsSteps ==
    ASSUME NEW g, IsFiniteSet(DOMAIN g), \A a \in DOMAIN g : a \in Nat
    PROVE  /\ Turns(g)[0] = Start(g)
           /\ \A k \in 1 .. Cardinality(DOMAIN g) : Turns(g)[k] = NextTurn(g, Turns(g)[k - 1])
<1> DEFINE D == DOMAIN g
           n == Cardinality(D)
           S == States(g)
           step == [s \in S |-> NextTurn(g, s)]
           table(f) == [k \in 0 .. n |-> IF k = 0 THEN Start(g) ELSE NextTurn(g, f[k - 1])]
<1>1. n \in Nat
  BY FS_CardinalityType
<1>2. Start(g) \in S
  <2>1. Sorted({a \in D : g[a] = {}}) \in Seq(D)
    <3>1. {a \in D : g[a] = {}} \in SUBSET D
      OBVIOUS
    <3> QED  BY <3>1, SortedIn
  <2>2. <<>> \in Seq(D)
    BY EmptySeq
  <2> QED  BY <2>1, <2>2 DEF Start, States
<1>3. \A s \in S : NextTurn(g, s) \in S
  <2> SUFFICES ASSUME NEW s \in S, s.queue # <<>> PROVE Turn(g, s) \in S
    BY DEF NextTurn
  <2> DEFINE done == Append(s.done, Head(s.queue))
             freed == {a \in D : Head(s.queue) \in g[a] /\ g[a] \subseteq ToSet(done)}
  <2>1. s.queue \in Seq(D) /\ s.done \in Seq(D)
    BY DEF States
  <2>2. Head(s.queue) \in D /\ Tail(s.queue) \in Seq(D)
    BY <2>1, HeadTailProperties
  <2>3. done \in Seq(D)
    BY <2>1, <2>2, AppendProperties
  <2> HIDE DEF done
  <2>4. Sorted(freed) \in Seq(D)
    <3>1. freed \in SUBSET D
      OBVIOUS
    <3> HIDE DEF freed
    <3> QED  BY <3>1, SortedIn
  <2>5. Tail(s.queue) \o Sorted(freed) \in Seq(D)
    <3> HIDE DEF freed
    <3> QED  BY <2>2, <2>4, ConcatProperties
  <2>6. Turn(g, s) = [queue |-> Tail(s.queue) \o Sorted(freed), done |-> done]
    BY DEF Turn, done
  <2> HIDE DEF freed
  <2> QED  BY <2>3, <2>5, <2>6 DEF States
<1>4. step \in [S -> S]
  BY <1>3
<1>5. \E f : f = table(f)
  <2> HIDE DEF step, S, n
  <2>1. PICK f : Repeats(f, S, Start(g), step, n)
    BY <1>1, <1>2, <1>4, Repeated, Zenon
  <2>2. /\ f \in [0 .. n -> S] /\ f[0] = Start(g)
        /\ \A k \in 1 .. n : f[k] = step[f[k - 1]]
    BY <2>1 DEF Repeats
  <2>3. ASSUME NEW k \in 1 .. n PROVE f[k] = NextTurn(g, f[k - 1])
    <3>1. f[k - 1] \in S
      BY <1>1, <2>2
    <3> QED  BY <2>2, <3>1 DEF step
  <2>4. f = table(f)
    BY <1>1, <2>2, <2>3
  <2> QED  BY <2>4
<1>6. Turns(g) = CHOOSE f : f = table(f)
  BY DEF Turns, NextTurn, Start
<1>7. Turns(g) = table(Turns(g))
  <2> HIDE DEF table
  <2> QED  BY <1>5, <1>6, Zenon
<1> HIDE DEF n
<1>8. \A f : f = table(f) =>
          f[0] = Start(g) /\ \A k \in 1 .. n : f[k] = NextTurn(g, f[k - 1])
  BY <1>1
<1>9. Turns(g)[0] = Start(g) /\ \A k \in 1 .. n : Turns(g)[k] = NextTurn(g, Turns(g)[k - 1])
  BY <1>7, <1>8
<1> QED  BY <1>9 DEF n

\* After k turns: what is done or queued is what depends on nothing but what
\* is done, and every turn that was not idle has done one.
Drains(g, s, k) ==
    /\ Lists(s.queue, ToSet(s.queue)) /\ Lists(s.done, ToSet(s.done))
    /\ ToSet(s.queue) \cap ToSet(s.done) = {}
    /\ ToSet(s.queue) \cup ToSet(s.done) = {n \in DOMAIN g : g[n] \subseteq ToSet(s.done)}
    /\ Follows(s.done, g)
    /\ s.queue # <<>> => Len(s.done) = k

LEMMA StartDrains ==
    ASSUME NEW g, IsFiniteSet(DOMAIN g), \A a \in DOMAIN g : a \in Nat
    PROVE  Drains(g, Start(g), 0)
<1> DEFINE D == DOMAIN g
           free == {a \in D : g[a] = {}}
<1>1. Start(g) = [queue |-> Sorted(free), done |-> <<>>]
  BY DEF Start
<1>2. Lists(Sorted(free), free)
  <2>1. free \in SUBSET D
    OBVIOUS
  <2> HIDE DEF free
  <2> QED  BY <2>1, SortedIn
<1>3. Lists(<<>>, {}) /\ ToSet(<<>>) = {} /\ Len(<<>>) = 0
  BY ListsNone, ListFacts
<1>4. ToSet(Sorted(free)) = free
  <2> HIDE DEF free
  <2> QED  BY <1>2, ListFacts
<1>5. Follows(<<>>, g)
  <2>1. DOMAIN <<>> = {}
    BY <1>3 DEF Lists
  <2> QED  BY <2>1 DEF Follows
<1> DEFINE s == Start(g)
<1>6. s.queue = Sorted(free) /\ s.done = <<>>
  BY <1>1
<1> HIDE DEF s
<1>7. free = {a \in D : g[a] \subseteq {}}
  OBVIOUS
<1> HIDE DEF free
<1>8. Drains(g, s, 0)
  BY <1>2, <1>3, <1>4, <1>5, <1>6, <1>7 DEF Drains
<1> QED  BY <1>8 DEF s

LEMMA TurnDrains ==
    ASSUME NEW g, IsFiniteSet(DOMAIN g), \A a \in DOMAIN g : a \in Nat,
           NEW s, NEW k \in Nat, Drains(g, s, k), s.queue # <<>>
    PROVE  Drains(g, Turn(g, s), k + 1)
<1> DEFINE D == DOMAIN g
           Q == ToSet(s.queue)
           F == ToSet(s.done)
           x == Head(s.queue)
           done == Append(s.done, x)
           freed == {a \in D : x \in g[a] /\ g[a] \subseteq ToSet(done)}
           queue == Tail(s.queue) \o Sorted(freed)
           t == Turn(g, s)
<1>1. t.queue = queue /\ t.done = done
  BY DEF Turn
<1>2. /\ Lists(s.queue, Q) /\ Lists(s.done, F) /\ Q \cap F = {}
      /\ Q \cup F = {a \in D : g[a] \subseteq F}
      /\ Follows(s.done, g) /\ Len(s.done) = k
  BY DEF Drains
<1> HIDE DEF Q, F, t
<1>3. x \in Q /\ x \notin F /\ Lists(Tail(s.queue), Q \ {x})
  BY <1>2, ListsTail
<1> HIDE DEF x
<1>4. /\ Lists(done, F \cup {x}) /\ Len(done) = k + 1
      /\ \A i \in DOMAIN s.done : done[i] = s.done[i]
      /\ done[k + 1] = x
  BY <1>2, <1>3, ListsMore
<1> HIDE DEF done
<1>5. ToSet(done) = F \cup {x}
  BY <1>4, ListFacts
<1>6. /\ freed \in SUBSET D /\ freed \cap Q = {} /\ freed \cap (F \cup {x}) = {}
      /\ {a \in D : g[a] \subseteq F \cup {x}} = (Q \ {x}) \cup freed \cup (F \cup {x})
  <2>1. \A a \in Q \cup F : a \in D /\ g[a] \subseteq F
    BY <1>2
  <2>2. \A a \in D : a \in freed <=> x \in g[a] /\ g[a] \subseteq F \cup {x}
    BY <1>5
  <2>3. freed \in SUBSET D
    OBVIOUS
  <2>4. freed \cap Q = {} /\ freed \cap (F \cup {x}) = {}
    BY <1>3, <2>1, <2>2, <2>3
  <2>5. \A a \in D : g[a] \subseteq F \cup {x} <=> a \in (Q \ {x}) \cup freed \cup (F \cup {x})
    <3> SUFFICES ASSUME NEW a \in D
                 PROVE  g[a] \subseteq F \cup {x} <=> a \in (Q \ {x}) \cup freed \cup (F \cup {x})
      OBVIOUS
    <3>1. CASE x \in g[a]
      <4>1. a \notin Q \cup F
        BY <1>3, <2>1, <3>1
      <4> QED  BY <1>3, <2>2, <3>1, <4>1
    <3>2. CASE x \notin g[a]
      <4>1. a \notin freed
        BY <2>2, <3>2
      <4>2. g[a] \subseteq F \cup {x} <=> g[a] \subseteq F
        BY <3>2
      <4>3. g[a] \subseteq F <=> a \in Q \cup F
        BY <1>2
      <4> QED  BY <1>3, <4>1, <4>2, <4>3
    <3> QED  BY <3>1, <3>2
  <2>6. (Q \ {x}) \cup freed \cup (F \cup {x}) \subseteq D
    BY <1>3, <2>1, <2>3
  <2> HIDE DEF freed
  <2> QED  BY <2>3, <2>4, <2>5, <2>6
<1> HIDE DEF freed
<1>7. Lists(Sorted(freed), freed)
  BY <1>6, SortedIn
<1>8. Lists(queue, (Q \ {x}) \cup freed)
  <2>1. (Q \ {x}) \cap freed = {}
    BY <1>6
  <2> QED  BY <1>3, <1>7, <2>1, ListsCat
<1> HIDE DEF queue
<1>9. ToSet(queue) = (Q \ {x}) \cup freed
  BY <1>8, ListFacts
<1>10. Follows(done, g)
  <2> SUFFICES ASSUME NEW i \in DOMAIN done, NEW m \in g[done[i]]
               PROVE  \E j \in DOMAIN done : j < i /\ done[j] = m
    BY DEF Follows
  <2>1. DOMAIN s.done = 1 .. k /\ DOMAIN done = 1 .. (k + 1)
    BY <1>2, <1>4, ListFacts
  <2>2. CASE i \in DOMAIN s.done
    <3>1. done[i] = s.done[i]
      BY <1>4, <2>2
    <3>2. PICK j \in DOMAIN s.done : j < i /\ s.done[j] = m
      BY <1>2, <2>2, <3>1 DEF Follows
    <3>3. j \in DOMAIN done /\ done[j] = m
      BY <1>4, <2>1, <3>2
    <3> QED  BY <3>2, <3>3
  <2>3. CASE i \notin DOMAIN s.done
    <3>1. i = k + 1
      BY <2>1, <2>3
    <3>2. m \in F
      BY <1>2, <1>3, <1>4, <3>1
    <3>3. PICK j \in DOMAIN s.done : s.done[j] = m
      BY <1>2, <3>2 DEF Lists
    <3>4. j \in DOMAIN done /\ done[j] = m /\ j < i
      BY <1>4, <2>1, <3>1, <3>3
    <3> QED  BY <3>4
  <2> QED  BY <2>2, <2>3
<1>11. ((Q \ {x}) \cup freed) \cap (F \cup {x}) = {}
  BY <1>2, <1>6
<1>12. Drains(g, t, k + 1)
  BY <1>1, <1>4, <1>5, <1>6, <1>8, <1>9, <1>10, <1>11 DEF Drains
<1> QED  BY <1>12 DEF t

(***************************************************************************)
(* topological_dependency_order, for every graph: the order has each node  *)
(* once, cycles or not, and unless there is a cycle each node comes after  *)
(* all it depends on.                                                      *)
(***************************************************************************)
THEOREM TopologicalLists ==
    ASSUME NEW g, IsFiniteSet(DOMAIN g), \A a \in DOMAIN g : a \in Nat,
           \A a \in DOMAIN g : g[a] \subseteq DOMAIN g
    PROVE  /\ Lists(TopologicalOrder(g), DOMAIN g)
           /\ Founded(g, DOMAIN g) => Follows(TopologicalOrder(g), g)
<1> DEFINE D == DOMAIN g
           n == Cardinality(D)
           s == Turns(g)[n]
           F == ToSet(s.done)
           R == D \ F
           o == s.done \o Sorted(R)
<1>1. n \in Nat
  BY FS_CardinalityType
<1>2. Drains(g, s, n)
  <2> DEFINE A == {k \in Nat : k <= n => Drains(g, Turns(g)[k], k)}
  <2>1. 0 \in A
    BY StartDrains, TurnsSteps
  <2>2. ASSUME NEW k \in Nat, k \in A PROVE k + 1 \in A
    <3> SUFFICES ASSUME k + 1 <= n PROVE Drains(g, Turns(g)[k + 1], k + 1)
      OBVIOUS
    <3>1. k + 1 \in 1 .. n /\ (k + 1) - 1 = k /\ k <= n
      BY <1>1
    <3>2. Turns(g)[k + 1] = NextTurn(g, Turns(g)[k])
      <4>1. Turns(g)[k + 1] = NextTurn(g, Turns(g)[(k + 1) - 1])
        BY <3>1, TurnsSteps
      <4> QED  BY <3>1, <4>1
    <3> DEFINE before == Turns(g)[k]
    <3>3. Drains(g, before, k)
      BY <2>2, <3>1
    <3> HIDE DEF before
    <3>4. CASE before.queue = <<>>
      <4>1. Drains(g, before, k + 1)
        BY <3>3, <3>4 DEF Drains
      <4> QED  BY <3>2, <3>4, <4>1 DEF NextTurn, before
    <3>5. CASE before.queue # <<>>
      <4>1. Drains(g, Turn(g, before), k + 1)
        BY <3>3, <3>5, TurnDrains
      <4> QED  BY <3>2, <3>5, <4>1 DEF NextTurn, before
    <3> QED  BY <3>4, <3>5
  <2>3. n \in A
    <3> HIDE DEF A
    <3> QED  BY <1>1, <2>1, <2>2, SetInduction
  <2> QED  BY <1>1, <2>3
<1>3. TopologicalOrder(g) = o
  BY DEF TopologicalOrder
<1> HIDE DEF s
<1>4. /\ Lists(s.queue, ToSet(s.queue)) /\ Lists(s.done, F) /\ ToSet(s.queue) \cap F = {}
      /\ ToSet(s.queue) \cup F = {a \in D : g[a] \subseteq F}
      /\ Follows(s.done, g)
      /\ s.queue # <<>> => Len(s.done) = n
  BY <1>2 DEF Drains
<1> HIDE DEF F
<1>5. s.queue = <<>>
  <2> SUFFICES ASSUME s.queue # <<>> PROVE FALSE
    OBVIOUS
  <2> DEFINE x == Head(s.queue)
  <2>1. x \in ToSet(s.queue) /\ x \notin F
    BY <1>4, ListsTail
  <2> HIDE DEF x
  <2>2. Lists(Append(s.done, x), F \cup {x}) /\ Len(Append(s.done, x)) = Len(s.done) + 1
    BY <1>4, <2>1, ListsMore
  <2>3. F \cup {x} \in SUBSET D
    BY <1>4, <2>1
  <2>4. IsFiniteSet(F \cup {x}) /\ Cardinality(F \cup {x}) <= n
    BY <2>3, FS_Subset
  <2>5. /\ Len(Append(s.done, x)) <= Cardinality(F \cup {x})
        /\ Cardinality(F \cup {x}) \in Nat
    BY <2>2, <2>4, ListsLength
  <2> HIDE DEF n
  <2> QED  BY <1>1, <1>4, <2>2, <2>4, <2>5
<1>6. F = {a \in D : g[a] \subseteq F}
  <2>1. ToSet(s.queue) = {}
    <3>1. ToSet(<<>>) = {}
      BY ListsNone, ListFacts
    <3> QED  BY <1>5, <3>1
  <2> QED  BY <1>4, <2>1
<1>7. Lists(Sorted(R), R)
  BY SortedIn
<1>8. Lists(o, D)
  <2>0. F \subseteq D
    BY <1>4
  <2>1. F \cap R = {} /\ F \cup R = D
    BY <2>0
  <2> HIDE DEF R
  <2>2. Lists(o, F \cup R)
    BY <1>4, <1>7, <2>1, ListsCat
  <2> QED  BY <2>1, <2>2
<1>9. ASSUME Founded(g, D) PROVE Follows(o, g)
  <2>1. R = {}
    <3> SUFFICES ASSUME R # {} PROVE FALSE
      OBVIOUS
    <3>1. PICK a \in R : g[a] \cap R = {}
      BY <1>9 DEF Founded
    <3>2. g[a] \subseteq F
      BY <3>1
    <3> QED  BY <1>6, <3>1, <3>2
  <2> DEFINE t == Sorted(R)
  <2>2. t \in Seq(D) /\ s.done \in Seq(D) /\ \A i \in DOMAIN t : FALSE
    <3>1. t \in Seq(R) /\ \A i \in DOMAIN t : t[i] \in R
      <4> HIDE DEF R
      <4> QED  BY <1>7, ListFacts
    <3>2. s.done \in Seq(F) /\ F \subseteq D
      BY <1>4, <1>6, ListFacts
    <3> HIDE DEF t
    <3> QED  BY <2>1, <3>1, <3>2
  <2>3. o = s.done \o t
    OBVIOUS
  <2> HIDE DEF t, o, R
  <2> DEFINE u == s.done
  <2>u. u \in Seq(D) /\ o = u \o t
    BY <2>2, <2>3
  <2> HIDE DEF u
  <2>4. /\ \A i \in DOMAIN u : i \in DOMAIN o /\ o[i] = u[i]
        /\ \A i \in DOMAIN o : i \in DOMAIN u
    <3>1. /\ \A i \in DOMAIN u : i \in DOMAIN (u \o t) /\ (u \o t)[i] = u[i]
          /\ \A i \in DOMAIN (u \o t) : i \in DOMAIN u \/ \E k \in DOMAIN t : i = Len(u) + k
      BY <2>2, <2>u, CatFacts
    <3> QED  BY <2>2, <2>u, <3>1
  <2> QED  BY <1>4, <2>4 DEF Follows, u
<1> QED  BY <1>3, <1>8, <1>9
-----------------------------------------------------------------------------
(***************************************************************************)
(* The operations of a plan.                                               *)
(***************************************************************************)

\* Two mappings agree about a domain.
Agree(rs, ts, d) == Part(rs, Of(d)) = Part(ts, Of(d))

\* No ordering cycle among the resources of A.
Acyclic(rs, A) ==
    \A S \in SUBSET (DOMAIN rs \cap A) : S # {} => \E a \in S : rs[a].ordering \cap S = {}

\* What F is in the plan for the resources rs over entries that are base in d.
Plans(F, rs, base, d) ==
    /\ F \in Seq(Ops)
    /\ \A i \in DOMAIN F : F[i].address \in Of(d)
    /\ \A i, j \in DOMAIN F : F[i].address = F[j].address => i = j
    /\ \A a \in Of(d) : a \in DOMAIN rs \/ a \in DOMAIN base => \E i \in DOMAIN F : F[i].address = a
    /\ \A i \in DOMAIN F :
        /\ F[i].address \in DOMAIN rs => /\ F[i].action # "delete"
                                        /\ F[i].resource = rs[F[i].address]
        /\ F[i].address \notin DOMAIN rs => /\ F[i].action = "delete"
                                           /\ F[i].address \in DOMAIN base
        /\ F[i].action = "unchanged" => /\ F[i].address \in DOMAIN base
                                        /\ base[F[i].address] = F[i].resource
    /\ \A i, j \in DOMAIN F : /\ F[i].address \in DOMAIN rs
                             /\ F[j].address \notin DOMAIN rs => i < j
    /\ Acyclic(rs, Of(d)) =>
        \A i \in DOMAIN F : F[i].address \in DOMAIN rs =>
            \A m \in rs[F[i].address].ordering \cap Of(d) :
                m \in DOMAIN rs => \E j \in DOMAIN F : j < i /\ F[j].address = m
    /\ Acyclic(base, Of(d)) =>
        \A i \in DOMAIN F : F[i].address \notin DOMAIN rs =>
            \A m \in base[F[i].address].ordering \cap Of(d) :
                m \in DOMAIN base /\ m \notin DOMAIN rs =>
                    \E j \in DOMAIN F : i < j /\ F[j].address = m

(***************************************************************************)
(* Agreement compares the two functions address by address.                *)
(***************************************************************************)
LEMMA AgreePointwise ==
    ASSUME NEW rs, NEW ts, NEW d
    PROVE  Agree(rs, ts, d) <=>
              \A a \in Of(d) : /\ a \in DOMAIN rs <=> a \in DOMAIN ts
                               /\ a \in DOMAIN rs => rs[a] = ts[a]
<1>1. ASSUME Agree(rs, ts, d), NEW a \in Of(d)
      PROVE  /\ a \in DOMAIN rs <=> a \in DOMAIN ts
             /\ a \in DOMAIN rs => rs[a] = ts[a]
  <2>1. DOMAIN rs \cap Of(d) = DOMAIN ts \cap Of(d)
    <3>1. DOMAIN Part(rs, Of(d)) = DOMAIN Part(ts, Of(d))
      BY <1>1 DEF Agree
    <3> QED  BY <3>1 DEF Part
  <2>2. a \in DOMAIN rs => Part(rs, Of(d))[a] = rs[a] /\ Part(ts, Of(d))[a] = ts[a]
    BY <1>1, <2>1 DEF Part
  <2> QED  BY <1>1, <2>1, <2>2 DEF Agree
<1>2. ASSUME \A a \in Of(d) : /\ a \in DOMAIN rs <=> a \in DOMAIN ts
                              /\ a \in DOMAIN rs => rs[a] = ts[a]
      PROVE  Agree(rs, ts, d)
  <2>1. DOMAIN rs \cap Of(d) = DOMAIN ts \cap Of(d)
    BY <1>2
  <2>2. \A a \in DOMAIN rs \cap Of(d) : rs[a] = ts[a]
    BY <1>2
  <2> QED  BY <2>1, <2>2 DEF Agree, Part
<1> QED  BY <1>1, <1>2

\* The ordering graph of the resources in A.
LEMMA PartGraph ==
    ASSUME NEW rs, NEW A
    PROVE  /\ DOMAIN OrderingGraph(Part(rs, A)) = DOMAIN rs \cap A
           /\ \A a \in DOMAIN rs \cap A :
                OrderingGraph(Part(rs, A))[a] = rs[a].ordering \cap (DOMAIN rs \cap A)
<1> DEFINE D == DOMAIN rs \cap A
           g == OrderingGraph(Part(rs, A))
<1>1. DOMAIN g = D /\ \A a \in D : g[a] = rs[a].ordering \cap D
  <2>1. DOMAIN Part(rs, A) = D /\ \A a \in D : Part(rs, A)[a] = rs[a]
    BY DEF Part
  <2> DEFINE p == Part(rs, A)
             f == [a \in DOMAIN p |-> p[a].ordering]
  <2> HIDE DEF p
  <2>2. DOMAIN f = D /\ \A a \in D : f[a] = rs[a].ordering
    BY <2>1 DEF p
  <2>3. g = [n \in DOMAIN f |-> f[n] \cap DOMAIN f]
    BY DEF OrderingGraph, Known, p
  <2> HIDE DEF f
  <2> QED  BY <2>2, <2>3
<1> QED  BY <1>1

\* What a resource of A is ordered after comes before it in o.
InOrder(o, rs, A) ==
    \A i \in DOMAIN o : \A m \in rs[o[i]].ordering :
        m \in DOMAIN rs \cap A => \E j \in DOMAIN o : j < i /\ o[j] = m

\* The startup order of the resources in A.
LEMMA StartupOrder ==
    ASSUME NEW rs, AreResources(rs), NEW A
    PROVE  /\ Lists(TopologicalOrder(OrderingGraph(Part(rs, A))), DOMAIN rs \cap A)
           /\ Acyclic(rs, A) =>
                InOrder(TopologicalOrder(OrderingGraph(Part(rs, A))), rs, A)
<1> DEFINE D == DOMAIN rs \cap A
           g == OrderingGraph(Part(rs, A))
           o == TopologicalOrder(g)
<1>1. DOMAIN g = D /\ \A a \in D : g[a] = rs[a].ordering \cap D
  BY PartGraph
<1>2. IsFiniteSet(D) /\ \A a \in D : a \in Nat
  <2>1. D \in SUBSET Addresses
    BY DEF AreResources
  <2> QED  BY <2>1, AddressesOK, FS_Subset
<1> HIDE DEF g, D
<1>3. \A a \in DOMAIN g : g[a] \subseteq DOMAIN g
  BY <1>1
<1>4. Lists(o, D) /\ (Founded(g, D) => Follows(o, g))
  <2>1. IsFiniteSet(DOMAIN g) /\ \A a \in DOMAIN g : a \in Nat
    BY <1>1, <1>2
  <2> QED  BY <1>1, <1>3, <2>1, TopologicalLists
<1>5. Acyclic(rs, A) => Founded(g, D)
  <2> SUFFICES ASSUME Acyclic(rs, A), NEW S \in SUBSET D, S # {}
               PROVE  \E a \in S : g[a] \cap S = {}
    BY DEF Founded
  <2>1. PICK a \in S : rs[a].ordering \cap S = {}
    BY DEF Acyclic, D
  <2>2. g[a] \cap S = {}
    BY <1>1, <2>1
  <2> QED  BY <2>2
<1> HIDE DEF o
<1>6. ASSUME Acyclic(rs, A), NEW i \in DOMAIN o, NEW m \in rs[o[i]].ordering, m \in D
      PROVE  \E j \in DOMAIN o : j < i /\ o[j] = m
  <2>1. o[i] \in D
    BY <1>4, ListFacts
  <2>2. m \in g[o[i]]
    BY <1>1, <1>6, <2>1
  <2> QED  BY <1>4, <1>5, <1>6, <2>2 DEF Follows
<1>7. Acyclic(rs, A) => InOrder(o, rs, A)
  BY <1>6 DEF InOrder, D
<1> QED  BY <1>4, <1>7 DEF o, g, D

\* Deletes go backwards.
LEMMA DeletionsFacts ==
    ASSUME NEW rs, AreResources(rs), NEW A, A \subseteq Addresses,
           NEW F, F = Deletions(Part(rs, A))
    PROVE  /\ F \in Seq(Ops)
           /\ \A i \in DOMAIN F : /\ F[i].address \in DOMAIN rs \cap A
                                  /\ F[i].action = "delete"
           /\ \A i, j \in DOMAIN F : F[i].address = F[j].address => i = j
           /\ \A a \in DOMAIN rs \cap A : \E i \in DOMAIN F : F[i].address = a
           /\ Acyclic(rs, A) =>
                \A i \in DOMAIN F : \A m \in rs[F[i].address].ordering :
                  m \in DOMAIN rs \cap A => \E j \in DOMAIN F : i < j /\ F[j].address = m
<1> DEFINE D == DOMAIN rs \cap A
           p == Part(rs, A)
           o == TopologicalOrder(OrderingGraph(p))
           r == DeleteOrder(p)
           n == Len(o)
<1>1. Lists(o, D)
  BY StartupOrder
<1>2. ASSUME Acyclic(rs, A), NEW i \in DOMAIN o, NEW m \in rs[o[i]].ordering, m \in D
      PROVE  \E j \in DOMAIN o : j < i /\ o[j] = m
  <2>1. InOrder(o, rs, A)
    BY <1>2, StartupOrder
  <2> HIDE DEF o
  <2> QED  BY <1>2, <2>1 DEF InOrder
<1>3. \A a \in D : p[a] = rs[a] /\ p[a] \in Resource /\ a \in Addresses
  BY DEF Part, AreResources
<1>4. r = Reverse(o)
  BY DEF DeleteOrder
<1> HIDE DEF p, o, n, D
<1>5. /\ Lists(r, D) /\ Len(r) = n
      /\ \A i \in DOMAIN o : (n - i) + 1 \in DOMAIN o /\ r[(n - i) + 1] = o[i]
  BY <1>1, <1>4, ListsReverse DEF n
<1> HIDE DEF r
<1>6. /\ n \in Nat /\ DOMAIN o = 1 .. n /\ DOMAIN r = 1 .. n
      /\ \A i \in DOMAIN r : r[i] \in D
  BY <1>1, <1>5, ListFacts DEF n
<1>7. F = [i \in 1 .. n |-> [action |-> "delete", address |-> r[i], resource |-> p[r[i]]]]
  BY <1>6 DEF Deletions, r, p
<1>8. /\ DOMAIN F = 1 .. n
      /\ \A i \in 1 .. n : F[i] \in Ops /\ F[i].address = r[i] /\ F[i].action = "delete"
  BY <1>3, <1>6, <1>7 DEF Ops
<1>9. F \in Seq(Ops)
  <2>1. F \in [1 .. n -> Ops]
    BY <1>7, <1>8
  <2> QED  BY <1>6, <2>1, SeqDef
<1>10. \A i, j \in DOMAIN F : F[i].address = F[j].address => i = j
  BY <1>5, <1>6, <1>8 DEF Lists
<1>11. \A a \in D : \E i \in DOMAIN F : F[i].address = a
  BY <1>5, <1>6, <1>8 DEF Lists
<1>12. ASSUME Acyclic(rs, A), NEW i \in DOMAIN F, NEW m \in rs[F[i].address].ordering, m \in D
       PROVE  \E j \in DOMAIN F : i < j /\ F[j].address = m
  <2>1. (n - i) + 1 \in DOMAIN o /\ (n - ((n - i) + 1)) + 1 = i
    BY <1>6, <1>8
  <2>2. F[i].address = o[(n - i) + 1]
    <3>1. r[(n - ((n - i) + 1)) + 1] = o[(n - i) + 1]
      BY <1>5, <2>1
    <3> QED  BY <1>8, <2>1, <3>1
  <2>3. PICK j \in DOMAIN o : j < (n - i) + 1 /\ o[j] = m
    BY <1>2, <1>12, <2>1, <2>2
  <2>4. (n - j) + 1 \in DOMAIN F /\ i < (n - j) + 1
    BY <1>6, <1>8, <2>1, <2>3
  <2>5. F[(n - j) + 1].address = m
    BY <1>5, <1>8, <2>3, <2>4
  <2> QED  BY <2>4, <2>5
<1> QED  BY <1>6, <1>8, <1>9, <1>10, <1>11, <1>12 DEF D

LEMMA ActionFacts ==
    ASSUME NEW rs, NEW entries, NEW a \in DOMAIN rs
    PROVE  /\ Action(rs, entries, a) \in {"create", "update", "unchanged"}
           /\ Action(rs, entries, a) = "unchanged" =>
                a \in DOMAIN entries /\ entries[a] = rs[a]
<1>1. Action(rs, entries, a) \in {"create", "update", "unchanged"}
  BY DEF Action
<1>2. ASSUME Action(rs, entries, a) = "unchanged"
      PROVE  a \in DOMAIN entries /\ entries[a] = rs[a]
  <2>1. a \in DOMAIN entries /\ a \notin Changed(rs, entries)
    BY <1>2 DEF Action
  <2> QED  BY <2>1 DEF Changed
<1> QED  BY <1>1, <1>2

\* The operations of a domain are what a plan promises of them.
LEMMA OperationsPlan ==
    ASSUME NEW rs, AreResources(rs), NEW entries, AreResources(entries), NEW d,
           NEW F, F = Operations(rs, entries, d)
    PROVE  Plans(F, rs, entries, d)
<1> DEFINE A == Of(d)
           D == DOMAIN rs \cap A
           B == A \ DOMAIN rs
           G == DOMAIN entries \cap B
           o == TopologicalOrder(OrderingGraph(Part(rs, A)))
           u == [i \in DOMAIN o |->
                    [action |-> Action(rs, entries, o[i]), address |-> o[i],
                     resource |-> rs[o[i]]]]
           v == Deletions(Part(entries, B))
<1>1. A \subseteq Addresses
  BY DEF Of
<1>2. F = u \o v
  BY DEF Operations
<1>3. Lists(o, D) /\ (Acyclic(rs, A) => InOrder(o, rs, A))
  BY StartupOrder
<1>4. B \subseteq Addresses
  BY <1>1
<1>5. /\ v \in Seq(Ops)
      /\ \A i \in DOMAIN v : v[i].address \in G /\ v[i].action = "delete"
      /\ \A i, j \in DOMAIN v : v[i].address = v[j].address => i = j
      /\ \A a \in G : \E i \in DOMAIN v : v[i].address = a
      /\ Acyclic(entries, B) =>
           \A i \in DOMAIN v : \A m \in entries[v[i].address].ordering :
             m \in G => \E j \in DOMAIN v : i < j /\ v[j].address = m
  <2> HIDE DEF B
  <2>1. AreResources(entries) /\ B \subseteq Addresses /\ v = Deletions(Part(entries, B))
    BY <1>4
  <2> HIDE DEF v
  <2> QED  BY <2>1, DeletionsFacts, SMTT(30)
<1> HIDE DEF v, o
<1>6. /\ Len(o) \in Nat /\ DOMAIN o = 1 .. Len(o)
      /\ \A i \in DOMAIN o : o[i] \in D
  BY <1>3, ListFacts
<1>7. /\ u \in Seq(Ops) /\ Len(u) = Len(o) /\ DOMAIN u = DOMAIN o
      /\ \A i \in DOMAIN o :
           /\ u[i].address = o[i] /\ u[i].resource = rs[o[i]]
           /\ u[i].action # "delete"
           /\ u[i].action = "unchanged" =>
                o[i] \in DOMAIN entries /\ entries[o[i]] = rs[o[i]]
  <2>1. ASSUME NEW i \in DOMAIN o
        PROVE  /\ u[i] \in Ops
               /\ u[i].address = o[i] /\ u[i].resource = rs[o[i]]
               /\ u[i].action # "delete"
               /\ u[i].action = "unchanged" =>
                    o[i] \in DOMAIN entries /\ entries[o[i]] = rs[o[i]]
    <3>1. o[i] \in DOMAIN rs /\ o[i] \in Addresses /\ rs[o[i]] \in Resource
      BY <1>6 DEF AreResources
    <3> DEFINE act == Action(rs, entries, o[i])
    <3>2. /\ act \in {"create", "update", "unchanged"}
          /\ act = "unchanged" => o[i] \in DOMAIN entries /\ entries[o[i]] = rs[o[i]]
      BY <3>1, ActionFacts
    <3>3. u[i] = [action |-> act, address |-> o[i], resource |-> rs[o[i]]]
      OBVIOUS
    <3> HIDE DEF act, u
    <3> QED  BY <3>1, <3>2, <3>3 DEF Ops
  <2>2. u \in [1 .. Len(o) -> Ops]
    BY <1>6, <2>1
  <2>3. u \in Seq(Ops)
    BY <1>6, <2>2, SeqDef
  <2>4. Len(u) = Len(o)
    BY <1>6, <2>2, <2>3, LenProperties
  <2> QED  BY <2>1, <2>3, <2>4
<1> HIDE DEF u
<1> DEFINE n == Len(o)
<1>8. /\ F \in Seq(Ops)
      /\ \A i \in DOMAIN o : i \in DOMAIN F /\ F[i] = u[i]
      /\ \A i \in DOMAIN v : n + i \in DOMAIN F /\ F[n + i] = v[i]
      /\ \A k \in DOMAIN F : k \in DOMAIN o \/ \E i \in DOMAIN v : k = n + i
  <2>1. u \in Seq(Ops) /\ v \in Seq(Ops) /\ DOMAIN u = DOMAIN o /\ Len(u) = n
    BY <1>5, <1>7
  <2> HIDE DEF n
  <2> DEFINE w == u \o v
  <2>2. /\ w \in Seq(Ops)
        /\ \A i \in DOMAIN u : i \in DOMAIN w /\ w[i] = u[i]
        /\ \A i \in DOMAIN v : Len(u) + i \in DOMAIN w /\ w[Len(u) + i] = v[i]
        /\ \A k \in DOMAIN w : k \in DOMAIN u \/ \E i \in DOMAIN v : k = Len(u) + i
    BY <2>1, CatFacts
  <2>3. F = w
    BY <1>2
  <2> HIDE DEF w
  <2> QED  BY <2>1, <2>2, <2>3
<1>9. Len(v) \in Nat /\ DOMAIN v = 1 .. Len(v)
  BY <1>5, LenProperties
<1>10. n \in Nat /\ DOMAIN o = 1 .. n
  BY <1>6
<1> HIDE DEF n
\* The starts are the first n operations.
<1>11. \A k \in DOMAIN F :
         \/ /\ k \in DOMAIN o /\ F[k].address = o[k] /\ o[k] \in D
            /\ F[k].resource = rs[o[k]] /\ F[k].action # "delete"
            /\ F[k].action = "unchanged" =>
                 o[k] \in DOMAIN entries /\ entries[o[k]] = rs[o[k]]
         \/ \E i \in DOMAIN v : /\ k = n + i /\ F[k] = v[i]
                                /\ v[i].address \in G /\ v[i].action = "delete"
  BY <1>5, <1>6, <1>7, <1>8
<1>12. ASSUME NEW k \in DOMAIN F, F[k].address \in DOMAIN rs
       PROVE  /\ k \in DOMAIN o /\ F[k].address = o[k]
              /\ F[k].action # "delete" /\ F[k].resource = rs[F[k].address]
              /\ F[k].action = "unchanged" =>
                   /\ F[k].address \in DOMAIN entries
                   /\ entries[F[k].address] = F[k].resource
  BY <1>11, <1>12
<1>13. ASSUME NEW k \in DOMAIN F, F[k].address \notin DOMAIN rs
       PROVE  /\ F[k].action = "delete" /\ F[k].address \in DOMAIN entries
              /\ \E i \in DOMAIN v : k = n + i /\ F[k] = v[i]
  BY <1>11, <1>13
<1>14. \A i \in DOMAIN F : F[i].address \in A
  BY <1>11
<1>15. ASSUME NEW i \in DOMAIN F, NEW j \in DOMAIN F, F[i].address = F[j].address
       PROVE  i = j
  <2>1. CASE F[i].address \in DOMAIN rs
    BY <1>3, <1>12, <1>15, <2>1 DEF Lists
  <2>2. CASE F[i].address \notin DOMAIN rs
    BY <1>5, <1>13, <1>15, <2>2
  <2> QED  BY <2>1, <2>2
<1>16. ASSUME NEW a \in A, a \in DOMAIN rs \/ a \in DOMAIN entries
       PROVE  \E i \in DOMAIN F : F[i].address = a
  <2>1. CASE a \in DOMAIN rs
    <3>1. PICK i \in DOMAIN o : o[i] = a
      BY <1>3, <1>16, <2>1 DEF Lists
    <3> QED  BY <1>7, <1>8, <3>1
  <2>2. CASE a \notin DOMAIN rs
    <3>1. PICK i \in DOMAIN v : v[i].address = a
      BY <1>5, <1>16, <2>2
    <3> QED  BY <1>8, <3>1
  <2> QED  BY <2>1, <2>2
<1>17. ASSUME NEW i \in DOMAIN F, NEW j \in DOMAIN F,
              F[i].address \in DOMAIN rs, F[j].address \notin DOMAIN rs
       PROVE  i < j
  <2>1. i \in 1 .. n
    BY <1>10, <1>12, <1>17
  <2>2. PICK k \in DOMAIN v : j = n + k
    BY <1>13, <1>17
  <2> QED  BY <1>9, <1>10, <2>1, <2>2
<1>18. ASSUME Acyclic(rs, A), NEW i \in DOMAIN F, F[i].address \in DOMAIN rs,
              NEW m \in rs[F[i].address].ordering \cap A, m \in DOMAIN rs
       PROVE  \E j \in DOMAIN F : j < i /\ F[j].address = m
  <2>1. i \in DOMAIN o /\ F[i].address = o[i]
    BY <1>12, <1>18
  <2>2. PICK j \in DOMAIN o : j < i /\ o[j] = m
    BY <1>3, <1>18, <2>1 DEF InOrder
  <2> QED  BY <1>7, <1>8, <2>2
<1>19. ASSUME Acyclic(entries, A), NEW i \in DOMAIN F, F[i].address \notin DOMAIN rs,
              NEW m \in entries[F[i].address].ordering \cap A,
              m \in DOMAIN entries, m \notin DOMAIN rs
       PROVE  \E j \in DOMAIN F : i < j /\ F[j].address = m
  <2>1. Acyclic(entries, B)
    BY <1>19 DEF Acyclic
  <2>2. PICK k \in DOMAIN v : i = n + k /\ F[i] = v[k]
    BY <1>13, <1>19
  <2>3. m \in G /\ m \in entries[v[k].address].ordering
    BY <1>19, <2>2
  <2>4. PICK j \in DOMAIN v : k < j /\ v[j].address = m
    BY <1>5, <2>1, <2>3
  <2>5. n + j \in DOMAIN F /\ F[n + j].address = m /\ i < n + j
    BY <1>8, <1>9, <1>10, <2>2, <2>4
  <2> QED  BY <2>5
<1> HIDE DEF A
<1>20. /\ \A i \in DOMAIN F :
            /\ F[i].address \in DOMAIN rs => /\ F[i].action # "delete"
                                             /\ F[i].resource = rs[F[i].address]
            /\ F[i].address \notin DOMAIN rs => /\ F[i].action = "delete"
                                                /\ F[i].address \in DOMAIN entries
            /\ F[i].action = "unchanged" => /\ F[i].address \in DOMAIN entries
                                            /\ entries[F[i].address] = F[i].resource
  BY <1>12, <1>13
<1> QED  BY <1>8, <1>14, <1>15, <1>16, <1>17, <1>18, <1>19, <1>20 DEF Plans, A

\* Which entries agree with it in the domain, a plan does not tell.
LEMMA PlansAgree ==
    ASSUME NEW F, NEW rs, NEW base, NEW ts, NEW d, Plans(F, rs, base, d), Agree(base, ts, d)
    PROVE  Plans(F, rs, ts, d)
<1>1. \A a \in Of(d) : /\ a \in DOMAIN base <=> a \in DOMAIN ts
                       /\ a \in DOMAIN base => base[a] = ts[a]
  BY AgreePointwise
<1>2. Acyclic(ts, Of(d)) => Acyclic(base, Of(d))
  <2> SUFFICES ASSUME Acyclic(ts, Of(d)), NEW S \in SUBSET (DOMAIN base \cap Of(d)), S # {}
               PROVE  \E a \in S : base[a].ordering \cap S = {}
    BY DEF Acyclic
  <2>1. S \in SUBSET (DOMAIN ts \cap Of(d)) /\ \A a \in S : base[a] = ts[a]
    BY <1>1
  <2> QED  BY <2>1 DEF Acyclic
<1>3. \A i \in DOMAIN F : F[i].address \in Of(d)
  BY DEF Plans
<1>4. \A a \in Of(d) : a \in DOMAIN rs \/ a \in DOMAIN ts => \E i \in DOMAIN F : F[i].address = a
  BY <1>1 DEF Plans
<1>5. \A i \in DOMAIN F :
        /\ F[i].address \in DOMAIN rs => /\ F[i].action # "delete"
                                         /\ F[i].resource = rs[F[i].address]
        /\ F[i].address \notin DOMAIN rs => /\ F[i].action = "delete"
                                            /\ F[i].address \in DOMAIN ts
        /\ F[i].action = "unchanged" => /\ F[i].address \in DOMAIN ts
                                        /\ ts[F[i].address] = F[i].resource
  BY <1>1, <1>3 DEF Plans
<1>6. Acyclic(ts, Of(d)) =>
        \A i \in DOMAIN F : F[i].address \notin DOMAIN rs =>
            \A m \in ts[F[i].address].ordering \cap Of(d) :
                m \in DOMAIN ts /\ m \notin DOMAIN rs =>
                    \E j \in DOMAIN F : i < j /\ F[j].address = m
  <2> SUFFICES ASSUME Acyclic(ts, Of(d)), NEW i \in DOMAIN F, F[i].address \notin DOMAIN rs,
                      NEW m \in ts[F[i].address].ordering \cap Of(d),
                      m \in DOMAIN ts, m \notin DOMAIN rs
               PROVE  \E j \in DOMAIN F : i < j /\ F[j].address = m
    OBVIOUS
  <2>1. F[i].address \in DOMAIN base /\ F[i].address \in Of(d) /\ m \in DOMAIN base
    BY <1>1, <1>3 DEF Plans
  <2>2. m \in base[F[i].address].ordering \cap Of(d)
    BY <1>1, <2>1
  <2> QED  BY <1>2, <2>1, <2>2 DEF Plans
<1> QED  BY <1>3, <1>4, <1>5, <1>6 DEF Plans

\* Deleting all there is of a domain is a plan for nothing.
LEMMA DeletionsPlan ==
    ASSUME NEW base, AreResources(base), NEW d, NEW F, F = Deletions(Part(base, Of(d)))
    PROVE  Plans(F, NoResources, base, d)
<1>1. Of(d) \subseteq Addresses
  BY DEF Of
<1>2. /\ F \in Seq(Ops)
      /\ \A i \in DOMAIN F : /\ F[i].address \in DOMAIN base \cap Of(d)
                             /\ F[i].action = "delete"
      /\ \A i, j \in DOMAIN F : F[i].address = F[j].address => i = j
      /\ \A a \in DOMAIN base \cap Of(d) : \E i \in DOMAIN F : F[i].address = a
      /\ Acyclic(base, Of(d)) =>
           \A i \in DOMAIN F : \A m \in base[F[i].address].ordering :
             m \in DOMAIN base \cap Of(d) => \E j \in DOMAIN F : i < j /\ F[j].address = m
  BY <1>1, DeletionsFacts
<1>3. DOMAIN NoResources = {}
  BY DEF NoResources
<1> QED  BY <1>2, <1>3 DEF Plans

\* A domain for which all operations are unchanged is as it was.
LEMMA NothingToDo ==
    ASSUME NEW F, NEW rs, NEW base, NEW d, Plans(F, rs, base, d), ~Actionable(F)
    PROVE  Agree(rs, base, d)
<1>1. \A i \in DOMAIN F : F[i].action = "unchanged"
  BY DEF Actionable
<1>2. ASSUME NEW a \in Of(d), a \in DOMAIN rs \/ a \in DOMAIN base
      PROVE  a \in DOMAIN rs /\ a \in DOMAIN base /\ rs[a] = base[a]
  <2>1. PICK i \in DOMAIN F : F[i].address = a
    BY <1>2 DEF Plans
  <2> QED  BY <1>1, <2>1 DEF Plans
<1> QED  BY <1>2, AgreePointwise

\* A domain without an ordering cycle.
LEMMA NotCyclic ==
    ASSUME NEW rs, AreResources(rs), NEW A, ~Cyclic(OrderingGraph(Part(rs, A)))
    PROVE  Acyclic(rs, A)
<1> DEFINE D == DOMAIN rs \cap A
           g == OrderingGraph(Part(rs, A))
<1>1. DOMAIN g = D /\ \A a \in D : g[a] = rs[a].ordering \cap D
  BY PartGraph
<1>2. IsFiniteSet(D) /\ \A a \in D : a \in Nat
  <2>1. D \in SUBSET Addresses
    BY DEF AreResources
  <2> QED  BY <2>1, AddressesOK, FS_Subset
<1>3. ~Cyclic(g)
  OBVIOUS
<1> HIDE DEF g, D
<1>4. Founded(g, DOMAIN g)
  BY <1>1, <1>2, <1>3, AcyclicIsFounded
<1> SUFFICES ASSUME NEW S \in SUBSET D, S # {}
             PROVE  \E a \in S : rs[a].ordering \cap S = {}
  BY DEF Acyclic, D
<1>5. PICK a \in S : g[a] \cap S = {}
  BY <1>1, <1>4 DEF Founded
<1>6. rs[a].ordering \cap S = {}
  BY <1>1, <1>5
<1> QED  BY <1>6
-----------------------------------------------------------------------------
(***************************************************************************)
(* Plans that are cut short.                                               *)
(***************************************************************************)

\* view is base after the first k operations of F.
Performs(F, k, base, view) ==
    /\ \A i \in 1 .. k :
        /\ F[i].action = "delete" => F[i].address \notin DOMAIN view
        /\ F[i].action # "delete" => /\ F[i].address \in DOMAIN view
                                     /\ view[F[i].address] = F[i].resource
    /\ \A a \in Addresses : (\A i \in 1 .. k : F[i].address # a) =>
        /\ a \in DOMAIN view <=> a \in DOMAIN base
        /\ a \in DOMAIN base => view[a] = base[a]

\* No cycle in the domain, and all that a resource is ordered after exists.
Grounded(rs, d) ==
    /\ Acyclic(rs, Of(d))
    /\ \A a \in DOMAIN rs \cap Of(d) : rs[a].ordering \cap Of(d) \subseteq DOMAIN rs

LEMMA GroundedAgree ==
    ASSUME NEW rs, NEW ts, NEW d, Agree(rs, ts, d), Grounded(rs, d)
    PROVE  Grounded(ts, d)
<1>1. \A a \in Of(d) : /\ a \in DOMAIN rs <=> a \in DOMAIN ts
                       /\ a \in DOMAIN rs => rs[a] = ts[a]
  BY AgreePointwise
<1>2. Acyclic(ts, Of(d))
  <2> SUFFICES ASSUME NEW S \in SUBSET (DOMAIN ts \cap Of(d)), S # {}
               PROVE  \E a \in S : ts[a].ordering \cap S = {}
    BY DEF Acyclic
  <2>1. S \in SUBSET (DOMAIN rs \cap Of(d)) /\ \A a \in S : ts[a] = rs[a]
    BY <1>1
  <2> QED  BY <2>1 DEF Grounded, Acyclic
<1>3. ASSUME NEW a \in DOMAIN ts \cap Of(d), NEW m \in ts[a].ordering \cap Of(d)
      PROVE  m \in DOMAIN ts
  BY <1>1 DEF Grounded
<1> QED  BY <1>2, <1>3 DEF Grounded

(***************************************************************************)
(* However far the operations of a plan come, what they leave of the old   *)
(* entries and have made of the new resources is free of cycles and has    *)
(* what it is ordered after, so that any plan may follow.                  *)
(***************************************************************************)
THEOREM PartialGrounded ==
    ASSUME NEW F, NEW rs, NEW base, NEW view, NEW d, Plans(F, rs, base, d),
           Grounded(rs, d), Grounded(base, d),
           NEW k \in 0 .. Len(F), Performs(F, k, base, view)
    PROVE  Grounded(view, d)
<1> DEFINE A == Of(d)
           P == {F[i].address : i \in 1 .. k}
<1>1. /\ Len(F) \in Nat /\ DOMAIN F = 1 .. Len(F)
      /\ \A i \in 1 .. k : i \in DOMAIN F
  <2>1. Len(F) \in Nat /\ DOMAIN F = 1 .. Len(F)
    BY LenProperties DEF Plans
  <2> QED  BY <2>1
<1>2. \A a \in A : a \in Addresses
  BY DEF Of
<1>3. \A a \in P : a \in A
  BY <1>1 DEF Plans
<1>4. ASSUME NEW a \in P
      PROVE  /\ a \in DOMAIN rs => a \in DOMAIN view /\ view[a] = rs[a]
             /\ a \notin DOMAIN rs => a \notin DOMAIN view
  <2>1. PICK i \in 1 .. k : F[i].address = a
    OBVIOUS
  <2> QED  BY <1>1, <2>1 DEF Plans, Performs
<1>5. ASSUME NEW a \in A, a \notin P
      PROVE  /\ a \in DOMAIN view <=> a \in DOMAIN base
             /\ a \in DOMAIN base => view[a] = base[a]
  BY <1>2, <1>5 DEF Performs
<1>6. ASSUME NEW a \in P, a \in DOMAIN rs, NEW m \in rs[a].ordering \cap A
      PROVE  m \in DOMAIN rs /\ m \in P
  <2>1. PICK i \in 1 .. k : F[i].address = a
    OBVIOUS
  <2>2. m \in DOMAIN rs
    BY <1>3, <1>6 DEF Grounded
  <2>3. Acyclic(rs, A)
    BY DEF Grounded
  <2>4. \E j \in DOMAIN F : j < i /\ F[j].address = m
    BY <1>1, <1>6, <2>1, <2>2, <2>3, SMTT(30) DEF Plans
  <2>5. PICK j \in DOMAIN F : j < i /\ F[j].address = m
    BY <2>4
  <2>6. j \in 1 .. k
    BY <1>1, <2>5
  <2> QED  BY <2>2, <2>5, <2>6
<1>7. ASSUME NEW a \in P, a \notin DOMAIN rs, NEW b \in A, b \in DOMAIN rs
      PROVE  b \in P
  <2>1. PICK i \in 1 .. k : F[i].address = a
    OBVIOUS
  <2>2. PICK j \in DOMAIN F : F[j].address = b
    BY <1>7 DEF Plans
  <2>3. j < i
    BY <1>1, <1>7, <2>1, <2>2 DEF Plans
  <2>4. j \in 1 .. k
    BY <1>1, <2>3
  <2> QED  BY <2>2, <2>4
<1>8. ASSUME NEW a \in A, a \notin P, a \in DOMAIN base, a \notin DOMAIN rs,
             NEW m \in base[a].ordering \cap A, m \in DOMAIN base, m \notin DOMAIN rs
      PROVE  m \notin P
  <2>1. PICK i \in DOMAIN F : F[i].address = a
    BY <1>8 DEF Plans
  <2>2. Acyclic(base, A)
    BY DEF Grounded
  <2>3. \E j \in DOMAIN F : i < j /\ F[j].address = m
    BY <1>8, <2>1, <2>2 DEF Plans
  <2>4. PICK j \in DOMAIN F : i < j /\ F[j].address = m
    BY <2>3
  <2>5. i \notin 1 .. k
    BY <1>8, <2>1
  <2>6. \A l \in DOMAIN F : F[l].address = m => l = j
    BY <2>4 DEF Plans
  <2>7. j \notin 1 .. k
    BY <1>1, <2>4, <2>5
  <2>8. \A l \in 1 .. k : F[l].address # m
    BY <1>1, <2>6, <2>7
  <2> QED  BY <2>8
<1> HIDE DEF P
<1>9. ASSUME NEW a \in DOMAIN view \cap A, NEW m \in view[a].ordering \cap A
      PROVE  m \in DOMAIN view
  <2>1. CASE a \in P
    BY <1>4, <1>6, <1>9, <2>1
  <2>2. CASE a \notin P
    <3>1. a \in DOMAIN base /\ view[a] = base[a]
      BY <1>5, <2>2
    <3>2. m \in DOMAIN base
      BY <1>9, <3>1 DEF Grounded
    <3>3. CASE m \notin P
      BY <1>5, <1>9, <3>2, <3>3
    <3>4. CASE m \in P /\ m \in DOMAIN rs
      BY <1>4, <3>4
    <3>5. CASE m \in P /\ m \notin DOMAIN rs
      <4>1. a \notin DOMAIN rs
        BY <1>7, <2>2, <3>5
      <4> QED  BY <1>8, <1>9, <2>2, <3>1, <3>2, <3>5, <4>1
    <3> QED  BY <3>3, <3>4, <3>5
  <2> QED  BY <2>1, <2>2
<1>10. ASSUME NEW S \in SUBSET (DOMAIN view \cap A), S # {}
       PROVE  \E a \in S : view[a].ordering \cap S = {}
  <2> DEFINE N == S \cap P
  <2>1. CASE N # {}
    <3>1. N \in SUBSET (DOMAIN rs \cap A)
      BY <1>3, <1>4, <1>10
    <3>2. PICK a \in N : rs[a].ordering \cap N = {}
      BY <2>1, <3>1 DEF Grounded, Acyclic
    <3>3. a \in P /\ a \in DOMAIN rs /\ view[a] = rs[a]
      BY <1>4, <3>1, <3>2
    <3>4. ASSUME NEW m \in rs[a].ordering \cap S PROVE FALSE
      <4>1. m \in A
        BY <1>10, <3>4
      <4>2. m \in P
        BY <1>6, <3>3, <3>4, <4>1
      <4> QED  BY <3>2, <3>4, <4>2
    <3> QED  BY <3>2, <3>3, <3>4
  <2>2. CASE N = {}
    <3>1. \A a \in S : a \in A /\ a \notin P
      BY <1>10, <2>2
    <3>2. \A a \in S : a \in DOMAIN base /\ view[a] = base[a]
      BY <1>5, <1>10, <3>1
    <3>3. S \in SUBSET (DOMAIN base \cap A)
      BY <3>1, <3>2
    <3>4. PICK a \in S : base[a].ordering \cap S = {}
      BY <1>10, <3>3 DEF Grounded, Acyclic
    <3> QED  BY <3>2, <3>4
  <2> QED  BY <2>1, <2>2
<1> QED  BY <1>9, <1>10 DEF Grounded, Acyclic

\* A plan that comes to its end has reached its resources.
LEMMA CompleteAgrees ==
    ASSUME NEW F, NEW rs, NEW base, NEW view, NEW d, Plans(F, rs, base, d),
           Performs(F, Len(F), base, view)
    PROVE  Agree(view, rs, d)
<1>1. DOMAIN F = 1 .. Len(F)
  BY LenProperties DEF Plans
<1>2. ASSUME NEW a \in Of(d)
      PROVE  /\ a \in DOMAIN view <=> a \in DOMAIN rs
             /\ a \in DOMAIN view => view[a] = rs[a]
  <2>1. CASE \E i \in DOMAIN F : F[i].address = a
    <3>1. PICK i \in DOMAIN F : F[i].address = a
      BY <2>1
    <3> QED  BY <1>1, <3>1 DEF Plans, Performs
  <2>2. CASE \A i \in DOMAIN F : F[i].address # a
    <3>1. a \notin DOMAIN rs /\ a \notin DOMAIN base
      BY <2>2 DEF Plans
    <3>2. a \in Addresses
      BY DEF Of
    <3> QED  BY <1>1, <2>2, <3>1, <3>2 DEF Performs
  <2> QED  BY <2>1, <2>2
<1> QED  BY <1>2, AgreePointwise

\* A plan for a domain leaves the others alone.
LEMMA OthersAgree ==
    ASSUME NEW F, NEW rs, NEW base, NEW view, NEW d, Plans(F, rs, base, d),
           NEW k \in 0 .. Len(F), Performs(F, k, base, view), NEW e, e # d
    PROVE  Agree(view, base, e)
<1>1. \A i \in 1 .. k : i \in DOMAIN F
  <2>1. Len(F) \in Nat /\ DOMAIN F = 1 .. Len(F)
    BY LenProperties DEF Plans
  <2> QED  BY <2>1
<1>2. ASSUME NEW a \in Of(e)
      PROVE  /\ a \in DOMAIN view <=> a \in DOMAIN base
             /\ a \in DOMAIN view => view[a] = base[a]
  <2>1. a \in Addresses /\ a \notin Of(d)
    BY DEF Of
  <2>2. \A i \in 1 .. k : F[i].address # a
    BY <1>1, <2>1 DEF Plans
  <2> QED  BY <2>1, <2>2 DEF Performs
<1> QED  BY <1>2, AgreePointwise
-----------------------------------------------------------------------------
(***************************************************************************)
(* The manager's calls.                                                    *)
(***************************************************************************)
\* A call is a record with a known phase.
CallShape ==
    /\ call = [phase |-> call.phase, todo |-> call.todo, working |-> call.working,
               view |-> call.view, done |-> call.done, ok |-> call.ok]
    /\ call.phase \in Phases

\* The inductive invariant: what would be reported now, and between the calls
\* what was, agrees with the world about every domain nobody was misled about.
Told ==
    \A d \in Domains \ drifted :
        /\ call.phase = "idle" => Agree(snapshot, world, d)
        /\ call.phase \in Running => Agree(call.view, world, d)
        /\ call.phase \in Stopping => Agree(call.working, world, d)

TInv == CallShape /\ Told

\* The plan its caller holds is one the manager made.
PlanMade ==
    plan # None => /\ plan = Plan(plan.resources, plan.base)
                   /\ plan.resources \in Scenarios
                   /\ AreResources(plan.base)

\* The phases that run or undo a plan.
Applying == Phases \ (Destroying \cup {"idle"})

\* A plan that is being applied has passed apply's tests.
PlanApplies ==
    call.phase \in Applying =>
        /\ plan # None /\ plan.valid
        /\ \A d \in {"orchestration", "evaluation"} : Needed(d) => d \in Services

\* The inductive invariant of the types.
KindInv ==
    /\ CallShape /\ PlanMade /\ PlanApplies
    /\ AreResources(snapshot) /\ AreResources(world)
    /\ AreResources(call.working) /\ AreResources(call.view)
    /\ call.ok \in BOOLEAN /\ call.todo \in Seq(Ops) /\ call.done \subseteq Addresses
    /\ reached # None => AreResources(reached)
    /\ drifted \subseteq Domains /\ owed \subseteq Addresses

\* What a running call is to reach in its domain.
Target == IF call.phase = "delete" THEN NoResources ELSE plan.resources

\* So many operations of the call are done, the others are left.
Done(F, k) ==
    /\ Plans(F, Target, call.working, PhaseDomain[call.phase])
    /\ call.todo = SubSeq(F, k + 1, Len(F))
    /\ Performs(F, k, call.working, call.view)

Progress ==
    call.phase \in Running =>
        \E k \in 0 .. Len(Todo(call.phase, call.working)) :
            Done(Todo(call.phase, call.working), k)

Empty(rs, d) == DOMAIN rs \cap Of(d) = {}

\* Domains without a service are not called, and stay empty.
Unserved ==
    /\ call.phase \in Running => PhaseDomain[call.phase] \in Services \cup {"provisioning"}
    /\ \A d \in Domains \ (Services \cup {"provisioning"}) :
        Empty(snapshot, d) /\ Empty(call.working, d) /\ Empty(call.view, d)

\* How far the calls before have brought the working snapshot.
Stage ==
    /\ call.phase = "provision" =>
        \A d \in Domains : Agree(plan.base, call.working, d)
    /\ call.phase = "evaluate" =>
        /\ Agree(call.working, plan.resources, "provisioning")
        /\ Agree(plan.base, call.working, "evaluation")
        /\ Agree(plan.base, call.working, "orchestration")
    /\ call.phase = "orchestrate" =>
        /\ Agree(call.working, plan.resources, "provisioning")
        /\ Agree(call.working, plan.resources, "evaluation")
        /\ Agree(plan.base, call.working, "orchestration")
    /\ call.phase \in {"undo_orchestrator", "undo_evaluator"} => ~call.ok
    /\ call.phase = "stop_evaluator" /\ call.ok => Empty(call.working, "orchestration")
    /\ call.phase = "delete" /\ call.ok => /\ Empty(call.working, "orchestration")
                                           /\ Empty(call.working, "evaluation")
    /\ call.phase = "idle" /\ reached # None => snapshot = reached

\* The view is what a plan for the target, cut short, makes of the working
\* snapshot.
Midway(view) ==
    \E F : \E k \in 0 .. Len(F) :
        /\ Plans(F, Target, call.working, PhaseDomain[call.phase])
        /\ Performs(F, k, call.working, view)

ReachInv == KindInv /\ Progress /\ Unserved /\ Stage

\* All that has been reported is free of cycles, and has what it depends on.
GroundInv ==
    \A d \in Domains :
        Grounded(snapshot, d) /\ Grounded(call.working, d) /\ Grounded(call.view, d)
-----------------------------------------------------------------------------
(***************************************************************************)
(* An operation that both perform keeps them in agreement.                 *)
(***************************************************************************)
LEMMA PerformedAgree ==
    ASSUME NEW rs, NEW ts, NEW d, NEW op, Agree(rs, ts, d)
    PROVE  Agree(Performed(rs, op), Performed(ts, op), d)
<1> DEFINE rp == Performed(rs, op)
           tp == Performed(ts, op)
<1>1. \A a \in Of(d) : /\ a \in DOMAIN rs <=> a \in DOMAIN ts
                       /\ a \in DOMAIN rs => rs[a] = ts[a]
  BY AgreePointwise
<1>2. \A a \in Of(d) : /\ a \in DOMAIN rp <=> a \in DOMAIN tp
                       /\ a \in DOMAIN rp => rp[a] = tp[a]
  <2>1. CASE op.action = "delete"
    <3>1. /\ rp = [a \in DOMAIN rs \cap (Addresses \ {op.address}) |-> rs[a]]
          /\ tp = [a \in DOMAIN ts \cap (Addresses \ {op.address}) |-> ts[a]]
      BY <2>1 DEF Performed, Part
    <3> QED  BY <1>1, <3>1
  <2>2. CASE op.action # "delete"
    <3>1. /\ rp = [a \in DOMAIN rs \cup {op.address} |->
                      IF a = op.address THEN op.resource ELSE rs[a]]
          /\ tp = [a \in DOMAIN ts \cup {op.address} |->
                      IF a = op.address THEN op.resource ELSE ts[a]]
      BY <2>2 DEF Performed
    <3> QED  BY <1>1, <3>1
  <2> QED  BY <2>1, <2>2
<1> HIDE DEF rp, tp
<1>3. Agree(rp, tp, d)
  BY <1>2, AgreePointwise
<1> QED  BY <1>3 DEF rp, tp

(***************************************************************************)
(* A stopped domain is empty in both, the others stay as they are.         *)
(***************************************************************************)
LEMMA EmptiedAgree ==
    ASSUME NEW rs, NEW ts, NEW d \in Domains,
           d = PhaseDomain[call.phase] \/ Agree(rs, ts, d)
    PROVE  Agree(Emptied(rs), Emptied(ts), d)
<1>1. \A us : Emptied(us) =
        [a \in DOMAIN us \cap (Addresses \ Of(PhaseDomain[call.phase])) |-> us[a]]
  BY DEF Emptied, Part
<1>2. CASE d = PhaseDomain[call.phase]
  <2>1. \A a \in Of(d) : a \notin DOMAIN Emptied(rs) /\ a \notin DOMAIN Emptied(ts)
    BY <1>1, <1>2
  <2> QED  BY <2>1, AgreePointwise
<1>3. CASE Agree(rs, ts, d)
  <2>1. \A a \in Of(d) : /\ a \in DOMAIN rs <=> a \in DOMAIN ts
                         /\ a \in DOMAIN rs => rs[a] = ts[a]
    BY <1>3, AgreePointwise
  <2>2. \A a \in Of(d) :
            /\ a \in DOMAIN Emptied(rs) <=> a \in DOMAIN Emptied(ts)
            /\ a \in DOMAIN Emptied(rs) => Emptied(rs)[a] = Emptied(ts)[a]
    BY <1>1, <2>1
  <2> QED  BY <2>2, AgreePointwise
<1> QED  BY <1>2, <1>3

(***************************************************************************)
(* A domain that is not stopped is not touched by the stop of another one. *)
(***************************************************************************)
LEMMA EmptiedElsewhere ==
    ASSUME NEW rs, NEW d \in Domains, d # PhaseDomain[call.phase]
    PROVE  Agree(rs, Emptied(rs), d)
<1>1. Emptied(rs) =
        [a \in DOMAIN rs \cap (Addresses \ Of(PhaseDomain[call.phase])) |-> rs[a]]
  BY DEF Emptied, Part
<1>2. \A a \in Of(d) : a \in Addresses /\ a \notin Of(PhaseDomain[call.phase])
  BY DEF Of
<1>3. \A a \in Of(d) : /\ a \in DOMAIN rs <=> a \in DOMAIN Emptied(rs)
                       /\ a \in DOMAIN rs => rs[a] = Emptied(rs)[a]
  BY <1>1, <1>2
<1> QED  BY <1>3, AgreePointwise

LEMMA AgreeTransitive ==
    ASSUME NEW rs, NEW ts, NEW us, NEW d, Agree(rs, ts, d), Agree(ts, us, d)
    PROVE  Agree(rs, us, d)
BY DEF Agree
-----------------------------------------------------------------------------
(***************************************************************************)
(* The phases that follow a call are known, and a service is running or    *)
(* stopping unless the call returns.                                       *)
(***************************************************************************)
LEMMA FollowingPhase ==
    ASSUME NEW phase, NEW ok
    PROVE  Following(phase, ok) \in Running \cup Stopping \cup {"idle"}
BY DEF Following, Running, Stopping

LEMMA PhaseKinds ==
    /\ Phases = Running \cup Stopping \cup {"idle"}
    /\ Running \cap Stopping = {} /\ "idle" \notin Running \cup Stopping
BY DEF Phases, PhaseDomain, Running, Stopping

(***************************************************************************)
(* If the reported snapshot agrees with the world after the call about the *)
(* domains nobody is misled about, the invariant holds in the next phase   *)
(* and after the return.                                                   *)
(***************************************************************************)
LEMMA AnswerTold ==
    ASSUME NEW success, NEW reported, NEW ok,
           Answer(success, reported, ok),
           \A d \in Domains \ drifted' : Agree(reported, world', d)
    PROVE  TInv'
<1> DEFINE next == Following(call.phase, success)
<1>1. next \in Running \cup Stopping \cup {"idle"}
  BY FollowingPhase
<1>2. CASE next # "idle"
  <2>1. Enter(next, reported, call.done, call.ok /\ ok)
    BY <1>2 DEF Answer, Taken
  <2>2. /\ call'.phase = next
        /\ call'.working = reported /\ call'.view = reported
    BY <2>1 DEF Enter
  <2>3. CallShape'
    BY <2>1, <1>1, PhaseKinds DEF Enter, CallShape
  <2>4. Told'
    BY <2>2, <1>2 DEF Told, Agree
  <2> QED  BY <2>3, <2>4 DEF TInv
<1>3. CASE next = "idle"
  <2>1. call' = Idle /\ snapshot' = reported
    BY <1>3 DEF Answer, Taken
  <2>2. call'.phase = "idle"
    BY <2>1 DEF Idle
  <2>3. CallShape'
    BY <2>1, PhaseKinds DEF Idle, CallShape
  <2>4. Told'
    BY <2>1, <2>2, PhaseKinds DEF Told, Agree
  <2> QED  BY <2>3, <2>4 DEF TInv
<1> QED  BY <1>2, <1>3
-----------------------------------------------------------------------------
LEMMA InitTold == Init => TInv
<1> SUFFICES ASSUME Init PROVE TInv
  OBVIOUS
<1>1. CallShape
  BY PhaseKinds DEF Init, Idle, CallShape
<1>2. Told
  BY PhaseKinds DEF Init, Idle, Told, Agree
<1> QED  BY <1>1, <1>2 DEF TInv

(***************************************************************************)
(* Every step keeps the invariant.                                         *)
(***************************************************************************)
LEMMA NextTold == TInv /\ [Next]_vars => TInv'
<1> SUFFICES ASSUME TInv, [Next]_vars PROVE TInv'
  OBVIOUS
<1> USE DEF TInv
<1>1. ASSUME NEW scenario \in Scenarios, MakePlan(scenario) PROVE TInv'
  BY <1>1 DEF MakePlan, CallShape, Told, Agree, Part
<1>2. CASE Apply
  <2>1. plan.base = snapshot /\ call.phase = "idle"
    BY <1>2 DEF Apply, Applicable
  <2>2. /\ call'.phase = "provision" /\ call'.view = snapshot
        /\ CallShape'
    BY <1>2, <2>1 DEF Apply, Enter, CallShape, Phases, PhaseDomain
  <2>3. Told'
    BY <1>2, <2>1, <2>2, PhaseKinds DEF Apply, Told, Agree, Part, Running
  <2> QED  BY <2>2, <2>3
<1>3. CASE Destroy
  <2>1. call.phase = "idle"
    BY <1>3 DEF Destroy
  <2>2. /\ call'.phase \in Destroying /\ call'.view = snapshot /\ call'.working = snapshot
        /\ CallShape'
    BY <1>3, PhaseKinds DEF Destroy, Enter, CallShape, Destroying, Running, Stopping
  <2>3. Told'
    BY <1>3, <2>1, <2>2, PhaseKinds
       DEF Destroy, Told, Agree, Part, Running, Stopping, Destroying
  <2> QED  BY <2>2, <2>3
<1>4. CASE Perform
  <2> DEFINE op == Head(call.todo)
  <2>1. /\ call'.phase = call.phase
        /\ call'.view = Performed(call.view, op)
        /\ CallShape'
    BY <1>4 DEF Perform, CallShape
  <2>2. ASSUME NEW d \in Domains \ drifted
        PROVE  Agree(Performed(call.view, op), Performed(world, op), d)
    BY <1>4, PerformedAgree DEF Perform, Told
  <2>3. Told'
    BY <1>4, <2>1, <2>2, PhaseKinds DEF Perform, Told, Agree, Part
  <2> QED  BY <2>1, <2>3
<1>5. CASE Finish
  <2>1. \A d \in Domains \ drifted' : Agree(call.view, world', d)
    BY <1>5 DEF Finish, Told
  <2>2. PICK ok : Answer(TRUE, call.view, ok)
    BY <1>5 DEF Finish
  <2> QED  BY <2>1, <2>2, AnswerTold
<1>6. CASE Fail
  <2>1. \A d \in Domains \ drifted' : Agree(call.view, world', d)
    BY <1>6 DEF Fail, Told
  <2>2. Answer(FALSE, call.view, FALSE)
    BY <1>6 DEF Fail
  <2> QED  BY <2>1, <2>2, AnswerTold
<1>7. CASE Raise
  <2>1. ASSUME NEW d \in Domains \ drifted' PROVE Agree(call.working, world', d)
    <3>1. d \in Domains \ drifted /\ d \notin Hidden
      BY <1>7 DEF Raise
    <3>2. Agree(call.view, world, d)
      BY <1>7, <3>1 DEF Raise, Told
    <3>3. Agree(call.working, call.view, d)
      BY <3>1 DEF Hidden, Agree
    <3> QED  BY <1>7, <3>2, <3>3, AgreeTransitive DEF Raise
  <2>2. Answer(FALSE, call.working, FALSE)
    BY <1>7 DEF Raise
  <2> QED  BY <2>1, <2>2, AnswerTold
<1>8. CASE Stop
  <2>1. ASSUME NEW d \in Domains \ drifted'
        PROVE  Agree(Emptied(call.working), world', d)
    <3>1. d = PhaseDomain[call.phase] \/ d \in Domains \ drifted
      BY <1>8 DEF Stop
    <3>2. d = PhaseDomain[call.phase] \/ Agree(call.working, world, d)
      BY <1>8, <3>1 DEF Stop, Told
    <3>3. world' = Emptied(world)
      BY <1>8 DEF Stop
    <3>4. Agree(Emptied(call.working), Emptied(world), d)
      BY <3>2, EmptiedAgree
    <3> QED  BY <3>3, <3>4
  <2>2. Answer(TRUE, Emptied(call.working), TRUE)
    BY <1>8 DEF Stop
  <2> QED  BY <2>1, <2>2, AnswerTold
<1>9. CASE StopFails
  <2>1. \A d \in Domains \ drifted' : Agree(call.working, world', d)
    BY <1>9 DEF StopFails, Told
  <2>2. Answer(FALSE, call.working, FALSE)
    BY <1>9 DEF StopFails
  <2> QED  BY <2>1, <2>2, AnswerTold
<1>10. CASE StopRaises
  <2>1. ASSUME NEW d \in Domains \ drifted' PROVE Agree(call.working, world', d)
    <3>1. d \in Domains \ drifted
      BY <1>10 DEF StopRaises
    <3>2. CASE d = PhaseDomain[call.phase]
      BY <1>10, <3>2 DEF StopRaises, Agree
    <3>3. CASE d # PhaseDomain[call.phase]
      <4>1. Agree(call.working, world, d)
        BY <1>10, <3>1 DEF StopRaises, Told
      <4>2. Agree(world, Emptied(world), d)
        BY <3>3, EmptiedElsewhere
      <4> QED  BY <1>10, <4>1, <4>2, AgreeTransitive DEF StopRaises
    <3> QED  BY <3>2, <3>3
  <2>2. Answer(FALSE, call.working, FALSE)
    BY <1>10 DEF StopRaises
  <2> QED  BY <2>1, <2>2, AnswerTold
<1>11. CASE UNCHANGED vars
  BY <1>11 DEF vars, CallShape, Told, Agree, Part
<1> QED  BY <1>1, <1>2, <1>3, <1>4, <1>5, <1>6, <1>7, <1>8, <1>9, <1>10, <1>11 DEF Next

(***************************************************************************)
(* RuntimeManager.apply and destroy, with all their rollbacks: between two *)
(* calls the snapshot is what the backends run, but for a domain whose     *)
(* backend hid what it did.                                                *)
(***************************************************************************)
THEOREM SnapshotIsRealityCorrect == Spec => []SnapshotIsReality
<1>1. TInv => SnapshotIsReality
  BY DEF TInv, Told, Agree, SnapshotIsReality
<1> QED  BY <1>1, InitTold, NextTold, PTL DEF Spec
-----------------------------------------------------------------------------
(***************************************************************************)
(* Types, and what a plan is.                                              *)
(***************************************************************************)
LEMMA PlanOps ==
    ASSUME PlanMade, plan # None
    PROVE  /\ AreResources(plan.resources) /\ AreResources(plan.base)
           /\ \A d \in Domains : Plans(plan.ops[d], plan.resources, plan.base, d)
           /\ plan.valid \in BOOLEAN
           /\ plan.valid => \A d \in Domains : Acyclic(plan.resources, Of(d))
<1> DEFINE rs == plan.resources
           base == plan.base
           valid == \A d \in Domains : ~Cyclic(OrderingGraph(Part(rs, Of(d))))
           p == Plan(rs, base)
<1>1. AreResources(rs) /\ AreResources(base) /\ plan = p
  BY ScenariosOK DEF PlanMade
<1>2. p = [resources |-> rs, base |-> base, valid |-> valid,
           ops |-> [d \in Domains |-> Operations(rs, base, d)]]
  BY DEF Plan
<1>3. ASSUME NEW d \in Domains PROVE Plans(plan.ops[d], rs, base, d)
  <2>1. plan.ops[d] = Operations(rs, base, d)
    <3> HIDE DEF p, valid
    <3>1. p.ops = [e \in Domains |-> Operations(rs, base, e)]
      BY <1>2
    <3> QED  BY <1>1, <3>1
  <2> QED  BY <1>1, <2>1, OperationsPlan
<1>4. p.valid = valid
  <2> HIDE DEF p, valid
  <2> QED  BY <1>2
<1>5. plan.valid = valid
  BY <1>1, <1>4
<1>6. plan.valid \in BOOLEAN
  <2>1. valid \in BOOLEAN
    OBVIOUS
  <2> HIDE DEF valid
  <2> QED  BY <1>5, <2>1
<1>7. ASSUME plan.valid, NEW d \in Domains PROVE Acyclic(rs, Of(d))
  <2>1. valid
    BY <1>5, <1>7, Zenon
  <2>2. ~Cyclic(OrderingGraph(Part(rs, Of(d))))
    BY <2>1
  <2> QED  BY <1>1, <2>2, NotCyclic
<1> QED  BY <1>1, <1>3, <1>6, <1>7

LEMMA PhaseDomains ==
    /\ \A phase \in Phases \ {"idle"} : PhaseDomain[phase] \in Domains
    /\ PhaseDomain["provision"] = "provisioning" /\ PhaseDomain["delete"] = "provisioning"
    /\ PhaseDomain["evaluate"] = "evaluation" /\ PhaseDomain["orchestrate"] = "orchestration"
    /\ PhaseDomain["undo_evaluator"] = "evaluation"
    /\ PhaseDomain["stop_evaluator"] = "evaluation"
    /\ PhaseDomain["undo_orchestrator"] = "orchestration"
    /\ PhaseDomain["stop_orchestrator"] = "orchestration"
BY DEF Phases, PhaseDomain, Domains

LEMMA ApplyingPhases ==
    /\ Applying = {"provision", "evaluate", "orchestrate",
                   "undo_orchestrator", "undo_evaluator"}
    /\ Phases = Applying \cup Destroying \cup {"idle"}
BY DEF Applying, Phases, PhaseDomain, Destroying

\* What a call is given to do.
LEMMA TodoOps ==
    ASSUME PlanMade, NEW phase, phase \in Applying => plan # None,
           NEW working, AreResources(working)
    PROVE  Todo(phase, working) \in Seq(Ops)
<1>1. CASE phase \in {"provision", "evaluate", "orchestrate"}
  <2>1. PhaseDomain[phase] \in Domains /\ phase \in Applying
    BY <1>1, PhaseDomains, ApplyingPhases DEF Domains
  <2>2. Plans(plan.ops[PhaseDomain[phase]], plan.resources, plan.base, PhaseDomain[phase])
    BY <2>1, PlanOps
  <2> QED  BY <1>1, <2>2 DEF Todo, Plans
<1>2. CASE phase = "delete"
  <2>1. Plans(Deletions(Part(working, Of("provisioning"))), NoResources, working,
              "provisioning")
    BY DeletionsPlan
  <2> QED  BY <1>2, <2>1 DEF Todo, Plans
<1>3. CASE phase \notin {"provision", "evaluate", "orchestrate", "delete"}
  <2>1. Todo(phase, working) = <<>>
    BY <1>3 DEF Todo
  <2> QED  BY <2>1, EmptySeq
<1> QED  BY <1>1, <1>2, <1>3

LEMMA PartResources ==
    ASSUME NEW rs, AreResources(rs), NEW A
    PROVE  AreResources(Part(rs, A))
BY DEF AreResources, Part

LEMMA PerformedResources ==
    ASSUME NEW rs, AreResources(rs), NEW op \in Ops
    PROVE  AreResources(Performed(rs, op))
<1>1. CASE op.action = "delete"
  <2>1. Performed(rs, op) = Part(rs, Addresses \ {op.address})
    BY <1>1 DEF Performed
  <2> QED  BY <2>1, PartResources
<1>2. CASE op.action # "delete"
  <2>1. Performed(rs, op) = [a \in DOMAIN rs \cup {op.address} |->
                                IF a = op.address THEN op.resource ELSE rs[a]]
    BY <1>2 DEF Performed
  <2>2. op.address \in Addresses /\ op.resource \in Resource
    BY DEF Ops
  <2> HIDE DEF Resource
  <2> QED  BY <2>1, <2>2 DEF AreResources
<1> QED  BY <1>1, <1>2

LEMMA NoResourcesFacts ==
    /\ DOMAIN NoResources = {} /\ AreResources(NoResources)
    /\ \A d : Grounded(NoResources, d) /\ Empty(NoResources, d)
<1>1. DOMAIN NoResources = {}
  BY DEF NoResources
<1> QED  BY <1>1 DEF AreResources, Grounded, Acyclic, Empty

\* A call that returns or goes on keeps the types.
LEMMA AnswerKinds ==
    ASSUME KindInv, call.phase # "idle",
           NEW success, NEW reported, AreResources(reported),
           NEW ok \in BOOLEAN, Answer(success, reported, ok),
           AreResources(world'), drifted' \subseteq Domains
    PROVE  KindInv'
<1> DEFINE next == Following(call.phase, success)
<1>1. /\ CallShape /\ PlanMade /\ PlanApplies
      /\ AreResources(snapshot) /\ AreResources(call.working)
      /\ call.ok \in BOOLEAN /\ call.done \subseteq Addresses
      /\ reached # None => AreResources(reached)
      /\ owed \subseteq Addresses
  BY DEF KindInv
<1>2. UNCHANGED plan
  BY DEF Answer
<1>3. PlanMade'
  BY <1>1, <1>2 DEF PlanMade, AreResources
<1>4. call.phase \in Applying \/ call.phase \in Destroying
  BY <1>1, ApplyingPhases DEF CallShape
<1>5. CASE next # "idle"
  <2>1. /\ Enter(next, reported, call.done, call.ok /\ ok)
        /\ UNCHANGED <<snapshot, reached, owed>>
    BY <1>5 DEF Answer, Taken
  <2>2. next \in Applying => call.phase \in Applying
    BY <1>4, ApplyingPhases DEF Following, Destroying
  <2>3. next \in Phases
    BY FollowingPhase, PhaseKinds
  <2> HIDE DEF next
  <2> DEFINE todo == Todo(next, reported)
             both == call.ok /\ ok
  <2>4. todo \in Seq(Ops)
    BY <1>1, <2>2, TodoOps DEF PlanApplies
  <2>5. both \in BOOLEAN
    BY <1>1
  <2>6. call' = [phase |-> next, todo |-> todo, working |-> reported,
                 view |-> reported, done |-> call.done, ok |-> both]
    BY <2>1 DEF Enter
  <2> HIDE DEF todo, both
  <2>7. /\ call'.phase = next /\ call'.todo = todo /\ call'.working = reported
        /\ call'.view = reported /\ call'.done = call.done /\ call'.ok = both
    BY <2>6
  <2>8. CallShape'
    BY <2>3, <2>6, <2>7 DEF CallShape
  <2>9. PlanApplies'
    BY <1>1, <1>2, <2>2, <2>7 DEF PlanApplies, Needed
  <2>10. AreResources(snapshot)' /\ (reached # None => AreResources(reached))'
    BY <1>1, <2>1 DEF AreResources
  <2>11. AreResources(call.working)' /\ AreResources(call.view)' /\ AreResources(world)'
    BY <2>7 DEF AreResources
  <2> QED  BY <1>1, <1>3, <2>1, <2>4, <2>5, <2>7, <2>8, <2>9, <2>10, <2>11 DEF KindInv
<1>6. CASE next = "idle"
  <2>1. /\ call' = Idle /\ snapshot' = reported
        /\ reached' \in {None, NoResources, plan.resources}
        /\ call.phase \in Destroying => reached' \in {None, NoResources}
        /\ owed' \subseteq DOMAIN world'
    BY <1>6 DEF Answer, Taken
  <2>2. call'.phase = "idle"
    BY <2>1 DEF Idle
  <2>3. CallShape'
    BY <2>1, PhaseKinds DEF Idle, CallShape
  <2>4. PlanApplies'
    BY <2>2, ApplyingPhases DEF PlanApplies
  <2>5. /\ AreResources(call.working)' /\ AreResources(call.view)'
        /\ call'.ok \in BOOLEAN /\ call'.todo \in Seq(Ops) /\ call'.done \subseteq Addresses
    BY <2>1, NoResourcesFacts, EmptySeq DEF Idle, AreResources
  <2>6. (reached # None => AreResources(reached))'
    <3>1. CASE call.phase \in Destroying
      BY <2>1, <3>1, NoResourcesFacts DEF AreResources
    <3>2. CASE call.phase \in Applying
      <4>1. AreResources(plan.resources)
        BY <1>1, <3>2, PlanOps DEF PlanApplies
      <4> QED  BY <2>1, <4>1, NoResourcesFacts DEF AreResources
    <3> QED  BY <1>4, <3>1, <3>2
  <2>7. AreResources(snapshot)' /\ AreResources(world)'
    BY <2>1 DEF AreResources
  <2>8. owed' \subseteq Addresses
    BY <2>1 DEF AreResources
  <2> QED  BY <1>3, <2>3, <2>4, <2>5, <2>6, <2>7, <2>8 DEF KindInv
<1> QED  BY <1>5, <1>6

LEMMA InitKinds == Init => KindInv
<1> SUFFICES ASSUME Init PROVE KindInv
  OBVIOUS
<1>1. CallShape
  BY PhaseKinds DEF Init, Idle, CallShape
<1>2. PlanMade /\ PlanApplies
  BY ApplyingPhases DEF Init, PlanMade, PlanApplies, Idle
<1>3. /\ AreResources(snapshot) /\ AreResources(world)
      /\ AreResources(call.working) /\ AreResources(call.view)
  BY NoResourcesFacts DEF Init, Idle
<1>4. call.ok \in BOOLEAN /\ call.todo \in Seq(Ops) /\ call.done \subseteq Addresses
  BY EmptySeq DEF Init, Idle
<1>5. reached = None /\ drifted = {} /\ owed = {}
  BY DEF Init
<1> QED  BY <1>1, <1>2, <1>3, <1>4, <1>5 DEF KindInv

\* A call that is entered between two others.
LEMMA EnterKinds ==
    ASSUME KindInv, NEW phase \in Phases \ {"idle"}, NEW working, AreResources(working),
           Enter(phase, working, {}, TRUE), UNCHANGED <<snapshot, plan, world, reached, drifted, owed>>,
           phase \in Applying =>
               /\ plan # None /\ plan.valid
               /\ \A d \in {"orchestration", "evaluation"} : Needed(d) => d \in Services
    PROVE  KindInv'
<1> DEFINE todo == Todo(phase, working)
<1>1. todo \in Seq(Ops)
  BY TodoOps DEF KindInv
<1>2. call' = [phase |-> phase, todo |-> todo, working |-> working,
               view |-> working, done |-> {}, ok |-> TRUE]
  BY DEF Enter
<1> HIDE DEF todo
<1>3. /\ call'.phase = phase /\ call'.todo = todo /\ call'.working = working
      /\ call'.view = working /\ call'.done = {} /\ call'.ok = TRUE
  BY <1>2
<1>4. CallShape'
  BY <1>2, <1>3 DEF CallShape
<1>5. PlanMade'
  BY DEF KindInv, PlanMade, AreResources
<1>6. PlanApplies'
  BY <1>3 DEF PlanApplies, Needed
<1>7. /\ AreResources(snapshot)' /\ AreResources(world)'
      /\ AreResources(call.working)' /\ AreResources(call.view)'
      /\ (reached # None => AreResources(reached))'
  BY <1>3 DEF KindInv, AreResources
<1>8. drifted' \subseteq Domains /\ owed' \subseteq Addresses
  BY DEF KindInv
<1> QED  BY <1>1, <1>3, <1>4, <1>5, <1>6, <1>7, <1>8 DEF KindInv

LEMMA NextKinds == KindInv /\ [Next]_vars => KindInv'
<1> SUFFICES ASSUME KindInv, [Next]_vars PROVE KindInv'
  OBVIOUS
<1>1. ASSUME NEW scenario \in Scenarios, MakePlan(scenario) PROVE KindInv'
  <2>1. /\ plan' = Plan(scenario, snapshot) /\ call.phase = "idle"
        /\ UNCHANGED <<snapshot, call, world, reached, drifted, owed>>
    BY <1>1 DEF MakePlan
  <2>2. plan'.resources = scenario /\ plan'.base = snapshot
    BY <2>1 DEF Plan
  <2>3. PlanMade'
    BY <2>1, <2>2 DEF KindInv, PlanMade, AreResources
  <2>4. PlanApplies'
    BY <2>1, ApplyingPhases DEF PlanApplies
  <2> QED  BY <2>1, <2>3, <2>4 DEF KindInv, CallShape, AreResources
<1>2. CASE Apply
  <2>1. /\ Applicable /\ Enter("provision", plan.base, {}, TRUE)
        /\ UNCHANGED <<snapshot, plan, world, reached, drifted, owed>>
    BY <1>2 DEF Apply
  <2>2. "provision" \in Phases \ {"idle"} /\ AreResources(plan.base)
    BY <2>1, ApplyingPhases DEF Applicable, KindInv
  <2> QED  BY <2>1, <2>2, EnterKinds DEF Applicable
<1>3. CASE Destroy
  <2>1. PICK phase \in Destroying :
            /\ Enter(phase, snapshot, {}, TRUE)
            /\ UNCHANGED <<snapshot, plan, world, reached, drifted, owed>>
    BY <1>3 DEF Destroy, Destroying
  <2>2. /\ phase \in Phases \ {"idle"} /\ phase \notin Applying
        /\ AreResources(snapshot)
    BY ApplyingPhases DEF Destroying, KindInv
  <2> QED  BY <2>1, <2>2, EnterKinds
<1>4. CASE Perform
  <2> DEFINE op == Head(call.todo)
             view == Performed(call.view, op)
             there == Performed(world, op)
             done == IF op.action \in {"delete", "unchanged"} THEN call.done
                     ELSE call.done \cup {op.address}
  <2>1. /\ call.todo # <<>> /\ UNCHANGED <<snapshot, plan, reached, drifted, owed>>
        /\ world' = there
        /\ call' = [call EXCEPT !.todo = Tail(@), !.view = view, !.done = done]
    BY <1>4 DEF Perform
  <2>2. call.todo \in Seq(Ops)
    BY DEF KindInv
  <2>3. op \in Ops /\ Tail(call.todo) \in Seq(Ops)
    BY <2>1, <2>2, HeadTailProperties
  <2>4. AreResources(view) /\ AreResources(there)
    BY <2>3, PerformedResources DEF KindInv
  <2>5. done \subseteq Addresses
    BY <2>3 DEF KindInv, Ops
  <2> HIDE DEF view, there, done, op
  <2>6. /\ call'.phase = call.phase /\ call'.todo = Tail(call.todo)
        /\ call'.working = call.working /\ call'.view = view
        /\ call'.done = done /\ call'.ok = call.ok
        /\ CallShape'
    BY <2>1 DEF KindInv, CallShape
  <2>7. PlanMade' /\ PlanApplies'
    BY <2>1, <2>6 DEF KindInv, PlanMade, PlanApplies, Needed, AreResources
  <2> QED  BY <2>1, <2>3, <2>4, <2>5, <2>6, <2>7 DEF KindInv, AreResources
<1>5. CASE Finish
  <2>1. PICK ok \in BOOLEAN : Answer(TRUE, call.view, ok)
    BY <1>5 DEF Finish
  <2>2. call.phase # "idle" /\ UNCHANGED <<world, drifted>>
    BY <1>5, PhaseKinds DEF Finish
  <2> QED  BY <2>1, <2>2, AnswerKinds DEF KindInv, AreResources
<1>6. CASE Fail
  <2>1. /\ Answer(FALSE, call.view, FALSE)
        /\ call.phase # "idle" /\ UNCHANGED <<world, drifted>>
    BY <1>6, PhaseKinds DEF Fail
  <2> QED  BY <2>1, AnswerKinds DEF KindInv, AreResources
<1>7. CASE Raise
  <2>1. /\ Answer(FALSE, call.working, FALSE)
        /\ call.phase # "idle" /\ UNCHANGED world
        /\ drifted' \subseteq drifted \cup Domains
    BY <1>7, PhaseKinds DEF Raise, Hidden
  <2> QED  BY <2>1, AnswerKinds DEF KindInv, AreResources
<1>8. CASE Stop
  <2>1. /\ Answer(TRUE, Emptied(call.working), TRUE)
        /\ call.phase # "idle" /\ world' = Emptied(world)
        /\ drifted' \subseteq drifted
    BY <1>8, PhaseKinds DEF Stop
  <2>2. AreResources(Emptied(call.working)) /\ AreResources(Emptied(world))
    BY PartResources DEF Emptied, KindInv
  <2>3. AreResources(world')
    BY <2>1, <2>2
  <2> QED  BY <2>1, <2>2, <2>3, AnswerKinds DEF KindInv
<1>9. CASE StopFails
  <2>1. /\ Answer(FALSE, call.working, FALSE)
        /\ call.phase # "idle" /\ UNCHANGED <<world, drifted>>
    BY <1>9, PhaseKinds DEF StopFails
  <2> QED  BY <2>1, AnswerKinds DEF KindInv, AreResources
<1>10. CASE StopRaises
  <2>1. /\ Answer(FALSE, call.working, FALSE)
        /\ call.phase # "idle" /\ call.phase \in Phases /\ world' = Emptied(world)
        /\ drifted' \subseteq drifted \cup {PhaseDomain[call.phase]}
    BY <1>10, PhaseKinds DEF StopRaises, KindInv, CallShape
  <2>2. AreResources(Emptied(world))
    BY PartResources DEF Emptied, KindInv
  <2>3. AreResources(world') /\ drifted' \subseteq Domains
    BY <2>1, <2>2, PhaseDomains DEF KindInv
  <2> QED  BY <2>1, <2>3, AnswerKinds DEF KindInv
<1>11. CASE UNCHANGED vars
  BY <1>11 DEF vars, KindInv, CallShape, PlanMade, PlanApplies, Needed, AreResources
<1> QED  BY <1>1, <1>2, <1>3, <1>4, <1>5, <1>6, <1>7, <1>8, <1>9, <1>10, <1>11 DEF Next

(***************************************************************************)
(* RuntimeManager.plan, apply and destroy: everything has its type; what   *)
(* the backends are told to do are operations of resources.                *)
(***************************************************************************)
THEOREM TypeCorrect == Spec => []TypeOK
<1>1. ASSUME KindInv PROVE TypeOK
  <2>1. \A s \in Seq(Ops) : ToSet(s) \subseteq Ops
    BY LenProperties, ElementOfSeq DEF ToSet
  <2>2. ASSUME plan # None, NEW d \in Domains PROVE ToSet(plan.ops[d]) \subseteq Ops
    BY <1>1, <2>1, <2>2, PlanOps DEF KindInv, Plans
  <2>3. plan # None => plan.valid \in BOOLEAN
    BY <1>1, PlanOps DEF KindInv
  <2>4. ToSet(call.todo) \subseteq Ops
    BY <1>1, <2>1 DEF KindInv
  <2> QED  BY <1>1, <2>2, <2>3, <2>4 DEF TypeOK, KindInv, PlanMade, CallShape
<1> QED  BY <1>1, InitKinds, NextKinds, PTL DEF Spec
-----------------------------------------------------------------------------
(***************************************************************************)
(* How far a call has come.                                                *)
(***************************************************************************)
LEMMA PerformsNone ==
    ASSUME NEW F, NEW base
    PROVE  Performs(F, 0, base, base)
<1>1. \A i \in 1 .. 0 : FALSE
  OBVIOUS
<1> QED  BY <1>1 DEF Performs

LEMMA PerformsMore ==
    ASSUME NEW F, NEW rs, NEW base, NEW d, Plans(F, rs, base, d),
           NEW k \in 0 .. Len(F), k < Len(F),
           NEW view, Performs(F, k, base, view)
    PROVE  Performs(F, k + 1, base, Performed(view, F[k + 1]))
<1> DEFINE op == F[k + 1]
           seen == Performed(view, op)
<1>1. /\ F \in Seq(Ops) /\ Len(F) \in Nat /\ DOMAIN F = 1 .. Len(F)
      /\ k + 1 \in DOMAIN F
  BY LenProperties DEF Plans
<1>2. op \in Ops
  BY <1>1, ElementOfSeq
<1>3. op.address \in Addresses
  BY <1>2 DEF Ops
<1>4. \A i \in 1 .. k : i \in DOMAIN F /\ F[i].address # op.address
  <2>1. \A i \in 1 .. k : i \in DOMAIN F /\ i # k + 1
    BY <1>1
  <2> QED  BY <1>1, <2>1 DEF Plans
<1>5. /\ op.action = "delete" => op.address \notin DOMAIN seen
      /\ op.action # "delete" => op.address \in DOMAIN seen /\ seen[op.address] = op.resource
      /\ \A a \in Addresses : a # op.address =>
            /\ a \in DOMAIN seen <=> a \in DOMAIN view
            /\ a \in DOMAIN view => seen[a] = view[a]
  <2>1. CASE op.action = "delete"
    <3>1. seen = [a \in DOMAIN view \cap (Addresses \ {op.address}) |-> view[a]]
      BY <2>1 DEF Performed, Part
    <3> QED  BY <2>1, <3>1
  <2>2. CASE op.action # "delete"
    <3>1. seen = [a \in DOMAIN view \cup {op.address} |->
                      IF a = op.address THEN op.resource ELSE view[a]]
      BY <2>2 DEF Performed
    <3> QED  BY <2>2, <3>1
  <2> QED  BY <2>1, <2>2
<1>6. \A i \in 1 .. k + 1 : i \in 1 .. k \/ i = k + 1
  OBVIOUS
<1>7. \A i \in 1 .. k : F[i].address \in Addresses
  <2>1. \A i \in 1 .. k : F[i] \in Ops
    BY <1>1, <1>4, ElementOfSeq
  <2> QED  BY <2>1 DEF Ops
<1> HIDE DEF seen
<1>8. ASSUME NEW i \in 1 .. k + 1
      PROVE  /\ F[i].action = "delete" => F[i].address \notin DOMAIN seen
             /\ F[i].action # "delete" => /\ F[i].address \in DOMAIN seen
                                          /\ seen[F[i].address] = F[i].resource
  <2>1. CASE i = k + 1
    BY <1>5, <2>1
  <2>2. CASE i \in 1 .. k
    BY <1>4, <1>5, <1>7, <2>2 DEF Performs
  <2> QED  BY <1>6, <2>1, <2>2
<1>9. ASSUME NEW a \in Addresses, \A i \in 1 .. k + 1 : F[i].address # a
      PROVE  /\ a \in DOMAIN seen <=> a \in DOMAIN base
             /\ a \in DOMAIN base => seen[a] = base[a]
  <2>1. k + 1 \in 1 .. k + 1 /\ \A i \in 1 .. k : i \in 1 .. k + 1
    OBVIOUS
  <2>2. op.address # a /\ \A i \in 1 .. k : F[i].address # a
    BY <1>9, <2>1
  <2> QED  BY <1>5, <2>2 DEF Performs
<1>10. Performs(F, k + 1, base, seen)
  BY <1>8, <1>9 DEF Performs
<1> QED  BY <1>10 DEF seen

\* A call that begins with a plan has performed none of it.
LEMMA EnterProgress ==
    ASSUME NEW phase, NEW working, NEW done, NEW ok,
           Enter(phase, working, done, ok), UNCHANGED plan,
           phase \in Running =>
             Plans(Todo(phase, working),
                   IF phase = "delete" THEN NoResources ELSE plan.resources,
                   working, PhaseDomain[phase])
    PROVE  /\ Progress'
           /\ call'.phase = phase /\ call'.working = working
           /\ call'.view = working /\ call'.ok = ok
<1> SUFFICES ASSUME NEW F, F = Todo(phase, working)
             PROVE  /\ Progress'
                    /\ call'.phase = phase /\ call'.working = working
                    /\ call'.view = working /\ call'.ok = ok
  OBVIOUS
<1>1. /\ call'.phase = phase /\ call'.working = working /\ call'.todo = F
      /\ call'.view = working /\ call'.ok = ok
  BY DEF Enter
<1>2. Todo(call.phase, call.working)' = F
  BY <1>1 DEF Todo
<1>3. Target' = IF phase = "delete" THEN NoResources ELSE plan.resources
  BY <1>1 DEF Target
<1>4. ASSUME phase \in Running PROVE \E k \in 0 .. Len(F) : Done(F, k)'
  <2>1. Plans(F, Target', working, PhaseDomain[phase])
    BY <1>3, <1>4
  <2>2. F \in Seq(Ops) /\ Len(F) \in Nat
    BY <2>1, LenProperties DEF Plans
  <2>3. SubSeq(F, 0 + 1, Len(F)) = F
    BY <2>2, SubSeqFull
  <2>4. Performs(F, 0, working, working)
    BY PerformsNone
  <2>5. Plans(F, Target', call'.working, PhaseDomain[call'.phase])
    BY <1>1, <2>1
  <2>6. Performs(F, 0, call'.working, call'.view)
    BY <1>1, <2>4
  <2>7. Done(F, 0)'
    BY <1>1, <2>3, <2>5, <2>6 DEF Done
  <2> QED  BY <2>2, <2>7
<1>5. Progress'
  BY <1>1, <1>2, <1>4 DEF Progress
<1> QED  BY <1>1, <1>5

\* One more operation is done.
LEMMA PerformProgress ==
    ASSUME KindInv, Progress, Perform
    PROVE  /\ Progress'
           /\ call'.phase = call.phase /\ call'.working = call.working
           /\ call'.ok = call.ok
           /\ UNCHANGED <<snapshot, plan, reached>>
           /\ \A e : e # PhaseDomain[call.phase] => Agree(call'.view, call.working, e)
           /\ Midway(call'.view)
<1>1. PICK F : F = Todo(call.phase, call.working)
  OBVIOUS
<1>2. /\ call.phase \in Running /\ call.todo # <<>>
      /\ call'.phase = call.phase /\ call'.working = call.working /\ call'.ok = call.ok
      /\ call'.todo = Tail(call.todo)
      /\ call'.view = Performed(call.view, Head(call.todo))
      /\ UNCHANGED <<snapshot, plan, reached>>
  BY DEF Perform, KindInv, CallShape
<1>3. PICK k \in 0 .. Len(F) : Done(F, k)
  BY <1>1, <1>2 DEF Progress
<1> DEFINE d == PhaseDomain[call.phase]
<1>4. /\ Plans(F, Target, call.working, d)
      /\ call.todo = SubSeq(F, k + 1, Len(F))
      /\ Performs(F, k, call.working, call.view)
  BY <1>3 DEF Done
<1>5. F \in Seq(Ops) /\ Len(F) \in Nat
  BY <1>4, LenProperties DEF Plans
<1>6. k < Len(F)
  <2> SUFFICES ASSUME k = Len(F) PROVE FALSE
    BY <1>5
  <2>1. k + 1 \in Int /\ Len(F) \in Int /\ Len(F) < k + 1
    BY <1>5
  <2>2. SubSeq(F, k + 1, Len(F)) = <<>>
    BY <2>1, SubSeqEmpty
  <2> QED  BY <1>2, <1>4, <2>2
<1>7. /\ Head(call.todo) = F[k + 1]
      /\ Tail(call.todo) = SubSeq(F, (k + 1) + 1, Len(F))
  <2>1. k + 1 \in 1 .. Len(F) /\ Len(F) \in k + 1 .. Len(F)
    BY <1>5, <1>6
  <2> QED  BY <1>4, <1>5, <2>1, HeadTailOfSubSeq
<1>8. Performs(F, k + 1, call.working, Performed(call.view, F[k + 1]))
  BY <1>4, <1>6, PerformsMore
<1>9. /\ Plans(F, Target, call'.working, PhaseDomain[call'.phase])
      /\ call'.todo = SubSeq(F, (k + 1) + 1, Len(F))
      /\ Performs(F, k + 1, call'.working, call'.view)
  BY <1>2, <1>4, <1>7, <1>8
<1>10. Target' = Target
  BY <1>2 DEF Target
<1>11. Done(F, k + 1)'
  BY <1>9, <1>10 DEF Done
<1>12. k + 1 \in 0 .. Len(F)
  BY <1>5, <1>6
<1>13. Todo(call.phase, call.working)' = F
  BY <1>1, <1>2 DEF Todo
<1>14. Progress'
  BY <1>11, <1>12, <1>13 DEF Progress
<1>15. ASSUME NEW e, e # d PROVE Agree(call'.view, call'.working, e)
  <2>1. Plans(F, Target, call'.working, d)
    BY <1>2, <1>9
  <2> HIDE DEF d
  <2> QED  BY <1>9, <1>12, <1>15, <2>1, OthersAgree
<1>16. Midway(call'.view)
  BY <1>2, <1>9, <1>12 DEF Midway
<1> QED  BY <1>2, <1>14, <1>15, <1>16

\* A call has touched no other domain than its own, and has reached its target
\* in this one when nothing is left to do.
LEMMA ViewFacts ==
    ASSUME Progress, call.phase \in Running
    PROVE  /\ \A e : e # PhaseDomain[call.phase] => Agree(call.view, call.working, e)
           /\ call.todo = <<>> => Agree(call.view, Target, PhaseDomain[call.phase])
<1> DEFINE F == Todo(call.phase, call.working)
           d == PhaseDomain[call.phase]
<1>1. PICK k \in 0 .. Len(F) : Done(F, k)
  BY DEF Progress
<1>2. /\ k \in 0 .. Len(F)
      /\ Plans(F, Target, call.working, d)
      /\ call.todo = SubSeq(F, k + 1, Len(F))
      /\ Performs(F, k, call.working, call.view)
  BY <1>1 DEF Done
<1> HIDE DEF F, d
<1>3. F \in Seq(Ops) /\ Len(F) \in Nat /\ DOMAIN F = 1 .. Len(F)
  BY <1>2, LenProperties DEF Plans
<1>4. ASSUME NEW e, e # d PROVE Agree(call.view, call.working, e)
  BY <1>2, <1>4, OthersAgree
<1>5. ASSUME call.todo = <<>> PROVE Agree(call.view, Target, d)
  <2> DEFINE n == Len(F)
             m == Len(SubSeq(F, k + 1, n))
  <2>1. n \in Nat /\ k \in 0 .. n
    BY <1>2, <1>3
  <2>2. m = 0
    BY <1>2, <1>5, EmptySeq
  <2>3. k = n
    <3>1. k + 1 \in Int /\ n \in Int
      BY ONLY <2>1
    <3>2. \A i \in k + 1 .. n : F[i] \in Ops
      <4>1. \A i \in k + 1 .. n : i \in DOMAIN F
        BY <1>3, <2>1
      <4> QED  BY <1>3, <4>1, ElementOfSeq
    <3>3. m = IF k + 1 <= n THEN n - (k + 1) + 1 ELSE 0
      BY <3>1, <3>2, SubSeqProperties
    <3> HIDE DEF m, n
    <3> QED  BY <2>1, <2>2, <3>3
  <2>4. Performs(F, Len(F), call.working, call.view)
    BY <1>2, <2>3
  <2> QED  BY <1>2, <2>4, CompleteAgrees
<1> QED  BY <1>4, <1>5 DEF d

\* Mappings that agree about every domain are the same.
LEMMA AgreeEverywhere ==
    ASSUME NEW rs, NEW ts, AreResources(rs), AreResources(ts),
           \A d \in Domains : Agree(rs, ts, d)
    PROVE  rs = ts
<1>1. \A a \in Addresses : Domain[a] \in Domains /\ a \in Of(Domain[a])
  BY AddressesOK DEF Of
<1>2. \A a \in Addresses : /\ a \in DOMAIN rs <=> a \in DOMAIN ts
                           /\ a \in DOMAIN rs => rs[a] = ts[a]
  BY <1>1, AgreePointwise
<1>3. DOMAIN rs = DOMAIN ts /\ \A a \in DOMAIN rs : rs[a] = ts[a]
  BY <1>2 DEF AreResources
<1>4. rs = [a \in DOMAIN rs |-> rs[a]] /\ ts = [a \in DOMAIN ts |-> ts[a]]
  BY DEF AreResources
<1> QED  BY <1>3, <1>4

LEMMA AgreeEmpty ==
    ASSUME NEW rs, NEW ts, NEW d, Agree(rs, ts, d)
    PROVE  /\ Empty(rs, d) <=> Empty(ts, d)
           /\ Agree(ts, rs, d)
<1>1. \A a \in Of(d) : a \in DOMAIN rs <=> a \in DOMAIN ts
  BY AgreePointwise
<1> QED  BY <1>1 DEF Empty, Agree

LEMMA EmptyAgree ==
    ASSUME NEW rs, NEW d
    PROVE  Empty(rs, d) <=> Agree(rs, NoResources, d)
<1>1. Empty(NoResources, d) /\ DOMAIN NoResources = {}
  BY NoResourcesFacts
<1>2. ASSUME Empty(rs, d) PROVE Agree(rs, NoResources, d)
  <2>1. \A a \in Of(d) : a \notin DOMAIN rs /\ a \notin DOMAIN NoResources
    BY <1>1, <1>2 DEF Empty
  <2> QED  BY <2>1, AgreePointwise
<1> QED  BY <1>1, <1>2, AgreeEmpty
-----------------------------------------------------------------------------
(***************************************************************************)
(* What a call that succeeds has reached.                                  *)
(***************************************************************************)

\* The phase a call comes from.
LEMMA NextPhase ==
    ASSUME NEW phase \in Phases \ {"idle"}, NEW ok \in BOOLEAN, NEW next,
           next = Following(phase, ok)
    PROVE  /\ next \notin {"provision", "stop_orchestrator"}
           /\ next = "evaluate" => phase = "provision" /\ ok /\ Needed("evaluation")
           /\ next = "orchestrate" =>
                /\ ok /\ Needed("orchestration")
                /\ phase = "evaluate" \/ (phase = "provision" /\ ~Needed("evaluation"))
           /\ next = "undo_evaluator" => \/ phase = "evaluate" /\ ~ok
                                         \/ phase = "undo_orchestrator"
           /\ next = "undo_orchestrator" => phase = "orchestrate" /\ ~ok
           /\ next = "stop_evaluator" => phase = "stop_orchestrator"
           /\ next = "delete" => \/ phase = "stop_evaluator"
                                 \/ phase = "stop_orchestrator" /\ "evaluation" \notin Services
           /\ next = "idle" /\ ok =>
                \/ phase = "provision" /\ ~Needed("evaluation") /\ ~Needed("orchestration")
                \/ phase = "evaluate" /\ ~Needed("orchestration")
                \/ phase \in {"orchestrate", "undo_orchestrator", "undo_evaluator", "delete"}
<1>1. phase \in {"provision", "evaluate", "orchestrate", "undo_orchestrator",
                 "undo_evaluator", "stop_orchestrator", "stop_evaluator", "delete"}
  BY ApplyingPhases DEF Destroying
<1> DEFINE ev == Needed("evaluation")
           or == Needed("orchestration")
<1>2. next = Following(phase, ok)
  OBVIOUS
<1>3. next =
        CASE phase = "provision" /\ ok /\ ev -> "evaluate"
          [] phase \in {"provision", "evaluate"} /\ ok /\ or
                /\ (phase = "provision" => ~ev) -> "orchestrate"
          [] phase = "evaluate" /\ ~ok -> "undo_evaluator"
          [] phase = "orchestrate" /\ ~ok -> "undo_orchestrator"
          [] phase = "undo_orchestrator" /\ ev -> "undo_evaluator"
          [] phase = "stop_orchestrator" /\ "evaluation" \in Services -> "stop_evaluator"
          [] phase \in {"stop_orchestrator", "stop_evaluator"}
                /\ ~(phase = "stop_orchestrator" /\ "evaluation" \in Services) -> "delete"
          [] OTHER -> "idle"
  BY <1>2 DEF Following
<1> HIDE DEF ev, or
<1>4. CASE phase = "provision"
  BY <1>3, <1>4 DEF ev, or
<1>5. CASE phase = "evaluate"
  BY <1>3, <1>5 DEF ev, or
<1>6. CASE phase = "orchestrate"
  BY <1>3, <1>6
<1>7. CASE phase \in {"undo_orchestrator", "undo_evaluator"}
  BY <1>3, <1>7
<1>8. CASE phase \in {"stop_orchestrator", "stop_evaluator", "delete"}
  BY <1>3, <1>8
<1> QED  BY <1>1, <1>4, <1>5, <1>6, <1>7, <1>8

\* What a phase is given to do is a plan for its target.
LEMMA TodoPlans ==
    ASSUME PlanMade, NEW phase \in Running, NEW working, AreResources(working),
           phase # "delete" =>
               plan # None /\ Agree(plan.base, working, PhaseDomain[phase])
    PROVE  Plans(Todo(phase, working),
                 IF phase = "delete" THEN NoResources ELSE plan.resources,
                 working, PhaseDomain[phase])
<1>1. CASE phase = "delete"
  <2>1. Plans(Deletions(Part(working, Of("provisioning"))), NoResources, working,
              "provisioning")
    BY DeletionsPlan
  <2> QED  BY <1>1, <2>1, PhaseDomains DEF Todo
<1>2. CASE phase # "delete"
  <2>1. phase \in {"provision", "evaluate", "orchestrate"}
    BY <1>2 DEF Running
  <2>2. PhaseDomain[phase] \in Domains
    BY <2>1, PhaseDomains DEF Domains
  <2>3. Plans(plan.ops[PhaseDomain[phase]], plan.resources, plan.base, PhaseDomain[phase])
    BY <1>2, <2>2, PlanOps
  <2>4. Plans(plan.ops[PhaseDomain[phase]], plan.resources, working, PhaseDomain[phase])
    BY <1>2, <2>3, PlansAgree
  <2> QED  BY <1>2, <2>1, <2>4 DEF Todo
<1> QED  BY <1>1, <1>2

\* The snapshot a call reports is the one the next phase, or the next call,
\* needs.
LEMMA AnswerReaches ==
    ASSUME ReachInv, KindInv', call.phase # "idle",
           NEW success \in BOOLEAN, NEW ok \in BOOLEAN, ok => success,
           NEW reported, AreResources(reported), Answer(success, reported, ok),
           call.phase \in Running /\ success =>
               Agree(reported, Target, PhaseDomain[call.phase]),
           call.phase \in Stopping /\ ok => Empty(reported, PhaseDomain[call.phase]),
           \A e : e # PhaseDomain[call.phase] => Agree(reported, call.working, e),
           \A d \in Domains \ (Services \cup {"provisioning"}) : Empty(reported, d)
    PROVE  ReachInv'
<1> SUFFICES ASSUME NEW next, next = Following(call.phase, success)
             PROVE  ReachInv'
  OBVIOUS
<1>1. call.phase \in Phases \ {"idle"} /\ call.ok \in BOOLEAN
  BY DEF ReachInv, KindInv, CallShape
<1>2. /\ next \notin {"provision", "stop_orchestrator"}
      /\ next = "evaluate" => call.phase = "provision" /\ success /\ Needed("evaluation")
      /\ next = "orchestrate" =>
           /\ success /\ Needed("orchestration")
           /\ call.phase = "evaluate" \/ (call.phase = "provision" /\ ~Needed("evaluation"))
      /\ next = "undo_evaluator" => \/ call.phase = "evaluate" /\ ~success
                                    \/ call.phase = "undo_orchestrator"
      /\ next = "undo_orchestrator" => call.phase = "orchestrate" /\ ~success
      /\ next = "stop_evaluator" => call.phase = "stop_orchestrator"
      /\ next = "delete" =>
           \/ call.phase = "stop_evaluator"
           \/ call.phase = "stop_orchestrator" /\ "evaluation" \notin Services
      /\ next = "idle" /\ success =>
           \/ call.phase = "provision" /\ ~Needed("evaluation") /\ ~Needed("orchestration")
           \/ call.phase = "evaluate" /\ ~Needed("orchestration")
           \/ call.phase \in {"orchestrate", "undo_orchestrator", "undo_evaluator", "delete"}
  BY <1>1, NextPhase
<1>3. call.phase \in Applying =>
        /\ plan # None
        /\ \A d \in {"orchestration", "evaluation"} : Needed(d) => d \in Services
        /\ \A d \in Domains : ~Needed(d) => Agree(plan.resources, plan.base, d)
  BY PlanOps, NothingToDo DEF ReachInv, KindInv, PlanApplies, Needed
<1>4. UNCHANGED plan
  BY DEF Answer
<1>5. /\ "provisioning" \in Domains /\ "evaluation" \in Domains /\ "orchestration" \in Domains
      /\ \A d \in Domains : d \in {"provisioning", "evaluation", "orchestration"}
  BY DEF Domains
\* What the phases of an apply have brought about.
<1>6. /\ call.phase = "provision" =>
           /\ success => Agree(reported, plan.resources, "provisioning")
           /\ Agree(plan.base, reported, "evaluation")
           /\ Agree(plan.base, reported, "orchestration")
      /\ call.phase = "evaluate" =>
           /\ Agree(reported, plan.resources, "provisioning")
           /\ success => Agree(reported, plan.resources, "evaluation")
           /\ Agree(plan.base, reported, "orchestration")
      /\ call.phase = "orchestrate" =>
           /\ Agree(reported, plan.resources, "provisioning")
           /\ Agree(reported, plan.resources, "evaluation")
           /\ success => Agree(reported, plan.resources, "orchestration")
  <2>1. CASE call.phase = "provision"
    <3>1. /\ PhaseDomain[call.phase] = "provisioning" /\ call.phase \in Running
          /\ Target = plan.resources
      BY <2>1, PhaseDomains DEF Running, Target
    <3> QED  BY <1>5, <2>1, <3>1 DEF ReachInv, Stage, Agree
  <2>2. CASE call.phase = "evaluate"
    <3>1. /\ PhaseDomain[call.phase] = "evaluation" /\ call.phase \in Running
          /\ Target = plan.resources
      BY <2>2, PhaseDomains DEF Running, Target
    <3> QED  BY <1>5, <2>2, <3>1 DEF ReachInv, Stage, Agree
  <2>3. CASE call.phase = "orchestrate"
    <3>1. /\ PhaseDomain[call.phase] = "orchestration" /\ call.phase \in Running
          /\ Target = plan.resources
      BY <2>3, PhaseDomains DEF Running, Target
    <3> QED  BY <1>5, <2>3, <3>1 DEF ReachInv, Stage, Agree
  <2> QED  BY <2>1, <2>2, <2>3
\* What the phases of a destroy have.
<1>7. /\ call.phase = "stop_orchestrator" /\ ok => Empty(reported, "orchestration")
      /\ call.phase = "stop_evaluator" /\ call.ok /\ ok =>
           Empty(reported, "orchestration") /\ Empty(reported, "evaluation")
      /\ call.phase = "delete" /\ call.ok /\ ok =>
           /\ Empty(reported, "orchestration") /\ Empty(reported, "evaluation")
           /\ Empty(reported, "provisioning")
  <2>1. CASE call.phase = "stop_orchestrator"
    <3>1. PhaseDomain[call.phase] = "orchestration" /\ call.phase \in Stopping
      BY <2>1, PhaseDomains DEF Stopping
    <3> QED  BY <2>1, <3>1
  <2>2. CASE call.phase = "stop_evaluator"
    <3>1. PhaseDomain[call.phase] = "evaluation" /\ call.phase \in Stopping
      BY <2>2, PhaseDomains DEF Stopping
    <3>2. Agree(reported, call.working, "orchestration")
      BY <3>1
    <3> QED  BY <2>2, <3>1, <3>2, AgreeEmpty DEF ReachInv, Stage
  <2>3. CASE call.phase = "delete"
    <3>1. /\ PhaseDomain[call.phase] = "provisioning" /\ call.phase \in Running
          /\ Target = NoResources
      BY <2>3, PhaseDomains DEF Running, Target
    <3>2. Agree(reported, call.working, "orchestration") /\ Agree(reported, call.working, "evaluation")
      BY <3>1
    <3>3. ok => Empty(reported, "provisioning")
      BY <3>1, EmptyAgree
    <3> QED  BY <2>3, <3>2, <3>3, AgreeEmpty DEF ReachInv, Stage
  <2> QED  BY <2>1, <2>2, <2>3
<1>8. CASE next # "idle"
  <2>1. /\ Enter(next, reported, call.done, call.ok /\ ok)
        /\ UNCHANGED <<snapshot, plan, reached>>
    BY <1>8 DEF Answer, Taken
  <2>2. next \in Running =>
          Plans(Todo(next, reported),
                IF next = "delete" THEN NoResources ELSE plan.resources,
                reported, PhaseDomain[next])
    <3> SUFFICES ASSUME next \in Running
                 PROVE  Plans(Todo(next, reported),
                              IF next = "delete" THEN NoResources ELSE plan.resources,
                              reported, PhaseDomain[next])
      OBVIOUS
    <3>1. next # "delete" =>
             plan # None /\ Agree(plan.base, reported, PhaseDomain[next])
      BY <1>2, <1>3, <1>6, PhaseDomains, ApplyingPhases DEF Running
    <3> QED  BY <3>1, TodoPlans DEF ReachInv, KindInv
  <2>3. /\ Progress'
        /\ call'.phase = next /\ call'.working = reported
        /\ call'.view = reported /\ call'.ok = (call.ok /\ ok)
    <3> DEFINE both == call.ok /\ ok
    <3>1. Enter(next, reported, call.done, both)
      BY <2>1
    <3> HIDE DEF both
    <3>2. /\ Progress'
          /\ call'.phase = next /\ call'.working = reported
          /\ call'.view = reported /\ call'.ok = both
      BY <1>4, <2>2, <3>1, EnterProgress
    <3> QED  BY <3>2 DEF both
  <2>4. next \in Running => PhaseDomain[next] \in Services \cup {"provisioning"}
    BY <1>2, <1>3, PhaseDomains, ApplyingPhases DEF Running
  <2>5. Unserved'
    BY <2>1, <2>3, <2>4 DEF Unserved, ReachInv, Empty
  <2>6. next = "evaluate" =>
           /\ Agree(reported, plan.resources, "provisioning")
           /\ Agree(plan.base, reported, "evaluation")
           /\ Agree(plan.base, reported, "orchestration")
    BY <1>2, <1>6
  <2>7. next = "orchestrate" =>
           /\ Agree(reported, plan.resources, "provisioning")
           /\ Agree(reported, plan.resources, "evaluation")
           /\ Agree(plan.base, reported, "orchestration")
    BY <1>2, <1>3, <1>5, <1>6, ApplyingPhases DEF Agree
  <2>8. next \in {"undo_orchestrator", "undo_evaluator"} => ~(call.ok /\ ok)
    BY <1>2 DEF ReachInv, Stage
  <2>9. next = "stop_evaluator" /\ call.ok /\ ok => Empty(reported, "orchestration")
    BY <1>2, <1>7
  <2>10. next = "delete" /\ call.ok /\ ok =>
            Empty(reported, "orchestration") /\ Empty(reported, "evaluation")
    BY <1>2, <1>5, <1>7
  <2>11. Stage'
    BY <1>2, <1>4, <1>8, <2>3, <2>6, <2>7, <2>8, <2>9, <2>10 DEF Stage, Agree, Empty
  <2> QED  BY <2>3, <2>5, <2>11 DEF ReachInv
<1>9. CASE next = "idle"
  <2>1. /\ call' = Idle /\ snapshot' = reported
        /\ reached' = IF ~(call.ok /\ ok) THEN None
                      ELSE IF call.phase \in Destroying THEN NoResources
                      ELSE plan.resources
    BY <1>9 DEF Answer, Taken
  <2>2. call'.phase = "idle" /\ call'.working = NoResources /\ call'.view = NoResources
    BY <2>1 DEF Idle
  <2>3. Progress'
    BY <2>2 DEF Progress, Running
  <2>4. Unserved'
    BY <2>1, <2>2, NoResourcesFacts DEF Unserved, Running, Empty
  <2>5. ASSUME call.ok /\ ok PROVE snapshot' = reached'
    <3>1. CASE call.phase \in Destroying
      <4>1. call.phase = "delete"
        BY <1>2, <1>9, <2>5, <3>1 DEF Destroying
      <4>2. reached' = NoResources
        BY <2>1, <2>5, <3>1
      <4>3. \A d \in Domains : Agree(reported, NoResources, d)
        BY <1>5, <1>7, <2>5, <4>1, EmptyAgree
      <4>4. reported = NoResources
        BY <4>3, NoResourcesFacts, AgreeEverywhere
      <4> QED  BY <2>1, <4>2, <4>4
    <3>2. CASE call.phase \in Applying
      <4>1. call.phase \notin Destroying
        BY <3>2, ApplyingPhases DEF Destroying
      <4>2. reached' = plan.resources
        BY <2>1, <2>5, <4>1
      <4>3. \A d \in Domains : Agree(reported, plan.resources, d)
        <5>1. call.phase \notin {"undo_orchestrator", "undo_evaluator"}
          BY <2>5 DEF ReachInv, Stage
        <5>2. success /\ call.phase # "delete"
          BY <2>5, <4>1 DEF Destroying
        <5>3. CASE call.phase = "provision"
          BY <1>2, <1>3, <1>5, <1>6, <1>9, <3>2, <5>2, <5>3 DEF Agree
        <5>4. CASE call.phase = "evaluate"
          BY <1>2, <1>3, <1>5, <1>6, <1>9, <3>2, <5>2, <5>4 DEF Agree
        <5>5. CASE call.phase = "orchestrate"
          BY <1>5, <1>6, <5>2, <5>5
        <5> QED  BY <3>2, <5>1, <5>3, <5>4, <5>5, ApplyingPhases
      <4>4. AreResources(plan.resources)
        BY <1>3, <3>2, PlanOps DEF ReachInv, KindInv
      <4>5. reported = plan.resources
        BY <4>3, <4>4, AgreeEverywhere
      <4> QED  BY <2>1, <4>2, <4>5
    <3> QED  BY <1>1, <3>1, <3>2, ApplyingPhases
  <2>6. reached' # None => snapshot' = reached'
    BY <2>1, <2>5
  <2>7. Stage'
    BY <2>2, <2>6 DEF Stage
  <2> QED  BY <2>3, <2>4, <2>7 DEF ReachInv
<1> QED  BY <1>8, <1>9

LEMMA InitReaches == Init => ReachInv
<1> SUFFICES ASSUME Init PROVE ReachInv
  OBVIOUS
<1>1. /\ call.phase = "idle" /\ call.working = NoResources /\ call.view = NoResources
      /\ snapshot = NoResources /\ reached = None
  BY DEF Init, Idle
<1>2. Progress /\ Unserved /\ Stage
  BY <1>1, NoResourcesFacts DEF Progress, Unserved, Stage, Running
<1> QED  BY <1>2, InitKinds DEF ReachInv

\* A call that is entered between two others.
LEMMA EnterReaches ==
    ASSUME ReachInv, KindInv', NEW phase \in Phases \ {"idle"},
           NEW working, AreResources(working), Enter(phase, working, {}, TRUE),
           UNCHANGED <<snapshot, plan, world, reached, drifted, owed>>,
           phase \notin {"evaluate", "orchestrate", "undo_orchestrator", "undo_evaluator"},
           phase = "provision" => plan # None /\ working = plan.base,
           phase \in {"stop_evaluator", "delete"} => "orchestration" \notin Services,
           phase = "delete" => "evaluation" \notin Services,
           \A d \in Domains \ (Services \cup {"provisioning"}) : Empty(working, d)
    PROVE  ReachInv'
<1>1. phase \in Running =>
        Plans(Todo(phase, working),
              IF phase = "delete" THEN NoResources ELSE plan.resources,
              working, PhaseDomain[phase])
  <2> SUFFICES ASSUME phase \in Running
               PROVE  Plans(Todo(phase, working),
                            IF phase = "delete" THEN NoResources ELSE plan.resources,
                            working, PhaseDomain[phase])
    OBVIOUS
  <2>1. phase # "delete" => plan # None /\ Agree(plan.base, working, PhaseDomain[phase])
    BY DEF Running, Agree
  <2> QED  BY <2>1, TodoPlans DEF ReachInv, KindInv
<1>2. /\ Progress'
      /\ call'.phase = phase /\ call'.working = working
      /\ call'.view = working /\ call'.ok = TRUE
  BY <1>1, EnterProgress
<1>3. Unserved'
  <2>1. phase \in Running => PhaseDomain[phase] \in Services \cup {"provisioning"}
    BY PhaseDomains DEF Running
  <2> QED  BY <1>2, <2>1 DEF Unserved, ReachInv, Empty
<1>4. "orchestration" \in Domains /\ "evaluation" \in Domains
  BY DEF Domains
<1>5. Stage'
  BY <1>2, <1>4 DEF Stage, Agree, Empty
<1> QED  BY <1>2, <1>3, <1>5 DEF ReachInv

LEMMA NextReaches == ReachInv /\ [Next]_vars => ReachInv'
<1> SUFFICES ASSUME ReachInv, [Next]_vars PROVE ReachInv'
  OBVIOUS
<1>1. KindInv /\ Progress /\ Unserved /\ Stage
  BY DEF ReachInv
<1>2. KindInv'
  BY <1>1, NextKinds
<1>3. /\ AreResources(call.view) /\ AreResources(call.working)
      /\ call.phase \in Phases /\ call.ok \in BOOLEAN
  BY <1>1 DEF KindInv, CallShape
<1>4. ASSUME NEW scenario \in Scenarios, MakePlan(scenario) PROVE ReachInv'
  <2>1. call.phase = "idle" /\ UNCHANGED <<snapshot, call, world, reached, drifted, owed>>
    BY <1>4 DEF MakePlan
  <2>2. Progress' /\ Unserved' /\ Stage'
    BY <1>1, <2>1 DEF Progress, Unserved, Stage, Running, Empty
  <2> QED  BY <1>2, <2>2 DEF ReachInv
<1>5. CASE Apply
  <2>1. /\ plan # None /\ plan.base = snapshot /\ Enter("provision", snapshot, {}, TRUE)
        /\ UNCHANGED <<snapshot, plan, world, reached, drifted, owed>>
    BY <1>5 DEF Apply, Applicable
  <2>2. /\ "provision" \in Phases \ {"idle"} /\ AreResources(snapshot)
        /\ \A d \in Domains \ (Services \cup {"provisioning"}) : Empty(snapshot, d)
    BY <1>1, ApplyingPhases DEF KindInv, Unserved
  <2> QED  BY <1>2, <2>1, <2>2, EnterReaches
<1>6. CASE Destroy
  <2>1. PICK phase \in Destroying :
            /\ Enter(phase, snapshot, {}, TRUE)
            /\ phase \in {"stop_evaluator", "delete"} => "orchestration" \notin Services
            /\ phase = "delete" => "evaluation" \notin Services
            /\ UNCHANGED <<snapshot, plan, world, reached, drifted, owed>>
    BY <1>6 DEF Destroy, Destroying
  <2>2. /\ phase \in Phases \ {"idle"} /\ AreResources(snapshot)
        /\ phase \notin {"provision", "evaluate", "orchestrate", "undo_orchestrator",
                         "undo_evaluator"}
        /\ \A d \in Domains \ (Services \cup {"provisioning"}) : Empty(snapshot, d)
    BY <1>1, ApplyingPhases DEF Destroying, KindInv, Unserved
  <2> QED  BY <1>2, <2>1, <2>2, EnterReaches
<1>7. CASE Perform
  <2>1. /\ Progress' /\ call'.phase = call.phase /\ call'.working = call.working
        /\ call'.ok = call.ok /\ UNCHANGED <<snapshot, plan, reached>>
        /\ \A e : e # PhaseDomain[call.phase] => Agree(call'.view, call.working, e)
    BY <1>1, <1>7, PerformProgress
  <2>2. call.phase \in Running /\ call'.phase \in Running
    BY <1>7, <2>1 DEF Perform
  <2>3. ASSUME NEW d \in Domains \ (Services \cup {"provisioning"})
        PROVE  Empty(call'.view, d)
    <3>1. d # PhaseDomain[call.phase] /\ Empty(call.working, d)
      BY <1>1, <2>2 DEF Unserved
    <3> QED  BY <2>1, <3>1, AgreeEmpty
  <2>4. Unserved'
    BY <1>1, <2>1, <2>3 DEF Unserved, Empty
  <2>5. Stage'
    BY <1>1, <2>1 DEF Stage, Agree, Empty
  <2> QED  BY <1>2, <2>1, <2>4, <2>5 DEF ReachInv
\* What the answers of a running call report.
<1>8. ASSUME call.phase \in Running
      PROVE  /\ \A e : e # PhaseDomain[call.phase] => Agree(call.view, call.working, e)
             /\ call.todo = <<>> => Agree(call.view, Target, PhaseDomain[call.phase])
             /\ \A e : Agree(call.working, call.working, e)
             /\ call.phase # "idle" /\ call.phase \notin Stopping
             /\ \A d \in Domains \ (Services \cup {"provisioning"}) :
                    Empty(call.view, d) /\ Empty(call.working, d)
  <2>1. /\ \A e : e # PhaseDomain[call.phase] => Agree(call.view, call.working, e)
        /\ call.todo = <<>> => Agree(call.view, Target, PhaseDomain[call.phase])
    BY <1>1, <1>8, ViewFacts
  <2> QED  BY <1>1, <1>8, <2>1, PhaseKinds DEF Agree, Unserved
<1>9. CASE Finish
  <2>1. PICK ok \in BOOLEAN : Answer(TRUE, call.view, ok)
    BY <1>9 DEF Finish
  <2>2. call.phase \in Running /\ call.todo = <<>>
    BY <1>9 DEF Finish
  <2> QED  BY <1>2, <1>3, <1>8, <2>1, <2>2, AnswerReaches
<1>10. CASE Fail
  <2>1. Answer(FALSE, call.view, FALSE) /\ call.phase \in Running
    BY <1>10 DEF Fail
  <2> QED  BY <1>2, <1>3, <1>8, <2>1, AnswerReaches
<1>11. CASE Raise
  <2>1. Answer(FALSE, call.working, FALSE) /\ call.phase \in Running
    BY <1>11 DEF Raise
  <2> QED  BY <1>2, <1>3, <1>8, <2>1, AnswerReaches
<1>12. ASSUME call.phase \in Stopping
       PROVE  /\ call.phase # "idle" /\ call.phase \notin Running
              /\ PhaseDomain[call.phase] \in Domains
              /\ \A e : Agree(call.working, call.working, e)
              /\ \A d \in Domains \ (Services \cup {"provisioning"}) : Empty(call.working, d)
  BY <1>1, <1>3, <1>12, PhaseKinds, PhaseDomains DEF Agree, Unserved
<1>13. CASE Stop
  <2>1. Answer(TRUE, Emptied(call.working), TRUE) /\ call.phase \in Stopping
    BY <1>13 DEF Stop
  <2> DEFINE rs == Emptied(call.working)
             d == PhaseDomain[call.phase]
  <2>2. rs = [a \in DOMAIN call.working \cap (Addresses \ Of(d)) |-> call.working[a]]
    BY DEF Emptied, Part
  <2>3. AreResources(rs)
    BY <1>3, PartResources DEF Emptied
  <2>4. Empty(rs, d)
    BY <2>2 DEF Empty
  <2>5. \A e : e # d => Agree(rs, call.working, e)
    <3> SUFFICES ASSUME NEW e, e # d PROVE Agree(rs, call.working, e)
      OBVIOUS
    <3>1. \A a \in Of(e) : a \in Addresses /\ a \notin Of(d)
      BY DEF Of
    <3>2. \A a \in Of(e) : /\ a \in DOMAIN rs <=> a \in DOMAIN call.working
                           /\ a \in DOMAIN rs => rs[a] = call.working[a]
      BY <2>2, <3>1
    <3> HIDE DEF rs
    <3> QED  BY <3>2, AgreePointwise
  <2>6. \A e \in Domains \ (Services \cup {"provisioning"}) : Empty(rs, e)
    BY <1>12, <2>1, <2>2 DEF Empty
  <2>7. Answer(TRUE, rs, TRUE)
    BY <2>1
  <2> HIDE DEF rs
  <2> QED  BY <1>2, <1>12, <2>1, <2>3, <2>4, <2>5, <2>6, <2>7, AnswerReaches
<1>14. CASE StopFails
  <2>1. Answer(FALSE, call.working, FALSE) /\ call.phase \in Stopping
    BY <1>14 DEF StopFails
  <2> QED  BY <1>2, <1>3, <1>12, <2>1, AnswerReaches
<1>15. CASE StopRaises
  <2>1. Answer(FALSE, call.working, FALSE) /\ call.phase \in Stopping
    BY <1>15 DEF StopRaises
  <2> QED  BY <1>2, <1>3, <1>12, <2>1, AnswerReaches
<1>16. CASE UNCHANGED vars
  <2>1. UNCHANGED <<snapshot, plan, call, reached>>
    BY <1>16 DEF vars
  <2>2. /\ Todo(call.phase, call.working)' = Todo(call.phase, call.working)
        /\ Target' = Target
    BY <2>1 DEF Todo, Target
  <2>3. Progress'
    BY <1>1, <2>1, <2>2 DEF Progress, Done
  <2>4. Unserved' /\ Stage'
    BY <1>1, <2>1 DEF Unserved, Stage, Agree, Empty
  <2> QED  BY <1>2, <2>3, <2>4 DEF ReachInv
<1> QED  BY <1>4, <1>5, <1>6, <1>7, <1>9, <1>10, <1>11, <1>13, <1>14, <1>15, <1>16 DEF Next

(***************************************************************************)
(* RuntimeManager.apply and destroy: a call that succeeds has brought the  *)
(* snapshot to the whole scenario, or to nothing, and the backends with it *)
(* in each domain whose backend told what it did; whatever the calls       *)
(* before had left behind.                                                 *)
(***************************************************************************)
THEOREM SuccessReachesScenarioCorrect == Spec => []SuccessReachesScenario
<1>1. ASSUME TInv, ReachInv PROVE SuccessReachesScenario
  BY <1>1 DEF TInv, Told, ReachInv, Stage, Agree, SuccessReachesScenario
<1> QED  BY <1>1, InitTold, NextTold, InitReaches, NextReaches, PTL DEF Spec
-----------------------------------------------------------------------------
(***************************************************************************)
(* Dependencies, when scenarios have all that their resources are ordered  *)
(* after within a domain.                                                  *)
(***************************************************************************)
Closed ==
    \A scenario \in Scenarios : \A a \in DOMAIN scenario :
        scenario[a].ordering \cap Of(Domain[a]) \subseteq DOMAIN scenario

LEMMA TargetGrounded ==
    ASSUME Closed, KindInv, call.phase \in Running, NEW d \in Domains
    PROVE  Grounded(Target, d)
<1>1. CASE call.phase = "delete"
  BY <1>1, NoResourcesFacts DEF Target
<1>2. CASE call.phase # "delete"
  <2>1. call.phase \in Applying
    BY <1>2, ApplyingPhases DEF Running
  <2>2. plan # None /\ plan.valid /\ plan.resources \in Scenarios
    BY <2>1 DEF KindInv, PlanApplies, PlanMade
  <2>3. Acyclic(plan.resources, Of(d))
    BY <2>2, PlanOps DEF KindInv
  <2>4. ASSUME NEW a \in DOMAIN plan.resources \cap Of(d)
        PROVE  plan.resources[a].ordering \cap Of(d) \subseteq DOMAIN plan.resources
    <3>1. Domain[a] = d
      BY DEF Of
    <3> QED  BY <2>2, <3>1 DEF Closed
  <2> QED  BY <1>2, <2>3, <2>4 DEF Grounded, Target
<1> QED  BY <1>1, <1>2

LEMMA EmptiedGrounded ==
    ASSUME NEW rs, NEW d \in Domains, Grounded(rs, d)
    PROVE  Grounded(Emptied(rs), d)
<1>1. CASE d = PhaseDomain[call.phase]
  <2>1. DOMAIN Emptied(rs) \cap Of(d) = {}
    BY <1>1 DEF Emptied, Part
  <2> QED  BY <2>1 DEF Grounded, Acyclic
<1>2. CASE d # PhaseDomain[call.phase]
  BY <1>2, EmptiedElsewhere, GroundedAgree
<1> QED  BY <1>1, <1>2

\* A call that returns or goes on keeps what is grounded.
LEMMA AnswerGrounded ==
    ASSUME GroundInv, NEW success, NEW reported, NEW ok, Answer(success, reported, ok),
           \A d \in Domains : Grounded(reported, d)
    PROVE  GroundInv'
<1> DEFINE next == Following(call.phase, success)
<1>1. CASE next # "idle"
  <2>1. /\ Enter(next, reported, call.done, call.ok /\ ok)
        /\ snapshot' = snapshot
    BY <1>1 DEF Answer, Taken
  <2>2. call'.working = reported /\ call'.view = reported
    BY <2>1 DEF Enter
  <2>3. \A d \in Domains : /\ Grounded(snapshot', d) /\ Grounded(call'.working, d)
                            /\ Grounded(call'.view, d)
    BY <2>1, <2>2 DEF GroundInv
  <2> QED  BY <2>3 DEF GroundInv, Grounded, Acyclic
<1>2. CASE next = "idle"
  <2>1. call' = Idle /\ snapshot' = reported
    BY <1>2 DEF Answer, Taken
  <2>2. call'.working = NoResources /\ call'.view = NoResources
    BY <2>1 DEF Idle
  <2>3. \A d \in Domains : /\ Grounded(snapshot', d) /\ Grounded(call'.working, d)
                            /\ Grounded(call'.view, d)
    BY <2>1, <2>2, NoResourcesFacts
  <2> QED  BY <2>3 DEF GroundInv, Grounded, Acyclic
<1> QED  BY <1>1, <1>2

LEMMA InitGrounded == Init => GroundInv
BY NoResourcesFacts DEF Init, Idle, GroundInv

LEMMA NextGrounded ==
    ASSUME Closed
    PROVE  ReachInv /\ GroundInv /\ [Next]_vars => GroundInv'
<1> SUFFICES ASSUME ReachInv, GroundInv, [Next]_vars PROVE GroundInv'
  OBVIOUS
<1>1. KindInv /\ Progress
  BY DEF ReachInv
<1>2. \A d \in Domains :
        Grounded(snapshot, d) /\ Grounded(call.working, d) /\ Grounded(call.view, d)
  BY DEF GroundInv
<1>3. ASSUME NEW scenario \in Scenarios, MakePlan(scenario) PROVE GroundInv'
  <2>1. UNCHANGED <<snapshot, call>>
    BY <1>3 DEF MakePlan
  <2> QED  BY <2>1 DEF GroundInv, Grounded, Acyclic
<1>4. ASSUME NEW phase, Enter(phase, snapshot, {}, TRUE), snapshot' = snapshot
      PROVE  GroundInv'
  <2>1. call'.working = snapshot /\ call'.view = snapshot
    BY <1>4 DEF Enter
  <2> QED  BY <1>4, <2>1 DEF GroundInv, Grounded, Acyclic
<1>5. CASE Apply
  BY <1>4, <1>5 DEF Apply, Applicable
<1>6. CASE Destroy
  BY <1>4, <1>6 DEF Destroy
<1>7. CASE Perform
  <2> DEFINE e == PhaseDomain[call.phase]
  <2>1. /\ call'.working = call.working /\ snapshot' = snapshot
        /\ \A d : d # e => Agree(call'.view, call.working, d)
        /\ Midway(call'.view)
    BY <1>1, <1>7, PerformProgress
  <2>2. e \in Domains /\ call.phase \in Running
    <3>1. call.phase \in Running
      BY <1>7 DEF Perform
    <3> QED  BY <3>1, PhaseDomains, PhaseKinds
  <2>3. Grounded(call'.view, e)
    <3>1. PICK F : \E k \in 0 .. Len(F) :
                      /\ Plans(F, Target, call.working, e)
                      /\ Performs(F, k, call.working, call'.view)
      BY <2>1 DEF Midway
    <3>2. PICK k \in 0 .. Len(F) : /\ Plans(F, Target, call.working, e)
                                   /\ Performs(F, k, call.working, call'.view)
      BY <3>1
    <3>3. Grounded(Target, e) /\ Grounded(call.working, e)
      BY <1>1, <1>2, <2>2, TargetGrounded
    <3> HIDE DEF e
    <3> QED  BY <3>2, <3>3, PartialGrounded
  <2>4. ASSUME NEW d \in Domains, d # e PROVE Grounded(call'.view, d)
    <3>1. Agree(call.working, call'.view, d)
      BY <2>1, <2>4 DEF Agree
    <3> QED  BY <1>2, <3>1, GroundedAgree
  <2>5. \A d \in Domains : /\ Grounded(snapshot', d) /\ Grounded(call'.working, d)
                            /\ Grounded(call'.view, d)
    BY <1>2, <2>1, <2>3, <2>4
  <2> QED  BY <2>5 DEF GroundInv, Grounded, Acyclic
<1>8. CASE Finish
  <2>1. PICK ok : Answer(TRUE, call.view, ok)
    BY <1>8 DEF Finish
  <2> QED  BY <1>2, <2>1, AnswerGrounded
<1>9. CASE Fail
  BY <1>2, <1>9, AnswerGrounded DEF Fail
<1>10. CASE Raise
  BY <1>2, <1>10, AnswerGrounded DEF Raise
<1>11. CASE Stop
  <2>1. \A d \in Domains : Grounded(Emptied(call.working), d)
    BY <1>2, EmptiedGrounded
  <2> QED  BY <1>11, <2>1, AnswerGrounded DEF Stop
<1>12. CASE StopFails
  BY <1>2, <1>12, AnswerGrounded DEF StopFails
<1>13. CASE StopRaises
  BY <1>2, <1>13, AnswerGrounded DEF StopRaises
<1>14. CASE UNCHANGED vars
  <2>1. UNCHANGED <<snapshot, call>>
    BY <1>14 DEF vars
  <2> QED  BY <2>1 DEF GroundInv, Grounded, Acyclic
<1> QED  BY <1>3, <1>5, <1>6, <1>7, <1>8, <1>9, <1>10, <1>11, <1>12, <1>13, <1>14 DEF Next

(***************************************************************************)
(* The orders of apply, of its deletes and of destroy's, through calls     *)
(* that were cut short and the ones after them: at every step of every     *)
(* backend a resource that exists has the resources of its domain it is    *)
(* ordered after.                                                          *)
(***************************************************************************)
THEOREM DependenciesFirstCorrect ==
    ASSUME Closed
    PROVE  Spec => []DependenciesFirst
<1>1. ASSUME TInv, ReachInv, GroundInv PROVE DependenciesFirst
  <2> SUFFICES ASSUME NEW a \in DOMAIN world, Domain[a] \notin drifted
               PROVE  world[a].ordering \cap Of(Domain[a]) \subseteq DOMAIN world
    BY DEF DependenciesFirst
  <2> DEFINE d == Domain[a]
  <2>1. a \in Addresses
    BY <1>1 DEF ReachInv, KindInv, AreResources
  <2>2. d \in Domains \ drifted /\ a \in Of(d)
    BY <2>1, AddressesOK DEF Of
  <2> HIDE DEF d
  <2>3. \/ Agree(snapshot, world, d)
        \/ Agree(call.view, world, d)
        \/ Agree(call.working, world, d)
    BY <1>1, <2>2, PhaseKinds DEF TInv, Told, CallShape
  <2>4. Grounded(world, d)
    BY <1>1, <2>2, <2>3, GroundedAgree DEF GroundInv
  <2> QED  BY <2>2, <2>4 DEF Grounded, d
<1> QED  BY <1>1, InitTold, NextTold, InitReaches, NextReaches, InitGrounded, NextGrounded,
            PTL DEF Spec
=============================================================================
