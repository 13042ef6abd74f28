-------------------------- MODULE QuicFecTsProofs --------------------------
(***************************************************************************)
(* Proofs about QuicFecTsPipeline: any number of connections, any k and n, *)
(* any limits and datagrams.  A lemma on the FEC manager or the reorder    *)
(* buffer comes from FecReorderProofs; here are what one call of feed does *)
(* to an adapter (Restored, Numbered and the drain as functions of the     *)
(* adapter before it), the invariant of an adapter between calls           *)
(* (Settled), and that every step of any connection keeps it for all.      *)
(***************************************************************************)
EXTENDS QuicFecTsPipeline, FecReorderProofs

\* What the steps of a recursive function preserve, from index to index.
LEMMA AlongRun ==
  ASSUME NEW n, NEW f, NEW P, n \in Nat, f[0] \in P[0],
         \A i \in 1 .. n : f[i - 1] \in P[i - 1] => f[i] \in P[i]
  PROVE  \A i \in 0 .. n : f[i] \in P[i]
<1> DEFINE T == {i \in 0 .. n : f[i] \notin P[i]}
<1>0. ASSUME T # {} PROVE FALSE
  <2>1. PICK x \in T : \A y \in T : x <= y
    <3>1. T \in SUBSET Nat
      OBVIOUS
    <3> HIDE DEF T
    <3> QED BY <1>0, <3>1, LeastElement
  <2>2. x \in 1 .. n
    OBVIOUS
  <2>3. x - 1 \in 0 .. n /\ x - 1 \notin T
    BY <2>1, <2>2
  <2>4. f[x - 1] \in P[x - 1]
    BY <2>3
  <2> QED BY <2>2, <2>4
<1> QED BY <1>0

\* Recursion over 0 .. n from a by the steps F has a solution.
Solution(g, n, S, a, F) ==
  /\ g \in [0 .. n -> S]
  /\ g[0] = a
  /\ \A i \in 1 .. n : g[i] = F[<<g[i - 1], i>>]

LEMMA RecursionExists ==
  ASSUME NEW n, NEW S, NEW a, NEW F, n \in Nat, a \in S,
         \A s \in S : \A i \in 1 .. n : F[<<s, i>>] \in S
  PROVE  \E g : Solution(g, n, S, a, F)
<1> DEFINE T == {k \in 0 .. n : \A g : ~Solution(g, k, S, a, F)}
<1> SUFFICES ASSUME T # {} PROVE FALSE
  <2>1. n \notin T
    OBVIOUS
  <2> QED BY <2>1
<1>1. PICK x \in T : \A y \in T : x <= y
  <2>1. T \in SUBSET Nat
    OBVIOUS
  <2> HIDE DEF T
  <2> QED BY <2>1, LeastElement
<1>2. x # 0
  <2>1. Solution([i \in 0 .. 0 |-> a], 0, S, a, F)
    BY DEF Solution
  <2> QED BY <2>1
<1>3. x \in 1 .. n /\ x - 1 \in 0 .. n
  BY <1>2
<1>4. PICK g : Solution(g, x - 1, S, a, F)
  <2>1. x - 1 \notin T
    <3> HIDE DEF T
    <3> QED BY <1>1, <1>3
  <2> QED BY <2>1, <1>3
<1> DEFINE h == [i \in 0 .. x |-> IF i = x THEN F[<<g[x - 1], x>>] ELSE g[i]]
<1>5. Solution(h, x, S, a, F)
  <2>0. /\ g \in [0 .. (x - 1) -> S] /\ g[0] = a
        /\ \A i \in 1 .. (x - 1) : g[i] = F[<<g[i - 1], i>>]
    BY <1>4 DEF Solution
  <2>1. g[x - 1] \in S
    BY <1>3, <2>0
  <2>3. F[<<g[x - 1], x>>] \in S
    BY <1>3, <2>1
  <2>4. h \in [0 .. x -> S]
    BY <1>3, <2>0, <2>3
  <2>5. h[0] = a
    BY <1>3, <2>0
  <2>6. ASSUME NEW i \in 1 .. x PROVE h[i] = F[<<h[i - 1], i>>]
    <3>1. h[i - 1] = g[i - 1]
      BY <1>3
    <3>2. CASE i = x
      BY <3>1, <3>2, <1>3
    <3>3. CASE i # x
      <4>1. i \in 1 .. (x - 1) /\ h[i] = g[i]
        BY <1>3, <3>3
      <4>2. g[i] = F[<<g[i - 1], i>>]
        BY <2>0, <4>1
      <4> QED BY <3>1, <4>1, <4>2
    <3> QED BY <3>2, <3>3
  <2> HIDE DEF h
  <2> QED BY <2>4, <2>5, <2>6 DEF Solution
<1> QED BY <1>5

-----------------------------------------------------------------------------
(* Ascending: a finite set of numbers, in order *)

Below(S, i) == {j \in S : j < i}
Rank(S, i) == Cardinality(Below(S, i))

LEMMA InBelow ==
  ASSUME NEW S, NEW i, NEW j
  PROVE  j \in Below(S, i) <=> j \in S /\ j < i
BY DEF Below

LEMMA RankType ==
  ASSUME NEW S, NEW i, IsFiniteSet(S)
  PROVE  /\ IsFiniteSet(Below(S, i)) /\ Rank(S, i) \in Nat
<1>1. Below(S, i) \subseteq S
  BY DEF Below
<1> QED BY <1>1, FS_Subset, FS_CardinalityType DEF Rank

\* A higher rank belongs to a larger number.
LEMMA RankOrder ==
  ASSUME NEW S, NEW i, NEW k, S \subseteq Nat, IsFiniteSet(S), i \in S, k \in S,
         Rank(S, i) < Rank(S, k)
  PROVE  i < k
<1> SUFFICES ASSUME k <= i PROVE FALSE
  OBVIOUS
<1>1. ASSUME NEW j, j \in Below(S, k) PROVE j \in Below(S, i)
  <2>1. j \in S /\ j < k
    BY <1>1, InBelow
  <2>2. j \in Nat /\ k \in Nat /\ i \in Nat
    BY <2>1
  <2>3. j < i
    BY <2>1, <2>2
  <2> QED BY <2>1, <2>3, InBelow
<1>2. IsFiniteSet(Below(S, i)) /\ Rank(S, i) \in Nat /\ Rank(S, k) \in Nat
  BY RankType
<1>3. Cardinality(Below(S, k)) <= Cardinality(Below(S, i))
  <2>1. Below(S, k) \subseteq Below(S, i)
    BY <1>1
  <2> QED BY <1>2, <2>1, FS_Subset
<1> QED BY <1>2, <1>3 DEF Rank

\* The number after k in the order has one more below it.
LEMMA NextRank ==
  ASSUME NEW S, NEW k, S \subseteq Nat, IsFiniteSet(S), k \in S,
         Rank(S, k) + 1 < Cardinality(S)
  PROVE  \E i \in S : Rank(S, i) = Rank(S, k) + 1
<1> DEFINE T == {j \in S : k < j}
<1>0. IsFiniteSet(Below(S, k)) /\ Rank(S, k) \in Nat
  BY RankType
<1>1. k \notin Below(S, k)
  BY DEF Below
<1>2. Cardinality(Below(S, k) \cup {k}) = Rank(S, k) + 1
  BY <1>0, <1>1, FS_AddElement DEF Rank
<1>3. T # {}
  <2>1. SUFFICES ASSUME T = {} PROVE FALSE
    OBVIOUS
  <2>2. ASSUME NEW j PROVE j \in S <=> j \in Below(S, k) \cup {k}
    <3>1. j \in Below(S, k) <=> j \in S /\ j < k
      BY InBelow
    <3>2. j \in S => ~(k < j)
      BY <2>1
    <3>3. j \in S => j \in Nat /\ k \in Nat
      OBVIOUS
    <3>4. j \in S => j < k \/ j = k
      BY <3>2, <3>3
    <3> QED BY <3>1, <3>4
  <2>3. S = Below(S, k) \cup {k}
    BY <2>2
  <2>4. Cardinality(S) = Rank(S, k) + 1
    BY <1>2, <2>3
  <2> QED BY <1>0, <2>4
<1>4. T \in SUBSET Nat
  OBVIOUS
<1>5. PICK i \in T : \A y \in T : i <= y
  <2> HIDE DEF T
  <2> QED BY <1>3, <1>4, LeastElement
<1>6. ASSUME NEW j PROVE j \in Below(S, i) <=> j \in Below(S, k) \cup {k}
  <2>1. /\ j \in Below(S, k) <=> j \in S /\ j < k
        /\ j \in Below(S, i) <=> j \in S /\ j < i
    BY InBelow
  <2>2. i \in Nat /\ k \in Nat /\ (j \in S => j \in Nat) /\ k < i
    OBVIOUS
  <2>3. j \in S /\ k < j => i <= j
    BY <1>5
  <2>4. j \in S => (j < i <=> j < k \/ j = k)
    BY <2>2, <2>3
  <2> QED BY <2>1, <2>2, <2>4
<1>7. Below(S, i) = Below(S, k) \cup {k}
  BY <1>6
<1> QED BY <1>2, <1>5, <1>7 DEF Rank

\* Every rank below the size of the set is somebody's.
LEMMA RankExists ==
  ASSUME NEW S, NEW p, S \subseteq Nat, IsFiniteSet(S), p \in 1 .. Cardinality(S)
  PROVE  \E i \in S : Rank(S, i) = p - 1
<1> DEFINE T == {q \in 1 .. Cardinality(S) : \A i \in S : Rank(S, i) # q - 1}
<1>0. Cardinality(S) \in Nat
  BY FS_CardinalityType
<1> SUFFICES ASSUME T # {} PROVE FALSE
  <2>1. p \notin T
    OBVIOUS
  <2> QED BY <2>1
<1>1. PICK x \in T : \A y \in T : x <= y
  <2>1. T \in SUBSET Nat
    BY <1>0
  <2> HIDE DEF T
  <2> QED BY <2>1, LeastElement
<1>2. x \in 1 .. Cardinality(S) /\ \A i \in S : Rank(S, i) # x - 1
  OBVIOUS
<1>3. S # {}
  BY <1>2, FS_EmptySet
<1>4. CASE x = 1
  <2>1. PICK i \in S : \A y \in S : i <= y
    BY <1>3, LeastElement
  <2>2. ASSUME NEW j, j \in Below(S, i) PROVE FALSE
    <3>1. j \in S /\ j < i
      BY <2>2, InBelow
    <3>2. i <= j /\ j \in Nat /\ i \in Nat
      BY <2>1, <3>1
    <3> QED BY <3>1, <3>2
  <2>3. Below(S, i) = {}
    BY <2>2
  <2>4. Rank(S, i) = 0
    BY <2>3, FS_EmptySet DEF Rank
  <2> QED BY <1>2, <1>4, <2>4
<1>5. CASE x # 1
  <2>1. x - 1 \in 1 .. Cardinality(S) /\ x - 1 \notin T
    BY <1>0, <1>1, <1>2, <1>5
  <2>2. PICK k \in S : Rank(S, k) = x - 2
    BY <1>0, <1>2, <2>1
  <2>3. Rank(S, k) + 1 < Cardinality(S)
    BY <1>0, <1>2, <2>2
  <2>4. PICK i \in S : Rank(S, i) = Rank(S, k) + 1
    BY <2>3, NextRank
  <2> QED BY <1>0, <1>2, <2>2, <2>4
<1> QED BY <1>4, <1>5

\* Ascending lists the members of the set, each higher than the one before.
LEMMA AscendingResult ==
  ASSUME NEW S, NEW a, S \subseteq Nat, IsFiniteSet(S), a = Ascending(S)
  PROVE  /\ Len(a) = Cardinality(S) /\ a \in [1 .. Cardinality(S) -> S]
         /\ \A p \in 1 .. Cardinality(S) : a[p] \in S
         /\ \A p \in 1 .. (Cardinality(S) - 1) : a[p] < a[p + 1]
<1>0. Cardinality(S) \in Nat
  BY FS_CardinalityType
<1>1. a = [p \in 1 .. Cardinality(S) |-> CHOOSE i \in S : Rank(S, i) = p - 1]
  BY DEF Ascending, Rank, Below
<1>2. ASSUME NEW p \in 1 .. Cardinality(S)
      PROVE  a[p] \in S /\ Rank(S, a[p]) = p - 1
  <2>1. \E i \in S : Rank(S, i) = p - 1
    BY RankExists
  <2> QED BY <1>1, <2>1
<1>3. a \in [1 .. Cardinality(S) -> S]
  BY <1>1, <1>2
<1>4. Len(a) = Cardinality(S)
  BY <1>0, <1>3
<1>5. ASSUME NEW p \in 1 .. (Cardinality(S) - 1) PROVE a[p] < a[p + 1]
  <2>1. p \in 1 .. Cardinality(S) /\ p + 1 \in 1 .. Cardinality(S)
    BY <1>0
  <2>2. PICK i, k : i = a[p] /\ k = a[p + 1]
    OBVIOUS
  <2>3. i \in S /\ k \in S /\ Rank(S, i) = p - 1 /\ Rank(S, k) = (p + 1) - 1
    BY <1>2, <2>1, <2>2
  <2>4. Rank(S, i) < Rank(S, k)
    BY <2>1, <2>3
  <2>5. i < k
    BY <2>3, <2>4, RankOrder
  <2> QED BY <2>2, <2>5
<1> QED BY <1>2, <1>3, <1>4, <1>5

-----------------------------------------------------------------------------
(* The order repair returns blocks in *)

\* The data indices are the received ones and the missing ones.
LEMMA GroupParts ==
  ASSUME NEW x, IsGroup(x)
  PROVE  /\ DataBlocks(x) \subseteq Nat /\ IsFiniteSet(DataBlocks(x))
         /\ Missing(x) \subseteq Nat /\ IsFiniteSet(Missing(x))
         /\ Cardinality(DataBlocks(x)) \in Nat /\ Cardinality(Missing(x)) \in Nat
         /\ Cardinality(DataBlocks(x)) + Cardinality(Missing(x)) = K
<1>0. K \in Nat \ {0}
  BY FecConfigAssumption
<1>1. IsFiniteSet(DataIndices) /\ Cardinality(DataIndices) = K /\ DataIndices \subseteq Nat
  <2>1. 0 \in Int /\ K - 1 \in Int
    BY <1>0
  <2>2. IsFiniteSet(0 .. (K - 1))
        /\ Cardinality(0 .. (K - 1)) = IF 0 > K - 1 THEN 0 ELSE (K - 1) - 0 + 1
    BY <2>1, FS_Interval
  <2> QED BY <1>0, <2>2 DEF DataIndices
<1>2. DataBlocks(x) \subseteq DataIndices /\ Missing(x) = DataIndices \ DataBlocks(x)
  BY DEF DataBlocks, Missing
<1>3. PICK S, T : S = DataIndices /\ T = DataBlocks(x)
  OBVIOUS
<1>4. IsFiniteSet(S) /\ T \in SUBSET S
  BY <1>1, <1>2, <1>3
<1>5. /\ IsFiniteSet(T) /\ Cardinality(T) \in Nat
      /\ IsFiniteSet(S \ T) /\ Cardinality(S \ T) \in Nat
      /\ Cardinality(S) = Cardinality(S \ T) + Cardinality(T)
  BY <1>4, SplitCardinality
<1>6. S \ T = Missing(x) /\ T = DataBlocks(x) /\ Cardinality(S) = K /\ S \subseteq Nat
  BY <1>1, <1>2, <1>3
<1>7. /\ IsFiniteSet(DataBlocks(x)) /\ Cardinality(DataBlocks(x)) \in Nat
      /\ IsFiniteSet(Missing(x)) /\ Cardinality(Missing(x)) \in Nat
      /\ Cardinality(DataBlocks(x)) + Cardinality(Missing(x)) = K
  <2>1. PICK U : U = S \ T
    OBVIOUS
  <2>2. U = Missing(x)
    BY <1>6, <2>1
  <2>3. IsFiniteSet(U) /\ Cardinality(U) \in Nat /\ K = Cardinality(U) + Cardinality(T)
    BY <1>5, <1>6, <2>1
  <2> QED BY <1>5, <1>6, <2>2, <2>3
<1>8. DataBlocks(x) \subseteq Nat /\ Missing(x) \subseteq Nat
  BY <1>1, <1>2
<1> QED BY <1>7, <1>8

\* repair returns k data indices; after a received one comes a higher one.
LEMMA OrderResult ==
  ASSUME NEW x, NEW o, IsGroup(x), o = RepairOrder(x)
  PROVE  /\ \A q \in 1 .. K : o[q] \in DataIndices
         /\ \A q \in 1 .. (K - 1) : o[q] \in DOMAIN x.blocks => o[q] < o[q + 1]
<1>0. K \in Nat \ {0}
  BY FecConfigAssumption
<1>1. PICK D, M, d, m, a, b :
        /\ D = DataBlocks(x) /\ M = Missing(x)
        /\ d = Cardinality(D) /\ m = Cardinality(M)
        /\ a = Ascending(D) /\ b = Ascending(M)
  OBVIOUS
<1>2. /\ D \subseteq Nat /\ IsFiniteSet(D) /\ M \subseteq Nat /\ IsFiniteSet(M)
      /\ d \in Nat /\ m \in Nat /\ d + m = K
  BY <1>1, GroupParts
<1>3. /\ D \subseteq DataIndices /\ M \subseteq DataIndices
      /\ D \subseteq DOMAIN x.blocks /\ \A i \in M : i \notin DOMAIN x.blocks
  BY <1>1 DEF DataBlocks, Missing
<1>4. /\ Len(a) = Cardinality(D) /\ a \in [1 .. Cardinality(D) -> D]
      /\ \A p \in 1 .. Cardinality(D) : a[p] \in D
      /\ \A p \in 1 .. (Cardinality(D) - 1) : a[p] < a[p + 1]
  BY <1>1, <1>2, AscendingResult
<1>5. /\ Len(b) = Cardinality(M) /\ b \in [1 .. Cardinality(M) -> M]
      /\ \A p \in 1 .. Cardinality(M) : b[p] \in M
      /\ \A p \in 1 .. (Cardinality(M) - 1) : b[p] < b[p + 1]
  BY <1>1, <1>2, AscendingResult
<1>6. CASE d >= K
  <2>1. o = a /\ d = K
    BY <1>0, <1>1, <1>2, <1>6 DEF RepairOrder, IsComplete
  <2> QED BY <1>0, <1>1, <1>3, <1>4, <2>1
<1>7. CASE ~(d >= K)
  <2>1. o = b \o a
    BY <1>1, <1>7 DEF RepairOrder, IsComplete
  <2>2. a \in Seq(Nat) /\ b \in Seq(Nat)
    <3>1. a \in [1 .. d -> Nat] /\ b \in [1 .. m -> Nat]
      BY <1>1, <1>2, <1>4, <1>5
    <3>2. d \in Nat /\ m \in Nat
      BY <1>2
    <3> QED BY <3>1, <3>2
  <2>3. \A q \in 1 .. (Len(b) + Len(a)) :
          (b \o a)[q] = IF q <= Len(b) THEN b[q] ELSE a[q - Len(b)]
    BY <2>2
  <2>4. \A q \in 1 .. K : o[q] = IF q <= m THEN b[q] ELSE a[q - m]
    BY <1>1, <1>2, <1>4, <1>5, <2>1, <2>3
  <2>5. ASSUME NEW q \in 1 .. K PROVE o[q] \in IF q <= m THEN M ELSE D
    <3>1. CASE q <= m
      <4>1. q \in 1 .. Cardinality(M)
        BY <1>0, <1>1, <1>2, <3>1
      <4> QED BY <1>5, <2>4, <3>1, <4>1
    <3>2. CASE ~(q <= m)
      <4>1. q - m \in 1 .. Cardinality(D)
        BY <1>0, <1>1, <1>2, <3>2
      <4> QED BY <1>4, <2>4, <3>2, <4>1
    <3> QED BY <3>1, <3>2
  <2>6. ASSUME NEW q \in 1 .. (K - 1), o[q] \in DOMAIN x.blocks PROVE o[q] < o[q + 1]
    <3>1. q \in 1 .. K /\ q + 1 \in 1 .. K
      BY <1>0
    <3>2. ~(q <= m)
      BY <1>3, <2>5, <2>6, <3>1
    <3>3. q - m \in 1 .. (Cardinality(D) - 1) /\ ~(q + 1 <= m) /\ (q + 1) - m = (q - m) + 1
      BY <1>0, <1>1, <1>2, <3>1, <3>2
    <3>4. o[q] = a[q - m] /\ o[q + 1] = a[(q - m) + 1]
      BY <2>4, <3>1, <3>2, <3>3
    <3>5. a[q - m] < a[(q - m) + 1]
      BY <1>4, <3>3
    <3> QED BY <3>4, <3>5
  <2>7. \A q \in 1 .. K : o[q] \in DataIndices
    BY <1>3, <2>5
  <2> QED BY <2>6, <2>7
<1> QED BY <1>1, <1>2, <1>6, <1>7

-----------------------------------------------------------------------------
(* What check_and_repair returns, when at most one group is ready *)

FlatBody(m, ids, f) ==
  [p \in 0 .. Len(ids) |->
     IF p = 0 THEN << >>
     ELSE f[p - 1] \o [q \in 1 .. K |-> <<ids[p], RepairOrder(m.groups[ids[p]])[q]>>]]

LEMMA RestoredIs ==
  ASSUME NEW m, NEW ids, ids = Ascending(Repaired(m))
  PROVE  Restored(m) = (CHOOSE f : f = FlatBody(m, ids, f))[Len(ids)]
BY DEF Restored, FlatBody

LEMMA RestoredNone ==
  ASSUME NEW m, Repaired(m) = {}
  PROVE  Restored(m) = << >>
<1>1. PICK ids : ids = Ascending(Repaired(m))
  OBVIOUS
<1>2. {} \subseteq Nat /\ IsFiniteSet({}) /\ Cardinality({}) = 0
  BY FS_EmptySet
<1>3. Len(ids) = Cardinality({})
  BY <1>1, <1>2, AscendingResult
<1>4. \A f : FlatBody(m, ids, f) = [p \in 0 .. 0 |-> << >>]
  BY <1>2, <1>3 DEF FlatBody
<1>5. (CHOOSE f : f = FlatBody(m, ids, f)) = [p \in 0 .. 0 |-> << >>]
  BY <1>4
<1>6. Restored(m) = (CHOOSE f : f = FlatBody(m, ids, f))[Len(ids)]
  BY <1>1, RestoredIs
<1>7. Restored(m) = [p \in 0 .. 0 |-> << >>][0]
  BY <1>2, <1>3, <1>5, <1>6
<1> QED BY <1>7

\* The list of one group: its blocks in the order of its repair.
ListOf(m, g) == [q \in 1 .. K |-> <<g, RepairOrder(m.groups[g])[q]>>]

LEMMA RestoredOne ==
  ASSUME NEW m, NEW g, g \in Nat, Repaired(m) = {g}
  PROVE  Restored(m) = ListOf(m, g)
<1>0. K \in Nat \ {0}
  BY FecConfigAssumption
<1>1. PICK ids : ids = Ascending(Repaired(m))
  OBVIOUS
<1>2. {g} \subseteq Nat /\ IsFiniteSet({g}) /\ Cardinality({g}) = 1
  BY FS_Singleton
<1>3. Len(ids) = 1 /\ ids[1] = g
  <2>1. /\ Len(ids) = Cardinality({g})
        /\ \A p \in 1 .. Cardinality({g}) : ids[p] \in {g}
    BY <1>1, <1>2, AscendingResult
  <2> QED BY <1>2, <2>1
<1>4. PICK l : l = ListOf(m, g)
  OBVIOUS
<1>5. l \in Seq({l[q] : q \in 1 .. K})
  <2>1. l \in [1 .. K -> {l[q] : q \in 1 .. K}]
    BY <1>4 DEF ListOf
  <2> QED BY <1>0, <2>1
<1>6. << >> \o l = l
  BY <1>5
<1>7. PICK f : f = CHOOSE h : h = FlatBody(m, ids, h)
  OBVIOUS
<1>8. \A h : FlatBody(m, ids, h) =
             [p \in 0 .. 1 |-> IF p = 0 THEN << >>
                ELSE h[p - 1] \o [q \in 1 .. K |-> <<ids[p], RepairOrder(m.groups[ids[p]])[q]>>]]
  BY <1>3 DEF FlatBody
<1>9. \A h : h[0] = << >> => FlatBody(m, ids, h) = [p \in 0 .. 1 |-> IF p = 0 THEN << >> ELSE l]
  <2> SUFFICES ASSUME NEW h, h[0] = << >>
               PROVE  FlatBody(m, ids, h) = [p \in 0 .. 1 |-> IF p = 0 THEN << >> ELSE l]
    OBVIOUS
  <2>1. l = [q \in 1 .. K |-> <<ids[1], RepairOrder(m.groups[ids[1]])[q]>>]
    BY <1>3, <1>4 DEF ListOf
  <2>2. ASSUME NEW p \in 0 .. 1
        PROVE  FlatBody(m, ids, h)[p] = IF p = 0 THEN << >> ELSE l
    <3>1. CASE p = 0
      BY <1>8, <3>1
    <3>2. CASE p = 1
      <4>1. FlatBody(m, ids, h)[1] = h[1 - 1] \o l
        <5>1. 1 \in 0 .. 1 /\ 1 # 0
          OBVIOUS
        <5> QED BY <1>8, <2>1, <5>1
      <4>2. FlatBody(m, ids, h)[1] = << >> \o l
        <5>1. 1 - 1 = 0
          OBVIOUS
        <5>2. h[1 - 1] = << >>
          BY <5>1
        <5> QED BY <4>1, <5>2
      <4> QED BY <1>6, <3>2, <4>2
    <3> QED BY <3>1, <3>2
  <2>3. FlatBody(m, ids, h) = [p \in 0 .. 1 |-> FlatBody(m, ids, h)[p]]
    BY <1>8
  <2> QED BY <2>2, <2>3
<1>10. PICK h : h = [p \in 0 .. 1 |-> IF p = 0 THEN << >> ELSE l]
  OBVIOUS
<1>11. h = FlatBody(m, ids, h)
  <2>1. h[0] = << >>
    BY <1>10
  <2> QED BY <1>9, <1>10, <2>1
<1>12. f = FlatBody(m, ids, f)
  BY <1>7, <1>11
<1>13. f[0] = << >>
  BY <1>8, <1>12
<1>14. f[1] = l
  BY <1>9, <1>12, <1>13
<1>15. Restored(m) = f[1]
  BY <1>1, <1>3, <1>7, RestoredIs
<1> QED BY <1>4, <1>14, <1>15

-----------------------------------------------------------------------------
(* The manager between calls *)

\* Nothing that can be repaired is left in the table of a manager at rest.
AtRest(m) ==
  /\ IsFecManager(m) /\ Balanced(m)
  /\ Cardinality(Groups(m)) <= MaxGroups
  /\ \A h \in Groups(m) : h \notin Repaired(m)

\* At most the group g is ready.
Awaits(m, g) ==
  /\ IsFecManager(m) /\ Balanced(m)
  /\ Cardinality(Groups(m)) <= MaxGroups
  /\ \A h \in Repaired(m) : h = g

\* No block is larger than z.
Within(m, z) ==
  \A h \in Groups(m) : \A i \in DOMAIN m.groups[h].blocks : m.groups[h].blocks[i].size <= z

LEMMA RepairedGroups ==
  ASSUME NEW m, NEW h
  PROVE  h \in Repaired(m) <=>
           /\ h \in Groups(m) /\ ~GroupExpired(m.groups[h])
           /\ CanRepair(m.groups[h]) /\ Repairs(m.groups[h])
BY DEF Repaired, Ready, ExpiredGroups

\* Whether a group can be repaired is a matter of its blocks alone.
LEMMA SameBlocks ==
  ASSUME NEW x, NEW y, x.blocks = y.blocks
  PROVE  (CanRepair(x) <=> CanRepair(y)) /\ (Repairs(x) <=> Repairs(y))
<1>1. /\ DataBlocks(x) = DataBlocks(y) /\ ParityBlocks(x) = ParityBlocks(y)
      /\ Missing(x) = Missing(y) /\ (SameSize(x) <=> SameSize(y))
  BY DEF DataBlocks, ParityBlocks, Missing, SameSize
<1>2. Rows(x) = Rows(y)
  BY <1>1 DEF Rows
<1>3. IsComplete(x) <=> IsComplete(y)
  BY <1>1 DEF IsComplete
<1>4. RsRepairs(x) <=> RsRepairs(y)
  BY <1>1, <1>2 DEF RsRepairs
<1>5. XorRepairs(x) <=> XorRepairs(y)
  BY <1>1 DEF XorRepairs
<1> QED BY <1>1, <1>3, <1>4, <1>5 DEF CanRepair, Repairs

\* What can be repaired has a block.
LEMMA EmptyCannot ==
  ASSUME NEW x, CanRepair(x)
  PROVE  DOMAIN x.blocks # {}
<1> SUFFICES ASSUME DOMAIN x.blocks = {} PROVE FALSE
  OBVIOUS
<1>1. PICK S : S = {}
  OBVIOUS
<1>2. DataBlocks(x) = S /\ DOMAIN x.blocks = S
  BY <1>1 DEF DataBlocks
<1>3. Cardinality(S) = 0
  BY <1>1, FS_EmptySet
<1>4. Cardinality(S) >= K
  BY <1>2 DEF CanRepair, IsComplete
<1> QED BY <1>3, <1>4, FecConfigAssumption

LEMMA NewManagerRests ==
  ASSUME NEW m, m = NewFecManager
  PROVE  AtRest(m) /\ \A z : Within(m, z)
<1>1. DOMAIN m.groups = {} /\ m.groups = [g \in {} |-> 0]
  BY DEF NewFecManager
<1>2. IsFiniteSet({}) /\ Cardinality({}) = 0
  BY FS_EmptySet
<1>3. IsFecManager(m)
  BY <1>1, <1>2 DEF IsFecManager, NewFecManager
<1>4. Groups(m) = {}
  BY <1>1 DEF Groups
<1>5. Cardinality(Groups(m)) = 0
  BY <1>2, <1>4
<1>6. Balanced(m)
  BY <1>5 DEF Balanced, NewFecManager
<1> QED BY <1>3, <1>4, <1>5, <1>6, FecConfigAssumption DEF AtRest, Within

\* Ageing makes nothing repairable.
LEMMA AgeRests ==
  ASSUME NEW m, NEW e, AtRest(m), e = AgeGroups(m)
  PROVE  AtRest(e) /\ \A z : Within(m, z) => Within(e, z)
<1>1. /\ IsFecManager(m) /\ Balanced(m) /\ Cardinality(Groups(m)) <= MaxGroups
      /\ \A h \in Groups(m) : h \notin Repaired(m)
  BY DEF AtRest
<1>2. /\ IsFecManager(e) /\ Groups(e) = Groups(m)
      /\ \A h \in Groups(e) : e.groups[h].blocks = m.groups[h].blocks
      /\ Balanced(e)
  BY <1>1, GroupsAgeResult
<1>3. ASSUME NEW h \in Groups(e), h \in Repaired(e) PROVE FALSE
  <2>1. PICK x, y : x = m.groups[h] /\ y = e.groups[h]
    OBVIOUS
  <2>2. ~GroupExpired(y) /\ CanRepair(y) /\ Repairs(y)
    BY <1>3, <2>1, RepairedGroups
  <2>3. x.blocks = y.blocks
    BY <1>2, <2>1
  <2>4. CanRepair(x) /\ Repairs(x)
    BY <2>2, <2>3, SameBlocks
  <2>5. IsGroup(x)
    BY <1>1, <1>2, <2>1, ManagerFields DEF IsTable, Groups
  <2>6. y = OlderGroup(x)
    BY <1>1, <1>2, <2>1, ManagerFields DEF AgeGroups, Groups
  <2>7. x.age \in Nat /\ (y.age = x.age + 1 \/ y.age = MaxGroupAge)
    BY <2>5, <2>6, FecConfigAssumption DEF IsGroup, OlderGroup, MaxGroupAge
  <2>8. ~GroupExpired(x)
    BY <2>2, <2>7, FecConfigAssumption DEF GroupExpired, MaxGroupAge
  <2>9. h \in Repaired(m)
    BY <1>2, <2>1, <2>4, <2>8, RepairedGroups
  <2> QED BY <1>1, <1>2, <2>9
<1>4. Cardinality(Groups(e)) <= MaxGroups
  BY <1>1, <1>2
<1>5. AtRest(e)
  BY <1>2, <1>3, <1>4 DEF AtRest
<1>6. ASSUME NEW z, Within(m, z) PROVE Within(e, z)
  BY <1>2, <1>6 DEF Within
<1> QED BY <1>5, <1>6

\* check_and_repair leaves nothing behind that it could have repaired.
LEMMA CheckRests ==
  ASSUME NEW m, NEW g, NEW f, NEW e, Awaits(m, g), f \in Nat, e = CheckAndRepair(m, f)
  PROVE  AtRest(e) /\ \A z : Within(m, z) => Within(e, z)
<1>1. IsFecManager(m) /\ Balanced(m) /\ Cardinality(Groups(m)) <= MaxGroups
  BY DEF Awaits
<1>2. /\ IsFecManager(e)
      /\ \A h : h \in Groups(e) <=>
           h \in Groups(m) /\ h \notin ExpiredGroups(m) /\ h \notin Repaired(m)
      /\ \A h \in Groups(e) : e.groups[h] = m.groups[h]
      /\ Cardinality(Groups(e)) <= Cardinality(Groups(m))
      /\ Balanced(e)
  BY <1>1, CheckResult
<1>3. ASSUME NEW h \in Groups(e), h \in Repaired(e) PROVE FALSE
  <2>1. h \in Groups(m) /\ h \notin Repaired(m) /\ e.groups[h] = m.groups[h]
    BY <1>2
  <2>2. ~GroupExpired(e.groups[h]) /\ CanRepair(e.groups[h]) /\ Repairs(e.groups[h])
    BY <1>3, RepairedGroups
  <2> QED BY <2>1, <2>2, RepairedGroups
<1>4. Cardinality(Groups(e)) <= MaxGroups
  BY <1>1, <1>2, ManagerFields, FecConfigAssumption
<1>5. AtRest(e)
  BY <1>2, <1>3, <1>4 DEF AtRest
<1>6. ASSUME NEW z, Within(m, z) PROVE Within(e, z)
  BY <1>2, <1>6 DEF Within
<1> QED BY <1>5, <1>6

LEMMA RestAwaits ==
  ASSUME NEW m, NEW g, AtRest(m)
  PROVE  Awaits(m, g)
BY RepairedGroups DEF AtRest, Awaits

\* The group add_block finds, or makes.
HomeOf(m, g) == IF g \in Groups(m) THEN m.groups[g] ELSE NewGroup

\* The group of the block after add_block.
LEMMA AddedGroup ==
  ASSUME NEW m, NEW g, NEW parity, NEW index, NEW b, NEW e, AtRest(m), g \in Nat,
         ~Refused(m, g), e = AddBlock(m, g, parity, index, b)
  PROVE  e.groups[g] = IF InRange(parity, index)
                         THEN WithBlock(HomeOf(m, g), SlotOf(parity, index), b)
                         ELSE HomeOf(m, g)
<1>1. IsFecManager(m) /\ Balanced(m) /\ Cardinality(Groups(m)) <= MaxGroups
  BY DEF AtRest
<1>2. PICK ready : ready = EnsureGroup(m, g)
  OBVIOUS
<1>3. /\ IsFecManager(ready)
      /\ ready.groups[g] = IF g \in Groups(m) THEN m.groups[g] ELSE NewGroup
  BY <1>1, <1>2, EnsureResult
<1>4. ready.groups[g] = HomeOf(m, g)
  BY <1>3 DEF HomeOf
<1>5. CASE ~InRange(parity, index)
  BY <1>2, <1>4, <1>5 DEF AddBlock
<1>6. CASE InRange(parity, index)
  <2>1. PICK new : new = PutGroup(ready.groups, g,
                           WithBlock(ready.groups[g], SlotOf(parity, index), b))
    OBVIOUS
  <2>2. e = [ready EXCEPT !.groups = new]
    BY <1>2, <1>6, <2>1 DEF AddBlock
  <2>3. e.groups = new
    BY <1>3, <2>2, ManagerFields
  <2>4. new[g] = WithBlock(ready.groups[g], SlotOf(parity, index), b)
    BY <2>1 DEF PutGroup
  <2> QED BY <1>4, <1>6, <2>3, <2>4
<1> QED BY <1>5, <1>6

\* After add_block at most the group of the block is ready.
LEMMA AddAwaits ==
  ASSUME NEW m, NEW g, NEW parity, NEW index, NEW b, NEW e, AtRest(m), g \in Nat,
         parity \in BOOLEAN, index \in Nat, b \in Block, ~Refused(m, g),
         e = AddBlock(m, g, parity, index, b)
  PROVE  Awaits(e, g) /\ Succeeds(m, e, g) /\ g \in Groups(e)
<1>1. /\ IsFecManager(m) /\ Balanced(m) /\ Cardinality(Groups(m)) <= MaxGroups
      /\ \A h \in Groups(m) : h \notin Repaired(m)
  BY DEF AtRest
<1>2. /\ IsFecManager(e) /\ g \in Groups(e)
      /\ Cardinality(Groups(e)) <= MaxGroups
      /\ Balanced(e) /\ Succeeds(m, e, g)
  BY <1>1, AddResult
<1>3. ASSUME NEW h \in Repaired(e), h # g PROVE FALSE
  <2>1. /\ h \in Groups(e) /\ ~GroupExpired(e.groups[h])
        /\ CanRepair(e.groups[h]) /\ Repairs(e.groups[h])
    BY RepairedGroups
  <2>2. h \in Groups(m) /\ e.groups[h] = m.groups[h]
    BY <1>2, <1>3, <2>1 DEF Succeeds
  <2>3. h \in Repaired(m)
    BY <2>1, <2>2, RepairedGroups
  <2> QED BY <1>1, <2>2, <2>3
<1> QED BY <1>2, <1>3 DEF Awaits

\* add_block keeps the sizes.
LEMMA AddWithin ==
  ASSUME NEW m, NEW g, NEW parity, NEW index, NEW b, NEW e, NEW z, AtRest(m), g \in Nat,
         parity \in BOOLEAN, index \in Nat, b \in Block, ~Refused(m, g),
         e = AddBlock(m, g, parity, index, b), Within(m, z), b.size <= z
  PROVE  Within(e, z)
<1>1. Succeeds(m, e, g) /\ g \in Groups(e)
  BY AddAwaits
<1>2. PICK x : x = HomeOf(m, g)
  OBVIOUS
<1>3. \A i \in DOMAIN x.blocks : x.blocks[i].size <= z
  BY <1>2, NewGroupType DEF HomeOf, Within
<1>4. e.groups[g] = x \/ e.groups[g] = WithBlock(x, SlotOf(parity, index), b)
  BY <1>2, AddedGroup
<1>5. ASSUME NEW i \in DOMAIN e.groups[g].blocks PROVE e.groups[g].blocks[i].size <= z
  <2>1. CASE e.groups[g] = x
    BY <1>3, <2>1
  <2>2. CASE e.groups[g] = WithBlock(x, SlotOf(parity, index), b) /\ e.groups[g] # x
    <3>1. PICK y, k : y = e.groups[g] /\ k = SlotOf(parity, index)
      OBVIOUS
    <3>2. IsGroup(x)
      <4>1. IsFecManager(m)
        BY DEF AtRest
      <4> QED BY <1>2, <4>1, ManagerFields, NewGroupType DEF HomeOf, IsTable, Groups
    <3>3. y = [x EXCEPT !.blocks = [j \in DOMAIN x.blocks \cup {k} |->
                                       IF j = k THEN b ELSE x.blocks[j]]]
      BY <2>2, <3>1 DEF WithBlock
    <3>4. y.blocks = [j \in DOMAIN x.blocks \cup {k} |-> IF j = k THEN b ELSE x.blocks[j]]
      BY <3>2, <3>3 DEF IsGroup
    <3>5. y.blocks[i] = b \/ (i \in DOMAIN x.blocks /\ y.blocks[i] = x.blocks[i])
      BY <3>1, <3>4
    <3> QED BY <1>3, <3>1, <3>5
  <2> QED BY <1>4, <2>1, <2>2
<1>6. ASSUME NEW h \in Groups(e), h # g, NEW i \in DOMAIN e.groups[h].blocks
      PROVE  e.groups[h].blocks[i].size <= z
  <2>1. h \in Groups(m) /\ e.groups[h] = m.groups[h]
    BY <1>1, <1>6 DEF Succeeds
  <2> QED BY <2>1 DEF Within
<1> QED BY <1>5, <1>6 DEF Within

\* A block that is refused or has a bad index makes nothing repairable.
LEMMA RejectedRests ==
  ASSUME NEW m, NEW g, NEW parity, NEW index, NEW b, NEW e, AtRest(m), g \in Nat,
         parity \in BOOLEAN, index \in Nat, b \in Block,
         Refused(m, g) \/ ~InRange(parity, index),
         e = AddBlock(m, g, parity, index, b)
  PROVE  AtRest(e) /\ \A z : Within(m, z) => Within(e, z)
<1>1. CASE Refused(m, g)
  <2>1. e = m
    BY <1>1 DEF AddBlock, EnsureGroup
  <2> QED BY <2>1
<1>2. CASE ~Refused(m, g)
  <2>1. ~InRange(parity, index)
    BY <1>2
  <2>2. Awaits(e, g) /\ Succeeds(m, e, g) /\ g \in Groups(e)
    BY <1>2, AddAwaits
  <2>3. e.groups[g] = HomeOf(m, g)
    BY <1>2, <2>1, AddedGroup
  <2>4. ASSUME g \in Repaired(e) PROVE FALSE
    <3>1. ~GroupExpired(e.groups[g]) /\ CanRepair(e.groups[g]) /\ Repairs(e.groups[g])
      BY <2>4, RepairedGroups
    <3>2. DOMAIN e.groups[g].blocks # {}
      BY <3>1, EmptyCannot
    <3>3. g \in Groups(m) /\ e.groups[g] = m.groups[g]
      BY <2>3, <3>2, NewGroupType DEF HomeOf
    <3>4. g \in Repaired(m)
      BY <3>1, <3>3, RepairedGroups
    <3> QED BY <3>3, <3>4 DEF AtRest
  <2>5. AtRest(e)
    BY <2>2, <2>4 DEF Awaits, AtRest
  <2>6. ASSUME NEW z, Within(m, z) PROVE Within(e, z)
    <3>1. \A h \in Groups(e) \ {g} : h \in Groups(m) /\ e.groups[h] = m.groups[h]
      BY <2>2 DEF Succeeds
    <3>2. \A i \in DOMAIN e.groups[g].blocks : e.groups[g].blocks[i].size <= z
      BY <2>3, <2>6, NewGroupType DEF HomeOf, Within
    <3> QED BY <2>6, <3>1, <3>2 DEF Within
  <2> QED BY <2>5, <2>6
<1> QED BY <1>1, <1>2

-----------------------------------------------------------------------------
(* What process_fec_groups numbers *)

\* check_and_repair returns nothing, or the k blocks of one group.
LEMMA RestoredResult ==
  ASSUME NEW m, NEW g, NEW list, Awaits(m, g), g \in Nat, list = Restored(m)
  PROVE  \/ Repaired(m) = {} /\ list = << >>
         \/ Repaired(m) = {g} /\ list = ListOf(m, g)
<1>1. \A h \in Repaired(m) : h = g
  BY DEF Awaits
<1>2. CASE g \in Repaired(m)
  <2>1. Repaired(m) = {g}
    BY <1>1, <1>2
  <2> QED BY <2>1, RestoredOne
<1>3. CASE g \notin Repaired(m)
  <2>1. Repaired(m) = {}
    BY <1>1, <1>3
  <2> QED BY <2>1, RestoredNone
<1> QED BY <1>2, <1>3

LEMMA GroupTyped ==
  ASSUME NEW m, NEW g, IsFecManager(m), g \in Repaired(m)
  PROVE  /\ g \in Groups(m) /\ IsGroup(m.groups[g]) /\ DOMAIN m.groups[g].blocks # {}
         /\ Missing(m.groups[g]) \subseteq RestoredIndices(m)
<1>1. g \in Groups(m) /\ CanRepair(m.groups[g])
  BY RepairedGroups
<1>2. IsGroup(m.groups[g])
  BY <1>1, ManagerFields DEF IsTable, Groups
<1>3. DOMAIN m.groups[g].blocks # {}
  BY <1>1, EmptyCannot
<1>4. Missing(m.groups[g]) \subseteq RestoredIndices(m)
  BY DEF RestoredIndices
<1> QED BY <1>1, <1>2, <1>3, <1>4

\* A block of a repaired group is well formed, and no larger than the received.
LEMMA BlockOutResult ==
  ASSUME NEW m, NEW g, NEW i, NEW sync, NEW b, IsFecManager(m), g \in Repaired(m),
         i \in DataIndices, sync \in [RestoredIndices(m) -> SyncChoices],
         b = BlockOut(m.groups[g], i, sync)
  PROVE  b.size \in Nat /\ b.sync \in Nat /\ b.key \in BOOLEAN
         /\ \A z : Within(m, z) => b.size <= z
<1>1. PICK x : x = m.groups[g]
  OBVIOUS
<1>2. /\ g \in Groups(m) /\ IsGroup(x) /\ DOMAIN x.blocks # {}
      /\ Missing(x) \subseteq RestoredIndices(m)
  BY <1>1, GroupTyped
<1>3. \A j \in DOMAIN x.blocks : x.blocks[j] \in Block
  BY <1>2 DEF IsGroup
<1>4. \A z : Within(m, z) => \A j \in DOMAIN x.blocks : x.blocks[j].size <= z
  BY <1>1, <1>2 DEF Within
<1>5. CASE i \in DOMAIN x.blocks
  <2>1. b = x.blocks[i]
    BY <1>1, <1>5 DEF BlockOut
  <2> QED BY <1>3, <1>4, <1>5, <2>1 DEF Block
<1>6. CASE i \notin DOMAIN x.blocks
  <2>1. PICK j : j = CHOOSE k \in DOMAIN x.blocks : TRUE
    OBVIOUS
  <2>2. j \in DOMAIN x.blocks
    BY <1>2, <2>1
  <2>3. b = [size |-> x.blocks[j].size, sync |-> sync[i],
             key |-> \E k \in DataBlocks(x) : x.blocks[k].key]
    BY <1>1, <1>6, <2>1 DEF BlockOut
  <2>4. b.size = x.blocks[j].size /\ b.sync = sync[i]
    BY <2>3
  <2>5. b.key \in BOOLEAN
    BY <2>3
  <2>6. i \in Missing(x)
    BY <1>6 DEF Missing
  <2>7. sync[i] \in Nat
    BY <1>2, <2>6, PipelineAssumption
  <2>8. x.blocks[j].size \in Nat
    BY <1>3, <2>2 DEF Block
  <2> QED BY <1>4, <2>2, <2>4, <2>5, <2>7, <2>8
<1> QED BY <1>5, <1>6

\* The fragment made of a listed block.
LEMMA ListedFragment ==
  ASSUME NEW m, NEW g, NEW list, NEW q, NEW sync, NEW f, IsFecManager(m), g \in Repaired(m),
         list = ListOf(m, g), q \in 1 .. K, sync \in [RestoredIndices(m) -> SyncChoices],
         f = FragmentOf(m, list[q], sync)
  PROVE  f \in Fragment /\ f.age = 0 /\ \A z : Within(m, z) => f.size <= z
<1>1. list[q] = <<g, RepairOrder(m.groups[g])[q]>>
  BY DEF ListOf
<1>2. PICK i : i = RepairOrder(m.groups[g])[q]
  OBVIOUS
<1>3. i \in DataIndices
  BY <1>2, GroupTyped, OrderResult
<1>4. PICK b : b = BlockOut(m.groups[g], i, sync)
  OBVIOUS
<1>5. b.size \in Nat /\ b.sync \in Nat /\ b.key \in BOOLEAN
      /\ \A z : Within(m, z) => b.size <= z
  BY <1>3, <1>4, BlockOutResult
<1>6. f = [size |-> b.size, sync |-> b.sync, key |-> b.key, age |-> 0]
  BY <1>1, <1>2, <1>4 DEF FragmentOf
<1>7. 0 \in 0 .. MaxAge
  BY ReorderConfigAssumption DEF MaxAge
<1>8. f.size = b.size /\ f.age = 0
  BY <1>6
<1>9. f \in Fragment
  BY <1>5, <1>6, <1>7 DEF Fragment
<1> QED BY <1>5, <1>8, <1>9

-----------------------------------------------------------------------------
(* A reorder buffer that is given the numbers of the counter *)

\* With n numbers given out: what is buffered is one of them, and not behind
\* the cursor, which is at most at the next one.
Counting(b, n) ==
  /\ IsReorderBuffer(b) /\ Fits(b)
  /\ b.duplicate = 0 /\ b.outOfOrder = 0
  /\ b.expected <= n + 1
  /\ \A s \in Buffered(b) : 1 <= s /\ b.expected <= s /\ s <= n

LEMMA EmptySize ==
  ASSUME NEW b, IsReorderBuffer(b), Buffered(b) = {}
  PROVE  BufferSize(b) = 0
<1>1. PICK g : IsSum(g, Buffered(b), Sizes(b)) /\ BufferSize(b) = g[Buffered(b)]
  BY BufferSizeIsSum
<1>2. g[{}] = 0
  BY <1>1, SumOnce
<1> QED BY <1>1, <1>2

LEMMA NewBufferCounts ==
  ASSUME NEW b, NEW n, b = NewReorderBuffer, n \in Nat
  PROVE  Counting(b, n) /\ Buffered(b) = {} /\ b.expected = 0
<1>1. DOMAIN b.buffer = {} /\ b.buffer = [s \in {} |-> 0]
  BY DEF NewReorderBuffer
<1>2. IsFiniteSet({})
  BY FS_EmptySet
<1>3. IsReorderBuffer(b)
  BY <1>1, <1>2 DEF IsReorderBuffer, NewReorderBuffer
<1>4. Buffered(b) = {}
  BY <1>1 DEF Buffered
<1>5. BufferSize(b) = 0
  BY <1>3, <1>4, EmptySize
<1>6. Fits(b)
  BY <1>5, ReorderConfigAssumption DEF Fits
<1> QED BY <1>3, <1>4, <1>6 DEF Counting, NewReorderBuffer

\* A later count is a count too.
LEMMA CountsOn ==
  ASSUME NEW b, NEW n, NEW k, Counting(b, n), n \in Nat, k \in Nat, n <= k
  PROVE  Counting(b, k)
<1>1. b.expected \in Nat /\ Buffered(b) \subseteq Nat
  BY BufferFields DEF Counting
<1>2. b.expected <= k + 1
  BY <1>1 DEF Counting
<1>3. \A s \in Buffered(b) : s <= k
  BY <1>1 DEF Counting
<1> QED BY <1>2, <1>3 DEF Counting

\* The next number is never a duplicate and never old: it is stored, or there
\* is no room for it.
LEMMA NextNumber ==
  ASSUME NEW b, NEW n, NEW frag, NEW a, Counting(b, n), n \in Nat, frag \in Fragment,
         a = AddPacket(b, n + 1, frag)
  PROVE  \/ /\ IsFull(b, frag)
            /\ a = [b EXCEPT !.total = @ + 1, !.dropped = @ + 1]
         \/ /\ ~IsFull(b, frag)
            /\ a = [b EXCEPT !.total = @ + 1, !.expected = Anchor(b, n + 1),
                             !.buffer = Put(b.buffer, n + 1, frag)]
<1>1. b.expected \in Nat /\ Buffered(b) \subseteq Nat
  BY BufferFields DEF Counting
<1>2. n + 1 \notin Buffered(b)
  BY <1>1 DEF Counting
<1>3. ~IsDuplicate(b, n + 1)
  BY <1>2 DEF IsDuplicate
<1>4. ~(n + 1 < Anchor(b, n + 1))
  BY <1>1 DEF Counting, Anchor
<1>5. ~IsOld(b, n + 1)
  BY <1>4 DEF IsOld
<1> QED BY <1>3, <1>5 DEF AddPacket

LEMMA NextCounts ==
  ASSUME NEW b, NEW n, NEW frag, NEW a, Counting(b, n), n \in Nat, frag \in Fragment,
         a = AddPacket(b, n + 1, frag)
  PROVE  Counting(a, n + 1)
<1>0. IsReorderBuffer(b) /\ Fits(b) /\ n + 1 \in Nat
  BY DEF Counting
<1>1. IsReorderBuffer(a) /\ Fits(a)
  BY <1>0, AddPacketType, AddFits
<1>2. /\ b = [buffer |-> b.buffer, expected |-> b.expected, total |-> b.total,
              duplicate |-> b.duplicate, dropped |-> b.dropped,
              outOfOrder |-> b.outOfOrder]
      /\ b.expected \in Nat /\ Buffered(b) \subseteq Nat
  BY <1>0, BufferFields
<1>3. CASE a = [b EXCEPT !.total = @ + 1, !.dropped = @ + 1]
  <2>1. /\ a.buffer = b.buffer /\ a.expected = b.expected
        /\ a.duplicate = b.duplicate /\ a.outOfOrder = b.outOfOrder
    BY <1>2, <1>3
  <2>2. \A s \in Buffered(a) : s \in Buffered(b)
    BY <2>1 DEF Buffered
  <2>3. \A s \in Buffered(a) : 1 <= s /\ a.expected <= s /\ s <= n + 1
    BY <1>2, <2>1, <2>2 DEF Counting
  <2>4. a.expected <= (n + 1) + 1
    BY <1>2, <2>1 DEF Counting
  <2> QED BY <1>1, <2>1, <2>3, <2>4 DEF Counting
<1>4. CASE a = [b EXCEPT !.total = @ + 1, !.expected = Anchor(b, n + 1),
                         !.buffer = Put(b.buffer, n + 1, frag)]
  <2>1. /\ a.buffer = Put(b.buffer, n + 1, frag) /\ a.expected = Anchor(b, n + 1)
        /\ a.duplicate = b.duplicate /\ a.outOfOrder = b.outOfOrder
    BY <1>2, <1>4
  <2>2. \A s \in Buffered(a) : s \in Buffered(b) \/ s = n + 1
    BY <2>1 DEF Buffered, Put
  <2>3. (a.expected = n + 1 /\ Buffered(b) = {}) \/ a.expected = b.expected
    BY <2>1 DEF Anchor
  <2>4. a.expected <= n + 1
    BY <1>2, <2>3 DEF Counting
  <2>5. ASSUME NEW s \in Buffered(a) PROVE 1 <= s /\ a.expected <= s /\ s <= n + 1
    <3>1. CASE s = n + 1
      BY <2>4, <3>1
    <3>2. CASE s # n + 1
      <4>1. s \in Buffered(b) /\ a.expected = b.expected
        BY <2>2, <2>3, <3>2
      <4>2. 1 <= s /\ b.expected <= s /\ s <= n /\ s \in Nat
        BY <1>2, <4>1 DEF Counting
      <4> QED BY <4>1, <4>2
    <3> QED BY <3>1, <3>2
  <2>6. a.expected <= (n + 1) + 1
    BY <1>2, <2>3 DEF Counting
  <2> QED BY <1>1, <2>1, <2>5, <2>6 DEF Counting
<1> QED BY <1>3, <1>4, NextNumber

\* The packets of a call are added one after the other.
FillBody(ad, n, sync, list, f) ==
  [p \in 0 .. Len(list) |->
     IF p = 0 THEN ad.rb
     ELSE AddPacket(f[p - 1], Number(n, p), FragmentOf(ad.fm, list[p], sync))]

\* f runs from b to the buffer after the k fragments fr, numbered from n + 1.
IsFill(f, b, n, fr, k) ==
  /\ f[0] = b
  /\ \A i \in 1 .. k : f[i] = AddPacket(f[i - 1], n + i, fr[i])

\* All well-typed buffers, as a set.
Buffers ==
  {b \in [buffer : UNION {[D -> Fragment] : D \in SUBSET Nat}, expected : Nat, total : Nat,
          duplicate : Nat, dropped : Nat, outOfOrder : Nat] : IsReorderBuffer(b)}

LEMMA InBuffers ==
  ASSUME NEW b
  PROVE  b \in Buffers <=> IsReorderBuffer(b)
<1>1. ASSUME IsReorderBuffer(b) PROVE b \in Buffers
  <2>1. b = [buffer |-> b.buffer, expected |-> b.expected, total |-> b.total,
             duplicate |-> b.duplicate, dropped |-> b.dropped, outOfOrder |-> b.outOfOrder]
        /\ b.expected \in Nat /\ b.total \in Nat /\ b.duplicate \in Nat
        /\ b.dropped \in Nat /\ b.outOfOrder \in Nat
        /\ b.buffer \in [Buffered(b) -> Fragment] /\ Buffered(b) \subseteq Nat
    BY <1>1, BufferFields
  <2>2. b.buffer \in UNION {[D -> Fragment] : D \in SUBSET Nat}
    BY <2>1
  <2> QED BY <1>1, <2>1, <2>2 DEF Buffers
<1> QED BY <1>1 DEF Buffers

LEMMA FillExists ==
  ASSUME NEW b, NEW n, NEW fr, NEW k, IsReorderBuffer(b), n \in Nat, k \in Nat,
         \A i \in 1 .. k : fr[i] \in Fragment
  PROVE  \E f : IsFill(f, b, n, fr, k) /\ f \in [0 .. k -> Buffers]
<1>1. PICK S : S = Buffers
  OBVIOUS
<1>2. \A x : x \in S <=> IsReorderBuffer(x)
  BY <1>1, InBuffers
<1>3. ASSUME NEW x \in S, NEW i \in 1 .. k PROVE AddPacket(x, n + i, fr[i]) \in S
  <2>1. PICK s, g : s = n + i /\ g = fr[i]
    OBVIOUS
  <2>2. IsReorderBuffer(x) /\ s \in Nat /\ g \in Fragment
    BY <1>2, <2>1
  <2>3. IsReorderBuffer(AddPacket(x, s, g))
    BY <2>2, AddPacketType
  <2> QED BY <1>2, <2>1, <2>3
<1>4. PICK F : F = [x \in S \X (1 .. k) |-> AddPacket(x[1], n + x[2], fr[x[2]])]
  OBVIOUS
<1>5. \A x \in S : \A i \in 1 .. k : F[<<x, i>>] = AddPacket(x, n + i, fr[i])
  BY <1>4
<1>6. \A x \in S : \A i \in 1 .. k : F[<<x, i>>] \in S
  BY <1>3, <1>5
<1>7. b \in S
  BY <1>2
<1>8. PICK f : Solution(f, k, S, b, F)
  BY <1>6, <1>7, RecursionExists
<1>9. f \in [0 .. k -> S] /\ f[0] = b /\ \A i \in 1 .. k : f[i] = F[<<f[i - 1], i>>]
  BY <1>8 DEF Solution
<1>10. \A i \in 1 .. k : f[i - 1] \in S
  BY <1>9
<1>11. IsFill(f, b, n, fr, k)
  BY <1>5, <1>9, <1>10 DEF IsFill
<1> QED BY <1>1, <1>9, <1>11

\* b and m are the buffer and the manager of ad, and fr the k fragments made of
\* the blocks check_and_repair lists.
Takes(ad, sync, b, m, list, fr, k) ==
  /\ b = ad.rb /\ m = ad.fm /\ list = Restored(m) /\ k = Len(list) /\ k \in Nat
  /\ \A i \in 1 .. k : fr[i] = FragmentOf(m, list[i], sync) /\ fr[i] \in Fragment

LEMMA NumberedRun ==
  ASSUME NEW ad, NEW n, NEW sync, NEW b, NEW m, NEW list, NEW fr, NEW k,
         Takes(ad, sync, b, m, list, fr, k), IsReorderBuffer(b), n \in Nat
  PROVE  \E f : IsFill(f, b, n, fr, k) /\ Numbered(ad, n, sync) = f[k]
<1>0. /\ b = ad.rb /\ list = Restored(ad.fm) /\ k = Len(list) /\ k \in Nat
      /\ \A i \in 1 .. k : fr[i] = FragmentOf(ad.fm, list[i], sync)
      /\ \A i \in 1 .. k : fr[i] \in Fragment
  BY DEF Takes
<1>1. Numbered(ad, n, sync) = (CHOOSE f : f = FillBody(ad, n, sync, list, f))[Len(list)]
  BY <1>0 DEF Numbered, FillBody
<1>4. PICK g : IsFill(g, b, n, fr, k) /\ g \in [0 .. k -> Buffers]
  BY <1>0, FillExists
<1>5. \A f : FillBody(ad, n, sync, list, f) =
              [p \in 0 .. k |-> IF p = 0 THEN b ELSE AddPacket(f[p - 1], n + p, fr[p])]
  BY <1>0 DEF FillBody, Number
<1>6. g = FillBody(ad, n, sync, list, g)
  <2>1. g = [p \in 0 .. k |-> IF p = 0 THEN b ELSE AddPacket(g[p - 1], n + p, fr[p])]
    BY <1>4 DEF IsFill
  <2> QED BY <1>5, <2>1
<1>7. PICK f : f = CHOOSE h : h = FillBody(ad, n, sync, list, h)
  OBVIOUS
<1>8. f = FillBody(ad, n, sync, list, f)
  BY <1>6, <1>7
<1>9. f = [p \in 0 .. k |-> IF p = 0 THEN b ELSE AddPacket(f[p - 1], n + p, fr[p])]
  BY <1>5, <1>8
<1>10. IsFill(f, b, n, fr, k)
  <2>1. f[0] = b
    BY <1>0, <1>9
  <2>2. \A i \in 1 .. k : f[i] = AddPacket(f[i - 1], n + i, fr[i])
    BY <1>0, <1>9
  <2> QED BY <2>1, <2>2 DEF IsFill
<1> QED BY <1>0, <1>1, <1>7, <1>10

\* A buffer that counts still counts after each of them.
LEMMA FillCounts ==
  ASSUME NEW f, NEW b, NEW n, NEW fr, NEW k, IsFill(f, b, n, fr, k), Counting(b, n),
         n \in Nat, k \in Nat, \A i \in 1 .. k : fr[i] \in Fragment
  PROVE  \A i \in 0 .. k : Counting(f[i], n + i)
<1>1. PICK P : P = [i \in 0 .. k |-> {x \in Buffers : Counting(x, n + i)}]
  OBVIOUS
<1>2. \A i \in 0 .. k : \A x : x \in P[i] <=> Counting(x, n + i)
  <2>1. ASSUME NEW i \in 0 .. k, NEW x, Counting(x, n + i) PROVE x \in Buffers
    BY <2>1, InBuffers DEF Counting
  <2> QED BY <1>1, <2>1
<1>3. f[0] \in P[0]
  <2>1. f[0] = b /\ n + 0 = n
    BY DEF IsFill
  <2>2. Counting(f[0], n + 0)
    BY <2>1
  <2>3. 0 \in 0 .. k
    OBVIOUS
  <2> QED BY <1>2, <2>2, <2>3
<1>4. ASSUME NEW i \in 1 .. k, f[i - 1] \in P[i - 1] PROVE f[i] \in P[i]
  <2>1. PICK x, j, g, a : x = f[i - 1] /\ j = n + (i - 1) /\ g = fr[i] /\ a = f[i]
    OBVIOUS
  <2>2. i - 1 \in 0 .. k /\ i \in 0 .. k /\ j \in Nat /\ j + 1 = n + i
    BY <2>1
  <2>3. Counting(x, j) /\ g \in Fragment
    BY <1>2, <1>4, <2>1, <2>2
  <2>4. a = AddPacket(x, j + 1, g)
    BY <2>1, <2>2 DEF IsFill
  <2>5. Counting(a, j + 1)
    BY <2>2, <2>3, <2>4, NextCounts
  <2> QED BY <1>2, <2>1, <2>2, <2>5
<1>5. \A i \in 0 .. k : f[i] \in P[i]
  BY <1>3, <1>4, AlongRun
<1> QED BY <1>2, <1>5

-----------------------------------------------------------------------------
(* process_reorder_buffer *)

\* The drain stops somewhere: not every number after the cursor is buffered.
LEMMA StopExists ==
  ASSUME NEW b, NEW e, IsReorderBuffer(b), e = StopOf(b)
  PROVE  e \in DrainEnds(b) /\ StopsAt(b, e)
<1>1. PICK x, S, c : x = b.expected /\ S = Buffered(b) /\ c = Cardinality(S)
  OBVIOUS
<1>2. x \in Nat /\ S \subseteq Nat /\ IsFiniteSet(S) /\ c \in Nat
  BY <1>1, BufferFields
<1> DEFINE T == {s \in x .. (x + c) : s \notin S}
<1>3. T # {}
  <2>1. SUFFICES ASSUME T = {} PROVE FALSE
    OBVIOUS
  <2>2. x .. (x + c) \subseteq S
    BY <2>1
  <2>3. Cardinality(x .. (x + c)) <= c
    BY <1>1, <1>2, <2>2, FS_Subset
  <2>4. x \in Int /\ x + c \in Int
    BY <1>2
  <2>5. Cardinality(x .. (x + c)) = IF x > x + c THEN 0 ELSE (x + c) - x + 1
    BY <2>4, FS_Interval
  <2> QED BY <1>2, <2>3, <2>5
<1>4. T \in SUBSET Nat
  BY <1>2
<1>5. PICK k \in T : \A y \in T : k <= y
  <2> HIDE DEF T
  <2> QED BY <1>3, <1>4, LeastElement
<1>6. k \in x .. (x + c) /\ k \notin S
  OBVIOUS
<1>7. x .. (k - 1) \subseteq S
  <2> SUFFICES ASSUME NEW s \in x .. (k - 1), s \notin S PROVE FALSE
    OBVIOUS
  <2>1. s \in T
    BY <1>2, <1>6
  <2> HIDE DEF T
  <2>2. k <= s
    BY <1>5, <2>1
  <2> QED BY <1>2, <1>6, <2>2
<1>8. k \in DrainEnds(b) /\ StopsAt(b, k)
  BY <1>1, <1>6, <1>7 DEF DrainEnds, StopsAt
<1> QED BY <1>8 DEF StopOf

\* What is drained was buffered.
LEMMA DrainedBuffered ==
  ASSUME NEW b, NEW e, IsReorderBuffer(b), e = StopOf(b)
  PROVE  \A s \in Handed(b, e) : s \in Buffered(b)
BY StopExists DEF Handed, StopsAt

LEMMA DrainCounts ==
  ASSUME NEW b, NEW n, NEW e, NEW a, Counting(b, n), n \in Nat, e = StopOf(b), a = Drain(b, e)
  PROVE  Counting(a, n)
<1>0. IsReorderBuffer(b) /\ Fits(b)
  BY DEF Counting
<1>1. e \in DrainEnds(b) /\ StopsAt(b, e)
  BY <1>0, StopExists
<1>2. /\ e \in Nat /\ e >= b.expected /\ IsReorderBuffer(a) /\ a.expected = e
      /\ Buffered(a) = Buffered(b) \ (b.expected .. (e - 1))
      /\ a.duplicate = b.duplicate /\ a.outOfOrder = b.outOfOrder
  BY <1>0, <1>1, DrainResult
<1>3. b.expected \in Nat /\ Buffered(b) \subseteq Nat
  BY <1>0, BufferFields
<1>4. e <= n + 1
  <2>1. CASE e = b.expected
    BY <2>1 DEF Counting
  <2>2. CASE e # b.expected
    <3>1. e - 1 \in b.expected .. (e - 1)
      BY <1>2, <1>3, <2>2
    <3>2. e - 1 \in Buffered(b)
      BY <1>1, <3>1 DEF StopsAt
    <3>3. e - 1 <= n
      BY <3>2 DEF Counting
    <3> QED BY <1>2, <3>3
  <2> QED BY <2>1, <2>2
<1>5. ASSUME NEW s \in Buffered(a) PROVE 1 <= s /\ e <= s /\ s <= n
  <2>1. s \in Buffered(b) /\ s \notin b.expected .. (e - 1) /\ s \in Nat
    BY <1>2, <1>3
  <2>2. 1 <= s /\ b.expected <= s /\ s <= n
    BY <2>1 DEF Counting
  <2> QED BY <1>2, <1>3, <2>1, <2>2
<1>6. Fits(a)
  <2>1. Buffered(a) \subseteq Buffered(b)
    BY <1>2
  <2>2. a.buffer = Restrict(b.buffer, Buffered(b) \ (b.expected .. (e - 1)))
    BY <1>0, BufferFields DEF Drain
  <2>3. \A s \in Buffered(a) : a.buffer[s] = b.buffer[s]
    BY <1>2, <2>2 DEF Restrict
  <2>4. \A s \in Buffered(a) : a.buffer[s].size = b.buffer[s].size
    BY <2>3
  <2> QED BY <1>0, <1>2, <2>1, <2>4, PartFits
<1> QED BY <1>2, <1>4, <1>5, <1>6 DEF Counting

LEMMA AgeCounts ==
  ASSUME NEW b, NEW n, NEW a, Counting(b, n), a = AgeBuffer(b)
  PROVE  Counting(a, n) /\ Buffered(a) = Buffered(b) /\ a.expected = b.expected
<1>0. IsReorderBuffer(b) /\ Fits(b)
  BY DEF Counting
<1>1. /\ IsReorderBuffer(a) /\ Buffered(a) = Buffered(b) /\ a.expected = b.expected
      /\ a.duplicate = b.duplicate /\ a.outOfOrder = b.outOfOrder
  BY <1>0, BufferAgeResult
<1>2. Fits(a)
  <2>1. a.buffer = [s \in Buffered(b) |-> Older(b.buffer[s])]
    BY <1>0, BufferFields DEF AgeBuffer
  <2>2. ASSUME NEW s \in Buffered(a) PROVE a.buffer[s].size = b.buffer[s].size
    <3>1. b.buffer[s] \in Fragment
      BY <1>0, <1>1, BufferFields
    <3>2. a.buffer[s] = Older(b.buffer[s])
      BY <1>1, <2>1
    <3> QED BY <3>1, <3>2 DEF Older, Fragment
  <2>3. Buffered(a) \subseteq Buffered(b)
    BY <1>1
  <2> QED BY <1>0, <1>1, <2>2, <2>3, PartFits
<1> QED BY <1>1, <1>2 DEF Counting

-----------------------------------------------------------------------------
(* handle_bare_ts_data *)

LEMMA Remainder ==
  ASSUME NEW l, NEW t, l \in Nat, t \in Nat \ {0}
  PROVE  /\ l \div t \in Nat /\ (l \div t) * t \in Nat /\ (l \div t) * t <= l
         /\ l - (l \div t) * t < t
OBVIOUS

LEMMA SuffixType ==
  ASSUME NEW s, NEW i, s \in Seq(BOOLEAN), i \in 1 .. (Len(s) + 1)
  PROVE  /\ SubSeq(s, i, Len(s)) \in Seq(BOOLEAN)
         /\ Len(SubSeq(s, i, Len(s))) = Len(s) - i + 1
OBVIOUS

LEMMA SyncedType ==
  ASSUME NEW s, s \in Seq(BOOLEAN)
  PROVE  Synced(s) \in Seq(BOOLEAN)
<1>1. CASE SyncPositions(s) = {}
  BY <1>1 DEF Synced
<1>2. CASE SyncPositions(s) # {}
  <2>1. PICK T : T = SyncPositions(s)
    OBVIOUS
  <2>2. T \in SUBSET Nat /\ T # {} /\ T \subseteq 1 .. Len(s)
    BY <1>2, <2>1 DEF SyncPositions
  <2>3. PICK k \in T : \A y \in T : k <= y
    BY <2>2, LeastElement
  <2>4. PICK i : i = Min(T)
    OBVIOUS
  <2>5. i \in T
    BY <2>3, <2>4 DEF Min
  <2>6. i \in 1 .. (Len(s) + 1)
    BY <2>2, <2>5
  <2>7. SubSeq(s, i, Len(s)) \in Seq(BOOLEAN)
    BY <2>6, SuffixType
  <2> QED BY <1>2, <2>1, <2>4, <2>7 DEF Synced
<1> QED BY <1>1, <1>2

\* What is left is less than a TS packet.
LEMMA RestResult ==
  ASSUME NEW s, s \in Seq(BOOLEAN)
  PROVE  Rest(s) \in Seq(BOOLEAN) /\ Len(Rest(s)) < TsPacketSize
<1>1. PICK l, t, w : l = Len(s) /\ t = TsPacketSize /\ w = (l \div t) * t
  OBVIOUS
<1>2. l \in Nat /\ t \in Nat \ {0}
  BY <1>1, ReorderConfigAssumption
<1>3. w \in Nat /\ w <= l /\ l - w < t
  BY <1>1, <1>2, Remainder
<1>4. PICK i : i = w + 1
  OBVIOUS
<1>5. i \in 1 .. (Len(s) + 1)
  BY <1>1, <1>2, <1>3, <1>4
<1>6. /\ SubSeq(s, i, Len(s)) \in Seq(BOOLEAN)
      /\ Len(SubSeq(s, i, Len(s))) = Len(s) - i + 1
  BY <1>5, SuffixType
<1>7. Rest(s) = SubSeq(s, i, Len(s))
  BY <1>1, <1>4 DEF Rest, WholePackets
<1> QED BY <1>1, <1>2, <1>3, <1>4, <1>6, <1>7

-----------------------------------------------------------------------------
(* One adapter *)

\* The members of an adapter other than its manager and its buffer.
Framed(ad) ==
  /\ ad = [mode |-> ad.mode, fm |-> ad.fm, rb |-> ad.rb, input |-> ad.input,
           started |-> ad.started]
  /\ ad.mode \in Modes /\ ad.input \in Seq(BOOLEAN) /\ ad.started \in BOOLEAN
  /\ Len(ad.input) < TsPacketSize
  /\ ad.input # << >> => ad.mode = "bare_ts"

\* An adapter between calls, n numbers given out.
Settled(ad, n) == Framed(ad) /\ AtRest(ad.fm) /\ Counting(ad.rb, n)

\* An adapter about to process its groups, of which at most g is ready.
Loaded(ad, n, g) == Framed(ad) /\ Awaits(ad.fm, g) /\ Counting(ad.rb, n)

LEMMA SettledIsAdapter ==
  ASSUME NEW ad, NEW n, Settled(ad, n)
  PROVE  IsAdapter(ad)
<1>1. IsFecManager(ad.fm) /\ IsReorderBuffer(ad.rb)
  BY DEF Settled, AtRest, Counting
<1>2. ad \in [mode : Modes, fm : {ad.fm}, rb : {ad.rb}, input : Seq(BOOLEAN),
              started : BOOLEAN]
  BY DEF Settled, Framed
<1> QED BY <1>1, <1>2 DEF IsAdapter

LEMMA NewAdapterSettled ==
  ASSUME NEW ad, NEW n, ad = NewAdapter, n \in Nat
  PROVE  Settled(ad, n)
<1>1. /\ ad.mode = "unknown" /\ ad.fm = NewFecManager /\ ad.rb = NewReorderBuffer
      /\ ad.input = << >> /\ ad.started = FALSE
      /\ ad = [mode |-> ad.mode, fm |-> ad.fm, rb |-> ad.rb, input |-> ad.input,
               started |-> ad.started]
  BY DEF NewAdapter
<1>2. Framed(ad)
  <2>1. << >> \in Seq(BOOLEAN) /\ Len(<< >>) = 0
    OBVIOUS
  <2>2. 0 < TsPacketSize
    BY ReorderConfigAssumption
  <2> QED BY <1>1, <2>1, <2>2 DEF Framed, Modes
<1>3. AtRest(ad.fm)
  BY <1>1, NewManagerRests
<1>4. Counting(ad.rb, n)
  BY <1>1, NewBufferCounts
<1> QED BY <1>2, <1>3, <1>4 DEF Settled

\* Numbers another connection takes do not unsettle an adapter.
LEMMA StaysSettled ==
  ASSUME NEW ad, NEW n, NEW k, Settled(ad, n), n \in Nat, k \in Nat, n <= k
  PROVE  Settled(ad, k)
<1>1. PICK b : b = ad.rb
  OBVIOUS
<1>2. Counting(b, n)
  BY <1>1 DEF Settled
<1>3. Counting(b, k)
  BY <1>2, CountsOn
<1> QED BY <1>1, <1>3 DEF Settled

LEMMA SettledLoaded ==
  ASSUME NEW ad, NEW n, NEW g, Settled(ad, n)
  PROVE  Loaded(ad, n, g)
<1>1. PICK m : m = ad.fm
  OBVIOUS
<1>2. AtRest(m)
  BY <1>1 DEF Settled
<1>3. Awaits(m, g)
  BY <1>2, RestAwaits
<1> QED BY <1>1, <1>3 DEF Settled, Loaded

LEMMA FailedType ==
  ASSUME NEW m, IsFecManager(m)
  PROVE  FailedNow(m) \in Nat /\ m.failed \in Nat
<1>1. IsFiniteSet(Groups(m)) /\ m.failed \in Nat
  BY ManagerFields
<1>2. Ready(m) \ Repaired(m) \subseteq Groups(m)
  BY DEF Ready
<1>3. IsFiniteSet(Ready(m) \ Repaired(m))
  BY <1>1, <1>2, FS_Subset
<1>4. Cardinality(Ready(m) \ Repaired(m)) \in Nat
  BY <1>3, FS_CardinalityType
<1> QED BY <1>1, <1>4 DEF FailedNow

\* The numbers a call gives out: none, or k.
LEMMA ListLength ==
  ASSUME NEW m, NEW g, NEW list, Awaits(m, g), g \in Nat, list = Restored(m)
  PROVE  \/ Len(list) = 0 /\ list = << >>
         \/ Len(list) = K /\ g \in Repaired(m) /\ list = ListOf(m, g)
<1>1. \/ Repaired(m) = {} /\ list = << >>
      \/ Repaired(m) = {g} /\ list = ListOf(m, g)
  BY RestoredResult
<1>2. CASE list = << >>
  BY <1>2
<1>3. CASE Repaired(m) = {g} /\ list = ListOf(m, g)
  <2>1. list = [q \in 1 .. K |-> <<g, RepairOrder(m.groups[g])[q]>>]
    BY <1>3 DEF ListOf
  <2>2. K \in Nat
    BY FecConfigAssumption
  <2>3. list \in [1 .. K -> {list[q] : q \in 1 .. K}]
    BY <2>1
  <2>4. Len(list) = K
    BY <2>2, <2>3
  <2> QED BY <1>3, <2>4
<1> QED BY <1>1, <1>2, <1>3

\* The fragments of a call are well formed, fresh and no larger than the blocks.
LEMMA FragmentsTyped ==
  ASSUME NEW m, NEW g, NEW list, NEW sync, NEW fr, Awaits(m, g), g \in Nat,
         list = Restored(m), sync \in [RestoredIndices(m) -> SyncChoices],
         fr = [i \in 1 .. Len(list) |-> FragmentOf(m, list[i], sync)]
  PROVE  \A i \in 1 .. Len(list) :
           fr[i] \in Fragment /\ fr[i].age = 0 /\ \A z : Within(m, z) => fr[i].size <= z
<1> SUFFICES ASSUME NEW i \in 1 .. Len(list)
             PROVE  fr[i] \in Fragment /\ fr[i].age = 0
                    /\ \A z : Within(m, z) => fr[i].size <= z
  OBVIOUS
<1>1. (Len(list) = 0 /\ list = << >>)
      \/ (Len(list) = K /\ g \in Repaired(m) /\ list = ListOf(m, g))
  BY ListLength
<1>2. i \in 1 .. K /\ g \in Repaired(m) /\ list = ListOf(m, g)
  BY <1>1
<1>3. PICK f : f = FragmentOf(m, list[i], sync)
  OBVIOUS
<1>4. IsFecManager(m)
  BY DEF Awaits
<1>5. f \in Fragment /\ f.age = 0 /\ \A z : Within(m, z) => f.size <= z
  BY <1>2, <1>3, <1>4, ListedFragment
<1>6. fr[i] = f
  BY <1>3
<1> QED BY <1>5, <1>6

LEMMA SetOutput ==
  ASSUME NEW e, NEW r, NEW t, NEW f,
         e = [mode |-> e.mode, fm |-> e.fm, rb |-> e.rb, input |-> e.input,
              started |-> e.started],
         f = [e EXCEPT !.rb = r, !.started = t]
  PROVE  /\ f = [mode |-> f.mode, fm |-> f.fm, rb |-> f.rb, input |-> f.input,
                 started |-> f.started]
         /\ f.mode = e.mode /\ f.fm = e.fm /\ f.rb = r /\ f.input = e.input
         /\ f.started = t
OBVIOUS

\* What process_fec_groups and process_reorder_buffer do to a framed adapter.
LEMMA ProcessFields ==
  ASSUME NEW ad, NEW n, NEW sync, NEW mid, NEW new, Framed(ad),
         mid = ProcessFecGroups(ad, n, sync), new = ProcessReorder(mid)
  PROVE  /\ mid.rb = Numbered(ad, n, sync)
         /\ new.fm = CheckAndRepair(ad.fm, ad.fm.failed + FailedNow(ad.fm))
         /\ new.rb = Drain(mid.rb, StopOf(mid.rb))
         /\ Framed(new) /\ new.mode = ad.mode /\ new.input = ad.input
<1>1. PICK b, m : b = Numbered(ad, n, sync)
                  /\ m = CheckAndRepair(ad.fm, ad.fm.failed + FailedNow(ad.fm))
  OBVIOUS
<1>2. ad = [mode |-> ad.mode, fm |-> ad.fm, rb |-> ad.rb, input |-> ad.input,
            started |-> ad.started]
  BY DEF Framed
<1>3. mid = [ad EXCEPT !.rb = b, !.fm = m]
  BY <1>1 DEF ProcessFecGroups
<1>4. mid = [mode |-> ad.mode, fm |-> m, rb |-> b, input |-> ad.input,
             started |-> ad.started]
  BY <1>2, <1>3
<1>5. mid.rb = b /\ mid.fm = m /\ mid.started = ad.started
      /\ mid.mode = ad.mode /\ mid.input = ad.input
  BY <1>4
<1>6. PICK r, t : r = Drain(mid.rb, StopOf(mid.rb))
                  /\ t = (mid.started \/ Handed(mid.rb, StopOf(mid.rb)) # {})
  OBVIOUS
<1>7. new = [mid EXCEPT !.rb = r, !.started = t]
  BY <1>6 DEF ProcessReorder
<1>8. mid = [mode |-> mid.mode, fm |-> mid.fm, rb |-> mid.rb, input |-> mid.input,
             started |-> mid.started]
  BY <1>4, <1>5
<1>9. t \in BOOLEAN
  BY <1>6
<1>10. /\ new = [mode |-> new.mode, fm |-> new.fm, rb |-> new.rb, input |-> new.input,
                 started |-> new.started]
       /\ new.mode = mid.mode /\ new.fm = mid.fm /\ new.rb = r /\ new.input = mid.input
       /\ new.started = t
  BY <1>7, <1>8, SetOutput
<1>11. Framed(new)
  BY <1>5, <1>9, <1>10 DEF Framed
<1> QED BY <1>1, <1>5, <1>6, <1>10, <1>11

\* The buffer once everything restored has its number.
LEMMA NumberedCounts ==
  ASSUME NEW ad, NEW n, NEW g, NEW sync, NEW k, Loaded(ad, n, g), n \in Nat, g \in Nat,
         sync \in [RestoredIndices(ad.fm) -> SyncChoices], k = Len(Restored(ad.fm))
  PROVE  k \in Nat /\ Counting(Numbered(ad, n, sync), n + k)
<1>1. Awaits(ad.fm, g) /\ Counting(ad.rb, n)
  BY DEF Loaded
<1>2. PICK m, list, fr : m = ad.fm /\ list = Restored(m)
                         /\ fr = [i \in 1 .. Len(list) |-> FragmentOf(m, list[i], sync)]
  OBVIOUS
<1>3. Awaits(m, g) /\ sync \in [RestoredIndices(m) -> SyncChoices] /\ k = Len(list)
  BY <1>1, <1>2
<1>4. (Len(list) = 0 /\ list = << >>)
      \/ (Len(list) = K /\ g \in Repaired(m) /\ list = ListOf(m, g))
  BY <1>2, <1>3, ListLength
<1>5. k \in Nat
  BY <1>3, <1>4, FecConfigAssumption
<1>6. \A i \in 1 .. k : fr[i] \in Fragment
  BY <1>2, <1>3, FragmentsTyped
<1>8. PICK b : b = ad.rb
  OBVIOUS
<1>7. Takes(ad, sync, b, m, list, fr, k)
  BY <1>2, <1>3, <1>5, <1>6, <1>8 DEF Takes
<1>9. IsReorderBuffer(b)
  BY <1>1, <1>8 DEF Counting
<1>10. PICK f : IsFill(f, b, n, fr, k) /\ Numbered(ad, n, sync) = f[k]
  BY <1>7, <1>9, NumberedRun
<1>11. IsFill(f, b, n, fr, k) /\ Counting(b, n)
  BY <1>1, <1>8, <1>10
<1>12. \A i \in 0 .. k : Counting(f[i], n + i)
  BY <1>5, <1>6, <1>11, FillCounts
<1> QED BY <1>5, <1>10, <1>12

\* A loaded adapter is settled again after feed, with what it gave out counted.
LEMMA ProcessSettles ==
  ASSUME NEW ad, NEW n, NEW g, NEW sync, NEW mid, NEW new, NEW k, Loaded(ad, n, g),
         n \in Nat, g \in Nat, sync \in [RestoredIndices(ad.fm) -> SyncChoices],
         mid = ProcessFecGroups(ad, n, sync), new = ProcessReorder(mid),
         k = Len(Restored(ad.fm))
  PROVE  /\ k \in Nat /\ Settled(new, n + k)
         /\ Handed(mid.rb, StopOf(mid.rb)) \subseteq 1 .. (n + k)
         /\ \A z : Within(ad.fm, z) => Within(new.fm, z)
<1>1. Framed(ad) /\ Awaits(ad.fm, g)
  BY DEF Loaded
<1>2. /\ mid.rb = Numbered(ad, n, sync)
      /\ new.fm = CheckAndRepair(ad.fm, ad.fm.failed + FailedNow(ad.fm))
      /\ new.rb = Drain(mid.rb, StopOf(mid.rb))
      /\ Framed(new)
  BY <1>1, ProcessFields
<1>3. k \in Nat /\ Counting(Numbered(ad, n, sync), n + k)
  BY NumberedCounts
<1>4. PICK b, e, a, j : b = mid.rb /\ e = StopOf(b) /\ a = Drain(b, e) /\ j = n + k
  OBVIOUS
<1>5. Counting(b, j) /\ j \in Nat
  BY <1>2, <1>3, <1>4
<1>6. Counting(a, j)
  BY <1>4, <1>5, DrainCounts
<1>7. \A s \in Handed(b, e) : s \in Buffered(b)
  BY <1>4, <1>5, DrainedBuffered DEF Counting
<1>8. \A s \in Buffered(b) : s \in 1 .. j
  <2>1. Buffered(b) \subseteq Nat
    BY <1>5, BufferFields DEF Counting
  <2> QED BY <1>5, <2>1 DEF Counting
<1>9. PICK m, f, x : m = ad.fm /\ f = ad.fm.failed + FailedNow(ad.fm) /\ x = new.fm
  OBVIOUS
<1>10. Awaits(m, g) /\ f \in Nat /\ x = CheckAndRepair(m, f)
  BY <1>1, <1>2, <1>9, FailedType DEF Awaits
<1>11. AtRest(x) /\ \A z : Within(m, z) => Within(x, z)
  BY <1>10, CheckRests
<1>12. Settled(new, n + k)
  BY <1>2, <1>4, <1>6, <1>9, <1>11 DEF Settled
<1> QED BY <1>3, <1>4, <1>7, <1>8, <1>9, <1>11, <1>12

-----------------------------------------------------------------------------
(* What feed does before it processes *)

DetectedFor(ad, d) == [ad EXCEPT !.mode = ModeAfter(ad, d)]

LEMMA DatagramFields ==
  ASSUME NEW d \in Datagram
  PROVE  /\ d.group \in Nat /\ d.parity \in BOOLEAN /\ d.index \in Nat
         /\ d.block \in Block /\ d.bytes \in Seq(BOOLEAN)
BY DEF Datagram

\* A change of mode strands nothing in the input buffer.
LEMMA DetectedSettled ==
  ASSUME NEW ad, NEW n, NEW d, NEW e, Settled(ad, n), e = DetectedFor(ad, d)
  PROVE  /\ Settled(e, n) /\ e.fm = ad.fm /\ e.rb = ad.rb /\ e.input = ad.input
         /\ e.mode = ModeAfter(ad, d)
<1>1. PICK md : md = ModeAfter(ad, d)
  OBVIOUS
<1>2. /\ ad = [mode |-> ad.mode, fm |-> ad.fm, rb |-> ad.rb, input |-> ad.input,
               started |-> ad.started]
      /\ ad.mode \in Modes /\ (ad.input # << >> => ad.mode = "bare_ts")
      /\ ad.input \in Seq(BOOLEAN) /\ ad.started \in BOOLEAN
      /\ Len(ad.input) < TsPacketSize
  BY DEF Settled, Framed
<1>3. e = [mode |-> md, fm |-> ad.fm, rb |-> ad.rb, input |-> ad.input,
           started |-> ad.started]
  BY <1>1, <1>2 DEF DetectedFor
<1>4. e.mode = md /\ e.fm = ad.fm /\ e.rb = ad.rb /\ e.input = ad.input
      /\ e.started = ad.started
  BY <1>3
<1>5. md \in Modes
  BY <1>1, <1>2, DetectionAssumption DEF ModeAfter, Detect, Modes
<1>6. ad.mode # "unknown" => md = ad.mode
  BY <1>1 DEF ModeAfter
<1>7. e.input # << >> => e.mode = "bare_ts"
  BY <1>2, <1>4, <1>6
<1>8. Framed(e)
  BY <1>2, <1>3, <1>4, <1>5, <1>7 DEF Framed
<1> QED BY <1>1, <1>4, <1>8 DEF Settled

\* Bytes left over from bare TS are less than a packet.
LEMMA BareTsSettled ==
  ASSUME NEW ad, NEW n, NEW d, NEW e, Settled(ad, n), d \in Datagram, ad.mode = "bare_ts",
         e = BareTs(ad, d)
  PROVE  Settled(e, n) /\ e.fm = ad.fm /\ e.rb = ad.rb
<1>1. /\ ad = [mode |-> ad.mode, fm |-> ad.fm, rb |-> ad.rb, input |-> ad.input,
               started |-> ad.started]
      /\ ad.mode \in Modes /\ ad.input \in Seq(BOOLEAN) /\ ad.started \in BOOLEAN
  BY DEF Settled, Framed
<1>2. PICK s : s = Synced(ad.input \o d.bytes)
  OBVIOUS
<1>3. ad.input \o d.bytes \in Seq(BOOLEAN)
  BY <1>1, DatagramFields
<1>4. s \in Seq(BOOLEAN)
  BY <1>2, <1>3, SyncedType
<1>5. PICK i, t : i = Rest(s) /\ t = (ad.started \/ WholePackets(s) > 0)
  OBVIOUS
<1>6. i \in Seq(BOOLEAN) /\ Len(i) < TsPacketSize /\ t \in BOOLEAN
  BY <1>4, <1>5, RestResult
<1>7. e = [ad EXCEPT !.input = i, !.started = t]
  BY <1>2, <1>5 DEF BareTs
<1>8. /\ e = [mode |-> e.mode, fm |-> e.fm, rb |-> e.rb, input |-> e.input,
              started |-> e.started]
      /\ e.mode = ad.mode /\ e.fm = ad.fm /\ e.rb = ad.rb /\ e.input = i /\ e.started = t
  BY <1>1, <1>7
<1>9. Framed(e)
  BY <1>1, <1>6, <1>8 DEF Framed
<1> QED BY <1>8, <1>9 DEF Settled

LEMMA NoInputSettled ==
  ASSUME NEW ad, NEW n, NEW e, Settled(ad, n), e = NoInput(ad)
  PROVE  Settled(e, n) /\ e.fm = ad.fm /\ e.rb = ad.rb
<1>1. /\ ad = [mode |-> ad.mode, fm |-> ad.fm, rb |-> ad.rb, input |-> ad.input,
               started |-> ad.started]
      /\ ad.mode \in Modes /\ ad.started \in BOOLEAN
  BY DEF Settled, Framed
<1>2. /\ e = [mode |-> e.mode, fm |-> e.fm, rb |-> e.rb, input |-> e.input,
              started |-> e.started]
      /\ e.mode = ad.mode /\ e.fm = ad.fm /\ e.rb = ad.rb /\ e.input = << >>
      /\ e.started = ad.started
  BY <1>1 DEF NoInput
<1>3. << >> \in Seq(BOOLEAN) /\ Len(<< >>) = 0
  OBVIOUS
<1>4. 0 < TsPacketSize
  BY ReorderConfigAssumption
<1>5. Framed(e)
  BY <1>1, <1>2, <1>3, <1>4 DEF Framed
<1> QED BY <1>2, <1>5 DEF Settled

\* The adapter with another manager.
LEMMA SetManager ==
  ASSUME NEW ad, NEW m, NEW e, Framed(ad), e = [ad EXCEPT !.fm = m]
  PROVE  Framed(e) /\ e.fm = m /\ e.rb = ad.rb
<1>1. ad = [mode |-> ad.mode, fm |-> ad.fm, rb |-> ad.rb, input |-> ad.input,
            started |-> ad.started]
  BY DEF Framed
<1>2. /\ e = [mode |-> e.mode, fm |-> e.fm, rb |-> e.rb, input |-> e.input,
              started |-> e.started]
      /\ e.mode = ad.mode /\ e.fm = m /\ e.rb = ad.rb /\ e.input = ad.input
      /\ e.started = ad.started
  BY <1>1
<1>3. Framed(e)
  BY <1>2 DEF Framed
<1> QED BY <1>2, <1>3

LEMMA TakeFields ==
  ASSUME NEW ad, NEW n, NEW d, NEW e, NEW m, Settled(ad, n), e = TakeBlock(ad, d),
         m = AddBlock(ad.fm, d.group, d.parity, d.index, d.block)
  PROVE  Framed(e) /\ e.fm = m /\ e.rb = ad.rb
<1>1. e = [ad EXCEPT !.fm = m]
  BY DEF TakeBlock
<1>2. Framed(ad)
  BY DEF Settled
<1> QED BY <1>1, <1>2, SetManager

\* A block that is taken makes at most its own group ready.
LEMMA TakeLoaded ==
  ASSUME NEW ad, NEW n, NEW d, NEW e, Settled(ad, n), d \in Datagram, ~Rejected(ad, d),
         e = TakeBlock(ad, d)
  PROVE  Loaded(e, n, d.group) /\ e.rb = ad.rb
         /\ \A z : Within(ad.fm, z) /\ d.block.size <= z => Within(e.fm, z)
<1>1. PICK o, g, p, i, b, m : o = ad.fm /\ g = d.group /\ p = d.parity /\ i = d.index
                              /\ b = d.block /\ m = AddBlock(o, g, p, i, b)
  OBVIOUS
<1>2. /\ AtRest(o) /\ g \in Nat /\ p \in BOOLEAN /\ i \in Nat /\ b \in Block
      /\ ~Refused(o, g)
  BY <1>1, DatagramFields DEF Settled, Rejected
<1>3. Framed(e) /\ e.fm = m /\ e.rb = ad.rb
  BY <1>1, TakeFields
<1>4. Awaits(m, g)
  BY <1>1, <1>2, AddAwaits
<1>5. ASSUME NEW z, Within(o, z), b.size <= z PROVE Within(m, z)
  BY <1>1, <1>2, <1>5, AddWithin
<1> QED BY <1>1, <1>3, <1>4, <1>5 DEF Loaded, Settled

LEMMA TakeRejected ==
  ASSUME NEW ad, NEW n, NEW d, NEW e, Settled(ad, n), d \in Datagram, Rejected(ad, d),
         e = TakeBlock(ad, d)
  PROVE  Settled(e, n) /\ e.rb = ad.rb /\ \A z : Within(ad.fm, z) => Within(e.fm, z)
<1>1. PICK o, g, p, i, b, m : o = ad.fm /\ g = d.group /\ p = d.parity /\ i = d.index
                              /\ b = d.block /\ m = AddBlock(o, g, p, i, b)
  OBVIOUS
<1>2. /\ AtRest(o) /\ g \in Nat /\ p \in BOOLEAN /\ i \in Nat /\ b \in Block
      /\ (Refused(o, g) \/ ~InRange(p, i))
  BY <1>1, DatagramFields DEF Settled, Rejected
<1>3. Framed(e) /\ e.fm = m /\ e.rb = ad.rb
  BY <1>1, TakeFields
<1>4. AtRest(m) /\ \A z : Within(o, z) => Within(m, z)
  BY <1>1, <1>2, RejectedRests
<1> QED BY <1>1, <1>3, <1>4 DEF Settled

LEMMA AgedSettled ==
  ASSUME NEW ad, NEW n, NEW e, Settled(ad, n),
         e = Aged(ad)
  PROVE  /\ Settled(e, n) /\ \A z : Within(ad.fm, z) => Within(e.fm, z)
         /\ Buffered(e.rb) = Buffered(ad.rb) /\ e.rb.expected = ad.rb.expected
<1>1. PICK o, b, m, a : o = ad.fm /\ b = ad.rb /\ m = AgeGroups(o) /\ a = AgeBuffer(b)
  OBVIOUS
<1>2. AtRest(o) /\ Counting(b, n) /\ Framed(ad)
  BY <1>1 DEF Settled
<1>3. AtRest(m) /\ \A z : Within(o, z) => Within(m, z)
  BY <1>1, <1>2, AgeRests
<1>4. Counting(a, n) /\ Buffered(a) = Buffered(b) /\ a.expected = b.expected
  BY <1>1, <1>2, AgeCounts
<1>5. ad = [mode |-> ad.mode, fm |-> ad.fm, rb |-> ad.rb, input |-> ad.input,
            started |-> ad.started]
  BY <1>2 DEF Framed
<1>6. e = [ad EXCEPT !.fm = m, !.rb = a]
  BY <1>1 DEF Aged
<1>7. /\ e = [mode |-> e.mode, fm |-> e.fm, rb |-> e.rb, input |-> e.input,
              started |-> e.started]
      /\ e.mode = ad.mode /\ e.fm = m /\ e.rb = a /\ e.input = ad.input
      /\ e.started = ad.started
  BY <1>5, <1>6
<1>8. Framed(e)
  BY <1>2, <1>7 DEF Framed
<1> QED BY <1>1, <1>3, <1>4, <1>7, <1>8 DEF Settled

-----------------------------------------------------------------------------
(* Where the numbers come from *)

Origin == [index : DataIndices, restored : BOOLEAN, packets : Nat]

\* What process_fec_groups numbers on a call.
OriginsOf(m, list, sync) ==
  [p \in 1 .. Len(list) |->
     [index |-> list[p][2],
      restored |-> list[p][2] \notin DOMAIN m.groups[list[p][1]].blocks,
      packets |-> AlignedCount(FragmentOf(m, list[p], sync))]]

\* Within a group (k consecutive numbers) a received block precedes a higher one.
InTurn(o, n) ==
  \A s \in 1 .. (n - 1) : s % K # 0 /\ ~o[s].restored => o[s].index < o[s + 1].index

Recorded(o, n) == o \in Seq(Origin) /\ n = Len(o) /\ n % K = 0 /\ InTurn(o, n)

LEMMA NextMultiple ==
  ASSUME NEW n, NEW k, n \in Nat, k \in Nat \ {0}, n % k = 0
  PROVE  (n + k) % k = 0
<1>1. PICK q, p, r : q = n \div k /\ p = (n + k) \div k /\ r = (n + k) % k
  OBVIOUS
<1>2. q \in Nat /\ n = k * q
  BY <1>1
<1>3. p \in Nat /\ r \in 0 .. (k - 1) /\ n + k = k * p + r
  BY <1>1
<1>4. PICK t \in Int : t = (q + 1) - p
  BY <1>2, <1>3
<1>5. k * t = r
  <2>1. k * (q + 1) = k * q + k
    BY <1>2
  <2>2. k * t = k * (q + 1) - k * p
    BY <1>2, <1>3, <1>4
  <2> QED BY <1>2, <1>3, <2>1, <2>2
<1>6. CASE t >= 1
  <2>1. k * t >= k
    BY <1>6
  <2> QED BY <1>3, <1>5, <2>1
<1>7. CASE t <= -1
  <2>1. k * t < 0
    BY <1>7
  <2> QED BY <1>3, <1>5, <2>1
<1>8. CASE t = 0
  BY <1>1, <1>5, <1>8
<1> QED BY <1>6, <1>7, <1>8

LEMMA AlignedType ==
  ASSUME NEW f, f \in Fragment
  PROVE  AlignedCount(f) \in Nat
<1>1. PICK l : l = f.size - StartPos(f)
  OBVIOUS
<1>2. l \in Nat
  BY <1>1 DEF StartPos, Fragment
<1>3. l \div TsPacketSize \in Nat
  BY <1>2, ReorderConfigAssumption, Remainder
<1> QED BY <1>1, <1>3 DEF AlignedCount

\* The record of number p of a call that lists group g.
ComesFrom(new, p, m, g, list, sync) ==
  /\ Len(list) = K /\ g \in Repaired(m)
  /\ new[p] \in Origin
  /\ new[p].index = RepairOrder(m.groups[g])[p]
  /\ new[p].restored <=> RepairOrder(m.groups[g])[p] \notin DOMAIN m.groups[g].blocks
  /\ new[p].packets = AlignedCount(FragmentOf(m, list[p], sync))

LEMMA OriginFields ==
  ASSUME NEW m, NEW g, NEW list, NEW sync, NEW new, NEW p, Awaits(m, g), g \in Nat,
         list = Restored(m), sync \in [RestoredIndices(m) -> SyncChoices],
         new = OriginsOf(m, list, sync), p \in 1 .. Len(list)
  PROVE  ComesFrom(new, p, m, g, list, sync)
<1>1. Len(list) = K /\ g \in Repaired(m) /\ list = ListOf(m, g)
  BY ListLength
<1>2. PICK i, f, r : i = RepairOrder(m.groups[g])[p] /\ f = FragmentOf(m, list[p], sync)
                     /\ r = (i \notin DOMAIN m.groups[g].blocks)
  OBVIOUS
<1>3. list[p] = <<g, i>>
  BY <1>1, <1>2 DEF ListOf
<1>4. list[p][1] = g /\ list[p][2] = i
  BY <1>3
<1>5. new[p] = [index |-> i, restored |-> r, packets |-> AlignedCount(f)]
  BY <1>2, <1>4 DEF OriginsOf
<1>6. IsFecManager(m)
  BY DEF Awaits
<1>7. IsGroup(m.groups[g])
  BY <1>1, <1>6, GroupTyped
<1>8. i \in DataIndices
  BY <1>1, <1>2, <1>7, OrderResult
<1>9. f \in Fragment
  BY <1>1, <1>2, <1>6, ListedFragment
<1>10. AlignedCount(f) \in Nat
  BY <1>9, AlignedType
<1>11. r \in BOOLEAN
  BY <1>2
<1>12. new[p] \in Origin
  BY <1>5, <1>8, <1>10, <1>11 DEF Origin
<1>13. new[p].index = i /\ new[p].packets = AlignedCount(f) /\ new[p].restored = r
  BY <1>5
<1> QED BY <1>1, <1>2, <1>12, <1>13 DEF ComesFrom

LEMMA Appended ==
  ASSUME NEW o, NEW new, NEW S, NEW n, NEW k, NEW all, o \in Seq(S), new \in Seq(S), n = Len(o),
         k = Len(new), all = o \o new
  PROVE  /\ all \in Seq(S) /\ n \in Nat /\ k \in Nat /\ Len(all) = n + k
         /\ \A s \in 1 .. n : all[s] = o[s]
         /\ \A p \in 1 .. k : all[n + p] = new[p]
OBVIOUS

LEMMA OriginsType ==
  ASSUME NEW m, NEW g, NEW list, NEW sync, NEW new, Awaits(m, g), g \in Nat,
         list = Restored(m), sync \in [RestoredIndices(m) -> SyncChoices],
         new = OriginsOf(m, list, sync)
  PROVE  new \in Seq(Origin) /\ Len(new) = Len(list) /\ Len(list) \in {0, K}
<1>1. Len(list) \in {0, K}
  BY ListLength
<1>2. Len(list) \in Nat
  BY <1>1, FecConfigAssumption
<1>3. \A p \in 1 .. Len(list) : new[p] \in Origin
  BY OriginFields DEF ComesFrom
<1>4. DOMAIN new = 1 .. Len(list) /\ new = [p \in 1 .. Len(list) |-> new[p]]
  BY DEF OriginsOf
<1>5. new \in [1 .. Len(list) -> Origin]
  BY <1>3, <1>4
<1> QED BY <1>1, <1>2, <1>5

\* The numbers of a call continue the record.
LEMMA RecordContinues ==
  ASSUME NEW o, NEW n, NEW m, NEW g, NEW list, NEW sync, NEW new, NEW all, Recorded(o, n),
         Awaits(m, g), g \in Nat, list = Restored(m),
         sync \in [RestoredIndices(m) -> SyncChoices], new = OriginsOf(m, list, sync),
         all = o \o new
  PROVE  Recorded(all, n + Len(list))
<1>0. K \in Nat \ {0}
  BY FecConfigAssumption
<1>1. o \in Seq(Origin) /\ n = Len(o) /\ n % K = 0 /\ InTurn(o, n)
  BY DEF Recorded
<1>2. PICK k : k = Len(list)
  OBVIOUS
<1>3. new \in Seq(Origin) /\ k = Len(new) /\ k \in {0, K}
  BY <1>2, OriginsType
<1>4. /\ all \in Seq(Origin) /\ n \in Nat /\ k \in Nat /\ Len(all) = n + k
      /\ \A s \in 1 .. n : all[s] = o[s]
      /\ \A p \in 1 .. k : all[n + p] = new[p]
  BY <1>1, <1>3, Appended
<1>5. (n + k) % K = 0
  <2>1. CASE k = 0
    BY <1>1, <1>4, <2>1
  <2>2. CASE k = K
    BY <1>0, <1>1, <1>4, <2>2, NextMultiple
  <2> QED BY <1>3, <2>1, <2>2
<1>6. ASSUME NEW s \in 1 .. ((n + k) - 1), s % K # 0, ~all[s].restored
      PROVE  all[s].index < all[s + 1].index
  <2>1. s # n
    BY <1>1, <1>6
  <2>2. CASE s < n
    <3>1. s \in 1 .. (n - 1) /\ s \in 1 .. n /\ s + 1 \in 1 .. n
      BY <1>4, <2>2
    <3>2. all[s] = o[s] /\ all[s + 1] = o[s + 1]
      BY <1>4, <3>1
    <3> QED BY <1>1, <1>6, <3>1, <3>2 DEF InTurn
  <2>3. CASE ~(s < n)
    <3>1. PICK p : p = s - n
      OBVIOUS
    <3>2. p \in 1 .. k /\ p + 1 \in 1 .. k /\ s = n + p /\ s + 1 = n + (p + 1)
      BY <1>4, <2>1, <2>3, <3>1
    <3>3. all[s] = new[p] /\ all[s + 1] = new[p + 1]
      BY <1>4, <3>2
    <3>4. PICK x, r : x = m.groups[g] /\ r = RepairOrder(x)
      OBVIOUS
    <3>5. /\ g \in Repaired(m) /\ k = K /\ new[p].index = r[p]
          /\ new[p].restored <=> r[p] \notin DOMAIN x.blocks
      <4>1. p \in 1 .. Len(list)
        BY <1>2, <3>2
      <4>2. ComesFrom(new, p, m, g, list, sync)
        BY <4>1, OriginFields
      <4> QED BY <1>2, <3>4, <4>2 DEF ComesFrom
    <3>6. new[p + 1].index = r[p + 1]
      <4>1. PICK q : q = p + 1
        OBVIOUS
      <4>2. q \in 1 .. Len(list)
        BY <1>2, <3>2, <4>1
      <4>3. ComesFrom(new, q, m, g, list, sync)
        BY <4>2, OriginFields
      <4>4. new[q].index = r[q]
        BY <3>4, <4>3 DEF ComesFrom
      <4> QED BY <4>1, <4>4
    <3>7. IsGroup(x)
      BY <3>4, <3>5, GroupTyped DEF Awaits
    <3>8. \A q \in 1 .. (K - 1) : r[q] \in DOMAIN x.blocks => r[q] < r[q + 1]
      BY <3>4, <3>7, OrderResult
    <3>9. p \in 1 .. (K - 1) /\ r[p] \in DOMAIN x.blocks
      BY <1>0, <1>6, <3>2, <3>3, <3>5
    <3> QED BY <3>3, <3>5, <3>6, <3>8, <3>9
  <2> QED BY <2>2, <2>3
<1>7. InTurn(all, n + k)
  BY <1>6 DEF InTurn
<1> QED BY <1>2, <1>4, <1>5, <1>7 DEF Recorded

-----------------------------------------------------------------------------
(* The invariant of the pipeline *)

PipeOK(A, n, o, em) ==
  /\ DOMAIN A \subseteq Conns /\ n \in Nat
  /\ \A c \in DOMAIN A : Settled(A[c], n)
  /\ Recorded(o, n)
  /\ em \subseteq 1 .. n

\* Every adapter is settled and every number recorded.
PipeIInv == PipeOK(adapters, counter, origin, emitted)

LEMMA PipeParts ==
  ASSUME PipeIInv
  PROVE  /\ Live \subseteq Conns /\ counter \in Nat
         /\ \A c \in Live : Settled(adapters[c], counter)
         /\ Recorded(origin, counter)
         /\ emitted \subseteq 1 .. counter
BY DEF PipeIInv, PipeOK, Live

LEMMA PipeInit == Init => PipeIInv
<1> SUFFICES ASSUME Init PROVE PipeIInv
  OBVIOUS
<1>1. DOMAIN adapters = {} /\ counter = 0 /\ origin = << >> /\ emitted = {}
  BY DEF Init
<1>2. 0 % K = 0 /\ 0 \in Nat
  BY FecConfigAssumption
<1>3. << >> \in Seq(Origin) /\ Len(<< >>) = 0
  OBVIOUS
<1>4. InTurn(<< >>, 0)
  BY DEF InTurn
<1>5. Recorded(origin, counter)
  BY <1>1, <1>2, <1>3, <1>4 DEF Recorded
<1> QED BY <1>1, <1>2, <1>5 DEF PipeIInv, PipeOK

\* The adapter a datagram finds, or makes.
LEMMA AdapterOfSettled ==
  ASSUME PipeIInv, NEW c
  PROVE  Settled(AdapterOf(c), counter)
<1>1. CASE c \in Live
  BY <1>1, PipeParts DEF AdapterOf
<1>2. CASE c \notin Live
  <2>1. PICK a, n : a = NewAdapter /\ n = counter
    OBVIOUS
  <2>2. n \in Nat
    BY <2>1, PipeParts
  <2>3. Settled(a, n)
    BY <2>1, <2>2, NewAdapterSettled
  <2> QED BY <1>2, <2>1, <2>3 DEF AdapterOf
<1> QED BY <1>1, <1>2

\* The table after an adapter is put back.
Replaced(A, c, ad) == [x \in DOMAIN A \cup {c} |-> IF x = c THEN ad ELSE A[x]]

LEMMA ReplacedOK ==
  ASSUME NEW A, NEW n, NEW o, NEW em, NEW c, NEW ad, NEW k, NEW o2, NEW em2, NEW B,
         PipeOK(A, n, o, em), c \in Conns, k \in Nat, n <= k, Settled(ad, k),
         Recorded(o2, k), em2 \subseteq 1 .. k, B = Replaced(A, c, ad)
  PROVE  PipeOK(B, k, o2, em2)
<1>1. DOMAIN A \subseteq Conns /\ n \in Nat /\ \A x \in DOMAIN A : Settled(A[x], n)
  BY DEF PipeOK
<1>2. ASSUME NEW x \in DOMAIN A PROVE Settled(A[x], k)
  <2>1. PICK e : e = A[x]
    OBVIOUS
  <2>2. Settled(e, n)
    BY <1>1, <2>1
  <2>3. Settled(e, k)
    BY <1>1, <2>2, StaysSettled
  <2> QED BY <2>1, <2>3
<1>3. \A x \in DOMAIN B : x \in Conns /\ Settled(B[x], k)
  BY <1>1, <1>2 DEF Replaced
<1> QED BY <1>3 DEF PipeOK

LEMMA SetAdapterOK ==
  ASSUME PipeIInv, NEW c, NEW ad, c \in Conns, Settled(ad, counter), SetAdapter(c, ad),
         UNCHANGED <<counter, origin, emitted>>
  PROVE  PipeIInv'
<1>1. PICK A, n, o, em, B : A = adapters /\ n = counter /\ o = origin /\ em = emitted
                            /\ B = adapters'
  OBVIOUS
<1>2. PipeOK(A, n, o, em) /\ Settled(ad, n)
  BY <1>1 DEF PipeIInv
<1>3. n \in Nat /\ n <= n /\ Recorded(o, n) /\ em \subseteq 1 .. n
  BY <1>2 DEF PipeOK
<1>4. B = Replaced(A, c, ad)
  BY <1>1 DEF SetAdapter, Replaced, Live
<1>5. PipeOK(B, n, o, em)
  BY <1>2, <1>3, <1>4, ReplacedOK
<1> QED BY <1>1, <1>5 DEF PipeIInv

\* process_fec_groups and process_reorder_buffer.
LEMMA ProcessOK ==
  ASSUME PipeIInv, NEW c, NEW ad, NEW g, c \in Conns, g \in Nat, Loaded(ad, counter, g),
         Process(c, ad)
  PROVE  PipeIInv'
<1>1. PICK A, n, o, em, B : A = adapters /\ n = counter /\ o = origin /\ em = emitted
                            /\ B = adapters'
  OBVIOUS
<1>2. PICK m, list : m = ad.fm /\ list = Restored(m)
  OBVIOUS
<1>3. PICK sync \in [RestoredIndices(m) -> SyncChoices] :
        LET mid == ProcessFecGroups(ad, counter, sync)
        IN  /\ SetAdapter(c, ProcessReorder(mid))
            /\ counter' = counter + Len(list)
            /\ origin' = origin \o OriginsOf(m, list, sync)
            /\ emitted' = emitted \cup Handed(mid.rb, StopOf(mid.rb))
  BY <1>2 DEF Process, OriginsOf
<1>4. PICK mid, new, k, os, all :
        /\ mid = ProcessFecGroups(ad, n, sync) /\ new = ProcessReorder(mid)
        /\ k = Len(list) /\ os = OriginsOf(m, list, sync) /\ all = o \o os
  OBVIOUS
<1>5. /\ SetAdapter(c, new) /\ counter' = n + k /\ origin' = all
      /\ emitted' = em \cup Handed(mid.rb, StopOf(mid.rb))
  BY <1>1, <1>3, <1>4
<1>6. PipeOK(A, n, o, em) /\ Loaded(ad, n, g) /\ Awaits(m, g)
  BY <1>1, <1>2 DEF PipeIInv, Loaded
<1>7. n \in Nat /\ Recorded(o, n) /\ em \subseteq 1 .. n
  BY <1>6 DEF PipeOK
<1>8. sync \in [RestoredIndices(ad.fm) -> SyncChoices] /\ k = Len(Restored(ad.fm))
  BY <1>2, <1>3, <1>4
<1>9. /\ k \in Nat /\ Settled(new, n + k)
      /\ Handed(mid.rb, StopOf(mid.rb)) \subseteq 1 .. (n + k)
  BY <1>4, <1>6, <1>7, <1>8, ProcessSettles
<1>10. Recorded(all, n + Len(list))
  BY <1>2, <1>4, <1>6, <1>7, RecordContinues
<1>11. PICK j, em2 : j = n + k /\ em2 = emitted'
  OBVIOUS
<1>12. /\ j \in Nat /\ n <= j /\ Settled(new, j) /\ Recorded(all, j) /\ em2 \subseteq 1 .. j
  <2>1. j \in Nat /\ n <= j
    BY <1>7, <1>9, <1>11
  <2>2. Settled(new, j)
    BY <1>9, <1>11
  <2>3. Recorded(all, j)
    BY <1>4, <1>10, <1>11
  <2>4. PICK H : H = Handed(mid.rb, StopOf(mid.rb))
    OBVIOUS
  <2>5. em2 = em \cup H /\ H \subseteq 1 .. j /\ em \subseteq 1 .. n
    BY <1>5, <1>7, <1>9, <1>11, <2>4
  <2>6. em2 \subseteq 1 .. j
    BY <1>7, <2>1, <2>5
  <2> QED BY <2>1, <2>2, <2>3, <2>6
<1>13. B = Replaced(A, c, new)
  BY <1>1, <1>5 DEF SetAdapter, Replaced, Live
<1>14. PipeOK(B, j, all, em2)
  BY <1>6, <1>12, <1>13, ReplacedOK
<1> QED BY <1>1, <1>5, <1>11, <1>14 DEF PipeIInv

-----------------------------------------------------------------------------
(* Every step keeps it *)

LEMMA FeedKeeps ==
  ASSUME PipeIInv, NEW c, NEW d, c \in Conns, d \in Datagrams, Feed(c, d)
  PROVE  PipeIInv'
<1>1. PICK ad, e, n : ad = AdapterOf(c) /\ e = DetectedFor(ad, d) /\ n = counter
  OBVIOUS
<1>2. Settled(ad, n) /\ n \in Nat /\ d \in Datagram
  BY <1>1, AdapterOfSettled, PipeParts, PipelineAssumption
<1>3. Settled(e, n)
  BY <1>1, <1>2, DetectedSettled
<1>4. e = Detected(c, d)
  BY <1>1 DEF DetectedFor, Detected
<1>5. CASE FeedBareTs(c, d)
  <2>1. PICK f : f = BareTs(e, d)
    OBVIOUS
  <2>2. e.mode = "bare_ts" /\ Process(c, f)
    BY <1>4, <1>5, <2>1 DEF FeedBareTs
  <2>3. Settled(f, n)
    BY <1>2, <1>3, <2>1, <2>2, BareTsSettled
  <2>4. Loaded(f, n, 0)
    BY <2>3, SettledLoaded
  <2>5. 0 \in Nat /\ Loaded(f, counter, 0)
    BY <1>1, <2>4
  <2> QED BY <2>2, <2>5, ProcessOK
<1>6. CASE FeedIgnored(c, d)
  <2>1. SetAdapter(c, e) /\ Settled(e, counter) /\ UNCHANGED <<counter, origin, emitted>>
    BY <1>1, <1>3, <1>4, <1>6 DEF FeedIgnored
  <2> QED BY <2>1, SetAdapterOK
<1>7. CASE FeedRejected(c, d)
  <2>1. PICK f : f = TakeBlock(e, d)
    OBVIOUS
  <2>2. /\ Rejected(e, d) /\ SetAdapter(c, f)
        /\ UNCHANGED <<counter, origin, emitted>>
    BY <1>4, <1>7, <2>1 DEF FeedRejected
  <2>3. Settled(f, n)
    BY <1>2, <1>3, <2>1, <2>2, TakeRejected
  <2>4. Settled(f, counter)
    BY <1>1, <2>3
  <2> QED BY <2>2, <2>4, SetAdapterOK
<1>8. CASE FeedBlock(c, d)
  <2>1. PICK f, g : f = TakeBlock(e, d) /\ g = d.group
    OBVIOUS
  <2>2. ~Rejected(e, d) /\ Process(c, f)
    BY <1>4, <1>8, <2>1 DEF FeedBlock
  <2>3. Loaded(f, n, d.group)
    BY <1>2, <1>3, <2>1, <2>2, TakeLoaded
  <2>4. g \in Nat /\ Loaded(f, counter, g)
    BY <1>1, <1>2, <2>1, <2>3, DatagramFields
  <2> QED BY <2>2, <2>4, ProcessOK
<1> QED BY <1>5, <1>6, <1>7, <1>8 DEF Feed

LEMMA FlushKeeps ==
  ASSUME PipeIInv, NEW c, c \in Live, Flush(c)
  PROVE  PipeIInv'
<1>1. PICK ad, f, n : ad = AdapterOf(c) /\ f = NoInput(ad) /\ n = counter
  OBVIOUS
<1>2. Settled(ad, n) /\ c \in Conns
  BY <1>1, AdapterOfSettled, PipeParts
<1>3. Settled(f, n)
  BY <1>1, <1>2, NoInputSettled
<1>4. Loaded(f, n, 0)
  BY <1>3, SettledLoaded
<1>5. 0 \in Nat /\ Loaded(f, counter, 0) /\ Process(c, f)
  BY <1>1, <1>4 DEF Flush
<1> QED BY <1>2, <1>5, ProcessOK

LEMMA ReclaimKeeps ==
  ASSUME PipeIInv, NEW c, c \in Live, Reclaim(c)
  PROVE  PipeIInv'
<1>1. /\ adapters' = [x \in Live \ {c} |-> adapters[x]]
      /\ counter' = counter /\ origin' = origin /\ emitted' = emitted
  BY DEF Reclaim, Restrict
<1>2. PICK A, B, n : A = adapters /\ B = adapters' /\ n = counter
  OBVIOUS
<1>3. \A x \in DOMAIN B : x \in DOMAIN A /\ B[x] = A[x]
  BY <1>1, <1>2 DEF Live
<1>4. PipeOK(A, n, origin, emitted)
  BY <1>2 DEF PipeIInv
<1>5. PipeOK(B, n, origin, emitted)
  BY <1>3, <1>4 DEF PipeOK
<1> QED BY <1>1, <1>2, <1>5 DEF PipeIInv

LEMMA TickKeeps ==
  ASSUME PipeIInv, Tick
  PROVE  PipeIInv'
<1>1. PICK A, B, n, o, em : A = adapters /\ B = adapters' /\ n = counter /\ o = origin
                            /\ em = emitted
  OBVIOUS
<1>2. /\ B = [c \in DOMAIN A |-> Aged(A[c])]
      /\ counter' = n /\ origin' = o /\ emitted' = em
  BY <1>1 DEF Tick, Live
<1>3. PipeOK(A, n, o, em)
  BY <1>1 DEF PipeIInv
<1>4. ASSUME NEW c \in DOMAIN A PROVE Settled(B[c], n)
  <2>1. PICK ad, e : ad = A[c] /\ e = B[c]
    OBVIOUS
  <2>2. Settled(ad, n) /\ e = Aged(ad)
    BY <1>2, <1>3, <2>1 DEF PipeOK
  <2>3. Settled(e, n)
    BY <2>2, AgedSettled
  <2> QED BY <2>1, <2>3
<1>5. DOMAIN B = DOMAIN A
  BY <1>2
<1>6. PipeOK(B, n, o, em)
  BY <1>3, <1>4, <1>5 DEF PipeOK
<1> QED BY <1>1, <1>2, <1>6 DEF PipeIInv

LEMMA PipeNext == PipeIInv /\ [Next]_vars => PipeIInv'
<1> SUFFICES ASSUME PipeIInv, [Next]_vars PROVE PipeIInv'
  OBVIOUS
<1>1. CASE \E c \in Conns, d \in Datagrams : Feed(c, d)
  BY <1>1, FeedKeeps
<1>2. CASE \E c \in Live : Flush(c)
  BY <1>2, FlushKeeps
<1>3. CASE \E c \in Live : Reclaim(c)
  BY <1>3, ReclaimKeeps
<1>4. CASE Tick
  BY <1>4, TickKeeps
<1>5. CASE UNCHANGED vars
  BY <1>5 DEF PipeIInv, vars
<1> QED BY <1>1, <1>2, <1>3, <1>4, <1>5 DEF Next

LEMMA PipeStays == Spec => []PipeIInv
<1> QED BY PipeInit, PipeNext, PTL DEF Spec

\* The pipeline between any two calls: every adapter has its type, every number
\* its origin, no buffer ever took a number for a duplicate or an old one, less
\* than a TS packet is left over, in bare TS mode only, no group that could be
\* repaired waits, and every table and buffer is within its limit.
THEOREM PipelineCorrect == Spec => []PipelineInv
<1>1. ASSUME PipeIInv PROVE PipelineInv
  <2>1. /\ Live \subseteq Conns /\ counter \in Nat
        /\ \A c \in Live : Settled(adapters[c], counter)
        /\ Recorded(origin, counter)
        /\ emitted \subseteq 1 .. counter
    BY <1>1, PipeParts
  <2>2. counter = Len(origin)
    BY <2>1 DEF Recorded
  <2>3. PICK n : n = counter
    OBVIOUS
  <2>4. ASSUME NEW c \in Live
        PROVE  /\ IsAdapter(adapters[c])
               /\ adapters[c].rb.duplicate = 0 /\ adapters[c].rb.outOfOrder = 0
               /\ Len(adapters[c].input) < TsPacketSize
               /\ adapters[c].input # << >> => adapters[c].mode = "bare_ts"
               /\ Repaired(adapters[c].fm) = {}
               /\ Cardinality(Groups(adapters[c].fm)) <= MaxGroups
               /\ BufferSize(adapters[c].rb) <= MaxBufferSize
    <3>1. PICK ad, b, m : ad = adapters[c] /\ b = ad.rb /\ m = ad.fm
      OBVIOUS
    <3>2. Settled(ad, n)
      BY <2>1, <2>3, <3>1
    <3>3. IsAdapter(ad)
      BY <3>2, SettledIsAdapter
    <3>4. b.duplicate = 0 /\ b.outOfOrder = 0 /\ BufferSize(b) <= MaxBufferSize
      BY <3>1, <3>2 DEF Settled, Counting, Fits
    <3>5. Len(ad.input) < TsPacketSize /\ (ad.input # << >> => ad.mode = "bare_ts")
      BY <3>2 DEF Settled, Framed
    <3>6. AtRest(m)
      BY <3>1, <3>2 DEF Settled
    <3>7. Repaired(m) = {} /\ Cardinality(Groups(m)) <= MaxGroups
      BY <3>6, RepairedGroups DEF AtRest
    <3> QED BY <3>1, <3>3, <3>4, <3>5, <3>7
  <2>5. TypeOK
    BY <2>1, <2>2, <2>4 DEF TypeOK
  <2>6. NumbersFresh /\ LeftoverBounded /\ NothingWaits
    BY <2>4 DEF NumbersFresh, LeftoverBounded, NothingWaits
  <2> QED BY <2>5, <2>6 DEF PipelineInv
<1> QED BY <1>1, PipeStays, PTL

\* Only blocks that repair restored leave their place in a group: in the order
\* process_fec_groups numbers blocks, a received one precedes a higher index.
THEOREM OnlyRestoredMove == Spec => []OnlyRestoredOutOfTurn
<1>1. ASSUME PipeIInv PROVE OnlyRestoredOutOfTurn
  <2>1. Recorded(origin, counter)
    BY <1>1, PipeParts
  <2> QED BY <2>1 DEF Recorded, InTurn, OnlyRestoredOutOfTurn
<1> QED BY <1>1, PipeStays, PTL

-----------------------------------------------------------------------------
(* One connection: the numbers it takes are the numbers it waits for *)

\* With n numbers given out, everything has left the buffer.
CaughtUp(b, n) == Buffered(b) = {} /\ b.expected \in {0, n + 1}

\* The buffer x holds the first i fragments of a call, and nothing else.
Stacked(x, n, i, fr, z) ==
  /\ Counting(x, n + i)
  /\ x.expected = n + 1 \/ (i = 0 /\ x.expected = 0)
  /\ \A s : s \in Buffered(x) <=> s \in (n + 1) .. (n + i)
  /\ \A j \in 1 .. i : x.buffer[n + j] = fr[j]
  /\ BufferSize(x) <= i * z

\* The fragments of a call fit into an empty buffer.
FitsIn(fr, k, z) ==
  /\ z \in Nat /\ k \in Nat /\ k * z <= MaxBufferSize
  /\ \A j \in 1 .. k : fr[j] \in Fragment /\ fr[j].age = 0 /\ fr[j].size <= z

LEMMA OneMore ==
  ASSUME NEW i, NEW k, NEW z, i \in Nat, k \in Nat, z \in Nat, i + 1 <= k
  PROVE  i * z \in Nat /\ (i + 1) * z = i * z + z /\ i * z + z <= k * z
<1>1. PICK r \in Nat : k = (i + 1) + r
  <2>1. k - (i + 1) \in Nat /\ k = (i + 1) + (k - (i + 1))
    OBVIOUS
  <2> QED BY <2>1
<1>2. r * z \in Nat /\ i * z \in Nat
  OBVIOUS
<1>3. (i + 1) * z = i * z + z
  OBVIOUS
<1>4. k * z = (i + 1) * z + r * z
  BY <1>1
<1> QED BY <1>2, <1>3, <1>4

LEMMA StackOne ==
  ASSUME NEW x, NEW n, NEW i, NEW fr, NEW z, NEW k, NEW a, Stacked(x, n, i, fr, z), n \in Nat,
         i \in Nat, i + 1 <= k, FitsIn(fr, k, z), a = AddPacket(x, (n + i) + 1, fr[i + 1])
  PROVE  Stacked(a, n, i + 1, fr, z)
<1>1. PICK c, s, g : c = n + i /\ s = c + 1 /\ g = fr[i + 1]
  OBVIOUS
<1>2. /\ z \in Nat /\ k \in Nat /\ k * z <= MaxBufferSize
      /\ g \in Fragment /\ g.size <= z /\ g.size \in Nat
  BY <1>1 DEF FitsIn, Fragment
<1>3. /\ Counting(x, c) /\ c \in Nat /\ s \in Nat /\ a = AddPacket(x, c + 1, g)
      /\ BufferSize(x) <= i * z /\ s = n + (i + 1)
      /\ x.expected = n + 1 \/ (i = 0 /\ x.expected = 0)
  BY <1>1 DEF Stacked
<1>4. IsReorderBuffer(x)
  BY <1>3 DEF Counting
<1>5. BufferSize(x) \in Nat
  BY <1>4, BufferSizeType
<1>6. i * z \in Nat /\ (i + 1) * z = i * z + z /\ i * z + z <= k * z
  BY <1>2, OneMore
<1>7. k * z \in Nat
  BY <1>2
<1>8. ~IsFull(x, g)
  BY <1>2, <1>3, <1>5, <1>6, <1>7, ReorderConfigAssumption DEF IsFull
<1>9. a = [x EXCEPT !.total = @ + 1, !.expected = Anchor(x, c + 1),
                    !.buffer = Put(x.buffer, c + 1, g)]
  <2>1. Counting(x, c) /\ c \in Nat /\ g \in Fragment /\ a = AddPacket(x, c + 1, g)
    BY <1>2, <1>3
  <2>2. \/ /\ IsFull(x, g)
           /\ a = [x EXCEPT !.total = @ + 1, !.dropped = @ + 1]
        \/ /\ ~IsFull(x, g)
           /\ a = [x EXCEPT !.total = @ + 1, !.expected = Anchor(x, c + 1),
                            !.buffer = Put(x.buffer, c + 1, g)]
    BY <2>1, NextNumber, Zenon
  <2> QED BY <1>8, <2>2
<1>10. Counting(a, c + 1)
  BY <1>2, <1>3, NextCounts
<1>11. x = [buffer |-> x.buffer, expected |-> x.expected, total |-> x.total,
            duplicate |-> x.duplicate, dropped |-> x.dropped,
            outOfOrder |-> x.outOfOrder]
  BY <1>4, BufferFields
<1>12. a.buffer = Put(x.buffer, s, g) /\ a.expected = Anchor(x, s)
  <2>1. PICK y, w : y = Anchor(x, c + 1) /\ w = Put(x.buffer, c + 1, g)
    OBVIOUS
  <2>2. a = [x EXCEPT !.total = @ + 1, !.expected = y, !.buffer = w]
    BY <1>9, <2>1
  <2>3. a.buffer = w /\ a.expected = y
    BY <1>11, <2>2
  <2> QED BY <1>1, <2>1, <2>3
<1>13. \A t : t \in Buffered(x) <=> t \in (n + 1) .. (n + i)
  BY DEF Stacked
<1>14. a.expected = n + 1
  <2>1. CASE i = 0
    <3>1. Buffered(x) = {} /\ s = n + 1
      BY <1>3, <1>13, <2>1
    <3> QED BY <1>3, <1>12, <3>1 DEF Anchor
  <2>2. CASE i # 0
    <3>1. n + 1 \in Buffered(x)
      BY <1>13, <2>2
    <3> QED BY <1>3, <1>12, <2>2, <3>1 DEF Anchor
  <2> QED BY <2>1, <2>2
<1>15. /\ \A t : t \in Buffered(a) <=> (t \in Buffered(x) \/ t = s)
       /\ a.buffer[s] = g
       /\ \A t \in Buffered(x) : t # s => a.buffer[t] = x.buffer[t]
  BY <1>12 DEF Put, Buffered
<1>16. \A t : t \in Buffered(a) <=> t \in (n + 1) .. (n + (i + 1))
  BY <1>3, <1>13, <1>15
<1>17. ASSUME NEW j \in 1 .. (i + 1) PROVE a.buffer[n + j] = fr[j]
  <2>1. CASE j = i + 1
    BY <1>1, <1>3, <1>15, <2>1
  <2>2. CASE j # i + 1
    <3>1. j \in 1 .. i /\ n + j \in (n + 1) .. (n + i) /\ n + j # s
      BY <1>3, <2>2
    <3>2. n + j \in Buffered(x)
      BY <1>13, <3>1
    <3>3. a.buffer[n + j] = x.buffer[n + j]
      BY <1>15, <3>1, <3>2
    <3> QED BY <3>1, <3>3 DEF Stacked
  <2> QED BY <2>1, <2>2
<1>18. BufferSize(a) <= (i + 1) * z
  <2>1. IsReorderBuffer(a)
    BY <1>10 DEF Counting
  <2>2. s \notin Buffered(x)
    BY <1>3, <1>13
  <2>3. /\ s \in Buffered(a) /\ Buffered(a) \ {s} \subseteq Buffered(x)
        /\ \A t \in Buffered(a) \ {s} : a.buffer[t].size = x.buffer[t].size
    BY <1>15, <2>2
  <2>4. BufferSize(a) <= BufferSize(x) + a.buffer[s].size
    BY <1>4, <2>1, <2>3, SizeOfMore
  <2>5. BufferSize(a) \in Nat
    BY <2>1, BufferSizeType
  <2>6. a.buffer[s].size = g.size
    BY <1>15
  <2> QED BY <1>2, <1>3, <1>5, <1>6, <2>4, <2>5, <2>6
<1>19. Counting(a, n + (i + 1))
  BY <1>1, <1>3, <1>10
<1> QED BY <1>14, <1>16, <1>17, <1>18, <1>19 DEF Stacked

LEMMA StackStart ==
  ASSUME NEW b, NEW n, NEW fr, NEW z, Counting(b, n), CaughtUp(b, n), n \in Nat, z \in Nat
  PROVE  Stacked(b, n, 0, fr, z)
<1>1. Buffered(b) = {} /\ (b.expected = n + 1 \/ b.expected = 0)
  BY DEF CaughtUp
<1>2. BufferSize(b) = 0
  BY <1>1, EmptySize DEF Counting
<1>3. n + 0 = n /\ 0 * z = 0 /\ (n + 1) .. (n + 0) = {} /\ 1 .. 0 = {}
  OBVIOUS
<1> QED BY <1>1, <1>2, <1>3 DEF Stacked

LEMMA StackAll ==
  ASSUME NEW f, NEW b, NEW n, NEW fr, NEW k, NEW z, IsFill(f, b, n, fr, k), Counting(b, n),
         CaughtUp(b, n), n \in Nat, FitsIn(fr, k, z)
  PROVE  Stacked(f[k], n, k, fr, z)
<1>0. k \in Nat /\ z \in Nat
  BY DEF FitsIn
<1>1. PICK P : P = [i \in 0 .. k |-> {x \in Buffers : Stacked(x, n, i, fr, z)}]
  OBVIOUS
<1>2. \A i \in 0 .. k : \A x : x \in P[i] <=> Stacked(x, n, i, fr, z)
  <2>1. ASSUME NEW i \in 0 .. k, NEW x, Stacked(x, n, i, fr, z) PROVE x \in Buffers
    BY <2>1, InBuffers DEF Stacked, Counting
  <2> QED BY <1>1, <2>1
<1>3. f[0] \in P[0]
  <2>1. f[0] = b
    BY DEF IsFill
  <2>2. Stacked(b, n, 0, fr, z)
    BY <1>0, StackStart
  <2>3. 0 \in 0 .. k
    BY <1>0
  <2> QED BY <1>2, <2>1, <2>2, <2>3
<1>4. ASSUME NEW i \in 1 .. k, f[i - 1] \in P[i - 1] PROVE f[i] \in P[i]
  <2>1. PICK x, j, a : x = f[i - 1] /\ j = i - 1 /\ a = f[i]
    OBVIOUS
  <2>2. i - 1 \in 0 .. k /\ i \in 0 .. k /\ j \in Nat /\ j + 1 = i /\ (n + j) + 1 = n + i
        /\ j + 1 <= k
    BY <1>0, <2>1
  <2>3. Stacked(x, n, j, fr, z)
    BY <1>2, <1>4, <2>1, <2>2
  <2>4. a = AddPacket(x, (n + j) + 1, fr[j + 1])
    BY <2>1, <2>2 DEF IsFill
  <2>5. Stacked(a, n, j + 1, fr, z)
    BY <2>2, <2>3, <2>4, StackOne
  <2> QED BY <1>2, <2>1, <2>2, <2>5
<1>5. \A i \in 0 .. k : f[i] \in P[i]
  BY <1>0, <1>3, <1>4, AlongRun
<1>6. k \in 0 .. k
  BY <1>0
<1> QED BY <1>2, <1>5, <1>6

\* What is stacked is fresh and consecutive, so all of it is drained.
LEMMA StackDrained ==
  ASSUME NEW x, NEW n, NEW k, NEW fr, NEW z, NEW e, NEW a, Stacked(x, n, k, fr, z), n \in Nat,
         FitsIn(fr, k, z), e = StopOf(x), a = Drain(x, e)
  PROVE  /\ CaughtUp(a, n + k)
         /\ \A j \in 1 .. k : AlignedCount(fr[j]) > 0 => n + j \in Handed(x, e)
<1>0. k \in Nat /\ IsReorderBuffer(x)
  BY DEF FitsIn, Stacked, Counting
<1>1. e \in DrainEnds(x) /\ StopsAt(x, e)
  BY <1>0, StopExists
<1>2. /\ e \in Nat /\ e >= x.expected /\ a.expected = e
      /\ Buffered(a) = Buffered(x) \ (x.expected .. (e - 1))
  BY <1>0, <1>1, DrainResult
<1>3. /\ x.expected = n + 1 \/ (k = 0 /\ x.expected = 0)
      /\ \A s : s \in Buffered(x) <=> s \in (n + 1) .. (n + k)
  BY DEF Stacked
<1>4. e \notin Buffered(x) /\ \A s \in x.expected .. (e - 1) : s \in Buffered(x)
  BY <1>1 DEF StopsAt
<1>5. CASE x.expected = n + 1
  <2>1. e = (n + k) + 1
    <3>1. ASSUME e < (n + k) + 1 PROVE FALSE
      BY <1>0, <1>2, <1>3, <1>4, <1>5, <3>1
    <3>2. ASSUME e > (n + k) + 1 PROVE FALSE
      <4>1. (n + k) + 1 \in x.expected .. (e - 1)
        BY <1>0, <1>2, <1>5, <3>2
      <4> QED BY <1>0, <1>3, <1>4, <4>1
    <3> QED BY <1>0, <1>2, <3>1, <3>2
  <2>2. Buffered(a) = {}
    BY <1>0, <1>2, <1>3, <1>5, <2>1
  <2>3. ASSUME NEW j \in 1 .. k, AlignedCount(fr[j]) > 0 PROVE n + j \in Handed(x, e)
    <3>1. x.buffer[n + j] = fr[j] /\ n + j \in x.expected .. (e - 1)
      BY <1>0, <1>5, <2>1 DEF Stacked
    <3>2. fr[j] \in Fragment /\ fr[j].age = 0
      BY DEF FitsIn
    <3>3. ~Expired(fr[j])
      BY <3>2, ReorderConfigAssumption DEF Expired
    <3> QED BY <2>3, <3>1, <3>3 DEF Handed
  <2> QED BY <1>2, <2>1, <2>2, <2>3 DEF CaughtUp
<1>6. CASE k = 0 /\ x.expected = 0
  <2>1. \A s : s \notin Buffered(x)
    BY <1>3, <1>6
  <2>2. e = 0
    <3>1. ASSUME e > 0 PROVE FALSE
      <4>1. 0 \in x.expected .. (e - 1)
        BY <1>2, <1>6, <3>1
      <4> QED BY <1>4, <2>1, <4>1
    <3> QED BY <1>2, <3>1
  <2>3. Buffered(a) = {}
    BY <1>2, <2>1
  <2>4. 1 .. k = {}
    BY <1>6
  <2> QED BY <1>2, <2>2, <2>3, <2>4 DEF CaughtUp
<1> QED BY <1>3, <1>5, <1>6

LEMMA TakenStacks ==
  ASSUME NEW ad, NEW n, NEW sync, NEW b, NEW m, NEW list, NEW fr, NEW k, NEW z,
         Takes(ad, sync, b, m, list, fr, k), n \in Nat, Counting(b, n), CaughtUp(b, n),
         FitsIn(fr, k, z)
  PROVE  Stacked(Numbered(ad, n, sync), n, k, fr, z)
<1>1. IsReorderBuffer(b)
  BY DEF Counting
<1>2. PICK f : IsFill(f, b, n, fr, k) /\ Numbered(ad, n, sync) = f[k]
  BY <1>1, NumberedRun
<1>3. IsFill(f, b, n, fr, k)
  BY <1>2
<1>4. Stacked(f[k], n, k, fr, z)
  BY <1>3, StackAll
<1> QED BY <1>2, <1>4

\* A call on an adapter that has caught up stacks its fragments.
LEMMA NumberedStacks ==
  ASSUME NEW ad, NEW n, NEW g, NEW sync, NEW m, NEW list, NEW fr, NEW k, NEW z,
         Loaded(ad, n, g), n \in Nat, g \in Nat, m = ad.fm, list = Restored(m), k = Len(list),
         sync \in [RestoredIndices(m) -> SyncChoices],
         fr = [i \in 1 .. Len(list) |-> FragmentOf(m, list[i], sync)],
         Within(m, z), CaughtUp(ad.rb, n), z \in Nat, K * z <= MaxBufferSize
  PROVE  FitsIn(fr, k, z) /\ Stacked(Numbered(ad, n, sync), n, k, fr, z)
<1>1. PICK b : b = ad.rb
  OBVIOUS
<1>2. Awaits(m, g) /\ Counting(b, n) /\ CaughtUp(b, n)
  BY <1>1 DEF Loaded
<1>3. (Len(list) = 0 /\ list = << >>)
      \/ (Len(list) = K /\ g \in Repaired(m) /\ list = ListOf(m, g))
  BY <1>2, ListLength
<1>4. k \in Nat /\ k * z <= MaxBufferSize
  <2>1. CASE k = 0
    <3>1. k * z = 0
      BY <2>1
    <3> QED BY <2>1, <3>1, ReorderConfigAssumption
  <2>2. CASE k = K
    BY <2>2, FecConfigAssumption
  <2> QED BY <1>3, <2>1, <2>2
<1>5. \A i \in 1 .. Len(list) :
        fr[i] \in Fragment /\ fr[i].age = 0 /\ \A y : Within(m, y) => fr[i].size <= y
  BY <1>2, FragmentsTyped
<1>6. FitsIn(fr, k, z)
  BY <1>4, <1>5 DEF FitsIn
<1>7. Takes(ad, sync, b, m, list, fr, k)
  BY <1>1, <1>4, <1>5 DEF Takes
<1>8. Stacked(Numbered(ad, n, sync), n, k, fr, z)
  BY <1>2, <1>6, <1>7, TakenStacks
<1> QED BY <1>6, <1>8

\* What a call numbers is in its output if it holds a TS packet.
LEMMA ProcessEmits ==
  ASSUME NEW ad, NEW n, NEW g, NEW sync, NEW m, NEW list, NEW k, NEW z, NEW mid, NEW new,
         NEW os, Loaded(ad, n, g), n \in Nat, g \in Nat, m = ad.fm, list = Restored(m),
         k = Len(list), sync \in [RestoredIndices(m) -> SyncChoices],
         Within(m, z), CaughtUp(ad.rb, n), z \in Nat, K * z <= MaxBufferSize,
         mid = ProcessFecGroups(ad, n, sync), new = ProcessReorder(mid),
         os = OriginsOf(m, list, sync)
  PROVE  /\ CaughtUp(new.rb, n + k)
         /\ \A p \in 1 .. k : os[p].packets > 0 => n + p \in Handed(mid.rb, StopOf(mid.rb))
<1>1. PICK fr : fr = [i \in 1 .. Len(list) |-> FragmentOf(m, list[i], sync)]
  OBVIOUS
<1>2. FitsIn(fr, k, z) /\ Stacked(Numbered(ad, n, sync), n, k, fr, z)
  BY <1>1, NumberedStacks
<1>3. Framed(ad) /\ Awaits(m, g)
  BY DEF Loaded
<1>4. mid.rb = Numbered(ad, n, sync) /\ new.rb = Drain(mid.rb, StopOf(mid.rb))
  BY <1>3, ProcessFields
<1>5. PICK x, e, a : x = mid.rb /\ e = StopOf(x) /\ a = Drain(x, e)
  OBVIOUS
<1>6. Stacked(x, n, k, fr, z) /\ FitsIn(fr, k, z)
  BY <1>2, <1>4, <1>5
<1>7. /\ CaughtUp(a, n + k)
      /\ \A j \in 1 .. k : AlignedCount(fr[j]) > 0 => n + j \in Handed(x, e)
  BY <1>5, <1>6, StackDrained
<1>8. ASSUME NEW p \in 1 .. k PROVE os[p].packets = AlignedCount(fr[p])
  <2>1. p \in 1 .. Len(list)
    OBVIOUS
  <2>2. ComesFrom(os, p, m, g, list, sync)
    BY <1>3, <2>1, OriginFields
  <2>3. os[p].packets = AlignedCount(FragmentOf(m, list[p], sync))
    BY <2>2 DEF ComesFrom
  <2>4. fr[p] = FragmentOf(m, list[p], sync)
    BY <1>1, <2>1
  <2> QED BY <2>3, <2>4
<1> QED BY <1>4, <1>5, <1>7, <1>8

\* Every adapter has caught up, and all there is has been put out.
AloneOK(A, n, o, em, z) ==
  /\ \A x \in DOMAIN A : Within(A[x].fm, z) /\ CaughtUp(A[x].rb, n)
  /\ \A s \in 1 .. n : o[s].packets > 0 => s \in em

AloneInv(z) == AloneOK(adapters, counter, origin, emitted, z)

LEMMA AdapterOfAlone ==
  ASSUME NEW c, NEW z, AloneInv(z), PipeIInv
  PROVE  Within(AdapterOf(c).fm, z) /\ CaughtUp(AdapterOf(c).rb, counter)
<1>1. CASE c \in Live
  BY <1>1 DEF AdapterOf, AloneInv, AloneOK, Live
<1>2. CASE c \notin Live
  <2>1. PICK a, b, m, n : a = NewAdapter /\ b = a.rb /\ m = a.fm /\ n = counter
    OBVIOUS
  <2>2. b = NewReorderBuffer /\ m = NewFecManager
    BY <2>1 DEF NewAdapter
  <2>3. n \in Nat
    BY <2>1, PipeParts
  <2>4. Buffered(b) = {} /\ b.expected = 0
    BY <2>2, <2>3, NewBufferCounts
  <2>5. Within(m, z)
    BY <2>2 DEF Within, NewFecManager, Groups
  <2> QED BY <1>2, <2>1, <2>4, <2>5 DEF AdapterOf, CaughtUp
<1> QED BY <1>1, <1>2

LEMMA SetAdapterAlone ==
  ASSUME NEW c, NEW ad, NEW z, PipeIInv, AloneInv(z), Conns = {c}, Within(ad.fm, z),
         CaughtUp(ad.rb, counter), SetAdapter(c, ad), UNCHANGED <<counter, origin, emitted>>
  PROVE  AloneInv(z)'
<1>1. PICK A, n, o, em, B : A = adapters /\ n = counter /\ o = origin /\ em = emitted
                            /\ B = adapters'
  OBVIOUS
<1>2. AloneOK(A, n, o, em, z) /\ DOMAIN A \subseteq {c}
  BY <1>1, PipeParts DEF AloneInv, Live
<1>3. B = Replaced(A, c, ad)
  BY <1>1 DEF SetAdapter, Replaced, Live
<1>4. \A x \in DOMAIN B : B[x] = ad
  BY <1>2, <1>3 DEF Replaced
<1>5. AloneOK(B, n, o, em, z)
  BY <1>1, <1>2, <1>4 DEF AloneOK
<1> QED BY <1>1, <1>5 DEF AloneInv

LEMMA ProcessAlone ==
  ASSUME NEW c, NEW ad, NEW g, NEW z, PipeIInv, AloneInv(z), Conns = {c}, g \in Nat,
         Loaded(ad, counter, g), Within(ad.fm, z), CaughtUp(ad.rb, counter), z \in Nat,
         K * z <= MaxBufferSize, Process(c, ad)
  PROVE  AloneInv(z)'
<1>1. PICK A, n, o, em, B : A = adapters /\ n = counter /\ o = origin /\ em = emitted
                            /\ B = adapters'
  OBVIOUS
<1>2. PICK m, list : m = ad.fm /\ list = Restored(m)
  OBVIOUS
<1>3. PICK sync \in [RestoredIndices(m) -> SyncChoices] :
        LET mid == ProcessFecGroups(ad, counter, sync)
        IN  /\ SetAdapter(c, ProcessReorder(mid))
            /\ counter' = counter + Len(list)
            /\ origin' = origin \o OriginsOf(m, list, sync)
            /\ emitted' = emitted \cup Handed(mid.rb, StopOf(mid.rb))
  BY <1>2 DEF Process, OriginsOf
<1>4. PICK mid, new, k, os, all :
        /\ mid = ProcessFecGroups(ad, n, sync) /\ new = ProcessReorder(mid)
        /\ k = Len(list) /\ os = OriginsOf(m, list, sync) /\ all = o \o os
  OBVIOUS
<1>5. PICK H : H = Handed(mid.rb, StopOf(mid.rb))
  OBVIOUS
<1>6. SetAdapter(c, new) /\ counter' = n + k /\ origin' = all /\ emitted' = em \cup H
  BY <1>1, <1>3, <1>4, <1>5
<1>7. /\ AloneOK(A, n, o, em, z) /\ Loaded(ad, n, g) /\ Awaits(m, g)
      /\ CaughtUp(ad.rb, n) /\ Within(m, z)
  BY <1>1, <1>2 DEF AloneInv, Loaded
<1>8. n \in Nat /\ Recorded(o, n) /\ DOMAIN A \subseteq {c}
  BY <1>1, PipeParts DEF Live
<1>9. /\ CaughtUp(new.rb, n + k)
      /\ \A p \in 1 .. k : os[p].packets > 0 => n + p \in Handed(mid.rb, StopOf(mid.rb))
  BY <1>2, <1>4, <1>7, <1>8, ProcessEmits
<1>10. Within(new.fm, z)
  <2>1. sync \in [RestoredIndices(ad.fm) -> SyncChoices] /\ k = Len(Restored(ad.fm))
    BY <1>2, <1>3, <1>4
  <2>2. \A y : Within(ad.fm, y) => Within(new.fm, y)
    BY <1>4, <1>7, <1>8, <2>1, ProcessSettles
  <2> QED BY <2>2
<1>11. os \in Seq(Origin) /\ Len(os) = Len(list)
  BY <1>2, <1>4, <1>7, OriginsType
<1>12. o \in Seq(Origin) /\ n = Len(o) /\ k = Len(os)
  BY <1>4, <1>8, <1>11 DEF Recorded
<1>13. /\ n \in Nat /\ k \in Nat
       /\ \A s \in 1 .. n : all[s] = o[s]
       /\ \A p \in 1 .. k : all[n + p] = os[p]
  BY <1>4, <1>11, <1>12, Appended
<1>14. ASSUME NEW s \in 1 .. (n + k), all[s].packets > 0 PROVE s \in em \cup H
  <2>1. CASE s <= n
    BY <1>7, <1>13, <1>14, <2>1 DEF AloneOK
  <2>2. CASE ~(s <= n)
    <3>1. PICK p \in 1 .. k : s = n + p
      <4>1. s - n \in 1 .. k /\ s = n + (s - n)
        BY <1>13, <2>2
      <4> QED BY <4>1
    <3>2. os[p].packets > 0
      BY <1>13, <1>14, <3>1
    <3> QED BY <1>5, <1>9, <3>1, <3>2
  <2> QED BY <2>1, <2>2
<1>15. B = Replaced(A, c, new)
  BY <1>1, <1>6 DEF SetAdapter, Replaced, Live
<1>16. \A x \in DOMAIN B : B[x] = new
  BY <1>8, <1>15 DEF Replaced
<1>17. AloneOK(B, n + k, all, em \cup H, z)
  BY <1>9, <1>10, <1>14, <1>16 DEF AloneOK
<1> QED BY <1>1, <1>6, <1>17 DEF AloneInv

LEMMA FeedAlone ==
  ASSUME NEW x, NEW z, PipeIInv, AloneInv(z), Conns = {x}, z \in Nat,
         K * z <= MaxBufferSize, NEW c, NEW d, c \in Conns, d \in Datagrams,
         d.block.size <= z, Feed(c, d)
  PROVE  AloneInv(z)'
<1>0. Conns = {c}
  OBVIOUS
<1>1. PICK ad, e, n : ad = AdapterOf(c) /\ e = DetectedFor(ad, d) /\ n = counter
  OBVIOUS
<1>2. /\ Settled(ad, n) /\ n \in Nat /\ d \in Datagram
      /\ Within(ad.fm, z) /\ CaughtUp(ad.rb, n)
  BY <1>1, AdapterOfSettled, AdapterOfAlone, PipeParts, PipelineAssumption
<1>3. Settled(e, n) /\ e.fm = ad.fm /\ e.rb = ad.rb
  BY <1>1, <1>2, DetectedSettled
<1>4. Within(e.fm, z) /\ CaughtUp(e.rb, n)
  BY <1>2, <1>3
<1>5. e = Detected(c, d)
  BY <1>1 DEF DetectedFor, Detected
<1>6. CASE FeedBareTs(c, d)
  <2>1. PICK f : f = BareTs(e, d)
    OBVIOUS
  <2>2. e.mode = "bare_ts" /\ Process(c, f)
    BY <1>5, <1>6, <2>1 DEF FeedBareTs
  <2>3. Settled(f, n) /\ f.fm = e.fm /\ f.rb = e.rb
    BY <1>2, <1>3, <2>1, <2>2, BareTsSettled
  <2>4. Loaded(f, n, 0)
    BY <2>3, SettledLoaded
  <2>5. /\ 0 \in Nat /\ Loaded(f, counter, 0) /\ Within(f.fm, z)
        /\ CaughtUp(f.rb, counter)
    BY <1>1, <1>4, <2>3, <2>4
  <2> QED BY <1>0, <2>2, <2>5, ProcessAlone
<1>7. CASE FeedIgnored(c, d)
  <2>1. SetAdapter(c, e) /\ CaughtUp(e.rb, counter) /\ UNCHANGED <<counter, origin, emitted>>
    BY <1>1, <1>4, <1>5, <1>7 DEF FeedIgnored
  <2> QED BY <1>0, <1>4, <2>1, SetAdapterAlone
<1>8. CASE FeedRejected(c, d)
  <2>1. PICK f : f = TakeBlock(e, d)
    OBVIOUS
  <2>2. /\ Rejected(e, d) /\ SetAdapter(c, f)
        /\ UNCHANGED <<counter, origin, emitted>>
    BY <1>5, <1>8, <2>1 DEF FeedRejected
  <2>3. f.rb = e.rb /\ \A y : Within(e.fm, y) => Within(f.fm, y)
    BY <1>2, <1>3, <2>1, <2>2, TakeRejected
  <2>4. CaughtUp(f.rb, counter) /\ Within(f.fm, z)
    BY <1>1, <1>4, <2>3
  <2> QED BY <1>0, <2>2, <2>4, SetAdapterAlone
<1>9. CASE FeedBlock(c, d)
  <2>1. PICK f, g : f = TakeBlock(e, d) /\ g = d.group
    OBVIOUS
  <2>2. ~Rejected(e, d) /\ Process(c, f)
    BY <1>5, <1>9, <2>1 DEF FeedBlock
  <2>3. /\ Loaded(f, n, d.group) /\ f.rb = e.rb
        /\ \A y : Within(e.fm, y) /\ d.block.size <= y => Within(f.fm, y)
    BY <1>2, <1>3, <2>1, <2>2, TakeLoaded
  <2>4. /\ g \in Nat /\ Loaded(f, counter, g) /\ Within(f.fm, z)
        /\ CaughtUp(f.rb, counter)
    BY <1>1, <1>2, <1>4, <2>1, <2>3, DatagramFields
  <2> QED BY <1>0, <2>2, <2>4, ProcessAlone
<1> QED BY <1>6, <1>7, <1>8, <1>9 DEF Feed

LEMMA FlushAlone ==
  ASSUME NEW x, NEW z, PipeIInv, AloneInv(z), Conns = {x}, z \in Nat,
         K * z <= MaxBufferSize, NEW c, c \in Live, Flush(c)
  PROVE  AloneInv(z)'
<1>0. Conns = {c}
  BY PipeParts
<1>1. PICK ad, f, n : ad = AdapterOf(c) /\ f = NoInput(ad) /\ n = counter
  OBVIOUS
<1>2. Settled(ad, n) /\ Within(ad.fm, z) /\ CaughtUp(ad.rb, n)
  BY <1>1, AdapterOfSettled, AdapterOfAlone
<1>3. Settled(f, n) /\ f.fm = ad.fm /\ f.rb = ad.rb
  BY <1>1, <1>2, NoInputSettled
<1>4. Loaded(f, n, 0)
  BY <1>3, SettledLoaded
<1>5. /\ 0 \in Nat /\ Loaded(f, counter, 0) /\ Process(c, f) /\ Within(f.fm, z)
      /\ CaughtUp(f.rb, counter)
  BY <1>1, <1>2, <1>3, <1>4 DEF Flush
<1> QED BY <1>0, <1>5, ProcessAlone

LEMMA ReclaimAlone ==
  ASSUME NEW z, AloneInv(z), NEW c, c \in Live, Reclaim(c)
  PROVE  AloneInv(z)'
<1>1. /\ adapters' = [x \in Live \ {c} |-> adapters[x]]
      /\ counter' = counter /\ origin' = origin /\ emitted' = emitted
  BY DEF Reclaim, Restrict
<1>2. PICK A, B, n, o, em : A = adapters /\ B = adapters' /\ n = counter /\ o = origin
                            /\ em = emitted
  OBVIOUS
<1>3. \A x \in DOMAIN B : x \in DOMAIN A /\ B[x] = A[x]
  BY <1>1, <1>2 DEF Live
<1>4. AloneOK(A, n, o, em, z)
  BY <1>2 DEF AloneInv
<1>5. AloneOK(B, n, o, em, z)
  BY <1>3, <1>4 DEF AloneOK
<1> QED BY <1>1, <1>2, <1>5 DEF AloneInv

LEMMA TickAlone ==
  ASSUME NEW z, PipeIInv, AloneInv(z), Tick
  PROVE  AloneInv(z)'
<1>1. PICK A, B, n, o, em : A = adapters /\ B = adapters' /\ n = counter /\ o = origin
                            /\ em = emitted
  OBVIOUS
<1>2. /\ B = [c \in DOMAIN A |-> Aged(A[c])]
      /\ counter' = n /\ origin' = o /\ emitted' = em
  BY <1>1 DEF Tick, Live
<1>3. PipeOK(A, n, o, em) /\ AloneOK(A, n, o, em, z)
  BY <1>1 DEF PipeIInv, AloneInv
<1>4. ASSUME NEW c \in DOMAIN A PROVE Within(B[c].fm, z) /\ CaughtUp(B[c].rb, n)
  <2>1. PICK ad, e : ad = A[c] /\ e = B[c]
    OBVIOUS
  <2>2. Settled(ad, n) /\ e = Aged(ad)
    BY <1>2, <1>3, <2>1 DEF PipeOK
  <2>3. /\ \A y : Within(ad.fm, y) => Within(e.fm, y)
        /\ Buffered(e.rb) = Buffered(ad.rb) /\ e.rb.expected = ad.rb.expected
    BY <2>2, AgedSettled
  <2>4. Within(ad.fm, z) /\ CaughtUp(ad.rb, n)
    BY <1>3, <2>1 DEF AloneOK
  <2> QED BY <2>1, <2>3, <2>4 DEF CaughtUp
<1>5. DOMAIN B = DOMAIN A
  BY <1>2
<1>6. AloneOK(B, n, o, em, z)
  BY <1>3, <1>4, <1>5 DEF AloneOK
<1> QED BY <1>1, <1>2, <1>6 DEF AloneInv

LEMMA AloneInit ==
  ASSUME NEW z
  PROVE  Init => AloneInv(z)
<1> SUFFICES ASSUME Init PROVE AloneInv(z)
  OBVIOUS
<1>1. DOMAIN adapters = {} /\ counter = 0
  BY DEF Init
<1> QED BY <1>1 DEF AloneInv, AloneOK

LEMMA AloneNext ==
  ASSUME NEW x, NEW z, Conns = {x}, z \in Nat, K * z <= MaxBufferSize,
         \A d \in Datagrams : d.block.size <= z
  PROVE  PipeIInv /\ AloneInv(z) /\ [Next]_vars => AloneInv(z)'
<1> SUFFICES ASSUME PipeIInv, AloneInv(z), [Next]_vars PROVE AloneInv(z)'
  OBVIOUS
<1>1. CASE \E c \in Conns, d \in Datagrams : Feed(c, d)
  <2>1. PICK c, d : c \in Conns /\ d \in Datagrams /\ Feed(c, d)
    BY <1>1
  <2>2. d.block.size <= z
    BY <2>1
  <2> QED BY <2>1, <2>2, FeedAlone
<1>2. CASE \E c \in Live : Flush(c)
  BY <1>2, FlushAlone
<1>3. CASE \E c \in Live : Reclaim(c)
  BY <1>3, ReclaimAlone
<1>4. CASE Tick
  BY <1>4, TickAlone
<1>5. CASE UNCHANGED vars
  BY <1>5 DEF AloneInv, vars
<1> QED BY <1>1, <1>2, <1>3, <1>4, <1>5 DEF Next

\* With one connection, and a reorder buffer that holds a group of the blocks its
\* client sends, feed puts out everything a group yields in the call that
\* completes it, for every k and n, repair, expiry and re-creation of the adapter.
THEOREM NothingLostAlone ==
  ASSUME NEW x, Conns = {x}, GroupFits
  PROVE  Spec => []NothingLost
<1>1. PICK z \in Nat : K * z <= MaxBufferSize /\ \A d \in Datagrams : d.block.size <= z
  BY DEF GroupFits
<1>2. Init => AloneInv(z)
  BY AloneInit
<1>3. PipeIInv /\ AloneInv(z) /\ [Next]_vars => AloneInv(z)'
  BY <1>1, AloneNext
<1>4. AloneInv(z) => NothingLost
  BY DEF AloneInv, AloneOK, NothingLost
<1> QED BY <1>2, <1>3, <1>4, PipeStays, PTL DEF Spec
=============================================================================
