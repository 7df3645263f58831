---------------------------- MODULE StoresProofs ----------------------------
(* Proof that the flat and the IVF index implement a plain store of rows, and *)
(* that the indexes with codes do while they are there; and that a search of *)
(* any of them returns the best rows by the definition.  For every corpus,   *)
(* every change set and every number of processes.                           *)
EXTENDS Stores, FiniteSetTheorems, WellFoundedInduction, TLAPS

-----------------------------------------------------------------------------
(* The inductive invariant.                                                *)

Kinds == {"none", "flat", "ivf", "pq", "ivf_pq"}

Tombs == {Nil} \cup SUBSET Row

\* Every position holds a row of its own.
Mapped(v, map) ==
    /\ v \in [DOMAIN map -> Vector]
    /\ map \in [DOMAIN map -> Row]
    /\ \A p, o \in DOMAIN map : map[p] = map[o] => p = o

\* Positions are rows until Compact; then the map gives every position a row
\* of its own, nothing is deleted, and no change follows.
FlatInv ==
    /\ deleted \in Tombs
    /\ IF idMap = Nil THEN vectors \in [Row -> Vector] /\ nOrig \in {Nil, N}
       ELSE /\ Mapped(vectors, idMap)
            /\ deleted = Nil /\ nOrig = N
            /\ stage \in {"compacted", "saving", "done"}

IvfInv ==
    /\ deleted \in Tombs
    /\ vectors \in [Row -> Vector]
    /\ lists \in [List -> Seq(Row)]

\* A file that is being written holds what the index holds.
SaveInv ==
    /\ kind \in {"flat", "ivf"} /\ file # Nil
    /\ file.index = kind /\ ~file.whole
    /\ Kept(file.content) = Contents

StoreInv ==
    /\ kind \in Kinds
    /\ file \in Files \cup {Nil}
    /\ kind = "none" => vectors = Nil /\ stage = "done"
    /\ kind = "flat" => FlatInv
    /\ kind = "ivf" => IvfInv
    /\ kind \in {"pq", "ivf_pq"} => vectors \in [Row -> Vector] /\ stage = "ready"
    /\ stage = "saving" => SaveInv

-----------------------------------------------------------------------------
(* Induction, in the form that needs no operator.                          *)

LEMMA LeastNat ==
    ASSUME NEW T \in SUBSET Nat, T # {}
    PROVE  \E x \in T : \A y \in T : x <= y
<1> DEFINE R == {ss \in Nat \X Nat : ss[1] < ss[2]}
<1>1. IsWellFoundedOn(R, Nat)
  BY NatLessThanWellFounded DEF OpToRel
<1>2. PICK x \in T : \A y \in T : ~ (<<y, x>> \in R)
  <2> HIDE DEF R
  <2> QED BY <1>1, WFMin
<1>3. ASSUME NEW y \in T, y < x PROVE FALSE
  <2>1. <<y, x>> \in R
    BY <1>3
  <2> QED BY <1>2, <2>1
<1> QED BY <1>2, <1>3

LEMMA SetInduction ==
    ASSUME NEW S \in SUBSET Nat, 0 \in S, \A i \in S : i + 1 \in S
    PROVE  S = Nat
<1>1. SUFFICES ASSUME Nat \ S # {} PROVE FALSE
  OBVIOUS
<1>2. PICK x \in Nat \ S : \A y \in Nat \ S : x <= y
  BY <1>1, LeastNat
<1>3. x # 0 /\ x - 1 \in Nat
  OBVIOUS
<1>4. x - 1 \in S
  BY <1>2, <1>3
<1> QED BY <1>4, <1>3

-----------------------------------------------------------------------------
(* Scores and centers.                                                     *)

\* The sums of the first values of f.
Partial(s, f, m) ==
    /\ s \in [0 .. m -> Int] /\ s[0] = 0
    /\ \A i \in 0 .. m : i < m => s[i + 1] = s[i] + f[i + 1]

LEMMA SumIs ==
    ASSUME NEW m \in Nat, NEW f \in [1 .. m -> Int]
    PROVE  \E s : Partial(s, f, m) /\ SumOf(f) = s[m]
<1> DEFINE Sums(g, k) == [i \in 0 .. k |-> IF i = 0 THEN 0 ELSE g[i - 1] + f[i]]
           Summed(k) == \E g \in [0 .. k -> Int] : g = Sums(g, k)
           T == {k \in Nat : k <= m => Summed(k)}
<1>1. 0 \in T
  <2>1. [i \in 0 .. 0 |-> 0] \in [0 .. 0 -> Int]
    OBVIOUS
  <2>2. [i \in 0 .. 0 |-> 0] = Sums([i \in 0 .. 0 |-> 0], 0)
    OBVIOUS
  <2> QED BY <2>1, <2>2
<1>2. ASSUME NEW k \in T PROVE k + 1 \in T
  <2>1. SUFFICES ASSUME k + 1 <= m PROVE Summed(k + 1)
    <3> HIDE DEF Summed
    <3> QED OBVIOUS
  <2>2a. Summed(k)
    <3> HIDE DEF Summed
    <3> QED BY <2>1
  <2>2. PICK g \in [0 .. k -> Int] : g = Sums(g, k)
    BY <2>2a
  <2> DEFINE h == [i \in 0 .. k + 1 |-> IF i <= k THEN g[i] ELSE g[k] + f[k + 1]]
  <2>3. f[k + 1] \in Int /\ g[k] \in Int
    BY <2>1
  <2>4. h \in [0 .. k + 1 -> Int]
    BY <2>3
  <2>5. ASSUME NEW i \in 0 .. k + 1 PROVE h[i] = Sums(h, k + 1)[i]
    <3>1. CASE i = 0
      <4>1. g[0] = 0
        BY <2>2
      <4> QED BY <3>1, <4>1
    <3>2. CASE i # 0 /\ i <= k
      <4>1. g[i] = g[i - 1] + f[i]
        BY <2>2, <3>2
      <4>2. i - 1 \in 0 .. k + 1 /\ i - 1 <= k
        BY <3>2
      <4> QED BY <3>2, <4>1, <4>2
    <3>3. CASE i = k + 1
      <4>1. k \in 0 .. k + 1 /\ i - 1 = k /\ ~(i <= k) /\ i # 0
        BY <3>3
      <4> QED BY <3>3, <4>1
    <3> QED BY <3>1, <3>2, <3>3
  <2>6. h = Sums(h, k + 1)
    BY <2>4, <2>5
  <2> QED BY <2>4, <2>6
<1>3. T = Nat
  <2> HIDE DEF T
  <2>1. T \in SUBSET Nat
    BY DEF T
  <2> QED BY <1>1, <1>2, <2>1, SetInduction
<1>4. Summed(m)
  <2> HIDE DEF Summed
  <2> QED BY <1>3
<1>5. Len(f) = m
  OBVIOUS
<1> DEFINE s == CHOOSE h : h = Sums(h, m)
<1>6. s = Sums(s, m)
  BY <1>4
<1>7. SumOf(f) = s[m]
  BY <1>5 DEF SumOf
<1>8. s[0] = 0 /\ \A i \in 0 .. m : i < m => s[i + 1] = s[i] + f[i + 1]
  <2> HIDE DEF s
  <2>1. s[0] = 0
    BY <1>6
  <2>2. ASSUME NEW i \in 0 .. m, i < m PROVE s[i + 1] = s[i] + f[i + 1]
    <3>1. i + 1 \in 0 .. m /\ i + 1 # 0 /\ (i + 1) - 1 = i
      BY <2>2
    <3> QED BY <1>6, <3>1
  <2> QED BY <2>1, <2>2
<1> DEFINE U == {k \in Nat : k <= m => s[k] \in Int}
<1>9. 0 \in U
  <2> HIDE DEF s
  <2> QED BY <1>8
<1>10. ASSUME NEW k \in U PROVE k + 1 \in U
  <2> HIDE DEF s
  <2>1. SUFFICES ASSUME k + 1 <= m PROVE s[k + 1] \in Int
    OBVIOUS
  <2>2. s[k + 1] = s[k] + f[k + 1]
    BY <1>8, <2>1
  <2> QED BY <2>1, <2>2
<1>11. U = Nat
  <2> HIDE DEF U
  <2>1. U \in SUBSET Nat
    BY DEF U
  <2> QED BY <1>9, <1>10, <2>1, SetInduction
<1>12. s \in [0 .. m -> Int]
  <2>1. \A i \in 0 .. m : s[i] \in Int
    <3> HIDE DEF s
    <3> QED BY <1>11
  <2>2. s = [i \in 0 .. m |-> s[i]]
    <3> HIDE DEF s
    <3> QED BY <1>6
  <2> HIDE DEF s
  <2> QED BY <2>1, <2>2
<1> HIDE DEF s
<1> QED BY <1>7, <1>8, <1>12 DEF Partial

LEMMA SumType ==
    ASSUME NEW m \in Nat, NEW f \in [1 .. m -> Int]
    PROVE  SumOf(f) \in Int
<1>1. PICK s : Partial(s, f, m) /\ SumOf(f) = s[m]
  BY SumIs
<1> QED BY <1>1 DEF Partial

LEMMA DotType ==
    ASSUME NEW a \in Vector, NEW b \in Vector
    PROVE  Dot(a, b) \in Int
<1>1. Dim \in Nat
  BY CorpusAssumption
<1> DEFINE f == [j \in 1 .. Dim |-> a[j] * b[j]]
<1>2. f \in [1 .. Dim -> Int]
  BY DEF Vector
<1>3. SumOf(f) \in Int
  <2> HIDE DEF f
  <2> QED BY <1>1, <1>2, SumType
<1> QED BY <1>3 DEF Dot

LEMMA BestExists ==
    ASSUME NEW m \in Nat, NEW s \in [0 .. m -> Int]
    PROVE  \E c \in 0 .. m : \A d \in 0 .. m :
               s[d] < s[c] \/ (s[d] = s[c] /\ c <= d)
<1> DEFINE Beats(c, d) == s[d] < s[c] \/ (s[d] = s[c] /\ c <= d)
           First(k) == \E c \in 0 .. k : \A d \in 0 .. k : Beats(c, d)
           T == {k \in Nat : k <= m => First(k)}
<1>1. 0 \in T
  <2>1. \A d \in 0 .. 0 : Beats(0, d)
    OBVIOUS
  <2>2. First(0)
    BY <2>1
  <2> HIDE DEF First
  <2> QED BY <2>2
<1>2. ASSUME NEW k \in T PROVE k + 1 \in T
  <2>1. SUFFICES ASSUME k + 1 <= m PROVE First(k + 1)
    <3> HIDE DEF First
    <3> QED OBVIOUS
  <2>2. k \in Nat
    OBVIOUS
  <2>3. PICK c \in 0 .. k : \A d \in 0 .. k : Beats(c, d)
    BY <2>1
  <2>4. CASE s[k + 1] > s[c]
    <3>1. ASSUME NEW d \in 0 .. k + 1 PROVE Beats(k + 1, d)
      <4>1. d \in 0 .. k \/ d = k + 1
        BY <2>2
      <4>2. s[d] \in Int /\ s[c] \in Int /\ s[k + 1] \in Int
        BY <2>1, <2>2
      <4>3. CASE d = k + 1
        BY <4>2, <4>3
      <4>4. CASE d \in 0 .. k
        <5>1. Beats(c, d)
          BY <4>4, <2>3
        <5> QED BY <5>1, <4>2, <2>4
      <4> QED BY <4>1, <4>3, <4>4
    <3>2. k + 1 \in 0 .. k + 1
      BY <2>2
    <3> HIDE DEF Beats
    <3> QED BY <3>1, <3>2
  <2>5. CASE ~ (s[k + 1] > s[c])
    <3>1. ASSUME NEW d \in 0 .. k + 1 PROVE Beats(c, d)
      <4>1. d \in 0 .. k \/ d = k + 1
        BY <2>2
      <4>2. s[d] \in Int /\ s[c] \in Int /\ s[k + 1] \in Int
        BY <2>1, <2>2
      <4>3. CASE d = k + 1
        BY <4>2, <4>3, <2>5, <2>2
      <4> QED BY <4>1, <4>3, <2>3
    <3>2. c \in 0 .. k + 1
      BY <2>2
    <3> HIDE DEF Beats
    <3> QED BY <3>1, <3>2
  <2> QED BY <2>4, <2>5
<1>3. T = Nat
  <2> HIDE DEF T
  <2>1. T \in SUBSET Nat
    BY DEF T
  <2> QED BY <1>1, <1>2, <2>1, SetInduction
<1>4. First(m)
  <2> HIDE DEF First
  <2> QED BY <1>3
<1> QED BY <1>4

\* Every vector has a best center.
LEMMA BestCenterType ==
    ASSUME NEW v \in Vector
    PROVE  BestCenter(v) \in List
<1>1. NList - 1 \in Nat /\ List = 0 .. NList - 1
  BY CentersAssumption DEF List
<1> DEFINE s == [c \in List |-> Dot(v, Centers[c])]
<1>2. s \in [0 .. NList - 1 -> Int]
  BY <1>1, DotType, CentersAssumption
<1>3. \E c \in List : \A d \in List : s[d] < s[c] \/ (s[d] = s[c] /\ c <= d)
  <2> HIDE DEF s
  <2> QED BY <1>1, <1>2, BestExists
<1>4. \E c \in List : \A d \in List :
        \/ Dot(v, Centers[d]) < Dot(v, Centers[c])
        \/ Dot(v, Centers[d]) = Dot(v, Centers[c]) /\ c <= d
  BY <1>3
<1> QED BY <1>4 DEF BestCenter

-----------------------------------------------------------------------------
(* Sets of rows in order.                                                  *)

LEMMA RowSets ==
    ASSUME NEW S \in SUBSET Row
    PROVE  IsFiniteSet(S) /\ Cardinality(S) \in 0 .. N
<1>1. N \in Nat
  BY CorpusAssumption
<1>2. IsFiniteSet(Row) /\ Cardinality(Row) = N
  BY <1>1, FS_Interval DEF Row
<1>3. IsFiniteSet(S) /\ Cardinality(S) <= N
  BY <1>2, FS_Subset
<1>4. Cardinality(S) \in Nat
  BY <1>3, FS_CardinalityType
<1> QED BY <1>1, <1>3, <1>4

\* A total order on a finite set, given by what is below each member.
IsOrder(below, P) ==
    /\ IsFiniteSet(P) /\ below \in [P -> SUBSET P]
    /\ \A x \in P : x \notin below[x]
    /\ \A x, y \in P : x \in below[y] => below[x] \subseteq below[y]
    /\ \A x, y \in P : x # y => x \in below[y] \/ y \in below[x]

Ranks(below, P) == [x \in P |-> Cardinality(below[x])]

\* No two members have the same rank, and every rank below the size is taken.
IsRanking(rank, P) ==
    /\ Cardinality(P) \in Nat
    /\ rank \in [P -> 0 .. Cardinality(P) - 1]
    /\ \A x, z \in P : rank[x] = rank[z] => x = z
    /\ \A i \in 0 .. Cardinality(P) - 1 : \E x \in P : rank[x] = i

LEMMA OrderRanks ==
    ASSUME NEW P, NEW below, IsOrder(below, P)
    PROVE  /\ IsRanking(Ranks(below, P), P)
           /\ \A x, z \in P :
                 x \in below[z] => Ranks(below, P)[x] < Ranks(below, P)[z]
<1>0. /\ IsFiniteSet(P) /\ below \in [P -> SUBSET P]
      /\ \A x \in P : x \notin below[x]
      /\ \A x, y \in P : x \in below[y] => below[x] \subseteq below[y]
      /\ \A x, y \in P : x # y => x \in below[y] \/ y \in below[x]
  BY DEF IsOrder
<1>r. PICK rank : rank = Ranks(below, P)
  OBVIOUS
<1> DEFINE c == Cardinality(P)
<1>1. c \in Nat
  BY <1>0, FS_CardinalityType
<1>2. ASSUME NEW x \in P
      PROVE  IsFiniteSet(below[x]) /\ rank[x] = Cardinality(below[x])
               /\ rank[x] \in 0 .. c - 1
  <2>1. below[x] \in SUBSET P /\ x \notin below[x]
    BY <1>0
  <2>2. rank[x] = Cardinality(below[x])
    BY <1>r DEF Ranks
  <2>3. IsFiniteSet(below[x]) /\ Cardinality(below[x]) <= c
          /\ (c = Cardinality(below[x]) => P = below[x])
    BY <1>0, <2>1, FS_Subset
  <2>4. Cardinality(below[x]) \in Nat
    BY <2>3, FS_CardinalityType
  <2> QED BY <1>1, <2>1, <2>2, <2>3, <2>4
<1>3. ASSUME NEW x \in P, NEW z \in P, x \in below[z] PROVE rank[x] < rank[z]
  <2>1. below[x] \in SUBSET below[z] /\ x \notin below[x]
    BY <1>0, <1>3
  <2>2. /\ IsFiniteSet(below[z]) /\ rank[x] = Cardinality(below[x])
        /\ rank[z] = Cardinality(below[z])
        /\ rank[x] \in 0 .. c - 1 /\ rank[z] \in 0 .. c - 1
    BY <1>2
  <2>3. Cardinality(below[x]) <= Cardinality(below[z])
          /\ (Cardinality(below[z]) = Cardinality(below[x]) => below[z] = below[x])
    BY <2>1, <2>2, FS_Subset
  <2> HIDE DEF c
  <2>4. rank[x] \in Int /\ rank[z] \in Int
    BY <2>2
  <2>5. rank[x] <= rank[z] /\ rank[x] # rank[z]
    BY <1>3, <2>1, <2>2, <2>3
  <2> QED BY <2>4, <2>5
<1>4. ASSUME NEW x \in P, NEW z \in P, rank[x] = rank[z] PROVE x = z
  <2>1. rank[x] \in 0 .. c - 1 /\ rank[z] \in 0 .. c - 1
    BY <1>2
  <2>2. ~ (rank[x] < rank[z]) /\ ~ (rank[z] < rank[x])
    BY <1>1, <1>4, <2>1
  <2> QED BY <1>0, <1>3, <2>2
<1>5. rank \in [P -> 0 .. c - 1]
  BY <1>2, <1>r DEF Ranks
<1> HIDE DEF c
<1>6. rank \in Injection(P, 0 .. c - 1)
  BY <1>4, <1>5 DEF Injection, IsInjective
<1>7. IsFiniteSet(0 .. c - 1) /\ Cardinality(0 .. c - 1) = c
  BY <1>1, FS_Interval
<1>8. rank \in Surjection(P, 0 .. c - 1)
  <2>1. Cardinality(P) = Cardinality(0 .. c - 1)
    BY <1>7 DEF c
  <2> QED BY <1>6, <1>7, <2>1, FS_Injection
<1>9. \A i \in 0 .. c - 1 : \E x \in P : rank[x] = i
  BY <1>8 DEF Surjection
<1> QED BY <1>1, <1>3, <1>4, <1>5, <1>9, <1>r DEF c, IsRanking

\* In the order of the ranks, each member once.
LEMMA ByRankIs ==
    ASSUME NEW P, NEW rank, IsRanking(rank, P)
    PROVE  /\ ByRank(rank) \in [1 .. Cardinality(P) -> P]
           /\ Len(ByRank(rank)) = Cardinality(P)
           /\ \A i \in 1 .. Cardinality(P) : rank[ByRank(rank)[i]] = i - 1
           /\ \A x \in P : \E i \in 1 .. Cardinality(P) : ByRank(rank)[i] = x
           /\ \A i, j \in 1 .. Cardinality(P) :
                 ByRank(rank)[i] = ByRank(rank)[j] => i = j
<1> DEFINE c == Cardinality(P)
<1>0. /\ c \in Nat /\ rank \in [P -> 0 .. c - 1]
      /\ \A x, z \in P : rank[x] = rank[z] => x = z
      /\ \A i \in 0 .. c - 1 : \E x \in P : rank[x] = i
  BY DEF IsRanking
<1> DEFINE a == ByRank(rank)
<1>1. a = [i \in 1 .. c |-> CHOOSE x \in P : rank[x] = i - 1]
  BY <1>0 DEF ByRank
<1> HIDE DEF a, c
<1>2. ASSUME NEW i \in 1 .. c PROVE a[i] \in P /\ rank[a[i]] = i - 1
  <2>1. i - 1 \in 0 .. c - 1
    BY <1>0
  <2>2. \E x \in P : rank[x] = i - 1
    BY <1>0, <2>1
  <2>3. a[i] = CHOOSE x \in P : rank[x] = i - 1
    BY <1>1
  <2> QED BY <2>2, <2>3
<1>3. a \in [1 .. c -> P]
  BY <1>1, <1>2
<1>4. ASSUME NEW x \in P PROVE \E i \in 1 .. c : a[i] = x
  <2>1. rank[x] \in 0 .. c - 1
    BY <1>0
  <2>2. PICK i \in 1 .. c : i - 1 = rank[x]
    <3>1. rank[x] + 1 \in 1 .. c /\ (rank[x] + 1) - 1 = rank[x]
      BY <1>0, <2>1
    <3> QED BY <3>1
  <2>3. a[i] \in P /\ rank[a[i]] = rank[x]
    BY <1>2, <2>2
  <2> QED BY <1>0, <2>3
<1>5. ASSUME NEW i \in 1 .. c, NEW j \in 1 .. c, a[i] = a[j] PROVE i = j
  <2>1. i - 1 = j - 1
    BY <1>2, <1>5
  <2> QED BY <1>0, <2>1
<1>6. Len(a) = c
  BY <1>0, <1>3
<1> QED BY <1>2, <1>3, <1>4, <1>5, <1>6 DEF a, c

LEMMA RankTaken ==
    ASSUME NEW S \in SUBSET Nat, IsFiniteSet(S)
    PROVE  IsRanking([x \in S |-> Cardinality({y \in S : y < x})], S)
<1>1. IsFiniteSet(S) /\ S \subseteq Nat
  OBVIOUS
<1>2. PICK below : below = [x \in S |-> {y \in S : y < x}]
  OBVIOUS
<1>3. Ranks(below, S) = [x \in S |-> Cardinality({y \in S : y < x})]
  BY <1>2 DEF Ranks
<1>4. below \in [S -> SUBSET S] /\ \A x, y \in S : x \in below[y] <=> x < y
  BY <1>2
<1>5. \A x \in S : x \notin below[x]
  BY <1>1, <1>4
<1>6. \A x, y \in S : x \in below[y] => below[x] \subseteq below[y]
  <2>1. ASSUME NEW x \in S, NEW y \in S, x < y, NEW z \in below[x]
        PROVE  z \in below[y]
    <3>1. z \in S /\ z < x
      BY <1>4
    <3>2. z < y
      BY <1>1, <2>1, <3>1
    <3> QED BY <1>4, <3>1, <3>2
  <2> QED BY <1>4, <2>1
<1>7. \A x, y \in S : x # y => x \in below[y] \/ y \in below[x]
  BY <1>1, <1>4
<1>8. IsOrder(below, S)
  BY <1>1, <1>4, <1>5, <1>6, <1>7 DEF IsOrder
<1> QED BY <1>3, <1>8, OrderRanks

LEMMA AscendingIs ==
    ASSUME NEW S \in SUBSET Nat, IsFiniteSet(S)
    PROVE  /\ Ascending(S) \in [1 .. Cardinality(S) -> S]
           /\ Cardinality(S) \in Nat /\ Len(Ascending(S)) = Cardinality(S)
           /\ \A x \in S : \E i \in 1 .. Cardinality(S) : Ascending(S)[i] = x
           /\ \A i, j \in 1 .. Cardinality(S) :
                 Ascending(S)[i] = Ascending(S)[j] => i = j
<1>1. PICK rank : rank = [x \in S |-> Cardinality({y \in S : y < x})]
  OBVIOUS
<1>2. IsRanking(rank, S)
  BY <1>1, RankTaken
<1>3. Ascending(S) = ByRank(rank)
  BY <1>1 DEF Ascending
<1>4. Cardinality(S) \in Nat
  BY <1>2 DEF IsRanking
<1> QED BY <1>2, <1>3, <1>4, ByRankIs

LEMMA AscendingSound ==
    ASSUME NEW S \in SUBSET Row
    PROVE  /\ Ascending(S) \in [1 .. Cardinality(S) -> S]
           /\ Cardinality(S) \in Nat /\ Len(Ascending(S)) = Cardinality(S)
           /\ \A x \in S : \E i \in 1 .. Cardinality(S) : Ascending(S)[i] = x
           /\ \A i, j \in 1 .. Cardinality(S) :
                 Ascending(S)[i] = Ascending(S)[j] => i = j
<1>1. S \in SUBSET Nat /\ IsFiniteSet(S)
  BY RowSets, CorpusAssumption DEF Row
<1> QED BY <1>1, AscendingIs

\* The rows of the lists are the rows that have a label.
LEMMA SetListsSound ==
    ASSUME NEW D \in SUBSET Row, NEW label \in [D -> List]
    PROVE  /\ SetLists(label) \in [List -> Seq(Row)]
           /\ UNION {ToSet(SetLists(label)[c]) : c \in List} = D
<1> DEFINE Of(c) == {r \in D : label[r] = c}
           l == SetLists(label)
<1>1. l = [c \in List |-> Ascending(Of(c))]
  BY DEF SetLists
<1>2. ASSUME NEW c \in List
      PROVE  l[c] \in Seq(Row) /\ ToSet(l[c]) = Of(c)
  <2>1. Of(c) \in SUBSET Row
    OBVIOUS
  <2>2. l[c] = Ascending(Of(c))
    BY <1>1
  <2> DEFINE k == Cardinality(Of(c))
             a == Ascending(Of(c))
  <2>3. a \in [1 .. k -> Of(c)] /\ k \in Nat
    BY <2>1, AscendingSound
  <2>4. \A x \in Of(c) : \E i \in 1 .. k : a[i] = x
    BY <2>1, AscendingSound
  <2> HIDE DEF k, a, Of
  <2>5. a \in [1 .. k -> Row]
    BY <2>1, <2>3
  <2>6. a \in Seq(Row)
    BY <2>3, <2>5
  <2>7. DOMAIN a = 1 .. k
    BY <2>3
  <2>8. ToSet(a) = Of(c)
    BY <2>3, <2>4, <2>7 DEF ToSet
  <2> QED BY <2>2, <2>6, <2>8 DEF a
<1>3. l \in [List -> Seq(Row)]
  <2> HIDE DEF Of
  <2> QED BY <1>1, <1>2
<1>4. UNION {ToSet(l[c]) : c \in List} = UNION {Of(c) : c \in List}
  <2> HIDE DEF Of, l
  <2> QED BY <1>2
<1>5. UNION {Of(c) : c \in List} = D
  OBVIOUS
<1> QED BY <1>3, <1>4, <1>5

LEMMA Rows == /\ N \in Nat \ {0} /\ Row = 0 .. N - 1 /\ Row \subseteq Nat
              /\ IsFiniteSet(Row) /\ Cardinality(Row) = N
<1>1. N \in Nat \ {0} /\ Row = 0 .. N - 1 /\ Row \subseteq Nat
  BY CorpusAssumption DEF Row
<1>2. IsFiniteSet(0 .. N - 1) /\ Cardinality(0 .. N - 1) = N
  BY <1>1, FS_Interval
<1> QED BY <1>1, <1>2

-----------------------------------------------------------------------------
(* What an index and a file hold, as functions of their parts.             *)

FlatHeld(v, d, map) ==
    LET Of(p) == IF map = Nil THEN p ELSE map[p]
        there == {p \in DOMAIN v : p \notin Bits(d)}
    IN  [r \in {Of(p) : p \in there} |-> v[CHOOSE p \in there : Of(p) = r]]

ListRows(l) == UNION {ToSet(l[c]) : c \in List}

IvfHeld(v, d, l) == [r \in ListRows(l) \ Bits(d) |-> v[r]]

FileHeld(f) ==
    LET there == IF f.index = "flat" THEN DOMAIN f.content.vectors
                 ELSE ListRows(f.content.lists)
    IN  [r \in there \ f.content.dead |-> f.content.vectors[r]]

LEMMA ContentsIs ==
    /\ kind = "flat" => Contents = FlatHeld(vectors, deleted, idMap)
    /\ kind = "ivf" => Contents = IvfHeld(vectors, deleted, lists)
    /\ kind \in Kinds \ {"flat", "ivf"} => Contents = vectors
<1>1. kind = "flat" => Contents = FlatHeld(vectors, deleted, idMap)
  BY DEF Contents, FlatHeld, Served, RowAt
<1>2. kind = "ivf" => Contents = IvfHeld(vectors, deleted, lists)
  BY DEF Contents, IvfHeld, Listed, InList, ListRows
<1>3. kind \in Kinds \ {"flat", "ivf"} => Contents = vectors
  BY DEF Contents, Kinds
<1> QED BY <1>1, <1>2, <1>3

LEMMA ContentsNext ==
    /\ kind' = "flat" => Contents' = FlatHeld(vectors', deleted', idMap')
    /\ kind' = "ivf" => Contents' = IvfHeld(vectors', deleted', lists')
    /\ kind' \in Kinds \ {"flat", "ivf"} => Contents' = vectors'
<1>1. kind' = "flat" => Contents' = FlatHeld(vectors', deleted', idMap')
  BY DEF Contents, FlatHeld, Served, RowAt
<1>2. kind' = "ivf" => Contents' = IvfHeld(vectors', deleted', lists')
  BY DEF Contents, IvfHeld, Listed, InList, ListRows
<1>3. kind' \in Kinds \ {"flat", "ivf"} => Contents' = vectors'
  BY DEF Contents, Kinds
<1> QED BY <1>1, <1>2, <1>3

LEMMA SavedIs ==
    /\ Kept(file.content) = FileHeld(file)
    /\ Saved = IF file # Nil /\ file.whole THEN FileHeld(file) ELSE Nil
BY DEF Kept, FileHeld, Saved, Open, ListRows

LEMMA SavedNext ==
    /\ Kept(file.content)' = FileHeld(file')
    /\ Saved' = IF file' # Nil /\ file'.whole THEN FileHeld(file') ELSE Nil
BY DEF Kept, FileHeld, Saved, Open, ListRows

LEMMA BitsType ==
    /\ \A d \in Tombs : Bits(d) \in SUBSET Row
    /\ \A S \in SUBSET Row : Bits(S) = S
    /\ \A S \in SUBSET Row : FromBits(S) \in Tombs /\ Bits(FromBits(S)) = S
    /\ Bits(Nil) = {} /\ Nil \in Tombs /\ SUBSET Row \subseteq Tombs
<1>1. \A S \in SUBSET Row : S # Nil
  BY NilAssumption
<1> QED BY <1>1 DEF Bits, FromBits, Tombs

\* Before Compact a position is a row.
LEMMA FlatHeldAll ==
    ASSUME NEW v \in [Row -> Vector], NEW d \in Tombs
    PROVE  FlatHeld(v, d, Nil) = [r \in Row \ Bits(d) |-> v[r]]
<1> DEFINE there == {p \in DOMAIN v : p \notin Bits(d)}
<1>1. there = Row \ Bits(d)
  OBVIOUS
<1>2. FlatHeld(v, d, Nil)
        = [r \in {p : p \in there} |-> v[CHOOSE p \in there : p = r]]
  BY DEF FlatHeld
<1>3. {p : p \in there} = there
  OBVIOUS
<1>4. \A r \in there : (CHOOSE p \in there : p = r) = r
  OBVIOUS
<1> HIDE DEF there
<1>5. [r \in there |-> v[CHOOSE p \in there : p = r]] = [r \in there |-> v[r]]
  BY <1>4
<1> QED BY <1>1, <1>2, <1>3, <1>5

\* After it the map says which row a position holds.
HeldBy(held, v, map) ==
    /\ held \in [{map[p] : p \in DOMAIN map} -> Vector]
    /\ \A p \in DOMAIN map : held[map[p]] = v[p]

LEMMA FlatHeldMapped ==
    ASSUME NEW map, NEW v, map # Nil, Mapped(v, map)
    PROVE  HeldBy(FlatHeld(v, Nil, map), v, map)
<1> DEFINE there == {p \in DOMAIN v : p \notin Bits(Nil)}
           Chosen(r) == CHOOSE p \in there : map[p] = r
           ids == {map[p] : p \in DOMAIN map}
           held == FlatHeld(v, Nil, map)
<1> USE DEF Mapped
<1>1. there = DOMAIN map
  BY DEF Bits
<1>2. held = [r \in {map[p] : p \in there} |-> v[Chosen(r)]]
  BY DEF FlatHeld
<1> HIDE DEF there, held
<1>3. \A p \in DOMAIN map : Chosen(map[p]) = p
  BY <1>1
<1> HIDE DEF Chosen
<1>4. held = [r \in ids |-> v[Chosen(r)]]
  BY <1>1, <1>2
<1>5. \A p \in DOMAIN map : map[p] \in ids
  OBVIOUS
<1>6. \A r \in ids : Chosen(r) \in DOMAIN map
  BY <1>3
<1> HIDE DEF ids
<1>7. held \in [ids -> Vector]
  BY <1>4, <1>6
<1>8. \A p \in DOMAIN map : held[map[p]] = v[p]
  BY <1>3, <1>4, <1>5
<1> QED BY <1>7, <1>8 DEF HeldBy, ids, held

LEMMA IvfHeldType ==
    ASSUME NEW v \in [Row -> Vector], NEW d, NEW l \in [List -> Seq(Row)]
    PROVE  /\ ListRows(l) \in SUBSET Row
           /\ IvfHeld(v, d, l) \in [ListRows(l) \ Bits(d) -> Vector]
<1>1. \A c \in List : ToSet(l[c]) \subseteq Row
  BY DEF ToSet
<1>2. ListRows(l) \in SUBSET Row
  BY <1>1 DEF ListRows
<1> QED BY <1>2 DEF IvfHeld

LEMMA FileHeldType ==
    ASSUME NEW f \in Files
    PROVE  f # Nil /\ FileHeld(f) # Nil
<1>1. f # Nil
  BY FileAssumption
<1>2. CASE f \in [index : {"flat"}, content : FlatContent, whole : BOOLEAN]
  <2>1. f.content.vectors \in [Row -> Vector]
    BY <1>2 DEF FlatContent
  <2>2. FileHeld(f) = [r \in Row \ f.content.dead |-> f.content.vectors[r]]
    BY <1>2, <2>1 DEF FileHeld
  <2>3. FileHeld(f) \in [Row \ f.content.dead -> Vector]
    BY <2>1, <2>2
  <2> QED BY <1>1, <2>3, NilAssumption
<1>3. CASE f \in [index : {"ivf"}, content : IvfContent, whole : BOOLEAN]
  <2>1. /\ f.content.vectors \in [Row -> Vector]
        /\ f.content.lists \in [List -> Seq(Row)]
    BY <1>3 DEF IvfContent
  <2>2. ListRows(f.content.lists) \in SUBSET Row
    BY <2>1, IvfHeldType
  <2>3. FileHeld(f) = [r \in ListRows(f.content.lists) \ f.content.dead |->
                          f.content.vectors[r]]
    BY <1>3 DEF FileHeld
  <2>4. FileHeld(f) \in [ListRows(f.content.lists) \ f.content.dead -> Vector]
    BY <2>1, <2>2, <2>3
  <2> QED BY <1>1, <2>2, <2>4, NilAssumption
<1> QED BY <1>2, <1>3 DEF Files

\* An index is there.
LEMMA HeldType ==
    ASSUME StoreInv, kind # "none"
    PROVE  \E S \in SUBSET Row : Contents \in [S -> Vector] /\ Contents # Nil
<1>1. SUFFICES \E S \in SUBSET Row : Contents \in [S -> Vector]
  BY NilAssumption
<1>2. CASE kind = "flat"
  <2>1. FlatInv /\ Contents = FlatHeld(vectors, deleted, idMap)
    BY <1>2, ContentsIs DEF StoreInv
  <2>2. CASE idMap = Nil
    <3>1. vectors \in [Row -> Vector] /\ deleted \in Tombs
      BY <2>1, <2>2 DEF FlatInv
    <3>2. Contents = [r \in Row \ Bits(deleted) |-> vectors[r]]
      BY <2>1, <2>2, <3>1, FlatHeldAll
    <3>3. Contents \in [Row \ Bits(deleted) -> Vector]
      BY <3>1, <3>2
    <3> QED BY <3>3
  <2>3. CASE idMap # Nil
    <3>1. Mapped(vectors, idMap) /\ deleted = Nil
      BY <2>1, <2>3 DEF FlatInv
    <3>2. HeldBy(Contents, vectors, idMap)
      BY <2>1, <2>3, <3>1, FlatHeldMapped
    <3>3. {idMap[p] : p \in DOMAIN idMap} \in SUBSET Row
      BY <3>1 DEF Mapped
    <3> QED BY <3>2, <3>3 DEF HeldBy
  <2> QED BY <2>2, <2>3
<1>3. CASE kind = "ivf"
  <2>1. IvfInv /\ Contents = IvfHeld(vectors, deleted, lists)
    BY <1>3, ContentsIs DEF StoreInv
  <2>2. /\ ListRows(lists) \in SUBSET Row
        /\ Contents \in [ListRows(lists) \ Bits(deleted) -> Vector]
    BY <2>1, IvfHeldType DEF IvfInv
  <2> QED BY <2>2
<1>4. CASE kind \in {"pq", "ivf_pq"}
  <2>1. vectors \in [Row -> Vector] /\ Contents = vectors
    BY <1>4, ContentsIs DEF StoreInv, Kinds
  <2> QED BY <2>1
<1> QED BY <1>2, <1>3, <1>4 DEF StoreInv, Kinds

-----------------------------------------------------------------------------
(* Every step keeps the invariant and is a step of a plain store, or none.  *)

LEMMA FileSame ==
    ASSUME file' = file
    PROVE  Saved' = Saved /\ Kept(file.content)' = Kept(file.content)
BY SavedIs, SavedNext

LEMMA InitHolds ==
    ASSUME Init
    PROVE  StoreInv /\ Promise!Init
<1>1. StoreInv
  BY DEF Init, StoreInv, Kinds
<1>2. Contents = Nil
  BY ContentsIs DEF Init, Kinds
<1>3. Saved = Nil
  BY SavedIs DEF Init
<1> QED BY <1>1, <1>2, <1>3 DEF Promise!Init

LEMMA BuildStep ==
    ASSUME StoreInv, NEW k \in {"flat", "ivf", "pq", "ivf_pq"}, Build(k)
    PROVE  StoreInv' /\ Promise!Build
<1>1. /\ kind = "none" /\ kind' = k /\ stage' = "ready"
      /\ vectors' = Corpus /\ deleted' = Nil /\ file' = file
  BY DEF Build, Begin, FlatBuild, IvfBuild, PqBuild, IvfPqBuild
<1>2. Contents = Nil
  BY <1>1, ContentsIs DEF StoreInv, Kinds
<1>3. Corpus \in [Row -> Vector] /\ Nil \in Tombs
  BY CorpusAssumption, BitsType
<1>4. CASE k = "flat"
  <2>1. idMap' = Nil /\ nOrig' = Nil
    BY <1>4 DEF Build, FlatBuild
  <2>2. FlatInv'
    BY <1>1, <1>3, <2>1 DEF FlatInv
  <2>3. Contents' = FlatHeld(Corpus, Nil, Nil)
    BY <1>1, <1>4, <2>1, ContentsNext
  <2>4. Contents' = [r \in Row \ Bits(Nil) |-> Corpus[r]]
    BY <2>3, <1>3, FlatHeldAll
  <2>5. Contents' = Corpus
    BY <2>4, <1>3, BitsType
  <2> QED BY <1>1, <1>4, <2>2, <2>5, <1>2, FileSame
             DEF StoreInv, Kinds, Promise!Build
<1>5. CASE k = "ivf"
  <2> DEFINE label == [r \in Row |-> BestCenter(Corpus[r])]
  <2>1. lists' = SetLists(label)
    BY <1>5 DEF Build, IvfBuild
  <2>2. label \in [Row -> List]
    BY <1>3, BestCenterType
  <2>3. lists' \in [List -> Seq(Row)] /\ ListRows(lists') = Row
    <3> HIDE DEF label
    <3> QED BY <2>1, <2>2, SetListsSound DEF ListRows
  <2>4. IvfInv'
    BY <1>1, <1>3, <2>3 DEF IvfInv
  <2>5. Contents' = IvfHeld(Corpus, Nil, lists')
    BY <1>1, <1>5, ContentsNext
  <2>6. Contents' = Corpus
    BY <2>5, <2>3, <1>3, BitsType DEF IvfHeld
  <2> QED BY <1>1, <1>5, <2>4, <2>6, <1>2, FileSame
             DEF StoreInv, Kinds, Promise!Build
<1>6. CASE k \in {"pq", "ivf_pq"}
  <2>1. Contents' = Corpus
    BY <1>1, <1>6, ContentsNext DEF Kinds
  <2> QED BY <1>1, <1>6, <1>3, <2>1, <1>2, FileSame
             DEF StoreInv, Kinds, Promise!Build
<1> QED BY <1>4, <1>5, <1>6

\* What a loaded index holds is what the file held.
LEMMA LoadStep ==
    ASSUME StoreInv, NEW k \in {"flat", "ivf"}, Load(k)
    PROVE  StoreInv' /\ Promise!Load
<1>1. kind = "none" /\ kind' = k /\ stage' = "ready" /\ file' = file
  BY DEF Load, Begin, FlatLoad, IvfLoad
<1>2. Contents = Nil
  BY <1>1, ContentsIs DEF StoreInv, Kinds
<1>3. file \in Files /\ file.whole /\ file.index = k
  BY DEF Load, FlatLoad, IvfLoad, Read, Open, Check, StoreInv
<1>4. Saved = FileHeld(file) /\ Saved # Nil
  BY <1>3, SavedIs, FileHeldType
<1>5. CASE k = "flat"
  <2>1. /\ vectors' = file.content.vectors
        /\ deleted' = FromBits(file.content.dead)
        /\ nOrig' = IF deleted' = Nil THEN Nil ELSE Cardinality(DOMAIN vectors')
        /\ idMap' = Nil
    BY <1>5 DEF Load, FlatLoad
  <2>2. file.content \in FlatContent
    BY <1>3, <1>5 DEF Files
  <2>3. vectors' \in [Row -> Vector] /\ file.content.dead \in SUBSET Row
    BY <2>1, <2>2 DEF FlatContent
  <2>4. deleted' \in Tombs /\ Bits(deleted') = file.content.dead
    BY <2>1, <2>3, BitsType
  <2>5. nOrig' \in {Nil, N}
    BY <2>1, <2>3, Rows
  <2>6. FlatInv'
    BY <2>1, <2>3, <2>4, <2>5 DEF FlatInv
  <2>7. Contents' = FlatHeld(vectors', deleted', Nil)
    BY <1>1, <1>5, <2>1, ContentsNext
  <2>8. Contents' = [r \in Row \ file.content.dead |-> vectors'[r]]
    BY <2>3, <2>4, <2>7, FlatHeldAll
  <2>9. FileHeld(file) = [r \in Row \ file.content.dead |-> vectors'[r]]
    BY <1>3, <1>5, <2>1, <2>3 DEF FileHeld
  <2>10. Contents' = Saved
    BY <1>4, <2>8, <2>9
  <2> QED BY <1>1, <1>2, <1>4, <1>5, <2>6, <2>10, FileSame
             DEF StoreInv, Kinds, Promise!Load
<1>6. CASE k = "ivf"
  <2>1. /\ vectors' = file.content.vectors /\ lists' = file.content.lists
        /\ deleted' = FromBits(file.content.dead)
    BY <1>6 DEF Load, IvfLoad
  <2>2. file.content \in IvfContent
    BY <1>3, <1>6 DEF Files
  <2>3. /\ vectors' \in [Row -> Vector] /\ lists' \in [List -> Seq(Row)]
        /\ file.content.dead \in SUBSET Row
    BY <2>1, <2>2 DEF IvfContent
  <2>4. deleted' \in Tombs /\ Bits(deleted') = file.content.dead
    BY <2>1, <2>3, BitsType
  <2>5. IvfInv'
    BY <2>3, <2>4 DEF IvfInv
  <2>6. Contents' = IvfHeld(vectors', deleted', lists')
    BY <1>1, <1>6, ContentsNext
  <2>7. Contents' = FileHeld(file)
    BY <1>3, <1>6, <2>1, <2>4, <2>6 DEF FileHeld, IvfHeld
  <2> QED BY <1>1, <1>2, <1>4, <1>6, <2>5, <2>7, FileSame
             DEF StoreInv, Kinds, Promise!Load
<1> QED BY <1>5, <1>6

LEMMA ExitStep ==
    ASSUME StoreInv, Exit
    PROVE  StoreInv' /\ Promise!Exit
<1>1. /\ kind # "none" /\ kind' = "none" /\ stage' = "done"
      /\ vectors' = Nil /\ file' = file
  BY DEF Exit
<1>2. Contents # Nil
  BY <1>1, HeldType
<1>3. Contents' = Nil
  BY <1>1, ContentsNext DEF Kinds
<1> QED BY <1>1, <1>2, <1>3, FileSame DEF StoreInv, Kinds, Promise!Exit

\* A mask is the whole delete set: it holds the rows that were deleted before.
LEMMA DeleteStep ==
    ASSUME StoreInv, Delete
    PROVE  StoreInv' /\ Promise!Delete
<1>1. /\ kind \in {"flat", "ivf"} /\ kind' = kind /\ stage' = "changed"
      /\ stage = "ready" /\ vectors' = vectors /\ file' = file
  BY DEF Delete, Step, FlatDelete, IvfDelete
<1>2. PICK mask \in SUBSET Row :
        /\ Bits(deleted) \subseteq mask /\ deleted' = mask
        /\ \/ kind = "flat" /\ FlatDelete(mask)
           \/ kind = "ivf" /\ IvfDelete(mask) /\ lists' = lists
  <2>1. PICK m \in Masks :
          /\ Nested(DeleteMask(m, N))
          /\ \/ kind = "flat" /\ FlatDelete(DeleteMask(m, N))
             \/ kind = "ivf" /\ IvfDelete(DeleteMask(m, N)) /\ lists' = lists
    <3>1. PICK m \in Masks :
            /\ Nested(DeleteMask(m, N))
            /\ \/ /\ kind = "flat" /\ FlatDelete(DeleteMask(m, N))
                  /\ UNCHANGED lists
               \/ /\ kind = "ivf" /\ IvfDelete(DeleteMask(m, N))
                  /\ UNCHANGED flatOwn
      BY DEF Delete
    <3>2. kind = "ivf" /\ IvfDelete(DeleteMask(m, N)) => lists' = lists
      BY DEF IvfDelete
    <3> QED BY <3>1, <3>2
  <2>2. DeleteMask(m, N) \in SUBSET Row
    BY DEF DeleteMask, Row
  <2> QED BY <2>1, <2>2 DEF Nested, FlatDelete, IvfDelete
<1>3. Contents # Nil
  BY <1>1, HeldType
<1>4. mask \in Tombs /\ Bits(mask) = mask
  BY BitsType
<1>5. CASE kind = "flat"
  <2>1. FlatInv /\ idMap = Nil /\ vectors \in [Row -> Vector] /\ deleted \in Tombs
    BY <1>1, <1>5 DEF StoreInv, FlatInv
  <2>2. idMap' = Nil /\ nOrig' = IF nOrig = Nil THEN n ELSE nOrig
    BY <1>2, <1>5, <2>1 DEF FlatDelete, Own
  <2>3. nOrig' \in {Nil, N}
    BY <2>1, <2>2, Rows DEF FlatInv, n
  <2>4. FlatInv'
    BY <1>1, <1>2, <1>4, <2>1, <2>2, <2>3 DEF FlatInv
  <2>5. Contents = FlatHeld(vectors, deleted, Nil)
    BY <1>5, <2>1, ContentsIs
  <2>6. Contents = [r \in Row \ Bits(deleted) |-> vectors[r]]
    BY <2>1, <2>5, FlatHeldAll
  <2>7. Contents' = FlatHeld(vectors, mask, Nil)
    BY <1>1, <1>2, <1>5, <2>2, ContentsNext
  <2>8. Contents' = [r \in Row \ mask |-> vectors[r]]
    BY <1>4, <2>1, <2>7, FlatHeldAll
  <2>9. Contents' = Promise!Kept(Contents, mask)
    BY <1>2, <2>6, <2>8 DEF Promise!Kept
  <2> QED BY <1>1, <1>3, <1>5, <2>4, <2>9, FileSame
             DEF StoreInv, Kinds, Promise!Delete
<1>6. CASE kind = "ivf"
  <2>1. IvfInv /\ lists' = lists
    BY <1>2, <1>6 DEF StoreInv
  <2>2. IvfInv'
    BY <1>1, <1>2, <1>4, <2>1 DEF IvfInv
  <2>3. Contents = [r \in ListRows(lists) \ Bits(deleted) |-> vectors[r]]
    BY <1>6, ContentsIs DEF IvfHeld
  <2>4. Contents' = [r \in ListRows(lists) \ mask |-> vectors[r]]
    BY <1>1, <1>2, <1>4, <1>6, <2>1, ContentsNext DEF IvfHeld
  <2>5. Contents' = Promise!Kept(Contents, mask)
    BY <1>2, <2>3, <2>4 DEF Promise!Kept
  <2> QED BY <1>1, <1>3, <1>6, <2>2, <2>5, FileSame
             DEF StoreInv, Kinds, Promise!Delete
<1> QED BY <1>1, <1>5, <1>6

\* A vector in a list moves to the list of its new center, so every row that
\* was in a list stays in one.
LEMMA UpdateStep ==
    ASSUME StoreInv, Update
    PROVE  StoreInv' /\ Promise!Update
<1>1. /\ kind \in {"flat", "ivf"} /\ kind' = kind /\ stage' = "changed"
      /\ stage = "ready" /\ deleted' = deleted /\ file' = file
  BY DEF Update, Step, FlatUpdate, IvfUpdate
<1>2. PICK u \in Updates :
        \/ kind = "flat" /\ FlatUpdate(UpdateSet(u, N))
        \/ kind = "ivf" /\ IvfUpdate(UpdateSet(u, N))
  BY DEF Update
<1> DEFINE w == UpdateSet(u, N)
<1>3. /\ DOMAIN w = DOMAIN u \cap Row
      /\ \A r \in DOMAIN w : w[r] = u[r] /\ w[r] \in Vector
  BY CorpusAssumption DEF UpdateSet, Row
<1> HIDE DEF w
<1>4. Contents # Nil
  BY <1>1, HeldType
<1>5. vectors \in [Row -> Vector] /\ deleted \in Tombs
  BY <1>1, <1>2 DEF StoreInv, FlatInv, IvfInv, FlatUpdate
<1>6. vectors' = [r \in Row |-> IF r \in DOMAIN u THEN u[r] ELSE vectors[r]]
  <2>1. vectors' = Overwritten(w)
    BY <1>2 DEF FlatUpdate, IvfUpdate, w
  <2> QED BY <2>1, <1>3, <1>5 DEF Overwritten
<1>7. vectors' \in [Row -> Vector]
  BY <1>3, <1>5, <1>6
<1>8. ASSUME NEW S \in SUBSET Row, Contents = [r \in S |-> vectors[r]],
             Contents' = [r \in S |-> vectors'[r]]
      PROVE  Contents' = Promise!Replaced(Contents, u)
  BY <1>6, <1>8 DEF Promise!Replaced
<1>9. CASE kind = "flat"
  <2>1. FlatInv /\ idMap = Nil /\ idMap' = Nil /\ nOrig' = IF nOrig = Nil THEN n ELSE nOrig
    BY <1>2, <1>9 DEF StoreInv, FlatUpdate, Own
  <2>2. nOrig' \in {Nil, N}
    BY <1>5, <2>1, Rows DEF FlatInv, n
  <2>3. FlatInv'
    BY <1>1, <1>5, <1>7, <2>1, <2>2 DEF FlatInv
  <2>4. Contents = FlatHeld(vectors, deleted, Nil)
    BY <1>9, <2>1, ContentsIs
  <2>5. Contents = [r \in Row \ Bits(deleted) |-> vectors[r]]
    BY <1>5, <2>4, FlatHeldAll
  <2>6. Contents' = FlatHeld(vectors', deleted, Nil)
    BY <1>1, <1>9, <2>1, ContentsNext
  <2>7. Contents' = [r \in Row \ Bits(deleted) |-> vectors'[r]]
    BY <1>5, <1>7, <2>6, FlatHeldAll
  <2>8. Contents' = Promise!Replaced(Contents, u)
    BY <1>8, <2>5, <2>7
  <2> QED BY <1>1, <1>4, <1>9, <2>3, <2>8, FileSame
             DEF StoreInv, Kinds, Promise!Update
<1>10. CASE kind = "ivf"
  <2> DEFINE label == [r \in Listed |-> IF r \in DOMAIN w THEN BestCenter(w[r])
                                        ELSE Labels[r]]
  <2>1. IvfInv /\ lists' = SetLists(label)
    BY <1>2, <1>10 DEF StoreInv, IvfUpdate, w
  <2>2. Listed = ListRows(lists) /\ Listed \in SUBSET Row
    BY <2>1, IvfHeldType DEF IvfInv, Listed, InList, ListRows
  <2>3. ASSUME NEW r \in Listed PROVE label[r] \in List
    <3>1. CASE r \in DOMAIN w
      BY <3>1, <1>3, BestCenterType
    <3>2. CASE r \notin DOMAIN w
      <4>1. \E c \in List : r \in InList(c)
        BY DEF Listed
      <4>2. Labels[r] \in List
        BY <4>1 DEF Labels
      <4> QED BY <3>2, <4>2
    <3> QED BY <3>1, <3>2
  <2>4. label \in [Listed -> List]
    BY <2>3
  <2>5. lists' \in [List -> Seq(Row)] /\ ListRows(lists') = Listed
    <3> HIDE DEF label
    <3>1. /\ SetLists(label) \in [List -> Seq(Row)]
          /\ UNION {ToSet(SetLists(label)[c]) : c \in List} = Listed
      BY <2>2, <2>4, SetListsSound
    <3> QED BY <2>1, <3>1 DEF ListRows
  <2>6. IvfInv'
    BY <1>1, <1>5, <1>7, <2>5 DEF IvfInv
  <2>7. Contents = [r \in Listed \ Bits(deleted) |-> vectors[r]]
    BY <1>10, <2>2, ContentsIs DEF IvfHeld
  <2>8. Contents' = [r \in Listed \ Bits(deleted) |-> vectors'[r]]
    BY <1>1, <1>10, <2>5, ContentsNext DEF IvfHeld
  <2>9. Listed \ Bits(deleted) \in SUBSET Row
    BY <2>2
  <2>10. Contents' = Promise!Replaced(Contents, u)
    BY <1>8, <2>7, <2>8, <2>9
  <2> QED BY <1>1, <1>4, <1>10, <2>6, <2>10, FileSame
             DEF StoreInv, Kinds, Promise!Update
<1> QED BY <1>1, <1>9, <1>10

\* The index holds the same rows when its arrays and the map are the same.
LEMMA ContentsSame ==
    ASSUME StoreInv, kind \in {"flat", "ivf"}, kind' = kind,
           vectors' = vectors, deleted' = deleted, idMap' = idMap,
           lists' = lists
    PROVE  Contents' = Contents
BY ContentsIs, ContentsNext

LEMMA CompactStep ==
    ASSUME StoreInv, Compact
    PROVE  StoreInv' /\ Contents' = Contents /\ Saved' = Saved
<1>1. /\ kind \in {"flat", "ivf"} /\ kind' = kind /\ stage' = "compacted"
      /\ stage = "changed" /\ deleted' = Nil /\ file' = file
  BY DEF Compact, Step, FlatCompact, IvfCompact
<1>2. CASE kind = "flat"
  <2>1. /\ FlatInv /\ idMap = Nil /\ FlatCompact
        /\ vectors \in [Row -> Vector] /\ deleted \in Tombs /\ DOMAIN vectors = Row
    BY <1>1, <1>2 DEF Compact, StoreInv, FlatInv
  <2>2. nOrig' = N
    BY <2>1, Rows DEF FlatCompact, Own, FlatInv, n
  <2>3. Contents = FlatHeld(vectors, deleted, Nil)
    BY <1>2, <2>1, ContentsIs
  <2>4. Contents = [r \in Row \ Bits(deleted) |-> vectors[r]]
    BY <2>1, <2>3, FlatHeldAll
  <2>5. Contents' = FlatHeld(vectors', Nil, idMap')
    BY <1>1, <1>2, ContentsNext
  <2>6. CASE deleted = Nil
    <3>1. vectors' = vectors /\ idMap' = Nil
      BY <2>1, <2>6 DEF FlatCompact
    <3>2. FlatInv'
      BY <1>1, <2>1, <2>2, <3>1, BitsType DEF FlatInv
    <3> QED BY <1>1, <1>2, <2>3, <2>5, <2>6, <3>1, <3>2, FileSame
               DEF StoreInv, Kinds
  <2>7. CASE deleted # Nil
    <3> DEFINE S == Row \ deleted
               live == Ascending(S)
               k == Cardinality(S)
    <3>1. DOMAIN vectors \ deleted = S /\ S \in SUBSET Row
      BY <2>1
    <3>2. /\ live \in [1 .. k -> S] /\ k \in Nat /\ Len(live) = k
          /\ \A x \in S : \E i \in 1 .. k : live[i] = x
          /\ \A i, j \in 1 .. k : live[i] = live[j] => i = j
      BY <3>1, AscendingSound
    <3>3. k \in 0 .. N
      BY <3>1, RowSets
    <3>4. /\ vectors' = [p \in 0 .. Len(live) - 1 |-> vectors[live[p + 1]]]
          /\ idMap' = [p \in 0 .. Len(live) - 1 |-> RowAt(live[p + 1])]
      BY <2>1, <2>7 DEF FlatCompact
    <3>5. Bits(deleted) = deleted
      BY <2>7 DEF Bits
    <3> HIDE DEF S, live, k
    <3> DEFINE map == [p \in 0 .. k - 1 |-> live[p + 1]]
    <3>6. vectors' = [p \in 0 .. k - 1 |-> vectors[map[p]]]
      BY <3>2, <3>4
    <3>7. idMap' = map
      BY <2>1, <3>2, <3>4 DEF RowAt
    <3>8. ASSUME NEW p \in 0 .. k - 1
          PROVE  p + 1 \in 1 .. k /\ map[p] = live[p + 1] /\ map[p] \in S
      BY <3>2
    <3>9. ASSUME NEW p \in 0 .. k - 1, NEW o \in 0 .. k - 1, map[p] = map[o]
          PROVE  p = o
      <4>1. p + 1 = o + 1
        BY <3>2, <3>8, <3>9
      <4> QED BY <4>1, <3>2
    <3>10. ASSUME NEW r \in S PROVE \E p \in 0 .. k - 1 : map[p] = r
      <4>1. PICK i \in 1 .. k : live[i] = r
        BY <3>2
      <4>2. i - 1 \in 0 .. k - 1 /\ (i - 1) + 1 = i
        BY <3>2
      <4> QED BY <4>1, <4>2, <3>8
    <3>11. DOMAIN map = 0 .. k - 1
      OBVIOUS
    <3> HIDE DEF map
    <3>12. Mapped(vectors', map)
      <4>1. map \in [DOMAIN map -> Row]
        <5>1. map = [p \in DOMAIN map |-> map[p]]
          BY <3>11 DEF map
        <5>2. \A p \in DOMAIN map : map[p] \in Row
          BY <3>1, <3>8, <3>11
        <5> QED BY <5>1, <5>2
      <4>2. vectors' \in [DOMAIN map -> Vector]
        <5>1. \A p \in 0 .. k - 1 : vectors[map[p]] \in Vector
          BY <2>1, <3>1, <3>8
        <5> QED BY <3>6, <3>11, <5>1
      <4> QED BY <4>1, <4>2, <3>9, <3>11 DEF Mapped
    <3>13. map # Nil
      <4>1. 0 .. k - 1 \in SUBSET Row
        BY <3>3, Rows
      <4>2. map \in [0 .. k - 1 -> Row]
        BY <3>11, <3>12 DEF Mapped
      <4> QED BY <4>1, <4>2, NilAssumption
    <3>14. HeldBy(Contents', vectors', map)
      BY <2>5, <3>7, <3>12, <3>13, FlatHeldMapped
    <3>15. {map[p] : p \in DOMAIN map} = S
      BY <3>8, <3>10, <3>11
    <3>16. ASSUME NEW r \in S PROVE Contents'[r] = vectors[r]
      <4>1. PICK p \in 0 .. k - 1 : map[p] = r
        BY <3>10
      <4>2. Contents'[map[p]] = vectors'[p]
        BY <3>11, <3>14 DEF HeldBy
      <4>3. vectors'[p] = vectors[map[p]]
        BY <3>6
      <4> QED BY <4>1, <4>2, <4>3
    <3>17. Contents' \in [S -> Vector]
      BY <3>14, <3>15 DEF HeldBy
    <3>18. Contents = [r \in S |-> vectors[r]]
      BY <2>4, <3>5 DEF S
    <3>19. Contents' = Contents
      <4>1. Contents' = [r \in S |-> Contents'[r]]
        BY <3>17
      <4> QED BY <4>1, <3>16, <3>18
    <3>20. FlatInv'
      <4>1. stage' \in {"compacted", "saving", "done"} /\ deleted' \in Tombs
        BY <1>1, BitsType
      <4> QED BY <1>1, <2>2, <3>7, <3>12, <3>13, <4>1 DEF FlatInv
    <3> QED BY <1>1, <1>2, <3>19, <3>20, FileSame DEF StoreInv, Kinds
  <2> QED BY <2>6, <2>7
<1>3. CASE kind = "ivf"
  <2>1. IvfInv /\ vectors' = vectors
    BY <1>3 DEF Compact, IvfCompact, StoreInv
  <2> DEFINE D == Listed \ Bits(deleted)
             label == [r \in D |-> Labels[r]]
  <2>2. lists' = SetLists(label)
    BY <1>3 DEF Compact, IvfCompact
  <2>3. Listed = ListRows(lists) /\ D \in SUBSET Row
    BY <2>1, IvfHeldType DEF IvfInv, Listed, InList, ListRows
  <2>4. ASSUME NEW r \in Listed PROVE Labels[r] \in List
    <3>1. \E c \in List : r \in InList(c)
      BY DEF Listed
    <3> QED BY <3>1 DEF Labels
  <2>5. label \in [D -> List]
    BY <2>4
  <2>6. lists' \in [List -> Seq(Row)] /\ ListRows(lists') = D
    <3> HIDE DEF label, D
    <3>1. /\ SetLists(label) \in [List -> Seq(Row)]
          /\ UNION {ToSet(SetLists(label)[c]) : c \in List} = D
      BY <2>3, <2>5, SetListsSound
    <3> QED BY <2>2, <3>1 DEF ListRows
  <2>7. IvfInv'
    BY <1>1, <2>1, <2>6, BitsType DEF IvfInv
  <2>8. Contents = [r \in D |-> vectors[r]]
    BY <1>3, <2>3, ContentsIs DEF IvfHeld
  <2>9. Contents' = [r \in D |-> vectors[r]]
    BY <1>1, <1>3, <2>1, <2>6, ContentsNext, BitsType DEF IvfHeld
  <2> QED BY <1>1, <1>3, <2>7, <2>8, <2>9, FileSame DEF StoreInv, Kinds
<1> QED BY <1>1, <1>2, <1>3

\* The file is written with all rows, those that are gone with a tombstone.
LEMMA FlatFileSound ==
    ASSUME StoreInv, kind = "flat"
    PROVE  /\ FlatFile \in FlatContent
           /\ Contents = [r \in DOMAIN FlatFile.vectors \ FlatFile.dead |->
                             FlatFile.vectors[r]]
<1>1. FlatInv /\ Contents = FlatHeld(vectors, deleted, idMap)
  BY ContentsIs DEF StoreInv
<1>2. CASE idMap = Nil
  <2>1. vectors \in [Row -> Vector] /\ deleted \in Tombs
    BY <1>1, <1>2 DEF FlatInv
  <2>2. FlatFile = [vectors |-> vectors, dead |-> Bits(deleted)]
    BY <1>2 DEF FlatFile
  <2>3. Bits(deleted) \in SUBSET Row
    BY <2>1, BitsType
  <2>4. Contents = [r \in Row \ Bits(deleted) |-> vectors[r]]
    BY <1>1, <1>2, <2>1, FlatHeldAll
  <2> QED BY <2>1, <2>2, <2>3, <2>4 DEF FlatContent
<1>3. CASE idMap # Nil
  <2>1. Mapped(vectors, idMap) /\ deleted = Nil /\ nOrig = N
    BY <1>1, <1>3 DEF FlatInv
  <2> DEFINE Pos(r) == {p \in DOMAIN idMap : idMap[p] = r}
             lives == {r \in Row : Pos(r) # {}}
             Vec(r) == vectors[CHOOSE p \in Pos(r) : TRUE]
             all == [r \in Row |-> IF r \in lives THEN Vec(r) ELSE Zero]
             dead == {r \in Row : Pos(r) \subseteq Bits(deleted)}
  <2>2. FlatFile = [vectors |-> all, dead |-> dead]
    BY <1>3, <2>1 DEF FlatFile, Row
  <2>3. \A p \in DOMAIN idMap : Pos(idMap[p]) = {p}
    BY <2>1 DEF Mapped
  <2>4. Row \ dead = lives
    BY <2>1, BitsType
  <2>5. lives = {idMap[p] : p \in DOMAIN idMap}
    BY <2>1 DEF Mapped
  <2>6. ASSUME NEW p \in DOMAIN idMap
        PROVE  Vec(idMap[p]) = vectors[p] /\ vectors[p] \in Vector
    <3> HIDE DEF Pos
    <3> QED BY <2>1, <2>3 DEF Mapped
  <2>7. Zero \in Vector
    BY DEF Zero, Vector
  <2> HIDE DEF Vec, Pos
  <2>8. all \in [Row -> Vector]
    <3>1. \A r \in lives : Vec(r) \in Vector
      BY <2>5, <2>6
    <3> HIDE DEF lives
    <3> QED BY <2>7, <3>1
  <2>9. dead \in SUBSET Row
    OBVIOUS
  <2>10. HeldBy(Contents, vectors, idMap)
    BY <1>1, <1>3, <2>1, FlatHeldMapped
  <2>11. Contents \in [lives -> Vector]
    BY <2>5, <2>10 DEF HeldBy
  <2>12. ASSUME NEW r \in lives PROVE Contents[r] = all[r]
    <3>1. PICK p \in DOMAIN idMap : idMap[p] = r
      BY <2>5
    <3>2. Contents[r] = vectors[p]
      BY <2>10, <3>1 DEF HeldBy
    <3>3. r \in Row /\ all[r] = Vec(r)
      BY <2>4
    <3> QED BY <2>6, <3>1, <3>2, <3>3
  <2> HIDE DEF all, dead, lives
  <2>13. Contents = [r \in lives |-> all[r]]
    BY <2>11, <2>12
  <2>14. DOMAIN FlatFile.vectors \ FlatFile.dead = lives
    BY <2>2, <2>4, <2>8
  <2> QED BY <2>2, <2>8, <2>9, <2>13, <2>14 DEF FlatContent
<1> QED BY <1>2, <1>3

LEMMA BeginSaveStep ==
    ASSUME StoreInv, BeginSave
    PROVE  StoreInv' /\ Promise!BeginSave
<1>1. /\ kind \in {"flat", "ivf"} /\ kind' = kind /\ stage' = "saving"
      /\ stage \in {"ready", "changed", "compacted"}
      /\ vectors' = vectors /\ deleted' = deleted /\ lists' = lists
      /\ idMap' = idMap /\ nOrig' = nOrig
  BY DEF BeginSave, Step, flatOwn
<1>2. Contents' = Contents
  BY <1>1, ContentsSame
<1>3. Contents # Nil
  BY <1>1, HeldType
<1>4. CASE kind = "flat"
  <2>1. file' = [index |-> "flat", content |-> FlatFile, whole |-> FALSE]
    BY <1>4 DEF BeginSave, BeginWrite
  <2>2. /\ FlatFile \in FlatContent
        /\ Contents = [r \in DOMAIN FlatFile.vectors \ FlatFile.dead |->
                          FlatFile.vectors[r]]
    BY <1>4, FlatFileSound
  <2>3. file' \in Files
    BY <2>1, <2>2 DEF Files
  <2>4. FileHeld(file') = Contents
    BY <2>1, <2>2 DEF FileHeld
  <2>5. SaveInv'
    BY <1>1, <1>2, <1>4, <2>1, <2>3, <2>4, SavedNext, FileAssumption DEF SaveInv
  <2>6. Saved' = Nil
    BY <2>1, SavedNext
  <2>7. FlatInv'
    BY <1>1, <1>4 DEF StoreInv, FlatInv, Mapped
  <2> QED BY <1>1, <1>2, <1>3, <1>4, <2>3, <2>5, <2>6, <2>7
             DEF StoreInv, Promise!BeginSave
<1>5. CASE kind = "ivf"
  <2>1. file' = [index |-> "ivf", content |-> IvfFile, whole |-> FALSE]
    BY <1>5 DEF BeginSave, BeginWrite
  <2>2. IvfInv /\ Bits(deleted) \in SUBSET Row
    BY <1>5, BitsType DEF StoreInv, IvfInv
  <2> DEFINE dead == (Row \ Listed) \cup Bits(deleted)
  <2>3. IvfFile = [vectors |-> vectors, lists |-> lists, dead |-> dead]
    BY DEF IvfFile
  <2>4. Listed = ListRows(lists) /\ Listed \in SUBSET Row
    BY <2>2, IvfHeldType DEF IvfInv, Listed, InList, ListRows
  <2>5. dead \in SUBSET Row /\ Listed \ dead = Listed \ Bits(deleted)
    BY <2>2, <2>4
  <2>6. Contents = [r \in Listed \ Bits(deleted) |-> vectors[r]]
    BY <1>5, <2>4, ContentsIs DEF IvfHeld
  <2> HIDE DEF dead
  <2>7. IvfFile \in IvfContent
    BY <2>2, <2>3, <2>5 DEF IvfContent, IvfInv
  <2>8. file' \in Files
    BY <2>1, <2>7 DEF Files
  <2>9. FileHeld(file') = Contents
    BY <2>1, <2>3, <2>4, <2>5, <2>6 DEF FileHeld
  <2>10. SaveInv'
    BY <1>1, <1>2, <1>5, <2>1, <2>8, <2>9, SavedNext, FileAssumption DEF SaveInv
  <2>11. Saved' = Nil
    BY <2>1, SavedNext
  <2>12. IvfInv'
    BY <1>1, <2>2 DEF IvfInv
  <2> QED BY <1>1, <1>2, <1>3, <1>5, <2>8, <2>10, <2>11, <2>12
             DEF StoreInv, Promise!BeginSave
<1> QED BY <1>1, <1>4, <1>5

LEMMA EndSaveStep ==
    ASSUME StoreInv, EndSave
    PROVE  StoreInv' /\ Promise!EndSave
<1>1. /\ kind \in {"flat", "ivf"} /\ kind' = kind /\ stage' = "done"
      /\ stage = "saving" /\ file # Nil /\ file' = [file EXCEPT !.whole = TRUE]
      /\ vectors' = vectors /\ deleted' = deleted /\ lists' = lists
      /\ idMap' = idMap /\ nOrig' = nOrig
  BY DEF EndSave, Step, EndWrite, flatOwn
<1>2. Contents' = Contents /\ Contents # Nil
  BY <1>1, ContentsSame, HeldType
<1>3. SaveInv /\ file \in Files
  BY <1>1 DEF StoreInv
<1>4. file' \in Files /\ file'.whole /\ FileHeld(file') = FileHeld(file)
  BY <1>1, <1>3 DEF Files, FileHeld
<1>5. Saved = Nil
  BY <1>3, SavedIs DEF SaveInv
<1>6. Saved' = Contents
  BY <1>3, <1>4, SavedIs, SavedNext, FileHeldType DEF SaveInv
<1>7. kind = "flat" => FlatInv'
  BY <1>1 DEF StoreInv, FlatInv, Mapped
<1>8. kind = "ivf" => IvfInv'
  BY <1>1 DEF StoreInv, IvfInv
<1> QED BY <1>1, <1>2, <1>4, <1>5, <1>6, <1>7, <1>8
           DEF StoreInv, Kinds, Promise!EndSave

LEMMA SearchStep ==
    ASSUME StoreInv, Search
    PROVE  StoreInv' /\ Contents' = Contents /\ Saved' = Saved
<1>1. /\ kind = "flat" /\ kind' = kind /\ stage' = stage /\ file' = file
      /\ vectors' = vectors /\ deleted' = deleted /\ lists' = lists
      /\ idMap' = idMap /\ nOrig' = nOrig
  BY DEF Search, FlatSearch
<1>2. Contents' = Contents
  BY <1>1, ContentsSame
<1>3. FlatInv'
  BY <1>1 DEF StoreInv, FlatInv, Mapped
<1>4. SaveInv => SaveInv'
  BY <1>1, <1>2, FileSame DEF SaveInv
<1> QED BY <1>1, <1>2, <1>3, <1>4, FileSame DEF StoreInv

\* No step of a process does to the stored rows, or to the file, what a plain
\* store of rows would not do.
LEMMA NextHolds ==
    ASSUME StoreInv, [Next]_vars
    PROVE  StoreInv' /\ [Promise!Next]_(Promise!vars)
<1>1. ASSUME NEW k \in {"flat", "ivf", "pq", "ivf_pq"}, Build(k)
      PROVE  StoreInv' /\ Promise!Next
  BY <1>1, BuildStep DEF Promise!Next
<1>2. ASSUME NEW k \in {"flat", "ivf"}, Load(k)
      PROVE  StoreInv' /\ Promise!Next
  BY <1>2, LoadStep DEF Promise!Next
<1>3. CASE Exit
  BY <1>3, ExitStep DEF Promise!Next
<1>4. CASE Delete
  BY <1>4, DeleteStep DEF Promise!Next
<1>5. CASE Update
  BY <1>5, UpdateStep DEF Promise!Next
<1>6. CASE Compact
  BY <1>6, CompactStep DEF Promise!vars
<1>7. CASE BeginSave
  BY <1>7, BeginSaveStep DEF Promise!Next
<1>8. CASE EndSave
  BY <1>8, EndSaveStep DEF Promise!Next
<1>9. CASE Search
  BY <1>9, SearchStep DEF Promise!vars
<1>10. CASE UNCHANGED vars
  <2>1. /\ kind' = kind /\ stage' = stage /\ file' = file
        /\ vectors' = vectors /\ deleted' = deleted /\ lists' = lists
        /\ idMap' = idMap /\ nOrig' = nOrig
    BY <1>10 DEF vars, flatOwn
  <2>2. Contents' = Contents
    BY <2>1, ContentsIs, ContentsNext DEF StoreInv
  <2>3. SaveInv => SaveInv'
    BY <2>1, <2>2, FileSame DEF SaveInv
  <2>4. FlatInv => FlatInv'
    BY <2>1 DEF FlatInv, Mapped
  <2>5. IvfInv => IvfInv'
    BY <2>1 DEF IvfInv
  <2> QED BY <2>1, <2>2, <2>3, <2>4, <2>5, FileSame DEF StoreInv, Promise!vars
<1> QED BY <1>1, <1>2, <1>3, <1>4, <1>5, <1>6, <1>7, <1>8, <1>9, <1>10 DEF Next

\* Both indexes hold the rows that a plain store of rows would hold, across
\* deletes, updates, compactions, saves, loads, kills and processes, for every
\* corpus and all change sets (bench.py; CONTRACT 15.1).
THEOREM RowsKept == Spec => Implements
<1>1. Init => StoreInv /\ Promise!Init
  BY InitHolds
<1>2. StoreInv /\ [Next]_vars => StoreInv' /\ [Promise!Next]_(Promise!vars)
  BY NextHolds
<1> QED BY <1>1, <1>2, PTL DEF Spec, Implements, Promise!Spec

-----------------------------------------------------------------------------
(* The best of what is scored.                                             *)

\* Members with a score and a row of their own.
Scored(P, s, id) ==
    /\ IsFiniteSet(P)
    /\ \A p \in P : s[p] \in Int /\ id[p] \in Nat
    /\ \A p, q \in P : id[p] = id[q] => p = q

Ahead(P, s, id) ==
    [p \in P |-> {q \in P : s[q] > s[p] \/ (s[q] = s[p] /\ id[q] < id[p])}]

Place(P, s, id) == Ranks(Ahead(P, s, id), P)

LEMMA AheadIs ==
    ASSUME NEW P, NEW s, NEW id, Scored(P, s, id)
    PROVE  IsOrder(Ahead(P, s, id), P)
<1> DEFINE B == Ahead(P, s, id)
<1>1. /\ IsFiniteSet(P) /\ \A p \in P : s[p] \in Int /\ id[p] \in Nat
      /\ \A p, q \in P : id[p] = id[q] => p = q
  BY DEF Scored
<1>2. B \in [P -> SUBSET P]
  BY DEF Ahead
<1>3. \A p, q \in P : q \in B[p] <=> s[q] > s[p] \/ (s[q] = s[p] /\ id[q] < id[p])
  BY DEF Ahead
<1> HIDE DEF B
<1>4. \A p \in P : p \notin B[p]
  BY <1>1, <1>3
<1>5. ASSUME NEW p \in P, NEW q \in P, p \in B[q], NEW x \in B[p]
      PROVE  x \in B[q]
  <2>1. x \in P
    BY <1>2
  <2>2. /\ s[p] > s[q] \/ (s[p] = s[q] /\ id[p] < id[q])
        /\ s[x] > s[p] \/ (s[x] = s[p] /\ id[x] < id[p])
    BY <1>3, <1>5, <2>1
  <2>3. s[x] > s[q] \/ (s[x] = s[q] /\ id[x] < id[q])
    BY <1>1, <2>1, <2>2
  <2> QED BY <1>3, <2>1, <2>3
<1>6. ASSUME NEW p \in P, NEW q \in P, p # q PROVE p \in B[q] \/ q \in B[p]
  <2>1. /\ s[p] \in Int /\ s[q] \in Int /\ id[p] \in Nat /\ id[q] \in Nat
        /\ id[p] # id[q]
    BY <1>1, <1>6
  <2> QED BY <1>3, <2>1
<1> QED BY <1>1, <1>2, <1>4, <1>5, <1>6 DEF IsOrder, B

LEMMA PlaceIs ==
    ASSUME NEW P, NEW s, NEW id, Scored(P, s, id)
    PROVE  /\ IsRanking(Place(P, s, id), P)
           /\ \A p \in P : Place(P, s, id)[p] = Cardinality(Ahead(P, s, id)[p])
           /\ \A p, q \in P :
                 p \in Ahead(P, s, id)[q] => Place(P, s, id)[p] < Place(P, s, id)[q]
<1>1. IsOrder(Ahead(P, s, id), P)
  BY AheadIs
<1> QED BY <1>1, OrderRanks DEF Place, Ranks

Same(S) == [x \in S |-> x]

\* The definition in these terms.
LEMMA BestRowsIs ==
    ASSUME NEW score, NEW S \in SUBSET Nat, IsFiniteSet(S), score \in [S -> Int],
           NEW k \in Nat
    PROVE  /\ Scored(S, score, Same(S)) /\ Cardinality(S) \in Nat
           /\ DOMAIN BestRows(score, k) = 1 .. k
           /\ \A i \in 1 .. k : i > Cardinality(S) => BestRows(score, k)[i] = -1
           /\ \A i \in 1 .. k : i <= Cardinality(S) =>
                 /\ BestRows(score, k)[i] \in S
                 /\ Place(S, score, Same(S))[BestRows(score, k)[i]] = i - 1
<1> DEFINE c == Cardinality(S)
           R == Place(S, score, Same(S))
           b == BestRows(score, k)
           Above(r) == {x \in S : \/ score[x] > score[r]
                                  \/ score[x] = score[r] /\ x < r}
<1>1. Scored(S, score, Same(S))
  BY DEF Scored, Same
<1>2. DOMAIN score = S
  OBVIOUS
<1>3. \A r \in S : R[r] = Cardinality(Above(r))
  <2>1. \A r \in S : Ahead(S, score, Same(S))[r] = Above(r)
    BY DEF Ahead, Same
  <2> HIDE DEF Above, R
  <2> QED BY <1>1, <2>1, PlaceIs DEF R
<1>4. c \in Nat /\ \A i \in 0 .. c - 1 : \E x \in S : R[x] = i
  <2> HIDE DEF R
  <2>1. IsRanking(R, S)
    BY <1>1, PlaceIs DEF R
  <2> QED BY <2>1 DEF IsRanking
<1>5. b = [i \in 1 .. k |-> IF i > c THEN -1
             ELSE [j \in 0 .. c - 1 |-> CHOOSE r \in S : Cardinality(Above(r)) = j][i - 1]]
  BY <1>2 DEF BestRows
<1> HIDE DEF b, c, R, Above
<1>6. \A i \in 1 .. k : i > c => b[i] = -1
  BY <1>5
<1>7. ASSUME NEW i \in 1 .. k, i <= c
      PROVE  b[i] \in S /\ R[b[i]] = i - 1
  <2>1. i - 1 \in 0 .. c - 1 /\ ~(i > c)
    BY <1>4, <1>7
  <2>2. b[i] = CHOOSE r \in S : Cardinality(Above(r)) = i - 1
    BY <1>5, <2>1
  <2>3. \E r \in S : Cardinality(Above(r)) = i - 1
    BY <1>3, <1>4, <2>1
  <2> QED BY <1>3, <2>2, <2>3
<1>8. DOMAIN b = 1 .. k
  BY <1>5
<1> QED BY <1>1, <1>4, <1>6, <1>7, <1>8 DEF b, c, R

\* Rows have scores.
IsScore(score) ==
    /\ DOMAIN score \in SUBSET Nat /\ IsFiniteSet(DOMAIN score)
    /\ score \in [DOMAIN score -> Int]

IsBest(a, score, k) ==
    LET S == DOMAIN score
    IN  /\ a = [i \in 1 .. k |-> a[i]]
        /\ \A i \in 1 .. k : i > Cardinality(S) => a[i] = -1
        /\ \A i \in 1 .. k : i <= Cardinality(S) =>
               a[i] \in S /\ Place(S, score, Same(S))[a[i]] = i - 1

\* There is one such answer.
LEMMA BestRowsAre ==
    ASSUME NEW score, IsScore(score), NEW k \in Nat, NEW a, IsBest(a, score, k)
    PROVE  a = BestRows(score, k)
<1> DEFINE S == DOMAIN score
           b == BestRows(score, k)
           R == Place(S, score, Same(S))
           c == Cardinality(S)
<1>0. b = [i \in 1 .. k |-> b[i]]
  BY DEF BestRows
<1>s. S \in SUBSET Nat /\ IsFiniteSet(S) /\ score \in [S -> Int]
  BY DEF IsScore
<1>a. a = [i \in 1 .. k |-> a[i]]
  BY DEF IsBest
<1>1. /\ Scored(S, score, Same(S)) /\ c \in Nat
      /\ \A i \in 1 .. k : i > c => b[i] = -1
      /\ \A i \in 1 .. k : i <= c => b[i] \in S /\ R[b[i]] = i - 1
  <2> HIDE DEF b, S
  <2> QED BY <1>s, BestRowsIs DEF b
<1>2. \A x, z \in S : R[x] = R[z] => x = z
  <2>1. IsRanking(R, S)
    BY <1>1, PlaceIs
  <2> HIDE DEF R, S
  <2> QED BY <2>1 DEF IsRanking
<1> HIDE DEF b, R, c
<1>3. \A i \in 1 .. k : i > c => a[i] = -1
  BY DEF c, IsBest
<1>4. \A i \in 1 .. k : i <= c => a[i] \in S /\ R[a[i]] = i - 1
  BY DEF c, R, IsBest
<1> HIDE DEF S
<1>5. ASSUME NEW i \in 1 .. k PROVE a[i] = b[i]
  <2>1. CASE i > c
    BY <1>1, <1>3, <2>1
  <2>2. CASE i <= c
    BY <1>1, <1>2, <1>4, <2>2
  <2> QED BY <1>1, <2>1, <2>2
<1> QED BY <1>0, <1>a, <1>5 DEF b

\* A part that holds all that is ahead of each of its members.
Upper(T, P, s, id) ==
    /\ T \subseteq P
    /\ \A p \in T : Ahead(P, s, id)[p] \subseteq T

LEMMA UpperPlaces ==
    ASSUME NEW P, NEW s, NEW id, Scored(P, s, id), NEW T, Upper(T, P, s, id)
    PROVE  /\ Scored(T, s, id)
           /\ \A p \in T : Place(T, s, id)[p] = Place(P, s, id)[p]
<1>1. T \in SUBSET P
  BY DEF Upper
<1>2. Scored(T, s, id)
  <2>1. IsFiniteSet(T)
    BY <1>1, FS_Subset DEF Scored
  <2> QED BY <1>1, <2>1 DEF Scored
<1>3. \A p \in T : Ahead(T, s, id)[p] = Ahead(P, s, id)[p]
  BY <1>1 DEF Upper, Ahead
<1>4. \A p \in T : /\ Place(T, s, id)[p] = Cardinality(Ahead(T, s, id)[p])
                   /\ Place(P, s, id)[p] = Cardinality(Ahead(P, s, id)[p])
  BY <1>1, <1>2, PlaceIs
<1> QED BY <1>2, <1>3, <1>4

AtOrOver(t, P, s) == {p \in P : s[p] >= t}

IsKth(p, P, s, kk) ==
    /\ Cardinality(AtOrOver(s[p], P, s)) >= kk
    /\ Cardinality(AtOrOver(s[p] + 1, P, s)) < kk

\* Some score is the k-th best, and all that is among the k best is at or over
\* that.
LEMMA KthIs ==
    ASSUME NEW P, NEW s, NEW id, Scored(P, s, id), NEW kk \in Nat \ {0},
           kk <= Cardinality(P)
    PROVE  /\ \E p \in P : IsKth(p, P, s, kk)
           /\ \A p \in P : IsKth(p, P, s, kk) =>
                 LET T == AtOrOver(s[p], P, s)
                 IN  /\ Upper(T, P, s, id)
                     /\ Cardinality(T) \in Nat /\ Cardinality(T) >= kk
<1> DEFINE R == Place(P, s, id)
           A(p) == Ahead(P, s, id)[p]
           T(t) == AtOrOver(t, P, s)
<1>1. IsFiniteSet(P) /\ \A p \in P : s[p] \in Int /\ id[p] \in Nat
  BY DEF Scored
<1>2. IsRanking(R, P) /\ \A p \in P : R[p] = Cardinality(A(p))
  BY PlaceIs
<1>3. ASSUME NEW t PROVE IsFiniteSet(T(t)) /\ Cardinality(T(t)) \in Nat
  <2>1. T(t) \in SUBSET P
    BY DEF AtOrOver
  <2>2. IsFiniteSet(T(t))
    BY <1>1, <2>1, FS_Subset
  <2> QED BY <2>2, FS_CardinalityType
<1>4. \A p, q \in P : q \in A(p) <=> s[q] > s[p] \/ (s[q] = s[p] /\ id[q] < id[p])
  BY DEF Ahead
<1>5. \A p \in P : A(p) \in SUBSET P /\ IsFiniteSet(A(p)) /\ p \notin A(p)
  <2>1. ASSUME NEW p \in P PROVE A(p) \in SUBSET P /\ p \notin A(p)
    BY <1>1 DEF Ahead
  <2> QED BY <1>1, <2>1, FS_Subset
<1>6. PICK p \in P : R[p] = kk - 1
  <2>1. kk - 1 \in 0 .. Cardinality(P) - 1
    BY <1>2 DEF IsRanking
  <2> HIDE DEF R
  <2> QED BY <1>2, <2>1 DEF IsRanking
<1> HIDE DEF R, A
<1>7. Cardinality(T(s[p])) >= kk
  <2>1. A(p) \cup {p} \in SUBSET T(s[p])
    <3>1. ASSUME NEW q \in A(p) PROVE q \in P /\ s[q] >= s[p]
      <4>1. q \in P /\ s[q] \in Int /\ s[p] \in Int
        BY <1>1, <1>5
      <4> QED BY <1>4, <4>1
    <3>2. s[p] >= s[p]
      BY <1>1
    <3> QED BY <3>1, <3>2 DEF AtOrOver
  <2>2. Cardinality(A(p) \cup {p}) = Cardinality(A(p)) + 1
    BY <1>5, FS_AddElement
  <2>3. Cardinality(A(p) \cup {p}) <= Cardinality(T(s[p]))
    BY <1>3, <2>1, FS_Subset
  <2>4. Cardinality(A(p)) = kk - 1
    BY <1>2, <1>6
  <2>5. Cardinality(T(s[p])) \in Nat
    BY <1>3
  <2> HIDE DEF T
  <2> QED BY <2>2, <2>3, <2>4, <2>5
<1>8. Cardinality(T(s[p] + 1)) < kk
  <2>1. T(s[p] + 1) \in SUBSET A(p)
    <3>1. ASSUME NEW q \in P, s[q] >= s[p] + 1 PROVE q \in A(p)
      <4>1. s[q] > s[p]
        BY <1>1, <3>1
      <4> QED BY <1>4, <4>1
    <3> QED BY <3>1 DEF AtOrOver
  <2>2. Cardinality(T(s[p] + 1)) <= Cardinality(A(p))
    BY <1>5, <2>1, FS_Subset
  <2>3. Cardinality(A(p)) = kk - 1 /\ Cardinality(T(s[p] + 1)) \in Nat
    BY <1>2, <1>3, <1>6
  <2> HIDE DEF T
  <2> QED BY <2>2, <2>3
<1>9. IsKth(p, P, s, kk)
  BY <1>7, <1>8 DEF IsKth
<1>10. ASSUME NEW o \in P, IsKth(o, P, s, kk)
       PROVE  /\ Upper(T(s[o]), P, s, id)
              /\ Cardinality(T(s[o])) \in Nat /\ Cardinality(T(s[o])) >= kk
  <2>1. ASSUME NEW q \in T(s[o]), NEW x \in A(q) PROVE x \in T(s[o])
    <3>1. q \in P /\ s[q] >= s[o]
      BY DEF AtOrOver
    <3>2. x \in P
      BY <1>5, <3>1
    <3>3. s[x] >= s[q]
      BY <1>1, <1>4, <3>1, <3>2
    <3>4. s[x] >= s[o]
      BY <1>1, <3>1, <3>2, <3>3
    <3> QED BY <3>2, <3>4 DEF AtOrOver
  <2>2. T(s[o]) \subseteq P
    BY DEF AtOrOver
  <2> QED BY <1>3, <1>10, <2>1, <2>2 DEF Upper, IsKth, A
<1> QED BY <1>6, <1>9, <1>10

LEMMA ImageSize ==
    ASSUME NEW X, IsFiniteSet(X), NEW f, \A x, y \in X : f[x] = f[y] => x = y
    PROVE  /\ IsFiniteSet({f[x] : x \in X})
           /\ Cardinality({f[x] : x \in X}) = Cardinality(X)
<1> DEFINE Y == {f[x] : x \in X}
           g == [x \in X |-> f[x]]
<1>1. g \in [X -> Y] /\ \A x, y \in X : g[x] = g[y] => x = y
  OBVIOUS
<1>2. \A y \in Y : \E x \in X : g[x] = y
  OBVIOUS
<1> HIDE DEF Y, g
<1>3. g \in Bijection(X, Y)
  BY <1>1, <1>2 DEF Bijection, Injection, Surjection, IsInjective
<1>4. ExistsBijection(X, Y)
  BY <1>3 DEF ExistsBijection
<1> QED BY <1>4, FS_Bijection DEF Y

\* The rows of a scored list rank as their places in it do.
Gives(P, s, id, score) ==
    /\ Scored(P, s, id)
    /\ score \in [{id[p] : p \in P} -> Int]
    /\ \A p \in P : score[id[p]] = s[p]

LEMMA PlacesOfRows ==
    ASSUME NEW P, NEW s, NEW id, NEW score, Gives(P, s, id, score)
    PROVE  /\ IsScore(score) /\ Cardinality(DOMAIN score) = Cardinality(P)
           /\ \A p \in P :
                 /\ id[p] \in DOMAIN score
                 /\ Place(DOMAIN score, score, Same(DOMAIN score))[id[p]]
                       = Place(P, s, id)[p]
<1> DEFINE T == DOMAIN score
<1>t. /\ Scored(P, s, id) /\ T = {id[p] : p \in P}
      /\ score \in [T -> Int] /\ \A p \in P : score[id[p]] = s[p]
  BY DEF Gives
<1> HIDE DEF T
<1>1. /\ IsFiniteSet(P) /\ \A p \in P : s[p] \in Int /\ id[p] \in Nat
      /\ \A p, q \in P : id[p] = id[q] => p = q
  BY <1>t DEF Scored
<1>2. T \in SUBSET Nat /\ IsFiniteSet(T) /\ Cardinality(T) = Cardinality(P)
  BY <1>1, <1>t, ImageSize
<1>3. Scored(T, score, Same(T))
  BY <1>2, <1>t DEF Scored, Same
<1>4. ASSUME NEW p \in P
      PROVE  Place(T, score, Same(T))[id[p]] = Place(P, s, id)[p]
  <2> DEFINE A == Ahead(P, s, id)[p]
             B == Ahead(T, score, Same(T))[id[p]]
  <2>1. A = {q \in P : s[q] > s[p] \/ (s[q] = s[p] /\ id[q] < id[p])}
    BY DEF Ahead
  <2>2. B = {t \in T : score[t] > score[id[p]]
                         \/ (score[t] = score[id[p]] /\ t < id[p])}
    BY <1>t DEF Ahead, Same
  <2> HIDE DEF A, B
  <2>3. B = {id[q] : q \in A}
    <3>1. ASSUME NEW q \in A PROVE id[q] \in B
      BY <1>t, <2>1, <2>2
    <3>2. ASSUME NEW t \in B PROVE \E q \in A : t = id[q]
      <4>1. PICK q \in P : t = id[q]
        BY <1>t, <2>2
      <4>2. q \in A
        BY <1>t, <2>1, <2>2, <4>1
      <4> QED BY <4>1, <4>2
    <3> QED BY <3>1, <3>2
  <2>4. A \in SUBSET P /\ IsFiniteSet(A)
    <3>1. A \in SUBSET P
      BY <2>1
    <3> QED BY <1>1, <3>1, FS_Subset
  <2>5. Cardinality(B) = Cardinality(A)
    <3>1. \A x, y \in A : id[x] = id[y] => x = y
      BY <1>1, <2>4
    <3> QED BY <2>3, <2>4, <3>1, ImageSize
  <2>6. id[p] \in T
    BY <1>t
  <2>7. Scored(P, s, id)
    BY <1>t
  <2>8. Place(P, s, id)[p] = Cardinality(A)
    BY <2>7, PlaceIs DEF A
  <2>9. Place(T, score, Same(T))[id[p]] = Cardinality(B)
    BY <1>3, <2>6, PlaceIs DEF B
  <2> QED BY <2>5, <2>8, <2>9
<1>5. \A p \in P : id[p] \in T
  BY <1>t
<1>6. IsScore(score)
  BY <1>2, <1>t DEF IsScore, T
<1> QED BY <1>2, <1>4, <1>5, <1>6 DEF T

ScoredList(m, s, ids) ==
    m \in Nat /\ s \in [1 .. m -> Int] /\ Scored(1 .. m, s, ids)

\* The i-th of k answers is the row of the i-th place of a list, -1 past its end.
TakenInOrder(a, m, s, ids, k) ==
    /\ a = [i \in 1 .. k |-> a[i]]
    /\ \A i \in 1 .. k : i > m => a[i] = -1
    /\ \A i \in 1 .. k : i <= m =>
          \E p \in 1 .. m : a[i] = ids[p] /\ Place(1 .. m, s, ids)[p] = i - 1

\* Where the best of a list are.
LEMMA TopKPlaces ==
    ASSUME NEW m, NEW s, NEW ids, ScoredList(m, s, ids), NEW k \in Nat
    PROVE  TakenInOrder(TopK(s, k, ids), m, s, ids, k)
<1> DEFINE P == 1 .. m
           kk == IF k < m THEN k ELSE m
           pos == IF kk = 0 THEN {}
                  ELSE IF kk < m
                  THEN AtOrOver(s[CHOOSE p \in P : IsKth(p, P, s, kk)], P, s)
                  ELSE P
           R == Place(pos, s, ids)
           a == TopK(s, k, ids)
<1>0. m \in Nat /\ s \in [1 .. m -> Int] /\ Scored(1 .. m, s, ids)
  BY DEF ScoredList
<1>1. Len(s) = m /\ DOMAIN s = P
  BY <1>0
<1>2. a = [i \in 1 .. k |-> IF i <= kk THEN ids[ByRank(R)[i]] ELSE -1]
  <2> DEFINE pos2 == IF kk = 0 THEN {}
               ELSE IF kk < m
               THEN {o \in P : s[o] >= s[CHOOSE p \in P :
                        /\ Cardinality({q \in P : s[q] >= s[p]}) >= kk
                        /\ Cardinality({q \in P : s[q] >= s[p] + 1}) < kk]}
               ELSE P
             R2(T) == [p \in T |-> Cardinality({q \in T :
                         s[q] > s[p] \/ (s[q] = s[p] /\ ids[q] < ids[p])})]
  <2>1. pos = pos2
    BY DEF AtOrOver, IsKth
  <2>2. \A T : Place(T, s, ids) = R2(T)
    BY DEF Place, Ranks, Ahead
  <2>3. a = [i \in 1 .. k |-> IF i <= kk THEN ids[ByRank(R2(pos2))[i]] ELSE -1]
    BY <1>1 DEF TopK
  <2> HIDE DEF pos, pos2, R2
  <2>4. R = R2(pos2)
    BY <2>1, <2>2
  <2> HIDE DEF R, kk
  <2> QED BY <2>3, <2>4
<1>3. kk \in Nat /\ kk <= k /\ kk <= m /\ (kk = k \/ kk = m)
  BY <1>0
<1>4. IsFiniteSet(P) /\ Cardinality(P) = m
  BY <1>0, FS_Interval
<1>5. kk # 0 => /\ Upper(pos, P, s, ids)
                /\ Cardinality(pos) \in Nat /\ Cardinality(pos) >= kk
  <2> SUFFICES ASSUME kk # 0
               PROVE  /\ Upper(pos, P, s, ids)
                      /\ Cardinality(pos) \in Nat /\ Cardinality(pos) >= kk
    OBVIOUS
  <2>1. CASE kk < m
    <3> DEFINE o == CHOOSE p \in P : IsKth(p, P, s, kk)
    <3>1. pos = AtOrOver(s[o], P, s)
      BY <2>1
    <3>2. kk \in Nat \ {0} /\ kk <= Cardinality(P) /\ Scored(P, s, ids)
      BY <1>0, <1>3, <1>4
    <3> HIDE DEF kk, pos, P
    <3>3. \E p \in P : IsKth(p, P, s, kk)
      BY <3>2, KthIs
    <3>4. o \in P /\ IsKth(o, P, s, kk)
      BY <3>3
    <3> HIDE DEF o
    <3> QED BY <3>1, <3>2, <3>4, KthIs
  <2>2. CASE ~(kk < m)
    <3>1. pos = P
      BY <2>2
    <3>2. kk = m
      BY <1>3, <2>2
    <3>3. \A p \in P : Ahead(P, s, ids)[p] \subseteq P
      BY DEF Ahead
    <3> QED BY <1>3, <1>4, <3>1, <3>2, <3>3 DEF Upper
  <2> QED BY <2>1, <2>2
<1> HIDE DEF a, kk, pos, R
<1>6. ASSUME NEW i \in 1 .. k, i <= kk
      PROVE  \E p \in P : a[i] = ids[p] /\ Place(P, s, ids)[p] = i - 1
  <2>1. kk # 0 /\ i \in 1 .. kk
    BY <1>3, <1>6
  <2>2. i \in 1 .. Cardinality(pos)
    BY <1>3, <1>5, <2>1
  <2>3. Scored(pos, s, ids) /\ \A p \in pos : R[p] = Place(P, s, ids)[p]
    BY <1>0, <1>5, <2>1, UpperPlaces DEF R
  <2>4. IsRanking(R, pos)
    BY <2>3, PlaceIs DEF R
  <2>5. ByRank(R)[i] \in pos /\ R[ByRank(R)[i]] = i - 1
    BY <2>2, <2>4, ByRankIs
  <2>6. a[i] = ids[ByRank(R)[i]]
    BY <1>2, <1>6
  <2>7. pos \subseteq P
    BY <1>5, <2>1 DEF Upper
  <2> QED BY <2>3, <2>5, <2>6, <2>7
<1>7. ASSUME NEW i \in 1 .. k, i > m PROVE a[i] = -1
  <2>1. ~(i <= kk)
    BY <1>0, <1>3, <1>7
  <2> QED BY <1>2, <2>1
<1>8. ASSUME NEW i \in 1 .. k, i <= m PROVE i <= kk
  BY <1>3, <1>8
<1>9. a = [i \in 1 .. k |-> a[i]]
  BY <1>2
<1>10. TakenInOrder(a, m, s, ids, k)
  BY <1>6, <1>7, <1>8, <1>9 DEF TakenInOrder
<1> QED BY <1>10 DEF a

\* top_k returns the best rows of what it is given, by the definition.
LEMMA TopKIs ==
    ASSUME NEW m \in Nat, NEW s \in [1 .. m -> Int], NEW ids, NEW k \in Nat,
           NEW score, Gives(1 .. m, s, ids, score)
    PROVE  TopK(s, k, ids) = BestRows(score, k) /\ IsScore(score)
<1> DEFINE P == 1 .. m
           a == TopK(s, k, ids)
           T == DOMAIN score
<1>1. IsFiniteSet(P) /\ Cardinality(P) = m
  BY FS_Interval
<1>2. /\ a = [i \in 1 .. k |-> a[i]]
      /\ \A i \in 1 .. k : i > m => a[i] = -1
      /\ \A i \in 1 .. k : i <= m =>
            \E p \in P : a[i] = ids[p] /\ Place(P, s, ids)[p] = i - 1
  <2>1. ScoredList(m, s, ids) /\ k \in Nat
    BY DEF Gives, ScoredList
  <2>2. TakenInOrder(TopK(s, k, ids), m, s, ids, k)
    BY <2>1, TopKPlaces
  <2> QED BY <2>2 DEF TakenInOrder
<1>3. Gives(P, s, ids, score)
  OBVIOUS
<1> HIDE DEF P, a
<1>4. /\ IsScore(score) /\ Cardinality(T) = Cardinality(P)
      /\ \A p \in P : /\ ids[p] \in T
                      /\ Place(T, score, Same(T))[ids[p]] = Place(P, s, ids)[p]
  BY <1>3, PlacesOfRows
<1> HIDE DEF T
<1>5. \A i \in 1 .. k : i > Cardinality(T) => a[i] = -1
  BY <1>1, <1>2, <1>4
<1>6. \A i \in 1 .. k : i <= Cardinality(T) =>
          a[i] \in T /\ Place(T, score, Same(T))[a[i]] = i - 1
  BY <1>1, <1>2, <1>4
<1>7. IsBest(a, score, k)
  BY <1>2, <1>5, <1>6 DEF IsBest, T
<1>8. a = BestRows(score, k)
  BY <1>4, <1>7, BestRowsAre
<1> QED BY <1>4, <1>8 DEF a


-----------------------------------------------------------------------------
(* Sequences that hold each member of a set once.                          *)

OnceEach(a, S) ==
    /\ a \in Seq(S)
    /\ \A x \in S : \E i \in 1 .. Len(a) : a[i] = x
    /\ \A i, j \in 1 .. Len(a) : a[i] = a[j] => i = j

LEMMA AscendingOnce ==
    ASSUME NEW S \in SUBSET Nat, IsFiniteSet(S)
    PROVE  OnceEach(Ascending(S), S)
<1>1. PICK a : a = Ascending(S)
  OBVIOUS
<1>2. PICK c : c = Cardinality(S)
  OBVIOUS
<1>3. /\ a \in [1 .. c -> S] /\ c \in Nat /\ Len(a) = c
      /\ \A x \in S : \E i \in 1 .. c : a[i] = x
      /\ \A i, j \in 1 .. c : a[i] = a[j] => i = j
  BY <1>1, <1>2, AscendingIs
<1>4. a \in Seq(S)
  BY <1>3
<1> QED BY <1>1, <1>3, <1>4 DEF OnceEach

LEMMA JoinOnce ==
    ASSUME NEW a, NEW b, NEW S, NEW T, OnceEach(a, S), OnceEach(b, T),
           \A x \in S : x \notin T
    PROVE  OnceEach(a \o b, S \cup T)
<1> DEFINE U == S \cup T
           m == Len(a)
           l == Len(b)
           c == a \o b
<1>1. /\ a \in Seq(S) /\ b \in Seq(T) /\ m \in Nat /\ l \in Nat
      /\ \A i \in 1 .. m : a[i] \in S
      /\ \A i \in 1 .. l : b[i] \in T
  BY DEF OnceEach
<1>2. a \in Seq(U) /\ b \in Seq(U)
  BY <1>1
<1>3. c \in Seq(U) /\ Len(c) = m + l
  <2> HIDE DEF U
  <2> QED BY <1>2
<1>4. \A i \in 1 .. m : c[i] = a[i]
  <2> HIDE DEF U
  <2> QED BY <1>2
<1>5. \A i \in 1 .. l : c[m + i] = b[i]
  <2> HIDE DEF U
  <2> QED BY <1>2
<1> HIDE DEF c, U, m, l
<1>6. ASSUME NEW x \in U PROVE \E i \in 1 .. Len(c) : c[i] = x
  <2>1. CASE x \in S
    <3>1. PICK i \in 1 .. m : a[i] = x
      BY <2>1 DEF OnceEach, m
    <3> QED BY <1>1, <1>3, <1>4, <3>1
  <2>2. CASE x \in T
    <3>1. PICK i \in 1 .. l : b[i] = x
      BY <2>2 DEF OnceEach, l
    <3>2. m + i \in 1 .. Len(c)
      BY <1>1, <1>3
    <3> QED BY <1>5, <3>1, <3>2
  <2> QED BY <2>1, <2>2 DEF U
<1>7. ASSUME NEW i \in 1 .. Len(c)
      PROVE  \/ i \in 1 .. m /\ c[i] = a[i] /\ c[i] \in S
             \/ i - m \in 1 .. l /\ c[i] = b[i - m] /\ c[i] \in T
  <2>1. CASE i <= m
    <3>1. i \in 1 .. m
      BY <1>1, <1>3, <2>1
    <3> QED BY <1>1, <1>4, <3>1
  <2>2. CASE ~(i <= m)
    <3>1. i - m \in 1 .. l /\ m + (i - m) = i
      BY <1>1, <1>3, <2>2
    <3> QED BY <1>1, <1>5, <3>1
  <2> QED BY <2>1, <2>2
<1>8. ASSUME NEW i \in 1 .. Len(c), NEW j \in 1 .. Len(c), c[i] = c[j] PROVE i = j
  <2>1. CASE i \in 1 .. m /\ c[i] = a[i] /\ c[i] \in S
    <3>1. j \in 1 .. m /\ c[j] = a[j]
      BY <1>7, <1>8, <2>1
    <3> QED BY <1>8, <2>1, <3>1 DEF OnceEach, m
  <2>2. CASE i - m \in 1 .. l /\ c[i] = b[i - m] /\ c[i] \in T
    <3>1. j - m \in 1 .. l /\ c[j] = b[j - m]
      BY <1>7, <1>8, <2>2
    <3>2. i - m = j - m
      BY <1>8, <2>2, <3>1 DEF OnceEach, l
    <3> QED BY <1>1, <1>3, <3>2
  <2> QED BY <1>7, <2>1, <2>2
<1> QED BY <1>3, <1>6, <1>8 DEF OnceEach, U, c

\* A sum of sets, in steps.
Upto(sets, k) == UNION {sets[i] : i \in 1 .. k}

\* Parts that hold the sets, no two of which share a member.
PartsOf(parts, sets, m) ==
    /\ m \in Nat /\ parts = [i \in 1 .. m |-> parts[i]]
    /\ \A i \in 1 .. m : OnceEach(parts[i], sets[i])
    /\ \A i, j \in 1 .. m : \A x \in sets[i] : x \in sets[j] => i = j

\* Joined one after another they hold the sum.
LEMMA ConcatIs ==
    ASSUME NEW parts, NEW sets, NEW m, PartsOf(parts, sets, m)
    PROVE  OnceEach(Concat(parts), Upto(sets, m))
<1> DEFINE With(g, i) == g \o parts[i]
           Growing(g, k) == [i \in 0 .. k |-> IF i = 0 THEN << >> ELSE With(g[i - 1], i)]
           There(k) == \E g : g = Growing(g, k)
           T == {k \in Nat : There(k)}
<1>0. /\ m \in Nat /\ DOMAIN parts = 1 .. m
      /\ \A i \in 1 .. m : OnceEach(parts[i], sets[i])
      /\ \A i, j \in 1 .. m : \A x \in sets[i] : x \in sets[j] => i = j
  BY DEF PartsOf
<1>1. 0 \in T
  <2> HIDE DEF With
  <2>1. [i \in 0 .. 0 |-> << >>] = Growing([i \in 0 .. 0 |-> << >>], 0)
    OBVIOUS
  <2> HIDE DEF Growing
  <2> QED BY <2>1
<1>2. ASSUME NEW k \in T PROVE k + 1 \in T
  <2> HIDE DEF With
  <2>1. k \in Nat /\ There(k)
    OBVIOUS
  <2>2. PICK g : g = Growing(g, k)
    <3> HIDE DEF Growing
    <3> QED BY <2>1
  <2> DEFINE h == [i \in 0 .. k + 1 |-> IF i <= k THEN g[i] ELSE With(g[k], k + 1)]
  <2>3. ASSUME NEW i \in 0 .. k + 1 PROVE h[i] = Growing(h, k + 1)[i]
    <3>1. CASE i = 0
      <4>1. g[0] = << >>
        BY <2>1, <2>2
      <4> QED BY <2>1, <3>1, <4>1
    <3>2. CASE i # 0 /\ i <= k
      <4>1. i \in 0 .. k /\ i - 1 \in 0 .. k + 1 /\ i - 1 <= k
        BY <2>1, <3>2
      <4>2. g[i] = With(g[i - 1], i)
        BY <2>2, <3>2, <4>1
      <4>3. h[i] = g[i] /\ h[i - 1] = g[i - 1]
        BY <3>2, <4>1
      <4> QED BY <3>2, <4>2, <4>3
    <3>3. CASE i = k + 1
      <4>1. k \in 0 .. k + 1 /\ i - 1 = k /\ ~(i <= k) /\ i # 0 /\ k <= k
        BY <2>1, <3>3
      <4>2. h[i] = With(g[k], i) /\ h[k] = g[k]
        BY <3>3, <4>1
      <4> QED BY <4>1, <4>2
    <3> QED BY <2>1, <3>1, <3>2, <3>3
  <2>4. h = Growing(h, k + 1)
    BY <2>3
  <2> HIDE DEF h, Growing
  <2> QED BY <2>1, <2>4
<1>3. T = Nat
  <2> HIDE DEF T
  <2>1. T \in SUBSET Nat
    BY DEF T
  <2> QED BY <1>1, <1>2, <2>1, SetInduction
<1>4. There(m)
  <2> HIDE DEF There
  <2> QED BY <1>0, <1>3
<1> DEFINE s == CHOOSE g : g = Growing(g, m)
<1>5. s = Growing(s, m)
  <2> HIDE DEF Growing
  <2> QED BY <1>4
<1>6. Len(parts) = m
  BY <1>0 DEF PartsOf
<1>7. Concat(parts) = s[m]
  BY <1>6 DEF Concat
<1> DEFINE U == {k \in Nat : k <= m => OnceEach(s[k], Upto(sets, k))}
<1>8. 0 \in U
  <2> HIDE DEF s
  <2>1. s[0] = << >>
    BY <1>0, <1>5
  <2>2. OnceEach(<< >>, {})
    BY DEF OnceEach
  <2>3. Upto(sets, 0) = {}
    BY DEF Upto
  <2> QED BY <2>1, <2>2, <2>3
<1>9. ASSUME NEW k \in U PROVE k + 1 \in U
  <2> HIDE DEF s
  <2>1. SUFFICES ASSUME k + 1 <= m PROVE OnceEach(s[k + 1], Upto(sets, k + 1))
    OBVIOUS
  <2>2. k \in Nat /\ k + 1 \in 0 .. m /\ k + 1 \in 1 .. m /\ (k + 1) - 1 = k /\ k + 1 # 0
    BY <1>0, <2>1
  <2>3. s[k + 1] = With(s[k], k + 1)
    <3> HIDE DEF With
    <3> QED BY <1>5, <2>2
  <2>4. OnceEach(s[k], Upto(sets, k)) /\ OnceEach(parts[k + 1], sets[k + 1])
    BY <1>0, <2>1, <2>2
  <2>5. \A x \in Upto(sets, k) : x \notin sets[k + 1]
    <3>1. ASSUME NEW i \in 1 .. k, NEW x \in sets[i], x \in sets[k + 1] PROVE FALSE
      <4>1. i \in 1 .. m /\ i # k + 1
        BY <1>0, <2>2
      <4> QED BY <1>0, <2>2, <3>1, <4>1
    <3> QED BY <3>1 DEF Upto
  <2>6. Upto(sets, k + 1) = Upto(sets, k) \cup sets[k + 1]
    <3>1. 1 .. k + 1 = (1 .. k) \cup {k + 1}
      BY <2>2
    <3> QED BY <3>1 DEF Upto
  <2>7. OnceEach(s[k] \o parts[k + 1], Upto(sets, k) \cup sets[k + 1])
    BY <2>4, <2>5, JoinOnce
  <2> QED BY <2>3, <2>6, <2>7, Zenon
<1>10. U = Nat
  <2> HIDE DEF U
  <2>1. U \in SUBSET Nat
    BY DEF U
  <2> QED BY <1>8, <1>9, <2>1, SetInduction
<1>11. OnceEach(s[m], Upto(sets, m))
  <2> HIDE DEF s
  <2> QED BY <1>0, <1>10
<1> QED BY <1>7, <1>11

\* A sequence that may hold others more than once.
OnceIn(a, m, T) ==
    /\ m \in Nat /\ a = [i \in 1 .. m |-> a[i]]
    /\ \A i, j \in 1 .. m : a[i] = a[j] /\ a[i] \in T => i = j

\* ids[mask[ids]] holds those that are in the mask.
LEMMA WhereIs ==
    ASSUME NEW a, NEW m, NEW T, OnceIn(a, m, T)
    PROVE  OnceEach(Where(a, T), {a[i] : i \in 1 .. m} \cap T)
<1> DEFINE S == {i \in 1 .. m : a[i] \in T}
           at == Ascending(S)
           U == {a[i] : i \in 1 .. m} \cap T
           w == Where(a, T)
           c == Len(at)
<1>0. /\ m \in Nat /\ DOMAIN a = 1 .. m
      /\ \A i, j \in 1 .. m : a[i] = a[j] /\ a[i] \in T => i = j
  BY DEF OnceIn
<1>1. S \in SUBSET Nat /\ IsFiniteSet(S)
  <2>1. S \in SUBSET (1 .. m) /\ IsFiniteSet(1 .. m)
    BY <1>0, FS_Interval
  <2> HIDE DEF S
  <2>2. IsFiniteSet(S)
    BY <2>1, FS_Subset
  <2> QED BY <1>0, <2>1, <2>2
<1>2. OnceEach(at, S)
  <2> HIDE DEF S
  <2> QED BY <1>1, AscendingOnce
<1>3. w = [i \in DOMAIN at |-> a[at[i]]]
  BY <1>0 DEF Where
<1>4. S \subseteq 1 .. m /\ \A i \in 1 .. m : i \in S <=> a[i] \in T
  OBVIOUS
<1>5. \A x \in U : \E i \in S : a[i] = x
  OBVIOUS
<1>6. \A i \in S : a[i] \in U
  OBVIOUS
<1> HIDE DEF at, S, w, U
<1>7. /\ at \in Seq(S) /\ c \in Nat /\ DOMAIN at = 1 .. c
      /\ \A i \in 1 .. c : at[i] \in S
      /\ \A x \in S : \E i \in 1 .. c : at[i] = x
      /\ \A i, j \in 1 .. c : at[i] = at[j] => i = j
  BY <1>2 DEF OnceEach
<1> HIDE DEF c
<1>8. w \in [1 .. c -> U]
  BY <1>3, <1>6, <1>7
<1>9. w \in Seq(U) /\ Len(w) = c
  BY <1>7, <1>8
<1>10. ASSUME NEW x \in U PROVE \E i \in 1 .. c : w[i] = x
  <2>1. PICK o \in S : a[o] = x
    BY <1>5
  <2>2. PICK i \in 1 .. c : at[i] = o
    BY <1>7
  <2> QED BY <1>3, <1>7, <2>1, <2>2
<1>11. ASSUME NEW i \in 1 .. c, NEW j \in 1 .. c, w[i] = w[j] PROVE i = j
  <2>1. at[i] \in S /\ at[j] \in S /\ a[at[i]] = a[at[j]]
    BY <1>3, <1>7, <1>11
  <2>2. at[i] = at[j]
    BY <1>0, <1>4, <2>1
  <2> QED BY <1>7, <2>2
<1> QED BY <1>9, <1>10, <1>11 DEF OnceEach, U, w


-----------------------------------------------------------------------------
(* The rows of a sequence, each with its score.                            *)

ScoredBy(s, ids, score) ==
    /\ s = [i \in 1 .. Len(ids) |-> s[i]]
    /\ \A i \in 1 .. Len(ids) : s[i] = score[ids[i]]

\* top_k of rows of which each is there once are the best of them, in whatever
\* order they come.
LEMMA SearchIs ==
    ASSUME NEW S \in SUBSET Nat, NEW ids, OnceEach(ids, S),
           NEW score \in [S -> Int], NEW s, ScoredBy(s, ids, score),
           NEW k \in Nat
    PROVE  TopK(s, k, ids) = BestRows(score, k) /\ IsScore(score)
<1> DEFINE m == Len(ids)
<1>1. /\ m \in Nat /\ \A i \in 1 .. m : ids[i] \in S
      /\ \A x \in S : \E i \in 1 .. m : ids[i] = x
      /\ \A i, j \in 1 .. m : ids[i] = ids[j] => i = j
  BY DEF OnceEach
<1>2. s = [i \in 1 .. m |-> s[i]] /\ \A i \in 1 .. m : s[i] = score[ids[i]]
  BY DEF ScoredBy
<1> HIDE DEF m
<1>3. s \in [1 .. m -> Int]
  <2>1. \A i \in 1 .. m : s[i] \in Int
    BY <1>1, <1>2
  <2> QED BY <1>2, <2>1
<1>4. IsFiniteSet(1 .. m)
  BY <1>1, FS_Interval
<1>5. S = {ids[i] : i \in 1 .. m}
  <2>1. \A x \in S : x \in {ids[i] : i \in 1 .. m}
    BY <1>1
  <2>2. \A x \in {ids[i] : i \in 1 .. m} : x \in S
    BY <1>1
  <2> QED BY <2>1, <2>2
<1>6. Scored(1 .. m, s, ids)
  BY <1>1, <1>3, <1>4 DEF Scored
<1>7. score \in [{ids[p] : p \in 1 .. m} -> Int]
  BY <1>5
<1>8. Gives(1 .. m, s, ids, score)
  BY <1>2, <1>6, <1>7 DEF Gives
<1>9. m \in Nat /\ s \in [1 .. m -> Int] /\ k \in Nat /\ Gives(1 .. m, s, ids, score)
  BY <1>1, <1>3, <1>8
<1> QED BY <1>9, TopKIs

-----------------------------------------------------------------------------
(* The centers a search probes.                                            *)

CenterScore(q) == [c \in List |-> Dot(q, Centers[c])]

LEMMA CenterScoreIs ==
    ASSUME NEW q \in Vector
    PROVE  /\ CenterScore(q) \in [List -> Int] /\ DOMAIN CenterScore(q) = List
           /\ List \in SUBSET Nat /\ IsFiniteSet(List) /\ Cardinality(List) = NList
           /\ NList \in Nat \ {0} /\ List = 0 .. NList - 1
           /\ IsScore(CenterScore(q))
<1>1. NList \in Nat \ {0} /\ List = 0 .. NList - 1
  BY CentersAssumption DEF List
<1>2. IsFiniteSet(0 .. NList - 1) /\ Cardinality(0 .. NList - 1) = NList
  BY <1>1, FS_Interval
<1>3. \A c \in List : Dot(q, Centers[c]) \in Int
  BY DotType, CentersAssumption
<1>4. CenterScore(q) \in [List -> Int] /\ DOMAIN CenterScore(q) = List
  BY <1>3 DEF CenterScore
<1>5. List \in SUBSET Nat
  BY <1>1
<1> QED BY <1>1, <1>2, <1>4, <1>5 DEF IsScore

Wanted(nprobe) == IF nprobe < NList THEN nprobe ELSE NList
AtLeastOne(k) == IF k < 1 THEN 1 ELSE k
OneIfNone(nprobe) == IF nprobe = 0 THEN 1 ELSE nprobe

\* argsort of the scores of the centers.
LEMMA ProbedBest ==
    ASSUME NEW q \in Vector, NEW nprobe \in Nat
    PROVE  Probed(q, nprobe)
             = BestRows(CenterScore(q), AtLeastOne(Wanted(nprobe)))
<1> DEFINE ids == [i \in 1 .. NList |-> i - 1]
           rows == [i \in 1 .. NList |-> Centers[i - 1]]
           s == Scores(q, rows)
           k == AtLeastOne(Wanted(nprobe))
           score == CenterScore(q)
<1>1. /\ score \in [List -> Int] /\ List \in SUBSET Nat
      /\ NList \in Nat \ {0} /\ List = 0 .. NList - 1
  BY CenterScoreIs
<1>2. Probed(q, nprobe) = TopK(s, k, ids)
  BY DEF Probed, Wanted, AtLeastOne
<1>3. k \in Nat
  BY <1>1 DEF Wanted, AtLeastOne
<1>4. OnceEach(ids, List)
  <2>1. ids \in [1 .. NList -> List] /\ Len(ids) = NList
    BY <1>1
  <2>2. ids \in Seq(List)
    BY <1>1, <2>1
  <2>3. ASSUME NEW x \in List PROVE \E i \in 1 .. NList : ids[i] = x
    <3>1. x + 1 \in 1 .. NList /\ ids[x + 1] = x
      BY <1>1
    <3> QED BY <3>1
  <2>4. \A i, j \in 1 .. NList : ids[i] = ids[j] => i = j
    BY <1>1
  <2> HIDE DEF ids
  <2> QED BY <2>1, <2>2, <2>3, <2>4 DEF OnceEach
<1>5. ScoredBy(s, ids, score)
  <2>1. Len(ids) = NList
    BY <1>1
  <2>2. s = [i \in 1 .. NList |-> Dot(q, Centers[i - 1])]
    BY DEF Scores
  <2>3. ASSUME NEW i \in 1 .. NList PROVE s[i] = score[ids[i]]
    <3>1. i - 1 \in List /\ ids[i] = i - 1
      BY <1>1
    <3>2. score[i - 1] = Dot(q, Centers[i - 1])
      BY <3>1 DEF CenterScore
    <3> QED BY <2>2, <3>1, <3>2
  <2>4. s = [i \in 1 .. NList |-> s[i]]
    BY <2>2
  <2> HIDE DEF ids, s, score
  <2> QED BY <2>1, <2>3, <2>4 DEF ScoredBy
<1> HIDE DEF ids, s, score, k
<1>6. TopK(s, k, ids) = BestRows(score, k)
  BY <1>1, <1>3, <1>4, <1>5, SearchIs
<1> QED BY <1>2, <1>6 DEF score, k

\* The best of a score: how many of them there are does not change which is
\* which.
LEMMA BestRowsSame ==
    ASSUME NEW score, IsScore(score), NEW k \in Nat, NEW l \in Nat,
           NEW i \in 1 .. k, i \in 1 .. l
    PROVE  BestRows(score, k)[i] = BestRows(score, l)[i]
BY DEF BestRows

\* Without the padding: members, each of them once.
LEMMA BestRowsOnce ==
    ASSUME NEW score, IsScore(score), NEW k \in Nat
    PROVE  /\ OnceIn(BestRows(score, k), k, Nat)
           /\ {BestRows(score, k)[i] : i \in 1 .. k} \cap Nat \subseteq DOMAIN score
           /\ k <= Cardinality(DOMAIN score) =>
                 OnceEach(BestRows(score, k), {BestRows(score, k)[i] : i \in 1 .. k})
<1> DEFINE S == DOMAIN score
           b == BestRows(score, k)
           R == Place(S, score, Same(S))
           c == Cardinality(S)
           U == {b[i] : i \in 1 .. k}
<1>0. b = [i \in 1 .. k |-> b[i]]
  BY DEF BestRows
<1>1. S \in SUBSET Nat /\ IsFiniteSet(S) /\ score \in [S -> Int]
  BY DEF IsScore
<1>2. /\ Scored(S, score, Same(S)) /\ c \in Nat
      /\ \A i \in 1 .. k : i > c => b[i] = -1
      /\ \A i \in 1 .. k : i <= c => b[i] \in S /\ R[b[i]] = i - 1
  <2> HIDE DEF b, S
  <2> QED BY <1>1, BestRowsIs DEF b
<1> HIDE DEF b, R, c, S
<1>3. ASSUME NEW i \in 1 .. k, NEW j \in 1 .. k, b[i] = b[j], b[i] \in Nat
      PROVE  i = j /\ b[i] \in S
  <2>1. i <= c /\ j <= c
    BY <1>2, <1>3
  <2>2. i - 1 = j - 1
    BY <1>2, <1>3, <2>1
  <2> QED BY <1>2, <2>1, <2>2
<1>4. OnceIn(b, k, Nat)
  BY <1>0, <1>3 DEF OnceIn
<1>5. U \cap Nat \subseteq S
  BY <1>3
<1>6. ASSUME k <= c PROVE OnceEach(b, U)
  <2>1. \A i \in 1 .. k : b[i] \in Nat
    <3>1. ASSUME NEW i \in 1 .. k PROVE i <= c
      BY <1>2, <1>6
    <3> QED BY <1>1, <1>2, <3>1
  <2>2. \A i, j \in 1 .. k : b[i] = b[j] => i = j
    BY <1>3, <2>1
  <2>3. b \in [1 .. k -> U]
    BY <1>0
  <2>4. b \in Seq(U) /\ Len(b) = k
    BY <2>3
  <2>5. \A x \in U : \E i \in 1 .. k : b[i] = x
    OBVIOUS
  <2> HIDE DEF U
  <2> QED BY <2>2, <2>4, <2>5 DEF OnceEach
<1> QED BY <1>4, <1>5, <1>6 DEF b, c, S

\* The lists of the best centers, those of Near.
BestLists(q, nprobe) ==
    List \cap ToSet(BestRows(CenterScore(q), OneIfNone(nprobe)))

LEMMA ProbedIs ==
    ASSUME NEW q \in Vector, NEW nprobe \in Nat
    PROVE  OnceEach(Probed(q, nprobe), BestLists(q, nprobe))
<1> DEFINE k == AtLeastOne(Wanted(nprobe))
           l == OneIfNone(nprobe)
           score == CenterScore(q)
           a == BestRows(score, k)
           b == BestRows(score, l)
           U == {a[i] : i \in 1 .. k}
<1>1. /\ IsScore(score) /\ DOMAIN score = List /\ Cardinality(List) = NList
      /\ NList \in Nat \ {0} /\ List = 0 .. NList - 1 /\ List \in SUBSET Nat
      /\ IsFiniteSet(List) /\ score \in [List -> Int]
  BY CenterScoreIs
<1>2. k \in Nat /\ k <= NList /\ l \in Nat /\ (k = l \/ (k = NList /\ k < l))
  BY <1>1 DEF AtLeastOne, Wanted, OneIfNone
<1>3. Probed(q, nprobe) = a
  BY ProbedBest
<1>4. DOMAIN b = 1 .. l
  BY DEF BestRows
<1> HIDE DEF k, l, score, a, b
<1>5. OnceEach(a, U) /\ U \cap Nat \subseteq List
  BY <1>1, <1>2, BestRowsOnce DEF a
<1>6. \A i \in 1 .. k : a[i] = b[i] /\ i \in 1 .. l
  BY <1>1, <1>2, BestRowsSame DEF a, b
<1>7. \A i \in 1 .. l : i > NList => b[i] = -1
  BY <1>1, <1>2, BestRowsIs DEF b
<1>8. \A i \in 1 .. k : a[i] \in List
  <2>1. \A i \in 1 .. k : i <= Cardinality(List) => a[i] \in List
    BY <1>1, <1>2, BestRowsIs DEF a
  <2> QED BY <1>1, <1>2, <2>1
<1>9. ToSet(b) = {b[i] : i \in 1 .. l}
  BY <1>4 DEF ToSet
<1>10. U = List \cap ToSet(b)
  <2>1. ASSUME NEW x \in U PROVE x \in List \cap ToSet(b)
    BY <1>6, <1>8, <1>9
  <2>2. ASSUME NEW x \in List, x \in ToSet(b) PROVE x \in U
    <3>1. PICK i \in 1 .. l : x = b[i]
      BY <1>9, <2>2
    <3>2. ~(i > NList)
      BY <1>1, <1>7, <3>1
    <3>3. i \in 1 .. k
      BY <1>1, <1>2, <3>2
    <3> QED BY <1>6, <3>1, <3>3
  <2> QED BY <2>1, <2>2
<1> QED BY <1>3, <1>5, <1>10 DEF BestLists, b, l, score


-----------------------------------------------------------------------------
(* What an IVF index answers.                                              *)

\* Every row that is in a list is in that of its best center, once.
Sorted(v, l) ==
    \A c \in List : /\ OnceEach(l[c], ToSet(l[c]))
                    /\ \A r \in ToSet(l[c]) : c = BestCenter(v[r])

LEMMA IvfScanned ==
    ASSUME NEW probe, NEW PB \in SUBSET List, OnceEach(probe, PB),
           Sorted(vectors, lists)
    PROVE  OnceEach(Concat([i \in DOMAIN probe |-> lists[probe[i]]]),
                    {r \in Listed : BestCenter(vectors[r]) \in PB})
<1> DEFINE m == Len(probe)
           parts == [i \in DOMAIN probe |-> lists[probe[i]]]
           sets == [i \in 1 .. m |-> InList(probe[i])]
<1>1. /\ m \in Nat /\ DOMAIN probe = 1 .. m /\ \A i \in 1 .. m : probe[i] \in PB
      /\ \A x \in PB : \E i \in 1 .. m : probe[i] = x
      /\ \A i, j \in 1 .. m : probe[i] = probe[j] => i = j
  BY DEF OnceEach
<1>2. \A c \in List : /\ OnceEach(lists[c], InList(c))
                      /\ \A r \in InList(c) : c = BestCenter(vectors[r])
  BY DEF Sorted, InList
<1> HIDE DEF m
<1>3. parts = [i \in 1 .. m |-> lists[probe[i]]]
  BY <1>1
<1> HIDE DEF parts
<1>4. ASSUME NEW i \in 1 .. m PROVE OnceEach(parts[i], sets[i])
  BY <1>1, <1>2, <1>3
<1>5. ASSUME NEW i \in 1 .. m, NEW j \in 1 .. m, NEW x \in sets[i], x \in sets[j]
      PROVE  i = j
  <2>1. probe[i] \in List /\ probe[j] \in List /\ x \in InList(probe[i])
          /\ x \in InList(probe[j])
    BY <1>1, <1>5
  <2>2. probe[i] = probe[j]
    BY <1>2, <2>1
  <2> QED BY <1>1, <2>2
<1>6. parts = [i \in 1 .. m |-> parts[i]]
  BY <1>3
<1> HIDE DEF sets
<1>7. PartsOf(parts, sets, m)
  BY <1>1, <1>4, <1>5, <1>6 DEF PartsOf
<1>8. OnceEach(Concat(parts), Upto(sets, m))
  BY <1>7, ConcatIs
<1>9. Upto(sets, m) = UNION {InList(probe[i]) : i \in 1 .. m}
  BY DEF Upto, sets
<1>10. UNION {InList(probe[i]) : i \in 1 .. m} = UNION {InList(c) : c \in PB}
  <2>1. {InList(probe[i]) : i \in 1 .. m} = {InList(c) : c \in PB}
    <3>1. \A i \in 1 .. m : InList(probe[i]) \in {InList(c) : c \in PB}
      BY <1>1
    <3>2. ASSUME NEW c \in PB PROVE InList(c) \in {InList(probe[i]) : i \in 1 .. m}
      BY <1>1
    <3> QED BY <3>1, <3>2
  <2> QED BY <2>1
<1>11. UNION {InList(c) : c \in PB} = {r \in Listed : BestCenter(vectors[r]) \in PB}
  <2>1. ASSUME NEW c \in PB, NEW r \in InList(c)
        PROVE  r \in Listed /\ BestCenter(vectors[r]) \in PB
    BY <1>2 DEF Listed
  <2>2. ASSUME NEW r \in Listed, BestCenter(vectors[r]) \in PB
        PROVE  r \in InList(BestCenter(vectors[r]))
    <3>1. PICK c \in List : r \in InList(c)
      BY DEF Listed
    <3>2. c = BestCenter(vectors[r])
      BY <1>2, <3>1
    <3> QED BY <3>1, <3>2
  <2> QED BY <2>1, <2>2
<1> QED BY <1>8, <1>9, <1>10, <1>11 DEF parts

LEMMA IvfRight ==
    ASSUME StoreInv, kind = "ivf", Sorted(vectors, lists),
           NEW q \in Queries, NEW name, NEW nprobe \in Nat
    PROVE  IvfAnswer(q, name, nprobe)
             = BestOf(Near(Contents, q, nprobe) \cap Passing(name, N), Contents, q)
<1> DEFINE held == Contents
           PB == BestLists(q, nprobe)
           probe == Probed(q, nprobe)
           scanned == Concat([i \in DOMAIN probe |-> lists[probe[i]]])
           M == Passing(name, N) \ Bits(deleted)
           Z == {r \in Listed : BestCenter(vectors[r]) \in PB}
           ids == Where(scanned, M)
           S == Near(held, q, nprobe) \cap Passing(name, N)
           score == [r \in S |-> Dot(q, held[r])]
           s == Scores(q, [i \in DOMAIN ids |-> vectors[ids[i]]])
<1>1. q \in Vector
  BY CorpusAssumption
<1>2. /\ vectors \in [Row -> Vector] /\ Listed \in SUBSET Row
      /\ held = [r \in Listed \ Bits(deleted) |-> vectors[r]]
  <2>1. IvfInv /\ Listed = ListRows(lists)
    BY DEF StoreInv, Listed, InList, ListRows
  <2> QED BY <2>1, IvfHeldType, ContentsIs DEF IvfInv, IvfHeld
<1>3. PB \in SUBSET List /\ OnceEach(probe, PB)
  BY <1>1, ProbedIs DEF BestLists
<1> HIDE DEF PB, probe
<1>4. OnceEach(scanned, Z)
  BY <1>3, IvfScanned
<1>5. Near(held, q, nprobe)
        = {r \in DOMAIN held : BestCenter(held[r]) \in
             ToSet(BestRows(CenterScore(q), OneIfNone(nprobe)))}
  BY DEF Near, CenterScore, OneIfNone
<1> HIDE DEF held
<1>6. Near(held, q, nprobe)
        = {r \in Listed \ Bits(deleted) : BestCenter(vectors[r]) \in PB}
  <2>1. DOMAIN held = Listed \ Bits(deleted)
          /\ \A r \in DOMAIN held : held[r] = vectors[r] /\ held[r] \in Vector
    BY <1>2
  <2>2. \A r \in DOMAIN held : BestCenter(held[r]) \in List
    BY <2>1, BestCenterType
  <2> QED BY <1>5, <2>1, <2>2 DEF PB, BestLists
<1>7. S = Z \cap M
  BY <1>6
<1>8. OnceEach(ids, S)
  <2> DEFINE U == {scanned[i] : i \in 1 .. Len(scanned)}
  <2> HIDE DEF scanned, M, Z, S
  <2>1. OnceIn(scanned, Len(scanned), M)
    BY <1>4 DEF OnceEach, OnceIn
  <2>2. U = Z
    <3>1. \A x \in Z : x \in U
      BY <1>4 DEF OnceEach
    <3>2. \A x \in U : x \in Z
      BY <1>4 DEF OnceEach
    <3> QED BY <3>1, <3>2
  <2>3. OnceEach(ids, U \cap M)
    BY <2>1, WhereIs
  <2> QED BY <1>7, <2>2, <2>3
<1>9. S \in SUBSET Row /\ S \in SUBSET Nat /\ S \subseteq DOMAIN held
  <2>1. S \in SUBSET Row
    BY <1>2, <1>7
  <2> HIDE DEF S
  <2>2. S \subseteq DOMAIN held
    BY <1>2, <1>6 DEF S
  <2> QED BY <2>1, <2>2, Rows
<1>10. \A r \in S : held[r] = vectors[r] /\ held[r] \in Vector
  <2> HIDE DEF S
  <2> QED BY <1>2, <1>9
<1> HIDE DEF S
<1>11. score \in [S -> Int]
  BY <1>1, <1>10, DotType
<1>12. ScoredBy(s, ids, score)
  <2> HIDE DEF ids
  <2>1. DOMAIN ids = 1 .. Len(ids) /\ \A i \in 1 .. Len(ids) : ids[i] \in S
    BY <1>8 DEF OnceEach
  <2>2. s = [i \in 1 .. Len(ids) |-> Dot(q, vectors[ids[i]])]
    BY <2>1 DEF Scores
  <2>3. \A i \in 1 .. Len(ids) : s[i] = score[ids[i]]
    BY <1>10, <2>1, <2>2
  <2>4. s = [i \in 1 .. Len(ids) |-> s[i]]
    BY <2>2
  <2> HIDE DEF s, score
  <2> QED BY <2>3, <2>4 DEF ScoredBy
<1>13. K \in Nat
  BY CorpusAssumption
<1>14. IvfAnswer(q, name, nprobe) = TopK(s, K, ids)
  BY DEF IvfAnswer, probe
<1>15. BestOf(S, held, q) = BestRows(score, K)
  BY DEF BestOf
<1> HIDE DEF s, ids, score
<1>16. TopK(s, K, ids) = BestRows(score, K)
  BY <1>8, <1>9, <1>11, <1>12, <1>13, SearchIs
<1> QED BY <1>14, <1>15, <1>16 DEF S, held


-----------------------------------------------------------------------------
(* What a flat index answers.                                              *)

PassingAt(name) ==
    {p \in DOMAIN vectors : RowAt(p) \in Passing(name, N) /\ p \notin Bits(deleted)}

Fresh(name) == Ascending(PassingAt(name))

\* Positions are counted from 0, and what is cached is what would be gathered.
CacheInv ==
    /\ n \in Nat /\ DOMAIN vectors = 0 .. n - 1
    /\ \A name \in DOMAIN filtered : filtered[name] = Fresh(name)
    /\ \A name \in DOMAIN filteredRows : filteredRows[name] = At(Fresh(name))

\* No two positions hold the same row, and the index holds those that are not
\* deleted.
LEMMA FlatPlaces ==
    ASSUME StoreInv, kind = "flat"
    PROVE  /\ \A p \in DOMAIN vectors : RowAt(p) \in Row /\ vectors[p] \in Vector
           /\ \A p, o \in DOMAIN vectors : RowAt(p) = RowAt(o) => p = o
           /\ DOMAIN Contents = {RowAt(p) : p \in Served}
           /\ \A p \in Served : Contents[RowAt(p)] = vectors[p]
           /\ IF nOrig = Nil THEN n = N ELSE nOrig = N
<1>1. FlatInv
  BY DEF StoreInv
<1>2. \A p \in DOMAIN vectors : RowAt(p) \in Row /\ vectors[p] \in Vector
  <2>1. CASE idMap = Nil
    BY <1>1, <2>1 DEF FlatInv, RowAt
  <2>2. CASE idMap # Nil
    BY <1>1, <2>2 DEF FlatInv, Mapped, RowAt
  <2> QED BY <2>1, <2>2
<1>3. \A p, o \in DOMAIN vectors : RowAt(p) = RowAt(o) => p = o
  <2>1. CASE idMap = Nil
    BY <2>1 DEF RowAt
  <2>2. CASE idMap # Nil
    BY <1>1, <2>2 DEF FlatInv, Mapped, RowAt
  <2> QED BY <2>1, <2>2
<1>4. Contents = [r \in {RowAt(p) : p \in Served} |->
                    vectors[CHOOSE p \in Served : RowAt(p) = r]]
  BY DEF Contents
<1>5. Served \subseteq DOMAIN vectors
  BY DEF Served
<1>6. ASSUME NEW p \in Served PROVE Contents[RowAt(p)] = vectors[p]
  <2>1. RowAt(p) \in {RowAt(o) : o \in Served}
    OBVIOUS
  <2>2. (CHOOSE o \in Served : RowAt(o) = RowAt(p)) = p
    <3> HIDE DEF RowAt
    <3> QED BY <1>3, <1>5
  <2> HIDE DEF RowAt
  <2> QED BY <1>4, <2>1, <2>2
<1>7. IF nOrig = Nil THEN n = N ELSE nOrig = N
  <2>1. CASE idMap = Nil
    <3>1. DOMAIN vectors = Row /\ nOrig \in {Nil, N}
      BY <1>1, <2>1 DEF FlatInv
    <3>2. n = N
      BY <3>1, Rows DEF n
    <3> QED BY <3>1, <3>2
  <2>2. CASE idMap # Nil
    BY <1>1, <2>2, Rows, NilAssumption DEF FlatInv
  <2> QED BY <2>1, <2>2
<1> QED BY <1>2, <1>3, <1>4, <1>6, <1>7

\* The cache answers as the arrays would.
LEMMA CacheIs ==
    ASSUME StoreInv, kind = "flat", CacheInv, NEW name
    PROVE  Allowed(name) = Fresh(name) /\ Gathered(name) = At(Fresh(name))
<1>1. (IF nOrig = Nil THEN n ELSE nOrig) = N
  BY FlatPlaces
<1>2. PICK total : total = IF nOrig = Nil THEN n ELSE nOrig
  OBVIOUS
<1>3. Allowed(name) = Fresh(name)
  <2>1. CASE name \in DOMAIN filtered
    BY <2>1 DEF CacheInv, Allowed
  <2>2. CASE name \notin DOMAIN filtered
    <3>1. Allowed(name) = Ascending({p \in DOMAIN vectors :
              RowAt(p) \in Passing(name, total) /\ p \notin Bits(deleted)})
      BY <1>2, <2>2 DEF Allowed
    <3>2. total = N
      BY <1>1, <1>2
    <3> QED BY <3>1, <3>2 DEF Fresh, PassingAt
  <2> QED BY <2>1, <2>2
<1>4. Gathered(name) = At(Fresh(name))
  <2> HIDE DEF At
  <2> QED BY <1>3 DEF Gathered, CacheInv
<1> QED BY <1>3, <1>4

LEMMA FlatRight ==
    ASSUME StoreInv, kind = "flat", CacheInv, NEW q \in Queries, NEW name \in Names
    PROVE  FlatAnswer(q, name)
             = BestOf(DOMAIN Contents \cap Passing(name, N), Contents, q)
<1> DEFINE held == Contents
           P == PassingAt(name)
           pos == IF All(name) THEN [i \in 1 .. n |-> i - 1] ELSE Allowed(name)
           rows == IF All(name) THEN At(pos) ELSE Gathered(name)
           ids == [i \in DOMAIN pos |-> RowAt(pos[i])]
           s == Scores(q, rows)
           S == DOMAIN held \cap Passing(name, N)
           score == [r \in S |-> Dot(q, held[r])]
           m == Len(pos)
<1>1. q \in Vector /\ K \in Nat
  BY CorpusAssumption
<1>2. /\ \A p \in DOMAIN vectors : RowAt(p) \in Row /\ vectors[p] \in Vector
      /\ \A p, o \in DOMAIN vectors : RowAt(p) = RowAt(o) => p = o
      /\ DOMAIN held = {RowAt(p) : p \in Served}
      /\ \A p \in Served : held[RowAt(p)] = vectors[p]
  BY FlatPlaces
<1>3. n \in Nat /\ DOMAIN vectors = 0 .. n - 1
  BY DEF CacheInv
<1>4. P \in SUBSET Nat /\ IsFiniteSet(P)
  <2>1. P \in SUBSET (0 .. n - 1) /\ IsFiniteSet(0 .. n - 1)
    BY <1>3, FS_Interval DEF PassingAt
  <2> HIDE DEF P
  <2>2. IsFiniteSet(P)
    BY <2>1, FS_Subset
  <2> QED BY <1>3, <2>1, <2>2
<1>5. OnceEach(pos, P)
  <2>1. CASE All(name)
    <3>1. name = "none" /\ deleted = Nil
      BY <2>1 DEF All
    <3>2. Passing(name, N) = Row
      BY <3>1 DEF Passing, Row
    <3>3. P = 0 .. n - 1
      BY <1>2, <1>3, <3>1, <3>2, BitsType DEF PassingAt
    <3>4. pos = [i \in 1 .. n |-> i - 1]
      BY <2>1
    <3> HIDE DEF P, pos
    <3>5. pos \in [1 .. n -> P] /\ Len(pos) = n
      BY <1>3, <3>3, <3>4
    <3>6. pos \in Seq(P)
      BY <1>3, <3>5
    <3>7. ASSUME NEW x \in P PROVE \E i \in 1 .. n : pos[i] = x
      <4>1. x + 1 \in 1 .. n /\ pos[x + 1] = x
        BY <1>3, <3>3, <3>4
      <4> QED BY <4>1
    <3>8. \A i, j \in 1 .. n : pos[i] = pos[j] => i = j
      BY <1>3, <3>4
    <3> QED BY <3>5, <3>6, <3>7, <3>8 DEF OnceEach
  <2>2. CASE ~All(name)
    <3>1. pos = Ascending(P)
      BY <2>2, CacheIs DEF Fresh
    <3> HIDE DEF P, pos
    <3> QED BY <1>4, <3>1, AscendingOnce
  <2> QED BY <2>1, <2>2
<1>6. rows = At(pos)
  <2>1. CASE All(name)
    BY <2>1
  <2>2. CASE ~All(name)
    BY <2>2, CacheIs
  <2> QED BY <2>1, <2>2
<1>7. P \subseteq Served /\ \A p \in P : RowAt(p) \in S
  <2>1. \A p \in P : p \in Served /\ RowAt(p) \in Passing(name, N)
    BY DEF PassingAt, Served
  <2> HIDE DEF P, held
  <2> QED BY <1>2, <2>1
<1>8. ASSUME NEW r \in S PROVE \E p \in P : r = RowAt(p)
  <2>1. PICK p \in Served : r = RowAt(p)
    BY <1>2
  <2>2. p \in P
    BY <2>1 DEF PassingAt, Served
  <2> QED BY <2>1, <2>2
<1> HIDE DEF pos, rows, P, held
<1>9. /\ m \in Nat /\ DOMAIN pos = 1 .. m /\ \A i \in 1 .. m : pos[i] \in P
      /\ \A x \in P : \E i \in 1 .. m : pos[i] = x
      /\ \A i, j \in 1 .. m : pos[i] = pos[j] => i = j
  BY <1>5 DEF OnceEach
<1>10. P \subseteq DOMAIN vectors
  BY DEF P, PassingAt
<1>11. S \in SUBSET Row /\ S \in SUBSET Nat
  <2>1. S \in SUBSET Row
    <3>1. \A r \in S : r \in Row
      BY <1>2, <1>8, <1>10
    <3> HIDE DEF S
    <3> QED BY <3>1
  <2> HIDE DEF S
  <2> QED BY <2>1, Rows
<1>12. \A p \in P : held[RowAt(p)] = vectors[p] /\ vectors[p] \in Vector
  BY <1>2, <1>7, <1>10
<1>13. \A r \in S : held[r] \in Vector
  BY <1>8, <1>12
<1> HIDE DEF m, S
<1>14. ids = [i \in 1 .. m |-> RowAt(pos[i])]
  BY <1>9
<1> HIDE DEF ids
<1>15. OnceEach(ids, S) /\ Len(ids) = m
  <2>1. \A i \in 1 .. m : ids[i] \in S
    BY <1>7, <1>9, <1>14
  <2>2. ids \in [1 .. m -> S]
    BY <1>14, <2>1
  <2>3. ids \in Seq(S) /\ Len(ids) = m
    BY <1>9, <2>2
  <2>4. ASSUME NEW x \in S PROVE \E i \in 1 .. m : ids[i] = x
    BY <1>8, <1>9, <1>14
  <2>5. ASSUME NEW i \in 1 .. m, NEW j \in 1 .. m, ids[i] = ids[j] PROVE i = j
    <3>1. RowAt(pos[i]) = RowAt(pos[j]) /\ pos[i] \in DOMAIN vectors
            /\ pos[j] \in DOMAIN vectors
      BY <1>9, <1>10, <1>14, <2>5
    <3> QED BY <1>2, <1>9, <3>1
  <2> QED BY <2>3, <2>4, <2>5 DEF OnceEach
<1>16. score \in [S -> Int]
  BY <1>1, <1>13, DotType
<1>17. ScoredBy(s, ids, score)
  <2>1. rows = [i \in 1 .. m |-> vectors[pos[i]]]
    BY <1>6, <1>9 DEF At
  <2>2. s = [i \in 1 .. m |-> Dot(q, vectors[pos[i]])]
    BY <2>1 DEF Scores
  <2>3. \A i \in 1 .. m : s[i] = score[ids[i]]
    BY <1>7, <1>9, <1>12, <1>14, <2>2
  <2>4. s = [i \in 1 .. m |-> s[i]]
    BY <2>2
  <2> HIDE DEF s, score
  <2> QED BY <1>15, <2>3, <2>4 DEF ScoredBy
<1>18. FlatAnswer(q, name) = TopK(s, K, ids)
  BY DEF FlatAnswer, pos, rows, ids
<1>19. BestOf(S, held, q) = BestRows(score, K)
  BY DEF BestOf
<1> HIDE DEF s, score
<1>20. TopK(s, K, ids) = BestRows(score, K)
  BY <1>1, <1>11, <1>15, <1>16, <1>17, SearchIs
<1> QED BY <1>18, <1>19, <1>20 DEF S, held


-----------------------------------------------------------------------------
(* Sums.                                                                   *)

LEMMA SumAdd ==
    ASSUME NEW m \in Nat, NEW f \in [1 .. m -> Int], NEW g \in [1 .. m -> Int],
           NEW h \in [1 .. m -> Int], \A i \in 1 .. m : h[i] = f[i] + g[i]
    PROVE  SumOf(h) = SumOf(f) + SumOf(g)
<1>1. PICK s : Partial(s, f, m) /\ SumOf(f) = s[m]
  BY SumIs
<1>2. PICK t : Partial(t, g, m) /\ SumOf(g) = t[m]
  BY SumIs
<1>3. PICK u : Partial(u, h, m) /\ SumOf(h) = u[m]
  BY SumIs
<1> DEFINE T == {k \in Nat : k <= m => u[k] = s[k] + t[k]}
<1>4. 0 \in T
  BY <1>1, <1>2, <1>3 DEF Partial
<1>5. ASSUME NEW k \in T PROVE k + 1 \in T
  <2>1. SUFFICES ASSUME k + 1 <= m PROVE u[k + 1] = s[k + 1] + t[k + 1]
    OBVIOUS
  <2>2. k \in 0 .. m /\ k < m /\ k + 1 \in 1 .. m
    BY <2>1
  <2>3. /\ s[k] \in Int /\ t[k] \in Int /\ u[k] = s[k] + t[k]
        /\ s[k + 1] = s[k] + f[k + 1] /\ t[k + 1] = t[k] + g[k + 1]
        /\ u[k + 1] = u[k] + h[k + 1]
    BY <1>1, <1>2, <1>3, <2>2 DEF Partial
  <2>4. f[k + 1] \in Int /\ g[k + 1] \in Int /\ h[k + 1] = f[k + 1] + g[k + 1]
    BY <2>2
  <2> DEFINE a == s[k]
             c == t[k]
             x == f[k + 1]
             y == g[k + 1]
  <2>5. a \in Int /\ c \in Int /\ x \in Int /\ y \in Int
    BY <2>3, <2>4
  <2>6. u[k + 1] = (a + c) + (x + y) /\ s[k + 1] = a + x /\ t[k + 1] = c + y
    BY <2>3, <2>4
  <2> HIDE DEF a, c, x, y
  <2>7. (a + c) + (x + y) = (a + x) + (c + y)
    BY <2>5
  <2> QED BY <2>6, <2>7
<1>6. T = Nat
  <2> HIDE DEF T
  <2>1. T \in SUBSET Nat
    BY DEF T
  <2> QED BY <1>4, <1>5, <2>1, SetInduction
<1> QED BY <1>1, <1>2, <1>3, <1>6

LEMMA SumNeg ==
    ASSUME NEW m \in Nat, NEW f \in [1 .. m -> Int],
           NEW h \in [1 .. m -> Int], \A i \in 1 .. m : h[i] = -f[i]
    PROVE  SumOf(h) = -SumOf(f)
<1>1. PICK s : Partial(s, f, m) /\ SumOf(f) = s[m]
  BY SumIs
<1>3. PICK u : Partial(u, h, m) /\ SumOf(h) = u[m]
  BY SumIs
<1> DEFINE T == {k \in Nat : k <= m => u[k] = -s[k]}
<1>4. 0 \in T
  BY <1>1, <1>3 DEF Partial
<1>5. ASSUME NEW k \in T PROVE k + 1 \in T
  <2>1. SUFFICES ASSUME k + 1 <= m PROVE u[k + 1] = -s[k + 1]
    OBVIOUS
  <2>2. k \in 0 .. m /\ k < m /\ k + 1 \in 1 .. m
    BY <2>1
  <2>3. /\ s[k] \in Int /\ u[k] = -s[k]
        /\ s[k + 1] = s[k] + f[k + 1] /\ u[k + 1] = u[k] + h[k + 1]
    BY <1>1, <1>3, <2>2 DEF Partial
  <2>4. f[k + 1] \in Int /\ h[k + 1] = -f[k + 1]
    BY <2>2
  <2> QED BY <2>3, <2>4
<1>6. T = Nat
  <2> HIDE DEF T
  <2>1. T \in SUBSET Nat
    BY DEF T
  <2> QED BY <1>4, <1>5, <2>1, SetInduction
<1> QED BY <1>1, <1>3, <1>6


-----------------------------------------------------------------------------
(* Codes and tables.                                                       *)

LEMMA Square ==
    /\ \A x, y \in Int : x * y = y * x /\ x * y \in Int
    /\ \A x, y \in Int : -(y * y - 2 * x * y + x * x) = -((x - y) * (x - y))
    /\ \A x, y, z \in Int :
          /\ (x + z) - y \in Int
          /\ -((y - z) * (y - z) - 2 * x * (y - z) + x * x)
                = -(((z + x) - y) * ((z + x) - y))
          /\ y * z + x * y = y * (z + x)
<1>1. \A x, y \in Int : x * y = y * x /\ x * y \in Int
  OBVIOUS
<1>2. \A x, y \in Int : -(y * y - 2 * x * y + x * x) = -((x - y) * (x - y))
  OBVIOUS
<1>3. \A x, y, z \in Int :
          /\ (x + z) - y \in Int
          /\ -((y - z) * (y - z) - 2 * x * (y - z) + x * x)
                = -(((z + x) - y) * ((z + x) - y))
  OBVIOUS
<1>4. \A x, y, z \in Int : y * z + x * y = y * (z + x)
  OBVIOUS
<1> QED BY <1>1, <1>2, <1>3, <1>4

HasBooks == pq.metric \in Metrics /\ pq.books \in Books

Decode(books, code) == [j \in Sub |-> books[j][code[j]]]

IsCode(books, code) == \A j \in Sub : code[j] \in DOMAIN books[j]

LEMMA BookType ==
    ASSUME NEW books \in Books, NEW j \in Sub
    PROVE  \E c \in Nat \ {0} : books[j] \in [0 .. c - 1 -> Int]
<1> DEFINE codes == DOMAIN books[j]
<1>1. /\ Cardinality(codes) \in Nat \ {0}
      /\ codes = 0 .. Cardinality(codes) - 1 /\ books[j] \in [codes -> Int]
  BY BooksAssumption
<1>2. PICK c : c = Cardinality(codes)
  OBVIOUS
<1> HIDE DEF codes
<1>3. books[j] \in [0 .. c - 1 -> Int] /\ c \in Nat \ {0}
  BY <1>1, <1>2
<1> QED BY <1>3

LEMMA DecodeType ==
    ASSUME NEW books \in Books, NEW code, IsCode(books, code)
    PROVE  Decode(books, code) \in Vector
<1>1. ASSUME NEW j \in Sub PROVE books[j][code[j]] \in Int
  <2>1. PICK c \in Nat \ {0} : books[j] \in [0 .. c - 1 -> Int]
    BY BookType
  <2> QED BY <2>1 DEF IsCode
<1> QED BY <1>1 DEF Decode, Vector, Sub

LEMMA EncodeIs ==
    ASSUME NEW metric, NEW books \in Books, NEW v \in Vector
    PROVE  IsCode(books, Encode(metric, books, v))
<1>1. ASSUME NEW j \in Sub
      PROVE  BestCode(metric, books[j], v[j]) \in DOMAIN books[j]
  <2>1. PICK c \in Nat \ {0} : books[j] \in [0 .. c - 1 -> Int]
    BY BookType
  <2>2. PICK book : book = books[j]
    OBVIOUS
  <2>3. PICK x \in Int : x = v[j]
    BY DEF Vector, Sub
  <2> DEFINE s == [d \in 0 .. c - 1 |->
                     IF metric = "ip" THEN x * book[d]
                     ELSE 2 * x * book[d] - book[d] * book[d]]
  <2>4. s \in [0 .. c - 1 -> Int]
    <3>1. \A d \in 0 .. c - 1 : book[d] \in Int
      BY <2>1, <2>2
    <3>2. \A d \in 0 .. c - 1 : x * book[d] \in Int /\ book[d] * book[d] \in Int
                                  /\ 2 * x * book[d] \in Int
      BY <3>1
    <3> QED BY <3>2
  <2>5. BestCode(metric, book, x) = CHOOSE d \in 0 .. c - 1 : \A e \in 0 .. c - 1 :
            s[e] < s[d] \/ (s[e] = s[d] /\ d <= e)
    BY <2>1, <2>2 DEF BestCode
  <2> HIDE DEF s
  <2>6. c - 1 \in Nat
    BY <2>1
  <2>7. \E d \in 0 .. c - 1 : \A e \in 0 .. c - 1 :
            s[e] < s[d] \/ (s[e] = s[d] /\ d <= e)
    BY <2>4, <2>6, BestExists
  <2>8. BestCode(metric, book, x) \in 0 .. c - 1
    BY <2>5, <2>7
  <2> QED BY <2>1, <2>2, <2>3, <2>8
<1> QED BY <1>1 DEF Encode, IsCode

LEMMA MinusType ==
    ASSUME NEW v \in Vector, NEW w \in Vector
    PROVE  Minus(v, w) \in Vector
BY DEF Minus, Vector, Sub

LEMMA ExactType ==
    ASSUME NEW q \in Vector, NEW v \in Vector
    PROVE  Exact(q, v) \in Int
<1>1. Minus(v, q) \in Vector
  BY MinusType
<1>2. Dot(q, v) \in Int /\ Dot(Minus(v, q), Minus(v, q)) \in Int
  BY <1>1, DotType
<1> QED BY <1>2 DEF Exact

Spread(w, q) == [j \in 1 .. Dim |-> (w[j] - q[j]) * (w[j] - q[j])]

LEMMA DotSpread ==
    ASSUME NEW w \in Vector, NEW q \in Vector
    PROVE  /\ Spread(w, q) \in [1 .. Dim -> Int]
           /\ Dot(Minus(w, q), Minus(w, q)) = SumOf(Spread(w, q))
<1>1. \A j \in 1 .. Dim : w[j] \in Int /\ q[j] \in Int
  BY DEF Vector
<1>2. \A j \in 1 .. Dim : (w[j] - q[j]) * (w[j] - q[j]) \in Int
  BY <1>1
<1>3. Spread(w, q) = [j \in 1 .. Dim |-> Minus(w, q)[j] * Minus(w, q)[j]]
  BY DEF Spread, Minus, Sub
<1> QED BY <1>2, <1>3 DEF Spread, Dot

\* The sum of the entries a code names is the score of what it stands for.
LEMMA TableSumIs ==
    ASSUME HasBooks, NEW q \in Vector, NEW code, IsCode(pq.books, code)
    PROVE  TableSum(Table(q), code) = Exact(q, Decode(pq.books, code))
<1> DEFINE v == Decode(pq.books, code)
           f == [j \in 1 .. Dim |-> Table(q)[j][code[j]]]
<1>1. Dim \in Nat /\ pq.books \in Books
  BY CorpusAssumption DEF HasBooks
<1>2. v \in Vector
  BY <1>1, DecodeType
<1>3. \A j \in 1 .. Dim : v[j] \in Int /\ q[j] \in Int
  BY <1>2 DEF Vector
<1>4. TableSum(Table(q), code) = SumOf(f)
  BY DEF TableSum, Sub
<1>5. \A j \in 1 .. Dim : code[j] \in DOMAIN pq.books[j] /\ v[j] = pq.books[j][code[j]]
  BY DEF IsCode, Sub, Decode
<1>6. ASSUME NEW j \in 1 .. Dim
      PROVE  f[j] = IF pq.metric = "ip" THEN v[j] * q[j]
                    ELSE -(q[j] * q[j] - 2 * v[j] * q[j] + v[j] * v[j])
  BY <1>5 DEF Table, Sub
<1>7. f = [j \in 1 .. Dim |-> f[j]]
  OBVIOUS
<1> HIDE DEF f, v
<1>8. CASE pq.metric = "ip"
  <2>1. \A j \in 1 .. Dim : f[j] = q[j] * v[j]
    BY <1>3, <1>6, <1>8, Square
  <2>2. f = [j \in 1 .. Dim |-> q[j] * v[j]]
    BY <1>7, <2>1
  <2> QED BY <1>4, <1>8, <2>2 DEF Exact, Dot, v
<1>9. CASE pq.metric # "ip"
  <2> DEFINE g == Spread(v, q)
  <2>1. \A j \in 1 .. Dim : f[j] = -((v[j] - q[j]) * (v[j] - q[j]))
    BY <1>3, <1>6, <1>9, Square
  <2>2. \A j \in 1 .. Dim : f[j] = -g[j]
    BY <2>1 DEF Spread
  <2>3. g \in [1 .. Dim -> Int] /\ Dot(Minus(v, q), Minus(v, q)) = SumOf(g)
    BY <1>2, DotSpread
  <2> HIDE DEF g
  <2>4. \A j \in 1 .. Dim : f[j] \in Int
    BY <2>2, <2>3
  <2>5. f \in [1 .. Dim -> Int]
    BY <1>7, <2>4
  <2>6. SumOf(f) = -SumOf(g)
    BY <1>1, <2>2, <2>3, <2>5, SumNeg
  <2> QED BY <1>4, <1>9, <2>3, <2>6 DEF Exact, v
<1> QED BY <1>8, <1>9

Plus(v, w) == [j \in Sub |-> v[j] + w[j]]

\* The same with the center of the list, for the residual of a row.
LEMMA ResidualSumIs ==
    ASSUME HasBooks, NEW q \in Vector, NEW center \in Vector,
           NEW code, IsCode(pq.books, code)
    PROVE  LET v == Decode(pq.books, code)
           IN  /\ Plus(center, v) \in Vector
               /\ pq.metric = "ip" =>
                     Dot(q, center) + TableSum(Table(q), code)
                        = Exact(q, Plus(center, v))
               /\ pq.metric # "ip" =>
                     TableSum(Table(Minus(q, center)), code)
                        = Exact(q, Plus(center, v))
<1> DEFINE v == Decode(pq.books, code)
           w == Plus(center, v)
<1>1. Dim \in Nat /\ pq.books \in Books
  BY CorpusAssumption DEF HasBooks
<1>2. v \in Vector
  BY <1>1, DecodeType
<1> HIDE DEF v
<1>3. w \in Vector
  BY <1>2 DEF Plus, Vector, Sub
<1>4. \A j \in 1 .. Dim : /\ v[j] \in Int /\ q[j] \in Int /\ center[j] \in Int
                          /\ w[j] = center[j] + v[j] /\ w[j] \in Int
  BY <1>2 DEF Vector, Plus, Sub
<1> HIDE DEF w
<1>5. ASSUME pq.metric = "ip"
      PROVE  Dot(q, center) + TableSum(Table(q), code) = Exact(q, w)
  <2> DEFINE f == [j \in 1 .. Dim |-> q[j] * center[j]]
             g == [j \in 1 .. Dim |-> q[j] * v[j]]
             h == [j \in 1 .. Dim |-> q[j] * w[j]]
  <2>1. TableSum(Table(q), code) = SumOf(g)
    BY <1>5, TableSumIs DEF Exact, v, Dot
  <2>2. Dot(q, center) = SumOf(f) /\ Exact(q, w) = SumOf(h)
    BY <1>5 DEF Dot, Exact
  <2>3. f \in [1 .. Dim -> Int] /\ g \in [1 .. Dim -> Int] /\ h \in [1 .. Dim -> Int]
    BY <1>4
  <2>4. \A j \in 1 .. Dim : h[j] = f[j] + g[j]
    <3>1. \A j \in 1 .. Dim : q[j] * w[j] = q[j] * center[j] + q[j] * v[j]
      BY <1>4
    <3> QED BY <3>1
  <2> HIDE DEF f, g, h
  <2>5. SumOf(h) = SumOf(f) + SumOf(g)
    BY <1>1, <2>3, <2>4, SumAdd
  <2> QED BY <2>1, <2>2, <2>5
<1>6. ASSUME pq.metric # "ip"
      PROVE  TableSum(Table(Minus(q, center)), code) = Exact(q, w)
  <2> DEFINE p == Minus(q, center)
  <2>1. p \in Vector
    BY MinusType
  <2>2. TableSum(Table(p), code) = Exact(p, v)
    BY <2>1, TableSumIs DEF v
  <2>3. \A j \in 1 .. Dim : p[j] = q[j] - center[j]
    BY DEF Minus, Sub
  <2>4. \A j \in 1 .. Dim : v[j] - p[j] = w[j] - q[j]
    BY <1>4, <2>3
  <2>5. Spread(v, p) = Spread(w, q)
    BY <2>4 DEF Spread
  <2> HIDE DEF p
  <2>6. Dot(Minus(v, p), Minus(v, p)) = Dot(Minus(w, q), Minus(w, q))
    BY <1>2, <1>3, <2>1, <2>5, DotSpread
  <2> QED BY <1>6, <2>2, <2>6 DEF Exact, p
<1> QED BY <1>3, <1>5, <1>6 DEF v, w


-----------------------------------------------------------------------------
(* What the indexes with codes answer.                                     *)

\* The best by their codes, or the best of those by their vectors.
Reranked(coded, q, rerank) ==
    IF rerank = 0 THEN BestRows(coded, K)
    ELSE BestRows([r \in ToSet(BestRows(coded, rerank)) \ {-1} |->
                      Exact(q, Corpus[r])], K)

LEMMA BestIs ==
    ASSUME NEW S \in SUBSET Row, NEW ids, OnceEach(ids, S),
           NEW coded \in [S -> Int], NEW s, ScoredBy(s, ids, coded),
           NEW q \in Vector, NEW rerank \in Nat, vectors = Corpus
    PROVE  Best(s, ids, q, rerank) = Reranked(coded, q, rerank)
<1>1. K \in Nat /\ S \in SUBSET Nat
  BY CorpusAssumption, Rows
<1>2. CASE rerank = 0
  <2>1. TopK(s, K, ids) = BestRows(coded, K)
    BY <1>1, SearchIs
  <2> QED BY <1>2, <2>1 DEF Best, Reranked
<1>3. CASE rerank # 0
  <2> DEFINE b == BestRows(coded, rerank)
             cand == Where(TopK(s, rerank, ids), Nat)
             U == {b[i] : i \in 1 .. rerank} \cap Nat
             first == ToSet(b) \ {-1}
             exact == [r \in first |-> Exact(q, Corpus[r])]
             t == [i \in DOMAIN cand |-> Exact(q, vectors[cand[i]])]
  <2>1. TopK(s, rerank, ids) = b /\ IsScore(coded)
    BY <1>1, SearchIs
  <2>2. DOMAIN coded = S /\ DOMAIN b = 1 .. rerank
    BY DEF BestRows
  <2>3. /\ OnceIn(b, rerank, Nat)
        /\ {b[i] : i \in 1 .. rerank} \cap Nat \subseteq DOMAIN coded
    BY <2>1, BestRowsOnce
  <2>4. \A i \in 1 .. rerank : b[i] = -1 \/ b[i] \in S
    <3>1. /\ Cardinality(S) \in Nat
          /\ \A i \in 1 .. rerank : i > Cardinality(S) => b[i] = -1
          /\ \A i \in 1 .. rerank : i <= Cardinality(S) => b[i] \in S
      <4>1. IsFiniteSet(S)
        BY RowSets
      <4> HIDE DEF b
      <4> QED BY <1>1, <4>1, BestRowsIs DEF b
    <3> QED BY <3>1
  <2> HIDE DEF b
  <2>5. cand = Where(b, Nat)
    BY <2>1
  <2> HIDE DEF cand
  <2>6. OnceEach(cand, U)
    BY <2>3, <2>5, WhereIs
  <2>7. first = U
    <3>1. ToSet(b) = {b[i] : i \in 1 .. rerank}
      BY <2>2 DEF ToSet
    <3>2. -1 \notin Nat /\ \A x \in S : x # -1 /\ x \in Nat
      BY <1>1
    <3> QED BY <2>4, <3>1, <3>2
  <2>8. U \in SUBSET Nat /\ U \subseteq S
    BY <2>2, <2>3
  <2> HIDE DEF first, U
  <2>9. exact \in [U -> Int]
    <3>1. \A r \in U : Corpus[r] \in Vector
      BY <2>8, CorpusAssumption
    <3>2. \A r \in U : Exact(q, Corpus[r]) \in Int
      BY <3>1, ExactType
    <3> QED BY <2>7, <3>2
  <2>10. ScoredBy(t, cand, exact)
    <3>1. DOMAIN cand = 1 .. Len(cand) /\ \A i \in 1 .. Len(cand) : cand[i] \in U
      BY <2>6 DEF OnceEach
    <3>2. t = [i \in 1 .. Len(cand) |-> Exact(q, vectors[cand[i]])]
      BY <3>1
    <3>3. \A i \in 1 .. Len(cand) : t[i] = exact[cand[i]]
      BY <2>7, <3>1, <3>2
    <3>4. t = [i \in 1 .. Len(cand) |-> t[i]]
      BY <3>2
    <3> HIDE DEF t, exact
    <3> QED BY <3>3, <3>4 DEF ScoredBy
  <2>11. ~(rerank <= 0)
    BY <1>3
  <2>12. Best(s, ids, q, rerank) = TopK(t, K, cand)
    BY <2>11 DEF Best, cand
  <2>13. Reranked(coded, q, rerank) = BestRows(exact, K)
    BY <1>3 DEF Reranked, first, b
  <2> HIDE DEF t, exact
  <2>14. TopK(t, K, cand) = BestRows(exact, K)
    BY <1>1, <2>6, <2>8, <2>9, <2>10, SearchIs
  <2> QED BY <2>12, <2>13, <2>14
<1> QED BY <1>2, <1>3

\* What the build of pq.py leaves.
PqBuilt ==
    /\ vectors = Corpus
    /\ \E metric \in Metrics, books \in Books :
         pq = [metric |-> metric, books |-> books,
               codes  |-> [r \in Row |-> Encode(metric, books, Corpus[r])]]

LEMMA PqRight ==
    ASSUME kind = "pq", PqBuilt, NEW q \in Queries, NEW rerank \in Nat
    PROVE  PqAnswer(q, rerank) = BestCoded(Row, q, rerank)
<1> DEFINE ids == [i \in 1 .. N |-> i - 1]
           s == [i \in 1 .. N |-> TableSum(Table(q), pq.codes[i - 1])]
           coded == [r \in Row |-> Exact(q, Decoded[r])]
<1>1. /\ HasBooks /\ vectors = Corpus
      /\ pq.codes = [r \in Row |-> Encode(pq.metric, pq.books, Corpus[r])]
  BY DEF PqBuilt, HasBooks
<1>2. q \in Vector /\ Corpus \in [Row -> Vector]
  BY CorpusAssumption
<1>3. pq.books \in Books
  BY <1>1 DEF HasBooks
<1>4. \A r \in Row : IsCode(pq.books, pq.codes[r])
  BY <1>1, <1>2, <1>3, EncodeIs
<1>5. \A r \in Row : Decoded[r] = Decode(pq.books, pq.codes[r])
  BY DEF Decoded, Decode
<1>6. \A r \in Row : Decoded[r] \in Vector
  BY <1>3, <1>4, <1>5, DecodeType
<1>7. coded \in [Row -> Int]
  BY <1>2, <1>6, ExactType
<1>8. OnceEach(ids, Row)
  <2>1. ids \in [1 .. N -> Row] /\ Len(ids) = N
    BY Rows
  <2>2. ids \in Seq(Row)
    BY <2>1, Rows
  <2>3. ASSUME NEW x \in Row PROVE \E i \in 1 .. N : ids[i] = x
    <3>1. x + 1 \in 1 .. N /\ ids[x + 1] = x
      BY Rows
    <3> QED BY <3>1
  <2>4. \A i, j \in 1 .. N : ids[i] = ids[j] => i = j
    BY Rows
  <2> HIDE DEF ids
  <2> QED BY <2>1, <2>2, <2>3, <2>4 DEF OnceEach
<1>9. ScoredBy(s, ids, coded)
  <2>1. Len(ids) = N
    BY Rows
  <2>2. ASSUME NEW i \in 1 .. N PROVE s[i] = coded[ids[i]]
    <3>1. i - 1 \in Row /\ ids[i] = i - 1
      BY Rows
    <3>2. TableSum(Table(q), pq.codes[i - 1]) = Exact(q, Decoded[i - 1])
      BY <1>1, <1>2, <1>4, <1>5, <3>1, TableSumIs
    <3> QED BY <3>1, <3>2
  <2>3. s = [i \in 1 .. N |-> s[i]]
    OBVIOUS
  <2> HIDE DEF ids, s, coded
  <2> QED BY <2>1, <2>2, <2>3 DEF ScoredBy
<1>10. PqAnswer(q, rerank) = Best(s, ids, q, rerank)
  BY DEF PqAnswer
<1>11. BestCoded(Row, q, rerank) = Reranked(coded, q, rerank)
  BY DEF BestCoded, Reranked
<1> HIDE DEF s, ids, coded
<1>12. Best(s, ids, q, rerank) = Reranked(coded, q, rerank)
  BY <1>1, <1>2, <1>7, <1>8, <1>9, BestIs
<1> QED BY <1>10, <1>11, <1>12


-----------------------------------------------------------------------------
(* The order of the rows in an IVF-PQ index.                               *)

Label == [r \in Row |-> BestCenter(Corpus[r])]

BeforeRow(r) == {x \in Row : \/ Label[x] < Label[r]
                             \/ Label[x] = Label[r] /\ x < r}

Before == [r \in Row |-> BeforeRow(r)]

InOrder == ByRank(Ranks(Before, Row))

Under(c) == {r \in Row : Label[r] < c}

Offset == [c \in 0 .. NList |-> Cardinality(Under(c))]

LEMMA BeforeIs ==
    /\ Label \in [Row -> List]
    /\ IsRanking(Ranks(Before, Row), Row)
    /\ \A r \in Row : Ranks(Before, Row)[r] = Cardinality(Before[r])
    /\ \A r \in Row : Before[r] \in SUBSET Row /\ r \notin Before[r]
<1>1. Label \in [Row -> List]
  BY BestCenterType, CorpusAssumption DEF Label
<1>2. List \subseteq Nat
  BY DEF List
<1>3. \A r \in Row : Label[r] \in Nat /\ r \in Nat
  BY <1>1, <1>2, Rows
<1> HIDE DEF Label
<1>b. \A r \in Row : Before[r] = BeforeRow(r)
  BY DEF Before
<1>c. \A x, r \in Row : x \in BeforeRow(r) <=>
          \/ Label[x] < Label[r]
          \/ Label[x] = Label[r] /\ x < r
  BY DEF BeforeRow
<1>4. Before \in [Row -> SUBSET Row]
  BY DEF Before, BeforeRow
<1>5. \A x, r \in Row : x \in Before[r] <=>
          \/ Label[x] < Label[r]
          \/ Label[x] = Label[r] /\ x < r
  BY <1>b, <1>c
<1>6. \A x \in Row : x \notin Before[x]
  BY <1>3, <1>5
<1>7. ASSUME NEW p \in Row, NEW q \in Row, p \in Before[q], NEW x \in Before[p]
      PROVE  x \in Before[q]
  <2>1. x \in Row
    BY <1>4
  <2>2. /\ \/ Label[p] < Label[q]
           \/ Label[p] = Label[q] /\ p < q
        /\ \/ Label[x] < Label[p]
           \/ Label[x] = Label[p] /\ x < p
    BY <1>5, <1>7, <2>1
  <2>3. \/ Label[x] < Label[q]
        \/ Label[x] = Label[q] /\ x < q
    BY <1>3, <2>1, <2>2
  <2> QED BY <1>5, <2>1, <2>3
<1>8. ASSUME NEW p \in Row, NEW q \in Row, p # q
      PROVE  p \in Before[q] \/ q \in Before[p]
  BY <1>3, <1>5, <1>8
<1>9. IsOrder(Before, Row)
  BY <1>4, <1>6, <1>7, <1>8, Rows DEF IsOrder
<1>10. IsRanking(Ranks(Before, Row), Row)
  BY <1>9, OrderRanks
<1>11. \A r \in Row : Before[r] \in SUBSET Row
  BY <1>4
<1> QED BY <1>1, <1>6, <1>10, <1>11 DEF Ranks

\* Between two offsets are the rows of a list.
LEMMA OffsetIs ==
    /\ OnceEach(InOrder, Row) /\ Len(InOrder) = N
    /\ \A c \in 0 .. NList : Offset[c] \in 0 .. N
    /\ \A c \in List : /\ c + 1 \in 0 .. NList /\ c \in 0 .. NList
                      /\ Offset[c] <= Offset[c + 1]
    /\ \A c \in List : \A i \in 1 .. N :
          Label[InOrder[i]] = c <=> Offset[c] < i /\ i <= Offset[c + 1]
<1> DEFINE R == Ranks(Before, Row)
           a == InOrder
<1>1. /\ Label \in [Row -> List] /\ IsRanking(R, Row)
      /\ \A r \in Row : R[r] = Cardinality(Before[r])
      /\ \A r \in Row : Before[r] \in SUBSET Row /\ r \notin Before[r]
  BY BeforeIs
<1>2. NList \in Nat /\ List = 0 .. NList - 1
  BY CentersAssumption DEF List
<1>3. N \in Nat /\ Cardinality(Row) = N
  BY Rows
<1> HIDE DEF R
<1>4. /\ a \in [1 .. N -> Row] /\ Len(a) = N
      /\ \A i \in 1 .. N : R[a[i]] = i - 1
      /\ \A x \in Row : \E i \in 1 .. N : a[i] = x
      /\ \A i, j \in 1 .. N : a[i] = a[j] => i = j
  <2>1. /\ ByRank(R) \in [1 .. Cardinality(Row) -> Row]
        /\ Len(ByRank(R)) = Cardinality(Row)
        /\ \A i \in 1 .. Cardinality(Row) : R[ByRank(R)[i]] = i - 1
        /\ \A x \in Row : \E i \in 1 .. Cardinality(Row) : ByRank(R)[i] = x
        /\ \A i, j \in 1 .. Cardinality(Row) : ByRank(R)[i] = ByRank(R)[j] => i = j
    BY <1>1, ByRankIs
  <2>2. a = ByRank(R)
    BY DEF InOrder, R, a
  <2> HIDE DEF a
  <2> QED BY <1>3, <2>1, <2>2
<1> HIDE DEF a
<1>5. OnceEach(a, Row)
  <2>1. a \in Seq(Row)
    BY <1>3, <1>4
  <2> QED BY <1>4, <2>1 DEF OnceEach
<1>6. ASSUME NEW c \in 0 .. NList
      PROVE  /\ Offset[c] = Cardinality(Under(c)) /\ Offset[c] \in 0 .. N
             /\ Under(c) \in SUBSET Row /\ IsFiniteSet(Under(c))
  <2>1. Under(c) \in SUBSET Row
    BY DEF Under
  <2> QED BY <2>1, RowSets DEF Offset
<1>7. ASSUME NEW c \in 0 .. NList, NEW d \in 0 .. NList, c <= d
      PROVE  Offset[c] <= Offset[d]
  <2>1. Under(c) \in SUBSET Under(d)
    <3>1. ASSUME NEW r \in Row, Label[r] < c PROVE Label[r] < d
      <4>1. Label[r] \in Nat
        BY <1>1, <1>2
      <4> QED BY <1>2, <1>7, <3>1, <4>1
    <3> QED BY <3>1 DEF Under
  <2> QED BY <1>6, <2>1, FS_Subset
<1>8. \A c \in List : c + 1 \in 0 .. NList /\ c \in 0 .. NList
  BY <1>2
<1>9. ASSUME NEW r \in Row
      PROVE  Offset[Label[r]] <= R[r] /\ R[r] + 1 <= Offset[Label[r] + 1]
  <2>1. Label[r] \in List /\ Label[r] \in Nat
    BY <1>1, <1>2
  <2>2. PICK c \in List : c = Label[r]
    BY <2>1
  <2>3. IsFiniteSet(Before[r]) /\ R[r] = Cardinality(Before[r]) /\ R[r] \in Nat
    <3>1. Before[r] \in SUBSET Row
      BY <1>1
    <3>2. IsFiniteSet(Before[r]) /\ Cardinality(Before[r]) \in 0 .. N
      BY <3>1, RowSets
    <3> QED BY <1>1, <1>3, <3>2
  <2>4. \A x \in Row : x \in Before[r] <=>
            \/ Label[x] < c
            \/ Label[x] = c /\ x < r
    <3>1. Before[r] = BeforeRow(r)
      BY DEF Before
    <3> QED BY <2>2, <3>1 DEF BeforeRow
  <2>5. Under(c) \in SUBSET Before[r]
    BY <2>4 DEF Under
  <2>6. Offset[c] <= R[r]
    <3>1. Cardinality(Under(c)) <= Cardinality(Before[r])
      BY <2>3, <2>5, FS_Subset
    <3> QED BY <1>6, <1>8, <2>3, <3>1
  <2>7. Before[r] \cup {r} \in SUBSET Under(c + 1)
    <3>1. ASSUME NEW x \in Before[r] PROVE x \in Row /\ Label[x] < c + 1
      <4>1. x \in Row
        BY <1>1
      <4>2. Label[x] \in Nat /\ c \in Nat
        BY <1>1, <1>2, <4>1
      <4> QED BY <2>4, <4>1, <4>2
    <3>2. Label[r] < c + 1
      BY <2>1, <2>2
    <3> QED BY <3>1, <3>2 DEF Under
  <2>8. Cardinality(Before[r] \cup {r}) = R[r] + 1
    <3>1. r \notin Before[r]
      BY <1>1
    <3> QED BY <2>3, <3>1, FS_AddElement
  <2>9. R[r] + 1 <= Offset[c + 1]
    <3>1. /\ Offset[c + 1] = Cardinality(Under(c + 1))
          /\ IsFiniteSet(Under(c + 1))
      BY <1>6, <1>8
    <3>2. Cardinality(Before[r] \cup {r}) <= Cardinality(Under(c + 1))
      BY <2>7, <3>1, FS_Subset
    <3> QED BY <2>8, <3>1, <3>2
  <2> QED BY <2>2, <2>6, <2>9
<1>10. ASSUME NEW i \in 1 .. N
       PROVE  /\ Label[a[i]] \in List
              /\ Offset[Label[a[i]]] < i /\ i <= Offset[Label[a[i]] + 1]
  <2>1. a[i] \in Row /\ R[a[i]] = i - 1 /\ Label[a[i]] \in List
    BY <1>1, <1>4
  <2>2. Offset[Label[a[i]]] <= i - 1 /\ (i - 1) + 1 <= Offset[Label[a[i]] + 1]
    BY <1>9, <2>1
  <2>3. Offset[Label[a[i]]] \in Nat
    BY <1>3, <1>6, <1>8, <2>1
  <2>4. (i - 1) + 1 = i
    OBVIOUS
  <2> QED BY <2>1, <2>2, <2>3, <2>4
<1>11. ASSUME NEW c \in List, NEW i \in 1 .. N,
              Offset[c] < i, i <= Offset[c + 1]
       PROVE  Label[a[i]] = c
  <2>1. PICK d \in List : d = Label[a[i]]
    BY <1>10
  <2>2. Offset[d] < i /\ i <= Offset[d + 1]
    BY <1>10, <2>1
  <2>3. /\ c + 1 \in 0 .. NList /\ c \in 0 .. NList
        /\ d + 1 \in 0 .. NList /\ d \in 0 .. NList
    BY <1>8
  <2>4. /\ Offset[c] \in Nat /\ Offset[c + 1] \in Nat
        /\ Offset[d] \in Nat /\ Offset[d + 1] \in Nat
    BY <1>3, <1>6, <2>3
  <2>5. CASE d < c
    <3>1. d + 1 <= c
      BY <1>2, <2>5
    <3>2. Offset[d + 1] <= Offset[c]
      BY <1>7, <2>3, <3>1
    <3> QED BY <1>11, <2>2, <2>4, <3>2
  <2>6. CASE c < d
    <3>1. c + 1 <= d
      BY <1>2, <2>6
    <3>2. Offset[c + 1] <= Offset[d]
      BY <1>7, <2>3, <3>1
    <3> QED BY <1>11, <2>2, <2>4, <3>2
  <2>7. d < c \/ c < d \/ d = c
    BY <1>2
  <2> QED BY <2>1, <2>5, <2>6, <2>7
<1>12. \A c \in List : \A i \in 1 .. N :
          Label[a[i]] = c <=> Offset[c] < i /\ i <= Offset[c + 1]
  BY <1>10, <1>11
<1>13. \A c \in List : Offset[c] <= Offset[c + 1]
  <2>1. ASSUME NEW c \in List PROVE c <= c + 1
    BY <1>2
  <2> QED BY <1>7, <1>8, <2>1
<1> QED BY <1>4, <1>5, <1>6, <1>8, <1>12, <1>13 DEF a


\* What the build of ivf_pq.py leaves.
IvfPqBuilt ==
    /\ vectors = Corpus
    /\ \E metric \in Metrics, books \in Books :
         pq = [metric   |-> metric, books |-> books,
               list_ids |-> InOrder,
               codes    |-> InListOrder(InOrder,
                   [r \in Row |-> Encode(metric, books,
                                         Minus(Corpus[r], Centers[Label[r]]))]),
               offsets  |-> Offset]

\* The code of the residual of a row.
RowCode(r) == Encode(pq.metric, pq.books, Minus(Corpus[r], Centers[Label[r]]))

LEMMA IvfPqParts ==
    ASSUME IvfPqBuilt
    PROVE  /\ HasBooks /\ vectors = Corpus /\ pq.list_ids = InOrder
           /\ pq.offsets = Offset
           /\ \A i \in 1 .. N : pq.codes[i] = RowCode(InOrder[i])
           /\ \A r \in Row : Label[r] \in List /\ Centers[Label[r]] \in Vector
           /\ \A r \in Row : IsCode(pq.books, RowCode(r))
<1>1. PICK metric \in Metrics : \E books \in Books :
         pq = [metric   |-> metric, books |-> books,
               list_ids |-> InOrder,
               codes    |-> InListOrder(InOrder,
                   [r \in Row |-> Encode(metric, books,
                                         Minus(Corpus[r], Centers[Label[r]]))]),
               offsets  |-> Offset]
  BY DEF IvfPqBuilt
<1>2. PICK books \in Books :
         pq = [metric   |-> metric, books |-> books,
               list_ids |-> InOrder,
               codes    |-> InListOrder(InOrder,
                   [r \in Row |-> Encode(metric, books,
                                         Minus(Corpus[r], Centers[Label[r]]))]),
               offsets  |-> Offset]
  BY <1>1
<1>3. /\ pq.metric = metric /\ pq.books = books /\ pq.list_ids = InOrder
      /\ pq.offsets = Offset
      /\ pq.codes = InListOrder(InOrder,
             [r \in Row |-> Encode(metric, books,
                                   Minus(Corpus[r], Centers[Label[r]]))])
  BY <1>2
<1>4. pq.codes = InListOrder(InOrder, [r \in Row |-> RowCode(r)])
  BY <1>3 DEF RowCode
<1>5. \A i \in 1 .. N : InOrder[i] \in Row /\ i \in DOMAIN InOrder
  BY OffsetIs DEF OnceEach
<1>6. \A i \in 1 .. N : pq.codes[i] = RowCode(InOrder[i])
  <2> HIDE DEF RowCode
  <2> QED BY <1>4, <1>5 DEF InListOrder
<1>7. \A r \in Row : Label[r] \in List /\ Centers[Label[r]] \in Vector
  BY BeforeIs, CentersAssumption
<1>8. \A r \in Row : Minus(Corpus[r], Centers[Label[r]]) \in Vector
  BY <1>7, MinusType, CorpusAssumption
<1>9. \A r \in Row : IsCode(pq.books, RowCode(r))
  BY <1>3, <1>8, EncodeIs DEF RowCode
<1>10. HasBooks /\ vectors = Corpus
  BY <1>3 DEF HasBooks, IvfPqBuilt
<1> QED BY <1>3, <1>6, <1>7, <1>9, <1>10

\* The positions of list c, probed as the p-th.
Cell(c, p) ==
    [i \in 1 .. Offset[c + 1] - Offset[c] |-> [at |-> Offset[c] + i, of |-> p]]

Cells(c, p) == {[at |-> a, of |-> p] : a \in Offset[c] + 1 .. Offset[c + 1]}

LEMMA CellOnce ==
    ASSUME NEW c \in List, NEW p
    PROVE  OnceEach(Cell(c, p), Cells(c, p))
<1> DEFINE o == Offset[c]
           k == Offset[c + 1] - Offset[c]
           a == Cell(c, p)
           S == Cells(c, p)
<1>1. o \in Nat /\ k \in Nat /\ o + k = Offset[c + 1]
  <2>1. /\ Offset[c] \in 0 .. N /\ Offset[c + 1] \in 0 .. N
        /\ Offset[c] <= Offset[c + 1] /\ N \in Nat
    BY OffsetIs, Rows
  <2> QED BY <2>1
<1>2. a = [i \in 1 .. k |-> [at |-> o + i, of |-> p]]
  BY DEF Cell
<1>3. S = {[at |-> x, of |-> p] : x \in o + 1 .. o + k}
  BY <1>1 DEF Cells
<1> HIDE DEF a, S, k, o
<1>4. \A i \in 1 .. k : a[i] \in S
  <2>1. ASSUME NEW i \in 1 .. k PROVE a[i] \in S
    <3>1. o + i \in o + 1 .. o + k
      BY <1>1
    <3> QED BY <1>2, <1>3, <3>1
  <2> QED BY <2>1
<1>5. a \in [1 .. k -> S]
  BY <1>2, <1>4
<1>6. a \in Seq(S) /\ Len(a) = k
  BY <1>1, <1>5
<1>7. ASSUME NEW x \in S PROVE \E i \in 1 .. k : a[i] = x
  <2>1. PICK y \in o + 1 .. o + k : x = [at |-> y, of |-> p]
    BY <1>3
  <2>2. y - o \in 1 .. k /\ o + (y - o) = y
    BY <1>1
  <2>3. a[y - o] = [at |-> o + (y - o), of |-> p]
    BY <1>2, <2>2
  <2> QED BY <2>1, <2>2, <2>3
<1>8. ASSUME NEW i \in 1 .. k, NEW j \in 1 .. k, a[i] = a[j] PROVE i = j
  <2>1. a[i].at = o + i /\ a[j].at = o + j
    BY <1>2
  <2> QED BY <1>1, <1>8, <2>1
<1> QED BY <1>6, <1>7, <1>8 DEF OnceEach, a, S

\* The places that a query reads.
ReadRows(probe) == Concat([p \in DOMAIN probe |-> Cell(probe[p], p)])

Places(probe) == {row \in [at : 1 .. N, of : 1 .. Len(probe)] :
                     Label[InOrder[row.at]] = probe[row.of]}

LEMMA PlacesOnce ==
    ASSUME NEW PB \in SUBSET List, NEW probe, OnceEach(probe, PB)
    PROVE  OnceEach(ReadRows(probe), Places(probe))
<1> DEFINE m == Len(probe)
           parts == [p \in DOMAIN probe |-> Cell(probe[p], p)]
           sets == [p \in 1 .. m |-> Cells(probe[p], p)]
<1>1. /\ m \in Nat /\ DOMAIN probe = 1 .. m /\ \A i \in 1 .. m : probe[i] \in List
  BY DEF OnceEach
<1> HIDE DEF m
<1>2. parts = [p \in 1 .. m |-> Cell(probe[p], p)]
  BY <1>1
<1> HIDE DEF parts
<1>3. \A p \in 1 .. m : OnceEach(parts[p], sets[p])
  BY <1>1, <1>2, CellOnce
<1>4. ASSUME NEW i \in 1 .. m, NEW j \in 1 .. m, NEW x \in sets[i], x \in sets[j]
      PROVE  i = j
  <2>1. x \in Cells(probe[i], i) /\ x \in Cells(probe[j], j)
    BY <1>4
  <2>2. x.of = i /\ x.of = j
    BY <2>1 DEF Cells
  <2> QED BY <2>2
<1>5. parts = [p \in 1 .. m |-> parts[p]]
  BY <1>2
<1>6. \A p \in 1 .. m : sets[p] = Cells(probe[p], p)
  OBVIOUS
<1> HIDE DEF sets
<1>7. PartsOf(parts, sets, m)
  BY <1>1, <1>3, <1>4, <1>5 DEF PartsOf
<1>8. OnceEach(Concat(parts), Upto(sets, m))
  BY <1>7, ConcatIs
<1>9. /\ N \in Nat
      /\ \A c \in List : Offset[c] \in 0 .. N /\ Offset[c + 1] \in 0 .. N
      /\ \A c \in List : \A i \in 1 .. N :
            Label[InOrder[i]] = c <=> Offset[c] < i /\ i <= Offset[c + 1]
  BY OffsetIs, Rows
<1>10. ASSUME NEW x \in Upto(sets, m) PROVE x \in Places(probe)
  <2>1. PICK p \in 1 .. m : x \in Cells(probe[p], p)
    BY <1>6 DEF Upto
  <2>2. PICK c \in List : c = probe[p]
    BY <1>1
  <2>3. PICK y \in Offset[c] + 1 .. Offset[c + 1] : x = [at |-> y, of |-> p]
    BY <2>1, <2>2 DEF Cells
  <2>4. y \in 1 .. N /\ Offset[c] < y /\ y <= Offset[c + 1]
    BY <1>9
  <2>5. Label[InOrder[y]] = c
    BY <1>9, <2>4
  <2>6. x \in [at : 1 .. N, of : 1 .. m] /\ x.at = y /\ x.of = p
    BY <2>3, <2>4
  <2> QED BY <2>2, <2>5, <2>6 DEF Places, m
<1>11. ASSUME NEW x \in Places(probe) PROVE x \in Upto(sets, m)
  <2>1. /\ x \in [at : 1 .. N, of : 1 .. m]
        /\ Label[InOrder[x.at]] = probe[x.of]
    BY DEF Places, m
  <2>2. PICK y \in 1 .. N : y = x.at
    BY <2>1
  <2>3. PICK p \in 1 .. m : p = x.of
    BY <2>1
  <2>4. x = [at |-> y, of |-> p]
    BY <2>1, <2>2, <2>3
  <2>5. PICK c \in List : c = probe[p]
    BY <1>1
  <2>6. Offset[c] < y /\ y <= Offset[c + 1]
    BY <1>9, <2>1, <2>2, <2>3, <2>5
  <2>7. y \in Offset[c] + 1 .. Offset[c + 1]
    BY <1>9, <2>6
  <2>8. x \in Cells(probe[p], p)
    BY <2>4, <2>5, <2>7 DEF Cells
  <2> QED BY <1>6, <2>8 DEF Upto
<1>12. Upto(sets, m) = Places(probe)
  BY <1>10, <1>11
<1> QED BY <1>8, <1>12 DEF parts, ReadRows


LEMMA IdsOnce ==
    ASSUME NEW PB \in SUBSET List, NEW probe, OnceEach(probe, PB), NEW rows,
           OnceEach(rows, Places(probe))
    PROVE  OnceEach([i \in DOMAIN rows |-> InOrder[rows[i].at]],
                    {r \in Row : Label[r] \in PB})
<1> DEFINE m == Len(probe)
           k == Len(rows)
           S == {r \in Row : Label[r] \in PB}
           a == [i \in DOMAIN rows |-> InOrder[rows[i].at]]
<1>1. /\ m \in Nat /\ \A i \in 1 .. m : probe[i] \in PB
      /\ \A c \in PB : \E p \in 1 .. m : probe[p] = c
      /\ \A i, j \in 1 .. m : probe[i] = probe[j] => i = j
  BY DEF OnceEach
<1>2. /\ k \in Nat /\ DOMAIN rows = 1 .. k
      /\ \A i \in 1 .. k : rows[i] \in Places(probe)
      /\ \A x \in Places(probe) : \E i \in 1 .. k : rows[i] = x
      /\ \A i, j \in 1 .. k : rows[i] = rows[j] => i = j
  BY DEF OnceEach
<1>3. /\ \A i \in 1 .. N : InOrder[i] \in Row
      /\ \A x \in Row : \E i \in 1 .. N : InOrder[i] = x
      /\ \A i, j \in 1 .. N : InOrder[i] = InOrder[j] => i = j
  <2>1. PICK b : b = InOrder
    OBVIOUS
  <2>2. OnceEach(b, Row) /\ Len(b) = N
    BY <2>1, OffsetIs
  <2>3. /\ \A i \in 1 .. N : b[i] \in Row
        /\ \A x \in Row : \E i \in 1 .. N : b[i] = x
        /\ \A i, j \in 1 .. N : b[i] = b[j] => i = j
    <3>1. \A i \in 1 .. N : b[i] \in Row
      BY <2>2 DEF OnceEach
    <3> QED BY <2>2, <3>1 DEF OnceEach
  <2> QED BY <2>1, <2>3
<1>4. \A x \in Places(probe) :
          /\ x \in [at : 1 .. N, of : 1 .. m]
          /\ x.at \in 1 .. N /\ x.of \in 1 .. m
          /\ Label[InOrder[x.at]] = probe[x.of]
  BY DEF Places, m
<1>5. \A x \in [at : 1 .. N, of : 1 .. m] :
          Label[InOrder[x.at]] = probe[x.of] => x \in Places(probe)
  BY DEF Places, m
<1> HIDE DEF m, k
<1>6. a = [i \in 1 .. k |-> InOrder[rows[i].at]]
  BY <1>2
<1> HIDE DEF a
<1>7. ASSUME NEW i \in 1 .. k PROVE a[i] \in S
  <2>1. rows[i] \in Places(probe)
    BY <1>2
  <2>2. InOrder[rows[i].at] \in Row /\ Label[InOrder[rows[i].at]] \in PB
    BY <1>1, <1>3, <1>4, <2>1
  <2> QED BY <1>6, <2>2
<1>8. ASSUME NEW r \in S PROVE \E i \in 1 .. k : a[i] = r
  <2>1. r \in Row /\ Label[r] \in PB
    OBVIOUS
  <2>2. PICK y \in 1 .. N : InOrder[y] = r
    BY <1>3, <2>1
  <2>3. PICK p \in 1 .. m : probe[p] = Label[r]
    BY <1>1, <2>1
  <2>4. PICK x \in [at : 1 .. N, of : 1 .. m] : x.at = y /\ x.of = p
    <3>1. [at |-> y, of |-> p] \in [at : 1 .. N, of : 1 .. m]
      OBVIOUS
    <3> QED BY <3>1
  <2>5. x \in Places(probe)
    BY <1>5, <2>2, <2>3, <2>4
  <2>6. PICK i \in 1 .. k : rows[i] = x
    BY <1>2, <2>5
  <2> QED BY <1>6, <2>2, <2>4, <2>6
<1>9. ASSUME NEW i \in 1 .. k, NEW j \in 1 .. k, a[i] = a[j] PROVE i = j
  <2>1. PICK x \in Places(probe) : x = rows[i]
    BY <1>2
  <2>2. PICK z \in Places(probe) : z = rows[j]
    BY <1>2
  <2>3. InOrder[x.at] = InOrder[z.at]
    BY <1>6, <1>9, <2>1, <2>2
  <2>4. x.at = z.at
    BY <1>3, <1>4, <2>3
  <2>5. x.of = z.of
    BY <1>1, <1>4, <2>3
  <2>6. x = z
    BY <1>4, <2>4, <2>5
  <2> QED BY <1>2, <2>1, <2>2, <2>6
<1> HIDE DEF S
<1>10. a \in [1 .. k -> S]
  BY <1>6, <1>7
<1>11. a \in Seq(S) /\ Len(a) = k
  BY <1>2, <1>10
<1> QED BY <1>8, <1>9, <1>11 DEF OnceEach, a, S

LEMMA IvfPqRight ==
    ASSUME kind = "ivf_pq", IvfPqBuilt, NEW q \in Queries, NEW nprobe \in Nat,
           NEW rerank \in Nat
    PROVE  IvfPqAnswer(q, nprobe, rerank)
             = BestCoded(Near(Contents, q, nprobe), q, rerank)
<1> DEFINE PB == BestLists(q, nprobe)
           probe == Probed(q, nprobe)
           rows == ReadRows(probe)
           S == {r \in Row : Label[r] \in PB}
           ids == [i \in DOMAIN rows |-> InOrder[rows[i].at]]
           Score(row) ==
             IF pq.metric = "ip"
             THEN Dot(q, Centers[probe[row.of]])
                     + TableSum(Table(q), pq.codes[row.at])
             ELSE TableSum([p \in DOMAIN probe |->
                               Table(Minus(q, Centers[probe[p]]))][row.of],
                           pq.codes[row.at])
           s == [i \in DOMAIN rows |-> Score(rows[i])]
           coded == [r \in S |-> Exact(q, Decoded[r])]
<1>1. q \in Vector /\ Corpus \in [Row -> Vector]
  BY CorpusAssumption
<1>2. /\ HasBooks /\ vectors = Corpus /\ pq.list_ids = InOrder
      /\ pq.offsets = Offset
      /\ \A i \in 1 .. N : pq.codes[i] = RowCode(InOrder[i])
      /\ \A r \in Row : Label[r] \in List /\ Centers[Label[r]] \in Vector
      /\ \A r \in Row : IsCode(pq.books, RowCode(r))
  BY IvfPqParts
<1>3. PB \in SUBSET List /\ OnceEach(probe, PB)
  BY <1>1, ProbedIs DEF BestLists
<1>4. Near(Contents, q, nprobe) = S
  <2>1. Contents = Corpus
    BY <1>2 DEF Contents
  <2>2. Near(Contents, q, nprobe)
          = {r \in Row : BestCenter(Corpus[r]) \in
               ToSet(BestRows(CenterScore(q), OneIfNone(nprobe)))}
    BY <1>1, <2>1 DEF Near, CenterScore, OneIfNone
  <2>3. \A r \in Row : Label[r] = BestCenter(Corpus[r])
    BY DEF Label
  <2> QED BY <1>2, <2>2, <2>3 DEF BestLists
<1> HIDE DEF PB, probe
<1>5. OnceEach(rows, Places(probe))
  BY <1>3, PlacesOnce
<1>6. IvfPqAnswer(q, nprobe, rerank) = Best(s, ids, q, rerank)
  <2> DEFINE there == [p \in DOMAIN probe |->
                    [i \in 1 .. pq.offsets[probe[p] + 1] - pq.offsets[probe[p]]
                        |-> [at |-> pq.offsets[probe[p]] + i, of |-> p]]]
  <2>1. there = [p \in DOMAIN probe |-> Cell(probe[p], p)]
    BY <1>2 DEF Cell
  <2>2. Concat(there) = rows
    BY <2>1 DEF ReadRows
  <2>3. IvfPqAnswer(q, nprobe, rerank)
          = Best([i \in DOMAIN Concat(there) |-> Score(Concat(there)[i])],
                 [i \in DOMAIN Concat(there) |->
                     pq.list_ids[Concat(there)[i].at]], q, rerank)
    BY DEF IvfPqAnswer, probe
  <2> HIDE DEF there, Score, rows
  <2> QED BY <1>2, <2>2, <2>3
<1> HIDE DEF rows
<1>7. OnceEach(ids, S)
  BY <1>3, <1>5, IdsOnce
<1>8. ASSUME NEW x \in Places(probe)
      PROVE  /\ InOrder[x.at] \in S
             /\ Score(x) = Exact(q, Decoded[InOrder[x.at]])
  <2>1. /\ x.at \in 1 .. N /\ x.of \in 1 .. Len(probe)
        /\ Label[InOrder[x.at]] = probe[x.of]
    BY DEF Places
  <2>2. DOMAIN probe = 1 .. Len(probe) /\ probe[x.of] \in PB
    BY <1>3, <2>1 DEF OnceEach
  <2>3. InOrder[x.at] \in Row
    BY <2>1, OffsetIs DEF OnceEach
  <2>4. PICK r \in Row : r = InOrder[x.at]
    BY <2>3
  <2>5. PICK center \in Vector : center = Centers[Label[r]]
    BY <1>2
  <2>6. PICK code : code = RowCode(r)
    OBVIOUS
  <2>7. pq.codes[x.at] = code /\ IsCode(pq.books, code)
    BY <1>2, <2>1, <2>4, <2>6
  <2>8. Centers[probe[x.of]] = center
    BY <2>1, <2>4, <2>5
  <2>9. Decoded[r] = Plus(center, Decode(pq.books, code))
    <3>1. Label[r] = BestCenter(Corpus[r])
      BY DEF Label
    <3>2. Decoded[r] = [j \in Sub |-> center[j] + pq.books[j][code[j]]]
      BY <2>5, <2>6, <3>1 DEF Decoded, RowCode
    <3> QED BY <3>2 DEF Plus, Decode
  <2>10. /\ pq.metric = "ip" =>
               Dot(q, center) + TableSum(Table(q), code) = Exact(q, Decoded[r])
         /\ pq.metric # "ip" =>
               TableSum(Table(Minus(q, center)), code) = Exact(q, Decoded[r])
    BY <1>1, <1>2, <2>7, <2>9, ResidualSumIs
  <2>11. [p \in DOMAIN probe |-> Table(Minus(q, Centers[probe[p]]))][x.of]
            = Table(Minus(q, center))
    BY <2>1, <2>2, <2>8
  <2>12. Score(x) = Exact(q, Decoded[r])
    BY <2>7, <2>8, <2>10, <2>11
  <2>13. r \in S
    BY <2>1, <2>2, <2>4
  <2> QED BY <2>4, <2>12, <2>13
<1> HIDE DEF Score, S
<1>9. S \in SUBSET Row
  BY DEF S
<1>10. ASSUME NEW r \in Row PROVE Decoded[r] \in Vector
  <2>1. PICK center \in Vector : center = Centers[Label[r]]
    BY <1>2
  <2>2. PICK code : code = RowCode(r)
    OBVIOUS
  <2>3. Decoded[r] = Plus(center, Decode(pq.books, code))
    <3>1. Label[r] = BestCenter(Corpus[r])
      BY DEF Label
    <3>2. Decoded[r] = [j \in Sub |-> center[j] + pq.books[j][code[j]]]
      BY <2>1, <2>2, <3>1 DEF Decoded, RowCode
    <3> QED BY <3>2 DEF Plus, Decode
  <2>4. IsCode(pq.books, code)
    BY <1>2, <2>2
  <2> QED BY <1>1, <1>2, <2>3, <2>4, ResidualSumIs
<1>11. coded \in [S -> Int]
  BY <1>1, <1>9, <1>10, ExactType
<1>12. ScoredBy(s, ids, coded)
  <2>1. /\ Len(ids) = Len(rows) /\ DOMAIN rows = 1 .. Len(rows)
        /\ \A i \in 1 .. Len(rows) : rows[i] \in Places(probe)
    BY <1>5 DEF OnceEach
  <2>2. ASSUME NEW i \in 1 .. Len(ids) PROVE s[i] = coded[ids[i]]
    <3>1. rows[i] \in Places(probe) /\ ids[i] = InOrder[rows[i].at]
            /\ s[i] = Score(rows[i])
      BY <2>1
    <3>2. ids[i] \in S /\ Score(rows[i]) = Exact(q, Decoded[ids[i]])
      BY <1>8, <3>1
    <3> QED BY <3>1, <3>2
  <2>3. s = [i \in 1 .. Len(ids) |-> s[i]]
    BY <2>1
  <2> HIDE DEF s, ids, coded
  <2> QED BY <2>2, <2>3 DEF ScoredBy
<1>13. BestCoded(S, q, rerank) = Reranked(coded, q, rerank)
  BY DEF BestCoded, Reranked
<1> HIDE DEF s, ids, coded
<1>14. Best(s, ids, q, rerank) = Reranked(coded, q, rerank)
  BY <1>1, <1>2, <1>7, <1>9, <1>11, <1>12, BestIs
<1> QED BY <1>4, <1>6, <1>13, <1>14


-----------------------------------------------------------------------------
(* Every index is, after every step, in the state from which it answers.   *)

FileSorted(f) == f # Nil /\ f.index = "ivf" =>
                     Sorted(f.content.vectors, f.content.lists)

AnswerInv ==
    /\ kind = "flat" => CacheInv
    /\ kind = "ivf" => Sorted(vectors, lists)
    /\ kind = "pq" => PqBuilt
    /\ kind = "ivf_pq" => IvfPqBuilt
    /\ FileSorted(file)

LEMMA AnswerInit == Init => AnswerInv
BY DEF Init, AnswerInv, FileSorted

LEMMA AnswersFollow ==
    ASSUME StoreInv, AnswerInv
    PROVE  AnswersRight
<1>1. ASSUME kind = "flat", NEW q \in Queries, NEW name \in Names
      PROVE  FlatAnswer(q, name)
               = BestOf(DOMAIN Contents \cap Passing(name, N), Contents, q)
  BY <1>1, FlatRight DEF AnswerInv
<1>2. ASSUME kind = "ivf", NEW q \in Queries, NEW nprobe \in 0 .. NList + 1,
             NEW name \in Names
      PROVE  IvfAnswer(q, name, nprobe)
               = BestOf(Near(Contents, q, nprobe) \cap Passing(name, N),
                        Contents, q)
  <2>1. nprobe \in Nat
    BY CentersAssumption
  <2> QED BY <1>2, <2>1, IvfRight DEF AnswerInv
<1>3. ASSUME kind = "pq", NEW q \in Queries, NEW rerank \in 0 .. N + 1
      PROVE  PqAnswer(q, rerank) = BestCoded(Row, q, rerank)
  <2>1. rerank \in Nat
    BY CorpusAssumption
  <2> QED BY <1>3, <2>1, PqRight DEF AnswerInv
<1>4. ASSUME kind = "ivf_pq", NEW q \in Queries, NEW nprobe \in 0 .. NList + 1,
             NEW rerank \in 0 .. N + 1
      PROVE  IvfPqAnswer(q, nprobe, rerank)
               = BestCoded(Near(Contents, q, nprobe), q, rerank)
  <2>1. rerank \in Nat /\ nprobe \in Nat
    BY CorpusAssumption, CentersAssumption
  <2> QED BY <1>4, <2>1, IvfPqRight DEF AnswerInv
<1> DEFINE F(q) == \A name \in Names :
                      FlatAnswer(q, name)
                          = BestOf(DOMAIN Contents \cap Passing(name, N), Contents, q)
           I(q) == \A nprobe \in 0 .. NList + 1 : \A name \in Names :
                      IvfAnswer(q, name, nprobe)
                          = BestOf(Near(Contents, q, nprobe) \cap Passing(name, N),
                                   Contents, q)
           P(q) == \A rerank \in 0 .. N + 1 :
                      PqAnswer(q, rerank) = BestCoded(Row, q, rerank)
           J(q) == \A nprobe \in 0 .. NList + 1 : \A rerank \in 0 .. N + 1 :
                      IvfPqAnswer(q, nprobe, rerank)
                          = BestCoded(Near(Contents, q, nprobe), q, rerank)
<1>5. \A q \in Queries : /\ kind = "flat" => F(q)
                         /\ kind = "ivf" => I(q)
                         /\ kind = "pq" => P(q)
                         /\ kind = "ivf_pq" => J(q)
  BY <1>1, <1>2, <1>3, <1>4
<1>6. AnswersRight <=>
        \A q \in Queries :
            CASE kind = "flat" -> F(q)
              [] kind = "ivf" -> I(q)
              [] kind = "pq" -> P(q)
              [] kind = "ivf_pq" -> J(q)
              [] OTHER -> TRUE
  BY Zenon DEF AnswersRight
<1> HIDE DEF F, I, P, J
<1>7. ASSUME NEW q \in Queries
      PROVE  CASE kind = "flat" -> F(q)
               [] kind = "ivf" -> I(q)
               [] kind = "pq" -> P(q)
               [] kind = "ivf_pq" -> J(q)
               [] OTHER -> TRUE
  <2>1. CASE kind = "flat"
    BY <1>5, <2>1
  <2>2. CASE kind = "ivf"
    BY <1>5, <2>2
  <2>3. CASE kind = "pq"
    BY <1>5, <2>3
  <2>4. CASE kind = "ivf_pq"
    BY <1>5, <2>4
  <2>5. CASE kind \notin {"flat", "ivf", "pq", "ivf_pq"}
    BY <2>5
  <2> QED BY <2>1, <2>2, <2>3, <2>4, <2>5
<1> QED BY <1>6, <1>7

\* Labelled lists are sorted: those of SetLists, when each label is the best
\* center.
LEMMA LabelledSorted ==
    ASSUME NEW v, NEW D \in SUBSET Row, NEW label \in [D -> List],
           \A r \in D : label[r] = BestCenter(v[r])
    PROVE  Sorted(v, SetLists(label))
<1> DEFINE l == SetLists(label)
           Of(c) == {r \in D : label[r] = c}
<1>1. ASSUME NEW c \in List
      PROVE  /\ OnceEach(l[c], ToSet(l[c]))
             /\ \A r \in ToSet(l[c]) : c = BestCenter(v[r])
  <2>1. l[c] = Ascending(Of(c))
    BY DEF SetLists
  <2>2. Of(c) \in SUBSET Row
    OBVIOUS
  <2>3. \A r \in Of(c) : c = BestCenter(v[r])
    OBVIOUS
  <2> HIDE DEF Of, l
  <2>4. OnceEach(l[c], Of(c))
    BY <2>1, <2>2, RowSets, Rows, AscendingOnce
  <2>5. ToSet(l[c]) = Of(c)
    <3>1. \A x \in Of(c) : x \in ToSet(l[c])
      BY <2>4 DEF OnceEach, ToSet
    <3>2. \A x \in ToSet(l[c]) : x \in Of(c)
      BY <2>4 DEF OnceEach, ToSet
    <3> QED BY <3>1, <3>2
  <2> QED BY <2>3, <2>4, <2>5
<1> QED BY <1>1 DEF Sorted


\* An empty cache is right.
LEMMA CachePopped ==
    ASSUME NEW k \in Nat, DOMAIN vectors' = 0 .. k - 1, Pop
    PROVE  CacheInv'
<1>1. n' = Cardinality(0 .. k - 1)
  BY DEF n
<1>2. n' = k
  <2>1. Cardinality(0 .. k - 1) = k
    BY FS_Interval
  <2> QED BY <1>1, <2>1
<1>3. filtered' = NoCache /\ filteredRows' = NoCache
  BY DEF Pop
<1>4. DOMAIN filtered' = {} /\ DOMAIN filteredRows' = {}
  BY <1>3 DEF NoCache
<1> QED BY <1>2, <1>4 DEF CacheInv

LEMMA FileSortedSame ==
    ASSUME FileSorted(file), file' = file
    PROVE  FileSorted(file')
BY DEF FileSorted

LEMMA BuildAnswers ==
    ASSUME StoreInv, AnswerInv, NEW k \in {"flat", "ivf", "pq", "ivf_pq"}, Build(k)
    PROVE  AnswerInv'
<1>1. kind' = k /\ vectors' = Corpus /\ file' = file
  BY DEF Build, Begin, FlatBuild, IvfBuild, PqBuild, IvfPqBuild
<1>2. Corpus \in [Row -> Vector] /\ DOMAIN Corpus = Row
  BY CorpusAssumption
<1>3. FileSorted(file')
  BY <1>1, FileSortedSame DEF AnswerInv
<1>4. CASE k = "flat"
  <2>1. Pop
    BY <1>4 DEF Build, FlatBuild
  <2>2. CacheInv'
    BY <1>1, <1>2, <2>1, Rows, CachePopped
  <2> QED BY <1>1, <1>3, <1>4, <2>2 DEF AnswerInv
<1>5. CASE k = "ivf"
  <2> DEFINE label == [r \in Row |-> BestCenter(Corpus[r])]
  <2>1. lists' = SetLists(label)
    BY <1>5 DEF Build, IvfBuild
  <2>2. label \in [Row -> List] /\ \A r \in Row : label[r] = BestCenter(Corpus[r])
    BY <1>2, BestCenterType
  <2> HIDE DEF label
  <2>3. Sorted(vectors', lists')
    BY <1>1, <2>1, <2>2, LabelledSorted
  <2> QED BY <1>1, <1>3, <1>5, <2>3 DEF AnswerInv
<1>6. CASE k = "pq"
  <2>1. PqBuilt'
    BY <1>6 DEF Build, PqBuild, PqBuilt
  <2> QED BY <1>1, <1>3, <1>6, <2>1 DEF AnswerInv
<1>7. CASE k = "ivf_pq"
  <2> DEFINE Built(order, offset) ==
               \E metric \in Metrics, books \in Books :
                 pq' = [metric   |-> metric, books |-> books,
                        list_ids |-> order,
                        codes    |-> InListOrder(order,
                           [r \in Row |-> Encode(metric, books,
                                         Minus(Corpus[r], Centers[Label[r]]))]),
                        offsets  |-> offset]
             BuiltAll(order, offset) ==
               \E metric \in Metrics, books \in Books :
                 pq' = [metric   |-> metric, books |-> books,
                        list_ids |-> order,
                        codes    |-> InListOrder(order,
                           [r \in Row |-> Encode(metric, books,
                               [x \in Row |-> Minus(Corpus[x],
                                   Centers[Label[x]])][r])]),
                        offsets  |-> offset]
  <2>1. BuiltAll(ByRank([r \in Row |-> Cardinality(BeforeRow(r))]), Offset)
    BY <1>7 DEF Build, IvfPqBuild, Label, BeforeRow, Offset, Under
  <2>2. \A order, offset : BuiltAll(order, offset) => Built(order, offset)
    OBVIOUS
  <2>3. [r \in Row |-> Cardinality(BeforeRow(r))] = Ranks(Before, Row)
    BY DEF Ranks, Before
  <2>4. Built(InOrder, Offset)
    <3> HIDE DEF Built, BuiltAll
    <3> QED BY <2>1, <2>2, <2>3 DEF InOrder
  <2>5. IvfPqBuilt'
    BY <1>1, <2>4 DEF IvfPqBuilt, InOrder, Label, Ranks, Before, BeforeRow, Offset, Under
  <2> QED BY <1>1, <1>3, <1>7, <2>5 DEF AnswerInv
<1> QED BY <1>4, <1>5, <1>6, <1>7

LEMMA LoadAnswers ==
    ASSUME StoreInv, AnswerInv, NEW k \in {"flat", "ivf"}, Load(k)
    PROVE  AnswerInv'
<1>1. kind' = k /\ file' = file /\ vectors' = file.content.vectors
  BY DEF Load, Begin, FlatLoad, IvfLoad
<1>2. file \in Files /\ file # Nil /\ file.index = k
  BY FileAssumption DEF Load, FlatLoad, IvfLoad, Read, Open, Check, StoreInv
<1>3. FileSorted(file')
  BY <1>1, FileSortedSame DEF AnswerInv
<1>4. CASE k = "flat"
  <2>1. Pop
    BY <1>4 DEF Load, FlatLoad
  <2>2. file.content \in FlatContent
    BY <1>2, <1>4 DEF Files
  <2>3. DOMAIN vectors' = Row
    BY <1>1, <2>2 DEF FlatContent
  <2>4. CacheInv'
    BY <2>1, <2>3, Rows, CachePopped
  <2> QED BY <1>1, <1>3, <1>4, <2>4 DEF AnswerInv
<1>5. CASE k = "ivf"
  <2>1. lists' = file.content.lists
    BY <1>5 DEF Load, IvfLoad
  <2>2. Sorted(vectors', lists')
    BY <1>1, <1>2, <1>5, <2>1 DEF AnswerInv, FileSorted
  <2> QED BY <1>1, <1>3, <1>5, <2>2 DEF AnswerInv
<1> QED BY <1>4, <1>5

LEMMA DeleteAnswers ==
    ASSUME StoreInv, AnswerInv, Delete
    PROVE  AnswerInv'
<1>1. /\ kind \in {"flat", "ivf"} /\ kind' = kind
      /\ vectors' = vectors /\ file' = file
  BY DEF Delete, Step, FlatDelete, IvfDelete
<1>2. FileSorted(file')
  BY <1>1, FileSortedSame DEF AnswerInv
<1>3. CASE kind = "flat"
  <2>1. Pop
    BY <1>3 DEF Delete, FlatDelete
  <2>2. n \in Nat /\ DOMAIN vectors' = 0 .. n - 1
    BY <1>1, <1>3 DEF AnswerInv, CacheInv
  <2>3. CacheInv'
    BY <2>1, <2>2, CachePopped
  <2> QED BY <1>1, <1>2, <1>3, <2>3 DEF AnswerInv
<1>4. CASE kind = "ivf"
  <2>1. lists' = lists
    BY <1>4 DEF Delete, IvfDelete
  <2>2. Sorted(vectors', lists')
    BY <1>1, <1>4, <2>1 DEF AnswerInv
  <2> QED BY <1>1, <1>2, <1>4, <2>2 DEF AnswerInv
<1> QED BY <1>1, <1>3, <1>4

\* The label of a row is its best center.
LEMMA LabelsAre ==
    ASSUME Sorted(vectors, lists), NEW r \in Listed
    PROVE  Labels[r] \in List /\ Labels[r] = BestCenter(vectors[r])
<1>1. PICK c \in List : r \in InList(c)
  BY DEF Listed
<1>2. \A d \in List : r \in InList(d) => d = BestCenter(vectors[r])
  BY DEF Sorted, InList
<1>3. Labels[r] = CHOOSE d \in List : r \in InList(d)
  BY DEF Labels
<1>4. Labels[r] \in List /\ r \in InList(Labels[r])
  BY <1>1, <1>3
<1> QED BY <1>2, <1>4

LEMMA UpdateAnswers ==
    ASSUME StoreInv, AnswerInv, Update
    PROVE  AnswerInv'
<1>1. /\ kind \in {"flat", "ivf"} /\ kind' = kind /\ file' = file
  BY DEF Update, Step, FlatUpdate, IvfUpdate
<1>2. FileSorted(file')
  BY <1>1, FileSortedSame DEF AnswerInv
<1>3. CASE kind = "flat"
  <2>1. Pop /\ DOMAIN vectors' = DOMAIN vectors
    BY <1>3 DEF Update, FlatUpdate, Overwritten
  <2>2. n \in Nat /\ DOMAIN vectors' = 0 .. n - 1
    BY <1>3, <2>1 DEF AnswerInv, CacheInv
  <2>3. CacheInv'
    BY <2>1, <2>2, CachePopped
  <2> QED BY <1>1, <1>2, <1>3, <2>3 DEF AnswerInv
<1>4. CASE kind = "ivf"
  <2>1. PICK u \in Updates : IvfUpdate(UpdateSet(u, N))
    BY <1>4 DEF Update
  <2> DEFINE w == UpdateSet(u, N)
             label == [r \in Listed |-> IF r \in DOMAIN w THEN BestCenter(w[r])
                                        ELSE Labels[r]]
  <2>2. \A r \in DOMAIN w : w[r] \in Vector
    BY CorpusAssumption DEF UpdateSet
  <2>3. vectors \in [Row -> Vector] /\ Listed \in SUBSET Row
    <3>1. IvfInv /\ Listed = ListRows(lists)
      BY <1>4 DEF StoreInv, Listed, InList, ListRows
    <3> QED BY <3>1, IvfHeldType DEF IvfInv
  <2> HIDE DEF w
  <2>4. lists' = SetLists(label) /\ vectors' = Overwritten(w)
    BY <2>1 DEF IvfUpdate, w
  <2>5. \A r \in Listed : vectors'[r] = IF r \in DOMAIN w THEN w[r] ELSE vectors[r]
    BY <2>3, <2>4 DEF Overwritten
  <2>6. Sorted(vectors, lists)
    BY <1>4 DEF AnswerInv
  <2>7. ASSUME NEW r \in Listed
        PROVE  label[r] \in List /\ label[r] = BestCenter(vectors'[r])
    <3>1. CASE r \in DOMAIN w
      BY <2>2, <2>5, <3>1, BestCenterType
    <3>2. CASE r \notin DOMAIN w
      BY <2>5, <2>6, <3>2, LabelsAre
    <3> QED BY <3>1, <3>2
  <2>8. label \in [Listed -> List]
    BY <2>7
  <2> HIDE DEF label
  <2>9. Sorted(vectors', lists')
    BY <2>3, <2>4, <2>7, <2>8, LabelledSorted
  <2> QED BY <1>1, <1>2, <1>4, <2>9 DEF AnswerInv
<1> QED BY <1>1, <1>3, <1>4

LEMMA CompactAnswers ==
    ASSUME StoreInv, AnswerInv, Compact
    PROVE  AnswerInv'
<1>1. /\ kind \in {"flat", "ivf"} /\ kind' = kind /\ file' = file
  BY DEF Compact, Step, FlatCompact, IvfCompact
<1>2. FileSorted(file')
  BY <1>1, FileSortedSame DEF AnswerInv
<1>3. CASE kind = "flat"
  <2>1. FlatCompact /\ Pop
    BY <1>3 DEF Compact, FlatCompact
  <2>2. n \in Nat /\ DOMAIN vectors = 0 .. n - 1
    BY <1>3 DEF AnswerInv, CacheInv
  <2>3. \E k \in Nat : DOMAIN vectors' = 0 .. k - 1
    <3>1. CASE deleted = Nil
      BY <2>1, <2>2, <3>1 DEF FlatCompact
    <3>2. CASE deleted # Nil
      <4> DEFINE S == DOMAIN vectors \ deleted
                 live == Ascending(S)
      <4>1. S \in SUBSET Nat /\ IsFiniteSet(S)
        <5>1. S \in SUBSET (0 .. n - 1) /\ IsFiniteSet(0 .. n - 1)
          BY <2>2, FS_Interval
        <5> HIDE DEF S
        <5>2. IsFiniteSet(S)
          BY <5>1, FS_Subset
        <5> QED BY <2>2, <5>1, <5>2
      <4>2. vectors' = [p \in 0 .. Len(live) - 1 |-> vectors[live[p + 1]]]
        BY <2>1, <3>2 DEF FlatCompact
      <4>3. Len(live) \in Nat
        <5> HIDE DEF S
        <5> QED BY <4>1, AscendingIs
      <4> HIDE DEF live
      <4> QED BY <4>2, <4>3
    <3> QED BY <3>1, <3>2
  <2>4. CacheInv'
    BY <2>1, <2>3, CachePopped
  <2> QED BY <1>1, <1>2, <1>3, <2>4 DEF AnswerInv
<1>4. CASE kind = "ivf"
  <2> DEFINE D == Listed \ Bits(deleted)
             label == [r \in D |-> Labels[r]]
  <2>1. lists' = SetLists(label) /\ vectors' = vectors
    BY <1>4 DEF Compact, IvfCompact
  <2>2. D \in SUBSET Row
    <3>1. IvfInv /\ Listed = ListRows(lists)
      BY <1>4 DEF StoreInv, Listed, InList, ListRows
    <3> QED BY <3>1, IvfHeldType DEF IvfInv
  <2>3. Sorted(vectors, lists)
    BY <1>4 DEF AnswerInv
  <2>4. \A r \in D : label[r] \in List /\ label[r] = BestCenter(vectors[r])
    BY <2>3, LabelsAre
  <2>5. label \in [D -> List]
    BY <2>4
  <2> HIDE DEF label, D
  <2>6. Sorted(vectors', lists')
    BY <2>1, <2>2, <2>4, <2>5, LabelledSorted
  <2> QED BY <1>1, <1>2, <1>4, <2>6 DEF AnswerInv
<1> QED BY <1>1, <1>3, <1>4

\* What is cached stays right while the array and the tombstones are the same.
LEMMA CacheSame ==
    ASSUME CacheInv, vectors' = vectors, deleted' = deleted, idMap' = idMap,
           filtered' = filtered, filteredRows' = filteredRows
    PROVE  CacheInv'
<1>1. \A x : Fresh(x)' = Fresh(x) /\ At(Fresh(x))' = At(Fresh(x))
  BY DEF Fresh, PassingAt, At, RowAt
<1>2. n' = n
  BY DEF n
<1> HIDE DEF Fresh, At, n
<1> QED BY <1>1, <1>2 DEF CacheInv

LEMMA SaveAnswers ==
    ASSUME StoreInv, AnswerInv, BeginSave \/ EndSave
    PROVE  AnswerInv'
<1>1. /\ kind \in {"flat", "ivf"} /\ kind' = kind
      /\ vectors' = vectors /\ deleted' = deleted /\ lists' = lists
      /\ idMap' = idMap /\ filtered' = filtered /\ filteredRows' = filteredRows
  BY DEF BeginSave, EndSave, Step, flatOwn
<1>2. FileSorted(file')
  <2>1. CASE BeginSave
    <3>1. CASE kind = "flat"
      <4>1. file'.index = "flat"
        BY <2>1, <3>1 DEF BeginSave, BeginWrite
      <4> QED BY <4>1 DEF FileSorted
    <3>2. CASE kind = "ivf"
      <4>1. file' = [index |-> "ivf", content |-> IvfFile, whole |-> FALSE]
        BY <2>1, <3>2 DEF BeginSave, BeginWrite
      <4>2. file'.content.vectors = vectors /\ file'.content.lists = lists
        BY <4>1 DEF IvfFile
      <4> QED BY <3>2, <4>2 DEF FileSorted, AnswerInv
    <3> QED BY <1>1, <3>1, <3>2
  <2>2. CASE EndSave
    <3>1. file # Nil /\ file' = [file EXCEPT !.whole = TRUE] /\ file \in Files
      BY <2>2 DEF EndSave, EndWrite, StoreInv
    <3>2. file'.index = file.index /\ file'.content = file.content
      BY <3>1 DEF Files
    <3> QED BY <3>1, <3>2 DEF FileSorted, AnswerInv
  <2> QED BY <2>1, <2>2
<1>3. kind = "flat" => CacheInv'
  BY <1>1, CacheSame DEF AnswerInv
<1> QED BY <1>1, <1>2, <1>3 DEF AnswerInv

\* A search leaves in the cache what it would gather again.
LEMMA SearchAnswers ==
    ASSUME StoreInv, AnswerInv, Search
    PROVE  AnswerInv'
<1>1. /\ kind = "flat" /\ kind' = kind /\ file' = file
      /\ vectors' = vectors /\ deleted' = deleted /\ idMap' = idMap
  BY DEF Search, FlatSearch
<1>2. PICK name \in Names : FlatSearch(name)
  BY DEF Search
<1>3. CacheInv
  BY <1>1 DEF AnswerInv
<1>4. Allowed(name) = Fresh(name) /\ Gathered(name) = At(Fresh(name))
  BY <1>1, <1>3, CacheIs
<1>5. CASE All(name)
  <2>1. filtered' = filtered /\ filteredRows' = filteredRows
    BY <1>2, <1>5 DEF FlatSearch
  <2>2. CacheInv'
    BY <1>1, <1>3, <2>1, CacheSame
  <2> QED BY <1>1, <2>2, FileSortedSame DEF AnswerInv
<1>6. CASE ~All(name)
  <2>1. /\ filtered' = Put(filtered, name, Allowed(name))
        /\ IF deleted # Nil THEN filteredRows' = filteredRows
           ELSE filteredRows' = Put(filteredRows, name, Gathered(name))
    BY <1>2, <1>6 DEF FlatSearch
  <2>2. /\ \A x \in DOMAIN filtered : filtered[x] = Fresh(x)
        /\ \A x \in DOMAIN filteredRows : filteredRows[x] = At(Fresh(x))
    BY <1>3 DEF CacheInv
  <2>4. \A x \in DOMAIN filtered' : filtered'[x] = Fresh(x)
    <3>1. /\ DOMAIN filtered' = DOMAIN filtered \cup {name}
          /\ filtered'[name] = Allowed(name)
          /\ \A x \in DOMAIN filtered : x # name => filtered'[x] = filtered[x]
      BY <2>1 DEF Put
    <3> QED BY <1>4, <2>2, <3>1
  <2>5. \A x \in DOMAIN filteredRows' : filteredRows'[x] = At(Fresh(x))
    <3>1. CASE deleted # Nil
      BY <2>1, <2>2, <3>1
    <3>2. CASE deleted = Nil
      <4>1. /\ DOMAIN filteredRows' = DOMAIN filteredRows \cup {name}
            /\ filteredRows'[name] = Gathered(name)
            /\ \A x \in DOMAIN filteredRows :
                  x # name => filteredRows'[x] = filteredRows[x]
        BY <2>1, <3>2 DEF Put
      <4> QED BY <1>4, <2>2, <4>1
    <3> QED BY <3>1, <3>2
  <2>6. \A x : Fresh(x)' = Fresh(x) /\ At(Fresh(x))' = At(Fresh(x))
    BY <1>1 DEF Fresh, PassingAt, At, RowAt
  <2>7. n' = n /\ n \in Nat /\ DOMAIN vectors' = 0 .. n - 1
    BY <1>1, <1>3 DEF CacheInv, n
  <2>8. CacheInv'
    <3> HIDE DEF Fresh, At, n
    <3> QED BY <2>4, <2>5, <2>6, <2>7 DEF CacheInv
  <2> QED BY <1>1, <2>8, FileSortedSame DEF AnswerInv
<1> QED BY <1>5, <1>6

LEMMA NextAnswers ==
    ASSUME StoreInv, AnswerInv, [Next]_vars
    PROVE  AnswerInv'
<1>1. ASSUME NEW k \in {"flat", "ivf", "pq", "ivf_pq"}, Build(k) PROVE AnswerInv'
  BY <1>1, BuildAnswers
<1>2. ASSUME NEW k \in {"flat", "ivf"}, Load(k) PROVE AnswerInv'
  BY <1>2, LoadAnswers
<1>3. CASE Exit
  <2>1. kind' = "none" /\ file' = file
    BY <1>3 DEF Exit
  <2> QED BY <2>1, FileSortedSame DEF AnswerInv
<1>4. CASE Delete
  BY <1>4, DeleteAnswers
<1>5. CASE Update
  BY <1>5, UpdateAnswers
<1>6. CASE Compact
  BY <1>6, CompactAnswers
<1>7. CASE BeginSave \/ EndSave
  BY <1>7, SaveAnswers
<1>8. CASE Search
  BY <1>8, SearchAnswers
<1>9. CASE UNCHANGED vars
  <2>1. /\ kind' = kind /\ file' = file
        /\ vectors' = vectors /\ deleted' = deleted /\ lists' = lists
        /\ idMap' = idMap /\ filtered' = filtered /\ filteredRows' = filteredRows
        /\ pq' = pq
    BY <1>9 DEF vars, flatOwn
  <2>2. kind = "flat" => CacheInv'
    BY <2>1, CacheSame DEF AnswerInv
  <2>3. FileSorted(file')
    BY <2>1, FileSortedSame DEF AnswerInv
  <2>4. PqBuilt => PqBuilt'
    BY <2>1 DEF PqBuilt
  <2>5. IvfPqBuilt => IvfPqBuilt'
    BY <2>1 DEF IvfPqBuilt
  <2> QED BY <2>1, <2>2, <2>3, <2>4, <2>5 DEF AnswerInv
<1> QED BY <1>1, <1>2, <1>3, <1>4, <1>5, <1>6, <1>7, <1>8, <1>9 DEF Next

\* A search of any index returns what the definition says: of a flat index the
\* best rows that it holds and the filter admits, whatever is cached; of an IVF
\* index the best of those near the query; with codes the best by the decoded
\* vectors and, after a rerank, by the vectors (flat.py, ivf.py, pq.py,
\* ivf_pq.py: search).
THEOREM AnswersHold == Spec => []AnswersRight
<1>1. Init => StoreInv /\ AnswerInv
  BY InitHolds, AnswerInit
<1>2. StoreInv /\ AnswerInv /\ [Next]_vars => StoreInv' /\ AnswerInv'
  BY NextHolds, NextAnswers
<1>3. StoreInv /\ AnswerInv => AnswersRight
  BY AnswersFollow
<1> QED BY <1>1, <1>2, <1>3, PTL DEF Spec
=============================================================================
