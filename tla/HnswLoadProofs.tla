--------------------------- MODULE HnswLoadProofs ---------------------------
(* Proof that a search during the inserts of a load run reads only rows that *)
(* are there, that the run keeps an answer to every query, and that the      *)
(* inserts give the graph of a build: for any corpus, levels, list sizes,    *)
(* queries and number of clients.                                            *)
EXTENDS HnswLoad, FiniteSetTheorems, WellFoundedInduction, TLAPS

-----------------------------------------------------------------------------
(* The inductive invariant.                                                *)

\* The rows that are in and reach up to layer l.
RowsOn(l) == {v \in Node : v < next /\ lev[v] >= l}

\* Other rows may have an edge to the row that is being inserted.
Arrives(l) ==
    /\ ins.at # "none"
    /\ \/ ins.layer < l
       \/ ins.layer = l /\ ins.at \in {"edges", "backCount"}

\* The rows that a list of layer l may hold.
Rows(l) ==
    {v \in Node : lev[v] >= l /\ (v < next \/ (v = next /\ Arrives(l)))}

\* The first n slots of a list are written.
Written(v, l, n) ==
    n \in 0 .. Cap(l) /\ \A j \in 1 .. n : slots[v][l][j] \in Rows(l)

CorpusInv ==
    /\ sc \in [Node -> [Node -> Int]] /\ lev \in [Node -> Layer]
    /\ next \in 1 .. N
    /\ ept = [ep |-> ept.ep, top |-> ept.top]
    /\ ept.top \in Layer /\ ept.ep \in RowsOn(ept.top)

\* The build links rows that are in.
BuildInv ==
    /\ stage \in {"build", "loop", "tail", "repaired"}
    /\ stage = "build" =>
         /\ ins = None /\ \A w \in Worker : query[w].at = "begin"
         /\ \A v \in Node, l \in Layer :
                grown[v][l] \in Seq(RowsOn(l)) /\ Len(grown[v][l]) <= Cap(l)

\* What was written stays, also behind a count, until a row is written there.
SlotsInv ==
    /\ slots \in [Node -> [Layer -> Seq(Int)]]
    /\ cnt \in [Node -> [Layer -> Nat]]
    /\ \A v \in Node, l \in Layer :
         /\ Len(slots[v][l]) = Cap(l) /\ Written(v, l, cnt[v][l])
         /\ \A j \in 1 .. Cap(l) : slots[v][l][j] \in Rows(l) \cup {-1}

\* The walks and selections of the inserter are among the rows that are in.
InsInv ==
    /\ ins.at \in {"none", "own", "ownCount", "edges", "backCount"}
    /\ ins.at = "none" => ins = None
    /\ ins.at # "none" =>
         /\ next < N /\ stage \in {"loop", "tail"}
         /\ ins.layer \in Layer /\ ins.layer <= lev[next]
         /\ ins.eps \in SUBSET RowsOn(ins.layer)
    /\ ins.at = "own" =>
         ins = [at |-> "own", layer |-> ins.layer, eps |-> ins.eps]
    /\ ins.at \in {"ownCount", "edges", "backCount"} =>
         ins.todo \in Seq(RowsOn(ins.layer))
    /\ ins.at \in {"ownCount", "edges"} =>
         ins = [at |-> ins.at, layer |-> ins.layer, eps |-> ins.eps,
                todo |-> ins.todo]
    /\ ins.at = "ownCount" => Written(next, ins.layer, Len(ins.todo))
    /\ ins.at = "backCount" =>
         /\ ins.todo # << >>
         /\ Written(Head(ins.todo), ins.layer, ins.len)

Idles == [at : {"begin", "done"}, pos : DOMAIN Queries, first : BOOLEAN]

Walks == [at : {"count", "slots"}, pos : DOMAIN Queries, first : BOOLEAN,
          since : Nat, start : Int, layer : Layer, node : Node, len : Nat,
          read : Seq(Node), on : Layer, seen : SUBSET Node,
          cand : Seq(Node), res : Seq(Node)]

Answers == [at : {"answer"}, pos : DOMAIN Queries, first : BOOLEAN,
            since : Nat, start : Int, read : Seq(Node), on : Layer,
            ids : Seq(Node)]

\* A search is at a row that has the layer; what it read are rows that a list
\* may hold, and the slots it is about to copy are written.
QueryOK(x) ==
    /\ x \in Idles \cup Walks \cup Answers
    /\ x \in Walks => lev[x.node] >= x.layer
    /\ x \in Walks /\ x.at = "slots" => Written(x.node, x.layer, x.len)
    /\ x \in Walks \cup Answers => x.read \in Seq(Rows(x.on))

QueriesInv == \A w \in Worker : QueryOK(query[w])

\* Worker 0 is in its first pass, and has kept what it has answered, or has
\* kept everything.
PassInv ==
    /\ query = [w \in Worker |-> query[w]]
    /\ IF query[0].first
       THEN kept = 1 .. query[0].pos - 1 /\ query[0].at # "done"
       ELSE kept = DOMAIN Queries
    /\ \A w \in Worker \ {0} : ~query[w].first
    /\ stage \in {"tail", "repaired"} =>
           \A w \in Worker : query[w].at = "done"

LoadInv == /\ CorpusInv /\ BuildInv /\ SlotsInv /\ InsInv /\ QueriesInv
           /\ PassInv

-----------------------------------------------------------------------------
(* Induction, in the form that needs no operator.                          *)

LEMMA LeastNat ==
    ASSUME NEW T \in SUBSET Nat, T # {}
    PROVE  \E x \in T : \A y \in T : x <= y
<1> DEFINE Less == {ss \in Nat \X Nat : ss[1] < ss[2]}
<1>1. IsWellFoundedOn(Less, Nat)
  BY NatLessThanWellFounded DEF OpToRel
<1>2. PICK x \in T : \A y \in T : ~ (<<y, x>> \in Less)
  <2> HIDE DEF Less
  <2> QED BY <1>1, WFMin
<1>3. ASSUME NEW y \in T, y < x PROVE FALSE
  <2>1. <<y, x>> \in Less
    BY <1>3
  <2> QED BY <1>2, <2>1
<1> QED BY <1>2, <1>3

LEMMA SetInduction ==
    ASSUME NEW S \in SUBSET Nat, 0 \in S, \A k \in S : k + 1 \in S
    PROVE  S = Nat
<1>1. SUFFICES ASSUME Nat \ S # {} PROVE FALSE
  OBVIOUS
<1>2. PICK x \in Nat \ S : \A y \in Nat \ S : x <= y
  BY <1>1, LeastNat
<1>3. x # 0 /\ x - 1 \in Nat
  OBVIOUS
<1>4. x - 1 \in S
  BY <1>2, <1>3
<1> QED BY <1>4, <1>3

\* What holds at first and from step to step holds after n steps.
LEMMA Steps ==
    ASSUME NEW n \in Nat, NEW T \in SUBSET Nat, 0 \in T,
           \A k \in 0 .. n - 1 : k \in T => k + 1 \in T
    PROVE  n \in T
<1> DEFINE S == {k \in Nat : k <= n => k \in T}
<1>1. 0 \in S
  OBVIOUS
<1>2. \A k \in S : k + 1 \in S
  OBVIOUS
<1>3. S = Nat
  <2> HIDE DEF S
  <2>1. S \in SUBSET Nat
    BY DEF S
  <2> QED BY <1>1, <1>2, <2>1, SetInduction
<1> QED BY <1>3

\* The same for values in A.
LEMMA Stays ==
    ASSUME NEW n \in Nat, NEW A, NEW f, f[0] \in A,
           \A k \in 1 .. n : f[k - 1] \in A => f[k] \in A
    PROVE  f[n] \in A
<1> DEFINE T == {k \in Nat : k <= n => f[k] \in A}
<1>1. 0 \in T
  OBVIOUS
<1>2. \A k \in 0 .. n - 1 : k \in T => k + 1 \in T
  <2> TAKE k \in 0 .. n - 1
  <2> HAVE k \in T
  <2>1. k + 1 \in 1 .. n /\ (k + 1) - 1 = k /\ f[k] \in A
    OBVIOUS
  <2> QED BY <2>1
<1>3. n \in T
  <2> HIDE DEF T
  <2>1. T \in SUBSET Nat
    BY DEF T
  <2> QED BY <1>1, <1>2, <2>1, Steps
<1> QED BY <1>3

\* The values of a recursive function of 0 .. n.
Recurs(g, a, F, n) ==
    g = [k \in 0 .. n |-> IF k = 0 THEN a ELSE F[k][g[k - 1]]]

\* A recursive function exists if its step is a function of the value before.
LEMMA Recursion ==
    ASSUME NEW A, NEW a \in A, NEW F \in [Nat -> [A -> A]], NEW n \in Nat
    PROVE  \E g \in [0 .. n -> A] : Recurs(g, a, F, n)
<1> DEFINE Body(g, m) == [k \in 0 .. m |-> IF k = 0 THEN a ELSE F[k][g[k - 1]]]
           There(m) == \E g \in [0 .. m -> A] : g = Body(g, m)
           T == {m \in Nat : There(m)}
<1>1. 0 \in T
  <2>1. [k \in 0 .. 0 |-> a] \in [0 .. 0 -> A]
    OBVIOUS
  <2>2. [k \in 0 .. 0 |-> a] = Body([k \in 0 .. 0 |-> a], 0)
    OBVIOUS
  <2> QED BY <2>1, <2>2
<1>2. ASSUME NEW m \in T PROVE m + 1 \in T
  <2>1. PICK g \in [0 .. m -> A] : g = Body(g, m)
    OBVIOUS
  <2>2. m \in Nat
    OBVIOUS
  <2> DEFINE h == [k \in 0 .. m + 1 |-> IF k <= m THEN g[k] ELSE F[m + 1][g[m]]]
  <2>3. F[m + 1][g[m]] \in A
    BY <2>2
  <2>4. h \in [0 .. m + 1 -> A]
    BY <2>2, <2>3
  <2>5. ASSUME NEW k \in 0 .. m + 1 PROVE h[k] = Body(h, m + 1)[k]
    <3>1. CASE k = 0
      <4>1. g[0] = a
        BY <2>1, <2>2
      <4> QED BY <3>1, <4>1, <2>2
    <3>2. CASE k # 0 /\ k <= m
      <4>1. g[k] = F[k][g[k - 1]]
        BY <2>1, <2>2, <3>2
      <4>2. k - 1 \in 0 .. m + 1 /\ k - 1 <= m
        BY <3>2, <2>2
      <4>3. h[k - 1] = g[k - 1] /\ h[k] = g[k]
        BY <4>2, <3>2, <2>2
      <4> HIDE DEF h
      <4> QED BY <3>2, <4>1, <4>3
    <3>3. CASE k = m + 1
      <4>1. m \in 0 .. m + 1 /\ k - 1 = m /\ ~(k <= m) /\ k # 0
        BY <3>3, <2>2
      <4>2. h[k - 1] = g[m] /\ h[k] = F[m + 1][g[m]]
        BY <4>1, <2>2
      <4> HIDE DEF h
      <4> QED BY <3>3, <4>1, <4>2
    <3> QED BY <3>1, <3>2, <3>3, <2>2
  <2>6. h = Body(h, m + 1)
    <3> HIDE DEF h
    <3> QED BY <2>4, <2>5
  <2>7. There(m + 1)
    <3> HIDE DEF h
    <3> QED BY <2>4, <2>6
  <2> HIDE DEF There
  <2> QED BY <2>7, <2>2
<1>3. T = Nat
  <2> HIDE DEF T
  <2>1. T \in SUBSET Nat
    BY DEF T
  <2> QED BY <1>1, <1>2, <2>1, SetInduction
<1> HIDE DEF There
<1>4. There(n)
  BY <1>3
<1> QED BY <1>4 DEF There, Recurs

-----------------------------------------------------------------------------
(* Rows and scores.                                                        *)

LEMMA Sizes ==
    /\ N \in Nat \ {0} /\ MaxLevel \in Nat /\ Node = 0 .. N - 1
    /\ Layer = 0 .. MaxLevel /\ 0 \in Layer
    /\ M \in Nat /\ M >= 2 /\ M0 = 2 * M
    /\ \A l \in Layer : Cap(l) \in Nat /\ Cap(l) >= M
BY GraphAssumption DEF Node, Layer, Cap

\* Of the rows in a set one has the best score.
LEMMA OneIsBest ==
    ASSUME NEW n \in Nat, NEW S \in SUBSET (0 .. n - 1), S # {},
           NEW w, \A x \in S : w[x] \in Int
    PROVE  \E a \in S : \A b \in S \ {a} : w[a] > w[b] \/ (w[a] = w[b] /\ a < b)
<1> DEFINE Wins(a, b) == w[a] > w[b] \/ (w[a] = w[b] /\ a < b)
           Top(k) == (\E x \in S : x < k) =>
                        \E a \in S : a < k /\ \A b \in S \ {a} : b < k => Wins(a, b)
           T == {k \in Nat : Top(k)}
<1>1. S \subseteq Nat /\ \A x \in S : x < n
  OBVIOUS
<1>2. \A x \in S : w[x] \in Int
  OBVIOUS
<1>3. 0 \in T
  BY <1>1
<1>4. ASSUME NEW k \in T PROVE k + 1 \in T
  <2>1. k \in Nat /\ Top(k)
    OBVIOUS
  <2>2. CASE k \notin S
    <3>1. \A x \in S : x < k + 1 <=> x < k
      BY <2>1, <2>2, <1>1
    <3> QED BY <2>1, <3>1
  <2>3. CASE k \in S /\ ~ \E x \in S : x < k
    <3>1. \A x \in S : x < k + 1 => x = k
      BY <2>1, <2>3, <1>1
    <3>2. Top(k + 1)
      <4> QED BY <2>1, <2>3, <3>1
    <3> HIDE DEF Top
    <3> QED BY <2>1, <3>2
  <2>4. CASE k \in S /\ \E x \in S : x < k
    <3>1. PICK a \in S : a < k /\ \A b \in S \ {a} : b < k => Wins(a, b)
      BY <2>1, <2>4
    <3>2. CASE w[k] > w[a]
      <4>1. ASSUME NEW b \in S \ {k}, b < k + 1 PROVE Wins(k, b)
        <5>1. b < k
          BY <4>1, <2>1, <1>1
        <5>2. b = a \/ Wins(a, b)
          BY <5>1, <3>1
        <5>3. w[k] \in Int /\ w[a] \in Int /\ w[b] \in Int
          BY <1>2, <2>4
        <5> QED BY <5>2, <5>3, <3>2
      <4>2. Top(k + 1)
        <5>1. k < k + 1
          BY <2>1
        <5> HIDE DEF Wins
        <5> QED BY <4>1, <5>1, <2>4
      <4> HIDE DEF Top
      <4> QED BY <2>1, <4>2
    <3>3. CASE ~(w[k] > w[a])
      <4>1. ASSUME NEW b \in S \ {a}, b < k + 1 PROVE Wins(a, b)
        <5>1. b < k \/ b = k
          BY <4>1, <2>1, <1>1
        <5>2. CASE b < k
          BY <5>2, <3>1
        <5>3. CASE b = k
          <6>1. w[k] \in Int /\ w[a] \in Int
            BY <1>2, <2>4
          <6> QED BY <5>3, <6>1, <3>1, <3>3
        <5> QED BY <5>1, <5>2, <5>3
      <4>2. Top(k + 1)
        <5>1. a < k + 1
          BY <2>1, <3>1, <1>1
        <5> HIDE DEF Wins
        <5> QED BY <4>1, <5>1
      <4> HIDE DEF Top
      <4> QED BY <2>1, <4>2
    <3> QED BY <3>2, <3>3
  <2> QED BY <2>2, <2>3, <2>4
<1>5. T = Nat
  <2> HIDE DEF T
  <2>1. T \in SUBSET Nat
    BY DEF T
  <2> QED BY <1>3, <1>4, <2>1, SetInduction
<1>6. Top(n)
  <2> HIDE DEF Top
  <2> QED BY <1>5, <1>1
<1>7. \E a \in S : \A b \in S \ {a} : Wins(a, b)
  <2> HIDE DEF Wins
  <2> QED BY <1>6, <1>1
<1> QED BY <1>7

LEMMA BestIn ==
    ASSUME NEW q \in [Node -> Int], NEW S \in SUBSET Node, S # {}
    PROVE  Best(q, S) \in S
<1>1. N \in Nat /\ S \in SUBSET (0 .. N - 1) /\ \A x \in S : q[x] \in Int
  BY Sizes
<1>2. \E a \in S : \A b \in S \ {a} : q[a] > q[b] \/ (q[a] = q[b] /\ a < b)
  BY <1>1, OneIsBest
<1> QED BY <1>2 DEF Best, Better

LEMMA FirstBestIn ==
    ASSUME NEW q \in [Node -> Int], NEW S \in SUBSET Node,
           NEW list \in Seq(S), list # << >>
    PROVE  FirstBest(q, list) \in S
<1> DEFINE I == 1 .. Len(list)
           w == [x \in I |-> q[list[x]]]
<1>1. Len(list) \in Nat /\ I \in SUBSET (0 .. (Len(list) + 1) - 1) /\ I # {}
  OBVIOUS
<1>2. DOMAIN list = I /\ \A x \in I : list[x] \in S /\ w[x] \in Int
  OBVIOUS
<1>3. Len(list) + 1 \in Nat
  BY <1>1
<1>4. \E a \in I : \A b \in I \ {a} : w[a] > w[b] \/ (w[a] = w[b] /\ a < b)
  <2> HIDE DEF w, I
  <2> QED BY <1>1, <1>2, <1>3, OneIsBest
<1>5. PICK a \in I : \A b \in I \ {a} : w[a] > w[b] \/ (w[a] = w[b] /\ a < b)
  BY <1>4
<1>6. \A b \in I : q[list[a]] > q[list[b]] \/ (q[list[a]] = q[list[b]] /\ a <= b)
  <2> TAKE b \in I
  <2>1. CASE a = b
    BY <2>1
  <2>2. CASE a # b
    BY <1>5, <2>2
  <2> QED BY <2>1, <2>2
<1> DEFINE c == CHOOSE i \in DOMAIN list : \A j \in DOMAIN list :
                    q[list[i]] > q[list[j]] \/ (q[list[i]] = q[list[j]] /\ i <= j)
<1>7. c \in DOMAIN list
  BY <1>2, <1>6
<1>8. FirstBest(q, list) = list[c]
  BY DEF FirstBest
<1> HIDE DEF c
<1> QED BY <1>2, <1>7, <1>8

-----------------------------------------------------------------------------
(* Walks stay among rows that are closed under their lists.                *)

Heaps(S) == [seen : SUBSET S, cand : SUBSET S, res : SUBSET S]

LEMMA EnterIn ==
    ASSUME NEW S, NEW q, NEW admit, NEW ef, NEW w \in Heaps(S), NEW x \in S
    PROVE  Enter(q, admit, ef, w, x) \in Heaps(S)
<1> DEFINE full == Cardinality(w.res) >= ef
           res == IF x \notin admit THEN w.res
                  ELSE (IF full THEN w.res \ {Worst(q, w.res)} ELSE w.res)
                           \cup {x}
<1>1. w.cand \in SUBSET S /\ w.res \in SUBSET S
  BY DEF Heaps
<1>2. res \in SUBSET S
  BY <1>1
<1>3. [w EXCEPT !.cand = @ \cup {x}, !.res = res] \in Heaps(S)
  <2> HIDE DEF res
  <2> QED BY <1>2 DEF Heaps
<1>4. \/ Enter(q, admit, ef, w, x) = w
      \/ Enter(q, admit, ef, w, x) = [w EXCEPT !.cand = @ \cup {x}, !.res = res]
  BY DEF Enter
<1> HIDE DEF res
<1> QED BY <1>3, <1>4

LEMMA EnteredIn ==
    ASSUME NEW S, NEW q, NEW admit, NEW ef, NEW w \in Heaps(S),
           NEW list \in Seq(S)
    PROVE  Entered(q, admit, ef, w, list) \in Heaps(S)
<1> DEFINE A == Heaps(S)
           n == Len(list)
           Op(j, x) == IF list[j] \in w.seen THEN x
                       ELSE Enter(q, admit, ef, x, list[j])
           Body(g) == [j \in 0 .. n |-> IF j = 0 THEN w ELSE Op(j, g[j - 1])]
           f == CHOOSE g : g = Body(g)
           F == [j \in Nat |-> [x \in A |-> IF j \in 1 .. n THEN Op(j, x) ELSE x]]
<1>1. n \in Nat /\ \A j \in 1 .. n : list[j] \in S
  OBVIOUS
<1>2. \A j \in 1 .. n : \A x \in A : Op(j, x) \in A
  BY <1>1, EnterIn
<1>3. F \in [Nat -> [A -> A]]
  <2> HIDE DEF Op, A
  <2> QED BY <1>2
<1>4. PICK g \in [0 .. n -> A] : Recurs(g, w, F, n)
  <2> HIDE DEF F, A, n
  <2>1. w \in A
    BY DEF A
  <2> QED BY <1>1, <1>3, <2>1, Recursion
<1>5. \A j \in 0 .. n : j # 0 => F[j][g[j - 1]] = Op(j, g[j - 1])
  <2> TAKE j \in 0 .. n
  <2> HAVE j # 0
  <2>1. j \in Nat /\ j - 1 \in 0 .. n /\ j \in 1 .. n
    BY <1>1
  <2>2. g[j - 1] \in A
    BY <2>1, <1>4
  <2> HIDE DEF Op, A, n
  <2> QED BY <2>1, <2>2
<1>6. g = Body(g)
  <2> HIDE DEF F, Op, A, n
  <2> QED BY <1>4, <1>5 DEF Recurs
<1>7. f = Body(f)
  <2> HIDE DEF Body
  <2> QED BY <1>6
<1>8. f[0] = w
  <2> HIDE DEF f
  <2> QED BY <1>1, <1>7
<1>9. \A j \in 1 .. n : f[j] = Op(j, f[j - 1])
  <2> HIDE DEF f, Op, n
  <2> QED BY <1>1, <1>7
<1>10. f[n] \in A
  <2>1. w \in A
    BY DEF A
  <2> HIDE DEF f, Op, A, n
  <2>2. \A j \in 1 .. n : f[j - 1] \in A => f[j] \in A
    BY <1>2, <1>9
  <2> QED BY <1>1, <1>8, <2>1, <2>2, Stays
<1>11. ToSet(list) \in SUBSET S
  BY DEF ToSet
<1>12. Entered(q, admit, ef, w, list) = [f[n] EXCEPT !.seen = @ \cup ToSet(list)]
  BY DEF Entered
<1> HIDE DEF f, n
<1> QED BY <1>10, <1>11, <1>12 DEF Heaps

LEMMA StepIn ==
    ASSUME NEW S \in SUBSET Node, NEW q \in [Node -> Int], NEW admit, NEW ef,
           NEW nbr, \A c \in S : nbr[c] \in Seq(S), NEW w \in Heaps(S)
    PROVE  Step(nbr, q, admit, ef, w) \in Heaps(S)
<1> DEFINE c == Best(q, w.cand)
           open == [w EXCEPT !.cand = @ \ {c}]
<1>1. w.cand \in SUBSET S
  BY DEF Heaps
<1>2. CASE w.cand = {}
  BY <1>2 DEF Step
<1>3. CASE w.cand # {}
  <2>1. c \in S
    BY <1>1, <1>3, BestIn
  <2>2. open \in Heaps(S)
    <3> HIDE DEF c
    <3> QED BY DEF Heaps
  <2>3. Entered(q, admit, ef, open, nbr[c]) \in Heaps(S)
    <3> HIDE DEF c, open
    <3> QED BY <2>1, <2>2, EnteredIn
  <2>4. \/ Step(nbr, q, admit, ef, w) = w
        \/ Step(nbr, q, admit, ef, w) = Entered(q, admit, ef, open, nbr[c])
    BY DEF Step
  <2> QED BY <2>3, <2>4
<1> QED BY <1>2, <1>3

LEMMA SearchLayerIn ==
    ASSUME NEW S \in SUBSET Node, NEW q \in [Node -> Int], NEW admit, NEW ef,
           NEW nbr, \A c \in S : nbr[c] \in Seq(S), NEW eps \in SUBSET S
    PROVE  SearchLayer(nbr, q, admit, eps, ef) \in SUBSET S
<1> DEFINE A == Heaps(S)
           w == [seen |-> eps, cand |-> eps, res |-> TopOf(q, eps \cap admit, ef)]
           Op(x) == Step(nbr, q, admit, ef, x)
           Body(g) == [j \in 0 .. N |-> IF j = 0 THEN w ELSE Op(g[j - 1])]
           f == CHOOSE g : g = Body(g)
           F == [j \in Nat |-> [x \in A |-> Op(x)]]
<1>1. N \in Nat
  BY Sizes
<1>2. w \in A
  BY DEF Heaps, TopOf
<1>3. \A x \in A : Op(x) \in A
  BY StepIn
<1>4. F \in [Nat -> [A -> A]]
  <2> HIDE DEF Op, A
  <2> QED BY <1>3
<1>5. PICK g \in [0 .. N -> A] : Recurs(g, w, F, N)
  <2> HIDE DEF F, A, w
  <2> QED BY <1>1, <1>2, <1>4, Recursion
<1>6. \A j \in 0 .. N : j # 0 => F[j][g[j - 1]] = Op(g[j - 1])
  <2> TAKE j \in 0 .. N
  <2> HAVE j # 0
  <2>1. j \in Nat /\ j - 1 \in 0 .. N
    BY <1>1
  <2> HIDE DEF Op, A
  <2> QED BY <2>1, <1>5
<1>7. g = Body(g)
  <2> HIDE DEF F, Op, A, w
  <2> QED BY <1>5, <1>6 DEF Recurs
<1>8. f = Body(f)
  <2> HIDE DEF Body
  <2> QED BY <1>7
<1>9. f[0] = w /\ \A j \in 1 .. N : f[j] = Op(f[j - 1])
  <2> HIDE DEF f, Op, w
  <2> QED BY <1>1, <1>8
<1>10. f[N] \in A
  <2> HIDE DEF f, Op, A, w
  <2>1. \A j \in 1 .. N : f[j - 1] \in A => f[j] \in A
    BY <1>3, <1>9
  <2> QED BY <1>1, <1>2, <1>9, <2>1, Stays
<1>11. SearchLayer(nbr, q, admit, eps, ef) = f[N].res
  BY DEF SearchLayer
<1> HIDE DEF f
<1> QED BY <1>10, <1>11 DEF Heaps

LEMMA GreedyIn ==
    ASSUME NEW S \in SUBSET Node, NEW q \in [Node -> Int],
           NEW nbr, \A c \in S : nbr[c] \in Seq(S), NEW ep \in S
    PROVE  Greedy(nbr, q, ep) \in S
<1> DEFINE Op(v) == IF nbr[v] # << >> /\ q[FirstBest(q, nbr[v])] > q[v]
                    THEN FirstBest(q, nbr[v]) ELSE v
           Body(g) == [j \in 0 .. N |-> IF j = 0 THEN ep ELSE Op(g[j - 1])]
           f == CHOOSE g : g = Body(g)
           F == [j \in Nat |-> [x \in S |-> Op(x)]]
<1>1. N \in Nat
  BY Sizes
<1>2. \A x \in S : Op(x) \in S
  BY FirstBestIn
<1>3. F \in [Nat -> [S -> S]]
  <2> HIDE DEF Op
  <2> QED BY <1>2
<1>4. PICK g \in [0 .. N -> S] : Recurs(g, ep, F, N)
  <2> HIDE DEF F
  <2> QED BY <1>1, <1>3, Recursion
<1>5. \A j \in 0 .. N : j # 0 => F[j][g[j - 1]] = Op(g[j - 1])
  <2> TAKE j \in 0 .. N
  <2> HAVE j # 0
  <2>1. j \in Nat /\ j - 1 \in 0 .. N
    BY <1>1
  <2> HIDE DEF Op
  <2> QED BY <2>1, <1>4
<1>6. g = Body(g)
  <2> HIDE DEF F, Op
  <2> QED BY <1>4, <1>5 DEF Recurs
<1>7. f = Body(f)
  <2> HIDE DEF Body
  <2> QED BY <1>6
<1>8. f[0] = ep /\ \A j \in 1 .. N : f[j] = Op(f[j - 1])
  <2> HIDE DEF f, Op
  <2> QED BY <1>1, <1>7
<1>9. f[N] \in S
  <2> HIDE DEF f, Op
  <2>1. \A j \in 1 .. N : f[j - 1] \in S => f[j] \in S
    BY <1>2, <1>8
  <2> QED BY <1>1, <1>8, <2>1, Stays
<1>10. Greedy(nbr, q, ep) = f[N]
  BY DEF Greedy
<1> QED BY <1>9, <1>10

-----------------------------------------------------------------------------
(* Selections, and the lists after an insertion.                           *)

Distinct(s) == \A i, j \in 1 .. Len(s) : s[i] = s[j] => i = j

Takes(S, limit) ==
    {s \in [left : SUBSET S, out : Seq(S)] :
        /\ Len(s.out) <= limit /\ Distinct(s.out)
        /\ \A j \in 1 .. Len(s.out) : s.out[j] \notin s.left}

LEMMA SelectedIn ==
    ASSUME NEW S \in SUBSET Node, NEW t, NEW q \in [Node -> Int],
           NEW limit \in Nat, NEW keep, NEW s \in Takes(S, limit)
    PROVE  Selected(t, q, limit, keep, s) \in Takes(S, limit)
<1> DEFINE first == s.left \cap keep
           c == IF first # {} THEN Best(q, first) ELSE Best(q, s.left)
           out == IF /\ Len(s.out) < limit
                     /\ \/ c \in keep
                        \/ \A j \in DOMAIN s.out : t[c][s.out[j]] < q[c]
                  THEN Append(s.out, c) ELSE s.out
<1>1. /\ s.left \in SUBSET S /\ s.out \in Seq(S) /\ Len(s.out) <= limit
      /\ Distinct(s.out) /\ \A j \in 1 .. Len(s.out) : s.out[j] \notin s.left
  BY DEF Takes
<1>2. CASE s.left = {}
  BY <1>2 DEF Selected
<1>3. CASE s.left # {}
  <2>1. c \in s.left
    <3>1. CASE first # {}
      <4>1. first \in SUBSET Node
        BY <1>1
      <4>2. Best(q, first) \in first
        <5> HIDE DEF first
        <5> QED BY <3>1, <4>1, BestIn
      <4> QED BY <3>1, <4>2
    <3>2. CASE first = {}
      <4>1. s.left \in SUBSET Node
        BY <1>1
      <4> QED BY <1>3, <3>2, <4>1, BestIn
    <3> QED BY <3>1, <3>2
  <2>2. /\ out \in Seq(S) /\ Len(out) <= limit /\ Distinct(out)
        /\ \A j \in 1 .. Len(out) : out[j] \notin s.left \ {c}
    <3> DEFINE o == s.out
               new == Append(o, c)
    <3>1. CASE out = o
      <4> HIDE DEF out, c
      <4> QED BY <1>1, <3>1
    <3>2. CASE out = new /\ Len(o) < limit
      <4> HIDE DEF out, c
      <4>1. Len(o) \in Nat /\ c \in S
        BY <1>1, <2>1
      <4>2. /\ new \in Seq(S) /\ Len(new) = Len(o) + 1 /\ new[Len(o) + 1] = c
            /\ \A j \in 1 .. Len(o) : new[j] = o[j]
        BY <1>1, <4>1
      <4>3. \A j \in 1 .. Len(o) : o[j] # c
        BY <1>1, <2>1
      <4> HIDE DEF new, o
      <4>4. Distinct(new)
        <5> SUFFICES ASSUME NEW i \in 1 .. Len(new), NEW j \in 1 .. Len(new),
                            new[i] = new[j]
                     PROVE  i = j
          BY DEF Distinct
        <5>1. CASE i \in 1 .. Len(o) /\ j \in 1 .. Len(o)
          <6>1. o[i] = o[j]
            BY <4>2, <5>1
          <6> QED BY <1>1, <5>1, <6>1 DEF Distinct, o
        <5>2. CASE i = Len(o) + 1 \/ j = Len(o) + 1
          BY <4>1, <4>2, <4>3, <5>2
        <5> QED BY <4>1, <4>2, <5>1, <5>2
      <4>5. \A j \in 1 .. Len(new) : new[j] \notin s.left \ {c}
        <5> TAKE j \in 1 .. Len(new)
        <5>1. CASE j \in 1 .. Len(o)
          BY <1>1, <4>2, <5>1 DEF o
        <5>2. CASE j = Len(o) + 1
          BY <4>2, <5>2
        <5> QED BY <4>1, <4>2, <5>1, <5>2
      <4>6. Len(new) <= limit
        BY <3>2, <4>1, <4>2
      <4> QED BY <3>2, <4>2, <4>4, <4>5, <4>6
    <3> HIDE DEF c
    <3> QED BY <3>1, <3>2
  <2>3. Selected(t, q, limit, keep, s) = [left |-> s.left \ {c}, out |-> out]
    BY <1>3 DEF Selected
  <2> HIDE DEF c, out
  <2> QED BY <1>1, <2>2, <2>3 DEF Takes
<1> QED BY <1>2, <1>3

\* A selection is a list of the given rows, each once, within the limit.
LEMMA SelectIn ==
    ASSUME NEW S \in SUBSET Node, NEW t, NEW q \in [Node -> Int],
           NEW limit \in Nat, NEW keep
    PROVE  /\ Select(t, q, S, limit, keep) \in Seq(S)
           /\ Len(Select(t, q, S, limit, keep)) <= limit
           /\ Distinct(Select(t, q, S, limit, keep))
<1> DEFINE A == Takes(S, limit)
           n == Cardinality(S)
           s == [left |-> S, out |-> << >>]
           Op(x) == Selected(t, q, limit, keep, x)
           Body(g) == [k \in 0 .. n |-> IF k = 0 THEN s ELSE Op(g[k - 1])]
           f == CHOOSE g : g = Body(g)
           F == [k \in Nat |-> [x \in A |-> Op(x)]]
<1>1. n \in Nat
  <2>1. IsFiniteSet(Node)
    BY Sizes, FS_Interval
  <2> QED BY <2>1, FS_Subset, FS_CardinalityType
<1>2. s \in A
  BY DEF Takes, Distinct
<1>3. \A x \in A : Op(x) \in A
  BY SelectedIn
<1>4. F \in [Nat -> [A -> A]]
  <2> HIDE DEF Op, A
  <2> QED BY <1>3
<1>5. PICK g \in [0 .. n -> A] : Recurs(g, s, F, n)
  <2> HIDE DEF F, A, s, n
  <2> QED BY <1>1, <1>2, <1>4, Recursion
<1>6. \A k \in 0 .. n : k # 0 => F[k][g[k - 1]] = Op(g[k - 1])
  <2> TAKE k \in 0 .. n
  <2> HAVE k # 0
  <2>1. k \in Nat /\ k - 1 \in 0 .. n
    <3> HIDE DEF n
    <3> QED BY <1>1
  <2> HIDE DEF Op, A, n
  <2> QED BY <2>1, <1>5
<1>7. g = Body(g)
  <2> HIDE DEF F, Op, A, s, n
  <2> QED BY <1>5, <1>6 DEF Recurs
<1>8. f = Body(f)
  <2> HIDE DEF Body
  <2> QED BY <1>7
<1>9. f[0] = s /\ \A k \in 1 .. n : f[k] = Op(f[k - 1])
  <2> HIDE DEF f, Op, s, n
  <2> QED BY <1>1, <1>8
<1>10. f[n] \in A
  <2> HIDE DEF f, Op, A, s, n
  <2>1. \A k \in 1 .. n : f[k - 1] \in A => f[k] \in A
    BY <1>3, <1>9
  <2> QED BY <1>1, <1>2, <1>9, <2>1, Stays
<1>11. Select(t, q, S, limit, keep) = f[n].out
  BY DEF Select
<1> HIDE DEF f
<1> QED BY <1>10, <1>11 DEF Takes

LEMMA SeqIn ==
    ASSUME NEW S, NEW T, S \subseteq T, NEW s \in Seq(S)
    PROVE  s \in Seq(T)
OBVIOUS

LEMMA BackEdgeIn ==
    ASSUME NEW S \in SUBSET Node, NEW t, NEW v, t[v] \in [Node -> Int],
           NEW l \in Layer, NEW list \in Seq(S), Len(list) <= Cap(l),
           NEW x \in S
    PROVE  /\ WithBackEdge(t, list, v, x, l) \in Seq(S)
           /\ Len(WithBackEdge(t, list, v, x, l)) <= Cap(l)
<1> DEFINE all == ToSet(list) \cup {x}
           pruned == Select(t, t[v], all, Cap(l), {})
<1>1. Cap(l) \in Nat /\ Len(list) \in Nat
  BY Sizes
<1>2. all \in SUBSET S /\ all \in SUBSET Node
  BY DEF ToSet
<1>3. pruned \in Seq(all) /\ Len(pruned) <= Cap(l)
  <2> HIDE DEF all
  <2> QED BY <1>1, <1>2, SelectIn
<1>4. pruned \in Seq(S)
  <2> HIDE DEF all, pruned
  <2> QED BY <1>2, <1>3, SeqIn
<1>5. Append(list, x) \in Seq(S) /\ Len(Append(list, x)) = Len(list) + 1
  OBVIOUS
<1>6. WithBackEdge(t, list, v, x, l) =
        IF Len(list) < Cap(l) THEN Append(list, x) ELSE pruned
  BY DEF WithBackEdge
<1> HIDE DEF pruned
<1> QED BY <1>1, <1>3, <1>4, <1>5, <1>6

\* Lists of layer l hold rows of T[l].
Holds(links, T) ==
    \A v \in Node, l \in Layer : links[v][l] \in Seq(T[l])

\* What is on a layer is on those below.
Levels == {T \in [Layer -> SUBSET Node] :
              \A l, k \in Layer : l <= k => T[k] \subseteq T[l]}

LEMMA LayerOf ==
    ASSUME NEW links, NEW T \in Levels, Holds(links, T), NEW l \in Layer
    PROVE  /\ T[l] \in SUBSET Node
           /\ \A c \in T[l] : [v \in Node |-> links[v][l]][c] \in Seq(T[l])
           /\ \A c \in Node : [v \in Node |-> links[v][l]][c] \in Seq(Node)
<1>1. T[l] \in SUBSET Node
  BY DEF Levels
<1>2. \A c \in Node : links[c][l] \in Seq(T[l])
  BY DEF Holds
<1>3. \A c \in Node : links[c][l] \in Seq(Node)
  BY <1>1, <1>2, SeqIn
<1> QED BY <1>1, <1>2, <1>3

\* The descent comes to a row of the layer it ends on.
LEMMA DescendIn ==
    ASSUME NEW links, NEW T \in Levels, Holds(links, T),
           NEW q \in [Node -> Int], NEW from \in Layer, NEW to \in Layer,
           to <= from, NEW ep \in T[from]
    PROVE  Descend(links, q, ep, from, to) \in T[to]
<1> DEFINE n == MaxOf(from - to, 0)
           Op(k, x) == Greedy([v \in Node |-> links[v][from - k + 1]], q, x)
           Body(g) == [k \in 0 .. n |-> IF k = 0 THEN ep ELSE Op(k, g[k - 1])]
           f == CHOOSE g : g = Body(g)
           F == [k \in Nat |-> [x \in Node |-> IF k \in 1 .. n THEN Op(k, x) ELSE x]]
<1>1. n = from - to /\ n \in Nat /\ \A k \in 1 .. n : from - k + 1 \in Layer
  BY Sizes DEF MaxOf
<1>2. \A k \in 1 .. n : \A x \in Node : Op(k, x) \in Node
  <2> TAKE k \in 1 .. n
  <2> TAKE x \in Node
  <2> DEFINE nbr == [v \in Node |-> links[v][from - k + 1]]
  <2>1. \A c \in Node : nbr[c] \in Seq(Node)
    BY <1>1, LayerOf
  <2> HIDE DEF nbr
  <2>2. Greedy(nbr, q, x) \in Node
    BY <2>1, GreedyIn
  <2> QED BY <2>2 DEF nbr
<1>3. F \in [Nat -> [Node -> Node]]
  <2> HIDE DEF Op, n
  <2> QED BY <1>2
<1>4. ep \in Node
  BY DEF Levels
<1>5. PICK g \in [0 .. n -> Node] : Recurs(g, ep, F, n)
  <2> HIDE DEF F, n
  <2> QED BY <1>1, <1>3, <1>4, Recursion
<1>6. \A k \in 0 .. n : k # 0 => F[k][g[k - 1]] = Op(k, g[k - 1])
  <2> TAKE k \in 0 .. n
  <2> HAVE k # 0
  <2> HIDE DEF n
  <2>1. k \in Nat /\ k - 1 \in 0 .. n /\ k \in 1 .. n
    BY <1>1
  <2> HIDE DEF Op
  <2> QED BY <2>1, <1>5
<1>7. g = Body(g)
  <2> HIDE DEF F, Op, n
  <2> QED BY <1>5, <1>6 DEF Recurs
<1>8. f = Body(f)
  <2> HIDE DEF Body
  <2> QED BY <1>7
<1>9. f[0] = ep /\ \A k \in 1 .. n : f[k] = Op(k, f[k - 1])
  <2> HIDE DEF f, Op, n
  <2> QED BY <1>1, <1>8
<1> DEFINE P == {k \in Nat : k <= n => f[k] \in T[from - k]}
<1>10. 0 \in P
  <2>1. from - 0 = from
    BY Sizes
  <2> HIDE DEF f
  <2> QED BY <1>9, <2>1
<1>11. \A k \in 0 .. n - 1 : k \in P => k + 1 \in P
  <2> TAKE k \in 0 .. n - 1
  <2> HAVE k \in P
  <2> HIDE DEF n, f
  <2> DEFINE l == from - k
             nbr == [v \in Node |-> links[v][l]]
  <2>1. k \in Nat /\ k + 1 \in 1 .. n /\ (k + 1) - 1 = k /\ k <= n
    BY <1>1
  <2>2. l \in Layer /\ l - 1 \in Layer /\ l = from - (k + 1) + 1
        /\ l - 1 = from - (k + 1) /\ l - 1 <= l
    BY <1>1, <2>1, Sizes
  <2>3. f[k] \in T[l]
    BY <2>1
  <2>4. f[k + 1] = Greedy(nbr, q, f[k])
    <3>1. f[k + 1] = Op(k + 1, f[k])
      <4> HIDE DEF Op
      <4> QED BY <1>9, <2>1
    <3> QED BY <2>2, <3>1
  <2>5. T[l] \in SUBSET Node /\ \A c \in T[l] : nbr[c] \in Seq(T[l])
    <3> HIDE DEF l
    <3> QED BY <2>2, LayerOf
  <2>6. f[k + 1] \in T[l]
    <3> DEFINE S == T[l]
               v == f[k]
    <3>1. S \in SUBSET Node /\ v \in S /\ \A c \in S : nbr[c] \in Seq(S)
      BY <2>3, <2>5
    <3> HIDE DEF nbr, l, S, v
    <3>2. Greedy(nbr, q, v) \in S
      BY <3>1, GreedyIn
    <3> QED BY <2>4, <3>2 DEF S, v
  <2>7. T[l] \subseteq T[l - 1]
    <3> HIDE DEF l
    <3> QED BY <2>2 DEF Levels
  <2>8. f[k + 1] \in T[from - (k + 1)]
    BY <2>2, <2>6, <2>7
  <2> QED BY <2>1, <2>8
<1>12. n \in P
  <2> HIDE DEF P, n
  <2>1. P \in SUBSET Nat
    BY DEF P
  <2> QED BY <1>1, <1>10, <1>11, <2>1, Steps
<1>13. from - n = to /\ n <= n
  BY <1>1, Sizes
<1>14. Descend(links, q, ep, from, to) = f[n]
  BY DEF Descend
<1> HIDE DEF f, n
<1> QED BY <1>1, <1>12, <1>13, <1>14

\* What the walks of an insertion find, layer by layer from lmax down.
FoundOf(t, links, x, lvl, ep, top) ==
    LET n == MinOf(lvl, top)
        start == {Descend(links, t[x], ep, top, n)}
        Found[k \in 0 .. n + 1] ==
            IF k = 0 THEN start
            ELSE SearchLayer([v \in Node |-> links[v][n - k + 1]], t[x], Node,
                             Found[k - 1], EfC)
    IN  Found

\* f is what the insertion of row x finds among lists that hold rows of T.
Links(f, T, t, links, x, lvl, ep, top, n) ==
    /\ t \in [Node -> [Node -> Int]] /\ T \in Levels /\ Holds(links, T)
    /\ x \in Node /\ lvl \in Layer /\ top \in Layer /\ ep \in T[top]
    /\ n = MinOf(lvl, top) /\ f = FoundOf(t, links, x, lvl, ep, top)

Descends(f, t, links, x, n, ep, top) ==
    /\ f[0] = {Descend(links, t[x], ep, top, n)}
    /\ \A k \in 1 .. n + 1 :
          f[k] = SearchLayer([v \in Node |-> links[v][n - k + 1]], t[x], Node,
                             f[k - 1], EfC)

LEMMA FoundIs ==
    ASSUME NEW f, NEW T, NEW t, NEW links, NEW x, NEW lvl, NEW ep, NEW top, NEW n,
           Links(f, T, t, links, x, lvl, ep, top, n)
    PROVE  /\ n \in Layer /\ n <= lvl /\ n <= top
           /\ f[0] \in SUBSET T[n] /\ Descends(f, t, links, x, n, ep, top)
<1> DEFINE q == t[x]
           start == {Descend(links, q, ep, top, n)}
           Op(k, s) == SearchLayer([v \in Node |-> links[v][n - k + 1]], q,
                                   Node, s, EfC)
           Body(g) == [k \in 0 .. n + 1 |-> IF k = 0 THEN start ELSE Op(k, g[k - 1])]
           h == CHOOSE g : g = Body(g)
           A == SUBSET Node
           F == [k \in Nat |-> [s \in A |-> IF k \in 1 .. n + 1 THEN Op(k, s) ELSE s]]
<1>0. /\ t \in [Node -> [Node -> Int]] /\ T \in Levels /\ Holds(links, T)
      /\ x \in Node /\ lvl \in Layer /\ top \in Layer /\ ep \in T[top]
      /\ n = MinOf(lvl, top) /\ f = FoundOf(t, links, x, lvl, ep, top)
  BY DEF Links
<1>1. /\ n \in Layer /\ n <= lvl /\ n <= top /\ n + 1 \in Nat
      /\ \A k \in 1 .. n + 1 : n - k + 1 \in Layer
  <2>1. n \in Layer /\ n <= lvl /\ n <= top
    BY <1>0, Sizes DEF MinOf
  <2> HIDE DEF q, start, Op, h, F, A
  <2>2. n \in Nat /\ n <= MaxLevel /\ MaxLevel \in Nat /\ Layer = 0 .. MaxLevel
    BY <2>1, Sizes
  <2>3. \A k \in 1 .. n + 1 : n - k + 1 \in Layer
    BY <2>2
  <2> QED BY <2>1, <2>2, <2>3
<1>2. q \in [Node -> Int]
  BY <1>0
<1>3. start \in SUBSET T[n]
  <2> HIDE DEF q
  <2> QED BY <1>0, <1>1, <1>2, DescendIn
<1>4. T[n] \in SUBSET Node
  BY <1>0, <1>1 DEF Levels
<1>5. \A k \in 1 .. n + 1 : \A s \in A : Op(k, s) \in A
  <2> TAKE k \in 1 .. n + 1
  <2> TAKE s \in A
  <2> DEFINE nbr == [v \in Node |-> links[v][n - k + 1]]
  <2>1. \A c \in Node : nbr[c] \in Seq(Node)
    BY <1>0, <1>1, LayerOf
  <2> HIDE DEF nbr, q
  <2>2. SearchLayer(nbr, q, Node, s, EfC) \in SUBSET Node
    BY <1>2, <2>1, SearchLayerIn
  <2> QED BY <2>2 DEF nbr
<1>6. F \in [Nat -> [A -> A]]
  <2> HIDE DEF Op, A
  <2> QED BY <1>5
<1>7. PICK g \in [0 .. n + 1 -> A] : Recurs(g, start, F, n + 1)
  <2>1. start \in A
    <3> HIDE DEF start
    <3> QED BY <1>3, <1>4
  <2> HIDE DEF F, A, start
  <2> QED BY <1>1, <1>6, <2>1, Recursion
<1>8. \A k \in 0 .. n + 1 : k # 0 => F[k][g[k - 1]] = Op(k, g[k - 1])
  <2> TAKE k \in 0 .. n + 1
  <2> HAVE k # 0
  <2>1. k \in Nat /\ k - 1 \in 0 .. n + 1 /\ k \in 1 .. n + 1
    BY <1>1
  <2> HIDE DEF Op, A
  <2> QED BY <2>1, <1>7
<1>9. g = Body(g)
  <2> HIDE DEF F, Op, A, start
  <2> QED BY <1>7, <1>8 DEF Recurs
<1>10. h = Body(h)
  <2> HIDE DEF Body
  <2> QED BY <1>9
<1>11. h[0] = start /\ \A k \in 1 .. n + 1 : h[k] = Op(k, h[k - 1])
  <2> HIDE DEF h, Op, start
  <2> QED BY <1>1, <1>10
<1>12. f = h
  BY <1>0 DEF FoundOf
<1>13. Descends(h, t, links, x, n, ep, top)
  <2> HIDE DEF h
  <2> QED BY <1>11 DEF Descends
<1> HIDE DEF h
<1> QED BY <1>1, <1>3, <1>11, <1>12, <1>13

\* What is found on a layer is on that layer.
LEMMA FoundIn ==
    ASSUME NEW f, NEW T, NEW t, NEW links, NEW x, NEW lvl, NEW ep, NEW top, NEW n,
           Links(f, T, t, links, x, lvl, ep, top, n), NEW l \in 0 .. n
    PROVE  l \in Layer /\ f[n - l + 1] \in SUBSET T[l]
<1>0. /\ t \in [Node -> [Node -> Int]] /\ T \in Levels /\ Holds(links, T)
      /\ x \in Node
  BY DEF Links
<1>1. /\ n \in Layer /\ n <= lvl /\ n <= top /\ f[0] \in SUBSET T[n]
      /\ Descends(f, t, links, x, n, ep, top)
  BY FoundIs
<1>2. /\ n \in Nat /\ MaxLevel \in Nat /\ n <= MaxLevel
      /\ \A j : j \in Layer <=> j \in 0 .. MaxLevel
  BY <1>1, Sizes
<1> DEFINE P == {k \in Nat : k <= n + 1 =>
                    \A j \in Layer : j <= n /\ j <= n - k + 1 => f[k] \subseteq T[j]}
<1>3. 0 \in P
  <2>1. \A j \in Layer : j <= n => f[0] \subseteq T[j]
    BY <1>0, <1>1 DEF Levels
  <2> QED BY <2>1
<1>4. \A k \in 0 .. (n + 1) - 1 : k \in P => k + 1 \in P
  <2> TAKE k \in 0 .. (n + 1) - 1
  <2> HAVE k \in P
  <2> DEFINE q == t[x]
             h == n - k
             nbr == [v \in Node |-> links[v][h]]
  <2>1. k \in Nat /\ k + 1 \in 1 .. n + 1 /\ (k + 1) - 1 = k /\ k <= n + 1
    BY <1>2
  <2>2. h \in Layer /\ h = n - (k + 1) + 1 /\ h <= n /\ h <= n - k + 1
    <3>1. h \in 0 .. MaxLevel /\ h = n - (k + 1) + 1 /\ h <= n /\ h <= n - k + 1
      BY <1>2, <2>1
    <3> HIDE DEF h
    <3> QED BY <1>2, <3>1
  <2>3. f[k] \subseteq T[h]
    BY <2>1, <2>2
  <2>4. f[k + 1] = SearchLayer(nbr, q, Node, f[k], EfC)
    <3>1. f[k + 1] = SearchLayer([v \in Node |-> links[v][n - (k + 1) + 1]], t[x],
                                  Node, f[(k + 1) - 1], EfC)
      BY <1>1, <2>1 DEF Descends
    <3> QED BY <2>1, <2>2, <3>1
  <2>5. T[h] \in SUBSET Node /\ \A c \in T[h] : nbr[c] \in Seq(T[h])
    <3> HIDE DEF h
    <3> QED BY <1>0, <2>2, LayerOf
  <2>6. f[k + 1] \subseteq T[h]
    <3> DEFINE S == T[h]
               s == f[k]
    <3>1. /\ S \in SUBSET Node /\ s \in SUBSET S /\ \A c \in S : nbr[c] \in Seq(S)
          /\ q \in [Node -> Int]
      BY <1>0, <2>3, <2>5
    <3> HIDE DEF nbr, h, S, s, q
    <3>2. SearchLayer(nbr, q, Node, s, EfC) \in SUBSET S
      BY <3>1, SearchLayerIn
    <3> QED BY <2>4, <3>2 DEF S, s
  <2>7. \A j \in Layer : j <= n - (k + 1) + 1 => T[h] \subseteq T[j]
    <3> HIDE DEF h
    <3> QED BY <1>0, <2>2 DEF Levels
  <2>8. \A j \in Layer : j <= n /\ j <= n - (k + 1) + 1 => f[k + 1] \subseteq T[j]
    <3> HIDE DEF h
    <3> QED BY <2>6, <2>7
  <2> QED BY <2>1, <2>8
<1>5. \A k \in 0 .. n + 1 : k \in P
  <2> TAKE k \in 0 .. n + 1
  <2> HIDE DEF P
  <2>1. P \in SUBSET Nat /\ k \in Nat
    BY <1>2 DEF P
  <2>2. \A j \in 0 .. k - 1 : j \in P => j + 1 \in P
    BY <1>2, <1>4
  <2> QED BY <1>3, <2>1, <2>2, Steps
<1>6. n - l + 1 \in 0 .. n + 1 /\ l <= n - (n - l + 1) + 1 /\ l \in Layer /\ l <= n
  BY <1>2
<1> QED BY <1>5, <1>6

\* The list of v on layer l after the insertion of row x.
LinkedAt(t, links, x, n, f, v, l) ==
    LET best == Select(t, t[x], f[n - l + 1], M, {})
    IN  IF l > n THEN links[v][l]
        ELSE IF v = x THEN best
        ELSE IF Contains(best, v) THEN WithBackEdge(t, links[v][l], v, x, l)
        ELSE links[v][l]

LEMMA LinkedIs ==
    ASSUME NEW t, NEW links, NEW x, NEW lvl \in Layer, NEW top \in Layer, NEW ep,
           NEW n, n = MinOf(lvl, top),
           NEW f, f = FoundOf(t, links, x, lvl, ep, top),
           NEW v \in Node, NEW l \in Layer
    PROVE  Linked(t, links, x, lvl, ep, top)[v][l]
             = LinkedAt(t, links, x, n, f, v, l)
<1> DEFINE chosen == [j \in 0 .. n |-> Select(t, t[x], f[n - j + 1], M, {})]
           new == Linked(t, links, x, lvl, ep, top)
<1>1. new = [u \in Node |-> [j \in Layer |->
                IF j > n THEN links[u][j]
                ELSE IF u = x THEN chosen[j]
                ELSE IF Contains(chosen[j], u)
                     THEN WithBackEdge(t, links[u][j], u, x, j)
                ELSE links[u][j]]]
  BY DEF Linked, FoundOf
<1> HIDE DEF new
<1>2. CASE l > n
  <2> HIDE DEF chosen
  <2> QED BY <1>1, <1>2 DEF new, LinkedAt
<1>3. CASE ~(l > n)
  <2>1. l \in 0 .. n
    BY <1>3, Sizes DEF MinOf
  <2>2. chosen[l] = Select(t, t[x], f[n - l + 1], M, {})
    BY <2>1
  <2> HIDE DEF chosen
  <2> QED BY <1>1, <1>3, <2>2 DEF new, LinkedAt
<1> QED BY <1>2, <1>3

\* Other lists may hold row x then.
LEMMA LinkedIn ==
    ASSUME NEW t \in [Node -> [Node -> Int]], NEW links, NEW T \in Levels,
           Holds(links, T),
           \A v \in Node, l \in Layer : Len(links[v][l]) <= Cap(l),
           NEW x \in Node, NEW lvl \in Layer, NEW top \in Layer,
           NEW ep \in T[top]
    PROVE  LET new == Linked(t, links, x, lvl, ep, top)
           IN  \A v \in Node, l \in Layer :
                  /\ Len(new[v][l]) <= Cap(l)
                  /\ new[v][l] \in Seq(IF l <= lvl THEN T[l] \cup {x} ELSE T[l])
<1> DEFINE new == Linked(t, links, x, lvl, ep, top)
<1> SUFFICES ASSUME NEW v \in Node, NEW l \in Layer
             PROVE  /\ Len(new[v][l]) <= Cap(l)
                    /\ new[v][l] \in Seq(IF l <= lvl THEN T[l] \cup {x} ELSE T[l])
  OBVIOUS
<1>1. PICK n, f : n = MinOf(lvl, top) /\ f = FoundOf(t, links, x, lvl, ep, top)
  OBVIOUS
<1>2. n \in Layer /\ n <= lvl /\ n <= top
  BY <1>1, Sizes DEF MinOf
<1> DEFINE S == T[l] \cup {x}
           old == links[v][l]
           best == Select(t, t[x], f[n - l + 1], M, {})
<1>3. new[v][l] = IF l > n THEN old ELSE IF v = x THEN best
                  ELSE IF Contains(best, v) THEN WithBackEdge(t, old, v, x, l)
                  ELSE old
  BY <1>1, LinkedIs DEF LinkedAt
<1>4. /\ old \in Seq(T[l]) /\ Len(old) <= Cap(l) /\ T[l] \in SUBSET Node
      /\ S \in SUBSET Node /\ x \in S /\ T[l] \subseteq S
  BY DEF Holds, Levels
<1>5. old \in Seq(S)
  <2> HIDE DEF S, old
  <2> QED BY <1>4, SeqIn
<1> HIDE DEF new
<1>6. CASE l > n
  <2>1. new[v][l] = old
    <3> HIDE DEF best
    <3> QED BY <1>3, <1>6
  <2> HIDE DEF old
  <2> QED BY <1>4, <1>5, <2>1
<1>7. CASE ~(l > n)
  <2>1. l \in 0 .. n /\ l <= lvl
    BY <1>2, <1>7, Sizes
  <2>2. /\ Len(WithBackEdge(t, old, v, x, l)) <= Cap(l)
        /\ WithBackEdge(t, old, v, x, l) \in Seq(S)
    <3>1. t[v] \in [Node -> Int]
      OBVIOUS
    <3> HIDE DEF S, old
    <3> QED BY <1>4, <1>5, <3>1, BackEdgeIn
  <2>3. best \in Seq(S) /\ Len(best) <= Cap(l)
    <3> DEFINE s == f[n - l + 1]
               q == t[x]
    <3>1. s \in SUBSET T[l]
      <4>1. Links(f, T, t, links, x, lvl, ep, top, n)
        BY <1>1 DEF Links
      <4> QED BY <2>1, <4>1, FoundIn
    <3>2. s \in SUBSET Node /\ q \in [Node -> Int] /\ M \in Nat /\ Cap(l) \in Nat
          /\ Cap(l) >= M
      BY <1>4, <3>1, Sizes
    <3> HIDE DEF s, q
    <3> DEFINE c == Select(t, q, s, M, {})
    <3>3. c \in Seq(s) /\ Len(c) <= M
      BY <3>2, SelectIn
    <3>4. best = c
      BY DEF s, q
    <3> HIDE DEF c, best
    <3>5. s \subseteq S
      BY <1>4, <3>1
    <3>6. c \in Seq(S)
      <4> HIDE DEF S
      <4> QED BY <3>3, <3>5, SeqIn
    <3>7. Len(c) \in Nat
      BY <3>3
    <3> QED BY <3>2, <3>3, <3>4, <3>6, <3>7
  <2>4. \/ new[v][l] = old \/ new[v][l] = best
        \/ new[v][l] = WithBackEdge(t, old, v, x, l)
    <3> HIDE DEF best
    <3> QED BY <1>3, <1>7
  <2> HIDE DEF old, best, S
  <2>5. Len(new[v][l]) <= Cap(l) /\ new[v][l] \in Seq(S)
    BY <1>4, <1>5, <2>2, <2>3, <2>4
  <2> QED BY <2>1, <2>5 DEF S
<1> QED BY <1>6, <1>7

-----------------------------------------------------------------------------
(* What a step keeps.                                                      *)

\* What was written stays written, to rows that a list may hold.
Keeps ==
    /\ lev' = lev /\ \A l \in Layer : Rows(l) \subseteq Rows(l)'
    /\ \A v \in Node, l \in Layer : \A j \in 1 .. Cap(l) :
           slots[v][l][j] \in Rows(l) => slots'[v][l][j] \in Rows(l)'

LEMMA RowsGrow ==
    ASSUME CorpusInv, lev' = lev,
           \/ next' = next /\ \A l \in Layer : Arrives(l) => Arrives(l)'
           \/ next' = next + 1
    PROVE  \A l \in Layer : Rows(l) \subseteq Rows(l)'
<1> TAKE l \in Layer
<1>1. next \in Nat
  BY Sizes DEF CorpusInv
<1>2. ASSUME NEW v \in Rows(l) PROVE v \in Rows(l)'
  <2>1. v \in Node /\ lev[v] >= l /\ (v < next \/ (v = next /\ Arrives(l)))
    BY <1>2 DEF Rows
  <2>2. v < next' \/ (v = next' /\ Arrives(l)')
    <3>1. v \in Nat
      BY <2>1, Sizes
    <3>2. CASE next' = next /\ \A k \in Layer : Arrives(k) => Arrives(k)'
      BY <2>1, <3>2
    <3>3. CASE next' = next + 1
      BY <1>1, <2>1, <3>1, <3>3
    <3> QED BY <3>2, <3>3
  <2> QED BY <2>1, <2>2 DEF Rows
<1> QED BY <1>2

LEMMA WrittenStays ==
    ASSUME Keeps, NEW v \in Node, NEW l \in Layer, NEW n, Written(v, l, n)
    PROVE  Written(v, l, n)'
<1>1. n \in 0 .. Cap(l) /\ \A j \in 1 .. n : slots[v][l][j] \in Rows(l)
  BY DEF Written
<1>2. \A j \in 1 .. n : j \in 1 .. Cap(l)
  BY <1>1, Sizes
<1>3. \A j \in 1 .. n : slots'[v][l][j] \in Rows(l)'
  BY <1>1, <1>2 DEF Keeps
<1> QED BY <1>1, <1>3 DEF Written

LEMMA QueryStays ==
    ASSUME Keeps, NEW x, QueryOK(x)
    PROVE  QueryOK(x)'
<1>1. x \in Idles \cup Walks \cup Answers
  BY DEF QueryOK
<1>2. x \in Walks => lev'[x.node] >= x.layer
  BY DEF QueryOK, Keeps
<1>3. ASSUME x \in Walks, x.at = "slots" PROVE Written(x.node, x.layer, x.len)'
  <2> DEFINE v == x.node
             l == x.layer
             n == x.len
  <2>1. v \in Node /\ l \in Layer
    BY <1>3 DEF Walks
  <2>2. Written(v, l, n)
    BY <1>3 DEF QueryOK
  <2> HIDE DEF v, l, n
  <2>3. Written(v, l, n)'
    BY <2>1, <2>2, WrittenStays
  <2> QED BY <2>3 DEF v, l, n
<1>4. ASSUME x \in Walks \cup Answers PROVE x.read \in Seq(Rows(x.on)')
  <2> DEFINE l == x.on
  <2>1. l \in Layer
    BY <1>4 DEF Walks, Answers
  <2>2. x.read \in Seq(Rows(l))
    BY <1>4 DEF QueryOK
  <2>3. Rows(l) \subseteq Rows(l)'
    BY <2>1 DEF Keeps
  <2> HIDE DEF l
  <2>4. x.read \in Seq(Rows(l)')
    BY <2>2, <2>3, SeqIn
  <2> QED BY <2>4 DEF l
<1> QED BY <1>1, <1>2, <1>3, <1>4 DEF QueryOK

LEMMA QueriesStay ==
    ASSUME Keeps, query' = query, QueriesInv
    PROVE  QueriesInv'
<1> SUFFICES ASSUME NEW w \in Worker PROVE QueryOK(query[w])'
  BY DEF QueriesInv
<1> DEFINE x == query[w]
<1>1. QueryOK(x) /\ query'[w] = x
  BY DEF QueriesInv
<1>2. PICK y : y = x
  OBVIOUS
<1>3. QueryOK(y)
  BY <1>1, <1>2
<1>4. QueryOK(y)'
  BY <1>3, QueryStays
<1> QED BY <1>1, <1>2, <1>4

\* A step that writes no slot and counts nothing.
LEMMA SlotsStay ==
    ASSUME SlotsInv, Keeps, slots' = slots, cnt' = cnt
    PROVE  SlotsInv'
<1>1. slots' \in [Node -> [Layer -> Seq(Int)]] /\ cnt' \in [Node -> [Layer -> Nat]]
  BY DEF SlotsInv
<1>2. ASSUME NEW v \in Node, NEW l \in Layer
      PROVE  /\ Len(slots'[v][l]) = Cap(l) /\ Written(v, l, cnt[v][l])'
             /\ \A j \in 1 .. Cap(l) : slots'[v][l][j] \in Rows(l)' \cup {-1}
  <2>1. Len(slots'[v][l]) = Cap(l)
    BY DEF SlotsInv
  <2>2. PICK n : n = cnt[v][l]
    OBVIOUS
  <2>3. Written(v, l, n)
    BY <2>2 DEF SlotsInv
  <2>4. Written(v, l, n)'
    BY <2>3, WrittenStays
  <2>5. ASSUME NEW j \in 1 .. Cap(l) PROVE slots'[v][l][j] \in Rows(l)' \cup {-1}
    <3>1. slots[v][l][j] \in Rows(l) \cup {-1} /\ Rows(l) \subseteq Rows(l)'
      BY DEF SlotsInv, Keeps
    <3> QED BY <3>1
  <2> QED BY <2>1, <2>2, <2>4, <2>5
<1> QED BY <1>1, <1>2 DEF SlotsInv

LEMMA CorpusStays ==
    ASSUME CorpusInv, corpus' = corpus, ept' = ept, next' = next
    PROVE  CorpusInv'
<1>1. sc' = sc /\ lev' = lev
  BY DEF corpus
<1>2. \A l \in Layer : RowsOn(l)' = RowsOn(l)
  BY <1>1 DEF RowsOn
<1> QED BY <1>1, <1>2 DEF CorpusInv

\* A row that is in may be the new entry point.
LEMMA CorpusGrows ==
    ASSUME CorpusInv, corpus' = corpus, next < N, next' = next + 1, ept' = NewEpt
    PROVE  CorpusInv'
<1>1. sc' = sc /\ lev' = lev
  BY DEF corpus
<1>2. next \in Node /\ next' \in 1 .. N /\ next \in Nat
  BY Sizes DEF CorpusInv
<1>3. lev[next] \in Layer
  BY <1>2 DEF CorpusInv
<1>4. \A l \in Layer : RowsOn(l) \subseteq RowsOn(l)'
  <2> TAKE l \in Layer
  <2>1. \A v \in Node : v < next => v < next'
    BY <1>2, Sizes
  <2> QED BY <1>1, <2>1 DEF RowsOn
<1>5. PICK x, l : x = next /\ l = lev[next]
  OBVIOUS
<1>6. x \in RowsOn(l)'
  <2>1. x \in Node /\ x < next' /\ lev'[x] >= l
    BY <1>1, <1>2, <1>3, <1>5, Sizes
  <2> QED BY <2>1 DEF RowsOn
<1>7. (/\ ept = [ep |-> ept.ep, top |-> ept.top]
       /\ ept.top \in Layer /\ ept.ep \in RowsOn(ept.top))'
  <2>1. CASE lev[next] > ept.top
    <3>1. ept' = [ep |-> x, top |-> l] /\ l \in Layer
      BY <1>3, <1>5, <2>1 DEF NewEpt
    <3> QED BY <1>6, <3>1
  <2>2. CASE ~(lev[next] > ept.top)
    <3>1. ept' = ept
      BY <2>2 DEF NewEpt
    <3> QED BY <1>4, <3>1 DEF CorpusInv
  <2> QED BY <2>1, <2>2
<1> QED BY <1>1, <1>2, <1>7 DEF CorpusInv

LEMMA NotInserting ==
    ASSUME ins' = None
    PROVE  InsInv'
BY DEF InsInv, None

-----------------------------------------------------------------------------
(* Slots and lists.                                                        *)

LEMMA LevelsAre ==
    ASSUME CorpusInv
    PROVE  [l \in Layer |-> RowsOn(l)] \in Levels
<1>1. \A v \in Node : lev[v] \in Nat
  BY Sizes DEF CorpusInv
<1>2. \A l, k \in Layer : l <= k => RowsOn(k) \subseteq RowsOn(l)
  BY <1>1, Sizes DEF RowsOn
<1>3. \A l \in Layer : RowsOn(l) \in SUBSET Node
  BY DEF RowsOn
<1> QED BY <1>2, <1>3 DEF Levels

\* Before the row that is inserted has its list on a layer, lists hold rows
\* that are in.
LEMMA RowsAreOn ==
    ASSUME NEW l \in Layer, ~Arrives(l)
    PROVE  Rows(l) = RowsOn(l)
BY DEF Rows, RowsOn

LEMMA OnAreRows ==
    ASSUME NEW l \in Layer
    PROVE  RowsOn(l) \subseteq Rows(l) /\ Rows(l) \in SUBSET Node
BY DEF Rows, RowsOn

LEMMA SliceIn ==
    ASSUME SlotsInv, NEW v \in Node, NEW l \in Layer, NEW n, Written(v, l, n)
    PROVE  /\ SubSeq(slots[v][l], 1, n) \in Seq(Rows(l))
           /\ Len(SubSeq(slots[v][l], 1, n)) = n
<1> DEFINE s == slots[v][l]
           R == Rows(l)
<1>1. s \in Seq(Int) /\ Len(s) = Cap(l)
  BY DEF SlotsInv
<1>2. n \in 0 .. Len(s) /\ \A j \in 1 .. n : s[j] \in R
  BY <1>1 DEF Written
<1>3. SubSeq(s, 1, n) \in Seq(R) /\ Len(SubSeq(s, 1, n)) = n
  <2> HIDE DEF s, R
  <2>1. n \in Nat /\ Len(s) \in Nat
    BY <1>1, <1>2
  <2>2. SubSeq(s, 1, n) \in Seq(Int)
    BY <1>1, <1>2, <2>1
  <2>3. Len(SubSeq(s, 1, n)) = n
    BY <1>1, <1>2, <2>1
  <2>4. \A j \in 1 .. n : SubSeq(s, 1, n)[j] = s[j]
    BY <1>1, <1>2, <2>1
  <2> QED BY <1>2, <2>2, <2>3, <2>4
<1> QED BY <1>3

LEMMA NeighborsIn ==
    ASSUME SlotsInv, NEW v \in Node, NEW l \in Layer
    PROVE  /\ Neighbors(v, l) \in Seq(Rows(l))
           /\ Len(Neighbors(v, l)) <= Cap(l)
<1>1. PICK n : n = cnt[v][l]
  OBVIOUS
<1>2. Written(v, l, n)
  BY <1>1 DEF SlotsInv
<1>3. n \in Nat /\ n <= Cap(l)
  BY <1>2, Sizes DEF Written
<1> QED BY <1>1, <1>2, <1>3, SliceIn DEF Neighbors

\* With no row half in, the arrays hold a graph of the rows that are in.
LEMMA ListsHold ==
    ASSUME SlotsInv, ins = None
    PROVE  Holds(Lists, [l \in Layer |-> RowsOn(l)])
<1> SUFFICES ASSUME NEW v \in Node, NEW l \in Layer
             PROVE  Lists[v][l] \in Seq([k \in Layer |-> RowsOn(k)][l])
  BY DEF Holds
<1>1. ~Arrives(l)
  BY DEF Arrives, None
<1>2. Rows(l) = RowsOn(l)
  BY <1>1, RowsAreOn
<1>3. Neighbors(v, l) \in Seq(RowsOn(l))
  BY <1>2, NeighborsIn
<1> QED BY <1>3 DEF Lists

\* A list of rows is written into the slots.
LEMMA OverwriteIn ==
    ASSUME SlotsInv, NEW v \in Node, NEW l \in Layer, NEW ids \in Seq(Rows(l)),
           Len(ids) <= Cap(l), Overwrite(v, l, ids), cnt' = cnt, lev' = lev,
           \A k \in Layer : Rows(k) \subseteq Rows(k)'
    PROVE  Keeps /\ SlotsInv' /\ Written(v, l, Len(ids))'
<1> DEFINE new == [j \in 1 .. Cap(l) |->
                      IF j <= Len(ids) THEN ids[j] ELSE slots[v][l][j]]
<1>1. /\ slots \in [Node -> [Layer -> Seq(Int)]]
      /\ \A u \in Node, k \in Layer : Len(slots[u][k]) = Cap(k)
  BY DEF SlotsInv
<1>2. DOMAIN slots[v][l] = 1 .. Cap(l) /\ Cap(l) \in Nat
  <2>1. slots[v][l] \in Seq(Int) /\ Len(slots[v][l]) = Cap(l)
    BY <1>1
  <2>2. Cap(l) \in Nat
    BY Sizes
  <2> QED BY <2>1, <2>2
<1>3. slots' = [slots EXCEPT ![v] = [slots[v] EXCEPT ![l] = new]]
  BY <1>2 DEF Overwrite
<1>4. \A j \in 1 .. Len(ids) : ids[j] \in Rows(l)
  OBVIOUS
<1>5. Rows(l) \subseteq Int
  BY Sizes DEF Rows
<1>6. \A j \in 1 .. Cap(l) : new[j] \in Int
  <2> TAKE j \in 1 .. Cap(l)
  <2>1. CASE j <= Len(ids)
    BY <1>4, <1>5, <2>1, <1>2
  <2>2. CASE ~(j <= Len(ids))
    BY <1>1, <1>2, <2>2
  <2> QED BY <2>1, <2>2
<1>7. new \in Seq(Int) /\ Len(new) = Cap(l)
  BY <1>2, <1>6
<1>8. /\ slots' \in [Node -> [Layer -> Seq(Int)]]
      /\ slots'[v][l] = new
      /\ \A u \in Node, k \in Layer : u # v \/ k # l => slots'[u][k] = slots[u][k]
  <2> HIDE DEF new
  <2> QED BY <1>1, <1>3, <1>7
<1>9. \A j \in 1 .. Cap(l) : new[j] = slots[v][l][j] \/ new[j] \in Rows(l)
  <2> TAKE j \in 1 .. Cap(l)
  <2> QED BY <1>4, <1>2
<1>10. \A u \in Node, k \in Layer : \A j \in 1 .. Cap(k) :
          slots'[u][k][j] = slots[u][k][j] \/ slots'[u][k][j] \in Rows(k)'
  <2> TAKE u \in Node, k \in Layer
  <2> TAKE j \in 1 .. Cap(k)
  <2> HIDE DEF new
  <2>1. CASE u = v /\ k = l
    BY <1>8, <1>9, <2>1
  <2>2. CASE u # v \/ k # l
    BY <1>8, <2>2
  <2> QED BY <2>1, <2>2
<1>11. Keeps
  <2>1. \A u \in Node, k \in Layer : \A j \in 1 .. Cap(k) :
           slots[u][k][j] \in Rows(k) => slots'[u][k][j] \in Rows(k)'
    BY <1>10
  <2> QED BY <2>1 DEF Keeps
<1>12. ASSUME NEW u \in Node, NEW k \in Layer
       PROVE  /\ Len(slots'[u][k]) = Cap(k) /\ Written(u, k, cnt[u][k])'
              /\ \A j \in 1 .. Cap(k) : slots'[u][k][j] \in Rows(k)' \cup {-1}
  <2>1. Len(slots'[u][k]) = Cap(k)
    <3> HIDE DEF new
    <3>1. CASE u = v /\ k = l
      BY <3>1, <1>7, <1>8
    <3>2. CASE u # v \/ k # l
      BY <3>2, <1>1, <1>8
    <3> QED BY <3>1, <3>2
  <2>2. PICK n : n = cnt[u][k]
    OBVIOUS
  <2>3. Written(u, k, n)
    BY <2>2 DEF SlotsInv
  <2>4. Written(u, k, n)'
    BY <2>3, <1>11, WrittenStays
  <2>5. \A j \in 1 .. Cap(k) : slots'[u][k][j] \in Rows(k)' \cup {-1}
    <3> TAKE j \in 1 .. Cap(k)
    <3>1. slots[u][k][j] \in Rows(k) \cup {-1}
      BY DEF SlotsInv
    <3> QED BY <3>1, <1>10
  <2> QED BY <2>1, <2>2, <2>4, <2>5
<1>13. SlotsInv'
  <2>1. cnt' \in [Node -> [Layer -> Nat]]
    BY DEF SlotsInv
  <2> QED BY <1>8, <1>12, <2>1 DEF SlotsInv
<1>14. Written(v, l, Len(ids))'
  <2>1. Len(ids) \in 0 .. Cap(l)
    BY <1>2
  <2>2. \A j \in 1 .. Len(ids) : slots'[v][l][j] \in Rows(l)'
    <3> TAKE j \in 1 .. Len(ids)
    <3>1. j \in 1 .. Cap(l) /\ j <= Len(ids) /\ ids[j] \in Rows(l)
      BY <1>2, <1>4
    <3>2. new[j] = ids[j]
      BY <3>1
    <3> HIDE DEF new
    <3> QED BY <1>8, <3>1, <3>2
  <2> QED BY <2>1, <2>2 DEF Written
<1> QED BY <1>11, <1>13, <1>14

\* A count that covers what is written.
LEMMA CountIn ==
    ASSUME SlotsInv, Keeps, slots' = slots, NEW v \in Node, NEW l \in Layer,
           NEW n, Written(v, l, n), Count(v, l, n)
    PROVE  SlotsInv'
<1>1. n \in Nat
  BY Sizes DEF Written
<1>2. /\ cnt' \in [Node -> [Layer -> Nat]] /\ cnt'[v][l] = n
      /\ \A u \in Node, k \in Layer : u # v \/ k # l => cnt'[u][k] = cnt[u][k]
  <2>1. cnt \in [Node -> [Layer -> Nat]]
    BY DEF SlotsInv
  <2> QED BY <1>1, <2>1 DEF Count
<1>3. ASSUME NEW u \in Node, NEW k \in Layer
      PROVE  /\ Len(slots'[u][k]) = Cap(k) /\ Written(u, k, cnt[u][k])'
             /\ \A j \in 1 .. Cap(k) : slots'[u][k][j] \in Rows(k)' \cup {-1}
  <2>1. Len(slots'[u][k]) = Cap(k)
    BY DEF SlotsInv
  <2>2. PICK m : m = cnt'[u][k]
    OBVIOUS
  <2>3. Written(u, k, m)
    <3>1. CASE u = v /\ k = l
      BY <3>1, <2>2, <1>2
    <3>2. CASE u # v \/ k # l
      BY <3>2, <2>2, <1>2 DEF SlotsInv
    <3> QED BY <3>1, <3>2
  <2>4. Written(u, k, m)'
    BY <2>3, WrittenStays
  <2>5. \A j \in 1 .. Cap(k) : slots'[u][k][j] \in Rows(k)' \cup {-1}
    <3> TAKE j \in 1 .. Cap(k)
    <3>1. slots[u][k][j] \in Rows(k) \cup {-1} /\ Rows(k) \subseteq Rows(k)'
      BY DEF SlotsInv, Keeps
    <3> QED BY <3>1
  <2> QED BY <2>1, <2>2, <2>4, <2>5
<1>4. slots' \in [Node -> [Layer -> Seq(Int)]]
  BY DEF SlotsInv
<1> QED BY <1>2, <1>3, <1>4 DEF SlotsInv

-----------------------------------------------------------------------------
(* A search.                                                               *)

\* A search that is not yet at a row.
Opens == [at : {"count", "slots"}, pos : DOMAIN Queries, first : BOOLEAN,
          since : Nat, start : Int, layer : Layer, node : Int, len : Nat,
          read : Seq(Node), on : Layer, seen : SUBSET Node,
          cand : Seq(Node), res : Seq(Node)]

\* What becomes of it on the same query.
Same(x, y) == y.pos = x.pos /\ y.first = x.first /\ y.at \in {"count", "answer"}

LEMMA SortedIn ==
    ASSUME NEW q, NEW s \in Seq(Node), NEW e \in Node
    PROVE  Sorted(q, s, e) \in Seq(Node)
<1> DEFINE ahead == {j \in DOMAIN s :
                        q[s[j]] > q[e] \/ (q[s[j]] = q[e] /\ s[j] <= e)}
           n == Cardinality(ahead)
<1>1. IsFiniteSet(1 .. Len(s)) /\ Cardinality(1 .. Len(s)) = Len(s)
  <2>1. 1 - 1 = 0 /\ Len(s) \in Nat
    OBVIOUS
  <2> QED BY <2>1, FS_Interval
<1>2. ahead \in SUBSET (1 .. Len(s))
  OBVIOUS
<1>3. n \in Nat /\ n <= Len(s)
  <2> HIDE DEF ahead
  <2>1. IsFiniteSet(ahead) /\ Cardinality(ahead) <= Cardinality(1 .. Len(s))
    BY <1>1, <1>2, FS_Subset
  <2> QED BY <1>1, <2>1, FS_CardinalityType
<1>4. Sorted(q, s, e) = InsertAt(s, n + 1, e)
  BY DEF Sorted
<1>5. InsertAt(s, n + 1, e) \in Seq(Node)
  <2> HIDE DEF n
  <2>1. SubSeq(s, 1, (n + 1) - 1) \in Seq(Node)
    BY <1>3
  <2>2. SubSeq(s, n + 1, Len(s)) \in Seq(Node)
    BY <1>3
  <2>3. <<e>> \in Seq(Node)
    OBVIOUS
  <2>4. InsertAt(s, n + 1, e) =
          SubSeq(s, 1, (n + 1) - 1) \o <<e>> \o SubSeq(s, n + 1, Len(s))
    BY DEF InsertAt
  <2> DEFINE a == SubSeq(s, 1, (n + 1) - 1)
             b == SubSeq(s, n + 1, Len(s))
  <2> HIDE DEF a, b
  <2>5. a \o <<e>> \o b \in Seq(Node)
    BY <2>1, <2>2, <2>3 DEF a, b
  <2> QED BY <2>4, <2>5 DEF a, b
<1> HIDE DEF n
<1> QED BY <1>4, <1>5

LEMMA ScoreIn ==
    ASSUME NEW q, NEW x \in Opens, NEW e \in Node
    PROVE  /\ Score(q, x, e) \in Opens
           /\ Score(q, x, e).layer = x.layer /\ Score(q, x, e).read = x.read
           /\ Score(q, x, e).on = x.on /\ Score(q, x, e).pos = x.pos
           /\ Score(q, x, e).first = x.first
<1> DEFINE full == Len(x.res) >= Ef
           cand == Sorted(q, x.cand, e)
           rest == IF full THEN Front(x.res) ELSE x.res
           res == Sorted(q, rest, e)
           y == [x EXCEPT !.cand = cand, !.res = res]
<1>1. x.cand \in Seq(Node) /\ x.res \in Seq(Node)
  BY DEF Opens
<1>2. rest \in Seq(Node)
  <2>1. CASE full
    <3>1. Len(x.res) \in Nat /\ Len(x.res) >= 1
      BY <1>1, <2>1, LoadAssumption
    <3>2. Front(x.res) \in Seq(Node)
      BY <1>1, <3>1 DEF Front
    <3> QED BY <2>1, <3>2
  <2>2. CASE ~full
    BY <1>1, <2>2
  <2> QED BY <2>1, <2>2
<1>3. cand \in Seq(Node) /\ res \in Seq(Node)
  <2> HIDE DEF rest
  <2> QED BY <1>1, <1>2, SortedIn
<1>4. y \in Opens /\ y.layer = x.layer /\ y.read = x.read /\ y.on = x.on
      /\ y.pos = x.pos /\ y.first = x.first
  <2> HIDE DEF cand, res
  <2> QED BY <1>3 DEF Opens
<1>5. Score(q, x, e) = x \/ Score(q, x, e) = y
  BY DEF Score
<1> HIDE DEF y
<1> QED BY <1>4, <1>5

LEMMA AnswerIn ==
    ASSUME NEW x \in Opens, x.read \in Seq(Rows(x.on))
    PROVE  QueryOK(Answer(x)) /\ Same(x, Answer(x))
<1> DEFINE n == MinOf(K, Len(x.res))
           ids == SubSeq(x.res, 1, n)
           y == [at |-> "answer", pos |-> x.pos, first |-> x.first,
                 since |-> x.since, start |-> x.start, read |-> x.read,
                 on |-> x.on, ids |-> ids]
<1>1. x.res \in Seq(Node) /\ Len(x.res) \in Nat
  BY DEF Opens
<1>2. n \in 0 .. Len(x.res)
  BY <1>1, LoadAssumption DEF MinOf
<1>3. ids \in Seq(Node)
  <2> HIDE DEF n
  <2> QED BY <1>1, <1>2
<1>4. y \in Answers
  <2> HIDE DEF ids
  <2> QED BY <1>3 DEF Opens, Answers
<1>5. y \notin Walks
  BY DEF Walks
<1>6. QueryOK(y) /\ Same(x, y)
  <2>1. y.read = x.read /\ y.on = x.on
    OBVIOUS
  <2>2. Same(x, y)
    BY DEF Same
  <2> HIDE DEF y
  <2> QED BY <1>4, <1>5, <2>1, <2>2 DEF QueryOK
<1> QED BY <1>6 DEF Answer

\* The next candidate of a search on layer 0.
LEMMA PoppedIn ==
    ASSUME CorpusInv, NEW q, NEW x \in Opens, x.layer = 0,
           x.read \in Seq(Rows(x.on))
    PROVE  QueryOK(Popped(q, x)) /\ Same(x, Popped(q, x))
<1>1. CASE Popped(q, x) = Answer(x)
  BY <1>1, AnswerIn
<1>2. CASE Popped(q, x) # Answer(x)
  <2> DEFINE y == Expanding(x)
  <2>1. Popped(q, x) = y /\ x.cand # << >>
    BY <1>2 DEF Popped
  <2>2. Head(x.cand) \in Node /\ Tail(x.cand) \in Seq(Node)
    BY <2>1 DEF Opens
  <2>3. y \in Walks /\ y.layer = 0 /\ y.read = x.read /\ y.on = x.on
        /\ y.at = "count"
    BY <2>2 DEF Expanding, Opens, Walks
  <2>4. Same(x, y)
    BY DEF Same, Expanding, Opens
  <2>5. lev[y.node] >= y.layer
    BY <2>3, Sizes DEF CorpusInv, Walks
  <2> HIDE DEF y
  <2>6. QueryOK(y)
    BY <2>3, <2>5 DEF QueryOK
  <2> QED BY <2>1, <2>4, <2>6
<1> QED BY <1>1, <1>2

\* A search that comes to a row of a layer.
LEMMA EntersIn ==
    ASSUME CorpusInv, NEW q, NEW x \in Opens, x.read \in Seq(Rows(x.on)),
           NEW l \in Layer, NEW ep \in Node, lev[ep] >= l
    PROVE  QueryOK(Enters(q, x, ep, l)) /\ Same(x, Enters(q, x, ep, l))
<1>1. CASE l > 0
  <2> DEFINE y == [x EXCEPT !.at = "count", !.node = ep, !.layer = l]
  <2>1. Enters(q, x, ep, l) = y
    BY <1>1 DEF Enters
  <2>2. y \in Walks /\ y.layer = l /\ y.node = ep /\ y.read = x.read
        /\ y.on = x.on /\ y.at = "count"
    BY DEF Opens, Walks
  <2>3. Same(x, y)
    BY DEF Same, Opens
  <2> HIDE DEF y
  <2>4. QueryOK(y)
    BY <2>2 DEF QueryOK
  <2> QED BY <2>1, <2>3, <2>4
<1>2. CASE ~(l > 0)
  <2> DEFINE y == [x EXCEPT !.layer = 0, !.start = ep, !.seen = {ep},
                             !.cand = <<ep>>, !.res = <<ep>>]
  <2>1. Enters(q, x, ep, l) = Popped(q, y)
    BY <1>2 DEF Enters
  <2>2. ep \in Int /\ {ep} \in SUBSET Node /\ <<ep>> \in Seq(Node) /\ 0 \in Layer
    BY Sizes
  <2>3. y \in Opens /\ y.layer = 0 /\ y.read = x.read /\ y.on = x.on
        /\ y.pos = x.pos /\ y.first = x.first
    BY <2>2 DEF Opens
  <2> HIDE DEF y
  <2>4. QueryOK(Popped(q, y)) /\ Same(y, Popped(q, y))
    BY <2>3, PoppedIn
  <2> QED BY <2>1, <2>3, <2>4 DEF Same
<1> QED BY <1>1, <1>2

LEMMA MovedIn ==
    ASSUME CorpusInv, NEW q \in [Node -> Int], NEW x \in Opens,
           x.read \in Seq(Rows(x.on)), x.layer > 0, x.node \in Node,
           lev[x.node] >= x.layer, NEW nb \in Seq(Rows(x.layer))
    PROVE  QueryOK(Moved(q, x, nb)) /\ Same(x, Moved(q, x, nb))
<1> DEFINE l == x.layer
           v == x.node
           best == FirstBest(q, nb)
<1>1. l \in Layer /\ l - 1 \in Layer /\ v \in Node /\ lev[v] \in Nat /\ l \in Nat
  <2>1. l \in Layer /\ l > 0 /\ v \in Node
    BY DEF Opens
  <2>2. lev[v] \in Layer
    BY <2>1 DEF CorpusInv
  <2> HIDE DEF l, v
  <2> QED BY <2>1, <2>2, Sizes
<1>2. CASE nb # << >> /\ q[best] > q[v]
  <2>1. best \in Rows(l)
    <3> HIDE DEF l
    <3> QED BY <1>1, <1>2, FirstBestIn, OnAreRows DEF l
  <2>2. best \in Node /\ lev[best] >= l
    BY <2>1 DEF Rows
  <2>3. Moved(q, x, nb) = Enters(q, x, best, l)
    BY <1>2 DEF Moved
  <2> HIDE DEF best, l
  <2> QED BY <1>1, <2>2, <2>3, EntersIn
<1>3. CASE ~(nb # << >> /\ q[best] > q[v])
  <2> DEFINE k == l - 1
  <2>1. Moved(q, x, nb) = Enters(q, x, v, k)
    BY <1>3 DEF Moved
  <2>2. k \in Layer /\ lev[v] >= k
    BY <1>1
  <2> HIDE DEF k, v
  <2> QED BY <1>1, <2>1, <2>2, EntersIn
<1> QED BY <1>2, <1>3

LEMMA ExpandedIn ==
    ASSUME CorpusInv, NEW q, NEW x \in Opens, x.read \in Seq(Rows(x.on)),
           x.layer = 0, NEW nb \in Seq(Node)
    PROVE  QueryOK(Expanded(q, x, nb)) /\ Same(x, Expanded(q, x, nb))
<1> DEFINE A == {y \in Opens : /\ y.layer = 0 /\ y.read = x.read /\ y.on = x.on
                               /\ y.pos = x.pos /\ y.first = x.first}
           n == Len(nb)
           s == [x EXCEPT !.seen = @ \cup ToSet(nb)]
           Op(j, y) == IF nb[j] \in x.seen THEN y ELSE Score(q, y, nb[j])
           Body(g) == [j \in 0 .. n |-> IF j = 0 THEN s ELSE Op(j, g[j - 1])]
           f == CHOOSE g : g = Body(g)
           F == [j \in Nat |-> [y \in A |-> IF j \in 1 .. n THEN Op(j, y) ELSE y]]
<1>1. n \in Nat /\ \A j \in 1 .. n : nb[j] \in Node
  OBVIOUS
<1>2. s \in A
  <2>1. ToSet(nb) \in SUBSET Node
    BY DEF ToSet
  <2> QED BY <2>1 DEF Opens
<1>3. \A j \in 1 .. n : \A y \in A : Op(j, y) \in A
  <2> TAKE j \in 1 .. n
  <2> TAKE y \in A
  <2>1. y \in Opens /\ nb[j] \in Node
    BY <1>1
  <2>2. Score(q, y, nb[j]) \in A
    <3> DEFINE e == nb[j]
    <3> HIDE DEF e
    <3> QED BY <2>1, ScoreIn DEF e
  <2> QED BY <2>2
<1>4. F \in [Nat -> [A -> A]]
  <2> HIDE DEF Op, A, n
  <2> QED BY <1>3
<1>5. PICK g \in [0 .. n -> A] : Recurs(g, s, F, n)
  <2> HIDE DEF F, A, n, s
  <2> QED BY <1>1, <1>2, <1>4, Recursion
<1>6. \A j \in 0 .. n : j # 0 => F[j][g[j - 1]] = Op(j, g[j - 1])
  <2> TAKE j \in 0 .. n
  <2> HAVE j # 0
  <2> HIDE DEF n
  <2>1. j \in Nat /\ j - 1 \in 0 .. n /\ j \in 1 .. n
    BY <1>1
  <2>2. g[j - 1] \in A
    <3> HIDE DEF A
    <3> QED BY <2>1, <1>5
  <2> HIDE DEF Op, A
  <2> QED BY <2>1, <2>2
<1>7. g = Body(g)
  <2> HIDE DEF F, Op, A, n, s
  <2> QED BY <1>5, <1>6 DEF Recurs
<1>8. f = Body(f)
  <2> HIDE DEF Body
  <2> QED BY <1>7
<1>9. f[0] = s /\ \A j \in 1 .. n : f[j] = Op(j, f[j - 1])
  <2> HIDE DEF f, Op, n, s
  <2> QED BY <1>1, <1>8
<1>10. f[n] \in A
  <2> HIDE DEF f, Op, A, n, s
  <2>1. \A j \in 1 .. n : f[j - 1] \in A => f[j] \in A
    BY <1>3, <1>9
  <2> QED BY <1>1, <1>2, <1>9, <2>1, Stays
<1>11. Expanded(q, x, nb) = Popped(q, f[n])
  BY DEF Expanded
<1> DEFINE y == f[n]
<1>12. y \in Opens /\ y.layer = 0 /\ y.read \in Seq(Rows(y.on))
       /\ y.pos = x.pos /\ y.first = x.first
  <2> HIDE DEF f, n
  <2> QED BY <1>10
<1> HIDE DEF y
<1>13. QueryOK(Popped(q, y)) /\ Same(y, Popped(q, y))
  BY <1>12, PoppedIn
<1> QED BY <1>11, <1>12, <1>13 DEF Same, y

-----------------------------------------------------------------------------
(* The initial state.                                                      *)

LEMMA FrozenIn ==
    ASSUME NEW links, NEW T, \A l \in Layer : T[l] \in SUBSET Node,
           \A v \in Node, l \in Layer :
               links[v][l] \in Seq(T[l]) /\ Len(links[v][l]) <= Cap(l)
    PROVE  /\ Frozen(links) \in [Node -> [Layer -> Seq(Int)]]
           /\ \A v \in Node, l \in Layer :
                /\ Len(Frozen(links)[v][l]) = Cap(l)
                /\ Len(links[v][l]) \in 0 .. Cap(l)
                /\ \A j \in 1 .. Cap(l) :
                     IF j <= Len(links[v][l]) THEN Frozen(links)[v][l][j] \in T[l]
                     ELSE Frozen(links)[v][l][j] = -1
<1> DEFINE row(v, l) == [j \in 1 .. Cap(l) |->
                            IF j <= Len(links[v][l]) THEN links[v][l][j] ELSE -1]
<1>1. ASSUME NEW v \in Node, NEW l \in Layer
      PROVE  /\ row(v, l) \in Seq(Int) /\ Len(row(v, l)) = Cap(l)
             /\ Len(links[v][l]) \in 0 .. Cap(l)
             /\ \A j \in 1 .. Cap(l) :
                   IF j <= Len(links[v][l]) THEN row(v, l)[j] \in T[l]
                   ELSE row(v, l)[j] = -1
  <2>1. Cap(l) \in Nat /\ T[l] \subseteq Int
    <3>1. Node \subseteq Int
      BY Sizes
    <3> QED BY <3>1, Sizes
  <2>2. links[v][l] \in Seq(T[l]) /\ Len(links[v][l]) <= Cap(l)
    OBVIOUS
  <2>3. \A j \in 1 .. Len(links[v][l]) : links[v][l][j] \in T[l]
    BY <2>2
  <2>4. Len(links[v][l]) \in 0 .. Cap(l)
    BY <2>1, <2>2
  <2>5. ASSUME NEW j \in 1 .. Cap(l)
        PROVE  /\ row(v, l)[j] \in Int
               /\ IF j <= Len(links[v][l]) THEN row(v, l)[j] \in T[l]
                  ELSE row(v, l)[j] = -1
    <3>1. j <= Len(links[v][l]) => j \in 1 .. Len(links[v][l])
      BY <2>4
    <3> QED BY <2>1, <2>3, <3>1
  <2>6. row(v, l) \in [1 .. Cap(l) -> Int]
    BY <2>5
  <2> HIDE DEF row
  <2> QED BY <2>1, <2>4, <2>5, <2>6
<1>2. Frozen(links) = [v \in Node |-> [l \in Layer |-> row(v, l)]]
  BY DEF Frozen
<1> HIDE DEF row
<1>3. Frozen(links) \in [Node -> [Layer -> Seq(Int)]]
  BY <1>1, <1>2
<1>4. ASSUME NEW v \in Node, NEW l \in Layer
      PROVE  Frozen(links)[v][l] = row(v, l)
  BY <1>2
<1> QED BY <1>1, <1>3, <1>4

LEMMA LoadInit ==
    ASSUME Init
    PROVE  LoadInv
<1>1. CorpusInv
  <2>1. PICK c \in Corpora : sc = c.sc /\ lev = c.lev
    BY DEF Init
  <2>2. sc \in [Node -> [Node -> Int]] /\ lev \in [Node -> Layer]
    BY <2>1, CorporaAssumption
  <2>3. next = 1 /\ ept = [ep |-> 0, top |-> lev[0]]
    BY DEF Init
  <2>4. 0 \in Node /\ lev[0] \in Layer /\ next \in 1 .. N
    BY <2>2, <2>3, Sizes
  <2>5. 0 \in RowsOn(lev[0])
    BY <2>3, <2>4, Sizes DEF RowsOn
  <2> QED BY <2>2, <2>3, <2>4, <2>5 DEF CorpusInv
<1>2. \A w \in Worker : query[w] = [at |-> "begin", pos |-> 1, first |-> (w = 0)]
  BY DEF Init, Start
<1>3. BuildInv
  <2>1. \A v \in Node, l \in Layer : grown[v][l] = << >>
    BY DEF Init, Empty
  <2>2. \A v \in Node, l \in Layer :
           grown[v][l] \in Seq(RowsOn(l)) /\ Len(grown[v][l]) <= Cap(l)
    <3> TAKE v \in Node, l \in Layer
    <3>1. Cap(l) \in Nat /\ grown[v][l] = << >>
      BY <2>1, Sizes
    <3> QED BY <3>1
  <2> QED BY <1>2, <2>2 DEF BuildInv, Init
<1>4. SlotsInv
  <2> DEFINE T == [l \in Layer |-> {}]
  <2>1. \A v \in Node, l \in Layer :
           Empty[v][l] = << >> /\ Empty[v][l] \in Seq(T[l]) /\ Len(Empty[v][l]) <= Cap(l)
    BY Sizes DEF Empty
  <2>2. \A l \in Layer : T[l] \in SUBSET Node
    OBVIOUS
  <2>3. slots = Frozen(Empty) /\ cnt = [v \in Node |-> [l \in Layer |-> 0]]
    BY DEF Init
  <2>4. /\ slots \in [Node -> [Layer -> Seq(Int)]]
        /\ \A v \in Node, l \in Layer :
             /\ Len(slots[v][l]) = Cap(l)
             /\ \A j \in 1 .. Cap(l) : slots[v][l][j] = -1
    <3> HIDE DEF T
    <3>1. /\ Frozen(Empty) \in [Node -> [Layer -> Seq(Int)]]
          /\ \A v \in Node, l \in Layer :
                /\ Len(Frozen(Empty)[v][l]) = Cap(l)
                /\ Len(Empty[v][l]) \in 0 .. Cap(l)
                /\ \A j \in 1 .. Cap(l) :
                     IF j <= Len(Empty[v][l]) THEN Frozen(Empty)[v][l][j] \in T[l]
                     ELSE Frozen(Empty)[v][l][j] = -1
      BY <2>1, <2>2, FrozenIn
    <3>2. \A v \in Node, l \in Layer : \A j \in 1 .. Cap(l) : ~(j <= Len(Empty[v][l]))
      BY <2>1, Sizes
    <3> QED BY <2>3, <3>1, <3>2
  <2>5. cnt \in [Node -> [Layer -> Nat]]
    BY <2>3
  <2>6. \A v \in Node, l \in Layer : Written(v, l, cnt[v][l])
    BY <2>3, Sizes DEF Written
  <2> QED BY <2>4, <2>5, <2>6 DEF SlotsInv
<1>5. InsInv
  BY DEF Init, InsInv, None
<1>6. 1 \in DOMAIN Queries /\ 0 \in Worker
  BY LoadAssumption DEF Worker
<1>7. QueriesInv
  <2> SUFFICES ASSUME NEW w \in Worker PROVE QueryOK(query[w])
    BY DEF QueriesInv
  <2> DEFINE x == [at |-> "begin", pos |-> 1, first |-> (w = 0)]
  <2>1. x \in Idles
    BY <1>6 DEF Idles
  <2>2. x \notin Walks /\ x \notin Answers
    BY DEF Walks, Answers
  <2>3. query[w] = x
    BY <1>2
  <2> HIDE DEF x
  <2> QED BY <2>1, <2>2, <2>3 DEF QueryOK
<1>8. PassInv
  <2>1. query = [w \in Worker |-> query[w]] /\ kept = {} /\ stage = "build"
    BY DEF Init
  <2>2. query[0].first /\ query[0].pos = 1 /\ query[0].at = "begin"
    <3>1. query[0] = [at |-> "begin", pos |-> 1, first |-> (0 = 0)]
      BY <1>2, <1>6
    <3>2. query[0].first = (0 = 0)
      BY <3>1
    <3>3. query[0].first
      BY <3>2
    <3>4. query[0].pos = 1 /\ query[0].at = "begin"
      BY <3>1
    <3> QED BY <3>3, <3>4
  <2>3. \A w \in Worker \ {0} : ~query[w].first
    <3> TAKE w \in Worker \ {0}
    <3>1. query[w] = [at |-> "begin", pos |-> 1, first |-> (w = 0)]
      BY <1>2
    <3>2. query[w].first = (w = 0)
      BY <3>1
    <3> QED BY <3>2
  <2>4. kept = 1 .. 1 - 1
    BY <2>1
  <2> QED BY <2>1, <2>2, <2>3, <2>4 DEF PassInv
<1> QED BY <1>1, <1>3, <1>4, <1>5, <1>7, <1>8 DEF LoadInv

-----------------------------------------------------------------------------
(* The build and the run.                                                  *)

LEMMA GrowIn ==
    ASSUME CorpusInv, next < N, NEW T \in Levels, \A l \in Layer : T[l] = RowsOn(l),
           \A v \in Node, l \in Layer :
               grown[v][l] \in Seq(RowsOn(l)) /\ Len(grown[v][l]) <= Cap(l),
           Grow, corpus' = corpus, next' = next + 1
    PROVE  \A v \in Node, l \in Layer :
               (grown[v][l] \in Seq(RowsOn(l)) /\ Len(grown[v][l]) <= Cap(l))'
<1> DEFINE new == Linked(sc, grown, next, lev[next], ept.ep, ept.top)
<1>1. next \in Node /\ lev[next] \in Layer /\ next \in Nat /\ lev' = lev
  BY Sizes DEF CorpusInv, corpus
<1>2. Holds(grown, T)
  BY DEF Holds
<1>3. /\ sc \in [Node -> [Node -> Int]] /\ ept.top \in Layer /\ ept.ep \in T[ept.top]
      /\ \A v \in Node, l \in Layer : Len(grown[v][l]) <= Cap(l)
  BY DEF CorpusInv
<1>4. PICK x, lvl, top, ep :
          x = next /\ lvl = lev[next] /\ top = ept.top /\ ep = ept.ep
  OBVIOUS
<1>5. \A v \in Node, l \in Layer :
         /\ Len(new[v][l]) <= Cap(l)
         /\ new[v][l] \in Seq(IF l <= lvl THEN T[l] \cup {x} ELSE T[l])
  <2>1. x \in Node /\ lvl \in Layer /\ top \in Layer /\ ep \in T[top]
    BY <1>1, <1>3, <1>4
  <2> DEFINE other == Linked(sc, grown, x, lvl, ep, top)
  <2>2. \A v \in Node, l \in Layer :
         /\ Len(other[v][l]) <= Cap(l)
         /\ other[v][l] \in Seq(IF l <= lvl THEN T[l] \cup {x} ELSE T[l])
    BY <1>2, <1>3, <2>1, LinkedIn
  <2>3. other = new
    BY <1>4
  <2> HIDE DEF other, new
  <2> QED BY <2>2, <2>3
<1>6. grown' = new
  BY DEF Grow
<1> HIDE DEF new
<1>7. ASSUME NEW v \in Node, NEW l \in Layer
      PROVE  (grown[v][l] \in Seq(RowsOn(l)) /\ Len(grown[v][l]) <= Cap(l))'
  <2> DEFINE S == IF l <= lvl THEN T[l] \cup {x} ELSE T[l]
  <2>1. S \subseteq RowsOn(l)'
    <3>1. RowsOn(l) \subseteq RowsOn(l)'
      <4>1. \A u \in Node : u < next => u < next'
        BY <1>1, Sizes
      <4> QED BY <1>1, <4>1 DEF RowsOn
    <3>2. ASSUME l <= lvl PROVE x \in RowsOn(l)'
      <4>1. x \in Node /\ x < next' /\ lev'[x] >= l
        BY <1>1, <1>4, <3>2, Sizes
      <4> QED BY <4>1 DEF RowsOn
    <3> QED BY <3>1, <3>2
  <2>2. grown'[v][l] \in Seq(S) /\ Len(grown'[v][l]) <= Cap(l)
    BY <1>5, <1>6
  <2> HIDE DEF S
  <2>3. grown'[v][l] \in Seq(RowsOn(l)')
    BY <2>1, <2>2, SeqIn
  <2> QED BY <2>2, <2>3
<1> QED BY <1>7

LEMMA BuildRowStep ==
    ASSUME LoadInv, BuildRow
    PROVE  LoadInv'
<1> USE DEF LoadInv
<1>1. /\ stage = "build" /\ next < NBuild /\ next' = next + 1 /\ ept' = NewEpt
      /\ corpus' = corpus /\ slots' = slots /\ cnt' = cnt /\ ins' = ins
      /\ query' = query /\ kept' = kept /\ stage' = stage /\ Grow
  BY DEF BuildRow
<1>2. next < N /\ lev' = lev
  BY <1>1, Sizes, LoadAssumption DEF CorpusInv, corpus
<1>3. CorpusInv'
  BY <1>1, <1>2, CorpusGrows
<1>4. Keeps
  <2>1. \A l \in Layer : Rows(l) \subseteq Rows(l)'
    BY <1>1, <1>2, RowsGrow
  <2> QED BY <1>1, <1>2, <2>1 DEF Keeps
<1>5. BuildInv'
  <2> DEFINE T == [l \in Layer |-> RowsOn(l)]
  <2>1. T \in Levels /\ \A l \in Layer : T[l] = RowsOn(l)
    BY LevelsAre
  <2> HIDE DEF T
  <2>2. \A v \in Node, l \in Layer :
          grown[v][l] \in Seq(RowsOn(l)) /\ Len(grown[v][l]) <= Cap(l)
    BY <1>1 DEF BuildInv
  <2>3. \A v \in Node, l \in Layer :
          (grown[v][l] \in Seq(RowsOn(l)) /\ Len(grown[v][l]) <= Cap(l))'
    BY <1>1, <1>2, <2>1, <2>2, GrowIn
  <2> QED BY <1>1, <2>3 DEF BuildInv
<1>6. SlotsInv'
  BY <1>1, <1>4, SlotsStay
<1>7. InsInv'
  <2>1. ins' = None
    BY <1>1 DEF BuildInv
  <2> QED BY <2>1, NotInserting
<1>8. QueriesInv'
  BY <1>1, <1>4, QueriesStay
<1>9. PassInv'
  BY <1>1 DEF PassInv
<1> QED BY <1>3, <1>5, <1>6, <1>7, <1>8, <1>9

\* The lists go into the arrays; no search has begun.
LEMMA FreezeStep ==
    ASSUME LoadInv, Freeze
    PROVE  LoadInv'
<1> USE DEF LoadInv
<1>1. /\ stage = "build" /\ stage' = "loop"
      /\ corpus' = corpus /\ grown' = grown /\ ept' = ept /\ next' = next
      /\ ins' = ins /\ query' = query /\ kept' = kept
      /\ slots' = Frozen(grown)
      /\ cnt' = [v \in Node |-> [l \in Layer |-> Len(grown[v][l])]]
  BY DEF Freeze
<1>2. CorpusInv'
  BY <1>1, CorpusStays
<1>3. ins = None /\ \A w \in Worker : query[w].at = "begin"
  BY <1>1 DEF BuildInv
<1>4. BuildInv'
  BY <1>1 DEF BuildInv
<1>5. SlotsInv'
  <2> DEFINE T == [l \in Layer |-> RowsOn(l)]
  <2>1. \A l \in Layer : T[l] = RowsOn(l) /\ T[l] \in SUBSET Node
    BY DEF RowsOn
  <2> HIDE DEF T
  <2>2. \A v \in Node, l \in Layer :
          grown[v][l] \in Seq(T[l]) /\ Len(grown[v][l]) <= Cap(l)
    BY <1>1, <2>1 DEF BuildInv
  <2>3. /\ slots' \in [Node -> [Layer -> Seq(Int)]]
        /\ \A v \in Node, l \in Layer :
             /\ Len(slots'[v][l]) = Cap(l)
             /\ Len(grown[v][l]) \in 0 .. Cap(l)
             /\ \A j \in 1 .. Cap(l) :
                  IF j <= Len(grown[v][l]) THEN slots'[v][l][j] \in T[l]
                  ELSE slots'[v][l][j] = -1
    BY <1>1, <2>1, <2>2, FrozenIn
  <2>4. \A l \in Layer : RowsOn(l) \subseteq Rows(l)'
    <3>1. next' = next /\ lev' = lev
      BY <1>1 DEF corpus
    <3> QED BY <3>1 DEF RowsOn, Rows
  <2>5. ASSUME NEW v \in Node, NEW l \in Layer
        PROVE  /\ Written(v, l, cnt[v][l])'
               /\ \A j \in 1 .. Cap(l) : slots'[v][l][j] \in Rows(l)' \cup {-1}
    <3>1. cnt'[v][l] \in 0 .. Cap(l) /\ cnt'[v][l] = Len(grown[v][l])
      BY <1>1, <2>3
    <3>2. T[l] \subseteq Rows(l)'
      BY <2>1, <2>4
    <3>3. \A j \in 1 .. Cap(l) :
             IF j <= cnt'[v][l] THEN slots'[v][l][j] \in Rows(l)'
             ELSE slots'[v][l][j] = -1
      BY <2>3, <3>1, <3>2
    <3>4. \A j \in 1 .. cnt'[v][l] : j \in 1 .. Cap(l) /\ j <= cnt'[v][l]
      BY <3>1, Sizes
    <3>5. Written(v, l, cnt[v][l])'
      BY <3>1, <3>3, <3>4 DEF Written
    <3> QED BY <3>3, <3>5
  <2>6. cnt' \in [Node -> [Layer -> Nat]]
    <3>1. \A v \in Node, l \in Layer : Len(grown[v][l]) \in Nat
      BY <2>2
    <3> QED BY <1>1, <3>1
  <2> QED BY <2>3, <2>5, <2>6 DEF SlotsInv
<1>6. InsInv'
  BY <1>1, <1>3, NotInserting
<1>7. QueriesInv'
  <2> SUFFICES ASSUME NEW w \in Worker PROVE QueryOK(query[w])'
    BY DEF QueriesInv
  <2>1. PICK x : x = query[w]
    OBVIOUS
  <2>2. x.at = "begin" /\ x \in Idles \cup Walks \cup Answers
    BY <1>3, <2>1 DEF QueriesInv, QueryOK
  <2>3. x \in Idles /\ x \notin Walks \cup Answers
    BY <2>2 DEF Walks, Answers
  <2>4. QueryOK(x)'
    BY <2>3 DEF QueryOK
  <2> QED BY <1>1, <2>1, <2>4
<1>8. PassInv'
  BY <1>1 DEF PassInv
<1> QED BY <1>2, <1>4, <1>5, <1>6, <1>7, <1>8

-----------------------------------------------------------------------------
(* The inserter.                                                           *)

\* The row that is inserted changes nothing but slots, counts and its place.
LEMMA InsertStep ==
    ASSUME LoadInv, stage # "build", corpus' = corpus, ept' = ept,
           next' = next, query' = query, kept' = kept, stage' = stage,
           Keeps, SlotsInv', InsInv'
    PROVE  LoadInv'
<1>1. CorpusInv'
  BY CorpusStays DEF LoadInv
<1>2. BuildInv'
  BY DEF LoadInv, BuildInv
<1>3. QueriesInv'
  BY QueriesStay DEF LoadInv
<1>4. PassInv'
  BY DEF LoadInv, PassInv
<1> QED BY <1>1, <1>2, <1>3, <1>4 DEF LoadInv

\* Nothing is written, and the rows that have arrived on a layer stay there.
LEMMA PlaceStep ==
    ASSUME LoadInv, stage # "build", corpus' = corpus, ept' = ept,
           next' = next, query' = query, kept' = kept, stage' = stage,
           slots' = slots, cnt' = cnt,
           \A l \in Layer : Arrives(l) => Arrives(l)', InsInv'
    PROVE  LoadInv'
<1>1. lev' = lev
  BY DEF corpus
<1>2. \A l \in Layer : Rows(l) \subseteq Rows(l)'
  BY <1>1, RowsGrow DEF LoadInv
<1>3. Keeps
  BY <1>1, <1>2 DEF Keeps
<1>4. SlotsInv'
  BY <1>3, SlotsStay DEF LoadInv
<1> QED BY <1>3, <1>4, InsertStep

\* Where the insertion is, as InsInv has it.
LEMMA Inserting ==
    ASSUME LoadInv, ins.at # "none"
    PROVE  /\ next \in Node /\ sc[next] \in [Node -> Int] /\ stage # "build"
           /\ ins.layer \in Layer /\ ins.eps \in SUBSET RowsOn(ins.layer)
           /\ ins.layer <= lev[next] /\ next < N /\ stage \in {"loop", "tail"}
<1>1. next \in Node
  BY Sizes DEF LoadInv, CorpusInv, InsInv
<1>2. sc[next] \in [Node -> Int]
  BY <1>1 DEF LoadInv, CorpusInv
<1> QED BY <1>1, <1>2 DEF LoadInv, InsInv

LEMMA StartRowStep ==
    ASSUME LoadInv, StartRow
    PROVE  LoadInv'
<1> DEFINE l == LinkTop
           ep == Descend(Lists, sc[next], ept.ep, ept.top, l)
           T == [k \in Layer |-> RowsOn(k)]
<1>1. /\ ins = None /\ next < N /\ stage \in {"loop", "tail"}
      /\ ins' = [at |-> "own", layer |-> l, eps |-> {ep}]
      /\ corpus' = corpus /\ ept' = ept /\ next' = next /\ query' = query
      /\ kept' = kept /\ stage' = stage /\ slots' = slots /\ cnt' = cnt
  BY DEF StartRow, arrays
<1>2. /\ next \in Node /\ lev[next] \in Layer /\ ept.top \in Layer
      /\ ept.ep \in RowsOn(ept.top) /\ sc[next] \in [Node -> Int]
  BY <1>1, Sizes DEF LoadInv, CorpusInv
<1>3. l \in Layer /\ l <= lev[next] /\ l <= ept.top
  BY <1>2, Sizes DEF LinkTop, MinOf
<1>4. ep \in RowsOn(l)
  <2>1. T \in Levels /\ Holds(Lists, T) /\ ept.ep \in T[ept.top]
    BY <1>1, <1>2, LevelsAre, ListsHold DEF LoadInv
  <2> HIDE DEF l, T
  <2>2. ep \in T[l]
    BY <1>2, <1>3, <2>1, DescendIn
  <2> HIDE DEF ep
  <2> QED BY <1>3, <2>2 DEF T
<1>5. InsInv'
  <2>1. lev' = lev
    BY <1>1 DEF corpus
  <2>2. PICK k : k = l
    OBVIOUS
  <2>3. RowsOn(k)' = RowsOn(k)
    BY <1>1, <2>1 DEF RowsOn
  <2> HIDE DEF l, ep
  <2>4. ins' = [at |-> "own", layer |-> k, eps |-> {ep}] /\ ep \in RowsOn(k)'
    BY <1>1, <1>4, <2>2, <2>3
  <2> QED BY <1>1, <1>3, <2>1, <2>2, <2>4 DEF InsInv
<1>6. \A k \in Layer : Arrives(k) => Arrives(k)'
  BY <1>1 DEF Arrives, None
<1> QED BY <1>1, <1>5, <1>6, PlaceStep

LEMMA WriteOwnStep ==
    ASSUME LoadInv, WriteOwn
    PROVE  LoadInv'
<1> DEFINE q == sc[next]
           nbr == [v \in Node |-> Neighbors(v, ins.layer)]
           all == SearchLayer(nbr, q, Node, ins.eps, EfC)
           best == Select(sc, q, all, M, {})
<1>1. /\ ins.at = "own" /\ Overwrite(next, ins.layer, best)
      /\ ins' = [at |-> "ownCount", layer |-> ins.layer, eps |-> all, todo |-> best]
      /\ corpus' = corpus /\ ept' = ept /\ next' = next /\ query' = query
      /\ kept' = kept /\ stage' = stage /\ cnt' = cnt
  BY DEF WriteOwn
<1>2. PICK l : l = ins.layer
  OBVIOUS
<1>3. /\ next \in Node /\ q \in [Node -> Int] /\ stage # "build"
      /\ l \in Layer /\ ins.eps \in SUBSET RowsOn(l)
      /\ l <= lev[next] /\ next < N /\ stage \in {"loop", "tail"}
  BY <1>1, <1>2, Inserting
<1>4. Rows(l) = RowsOn(l) /\ Rows(l) \in SUBSET Node
  <2>1. ~Arrives(l)
    BY <1>1, <1>2, <1>3, Sizes DEF Arrives
  <2> QED BY <1>3, <2>1, RowsAreOn, OnAreRows
<1>5. \A v \in RowsOn(l) : nbr[v] \in Seq(RowsOn(l))
  <2> TAKE v \in RowsOn(l)
  <2>1. v \in Node
    BY <1>4
  <2>2. Neighbors(v, l) \in Seq(Rows(l))
    BY <1>3, <2>1, NeighborsIn DEF LoadInv
  <2> QED BY <1>2, <1>4, <2>1, <2>2
<1>6. all \in SUBSET RowsOn(l)
  <2> HIDE DEF nbr, q
  <2> QED BY <1>3, <1>4, <1>5, SearchLayerIn
<1>7. best \in Seq(RowsOn(l)) /\ Len(best) <= Cap(l)
  <2> HIDE DEF all, q
  <2>1. all \in SUBSET Node /\ M \in Nat /\ Cap(l) \in Nat /\ Cap(l) >= M
    BY <1>3, <1>4, <1>6, Sizes
  <2>2. best \in Seq(all) /\ Len(best) <= M
    BY <1>3, <2>1, SelectIn
  <2>3. best \in Seq(RowsOn(l))
    <3> HIDE DEF best
    <3> QED BY <1>6, <2>2, SeqIn
  <2>4. Len(best) \in Nat
    <3> HIDE DEF best
    <3> QED BY <2>2
  <2> HIDE DEF best
  <2> QED BY <2>1, <2>2, <2>3, <2>4
<1> HIDE DEF best, all, nbr, q
<1>8. lev' = lev /\ RowsOn(l)' = RowsOn(l)
  <2>1. lev' = lev
    BY <1>1 DEF corpus
  <2> QED BY <1>1, <2>1 DEF RowsOn
<1>9. \A k \in Layer : Rows(k) \subseteq Rows(k)'
  <2>1. \A k \in Layer : Arrives(k) => Arrives(k)'
    BY <1>1 DEF Arrives
  <2> QED BY <1>1, <1>8, <2>1, RowsGrow DEF LoadInv
<1>10. PICK x, b, s : x = next /\ b = best /\ s = all
  OBVIOUS
<1>11. Keeps /\ SlotsInv' /\ Written(x, l, Len(b))'
  <2>1. x \in Node /\ b \in Seq(Rows(l)) /\ Len(b) <= Cap(l) /\ Overwrite(x, l, b)
    BY <1>1, <1>2, <1>3, <1>4, <1>7, <1>10
  <2> QED BY <1>1, <1>3, <1>8, <1>9, <2>1, OverwriteIn DEF LoadInv
<1>12. ins' = [at |-> "ownCount", layer |-> l, eps |-> s, todo |-> b] /\ next' = x
  BY <1>1, <1>2, <1>10
<1>13. s \in SUBSET RowsOn(l)' /\ b \in Seq(RowsOn(l)')
  BY <1>6, <1>7, <1>8, <1>10
<1>14. InsInv'
  BY <1>1, <1>3, <1>8, <1>11, <1>12, <1>13 DEF InsInv
<1> QED BY <1>1, <1>3, <1>11, <1>14, InsertStep

LEMMA CountOwnStep ==
    ASSUME LoadInv, CountOwn
    PROVE  LoadInv'
<1>1. /\ ins.at = "ownCount" /\ Count(next, ins.layer, Len(ins.todo))
      /\ ins' = [ins EXCEPT !.at = "edges"]
      /\ corpus' = corpus /\ ept' = ept /\ next' = next /\ query' = query
      /\ kept' = kept /\ stage' = stage /\ slots' = slots
  BY DEF CountOwn
<1>2. PICK x, l, s, b : x = next /\ l = ins.layer /\ s = ins.eps /\ b = ins.todo
  OBVIOUS
<1>3. /\ x \in Node /\ stage # "build" /\ l \in Layer /\ s \in SUBSET RowsOn(l)
      /\ l <= lev[next] /\ next < N /\ stage \in {"loop", "tail"}
  BY <1>1, <1>2, Inserting
<1>4. /\ ins = [at |-> "ownCount", layer |-> l, eps |-> s, todo |-> b]
      /\ b \in Seq(RowsOn(l)) /\ Written(x, l, Len(b))
  BY <1>1, <1>2 DEF LoadInv, InsInv
<1>5. ins' = [at |-> "edges", layer |-> l, eps |-> s, todo |-> b]
  BY <1>1, <1>4
<1>6. lev' = lev /\ RowsOn(l)' = RowsOn(l)
  <2>1. lev' = lev
    BY <1>1 DEF corpus
  <2> QED BY <1>1, <2>1 DEF RowsOn
<1>7. Keeps
  <2>1. \A k \in Layer : Arrives(k) => Arrives(k)'
    BY <1>4, <1>5 DEF Arrives
  <2>2. \A k \in Layer : Rows(k) \subseteq Rows(k)'
    BY <1>1, <1>6, <2>1, RowsGrow DEF LoadInv
  <2> QED BY <1>1, <1>6, <2>2 DEF Keeps
<1>8. SlotsInv'
  <2>1. Count(x, l, Len(b))
    BY <1>1, <1>2
  <2> QED BY <1>1, <1>3, <1>4, <1>7, <2>1, CountIn DEF LoadInv
<1>9. InsInv'
  BY <1>1, <1>3, <1>4, <1>5, <1>6 DEF InsInv
<1> QED BY <1>1, <1>3, <1>7, <1>8, <1>9, InsertStep

LEMMA WriteBackStep ==
    ASSUME LoadInv, WriteBack
    PROVE  LoadInv'
<1> DEFINE nb == Neighbors(Head(ins.todo), ins.layer)
           new == WithBackEdge(sc, nb, Head(ins.todo), next, ins.layer)
<1>1. /\ ins.at = "edges" /\ ins.todo # << >>
      /\ corpus' = corpus /\ ept' = ept /\ next' = next /\ query' = query
      /\ kept' = kept /\ stage' = stage /\ cnt' = cnt
      /\ \/ ins' = [ins EXCEPT !.todo = Tail(@)] /\ slots' = slots
         \/ /\ Overwrite(Head(ins.todo), ins.layer, new)
            /\ ins' = [at |-> "backCount", layer |-> ins.layer, eps |-> ins.eps,
                       todo |-> ins.todo, len |-> Len(new)]
  BY DEF WriteBack
<1>2. PICK x, l, s, b, ids :
          x = next /\ l = ins.layer /\ s = ins.eps /\ b = ins.todo /\ ids = new
  OBVIOUS
<1>3. /\ x \in Node /\ stage # "build" /\ l \in Layer /\ s \in SUBSET RowsOn(l)
      /\ l <= lev[next] /\ next < N /\ stage \in {"loop", "tail"}
  BY <1>1, <1>2, Inserting
<1>4. /\ ins = [at |-> "edges", layer |-> l, eps |-> s, todo |-> b]
      /\ b \in Seq(RowsOn(l)) /\ b # << >>
  BY <1>1, <1>2 DEF LoadInv, InsInv
<1>5. lev' = lev /\ RowsOn(l)' = RowsOn(l)
  <2>1. lev' = lev
    BY <1>1 DEF corpus
  <2> QED BY <1>1, <2>1 DEF RowsOn
<1>6. \A k \in Layer : Rows(k) \subseteq Rows(k)'
  <2>1. \A k \in Layer : Arrives(k) => Arrives(k)'
    BY <1>1, <1>4 DEF Arrives
  <2> QED BY <1>1, <1>5, <2>1, RowsGrow DEF LoadInv
<1>7. CASE ins' = [ins EXCEPT !.todo = Tail(@)] /\ slots' = slots
  <2>1. ins' = [at |-> "edges", layer |-> l, eps |-> s, todo |-> Tail(b)]
    BY <1>4, <1>7
  <2>2. Tail(b) \in Seq(RowsOn(l))
    BY <1>4
  <2>3. InsInv'
    BY <1>1, <1>3, <1>5, <2>1, <2>2 DEF InsInv
  <2>4. \A k \in Layer : Arrives(k) => Arrives(k)'
    BY <1>4, <2>1 DEF Arrives
  <2> QED BY <1>1, <1>3, <1>7, <2>3, <2>4, PlaceStep
<1>8. CASE /\ Overwrite(Head(ins.todo), ins.layer, new)
           /\ ins' = [at |-> "backCount", layer |-> ins.layer, eps |-> ins.eps,
                      todo |-> ins.todo, len |-> Len(new)]
  <2>1. PICK e : e = Head(b)
    OBVIOUS
  <2>2. e \in RowsOn(l) /\ e \in Node
    BY <1>4, <2>1 DEF RowsOn
  <2>3. x \in Rows(l) /\ Rows(l) \in SUBSET Node
    <3>1. Arrives(l)
      BY <1>4, <1>3, Sizes DEF Arrives
    <3> QED BY <1>2, <1>3, <3>1 DEF Rows
  <2>4. ids \in Seq(Rows(l)) /\ Len(ids) <= Cap(l)
    <3> DEFINE list == Neighbors(e, l)
    <3>1. list \in Seq(Rows(l)) /\ Len(list) <= Cap(l)
      BY <1>3, <2>2, NeighborsIn DEF LoadInv
    <3>2. sc[e] \in [Node -> Int]
      BY <2>2 DEF LoadInv, CorpusInv
    <3>3. ids = WithBackEdge(sc, list, e, x, l)
      BY <1>2, <2>1
    <3> HIDE DEF list
    <3> QED BY <1>3, <2>3, <3>1, <3>2, <3>3, BackEdgeIn
  <2> HIDE DEF new
  <2>5. Overwrite(e, l, ids)
    BY <1>2, <1>8, <2>1
  <2>6. Keeps /\ SlotsInv' /\ Written(e, l, Len(ids))'
    BY <1>1, <1>3, <1>5, <1>6, <2>2, <2>4, <2>5, OverwriteIn DEF LoadInv
  <2>7. ins' = [at |-> "backCount", layer |-> l, eps |-> s, todo |-> b,
                len |-> Len(ids)]
    BY <1>2, <1>8
  <2>8. Written(Head(b), l, Len(ids))'
    BY <2>1, <2>6
  <2>9. InsInv'
    BY <1>1, <1>3, <1>4, <1>5, <2>7, <2>8 DEF InsInv
  <2> QED BY <1>1, <1>3, <2>6, <2>9, InsertStep
<1> QED BY <1>1, <1>7, <1>8

LEMMA CountBackStep ==
    ASSUME LoadInv, CountBack
    PROVE  LoadInv'
<1>1. /\ ins.at = "backCount" /\ Count(Head(ins.todo), ins.layer, ins.len)
      /\ ins' = [at |-> "edges", layer |-> ins.layer, eps |-> ins.eps,
                 todo |-> Tail(ins.todo)]
      /\ corpus' = corpus /\ ept' = ept /\ next' = next /\ query' = query
      /\ kept' = kept /\ stage' = stage /\ slots' = slots
  BY DEF CountBack
<1>2. PICK x, l, s, b, n :
         x = next /\ l = ins.layer /\ s = ins.eps /\ b = ins.todo /\ n = ins.len
  OBVIOUS
<1>3. /\ x \in Node /\ stage # "build" /\ l \in Layer /\ s \in SUBSET RowsOn(l)
      /\ l <= lev[next] /\ next < N /\ stage \in {"loop", "tail"}
  BY <1>1, <1>2, Inserting
<1>4. b \in Seq(RowsOn(l)) /\ b # << >> /\ Written(Head(b), l, n)
  BY <1>1, <1>2 DEF LoadInv, InsInv
<1>5. ins' = [at |-> "edges", layer |-> l, eps |-> s, todo |-> Tail(b)]
  BY <1>1, <1>2
<1>6. lev' = lev /\ RowsOn(l)' = RowsOn(l)
  <2>1. lev' = lev
    BY <1>1 DEF corpus
  <2> QED BY <1>1, <2>1 DEF RowsOn
<1>7. Keeps
  <2>1. \A k \in Layer : Arrives(k) => Arrives(k)'
    BY <1>1, <1>2, <1>5 DEF Arrives
  <2>2. \A k \in Layer : Rows(k) \subseteq Rows(k)'
    BY <1>1, <1>6, <2>1, RowsGrow DEF LoadInv
  <2> QED BY <1>1, <1>6, <2>2 DEF Keeps
<1>8. SlotsInv'
  <2>1. PICK e : e = Head(b)
    OBVIOUS
  <2>2. e \in Node /\ Count(e, l, n) /\ Written(e, l, n)
    BY <1>1, <1>2, <1>4, <2>1 DEF RowsOn
  <2> QED BY <1>1, <1>3, <1>7, <2>2, CountIn DEF LoadInv
<1>9. InsInv'
  <2>1. PICK t : t = Tail(b)
    OBVIOUS
  <2>2. t \in Seq(RowsOn(l))
    BY <1>4, <2>1
  <2>3. ins' = [at |-> "edges", layer |-> l, eps |-> s, todo |-> t]
    BY <1>5, <2>1
  <2>4. next' = next /\ stage' = stage
    BY <1>1
  <2> QED BY <1>3, <1>6, <2>2, <2>3, <2>4 DEF InsInv
<1> QED BY <1>1, <1>3, <1>7, <1>8, <1>9, InsertStep

LEMMA NextLayerStep ==
    ASSUME LoadInv, NextLayer
    PROVE  LoadInv'
<1>1. /\ ins.at = "edges" /\ ins.layer > 0
      /\ ins' = [at |-> "own", layer |-> ins.layer - 1, eps |-> ins.eps]
      /\ corpus' = corpus /\ ept' = ept /\ next' = next /\ query' = query
      /\ kept' = kept /\ stage' = stage /\ slots' = slots /\ cnt' = cnt
  BY DEF NextLayer, arrays
<1>2. PICK l, k, s : l = ins.layer /\ k = l - 1 /\ s = ins.eps
  OBVIOUS
<1>3. /\ next \in Node /\ stage # "build" /\ l \in Layer /\ s \in SUBSET RowsOn(l)
      /\ l <= lev[next] /\ next < N /\ stage \in {"loop", "tail"}
  BY <1>1, <1>2, Inserting
<1>4. k \in Layer /\ k <= l /\ lev[next] \in Nat /\ k <= lev[next] /\ l \in Nat
  <2>1. lev[next] \in Nat
    BY <1>3, Sizes DEF LoadInv, CorpusInv
  <2> QED BY <1>1, <1>2, <1>3, <2>1, Sizes
<1>5. RowsOn(l) \subseteq RowsOn(k)
  <2>1. \A v \in Node : lev[v] \in Nat
    BY Sizes DEF LoadInv, CorpusInv
  <2>2. k \in Nat
    BY <1>4, Sizes
  <2>3. \A v \in Node : lev[v] >= l => lev[v] >= k
    BY <1>4, <2>1, <2>2
  <2> QED BY <2>3 DEF RowsOn
<1>6. lev' = lev /\ RowsOn(k)' = RowsOn(k)
  <2>1. lev' = lev
    BY <1>1 DEF corpus
  <2> QED BY <1>1, <2>1 DEF RowsOn
<1>7. ins' = [at |-> "own", layer |-> k, eps |-> s]
  BY <1>1, <1>2
<1>8. InsInv'
  BY <1>1, <1>3, <1>4, <1>5, <1>6, <1>7 DEF InsInv
<1>9. \A j \in Layer : Arrives(j) => Arrives(j)'
  <2> TAKE j \in Layer
  <2>1. j \in Nat
    BY Sizes
  <2> QED BY <1>1, <1>2, <1>4, <1>7, <2>1 DEF Arrives
<1> QED BY <1>1, <1>3, <1>8, <1>9, PlaceStep

LEMMA PublishStep ==
    ASSUME LoadInv, Publish
    PROVE  LoadInv'
<1> USE DEF LoadInv
<1>1. /\ ins.at = "edges" /\ next' = next + 1 /\ ept' = NewEpt /\ ins' = None
      /\ corpus' = corpus /\ slots' = slots /\ cnt' = cnt /\ query' = query
      /\ kept' = kept /\ stage' = stage
  BY DEF Publish
<1>2. stage # "build" /\ next < N /\ lev' = lev
  BY <1>1, Inserting DEF corpus
<1>3. CorpusInv'
  BY <1>1, <1>2, CorpusGrows
<1>4. Keeps
  <2>1. \A l \in Layer : Rows(l) \subseteq Rows(l)'
    BY <1>1, <1>2, RowsGrow
  <2> QED BY <1>1, <1>2, <2>1 DEF Keeps
<1>5. BuildInv'
  BY <1>1, <1>2 DEF BuildInv
<1>6. SlotsInv'
  BY <1>1, <1>4, SlotsStay
<1>7. InsInv'
  BY <1>1, NotInserting
<1>8. QueriesInv'
  BY <1>1, <1>4, QueriesStay
<1>9. PassInv'
  BY <1>1 DEF PassInv
<1> QED BY <1>3, <1>5, <1>6, <1>7, <1>8, <1>9

-----------------------------------------------------------------------------
(* The searches.                                                           *)

\* A step of a search changes only where this search is.
LEMMA SearchStep ==
    ASSUME LoadInv, stage # "build", NEW w \in Worker, NEW y, QueryOK(y),
           query' = [query EXCEPT ![w] = y],
           corpus' = corpus, arrays' = arrays, next' = next, ins' = ins,
           stage' = stage, PassInv'
    PROVE  LoadInv'
<1> USE DEF LoadInv
<1>1. slots' = slots /\ cnt' = cnt /\ ept' = ept /\ lev' = lev
  BY DEF arrays, corpus
<1>2. CorpusInv'
  BY <1>1, CorpusStays
<1>3. Keeps
  <2>1. \A l \in Layer : Arrives(l) => Arrives(l)'
    BY DEF Arrives
  <2>2. \A l \in Layer : Rows(l) \subseteq Rows(l)'
    BY <1>1, <2>1, RowsGrow
  <2> QED BY <1>1, <2>2 DEF Keeps
<1>4. BuildInv'
  BY DEF BuildInv
<1>5. SlotsInv'
  BY <1>1, <1>3, SlotsStay
<1>6. InsInv'
  <2>1. \A l : RowsOn(l)' = RowsOn(l) /\ Rows(l)' = Rows(l)
    BY <1>1 DEF RowsOn, Rows, Arrives
  <2>2. RowsOn(ins.layer)' = RowsOn(ins.layer)
    BY <1>1 DEF RowsOn
  <2>3. Written(next, ins.layer, Len(ins.todo))' = Written(next, ins.layer, Len(ins.todo))
    BY <1>1, <2>1 DEF Written
  <2>4. Written(Head(ins.todo), ins.layer, ins.len)' = Written(Head(ins.todo), ins.layer, ins.len)
    BY <1>1, <2>1 DEF Written
  <2> QED BY <1>1, <2>2, <2>3, <2>4 DEF InsInv
<1>7. QueriesInv'
  <2> SUFFICES ASSUME NEW u \in Worker PROVE QueryOK(query[u])'
    BY DEF QueriesInv
  <2>1. PICK x : x = query'[u]
    OBVIOUS
  <2>2. QueryOK(x)
    <3>1. query = [v \in Worker |-> query[v]]
      BY DEF PassInv
    <3>2. CASE u = w
      BY <2>1, <3>1, <3>2
    <3>3. CASE u # w
      BY <2>1, <3>1, <3>3 DEF QueriesInv
    <3> QED BY <3>2, <3>3
  <2>3. QueryOK(x)'
    BY <1>3, <2>2, QueryStays
  <2> QED BY <2>1, <2>3
<1> QED BY <1>2, <1>4, <1>5, <1>6, <1>7

\* It stays on its query.
LEMMA PassStays ==
    ASSUME PassInv, NEW w \in Worker, query[w].at # "done", NEW y,
           y.pos = query[w].pos, y.first = query[w].first, y.at # "done",
           query' = [query EXCEPT ![w] = y], kept' = kept, stage' = stage
    PROVE  PassInv'
<1>1. query = [v \in Worker |-> query[v]]
  BY DEF PassInv
<1>2. /\ query' = [v \in Worker |-> query'[v]] /\ query'[w] = y
      /\ \A v \in Worker : v # w => query'[v] = query[v]
  BY <1>1
<1>3. 0 \in Worker
  BY LoadAssumption DEF Worker
<1>4. /\ query'[0].first = query[0].first /\ query'[0].pos = query[0].pos
      /\ query[0].at # "done" => query'[0].at # "done"
  BY <1>2, <1>3
<1>5. \A v \in Worker \ {0} : query'[v].first = query[v].first
  BY <1>2
<1>6. stage \notin {"tail", "repaired"}
  BY DEF PassInv
<1> QED BY <1>2, <1>4, <1>5, <1>6 DEF PassInv

\* What a query is at.
LEMMA QueryIs ==
    ASSUME LoadInv, NEW w \in Worker
    PROVE  LET x == query[w]
           IN  /\ QueryOK(x) /\ x.pos \in DOMAIN Queries /\ x.first \in BOOLEAN
               /\ x.at = "begin" => x \in Idles
               /\ x.at \in {"count", "slots"} => x \in Walks /\ stage # "build"
               /\ x.at = "answer" => x \in Answers /\ stage # "build"
               /\ QueryOf(w) \in [Node -> Int]
<1> DEFINE x == query[w]
<1>1. QueryOK(x)
  BY DEF LoadInv, QueriesInv
<1> HIDE DEF x
<1>2. x \in Idles \cup Walks \cup Answers
  BY <1>1 DEF QueryOK
<1>3. x.pos \in DOMAIN Queries /\ x.first \in BOOLEAN
  BY <1>2 DEF Idles, Walks, Answers
<1>4. /\ x.at = "begin" => x \in Idles
      /\ x.at \in {"count", "slots"} => x \in Walks
      /\ x.at = "answer" => x \in Answers
  BY <1>2 DEF Idles, Walks, Answers
<1>5. x.at \in {"count", "slots", "answer"} => stage # "build"
  BY DEF x, LoadInv, BuildInv
<1>6. Queries[x.pos] \in Node
  BY <1>3, LoadAssumption
<1>7. QueryOf(w) \in [Node -> Int]
  BY <1>6 DEF QueryOf, LoadInv, CorpusInv, x
<1> QED BY <1>1, <1>3, <1>4, <1>5, <1>7 DEF x

LEMMA BeginStep ==
    ASSUME LoadInv, NEW w \in Worker, Begin(w)
    PROVE  LoadInv'
<1> DEFINE x == [at |-> "count", pos |-> query[w].pos, first |-> query[w].first,
                 since |-> next, start |-> -1, layer |-> 0, node |-> -1,
                 len |-> 0, read |-> << >>, on |-> 0,
                 seen |-> {}, cand |-> << >>, res |-> << >>]
           y == Enters(QueryOf(w), x, ept.ep, ept.top)
<1>1. query = [v \in Worker |-> query[v]]
  BY DEF LoadInv, PassInv
<1>2. /\ stage = "loop" /\ query[w].at = "begin"
      /\ query' = [query EXCEPT ![w] = y]
      /\ corpus' = corpus /\ arrays' = arrays /\ next' = next /\ ins' = ins
      /\ kept' = kept /\ stage' = stage
  BY <1>1 DEF Begin
<1>3. query[w].pos \in DOMAIN Queries /\ query[w].first \in BOOLEAN
  BY QueryIs
<1>4. x \in Opens /\ x.read \in Seq(Rows(x.on))
  <2>1. next \in Nat /\ 0 \in Layer
    BY Sizes DEF LoadInv, CorpusInv
  <2> QED BY <1>3, <2>1 DEF Opens
<1>5. ept.top \in Layer /\ ept.ep \in Node /\ lev[ept.ep] >= ept.top
  BY DEF LoadInv, CorpusInv, RowsOn
<1>6. x.pos = query[w].pos /\ x.first = query[w].first
  OBVIOUS
<1>7. QueryOK(y) /\ Same(x, y)
  <2> HIDE DEF x
  <2> QED BY <1>4, <1>5, EntersIn DEF LoadInv
<1> HIDE DEF y, x
<1>8. PassInv'
  BY <1>2, <1>6, <1>7, PassStays DEF LoadInv, Same
<1> QED BY <1>2, <1>7, <1>8, SearchStep

LEMMA ReadCountStep ==
    ASSUME LoadInv, NEW w \in Worker, ReadCount(w)
    PROVE  LoadInv'
<1> DEFINE x == query[w]
           n == cnt[x.node][x.layer]
           y == [x EXCEPT !.at = "slots", !.len = n]
<1>1. query = [v \in Worker |-> query[v]]
  BY DEF LoadInv, PassInv
<1>2. /\ x.at = "count" /\ query' = [query EXCEPT ![w] = y]
      /\ corpus' = corpus /\ arrays' = arrays /\ next' = next /\ ins' = ins
      /\ kept' = kept /\ stage' = stage
  BY <1>1 DEF ReadCount
<1>3. x \in Walks /\ QueryOK(x) /\ stage # "build"
  BY <1>2, QueryIs
<1>4. x.node \in Node /\ x.layer \in Layer
  BY <1>3 DEF Walks
<1>5. n \in Nat /\ Written(x.node, x.layer, n)
  BY <1>4 DEF LoadInv, SlotsInv
<1>6. /\ y \in Walks /\ y.pos = x.pos /\ y.first = x.first /\ y.at = "slots"
      /\ y.node = x.node /\ y.layer = x.layer /\ y.len = n
      /\ y.read = x.read /\ y.on = x.on
  <2> HIDE DEF x, n
  <2> QED BY <1>3, <1>5 DEF Walks
<1>7. QueryOK(y)
  <2> HIDE DEF y, x, n
  <2> QED BY <1>3, <1>5, <1>6 DEF QueryOK
<1> HIDE DEF y
<1>8. PassInv'
  BY <1>2, <1>6, PassStays DEF LoadInv
<1> QED BY <1>2, <1>3, <1>7, <1>8, SearchStep

\* The slots that are copied are written, so Python takes none from the end.
LEMMA ReadSlotsStep ==
    ASSUME LoadInv, NEW w \in Worker, ReadSlots(w)
    PROVE  LoadInv'
<1> DEFINE x == query[w]
           q == QueryOf(w)
           ids == SubSeq(slots[x.node][x.layer], 1, x.len)
           nb == [j \in DOMAIN ids |-> RowOf(ids[j])]
           z == [x EXCEPT !.read = ids, !.on = x.layer]
           y == IF x.layer > 0 THEN Moved(q, z, nb) ELSE Expanded(q, z, nb)
<1>1. query = [v \in Worker |-> query[v]]
  BY DEF LoadInv, PassInv
<1>2. /\ x.at = "slots" /\ query' = [query EXCEPT ![w] = y]
      /\ corpus' = corpus /\ arrays' = arrays /\ next' = next /\ ins' = ins
      /\ kept' = kept /\ stage' = stage
  BY <1>1 DEF ReadSlots
<1>3. x \in Walks /\ QueryOK(x) /\ stage # "build" /\ q \in [Node -> Int]
  BY <1>2, QueryIs
<1>4. PICK v, l, n : v = x.node /\ l = x.layer /\ n = x.len
  OBVIOUS
<1>5. v \in Node /\ l \in Layer /\ lev[v] >= l /\ Written(v, l, n)
  BY <1>2, <1>3, <1>4 DEF QueryOK, Walks
<1>6. ids \in Seq(Rows(l)) /\ Rows(l) \in SUBSET Node
  BY <1>4, <1>5, SliceIn, OnAreRows DEF LoadInv
<1>7. nb = ids
  <2> HIDE DEF ids
  <2>1. \A j \in DOMAIN ids : ids[j] \in Node
    BY <1>6
  <2>2. \A j \in DOMAIN ids : RowOf(ids[j]) = ids[j]
    BY <2>1, Sizes DEF RowOf
  <2>3. nb = [j \in DOMAIN ids |-> ids[j]]
    BY <2>2
  <2> QED BY <1>6, <2>3
<1>8. ids \in Seq(Node)
  <2> HIDE DEF ids
  <2> QED BY <1>6, SeqIn
<1>9. /\ z \in Opens /\ z.layer = l /\ z.node = v /\ z.pos = x.pos
      /\ z.first = x.first /\ z.read = ids /\ z.on = l
  <2>1. Node \subseteq Int
    BY Sizes
  <2> HIDE DEF x, ids
  <2> QED BY <1>3, <1>4, <1>5, <1>8, <2>1 DEF Walks, Opens
<1>10. QueryOK(y) /\ Same(z, y)
  <2> HIDE DEF z, nb, ids, q
  <2>1. CASE l > 0
    <3>1. QueryOK(Moved(q, z, nb)) /\ Same(z, Moved(q, z, nb))
      BY <1>3, <1>5, <1>6, <1>7, <1>9, <2>1, MovedIn DEF LoadInv
    <3> QED BY <1>4, <2>1, <3>1
  <2>2. CASE ~(l > 0)
    <3>1. l = 0
      BY <1>5, <2>2, Sizes
    <3>2. QueryOK(Expanded(q, z, nb)) /\ Same(z, Expanded(q, z, nb))
      BY <1>6, <1>7, <1>8, <1>9, <3>1, ExpandedIn DEF LoadInv
    <3> QED BY <1>4, <2>2, <3>2
  <2> QED BY <2>1, <2>2
<1> HIDE DEF y, z
<1>11. y.pos = x.pos /\ y.first = x.first /\ y.at # "done"
  BY <1>9, <1>10 DEF Same
<1>12. PassInv'
  BY <1>2, <1>11, PassStays DEF LoadInv
<1> QED BY <1>2, <1>3, <1>10, <1>12, SearchStep

\* Worker 0 keeps the answers of its first pass in the order of the queries.
LEMMA ReturnStep ==
    ASSUME LoadInv, NEW w \in Worker, Return(w)
    PROVE  LoadInv'
<1> DEFINE x == query[w]
           y == PassEnd(x)
           n == Len(Queries)
<1>1. query = [v \in Worker |-> query[v]]
  BY DEF LoadInv, PassInv
<1>2. /\ x.at = "answer" /\ query' = [query EXCEPT ![w] = y]
      /\ kept' = IF x.first THEN kept \cup {x.pos} ELSE kept
      /\ corpus' = corpus /\ arrays' = arrays /\ next' = next /\ ins' = ins
      /\ stage' = stage
  BY <1>1 DEF Return
<1>3. x.pos \in 1 .. n /\ x.first \in BOOLEAN /\ stage # "build" /\ n \in Nat
      /\ DOMAIN Queries = 1 .. n
  BY <1>2, QueryIs, LoadAssumption
<1>4. /\ y \in Idles
      /\ x.pos < n => y.at = "begin" /\ y.pos = x.pos + 1 /\ y.first = x.first
      /\ ~(x.pos < n) => ~y.first
  <2> HIDE DEF x, n
  <2>1. CASE x.pos < n
    <3>1. y = [at |-> "begin", pos |-> x.pos + 1, first |-> x.first]
      BY <2>1 DEF PassEnd, n
    <3>2. x.pos + 1 \in 1 .. n
      BY <1>3, <2>1
    <3> HIDE DEF y
    <3> QED BY <1>3, <2>1, <3>1, <3>2 DEF Idles
  <2>2. CASE ~(x.pos < n)
    <3>1. y = [at |-> IF timed THEN "begin" ELSE "done", pos |-> 1, first |-> FALSE]
      BY <2>2 DEF PassEnd, n
    <3>2. 1 \in 1 .. n
      BY <1>3
    <3> HIDE DEF y
    <3>3. y.at \in {"begin", "done"} /\ y.pos = 1 /\ y.first = FALSE
      BY <3>1
    <3>4. y \in Idles
      BY <1>3, <3>1, <3>2, <3>3 DEF Idles
    <3> QED BY <2>2, <3>3, <3>4
  <2> QED BY <2>1, <2>2
<1> HIDE DEF y
<1>5. QueryOK(y)
  <2>1. y \notin Walks /\ y \notin Answers
    BY <1>4 DEF Idles, Walks, Answers
  <2> QED BY <1>4, <2>1 DEF QueryOK
<1>6. PassInv'
  <2> USE DEF LoadInv
  <2>1. /\ query' = [v \in Worker |-> query'[v]] /\ query'[w] = y
        /\ \A v \in Worker : v # w => query'[v] = query[v]
    BY <1>1, <1>2
  <2>2. 0 \in Worker
    BY LoadAssumption DEF Worker
  <2>3. \A v \in Worker \ {0} : ~query'[v].first
    <3> TAKE v \in Worker \ {0}
    <3>1. CASE v # w
      BY <2>1, <3>1 DEF PassInv
    <3>2. CASE v = w
      <4>1. ~x.first
        BY <3>2 DEF PassInv
      <4> QED BY <1>4, <2>1, <3>2, <4>1
    <3> QED BY <3>1, <3>2
  <2>4. stage' \notin {"tail", "repaired"}
    BY <1>2 DEF PassInv
  <2>5. IF query'[0].first
        THEN kept' = 1 .. query'[0].pos - 1 /\ query'[0].at # "done"
        ELSE kept' = DOMAIN Queries
    <3>1. CASE w # 0
      <4>1. ~x.first
        BY <3>1 DEF PassInv
      <4>2. kept' = kept /\ query'[0] = query[0]
        BY <1>2, <2>1, <2>2, <3>1, <4>1
      <4> QED BY <4>2 DEF PassInv
    <3>2. CASE w = 0 /\ ~x.first
      <4>1. kept = DOMAIN Queries /\ kept' = kept
        BY <1>2, <3>2 DEF PassInv
      <4>2. ~y.first
        BY <1>4, <3>2
      <4> QED BY <2>1, <3>2, <4>1, <4>2
    <3>3. CASE w = 0 /\ x.first
      <4>1. kept = 1 .. x.pos - 1
        BY <3>3 DEF PassInv
      <4>2. kept' = 1 .. x.pos
        BY <1>2, <1>3, <3>3, <4>1
      <4> HIDE DEF x
      <4>3. CASE x.pos < n
        <5>1. y.at = "begin" /\ y.pos = x.pos + 1 /\ y.first = x.first
          BY <1>4, <4>3
        <5>2. y.pos - 1 = x.pos
          BY <1>3, <5>1
        <5>3. y.first
          BY <3>3, <5>1
        <5> QED BY <2>1, <3>3, <4>2, <5>1, <5>2, <5>3
      <4>4. CASE ~(x.pos < n)
        <5>1. kept' = DOMAIN Queries
          BY <1>3, <4>2, <4>4
        <5> QED BY <1>4, <2>1, <3>3, <4>4, <5>1
      <4> QED BY <4>3, <4>4
    <3> QED BY <3>1, <3>2, <3>3
  <2> QED BY <2>1, <2>3, <2>4, <2>5 DEF PassInv
<1> QED BY <1>2, <1>3, <1>5, <1>6, SearchStep

LEMMA StopStep ==
    ASSUME LoadInv, NEW w \in Worker, Stop(w)
    PROVE  LoadInv'
<1> DEFINE x == query[w]
           y == [x EXCEPT !.at = "done"]
<1>1. query = [v \in Worker |-> query[v]]
  BY DEF LoadInv, PassInv
<1>2. /\ stage = "loop" /\ x.at = "begin" /\ ~x.first
      /\ query' = [query EXCEPT ![w] = y] /\ kept' = kept
      /\ corpus' = corpus /\ arrays' = arrays /\ next' = next /\ ins' = ins
      /\ stage' = stage
  BY <1>1 DEF Stop, MustStop
<1>3. x \in Idles
  BY <1>2, QueryIs
<1>4. y \in Idles /\ ~y.first
  <2> HIDE DEF x
  <2> QED BY <1>2, <1>3 DEF Idles
<1> HIDE DEF y
<1>5. QueryOK(y)
  <2>1. y \notin Walks /\ y \notin Answers
    BY <1>4 DEF Idles, Walks, Answers
  <2> QED BY <1>4, <2>1 DEF QueryOK
<1>6. PassInv'
  <2> USE DEF LoadInv
  <2>1. /\ query' = [v \in Worker |-> query'[v]] /\ query'[w] = y
        /\ \A v \in Worker : v # w => query'[v] = query[v]
    BY <1>1, <1>2
  <2>2. 0 \in Worker
    BY LoadAssumption DEF Worker
  <2>3. query'[0].first <=> query[0].first
    BY <1>2, <1>4, <2>1, <2>2
  <2>4. query[0].first => query'[0] = query[0]
    BY <1>2, <2>1, <2>2
  <2>5. \A v \in Worker \ {0} : ~query'[v].first
    BY <1>4, <2>1 DEF PassInv
  <2> QED BY <1>2, <2>1, <2>3, <2>4, <2>5 DEF PassInv
<1> QED BY <1>2, <1>5, <1>6, SearchStep

LEMMA StageStep ==
    ASSUME LoadInv, stage # "build", corpus' = corpus, arrays' = arrays,
           next' = next, ins' = ins, query' = query, kept' = kept,
           \/ stage' = stage
           \/ /\ stage' \in {"tail", "repaired"} /\ ins = None
              /\ \A w \in Worker : query[w].at = "done"
    PROVE  LoadInv'
<1> USE DEF LoadInv
<1>1. slots' = slots /\ cnt' = cnt /\ ept' = ept /\ lev' = lev
  BY DEF arrays, corpus
<1>2. CorpusInv'
  BY <1>1, CorpusStays
<1>3. Keeps
  <2>1. \A l \in Layer : Arrives(l) => Arrives(l)'
    BY DEF Arrives
  <2>2. \A l \in Layer : Rows(l) \subseteq Rows(l)'
    BY <1>1, <2>1, RowsGrow
  <2> QED BY <1>1, <2>2 DEF Keeps
<1>4. BuildInv'
  BY DEF BuildInv
<1>5. SlotsInv'
  BY <1>1, <1>3, SlotsStay
<1>6. InsInv'
  <2>1. CASE ins = None
    BY <2>1, NotInserting
  <2>2. CASE stage' = stage
    <3>1. \A l : RowsOn(l)' = RowsOn(l) /\ Rows(l)' = Rows(l)
      BY <1>1 DEF RowsOn, Rows, Arrives
    <3>2. RowsOn(ins.layer)' = RowsOn(ins.layer)
      BY <1>1 DEF RowsOn
    <3>3. Written(next, ins.layer, Len(ins.todo))' = Written(next, ins.layer, Len(ins.todo))
      BY <1>1, <3>1 DEF Written
    <3>4. Written(Head(ins.todo), ins.layer, ins.len)' = Written(Head(ins.todo), ins.layer, ins.len)
      BY <1>1, <3>1 DEF Written
    <3> QED BY <1>1, <2>2, <3>2, <3>3, <3>4 DEF InsInv
  <2> QED BY <2>1, <2>2
<1>7. QueriesInv'
  BY <1>3, QueriesStay
<1>8. PassInv'
  BY DEF PassInv
<1> QED BY <1>2, <1>4, <1>5, <1>6, <1>7, <1>8

-----------------------------------------------------------------------------
(* The theorems.                                                           *)

LEMMA LoadNext ==
    ASSUME LoadInv, [Next]_vars
    PROVE  LoadInv'
<1>1. CASE BuildRow
  BY <1>1, BuildRowStep
<1>2. CASE Freeze
  BY <1>2, FreezeStep
<1>3. CASE Insert
  BY <1>3, StartRowStep, WriteOwnStep, CountOwnStep, WriteBackStep,
     CountBackStep, NextLayerStep, PublishStep DEF Insert
<1>4. CASE Deadline
  <2>1. /\ stage # "build" /\ corpus' = corpus /\ arrays' = arrays /\ next' = next
        /\ ins' = ins /\ query' = query /\ kept' = kept /\ stage' = stage
    BY <1>4 DEF Deadline
  <2> QED BY <2>1, StageStep
<1>5. CASE Join
  <2>1. /\ stage # "build" /\ corpus' = corpus /\ arrays' = arrays /\ next' = next
        /\ ins' = ins /\ query' = query /\ kept' = kept /\ stage' = "tail"
        /\ ins = None /\ \A w \in Worker : query[w].at = "done"
    BY <1>5 DEF Join, Joined
  <2> QED BY <2>1, StageStep
<1>6. CASE Repair
  <2>1. /\ stage = "tail" /\ corpus' = corpus /\ arrays' = arrays /\ next' = next
        /\ ins' = ins /\ query' = query /\ kept' = kept /\ stage' = "repaired"
        /\ ins = None
    BY <1>6 DEF Repair
  <2>2. \A w \in Worker : query[w].at = "done"
    BY <2>1 DEF LoadInv, PassInv
  <2> QED BY <2>1, <2>2, StageStep
<1>7. ASSUME NEW w \in Worker, Search(w) PROVE LoadInv'
  BY <1>7, BeginStep, ReadCountStep, ReadSlotsStep, ReturnStep, StopStep
     DEF Search
<1>8. CASE Ended \/ UNCHANGED vars
  <2>1. /\ corpus' = corpus /\ grown' = grown /\ arrays' = arrays /\ next' = next
        /\ ins' = ins /\ query' = query /\ kept' = kept /\ stage' = stage
    BY <1>8 DEF Ended, vars
  <2>2. CASE stage # "build"
    BY <2>1, <2>2, StageStep
  <2>3. CASE stage = "build"
    <3>1. slots' = slots /\ cnt' = cnt /\ ept' = ept /\ sc' = sc /\ lev' = lev
      BY <2>1 DEF arrays, corpus
    <3>2. CorpusInv'
      BY <2>1, <3>1, CorpusStays DEF LoadInv
    <3>3. Keeps
      <4>1. \A l \in Layer : Arrives(l) => Arrives(l)'
        BY <2>1 DEF Arrives
      <4>2. \A l \in Layer : Rows(l) \subseteq Rows(l)'
        BY <2>1, <3>1, <4>1, RowsGrow DEF LoadInv
      <4> QED BY <3>1, <4>2 DEF Keeps
    <3>4. \A l \in Layer : RowsOn(l)' = RowsOn(l)
      BY <2>1, <3>1 DEF RowsOn
    <3>5. BuildInv'
      BY <2>1, <3>4 DEF LoadInv, BuildInv
    <3>6. SlotsInv'
      BY <3>1, <3>3, SlotsStay DEF LoadInv
    <3>7. InsInv'
      BY <2>1, <2>3, NotInserting DEF LoadInv, BuildInv
    <3>8. QueriesInv'
      BY <2>1, <3>3, QueriesStay DEF LoadInv
    <3>9. PassInv'
      BY <2>1 DEF LoadInv, PassInv
    <3> QED BY <3>2, <3>5, <3>6, <3>7, <3>8, <3>9 DEF LoadInv
  <2> QED BY <2>2, <2>3
<1> QED BY <1>1, <1>2, <1>3, <1>4, <1>5, <1>6, <1>7, <1>8 DEF Next

THEOREM LoadInvariant == Spec => []LoadInv
<1>1. Init => LoadInv
  BY LoadInit
<1>2. LoadInv /\ [Next]_vars => LoadInv'
  BY LoadNext
<1> QED BY <1>1, <1>2, PTL DEF Spec

\* hnsw.py:47-50.  Whatever the inserter has in the works, a search reads only
\* rows that exist on the layer and whose own list there is written.
THEOREM SearchesReadRows == Spec => []ReadsAreRows
<1>1. LoadInv => ReadsAreRows
  <2> SUFFICES ASSUME LoadInv, NEW w \in Worker,
                      query[w].at \in {"count", "slots", "answer"},
                      NEW e \in ToSet(query[w].read)
               PROVE  /\ e \in 0 .. next /\ lev[e] >= query[w].on
                      /\ \/ e < next \/ ins.layer < query[w].on
                         \/ ins.layer = query[w].on /\ ins.at \in {"edges", "backCount"}
    BY DEF ReadsAreRows
  <2>1. query[w] \in Walks \cup Answers /\ QueryOK(query[w])
    BY QueryIs
  <2>2. PICK l : l = query[w].on
    OBVIOUS
  <2>3. query[w].read \in Seq(Rows(l))
    BY <2>1, <2>2 DEF QueryOK
  <2>4. e \in Rows(l)
    BY <2>3 DEF ToSet
  <2>5. e \in Node /\ next \in Nat /\ Node \subseteq Nat
    BY <2>4, Sizes DEF Rows, LoadInv, CorpusInv
  <2> QED BY <2>2, <2>4, <2>5 DEF Rows, Arrives
<1> QED BY <1>1, LoadInvariant, PTL

\* bench.py: worker 0 alone supplies the answers of the result, and no
\* deadline cuts its first pass short.
THEOREM FirstPassComplete == Spec => []FirstPassKept
<1>1. LoadInv => FirstPassKept
  <2>1. 0 \in Worker
    BY LoadAssumption DEF Worker
  <2> QED BY <2>1 DEF LoadInv, PassInv, FirstPassKept
<1> QED BY <1>1, LoadInvariant, PTL

-----------------------------------------------------------------------------
(* The frozen insertion does what the build does: on the layers that it has  *)
(* left the lists are those of the finished graph, below they are as before, *)
(* and on its layer the back edges that are still to do tell them apart.     *)

Plan == FoundOf(sc, grown, next, lev[next], ept.ep, ept.top)

Picked(l) == Select(sc, sc[next], Plan[LinkTop - l + 1], M, {})

\* The list of v when the insertion has left the layer.
Edged(v, l) ==
    IF v = next THEN Picked(l)
    ELSE IF Contains(Picked(l), v)
         THEN WithBackEdge(sc, grown[v][l], v, next, l)
    ELSE grown[v][l]

GrownInv ==
    /\ grown = [v \in Node |-> [l \in Layer |-> grown[v][l]]]
    /\ \A v \in Node, l \in Layer :
          grown[v][l] \in Seq(RowsOn(l)) /\ Len(grown[v][l]) <= Cap(l)

WholeInv == stage # "build" /\ ins = None =>
    \A v \in Node, l \in Layer : Neighbors(v, l) = grown[v][l]

\* The layers above and below.
LayersInv == ins.at # "none" =>
    /\ ins.layer <= LinkTop
    /\ ins.at = "own" => ins.eps = Plan[LinkTop - ins.layer]
    /\ ins.at # "own" => ins.eps = Plan[LinkTop - ins.layer + 1]
    /\ \A v \in Node, l \in Layer :
         /\ l < ins.layer \/ (l = ins.layer /\ ins.at = "own") =>
               Neighbors(v, l) = grown[v][l]
         /\ l > ins.layer /\ l <= LinkTop => Neighbors(v, l) = Edged(v, l)
         /\ l > LinkTop /\ l > ins.layer => Neighbors(v, l) = grown[v][l]

\* The layer where links are made.
LinksInv ==
    /\ ins.at = "ownCount" =>
         /\ ins.todo = Picked(ins.layer)
         /\ SubSeq(slots[next][ins.layer], 1, Len(ins.todo)) = ins.todo
         /\ \A v \in Node \ {next} : Neighbors(v, ins.layer) = grown[v][ins.layer]
    /\ ins.at \in {"edges", "backCount"} =>
         /\ Distinct(ins.todo)
         /\ \A v \in Node : Contains(ins.todo, v) => Contains(Picked(ins.layer), v)
         /\ \A v \in Node : ~Contains(ins.todo, v) =>
               Neighbors(v, ins.layer) = Edged(v, ins.layer)
         /\ \A v \in Node :
               Contains(ins.todo, v) /\ (ins.at = "edges" \/ v # Head(ins.todo)) =>
                   Neighbors(v, ins.layer) = grown[v][ins.layer]
    /\ ins.at = "backCount" => \A v \in Node : v = Head(ins.todo) =>
          SubSeq(slots[v][ins.layer], 1, ins.len)
            = WithBackEdge(sc, grown[v][ins.layer], v, next, ins.layer)

CopyInv == GrownInv /\ WholeInv /\ LayersInv /\ LinksInv

LEMMA PlanStays ==
    ASSUME corpus' = corpus, grown' = grown, next' = next, ept' = ept
    PROVE  /\ LinkTop' = LinkTop /\ Plan' = Plan
           /\ \A l : Picked(l)' = Picked(l)
           /\ \A v, l : Edged(v, l)' = Edged(v, l)
<1>1. sc' = sc /\ lev' = lev
  BY DEF corpus
<1>2. LinkTop' = LinkTop /\ Plan' = Plan
  BY <1>1 DEF LinkTop, Plan
<1>3. \A l : Picked(l)' = Picked(l)
  BY <1>1, <1>2 DEF Picked
<1>4. \A v, l : Edged(v, l)' = Edged(v, l)
  BY <1>1, <1>3 DEF Edged
<1> QED BY <1>2, <1>3, <1>4

\* The plan is an insertion into the graph of the rows that are in.
LEMMA PlanIs ==
    ASSUME LoadInv, GrownInv, next < N,
           NEW T, T = [l \in Layer |-> RowsOn(l)]
    PROVE  /\ Links(Plan, T, sc, grown, next, lev[next], ept.ep, ept.top, LinkTop)
           /\ LinkTop \in Layer /\ LinkTop <= lev[next] /\ LinkTop <= ept.top
<1>1. next \in Node /\ lev[next] \in Layer /\ ept.top \in Layer
  BY Sizes DEF LoadInv, CorpusInv
<1>2. T \in Levels
  BY LevelsAre DEF LoadInv
<1>3. Holds(grown, T)
  BY DEF GrownInv, Holds
<1>4. sc \in [Node -> [Node -> Int]] /\ ept.ep \in T[ept.top]
  BY <1>1 DEF LoadInv, CorpusInv
<1>5. LinkTop = MinOf(lev[next], ept.top)
  BY DEF LinkTop
<1>6. LinkTop \in Layer /\ LinkTop <= lev[next] /\ LinkTop <= ept.top
  BY <1>1, <1>5, Sizes DEF MinOf
<1>7. Plan = FoundOf(sc, grown, next, lev[next], ept.ep, ept.top)
  BY DEF Plan
<1> QED BY <1>1, <1>2, <1>3, <1>4, <1>5, <1>6, <1>7 DEF Links

\* The neighbors the row gets on a layer.
LEMMA PickedIn ==
    ASSUME LoadInv, GrownInv, next < N, NEW l \in Layer, l <= LinkTop
    PROVE  /\ Picked(l) \in Seq(RowsOn(l)) /\ Len(Picked(l)) <= Cap(l)
           /\ Distinct(Picked(l))
<1>1. PICK T : T = [k \in Layer |-> RowsOn(k)]
  OBVIOUS
<1>2. PICK n, f : n = LinkTop /\ f = Plan
  OBVIOUS
<1>3. /\ Links(f, T, sc, grown, next, lev[next], ept.ep, ept.top, n)
      /\ n \in Layer
  BY <1>1, <1>2, PlanIs
<1>4. l \in 0 .. n /\ T[l] = RowsOn(l) /\ l \in Nat
  BY <1>1, <1>2, <1>3, Sizes
<1> DEFINE s == f[n - l + 1]
           q == sc[next]
<1>5. s \in SUBSET RowsOn(l)
  BY <1>3, <1>4, FoundIn
<1>6. next \in Node
  BY Sizes DEF LoadInv, CorpusInv
<1>7. s \in SUBSET Node /\ q \in [Node -> Int] /\ M \in Nat /\ Cap(l) \in Nat
      /\ Cap(l) >= M
  BY <1>5, <1>6, Sizes DEF RowsOn, LoadInv, CorpusInv
<1>8. Picked(l) = Select(sc, q, s, M, {})
  BY <1>2 DEF Picked
<1> HIDE DEF s, q
<1>9. Picked(l) \in Seq(s) /\ Len(Picked(l)) <= M /\ Distinct(Picked(l))
  BY <1>7, <1>8, SelectIn
<1>10. Picked(l) \in Seq(RowsOn(l))
  BY <1>5, <1>9, SeqIn
<1>11. Len(Picked(l)) \in Nat
  BY <1>9
<1> QED BY <1>7, <1>9, <1>10, <1>11

\* The graph after the insertion.
LEMMA GrownIs ==
    ASSUME LoadInv, next < N, Grow, NEW v \in Node, NEW l \in Layer
    PROVE  grown'[v][l] = IF l > LinkTop THEN grown[v][l] ELSE Edged(v, l)
<1>1. next \in Node /\ lev[next] \in Layer /\ ept.top \in Layer
  BY Sizes DEF LoadInv, CorpusInv
<1>2. PICK x, lvl, ep, top, n, f :
         /\ x = next /\ lvl = lev[next] /\ ep = ept.ep /\ top = ept.top
         /\ n = LinkTop /\ f = Plan
  OBVIOUS
<1>3. n = MinOf(lvl, top) /\ f = FoundOf(sc, grown, x, lvl, ep, top)
  BY <1>2 DEF LinkTop, Plan
<1> DEFINE best == Select(sc, sc[x], f[n - l + 1], M, {})
<1>4. Linked(sc, grown, x, lvl, ep, top)[v][l] =
        IF l > n THEN grown[v][l]
        ELSE IF v = x THEN best
        ELSE IF Contains(best, v) THEN WithBackEdge(sc, grown[v][l], v, x, l)
        ELSE grown[v][l]
  <2>1. PICK t, g : t = sc /\ g = grown
    OBVIOUS
  <2>2. lvl \in Layer /\ top \in Layer
    BY <1>1, <1>2
  <2>3. n = MinOf(lvl, top) /\ f = FoundOf(t, g, x, lvl, ep, top)
    BY <1>3, <2>1
  <2>4. Linked(t, g, x, lvl, ep, top)[v][l] = LinkedAt(t, g, x, n, f, v, l)
    BY <2>2, <2>3, LinkedIs
  <2> QED BY <2>1, <2>4 DEF LinkedAt
<1>5. best = Picked(l)
  BY <1>2 DEF Picked
<1>6. grown' = Linked(sc, grown, x, lvl, ep, top)
  BY <1>2 DEF Grow
<1> HIDE DEF best
<1>7. Edged(v, l) = IF v = x THEN best
        ELSE IF Contains(best, v) THEN WithBackEdge(sc, grown[v][l], v, x, l)
        ELSE grown[v][l]
  BY <1>2, <1>5 DEF Edged
<1> QED BY <1>2, <1>4, <1>6, <1>7

LEMMA GrownStep ==
    ASSUME LoadInv, GrownInv, next < N, Grow, corpus' = corpus, next' = next + 1
    PROVE  GrownInv'
<1>1. PICK T : T = [l \in Layer |-> RowsOn(l)]
  OBVIOUS
<1>2. T \in Levels /\ \A l \in Layer : T[l] = RowsOn(l)
  BY <1>1, LevelsAre DEF LoadInv
<1>3. \A v \in Node, l \in Layer :
         (grown[v][l] \in Seq(RowsOn(l)) /\ Len(grown[v][l]) <= Cap(l))'
  BY <1>2, GrowIn DEF LoadInv, GrownInv
<1>4. grown' = [v \in Node |-> [l \in Layer |-> grown'[v][l]]]
  <2> DEFINE n == MinOf(lev[next], ept.top)
             f == FoundOf(sc, grown, next, lev[next], ept.ep, ept.top)
             best == [j \in 0 .. n |-> Select(sc, sc[next], f[n - j + 1], M, {})]
             one(v, l) == IF l > n THEN grown[v][l]
                          ELSE IF v = next THEN best[l]
                          ELSE IF Contains(best[l], v)
                               THEN WithBackEdge(sc, grown[v][l], v, next, l)
                          ELSE grown[v][l]
  <2>1. grown' = [v \in Node |-> [l \in Layer |-> one(v, l)]]
    BY DEF Grow, Linked, FoundOf
  <2> HIDE DEF one
  <2>2. \A v \in Node, l \in Layer : grown'[v][l] = one(v, l)
    BY <2>1
  <2> QED BY <2>1, <2>2
<1> QED BY <1>3, <1>4 DEF GrownInv


\* A list without its first row.
LEMMA TailIs ==
    ASSUME NEW A, NEW s \in Seq(A), s # << >>, Distinct(s)
    PROVE  /\ Tail(s) \in Seq(A) /\ Distinct(Tail(s)) /\ Contains(s, Head(s))
           /\ \A v : Contains(Tail(s), v) <=> Contains(s, v) /\ v # Head(s)
<1> DEFINE t == Tail(s)
<1>1. /\ t \in Seq(A) /\ Len(s) \in Nat /\ Len(s) >= 1 /\ Len(t) = Len(s) - 1
      /\ \A j \in 1 .. Len(t) : t[j] = s[j + 1]
      /\ Head(s) = s[1]
  OBVIOUS
<1>2. \A i, j \in 1 .. Len(s) : s[i] = s[j] => i = j
  BY DEF Distinct
<1> HIDE DEF t
<1>3. Len(t) \in Nat /\ \A j \in 1 .. Len(t) : j + 1 \in 1 .. Len(s) /\ j + 1 # 1
  BY <1>1
<1>4. Distinct(t)
  <2> SUFFICES ASSUME NEW i \in 1 .. Len(t), NEW j \in 1 .. Len(t), t[i] = t[j]
               PROVE  i = j
    BY DEF Distinct
  <2>1. s[i + 1] = s[j + 1]
    BY <1>1
  <2>2. i + 1 = j + 1
    BY <1>2, <1>3, <2>1
  <2> QED BY <2>2, <1>3
<1>5. 1 \in 1 .. Len(s)
  BY <1>1
<1>6. Contains(s, Head(s))
  BY <1>1, <1>5 DEF Contains
<1>7. ASSUME NEW v PROVE Contains(t, v) <=> Contains(s, v) /\ v # Head(s)
  <2>1. ASSUME Contains(t, v) PROVE Contains(s, v) /\ v # Head(s)
    <3>1. PICK j \in 1 .. Len(t) : t[j] = v
      BY <2>1 DEF Contains
    <3>2. s[j + 1] = v /\ j + 1 \in 1 .. Len(s) /\ j + 1 # 1
      BY <1>1, <1>3, <3>1
    <3>3. s[1] # v
      BY <1>2, <1>5, <3>2
    <3> QED BY <1>1, <3>2, <3>3 DEF Contains
  <2>2. ASSUME Contains(s, v), v # Head(s) PROVE Contains(t, v)
    <3>1. PICK i \in 1 .. Len(s) : s[i] = v
      BY <2>2 DEF Contains
    <3>2. i # 1
      BY <1>1, <2>2, <3>1
    <3>3. i - 1 \in 1 .. Len(t) /\ (i - 1) + 1 = i
      BY <1>1, <3>1, <3>2
    <3>4. t[i - 1] = v
      BY <1>1, <3>1, <3>3
    <3> QED BY <3>3, <3>4 DEF Contains
  <2> QED BY <2>1, <2>2
<1> QED BY <1>1, <1>3, <1>4, <1>6, <1>7 DEF t

\* The slots hold the list that was written; no other list changes.
LEMMA OverwriteIs ==
    ASSUME SlotsInv, NEW v \in Node, NEW l \in Layer, NEW ids \in Seq(Rows(l)),
           Len(ids) <= Cap(l), Overwrite(v, l, ids)
    PROVE  /\ SubSeq(slots'[v][l], 1, Len(ids)) = ids
           /\ \A u \in Node, k \in Layer : u # v \/ k # l =>
                  slots'[u][k] = slots[u][k]
<1> DEFINE new == [j \in 1 .. Cap(l) |->
                      IF j <= Len(ids) THEN ids[j] ELSE slots[v][l][j]]
<1>1. /\ slots \in [Node -> [Layer -> Seq(Int)]] /\ slots[v][l] \in Seq(Int)
      /\ Len(slots[v][l]) = Cap(l) /\ Cap(l) \in Nat
  <2>1. slots \in [Node -> [Layer -> Seq(Int)]] /\ Len(slots[v][l]) = Cap(l)
    BY DEF SlotsInv
  <2>2. slots[v][l] \in Seq(Int)
    BY <2>1
  <2>3. Cap(l) \in Nat
    BY Sizes
  <2> QED BY <2>1, <2>2, <2>3
<1>2. DOMAIN slots[v][l] = 1 .. Cap(l)
  BY <1>1
<1>3. slots' = [slots EXCEPT ![v] = [slots[v] EXCEPT ![l] = new]]
  BY <1>2 DEF Overwrite
<1>4. ids \in Seq(Int) /\ Len(ids) \in Nat
  <2>1. Rows(l) \subseteq Int
    BY Sizes DEF Rows
  <2>2. ids \in Seq(Int)
    BY <2>1, SeqIn
  <2> QED BY <2>2
<1>5. \A j \in 1 .. Cap(l) : new[j] \in Int
  <2> TAKE j \in 1 .. Cap(l)
  <2>1. CASE j <= Len(ids)
    BY <1>1, <1>4, <2>1
  <2>2. CASE ~(j <= Len(ids))
    BY <1>1, <2>2
  <2> QED BY <2>1, <2>2
<1>6. /\ new \in Seq(Int) /\ Len(new) = Cap(l)
      /\ \A j \in 1 .. Len(ids) : j \in 1 .. Cap(l) /\ new[j] = ids[j]
  BY <1>1, <1>4, <1>5
<1> HIDE DEF new
<1>7. SubSeq(new, 1, Len(ids)) = ids
  <2> DEFINE s == SubSeq(new, 1, Len(ids))
  <2>1. s \in Seq(Int) /\ Len(s) = Len(ids)
    BY <1>1, <1>4, <1>6
  <2>2. \A j \in 1 .. Len(ids) : s[j] = ids[j]
    BY <1>1, <1>4, <1>6
  <2> HIDE DEF s
  <2>3. s = ids
    BY <1>4, <2>1, <2>2
  <2> QED BY <2>3 DEF s
<1>8. /\ slots'[v][l] = new
      /\ \A u \in Node, k \in Layer : u # v \/ k # l => slots'[u][k] = slots[u][k]
  BY <1>1, <1>3
<1> QED BY <1>7, <1>8

\* The lists of the other layers, told in the state before.
LEMMA LayersAre ==
    ASSUME corpus' = corpus, grown' = grown, next' = next, ept' = ept,
           NEW a, NEW k, NEW s, ins'.at = a, ins'.layer = k, ins'.eps = s,
           k <= LinkTop,
           s = IF a = "own" THEN Plan[LinkTop - k] ELSE Plan[LinkTop - k + 1],
           \A v \in Node, l \in Layer :
              /\ l < k \/ (l = k /\ a = "own") => Neighbors(v, l)' = grown[v][l]
              /\ l > k /\ l <= LinkTop => Neighbors(v, l)' = Edged(v, l)
              /\ l > LinkTop /\ l > k => Neighbors(v, l)' = grown[v][l]
    PROVE  LayersInv'
<1>1. LinkTop' = LinkTop /\ Plan' = Plan /\ \A v, l : Edged(v, l)' = Edged(v, l)
  BY PlanStays
<1> QED BY <1>1 DEF LayersInv

\* A step of the insertion.
LEMMA InsertCopies ==
    ASSUME CopyInv, corpus' = corpus, grown' = grown, next' = next,
           ins'.at # "none", LayersInv', LinksInv'
    PROVE  CopyInv'
<1>1. \A l \in Layer : RowsOn(l)' = RowsOn(l)
  <2>1. lev' = lev
    BY DEF corpus
  <2> QED BY <2>1 DEF RowsOn
<1>2. GrownInv'
  BY <1>1 DEF CopyInv, GrownInv
<1>3. ins' # None
  BY DEF None
<1>4. WholeInv'
  BY <1>3 DEF WholeInv
<1> QED BY <1>2, <1>4 DEF CopyInv

\* Slots and count of a list are as before.
LEMMA ListStays ==
    ASSUME NEW v \in Node, NEW l \in Layer, slots'[v][l] = slots[v][l],
           cnt'[v][l] = cnt[v][l]
    PROVE  Neighbors(v, l)' = Neighbors(v, l)
BY DEF Neighbors

\* Before the insertion the arrays hold the graph.
LEMMA ListsAreGrown ==
    ASSUME GrownInv, WholeInv, stage # "build", ins = None
    PROVE  Lists = grown
<1>1. \A v \in Node, l \in Layer : Neighbors(v, l) = grown[v][l]
  BY DEF WholeInv
<1>2. Lists = [v \in Node |-> [l \in Layer |-> grown[v][l]]]
  BY <1>1 DEF Lists
<1> QED BY <1>2 DEF GrownInv

LEMMA StartRowCopies ==
    ASSUME LoadInv, CopyInv, StartRow
    PROVE  CopyInv'
<1> DEFINE ep == Descend(Lists, sc[next], ept.ep, ept.top, LinkTop)
<1>1. /\ ins = None /\ next < N /\ stage \in {"loop", "tail"}
      /\ ins' = [at |-> "own", layer |-> LinkTop, eps |-> {ep}]
      /\ corpus' = corpus /\ grown' = grown /\ ept' = ept /\ next' = next
      /\ slots' = slots /\ cnt' = cnt
  BY DEF StartRow, arrays
<1>2. Lists = grown
  BY <1>1, ListsAreGrown DEF CopyInv
<1>3. PICK k, s : k = LinkTop /\ s = {ep}
  OBVIOUS
<1>4. k \in Layer /\ s = Plan[0]
  <2>1. PICK T : T = [l \in Layer |-> RowsOn(l)]
    OBVIOUS
  <2>2. PICK f : f = Plan
    OBVIOUS
  <2>3. Links(f, T, sc, grown, next, lev[next], ept.ep, ept.top, k) /\ k \in Layer
    BY <1>1, <1>3, <2>1, <2>2, PlanIs DEF CopyInv
  <2>4. Descends(f, sc, grown, next, k, ept.ep, ept.top)
    BY <2>3, FoundIs
  <2>5. f[0] = {Descend(grown, sc[next], ept.ep, ept.top, k)}
    BY <2>4 DEF Descends
  <2> QED BY <1>2, <1>3, <2>2, <2>3, <2>5
<1> HIDE DEF ep
<1>5. ins' = [at |-> "own", layer |-> k, eps |-> s]
  BY <1>1, <1>3
<1>6. k \in Nat /\ LinkTop - k = 0 /\ k <= LinkTop
  BY <1>3, <1>4, Sizes
<1>7. \A v \in Node, l \in Layer : Neighbors(v, l)' = grown[v][l]
  <2> TAKE v \in Node, l \in Layer
  <2>1. Neighbors(v, l)' = Neighbors(v, l)
    BY <1>1, ListStays
  <2>2. Neighbors(v, l) = grown[v][l]
    BY <1>1 DEF CopyInv, WholeInv
  <2> QED BY <2>1, <2>2
<1>8. \A l \in Layer : ~(l > k /\ l <= LinkTop)
  BY <1>3, <1>4, Sizes
<1>9. LayersInv'
  BY <1>1, <1>4, <1>5, <1>6, <1>7, <1>8, LayersAre
<1>10. LinksInv'
  BY <1>5 DEF LinksInv
<1> QED BY <1>1, <1>5, <1>9, <1>10, InsertCopies

\* What the invariant says of a layer, with the place of the insertion named.
LEMMA CopyIs ==
    ASSUME LoadInv, CopyInv, ins.at # "none"
    PROVE  /\ ins.layer \in Layer /\ ins.layer <= LinkTop /\ LinkTop \in Layer
           /\ next \in Node /\ next < N /\ stage # "build"
           /\ LinkTop - ins.layer \in Nat
           /\ ins.at = "own" => ins.eps = Plan[LinkTop - ins.layer]
           /\ ins.at # "own" => ins.eps = Plan[LinkTop - ins.layer + 1]
           /\ \A v \in Node, l \in Layer :
                /\ l < ins.layer \/ (l = ins.layer /\ ins.at = "own") =>
                      Neighbors(v, l) = grown[v][l]
                /\ l > ins.layer /\ l <= LinkTop => Neighbors(v, l) = Edged(v, l)
                /\ l > LinkTop /\ l > ins.layer => Neighbors(v, l) = grown[v][l]
<1>1. /\ next \in Node /\ next < N /\ stage # "build" /\ ins.layer \in Layer
  BY Inserting
<1>2. LinkTop \in Layer
  BY <1>1, PlanIs DEF CopyInv
<1>3. ins.layer <= LinkTop
  BY DEF CopyInv, LayersInv
<1>4. LinkTop - ins.layer \in Nat
  BY <1>1, <1>2, <1>3, Sizes
<1> QED BY <1>1, <1>2, <1>3, <1>4 DEF CopyInv, LayersInv

LEMMA WriteOwnCopies ==
    ASSUME LoadInv, CopyInv, WriteOwn
    PROVE  CopyInv'
<1> DEFINE q == sc[next]
           nbr == [v \in Node |-> Neighbors(v, ins.layer)]
           all == SearchLayer(nbr, q, Node, ins.eps, EfC)
           best == Select(sc, q, all, M, {})
<1>1. /\ ins.at = "own" /\ Overwrite(next, ins.layer, best)
      /\ ins' = [at |-> "ownCount", layer |-> ins.layer, eps |-> all, todo |-> best]
      /\ corpus' = corpus /\ grown' = grown /\ ept' = ept /\ next' = next
      /\ cnt' = cnt
  BY DEF WriteOwn
<1>2. PICK x, l, n : x = next /\ l = ins.layer /\ n = LinkTop
  OBVIOUS
<1>3. /\ l \in Layer /\ l <= n /\ n \in Layer /\ x \in Node /\ next < N
      /\ n - l \in Nat /\ ins.eps = Plan[n - l]
      /\ \A v \in Node, k \in Layer :
           /\ k <= l => Neighbors(v, k) = grown[v][k]
           /\ k > l /\ k <= n => Neighbors(v, k) = Edged(v, k)
           /\ k > n /\ k > l => Neighbors(v, k) = grown[v][k]
  <2>1. \A k \in Layer : k \in Nat
    BY Sizes
  <2> QED BY <1>1, <1>2, <2>1, CopyIs
<1>4. all = Plan[n - l + 1]
  <2>1. PICK T : T = [k \in Layer |-> RowsOn(k)]
    OBVIOUS
  <2>2. PICK f : f = Plan
    OBVIOUS
  <2>3. Links(f, T, sc, grown, next, lev[next], ept.ep, ept.top, n)
    BY <1>2, <1>3, <2>1, <2>2, PlanIs DEF CopyInv
  <2>4. Descends(f, sc, grown, next, n, ept.ep, ept.top)
    BY <2>3, FoundIs
  <2>5. /\ n - l + 1 \in 1 .. n + 1 /\ n - (n - l + 1) + 1 = l
        /\ (n - l + 1) - 1 = n - l
    <3>1. n \in Nat /\ l \in Nat /\ l <= n
      BY <1>3, Sizes
    <3> QED BY <3>1
  <2>6. f[n - l + 1] = SearchLayer([v \in Node |-> grown[v][l]], sc[next], Node,
                                   f[n - l], EfC)
    <3>1. f[n - l + 1] = SearchLayer([v \in Node |-> grown[v][n - (n - l + 1) + 1]],
                                     sc[next], Node, f[(n - l + 1) - 1], EfC)
      BY <2>4, <2>5 DEF Descends
    <3> QED BY <2>5, <3>1
  <2>7. nbr = [v \in Node |-> grown[v][l]]
    <3>1. \A v \in Node : Neighbors(v, ins.layer) = grown[v][l]
      BY <1>2, <1>3, Sizes
    <3> QED BY <3>1
  <2> HIDE DEF nbr
  <2> QED BY <1>3, <2>2, <2>6, <2>7
<1>5. best = Picked(l)
  <2> HIDE DEF all
  <2> QED BY <1>2, <1>4 DEF Picked
<1> HIDE DEF best, all
<1>6. PICK s, b : s = all /\ b = best
  OBVIOUS
<1>7. b \in Seq(RowsOn(l)) /\ Len(b) <= Cap(l)
  BY <1>2, <1>3, <1>5, <1>6, PickedIn DEF CopyInv
<1>8. b \in Seq(Rows(l))
  BY <1>3, <1>7, OnAreRows, SeqIn
<1>9. /\ SubSeq(slots'[x][l], 1, Len(b)) = b
      /\ \A u \in Node, k \in Layer : u # x \/ k # l => slots'[u][k] = slots[u][k]
  <2>1. Overwrite(x, l, b)
    BY <1>1, <1>2, <1>6
  <2> QED BY <1>3, <1>7, <1>8, <2>1, OverwriteIs DEF LoadInv
<1>10. \A v \in Node, k \in Layer : v # x \/ k # l =>
          Neighbors(v, k)' = Neighbors(v, k)
  BY <1>1, <1>9, ListStays
<1>11. ins' = [at |-> "ownCount", layer |-> l, eps |-> s, todo |-> b]
  BY <1>1, <1>2, <1>6
<1>12. LayersInv'
  <2>1. s = Plan[LinkTop - l + 1] /\ l <= LinkTop
    BY <1>2, <1>3, <1>4, <1>6
  <2>2. \A v \in Node, k \in Layer :
           /\ k < l => Neighbors(v, k)' = grown[v][k]
           /\ k > l /\ k <= LinkTop => Neighbors(v, k)' = Edged(v, k)
           /\ k > LinkTop /\ k > l => Neighbors(v, k)' = grown[v][k]
    <3> TAKE v \in Node, k \in Layer
    <3>1. k \in Nat /\ l \in Nat
      BY <1>3, Sizes
    <3> QED BY <1>2, <1>3, <1>10, <3>1
  <2> QED BY <1>1, <1>11, <2>1, <2>2, LayersAre
<1>13. LinksInv'
  <2>1. \A k : Picked(k)' = Picked(k)
    BY <1>1, PlanStays
  <2>2. b = Picked(l)' /\ x = next'
    BY <1>1, <1>2, <1>5, <1>6, <2>1
  <2>3. \A v \in Node \ {x} : Neighbors(v, l)' = grown'[v][l]
    <3> TAKE v \in Node \ {x}
    <3>1. Neighbors(v, l) = grown[v][l]
      BY <1>3, Sizes
    <3> QED BY <1>1, <1>3, <1>10, <3>1
  <2> QED BY <1>9, <1>11, <2>2, <2>3 DEF LinksInv
<1> QED BY <1>1, <1>11, <1>12, <1>13, InsertCopies

\* The links of a layer, told in the state before, while back edges are made.
LEMMA LinksAre ==
    ASSUME corpus' = corpus, grown' = grown, next' = next, ept' = ept,
           NEW k, NEW b, ins'.at = "edges", ins'.layer = k, ins'.todo = b,
           Distinct(b), \A v \in Node : Contains(b, v) => Contains(Picked(k), v),
           \A v \in Node : Neighbors(v, k)' =
               IF Contains(b, v) THEN grown[v][k] ELSE Edged(v, k)
    PROVE  LinksInv'
<1>1. \A l : Picked(l)' = Picked(l)
  BY PlanStays
<1>2. \A v, l : Edged(v, l)' = Edged(v, l)
  BY PlanStays
<1>3. \A v \in Node : Contains(b, v) => Contains(Picked(k)', v)
  BY <1>1
<1>4. \A v \in Node : ~Contains(b, v) => Neighbors(v, k)' = Edged(v, k)'
  BY <1>2
<1>5. \A v \in Node : Contains(b, v) => Neighbors(v, k)' = grown'[v][k]
  OBVIOUS
<1> QED BY <1>3, <1>4, <1>5 DEF LinksInv

LEMMA CountOwnCopies ==
    ASSUME LoadInv, CopyInv, CountOwn
    PROVE  CopyInv'
<1>1. /\ ins.at = "ownCount" /\ Count(next, ins.layer, Len(ins.todo))
      /\ ins' = [ins EXCEPT !.at = "edges"]
      /\ corpus' = corpus /\ grown' = grown /\ ept' = ept /\ next' = next
      /\ slots' = slots
  BY DEF CountOwn
<1>2. PICK x, l, s, b, n :
         x = next /\ l = ins.layer /\ s = ins.eps /\ b = ins.todo /\ n = LinkTop
  OBVIOUS
<1>3. /\ l \in Layer /\ l <= n /\ n \in Layer /\ x \in Node /\ next < N
      /\ s = Plan[n - l + 1]
      /\ \A v \in Node, k \in Layer :
           /\ k < l => Neighbors(v, k) = grown[v][k]
           /\ k > l /\ k <= n => Neighbors(v, k) = Edged(v, k)
           /\ k > n /\ k > l => Neighbors(v, k) = grown[v][k]
  BY <1>1, <1>2, CopyIs
<1>4. ins = [at |-> "ownCount", layer |-> l, eps |-> s, todo |-> b]
  BY <1>1, <1>2 DEF LoadInv, InsInv
<1>5. ins' = [at |-> "edges", layer |-> l, eps |-> s, todo |-> b]
  BY <1>1, <1>4
<1>6. /\ b = Picked(l) /\ SubSeq(slots[x][l], 1, Len(b)) = b
      /\ \A v \in Node \ {x} : Neighbors(v, l) = grown[v][l]
  BY <1>1, <1>2 DEF CopyInv, LinksInv
<1>7. b \in Seq(RowsOn(l)) /\ Len(b) \in Nat /\ Distinct(b)
  BY <1>2, <1>3, <1>6, PickedIn DEF CopyInv
<1>8. /\ cnt'[x][l] = Len(b)
      /\ \A v \in Node, k \in Layer : v # x \/ k # l => cnt'[v][k] = cnt[v][k]
  <2>1. cnt \in [Node -> [Layer -> Nat]]
    BY DEF LoadInv, SlotsInv
  <2> QED BY <1>1, <1>2, <1>3, <2>1 DEF Count
<1>9. Neighbors(x, l)' = b
  BY <1>1, <1>6, <1>8 DEF Neighbors
<1>10. \A v \in Node, k \in Layer : v # x \/ k # l =>
          Neighbors(v, k)' = Neighbors(v, k)
  BY <1>1, <1>8, ListStays
<1>11. LayersInv'
  <2>1. s = Plan[LinkTop - l + 1] /\ l <= LinkTop
    BY <1>2, <1>3
  <2>2. \A v \in Node, k \in Layer :
           /\ k < l => Neighbors(v, k)' = grown[v][k]
           /\ k > l /\ k <= LinkTop => Neighbors(v, k)' = Edged(v, k)
           /\ k > LinkTop /\ k > l => Neighbors(v, k)' = grown[v][k]
    <3> TAKE v \in Node, k \in Layer
    <3>1. k \in Nat /\ l \in Nat
      BY <1>3, Sizes
    <3> QED BY <1>2, <1>3, <1>10, <3>1
  <2> QED BY <1>1, <1>5, <2>1, <2>2, LayersAre
<1>12. \A v \in Node : Contains(b, v) => Contains(Picked(l), v)
  BY <1>6
<1>13. ~Contains(b, x)
  <2>1. x \notin RowsOn(l)
    BY <1>2, <1>3, Sizes DEF RowsOn
  <2>2. \A j \in 1 .. Len(b) : b[j] # x
    BY <1>7, <2>1
  <2> QED BY <2>2 DEF Contains
<1>14. ASSUME NEW v \in Node
       PROVE  Neighbors(v, l)' = IF Contains(b, v) THEN grown[v][l] ELSE Edged(v, l)
  <2>1. CASE v = x
    BY <1>2, <1>6, <1>9, <1>13, <2>1 DEF Edged
  <2>2. CASE v # x
    BY <1>2, <1>3, <1>6, <1>10, <2>2 DEF Edged
  <2> QED BY <2>1, <2>2
<1>15. LinksInv'
  BY <1>1, <1>5, <1>6, <1>7, <1>12, <1>14, LinksAre
<1> QED BY <1>1, <1>5, <1>11, <1>15, InsertCopies

LEMMA WriteBackCopies ==
    ASSUME LoadInv, CopyInv, WriteBack
    PROVE  CopyInv'
<1> DEFINE nb == Neighbors(Head(ins.todo), ins.layer)
           new == WithBackEdge(sc, nb, Head(ins.todo), next, ins.layer)
<1>1. /\ ins.at = "edges" /\ ins.todo # << >>
      /\ corpus' = corpus /\ grown' = grown /\ ept' = ept /\ next' = next
      /\ cnt' = cnt
      /\ Contains(nb, next)
         \/ /\ Overwrite(Head(ins.todo), ins.layer, new)
            /\ ins' = [at |-> "backCount", layer |-> ins.layer, eps |-> ins.eps,
                       todo |-> ins.todo, len |-> Len(new)]
  BY DEF WriteBack
<1>2. PICK x, l, s, b, n, e :
         /\ x = next /\ l = ins.layer /\ s = ins.eps /\ b = ins.todo /\ n = LinkTop
         /\ e = Head(b)
  OBVIOUS
<1>3. /\ l \in Layer /\ l <= n /\ n \in Layer /\ x \in Node /\ next < N
      /\ s = Plan[n - l + 1]
      /\ \A v \in Node, k \in Layer :
           /\ k < l => Neighbors(v, k) = grown[v][k]
           /\ k > l /\ k <= n => Neighbors(v, k) = Edged(v, k)
           /\ k > n /\ k > l => Neighbors(v, k) = grown[v][k]
  BY <1>1, <1>2, CopyIs
<1>4. b \in Seq(RowsOn(l)) /\ b # << >>
  BY <1>1, <1>2 DEF LoadInv, InsInv
<1>5. /\ Distinct(b) /\ \A v \in Node : Contains(b, v) => Contains(Picked(l), v)
      /\ \A v \in Node :
           /\ ~Contains(b, v) => Neighbors(v, l) = Edged(v, l)
           /\ Contains(b, v) => Neighbors(v, l) = grown[v][l]
  BY <1>1, <1>2 DEF CopyInv, LinksInv
<1>6. e \in RowsOn(l) /\ e \in Node /\ Contains(b, e)
  <2>1. e \in RowsOn(l)
    BY <1>2, <1>4
  <2> QED BY <1>2, <1>4, <1>5, <2>1, TailIs DEF RowsOn
<1>7. nb = grown[e][l]
  BY <1>2, <1>5, <1>6
<1>8. PICK ids : ids = WithBackEdge(sc, grown[e][l], e, x, l)
  OBVIOUS
<1>9. new = ids
  <2> HIDE DEF nb
  <2> QED BY <1>2, <1>7, <1>8
<1>10. ~Contains(nb, next)
  <2>1. grown[e][l] \in Seq(RowsOn(l))
    BY <1>3, <1>6 DEF CopyInv, GrownInv
  <2>2. x \notin RowsOn(l)
    BY <1>2, <1>3, Sizes DEF RowsOn
  <2>3. PICK g : g = grown[e][l]
    OBVIOUS
  <2>4. g \in Seq(RowsOn(l)) /\ nb = g /\ x = next
    BY <1>2, <1>7, <2>1, <2>3
  <2> HIDE DEF nb
  <2>5. \A j \in 1 .. Len(g) : g[j] # x
    BY <2>2, <2>4
  <2> QED BY <2>4, <2>5 DEF Contains
<1> HIDE DEF nb, new
<1>11. /\ Overwrite(e, l, ids)
       /\ ins' = [at |-> "backCount", layer |-> l, eps |-> s, todo |-> b,
                  len |-> Len(ids)]
  BY <1>1, <1>2, <1>9, <1>10
<1>12. ids \in Seq(Rows(l)) /\ Len(ids) <= Cap(l)
  <2>1. x \in Rows(l) /\ Rows(l) \in SUBSET Node
    <3>1. Arrives(l)
      BY <1>1, <1>2, <1>3, Sizes DEF Arrives
    <3>2. l <= lev[x]
      BY <1>1, <1>2, Inserting
    <3>3. lev[x] \in Layer
      BY <1>3 DEF LoadInv, CorpusInv
    <3> QED BY <1>2, <1>3, <3>1, <3>2, <3>3, Sizes DEF Rows
  <2>2. PICK g : g = grown[e][l]
    OBVIOUS
  <2>3. g \in Seq(RowsOn(l)) /\ Len(g) <= Cap(l)
    BY <1>3, <1>6, <2>2 DEF CopyInv, GrownInv
  <2>4. g \in Seq(Rows(l))
    BY <1>3, <2>3, OnAreRows, SeqIn
  <2>5. sc[e] \in [Node -> Int]
    BY <1>6 DEF LoadInv, CorpusInv
  <2>6. ids = WithBackEdge(sc, g, e, x, l)
    BY <1>8, <2>2
  <2> QED BY <1>3, <2>1, <2>3, <2>4, <2>5, <2>6, BackEdgeIn
<1>13. /\ SubSeq(slots'[e][l], 1, Len(ids)) = ids
       /\ \A u \in Node, k \in Layer : u # e \/ k # l => slots'[u][k] = slots[u][k]
  BY <1>3, <1>6, <1>11, <1>12, OverwriteIs DEF LoadInv
<1>14. \A v \in Node, k \in Layer : v # e \/ k # l =>
          Neighbors(v, k)' = Neighbors(v, k)
  BY <1>1, <1>13, ListStays
<1>15. LayersInv'
  <2>1. s = Plan[LinkTop - l + 1] /\ l <= LinkTop
    BY <1>2, <1>3
  <2>2. \A v \in Node, k \in Layer :
           /\ k < l => Neighbors(v, k)' = grown[v][k]
           /\ k > l /\ k <= LinkTop => Neighbors(v, k)' = Edged(v, k)
           /\ k > LinkTop /\ k > l => Neighbors(v, k)' = grown[v][k]
    <3> TAKE v \in Node, k \in Layer
    <3>1. k \in Nat /\ l \in Nat
      BY <1>3, Sizes
    <3> QED BY <1>2, <1>3, <1>14, <3>1
  <2> QED BY <1>1, <1>11, <2>1, <2>2, LayersAre
<1>16. LinksInv'
  <2>1. \A k : Picked(k)' = Picked(k)
    BY <1>1, PlanStays
  <2>2. \A v, k : Edged(v, k)' = Edged(v, k)
    BY <1>1, PlanStays
  <2>3. \A v \in Node : v # e => Neighbors(v, l)' = Neighbors(v, l)
    BY <1>3, <1>14
  <2>4. \A v \in Node : Contains(b, v) => Contains(Picked(l)', v)
    BY <1>5, <2>1
  <2>5. \A v \in Node : ~Contains(b, v) => Neighbors(v, l)' = Edged(v, l)'
    BY <1>5, <1>6, <2>2, <2>3
  <2>6. \A v \in Node : Contains(b, v) /\ v # Head(b) =>
            Neighbors(v, l)' = grown'[v][l]
    BY <1>1, <1>2, <1>5, <2>3
  <2>7. \A v \in Node : v = Head(b) =>
           SubSeq(slots'[v][l], 1, Len(ids)) = WithBackEdge(sc', grown'[v][l], v, next', l)
    <3>1. sc' = sc
      BY <1>1 DEF corpus
    <3> QED BY <1>1, <1>2, <1>8, <1>13, <3>1
  <2> QED BY <1>5, <1>11, <2>4, <2>5, <2>6, <2>7 DEF LinksInv
<1> QED BY <1>1, <1>11, <1>15, <1>16, InsertCopies

LEMMA CountBackCopies ==
    ASSUME LoadInv, CopyInv, CountBack
    PROVE  CopyInv'
<1>1. /\ ins.at = "backCount" /\ Count(Head(ins.todo), ins.layer, ins.len)
      /\ ins' = [at |-> "edges", layer |-> ins.layer, eps |-> ins.eps,
                 todo |-> Tail(ins.todo)]
      /\ corpus' = corpus /\ grown' = grown /\ ept' = ept /\ next' = next
      /\ slots' = slots
  BY DEF CountBack
<1>2. PICK x, l, s, b, n, e, m, t :
         /\ x = next /\ l = ins.layer /\ s = ins.eps /\ b = ins.todo /\ n = LinkTop
         /\ e = Head(b) /\ m = ins.len /\ t = Tail(b)
  OBVIOUS
<1>3. /\ l \in Layer /\ l <= n /\ n \in Layer /\ x \in Node /\ next < N
      /\ s = Plan[n - l + 1]
      /\ \A v \in Node, k \in Layer :
           /\ k < l => Neighbors(v, k) = grown[v][k]
           /\ k > l /\ k <= n => Neighbors(v, k) = Edged(v, k)
           /\ k > n /\ k > l => Neighbors(v, k) = grown[v][k]
  BY <1>1, <1>2, CopyIs
<1>4. b \in Seq(RowsOn(l)) /\ b # << >> /\ Written(e, l, m)
  BY <1>1, <1>2 DEF LoadInv, InsInv
<1>5. /\ Distinct(b) /\ \A v \in Node : Contains(b, v) => Contains(Picked(l), v)
      /\ \A v \in Node :
           /\ ~Contains(b, v) => Neighbors(v, l) = Edged(v, l)
           /\ Contains(b, v) /\ v # e => Neighbors(v, l) = grown[v][l]
  BY <1>1, <1>2 DEF CopyInv, LinksInv
<1>6. e \in RowsOn(l) /\ e \in Node
  <2>1. e \in RowsOn(l)
    BY <1>2, <1>4
  <2> QED BY <2>1 DEF RowsOn
<1>7. SubSeq(slots[e][l], 1, m) = WithBackEdge(sc, grown[e][l], e, x, l)
  BY <1>1, <1>2, <1>6 DEF CopyInv, LinksInv
<1>8. /\ t \in Seq(RowsOn(l)) /\ Distinct(t) /\ Contains(b, e)
      /\ \A v : Contains(t, v) <=> Contains(b, v) /\ v # e
  <2>1. /\ Tail(b) \in Seq(RowsOn(l)) /\ Distinct(Tail(b)) /\ Contains(b, Head(b))
        /\ \A v : Contains(Tail(b), v) <=> Contains(b, v) /\ v # Head(b)
    BY <1>4, <1>5, TailIs
  <2>2. e = Head(b) /\ t = Tail(b)
    BY <1>2
  <2> QED BY <2>1, <2>2
<1>9. ins' = [at |-> "edges", layer |-> l, eps |-> s, todo |-> t]
  BY <1>1, <1>2
<1>10. /\ cnt'[e][l] = m
       /\ \A v \in Node, k \in Layer : v # e \/ k # l => cnt'[v][k] = cnt[v][k]
  <2>1. cnt \in [Node -> [Layer -> Nat]]
    BY DEF LoadInv, SlotsInv
  <2> QED BY <1>1, <1>2, <1>3, <1>6, <2>1 DEF Count
<1>11. Neighbors(e, l)' = WithBackEdge(sc, grown[e][l], e, x, l)
  BY <1>1, <1>7, <1>10 DEF Neighbors
<1>12. \A v \in Node, k \in Layer : v # e \/ k # l =>
          Neighbors(v, k)' = Neighbors(v, k)
  BY <1>1, <1>10, ListStays
<1>13. LayersInv'
  <2>1. s = Plan[LinkTop - l + 1] /\ l <= LinkTop
    BY <1>2, <1>3
  <2>2. \A v \in Node, k \in Layer :
           /\ k < l => Neighbors(v, k)' = grown[v][k]
           /\ k > l /\ k <= LinkTop => Neighbors(v, k)' = Edged(v, k)
           /\ k > LinkTop /\ k > l => Neighbors(v, k)' = grown[v][k]
    <3> TAKE v \in Node, k \in Layer
    <3>1. k \in Nat /\ l \in Nat
      BY <1>3, Sizes
    <3> QED BY <1>2, <1>3, <1>12, <3>1
  <2> QED BY <1>1, <1>9, <2>1, <2>2, LayersAre
<1>14. Contains(Picked(l), e) /\ e # x
  <2>1. Contains(Picked(l), e)
    BY <1>5, <1>6, <1>8
  <2>2. x \notin RowsOn(l)
    BY <1>2, <1>3, Sizes DEF RowsOn
  <2> QED BY <1>6, <2>1, <2>2
<1>15. Edged(e, l) = WithBackEdge(sc, grown[e][l], e, x, l)
  BY <1>2, <1>14 DEF Edged
<1>16. ASSUME NEW v \in Node
       PROVE  Neighbors(v, l)' = IF Contains(t, v) THEN grown[v][l] ELSE Edged(v, l)
  <2>1. CASE v = e
    BY <1>8, <1>11, <1>15, <2>1
  <2>2. CASE v # e
    BY <1>3, <1>5, <1>8, <1>12, <2>2
  <2> QED BY <2>1, <2>2
<1>17. LinksInv'
  <2>1. \A v \in Node : Contains(t, v) => Contains(Picked(l), v)
    BY <1>5, <1>8
  <2> QED BY <1>1, <1>8, <1>9, <1>16, <2>1, LinksAre
<1> QED BY <1>1, <1>9, <1>13, <1>17, InsertCopies

\* The layer is done: its lists are those of the finished graph.
LEMMA LayerDone ==
    ASSUME LoadInv, CopyInv, ins.at = "edges", ins.todo = << >>
    PROVE  \A v \in Node, l \in Layer :
             /\ l < ins.layer => Neighbors(v, l) = grown[v][l]
             /\ l >= ins.layer /\ l <= LinkTop => Neighbors(v, l) = Edged(v, l)
             /\ l > LinkTop => Neighbors(v, l) = grown[v][l]
<1> TAKE v \in Node, l \in Layer
<1>1. PICK b, k : b = ins.todo /\ k = ins.layer
  OBVIOUS
<1>2. ~Contains(b, v)
  BY <1>1 DEF Contains
<1>3. Neighbors(v, k) = Edged(v, k)
  BY <1>1, <1>2 DEF CopyInv, LinksInv
<1>4. /\ l < k => Neighbors(v, l) = grown[v][l]
      /\ l > k /\ l <= LinkTop => Neighbors(v, l) = Edged(v, l)
      /\ l > LinkTop /\ l > k => Neighbors(v, l) = grown[v][l]
      /\ k \in Layer /\ k <= LinkTop /\ LinkTop \in Layer
  BY <1>1, CopyIs
<1>5. l \in Nat /\ k \in Nat /\ LinkTop \in Nat
  BY <1>4, Sizes
<1>6. l >= k => l > k \/ l = k
  BY <1>5
<1>7. l > LinkTop => l > k
  BY <1>4, <1>5
<1> QED BY <1>1, <1>3, <1>4, <1>6, <1>7

LEMMA NextLayerCopies ==
    ASSUME LoadInv, CopyInv, NextLayer
    PROVE  CopyInv'
<1>1. /\ ins.at = "edges" /\ ins.todo = << >> /\ ins.layer > 0
      /\ ins' = [at |-> "own", layer |-> ins.layer - 1, eps |-> ins.eps]
      /\ corpus' = corpus /\ grown' = grown /\ ept' = ept /\ next' = next
      /\ slots' = slots /\ cnt' = cnt
  BY DEF NextLayer, arrays
<1>2. PICK l, k, s, n : l = ins.layer /\ k = l - 1 /\ s = ins.eps /\ n = LinkTop
  OBVIOUS
<1>3. l \in Layer /\ l <= n /\ n \in Layer /\ s = Plan[n - l + 1]
  BY <1>1, <1>2, CopyIs
<1>4. l \in Nat /\ n \in Nat /\ k \in Nat /\ k <= n /\ n - k = n - l + 1
  <2>1. l \in Nat /\ n \in Nat /\ l > 0 /\ l <= n
    BY <1>1, <1>2, <1>3, Sizes
  <2> QED BY <1>2, <2>1
<1>5. \A v \in Node, j \in Layer :
         /\ j < l => Neighbors(v, j) = grown[v][j]
         /\ j >= l /\ j <= n => Neighbors(v, j) = Edged(v, j)
         /\ j > n => Neighbors(v, j) = grown[v][j]
  BY <1>1, <1>2, LayerDone
<1>6. ins' = [at |-> "own", layer |-> k, eps |-> s]
  BY <1>1, <1>2
<1>7. LayersInv'
  <2>1. s = Plan[LinkTop - k] /\ k <= LinkTop
    BY <1>2, <1>3, <1>4
  <2>2. \A v \in Node, j \in Layer :
           /\ j < k \/ j = k => Neighbors(v, j)' = grown[v][j]
           /\ j > k /\ j <= LinkTop => Neighbors(v, j)' = Edged(v, j)
           /\ j > LinkTop /\ j > k => Neighbors(v, j)' = grown[v][j]
    <3> TAKE v \in Node, j \in Layer
    <3>1. Neighbors(v, j)' = Neighbors(v, j)
      BY <1>1, ListStays
    <3>2. j \in Nat
      BY Sizes
    <3>3. (j < k \/ j = k => j < l) /\ (j > k => j >= l)
      BY <1>2, <1>4, <3>2
    <3> QED BY <1>2, <1>5, <3>1, <3>3
  <2> QED BY <1>1, <1>6, <2>1, <2>2, LayersAre
<1>8. LinksInv'
  BY <1>6 DEF LinksInv
<1> QED BY <1>1, <1>6, <1>7, <1>8, InsertCopies

LEMMA PublishCopies ==
    ASSUME LoadInv, CopyInv, Publish
    PROVE  CopyInv'
<1>1. /\ ins.at = "edges" /\ ins.todo = << >> /\ ins.layer = 0 /\ Grow
      /\ ins' = None /\ next' = next + 1 /\ corpus' = corpus
      /\ slots' = slots /\ cnt' = cnt
  BY DEF Publish
<1>2. next < N /\ LinkTop \in Layer
  BY <1>1, CopyIs
<1>3. \A v \in Node, l \in Layer :
         /\ l >= 0 /\ l <= LinkTop => Neighbors(v, l) = Edged(v, l)
         /\ l > LinkTop => Neighbors(v, l) = grown[v][l]
  BY <1>1, LayerDone
<1>4. ASSUME NEW v \in Node, NEW l \in Layer
      PROVE  Neighbors(v, l)' = grown'[v][l]
  <2>1. Neighbors(v, l)' = Neighbors(v, l)
    BY <1>1, ListStays
  <2>2. grown'[v][l] = IF l > LinkTop THEN grown[v][l] ELSE Edged(v, l)
    BY <1>1, <1>2, GrownIs
  <2>3. l \in Nat /\ LinkTop \in Nat
    BY <1>2, Sizes
  <2>4. l >= 0 /\ (l > LinkTop \/ l <= LinkTop)
    BY <2>3
  <2> QED BY <1>3, <2>1, <2>2, <2>3, <2>4
<1>5. GrownInv'
  BY <1>1, <1>2, GrownStep DEF CopyInv
<1>6. WholeInv'
  BY <1>4 DEF WholeInv
<1>7. LayersInv' /\ LinksInv'
  BY <1>1 DEF LayersInv, LinksInv, None
<1> QED BY <1>5, <1>6, <1>7 DEF CopyInv

-----------------------------------------------------------------------------
(* The other steps.                                                        *)

LEMMA BuildRowCopies ==
    ASSUME LoadInv, CopyInv, BuildRow
    PROVE  CopyInv'
<1>1. /\ stage = "build" /\ next < NBuild /\ Grow /\ next' = next + 1
      /\ corpus' = corpus /\ ins' = ins /\ stage' = stage
  BY DEF BuildRow
<1>2. next < N
  BY <1>1, Sizes, LoadAssumption DEF LoadInv, CorpusInv
<1>3. ins' = None
  BY <1>1 DEF LoadInv, BuildInv
<1>4. GrownInv'
  BY <1>1, <1>2, GrownStep DEF CopyInv
<1>5. WholeInv' /\ LayersInv' /\ LinksInv'
  BY <1>1, <1>3 DEF WholeInv, LayersInv, LinksInv, None
<1> QED BY <1>4, <1>5 DEF CopyInv

LEMMA FreezeCopies ==
    ASSUME LoadInv, CopyInv, Freeze
    PROVE  CopyInv'
<1>1. /\ stage = "build" /\ corpus' = corpus /\ grown' = grown /\ next' = next
      /\ ins' = ins /\ slots' = Frozen(grown)
      /\ cnt' = [v \in Node |-> [l \in Layer |-> Len(grown[v][l])]]
  BY DEF Freeze
<1>2. ins' = None
  BY <1>1 DEF LoadInv, BuildInv
<1>3. ASSUME NEW v \in Node, NEW l \in Layer
      PROVE  Neighbors(v, l)' = grown'[v][l]
  <2>1. PICK g : g = grown[v][l]
    OBVIOUS
  <2>2. g \in Seq(RowsOn(l)) /\ Len(g) <= Cap(l) /\ Cap(l) \in Nat
    BY <2>1, Sizes DEF CopyInv, GrownInv
  <2>3. g \in Seq(Int)
    <3>1. RowsOn(l) \subseteq Int
      BY Sizes DEF RowsOn
    <3> QED BY <2>2, <3>1, SeqIn
  <2> DEFINE new == [j \in 1 .. Cap(l) |-> IF j <= Len(g) THEN g[j] ELSE -1]
  <2>4. slots'[v][l] = new /\ cnt'[v][l] = Len(g)
    BY <1>1, <2>1 DEF Frozen
  <2>5. Len(g) \in Nat
    BY <2>3
  <2>6. \A j \in 1 .. Cap(l) : new[j] \in Int
    BY <2>2, <2>3
  <2>7. /\ new \in Seq(Int) /\ Len(new) = Cap(l)
        /\ \A j \in 1 .. Len(g) : j \in 1 .. Cap(l) /\ new[j] = g[j]
    BY <2>2, <2>5, <2>6
  <2> HIDE DEF new
  <2> DEFINE s == SubSeq(new, 1, Len(g))
  <2>8. s \in Seq(Int) /\ Len(s) = Len(g)
    BY <2>2, <2>5, <2>7
  <2>9. \A j \in 1 .. Len(g) : s[j] = g[j]
    BY <2>2, <2>5, <2>7
  <2>10. Neighbors(v, l)' = s
    BY <2>4 DEF Neighbors
  <2> HIDE DEF s
  <2>11. s = g
    BY <2>3, <2>8, <2>9
  <2> QED BY <1>1, <2>1, <2>10, <2>11
<1>4. WholeInv'
  BY <1>3 DEF WholeInv
<1>5. GrownInv'
  <2>1. \A l \in Layer : RowsOn(l)' = RowsOn(l)
    <3>1. lev' = lev
      BY <1>1 DEF corpus
    <3> QED BY <1>1, <3>1 DEF RowsOn
  <2> QED BY <1>1, <2>1 DEF CopyInv, GrownInv
<1>6. LayersInv' /\ LinksInv'
  BY <1>2 DEF LayersInv, LinksInv, None
<1> QED BY <1>4, <1>5, <1>6 DEF CopyInv

\* What the searches and the stages do does not concern the graph.
LEMMA CopyStays ==
    ASSUME CopyInv, corpus' = corpus, grown' = grown, arrays' = arrays,
           next' = next, ins' = ins, stage' = stage \/ stage # "build"
    PROVE  CopyInv'
<1>1. slots' = slots /\ cnt' = cnt /\ ept' = ept /\ sc' = sc /\ lev' = lev
  BY DEF arrays, corpus
<1>2. /\ LinkTop' = LinkTop /\ Plan' = Plan
      /\ \A l : Picked(l)' = Picked(l)
      /\ \A v, l : Edged(v, l)' = Edged(v, l)
  BY <1>1, PlanStays
<1>3. /\ \A l : RowsOn(l)' = RowsOn(l)
      /\ \A v, l : Neighbors(v, l)' = Neighbors(v, l)
  BY <1>1 DEF RowsOn, Neighbors
<1>4. GrownInv'
  BY <1>3 DEF CopyInv, GrownInv
<1>5. WholeInv'
  BY <1>3 DEF CopyInv, WholeInv
<1>6. LayersInv'
  BY <1>2, <1>3 DEF CopyInv, LayersInv
<1>7. LinksInv'
  <2>1. PICK l : l = ins.layer
    OBVIOUS
  <2>2. Picked(l)' = Picked(l)
    BY <1>2
  <2> QED BY <1>1, <1>2, <1>3, <2>1, <2>2 DEF CopyInv, LinksInv
<1> QED BY <1>4, <1>5, <1>6, <1>7 DEF CopyInv

LEMMA CopyInit ==
    ASSUME Init
    PROVE  CopyInv
<1>1. grown = Empty /\ ins = None /\ stage = "build"
  BY DEF Init
<1>2. \A v \in Node, l \in Layer :
         /\ grown[v][l] = << >> /\ << >> \in Seq(RowsOn(l)) /\ Len(<< >>) <= Cap(l)
  <2>1. \A l \in Layer : Cap(l) \in Nat
    BY Sizes
  <2>2. Len(<< >>) = 0
    OBVIOUS
  <2> QED BY <1>1, <2>1, <2>2 DEF Empty
<1>3. grown = [v \in Node |-> [l \in Layer |-> grown[v][l]]]
  BY <1>1 DEF Empty
<1>4. GrownInv
  BY <1>2, <1>3 DEF GrownInv
<1> QED BY <1>1, <1>4 DEF CopyInv, WholeInv, LayersInv, LinksInv, None

LEMMA CopyNext ==
    ASSUME LoadInv, CopyInv, [Next]_vars
    PROVE  CopyInv'
<1>1. CASE BuildRow
  BY <1>1, BuildRowCopies
<1>2. CASE Freeze
  BY <1>2, FreezeCopies
<1>3. CASE Insert
  BY <1>3, StartRowCopies, WriteOwnCopies, CountOwnCopies, WriteBackCopies,
     CountBackCopies, NextLayerCopies, PublishCopies DEF Insert
<1>4. CASE Deadline \/ Join \/ Repair
  <2>1. /\ corpus' = corpus /\ grown' = grown /\ arrays' = arrays /\ next' = next
        /\ ins' = ins /\ stage # "build"
    BY <1>4 DEF Deadline, Join, Repair
  <2> QED BY <2>1, CopyStays
<1>5. ASSUME NEW w \in Worker, Search(w) PROVE CopyInv'
  <2>1. /\ corpus' = corpus /\ grown' = grown /\ arrays' = arrays /\ next' = next
        /\ ins' = ins /\ stage' = stage
    BY <1>5 DEF Search, Begin, ReadCount, ReadSlots, Return, Stop
  <2> QED BY <2>1, CopyStays
<1>6. CASE Ended \/ UNCHANGED vars
  <2>1. /\ corpus' = corpus /\ grown' = grown /\ arrays' = arrays /\ next' = next
        /\ ins' = ins /\ stage' = stage
    BY <1>6 DEF Ended, vars
  <2> QED BY <2>1, CopyStays
<1> QED BY <1>1, <1>2, <1>3, <1>4, <1>5, <1>6 DEF Next

\* insert_frozen and insert, hnsw.py:217 and :399.  Whenever no row is half in,
\* the arrays hold the graph that a build of these rows, one by one, has.
THEOREM InsertIsBuild == Spec => []SameAsBuild
<1>1. Init => LoadInv /\ CopyInv
  BY LoadInit, CopyInit
<1>2. LoadInv /\ CopyInv /\ [Next]_vars => (LoadInv /\ CopyInv)'
  BY LoadNext, CopyNext
<1>3. LoadInv /\ CopyInv => SameAsBuild
  BY ListsAreGrown DEF CopyInv, SameAsBuild
<1> QED BY <1>1, <1>2, <1>3, PTL DEF Spec
=============================================================================
