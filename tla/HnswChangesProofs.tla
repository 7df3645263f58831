-------------------------- MODULE HnswChangesProofs --------------------------
(* Proofs about the life of one index: for any corpus, levels, list sizes,   *)
(* changes and number of processes.                                          *)
EXTENDS HnswChanges, FiniteSetTheorems, WellFoundedInduction, TLAPS

-----------------------------------------------------------------------------
(* The inductive invariant.                                                *)

\* Lists of nodes of S.
Lists(s, S) ==
    /\ s \in [Node -> [Layer -> Seq(S)]]
    /\ \A v \in Node, l \in Layer : Len(s[v][l]) <= Cap(l)

\* The nodes C have no edges and no in-edges in lists of nodes of S.
Severed(s, S, C) ==
    \A v \in Node, l \in Layer :
        s[v][l] \in Seq(S \ C) /\ (v \in C => s[v][l] = << >>)

TypeInv ==
    /\ sc \in [Node -> [Node -> Int]] /\ draw \in [Node -> Layer]
    /\ n \in 0 .. N /\ idMap \in [Node -> Node] /\ lev \in [Node -> Layer]
    /\ Lists(links, Nodes) /\ entry \in Node /\ top \in Layer
    /\ del \in SUBSET Nodes /\ dead \in SUBSET Nodes /\ cut \in SUBSET Nodes
    /\ todo \in SUBSET Nodes /\ protected \in SUBSET (Nodes \X Nodes)
    /\ start = [ep |-> start.ep, top |-> start.top]
    /\ start.ep \in Node /\ start.top \in Layer

Passing == {"stepA", "stepB"}

StageInv ==
    /\ stage \in {"idle", "insert", "update", "compact", "ready"} \cup Passing
    /\ IF stage = "idle" THEN n = 0 /\ did = {} /\ idMap = Identity
       ELSE /\ n > 0 /\ entry \in Nodes /\ lev[entry] = top
            /\ del # Nodes /\ total = N
    /\ stage = "insert" => 0 \notin todo
    /\ stage = "update" =>
         /\ start.ep \in Nodes \ todo /\ lev[start.ep] = start.top
    /\ stage \in {"insert", "update"} => cut = {}
    /\ stage \in {"ready", "compact"} => todo = {}

ProcessInv ==
    /\ "compacted" \in did => "changed" \in did
    /\ stage # "idle" /\ "compacted" \notin did => n = N /\ idMap = Identity
    /\ "changed" \notin did => mine = {}
    /\ \A a, b \in Nodes : a < b => idMap[a] < idMap[b]
    /\ \A j \in Nodes : idMap[j] \in mine =>
         \/ j \in del
         \/ /\ "compacted" \in did
            /\ \/ stage = "compact" /\ j \in dead
               \/ stage \in Passing \cup {"ready"} /\ j \in cut

RepairInv ==
    /\ stage \notin Passing \cup {"compact"} => dead = {}
    /\ stage \in Passing => cut = dead /\ todo \cap dead = {}
    /\ stage \notin Passing => protected = {}
    /\ entry \notin dead
    /\ stage = "ready" => entry \notin cut
    /\ Severed(links, Nodes, cut) /\ Severed(links, Nodes, dead)

Saved ==
    /\ file.rows = N /\ file.sc \in [Node -> [Node -> Int]]
    /\ file.lev \in [Node -> Layer] /\ Lists(file.links, Node)
    /\ file.entry \in Node \ file.cut
    /\ file.del \in SUBSET Node /\ file.del # Node /\ file.cut \in SUBSET Node
    /\ Severed(file.links, Node, file.cut)

FileInv == file # NoFile => Saved

LifeInv == /\ TypeInv /\ StageInv /\ ProcessInv /\ RepairInv /\ FileInv

-----------------------------------------------------------------------------
(* Induction, in the form that needs no operator.                          *)

LEMMA LeastNat ==
    ASSUME NEW T \in SUBSET Nat, T # {}
    PROVE  \E x \in T : \A y \in T : x <= y
<1> DEFINE Less == {ss \in Nat \X Nat : ss[1] < ss[2]}
<1>1. IsWellFoundedOn(Less, Nat)
  BY NatLessThanWellFounded DEF OpToRel
<1>2. PICK x \in T : \A y \in T : ~ (<<y, x>> \in Less)
  <2> HIDE DEF Less
  <2> QED BY <1>1, WFMin
<1>3. ASSUME NEW y \in T, y < x PROVE FALSE
  <2>1. <<y, x>> \in Less
    BY <1>3
  <2> QED BY <1>2, <2>1
<1> QED BY <1>2, <1>3

LEMMA SetInduction ==
    ASSUME NEW S \in SUBSET Nat, 0 \in S, \A k \in S : k + 1 \in S
    PROVE  S = Nat
<1>1. SUFFICES ASSUME Nat \ S # {} PROVE FALSE
  OBVIOUS
<1>2. PICK x \in Nat \ S : \A y \in Nat \ S : x <= y
  BY <1>1, LeastNat
<1>3. x # 0 /\ x - 1 \in Nat
  OBVIOUS
<1>4. x - 1 \in S
  BY <1>2, <1>3
<1> QED BY <1>4, <1>3

\* What holds at first and from step to step holds after n steps.
LEMMA Steps ==
    ASSUME NEW cnt \in Nat, NEW T \in SUBSET Nat, 0 \in T,
           \A k \in 0 .. cnt - 1 : k \in T => k + 1 \in T
    PROVE  cnt \in T
<1> DEFINE S == {k \in Nat : k <= cnt => k \in T}
<1>1. 0 \in S
  OBVIOUS
<1>2. \A k \in S : k + 1 \in S
  OBVIOUS
<1>3. S = Nat
  <2> HIDE DEF S
  <2>1. S \in SUBSET Nat
    BY DEF S
  <2> QED BY <1>1, <1>2, <2>1, SetInduction
<1> QED BY <1>3

\* The same for values in A.
LEMMA Stays ==
    ASSUME NEW cnt \in Nat, NEW A, NEW f, f[0] \in A,
           \A k \in 1 .. cnt : f[k - 1] \in A => f[k] \in A
    PROVE  f[cnt] \in A
<1> DEFINE T == {k \in Nat : k <= cnt => f[k] \in A}
<1>1. 0 \in T
  OBVIOUS
<1>2. \A k \in 0 .. cnt - 1 : k \in T => k + 1 \in T
  <2> TAKE k \in 0 .. cnt - 1
  <2> HAVE k \in T
  <2>1. k + 1 \in 1 .. cnt /\ (k + 1) - 1 = k /\ f[k] \in A
    OBVIOUS
  <2> QED BY <2>1
<1>3. cnt \in T
  <2> HIDE DEF T
  <2>1. T \in SUBSET Nat
    BY DEF T
  <2> QED BY <1>1, <1>2, <2>1, Steps
<1> QED BY <1>3

\* The values of a recursive function of 0 .. n.
Recurs(g, a, F, cnt) ==
    g = [k \in 0 .. cnt |-> IF k = 0 THEN a ELSE F[k][g[k - 1]]]

\* A recursive function exists if its step is a function of the value before.
LEMMA Recursion ==
    ASSUME NEW A, NEW a \in A, NEW F \in [Nat -> [A -> A]], NEW cnt \in Nat
    PROVE  \E g \in [0 .. cnt -> A] : Recurs(g, a, F, cnt)
<1> DEFINE Body(g, m) == [k \in 0 .. m |-> IF k = 0 THEN a ELSE F[k][g[k - 1]]]
           There(m) == \E g \in [0 .. m -> A] : g = Body(g, m)
           T == {m \in Nat : There(m)}
<1>1. 0 \in T
  <2>1. [k \in 0 .. 0 |-> a] \in [0 .. 0 -> A]
    OBVIOUS
  <2>2. [k \in 0 .. 0 |-> a] = Body([k \in 0 .. 0 |-> a], 0)
    OBVIOUS
  <2> QED BY <2>1, <2>2
<1>2. ASSUME NEW m \in T PROVE m + 1 \in T
  <2>1. PICK g \in [0 .. m -> A] : g = Body(g, m)
    OBVIOUS
  <2>2. m \in Nat
    OBVIOUS
  <2> DEFINE h == [k \in 0 .. m + 1 |-> IF k <= m THEN g[k] ELSE F[m + 1][g[m]]]
  <2>3. F[m + 1][g[m]] \in A
    BY <2>2
  <2>4. h \in [0 .. m + 1 -> A]
    BY <2>2, <2>3
  <2>5. ASSUME NEW k \in 0 .. m + 1 PROVE h[k] = Body(h, m + 1)[k]
    <3>1. CASE k = 0
      <4>1. g[0] = a
        BY <2>1, <2>2
      <4> QED BY <3>1, <4>1, <2>2
    <3>2. CASE k # 0 /\ k <= m
      <4>1. g[k] = F[k][g[k - 1]]
        BY <2>1, <2>2, <3>2
      <4>2. k - 1 \in 0 .. m + 1 /\ k - 1 <= m
        BY <3>2, <2>2
      <4>3. h[k - 1] = g[k - 1] /\ h[k] = g[k]
        BY <4>2, <3>2, <2>2
      <4> HIDE DEF h
      <4> QED BY <3>2, <4>1, <4>3
    <3>3. CASE k = m + 1
      <4>1. m \in 0 .. m + 1 /\ k - 1 = m /\ ~(k <= m) /\ k # 0
        BY <3>3, <2>2
      <4>2. h[k - 1] = g[m] /\ h[k] = F[m + 1][g[m]]
        BY <4>1, <2>2
      <4> HIDE DEF h
      <4> QED BY <3>3, <4>1, <4>2
    <3> QED BY <3>1, <3>2, <3>3, <2>2
  <2>6. h = Body(h, m + 1)
    <3> HIDE DEF h
    <3> QED BY <2>4, <2>5
  <2>7. There(m + 1)
    <3> HIDE DEF h
    <3> QED BY <2>4, <2>6
  <2> HIDE DEF There
  <2> QED BY <2>7, <2>2
<1>3. T = Nat
  <2> HIDE DEF T
  <2>1. T \in SUBSET Nat
    BY DEF T
  <2> QED BY <1>1, <1>2, <2>1, SetInduction
<1> HIDE DEF There
<1>4. There(cnt)
  BY <1>3
<1> QED BY <1>4 DEF There, Recurs

-----------------------------------------------------------------------------
(* Rows and scores.                                                        *)

LEMMA Sizes ==
    /\ N \in Nat \ {0} /\ MaxLevel \in Nat /\ Node = 0 .. N - 1
    /\ Layer = 0 .. MaxLevel /\ 0 \in Layer
    /\ M \in Nat /\ M >= 2 /\ M0 = 2 * M
    /\ \A l \in Layer : Cap(l) \in Nat /\ Cap(l) >= M
BY GraphAssumption DEF Node, Layer, Cap

\* Of the rows in a set one has the best score.
LEMMA OneIsBest ==
    ASSUME NEW cnt \in Nat, NEW S \in SUBSET (0 .. cnt - 1), S # {},
           NEW w, \A x \in S : w[x] \in Int
    PROVE  \E a \in S : \A b \in S \ {a} : w[a] > w[b] \/ (w[a] = w[b] /\ a < b)
<1> DEFINE Wins(a, b) == w[a] > w[b] \/ (w[a] = w[b] /\ a < b)
           Top(k) == (\E x \in S : x < k) =>
                        \E a \in S : a < k /\ \A b \in S \ {a} : b < k => Wins(a, b)
           T == {k \in Nat : Top(k)}
<1>1. S \subseteq Nat /\ \A x \in S : x < cnt
  OBVIOUS
<1>2. \A x \in S : w[x] \in Int
  OBVIOUS
<1>3. 0 \in T
  BY <1>1
<1>4. ASSUME NEW k \in T PROVE k + 1 \in T
  <2>1. k \in Nat /\ Top(k)
    OBVIOUS
  <2>2. CASE k \notin S
    <3>1. \A x \in S : x < k + 1 <=> x < k
      BY <2>1, <2>2, <1>1
    <3> QED BY <2>1, <3>1
  <2>3. CASE k \in S /\ ~ \E x \in S : x < k
    <3>1. \A x \in S : x < k + 1 => x = k
      BY <2>1, <2>3, <1>1
    <3>2. Top(k + 1)
      <4> QED BY <2>1, <2>3, <3>1
    <3> HIDE DEF Top
    <3> QED BY <2>1, <3>2
  <2>4. CASE k \in S /\ \E x \in S : x < k
    <3>1. PICK a \in S : a < k /\ \A b \in S \ {a} : b < k => Wins(a, b)
      BY <2>1, <2>4
    <3>2. CASE w[k] > w[a]
      <4>1. ASSUME NEW b \in S \ {k}, b < k + 1 PROVE Wins(k, b)
        <5>1. b < k
          BY <4>1, <2>1, <1>1
        <5>2. b = a \/ Wins(a, b)
          BY <5>1, <3>1
        <5>3. w[k] \in Int /\ w[a] \in Int /\ w[b] \in Int
          BY <1>2, <2>4
        <5> QED BY <5>2, <5>3, <3>2
      <4>2. Top(k + 1)
        <5>1. k < k + 1
          BY <2>1
        <5> HIDE DEF Wins
        <5> QED BY <4>1, <5>1, <2>4
      <4> HIDE DEF Top
      <4> QED BY <2>1, <4>2
    <3>3. CASE ~(w[k] > w[a])
      <4>1. ASSUME NEW b \in S \ {a}, b < k + 1 PROVE Wins(a, b)
        <5>1. b < k \/ b = k
          BY <4>1, <2>1, <1>1
        <5>2. CASE b < k
          BY <5>2, <3>1
        <5>3. CASE b = k
          <6>1. w[k] \in Int /\ w[a] \in Int
            BY <1>2, <2>4
          <6> QED BY <5>3, <6>1, <3>1, <3>3
        <5> QED BY <5>1, <5>2, <5>3
      <4>2. Top(k + 1)
        <5>1. a < k + 1
          BY <2>1, <3>1, <1>1
        <5> HIDE DEF Wins
        <5> QED BY <4>1, <5>1
      <4> HIDE DEF Top
      <4> QED BY <2>1, <4>2
    <3> QED BY <3>2, <3>3
  <2> QED BY <2>2, <2>3, <2>4
<1>5. T = Nat
  <2> HIDE DEF T
  <2>1. T \in SUBSET Nat
    BY DEF T
  <2> QED BY <1>3, <1>4, <2>1, SetInduction
<1>6. Top(cnt)
  <2> HIDE DEF Top
  <2> QED BY <1>5, <1>1
<1>7. \E a \in S : \A b \in S \ {a} : Wins(a, b)
  <2> HIDE DEF Wins
  <2> QED BY <1>6, <1>1
<1> QED BY <1>7

LEMMA BestIn ==
    ASSUME NEW q \in [Node -> Int], NEW S \in SUBSET Node, S # {}
    PROVE  Best(q, S) \in S
<1>1. N \in Nat /\ S \in SUBSET (0 .. N - 1) /\ \A x \in S : q[x] \in Int
  BY Sizes
<1>2. \E a \in S : \A b \in S \ {a} : q[a] > q[b] \/ (q[a] = q[b] /\ a < b)
  BY <1>1, OneIsBest
<1> QED BY <1>2 DEF Best, Better

LEMMA FirstBestIn ==
    ASSUME NEW q \in [Node -> Int], NEW S \in SUBSET Node,
           NEW list \in Seq(S), list # << >>
    PROVE  FirstBest(q, list) \in S
<1> DEFINE I == 1 .. Len(list)
           w == [x \in I |-> q[list[x]]]
<1>1. Len(list) \in Nat /\ I \in SUBSET (0 .. (Len(list) + 1) - 1) /\ I # {}
  OBVIOUS
<1>2. DOMAIN list = I /\ \A x \in I : list[x] \in S /\ w[x] \in Int
  OBVIOUS
<1>3. Len(list) + 1 \in Nat
  BY <1>1
<1>4. \E a \in I : \A b \in I \ {a} : w[a] > w[b] \/ (w[a] = w[b] /\ a < b)
  <2> HIDE DEF w, I
  <2> QED BY <1>1, <1>2, <1>3, OneIsBest
<1>5. PICK a \in I : \A b \in I \ {a} : w[a] > w[b] \/ (w[a] = w[b] /\ a < b)
  BY <1>4
<1>6. \A b \in I : q[list[a]] > q[list[b]] \/ (q[list[a]] = q[list[b]] /\ a <= b)
  <2> TAKE b \in I
  <2>1. CASE a = b
    BY <2>1
  <2>2. CASE a # b
    BY <1>5, <2>2
  <2> QED BY <2>1, <2>2
<1> DEFINE c == CHOOSE i \in DOMAIN list : \A j \in DOMAIN list :
                    q[list[i]] > q[list[j]] \/ (q[list[i]] = q[list[j]] /\ i <= j)
<1>7. c \in DOMAIN list
  BY <1>2, <1>6
<1>8. FirstBest(q, list) = list[c]
  BY DEF FirstBest
<1> HIDE DEF c
<1> QED BY <1>2, <1>7, <1>8

-----------------------------------------------------------------------------
(* Walks stay among rows that are closed under their lists.                *)

Heaps(S) == [seen : SUBSET S, cand : SUBSET S, res : SUBSET S]

LEMMA EnterIn ==
    ASSUME NEW S, NEW q, NEW admit, NEW ef, NEW w \in Heaps(S), NEW x \in S
    PROVE  Enter(q, admit, ef, w, x) \in Heaps(S)
<1> DEFINE full == Cardinality(w.res) >= ef
           res == IF x \notin admit THEN w.res
                  ELSE (IF full THEN w.res \ {Worst(q, w.res)} ELSE w.res)
                           \cup {x}
<1>1. w.cand \in SUBSET S /\ w.res \in SUBSET S
  BY DEF Heaps
<1>2. res \in SUBSET S
  BY <1>1
<1>3. [w EXCEPT !.cand = @ \cup {x}, !.res = res] \in Heaps(S)
  <2> HIDE DEF res
  <2> QED BY <1>2 DEF Heaps
<1>4. \/ Enter(q, admit, ef, w, x) = w
      \/ Enter(q, admit, ef, w, x) = [w EXCEPT !.cand = @ \cup {x}, !.res = res]
  BY DEF Enter
<1> HIDE DEF res
<1> QED BY <1>3, <1>4

\* The states of a walk while a list is gone through.
Enters(f, S, q, admit, ef, w, list) ==
    /\ f[0] = w
    /\ \A j \in 1 .. Len(list) :
          f[j] = IF list[j] \in w.seen THEN f[j - 1]
                 ELSE Enter(q, admit, ef, f[j - 1], list[j])
    /\ \A j \in 0 .. Len(list) : f[j] \in Heaps(S)
    /\ Entered(q, admit, ef, w, list)
         = [f[Len(list)] EXCEPT !.seen = @ \cup ToSet(list)]

LEMMA EnteredRuns ==
    ASSUME NEW S, NEW q, NEW admit, NEW ef, NEW w \in Heaps(S),
           NEW list \in Seq(S)
    PROVE  \E f : Enters(f, S, q, admit, ef, w, list)
<1> DEFINE A == Heaps(S)
           cnt == Len(list)
           Op(j, x) == IF list[j] \in w.seen THEN x
                       ELSE Enter(q, admit, ef, x, list[j])
           Body(g) == [j \in 0 .. cnt |-> IF j = 0 THEN w ELSE Op(j, g[j - 1])]
           f == CHOOSE g : g = Body(g)
           F == [j \in Nat |-> [x \in A |-> IF j \in 1 .. cnt THEN Op(j, x) ELSE x]]
<1>1. cnt \in Nat /\ \A j \in 1 .. cnt : list[j] \in S
  OBVIOUS
<1>2. \A j \in 1 .. cnt : \A x \in A : Op(j, x) \in A
  BY <1>1, EnterIn
<1>3. F \in [Nat -> [A -> A]]
  <2> HIDE DEF Op, A
  <2> QED BY <1>2
<1>4. PICK g \in [0 .. cnt -> A] : Recurs(g, w, F, cnt)
  <2> HIDE DEF F, A, cnt
  <2>1. w \in A
    BY DEF A
  <2> QED BY <1>1, <1>3, <2>1, Recursion
<1>5. \A j \in 0 .. cnt : j # 0 => F[j][g[j - 1]] = Op(j, g[j - 1])
  <2> TAKE j \in 0 .. cnt
  <2> HAVE j # 0
  <2>1. j \in Nat /\ j - 1 \in 0 .. cnt /\ j \in 1 .. cnt
    BY <1>1
  <2>2. g[j - 1] \in A
    BY <2>1, <1>4
  <2> HIDE DEF Op, A, cnt
  <2> QED BY <2>1, <2>2
<1>6. g = Body(g)
  <2> HIDE DEF F, Op, A, cnt
  <2> QED BY <1>4, <1>5 DEF Recurs
<1>7. f = Body(f)
  <2> HIDE DEF Body
  <2> QED BY <1>6
<1>8. f[0] = w
  <2> HIDE DEF f
  <2> QED BY <1>1, <1>7
<1>9. \A j \in 1 .. cnt : f[j] = Op(j, f[j - 1])
  <2> HIDE DEF f, Op, cnt
  <2> QED BY <1>1, <1>7
<1>10. \A j \in 0 .. cnt : f[j] \in A
  <2>1. w \in A
    BY DEF A
  <2> HIDE DEF f, Op, A, cnt
  <2> TAKE j \in 0 .. cnt
  <2>2. j \in Nat /\ \A m \in 1 .. j : m \in 1 .. cnt
    BY <1>1
  <2>3. \A m \in 1 .. j : f[m - 1] \in A => f[m] \in A
    BY <1>2, <1>9, <2>2
  <2> QED BY <1>8, <2>1, <2>2, <2>3, Stays
<1>11. Entered(q, admit, ef, w, list) = [f[cnt] EXCEPT !.seen = @ \cup ToSet(list)]
  BY DEF Entered
<1>12. Enters(f, S, q, admit, ef, w, list)
  <2> HIDE DEF f
  <2> QED BY <1>8, <1>9, <1>10, <1>11 DEF Enters
<1> QED BY <1>12

LEMMA EnteredIn ==
    ASSUME NEW S, NEW q, NEW admit, NEW ef, NEW w \in Heaps(S),
           NEW list \in Seq(S)
    PROVE  Entered(q, admit, ef, w, list) \in Heaps(S)
<1>1. PICK f : Enters(f, S, q, admit, ef, w, list)
  BY EnteredRuns
<1>2. f[Len(list)] \in Heaps(S) /\ ToSet(list) \in SUBSET S
  BY <1>1 DEF Enters, ToSet
<1>3. Entered(q, admit, ef, w, list)
         = [f[Len(list)] EXCEPT !.seen = @ \cup ToSet(list)]
  BY <1>1 DEF Enters
<1> QED BY <1>2, <1>3 DEF Heaps

LEMMA StepIn ==
    ASSUME NEW S \in SUBSET Node, NEW q \in [Node -> Int], NEW admit, NEW ef,
           NEW nbr, \A c \in S : nbr[c] \in Seq(S), NEW w \in Heaps(S)
    PROVE  Step(nbr, q, admit, ef, w) \in Heaps(S)
<1> DEFINE c == Best(q, w.cand)
           open == [w EXCEPT !.cand = @ \ {c}]
<1>1. w.cand \in SUBSET S
  BY DEF Heaps
<1>2. CASE w.cand = {}
  BY <1>2 DEF Step
<1>3. CASE w.cand # {}
  <2>1. c \in S
    BY <1>1, <1>3, BestIn
  <2>2. open \in Heaps(S)
    <3> HIDE DEF c
    <3> QED BY DEF Heaps
  <2>3. Entered(q, admit, ef, open, nbr[c]) \in Heaps(S)
    <3> HIDE DEF c, open
    <3> QED BY <2>1, <2>2, EnteredIn
  <2>4. \/ Step(nbr, q, admit, ef, w) = w
        \/ Step(nbr, q, admit, ef, w) = Entered(q, admit, ef, open, nbr[c])
    BY DEF Step
  <2> QED BY <2>3, <2>4
<1> QED BY <1>2, <1>3

\* The states of a walk.
Walks(f, S, nbr, q, admit, eps, ef) ==
    /\ f[0] = [seen |-> eps, cand |-> eps, res |-> TopOf(q, eps \cap admit, ef)]
    /\ \A j \in 1 .. N : f[j] = Step(nbr, q, admit, ef, f[j - 1])
    /\ \A j \in 0 .. N : f[j] \in Heaps(S)
    /\ SearchLayer(nbr, q, admit, eps, ef) = f[N].res

LEMMA WalkRuns ==
    ASSUME NEW S \in SUBSET Node, NEW q \in [Node -> Int], NEW admit, NEW ef,
           NEW nbr, \A c \in S : nbr[c] \in Seq(S), NEW eps \in SUBSET S
    PROVE  \E f : Walks(f, S, nbr, q, admit, eps, ef)
<1> DEFINE A == Heaps(S)
           w == [seen |-> eps, cand |-> eps, res |-> TopOf(q, eps \cap admit, ef)]
           Op(x) == Step(nbr, q, admit, ef, x)
           Body(g) == [j \in 0 .. N |-> IF j = 0 THEN w ELSE Op(g[j - 1])]
           f == CHOOSE g : g = Body(g)
           F == [j \in Nat |-> [x \in A |-> Op(x)]]
<1>1. N \in Nat
  BY Sizes
<1>2. w \in A
  BY DEF Heaps, TopOf
<1>3. \A x \in A : Op(x) \in A
  BY StepIn
<1>4. F \in [Nat -> [A -> A]]
  <2> HIDE DEF Op, A
  <2> QED BY <1>3
<1>5. PICK g \in [0 .. N -> A] : Recurs(g, w, F, N)
  <2> HIDE DEF F, A, w
  <2> QED BY <1>1, <1>2, <1>4, Recursion
<1>6. \A j \in 0 .. N : j # 0 => F[j][g[j - 1]] = Op(g[j - 1])
  <2> TAKE j \in 0 .. N
  <2> HAVE j # 0
  <2>1. j \in Nat /\ j - 1 \in 0 .. N
    BY <1>1
  <2> HIDE DEF Op, A
  <2> QED BY <2>1, <1>5
<1>7. g = Body(g)
  <2> HIDE DEF F, Op, A, w
  <2> QED BY <1>5, <1>6 DEF Recurs
<1>8. f = Body(f)
  <2> HIDE DEF Body
  <2> QED BY <1>7
<1>9. f[0] = w /\ \A j \in 1 .. N : f[j] = Op(f[j - 1])
  <2> HIDE DEF f, Op, w
  <2> QED BY <1>1, <1>8
<1>10. \A j \in 0 .. N : f[j] \in A
  <2> HIDE DEF f, Op, A, w
  <2> TAKE j \in 0 .. N
  <2>1. j \in Nat /\ \A m \in 1 .. j : m \in 1 .. N
    BY <1>1
  <2>2. \A m \in 1 .. j : f[m - 1] \in A => f[m] \in A
    BY <1>3, <1>9, <2>1
  <2> QED BY <1>2, <1>9, <2>1, <2>2, Stays
<1>11. SearchLayer(nbr, q, admit, eps, ef) = f[N].res
  BY DEF SearchLayer
<1>12. Walks(f, S, nbr, q, admit, eps, ef)
  <2> HIDE DEF f
  <2> QED BY <1>9, <1>10, <1>11 DEF Walks
<1> QED BY <1>12

LEMMA SearchLayerIn ==
    ASSUME NEW S \in SUBSET Node, NEW q \in [Node -> Int], NEW admit, NEW ef,
           NEW nbr, \A c \in S : nbr[c] \in Seq(S), NEW eps \in SUBSET S
    PROVE  SearchLayer(nbr, q, admit, eps, ef) \in SUBSET S
<1>1. PICK f : Walks(f, S, nbr, q, admit, eps, ef)
  BY WalkRuns
<1>2. f[N] \in Heaps(S)
  BY <1>1, Sizes DEF Walks
<1> QED BY <1>1, <1>2 DEF Walks, Heaps

LEMMA GreedyIn ==
    ASSUME NEW S \in SUBSET Node, NEW q \in [Node -> Int],
           NEW nbr, \A c \in S : nbr[c] \in Seq(S), NEW ep \in S
    PROVE  Greedy(nbr, q, ep) \in S
<1> DEFINE Op(v) == IF nbr[v] # << >> /\ q[FirstBest(q, nbr[v])] > q[v]
                    THEN FirstBest(q, nbr[v]) ELSE v
           Body(g) == [j \in 0 .. N |-> IF j = 0 THEN ep ELSE Op(g[j - 1])]
           f == CHOOSE g : g = Body(g)
           F == [j \in Nat |-> [x \in S |-> Op(x)]]
<1>1. N \in Nat
  BY Sizes
<1>2. \A x \in S : Op(x) \in S
  BY FirstBestIn
<1>3. F \in [Nat -> [S -> S]]
  <2> HIDE DEF Op
  <2> QED BY <1>2
<1>4. PICK g \in [0 .. N -> S] : Recurs(g, ep, F, N)
  <2> HIDE DEF F
  <2> QED BY <1>1, <1>3, Recursion
<1>5. \A j \in 0 .. N : j # 0 => F[j][g[j - 1]] = Op(g[j - 1])
  <2> TAKE j \in 0 .. N
  <2> HAVE j # 0
  <2>1. j \in Nat /\ j - 1 \in 0 .. N
    BY <1>1
  <2> HIDE DEF Op
  <2> QED BY <2>1, <1>4
<1>6. g = Body(g)
  <2> HIDE DEF F, Op
  <2> QED BY <1>4, <1>5 DEF Recurs
<1>7. f = Body(f)
  <2> HIDE DEF Body
  <2> QED BY <1>6
<1>8. f[0] = ep /\ \A j \in 1 .. N : f[j] = Op(f[j - 1])
  <2> HIDE DEF f, Op
  <2> QED BY <1>1, <1>7
<1>9. f[N] \in S
  <2> HIDE DEF f, Op
  <2>1. \A j \in 1 .. N : f[j - 1] \in S => f[j] \in S
    BY <1>2, <1>8
  <2> QED BY <1>1, <1>8, <2>1, Stays
<1>10. Greedy(nbr, q, ep) = f[N]
  BY DEF Greedy
<1> QED BY <1>9, <1>10

-----------------------------------------------------------------------------
(* Selections, and the lists after an insertion.                           *)

Distinct(s) == \A i, j \in 1 .. Len(s) : s[i] = s[j] => i = j

Takes(S, limit) ==
    {s \in [left : SUBSET S, out : Seq(S)] :
        /\ Len(s.out) <= limit /\ Distinct(s.out)
        /\ \A j \in 1 .. Len(s.out) : s.out[j] \notin s.left}

LEMMA SelectedIn ==
    ASSUME NEW S \in SUBSET Node, NEW t, NEW q \in [Node -> Int],
           NEW limit \in Nat, NEW keep, NEW s \in Takes(S, limit)
    PROVE  Selected(t, q, limit, keep, s) \in Takes(S, limit)
<1> DEFINE first == s.left \cap keep
           c == IF first # {} THEN Best(q, first) ELSE Best(q, s.left)
           out == IF /\ Len(s.out) < limit
                     /\ \/ c \in keep
                        \/ \A j \in DOMAIN s.out : t[c][s.out[j]] < q[c]
                  THEN Append(s.out, c) ELSE s.out
<1>1. /\ s.left \in SUBSET S /\ s.out \in Seq(S) /\ Len(s.out) <= limit
      /\ Distinct(s.out) /\ \A j \in 1 .. Len(s.out) : s.out[j] \notin s.left
  BY DEF Takes
<1>2. CASE s.left = {}
  BY <1>2 DEF Selected
<1>3. CASE s.left # {}
  <2>1. c \in s.left
    <3>1. CASE first # {}
      <4>1. first \in SUBSET Node
        BY <1>1
      <4>2. Best(q, first) \in first
        <5> HIDE DEF first
        <5> QED BY <3>1, <4>1, BestIn
      <4> QED BY <3>1, <4>2
    <3>2. CASE first = {}
      <4>1. s.left \in SUBSET Node
        BY <1>1
      <4> QED BY <1>3, <3>2, <4>1, BestIn
    <3> QED BY <3>1, <3>2
  <2>2. /\ out \in Seq(S) /\ Len(out) <= limit /\ Distinct(out)
        /\ \A j \in 1 .. Len(out) : out[j] \notin s.left \ {c}
    <3> DEFINE o == s.out
               new == Append(o, c)
    <3>1. CASE out = o
      <4> HIDE DEF out, c
      <4> QED BY <1>1, <3>1
    <3>2. CASE out = new /\ Len(o) < limit
      <4> HIDE DEF out, c
      <4>1. Len(o) \in Nat /\ c \in S
        BY <1>1, <2>1
      <4>2. /\ new \in Seq(S) /\ Len(new) = Len(o) + 1 /\ new[Len(o) + 1] = c
            /\ \A j \in 1 .. Len(o) : new[j] = o[j]
        BY <1>1, <4>1
      <4>3. \A j \in 1 .. Len(o) : o[j] # c
        BY <1>1, <2>1
      <4> HIDE DEF new, o
      <4>4. Distinct(new)
        <5> SUFFICES ASSUME NEW i \in 1 .. Len(new), NEW j \in 1 .. Len(new),
                            new[i] = new[j]
                     PROVE  i = j
          BY DEF Distinct
        <5>1. CASE i \in 1 .. Len(o) /\ j \in 1 .. Len(o)
          <6>1. o[i] = o[j]
            BY <4>2, <5>1
          <6> QED BY <1>1, <5>1, <6>1 DEF Distinct, o
        <5>2. CASE i = Len(o) + 1 \/ j = Len(o) + 1
          BY <4>1, <4>2, <4>3, <5>2
        <5> QED BY <4>1, <4>2, <5>1, <5>2
      <4>5. \A j \in 1 .. Len(new) : new[j] \notin s.left \ {c}
        <5> TAKE j \in 1 .. Len(new)
        <5>1. CASE j \in 1 .. Len(o)
          BY <1>1, <4>2, <5>1 DEF o
        <5>2. CASE j = Len(o) + 1
          BY <4>2, <5>2
        <5> QED BY <4>1, <4>2, <5>1, <5>2
      <4>6. Len(new) <= limit
        BY <3>2, <4>1, <4>2
      <4> QED BY <3>2, <4>2, <4>4, <4>5, <4>6
    <3> HIDE DEF c
    <3> QED BY <3>1, <3>2
  <2>3. Selected(t, q, limit, keep, s) = [left |-> s.left \ {c}, out |-> out]
    BY <1>3 DEF Selected
  <2> HIDE DEF c, out
  <2> QED BY <1>1, <2>2, <2>3 DEF Takes
<1> QED BY <1>2, <1>3

\* The states of a selection.
Selects(f, t, q, S, limit, keep) ==
    /\ f[0] = [left |-> S, out |-> << >>]
    /\ \A k \in 1 .. Cardinality(S) :
          f[k] = Selected(t, q, limit, keep, f[k - 1])
    /\ \A k \in 0 .. Cardinality(S) : f[k] \in Takes(S, limit)
    /\ Select(t, q, S, limit, keep) = f[Cardinality(S)].out

LEMMA SelectRuns ==
    ASSUME NEW S \in SUBSET Node, NEW t, NEW q \in [Node -> Int],
           NEW limit \in Nat, NEW keep
    PROVE  /\ Cardinality(S) \in Nat /\ IsFiniteSet(S)
           /\ \E f : Selects(f, t, q, S, limit, keep)
<1> DEFINE A == Takes(S, limit)
           cnt == Cardinality(S)
           s == [left |-> S, out |-> << >>]
           Op(x) == Selected(t, q, limit, keep, x)
           Body(g) == [k \in 0 .. cnt |-> IF k = 0 THEN s ELSE Op(g[k - 1])]
           f == CHOOSE g : g = Body(g)
           F == [k \in Nat |-> [x \in A |-> Op(x)]]
<1>1. cnt \in Nat /\ IsFiniteSet(S)
  <2>1. IsFiniteSet(Node)
    BY Sizes, FS_Interval
  <2> QED BY <2>1, FS_Subset, FS_CardinalityType
<1>2. s \in A
  BY DEF Takes, Distinct
<1>3. \A x \in A : Op(x) \in A
  BY SelectedIn
<1>4. F \in [Nat -> [A -> A]]
  <2> HIDE DEF Op, A
  <2> QED BY <1>3
<1>5. PICK g \in [0 .. cnt -> A] : Recurs(g, s, F, cnt)
  <2> HIDE DEF F, A, s, cnt
  <2> QED BY <1>1, <1>2, <1>4, Recursion
<1>6. \A k \in 0 .. cnt : k # 0 => F[k][g[k - 1]] = Op(g[k - 1])
  <2> TAKE k \in 0 .. cnt
  <2> HAVE k # 0
  <2>1. k \in Nat /\ k - 1 \in 0 .. cnt
    <3> HIDE DEF cnt
    <3> QED BY <1>1
  <2> HIDE DEF Op, A, cnt
  <2> QED BY <2>1, <1>5
<1>7. g = Body(g)
  <2> HIDE DEF F, Op, A, s, cnt
  <2> QED BY <1>5, <1>6 DEF Recurs
<1>8. f = Body(f)
  <2> HIDE DEF Body
  <2> QED BY <1>7
<1>9. f[0] = s /\ \A k \in 1 .. cnt : f[k] = Op(f[k - 1])
  <2> HIDE DEF f, Op, s, cnt
  <2> QED BY <1>1, <1>8
<1>10. \A k \in 0 .. cnt : f[k] \in A
  <2> HIDE DEF f, Op, A, s, cnt
  <2> TAKE k \in 0 .. cnt
  <2>1. k \in Nat /\ \A j \in 1 .. k : j \in 1 .. cnt
    BY <1>1
  <2>2. \A j \in 1 .. k : f[j - 1] \in A => f[j] \in A
    BY <1>3, <1>9, <2>1
  <2> QED BY <1>2, <1>9, <2>1, <2>2, Stays
<1>11. Select(t, q, S, limit, keep) = f[cnt].out
  BY DEF Select
<1>12. Selects(f, t, q, S, limit, keep)
  <2> HIDE DEF f
  <2> QED BY <1>9, <1>10, <1>11 DEF Selects
<1> QED BY <1>1, <1>12

\* A selection is a list of the given rows, each once, within the limit.
LEMMA SelectIn ==
    ASSUME NEW S \in SUBSET Node, NEW t, NEW q \in [Node -> Int],
           NEW limit \in Nat, NEW keep
    PROVE  /\ Select(t, q, S, limit, keep) \in Seq(S)
           /\ Len(Select(t, q, S, limit, keep)) <= limit
           /\ Distinct(Select(t, q, S, limit, keep))
<1>1. PICK f : Selects(f, t, q, S, limit, keep)
  BY SelectRuns
<1>2. Cardinality(S) \in Nat
  BY SelectRuns
<1> QED BY <1>1, <1>2 DEF Selects, Takes

\* After k rows, with those to keep within the limit: none of them is passed
\* over, and while some are left nothing else is taken.
Keeping(s, S, keep, k) ==
    /\ Cardinality(s.left) = Cardinality(S) - k
    /\ keep \ s.left \subseteq ToSet(s.out)
    /\ s.left \cap keep # {} =>
          Len(s.out) + Cardinality(s.left \cap keep) = Cardinality(keep)

LEMMA SelectedKeeps ==
    ASSUME NEW S \in SUBSET Node, NEW t, NEW q \in [Node -> Int],
           NEW limit \in Nat, NEW keep \in SUBSET S,
           IsFiniteSet(S), Cardinality(keep) <= limit,
           NEW k \in Nat, k < Cardinality(S),
           NEW s \in Takes(S, limit), Keeping(s, S, keep, k)
    PROVE  Keeping(Selected(t, q, limit, keep, s), S, keep, k + 1)
<1> DEFINE first == s.left \cap keep
           c == IF first # {} THEN Best(q, first) ELSE Best(q, s.left)
           takes == /\ Len(s.out) < limit
                    /\ \/ c \in keep
                       \/ \A j \in DOMAIN s.out : t[c][s.out[j]] < q[c]
           out == IF takes THEN Append(s.out, c) ELSE s.out
           z == [left |-> s.left \ {c}, out |-> out]
<1>1. s.left \in SUBSET S /\ s.out \in Seq(S) /\ Len(s.out) \in Nat
  BY DEF Takes
<1>2. /\ IsFiniteSet(s.left) /\ IsFiniteSet(keep) /\ IsFiniteSet(first)
      /\ Cardinality(S) \in Nat /\ Cardinality(s.left) \in Nat
      /\ Cardinality(keep) \in Nat /\ Cardinality(first) \in Nat
  <2>1. first \in SUBSET S
    BY <1>1
  <2>2. IsFiniteSet(s.left) /\ IsFiniteSet(keep) /\ IsFiniteSet(first)
    <3> HIDE DEF first
    <3> QED BY <1>1, <2>1, FS_Subset
  <2> QED BY <2>2, FS_CardinalityType
<1>3. s.left # {}
  <2>1. Cardinality(s.left) # 0
    BY <1>2 DEF Keeping
  <2> QED BY <1>2, <2>1, FS_EmptySet
<1>4. c \in s.left /\ (first # {} => c \in first)
  <2>1. CASE first # {}
    <3>1. first \in SUBSET Node
      BY <1>1
    <3>2. Best(q, first) \in first
      <4> HIDE DEF first
      <4> QED BY <2>1, <3>1, BestIn
    <3> QED BY <2>1, <3>2
  <2>2. CASE first = {}
    <3>1. s.left \in SUBSET Node
      BY <1>1
    <3> QED BY <1>3, <2>2, <3>1, BestIn
  <2> QED BY <2>1, <2>2
<1>5. Selected(t, q, limit, keep, s) = z
  BY <1>3 DEF Selected
<1> HIDE DEF c, takes
<1>6. Cardinality(z.left) = Cardinality(S) - (k + 1)
  <2>1. Cardinality(s.left \ {c}) = Cardinality(s.left) - 1
    BY <1>2, <1>4, FS_RemoveElement
  <2> QED BY <1>2, <2>1 DEF Keeping
<1>7. first # {} => takes /\ c \in keep
  <2> HAVE first # {}
  <2>1. Cardinality(first) # 0
    BY <1>2, FS_EmptySet
  <2>2. Len(s.out) + Cardinality(first) = Cardinality(keep)
    BY DEF Keeping
  <2>3. Len(s.out) < limit
    <3> HIDE DEF first
    <3> QED BY <1>1, <1>2, <2>1, <2>2
  <2>4. c \in keep
    BY <1>4
  <2> QED BY <2>3, <2>4 DEF takes
<1>8. /\ ToSet(s.out) \subseteq ToSet(out)
      /\ takes => c \in ToSet(out) /\ Len(out) = Len(s.out) + 1
  <2>1. CASE ~takes
    BY <2>1
  <2>2. CASE takes
    <3>1. out = Append(s.out, c)
      BY <2>2
    <3>2. /\ Len(out) = Len(s.out) + 1 /\ DOMAIN out = 1 .. Len(s.out) + 1
          /\ out[Len(s.out) + 1] = c /\ DOMAIN s.out = 1 .. Len(s.out)
          /\ \A j \in 1 .. Len(s.out) : out[j] = s.out[j]
      <4> HIDE DEF out
      <4> QED BY <1>1, <3>1
    <3>3. 1 .. Len(s.out) \subseteq 1 .. Len(s.out) + 1
          /\ Len(s.out) + 1 \in 1 .. Len(s.out) + 1
      BY <1>1
    <3> HIDE DEF out
    <3> QED BY <3>2, <3>3 DEF ToSet
  <2> QED BY <2>1, <2>2
<1> HIDE DEF out
<1>9. keep \ z.left \subseteq ToSet(z.out)
  <2> SUFFICES ASSUME NEW x \in keep, x \notin s.left \ {c}
               PROVE  x \in ToSet(out)
    OBVIOUS
  <2>1. CASE x \notin s.left
    BY <1>8, <2>1 DEF Keeping
  <2>2. CASE x = c /\ x \in s.left
    BY <1>7, <1>8, <2>2
  <2> QED BY <2>1, <2>2
<1>10. ASSUME z.left \cap keep # {}
       PROVE  Len(z.out) + Cardinality(z.left \cap keep) = Cardinality(keep)
  <2>1. first # {} /\ z.left \cap keep = first \ {c}
    BY <1>10
  <2>2. c \in first /\ Len(out) = Len(s.out) + 1
    BY <1>4, <1>7, <1>8, <2>1
  <2>3. Len(s.out) + Cardinality(first) = Cardinality(keep)
    BY <2>1 DEF Keeping
  <2> HIDE DEF first
  <2>4. Cardinality(first \ {c}) = Cardinality(first) - 1
    BY <1>2, <2>2, FS_RemoveElement
  <2>5. Len(z.out) = Len(s.out) + 1
    BY <2>2
  <2>6. Cardinality(z.left \cap keep) = Cardinality(first) - 1
    <3> HIDE DEF z
    <3> QED BY <2>1, <2>4
  <2>7. Cardinality(first) \in Nat /\ Cardinality(keep) \in Nat
    BY <1>2 DEF first
  <2> HIDE DEF z
  <2> QED BY <1>1, <2>3, <2>5, <2>6, <2>7
<1> HIDE DEF z
<1> QED BY <1>5, <1>6, <1>9, <1>10 DEF Keeping

\* A selection keeps the rows it has to keep, as long as they fit.
LEMMA SelectKeeps ==
    ASSUME NEW S \in SUBSET Node, NEW t, NEW q \in [Node -> Int],
           NEW limit \in Nat, NEW keep \in SUBSET S, Cardinality(keep) <= limit
    PROVE  keep \subseteq ToSet(Select(t, q, S, limit, keep))
<1> DEFINE cnt == Cardinality(S)
<1>1. PICK f : Selects(f, t, q, S, limit, keep)
  BY SelectRuns
<1>2. cnt \in Nat /\ IsFiniteSet(S)
  BY SelectRuns
<1> DEFINE T == {k \in Nat : k <= cnt => Keeping(f[k], S, keep, k)}
<1>3. 0 \in T
  <2>1. f[0].left = S /\ f[0].out = << >> /\ S \cap keep = keep /\ keep \ S = {}
    BY <1>1 DEF Selects
  <2>2. Cardinality(keep) \in Nat
    BY <1>2, FS_Subset, FS_CardinalityType
  <2>3. /\ Cardinality(f[0].left) = cnt - 0 /\ Len(f[0].out) = 0
        /\ f[0].left \cap keep = keep /\ keep \ f[0].left = {}
    <3> HIDE DEF cnt
    <3> QED BY <1>2, <2>1 DEF cnt
  <2>4. Len(f[0].out) + Cardinality(f[0].left \cap keep) = Cardinality(keep)
    <3>1. Cardinality(f[0].left \cap keep) = Cardinality(keep)
      BY <2>3, Zenon
    <3>2. Len(f[0].out) = 0
      BY <2>3
    <3> DEFINE m == Cardinality(f[0].left \cap keep)
    <3>3. m = Cardinality(keep)
      BY <3>1
    <3> HIDE DEF m
    <3>4. Len(f[0].out) + m = Cardinality(keep)
      BY <2>2, <3>2, <3>3
    <3> QED BY <3>4 DEF m
  <2>5. Keeping(f[0], S, keep, 0)
    BY <2>3, <2>4 DEF Keeping
  <2> QED BY <2>5
<1>4. \A k \in 0 .. cnt - 1 : k \in T => k + 1 \in T
  <2> TAKE k \in 0 .. cnt - 1
  <2> HAVE k \in T
  <2>1. k \in Nat /\ k < cnt /\ k \in 0 .. cnt /\ k + 1 \in 1 .. cnt /\ (k + 1) - 1 = k
        /\ k <= cnt
    <3> HIDE DEF cnt
    <3> QED BY <1>2
  <2>2. /\ f[k] \in Takes(S, limit) /\ Keeping(f[k], S, keep, k)
        /\ f[k + 1] = Selected(t, q, limit, keep, f[k])
    BY <1>1, <2>1 DEF Selects
  <2>3. Keeping(f[k + 1], S, keep, k + 1)
    BY <1>2, <2>1, <2>2, SelectedKeeps
  <2> HIDE DEF cnt
  <2> QED BY <2>1, <2>3
<1>5. cnt \in T
  <2> HIDE DEF T, cnt
  <2>1. T \in SUBSET Nat
    BY DEF T
  <2> QED BY <1>2, <1>3, <1>4, <2>1, Steps
<1>6. Keeping(f[cnt], S, keep, cnt) /\ f[cnt] \in Takes(S, limit)
  BY <1>1, <1>2, <1>5 DEF Selects
<1>7. f[cnt].left = {}
  <2>1. f[cnt].left \in SUBSET S /\ Cardinality(f[cnt].left) = 0
    BY <1>2, <1>6 DEF Keeping, Takes
  <2> HIDE DEF cnt
  <2>2. IsFiniteSet(f[cnt].left)
    BY <1>2, <2>1, FS_Subset
  <2> QED BY <2>1, <2>2, FS_EmptySet
<1> QED BY <1>1, <1>6, <1>7 DEF Keeping, Selects

LEMMA SeqIn ==
    ASSUME NEW S, NEW T, S \subseteq T, NEW s \in Seq(S)
    PROVE  s \in Seq(T)
OBVIOUS

LEMMA BackEdgeIn ==
    ASSUME NEW S \in SUBSET Node, NEW t, NEW v, t[v] \in [Node -> Int],
           NEW l \in Layer, NEW list \in Seq(S), Len(list) <= Cap(l),
           NEW x \in S
    PROVE  /\ WithBackEdge(t, list, v, x, l) \in Seq(S)
           /\ Len(WithBackEdge(t, list, v, x, l)) <= Cap(l)
<1> DEFINE all == ToSet(list) \cup {x}
           pruned == Select(t, t[v], all, Cap(l), {})
<1>1. Cap(l) \in Nat /\ Len(list) \in Nat
  BY Sizes
<1>2. all \in SUBSET S /\ all \in SUBSET Node
  BY DEF ToSet
<1>3. pruned \in Seq(all) /\ Len(pruned) <= Cap(l)
  <2> HIDE DEF all
  <2> QED BY <1>1, <1>2, SelectIn
<1>4. pruned \in Seq(S)
  <2> HIDE DEF all, pruned
  <2> QED BY <1>2, <1>3, SeqIn
<1>5. Append(list, x) \in Seq(S) /\ Len(Append(list, x)) = Len(list) + 1
  OBVIOUS
<1>6. WithBackEdge(t, list, v, x, l) =
        IF Len(list) < Cap(l) THEN Append(list, x) ELSE pruned
  BY DEF WithBackEdge
<1> HIDE DEF pruned
<1> QED BY <1>1, <1>3, <1>4, <1>5, <1>6

\* Lists of layer l hold rows of T[l].
Holds(lists, T) ==
    \A v \in Node, l \in Layer : lists[v][l] \in Seq(T[l])

\* What is on a layer is on those below.
Levels == {T \in [Layer -> SUBSET Node] :
              \A l, k \in Layer : l <= k => T[k] \subseteq T[l]}

LEMMA LayerOf ==
    ASSUME NEW lists, NEW T \in Levels, Holds(lists, T), NEW l \in Layer
    PROVE  /\ T[l] \in SUBSET Node
           /\ \A c \in T[l] : [v \in Node |-> lists[v][l]][c] \in Seq(T[l])
           /\ \A c \in Node : [v \in Node |-> lists[v][l]][c] \in Seq(Node)
<1>1. T[l] \in SUBSET Node
  BY DEF Levels
<1>2. \A c \in Node : lists[c][l] \in Seq(T[l])
  BY DEF Holds
<1>3. \A c \in Node : lists[c][l] \in Seq(Node)
  BY <1>1, <1>2, SeqIn
<1> QED BY <1>1, <1>2, <1>3

\* The descent comes to a row of the layer it ends on.
LEMMA DescendIn ==
    ASSUME NEW lists, NEW T \in Levels, Holds(lists, T),
           NEW q \in [Node -> Int], NEW from \in Layer, NEW to \in Layer,
           to <= from, NEW ep \in T[from]
    PROVE  Descend(lists, q, ep, from, to) \in T[to]
<1> DEFINE cnt == MaxOf(from - to, 0)
           Op(k, x) == Greedy([v \in Node |-> lists[v][from - k + 1]], q, x)
           Body(g) == [k \in 0 .. cnt |-> IF k = 0 THEN ep ELSE Op(k, g[k - 1])]
           f == CHOOSE g : g = Body(g)
           F == [k \in Nat |-> [x \in Node |-> IF k \in 1 .. cnt THEN Op(k, x) ELSE x]]
<1>1. cnt = from - to /\ cnt \in Nat /\ \A k \in 1 .. cnt : from - k + 1 \in Layer
  BY Sizes DEF MaxOf
<1>2. \A k \in 1 .. cnt : \A x \in Node : Op(k, x) \in Node
  <2> TAKE k \in 1 .. cnt
  <2> TAKE x \in Node
  <2> DEFINE nbr == [v \in Node |-> lists[v][from - k + 1]]
  <2>1. \A c \in Node : nbr[c] \in Seq(Node)
    BY <1>1, LayerOf
  <2> HIDE DEF nbr
  <2>2. Greedy(nbr, q, x) \in Node
    BY <2>1, GreedyIn
  <2> QED BY <2>2 DEF nbr
<1>3. F \in [Nat -> [Node -> Node]]
  <2> HIDE DEF Op, cnt
  <2> QED BY <1>2
<1>4. ep \in Node
  BY DEF Levels
<1>5. PICK g \in [0 .. cnt -> Node] : Recurs(g, ep, F, cnt)
  <2> HIDE DEF F, cnt
  <2> QED BY <1>1, <1>3, <1>4, Recursion
<1>6. \A k \in 0 .. cnt : k # 0 => F[k][g[k - 1]] = Op(k, g[k - 1])
  <2> TAKE k \in 0 .. cnt
  <2> HAVE k # 0
  <2> HIDE DEF cnt
  <2>1. k \in Nat /\ k - 1 \in 0 .. cnt /\ k \in 1 .. cnt
    BY <1>1
  <2> HIDE DEF Op
  <2> QED BY <2>1, <1>5
<1>7. g = Body(g)
  <2> HIDE DEF F, Op, cnt
  <2> QED BY <1>5, <1>6 DEF Recurs
<1>8. f = Body(f)
  <2> HIDE DEF Body
  <2> QED BY <1>7
<1>9. f[0] = ep /\ \A k \in 1 .. cnt : f[k] = Op(k, f[k - 1])
  <2> HIDE DEF f, Op, cnt
  <2>1. 0 \in 0 .. cnt /\ \A k \in 1 .. cnt : k \in 0 .. cnt /\ k # 0
    BY <1>1
  <2> QED BY <1>8, <2>1
<1> DEFINE P == {k \in Nat : k <= cnt => f[k] \in T[from - k]}
<1>10. 0 \in P
  <2>1. from - 0 = from
    BY Sizes
  <2>2. f[0] \in T[from - 0]
    <3> HIDE DEF f
    <3> QED BY <1>9, <2>1
  <2> HIDE DEF f
  <2> QED BY <2>2
<1>11. \A k \in 0 .. cnt - 1 : k \in P => k + 1 \in P
  <2> TAKE k \in 0 .. cnt - 1
  <2> HAVE k \in P
  <2> HIDE DEF cnt, f
  <2> DEFINE l == from - k
             nbr == [v \in Node |-> lists[v][l]]
  <2>1. k \in Nat /\ k + 1 \in 1 .. cnt /\ (k + 1) - 1 = k /\ k <= cnt
    BY <1>1
  <2>2. l \in Layer /\ l - 1 \in Layer /\ l = from - (k + 1) + 1
        /\ l - 1 = from - (k + 1) /\ l - 1 <= l
    BY <1>1, <2>1, Sizes
  <2>3. f[k] \in T[l]
    BY <2>1
  <2>4. f[k + 1] = Greedy(nbr, q, f[k])
    <3>1. f[k + 1] = Op(k + 1, f[k])
      <4> HIDE DEF Op
      <4> QED BY <1>9, <2>1
    <3> QED BY <2>2, <3>1
  <2>5. T[l] \in SUBSET Node /\ \A c \in T[l] : nbr[c] \in Seq(T[l])
    <3> HIDE DEF l
    <3> QED BY <2>2, LayerOf
  <2>6. f[k + 1] \in T[l]
    <3> DEFINE S == T[l]
               v == f[k]
    <3>1. S \in SUBSET Node /\ v \in S /\ \A c \in S : nbr[c] \in Seq(S)
      BY <2>3, <2>5
    <3> HIDE DEF nbr, l, S, v
    <3>2. Greedy(nbr, q, v) \in S
      BY <3>1, GreedyIn
    <3> QED BY <2>4, <3>2 DEF S, v
  <2>7. T[l] \subseteq T[l - 1]
    <3> HIDE DEF l
    <3> QED BY <2>2 DEF Levels
  <2>8. f[k + 1] \in T[from - (k + 1)]
    BY <2>2, <2>6, <2>7
  <2> QED BY <2>1, <2>8
<1>12. cnt \in P
  <2> HIDE DEF P, cnt
  <2>1. P \in SUBSET Nat
    BY DEF P
  <2> QED BY <1>1, <1>10, <1>11, <2>1, Steps
<1>13. from - cnt = to /\ cnt <= cnt
  BY <1>1, Sizes
<1>14. Descend(lists, q, ep, from, to) = f[cnt]
  BY DEF Descend
<1> HIDE DEF f, cnt
<1> QED BY <1>1, <1>12, <1>13, <1>14

\* What the walks of an insertion find, layer by layer from lmax down.
FoundOf(t, lists, x, lvl, ep, high) ==
    LET cnt == MinOf(lvl, high)
        begin == {Descend(lists, t[x], ep, high, cnt)}
        Found[k \in 0 .. cnt + 1] ==
            IF k = 0 THEN begin
            ELSE SearchLayer([v \in Node |-> lists[v][cnt - k + 1]], t[x], Node,
                             Found[k - 1], EfC)
    IN  Found

\* f is what the insertion of row x finds among lists that hold rows of T.
Links(f, T, t, lists, x, lvl, ep, high, cnt) ==
    /\ t \in [Node -> [Node -> Int]] /\ T \in Levels /\ Holds(lists, T)
    /\ x \in Node /\ lvl \in Layer /\ high \in Layer /\ ep \in T[high]
    /\ cnt = MinOf(lvl, high) /\ f = FoundOf(t, lists, x, lvl, ep, high)

Descends(f, t, lists, x, cnt, ep, high) ==
    /\ f[0] = {Descend(lists, t[x], ep, high, cnt)}
    /\ \A k \in 1 .. cnt + 1 :
          f[k] = SearchLayer([v \in Node |-> lists[v][cnt - k + 1]], t[x], Node,
                             f[k - 1], EfC)

LEMMA FoundIs ==
    ASSUME NEW f, NEW T, NEW t, NEW lists, NEW x, NEW lvl, NEW ep, NEW high, NEW cnt,
           Links(f, T, t, lists, x, lvl, ep, high, cnt)
    PROVE  /\ cnt \in Layer /\ cnt <= lvl /\ cnt <= high
           /\ f[0] \in SUBSET T[cnt] /\ Descends(f, t, lists, x, cnt, ep, high)
<1> DEFINE q == t[x]
           begin == {Descend(lists, q, ep, high, cnt)}
           Op(k, s) == SearchLayer([v \in Node |-> lists[v][cnt - k + 1]], q,
                                   Node, s, EfC)
           Body(g) == [k \in 0 .. cnt + 1 |-> IF k = 0 THEN begin ELSE Op(k, g[k - 1])]
           h == CHOOSE g : g = Body(g)
           A == SUBSET Node
           F == [k \in Nat |-> [s \in A |-> IF k \in 1 .. cnt + 1 THEN Op(k, s) ELSE s]]
<1>0. /\ t \in [Node -> [Node -> Int]] /\ T \in Levels /\ Holds(lists, T)
      /\ x \in Node /\ lvl \in Layer /\ high \in Layer /\ ep \in T[high]
      /\ cnt = MinOf(lvl, high) /\ f = FoundOf(t, lists, x, lvl, ep, high)
  BY DEF Links
<1>1. /\ cnt \in Layer /\ cnt <= lvl /\ cnt <= high /\ cnt + 1 \in Nat
      /\ \A k \in 1 .. cnt + 1 : cnt - k + 1 \in Layer
  <2>1. cnt \in Layer /\ cnt <= lvl /\ cnt <= high
    BY <1>0, Sizes DEF MinOf
  <2> HIDE DEF q, begin, Op, h, F, A
  <2>2. cnt \in Nat /\ cnt <= MaxLevel /\ MaxLevel \in Nat /\ Layer = 0 .. MaxLevel
    BY <2>1, Sizes
  <2>3. \A k \in 1 .. cnt + 1 : cnt - k + 1 \in Layer
    BY <2>2
  <2> QED BY <2>1, <2>2, <2>3
<1>2. q \in [Node -> Int]
  BY <1>0
<1>3. begin \in SUBSET T[cnt]
  <2> HIDE DEF q
  <2> QED BY <1>0, <1>1, <1>2, DescendIn
<1>4. T[cnt] \in SUBSET Node
  BY <1>0, <1>1 DEF Levels
<1>5. \A k \in 1 .. cnt + 1 : \A s \in A : Op(k, s) \in A
  <2> TAKE k \in 1 .. cnt + 1
  <2> TAKE s \in A
  <2> DEFINE nbr == [v \in Node |-> lists[v][cnt - k + 1]]
  <2>1. \A c \in Node : nbr[c] \in Seq(Node)
    BY <1>0, <1>1, LayerOf
  <2> HIDE DEF nbr, q
  <2>2. SearchLayer(nbr, q, Node, s, EfC) \in SUBSET Node
    BY <1>2, <2>1, SearchLayerIn
  <2> QED BY <2>2 DEF nbr
<1>6. F \in [Nat -> [A -> A]]
  <2> HIDE DEF Op, A
  <2> QED BY <1>5
<1>7. PICK g \in [0 .. cnt + 1 -> A] : Recurs(g, begin, F, cnt + 1)
  <2>1. begin \in A
    <3> HIDE DEF begin
    <3> QED BY <1>3, <1>4
  <2> HIDE DEF F, A, begin
  <2> QED BY <1>1, <1>6, <2>1, Recursion
<1>8. \A k \in 0 .. cnt + 1 : k # 0 => F[k][g[k - 1]] = Op(k, g[k - 1])
  <2> TAKE k \in 0 .. cnt + 1
  <2> HAVE k # 0
  <2>1. k \in Nat /\ k - 1 \in 0 .. cnt + 1 /\ k \in 1 .. cnt + 1
    BY <1>1
  <2> HIDE DEF Op, A
  <2> QED BY <2>1, <1>7
<1>9. g = Body(g)
  <2> HIDE DEF F, Op, A, begin
  <2> QED BY <1>7, <1>8 DEF Recurs
<1>10. h = Body(h)
  <2> HIDE DEF Body
  <2> QED BY <1>9
<1>11. h[0] = begin /\ \A k \in 1 .. cnt + 1 : h[k] = Op(k, h[k - 1])
  <2> HIDE DEF h, Op, begin
  <2> QED BY <1>1, <1>10
<1>12. f = h
  BY <1>0 DEF FoundOf
<1>13. Descends(h, t, lists, x, cnt, ep, high)
  <2> HIDE DEF h
  <2> QED BY <1>11 DEF Descends
<1> HIDE DEF h
<1> QED BY <1>1, <1>3, <1>11, <1>12, <1>13

\* What is found on a layer is on that layer.
LEMMA FoundIn ==
    ASSUME NEW f, NEW T, NEW t, NEW lists, NEW x, NEW lvl, NEW ep, NEW high, NEW cnt,
           Links(f, T, t, lists, x, lvl, ep, high, cnt), NEW l \in 0 .. cnt
    PROVE  l \in Layer /\ f[cnt - l + 1] \in SUBSET T[l]
<1>0. /\ t \in [Node -> [Node -> Int]] /\ T \in Levels /\ Holds(lists, T)
      /\ x \in Node
  BY DEF Links
<1>1. /\ cnt \in Layer /\ cnt <= lvl /\ cnt <= high /\ f[0] \in SUBSET T[cnt]
      /\ Descends(f, t, lists, x, cnt, ep, high)
  BY FoundIs
<1>2. /\ cnt \in Nat /\ MaxLevel \in Nat /\ cnt <= MaxLevel
      /\ \A j : j \in Layer <=> j \in 0 .. MaxLevel
  BY <1>1, Sizes
<1> DEFINE P == {k \in Nat : k <= cnt + 1 =>
                    \A j \in Layer : j <= cnt /\ j <= cnt - k + 1 => f[k] \subseteq T[j]}
<1>3. 0 \in P
  <2>1. \A j \in Layer : j <= cnt => f[0] \subseteq T[j]
    BY <1>0, <1>1 DEF Levels
  <2> QED BY <2>1
<1>4. \A k \in 0 .. (cnt + 1) - 1 : k \in P => k + 1 \in P
  <2> TAKE k \in 0 .. (cnt + 1) - 1
  <2> HAVE k \in P
  <2> DEFINE q == t[x]
             h == cnt - k
             nbr == [v \in Node |-> lists[v][h]]
  <2>1. k \in Nat /\ k + 1 \in 1 .. cnt + 1 /\ (k + 1) - 1 = k /\ k <= cnt + 1
    BY <1>2
  <2>2. h \in Layer /\ h = cnt - (k + 1) + 1 /\ h <= cnt /\ h <= cnt - k + 1
    <3>1. h \in 0 .. MaxLevel /\ h = cnt - (k + 1) + 1 /\ h <= cnt /\ h <= cnt - k + 1
      BY <1>2, <2>1
    <3> HIDE DEF h
    <3> QED BY <1>2, <3>1
  <2>3. f[k] \subseteq T[h]
    BY <2>1, <2>2
  <2>4. f[k + 1] = SearchLayer(nbr, q, Node, f[k], EfC)
    <3>1. f[k + 1] = SearchLayer([v \in Node |-> lists[v][cnt - (k + 1) + 1]], t[x],
                                  Node, f[(k + 1) - 1], EfC)
      BY <1>1, <2>1 DEF Descends
    <3> QED BY <2>1, <2>2, <3>1
  <2>5. T[h] \in SUBSET Node /\ \A c \in T[h] : nbr[c] \in Seq(T[h])
    <3> HIDE DEF h
    <3> QED BY <1>0, <2>2, LayerOf
  <2>6. f[k + 1] \subseteq T[h]
    <3> DEFINE S == T[h]
               s == f[k]
    <3>1. /\ S \in SUBSET Node /\ s \in SUBSET S /\ \A c \in S : nbr[c] \in Seq(S)
          /\ q \in [Node -> Int]
      BY <1>0, <2>3, <2>5
    <3> HIDE DEF nbr, h, S, s, q
    <3>2. SearchLayer(nbr, q, Node, s, EfC) \in SUBSET S
      BY <3>1, SearchLayerIn
    <3> QED BY <2>4, <3>2 DEF S, s
  <2>7. \A j \in Layer : j <= cnt - (k + 1) + 1 => T[h] \subseteq T[j]
    <3> HIDE DEF h
    <3> QED BY <1>0, <2>2 DEF Levels
  <2>8. \A j \in Layer : j <= cnt /\ j <= cnt - (k + 1) + 1 => f[k + 1] \subseteq T[j]
    <3> HIDE DEF h
    <3> QED BY <2>6, <2>7
  <2> QED BY <2>1, <2>8
<1>5. \A k \in 0 .. cnt + 1 : k \in P
  <2> TAKE k \in 0 .. cnt + 1
  <2> HIDE DEF P
  <2>1. P \in SUBSET Nat /\ k \in Nat
    BY <1>2 DEF P
  <2>2. \A j \in 0 .. k - 1 : j \in P => j + 1 \in P
    BY <1>2, <1>4
  <2> QED BY <1>3, <2>1, <2>2, Steps
<1>6. cnt - l + 1 \in 0 .. cnt + 1 /\ l <= cnt - (cnt - l + 1) + 1 /\ l \in Layer /\ l <= cnt
  BY <1>2
<1> QED BY <1>5, <1>6

\* The list of v on layer l after the insertion of row x.
LinkedAt(t, lists, x, cnt, f, v, l) ==
    LET best == Select(t, t[x], f[cnt - l + 1], M, {})
    IN  IF l > cnt THEN lists[v][l]
        ELSE IF v = x THEN best
        ELSE IF Contains(best, v) THEN WithBackEdge(t, lists[v][l], v, x, l)
        ELSE lists[v][l]

LEMMA LinkedIs ==
    ASSUME NEW t, NEW lists, NEW x, NEW lvl \in Layer, NEW high \in Layer, NEW ep,
           NEW cnt, cnt = MinOf(lvl, high),
           NEW f, f = FoundOf(t, lists, x, lvl, ep, high),
           NEW v \in Node, NEW l \in Layer
    PROVE  Linked(t, lists, x, lvl, ep, high)[v][l]
             = LinkedAt(t, lists, x, cnt, f, v, l)
<1> DEFINE chosen == [j \in 0 .. cnt |-> Select(t, t[x], f[cnt - j + 1], M, {})]
           new == Linked(t, lists, x, lvl, ep, high)
<1>1. new = [u \in Node |-> [j \in Layer |->
                IF j > cnt THEN lists[u][j]
                ELSE IF u = x THEN chosen[j]
                ELSE IF Contains(chosen[j], u)
                     THEN WithBackEdge(t, lists[u][j], u, x, j)
                ELSE lists[u][j]]]
  BY DEF Linked, FoundOf
<1> HIDE DEF new
<1>2. CASE l > cnt
  <2> HIDE DEF chosen
  <2> QED BY <1>1, <1>2 DEF new, LinkedAt
<1>3. CASE ~(l > cnt)
  <2>1. l \in 0 .. cnt
    BY <1>3, Sizes DEF MinOf
  <2>2. chosen[l] = Select(t, t[x], f[cnt - l + 1], M, {})
    BY <2>1
  <2> HIDE DEF chosen
  <2> QED BY <1>1, <1>3, <2>2 DEF new, LinkedAt
<1> QED BY <1>2, <1>3

\* Other lists may hold row x then.
LEMMA LinkedIn ==
    ASSUME NEW t \in [Node -> [Node -> Int]], NEW lists, NEW T \in Levels,
           Holds(lists, T),
           \A v \in Node, l \in Layer : Len(lists[v][l]) <= Cap(l),
           NEW x \in Node, NEW lvl \in Layer, NEW high \in Layer,
           NEW ep \in T[high]
    PROVE  LET new == Linked(t, lists, x, lvl, ep, high)
           IN  \A v \in Node, l \in Layer :
                  /\ Len(new[v][l]) <= Cap(l)
                  /\ new[v][l] \in Seq(IF l <= lvl THEN T[l] \cup {x} ELSE T[l])
<1> DEFINE new == Linked(t, lists, x, lvl, ep, high)
<1> SUFFICES ASSUME NEW v \in Node, NEW l \in Layer
             PROVE  /\ Len(new[v][l]) <= Cap(l)
                    /\ new[v][l] \in Seq(IF l <= lvl THEN T[l] \cup {x} ELSE T[l])
  OBVIOUS
<1>1. PICK cnt, f : cnt = MinOf(lvl, high) /\ f = FoundOf(t, lists, x, lvl, ep, high)
  OBVIOUS
<1>2. cnt \in Layer /\ cnt <= lvl /\ cnt <= high
  BY <1>1, Sizes DEF MinOf
<1> DEFINE S == T[l] \cup {x}
           old == lists[v][l]
           best == Select(t, t[x], f[cnt - l + 1], M, {})
<1>3. new[v][l] = IF l > cnt THEN old ELSE IF v = x THEN best
                  ELSE IF Contains(best, v) THEN WithBackEdge(t, old, v, x, l)
                  ELSE old
  BY <1>1, LinkedIs DEF LinkedAt
<1>4. /\ old \in Seq(T[l]) /\ Len(old) <= Cap(l) /\ T[l] \in SUBSET Node
      /\ S \in SUBSET Node /\ x \in S /\ T[l] \subseteq S
  BY DEF Holds, Levels
<1>5. old \in Seq(S)
  <2> HIDE DEF S, old
  <2> QED BY <1>4, SeqIn
<1> HIDE DEF new
<1>6. CASE l > cnt
  <2>1. new[v][l] = old
    <3> HIDE DEF best
    <3> QED BY <1>3, <1>6
  <2> HIDE DEF old
  <2> QED BY <1>4, <1>5, <2>1
<1>7. CASE ~(l > cnt)
  <2>1. l \in 0 .. cnt /\ l <= lvl
    BY <1>2, <1>7, Sizes
  <2>2. /\ Len(WithBackEdge(t, old, v, x, l)) <= Cap(l)
        /\ WithBackEdge(t, old, v, x, l) \in Seq(S)
    <3>1. t[v] \in [Node -> Int]
      OBVIOUS
    <3> HIDE DEF S, old
    <3> QED BY <1>4, <1>5, <3>1, BackEdgeIn
  <2>3. best \in Seq(S) /\ Len(best) <= Cap(l)
    <3> DEFINE s == f[cnt - l + 1]
               q == t[x]
    <3>1. s \in SUBSET T[l]
      <4>1. Links(f, T, t, lists, x, lvl, ep, high, cnt)
        BY <1>1 DEF Links
      <4> QED BY <2>1, <4>1, FoundIn
    <3>2. s \in SUBSET Node /\ q \in [Node -> Int] /\ M \in Nat /\ Cap(l) \in Nat
          /\ Cap(l) >= M
      BY <1>4, <3>1, Sizes
    <3> HIDE DEF s, q
    <3> DEFINE c == Select(t, q, s, M, {})
    <3>3. c \in Seq(s) /\ Len(c) <= M
      BY <3>2, SelectIn
    <3>4. best = c
      BY DEF s, q
    <3> HIDE DEF c, best
    <3>5. s \subseteq S
      BY <1>4, <3>1
    <3>6. c \in Seq(S)
      <4> HIDE DEF S
      <4> QED BY <3>3, <3>5, SeqIn
    <3>7. Len(c) \in Nat
      BY <3>3
    <3> QED BY <3>2, <3>3, <3>4, <3>6, <3>7
  <2>4. \/ new[v][l] = old \/ new[v][l] = best
        \/ new[v][l] = WithBackEdge(t, old, v, x, l)
    <3> HIDE DEF best
    <3> QED BY <1>3, <1>7
  <2> HIDE DEF old, best, S
  <2>5. Len(new[v][l]) <= Cap(l) /\ new[v][l] \in Seq(S)
    BY <1>4, <1>5, <2>2, <2>3, <2>4
  <2> QED BY <2>1, <2>5 DEF S
<1> QED BY <1>6, <1>7

-----------------------------------------------------------------------------
(* Lists of nodes of one set on all layers.                                *)

Flat(S) == [l \in Layer |-> S]

LEMMA FlatHolds ==
    ASSUME NEW S \in SUBSET Node, NEW s,
           \A v \in Node, l \in Layer : s[v][l] \in Seq(S)
    PROVE  /\ Flat(S) \in Levels /\ Holds(s, Flat(S))
           /\ \A l \in Layer : Flat(S)[l] = S
BY DEF Flat, Levels, Holds

\* An insertion links nodes of the set.
LEMMA LinkedLists ==
    ASSUME NEW S \in SUBSET Node, NEW t \in [Node -> [Node -> Int]], NEW s,
           Lists(s, S), NEW x \in S, NEW lvl \in Layer, NEW high \in Layer,
           NEW ep \in S
    PROVE  Lists(Linked(t, s, x, lvl, ep, high), S)
<1> DEFINE new == Linked(t, s, x, lvl, ep, high)
           T == Flat(S)
<1>1. /\ \A v \in Node, l \in Layer : s[v][l] \in Seq(S) /\ Len(s[v][l]) <= Cap(l)
  BY DEF Lists
<1>2. T \in Levels /\ Holds(s, T) /\ \A l \in Layer : T[l] = S
  <2> HIDE DEF T
  <2> QED BY <1>1, FlatHolds DEF T
<1>3. x \in Node /\ ep \in T[high]
  BY <1>2
<1>4. \A v \in Node, l \in Layer :
         /\ Len(new[v][l]) <= Cap(l)
         /\ new[v][l] \in Seq(IF l <= lvl THEN T[l] \cup {x} ELSE T[l])
  <2> HIDE DEF T, new
  <2> QED BY <1>1, <1>2, <1>3, LinkedIn DEF new
<1>5. \A v \in Node, l \in Layer : new[v][l] \in Seq(S)
  <2> TAKE v \in Node, l \in Layer
  <2>1. new[v][l] \in Seq(IF l <= lvl THEN T[l] \cup {x} ELSE T[l])
    BY <1>4
  <2>2. (IF l <= lvl THEN T[l] \cup {x} ELSE T[l]) = S
    <3>1. T[l] = S /\ S \cup {x} = S
      BY <1>2
    <3> HIDE DEF T
    <3> QED BY <3>1
  <2> HIDE DEF new, T
  <2> QED BY <2>1, <2>2
<1>6. new \in [Node -> [Layer -> Seq(S)]]
  <2>1. \E f : new = [v \in Node |-> [l \in Layer |-> f[v][l]]]
    <3> DEFINE h == new
    <3>1. h = [v \in Node |-> [l \in Layer |-> h[v][l]]]
      BY DEF Linked
    <3> HIDE DEF h, new
    <3> QED BY <3>1 DEF h
  <2> HIDE DEF new
  <2> QED BY <1>5, <2>1
<1> HIDE DEF new, T
<1> QED BY <1>4, <1>6 DEF Lists, new

\* A search for x among lists of the set finds nodes of it.
LEMMA NearIn ==
    ASSUME NEW S \in SUBSET Node, NEW t \in [Node -> [Node -> Int]], NEW s,
           \A v \in Node, l \in Layer : s[v][l] \in Seq(S),
           NEW x \in Node, NEW high \in Layer, NEW ep \in S
    PROVE  NearestFromEntry(t, s, x, ep, high) \in SUBSET (S \ {x})
<1> DEFINE T == Flat(S)
           q == t[x]
           at == Descend(s, q, ep, high, 0)
           nbr == [v \in Node |-> s[v][0]]
           all == SearchLayer(nbr, q, Node, {at}, EfC)
<1>1. T \in Levels /\ Holds(s, T) /\ \A l \in Layer : T[l] = S
  <2> HIDE DEF T
  <2> QED BY FlatHolds DEF T
<1>2. q \in [Node -> Int] /\ 0 \in Layer /\ 0 <= high /\ ep \in T[high]
  BY <1>1, Sizes
<1>3. at \in S
  <2> HIDE DEF T, q
  <2>1. Descend(s, q, ep, high, 0) \in T[0]
    BY <1>1, <1>2, DescendIn
  <2> QED BY <1>1, <1>2, <2>1
<1>4. \A c \in S : nbr[c] \in Seq(S)
  BY <1>2
<1>5. all \in SUBSET S
  <2>1. {at} \in SUBSET S
    <3> HIDE DEF at
    <3> QED BY <1>3
  <2> HIDE DEF nbr, q, at
  <2>2. SearchLayer(nbr, q, Node, {at}, EfC) \in SUBSET S
    BY <1>2, <1>4, <2>1, SearchLayerIn
  <2> QED BY <2>2
<1>6. NearestFromEntry(t, s, x, ep, high) = all \ {x}
  BY DEF NearestFromEntry
<1> HIDE DEF all
<1> QED BY <1>5, <1>6

LEMMA LeastIn ==
    ASSUME NEW S \in SUBSET Node, S # {}
    PROVE  Least(S) \in S /\ \A b \in S : Least(S) <= b
<1>1. S \in SUBSET Nat
  BY Sizes
<1>2. \E a \in S : \A b \in S : a <= b
  BY <1>1, LeastNat
<1> QED BY <1>2 DEF Least

LEMMA PickIn ==
    ASSUME NEW S \in SUBSET Node, S # {}, lev \in [Node -> Layer]
    PROVE  PickEntry(S) \in S
<1>1. N \in Nat /\ S \in SUBSET (0 .. N - 1) /\ \A x \in S : lev[x] \in Int
  BY Sizes
<1>2. PICK a \in S : \A b \in S \ {a} : lev[a] > lev[b] \/ (lev[a] = lev[b] /\ a < b)
  BY <1>1, OneIsBest
<1>3. \A b \in S : lev[a] > lev[b] \/ (lev[a] = lev[b] /\ a <= b)
  <2> TAKE b \in S
  <2>1. CASE b = a
    BY <2>1, <1>1
  <2>2. CASE b # a
    BY <2>2, <1>1, <1>2
  <2> QED BY <2>1, <2>2
<1> QED BY <1>3 DEF PickEntry

LEMMA WithoutIn ==
    ASSUME NEW S, NEW list \in Seq(S), NEW ids
    PROVE  /\ Without(list, ids) \in Seq(S \ ids)
           /\ Len(Without(list, ids)) <= Len(list)
           /\ Distinct(list) => Distinct(Without(list, ids))
<1> DEFINE A == Seq(S \ ids)
           cnt == Len(list)
           Op(j, s) == IF list[j] \in ids THEN s ELSE Append(s, list[j])
           Body(g) == [j \in 0 .. cnt |-> IF j = 0 THEN << >> ELSE Op(j, g[j - 1])]
           f == CHOOSE g : g = Body(g)
           F == [j \in Nat |-> [s \in A |-> IF j \in 1 .. cnt THEN Op(j, s) ELSE s]]
<1>1. cnt \in Nat /\ (\A j \in 1 .. cnt : list[j] \in S) /\ << >> \in A
  OBVIOUS
<1>2. \A j \in 1 .. cnt : \A s \in A :
         /\ Op(j, s) \in A /\ Len(Op(j, s)) <= Len(s) + 1
         /\ Op(j, s) = s \/ Op(j, s) = Append(s, list[j])
  <2> TAKE j \in 1 .. cnt
  <2> TAKE s \in A
  <2>1. list[j] \in S
    BY <1>1
  <2> HIDE DEF cnt
  <2> QED BY <2>1
<1>3. F \in [Nat -> [A -> A]]
  <2> HIDE DEF Op, A, cnt
  <2> QED BY <1>2
<1>4. PICK g \in [0 .. cnt -> A] : Recurs(g, << >>, F, cnt)
  <2> HIDE DEF F, A, cnt
  <2> QED BY <1>1, <1>3, Recursion
<1>5. \A j \in 0 .. cnt : j # 0 => F[j][g[j - 1]] = Op(j, g[j - 1])
  <2> TAKE j \in 0 .. cnt
  <2> HAVE j # 0
  <2> HIDE DEF cnt
  <2>1. j \in Nat /\ j - 1 \in 0 .. cnt /\ j \in 1 .. cnt
    BY <1>1
  <2> HIDE DEF Op, A
  <2> QED BY <2>1, <1>4
<1>6. g = Body(g)
  <2> HIDE DEF F, Op, A, cnt
  <2> QED BY <1>4, <1>5 DEF Recurs
<1>7. f = Body(f)
  <2> HIDE DEF Body
  <2> QED BY <1>6
<1>8. f[0] = << >> /\ \A j \in 1 .. cnt : f[j] = Op(j, f[j - 1])
  <2> HIDE DEF f, Op, cnt
  <2>1. 0 \in 0 .. cnt /\ \A j \in 1 .. cnt : j \in 0 .. cnt /\ j # 0
    BY <1>1
  <2> QED BY <1>7, <2>1
\* The k-th has rows of list up to the k-th only, each once if list does.
<1> DEFINE Of(s, k) == \A x \in 1 .. Len(s) : \E m \in 1 .. k : s[x] = list[m]
           Ok(s, k) == /\ s \in A /\ Len(s) <= k
                       /\ Of(s, k) /\ (Distinct(list) => Distinct(s))
           P == {k \in Nat : k <= cnt => Ok(f[k], k)}
<1>9. 0 \in P
  <2>1. << >> \in A /\ Len(<< >>) = 0 /\ Distinct(<< >>)
    BY DEF Distinct
  <2> HIDE DEF f, A
  <2>2. Ok(f[0], 0)
    BY <1>8, <2>1
  <2> QED BY <2>2
<1>10. \A k \in 0 .. cnt - 1 : k \in P => k + 1 \in P
  <2> TAKE k \in 0 .. cnt - 1
  <2> HIDE DEF cnt, f, Ok
  <2>1. k \in Nat /\ k + 1 \in 1 .. cnt /\ (k + 1) - 1 = k /\ k <= cnt
    BY <1>1
  <2> HAVE k \in P
  <2> DEFINE s == f[k]
             y == list[k + 1]
             z == f[k + 1]
  <2>2. Ok(s, k) /\ z = Op(k + 1, s)
    BY <2>1, <1>8
  <2>3. s \in A /\ Len(s) <= k /\ Of(s, k) /\ (Distinct(list) => Distinct(s))
    BY <2>2 DEF Ok
  <2>4. /\ z \in A /\ Len(z) <= Len(s) + 1
        /\ z = s \/ z = Append(s, y)
    <3> HIDE DEF Op, A, s
    <3> QED BY <1>2, <2>1, <2>2, <2>3
  <2> HIDE DEF s, z, y, Op, P
  <2>5. Len(s) \in Nat /\ Len(z) \in Nat
    BY <2>3, <2>4
  <2>6. Len(z) <= k + 1
    BY <2>1, <2>3, <2>4, <2>5
  <2>7. ASSUME z = s PROVE Ok(z, k + 1)
    <3>1. Of(z, k + 1)
      <4>1. \A m \in 1 .. k : m \in 1 .. k + 1
        BY <2>1
      <4> QED BY <2>3, <2>7, <4>1
    <3> HIDE DEF Of, A
    <3> QED BY <2>3, <2>6, <2>7, <3>1 DEF Ok
  <2>8. ASSUME z = Append(s, y) PROVE Ok(z, k + 1)
    <3>1. /\ Len(z) = Len(s) + 1 /\ z[Len(s) + 1] = y
          /\ \A x \in 1 .. Len(s) : z[x] = s[x]
      BY <2>3, <2>8
    <3>2. \A x \in 1 .. Len(z) : x \in 1 .. Len(s) \/ x = Len(s) + 1
      BY <2>5, <3>1
    <3>3. Of(z, k + 1)
      <4>1. k + 1 \in 1 .. k + 1 /\ \A m \in 1 .. k : m \in 1 .. k + 1
        BY <2>1
      <4>2. y = list[k + 1]
        BY DEF y
      <4> QED BY <2>3, <3>1, <3>2, <4>1, <4>2
    <3>4. Distinct(list) => \A x \in 1 .. Len(s) : s[x] # y
      <4>1. \A m \in 1 .. k : m \in 1 .. cnt /\ m # k + 1
        BY <1>1, <2>1
      <4> QED BY <2>1, <2>3, <4>1 DEF Distinct, y, cnt
    <3>5. Distinct(list) => Distinct(z)
      <4> HAVE Distinct(list)
      <4> QED BY <2>3, <3>1, <3>2, <3>4 DEF Distinct
    <3> HIDE DEF Of, A
    <3> QED BY <2>4, <2>6, <3>3, <3>5 DEF Ok
  <2>9. Ok(z, k + 1)
    BY <2>4, <2>7, <2>8
  <2> QED BY <2>1, <2>9 DEF P, z
<1>11. cnt \in P
  <2> HIDE DEF P, cnt
  <2>1. P \in SUBSET Nat
    BY DEF P
  <2> QED BY <1>1, <1>9, <1>10, <2>1, Steps
<1>12. Without(list, ids) = f[cnt]
  BY DEF Without
<1> HIDE DEF f, cnt, Of
<1> QED BY <1>1, <1>11, <1>12 DEF cnt
-----------------------------------------------------------------------------
(* What the steps make of the lists.                                       *)

LEMMA NodesIn ==
    ASSUME n \in 0 .. N
    PROVE  Nodes \in SUBSET Node /\ Nodes \subseteq Nat
BY Sizes DEF Nodes

LEMMA NodeScoreType ==
    ASSUME sc \in [Node -> [Node -> Int]], idMap \in [Node -> Node]
    PROVE  NodeScore \in [Node -> [Node -> Int]]
BY DEF NodeScore

\* A refilled list leaves out the deleted nodes, and brings in no node that
\* was in no list.
LEMMA RefilledIn ==
    ASSUME TypeInv, NEW S \in SUBSET Nodes,
           \A v \in Node, l \in Layer : links[v][l] \in Seq(S),
           NEW x \in Node, NEW l \in Layer
    PROVE  /\ Refilled(x, l) \in Seq(S \ del) /\ Len(Refilled(x, l)) <= Cap(l)
           /\ links[x][l] = << >> => Refilled(x, l) = << >>
<1> DEFINE list == links[x][l]
           all == ToSet(list)
           cands == (all \cup UNION {ToSet(links[e][l]) : e \in all \cap del})
                       \ (del \cup {x})
           q == NodeScore[x]
           new == Select(NodeScore, q, cands, Cap(l), {})
<1>1. /\ n \in 0 .. N /\ sc \in [Node -> [Node -> Int]]
      /\ idMap \in [Node -> Node] /\ del \in SUBSET Nodes
      /\ Len(list) <= Cap(l)
  BY DEF TypeInv, Lists
<1>2. S \in SUBSET Node /\ list \in Seq(S) /\ Cap(l) \in Nat
  BY <1>1, NodesIn, Sizes
<1>3. \A s \in Seq(S) : ToSet(s) \in SUBSET S
  BY DEF ToSet
<1>4. all \in SUBSET S
  <2> HIDE DEF list
  <2> QED BY <1>2, <1>3
<1>5. \A e \in all : ToSet(links[e][l]) \in SUBSET S
  <2> HIDE DEF all
  <2> QED BY <1>2, <1>3, <1>4
<1>6. cands \in SUBSET (S \ del)
  <2> HIDE DEF all
  <2> QED BY <1>4, <1>5
<1>7. new \in Seq(cands) /\ Len(new) <= Cap(l)
  <2>1. q \in [Node -> Int]
    BY <1>1, NodeScoreType
  <2>2. cands \in SUBSET Node
    <3> HIDE DEF cands
    <3> QED BY <1>2, <1>6
  <2> HIDE DEF cands, q
  <2> QED BY <1>2, <2>1, <2>2, SelectIn
<1>8. new \in Seq(S \ del)
  <2> HIDE DEF new, cands
  <2> QED BY <1>6, <1>7, SeqIn
<1>9. Refilled(x, l) = IF all \cap del = {} THEN list ELSE new
  BY DEF Refilled
<1>10. CASE all \cap del = {}
  <2>1. \A j \in DOMAIN list : list[j] \in all
    BY DEF ToSet
  <2>2. list \in Seq(S \ del)
    <3> HIDE DEF list, all
    <3>1. \A j \in DOMAIN list : list[j] \in S \ del
      BY <1>2, <1>10, <2>1
    <3> QED BY <1>2, <3>1
  <2> HIDE DEF new, all
  <2> QED BY <1>1, <1>9, <1>10, <2>2
<1>11. CASE all \cap del # {}
  <2>1. list # << >>
    <3>1. list = << >> => all = {}
      BY DEF ToSet
    <3> HIDE DEF list, all
    <3> QED BY <1>11, <3>1
  <2> HIDE DEF new, all, list
  <2>2. Refilled(x, l) = new
    BY <1>9, <1>11
  <2> QED BY <1>7, <1>8, <2>1, <2>2 DEF list
<1> QED BY <1>10, <1>11

\* A repair edge from u to x keeps the lists among the nodes of S.
LEMMA AddsIn ==
    ASSUME TypeInv, NEW S \in SUBSET Nodes,
           \A v \in Node, l \in Layer : links[v][l] \in Seq(S),
           NEW u \in Nodes, NEW x \in S, AddProtected(u, x)
    PROVE  /\ Lists(links', S) /\ protected' = protected \cup {<<u, x>>}
           /\ \A v \in Node, l \in Layer :
                 v # u \/ l # 0 => links'[v][l] = links[v][l]
<1> DEFINE list == links[u][0]
           all == ToSet(list) \cup {x}
           q == NodeScore[u]
           best == Select(NodeScore, q, all, M0, Keep(u, x))
           new == IF Contains(list, x) THEN list
                  ELSE IF Len(list) < M0 THEN Append(list, x) ELSE best
<1>1. /\ n \in 0 .. N /\ sc \in [Node -> [Node -> Int]]
      /\ idMap \in [Node -> Node] /\ links \in [Node -> [Layer -> Seq(Nodes)]]
      /\ \A v \in Node, l \in Layer : Len(links[v][l]) <= Cap(l)
  BY DEF TypeInv, Lists
<1>2. /\ S \in SUBSET Node /\ u \in Node /\ 0 \in Layer /\ Cap(0) = M0 /\ M0 \in Nat
  BY <1>1, NodesIn, Sizes DEF Cap
<1>3. list \in Seq(S) /\ Len(list) <= M0
  BY <1>1, <1>2
<1>4. all \in SUBSET S
  <2> HIDE DEF list
  <2> QED BY <1>3 DEF ToSet
<1>5. best \in Seq(all) /\ Len(best) <= M0
  <2>1. q \in [Node -> Int]
    BY <1>1, <1>2, NodeScoreType
  <2>2. all \in SUBSET Node
    <3> HIDE DEF all
    <3> QED BY <1>2, <1>4
  <2> HIDE DEF all, q
  <2> QED BY <1>2, <2>1, <2>2, SelectIn
<1>6. best \in Seq(S)
  <2> HIDE DEF best, all
  <2> QED BY <1>4, <1>5, SeqIn
<1>7. new \in Seq(S) /\ Len(new) <= M0
  <2> HIDE DEF best, list
  <2>1. Append(list, x) \in Seq(S) /\ Len(Append(list, x)) = Len(list) + 1
        /\ Len(list) \in Nat
    BY <1>3
  <2> QED BY <1>2, <1>3, <1>5, <1>6, <2>1
<1>8. links' = [links EXCEPT ![u][0] = new] /\ protected' = protected \cup {<<u, x>>}
  BY DEF AddProtected
<1> HIDE DEF new
<1>9. \A v \in Node, l \in Layer :
         links'[v][l] = IF v = u /\ l = 0 THEN new ELSE links[v][l]
  BY <1>1, <1>2, <1>8
<1>10. links' \in [Node -> [Layer -> Seq(S)]]
  <2>1. links \in [Node -> [Layer -> Seq(S)]]
    BY <1>1
  <2> QED BY <1>2, <1>7, <1>8, <2>1
<1>11. \A v \in Node, l \in Layer : Len(links'[v][l]) <= Cap(l)
  BY <1>1, <1>2, <1>7, <1>9
<1> QED BY <1>8, <1>9, <1>10, <1>11 DEF Lists
-----------------------------------------------------------------------------
(* Finite sets in order.                                                   *)

\* R puts the members of S in order.
Orders(R, S) ==
    /\ \A x \in S : <<x, x>> \notin R
    /\ \A x, y \in S : x = y \/ <<x, y>> \in R \/ <<y, x>> \in R
    /\ \A x, y, z \in S : <<x, y>> \in R /\ <<y, z>> \in R => <<x, z>> \in R

RankIn(R, S, x) == Cardinality({y \in S : <<y, x>> \in R})

LEMMA NodesFinite ==
    ASSUME NEW S \in SUBSET Node
    PROVE  IsFiniteSet(S) /\ Cardinality(S) \in 0 .. N
<1>1. IsFiniteSet(Node) /\ Cardinality(Node) = N /\ N \in Nat
  BY Sizes, FS_Interval
<1>2. IsFiniteSet(S) /\ Cardinality(S) <= N
  BY <1>1, FS_Subset
<1>3. Cardinality(S) \in Nat
  BY <1>2, FS_CardinalityType
<1> QED BY <1>1, <1>2, <1>3

\* No two members have the same rank, so every rank below the size is taken.
LEMMA RankTaken ==
    ASSUME NEW S, IsFiniteSet(S), NEW R, Orders(R, S)
    PROVE  /\ Cardinality(S) \in Nat
           /\ \A x \in S : RankIn(R, S, x) \in 0 .. Cardinality(S) - 1
           /\ \A x, z \in S :
                 RankIn(R, S, x) < RankIn(R, S, z) <=> <<x, z>> \in R
           /\ \A x, z \in S : RankIn(R, S, x) = RankIn(R, S, z) => x = z
           /\ \A i \in 0 .. Cardinality(S) - 1 :
                 \E x \in S : RankIn(R, S, x) = i
<1> DEFINE Below(x) == {y \in S : <<y, x>> \in R}
           Rank(x) == RankIn(R, S, x)
           c == Cardinality(S)
<1>1. c \in Nat
  BY FS_CardinalityType
<1>2. ASSUME NEW x \in S
      PROVE  IsFiniteSet(Below(x)) /\ Rank(x) = Cardinality(Below(x))
             /\ Rank(x) \in 0 .. c - 1
  <2>1. Below(x) \in SUBSET S /\ x \notin Below(x)
    BY DEF Orders
  <2>2. Rank(x) = Cardinality(Below(x))
    BY DEF RankIn
  <2> HIDE DEF Below
  <2>3. /\ IsFiniteSet(Below(x)) /\ Cardinality(Below(x)) <= c
        /\ (c = Cardinality(Below(x)) => S = Below(x))
    BY <2>1, FS_Subset
  <2>4. Cardinality(Below(x)) \in Nat
    BY <2>3, FS_CardinalityType
  <2>5. Cardinality(Below(x)) # c
    BY <2>1, <2>3
  <2> HIDE DEF Rank
  <2> QED BY <1>1, <2>2, <2>3, <2>4, <2>5
<1>3. ASSUME NEW x \in S, NEW z \in S, <<x, z>> \in R PROVE Rank(x) < Rank(z)
  <2>1. Below(x) \in SUBSET Below(z) /\ x \in Below(z) /\ x \notin Below(x)
    <3>1. \A y \in S : <<y, x>> \in R => <<y, z>> \in R
      BY <1>3 DEF Orders
    <3>2. <<x, x>> \notin R
      BY DEF Orders
    <3> QED BY <3>1, <3>2, <1>3
  <2>2. /\ IsFiniteSet(Below(z)) /\ Rank(z) \in Int /\ Rank(x) \in Int
        /\ Rank(x) = Cardinality(Below(x)) /\ Rank(z) = Cardinality(Below(z))
    <3> HIDE DEF Below, Rank, c
    <3> QED BY <1>2, <1>1
  <2> HIDE DEF Below
  <2>3. /\ Cardinality(Below(x)) <= Cardinality(Below(z))
        /\ (Cardinality(Below(z)) = Cardinality(Below(x)) => Below(z) = Below(x))
    BY <2>1, <2>2, FS_Subset
  <2> HIDE DEF Rank
  <2> QED BY <2>1, <2>2, <2>3
<1>4. \A x, z \in S : x = z \/ <<x, z>> \in R \/ <<z, x>> \in R
  BY DEF Orders
<1>5. \A x, z \in S : Rank(x) < Rank(z) => <<x, z>> \in R
  <2> TAKE x, z \in S
  <2> HAVE Rank(x) < Rank(z)
  <2>1. Rank(x) \in 0 .. c - 1 /\ Rank(z) \in 0 .. c - 1
    BY <1>2
  <2> HIDE DEF Rank, c
  <2>2. ~ <<z, x>> \in R
    <3> SUFFICES ASSUME <<z, x>> \in R PROVE FALSE
      OBVIOUS
    <3>1. Rank(z) < Rank(x)
      BY <1>3
    <3> QED BY <2>1, <3>1
  <2>3. x # z
    BY <2>1
  <2> QED BY <1>4, <2>2, <2>3
<1>6. \A x, z \in S : Rank(x) = Rank(z) => x = z
  <2> TAKE x, z \in S
  <2> HAVE Rank(x) = Rank(z)
  <2>1. Rank(x) \in 0 .. c - 1 /\ Rank(z) \in 0 .. c - 1
    BY <1>2
  <2> HIDE DEF Rank, c
  <2>2. ~ (Rank(x) < Rank(z)) /\ ~ (Rank(z) < Rank(x))
    BY <2>1
  <2> QED BY <1>3, <1>4, <2>2
<1> DEFINE f == [x \in S |-> Rank(x)]
<1>7. f \in [S -> 0 .. c - 1]
  <2> HIDE DEF Rank, c
  <2> QED BY <1>2
<1>8. f \in Injection(S, 0 .. c - 1)
  <2>1. \A x, z \in S : f[x] = f[z] => x = z
    <3> HIDE DEF Rank
    <3> QED BY <1>6
  <2> HIDE DEF f
  <2> QED BY <1>7, <2>1 DEF Injection, IsInjective
<1>9. IsFiniteSet(0 .. c - 1) /\ Cardinality(0 .. c - 1) = c
  <2> HIDE DEF c
  <2> QED BY <1>1, FS_Interval
<1>10. f \in Surjection(S, 0 .. c - 1)
  <2>1. c = Cardinality(S)
    OBVIOUS
  <2> HIDE DEF f, c
  <2> QED BY <1>8, <1>9, <2>1, FS_Injection
<1>11. \A i \in 0 .. c - 1 : \E x \in S : Rank(x) = i
  <2>1. \A i \in 0 .. c - 1 : \E x \in S : f[x] = i
    <3> HIDE DEF f, c
    <3> QED BY <1>10 DEF Surjection
  <2> HIDE DEF Rank, c
  <2> QED BY <2>1
<1>12. \A x \in S : Rank(x) \in 0 .. c - 1
  BY <1>2
<1>13. \A x, z \in S : Rank(x) < Rank(z) <=> <<x, z>> \in R
  <2> HIDE DEF Rank
  <2> QED BY <1>3, <1>5
<1> HIDE DEF Rank, c
<1> QED BY <1>1, <1>6, <1>11, <1>12, <1>13 DEF Rank, c

\* A rebuild keeps the order of the live nodes.
LEMMA NewIdMapIn ==
    ASSUME idMap \in [Node -> Node], NEW live \in SUBSET Node,
           \A a, b \in live : a < b => idMap[a] < idMap[b]
    PROVE  LET k == Cardinality(live)
               new == NewIdMap(live)
           IN  /\ k \in 0 .. N /\ new \in [Node -> Node]
               /\ \A i \in 0 .. k - 1 : \E a \in live : new[i] = idMap[a]
               /\ \A i, j \in 0 .. k - 1 : i < j => new[i] < new[j]
<1> DEFINE k == Cardinality(live)
           new == NewIdMap(live)
           R == {p \in Node \X Node : p[1] < p[2]}
           At(i) == CHOOSE a \in live : Cardinality({b \in live : b < a}) = i
<1>1. IsFiniteSet(live) /\ k \in 0 .. N /\ N \in Nat /\ Node = 0 .. N - 1
  BY NodesFinite, Sizes
<1>2. \A a, b \in live : <<a, b>> \in R <=> a < b
  OBVIOUS
<1>3. Orders(R, live)
  <2>1. \A a \in live : a \in Int
    BY <1>1
  <2> HIDE DEF R, k
  <2> QED BY <1>2, <2>1 DEF Orders
<1>4. \A a \in live : RankIn(R, live, a) = Cardinality({b \in live : b < a})
  <2> TAKE a \in live
  <2>1. {b \in live : <<b, a>> \in R} = {b \in live : b < a}
    <3> HIDE DEF R
    <3> QED BY <1>2
  <2> QED BY <2>1 DEF RankIn
<1>5. /\ \A a, b \in live : RankIn(R, live, a) < RankIn(R, live, b) <=> a < b
      /\ \A i \in 0 .. k - 1 : \E a \in live : RankIn(R, live, a) = i
  <2> HIDE DEF R
  <2> QED BY <1>1, <1>2, <1>3, RankTaken
<1>6. \A i \in 0 .. k - 1 : At(i) \in live /\ RankIn(R, live, At(i)) = i
  <2> TAKE i \in 0 .. k - 1
  <2>1. \E a \in live : Cardinality({b \in live : b < a}) = i
    <3> HIDE DEF R, k
    <3> QED BY <1>4, <1>5
  <2>2. At(i) \in live /\ Cardinality({b \in live : b < At(i)}) = i
    BY <2>1
  <2> HIDE DEF At, R, k
  <2> QED BY <1>4, <2>2
<1>7. /\ \A i \in 0 .. k - 1 : new[i] = idMap[At(i)]
      /\ new \in [Node -> Node]
  <2>1. new = [j \in Node |-> IF j < k THEN idMap[At(j)] ELSE j]
    BY DEF NewIdMap
  <2>2. \A i \in 0 .. k - 1 : i \in Node /\ i < k
    <3> HIDE DEF k
    <3> QED BY <1>1
  <2>3. \A j \in Node : j < k => j \in 0 .. k - 1
    <3> HIDE DEF k
    <3> QED BY <1>1
  <2>4. \A i \in 0 .. k - 1 : idMap[At(i)] \in Node
    <3> HIDE DEF At, k
    <3> QED BY <1>6
  <2> HIDE DEF At, k, new
  <2> QED BY <2>1, <2>2, <2>3, <2>4
<1>8. \A i, j \in 0 .. k - 1 : i < j => new[i] < new[j]
  <2> TAKE i, j \in 0 .. k - 1
  <2> HAVE i < j
  <2> HIDE DEF At, k, new, R
  <2>1. At(i) \in live /\ At(j) \in live /\ At(i) < At(j)
    BY <1>5, <1>6
  <2>2. new[i] = idMap[At(i)] /\ new[j] = idMap[At(j)]
    BY <1>7
  <2> QED BY <2>1, <2>2
<1>9. \A i \in 0 .. k - 1 : \E a \in live : new[i] = idMap[a]
  <2> HIDE DEF At, k, new
  <2> QED BY <1>6, <1>7
<1> HIDE DEF new, k
<1> QED BY <1>1, <1>7, <1>8, <1>9 DEF new, k
-----------------------------------------------------------------------------
(* The steps.                                                              *)

LEMMA LifeInit == Init => LifeInv
<1> SUFFICES ASSUME Init PROVE LifeInv
  OBVIOUS
<1>1. /\ n = 0 /\ Nodes = {} /\ N \in Nat \ {0} /\ Node = 0 .. N - 1
      /\ MaxLevel \in Nat /\ Layer = 0 .. MaxLevel
      /\ \A l \in Layer : Cap(l) \in Nat
  BY Sizes DEF Init, Nodes
<1>2. Lists(links, Nodes) /\ Severed(links, Nodes, {})
  BY <1>1 DEF Init, NoLinks, Lists, Severed
<1>3. TypeInv
  BY <1>1, <1>2, LifeAssumption DEF Init, TypeInv, Identity, NoStart
<1>4. StageInv
  BY <1>1 DEF Init, StageInv, Passing
<1>5. ProcessInv
  BY <1>1 DEF Init, ProcessInv
<1>6. RepairInv
  BY <1>1, <1>2 DEF Init, RepairInv, Passing
<1> QED BY <1>3, <1>4, <1>5, <1>6 DEF LifeInv, Init, FileInv

LEMMA BuildStep == ASSUME LifeInv, Build PROVE LifeInv'
<1>1. /\ N \in Nat \ {0} /\ Node = 0 .. N - 1 /\ Nodes' = Node
      /\ MaxLevel \in Nat /\ Layer = 0 .. MaxLevel
      /\ \A l \in Layer : Cap(l) \in Nat
  BY Sizes DEF Build, NewGraph, Nodes
<1>2. Nodes = {} /\ did = {} /\ idMap = Identity /\ stage = "idle"
  BY DEF LifeInv, StageInv, Build, Nodes
<1>3. del = {} /\ dead = {} /\ cut = {} /\ protected = {}
  BY <1>2 DEF LifeInv, TypeInv
<1>4. Lists(links', Node) /\ Severed(links', Node, {})
  BY <1>1 DEF Build, NewGraph, NoLinks, Lists, Severed
<1>5. /\ sc' = sc /\ draw' = draw /\ n' = N /\ idMap' = idMap /\ lev' = draw
       /\ entry' = 0 /\ top' = draw[0] /\ del' = {} /\ dead' = {} /\ cut' = {}
       /\ todo' = 1 .. N - 1 /\ protected' = {} /\ start' = start
       /\ stage' = "insert" /\ total' = N
  BY <1>3 DEF Build, NewGraph, marks, repairing
<1>6. /\ sc \in [Node -> [Node -> Int]] /\ draw \in [Node -> Layer]
       /\ idMap \in [Node -> Node] /\ start = [ep |-> start.ep, top |-> start.top]
       /\ start.ep \in Node /\ start.top \in Layer
  BY DEF LifeInv, TypeInv
<1>7. 0 \in Node /\ draw[0] \in Layer /\ 1 .. N - 1 \in SUBSET Node
  BY <1>1, <1>6
<1>8. TypeInv'
  BY <1>1, <1>4, <1>5, <1>6, <1>7 DEF TypeInv
<1>9. StageInv'
  BY <1>1, <1>5, <1>7 DEF StageInv, Passing
<1>10. ProcessInv'
  BY <1>1, <1>2 DEF LifeInv, ProcessInv, Build, NewGraph, marks, Identity
<1>11. RepairInv'
  BY <1>1, <1>3, <1>4 DEF LifeInv, RepairInv, Passing, Build, NewGraph, repairing
<1>12. FileInv'
  BY DEF LifeInv, FileInv, Saved, Build
<1> QED BY <1>8, <1>9, <1>10, <1>11, <1>12 DEF LifeInv

\* With nothing cut off, lists of nodes will do.
LEMMA NoneSevered ==
    ASSUME NEW s, NEW S, Lists(s, S)
    PROVE  Severed(s, S, {})
BY DEF Lists, Severed

LEMMA InsertRowStep == ASSUME LifeInv, InsertRow PROVE LifeInv'
<1> DEFINE i == Least(todo)
<1>1. /\ TypeInv /\ StageInv /\ stage = "insert" /\ todo # {} /\ n \in 0 .. N
      /\ todo \in SUBSET Nodes /\ entry \in Nodes /\ lev[entry] = top
      /\ cut = {} /\ dead = {} /\ 0 \notin todo /\ top \in Layer
      /\ lev \in [Node -> Layer] /\ Lists(links, Nodes)
  BY DEF LifeInv, TypeInv, StageInv, RepairInv, Passing, InsertRow
<1>2. Nodes \in SUBSET Node /\ MaxLevel \in Nat /\ Layer = 0 .. MaxLevel
  BY <1>1, NodesIn, Sizes
<1>3. i \in todo /\ i \in Nodes /\ lev[i] \in Layer
  <2>1. todo \in SUBSET Node
    BY <1>1, <1>2
  <2>2. i \in todo
    BY <1>1, <2>1, LeastIn
  <2> HIDE DEF i
  <2> QED BY <1>1, <1>2, <2>2
<1>4. /\ links' = Linked(NodeScore, links, i, lev[i], entry, top)
      /\ entry' = IF lev[i] > top THEN i ELSE entry
      /\ top' = MaxOf(lev[i], top) /\ todo' = todo \ {i}
      /\ Nodes' = Nodes
  BY DEF InsertRow, nodes, Nodes
<1>5. Lists(links', Nodes)
  <2>1. NodeScore \in [Node -> [Node -> Int]]
    BY <1>1, NodeScoreType DEF TypeInv
  <2> HIDE DEF i
  <2>2. Lists(Linked(NodeScore, links, i, lev[i], entry, top), Nodes)
    BY <1>1, <1>2, <1>3, <2>1, LinkedLists
  <2> QED BY <1>4, <2>2
<1>6. Severed(links', Nodes, {})
  BY <1>5, NoneSevered
<1> HIDE DEF i
<1>7. entry' \in Nodes /\ lev[entry'] = top' /\ top' \in Layer
  BY <1>1, <1>2, <1>3, <1>4 DEF MaxOf
<1>8. TypeInv'
  BY <1>1, <1>2, <1>4, <1>5, <1>7 DEF TypeInv, InsertRow, nodes, marks, repairing
<1>9. StageInv'
  BY <1>1, <1>4, <1>7 DEF StageInv, Passing, InsertRow, nodes, marks, repairing
<1>10. ProcessInv'
  BY <1>1, <1>4 DEF LifeInv, ProcessInv, Passing, InsertRow, nodes, marks, repairing
<1>11. RepairInv'
  BY <1>1, <1>4, <1>6 DEF LifeInv, RepairInv, Passing, InsertRow, repairing
<1>12. FileInv'
  BY DEF LifeInv, FileInv, Saved, InsertRow
<1> QED BY <1>8, <1>9, <1>10, <1>11, <1>12 DEF LifeInv

LEMMA StartRepairStep == ASSUME LifeInv, StartRepair PROVE LifeInv'
<1>1. /\ TypeInv /\ StageInv /\ stage \in {"insert", "update", "compact"}
      /\ stage' = "stepA" /\ cut' = dead /\ protected' = {}
      /\ Nodes' = Nodes /\ todo' = ZeroInDegree(dead) /\ stage # "idle"
  BY DEF LifeInv, StartRepair, nodes, Nodes
<1>2. todo' \in SUBSET (Nodes \ dead)
  BY <1>1 DEF ZeroInDegree
<1>3. TypeInv'
  BY <1>1, <1>2 DEF TypeInv, StartRepair, nodes, graph, marks
<1>4. StageInv'
  BY <1>1 DEF StageInv, Passing, StartRepair, nodes, graph, marks
<1>5. ProcessInv'
  BY <1>1 DEF LifeInv, ProcessInv, Passing, StartRepair, nodes, marks
<1>6. RepairInv'
  BY <1>1, <1>2 DEF LifeInv, RepairInv, Passing, StartRepair, graph
<1>7. FileInv'
  BY DEF LifeInv, FileInv, Saved, StartRepair
<1> QED BY <1>3, <1>4, <1>5, <1>6, <1>7 DEF LifeInv

\* A repair edge goes from and to nodes that are not left out.
LEMMA EdgeStep ==
    ASSUME LifeInv, stage \in Passing, NEW x \in todo, todo' = todo \ {x},
           \/ UNCHANGED <<links, protected>>
           \/ \E u \in Nodes \ dead : AddProtected(u, x),
           UNCHANGED <<nodes, entry, top, marks, stage, did, start, pass, dead,
                       cut, file, told, procs>>
    PROVE  LifeInv'
<1> DEFINE S == Nodes \ dead
<1>1. /\ TypeInv /\ StageInv /\ ProcessInv /\ RepairInv /\ FileInv
      /\ x \in S /\ cut = dead /\ Nodes' = Nodes
  BY DEF LifeInv, TypeInv, RepairInv, nodes, Nodes
<1>2. \A v \in Node, l \in Layer : links[v][l] \in Seq(S)
  BY <1>1 DEF RepairInv, Severed
<1>3. /\ Lists(links', Nodes) /\ Severed(links', Nodes, dead)
      /\ protected' \in SUBSET (Nodes \X Nodes)
  <2>1. CASE UNCHANGED <<links, protected>>
    BY <1>1, <2>1 DEF TypeInv, RepairInv
  <2>2. CASE \E u \in Nodes \ dead : AddProtected(u, x)
    <3>1. PICK u \in S : AddProtected(u, x)
      BY <2>2
    <3>2. u \in Nodes /\ S \in SUBSET Nodes
      OBVIOUS
    <3> HIDE DEF S
    <3>3. /\ Lists(links', S) /\ protected' = protected \cup {<<u, x>>}
          /\ \A v \in Node, l \in Layer :
                v # u \/ l # 0 => links'[v][l] = links[v][l]
      BY <1>1, <1>2, <3>1, <3>2, AddsIn
    <3>4. Lists(links', Nodes)
      <4>1. \A s \in Seq(S) : s \in Seq(Nodes)
        BY <3>2, SeqIn
      <4> QED BY <3>3, <4>1 DEF Lists
    <3>5. \A v \in dead : v # u
      BY <3>1 DEF S
    <3>6. Severed(links', Nodes, dead)
      <4> SUFFICES ASSUME NEW v \in Node, NEW l \in Layer
                   PROVE  /\ links'[v][l] \in Seq(S)
                          /\ v \in dead => links'[v][l] = << >>
        BY DEF Severed, S
      <4>1. links'[v][l] \in Seq(S)
        BY <3>3 DEF Lists
      <4>2. v \in dead => links[v][l] = << >>
        BY <1>1 DEF RepairInv, Severed
      <4> QED BY <3>3, <3>5, <4>1, <4>2
    <3>7. protected' \in SUBSET (Nodes \X Nodes)
      <4>1. x \in Nodes
        BY <1>1, <3>2
      <4> QED BY <1>1, <3>2, <3>3, <4>1 DEF TypeInv
    <3> QED BY <3>4, <3>6, <3>7
  <2> QED BY <2>1, <2>2
<1>4. TypeInv'
  BY <1>1, <1>3 DEF TypeInv, nodes, marks
<1>5. StageInv'
  BY <1>1 DEF StageInv, Passing, nodes, marks
<1>6. ProcessInv'
  BY <1>1 DEF ProcessInv, Passing, nodes, marks
<1>7. RepairInv'
  BY <1>1, <1>3 DEF RepairInv, Passing
<1>8. FileInv'
  BY <1>1 DEF FileInv, Saved
<1> QED BY <1>4, <1>5, <1>6, <1>7, <1>8 DEF LifeInv

\* What a search for x finds is not left out.
LEMMA NearLive ==
    ASSUME LifeInv, stage \in Passing, NEW x \in Node
    PROVE  Near(x) \in SUBSET (Nodes \ dead)
<1> DEFINE S == Nodes \ dead
<1>1. /\ n \in 0 .. N /\ entry \in S /\ top \in Layer
      /\ sc \in [Node -> [Node -> Int]] /\ idMap \in [Node -> Node]
      /\ \A v \in Node, l \in Layer : links[v][l] \in Seq(S)
  BY DEF LifeInv, TypeInv, StageInv, RepairInv, Severed, Passing
<1>2. S \in SUBSET Node
  BY <1>1, NodesIn
<1>3. NodeScore \in [Node -> [Node -> Int]]
  BY <1>1, NodeScoreType
<1> HIDE DEF S
<1>4. NearestFromEntry(NodeScore, links, x, entry, top) \in SUBSET (S \ {x})
  BY <1>1, <1>2, <1>3, NearIn
<1> QED BY <1>4 DEF Near, S

LEMMA BestLive ==
    ASSUME LifeInv, NEW x \in Node, NEW S \in SUBSET Nodes, S # {}
    PROVE  Best(NodeScore[x], S) \in S
<1>1. NodeScore \in [Node -> [Node -> Int]] /\ Nodes \in SUBSET Node
  BY NodeScoreType, NodesIn DEF LifeInv, TypeInv
<1>2. NodeScore[x] \in [Node -> Int] /\ S \in SUBSET Node
  BY <1>1
<1> QED BY <1>2, BestIn

LEMMA TodoIn ==
    ASSUME LifeInv, todo # {}
    PROVE  Least(todo) \in todo /\ Least(todo) \in Nodes /\ Least(todo) \in Node
<1>1. todo \in SUBSET Nodes /\ Nodes \in SUBSET Node
  BY NodesIn DEF LifeInv, TypeInv
<1>2. todo \in SUBSET Node
  BY <1>1
<1> QED BY <1>1, <1>2, LeastIn

LEMMA StepAStep == ASSUME LifeInv, StepA PROVE LifeInv'
<1> DEFINE x == Least(todo)
           from == IF links[x][0] # << >> THEN ToSet(links[x][0]) ELSE Near(x)
           u == Best(NodeScore[x], from)
<1>1. stage \in Passing /\ todo # {}
  BY DEF StepA, Passing
<1>2. x \in todo /\ x \in Node
  BY <1>1, TodoIn
<1>3. from \in SUBSET (Nodes \ dead)
  <2> HIDE DEF x
  <2>1. Near(x) \in SUBSET (Nodes \ dead)
    BY <1>1, <1>2, NearLive
  <2>2. links[x][0] \in Seq(Nodes \ dead)
    BY <1>2, Sizes DEF LifeInv, RepairInv, Severed
  <2>3. ToSet(links[x][0]) \in SUBSET (Nodes \ dead)
    BY <2>2 DEF ToSet
  <2> QED BY <2>1, <2>3
<1>4. from # {} => u \in Nodes \ dead
  <2>1. from \in SUBSET Nodes
    <3> HIDE DEF from
    <3> QED BY <1>3
  <2> HIDE DEF from, x
  <2> QED BY <1>2, <1>3, <2>1, BestLive
<1>5. \/ from # {} /\ AddProtected(u, x)
      \/ UNCHANGED <<links, protected>>
  BY DEF StepA
<1>6. /\ todo' = todo \ {x}
      /\ UNCHANGED <<nodes, entry, top, marks, stage, did, start, pass, dead,
                     cut, file, told, procs>>
  BY DEF StepA
<1>7. \/ UNCHANGED <<links, protected>>
      \/ \E v \in Nodes \ dead : AddProtected(v, x)
  <2> HIDE DEF from, x, u
  <2> QED BY <1>4, <1>5
<1> HIDE DEF from, x, u
<1> QED BY <1>1, <1>2, <1>6, <1>7, EdgeStep

LEMMA StepBStep == ASSUME LifeInv, StepB PROVE LifeInv'
<1> DEFINE x == Least(todo)
           from == Sources(x)
           u == Best(NodeScore[x], from)
<1>1. stage \in Passing /\ todo # {}
  BY DEF StepB, Passing
<1>2. x \in todo /\ x \in Node
  BY <1>1, TodoIn
<1>3. from \in SUBSET (Nodes \ dead)
  <2> HIDE DEF x
  <2>1. Near(x) \in SUBSET (Nodes \ dead)
    BY <1>1, <1>2, NearLive
  <2> QED BY <2>1 DEF Sources
<1>4. from # {} => u \in Nodes \ dead
  <2> HIDE DEF from, x
  <2>1. from \in SUBSET Nodes
    BY <1>3
  <2> QED BY <1>2, <1>3, <2>1, BestLive
<1>5. \/ from # {} /\ AddProtected(u, x)
      \/ UNCHANGED <<links, protected>>
  BY DEF StepB
<1>6. /\ todo' = todo \ {x}
      /\ UNCHANGED <<nodes, entry, top, marks, stage, did, start, pass, dead,
                     cut, file, told, procs>>
  BY DEF StepB
<1>7. \/ UNCHANGED <<links, protected>>
      \/ \E v \in Nodes \ dead : AddProtected(v, x)
  <2> HIDE DEF from, x, u
  <2> QED BY <1>4, <1>5
<1> HIDE DEF from, x, u
<1> QED BY <1>1, <1>2, <1>6, <1>7, EdgeStep

\* Between the two parts of a pass, and at its end.
LEMMA PassStep ==
    ASSUME LifeInv, StartStepB \/ EndPass
    PROVE  LifeInv'
<1>1. /\ TypeInv /\ StageInv /\ ProcessInv /\ RepairInv /\ FileInv
      /\ stage \in Passing /\ Nodes' = Nodes /\ stage # "idle"
      /\ UNCHANGED <<nodes, graph, marks, did, start, cut, file, told, procs>>
  BY DEF LifeInv, StartStepB, EndPass, Passing, nodes, Nodes
<1>2. cut = dead /\ dead \in SUBSET Nodes /\ todo = {} /\ entry \notin dead
  BY <1>1 DEF RepairInv, TypeInv, StartStepB, EndPass
<1>3. /\ Unreached(dead) \in SUBSET (Nodes \ dead)
      /\ ZeroInDegree(dead) \in SUBSET (Nodes \ dead)
  BY DEF Unreached, ZeroInDegree
<1>4. /\ todo' \in SUBSET (Nodes \ dead)
      /\ \/ stage' \in Passing /\ UNCHANGED <<protected, dead>>
         \/ stage' = "ready" /\ protected' = {} /\ dead' = {} /\ todo' = {}
  <2>1. CASE StartStepB
    BY <1>3, <2>1 DEF StartStepB, RepairDone, Passing
  <2>2. CASE EndPass
    BY <1>2, <1>3, <2>2 DEF EndPass, RepairDone, Passing
  <2> QED BY <2>1, <2>2
<1>5. TypeInv'
  BY <1>1, <1>4 DEF TypeInv, nodes, graph, marks
<1>6. StageInv'
  BY <1>1, <1>4 DEF StageInv, Passing, nodes, graph, marks
<1>7. ProcessInv'
  BY <1>1, <1>4 DEF ProcessInv, Passing, nodes, marks
<1>8. RepairInv'
  <2>1. Severed(links', Nodes', cut') /\ Severed(links', Nodes', dead')
    <3>1. Severed(links, Nodes, dead) /\ Lists(links, Nodes)
      BY <1>1 DEF RepairInv, TypeInv
    <3>2. Severed(links, Nodes, {})
      BY <3>1, NoneSevered
    <3> QED BY <1>1, <1>2, <1>4, <3>1, <3>2 DEF graph
  <2>2. /\ entry' = entry /\ entry' \notin dead' /\ cut' = dead
        /\ stage' \in Passing => cut' = dead' /\ todo' \cap dead' = {}
        /\ stage' \notin Passing => protected' = {} /\ dead' = {}
    BY <1>1, <1>2, <1>4 DEF graph, Passing
  <2>3. stage' # "compact"
    BY <1>4 DEF Passing
  <2> QED BY <1>2, <2>1, <2>2, <2>3 DEF RepairInv, Passing
<1>9. FileInv'
  BY <1>1 DEF FileInv, Saved
<1> QED BY <1>5, <1>6, <1>7, <1>8, <1>9 DEF LifeInv

LEMMA DeleteStep == ASSUME LifeInv, Delete PROVE LifeInv'
<1>1. /\ TypeInv /\ StageInv /\ ProcessInv /\ RepairInv /\ FileInv
      /\ stage = "ready" /\ "changed" \notin did /\ did' = did \cup {"changed"}
      /\ Nodes' = Nodes /\ "compacted" \notin did
      /\ UNCHANGED <<nodes, graph, gone, stage, todo, start, repairing, file,
                     procs>>
  BY DEF LifeInv, ProcessInv, Delete, Change, nodes, Nodes
<1>2. Nodes = Node /\ idMap = Identity
  BY <1>1 DEF ProcessInv, Nodes, Node
<1>3. PICK mask \in Masks : del' = mask /\ mine' = mask
  BY DEF Delete
<1>4. mask \in SUBSET Node /\ mask # Node
  BY LifeAssumption
<1>5. TypeInv'
  BY <1>1, <1>2, <1>3, <1>4 DEF TypeInv, nodes, graph, repairing
<1>6. StageInv'
  <2>1. /\ n' = n /\ stage' = "ready" /\ entry' = entry /\ lev' = lev /\ top' = top
        /\ total' = total /\ cut' = cut /\ todo' = todo /\ start' = start
        /\ del' # Nodes
    BY <1>1, <1>2, <1>3, <1>4 DEF nodes, graph, repairing
  <2> QED BY <1>1, <2>1 DEF StageInv, Passing
<1>7. ProcessInv'
  <2>1. \A j \in Nodes : idMap[j] = j
    BY <1>2 DEF Identity
  <2> QED BY <1>1, <1>3, <2>1 DEF ProcessInv, Passing, nodes, repairing
<1>8. RepairInv'
  BY <1>1 DEF RepairInv, Passing, nodes, graph, repairing
<1>9. FileInv'
  BY <1>1 DEF FileInv, Saved
<1> QED BY <1>5, <1>6, <1>7, <1>8, <1>9 DEF LifeInv

\* The lists without the rows of an update.
LEMMA TornIn ==
    ASSUME Lists(links, Nodes), NEW ids,
           links' = [v \in Node |-> [l \in Layer |->
                        IF v \in ids THEN << >> ELSE Without(links[v][l], ids)]]
    PROVE  Lists(links', Nodes)
<1>1. \A v \in Node, l \in Layer :
         links'[v][l] \in Seq(Nodes) /\ Len(links'[v][l]) <= Cap(l)
  <2> TAKE v \in Node, l \in Layer
  <2>1. links[v][l] \in Seq(Nodes) /\ Len(links[v][l]) <= Cap(l) /\ Cap(l) \in Nat
    BY Sizes DEF Lists
  <2>2. /\ Without(links[v][l], ids) \in Seq(Nodes)
        /\ Len(Without(links[v][l], ids)) <= Len(links[v][l])
    <3>1. /\ Without(links[v][l], ids) \in Seq(Nodes \ ids)
          /\ Len(Without(links[v][l], ids)) <= Len(links[v][l])
      BY <2>1, WithoutIn
    <3> QED BY <3>1, SeqIn
  <2>3. links'[v][l] = IF v \in ids THEN << >> ELSE Without(links[v][l], ids)
    OBVIOUS
  <2>4. << >> \in Seq(Nodes) /\ Len(<< >>) = 0
    OBVIOUS
  <2>5. Len(links[v][l]) \in Nat /\ Len(Without(links[v][l], ids)) \in Nat
    BY <2>1, <2>2
  <2>6. CASE v \in ids
    BY <2>1, <2>3, <2>4, <2>6
  <2>7. CASE v \notin ids
    <3>1. links'[v][l] = Without(links[v][l], ids)
      BY <2>3, <2>7
    <3> QED BY <2>1, <2>2, <2>5, <3>1
  <2> QED BY <2>6, <2>7
<1>2. links' \in [Node -> [Layer -> Seq(Nodes)]]
  <2> DEFINE h(v, l) == IF v \in ids THEN << >> ELSE Without(links[v][l], ids)
  <2>1. \A v \in Node, l \in Layer : h(v, l) \in Seq(Nodes)
    <3> TAKE v \in Node, l \in Layer
    <3>1. links'[v][l] = h(v, l)
      OBVIOUS
    <3> QED BY <1>1, <3>1
  <2>2. links' = [v \in Node |-> [l \in Layer |-> h(v, l)]]
    OBVIOUS
  <2> HIDE DEF h
  <2> QED BY <2>1, <2>2
<1> QED BY <1>1, <1>2 DEF Lists

LEMMA UpdateStep == ASSUME LifeInv, Update PROVE LifeInv'
<1>1. /\ TypeInv /\ StageInv /\ ProcessInv /\ RepairInv /\ FileInv
      /\ stage = "ready" /\ "changed" \notin did /\ did' = did \cup {"changed"}
      /\ Nodes' = Nodes /\ "compacted" \notin did
      /\ stage' = "update" /\ cut' = {}
      /\ UNCHANGED <<draw, n, idMap, total, lev, entry, top, del, mine, pass,
                     protected, dead, file, procs>>
  BY DEF LifeInv, ProcessInv, Update, Change, Nodes
<1>2. /\ Nodes = Node /\ lev \in [Node -> Layer] /\ entry \in Nodes
      /\ lev[entry] = top /\ dead = {} /\ protected = {} /\ mine = {}
      /\ sc \in [Node -> [Node -> Int]] /\ Lists(links, Nodes) /\ top \in Layer
  BY <1>1 DEF TypeInv, StageInv, ProcessInv, RepairInv, Passing, Nodes, Node
<1>3. PICK b \in Batches :
        LET ids == b.ids IN
        /\ sc' = [a \in Node |-> [c \in Node |->
                     IF {a, c} \cap ids # {} THEN b.sc[a][c] ELSE sc[a][c]]]
        /\ links' = [v \in Node |-> [l \in Layer |->
                       IF v \in ids THEN << >>
                       ELSE Without(links[v][l], ids)]]
        /\ start' = UpdateStart(ids) /\ todo' = ids
  BY DEF Update
<1> DEFINE ids == b.ids
           alt == PickEntry(Nodes \ ids)
<1>4. ids \in SUBSET Node /\ ids # Node /\ b.sc \in [Node -> [Node -> Int]]
  <2>1. /\ b.ids \in (SUBSET Node) \ {{}, Node}
        /\ b.sc \in [Node -> [Node -> Int]]
    BY <1>3, LifeAssumption
  <2> QED BY <2>1
<1>5. sc' \in [Node -> [Node -> Int]]
  <2> DEFINE h(a, c) == IF {a, c} \cap ids # {} THEN b.sc[a][c] ELSE sc[a][c]
  <2>1. \A a \in Node, c \in Node : h(a, c) \in Int
    BY <1>2, <1>4
  <2>2. sc' = [a \in Node |-> [c \in Node |-> h(a, c)]]
    BY <1>3
  <2> HIDE DEF h
  <2> QED BY <2>1, <2>2
<1>6. Lists(links', Nodes)
  <2>1. links' = [v \in Node |-> [l \in Layer |->
                     IF v \in ids THEN << >> ELSE Without(links[v][l], ids)]]
    BY <1>3
  <2> HIDE DEF ids
  <2> QED BY <1>2, <2>1, TornIn
<1>7. alt \in Nodes \ ids
  <2>1. Nodes \ ids \in SUBSET Node /\ Nodes \ ids # {}
    BY <1>2, <1>4
  <2> HIDE DEF ids
  <2> QED BY <1>2, <2>1, PickIn
<1>8. /\ start' = [ep |-> start'.ep, top |-> start'.top]
      /\ start'.ep \in Nodes \ ids /\ start'.top = lev[start'.ep]
  <2>1. start' = UpdateStart(ids)
    BY <1>3
  <2>2. UpdateStart(ids) = IF entry \in ids THEN [ep |-> alt, top |-> lev[alt]]
                           ELSE [ep |-> entry, top |-> top]
    BY DEF UpdateStart
  <2> HIDE DEF alt, ids
  <2> QED BY <1>2, <1>7, <2>1, <2>2
<1>9. todo' = ids
  BY <1>3
<1> HIDE DEF ids, alt
<1>10. start'.ep \in Node /\ start'.top \in Layer
  BY <1>2, <1>8
<1>11. TypeInv'
  BY <1>1, <1>2, <1>4, <1>5, <1>6, <1>8, <1>9, <1>10 DEF TypeInv
<1>12. StageInv'
  BY <1>1, <1>8, <1>9 DEF StageInv, Passing
<1>13. ProcessInv'
  BY <1>1, <1>2 DEF ProcessInv, Passing
<1>14. RepairInv'
  <2>1. Severed(links', Nodes', {})
    BY <1>1, <1>6, NoneSevered
  <2> QED BY <1>1, <1>2, <2>1 DEF RepairInv, Passing
<1>15. FileInv'
  BY <1>1 DEF FileInv, Saved
<1> QED BY <1>11, <1>12, <1>13, <1>14, <1>15 DEF LifeInv

LEMMA ReinsertStep == ASSUME LifeInv, Reinsert PROVE LifeInv'
<1> DEFINE i == Least(todo)
<1>1. /\ TypeInv /\ StageInv /\ stage = "update" /\ todo # {} /\ n \in 0 .. N
      /\ todo \in SUBSET Nodes /\ entry \in Nodes /\ lev[entry] = top
      /\ cut = {} /\ dead = {} /\ top \in Layer
      /\ start.ep \in Nodes \ todo /\ lev[start.ep] = start.top
      /\ start.top \in Layer /\ start = [ep |-> start.ep, top |-> start.top]
      /\ lev \in [Node -> Layer] /\ Lists(links, Nodes)
  BY DEF LifeInv, TypeInv, StageInv, RepairInv, Passing, Reinsert
<1>2. Nodes \in SUBSET Node
  BY <1>1, NodesIn
<1>3. i \in todo /\ i \in Nodes /\ i \in Node /\ lev[i] \in Layer
  <2>1. i \in todo /\ i \in Nodes /\ i \in Node
    BY <1>1, TodoIn DEF LifeInv, Reinsert
  <2> HIDE DEF i
  <2> QED BY <1>1, <2>1
<1>4. /\ links' = Linked(NodeScore, links, i, lev[i], start.ep, start.top)
      /\ start' = IF i = entry THEN [ep |-> entry, top |-> top] ELSE start
      /\ todo' = todo \ {i} /\ Nodes' = Nodes
      /\ UNCHANGED <<nodes, entry, top, marks, stage, did, repairing, file,
                     told, procs>>
  BY DEF Reinsert, nodes, Nodes
<1>5. Lists(links', Nodes)
  <2>1. NodeScore \in [Node -> [Node -> Int]]
    BY <1>1, NodeScoreType DEF TypeInv
  <2> HIDE DEF i
  <2>2. Lists(Linked(NodeScore, links, i, lev[i], start.ep, start.top), Nodes)
    BY <1>1, <1>2, <1>3, <2>1, LinkedLists
  <2> QED BY <1>4, <2>2
<1> HIDE DEF i
<1>6. /\ start' = [ep |-> start'.ep, top |-> start'.top]
      /\ start'.ep \in Nodes \ todo' /\ lev[start'.ep] = start'.top
      /\ start'.top \in Layer /\ start'.ep \in Node
  BY <1>1, <1>2, <1>3, <1>4
<1>7. Severed(links', Nodes, {})
  BY <1>5, NoneSevered
<1>8. TypeInv'
  BY <1>1, <1>4, <1>5, <1>6 DEF TypeInv, nodes, marks, repairing
<1>9. StageInv'
  BY <1>1, <1>4, <1>6 DEF StageInv, Passing, nodes, marks, repairing
<1>10. ProcessInv'
  BY <1>1, <1>4 DEF LifeInv, ProcessInv, Passing, nodes, marks, repairing
<1>11. RepairInv'
  BY <1>1, <1>4, <1>7 DEF LifeInv, RepairInv, Passing, repairing
<1>12. FileInv'
  BY <1>4 DEF LifeInv, FileInv, Saved
<1> QED BY <1>8, <1>9, <1>10, <1>11, <1>12 DEF LifeInv

\* The entry point of a compacted graph is live.
LEMMA EptIn ==
    ASSUME LifeInv, stage = "ready"
    PROVE  Ept.ep \in Nodes \ del /\ Ept.top = lev[Ept.ep] /\ Ept.top \in Layer
<1> DEFINE alt == PickEntry(Nodes \ del)
           ep == IF entry \in del THEN alt ELSE entry
<1>1. /\ n \in 0 .. N /\ lev \in [Node -> Layer] /\ entry \in Nodes
      /\ del \in SUBSET Nodes /\ del # Nodes
  BY DEF LifeInv, TypeInv, StageInv
<1>2. Nodes \in SUBSET Node
  BY <1>1, NodesIn
<1>3. alt \in Nodes \ del
  <2>1. Nodes \ del \in SUBSET Node /\ Nodes \ del # {}
    BY <1>1, <1>2
  <2> QED BY <1>1, <2>1, PickIn
<1>4. ep \in Nodes \ del
  <2> HIDE DEF alt
  <2> QED BY <1>1, <1>3
<1>5. Ept = [ep |-> ep, top |-> lev[ep]]
  BY DEF Ept
<1> HIDE DEF ep
<1> QED BY <1>1, <1>2, <1>4, <1>5

LEMMA CompactRepairStep == ASSUME LifeInv, CompactRepair PROVE LifeInv'
<1>1. /\ TypeInv /\ StageInv /\ ProcessInv /\ RepairInv /\ FileInv
      /\ stage = "ready" /\ "changed" \in did /\ "compacted" \notin did
      /\ did' = did \cup {"compacted"} /\ Nodes' = Nodes
      /\ UNCHANGED <<nodes, mine, todo, start, pass, protected, cut, file, told,
                     procs>>
  BY DEF LifeInv, CompactRepair, Compacting, nodes, Nodes
<1>2. dead = {} /\ protected = {} /\ todo = {}
  BY <1>1 DEF StageInv, RepairInv, Passing
<1>3. \A j \in Nodes : idMap[j] \in mine => j \in del
  BY <1>1 DEF ProcessInv
<1>4. ASSUME del = {} PROVE LifeInv'
  <2>1. UNCHANGED <<graph, del, stage, dead>>
    BY <1>4 DEF CompactRepair
  <2>2. TypeInv'
    BY <1>1, <2>1 DEF TypeInv, nodes, graph
  <2>3. StageInv'
    <3>1. /\ n' = n /\ stage' = stage /\ entry' = entry /\ lev' = lev /\ top' = top
          /\ del' = del /\ total' = total /\ todo' = todo /\ cut' = cut
      BY <1>1, <2>1 DEF nodes, graph
    <3> QED BY <1>1, <3>1 DEF StageInv, Passing
  <2>4. ProcessInv'
    BY <1>1, <1>3, <1>4, <2>1 DEF ProcessInv, Passing, nodes
  <2>5. RepairInv'
    BY <1>1, <2>1 DEF RepairInv, Passing, graph
  <2>6. FileInv'
    BY <1>1 DEF FileInv, Saved
  <2> QED BY <2>2, <2>3, <2>4, <2>5, <2>6 DEF LifeInv
<1>5. ASSUME del # {} PROVE LifeInv'
  <2>1. /\ links' = [v \in Node |-> [l \in Layer |->
                        IF v \in del THEN << >> ELSE Refilled(v, l)]]
        /\ entry' = Ept.ep /\ top' = Ept.top
        /\ dead' = del /\ del' = {} /\ stage' = "compact"
    BY <1>5 DEF CompactRepair
  <2>2. /\ entry' \in Nodes \ del /\ lev[entry'] = top' /\ top' \in Layer
        /\ entry' \in Node
    BY <1>1, <2>1, EptIn, NodesIn DEF TypeInv
  <2>3. ASSUME NEW S \in SUBSET Nodes,
               \A v \in Node, l \in Layer : links[v][l] \in Seq(S)
        PROVE  \A v \in Node, l \in Layer :
                  /\ links'[v][l] \in Seq(S \ del) /\ Len(links'[v][l]) <= Cap(l)
                  /\ (links[v][l] = << >> => links'[v][l] = << >>)
    <3> TAKE v \in Node, l \in Layer
    <3>1. links'[v][l] = IF v \in del THEN << >> ELSE Refilled(v, l)
      BY <2>1
    <3>2. << >> \in Seq(S \ del) /\ Len(<< >>) = 0 /\ Cap(l) \in Nat
      BY Sizes
    <3>3. /\ Refilled(v, l) \in Seq(S \ del) /\ Len(Refilled(v, l)) <= Cap(l)
          /\ links[v][l] = << >> => Refilled(v, l) = << >>
      BY <1>1, <2>3, RefilledIn
    <3>4. CASE v \in del
      BY <3>1, <3>2, <3>4
    <3>5. CASE v \notin del
      <4>1. links'[v][l] = Refilled(v, l)
        BY <3>1, <3>5
      <4> QED BY <3>3, <4>1
    <3> QED BY <3>4, <3>5
  <2>4. \A v \in Node, l \in Layer :
           links'[v][l] \in Seq(Nodes \ del) /\ Len(links'[v][l]) <= Cap(l)
    <3>1. \A v \in Node, l \in Layer : links[v][l] \in Seq(Nodes)
      BY <1>1 DEF TypeInv, Lists
    <3> QED BY <2>3, <3>1
  <2>5. Lists(links', Nodes)
    <3> DEFINE h(v, l) == IF v \in del THEN << >> ELSE Refilled(v, l)
    <3>1. \A s \in Seq(Nodes \ del) : s \in Seq(Nodes)
      BY SeqIn
    <3>2. \A v \in Node, l \in Layer : links'[v][l] \in Seq(Nodes)
      BY <2>4, <3>1
    <3>3. links' = [v \in Node |-> [l \in Layer |-> h(v, l)]]
      BY <2>1
    <3>4. links' \in [Node -> [Layer -> Seq(Nodes)]]
      <4> HIDE DEF h
      <4>1. \A v \in Node, l \in Layer : h(v, l) \in Seq(Nodes)
        BY <3>2, <3>3
      <4> QED BY <3>3, <4>1
    <3> QED BY <2>4, <3>4 DEF Lists
  <2>6. Severed(links', Nodes, del)
    <3>1. \A v \in Node, l \in Layer : v \in del => links'[v][l] = << >>
      BY <2>1
    <3> QED BY <2>4, <3>1 DEF Severed
  <2>7. Severed(links', Nodes, cut)
    <3>1. \A v \in Node, l \in Layer :
            links[v][l] \in Seq(Nodes \ cut) /\ (v \in cut => links[v][l] = << >>)
      BY <1>1 DEF RepairInv, Severed
    <3> DEFINE S == Nodes \ cut
    <3>2. S \in SUBSET Nodes /\ \A v \in Node, l \in Layer : links[v][l] \in Seq(S)
      BY <3>1
    <3> HIDE DEF S
    <3>3. \A v \in Node, l \in Layer :
             links'[v][l] \in Seq(S \ del)
             /\ (links[v][l] = << >> => links'[v][l] = << >>)
      BY <2>3, <3>2
    <3>4. \A s \in Seq(S \ del) : s \in Seq(S)
      BY SeqIn
    <3>5. \A v \in Node, l \in Layer : links'[v][l] \in Seq(S)
      BY <3>3, <3>4
    <3> QED BY <3>1, <3>3, <3>5 DEF Severed, S
  <2>8. TypeInv'
    BY <1>1, <1>2, <2>1, <2>2, <2>5 DEF TypeInv, nodes
  <2>9. StageInv'
    <3>1. /\ n' = n /\ lev' = lev /\ total' = total /\ todo' = {} /\ n > 0 /\ total = N
      BY <1>1, <1>2 DEF StageInv, nodes
    <3>2. del' # Nodes'
      BY <1>1, <2>1, <2>2
    <3> QED BY <1>1, <2>1, <2>2, <3>1, <3>2 DEF StageInv, Passing
  <2>10. ProcessInv'
    BY <1>1, <1>3, <2>1 DEF ProcessInv, Passing, nodes
  <2>11. RepairInv'
    BY <1>1, <1>2, <2>1, <2>2, <2>6, <2>7 DEF RepairInv, Passing
  <2>12. FileInv'
    BY <1>1 DEF FileInv, Saved
  <2> QED BY <2>8, <2>9, <2>10, <2>11, <2>12 DEF LifeInv
<1> QED BY <1>4, <1>5

LEMMA CompactRebuildStep == ASSUME LifeInv, CompactRebuild PROVE LifeInv'
<1> DEFINE live == Nodes \ del
           k == Cardinality(live)
           levels == [j \in Node |-> IF j < k THEN draw[j] ELSE 0]
<1>1. /\ TypeInv /\ StageInv /\ ProcessInv /\ RepairInv /\ FileInv
      /\ stage = "ready" /\ "changed" \in did /\ "compacted" \notin did
      /\ did' = did \cup {"compacted"} /\ del' = {} /\ cut' = {}
      /\ UNCHANGED <<sc, draw, total, mine, start, pass, protected, dead,
                     file, told, procs>>
  BY DEF LifeInv, CompactRebuild, Compacting
<1>2. /\ dead = {} /\ protected = {} /\ n \in 0 .. N /\ draw \in [Node -> Layer]
      /\ idMap \in [Node -> Node] /\ del \in SUBSET Nodes /\ del # Nodes
      /\ total = N
  BY <1>1 DEF StageInv, RepairInv, Passing, TypeInv
<1>3. \A j \in Nodes : idMap[j] \in mine => j \in del
  BY <1>1 DEF ProcessInv
<1>4. \A a, b \in Nodes : a < b => idMap[a] < idMap[b]
  BY <1>1 DEF ProcessInv
<1>5. /\ n' = k /\ lev' = levels /\ links' = NoLinks /\ entry' = 0
      /\ top' = levels[0] /\ todo' = 1 .. k - 1 /\ stage' = "insert"
      /\ idMap' = NewIdMap(live)
  BY DEF CompactRebuild, NewGraph
<1>6. live \in SUBSET Nodes /\ live # {} /\ live \in SUBSET Node
  BY <1>2, NodesIn
<1>7. IsFiniteSet(live) /\ k \in 1 .. N
  <2> HIDE DEF live
  <2>1. IsFiniteSet(live) /\ k \in 0 .. N
    BY <1>6, NodesFinite
  <2>2. k # 0
    BY <1>6, <2>1, FS_EmptySet
  <2> HIDE DEF k
  <2> QED BY <2>1, <2>2, Sizes
<1>8. /\ NewIdMap(live) \in [Node -> Node]
      /\ \A a, b \in 0 .. k - 1 : a < b => NewIdMap(live)[a] < NewIdMap(live)[b]
      /\ \A a \in 0 .. k - 1 : \E b \in live : NewIdMap(live)[a] = idMap[b]
  <2> HIDE DEF live
  <2> QED BY <1>2, <1>4, <1>6, NewIdMapIn
<1>9. Nodes' = 0 .. k - 1 /\ 0 \in Nodes' /\ 0 \in Node /\ Nodes' \in SUBSET Node
  <2> HIDE DEF k
  <2> QED BY <1>5, <1>7, Sizes DEF Nodes
<1>10. levels \in [Node -> Layer] /\ levels[0] \in Layer
  <2> HIDE DEF k
  <2> QED BY <1>2, <1>9, Sizes
<1>11. \A a \in Nodes' : idMap'[a] \notin mine
  <2> HIDE DEF k
  <2>1. \A a \in 0 .. k - 1 : \E b \in live : NewIdMap(live)[a] = idMap[b]
    BY <1>8
  <2> QED BY <1>3, <1>5, <1>9, <2>1
<1> HIDE DEF levels, k, live
<1>12. Lists(links', Nodes') /\ Severed(links', Nodes', {})
  BY <1>5, Sizes DEF NoLinks, Lists, Severed
<1>13. TypeInv'
  <2>1. todo' \in SUBSET Nodes'
    BY <1>5, <1>7, <1>9
  <2>2. n' \in 0 .. N
    BY <1>5, <1>7
  <2>3. /\ sc' \in [Node -> [Node -> Int]] /\ draw' \in [Node -> Layer]
        /\ start' = [ep |-> start'.ep, top |-> start'.top]
        /\ start'.ep \in Node /\ start'.top \in Layer
    BY <1>1 DEF TypeInv
  <2>4. idMap' \in [Node -> Node] /\ lev' \in [Node -> Layer] /\ entry' \in Node
        /\ top' \in Layer /\ del' = {} /\ dead' = {} /\ cut' = {} /\ protected' = {}
    BY <1>1, <1>2, <1>5, <1>8, <1>9, <1>10
  <2> QED BY <1>12, <2>1, <2>2, <2>3, <2>4 DEF TypeInv
<1>14. StageInv'
  <2>1. n' > 0 /\ entry' \in Nodes' /\ lev'[entry'] = top' /\ 0 \notin todo'
        /\ total' = N
    BY <1>1, <1>2, <1>5, <1>7, <1>9
  <2>2. del' # Nodes'
    BY <1>1, <1>9
  <2> QED BY <1>1, <1>5, <2>1, <2>2 DEF StageInv, Passing
<1>15. ProcessInv'
  <2>1. \A a, b \in Nodes' : a < b => idMap'[a] < idMap'[b]
    BY <1>5, <1>8, <1>9
  <2> QED BY <1>1, <1>11, <2>1 DEF ProcessInv
<1>16. RepairInv'
  BY <1>1, <1>2, <1>5, <1>12 DEF RepairInv, Passing
<1>17. FileInv'
  BY <1>1 DEF FileInv, Saved
<1> QED BY <1>13, <1>14, <1>15, <1>16, <1>17 DEF LifeInv

LEMMA RemapIn ==
    ASSUME idMap \in [Node -> Node], NEW S \in SUBSET Node, NEW list \in Seq(S)
    PROVE  /\ Remap(list) \in Seq({idMap[j] : j \in S})
           /\ Len(Remap(list)) = Len(list)
<1>1. DOMAIN list = 1 .. Len(list) /\ Len(list) \in Nat
      /\ \A i \in 1 .. Len(list) : list[i] \in S
  OBVIOUS
<1> DEFINE A == {idMap[j] : j \in S}
<1>2. Remap(list) = [i \in 1 .. Len(list) |-> idMap[list[i]]]
  BY <1>1 DEF Remap
<1>3. \A i \in 1 .. Len(list) : idMap[list[i]] \in A
  BY <1>1
<1> HIDE DEF A
<1>4. Remap(list) \in [1 .. Len(list) -> A]
  BY <1>2, <1>3
<1>5. Remap(list) \in Seq(A) /\ Len(Remap(list)) = Len(list)
  BY <1>1, <1>4
<1> QED BY <1>5 DEF A

\* Nodes have different rows.
LEMMA RowsDiffer ==
    ASSUME LifeInv
    PROVE  \A a, b \in Nodes : idMap[a] = idMap[b] => a = b
<1>1. /\ n \in 0 .. N /\ idMap \in [Node -> Node]
      /\ \A x, y \in Nodes : x < y => idMap[x] < idMap[y]
  BY DEF LifeInv, TypeInv, ProcessInv
<1>2. Nodes \in SUBSET Node /\ Nodes \subseteq Nat
  BY <1>1, NodesIn
<1> TAKE a, b \in Nodes
<1> HAVE idMap[a] = idMap[b]
<1>3. idMap[a] \in Int /\ idMap[b] \in Int
  BY <1>1, <1>2, Sizes
<1>4. ~ (a < b) /\ ~ (b < a)
  BY <1>1, <1>3
<1> QED BY <1>2, <1>4

LEMMA SaveStep == ASSUME LifeInv, Save PROVE LifeInv'
<1>1. /\ TypeInv /\ StageInv /\ ProcessInv /\ RepairInv
      /\ stage = "ready" /\ file' = Content /\ did' = did \cup {"saved"}
      /\ Nodes' = Nodes
      /\ UNCHANGED <<nodes, graph, marks, stage, todo, start, repairing, told,
                     procs>>
  BY DEF LifeInv, Save, nodes, Nodes
<1>2. /\ n \in 0 .. N /\ idMap \in [Node -> Node] /\ lev \in [Node -> Layer]
      /\ sc \in [Node -> [Node -> Int]]
      /\ entry \in Nodes /\ del \in SUBSET Nodes /\ del # Nodes
      /\ cut \in SUBSET Nodes /\ total = N /\ entry \notin cut
      /\ Lists(links, Nodes) /\ Severed(links, Nodes, cut)
  BY <1>1 DEF TypeInv, StageInv, RepairInv
<1>3. Nodes \in SUBSET Node /\ Nodes \subseteq Nat
  BY <1>2, NodesIn
<1>4. \A a, b \in Nodes : idMap[a] = idMap[b] => a = b
  BY <1>1, RowsDiffer DEF LifeInv
<1>5. /\ Held \in SUBSET Node /\ Dropped = Node \ Held
      /\ \A j \in Nodes : idMap[j] \in Held
  BY <1>2, <1>3 DEF Held, Dropped, Node
<1>6. \A r \in Held : NodeOf(r) \in Nodes /\ idMap[NodeOf(r)] = r
  <2> TAKE r \in Held
  <2>1. \E j \in Nodes : idMap[j] = r
    BY DEF Held
  <2> QED BY <2>1 DEF NodeOf
<1> DEFINE cuts == {idMap[j] : j \in cut} \cup Dropped
           dels == {idMap[j] : j \in del} \cup Dropped
<1>7. cuts \in SUBSET Node /\ dels \in SUBSET Node
  BY <1>2, <1>3, <1>5
<1>8. idMap[entry] \in Node \ cuts
  BY <1>2, <1>3, <1>4, <1>5
<1>9. dels # Node
  <2>1. PICK j \in Nodes : j \notin del
    BY <1>2
  <2>2. idMap[j] \in Node /\ idMap[j] \notin dels
    BY <1>2, <1>3, <1>4, <1>5, <2>1
  <2> QED BY <2>2
<1>10. \A r \in cuts : r \in Held => NodeOf(r) \in cut
  BY <1>2, <1>4, <1>5, <1>6
<1> DEFINE s == [r \in Node |-> [l \in Layer |->
                  IF r \in Held THEN Remap(links[NodeOf(r)][l]) ELSE << >>]]
<1>11. \A r \in Node, l \in Layer :
          /\ s[r][l] \in Seq(Node \ cuts) /\ Len(s[r][l]) <= Cap(l)
          /\ r \in cuts => s[r][l] = << >>
  <2> HIDE DEF cuts
  <2> TAKE r \in Node, l \in Layer
  <2>1. s[r][l] = IF r \in Held THEN Remap(links[NodeOf(r)][l]) ELSE << >>
    OBVIOUS
  <2> HIDE DEF s
  <2>2. CASE r \notin Held
    <3>1. Cap(l) \in Nat
      BY Sizes
    <3> QED BY <2>1, <2>2, <3>1
  <2>3. CASE r \in Held
    <3> DEFINE j == NodeOf(r)
               S == Nodes \ cut
               list == links[j][l]
    <3>1. j \in Nodes /\ j \in Node /\ (r \in cuts => j \in cut)
      BY <1>3, <1>6, <1>10, <2>3
    <3>2. list \in Seq(S) /\ Len(list) <= Cap(l) /\ (j \in cut => list = << >>)
      <4> HIDE DEF j
      <4> QED BY <1>2, <3>1 DEF Severed, Lists
    <3>3. S \in SUBSET Node
      BY <1>3
    <3>4. s[r][l] = Remap(list)
      BY <2>1, <2>3
    <3> HIDE DEF list, j
    <3>5. {idMap[a] : a \in S} \in SUBSET (Node \ cuts)
      BY <1>2, <1>3, <1>4, <1>5 DEF cuts
    <3> HIDE DEF S
    <3>6. Remap(list) \in Seq({idMap[a] : a \in S}) /\ Len(Remap(list)) = Len(list)
      BY <1>2, <3>2, <3>3, RemapIn
    <3>7. Remap(list) \in Seq(Node \ cuts)
      BY <3>5, <3>6, SeqIn
    <3>8. list = << >> => Remap(list) = << >>
      <4>1. ASSUME list = << >> PROVE Len(Remap(list)) = 0
        BY <3>6, <4>1
      <4> QED BY <3>7, <4>1
    <3> QED BY <3>1, <3>2, <3>4, <3>6, <3>7, <3>8
  <2> QED BY <2>2, <2>3
<1>12. Lists(s, Node) /\ Severed(s, Node, cuts)
  <2>1. \A x \in Seq(Node \ cuts) : x \in Seq(Node)
    <3> HIDE DEF cuts
    <3> QED BY SeqIn
  <2>2. \A r \in Node, l \in Layer : s[r][l] \in Seq(Node)
    <3> HIDE DEF s, cuts
    <3> QED BY <1>11, <2>1
  <2>3. s \in [Node -> [Layer -> Seq(Node)]]
    <3> DEFINE h(r, l) == IF r \in Held THEN Remap(links[NodeOf(r)][l]) ELSE << >>
    <3>1. s = [r \in Node |-> [l \in Layer |-> h(r, l)]]
      OBVIOUS
    <3>2. \A r \in Node, l \in Layer : h(r, l) \in Seq(Node)
      <4> TAKE r \in Node, l \in Layer
      <4>1. s[r][l] = h(r, l)
        OBVIOUS
      <4> HIDE DEF s, h
      <4> QED BY <2>2, <4>1
    <3> HIDE DEF h
    <3>3. [r \in Node |-> [l \in Layer |-> h(r, l)]] \in [Node -> [Layer -> Seq(Node)]]
      BY <3>2
    <3> HIDE DEF s
    <3> QED BY <3>1, <3>3
  <2> HIDE DEF s, cuts
  <2> QED BY <1>11, <2>3 DEF Lists, Severed
<1> DEFINE scores == [a \in Node |-> [b \in Node |->
                        IF {a, b} \cap Dropped # {} THEN 0 ELSE sc[a][b]]]
           levels == [r \in Node |-> IF r \in Held THEN lev[NodeOf(r)] ELSE 0]
<1>13. scores \in [Node -> [Node -> Int]]
  <2> DEFINE h(a, b) == IF {a, b} \cap Dropped # {} THEN 0 ELSE sc[a][b]
  <2>1. \A a, b \in Node : h(a, b) \in Int
    BY <1>2
  <2>2. scores = [a \in Node |-> [b \in Node |-> h(a, b)]]
    OBVIOUS
  <2> HIDE DEF h, scores
  <2> QED BY <2>1, <2>2
<1>14. levels \in [Node -> Layer]
  <2>1. \A r \in Held : lev[NodeOf(r)] \in Layer
    BY <1>2, <1>3, <1>6
  <2> QED BY <2>1, Sizes
<1>15. /\ file'.rows = N /\ file'.sc = scores /\ file'.lev = levels
       /\ file'.links = s /\ file'.entry = idMap[entry] /\ file'.del = dels
       /\ file'.cut = cuts
  BY <1>1, <1>2 DEF Content
<1> HIDE DEF s, scores, levels, cuts, dels
<1>16. Saved'
  BY <1>7, <1>8, <1>9, <1>12, <1>13, <1>14, <1>15 DEF Saved
<1>17. TypeInv'
  BY <1>1 DEF TypeInv, nodes, graph, marks, repairing
<1>18. StageInv'
  <2>1. /\ n' = n /\ stage' = stage /\ entry' = entry /\ lev' = lev /\ top' = top
        /\ del' = del /\ total' = total /\ todo' = todo /\ cut' = cut
    BY <1>1 DEF nodes, graph, marks, repairing
  <2> QED BY <1>1, <2>1 DEF StageInv, Passing
<1>19. ProcessInv'
  BY <1>1 DEF ProcessInv, Passing, nodes, marks, repairing
<1>20. RepairInv'
  BY <1>1 DEF RepairInv, Passing, graph, repairing
<1> QED BY <1>16, <1>17, <1>18, <1>19, <1>20 DEF LifeInv, FileInv

LEMMA LoadStep == ASSUME LifeInv, Load PROVE LifeInv'
<1>1. /\ TypeInv /\ StageInv /\ ProcessInv /\ RepairInv /\ Saved
      /\ stage = "idle" /\ did = {} /\ Nodes = {} /\ stage' = "ready"
  BY DEF LifeInv, StageInv, FileInv, Load, Nodes
<1>2. /\ sc' = file.sc /\ n' = N /\ idMap' = Identity
      /\ total' = N /\ lev' = file.lev /\ links' = file.links
      /\ entry' = file.entry /\ top' = file.lev[file.entry]
      /\ del' = file.del /\ cut' = file.cut
      /\ UNCHANGED <<draw, mine, did, todo, start, pass, protected, dead, file>>
  BY <1>1 DEF Load, Saved
<1>3. Nodes' = Node /\ N \in Nat \ {0}
  BY <1>2, Sizes DEF Nodes
<1>4. todo = {} /\ dead = {} /\ protected = {} /\ mine = {}
  BY <1>1 DEF TypeInv, ProcessInv
<1>5. /\ file.sc \in [Node -> [Node -> Int]]
      /\ file.lev \in [Node -> Layer] /\ Lists(file.links, Node)
      /\ file.entry \in Node \ file.cut
      /\ file.del \in SUBSET Node /\ file.del # Node /\ file.cut \in SUBSET Node
      /\ Severed(file.links, Node, file.cut)
  BY <1>1 DEF Saved
<1>6. Severed(file.links, Node, {})
  BY <1>5, NoneSevered
<1>7. TypeInv'
  <2>1. /\ draw' \in [Node -> Layer] /\ start' = [ep |-> start'.ep, top |-> start'.top]
        /\ start'.ep \in Node /\ start'.top \in Layer
    BY <1>1, <1>2 DEF TypeInv
  <2>2. Identity \in [Node -> Node]
    BY DEF Identity
  <2>3. file.lev[file.entry] \in Layer
    BY <1>5
  <2>4. n' \in 0 .. N
    BY <1>2, <1>3
  <2>5. todo' = {} /\ dead' = {} /\ protected' = {}
    BY <1>2, <1>4
  <2> QED BY <1>2, <1>3, <1>5, <2>1, <2>2, <2>3, <2>4, <2>5 DEF TypeInv
<1>8. StageInv'
  BY <1>1, <1>2, <1>3, <1>4, <1>5 DEF StageInv, Passing
<1>9. ProcessInv'
  <2>1. \A a, b \in Node : a < b => Identity[a] < Identity[b]
    BY DEF Identity
  <2> QED BY <1>1, <1>2, <1>3, <1>4, <2>1 DEF ProcessInv
<1>10. RepairInv'
  BY <1>1, <1>2, <1>3, <1>4, <1>5, <1>6 DEF RepairInv, Passing
<1>11. FileInv'
  BY <1>1, <1>2 DEF FileInv, Saved
<1> QED BY <1>7, <1>8, <1>9, <1>10, <1>11 DEF LifeInv

LEMMA ExitStep == ASSUME LifeInv, Exit PROVE LifeInv'
<1>1. /\ TypeInv /\ RepairInv /\ FileInv /\ stage = "ready" /\ stage' = "idle"
      /\ did' = {} /\ n' = 0 /\ idMap' = Identity /\ Nodes' = {}
      /\ lev' = [v \in Node |-> 0] /\ links' = NoLinks /\ entry' = 0 /\ top' = 0
      /\ del' = {} /\ mine' = {} /\ cut' = {} /\ todo' = {} /\ start' = NoStart
      /\ UNCHANGED <<sc, draw, protected, dead, file>>
  BY DEF LifeInv, Exit, Nodes
<1>2. dead = {} /\ protected = {}
  BY <1>1 DEF RepairInv, Passing
<1>3. 0 \in Node /\ 0 \in Layer /\ 0 \in 0 .. N /\ \A l \in Layer : Cap(l) \in Nat
  BY Sizes
<1>4. Lists(links', {}) /\ Severed(links', {}, {})
  BY <1>1, <1>3 DEF NoLinks, Lists, Severed
<1>5. TypeInv'
  BY <1>1, <1>2, <1>3, <1>4 DEF TypeInv, Identity, NoStart
<1>6. StageInv'
  BY <1>1 DEF StageInv, Passing
<1>7. ProcessInv'
  BY <1>1 DEF ProcessInv
<1>8. RepairInv'
  BY <1>1, <1>2, <1>4 DEF RepairInv, Passing
<1>9. FileInv'
  BY <1>1 DEF FileInv, Saved
<1> QED BY <1>5, <1>6, <1>7, <1>8, <1>9 DEF LifeInv

LEMMA SameLife == ASSUME LifeInv, UNCHANGED vars PROVE LifeInv'
<1>1. UNCHANGED <<sc, draw, n, idMap, total, lev, links, entry, top, del, stage,
                  did, todo, start, pass, protected, dead, file, mine, cut>>
  BY DEF vars, nodes, graph, marks, repairing
<1>2. Nodes' = Nodes
  BY <1>1 DEF Nodes
<1>3. TypeInv'
  BY <1>1, <1>2 DEF LifeInv, TypeInv
<1>4. StageInv'
  BY <1>1, <1>2 DEF LifeInv, StageInv, Passing
<1>5. ProcessInv'
  BY <1>1, <1>2 DEF LifeInv, ProcessInv, Passing
<1>6. RepairInv'
  BY <1>1, <1>2 DEF LifeInv, RepairInv, Passing
<1>7. FileInv'
  BY <1>1 DEF LifeInv, FileInv, Saved
<1> QED BY <1>3, <1>4, <1>5, <1>6, <1>7 DEF LifeInv

LEMMA LifeNext == ASSUME LifeInv, [Next]_vars PROVE LifeInv'
<1>1. CASE Build
  BY <1>1, BuildStep
<1>2. CASE InsertRow
  BY <1>2, InsertRowStep
<1>3. CASE RepairPass
  BY <1>3, StartRepairStep, StepAStep, StepBStep, PassStep DEF RepairPass
<1>4. CASE Delete
  BY <1>4, DeleteStep
<1>5. CASE Update
  BY <1>5, UpdateStep
<1>6. CASE Reinsert
  BY <1>6, ReinsertStep
<1>7. CASE Compact
  BY <1>7, CompactRepairStep, CompactRebuildStep DEF Compact
<1>8. CASE Save
  BY <1>8, SaveStep
<1>9. CASE Load
  BY <1>9, LoadStep
<1>10. CASE Exit
  BY <1>10, ExitStep
<1>11. CASE UNCHANGED vars
  BY <1>11, SameLife
<1> QED BY <1>1, <1>2, <1>3, <1>4, <1>5, <1>6, <1>7, <1>8, <1>9, <1>10, <1>11
        DEF Next

\* Type correctness, and what the stages, the repair pass and the index file
\* keep true of the graph: of every step of hnsw.py that the model has.
THEOREM LifeHolds == Spec => []LifeInv
BY LifeInit, LifeNext, PTL DEF Spec

\* Entry point and top layer match whenever a process has a graph, in and
\* between all steps of a build, an update, a compaction and a load; and an
\* update's re-insertions never start at a node that is yet to be linked.
THEOREM EntryMatches == Spec => []EntryOnTop
<1>1. LifeInv => EntryOnTop
  <2> SUFFICES ASSUME LifeInv PROVE EntryOnTop
    OBVIOUS
  <2>1. n > 0 => entry \in Nodes /\ lev[entry] = top
    BY DEF LifeInv, StageInv
  <2>2. stage = "update" => start.ep \in Nodes \ todo /\ lev[start.ep] = start.top
    BY DEF LifeInv, StageInv
  <2> QED BY <2>1, <2>2 DEF EntryOnTop
<1> QED BY <1>1, LifeHolds, PTL

\* The nodes that a compaction cut out of the graph stay without edges and
\* in-edges on every layer: no step of a repair pass brings one back, and no
\* index file does.
THEOREM CutStaysOff == Spec => []CutOff
<1>1. LifeInv => CutOff
  <2> SUFFICES ASSUME LifeInv, NEW v \in cut, NEW l \in Layer
               PROVE  /\ links[v][l] = << >>
                      /\ \A u \in Nodes : ~Contains(links[u][l], v)
    BY DEF CutOff
  <2>1. v \in Node /\ Nodes \in SUBSET Node /\ Severed(links, Nodes, cut)
    BY NodesIn DEF LifeInv, TypeInv, RepairInv
  <2>2. links[v][l] = << >>
    BY <2>1 DEF Severed
  <2>3. ASSUME NEW u \in Nodes PROVE ~Contains(links[u][l], v)
    <3>1. links[u][l] \in Seq(Nodes \ cut)
      BY <2>1 DEF Severed
    <3>2. \A i \in 1 .. Len(links[u][l]) : links[u][l][i] # v
      BY <3>1
    <3> QED BY <3>1, <3>2 DEF Contains
  <2> QED BY <2>2, <2>3
<1> QED BY <1>1, LifeHolds, PTL
-----------------------------------------------------------------------------
(* Repair edges.                                                           *)

LEMMA SameKept ==
    ASSUME ProtectedKept, UNCHANGED <<links, protected>>
    PROVE  ProtectedKept'
<1>1. \A u : KeptAt(u)' = KeptAt(u)
  BY DEF KeptAt
<1> QED BY <1>1 DEF ProtectedKept

LEMMA AddsKeep ==
    ASSUME TypeInv, ProtectedKept, NEW u \in Nodes, NEW x \in Nodes,
           AddProtected(u, x)
    PROVE  ProtectedKept'
<1> DEFINE list == links[u][0]
           all == ToSet(list) \cup {x}
           q == NodeScore[u]
           keep == Keep(u, x)
           best == Select(NodeScore, q, all, M0, keep)
           new == IF Contains(list, x) THEN list
                  ELSE IF Len(list) < M0 THEN Append(list, x) ELSE best
<1>1. /\ n \in 0 .. N /\ sc \in [Node -> [Node -> Int]]
      /\ idMap \in [Node -> Node] /\ links \in [Node -> [Layer -> Seq(Nodes)]]
      /\ protected \in SUBSET (Nodes \X Nodes)
  BY DEF TypeInv, Lists
<1>2. /\ Nodes \in SUBSET Node /\ u \in Node /\ x \in Node /\ 0 \in Layer
      /\ M0 \in Nat
  BY <1>1, NodesIn, Sizes
<1>3. links' = [links EXCEPT ![u][0] = new] /\ protected' = protected \cup {<<u, x>>}
  BY DEF AddProtected
<1> HIDE DEF new
<1>4. links'[u][0] = new /\ \A v \in Node : v # u => links'[v][0] = links[v][0]
  BY <1>1, <1>2, <1>3
<1>5. /\ \A v : v # u => KeptAt(v)' = KeptAt(v)
      /\ KeptAt(u)' = keep /\ keep = KeptAt(u) \cup {x}
  BY <1>2, <1>3 DEF KeptAt, Keep
<1>6. SUFFICES ASSUME NEW v, NEW y, <<v, y>> \in protected',
                      Cardinality(KeptAt(v)') <= M0
               PROVE  Contains(links'[v][0], y)
  <2>1. \A e \in protected' : e = <<e[1], e[2]>>
    BY <1>1, <1>3
  <2> QED BY <2>1 DEF ProtectedKept
<1>7. CASE v # u
  <2>1. <<v, y>> \in protected /\ v \in Node
    BY <1>1, <1>2, <1>3, <1>6, <1>7
  <2>2. Cardinality(KeptAt(v)) <= M0
    BY <1>5, <1>6, <1>7
  <2>3. Contains(links[v][0], y)
    BY <2>1, <2>2 DEF ProtectedKept
  <2> QED BY <1>4, <1>7, <2>1, <2>3
<1>8. CASE v = u
  <2>1. /\ list \in Seq(Nodes) /\ Cardinality(keep) <= M0 /\ y \in keep
        /\ keep \in SUBSET Node
    BY <1>1, <1>2, <1>3, <1>5, <1>6, <1>8 DEF KeptAt
  <2>2. IsFiniteSet(keep) /\ Cardinality(keep) \in 0 .. N
    BY <2>1, NodesFinite
  <2>3. Cardinality(KeptAt(u)) <= M0
    <3>1. KeptAt(u) \in SUBSET keep
      BY <1>5
    <3>2. Cardinality(KeptAt(u)) <= Cardinality(keep) /\ IsFiniteSet(KeptAt(u))
      BY <2>2, <3>1, FS_Subset
    <3>3. Cardinality(KeptAt(u)) \in Nat
      BY <3>2, FS_CardinalityType
    <3> HIDE DEF keep
    <3> QED BY <1>2, <2>1, <2>2, <3>2, <3>3
  <2>4. \A z \in KeptAt(u) : Contains(list, z)
    <3> TAKE z \in KeptAt(u)
    <3>1. <<u, z>> \in protected
      BY DEF KeptAt
    <3>2. Contains(links[<<u, z>>[1]][0], <<u, z>>[2])
      BY <2>3, <3>1 DEF ProtectedKept
    <3> QED BY <3>2
  <2>5. DOMAIN list = 1 .. Len(list)
    BY <2>1
  <2>6. \A z : Contains(list, z) <=> z \in ToSet(list)
    <3> HIDE DEF list
    <3> QED BY <2>5 DEF Contains, ToSet
  <2>7. Contains(new, y)
    <3>1. CASE Contains(list, x)
      <4>1. new = list
        BY <3>1 DEF new
      <4> QED BY <1>5, <2>1, <2>4, <3>1, <4>1
    <3>2. CASE ~Contains(list, x) /\ Len(list) < M0
      <4>1. new = Append(list, x)
        BY <3>2 DEF new
      <4> HIDE DEF list, keep
      <4>2. /\ Len(new) = Len(list) + 1 /\ new[Len(list) + 1] = x
            /\ \A j \in 1 .. Len(list) : new[j] = list[j]
            /\ Len(list) \in Nat
        BY <2>1, <4>1
      <4>3. \A z : Contains(list, z) => Contains(new, z)
        BY <4>2 DEF Contains
      <4>4. Contains(new, x)
        BY <4>2 DEF Contains
      <4>5. y = x \/ y \in KeptAt(u)
        BY <1>5, <2>1
      <4> QED BY <2>4, <4>3, <4>4, <4>5
    <3>3. CASE ~Contains(list, x) /\ ~(Len(list) < M0)
      <4>1. new = best
        BY <3>3 DEF new
      <4>2. q \in [Node -> Int]
        BY <1>1, <1>2, NodeScoreType
      <4>3. all \in SUBSET Node
        <5> HIDE DEF list
        <5> QED BY <1>2, <2>1 DEF ToSet
      <4>4. keep \in SUBSET all
        <5> HIDE DEF list, keep
        <5>1. \A z \in keep : z = x \/ z \in ToSet(list)
          BY <1>5, <2>4, <2>6
        <5> QED BY <5>1
      <4> HIDE DEF all, keep, q
      <4>5. keep \subseteq ToSet(best)
        BY <1>2, <2>1, <4>2, <4>3, <4>4, SelectKeeps
      <4>6. best \in Seq(all)
        BY <1>2, <4>2, <4>3, SelectIn
      <4> HIDE DEF best
      <4>7. DOMAIN best = 1 .. Len(best)
        BY <4>6
      <4>8. \A z \in ToSet(best) : Contains(best, z)
        BY <4>7 DEF ToSet, Contains
      <4> QED BY <2>1, <4>1, <4>5, <4>8
    <3> QED BY <3>1, <3>2, <3>3
  <2> QED BY <1>4, <1>8, <2>7
<1> QED BY <1>7, <1>8

\* A step on one node adds a repair edge, or none.
LEMMA EdgeAdded ==
    ASSUME LifeInv, StepA \/ StepB
    PROVE  \/ UNCHANGED <<links, protected>>
           \/ \E u \in Nodes, x \in Nodes : AddProtected(u, x)
<1> DEFINE x == Least(todo)
           list == links[x][0]
           near == IF list # << >> THEN ToSet(list) ELSE Near(x)
<1>1. TypeInv /\ stage \in Passing /\ todo # {}
  BY DEF LifeInv, StepA, StepB, Passing
<1>2. x \in Nodes /\ x \in Node
  BY <1>1, TodoIn
<1>3. \/ UNCHANGED <<links, protected>>
      \/ \E S \in {near, Sources(x)} :
            S # {} /\ AddProtected(Best(NodeScore[x], S), x)
  <2>1. CASE StepA
    BY <2>1 DEF StepA
  <2>2. CASE StepB
    BY <2>2 DEF StepB
  <2> QED BY <2>1, <2>2
<1> HIDE DEF x
<1>4. Near(x) \in SUBSET Nodes
  BY <1>1, <1>2, NearLive
<1>5. ToSet(list) \in SUBSET Nodes
  <2>1. list \in Seq(Nodes)
    <3>1. 0 \in Layer /\ links \in [Node -> [Layer -> Seq(Nodes)]]
      BY <1>1, Sizes DEF TypeInv, Lists
    <3> QED BY <1>2, <3>1
  <2> HIDE DEF list
  <2> QED BY <2>1 DEF ToSet
<1>6. near \in SUBSET Nodes /\ Sources(x) \in SUBSET Nodes
  BY <1>4, <1>5 DEF Sources
<1> HIDE DEF near
<1> QED BY <1>2, <1>3, <1>6, BestLive

LEMMA KeptNext ==
    ASSUME LifeInv, ProtectedKept, [Next]_vars
    PROVE  ProtectedKept'
<1>1. TypeInv /\ (stage \notin Passing => protected = {})
  BY DEF LifeInv, RepairInv
<1>2. ASSUME protected' = {} PROVE ProtectedKept'
  BY <1>2 DEF ProtectedKept
<1>3. CASE stage \notin Passing
  <2>1. protected = {}
    BY <1>1, <1>3
  <2>2. protected' = protected \/ protected' = {}
    <3>1. ~StepA /\ ~StartStepB /\ ~StepB /\ ~EndPass
      BY <1>3 DEF StepA, StartStepB, StepB, EndPass, Passing
    <3>2. CASE Build \/ InsertRow
      BY <3>2 DEF Build, InsertRow, repairing
    <3>3. CASE StartRepair
      BY <3>3 DEF StartRepair
    <3>4. CASE Delete \/ Update \/ Reinsert
      BY <3>4 DEF Delete, Update, Reinsert, repairing
    <3>5. CASE Compact
      BY <3>5 DEF Compact, CompactRepair, CompactRebuild
    <3>6. CASE Save \/ Load \/ Exit
      BY <3>6 DEF Save, Load, Exit, repairing
    <3>7. CASE UNCHANGED vars
      BY <3>7 DEF vars, repairing
    <3> QED BY <3>1, <3>2, <3>3, <3>4, <3>5, <3>6, <3>7 DEF Next, RepairPass
  <2> QED BY <1>2, <2>1, <2>2
<1>4. CASE stage \in Passing
  <2>1. \/ StepA \/ StartStepB \/ StepB \/ EndPass \/ UNCHANGED vars
    BY <1>4 DEF Next, RepairPass, Compact, Build, InsertRow, StartRepair,
       Delete, Update, Change, Reinsert, CompactRepair, CompactRebuild,
       Compacting, Save, Load, Exit, Passing
  <2>2. CASE UNCHANGED <<links, protected>>
    BY <2>2, SameKept
  <2>3. CASE StartStepB \/ EndPass
    <3>1. UNCHANGED links /\ (protected' = {} \/ UNCHANGED protected)
      BY <2>3 DEF StartStepB, EndPass, RepairDone, graph
    <3> QED BY <1>2, <2>2, <3>1
  <2>4. CASE StepA \/ StepB
    <3>1. UNCHANGED <<links, protected>>
          \/ \E u \in Nodes, x \in Nodes : AddProtected(u, x)
      BY <2>4, EdgeAdded
    <3> QED BY <1>1, <2>2, <3>1, AddsKeep
  <2>5. CASE UNCHANGED vars
    BY <2>2, <2>5 DEF vars, graph, repairing
  <2> QED BY <2>1, <2>3, <2>4, <2>5
<1> QED BY <1>3, <1>4

\* A repair edge stays for the rest of the pass, whatever shrinks its list,
\* as long as the node has no more repair edges than slots: an edge that is
\* added to a full list never pushes an earlier repair edge out.
THEOREM RepairEdgesStay == Spec => []ProtectedKept
<1>1. Init => ProtectedKept
  BY DEF Init, ProtectedKept
<1>2. LifeInv /\ ProtectedKept /\ [Next]_vars => ProtectedKept'
  BY KeptNext
<1> QED BY <1>1, <1>2, LifeHolds, PTL DEF Spec
-----------------------------------------------------------------------------
(* What a walk finds.                                                      *)

\* The pairs of nodes of which the first is the better one.
Betters(q) == {p \in Node \X Node : Better(q, p[1], p[2])}

LEMMA BetterOrders ==
    ASSUME NEW q \in [Node -> Int], NEW S \in SUBSET Node
    PROVE  /\ Orders(Betters(q), S)
           /\ \A a, b \in S : <<a, b>> \in Betters(q) <=> Better(q, a, b)
           /\ \A a \in S : RankIn(Betters(q), S, a)
                             = Cardinality({b \in S : Better(q, b, a)})
<1>1. \A a, b \in S : <<a, b>> \in Betters(q) <=> Better(q, a, b)
  BY DEF Betters
<1>2. S \in SUBSET Int /\ \A a \in S : q[a] \in Int
  BY Sizes
<1>3. \A a \in S : ~Better(q, a, a)
  BY <1>2 DEF Better
<1>4. \A a, b \in S : a = b \/ Better(q, a, b) \/ Better(q, b, a)
  BY <1>2 DEF Better
<1>5. \A a, b, c \in S : Better(q, a, b) /\ Better(q, b, c) => Better(q, a, c)
  BY <1>2 DEF Better
<1>6. Orders(Betters(q), S)
  BY <1>1, <1>3, <1>4, <1>5 DEF Orders
<1>7. \A a \in S : {b \in S : <<b, a>> \in Betters(q)} = {b \in S : Better(q, b, a)}
  BY <1>1
<1> QED BY <1>1, <1>6, <1>7 DEF RankIn

LEMMA WorstIn ==
    ASSUME NEW q \in [Node -> Int], NEW S \in SUBSET Node, S # {}
    PROVE  Worst(q, S) \in S
<1> DEFINE R == Betters(q)
           m == Cardinality(S)
<1>1. Orders(R, S) /\ \A a, b \in S : <<a, b>> \in R <=> Better(q, a, b)
  BY BetterOrders
<1>2. IsFiniteSet(S) /\ m \in Nat /\ m # 0
  <2>1. IsFiniteSet(S) /\ m \in Nat
    BY NodesFinite
  <2> QED BY <2>1, FS_EmptySet
<1> HIDE DEF R, m
<1>3. /\ \A x \in S : RankIn(R, S, x) \in 0 .. m - 1
      /\ \A x, z \in S : RankIn(R, S, x) < RankIn(R, S, z) <=> <<x, z>> \in R
      /\ \A x, z \in S : RankIn(R, S, x) = RankIn(R, S, z) => x = z
      /\ \A i \in 0 .. m - 1 : \E x \in S : RankIn(R, S, x) = i
  BY <1>1, <1>2, RankTaken DEF m
<1>4. PICK a \in S : RankIn(R, S, a) = m - 1
  BY <1>2, <1>3
<1>5. \A b \in S \ {a} : Better(q, b, a)
  <2> TAKE b \in S \ {a}
  <2>1. RankIn(R, S, b) \in 0 .. m - 1 /\ RankIn(R, S, b) # m - 1
    BY <1>3, <1>4
  <2>2. RankIn(R, S, b) < RankIn(R, S, a)
    BY <1>2, <1>4, <2>1
  <2> QED BY <1>1, <1>3, <2>2
<1> QED BY <1>5 DEF Worst

\* The rows of a result in order: each of them once.
LEMMA RankedIs ==
    ASSUME NEW q \in [Node -> Int], NEW S \in SUBSET Node
    PROVE  /\ DOMAIN Ranked(q, S) = 1 .. Cardinality(S)
           /\ Len(Ranked(q, S)) = Cardinality(S)
           /\ \A i \in 1 .. Cardinality(S) :
                 /\ Ranked(q, S)[i] \in S
                 /\ Cardinality({b \in S : Better(q, b, Ranked(q, S)[i])}) = i - 1
<1> DEFINE R == Betters(q)
           m == Cardinality(S)
           At(i) == CHOOSE a \in S : Cardinality({b \in S : Better(q, b, a)}) = i - 1
<1>1. /\ Orders(R, S)
      /\ \A a \in S : RankIn(R, S, a) = Cardinality({b \in S : Better(q, b, a)})
  BY BetterOrders
<1>2. IsFiniteSet(S) /\ m \in Nat
  BY NodesFinite
<1> HIDE DEF R
<1>3. \A i \in 0 .. m - 1 : \E x \in S : RankIn(R, S, x) = i
  BY <1>1, <1>2, RankTaken
<1>4. \A i \in 1 .. m : At(i) \in S /\ Cardinality({b \in S : Better(q, b, At(i))}) = i - 1
  <2> TAKE i \in 1 .. m
  <2>1. i - 1 \in 0 .. m - 1
    <3> HIDE DEF m
    <3> QED BY <1>2
  <2>2. \E x \in S : Cardinality({b \in S : Better(q, b, x)}) = i - 1
    <3> HIDE DEF m
    <3> QED BY <1>1, <1>3, <2>1
  <2> QED BY <2>2
<1>5. Ranked(q, S) = [i \in 1 .. m |-> At(i)]
  BY DEF Ranked
<1> HIDE DEF At, m
<1>6. Ranked(q, S) \in [1 .. m -> S]
  BY <1>4, <1>5
<1>7. Ranked(q, S) \in Seq(S) /\ Len(Ranked(q, S)) = m
  BY <1>2, <1>6
<1> QED BY <1>4, <1>5, <1>7 DEF m

\* From w to e, the nodes New are scored.
Scored(w, e, New, admit, ef) ==
    /\ e.res \subseteq w.res \cup (New \cap admit)
    /\ Cardinality(w.res) \in Nat /\ Cardinality(e.res) \in Nat
    /\ Cardinality(w.res) <= Cardinality(e.res) /\ Cardinality(e.res) <= ef
    /\ w.cand \subseteq e.cand /\ e.cand \subseteq w.cand \cup New
    /\ Cardinality(e.res) < ef =>
          e.cand = w.cand \cup New /\ e.res = w.res \cup (New \cap admit)

\* One scored node, that is new to the result.
LEMMA EnterFacts ==
    ASSUME NEW q \in [Node -> Int], NEW admit, NEW ef \in Nat \ {0},
           NEW S \in SUBSET Node, NEW w \in Heaps(S), NEW x \in S, x \notin w.res,
           Cardinality(w.res) <= ef
    PROVE  /\ Enter(q, admit, ef, w, x).seen = w.seen
           /\ Scored(w, Enter(q, admit, ef, w, x), {x}, admit, ef)
<1> DEFINE e == Enter(q, admit, ef, w, x)
           m == Cardinality(w.res)
           full == m >= ef
           worst == Worst(q, w.res)
           out == full /\ q[x] <= q[worst]
           new == IF x \notin admit THEN w.res
                  ELSE (IF full THEN w.res \ {worst} ELSE w.res) \cup {x}
<1>1. /\ w.res \in SUBSET Node /\ w.cand \in SUBSET S
      /\ w = [seen |-> w.seen, cand |-> w.cand, res |-> w.res]
  BY DEF Heaps
<1>2. IsFiniteSet(w.res) /\ m \in Nat
  BY <1>1, NodesFinite
<1>3. /\ out => e = w
      /\ ~out => e.seen = w.seen /\ e.cand = w.cand \cup {x} /\ e.res = new
  <2>1. e = IF out THEN w ELSE [w EXCEPT !.cand = @ \cup {x}, !.res = new]
    BY DEF Enter
  <2> DEFINE z == [w EXCEPT !.cand = @ \cup {x}, !.res = new]
  <2>2. z.seen = w.seen /\ z.cand = w.cand \cup {x} /\ z.res = new
    <3> HIDE DEF new
    <3> QED BY DEF Heaps
  <2> HIDE DEF e, z, out
  <2> QED BY <2>1, <2>2
<1>4. CASE out
  <2>1. e = w /\ full
    BY <1>3, <1>4
  <2> HIDE DEF e
  <2> QED BY <1>2, <2>1 DEF e, Scored
<1>5. CASE ~out
  <2>1. e.seen = w.seen /\ e.cand = w.cand \cup {x} /\ e.res = new
    <3> HIDE DEF new
    <3> QED BY <1>3, <1>5
  <2>2. CASE x \notin admit
    <3>1. new = w.res /\ {x} \cap admit = {}
      BY <2>2
    <3> HIDE DEF e, new
    <3> QED BY <1>2, <2>1, <3>1 DEF e, Scored
  <2>3. CASE x \in admit /\ ~full
    <3>1. new = w.res \cup {x} /\ {x} \cap admit = {x}
      BY <2>3
    <3>2. Cardinality(w.res \cup {x}) = m + 1
      BY <1>2, FS_AddElement
    <3>3. m + 1 <= ef /\ m <= m + 1 /\ m + 1 \in Nat
      <4> HIDE DEF m
      <4> QED BY <1>2, <2>3
    <3> HIDE DEF e, new
    <3>4. e.seen = w.seen /\ e.cand = w.cand \cup {x} /\ e.res = w.res \cup {x}
      BY <2>1, <3>1
    <3> QED BY <1>2, <3>1, <3>2, <3>3, <3>4 DEF e, Scored
  <2>4. CASE x \in admit /\ full
    <3>1. new = (w.res \ {worst}) \cup {x} /\ {x} \cap admit = {x}
      BY <2>4
    <3>2. w.res # {}
      <4>1. m # 0
        <5> HIDE DEF m
        <5> QED BY <1>2, <2>4
      <4> QED BY <4>1, FS_EmptySet
    <3>3. worst \in w.res
      BY <1>1, <3>2, WorstIn
    <3> HIDE DEF worst
    <3>4. Cardinality(w.res \ {worst}) = m - 1 /\ IsFiniteSet(w.res \ {worst})
      BY <1>2, <3>3, FS_RemoveElement
    <3>5. Cardinality((w.res \ {worst}) \cup {x}) = (m - 1) + 1
      BY <3>4, FS_AddElement
    <3>6. (m - 1) + 1 = m /\ m <= ef /\ ~(m < ef)
      <4> HIDE DEF m
      <4> QED BY <1>2, <2>4 DEF m
    <3> HIDE DEF e, new
    <3>7. e.seen = w.seen /\ e.cand = w.cand \cup {x}
          /\ e.res = (w.res \ {worst}) \cup {x}
      BY <2>1, <3>1
    <3>8. Cardinality(e.res) = m
      BY <3>5, <3>6, <3>7
    <3>9. e.res \subseteq w.res \cup ({x} \cap admit)
      BY <3>1, <3>7
    <3> HIDE DEF m
    <3>10. m <= m
      BY <1>2
    <3> QED BY <1>2, <3>6, <3>7, <3>8, <3>9, <3>10 DEF e, m, Scored
  <2> QED BY <2>2, <2>3, <2>4
<1> QED BY <1>4, <1>5

LEMMA ScoredTwice ==
    ASSUME NEW w, NEW x, NEW z, NEW A, NEW B, NEW admit, NEW ef \in Nat \ {0},
           Scored(w, x, A, admit, ef), Scored(x, z, B, admit, ef)
    PROVE  Scored(w, z, A \cup B, admit, ef)
<1>1. Cardinality(w.res) <= Cardinality(z.res)
  BY DEF Scored
<1>2. /\ z.res \subseteq w.res \cup ((A \cup B) \cap admit)
      /\ w.cand \subseteq z.cand /\ z.cand \subseteq w.cand \cup (A \cup B)
  BY DEF Scored
<1>3. ASSUME Cardinality(z.res) < ef
      PROVE  /\ z.cand = w.cand \cup (A \cup B)
             /\ z.res = w.res \cup ((A \cup B) \cap admit)
  <2>1. Cardinality(x.res) < ef
    BY <1>3 DEF Scored
  <2>2. z.cand = x.cand \cup B /\ z.res = x.res \cup (B \cap admit)
    BY <1>3 DEF Scored
  <2>3. x.cand = w.cand \cup A /\ x.res = w.res \cup (A \cap admit)
    BY <2>1 DEF Scored
  <2> QED BY <2>2, <2>3
<1> QED BY <1>1, <1>2, <1>3 DEF Scored

\* The walk w over the scores q has room for ef rows and is in S, as is list.
HasRoom(S, q, ef, w, list) ==
    /\ q \in [Node -> Int] /\ ef \in Nat \ {0} /\ S \in SUBSET Node
    /\ w \in Heaps(S) /\ w.res \subseteq w.seen /\ Cardinality(w.res) <= ef
    /\ list \in Seq(S) /\ Distinct(list)

\* The walk e is w after the rows of list.
TookIn(w, e, list, admit, ef) ==
    /\ e.seen = w.seen \cup ToSet(list)
    /\ Scored(w, e, ToSet(list) \ w.seen, admit, ef)

\* A list of a row, each of its rows once.
LEMMA EnteredFacts ==
    ASSUME NEW S, NEW q, NEW admit, NEW ef, NEW w, NEW list,
           HasRoom(S, q, ef, w, list)
    PROVE  TookIn(w, Entered(q, admit, ef, w, list), list, admit, ef)
<1> DEFINE e == Entered(q, admit, ef, w, list)
           cnt == Len(list)
           New(j) == {list[i] : i \in 1 .. j} \ w.seen
           Ok(x, j) == x.seen = w.seen /\ Scored(w, x, New(j), admit, ef)
<1>0. /\ q \in [Node -> Int] /\ ef \in Nat \ {0} /\ S \in SUBSET Node
      /\ w \in Heaps(S) /\ w.res \subseteq w.seen /\ Cardinality(w.res) <= ef
      /\ list \in Seq(S) /\ Distinct(list)
  BY DEF HasRoom
<1> USE <1>0
<1>1. PICK f : Enters(f, S, q, admit, ef, w, list)
  BY EnteredRuns
<1>2. /\ cnt \in Nat /\ \A j \in 1 .. cnt : list[j] \in S
      /\ \A i, j \in 1 .. cnt : list[i] = list[j] => i = j
  BY DEF Distinct
<1>3. /\ f[0] = w
      /\ \A j \in 1 .. cnt :
            f[j] = IF list[j] \in w.seen THEN f[j - 1]
                   ELSE Enter(q, admit, ef, f[j - 1], list[j])
      /\ \A j \in 0 .. cnt : f[j] \in Heaps(S)
      /\ e = [f[cnt] EXCEPT !.seen = @ \cup ToSet(list)]
  BY <1>1 DEF Enters
<1>4. Cardinality(w.res) \in Nat
  BY NodesFinite DEF Heaps
<1> DEFINE T == {j \in Nat : j <= cnt => Ok(f[j], j)}
<1>5. 0 \in T
  <2>1. New(0) = {}
    OBVIOUS
  <2> HIDE DEF New, e
  <2>2. Ok(w, 0)
    BY <1>4, <2>1 DEF Scored
  <2> QED BY <1>3, <2>2
<1>6. \A j \in 0 .. cnt - 1 : j \in T => j + 1 \in T
  <2> TAKE j \in 0 .. cnt - 1
  <2> HIDE DEF cnt
  <2>1. /\ j \in Nat /\ j <= cnt /\ j \in 0 .. cnt /\ j + 1 \in 1 .. cnt
        /\ (j + 1) - 1 = j
    BY <1>2
  <2> HAVE j \in T
  <2> DEFINE x == f[j]
             y == list[j + 1]
             z == f[j + 1]
  <2> HIDE DEF e
  <2>2. Ok(x, j) /\ x \in Heaps(S) /\ y \in S
    <3> HIDE DEF Ok
    <3> QED BY <1>2, <1>3, <2>1
  <2>3. z = IF y \in w.seen THEN x ELSE Enter(q, admit, ef, x, y)
    BY <1>3, <2>1
  <2>4. {list[i] : i \in 1 .. j + 1} = {list[i] : i \in 1 .. j} \cup {y}
    <3>1. \A i : i \in 1 .. j + 1 <=> i \in 1 .. j \/ i = j + 1
      BY <2>1
    <3> QED BY <3>1
  <2>5. CASE y \in w.seen
    <3>1. New(j + 1) = New(j) /\ z = x
      BY <2>3, <2>4, <2>5
    <3> HIDE DEF New, x, y, z
    <3>2. Ok(z, j + 1)
      BY <2>2, <3>1
    <3> HIDE DEF Ok
    <3> QED BY <2>1, <3>2 DEF z
  <2>6. CASE y \notin w.seen
    <3>1. New(j + 1) = New(j) \cup {y}
      BY <2>4, <2>6
    <3>2. y \notin New(j)
      <4>1. \A i \in 1 .. j : i \in 1 .. cnt /\ i # j + 1
        BY <1>2, <2>1
      <4> QED BY <1>2, <2>1, <4>1
    <3> HIDE DEF New, x, y, z
    <3>3. z = Enter(q, admit, ef, x, y)
      BY <2>3, <2>6
    <3>4. y \notin x.res /\ Cardinality(x.res) <= ef /\ Cardinality(x.res) \in Nat
      BY <2>2, <2>6, <3>2 DEF Scored
    <3>5. z.seen = x.seen /\ Scored(x, z, {y}, admit, ef)
      <4>1. x \in Heaps(S) /\ y \in S
        BY <2>2
      <4> HIDE DEF T
      <4>2. /\ Enter(q, admit, ef, x, y).seen = x.seen
            /\ Scored(x, Enter(q, admit, ef, x, y), {y}, admit, ef)
        BY <3>4, <4>1, EnterFacts
      <4> QED BY <3>3, <4>2
    <3>6. z.seen = w.seen /\ Scored(w, z, New(j + 1), admit, ef)
      BY <2>2, <3>1, <3>5, ScoredTwice
    <3>7. Ok(z, j + 1)
      BY <3>6
    <3> HIDE DEF Ok
    <3> QED BY <2>1, <3>7 DEF z
  <2> QED BY <2>5, <2>6
<1>7. cnt \in T
  <2> HIDE DEF T, cnt, e
  <2>1. T \in SUBSET Nat
    BY DEF T
  <2> QED BY <1>2, <1>5, <1>6, <2>1, Steps
<1>8. Ok(f[cnt], cnt) /\ f[cnt] \in Heaps(S)
  <2> HIDE DEF Ok, e
  <2> QED BY <1>2, <1>3, <1>7
<1>9. New(cnt) = ToSet(list) \ w.seen
  BY DEF ToSet
<1>10. /\ e.seen = f[cnt].seen \cup ToSet(list) /\ e.cand = f[cnt].cand
       /\ e.res = f[cnt].res
  <2>1. f[cnt] \in Heaps(S) /\ e = [f[cnt] EXCEPT !.seen = @ \cup ToSet(list)]
    <3> HIDE DEF e, Ok
    <3> QED BY <1>3, <1>8
  <2> HIDE DEF e, cnt
  <2> QED BY <2>1 DEF Heaps
<1> HIDE DEF New, e, cnt
<1>11. Scored(w, e, ToSet(list) \ w.seen, admit, ef)
  BY <1>8, <1>9, <1>10 DEF Scored
<1>12. e.seen = w.seen \cup ToSet(list)
  BY <1>8, <1>10
<1> QED BY <1>11, <1>12 DEF e, TookIn

-----------------------------------------------------------------------------
(* Where layer 0 leads to, and how much of it a walk finds.                *)

\* f[k]: where k steps on layer 0 lead to from v.
Spreads(f, s, v) ==
    /\ f[0] = {v}
    /\ \A k \in 1 .. N :
          f[k] = f[k - 1] \cup UNION {ToSet(s[u][0]) : u \in f[k - 1]}
    /\ Reach(s, v) = f[N]

LEMMA ReachRuns ==
    ASSUME NEW s, NEW v, NEW S, v \in S,
           \A u \in S : ToSet(s[u][0]) \in SUBSET S
    PROVE  \E f : Spreads(f, s, v) /\ \A k \in 0 .. N : f[k] \in SUBSET S
<1> DEFINE A == SUBSET S
           Op(x) == x \cup UNION {ToSet(s[u][0]) : u \in x}
           Body(g) == [k \in 0 .. N |-> IF k = 0 THEN {v} ELSE Op(g[k - 1])]
           f == CHOOSE g : g = Body(g)
           F == [k \in Nat |-> [x \in A |-> Op(x)]]
<1>1. N \in Nat /\ {v} \in A
  BY Sizes
<1>2. \A x \in A : Op(x) \in A
  OBVIOUS
<1>3. F \in [Nat -> [A -> A]]
  <2> HIDE DEF Op, A
  <2> QED BY <1>2
<1>4. PICK g \in [0 .. N -> A] : Recurs(g, {v}, F, N)
  <2> HIDE DEF F, A
  <2> QED BY <1>1, <1>3, Recursion
<1>5. \A k \in 0 .. N : k # 0 => F[k][g[k - 1]] = Op(g[k - 1])
  <2> TAKE k \in 0 .. N
  <2> HAVE k # 0
  <2>1. k \in Nat /\ k - 1 \in 0 .. N
    BY <1>1
  <2> HIDE DEF Op, A
  <2> QED BY <2>1, <1>4
<1>6. g = Body(g)
  <2> HIDE DEF F, Op, A
  <2> QED BY <1>4, <1>5 DEF Recurs
<1>7. f = Body(f)
  <2> HIDE DEF Body
  <2> QED BY <1>6
<1>8. f[0] = {v} /\ \A k \in 1 .. N : f[k] = Op(f[k - 1])
  <2> HIDE DEF f, Op
  <2>1. 0 \in 0 .. N /\ \A k \in 1 .. N : k \in 0 .. N /\ k # 0
    BY <1>1
  <2> QED BY <1>7, <2>1
<1>9. \A k \in 0 .. N : f[k] \in A
  <2> HIDE DEF f, Op, A
  <2> TAKE k \in 0 .. N
  <2>1. k \in Nat /\ \A m \in 1 .. k : m \in 1 .. N
    BY <1>1
  <2>2. \A m \in 1 .. k : f[m - 1] \in A => f[m] \in A
    BY <1>2, <1>8, <2>1
  <2> QED BY <1>1, <1>8, <2>1, <2>2, Stays
<1>10. Reach(s, v) = f[N]
  BY DEF Reach
<1>11. Spreads(f, s, v)
  <2> HIDE DEF f
  <2> QED BY <1>8, <1>10 DEF Spreads
<1> HIDE DEF f
<1> QED BY <1>9, <1>11

\* A set that layer 0 does not lead out of has all that it leads to.
LEMMA ReachIn ==
    ASSUME NEW s, NEW v, NEW S, v \in S,
           \A u \in S : ToSet(s[u][0]) \in SUBSET S
    PROVE  Reach(s, v) \in SUBSET S
<1>1. PICK f : Spreads(f, s, v) /\ \A k \in 0 .. N : f[k] \in SUBSET S
  BY ReachRuns
<1> QED BY <1>1, Sizes DEF Spreads

\* After k steps of a walk on the lists nbr: what was seen has
\* from and is in near, and as
\* long as the result has room it has all that was seen and may be returned,
\* and as many nodes as steps were expanded, or all.
Complete(w, nbr, admit, ef, from, near, k) ==
    /\ from \subseteq w.seen /\ w.cand \subseteq w.seen /\ w.res \subseteq w.seen \cap admit
    /\ w.seen \subseteq near /\ Cardinality(w.res) <= ef
    /\ Cardinality(w.res) < ef =>
          /\ w.res = w.seen \cap admit
          /\ \A c \in w.seen \ w.cand : ToSet(nbr[c]) \subseteq w.seen
          /\ w.cand = {} \/ Cardinality(w.seen \ w.cand) >= k

\* The lists nbr are of rows of S, each row once, and the walk w is in S.
WalkOn(S, q, ef, nbr, w) ==
    /\ q \in [Node -> Int] /\ ef \in Nat \ {0} /\ S \in SUBSET Node
    /\ \A c \in S : nbr[c] \in Seq(S) /\ Distinct(nbr[c])
    /\ w \in Heaps(S)

LEMMA StepComplete ==
    ASSUME NEW S, NEW q, NEW admit, NEW ef, NEW nbr, NEW w, NEW from, NEW near,
           NEW k \in Nat, WalkOn(S, q, ef, nbr, w),
           Complete(w, nbr, admit, ef, from, near, k)
    PROVE  Complete(Step(nbr, q, admit, ef, w), nbr, admit, ef, from,
                    near \cup UNION {ToSet(nbr[c]) : c \in near}, k + 1)
<1> DEFINE c == Best(q, w.cand)
           v == [w EXCEPT !.cand = @ \ {c}]
           e == Entered(q, admit, ef, v, nbr[c])
           all == ToSet(nbr[c])
           wide == near \cup UNION {ToSet(nbr[x]) : x \in near}
           ends == \/ w.cand = {}
                   \/ Cardinality(w.res) >= ef /\ q[c] < q[Worst(q, w.res)]
<1>0. /\ q \in [Node -> Int] /\ ef \in Nat \ {0} /\ S \in SUBSET Node
      /\ \A x \in S : nbr[x] \in Seq(S) /\ Distinct(nbr[x])
      /\ w \in Heaps(S)
  BY DEF WalkOn
<1> USE <1>0
<1>1. /\ w.seen \in SUBSET S /\ w.cand \in SUBSET S /\ w.res \in SUBSET S
      /\ Cardinality(w.res) \in Nat
  BY NodesFinite DEF Heaps
<1>2. Step(nbr, q, admit, ef, w) = IF ends THEN w ELSE e
  BY DEF Step
<1>3. ASSUME ends PROVE Complete(w, nbr, admit, ef, from, wide, k + 1)
  <2>1. w.seen \subseteq wide
    BY DEF Complete
  <2>2. Cardinality(w.res) < ef => w.cand = {}
    BY <1>1, <1>3
  <2> HIDE DEF wide, ends, c
  <2> QED BY <2>1, <2>2 DEF Complete
<1>4. ASSUME ~ends PROVE Complete(e, nbr, admit, ef, from, wide, k + 1)
  <2>1. w.cand # {} /\ w.cand \in SUBSET Node
    BY <1>1, <1>4
  <2>2. c \in w.cand
    BY <2>1, BestIn
  <2> HIDE DEF c, ends
  <2>3. c \in w.seen /\ c \in S /\ nbr[c] \in Seq(S) /\ Distinct(nbr[c])
    BY <1>1, <2>2 DEF Complete
  <2>4. /\ v.seen = w.seen /\ v.cand = w.cand \ {c} /\ v.res = w.res
        /\ v \in Heaps(S)
    BY DEF Heaps
  <2> HIDE DEF v
  <2>5. v.res \subseteq v.seen /\ Cardinality(v.res) <= ef
    BY <2>4 DEF Complete
  <2>6. /\ e.seen = v.seen \cup all
        /\ Scored(v, e, all \ v.seen, admit, ef)
    <3> DEFINE list == nbr[c]
    <3>1. list \in Seq(S) /\ Distinct(list)
      BY <2>3
    <3> HIDE DEF list
    <3>2. HasRoom(S, q, ef, v, list)
      BY <2>4, <2>5, <3>1 DEF HasRoom
    <3>3. TookIn(v, Entered(q, admit, ef, v, list), list, admit, ef)
      BY <3>2, EnteredFacts
    <3> QED BY <3>3 DEF list, TookIn
  <2> HIDE DEF e
  <2>7. all \subseteq wide /\ w.seen \subseteq wide
    BY <2>3 DEF Complete
  <2> HIDE DEF all, wide
  <2>8. /\ e.seen = w.seen \cup all
        /\ e.res \subseteq w.res \cup ((all \ w.seen) \cap admit)
        /\ Cardinality(e.res) \in Nat
        /\ Cardinality(w.res) <= Cardinality(e.res) /\ Cardinality(e.res) <= ef
        /\ e.cand \subseteq (w.cand \ {c}) \cup (all \ w.seen)
        /\ Cardinality(e.res) < ef =>
              /\ e.cand = (w.cand \ {c}) \cup (all \ w.seen)
              /\ e.res = w.res \cup ((all \ w.seen) \cap admit)
    BY <2>4, <2>6 DEF Scored
  <2>9. /\ e.cand \subseteq e.seen /\ e.res \subseteq e.seen \cap admit
        /\ e.seen \subseteq wide /\ from \subseteq e.seen
    BY <2>7, <2>8 DEF Complete
  <2>10. ASSUME Cardinality(e.res) < ef
         PROVE  /\ e.res = e.seen \cap admit
                /\ \A x \in e.seen \ e.cand : ToSet(nbr[x]) \subseteq e.seen
                /\ Cardinality(e.seen \ e.cand) >= k + 1
    <3>1. Cardinality(w.res) < ef
      BY <1>1, <2>8, <2>10
    <3>2. /\ w.res = w.seen \cap admit
          /\ \A x \in w.seen \ w.cand : ToSet(nbr[x]) \subseteq w.seen
          /\ Cardinality(w.seen \ w.cand) >= k
      BY <2>2, <3>1 DEF Complete
    <3>3. /\ e.cand = (w.cand \ {c}) \cup (all \ w.seen)
          /\ e.res = w.res \cup ((all \ w.seen) \cap admit)
      BY <2>8, <2>10
    <3>4. e.seen \ e.cand = (w.seen \ w.cand) \cup {c} /\ w.cand \subseteq w.seen
      BY <2>2, <2>3, <2>8, <3>3 DEF Complete
    <3>5. e.res = e.seen \cap admit
      BY <2>8, <3>2, <3>3
    <3>6. \A x \in e.seen \ e.cand : ToSet(nbr[x]) \subseteq e.seen
      BY <2>8, <3>2, <3>4 DEF all
    <3>7. Cardinality(e.seen \ e.cand) >= k + 1
      <4> DEFINE D == w.seen \ w.cand
      <4>1. D \in SUBSET Node /\ c \notin D
        BY <1>1, <2>2
      <4>2. e.seen \ e.cand = D \cup {c} /\ Cardinality(D) >= k
        BY <3>2, <3>4
      <4> HIDE DEF D
      <4>3. IsFiniteSet(D) /\ Cardinality(D) \in Nat
        BY <4>1, NodesFinite
      <4>4. Cardinality(D \cup {c}) = Cardinality(D) + 1
        BY <4>1, <4>3, FS_AddElement
      <4>5. Cardinality(e.seen \ e.cand) = Cardinality(D) + 1
        BY <4>2, <4>4, Zenon
      <4> QED BY <4>2, <4>3, <4>5
    <3> QED BY <3>5, <3>6, <3>7
  <2> QED BY <2>8, <2>9, <2>10 DEF Complete
<1> HIDE DEF ends, e, wide
<1> QED BY <1>2, <1>3, <1>4 DEF wide

\* A walk on the lists s from v, over the scores q, stays in S.
WalkFrom(S, q, ef, s, v) ==
    /\ S \in SUBSET Node /\ q \in [Node -> Int] /\ ef \in Nat \ {0} /\ v \in S
    /\ \A u \in S : s[u][0] \in Seq(S) /\ Distinct(s[u][0])

Lowest(s) == [u \in Node |-> s[u][0]]

\* Of the nodes led, ef or all are in res.
Finds(res, S, led, ef) ==
    /\ res \in SUBSET (S \cap led)
    /\ Cardinality(res) = MinOf(ef, Cardinality(led))

\* A walk on layer 0 returns as many as it is asked for, or all that layer 0
\* leads to and may be returned.
LEMMA WalkComplete ==
    ASSUME NEW S, NEW q, NEW admit, NEW ef, NEW s, NEW v, WalkFrom(S, q, ef, s, v)
    PROVE  Finds(SearchLayer(Lowest(s), q, admit, {v}, ef), S,
                 Reach(s, v) \cap admit, ef)
<1>0. /\ S \in SUBSET Node /\ q \in [Node -> Int] /\ ef \in Nat \ {0} /\ v \in S
      /\ \A u \in S : s[u][0] \in Seq(S) /\ Distinct(s[u][0])
  BY DEF WalkFrom
<1> USE <1>0
<1> DEFINE nbr == [u \in Node |-> s[u][0]]
           res == SearchLayer(nbr, q, admit, {v}, ef)
           led == Reach(s, v) \cap admit
<1>1. /\ \A u \in S : nbr[u] \in Seq(S) /\ Distinct(nbr[u])
      /\ \A u \in S : ToSet(nbr[u]) = ToSet(s[u][0])
      /\ \A u \in S : ToSet(s[u][0]) \in SUBSET S
  <2>1. \A u \in S : nbr[u] = s[u][0]
    OBVIOUS
  <2>2. \A u \in S : s[u][0] \in Seq(S) /\ Distinct(s[u][0])
    OBVIOUS
  <2>3. \A x \in Seq(S) : ToSet(x) \in SUBSET S
    BY DEF ToSet
  <2> HIDE DEF nbr
  <2> QED BY <2>1, <2>2, <2>3
<1> HIDE DEF nbr
<1>2. PICK w : Walks(w, S, nbr, q, admit, {v}, ef)
  BY <1>1, WalkRuns
<1>3. PICK f : Spreads(f, s, v) /\ \A k \in 0 .. N : f[k] \in SUBSET S
  BY <1>1, ReachRuns
<1>4. N \in Nat /\ Node = 0 .. N - 1
  BY Sizes
<1> DEFINE T == {k \in Nat : k <= N => Complete(w[k], nbr, admit, ef, {v}, f[k], k)}
<1>5. 0 \in T
  <2> DEFINE a == {v} \cap admit
  <2>1. TopOf(q, a, ef) = a
    <3>1. \A x \in a : {b \in a : Better(q, b, x)} = {}
      <4>1. q[v] \in Int /\ v \in Int
        BY <1>4
      <4> QED BY <4>1 DEF Better
    <3>2. Cardinality({}) = 0
      BY FS_EmptySet
    <3>3. TopOf(q, a, ef) = {x \in a : Cardinality({b \in a : Better(q, b, x)}) < ef}
      BY DEF TopOf
    <3> HIDE DEF a
    <3>4. \A x \in a : Cardinality({b \in a : Better(q, b, x)}) = 0
      BY <3>1, <3>2
    <3>5. \A x \in a : Cardinality({b \in a : Better(q, b, x)}) < ef
      BY <3>4
    <3> QED BY <3>3, <3>5
  <2>2. Cardinality(a) <= ef
    <3>1. IsFiniteSet({v}) /\ Cardinality({v}) = 1 /\ a \in SUBSET {v}
      BY FS_Singleton
    <3> HIDE DEF a
    <3>2. Cardinality(a) <= 1 /\ IsFiniteSet(a)
      BY <3>1, FS_Subset
    <3>3. Cardinality(a) \in Nat
      BY <3>2, FS_CardinalityType
    <3> QED BY <3>2, <3>3
  <2>3. /\ w[0].seen = {v} /\ w[0].cand = {v} /\ w[0].res = a /\ f[0] = {v}
    <3>1. w[0] = [seen |-> {v}, cand |-> {v}, res |-> a]
      BY <1>2, <2>1 DEF Walks
    <3> HIDE DEF a
    <3> QED BY <1>3, <3>1 DEF Spreads
  <2>4. {v} \ {v} = {} /\ Cardinality({}) = 0
    BY FS_EmptySet
  <2>5. Complete(w[0], nbr, admit, ef, {v}, f[0], 0)
    <3>1. w[0].seen \ w[0].cand = {} /\ Cardinality(w[0].seen \ w[0].cand) >= 0
      <4>1. w[0].seen \ w[0].cand = {}
        BY <2>3
      <4>2. Cardinality(w[0].seen \ w[0].cand) = 0
        BY <2>4, <4>1
      <4> QED BY <4>1, <4>2
    <3>2. a \subseteq w[0].seen \cap admit /\ w[0].seen \cap admit = a
      BY <2>3
    <3> HIDE DEF a
    <3> QED BY <2>2, <2>3, <3>1, <3>2 DEF Complete
  <2> QED BY <2>5
<1>6. \A k \in 0 .. N - 1 : k \in T => k + 1 \in T
  <2> TAKE k \in 0 .. N - 1
  <2> HAVE k \in T
  <2>1. /\ k \in Nat /\ k <= N /\ k \in 0 .. N /\ k + 1 \in 1 .. N
        /\ (k + 1) - 1 = k
    BY <1>4
  <2>2. Complete(w[k], nbr, admit, ef, {v}, f[k], k)
    BY <2>1
  <2>3. /\ w[k + 1] = Step(nbr, q, admit, ef, w[k]) /\ w[k] \in Heaps(S)
        /\ f[k + 1] = f[k] \cup UNION {ToSet(s[u][0]) : u \in f[k]}
        /\ f[k] \in SUBSET S
    BY <1>2, <1>3, <2>1 DEF Walks, Spreads
  <2>4. f[k + 1] = f[k] \cup UNION {ToSet(nbr[c]) : c \in f[k]}
    BY <1>1, <2>3
  <2> HIDE DEF T
  <2>5. Complete(Step(nbr, q, admit, ef, w[k]), nbr, admit, ef, {v},
                 f[k] \cup UNION {ToSet(nbr[c]) : c \in f[k]}, k + 1)
    <3>1. WalkOn(S, q, ef, nbr, w[k])
      BY <1>1, <2>3 DEF WalkOn
    <3> QED BY <2>1, <2>2, <3>1, StepComplete
  <2>6. Complete(w[k + 1], nbr, admit, ef, {v}, f[k + 1], k + 1)
    BY <2>3, <2>4, <2>5
  <2> QED BY <2>1, <2>6 DEF T
<1>7. Complete(w[N], nbr, admit, ef, {v}, Reach(s, v), N) /\ w[N] \in Heaps(S)
      /\ res = w[N].res
  <2>1. N \in T
    <3> HIDE DEF T
    <3>1. T \in SUBSET Nat
      BY DEF T
    <3> QED BY <1>4, <1>5, <1>6, <3>1, Steps
  <2>2. f[N] = Reach(s, v) /\ w[N] \in Heaps(S) /\ res = w[N].res
    BY <1>2, <1>3, <1>4 DEF Walks, Spreads
  <2> HIDE DEF res
  <2> QED BY <1>4, <2>1, <2>2
<1>8. v \in w[N].seen
  BY <1>7 DEF Complete
<1> DEFINE z == w[N]
<1>9. /\ z.cand \subseteq z.seen /\ z.res \subseteq z.seen \cap admit
      /\ z.seen \subseteq Reach(s, v) /\ Cardinality(z.res) <= ef
      /\ z.seen \in SUBSET Node /\ z.res \in SUBSET S
  BY <1>7 DEF Complete, Heaps
<1>10. Reach(s, v) \in SUBSET S
  BY <1>1, ReachIn
<1>11. /\ IsFiniteSet(led) /\ Cardinality(led) \in Nat
       /\ z.res \in SUBSET led /\ Cardinality(z.res) \in Nat
       /\ Cardinality(z.res) <= Cardinality(led)
  <2>1. led \in SUBSET Node /\ z.res \in SUBSET led
    BY <1>9, <1>10
  <2> HIDE DEF led, z
  <2>2. IsFiniteSet(led) /\ Cardinality(led) \in Nat
    BY <2>1, NodesFinite
  <2>3. IsFiniteSet(z.res) /\ Cardinality(z.res) <= Cardinality(led)
    BY <2>1, <2>2, FS_Subset
  <2> QED BY <2>1, <2>2, <2>3, FS_CardinalityType
<1>12. Cardinality(z.res) < ef => z.res = led
  <2> HAVE Cardinality(z.res) < ef
  <2>1. /\ z.res = z.seen \cap admit
        /\ \A c \in z.seen \ z.cand : ToSet(nbr[c]) \subseteq z.seen
        /\ z.cand = {} \/ Cardinality(z.seen \ z.cand) >= N
    BY <1>7 DEF Complete
  <2>2. z.cand = {}
    <3> SUFFICES ASSUME Cardinality(z.seen \ z.cand) >= N PROVE z.cand = {}
      BY <2>1
    <3> DEFINE D == z.seen \ z.cand
    <3>1. D \in SUBSET Node
      BY <1>9
    <3>2. IsFiniteSet(Node) /\ Cardinality(Node) = N
      BY <1>4, FS_Interval
    <3> HIDE DEF z
    <3>3. D = Node
      <4> HIDE DEF D
      <4>1. Cardinality(D) \in 0 .. N
        BY <3>1, NodesFinite
      <4>2. Cardinality(D) = N
        BY <4>1, <1>4 DEF D
      <4> QED BY <3>1, <3>2, <4>2, FS_Subset
    <3> QED BY <1>9, <3>3
  <2>3. \A c \in z.seen : ToSet(s[c][0]) \in SUBSET z.seen
    <3>1. z.seen \in SUBSET S
      BY <1>7 DEF Heaps
    <3> HIDE DEF z
    <3> QED BY <1>1, <2>1, <2>2, <3>1
  <2>4. Reach(s, v) \in SUBSET z.seen
    <3> HIDE DEF z
    <3> QED BY <1>8, <2>3, ReachIn DEF z
  <2> QED BY <1>9, <2>1, <2>4
<1>13. Cardinality(z.res) = MinOf(ef, Cardinality(led))
  <2> HIDE DEF z, led
  <2>1. CASE Cardinality(z.res) < ef
    BY <1>11, <1>12, <2>1 DEF MinOf
  <2>2. CASE ~(Cardinality(z.res) < ef)
    BY <1>9, <1>11, <2>2 DEF MinOf
  <2> QED BY <2>1, <2>2
<1> HIDE DEF z, led
<1> USE DEF z
<1>14. Finds(res, S, led, ef)
  <2> HIDE DEF res
  <2> QED BY <1>7, <1>9, <1>11, <1>13 DEF Finds
<1> QED BY <1>14 DEF led, nbr, Lowest
-----------------------------------------------------------------------------
(* No list has a row twice.                                                *)

Once(s) == \A v \in Node, l \in Layer : Distinct(s[v][l])

\* Nothing leads to a row that is still to be inserted.
ListInv ==
    /\ Once(links)
    /\ stage = "insert" => entry \notin todo
    /\ stage \in {"insert", "update"} =>
         \A v \in Node, l \in Layer : links[v][l] \in Seq(Nodes \ todo)
    /\ file # NoFile => Once(file.links)

LEMMA AppendOnce ==
    ASSUME NEW S, NEW s \in Seq(S), Distinct(s), NEW x, ~Contains(s, x)
    PROVE  Distinct(Append(s, x))
<1> DEFINE z == Append(s, x)
<1>1. /\ Len(z) = Len(s) + 1 /\ z[Len(s) + 1] = x /\ Len(s) \in Nat
      /\ \A i \in 1 .. Len(s) : z[i] = s[i]
      /\ \A i \in 1 .. Len(s) : s[i] # x
  BY DEF Contains
<1>2. \A i \in 1 .. Len(z) : i \in 1 .. Len(s) \/ i = Len(s) + 1
  BY <1>1
<1> HIDE DEF z
<1>3. Distinct(z)
  BY <1>1, <1>2 DEF Distinct
<1> QED BY <1>3 DEF z

\* An insertion of a row that is in no list.
LEMMA LinkedOnce ==
    ASSUME NEW S \in SUBSET Node, NEW t \in [Node -> [Node -> Int]], NEW s,
           Lists(s, Nodes), Once(s), \A v \in Node, l \in Layer : s[v][l] \in Seq(S),
           NEW x \in Node, x \notin S, NEW lvl \in Layer, NEW high \in Layer,
           NEW ep \in S
    PROVE  LET new == Linked(t, s, x, lvl, ep, high)
           IN  /\ Once(new)
               /\ \A v \in Node, l \in Layer : new[v][l] \in Seq(S \cup {x})
<1> DEFINE new == Linked(t, s, x, lvl, ep, high)
           T == Flat(S)
<1>1. \A v \in Node, l \in Layer : Len(s[v][l]) <= Cap(l)
  BY DEF Lists
<1>2. T \in Levels /\ Holds(s, T) /\ \A l \in Layer : T[l] = S
  <2> HIDE DEF T
  <2> QED BY FlatHolds DEF T
<1>3. ep \in T[high]
  BY <1>2
<1>4. \A v \in Node, l \in Layer :
         new[v][l] \in Seq(IF l <= lvl THEN T[l] \cup {x} ELSE T[l])
  <2> HIDE DEF T, new
  <2> QED BY <1>1, <1>2, <1>3, LinkedIn DEF new
<1>5. \A v \in Node, l \in Layer : new[v][l] \in Seq(S \cup {x})
  <2> TAKE v \in Node, l \in Layer
  <2> DEFINE U == IF l <= lvl THEN T[l] \cup {x} ELSE T[l]
  <2>1. new[v][l] \in Seq(U)
    BY <1>4
  <2>2. U \subseteq S \cup {x}
    BY <1>2
  <2> HIDE DEF new, U
  <2> QED BY <2>1, <2>2, SeqIn
<1>6. ASSUME NEW v \in Node, NEW l \in Layer PROVE Distinct(new[v][l])
  <2>1. PICK cnt, f : cnt = MinOf(lvl, high) /\ f = FoundOf(t, s, x, lvl, ep, high)
    OBVIOUS
  <2> DEFINE old == s[v][l]
             best == Select(t, t[x], f[cnt - l + 1], M, {})
             all == ToSet(old) \cup {x}
             pruned == Select(t, t[v], all, Cap(l), {})
  <2>2. new[v][l] = IF l > cnt THEN old ELSE IF v = x THEN best
                    ELSE IF Contains(best, v) THEN WithBackEdge(t, old, v, x, l)
                    ELSE old
    BY <2>1, LinkedIs DEF LinkedAt
  <2>3. old \in Seq(S) /\ Distinct(old)
    BY DEF Once
  <2>4. cnt \in Layer /\ MaxLevel \in Nat /\ Layer = 0 .. MaxLevel
    BY <2>1, Sizes DEF MinOf
  <2>5. ~(l > cnt) => Distinct(best)
    <3> HAVE ~(l > cnt)
    <3>1. l \in 0 .. cnt
      BY <2>4
    <3>2. Links(f, T, t, s, x, lvl, ep, high, cnt)
      <4> HIDE DEF T
      <4> QED BY <1>2, <1>3, <2>1 DEF Links
    <3> HIDE DEF T
    <3>3. f[cnt - l + 1] \in SUBSET T[l]
      BY <3>1, <3>2, FoundIn
    <3>4. f[cnt - l + 1] \in SUBSET Node /\ t[x] \in [Node -> Int] /\ M \in Nat
      BY <1>2, <3>3, Sizes
    <3> QED BY <3>4, SelectIn
  <2>6. Distinct(pruned)
    <3>1. t[v] \in [Node -> Int] /\ Cap(l) \in Nat
      BY Sizes
    <3>2. all \in SUBSET Node
      <4> HIDE DEF old
      <4>1. ToSet(old) \in SUBSET S
        BY <2>3 DEF ToSet
      <4> QED BY <4>1
    <3> HIDE DEF all
    <3> QED BY <3>1, <3>2, SelectIn
  <2>7. Distinct(Append(old, x))
    <3> HIDE DEF old
    <3>1. ~Contains(old, x)
      BY <2>3 DEF Contains
    <3> QED BY <2>3, <3>1, AppendOnce
  <2>8. WithBackEdge(t, old, v, x, l) = Append(old, x)
        \/ WithBackEdge(t, old, v, x, l) = pruned
    BY DEF WithBackEdge
  <2> HIDE DEF new, old, best, pruned
  <2> QED BY <2>2, <2>3, <2>5, <2>6, <2>7, <2>8
<1> HIDE DEF new
<1> QED BY <1>5, <1>6 DEF new, Once

LEMMA AddsOnce ==
    ASSUME TypeInv, Once(links), NEW u \in Nodes, NEW x \in Nodes, AddProtected(u, x)
    PROVE  Once(links')
<1> DEFINE list == links[u][0]
           all == ToSet(list) \cup {x}
           q == NodeScore[u]
           best == Select(NodeScore, q, all, M0, Keep(u, x))
           new == IF Contains(list, x) THEN list
                  ELSE IF Len(list) < M0 THEN Append(list, x) ELSE best
<1>1. /\ n \in 0 .. N /\ sc \in [Node -> [Node -> Int]]
      /\ idMap \in [Node -> Node] /\ links \in [Node -> [Layer -> Seq(Nodes)]]
  BY DEF TypeInv, Lists
<1>2. /\ Nodes \in SUBSET Node /\ u \in Node /\ x \in Node /\ 0 \in Layer
      /\ M0 \in Nat
  BY <1>1, NodesIn, Sizes
<1>3. list \in Seq(Nodes) /\ Distinct(list)
  BY <1>1, <1>2 DEF Once
<1>4. Distinct(best)
  <2>1. q \in [Node -> Int]
    BY <1>1, <1>2, NodeScoreType
  <2>2. all \in SUBSET Node
    <3> HIDE DEF list
    <3> QED BY <1>2, <1>3 DEF ToSet
  <2> HIDE DEF all, q
  <2> QED BY <1>2, <2>1, <2>2, SelectIn
<1>5. ~Contains(list, x) => Distinct(Append(list, x))
  <2> HIDE DEF list
  <2> QED BY <1>3, AppendOnce
<1>6. Distinct(new)
  <2> HIDE DEF list, best
  <2> QED BY <1>3, <1>4, <1>5
<1>7. links' = [links EXCEPT ![u][0] = new]
  BY DEF AddProtected
<1> HIDE DEF new
<1>8. \A v \in Node, l \in Layer :
         links'[v][l] = IF v = u /\ l = 0 THEN new ELSE links[v][l]
  BY <1>1, <1>2, <1>7
<1> QED BY <1>6, <1>8 DEF Once

LEMMA RefilledDistinct ==
    ASSUME TypeInv, Once(links), NEW x \in Node, NEW l \in Layer
    PROVE  Distinct(Refilled(x, l))
<1> DEFINE list == links[x][l]
           all == ToSet(list)
           cands == (all \cup UNION {ToSet(links[e][l]) : e \in all \cap del})
                       \ (del \cup {x})
           q == NodeScore[x]
           new == Select(NodeScore, q, cands, Cap(l), {})
<1>1. /\ n \in 0 .. N /\ sc \in [Node -> [Node -> Int]]
      /\ idMap \in [Node -> Node] /\ links \in [Node -> [Layer -> Seq(Nodes)]]
  BY DEF TypeInv, Lists
<1>2. Nodes \in SUBSET Node /\ Cap(l) \in Nat
  BY <1>1, NodesIn, Sizes
<1>3. \A s \in Seq(Nodes) : ToSet(s) \in SUBSET Node
  BY <1>2 DEF ToSet
<1>4. all \in SUBSET Node
  BY <1>1, <1>3
<1>5. \A e \in all : ToSet(links[e][l]) \in SUBSET Node
  <2> HIDE DEF all
  <2> QED BY <1>1, <1>3, <1>4
<1>6. cands \in SUBSET Node
  <2> HIDE DEF all
  <2> QED BY <1>4, <1>5
<1>7. Distinct(new)
  <2>1. q \in [Node -> Int]
    BY <1>1, NodeScoreType
  <2> HIDE DEF cands, q
  <2> QED BY <1>2, <1>6, <2>1, SelectIn
<1>8. Refilled(x, l) = IF all \cap del = {} THEN list ELSE new
  BY DEF Refilled
<1>9. Distinct(list)
  BY DEF Once
<1> HIDE DEF new, list, all
<1> QED BY <1>7, <1>8, <1>9

LEMMA RemapOnce ==
    ASSUME NEW S, NEW list \in Seq(S), Distinct(list),
           \A a, b \in S : idMap[a] = idMap[b] => a = b
    PROVE  Distinct(Remap(list))
<1>1. DOMAIN list = 1 .. Len(list) /\ Len(list) \in Nat
      /\ \A i \in 1 .. Len(list) : list[i] \in S
  OBVIOUS
<1>2. Remap(list) = [i \in 1 .. Len(list) |-> idMap[list[i]]]
  BY <1>1 DEF Remap
<1> DEFINE m == Remap(list)
<1>3. Len(m) = Len(list) /\ \A i \in 1 .. Len(list) : m[i] = idMap[list[i]]
  BY <1>1, <1>2
<1> HIDE DEF m
<1>4. Distinct(m)
  BY <1>1, <1>3 DEF Distinct
<1> QED BY <1>4 DEF m

LEMMA NoLinksOnce ==
    ASSUME links' = NoLinks
    PROVE  Once(links') /\ \A S : \A v \in Node, l \in Layer : links'[v][l] \in Seq(S)
<1>1. \A v \in Node, l \in Layer : links'[v][l] = << >>
  BY DEF NoLinks
<1>2. Distinct(<< >>) /\ \A S : << >> \in Seq(S)
  BY DEF Distinct
<1> QED BY <1>1, <1>2 DEF Once

\* The row i is inserted from ep on layer high.
LEMMA InsertOnce ==
    ASSUME LifeInv, ListInv, stage \in {"insert", "update"}, todo # {},
           NEW ep \in Nodes \ todo, NEW high \in Layer,
           links' = Linked(NodeScore, links, Least(todo), lev[Least(todo)], ep, high),
           todo' = todo \ {Least(todo)}, UNCHANGED n
    PROVE  /\ Once(links') /\ Least(todo) \in todo
           /\ \A v \in Node, l \in Layer : links'[v][l] \in Seq(Nodes' \ todo')
<1> DEFINE i == Least(todo)
           S == Nodes \ todo
           t == NodeScore
           lvl == lev[i]
           new == Linked(t, links, i, lvl, ep, high)
<1>1. /\ TypeInv /\ n \in 0 .. N /\ Nodes \in SUBSET Node /\ todo \in SUBSET Nodes
      /\ i \in todo /\ i \in Node /\ lev \in [Node -> Layer]
  BY TodoIn, NodesIn DEF LifeInv, TypeInv
<1>2. /\ t \in [Node -> [Node -> Int]] /\ Lists(links, Nodes)
      /\ Once(links) /\ lvl \in Layer
  <2> HIDE DEF i
  <2> QED BY <1>1, NodeScoreType DEF TypeInv, ListInv
<1>3. \A v \in Node, l \in Layer : links[v][l] \in Seq(S)
  BY DEF ListInv
<1>4. S \in SUBSET Node /\ i \notin S /\ ep \in S
  <2> HIDE DEF i
  <2> QED BY <1>1
<1>5. links' = new /\ Nodes' \ todo' = S \cup {i}
  <2>1. Nodes' = Nodes /\ todo' = todo \ {i} /\ links' = new
    BY DEF Nodes
  <2> HIDE DEF i, new
  <2> QED BY <1>1, <2>1
<1> HIDE DEF S, t, lvl, i
<1>6. Once(new) /\ \A v \in Node, l \in Layer : new[v][l] \in Seq(S \cup {i})
  BY <1>1, <1>2, <1>3, <1>4, LinkedOnce
<1> HIDE DEF new
<1> QED BY <1>1, <1>5, <1>6 DEF i

LEMMA ListNext ==
    ASSUME LifeInv, ListInv, [Next]_vars
    PROVE  ListInv'
<1>0. /\ TypeInv /\ StageInv /\ Lists(links, Nodes) /\ Once(links)
      /\ file # NoFile => Once(file.links)
  BY DEF LifeInv, TypeInv, ListInv
<1>1. ASSUME Once(links'), UNCHANGED file, stage' \notin {"insert", "update"}
      PROVE  ListInv'
  BY <1>0, <1>1 DEF ListInv
<1>2. CASE Build \/ CompactRebuild
  <2>1. /\ links' = NoLinks /\ entry' = 0 /\ 0 \notin todo' /\ UNCHANGED file
    <3>1. \A k : NewGraph(k, lev') =>
                    links' = NoLinks /\ entry' = 0 /\ todo' = 1 .. k - 1
      BY DEF NewGraph
    <3>2. UNCHANGED file /\ \E k : NewGraph(k, lev')
      BY <1>2 DEF Build, CompactRebuild, NewGraph
    <3>3. PICK k : NewGraph(k, lev')
      BY <3>2
    <3>4. 0 \notin 1 .. k - 1
      OBVIOUS
    <3> QED BY <3>1, <3>2, <3>3, <3>4
  <2>2. Once(links')
    BY <2>1, NoLinksOnce
  <2>3. \A v \in Node, l \in Layer : links'[v][l] \in Seq(Nodes' \ todo')
    BY <2>1, NoLinksOnce
  <2> QED BY <1>0, <2>1, <2>2, <2>3 DEF ListInv
<1>3. CASE InsertRow
  <2>1. /\ stage = "insert" /\ todo # {} /\ entry \in Nodes \ todo /\ top \in Layer
        /\ links' = Linked(NodeScore, links, Least(todo), lev[Least(todo)], entry, top)
        /\ todo' = todo \ {Least(todo)} /\ UNCHANGED n
        /\ (entry' = Least(todo) \/ entry' = entry) /\ UNCHANGED <<stage, file>>
    BY <1>0, <1>3 DEF InsertRow, StageInv, TypeInv, ListInv, nodes
  <2>2. /\ Once(links')
        /\ \A v \in Node, l \in Layer : links'[v][l] \in Seq(Nodes' \ todo')
    BY <2>1, InsertOnce
  <2>3. entry' \notin todo'
    BY <2>1
  <2> QED BY <1>0, <2>1, <2>2, <2>3 DEF ListInv
<1>4. CASE Reinsert
  <2>1. /\ stage = "update" /\ todo # {} /\ start.ep \in Nodes \ todo
        /\ start.top \in Layer
        /\ links' = Linked(NodeScore, links, Least(todo), lev[Least(todo)],
                           start.ep, start.top)
        /\ todo' = todo \ {Least(todo)} /\ UNCHANGED n /\ UNCHANGED <<stage, file>>
    BY <1>0, <1>4 DEF Reinsert, StageInv, TypeInv, nodes
  <2>2. /\ Once(links')
        /\ \A v \in Node, l \in Layer : links'[v][l] \in Seq(Nodes' \ todo')
    BY <2>1, InsertOnce
  <2> QED BY <1>0, <2>1, <2>2 DEF ListInv
<1>5. CASE StartRepair \/ StartStepB \/ EndPass \/ Delete
  <2>1. UNCHANGED <<links, file>> /\ stage' \notin {"insert", "update"}
    BY <1>5 DEF StartRepair, StartStepB, EndPass, Delete, Change, RepairDone, graph
  <2> QED BY <1>0, <1>1, <2>1
<1>6. CASE StepA \/ StepB
  <2>1. UNCHANGED file /\ stage' \notin {"insert", "update"}
    BY <1>6 DEF StepA, StepB
  <2>2. \/ UNCHANGED <<links, protected>>
        \/ \E u \in Nodes, x \in Nodes : AddProtected(u, x)
    BY <1>6, EdgeAdded
  <2>3. Once(links')
    BY <1>0, <2>2, AddsOnce
  <2> QED BY <1>1, <2>1, <2>3
<1>7. CASE Update
  <2>1. PICK b \in Batches :
          /\ links' = [v \in Node |-> [l \in Layer |->
                         IF v \in b.ids THEN << >> ELSE Without(links[v][l], b.ids)]]
          /\ todo' = b.ids
    BY <1>7 DEF Update
  <2> DEFINE ids == b.ids
             torn(v, l) == IF v \in ids THEN << >> ELSE Without(links[v][l], ids)
  <2>2. todo' = ids /\ \A v \in Node, l \in Layer : links'[v][l] = torn(v, l)
    BY <2>1
  <2>3. stage' = "update" /\ UNCHANGED <<n, file>>
    BY <1>7 DEF Update
  <2> HIDE DEF ids
  <2>4. \A v \in Node, l \in Layer : torn(v, l) \in Seq(Nodes \ ids) /\ Distinct(torn(v, l))
    <3> TAKE v \in Node, l \in Layer
    <3>1. links[v][l] \in Seq(Nodes) /\ Distinct(links[v][l])
      BY <1>0 DEF Lists, Once
    <3>2. Without(links[v][l], ids) \in Seq(Nodes \ ids)
          /\ Distinct(Without(links[v][l], ids))
      BY <3>1, WithoutIn
    <3>3. << >> \in Seq(Nodes \ ids) /\ Distinct(<< >>)
      BY DEF Distinct
    <3> QED BY <3>2, <3>3
  <2> HIDE DEF torn
  <2>5. Once(links')
    BY <2>2, <2>4 DEF Once
  <2>6. Nodes' \ todo' = Nodes \ ids
    BY <2>2, <2>3 DEF Nodes
  <2>7. \A v \in Node, l \in Layer : links'[v][l] \in Seq(Nodes' \ todo')
    BY <2>2, <2>4, <2>6
  <2> QED BY <1>0, <2>3, <2>5, <2>7 DEF ListInv
<1>8. CASE CompactRepair
  <2>1. UNCHANGED file /\ stage' \notin {"insert", "update"}
    BY <1>8 DEF CompactRepair, Compacting
  <2>2. UNCHANGED links
        \/ links' = [v \in Node |-> [l \in Layer |->
                       IF v \in del THEN << >> ELSE Refilled(v, l)]]
    BY <1>8 DEF CompactRepair, graph
  <2>3. CASE UNCHANGED links
    BY <1>0, <1>1, <2>1, <2>3
  <2>4. CASE ~ UNCHANGED links
    <3>1. \A v \in Node, l \in Layer :
             links'[v][l] = IF v \in del THEN << >> ELSE Refilled(v, l)
      BY <2>2, <2>4
    <3>2. Distinct(<< >>) /\ \A v \in Node, l \in Layer : Distinct(Refilled(v, l))
      BY <1>0, RefilledDistinct DEF Distinct
    <3>3. Once(links')
      BY <3>1, <3>2 DEF Once
    <3> QED BY <1>1, <2>1, <3>3
  <2> QED BY <2>3, <2>4
<1>9. CASE Save
  <2>1. /\ stage = "ready" /\ file' = Content /\ UNCHANGED <<links, stage>>
    BY <1>9 DEF Save, graph
  <2>2. \A a, b \in Nodes : idMap[a] = idMap[b] => a = b
    BY <1>0, RowsDiffer
  <2>3. \A r \in Held : NodeOf(r) \in Nodes
    <3> TAKE r \in Held
    <3>1. \E j \in Nodes : idMap[j] = r
      BY DEF Held
    <3> QED BY <3>1 DEF NodeOf
  <2>4. Nodes \in SUBSET Node
    BY <1>0, NodesIn DEF TypeInv
  <2> DEFINE row(r, l) == IF r \in Held THEN Remap(links[NodeOf(r)][l]) ELSE << >>
  <2>5. ASSUME NEW r \in Node, NEW l \in Layer PROVE Distinct(row(r, l))
    <3>1. CASE r \in Held
      <4> DEFINE v == NodeOf(r)
      <4>1. v \in Node
        BY <2>3, <2>4, <3>1
      <4> HIDE DEF v
      <4>2. links[v][l] \in Seq(Nodes) /\ Distinct(links[v][l])
        BY <1>0, <4>1 DEF Lists, Once
      <4>3. Distinct(Remap(links[v][l]))
        BY <2>2, <4>2, RemapOnce
      <4> QED BY <3>1, <4>3 DEF v
    <3>2. CASE r \notin Held
      BY <3>2 DEF Distinct
    <3> QED BY <3>1, <3>2
  <2>6. \A r \in Node, l \in Layer : file'.links[r][l] = row(r, l)
    <3>1. file'.links = [r \in Node |-> [l \in Layer |-> row(r, l)]]
      BY <2>1 DEF Content
    <3> HIDE DEF row
    <3> QED BY <3>1
  <2> HIDE DEF row
  <2>7. Once(file'.links)
    BY <2>5, <2>6 DEF Once
  <2> QED BY <1>0, <2>1, <2>7 DEF ListInv
<1>10. CASE Load
  <2>1. links' = file.links /\ file # NoFile /\ stage' = "ready" /\ UNCHANGED file
    BY <1>10 DEF Load
  <2>2. Once(links')
    BY <1>0, <2>1
  <2> QED BY <1>1, <2>1, <2>2
<1>11. CASE Exit
  <2>1. links' = NoLinks /\ UNCHANGED file /\ stage' = "idle"
    BY <1>11 DEF Exit
  <2> QED BY <1>1, <2>1, NoLinksOnce
<1>12. CASE UNCHANGED vars
  <2>1. UNCHANGED <<links, entry, todo, n, stage, file>>
    BY <1>12 DEF vars, nodes, graph
  <2> QED BY <2>1 DEF ListInv, Nodes
<1> QED BY <1>2, <1>3, <1>4, <1>5, <1>6, <1>7, <1>8, <1>9, <1>10, <1>11, <1>12
        DEF Next, RepairPass, Compact

THEOREM ListsHold == Spec => []ListInv
<1>1. Init => ListInv
  <2> HAVE Init
  <2>1. links = NoLinks /\ stage = "idle" /\ file = NoFile
    BY DEF Init
  <2>2. \A v \in Node, l \in Layer : links[v][l] = << >>
    BY <2>1 DEF NoLinks
  <2>3. Once(links)
    BY <2>2 DEF Once, Distinct
  <2> QED BY <2>1, <2>3 DEF ListInv
<1>2. LifeInv /\ ListInv /\ [Next]_vars => ListInv'
  BY ListNext
<1> QED BY <1>1, <1>2, LifeHolds, PTL DEF Spec
-----------------------------------------------------------------------------
(* Answers.                                                                *)

\* What the walk for query r over the rows finds.
Results(r, rows) ==
    SearchLayer([v \in Node |-> links[v][0]], Query(r), Allowed(rows),
                {StartOf(Query(r))}, Ef)

Led(r, rows) == Reach(links, StartOf(Query(r))) \cap Allowed(rows)

\* In an index that is ready the walk stays among the nodes that were not cut
\* out, and finds as many as it is asked for, or all that may be returned.
LEMMA ResultsIn ==
    ASSUME LifeInv, ListInv, stage = "ready", NEW r \in Held, NEW rows
    PROVE  /\ Query(r) \in [Node -> Int]
           /\ Results(r, rows) \in SUBSET ((Nodes \ cut) \cap Led(r, rows))
           /\ Cardinality(Results(r, rows)) = MinOf(Ef, Cardinality(Led(r, rows)))
<1> DEFINE S == Nodes \ cut
           q == Query(r)
           v == StartOf(q)
           admit == Allowed(rows)
<1>1. /\ n \in 0 .. N /\ sc \in [Node -> [Node -> Int]]
      /\ idMap \in [Node -> Node] /\ entry \in S /\ top \in Layer
      /\ Severed(links, Nodes, cut) /\ Once(links)
  BY DEF LifeInv, TypeInv, StageInv, RepairInv, ListInv
<1>2. S \in SUBSET Node /\ Nodes \in SUBSET Node
  BY <1>1, NodesIn
<1>3. q \in [Node -> Int]
  <2>1. r \in Node
    BY <1>1, <1>2 DEF Held
  <2> QED BY <1>1, <2>1 DEF Query
<1>4. \A u \in Node, l \in Layer : links[u][l] \in Seq(S)
  BY <1>1 DEF Severed
<1>5. Ef \in Nat \ {0} /\ 0 \in Layer /\ 0 <= top
  BY <1>1, LifeAssumption, Sizes
<1>6. v \in S
  <2> DEFINE T == Flat(S)
  <2> HIDE DEF S
  <2>1. T \in Levels /\ Holds(links, T) /\ \A l \in Layer : T[l] = S
    <3> HIDE DEF T
    <3> QED BY <1>2, <1>4, FlatHolds DEF T
  <2>2. entry \in T[top] /\ T[0] = S
    BY <1>1, <1>5, <2>1
  <2> HIDE DEF T, q
  <2>3. Descend(links, q, entry, top, 0) \in T[0]
    BY <1>1, <1>3, <1>5, <2>1, <2>2, DescendIn
  <2> QED BY <2>2, <2>3 DEF StartOf
<1>7. \A u \in S : links[u][0] \in Seq(S) /\ Distinct(links[u][0])
  BY <1>1, <1>2, <1>4, <1>5 DEF Once
<1> HIDE DEF S, q, v, admit
<1>8. Finds(SearchLayer(Lowest(links), q, admit, {v}, Ef), S,
            Reach(links, v) \cap admit, Ef)
  <2>1. WalkFrom(S, q, Ef, links, v)
    BY <1>2, <1>3, <1>5, <1>6, <1>7 DEF WalkFrom
  <2> QED BY <2>1, WalkComplete
<1>9. /\ Results(r, rows) = SearchLayer(Lowest(links), q, admit, {v}, Ef)
      /\ Led(r, rows) = Reach(links, v) \cap admit
  BY DEF Results, Led, Lowest, q, v, admit
<1>10. Finds(Results(r, rows), S, Led(r, rows), Ef)
  BY <1>8, <1>9
<1> QED BY <1>3, <1>10 DEF Finds, S, q

\* The answer is the rows of these nodes.
LEMMA SearchIs ==
    ASSUME LifeInv, ListInv, stage = "ready", NEW r \in Held, NEW rows
    PROVE  LET res == Results(r, rows)
           IN  /\ Search(r, rows) = [i \in 1 .. Cardinality(res) |->
                                        idMap[Ranked(Query(r), res)[i]]]
               /\ Len(Search(r, rows)) = Cardinality(res)
               /\ Cardinality(res) \in Nat /\ res \in SUBSET Node
               /\ \A i \in 1 .. Cardinality(res) : Ranked(Query(r), res)[i] \in res
<1> DEFINE res == Results(r, rows)
           q == Query(r)
           ranked == Ranked(q, res)
           cnt == Cardinality(res)
<1>1. q \in [Node -> Int] /\ res \in SUBSET Nodes
  <2> HIDE DEF res, q
  <2> QED BY ResultsIn DEF res, q
<1>2. res \in SUBSET Node
  <2> HIDE DEF res
  <2> QED BY <1>1, NodesIn DEF LifeInv, TypeInv
<1>3. cnt \in Nat
  <2> HIDE DEF res
  <2> QED BY <1>2, NodesFinite
<1>4. DOMAIN ranked = 1 .. cnt /\ \A i \in 1 .. cnt : ranked[i] \in res
  <2> HIDE DEF res, q
  <2> QED BY <1>1, <1>2, RankedIs
<1>5. Search(r, rows) = [i \in DOMAIN ranked |-> idMap[ranked[i]]]
  BY DEF Search, Results
<1> HIDE DEF ranked, res, q
<1>6. Search(r, rows) = [i \in 1 .. cnt |-> idMap[ranked[i]]]
  BY <1>4, <1>5
<1> HIDE DEF cnt
<1>7. Len(Search(r, rows)) = cnt
  BY <1>3, <1>6
<1> QED BY <1>2, <1>3, <1>4, <1>6, <1>7 DEF ranked, res, q, cnt

\* A search returns as many of the rows it may return as it is asked for, or
\* all that layer 0 leads to, and no row that this process has deleted:
\* tombstones and filters narrow what is returned, never the walk.
THEOREM SearchesComplete == Spec => []FullAnswer
<1>1. LifeInv /\ ListInv => FullAnswer
  <2> SUFFICES ASSUME LifeInv, ListInv, stage = "ready",
                      NEW r \in Held, NEW rows \in Filters
               PROVE  /\ ToSet(Search(r, rows)) \subseteq rows \ mine
                      /\ Len(Search(r, rows)) = MinOf(Ef, Cardinality(Led(r, rows)))
    BY DEF FullAnswer, Led
  <2> DEFINE res == Results(r, rows)
             cnt == Cardinality(res)
             ranked == Ranked(Query(r), res)
  <2>1. /\ res \in SUBSET ((Nodes \ cut) \cap Led(r, rows))
        /\ cnt = MinOf(Ef, Cardinality(Led(r, rows)))
    BY ResultsIn
  <2>2. /\ Search(r, rows) = [i \in 1 .. cnt |-> idMap[ranked[i]]]
        /\ Len(Search(r, rows)) = cnt
        /\ \A i \in 1 .. cnt : ranked[i] \in res
    BY SearchIs
  <2>3. \A j \in res : idMap[j] \in rows \ mine
    <3> TAKE j \in res
    <3>1. j \in Nodes \ cut /\ j \in Allowed(rows)
      BY <2>1 DEF Led
    <3>2. idMap[j] \in rows /\ j \notin del
      BY <3>1 DEF Allowed
    <3>3. idMap[j] \in mine => j \in del \/ j \in cut
      BY <3>1 DEF LifeInv, ProcessInv
    <3> QED BY <3>1, <3>2, <3>3
  <2>4. ToSet(Search(r, rows)) \subseteq rows \ mine
    <3> HIDE DEF res, cnt, ranked
    <3>1. DOMAIN Search(r, rows) = 1 .. cnt
      BY <2>2
    <3>2. \A i \in 1 .. cnt : Search(r, rows)[i] \in rows \ mine
      BY <2>2, <2>3
    <3> QED BY <3>1, <3>2 DEF ToSet
  <2> QED BY <2>1, <2>2, <2>4
<1> QED BY <1>1, LifeHolds, ListsHold, PTL
=============================================================================
