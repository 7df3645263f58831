---------------------------- MODULE DiskAnnProofs ----------------------------
(* Proof that every list of the Vamana graph is a list of its slots in every *)
(* state of the build and in the file, and that uncached searches find no    *)
(* page: for all rows, scores, degrees and list sizes.                       *)
EXTENDS DiskAnn, FiniteSetTheorems, WellFoundedInduction, TLAPS

-----------------------------------------------------------------------------
(* The inductive invariant.                                                *)

\* The first n slots hold different other rows, the rest is empty.
ListOf(x, slots, n) ==
    /\ n \in 1 .. R /\ slots \in [Slot -> Int]
    /\ \A m \in Slot : IF m < n THEN slots[m] \in Row \ {x} ELSE slots[m] = -1
    /\ \A m, l \in 0 .. n - 1 : slots[m] = slots[l] => m = l

ListsInv ==
    /\ e \in [Row -> [Slot -> Int]]
    /\ d \in [Row -> Nat]
    /\ \A x \in Row : ListOf(x, e[x], d[x])

\* Back edges are due from rows other than the one the pass is at.
PassInv ==
    /\ pass \in 1 .. 3 /\ i \in 0 .. N
    /\ todo \in Seq(Row)
    /\ todo # << >> => /\ Building /\ i < N
                       /\ todo \in Seq(Row \ {i})

\* The file is written once the graph is built, and as it was built.
FileInv ==
    records # << >> =>
        /\ ~Building
        /\ records = [x \in Row |-> [m \in 1 .. R |-> e[x][m - 1]]]

\* Only mapped reads warm the page cache.
CacheInv ==
    /\ lastIo \in {"none", "mmap", "nocache"}
    /\ lastIo # "mmap" => ~warm

DiskInv == ListsInv /\ PassInv /\ FileInv /\ CacheInv

-----------------------------------------------------------------------------
(* Induction, in the form that needs no operator.                          *)

LEMMA LeastNat ==
    ASSUME NEW T \in SUBSET Nat, T # {}
    PROVE  \E x \in T : \A y \in T : x <= y
<1> DEFINE Less == {ss \in Nat \X Nat : ss[1] < ss[2]}
<1>1. IsWellFoundedOn(Less, Nat)
  BY NatLessThanWellFounded DEF OpToRel
<1>2. PICK x \in T : \A y \in T : ~ (<<y, x>> \in Less)
  <2> HIDE DEF Less
  <2> QED BY <1>1, WFMin
<1>3. ASSUME NEW y \in T, y < x PROVE FALSE
  <2>1. <<y, x>> \in Less
    BY <1>3
  <2> QED BY <1>2, <2>1
<1> QED BY <1>2, <1>3

LEMMA SetInduction ==
    ASSUME NEW S \in SUBSET Nat, 0 \in S, \A k \in S : k + 1 \in S
    PROVE  S = Nat
<1>1. SUFFICES ASSUME Nat \ S # {} PROVE FALSE
  OBVIOUS
<1>2. PICK x \in Nat \ S : \A y \in Nat \ S : x <= y
  BY <1>1, LeastNat
<1>3. x # 0 /\ x - 1 \in Nat
  OBVIOUS
<1>4. x - 1 \in S
  BY <1>2, <1>3
<1> QED BY <1>4, <1>3

\* What holds at first and from step to step holds after n steps.
LEMMA Steps ==
    ASSUME NEW n \in Nat, NEW T \in SUBSET Nat, 0 \in T,
           \A k \in 0 .. n - 1 : k \in T => k + 1 \in T
    PROVE  n \in T
<1> DEFINE S == {k \in Nat : k <= n => k \in T}
<1>1. 0 \in S
  OBVIOUS
<1>2. \A k \in S : k + 1 \in S
  OBVIOUS
<1>3. S = Nat
  <2> HIDE DEF S
  <2>1. S \in SUBSET Nat
    BY DEF S
  <2> QED BY <1>1, <1>2, <2>1, SetInduction
<1> QED BY <1>3

\* The values of a recursive function of 0 .. n.
Recurs(g, a, F, n) ==
    g = [k \in 0 .. n |-> IF k = 0 THEN a ELSE F[k][g[k - 1]]]

\* A recursive function exists if its step is a function of the value before.
LEMMA Recursion ==
    ASSUME NEW A, NEW a \in A, NEW F \in [Nat -> [A -> A]], NEW n \in Nat
    PROVE  \E g \in [0 .. n -> A] : Recurs(g, a, F, n)
<1> DEFINE Body(g, m) == [k \in 0 .. m |-> IF k = 0 THEN a ELSE F[k][g[k - 1]]]
           There(m) == \E g \in [0 .. m -> A] : g = Body(g, m)
           T == {m \in Nat : There(m)}
<1>1. 0 \in T
  <2>1. [k \in 0 .. 0 |-> a] \in [0 .. 0 -> A]
    OBVIOUS
  <2>2. [k \in 0 .. 0 |-> a] = Body([k \in 0 .. 0 |-> a], 0)
    OBVIOUS
  <2> QED BY <2>1, <2>2
<1>2. ASSUME NEW m \in T PROVE m + 1 \in T
  <2>1. PICK g \in [0 .. m -> A] : g = Body(g, m)
    OBVIOUS
  <2>2. m \in Nat
    OBVIOUS
  <2> DEFINE h == [k \in 0 .. m + 1 |-> IF k <= m THEN g[k] ELSE F[m + 1][g[m]]]
  <2>3. F[m + 1][g[m]] \in A
    BY <2>2
  <2>4. h \in [0 .. m + 1 -> A]
    BY <2>2, <2>3
  <2>5. ASSUME NEW k \in 0 .. m + 1 PROVE h[k] = Body(h, m + 1)[k]
    <3>1. CASE k = 0
      <4>1. g[0] = a
        BY <2>1, <2>2
      <4> QED BY <3>1, <4>1, <2>2
    <3>2. CASE k # 0 /\ k <= m
      <4>1. g[k] = F[k][g[k - 1]]
        BY <2>1, <2>2, <3>2
      <4>2. k - 1 \in 0 .. m + 1 /\ k - 1 <= m
        BY <3>2, <2>2
      <4>3. h[k - 1] = g[k - 1] /\ h[k] = g[k]
        BY <4>2, <3>2, <2>2
      <4> HIDE DEF h
      <4> QED BY <3>2, <4>1, <4>3
    <3>3. CASE k = m + 1
      <4>1. m \in 0 .. m + 1 /\ k - 1 = m /\ ~(k <= m) /\ k # 0
        BY <3>3, <2>2
      <4>2. h[k - 1] = g[m] /\ h[k] = F[m + 1][g[m]]
        BY <4>1, <2>2
      <4> HIDE DEF h
      <4> QED BY <3>3, <4>1, <4>2
    <3> QED BY <3>1, <3>2, <3>3, <2>2
  <2>6. h = Body(h, m + 1)
    <3> HIDE DEF h
    <3> QED BY <2>4, <2>5
  <2>7. There(m + 1)
    <3> HIDE DEF h
    <3> QED BY <2>4, <2>6
  <2> HIDE DEF There
  <2> QED BY <2>7, <2>2
<1>3. T = Nat
  <2> HIDE DEF T
  <2>1. T \in SUBSET Nat
    BY DEF T
  <2> QED BY <1>1, <1>2, <2>1, SetInduction
<1> HIDE DEF There
<1>4. There(n)
  BY <1>3
<1> QED BY <1>4 DEF There, Recurs

-----------------------------------------------------------------------------
(* Rows and scores.                                                        *)

LEMMA Sizes ==
    /\ R \in Nat \ {0} /\ N \in Nat /\ N >= 2 /\ Entry \in Row
    /\ Row = 0 .. N - 1 /\ Slot = 0 .. R
BY SizeAssumption DEF Row, Slot

\* Of the rows in a set one has the best score.
LEMMA BestIn ==
    ASSUME NEW q \in Row, NEW S \in SUBSET Row, S # {}
    PROVE  Best(q, S) \in S
<1> DEFINE w == Dot[q]
           Wins(a, b) == w[a] > w[b] \/ (w[a] = w[b] /\ a < b)
           Top(k) == (\E x \in S : x < k) =>
                        \E a \in S : a < k /\ \A b \in S \ {a} : b < k => Wins(a, b)
           T == {k \in Nat : Top(k)}
<1>1. S \subseteq Nat /\ N \in Nat /\ \A x \in S : x < N
  BY Sizes
<1>2. \A x \in S : w[x] \in Int
  BY SizeAssumption
<1>3. 0 \in T
  BY <1>1
<1>4. ASSUME NEW k \in T PROVE k + 1 \in T
  <2>1. k \in Nat /\ Top(k)
    OBVIOUS
  <2>2. CASE k \notin S
    <3>1. \A x \in S : x < k + 1 <=> x < k
      BY <2>1, <2>2, <1>1
    <3> HIDE DEF w
    <3> QED BY <2>1, <3>1
  <2>3. CASE k \in S /\ ~ \E x \in S : x < k
    <3>1. \A x \in S : x < k + 1 => x = k
      BY <2>1, <2>3, <1>1
    <3>2. Top(k + 1)
      <4> HIDE DEF w
      <4> QED BY <2>1, <2>3, <3>1
    <3> HIDE DEF Top
    <3> QED BY <2>1, <3>2
  <2>4. CASE k \in S /\ \E x \in S : x < k
    <3>1. PICK a \in S : a < k /\ \A b \in S \ {a} : b < k => Wins(a, b)
      BY <2>1, <2>4
    <3>2. CASE w[k] > w[a]
      <4>1. ASSUME NEW b \in S \ {k}, b < k + 1 PROVE Wins(k, b)
        <5>1. b < k
          BY <4>1, <2>1, <1>1
        <5>2. b = a \/ Wins(a, b)
          BY <5>1, <3>1
        <5>3. w[k] \in Int /\ w[a] \in Int /\ w[b] \in Int
          BY <1>2, <2>4
        <5> HIDE DEF w
        <5> QED BY <5>2, <5>3, <3>2
      <4>2. Top(k + 1)
        <5>1. k < k + 1
          BY <2>1
        <5> HIDE DEF Wins
        <5> QED BY <4>1, <5>1, <2>4
      <4> HIDE DEF Top
      <4> QED BY <2>1, <4>2
    <3>3. CASE ~(w[k] > w[a])
      <4>1. ASSUME NEW b \in S \ {a}, b < k + 1 PROVE Wins(a, b)
        <5>1. b < k \/ b = k
          BY <4>1, <2>1, <1>1
        <5>2. CASE b < k
          BY <5>2, <3>1
        <5>3. CASE b = k
          <6>1. w[k] \in Int /\ w[a] \in Int
            BY <1>2, <2>4
          <6> HIDE DEF w
          <6> QED BY <5>3, <6>1, <3>1, <3>3
        <5> QED BY <5>1, <5>2, <5>3
      <4>2. Top(k + 1)
        <5>1. a < k + 1
          BY <2>1, <3>1, <1>1
        <5> HIDE DEF Wins
        <5> QED BY <4>1, <5>1
      <4> HIDE DEF Top
      <4> QED BY <2>1, <4>2
    <3> QED BY <3>2, <3>3
  <2> QED BY <2>2, <2>3, <2>4
<1>5. T = Nat
  <2> HIDE DEF T
  <2>1. T \in SUBSET Nat
    BY DEF T
  <2> QED BY <1>3, <1>4, <2>1, SetInduction
<1>6. Top(N)
  <2> HIDE DEF Top
  <2> QED BY <1>5, <1>1
<1>7. \E a \in S : \A b \in S \ {a} : Wins(a, b)
  <2> HIDE DEF Wins
  <2> QED BY <1>6, <1>1
<1> QED BY <1>7 DEF Best, Better

-----------------------------------------------------------------------------
(* The walk of the build stays on the rows.                                *)

State == [cand : SUBSET Row, res : SUBSET Row,
          mark : SUBSET Row, expanded : SUBSET Row]

\* The slots of a row that are in use hold rows.
LEMMA Edges ==
    ASSUME ListsInv, NEW c \in Row
    PROVE  /\ d[c] \in 1 .. R /\ Out(c) \in SUBSET Row
           /\ \A m \in 1 .. d[c] : e[c][m - 1] \in Row
<1>1. ListOf(c, e[c], d[c])
  BY DEF ListsInv
<1>2. d[c] \in 1 .. R /\ R \in Nat /\ Slot = 0 .. R
  BY <1>1, Sizes DEF ListOf
<1>3. \A m \in 0 .. d[c] - 1 : m \in Slot /\ m < d[c]
  BY <1>2
<1>4. \A m \in 0 .. d[c] - 1 : e[c][m] \in Row
  BY <1>1, <1>3 DEF ListOf
<1>5. Out(c) \in SUBSET Row
  BY <1>4 DEF Out
<1>6. \A m \in 1 .. d[c] : m - 1 \in 0 .. d[c] - 1
  BY <1>2
<1> QED BY <1>2, <1>4, <1>5, <1>6

LEMMA OfferType ==
    ASSUME NEW q, NEW st \in State, NEW x \in Row
    PROVE  Offer(q, st, x) \in State
<1>1. [st EXCEPT !.cand = @ \cup {x}, !.res = @ \cup {x}] \in State
  BY DEF State
<1>2. [st EXCEPT !.cand = @ \cup {x},
                 !.res = (@ \ {Worst(q, @)}) \cup {x}] \in State
  <2> DEFINE w == Worst(q, st.res)
  <2>1. [st EXCEPT !.cand = @ \cup {x}, !.res = (@ \ {w}) \cup {x}] \in State
    <3> HIDE DEF w
    <3> QED BY DEF State
  <2> QED BY <2>1
<1> QED BY <1>1, <1>2 DEF Offer

LEMMA OfferedType ==
    ASSUME ListsInv, NEW q, NEW st \in State, NEW c \in Row
    PROVE  Offered(q, st, c) \in State
<1> DEFINE Step(m, t) == IF e[c][m - 1] \in st.mark THEN t
                         ELSE Offer(q, t, e[c][m - 1])
           Body(g) == [m \in 0 .. d[c] |-> IF m = 0 THEN st ELSE Step(m, g[m - 1])]
           f == CHOOSE g : g = Body(g)
           F == [m \in Nat |-> [t \in State |->
                   IF m \in 1 .. d[c] THEN Step(m, t) ELSE t]]
<1>1. d[c] \in Nat /\ \A m \in 1 .. d[c] : e[c][m - 1] \in Row
  BY Edges, Sizes
<1>2. \A m \in 1 .. d[c] : \A t \in State : Step(m, t) \in State
  BY <1>1, OfferType
<1>3. F \in [Nat -> [State -> State]]
  <2> HIDE DEF Step
  <2> QED BY <1>2
<1>4. PICK g \in [0 .. d[c] -> State] : Recurs(g, st, F, d[c])
  <2> HIDE DEF F
  <2> QED BY <1>1, <1>3, Recursion
<1>5. \A m \in 0 .. d[c] : m # 0 => F[m][g[m - 1]] = Step(m, g[m - 1])
  <2> TAKE m \in 0 .. d[c]
  <2> HAVE m # 0
  <2>1. m \in Nat /\ m - 1 \in 0 .. d[c] /\ m \in 1 .. d[c]
    BY <1>1
  <2>2. g[m - 1] \in State
    BY <2>1, <1>4
  <2> HIDE DEF Step
  <2> QED BY <2>1, <2>2
<1>6. g = Body(g)
  <2> HIDE DEF F, Step
  <2> QED BY <1>4, <1>5 DEF Recurs
<1>7. f = Body(f)
  <2> HIDE DEF Body
  <2> QED BY <1>6
<1> DEFINE T == {m \in Nat : m <= d[c] => f[m] \in State}
<1>8. 0 \in T
  <2> HIDE DEF f
  <2> QED BY <1>7, <1>1
<1>9. \A m \in 0 .. d[c] - 1 : m \in T => m + 1 \in T
  <2> HIDE DEF f, Step
  <2> TAKE m \in 0 .. d[c] - 1
  <2> HAVE m \in T
  <2>1. f[m] \in State /\ m + 1 \in 1 .. d[c] /\ m + 1 \in 0 .. d[c]
    BY <1>1
  <2>2. f[m + 1] = Step(m + 1, f[m])
    BY <1>7, <2>1, <1>1
  <2>3. Step(m + 1, f[m]) \in State
    BY <2>1, <1>2
  <2> QED BY <2>1, <2>2, <2>3
<1>10. d[c] \in T
  <2> HIDE DEF T
  <2>1. T \in SUBSET Nat
    BY DEF T
  <2> QED BY <1>1, <1>8, <1>9, <2>1, Steps
<1>11. f[d[c]] \in State
  <2> HIDE DEF f
  <2> QED BY <1>10, <1>1
<1> QED BY <1>11 DEF Offered

LEMMA ExpandType ==
    ASSUME ListsInv, NEW q \in Row, NEW st \in State
    PROVE  Expand(q, st) \in State
<1> DEFINE c == Best(q, st.cand)
           open == [st EXCEPT !.cand = @ \ {c}, !.expanded = @ \cup {c}]
           t == Offered(q, open, c)
<1>1. SUFFICES ASSUME st.cand # {} PROVE [t EXCEPT !.mark = @ \cup Out(c)] \in State
  <2> HIDE DEF t
  <2> QED BY DEF Expand, t
<1>2. st.cand \in SUBSET Row
  BY DEF State
<1>3. c \in Row
  BY <1>1, <1>2, BestIn
<1>4. open \in State
  <2> HIDE DEF c
  <2> QED BY <1>3 DEF State
<1>5. t \in State
  <2> HIDE DEF open, c
  <2> QED BY <1>3, <1>4, OfferedType DEF t
<1>6. Out(c) \in SUBSET Row
  BY <1>3, Edges
<1> HIDE DEF t, c
<1> QED BY <1>5, <1>6 DEF State

LEMMA GreedyType ==
    ASSUME ListsInv, NEW q \in Row
    PROVE  Greedy(q) \in SUBSET Row
<1> DEFINE Body(g) == [n \in 0 .. N |-> IF n = 0 THEN FromEntry
                                        ELSE Expand(q, g[n - 1])]
           f == CHOOSE g : g = Body(g)
           F == [n \in Nat |-> [t \in State |-> Expand(q, t)]]
<1>1. N \in Nat /\ FromEntry \in State
  BY Sizes DEF FromEntry, State
<1>2. \A t \in State : Expand(q, t) \in State
  BY ExpandType
<1>3. F \in [Nat -> [State -> State]]
  BY <1>2
<1>4. PICK g \in [0 .. N -> State] : Recurs(g, FromEntry, F, N)
  <2> HIDE DEF F
  <2> QED BY <1>1, <1>3, Recursion
<1>5. \A n \in 0 .. N : n # 0 => F[n][g[n - 1]] = Expand(q, g[n - 1])
  <2> TAKE n \in 0 .. N
  <2> HAVE n # 0
  <2>1. n \in Nat /\ n - 1 \in 0 .. N
    BY <1>1
  <2> QED BY <2>1, <1>4
<1>6. g = Body(g)
  <2> HIDE DEF F
  <2> QED BY <1>4, <1>5 DEF Recurs
<1>7. f = Body(f)
  <2> HIDE DEF Body
  <2> QED BY <1>6
<1> DEFINE T == {n \in Nat : n <= N => f[n] \in State}
<1>8. 0 \in T
  <2> HIDE DEF f
  <2> QED BY <1>7, <1>1
<1>9. \A n \in 0 .. N - 1 : n \in T => n + 1 \in T
  <2> HIDE DEF f
  <2> TAKE n \in 0 .. N - 1
  <2> HAVE n \in T
  <2>1. f[n] \in State /\ n + 1 \in 0 .. N /\ n + 1 # 0 /\ (n + 1) - 1 = n
    BY <1>1
  <2>2. f[n + 1] = Expand(q, f[n])
    BY <1>7, <2>1
  <2> QED BY <2>1, <2>2, <1>2
<1>10. N \in T
  <2> HIDE DEF T
  <2>1. T \in SUBSET Nat
    BY DEF T
  <2> QED BY <1>1, <1>8, <1>9, <2>1, Steps
<1>11. f[N] \in State
  <2> HIDE DEF f
  <2> QED BY <1>10, <1>1
<1>12. f[N].expanded \in SUBSET Row
  <2> HIDE DEF f
  <2> QED BY <1>11 DEF State
<1> QED BY <1>12 DEF Greedy

-----------------------------------------------------------------------------
(* A prune leaves a list of the candidates.                                *)

\* What is selected is not alive, and nothing is selected twice.
Picks(cands) ==
    {t \in [alive : SUBSET cands, out : Seq(cands)] :
        \A m \in 1 .. Len(t.out) :
            /\ t.out[m] \notin t.alive
            /\ \A l \in 1 .. Len(t.out) : t.out[l] = t.out[m] => l = m}

LEMMA SelectedType ==
    ASSUME NEW p \in Row, NEW cands \in SUBSET Row, NEW alpha,
           NEW t \in Picks(cands)
    PROVE  /\ Selected(p, t, alpha) \in Picks(cands)
           /\ Len(Selected(p, t, alpha).out) =
                (IF t.alive = {} THEN Len(t.out) ELSE Len(t.out) + 1)
<1>1. /\ t.alive \in SUBSET cands /\ t.out \in Seq(cands)
      /\ \A m \in 1 .. Len(t.out) :
            /\ t.out[m] \notin t.alive
            /\ \A l \in 1 .. Len(t.out) : t.out[l] = t.out[m] => l = m
  BY DEF Picks
<1>2. CASE t.alive = {}
  BY <1>2 DEF Selected
<1>3. CASE t.alive # {}
  <2> DEFINE a == Best(p, t.alive)
             alive == {b \in t.alive \ {a} : Survives(p, a, b, alpha)}
             out == Append(t.out, a)
             new == [alive |-> alive, out |-> out]
  <2>1. a \in t.alive
    BY <1>1, <1>3, BestIn
  <2>2. alive \in SUBSET cands /\ alive \subseteq t.alive \ {a}
    <3> HIDE DEF a
    <3> QED BY <1>1
  <2>3. out \in Seq(cands) /\ Len(out) = Len(t.out) + 1
    <3> HIDE DEF a
    <3> QED BY <1>1, <2>1
  <2>4. Len(t.out) \in Nat
    BY <1>1
  <2>5. \A m \in 1 .. Len(out) :
          \/ m \in 1 .. Len(t.out) /\ out[m] = t.out[m]
          \/ m = Len(t.out) + 1 /\ out[m] = a
    <3> HIDE DEF a
    <3> QED BY <1>1, <2>1, <2>3, <2>4
  <2>6. ASSUME NEW m \in 1 .. Len(out)
        PROVE  /\ out[m] \notin alive
               /\ \A l \in 1 .. Len(out) : out[l] = out[m] => l = m
    <3> HIDE DEF a, alive, out
    <3>1. \A l \in 1 .. Len(t.out) : t.out[l] # a
      BY <1>1, <2>1
    <3>2. CASE m \in 1 .. Len(t.out) /\ out[m] = t.out[m]
      BY <1>1, <2>2, <2>5, <3>1, <3>2
    <3>3. CASE m = Len(t.out) + 1 /\ out[m] = a
      BY <1>1, <2>2, <2>5, <3>1, <3>3
    <3> QED BY <2>5, <3>2, <3>3
  <2>7. new \in Picks(cands)
    <3> HIDE DEF alive, out
    <3>1. new \in [alive : SUBSET cands, out : Seq(cands)]
      BY <2>2, <2>3
    <3> QED BY <3>1, <2>6 DEF Picks
  <2>8. Selected(p, t, alpha) = new
    BY <1>3 DEF Selected
  <2>9. Len(new.out) = Len(t.out) + 1
    <3> HIDE DEF out, alive
    <3> QED BY <2>3
  <2> HIDE DEF new
  <2> QED BY <1>3, <2>7, <2>8, <2>9
<1> QED BY <1>2, <1>3

LEMMA SelectType ==
    ASSUME NEW p \in Row, NEW cands \in SUBSET Row, cands # {}, NEW alpha
    PROVE  LET out == Select(p, cands, alpha)
           IN  /\ out \in Seq(cands) /\ Len(out) \in 1 .. R
               /\ \A m, l \in 1 .. Len(out) : out[m] = out[l] => m = l
<1> DEFINE start == [alive |-> cands, out |-> << >>]
           Body(g) == [n \in 0 .. R |-> IF n = 0 THEN start
                                        ELSE Selected(p, g[n - 1], alpha)]
           f == CHOOSE g : g = Body(g)
           A == Picks(cands)
           F == [n \in Nat |-> [t \in A |-> Selected(p, t, alpha)]]
<1>1. R \in Nat \ {0}
  BY Sizes
<1>2. start \in A
  BY DEF Picks
<1>3. \A t \in A : Selected(p, t, alpha) \in A
  BY SelectedType
<1>4. F \in [Nat -> [A -> A]]
  <2> HIDE DEF A
  <2> QED BY <1>3
<1>5. PICK g \in [0 .. R -> A] : Recurs(g, start, F, R)
  <2> HIDE DEF F, A, start
  <2> QED BY <1>1, <1>2, <1>4, Recursion
<1>6. \A n \in 0 .. R : n # 0 => F[n][g[n - 1]] = Selected(p, g[n - 1], alpha)
  <2> TAKE n \in 0 .. R
  <2> HAVE n # 0
  <2>1. n \in Nat /\ n - 1 \in 0 .. R
    BY <1>1
  <2> HIDE DEF A
  <2> QED BY <2>1, <1>5
<1>7. g = Body(g)
  <2> HIDE DEF F, A, start
  <2> QED BY <1>5, <1>6 DEF Recurs
<1>8. f = Body(f)
  <2> HIDE DEF Body
  <2> QED BY <1>7
<1> DEFINE Good(n) == /\ f[n] \in A /\ Len(f[n].out) \in 0 .. n
                      /\ n > 0 => Len(f[n].out) > 0
           T == {n \in Nat : n <= R => Good(n)}
<1>9. 0 \in T
  <2>1. f[0] = start
    <3> HIDE DEF f, start
    <3> QED BY <1>8, <1>1
  <2> HIDE DEF f, A
  <2>2. Good(0)
    BY <2>1, <1>2
  <2> QED BY <2>2
<1>10. \A n \in 0 .. R - 1 : n \in T => n + 1 \in T
  <2> TAKE n \in 0 .. R - 1
  <2> HAVE n \in T
  <2>1. Good(n) /\ n + 1 \in 0 .. R /\ n + 1 # 0 /\ (n + 1) - 1 = n
    BY <1>1
  <2>2. f[n + 1] = Selected(p, f[n], alpha)
    <3> HIDE DEF f, start
    <3> QED BY <1>8, <2>1
  <2>3. /\ f[n + 1] \in A
        /\ Len(f[n + 1].out) =
             (IF f[n].alive = {} THEN Len(f[n].out) ELSE Len(f[n].out) + 1)
    <3> HIDE DEF f
    <3> QED BY <2>1, <2>2, SelectedType
  <2>4. n = 0 => f[n].alive # {}
    <3>1. f[0] = start
      <4> HIDE DEF f, start
      <4> QED BY <1>8, <1>1
    <3> HIDE DEF f
    <3> QED BY <3>1
  <2> HIDE DEF f, A
  <2>5. Good(n + 1)
    BY <2>1, <2>3, <2>4
  <2> HIDE DEF Good
  <2> QED BY <2>5
<1>11. R \in T
  <2> HIDE DEF T
  <2>1. T \in SUBSET Nat
    BY DEF T
  <2> QED BY <1>1, <1>9, <1>10, <2>1, Steps
<1>12. Good(R)
  <2> HIDE DEF Good
  <2> QED BY <1>11, <1>1
<1>13. Select(p, cands, alpha) = f[R].out
  BY DEF Select
<1> HIDE DEF f
<1>14. f[R] \in Picks(cands) /\ Len(f[R].out) \in 1 .. R
  BY <1>12, <1>1
<1> QED BY <1>13, <1>14 DEF Picks

\* Slots filled from a sequence of different other rows are a list.
LEMMA SlotsList ==
    ASSUME NEW x \in Row, NEW out \in Seq(Row \ {x}), Len(out) \in 1 .. R,
           \A m, l \in 1 .. Len(out) : out[m] = out[l] => m = l
    PROVE  ListOf(x, Slots(out), Len(out))
<1>1. R \in Nat /\ Slot = 0 .. R /\ Row \subseteq Int /\ Len(out) \in Nat
  BY Sizes
<1>2. \A m \in Slot : m < Len(out) => m + 1 \in 1 .. Len(out)
  BY <1>1
<1>3. \A m \in 1 .. Len(out) : out[m] \in Row \ {x}
  OBVIOUS
<1>4. \A m \in Slot : Slots(out)[m] = IF m < Len(out) THEN out[m + 1] ELSE -1
  BY DEF Slots
<1>5. \A m \in Slot : IF m < Len(out) THEN Slots(out)[m] \in Row \ {x}
                      ELSE Slots(out)[m] = -1
  BY <1>2, <1>3, <1>4
<1>6. Slots(out) \in [Slot -> Int]
  <2>1. ASSUME NEW m \in Slot PROVE Slots(out)[m] \in Int
    <3>1. CASE m < Len(out)
      BY <1>1, <1>5, <3>1
    <3>2. CASE ~(m < Len(out))
      BY <1>1, <1>5, <3>2
    <3> QED BY <3>1, <3>2
  <2> QED BY <2>1 DEF Slots
<1>7. ASSUME NEW m \in 0 .. Len(out) - 1, NEW l \in 0 .. Len(out) - 1,
             Slots(out)[m] = Slots(out)[l]
      PROVE  m = l
  <2>1. /\ m \in Slot /\ l \in Slot /\ m < Len(out) /\ l < Len(out)
        /\ m \in Int /\ l \in Int
    BY <1>1
  <2>2. out[m + 1] = out[l + 1]
    BY <1>4, <1>7, <2>1
  <2>3. m + 1 = l + 1
    BY <1>2, <2>1, <2>2
  <2> QED BY <2>1, <2>3
<1> QED BY <1>5, <1>6, <1>7 DEF ListOf

LEMMA PrunedList ==
    ASSUME NEW p \in Row, NEW cands \in SUBSET Row, cands \ {p} # {}, NEW old
    PROVE  ListOf(p, Pruned(p, cands, old).slots, Pruned(p, cands, old).count)
<1> DEFINE out == Select(p, cands \ {p}, AlphaNow)
<1>1. /\ out \in Seq(cands \ {p}) /\ Len(out) \in 1 .. R
      /\ \A m, l \in 1 .. Len(out) : out[m] = out[l] => m = l
  BY SelectType
<1>2. /\ Pruned(p, cands, old).slots = Slots(out)
      /\ Pruned(p, cands, old).count = Len(out)
  BY DEF Pruned
<1> HIDE DEF out
<1>3. out \in Seq(Row \ {p})
  BY <1>1
<1> QED BY <1>1, <1>2, <1>3, SlotsList

-----------------------------------------------------------------------------
(* Every step keeps the invariant.                                         *)

LEMMA DiskInit == Init => DiskInv
<1> SUFFICES ASSUME Init PROVE DiskInv
  OBVIOUS
<1>1. PICK g \in Starts : e = [x \in Row |-> Slots(g[x])]
  BY DEF Init
<1> DEFINE n == IF R < N - 1 THEN R ELSE N - 1
<1>2. n \in 1 .. R /\ d = [x \in Row |-> n]
  BY Sizes DEF Init
<1>3. ASSUME NEW x \in Row PROVE ListOf(x, e[x], d[x])
  <2>1. g[x] \in Seq(Row \ {x}) /\ IsInjective(g[x]) /\ Len(g[x]) = n
    BY StartsAssumption
  <2>2. \A m, l \in 1 .. Len(g[x]) : g[x][m] = g[x][l] => m = l
    <3>1. DOMAIN g[x] = 1 .. Len(g[x])
      BY <2>1
    <3> QED BY <2>1, <3>1 DEF IsInjective
  <2> HIDE DEF n
  <2>3. ListOf(x, Slots(g[x]), Len(g[x]))
    BY <1>2, <2>1, <2>2, SlotsList
  <2> QED BY <1>1, <1>2, <2>1, <2>3
<1>4. \A x \in Row : e[x] \in [Slot -> Int] /\ d[x] \in Nat
  BY <1>3 DEF ListOf
<1>5. ListsInv
  <2> HIDE DEF n
  <2>1. e \in [Row -> [Slot -> Int]] /\ d \in [Row -> Nat]
    BY <1>1, <1>2, <1>4
  <2> QED BY <1>3, <2>1 DEF ListsInv
<1>6. PassInv
  BY Sizes DEF Init, PassInv
<1>7. FileInv /\ CacheInv
  BY DEF Init, FileInv, CacheInv
<1> QED BY <1>5, <1>6, <1>7 DEF DiskInv

\* Before the file is written nothing depends on the lists.
LEMMA PutKeeps ==
    ASSUME ListsInv, NEW p \in Row, NEW new,
           ListOf(p, new.slots, new.count), Put(p, new)
    PROVE  ListsInv'
<1>1. /\ e' = [e EXCEPT ![p] = new.slots] /\ d' = [d EXCEPT ![p] = new.count]
  BY DEF Put
<1>2. new.slots \in [Slot -> Int] /\ new.count \in Nat
  BY Sizes DEF ListOf
<1>3. e \in [Row -> [Slot -> Int]] /\ d \in [Row -> Nat]
  BY DEF ListsInv
<1>4. e' \in [Row -> [Slot -> Int]] /\ d' \in [Row -> Nat]
  BY <1>1, <1>2, <1>3
<1>5. ASSUME NEW x \in Row PROVE ListOf(x, e'[x], d'[x])
  <2>1. CASE x = p
    <3>1. e'[x] = new.slots /\ d'[x] = new.count
      BY <1>1, <1>3, <2>1
    <3> QED BY <2>1, <3>1
  <2>2. CASE x # p
    <3>1. e'[x] = e[x] /\ d'[x] = d[x]
      BY <1>1, <1>3, <2>2
    <3> QED BY <3>1 DEF ListsInv
  <2> QED BY <2>1, <2>2
<1> QED BY <1>4, <1>5 DEF ListsInv, ListOf

LEMMA InsertRowKeeps == DiskInv /\ InsertRow => DiskInv'
<1> SUFFICES ASSUME DiskInv, InsertRow PROVE DiskInv'
  OBVIOUS
<1>1. /\ ListsInv /\ PassInv /\ FileInv /\ CacheInv
      /\ Building /\ i < N /\ i \in Row
      /\ UNCHANGED <<pass, records, readers, lastIo, warm>>
      /\ todo' = [m \in 1 .. d'[i] |-> e'[i][m - 1]]
      /\ IF todo' = << >> THEN i' = i + 1 ELSE UNCHANGED i
  BY Sizes DEF DiskInv, PassInv, InsertRow, reading
<1> DEFINE cands == (Greedy(i) \cup Out(i)) \ {i}
<1>2. IF cands = {} THEN UNCHANGED <<e, d>> ELSE Put(i, Pruned(i, cands, e[i]))
  BY DEF InsertRow
<1>3. cands \in SUBSET Row
  BY <1>1, GreedyType, Edges
<1> HIDE DEF cands
<1>4. ListsInv'
  <2>1. CASE cands = {}
    BY <1>1, <1>2, <2>1 DEF ListsInv, ListOf
  <2>2. CASE cands # {}
    <3>1. i \notin cands
      BY DEF cands
    <3>2. cands \ {i} # {}
      BY <2>2, <3>1
    <3> DEFINE new == Pruned(i, cands, e[i])
    <3>3. ListOf(i, new.slots, new.count)
      BY <1>1, <1>3, <3>2, PrunedList
    <3>4. Put(i, new)
      BY <1>2, <2>2
    <3> HIDE DEF new
    <3> QED BY <1>1, <3>3, <3>4, PutKeeps
  <2> QED BY <2>1, <2>2
<1>5. todo' \in Seq(Row \ {i})
  <2>1. d'[i] \in Nat /\ \A m \in 1 .. d'[i] : e'[i][m - 1] \in Row \ {i}
    <3>1. ListOf(i, e'[i], d'[i])
      BY <1>1, <1>4 DEF ListsInv
    <3>2. d'[i] \in 1 .. R /\ R \in Nat /\ Slot = 0 .. R
      BY <3>1, Sizes DEF ListOf
    <3>3. \A m \in 1 .. d'[i] : m - 1 \in Slot /\ m - 1 < d'[i]
      BY <3>2
    <3> QED BY <3>1, <3>2, <3>3 DEF ListOf
  <2> QED BY <1>1, <2>1
<1>6. PassInv'
  <2>1. pass' \in 1 .. 3 /\ i' \in 0 .. N /\ todo' \in Seq(Row)
    BY <1>1, <1>5, Sizes DEF PassInv
  <2>2. todo' # << >> => Building' /\ i' < N /\ todo' \in Seq(Row \ {i'})
    BY <1>1, <1>5 DEF Building
  <2> QED BY <2>1, <2>2 DEF PassInv
<1>7. FileInv'
  BY <1>1 DEF FileInv, Building
<1>8. CacheInv'
  BY <1>1 DEF CacheInv
<1> QED BY <1>4, <1>6, <1>7, <1>8 DEF DiskInv

\* A back edge in the next free slot, if there is room.
LEMMA AddedList ==
    ASSUME ListsInv, NEW j \in Row, NEW x \in Row \ {j}, x \notin Out(j),
           d[j] + 1 <= R
    PROVE  ListOf(j, [e[j] EXCEPT ![d[j]] = x], d[j] + 1)
<1>1. ListOf(j, e[j], d[j])
  BY DEF ListsInv
<1>2. /\ d[j] \in 1 .. R /\ R \in Nat /\ Slot = 0 .. R /\ Row \subseteq Int
      /\ e[j] \in [Slot -> Int] /\ d[j] \in Slot
  BY <1>1, Sizes DEF ListOf
<1> DEFINE new == [e[j] EXCEPT ![d[j]] = x]
<1>3. new \in [Slot -> Int]
  BY <1>2
<1>4. \A m \in Slot : new[m] = IF m = d[j] THEN x ELSE e[j][m]
  BY <1>2
<1> HIDE DEF new
<1>5. \A m \in 0 .. d[j] - 1 : m \in Slot /\ e[j][m] # x
  BY <1>2 DEF Out
<1>6. ASSUME NEW m \in Slot
      PROVE  IF m < d[j] + 1 THEN new[m] \in Row \ {j} ELSE new[m] = -1
  <2>1. CASE m = d[j]
    BY <1>2, <1>4, <2>1
  <2>2. CASE m # d[j]
    <3>1. m < d[j] + 1 <=> m < d[j]
      BY <1>2, <2>2
    <3>2. new[m] = e[j][m]
      BY <1>4, <2>2
    <3> QED BY <1>1, <3>1, <3>2 DEF ListOf
  <2> QED BY <2>1, <2>2
<1>7. ASSUME NEW m \in 0 .. d[j], NEW l \in 0 .. d[j], new[m] = new[l]
      PROVE  m = l
  <2>1. m \in Slot /\ l \in Slot
    BY <1>2
  <2>2. CASE m = d[j] \/ l = d[j]
    <3>1. m = d[j] => l \notin 0 .. d[j] - 1
      BY <1>4, <1>5, <1>7, <2>1
    <3>2. l = d[j] => m \notin 0 .. d[j] - 1
      BY <1>4, <1>5, <1>7, <2>1
    <3> QED BY <1>2, <2>2, <3>1, <3>2
  <2>3. CASE m # d[j] /\ l # d[j]
    <3>1. m \in 0 .. d[j] - 1 /\ l \in 0 .. d[j] - 1
      BY <1>2, <2>3
    <3>2. e[j][m] = e[j][l]
      BY <1>4, <1>7, <2>1, <2>3
    <3> QED BY <1>1, <3>1, <3>2 DEF ListOf
  <2> QED BY <2>2, <2>3
<1>8. (d[j] + 1) - 1 = d[j] /\ d[j] + 1 \in 1 .. R
  BY <1>2
<1>9. ListOf(j, new, d[j] + 1)
  BY <1>3, <1>6, <1>7, <1>8 DEF ListOf
<1> QED BY <1>9 DEF new

LEMMA BackEdgeKeeps == DiskInv /\ BackEdge => DiskInv'
<1> SUFFICES ASSUME DiskInv, BackEdge PROVE DiskInv'
  OBVIOUS
<1>1. /\ ListsInv /\ PassInv /\ FileInv /\ CacheInv
      /\ todo # << >> /\ Building /\ i < N /\ todo \in Seq(Row \ {i}) /\ i \in Row
      /\ UNCHANGED <<pass, records, readers, lastIo, warm>>
      /\ todo' = Tail(todo)
      /\ i' = IF todo' = << >> THEN i + 1 ELSE i
  BY Sizes DEF DiskInv, PassInv, BackEdge, reading
<1> DEFINE j == Head(todo)
           added == [slots |-> [e[j] EXCEPT ![d[j]] = i], count |-> d[j] + 1]
<1>2. IF i \in Out(j) THEN UNCHANGED <<e, d>>
      ELSE IF added.count <= R THEN Put(j, added)
      ELSE Put(j, Pruned(j, Out(j) \cup {i}, added.slots))
  BY DEF BackEdge
<1>3. j \in Row \ {i} /\ todo' \in Seq(Row \ {i})
  BY <1>1
<1> HIDE DEF j
<1>4. ListsInv'
  <2>1. CASE i \in Out(j)
    BY <1>1, <1>2, <2>1 DEF ListsInv, ListOf
  <2>2. CASE i \notin Out(j) /\ added.count <= R
    <3>1. ListOf(j, added.slots, added.count)
      BY <1>1, <1>3, <2>2, AddedList
    <3>2. Put(j, added)
      BY <1>2, <2>2
    <3> HIDE DEF added
    <3> QED BY <1>1, <1>3, <3>1, <3>2, PutKeeps
  <2>3. CASE i \notin Out(j) /\ ~(added.count <= R)
    <3> DEFINE new == Pruned(j, Out(j) \cup {i}, added.slots)
    <3>1. Put(j, new)
      BY <1>2, <2>3
    <3>2. Out(j) \cup {i} \in SUBSET Row /\ (Out(j) \cup {i}) \ {j} # {}
      BY <1>1, <1>3, Edges
    <3>3. ListOf(j, new.slots, new.count)
      <4> HIDE DEF added
      <4> QED BY <1>3, <3>2, PrunedList
    <3> HIDE DEF new
    <3> QED BY <1>1, <1>3, <3>1, <3>3, PutKeeps
  <2> QED BY <2>1, <2>2, <2>3
<1>5. PassInv'
  <2>1. pass' \in 1 .. 3 /\ i' \in 0 .. N /\ todo' \in Seq(Row)
    BY <1>1, <1>3, Sizes DEF PassInv
  <2>2. todo' # << >> => Building' /\ i' < N /\ todo' \in Seq(Row \ {i'})
    BY <1>1, <1>3 DEF Building
  <2> QED BY <2>1, <2>2 DEF PassInv
<1>6. FileInv'
  BY <1>1 DEF FileInv, Building
<1>7. CacheInv'
  BY <1>1 DEF CacheInv
<1> QED BY <1>4, <1>5, <1>6, <1>7 DEF DiskInv

\* A step that leaves the graph and the file as they are.
LEMMA SameGraph ==
    ASSUME DiskInv, UNCHANGED <<e, d, pass, i, todo, records>>, CacheInv'
    PROVE  DiskInv'
<1>1. ListsInv' /\ PassInv' /\ FileInv'
  BY DEF DiskInv, ListsInv, ListOf, PassInv, FileInv, Building
<1> QED BY <1>1 DEF DiskInv

LEMMA DiskNext == DiskInv /\ [Next]_vars => DiskInv'
<1> SUFFICES ASSUME DiskInv, [Next]_vars PROVE DiskInv'
  OBVIOUS
<1>1. ListsInv /\ PassInv /\ FileInv /\ CacheInv
  BY DEF DiskInv
<1>2. CASE InsertRow
  BY <1>2, InsertRowKeeps
<1>3. CASE BackEdge
  BY <1>3, BackEdgeKeeps
<1>4. CASE NextPass
  <2>1. /\ UNCHANGED <<e, d, todo, records, lastIo, warm>> /\ Building
        /\ i = N /\ pass' = pass + 1 /\ i' = 0
    BY <1>4 DEF NextPass, reading
  <2>2. ListsInv' /\ CacheInv'
    BY <1>1, <2>1 DEF ListsInv, ListOf, CacheInv
  <2>3. todo = << >>
    BY <1>1, <2>1, Sizes DEF PassInv
  <2>4. PassInv' /\ FileInv'
    BY <1>1, <2>1, <2>3, Sizes DEF PassInv, FileInv, Building
  <2> QED BY <2>2, <2>4 DEF DiskInv
<1>5. CASE WriteFile
  <2>1. /\ UNCHANGED <<e, d, pass, i, todo, lastIo, warm>> /\ ~Building
        /\ records' = [x \in Row |-> [m \in 1 .. R |-> e[x][m - 1]]]
    BY <1>5 DEF WriteFile, graph, reading
  <2>2. ListsInv' /\ CacheInv'
    BY <1>1, <2>1 DEF ListsInv, ListOf, CacheInv
  <2>3. PassInv' /\ FileInv'
    BY <1>1, <2>1 DEF PassInv, FileInv, Building
  <2> QED BY <2>2, <2>3 DEF DiskInv
<1>6. CASE Start
  <2>1. PICK io \in {"mmap", "nocache"} : Reader(io)
    BY <1>6 DEF Start
  <2>2. CacheInv'
    BY <1>1, <2>1 DEF Reader, Evicts, CacheInv
  <2> QED BY <1>6, <2>2, SameGraph DEF Start, graph
<1>7. CASE Round
  <2>1. CacheInv'
    BY <1>1, <1>7 DEF Round, CacheInv
  <2> QED BY <1>7, <2>1, SameGraph DEF Round, graph
<1>8. CASE Finish \/ Return \/ UNCHANGED vars
  <2>1. UNCHANGED <<e, d, pass, i, todo, records, lastIo, warm>>
    BY <1>8 DEF Finish, Return, vars, graph, reading
  <2>2. CacheInv'
    BY <1>1, <2>1 DEF CacheInv
  <2> QED BY <2>1, <2>2, SameGraph
<1> QED BY <1>2, <1>3, <1>4, <1>5, <1>6, <1>7, <1>8 DEF Next

-----------------------------------------------------------------------------
(* The theorems.                                                           *)

\* A list of slots has as many rows as slots in use.
LEMMA OutSize ==
    ASSUME ListsInv, NEW x \in Row
    PROVE  Cardinality(Out(x)) = d[x] /\ Out(x) \subseteq Row \ {x}
<1>1. ListOf(x, e[x], d[x])
  BY DEF ListsInv
<1>2. d[x] \in 1 .. R /\ R \in Nat /\ Slot = 0 .. R
  BY <1>1, Sizes DEF ListOf
<1> DEFINE I == 0 .. d[x] - 1
           f == [m \in I |-> e[x][m]]
<1>3. \A m \in I : m \in Slot /\ m < d[x]
  BY <1>2
<1>4. Out(x) \subseteq Row \ {x}
  BY <1>1, <1>3 DEF ListOf, Out
<1>5. IsFiniteSet(I) /\ Cardinality(I) = d[x]
  <2>1. 0 \in Int /\ d[x] - 1 \in Int /\ d[x] \in Int /\ d[x] >= 1
    BY <1>2
  <2>2. Cardinality(I) = IF 0 > d[x] - 1 THEN 0 ELSE (d[x] - 1) - 0 + 1
    BY <2>1, FS_Interval
  <2> QED BY <2>1, <2>2, FS_Interval
<1>6. f \in Bijection(I, Out(x))
  <2>1. f \in [I -> Out(x)] /\ \A y \in Out(x) : \E m \in I : f[m] = y
    BY DEF Out
  <2>2. \A m, l \in I : f[m] = f[l] => m = l
    BY <1>1 DEF ListOf
  <2> HIDE DEF f, I
  <2> QED BY <2>1, <2>2 DEF Bijection, Injection, Surjection, IsInjective
<1>7. Cardinality(Out(x)) = d[x]
  <2>1. ExistsBijection(I, Out(x))
    <3> HIDE DEF f, I
    <3> QED BY <1>6 DEF ExistsBijection
  <2> HIDE DEF I
  <2> QED BY <1>5, <2>1, FS_Bijection
<1> QED BY <1>4, <1>7

LEMMA InvLists == DiskInv => RecordsAreLists
<1> SUFFICES ASSUME DiskInv PROVE RecordsAreLists
  OBVIOUS
<1>1. ListsInv /\ FileInv
  BY DEF DiskInv
<1>2. \A x \in Row : ListOf(x, e[x], d[x])
  BY <1>1 DEF ListsInv
<1>3. ASSUME NEW x \in Row
      PROVE  /\ d[x] \in 1 .. R /\ Cardinality(Out(x)) = d[x]
             /\ Out(x) \subseteq Row \ {x}
             /\ \A m \in Slot : m >= d[x] => e[x][m] = -1
  <2>1. ListOf(x, e[x], d[x])
    BY <1>2
  <2>2. d[x] \in 1 .. R /\ Slot \subseteq Int /\ R \in Nat
    BY <2>1, Sizes DEF ListOf
  <2>3. \A m \in Slot : m >= d[x] => ~(m < d[x])
    BY <2>2
  <2>4. \A m \in Slot : m >= d[x] => e[x][m] = -1
    BY <2>1, <2>3 DEF ListOf
  <2> QED BY <1>1, <2>2, <2>4, OutSize
<1>4. ASSUME records # << >>, NEW x \in Row
      PROVE  ToSet(records[x]) \ {-1} = Out(x)
  <2>1. ListOf(x, e[x], d[x])
    BY <1>2
  <2>2. d[x] \in 1 .. R /\ R \in Nat /\ Slot = 0 .. R /\ Row \subseteq Nat
    BY <2>1, Sizes DEF ListOf
  <2>3. records[x] = [m \in 1 .. R |-> e[x][m - 1]]
    BY <1>1, <1>4 DEF FileInv
  <2>4. ToSet(records[x]) = {e[x][m - 1] : m \in 1 .. R}
    BY <2>3 DEF ToSet
  <2>5. ASSUME NEW y \in Out(x) PROVE y \in ToSet(records[x]) \ {-1}
    <3>1. PICK m \in 0 .. d[x] - 1 : y = e[x][m]
      BY DEF Out
    <3>2. m \in Slot /\ m < d[x] /\ m + 1 \in 1 .. R /\ (m + 1) - 1 = m
      BY <2>2
    <3>3. y \in Nat
      BY <2>1, <2>2, <3>1, <3>2 DEF ListOf
    <3>4. y \in ToSet(records[x])
      BY <2>4, <3>1, <3>2
    <3> QED BY <3>3, <3>4
  <2>6. ASSUME NEW y \in ToSet(records[x]) \ {-1} PROVE y \in Out(x)
    <3>1. PICK m \in 1 .. R : y = e[x][m - 1]
      BY <2>4
    <3>2. m - 1 \in Slot
      BY <2>2
    <3>3. m - 1 < d[x]
      BY <2>1, <3>1, <3>2 DEF ListOf
    <3>4. m - 1 \in 0 .. d[x] - 1
      BY <2>2, <3>2, <3>3
    <3> QED BY <3>1, <3>4 DEF Out
  <2> QED BY <2>5, <2>6
<1> QED BY <1>3, <1>4 DEF RecordsAreLists

THEOREM DiskInvariant == Spec => []DiskInv
<1> QED BY DiskInit, DiskNext, PTL DEF Spec

\* In every state of the build a row has 1 .. R edges to different other rows
\* in its first slots and -1 in the others, and the records of the file have
\* exactly these edges: what prune and pass_ leave and write_file writes.
THEOREM ListsEndInFile == Spec => []RecordsAreLists
<1> QED BY DiskInvariant, InvLists, PTL

\* A search without the cache finds no page of the file in it, however
\* searches of the two modes follow each other: _reader.
THEOREM ColdIsCold == Spec => []ColdReads
<1>1. DiskInv => ColdReads
  BY DEF DiskInv, CacheInv, ColdReads
<1> QED BY <1>1, DiskInvariant, PTL

=============================================================================
