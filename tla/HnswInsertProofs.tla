-------------------------- MODULE HnswInsertProofs --------------------------
(***************************************************************************)
(* Proofs about HnswInsert, for any number of rows, levels, threads and    *)
(* list sizes: types and locks; then which nodes an insertion or a query   *)
(* can come to on a layer, and which lists are written when it comes to    *)
(* them, so that no query is stuck and none returns too little.            *)
(***************************************************************************)
EXTENDS HnswInsert, FiniteSetTheorems, TLAPS

\* What the type invariant needs to be inductive: where a thread stands says
\* which of its indices are valid.
WorkerOK(r) == /\ r.pc # "idle" => r.row \in Node
               /\ r.pc = "greedy" => r.lay > Level[r.row]
               /\ r.pc = "link" => r.pos > 0
               /\ r.pc = "store" => r.at > 0

WorkersOK == \A p \in Proc : WorkerOK(w[p])

QueriesOK == \A s \in Searchers : q[s].pc = "slot" => q[s].j > 0

TypeInv == Typed /\ WorkersOK /\ QueriesOK

\* What the proofs use of the sizes.
LEMMA SizeFacts ==
    /\ M \in Nat \ {0} /\ M0 \in Nat /\ M <= M0
    /\ EfC \in Nat \ {0} /\ Ef \in Nat \ {0}
    /\ Chunk \in Nat \ {0} /\ MaxRepair \in Nat
BY SizeAssumption

USE CapAssumption, LevelAssumption, SizeFacts, ProcAssumption

-----------------------------------------------------------------------------
(* Facts about the operators of the model.                                 *)

\* A list of at most `limit` nodes has a length of 1..limit, and holds nodes.
LEMMA ListsFacts ==
    ASSUME NEW S, NEW limit \in Nat, NEW f \in Lists(S, limit)
    PROVE  /\ Len(f) \in 1 .. limit
           /\ DOMAIN f = 1 .. Len(f)
           /\ \A j \in 1 .. Len(f) : f[j] \in S
           /\ f[1] \in S
<1>1. PICK n \in 1 .. limit : f \in [1 .. n -> S]
  BY DEF Lists
<1>2. f \in Seq(S) /\ Len(f) = n
  BY <1>1
<1>3. QED
  BY <1>1, <1>2

\* The same for a list that may still be empty.
LEMMA ListOfFacts ==
    ASSUME NEW limit \in Nat, NEW f \in ListOf(limit)
    PROVE  /\ Len(f) \in 0 .. limit
           /\ \A j \in 1 .. Len(f) : f[j] \in Node
<1>1. CASE f = << >>
  BY <1>1
<1>2. CASE f \in Lists(Node, limit)
  BY <1>2, ListsFacts
<1>3. QED
  BY <1>1, <1>2 DEF ListOf

LEMMA ListOfHas ==
    ASSUME NEW limit \in Nat
    PROVE  << >> \in ListOf(limit) /\ Lists(Node, limit) \subseteq ListOf(limit)
BY DEF ListOf

\* Lists over fewer nodes, or with a smaller limit, are lists.
LEMMA ListsMonotone ==
    ASSUME NEW S, NEW T, S \subseteq T, NEW a \in Nat, NEW b \in Nat, a <= b
    PROVE  Lists(S, a) \subseteq Lists(T, b)
<1>1. SUFFICES ASSUME NEW f \in Lists(S, a) PROVE f \in Lists(T, b)
  OBVIOUS
<1>2. PICK n \in 1 .. a : f \in [1 .. n -> S]
  BY DEF Lists
<1>3. f \in [1 .. n -> T] /\ n \in 1 .. b
  BY <1>2
<1>4. QED
  BY <1>3 DEF Lists

LEMMA ListOfMonotone == ListOf(M) \subseteq ListOf(M0)
BY ListsMonotone DEF ListOf

LEMMA SelectionsAreLists ==
    ASSUME NEW S, NEW limit PROVE Selections(S, limit) \subseteq Lists(S, limit)
BY DEF Selections

LEMMA MinFacts ==
    ASSUME NEW a \in Nat, NEW b \in Nat
    PROVE  MinOf(a, b) \in Nat /\ MinOf(a, b) <= a /\ MinOf(a, b) <= b
BY DEF MinOf

\* A list read under Typed holds nodes.
LEMMA IdsAreNodes ==
    ASSUME Typed, NEW v \in Node, NEW l \in Layer
    PROVE  Ids(v, l) \subseteq Node
<1>1. cnt[v][l] \in 0 .. M0 /\ slots[v][l] \in [1 .. M0 -> Node]
  BY DEF Typed, SharedOK
<1>2. QED
  BY <1>1 DEF Ids

\* The record a worker starts a row with, and the one it ends it with.
LEMMA IdleIsTyped == Idle \in Inserting
<1>1. 0 \in Node /\ 0 \in Layer /\ 0 \in 0 .. CapN /\ 0 \in 0 .. N
  BY DEF Node, Layer
<1>2. [l \in Layer |-> << >>] \in [Layer -> ListOf(M)] /\ << >> \in ListOf(M0)
  BY ListOfHas
<1>3. QED
  BY <1>1, <1>2 DEF Idle, Inserting
\* Records that keep their type when some fields get typed values.
LEMMA WorkerStoresOwn ==
    ASSUME NEW r \in Inserting, NEW d \in Node, NEW ps \in Nat,
           NEW list \in ListOf(M0), NEW a \in Nat \ {0}, r.row \in Node
    PROVE  LET n == [r EXCEPT !.pc = "store", !.dst = d, !.pos = ps,
                              !.new = list, !.at = a]
           IN  n \in Inserting /\ WorkerOK(n)
<1> DEFINE n == [r EXCEPT !.pc = "store", !.dst = d, !.pos = ps,
                          !.new = list, !.at = a]
<1>1. n \in Inserting
  BY DEF Inserting
<1>2. n.pc = "store" /\ n.row = r.row /\ n.at = a
  BY DEF Inserting
<1> HIDE DEF n
<1>3. WorkerOK(n)
  BY <1>2 DEF WorkerOK
<1>4. QED
  BY <1>1, <1>3 DEF n

LEMMA WorkerStores ==
    ASSUME NEW r \in Inserting, NEW d \in Node,
           NEW list \in ListOf(M0), NEW a \in Nat \ {0}, r.row \in Node
    PROVE  LET n == [r EXCEPT !.pc = "store", !.dst = d, !.new = list, !.at = a]
           IN  n \in Inserting /\ WorkerOK(n)
<1> DEFINE n == [r EXCEPT !.pc = "store", !.dst = d, !.new = list, !.at = a]
<1>1. n \in Inserting
  BY DEF Inserting
<1>2. n.pc = "store" /\ n.row = r.row /\ n.at = a
  BY DEF Inserting
<1> HIDE DEF n
<1>3. WorkerOK(n)
  BY <1>2 DEF WorkerOK
<1>4. QED
  BY <1>1, <1>3 DEF n

LEMMA QueryReads ==
    ASSUME NEW r \in Querying, NEW j \in Nat \ {0}, NEW e \in Node,
           NEW S \in SUBSET Node, NEW C \in SUBSET Node
    PROVE  LET n == [r EXCEPT !.j = j, !.seen = S] IN
           /\ n \in Querying /\ n.j > 0
           /\ [n EXCEPT !.cur = e] \in Querying /\ [n EXCEPT !.cur = e].j > 0
           /\ [n EXCEPT !.cand = C] \in Querying /\ [n EXCEPT !.cand = C].j > 0
<1> DEFINE n == [r EXCEPT !.j = j, !.seen = S]
<1>1. n \in Querying /\ n.j = j
  BY DEF Querying
<1> HIDE DEF n
<1>2. [n EXCEPT !.cur = e] \in Querying /\ [n EXCEPT !.cur = e].j = j
  BY <1>1 DEF Querying
<1>3. [n EXCEPT !.cand = C] \in Querying /\ [n EXCEPT !.cand = C].j = j
  BY <1>1 DEF Querying
<1>4. QED
  BY <1>1, <1>2, <1>3 DEF n

LEMMA InsertedIsTyped ==
    ASSUME Typed, NEW p \in Proc, w[p].row \in Node
    PROVE  Inserted(p) \in Inserting /\ WorkerOK(Inserted(p))
<1>1. w[p].hi \in 0 .. N /\ w[p].row \in 0 .. CapN
  BY DEF Typed, SharedOK, Inserting
<1>2. w[p].row + 1 \in 0 .. CapN
  BY <1>1 DEF Node
<1>3. ASSUME NEW r \in Inserting, NEW x \in {"idle", "publish"},
             NEW y \in 0 .. CapN, NEW z \in 0 .. N,
             x = "idle" \/ y \in Node
      PROVE  /\ [r EXCEPT !.pc = x, !.row = y, !.hi = z] \in Inserting
             /\ WorkerOK([r EXCEPT !.pc = x, !.row = y, !.hi = z])
  BY <1>3 DEF Inserting, WorkerOK
<1>4. CASE p = Inserter
  BY <1>1, <1>2, <1>3, <1>4, IdleIsTyped DEF Inserted
<1>5. CASE p # Inserter
  BY <1>1, <1>2, <1>3, <1>5, IdleIsTyped DEF Inserted
<1>6. QED
  BY <1>4, <1>5

LEMMA DescentIsTyped ==
    ASSUME Typed, NEW p \in Proc, NEW e \in Node, NEW t \in Layer,
           w[p].row \in Node
    PROVE  Descent(p, e, t) \in Inserting /\ WorkerOK(Descent(p, e, t))
<1>1. w[p] \in Inserting
  BY DEF Typed
<1>2. CASE t > Level[w[p].row]
  BY <1>1, <1>2 DEF Descent, Inserting, WorkerOK
<1>3. CASE ~(t > Level[w[p].row])
  BY <1>1, <1>3 DEF Descent, Inserting, WorkerOK
<1>4. QED
  BY <1>2, <1>3

-----------------------------------------------------------------------------
(* The type invariant.                                                     *)

\* A thread's record is replaced by a good one.
LEMMA WorkerStep ==
    ASSUME TypeInv, NEW p \in Proc, NEW r \in Inserting, WorkerOK(r),
           w' = [w EXCEPT ![p] = r], SharedOK', UNCHANGED q
    PROVE  TypeInv'
<1>1. w \in [Proc -> Inserting] /\ WorkersOK
  BY DEF TypeInv, Typed, SharedOK
<1>2. w' \in [Proc -> Inserting]
  BY <1>1
<1>3. ASSUME NEW o \in Proc PROVE WorkerOK(w'[o])
  <2>1. CASE o = p
    BY <1>1, <2>1
  <2>2. CASE o # p
    BY <1>1, <2>2 DEF WorkersOK
  <2>3. QED
    BY <2>1, <2>2
<1>4. WorkersOK'
  BY <1>3 DEF WorkersOK, WorkerOK
<1>5. QED
  BY <1>2, <1>4 DEF TypeInv, Typed, SharedOK, QueriesOK

\* A query's record is replaced by a good one.
LEMMA QueryStep ==
    ASSUME TypeInv, NEW s \in Searchers, NEW r \in Querying,
           r.pc = "slot" => r.j > 0, q' = [q EXCEPT ![s] = r],
           UNCHANGED <<phase, next, graph, entry, top, epLock, lock, count,
                       repairs, w>>
    PROVE  TypeInv'
<1>1. q \in [Searchers -> Querying] /\ QueriesOK
  BY DEF TypeInv, Typed, SharedOK
<1>2. q' \in [Searchers -> Querying]
  BY <1>1
<1>3. QueriesOK'
  BY <1>1 DEF QueriesOK
<1>4. QED
  BY <1>2, <1>3 DEF TypeInv, Typed, SharedOK, WorkersOK, WorkerOK, graph

LEMMA InitTypeInv == Init => TypeInv
<1>1. 0 \in Node /\ 0 \in Layer
  BY DEF Node, Layer
<1>2. NoQuery \in Querying
  BY <1>1 DEF NoQuery, Querying
<1>3. Idle.pc = "idle" /\ NoQuery.pc = "idle"
  BY DEF Idle, NoQuery
<1>4. QED
  BY <1>1, <1>2, <1>3, IdleIsTyped
     DEF Init, TypeInv, Typed, SharedOK, WorkersOK, WorkerOK, QueriesOK, Free, None

LEMMA NextTypeInv == TypeInv /\ [Next]_vars => TypeInv'
<1> SUFFICES ASSUME TypeInv, [Next]_vars PROVE TypeInv'
  OBVIOUS
<1>0. Typed /\ SharedOK /\ WorkersOK /\ QueriesOK
  BY DEF TypeInv, Typed, SharedOK
<1>1. CASE InsertRow0
  <2>1. N # 0 => 0 \in Node /\ Level[0] \in Layer
    BY DEF Node
  <2>2. SharedOK'
    BY <1>0, <1>1, <2>1 DEF InsertRow0, SharedOK, graph
  <2>3. QED
    BY <1>0, <1>1, <2>2
       DEF InsertRow0, SharedOK, TypeInv, Typed, WorkersOK, WorkerOK, QueriesOK
<1>2. CASE EndBuild
  <2>1. SharedOK'
    BY <1>0, <1>2 DEF EndBuild, SharedOK, graph
  <2>2. QED
    BY <1>0, <1>2, <2>1
       DEF EndBuild, SharedOK, TypeInv, Typed, WorkersOK, WorkerOK, QueriesOK
<1>3. CASE Repair
  <2>1. CASE \E u, v \in 0 .. N - 1 :
                u # v /\ \E new \in Kept(u, v) : AddKeep(u, new)
    <3>0. PICK u \in Node, v \in Node : \E new \in Kept(u, v) : AddKeep(u, new)
      BY <2>1 DEF Node
    <3>1. PICK new \in Kept(u, v) : AddKeep(u, new)
      BY <3>0
    <3>2. cnt[u][0] \in 0 .. M0 /\ slots[u][0] \in [1 .. M0 -> Node]
          /\ 0 \in Layer /\ Ids(u, 0) \subseteq Node
      <4>1. 0 \in Layer
        BY DEF Layer
      <4>2. QED
        BY <1>0, <4>1, IdsAreNodes DEF SharedOK
    <3>3. new \in Lists(Node, M0)
      <4>1. CASE cnt[u][0] < M0
        <5>1. new = Appended(u, 0, v)
          BY <4>1 DEF Kept
        <5>2. new \in [1 .. cnt[u][0] + 1 -> Node] /\ cnt[u][0] + 1 \in 1 .. M0
          BY <3>2, <4>1, <5>1 DEF Appended
        <5>3. QED
          BY <5>2 DEF Lists
      <4>2. CASE ~(cnt[u][0] < M0)
        <5>1. new \in Lists(Ids(u, 0) \cup {v}, M0)
          BY <4>2 DEF Kept
        <5>2. QED
          BY <3>2, <5>1, ListsMonotone
      <4>3. QED
        BY <4>1, <4>2
    <3>4. Len(new) \in 0 .. M0 /\ \A j \in 1 .. Len(new) : new[j] \in Node
      BY <3>3, ListsFacts
    <3>5. slots' \in [Node -> [Layer -> [1 .. M0 -> Node]]]
      <4> DEFINE row == [j \in 1 .. M0 |->
                            IF j <= Len(new) THEN new[j] ELSE slots[u][0][j]]
      <4>1. row \in [1 .. M0 -> Node]
        BY <3>2, <3>4
      <4>2. slots' = [slots EXCEPT ![u][0] = row]
        BY <3>1 DEF AddKeep
      <4> HIDE DEF row
      <4>3. QED
        BY <1>0, <3>2, <4>1, <4>2 DEF SharedOK
    <3>6. cnt' \in [Node -> [Layer -> 0 .. M0]]
      BY <1>0, <3>1, <3>2, <3>4 DEF SharedOK, AddKeep
    <3>7. repairs' \in 0 .. MaxRepair /\ phase' \in {"start", "build", "repair", "serve"}
      BY <1>0, <1>3 DEF Repair, SharedOK
    <3>8. SharedOK'
      BY <1>0, <1>3, <3>5, <3>6, <3>7 DEF Repair, SharedOK
    <3>9. QED
      BY <1>0, <1>3, <3>8
         DEF Repair, SharedOK, TypeInv, Typed, WorkersOK, WorkerOK, QueriesOK
  <2>2. CASE phase' = "serve" /\ UNCHANGED <<graph, repairs>>
    BY <1>0, <1>3, <2>2
       DEF Repair, graph, TypeInv, Typed, SharedOK, WorkersOK, WorkerOK, QueriesOK
  <2>3. QED
    BY <1>3, <2>1, <2>2 DEF Repair
<1>4. CASE InserterStep
  <2> DEFINE p == Inserter
  <2>0. p \in Proc /\ w[p] \in Inserting /\ WorkerOK(w[p])
    BY <1>0 DEF Proc, Typed, WorkersOK
  <2>w. w \in [Proc -> Inserting]
    BY <1>0 DEF Typed
  <2>1. CASE InsertNext
    <3> DEFINE r == [w[p] EXCEPT !.pc = "entry", !.row = count]
    <3>1. count \in Node /\ count \in 0 .. CapN
      BY <1>0, <2>1 DEF InsertNext, Typed, SharedOK, Node
    <3>2. r \in Inserting /\ WorkerOK(r)
      BY <2>0, <3>1 DEF Inserting, WorkerOK
    <3>3. w' = [w EXCEPT ![p] = r]
      BY <2>w, <2>1 DEF InsertNext
    <3>4. SharedOK' /\ UNCHANGED q
      BY <1>0, <2>1 DEF InsertNext, SharedOK, graph
    <3> HIDE DEF r
    <3>5. QED
      BY <2>0, <3>2, <3>3, <3>4, WorkerStep
  <2>2. CASE Publish
    <3>1. w[p].row + 1 \in 0 .. CapN
      BY <2>0, <2>2 DEF Publish, WorkerOK, Node
    <3>2. SharedOK' /\ UNCHANGED q
      BY <1>0, <2>2, <3>1 DEF Publish, SharedOK, graph
    <3>3. WorkerOK(Idle)
      BY DEF WorkerOK, Idle
    <3>4. w' = [w EXCEPT ![p] = Idle]
      BY <2>2 DEF Publish
    <3>5. QED
      BY <2>0, <3>2, <3>3, <3>4, IdleIsTyped, WorkerStep
  <2>3. QED
    BY <1>4, <2>1, <2>2 DEF InserterStep
<1>5. ASSUME NEW p \in Proc, InsertStep(p) PROVE TypeInv'
  <2>0. w[p] \in Inserting /\ WorkerOK(w[p])
    BY <1>0 DEF Typed, WorkersOK
  <2>w. w \in [Proc -> Inserting]
    BY <1>0 DEF Typed
  <2>1. CASE Claim(p)
    <3> DEFINE lo == IF next = 0 THEN 1 ELSE next * Chunk
               hi == MinOf(next * Chunk + Chunk, N)
               r == [w[p] EXCEPT !.row = lo, !.hi = hi]
    <3>1. next \in Nat /\ next * Chunk \in Nat /\ next * Chunk < N
      <4>1. next \in Nat /\ next * Chunk < N
        BY <1>0, <2>1 DEF Claim, SharedOK
      <4>2. ASSUME NEW a \in Nat, NEW b \in Nat PROVE a * b \in Nat
        OBVIOUS
      <4>3. QED
        BY <4>1, <4>2
    <3>2. lo \in 0 .. CapN /\ hi \in 0 .. N
      BY <3>1, MinFacts DEF MinOf
    <3>3. w[p].pc = "idle"
      BY <2>1 DEF Claim
    <3>4. w' = [w EXCEPT ![p] = r]
      BY <2>w, <2>1 DEF Claim
    <3>5. r \in Inserting /\ WorkerOK(r)
      <4>1. ASSUME NEW a \in 0 .. CapN, NEW b \in 0 .. N
            PROVE  /\ [w[p] EXCEPT !.row = a, !.hi = b] \in Inserting
                   /\ [w[p] EXCEPT !.row = a, !.hi = b].pc = "idle"
        BY <2>0, <3>3 DEF Inserting
      <4>2. QED
        BY <3>2, <4>1 DEF WorkerOK
    <3>6. next' = next + 1 /\ UNCHANGED <<phase, graph, entry, top, epLock,
                                          lock, count, repairs, q>>
      BY <2>1, Zenon DEF Claim
    <3>7. SharedOK' /\ UNCHANGED q
      BY <1>0, <3>6 DEF SharedOK, graph
    <3> HIDE DEF r
    <3>8. QED
      BY <3>4, <3>5, <3>7, WorkerStep
  <2>2. CASE NextRow(p)
    <3> DEFINE r == [w[p] EXCEPT !.pc = "entry"]
    <3>1. w[p].row \in Node
      BY <2>0, <2>2 DEF NextRow, Inserting, Node
    <3>2. w' = [w EXCEPT ![p] = r]
      BY <2>w, <2>2 DEF NextRow
    <3>3. r \in Inserting /\ WorkerOK(r)
      BY <2>0, <3>1 DEF Inserting, WorkerOK
    <3>4. SharedOK' /\ UNCHANGED q
      BY <1>0, <2>2 DEF NextRow, SharedOK, graph
    <3> HIDE DEF r
    <3>5. QED
      BY <3>2, <3>3, <3>4, WorkerStep
  <2>3. CASE ReadEntry(p)
    <3>1. w[p].row \in Node /\ Level[w[p].row] \in Layer
      BY <2>0, <2>3 DEF ReadEntry, WorkerOK
    <3>2. UNCHANGED q
      BY <2>3 DEF ReadEntry
    <3>3. CASE Level[w[p].row] > top
      <4> DEFINE r == [w[p] EXCEPT !.pc = "eplock"]
      <4>1. w' = [w EXCEPT ![p] = r]
        BY <2>w, <2>3, <3>3 DEF ReadEntry
      <4>2. r \in Inserting /\ WorkerOK(r)
        BY <2>0, <3>1 DEF Inserting, WorkerOK
      <4>3. SharedOK'
        BY <1>0, <2>3, <3>3 DEF ReadEntry, SharedOK, graph
      <4> HIDE DEF r
      <4>4. QED
        BY <3>2, <4>1, <4>2, <4>3, WorkerStep
    <3>4. CASE ~(Level[w[p].row] > top) /\ entry = None
      <4>1. w' = [w EXCEPT ![p] = Inserted(p)]
        BY <2>3, <3>4 DEF ReadEntry
      <4>2. SharedOK'
        BY <1>0, <2>3, <3>1, <3>4 DEF ReadEntry, SharedOK, graph
      <4>3. QED
        BY <1>0, <3>1, <3>2, <4>1, <4>2, InsertedIsTyped, WorkerStep
    <3>5. CASE ~(Level[w[p].row] > top) /\ entry # None
      <4>1. w' = [w EXCEPT ![p] = Descent(p, entry, top)]
        BY <2>3, <3>5 DEF ReadEntry
      <4>2. SharedOK'
        BY <1>0, <2>3, <3>5 DEF ReadEntry, SharedOK, graph
      <4>3. entry \in Node /\ top \in Layer
        BY <1>0, <3>5 DEF SharedOK
      <4>4. QED
        BY <1>0, <3>1, <3>2, <4>1, <4>2, <4>3, DescentIsTyped, WorkerStep
    <3>6. QED
      BY <3>3, <3>4, <3>5
  <2>4. CASE TakeEpLock(p)
    <3>1. w[p].row \in Node /\ Level[w[p].row] \in Layer
      BY <2>0, <2>4 DEF TakeEpLock, WorkerOK
    <3>2. UNCHANGED q
      BY <2>4 DEF TakeEpLock
    <3>3. CASE entry = None
      <4>1. w' = [w EXCEPT ![p] = Inserted(p)]
        BY <2>4, <3>3 DEF TakeEpLock
      <4>2. SharedOK'
        BY <1>0, <2>4, <3>1, <3>3 DEF TakeEpLock, SharedOK, graph
      <4>3. QED
        BY <1>0, <3>1, <3>2, <4>1, <4>2, InsertedIsTyped, WorkerStep
    <3>4. CASE entry # None
      <4>1. w' = [w EXCEPT ![p] = Descent(p, entry, top)]
        BY <2>4, <3>4 DEF TakeEpLock
      <4>2. SharedOK'
        BY <1>0, <2>4, <3>4 DEF TakeEpLock, SharedOK, graph
      <4>3. entry \in Node /\ top \in Layer
        BY <1>0, <3>4 DEF SharedOK
      <4>4. QED
        BY <1>0, <3>1, <3>2, <4>1, <4>2, <4>3, DescentIsTyped, WorkerStep
    <3>5. QED
      BY <3>3, <3>4
  <2>5. CASE Greedy(p)
    <3> DEFINE c == w[p].cur
               l == w[p].lay
               new == Ids(c, l) \ w[p].seen
               down == IF l - 1 > Level[w[p].row] THEN "greedy" ELSE "layer"
    <3>1. c \in Node /\ l \in Layer /\ w[p].seen \subseteq Node
          /\ w[p].row \in Node /\ Level[w[p].row] \in Layer
          /\ l > Level[w[p].row]
      BY <2>0, <2>5 DEF Greedy, Inserting, WorkerOK
    <3>2. new \subseteq Node
      BY <1>0, <3>1, IdsAreNodes
    <3>3. SharedOK' /\ UNCHANGED q
      BY <1>0, <2>5 DEF Greedy, SharedOK, graph
    <3>4. ASSUME NEW e \in new,
                 w' = [w EXCEPT ![p].cur = e, ![p].seen = w[p].seen \cup new]
          PROVE  TypeInv'
      <4> DEFINE r == [w[p] EXCEPT !.cur = e, !.seen = w[p].seen \cup new]
      <4> HIDE DEF new
      <4>1. r \in Inserting /\ WorkerOK(r)
        BY <2>0, <3>1, <3>2, <3>4 DEF Inserting, WorkerOK
      <4>2. w' = [w EXCEPT ![p] = r]
        BY <2>w, <3>4
      <4> HIDE DEF r
      <4>3. QED
        BY <3>3, <4>1, <4>2, WorkerStep
    <3>5. CASE w' = [w EXCEPT ![p].pc = down, ![p].lay = l - 1,
                              ![p].seen = {c}, ![p].cand = {c}]
      <4> DEFINE r == [w[p] EXCEPT !.pc = down, !.lay = l - 1,
                                   !.seen = {c}, !.cand = {c}]
      <4>1. l - 1 \in Layer
        BY <3>1 DEF Layer
      <4>2. r \in Inserting /\ WorkerOK(r)
        BY <2>0, <3>1, <4>1 DEF Inserting, WorkerOK
      <4>3. w' = [w EXCEPT ![p] = r]
        BY <2>w, <3>5
      <4> HIDE DEF r
      <4>4. QED
        BY <3>3, <4>2, <4>3, WorkerStep
    <3>6. QED
      BY <2>5, <3>4, <3>5 DEF Greedy
  <2>6. CASE Expand(p)
    <3>1. PICK c \in w[p].cand : \E push \in
              Pushed(Ids(c, w[p].lay) \ w[p].seen, w[p].seen, EfC) :
                w' = [w EXCEPT
                       ![p].seen = w[p].seen \cup (Ids(c, w[p].lay) \ w[p].seen),
                       ![p].cand = (w[p].cand \ {c}) \cup push]
      BY <2>6 DEF Expand
    <3> DEFINE new == Ids(c, w[p].lay) \ w[p].seen
    <3>2. PICK push \in Pushed(new, w[p].seen, EfC) :
                w' = [w EXCEPT ![p].seen = w[p].seen \cup new,
                               ![p].cand = (w[p].cand \ {c}) \cup push]
      BY <3>1
    <3>3. c \in Node /\ w[p].lay \in Layer /\ w[p].seen \subseteq Node
          /\ w[p].cand \subseteq Node /\ w[p].row \in Node
          /\ w[p].pc = "layer"
      BY <2>0, <2>6, <3>1 DEF Expand, Inserting, WorkerOK
    <3>4. new \subseteq Node /\ push \subseteq Node
      BY <1>0, <3>2, <3>3, IdsAreNodes DEF Pushed
    <3> HIDE DEF new
    <3> DEFINE r == [w[p] EXCEPT !.seen = w[p].seen \cup new,
                                 !.cand = (w[p].cand \ {c}) \cup push]
    <3>5. r \in Inserting /\ WorkerOK(r)
      BY <2>0, <3>3, <3>4 DEF Inserting, WorkerOK
    <3>6. w' = [w EXCEPT ![p] = r]
      BY <2>w, <3>2
    <3>7. SharedOK' /\ UNCHANGED q
      BY <1>0, <2>6 DEF Expand, SharedOK, graph
    <3> HIDE DEF r
    <3>8. QED
      BY <3>5, <3>6, <3>7, WorkerStep
  <2>7. CASE SelectLayer(p)
    <3> DEFINE l == w[p].lay
    <3>1. PICK out \in Selections(w[p].seen, MinOf(M, EfC)) :
            w' = [w EXCEPT ![p] = Selected(p, out)]
      BY <2>7 DEF SelectLayer
    <3>2. w[p].seen \subseteq Node /\ l \in Layer /\ w[p].row \in Node
          /\ w[p].sel \in [Layer -> ListOf(M)]
      BY <2>0, <2>7 DEF SelectLayer, Inserting, WorkerOK
    <3>3. out \in Lists(Node, M)
      <4>1. MinOf(M, EfC) \in Nat /\ MinOf(M, EfC) <= M
        BY MinFacts
      <4>2. out \in Lists(w[p].seen, MinOf(M, EfC))
        BY <3>1, SelectionsAreLists
      <4>3. QED
        BY <3>2, <4>1, <4>2, ListsMonotone
    <3>4. out[1] \in Node
      BY <3>3, ListsFacts
    <3>5. Selected(p, out) \in Inserting /\ WorkerOK(Selected(p, out))
      <4>1. [w[p].sel EXCEPT ![l] = out] \in [Layer -> ListOf(M)]
        BY <3>2, <3>3, ListOfHas
      <4>2. ASSUME NEW r \in Inserting, NEW sl \in [Layer -> ListOf(M)],
                   NEW c \in Node, NEW k \in Layer, NEW S \in SUBSET Node,
                   NEW pc \in {"layer", "own"}, r.row \in Node
            PROVE  LET n == [r EXCEPT !.sel = sl, !.cur = c, !.lay = k,
                                      !.seen = S, !.cand = S, !.pc = pc]
                   IN  n \in Inserting /\ WorkerOK(n)
        BY <4>2 DEF Inserting, WorkerOK
      <4>3. {out[1]} \in SUBSET Node
        BY <3>4
      <4>4. CASE l > 0
        <5>1. l - 1 \in Layer
          BY <3>2, <4>4 DEF Layer
        <5>2. QED
          BY <2>0, <3>2, <3>4, <4>1, <4>2, <4>3, <4>4, <5>1 DEF Selected
      <4>5. CASE ~(l > 0)
        <5>1. 0 \in Layer
          BY DEF Layer
        <5>2. QED
          BY <2>0, <3>2, <3>4, <4>1, <4>2, <4>5, <5>1 DEF Selected
      <4>6. QED
        BY <4>4, <4>5
    <3>6. SharedOK' /\ UNCHANGED q
      BY <1>0, <2>7 DEF SelectLayer, SharedOK, graph
    <3>7. QED
      BY <3>1, <3>5, <3>6, WorkerStep
  <2>8. CASE WriteOwn(p)
    <3> DEFINE r == [w[p] EXCEPT !.pc = "store", !.dst = w[p].row, !.pos = 0,
                                 !.new = w[p].sel[Lay(p)], !.at = 1]
    <3>1. w[p].row \in Node /\ Lay(p) \in Layer
      BY <2>0, <2>8 DEF WriteOwn, WorkerOK, Lay, WriteLayer, Inserting
    <3>2. w[p].sel[Lay(p)] \in ListOf(M0)
      BY <2>0, <3>1, ListOfMonotone DEF Inserting
    <3>3. r \in Inserting /\ WorkerOK(r)
      <4>1. 0 \in Nat /\ 1 \in Nat \ {0}
        OBVIOUS
      <4>2. QED
        BY <2>0, <3>1, <3>2, <4>1, WorkerStoresOwn, Zenon
    <3>4. w' = [w EXCEPT ![p] = r]
      BY <2>w, <2>8 DEF WriteOwn
    <3>5. SharedOK' /\ UNCHANGED q
      BY <1>0, <2>8, <3>1 DEF WriteOwn, SharedOK, graph
    <3> HIDE DEF r
    <3>6. QED
      BY <3>3, <3>4, <3>5, WorkerStep
  <2>9. CASE Connect(p)
    <3> DEFINE i == w[p].row
               l == Lay(p)
               e == w[p].sel[l][w[p].pos]
    <3>1. i \in Node /\ l \in Layer /\ w[p].pos \in Nat
          /\ w[p].sel[l] \in ListOf(M)
      BY <2>0, <2>9 DEF Connect, WorkerOK, Lay, WriteLayer, Inserting
    <3>2. e \in Node
      <4>1. w[p].pos > 0 /\ w[p].pos <= Len(w[p].sel[l])
        BY <2>0, <2>9 DEF Connect, WorkerOK
      <4>2. w[p].pos \in 1 .. Len(w[p].sel[l])
        BY <3>1, <4>1, ListOfFacts
      <4>3. QED
        BY <3>1, <4>2, ListOfFacts, SMTT(30)
    <3> HIDE DEF l, e
    <3>3. cnt[e][l] \in 0 .. M0 /\ slots[e][l] \in [1 .. M0 -> Node]
          /\ Ids(e, l) \subseteq Node /\ CapOf(l) \in Nat /\ CapOf(l) <= M0
      <4>1. cnt[e][l] \in 0 .. M0 /\ slots[e][l] \in [1 .. M0 -> Node]
        BY <1>0, <3>1, <3>2 DEF SharedOK, l
      <4>2. Ids(e, l) \subseteq Node
        BY <1>0, <3>1, <3>2, IdsAreNodes DEF l
      <4>3. CapOf(l) \in Nat /\ CapOf(l) <= M0
        BY DEF CapOf
      <4>4. QED
        BY <4>1, <4>2, <4>3
    <3>4. CASE w' = [w EXCEPT ![p].pos = w[p].pos + 1] /\ UNCHANGED lock
      <4> DEFINE r == [w[p] EXCEPT !.pos = w[p].pos + 1]
      <4>1. r \in Inserting /\ WorkerOK(r)
        BY <2>0, <3>1, SMTT(30) DEF Inserting, WorkerOK
      <4>2. w' = [w EXCEPT ![p] = r]
        BY <2>w, <3>4
      <4>3. SharedOK' /\ UNCHANGED q
        BY <1>0, <2>9, <3>4 DEF Connect, SharedOK, graph
      <4> HIDE DEF r
      <4>4. QED
        BY <4>1, <4>2, <4>3, WorkerStep
    <3>5. ASSUME NEW list \in Lists(Node, M0), NEW from \in Nat \ {0},
                 lock' = [lock EXCEPT ![e] = {p}],
                 w' = [w EXCEPT ![p].pc = "store", ![p].dst = e,
                                ![p].new = list, ![p].at = from]
          PROVE  TypeInv'
      <4> DEFINE r == [w[p] EXCEPT !.pc = "store", !.dst = e,
                                   !.new = list, !.at = from]
      <4>1. r \in Inserting /\ WorkerOK(r)
        <5>1. list \in ListOf(M0)
          BY <3>5, ListOfHas
        <5>2. QED
          BY <2>0, <3>1, <3>2, <3>5, <5>1, WorkerStores, Zenon
      <4>2. w' = [w EXCEPT ![p] = r]
        BY <2>w, <3>5
      <4>3. UNCHANGED <<phase, next, graph, entry, top, epLock, count,
                        repairs, q>>
        BY <2>9 DEF Connect
      <4>4. SharedOK'
        BY <1>0, <3>2, <3>5, <4>3 DEF SharedOK, graph
      <4> HIDE DEF r
      <4>5. QED
        BY <4>1, <4>2, <4>3, <4>4, WorkerStep
    <3>6. ASSUME cnt[e][l] < CapOf(l)
          PROVE  Appended(e, l, i) \in Lists(Node, M0)
                 /\ cnt[e][l] + 1 \in Nat \ {0}
      <4>1. Appended(e, l, i) \in [1 .. cnt[e][l] + 1 -> Node]
            /\ cnt[e][l] + 1 \in 1 .. M0
        BY <3>1, <3>3, <3>6 DEF Appended
      <4>2. QED
        BY <4>1 DEF Lists
    <3>7. Selections(Ids(e, l) \cup {i}, CapOf(l)) \subseteq Lists(Node, M0)
      BY <3>1, <3>3, SelectionsAreLists, ListsMonotone
    <3> DEFINE Rewrites(list, from) ==
                 /\ lock' = [lock EXCEPT ![e] = {p}]
                 /\ w' = [w EXCEPT ![p].pc = "store", ![p].dst = e,
                                   ![p].new = list, ![p].at = from]
    <3>8. \/ w' = [w EXCEPT ![p].pos = w[p].pos + 1] /\ UNCHANGED lock
          \/ cnt[e][l] < CapOf(l) /\ Rewrites(Appended(e, l, i), cnt[e][l] + 1)
          \/ \E out \in Selections(Ids(e, l) \cup {i}, CapOf(l)) :
                Rewrites(out, 1)
      BY <2>9, Zenon DEF Connect, l, e
    <3>9. CASE cnt[e][l] < CapOf(l) /\ Rewrites(Appended(e, l, i), cnt[e][l] + 1)
      BY <3>5, <3>6, <3>9
    <3>10. ASSUME NEW out \in Selections(Ids(e, l) \cup {i}, CapOf(l)),
                  Rewrites(out, 1)
           PROVE  TypeInv'
      <4>1. out \in Lists(Node, M0) /\ 1 \in Nat \ {0}
        BY <3>7
      <4>2. QED
        BY <3>5, <3>10, <4>1
    <3>11. QED
      BY <3>4, <3>8, <3>9, <3>10
  <2>10. CASE StoreSlot(p)
    <3> DEFINE r == [w[p] EXCEPT !.at = w[p].at + 1]
               id == w[p].new[w[p].at]
    <3>1. w[p].dst \in Node /\ Lay(p) \in Layer /\ w[p].at \in Nat \ {0}
          /\ w[p].new \in ListOf(M0)
      BY <2>0, <2>10 DEF StoreSlot, WorkerOK, Lay, WriteLayer, Inserting
    <3>2. id \in Node
      <4>1. w[p].at \in 1 .. Len(w[p].new)
        BY <2>10, <3>1, ListOfFacts DEF StoreSlot
      <4>2. QED
        BY <3>1, <4>1, ListOfFacts
    <3>3. r \in Inserting /\ WorkerOK(r)
      BY <2>0, <3>1 DEF Inserting, WorkerOK
    <3>4. w' = [w EXCEPT ![p] = r]
      BY <2>w, <2>10 DEF StoreSlot
    <3>5. slots' = [slots EXCEPT ![w[p].dst][Lay(p)][w[p].at] = id]
      BY <2>10 DEF StoreSlot
    <3>6. UNCHANGED <<phase, next, cnt, entry, top, epLock, lock, count,
                      repairs, q>>
      BY <2>10 DEF StoreSlot
    <3> HIDE DEF r, id
    <3>7. SharedOK'
      BY <1>0, <3>1, <3>2, <3>5, <3>6 DEF SharedOK
    <3>8. QED
      BY <3>3, <3>4, <3>6, <3>7, WorkerStep
  <2>11. CASE StoreCount(p)
    <3> DEFINE r == [w[p] EXCEPT !.pc = "link", !.pos = w[p].pos + 1,
                                 !.dst = 0, !.new = << >>, !.at = 0]
    <3>1. w[p].dst \in Node /\ Lay(p) \in Layer /\ w[p].pos \in Nat
          /\ w[p].row \in Node /\ 0 \in Node
          /\ w[p].new \in ListOf(M0)
      BY <2>0, <2>11, SMTT(30) DEF StoreCount, WorkerOK, Lay, WriteLayer, Inserting, Node
    <3>2. Len(w[p].new) \in 0 .. M0
      BY <3>1, ListOfFacts
    <3>3. r \in Inserting /\ WorkerOK(r)
      <4>1. << >> \in ListOf(M0)
        BY ListOfHas
      <4>2. ASSUME NEW list \in ListOf(M0), NEW ps \in Nat, ps > 0
            PROVE  LET n == [w[p] EXCEPT !.pc = "link", !.pos = ps,
                                         !.dst = 0, !.new = list, !.at = 0]
                   IN  n \in Inserting /\ WorkerOK(n)
        <5> DEFINE n == [w[p] EXCEPT !.pc = "link", !.pos = ps,
                                     !.dst = 0, !.new = list, !.at = 0]
        <5>1. n \in Inserting
          BY <2>0, <3>1 DEF Inserting
        <5>2. n.pc = "link" /\ n.row = w[p].row /\ n.pos = ps
          BY <2>0 DEF Inserting
        <5> HIDE DEF n
        <5>3. WorkerOK(n)
          BY <3>1, <4>2, <5>2 DEF WorkerOK
        <5>4. QED
          BY <5>1, <5>3 DEF n
      <4>3. w[p].pos + 1 \in Nat /\ w[p].pos + 1 > 0
        BY <3>1
      <4>4. QED
        BY <4>1, <4>2, <4>3
    <3>4. w' = [w EXCEPT ![p] = r]
      BY <2>w, <2>11 DEF StoreCount
    <3>5. UNCHANGED <<phase, next, slots, entry, top, epLock, count, repairs,
                      q>>
      BY <2>11 DEF StoreCount
    <3>6. cnt' \in [Node -> [Layer -> 0 .. M0]]
      BY <1>0, <2>11, <3>1, <3>2 DEF StoreCount, SharedOK
    <3>7. lock' \in [Node -> SUBSET Proc]
      BY <1>0, <2>11, <3>1 DEF StoreCount, SharedOK, Free
    <3>8. SharedOK'
      BY <1>0, <3>5, <3>6, <3>7 DEF SharedOK
    <3> HIDE DEF r
    <3>9. QED
      BY <3>3, <3>4, <3>5, <3>8, WorkerStep
  <2>12. CASE EndLayer(p)
    <3>1. w[p].row \in Node /\ w[p].k \in Layer /\ Level[w[p].row] \in Layer
          /\ w[p].top \in Layer
      BY <2>0, <2>12 DEF EndLayer, WorkerOK, Inserting
    <3>2. UNCHANGED <<phase, next, graph, lock, count, repairs, q>>
      BY <2>12 DEF EndLayer
    <3>3. CASE w[p].k < Lmax(p)
      <4> DEFINE r == [w[p] EXCEPT !.pc = "own", !.k = w[p].k + 1]
      <4>1. w[p].k + 1 \in Layer
        BY <3>1, <3>3, MinFacts DEF Lmax, MinOf, Layer
      <4>2. r \in Inserting /\ WorkerOK(r)
        BY <2>0, <3>1, <4>1 DEF Inserting, WorkerOK
      <4>3. w' = [w EXCEPT ![p] = r] /\ UNCHANGED <<entry, top, epLock>>
        BY <2>w, <2>12, <3>3 DEF EndLayer
      <4>4. SharedOK'
        BY <1>0, <3>2, <4>3 DEF SharedOK, graph
      <4> HIDE DEF r
      <4>5. QED
        BY <3>2, <4>2, <4>3, <4>4, WorkerStep
    <3>4. CASE ~(w[p].k < Lmax(p))
      <4>1. w' = [w EXCEPT ![p] = Inserted(p)] /\ epLock' = epLock \ {p}
        BY <2>12, <3>4 DEF EndLayer
      <4>2. entry' \in Node \cup {None} /\ top' \in Layer
        BY <1>0, <2>12, <3>1, <3>4 DEF EndLayer, SharedOK
      <4>3. SharedOK'
        BY <1>0, <3>2, <4>1, <4>2 DEF SharedOK, graph
      <4>4. QED
        BY <1>0, <3>1, <3>2, <4>1, <4>3, InsertedIsTyped, WorkerStep
    <3>5. QED
      BY <3>3, <3>4
  <2>13. QED
    BY <1>5, <2>1, <2>2, <2>3, <2>4, <2>5, <2>6, <2>7, <2>8, <2>9, <2>10,
       <2>11, <2>12 DEF InsertStep
<1>6. ASSUME NEW s \in Searchers, Query(s) PROVE TypeInv'
  <2>0. q[s] \in Querying /\ (q[s].pc = "slot" => q[s].j > 0)
    BY <1>0 DEF Typed, QueriesOK
  <2>w. q \in [Searchers -> Querying]
    BY <1>0 DEF Typed
  <2>1. CASE StartQuery(s)
    <3> DEFINE r == [NoQuery EXCEPT
                       !.pc = "list", !.lay = top, !.cur = entry,
                       !.len = count, !.seen = {entry}, !.cand = {entry}]
    <3>1. entry \in Node /\ top \in Layer /\ count \in 0 .. CapN /\ 0 \in Node
      BY <1>0, <2>1 DEF StartQuery, SharedOK, Node
    <3>2. r \in Querying /\ r.pc = "list"
      <4>1. ASSUME NEW e \in Node, NEW t \in Layer, NEW c \in 0 .. CapN,
                   NEW S \in SUBSET Node
            PROVE  LET n == [NoQuery EXCEPT !.pc = "list", !.lay = t, !.cur = e,
                                !.len = c, !.seen = S, !.cand = S]
                   IN  n \in Querying /\ n.pc = "list"
        <5>1. 0 \in 0 .. M0 /\ {} \in SUBSET Node /\ 0 \in Layer
          BY DEF Layer
        <5>2. QED
          BY <3>1, <5>1 DEF NoQuery, Querying
      <4>2. {entry} \in SUBSET Node
        BY <3>1
      <4>3. QED
        BY <3>1, <4>1, <4>2
    <3>3. q' = [q EXCEPT ![s] = r]
      BY <2>1 DEF StartQuery
    <3> HIDE DEF r
    <3>4. QED
      BY <2>1, <3>2, <3>3, QueryStep DEF StartQuery
  <2>2. CASE LoadCount(s)
    <3> DEFINE R(c) == [q[s] EXCEPT !.pc = "slot", !.node = c,
                              !.n = cnt[c][q[s].lay], !.j = 1,
                              !.cand = q[s].cand \ {c}]
    <3>1. PICK c \in ToRead(s) : q' = [q EXCEPT ![s] = R(c)]
      <4>1. PICK c \in ToRead(s) :
              q' = [q EXCEPT ![s].pc = "slot", ![s].node = c,
                             ![s].n = cnt[c][q[s].lay], ![s].j = 1,
                             ![s].cand = q[s].cand \ {c}]
        BY <2>2, Zenon DEF LoadCount
      <4>2. q' = [q EXCEPT ![s] = R(c)]
        BY <2>w, <4>1
      <4>3. QED
        BY <4>2
    <3>2. c \in Node /\ q[s].lay \in Layer /\ q[s].cand \subseteq Node
      BY <2>0, <3>1 DEF ToRead, Querying
    <3>3. cnt[c][q[s].lay] \in 0 .. M0
      BY <1>0, <3>2 DEF SharedOK
    <3>4. R(c) \in Querying /\ R(c).j = 1
      BY <2>0, <3>2, <3>3 DEF Querying
    <3>5. UNCHANGED <<phase, next, graph, entry, top, epLock, lock, count,
                      repairs, w>>
      BY <2>2 DEF LoadCount
    <3> HIDE DEF R
    <3>6. R(c).pc = "slot" => R(c).j > 0
      BY <3>4
    <3>7. QED
      BY <3>1, <3>4, <3>5, <3>6, QueryStep
  <2>3. CASE LoadSlot(s)
    <3> DEFINE e == slots[q[s].node][q[s].lay][q[s].j]
               read == [q[s] EXCEPT !.j = q[s].j + 1,
                                    !.seen = q[s].seen \cup {e}]
    <3>1. q[s].node \in Node /\ q[s].lay \in Layer /\ q[s].j \in 1 .. M0
          /\ q[s].j + 1 \in Nat \ {0} /\ q[s].seen \subseteq Node
          /\ q[s].cand \subseteq Node
      BY <2>0, <2>3 DEF LoadSlot, Querying
    <3>2. e \in Node
      <4>1. slots[q[s].node][q[s].lay] \in [1 .. M0 -> Node]
        <5>1. slots \in [Node -> [Layer -> [1 .. M0 -> Node]]]
          BY <1>0 DEF SharedOK
        <5>2. QED
          BY <3>1, <5>1
      <4>2. QED
        BY <3>1, <4>1
    <3> HIDE DEF e
    <3>a. q[s].seen \cup {e} \in SUBSET Node /\ q[s].cand \cup {e} \in SUBSET Node
      BY <3>1, <3>2
    <3>3. read \in Querying /\ read.j > 0
      BY <2>0, <3>1, <3>2, <3>a, QueryReads, Zenon
    <3>4. [read EXCEPT !.cur = e] \in Querying /\ [read EXCEPT !.cur = e].j > 0
      BY <2>0, <3>1, <3>2, <3>a, QueryReads, Zenon
    <3>5. [read EXCEPT !.cand = q[s].cand \cup {e}] \in Querying
          /\ [read EXCEPT !.cand = q[s].cand \cup {e}].j > 0
      BY <2>0, <3>1, <3>2, <3>a, QueryReads, Zenon
    <3>6. \E r \in {read, [read EXCEPT !.cur = e],
                    [read EXCEPT !.cand = q[s].cand \cup {e}]} :
             q' = [q EXCEPT ![s] = r]
      BY <2>3 DEF LoadSlot, e
    <3>7. UNCHANGED <<phase, next, graph, entry, top, epLock, lock, count,
                      repairs, w>>
      BY <2>3 DEF LoadSlot
    <3> HIDE DEF read
    <3>8. QED
      BY <3>3, <3>4, <3>5, <3>6, <3>7, QueryStep
  <2>4. CASE EndList(s)
    <3> DEFINE c == q[s].cur
               back == [q[s] EXCEPT !.pc = "list", !.node = 0, !.n = 0, !.j = 0]
               down == [back EXCEPT !.lay = q[s].lay - 1, !.seen = {c},
                                    !.cand = {c}]
    <3>1. 0 \in Node /\ c \in Node /\ q[s].lay \in Layer
      BY <2>0 DEF Querying, Node
    <3>2. back \in Querying /\ back.pc = "list"
      <4>1. 0 \in 0 .. M0
        OBVIOUS
      <4>2. QED
        BY <2>0, <3>1, <4>1 DEF Querying
    <3>3. q[s].lay > 0 => down \in Querying /\ down.pc = "list"
      <4>1. q[s].lay > 0 => q[s].lay - 1 \in Layer
        BY <3>1 DEF Layer
      <4>2. ASSUME NEW r \in Querying, r.pc = "list", NEW t \in Layer,
                   NEW S \in SUBSET Node
            PROVE  LET n == [r EXCEPT !.lay = t, !.seen = S, !.cand = S]
                   IN  n \in Querying /\ n.pc = "list"
        BY <4>2 DEF Querying
      <4>3. {c} \in SUBSET Node
        BY <3>1
      <4> HIDE DEF back
      <4>4. QED
        BY <3>2, <4>1, <4>2, <4>3
    <3>4. \/ q[s].lay > 0 /\ q' = [q EXCEPT ![s] = down]
          \/ q' = [q EXCEPT ![s] = back]
      BY <2>4 DEF EndList
    <3>5. UNCHANGED <<phase, next, graph, entry, top, epLock, lock, count,
                      repairs, w>>
      BY <2>4 DEF EndList
    <3> HIDE DEF back, down
    <3>6. QED
      BY <3>2, <3>3, <3>4, <3>5, QueryStep
  <2>5. CASE Return(s)
    <3> DEFINE r == [q[s] EXCEPT !.pc = "idle", !.cur = 0, !.cand = {}]
    <3>1. r \in Querying /\ r.pc = "idle"
      <4>1. 0 \in Node
        BY DEF Node
      <4>2. QED
        BY <2>0, <4>1 DEF Querying
    <3>2. q' = [q EXCEPT ![s] = r]
      BY <2>w, <2>5 DEF Return
    <3> HIDE DEF r
    <3>3. QED
      BY <2>5, <3>1, <3>2, QueryStep DEF Return
  <2>6. QED
    BY <1>6, <2>1, <2>2, <2>3, <2>4, <2>5 DEF Query, SearchStep
<1>7. CASE UNCHANGED vars
  BY <1>0, <1>7
     DEF vars, graph, TypeInv, Typed, SharedOK, WorkersOK, WorkerOK, QueriesOK
<1>8. QED
  BY <1>1, <1>2, <1>3, <1>4, <1>5, <1>6, <1>7
     DEF Next, MainStep, Finished

-----------------------------------------------------------------------------
(* The locks of the nodes.                                                 *)

\* A step of thread p that is not about a list being written.
LEMMA LockFrame ==
    ASSUME TypeInv, OneLock, NEW p \in Proc, lock' = lock,
           \A x \in Proc \ {p} : w'[x] = w[x],
           w[p].pc # "store", w'[p].pc # "store"
    PROVE  OneLock'
<1>1. SUFFICES ASSUME NEW x \in Proc, NEW v \in Node
               PROVE  lock[v] = {x} <=> w'[x].pc = "store" /\ w'[x].dst = v
  BY DEF OneLock
<1>2. CASE x = p
  BY <1>2 DEF OneLock
<1>3. CASE x # p
  BY <1>3 DEF OneLock
<1>4. QED
  BY <1>2, <1>3

\* A thread that writes a list keeps its lock while it stores the slots.
LEMMA LockKept ==
    ASSUME TypeInv, OneLock, NEW p \in Proc, lock' = lock,
           \A x \in Proc \ {p} : w'[x] = w[x],
           w'[p].pc = w[p].pc, w'[p].dst = w[p].dst
    PROVE  OneLock'
<1>1. SUFFICES ASSUME NEW x \in Proc, NEW v \in Node
               PROVE  lock[v] = {x} <=> w'[x].pc = "store" /\ w'[x].dst = v
  BY DEF OneLock
<1>2. w'[x].pc = w[x].pc /\ w'[x].dst = w[x].dst
  BY <1>1
<1>3. QED
  BY <1>2 DEF OneLock

\* A thread that takes a free lock gets it alone.
LEMMA LockTaken ==
    ASSUME TypeInv, OneLock, NEW p \in Proc, NEW u \in Node,
           lock[u] = Free, lock' = [lock EXCEPT ![u] = {p}],
           \A x \in Proc \ {p} : w'[x] = w[x],
           w[p].pc # "store", w'[p].pc = "store", w'[p].dst = u
    PROVE  OneLock'
<1>1. SUFFICES ASSUME NEW x \in Proc, NEW v \in Node
               PROVE  lock'[v] = {x} <=> w'[x].pc = "store" /\ w'[x].dst = v
  BY DEF OneLock
<1>2. lock'[v] = IF v = u THEN {p} ELSE lock[v]
  BY DEF TypeInv, Typed, SharedOK
<1>3. CASE x = p
  BY <1>2, <1>3 DEF OneLock
<1>4. CASE x # p
  BY <1>2, <1>4 DEF OneLock, Free
<1>5. QED
  BY <1>3, <1>4

\* A thread that has stored the count gives its lock back.
LEMMA LockGiven ==
    ASSUME TypeInv, OneLock, NEW p \in Proc,
           w[p].pc = "store", w[p].dst \in Node,
           lock' = [lock EXCEPT ![w[p].dst] = Free],
           \A x \in Proc \ {p} : w'[x] = w[x],
           w'[p].pc # "store"
    PROVE  OneLock'
<1>1. SUFFICES ASSUME NEW x \in Proc, NEW v \in Node
               PROVE  lock'[v] = {x} <=> w'[x].pc = "store" /\ w'[x].dst = v
  BY DEF OneLock
<1>2. lock'[v] = IF v = w[p].dst THEN {} ELSE lock[v]
  BY DEF TypeInv, Typed, SharedOK, Free
<1>3. lock[w[p].dst] = {p}
  BY DEF OneLock
<1>4. CASE x = p
  BY <1>2, <1>4 DEF OneLock
<1>5. CASE x # p
  BY <1>2, <1>3, <1>5 DEF OneLock
<1>6. QED
  BY <1>4, <1>5

\* Only the thread that steps changes its record.
LEMMA OthersKeep ==
    ASSUME TypeInv, NEW p \in Proc, InsertStep(p)
    PROVE  \A x \in Proc \ {p} : w'[x] = w[x]
<1>1. w \in [Proc -> Inserting]
  BY DEF TypeInv, Typed
<1>2. CASE Claim(p) \/ NextRow(p)
  BY <1>1, <1>2 DEF Claim, NextRow
<1>3. CASE ReadEntry(p) \/ TakeEpLock(p)
  BY <1>1, <1>3 DEF ReadEntry, TakeEpLock
<1>4. CASE Greedy(p) \/ Expand(p)
  BY <1>1, <1>4 DEF Greedy, Expand
<1>5. CASE SelectLayer(p)
  BY <1>1, <1>5 DEF SelectLayer
<1>6. CASE WriteOwn(p) \/ Connect(p)
  BY <1>1, <1>6 DEF WriteOwn, Connect
<1>7. CASE StoreSlot(p) \/ StoreCount(p)
  BY <1>1, <1>7 DEF StoreSlot, StoreCount
<1>8. CASE EndLayer(p)
  <2>1. \E r : w' = [w EXCEPT ![p] = r]
    BY <1>8, Zenon DEF EndLayer
  <2>2. QED
    BY <1>1, <2>1
<1>9. QED
  BY <1>2, <1>3, <1>4, <1>5, <1>6, <1>7, <1>8 DEF InsertStep

\* The node whose lock a writing thread asks for is a node.
LEMMA LinkedNode ==
    ASSUME TypeInv, NEW p \in Proc, w[p].pc = "link",
           w[p].pos <= Len(w[p].sel[Lay(p)]), Lay(p) \in Layer
    PROVE  w[p].sel[Lay(p)][w[p].pos] \in Node
<1>1. w[p].sel[Lay(p)] \in ListOf(M)
  BY DEF TypeInv, Typed, Inserting
<1>2. w[p].pos \in 1 .. Len(w[p].sel[Lay(p)])
  <2>1. w[p].pos \in Nat /\ w[p].pos > 0
    BY DEF TypeInv, Typed, Inserting, WorkersOK, WorkerOK
  <2>2. Len(w[p].sel[Lay(p)]) \in Nat
    BY <1>1, ListOfFacts
  <2>3. QED
    BY <2>1, <2>2
<1>3. QED
  BY <1>1, <1>2, ListOfFacts

\* A step of a thread that neither writes a list nor starts to.
LEMMA NotWriting ==
    ASSUME TypeInv, NEW p \in Proc,
           \/ Claim(p) \/ NextRow(p) \/ ReadEntry(p) \/ TakeEpLock(p)
           \/ Greedy(p) \/ Expand(p) \/ SelectLayer(p) \/ EndLayer(p)
    PROVE  /\ lock' = lock /\ cnt' = cnt
           /\ w[p].pc # "store" /\ w'[p].pc # "store"
<1>1. w \in [Proc -> Inserting]
  BY DEF TypeInv, Typed
<1>2. w[p] \in Inserting
  BY <1>1
<1>3. CASE Claim(p) \/ NextRow(p) \/ Greedy(p) \/ Expand(p)
  <2>1. lock' = lock /\ cnt' = cnt /\ w[p].pc # "store"
    BY <1>3 DEF Claim, NextRow, Greedy, Expand, graph
  <2>2. w'[p].pc # "store"
    <3>1. CASE Claim(p)
      BY <1>1, <1>2, <3>1 DEF Claim, Inserting
    <3>2. CASE NextRow(p)
      BY <1>1, <1>2, <3>2 DEF NextRow, Inserting
    <3>3. CASE Greedy(p)
      <4>1. ASSUME NEW e, NEW S,
                   w' = [w EXCEPT ![p].cur = e, ![p].seen = S]
            PROVE  w'[p].pc = w[p].pc
        BY <1>1, <4>1 DEF Inserting
      <4>2. ASSUME NEW pc, NEW l, NEW S,
                   w' = [w EXCEPT ![p].pc = pc, ![p].lay = l, ![p].seen = S,
                                  ![p].cand = S]
            PROVE  w'[p].pc = pc
        BY <1>1, <4>2 DEF Inserting
      <4>3. w'[p].pc \in {w[p].pc, "greedy", "layer"}
        <5> DEFINE c == w[p].cur
                   l == w[p].lay
                   new == Ids(c, l) \ w[p].seen
                   down == IF l - 1 > Level[w[p].row] THEN "greedy"
                                                      ELSE "layer"
        <5>1. \/ \E e \in new :
                   w' = [w EXCEPT ![p].cur = e,
                                  ![p].seen = w[p].seen \cup new]
              \/ w' = [w EXCEPT ![p].pc = down, ![p].lay = l - 1,
                                ![p].seen = {c}, ![p].cand = {c}]
          BY <3>3, Zenon DEF Greedy
        <5>2. down \in {"greedy", "layer"}
          OBVIOUS
        <5> HIDE DEF new, down, c, l
        <5>3. QED
          BY <4>1, <4>2, <5>1, <5>2, Zenon
      <4>4. w[p].pc = "greedy"
        BY <3>3 DEF Greedy
      <4>5. QED
        BY <4>3, <4>4
    <3>4. CASE Expand(p)
      <4>1. w[p].pc = "layer"
        BY <3>4 DEF Expand
      <4>2. ASSUME NEW S, NEW C,
                   w' = [w EXCEPT ![p].seen = S, ![p].cand = C]
            PROVE  w'[p].pc = w[p].pc
        BY <1>1, <4>2 DEF Inserting
      <4>3. w'[p].pc = w[p].pc
        BY <3>4, <4>2, Zenon DEF Expand
      <4>4. QED
        BY <4>1, <4>3
    <3>5. QED
      BY <1>3, <3>1, <3>2, <3>3, <3>4
  <2>3. QED
    BY <2>1, <2>2, Zenon
<1>4. CASE ReadEntry(p) \/ TakeEpLock(p)
  <2>1. lock' = lock /\ cnt' = cnt /\ w[p].pc # "store"
    BY <1>4 DEF ReadEntry, TakeEpLock, graph
  <2>2. Inserted(p).pc # "store" /\ Descent(p, entry, top).pc # "store"
    BY <1>2 DEF Inserted, Idle, Descent, Inserting
  <2>3. \/ w' = [w EXCEPT ![p].pc = "eplock"]
        \/ w' = [w EXCEPT ![p] = Inserted(p)]
        \/ w' = [w EXCEPT ![p] = Descent(p, entry, top)]
    BY <1>4, Zenon DEF ReadEntry, TakeEpLock
  <2>4. w'[p].pc # "store"
    BY <1>1, <1>2, <2>2, <2>3 DEF Inserting
  <2>5. QED
    BY <2>1, <2>4
<1>5. CASE SelectLayer(p)
  <2>1. lock' = lock /\ cnt' = cnt /\ w[p].pc # "store"
    BY <1>5 DEF SelectLayer, graph
  <2>2. \A out : Selected(p, out).pc # "store"
    BY <1>2 DEF Selected, Inserting
  <2>3. w'[p].pc # "store"
    BY <1>1, <1>5, <2>2 DEF SelectLayer
  <2>4. QED
    BY <2>1, <2>3
<1>6. CASE EndLayer(p)
  <2>1. lock' = lock /\ cnt' = cnt /\ w[p].pc # "store"
    BY <1>6 DEF EndLayer, graph
  <2>2. Inserted(p).pc # "store"
    BY DEF Inserted, Idle
  <2>3. \/ w' = [w EXCEPT ![p].pc = "own", ![p].k = w[p].k + 1]
        \/ w' = [w EXCEPT ![p] = Inserted(p)]
    BY <1>6, Zenon DEF EndLayer
  <2>4. w'[p].pc # "store"
    BY <1>1, <1>2, <2>2, <2>3 DEF Inserting
  <2>5. QED
    BY <2>1, <2>4
<1>7. QED
  BY <1>3, <1>4, <1>5, <1>6

LEMMA InitOneLock == Init => OneLock
BY DEF Init, OneLock, Idle, Free

LEMMA NextOneLock == TypeInv /\ OneLock /\ [Next]_vars => OneLock'
<1> SUFFICES ASSUME TypeInv, OneLock, [Next]_vars
             PROVE  OneLock'
  OBVIOUS
<1>0. w \in [Proc -> Inserting]
  BY DEF TypeInv, Typed
<1>1. CASE UNCHANGED <<lock, w>>
  BY <1>1 DEF OneLock
<1>2. CASE InserterStep
  <2>1. /\ lock' = lock /\ \A x \in Proc \ {Inserter} : w'[x] = w[x]
        /\ w[Inserter].pc # "store" /\ w'[Inserter].pc # "store"
    <3>1. w[Inserter] \in Inserting
      BY <1>0 DEF Proc
    <3>2. CASE InsertNext
      BY <1>0, <3>1, <3>2 DEF InsertNext, Proc, Inserting
    <3>3. CASE Publish
      BY <1>0, <3>1, <3>3 DEF Publish, Idle, Proc
    <3>4. QED
      BY <1>2, <3>2, <3>3 DEF InserterStep
  <2>2. QED
    BY <2>1, LockFrame DEF Proc
<1>3. ASSUME NEW p \in Proc, InsertStep(p)
      PROVE  OneLock'
  <2>1. \A x \in Proc \ {p} : w'[x] = w[x]
    BY <1>3, OthersKeep
  <2>2. w[p] \in Inserting
    BY <1>0
  <2>3. CASE \/ Claim(p) \/ NextRow(p) \/ ReadEntry(p) \/ TakeEpLock(p)
             \/ Greedy(p) \/ Expand(p) \/ SelectLayer(p) \/ EndLayer(p)
    BY <2>1, <2>3, NotWriting, LockFrame
  <2>4. CASE WriteOwn(p)
    <3>1. w[p].row \in Node /\ w[p].pc # "store"
      BY <2>4 DEF WriteOwn, TypeInv, WorkersOK, WorkerOK
    <3>2. w'[p].pc = "store" /\ w'[p].dst = w[p].row
      BY <1>0, <2>2, <2>4 DEF WriteOwn, Inserting
    <3>3. lock[w[p].row] = Free /\ lock' = [lock EXCEPT ![w[p].row] = {p}]
      BY <2>4 DEF WriteOwn
    <3>4. QED
      BY <2>1, <3>1, <3>2, <3>3, LockTaken
  <2>5. CASE Connect(p)
    <3> DEFINE e == w[p].sel[Lay(p)][w[p].pos]
    <3>1. w[p].pc = "link" /\ lock[e] = Free
      BY <2>5, Zenon DEF Connect
    <3>2. CASE lock' = lock /\ w' = [w EXCEPT ![p].pos = w[p].pos + 1]
      <4>1. w'[p].pc # "store"
        BY <1>0, <2>2, <3>1, <3>2 DEF Inserting
      <4>2. QED
        BY <2>1, <3>1, <3>2, <4>1, LockFrame
    <3>3. CASE \E list, at : /\ lock' = [lock EXCEPT ![e] = {p}]
                             /\ w' = [w EXCEPT ![p].pc = "store",
                                        ![p].dst = e, ![p].new = list,
                                        ![p].at = at]
      <4>1. e \in Node
        <5>1. Lay(p) \in Layer
          BY <2>2 DEF Lay, WriteLayer, Inserting
        <5>2. w[p].pos <= Len(w[p].sel[Lay(p)])
          BY <2>5, Zenon DEF Connect
        <5>3. QED
          BY <3>1, <5>1, <5>2, LinkedNode
      <4> HIDE DEF e
      <4>2. w'[p].pc = "store" /\ w'[p].dst = e
        BY <1>0, <2>2, <3>3 DEF Inserting
      <4>3. QED
        BY <2>1, <3>1, <3>3, <4>1, <4>2, LockTaken
    <3>4. QED
      BY <2>5, <3>2, <3>3, Zenon DEF Connect
  <2>6. CASE StoreSlot(p)
    <3>1. lock' = lock /\ w[p].pc = "store"
      BY <2>6 DEF StoreSlot
    <3>2. w'[p].pc = w[p].pc /\ w'[p].dst = w[p].dst
      BY <1>0, <2>2, <2>6 DEF StoreSlot, Inserting
    <3>3. QED
      BY <2>1, <3>1, <3>2, LockKept
  <2>7. CASE StoreCount(p)
    <3>1. /\ w[p].pc = "store" /\ w[p].dst \in Node
          /\ lock' = [lock EXCEPT ![w[p].dst] = Free]
      BY <2>2, <2>7 DEF StoreCount, Inserting
    <3>2. w'[p].pc # "store"
      BY <1>0, <2>2, <2>7 DEF StoreCount, Inserting
    <3>3. QED
      BY <2>1, <3>1, <3>2, LockGiven
  <2>8. QED
    BY <1>3, <2>3, <2>4, <2>5, <2>6, <2>7 DEF InsertStep
<1>4. CASE MainStep \/ \E s \in Searchers : Query(s)
  <2>1. UNCHANGED <<lock, w>>
    BY <1>4 DEF MainStep, InsertRow0, EndBuild, Repair, Query, StartQuery,
                SearchStep, LoadCount, LoadSlot, EndList, Return
  <2>2. QED
    BY <1>1, <2>1, Zenon
<1>5. CASE Finished \/ UNCHANGED vars
  BY <1>1, <1>5 DEF Finished, vars
<1>6. QED
  BY <1>2, <1>3, <1>4, <1>5 DEF Next

\* connect, insert: at any time a node's list is rewritten by one thread, the
\* holder of its lock, and a thread holds one node's lock at most.
THEOREM LocksExclusive == Spec => []OneLock
<1>1. Spec => [](TypeInv /\ OneLock)
  BY InitTypeInv, NextTypeInv, InitOneLock, NextOneLock, PTL DEF Spec
<1>2. QED
  BY <1>1, PTL

-----------------------------------------------------------------------------
(* The sizes of the lists.                                                 *)

\* A list that waits to be stored fits its slots.
FitInv == /\ CountsFit
          /\ \A p \in Proc :
               w[p].pc = "store" => Len(w[p].new) <= SlotCount(Lay(p))

LEMMA SlotFacts ==
    \A l \in Layer : /\ SlotCount(l) \in Nat /\ SlotCount(l) = CapOf(l)
                     /\ M <= SlotCount(l)
BY DEF SlotCount, CapOf

\* An edge appended to a list makes it longer by one.
LEMMA AppendedFits ==
    ASSUME NEW v, NEW l \in Layer, NEW i, cnt[v][l] \in Nat,
           cnt[v][l] < CapOf(l)
    PROVE  Len(Appended(v, l, i)) <= SlotCount(l)
<1> DEFINE c == cnt[v][l]
<1>1. Len(Appended(v, l, i)) = c + 1
  BY DEF Appended
<1> HIDE DEF c
<1>2. SlotCount(l) \in Nat /\ SlotCount(l) = CapOf(l)
  BY SlotFacts
<1>3. c \in Nat /\ c < CapOf(l)
  BY DEF c
<1>4. QED
  BY <1>1, <1>2, <1>3

\* Nothing is stored, and no list is about to be written by thread p.
LEMMA FitFrame ==
    ASSUME TypeInv, FitInv, NEW p \in Proc, cnt' = cnt,
           \A x \in Proc \ {p} : w'[x] = w[x], w'[p].pc # "store"
    PROVE  FitInv'
<1>1. CountsFit'
  BY DEF FitInv, CountsFit
<1>2. ASSUME NEW x \in Proc, w'[x].pc = "store"
      PROVE  Len(w'[x].new) <= SlotCount(w'[x].k)
  BY <1>2 DEF FitInv, Lay, WriteLayer
<1>3. QED
  BY <1>1, <1>2 DEF FitInv, Lay, WriteLayer

\* Thread p is about to write, or goes on writing, a list that fits.
LEMMA FitWrites ==
    ASSUME TypeInv, FitInv, NEW p \in Proc, cnt' = cnt,
           \A x \in Proc \ {p} : w'[x] = w[x],
           Len(w'[p].new) <= SlotCount(w'[p].k)
    PROVE  FitInv'
<1>1. CountsFit'
  BY DEF FitInv, CountsFit
<1>2. ASSUME NEW x \in Proc, w'[x].pc = "store"
      PROVE  Len(w'[x].new) <= SlotCount(w'[x].k)
  BY <1>2 DEF FitInv, Lay, WriteLayer
<1>3. QED
  BY <1>1, <1>2 DEF FitInv, Lay, WriteLayer

\* One count is stored, of a list that fits.
LEMMA FitCount ==
    ASSUME TypeInv, FitInv, NEW u \in Node, NEW l \in Layer, NEW n \in Nat,
           n <= SlotCount(l), cnt' = [cnt EXCEPT ![u][l] = n]
    PROVE  CountsFit'
<1>1. cnt \in [Node -> [Layer -> 0 .. M0]]
  BY DEF TypeInv, Typed, SharedOK
<1>2. SUFFICES ASSUME NEW v \in Node, NEW k \in Layer
               PROVE  cnt'[v][k] <= SlotCount(k)
  BY DEF CountsFit, SlotCount
<1>3. cnt'[v][k] = IF v = u /\ k = l THEN n ELSE cnt[v][k]
  BY <1>1
<1>4. QED
  BY <1>3 DEF FitInv, CountsFit

LEMMA InitFitInv == Init => FitInv
<1>1. ASSUME Init PROVE CountsFit
  BY <1>1, SlotFacts DEF Init, CountsFit
<1>2. QED
  BY <1>1 DEF Init, FitInv, Idle

LEMMA NextFitInv == TypeInv /\ FitInv /\ [Next]_vars => FitInv'
<1> SUFFICES ASSUME TypeInv, FitInv, [Next]_vars
             PROVE  FitInv'
  OBVIOUS
<1>0. w \in [Proc -> Inserting]
  BY DEF TypeInv, Typed
<1>1. CASE UNCHANGED <<cnt, w>>
  BY <1>1 DEF FitInv, CountsFit, Lay, WriteLayer
<1>2. CASE InserterStep
  <2>1. /\ cnt' = cnt /\ \A x \in Proc \ {Inserter} : w'[x] = w[x]
        /\ w'[Inserter].pc # "store"
    <3>1. w[Inserter] \in Inserting
      BY <1>0 DEF Proc
    <3>2. CASE InsertNext
      BY <1>0, <3>1, <3>2 DEF InsertNext, Proc, Inserting, graph
    <3>3. CASE Publish
      BY <1>0, <3>1, <3>3 DEF Publish, Idle, Proc, graph
    <3>4. QED
      BY <1>2, <3>2, <3>3 DEF InserterStep
  <2>2. QED
    BY <2>1, FitFrame DEF Proc
<1>3. ASSUME NEW p \in Proc, InsertStep(p)
      PROVE  FitInv'
  <2>1. \A x \in Proc \ {p} : w'[x] = w[x]
    BY <1>3, OthersKeep
  <2>2. w[p] \in Inserting /\ Lay(p) = w[p].k /\ w[p].k \in Layer
    BY <1>0 DEF Lay, WriteLayer, Inserting
  <2>3. CASE \/ Claim(p) \/ NextRow(p) \/ ReadEntry(p) \/ TakeEpLock(p)
             \/ Greedy(p) \/ Expand(p) \/ SelectLayer(p) \/ EndLayer(p)
    BY <2>1, <2>3, NotWriting, FitFrame
  <2>4. CASE WriteOwn(p)
    <3>1. w[p].sel[w[p].k] \in ListOf(M)
      BY <2>2 DEF Inserting
    <3>2. Len(w[p].sel[w[p].k]) <= SlotCount(w[p].k)
      BY <2>2, <3>1, ListOfFacts, SlotFacts
    <3>3. w'[p].new = w[p].sel[w[p].k] /\ w'[p].k = w[p].k
      BY <1>0, <2>2, <2>4 DEF WriteOwn, Inserting
    <3>4. cnt' = cnt
      BY <2>4, Zenon DEF WriteOwn, graph
    <3>5. QED
      BY <2>1, <3>2, <3>3, <3>4, FitWrites
  <2>5. CASE Connect(p)
    <3> DEFINE l == w[p].k
               e == w[p].sel[l][w[p].pos]
               i == w[p].row
    <3>1. cnt' = cnt /\ w[p].pc = "link"
      BY <2>5, Zenon DEF Connect, graph
    <3>2. CASE w' = [w EXCEPT ![p].pos = w[p].pos + 1]
      <4>1. w'[p].pc # "store"
        BY <1>0, <2>2, <3>1, <3>2, SMTT(30) DEF Inserting
      <4>2. QED
        BY <2>1, <3>1, <4>1, FitFrame
    <3>3. ASSUME NEW list, NEW at, Len(list) <= SlotCount(l),
                 w' = [w EXCEPT ![p].pc = "store", ![p].dst = e,
                                ![p].new = list, ![p].at = at]
          PROVE  FitInv'
      <4>1. w'[p].new = list /\ w'[p].k = l
        BY <1>0, <2>2, <3>3 DEF Inserting
      <4>2. QED
        BY <2>1, <3>1, <3>3, <4>1, FitWrites
    <3>4. e \in Node /\ cnt[e][l] \in Nat
      <4>1. w[p].pos <= Len(w[p].sel[Lay(p)])
        BY <2>5, Zenon DEF Connect
      <4>2. e \in Node
        BY <2>2, <3>1, <4>1, LinkedNode
      <4>3. cnt \in [Node -> [Layer -> 0 .. M0]]
        BY DEF TypeInv, Typed, SharedOK
      <4>4. QED
        BY <2>2, <4>2, <4>3
    <3>5. cnt[e][l] < CapOf(l) => Len(Appended(e, l, i)) <= SlotCount(l)
      BY <2>2, <3>4, AppendedFits
    <3>6. \A out \in Selections(Ids(e, l) \cup {i}, CapOf(l)) :
             Len(out) <= SlotCount(l)
      BY <2>2, SlotFacts, SelectionsAreLists, ListsFacts
    <3>7. \/ w' = [w EXCEPT ![p].pos = w[p].pos + 1]
          \/ \E list, at : /\ Len(list) <= SlotCount(l)
                           /\ w' = [w EXCEPT ![p].pc = "store", ![p].dst = e,
                                             ![p].new = list, ![p].at = at]
      <4> DEFINE Writes(list, at) ==
                   w' = [w EXCEPT ![p].pc = "store", ![p].dst = e,
                                  ![p].new = list, ![p].at = at]
      <4>1. \/ w' = [w EXCEPT ![p].pos = w[p].pos + 1]
            \/ /\ cnt[e][l] < CapOf(l)
               /\ Writes(Appended(e, l, i), cnt[e][l] + 1)
            \/ \E out \in Selections(Ids(e, l) \cup {i}, CapOf(l)) :
                 Writes(out, 1)
        BY <2>2, <2>5, Zenon DEF Connect
      <4> HIDE DEF e, l, i
      <4>2. QED
        BY <3>5, <3>6, <4>1
    <3>8. QED
      BY <3>2, <3>3, <3>7
  <2>6. CASE StoreSlot(p)
    <3>1. cnt' = cnt /\ w[p].pc = "store"
      BY <2>6 DEF StoreSlot
    <3>2. w'[p].new = w[p].new /\ w'[p].k = w[p].k
      BY <1>0, <2>2, <2>6 DEF StoreSlot, Inserting
    <3>3. QED
      BY <2>1, <2>2, <3>1, <3>2, FitWrites DEF FitInv
  <2>7. CASE StoreCount(p)
    <3>1. /\ w[p].pc = "store" /\ w[p].dst \in Node
          /\ cnt' = [cnt EXCEPT ![w[p].dst][w[p].k] = Len(w[p].new)]
      BY <2>2, <2>7 DEF StoreCount, Inserting
    <3>2. Len(w[p].new) \in Nat /\ Len(w[p].new) <= SlotCount(w[p].k)
      <4>1. w[p].new \in ListOf(M0)
        BY <2>2 DEF Inserting
      <4>2. QED
        BY <2>2, <3>1, <4>1, ListOfFacts DEF FitInv
    <3>3. CountsFit'
      BY <2>2, <3>1, <3>2, FitCount
    <3>4. w'[p].pc # "store"
      BY <1>0, <2>2, <2>7 DEF StoreCount, Inserting
    <3>5. ASSUME NEW x \in Proc, w'[x].pc = "store"
          PROVE  Len(w'[x].new) <= SlotCount(w'[x].k)
      BY <2>1, <3>4, <3>5 DEF FitInv, Lay, WriteLayer
    <3>6. QED
      BY <3>3, <3>5 DEF FitInv, Lay, WriteLayer
  <2>8. QED
    BY <1>3, <2>3, <2>4, <2>5, <2>6, <2>7 DEF InsertStep
<1>4. CASE Repair
  <2>1. CASE \E u, v \in 0 .. N - 1 :
                u # v /\ \E new \in Kept(u, v) : AddKeep(u, new)
    <3>1. PICK u \in Node, v \in Node : \E new \in Kept(u, v) : AddKeep(u, new)
      BY <2>1 DEF Node
    <3>2. PICK new \in Kept(u, v) : AddKeep(u, new)
      BY <3>1
    <3>3. 0 \in Layer /\ cnt[u][0] \in 0 .. M0
      <4>1. 0 \in Layer
        BY DEF Layer
      <4>2. QED
        BY <4>1 DEF TypeInv, Typed, SharedOK
    <3>4. Len(new) \in Nat /\ Len(new) <= SlotCount(0)
      <4>1. CASE cnt[u][0] < M0
        <5>1. Len(new) = cnt[u][0] + 1
          BY <3>3, <4>1 DEF Kept, Appended
        <5>2. QED
          BY <3>3, <4>1, <5>1 DEF SlotCount
      <4>2. CASE ~(cnt[u][0] < M0)
        <5>1. new \in Lists(Ids(u, 0) \cup {v}, M0)
          BY <4>2 DEF Kept
        <5>2. Len(new) \in 1 .. M0
          BY <5>1, ListsFacts
        <5>3. QED
          BY <5>2 DEF SlotCount
      <4>3. QED
        BY <4>1, <4>2
    <3>5. cnt' = [cnt EXCEPT ![u][0] = Len(new)]
      BY <3>2 DEF AddKeep
    <3>6. CountsFit'
      BY <3>3, <3>4, <3>5, FitCount
    <3>7. w' = w
      BY <1>4 DEF Repair
    <3>8. QED
      BY <3>6, <3>7 DEF FitInv, Lay, WriteLayer
  <2>2. CASE UNCHANGED graph
    BY <1>1, <1>4, <2>2 DEF Repair, graph
  <2>3. QED
    BY <1>4, <2>1, <2>2 DEF Repair
<1>5. CASE InsertRow0 \/ EndBuild \/ \E s \in Searchers : Query(s)
  <2>1. UNCHANGED <<cnt, w>>
    BY <1>5 DEF InsertRow0, EndBuild, Query, StartQuery, SearchStep,
                LoadCount, LoadSlot, EndList, Return, graph
  <2>2. QED
    BY <1>1, <2>1
<1>6. CASE Finished \/ UNCHANGED vars
  BY <1>1, <1>6 DEF Finished, vars, graph
<1>7. QED
  BY <1>2, <1>3, <1>4, <1>5, <1>6 DEF Next, MainStep

\* BuildCap, Insert, Search: the type invariant, for every instance; no list
\* ever runs into the slots of another node.
THEOREM TypeCorrect == Spec => []TypeOK
<1>1. Spec => [](TypeInv /\ FitInv)
  BY InitTypeInv, NextTypeInv, InitFitInv, NextFitInv, PTL DEF Spec
<1>2. TypeInv /\ FitInv => TypeOK
  BY DEF TypeInv, FitInv, TypeOK
<1>3. QED
  BY <1>1, <1>2, PTL

-----------------------------------------------------------------------------
(* Walks.                                                                  *)

-----------------------------------------------------------------------------
(* The rows.                                                               *)

\* The rows that the workers of the build have claimed are below this one.
Claimed == next * Chunk

Busy(r) == r.pc \notin {"idle", "publish"}

\* The insertion has its entry point.
Walking(r) == r.pc \in {"greedy", "layer", "own", "store", "link"}
Linking(r) == r.pc \in {"own", "store", "link"}

\* Row i is not in the graph for good: not claimed, or its insertion has not
\* ended.
Open(i) == \/ phase = "start"
           \/ 1 <= i /\ i < N /\ Claimed <= i
           \/ \E p \in Workers : w[p].row <= i /\ i < w[p].hi
           \/ /\ N <= i /\ count <= i
              /\ ~(w[Inserter].pc = "publish" /\ w[Inserter].row = i)

\* An insertion with the record r has not stored its row's list on layer l.
Behind(r, l) == \/ l > r.k
                \/ l = r.k /\ r.pc \notin {"store", "link"}
                \/ l = r.k /\ r.pc = "store" /\ r.pos = 0

\* Row i has no list on layer l yet.
NewRow(i, l) ==
    Open(i) /\ \A p \in Proc : Busy(w[p]) /\ w[p].row = i => Behind(w[p], l)

\* No two threads insert the same row, and each phase has its own rows.
RowsInv ==
    /\ phase = "start" => /\ next = 0 /\ count = 0
                          /\ \A p \in Workers : w[p].hi = 0
    /\ phase = "build" => count = 0 /\ N # 0
    /\ phase \in {"repair", "serve"} => N <= Claimed /\ N <= count
    /\ \A p \in Workers :
           /\ Busy(w[p]) => w[p].row < w[p].hi
           /\ w[p].row < w[p].hi => 1 <= w[p].row /\ phase = "build"
           /\ w[p].hi <= Claimed
           /\ w[p].pc # "publish"
    /\ \A p, o \in Workers : p # o /\ w[p].row < w[p].hi /\ w[o].row < w[o].hi
           => w[p].hi <= w[o].row \/ w[o].hi <= w[p].row
    /\ w[Inserter].pc # "idle" => phase = "serve" /\ w[Inserter].row = count
    /\ \A p \in Proc : ~Linking(w[p]) => w[p].k = 0
    /\ \A p \in Proc : Linking(w[p]) => w[p].k <= Lmax(p)

-----------------------------------------------------------------------------
(* The entry point.                                                        *)

\* The entry point is a row in the graph for good, on the top layer, and so
\* high is every such row; only the holder of the entry lock raises it.
HeightInv ==
    /\ entry = None => top = 0 /\ \A p \in Proc : ~Walking(w[p])
    /\ entry # None => Level[entry] = top /\ ~Open(entry)
    /\ \A i \in Node : Open(i) \/ Level[i] <= top
    /\ \A p \in Proc : Walking(w[p]) =>
           /\ w[p].top <= top
           /\ p \in epLock => w[p].top = top
           /\ p \notin epLock => Level[w[p].row] <= w[p].top
    /\ \A p \in epLock : Walking(w[p]) /\ epLock = {p}

-----------------------------------------------------------------------------
(* What a walk can come to.                                                *)

\* Node x may be met on layer l.
Good(x, l) == /\ l <= Level[x]
              /\ ~NewRow(x, l)
              /\ Level[x] <= top \/ \E p \in epLock : w[p].row = x

\* Slots 1..n of v's list on layer l.  (Here and below the node met is named
\* by a bound variable, so that it is the same one before and after a step.)
GoodSlots(v, l, n) ==
    \A j \in 1 .. n, x \in Node : slots[v][l][j] = x => Good(x, l) /\ x # v

ListsInv == /\ \A v \in Node, l \in Layer : GoodSlots(v, l, cnt[v][l])
            /\ \A v \in Node, l \in Layer : NewRow(v, l) => cnt[v][l] = 0

\* What p has scored on its layer, and what it has selected.
MetOK(p) ==
    \A l \in Layer, x \in Node :
        /\ /\ w[p].pc \in {"greedy", "layer"} /\ w[p].lay = l
           /\ x \in w[p].seen \cup w[p].cand \cup {w[p].cur}
           => Good(x, l)
        /\ \A j \in 1 .. Len(w[p].sel[l]) :
               w[p].sel[l][j] = x => Good(x, l) /\ x # w[p].row

\* A list that p writes: the slots before w[p].at are written.
WritesOK(p) ==
    w[p].pc = "store" =>
        \A l \in Layer, d \in Node : w[p].k = l /\ w[p].dst = d =>
            /\ \A j \in 1 .. Len(w[p].new), x \in Node :
                   w[p].new[j] = x => Good(x, l) /\ x # d
            /\ \A j \in 1 .. Len(w[p].new) :
                   j < w[p].at => slots[d][l][j] = w[p].new[j]
            /\ IF w[p].pos = 0 THEN d = w[p].row ELSE Good(d, l)

WalksInv == \A p \in Proc : MetOK(p) /\ WritesOK(p)

QueryOK(s) ==
    \A l \in Layer : q[s].pc # "idle" /\ q[s].lay = l =>
        /\ \A x \in q[s].seen \cup q[s].cand \cup {q[s].cur} : Good(x, l)
        /\ q[s].pc = "slot" =>
               \A v \in Node : q[s].node = v => GoodSlots(v, l, q[s].n)

QueriesInv == \A s \in Searchers : QueryOK(s)

-----------------------------------------------------------------------------
(* What is selected.                                                       *)

\* The selections that are made, and none is empty.
SelOK(p) ==
    /\ w[p].pc = "store" => Len(w[p].new) > 0
    /\ w[p].pc = "greedy" => w[p].lay <= w[p].top
    /\ w[p].pc = "layer" => w[p].lay <= Lmax(p)
    /\ \A l \in Layer :
           w[p].sel[l] # << >> <=>
               /\ Linking(w[p]) \/ (w[p].pc = "layer" /\ w[p].lay < l)
               /\ l <= Lmax(p)

SelInv == \A p \in Proc : SelOK(p)

-----------------------------------------------------------------------------
(* The rows, step by step.                                                 *)

LEMMA ProductFacts ==
    ASSUME NEW a \in Nat, NEW b \in Nat
    PROVE  a * b \in Nat /\ 0 * b = 0 /\ (a + 1) * b = a * b + b
OBVIOUS

LEMMA ClaimedFacts ==
    ASSUME next \in Nat
    PROVE  Claimed \in Nat /\ (next = 0 => Claimed = 0)
<1>1. Chunk \in Nat
  OBVIOUS
<1>2. Claimed \in Nat
  BY <1>1, ProductFacts DEF Claimed
<1>3. next = 0 => Claimed = 0
  BY <1>1, ProductFacts DEF Claimed
<1>4. QED
  BY <1>2, <1>3

LEMMA ClaimedNext ==
    ASSUME next \in Nat, next' = next + 1
    PROVE  Claimed' = Claimed + Chunk
<1>1. Chunk \in Nat
  OBVIOUS
<1>2. QED
  BY <1>1, ProductFacts DEF Claimed

\* What TypeInv says of one thread and of the shared state.
LEMMA TypeFacts ==
    ASSUME TypeInv
    PROVE  /\ w \in [Proc -> Inserting] /\ q \in [Searchers -> Querying]
           /\ \A p \in Proc : WorkerOK(w[p]) /\ w[p] \in Inserting
           /\ phase \in {"start", "build", "repair", "serve"}
           /\ next \in Nat /\ count \in 0 .. CapN /\ top \in Layer
           /\ Claimed \in Nat
           /\ Inserter \in Proc /\ Workers \subseteq Proc
BY ClaimedFacts DEF TypeInv, Typed, SharedOK, WorkersOK, Proc

-----------------------------------------------------------------------------
(* What each step of an insertion does to the record of its thread.        *)

LEMMA GreedyEffect ==
    ASSUME TypeInv, NEW p \in Proc, Greedy(p)
    PROVE  /\ w[p].pc = "greedy" /\ Level[w[p].row] < w[p].lay
           /\ w'[p].row = w[p].row /\ w'[p].hi = w[p].hi
           /\ w'[p].top = w[p].top /\ w'[p].sel = w[p].sel
           /\ w'[p].k = w[p].k
           /\ \/ /\ w'[p].pc = "greedy" /\ w'[p].lay = w[p].lay
                 /\ w'[p].seen = w[p].seen \cup Ids(w[p].cur, w[p].lay)
                 /\ w'[p].cand = w[p].cand
                 /\ w'[p].cur \in Ids(w[p].cur, w[p].lay)
              \/ /\ IF w[p].lay - 1 > Level[w[p].row]
                    THEN w'[p].pc = "greedy" ELSE w'[p].pc = "layer"
                 /\ w'[p].lay = w[p].lay - 1
                 /\ w'[p].seen = {w[p].cur} /\ w'[p].cand = {w[p].cur}
                 /\ w'[p].cur = w[p].cur
<1>1. w \in [Proc -> Inserting] /\ w[p] \in Inserting /\ WorkerOK(w[p])
  BY TypeFacts
<1> DEFINE c == w[p].cur
           l == w[p].lay
           new == Ids(c, l) \ w[p].seen
           down == IF l - 1 > Level[w[p].row] THEN "greedy" ELSE "layer"
<1>2. w[p].pc = "greedy" /\ Level[w[p].row] < l
  BY <1>1 DEF Greedy, WorkerOK, Inserting
<1>3. CASE \E e \in new :
               w' = [w EXCEPT ![p].cur = e, ![p].seen = w[p].seen \cup new]
  <2>1. PICK e \in new :
            w' = [w EXCEPT ![p].cur = e, ![p].seen = w[p].seen \cup new]
    BY <1>3
  <2>2. w'[p] = [w[p] EXCEPT !.cur = e, !.seen = w[p].seen \cup new]
    BY <1>1, <2>1
  <2>3. w[p].seen \cup new = w[p].seen \cup Ids(c, l) /\ e \in Ids(c, l)
    OBVIOUS
  <2> HIDE DEF new
  <2>4. QED
    BY <1>1, <1>2, <2>2, <2>3 DEF Inserting
<1>4. CASE w' = [w EXCEPT ![p].pc = down, ![p].lay = l - 1,
                          ![p].seen = {c}, ![p].cand = {c}]
  <2>1. w'[p] = [w[p] EXCEPT !.pc = down, !.lay = l - 1, !.seen = {c},
                             !.cand = {c}]
    BY <1>1, <1>4
  <2>2. QED
    BY <1>1, <1>2, <2>1 DEF Inserting
<1>5. QED
  BY <1>3, <1>4 DEF Greedy

LEMMA ExpandEffect ==
    ASSUME TypeInv, NEW p \in Proc, Expand(p)
    PROVE  /\ w[p].pc = "layer" /\ w'[p].pc = "layer"
           /\ w'[p].row = w[p].row /\ w'[p].hi = w[p].hi
           /\ w'[p].top = w[p].top /\ w'[p].sel = w[p].sel
           /\ w'[p].k = w[p].k /\ w'[p].lay = w[p].lay
           /\ w'[p].cur = w[p].cur
           /\ \E c \in w[p].cand :
                 /\ w'[p].seen = w[p].seen \cup Ids(c, w[p].lay)
                 /\ w'[p].cand \subseteq w[p].cand \cup Ids(c, w[p].lay)
<1>1. w \in [Proc -> Inserting] /\ w[p] \in Inserting
  BY TypeFacts
<1>2. PICK c \in w[p].cand :
          \E push \in Pushed(Ids(c, w[p].lay) \ w[p].seen, w[p].seen, EfC) :
              w' = [w EXCEPT ![p].seen = w[p].seen \cup
                                         (Ids(c, w[p].lay) \ w[p].seen),
                             ![p].cand = (w[p].cand \ {c}) \cup push]
  BY DEF Expand
<1> DEFINE new == Ids(c, w[p].lay) \ w[p].seen
<1>3. PICK push \in Pushed(new, w[p].seen, EfC) :
              w' = [w EXCEPT ![p].seen = w[p].seen \cup new,
                             ![p].cand = (w[p].cand \ {c}) \cup push]
  BY <1>2
<1>4. push \subseteq new
  BY DEF Pushed
<1>5. w'[p] = [w[p] EXCEPT !.seen = w[p].seen \cup new,
                           !.cand = (w[p].cand \ {c}) \cup push]
  BY <1>1, <1>3
<1>6. w[p].seen \cup new = w[p].seen \cup Ids(c, w[p].lay)
      /\ (w[p].cand \ {c}) \cup push \subseteq w[p].cand \cup Ids(c, w[p].lay)
  BY <1>4
<1>7. w[p].pc = "layer"
  BY DEF Expand
<1> HIDE DEF new
<1>8. QED
  BY <1>1, <1>5, <1>6, <1>7 DEF Inserting

LEMMA SelectEffect ==
    ASSUME TypeInv, NEW p \in Proc, SelectLayer(p)
    PROVE  LET l == w[p].lay IN
           /\ w[p].pc = "layer"
           /\ w'[p].row = w[p].row /\ w'[p].hi = w[p].hi
           /\ w'[p].top = w[p].top /\ w'[p].k = w[p].k
           /\ \E out \in Selections(w[p].seen, MinOf(M, EfC)) :
                 /\ w'[p].sel = [w[p].sel EXCEPT ![l] = out]
                 /\ w'[p].cur = out[1]
                 /\ IF l > 0
                    THEN /\ w'[p].lay = l - 1 /\ w'[p].pc = "layer"
                         /\ w'[p].seen = {out[1]} /\ w'[p].cand = {out[1]}
                    ELSE w'[p].pc = "own"
<1>1. w \in [Proc -> Inserting] /\ w[p] \in Inserting
  BY TypeFacts
<1>2. PICK out \in Selections(w[p].seen, MinOf(M, EfC)) :
          w' = [w EXCEPT ![p] = Selected(p, out)]
  BY DEF SelectLayer
<1>3. w'[p] = Selected(p, out)
  BY <1>1, <1>2
<1>4. w[p].pc = "layer"
  BY DEF SelectLayer
<1> DEFINE l == w[p].lay
           sel == [w[p].sel EXCEPT ![l] = out]
           start == IF l > 0 THEN {out[1]} ELSE {}
<1>5. w'[p] = [w[p] EXCEPT !.sel = sel, !.cur = out[1],
                           !.lay = IF l > 0 THEN l - 1 ELSE 0,
                           !.seen = start, !.cand = start,
                           !.pc = IF l > 0 THEN "layer" ELSE "own"]
  BY <1>3 DEF Selected
<1> HIDE DEF sel, start
<1>6. /\ w'[p].row = w[p].row /\ w'[p].hi = w[p].hi
      /\ w'[p].top = w[p].top /\ w'[p].k = w[p].k
      /\ w'[p].sel = sel /\ w'[p].cur = out[1]
      /\ IF l > 0
         THEN /\ w'[p].lay = l - 1 /\ w'[p].pc = "layer"
              /\ w'[p].seen = start /\ w'[p].cand = start
         ELSE w'[p].pc = "own"
  BY <1>1, <1>5 DEF Inserting
<1>7. QED
  BY <1>4, <1>6 DEF sel, start

LEMMA OwnEffect ==
    ASSUME TypeInv, NEW p \in Proc, WriteOwn(p)
    PROVE  /\ w[p].pc = "own" /\ w'[p].pc = "store"
           /\ w'[p].row = w[p].row /\ w'[p].hi = w[p].hi
           /\ w'[p].top = w[p].top /\ w'[p].sel = w[p].sel
           /\ w'[p].k = w[p].k /\ w'[p].dst = w[p].row
           /\ w'[p].pos = 0 /\ w'[p].at = 1
           /\ w'[p].new = w[p].sel[w[p].k]
<1>1. w \in [Proc -> Inserting] /\ w[p] \in Inserting
  BY TypeFacts
<1>2. w'[p] = [w[p] EXCEPT !.pc = "store", !.dst = w[p].row, !.pos = 0,
                           !.new = w[p].sel[Lay(p)], !.at = 1]
  BY <1>1 DEF WriteOwn
<1>3. w[p].pc = "own" /\ Lay(p) = w[p].k
  BY DEF WriteOwn, Lay, WriteLayer
<1>4. QED
  BY <1>1, <1>2, <1>3 DEF Inserting

LEMMA ConnectEffect ==
    ASSUME TypeInv, NEW p \in Proc, Connect(p)
    PROVE  LET i == w[p].row
               l == w[p].k
               e == w[p].sel[l][w[p].pos]
           IN
           /\ w[p].pc = "link" /\ w[p].pos \in 1 .. Len(w[p].sel[l])
           /\ e \in Node /\ l \in Layer
           /\ w'[p].row = i /\ w'[p].hi = w[p].hi
           /\ w'[p].top = w[p].top /\ w'[p].sel = w[p].sel /\ w'[p].k = l
           /\ \/ /\ i \in Ids(e, l)
                 /\ w'[p].pc = "link" /\ w'[p].pos = w[p].pos + 1
              \/ /\ w'[p].pc = "store" /\ w'[p].pos = w[p].pos
                 /\ w'[p].dst = e
                 /\ \/ /\ cnt[e][l] < CapOf(l)
                       /\ w'[p].new = Appended(e, l, i)
                       /\ w'[p].at = cnt[e][l] + 1
                    \/ /\ w'[p].new \in Selections(Ids(e, l) \cup {i}, CapOf(l))
                       /\ w'[p].at = 1
<1> DEFINE i == w[p].row
           l == w[p].k
           e == w[p].sel[l][w[p].pos]
<1>1. w \in [Proc -> Inserting] /\ w[p] \in Inserting /\ WorkerOK(w[p])
  BY TypeFacts
<1>2. /\ w[p].pc = "link" /\ Lay(p) = l
      /\ w[p].pos <= Len(w[p].sel[l])
  BY DEF Connect, Lay, WriteLayer
<1>3. l \in Layer /\ w[p].pos \in Nat /\ w[p].pos > 0
  BY <1>1, <1>2 DEF Inserting, WorkerOK
<1>4. e \in Node
  BY <1>2, <1>3, LinkedNode
<1>5. w[p].pos \in 1 .. Len(w[p].sel[l])
  <2>1. w[p].sel[l] \in ListOf(M)
    BY <1>1, <1>3 DEF Inserting
  <2>2. Len(w[p].sel[l]) \in 0 .. M
    BY <2>1, ListOfFacts
  <2>3. QED
    BY <1>2, <1>3, <2>2
<1>6. ASSUME NEW list, NEW from,
             w' = [w EXCEPT ![p].pc = "store", ![p].dst = e,
                            ![p].new = list, ![p].at = from]
      PROVE  /\ w'[p].row = i /\ w'[p].hi = w[p].hi
             /\ w'[p].top = w[p].top /\ w'[p].sel = w[p].sel /\ w'[p].k = l
             /\ w'[p].pc = "store" /\ w'[p].pos = w[p].pos
             /\ w'[p].dst = e /\ w'[p].new = list /\ w'[p].at = from
  <2> HIDE DEF e
  <2>1. w'[p] = [w[p] EXCEPT !.pc = "store", !.dst = e, !.new = list,
                             !.at = from]
    BY <1>1, <1>6
  <2>2. QED
    BY <1>1, <2>1 DEF Inserting
<1>7. CASE i \in Ids(e, l) /\ w' = [w EXCEPT ![p].pos = w[p].pos + 1]
  <2>1. w'[p] = [w[p] EXCEPT !.pos = w[p].pos + 1]
    BY <1>1, <1>7
  <2>2. /\ w'[p].row = i /\ w'[p].hi = w[p].hi
        /\ w'[p].top = w[p].top /\ w'[p].sel = w[p].sel /\ w'[p].k = l
        /\ w'[p].pc = "link" /\ w'[p].pos = w[p].pos + 1
    BY <1>1, <1>2, <2>1 DEF Inserting
  <2>3. QED
    BY <1>2, <1>3, <1>4, <1>5, <1>7, <2>2
<1>8. CASE /\ cnt[e][l] < CapOf(l)
           /\ w' = [w EXCEPT ![p].pc = "store", ![p].dst = e,
                             ![p].new = Appended(e, l, i),
                             ![p].at = cnt[e][l] + 1]
  BY <1>2, <1>3, <1>4, <1>5, <1>6, <1>8
<1>9. CASE \E out \in Selections(Ids(e, l) \cup {i}, CapOf(l)) :
             w' = [w EXCEPT ![p].pc = "store", ![p].dst = e,
                            ![p].new = out, ![p].at = 1]
  <2>1. PICK out \in Selections(Ids(e, l) \cup {i}, CapOf(l)) :
             w' = [w EXCEPT ![p].pc = "store", ![p].dst = e,
                            ![p].new = out, ![p].at = 1]
    BY <1>9
  <2>2. /\ w'[p].row = i /\ w'[p].hi = w[p].hi
        /\ w'[p].top = w[p].top /\ w'[p].sel = w[p].sel /\ w'[p].k = l
        /\ w'[p].pc = "store" /\ w'[p].pos = w[p].pos
        /\ w'[p].dst = e /\ w'[p].new = out /\ w'[p].at = 1
    BY <1>6, <2>1
  <2>3. QED
    BY <1>2, <1>3, <1>4, <1>5, <2>2
<1>10. QED
  BY <1>2, <1>7, <1>8, <1>9 DEF Connect

LEMMA SlotEffect ==
    ASSUME TypeInv, NEW p \in Proc, StoreSlot(p)
    PROVE  /\ w[p].pc = "store" /\ w'[p] = [w[p] EXCEPT !.at = w[p].at + 1]
           /\ w'[p].pc = "store" /\ w'[p].row = w[p].row
           /\ w'[p].hi = w[p].hi /\ w'[p].top = w[p].top
           /\ w'[p].sel = w[p].sel /\ w'[p].k = w[p].k
           /\ w'[p].pos = w[p].pos /\ w'[p].dst = w[p].dst
           /\ w'[p].new = w[p].new /\ w'[p].at = w[p].at + 1
           /\ w[p].at \in 1 .. Len(w[p].new)
           /\ slots' = [slots EXCEPT ![w[p].dst][w[p].k][w[p].at] =
                                         w[p].new[w[p].at]]
<1>1. w \in [Proc -> Inserting] /\ w[p] \in Inserting /\ WorkerOK(w[p])
  BY TypeFacts
<1>2. w'[p] = [w[p] EXCEPT !.at = w[p].at + 1]
  BY <1>1 DEF StoreSlot
<1>3. w[p].pc = "store" /\ w[p].at <= Len(w[p].new)
  BY DEF StoreSlot
<1>4. w[p].at \in 1 .. Len(w[p].new)
  <2>1. Len(w[p].new) \in 0 .. M0
    BY <1>1, ListOfFacts DEF Inserting
  <2>2. QED
    BY <1>1, <1>3, <2>1 DEF Inserting, WorkerOK
<1>5. slots' = [slots EXCEPT ![w[p].dst][w[p].k][w[p].at] = w[p].new[w[p].at]]
  BY DEF StoreSlot, Lay, WriteLayer
<1>6. /\ w'[p].pc = "store" /\ w'[p].row = w[p].row
      /\ w'[p].hi = w[p].hi /\ w'[p].top = w[p].top
      /\ w'[p].sel = w[p].sel /\ w'[p].k = w[p].k
      /\ w'[p].pos = w[p].pos /\ w'[p].dst = w[p].dst
      /\ w'[p].new = w[p].new /\ w'[p].at = w[p].at + 1
  BY <1>1, <1>2, <1>3 DEF Inserting
<1>7. QED
  BY <1>2, <1>3, <1>4, <1>5, <1>6

LEMMA CountEffect ==
    ASSUME TypeInv, NEW p \in Proc, StoreCount(p)
    PROVE  /\ w[p].pc = "store" /\ w'[p].pc = "link"
           /\ w'[p].row = w[p].row /\ w'[p].hi = w[p].hi
           /\ w'[p].top = w[p].top /\ w'[p].sel = w[p].sel
           /\ w'[p].k = w[p].k /\ w'[p].pos = w[p].pos + 1
           /\ w[p].at > Len(w[p].new)
           /\ cnt' = [cnt EXCEPT ![w[p].dst][w[p].k] = Len(w[p].new)]
           /\ w[p].dst \in Node /\ w[p].k \in Layer
           /\ Len(w[p].new) \in 0 .. M0
<1>1. w \in [Proc -> Inserting] /\ w[p] \in Inserting
  BY TypeFacts
<1>2. w'[p] = [w[p] EXCEPT !.pc = "link", !.pos = w[p].pos + 1, !.dst = 0,
                           !.new = << >>, !.at = 0]
  BY <1>1 DEF StoreCount
<1>3. w[p].pc = "store" /\ w[p].at > Len(w[p].new)
  BY DEF StoreCount
<1>4. cnt' = [cnt EXCEPT ![w[p].dst][w[p].k] = Len(w[p].new)]
  BY DEF StoreCount, Lay, WriteLayer
<1>5. /\ w'[p].pc = "link"
      /\ w'[p].row = w[p].row /\ w'[p].hi = w[p].hi
      /\ w'[p].top = w[p].top /\ w'[p].sel = w[p].sel
      /\ w'[p].k = w[p].k /\ w'[p].pos = w[p].pos + 1
  BY <1>1, <1>2 DEF Inserting
<1>6. Len(w[p].new) \in 0 .. M0
  BY <1>1, ListOfFacts DEF Inserting
<1>7. QED
  BY <1>1, <1>3, <1>4, <1>5, <1>6 DEF Inserting

LEMMA EndLayerEffect ==
    ASSUME TypeInv, NEW p \in Proc, EndLayer(p)
    PROVE  /\ w[p].pc = "link" /\ w[p].pos > Len(w[p].sel[w[p].k])
           /\ w'[p].row \in {w[p].row, w[p].row + 1}
           /\ IF w[p].k < Lmax(p)
              THEN /\ w'[p].pc = "own" /\ w'[p].k = w[p].k + 1
                   /\ w'[p].row = w[p].row /\ w'[p].hi = w[p].hi
                   /\ w'[p].top = w[p].top /\ w'[p].sel = w[p].sel
                   /\ UNCHANGED <<entry, top, epLock>>
              ELSE /\ w'[p] = Inserted(p)
                   /\ epLock' = epLock \ {p}
                   /\ IF Level[w[p].row] > w[p].top
                      THEN entry' = w[p].row /\ top' = Level[w[p].row]
                      ELSE UNCHANGED <<entry, top>>
<1>1. w \in [Proc -> Inserting] /\ w[p] \in Inserting
  BY TypeFacts
<1>2. w[p].pc = "link" /\ w[p].pos > Len(w[p].sel[w[p].k])
  BY DEF EndLayer, Lay, WriteLayer
<1>3. CASE w[p].k < Lmax(p)
  <2>1. w'[p] = [w[p] EXCEPT !.pc = "own", !.k = w[p].k + 1]
    BY <1>1, <1>3 DEF EndLayer
  <2>2. UNCHANGED <<entry, top, epLock>>
    BY <1>3 DEF EndLayer
  <2>3. QED
    BY <1>1, <1>2, <1>3, <2>1, <2>2 DEF Inserting
<1>4. CASE ~(w[p].k < Lmax(p))
  <2>1. w' = [w EXCEPT ![p] = Inserted(p)]
    BY <1>4 DEF EndLayer
  <2>2. w'[p] = Inserted(p)
    BY <1>1, <2>1
  <2>3. Inserted(p).row \in {w[p].row, w[p].row + 1}
    BY DEF Inserted, Idle
  <2>4. /\ epLock' = epLock \ {p}
        /\ IF Level[w[p].row] > w[p].top
           THEN entry' = w[p].row /\ top' = Level[w[p].row]
           ELSE UNCHANGED <<entry, top>>
    BY <1>4 DEF EndLayer
  <2>5. QED
    BY <1>2, <1>4, <2>2, <2>3, <2>4
<1>5. QED
  BY <1>3, <1>4

\* The record an insertion ends with.
LEMMA InsertedFields ==
    ASSUME TypeInv, NEW p \in Proc
    PROVE  LET r == Inserted(p) IN
           /\ r.pc = IF p = Inserter THEN "publish" ELSE "idle"
           /\ r.row = IF p = Inserter THEN w[p].row ELSE w[p].row + 1
           /\ r.hi = w[p].hi /\ r.k = 0
           /\ \A l \in Layer : r.sel[l] = << >>
BY DEF Inserted, Idle

\* The record a walk starts with.
LEMMA DescentFields ==
    ASSUME TypeInv, NEW p \in Proc, NEW e, NEW t
    PROVE  LET r == Descent(p, e, t) IN
           /\ r.pc = IF t > Level[w[p].row] THEN "greedy" ELSE "layer"
           /\ r.row = w[p].row /\ r.hi = w[p].hi /\ r.k = w[p].k
           /\ r.sel = w[p].sel /\ r.top = t /\ r.lay = t /\ r.cur = e
           /\ r.seen = {e} /\ r.cand = {e}
<1>1. w[p] \in Inserting
  BY TypeFacts
<1>2. QED
  BY <1>1 DEF Descent, Inserting

-----------------------------------------------------------------------------
(* The rows, step by step.                                                 *)

\* A step of an insertion that has its entry point, but for the last.
WalkStep(p) == \/ Greedy(p) \/ Expand(p) \/ SelectLayer(p) \/ WriteOwn(p)
               \/ Connect(p) \/ StoreSlot(p) \/ StoreCount(p)
               \/ EndLayer(p) /\ w[p].k < Lmax(p)

\* The last step of an insertion.
Finish(p) == /\ Busy(w[p]) /\ w'[p] = Inserted(p)
             /\ \A x \in Proc \ {p} : w'[x] = w[x]
             /\ UNCHANGED <<phase, next, count>>

\* What such a step keeps.
LEMMA WalkKeeps ==
    ASSUME TypeInv, RowsInv, NEW p \in Proc, WalkStep(p)
    PROVE  /\ UNCHANGED <<phase, next, count, entry, top, epLock, repairs, q>>
           /\ \A x \in Proc \ {p} : w'[x] = w[x]
           /\ w'[p].row = w[p].row /\ w'[p].hi = w[p].hi
           /\ w'[p].top = w[p].top
           /\ Walking(w[p]) /\ Walking(w'[p])
           /\ \A l \in Layer : Behind(w'[p], l) => Behind(w[p], l)
           /\ ~Linking(w'[p]) => w'[p].k = 0
           /\ Linking(w'[p]) => w'[p].k <= Lmax(p)
<1> USE DEF Walking, Linking
<1>0. w[p] \in Inserting /\ WorkerOK(w[p])
  BY TypeFacts
<1>1. \A x \in Proc \ {p} : w'[x] = w[x]
  BY OthersKeep DEF WalkStep, InsertStep
<1>2. UNCHANGED <<phase, next, count, entry, top, epLock, repairs, q>>
  BY DEF WalkStep, Greedy, Expand, SelectLayer, WriteOwn, Connect, StoreSlot,
         StoreCount, EndLayer
<1>r. /\ ~Linking(w[p]) => w[p].k = 0
      /\ Linking(w[p]) => w[p].k <= Lmax(p)
  BY DEF RowsInv
<1>3. CASE Greedy(p)
  BY <1>1, <1>2, <1>3, <1>r, GreedyEffect DEF Behind
<1>4. CASE Expand(p)
  BY <1>1, <1>2, <1>4, <1>r, ExpandEffect DEF Behind
<1>5. CASE SelectLayer(p)
  <2>1. 0 <= Lmax(p)
    <3>1. w[p].row \in Node /\ w[p].top \in Layer
      BY <1>0, <1>5 DEF SelectLayer, WorkerOK, Inserting
    <3>2. QED
      BY <3>1 DEF Lmax, MinOf, Layer
  <2>2. PICK out : /\ w'[p].row = w[p].row /\ w'[p].hi = w[p].hi
                   /\ w'[p].top = w[p].top /\ w'[p].k = w[p].k
                   /\ w[p].pc = "layer" /\ w'[p].pc \in {"layer", "own"}
    BY <1>5, SelectEffect
  <2>3. QED
    BY <1>1, <1>2, <1>r, <2>1, <2>2 DEF Behind
<1>6. CASE WriteOwn(p)
  BY <1>0, <1>1, <1>2, <1>6, <1>r, OwnEffect DEF Behind
<1>7. CASE Connect(p)
  <2>1. /\ w'[p].row = w[p].row /\ w'[p].hi = w[p].hi
        /\ w'[p].top = w[p].top /\ w'[p].k = w[p].k
        /\ w[p].pc = "link" /\ w[p].pos # 0
        /\ \/ w'[p].pc = "link"
           \/ w'[p].pc = "store" /\ w'[p].pos = w[p].pos
    <3>1. w[p].pc = "link"
      BY <1>7, ConnectEffect
    <3>2. w[p].pos # 0
      BY <1>0, <3>1 DEF WorkerOK, Inserting
    <3>3. QED
      BY <1>7, <3>1, <3>2, ConnectEffect
  <2>2. QED
    BY <1>1, <1>2, <1>r, <2>1 DEF Behind
<1>8. CASE StoreSlot(p)
  BY <1>1, <1>2, <1>8, <1>r, SlotEffect DEF Behind
<1>9. CASE StoreCount(p)
  BY <1>1, <1>2, <1>9, <1>r, CountEffect DEF Behind
<1>10. CASE EndLayer(p) /\ w[p].k < Lmax(p)
  <2>1. /\ w[p].pc = "link" /\ w'[p].pc = "own" /\ w'[p].k = w[p].k + 1
        /\ w'[p].row = w[p].row /\ w'[p].hi = w[p].hi
        /\ w'[p].top = w[p].top
    BY <1>10, EndLayerEffect
  <2>2. w[p].k \in Nat /\ w[p].k < Lmax(p) /\ Lmax(p) \in Int
    <3>1. w[p].row \in Node /\ w[p].top \in Layer /\ w[p].k \in Layer
      BY <1>0, <2>1 DEF WorkerOK, Inserting
    <3>2. QED
      BY <1>10, <3>1 DEF Lmax, MinOf, Layer
  <2>3. \A l \in Layer : l \in Int
    BY DEF Layer
  <2>4. \A l \in Layer : Behind(w'[p], l) => Behind(w[p], l)
    BY <2>1, <2>2, <2>3 DEF Behind
  <2>5. Linking(w'[p]) /\ w'[p].k <= Lmax(p)
    BY <2>1, <2>2
  <2>6. QED
    BY <1>1, <1>2, <2>1, <2>4, <2>5
<1>11. QED
  BY <1>3, <1>4, <1>5, <1>6, <1>7, <1>8, <1>9, <1>10 DEF WalkStep

LEMMA RowsFrame ==
    ASSUME TypeInv, RowsInv, NEW p \in Proc, UNCHANGED <<phase, next, count>>,
           \A x \in Proc \ {p} : w'[x] = w[x],
           w'[p].row = w[p].row, w'[p].hi = w[p].hi,
           w'[p].top = w[p].top \/ ~Linking(w'[p]),
           Busy(w[p]) /\ Busy(w'[p]),
           ~Linking(w'[p]) => w'[p].k = 0,
           Linking(w'[p]) => w'[p].k <= Lmax(p)
    PROVE  RowsInv'
<1>1. Claimed' = Claimed /\ Inserter \in Proc /\ Workers \subseteq Proc
  BY TypeFacts DEF Claimed
<1>2. ASSUME NEW x \in Proc
      PROVE  /\ w'[x].row = w[x].row /\ w'[x].hi = w[x].hi
             /\ Busy(w'[x]) <=> Busy(w[x])
             /\ w'[x].pc = "publish" <=> w[x].pc = "publish"
             /\ w'[x].pc = "idle" <=> w[x].pc = "idle"
             /\ ~Linking(w'[x]) => w'[x].k = 0
             /\ Linking(w'[x]) => w'[x].k <= Lmax(x)'
  <2>1. CASE x = p
    BY <2>1 DEF Busy, Lmax, Linking
  <2>2. CASE x # p
    BY <2>2 DEF RowsInv, Lmax
  <2>3. QED
    BY <2>1, <2>2
<1>3. QED
  BY <1>1, <1>2 DEF RowsInv

LEMMA RowsFinish ==
    ASSUME TypeInv, RowsInv, NEW p \in Proc, Finish(p)
    PROVE  RowsInv'
<1>1. Claimed' = Claimed /\ Inserter \in Proc /\ Workers \subseteq Proc
  BY TypeFacts DEF Claimed, Finish
<1>2. /\ w'[p].pc = IF p = Inserter THEN "publish" ELSE "idle"
      /\ w'[p].row = IF p = Inserter THEN w[p].row ELSE w[p].row + 1
      /\ w'[p].hi = w[p].hi /\ w'[p].k = 0
  BY InsertedFields DEF Finish
<1>3. \A x \in Proc : w[x].row \in Nat /\ w[x].hi \in Nat
  BY TypeFacts DEF Inserting
<1>4. \A x \in Proc : x # p => w'[x] = w[x] /\ Lmax(x)' = Lmax(x)
  BY DEF Finish, Lmax
<1>5. UNCHANGED <<phase, count>>
  BY DEF Finish
<1>6. Busy(w[p]) /\ (p # Inserter => p \in Workers)
  BY DEF Finish, Proc
<1>7. QED
  BY <1>1, <1>2, <1>3, <1>4, <1>5, <1>6 DEF RowsInv, Busy, Linking

LEMMA ReadEffect ==
    ASSUME TypeInv, NEW p \in Proc, ReadEntry(p)
    PROVE  /\ w[p].pc = "entry" /\ epLock = Free /\ epLock' = Free
           /\ UNCHANGED <<phase, next, count, graph, repairs, q>>
           /\ \A x \in Proc \ {p} : w'[x] = w[x]
           /\ \/ /\ w'[p] = [w[p] EXCEPT !.pc = "eplock"]
                 /\ UNCHANGED <<entry, top>>
              \/ /\ entry = None /\ Level[w[p].row] <= top
                 /\ entry' = w[p].row /\ top' = Level[w[p].row]
                 /\ Finish(p)
              \/ /\ entry # None /\ Level[w[p].row] <= top
                 /\ w'[p] = Descent(p, entry, top)
                 /\ UNCHANGED <<entry, top>>
<1>1. w \in [Proc -> Inserting] /\ w[p].pc = "entry" /\ WorkerOK(w[p])
  BY TypeFacts DEF ReadEntry
<1>2. /\ UNCHANGED <<phase, next, count, graph, repairs, q, epLock>>
      /\ epLock = Free
  BY DEF ReadEntry
<1>3. \A x \in Proc \ {p} : w'[x] = w[x]
  BY OthersKeep DEF InsertStep
<1>4. Level[w[p].row] \in Int /\ top \in Int
  BY <1>1, TypeFacts DEF WorkerOK, Layer
<1>5. CASE Level[w[p].row] > top
  BY <1>1, <1>2, <1>3, <1>5 DEF ReadEntry
<1>6. CASE ~(Level[w[p].row] > top) /\ entry = None
  <2>1. w' = [w EXCEPT ![p] = Inserted(p)]
        /\ entry' = w[p].row /\ top' = Level[w[p].row]
    BY <1>6 DEF ReadEntry
  <2>2. Finish(p)
    BY <1>1, <1>2, <1>3, <2>1 DEF Finish, Busy
  <2>3. QED
    BY <1>1, <1>2, <1>3, <1>4, <1>6, <2>1, <2>2
<1>7. CASE ~(Level[w[p].row] > top) /\ entry # None
  <2>1. w' = [w EXCEPT ![p] = Descent(p, entry, top)] /\ UNCHANGED <<entry, top>>
    BY <1>7 DEF ReadEntry
  <2>2. w'[p] = Descent(p, entry, top)
    BY <1>1, <2>1
  <2>3. QED
    BY <1>1, <1>2, <1>3, <1>4, <1>7, <2>1, <2>2
<1>8. QED
  BY <1>5, <1>6, <1>7

LEMMA TakeEffect ==
    ASSUME TypeInv, NEW p \in Proc, TakeEpLock(p)
    PROVE  /\ w[p].pc = "eplock" /\ epLock = Free
           /\ UNCHANGED <<phase, next, count, graph, repairs, q>>
           /\ \A x \in Proc \ {p} : w'[x] = w[x]
           /\ \/ /\ entry = None /\ epLock' = Free
                 /\ entry' = w[p].row /\ top' = Level[w[p].row]
                 /\ Finish(p)
              \/ /\ entry # None /\ epLock' = {p}
                 /\ w'[p] = Descent(p, entry, top)
                 /\ UNCHANGED <<entry, top>>
<1>1. w \in [Proc -> Inserting] /\ w[p].pc = "eplock"
  BY TypeFacts DEF TakeEpLock
<1>2. /\ UNCHANGED <<phase, next, count, graph, repairs, q>>
      /\ epLock = Free
  BY DEF TakeEpLock
<1>3. \A x \in Proc \ {p} : w'[x] = w[x]
  BY OthersKeep DEF InsertStep
<1>4. CASE entry = None
  <2>1. w' = [w EXCEPT ![p] = Inserted(p)] /\ epLock' = epLock
        /\ entry' = w[p].row /\ top' = Level[w[p].row]
    BY <1>4 DEF TakeEpLock
  <2>2. Finish(p)
    BY <1>1, <1>2, <1>3, <2>1 DEF Finish, Busy
  <2>3. QED
    BY <1>1, <1>2, <1>3, <1>4, <2>1, <2>2
<1>5. CASE entry # None
  <2>1. w' = [w EXCEPT ![p] = Descent(p, entry, top)]
        /\ UNCHANGED <<entry, top>> /\ epLock' = {p}
    BY <1>5 DEF TakeEpLock
  <2>2. w'[p] = Descent(p, entry, top)
    BY <1>1, <2>1
  <2>3. QED
    BY <1>1, <1>2, <1>3, <1>5, <2>1, <2>2
<1>6. QED
  BY <1>4, <1>5

\* A worker takes a chunk, or goes to its next row.
LEMMA ClaimEffect ==
    ASSUME TypeInv, RowsInv, NEW p \in Proc, Claim(p)
    PROVE  /\ phase = "build" /\ p \in Workers /\ w[p].pc = "idle"
           /\ w[p].row >= w[p].hi /\ Claimed < N /\ Claimed' = Claimed + Chunk
           /\ w'[p].pc = "idle" /\ w'[p].k = w[p].k /\ w'[p].sel = w[p].sel
           /\ w'[p].row \in Nat /\ w'[p].row >= Claimed /\ w'[p].row >= 1
           /\ w'[p].hi \in 0 .. N /\ w'[p].hi <= Claimed'
           /\ w'[p].row = 1 \/ w'[p].row = Claimed
           /\ w'[p].hi = Claimed' \/ w'[p].hi = N
           /\ \A x \in Proc \ {p} : w'[x] = w[x]
           /\ UNCHANGED <<phase, count, graph, entry, top, epLock, repairs, q>>
<1> DEFINE lo == IF next = 0 THEN 1 ELSE next * Chunk
           hi == MinOf(next * Chunk + Chunk, N)
<1>1. w \in [Proc -> Inserting] /\ w[p] \in Inserting /\ next \in Nat
  BY TypeFacts
<1>2. /\ phase = "build" /\ p \in Workers /\ w[p].pc = "idle"
      /\ w[p].row >= w[p].hi /\ Claimed < N /\ next' = next + 1
      /\ w' = [w EXCEPT ![p].row = lo, ![p].hi = hi]
      /\ UNCHANGED <<phase, count, graph, entry, top, epLock, repairs, q>>
  BY DEF Claim, Claimed
<1>3. Claimed' = Claimed + Chunk /\ Claimed \in Nat
  BY <1>1, <1>2, ClaimedNext, ClaimedFacts
<1>4. lo \in Nat /\ lo >= Claimed /\ lo >= 1 /\ (lo = 1 \/ lo = Claimed)
  <2>1. next = 0 => Claimed = 0
    BY <1>1, ClaimedFacts
  <2>2. next # 0 => Claimed >= 1
    <3>1. SUFFICES ASSUME next # 0 PROVE Claimed >= 1
      OBVIOUS
    <3>2. next - 1 \in Nat /\ Chunk \in Nat
      BY <1>1, <3>1
    <3>3. (next - 1) * Chunk \in Nat
          /\ ((next - 1) + 1) * Chunk = (next - 1) * Chunk + Chunk
      BY <3>2, ProductFacts
    <3>4. (next - 1) + 1 = next
      BY <1>1
    <3>5. Claimed = (next - 1) * Chunk + Chunk
      BY <3>3, <3>4 DEF Claimed
    <3>6. QED
      BY <3>3, <3>5
  <2>3. lo = IF next = 0 THEN 1 ELSE Claimed
    BY DEF Claimed
  <2> HIDE DEF lo
  <2>4. QED
    BY <1>3, <2>1, <2>2, <2>3
<1>5. hi \in 0 .. N /\ hi <= Claimed + Chunk /\ (hi = Claimed + Chunk \/ hi = N)
  <2>1. hi = MinOf(Claimed + Chunk, N)
    BY DEF Claimed
  <2> HIDE DEF hi
  <2>2. QED
    BY <1>3, <2>1 DEF MinOf
<1>6. \A x \in Proc \ {p} : w'[x] = w[x]
  BY OthersKeep DEF InsertStep
<1> HIDE DEF lo, hi
<1>7. /\ w'[p].row = lo /\ w'[p].hi = hi /\ w'[p].pc = "idle"
      /\ w'[p].k = w[p].k /\ w'[p].sel = w[p].sel
  BY <1>1, <1>2 DEF Inserting
<1>8. QED
  BY <1>2, <1>3, <1>4, <1>5, <1>6, <1>7

LEMMA NextRowEffect ==
    ASSUME TypeInv, NEW p \in Proc, NextRow(p)
    PROVE  /\ phase = "build" /\ p \in Workers /\ w[p].row < w[p].hi
           /\ w[p].pc = "idle" /\ w'[p] = [w[p] EXCEPT !.pc = "entry"]
           /\ \A x \in Proc \ {p} : w'[x] = w[x]
           /\ UNCHANGED <<phase, next, count, graph, entry, top, epLock,
                          repairs, q>>
<1>1. \A x \in Proc \ {p} : w'[x] = w[x]
  BY OthersKeep DEF InsertStep
<1>2. w \in [Proc -> Inserting]
  BY TypeFacts
<1>3. QED
  BY <1>1, <1>2 DEF NextRow

LEMMA NextRowsInv == TypeInv /\ RowsInv /\ [Next]_vars => RowsInv'
<1> SUFFICES ASSUME TypeInv, RowsInv, [Next]_vars PROVE RowsInv'
  OBVIOUS
<1>0. /\ w \in [Proc -> Inserting] /\ Claimed \in Nat /\ next \in Nat
      /\ Inserter \in Proc /\ Workers \subseteq Proc
      /\ \A x \in Proc : w[x].row \in Nat /\ w[x].hi \in 0 .. N
      /\ count \in Nat /\ phase \in {"start", "build", "repair", "serve"}
  BY TypeFacts DEF Inserting
<1>1. ASSUME UNCHANGED <<phase, next, count, w>> PROVE RowsInv'
  BY <1>1 DEF RowsInv, Claimed, Lmax
<1>2. CASE InsertRow0
  <2>1. phase = "start" /\ UNCHANGED <<count, w>> /\ Claimed' = Claimed
        /\ phase' = IF N = 0 THEN "serve" ELSE "build"
    BY <1>2 DEF InsertRow0, Claimed
  <2>2. \A x \in Proc : Lmax(x)' = Lmax(x)
    BY <2>1 DEF Lmax
  <2>3. count = 0
    BY <2>1 DEF RowsInv
  <2>4. QED
    BY <1>0, <2>1, <2>2, <2>3 DEF RowsInv, Busy
<1>3. CASE EndBuild
  BY <1>0, <1>3 DEF EndBuild, RowsInv, Claimed, Lmax, Busy
<1>4. CASE Repair
  BY <1>0, <1>4 DEF Repair, RowsInv, Claimed, Lmax, Busy
<1>5. CASE InsertNext
  BY <1>0, <1>5 DEF InsertNext, RowsInv, Claimed, Lmax, Busy, Linking, Inserting
<1>6. CASE Publish
  BY <1>0, <1>6 DEF Publish, RowsInv, Claimed, Lmax, Busy, Linking, Idle
<1>7. ASSUME NEW p \in Proc, Claim(p) PROVE RowsInv'
  BY <1>0, <1>7, ClaimEffect DEF RowsInv, Lmax, Busy, Linking
<1>8. ASSUME NEW p \in Proc, NextRow(p) PROVE RowsInv'
  <2>1. /\ phase = "build" /\ p \in Workers /\ w[p].row < w[p].hi
        /\ w[p].pc = "idle"
        /\ \A x \in Proc \ {p} : w'[x] = w[x]
        /\ UNCHANGED <<phase, count>> /\ Claimed' = Claimed
    BY <1>8, NextRowEffect DEF Claimed
  <2>2. /\ w'[p].pc = "entry" /\ w'[p].row = w[p].row /\ w'[p].hi = w[p].hi
        /\ w'[p].k = w[p].k
    <3>1. w[p] \in Inserting /\ w'[p] = [w[p] EXCEPT !.pc = "entry"]
      BY <1>0, <1>8, NextRowEffect
    <3>2. QED
      BY <3>1 DEF Inserting
  <2>3. QED
    BY <1>0, <2>1, <2>2 DEF RowsInv, Lmax, Busy, Linking
<1>9. ASSUME NEW p \in Proc, ReadEntry(p) PROVE RowsInv'
  <2>0. /\ UNCHANGED <<phase, next, count>>
        /\ \A x \in Proc \ {p} : w'[x] = w[x]
    BY <1>9, ReadEffect
  <2>1. CASE Finish(p)
    BY <2>1, RowsFinish
  <2>2. CASE w'[p] = [w[p] EXCEPT !.pc = "eplock"]
    <3>1. /\ w'[p].row = w[p].row /\ w'[p].hi = w[p].hi /\ w'[p].k = w[p].k
          /\ w'[p].pc = "eplock" /\ w[p].pc = "entry"
      BY <1>0, <1>9, <2>2, ReadEffect DEF Inserting
    <3>2. QED
      BY <2>0, <3>1, RowsFrame DEF Busy, Linking, RowsInv
  <2>3. CASE w'[p] = Descent(p, entry, top)
    <3>1. /\ w'[p].row = w[p].row /\ w'[p].hi = w[p].hi /\ w'[p].k = w[p].k
          /\ w'[p].pc \in {"greedy", "layer"} /\ w[p].pc = "entry"
      <4>1. w[p].pc = "entry"
        BY <1>9, ReadEffect
      <4>2. QED
        BY <2>3, <4>1, DescentFields
    <3>2. QED
      BY <2>0, <3>1, RowsFrame DEF Busy, Linking, RowsInv
  <2>4. QED
    BY <1>9, <2>1, <2>2, <2>3, ReadEffect
<1>10. ASSUME NEW p \in Proc, TakeEpLock(p) PROVE RowsInv'
  <2>1. CASE Finish(p)
    BY <2>1, RowsFinish
  <2>2. CASE w'[p] = Descent(p, entry, top)
    <3>1. /\ w'[p].row = w[p].row /\ w'[p].hi = w[p].hi /\ w'[p].k = w[p].k
          /\ w'[p].pc \in {"greedy", "layer"} /\ w[p].pc = "eplock"
      BY <1>10, <2>2, TakeEffect, DescentFields
    <3>2. QED
      BY <1>10, <3>1, TakeEffect, RowsFrame DEF Busy, Linking, RowsInv
  <2>3. QED
    BY <1>10, <2>1, <2>2, TakeEffect
<1>11. ASSUME NEW p \in Proc, WalkStep(p) PROVE RowsInv'
  BY <1>11, WalkKeeps, RowsFrame DEF Busy, Walking
<1>12. ASSUME NEW p \in Proc, EndLayer(p), ~(w[p].k < Lmax(p)) PROVE RowsInv'
  <2>1. Finish(p)
    BY <1>12, EndLayerEffect, OthersKeep DEF Finish, InsertStep, EndLayer, Busy
  <2>2. QED
    BY <2>1, RowsFinish
<1>13. QED
  BY <1>1, <1>2, <1>3, <1>4, <1>5, <1>6, <1>7, <1>8, <1>9, <1>10, <1>11, <1>12
     DEF Next, MainStep, InserterStep, Finished, InsertStep, WalkStep, Query,
         SearchStep, StartQuery, LoadCount, LoadSlot, EndList, Return, vars

-----------------------------------------------------------------------------
(* A row that is in the graph stays there.                                 *)

LEMMA FinishCloses ==
    ASSUME TypeInv, RowsInv, NEW p \in Proc, Finish(p), NEW i \in Node
    PROVE  /\ Open(i)' <=> Open(i) /\ i # w[p].row
           /\ w[p].row \in Node /\ Open(w[p].row)
<1>1. Claimed' = Claimed /\ Inserter \in Proc /\ Workers \subseteq Proc
  BY TypeFacts DEF Claimed, Finish
<1>2. /\ w'[p].pc = IF p = Inserter THEN "publish" ELSE "idle"
      /\ w'[p].row = IF p = Inserter THEN w[p].row ELSE w[p].row + 1
      /\ w'[p].hi = w[p].hi
  BY InsertedFields DEF Finish
<1>3. \A x \in Proc : w[x].row \in Nat /\ w[x].hi \in 0 .. N
  BY TypeFacts DEF Inserting
<1>4. /\ \A x \in Proc : x # p => w'[x] = w[x]
      /\ UNCHANGED <<phase, count>> /\ Busy(w[p])
  BY DEF Finish
<1>5. w[p].row \in Node
  BY <1>4, TypeFacts DEF Busy, WorkerOK
<1>6. i \in Nat /\ count \in Nat /\ Claimed \in Nat
  BY TypeFacts DEF Node
<1>7. CASE p = Inserter
  <2>1. /\ w[p].row = count /\ phase = "serve" /\ N <= count
        /\ w[p].pc \notin {"idle", "publish"}
    BY <1>4, <1>7 DEF RowsInv, Busy
  <2>2. \A x \in Workers : w'[x] = w[x]
    BY <1>1, <1>4, <1>7
  <2>3. Open(w[p].row)
    <3>1. /\ N <= w[p].row /\ count <= w[p].row
          /\ ~(w[Inserter].pc = "publish" /\ w[Inserter].row = w[p].row)
      BY <1>6, <1>7, <2>1
    <3>2. QED
      BY <3>1 DEF Open
  <2>4. \A x \in Workers : ~(w[x].row <= w[p].row /\ w[p].row < w[x].hi)
    BY <1>1, <1>3, <2>1, <1>6
  <2>5. QED
    BY <1>1, <1>2, <1>4, <1>5, <1>6, <1>7, <2>1, <2>2, <2>3, <2>4 DEF Open
<1>8. CASE p # Inserter
  <2>1. /\ p \in Workers /\ w[p].row < w[p].hi /\ 1 <= w[p].row
        /\ phase = "build" /\ w[p].hi <= Claimed
    BY <1>4, <1>8 DEF RowsInv, Proc
  <2>2. Open(w[p].row)
    BY <1>3, <2>1 DEF Open
  <2>3. w[p].row < N /\ ~(Claimed <= w[p].row)
    BY <1>1, <1>3, <1>6, <2>1
  <2>4. ASSUME NEW x \in Workers, x # p
        PROVE  ~(w[x].row <= w[p].row /\ w[p].row < w[x].hi)
    BY <1>1, <1>3, <2>1, <2>4 DEF RowsInv
  <2>5. w'[Inserter] = w[Inserter]
    BY <1>1, <1>4, <1>8
  <2>6. CASE i = w[p].row
    <3>1. ~(\E x \in Workers : w'[x].row <= i /\ i < w'[x].hi)
      BY <1>1, <1>2, <1>3, <1>4, <1>8, <2>4, <2>6
    <3>2. phase' # "start" /\ ~(N <= i) /\ ~(Claimed' <= i)
      BY <1>1, <1>3, <1>4, <2>1, <2>3, <2>6
    <3>4. ~Open(i)'
      BY <3>1, <3>2 DEF Open
    <3>3. QED
      BY <1>5, <2>2, <2>6, <3>4
  <2>7. CASE i # w[p].row
    <3>1. \A x \in Workers :
              w'[x].row <= i /\ i < w'[x].hi <=> w[x].row <= i /\ i < w[x].hi
      BY <1>1, <1>2, <1>3, <1>4, <1>6, <1>8, <2>1, <2>7
    <3>2. Open(i)' <=> Open(i)
      BY <1>1, <1>4, <2>5, <3>1 DEF Open
    <3>3. QED
      BY <1>5, <2>2, <2>7, <3>2
  <2>8. QED
    BY <2>6, <2>7
<1>9. QED
  BY <1>7, <1>8

LEMMA OpenSame ==
    ASSUME TypeInv, UNCHANGED <<phase, next, count>>,
           \A x \in Proc : /\ w'[x].row = w[x].row /\ w'[x].hi = w[x].hi
                           /\ w'[x].pc = "publish" <=> w[x].pc = "publish"
    PROVE  \A i \in Node : Open(i)' <=> Open(i)
BY TypeFacts DEF Open, Claimed

LEMMA OpenSteps ==
    ASSUME TypeInv, RowsInv, [Next]_vars
    PROVE  \/ \A i \in Node : Open(i)' <=> Open(i)
           \/ /\ InsertRow0 /\ N # 0
              /\ \A i \in Node : Open(i)' <=> Open(i) /\ i # 0
           \/ \E p \in Proc :
                 /\ Finish(p)
                 /\ \A i \in Node : Open(i)' <=> Open(i) /\ i # w[p].row
<1>0. /\ w \in [Proc -> Inserting] /\ Claimed \in Nat /\ next \in Nat
      /\ Inserter \in Proc /\ Workers \subseteq Proc
      /\ \A x \in Proc : w[x].row \in Nat /\ w[x].hi \in 0 .. N
      /\ count \in Nat /\ Node \subseteq Nat
      /\ phase \in {"start", "build", "repair", "serve"}
  <2>1. Node \subseteq Nat
    BY DEF Node
  <2>2. \A x \in Proc : w[x].row \in Nat /\ w[x].hi \in 0 .. N
    BY TypeFacts DEF Inserting
  <2>3. QED
    BY <2>1, <2>2, TypeFacts
<1>f. ASSUME NEW p \in Proc, Finish(p)
      PROVE  \A i \in Node : Open(i)' <=> Open(i) /\ i # w[p].row
  BY <1>f, FinishCloses
<1>1. ASSUME UNCHANGED <<phase, next, count, w>>
      PROVE  \A i \in Node : Open(i)' <=> Open(i)
  BY <1>1, OpenSame
<1>2. CASE InsertRow0
  <2>1. /\ phase = "start" /\ UNCHANGED <<count, w>> /\ Claimed' = Claimed
        /\ phase' = IF N = 0 THEN "serve" ELSE "build"
    BY <1>2 DEF InsertRow0, Claimed
  <2>2. /\ next = 0 /\ count = 0 /\ \A p \in Workers : w[p].hi = 0
        /\ w[Inserter].pc = "idle"
    BY <2>1 DEF RowsInv
  <2>3. Claimed = 0
    BY <2>2, ClaimedFacts
  <2>4. \A i \in Node : Open(i)' <=> N = 0 \/ i # 0
    BY <1>0, <2>1, <2>2, <2>3 DEF Open
  <2>5. \A i \in Node : Open(i)
    BY <2>1 DEF Open
  <2>6. QED
    BY <1>2, <2>4, <2>5
<1>3. CASE EndBuild
  <2>1. /\ phase = "build" /\ phase' = "repair" /\ w' = w /\ count' = N
        /\ Claimed' = Claimed /\ Claimed >= N
    BY <1>3 DEF EndBuild, Claimed
  <2>2. count = 0 /\ w[Inserter].pc = "idle"
    BY <2>1 DEF RowsInv
  <2>3. \A i \in Node : Open(i)' <=> Open(i)
    BY <1>0, <2>1, <2>2 DEF Open
  <2>4. QED
    BY <2>3
<1>4. CASE Repair
  <2>1. /\ phase = "repair" /\ phase' \in {"repair", "serve"}
        /\ UNCHANGED <<count, w>> /\ Claimed' = Claimed
    BY <1>4 DEF Repair, Claimed
  <2>2. \A i \in Node : Open(i)' <=> Open(i)
    BY <1>0, <2>1 DEF Open
  <2>3. QED
    BY <2>2
<1>5. CASE InsertNext
  <2>1. /\ w[Inserter].pc = "idle" /\ w'[Inserter].pc = "entry"
        /\ w'[Inserter].hi = w[Inserter].hi
        /\ \A x \in Workers : w'[x] = w[x]
        /\ UNCHANGED <<phase, count>> /\ Claimed' = Claimed
    BY <1>0, <1>5 DEF InsertNext, Inserting, Claimed
  <2>2. \A i \in Node : Open(i)' <=> Open(i)
    BY <1>0, <2>1 DEF Open
  <2>3. QED
    BY <2>2
<1>6. CASE Publish
  <2>1. /\ w[Inserter].pc = "publish" /\ w'[Inserter].pc = "idle"
        /\ \A x \in Workers : w'[x] = w[x]
        /\ phase' = phase /\ count' = w[Inserter].row + 1
        /\ Claimed' = Claimed
    BY <1>0, <1>6 DEF Publish, Claimed, Idle
  <2>2. w[Inserter].row = count
    BY <2>1 DEF RowsInv
  <2>3. ASSUME NEW i \in Node PROVE Open(i)' <=> Open(i)
    <3>1. i \in Nat /\ count \in Nat
      BY <1>0
    <3>2. w'[Inserter].pc # "publish" /\ count' = count + 1
      BY <2>1, <2>2
    <3>3. /\ (N <= i /\ count + 1 <= i)
          <=> (N <= i /\ count <= i /\ ~ (w[Inserter].row = i))
      BY <2>2, <3>1
    <3>4. (\E x \in Workers : w'[x].row <= i /\ i < w'[x].hi) <=>
          (\E x \in Workers : w[x].row <= i /\ i < w[x].hi)
      BY <2>1
    <3>5. QED
      BY <2>1, <3>2, <3>3, <3>4 DEF Open
  <2>4. QED
    BY <2>3
<1>7. ASSUME NEW p \in Proc, Claim(p) PROVE \A i \in Node : Open(i)' <=> Open(i)
  <2>1. /\ phase = "build" /\ p \in Workers
        /\ w[p].row >= w[p].hi /\ Claimed < N /\ Claimed' = Claimed + Chunk
        /\ w'[p].row \in Nat /\ w'[p].row >= Claimed /\ w'[p].row >= 1
        /\ w'[p].hi \in 0 .. N /\ w'[p].hi <= Claimed'
        /\ w'[p].row = 1 \/ w'[p].row = Claimed
        /\ w'[p].hi = Claimed' \/ w'[p].hi = N
        /\ \A x \in Proc \ {p} : w'[x] = w[x]
        /\ UNCHANGED <<phase, count>>
    BY <1>7, ClaimEffect
  <2>2. p # Inserter
    BY <2>1
  <2>3. SUFFICES ASSUME NEW i \in Node PROVE Open(i)' <=> Open(i)
    OBVIOUS
  <2>4. (\E x \in Workers : w'[x].row <= i /\ i < w'[x].hi) <=>
            \/ \E x \in Workers : w[x].row <= i /\ i < w[x].hi
            \/ w'[p].row <= i /\ i < w'[p].hi
    BY <1>0, <2>1
  <2>5. 1 <= i /\ i < N /\ Claimed <= i <=>
            \/ 1 <= i /\ i < N /\ Claimed' <= i
            \/ w'[p].row <= i /\ i < w'[p].hi
    BY <1>0, <2>1
  <2>6. w'[Inserter] = w[Inserter]
    BY <1>0, <2>1, <2>2
  <2>7. QED
    BY <2>1, <2>4, <2>5, <2>6 DEF Open
<1>8. ASSUME NEW p \in Proc, NextRow(p) \/ WalkStep(p)
      PROVE  \A i \in Node : Open(i)' <=> Open(i)
  <2>1. /\ \A x \in Proc \ {p} : w'[x] = w[x]
        /\ w'[p].row = w[p].row /\ w'[p].hi = w[p].hi
        /\ w'[p].pc # "publish" /\ w[p].pc # "publish"
        /\ UNCHANGED <<phase, next, count>>
    <3>1. CASE NextRow(p)
      <4>1. /\ w[p] \in Inserting /\ w'[p] = [w[p] EXCEPT !.pc = "entry"]
            /\ w[p].pc = "idle"
        BY <1>0, <3>1, NextRowEffect
      <4>2. w'[p].pc = "entry" /\ w'[p].row = w[p].row /\ w'[p].hi = w[p].hi
        BY <4>1 DEF Inserting
      <4>3. QED
        BY <3>1, <4>1, <4>2, NextRowEffect
    <3>2. CASE WalkStep(p)
      BY <3>2, WalkKeeps DEF Walking
    <3>3. QED
      BY <1>8, <3>1, <3>2
  <2>2. QED
    BY <2>1, OpenSame
<1>9. ASSUME NEW p \in Proc, ReadEntry(p) \/ TakeEpLock(p), ~Finish(p)
      PROVE  \A i \in Node : Open(i)' <=> Open(i)
  <2>1. /\ \A x \in Proc \ {p} : w'[x] = w[x]
        /\ UNCHANGED <<phase, next, count>>
        /\ \/ w'[p] = [w[p] EXCEPT !.pc = "eplock"]
           \/ w'[p] = Descent(p, entry, top)
        /\ w[p].pc # "publish"
    BY <1>9, ReadEffect, TakeEffect
  <2>2. w'[p].row = w[p].row /\ w'[p].hi = w[p].hi /\ w'[p].pc # "publish"
    <3>1. CASE w'[p] = [w[p] EXCEPT !.pc = "eplock"]
      <4>1. w[p] \in Inserting
        BY <1>0
      <4>2. QED
        BY <3>1, <4>1 DEF Inserting
    <3>2. CASE w'[p] = Descent(p, entry, top)
      BY <3>2, DescentFields
    <3>3. QED
      BY <2>1, <3>1, <3>2
  <2>3. QED
    BY <2>1, <2>2, OpenSame
<1>12. ASSUME NEW p \in Proc, EndLayer(p), ~(w[p].k < Lmax(p))
       PROVE  Finish(p)
  BY <1>12, EndLayerEffect, OthersKeep DEF Finish, InsertStep, EndLayer, Busy
<1>13. QED
  BY <1>f, <1>1, <1>2, <1>3, <1>4, <1>5, <1>6, <1>7, <1>8, <1>9, <1>12
     DEF Next, MainStep, InserterStep, Finished, InsertStep, WalkStep, Query,
         SearchStep, StartQuery, LoadCount, LoadSlot, EndList, Return, vars

-----------------------------------------------------------------------------
(* The entry point, step by step.                                          *)

\* The walk of p starts at the entry point, perhaps with the entry lock.
Starts(p) == /\ w[p].pc \in {"entry", "eplock"} /\ entry # None
             /\ epLock = Free
             /\ w'[p] = Descent(p, entry, top)
             /\ \A x \in Proc \ {p} : w'[x] = w[x]
             /\ UNCHANGED <<phase, next, count, entry, top, graph, q>>
             /\ \/ epLock' = Free /\ Level[w[p].row] <= top
                \/ epLock' = {p}

\* p inserts the first row of all.
FinishesFirst(p) == /\ Finish(p) /\ entry = None
                    /\ entry' = w[p].row /\ top' = Level[w[p].row]
                    /\ epLock = Free /\ epLock' = Free
                    /\ UNCHANGED <<graph, q>>

\* p ends the insertion of any other row.
FinishesLater(p) == /\ Finish(p) /\ w[p].pc = "link" /\ w[p].k = Lmax(p)
                    /\ w[p].pos > Len(w[p].sel[w[p].k])
                    /\ epLock' = epLock \ {p}
                    /\ IF Level[w[p].row] > w[p].top
                       THEN entry' = w[p].row /\ top' = Level[w[p].row]
                       ELSE UNCHANGED <<entry, top>>
                    /\ UNCHANGED <<graph, q>>

\* Any other step: no walk starts or ends, no row is closed.
Goes == /\ UNCHANGED <<entry, top, epLock>>
        /\ \A i \in Node : Open(i)' <=> Open(i)
        /\ \A x \in Proc :
               /\ Busy(w[x]) => Busy(w'[x]) /\ w'[x].row = w[x].row
               /\ Walking(w'[x]) <=> Walking(w[x])
               /\ Walking(w[x]) => w'[x].top = w[x].top

LEMMA Steps ==
    ASSUME TypeInv, RowsInv, [Next]_vars
    PROVE  \/ Goes
           \/ InsertRow0 /\ N # 0
           \/ \E p \in Proc : Starts(p) \/ FinishesFirst(p) \/ FinishesLater(p)
<1> USE DEF Busy, Walking
<1>0. /\ w \in [Proc -> Inserting] /\ Inserter \in Proc
      /\ Workers \subseteq Proc
  BY TypeFacts
<1>o. ASSUME \A p \in Proc : Busy(w[p]) => Busy(w'[p]),
             ~(InsertRow0 /\ N # 0)
      PROVE  \A i \in Node : Open(i)' <=> Open(i)
  <2>1. ASSUME NEW p \in Proc, Finish(p) PROVE FALSE
    BY <1>o, <2>1, InsertedFields DEF Finish
  <2>2. QED
    BY <1>o, <2>1, OpenSteps
<1>g. ASSUME UNCHANGED <<entry, top, epLock>>, ~(InsertRow0 /\ N # 0),
             \A x \in Proc :
                 /\ Busy(w[x]) => Busy(w'[x]) /\ w'[x].row = w[x].row
                 /\ Walking(w'[x]) <=> Walking(w[x])
                 /\ Walking(w[x]) => w'[x].top = w[x].top
      PROVE  Goes
  BY <1>g, <1>o DEF Goes
<1>1. ASSUME UNCHANGED <<entry, top, epLock, w>>, ~(InsertRow0 /\ N # 0)
      PROVE  Goes
  BY <1>1, <1>g
<1>2. CASE InsertRow0
  <2>1. CASE N = 0
    BY <1>2, <2>1, <1>1 DEF InsertRow0
  <2>2. QED
    BY <1>2, <2>1
<1>3. CASE EndBuild \/ Repair
  <2>1. phase # "start" /\ UNCHANGED <<entry, top, epLock, w>>
    BY <1>3 DEF EndBuild, Repair
  <2>2. ~InsertRow0
    BY <2>1 DEF InsertRow0
  <2>3. QED
    BY <1>1, <2>1, <2>2
<1>4. CASE InsertNext \/ Publish
  <2>1. /\ UNCHANGED <<entry, top, epLock>> /\ ~Busy(w[Inserter])
        /\ ~Walking(w'[Inserter]) /\ w' # w
        /\ \A x \in Proc : x # Inserter => w'[x] = w[x]
    <3>1. CASE InsertNext
      <4>1. w'[Inserter] = [w[Inserter] EXCEPT !.pc = "entry", !.row = count]
            /\ w[Inserter].pc = "idle" /\ w[Inserter] \in Inserting
        BY <1>0, <3>1 DEF InsertNext
      <4>2. w'[Inserter].pc = "entry"
        BY <4>1 DEF Inserting
      <4>3. QED
        BY <1>0, <3>1, <4>1, <4>2 DEF InsertNext
    <3>2. CASE Publish
      <4>1. w'[Inserter] = Idle /\ w[Inserter].pc = "publish"
        BY <1>0, <3>2 DEF Publish
      <4>2. w'[Inserter].pc = "idle"
        BY <4>1 DEF Idle
      <4>3. QED
        BY <1>0, <3>2, <4>1, <4>2 DEF Publish
    <3>3. QED
      BY <1>4, <3>1, <3>2
  <2>2. ~InsertRow0
    BY <2>1 DEF InsertRow0
  <2>3. QED
    BY <1>g, <2>1, <2>2
<1>5. ASSUME NEW p \in Proc, Claim(p) \/ NextRow(p) PROVE Goes
  <2>1. /\ UNCHANGED <<entry, top, epLock>> /\ phase = "build"
        /\ w[p].pc = "idle" /\ w'[p].pc \in {"idle", "entry"}
        /\ \A x \in Proc \ {p} : w'[x] = w[x]
    <3>1. CASE Claim(p)
      BY <3>1, ClaimEffect
    <3>2. CASE NextRow(p)
      <4>1. w[p] \in Inserting /\ w'[p] = [w[p] EXCEPT !.pc = "entry"]
        BY <1>0, <3>2, NextRowEffect
      <4>2. w'[p].pc = "entry"
        BY <4>1 DEF Inserting
      <4>3. QED
        BY <3>2, <4>2, NextRowEffect
    <3>3. QED
      BY <1>5, <3>1, <3>2
  <2>2. ~InsertRow0
    BY <2>1 DEF InsertRow0
  <2>3. QED
    BY <1>g, <2>1, <2>2
<1>6. ASSUME NEW p \in Proc, WalkStep(p) PROVE Goes
  <2>1. ~InsertRow0
    <3>1. Busy(w[p])
      BY <1>6, WalkKeeps
    <3>2. phase # "start"
      BY <1>0, <3>1, TypeFacts DEF RowsInv, Proc
    <3>3. QED
      BY <3>2 DEF InsertRow0
  <2>2. QED
    BY <1>6, <1>g, <2>1, WalkKeeps
<1>7. ASSUME NEW p \in Proc, ReadEntry(p)
      PROVE  Goes \/ Starts(p) \/ FinishesFirst(p)
  <2>1. CASE w'[p] = [w[p] EXCEPT !.pc = "eplock"] /\ UNCHANGED <<entry, top>>
    <3>1. w'[p].pc = "eplock" /\ w'[p].row = w[p].row
      <4>1. w[p] \in Inserting
        BY <1>0
      <4>2. QED
        BY <2>1, <4>1 DEF Inserting
    <3>2. /\ UNCHANGED <<entry, top, epLock>> /\ w[p].pc = "entry"
          /\ \A x \in Proc \ {p} : w'[x] = w[x]
      BY <1>7, <2>1, ReadEffect
    <3>3. ~InsertRow0
      BY <3>1, <3>2 DEF InsertRow0
    <3>4. QED
      BY <1>g, <3>1, <3>2, <3>3
  <2>2. QED
    BY <1>7, <2>1, ReadEffect DEF Starts, FinishesFirst
<1>8. ASSUME NEW p \in Proc, TakeEpLock(p)
      PROVE  Starts(p) \/ FinishesFirst(p)
  BY <1>8, TakeEffect DEF Starts, FinishesFirst
<1>9. ASSUME NEW p \in Proc, EndLayer(p), ~(w[p].k < Lmax(p))
      PROVE  FinishesLater(p)
  <2>1. Finish(p)
    BY <1>9, EndLayerEffect, OthersKeep DEF Finish, InsertStep, EndLayer
  <2>2. w[p].k \in Nat /\ Lmax(p) \in Nat /\ Workers \subseteq Proc
    <3>1. w[p] \in Inserting /\ WorkerOK(w[p]) /\ w[p].pc # "idle"
      BY <1>9, TypeFacts DEF EndLayer
    <3>2. /\ w[p].k \in Layer /\ w[p].top \in Layer
          /\ Level[w[p].row] \in Layer
      BY <3>1 DEF Inserting, WorkerOK
    <3>3. QED
      BY <3>2, TypeFacts DEF Lmax, MinOf, Layer
  <2>3. w[p].k = Lmax(p)
    BY <1>9, <2>2, EndLayerEffect DEF RowsInv, Linking
  <2>4. QED
    BY <1>9, <2>1, <2>3, EndLayerEffect DEF FinishesLater, EndLayer
<1>10. CASE UNCHANGED vars \/ \E s \in Searchers : Query(s)
  <2>1. UNCHANGED <<phase, entry, top, epLock, w>>
    BY <1>10 DEF Query, SearchStep, StartQuery, LoadCount, LoadSlot, EndList,
                 Return, vars
  <2>2. ~(InsertRow0 /\ N # 0)
    BY <2>1, <1>0, TypeFacts DEF InsertRow0
  <2>3. QED
    BY <1>1, <2>1, <2>2
<1>11. QED
  BY <1>2, <1>3, <1>4, <1>5, <1>6, <1>7, <1>8, <1>9, <1>10
     DEF Next, MainStep, InserterStep, Finished, InsertStep, WalkStep

\* Levels and rows as numbers, and an inserting thread's row as a node.
LEMMA LevelFacts ==
    ASSUME TypeInv
    PROVE  /\ \A i \in Node : Level[i] \in Layer
           /\ Layer \subseteq Nat /\ top \in Layer /\ top \in Nat
           /\ entry \in Node \cup {None} /\ None \notin Node
           /\ epLock \subseteq Proc
           /\ \A x \in Proc : /\ w[x].top \in Layer /\ w[x].lay \in Layer
                             /\ w[x].k \in Layer
           /\ \A x \in Proc : Busy(w[x]) => w[x].row \in Node
<1>1. Layer \subseteq Nat /\ None \notin Node
  BY DEF Layer, None, Node
<1>2. \A x \in Proc : /\ w[x].top \in Layer /\ w[x].lay \in Layer
                     /\ w[x].k \in Layer
  BY TypeFacts DEF Inserting
<1>3. \A x \in Proc : Busy(w[x]) => w[x].row \in Node
  BY TypeFacts DEF WorkerOK, Busy
<1>4. entry \in Node \cup {None} /\ epLock \subseteq Proc
  BY DEF TypeInv, Typed, SharedOK
<1>5. QED
  BY <1>1, <1>2, <1>3, <1>4, TypeFacts

LEMMA StartFields ==
    ASSUME TypeInv, NEW p \in Proc, Starts(p)
    PROVE  /\ Busy(w[p]) /\ ~Walking(w[p]) /\ Walking(w'[p])
           /\ w'[p].pc \in {"greedy", "layer"}
           /\ w'[p].row = w[p].row /\ w'[p].top = top /\ w'[p].lay = top
           /\ w'[p].sel = w[p].sel /\ w'[p].k = w[p].k
           /\ w'[p].cur = entry /\ w'[p].seen = {entry}
           /\ w'[p].cand = {entry}
BY DescentFields DEF Starts, Busy, Walking

LEMMA FinishFields ==
    ASSUME TypeInv, NEW p \in Proc, Finish(p)
    PROVE  /\ Busy(w[p]) /\ ~Walking(w'[p]) /\ ~Busy(w'[p])
           /\ w'[p].pc \in {"idle", "publish"} /\ w'[p].k = 0
           /\ \A l \in Layer : w'[p].sel[l] = << >>
BY InsertedFields DEF Finish, Busy, Walking

\* Before row 0 is inserted there is no entry point.
LEMMA NoEntryAtStart ==
    ASSUME TypeInv, RowsInv, HeightInv, phase = "start"
    PROVE  /\ entry = None /\ top = 0 /\ epLock = Free
           /\ \A p \in Proc : ~Busy(w[p])
<1>1. \A i \in Node : Open(i)
  BY DEF Open
<1>2. entry = None /\ top = 0
  BY <1>1, LevelFacts DEF HeightInv
<1>3. \A p \in Proc : ~Walking(w[p])
  BY <1>2 DEF HeightInv
<1>4. epLock = Free
  BY <1>3, LevelFacts DEF HeightInv, Free
<1>5. \A p \in Proc : ~Busy(w[p])
  BY TypeFacts DEF RowsInv, Busy, Proc
<1>6. QED
  BY <1>2, <1>4, <1>5

LEMMA NextHeightInv ==
    ASSUME TypeInv, RowsInv, HeightInv, [Next]_vars
    PROVE  HeightInv' /\ top <= top'
<1>1. CASE Goes
  <2>1. /\ UNCHANGED <<entry, top, epLock>>
        /\ \A i \in Node : Open(i)' <=> Open(i)
        /\ \A x \in Proc :
               /\ Walking(w'[x]) <=> Walking(w[x])
               /\ Walking(w[x]) => w'[x].top = w[x].top /\ w'[x].row = w[x].row
    BY <1>1 DEF Goes, Busy, Walking
  <2>2. entry # None => Open(entry)' = Open(entry)
    BY <2>1, LevelFacts DEF Open, Claimed
  <2>3. QED
    BY <2>1, <2>2, LevelFacts DEF HeightInv
<1>2. CASE InsertRow0 /\ N # 0
  <2>1. /\ entry = None /\ top = 0 /\ epLock = Free
        /\ \A p \in Proc : ~Busy(w[p])
    BY <1>2, NoEntryAtStart DEF InsertRow0
  <2>2. /\ entry' = 0 /\ top' = Level[0] /\ epLock' = Free /\ w' = w
        /\ phase' = "build" /\ phase = "start"
    BY <1>2, <2>1 DEF InsertRow0
  <2>3. \A i \in Node : Open(i)' <=> i # 0
    <3>1. \A i \in Node : Open(i)
      BY <2>2 DEF Open
    <3>2. ~Open(0)'
      <4>1. /\ \A x \in Workers : w[x].hi = 0 /\ w[x].row \in Nat
            /\ N \in Nat /\ N # 0
        BY <1>2, <2>2, TypeFacts DEF RowsInv, Inserting
      <4>2. QED
        BY <2>2, <4>1 DEF Open
    <3>3. 0 \in Node
      BY DEF Node
    <3>4. ~(\E p \in Proc : Finish(p))
      BY <2>1 DEF Finish
    <3>5. QED
      BY <3>1, <3>2, <3>3, <3>4, OpenSteps
  <2>4. QED
    BY <2>1, <2>2, <2>3, LevelFacts DEF HeightInv, Busy, Walking, Free, Node
<1>3. ASSUME NEW p \in Proc, Starts(p) PROVE HeightInv' /\ top <= top'
  <2>1. /\ UNCHANGED <<entry, top>> /\ epLock = Free /\ entry # None
        /\ \A x \in Proc \ {p} : w'[x] = w[x]
        /\ (epLock' = Free /\ Level[w[p].row] <= top) \/ epLock' = {p}
        /\ UNCHANGED <<phase, next, count>>
    BY <1>3 DEF Starts
  <2>2. Walking(w'[p]) /\ w'[p].top = top /\ w'[p].row = w[p].row
    BY <1>3, StartFields
  <2>3. \A i \in Node : Open(i)' <=> Open(i)
    <3>1. w'[p].hi = w[p].hi /\ w'[p].pc # "publish" /\ w[p].pc # "publish"
      BY <1>3, DescentFields DEF Starts
    <3>2. QED
      BY <2>1, <2>2, <3>1, OpenSame
  <2>4. Open(entry)' <=> Open(entry)
    BY <2>1, <2>3, LevelFacts DEF Open, Claimed
  <2>5. QED
    BY <2>1, <2>2, <2>3, <2>4, LevelFacts DEF HeightInv, Free
<1>4. ASSUME NEW p \in Proc, FinishesFirst(p) PROVE HeightInv' /\ top <= top'
  <2>1. /\ Finish(p) /\ entry = None /\ entry' = w[p].row
        /\ top' = Level[w[p].row] /\ epLock' = Free /\ epLock = Free
    BY <1>4 DEF FinishesFirst
  <2>2. /\ w[p].row \in Node /\ ~Walking(w'[p])
        /\ \A x \in Proc \ {p} : w'[x] = w[x]
    BY <2>1, FinishFields, LevelFacts DEF Finish
  <2>3. \A i \in Node : Open(i)' <=> Open(i) /\ i # w[p].row
    BY <2>1, FinishCloses
  <2>4. top = 0 /\ \A x \in Proc : ~Walking(w'[x])
    BY <2>1, <2>2 DEF HeightInv
  <2>5. QED
    BY <2>1, <2>2, <2>3, <2>4, LevelFacts DEF HeightInv, Free
<1>5. ASSUME NEW p \in Proc, FinishesLater(p) PROVE HeightInv' /\ top <= top'
  <2>1. /\ Finish(p) /\ Walking(w[p]) /\ epLock' = epLock \ {p}
        /\ IF Level[w[p].row] > w[p].top
           THEN entry' = w[p].row /\ top' = Level[w[p].row]
           ELSE UNCHANGED <<entry, top>>
    BY <1>5 DEF FinishesLater, Walking
  <2>2. /\ w[p].row \in Node /\ ~Walking(w'[p])
        /\ \A x \in Proc \ {p} : w'[x] = w[x]
    BY <2>1, FinishFields, LevelFacts DEF Finish
  <2>3. \A i \in Node : Open(i)' <=> Open(i) /\ i # w[p].row
    BY <2>1, FinishCloses
  <2>4. entry # None
    BY <2>1 DEF HeightInv
  <2>5. CASE Level[w[p].row] > w[p].top
    <3>1. p \in epLock
      <4>1. Level[w[p].row] \in Nat /\ w[p].top \in Nat
        BY <2>2, LevelFacts
      <4>2. p \notin epLock => Level[w[p].row] <= w[p].top
        BY <2>1 DEF HeightInv
      <4>3. QED
        BY <2>5, <4>1, <4>2
    <3>3. epLock = {p} /\ w[p].top = top
      BY <2>1, <3>1 DEF HeightInv
    <3>2. QED
      BY <2>1, <2>2, <2>3, <2>4, <2>5, <3>1, <3>3, LevelFacts DEF HeightInv
  <2>6. CASE ~(Level[w[p].row] > w[p].top)
    <3>1. UNCHANGED <<entry, top>> /\ Level[w[p].row] <= top
      BY <2>1, <2>2, <2>6, LevelFacts DEF HeightInv
    <3>2. Open(entry)' => Open(entry)
      BY <2>3, <2>4, <3>1, LevelFacts
    <3>3. \A x \in epLock' : x # p /\ x \in epLock /\ epLock' = {x}
      BY <2>1 DEF HeightInv
    <3>4. QED
      BY <2>1, <2>2, <2>3, <2>4, <3>1, <3>2, <3>3, LevelFacts DEF HeightInv
  <2>7. QED
    BY <2>5, <2>6
<1>6. QED
  BY <1>1, <1>2, <1>3, <1>4, <1>5, Steps

-----------------------------------------------------------------------------
(* What may be met stays so.                                               *)

\* The row of an insertion is open, and its alone.
LEMMA RowIsOpen ==
    ASSUME TypeInv, RowsInv, NEW p \in Proc, Busy(w[p])
    PROVE  /\ Open(w[p].row)
           /\ \A x \in Proc : Busy(w[x]) /\ w[x].row = w[p].row => x = p
<1>1. /\ \A x \in Proc : w[x].row \in Nat /\ w[x].hi \in 0 .. N
      /\ count \in Nat
  BY TypeFacts DEF Inserting
<1>2. \A x \in Proc : Busy(w[x]) =>
          \/ /\ x = Inserter /\ phase = "serve" /\ w[x].row = count
             /\ N <= count
          \/ /\ x \in Workers /\ phase = "build" /\ w[x].row < w[x].hi
  BY TypeFacts DEF RowsInv, Busy, Proc
<1>3. Open(w[p].row)
  <2>1. CASE p = Inserter
    BY <1>1, <1>2, <2>1 DEF Open, Busy
  <2>2. CASE p \in Workers
    BY <1>1, <1>2, <2>2 DEF Open
  <2>3. QED
    BY <2>1, <2>2 DEF Proc
<1>4. ASSUME NEW x \in Proc, Busy(w[x]), w[x].row = w[p].row, x # p PROVE FALSE
  <2>1. CASE p = Inserter
    BY <1>2, <1>4, <2>1
  <2>2. CASE x = Inserter
    BY <1>2, <1>4, <2>2
  <2>3. CASE p \in Workers /\ x \in Workers
    <3>1. w[p].row < w[p].hi /\ w[x].row < w[x].hi
      BY <1>4, <2>3 DEF RowsInv
    <3>2. w[p].hi <= w[x].row \/ w[x].hi <= w[p].row
      BY <1>4, <2>3, <3>1 DEF RowsInv
    <3>3. QED
      BY <1>1, <1>4, <3>1, <3>2
  <2>4. QED
    BY <2>1, <2>2, <2>3 DEF Proc
<1>5. QED
  BY <1>3, <1>4

\* The steps of one thread.
LEMMA ThreadSteps ==
    ASSUME TypeInv, RowsInv, [Next]_vars, NEW p \in Proc
    PROVE  \/ w'[p] = w[p] \/ WalkStep(p) \/ Finish(p)
           \/ w[p].pc \in {"idle", "entry", "eplock", "publish"}
<1>1. CASE \E x \in Proc : InsertStep(x)
  <2>1. PICK x \in Proc : InsertStep(x)
    BY <1>1
  <2>2. CASE x # p
    BY <2>1, <2>2, OthersKeep
  <2>3. CASE x = p
    <3>1. Claim(p) \/ NextRow(p) \/ ReadEntry(p) \/ TakeEpLock(p) =>
              w[p].pc \in {"idle", "entry", "eplock"}
      BY DEF Claim, NextRow, ReadEntry, TakeEpLock
    <3>2. EndLayer(p) /\ ~(w[p].k < Lmax(p)) => Finish(p)
      BY EndLayerEffect, OthersKeep DEF Finish, InsertStep, EndLayer, Busy
    <3>3. QED
      BY <2>1, <2>3, <3>1, <3>2 DEF InsertStep, WalkStep
  <2>4. QED
    BY <2>2, <2>3
<1>2. CASE InserterStep
  <2>1. w[Inserter].pc \in {"idle", "publish"}
    BY <1>2 DEF InserterStep, InsertNext, Publish
  <2>2. p # Inserter => w'[p] = w[p]
    BY <1>2, TypeFacts DEF InserterStep, InsertNext, Publish
  <2>3. QED
    BY <2>1, <2>2
<1>3. CASE MainStep \/ Finished \/ UNCHANGED vars \/ \E s \in Searchers : Query(s)
  BY <1>3 DEF MainStep, InsertRow0, EndBuild, Repair, Finished, Query,
     SearchStep, StartQuery, LoadCount, LoadSlot, EndList, Return, vars
<1>4. QED
  BY <1>1, <1>2, <1>3 DEF Next

LEMMA NewRowStays ==
    ASSUME TypeInv, RowsInv, [Next]_vars, NEW i \in Node, NEW l \in Layer,
           NewRow(i, l)'
    PROVE  NewRow(i, l)
<1>1. Open(i)
  BY OpenSteps DEF NewRow
<1>2. ASSUME NEW p \in Proc, Busy(w[p]), w[p].row = i PROVE Behind(w[p], l)
  <2>1. CASE w'[p] = w[p]
    BY <1>2, <2>1 DEF NewRow, Behind, Busy
  <2>2. CASE WalkStep(p)
    <3>1. /\ w'[p].row = i /\ Walking(w'[p])
          /\ Behind(w'[p], l) => Behind(w[p], l)
      BY <1>2, <2>2, WalkKeeps
    <3>2. Behind(w'[p], l)
      BY <3>1 DEF NewRow, Behind, Busy, Walking
    <3>3. QED
      BY <3>1, <3>2
  <2>3. CASE Finish(p)
    <3>1. ~Open(i)'
      BY <1>2, <2>3, FinishCloses
    <3>2. QED
      BY <3>1 DEF NewRow
  <2>4. CASE w[p].pc \in {"idle", "entry", "eplock", "publish"}
    <3>1. w[p].k = 0 /\ l \in Nat
      BY <2>4, LevelFacts DEF RowsInv, Linking
    <3>2. QED
      BY <2>4, <3>1 DEF Behind
  <2>5. QED
    BY <2>1, <2>2, <2>3, <2>4, ThreadSteps
<1>3. QED
  BY <1>1, <1>2 DEF NewRow

\* The holder of the entry lock keeps it until its row is not above the top
\* layer.
LEMMA HolderKeeps ==
    ASSUME TypeInv, RowsInv, HeightInv, [Next]_vars, NEW p \in epLock
    PROVE  \/ p \in epLock' /\ w'[p].row = w[p].row
           \/ Level[w[p].row] <= top'
<1>1. p \in Proc /\ Walking(w[p]) /\ epLock = {p} /\ w[p].top = top
  BY LevelFacts DEF HeightInv
<1>2. w[p].row \in Node /\ entry # None
  BY <1>1, LevelFacts DEF Walking, Busy, HeightInv
<1>3. CASE Goes
  BY <1>1, <1>3 DEF Goes, Walking, Busy
<1>4. CASE InsertRow0 /\ N # 0
  BY <1>2, <1>4, NoEntryAtStart DEF InsertRow0
<1>5. ASSUME NEW x \in Proc, Starts(x) \/ FinishesFirst(x) PROVE FALSE
  BY <1>1, <1>2, <1>5 DEF Starts, FinishesFirst, Free
<1>6. ASSUME NEW x \in Proc, FinishesLater(x)
      PROVE  \/ p \in epLock' /\ w'[p].row = w[p].row
             \/ Level[w[p].row] <= top'
  <2>1. CASE x = p
    <3>1. \/ top' = Level[w[p].row]
          \/ top' = top /\ ~(Level[w[p].row] > w[p].top)
      BY <1>6, <2>1 DEF FinishesLater
    <3>2. QED
      BY <1>1, <1>2, <3>1, LevelFacts
  <2>2. CASE x # p
    BY <1>1, <1>6, <2>2 DEF FinishesLater, Finish
  <2>3. QED
    BY <2>1, <2>2
<1>7. QED
  BY <1>3, <1>4, <1>5, <1>6, Steps

LEMMA GoodStays ==
    ASSUME TypeInv, RowsInv, HeightInv, [Next]_vars,
           NEW x \in Node, NEW l \in Layer, Good(x, l)
    PROVE  Good(x, l)'
<1>1. ~NewRow(x, l)'
  BY NewRowStays DEF Good
<1>2. Level[x] <= top => Level[x] <= top'
  <2>1. top' \in Nat /\ top <= top'
    <3>1. TypeInv'
      BY NextTypeInv
    <3>2. top' \in Layer
      BY <3>1 DEF TypeInv, Typed, SharedOK
    <3>3. QED
      BY <3>2, LevelFacts, NextHeightInv
  <2>2. QED
    BY <2>1, LevelFacts
<1>3. CASE \E p \in epLock : w[p].row = x
  BY <1>1, <1>3, HolderKeeps DEF Good
<1>4. CASE Level[x] <= top
  BY <1>1, <1>2, <1>4 DEF Good
<1>5. QED
  BY <1>3, <1>4 DEF Good

LEMMA NewRowAbove ==
    ASSUME NEW i, NEW l \in Layer, NEW h \in Layer, l <= h, NewRow(i, l), TypeInv
    PROVE  NewRow(i, h)
<1>1. \A p \in Proc : w[p].k \in Layer
  BY LevelFacts
<1>2. ASSUME NEW p \in Proc, Behind(w[p], l) PROVE Behind(w[p], h)
  BY <1>1, <1>2, LevelFacts DEF Behind
<1>3. QED
  BY <1>2 DEF NewRow

LEMMA GoodBelow ==
    ASSUME NEW x \in Node, NEW l \in Layer, NEW h \in Layer, l <= h, Good(x, h),
           TypeInv
    PROVE  Good(x, l)
<1>1. l <= Level[x]
  BY LevelFacts DEF Good
<1>2. QED
  BY <1>1, NewRowAbove DEF Good

LEMMA EntryIsGood ==
    ASSUME TypeInv, HeightInv, entry # None
    PROVE  entry \in Node /\ Good(entry, top)
BY LevelFacts DEF HeightInv, Good, NewRow

\* A row whose own list is not stored cannot be met.
LEMMA OwnRowIsNew ==
    ASSUME TypeInv, RowsInv, NEW p \in Proc, Busy(w[p]), NEW l \in Layer,
           Behind(w[p], l)
    PROVE  NewRow(w[p].row, l) /\ ~Good(w[p].row, l)
BY RowIsOpen DEF NewRow, Good

\* A row whose own list on the layer is stored can be met there.
LEMMA OwnRowIsGood ==
    ASSUME TypeInv, RowsInv, HeightInv, NEW p \in Proc, w[p].pc = "link"
    PROVE  w[p].row \in Node /\ Good(w[p].row, w[p].k)
<1>1. /\ Walking(w[p]) /\ Linking(w[p]) /\ w[p].row \in Node
      /\ w[p].k \in Layer /\ w[p].top \in Layer /\ Level[w[p].row] \in Layer
  BY LevelFacts DEF Walking, Linking, Busy
<1>2. w[p].k <= Level[w[p].row]
  BY <1>1, LevelFacts DEF RowsInv, Lmax, MinOf
<1>3. ~NewRow(w[p].row, w[p].k)
  BY <1>1, LevelFacts DEF NewRow, Busy, Behind
<1>4. p \notin epLock => Level[w[p].row] <= top
  BY <1>1, LevelFacts DEF HeightInv
<1>5. QED
  BY <1>1, <1>2, <1>3, <1>4 DEF Good

-----------------------------------------------------------------------------
(* The lists.                                                              *)

\* The steps that write a list.
LEMMA GraphSteps ==
    ASSUME [Next]_vars
    PROVE  \/ UNCHANGED graph \/ Repair
           \/ \E p \in Proc : StoreSlot(p) \/ StoreCount(p)
<1>1. ASSUME NEW p \in Proc, InsertStep(p), ~StoreSlot(p), ~StoreCount(p)
      PROVE  UNCHANGED graph
  <2>1. CASE Claim(p) \/ NextRow(p) \/ ReadEntry(p) \/ TakeEpLock(p)
    BY <2>1 DEF Claim, NextRow, ReadEntry, TakeEpLock
  <2>2. CASE Greedy(p) \/ Expand(p) \/ SelectLayer(p) \/ WriteOwn(p)
    BY <2>2 DEF Greedy, Expand, SelectLayer, WriteOwn
  <2>3. CASE Connect(p)
    BY <2>3 DEF Connect
  <2>4. CASE EndLayer(p)
    BY <2>4 DEF EndLayer
  <2>5. QED
    BY <1>1, <2>1, <2>2, <2>3, <2>4 DEF InsertStep
<1>2. CASE InserterStep \/ InsertRow0 \/ EndBuild \/ Finished \/ UNCHANGED vars
  BY <1>2 DEF InserterStep, InsertNext, Publish, InsertRow0, EndBuild, Finished,
              vars, graph
<1>3. ASSUME NEW s \in Searchers, Query(s) PROVE UNCHANGED graph
  BY <1>3 DEF Query, SearchStep, StartQuery, LoadCount, LoadSlot, EndList, Return
<1>4. QED
  BY <1>1, <1>2, <1>3 DEF Next, MainStep

\* Rows below N are in the graph for good when the repair pass runs.
LEMMA RepairRows ==
    ASSUME TypeInv, RowsInv, HeightInv, phase = "repair"
    PROVE  /\ \A i \in 0 .. N - 1 : i \in Node /\ Good(i, 0)
           /\ \A p \in Proc : ~Busy(w[p])
<1>1. /\ \A p \in Workers : w[p].row \in Nat /\ w[p].hi \in 0 .. N
      /\ \A p \in Workers : ~(w[p].row < w[p].hi) /\ ~Busy(w[p])
      /\ w[Inserter].pc = "idle" /\ N <= Claimed /\ Claimed \in Nat
  BY TypeFacts DEF RowsInv, Inserting
<1>2. ASSUME NEW i \in 0 .. N - 1 PROVE i \in Node /\ ~Open(i)
  <2>1. \A p \in Workers : ~(w[p].row <= i /\ i < w[p].hi)
    BY <1>1
  <2>2. QED
    BY <1>1, <2>1 DEF Open, Node
<1>3. QED
  BY <1>1, <1>2, LevelFacts DEF HeightInv, Good, NewRow, Busy, Proc

\* addKeep writes nodes of the old list and the new neighbor.
LEMMA KeptFacts ==
    ASSUME TypeInv, NEW u \in Node, NEW v \in Node, NEW new \in Kept(u, v)
    PROVE  /\ new \in ListOf(M0) \/ Len(new) = cnt[u][0] + 1
           /\ Len(new) \in 1 .. M0
           /\ \A j \in 1 .. Len(new) : new[j] \in Ids(u, 0) \cup {v}
<1>1. 0 \in Layer /\ cnt[u][0] \in 0 .. M0
  BY DEF TypeInv, Typed, SharedOK, Layer
<1>2. CASE cnt[u][0] < M0
  <2>1. new = Appended(u, 0, v)
    BY <1>2 DEF Kept
  <2>2. /\ Len(new) = cnt[u][0] + 1
        /\ \A j \in 1 .. Len(new) :
               new[j] = IF j <= cnt[u][0] THEN slots[u][0][j] ELSE v
    BY <1>1, <2>1 DEF Appended
  <2>3. ASSUME NEW j \in 1 .. Len(new) PROVE new[j] \in Ids(u, 0) \cup {v}
    <3>1. CASE j <= cnt[u][0]
      <4>1. j \in 1 .. cnt[u][0] /\ new[j] = slots[u][0][j]
        BY <1>1, <2>2, <3>1
      <4>2. QED
        BY <4>1 DEF Ids
    <3>2. CASE ~(j <= cnt[u][0])
      BY <2>2, <3>2
    <3>3. QED
      BY <3>1, <3>2
  <2>4. QED
    BY <1>1, <1>2, <2>2, <2>3
<1>3. CASE ~(cnt[u][0] < M0)
  <2>1. new \in Lists(Ids(u, 0) \cup {v}, M0)
    BY <1>3 DEF Kept
  <2>2. /\ Len(new) \in 1 .. M0
        /\ \A j \in 1 .. Len(new) : new[j] \in Ids(u, 0) \cup {v}
    BY <2>1, ListsFacts
  <2>3. Ids(u, 0) \cup {v} \subseteq Node
    BY <1>1, IdsAreNodes DEF TypeInv
  <2>4. new \in ListOf(M0)
    BY <2>1, <2>3, ListsMonotone, ListOfHas
  <2>5. QED
    BY <2>2, <2>4
<1>4. QED
  BY <1>2, <1>3

\* What the repair pass writes.
LEMMA RepairEffect ==
    ASSUME TypeInv, Repair, ~UNCHANGED graph
    PROVE  \E u, v \in 0 .. N - 1 : \E new \in Kept(u, v) :
              /\ u # v /\ u \in Node /\ v \in Node
              /\ cnt' = [cnt EXCEPT ![u][0] = Len(new)]
              /\ \A x \in Node, l \in Layer, j \in 1 .. M0 :
                    slots'[x][l][j] =
                        IF x = u /\ l = 0 /\ j <= Len(new) THEN new[j]
                        ELSE slots[x][l][j]
<1>1. PICK u, v \in 0 .. N - 1 : u # v /\ \E new \in Kept(u, v) : AddKeep(u, new)
  BY DEF Repair
<1>2. PICK new \in Kept(u, v) : AddKeep(u, new)
  BY <1>1
<1>3. u \in Node /\ v \in Node /\ 0 \in Layer
  BY DEF Node, Layer
<1>4. slots \in [Node -> [Layer -> [1 .. M0 -> Node]]]
  BY DEF TypeInv, Typed, SharedOK
<1>5. slots' = [slots EXCEPT ![u][0] =
                  [j \in 1 .. M0 |-> IF j <= Len(new) THEN new[j]
                                     ELSE slots[u][0][j]]]
      /\ cnt' = [cnt EXCEPT ![u][0] = Len(new)]
  BY <1>2, <1>3, <1>4 DEF AddKeep
<1>6. \A x \in Node, l \in Layer, j \in 1 .. M0 :
          slots'[x][l][j] = IF x = u /\ l = 0 /\ j <= Len(new) THEN new[j]
                            ELSE slots[x][l][j]
  BY <1>3, <1>4, <1>5
<1>7. QED
  BY <1>1, <1>2, <1>3, <1>5, <1>6

\* A slot keeps its node, or gets one that may be met and is not the owner.
LEMMA SlotSteps ==
    ASSUME TypeInv, RowsInv, HeightInv, ListsInv, WalksInv, [Next]_vars,
           NEW v \in Node, NEW l \in Layer, NEW j \in 1 .. M0
    PROVE  \/ slots'[v][l][j] = slots[v][l][j]
           \/ \A x \in Node : slots'[v][l][j] = x => Good(x, l) /\ x # v
<1>1. slots \in [Node -> [Layer -> [1 .. M0 -> Node]]] /\ cnt[v][l] \in 0 .. M0
  BY DEF TypeInv, Typed, SharedOK
<1>2. CASE UNCHANGED graph
  BY <1>2 DEF graph
<1>3. CASE Repair /\ ~UNCHANGED graph
  <2>1. PICK u, y \in 0 .. N - 1 : \E new \in Kept(u, y) :
              /\ u # y /\ u \in Node /\ y \in Node
              /\ slots'[v][l][j] =
                        IF v = u /\ l = 0 /\ j <= Len(new) THEN new[j]
                        ELSE slots[v][l][j]
    BY <1>3, RepairEffect
  <2>2. PICK new \in Kept(u, y) :
              /\ u # y /\ u \in Node /\ y \in Node
              /\ slots'[v][l][j] =
                        IF v = u /\ l = 0 /\ j <= Len(new) THEN new[j]
                        ELSE slots[v][l][j]
    BY <2>1
  <2>3. CASE v = u /\ l = 0 /\ j <= Len(new)
    <3>1. new[j] \in Ids(v, l) \cup {y}
      BY <2>2, <2>3, KeptFacts
    <3>2. \A x \in Ids(v, l) : x \in Node => Good(x, l) /\ x # v
      BY <1>1 DEF ListsInv, GoodSlots, Ids
    <3>3. Good(y, l) /\ y # v
      BY <1>3, <2>2, <2>3, RepairRows DEF Repair
    <3>4. QED
      BY <2>2, <2>3, <3>1, <3>2, <3>3
  <2>4. QED
    BY <2>2, <2>3
<1>4. ASSUME NEW p \in Proc, StoreSlot(p)
      PROVE  \/ slots'[v][l][j] = slots[v][l][j]
             \/ \A x \in Node : slots'[v][l][j] = x => Good(x, l) /\ x # v
  <2>1. /\ slots' = [slots EXCEPT ![w[p].dst][w[p].k][w[p].at] =
                                     w[p].new[w[p].at]]
        /\ w[p].at \in 1 .. Len(w[p].new) /\ w[p].pc = "store"
    BY <1>4, SlotEffect
  <2>2. w[p].dst \in Node /\ w[p].k \in Layer
    BY TypeFacts DEF Inserting
  <2>3. CASE v = w[p].dst /\ l = w[p].k /\ j = w[p].at
    <3>1. slots'[v][l][j] = w[p].new[w[p].at]
      BY <1>1, <2>1, <2>2, <2>3
    <3>2. \A x \in Node : w[p].new[w[p].at] = x => Good(x, l) /\ x # v
      <4>1. WritesOK(p)
        BY DEF WalksInv
      <4>2. \A a \in 1 .. Len(w[p].new), x \in Node :
                w[p].new[a] = x => Good(x, l) /\ x # v
        BY <2>1, <2>3, <4>1 DEF WritesOK
      <4>3. QED
        BY <2>1, <4>2
    <3>3. QED
      BY <3>1, <3>2
  <2>4. CASE ~(v = w[p].dst /\ l = w[p].k /\ j = w[p].at)
    <3> DEFINE d == w[p].dst
               k == w[p].k
               a == w[p].at
               n == w[p].new[w[p].at]
    <3>1. slots' = [slots EXCEPT ![d][k][a] = n] /\ d \in Node /\ k \in Layer
      BY <2>1, <2>2
    <3> HIDE DEF d, k, a, n
    <3>2. slots'[v][l][j] = slots[v][l][j]
      <4>1. CASE v # d
        BY <1>1, <3>1, <4>1
      <4>2. CASE v = d /\ l # k
        BY <1>1, <3>1, <4>2
      <4>3. CASE v = d /\ l = k /\ j # a
        BY <1>1, <3>1, <4>3
      <4>4. QED
        BY <2>4, <4>1, <4>2, <4>3 DEF d, k, a
    <3>3. QED
      BY <3>2
  <2>5. QED
    BY <2>3, <2>4
<1>5. ASSUME NEW p \in Proc, StoreCount(p) PROVE slots' = slots
  BY <1>5 DEF StoreCount
<1>6. QED
  BY <1>2, <1>3, <1>4, <1>5, GraphSteps

LEMMA NextListsInv ==
    ASSUME TypeInv, RowsInv, HeightInv, ListsInv, WalksInv, [Next]_vars
    PROVE  ListsInv'
<1>1. /\ slots \in [Node -> [Layer -> [1 .. M0 -> Node]]]
      /\ slots' \in [Node -> [Layer -> [1 .. M0 -> Node]]]
      /\ cnt \in [Node -> [Layer -> 0 .. M0]]
      /\ cnt' \in [Node -> [Layer -> 0 .. M0]]
  BY NextTypeInv DEF TypeInv, Typed, SharedOK
\* A list that keeps its count.
<1>2. ASSUME NEW v \in Node, NEW l \in Layer, cnt'[v][l] = cnt[v][l]
      PROVE  /\ \A j \in 1 .. cnt'[v][l], x \in Node :
                    slots'[v][l][j] = x => Good(x, l)' /\ x # v
             /\ NewRow(v, l)' => cnt'[v][l] = 0
  <2>1. ASSUME NEW j \in 1 .. cnt[v][l], NEW x \in Node, slots'[v][l][j] = x
        PROVE  Good(x, l)' /\ x # v
    <3>1. j \in 1 .. M0
      BY <1>1
    <3>2. Good(x, l) /\ x # v
      BY <2>1, <3>1, SlotSteps DEF ListsInv, GoodSlots
    <3>3. QED
      BY <3>2, GoodStays
  <2>2. NewRow(v, l)' => cnt[v][l] = 0
    BY NewRowStays DEF ListsInv
  <2>3. QED
    BY <1>2, <2>1, <2>2
\* A list that gets its count.
<1>3. ASSUME NEW p \in Proc, StoreCount(p), NEW v \in Node, NEW l \in Layer,
             v = w[p].dst, l = w[p].k
      PROVE  /\ \A j \in 1 .. cnt'[v][l], x \in Node :
                    slots'[v][l][j] = x => Good(x, l)' /\ x # v
             /\ NewRow(v, l)' => cnt'[v][l] = 0
  <2>1. /\ w[p].pc = "store" /\ w'[p].pc = "link"
        /\ w'[p].row = w[p].row /\ w'[p].k = w[p].k
        /\ w[p].at > Len(w[p].new) /\ cnt'[v][l] = Len(w[p].new)
        /\ Len(w[p].new) \in 0 .. M0
    <3>1. cnt' = [cnt EXCEPT ![w[p].dst][w[p].k] = Len(w[p].new)]
      BY <1>3, CountEffect
    <3>2. cnt'[v][l] = Len(w[p].new)
      BY <1>1, <1>3, <3>1
    <3>3. QED
      BY <1>3, <3>2, CountEffect
  <2>2. slots' = slots
    BY <1>3 DEF StoreCount
  <2>3. \A j \in 1 .. Len(w[p].new) :
            /\ slots[v][l][j] = w[p].new[j]
            /\ \A x \in Node : w[p].new[j] = x => Good(x, l) /\ x # v
    <3>1. w[p].at \in Nat
      BY TypeFacts DEF Inserting
    <3>2. QED
      BY <1>3, <2>1, <3>1 DEF WalksInv, WritesOK
  <2>4. ~NewRow(v, l)'
    <3>1. SUFFICES ASSUME NewRow(v, l)' PROVE FALSE
      OBVIOUS
    <3>2. NewRow(v, l)
      BY <3>1, NewRowStays
    <3>3. CASE w[p].pos = 0
      <4>1. v = w[p].row
        BY <1>3, <2>1, <3>3 DEF WalksInv, WritesOK
      <4>2. Behind(w'[p], l)
        BY <2>1, <3>1, <4>1 DEF NewRow, Behind, Busy
      <4>3. QED
        BY <1>3, <2>1, <4>2, LevelFacts DEF Behind
    <3>4. CASE w[p].pos # 0
      <4>1. Good(v, l)
        BY <1>3, <2>1, <3>4 DEF WalksInv, WritesOK
      <4>2. QED
        BY <3>2, <4>1 DEF Good
    <3>5. QED
      BY <3>3, <3>4
  <2>5. QED
    BY <2>1, <2>2, <2>3, <2>4, GoodStays
\* A list that the repair pass changes.
<1>4. ASSUME Repair, ~UNCHANGED graph, NEW v \in Node, NEW l \in Layer
      PROVE  /\ \A j \in 1 .. cnt'[v][l], x \in Node :
                    slots'[v][l][j] = x => Good(x, l)' /\ x # v
             /\ NewRow(v, l)' => cnt'[v][l] = 0
  <2>1. PICK u, y \in 0 .. N - 1 : \E new \in Kept(u, y) :
              /\ u # y /\ u \in Node /\ y \in Node
              /\ cnt' = [cnt EXCEPT ![u][0] = Len(new)]
              /\ \A j \in 1 .. M0 :
                    slots'[v][l][j] =
                        IF v = u /\ l = 0 /\ j <= Len(new) THEN new[j]
                        ELSE slots[v][l][j]
    BY <1>4, RepairEffect
  <2>2. PICK new \in Kept(u, y) :
              /\ u # y /\ u \in Node /\ y \in Node
              /\ cnt' = [cnt EXCEPT ![u][0] = Len(new)]
              /\ \A j \in 1 .. M0 :
                    slots'[v][l][j] =
                        IF v = u /\ l = 0 /\ j <= Len(new) THEN new[j]
                        ELSE slots[v][l][j]
    BY <2>1
  <2>3. CASE v = u /\ l = 0
    <3>1. cnt'[v][l] = Len(new) /\ Len(new) \in 1 .. M0
      BY <1>1, <2>2, <2>3, KeptFacts
    <3>2. \A j \in 1 .. Len(new) : slots'[v][l][j] \in Ids(v, l) \cup {y}
      <4>1. \A j \in 1 .. Len(new) : new[j] \in Ids(v, l) \cup {y}
        BY <2>2, <2>3, KeptFacts
      <4>2. ASSUME NEW j \in 1 .. Len(new) PROVE slots'[v][l][j] = new[j]
        <5>1. j \in 1 .. M0 /\ j <= Len(new)
          BY <3>1
        <5>2. QED
          BY <2>2, <2>3, <5>1
      <4>3. QED
        BY <4>1, <4>2
    <3>3. \A x \in Ids(v, l) : x \in Node => Good(x, l) /\ x # v
      BY <1>1 DEF ListsInv, GoodSlots, Ids
    <3>4. Good(y, l) /\ y # v /\ Good(v, l)
      BY <1>4, <2>2, <2>3, RepairRows DEF Repair
    <3>5. ~NewRow(v, l)'
      BY <3>4, NewRowStays DEF Good
    <3>6. QED
      BY <3>1, <3>2, <3>3, <3>4, <3>5, GoodStays
  <2>4. CASE ~(v = u /\ l = 0)
    <3>1. cnt'[v][l] = cnt[v][l]
      BY <1>1, <2>2, <2>4
    <3>2. QED
      BY <1>2, <3>1
  <2>5. QED
    BY <2>3, <2>4
<1>5. ASSUME NEW v \in Node, NEW l \in Layer
      PROVE  /\ \A j \in 1 .. cnt'[v][l], x \in Node :
                    slots'[v][l][j] = x => Good(x, l)' /\ x # v
             /\ NewRow(v, l)' => cnt'[v][l] = 0
  <2>1. CASE UNCHANGED graph
    BY <1>2, <2>1 DEF graph
  <2>2. CASE Repair /\ ~UNCHANGED graph
    BY <1>4, <2>2
  <2>3. ASSUME NEW p \in Proc, StoreSlot(p) PROVE cnt' = cnt
    BY <2>3 DEF StoreSlot
  <2>4. ASSUME NEW p \in Proc, StoreCount(p), ~(v = w[p].dst /\ l = w[p].k)
        PROVE  cnt'[v][l] = cnt[v][l]
    <3> DEFINE d == w[p].dst
               k == w[p].k
               n == Len(w[p].new)
    <3>1. cnt' = [cnt EXCEPT ![d][k] = n] /\ d \in Node /\ k \in Layer
      BY <2>4, CountEffect
    <3>2. ~(v = d /\ l = k)
      BY <2>4
    <3> HIDE DEF d, k, n
    <3>3. QED
      BY <1>1, <3>1, <3>2
  <2>5. QED
    BY <1>2, <1>3, <2>1, <2>2, <2>3, <2>4, GraphSteps
<1>6. QED
  BY <1>5 DEF ListsInv, GoodSlots

-----------------------------------------------------------------------------
(* The selections.                                                         *)

LEMMA SelectionFacts ==
    ASSUME NEW S \in SUBSET Node, NEW limit \in Nat, limit <= M0,
           NEW f \in Selections(S, limit)
    PROVE  /\ f # << >> /\ Len(f) \in 1 .. limit /\ f \in ListOf(M0)
           /\ \A j \in 1 .. Len(f) : f[j] \in S
           /\ \A a, b \in 1 .. Len(f) : f[a] = f[b] => a = b
<1>1. f \in Lists(S, limit)
  BY DEF Selections
<1>2. /\ Len(f) \in 1 .. limit /\ DOMAIN f = 1 .. Len(f)
      /\ \A j \in 1 .. Len(f) : f[j] \in S
  BY <1>1, ListsFacts
<1>3. f \in ListOf(M0)
  BY <1>1, ListsMonotone, ListOfHas
<1>4. f # << >>
  BY <1>2
<1>5. QED
  BY <1>2, <1>3, <1>4 DEF Selections

LEMMA AppendedIs ==
    ASSUME TypeInv, NEW v \in Node, NEW l \in Layer, NEW i
    PROVE  /\ Len(Appended(v, l, i)) = cnt[v][l] + 1
           /\ Len(Appended(v, l, i)) > 0
           /\ \A j \in 1 .. Len(Appended(v, l, i)) :
                 Appended(v, l, i)[j] \in Ids(v, l) \cup {i}
           /\ \A j \in 1 .. Len(Appended(v, l, i)) :
                 j < cnt[v][l] + 1 => slots[v][l][j] = Appended(v, l, i)[j]
<1>1. cnt[v][l] \in Nat
  BY DEF TypeInv, Typed, SharedOK
<1>2. /\ Len(Appended(v, l, i)) = cnt[v][l] + 1
      /\ \A j \in 1 .. cnt[v][l] + 1 :
            Appended(v, l, i)[j] = IF j <= cnt[v][l] THEN slots[v][l][j] ELSE i
  BY <1>1 DEF Appended
<1>3. \A j \in 1 .. cnt[v][l] : slots[v][l][j] \in Ids(v, l)
  BY DEF Ids
<1> DEFINE n == cnt[v][l]
           f == Appended(v, l, i)
<1>4. /\ n \in Nat /\ Len(f) = n + 1
      /\ \A j \in 1 .. n + 1 : f[j] = IF j <= n THEN slots[v][l][j] ELSE i
      /\ \A j \in 1 .. n : slots[v][l][j] \in Ids(v, l)
  BY <1>1, <1>2, <1>3
<1> HIDE DEF n, f
<1>5. \A j \in 1 .. Len(f) : f[j] \in Ids(v, l) \cup {i}
  <2>1. SUFFICES ASSUME NEW j \in 1 .. n + 1 PROVE f[j] \in Ids(v, l) \cup {i}
    BY <1>4
  <2>2. j <= n => j \in 1 .. n
    BY <1>4
  <2>3. QED
    BY <1>4, <2>2
<1>6. \A j \in 1 .. Len(f) : j < n + 1 => slots[v][l][j] = f[j]
  BY <1>4
<1>7. Len(f) > 0
  BY <1>4
<1>8. QED
  BY <1>4, <1>5, <1>6, <1>7 DEF n, f

\* The nodes read from a list and from a walk are nodes.
LEMMA WalkNodes ==
    ASSUME TypeInv, NEW p \in Proc
    PROVE  /\ w[p].seen \subseteq Node /\ w[p].cand \subseteq Node
           /\ w[p].cur \in Node
           /\ \A l \in Layer : /\ Len(w[p].sel[l]) \in 0 .. M
                              /\ \A j \in 1 .. Len(w[p].sel[l]) :
                                     w[p].sel[l][j] \in Node
                              /\ w[p].sel[l] # << >> <=> Len(w[p].sel[l]) > 0
           /\ Len(w[p].new) \in 0 .. M0
<1>1. w[p] \in Inserting
  BY TypeFacts
<1>2. /\ w[p].seen \subseteq Node /\ w[p].cand \subseteq Node
      /\ w[p].cur \in Node /\ w[p].sel \in [Layer -> ListOf(M)]
      /\ w[p].new \in ListOf(M0)
  BY <1>1 DEF Inserting
<1>3. ASSUME NEW l \in Layer
      PROVE  /\ Len(w[p].sel[l]) \in 0 .. M
             /\ \A j \in 1 .. Len(w[p].sel[l]) : w[p].sel[l][j] \in Node
             /\ w[p].sel[l] # << >> <=> Len(w[p].sel[l]) > 0
  <2>1. w[p].sel[l] \in ListOf(M)
    BY <1>2
  <2>2. w[p].sel[l] \in Lists(Node, M) => Len(w[p].sel[l]) \in 1 .. M
    BY ListsFacts
  <2>3. QED
    BY <2>1, <2>2, ListOfFacts DEF ListOf
<1>4. QED
  BY <1>2, <1>3, ListOfFacts

LEMMA LmaxFacts ==
    ASSUME TypeInv, NEW p \in Proc, Busy(w[p])
    PROVE  /\ Lmax(p) \in Nat /\ Lmax(p) <= Level[w[p].row]
           /\ Lmax(p) <= w[p].top
           /\ Lmax(p) = Level[w[p].row] \/ Lmax(p) = w[p].top
           /\ Lmax(p) \in Layer
BY LevelFacts DEF Lmax, MinOf, Layer

\* The steps of a thread that has no entry point yet, or no row.
LEMMA BeforeSteps ==
    ASSUME TypeInv, RowsInv, [Next]_vars, NEW p \in Proc, w'[p] # w[p],
           w[p].pc \in {"idle", "entry", "eplock", "publish"},
           ~Starts(p), ~Finish(p)
    PROVE  /\ w'[p].pc \in {"idle", "entry", "eplock"}
           /\ w'[p].sel = w[p].sel \/ w'[p] = Idle
           /\ w'[p].k = w[p].k \/ w'[p] = Idle
           /\ UNCHANGED <<entry, top, epLock, graph>>
<1>1. w \in [Proc -> Inserting] /\ w[p] \in Inserting /\ Inserter \in Proc
  BY TypeFacts
<1>2. CASE InsertNext
  <2>1. p = Inserter
    BY <1>1, <1>2 DEF InsertNext
  <2>2. w'[p] = [w[p] EXCEPT !.pc = "entry", !.row = count]
    BY <1>1, <1>2, <2>1 DEF InsertNext
  <2>3. QED
    BY <1>1, <1>2, <2>2 DEF InsertNext, Inserting
<1>3. CASE Publish
  <2>1. w'[p] = Idle
    BY <1>1, <1>3 DEF Publish
  <2>2. QED
    BY <1>3, <2>1 DEF Publish, Idle
<1>4. CASE Claim(p)
  BY <1>4, ClaimEffect
<1>5. CASE NextRow(p)
  <2>1. w'[p] = [w[p] EXCEPT !.pc = "entry"]
    BY <1>5, NextRowEffect
  <2>2. QED
    BY <1>1, <1>5, <2>1, NextRowEffect DEF Inserting
<1>6. CASE ReadEntry(p)
  <2>1. w'[p] = [w[p] EXCEPT !.pc = "eplock"] /\ UNCHANGED <<entry, top, epLock, graph>>
    BY <1>6, ReadEffect DEF Starts
  <2>2. QED
    BY <1>1, <2>1 DEF Inserting
<1>7. CASE TakeEpLock(p)
  BY <1>7, TakeEffect DEF Starts
<1>8. ASSUME NEW x \in Proc, InsertStep(x) PROVE x = p
  BY <1>8, OthersKeep
<1>9. CASE InsertStep(p)
  <2>1. Claim(p) \/ NextRow(p) \/ ReadEntry(p) \/ TakeEpLock(p)
    BY <1>9 DEF InsertStep, Greedy, Expand, SelectLayer, WriteOwn, Connect,
                StoreSlot, StoreCount, EndLayer
  <2>2. QED
    BY <1>4, <1>5, <1>6, <1>7, <2>1
<1>10. CASE MainStep \/ Finished \/ UNCHANGED vars \/ \E s \in Searchers : Query(s)
  BY <1>10 DEF MainStep, InsertRow0, EndBuild, Repair, Finished, Query,
     SearchStep, StartQuery, LoadCount, LoadSlot, EndList, Return, vars
<1>11. QED
  BY <1>2, <1>3, <1>8, <1>9, <1>10 DEF Next, InserterStep

\* The list that connect is about to write.
LEMMA ConnectList ==
    ASSUME TypeInv, NEW p \in Proc, Connect(p), w'[p].pc = "store",
           NEW v \in Node, NEW l \in Layer, v = w'[p].dst, l = w[p].k
    PROVE  /\ Len(w'[p].new) > 0
           /\ \A j \in 1 .. Len(w'[p].new) :
                 w'[p].new[j] \in Ids(v, l) \cup {w[p].row}
           /\ \A j \in 1 .. Len(w'[p].new) :
                 j < w'[p].at => slots[v][l][j] = w'[p].new[j]
<1>1. /\ w[p].pc = "link"
      /\ \/ /\ w'[p].new = Appended(v, l, w[p].row)
            /\ w'[p].at = cnt[v][l] + 1
         \/ /\ w'[p].new \in Selections(Ids(v, l) \cup {w[p].row}, CapOf(l))
            /\ w'[p].at = 1
  BY ConnectEffect
<1>2. w[p].row \in Node /\ CapOf(l) \in Nat /\ CapOf(l) <= M0
  BY <1>1, LevelFacts DEF CapOf, Busy
<1>3. Ids(v, l) \cup {w[p].row} \in SUBSET Node
  BY <1>2, IdsAreNodes DEF TypeInv
<1>4. CASE w'[p].new = Appended(v, l, w[p].row) /\ w'[p].at = cnt[v][l] + 1
  BY <1>4, AppendedIs
<1>5. ASSUME NEW f \in Selections(Ids(v, l) \cup {w[p].row}, CapOf(l))
      PROVE  Len(f) \in Nat /\ Len(f) > 0 /\ \A j \in 1 .. Len(f) :
                 f[j] \in Ids(v, l) \cup {w[p].row}
  <2> DEFINE S == Ids(v, l) \cup {w[p].row}
             c == CapOf(l)
  <2>1. S \in SUBSET Node /\ c \in Nat /\ c <= M0 /\ f \in Selections(S, c)
    BY <1>2, <1>3
  <2> HIDE DEF S, c
  <2>2. Len(f) \in 1 .. c /\ \A j \in 1 .. Len(f) : f[j] \in S
    BY <2>1, SelectionFacts
  <2>3. QED
    BY <2>1, <2>2 DEF S
<1>6. CASE /\ w'[p].new \in Selections(Ids(v, l) \cup {w[p].row}, CapOf(l))
           /\ w'[p].at = 1
  BY <1>5, <1>6
<1>7. QED
  BY <1>1, <1>4, <1>6

LEMMA NextSelInv ==
    ASSUME TypeInv, RowsInv, SelInv, [Next]_vars
    PROVE  SelInv'
<1> USE DEF Busy, Walking, Linking
<1>1. SUFFICES ASSUME NEW p \in Proc PROVE SelOK(p)'
  BY DEF SelInv
<1>2. SelOK(p)
  BY DEF SelInv
<1>t. /\ w[p].lay \in Nat /\ w[p].top \in Nat /\ w[p].k \in Layer
      /\ top \in Nat /\ Layer \subseteq Nat /\ w[p] \in Inserting
      /\ WorkerOK(w[p])
  BY LevelFacts, TypeFacts
<1>3. CASE w'[p] = w[p]
  BY <1>2, <1>3 DEF SelOK, Lmax
\* A thread without an entry point has no selection.
<1>4. ASSUME ~Walking(w'[p]), \A l \in Layer : w'[p].sel[l] = << >>
      PROVE  SelOK(p)'
  BY <1>4 DEF SelOK
<1>5. ASSUME ~Walking(w[p])
      PROVE  \A l \in Layer : w[p].sel[l] = << >>
  BY <1>2, <1>5 DEF SelOK
<1>6. CASE Finish(p)
  BY <1>4, <1>6, FinishFields
<1>7. CASE Starts(p)
  <2>1. /\ w'[p].pc = IF top > Level[w[p].row] THEN "greedy" ELSE "layer"
        /\ w'[p].lay = top /\ w'[p].top = top /\ w'[p].row = w[p].row
        /\ w'[p].sel = w[p].sel /\ Busy(w[p]) /\ ~Walking(w[p])
    BY <1>7, StartFields, DescentFields DEF Starts
  <2>2. Lmax(p)' = MinOf(Level[w[p].row], top)
    BY <2>1 DEF Lmax
  <2>3. Level[w[p].row] \in Nat
    BY <2>1, LevelFacts
  <2>4. QED
    BY <1>t, <1>5, <2>1, <2>2, <2>3 DEF SelOK, MinOf
<1>8. ASSUME WalkStep(p) PROVE SelOK(p)'
  <2>0. /\ Lmax(p)' = Lmax(p) /\ Walking(w[p]) /\ Lmax(p) \in Nat
        /\ Lmax(p) <= Level[w[p].row] /\ Lmax(p) <= w[p].top
        /\ Lmax(p) = Level[w[p].row] \/ Lmax(p) = w[p].top
        /\ Level[w[p].row] \in Nat /\ w'[p].top = w[p].top
    BY <1>8, WalkKeeps, LmaxFacts, LevelFacts DEF Lmax
  <2>1. CASE Greedy(p)
    <3>1. /\ w[p].pc = "greedy" /\ Level[w[p].row] < w[p].lay
          /\ w'[p].sel = w[p].sel
          /\ \/ w'[p].pc = "greedy" /\ w'[p].lay = w[p].lay
             \/ /\ w'[p].lay = w[p].lay - 1
                /\ IF w[p].lay - 1 > Level[w[p].row]
                   THEN w'[p].pc = "greedy" ELSE w'[p].pc = "layer"
      BY <2>1, GreedyEffect
    <3>2. w[p].lay <= w[p].top /\ \A l \in Layer : w'[p].sel[l] = << >>
      BY <1>2, <3>1 DEF SelOK
    <3>3. w'[p].pc = "greedy" => w'[p].lay <= w'[p].top
      BY <1>t, <2>0, <3>1, <3>2
    <3>4. w'[p].pc = "layer" => w'[p].lay = Lmax(p)
      BY <1>t, <2>0, <3>1, <3>2
    <3>5. w'[p].pc \in {"greedy", "layer"}
      BY <3>1
    <3>6. w'[p].pc = "layer" => w'[p].lay <= Lmax(p)
              /\ \A l \in Layer : ~(w'[p].lay < l /\ l <= Lmax(p))
      BY <1>t, <2>0, <3>4
    <3>7. QED
      BY <2>0, <3>2, <3>3, <3>5, <3>6 DEF SelOK
  <2>2. CASE Expand(p)
    BY <1>2, <2>0, <2>2, ExpandEffect DEF SelOK
  <2>3. CASE SelectLayer(p)
    <3>1. w[p].lay \in Layer /\ w[p].sel \in [Layer -> ListOf(M)]
      BY <1>t DEF Inserting
    <3>2. PICK out \in Selections(w[p].seen, MinOf(M, EfC)) :
             /\ w[p].pc = "layer"
             /\ w'[p].sel = [w[p].sel EXCEPT ![w[p].lay] = out]
             /\ IF w[p].lay > 0
                THEN w'[p].lay = w[p].lay - 1 /\ w'[p].pc = "layer"
                ELSE w'[p].pc = "own"
      BY <2>3, SelectEffect
    <3> DEFINE S == w[p].seen
               c == MinOf(M, EfC)
    <3>3. out # << >>
      <4>1. /\ MinOf(M, EfC) \in Nat /\ MinOf(M, EfC) <= M0
            /\ w[p].seen \in SUBSET Node
        <5>1. M \in Nat /\ EfC \in Nat /\ M <= M0
          OBVIOUS
        <5>2. MinOf(M, EfC) \in Nat /\ MinOf(M, EfC) <= M
          BY <5>1, MinFacts
        <5>3. QED
          BY <5>1, <5>2, WalkNodes
      <4>2. out \in Selections(S, c) /\ S \in SUBSET Node /\ c \in Nat
            /\ c <= M0
        BY <4>1
      <4> HIDE DEF S, c
      <4>3. QED
        BY <4>2, SelectionFacts
    <3>4. \A l \in Layer : w'[p].sel[l] # << >> <=>
              l = w[p].lay \/ w[p].sel[l] # << >>
      BY <3>1, <3>2, <3>3
    <3>5. \A l \in Layer : w[p].sel[l] # << >> <=>
              w[p].lay < l /\ l <= Lmax(p)
      BY <1>2, <3>2 DEF SelOK
    <3>6. w[p].lay <= Lmax(p)
      BY <1>2, <3>2 DEF SelOK
    <3>7. CASE w[p].lay > 0
      <4>1. \A l \in Layer : w'[p].sel[l] # << >> <=>
                w'[p].lay < l /\ l <= Lmax(p)
        BY <1>t, <2>0, <3>2, <3>4, <3>5, <3>6, <3>7
      <4>2. QED
        BY <1>t, <2>0, <3>2, <3>6, <3>7, <4>1 DEF SelOK
    <3>8. CASE ~(w[p].lay > 0)
      <4>1. \A l \in Layer : w'[p].sel[l] # << >> <=> l <= Lmax(p)
        BY <1>t, <2>0, <3>4, <3>5, <3>6, <3>8
      <4>2. QED
        BY <2>0, <3>2, <3>8, <4>1 DEF SelOK
    <3>9. QED
      BY <3>7, <3>8
  <2>4. CASE WriteOwn(p)
    <3>1. /\ w[p].pc = "own" /\ w'[p].pc = "store" /\ w'[p].sel = w[p].sel
          /\ w'[p].new = w[p].sel[w[p].k]
      BY <2>4, OwnEffect
    <3>2. w[p].sel[w[p].k] # << >>
      BY <1>t, <1>2, <3>1 DEF SelOK, RowsInv
    <3>3. Len(w'[p].new) > 0
      BY <1>t, <3>1, <3>2, WalkNodes
    <3>4. QED
      BY <1>2, <2>0, <3>1, <3>3 DEF SelOK
  <2>5. CASE Connect(p)
    <3>1. /\ w[p].pc = "link" /\ w'[p].pc \in {"link", "store"}
          /\ w'[p].sel = w[p].sel
          /\ w'[p].pc = "store" => w'[p].dst \in Node
      BY <2>5, ConnectEffect
    <3>2. w'[p].pc = "store" => Len(w'[p].new) > 0
      BY <1>t, <2>5, <3>1, ConnectList
    <3>3. QED
      BY <1>2, <2>0, <3>1, <3>2 DEF SelOK
  <2>6. CASE StoreSlot(p)
    <3>1. /\ w[p].pc = "store" /\ w'[p].pc = "store"
          /\ w'[p].sel = w[p].sel /\ w'[p].new = w[p].new
      BY <2>6, SlotEffect
    <3>2. QED
      BY <1>2, <2>0, <3>1 DEF SelOK, Linking
  <2>7. CASE StoreCount(p)
    <3>1. w[p].pc = "store" /\ w'[p].pc = "link" /\ w'[p].sel = w[p].sel
      BY <2>7, CountEffect
    <3>2. QED
      BY <1>2, <2>0, <3>1 DEF SelOK
  <2>8. CASE EndLayer(p) /\ w[p].k < Lmax(p)
    BY <1>2, <2>0, <2>8, EndLayerEffect DEF SelOK
  <2>9. QED
    BY <1>8, <2>1, <2>2, <2>3, <2>4, <2>5, <2>6, <2>7, <2>8 DEF WalkStep
\* The steps before the entry point is read, and the publication.
<1>9. ASSUME w[p].pc \in {"idle", "entry", "eplock", "publish"},
             ~Starts(p), ~Finish(p), w'[p] # w[p]
      PROVE  SelOK(p)'
  <2>1. \A l \in Layer : w[p].sel[l] = << >>
    BY <1>5, <1>9
  <2>2. w'[p].pc \in {"idle", "entry", "eplock"} /\
        (w'[p].sel = w[p].sel \/ w'[p] = Idle)
    BY <1>9, BeforeSteps
  <2>3. QED
    BY <1>4, <2>1, <2>2 DEF Idle
<1>10. QED
  BY <1>3, <1>6, <1>7, <1>8, <1>9, ThreadSteps

-----------------------------------------------------------------------------
(* The walks.                                                              *)

LEMMA IdsAreGood ==
    ASSUME TypeInv, ListsInv, NEW v \in Node, NEW l \in Layer, NEW x \in Ids(v, l)
    PROVE  x \in Node /\ Good(x, l) /\ x # v
<1>1. PICK j \in 1 .. cnt[v][l] : slots[v][l][j] = x
  BY DEF Ids
<1>2. x \in Node
  BY IdsAreNodes DEF TypeInv
<1>3. GoodSlots(v, l, cnt[v][l])
  BY DEF ListsInv
<1>4. QED
  BY <1>1, <1>2, <1>3 DEF GoodSlots

\* A thread that has no entry point yet has no selection.
LEMMA NoSelection ==
    ASSUME SelInv, NEW p \in Proc, ~Walking(w[p])
    PROVE  \A l \in Layer : w[p].sel[l] = << >>
BY DEF SelInv, SelOK, Linking, Walking

LEMMA NextMet ==
    ASSUME TypeInv, RowsInv, HeightInv, ListsInv, SelInv, WalksInv, [Next]_vars,
           NEW p \in Proc
    PROVE  MetOK(p)'
<1>1. ASSUME NEW l \in Layer, NEW x \in Node PROVE
        /\ /\ w'[p].pc \in {"greedy", "layer"} /\ w'[p].lay = l
           /\ x \in w'[p].seen \cup w'[p].cand \cup {w'[p].cur}
           => Good(x, l)
        /\ \A j \in 1 .. Len(w'[p].sel[l]) :
               w'[p].sel[l][j] = x => Good(x, l) /\ x # w'[p].row
  <2>0. /\ w[p].pc \in {"greedy", "layer"} /\ w[p].lay = l
           /\ x \in w[p].seen \cup w[p].cand \cup {w[p].cur}
           => Good(x, l)
        /\ \A j \in 1 .. Len(w[p].sel[l]) :
               w[p].sel[l][j] = x => Good(x, l) /\ x # w[p].row
    BY DEF WalksInv, MetOK
  <2>t. /\ w[p].lay \in Layer /\ Layer \subseteq Nat /\ w[p].cur \in Node
        /\ w[p].seen \subseteq Node /\ w[p].cand \subseteq Node
        /\ w[p].sel \in [Layer -> ListOf(M)] /\ w[p].k \in Layer
    BY LevelFacts, TypeFacts DEF Inserting
  <2>1. CASE w'[p] = w[p]
    BY <2>0, <2>1
  <2>2. ASSUME ~Walking(w'[p]), w'[p].sel[l] = << >>
        PROVE  /\ ~(w'[p].pc \in {"greedy", "layer"})
               /\ \A j \in 1 .. Len(w'[p].sel[l]) : FALSE
    BY <2>2 DEF Walking
  <2>3. CASE Finish(p)
    BY <2>2, <2>3, FinishFields
  <2>4. CASE Starts(p)
    <3>1. Good(entry, top) /\ w'[p].sel[l] = << >>
      BY <2>4, StartFields, NoSelection, EntryIsGood DEF Starts
    <3>2. QED
      BY <2>4, <3>1, StartFields
  <2>5. CASE WalkStep(p) /\ ~Greedy(p) /\ ~Expand(p) /\ ~SelectLayer(p)
    <3>1. w'[p].row = w[p].row /\ w'[p].sel = w[p].sel
      BY <2>5, WalkKeeps, OwnEffect, ConnectEffect, SlotEffect, CountEffect,
         EndLayerEffect DEF WalkStep
    <3>2. w'[p].pc \notin {"greedy", "layer"}
      <4>2. CASE WriteOwn(p)
        BY <4>2, OwnEffect
      <4>3. CASE Connect(p)
        BY <4>3, ConnectEffect
      <4>4. CASE StoreSlot(p)
        BY <4>4, SlotEffect
      <4>5. CASE StoreCount(p)
        BY <4>5, CountEffect
      <4>6. CASE EndLayer(p) /\ w[p].k < Lmax(p)
        BY <4>6, EndLayerEffect
      <4>7. QED
        BY <2>5, <4>2, <4>3, <4>4, <4>5, <4>6 DEF WalkStep
    <3>3. QED
      BY <2>0, <2>5, <3>1, <3>2
  <2>6. CASE Greedy(p)
    <3> DEFINE c == w[p].cur
               h == w[p].lay
    <3>1. /\ w[p].pc = "greedy" /\ Level[w[p].row] < h
          /\ w'[p].row = w[p].row /\ w'[p].sel = w[p].sel
          /\ \/ /\ w'[p].lay = h
                /\ w'[p].seen = w[p].seen \cup Ids(c, h)
                /\ w'[p].cand = w[p].cand /\ w'[p].cur \in Ids(c, h)
             \/ /\ w'[p].lay = h - 1 /\ w'[p].seen = {c}
                /\ w'[p].cand = {c} /\ w'[p].cur = c
      BY <2>6, GreedyEffect
    <3>2. \A y \in Node : y \in w[p].seen \cup w[p].cand \cup {c} => Good(y, h)
      BY <2>t, <3>1 DEF WalksInv, MetOK
    <3>3. \A y \in Ids(c, h) : Good(y, h)
      BY <2>t, IdsAreGood
    <3>4. Good(c, h) /\ c \in Node /\ h \in Layer
      BY <2>t, <3>2
    <3> HIDE DEF c, h
    <3>5. l = h - 1 => Good(c, l)
      BY <2>t, <3>4, GoodBelow
    <3>6. QED
      BY <2>0, <3>1, <3>2, <3>3, <3>5
  <2>7. CASE Expand(p)
    <3> DEFINE h == w[p].lay
    <3>1. /\ w[p].pc = "layer" /\ w'[p].row = w[p].row /\ w'[p].sel = w[p].sel
          /\ w'[p].lay = h /\ w'[p].cur = w[p].cur
      BY <2>7, ExpandEffect
    <3>2. PICK c \in w[p].cand :
              /\ w'[p].seen = w[p].seen \cup Ids(c, h)
              /\ w'[p].cand \subseteq w[p].cand \cup Ids(c, h)
      BY <2>7, ExpandEffect
    <3>3. \A y \in Ids(c, h) : Good(y, h)
      BY <2>t, IdsAreGood
    <3>4. QED
      BY <2>0, <3>1, <3>2, <3>3
  <2>8. CASE SelectLayer(p)
    <3> DEFINE h == w[p].lay
               c == MinOf(M, EfC)
               S == w[p].seen
    <3>1. /\ w[p].pc = "layer" /\ w'[p].row = w[p].row
      BY <2>8, SelectEffect
    <3>2. PICK out \in Selections(S, c) :
                 /\ w'[p].sel = [w[p].sel EXCEPT ![h] = out]
                 /\ w'[p].cur = out[1]
                 /\ IF h > 0
                    THEN /\ w'[p].lay = h - 1 /\ w'[p].pc = "layer"
                         /\ w'[p].seen = {out[1]} /\ w'[p].cand = {out[1]}
                    ELSE w'[p].pc = "own"
      BY <2>8, SelectEffect
    <3>3. \A y \in S : y \in Node /\ Good(y, h) /\ y # w[p].row
      <4>1. \A y \in S : y \in Node /\ Good(y, h)
        BY <2>t, <3>1 DEF WalksInv, MetOK
      <4>2. Behind(w[p], h)
        <5>1. w[p].k = 0 /\ h \in Nat
          BY <2>t, <3>1 DEF RowsInv, Linking
        <5>2. h > w[p].k \/ h = w[p].k
          BY <5>1
        <5>3. w[p].pc \notin {"store", "link"}
          BY <3>1
        <5>4. QED
          BY <5>2, <5>3 DEF Behind
      <4>3. ~Good(w[p].row, h)
        BY <2>t, <3>1, <4>2, OwnRowIsNew DEF Busy
      <4>4. QED
        BY <4>1, <4>3
    <3>4. c \in Nat /\ c <= M0 /\ S \in SUBSET Node
      <4>1. M \in Nat /\ EfC \in Nat /\ M <= M0 /\ M0 \in Nat
        OBVIOUS
      <4>2. MinOf(M, EfC) \in Nat /\ MinOf(M, EfC) <= M
        BY <4>1, MinFacts
      <4>3. QED
        BY <2>t, <4>1, <4>2
    <3> HIDE DEF c, S, h
    <3>5. /\ Len(out) \in 1 .. c /\ \A j \in 1 .. Len(out) : out[j] \in S
      BY <3>4, SelectionFacts
    <3>6. out[1] \in S
      BY <3>4, <3>5
    <3>7. h > 0 /\ l = h - 1 => Good(out[1], l)
      <4>1. h \in Layer /\ out[1] \in Node /\ Good(out[1], h)
        BY <2>t, <3>3, <3>6 DEF h
      <4>2. QED
        BY <2>t, <4>1, GoodBelow
    <3>8. w'[p].sel[l] = IF l = h THEN out ELSE w[p].sel[l]
      BY <2>t, <3>2 DEF h
    <3>9. \A j \in 1 .. Len(w'[p].sel[l]) :
               w'[p].sel[l][j] = x => Good(x, l) /\ x # w'[p].row
      BY <2>0, <3>1, <3>3, <3>5, <3>8
    <3>10. QED
      BY <3>2, <3>7, <3>9
  <2>9. CASE /\ w[p].pc \in {"idle", "entry", "eplock", "publish"}
             /\ ~Starts(p) /\ ~Finish(p) /\ w'[p] # w[p]
    <3>1. ~Walking(w'[p]) /\ (w'[p].sel = w[p].sel \/ w'[p] = Idle)
      BY <2>9, BeforeSteps DEF Walking
    <3>2. w'[p].sel[l] = << >>
      BY <2>9, <3>1, NoSelection DEF Walking, Idle
    <3>3. QED
      BY <2>2, <3>1, <3>2
  <2>10. QED
    BY <2>1, <2>3, <2>4, <2>5, <2>6, <2>7, <2>8, <2>9, ThreadSteps
<1>2. \A l \in Layer, x \in Node : Good(x, l) => Good(x, l)'
  BY GoodStays
<1>3. QED
  BY <1>1, <1>2 DEF MetOK

\* Two threads never write the same list.
LEMMA OneWriter ==
    ASSUME TypeInv, OneLock, NEW p \in Proc, NEW x \in Proc,
           w[p].pc = "store", w[x].pc = "store", w[p].dst = w[x].dst
    PROVE  p = x
<1>1. w[p].dst \in Node
  BY TypeFacts DEF Inserting
<1>2. lock[w[p].dst] = {p} /\ lock[w[p].dst] = {x}
  BY <1>1 DEF OneLock
<1>3. QED
  BY <1>2

\* A list that is being written is written by its thread alone.
LEMMA WrittenStays ==
    ASSUME TypeInv, RowsInv, HeightInv, OneLock, [Next]_vars, NEW p \in Proc,
           w[p].pc = "store", w'[p] = w[p],
           NEW d \in Node, d = w[p].dst, NEW l \in Layer, NEW j \in 1 .. M0
    PROVE  slots'[d][l][j] = slots[d][l][j]
<1>1. slots \in [Node -> [Layer -> [1 .. M0 -> Node]]]
  BY DEF TypeInv, Typed, SharedOK
<1>2. CASE UNCHANGED graph
  BY <1>2 DEF graph
<1>3. CASE Repair
  BY <1>3, RepairRows DEF Repair, Busy
<1>4. ASSUME NEW x \in Proc, StoreSlot(x) PROVE slots'[d][l][j] = slots[d][l][j]
  <2>1. x # p
    <3>1. w'[x].at = w[x].at + 1 /\ w[x].at \in 1 .. Len(w[x].new)
      BY <1>4, SlotEffect
    <3>2. w'[x].at # w[x].at
      BY <3>1
    <3>3. QED
      BY <3>2
  <2>2. w[x].pc = "store" /\ w[x].dst # d
    BY <1>4, <2>1, SlotEffect, OneWriter
  <2> DEFINE c == w[x].dst
             k == w[x].k
             a == w[x].at
             n == w[x].new[w[x].at]
  <2>3. slots' = [slots EXCEPT ![c][k][a] = n] /\ c # d
    BY <1>4, <2>2, SlotEffect
  <2> HIDE DEF c, k, a, n
  <2>4. QED
    BY <1>1, <2>3
<1>5. ASSUME NEW x \in Proc, StoreCount(x) PROVE slots' = slots
  BY <1>5 DEF StoreCount
<1>6. QED
  BY <1>2, <1>3, <1>4, <1>5, GraphSteps

LEMMA NextWrites ==
    ASSUME TypeInv, RowsInv, HeightInv, ListsInv, SelInv, WalksInv, OneLock,
           [Next]_vars, NEW p \in Proc
    PROVE  WritesOK(p)'
<1>g. \A l \in Layer, x \in Node : Good(x, l) => Good(x, l)'
  BY GoodStays
<1>t. /\ slots \in [Node -> [Layer -> [1 .. M0 -> Node]]]
      /\ w[p].k \in Layer /\ w[p].dst \in Node /\ w[p].at \in Nat
      /\ w[p].pos \in Nat /\ Len(w[p].new) \in 0 .. M0 /\ M0 \in Nat
  BY LevelFacts, TypeFacts, WalkNodes DEF TypeInv, Typed, SharedOK, Inserting
<1>0. WritesOK(p) /\ MetOK(p)
  BY DEF WalksInv
<1>1. ASSUME w'[p].pc = "store", NEW l \in Layer, NEW d \in Node,
             w'[p].k = l, w'[p].dst = d
      PROVE  /\ \A j \in 1 .. Len(w'[p].new), x \in Node :
                   w'[p].new[j] = x => Good(x, l) /\ x # d
             /\ \A j \in 1 .. Len(w'[p].new) :
                   j < w'[p].at => slots'[d][l][j] = w'[p].new[j]
             /\ IF w'[p].pos = 0 THEN d = w'[p].row ELSE Good(d, l)
  <2>1. CASE w'[p] = w[p]
    <3>1. w[p].pc = "store" /\ w[p].k = l /\ w[p].dst = d
      BY <1>1, <2>1
    <3>2. \A j \in 1 .. Len(w[p].new) : slots'[d][l][j] = slots[d][l][j]
      <4>1. SUFFICES ASSUME NEW j \in 1 .. Len(w[p].new)
                     PROVE  slots'[d][l][j] = slots[d][l][j]
        OBVIOUS
      <4>2. j \in 1 .. M0
        BY <1>t
      <4>3. QED
        BY <2>1, <3>1, <4>2, WrittenStays
    <3>3. QED
      BY <1>0, <2>1, <3>1, <3>2 DEF WritesOK
  <2>2. CASE WriteOwn(p)
    <3>1. /\ w'[p].dst = w[p].row /\ w'[p].pos = 0 /\ w'[p].at = 1
          /\ w'[p].k = w[p].k /\ w'[p].row = w[p].row
          /\ w'[p].new = w[p].sel[l]
      BY <1>1, <2>2, OwnEffect
    <3>2. \A j \in 1 .. Len(w[p].sel[l]), x \in Node :
              w[p].sel[l][j] = x => Good(x, l) /\ x # w[p].row
      BY <1>0 DEF MetOK
    <3>3. \A j \in 1 .. Len(w'[p].new) : ~(j < w'[p].at)
      BY <3>1
    <3>4. d = w'[p].row
      BY <1>1, <3>1
    <3>5. QED
      BY <3>1, <3>2, <3>3, <3>4
  <2>3. CASE Connect(p)
    <3>1. /\ w[p].pc = "link" /\ w'[p].pos = w[p].pos /\ w[p].k = l
          /\ w[p].pos \in 1 .. Len(w[p].sel[l])
          /\ d = w[p].sel[l][w[p].pos]
      BY <1>1, <2>3, ConnectEffect
    <3>2. slots' = slots
      BY <2>3 DEF Connect, graph
    <3>3. Good(d, l) /\ d # w[p].row
      BY <1>0, <3>1 DEF MetOK
    <3>4. w[p].row \in Node /\ Good(w[p].row, l)
      BY <3>1, OwnRowIsGood
    <3>5. /\ \A j \in 1 .. Len(w'[p].new) :
                 w'[p].new[j] \in Ids(d, l) \cup {w[p].row}
          /\ \A j \in 1 .. Len(w'[p].new) :
                 j < w'[p].at => slots[d][l][j] = w'[p].new[j]
      BY <1>1, <2>3, <3>1, ConnectList
    <3>6. \A x \in Ids(d, l) : Good(x, l) /\ x # d
      BY IdsAreGood
    <3>7. \A j \in 1 .. Len(w'[p].new), x \in Node :
                   w'[p].new[j] = x => Good(x, l) /\ x # d
      BY <3>3, <3>4, <3>5, <3>6
    <3>8. w'[p].pos # 0
      BY <3>1
    <3>9. QED
      BY <3>2, <3>3, <3>5, <3>7, <3>8
  <2>4. CASE StoreSlot(p)
    <3>1. /\ w[p].pc = "store" /\ w'[p].row = w[p].row /\ w[p].k = l
          /\ w'[p].pos = w[p].pos /\ w[p].dst = d
          /\ w'[p].new = w[p].new /\ w'[p].at = w[p].at + 1
          /\ w[p].at \in 1 .. Len(w[p].new)
      BY <1>1, <2>4, SlotEffect
    <3>2. slots' = [slots EXCEPT ![d][l][w[p].at] = w[p].new[w[p].at]]
      BY <2>4, <3>1, SlotEffect
    <3> DEFINE new == w[p].new
               at == w[p].at
    <3>3. \A j \in 1 .. Len(new) : j < at => slots[d][l][j] = new[j]
      BY <1>0, <3>1 DEF WritesOK
    <3>4. /\ at \in 1 .. Len(new) /\ Len(new) \in 0 .. M0
          /\ slots' = [slots EXCEPT ![d][l][at] = new[at]]
      BY <1>t, <3>1, <3>2
    <3> HIDE DEF new, at
    <3>5. \A j \in 1 .. Len(new) : j < at + 1 => slots'[d][l][j] = new[j]
      <4>1. SUFFICES ASSUME NEW j \in 1 .. Len(new), j < at + 1
                     PROVE  slots'[d][l][j] = new[j]
        OBVIOUS
      <4>2. CASE j = at
        BY <1>t, <3>4, <4>2
      <4>3. CASE j # at
        <5>1. slots'[d][l][j] = slots[d][l][j]
          BY <1>t, <3>4, <4>3
        <5>2. j < at
          BY <3>4, <4>1, <4>3
        <5>3. QED
          BY <3>3, <5>1, <5>2
      <4>4. QED
        BY <4>2, <4>3
    <3>6. QED
      BY <1>0, <3>1, <3>5 DEF WritesOK, new, at
  <2>5. WalkStep(p) => WriteOwn(p) \/ Connect(p) \/ StoreSlot(p)
    BY <1>1, GreedyEffect, ExpandEffect, SelectEffect, CountEffect,
       EndLayerEffect DEF WalkStep
  <2>6. ~Finish(p)
    BY <1>1, FinishFields
  <2>7. ~Starts(p)
    BY <1>1, StartFields
  <2>8. QED
    BY <1>1, <2>1, <2>2, <2>3, <2>4, <2>5, <2>6, <2>7, ThreadSteps, BeforeSteps
<1>2. QED
  BY <1>1, <1>g DEF WritesOK

LEMMA NextWalksInv ==
    ASSUME TypeInv, RowsInv, HeightInv, ListsInv, SelInv, WalksInv, OneLock,
           [Next]_vars
    PROVE  WalksInv'
BY NextMet, NextWrites DEF WalksInv

-----------------------------------------------------------------------------
(* The queries.                                                            *)

LEMMA QuerySteps ==
    ASSUME TypeInv, [Next]_vars, NEW s \in Searchers
    PROVE  q'[s] = q[s] \/ Query(s)
<1>1. q \in [Searchers -> Querying]
  BY TypeFacts
<1>2. ASSUME NEW x \in Searchers, Query(x), x # s PROVE q'[s] = q[s]
  BY <1>1, <1>2 DEF Query, SearchStep, StartQuery, LoadCount, LoadSlot, EndList,
                    Return
<1>3. ASSUME NEW p \in Proc, InsertStep(p) PROVE q' = q
  <2>1. CASE Claim(p) \/ NextRow(p) \/ ReadEntry(p) \/ TakeEpLock(p)
    BY <2>1 DEF Claim, NextRow, ReadEntry, TakeEpLock
  <2>2. CASE Greedy(p) \/ Expand(p) \/ SelectLayer(p) \/ WriteOwn(p)
    BY <2>2 DEF Greedy, Expand, SelectLayer, WriteOwn
  <2>3. CASE Connect(p)
    BY <2>3 DEF Connect
  <2>4. CASE EndLayer(p) \/ StoreSlot(p) \/ StoreCount(p)
    BY <2>4 DEF EndLayer, StoreSlot, StoreCount
  <2>5. QED
    BY <1>3, <2>1, <2>2, <2>3, <2>4 DEF InsertStep
<1>4. CASE InserterStep \/ MainStep \/ Finished \/ UNCHANGED vars
  BY <1>4 DEF InserterStep, InsertNext, Publish, MainStep, InsertRow0, EndBuild,
              Repair, Finished, vars
<1>5. QED
  BY <1>2, <1>3, <1>4 DEF Next

\* What each step of a query does to its record.
LEMMA QueryEffect ==
    ASSUME TypeInv, NEW s \in Searchers, Query(s)
    PROVE  /\ UNCHANGED <<graph, entry, top, count>>
           /\ \/ /\ q[s].pc = "idle" /\ entry # None /\ count > 0
                 /\ q'[s].pc = "list" /\ q'[s].lay = top
                 /\ q'[s].cur = entry /\ q'[s].seen = {entry}
                 /\ q'[s].cand = {entry} /\ q'[s].len = count
              \/ /\ q[s].pc = "list" /\ q'[s].pc = "slot"
                 /\ q'[s].lay = q[s].lay /\ q'[s].cur = q[s].cur
                 /\ q'[s].seen = q[s].seen /\ q'[s].len = q[s].len
                 /\ q'[s].node \in ToRead(s) /\ q'[s].node \in Node
                 /\ q'[s].n = cnt[q'[s].node][q[s].lay] /\ q'[s].j = 1
                 /\ q'[s].cand = q[s].cand \ {q'[s].node}
              \/ /\ q[s].pc = "slot" /\ q'[s].pc = "slot"
                 /\ q[s].j \in 1 .. q[s].n
                 /\ q'[s].lay = q[s].lay /\ q'[s].len = q[s].len
                 /\ q'[s].node = q[s].node /\ q'[s].n = q[s].n
                 /\ q'[s].j = q[s].j + 1
                 /\ LET e == slots[q[s].node][q[s].lay][q[s].j] IN
                       /\ q'[s].seen = q[s].seen \cup {e}
                       /\ q'[s].cur \in {q[s].cur, e}
                       /\ \/ /\ q'[s].cand = q[s].cand
                             /\ q[s].lay = 0 => \/ e \in q[s].seen
                                               \/ Cardinality(q[s].seen) >= Ef
                          \/ /\ q'[s].cand = q[s].cand \cup {e}
                             /\ e \notin q[s].seen
              \/ /\ q[s].pc = "slot" /\ q'[s].pc = "list" /\ q[s].j > q[s].n
                 /\ q'[s].cur = q[s].cur /\ q'[s].len = q[s].len
                 /\ \/ /\ q'[s].lay = q[s].lay /\ q'[s].seen = q[s].seen
                       /\ q'[s].cand = q[s].cand
                    \/ /\ q[s].lay > 0 /\ q'[s].lay = q[s].lay - 1
                       /\ q'[s].seen = {q[s].cur} /\ q'[s].cand = {q[s].cur}
              \/ /\ q[s].pc = "list" /\ q[s].lay = 0 /\ q'[s].pc = "idle"
                 /\ q'[s].seen = q[s].seen /\ q'[s].len = q[s].len
                 /\ q[s].cand = {} \/ Cardinality(q[s].seen) >= Ef
<1>1. q \in [Searchers -> Querying] /\ q[s] \in Querying
  BY TypeFacts
<1>2. CASE StartQuery(s)
  <2>1. q'[s] = [NoQuery EXCEPT !.pc = "list", !.lay = top, !.cur = entry,
                    !.len = count, !.seen = {entry}, !.cand = {entry}]
    BY <1>1, <1>2 DEF StartQuery
  <2>2. /\ q'[s].pc = "list" /\ q'[s].lay = top
        /\ q'[s].cur = entry /\ q'[s].seen = {entry}
        /\ q'[s].cand = {entry} /\ q'[s].len = count
    BY <2>1 DEF NoQuery
  <2>3. QED
    BY <1>2, <2>2 DEF StartQuery
<1>3. CASE LoadCount(s)
  <2>1. PICK c \in ToRead(s) :
            q' = [q EXCEPT ![s].pc = "slot", ![s].node = c,
                           ![s].n = cnt[c][q[s].lay], ![s].j = 1,
                           ![s].cand = q[s].cand \ {c}]
    BY <1>3 DEF LoadCount
  <2> DEFINE m == cnt[c][q[s].lay]
             d == q[s].cand \ {c}
  <2>2. q'[s] = [q[s] EXCEPT !.pc = "slot", !.node = c, !.n = m, !.j = 1,
                             !.cand = d]
    BY <1>1, <2>1
  <2> HIDE DEF m, d
  <2>3. /\ q'[s].pc = "slot" /\ q'[s].lay = q[s].lay /\ q'[s].cur = q[s].cur
        /\ q'[s].seen = q[s].seen /\ q'[s].len = q[s].len
        /\ q'[s].node = c /\ q'[s].n = m /\ q'[s].j = 1 /\ q'[s].cand = d
    BY <1>1, <2>2 DEF Querying
  <2>4. c \in Node
    BY <1>1 DEF ToRead, Querying
  <2>5. q[s].pc = "list" /\ UNCHANGED <<graph, entry, top, count>>
    BY <1>3 DEF LoadCount
  <2>6. QED
    BY <2>1, <2>3, <2>4, <2>5 DEF m, d
<1>4. CASE LoadSlot(s)
  <2> DEFINE e == slots[q[s].node][q[s].lay][q[s].j]
             read == [q[s] EXCEPT !.j = q[s].j + 1, !.seen = q[s].seen \cup {e}]
             seen == q[s].seen \cup {e}
             cand == q[s].cand \cup {e}
  <2>1. /\ q[s].pc = "slot" /\ q[s].j <= q[s].n
        /\ UNCHANGED <<graph, entry, top, count>>
        /\ \/ /\ \/ e \in q[s].seen \/ q[s].lay > 0
                 \/ Cardinality(q[s].seen) >= Ef
              /\ q' = [q EXCEPT ![s] = read]
           \/ /\ e \notin q[s].seen /\ q[s].lay > 0
              /\ q' = [q EXCEPT ![s] = [read EXCEPT !.cur = e]]
           \/ /\ e \notin q[s].seen /\ q[s].lay = 0
              /\ q' = [q EXCEPT ![s] = [read EXCEPT !.cand = cand]]
    BY <1>4 DEF LoadSlot
  <2>2. /\ \/ /\ \/ e \in q[s].seen \/ q[s].lay > 0
                 \/ Cardinality(q[s].seen) >= Ef
              /\ q'[s] = read
           \/ /\ e \notin q[s].seen /\ q[s].lay > 0
              /\ q'[s] = [read EXCEPT !.cur = e]
           \/ /\ e \notin q[s].seen /\ q[s].lay = 0
              /\ q'[s] = [read EXCEPT !.cand = cand]
    BY <1>1, <2>1
  <2>3. q[s].j \in 1 .. q[s].n
    BY <1>1, <2>1 DEF TypeInv, QueriesOK, Querying
  <2>4. read = [q[s] EXCEPT !.j = q[s].j + 1, !.seen = seen]
    OBVIOUS
  <2>5. q[s].lay > 0 => q[s].lay # 0
    BY <1>1 DEF Querying, Layer
  <2> HIDE DEF e, read, seen, cand
  <2>6. /\ read.pc = "slot" /\ read.lay = q[s].lay /\ read.len = q[s].len
        /\ read.node = q[s].node /\ read.n = q[s].n /\ read.j = q[s].j + 1
        /\ read.seen = seen /\ read.cur = q[s].cur /\ read.cand = q[s].cand
        /\ [read EXCEPT !.cur = e] = [q[s] EXCEPT !.j = q[s].j + 1,
                                        !.seen = seen, !.cur = e]
        /\ [read EXCEPT !.cand = cand] = [q[s] EXCEPT !.j = q[s].j + 1,
                                        !.seen = seen, !.cand = cand]
    BY <1>1, <2>1, <2>4 DEF Querying
  <2>7. /\ q'[s].pc = "slot" /\ q'[s].lay = q[s].lay /\ q'[s].len = q[s].len
        /\ q'[s].node = q[s].node /\ q'[s].n = q[s].n
        /\ q'[s].j = q[s].j + 1 /\ q'[s].seen = seen
        /\ \/ /\ \/ e \in q[s].seen \/ q[s].lay > 0
                 \/ Cardinality(q[s].seen) >= Ef
              /\ q'[s].cur = q[s].cur /\ q'[s].cand = q[s].cand
           \/ /\ e \notin q[s].seen /\ q[s].lay > 0
              /\ q'[s].cur = e /\ q'[s].cand = q[s].cand
           \/ /\ e \notin q[s].seen /\ q[s].lay = 0
              /\ q'[s].cur = q[s].cur /\ q'[s].cand = cand
    <3>1. CASE /\ \/ e \in q[s].seen \/ q[s].lay > 0
                  \/ Cardinality(q[s].seen) >= Ef
               /\ q'[s] = read
      BY <2>6, <3>1
    <3>2. CASE /\ e \notin q[s].seen /\ q[s].lay > 0
               /\ q'[s] = [read EXCEPT !.cur = e]
      <4>1. q'[s] = [q[s] EXCEPT !.j = q[s].j + 1, !.seen = seen, !.cur = e]
        BY <2>6, <3>2
      <4>2. QED
        BY <1>1, <2>1, <3>2, <4>1 DEF Querying
    <3>3. CASE /\ e \notin q[s].seen /\ q[s].lay = 0
               /\ q'[s] = [read EXCEPT !.cand = cand]
      <4>1. q'[s] = [q[s] EXCEPT !.j = q[s].j + 1, !.seen = seen, !.cand = cand]
        BY <2>6, <3>3
      <4>2. QED
        BY <1>1, <2>1, <3>3, <4>1 DEF Querying
    <3>4. QED
      BY <2>2, <3>1, <3>2, <3>3
  <2>8. /\ q'[s].seen = q[s].seen \cup {e}
        /\ q'[s].cur \in {q[s].cur, e}
        /\ \/ /\ q'[s].cand = q[s].cand
              /\ q[s].lay = 0 => \/ e \in q[s].seen
                                \/ Cardinality(q[s].seen) >= Ef
           \/ /\ q'[s].cand = q[s].cand \cup {e}
              /\ e \notin q[s].seen
    BY <2>5, <2>7 DEF seen, cand
  <2>9. QED
    BY <2>1, <2>3, <2>7, <2>8 DEF e
<1>5. CASE EndList(s)
  <2> DEFINE c == q[s].cur
             nx == [q[s] EXCEPT !.pc = "list", !.node = 0, !.n = 0, !.j = 0]
             h == q[s].lay - 1
  <2>1. /\ q[s].pc = "slot" /\ q[s].j > q[s].n
        /\ UNCHANGED <<graph, entry, top, count>>
        /\ q'[s] = IF q[s].lay > 0 /\ q[s].node = c
                   THEN [nx EXCEPT !.lay = h, !.seen = {c}, !.cand = {c}]
                   ELSE nx
    BY <1>1, <1>5 DEF EndList
  <2> HIDE DEF h
  <2>2. CASE q[s].lay > 0 /\ q[s].node = c
    <3>1. q'[s] = [q[s] EXCEPT !.pc = "list", !.node = 0, !.n = 0, !.j = 0,
                               !.lay = h, !.seen = {c}, !.cand = {c}]
      BY <1>1, <2>1, <2>2 DEF Querying
    <3>2. /\ q'[s].pc = "list" /\ q'[s].cur = c /\ q'[s].len = q[s].len
          /\ q'[s].lay = h /\ q'[s].seen = {c} /\ q'[s].cand = {c}
      BY <1>1, <3>1 DEF Querying
    <3>3. QED
      BY <2>1, <2>2, <3>2 DEF h
  <2>3. CASE ~(q[s].lay > 0 /\ q[s].node = c)
    <3>1. q'[s] = [q[s] EXCEPT !.pc = "list", !.node = 0, !.n = 0, !.j = 0]
      BY <2>1, <2>3
    <3>2. /\ q'[s].pc = "list" /\ q'[s].cur = c /\ q'[s].len = q[s].len
          /\ q'[s].lay = q[s].lay /\ q'[s].seen = q[s].seen
          /\ q'[s].cand = q[s].cand
      BY <1>1, <3>1 DEF Querying
    <3>3. QED
      BY <2>1, <3>2
  <2>4. QED
    BY <2>2, <2>3
<1>6. CASE Return(s)
  <2>1. q'[s] = [q[s] EXCEPT !.pc = "idle", !.cur = 0, !.cand = {}]
    BY <1>1, <1>6 DEF Return
  <2>2. q'[s].pc = "idle" /\ q'[s].seen = q[s].seen /\ q'[s].len = q[s].len
    BY <1>1, <2>1 DEF Querying
  <2>3. QED
    BY <1>6, <2>2 DEF Return
<1>7. QED
  BY <1>2, <1>3, <1>4, <1>5, <1>6 DEF Query, SearchStep

LEMMA NextQueriesInv ==
    ASSUME TypeInv, RowsInv, HeightInv, ListsInv, WalksInv, QueriesInv,
           [Next]_vars
    PROVE  QueriesInv'
<1>1. SUFFICES ASSUME NEW s \in Searchers PROVE QueryOK(s)'
  BY DEF QueriesInv
<1>2. QueryOK(s) /\ q[s] \in Querying
  BY TypeFacts DEF QueriesInv
<1>t. /\ q[s].lay \in Layer /\ q[s].cur \in Node /\ q[s].node \in Node
      /\ q[s].n \in 0 .. M0 /\ q[s].seen \subseteq Node
      /\ q[s].cand \subseteq Node /\ M0 \in Nat /\ Layer \subseteq Nat
      /\ cnt \in [Node -> [Layer -> 0 .. M0]]
      /\ slots \in [Node -> [Layer -> [1 .. M0 -> Node]]]
  BY <1>2, LevelFacts DEF Querying, TypeInv, Typed, SharedOK
<1>g. \A l \in Layer, x \in Node : Good(x, l) => Good(x, l)'
  BY GoodStays
<1>n. /\ q'[s].seen \subseteq Node /\ q'[s].cand \subseteq Node
      /\ q'[s].cur \in Node /\ q'[s].n \in 0 .. M0 /\ q'[s].node \in Node
  <2>1. TypeInv'
    BY NextTypeInv
  <2>2. q' \in [Searchers -> Querying]
    BY <2>1 DEF TypeInv, Typed
  <2>3. q'[s] \in Querying
    BY <2>2
  <2>4. QED
    BY <2>3 DEF Querying
\* It is enough that what the query comes to, and the list it reads as it is
\* before the step, are good.
<1>3. ASSUME NEW l \in Layer, q'[s].pc # "idle", q'[s].lay = l
      PROVE  /\ \A x \in q'[s].seen \cup q'[s].cand \cup {q'[s].cur} : Good(x, l)
             /\ q'[s].pc = "slot" =>
                   \A v \in Node : q'[s].node = v => GoodSlots(v, l, q'[s].n)
  <2>1. CASE q'[s] = q[s]
    BY <1>2, <1>3, <2>1 DEF QueryOK
  <2>2. CASE Query(s)
    <3>1. CASE /\ q[s].pc = "idle" /\ entry # None /\ q'[s].pc = "list"
               /\ q'[s].lay = top /\ q'[s].cur = entry
               /\ q'[s].seen = {entry} /\ q'[s].cand = {entry}
      BY <1>3, <3>1, EntryIsGood
    <3>2. CASE /\ q[s].pc = "list" /\ q'[s].pc = "slot"
               /\ q'[s].lay = q[s].lay /\ q'[s].cur = q[s].cur
               /\ q'[s].seen = q[s].seen
               /\ q'[s].n = cnt[q'[s].node][q[s].lay]
               /\ q'[s].cand = q[s].cand \ {q'[s].node}
      BY <1>2, <1>3, <3>2 DEF QueryOK, ListsInv
    <3>3. CASE /\ q[s].pc = "slot" /\ q'[s].pc = "slot"
               /\ q[s].j \in 1 .. q[s].n
               /\ q'[s].lay = q[s].lay
               /\ q'[s].node = q[s].node /\ q'[s].n = q[s].n
               /\ LET e == slots[q[s].node][q[s].lay][q[s].j] IN
                       /\ q'[s].seen = q[s].seen \cup {e}
                       /\ q'[s].cur \in {q[s].cur, e}
                       /\ \/ q'[s].cand = q[s].cand
                          \/ q'[s].cand = q[s].cand \cup {e}
      <4> DEFINE e == slots[q[s].node][q[s].lay][q[s].j]
      <4>1. q[s].lay = l /\ GoodSlots(q[s].node, l, q[s].n)
        BY <1>2, <1>3, <1>t, <3>3 DEF QueryOK
      <4>2. e \in Node
        <5>0. q[s].j \in 1 .. q[s].n /\ q[s].n \in 0 .. M0 /\ M0 \in Nat
          BY <1>t, <3>3
        <5>1. q[s].j \in 1 .. M0
          BY <5>0
        <5> DEFINE v == q[s].node
                   h == q[s].lay
                   j == q[s].j
        <5>2. /\ slots \in [Node -> [Layer -> [1 .. M0 -> Node]]]
              /\ v \in Node /\ h \in Layer /\ j \in 1 .. M0
              /\ e = slots[v][h][j]
          BY <1>t, <5>1
        <5> HIDE DEF e, v, h, j
        <5>3. QED
          BY <5>2
      <4>3. Good(e, l)
        BY <3>3, <4>1, <4>2 DEF GoodSlots
      <4> HIDE DEF e
      <4>4. \A x \in q[s].seen \cup q[s].cand \cup {q[s].cur} : Good(x, l)
        BY <1>2, <3>3, <4>1 DEF QueryOK
      <4>5. \A x \in q'[s].seen \cup q'[s].cand \cup {q'[s].cur} :
                x \in q[s].seen \cup q[s].cand \cup {q[s].cur} \/ x = e
        BY <3>3 DEF e
      <4>6. QED
        BY <3>3, <4>1, <4>3, <4>4, <4>5
    <3>4. CASE /\ q[s].pc = "slot" /\ q'[s].pc = "list"
               /\ q'[s].cur = q[s].cur
               /\ \/ /\ q'[s].lay = q[s].lay /\ q'[s].seen = q[s].seen
                     /\ q'[s].cand = q[s].cand
                  \/ /\ q[s].lay > 0 /\ q'[s].lay = q[s].lay - 1
                     /\ q'[s].seen = {q[s].cur} /\ q'[s].cand = {q[s].cur}
      <4>1. \A x \in q[s].seen \cup q[s].cand \cup {q[s].cur} : Good(x, q[s].lay)
        BY <1>2, <1>t, <3>4 DEF QueryOK
      <4>2. CASE q'[s].lay = q[s].lay /\ q'[s].seen = q[s].seen
                 /\ q'[s].cand = q[s].cand
        BY <1>3, <3>4, <4>1, <4>2
      <4>3. CASE q[s].lay > 0 /\ q'[s].lay = q[s].lay - 1
                 /\ q'[s].seen = {q[s].cur} /\ q'[s].cand = {q[s].cur}
        <5>1. Good(q[s].cur, l)
          <6> DEFINE c == q[s].cur
                     h == q[s].lay
          <6>5. c \in Node /\ h \in Layer
            BY <1>t
          <6>6. l = h - 1 /\ h \in Nat
            BY <1>3, <4>3, <6>5, <1>t
          <6>1. c \in Node /\ h \in Layer /\ l <= h
            BY <6>5, <6>6
          <6>4. Good(c, h)
            BY <4>1
          <6> HIDE DEF c, h
          <6>2. Good(c, l)
            BY <6>1, <6>4, GoodBelow
          <6>3. QED
            BY <6>2 DEF c
        <5>2. QED
          BY <3>4, <4>3, <5>1
      <4>4. QED
        BY <3>4, <4>2, <4>3
    <3>5. QED
      BY <1>3, <2>2, <3>1, <3>2, <3>3, <3>4, QueryEffect
  <2>3. QED
    BY <2>1, <2>2, QuerySteps
<1>4. ASSUME NEW l \in Layer, q'[s].pc # "idle", q'[s].lay = l,
             q'[s].pc = "slot", NEW v \in Node, q'[s].node = v,
             NEW j \in 1 .. q'[s].n, NEW x \in Node, slots'[v][l][j] = x
      PROVE  Good(x, l)' /\ x # v
  <2>1. GoodSlots(v, l, q'[s].n)
    BY <1>3, <1>4
  <2>2. j \in 1 .. M0
    BY <1>n, <1>t
  <2>3. Good(x, l) /\ x # v
    BY <1>4, <2>1, <2>2, SlotSteps DEF GoodSlots
  <2>4. QED
    BY <1>g, <2>3
<1>5. QED
  BY <1>3, <1>4, <1>g, <1>n DEF QueryOK, GoodSlots

-----------------------------------------------------------------------------
(* The invariant so far, and what it shows.                                *)

WalkInv == /\ TypeInv /\ OneLock /\ RowsInv /\ HeightInv
           /\ ListsInv /\ WalksInv /\ QueriesInv /\ SelInv

LEMMA InitWalkInv == Init => WalkInv
<1> SUFFICES ASSUME Init PROVE WalkInv
  OBVIOUS
<1>1. TypeInv /\ OneLock
  BY InitTypeInv, InitOneLock
<1>2. /\ phase = "start" /\ next = 0 /\ count = 0 /\ entry = None /\ top = 0
      /\ epLock = Free /\ cnt = [v \in Node |-> [l \in Layer |-> 0]]
  BY DEF Init
<1>3. /\ \A p \in Proc : /\ w[p].pc = "idle" /\ w[p].k = 0 /\ w[p].row = 0
                        /\ w[p].hi = 0
                        /\ \A l \in Layer : w[p].sel[l] = << >>
      /\ \A s \in Searchers : q[s].pc = "idle"
  BY DEF Init, Idle, NoQuery
<1>4. /\ \A i \in Node : Open(i)
      /\ \A v \in Node, l \in Layer : cnt[v][l] = 0
  BY <1>2 DEF Open
<1>5. Claimed \in Nat /\ Inserter \in Proc /\ Workers \subseteq Proc
  BY <1>1, TypeFacts
<1>6. RowsInv
  BY <1>2, <1>3, <1>5 DEF RowsInv, Busy, Linking
<1>7. HeightInv
  BY <1>2, <1>3, <1>4 DEF HeightInv, Walking, Free
<1>8. ListsInv
  BY <1>4 DEF ListsInv, GoodSlots
<1>9. WalksInv
  BY <1>3 DEF WalksInv, MetOK, WritesOK
<1>10. QueriesInv /\ SelInv
  BY <1>3 DEF QueriesInv, QueryOK, SelInv, SelOK, Linking
<1>11. QED
  BY <1>1, <1>6, <1>7, <1>8, <1>9, <1>10 DEF WalkInv

LEMMA NextWalkInv == WalkInv /\ [Next]_vars => WalkInv'
<1> SUFFICES ASSUME WalkInv, [Next]_vars PROVE WalkInv'
  OBVIOUS
<1>1. /\ TypeInv /\ OneLock /\ RowsInv /\ HeightInv
      /\ ListsInv /\ WalksInv /\ QueriesInv /\ SelInv
  BY DEF WalkInv
<1>2. TypeInv' /\ OneLock' /\ RowsInv' /\ SelInv'
  BY <1>1, NextTypeInv, NextOneLock, NextRowsInv, NextSelInv
<1>3. HeightInv' /\ ListsInv'
  BY <1>1, NextHeightInv, NextListsInv
<1>4. WalksInv' /\ QueriesInv'
  BY <1>1, NextWalksInv, NextQueriesInv
<1>5. QED
  BY <1>2, <1>3, <1>4 DEF WalkInv

LEMMA WalkInvariant == Spec => []WalkInv
BY InitWalkInv, NextWalkInv, PTL DEF Spec

\* EntryIsTop: the entry point is on the top layer, and every row that a walk
\* can meet is at most that high, but for the row whose insertion holds the
\* entry lock (insert, the swap of epTop after the edges).
THEOREM EntryOnTop == Spec => []EntryIsTop
<1>1. ASSUME WalkInv PROVE EntryIsTop
  <2>1. TypeInv /\ HeightInv /\ ListsInv
    BY <1>1 DEF WalkInv
  <2>2. entry # None => Level[entry] = top
    BY <2>1 DEF HeightInv
  <2>3. ASSUME NEW v \in Met, Level[v] > top
        PROVE  \E p \in epLock : w[p].row = v
    <3>1. CASE v = entry /\ v \in Node
      BY <2>1, <2>2, <2>3, <3>1, LevelFacts
    <3>2. CASE \E u \in Node, l \in Layer : v \in Ids(u, l)
      <4>1. v \in Node /\ \E l \in Layer : Good(v, l)
        BY <2>1, <3>2, IdsAreGood
      <4>2. ~(Level[v] <= top)
        BY <2>1, <2>3, <4>1, LevelFacts
      <4>3. QED
        BY <4>1, <4>2 DEF Good
    <3>3. QED
      BY <3>1, <3>2 DEF Met
  <2>4. QED
    BY <2>2, <2>3 DEF EntryIsTop
<1>2. QED
  BY <1>1, WalkInvariant, PTL

\* QueryLayers: a query, which takes no lock, never comes to a node that lacks
\* the layer it reads, so slots (upperOff) is never asked for the list of
\* another node (Search, greedy).
THEOREM QueriesStayOnLayers == Spec => []QueryLayers
<1>1. ASSUME WalkInv PROVE QueryLayers
  <2>1. TypeInv /\ QueriesInv
    BY <1>1 DEF WalkInv
  <2>2. SUFFICES ASSUME NEW s \in Searchers, q[s].pc # "idle",
                        NEW v \in q[s].seen \cup {q[s].cur}
                 PROVE  Level[v] >= q[s].lay
    BY DEF QueryLayers
  <2>3. q[s].lay \in Layer /\ v \in Node
    BY <2>1, TypeFacts DEF Querying
  <2>4. Good(v, q[s].lay)
    BY <2>1, <2>2, <2>3 DEF QueriesInv, QueryOK
  <2>5. QED
    BY <2>1, <2>3, <2>4, LevelFacts DEF Good
<1>2. QED
  BY <1>1, WalkInvariant, PTL

\* NoLostEdge: the list that insert is about to write for its own row is still
\* empty: no other thread has linked to the row on that layer, so no back edge
\* is overwritten (insert, writing bottom-up).
THEOREM BackEdgesKept == Spec => []NoLostEdge
<1>1. ASSUME WalkInv PROVE NoLostEdge
  <2>1. TypeInv /\ RowsInv /\ ListsInv
    BY <1>1 DEF WalkInv
  <2>2. SUFFICES ASSUME NEW p \in Proc, w[p].pc = "own"
                 PROVE  cnt[w[p].row][Lay(p)] = 0
    BY DEF NoLostEdge
  <2>3. w[p].row \in Node /\ w[p].k \in Layer /\ Busy(w[p])
    BY <2>1, <2>2, LevelFacts DEF Busy
  <2>4. Behind(w[p], w[p].k)
    BY <2>2 DEF Behind
  <2>5. NewRow(w[p].row, w[p].k)
    BY <2>1, <2>3, <2>4, OwnRowIsNew
  <2>6. Lay(p) = w[p].k
    BY DEF Lay, WriteLayer
  <2>7. QED
    BY <2>1, <2>3, <2>5, <2>6 DEF ListsInv
<1>2. QED
  BY <1>1, WalkInvariant, PTL

-----------------------------------------------------------------------------
(* Which lists are written.                                                *)

\* Where the list of the entry point is still empty, nobody has come to
\* another node, and nobody has linked a row on a higher layer.
AloneOn(p, l) ==
    LET r == w[p] IN
    /\ r.pc \in {"greedy", "layer"} /\ l <= r.lay
           => r.seen = {entry} /\ r.cand \subseteq {entry} /\ r.cur = entry
    /\ \A j \in 1 .. Len(r.sel[l]) : r.sel[l][j] = entry /\ j = 1
    /\ Linking(r) => r.k <= l
    /\ r.pc = "link" /\ r.k = l => r.pos = 1
    /\ r.pc = "store" /\ r.k = l => r.pos = 0 \/ (r.pos = 1 /\ r.dst = entry)

EmptyInv ==
    entry # None =>
        \A l \in Layer : l <= top /\ cnt[entry][l] = 0 =>
            /\ \A h \in l .. top : cnt[entry][h] = 0
            /\ \A p \in Proc : AloneOn(p, l)

\* A row in the graph has a list on each of its layers, but for row 0 and for
\* the upper layers of the entry point.
FullInv ==
    \A v \in Node, l \in Layer :
        l <= Level[v] /\ ~NewRow(v, l)
            => cnt[v][l] > 0 \/ v = 0 \/ (v = entry /\ l > 0)

\* Row 0 is alone until it has a list.
ZeroInv ==
    /\ entry = None => \A v \in Node : Open(v)
    /\ entry # None => ~Open(0)
    /\ entry # None /\ cnt[0][0] = 0
           => entry = 0 /\ \A v \in Node \ {0} : Open(v)

\* A query that may return two rows comes to a second one.
TwoInv ==
    \A s \in Searchers : q[s].len >= 2 =>
        /\ q[s].pc # "idle" => cnt[0][0] > 0
        /\ q[s].pc = "list" /\ q[s].lay = 0 =>
               \/ \E a, b \in q[s].seen : a # b
               \/ \E a \in q[s].seen : q[s].cand = {a}
        /\ q[s].pc = "slot" /\ q[s].lay = 0 =>
               \/ \E a, b \in q[s].seen : a # b
               \/ q[s].node \in q[s].seen /\ q[s].n >= 1 /\ q[s].j = 1
        /\ q[s].pc = "idle" /\ Ef >= 2 => \E a, b \in q[s].seen : a # b

-----------------------------------------------------------------------------
(* Lists do not become empty again.                                        *)

\* A count that changes is that of a list that is stored, and not empty.
LEMMA CountSteps ==
    ASSUME TypeInv, SelInv, [Next]_vars, NEW v \in Node, NEW l \in Layer,
           cnt'[v][l] # cnt[v][l]
    PROVE  \/ l = 0 /\ cnt'[v][l] > 0 /\ Repair
           \/ \E p \in Proc : /\ StoreCount(p) /\ w[p].dst = v /\ w[p].k = l
                             /\ cnt'[v][l] > 0
<1>1. cnt \in [Node -> [Layer -> 0 .. M0]]
  BY DEF TypeInv, Typed, SharedOK
<1>2. CASE UNCHANGED graph
  BY <1>2 DEF graph
<1>3. CASE Repair /\ ~UNCHANGED graph
  <2>1. PICK u, y \in 0 .. N - 1 : \E new \in Kept(u, y) :
            u \in Node /\ y \in Node /\ cnt' = [cnt EXCEPT ![u][0] = Len(new)]
    BY <1>3, RepairEffect
  <2>2. PICK new \in Kept(u, y) :
            u \in Node /\ y \in Node /\ cnt' = [cnt EXCEPT ![u][0] = Len(new)]
    BY <2>1
  <2>3. Len(new) \in 1 .. M0
    BY <2>2, KeptFacts
  <2> DEFINE n == Len(new)
  <2>4. n > 0 /\ cnt' = [cnt EXCEPT ![u][0] = n]
    BY <2>2, <2>3
  <2> HIDE DEF n
  <2>5. v = u /\ l = 0
    BY <1>1, <2>4
  <2>6. QED
    BY <1>1, <1>3, <2>4, <2>5
<1>4. ASSUME NEW p \in Proc, StoreCount(p)
      PROVE  w[p].dst = v /\ w[p].k = l /\ cnt'[v][l] > 0
  <2> DEFINE d == w[p].dst
             k == w[p].k
             n == Len(w[p].new)
  <2>1. cnt' = [cnt EXCEPT ![d][k] = n] /\ w[p].pc = "store"
    BY <1>4, CountEffect
  <2>2. n > 0
    BY <2>1 DEF SelInv, SelOK
  <2> HIDE DEF d, k, n
  <2>3. d = v /\ k = l /\ cnt'[v][l] > 0
    BY <1>1, <2>1, <2>2
  <2>4. QED
    BY <2>3 DEF d, k
<1>5. ASSUME NEW p \in Proc, StoreSlot(p) PROVE cnt' = cnt
  BY <1>5 DEF StoreSlot
<1>6. QED
  BY <1>2, <1>3, <1>4, <1>5, GraphSteps

LEMMA CountsStay ==
    ASSUME TypeInv, SelInv, [Next]_vars, NEW v \in Node, NEW l \in Layer,
           cnt[v][l] > 0
    PROVE  cnt'[v][l] > 0
BY CountSteps

-----------------------------------------------------------------------------
(* The first row.                                                          *)

LEMMA RowZero == 0 \in Node /\ 0 \in Layer
BY DEF Node, Layer

LEMMA FirstIsZero ==
    ASSUME TypeInv, RowsInv, HeightInv, NEW p \in Proc, FinishesFirst(p), Open(0)
    PROVE  w[p].row = 0
<1>1. Busy(w[p]) /\ phase # "start"
  BY NoEntryAtStart DEF FinishesFirst, Finish
<1>2. /\ \A x \in Workers : w[x].row \in Nat /\ w[x].hi \in 0 .. N
      /\ count \in Nat /\ N \in Nat /\ Workers \subseteq Proc
  BY TypeFacts DEF Inserting
<1>3. ~(\E x \in Workers : w[x].row <= 0 /\ 0 < w[x].hi)
  BY <1>2 DEF RowsInv
<1>4. N = 0 /\ count = 0
  BY <1>1, <1>2, <1>3 DEF Open
<1>5. CASE p = Inserter
  BY <1>1, <1>4, <1>5 DEF RowsInv, Busy
<1>6. CASE p \in Workers
  BY <1>1, <1>2, <1>4, <1>6 DEF RowsInv
<1>7. QED
  BY <1>5, <1>6 DEF Proc

\* Where all rows are open before the first is inserted, that is row 0.
LEMMA RowZeroFirst ==
    ASSUME TypeInv, RowsInv, HeightInv, InsertRow0, N # 0
    PROVE  /\ phase = "start" /\ phase' = "build"
           /\ entry' = 0 /\ top' = Level[0]
           /\ UNCHANGED <<next, graph, epLock, count, w, q>>
           /\ ~Open(0)' /\ \A i \in Node : Open(i)' <=> Open(i) /\ i # 0
<1>1. /\ phase = "start" /\ phase' = "build" /\ entry' = 0 /\ top' = Level[0]
      /\ UNCHANGED <<next, graph, epLock, count, w, q>>
  BY DEF InsertRow0
<1>2. \A p \in Proc : ~Finish(p)
  BY <1>1, NoEntryAtStart DEF Finish
<1>3. ~Open(0)'
  <2>1. \A x \in Workers : ~(w'[x].row <= 0 /\ 0 < w'[x].hi)
    BY <1>1 DEF RowsInv
  <2>2. N \in Nat /\ ~(N <= 0)
    OBVIOUS
  <2>3. QED
    BY <1>1, <2>1, <2>2 DEF Open
<1>4. Open(0)
  BY <1>1 DEF Open
<1>5. \A i \in Node : Open(i)' <=> Open(i) /\ i # 0
  BY <1>2, <1>3, <1>4, OpenSteps, RowZero DEF Next, MainStep
<1>6. QED
  BY <1>1, <1>3, <1>5

\* A walk that starts closes no row.
LEMMA StartsOpen ==
    ASSUME TypeInv, NEW p \in Proc, Starts(p)
    PROVE  \A i \in Node : Open(i)' <=> Open(i)
<1>1. UNCHANGED <<phase, next, count>> /\ \A x \in Proc \ {p} : w'[x] = w[x]
  BY DEF Starts
<1>2. /\ w'[p].row = w[p].row /\ w'[p].hi = w[p].hi
      /\ w'[p].pc # "publish" /\ w[p].pc # "publish"
  BY DescentFields DEF Starts
<1>3. \A x \in Proc : /\ w'[x].row = w[x].row /\ w'[x].hi = w[x].hi
                      /\ w'[x].pc = "publish" <=> w[x].pc = "publish"
  BY <1>1, <1>2
<1>4. QED
  BY <1>1, <1>3, OpenSame

\* The list of the entry point is not empty where an insertion ends that was
\* linked to it.
LEMMA LaterHasEntry ==
    ASSUME TypeInv, SelInv, HeightInv, EmptyInv, NEW p \in Proc,
           FinishesLater(p), NEW l \in Layer, l <= top, l <= w[p].k
    PROVE  entry \in Node /\ cnt[entry][l] > 0
<1>1. entry # None /\ entry \in Node /\ Busy(w[p]) /\ Linking(w[p])
  BY LevelFacts DEF FinishesLater, HeightInv, Walking, Busy, Linking
<1>2. SUFFICES ASSUME ~(cnt[entry][l] > 0) PROVE FALSE
  BY <1>1
<1>3. cnt[entry][l] = 0
  BY <1>1, <1>2 DEF TypeInv, Typed, SharedOK
<1>4. AloneOn(p, l)
  BY <1>1, <1>3 DEF EmptyInv
<1>5. w[p].k = l /\ w[p].pos = 1
  <2>1. w[p].k \in Nat /\ l \in Nat /\ w[p].k <= l
    BY <1>1, <1>4, LevelFacts DEF AloneOn
  <2>2. w[p].k = l
    BY <2>1
  <2>3. QED
    BY <1>4, <2>2 DEF AloneOn, FinishesLater
<1>6. w[p].sel[l] # << >>
  <2>1. l <= Lmax(p)
    BY <1>5 DEF FinishesLater
  <2>2. QED
    BY <1>1, <2>1 DEF SelInv, SelOK
<1>7. Len(w[p].sel[l]) \in Nat /\ Len(w[p].sel[l]) > 0
  BY <1>6, WalkNodes
<1>8. QED
  BY <1>5, <1>7 DEF FinishesLater

LEMMA NextZeroInv ==
    ASSUME TypeInv, RowsInv, HeightInv, SelInv, EmptyInv, ZeroInv, [Next]_vars
    PROVE  ZeroInv'
<1>0. 0 \in Node /\ 0 \in Layer /\ None \notin Node /\ None # 0
  BY RowZero DEF Node, None
<1>1. cnt'[0][0] = 0 => cnt[0][0] = 0
  <2>1. cnt[0][0] \in Nat
    BY <1>0 DEF TypeInv, Typed, SharedOK
  <2>2. cnt[0][0] > 0 => cnt'[0][0] > 0
    BY <1>0, CountsStay
  <2>3. QED
    BY <2>1, <2>2
<1>2. CASE Goes
  BY <1>0, <1>1, <1>2 DEF Goes, ZeroInv
<1>3. CASE InsertRow0 /\ N # 0
  <2>1. /\ entry' = 0 /\ ~Open(0)' /\ phase = "start"
        /\ \A i \in Node : Open(i)' <=> Open(i) /\ i # 0
    BY <1>3, RowZeroFirst
  <2>2. \A i \in Node : Open(i)
    BY <2>1 DEF Open
  <2>3. QED
    BY <1>0, <2>1, <2>2 DEF ZeroInv
<1>4. ASSUME NEW p \in Proc, Starts(p) PROVE ZeroInv'
  <2>1. UNCHANGED entry /\ \A i \in Node : Open(i)' <=> Open(i)
    BY <1>4, StartsOpen DEF Starts
  <2>2. QED
    BY <1>0, <1>1, <2>1 DEF ZeroInv
<1>5. ASSUME NEW p \in Proc, FinishesFirst(p) PROVE ZeroInv'
  <2>1. \A v \in Node : Open(v)
    BY <1>5 DEF ZeroInv, FinishesFirst
  <2>2. w[p].row = 0 /\ entry' = 0
    BY <1>0, <1>5, <2>1, FirstIsZero DEF FinishesFirst
  <2>3. \A i \in Node : Open(i)' <=> Open(i) /\ i # 0
    BY <1>5, <2>2, FinishCloses DEF FinishesFirst
  <2>4. QED
    BY <1>0, <2>1, <2>2, <2>3 DEF ZeroInv
<1>6. ASSUME NEW p \in Proc, FinishesLater(p) PROVE ZeroInv'
  <2>1. \A i \in Node : Open(i)' <=> Open(i) /\ i # w[p].row
    BY <1>6, FinishCloses DEF FinishesLater
  <2>2. entry # None /\ entry' # None /\ top \in Nat
    <3>1. entry # None
      BY <1>6 DEF FinishesLater, HeightInv, Walking
    <3>2. w[p].row \in Node
      BY <1>0, <1>6, FinishCloses DEF FinishesLater
    <3>3. QED
      BY <1>0, <1>6, <3>1, <3>2, LevelFacts DEF FinishesLater
  <2>3. ~Open(0)'
    BY <1>0, <2>1, <2>2 DEF ZeroInv
  <2>4. cnt[0][0] # 0
    <3>1. SUFFICES ASSUME cnt[0][0] = 0 PROVE FALSE
      OBVIOUS
    <3>2. entry = 0
      BY <2>2, <3>1 DEF ZeroInv
    <3>3. 0 <= top /\ 0 <= w[p].k
      BY <1>6, LevelFacts
    <3>4. cnt[0][0] > 0
      BY <1>0, <1>6, <3>2, <3>3, LaterHasEntry
    <3>5. QED
      BY <3>1, <3>4
  <2>5. QED
    BY <1>1, <2>2, <2>3, <2>4 DEF ZeroInv
<1>7. QED
  BY <1>2, <1>3, <1>4, <1>5, <1>6, Steps

-----------------------------------------------------------------------------
(* Where a row gets its list.                                              *)

\* The only step that stores a list of its own row is the store of its count.
LEMMA BehindEnds ==
    ASSUME TypeInv, RowsInv, SelInv, WalksInv, NEW p \in Proc, WalkStep(p),
           NEW l \in Layer, Behind(w[p], l), ~Behind(w'[p], l)
    PROVE  cnt'[w[p].row][l] > 0
<1>1. w[p].k \in Nat /\ w[p].pos \in Nat /\ l \in Nat
  BY LevelFacts, TypeFacts DEF Inserting
<1>2. ~Linking(w[p]) => w[p].k = 0
  BY DEF RowsInv
<1>3. CASE Greedy(p)
  BY <1>1, <1>3, GreedyEffect DEF Behind
<1>4. CASE Expand(p)
  BY <1>1, <1>4, ExpandEffect DEF Behind
<1>5. CASE SelectLayer(p)
  BY <1>1, <1>5, SelectEffect DEF Behind
<1>6. CASE WriteOwn(p)
  BY <1>1, <1>6, OwnEffect DEF Behind
<1>7. CASE Connect(p)
  BY <1>1, <1>7, ConnectEffect DEF Behind
<1>8. CASE StoreSlot(p)
  BY <1>1, <1>8, SlotEffect DEF Behind
<1>9. CASE StoreCount(p)
  <2>1. /\ w[p].pc = "store" /\ w'[p].pc = "link" /\ w'[p].k = w[p].k
        /\ w[p].dst \in Node /\ w[p].k \in Layer
        /\ cnt' = [cnt EXCEPT ![w[p].dst][w[p].k] = Len(w[p].new)]
    BY <1>9, CountEffect
  <2>2. w[p].k = l /\ w[p].pos = 0
    BY <1>1, <2>1 DEF Behind
  <2>3. w[p].dst = w[p].row
    BY <2>1, <2>2 DEF WalksInv, WritesOK
  <2>4. Len(w[p].new) > 0
    BY <2>1 DEF SelInv, SelOK
  <2> DEFINE d == w[p].dst
             n == Len(w[p].new)
  <2>5. n > 0 /\ cnt' = [cnt EXCEPT ![d][l] = n] /\ d \in Node
    BY <2>1, <2>2, <2>4
  <2>6. cnt \in [Node -> [Layer -> 0 .. M0]]
    BY DEF TypeInv, Typed, SharedOK
  <2> HIDE DEF d, n
  <2>7. cnt'[d][l] > 0
    BY <2>5, <2>6
  <2>8. QED
    BY <2>3, <2>7 DEF d
<1>10. CASE EndLayer(p) /\ w[p].k < Lmax(p)
  BY <1>1, <1>10, EndLayerEffect DEF Behind
<1>11. QED
  BY <1>3, <1>4, <1>5, <1>6, <1>7, <1>8, <1>9, <1>10 DEF WalkStep

\* A row that is new no more has a list, or is the first, or is in the graph
\* for good.
LEMMA NewRowEnds ==
    ASSUME TypeInv, RowsInv, HeightInv, SelInv, WalksInv, [Next]_vars,
           NEW i \in Node, NEW l \in Layer, NewRow(i, l), ~NewRow(i, l)'
    PROVE  \/ cnt'[i][l] > 0
           \/ i = 0 /\ InsertRow0 /\ N # 0
           \/ \E p \in Proc : i = w[p].row /\ (FinishesFirst(p) \/ FinishesLater(p))
<1>1. RowsInv' /\ Open(i)
  BY NextRowsInv DEF NewRow
<1>2. CASE ~Open(i)'
  <2>1. ~Goes
    BY <1>1, <1>2 DEF Goes
  <2>2. CASE InsertRow0 /\ N # 0
    BY <1>1, <1>2, <2>2, RowZeroFirst
  <2>3. ASSUME NEW p \in Proc, Starts(p) PROVE FALSE
    BY <1>1, <1>2, <2>3, StartsOpen
  <2>4. ASSUME NEW p \in Proc, Finish(p) PROVE i = w[p].row
    BY <1>1, <1>2, <2>4, FinishCloses
  <2>5. QED
    BY <2>1, <2>2, <2>3, <2>4, Steps DEF FinishesFirst, FinishesLater
<1>3. CASE Open(i)'
  <2>1. PICK p \in Proc : Busy(w'[p]) /\ w'[p].row = i /\ ~Behind(w'[p], l)
    BY <1>3 DEF NewRow
  <2>2. Linking(w'[p])
    <3>1. ~Linking(w'[p]) => w'[p].k = 0
      BY <1>1 DEF RowsInv
    <3>2. l \in Nat
      BY LevelFacts
    <3>3. QED
      BY <2>1, <3>1, <3>2 DEF Behind, Linking
  <2>3. CASE w'[p] = w[p]
    BY <2>1, <2>3 DEF NewRow
  <2>4. CASE WalkStep(p)
    <3>1. w'[p].row = w[p].row /\ Walking(w[p])
      BY <2>4, WalkKeeps
    <3>2. Behind(w[p], l)
      BY <2>1, <3>1 DEF NewRow, Busy, Walking
    <3>3. QED
      BY <2>1, <2>4, <3>1, <3>2, BehindEnds
  <2>5. CASE Finish(p)
    BY <2>1, <2>5, FinishFields
  <2>6. CASE w[p].pc \in {"idle", "entry", "eplock", "publish"}
             /\ w'[p] # w[p] /\ ~Finish(p)
    BY <2>2, <2>6, BeforeSteps, StartFields DEF Linking
  <2>7. QED
    BY <2>3, <2>4, <2>5, <2>6, ThreadSteps
<1>4. QED
  BY <1>2, <1>3

LEMMA NextFullInv ==
    ASSUME TypeInv, RowsInv, HeightInv, SelInv, WalksInv, EmptyInv, FullInv,
           ZeroInv, [Next]_vars
    PROVE  FullInv'
<1>0. 0 \in Node /\ None \notin Node /\ top \in Nat
  BY RowZero DEF Node, None, TypeInv, Typed, SharedOK, Layer
<1> SUFFICES ASSUME NEW v \in Node, NEW l \in Layer, l <= Level[v],
                    ~NewRow(v, l)', v # 0, ~(cnt'[v][l] > 0)
             PROVE  v = entry' /\ l > 0
  BY DEF FullInv
<1>1. l \in Nat
  BY LevelFacts
<1>2. ~(cnt[v][l] > 0)
  BY CountsStay
<1>3. CASE ~NewRow(v, l)
  <2>1. v = entry /\ l > 0
    BY <1>2, <1>3 DEF FullInv
  <2>2. ASSUME NEW p \in Proc, FinishesLater(p)
        PROVE  UNCHANGED entry
    <3>1. SUFFICES ASSUME Level[w[p].row] > w[p].top PROVE FALSE
      BY <2>2 DEF FinishesLater
    <3>2. Walking(w[p]) /\ Busy(w[p])
      BY <2>2 DEF FinishesLater, Walking, Busy
    <3>3. /\ w[p].top \in Nat /\ Level[w[p].row] \in Nat /\ w[p].k \in Nat
      BY <3>2, LevelFacts
    <3>4. p \in epLock /\ w[p].top = top
      BY <3>1, <3>2, <3>3 DEF HeightInv
    <3>5. w[p].k = top
      BY <2>2, <3>1, <3>3, <3>4 DEF FinishesLater, Lmax, MinOf
    <3>6. l <= top
      BY <1>0, <2>1 DEF HeightInv
    <3>7. QED
      BY <1>2, <2>1, <2>2, <3>5, <3>6, LaterHasEntry
  <2>3. CASE InsertRow0 /\ N # 0
    BY <1>0, <2>1, <2>3, NoEntryAtStart DEF InsertRow0
  <2>4. UNCHANGED entry
    BY <1>0, <2>1, <2>2, <2>3, Steps DEF Goes, Starts, FinishesFirst
  <2>5. QED
    BY <2>1, <2>4
<1>4. CASE NewRow(v, l)
  <2>1. PICK p \in Proc : v = w[p].row /\ (FinishesFirst(p) \/ FinishesLater(p))
    BY <1>4, NewRowEnds
  <2>2. CASE FinishesFirst(p)
    BY <1>0, <2>1, <2>2, FirstIsZero DEF ZeroInv, FinishesFirst
  <2>3. CASE FinishesLater(p)
    <3>1. Busy(w[p]) /\ w[p].pc = "link"
      BY <2>3 DEF FinishesLater, Busy
    <3>2. /\ w[p].top \in Nat /\ Level[w[p].row] \in Nat /\ w[p].k \in Nat
      BY <3>1, LevelFacts
    <3>3. l > w[p].k
      BY <1>1, <1>4, <2>1, <3>1, <3>2 DEF NewRow, Behind
    <3>4. Level[w[p].row] > w[p].top
      BY <1>1, <2>1, <2>3, <3>2, <3>3 DEF FinishesLater, Lmax, MinOf
    <3>5. QED
      BY <1>1, <2>1, <2>3, <3>2, <3>3, <3>4 DEF FinishesLater
  <2>4. QED
    BY <2>1, <2>2, <2>3
<1>5. QED
  BY <1>3, <1>4

-----------------------------------------------------------------------------
(* The entry point alone.                                                  *)

\* A thread without an entry point is no danger to it.
LEMMA AloneBefore ==
    ASSUME NEW p \in Proc, NEW l \in Layer, ~Walking(w[p]),
           w[p].sel[l] = << >>
    PROVE  AloneOn(p, l)
BY DEF AloneOn, Walking, Linking

\* A walk that has come to the entry point only does not leave it while its
\* lists are empty, nor links a row on a higher layer.
LEMMA AloneStays ==
    ASSUME TypeInv, RowsInv, HeightInv, SelInv, NEW p \in Proc, WalkStep(p),
           NEW l \in Layer, entry \in Node, entry' = entry,
           \A h \in l .. top : cnt[entry][h] = 0, cnt'[entry][l] = 0,
           l <= top, AloneOn(p, l)
    PROVE  AloneOn(p, l)'
<1>0. /\ w[p].k \in Nat /\ w[p].pos \in Nat /\ l \in Nat /\ w[p].lay \in Nat
      /\ top \in Nat /\ w[p].top \in Nat /\ w[p].top <= top /\ Busy(w[p])
  BY LevelFacts, TypeFacts, WalkKeeps DEF Inserting, HeightInv, Walking, Busy
<1>1. ASSUME NEW h \in Layer, l <= h, h <= top PROVE Ids(entry, h) = {}
  <2>1. h \in l .. top
    BY <1>0, <1>1, LevelFacts
  <2>2. cnt[entry][h] = 0
    BY <2>1
  <2>3. QED
    BY <2>2 DEF Ids
<1>2. w[p].pc \in {"greedy", "layer"} => w[p].lay <= top
  BY <1>0, LmaxFacts DEF SelInv, SelOK
<1>3. CASE Greedy(p)
  <2>1. /\ w[p].pc = "greedy" /\ w'[p].pc \in {"greedy", "layer"}
        /\ w'[p].sel = w[p].sel
        /\ \/ /\ w'[p].lay = w[p].lay
              /\ w'[p].cur \in Ids(w[p].cur, w[p].lay)
           \/ /\ w'[p].lay = w[p].lay - 1
              /\ w'[p].seen = {w[p].cur} /\ w'[p].cand = {w[p].cur}
              /\ w'[p].cur = w[p].cur
    BY <1>3, GreedyEffect
  <2>2. l <= w[p].lay => w[p].cur = entry /\ Ids(w[p].cur, w[p].lay) = {}
    BY <1>0, <1>1, <1>2, <2>1, LevelFacts DEF AloneOn
  <2>3. \A j \in 1 .. Len(w'[p].sel[l]) : w'[p].sel[l][j] = entry /\ j = 1
    BY <2>1 DEF AloneOn
  <2>4. l <= w'[p].lay => /\ w'[p].seen = {entry} /\ w'[p].cand \subseteq {entry}
                          /\ w'[p].cur = entry
    BY <1>0, <2>1, <2>2
  <2>5. QED
    BY <2>1, <2>3, <2>4 DEF AloneOn, Linking
<1>4. CASE Expand(p)
  <2>1. /\ w[p].pc = "layer" /\ w'[p].pc = "layer" /\ w'[p].lay = w[p].lay
        /\ w'[p].sel = w[p].sel /\ w'[p].cur = w[p].cur
        /\ \E c \in w[p].cand :
                 /\ w'[p].seen = w[p].seen \cup Ids(c, w[p].lay)
                 /\ w'[p].cand \subseteq w[p].cand \cup Ids(c, w[p].lay)
    BY <1>4, ExpandEffect
  <2>2. PICK c \in w[p].cand :
                 /\ w'[p].seen = w[p].seen \cup Ids(c, w[p].lay)
                 /\ w'[p].cand \subseteq w[p].cand \cup Ids(c, w[p].lay)
    BY <2>1
  <2>3. l <= w[p].lay => c = entry /\ Ids(c, w[p].lay) = {}
    BY <1>0, <1>1, <1>2, <2>1, LevelFacts DEF AloneOn
  <2>4. \A j \in 1 .. Len(w'[p].sel[l]) : w'[p].sel[l][j] = entry /\ j = 1
    BY <2>1 DEF AloneOn
  <2>5. l <= w'[p].lay => /\ w'[p].seen = {entry} /\ w'[p].cand \subseteq {entry}
                          /\ w'[p].cur = entry
    BY <2>1, <2>2, <2>3 DEF AloneOn
  <2>6. QED
    BY <2>1, <2>4, <2>5 DEF AloneOn, Linking
<1>5. CASE SelectLayer(p)
  <2> DEFINE h == w[p].lay
             c == MinOf(M, EfC)
             S == w[p].seen
  <2>1. /\ w[p].pc = "layer" /\ w'[p].k = w[p].k
        /\ \E out \in Selections(S, c) :
              /\ w'[p].sel = [w[p].sel EXCEPT ![h] = out]
              /\ w'[p].cur = out[1]
              /\ IF h > 0
                 THEN /\ w'[p].lay = h - 1 /\ w'[p].pc = "layer"
                      /\ w'[p].seen = {out[1]} /\ w'[p].cand = {out[1]}
                 ELSE w'[p].pc = "own"
    BY <1>5, SelectEffect
  <2>2. PICK out \in Selections(S, c) :
              /\ w'[p].sel = [w[p].sel EXCEPT ![h] = out]
              /\ w'[p].cur = out[1]
              /\ IF h > 0
                 THEN /\ w'[p].lay = h - 1 /\ w'[p].pc = "layer"
                      /\ w'[p].seen = {out[1]} /\ w'[p].cand = {out[1]}
                 ELSE w'[p].pc = "own"
    BY <2>1
  <2>3. /\ S \in SUBSET Node /\ h \in Layer /\ h \in Nat
        /\ w[p].sel \in [Layer -> ListOf(M)]
    BY LevelFacts, TypeFacts DEF Inserting
  <2>4. c \in Nat /\ c <= M0
    BY MinFacts
  <2>5. l <= h => S = {entry}
    BY <2>1 DEF AloneOn
  <2>6. w'[p].k = 0
    BY <2>1 DEF RowsInv, Linking
  <2>o. out \in Selections(S, c)
    OBVIOUS
  <2> HIDE DEF h, c, S
  <2>7. /\ Len(out) \in Nat /\ Len(out) >= 1
        /\ \A j \in 1 .. Len(out) : out[j] \in S
        /\ \A a, b \in 1 .. Len(out) : out[a] = out[b] => a = b
    <3>1. /\ Len(out) \in 1 .. c /\ \A j \in 1 .. Len(out) : out[j] \in S
      BY <2>3, <2>4, <2>o, SelectionFacts
    <3>2. \A a, b \in 1 .. Len(out) : out[a] = out[b] => a = b
      <4>1. DOMAIN out = 1 .. Len(out)
        BY <2>3, <2>4, <2>o, ListsFacts DEF Selections
      <4>2. \A a, b \in DOMAIN out : out[a] = out[b] => a = b
        BY <2>o DEF Selections
      <4>3. QED
        BY <4>1, <4>2
    <3>3. Len(out) \in Nat /\ Len(out) >= 1
      BY <2>4, <3>1
    <3>4. QED
      BY <3>1, <3>2, <3>3
  <2>8. l <= h => /\ out[1] = entry
                  /\ \A j \in 1 .. Len(out) : out[j] = entry /\ j = 1
    <3>1. 1 \in 1 .. Len(out)
      BY <2>7
    <3>2. QED
      BY <2>5, <2>7, <3>1
  <2>9. w'[p].sel[l] = IF l = h THEN out ELSE w[p].sel[l]
    BY <2>2, <2>3
  <2>10. \A j \in 1 .. Len(w'[p].sel[l]) : w'[p].sel[l][j] = entry /\ j = 1
    <3>1. CASE l = h
      BY <1>0, <2>8, <2>9, <3>1
    <3>2. CASE l # h
      BY <2>9, <3>2 DEF AloneOn
    <3>3. QED
      BY <3>1, <3>2
  <2>11. QED
    <3>1. CASE h > 0
      BY <1>0, <2>2, <2>3, <2>8, <2>10, <3>1 DEF AloneOn, Linking
    <3>2. CASE ~(h > 0)
      BY <1>0, <2>2, <2>6, <2>10, <3>2 DEF AloneOn
    <3>3. QED
      BY <3>1, <3>2
<1>6. CASE WriteOwn(p)
  <2>1. /\ w[p].pc = "own" /\ w'[p].pc = "store" /\ w'[p].k = w[p].k
        /\ w'[p].sel = w[p].sel /\ w'[p].pos = 0
    BY <1>6, OwnEffect
  <2>2. QED
    BY <2>1 DEF AloneOn, Linking
\* Where a linking thread selected the entry point only.
<1>7. ASSUME w[p].pc = "link", w[p].k = l
      PROVE  w[p].pos = 1 /\ Len(w[p].sel[l]) >= 1 /\ w[p].sel[l][1] = entry
  <2>1. w[p].sel[l] # << >>
    BY <1>7 DEF SelInv, SelOK, RowsInv, Linking
  <2>2. Len(w[p].sel[l]) \in Nat /\ Len(w[p].sel[l]) > 0
    BY <2>1, WalkNodes
  <2>3. QED
    BY <1>7, <2>2 DEF AloneOn
<1>8. CASE Connect(p)
  <2> DEFINE e == w[p].sel[w[p].k][w[p].pos]
  <2>1. /\ w[p].pc = "link" /\ w'[p].sel = w[p].sel /\ w'[p].k = w[p].k
        /\ \/ w[p].row \in Ids(e, w[p].k) /\ w'[p].pc = "link"
           \/ /\ w'[p].pc = "store" /\ w'[p].pos = w[p].pos
              /\ w'[p].dst = e
    BY <1>8, ConnectEffect
  <2>2. w[p].k = l => w[p].pos = 1 /\ e = entry /\ Ids(e, w[p].k) = {}
    BY <1>0, <1>1, <1>7, <2>1
  <2> HIDE DEF e
  <2>3. QED
    BY <2>1, <2>2 DEF AloneOn, Linking
<1>9. CASE StoreSlot(p)
  <2>1. /\ w[p].pc = "store" /\ w'[p].pc = "store" /\ w'[p].k = w[p].k
        /\ w'[p].sel = w[p].sel /\ w'[p].pos = w[p].pos
        /\ w'[p].dst = w[p].dst
    BY <1>9, SlotEffect
  <2>2. QED
    BY <2>1 DEF AloneOn, Linking
<1>10. CASE StoreCount(p)
  <2>1. /\ w[p].pc = "store" /\ w'[p].pc = "link" /\ w'[p].k = w[p].k
        /\ w'[p].sel = w[p].sel /\ w'[p].pos = w[p].pos + 1
        /\ cnt' = [cnt EXCEPT ![w[p].dst][w[p].k] = Len(w[p].new)]
    BY <1>10, CountEffect
  <2>2. ASSUME w[p].k = l, w[p].dst = entry PROVE FALSE
    <3>1. Len(w[p].new) > 0
      BY <2>1 DEF SelInv, SelOK
    <3>2. cnt \in [Node -> [Layer -> 0 .. M0]]
      BY DEF TypeInv, Typed, SharedOK
    <3> DEFINE n == Len(w[p].new)
    <3>3. n > 0 /\ cnt' = [cnt EXCEPT ![entry][l] = n]
      BY <2>1, <2>2, <3>1
    <3> HIDE DEF n
    <3>4. cnt'[entry][l] > 0
      BY <3>2, <3>3
    <3>5. QED
      BY <3>4
  <2>3. QED
    BY <1>0, <2>1, <2>2 DEF AloneOn, Linking
<1>11. CASE EndLayer(p) /\ w[p].k < Lmax(p)
  <2>1. /\ w[p].pc = "link" /\ w[p].pos > Len(w[p].sel[w[p].k])
        /\ w'[p].pc = "own" /\ w'[p].k = w[p].k + 1 /\ w'[p].sel = w[p].sel
    BY <1>11, EndLayerEffect
  <2>2. w[p].k <= l /\ w[p].k # l
    <3>1. w[p].k <= l
      BY <2>1 DEF AloneOn, Linking
    <3>2. Len(w[p].sel[l]) \in Nat
      BY WalkNodes
    <3>3. QED
      BY <1>0, <1>7, <2>1, <3>1, <3>2
  <2>3. QED
    BY <1>0, <2>1, <2>2 DEF AloneOn, Linking
<1>12. QED
  BY <1>3, <1>4, <1>5, <1>6, <1>8, <1>9, <1>10, <1>11 DEF WalkStep

\* The entry point stays: what is written is not one of its empty lists.
LEMMA EmptyStays ==
    ASSUME TypeInv, RowsInv, HeightInv, SelInv, EmptyInv, [Next]_vars,
           entry \in Node, entry' = entry, top' = top,
           NEW l \in Layer, l <= top, cnt'[entry][l] = 0
    PROVE  /\ \A h \in l .. top : cnt'[entry][h] = 0
           /\ \A p \in Proc : AloneOn(p, l)'
<1>0. /\ entry # None /\ top \in Layer /\ l \in Nat /\ top \in Nat
      /\ cnt[entry][l] \in Nat
  <2>1. cnt[entry][l] \in 0 .. M0
    BY DEF TypeInv, Typed, SharedOK
  <2>2. QED
    BY <2>1, LevelFacts
<1>1. cnt[entry][l] = 0
  <2>1. cnt[entry][l] > 0 => cnt'[entry][l] > 0
    BY CountsStay
  <2>2. QED
    BY <1>0, <2>1
<1>2. /\ \A h \in l .. top : cnt[entry][h] = 0
      /\ \A p \in Proc : AloneOn(p, l)
  BY <1>0, <1>1 DEF EmptyInv
<1>3. ASSUME NEW h \in l .. top PROVE cnt'[entry][h] = 0
  <2>1. h \in Layer /\ h \in Nat /\ l <= h
    BY <1>0 DEF Layer
  <2>2. SUFFICES ASSUME cnt'[entry][h] # cnt[entry][h] PROVE FALSE
    BY <1>2
  <2>3. CASE h = 0 /\ cnt'[entry][h] > 0
    <3>1. l = 0
      BY <1>0, <2>1, <2>3
    <3>2. QED
      BY <2>3, <3>1
  <2>4. ASSUME NEW p \in Proc, StoreCount(p), w[p].dst = entry, w[p].k = h,
               cnt'[entry][h] > 0
        PROVE  FALSE
    <3>1. h <= l
      BY <1>2, <2>4 DEF AloneOn, StoreCount, Linking
    <3>2. h = l
      BY <1>0, <2>1, <3>1
    <3>3. QED
      BY <2>4, <3>2
  <2>5. QED
    BY <2>1, <2>2, <2>3, <2>4, CountSteps
<1>4. ASSUME NEW p \in Proc PROVE AloneOn(p, l)'
  <2>1. CASE w'[p] = w[p]
    BY <1>2, <2>1 DEF AloneOn, Linking
  <2>2. CASE WalkStep(p)
    BY <1>2, <2>2, AloneStays
  <2>3. CASE Finish(p)
    BY <2>3, FinishFields DEF AloneOn, Walking, Linking
  <2>4. CASE Starts(p)
    <3>1. /\ ~Walking(w[p]) /\ w'[p].pc \in {"greedy", "layer"}
          /\ w'[p].sel = w[p].sel /\ w'[p].cur = entry
          /\ w'[p].seen = {entry} /\ w'[p].cand = {entry}
      BY <2>4, StartFields
    <3>2. w[p].sel[l] = << >>
      BY <3>1, NoSelection
    <3>3. QED
      BY <3>1, <3>2 DEF AloneOn, Linking
  <2>5. CASE /\ w[p].pc \in {"idle", "entry", "eplock", "publish"}
             /\ ~Starts(p) /\ ~Finish(p) /\ w'[p] # w[p]
    <3>1. /\ w'[p].pc \in {"idle", "entry", "eplock"}
          /\ w'[p].sel = w[p].sel \/ w'[p] = Idle
      BY <2>5, BeforeSteps
    <3>2. \A j \in 1 .. Len(w'[p].sel[l]) : w'[p].sel[l][j] = entry /\ j = 1
      BY <1>2, <3>1 DEF AloneOn, Idle
    <3>3. QED
      BY <3>1, <3>2 DEF AloneOn, Linking
  <2>6. QED
    BY <2>1, <2>2, <2>3, <2>4, <2>5, ThreadSteps
<1>5. QED
  BY <1>3, <1>4

\* The entry point changes while no insertion has come to another one: the
\* first row of all, or row 0 of the build.
LEMMA EmptyFirst ==
    ASSUME TypeInv, RowsInv, HeightInv, SelInv, ListsInv, [Next]_vars,
           UNCHANGED graph, NEW e \in Node, entry' = e, Open(e),
           \A p \in Proc : /\ ~Walking(w[p]) /\ ~Walking(w'[p])
                           /\ w'[p] = w[p] \/ Finish(p)
    PROVE  EmptyInv'
<1>1. ASSUME NEW h \in Layer PROVE cnt'[e][h] = 0
  <2>1. ASSUME NEW p \in Proc PROVE Behind(w[p], h)
    <3>1. ~Linking(w[p]) /\ w[p].k = 0 /\ h \in Nat
      BY LevelFacts DEF Walking, Linking, RowsInv
    <3>2. QED
      BY <3>1 DEF Behind, Linking
  <2>2. NewRow(e, h)
    BY <2>1 DEF NewRow
  <2>3. QED
    BY <2>2 DEF ListsInv, graph
<1>2. ASSUME NEW p \in Proc, NEW l \in Layer PROVE AloneOn(p, l)'
  <2>1. w'[p].sel[l] = << >>
    BY NoSelection, FinishFields
  <2>2. QED
    BY <2>1 DEF AloneOn, Walking, Linking
<1>3. ASSUME NEW l \in Layer, NEW h \in l .. top', l <= top' PROVE h \in Layer
  <2>1. TypeInv'
    BY NextTypeInv
  <2>2. QED
    BY <1>3, <2>1 DEF TypeInv, Typed, SharedOK, Layer
<1>4. QED
  BY <1>1, <1>2, <1>3 DEF EmptyInv

\* A row becomes the entry point: its lists above the old top layer are the
\* only ones that may be empty, and nobody has come so high.
LEMMA EmptyRaised ==
    ASSUME TypeInv, RowsInv, HeightInv, SelInv, ListsInv, FullInv, ZeroInv,
           [Next]_vars, NEW p \in Proc, FinishesLater(p),
           Level[w[p].row] > w[p].top
    PROVE  EmptyInv'
<1>1. /\ Busy(w[p]) /\ Walking(w[p]) /\ entry # None
      /\ w[p].row \in Node /\ Open(w[p].row)
  BY FinishCloses DEF FinishesLater, HeightInv, Walking, Busy, Finish, TypeInv, WorkersOK, WorkerOK
<1> DEFINE v == w[p].row
<1>2. /\ entry' = v /\ top' = Level[v] /\ UNCHANGED graph
      /\ \A x \in Proc \ {p} : w'[x] = w[x]
  BY DEF FinishesLater, Finish
<1>3. /\ w[p].top \in Nat /\ Level[v] \in Nat /\ w[p].k \in Nat /\ top \in Nat
      /\ w[p].top <= top /\ v \in Node /\ Level[v] \in Layer
  BY <1>1, LevelFacts DEF HeightInv
<1>4. epLock = {p} /\ w[p].top = top /\ w[p].k = top
  <2>1. p \in epLock /\ w[p].top = top
    BY <1>1, <1>3 DEF HeightInv
  <2>2. QED
    BY <1>3, <2>1 DEF HeightInv, FinishesLater, Lmax, MinOf
<1>5. v # 0 /\ v # entry
  BY <1>1 DEF ZeroInv, HeightInv
<1> SUFFICES ASSUME NEW l \in Layer, l <= top', cnt'[entry'][l] = 0
             PROVE  /\ \A h \in l .. top' : cnt'[entry'][h] = 0
                    /\ \A x \in Proc : AloneOn(x, l)'
  BY DEF EmptyInv
<1>6. l \in Nat /\ l <= Level[v] /\ cnt[v][l] = 0
  BY <1>2, LevelFacts DEF graph
<1>7. NewRow(v, l)
  <2>1. ~(cnt[v][l] > 0)
    BY <1>6
  <2>2. QED
    BY <1>3, <1>5, <1>6, <2>1 DEF FullInv
<1>8. l > top
  BY <1>1, <1>3, <1>4, <1>6, <1>7 DEF NewRow, Behind, FinishesLater
<1>9. ASSUME NEW h \in l .. top' PROVE cnt'[entry'][h] = 0
  <2>1. h \in Layer /\ l <= h
    BY <1>2, <1>3, <1>6 DEF Layer
  <2>2. NewRow(v, h)
    BY <1>7, <2>1, NewRowAbove
  <2>3. QED
    BY <1>2, <1>3, <2>1, <2>2 DEF ListsInv, graph
<1>10. ASSUME NEW x \in Proc PROVE AloneOn(x, l)'
  <2>1. CASE x = p
    BY <2>1, FinishFields DEF FinishesLater, AloneOn, Walking, Linking
  <2>2. CASE x # p /\ ~Walking(w[x])
    <3>1. w[x].sel[l] = << >> /\ w'[x] = w[x]
      BY <1>2, <2>2, NoSelection
    <3>2. QED
      BY <2>2, <3>1 DEF AloneOn, Walking, Linking
  <2>3. CASE x # p /\ Walking(w[x])
    <3>1. Busy(w[x]) /\ w'[x] = w[x]
      BY <1>2, <2>3 DEF Walking, Busy
    <3>2. /\ w[x].top \in Nat /\ w[x].top <= top /\ w[x].lay \in Nat
          /\ w[x].k \in Nat
      BY <2>3, LevelFacts DEF HeightInv
    <3>3. Lmax(x) \in Nat /\ Lmax(x) < l
      BY <1>3, <1>6, <1>8, <3>1, <3>2, LmaxFacts
    <3>4. w[x].sel[l] = << >>
      BY <1>6, <3>3 DEF SelInv, SelOK
    <3>5. w[x].pc \in {"greedy", "layer"} => ~(l <= w[x].lay)
      BY <1>3, <1>6, <1>8, <3>2, <3>3 DEF SelInv, SelOK
    <3>6. Linking(w[x]) => w[x].k < l
      BY <1>6, <3>2, <3>3 DEF RowsInv
    <3>7. QED
      BY <1>6, <3>1, <3>2, <3>4, <3>5, <3>6 DEF AloneOn, Linking
  <2>4. QED
    BY <2>1, <2>2, <2>3
<1>11. QED
  BY <1>9, <1>10

LEMMA NextEmptyInv ==
    ASSUME TypeInv, RowsInv, HeightInv, SelInv, ListsInv, EmptyInv, FullInv,
           ZeroInv, [Next]_vars
    PROVE  EmptyInv'
<1>0. /\ 0 \in Node /\ None \notin Node /\ None # 0
      /\ entry \in Node \cup {None}
  BY RowZero, LevelFacts DEF Node, None
<1>1. CASE UNCHANGED <<entry, top>>
  BY <1>0, <1>1, EmptyStays DEF EmptyInv
<1>2. CASE InsertRow0 /\ N # 0
  <2>1. /\ phase = "start" /\ entry' = 0 /\ UNCHANGED <<graph, w>>
    BY <1>2, RowZeroFirst
  <2>2. Open(0) /\ \A p \in Proc : ~Walking(w[p])
    BY <2>1, NoEntryAtStart DEF Open, Walking, Busy
  <2>3. \A p \in Proc : /\ ~Walking(w[p]) /\ ~Walking(w'[p])
                        /\ w'[p] = w[p] \/ Finish(p)
    BY <2>1, <2>2
  <2>4. QED
    BY <1>0, <2>1, <2>2, <2>3, EmptyFirst
<1>3. ASSUME NEW p \in Proc, FinishesFirst(p) PROVE EmptyInv'
  <2>1. /\ entry = None /\ entry' = w[p].row /\ UNCHANGED graph /\ Finish(p)
        /\ \A x \in Proc \ {p} : w'[x] = w[x]
    BY <1>3 DEF FinishesFirst, Finish
  <2>2. w[p].row \in Node /\ Open(w[p].row)
    BY <1>0, <2>1, FinishCloses
  <2>3. \A x \in Proc : /\ ~Walking(w[x]) /\ ~Walking(w'[x])
                        /\ w'[x] = w[x] \/ Finish(x)
    BY <2>1, FinishFields DEF HeightInv
  <2>4. QED
    BY <2>1, <2>2, <2>3, EmptyFirst
<1>4. ASSUME NEW p \in Proc, FinishesLater(p), ~UNCHANGED <<entry, top>>
      PROVE  EmptyInv'
  BY <1>4, EmptyRaised DEF FinishesLater
<1>5. QED
  BY <1>1, <1>2, <1>3, <1>4, Steps DEF Goes, Starts

-----------------------------------------------------------------------------
(* A query that may return two rows.                                       *)

\* Two rows are published only where row 0 has a list.
LEMMA PublishedTwo ==
    ASSUME TypeInv, RowsInv, ZeroInv, phase = "serve", entry # None, count >= 2
    PROVE  cnt[0][0] > 0
<1>1. 0 \in Node /\ 0 \in Layer /\ count \in 0 .. CapN
  BY RowZero, TypeFacts
<1>2. 1 \in Node
  BY <1>1 DEF Node
<1>3. /\ N <= Claimed /\ Claimed \in Nat /\ N \in Nat
      /\ \A x \in Workers : ~(w[x].row <= 1 /\ 1 < w[x].hi)
  <2>1. \A x \in Workers : w[x].row \in Nat /\ w[x].hi \in 0 .. N
    BY TypeFacts DEF Inserting
  <2>2. QED
    BY <2>1, TypeFacts DEF RowsInv
<1>4. ~Open(1)
  BY <1>1, <1>3 DEF Open
<1>5. cnt[0][0] \in Nat
  BY <1>1 DEF TypeInv, Typed, SharedOK
<1>6. QED
  BY <1>2, <1>4, <1>5 DEF ZeroInv

\* The node that a query comes to on layer 0 has a list.
LEMMA MetHasList ==
    ASSUME TypeInv, FullInv, NEW v \in Node, Good(v, 0), cnt[0][0] > 0
    PROVE  cnt[v][0] > 0
BY RowZero, LevelFacts DEF FullInv, Good

LEMMA NextTwoInv ==
    ASSUME TypeInv, RowsInv, HeightInv, SelInv, ListsInv, QueriesInv, FullInv,
           ZeroInv, TwoInv, [Next]_vars
    PROVE  TwoInv'
<1>0. 0 \in Node /\ 0 \in Layer
  BY RowZero
<1> SUFFICES ASSUME NEW s \in Searchers, q'[s].len >= 2
             PROVE  /\ q'[s].pc # "idle" => cnt'[0][0] > 0
                    /\ q'[s].pc = "list" /\ q'[s].lay = 0 =>
                          \/ \E a, b \in q'[s].seen : a # b
                          \/ \E a \in q'[s].seen : q'[s].cand = {a}
                    /\ q'[s].pc = "slot" /\ q'[s].lay = 0 =>
                          \/ \E a, b \in q'[s].seen : a # b
                          \/ q'[s].node \in q'[s].seen /\ q'[s].n >= 1 /\ q'[s].j = 1
                    /\ q'[s].pc = "idle" /\ Ef >= 2
                          => \E a, b \in q'[s].seen : a # b
  BY DEF TwoInv
<1>1. cnt[0][0] > 0 => cnt'[0][0] > 0
  BY <1>0, CountsStay
<1>2. q[s] \in Querying
  BY TypeFacts
<1>3. /\ q[s].lay \in Nat /\ q[s].n \in 0 .. M0 /\ q[s].j \in Nat
      /\ q[s].seen \subseteq Node /\ q[s].cand \subseteq Node
      /\ q[s].lay \in Layer /\ q[s].node \in Node /\ M0 \in Nat
  BY <1>2 DEF Querying, Layer
<1>4. CASE q'[s] = q[s]
  BY <1>1, <1>4 DEF TwoInv
<1>5. CASE Query(s)
  <2>0. UNCHANGED graph
    BY <1>5, QueryEffect
  <2>1. CASE /\ q[s].pc = "idle" /\ entry # None
             /\ q'[s].pc = "list" /\ q'[s].seen = {entry}
             /\ q'[s].cand = {entry} /\ q'[s].len = count
    <3>1. phase = "serve"
      BY <1>5, <2>1 DEF Query, StartQuery, SearchStep, LoadCount, LoadSlot,
                        EndList, Return
    <3>2. cnt[0][0] > 0
      BY <2>1, <3>1, PublishedTwo
    <3>3. QED
      BY <1>1, <2>1, <3>2
  <2>2. CASE /\ q[s].pc = "list" /\ q'[s].pc = "slot"
             /\ q'[s].lay = q[s].lay
             /\ q'[s].seen = q[s].seen /\ q'[s].len = q[s].len
             /\ q'[s].node \in ToRead(s) /\ q'[s].node \in Node
             /\ q'[s].n = cnt[q'[s].node][q[s].lay] /\ q'[s].j = 1
    <3>1. cnt[0][0] > 0
      BY <2>2 DEF TwoInv
    <3>2. SUFFICES ASSUME q[s].lay = 0
          PROVE  \/ \E a, b \in q[s].seen : a # b
                 \/ q'[s].node \in q[s].seen /\ q'[s].n >= 1
      BY <1>1, <2>2, <3>1
    <3>3. CASE \E a \in q[s].seen : q[s].cand = {a}
      <4> DEFINE v == q'[s].node
      <4>1. v \in q[s].seen /\ v \in Node
        BY <2>2, <3>2, <3>3 DEF ToRead
      <4>2. Good(v, 0)
        BY <1>0, <2>2, <3>2, <4>1 DEF QueriesInv, QueryOK
      <4>3. cnt[v][0] > 0 /\ cnt[v][0] \in Nat
        <5>1. cnt[v][0] \in 0 .. M0
          BY <1>0, <4>1 DEF TypeInv, Typed, SharedOK
        <5>2. QED
          BY <3>1, <4>1, <4>2, <5>1, MetHasList
      <4>4. QED
        BY <2>2, <3>2, <4>1, <4>3
    <3>4. QED
      BY <2>2, <3>2, <3>3 DEF TwoInv
  <2>3. CASE /\ q[s].pc = "slot" /\ q'[s].pc = "slot"
             /\ q[s].j \in 1 .. q[s].n
             /\ q'[s].lay = q[s].lay /\ q'[s].len = q[s].len
             /\ q'[s].seen = q[s].seen \cup
                                {slots[q[s].node][q[s].lay][q[s].j]}
    <3>1. cnt[0][0] > 0
      BY <2>3 DEF TwoInv
    <3>2. SUFFICES ASSUME q[s].lay = 0
          PROVE  \E a, b \in q'[s].seen : a # b
      BY <1>1, <2>3, <3>1
    <3>3. CASE q[s].node \in q[s].seen
      <4> DEFINE v == q[s].node
                 e == slots[v][0][q[s].j]
      <4>1. e \in Node
        <5>1. v \in Node /\ q[s].j \in 1 .. M0
          BY <1>3, <2>3
        <5>2. slots \in [Node -> [Layer -> [1 .. M0 -> Node]]]
          BY DEF TypeInv, Typed, SharedOK
        <5> DEFINE j == q[s].j
        <5>3. e = slots[v][0][j] /\ j \in 1 .. M0
          BY <5>1
        <5> HIDE DEF v, j, e
        <5>4. QED
          BY <1>0, <5>1, <5>2, <5>3
      <4>2. GoodSlots(v, 0, q[s].n)
        BY <1>0, <1>3, <2>3, <3>2 DEF QueriesInv, QueryOK
      <4>3. e # v
        BY <2>3, <4>1, <4>2 DEF GoodSlots
      <4>4. QED
        BY <2>3, <3>2, <3>3, <4>3
    <3>4. QED
      BY <2>3, <3>2, <3>3 DEF TwoInv
  <2>4. CASE /\ q[s].pc = "slot" /\ q'[s].pc = "list" /\ q[s].j > q[s].n
             /\ q'[s].len = q[s].len
             /\ \/ /\ q'[s].lay = q[s].lay /\ q'[s].seen = q[s].seen
                \/ /\ q[s].lay > 0
                   /\ q'[s].seen = {q[s].cur} /\ q'[s].cand = {q[s].cur}
    BY <1>1, <1>3, <2>4 DEF TwoInv
  <2>5. CASE /\ q[s].pc = "list" /\ q[s].lay = 0 /\ q'[s].pc = "idle"
             /\ q'[s].seen = q[s].seen /\ q'[s].len = q[s].len
             /\ q[s].cand = {} \/ Cardinality(q[s].seen) >= Ef
    <3>1. SUFFICES ASSUME Ef >= 2 PROVE \E a, b \in q[s].seen : a # b
      BY <2>5
    <3>2. SUFFICES ASSUME NEW a \in q[s].seen, q[s].cand = {a},
                          \A b \in q[s].seen : b = a
                   PROVE  FALSE
      BY <2>5 DEF TwoInv
    <3>3. q[s].seen = {a}
      BY <3>2
    <3>4. Cardinality(q[s].seen) = 1
      BY <3>3, FS_Singleton
    <3>5. Ef \in Nat
      OBVIOUS
    <3>6. QED
      BY <2>5, <3>1, <3>2, <3>4, <3>5
  <2>6. QED
    BY <1>5, <2>1, <2>2, <2>3, <2>4, <2>5, QueryEffect
<1>6. QED
  BY <1>4, <1>5, QuerySteps

-----------------------------------------------------------------------------
(* The theorems.                                                           *)

ReachInv == WalkInv /\ EmptyInv /\ FullInv /\ ZeroInv /\ TwoInv

LEMMA InitReachInv == Init => ReachInv
<1> SUFFICES ASSUME Init PROVE ReachInv
  OBVIOUS
<1>1. WalkInv
  BY InitWalkInv
<1>2. entry = None /\ phase = "start"
  BY DEF Init
<1>3. \A v \in Node : Open(v)
  BY <1>2 DEF Open
<1>4. \A p \in Proc : ~Busy(w[p])
  BY DEF Init, Idle, Busy
<1>5. FullInv
  BY <1>3, <1>4 DEF FullInv, NewRow
<1>6. TwoInv
  <2>1. \A s \in Searchers : q[s].len = 0
    BY DEF Init, NoQuery
  <2>2. QED
    BY <2>1 DEF TwoInv
<1>7. QED
  BY <1>1, <1>2, <1>3, <1>5, <1>6 DEF ReachInv, EmptyInv, ZeroInv

LEMMA NextReachInv == ReachInv /\ [Next]_vars => ReachInv'
<1> SUFFICES ASSUME ReachInv, [Next]_vars PROVE ReachInv'
  OBVIOUS
<1>1. /\ TypeInv /\ RowsInv /\ HeightInv /\ SelInv /\ ListsInv /\ WalksInv
      /\ QueriesInv /\ EmptyInv /\ FullInv /\ ZeroInv /\ TwoInv /\ WalkInv
  BY DEF ReachInv, WalkInv
<1>2. WalkInv'
  BY <1>1, NextWalkInv
<1>3. EmptyInv' /\ FullInv' /\ ZeroInv' /\ TwoInv'
  BY <1>1, NextEmptyInv, NextFullInv, NextZeroInv, NextTwoInv
<1>4. QED
  BY <1>2, <1>3 DEF ReachInv

LEMMA ReachInvariant == Spec => []ReachInv
BY InitReachInv, NextReachInv, PTL DEF Spec

\* insert writes the layers of a row bottom-up, and nobody can come to the row
\* on a layer before its list there is stored: a query that has come to a row
\* on layer l finds the lists of that row on the layers below written.
THEOREM QueriesDescend == Spec => []NoDeadEnd
<1>1. ReachInv => NoDeadEnd
  <2> SUFFICES ASSUME ReachInv, NEW s \in Searchers, q[s].pc # "idle",
                      NEW v \in q[s].seen \cup {q[s].cur}, NEW k \in 0 .. q[s].lay
               PROVE  cnt[v][k] > 0 \/ v = 0 \/ (v = entry /\ k > 0)
    BY DEF NoDeadEnd, CanDescend
  <2>1. TypeInv /\ QueriesInv /\ FullInv
    BY DEF ReachInv, WalkInv
  <2>2. q[s] \in Querying
    BY <2>1, TypeFacts
  <2>3. v \in Node /\ q[s].lay \in Layer /\ k \in Layer /\ k <= q[s].lay
    BY <2>2 DEF Querying, Layer
  <2>4. Good(v, q[s].lay)
    BY <2>1, <2>3 DEF QueriesInv, QueryOK
  <2>5. Good(v, k)
    BY <2>1, <2>3, <2>4, GoodBelow
  <2>6. QED
    BY <2>1, <2>3, <2>5 DEF FullInv, Good
<1>2. QED
  BY <1>1, ReachInvariant, PTL

\* Search: a query that found two rows published when it began, and may return
\* two, returns two, whatever insertions run beside it.
THEOREM QueriesFindTwo == Spec => []NoShortResult
<1>1. ReachInv => NoShortResult
  <2> SUFFICES ASSUME ReachInv, NEW s \in Searchers, q[s].pc = "idle",
                      q[s].len >= 2, Ef >= 2
               PROVE  Cardinality(q[s].seen) >= 2
    BY DEF NoShortResult
  <2>1. TypeInv /\ TwoInv
    BY DEF ReachInv, WalkInv
  <2>2. PICK a, b \in q[s].seen : a # b
    BY <2>1 DEF TwoInv
  <2>3. q[s].seen \subseteq Node
    <3>1. q[s] \in Querying
      BY <2>1, TypeFacts
    <3>2. QED
      BY <3>1 DEF Querying
  <2>4. IsFiniteSet(q[s].seen)
    <3>1. IsFiniteSet(Node)
      BY FS_Interval DEF Node
    <3>2. QED
      BY <2>3, <3>1, FS_Subset
  <2> DEFINE S == q[s].seen
  <2>5. S \in SUBSET S /\ {a, b} \subseteq S
    OBVIOUS
  <2>6. Cardinality({a, b}) = 2
    <3>1. IsFiniteSet({a}) /\ Cardinality({a}) = 1
      BY FS_Singleton
    <3>2. {a, b} = {a} \cup {b} /\ b \notin {a}
      BY <2>2
    <3>3. Cardinality({a} \cup {b}) = 1 + 1
      BY <3>1, <3>2, FS_AddElement
    <3>4. QED
      BY <3>2, <3>3
  <2>7. Cardinality({a, b}) <= Cardinality(S)
    BY <2>4, <2>5, FS_Subset
  <2>8. Cardinality(S) \in Nat
    BY <2>4, FS_CardinalityType
  <2>9. QED
    BY <2>6, <2>7, <2>8
<1>2. QED
  BY <1>1, ReachInvariant, PTL
=============================================================================
