----------------------------- MODULE HnswInsert -----------------------------
(***************************************************************************)
(* The concurrent HNSW graph of src/indexes/go/hnsw/hnsw.go: the parallel  *)
(* build (BuildCap), the inserter that adds rows while queries run         *)
(* (Insert), and the queries, which take no lock (Search).                 *)
(*                                                                         *)
(* A node's list on a layer is a slot array and a count, stored and loaded *)
(* one word at a time.  An inserting worker holds the lock of at most one  *)
(* node while it rewrites that node's list, and the entry lock for its     *)
(* whole insertion when its row is above the top layer.  Inserters read    *)
(* lists under the node's lock, so such a read is one step; a query loads  *)
(* the count and then one slot per step.                                   *)
(*                                                                         *)
(* Scores are abstracted: wherever the code compares scores, every outcome *)
(* that some scores can produce is allowed.  What a comparison never       *)
(* changes is kept: a walk scores a node once, a result list below its     *)
(* size limit takes every scored node, a selection is not empty, holds its *)
(* best item first, and has no item twice.                                 *)
(***************************************************************************)
EXTENDS Integers, Sequences, FiniteSets

CONSTANTS
    CapN,       \* rows allocated: nodes 0..CapN-1
    N,          \* rows of the parallel build; rows N..CapN-1 come by Insert
    MaxLevel,   \* highest level a row may draw (255 in the code)
    Level,      \* Level[v]: drawn for all CapN rows before the build
    M, M0,      \* list caps on the upper layers and on layer 0
    EfC,        \* ef_construct
    Ef,         \* ef of a query (at least its k)
    Chunk,      \* parallelChunk: consecutive rows a worker claims at once
    Workers,    \* threads of the build
    Inserter,   \* the one thread that may call Insert after the build
    Searchers,  \* threads that call Search
    MaxRepair   \* bound: repair edges added between the build and the serving

Node == 0 .. CapN - 1
Layer == 0 .. MaxLevel
None == -1
Proc == Workers \cup {Inserter}
Free == {}      \* a lock nobody holds; a held lock is {holder}

ASSUME CapAssumption == CapN \in Nat \ {0} /\ N \in 0 .. CapN
ASSUME LevelAssumption == MaxLevel \in Nat /\ Level \in [Node -> Layer]
ASSUME SizeAssumption == /\ M \in Nat /\ M >= 2 /\ M0 = 2 * M
                         /\ EfC \in Nat \ {0} /\ Ef \in Nat \ {0}
                         /\ Chunk \in Nat \ {0} /\ MaxRepair \in Nat
ASSUME ProcAssumption == Inserter \notin Workers

VARIABLES
    phase,   \* "start", "build", "repair" (all of BuildCap), then "serve"
    next,    \* chunks claimed by the build's workers
    slots,   \* slots[v][l]: the slot array of node v on layer l
    cnt,     \* cnt[v][l]: its count
    entry,   \* entry point, None before the first row; one word with top
    top,     \* top layer
    epLock,  \* the entry lock in write mode
    lock,    \* lock[v]: the lock of node v
    count,   \* rows published by Len()
    repairs, \* repair edges added so far
    w,       \* w[p]: the insertion that thread p runs
    q        \* q[s]: the query that thread s runs

graph == <<slots, cnt>>
vars == <<phase, next, slots, cnt, entry, top, epLock, lock, count, repairs,
          w, q>>

-----------------------------------------------------------------------------
(* Lists, and what the score comparisons may choose.                       *)

\* slots: the slots of a list; the word after the last one belongs to the
\* list of another node.
SlotCount(l) == IF l = 0 THEN M0 ELSE M

\* Mutant: the cap of layer 0 on every layer.
CapOfAll(l) == M0

CapOf(l) == IF l = 0 THEN M0 ELSE M

MinOf(a, b) == IF a <= b THEN a ELSE b

\* The nodes of v's list on layer l (with v's lock held, or nothing running).
Ids(v, l) == {slots[v][l][j] : j \in 1 .. cnt[v][l]}

\* v's list on layer l with node i appended.
Appended(v, l, i) ==
    [j \in 1 .. cnt[v][l] + 1 |->
        IF j <= cnt[v][l] THEN slots[v][l][j] ELSE i]

\* Non-empty lists of at most limit nodes of S.
Lists(S, limit) == UNION {[1 .. n -> S] : n \in 1 .. limit}

\* selectHeuristic over the nodes S with a limit: some of them in score order,
\* none twice, and at least the best one.
Selections(S, limit) ==
    {f \in Lists(S, limit) : \A a, b \in DOMAIN f : f[a] = f[b] => a = b}

\* The part of the newly scored nodes that enters the candidate heap: a node
\* is left out only when the result list already holds ef items.
Pushed(new, seen, ef) ==
    {push \in SUBSET new :
        Cardinality(push) >= MinOf(Cardinality(new), ef - Cardinality(seen))}

\* Mutant: the edges are written top-down, in the order they are selected.
WriteLayerTopDown(k, lmax) == lmax - k

\* Layers are written in this order: the k-th layer written (from 0) when
\* lmax is the highest layer the row is linked on.
WriteLayer(k, lmax) == k

-----------------------------------------------------------------------------
Idle == [pc |-> "idle", row |-> 0, hi |-> 0, top |-> 0, lay |-> 0, cur |-> 0,
         seen |-> {}, cand |-> {}, sel |-> [l \in Layer |-> << >>],
         k |-> 0, pos |-> 0, dst |-> 0, new |-> << >>, at |-> 0]

NoQuery == [pc |-> "idle", lay |-> 0, cur |-> 0, node |-> 0, n |-> 0, j |-> 0,
            seen |-> {}, cand |-> {}, len |-> 0]

\* BuildCap up to the first insertion: slots and counts are zeroed.
Init == /\ phase = "start"
        /\ next = 0
        /\ slots = [v \in Node |-> [l \in Layer |-> [j \in 1 .. M0 |-> 0]]]
        /\ cnt = [v \in Node |-> [l \in Layer |-> 0]]
        /\ entry = None /\ top = 0
        /\ epLock = Free
        /\ lock = [v \in Node |-> Free]
        /\ count = 0
        /\ repairs = 0
        /\ w = [p \in Proc |-> Idle]
        /\ q = [s \in Searchers |-> NoQuery]

\* Row 0 is inserted first, alone: it becomes the entry point with no edge.
InsertRow0 ==
    /\ phase = "start"
    /\ IF N = 0 THEN phase' = "serve" /\ UNCHANGED <<entry, top>>
                ELSE phase' = "build" /\ entry' = 0 /\ top' = Level[0]
    /\ UNCHANGED <<next, graph, epLock, lock, count, repairs, w, q>>

\* Mutant: the first row of a chunk is skipped, not only row 0.
ClaimSkip(p) ==
    /\ phase = "build" /\ p \in Workers /\ w[p].pc = "idle"
    /\ w[p].row >= w[p].hi
    /\ next * Chunk < N
    /\ next' = next + 1
    /\ LET lo == next * Chunk + 1
           hi == MinOf(next * Chunk + Chunk, N)
       IN  w' = [w EXCEPT ![p].row = lo, ![p].hi = hi]
    /\ UNCHANGED <<phase, graph, entry, top, epLock, lock, count, repairs, q>>

\* A worker claims the next chunk of rows; row 0 is skipped.
Claim(p) ==
    /\ phase = "build" /\ p \in Workers /\ w[p].pc = "idle"
    /\ w[p].row >= w[p].hi
    /\ next * Chunk < N
    /\ next' = next + 1
    /\ LET lo == IF next = 0 THEN 1 ELSE next * Chunk
           hi == MinOf(next * Chunk + Chunk, N)
       IN  w' = [w EXCEPT ![p].row = lo, ![p].hi = hi]
    /\ UNCHANGED <<phase, graph, entry, top, epLock, lock, count, repairs, q>>

\* The worker starts on the next row of its chunk.
NextRow(p) ==
    /\ phase = "build" /\ p \in Workers /\ w[p].pc = "idle"
    /\ w[p].row < w[p].hi
    /\ w' = [w EXCEPT ![p].pc = "entry"]
    /\ UNCHANGED <<phase, next, graph, entry, top, epLock, lock, count,
                   repairs, q>>

\* Insert: the row must be Len() and below the capacity.
InsertNext ==
    /\ phase = "serve" /\ w[Inserter].pc = "idle" /\ count < CapN
    /\ w' = [w EXCEPT ![Inserter].pc = "entry", ![Inserter].row = count]
    /\ UNCHANGED <<phase, next, graph, entry, top, epLock, lock, count,
                   repairs, q>>

-----------------------------------------------------------------------------
(* insert(i): the search for neighbors.                                    *)

\* The descent starts at entry point e of top layer t: greedy on the layers
\* above the row's level, search-layer from there down.
Descent(p, e, t) ==
    [w[p] EXCEPT !.pc = IF t > Level[w[p].row] THEN "greedy" ELSE "layer",
                 !.top = t, !.lay = t, !.cur = e,
                 !.seen = {e}, !.cand = {e}]

\* The row of p is in the graph: a builder goes on with its chunk, the
\* inserter has yet to publish the row.
Inserted(p) ==
    [Idle EXCEPT !.pc  = IF p = Inserter THEN "publish" ELSE "idle",
                 !.row = IF p = Inserter THEN w[p].row ELSE w[p].row + 1,
                 !.hi  = w[p].hi]

\* The entry point and the top layer are read under the entry lock, shared.
\* The very first row has nobody to link to; a row above the top layer goes
\* for the lock in write mode.
ReadEntry(p) ==
    /\ w[p].pc = "entry"
    /\ epLock = Free
    /\ LET i == w[p].row IN
       IF Level[i] > top
       THEN /\ w' = [w EXCEPT ![p].pc = "eplock"]
            /\ UNCHANGED <<entry, top>>
       ELSE IF entry = None
       THEN /\ entry' = i /\ top' = Level[i]
            /\ w' = [w EXCEPT ![p] = Inserted(p)]
       ELSE /\ w' = [w EXCEPT ![p] = Descent(p, entry, top)]
            /\ UNCHANGED <<entry, top>>
    /\ UNCHANGED <<phase, next, graph, epLock, lock, count, repairs, q>>

\* Mutant: the lock is given back before the insertion.
TakeEpLockShort(p) ==
    /\ w[p].pc = "eplock"
    /\ epLock = Free
    /\ entry # None
    /\ w' = [w EXCEPT ![p] = Descent(p, entry, top)]
    /\ UNCHANGED <<phase, next, graph, entry, top, epLock, lock, count,
                   repairs, q>>

\* Mutant: the new entry point is published before it has edges.
TakeEpLockEarly(p) ==
    /\ w[p].pc = "eplock"
    /\ epLock = Free
    /\ entry # None
    /\ epLock' = {p}
    /\ w' = [w EXCEPT ![p] = Descent(p, entry, top)]
    /\ entry' = w[p].row /\ top' = Level[w[p].row]
    /\ UNCHANGED <<phase, next, graph, lock, count, repairs, q>>

\* The lock in write mode is kept until the row is in the graph; the entry
\* point and the top layer are read again under it.
TakeEpLock(p) ==
    /\ w[p].pc = "eplock"
    /\ epLock = Free
    /\ LET i == w[p].row IN
       IF entry = None
       THEN /\ entry' = i /\ top' = Level[i]
            /\ w' = [w EXCEPT ![p] = Inserted(p)]
            /\ UNCHANGED epLock
       ELSE /\ epLock' = {p}
            /\ w' = [w EXCEPT ![p] = Descent(p, entry, top)]
            /\ UNCHANGED <<entry, top>>
    /\ UNCHANGED <<phase, next, graph, lock, count, repairs, q>>

\* greedy: move to a better neighbor, or stay and go down a layer.  A node
\* that was scored and not taken is never better later.
Greedy(p) ==
    /\ w[p].pc = "greedy"
    /\ LET c == w[p].cur
           l == w[p].lay
           new == Ids(c, l) \ w[p].seen
           down == IF l - 1 > Level[w[p].row] THEN "greedy" ELSE "layer"
       IN  /\ lock[c] = Free
           /\ \/ \E e \in new :
                   w' = [w EXCEPT ![p].cur = e,
                                  ![p].seen = w[p].seen \cup new]
              \/ w' = [w EXCEPT ![p].pc = down, ![p].lay = l - 1,
                                ![p].seen = {c}, ![p].cand = {c}]
    /\ UNCHANGED <<phase, next, graph, entry, top, epLock, lock, count,
                   repairs, q>>

\* searchLayer: expand a candidate.
Expand(p) ==
    /\ w[p].pc = "layer"
    /\ \E c \in w[p].cand :
         LET new == Ids(c, w[p].lay) \ w[p].seen IN
         /\ lock[c] = Free
         /\ \E push \in Pushed(new, w[p].seen, EfC) :
              w' = [w EXCEPT ![p].seen = w[p].seen \cup new,
                             ![p].cand = (w[p].cand \ {c}) \cup push]
    /\ UNCHANGED <<phase, next, graph, entry, top, epLock, lock, count,
                   repairs, q>>

\* The selection of a layer is kept, and the next layer starts from the best
\* result.  Below layer 0 the edges are written.
Selected(p, out) ==
    LET l == w[p].lay
        start == IF l > 0 THEN {out[1]} ELSE {}
    IN  [w[p] EXCEPT !.sel = [w[p].sel EXCEPT ![l] = out],
                     !.cur = out[1],
                     !.lay = IF l > 0 THEN l - 1 ELSE 0,
                     !.seen = start, !.cand = start,
                     !.pc = IF l > 0 THEN "layer" ELSE "own"]

\* searchLayer ends: no candidate, or a full result list and only worse
\* candidates.
SelectLayer(p) ==
    /\ w[p].pc = "layer"
    /\ w[p].cand = {} \/ Cardinality(w[p].seen) >= EfC
    /\ \E out \in Selections(w[p].seen, MinOf(M, EfC)) :
         w' = [w EXCEPT ![p] = Selected(p, out)]
    /\ UNCHANGED <<phase, next, graph, entry, top, epLock, lock, count,
                   repairs, q>>

-----------------------------------------------------------------------------
(* insert(i): the edges, layer by layer, each list under its node's lock.  *)

Lmax(p) == MinOf(Level[w[p].row], w[p].top)
Lay(p) == WriteLayer(w[p].k, Lmax(p))

\* The row's own list is the selection of the layer.
WriteOwn(p) ==
    /\ w[p].pc = "own"
    /\ lock[w[p].row] = Free
    /\ lock' = [lock EXCEPT ![w[p].row] = {p}]
    /\ w' = [w EXCEPT ![p].pc = "store", ![p].dst = w[p].row, ![p].pos = 0,
                      ![p].new = w[p].sel[Lay(p)], ![p].at = 1]
    /\ UNCHANGED <<phase, next, graph, entry, top, epLock, count, repairs, q>>

\* Mutant: the neighbor's list is changed without waiting for its lock.
ConnectNoLock(p) ==
    /\ w[p].pc = "link"
    /\ w[p].pos <= Len(w[p].sel[Lay(p)])
    /\ LET i == w[p].row
           l == Lay(p)
           e == w[p].sel[l][w[p].pos]
       IN  /\ i \notin Ids(e, l) /\ cnt[e][l] < CapOf(l)
           /\ lock' = [lock EXCEPT ![e] = {p}]
           /\ w' = [w EXCEPT ![p].pc = "store", ![p].dst = e,
                             ![p].new = Appended(e, l, i),
                             ![p].at = cnt[e][l] + 1]
    /\ UNCHANGED <<phase, next, graph, entry, top, epLock, count, repairs, q>>

\* connect: the back edge from the next selected node e.  Nothing to do when
\* e has it; append it when there is room; else shrink e's list plus i.
Connect(p) ==
    /\ w[p].pc = "link"
    /\ w[p].pos <= Len(w[p].sel[Lay(p)])
    /\ LET i == w[p].row
           l == Lay(p)
           e == w[p].sel[l][w[p].pos]
           Rewrite(list, from) ==
               /\ lock' = [lock EXCEPT ![e] = {p}]
               /\ w' = [w EXCEPT ![p].pc = "store", ![p].dst = e,
                                 ![p].new = list, ![p].at = from]
       IN  /\ lock[e] = Free
           /\ \/ /\ i \in Ids(e, l)
                 /\ w' = [w EXCEPT ![p].pos = w[p].pos + 1]
                 /\ UNCHANGED lock
              \/ /\ i \notin Ids(e, l) /\ cnt[e][l] < CapOf(l)
                 /\ Rewrite(Appended(e, l, i), cnt[e][l] + 1)
              \/ /\ i \notin Ids(e, l) /\ cnt[e][l] >= CapOf(l)
                 /\ \E out \in Selections(Ids(e, l) \cup {i}, CapOf(l)) :
                      Rewrite(out, 1)
    /\ UNCHANGED <<phase, next, graph, entry, top, epLock, count, repairs, q>>

\* One slot store of a list being written.
StoreSlot(p) ==
    /\ w[p].pc = "store" /\ w[p].at <= Len(w[p].new)
    /\ slots' = [slots EXCEPT ![w[p].dst][Lay(p)][w[p].at] =
                                  w[p].new[w[p].at]]
    /\ w' = [w EXCEPT ![p].at = w[p].at + 1]
    /\ UNCHANGED <<phase, next, cnt, entry, top, epLock, lock, count, repairs,
                   q>>

\* The count is stored after the slots; the lock is given back.
StoreCount(p) ==
    /\ w[p].pc = "store" /\ w[p].at > Len(w[p].new)
    /\ cnt' = [cnt EXCEPT ![w[p].dst][Lay(p)] = Len(w[p].new)]
    /\ lock' = [lock EXCEPT ![w[p].dst] = Free]
    /\ w' = [w EXCEPT ![p].pc = "link", ![p].pos = w[p].pos + 1,
                      ![p].dst = 0, ![p].new = << >>, ![p].at = 0]
    /\ UNCHANGED <<phase, next, slots, entry, top, epLock, count, repairs, q>>

\* Mutant: the top layer rises, the entry point stays.
EndLayerOldEntry(p) ==
    /\ w[p].pc = "link"
    /\ w[p].pos > Len(w[p].sel[Lay(p)])
    /\ IF w[p].k < Lmax(p)
       THEN /\ w' = [w EXCEPT ![p].pc = "own", ![p].k = w[p].k + 1]
            /\ UNCHANGED <<top, epLock>>
       ELSE /\ w' = [w EXCEPT ![p] = Inserted(p)]
            /\ epLock' = epLock \ {p}
            /\ top' = IF Level[w[p].row] > top THEN Level[w[p].row] ELSE top
    /\ UNCHANGED <<phase, next, graph, entry, lock, count, repairs, q>>

\* All back edges of the layer are there: the next layer, or the end, where a
\* row above the old top layer becomes the entry point.
EndLayer(p) ==
    /\ w[p].pc = "link"
    /\ w[p].pos > Len(w[p].sel[Lay(p)])
    /\ IF w[p].k < Lmax(p)
       THEN /\ w' = [w EXCEPT ![p].pc = "own", ![p].k = w[p].k + 1]
            /\ UNCHANGED <<entry, top, epLock>>
       ELSE /\ w' = [w EXCEPT ![p] = Inserted(p)]
            /\ epLock' = epLock \ {p}
            /\ IF Level[w[p].row] > w[p].top
               THEN entry' = w[p].row /\ top' = Level[w[p].row]
               ELSE UNCHANGED <<entry, top>>
    /\ UNCHANGED <<phase, next, graph, lock, count, repairs, q>>

\* Insert publishes the row: Len() grows by one.
Publish ==
    /\ w[Inserter].pc = "publish"
    /\ count' = w[Inserter].row + 1
    /\ w' = [w EXCEPT ![Inserter] = Idle]
    /\ UNCHANGED <<phase, next, graph, entry, top, epLock, lock, repairs, q>>

-----------------------------------------------------------------------------
(* The end of BuildCap: no chunk is left and every worker has returned; the *)
(* repair pass runs alone.  Which edges it adds is a matter of reachability *)
(* and scores; here any edge u -> v between built rows.                     *)

EndBuild ==
    /\ phase = "build" /\ next * Chunk >= N
    /\ \A p \in Workers : w[p].pc = "idle" /\ w[p].row >= w[p].hi
    /\ count' = N
    /\ phase' = "repair"
    /\ UNCHANGED <<next, graph, entry, top, epLock, lock, repairs, w, q>>

\* addKeep(u, v): append, or shrink u's list so that v stays.  It does not
\* look whether u has the edge already.
Kept(u, v) ==
    IF cnt[u][0] < M0
    THEN {Appended(u, 0, v)}
    ELSE {f \in Lists(Ids(u, 0) \cup {v}, M0) : \E j \in DOMAIN f : f[j] = v}

AddKeep(u, new) ==
    /\ slots' = [slots EXCEPT ![u][0] =
                    [j \in 1 .. M0 |-> IF j <= Len(new) THEN new[j] ELSE @[j]]]
    /\ cnt' = [cnt EXCEPT ![u][0] = Len(new)]

Repair ==
    /\ phase = "repair"
    /\ \/ /\ N > 1 /\ repairs < MaxRepair
          /\ \E u, v \in 0 .. N - 1 :
                u # v /\ \E new \in Kept(u, v) : AddKeep(u, new)
          /\ repairs' = repairs + 1
          /\ UNCHANGED phase
       \/ /\ phase' = "serve"
          /\ UNCHANGED <<graph, repairs>>
    /\ UNCHANGED <<next, entry, top, epLock, lock, count, w, q>>

-----------------------------------------------------------------------------
(* Search, without a lock.                                                  *)

\* Entry point and top layer are one atomic load.  Before the first published
\* row a query returns at once.
StartQuery(s) ==
    /\ phase = "serve" /\ q[s].pc = "idle"
    /\ entry # None /\ count > 0
    /\ q' = [q EXCEPT ![s] = [NoQuery EXCEPT
                !.pc = "list", !.lay = top, !.cur = entry, !.len = count,
                !.seen = {entry}, !.cand = {entry}]]
    /\ UNCHANGED <<phase, next, graph, entry, top, epLock, lock, count,
                   repairs, w>>

\* The nodes whose list the query may read next: the current one in the
\* greedy descent, any candidate on layer 0.
ToRead(s) == IF q[s].lay > 0 THEN {q[s].cur} ELSE q[s].cand

\* neighbors(c): the count is loaded first.
LoadCount(s) ==
    /\ q[s].pc = "list"
    /\ \E c \in ToRead(s) :
         q' = [q EXCEPT ![s].pc = "slot", ![s].node = c,
                        ![s].n = cnt[c][q[s].lay], ![s].j = 1,
                        ![s].cand = q[s].cand \ {c}]
    /\ UNCHANGED <<phase, next, graph, entry, top, epLock, lock, count,
                   repairs, w>>

\* Mutant: greedy moves to a neighbor that is as good, so it can move back.
LoadSlotAnyMove(s) ==
    /\ q[s].pc = "slot" /\ q[s].j <= q[s].n
    /\ LET e == slots[q[s].node][q[s].lay][q[s].j]
           read == [q[s] EXCEPT !.j = q[s].j + 1, !.seen = q[s].seen \cup {e}]
       IN  \/ q' = [q EXCEPT ![s] = read]
           \/ /\ q[s].lay > 0
              /\ q' = [q EXCEPT ![s] = [read EXCEPT !.cur = e]]
    /\ UNCHANGED <<phase, next, graph, entry, top, epLock, lock, count,
                   repairs, w>>

\* One slot is loaded and its node scored, unless it was before: greedy moves
\* to it or not; on layer 0 it becomes a candidate, or not when the result
\* list is full.
LoadSlot(s) ==
    /\ q[s].pc = "slot" /\ q[s].j <= q[s].n
    /\ LET e == slots[q[s].node][q[s].lay][q[s].j]
           read == [q[s] EXCEPT !.j = q[s].j + 1, !.seen = q[s].seen \cup {e}]
       IN  \/ /\ \/ e \in q[s].seen
                 \/ q[s].lay > 0
                 \/ Cardinality(q[s].seen) >= Ef
              /\ q' = [q EXCEPT ![s] = read]
           \/ /\ e \notin q[s].seen /\ q[s].lay > 0
              /\ q' = [q EXCEPT ![s] = [read EXCEPT !.cur = e]]
           \/ /\ e \notin q[s].seen /\ q[s].lay = 0
              /\ q' = [q EXCEPT ![s] =
                          [read EXCEPT !.cand = q[s].cand \cup {e}]]
    /\ UNCHANGED <<phase, next, graph, entry, top, epLock, lock, count,
                   repairs, w>>

\* The list is read: greedy goes on from the better node, or down a layer
\* when there was none; layer 0 goes on with the next candidate.
EndList(s) ==
    /\ q[s].pc = "slot" /\ q[s].j > q[s].n
    /\ LET c == q[s].cur
           next_ == [q[s] EXCEPT !.pc = "list", !.node = 0, !.n = 0, !.j = 0]
       IN  q' = [q EXCEPT ![s] =
                   IF q[s].lay > 0 /\ q[s].node = c
                   THEN [next_ EXCEPT !.lay = q[s].lay - 1,
                                      !.seen = {c}, !.cand = {c}]
                   ELSE next_]
    /\ UNCHANGED <<phase, next, graph, entry, top, epLock, lock, count,
                   repairs, w>>

\* The query returns what it scored on layer 0, the best k of it.
Return(s) ==
    /\ q[s].pc = "list" /\ q[s].lay = 0
    /\ q[s].cand = {} \/ Cardinality(q[s].seen) >= Ef
    /\ q' = [q EXCEPT ![s].pc = "idle", ![s].cur = 0, ![s].cand = {}]
    /\ UNCHANGED <<phase, next, graph, entry, top, epLock, lock, count,
                   repairs, w>>

-----------------------------------------------------------------------------
InsertStep(p) == \/ Claim(p) \/ NextRow(p) \/ ReadEntry(p) \/ TakeEpLock(p)
                 \/ Greedy(p) \/ Expand(p) \/ SelectLayer(p) \/ WriteOwn(p)
                 \/ Connect(p) \/ StoreSlot(p) \/ StoreCount(p) \/ EndLayer(p)

MainStep == InsertRow0 \/ EndBuild \/ Repair

InserterStep == InsertNext \/ Publish

SearchStep(s) == LoadCount(s) \/ LoadSlot(s) \/ EndList(s) \/ Return(s)

Query(s) == StartQuery(s) \/ SearchStep(s)

\* Every row is in the graph; the threads that insert are gone.
AllDone == phase = "serve" /\ count = CapN /\ w[Inserter].pc = "idle"
Finished == AllDone /\ UNCHANGED vars

Next == \/ MainStep \/ InserterStep \/ Finished
        \/ \E p \in Proc : InsertStep(p)
        \/ \E s \in Searchers : Query(s)

\* The Go scheduler runs every goroutine that can run; a goroutine that waits
\* for a lock gets it once its holders are gone for good.  Callers may stop
\* starting queries.
Fairness == /\ WF_vars(MainStep) /\ WF_vars(InserterStep)
            /\ \A p \in Proc : WF_vars(InsertStep(p))
            /\ \A s \in Searchers : WF_vars(SearchStep(s))

Spec == Init /\ [][Next]_vars /\ Fairness

-----------------------------------------------------------------------------
(* What must hold.                                                         *)

\* A list of at most limit nodes.
ListOf(limit) == {<< >>} \cup Lists(Node, limit)

Inserting == [pc : {"idle", "entry", "eplock", "greedy", "layer", "own",
                    "store", "link", "publish"},
              row : 0 .. CapN, hi : 0 .. N, top : Layer, lay : Layer,
              cur : Node, seen : SUBSET Node, cand : SUBSET Node,
              sel : [Layer -> ListOf(M)], k : Layer, pos : Nat, dst : Node,
              new : ListOf(M0), at : Nat]

Querying == [pc : {"idle", "list", "slot"}, lay : Layer, cur : Node,
             node : Node, n : 0 .. M0, j : Nat, seen : SUBSET Node,
             cand : SUBSET Node, len : 0 .. CapN]

SharedOK == /\ phase \in {"start", "build", "repair", "serve"}
            /\ next \in Nat
            /\ slots \in [Node -> [Layer -> [1 .. M0 -> Node]]]
            /\ cnt \in [Node -> [Layer -> 0 .. M0]]
            /\ entry \in Node \cup {None} /\ top \in Layer
            /\ epLock \in SUBSET Proc
            /\ lock \in [Node -> SUBSET Proc]
            /\ count \in 0 .. CapN
            /\ repairs \in 0 .. MaxRepair

Typed == /\ SharedOK
         /\ w \in [Proc -> Inserting]
         /\ q \in [Searchers -> Querying]

\* slots: no list outgrows its slots.
CountsFit == \A v \in Node, l \in Layer : cnt[v][l] <= SlotCount(l)

\* The type invariant: no list outgrows its slots, and no index of a row or a
\* layer leaves its range.
TypeOK == Typed /\ CountsFit

\* Search, greedy: a query never comes to a node that lacks the layer it
\* reads; the slots there would be those of another node (slots: upperOff).
QueryLayers ==
    \A s \in Searchers : q[s].pc # "idle" =>
        \A v \in q[s].seen \cup {q[s].cur} : Level[v] >= q[s].lay

\* A query that stands on node v on layer l can go down: v's lists below l
\* are written.  Row 0 has no list before it is linked to; an entry point can
\* be alone on its upper layers.
CanDescend(v, l) ==
    \A k \in 0 .. l : cnt[v][k] > 0 \/ v = 0 \/ (v = entry /\ k > 0)

\* insert: "once node i appears in a list on layer l, its own lists on layers
\* l-1..0 are complete, so a search that descends through i never finds an
\* empty layer-0 list".
NoDeadEnd ==
    \A s \in Searchers : q[s].pc # "idle" =>
        \A v \in q[s].seen \cup {q[s].cur} : CanDescend(v, q[s].lay)

\* Search: a query that starts with two rows published, and may return two,
\* finds two, however it interleaves with an insertion.
NoShortResult ==
    \A s \in Searchers :
        q[s].pc = "idle" /\ q[s].len >= 2 /\ Ef >= 2
            => Cardinality(q[s].seen) >= 2

\* insert: when a row's own list is about to be written, nobody has linked to
\* the row on that layer yet, so no back edge is overwritten.
NoLostEdge ==
    \A p \in Proc : w[p].pc = "own" => cnt[w[p].row][Lay(p)] = 0

\* The rows a walk can meet: the entry point, and every row in a list.
Met == {v \in Node : v = entry} \cup
       UNION {Ids(v, l) : v \in Node, l \in Layer}

\* insert, epTop: the entry point is on the top layer, and no row that can be
\* met is above it, but for the one whose insertion holds the entry lock.
EntryIsTop ==
    /\ entry # None => Level[entry] = top
    /\ \A v \in Met : Level[v] > top => \E p \in epLock : w[p].row = v

\* connect: a node's list is rewritten by the holder of its lock alone, and a
\* thread holds the lock of the one node it rewrites and of no other.
OneLock ==
    \A p \in Proc, v \in Node :
        lock[v] = {p} <=> w[p].pc = "store" /\ w[p].dst = v

\* BuildCap, Insert: in the end every row is published, and has a list.
AllInserted == <>(AllDone /\ \A v \in Node : CapN > 1 => cnt[v][0] > 0)

\* Search: every query returns, whatever the inserter does meanwhile.
QueryReturns == \A s \in Searchers : q[s].pc # "idle" ~> q[s].pc = "idle"
=============================================================================
