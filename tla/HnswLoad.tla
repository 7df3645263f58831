------------------------------ MODULE HnswLoad ------------------------------
(***************************************************************************)
(* A load run of src/indexes/python: threads search the index of hnsw.py   *)
(* without a lock while one more thread inserts rows into its arrays; then *)
(* the rows that are left go in, and the run ends.                         *)
(*                                                                         *)
(* A step is what the GIL keeps whole: a count, a slice of slots, one      *)
(* assignment to either.  Of a list that shrinks the old slots stay behind *)
(* the new count.                                                          *)
(***************************************************************************)
EXTENDS HnswGraph

CONSTANTS
    NBuild,       \* rows of the build
    Ef, K,        \* of a query
    Clients,      \* search threads
    Queries,      \* the queries of a pass; each has the vector of a row
    Corpora       \* [sc, lev]: score tables and levels of the rows

Worker == 0 .. Clients - 1

ASSUME LoadAssumption ==
    /\ NBuild \in 1 .. N /\ Clients \in Nat \ {0}
    /\ Ef \in Nat \ {0} /\ K \in 1 .. Ef
    /\ Queries \in Seq(Node) /\ Queries # << >>

ASSUME CorporaAssumption == \A c \in Corpora :
    /\ c.sc \in [Node -> [Node -> Int]] /\ c.lev \in [Node -> Layer]

VARIABLES
    sc, lev,      \* the corpus
    timed,        \* --duration is more than 0
    grown,        \* the lists as adj holds them in the build, and as a build
                  \* of the rows that are in would have them
    slots,        \* slots[v][l]: nbr0, up; -1 where nothing was written
    cnt,          \* cnt[v][l]: cnt0, up_cnt
    ept,          \* entry point and top layer
    next,         \* stats["next"], g.n: rows that are in
    ins,          \* the insertion that runs
    query,        \* by worker, where it is
    late,         \* the deadline has passed
    kept,         \* the queries whose answer the result has: ids, scores
    stage         \* "build", "loop", "tail" and "repaired"

corpus == <<sc, lev, timed>>
arrays == <<slots, cnt, ept>>
vars == <<corpus, grown, arrays, next, ins, query, late, kept, stage>>

-----------------------------------------------------------------------------
(* The index.                                                              *)

None == [at |-> "none"]

Neighbors(v, l) == SubSeq(slots[v][l], 1, cnt[v][l])

Lists == [v \in Node |-> [l \in Layer |-> Neighbors(v, l)]]

\* freeze: the lists, in arrays that have room for every row.
Frozen(links) ==
    [v \in Node |-> [l \in Layer |-> [j \in 1 .. Cap(l) |->
        IF j <= Len(links[v][l]) THEN links[v][l][j] ELSE -1]]]

Empty == [v \in Node |-> [l \in Layer |-> << >>]]

Start == [at |-> "begin", pos |-> 1, first |-> TRUE]

\* Worker 0 keeps the answers of its first pass.
Init ==
    /\ \E c \in Corpora : sc = c.sc /\ lev = c.lev
    /\ timed \in BOOLEAN /\ late = ~timed
    /\ grown = Empty /\ slots = Frozen(Empty)
    /\ cnt = [v \in Node |-> [l \in Layer |-> 0]]
    /\ ept = [ep |-> 0, top |-> lev[0]] /\ next = 1
    /\ ins = None /\ stage = "build" /\ kept = {}
    /\ query = [w \in Worker |-> [Start EXCEPT !.first = (w = 0)]]

\* What the index is with the next row linked in one piece.
Grow == grown' = Linked(sc, grown, next, lev[next], ept.ep, ept.top)

NewEpt == IF lev[next] > ept.top THEN [ep |-> next, top |-> lev[next]]
          ELSE ept

BuildRow ==
    /\ stage = "build" /\ next < NBuild
    /\ Grow /\ ept' = NewEpt /\ next' = next + 1
    /\ UNCHANGED <<corpus, slots, cnt, ins, query, late, kept, stage>>

\* Nothing is left for the repair pass of the build to do.
Whole ==
    /\ Reach(grown, ept.ep) = 0 .. next - 1
    /\ \A v \in 0 .. next - 1 \ {ept.ep} :
          \E u \in 0 .. next - 1 : Contains(grown[u][0], v)

Freeze ==
    /\ stage = "build" /\ next = NBuild /\ Whole
    /\ slots' = Frozen(grown)
    /\ cnt' = [v \in Node |-> [l \in Layer |-> Len(grown[v][l])]]
    /\ stage' = "loop"
    /\ UNCHANGED <<corpus, grown, ept, next, ins, query, late, kept>>

-----------------------------------------------------------------------------
(* The inserter.  It is alone in writing, so its own searches see no       *)
(* change.                                                                 *)

Overwrite(v, l, ids) ==
    slots' = [slots EXCEPT ![v][l] =
                 [j \in DOMAIN @ |-> IF j <= Len(ids) THEN ids[j] ELSE @[j]]]

\* Mutant: a list that is pruned keeps its count.
CountGrows(v, l, k) == cnt' = [cnt EXCEPT ![v][l] = MaxOf(@, k)]

Count(v, l, k) == cnt' = [cnt EXCEPT ![v][l] = k]

\* Mutant: a row that rises above the top layer is linked there too.
LinkTopOwn == lev[next]

\* The highest layer on which the row gets links.
LinkTop == MinOf(lev[next], ept.top)

\* A batch starts, in the loop only before the deadline.  (A batch of the
\* model is one row.)
StartRow ==
    /\ ins = None /\ next < N
    /\ stage = "tail" \/ (stage = "loop" /\ ~late)
    /\ ins' = [at |-> "own", layer |-> LinkTop,
               eps |-> {Descend(Lists, sc[next], ept.ep, ept.top, LinkTop)}]
    /\ UNCHANGED <<corpus, grown, arrays, next, query, late, kept, stage>>

WriteOwn ==
    /\ ins.at = "own"
    /\ LET q == sc[next]
           found == SearchLayer([v \in Node |-> Neighbors(v, ins.layer)], q,
                                Node, ins.eps, EfC)
           chosen == Select(sc, q, found, M, {})
       IN  /\ Overwrite(next, ins.layer, chosen)
           /\ ins' = [at |-> "ownCount", layer |-> ins.layer, eps |-> found,
                      todo |-> chosen]
    /\ UNCHANGED <<corpus, grown, cnt, ept, next, query, late, kept, stage>>

CountOwn ==
    /\ ins.at = "ownCount"
    /\ Count(next, ins.layer, Len(ins.todo))
    /\ ins' = [ins EXCEPT !.at = "edges"]
    /\ UNCHANGED <<corpus, grown, slots, ept, next, query, late, kept, stage>>

\* The back edge from the next chosen row, under the lock of its stripe.
WriteBack ==
    /\ ins.at = "edges" /\ ins.todo # << >>
    /\ LET e == Head(ins.todo)
           nb == Neighbors(e, ins.layer)
           new == WithBackEdge(sc, nb, e, next, ins.layer)
       IN  IF Contains(nb, next)
           THEN ins' = [ins EXCEPT !.todo = Tail(@)] /\ UNCHANGED slots
           ELSE /\ Overwrite(e, ins.layer, new)
                /\ ins' = [at |-> "backCount", layer |-> ins.layer,
                           eps |-> ins.eps, todo |-> ins.todo,
                           len |-> Len(new)]
    /\ UNCHANGED <<corpus, grown, cnt, ept, next, query, late, kept, stage>>

CountBack ==
    /\ ins.at = "backCount"
    /\ Count(Head(ins.todo), ins.layer, ins.len)
    /\ ins' = [at |-> "edges", layer |-> ins.layer, eps |-> ins.eps,
               todo |-> Tail(ins.todo)]
    /\ UNCHANGED <<corpus, grown, slots, ept, next, query, late, kept, stage>>

NextLayer ==
    /\ ins.at = "edges" /\ ins.todo = << >> /\ ins.layer > 0
    /\ ins' = [at |-> "own", layer |-> ins.layer - 1, eps |-> ins.eps]
    /\ UNCHANGED <<corpus, grown, arrays, next, query, late, kept, stage>>

\* The entry point and its layer change as one, the number of rows last.
Publish ==
    /\ ins.at = "edges" /\ ins.todo = << >> /\ ins.layer = 0
    /\ Grow /\ ept' = NewEpt /\ next' = next + 1 /\ ins' = None
    /\ UNCHANGED <<corpus, slots, cnt, query, late, kept, stage>>

Insert == \/ StartRow \/ WriteOwn \/ CountOwn \/ WriteBack \/ CountBack
          \/ NextLayer \/ Publish

-----------------------------------------------------------------------------
(* A search.  The worst row of a full result is the last one.  A list that *)
(* shrinks while it is read may hold a row twice, and then it is scored    *)
(* and kept twice.                                                         *)

\* Python takes the last row for -1.
RowOf(e) == IF e = -1 THEN N - 1 ELSE e

\* e goes behind what is not worse.
Sorted(q, s, e) ==
    LET ahead == {j \in DOMAIN s :
                     q[s[j]] > q[e] \/ (q[s[j]] = q[e] /\ s[j] <= e)}
    IN  InsertAt(s, Cardinality(ahead) + 1, e)

Score(q, x, e) ==
    LET full == Len(x.res) >= Ef
    IN  IF full /\ q[e] <= q[Last(x.res)] THEN x
        ELSE [x EXCEPT !.cand = Sorted(q, @, e),
                       !.res = Sorted(q, IF full THEN Front(@) ELSE @, e)]

Answer(x) ==
    [at |-> "answer", pos |-> x.pos, first |-> x.first, since |-> x.since,
     start |-> x.start, read |-> x.read, on |-> x.on,
     ids |-> SubSeq(x.res, 1, MinOf(K, Len(x.res)))]

Expanding(x) == [x EXCEPT !.at = "count", !.node = Head(x.cand),
                      !.cand = Tail(x.cand)]

\* Mutant: a candidate no better than the worst result ends the search, full
\* or not.
PoppedEarly(q, x) ==
    IF x.cand = << >> \/ q[Head(x.cand)] <= q[Last(x.res)] THEN Answer(x)
    ELSE Expanding(x)

\* Pop the best candidate; nothing is left to expand, and the answer is the
\* K best.
Popped(q, x) ==
    IF \/ x.cand = << >>
       \/ Len(x.res) >= Ef /\ q[Head(x.cand)] < q[Last(x.res)]
    THEN Answer(x) ELSE Expanding(x)

\* On the upper layers row ep is compared with its neighbors; on layer 0 the
\* search starts there.
Enters(q, x, ep, l) ==
    IF l > 0 THEN [x EXCEPT !.at = "count", !.node = ep, !.layer = l]
    ELSE Popped(q, [x EXCEPT !.layer = 0, !.start = ep, !.seen = {ep},
                             !.cand = <<ep>>, !.res = <<ep>>])

QueryOf(w) == sc[Queries[query[w].pos]]

\* Mutant: worker 0 stops like the others.
MustStopAll(x) == timed /\ late

\* Worker 0 finishes its first pass, whatever the time is.
MustStop(x) == timed /\ late /\ ~x.first

Begin(w) ==
    /\ stage = "loop" /\ query[w].at = "begin"
    /\ ~MustStop(query[w])
    /\ query' = [query EXCEPT ![w] =
           Enters(QueryOf(w),
                  [at |-> "count", pos |-> @.pos, first |-> @.first,
                   since |-> next, start |-> -1, layer |-> 0, node |-> -1,
                   len |-> 0, read |-> << >>, on |-> 0,
                   seen |-> {}, cand |-> << >>, res |-> << >>],
                  ept.ep, ept.top)]
    /\ UNCHANGED <<corpus, grown, arrays, next, ins, late, kept, stage>>

ReadCount(w) ==
    /\ query[w].at = "count"
    /\ query' = [query EXCEPT ![w].at = "slots",
                              ![w].len = cnt[query[w].node][query[w].layer]]
    /\ UNCHANGED <<corpus, grown, arrays, next, ins, late, kept, stage>>

\* greedy: to the best neighbor, the first of them, if it is better.
Moved(q, x, nb) ==
    IF nb # << >> /\ q[FirstBest(q, nb)] > q[x.node]
    THEN Enters(q, x, FirstBest(q, nb), x.layer)
    ELSE Enters(q, x, x.node, x.layer - 1)

\* search_layer: what is not visited is marked, then scored.
Expanded(q, x, nb) ==
    LET At[j \in 0 .. Len(nb)] ==
            IF j = 0 THEN [x EXCEPT !.seen = @ \cup ToSet(nb)]
            ELSE IF nb[j] \in x.seen THEN At[j - 1]
            ELSE Score(q, At[j - 1], nb[j])
    IN  Popped(q, At[Len(nb)])

\* The slice of the slots, and what the search makes of it.
ReadSlots(w) ==
    /\ query[w].at = "slots"
    /\ LET x == query[w]
           ids == SubSeq(slots[x.node][x.layer], 1, x.len)
           nb == [j \in DOMAIN ids |-> RowOf(ids[j])]
           y == [x EXCEPT !.read = ids, !.on = x.layer]
       IN  query' = [query EXCEPT ![w] =
               IF x.layer > 0 THEN Moved(QueryOf(w), y, nb)
               ELSE Expanded(QueryOf(w), y, nb)]
    /\ UNCHANGED <<corpus, grown, arrays, next, ins, late, kept, stage>>

\* After its last query a worker starts over, unless one pass was asked for.
PassEnd(x) ==
    IF x.pos < Len(Queries)
    THEN [at |-> "begin", pos |-> x.pos + 1, first |-> x.first]
    ELSE [at |-> IF timed THEN "begin" ELSE "done", pos |-> 1,
          first |-> FALSE]

Return(w) ==
    /\ query[w].at = "answer"
    /\ kept' = IF query[w].first THEN kept \cup {query[w].pos} ELSE kept
    /\ query' = [query EXCEPT ![w] = PassEnd(@)]
    /\ UNCHANGED <<corpus, grown, arrays, next, ins, late, stage>>

Stop(w) ==
    /\ stage = "loop" /\ query[w].at = "begin"
    /\ MustStop(query[w])
    /\ query' = [query EXCEPT ![w].at = "done"]
    /\ UNCHANGED <<corpus, grown, arrays, next, ins, late, kept, stage>>

Search(w) == Begin(w) \/ ReadCount(w) \/ ReadSlots(w) \/ Return(w) \/ Stop(w)

-----------------------------------------------------------------------------
(* The run.                                                                *)

Deadline ==
    /\ stage = "loop" /\ ~late /\ late' = TRUE
    /\ UNCHANGED <<corpus, grown, arrays, next, ins, query, kept, stage>>

\* Every thread has ended; the inserter ends with the deadline or the rows.
Joined ==
    /\ \A w \in Worker : query[w].at = "done"
    /\ ins = None /\ (late \/ next = N)

Join ==
    /\ stage = "loop" /\ Joined /\ stage' = "tail"
    /\ UNCHANGED <<corpus, grown, arrays, next, ins, query, late, kept>>

\* The repair pass of HnswChanges, on all rows, ends the model.
Repair ==
    /\ stage = "tail" /\ ins = None /\ next = N /\ stage' = "repaired"
    /\ UNCHANGED <<corpus, grown, arrays, next, ins, query, late, kept>>

Ended == stage = "repaired" /\ UNCHANGED vars

Next == \/ BuildRow \/ Freeze \/ Insert \/ Deadline \/ Join \/ Repair \/ Ended
        \/ \E w \in Worker : Search(w)

Spec == Init /\ [][Next]_vars

-----------------------------------------------------------------------------
(* Properties.                                                             *)

\* hnsw.py:47-50.  What a search reads are rows that exist on the layer it
\* reads and whose own list there is written: a slot that was not written,
\* or a row that is not yet in, never reaches it.
ReadsAreRows ==
    \A w \in Worker : query[w].at \in {"count", "slots", "answer"} =>
        \A e \in ToSet(query[w].read) :
            /\ e \in 0 .. next /\ lev[e] >= query[w].on
            /\ \/ e < next \/ ins.layer < query[w].on
               \/ ins.layer = query[w].on /\ ins.at \in {"edges", "backCount"}

\* insert_frozen and insert are the same algorithm: whenever no row is half
\* in, the arrays hold the graph that a build of these rows, one by one, has.
SameAsBuild == stage # "build" /\ ins = None => Lists = grown

\* A search that ends short began on layer 0 at a row that was being inserted
\* while it ran; only that row can be a dead end.
ShortOnlyAtNewRow ==
    \A w \in Worker : query[w].at = "answer" =>
        Len(query[w].ids) = K \/ query[w].start >= query[w].since

\* Whenever the loop ends, the result has an answer for every query: worker 0
\* alone supplies them, and its first pass is complete.
FirstPassKept == stage \in {"tail", "repaired"} => kept = DOMAIN Queries
=============================================================================
