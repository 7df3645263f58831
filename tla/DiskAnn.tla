------------------------------- MODULE DiskAnn -------------------------------
(* The DiskANN index (diskann.py): the Vamana graph is built in two passes   *)
(* over the rows and written to a file of records; the corpus is dropped,    *)
(* and searches walk the records in rounds of a beam, in either I/O mode.    *)
(* Rows are compared by a table of dot products; the PQ table of a query is  *)
(* any estimate of its scores.                                               *)
EXTENDS Integers, Sequences, FiniteSets, SequencesExt

CONSTANTS
    N,           \* rows
    R,           \* out-edges of a record
    LBuild,      \* list size of the walks of the build
    Alpha,       \* alpha of the second pass, in tenths
    Entry,       \* the medoid
    Dot,         \* Dot[a][b], the dot product of two rows
    Starts,      \* the random graphs the build may start from
    L, Beam, K,  \* list size, beam width and results of a search
    Reranks,     \* how many candidates a search may score again
    Tables,      \* the queries: [pq, exact], the scores of the rows
    MaxSearches  \* bound on the searches

Row == 0 .. N - 1
Slot == 0 .. R

ASSUME SizeAssumption ==
    /\ R \in Nat \ {0} /\ N \in Nat /\ N >= 2 /\ Entry \in Row
    /\ LBuild \in Nat \ {0} /\ Alpha \in Nat /\ Alpha >= 10
    /\ L \in Nat /\ Beam \in Nat \ {0} /\ K \in Nat \ {0}
    /\ Dot \in [Row -> [Row -> Int]]
\* init_graph: as many out-edges as there are slots or other rows.
ASSUME StartsAssumption ==
    \A g \in Starts : \A x \in Row :
        /\ g[x] \in Seq(Row \ {x}) /\ IsInjective(g[x])
        /\ Len(g[x]) = IF R < N - 1 THEN R ELSE N - 1
\* Precondition: a search scores no candidate again, or at least K of them.
ASSUME RerankAssumption == \A n \in Reranks : n = 0 \/ n >= K

VARIABLES
    e,           \* the slots of each row; -1 is empty
    d,           \* slots in use
    pass, i,     \* the pass and the row it is at
    todo,        \* out-neighbors of the row that have not got the back edge
    records,     \* the edges in the file; or << >> before it is written
    readers,     \* the open readers
    lastIo,      \* io of the last search; or "none"
    warm,        \* the page cache holds pages of the file
    s,           \* the running search; or [at |-> "idle"]
    searches     \* searches so far

graph == <<e, d, pass, i, todo>>
reading == <<readers, lastIo, warm>>
vars == <<graph, records, reading, s, searches>>

Out(x) == {e[x][m] : m \in 0 .. d[x] - 1}

\* The first n of a sequence of ids fill the slots, the others are empty.
Slots(ids) ==
    [m \in Slot |-> IF m < Len(ids) THEN ids[m + 1] ELSE -1]

\* init_graph: min(r, n - 1) distinct out-edges.
Init ==
    /\ \E g \in Starts : e = [x \in Row |-> Slots(g[x])]
    /\ d = [x \in Row |-> IF R < N - 1 THEN R ELSE N - 1]
    /\ pass = 1 /\ i = 0 /\ todo = << >>
    /\ records = << >> /\ readers = {} /\ lastIo = "none" /\ warm = FALSE
    /\ s = [at |-> "idle"] /\ searches = 0

-----------------------------------------------------------------------------
(* The walk of the build.                                                  *)

\* Higher score for q, then lower id.
Better(q, a, b) == Dot[q][a] > Dot[q][b] \/ (Dot[q][a] = Dot[q][b] /\ a < b)

Best(q, S) == CHOOSE a \in S : \A b \in S \ {a} : Better(q, a, b)
Worst(q, S) == CHOOSE a \in S : \A b \in S \ {a} : Better(q, b, a)

\* Mutant: on equal worst scores too.
EnoughEqual(q, st, c) ==
    /\ Cardinality(st.res) >= LBuild
    /\ Dot[q][c] <= Dot[q][Worst(q, st.res)]

\* The best open candidate is worse than the LBuild-th best score.
Enough(q, st, c) ==
    /\ Cardinality(st.res) >= LBuild
    /\ Dot[q][c] < Dot[q][Worst(q, st.res)]

\* A new node enters the list if there is room or if it beats the worst.
Offer(q, st, x) ==
    IF Cardinality(st.res) < LBuild
    THEN [st EXCEPT !.cand = @ \cup {x}, !.res = @ \cup {x}]
    ELSE IF Dot[q][x] > Dot[q][Worst(q, st.res)]
    THEN [st EXCEPT !.cand = @ \cup {x},
                    !.res = (@ \ {Worst(q, @)}) \cup {x}]
    ELSE st

\* The out-neighbors of c that had no mark are offered, slot by slot.
Offered(q, st, c) ==
    LET f[m \in 0 .. d[c]] ==
            IF m = 0 THEN st
            ELSE IF e[c][m - 1] \in st.mark THEN f[m - 1]
            ELSE Offer(q, f[m - 1], e[c][m - 1])
    IN  f[d[c]]

\* One round of the walk, or the end of it.
Expand(q, st) ==
    IF st.cand = {} \/ Enough(q, st, Best(q, st.cand)) THEN st
    ELSE LET c == Best(q, st.cand)
             open == [st EXCEPT !.cand = @ \ {c}, !.expanded = @ \cup {c}]
         IN  [Offered(q, open, c) EXCEPT !.mark = @ \cup Out(c)]

FromEntry == [cand |-> {Entry}, res |-> {Entry},
              mark |-> {Entry}, expanded |-> {}]

\* greedy: the nodes that were expanded when there were enough.  A node gets
\* one mark, so there are N rounds at most.
Greedy(q) ==
    LET f[n \in 0 .. N] ==
            IF n = 0 THEN FromEntry ELSE Expand(q, f[n - 1])
    IN  f[N].expanded

-----------------------------------------------------------------------------
(* RobustPrune, and the passes.                                            *)

Dist(a, b) == Dot[a][a] - Dot[a][b]

\* b survives the selection of a by row p.
Survives(p, a, b, alpha) == alpha * Dist(a, b) > 10 * Dist(p, b)

\* The nearest candidate that is alive is selected, the others must survive.
Selected(p, st, alpha) ==
    IF st.alive = {} THEN st
    ELSE LET a == Best(p, st.alive)
         IN  [alive |-> {b \in st.alive \ {a} : Survives(p, a, b, alpha)},
              out |-> Append(st.out, a)]

\* R of them at most.
Select(p, cands, alpha) ==
    LET f[n \in 0 .. R] == IF n = 0 THEN [alive |-> cands, out |-> << >>]
                           ELSE Selected(p, f[n - 1], alpha)
    IN  f[R].out

AlphaNow == IF pass = 1 THEN 10 ELSE Alpha

\* Mutant: the slots behind the new list keep their edges.
PrunedStale(p, cands, slots) ==
    LET out == Select(p, cands \ {p}, AlphaNow)
    IN  [slots |-> [m \in Slot |-> IF m < Len(out) THEN out[m + 1]
                                   ELSE slots[m]],
         count |-> Len(out)]

\* The slots of p after the prune, and how many are in use.
Pruned(p, cands, slots) ==
    LET out == Select(p, cands \ {p}, AlphaNow)
    IN  [slots |-> Slots(out), count |-> Len(out)]

Building == pass <= 2

Put(p, new) == /\ e' = [e EXCEPT ![p] = new.slots]
               /\ d' = [d EXCEPT ![p] = new.count]

\* The row's own edges.  Nothing is written if there is no candidate.
InsertRow ==
    /\ Building /\ i < N /\ todo = << >>
    /\ LET cands == (Greedy(i) \cup Out(i)) \ {i}
       IN  IF cands = {} THEN UNCHANGED <<e, d>>
           ELSE Put(i, Pruned(i, cands, e[i]))
    /\ todo' = [m \in 1 .. d'[i] |-> e'[i][m - 1]]
    /\ IF todo' = << >> THEN i' = i + 1 ELSE UNCHANGED i
    /\ UNCHANGED <<pass, records, reading, s, searches>>

\* The edge back from the next out-neighbor, over the extra slot if its list
\* is full.
BackEdge ==
    /\ todo # << >>
    /\ LET j == Head(todo)
           added == [slots |-> [e[j] EXCEPT ![d[j]] = i], count |-> d[j] + 1]
       IN  IF i \in Out(j) THEN UNCHANGED <<e, d>>
           ELSE IF added.count <= R THEN Put(j, added)
           ELSE Put(j, Pruned(j, Out(j) \cup {i}, added.slots))
    /\ todo' = Tail(todo)
    /\ i' = IF todo' = << >> THEN i + 1 ELSE i
    /\ UNCHANGED <<pass, records, reading, s, searches>>

NextPass ==
    /\ Building /\ i = N
    /\ pass' = pass + 1 /\ i' = 0
    /\ UNCHANGED <<e, d, todo, records, reading, s, searches>>

\* write_file: the record of a row has its first R slots, and no count.  The
\* file is written past the page cache.
WriteFile ==
    /\ ~Building /\ records = << >>
    /\ records' = [x \in Row |-> [m \in 1 .. R |-> e[x][m - 1]]]
    /\ UNCHANGED <<graph, reading, s, searches>>

-----------------------------------------------------------------------------
(* Searches.                                                               *)

\* Mutant: the mode before does not matter once both readers are open.
EvictsOnce(io) == io = "nocache" /\ "nocache" \notin readers

\* An uncached search after a mapped one.
Evicts(io) == io = "nocache" /\ lastIo = "mmap"

\* _reader: before an uncached search after a mapped one, the map is closed
\* and the pages are dropped.
Reader(io) ==
    /\ readers' = (IF Evicts(io) THEN readers \ {"mmap"} ELSE readers)
                  \cup {io}
    /\ lastIo' = io
    /\ warm' = IF Evicts(io) THEN FALSE ELSE warm

\* Mutant: a list that may be shorter than the answer.
SizeAsAsked == L

ListSize == IF L > K THEN L ELSE K

Start ==
    /\ records # << >> /\ s.at = "idle" /\ searches < MaxSearches
    /\ searches' = searches + 1
    /\ \E io \in {"mmap", "nocache"}, t \in Tables, n \in Reranks :
         /\ Reader(io)
         /\ s' = [at |-> "walk", t |-> t, rerank |-> n, cand |-> <<Entry>>,
                  seen |-> {Entry}, expanded |-> {}, answer |-> << >>]
    /\ UNCHANGED <<graph, records>>

\* Ids by score, best first, lower ids first on equal scores.
Ranked(ids, score) ==
    SetToSortSeq(ids, LAMBDA a, b : \/ score[a] > score[b]
                                    \/ score[a] = score[b] /\ a < b)

First(q, n) == SubSeq(q, 1, IF n < Len(q) THEN n ELSE Len(q))

Batch == First(SelectSeq(s.cand, LAMBDA c : c \notin s.expanded), Beam)

\* One round: the best candidates that are not expanded are read, and their
\* neighbors join the list.
Round ==
    /\ s.at = "walk" /\ Batch # << >>
    /\ LET read == UNION {ToSet(records[c]) : c \in ToSet(Batch)}
           new == {x \in read : x >= 0} \ s.seen
       IN  s' = [s EXCEPT
                   !.expanded = @ \cup ToSet(Batch), !.seen = @ \cup new,
                   !.cand = First(Ranked(ToSet(@) \cup new, s.t.pq),
                                  ListSize)]
    /\ warm' = (warm \/ lastIo = "mmap")
    /\ UNCHANGED <<graph, records, readers, lastIo, searches>>

\* The best candidates by the full vectors of their records, or by the table.
Finish ==
    /\ s.at = "walk" /\ Batch = << >>
    /\ LET top == First(s.cand, s.rerank)
           ranked == IF s.rerank > 0 THEN Ranked(ToSet(top), s.t.exact)
                     ELSE s.cand
       IN  s' = [s EXCEPT !.at = "found", !.answer = First(ranked, K)]
    /\ UNCHANGED <<graph, records, reading, searches>>

Return ==
    /\ s.at = "found" /\ s' = [at |-> "idle"]
    /\ UNCHANGED <<graph, records, reading, searches>>

Next == \/ InsertRow \/ BackEdge \/ NextPass \/ WriteFile
        \/ Start \/ Round \/ Finish \/ Return

Spec == Init /\ [][Next]_vars

-----------------------------------------------------------------------------
(* What must hold.                                                         *)

\* A record has no count, so a search finds the end of its list by the first
\* -1: in every state of the build, also over the extra slot, the slots in
\* use hold 1 .. R distinct other rows and all others are -1.  So the file
\* holds the graph that was built, no edge of it is in the slot that is not
\* written, and none that a prune dropped comes back.
RecordsAreLists ==
    /\ \A x \in Row :
         /\ d[x] \in 1 .. R /\ Cardinality(Out(x)) = d[x]
         /\ Out(x) \subseteq Row \ {x}
         /\ \A m \in Slot : m >= d[x] => e[x][m] = -1
    /\ records # << >> => \A x \in Row : ToSet(records[x]) \ {-1} = Out(x)

\* The paper's loop: the best unexpanded node of the list of size LBuild,
\* until none is left.
Loop(q) ==
    LET list(seen) == {a \in seen : Cardinality({b \in seen : Better(q, b, a)})
                                      < LBuild}
        f[n \in 0 .. N] ==
            IF n = 0 THEN [seen |-> {Entry}, expanded |-> {}]
            ELSE LET st == f[n - 1]
                     open == list(st.seen) \ st.expanded
                     c == Best(q, open)
                 IN  IF open = {} THEN st
                     ELSE [seen |-> st.seen \cup Out(c),
                           expanded |-> st.expanded \cup {c}]
    IN  f[N].expanded

\* greedy: "Same result as the paper's loop", on every graph the build goes
\* through, for rows of distinct scores.
GreedyIsLoop ==
    Building /\ todo = << >> =>
        \A q \in Row : Greedy(q) = Loop(q)

\* A search reaches K rows if the file links K rows to the entry point: its
\* list is never shorter than the answer.
Reached ==
    LET Grow(S) == S \cup UNION {ToSet(records[x]) \ {-1} : x \in S}
    IN  FoldLeft(LAMBDA S, m : Grow(S), {Entry}, [m \in 1 .. N |-> m])

FullAnswer ==
    s.at = "found" =>
        /\ Len(s.answer) = (IF Cardinality(Reached) < K
                            THEN Cardinality(Reached) ELSE K)
        /\ IsInjective(s.answer)
        /\ ToSet(s.cand) \subseteq s.expanded

\* "so io=nocache reads reach the SSD after an io=mmap run warmed them": an
\* uncached search finds no page of the file in the cache, in whatever order
\* the modes follow each other.
ColdReads == s.at = "walk" /\ lastIo = "nocache" => ~warm
=============================================================================
