----------------------------- MODULE HnswChanges -----------------------------
(***************************************************************************)
(* The life of one HNSW index of src/indexes/python/hnsw.py in the bench   *)
(* processes that use it, one after another: a process builds the index or *)
(* loads it from the file, may delete rows or update them, may compact the *)
(* index after that, and may save it; then it searches and ends.           *)
(*                                                                         *)
(* An insertion, a step of the repair pass on one node, and the two parts  *)
(* of an update are steps; so are Delete, each Compact, Save and Load.     *)
(***************************************************************************)
EXTENDS HnswGraph

CONSTANTS
    Ef,           \* ef of a query, also its k
    Draws,        \* sequences of levels that a seed may draw
    Scores,       \* score tables of the corpus
    Masks,        \* the delete sets
    Batches,      \* the updates: [ids, sc], new scores for the rows ids
    Filters,      \* sets of rows that a query may ask for
    MaxProcs      \* bound: processes

ASSUME LifeAssumption ==
    /\ Ef \in Nat \ {0} /\ MaxProcs \in Nat
    /\ Draws \subseteq [Node -> Layer]
    /\ Scores \subseteq [Node -> [Node -> Int]]
    /\ Masks \subseteq (SUBSET Node) \ {{}, Node} /\ Filters \subseteq SUBSET Node
    /\ \A b \in Batches : /\ b.ids \in (SUBSET Node) \ {{}, Node}
                          /\ b.sc \in [Node -> [Node -> Int]]

VARIABLES
    sc,        \* the vectors of the corpus rows, as scores
    draw,      \* draw[i]: the level drawn i-th from the seed
    n,         \* nodes of the graph
    idMap,     \* row of each node; the identity without an id_map
    total,     \* n_orig: rows before a rebuild
    lev,       \* level of each node
    links,     \* links[v][l]: the list of node v on layer l
    entry, top,
    del,       \* deleted: the tombstones
    stage,     \* what runs: "insert", "update", "compact", "stepA", "stepB",
               \* or nothing: "ready"; "idle" when there is no process
    did,       \* what this process has done
    todo,      \* rows left to insert, or nodes left in a repair step
    start,     \* where re-insertions of an update start
    pass,      \* repair passes begun
    protected, \* repair edges
    dead,      \* nodes that the repair pass leaves out
    file,      \* the saved file, with what the index answered
    told,      \* of an index loaded and not changed since: what the index that
               \* wrote the file answered
    gone,      \* history: rows a compaction dropped, and not updated since
    mine,      \* history: the rows this process deleted
    cut,       \* history: nodes that a compaction cut out of the graph
    procs

graph == <<links, entry, top>>
nodes == <<sc, draw, n, idMap, total, lev>>
marks == <<del, gone, mine>>
repairing == <<pass, protected, dead, cut>>
vars == <<nodes, graph, marks, stage, did, todo, start, repairing, file, told,
          procs>>

Nodes == 0 .. n - 1
Identity == [j \in Node |-> j]
NoLinks == [v \in Node |-> [l \in Layer |-> << >>]]
NoStart == [ep |-> 0, top |-> 0]
NoFile == [rows |-> 0]
NoAnswers == << >>

\* The scores as the graph sees them, node by node.
NodeScore == [a \in Node |-> [b \in Node |-> sc[idMap[a]][idMap[b]]]]

Least(S) == CHOOSE a \in S : \A b \in S : a <= b

\* _pick_entry: of the nodes S, the one on the highest level, the lowest row.
PickEntry(S) == CHOOSE v \in S : \A x \in S : lev[v] > lev[x]
                                              \/ (lev[v] = lev[x] /\ v <= x)

Init ==
    /\ sc \in Scores /\ draw \in Draws
    /\ n = 0 /\ idMap = Identity /\ total = 0
    /\ lev = [v \in Node |-> 0] /\ links = NoLinks /\ entry = 0 /\ top = 0
    /\ del = {} /\ gone = {} /\ mine = {} /\ cut = {} /\ dead = {}
    /\ stage = "idle" /\ did = {} /\ todo = {} /\ start = NoStart
    /\ pass = 0 /\ protected = {} /\ told = NoAnswers
    /\ file = NoFile /\ procs = 0

-----------------------------------------------------------------------------
(* Build: the rows in order, then the repair pass.                         *)

\* A new graph of k rows.  The first is the entry point.
NewGraph(k, levels) ==
    /\ n' = k /\ lev' = levels
    /\ links' = NoLinks /\ entry' = 0 /\ top' = levels[0]
    /\ todo' = 1 .. k - 1 /\ stage' = "insert"

Build ==
    /\ stage = "idle" /\ file = NoFile /\ procs < MaxProcs
    /\ NewGraph(N, draw) /\ total' = N /\ procs' = procs + 1
    /\ UNCHANGED <<sc, draw, idMap, marks, did, start, repairing, file, told>>

InsertRow ==
    /\ stage = "insert" /\ todo # {}
    /\ LET i == Least(todo) IN
         /\ links' = Linked(NodeScore, links, i, lev[i], entry, top)
         /\ entry' = IF lev[i] > top THEN i ELSE entry
         /\ top' = MaxOf(lev[i], top)
    /\ todo' = todo \ {Least(todo)}
    /\ UNCHANGED <<nodes, marks, stage, did, start, repairing, file, told,
                   procs>>

-----------------------------------------------------------------------------
(* The repair pass.                                                        *)

Unreached(skip) == Nodes \ (Reach(links, entry) \cup skip)

\* Step A is for the nodes without an in-edge on layer 0.
ZeroInDegree(skip) ==
    {v \in Nodes \ (skip \cup {entry}) :
        \A u \in Nodes : ~Contains(links[u][0], v)}

StartRepair ==
    /\ stage \in {"insert", "update", "compact"} /\ todo = {}
    /\ stage' = "stepA" /\ todo' = ZeroInDegree(dead)
    /\ pass' = 1 /\ protected' = {} /\ cut' = dead
    /\ UNCHANGED <<nodes, graph, marks, did, start, dead, file, told, procs>>

KeptAt(u) == {x \in Node : <<u, x>> \in protected}

\* Mutant: earlier repair edges are not kept.
KeepOne(u, x) == {x}

Keep(u, x) == KeptAt(u) \cup {x}

\* _add_protected: the repair edge u -> x.  A full list is selected again, and
\* x and the earlier repair edges of u are kept.
AddProtected(u, x) ==
    LET list == links[u][0]
    IN  /\ protected' = protected \cup {<<u, x>>}
        /\ links' = [links EXCEPT ![u][0] =
                IF Contains(list, x) THEN list
                ELSE IF Len(list) < M0 THEN Append(list, x)
                ELSE Select(NodeScore, NodeScore[u], ToSet(list) \cup {x},
                            M0, Keep(u, x))]

Near(x) == NearestFromEntry(NodeScore, links, x, entry, top)

\* The next node x gets an edge from the best node of its own list, or, when
\* it has no list, from the nearest node that a search for it finds, if any.
StepA ==
    /\ stage = "stepA" /\ todo # {}
    /\ LET x == Least(todo)
           from == IF links[x][0] # << >> THEN ToSet(links[x][0]) ELSE Near(x)
       IN  IF from # {} THEN AddProtected(Best(NodeScore[x], from), x)
           ELSE UNCHANGED <<links, protected>>
    /\ todo' = todo \ {Least(todo)}
    /\ UNCHANGED <<nodes, entry, top, marks, stage, did, start, pass, dead,
                   cut, file, told, procs>>

\* What is left of a repair pass that has ended.
RepairDone == stage' = "ready" /\ protected' = {} /\ dead' = {} /\ pass' = 0

\* Step B is for the nodes not reached at its start; the pass is the last one
\* when there are none.
StartStepB ==
    /\ stage = "stepA" /\ todo = {}
    /\ todo' = Unreached(dead)
    /\ IF Unreached(dead) = {}
       THEN RepairDone
       ELSE stage' = "stepB" /\ UNCHANGED <<pass, protected, dead>>
    /\ UNCHANGED <<nodes, graph, marks, did, start, cut, file, told, procs>>

\* Mutant: the nodes of x's own list are taken for reachable.
SourcesOwn(x) == ToSet(links[x][0])

\* Where x may get its edge from: with a free slot, if there is such a node.
Sources(x) ==
    LET free == {c \in Near(x) : Len(links[c][0]) < M0}
    IN  IF free # {} THEN free ELSE Near(x)

\* The nearest of them.
StepB ==
    /\ stage = "stepB" /\ todo # {}
    /\ LET x == Least(todo)
       IN  IF Sources(x) # {}
           THEN AddProtected(Best(NodeScore[x], Sources(x)), x)
           ELSE UNCHANGED <<links, protected>>
    /\ todo' = todo \ {Least(todo)}
    /\ UNCHANGED <<nodes, entry, top, marks, stage, did, start, pass, dead,
                   cut, file, told, procs>>

\* Three passes at most.
EndPass ==
    /\ stage = "stepB" /\ todo = {}
    /\ IF pass < 3
       THEN /\ pass' = pass + 1 /\ stage' = "stepA"
            /\ todo' = ZeroInDegree(dead)
            /\ UNCHANGED <<protected, dead>>
       ELSE RepairDone /\ UNCHANGED todo
    /\ UNCHANGED <<nodes, graph, marks, did, start, cut, file, told, procs>>

-----------------------------------------------------------------------------
(* Search.                                                                 *)

Query(r) == [j \in Node |-> sc[r][idMap[j]]]

\* Where the walk on layer 0 starts: the descent goes over tombstones.
StartOf(q) == Descend(links, q, entry, top, 0)

\* _allow: the nodes that may enter the result.
Allowed(rows) == {j \in Nodes : idMap[j] \in rows} \ del

\* The best Ef of rows for query r, best first, as row IDs.
Search(r, rows) ==
    LET q == Query(r)
        ranked == Ranked(q, SearchLayer([v \in Node |-> links[v][0]], q,
                                        Allowed(rows), {StartOf(q)}, Ef))
    IN  [i \in DOMAIN ranked |-> idMap[ranked[i]]]

Held == {idMap[j] : j \in Nodes}
Answers == [r \in Held |-> [rows \in Filters |-> Search(r, rows)]]

-----------------------------------------------------------------------------
(* Deletes and updates, one of them in a process.                          *)

Change == /\ stage = "ready" /\ did \cap {"changed", "saved"} = {}
          /\ did' = did \cup {"changed"} /\ told' = NoAnswers

\* The mask takes the place of the tombstones there were.
Delete ==
    /\ Change
    /\ \E mask \in Masks : del' = mask /\ mine' = mask
    /\ UNCHANGED <<nodes, graph, gone, stage, todo, start, repairing, file,
                   procs>>

\* Where the re-insertion of the nodes ids starts.
UpdateStart(ids) ==
    LET alt == PickEntry(Nodes \ ids)
    IN  IF entry \in ids THEN [ep |-> alt, top |-> lev[alt]]
        ELSE [ep |-> entry, top |-> top]

\* The list without the nodes ids.
Without(list, ids) ==
    LET At[j \in 0 .. Len(list)] ==
            IF j = 0 THEN << >>
            ELSE IF list[j] \in ids THEN At[j - 1]
            ELSE Append(At[j - 1], list[j])
    IN  At[Len(list)]

\* Step 1: the vectors are overwritten, and the nodes leave all lists and lose
\* their own.  With the entry point among them, step 2 starts elsewhere.
Update ==
    /\ Change
    /\ \E b \in Batches :
         LET ids == b.ids IN
         /\ sc' = [a \in Node |-> [c \in Node |->
                      IF {a, c} \cap ids # {} THEN b.sc[a][c] ELSE sc[a][c]]]
         /\ links' = [v \in Node |-> [l \in Layer |->
                        IF v \in ids THEN << >>
                        ELSE Without(links[v][l], ids)]]
         /\ start' = UpdateStart(ids) /\ todo' = ids /\ gone' = gone \ ids
    /\ stage' = "update" /\ cut' = {}
    /\ UNCHANGED <<draw, n, idMap, total, lev, entry, top, del, mine, pass,
                   protected, dead, file, procs>>

\* Step 2: the nodes are inserted again in order; the entry point itself
\* becomes the start again once it is linked.
Reinsert ==
    /\ stage = "update" /\ todo # {}
    /\ LET i == Least(todo) IN
         /\ links' = Linked(NodeScore, links, i, lev[i], start.ep, start.top)
         /\ start' = IF i = entry THEN [ep |-> entry, top |-> top] ELSE start
    /\ todo' = todo \ {Least(todo)}
    /\ UNCHANGED <<nodes, entry, top, marks, stage, did, repairing, file, told,
                   procs>>

-----------------------------------------------------------------------------
(* Compact.                                                                *)

Compacting == /\ stage = "ready"
              /\ "changed" \in did /\ did \cap {"compacted", "saved"} = {}
              /\ did' = did \cup {"compacted"}

\* Mutant: the neighbors of the deleted neighbors may be deleted too.
RefilledOnce(x, l) ==
    LET list == ToSet(links[x][l])
        cands == ((list \ del)
                    \cup UNION {ToSet(links[e][l]) : e \in list \cap del})
                    \ {x}
    IN  IF list \cap del = {} THEN links[x][l]
        ELSE Select(NodeScore, NodeScore[x], cands, Cap(l), {})

\* _refill, one list: with a deleted neighbor it is selected again from the
\* live neighbors and the live neighbors of the deleted ones.
Refilled(x, l) ==
    LET list == ToSet(links[x][l])
        cands == (list \cup UNION {ToSet(links[e][l]) : e \in list \cap del})
                    \ (del \cup {x})
    IN  IF list \cap del = {} THEN links[x][l]
        ELSE Select(NodeScore, NodeScore[x], cands, Cap(l), {})

\* Mutant: the top layer of the deleted entry point stays.
EptKeepTop == [ep |-> IF entry \in del THEN PickEntry(Nodes \ del) ELSE entry,
               top |-> top]

\* The entry point and top layer without the deleted nodes.
Ept == LET ep == IF entry \in del THEN PickEntry(Nodes \ del) ELSE entry
       IN  [ep |-> ep, top |-> lev[ep]]

\* In place: the deleted nodes lose their edges and the tombstones end, then
\* the repair pass runs without the deleted nodes.
CompactRepair ==
    /\ Compacting
    /\ IF del = {} THEN UNCHANGED <<graph, del, stage, dead>>
       ELSE /\ links' = [v \in Node |-> [l \in Layer |->
                            IF v \in del THEN << >> ELSE Refilled(v, l)]]
            /\ entry' = Ept.ep /\ top' = Ept.top
            /\ dead' = del /\ del' = {} /\ stage' = "compact"
    /\ gone' = gone \cup {idMap[j] : j \in del}
    /\ UNCHANGED <<nodes, mine, todo, start, pass, protected, cut, file, told,
                   procs>>

\* The live nodes in order, by row.
NewIdMap(live) ==
    [j \in Node |-> IF j < Cardinality(live)
        THEN idMap[CHOOSE a \in live : Cardinality({b \in live : b < a}) = j]
        ELSE j]

\* A new index of the live nodes, in order, with levels drawn again.
CompactRebuild ==
    /\ Compacting
    /\ LET live == Nodes \ del
           k == Cardinality(live)
       IN  /\ NewGraph(k, [j \in Node |-> IF j < k THEN draw[j] ELSE 0])
           /\ idMap' = NewIdMap(live)
    /\ del' = {} /\ cut' = {} /\ gone' = gone \cup {idMap[j] : j \in del}
    /\ UNCHANGED <<sc, draw, total, mine, start, pass, protected, dead,
                   file, told, procs>>

-----------------------------------------------------------------------------
(* The index file.                                                         *)

NoNode == -1

\* The node of row r, or none for a row that a rebuild dropped.
NodeOf(r) == IF r \in Held THEN CHOOSE j \in Nodes : idMap[j] = r ELSE NoNode
Dropped == (0 .. total - 1) \ Held

\* Mutant: the lists keep node IDs.
RemapNot(list) == list

\* A list of nodes as a list of rows.
Remap(list) == [i \in DOMAIN list |-> idMap[list[i]]]

\* Everything by row.  A row that a rebuild dropped has a tombstone, a zero
\* vector, level 0, and no edges.
Content ==
    [rows |-> total,
     sc |-> [a \in Node |-> [b \in Node |->
                IF {a, b} \cap Dropped # {} THEN 0 ELSE sc[a][b]]],
     gone |-> gone, told |-> Answers,
     lev |-> [r \in Node |-> IF r \in Held THEN lev[NodeOf(r)] ELSE 0],
     links |-> [r \in Node |-> [l \in Layer |->
                  IF r \in Held THEN Remap(links[NodeOf(r)][l]) ELSE << >>]],
     entry |-> idMap[entry],
     del |-> {idMap[j] : j \in del} \cup Dropped,
     cut |-> {idMap[j] : j \in cut} \cup Dropped]

Save ==
    /\ stage = "ready" /\ "saved" \notin did
    /\ file' = Content /\ did' = did \cup {"saved"}
    /\ UNCHANGED <<nodes, graph, marks, stage, todo, start, repairing, told,
                   procs>>

\* The next process.  The top layer is the level of the entry point.
Load ==
    /\ stage = "idle" /\ file # NoFile /\ procs < MaxProcs
    /\ sc' = file.sc /\ n' = file.rows /\ idMap' = Identity
    /\ total' = file.rows /\ lev' = file.lev /\ links' = file.links
    /\ entry' = file.entry /\ top' = file.lev[file.entry]
    /\ del' = file.del /\ gone' = file.gone /\ cut' = file.cut
    /\ told' = file.told
    /\ stage' = "ready" /\ procs' = procs + 1
    /\ UNCHANGED <<draw, mine, did, todo, start, pass, protected, dead, file>>

Exit ==
    /\ stage = "ready" /\ stage' = "idle" /\ did' = {}
    /\ n' = 0 /\ idMap' = Identity /\ total' = 0
    /\ lev' = [v \in Node |-> 0] /\ links' = NoLinks /\ entry' = 0 /\ top' = 0
    /\ del' = {} /\ gone' = {} /\ mine' = {} /\ cut' = {}
    /\ todo' = {} /\ start' = NoStart /\ told' = NoAnswers
    /\ UNCHANGED <<sc, draw, pass, protected, dead, file, procs>>

-----------------------------------------------------------------------------
RepairPass == StartRepair \/ StepA \/ StartStepB \/ StepB \/ EndPass
Compact == CompactRepair \/ CompactRebuild

Next == \/ Build \/ InsertRow \/ RepairPass
        \/ Delete \/ Update \/ Reinsert \/ Compact
        \/ Save \/ Load \/ Exit

Spec == Init /\ [][Next]_vars
-----------------------------------------------------------------------------
(* What must hold.                                                         *)

\* search, "entry and top always match", also through a temporary start of an
\* update: a walk begins on the layer its start is on, where it has slots.
EntryOnTop ==
    /\ n > 0 => entry \in Nodes /\ lev[entry] = top
    /\ stage = "update" => lev[start.ep] = start.top
    /\ stage = "update" /\ start.ep \in todo => todo = {}

\* repair, "each node that a directed BFS from the entry point on layer 0 does
\* not reach gets u -> x": once it ran after the last change, layer 0 leads to
\* every node that was not cut out.  (With several rows above layer 0 the walk
\* of step B may start where layer 0 does not lead.)
AllReached ==
    /\ stage = "ready"
    /\ Cardinality({v \in Nodes : lev[v] > 0}) <= 1
    => Unreached(cut) = {}

\* "Repair edges are protected: a shrink never prunes them", as long as a node
\* has no more of them than slots.
ProtectedKept ==
    \A e \in protected :
        Cardinality(KeptAt(e[1])) <= M0 => Contains(links[e[1]][0], e[2])

\* compact, mode "repair": "The deleted nodes keep their slots but have no
\* edges and no in-edges" on any layer, and the repair pass, with nodes that
\* are hard to reach, does not bring them back.
CutOff ==
    \A v \in cut : \A l \in Layer :
        /\ links[v][l] = << >>
        /\ \A u \in Nodes : ~Contains(links[u][l], v)

\* search and search_layer_filtered: a search returns the Ef rows it is asked
\* for when the place it starts from leads to so many, else all of those, and
\* no row that this process has deleted, whatever the filter and the
\* compaction: nodes that may not be returned never end the walk.
FullAnswer ==
    stage = "ready" =>
        \A r \in Held, rows \in Filters :
            LET led == Reach(links, StartOf(Query(r))) \cap Allowed(rows)
            IN  /\ ToSet(Search(r, rows)) \subseteq rows \ mine
                /\ Len(Search(r, rows)) = MinOf(Ef, Cardinality(led))

\* CONTRACT 15.1: "A search on the loaded index returns the same IDs and scores
\* as on the index that wrote the file", after a rebuild and its ID map too.
SameAnswers ==
    told # NoAnswers =>
        \A r \in DOMAIN told, rows \in Filters :
            Search(r, rows) = told[r][rows]

\* compact, mode "repair", drops the tombstones since "no search reaches" the
\* deleted nodes; so no later process may return them either, unless an update
\* has given them a new vector.
NoReturn ==
    stage = "ready" =>
        \A r \in Held, rows \in Filters :
            ToSet(Search(r, rows)) \cap gone = {}
=============================================================================
