------------------------------ MODULE HnswGraph ------------------------------
(***************************************************************************)
(* The graph algorithms of src/indexes/python/hnsw.py as functions: what   *)
(* search-layer finds, what the heuristic selects, what an insertion makes *)
(* of the lists, and where the repair pass looks.                          *)
(*                                                                         *)
(* A vector is known by its scores: sc[a][b] is the dot product of rows a  *)
(* and b.  Any symmetric table whose largest entries are sc[a][a] is the   *)
(* table of some unit vectors, so nothing is lost; rows with equal vectors *)
(* are left out.  A query is a score for every node.                       *)
(***************************************************************************)
EXTENDS Integers, Sequences, FiniteSets, SequencesExt

CONSTANTS
    N,          \* rows of the corpus
    MaxLevel,   \* highest level a row may draw
    M, M0,      \* list caps on the upper layers and on layer 0
    EfC         \* ef_construct

ASSUME GraphAssumption == /\ N \in Nat \ {0} /\ MaxLevel \in Nat
                          /\ M \in Nat /\ M >= 2 /\ M0 = 2 * M
                          /\ EfC \in Nat \ {0}

Node == 0 .. N - 1
Layer == 0 .. MaxLevel

Cap(l) == IF l = 0 THEN M0 ELSE M

MinOf(a, b) == IF a <= b THEN a ELSE b
MaxOf(a, b) == IF a >= b THEN a ELSE b

\* Higher score, then lower ID.
Better(q, a, b) == q[a] > q[b] \/ (q[a] = q[b] /\ a < b)

Best(q, S) == CHOOSE a \in S : \A b \in S \ {a} : Better(q, a, b)
Worst(q, S) == CHOOSE a \in S : \A b \in S \ {a} : Better(q, b, a)

\* The k best nodes of S: what a bounded heap keeps.
TopOf(q, S, k) == {a \in S : Cardinality({b \in S : Better(q, b, a)}) < k}

\* S, best first: the i-th has i - 1 better ones.
Ranked(q, S) ==
    [i \in 1 .. Cardinality(S) |->
        CHOOSE a \in S : Cardinality({b \in S : Better(q, b, a)}) = i - 1]

-----------------------------------------------------------------------------
(* Walks.  nbr[v]: the list of v on the layer.                             *)

\* Mutant: a node that is not admitted is not expanded either.
EnterAdmitted(q, admit, ef, w, e) ==
    LET full == Cardinality(w.res) >= ef
    IN  IF e \notin admit \/ (full /\ q[e] <= q[Worst(q, w.res)]) THEN w
        ELSE [w EXCEPT !.cand = @ \cup {e},
                       !.res = (IF full THEN @ \ {Worst(q, @)} ELSE @)
                                   \cup {e}]

\* A scored node becomes a candidate unless the result is full and the node
\* no better than its worst; only an admitted node enters the result.
Enter(q, admit, ef, w, e) ==
    LET full == Cardinality(w.res) >= ef
    IN  IF full /\ q[e] <= q[Worst(q, w.res)] THEN w
        ELSE [w EXCEPT !.cand = @ \cup {e},
                       !.res = IF e \notin admit THEN @
                               ELSE (IF full THEN @ \ {Worst(q, @)} ELSE @)
                                        \cup {e}]

\* The list of a node, in order: what was not seen before is scored.
Entered(q, admit, ef, w, list) ==
    LET At[j \in 0 .. Len(list)] ==
            IF j = 0 THEN w
            ELSE IF list[j] \in w.seen THEN At[j - 1]
            ELSE Enter(q, admit, ef, At[j - 1], list[j])
    IN  [At[Len(list)] EXCEPT !.seen = @ \cup ToSet(list)]

\* One node is expanded, unless the walk has ended.
Step(nbr, q, admit, ef, w) ==
    LET c == Best(q, w.cand)
    IN  IF \/ w.cand = {}
           \/ Cardinality(w.res) >= ef /\ q[c] < q[Worst(q, w.res)]
        THEN w
        ELSE Entered(q, admit, ef, [w EXCEPT !.cand = @ \ {c}], nbr[c])

\* search_layer and search_layer_filtered: the best candidate is expanded
\* until the result is full and its worst better than that candidate.
SearchLayer(nbr, q, admit, eps, ef) ==
    LET Walk[k \in 0 .. N] ==
            IF k = 0 THEN [seen |-> eps, cand |-> eps,
                           res |-> TopOf(q, eps \cap admit, ef)]
            ELSE Step(nbr, q, admit, ef, Walk[k - 1])
    IN  Walk[N].res

\* The best row of a list, the first of them in the list.
FirstBest(q, list) ==
    list[CHOOSE i \in DOMAIN list : \A j \in DOMAIN list :
            q[list[i]] > q[list[j]] \/ (q[list[i]] = q[list[j]] /\ i <= j)]

\* greedy: to the best neighbor while it is strictly better.
Greedy(nbr, q, ep) ==
    LET Move(v) == IF nbr[v] # << >> /\ q[FirstBest(q, nbr[v])] > q[v]
                   THEN FirstBest(q, nbr[v]) ELSE v
        At[k \in 0 .. N] == IF k = 0 THEN ep ELSE Move(At[k - 1])
    IN  At[N]

\* Greedy on the layers from down to to + 1.
Descend(links, q, ep, from, to) ==
    LET n == MaxOf(from - to, 0)
        At[k \in 0 .. n] ==
            IF k = 0 THEN ep
            ELSE Greedy([v \in Node |-> links[v][from - k + 1]], q, At[k - 1])
    IN  At[n]

-----------------------------------------------------------------------------
(* Lists.                                                                  *)

\* select: best first, an item is taken when the base is strictly closer to
\* it than every item already taken; the items to keep come first, and need
\* not be.
Selected(sc, q, limit, keep, s) ==
    LET first == s.left \cap keep
        c == IF first # {} THEN Best(q, first) ELSE Best(q, s.left)
    IN  IF s.left = {} THEN s ELSE
        [left |-> s.left \ {c},
         out |-> IF /\ Len(s.out) < limit
                    /\ \/ c \in keep
                       \/ \A j \in DOMAIN s.out : sc[c][s.out[j]] < q[c]
                 THEN Append(s.out, c) ELSE s.out]

Select(sc, q, S, limit, keep) ==
    LET At[k \in 0 .. Cardinality(S)] ==
            IF k = 0 THEN [left |-> S, out |-> << >>]
            ELSE Selected(sc, q, limit, keep, At[k - 1])
    IN  At[Cardinality(S)].out

\* The list of e on layer l with the back edge to i.
WithBackEdge(sc, list, e, i, l) ==
    IF Len(list) < Cap(l) THEN Append(list, i)
    ELSE Select(sc, sc[e], ToSet(list) \cup {i}, Cap(l), {})

\* insert: all lists after node i of level lvl is linked from ep on layer top.
\* On every layer up to MinOf(lvl, top) the walk starts from all that was
\* found on the layer above, and i gets M selected neighbors, which get i.
Linked(sc, links, i, lvl, ep, top) ==
    LET q == sc[i]
        lmax == MinOf(lvl, top)
        start == {Descend(links, q, ep, top, lmax)}
        Found[k \in 0 .. lmax + 1] ==
            IF k = 0 THEN start
            ELSE SearchLayer([v \in Node |-> links[v][lmax - k + 1]], q, Node,
                             Found[k - 1], EfC)
        chosen == [l \in 0 .. lmax |->
                      Select(sc, q, Found[lmax - l + 1], M, {})]
    IN  [v \in Node |-> [l \in Layer |->
            IF l > lmax THEN links[v][l]
            ELSE IF v = i THEN chosen[l]
            ELSE IF Contains(chosen[l], v)
                 THEN WithBackEdge(sc, links[v][l], v, i, l)
            ELSE links[v][l]]]

-----------------------------------------------------------------------------
(* The repair pass.                                                        *)

\* reachable0, _unreachable0: where layer 0 leads to from v.
Reach(links, v) ==
    LET From[k \in 0 .. N] ==
            IF k = 0 THEN {v}
            ELSE From[k - 1] \cup
                 UNION {ToSet(links[u][0]) : u \in From[k - 1]}
    IN  From[N]

\* _nearest_from_entry: what a search for x finds on layer 0, without x.
NearestFromEntry(sc, links, x, ep, top) ==
    LET q == sc[x]
        start == Descend(links, q, ep, top, 0)
    IN  SearchLayer([v \in Node |-> links[v][0]], q, Node, {start}, EfC) \ {x}
=============================================================================
