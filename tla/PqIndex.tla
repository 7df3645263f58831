------------------------------- MODULE PqIndex -------------------------------
(* The indexes with product quantization: pq.py codes every row, ivf_pq.py   *)
(* the residual of every row to the center of its list.  A sub-vector has    *)
(* one dimension; which codebooks the training ends with is left open.       *)
EXTENDS IvfIndex

CONSTANT Books     \* the codebooks: Books[j][c], sub-vector j, centroid c

VARIABLE pq        \* the index: [metric, books, codes], for IVF-PQ with
                   \* list_ids and offsets; or Nil

Metrics == {"ip", "l2"}
Sub == 1 .. Dim

ASSUME BooksAssumption ==
    \A books \in Books : \A j \in Sub :
        LET codes == DOMAIN books[j]
        IN  /\ Cardinality(codes) \in Nat \ {0}
            /\ codes = 0 .. Cardinality(codes) - 1
            /\ books[j] \in [codes -> Int]

\* assign: the best centroid, the lower one on equal scores.  The square of x
\* is left out of the distance.
BestCode(metric, book, x) ==
    LET Score(c) == IF metric = "ip" THEN x * book[c]
                    ELSE 2 * x * book[c] - book[c] * book[c]
    IN  CHOOSE c \in DOMAIN book : \A d \in DOMAIN book :
            Score(d) < Score(c) \/ (Score(d) = Score(c) /\ c <= d)

Encode(metric, books, v) == [j \in Sub |-> BestCode(metric, books[j], v[j])]

PqBuild ==
    /\ vectors' = Corpus /\ deleted' = Nil
    /\ \E metric \in Metrics, books \in Books :
         pq' = [metric |-> metric, books |-> books,
                codes  |-> [r \in Row |-> Encode(metric, books, Corpus[r])]]
    /\ UNCHANGED file

Minus(v, w) == [j \in Sub |-> v[j] - w[j]]

\* Mutant: the codes stay in the order of the rows.
CodesByRow(ids, codes) == [i \in DOMAIN ids |-> codes[i - 1]]

InListOrder(ids, codes) == [i \in DOMAIN ids |-> codes[ids[i]]]

\* Coarse centers by dot product, in both metrics.
IvfPqBuild ==
    LET label == [r \in Row |-> BestCenter(Corpus[r])]
        resid == [r \in Row |-> Minus(Corpus[r], Centers[label[r]])]
        Before(r) == {x \in Row : \/ label[x] < label[r]
                                  \/ label[x] = label[r] /\ x < r}
        ids   == ByRank([r \in Row |-> Cardinality(Before(r))])
    IN  /\ vectors' = Corpus /\ deleted' = Nil
        /\ \E metric \in Metrics, books \in Books :
             pq' = [metric   |-> metric, books |-> books,
                    list_ids |-> ids,
                    codes    |-> InListOrder(ids,
                        [r \in Row |-> Encode(metric, books, resid[r])]),
                    offsets  |-> [c \in 0 .. NList |->
                        Cardinality({r \in Row : label[r] < c})]]
        /\ UNCHANGED file

-----------------------------------------------------------------------------
(* Search: no score of a row is worked out from its vector, but for the      *)
(* candidates of a rerank.                                                   *)

\* The table of a query; l2 from the three parts of the square.
Table(q) ==
    [j \in Sub |-> [c \in DOMAIN pq.books[j] |->
        LET x == pq.books[j][c]
        IN  IF pq.metric = "ip" THEN x * q[j]
            ELSE -(q[j] * q[j] - 2 * x * q[j] + x * x)]]

\* The sum of the entries a code names.
TableSum(table, code) == SumOf([j \in Sub |-> table[j][code[j]]])

Exact(q, v) == IF pq.metric = "ip" THEN Dot(q, v)
               ELSE -Dot(Minus(v, q), Minus(v, q))

\* The K best by the table, or by the vectors of the best by the table.
Best(s, ids, q, rerank) ==
    LET cand == Where(TopK(s, rerank, ids), Nat)
    IN  IF rerank <= 0 THEN TopK(s, K, ids)
        ELSE TopK([i \in DOMAIN cand |-> Exact(q, vectors[cand[i]])],
                  K, cand)

PqAnswer(q, rerank) ==
    LET table == Table(q)
    IN  Best([i \in 1 .. N |-> TableSum(table, pq.codes[i - 1])],
             [i \in 1 .. N |-> i - 1], q, rerank)

\* Positions in list order; with l2 every probed list has a table of its own.
IvfPqAnswer(q, nprobe, rerank) ==
    LET probe == Probed(q, nprobe)
        rows == Concat([p \in DOMAIN probe |->
                    [i \in 1 .. pq.offsets[probe[p] + 1] - pq.offsets[probe[p]]
                        |-> [at |-> pq.offsets[probe[p]] + i, of |-> p]]])
        ipTable == Table(q)
        l2Table == [p \in DOMAIN probe |-> Table(Minus(q, Centers[probe[p]]))]
        Score(row) ==
            LET code == pq.codes[row.at]
            IN  IF pq.metric = "ip"
                THEN Dot(q, Centers[probe[row.of]]) + TableSum(ipTable, code)
                ELSE TableSum(l2Table[row.of], code)
    IN  Best([i \in DOMAIN rows |-> Score(rows[i])],
             [i \in DOMAIN rows |-> pq.list_ids[rows[i].at]], q, rerank)
=============================================================================
