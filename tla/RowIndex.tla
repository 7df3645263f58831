------------------------------ MODULE RowIndex ------------------------------
(* What the flat and the IVF index share: the row array, the tombstones, the *)
(* filter masks, the .vro file and the selection of the best rows            *)
(* (distance.py, filters.py, changes.py, vro.py).                            *)
EXTENDS Integers, Sequences, FiniteSets, SequencesExt

CONSTANTS
    N,         \* rows of the index (--limit)
    Dim,       \* dimensions of a vector
    Corpus,    \* the vector of each row
    Updates,   \* the update sets, as files: functions from rows to vectors
    Masks,     \* the delete sets, as files: sets of rows
    Filters,   \* the filter masks, as files: sets of rows by name
    Queries,   \* the query vectors
    K,         \* results of a search
    Nil        \* nothing there: no tombstones, no ID map, no file

Row == 0 .. N - 1
Vector == [1 .. Dim -> Int]
Zero == [j \in 1 .. Dim |-> 0]

ASSUME CorpusAssumption ==
    /\ N \in Nat \ {0} /\ Dim \in Nat \ {0} /\ K \in Nat \ {0}
    /\ Corpus \in [Row -> Vector]
    /\ \A q \in Queries : q \in Vector
    /\ \A u \in Updates : DOMAIN u \subseteq Nat /\ u \in [DOMAIN u -> Vector]
    /\ Masks \subseteq SUBSET Nat
    /\ DOMAIN Filters \subseteq STRING \ {"none"}

\* Nil is none of the values it stands in for.
ASSUME NilAssumption ==
    /\ Nil \notin Nat
    /\ \A S \in SUBSET Row :
          Nil # S /\ Nil \notin [S -> Vector] /\ Nil \notin [S -> Row]

VARIABLES
    vectors,   \* index["vectors"]: the array the index reads, by position
    deleted,   \* index["deleted"]: the set of deleted positions; or Nil
    file       \* the .vro file: [index, content, whole]; or Nil

-----------------------------------------------------------------------------
(* Change sets and filters, cut to the rows of the index.                  *)

Names == DOMAIN Filters \cup {"none"}

DeleteMask(m, n) == m \cap 0 .. n - 1

UpdateSet(u, n) == [r \in DOMAIN u \cap 0 .. n - 1 |-> u[r]]

Passing(name, n) ==
    IF name = "none" THEN 0 .. n - 1 ELSE Filters[name] \cap 0 .. n - 1

Overwritten(u) ==
    [r \in DOMAIN vectors |-> IF r \in DOMAIN u THEN u[r] ELSE vectors[r]]

-----------------------------------------------------------------------------
(* The k highest scores.                                                   *)

\* What is ranked, in the order of the ranks.
ByRank(rank) ==
    LET S == DOMAIN rank
    IN  [i \in 1 .. Cardinality(S) |-> CHOOSE x \in S : rank[x] = i - 1]

Ascending(S) == ByRank([x \in S |-> Cardinality({y \in S : y < x})])

\* ids[mask[ids]]: those of S, in their order.
Where(ids, S) ==
    LET at == Ascending({i \in DOMAIN ids : ids[i] \in S})
    IN  [i \in DOMAIN at |-> ids[at[i]]]

\* concatenate
Concat(parts) ==
    LET Joined[i \in 0 .. Len(parts)] ==
            IF i = 0 THEN << >> ELSE Joined[i - 1] \o parts[i]
    IN  Joined[Len(parts)]

\* Positions first; ids[p] is the row at position p.  Everything at or above
\* the k-th best score is ranked, lower IDs first on equal scores, and the
\* answer is padded with -1.
TopK(s, k, ids) ==
    LET kk == IF k < Len(s) THEN k ELSE Len(s)
        AtLeast(t) == {p \in DOMAIN s : s[p] >= t}
        Kth(p) == /\ Cardinality(AtLeast(s[p])) >= kk
                  /\ Cardinality(AtLeast(s[p] + 1)) < kk
        pos == IF kk = 0 THEN {}
               ELSE IF kk < Len(s)
               THEN AtLeast(s[CHOOSE p \in DOMAIN s : Kth(p)])
               ELSE DOMAIN s
        Above(p) == {q \in pos : \/ s[q] > s[p]
                                 \/ s[q] = s[p] /\ ids[q] < ids[p]}
        ranked == ByRank([p \in pos |-> Cardinality(Above(p))])
    IN  [i \in 1 .. k |-> IF i <= kk THEN ids[ranked[i]] ELSE -1]

SumOf(f) ==
    LET Sum[i \in 0 .. Len(f)] == IF i = 0 THEN 0 ELSE Sum[i - 1] + f[i]
    IN  Sum[Len(f)]

Dot(a, b) == SumOf([j \in 1 .. Dim |-> a[j] * b[j]])

Scores(q, rows) == [i \in DOMAIN rows |-> Dot(q, rows[i])]

-----------------------------------------------------------------------------
(* The file.                                                               *)

Bits(set) == IF set = Nil THEN {} ELSE set

\* No bit set: no tombstones at all.
FromBits(bits) == IF bits = {} THEN Nil ELSE bits

\* The old file is gone as soon as the new one is opened.  The bytes follow;
\* until the last of them the file is cut short.
BeginWrite(index, content) ==
    file' = [index |-> index, content |-> content, whole |-> FALSE]

EndWrite ==
    /\ file # Nil /\ ~file.whole
    /\ file' = [file EXCEPT !.whole = TRUE]

\* A file that was cut short has no magic, half a header, or a section that
\* ends behind the end of the file; each is refused.
Open == file # Nil /\ file.whole

\* The file of another index is refused.
Check(index) == file.index = index

Read(index) == Open /\ Check(index)
=============================================================================
