------------------------------- MODULE DbBase -------------------------------
(***************************************************************************)
(* What the three database clients of src/tools/db share.  A call of a     *)
(* client is the sequence of the steps it takes, each of them one request  *)
(* to the server or one assignment to a field of the client; the modules   *)
(* Pgvector, Qdrant and Milvus give the calls, DbServer carries out the    *)
(* requests and DbBench runs the programs made of the calls.               *)
(*                                                                         *)
(* A row has version 0 as it is loaded and version 1 once it is updated.   *)
(***************************************************************************)
EXTENDS Integers, FiniteSets, Sequences, SequencesExt

CONSTANTS
    Row,          \* the rows of the data set, small numbers
    Nil

Old(S) == S \X {0}
New(S) == S \X {1}

Do(op, arg) == [op |-> op, arg |-> arg]

\* The rows S in order, in batches; a batch of 2,000, 10,000 or 100 rows is one
\* row, the i-th the row that has i - 1 rows before it.
Batches(S) ==
    [i \in 1 .. Cardinality(S) |->
        {CHOOSE r \in S : Cardinality({x \in S : x < r}) = i - 1}]

\* A request for every batch of S: version v is put, or the rows go.
PutAll(S, v) ==
    [i \in 1 .. Cardinality(S) |-> Do("put", Batches(S)[i] \X {v})]

DeleteAll(S) ==
    [i \in 1 .. Cardinality(S) |-> Do("delete", Batches(S)[i])]

\* What a search shows of the database: the versions it can return, the dead
\* versions it walks over, the versions it has to scan because no index has
\* them yet, how it finds the others, and by which build of the index.
Seen(rows, dead, raw, by, gen) ==
    [rows |-> rows, dead |-> dead, raw |-> raw, by |-> by, gen |-> gen]

How(index) == IF index = "flat" THEN "scan" ELSE "index"
=============================================================================
