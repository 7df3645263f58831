----------------------------- MODULE MCHnswLoad -----------------------------
(* Small load runs: four rows are built, two are inserted. *)
EXTENDS HnswLoad

Table(S(_, _)) ==
    [a \in Node |-> [b \in Node |->
        IF a = b THEN 20 ELSE S(MinOf(a, b), MaxOf(a, b))]]

\* The list of row 0 is full when row 5 comes, is reordered and shrinks to two
\* rows, one of which stays behind the new count as well.
Shrinks == Table(LAMBDA a, b :
    IF a = 0 THEN (IF b = 5 THEN 12 ELSE b + 3)
    ELSE IF b = 5 /\ a < 4 THEN 11 ELSE 1)

\* Two groups.
Groups == Table(LAMBDA a, b : IF (b - a) % 2 = 0 THEN 2 ELSE 1)

\* An inserted row is on an upper layer: with row 1, or alone.
Raised(S) == [v \in Node |-> IF v \in S THEN 1 ELSE 0]

Few == {[sc |-> Shrinks, lev |-> Raised({1, 4})],
        [sc |-> Shrinks, lev |-> Raised({4})],
        [sc |-> Groups, lev |-> Raised({1, 4})]}

Pass == <<4, 0>>
=============================================================================
