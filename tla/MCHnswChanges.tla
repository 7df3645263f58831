---------------------------- MODULE MCHnswChanges ----------------------------
(* Small corpora for HnswChanges. *)
EXTENDS HnswChanges

Symmetric(pair) ==
    [a \in Node |-> [b \in Node |->
        IF a = b THEN 9 ELSE IF a < b THEN pair[<<a, b>>] ELSE pair[<<b, a>>]]]

Pairs == {p \in Node \X Node : p[1] < p[2]}

\* Every corpus in which two rows are near or far.
NearFar == {Symmetric(pair) : pair \in [Pairs -> 1 .. 2]}

\* Nested delete sets; the second one has the entry point of every draw.
Nested == {{0}, {0, 1}}

\* Rows 0 and 1 move: near to all rows, or near to the last alone.  One of
\* them is the entry point.
Moves == {[ids |-> {0, 1}, sc |-> Symmetric([p \in Pairs |-> 1])],
          [ids |-> {0, 1},
           sc |-> Symmetric([p \in Pairs |-> IF p[2] = N - 1 THEN 2 ELSE 1])],
          [ids |-> {1}, sc |-> Symmetric([p \in Pairs |-> 2])]}

LastRow == {{N - 1}}
NoMoves == {}
NoMasks == {}

AllRows == {Node}
SomeRows == {Node, {r \in Node : r % 2 = 1}}

\* Row 1 is above layer 0 / none is / all but row 0 are.
LevelsMixed == [r \in Node |-> IF r = 1 THEN 1 ELSE 0]
LevelsFlat == [r \in Node |-> 0]
LevelsHigh == [r \in Node |-> IF r = 0 THEN 0 ELSE 1]

Flat == {LevelsFlat}
Mixed == {LevelsMixed}
Both == {LevelsMixed, LevelsHigh}
=============================================================================
