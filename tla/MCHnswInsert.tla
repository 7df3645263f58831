---------------------------- MODULE MCHnswInsert ----------------------------
(* Small instances of HnswInsert: the levels of the rows. *)
EXTENDS HnswInsert

\* Row 0 is on layer 0; each other row may be the one that rises first.
LevelsRise == [v \in Node |-> IF v = 0 THEN 0 ELSE 1]

\* Three layers: row 2 rises above a top layer that the others share.
LevelsThree == [v \in Node |-> IF v = 2 THEN 2 ELSE 1]
=============================================================================
