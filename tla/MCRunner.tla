------------------------------ MODULE MCRunner ------------------------------
(***************************************************************************)
(* Three rows; a batch is one row.                                         *)
(***************************************************************************)
EXTENDS Runner

Row3 == 0 .. 2
Gone2 == {0, 1}
Renewed2 == {1, 2}
Later2 == {1, 2}
Queries2 == 0 .. 1
Worker2 == 0 .. 1
P50s == 1 .. 2
=============================================================================
