------------------------------ MODULE RowStore ------------------------------
(* What a row index promises, whatever its structure: it holds vectors under *)
(* row IDs, a delete takes rows out for good, an update replaces vectors, a  *)
(* compaction changes nothing, and a file brings back what was saved.        *)

CONSTANTS
    Row,       \* the row IDs
    Corpus,    \* the vector of each row
    Updates,   \* the updates: functions from rows to vectors
    Nil        \* no index, no file

VARIABLES
    store,     \* vectors by row ID, for the rows that are left; or Nil
    saved      \* what a loaded index will hold; or Nil

vars == <<store, saved>>

Kept(f, S) == [r \in DOMAIN f \ S |-> f[r]]

Replaced(f, u) == [r \in DOMAIN f |-> IF r \in DOMAIN u THEN u[r] ELSE f[r]]

Init == store = Nil /\ saved = Nil

Build == store = Nil /\ store' = Corpus /\ UNCHANGED saved

Load == store = Nil /\ saved # Nil /\ store' = saved /\ UNCHANGED saved

Exit == store # Nil /\ store' = Nil /\ UNCHANGED saved

Delete ==
    /\ store # Nil
    /\ \E S \in SUBSET Row : store' = Kept(store, S)
    /\ UNCHANGED saved

Update ==
    /\ store # Nil
    /\ \E u \in Updates : store' = Replaced(store, u)
    /\ UNCHANGED saved

\* A save begins with an empty file, so it may lose the file it replaces.
BeginSave == store # Nil /\ saved' = Nil /\ UNCHANGED store

EndSave == store # Nil /\ saved = Nil /\ saved' = store /\ UNCHANGED store

Next == Build \/ Load \/ Exit \/ Delete \/ Update \/ BeginSave \/ EndSave

Spec == Init /\ [][Next]_vars
=============================================================================
