------------------------------ MODULE Pgvector ------------------------------
(***************************************************************************)
(* The client of src/tools/db/pgvector.py.  ANALYZE and the B-tree on      *)
(* views only steer the planner and are left out.                          *)
(***************************************************************************)
EXTENDS DbBase

MakeClient == [index |-> Nil, strong |-> FALSE]

Connect == << Do("connect", Nil) >>

Reset == << Do("drop_if", Nil), Do("attach", Nil) >>

Load(S) == << Do("create", Nil) >> \o PutAll(S, 0)

BuildIndex(index) ==
    IF index = "flat" THEN << Do("attach", Nil) >>
                      ELSE << Do("index", Nil), Do("attach", index) >>

Attach(index) == [MakeClient EXCEPT !.index = IF index = "flat" THEN Nil
                                                                ELSE index]

Insert(S) == Do("put", Old(S))

FinishInserts == << >>

\* Mutant: autovacuum stays on.
AutovacuumKept == << >>

AutovacuumOff == << Do("auto", "off") >>

\* All chunks in one transaction.
Delete(S) == AutovacuumOff \o << Do("delete", S) >>

Update(S) == AutovacuumOff \o << Do("put", New(S)) >>

Compact(index) ==
    << Do("vacuum", Nil) >>
        \o (IF index = "flat" THEN << >> ELSE << Do("reindex", Nil) >>)
        \o << Do("auto", "on") >>

Search(d, client) ==
    Seen(d.live, d.held, {}, IF d.index THEN "index" ELSE "scan", d.gen)

Drop == << Do("drop_if", Nil) >>

Reopen(index) == << Do("attach", index) >>

Stats(d) == Cardinality(d.live)
=============================================================================
