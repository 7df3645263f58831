------------------------------- MODULE Qdrant -------------------------------
(***************************************************************************)
(* The client of src/tools/db/qdrant.py.  The sleeps of _wait_green and    *)
(* compact are taken to be long enough for the optimizer to have seen a    *)
(* change of the configuration, so that green means it has nothing to do.  *)
(***************************************************************************)
EXTENDS DbBase

MakeClient == [index |-> "flat", strong |-> FALSE]

Connect == << Do("connect", Nil) >>

Reset == << Do("drop_if", Nil) >>

\* Green, and every vector indexed where the client's index is HNSW.
WaitGreen(index) == << Do("wait_green", index = "hnsw") >>

\* indexing_threshold = 0: the upserts do no index work.
Load(S) == << Do("create", Nil) >> \o PutAll(S, 0) \o WaitGreen(Nil)

\* Mutant: the configuration is not updated before the wait for green.
BuildUnasked(index) == << Do("attach", index) >> \o WaitGreen(index)

BuildIndex(index) ==
    << Do("attach", index) >>
        \o (IF index = "flat" THEN << >> ELSE << Do("index", Nil) >>)
        \o WaitGreen(index)

Attach(index) == [MakeClient EXCEPT !.index = index]

Insert(S) == Do("put", Old(S))

FinishInserts == << >>

VacuumOff == << Do("auto", "off") >>

Delete(S) == VacuumOff \o DeleteAll(S)

Update(S, index) ==
    VacuumOff \o PutAll(S, 1) \o WaitGreen(index)

Compact(index) == << Do("auto", "low") >> \o WaitGreen(index)

Backup == << Do("dump", Nil) >>

Drop == << Do("drop", Nil) >>

Restore(index) == << Do("restore", Nil) >> \o WaitGreen(index)

Reopen(index) == << Do("attach", index) >>

Search(d, client) ==
    Seen(d.live, d.held, IF client.index = "hnsw" THEN d.raw ELSE {},
         How(client.index), d.gen)

Stats(d) == Cardinality(d.live)
=============================================================================
