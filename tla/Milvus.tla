------------------------------- MODULE Milvus -------------------------------
(***************************************************************************)
(* The client of src/tools/db/milvus.py.                                   *)
(***************************************************************************)
EXTENDS DbBase

CONSTANT Rounds   \* 20: rounds of compaction before compact gives up

MakeClient == [index |-> Nil, strong |-> FALSE]

Connect == << Do("connect", Nil) >>

Reset == << Do("drop_if", Nil), Do("attach", Nil) >>

Create == << Do("create", Nil) >>

Flush == << Do("flush", Nil) >>

Load(S) == Create \o PutAll(S, 0) \o Flush

BuildIndex(index) ==
    << Do("index", Nil), Do("wait_indexed", Nil), Do("load", Nil),
       Do("attach", index) >>

Attach(index) == [MakeClient EXCEPT !.index = index]

Insert(S) == Do("put", Old(S))

FinishInserts == Flush \o << Do("strong", Nil) >>

\* Mutant: the collection keeps its Bounded consistency.
PrepareBounded == << Do("auto", "off") >>

PrepareChange == << Do("auto", "off"), Do("strong", Nil) >>

WaitIndexed == << Do("wait_indexed", Nil) >>

Delete(S) == PrepareChange \o DeleteAll(S) \o Flush

Update(S) == PrepareChange \o PutAll(S, 1) \o Flush \o WaitIndexed

\* A round is the L0 job and the mix job.
Compact ==
    << Do("compact_job", Rounds) >> \o WaitIndexed
        \o << Do("wait_handed", Nil) >>

Search(d, client) ==
    Seen(IF client.strong THEN d.live ELSE d.seen, d.held,
         IF d.index THEN d.raw ELSE {},
         IF client.index = Nil THEN "default" ELSE How(client.index), d.gen)

Stats(d) == Cardinality(d.disk)

FlushAll == Flush

Drop == << Do("drop_if", Nil) >>

Reopen(index) ==
    << Do("connect", Nil), Do("load", Nil), Do("attach", index) >>
=============================================================================
