------------------------------ MODULE DbBench ------------------------------
(***************************************************************************)
(* The three programs that measure a database: tools/db/bench.py,          *)
(* tools/load/bench.py and tools/backup/bench.py with the host step of     *)
(* scripts/backup_db.sh.  A program is the sequence of the calls it makes; *)
(* the main thread takes their steps one by one, and a load run adds       *)
(* threads of its own.  Warm-up searches leave no trace and are left out.  *)
(***************************************************************************)
EXTENDS DbServer

CONSTANTS
    Gone,         \* the rows of the delete set
    Renewed,      \* the rows of the update set
    Later,        \* the rows a load run inserts: the last tenth
    Queries,      \* the queries, small numbers
    Worker,       \* the threads of a load run, 0 .. C - 1
    Rounds        \* of the compaction of Milvus

ASSUME BenchAssumption ==
    /\ Row \subseteq Nat /\ IsFiniteSet(Row)
    /\ Gone \cup Renewed \cup Later \subseteq Row
    /\ 0 \in Worker
    /\ Cardinality(Queries) \in Nat /\ Queries = 0 .. Cardinality(Queries) - 1
    /\ Nil \notin {"flat", "hnsw"}
    /\ Rounds \in Nat \ {0}

VARIABLES
    todo,         \* the steps left of the main thread
    client,       \* its client: index, and whether consistency is "Strong"
    doc,          \* the result so far
    load,         \* the threads of a load run, NoLoop outside
    stage1        \* <out>.stage1.json

bench == <<todo, client, doc, load, stage1>>

Pg == INSTANCE Pgvector
Qd == INSTANCE Qdrant
Mv == INSTANCE Milvus

-----------------------------------------------------------------------------
(* get_client: the calls of the client of this database.                   *)

Of(pg, qd, mv) ==
    CASE kind = "pgvector" -> pg
      [] kind = "qdrant"   -> qd
      [] kind = "milvus"   -> mv

MakeClient == Of(Pg!MakeClient, Qd!MakeClient, Mv!MakeClient)
Connect == Of(Pg!Connect, Qd!Connect, Mv!Connect)
Reset == Of(Pg!Reset, Qd!Reset, Mv!Reset)
Load(S) == Of(Pg!Load(S), Qd!Load(S), Mv!Load(S))
BuildIndex(index) ==
    Of(Pg!BuildIndex(index), Qd!BuildIndex(index), Mv!BuildIndex(index))
Attach(index) == Of(Pg!Attach(index), Qd!Attach(index), Mv!Attach(index))
Insert(S) == Of(Pg!Insert(S), Qd!Insert(S), Mv!Insert(S))
FinishInserts ==
    Of(Pg!FinishInserts, Qd!FinishInserts, Mv!FinishInserts)
Delete(S) == Of(Pg!Delete(S), Qd!Delete(S), Mv!Delete(S))
Update(S, index) ==
    Of(Pg!Update(S), Qd!Update(S, index), Mv!Update(S))
Compact(index) ==
    Of(Pg!Compact(index), Qd!Compact(index), Mv!Compact)
Search(d, c) == Of(Pg!Search(d, c), Qd!Search(d, c), Mv!Search(d, c))
Stats(d) == Of(Pg!Stats(d), Qd!Stats(d), Mv!Stats(d))
Drop == Of(Pg!Drop, Qd!Drop, Mv!Drop)
Reopen(index) == Of(Pg!Reopen(index), Qd!Reopen(index), Mv!Reopen(index))

-----------------------------------------------------------------------------
(* The programs.                                                           *)

NoDoc == [
    searches |-> {},      \* what the searches saw, by phase
    rows     |-> << >>,   \* rows_before, rows_after
    left     |-> 0,       \* stored_rows_after - live_rows of compact
    rebuild  |-> FALSE,   \* rebuild_needed
    first    |-> << >>,   \* the answers of worker 0's first pass
    inserted |-> 0, errors |-> 0]

\* run_search: the queries one after the other.
RunSearch(phase) ==
    [i \in 1 .. Cardinality(Queries) |-> Do("search", phase)]

ApplyChanges(c) ==
    (CASE c.change = "delete" -> Delete(Gone)
       [] c.change = "update" -> Update(Renewed, c.index)
       [] OTHER -> << >>)
        \o (IF c.compact THEN Compact(c.index) ELSE << >>)

RunBench(c) ==
    Connect \o Reset \o Load(Row) \o BuildIndex(c.index) \o ApplyChanges(c)
        \o RunSearch("timed")

RunLoad(c) ==
    Connect \o Reset \o Load(IF c.rate > 0 THEN Row \ Later ELSE Row)
        \o BuildIndex(c.index) \o << Do("loop", c), Do("join", c) >>
        \o (IF c.rate > 0 THEN FinishInserts \o RunSearch("after_inserts")
                          ELSE << >>)

StageBefore(c) ==
    Reset \o Load(Row) \o BuildIndex(c.index) \o << Do("stats", Nil) >>
        \o RunSearch("run1")
        \o (IF kind = "milvus" THEN Mv!FlushAll ELSE << >>)

StageAfter == << Do("stats", Nil) >> \o RunSearch("after_restore")

\* scripts/backup_db.sh between the two stages.
HostStep(c) ==
    (IF kind = "pgvector"
     THEN [i \in 1 .. 3 |-> Do(<<"dump", "drop", "restore">>[i], Nil)]
     ELSE [i \in 1 .. 7 |-> Do(<<"stop", "tar", "start", "stop", "wipe",
                                 "untar", "start">>[i], Nil)])
        \o << Do("host_json", kind = "pgvector" /\ c.index # "flat") >>

RunBackup(c) ==
    IF kind = "qdrant"
    THEN Connect \o StageBefore(c) \o Qd!Backup \o Drop \o Qd!Restore(c.index)
             \o Reopen(c.index) \o StageAfter
    ELSE Connect \o StageBefore(c) \o << Do("write_state", Nil) >>
             \o HostStep(c) \o Connect \o << Do("read_state", Nil) >>
             \o Reopen(c.index) \o StageAfter \o << Do("unlink_state", Nil) >>

-----------------------------------------------------------------------------
(* The main thread.                                                        *)

Next1 == todo' = Tail(todo)

Request(s) == Serve(s) /\ Next1 /\ UNCHANGED <<client, doc, load, stage1>>

\* A round of compaction does nothing before the L0 segment is registered;
\* the segments it writes have to be indexed.
CompactJob(s) ==
    LET dead == IF db.l0 THEN db.dead ELSE {}
    IN  /\ s.op = "compact_job" /\ up /\ db # Nil
        /\ db' = [db EXCEPT !.dead = dead,
                            !.raw = IF dead = db.dead THEN @ ELSE db.live]
        /\ UNCHANGED <<up, saved>>
        /\ todo' = IF dead = {} \/ s.arg = 1 THEN Tail(todo)
                   ELSE << Do(s.op, s.arg - 1) >> \o Tail(todo)
        /\ doc' = [doc EXCEPT !.left = Cardinality(dead)]
        /\ UNCHANGED <<client, load, stage1>>

\* Assignments to the client.
ToClient(s) ==
    /\ \/ /\ s.op = "connect" /\ up
          /\ client' = MakeClient
       \/ /\ s.op = "attach"
          /\ client' = [client EXCEPT !.index = s.arg]
       \/ /\ s.op = "strong"
          /\ client' = [client EXCEPT !.strong = TRUE]
    /\ Next1
    /\ UNCHANGED <<server, doc, load, stage1>>

Answer(phase, c) == [phase |-> phase, saw |-> Search(db, c)]

ToDoc(s) ==
    /\ up /\ db # Nil /\ db.loaded
    /\ \/ /\ s.op = "search"
          /\ doc' = [doc EXCEPT !.searches = @ \cup {Answer(s.arg, client)}]
       \/ /\ s.op = "stats"
          /\ doc' = [doc EXCEPT !.rows = Append(@, Stats(db))]
    /\ Next1
    /\ UNCHANGED <<server, client, load, stage1>>

\* A stage of a backup ends; what the next one knows is in the state file.
Stage(s) ==
    /\ \/ /\ s.op = "write_state"
          /\ stage1' = doc /\ doc' = NoDoc
       \/ /\ s.op = "read_state" /\ stage1 # Nil
          /\ doc' = [stage1 EXCEPT !.rebuild = doc.rebuild]
          /\ UNCHANGED stage1
       \/ /\ s.op = "unlink_state"
          /\ stage1' = Nil /\ UNCHANGED doc
       \/ /\ s.op = "host_json"
          /\ doc' = [doc EXCEPT !.rebuild = s.arg]
          /\ UNCHANGED stage1
    /\ Next1
    /\ UNCHANGED <<server, client, load>>

-----------------------------------------------------------------------------
(* The threads of a load run.                                              *)

NoLoop == << >>

Unasked == [phase |-> "unasked", saw |-> Seen({}, {}, {}, "none", 0)]

Start(s) ==
    /\ s.op = "loop" /\ load = NoLoop
    /\ load' = [first   |-> [q \in Queries |-> Unasked],
                done    |-> 0,            \* of worker 0
                stopped |-> {},           \* workers that left their loop
                late    |-> FALSE,        \* the deadline has passed
                todo    |-> IF s.arg.rate > 0 THEN Batches(Later) ELSE << >>,
                client  |-> Attach(s.arg.index)]
    /\ UNCHANGED <<server, todo, client, doc, stage1>>

Looping == load # NoLoop

Deadline ==
    /\ Looping /\ ~load.late
    /\ load' = [load EXCEPT !.late = TRUE]
    /\ UNCHANGED <<server, todo, client, doc, stage1>>

Failed == [phase |-> "failed", saw |-> Seen({}, {}, {}, "none", 0)]

\* Mutant: worker 0 stops like the others.
NoFirstPass(w) == FALSE

FirstPass(w) == w = 0 /\ load.done < Cardinality(Queries)

\* Only the answers of worker 0's first pass are kept; -1 for a failed one.
Query ==
    /\ Looping /\ 0 \notin load.stopped
    /\ FirstPass(0) \/ (~load.late /\ load.done < Cardinality(Queries))
    /\ \E a \in {Answer("loop", load.client), Failed} :
           load' = [load EXCEPT !.first[load.done] = a, !.done = @ + 1]
    /\ UNCHANGED <<server, todo, client, doc, stage1>>

WorkerEnds(w) ==
    /\ Looping /\ w \notin load.stopped
    /\ load.late /\ ~FirstPass(w)
    /\ load' = [load EXCEPT !.stopped = @ \cup {w}]
    /\ UNCHANGED <<server, todo, client, doc, stage1>>

Joined == load.stopped = Worker

\* One batch of the inserter.  A batch that fails is counted and not tried
\* again; the server may have taken it all the same.
InsertBatch ==
    /\ Looping /\ load.todo # << >>
    /\ load' = [load EXCEPT !.todo = Tail(@)]
    /\ \/ /\ Serve(Insert(Head(load.todo)))
          /\ doc' = [doc EXCEPT !.inserted = @ + 1]
       \/ /\ Serve(Insert(Head(load.todo)))
          /\ doc' = [doc EXCEPT !.errors = @ + 1]
       \/ /\ UNCHANGED server
          /\ doc' = [doc EXCEPT !.errors = @ + 1]
    /\ UNCHANGED <<todo, client, stage1>>

LoopEnds(s) ==
    /\ s.op = "loop" /\ Looping /\ Joined
    /\ doc' = [doc EXCEPT !.first = load.first]
    /\ load' = [load EXCEPT !.first = << >>]
    /\ Next1
    /\ UNCHANGED <<server, client, stage1>>

InserterDone == load.todo = << >>

JoinInserter(s) ==
    /\ s.op = "join" /\ InserterDone
    /\ load' = NoLoop
    /\ Next1
    /\ UNCHANGED <<server, client, doc, stage1>>

Main ==
    /\ todo # << >>
    /\ LET s == Head(todo)
       IN  \/ Request(s) \/ CompactJob(s) \/ ToClient(s) \/ ToDoc(s)
           \/ Stage(s) \/ Start(s) \/ LoopEnds(s) \/ JoinInserter(s)

Threads ==
    Deadline \/ Query \/ InsertBatch \/ \E w \in Worker : WorkerEnds(w)
=============================================================================
