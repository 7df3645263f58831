------------------------------- MODULE Runner -------------------------------
(***************************************************************************)
(* tools/bench/runner.py and what it runs: the programs of DbBench on one  *)
(* database, or the cache bench.  A session is a call of the runner (of    *)
(* scripts/backup_db.sh for the backups that need the host) for one case;  *)
(* the files it leaves and the state of the server outlive it.             *)
(***************************************************************************)
EXTENDS DbBench, EmbedCache

CONSTANTS
    Databases,    \* the values of kind in the instance
    Part,         \* a file that is written but not whole
    Repeat,       \* --repeat: runs of a case of the default mode
    P50,          \* what the median latency of a run can be
    MaxSessions   \* bound of the model

ASSUME RunnerAssumption ==
    /\ Databases \subseteq {"pgvector", "qdrant", "milvus", "cache"}
    /\ Repeat \in Nat \ {0} /\ P50 \subseteq Nat /\ P50 # {}
    /\ MaxSessions \in Nat

VARIABLES
    case,         \* the case of the sessions
    run,          \* the session: the runs it has, and where it is
    result,       \* <out>, the file of the case in results/raw
    tmp,          \* <out>.run<i>.json, by run
    sessions      \* sessions begun

runner == <<run, result, tmp, sessions>>
vars == <<kind, case, server, bench, cacheVars, runner>>

-----------------------------------------------------------------------------
(* The cases.                                                              *)

Indexes == {"flat", "hnsw"}

DbCase(prog, index, change, compact, rate) ==
    [prog |-> prog, index |-> index, change |-> change, compact |-> compact,
     rate |-> rate]

Cases == {DbCase("bench", i, "none", FALSE, 0) : i \in Indexes}

ChangeCases ==
    {DbCase("bench", i, "delete", c, 0) : i \in Indexes, c \in BOOLEAN}
        \cup {DbCase("bench", i, "update", FALSE, 0) : i \in Indexes}

LoadCases ==
    {DbCase("load", i, "none", FALSE, r) : i \in Indexes, r \in 0 .. 1}

BackupCases == {DbCase("backup", i, "none", FALSE, 0) : i \in Indexes}

CacheCase(b, invalidate) ==
    [prog |-> "cache", backend |-> b, invalidate |-> invalidate]

CacheCases ==
    {CacheCase(b, FALSE) : b \in {"none", "lru", "redis"}}
        \cup {CacheCase("lru", TRUE)}

Todo == IF kind = "cache"
        THEN CacheCases
        ELSE Cases \cup ChangeCases \cup LoadCases \cup BackupCases

\* The backups that scripts/backup_db.sh makes, program by program.
Direct == case.prog = "backup" /\ kind # "qdrant"

\* Only the default mode repeats a case.
Repeats == IF case \in Cases THEN Repeat ELSE 1

RunCache(c) ==
    << Do("make", c) >> \o [i \in 1 .. Requests |-> Do("request", c)]

Program(c) ==
    CASE c.prog = "bench"  -> RunBench(c)
      [] c.prog = "load"   -> RunLoad(c)
      [] c.prog = "backup" -> RunBackup(c)
      [] c.prog = "cache"  -> RunCache(c)

-----------------------------------------------------------------------------
(* The session.                                                            *)

Init ==
    /\ kind \in Databases /\ case \in Todo
    /\ up = TRUE /\ db = Nil /\ saved = Nil
    /\ todo = << >> /\ client = Nil /\ doc = NoDoc /\ load = NoLoop
    /\ stage1 = Nil
    /\ CacheInit
    /\ run = Nil /\ result = Nil /\ sessions = 0
    /\ tmp = [i \in 0 .. Repeat - 1 |-> Nil]

\* A process with these steps to take.
Process(steps) ==
    /\ todo' = steps /\ doc' = NoDoc /\ client' = Nil /\ load' = NoLoop

\* A call that runs the case: it has no file yet, or --force is given.
\* Bound of the model: the load cases have one session.
Begin ==
    /\ run = Nil /\ up
    /\ sessions < IF case \in LoadCases THEN 1 ELSE MaxSessions
    /\ run' = [runs |-> << >>, at |-> "process"]
    /\ sessions' = sessions + 1
    /\ Process(Program(case))
    /\ UNCHANGED <<kind, case, server, stage1, cacheVars, result, tmp>>

At(place) == run # Nil /\ run.at = place

Tmp == tmp[Len(run.runs)]

\* Sorted; runs of the same latency stay in their order.
ByLatency(runs) ==
    LET Before(i) == {j \in DOMAIN runs :
                        \/ runs[j].p50 < runs[i].p50
                        \/ runs[j].p50 = runs[i].p50 /\ j < i}
    IN  [k \in DOMAIN runs |->
            runs[CHOOSE i \in DOMAIN runs : Cardinality(Before(i)) = k - 1]]

\* runs[len(runs) // 2] of the sorted runs.
Median(runs) == ByLatency(runs)[Len(runs) \div 2 + 1]

\* A result: the run that is kept, and p50_ms_runs.
Result(runs) ==
    [run |-> Median(runs),
     of  |-> [i \in DOMAIN runs |-> [p50 |-> runs[i].p50, by |-> runs[i].by]]]

\* What the process writes to --out.
Writes(body) ==
    IF Direct
    THEN /\ result' = (IF body = Part THEN Part ELSE Result(<<body>>))
         /\ UNCHANGED tmp
    ELSE /\ tmp' = [tmp EXCEPT ![Len(run.runs)] = body]
         /\ UNCHANGED result

\* out.write_text(json.dumps(result)): the file is there before its text.
OpenOut ==
    /\ At("process") /\ todo = << >>
    /\ Writes(Part)
    /\ run' = [run EXCEPT !.at = "writing"]
    /\ UNCHANGED <<kind, case, server, bench, cacheVars, sessions>>

Body(p50) == [doc |-> doc, p50 |-> p50, by |-> sessions]

FillOut ==
    /\ At("writing")
    /\ \E p50 \in IF Repeats > 1 THEN P50 ELSE {0} : Writes(Body(p50))
    /\ run' = [run EXCEPT !.at = "exited"]
    /\ UNCHANGED <<kind, case, server, bench, cacheVars, sessions>>

EndSession ==
    /\ At("exited") /\ Direct
    /\ run' = Nil
    /\ Process(<< >>)
    /\ UNCHANGED <<kind, case, server, stage1, cacheVars, result, tmp,
                   sessions>>

\* Exit code 0: the runner takes the document and unlinks the file.
Collect ==
    /\ At("exited") /\ ~Direct
    /\ LET runs == Append(run.runs, Tmp)
           more == Len(runs) < Repeats
       IN  /\ run' = [runs |-> runs,
                      at |-> IF more THEN "process" ELSE "merge"]
           /\ Process(IF more THEN Program(case) ELSE << >>)
    /\ tmp' = [tmp EXCEPT ![Len(run.runs)] = Nil]
    /\ UNCHANGED <<kind, case, server, stage1, cacheVars, result, sessions>>

OpenResult ==
    /\ At("merge")
    /\ result' = Part
    /\ run' = [run EXCEPT !.at = "merging"]
    /\ UNCHANGED <<kind, case, server, bench, cacheVars, tmp, sessions>>

FillResult ==
    /\ At("merging")
    /\ result' = Result(run.runs)
    /\ run' = Nil
    /\ UNCHANGED <<kind, case, server, bench, cacheVars, tmp, sessions>>

-----------------------------------------------------------------------------
(* The steps of the process that runs.                                     *)

DbStep ==
    /\ At("process") /\ kind # "cache"
    /\ Main \/ Threads
    /\ UNCHANGED <<kind, case, cacheVars, runner>>

CacheStep ==
    /\ At("process") /\ kind = "cache" /\ todo # << >>
    /\ LET s == Head(todo)
       IN  \/ s.op = "make" /\ Make
           \/ /\ s.op = "request"
              /\ \E t \in Text : Request1(s.arg.backend,
                     Key(t, VersionAt(Requests - Len(todo), s.arg.invalidate)))
    /\ todo' = Tail(todo)
    /\ UNCHANGED <<kind, case, server, client, doc, load, stage1, runner>>

ServerStep ==
    /\ kind # "cache"
    /\ Background \/ (run = Nil /\ BringUp)
    /\ UNCHANGED <<kind, case, bench, cacheVars, runner>>

RedisStep ==
    /\ At("process") /\ kind = "cache"
    /\ Contains(todo, Do("request", case)) /\ case.backend = "redis"
    /\ RedisEvicts
    /\ UNCHANGED <<kind, case, server, bench, runner>>

-----------------------------------------------------------------------------
(* Failures.                                                               *)

\* Mutant: the script goes on to the host step.
GoesOn ==
    LET i == SelectInSeq(todo, LAMBDA s : s.op = "write_state")
    IN  IF i > 0 /\ Direct THEN SubSeq(todo, i + 1, Len(todo)) ELSE << >>

\* backup_db.sh: || { status=1; continue; }, and set -e in the host step.
AfterFailure == << >>

\* Mutant: the exit code of the command is not looked at.
CodeIgnored ==
    IF Tmp \notin {Nil, Part} THEN [run EXCEPT !.at = "exited"] ELSE Nil

\* run_case returns at the first run that does not exit with 0.
CodeNotZero == Nil

\* The process raises or is out of time: exit code not 0.
ProcessFails ==
    /\ At("process") \/ At("writing")
    /\ run' = IF AfterFailure = << >> THEN CodeNotZero ELSE run
    /\ Process(AfterFailure)
    /\ UNCHANGED <<kind, case, server, stage1, cacheVars, result, tmp,
                   sessions>>

\* The session is killed at any step.
Kill ==
    /\ run # Nil
    /\ run' = Nil
    /\ Process(<< >>)
    /\ UNCHANGED <<kind, case, server, stage1, cacheVars, result, tmp,
                   sessions>>

RunnerStep ==
    \/ Begin \/ OpenOut \/ FillOut \/ EndSession \/ Collect
    \/ OpenResult \/ FillResult

SessionStep == RunnerStep \/ DbStep \/ CacheStep

Next == SessionStep \/ ServerStep \/ RedisStep \/ ProcessFails \/ Kill

\* The processes of a session run on, and so does the server; nothing has to
\* fail, and Redis need not evict.
Fairness == WF_vars(SessionStep) /\ WF_vars(ServerStep)

Spec == Init /\ [][Next]_vars /\ Fairness
-----------------------------------------------------------------------------
(* Properties.                                                             *)

Whole(prog) == result \notin {Nil, Part} /\ case.prog = prog

Doc == result.run.doc

Saw(phase) == {s.saw : s \in {t \in Doc.searches : t.phase = phase}}

ChangedRows == CASE case.change = "delete" -> Gone
                    [] case.change = "update" -> Renewed
                    [] OTHER -> {}

LiveAfter ==
    Old(Row \ ChangedRows)
        \cup (IF case.change = "update" THEN New(Renewed) ELSE {})

\* A result that is there says what it claims to say (tools/db/bench.py): the
\* searches it timed ran, by the index it names, on exactly the rows that the
\* changes left, and the index had all of them, whatever the server had yet to
\* do when the client asked for the change.
SearchesCurrent ==
    Whole("bench") =>
        \A s \in Saw("timed") :
            s.rows = LiveAfter /\ s.by = How(case.index)
                /\ (case.index # "flat" => s.raw = {})

\* search_params.compacted: with 0 the searches walked over every version the
\* change left dead, none of them cleaned away behind the bench; with 1 over
\* none, or the result says that the compaction left some (Milvus gives up
\* after its rounds and reports stored_rows_after).
Tombstones ==
    Whole("bench") =>
        \A s \in Saw("timed") :
            IF case.compact THEN s.dead = {} \/ Doc.left > 0
                         ELSE s.dead = Old(ChangedRows)

\* A load run (tools/load/bench.py): worker 0 asked every query once and
\* kept the answer or the failure; an answer came from no less than the rows
\* of the build and by the index; the inserter went on to the last batch; and
\* the pass after the inserts saw every row that is counted as inserted, and
\* no more than those and the failed batches.
LoadCounts ==
    Whole("load") =>
        LET d == Doc
            late == IF case.rate > 0 THEN Later ELSE {}
        IN  /\ \A q \in Queries :
                   /\ d.first[q] # Unasked
                   /\ d.first[q] # Failed =>
                          /\ Old(Row \ late) \subseteq d.first[q].saw.rows
                          /\ d.first[q].saw.by = How(case.index)
            /\ d.inserted + d.errors = Cardinality(late)
            /\ \A s \in Saw("after_inserts") :
                   Cardinality(s.rows) - Cardinality(Row \ late)
                       \in d.inserted .. d.inserted + d.errors

\* A backup (tools/backup/bench.py, scripts/backup_db.sh): both runs of a
\* result saw every row of the data set, also when an earlier session of the
\* case was killed between its stages, and where no index was built again they
\* saw the same index.
RestoreHolds ==
    Whole("backup") =>
        /\ Doc.rows = << Cardinality(Row), Cardinality(Row) >>
        /\ \A s \in Saw("run1") \cup Saw("after_restore") :
               s.rows = Old(Row) /\ s.by = How(case.index)
        /\ ~Doc.rebuild => Saw("run1") = Saw("after_restore")

\* run_case: a result is the median of all the runs of one session; a file
\* that an earlier session left under a run's name is never taken for it.
MedianKept ==
    result \notin {Nil, Part} =>
        LET of  == result.of
            p50 == result.run.p50
        IN  /\ Len(of) = Repeats
            /\ \A i \in DOMAIN of : of[i].by = result.run.by
            /\ 2 * Cardinality({i \in DOMAIN of : of[i].p50 < p50}) <= Len(of)
            /\ 2 * Cardinality({i \in DOMAIN of : of[i].p50 > p50}) < Len(of)

\* What came into the cache of this backend is there or was counted out.
Cached(backend, entries) ==
    /\ case.backend = backend
    /\ entries + counts.evictions = counts.misses

\* cache.py under the replay of cache/bench.py: the LRU holds exactly the keys
\* asked last, as many as it has room for, and Redis only keys asked in this
\* replay.  So no answer outlives a change of the model version, and none
\* comes from an earlier process.
CacheHolds ==
    kind = "cache" /\ run # Nil /\ ~Contains(todo, Do("make", case)) =>
        LET n == IF Len(asked) < Capacity THEN Len(asked) ELSE Capacity
        IN  \/ case.backend = "none" /\ counts.hits = 0
            \/ /\ Cached("lru", Len(lru))
               /\ lru = Reverse(SubSeq(asked, 1, n))
            \/ /\ Cached("redis", Cardinality(redis))
               /\ redis \subseteq ToSet(asked)

\* No wait of the clients is for ever: if nothing fails, the session ends,
\* because the server comes round to what the client waits for.
SessionEnds == run # Nil ~> run = Nil
=============================================================================
