# A verification project for vector-retrieval-optimization

The repository compares six vector indexes (flat, IVF, PQ, IVF-PQ, HNSW,
DiskANN), each written from one contract in Go, Rust, C++ and Python, with three
databases (pgvector, Qdrant, Milvus) and an embedding cache, and measures them
with bench programs, a runner and a few shell scripts. This directory holds
TLA+ modules translated from that code, the TLC runs that check them on small
instances, and theorems checked by TLAPS.

`PROJECT.json` is the index: components, runs, the source lines of every
definition (`map`), the mutants each property catches, the hazards the
properties are for, and the disagreements between code and text that came up.

    tlc -workers 2 -config MCHnswBuild.cfg MCHnswInsert     # a run
    tlapm HnswInsertProofs.tla           # the proofs, by module *Proofs.tla

The same contract is written four times. The Python version is the one that is
modelled, since it has every index and every operation; the Go version is
modelled where it does what Python cannot, which is to insert from several
threads at once.

## 1. The system

### Components, state and operations

| Component | Code | State it keeps | Operations |
|---|---|---|---|
| HNSW | `indexes/python/hnsw.py` and the other languages | lists per node and layer, entry point and top layer, levels, tombstones, the map from nodes to rows; frozen arrays of slots and counts while rows go in | build, insert, search, delete, update, compact (repair, rebuild), save, load |
| HNSW, parallel | `indexes/go/hnsw/hnsw.go` | the same as slot arrays with atomic counts, a lock per node and one for the entry point | parallel build, Insert, lock-free Search |
| DiskANN | `indexes/python/diskann.py` | out-lists with one extra slot, the file of records, open readers, the page cache | build in two passes, search in two I/O modes |
| Flat, IVF | `flat.py`, `ivf.py` | rows, position-to-row map, lists, tombstones, filter caches | build, search, delete, update, compact, save, load |
| PQ, IVF-PQ | `pq.py`, `ivf_pq.py` | codebooks, codes, in row or in list order | build, search, rerank |
| k-means | `kmeans.py` | centers, labels, counts | assignment, refill of empty clusters, means |
| Index file | `vro.py` | the file | written in place, read, refused |
| Bench program | `indexes/python/bench.py` | the phases of one process | build or load, change, compact, save, search; the load run |
| Database clients | `tools/db` | the index and consistency they search with | about fifteen calls per database |
| Database programs | `tools/db/bench.py`, `tools/load/bench.py`, `tools/backup/bench.py`, `scripts/backup_db.sh` | a result document, worker and inserter threads, a state file between stages | load, index, change, search; inserts during searches; dump, drop, restore |
| Embedding cache | `tools/cache` | entries in order of use, counts, the model version | get, put, invalidation |
| Runner | `tools/bench/runner.py` | result files, temporary ones, the runs of a case | plan, skip, run, repeat, keep the median |
| Job lock | `scripts/run.sh`, `preflight.sh` | the lock directory with owner and pid, the wrapper process | start, refuse, stop, release |
| Workload, reports, data preparation, status page | `tools/cache`, `tools/bench`, `tools/data`, `scripts/status.sh` | none, or files written once | one-shot computations |

### Interactions

- `run.sh` takes the timing lock, starts a detached wrapper, and the wrapper
  starts the runner and the bench processes, one at a time.
- The runner starts a bench program per run of a case, reads the document it
  writes, and merges the runs into the result of the case.
- A bench process builds or loads one index, applies one change and perhaps a
  compaction, searches, and may save the index for another process to load.
- In a load run, clients search while an inserter adds rows to the same index:
  threads of one Python process, goroutines, or connections of one database.
- The database programs call their client; the client sends requests; the
  server does part of what they ask for later, in its own time.
- The cache stands before the embedding; its keys hold the model version.

### What is hard

- Inserts and lock-free queries on one graph: lists rewritten slot by slot,
  counts stored last, rows that can be reached before their lists are written,
  an entry point that moves.
- Keeping a graph connected through bounded lists, a heuristic that drops
  edges, deletes, updates and compaction, for any vectors.
- IDs: nodes, corpus rows, positions, and which of them a list, a cache, a file
  or an answer holds after a change.
- Files that outlive a process, and what the next process accepts.
- Servers that work in the background: a measurement must see the state that
  its result claims.
- Runs that fail or are killed between any two steps, and what they leave.
- A lock made of a directory and two files, with processes that may be killed.

The hazards, each at its line, are in `PROJECT.json`.

### What makes each component correct

- *HNSW while it is built and served*: no edge is lost between two writers; a
  query reads lists that exist, is not caught in a dead end, and is short only
  for a reason; a frozen insert gives the graph of a build; every query returns
  and every row gets in.
- *HNSW and its changes*: layer 0 leads from the entry point to every row that
  is not cut out; cut-out rows stay out; a query answers in full, without
  deleted rows; a loaded index answers like the one that wrote the file.
- *DiskANN*: the file holds the graph that was built; the walk is the loop of
  the paper; answers are full; an uncached search is uncached.
- *Flat, IVF*: an index answers for exactly the rows a plain store would hold.
  *PQ, IVF-PQ*: an answer is the best by the decoded vectors.
- *k-means*: no cluster is empty; the refill takes the worst fit; no iteration
  makes the fit worse.
- *Databases, runner*: a result that is there is right about the rows, the
  index, the dead versions and the counts it names, and comes from runs of one
  session; a session in which nothing fails ends.
- *Cache*: the entries are the ones used last, never of an old model version.
- *Job lock*: one timing job at a time; a dead owner stops nobody; a live owner
  is never robbed; `--stop` stops.

## 2. The modules

| Module | Models | Made of |
|---|---|---|
| `HnswInsert` | the parallel build, insert and search of Go HNSW | one action per step between two loads or stores that others can see |
| `HnswInsertProofs` | theorems about `HnswInsert`: types, locks, entry point, edges, where queries come to and what they find | extends it and TLAPS |
| `HnswGraph` | the graph algorithms of `hnsw.py` as operators: search-layer, heuristic, linking | no state |
| `HnswChanges`, `HnswChangesProofs` | the life of one index over the processes of the bench; its theorems | the first extends `HnswGraph`, the second the first and TLAPS |
| `HnswLoad`, `HnswLoadProofs` | a load run: searches without locks against an inserter; its theorems | the first extends `HnswGraph`, the second the first and TLAPS |
| `DiskAnn`, `DiskAnnProofs` | build, file and search of `diskann.py`; its theorems | the second extends the first and TLAPS |
| `RowStore` | abstract: vectors under row IDs, and what a file will bring back | stands alone |
| `RowIndex` | what the row indexes share: tombstones, filters, the best k, the file | no Next of its own |
| `FlatIndex`, `IvfIndex`, `PqIndex` | the operations of flat, IVF, and the two with codes | extend `RowIndex` (`PqIndex` extends `IvfIndex`) |
| `Stores` | processes of the bench with any of the four | extends them, and implements `RowStore` |
| `StoresProofs` | the proofs that it does, and that searches answer by the definition | extends `Stores` and TLAPS |
| `KMeans`, `KMeansProofs` | the training; its theorems | the second extends the first and TLAPS |
| `RunLock`, `RunLockProofs` | `run.sh`, its wrapper, `--stop`, another project; theorems | the second extends the first and TLAPS |
| `DbBase` | what the clients share: steps, batches, what a search shows | no state |
| `Pgvector`, `Qdrant`, `Milvus` | the calls of each client, as sequences of steps | extend `DbBase` |
| `DbServer` | the server: requests, and what it does in its own time (external) | extends `DbBase` |
| `DbBench` | the three database programs and the host step of a backup | extends `DbServer`, instantiates the clients |
| `EmbedCache` | the cache backends and the replay | stands alone |
| `Runner`, `RunnerProofs` | sessions of the runner over all of these; theorems | extends `DbBench` and `EmbedCache`; the second extends the first and TLAPS |
| `MC...` | the corpora, levels, masks, batches and start graphs of the runs | extend the module they instantiate |

### HnswInsert

Source: `src/indexes/go/hnsw/hnsw.go`.

| TLA+ | Code |
|---|---|
| `slots[v][l]`, `cnt[v][l]` | the slot arrays `l0`, `upper` and the counts, read and written with atomic loads and stores |
| `entry`, `top` | the packed word `epTop` |
| `lock[v]`, `epLock` | `locks[v]`, `epMu` in write mode |
| `next`, `Claim` | the chunk counter of the parallel loop |
| `count`, `Publish` | `count`, read by `Len` |
| `w[p]` | the local variables of `insert`, `connect` on thread p |
| `q[s]` | the local variables of `Search`, `greedy`, the layer-0 walk on thread s |

An inserting thread: `ReadEntry` (entry point under the read lock), `TakeEpLock`
(its row is above the top), `Greedy` and `Expand` (walks; a list is read under
its lock, so in one step), `SelectLayer`, then from layer 0 up `WriteOwn` (its
own list), `Connect` (back edge: lock the neighbor, append or begin to shrink),
`StoreSlot`, `StoreCount` (the rewrite, one word per step) and `EndLayer`. A
query does `LoadCount`, then `LoadSlot` for each slot, `EndList`, `Return`.

Abstraction of scores: wherever the code compares two scores, every outcome is
allowed that some scores can produce, and the structure around it is kept (a
node is scored once per walk; a result list below its limit takes every scored
node; a selection is not empty, starts with its best item and has no item
twice). A property that holds here holds for any vectors and any metric.
`Repair` is the repair pass seen from this module: it runs alone, between build
and serving, and appends an edge; `HnswChanges` has a real one.

### HnswGraph and HnswChanges

Source: `hnsw.py`, and `bench.py` for what a process does.

A vector is known by its scores: `sc[a][b]` is the dot product of rows a and b.
Any symmetric table dominated by its diagonal is the table of some unit
vectors, so the runs enumerate tables: two rows are *near* or *far*. Equal
scores are the rule in such a table, so the tie-breaks by ID decide often.
Rows with equal vectors are left out. Lists are sequences in slot order, since
the walks and the shrink depend on the order.

| TLA+ | Code |
|---|---|
| `SearchLayer`, `Select`, `Linked`… | `search_layer`, `select`, `insert` |
| `stage`, `todo`, `pass`, `protected` | where `repair` stands: step A, step B, up to three passes, the kept edges |
| `StepA`, `StepB` | the work of the pass on one node |
| `Delete`; `Update`, `Reinsert`, `start` | `delete`; `_update_nodes`: all lists first, then row by row, from a temporary start when the entry point moves |
| `CompactRepair`, `Refilled`, `Ept`, `dead` | `compact` in place: `_refill`, the entry point, the nodes the pass leaves out |
| `CompactRebuild`, `idMap` | `compact` into a new index, and its `id_map` |
| `Content`, `Save`, `Load` | what `save` writes, everything by row; what `load` makes of it |
| `did` | what this process has done: the bench changes an index once |
| `told`, `gone`, `mine`, `cut` | history: the answers of the index that wrote the file; rows dropped; rows this process deleted; nodes cut out of the graph |

### HnswLoad

Source: `insert_frozen`, `search_layer`, `greedy`, `freeze` and `insert` of
`hnsw.py`; `measure` of `bench.py`. A step is what the GIL keeps whole: reading
a count, copying a slice of slots, one assignment to either. `slots` keeps what
a shrink leaves behind the new count. `ins` is the insertion that runs, `query`
the walk of each worker with the last slice it `read`; `grown` is the graph that
a build of the same rows would have, which the arrays are compared with.

`hnsw.py:51` says that a new row's own lists are complete before any edge to it
is added. `insert_frozen` (:226-242) goes down layer by layer and links each at
once, so a search can descend to a row whose layer-0 list is empty and return
that row alone. `ShortOnlyAtNewRow` is the exact form of what holds: an answer
is short only if its walk began on layer 0 at a row that was not in when the
search began. The batch of 100 rows is one row; the pass of `repair` at the end
of the run ends the model; only corpora are taken where the build has left the
repair pass nothing to do (`Whole`). A list that shrinks while it is read may
hold a row twice, and then the code scores it twice; so does the model.

### DiskAnn

`e`, `d` are the slots and counts of the build, R + 1 slots per row as in the
code. `InsertRow` is the walk of a row and its prune, `BackEdge` one edge back,
`NextPass`, `WriteFile` the file of records, which has no counts. `Greedy` and
`Select` are translated with their comparisons, their loops as functions of the
rounds done (`Expand`, `Selected` are one round; a row is expanded once, so N
rounds are enough); PQ scores of a query are any table. `Start` picks the
reader: `readers`, `lastIo` and `warm` are the open readers, the mode before and
the page cache. The model of the cache is that of Linux and of the code's own
comments: `evict` drops every page, an uncached read leaves none.

### RowStore, RowIndex, FlatIndex, IvfIndex, PqIndex, Stores

Source: `flat.py`, `ivf.py`, `pq.py`, `ivf_pq.py`, `distance.py`,
`filters.py`, `changes.py`, `vro.py`.

| TLA+ | Code |
|---|---|
| `vectors`, `deleted`, `idMap`, `nOrig` | the entries of the index dict; `Nil` is an entry that is not there |
| `filtered`, `filteredRows`, `FlatSearch`, `Pop` | the two caches by filter name: what a search leaves in them and what clears them |
| `lists` | `list_ids` cut at `offsets` |
| `TopK` | `distance.top_k`: at or above the k-th best, ranked with lower IDs first |
| `Where`, `Concat`, `Put` | `ids[mask[ids]]`, `np.concatenate`, `cache[name] = value` |
| `FlatCompact`, `FlatFile`, `FlatLoad` | positions move down, `id_map` remembers the rows, a file has all rows again with tombstones |
| `IvfUpdate`, `SetLists`, `IvfCompact`, `IvfFile` | a row moves to the list of its new vector and stays out if it is in none |
| `file.whole`, `BeginWrite`, `EndWrite`, `Read` | a file a process may leave short, and what the next one refuses |
| `pq`, `Encode`, `Table`, `IvfPqAnswer` | codes per row, or of residuals in list order; one table per query, for l2 one per probed list |

`Contents` is the refinement mapping: position to corpus row for flat, the rows
in a list and without a tombstone for IVF. `Saved` is what the file would bring
back, worked out from the record as `load` reads it. The codebooks and the
centers are given, any that the instance lists; `KMeans` has the training.
Vectors have two dimensions with scores of both signs, and sub-vectors one.

### KMeans

Source: `kmeans.py`, in the mode of the PQ codebooks (squared distance, means
not normalized). `FixEmpty` is one step per cluster; `order` and `used` are the
points, worst fit first, and the cursor, which the code never compares with the
end. Points are integers and a center is kept times `Scale`, a multiple of all
counts, so that means are exact. `cost` is history.

### RunLock

Source: `src/scripts/run.sh`, `preflight.sh`. `lock` is the directory with its
files `owner` and `pid`; `run[r]` is the line the script stands at, `wrap[r]`
the detached wrapper; `term[r]` is a SIGTERM that bash has not delivered yet,
because the foreground subshell still runs. Each command that touches the lock
is a step. A SIGKILL of a wrapper takes its job with it. The environment is
another project that honours the same lock, and a GPU lock that comes and goes.
`overlapped` is history: a call began before another had returned. Two such
calls may both take the lock (`runlock_race`), so exclusion is stated for calls
that came one after another, whatever was killed or started between them.

### DbBase, the clients, DbServer, DbBench

Source: `tools/db/*.py`, `tools/load/bench.py`, `tools/backup/bench.py`,
`scripts/backup_db.sh`. A call of a client is a sequence of steps, each a
request or an assignment to the client (`Do(op, arg)`); a program is the
sequence of its calls, kept in `todo` and taken step by step, with the server's
own steps in between. A row has version 0 and, once updated, version 1; `db`
says which versions are live, seen by a relaxed read, dead in storage, walked
over by searches, or in no index yet.

| TLA+ | What it stands for |
|---|---|
| `CatchUp` | the query nodes of Milvus reach the last write |
| `IndexRows` | the optimizer or index node indexes new rows |
| `Clean` | autovacuum, vacuum optimizer, autocompaction |
| `Register` | Milvus registers the L0 delete segment, before which a compaction is a no-op |
| `HandOff` | the query node swaps in compacted segments |
| `CompactJob` | one round of L0 and mix compaction; after `Rounds` the client gives up and says so |
| `load`, `Query`, `InsertBatch`, `Deadline`, `WorkerEnds` | the threads of `load_loop` and `Inserter`; a batch may fail before or after the server took it |
| `stage1`, `HostStep` | `<out>.stage1.json`, and what the host does between the two stages |

The servers are not in the repository. `DbServer` is what the clients, their
comments and their waits rely on, and is marked external.

### EmbedCache and Runner

`lru` is the `OrderedDict`, oldest first; `redis` the keys of a server that may
evict any of them; `asked` is history. An entry stands for its key; two texts
that `normalize` makes equal are one text.

A session (`run`) is a call of the runner, or of `backup_db.sh`, for one case of
the matrix. `Begin` plans and skips, `DbStep` and `CacheStep` are the process,
`OpenOut` and `FillOut` its document, `Collect` takes it over, `OpenResult` and
`FillResult` are the two halves of `out.write_text`. `ProcessFails` is an exit
code other than 0 or a timeout, `Kill` ends the session anywhere, and the files
and the server stay as they are. What is not run leaves no trace and is not
modelled: dry runs, missing programs, unsupported combinations.

## 3. The runs

`pass` runs hold in full; `violation` runs show a disagreement (section 5).

| Run | Question | Bounds |
|---|---|---|
| `hnsw_build` | two builders, any selections: no back edge is lost, the entry is on top, one lock at a time, every row gets in | 4 rows, 2 layers, M=2, M0=4, EfC=4, one repair edge |
| `hnsw_serve` | a lock-free query against an inserter that raises the top layer and shrinks lists on three layers: no dead end, no short answer, every query returns | 4 rows (2 built, 2 served), EfC=1 |
| `hnsw_repair` | layer 0 leads to every row after the repair pass, and its edges are kept, for every near/far corpus | 6 rows, no upper layer, EfC=2 |
| `hnsw_changes` | reachability, the entry point, cut-off rows, full answers, and loaded files, over processes that change, compact either way and save | 4 rows, one or three of them above layer 0, every near/far corpus, 3 processes, 2 nested delete sets, 3 updates, 2 filters |
| `hnsw_load` | two clients without locks against the frozen insert: what they read, the graph that comes out, why an answer is short, which answers are kept | 6 rows, 4 of them built, 3 corpora, EfC=3, Ef=K=2 |
| `diskann` | lists and records, the walk of the paper, full answers, cold reads | 5 rows, R=2, list of 2, any start graph, 4 searches, beam 2, k=2 |
| `stores` | flat and IVF implement a plain store over deletes, updates, compactions, saves, kills and loads; all four answer by the definition | 4 rows of 2 dimensions, 3 lists, k=2, 3 processes, every nprobe and rerank |
| `kmeans` | the refill always finds a point and takes the worst, no cluster is empty, an iteration never makes the fit worse | 4 points of 4 values, 3 clusters, 2 iterations |
| `runner` | every program on every database, and the cache, under failures and kills: results that are there are right, sessions end | 3 rows, 2 queries, 2 threads, 2 rounds of compaction, 3 repeats, 5 requests, capacity 2, 2 sessions |
| `runlock` | three calls, one a dry run, one with a queue of two jobs, a kill, another project, a GPU lock: turns, refusals, `--stop`, release | 3 calls, 1 kill |
| `hnsw_return`, `runlock_race` | violations, section 5 | the smallest that show them |

### Why the bounds are enough

- M=2, M0=4 are the smallest lists the code accepts (`m >= 2`), so lists fill
  and are shrunk with four to six rows.
- `hnsw_build` has EfC=4: a selection can be any part of the graph.
  `hnsw_serve` has EfC=1, which keeps selections small so that three layers and
  a full list of an upper layer fit in.
- `hnsw_repair`: six rows with EfC=2 is the smallest flat corpus where groups of
  rows come out of the build that nobody links to, steps A and B both have work
  and a second pass is needed.
- `hnsw_changes`: three processes are one that saves after a compaction, one
  that changes what it loaded and saves again, and one that reads the result.
  The delete sets have the entry point of every draw, and the updates move it.
- `hnsw_load`: in one corpus the list of row 0 is full when the last row comes,
  is put in another order and shrinks to two rows, which leaves both ids behind
  the new count; in each, an inserted row is on an upper layer, with another row
  or alone. Two clients are worker 0 and one that is not.
- `diskann`: with R=2 a back edge finds a list that has it, has room or is full;
  the start graph is any; four searches are every order of the two modes, with
  one after both readers were open. A table of ties and one of none.
- `stores`: two rows and two centers are equal, so ties are broken by ID in the
  heap and in the assignment. The delete sets are nested, one names a row behind
  the limit and the last takes every row; the updates move a row to another list
  and name a row behind the limit. Of three processes, the second may find the
  file of the first cut short.
- `kmeans`: every assignment of four values to four points, so up to three
  clusters have the same center and two of them are empty at once.
- `runner`: three rows give a delete set, an update set and inserted rows that
  overlap and leave one row alone; three repeats and two latencies have ties and
  a strict median; two sessions are one that is killed and one that finds what
  it left (the load cases have one, since they leave nothing another would
  read); five requests over three texts fill a cache of two and change the
  version in the middle.
- `runlock`: a holder, a call that finds the lock stale, and one in between.

### Preconditions of the properties

Each of these is a behaviour of the code, or of how the programs use it.

- `AllReached` is about corpora with at most one row above layer 0. With
  several, step B starts on layer 0 where the upper layers end, which layer 0
  itself need not lead to; it can add the same edge in each of the three passes,
  and a row may stay unreached. `FullAnswer` is stated from the node the descent
  ends at for the same reason.
- `ProtectedKept` is about nodes with at most M0 repair edges: a fifth edge of
  one node pushes an earlier one out of its four slots.
- Deletes of `Stores` are nested: `delete` replaces the mask, so a set that does
  not hold the tombstones of the loaded file would bring rows back. The delete
  sets the repository prepares are nested.
- `GreedyIsLoop` is about distinct scores: the code stops at a candidate that is
  worse than the l-th best, and only better ones enter, while the loop of the
  paper breaks ties by ID.
- DiskANN reranks nothing or at least k candidates; with less the answer of the
  code is as short as the rerank.
- `SessionEnds` and the results of Qdrant assume that the sleeps of
  `qdrant.py:120` and `:205` are long enough for the optimizer to have seen a
  change of its configuration.
- `Tombstones`: the compaction of Milvus gives up after its rounds; the result
  then says how many rows are left.
- `LoadCounts` speaks of failed batches, which are counted and not tried again.
- `ExclusiveInTurn` and `RefusedInUse` are about calls in turn (`overlapped`),
  `StopStops` about runs of one job: after `--stop` has killed the job of a
  queue, the wrapper goes on with the next one.

### Fairness

- `HnswInsert`: weak fairness of each inserting thread, of the main thread and
  of the steps of a query that has begun. The Go scheduler runs every runnable
  goroutine. Locks are held for a bounded number of steps of one thread that
  waits for nothing meanwhile, and mutexes hand over to waiters, so weak
  fairness of the whole thread is enough. Callers need not start queries.
- `RunLock`: weak fairness of scripts and wrappers (processes run) and of the
  return of the GPU lock (the wait in `run.sh` makes no sense otherwise). No
  fairness for kills, other projects or `--stop`.
- `Runner`: weak fairness of the steps of a session and of the server's own
  steps, each as one action: a process runs on when it can, and a server works
  off what it has to do, in any order. The server's steps are finitely many
  between two requests, so one of them cannot starve another. No fairness for
  failures, kills and evictions. Killed or failed sessions end as well; the
  property is about the waits of the clients.
- The other modules have safety properties only: one thread and bounded loops,
  or (`HnswLoad`) a loop that ends with the deadline, where the deadlock check
  shows that the run does not get stuck before its end.

`CHECK_DEADLOCK FALSE` stands where a system may stop for good: calls of
`run.sh`, processes of `HnswChanges` and `Stores`, searches of `DiskAnn`,
sessions of `Runner`. Elsewhere deadlock is checked, and a state that may
stutter (`Finished`, `Trained`, `Ended`) is named.

## 4. The proofs

`HnswInsertProofs` proves, for any number of rows, layers, threads and any
levels and sizes:

- `TypeCorrect`: `Spec => []TypeOK`. It says more than types: no list outgrows
  its slots (in the code a flat array, where the next word belongs to another
  node) and no row or layer index leaves its range. `TypeOK` is not inductive.
  `TypeInv` adds `WorkersOK` (what each place of an inserting thread implies:
  the selections of a layer are lists of at most M nodes, the position in the
  selection, the rewritten list) and `QueriesOK` (what a query has loaded);
  `FitInv` adds what the list being rewritten may hold, for `CountsFit`.
- `LocksExclusive`: `Spec => []OneLock`. A thread holds the lock of a node
  exactly while it rewrites that node's list, and of no other node: this rules
  out both two writers on one list and a cycle of waiting threads.
- `EntryOnTop`, `QueriesStayOnLayers`, `BackEdgesKept`: `EntryIsTop`,
  `QueryLayers` and `NoLostEdge`. `WalkInv` adds to types and locks which rows
  each thread has (`RowsInv`: the chunks are disjoint, each phase has its own
  rows), how high the entry point is and who may raise it (`HeightInv`), and,
  for every place where a node can be met - a slot below its count, a walk, a
  selection, a list that is being written, what a query has loaded - that the
  node reaches the layer and has stored its own list there (`ListsInv`,
  `WalksInv`, `QueriesInv`). A row that has not stored its list cannot be met, so
  its list is empty when it does store it. `SelInv` says which selections are
  there and that none is empty.
- `QueriesDescend`, `QueriesFindTwo`: `NoDeadEnd` and `NoShortResult`.
  `ReachInv` adds which lists may be empty (`EmptyInv`, `FullInv`, `ZeroInv`:
  row 0 and the layers of the entry point above everybody else), and what a
  query has found when its list ends (`TwoInv`).

`KMeansProofs` proves, for any number of points and clusters (at most as many
as points):

- `NeverEmpty`: `Spec => []NoClusterEmpty`. The invariant `KInv` says that the
  counts are those of the labels, that the clusters the fix has passed have a
  point, and that every point behind the cursor lies in a cluster it cannot
  leave. When the next cluster is empty, n points lie in k - 1 < n clusters, two
  of them share one (`FS_PigeonHole`), so a point that can be moved lies at or
  after the cursor, which therefore never runs off its end.
- `WorstTaken`: `Spec => TakesWorst`, an action property from the same
  invariant: since a point that was passed cannot be moved later, the first one
  after the cursor is the worst of all that can be.

`HnswChangesProofs`, for any corpus, levels, list sizes, delete sets, updates,
filters and number of processes:

- `LifeHolds`: the invariant `LifeInv`. `Severed` says that no list leads to a
  node that was cut out, nor from one (`RepairInv`), in the file too
  (`FileInv`); `StageInv` that the entry point is live and on top, that an update
  starts where nothing waits to be inserted again, and that some node is always
  live; `ProcessInv` that `id_map` is increasing and that every row this process
  deleted is a tombstone, or cut out once the process has compacted.
- `EntryMatches` and `CutStaysOff`: `EntryOnTop` and `CutOff`, which follow.
  Repair edges come from and go to nodes that a search from the entry point
  finds or lists hold, so from nodes that were not cut out.
- `RepairEdgesStay`: `ProtectedKept`. `SelectKeeps` follows a selection that has
  to keep some rows through its rounds: they come first, so none is refused while
  there are no more of them than slots.
- `ListsHold`: `ListInv`, that no list has a row twice, in the index and in the
  file, and that nothing leads to a row that is still to be inserted, which is
  why a back edge never comes twice.
- `SearchesComplete`: `FullAnswer`. `Complete` is the invariant of a walk: as
  long as the result has room it has all that was seen and may be returned, and
  either k nodes were expanded in k steps or none is left. After N steps the
  result is full, or what was seen is closed under layer 0 and is all that
  `Reach` finds (`WalkComplete`). That no list has a row twice is needed: a row
  twice in one list would take two places of the result.

`HnswLoadProofs`, for any corpus, levels, list sizes, queries and clients:

- `SearchesReadRows`, `FirstPassComplete`: `ReadsAreRows` and `FirstPassKept`.
  In `LoadInv`, `SlotsInv` is about every slot and not only those below a count:
  what was written stays, until a row is written there, so a count that was read
  before a list shrank still covers written slots (`QueriesInv`). `InsInv` says
  what the inserter has in its hands, `PassInv` what worker 0 has kept.
- `InsertIsBuild`: `SameAsBuild`. `CopyInv` relates the arrays to the graph of
  the build while a row goes in: above its layer the lists are those the build
  would have afterwards, below it those before (`LayersInv`), and on it the back
  edges that are still to do tell which are which (`LinksInv`). What the walks
  find is the same since no list of a layer changes before the walk there.

`DiskAnnProofs`, for any rows, scores, degrees, list sizes and start graphs:

- `ListsEndInFile`: `RecordsAreLists`, also while a back edge is in the extra
  slot (`ListsInv`, `PassInv`), and the file has the same edges (`FileInv`). The
  prune is followed through its rounds: it keeps at most R different rows, and
  at least one, though nothing says so in its loop.
- `ColdIsCold`: `ColdReads`, from `CacheInv`: only mapped reads warm the cache.

`StoresProofs` proves `RowsKept`: `Spec => Implements`, that every step of a flat
or an IVF index is a step of the plain store `RowStore` or leaves it as it is,
for any corpus, centers, change sets, filters and number of processes. The
mapping is `Contents` and `Saved` (section 2). `StoreInv` says that positions are
rows until a compaction, that afterwards `id_map` gives each position a row of
its own, and that a file which is being written holds what the index holds
(`FlatInv`, `IvfInv`, `SaveInv`).

It also proves `AnswersHold`: `Spec => []AnswersRight`, for any queries and
codebooks too, and all four indexes. `AnswerInv` adds to `StoreInv` what an
answer is made of: the two caches of flat hold what would be gathered now, with
positions counted from 0 (`CacheInv`); each row in a list of IVF is in that of
its best center, once, in the file too (`Sorted`, `FileSorted`); the codes are
those of the rows, or of the residuals in the order of the lists (`PqBuilt`,
`IvfPqBuilt`). Then a search is a list of rows, each there once, with their
scores. `TopKIs` says that `top_k` returns the best of those by the definition,
`BestRows`, which looks at all rows and knows no positions: a place in the list
and a place among the rows have the same rows before them, so they have the same
rank. `WhereIs`, `ConcatIs` and `ProbedIs` give the list of rows of an IVF search,
`OffsetIs` where a list of IVF-PQ lies, `TableSumIs` and `ResidualSumIs` that a sum
over a table, with the score of the center for `ip`, is the score of the decoded
vector.

`RunnerProofs`, for any number of repeats, sessions, requests and entries:

- `ResultIsMedian`: `MedianKept`. By `RunsInv` the runs in hand are all of this
  session and as many as the place of the session says. With ties too, ordering
  by latency gives every rank to one run, by counting; so the run in the middle
  has as many at or below it as at or above.
- `CachesHold`: `CacheHolds`. By `AskedInv` the LRU is the list of the last keys
  asked, each once, the oldest first, and misses are what it holds and what it
  has dropped; `MoveToEnd` and the eviction are followed on sequences.
- `TimedOnTheRows` and `TombstonesHold`: `SearchesCurrent` and `Tombstones`, for
  any rows, change sets, queries and rounds of compaction, and all three
  databases. `Benching` says where the process is: `todo` is what is left of the
  program from one of its calls on, and with it come the rows, the dead versions
  and the unindexed ones the server may have there (`Building`, `AtChanges`,
  `Half`, `AtAfter`, `AtSweep`, `AtMerged`, `AtTimed`). Each request of a client
  takes one of these to the next, and what the server does in its own time leaves
  each of them true (the lemmas in `Back`). `DocsInv` carries right documents from
  the process through the files of the runs into the result.
- `CountsHold`: `LoadCounts`, in the same way. In the loop (`Looping`) the rows
  of the build are there for every search, whatever the inserter and the server
  have done, worker 0 has asked every query before its own (`FirstSeen`), and
  what was inserted, failed and is still to insert makes up the late rows.
- `BackupsHold`: `RestoreHolds`. `Backing` gives every call of the two stages and
  of the host step its place: before the host step the table is whole and of a
  build g, and so is everything the first stage saw; from there on it is the table
  or the server's copy that is whole (`Hosted`, `Snapped`), in each of the ways a
  server drops, stops and comes back; then it is the table again, of a build h
  which is g unless the document says that an index was built again (`Resuming`,
  `SecondHalf`). Whatever an earlier session left behind, the first stage builds
  the table anew (`Building`), so nothing is assumed of it.

`RunLockProofs`, for any number of calls and kills: `ExclusiveCalls`, `StopEnds`
and the action property `RefusalsInUse`, for `ExclusiveInTurn`, `StopStops` and
`RefusedInUse`. Whoever the lock names is alive or was killed (`OwnerInv`); as
long as no calls overlap, one script runs at a time and what it has read of the
lock is still true (`AloneInv`); then, and without `--stop`, the lock names its
one holder (`HeldInv`). `StopInv` follows the signal: the wrapper that gets it
starts no job any more.

### How they are built

Each proof has an inductive invariant, which TLC checked on the bounds of the
run before it was proved (693,101 states for `HnswLoad`, 188,918 for
`HnswChanges`, 110,022 for `Runner`, 13,289 for `Stores`, 11,055 for `DiskAnn`), and one lemma per action. Lemmas about
the operators of a module (`Select`, `SearchLayer`, `Descend`, `WithBackEdge`,
`TopK`, `MoveToEnd`...) come first and are cited by name. An operator that loops
is a recursive function of its rounds: `Recursion` gives that the function
exists, `Steps` and `Stays` carry a fact from round to round, all from the
well-foundedness of the naturals. For this some operators are written as
recursive functions or by rank where a sort or a fold would have been shorter.

The proofs rest on the named assumptions of the modules (`GraphAssumption`,
`LifeAssumption`, `LoadAssumption`, `CorporaAssumption`, `StartsAssumption`, `CorpusAssumption`,
`CentersAssumption`, `BooksAssumption`, `FileAssumption`, `NilAssumption`, `BenchAssumption`, `RunnerAssumption`,
`CacheAssumption`, `RunsAssumption`, and the sizes in `HnswInsert`, `DiskAnn` and
`KMeans`), which TLC evaluates in the runs, and on nothing else.

### What is only model-checked

- *Liveness*: it needs ENABLED, which the provers do not have.
- `AllReached` of `HnswChanges`: that the repair pass connects layer 0 is an
  argument over all rounds of a pass and the lists of every node, and that three
  passes are enough is not a consequence of the algorithm: it is a fact about
  corpora of the size of the runs.
- `SameAnswers` of `HnswChanges`: a walk on the loaded lists is the walk on the
  lists that were saved, renamed from nodes to rows, through every operator of
  `HnswGraph`.
- `ShortOnlyAtNewRow` of `HnswLoad`: a frozen list that is not empty has to be
  carried through builds and shrinks, as in `ReachInv`, and into walks whose
  result lists may hold a row twice.
- `GreedyIsLoop` and `FullAnswer` of `DiskAnn`: they compare the code with a loop
  that sorts (`SetToSortSeq`, a sort by an operator, which no prover can open).
- The descent of `KMeans`: its sums are folds with an operator argument.

## 5. Disagreements between the code and its text

Each is a `violation` run whose property quotes a comment of the code.

| Run | What happens |
|---|---|
| `hnsw_return` | a compaction in repair mode drops the tombstones, since no search reaches the deleted nodes; when the index is saved, loaded and updated, the repair pass finds them without in-edges, links them in again, and searches return deleted rows |
| `runlock_race` | two calls at once: the second takes a lock without a pid for stale and removes it |

Others were met while modelling and are no run, since the model says what the
code does and a run would only repeat it:

- `hnsw.py:51` on the order of a new row's lists (section 2, `HnswLoad`).
- `tools/load/bench.py:21` says that the inserter adds rows "until the rows run
  out or the loop ends". Its stop event is never set, so it goes on, as
  `indexes/CONTRACT.md:425` wants.
- The same paragraph says that the pass after the inserts "always compares
  complete indexes". A batch that fails is counted and never tried again, so
  this holds for a result with `insert_errors` 0.
- `indexes/CONTRACT.md:519`: after `--invalidate-at` "the next 100 requests are
  all misses". A text that comes twice among them hits; what holds is that no
  entry of the old version is used (`CacheHolds`).
- A session that is killed while `run_case` writes the result leaves a file that
  is not whole. The next call without `--force` prints that it exists and skips
  the case (`runner.py:383`). The properties are about whole results.
- `--stage after` unlinks the state file of a backup before its own document is
  written; killed in between, the case has to start from its first stage.

## 6. The plan

Every component of the list in section 1 that is to be modelled is, and every
module with a run has theorems. Worth proving next, in this order:

1. `ShortOnlyAtNewRow` of `HnswLoad`.
2. `SameAnswers` of `HnswChanges`.

## 7. Not modelled

- *Rust and C++ indexes*, and the Go ones beside HNSW: the same contract as the
  Python version that is modelled. What they have beyond it is parallel builds
  (of HNSW, modelled from Go, and of DiskANN) and, in Rust, relaxed atomics,
  whose reordered loads a model of interleaved steps does not have.
- *Numeric kernels, generators, file readers, byte layouts*: floating point and
  formats, about which a model says nothing that a test does not.
- *Reports, metrics, schema, data preparation, workload, status page*: one-shot
  computations without state of their own. What data preparation promises
  (nested delete sets) is a precondition.
- *Inside modelled components*: malformed index files other than short ones and
  those of another index; rows with equal vectors in HNSW; the training of
  codebooks as part of PQ; filters, warm-up and metrics of the database
  programs, ANALYZE and the B-tree of pgvector; the parameters of indexes other
  than flat, for which "hnsw" stands; a batch is one row; more rows than 2^32.
- *One hazard without a property*: `--stop` during the sleep of the GPU wait
  (`run.sh:180`), listed in `PROJECT.json` with the reason.
