------------------------------ MODULE DbServer ------------------------------
(***************************************************************************)
(* The database server as the clients of src/tools/db rely on it: what a   *)
(* request does at once, and what the server does in its own time -- the   *)
(* optimizer of Qdrant, the autovacuum of Postgres, the coordinators and   *)
(* query nodes of Milvus.                                                  *)
(***************************************************************************)
EXTENDS DbBase

VARIABLES
    kind,         \* the database: pgvector, qdrant, milvus; or the cache
    up,           \* the container runs
    db,           \* the table or collection, Nil when there is none
    saved         \* the dump, the archive of the volume, or the snapshot

server == <<up, db, saved>>

Fresh == [
    live  |-> {},         \* the versions that are in the table
    seen  |-> {},         \* those a search without Strong consistency sees
    dead  |-> {},         \* dead versions in storage
    held  |-> {},         \* dead versions in what the searches walk over
    raw   |-> {},         \* versions no index has yet
    index |-> FALSE,      \* new versions are indexed
    auto  |-> "on",       \* the cleaning of dead versions: on, off, low
    l0    |-> FALSE,      \* a delete the data coordinator has not registered
    disk  |-> {},         \* the versions a flush wrote
    gen   |-> 0,          \* builds of the index from the rows
    loaded |-> kind # "milvus"]

\* The versions gone make room for the versions vs.
Changed(gone, vs) ==
    LET live == (db.live \ gone) \cup vs
    IN  [db EXCEPT
            !.live = live,
            !.seen = IF kind = "milvus" THEN @ ELSE live,
            !.dead = @ \cup gone,
            !.held = @ \cup gone,
            !.raw  = IF kind = "pgvector" THEN @ ELSE (@ \ gone) \cup vs,
            !.l0   = @ \/ (kind = "milvus" /\ gone # {})]

VersionsOf(S) == {v \in db.live : v[1] \in S}

Set(field, value) ==
    /\ db # Nil
    /\ db' = [db EXCEPT ![field] = value]
    /\ UNCHANGED <<up, saved>>

-----------------------------------------------------------------------------
(* Requests of the clients.                                                *)

CreateTable(s) ==
    /\ s.op = "create" /\ db = Nil
    /\ db' = Fresh
    /\ UNCHANGED <<up, saved>>

DropTable(s) ==
    /\ s.op = "drop_if" \/ (s.op = "drop" /\ db # Nil)
    /\ db' = Nil
    /\ UNCHANGED <<up, saved>>

Put(s) ==
    /\ s.op = "put" /\ db # Nil
    /\ db' = Changed(VersionsOf({v[1] : v \in s.arg}), s.arg)
    /\ UNCHANGED <<up, saved>>

DeleteRows(s) ==
    /\ s.op = "delete" /\ db # Nil
    /\ db' = Changed(VersionsOf(s.arg), {})
    /\ UNCHANGED <<up, saved>>

Cleaning(s) == s.op = "auto" /\ Set("auto", s.arg)

\* Postgres builds the index in the request, the others in the background.
BuildIt(s) ==
    /\ s.op = "index" /\ db # Nil
    /\ db' = [db EXCEPT !.index = TRUE,
                        !.gen = IF kind = "pgvector" THEN @ + 1 ELSE @]
    /\ UNCHANGED <<up, saved>>

Reindex(s) == s.op = "reindex" /\ db # Nil /\ Set("gen", db.gen + 1)

\* VACUUM cleans the heap and the index.
Vacuum(s) ==
    /\ s.op = "vacuum" /\ db # Nil
    /\ db' = [db EXCEPT !.dead = {}, !.held = {}]
    /\ UNCHANGED <<up, saved>>

\* The status is green when the optimizer has nothing to do.
Green ==
    /\ db.index => db.raw = {}
    /\ db.auto = "low" => db.dead = {}

WaitFor(s) ==
    /\ db # Nil
    /\ \/ s.op = "wait_green" /\ Green /\ (s.arg => db.raw = {})
       \/ s.op = "wait_indexed" /\ db.raw = {}
       \/ s.op = "wait_handed" /\ db.held = db.dead
    /\ UNCHANGED server

FlushIt(s) == s.op = "flush" /\ db # Nil /\ Set("disk", db.live)

LoadIt(s) ==
    /\ s.op = "load" /\ db # Nil
    /\ db' = [db EXCEPT !.loaded = TRUE, !.seen = db.live, !.held = db.dead]
    /\ UNCHANGED <<up, saved>>

\* pg_dump, or a snapshot that is downloaded.
Dump(s) ==
    /\ s.op = "dump" /\ db # Nil
    /\ saved' = db
    /\ UNCHANGED <<up, db>>

\* pg_restore builds the index again; a snapshot has it.
PutBack(s) ==
    /\ s.op = "restore" /\ db = Nil /\ saved # Nil
    /\ db' = [saved EXCEPT
                !.gen = IF kind = "pgvector" /\ saved.index THEN @ + 1 ELSE @]
    /\ UNCHANGED <<up, saved>>

Halt(s) ==
    /\ s.op = "stop"
    /\ up' = FALSE
    /\ UNCHANGED <<db, saved>>

Launch(s) ==
    /\ s.op = "start"
    /\ up' = TRUE
    /\ db' = IF db = Nil THEN Nil ELSE [db EXCEPT !.loaded = FALSE,
                                                  !.seen = {}]
    /\ UNCHANGED saved

\* The archive has what was on disk.
Archive(s) ==
    /\ s.op = "tar" /\ db # Nil
    /\ saved' = [db EXCEPT !.live = db.disk]
    /\ UNCHANGED <<up, db>>

Untar(s) ==
    /\ s.op = "untar"
    /\ db' = saved
    /\ UNCHANGED <<up, saved>>

Wipe(s) ==
    /\ s.op = "wipe"
    /\ db' = Nil
    /\ UNCHANGED <<up, saved>>

Serve(s) ==
    \/ /\ up
       /\ \/ CreateTable(s) \/ DropTable(s) \/ Put(s) \/ DeleteRows(s)
          \/ Cleaning(s) \/ BuildIt(s) \/ Reindex(s) \/ Vacuum(s)
          \/ WaitFor(s) \/ FlushIt(s) \/ LoadIt(s) \/ Dump(s) \/ PutBack(s)
          \/ Halt(s)
    \/ /\ ~up
       /\ Launch(s) \/ Archive(s) \/ Wipe(s) \/ Untar(s)

-----------------------------------------------------------------------------
(* What the server does in its own time.                                   *)

Running == up /\ db # Nil

\* The query nodes of Milvus reach the last write.
CatchUp ==
    /\ Running /\ db.loaded /\ db.seen # db.live
    /\ Set("seen", db.live)

IndexRows ==
    /\ Running /\ db.index /\ db.raw # {}
    /\ Set("raw", {})

\* Autovacuum, the vacuum optimizer, autocompaction.
Clean ==
    /\ Running /\ db.auto # "off" /\ ~db.l0 /\ db.dead # {}
    /\ db' = [db EXCEPT !.dead = {},
                        !.held = IF kind = "milvus" THEN @ ELSE {}]
    /\ UNCHANGED <<up, saved>>

Register == Running /\ db.l0 /\ Set("l0", FALSE)

HandOff == Running /\ db.loaded /\ db.held # db.dead /\ Set("held", db.dead)

Background == CatchUp \/ IndexRows \/ Clean \/ Register \/ HandOff

\* A stopped container comes back: make db-up, before the next call.
BringUp == ~up /\ Launch(Do("start", Nil))
=============================================================================
