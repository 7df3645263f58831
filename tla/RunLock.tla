------------------------------ MODULE RunLock ------------------------------
(***************************************************************************)
(* The timing lock of src/scripts/run.sh.  Every benchmark sweep starts    *)
(* through this script: it removes a stale lock of its own, takes the lock *)
(* with mkdir, writes who owns it, starts a detached wrapper that runs the *)
(* jobs and removes the lock at its end, and last writes the wrapper's pid *)
(* into the lock.  Another project may hold the lock too; run.sh --stop    *)
(* ends the running job; a wrapper may be killed outright.                 *)
(*                                                                         *)
(* The lock is a directory with two files.  Each command of the script     *)
(* that touches it is a step.  A write into a directory that is gone fails *)
(* and the script goes on: it runs without `set -e`.                       *)
(***************************************************************************)
EXTENDS Naturals, FiniteSets

CONSTANTS
    Runs,      \* invocations of run.sh, each with jobs to run
    DryRuns,   \* those with --dry-run
    LongRuns,  \* those called with two jobs, the others with one
    Other,     \* another project that uses the timing lock
    Nobody,    \* an owner or pid file that is not there
    MaxKills,  \* bound: wrappers killed by SIGKILL, with their jobs
    MaxGpu     \* bound: times a GPU lock is taken

ASSUME RunsAssumption == /\ DryRuns \subseteq Runs /\ LongRuns \subseteq Runs
                         /\ Other \notin Runs /\ Nobody \notin Runs \cup {Other}
ASSUME BoundsAssumption == MaxKills \in Nat /\ MaxGpu \in Nat

VARIABLES
    lock,    \* the directory timing.lock with its files owner and pid
    run,     \* run[r]: where the script r stands
    wrap,    \* wrap[r]: where the detached wrapper of r stands
    job,     \* job[r]: jobs of r that have ended
    term,    \* term[r]: the wrapper of r has a SIGTERM pending
    stop,    \* the script called with --stop
    other,   \* the other project runs its own timing job
    gpu,     \* gpu.lock or heavy.lock is there
    overlapped, \* history: some call of run.sh began before another had
                \* returned
    kills, gpuTakes

counts == <<kills, gpuTakes>>
vars == <<lock, run, wrap, overlapped, job, term, stop, other, gpu, counts>>

\* Jobs in the queue of a run.
Jobs(r) == IF r \in LongRuns THEN 2 ELSE 1

NoLock == [dir |-> FALSE, owner |-> Nobody, pid |-> Nobody]

Init == /\ lock = NoLock
        /\ run = [r \in Runs |-> "idle"]
        /\ wrap = [r \in Runs |-> "none"]
        /\ job = [r \in Runs |-> 0]
        /\ term = [r \in Runs |-> FALSE]
        /\ stop = [pc |-> "idle", pid |-> Nobody]
        /\ other = FALSE /\ gpu = FALSE
        /\ overlapped = FALSE
        /\ kills = 0 /\ gpuTakes = 0

\* kill -0 pid
Live(p) == p \in Runs /\ wrap[p] \in {"wait", "work", "release"}

Ended == {"idle", "done", "refused", "unfit"}

-----------------------------------------------------------------------------
(* The script.                                                             *)

Goto(r, pc) == run' = [run EXCEPT ![r] = pc]

Start(r) ==
    /\ run[r] = "idle"
    /\ overlapped' = (overlapped \/ \E x \in Runs : run[x] \notin Ended)
    /\ Goto(r, "preflight")
    /\ UNCHANGED <<lock, wrap, job, term, stop, other, gpu, counts>>

\* preflight.sh: a lock of this project whose pid lives, or any other lock,
\* is a failure; a stale lock is a warning.  Disk, docker or data may fail.
Preflight(r) ==
    /\ run[r] = "preflight"
    /\ \/ Goto(r, "unfit")
       \/ /\ lock.dir /\ (lock.owner \notin Runs \/ Live(lock.pid))
          /\ Goto(r, "refused")
       \/ /\ lock.dir => lock.owner \in Runs /\ ~Live(lock.pid)
          /\ Goto(r, "owner?")
    /\ UNCHANGED <<overlapped, lock, wrap, job, term, stop, other, gpu,
                   counts>>

\* grep -q '^vector-retrieval ' owner
ReadOwner(r) ==
    /\ run[r] = "owner?"
    /\ Goto(r, IF lock.dir /\ lock.owner \in Runs THEN "pid?" ELSE "mkdir")
    /\ UNCHANGED <<overlapped, lock, wrap, job, term, stop, other, gpu,
                   counts>>

\* Mutant: only a lock without a pid counts as stale.
ReadPidEmpty(r) ==
    /\ run[r] = "pid?"
    /\ Goto(r, IF lock.pid = Nobody THEN "remove" ELSE "mkdir")
    /\ UNCHANGED <<overlapped, lock, wrap, job, term, stop, other, gpu,
                   counts>>

\* cat pid; the lock is stale when the file is missing or the process gone.
ReadPid(r) ==
    /\ run[r] = "pid?"
    /\ Goto(r, IF Live(lock.pid) THEN "mkdir" ELSE "remove")
    /\ UNCHANGED <<overlapped, lock, wrap, job, term, stop, other, gpu,
                   counts>>

RemoveStale(r) ==
    /\ run[r] = "remove"
    /\ lock' = NoLock
    /\ Goto(r, "mkdir")
    /\ UNCHANGED <<overlapped, wrap, job, term, stop, other, gpu, counts>>

\* Mutant: mkdir -p.
MkdirP(r) ==
    /\ run[r] = "mkdir"
    /\ Goto(r, "own")
    /\ lock' = [lock EXCEPT !.dir = TRUE]
    /\ UNCHANGED <<overlapped, wrap, job, term, stop, other, gpu, counts>>

\* mkdir is atomic: it fails when the directory is there.
Mkdir(r) ==
    /\ run[r] = "mkdir"
    /\ IF lock.dir
       THEN Goto(r, "refused") /\ UNCHANGED lock
       ELSE Goto(r, "own") /\ lock' = [NoLock EXCEPT !.dir = TRUE]
    /\ UNCHANGED <<overlapped, wrap, job, term, stop, other, gpu, counts>>

WriteOwner(r) ==
    /\ run[r] = "own"
    /\ lock' = IF lock.dir THEN [lock EXCEPT !.owner = r] ELSE lock
    /\ Goto(r, "spawn")
    /\ UNCHANGED <<overlapped, wrap, job, term, stop, other, gpu, counts>>

\* nohup ... bash -c '...' &, or the end of a dry run.
Spawn(r) ==
    /\ run[r] = "spawn"
    /\ IF r \in DryRuns
       THEN lock' = NoLock /\ Goto(r, "done") /\ UNCHANGED wrap
       ELSE wrap' = [wrap EXCEPT ![r] = "wait"] /\ Goto(r, "pid")
            /\ UNCHANGED lock
    /\ UNCHANGED <<overlapped, job, term, stop, other, gpu, counts>>

WritePid(r) ==
    /\ run[r] = "pid"
    /\ lock' = IF lock.dir THEN [lock EXCEPT !.pid = r] ELSE lock
    /\ Goto(r, "done")
    /\ UNCHANGED <<overlapped, wrap, job, term, stop, other, gpu, counts>>

-----------------------------------------------------------------------------
(* The detached wrapper.  Bash runs a trap once the command in the          *)
(* foreground has ended: the sleep of the GPU poll, or the whole queue.     *)

\* Mutant: a SIGTERM that came during the poll is forgotten.
PollDeaf(r) ==
    /\ wrap[r] = "wait"
    /\ term[r] \/ ~gpu
    /\ wrap' = [wrap EXCEPT ![r] = "work"]
    /\ UNCHANGED <<overlapped, lock, run, job, term, stop, other, gpu, counts>>

\* Another turn of the GPU poll, or the jobs start.
Poll(r) ==
    /\ wrap[r] = "wait"
    /\ term[r] \/ ~gpu
    /\ wrap' = [wrap EXCEPT ![r] = IF term[r] THEN "release" ELSE "work"]
    /\ UNCHANGED <<overlapped, lock, run, job, term, stop, other, gpu, counts>>

\* A job ends, well or not; the next one starts.
JobEnd(r) ==
    /\ wrap[r] = "work" /\ job[r] < Jobs(r)
    /\ job' = [job EXCEPT ![r] = @ + 1]
    /\ UNCHANGED <<overlapped, lock, run, wrap, term, stop, other, gpu,
                   counts>>

QueueEnd(r) ==
    /\ wrap[r] = "work" /\ job[r] = Jobs(r)
    /\ wrap' = [wrap EXCEPT ![r] = "release"]
    /\ UNCHANGED <<overlapped, lock, run, job, term, stop, other, gpu, counts>>

\* Mutant: the trap stops the containers and leaves the lock.
ReleaseNothing(r) ==
    /\ wrap[r] = "release"
    /\ wrap' = [wrap EXCEPT ![r] = "gone"]
    /\ UNCHANGED <<overlapped, lock, run, job, term, stop, other, gpu, counts>>

\* The EXIT trap removes the lock, whoever holds it.
Release(r) ==
    /\ wrap[r] = "release"
    /\ lock' = NoLock
    /\ wrap' = [wrap EXCEPT ![r] = "gone"]
    /\ UNCHANGED <<overlapped, run, job, term, stop, other, gpu, counts>>

\* SIGKILL, or a reboot: no trap runs.
Kill(r) ==
    /\ Live(r) /\ kills < MaxKills
    /\ kills' = kills + 1
    /\ wrap' = [wrap EXCEPT ![r] = "killed"]
    /\ UNCHANGED <<overlapped, lock, run, job, term, stop, other, gpu,
                   gpuTakes>>

-----------------------------------------------------------------------------
(* run.sh --stop.                                                          *)

StopRead ==
    /\ stop.pc = "idle"
    /\ stop' = IF Live(lock.pid) THEN [pc |-> "kill", pid |-> lock.pid]
                                 ELSE [pc |-> "nothing", pid |-> Nobody]
    /\ UNCHANGED <<overlapped, lock, run, wrap, job, term, other, gpu, counts>>

StopTerm ==
    /\ stop.pc = "kill"
    /\ term' = [term EXCEPT ![stop.pid] = TRUE]
    /\ stop' = [stop EXCEPT !.pc = "docker"]
    /\ UNCHANGED <<overlapped, lock, run, wrap, job, other, gpu, counts>>

\* After 30 seconds, or when the process is gone: every vro-bench container
\* is stopped, and with it the job that runs in it.
StopDocker ==
    /\ stop.pc = "docker"
    /\ job' = [r \in Runs |-> IF wrap[r] = "work" /\ job[r] < Jobs(r)
                              THEN job[r] + 1 ELSE job[r]]
    /\ stop' = [stop EXCEPT !.pc = "remove"]
    /\ UNCHANGED <<overlapped, lock, run, wrap, term, other, gpu, counts>>

StopRemove ==
    /\ stop.pc = "remove"
    /\ lock' = NoLock
    /\ stop' = [stop EXCEPT !.pc = "done"]
    /\ UNCHANGED <<overlapped, run, wrap, job, term, other, gpu, counts>>

-----------------------------------------------------------------------------
(* The environment: another project under the same lock, and the GPU lock. *)

OtherTake ==
    /\ ~other /\ ~lock.dir
    /\ other' = TRUE
    /\ lock' = [dir |-> TRUE, owner |-> Other, pid |-> Nobody]
    /\ UNCHANGED <<overlapped, run, wrap, job, term, stop, gpu, counts>>

OtherGive ==
    /\ other
    /\ other' = FALSE
    /\ lock' = NoLock
    /\ UNCHANGED <<overlapped, run, wrap, job, term, stop, gpu, counts>>

GpuTake ==
    /\ ~gpu /\ gpuTakes < MaxGpu
    /\ gpu' = TRUE /\ gpuTakes' = gpuTakes + 1
    /\ UNCHANGED <<overlapped, lock, run, wrap, job, term, stop, other, kills>>

GpuGive ==
    /\ gpu
    /\ gpu' = FALSE
    /\ UNCHANGED <<overlapped, lock, run, wrap, job, term, stop, other,
                   counts>>

-----------------------------------------------------------------------------
Script(r) == \/ Preflight(r) \/ ReadOwner(r) \/ ReadPid(r) \/ RemoveStale(r)
             \/ Mkdir(r) \/ WriteOwner(r) \/ Spawn(r) \/ WritePid(r)

Wrapper(r) == Poll(r) \/ JobEnd(r) \/ QueueEnd(r) \/ Release(r)

Stop == StopRead \/ StopTerm \/ StopDocker \/ StopRemove

Next == \/ \E r \in Runs : Start(r) \/ Script(r) \/ Wrapper(r) \/ Kill(r)
        \/ Stop \/ OtherTake \/ OtherGive \/ GpuTake \/ GpuGive

\* The system runs every process that can run; a GPU lock is given back.
Fairness == /\ \A r \in Runs : WF_vars(Script(r)) /\ WF_vars(Wrapper(r))
            /\ WF_vars(GpuGive)

Spec == Init /\ [][Next]_vars /\ Fairness

-----------------------------------------------------------------------------
(* What must hold.                                                         *)

\* run.sh, "it still takes the lock so it never overlaps a sweep": no two
\* timing jobs run at the same time.
Exclusive ==
    Cardinality({r \in Runs : wrap[r] = "work"}
                \cup (IF other THEN {Other} ELSE {})) <= 1

\* run.sh was called by one hand so far, one call after another, and no run
\* was stopped.
InTurn == ~overlapped /\ stop.pc \in {"idle", "nothing"}

\* run.sh: no two timing jobs run at the same time, whatever else comes
\* between two calls: a killed wrapper, another project, a long GPU wait.
ExclusiveInTurn == InTurn => Exclusive

\* Somebody who is alive has the lock, or is just taking it.
InUse == \/ other
         \/ \E r \in Runs : Live(r) \/ run[r] \in {"own", "spawn", "pid"}

\* run.sh: a call is refused only while somebody alive has the lock; the lock
\* of a killed run never stands in the way (of calls that overlap one may see
\* a run alive that is killed a moment later).
RefusedInUse ==
    [][\A r \in Runs :
          /\ run[r] # "refused" /\ run'[r] = "refused"
          /\ ~overlapped \/ kills = 0
          => InUse]_vars

\* run.sh --stop: when it has returned, no job of the stopped run is running,
\* if the run had one job.
StopStops ==
    stop.pc = "done" =>
        \A r \in Runs : r = stop.pid /\ r \notin LongRuns
                            => ~(wrap[r] = "work" /\ job[r] < Jobs(r))

\* run.sh: the lock is released when the last job has ended, unless the
\* wrapper is killed.
LockReleased ==
    \A r \in Runs : wrap[r] = "wait" ~> lock.owner # r \/ wrap[r] = "killed"
=============================================================================
