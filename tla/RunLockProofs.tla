--------------------------- MODULE RunLockProofs ---------------------------
(***************************************************************************)
(* Proofs about RunLock, for any set of calls of run.sh and any number of  *)
(* killed wrappers.                                                        *)
(***************************************************************************)
EXTENDS RunLock, FiniteSetTheorems, TLAPS

States == Ended \cup {"preflight", "owner?", "pid?", "remove", "mkdir", "own",
                      "spawn", "pid"}

\* The types, and: a lock that is not there has no files, and only a script
\* past its spawn has a wrapper.
TypeInv ==
    /\ lock \in [dir : BOOLEAN, owner : Runs \cup {Other, Nobody},
                 pid : Runs \cup {Nobody}]
    /\ ~lock.dir => lock = NoLock
    /\ run \in [Runs -> States]
    /\ wrap \in [Runs -> {"none", "wait", "work", "release", "gone",
                          "killed"}]
    /\ job \in [Runs -> Nat]
    /\ term \in [Runs -> BOOLEAN]
    /\ stop \in [pc : {"idle", "nothing", "kill", "docker", "remove", "done"},
                 pid : Runs \cup {Nobody}]
    /\ kills \in Nat /\ overlapped \in BOOLEAN
    /\ \A r \in Runs : wrap[r] # "none" => run[r] \in {"pid", "done"}

\* Whoever the owner file names is alive or was killed; a lock without an
\* owner file is just being taken.
OwnerInv ==
    /\ lock.dir /\ lock.owner = Other => other
    /\ lock.dir /\ lock.owner = Nobody => \E r \in Runs : run[r] = "own"
    /\ \A r \in Runs : lock.dir /\ lock.owner = r
            => run[r] = "spawn" \/ Live(r) \/ wrap[r] = "killed"
    /\ \A r \in Runs : wrap[r] = "killed" => kills # 0

\* As long as no two calls overlap, one script runs at a time, and what it
\* has read of the lock is still true.
AloneInv ==
    ~overlapped =>
        /\ \A x, y \in Runs :
               run[x] \notin Ended /\ run[y] \notin Ended => x = y
        /\ \A x \in Runs :
               run[x] \in {"owner?", "pid?", "remove"} => ~Live(lock.pid)
        /\ \A x \in Runs :
               run[x] = "mkdir" => ~(lock.dir /\ lock.owner \in Runs)

\* One call after another and no --stop: the lock names its one holder, and
\* nobody lives while a script is past its checks and has not the lock.
HeldInv ==
    InTurn =>
        /\ other => lock.owner = Other
        /\ \A x \in Runs : run[x] \in {"owner?", "pid?", "remove", "mkdir"}
                => \A y \in Runs : ~Live(y)
        /\ \A x \in Runs : run[x] \in {"pid?", "remove"} => lock.owner \in Runs
        /\ \A x \in Runs : run[x] = "own" => lock.dir /\ lock.owner = Nobody
        /\ \A x \in Runs : run[x] = "spawn" => lock.owner = x
        /\ \A x, y \in Runs : run[x] = "pid" /\ Live(y) => x = y
        /\ \A x \in Runs : Live(x) => lock.owner = x
        /\ \A x \in Runs : Live(x) /\ run[x] = "done" => lock.pid = x

\* The wrapper that --stop signals will not start a job any more, and its one
\* job has ended once the containers are stopped.
StopInv ==
    /\ stop.pc \in {"kill", "docker", "remove", "done"}
           => stop.pid \in Runs /\ wrap[stop.pid] # "none"
    /\ stop.pc \in {"docker", "remove", "done"} => term[stop.pid]
    /\ /\ stop.pc \in {"remove", "done"} /\ stop.pid \notin LongRuns
       /\ wrap[stop.pid] = "work"
       => job[stop.pid] >= 1

IInv == TypeInv /\ OwnerInv /\ AloneInv /\ HeldInv /\ StopInv
-----------------------------------------------------------------------------
LEMMA InitIInv == Init => IInv
<1> SUFFICES ASSUME Init PROVE IInv
  OBVIOUS
<1>1. TypeInv
  BY DEF Init, TypeInv, NoLock, States, Ended
<1>2. OwnerInv
  BY DEF Init, OwnerInv, NoLock, Live
<1>3. AloneInv /\ HeldInv
  BY DEF Init, AloneInv, HeldInv, NoLock, Live, Ended
<1>4. StopInv
  BY DEF Init, StopInv
<1>5. QED
  BY <1>1, <1>2, <1>3, <1>4 DEF IInv

LEMMA NextTypeInv == TypeInv /\ [Next]_vars => TypeInv'
<1> SUFFICES ASSUME TypeInv, [Next]_vars PROVE TypeInv'
  OBVIOUS
<1> USE RunsAssumption DEF TypeInv, States, Ended, NoLock, Goto, counts, Live
<1>1. ASSUME NEW r \in Runs, Start(r) PROVE TypeInv'
  BY <1>1 DEF Start
<1>2. ASSUME NEW r \in Runs, Preflight(r) PROVE TypeInv'
  BY <1>2 DEF Preflight
<1>3. ASSUME NEW r \in Runs, ReadOwner(r) PROVE TypeInv'
  BY <1>3 DEF ReadOwner
<1>4. ASSUME NEW r \in Runs, ReadPid(r) PROVE TypeInv'
  BY <1>4 DEF ReadPid
<1>5. ASSUME NEW r \in Runs, RemoveStale(r) PROVE TypeInv'
  BY <1>5 DEF RemoveStale
<1>6. ASSUME NEW r \in Runs, Mkdir(r) PROVE TypeInv'
  BY <1>6 DEF Mkdir
<1>7. ASSUME NEW r \in Runs, WriteOwner(r) PROVE TypeInv'
  BY <1>7 DEF WriteOwner
<1>8. ASSUME NEW r \in Runs, Spawn(r) PROVE TypeInv'
  <2>1. CASE r \in DryRuns
    <3>1. lock' = NoLock /\ run' = [run EXCEPT ![r] = "done"]
      BY <1>8, <2>1 DEF Spawn
    <3>2. UNCHANGED <<wrap, job, term, stop, kills, overlapped>>
      BY <1>8, <2>1 DEF Spawn
    <3>3. QED
      BY <1>8, <3>1, <3>2
  <2>2. CASE r \notin DryRuns
    BY <1>8, <2>2 DEF Spawn
  <2>3. QED
    BY <2>1, <2>2
<1>9. ASSUME NEW r \in Runs, WritePid(r) PROVE TypeInv'
  BY <1>9 DEF WritePid
<1>10. ASSUME NEW r \in Runs, Poll(r) PROVE TypeInv'
  BY <1>10 DEF Poll
<1>11. ASSUME NEW r \in Runs, JobEnd(r) PROVE TypeInv'
  BY <1>11 DEF JobEnd
<1>12. ASSUME NEW r \in Runs, QueueEnd(r) PROVE TypeInv'
  BY <1>12 DEF QueueEnd
<1>13. ASSUME NEW r \in Runs, Release(r) PROVE TypeInv'
  BY <1>13 DEF Release
<1>14. ASSUME NEW r \in Runs, Kill(r) PROVE TypeInv'
  BY <1>14 DEF Kill
<1>15. CASE StopRead
  BY <1>15 DEF StopRead
<1>16. CASE StopTerm
  BY <1>16 DEF StopTerm
<1>17. CASE StopDocker
  BY <1>17 DEF StopDocker
<1>18. CASE StopRemove
  BY <1>18 DEF StopRemove
<1>19. CASE OtherTake
  BY <1>19 DEF OtherTake
<1>20. CASE OtherGive
  BY <1>20 DEF OtherGive
<1>21. CASE GpuTake
  BY <1>21 DEF GpuTake
<1>22. CASE GpuGive
  BY <1>22 DEF GpuGive
<1>23. CASE UNCHANGED vars
  BY <1>23 DEF vars, counts
<1>24. QED
  BY <1>1, <1>2, <1>3, <1>4, <1>5, <1>6, <1>7, <1>8, <1>9, <1>10, <1>11, <1>12, <1>13, <1>14, <1>15, <1>16, <1>17, <1>18, <1>19, <1>20, <1>21, <1>22, <1>23 DEF Next, Script, Wrapper, Stop

LEMMA NextOwnerInv == TypeInv /\ OwnerInv /\ [Next]_vars => OwnerInv'
<1> SUFFICES ASSUME TypeInv, OwnerInv, [Next]_vars PROVE OwnerInv'
  OBVIOUS
<1> USE RunsAssumption DEF TypeInv, OwnerInv, States, Ended, NoLock, Goto, counts, Live
<1>1. ASSUME NEW r \in Runs, Start(r) PROVE OwnerInv'
  BY <1>1 DEF Start
<1>2. ASSUME NEW r \in Runs, Preflight(r) PROVE OwnerInv'
  BY <1>2 DEF Preflight
<1>3. ASSUME NEW r \in Runs, ReadOwner(r) PROVE OwnerInv'
  BY <1>3 DEF ReadOwner
<1>4. ASSUME NEW r \in Runs, ReadPid(r) PROVE OwnerInv'
  BY <1>4 DEF ReadPid
<1>5. ASSUME NEW r \in Runs, RemoveStale(r) PROVE OwnerInv'
  BY <1>5 DEF RemoveStale
<1>6. ASSUME NEW r \in Runs, Mkdir(r) PROVE OwnerInv'
  BY <1>6 DEF Mkdir
<1>7. ASSUME NEW r \in Runs, WriteOwner(r) PROVE OwnerInv'
  BY <1>7 DEF WriteOwner
<1>8. ASSUME NEW r \in Runs, Spawn(r) PROVE OwnerInv'
  BY <1>8 DEF Spawn
<1>9. ASSUME NEW r \in Runs, WritePid(r) PROVE OwnerInv'
  BY <1>9 DEF WritePid
<1>10. ASSUME NEW r \in Runs, Poll(r) PROVE OwnerInv'
  BY <1>10 DEF Poll
<1>11. ASSUME NEW r \in Runs, JobEnd(r) PROVE OwnerInv'
  BY <1>11 DEF JobEnd
<1>12. ASSUME NEW r \in Runs, QueueEnd(r) PROVE OwnerInv'
  BY <1>12 DEF QueueEnd
<1>13. ASSUME NEW r \in Runs, Release(r) PROVE OwnerInv'
  BY <1>13 DEF Release
<1>14. ASSUME NEW r \in Runs, Kill(r) PROVE OwnerInv'
  BY <1>14 DEF Kill
<1>15. CASE StopRead
  BY <1>15 DEF StopRead
<1>16. CASE StopTerm
  BY <1>16 DEF StopTerm
<1>17. CASE StopDocker
  BY <1>17 DEF StopDocker
<1>18. CASE StopRemove
  BY <1>18 DEF StopRemove
<1>19. CASE OtherTake
  BY <1>19 DEF OtherTake
<1>20. CASE OtherGive
  BY <1>20 DEF OtherGive
<1>21. CASE GpuTake
  BY <1>21 DEF GpuTake
<1>22. CASE GpuGive
  BY <1>22 DEF GpuGive
<1>23. CASE UNCHANGED vars
  BY <1>23 DEF vars, counts
<1>24. QED
  BY <1>1, <1>2, <1>3, <1>4, <1>5, <1>6, <1>7, <1>8, <1>9, <1>10, <1>11, <1>12, <1>13, <1>14, <1>15, <1>16, <1>17, <1>18, <1>19, <1>20, <1>21, <1>22, <1>23 DEF Next, Script, Wrapper, Stop

LEMMA NextAloneInv == TypeInv /\ AloneInv /\ [Next]_vars => AloneInv'
<1> SUFFICES ASSUME TypeInv, AloneInv, [Next]_vars PROVE AloneInv'
  OBVIOUS
<1> USE RunsAssumption DEF TypeInv, AloneInv, States, Ended, NoLock, Goto, counts, Live
<1>1. ASSUME NEW r \in Runs, Start(r) PROVE AloneInv'
  <2>1. ~overlapped' => ~overlapped /\ \A x \in Runs : run[x] \in Ended
    BY <1>1 DEF Start
  <2>2. CASE ~overlapped'
    BY <1>1, <2>1, <2>2 DEF Start
  <2>3. QED
    BY <2>2
<1>2. ASSUME NEW r \in Runs, Preflight(r) PROVE AloneInv'
  BY <1>2 DEF Preflight
<1>3. ASSUME NEW r \in Runs, ReadOwner(r) PROVE AloneInv'
  BY <1>3 DEF ReadOwner
<1>4. ASSUME NEW r \in Runs, ReadPid(r) PROVE AloneInv'
  BY <1>4 DEF ReadPid
<1>5. ASSUME NEW r \in Runs, RemoveStale(r) PROVE AloneInv'
  BY <1>5 DEF RemoveStale
<1>6. ASSUME NEW r \in Runs, Mkdir(r) PROVE AloneInv'
  BY <1>6 DEF Mkdir
<1>7. ASSUME NEW r \in Runs, WriteOwner(r) PROVE AloneInv'
  BY <1>7 DEF WriteOwner
<1>8. ASSUME NEW r \in Runs, Spawn(r) PROVE AloneInv'
  BY <1>8 DEF Spawn
<1>9. ASSUME NEW r \in Runs, WritePid(r) PROVE AloneInv'
  BY <1>9 DEF WritePid
<1>10. ASSUME NEW r \in Runs, Poll(r) PROVE AloneInv'
  BY <1>10 DEF Poll
<1>11. ASSUME NEW r \in Runs, JobEnd(r) PROVE AloneInv'
  BY <1>11 DEF JobEnd
<1>12. ASSUME NEW r \in Runs, QueueEnd(r) PROVE AloneInv'
  BY <1>12 DEF QueueEnd
<1>13. ASSUME NEW r \in Runs, Release(r) PROVE AloneInv'
  BY <1>13 DEF Release
<1>14. ASSUME NEW r \in Runs, Kill(r) PROVE AloneInv'
  BY <1>14 DEF Kill
<1>15. CASE StopRead
  BY <1>15 DEF StopRead
<1>16. CASE StopTerm
  BY <1>16 DEF StopTerm
<1>17. CASE StopDocker
  BY <1>17 DEF StopDocker
<1>18. CASE StopRemove
  BY <1>18 DEF StopRemove
<1>19. CASE OtherTake
  BY <1>19 DEF OtherTake
<1>20. CASE OtherGive
  BY <1>20 DEF OtherGive
<1>21. CASE GpuTake
  BY <1>21 DEF GpuTake
<1>22. CASE GpuGive
  BY <1>22 DEF GpuGive
<1>23. CASE UNCHANGED vars
  BY <1>23 DEF vars, counts
<1>24. QED
  BY <1>1, <1>2, <1>3, <1>4, <1>5, <1>6, <1>7, <1>8, <1>9, <1>10, <1>11, <1>12, <1>13, <1>14, <1>15, <1>16, <1>17, <1>18, <1>19, <1>20, <1>21, <1>22, <1>23 DEF Next, Script, Wrapper, Stop

LEMMA NextHeldInv == TypeInv /\ AloneInv /\ HeldInv /\ [Next]_vars => HeldInv'
<1> SUFFICES ASSUME TypeInv, AloneInv, HeldInv, [Next]_vars PROVE HeldInv'
  OBVIOUS
<1> USE RunsAssumption DEF TypeInv, AloneInv, HeldInv, InTurn, States, Ended, NoLock, Goto, counts, Live
<1>1. ASSUME NEW r \in Runs, Start(r) PROVE HeldInv'
  <2>1. InTurn' => InTurn
    BY <1>1 DEF Start
  <2>2. CASE InTurn'
    BY <1>1, <2>1, <2>2 DEF Start
  <2>3. QED
    BY <2>2
<1>2. ASSUME NEW r \in Runs, Preflight(r) PROVE HeldInv'
  BY <1>2 DEF Preflight
<1>3. ASSUME NEW r \in Runs, ReadOwner(r) PROVE HeldInv'
  BY <1>3 DEF ReadOwner
<1>4. ASSUME NEW r \in Runs, ReadPid(r) PROVE HeldInv'
  BY <1>4 DEF ReadPid
<1>5. ASSUME NEW r \in Runs, RemoveStale(r) PROVE HeldInv'
  BY <1>5 DEF RemoveStale
<1>6. ASSUME NEW r \in Runs, Mkdir(r) PROVE HeldInv'
  BY <1>6 DEF Mkdir
<1>7. ASSUME NEW r \in Runs, WriteOwner(r) PROVE HeldInv'
  BY <1>7 DEF WriteOwner
<1>8. ASSUME NEW r \in Runs, Spawn(r) PROVE HeldInv'
  BY <1>8 DEF Spawn
<1>9. ASSUME NEW r \in Runs, WritePid(r) PROVE HeldInv'
  BY <1>9 DEF WritePid
<1>10. ASSUME NEW r \in Runs, Poll(r) PROVE HeldInv'
  BY <1>10 DEF Poll
<1>11. ASSUME NEW r \in Runs, JobEnd(r) PROVE HeldInv'
  BY <1>11 DEF JobEnd
<1>12. ASSUME NEW r \in Runs, QueueEnd(r) PROVE HeldInv'
  BY <1>12 DEF QueueEnd
<1>13. ASSUME NEW r \in Runs, Release(r) PROVE HeldInv'
  BY <1>13 DEF Release
<1>14. ASSUME NEW r \in Runs, Kill(r) PROVE HeldInv'
  BY <1>14 DEF Kill
<1>15. CASE StopRead
  BY <1>15 DEF StopRead
<1>16. CASE StopTerm
  BY <1>16 DEF StopTerm
<1>17. CASE StopDocker
  BY <1>17 DEF StopDocker
<1>18. CASE StopRemove
  BY <1>18 DEF StopRemove
<1>19. CASE OtherTake
  BY <1>19 DEF OtherTake
<1>20. CASE OtherGive
  BY <1>20 DEF OtherGive
<1>21. CASE GpuTake
  BY <1>21 DEF GpuTake
<1>22. CASE GpuGive
  BY <1>22 DEF GpuGive
<1>23. CASE UNCHANGED vars
  BY <1>23 DEF vars, counts
<1>24. QED
  BY <1>1, <1>2, <1>3, <1>4, <1>5, <1>6, <1>7, <1>8, <1>9, <1>10, <1>11, <1>12, <1>13, <1>14, <1>15, <1>16, <1>17, <1>18, <1>19, <1>20, <1>21, <1>22, <1>23 DEF Next, Script, Wrapper, Stop

LEMMA NextStopInv == TypeInv /\ StopInv /\ [Next]_vars => StopInv'
<1> SUFFICES ASSUME TypeInv, StopInv, [Next]_vars PROVE StopInv'
  OBVIOUS
<1> USE RunsAssumption DEF TypeInv, StopInv, States, Ended, NoLock, Goto, counts, Live
<1>1. ASSUME NEW r \in Runs, Start(r) PROVE StopInv'
  BY <1>1 DEF Start
<1>2. ASSUME NEW r \in Runs, Preflight(r) PROVE StopInv'
  BY <1>2 DEF Preflight
<1>3. ASSUME NEW r \in Runs, ReadOwner(r) PROVE StopInv'
  BY <1>3 DEF ReadOwner
<1>4. ASSUME NEW r \in Runs, ReadPid(r) PROVE StopInv'
  BY <1>4 DEF ReadPid
<1>5. ASSUME NEW r \in Runs, RemoveStale(r) PROVE StopInv'
  BY <1>5 DEF RemoveStale
<1>6. ASSUME NEW r \in Runs, Mkdir(r) PROVE StopInv'
  BY <1>6 DEF Mkdir
<1>7. ASSUME NEW r \in Runs, WriteOwner(r) PROVE StopInv'
  BY <1>7 DEF WriteOwner
<1>8. ASSUME NEW r \in Runs, Spawn(r) PROVE StopInv'
  BY <1>8 DEF Spawn
<1>9. ASSUME NEW r \in Runs, WritePid(r) PROVE StopInv'
  BY <1>9 DEF WritePid
<1>10. ASSUME NEW r \in Runs, Poll(r) PROVE StopInv'
  BY <1>10 DEF Poll
<1>11. ASSUME NEW r \in Runs, JobEnd(r) PROVE StopInv'
  BY <1>11 DEF JobEnd
<1>12. ASSUME NEW r \in Runs, QueueEnd(r) PROVE StopInv'
  BY <1>12 DEF QueueEnd
<1>13. ASSUME NEW r \in Runs, Release(r) PROVE StopInv'
  BY <1>13 DEF Release
<1>14. ASSUME NEW r \in Runs, Kill(r) PROVE StopInv'
  BY <1>14 DEF Kill
<1>15. CASE StopRead
  BY <1>15 DEF StopRead
<1>16. CASE StopTerm
  BY <1>16 DEF StopTerm
<1>17. CASE StopDocker
  <2>1. ASSUME NEW r \in Runs \ LongRuns, wrap[r] = "work"
        PROVE  job'[r] >= 1
    BY <1>17, <2>1 DEF StopDocker, Jobs
  <2>2. QED
    BY <1>17, <2>1 DEF StopDocker
<1>18. CASE StopRemove
  BY <1>18 DEF StopRemove
<1>19. CASE OtherTake
  BY <1>19 DEF OtherTake
<1>20. CASE OtherGive
  BY <1>20 DEF OtherGive
<1>21. CASE GpuTake
  BY <1>21 DEF GpuTake
<1>22. CASE GpuGive
  BY <1>22 DEF GpuGive
<1>23. CASE UNCHANGED vars
  BY <1>23 DEF vars, counts
<1>24. QED
  BY <1>1, <1>2, <1>3, <1>4, <1>5, <1>6, <1>7, <1>8, <1>9, <1>10, <1>11, <1>12, <1>13, <1>14, <1>15, <1>16, <1>17, <1>18, <1>19, <1>20, <1>21, <1>22, <1>23 DEF Next, Script, Wrapper, Stop

LEMMA NextIInv == IInv /\ [Next]_vars => IInv'
BY NextTypeInv, NextOwnerInv, NextAloneInv, NextHeldInv, NextStopInv DEF IInv

LEMMA Invariant == Spec => []IInv
BY InitIInv, NextIInv, PTL DEF Spec

-----------------------------------------------------------------------------
(* run.sh.                                                                 *)

\* Two calls one after the other never time two jobs at once, nor one beside
\* another project's: of everything alive, the owner file names each.
LEMMA HeldExcludes == TypeInv /\ HeldInv => ExclusiveInTurn
<1> SUFFICES ASSUME TypeInv, HeldInv, InTurn PROVE Exclusive
  BY DEF ExclusiveInTurn
<1> DEFINE S == {r \in Runs : wrap[r] = "work"}
                \cup (IF other THEN {Other} ELSE {})
<1>1. ASSUME NEW x \in S PROVE x = lock.owner
  <2>1. CASE x \in Runs /\ wrap[x] = "work"
    BY <2>1 DEF HeldInv, Live
  <2>2. CASE other /\ x = Other
    BY <2>2 DEF HeldInv
  <2>3. QED
    BY <1>1, <2>1, <2>2
<1>2. S \in SUBSET {lock.owner}
  BY <1>1
<1>3. Cardinality(S) <= 1
  <2>1. IsFiniteSet({lock.owner}) /\ Cardinality({lock.owner}) = 1
    BY FS_Singleton
  <2> HIDE DEF S
  <2>2. Cardinality(S) <= Cardinality({lock.owner})
    BY <1>2, <2>1, FS_Subset
  <2>3. QED
    BY <2>1, <2>2
<1>4. QED
  BY <1>3 DEF Exclusive

\* run.sh: no two timing jobs run at the same time, as long as calls do not
\* overlap and no run was stopped, whatever is killed in between and whoever
\* else takes the lock.
THEOREM ExclusiveCalls == Spec => []ExclusiveInTurn
<1>1. IInv => ExclusiveInTurn
  BY HeldExcludes DEF IInv
<1>2. QED
  BY <1>1, Invariant, PTL

\* run.sh --stop: when it has returned, the one job of the run that it
\* stopped has ended and none is started later.
THEOREM StopEnds == Spec => []StopStops
<1>1. IInv => StopStops
  BY DEF IInv, StopInv, StopStops, Jobs, TypeInv
<1>2. QED
  BY <1>1, Invariant, PTL

\* run.sh: a call is refused only while somebody alive has the lock, or is
\* just taking it.
THEOREM RefusalsInUse == Spec => RefusedInUse
<1> DEFINE A == \A r \in Runs :
                   /\ run[r] # "refused" /\ run'[r] = "refused"
                   /\ ~overlapped \/ kills = 0
                   => InUse
<1>1. IInv /\ [Next]_vars => [A]_vars
  <2> SUFFICES ASSUME IInv, Next, NEW r \in Runs,
                      run[r] # "refused", run'[r] = "refused",
                      ~overlapped \/ kills = 0
               PROVE  InUse
    OBVIOUS
  <2> USE DEF IInv, TypeInv, OwnerInv, AloneInv, InUse, Live
  <2>1. Preflight(r) \/ Mkdir(r)
    BY DEF Next, Script, Wrapper, Stop, Start, ReadOwner, ReadPid, RemoveStale,
           WriteOwner, Spawn, WritePid, Poll, JobEnd, QueueEnd, Release, Kill,
           StopRead, StopTerm, StopDocker, StopRemove, OtherTake, OtherGive,
           GpuTake, GpuGive, Goto, Preflight, Mkdir
  <2>2. CASE Preflight(r)
    BY <2>2 DEF Preflight, Goto
  <2>3. CASE Mkdir(r)
    BY <2>3 DEF Mkdir, Goto
  <2>4. QED
    BY <2>1, <2>2, <2>3
<1>2. QED
  BY <1>1, Invariant, PTL DEF Spec, RefusedInUse
=============================================================================
