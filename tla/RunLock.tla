------------------------------ MODULE RunLock -------------------------------
(***************************************************************************)
(* Overlap protection of collector runs: RunLockService                    *)
(* (app/services/run_lock.py) as the pipelines and the dashboard use it.   *)
(*                                                                         *)
(* A process slot is one place a collector is started from: a scheduler    *)
(* timer, a manual command, a RUN NOW subprocess.  Every firing first      *)
(* recovers the stale RUNNING rows of its collector, then asks the kernel  *)
(* for the advisory lock on its lock file, and either runs under it or     *)
(* records SKIPPED_OVERLAP.  A probe slot is a dashboard request that asks *)
(* whether the lock is held (is_locked): it recovers stale rows too, and   *)
(* takes the lock for an instant to find out.                              *)
(*                                                                         *)
(* A collector id owns rows; a lock file may be shared by several ids      *)
(* (casio_japan and casio_multi share one).  A row ages once: Age stands   *)
(* for the passing of stale_run_threshold_minutes, nothing else reads the  *)
(* clock.                                                                  *)
(***************************************************************************)
EXTENDS Naturals

CONSTANTS Proc,       \* slots a run is started from
          Probe,      \* slots is_locked is called from
          Lane,       \* collector ids
          LockFile,   \* advisory lock files
          LaneOf,     \* the collector id of every slot
          FileOf,     \* the lock file of every collector id
          Run,        \* ids of the rows of collector_runs
          NoRun,      \* no row
          NoLane,     \* the collector id of a row that is not there
          Nobody      \* no holder

Slot == Proc \union Probe

ASSUME SlotsAssumption ==
    /\ Proc \intersect Probe = {}
    /\ Nobody \notin Slot
    /\ NoRun \notin Run
    /\ NoLane \notin Lane
    /\ LaneOf \in [Slot -> Lane]
    /\ FileOf \in [Lane -> LockFile]

VARIABLES pc,         \* where each slot is
          grant,      \* holder of the kernel lock of each file
          status,     \* CollectorRun.status of each row
          rowLane,    \* CollectorRun.collector_id of each row
          aged,       \* the row is older than the stale threshold
          recovered,  \* the row was closed by stale recovery
          mine        \* the row a slot's current run writes to

vars == <<pc, grant, status, rowLane, aged, recovered, mine>>

(* Statuses a run can end with (README, "Run statuses"). *)
EndStatus == {"SUCCESS", "PARTIAL", "ZERO_ITEMS", "BLOCKED", "FAILED"}
RowStatus == EndStatus \union {"ABSENT", "RUNNING", "SKIPPED_OVERLAP"}

(* The slot holds the kernel lock at these points. *)
Holding == {"granted", "running", "ended"}

PC == Holding \union {"idle", "recovered", "denied"}

File(s) == FileOf[LaneOf[s]]

(* A process of this slot is executing the run that writes row r. *)
Live(r) == \E p \in Proc : mine[p] = r

TypeOK ==
    /\ pc \in [Slot -> PC]
    /\ grant \in [LockFile -> Slot \union {Nobody}]
    /\ status \in [Run -> RowStatus]
    /\ rowLane \in [Run -> Lane \union {NoLane}]
    /\ aged \in [Run -> BOOLEAN]
    /\ recovered \in [Run -> BOOLEAN]
    /\ mine \in [Proc -> Run \union {NoRun}]

Init ==
    /\ pc = [s \in Slot |-> "idle"]
    /\ grant = [f \in LockFile |-> Nobody]
    /\ status = [r \in Run |-> "ABSENT"]
    /\ rowLane = [r \in Run |-> NoLane]
    /\ aged = [r \in Run |-> FALSE]
    /\ recovered = [r \in Run |-> FALSE]
    /\ mine = [p \in Proc |-> NoRun]

-----------------------------------------------------------------------------
(* Stale recovery *)

StaleRows_AnyStatus(l) ==
    {r \in Run : rowLane[r] = l /\ status[r] # "ABSENT" /\ aged[r]}
StaleRows_Younger(l) ==
    {r \in Run : rowLane[r] = l /\ status[r] = "RUNNING" /\ ~aged[r]}
StaleRows(l) == {r \in Run : rowLane[r] = l /\ status[r] = "RUNNING" /\ aged[r]}

(* recover_stale_runs: every old RUNNING row of the collector becomes      *)
(* FAILED, in one commit.  Whether its process still runs is not asked.    *)
Recover(s) ==
    /\ pc[s] = "idle"
    /\ status' = [r \in Run |-> IF r \in StaleRows(LaneOf[s]) THEN "FAILED" ELSE status[r]]
    /\ recovered' = [r \in Run |-> r \in StaleRows(LaneOf[s]) \/ recovered[r]]
    /\ pc' = [pc EXCEPT ![s] = "recovered"]
    /\ UNCHANGED <<grant, rowLane, aged, mine>>

-----------------------------------------------------------------------------
(* The kernel lock *)

(* flock(LOCK_EX | LOCK_NB) succeeds. *)
Obtainable_NotAsked(s) == TRUE
Obtainable(s) == grant[File(s)] = Nobody

Take(s) ==
    /\ pc[s] = "recovered"
    /\ Obtainable(s)
    /\ grant' = [grant EXCEPT ![File(s)] = s]
    /\ pc' = [pc EXCEPT ![s] = "granted"]
    /\ UNCHANGED <<status, rowLane, aged, recovered, mine>>

(* flock fails: acquire returns active_file_grant, is_locked returns True. *)
Refuse(s) ==
    /\ pc[s] = "recovered"
    /\ ~Obtainable(s)
    /\ pc' = [pc EXCEPT ![s] = IF s \in Probe THEN "idle" ELSE "denied"]
    /\ UNCHANGED <<grant, status, rowLane, aged, recovered, mine>>

(* The holder file of s is given up. *)
Dropped_Leaked(s) == grant
Dropped(s) == [grant EXCEPT ![File(s)] = IF @ = s THEN Nobody ELSE @]

(* acquire grants, but writing the diagnostic JSON fails: grant dropped. *)
MetadataFails(p) ==
    /\ pc[p] = "granted"
    /\ grant' = Dropped(p)
    /\ pc' = [pc EXCEPT ![p] = "denied"]
    /\ UNCHANGED <<status, rowLane, aged, recovered, mine>>

(* is_locked found the lock free and lets it go again. *)
EndProbe(s) ==
    /\ pc[s] = "granted"
    /\ grant' = Dropped(s)
    /\ pc' = [pc EXCEPT ![s] = "idle"]
    /\ UNCHANGED <<status, rowLane, aged, recovered, mine>>

-----------------------------------------------------------------------------
(* The run *)

(* A new row of the collector of p with this status, committed. *)
InsertRow(p, r, st) ==
    /\ status[r] = "ABSENT"
    /\ status' = [status EXCEPT ![r] = st]
    /\ rowLane' = [rowLane EXCEPT ![r] = LaneOf[p]]
    /\ aged' = [aged EXCEPT ![r] = FALSE]
    /\ recovered' = [recovered EXCEPT ![r] = FALSE]

RecordOverlap(p, r) ==
    /\ pc[p] = "denied"
    /\ InsertRow(p, r, "SKIPPED_OVERLAP")
    /\ pc' = [pc EXCEPT ![p] = "idle"]
    /\ UNCHANGED <<grant, mine>>

StartRun(p, r) ==
    /\ pc[p] = "granted"
    /\ InsertRow(p, r, "RUNNING")
    /\ mine' = [mine EXCEPT ![p] = r]
    /\ pc' = [pc EXCEPT ![p] = "running"]
    /\ UNCHANGED grant

(* The run's closing commit: run.status is assigned whatever it has become *)
(* meanwhile.  The pipelines' except branch is the same with FAILED.       *)
Finish(p, st) ==
    /\ pc[p] = "running"
    /\ status' = [status EXCEPT ![mine[p]] = st]
    /\ pc' = [pc EXCEPT ![p] = "ended"]
    /\ UNCHANGED <<grant, rowLane, aged, recovered, mine>>

(* lock.release in the finally block. *)
Release(p) ==
    /\ pc[p] = "ended"
    /\ grant' = Dropped(p)
    /\ mine' = [mine EXCEPT ![p] = NoRun]
    /\ pc' = [pc EXCEPT ![p] = "idle"]
    /\ UNCHANGED <<status, rowLane, aged, recovered>>

(* The process dies at any point (kill, reboot, container stop, subprocess *)
(* timeout).  The kernel frees its lock; the row stays as it is.           *)
Crash(p) ==
    /\ pc[p] # "idle"
    /\ grant' = Dropped(p)
    /\ mine' = [mine EXCEPT ![p] = NoRun]
    /\ pc' = [pc EXCEPT ![p] = "idle"]
    /\ UNCHANGED <<status, rowLane, aged, recovered>>

(* A RUNNING row passes the stale threshold. *)
Age(r) ==
    /\ status[r] = "RUNNING"
    /\ ~aged[r]
    /\ aged' = [aged EXCEPT ![r] = TRUE]
    /\ UNCHANGED <<pc, grant, status, rowLane, recovered, mine>>

(* Bound of the model, not a step of the program: Run is a window of       *)
(* recent rows, and a closed row leaves it.                                *)
Forget(r) ==
    /\ status[r] \notin {"ABSENT", "RUNNING"}
    /\ ~Live(r)
    /\ status' = [status EXCEPT ![r] = "ABSENT"]
    /\ recovered' = [recovered EXCEPT ![r] = FALSE]
    /\ aged' = [aged EXCEPT ![r] = FALSE]
    /\ rowLane' = [rowLane EXCEPT ![r] = NoLane]
    /\ UNCHANGED <<pc, grant, mine>>

(* Bound of the model: every row of the window is still RUNNING, so the    *)
(* process is taken to have died before it could insert another.           *)
WindowFull(p) ==
    /\ pc[p] \in {"granted", "denied"}
    /\ \A r \in Run : status[r] # "ABSENT"
    /\ Crash(p)

Acquire(s) == Recover(s) \/ Take(s) \/ Refuse(s)

RunStep(p) ==
    \/ Acquire(p)
    \/ MetadataFails(p)
    \/ \E r \in Run : RecordOverlap(p, r) \/ StartRun(p, r)
    \/ \E st \in EndStatus : Finish(p, st)
    \/ Release(p)
    \/ WindowFull(p)

ProbeStep(s) == Acquire(s) \/ EndProbe(s)

Next ==
    \/ \E p \in Proc : RunStep(p) \/ Crash(p)
    \/ \E s \in Probe : ProbeStep(s)
    \/ \E r \in Run : Age(r) \/ Forget(r)

(* Fairness: a slot keeps firing and a process keeps executing (timers and *)
(* operating system scheduling), time passes, and rows leave the window.   *)
(* Nothing obliges a process to crash or a run to reach any given status.  *)
Spec == Init /\ [][Next]_vars

FairSpec ==
    /\ Spec
    /\ \A p \in Proc : WF_vars(RunStep(p))
    /\ \A s \in Probe : WF_vars(ProbeStep(s))
    /\ \A r \in Run : WF_vars(Age(r)) /\ WF_vars(Forget(r))

-----------------------------------------------------------------------------
(* Properties *)

(* Two processes never execute runs under the same lock file at the same   *)
(* time, across stale recovery of a live row, crashes and probes: the      *)
(* kernel grant is the sole authority (run_lock.py:3-5).                   *)
MutualExclusion ==
    \A p, q \in Proc :
        pc[p] \in Holding /\ pc[q] \in Holding /\ File(p) = File(q) => p = q

(* A row is written by one process only, and a RUNNING row with a live     *)
(* process behind it is the only such row of its lock file.                *)
OneLiveRunPerFile ==
    \A p, q \in Proc :
        /\ mine[p] # NoRun /\ mine[p] = mine[q] => p = q
        /\ mine[p] # NoRun /\ mine[q] # NoRun /\ p # q => File(p) # File(q)

(* A closed row is reopened or restated by nobody but the process whose    *)
(* run it is: recovery by other processes, probes and later runs leave the *)
(* verdict of a finished run alone.                                        *)
ClosedRowsAreTheirOwners ==
    [][\A r \in Run :
          status[r] \in EndStatus \union {"SKIPPED_OVERLAP"} /\ status'[r] # status[r]
             => \/ status'[r] = "ABSENT"
                \/ \E p \in Proc : mine[p] = r /\ pc[p] = "running"]_vars

(* No RUNNING row stays RUNNING for ever: its own run closes it, or, when  *)
(* the process died, the collector's next firing does.  This is what keeps *)
(* a crashed run from looking active for ever (run_lock.py:45-50).         *)
RowsEventuallyClose ==
    \A r \in Run : status[r] = "RUNNING" ~> status[r] # "RUNNING"

(* Every lock that is taken is let go: a crash, a failed metadata write or *)
(* a probe never leaves a lock file locked, so later firings can run.      *)
LocksAreFreed ==
    \A f \in LockFile : grant[f] # Nobody ~> grant[f] = Nobody

-----------------------------------------------------------------------------
(* Refinement: the processes holding a lock are the ones inside.           *)
Overlap == INSTANCE OverlapGuard
    WITH Worker <- Slot, Resource <- LockFile,
         ResourceOf <- [s \in Slot |-> File(s)],
         inside <- {s \in Slot : pc[s] \in Holding}

ImplementsOverlapGuard == Overlap!Spec
=============================================================================
