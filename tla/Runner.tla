------------------------------- MODULE Runner -------------------------------
(***************************************************************************)
(* The daemon as a process: what scripts/daemon_run.py run() and           *)
(* scripts/tickerd_daemon_run.py run() do around the cycles, from the      *)
(* environment they read to the exit code, and the files by which they     *)
(* meet: the lock, the owner record with its heartbeat, the health record, *)
(* the state stamp and the database.                                       *)
(*                                                                         *)
(* Processes of both kinds start, stop, fail and are killed side by side.  *)
(* Their order of steps differs: the compatibility daemon takes the lock   *)
(* before it opens the store, the tickerd daemon opens the store, writes   *)
(* the stamp and only then asks for the lock.  The cycle of tickerd's      *)
(* ForegroundRunner and RuntimeKernel is not in the repository; here it is *)
(* what the adapters and tests of the repository use of it.                *)
(*                                                                         *)
(* A cycle is taken by its outcome (what a cycle does is Dispatch), the    *)
(* bootstrap by its result (how it gets there is Migrations), a cycle id   *)
(* by whether that cycle was a success, a fail token by what it leads to.  *)
(* Time is the age of the heartbeat, which stops counting above the        *)
(* threshold, and the passing of the reconcile boundaries.                 *)
(***************************************************************************)
EXTENDS Integers, FiniteSets

CONSTANTS
  Daemons,       \* processes that run scripts/daemon_run.py
  Tickers,       \* processes that run scripts/tickerd_daemon_run.py
  Configs,       \* the environments they may be started with
  StaleAfter,    \* stale threshold of the heartbeat
  MaxFaults      \* bound: kills, failing writes and failing bootstraps

Procs == Daemons \cup Tickers
None == "none"

\* The environment as load_runner_config reads it.
ConfigShape == [db : BOOLEAN, tick : Int, fatal : Int, grace : Int, window : Int,
                contract : BOOLEAN]

ASSUME RunnerAssumption ==
  /\ Daemons \cap Tickers = {}
  /\ None \notin Procs
  /\ Configs \subseteq ConfigShape
  /\ StaleAfter \in Nat
  /\ MaxFaults \in Nat

VARIABLES
  pc,           \* per process: its point in run()
  limit,        \* per process: max_consecutive_fatal_cycles of its environment
  stop,         \* per process: SIGTERM or SIGINT has been handled
  fatals,       \* per process: consecutive_fatals
  succeeded,    \* per process: has_success
  due,          \* per process: the newest boundary is past last_reconcile_boundary
  reconciling,  \* per process: do_reconcile of the cycle that runs
  crossed,      \* per process: a boundary has passed since that cycle began
  lock,         \* who holds the exclusive flock
  owner,        \* the owner record: by whom, and the age of the heartbeat
  tmp,          \* the file a health record waits in until it is renamed, or no file
  after,        \* per process: where its write of the record leads to
  health,       \* the health record
  stamped,      \* the state stamp has been written
  schema,       \* the database: as the last release left it, migrated, or half way
  faults

cycleVars == <<fatals, succeeded, due, reconciling, crossed>>
local == <<pc, limit, stop, cycleVars, after>>
files == <<lock, owner, tmp, health, stamped, schema>>
vars == <<local, files, faults>>

Points == {"down", "lock", "open", "announce", "stamp", "loop", "cycle", "beat", "rename",
           "handler", "release"}
States == {"absent", "starting", "ready", "degraded", "stopping", "failed"}
Records == [by : Procs \cup {None}, state : States, ready : BOOLEAN]
NoFile == [by |-> None, state |-> "absent", ready |-> FALSE]
Nowhere == [ok |-> "down", lost |-> "down"]

TypeOK ==
  /\ pc \in [Procs -> Points]
  /\ limit \in [Procs -> Int]
  /\ stop \in [Procs -> BOOLEAN]
  /\ fatals \in [Procs -> Nat]
  /\ succeeded \in [Procs -> BOOLEAN]
  /\ due \in [Procs -> BOOLEAN]
  /\ reconciling \in [Procs -> BOOLEAN]
  /\ crossed \in [Procs -> BOOLEAN]
  /\ lock \in Procs \cup {None}
  /\ owner \in [by : Procs \cup {None}, age : 0..StaleAfter + 1]
  /\ tmp \in Records
  /\ after \in [Procs -> [ok : Points, lost : Points]]
  /\ health \in Records
  /\ stamped \in BOOLEAN
  /\ schema \in {"old", "whole", "half"}
  /\ faults \in Nat

Everywhere(v) == [p \in Procs |-> v]

Init ==
  /\ pc = Everywhere("down")
  /\ limit = Everywhere(0)
  /\ stop = Everywhere(FALSE)
  /\ fatals = Everywhere(0)
  /\ succeeded = Everywhere(FALSE)
  /\ due = Everywhere(FALSE)
  /\ reconciling = Everywhere(FALSE)
  /\ crossed = Everywhere(FALSE)
  /\ lock = None
  /\ owner = [by |-> None, age |-> 0]
  /\ tmp = NoFile
  /\ after = Everywhere(Nowhere)
  /\ health = NoFile
  /\ stamped = FALSE
  /\ schema = "old"
  /\ faults = 0

-----------------------------------------------------------------------------
(* Configuration *)

\* load_runner_config: RunnerExit for a missing path or a number out of range.
LoadRefuses(c) == ~c.db \/ c.tick <= 0 \/ c.fatal <= 0 \/ c.window <= 0

\* validate_daemon_config on the dictionary that run() derives: the tick must be
\* at least a second, the grace positive; what is derived from the tick then is
\* in range.  It raises ConfigValidationError, which is no RunnerExit.
Greater(a, b) == IF a > b THEN a ELSE b
ValidateRaises(c) ==
  \/ c.tick < 1000 \/ Greater(5000, 5 * c.tick) < 5000 \/ Greater(1000, 2 * c.tick) <= 0
  \/ c.grace <= 0 \/ c.fatal <= 0

-----------------------------------------------------------------------------
(* Files *)

Goto(p, to) == pc' = [pc EXCEPT ![p] = to]
Put(f, p, v) == [f EXCEPT ![p] = v]

Fault == faults < MaxFaults /\ faults' = faults + 1

Written(p, ok, lost) ==
  /\ after' = Put(after, p, [ok |-> ok, lost |-> lost])
  /\ Goto(p, "rename")
  /\ UNCHANGED faults

NotWritten(p, lost) ==
  /\ Fault
  /\ Goto(p, lost)
  /\ UNCHANGED <<tmp, after>>

\* A slip: a record of a failure is kept.
WriteUnlessFailed(p, state, ready, ok, lost) ==
  \/ /\ tmp' = IF health.state = "failed" THEN health
               ELSE [by |-> p, state |-> state, ready |-> ready]
     /\ Written(p, ok, lost)
  \/ NotWritten(p, lost)

\* write_health: the whole record goes into a file next to it, of the same name
\* for every process, to be renamed by Rename.  The process goes on at ok, or with
\* HEALTH_WRITE_FAILED at lost.
WriteHealth(p, state, ready, ok, lost) ==
  \/ /\ tmp' = [by |-> p, state |-> state, ready |-> ready]
     /\ Written(p, ok, lost)
  \/ NotWritten(p, lost)

\* The rename takes what is in the file by now, which may be the record of another
\* process, and fails if another process has renamed it already.
Rename(p) ==
  /\ pc[p] = "rename"
  /\ \/ tmp # NoFile /\ health' = tmp /\ Goto(p, after[p].ok)
     \/ tmp = NoFile /\ Goto(p, after[p].lost) /\ UNCHANGED health
  /\ tmp' = NoFile
  /\ after' = Put(after, p, Nowhere)
  /\ UNCHANGED <<limit, stop, cycleVars, lock, owner, stamped, schema, faults>>

\* A slip: a degraded runner is ready.
SinkReady(p, snapshot, good, failed, to, lost) ==
  CASE snapshot \in {"UP", "DEGRADED"} -> WriteHealth(p, IF good THEN "ready" ELSE "degraded", TRUE, to, lost)
    [] OTHER -> WriteHealth(p, IF failed THEN "failed" ELSE "stopping", FALSE, to, lost)

\* KinflowHealthSink.write: the record for a snapshot of tickerd's runner, which
\* has a last successful cycle or not, and a reason of failure or not.
SinkHealth(p, snapshot, good, failed, to, lost) ==
  CASE snapshot = "UP" -> WriteHealth(p, "ready", TRUE, to, lost)
    [] snapshot = "DEGRADED" -> WriteHealth(p, IF good THEN "degraded" ELSE "starting", good, to, lost)
    [] OTHER -> WriteHealth(p, IF failed THEN "failed" ELSE "stopping", FALSE, to, lost)

-----------------------------------------------------------------------------
(* Startup.  A RunnerExit goes on at "handler", which writes the health     *)
(* record "failed"; any other exception leaves by the finally clause alone, *)
(* at "release", and touches no record.                                     *)

\* Steps 1 to 5: environment, daemon configuration (not by tickerd_daemon_run),
\* contract versions.  Without a configuration the handler knows no path to
\* write to.
AfterConfig(p, c) ==
  CASE LoadRefuses(c) -> "release"
    [] ~LoadRefuses(c) /\ p \in Daemons /\ ValidateRaises(c) -> "release"
    [] OTHER -> IF ~c.contract THEN "handler" ELSE IF p \in Daemons THEN "lock" ELSE "open"

\* A supervisor starts the process; its counters begin anew, and so does the
\* last reconcile boundary, which makes a reconciliation due at once.
Start(p) ==
  /\ pc[p] = "down"
  /\ \E c \in Configs :
       /\ limit' = Put(limit, p, c.fatal)
       /\ Goto(p, AfterConfig(p, c))
  /\ due' = Put(due, p, TRUE)
  /\ UNCHANGED <<stop, fatals, succeeded, reconciling, crossed, after, files, faults>>

\* Whom the LOCK_TAKEOVER record names: the owner found there, if its heartbeat is
\* older than the threshold.
TakenOver == IF owner.by # None /\ owner.age > StaleAfter THEN owner.by ELSE None

\* A slip: a stale heartbeat is enough.
AcquireStale(p) ==
  /\ pc[p] = "lock"
  /\ lock = None \/ owner.age > StaleAfter
  /\ lock' = p
  /\ owner' = [by |-> p, age |-> 0]
  /\ Goto(p, IF p \in Daemons THEN "open" ELSE "loop")
  /\ UNCHANGED <<limit, stop, cycleVars, after, tmp, health, stamped, schema, faults>>

\* SingletonGuard.acquire_and_verify (for tickerd: FileLockBackend on the same
\* files): the flock, the takeover record about TakenOver, the owner record of its
\* own, read back under the lock.
Acquire(p) ==
  /\ pc[p] = "lock"
  /\ lock = None
  /\ lock' = p
  /\ owner' = [by |-> p, age |-> 0]
  /\ Goto(p, IF p \in Daemons THEN "open" ELSE "loop")
  /\ UNCHANGED <<limit, stop, cycleVars, after, tmp, health, stamped, schema, faults>>

\* The lock is still held at the deadline: LOCK_ACQUIRE_FAILED.
LockTimeout(p) ==
  /\ pc[p] = "lock"
  /\ lock # None
  /\ Goto(p, "handler")
  /\ UNCHANGED <<limit, stop, cycleVars, after, files, faults>>

\* Step 7: SqliteStateStore.from_path with the migrations, the reason codes, the
\* callbacks and the adapter binding, which may be missing in the environment.  A
\* schema left half way refuses every bootstrap (Migrations!FailStop), with an
\* exception that is no RunnerExit.
OpenStore(p) ==
  /\ pc[p] = "open"
  /\ \/ schema = "half" /\ Goto(p, "release") /\ UNCHANGED schema
     \/ /\ schema # "half"
        /\ schema' = "whole"
        /\ \/ Goto(p, IF p \in Daemons THEN "announce" ELSE "stamp")
           \/ Goto(p, "handler")
  /\ UNCHANGED <<limit, stop, cycleVars, after, lock, owner, tmp, health, stamped, faults>>

\* An exception in the bootstrap (a locked database, the marker of another
\* bootstrap, a failing statement) or at the stamp.
StartupRaises(p) ==
  /\ pc[p] \in {"open", "stamp"}
  /\ Fault
  /\ Goto(p, "release")
  /\ schema' \in IF pc[p] = "open" /\ schema = "old" THEN {"old", "half"} ELSE {schema}
  /\ UNCHANGED <<limit, stop, cycleVars, after, lock, owner, tmp, health, stamped>>

\* Step 8: the health record "starting"; HEALTH_WRITE_FAILED ends the start.
Announce(p) ==
  /\ pc[p] = "announce"
  /\ WriteHealth(p, "starting", FALSE, "stamp", "handler")
  /\ UNCHANGED <<limit, stop, cycleVars, lock, owner, health, stamped, schema>>

\* Step 9: write_state_stamp.
Stamp(p) ==
  /\ pc[p] = "stamp"
  /\ stamped' = TRUE
  /\ Goto(p, IF p \in Daemons THEN "loop" ELSE "lock")
  /\ UNCHANGED <<limit, stop, cycleVars, after, lock, owner, tmp, health, schema, faults>>

-----------------------------------------------------------------------------
(* The loop *)

\* A slip: the flag is not looked at.
BeginAnyway(p) ==
  /\ pc[p] = "loop"
  /\ Goto(p, "cycle")
  /\ reconciling' = Put(reconciling, p, due[p])
  /\ UNCHANGED <<limit, stop, fatals, succeeded, due, crossed, after, files, faults>>

\* run_cycle begins: reconcile_due is computed from its start time.
BeginCycle(p) ==
  /\ pc[p] = "loop"
  /\ ~stop[p]
  /\ Goto(p, "cycle")
  /\ reconciling' = Put(reconciling, p, due[p])
  /\ UNCHANGED <<limit, stop, fatals, succeeded, due, crossed, after, files, faults>>

\* A slip: the boundary is read when the cycle ends.
CycleOverLate(p, reconciled) ==
  /\ due' = Put(due, p, ~(reconciling[p] /\ reconciled) /\ due[p])
  /\ reconciling' = Put(reconciling, p, FALSE)
  /\ crossed' = Put(crossed, p, FALSE)

\* The reconciliation is due again only for a boundary that passed meanwhile; one
\* that failed, or was not reached, stays due.
CycleOver(p, reconciled) ==
  /\ due' = Put(due, p, IF reconciling[p] /\ reconciled THEN crossed[p] ELSE due[p])
  /\ reconciling' = Put(reconciling, p, FALSE)
  /\ crossed' = Put(crossed, p, FALSE)

\* A slip: the count is set, not raised.
CountedOnce(p, ready) ==
  LET to == IF 1 >= limit[p] THEN "handler" ELSE "loop" IN
  /\ fatals' = Put(fatals, p, 1)
  /\ WriteHealth(p, "degraded", ready, to, to)

\* The handler of any exception in the loop but a RunnerExit counts it, writes a
\* record, where a failure to write is passed over, and stops at the threshold.
Counted(p, ready) ==
  LET to == IF fatals[p] + 1 >= limit[p] THEN "handler" ELSE "loop" IN
  /\ fatals' = Put(fatals, p, fatals[p] + 1)
  /\ WriteHealth(p, "degraded", ready, to, to)

\* run_cycle returns: candidates that were all processed or not, and the
\* reconciliation, when there is one; a cycle that is not a success leaves the
\* fatal count alone.  Then the health record; that it cannot be written is a
\* RunnerExit, which the loop passes on.
CycleReturns(p) ==
  /\ pc[p] = "cycle"
  /\ p \in Daemons
  /\ \E processed \in BOOLEAN, reconciled \in BOOLEAN :
       LET good == processed /\ (reconciling[p] => reconciled)
           ready == succeeded[p] \/ good
       IN
       /\ CycleOver(p, reconciled)
       /\ succeeded' = Put(succeeded, p, ready)
       /\ fatals' = Put(fatals, p, IF good THEN 0 ELSE fatals[p])
       /\ WriteHealth(p, IF good THEN "ready" ELSE "degraded", ready, "beat", "handler")
  /\ UNCHANGED <<limit, stop, lock, owner, health, stamped, schema>>

\* refresh_heartbeat, after the record.  The sleep that follows, or is skipped
\* after an overrun, changes nothing.
Beat(p) ==
  /\ pc[p] = "beat"
  /\ owner' = [by |-> p, age |-> 0]
  /\ Goto(p, "loop")
  /\ UNCHANGED <<limit, stop, cycleVars, after, lock, tmp, health, stamped, schema, faults>>

\* run_cycle raises, before or in its reconciliation.
CycleRaises(p) ==
  /\ pc[p] = "cycle"
  /\ p \in Daemons
  /\ CycleOver(p, FALSE)
  /\ Counted(p, succeeded[p])
  /\ UNCHANGED <<limit, stop, succeeded, lock, owner, health, stamped, schema>>

\* That the heartbeat cannot be written is an exception like one of the cycle,
\* though the cycle has been a success and has set the count to zero.
BeatFails(p) ==
  /\ pc[p] = "beat"
  /\ Counted(p, succeeded[p])
  /\ UNCHANGED <<limit, stop, succeeded, due, reconciling, crossed, lock, owner, health,
                 stamped, schema>>

\* A cycle of tickerd's kernel with the adapters of tickerd_runtime: a failed item
\* or reconciliation is a failed cycle, which counts as fatal and keeps the last
\* good cycle's id; the runner keeps the beat and reports to KinflowHealthSink,
\* whose failure it passes over or passes on.
TickerdCycle(p) ==
  /\ pc[p] = "cycle"
  /\ p \in Tickers
  /\ \E processed \in BOOLEAN, reconciled \in BOOLEAN, patient \in BOOLEAN :
       LET good == processed /\ (reconciling[p] => reconciled)
           count == IF good THEN 0 ELSE fatals[p] + 1
           snapshot == IF good THEN "UP" ELSE IF count >= limit[p] THEN "DOWN" ELSE "DEGRADED"
           to == IF snapshot = "DOWN" THEN "release" ELSE "loop"
       IN
       /\ CycleOver(p, reconciled)
       /\ owner' = [by |-> p, age |-> 0]
       /\ fatals' = Put(fatals, p, count)
       /\ succeeded' = Put(succeeded, p, succeeded[p] \/ good)
       /\ SinkHealth(p, snapshot, succeeded[p] \/ good, ~good, to, IF patient THEN to ELSE "handler")
  /\ UNCHANGED <<limit, stop, lock, health, stamped, schema>>

-----------------------------------------------------------------------------
(* The end *)

\* A slip: no last record.
ShutdownQuiet(p) ==
  /\ pc[p] = "loop"
  /\ stop[p]
  /\ Goto(p, "release")
  /\ UNCHANGED <<limit, stop, cycleVars, after, files, faults>>

\* The head of the loop sees the flag: the record "stopping", exit status 0.
Shutdown(p) ==
  /\ pc[p] = "loop"
  /\ stop[p]
  /\ IF p \in Daemons THEN WriteHealth(p, "stopping", FALSE, "release", "handler")
                       ELSE SinkHealth(p, "DOWN", succeeded[p], FALSE, "release", "handler")
  /\ UNCHANGED <<limit, stop, cycleVars, lock, owner, health, stamped, schema>>

\* except RunnerExit: the health record "failed", whoever owns it; a failure to
\* write it is passed over.
Handle(p) ==
  /\ pc[p] = "handler"
  /\ WriteHealth(p, "failed", FALSE, "release", "release")
  /\ UNCHANGED <<limit, stop, cycleVars, lock, owner, health, stamped, schema>>

\* The process is gone: what it knew is lost, and the kernel drops its flock.
Gone(p) ==
  /\ Goto(p, "down")
  /\ limit' = Put(limit, p, 0)
  /\ stop' = Put(stop, p, FALSE)
  /\ fatals' = Put(fatals, p, 0)
  /\ succeeded' = Put(succeeded, p, FALSE)
  /\ due' = Put(due, p, FALSE)
  /\ reconciling' = Put(reconciling, p, FALSE)
  /\ crossed' = Put(crossed, p, FALSE)
  /\ after' = Put(after, p, Nowhere)
  /\ lock' = IF lock = p THEN None ELSE lock

\* The finally clause: SingletonGuard.release, the terminal record, the exit.
Release(p) ==
  /\ pc[p] = "release"
  /\ Gone(p)
  /\ UNCHANGED <<owner, tmp, health, stamped, schema, faults>>

\* SIGKILL, or SIGTERM before tickerd's runner has installed its handler.
Kill(p) ==
  /\ pc[p] # "down"
  /\ Fault
  /\ Gone(p)
  /\ schema' \in IF pc[p] = "open" /\ schema = "old" THEN {"old", "half", "whole"} ELSE {schema}
  /\ UNCHANGED <<owner, tmp, health, stamped>>

\* Where a process is, or will be when its record is written.
At(p) == IF pc[p] = "rename" THEN after[p].ok ELSE pc[p]

\* SIGTERM or SIGINT: the handler sets shutting_down and nothing else.
Signal(p) ==
  /\ At(p) \in IF p \in Daemons THEN Points \ {"down"} ELSE {"loop", "cycle"}
  /\ ~stop[p]
  /\ stop' = Put(stop, p, TRUE)
  /\ UNCHANGED <<pc, limit, cycleVars, after, files, faults>>

\* Time passes: the heartbeat ages.
Age ==
  /\ owner.age <= StaleAfter
  /\ owner' = [owner EXCEPT !.age = @ + 1]
  /\ UNCHANGED <<local, lock, tmp, health, stamped, schema, faults>>

\* The clock passes a multiple of reconcile_tick_ms.
Boundary ==
  LET running == {p \in Procs : pc[p] \notin {"down", "release"}} IN
  /\ due' = [p \in Procs |-> due[p] \/ p \in running]
  /\ crossed' = [p \in Procs |-> crossed[p] \/ pc[p] = "cycle"]
  /\ UNCHANGED <<pc, limit, stop, fatals, succeeded, reconciling, after, files, faults>>

Run(p) ==
  \/ Acquire(p) \/ LockTimeout(p) \/ OpenStore(p) \/ Announce(p) \/ Stamp(p)
  \/ BeginCycle(p) \/ CycleReturns(p) \/ Beat(p) \/ CycleRaises(p) \/ BeatFails(p)
  \/ TickerdCycle(p) \/ Rename(p) \/ Shutdown(p) \/ Handle(p) \/ Release(p)

Next ==
  \/ \E p \in Procs : Start(p) \/ Run(p) \/ StartupRaises(p) \/ Kill(p) \/ Signal(p)
  \/ Age \/ Boundary

Spec == Init /\ [][Next]_vars

\* A process that runs goes on.
FairSpec == Spec /\ \A p \in Procs : WF_vars(Run(p))

-----------------------------------------------------------------------------
InLoop == {"loop", "cycle", "beat"}
Inside(p) == At(p) \in InLoop

\* Where a process relies on being the only one.
Owning(p) == InLoop \cup IF p \in Daemons THEN {"open", "announce", "stamp"} ELSE {}

\* The singleton: what runs between the lock and the finally clause is one
\* process, of either kind, and the owner record names it.  The compatibility
\* daemon opens the database and writes the stamp as the owner only; the tickerd
\* daemon does so before it asks for the lock.
OneOwner == \A p \in Procs : At(p) \in Owning(p) => lock = p /\ owner.by = p

\* A record that says ready was written by the owner after a cycle of its own
\* that succeeded; a process without the lock writes nothing but "failed".  That
\* is so whoever renames the record, unless its writer was killed before.
HealthByOwner ==
  [][health' # health /\ pc[health'.by] = "rename" =>
       /\ health'.ready => succeeded[health'.by]
       /\ lock = health'.by \/ health'.state = "failed"]_vars

\* Unless something was killed or could not be written, a record that says ready
\* is that of a process in its loop, or on its way to its last record.
ReadyIsAlive ==
  faults = 0 /\ health.ready => pc[health.by] \in InLoop \cup {"rename", "handler"}

\* A takeover is recorded of a process that is no longer in its loop, however
\* late its heartbeat was.
TakeoverOfTheDead ==
  [][lock' \notin {lock, None} /\ TakenOver # None => ~Inside(TakenOver)]_vars

\* A cycle that succeeds has made up for every reconcile boundary that was open
\* when it began, those of failed and interrupted cycles included.
ReconcileMadeUp ==
  [][\A p \in Procs :
       pc[p] = "cycle" /\ pc'[p] = "rename" /\ tmp'.state = "ready"
         => (due'[p] <=> crossed[p])]_vars

\* Failures do not go on for ever: a process that has counted one leaves its loop,
\* or has a success, which clears the count, or refreshes its heartbeat.
FailuresStop ==
  \A p \in Procs :
    (Inside(p) /\ fatals[p] > 0)
      ~> (~Inside(p) \/ fatals[p] = 0 \/ (owner.by = p /\ owner.age = 0))

\* A signal is heeded, in whichever state it comes.
StopHeeded == \A p \in Procs : stop[p] ~> (pc[p] = "down")

\* A second process that failed to get the lock writes over the health record of
\* the owner; as long as the owner is in its loop the record becomes its again,
\* unless yet another process is writing one.
OwnerSeen ==
  \A p \in Procs :
    Inside(p) ~> (health.by = p \/ ~Inside(p) \/ \E q \in Procs \ {p} : pc[q] = "rename")
=============================================================================
