----------------------------- MODULE RunnerProofs -----------------------------
(***************************************************************************)
(* The singleton, for any number of processes of both kinds, any           *)
(* environments and any faults: one owner, who alone writes what is not a  *)
(* record of failure, and who is never taken over while it lives; and the  *)
(* reconcile boundaries, none of which is passed over.                     *)
(*                                                                         *)
(* OneOwner is not inductive as it stands: the owner record of a process   *)
(* that is not in its loop may be anybody's, and a cycle writes it on the  *)
(* strength of the lock.  IInv says that the record names the holder of    *)
(* the lock, who holds it at which point, where a process goes on when its *)
(* health record is renamed, and what a record that waits for that says.   *)
(***************************************************************************)
EXTENDS Runner, TLAPS

\* Where a process goes on behind a record.
Targets == {"stamp", "beat", "loop", "handler", "release"}

\* The parts of the invariant.
LockedByOwner == lock # None => owner.by = lock
Owned == \A p \in Procs : pc[p] \in Owning(p) => lock = p
AnnouncedByDaemon == \A p \in Procs : pc[p] = "announce" => p \in Daemons

\* What is on its way to a point that needs the lock has the lock.
Aimed(p, t, holder) ==
  /\ t.ok \in Targets /\ t.lost \in Targets
  /\ t.ok \in Owning(p) \/ t.lost \in Owning(p) => holder = p
Targeted == \A p \in Procs : pc[p] = "rename" => Aimed(p, after[p], lock)

\* Outside a cycle no boundary is on the way; in a cycle that does not reconcile,
\* what is due has come since it began.
BoundaryKept ==
  \A p \in Procs :
    /\ pc[p] # "cycle" => ~crossed[p]
    /\ pc[p] = "cycle" /\ ~reconciling[p] => (due[p] <=> crossed[p])

\* A record that its writer is about to rename: ready only after a success of the
\* writer's, and by the owner unless it is one of failure.
Honest(r) ==
  /\ r.ready => succeeded[r.by]
  /\ lock = r.by \/ r.state = "failed"
TmpHonest == tmp # NoFile => tmp.by \in Procs /\ (pc[tmp.by] = "rename" => Honest(tmp))

IInv ==
  /\ TypeOK /\ LockedByOwner /\ Owned /\ AnnouncedByDaemon /\ Targeted
  /\ BoundaryKept /\ TmpHonest

-----------------------------------------------------------------------------
\* Init establishes the invariant.
LEMMA InitIInv == Init => IInv
<1> SUFFICES ASSUME Init PROVE IInv
  OBVIOUS
<1> USE RunnerAssumption DEF Init, Everywhere
<1>1. TypeOK
  <2>1. pc \in [Procs -> Points] /\ limit \in [Procs -> Int] /\ fatals \in [Procs -> Nat]
    BY DEF Points
  <2>2. /\ stop \in [Procs -> BOOLEAN] /\ succeeded \in [Procs -> BOOLEAN]
        /\ due \in [Procs -> BOOLEAN] /\ reconciling \in [Procs -> BOOLEAN]
        /\ crossed \in [Procs -> BOOLEAN]
    BY Zenon
  <2>3. owner \in [by : Procs \cup {None}, age : 0..StaleAfter + 1]
    OBVIOUS
  <2>4. NoFile \in Records /\ Nowhere \in [ok : Points, lost : Points]
    BY DEF States, Records, NoFile, Nowhere, Points
  <2>5. after \in [Procs -> [ok : Points, lost : Points]]
    BY <2>4
  <2> QED
    BY <2>1, <2>2, <2>3, <2>4, <2>5 DEF TypeOK
<1>2. LockedByOwner /\ Owned /\ AnnouncedByDaemon /\ Targeted
  BY DEF LockedByOwner, Owned, Owning, InLoop, AnnouncedByDaemon, Targeted
<1>3. BoundaryKept /\ TmpHonest
  BY DEF BoundaryKept, TmpHonest
<1> QED
  BY <1>1, <1>2, <1>3 DEF IInv

\* The lock of a process changes hands only by its own steps.
Handed(p) == lock' = lock \/ (lock = None /\ lock' = p) \/ (lock = p /\ lock' = None)

\* A process goes to a point where it needs the lock only if it has it, or gets
\* it, or writes a record on its way there; nobody else moves.
LEMMA MoveKeeps ==
  ASSUME IInv, NEW p \in Procs, NEW to \in Points, NEW t,
         pc' = [pc EXCEPT ![p] = to],
         after' = [after EXCEPT ![p] = t],
         to \in Owning(p) => lock' = p,
         to = "announce" => p \in Daemons,
         to = "rename" => Aimed(p, t, lock'),
         Handed(p),
         \/ UNCHANGED owner /\ lock' \in {lock, None}
         \/ owner' = [by |-> p, age |-> 0] /\ lock' = p
  PROVE  LockedByOwner' /\ Owned' /\ AnnouncedByDaemon' /\ Targeted'
<1> USE RunnerAssumption DEF IInv, TypeOK, Handed
<1>1. LockedByOwner'
  BY DEF LockedByOwner
<1>0. /\ pc'[p] = to /\ after'[p] = t
      /\ \A q \in Procs : q # p => pc'[q] = pc[q] /\ after'[q] = after[q] /\ (lock = q => lock' = q)
  OBVIOUS
<1>2. Owned'
  <2> SUFFICES ASSUME NEW q \in Procs, pc'[q] \in Owning(q) PROVE lock' = q
    BY DEF Owned, Owning
  <2>1. CASE q = p
    BY <1>0, <2>1
  <2>2. CASE q # p
    BY <1>0, <2>2 DEF Owned
  <2> QED
    BY <2>1, <2>2
<1>3. AnnouncedByDaemon'
  BY <1>0 DEF AnnouncedByDaemon
<1>4. Targeted'
  <2> SUFFICES ASSUME NEW q \in Procs, pc'[q] = "rename" PROVE Aimed(q, after'[q], lock')
    BY DEF Targeted, Aimed, Owning
  <2>1. CASE q = p
    BY <1>0, <2>1
  <2>2. CASE q # p
    BY <1>0, <2>2 DEF Targeted, Aimed
  <2> QED
    BY <2>1, <2>2
<1> QED
  BY <1>1, <1>2, <1>3, <1>4

\* The same for a step that does not write a record.
LEMMA PlainMoveKeeps ==
  ASSUME IInv, NEW p \in Procs, NEW to \in Points \ {"rename"},
         pc' = [pc EXCEPT ![p] = to], UNCHANGED after,
         to \in Owning(p) => lock' = p,
         to = "announce" => p \in Daemons,
         Handed(p),
         \/ UNCHANGED owner /\ lock' \in {lock, None}
         \/ owner' = [by |-> p, age |-> 0] /\ lock' = p
  PROVE  LockedByOwner' /\ Owned' /\ AnnouncedByDaemon' /\ Targeted'
<1>1. after' = [after EXCEPT ![p] = after[p]]
  BY DEF IInv, TypeOK
<1> QED
  BY <1>1, MoveKeeps

\* A step between two points outside the cycle leaves the boundaries alone.
LEMMA OutsideKeeps ==
  ASSUME IInv, NEW p \in Procs, NEW to \in Points,
         pc' = [pc EXCEPT ![p] = to],
         pc[p] # "cycle", to # "cycle",
         UNCHANGED <<reconciling, crossed>>,
         \A q \in Procs : q # p => due'[q] = due[q]
  PROVE  BoundaryKept'
BY DEF IInv, TypeOK, BoundaryKept

\* A record that waits stays as it is in the steps of others, and is nobody's
\* business any more when its writer is killed.
LEMMA TmpKeeps ==
  ASSUME IInv, NEW p \in Procs, NEW to \in Points \ {"rename"},
         pc' = [pc EXCEPT ![p] = to], UNCHANGED tmp, Handed(p),
         \A q \in Procs : q # p => succeeded'[q] = succeeded[q]
  PROVE  TmpHonest'
<1> SUFFICES ASSUME tmp # NoFile, pc'[tmp.by] = "rename" PROVE tmp.by \in Procs /\ Honest(tmp)'
  BY DEF IInv, TmpHonest, NoFile
<1>1. tmp.by \in Procs /\ (pc[tmp.by] = "rename" => Honest(tmp))
  BY DEF IInv, TmpHonest
<1>2. tmp.by # p /\ pc[tmp.by] = "rename"
  BY <1>1 DEF IInv, TypeOK
<1> QED
  BY <1>1, <1>2, RunnerAssumption DEF Honest, Handed

\* A step that changes the point of one process, outside the cycle, and no record.
LEMMA PointKeeps ==
  ASSUME IInv, NEW p \in Procs, NEW to \in Points \ {"cycle", "rename"},
         pc' = [pc EXCEPT ![p] = to],
         pc[p] # "cycle",
         to \in Owning(p) => lock = p,
         to = "announce" => p \in Daemons,
         UNCHANGED <<limit, stop, cycleVars, after, lock, tmp, health>>,
         UNCHANGED owner \/ (owner' = [by |-> p, age |-> 0] /\ lock = p),
         stamped' \in BOOLEAN, schema' \in {"old", "whole", "half"}, faults' \in Nat
  PROVE  IInv'
<1>1. TypeOK'
  <2>1. owner' \in [by : Procs \cup {None}, age : 0..StaleAfter + 1]
    BY RunnerAssumption DEF IInv, TypeOK
  <2> QED
    BY <2>1 DEF IInv, TypeOK, cycleVars
<1>2. LockedByOwner' /\ Owned' /\ AnnouncedByDaemon' /\ Targeted'
  BY PlainMoveKeeps DEF Handed
<1>3. BoundaryKept'
  BY OutsideKeeps DEF cycleVars
<1>4. TmpHonest'
  BY TmpKeeps DEF cycleVars, Handed
<1> QED
  BY <1>1, <1>2, <1>3, <1>4 DEF IInv

-----------------------------------------------------------------------------
(* Steps that write a health record *)

\* A record of p as it should be, and where p goes on behind it: at a point that
\* needs the lock only if p has it, and behind one that says ready not out of the
\* loop, unless by the handler.
Aims == {"beat", "loop", "handler"}
Sound(p, state, ready, ok, lost) ==
  /\ state \in States /\ ready \in BOOLEAN /\ ok \in Targets /\ lost \in Targets
  /\ ready => succeeded'[p] /\ ok \in Aims /\ lost \in Aims
  /\ lock = p \/ (state = "failed" /\ ok = "release" /\ lost = "release")
  /\ WriteHealth(p, state, ready, ok, lost)

\* What the steps that write have in common.
Writing(p) ==
  /\ pc[p] \in {"announce", "cycle", "beat", "loop", "handler"}
  /\ \E state, ready, ok, lost : Sound(p, state, ready, ok, lost)
  /\ \/ pc[p] # "cycle" /\ UNCHANGED <<due, reconciling, crossed>>
     \/ \E reconciled \in BOOLEAN : CycleOver(p, reconciled)
  /\ fatals' \in [Procs -> Nat]
  /\ \E good \in BOOLEAN : succeeded' = Put(succeeded, p, good)
  /\ UNCHANGED owner \/ (owner' = [by |-> p, age |-> 0] /\ lock = p)
  /\ UNCHANGED <<limit, stop, lock, health, stamped, schema>>

\* A cycle is over: the flags of its process are flags, and no boundary is on the
\* way any more.
LEMMA OverKeeps ==
  ASSUME IInv, NEW p \in Procs, NEW reconciled \in BOOLEAN, CycleOver(p, reconciled),
         NEW to \in Points \ {"cycle"}, pc' = [pc EXCEPT ![p] = to]
  PROVE  /\ due' \in [Procs -> BOOLEAN] /\ reconciling' \in [Procs -> BOOLEAN]
         /\ crossed' \in [Procs -> BOOLEAN]
         /\ BoundaryKept'
<1> USE DEF CycleOver, Put, IInv, TypeOK
<1>1. due' \in [Procs -> BOOLEAN]
  BY Zenon
<1>2. reconciling' \in [Procs -> BOOLEAN] /\ crossed' \in [Procs -> BOOLEAN]
  BY Zenon
<1>3. BoundaryKept'
  <2> SUFFICES ASSUME NEW q \in Procs
               PROVE  /\ pc'[q] # "cycle" => ~crossed'[q]
                      /\ pc'[q] = "cycle" /\ ~reconciling'[q] => (due'[q] <=> crossed'[q])
    BY DEF BoundaryKept
  <2>1. CASE q = p
    BY <2>1
  <2>2. CASE q # p
    BY <2>2 DEF BoundaryKept
  <2> QED
    BY <2>1, <2>2
<1> QED
  BY <1>1, <1>2, <1>3

\* Writing a record keeps the invariant, whether it gets written or not.
LEMMA WritingKeeps == ASSUME IInv, NEW p \in Procs, Writing(p) PROVE IInv'
<1>1. PICK state, ready, ok, lost : Sound(p, state, ready, ok, lost)
  BY DEF Writing
<1> DEFINE r == [by |-> p, state |-> state, ready |-> ready]
           t == [ok |-> ok, lost |-> lost]
<1>2. /\ r \in Records /\ r # NoFile
      /\ t \in [ok : Points, lost : Points] /\ Aimed(p, t, lock)
      /\ lost \in Points \ {"cycle", "rename", "announce"}
      /\ lost \in Owning(p) => lock = p
  BY <1>1, RunnerAssumption DEF Sound, Records, NoFile, Points, Targets, Aimed, Owning, InLoop
<1>3. \/ /\ tmp' = r /\ after' = [after EXCEPT ![p] = t] /\ pc' = [pc EXCEPT ![p] = "rename"]
         /\ UNCHANGED faults
      \/ /\ Fault /\ pc' = [pc EXCEPT ![p] = lost] /\ UNCHANGED <<tmp, after>>
  BY <1>1 DEF Sound, WriteHealth, Written, NotWritten, Goto, Put
<1>4. PICK to \in Points \ {"cycle", "announce"} : pc' = [pc EXCEPT ![p] = to]
  BY <1>2, <1>3 DEF Points
<1>5. UNCHANGED lock /\ \A q \in Procs : q # p => succeeded'[q] = succeeded[q]
  BY DEF Writing, Put, IInv, TypeOK
<1>6. /\ due' \in [Procs -> BOOLEAN] /\ reconciling' \in [Procs -> BOOLEAN]
      /\ crossed' \in [Procs -> BOOLEAN] /\ BoundaryKept'
  <2>1. CASE pc[p] # "cycle" /\ UNCHANGED <<due, reconciling, crossed>>
    BY <1>4, <2>1, OutsideKeeps DEF IInv, TypeOK
  <2>2. CASE \E reconciled \in BOOLEAN : CycleOver(p, reconciled)
    BY <1>4, <2>2, OverKeeps
  <2> QED
    BY <2>1, <2>2 DEF Writing
<1>7. TypeOK'
  <2>1. owner' \in [by : Procs \cup {None}, age : 0..StaleAfter + 1]
    BY RunnerAssumption DEF Writing, IInv, TypeOK
  <2>2. pc' \in [Procs -> Points] /\ tmp' \in Records
    BY <1>2, <1>3, <1>4 DEF IInv, TypeOK
  <2>3. after' \in [Procs -> [ok : Points, lost : Points]] /\ faults' \in Nat
    BY <1>2, <1>3 DEF IInv, TypeOK, Fault
  <2>4. succeeded' \in [Procs -> BOOLEAN]
    BY DEF Writing, Put, IInv, TypeOK
  <2> QED
    BY <1>5, <1>6, <2>1, <2>2, <2>3, <2>4 DEF Writing, IInv, TypeOK
<1>8. LockedByOwner' /\ Owned' /\ AnnouncedByDaemon' /\ Targeted'
  <2>1. UNCHANGED lock /\ (UNCHANGED owner \/ (owner' = [by |-> p, age |-> 0] /\ lock = p))
    BY DEF Writing
  <2>2. CASE after' = [after EXCEPT ![p] = t] /\ pc' = [pc EXCEPT ![p] = "rename"]
    <3>1. "rename" \in Points /\ "rename" \notin Owning(p)
      BY DEF Points, Owning, InLoop
    <3> HIDE DEF t
    <3> QED
      BY <1>2, <2>1, <2>2, <3>1, MoveKeeps DEF Handed
  <2>3. CASE pc' = [pc EXCEPT ![p] = lost] /\ UNCHANGED after
    BY <1>2, <2>1, <2>3, PlainMoveKeeps DEF Handed
  <2> QED
    BY <1>3, <2>2, <2>3
<1>9. TmpHonest'
  <2>1. CASE tmp' = r
    <3>1. r.ready => succeeded'[p]
      BY <1>1 DEF Sound
    <3>2. lock' = p \/ r.state = "failed"
      BY <1>1, <1>5 DEF Sound
    <3> QED
      BY <2>1, <3>1, <3>2 DEF TmpHonest, Honest
  <2>2. CASE pc' = [pc EXCEPT ![p] = lost] /\ UNCHANGED tmp
    BY <1>2, <1>5, <2>2, TmpKeeps DEF Handed
  <2> QED
    BY <1>3, <2>1, <2>2
<1> QED
  BY <1>6, <1>7, <1>8, <1>9 DEF IInv

\* Steps 8 of a start, the end of the loop, and the handler.
LEMMA EndsWriting ==
  ASSUME IInv, NEW p \in Procs, Announce(p) \/ Shutdown(p) \/ Handle(p)
  PROVE  Writing(p)
<1>0. /\ fatals \in [Procs -> Nat] /\ succeeded[p] \in BOOLEAN
      /\ succeeded = Put(succeeded, p, succeeded[p])
      /\ {"starting", "stopping", "failed"} \subseteq States
      /\ {"stamp", "handler", "release"} \subseteq Targets
  BY DEF IInv, TypeOK, Put, States, Targets
<1>1. CASE Announce(p)
  <2>1. lock = p
    BY <1>1 DEF Announce, IInv, Owned, Owning, AnnouncedByDaemon
  <2>2. Sound(p, "starting", FALSE, "stamp", "handler")
    BY <1>0, <1>1, <2>1 DEF Announce, Sound
  <2> QED
    BY <1>0, <1>1, <2>2, Zenon DEF Announce, Writing, cycleVars
<1>2. CASE Shutdown(p)
  <2>1. lock = p
    BY <1>2 DEF Shutdown, IInv, Owned, Owning, InLoop
  <2>2. WriteHealth(p, "stopping", FALSE, "release", "handler")
    BY <1>2, Zenon DEF Shutdown, SinkHealth
  <2>3. Sound(p, "stopping", FALSE, "release", "handler")
    BY <1>0, <2>1, <2>2 DEF Sound
  <2> QED
    BY <1>0, <1>2, <2>3, Zenon DEF Shutdown, Writing, cycleVars
<1>3. CASE Handle(p)
  <2>1. Sound(p, "failed", FALSE, "release", "release")
    BY <1>0, <1>3 DEF Handle, Sound
  <2> QED
    BY <1>0, <1>3, <2>1, Zenon DEF Handle, Writing, cycleVars
<1> QED
  BY <1>1, <1>2, <1>3

\* run_cycle returned.
LEMMA ReturnsWriting == ASSUME IInv, NEW p \in Procs, CycleReturns(p) PROVE Writing(p)
<1>1. PICK processed \in BOOLEAN, reconciled \in BOOLEAN :
        LET good == processed /\ (reconciling[p] => reconciled)
            ready == succeeded[p] \/ good
        IN
        /\ CycleOver(p, reconciled)
        /\ succeeded' = Put(succeeded, p, ready)
        /\ fatals' = Put(fatals, p, IF good THEN 0 ELSE fatals[p])
        /\ WriteHealth(p, IF good THEN "ready" ELSE "degraded", ready, "beat", "handler")
  BY Zenon DEF CycleReturns
<1> DEFINE good == processed /\ (reconciling[p] => reconciled)
           ready == succeeded[p] \/ good
           state == IF good THEN "ready" ELSE "degraded"
<1>2. good \in BOOLEAN /\ ready \in BOOLEAN /\ state \in States
  BY DEF IInv, TypeOK, States
<1>3. CycleOver(p, reconciled) /\ succeeded' = Put(succeeded, p, ready) /\ WriteHealth(p, state, ready, "beat", "handler")
  BY <1>1, Zenon
<1>4. fatals' \in [Procs -> Nat]
  <2>1. PICK n \in Nat : fatals' = [fatals EXCEPT ![p] = n]
    <3>1. (IF good THEN 0 ELSE fatals[p]) \in Nat
      BY DEF IInv, TypeOK
    <3> QED
      BY <1>1, <3>1, Zenon DEF Put
  <2> QED
    BY <2>1 DEF IInv, TypeOK
<1> HIDE DEF good, ready, state
<1>5. lock = p /\ pc[p] = "cycle"
  BY DEF CycleReturns, IInv, Owned, Owning, InLoop
<1>6. Sound(p, state, ready, "beat", "handler")
  <2>1. ready => succeeded'[p]
    BY <1>2, <1>3 DEF Put, IInv, TypeOK
  <2> QED
    BY <1>2, <1>3, <1>5, <2>1 DEF Sound, Targets, Aims
<1> QED
  BY <1>2, <1>3, <1>4, <1>5, <1>6, Zenon DEF Writing, CycleReturns

\* The handler of exceptions: a failure counted, and on to the loop or to the end.
LEMMA CountedWrites ==
  ASSUME IInv, NEW p \in Procs, Counted(p, succeeded[p]), UNCHANGED succeeded, lock = p
  PROVE  /\ fatals' = [fatals EXCEPT ![p] = @ + 1] /\ fatals' \in [Procs -> Nat]
         /\ \E to \in {"loop", "handler"} : Sound(p, "degraded", succeeded[p], to, to)
<1>1. fatals' = [fatals EXCEPT ![p] = @ + 1]
  BY DEF Counted, Put, IInv, TypeOK
<1>2. fatals' \in [Procs -> Nat]
  BY <1>1 DEF IInv, TypeOK
<1>3. PICK to \in {"loop", "handler"} : WriteHealth(p, "degraded", succeeded[p], to, to)
  BY Zenon DEF Counted
<1>4. Sound(p, "degraded", succeeded[p], to, to)
  BY <1>3 DEF Sound, Targets, Aims, States, IInv, TypeOK
<1> QED
  BY <1>1, <1>2, <1>4

LEMMA RaisesWriting ==
  ASSUME IInv, NEW p \in Procs, CycleRaises(p) \/ BeatFails(p) PROVE Writing(p)
<1>1. lock = p /\ pc[p] \in {"cycle", "beat"}
  BY DEF CycleRaises, BeatFails, IInv, Owned, Owning, InLoop
<1>2. Counted(p, succeeded[p]) /\ UNCHANGED <<succeeded, limit, stop, lock, owner, health, stamped, schema>>
  BY Zenon DEF CycleRaises, BeatFails
<1>3. fatals' \in [Procs -> Nat] /\ \E to : Sound(p, "degraded", succeeded[p], to, to)
  BY <1>1, <1>2, CountedWrites
<1>4. \E good \in BOOLEAN : succeeded' = Put(succeeded, p, good)
  BY <1>2 DEF Put, IInv, TypeOK
<1>5. \/ pc[p] # "cycle" /\ UNCHANGED <<due, reconciling, crossed>>
      \/ \E reconciled \in BOOLEAN : CycleOver(p, reconciled)
  BY Zenon DEF CycleRaises, BeatFails
<1> QED
  BY <1>1, <1>2, <1>3, <1>4, <1>5, Zenon DEF Writing

\* A cycle of tickerd's runner, by what it reports to the sink.
LEMMA TickerdWriting ==
  ASSUME IInv, NEW p \in Procs, TickerdCycle(p)
  PROVE  /\ Writing(p)
         /\ \E reconciled \in BOOLEAN, state \in States, ready \in BOOLEAN : \E to, lost :
              /\ CycleOver(p, reconciled) /\ Sound(p, state, ready, to, lost)
              /\ state = "ready" => (reconciling[p] => reconciled)
<1>1. PICK processed \in BOOLEAN, reconciled \in BOOLEAN, patient \in BOOLEAN :
        LET good == processed /\ (reconciling[p] => reconciled)
            count == IF good THEN 0 ELSE fatals[p] + 1
            snapshot == IF good THEN "UP" ELSE IF count >= limit[p] THEN "DOWN" ELSE "DEGRADED"
            to == IF snapshot = "DOWN" THEN "release" ELSE "loop"
        IN
        /\ CycleOver(p, reconciled)
        /\ owner' = [by |-> p, age |-> 0]
        /\ fatals' = Put(fatals, p, count)
        /\ succeeded' = Put(succeeded, p, succeeded[p] \/ good)
        /\ SinkHealth(p, snapshot, succeeded[p] \/ good, ~good, to, IF patient THEN to ELSE "handler")
  BY Zenon DEF TickerdCycle
<1> DEFINE good == processed /\ (reconciling[p] => reconciled)
           count == IF good THEN 0 ELSE fatals[p] + 1
           snapshot == IF good THEN "UP" ELSE IF count >= limit[p] THEN "DOWN" ELSE "DEGRADED"
           to == IF snapshot = "DOWN" THEN "release" ELSE "loop"
           lost == IF patient THEN to ELSE "handler"
           ready == succeeded[p] \/ good
<1>2. /\ good \in BOOLEAN /\ ready \in BOOLEAN /\ count \in Nat
      /\ snapshot = "UP" => good /\ ready
      /\ snapshot \in {"UP", "DOWN", "DEGRADED"}
      /\ to \in {"release", "loop"} /\ (to = "release" => snapshot = "DOWN")
      /\ lost \in {to, "handler"}
      /\ snapshot # "UP" => ~good
  BY DEF IInv, TypeOK
<1>3. /\ CycleOver(p, reconciled) /\ owner' = [by |-> p, age |-> 0]
      /\ fatals' = Put(fatals, p, count) /\ succeeded' = Put(succeeded, p, ready)
      /\ SinkHealth(p, snapshot, ready, ~good, to, lost)
  BY <1>1, Zenon
<1>g. snapshot = "UP" => (reconciling[p] => reconciled)
  BY <1>2
<1> HIDE DEF good, count, snapshot, to, lost, ready
<1>4. lock = p /\ pc[p] = "cycle"
  BY DEF TickerdCycle, IInv, Owned, Owning, InLoop
<1>5. succeeded'[p] = ready /\ fatals' \in [Procs -> Nat]
  BY <1>2, <1>3 DEF Put, IInv, TypeOK
<1>6. PICK state \in States, said \in BOOLEAN :
        /\ Sound(p, state, said, to, lost)
        /\ state = "ready" => snapshot = "UP"
  <2>1. CASE snapshot = "UP"
    <3>1. WriteHealth(p, "ready", TRUE, to, lost)
      BY <1>3, <2>1 DEF SinkHealth
    <3>2. Sound(p, "ready", TRUE, to, lost)
      BY <1>2, <1>4, <1>5, <2>1, <3>1 DEF Sound, States, Targets, Aims
    <3> QED
      BY <2>1, <3>2 DEF States
  <2>2. CASE snapshot = "DEGRADED"
    <3> DEFINE state == IF ready THEN "degraded" ELSE "starting"
    <3>1. WriteHealth(p, state, ready, to, lost)
      BY <1>3, <2>2 DEF SinkHealth
    <3>2. state \in States /\ state # "ready"
      BY DEF States
    <3> HIDE DEF state
    <3>3. Sound(p, state, ready, to, lost)
      BY <1>2, <1>4, <1>5, <2>2, <3>1, <3>2 DEF Sound, Targets, Aims
    <3> QED
      BY <1>2, <3>2, <3>3
  <2>3. CASE snapshot = "DOWN"
    <3>1. WriteHealth(p, "failed", FALSE, to, lost)
      BY <1>2, <1>3, <2>3 DEF SinkHealth
    <3>2. Sound(p, "failed", FALSE, to, lost)
      BY <1>2, <1>4, <1>5, <2>3, <3>1 DEF Sound, States, Targets, Aims
    <3> QED
      BY <3>2 DEF States
  <2> QED
    BY <1>2, <2>1, <2>2, <2>3
<1>7. Writing(p)
  BY <1>2, <1>3, <1>4, <1>5, <1>6, Zenon DEF Writing, TickerdCycle
<1> QED
  BY <1>3, <1>6, <1>7, <1>g

-----------------------------------------------------------------------------
(* The other steps *)

\* A process starts with a boundary due and no lock.
LEMMA StartStep == ASSUME IInv, NEW p \in Procs, Start(p) PROVE IInv'
<1> USE DEF Start, Goto, Put, files
<1>1. PICK c \in Configs : limit' = [limit EXCEPT ![p] = c.fatal] /\ pc' = [pc EXCEPT ![p] = AfterConfig(p, c)]
  OBVIOUS
<1>2. /\ AfterConfig(p, c) \in {"release", "handler", "lock", "open"}
      /\ AfterConfig(p, c) = "open" => p \notin Daemons
  BY DEF AfterConfig
<1>3. AfterConfig(p, c) \in Points /\ AfterConfig(p, c) \notin Owning(p) \cup {"cycle", "announce", "rename"}
  BY <1>2 DEF Points, Owning, InLoop
<1>4. TypeOK'
  <2>1. limit' \in [Procs -> Int]
    BY <1>1, RunnerAssumption DEF IInv, TypeOK, ConfigShape
  <2>2. due' \in [Procs -> BOOLEAN]
    BY DEF IInv, TypeOK
  <2> QED
    BY <1>1, <1>3, <2>1, <2>2 DEF IInv, TypeOK
<1>5. LockedByOwner' /\ Owned' /\ AnnouncedByDaemon' /\ Targeted'
  BY <1>1, <1>3, PlainMoveKeeps DEF Handed
<1>6. BoundaryKept'
  <2>1. \A q \in Procs : q # p => due'[q] = due[q]
    BY DEF IInv, TypeOK
  <2> QED
    BY <1>1, <1>3, <2>1, OutsideKeeps
<1>7. TmpHonest'
  BY <1>1, <1>3, TmpKeeps DEF Handed
<1> QED
  BY <1>4, <1>5, <1>6, <1>7 DEF IInv

\* The lock is free when it is taken, and the owner record follows it.
LEMMA AcquireStep == ASSUME IInv, NEW p \in Procs, Acquire(p) PROVE IInv'
<1> USE DEF Acquire, Goto, cycleVars
<1> DEFINE to == IF p \in Daemons THEN "open" ELSE "loop"
<1>1. to \in Points \ {"cycle", "announce", "rename"}
  BY DEF Points
<1>2. TypeOK'
  <2>1. owner' \in [by : Procs \cup {None}, age : 0..StaleAfter + 1]
    BY RunnerAssumption DEF IInv, TypeOK
  <2>2. lock' \in Procs \cup {None}
    BY DEF IInv, TypeOK
  <2> QED
    BY <1>1, <2>1, <2>2 DEF IInv, TypeOK
<1>3. LockedByOwner' /\ Owned' /\ AnnouncedByDaemon' /\ Targeted'
  BY <1>1, PlainMoveKeeps DEF Handed
<1>4. BoundaryKept'
  BY <1>1, OutsideKeeps DEF IInv, TypeOK
<1>5. TmpHonest'
  BY <1>1, TmpKeeps DEF Handed
<1> QED
  BY <1>2, <1>3, <1>4, <1>5 DEF IInv

\* The steps of a start between the configuration and the loop, and the beat.
LEMMA PlainSteps ==
  ASSUME IInv, NEW p \in Procs,
         LockTimeout(p) \/ OpenStore(p) \/ Stamp(p) \/ StartupRaises(p) \/ Beat(p)
  PROVE  IInv'
<1> USE DEF Goto, files
<1>0. /\ stamped \in BOOLEAN /\ schema \in {"old", "whole", "half"} /\ faults \in Nat
      /\ {"handler", "release", "announce", "stamp", "loop", "lock"} \subseteq Points \ {"cycle", "rename"}
      /\ {"handler", "release", "lock"} \cap Owning(p) = {}
  BY DEF IInv, TypeOK, Points, Owning, InLoop
<1>1. CASE LockTimeout(p)
  BY <1>0, <1>1, PointKeeps DEF LockTimeout
<1>2. CASE OpenStore(p)
  <2>1. PICK to \in {"release", "announce", "stamp", "handler"} :
          /\ pc' = [pc EXCEPT ![p] = to]
          /\ to = "announce" => p \in Daemons
          /\ to = "stamp" => p \notin Daemons
    BY <1>2 DEF OpenStore
  <2>2. pc[p] = "open" /\ (to \in Owning(p) => lock = p)
    <3>1. pc[p] = "open"
      BY <1>2 DEF OpenStore
    <3>2. p \in Daemons => lock = p
      BY <3>1 DEF IInv, Owned, Owning
    <3> QED
      BY <2>1, <3>1, <3>2 DEF Owning, InLoop
  <2>3. schema' \in {"old", "whole", "half"}
    BY <1>0, <1>2 DEF OpenStore
  <2> QED
    BY <1>0, <1>2, <2>1, <2>2, <2>3, PointKeeps DEF OpenStore
<1>3. CASE Stamp(p)
  <2>1. p \in Daemons => lock = p
    BY <1>3 DEF Stamp, IInv, Owned, Owning
  <2> QED
    BY <1>0, <1>3, <2>1, PointKeeps DEF Stamp
<1>4. CASE StartupRaises(p)
  <2>1. schema' \in {"old", "whole", "half"} /\ faults' \in Nat
    BY <1>0, <1>4 DEF StartupRaises, Fault
  <2> QED
    BY <1>0, <1>4, <2>1, PointKeeps DEF StartupRaises
<1>5. CASE Beat(p)
  <2>1. lock = p
    BY <1>5 DEF Beat, IInv, Owned, Owning, InLoop
  <2> QED
    BY <1>0, <1>5, <2>1, PointKeeps DEF Beat
<1> QED
  BY <1>1, <1>2, <1>3, <1>4, <1>5

\* A record is renamed, by whomever, and its process is back on its way.
LEMMA RenameStep == ASSUME IInv, NEW p \in Procs, Rename(p) PROVE IInv'
<1>1. PICK to \in {after[p].ok, after[p].lost} : pc' = [pc EXCEPT ![p] = to]
  BY DEF Rename, Goto
<1>2. /\ pc[p] = "rename" /\ tmp' = NoFile /\ health' \in {tmp, health}
      /\ after' = [after EXCEPT ![p] = Nowhere]
      /\ UNCHANGED <<limit, stop, cycleVars, lock, owner, stamped, schema, faults>>
  BY DEF Rename, Put
<1>3. to \in Points \ {"cycle", "rename", "announce"} /\ (to \in Owning(p) => lock = p)
  BY <1>1, <1>2 DEF IInv, Targeted, Aimed, Targets, Points
<1>4. TypeOK'
  <2>1. NoFile \in Records /\ Nowhere \in [ok : Points, lost : Points]
    BY DEF States, Records, NoFile, Nowhere, Points
  <2> QED
    BY <1>1, <1>2, <1>3, <2>1 DEF IInv, TypeOK, cycleVars
<1>5. LockedByOwner' /\ Owned' /\ AnnouncedByDaemon' /\ Targeted'
  BY <1>1, <1>2, <1>3, MoveKeeps DEF Handed
<1>6. BoundaryKept'
  BY <1>1, <1>2, <1>3, OutsideKeeps DEF cycleVars
<1>7. TmpHonest'
  BY <1>2 DEF TmpHonest, NoFile
<1> QED
  BY <1>4, <1>5, <1>6, <1>7 DEF IInv

\* A cycle begins: what is due is what it reconciles.
LEMMA BeginStep == ASSUME IInv, NEW p \in Procs, BeginCycle(p) PROVE IInv'
<1> USE DEF BeginCycle, Goto, Put, files
<1>1. TypeOK'
  BY DEF IInv, TypeOK, Points
<1>2. "cycle" \in Points \ {"rename"} /\ lock = p
  BY DEF Points, IInv, Owned, Owning, InLoop
<1>3. LockedByOwner' /\ Owned' /\ AnnouncedByDaemon' /\ Targeted'
  BY <1>2, PlainMoveKeeps DEF Handed
<1>4. BoundaryKept'
  BY DEF IInv, TypeOK, BoundaryKept
<1>5. TmpHonest'
  BY <1>2, TmpKeeps DEF Handed
<1> QED
  BY <1>1, <1>3, <1>4, <1>5 DEF IInv

\* A process that ends gives back its lock and forgets everything.
LEMMA GoneKeeps ==
  ASSUME IInv, NEW p \in Procs, Gone(p),
         schema' \in {"old", "whole", "half"}, faults' \in Nat,
         UNCHANGED <<owner, tmp, health, stamped>>
  PROVE  IInv'
<1> USE DEF Gone, Goto, Put
<1>1. "down" \in Points \ (Owning(p) \cup {"rename"}) /\ Nowhere \in [ok : Points, lost : Points]
  BY DEF Points, Owning, InLoop, Nowhere
<1>2. TypeOK'
  <2>1. pc' \in [Procs -> Points] /\ limit' \in [Procs -> Int] /\ fatals' \in [Procs -> Nat]
    BY <1>1 DEF IInv, TypeOK
  <2>2. /\ stop' \in [Procs -> BOOLEAN] /\ succeeded' \in [Procs -> BOOLEAN]
        /\ due' \in [Procs -> BOOLEAN] /\ reconciling' \in [Procs -> BOOLEAN]
        /\ crossed' \in [Procs -> BOOLEAN]
    BY DEF IInv, TypeOK
  <2>3. lock' \in Procs \cup {None} /\ after' \in [Procs -> [ok : Points, lost : Points]]
    BY <1>1 DEF IInv, TypeOK
  <2> QED
    BY <2>1, <2>2, <2>3 DEF IInv, TypeOK
<1>3. Handed(p) /\ lock' \in {lock, None}
  BY DEF Handed
<1>4. LockedByOwner' /\ Owned' /\ AnnouncedByDaemon' /\ Targeted'
  BY <1>1, <1>3, MoveKeeps
<1>5. BoundaryKept'
  BY DEF IInv, TypeOK, BoundaryKept
<1>6. TmpHonest'
  <2>1. \A q \in Procs : q # p => succeeded'[q] = succeeded[q]
    BY DEF IInv, TypeOK
  <2> QED
    BY <1>1, <1>3, <2>1, TmpKeeps
<1> QED
  BY <1>2, <1>4, <1>5, <1>6 DEF IInv

LEMMA ReleaseStep == ASSUME IInv, NEW p \in Procs, Release(p) PROVE IInv'
BY GoneKeeps DEF Release, IInv, TypeOK

LEMMA KillStep == ASSUME IInv, NEW p \in Procs, Kill(p) PROVE IInv'
<1>1. schema' \in {"old", "whole", "half"} /\ faults' \in Nat
  BY DEF Kill, Fault, IInv, TypeOK
<1> QED
  BY <1>1, GoneKeeps DEF Kill

\* The parts of the invariant that look at nothing but these variables.
LEMMA SameKeeps ==
  ASSUME IInv, UNCHANGED <<pc, after, lock, tmp, succeeded>>, owner'.by = owner.by
  PROVE  LockedByOwner' /\ Owned' /\ AnnouncedByDaemon' /\ Targeted' /\ TmpHonest'
BY DEF IInv, LockedByOwner, Owned, Owning, AnnouncedByDaemon, Targeted, Aimed, TmpHonest, Honest

\* A signal sets a flag and nothing else.
LEMMA SignalStep == ASSUME IInv, NEW p \in Procs, Signal(p) PROVE IInv'
<1>1. stop' \in [Procs -> BOOLEAN]
  BY DEF Signal, Put, IInv, TypeOK
<1>2. LockedByOwner' /\ Owned' /\ AnnouncedByDaemon' /\ Targeted' /\ TmpHonest'
  BY SameKeeps DEF Signal, cycleVars, files
<1> QED
  BY <1>1, <1>2 DEF Signal, cycleVars, files, IInv, TypeOK, BoundaryKept

\* The heartbeat ages up to just above the threshold.
LEMMA AgeStep == ASSUME IInv, Age PROVE IInv'
<1>1. owner' = [owner EXCEPT !.age = @ + 1] /\ owner.age \in 0..StaleAfter + 1 /\ owner.age <= StaleAfter
  BY DEF Age, IInv, TypeOK
<1>2. owner' \in [by : Procs \cup {None}, age : 0..StaleAfter + 1] /\ owner'.by = owner.by
  BY <1>1, RunnerAssumption DEF IInv, TypeOK
<1>3. LockedByOwner' /\ Owned' /\ AnnouncedByDaemon' /\ Targeted' /\ TmpHonest'
  BY <1>2, SameKeeps DEF Age, local, cycleVars
<1> QED
  BY <1>2, <1>3 DEF Age, local, cycleVars, IInv, TypeOK, BoundaryKept

\* A boundary becomes due for everyone, and is remembered in the cycles that run.
LEMMA BoundaryStep == ASSUME IInv, Boundary PROVE IInv'
<1> USE DEF Boundary, files
<1>1. due' \in [Procs -> BOOLEAN] /\ crossed' \in [Procs -> BOOLEAN]
  BY DEF IInv, TypeOK
<1>2. TypeOK'
  BY <1>1 DEF IInv, TypeOK
<1>3. LockedByOwner' /\ Owned' /\ AnnouncedByDaemon' /\ Targeted' /\ TmpHonest'
  BY SameKeeps
<1>4. BoundaryKept'
  BY DEF IInv, TypeOK, BoundaryKept
<1> QED
  BY <1>2, <1>3, <1>4 DEF IInv

-----------------------------------------------------------------------------
(* The theorems *)

\* A step that writes a record.
Writer(p) ==
  \/ Announce(p) \/ CycleReturns(p) \/ CycleRaises(p) \/ BeatFails(p) \/ TickerdCycle(p)
  \/ Shutdown(p) \/ Handle(p)

LEMMA WriterWriting == ASSUME IInv, NEW p \in Procs, Writer(p) PROVE Writing(p)
BY EndsWriting, ReturnsWriting, RaisesWriting, TickerdWriting DEF Writer

\* Every step keeps the invariant.
LEMMA NextIInv == IInv /\ [Next]_vars => IInv'
<1> SUFFICES ASSUME IInv, [Next]_vars PROVE IInv'
  OBVIOUS
<1>1. CASE UNCHANGED vars
  <2>1. LockedByOwner' /\ Owned' /\ AnnouncedByDaemon' /\ Targeted' /\ TmpHonest'
    BY <1>1, SameKeeps DEF vars, local, cycleVars, files
  <2> QED
    BY <1>1, <2>1 DEF vars, local, cycleVars, files, IInv, TypeOK, BoundaryKept
<1>2. CASE Next
  <2>1. ASSUME NEW p \in Procs, Start(p) PROVE IInv'
    BY <2>1, StartStep
  <2>2. ASSUME NEW p \in Procs, Run(p) PROVE IInv'
    BY <2>2, AcquireStep, PlainSteps, BeginStep, RenameStep, ReleaseStep, WriterWriting,
       WritingKeeps DEF Run, Writer
  <2>3. ASSUME NEW p \in Procs, StartupRaises(p) PROVE IInv'
    BY <2>3, PlainSteps
  <2>4. ASSUME NEW p \in Procs, Kill(p) \/ Signal(p) PROVE IInv'
    BY <2>4, KillStep, SignalStep
  <2> QED
    BY <1>2, <2>1, <2>2, <2>3, <2>4, AgeStep, BoundaryStep DEF Next
<1> QED
  BY <1>1, <1>2

\* The invariant holds for any set of processes, environments and faults.
THEOREM InductiveInvariant == Spec => []IInv
<1> QED
  BY InitIInv, NextIInv, PTL DEF Spec

\* A process at a point that needs the lock, or on its way there, has it.
LEMMA AtOwns == ASSUME IInv, NEW p \in Procs, At(p) \in Owning(p) PROVE lock = p /\ owner.by = p
<1>1. lock = p
  BY DEF At, IInv, Owned, Targeted, Aimed
<1> QED
  BY <1>1, RunnerAssumption DEF IInv, LockedByOwner

\* Between the lock and the finally clause there is one process, and the owner
\* record names it (SingletonGuard), whatever is killed and however late a
\* heartbeat is.
THEOREM OneOwnerCorrect == Spec => []OneOwner
<1>1. IInv => OneOwner
  BY AtOwns DEF OneOwner
<1> QED
  BY <1>1, InductiveInvariant, PTL

\* The lock changes only when it is acquired, and when a process is gone.
LEMMA OthersKeepLock ==
  ASSUME [Next]_vars, lock' # lock PROVE \E p \in Procs : Acquire(p) \/ Gone(p)
BY ZenonT(40) DEF Next, Run, Start, LockTimeout, OpenStore, Announce, Stamp, BeginCycle, CycleReturns,
   Beat, CycleRaises, BeatFails, TickerdCycle, Rename, Shutdown, Handle, Release, StartupRaises, Kill,
   Signal, Age, Boundary, files, vars

\* The record LOCK_TAKEOVER never names a process that is in its loop: a heartbeat
\* that is late takes nothing away from who has the flock.
THEOREM TakeoverCorrect == Spec => TakeoverOfTheDead
<1> DEFINE A == lock' \notin {lock, None} /\ TakenOver # None => ~Inside(TakenOver)
<1>1. IInv /\ [Next]_vars => A
  <2> SUFFICES ASSUME IInv, [Next]_vars, lock' \notin {lock, None}, TakenOver # None, Inside(TakenOver)
               PROVE  FALSE
    OBVIOUS
  <2>1. PICK p \in Procs : Acquire(p)
    BY OthersKeepLock DEF Gone
  <2>2. TakenOver = owner.by /\ TakenOver \in Procs
    BY DEF TakenOver, IInv, TypeOK
  <2>3. At(TakenOver) \in Owning(TakenOver)
    BY DEF Inside, Owning
  <2>4. lock = TakenOver
    BY <2>2, <2>3, AtOwns
  <2> QED
    BY <2>1, <2>4 DEF Acquire
<1> QED
  BY <1>1, InductiveInvariant, PTL DEF Spec, TakeoverOfTheDead

-----------------------------------------------------------------------------
(* The health record *)

\* The record changes only by a rename, into what waited for it.
LEMMA OnlyRenamed ==
  ASSUME IInv, [Next]_vars, health' # health
  PROVE  tmp # NoFile /\ health' = tmp
<1>1. ASSUME NEW p \in Procs, Writer(p) PROVE FALSE
  BY <1>1, WriterWriting DEF Writing
<1>2. PICK p \in Procs : Rename(p)
  BY <1>1, ZenonT(40) DEF Writer, Next, Run, Start, Acquire, LockTimeout, OpenStore, Stamp, BeginCycle,
     Beat, Release, StartupRaises, Kill, Signal, Age, Boundary, files, vars
<1> QED
  BY <1>2 DEF Rename

\* Who writes ready has had a success of its own, and who writes anything but
\* "failed" holds the lock when the record is renamed (write_health).
THEOREM HealthCorrect == Spec => HealthByOwner
<1> DEFINE A == health' # health /\ pc[health'.by] = "rename" =>
                  /\ health'.ready => succeeded[health'.by]
                  /\ lock = health'.by \/ health'.state = "failed"
<1>1. IInv /\ [Next]_vars => A
  BY OnlyRenamed DEF IInv, TmpHonest, Honest
<1> QED
  BY <1>1, InductiveInvariant, PTL DEF Spec, HealthByOwner

-----------------------------------------------------------------------------
(* The reconcile boundaries *)

\* What is due behind a cycle, and what the cycle has reported of it.
Outcome(p) ==
  \E reconciled \in BOOLEAN : \E state, ready, ok, lost :
    /\ lost \in Targets
    /\ CycleOver(p, reconciled)
    /\ WriteHealth(p, state, ready, ok, lost)
    /\ state = "ready" => (reconciling[p] => reconciled)

LEMMA CycleOutcome ==
  ASSUME IInv, NEW p \in Procs, CycleReturns(p) \/ CycleRaises(p) \/ TickerdCycle(p)
  PROVE  Outcome(p)
<1>1. CASE CycleReturns(p)
  <2>1. PICK processed \in BOOLEAN, reconciled \in BOOLEAN :
          LET good == processed /\ (reconciling[p] => reconciled)
              ready == succeeded[p] \/ good
          IN
          /\ CycleOver(p, reconciled)
          /\ WriteHealth(p, IF good THEN "ready" ELSE "degraded", ready, "beat", "handler")
    BY <1>1, Zenon DEF CycleReturns
  <2> DEFINE good == processed /\ (reconciling[p] => reconciled)
             state == IF good THEN "ready" ELSE "degraded"
  <2>2. state = "ready" => (reconciling[p] => reconciled)
    OBVIOUS
  <2>3. "beat" \in Targets /\ "handler" \in Targets
    BY DEF Targets
  <2> HIDE DEF state
  <2> QED
    BY <2>1, <2>2, <2>3, Zenon DEF Outcome, state
<1>2. CASE CycleRaises(p)
  <2>1. PICK to \in {"handler", "loop"} : WriteHealth(p, "degraded", succeeded[p], to, to)
    BY <1>2, Zenon DEF CycleRaises, Counted
  <2>2. CycleOver(p, FALSE) /\ to \in Targets /\ FALSE \in BOOLEAN /\ "degraded" # "ready"
    BY <1>2, <2>1 DEF CycleRaises, Targets
  <2> QED
    BY <2>1, <2>2, Zenon DEF Outcome
<1>3. CASE TickerdCycle(p)
  BY <1>3, TickerdWriting DEF Outcome, Sound
<1> QED
  BY <1>1, <1>2, <1>3

\* A step of p moves p alone.
MovesAlone(p) == \E to : pc' = [pc EXCEPT ![p] = to]

LEMMA StepsMoveAlone ==
  ASSUME IInv, NEW p \in Procs, Start(p) \/ Run(p) \/ StartupRaises(p) \/ Kill(p)
  PROVE  MovesAlone(p)
<1>1. CASE Writer(p)
  <2>1. PICK state, ready, ok, lost : Sound(p, state, ready, ok, lost)
    BY <1>1, WriterWriting DEF Writing
  <2> QED
    BY <2>1, Zenon DEF Sound, WriteHealth, Written, NotWritten, Goto, MovesAlone
<1>2. CASE ~Writer(p)
  BY <1>2, Zenon DEF Writer, MovesAlone, Run, Start, Acquire, LockTimeout, OpenStore, Stamp, BeginCycle,
     Beat, Rename, Release, StartupRaises, Kill, Gone, Goto
<1> QED
  BY <1>1, <1>2

\* A cycle that succeeds leaves due what came while it ran, and nothing else
\* (DaemonRuntime.run_cycle).
THEOREM ReconcileCorrect == Spec => ReconcileMadeUp
<1> DEFINE A == \A p \in Procs :
                  pc[p] = "cycle" /\ pc'[p] = "rename" /\ tmp'.state = "ready"
                    => (due'[p] <=> crossed[p])
<1>1. IInv /\ [Next]_vars => A
  <2> SUFFICES ASSUME IInv, [Next]_vars, NEW p \in Procs,
                      pc[p] = "cycle", pc'[p] = "rename", tmp'.state = "ready"
               PROVE  due'[p] <=> crossed[p]
    OBVIOUS
  <2>1. PICK q \in Procs : Start(q) \/ Run(q) \/ StartupRaises(q) \/ Kill(q)
    BY DEF Next, vars, local, Signal, Age, Boundary
  <2>2. q = p
    BY <2>1, StepsMoveAlone DEF MovesAlone, IInv, TypeOK
  <2>3. CycleReturns(p) \/ CycleRaises(p) \/ TickerdCycle(p)
    <3>1. ~StartupRaises(p) /\ ~Kill(p)
      BY DEF StartupRaises, Kill, Gone, Goto, IInv, TypeOK
    <3> QED
      BY <2>1, <2>2, <3>1 DEF Run, Start, Acquire, LockTimeout, OpenStore, Announce, Stamp, BeginCycle,
         Beat, BeatFails, Rename, Shutdown, Handle, Release
  <2>a. PICK reconciled \in BOOLEAN : \E state, ready, ok, lost :
          /\ lost \in Targets
          /\ CycleOver(p, reconciled)
          /\ WriteHealth(p, state, ready, ok, lost)
          /\ state = "ready" => (reconciling[p] => reconciled)
    BY <2>3, CycleOutcome DEF Outcome
  <2>4. PICK state, ready, ok, lost :
          /\ lost \in Targets
          /\ CycleOver(p, reconciled)
          /\ WriteHealth(p, state, ready, ok, lost)
          /\ state = "ready" => (reconciling[p] => reconciled)
    BY <2>a
  <2>5. reconciling[p] => reconciled
    <3>1. tmp' = [by |-> p, state |-> state, ready |-> ready] \/ pc'[p] = lost
      BY <2>4 DEF WriteHealth, NotWritten, Goto, IInv, TypeOK
    <3> QED
      BY <2>4, <3>1 DEF Targets
  <2>6. due'[p] = (IF reconciling[p] /\ reconciled THEN crossed[p] ELSE due[p])
    BY <2>4 DEF CycleOver, Put, IInv, TypeOK
  <2>7. CASE reconciling[p]
    BY <2>5, <2>6, <2>7
  <2>8. CASE ~reconciling[p]
    BY <2>6, <2>8 DEF IInv, BoundaryKept
  <2> QED
    BY <2>7, <2>8
<1> QED
  BY <1>1, InductiveInvariant, PTL DEF Spec, ReconcileMadeUp

-----------------------------------------------------------------------------
(* Who is ready is alive *)

Live == InLoop \cup {"rename", "handler"}

\* p does not leave its loop behind the record that it writes, unless by the handler.
Staying(p) == after[p].ok \in Aims /\ after[p].lost \in Aims

\* Nothing having been killed or failed to be written, the writer of a record
\* that says ready is in its loop, in the handler, or writing; if it is writing
\* its last record, the file is there until that record, or one that replaces it,
\* is renamed.  A file that is there has a writer who waits for it.
RecordAlive ==
  health.ready =>
    /\ health.by \in Procs /\ pc[health.by] \in Live
    /\ pc[health.by] = "rename" /\ ~Staying(health.by) => tmp # NoFile
FileAlive == tmp # NoFile => pc[tmp.by] = "rename" /\ (tmp.ready => Staying(tmp.by))
Alive == faults = 0 => RecordAlive /\ FileAlive

\* A process starts to write.
LEMMA WriterAlive ==
  ASSUME IInv, RecordAlive, FileAlive, NEW p \in Procs, Writer(p), faults = 0, faults' = 0
  PROVE  RecordAlive' /\ FileAlive'
<1>1. Writing(p)
  BY WriterWriting
<1>2. PICK state, ready, ok, lost : Sound(p, state, ready, ok, lost)
  BY <1>1 DEF Writing
<1>3. /\ tmp' = [by |-> p, state |-> state, ready |-> ready]
      /\ after' = [after EXCEPT ![p] = [ok |-> ok, lost |-> lost]]
      /\ pc' = [pc EXCEPT ![p] = "rename"]
  BY <1>2 DEF Sound, WriteHealth, Written, NotWritten, Fault, Goto, Put
<1>4. tmp' # NoFile /\ UNCHANGED health
  BY <1>1, <1>3, RunnerAssumption DEF NoFile, Writing
<1>5. RecordAlive'
  BY <1>3, <1>4 DEF RecordAlive, Live, IInv, TypeOK
<1>6. FileAlive'
  <2>1. ready => ok \in Aims /\ lost \in Aims
    BY <1>2 DEF Sound
  <2> QED
    BY <1>3, <2>1 DEF FileAlive, Staying, IInv, TypeOK
<1> QED
  BY <1>5, <1>6

\* A process renames what is there.
LEMMA RenameAlive ==
  ASSUME IInv, RecordAlive, FileAlive, NEW p \in Procs, Rename(p)
  PROVE  RecordAlive' /\ FileAlive'
<1>1. /\ pc[p] = "rename" /\ tmp' = NoFile
      /\ \A q \in Procs : q # p => pc'[q] = pc[q] /\ after'[q] = after[q]
      /\ \/ tmp # NoFile /\ health' = tmp /\ pc'[p] = after[p].ok
         \/ tmp = NoFile /\ health' = health /\ pc'[p] = after[p].lost
      /\ pc'[p] # "rename"
  BY DEF Rename, Goto, Put, IInv, TypeOK, Targeted, Aimed, Targets
<1>2. Aims \subseteq Live
  BY DEF Aims, Live, InLoop
<1>3. CASE tmp # NoFile /\ health' = tmp /\ pc'[p] = after[p].ok
  <2> SUFFICES ASSUME tmp.ready
               PROVE  /\ tmp.by \in Procs /\ pc'[tmp.by] \in Live
                      /\ pc'[tmp.by] = "rename" => after'[tmp.by].ok \in Aims /\ after'[tmp.by].lost \in Aims
    BY <1>1, <1>3 DEF RecordAlive, FileAlive, Staying
  <2>1. tmp.by \in Procs /\ pc[tmp.by] = "rename" /\ Staying(tmp.by)
    BY <1>3 DEF FileAlive, IInv, TmpHonest
  <2> QED
    BY <1>1, <1>2, <1>3, <2>1 DEF Staying, Live
<1>4. CASE tmp = NoFile /\ health' = health /\ pc'[p] = after[p].lost
  BY <1>1, <1>2, <1>4 DEF RecordAlive, FileAlive, Staying
<1> QED
  BY <1>1, <1>3, <1>4

\* Any other step of p leaves the records, and does not take p out of its loop.
LEMMA PlainAlive ==
  ASSUME IInv, RecordAlive, FileAlive, NEW p \in Procs, NEW to,
         pc' = [pc EXCEPT ![p] = to], UNCHANGED <<tmp, health>>,
         pc[p] # "rename", to # "rename", pc[p] \in Live => to \in Live,
         \A q \in Procs : q # p => after'[q] = after[q]
  PROVE  RecordAlive' /\ FileAlive'
<1>1. /\ pc'[p] = to
      /\ \A q \in Procs : q # p => pc'[q] = pc[q]
  BY DEF IInv, TypeOK
<1>2. RecordAlive'
  <2> SUFFICES ASSUME health.ready
               PROVE  /\ health.by \in Procs /\ pc'[health.by] \in Live
                      /\ pc'[health.by] = "rename" =>
                           (after'[health.by].ok \in Aims /\ after'[health.by].lost \in Aims) \/ tmp # NoFile
    BY DEF RecordAlive, Staying
  <2> QED
    BY <1>1 DEF RecordAlive, Staying
<1>3. FileAlive'
  <2> SUFFICES ASSUME tmp # NoFile
               PROVE  /\ pc'[tmp.by] = "rename"
                      /\ tmp.ready => after'[tmp.by].ok \in Aims /\ after'[tmp.by].lost \in Aims
    BY DEF FileAlive, Staying, NoFile
  <2>1. tmp.by \in Procs /\ tmp.by # p
    BY DEF FileAlive, IInv, TmpHonest
  <2> QED
    BY <1>1, <2>1 DEF FileAlive, Staying
<1> QED
  BY <1>2, <1>3

LEMMA OtherAlive ==
  ASSUME IInv, RecordAlive, FileAlive, NEW p \in Procs, faults = 0, faults' = 0,
         Start(p) \/ Run(p) \/ StartupRaises(p) \/ Kill(p), ~Writer(p), ~Rename(p)
  PROVE  RecordAlive' /\ FileAlive'
<1>1. ~StartupRaises(p) /\ ~Kill(p)
  BY DEF StartupRaises, Kill, Fault
<1>2. PICK to : pc' = [pc EXCEPT ![p] = to]
  BY StepsMoveAlone DEF MovesAlone
<1>3. pc'[p] = to
  BY <1>2 DEF IInv, TypeOK
<1>4. UNCHANGED <<tmp, health>> /\ \A q \in Procs : q # p => after'[q] = after[q]
  BY <1>1 DEF Writer, Run, Start, Acquire, LockTimeout, OpenStore, Stamp, BeginCycle, Beat, Release,
     Gone, Put, files, IInv, TypeOK
<1>5. \/ pc[p] \in {"down", "lock", "open", "stamp", "release"}
      \/ pc[p] \in {"loop", "beat"} /\ to \in {"cycle", "loop"}
  BY <1>1, <1>3 DEF Writer, Run, Start, Acquire, LockTimeout, OpenStore, Stamp, BeginCycle, Beat,
     Release, Goto, IInv, TypeOK
<1>6. to # "rename"
  BY <1>1, <1>3 DEF Writer, Run, Start, AfterConfig, Acquire, LockTimeout, OpenStore, Stamp,
     BeginCycle, Beat, Release, Gone, Goto, IInv, TypeOK
<1>7. pc[p] # "rename" /\ (pc[p] \in Live => to \in Live)
  BY <1>5 DEF Live, InLoop
<1> QED
  BY <1>2, <1>4, <1>6, <1>7, PlainAlive

\* The number of faults never comes down.
LEMMA FaultsCounted == ASSUME IInv, [Next]_vars, faults' = 0 PROVE faults = 0
<1>1. UNCHANGED faults \/ faults' = faults + 1
  <2>1. ASSUME NEW p \in Procs, Writer(p) PROVE UNCHANGED faults \/ Fault
    BY <2>1, WriterWriting DEF Writing, Sound, WriteHealth, Written, NotWritten
  <2>2. ASSUME NEW p \in Procs,
               Start(p) \/ Acquire(p) \/ LockTimeout(p) \/ OpenStore(p) \/ Stamp(p) \/ BeginCycle(p)
                 \/ Beat(p) \/ Rename(p) \/ Release(p) \/ StartupRaises(p) \/ Kill(p) \/ Signal(p)
        PROVE  UNCHANGED faults \/ Fault
    BY <2>2 DEF Start, Acquire, LockTimeout, OpenStore, Stamp, BeginCycle, Beat, Rename, Release,
       StartupRaises, Kill, Signal
  <2>3. UNCHANGED faults \/ Fault
    BY <2>1, <2>2, Zenon DEF Writer, Next, Run, Age, Boundary, vars
  <2> QED
    BY <2>3 DEF Fault
<1> QED
  BY <1>1 DEF IInv, TypeOK

LEMMA NextAlive == IInv /\ Alive /\ [Next]_vars => Alive'
<1> SUFFICES ASSUME IInv, Alive, [Next]_vars, faults' = 0 PROVE RecordAlive' /\ FileAlive'
  BY DEF Alive
<1>1. faults = 0 /\ RecordAlive /\ FileAlive
  BY FaultsCounted DEF Alive
<1>2. CASE \E p \in Procs : Start(p) \/ Run(p) \/ StartupRaises(p) \/ Kill(p)
  BY <1>1, <1>2, WriterAlive, RenameAlive, OtherAlive, Zenon
<1>3. CASE UNCHANGED <<pc, after, tmp, health>>
  BY <1>1, <1>3 DEF RecordAlive, FileAlive, Staying
<1> QED
  BY <1>2, <1>3, Zenon DEF Next, Signal, Age, Boundary, vars, local, files

\* As long as nothing is killed and every record gets written, a health record
\* that says ready is that of a process in its loop, in the handler, or writing
\* the record that replaces it (write_health and KinflowHealthSink).
THEOREM ReadyCorrect == Spec => []ReadyIsAlive
<1>1. Init => Alive
  BY DEF Init, Alive, RecordAlive, FileAlive, NoFile
<1>2. Alive => ReadyIsAlive
  BY DEF Alive, RecordAlive, ReadyIsAlive, Live
<1> QED
  BY <1>1, <1>2, NextAlive, InductiveInvariant, PTL DEF Spec
=============================================================================
