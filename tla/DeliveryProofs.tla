--------------------------- MODULE DeliveryProofs ---------------------------
(***************************************************************************)
(* Proofs about Delivery, for any number of processes whose batches        *)
(* overlap, and any provider that keeps ProviderAssumption.                *)
(***************************************************************************)
EXTENDS Delivery, TLAPS

\* Where a batch has an object in hand, and where it knows what to write for it.
Serving == {"attempt", "send", "settle", "log"}
Decided == {"settle", "log"}

\* What a batch is about to write is true when it is decided, and stays true.
BatchOK(p) ==
  /\ pc[p] \in Serving => cur[p] \in Object
  /\ pc[p] \in Decided => verdict[p] # "none"
  /\ pc[p] \in Decided /\ verdict[p] = "delivered" => shown[cur[p].id] > 0

\* DeliveredWasShown is not inductive by itself: the status delivered is written
\* two steps after the provider's answer, from the memory of the batch.
IInv ==
  /\ TypeOK
  /\ \A p \in Procs : BatchOK(p)
  /\ DeliveredWasShown

-----------------------------------------------------------------------------
(* Helpers                                                                 *)

\* The row that Write commits is a row, and nobody else's row changes.
LEMMA WriteType ==
  ASSUME TypeOK, NEW r \in Reminders, NEW st \in Open \cup Finished,
         NEW n \in Nat, NEW next \in Nat \cup {None}, Write(r, st, n, next)
  PROVE  /\ reminder' \in [Reminders -> Row]
         /\ \A q \in Reminders :
              reminder'[q].status = IF q = r THEN st ELSE reminder[q].status
BY DEF TypeOK, Write, Row

\* What a SELECT of open rows returns are Reminder objects.
LEMMA ObjectType ==
  ASSUME TypeOK, NEW r \in Reminders, reminder[r].status \in Open
  PROVE  ObjectOf(r) \in Object
BY DEF TypeOK, ObjectOf, Object, Row

\* The gates never answer with a delivery.
LEMMA GateType ==
  ASSUME NEW r \in Reminders, NEW t \in Nat
  PROVE  Gate(r, t) \in {"blocked", "suppressed", "none"}
BY DEF Gate

\* The provider's answer decides one of three outcomes.
LEMMA VerdictType ==
  ASSUME NEW o, NEW ok \in BOOLEAN
  PROVE  /\ VerdictOn(o, ok) \in {"delivered", "failed", "retry"}
         /\ VerdictOn(o, ok) = "delivered" => ok
BY DEF VerdictOn

\* A batch that keeps its hands off the shared state and off the other batches
\* disturbs only what is said about itself.
LEMMA LocalStep ==
  ASSUME IInv, NEW p \in Procs, UNCHANGED <<reminder, ledger, shown>>,
         \A q \in Procs \ {p} :
           pc'[q] = pc[q] /\ cur'[q] = cur[q] /\ verdict'[q] = verdict[q],
         BatchOK(p)'
  PROVE  (\A q \in Procs : BatchOK(q)') /\ DeliveredWasShown'
<1>1. ASSUME NEW q \in Procs \ {p} PROVE BatchOK(q)'
  BY <1>1 DEF IInv, BatchOK
<1> QED
  BY <1>1 DEF IInv, DeliveredWasShown

\* Ending a process forgets its batch.
LEMMA EndStep ==
  ASSUME IInv, NEW p \in Procs, End(p), UNCHANGED <<db, intake, outside, shown, now>>,
         crashes' \in Nat
  PROVE  IInv'
<1>1. TypeOK'
  BY DEF IInv, TypeOK, End, db, intake, outside, PCs, Verdicts
<1>2. BatchOK(p)'
  BY DEF IInv, TypeOK, End, BatchOK, Serving, Decided
<1>3. \A q \in Procs \ {p} :
        pc'[q] = pc[q] /\ cur'[q] = cur[q] /\ verdict'[q] = verdict[q]
  BY DEF IInv, TypeOK, End
<1> QED
  BY <1>1, <1>2, <1>3, LocalStep DEF IInv, db

-----------------------------------------------------------------------------
(* The batches                                                             *)

LEMMA BeginKeeps ==
  ASSUME IInv, NEW p \in Procs, BeginBatch(p) \/ BeginReconcile(p)
  PROVE  IInv'
<1>1. PICK to \in {"list", "rec_list"} : Goto(p, "idle", to)
  BY DEF BeginBatch, BeginReconcile
<1> USE DEF BeginBatch, BeginReconcile
<1>2. TypeOK'
  BY <1>1 DEF IInv, TypeOK, Goto, db, intake, outside, PCs
<1>3. BatchOK(p)'
  BY <1>1 DEF IInv, TypeOK, Goto, BatchOK, Serving, Decided
<1>4. \A q \in Procs \ {p} :
        pc'[q] = pc[q] /\ cur'[q] = cur[q] /\ verdict'[q] = verdict[q]
  BY <1>1 DEF IInv, TypeOK, Goto
<1> QED
  BY <1>2, <1>3, <1>4, LocalStep DEF IInv, db

LEMMA ListKeeps ==
  ASSUME IInv, NEW p \in Procs, ListDue(p) \/ ListRetriable(p)
  PROVE  IInv'
<1>1. PICK R \in SUBSET Reminders, from \in {"list", "rec_list"},
           to \in {"idle", "target", "rec_write"} :
        /\ Goto(p, from, to)
        /\ \A r \in R : reminder[r].status \in Open
        /\ todo' = [todo EXCEPT ![p] = {ObjectOf(r) : r \in R}]
  <2>1. CASE ListDue(p)
    <3> DEFINE to == IF Due(at[p]) = {} THEN "idle" ELSE "target"
    <3>1. Due(at[p]) \in SUBSET Reminders
      BY DEF Due
    <3>2. /\ Goto(p, "list", to) /\ to \in {"idle", "target", "rec_write"}
          /\ \A r \in Due(at[p]) : reminder[r].status \in Open
          /\ todo' = [todo EXCEPT ![p] = {ObjectOf(r) : r \in Due(at[p])}]
      BY <2>1 DEF ListDue, Due
    <3> HIDE DEF to
    <3> QED
      BY <3>1, <3>2
  <2>2. CASE ListRetriable(p)
    <3> DEFINE to == IF Retriable(at[p]) = {} THEN "idle" ELSE "rec_write"
    <3>1. Retriable(at[p]) \in SUBSET Reminders
      BY DEF Retriable, FirstDue, Due
    <3>2. /\ Goto(p, "rec_list", to) /\ to \in {"idle", "target", "rec_write"}
          /\ \A r \in Retriable(at[p]) : reminder[r].status \in Open
          /\ todo' = [todo EXCEPT ![p] = {ObjectOf(r) : r \in Retriable(at[p])}]
      BY <2>2 DEF ListRetriable, Retriable, Open
    <3> HIDE DEF to
    <3> QED
      BY <3>1, <3>2
  <2> QED
    BY <2>1, <2>2
<1>2. UNCHANGED <<db, at, cur, verdict, visible, intake, outside, shown, now, crashes>>
  BY DEF ListDue, ListRetriable
<1>3. todo' \in [Procs -> SUBSET Object]
  BY <1>1, ObjectType DEF IInv, TypeOK
<1>4. TypeOK'
  BY <1>1, <1>2, <1>3 DEF IInv, TypeOK, Goto, db, intake, outside, PCs
<1>5. BatchOK(p)'
  BY <1>1, <1>2 DEF IInv, TypeOK, Goto, BatchOK, Serving, Decided
<1>6. \A q \in Procs \ {p} :
        pc'[q] = pc[q] /\ cur'[q] = cur[q] /\ verdict'[q] = verdict[q]
  BY <1>1, <1>2 DEF IInv, TypeOK, Goto
<1> QED
  BY <1>2, <1>4, <1>5, <1>6, LocalStep DEF IInv, db

LEMMA ReadTargetKeeps ==
  ASSUME IInv, NEW p \in Procs, ReadTarget(p)
  PROVE  IInv'
<1>1. PICK o \in Earliest(todo[p]) :
        /\ todo' = [todo EXCEPT ![p] = @ \ {o}]
        /\ cur' = [cur EXCEPT ![p] = o]
        /\ verdict' = [verdict EXCEPT ![p] = Gate(o.id, at[p])]
        /\ pc' = [pc EXCEPT ![p] =
                    IF Gate(o.id, at[p]) = "none" THEN "attempt" ELSE "settle"]
  BY DEF ReadTarget
<1>2. o \in Object /\ o.id \in Reminders
  BY DEF IInv, TypeOK, Earliest, Object
<1> DEFINE g == Gate(o.id, at[p])
<1>3. g \in {"blocked", "suppressed", "none"}
  BY <1>2, GateType DEF IInv, TypeOK
<1>4. UNCHANGED <<db, at, visible, intake, outside, shown, now, crashes>>
  BY DEF ReadTarget
<1> HIDE DEF g
<1>5. /\ verdict' = [verdict EXCEPT ![p] = g]
      /\ pc' = [pc EXCEPT ![p] = IF g = "none" THEN "attempt" ELSE "settle"]
  BY <1>1 DEF g
<1>6. TypeOK'
  BY <1>1, <1>2, <1>3, <1>4, <1>5
  DEF IInv, TypeOK, db, intake, outside, PCs, Verdicts
<1>7. BatchOK(p)'
  BY <1>1, <1>2, <1>3, <1>5 DEF IInv, TypeOK, BatchOK, Serving, Decided
<1>8. \A q \in Procs \ {p} :
        pc'[q] = pc[q] /\ cur'[q] = cur[q] /\ verdict'[q] = verdict[q]
  BY <1>1, <1>5 DEF IInv, TypeOK
<1> QED
  BY <1>4, <1>6, <1>7, <1>8, LocalStep DEF IInv, db

\* The batch puts its object away and goes on.
LEMMA AdvanceType ==
  ASSUME TypeOK, NEW p \in Procs, Advance(p, "target")
  PROVE  /\ pc' \in [Procs -> PCs]
         /\ cur' \in [Procs -> Object \cup {None}]
         /\ verdict' \in [Procs -> Verdicts]
         /\ pc'[p] \in {"idle", "target"}
         /\ \A q \in Procs \ {p} :
              pc'[q] = pc[q] /\ cur'[q] = cur[q] /\ verdict'[q] = verdict[q]
BY DEF TypeOK, Advance, PCs, Verdicts

\* The object in hand is still one after its attempt was counted.
LEMMA CountedType ==
  ASSUME NEW o \in Object
  PROVE  [o EXCEPT !.status = "attempted", !.attempts = @ + 1] \in Object
<1> DEFINE a == [o EXCEPT !.status = "attempted"]
<1>1. a \in Object /\ a.attempts = o.attempts /\ o.attempts + 1 \in Nat
  BY DEF Object, Open
<1>2. [a EXCEPT !.attempts = a.attempts + 1] \in Object
  BY <1>1 DEF Object
<1> QED
  BY <1>1, <1>2

LEMMA AttemptKeeps ==
  ASSUME IInv, NEW p \in Procs, Attempt(p)
  PROVE  IInv'
<1> DEFINE o == cur[p]
<1>1. o \in Object /\ pc[p] = "attempt"
  BY DEF IInv, BatchOK, Attempt, Serving
<1>2. o.id \in Reminders /\ o.attempts + 1 \in Nat /\ o.next \in Nat \cup {None}
  BY <1>1 DEF Object
<1>3. /\ reminder' \in [Reminders -> Row]
      /\ \A q \in Reminders : reminder'[q].status =
           IF q = o.id THEN "attempted" ELSE reminder[q].status
  BY <1>2, WriteType DEF IInv, Attempt, Open
<1>4. UNCHANGED <<ledger, at, todo, visible, intake, outside, shown, now, crashes>>
  BY DEF Attempt
<1>5. /\ pc' \in [Procs -> PCs]
      /\ cur' \in [Procs -> Object \cup {None}]
      /\ verdict' \in [Procs -> Verdicts]
      /\ pc'[p] \in {"idle", "target"} \/ (pc'[p] = "send" /\ cur'[p] \in Object)
      /\ \A q \in Procs \ {p} :
           pc'[q] = pc[q] /\ cur'[q] = cur[q] /\ verdict'[q] = verdict[q]
  <2>1. CASE o.id \in visible[p]
    BY <2>1, AdvanceType DEF IInv, Attempt
  <2>2. CASE o.id \notin visible[p]
    <3>1. /\ pc' = [pc EXCEPT ![p] = "send"]
          /\ cur' = [cur EXCEPT ![p].status = "attempted", ![p].attempts = @ + 1]
          /\ UNCHANGED verdict
      BY <2>2 DEF Attempt
    <3> DEFINE counted == [o EXCEPT !.status = "attempted", !.attempts = @ + 1]
    <3>2. counted \in Object
      BY <1>1, CountedType
    <3>3. cur' = [cur EXCEPT ![p] = counted]
      BY <3>1 DEF IInv, TypeOK
    <3> HIDE DEF counted
    <3>4. pc'[p] = "send" /\ cur'[p] = counted
      BY <3>1, <3>3 DEF IInv, TypeOK
    <3> QED
      BY <3>1, <3>2, <3>3, <3>4 DEF IInv, TypeOK, PCs
  <2> QED
    BY <2>1, <2>2
<1>6. TypeOK'
  BY <1>3, <1>4, <1>5 DEF IInv, TypeOK, intake, outside
<1>7. \A q \in Procs : BatchOK(q)'
  BY <1>4, <1>5 DEF IInv, BatchOK, Serving, Decided
<1>8. DeliveredWasShown'
  BY <1>3, <1>4 DEF IInv, DeliveredWasShown
<1> QED
  BY <1>6, <1>7, <1>8 DEF IInv

LEMMA SendKeeps ==
  ASSUME IInv, NEW p \in Procs, Send(p)
  PROVE  IInv'
<1> DEFINE o == cur[p]
<1>1. o \in Object /\ o.id \in Reminders
  BY DEF IInv, BatchOK, Send, Goto, Serving, Object
<1>2. PICK a \in Provider :
        /\ shown' = [shown EXCEPT ![o.id] = @ + (IF a.shown THEN 1 ELSE 0)]
        /\ verdict' = [verdict EXCEPT ![p] = VerdictOn(o, a.ok)]
  BY DEF Send
<1>3. a.ok \in BOOLEAN /\ a.shown \in BOOLEAN /\ (a.ok => a.shown)
  BY DeliveryAssumption, ProviderAssumption
<1>4. PICK v \in {"delivered", "failed", "retry"} :
        v = VerdictOn(o, a.ok) /\ (v = "delivered" => a.shown)
  BY <1>3, VerdictType
<1>5. /\ UNCHANGED <<db, at, todo, cur, visible, intake, outside, now, crashes>>
      /\ pc' = [pc EXCEPT ![p] = "settle"]
  BY DEF Send, Goto
<1>6. /\ shown' \in [Reminders -> Nat]
      /\ \A r \in Reminders : shown'[r] >= shown[r]
      /\ v = "delivered" => shown'[o.id] > 0
  BY <1>1, <1>2, <1>3, <1>4 DEF IInv, TypeOK
<1>7. TypeOK'
  BY <1>2, <1>4, <1>5, <1>6 DEF IInv, TypeOK, db, intake, outside, PCs, Verdicts
<1>8. BatchOK(p)'
  BY <1>1, <1>2, <1>4, <1>5, <1>6 DEF IInv, TypeOK, BatchOK, Serving, Decided
<1>9. ASSUME NEW q \in Procs \ {p} PROVE BatchOK(q)'
  <2>1. /\ pc'[q] = pc[q] /\ cur'[q] = cur[q] /\ verdict'[q] = verdict[q]
        /\ BatchOK(q)
    BY <1>2, <1>5, <1>9 DEF IInv, TypeOK
  <2>2. CASE pc[q] \in Decided /\ verdict[q] = "delivered"
    <3>1. cur[q].id \in Reminders /\ shown[cur[q].id] > 0
      BY <2>1, <2>2 DEF BatchOK, Decided, Serving, Object
    <3>2. shown'[cur[q].id] > 0
      BY <1>6, <3>1 DEF IInv, TypeOK
    <3> QED
      BY <2>1, <3>2 DEF BatchOK
  <2> QED
    BY <2>1, <2>2 DEF BatchOK
<1>10. DeliveredWasShown'
  <2>1. \A r \in Reminders : shown[r] > 0 => shown'[r] > 0
    BY <1>6 DEF IInv, TypeOK
  <2>2. \A e \in ledger : e.id \in Reminders
    BY DEF IInv, TypeOK, Entry
  <2> QED
    BY <1>5, <2>1, <2>2 DEF IInv, DeliveredWasShown, db
<1> QED
  BY <1>7, <1>8, <1>9, <1>10 DEF IInv

LEMMA SettleKeeps ==
  ASSUME IInv, NEW p \in Procs, Settle(p)
  PROVE  IInv'
<1> DEFINE o == cur[p]
           next == IF verdict[p] = "retry" THEN NextAttempt(p) ELSE o.next
           st == StatusFor(verdict[p])
<1>1. o \in Object /\ o.id \in Reminders /\ o.attempts \in Nat
  BY DEF IInv, BatchOK, Settle, Goto, Serving, Object
<1>2. /\ verdict[p] \in Verdicts \ {"none"}
      /\ verdict[p] = "delivered" => shown[o.id] > 0
  BY DEF IInv, TypeOK, BatchOK, Settle, Goto, Decided
<1>3. /\ st \in Open \cup Finished
      /\ st = "delivered" => verdict[p] = "delivered"
  BY <1>2 DEF StatusFor, Verdicts, Open, Finished
<1>4. next \in Nat \cup {None}
  BY <1>1, DeliveryAssumption DEF NextAttempt, IInv, TypeOK, Object
<1>5. Write(o.id, st, o.attempts, next)
  BY DEF Settle
<1> HIDE DEF st, next
<1>6. /\ reminder' \in [Reminders -> Row]
      /\ \A q \in Reminders :
           reminder'[q].status = IF q = o.id THEN st ELSE reminder[q].status
  BY <1>1, <1>3, <1>4, <1>5, WriteType DEF IInv
<1>7. /\ UNCHANGED <<ledger, at, todo, cur, verdict, intake, outside, shown, now, crashes>>
      /\ pc' = [pc EXCEPT ![p] = "log"] /\ pc[p] = "settle"
  BY DEF Settle, Goto
<1>8. visible' \in [Procs -> SUBSET Reminders]
  BY <1>1 DEF Settle, IInv, TypeOK
<1>9. TypeOK'
  BY <1>6, <1>7, <1>8 DEF IInv, TypeOK, intake, outside, PCs
<1>10. \A q \in Procs : BatchOK(q)'
  BY <1>7 DEF IInv, TypeOK, BatchOK, Serving, Decided
<1>11. DeliveredWasShown'
  BY <1>2, <1>3, <1>6, <1>7 DEF IInv, DeliveredWasShown
<1> QED
  BY <1>9, <1>10, <1>11 DEF IInv

LEMMA LogKeeps ==
  ASSUME IInv, NEW p \in Procs, Log(p)
  PROVE  IInv'
<1> DEFINE e == [id |-> cur[p].id, index |-> IndexOf(p),
                 status |-> verdict[p], at |-> at[p]]
<1>1. cur[p] \in Object
  BY DEF IInv, BatchOK, Log, Serving
<1>2. /\ verdict[p] \in Verdicts \ {"none"}
      /\ verdict[p] = "delivered" => shown[cur[p].id] > 0
  BY DEF IInv, TypeOK, BatchOK, Log, Decided
<1>3. IndexOf(p) \in Nat
  BY <1>1 DEF IndexOf, Object
<1>4. e \in Entry
  BY <1>1, <1>2, <1>3 DEF Entry, Object, IInv, TypeOK
<1>5. ledger' = ledger \cup {e}
  BY DEF Log
<1>6. UNCHANGED <<reminder, at, todo, visible, intake, outside, shown, now, crashes>>
  BY DEF Log
<1>7. /\ pc' \in [Procs -> PCs]
      /\ cur' \in [Procs -> Object \cup {None}]
      /\ verdict' \in [Procs -> Verdicts]
      /\ pc'[p] \in {"idle", "target"}
      /\ \A q \in Procs \ {p} :
           pc'[q] = pc[q] /\ cur'[q] = cur[q] /\ verdict'[q] = verdict[q]
  BY AdvanceType DEF IInv, Log
<1>8. TypeOK'
  BY <1>4, <1>5, <1>6, <1>7 DEF IInv, TypeOK, intake, outside
<1>9. \A q \in Procs : BatchOK(q)'
  BY <1>6, <1>7 DEF IInv, BatchOK, Serving, Decided
<1>10. DeliveredWasShown'
  BY <1>2, <1>5, <1>6 DEF IInv, DeliveredWasShown
<1> QED
  BY <1>8, <1>9, <1>10 DEF IInv

LEMMA ReconcileKeeps ==
  ASSUME IInv, NEW p \in Procs, Reconcile(p)
  PROVE  IInv'
<1>1. PICK o \in Earliest(todo[p]) :
        /\ Write(o.id, "scheduled", o.attempts, None)
        /\ todo' = [todo EXCEPT ![p] = @ \ {o}]
        /\ pc' = [pc EXCEPT ![p] = IF todo[p] = {o} THEN "idle" ELSE "rec_write"]
  BY DEF Reconcile
<1>2. o \in Object /\ o.id \in Reminders /\ o.attempts \in Nat
  BY DEF IInv, TypeOK, Earliest, Object
<1>3. /\ reminder' \in [Reminders -> Row]
      /\ \A q \in Reminders : reminder'[q].status =
           IF q = o.id THEN "scheduled" ELSE reminder[q].status
  BY <1>1, <1>2, WriteType DEF IInv, Open
<1>4. UNCHANGED <<ledger, at, cur, verdict, visible, intake, outside, shown, now, crashes>>
  BY DEF Reconcile
<1>5. TypeOK'
  BY <1>1, <1>3, <1>4 DEF IInv, TypeOK, intake, outside, PCs
<1>6. \A q \in Procs : BatchOK(q)'
  BY <1>1, <1>4 DEF IInv, TypeOK, BatchOK, Serving, Decided
<1>7. DeliveredWasShown'
  BY <1>3, <1>4 DEF IInv, DeliveredWasShown
<1> QED
  BY <1>5, <1>6, <1>7 DEF IInv

-----------------------------------------------------------------------------
(* The environment                                                         *)

LEMMA SweepReadKeeps ==
  ASSUME IInv, NEW G \in Groups, NEW lag \in 0 .. MaxLag, SweepRead(G, lag)
  PROVE  IInv'
<1>1. sweep' \subseteq Object
  <2>1. G \subseteq Reminders
    BY DeliveryAssumption
  <2> QED
    BY <2>1, ObjectType DEF SweepRead, IInv
<1>2. TypeOK'
  BY <1>1 DEF IInv, TypeOK, SweepRead, db, batch, outside
<1> QED
  BY <1>2 DEF IInv, SweepRead, BatchOK, DeliveredWasShown, db, batch

LEMMA SweepWriteKeeps ==
  ASSUME IInv, SweepWrite
  PROVE  IInv'
<1>1. PICK o \in Earliest(sweep) :
        /\ Write(o.id, "invalidated", o.attempts, o.next)
        /\ sweep' = sweep \ {o}
        /\ gone' = gone \cup {o.id}
  BY DEF SweepWrite
<1>2. /\ o.id \in Reminders /\ o.attempts \in Nat /\ o.next \in Nat \cup {None}
  BY DEF IInv, TypeOK, Earliest, Object
<1>3. /\ reminder' \in [Reminders -> Row]
      /\ \A q \in Reminders : reminder'[q].status =
           IF q = o.id THEN "invalidated" ELSE reminder[q].status
  BY <1>1, <1>2, WriteType DEF IInv, Finished
<1>4. UNCHANGED <<ledger, batch, swept, outside, shown, now, crashes>>
  BY DEF SweepWrite
<1>5. TypeOK'
  BY <1>1, <1>2, <1>3, <1>4 DEF IInv, TypeOK, batch, outside
<1>6. \A q \in Procs : BatchOK(q)'
  BY <1>4 DEF IInv, BatchOK, batch
<1>7. DeliveredWasShown'
  BY <1>3, <1>4 DEF IInv, DeliveredWasShown
<1> QED
  BY <1>5, <1>6, <1>7 DEF IInv

\* The mode, a target and the clock are nobody's batch.
LEMMA OutsideKeeps ==
  ASSUME IInv,
         SwitchMode \/ Tick
           \/ \E person \in People, st \in TargetStates : ChangeTarget(person, st)
  PROVE  IInv'
<1>1. UNCHANGED <<db, batch, intake, shown, crashes>>
  BY DEF SwitchMode, Tick, ChangeTarget
<1>2. /\ target' \in [People -> TargetStates] /\ mode' \in {"normal", "capture_only"}
      /\ now' \in Nat /\ switches' \in Nat
  BY DEF IInv, TypeOK, SwitchMode, Tick, ChangeTarget, outside
<1>3. TypeOK'
  BY <1>1, <1>2 DEF IInv, TypeOK, db, batch, intake
<1> QED
  BY <1>1, <1>3 DEF IInv, BatchOK, DeliveredWasShown, db, batch

-----------------------------------------------------------------------------
(* The invariant                                                           *)

LEMMA InitIInv == Init => IInv
<1> SUFFICES ASSUME Init PROVE IInv
  OBVIOUS
<1>1. TypeOK
  <2>1. reminder \in [Reminders -> Row]
    BY DEF Init, Row, Open
  <2>2. target \in [People -> TargetStates]
    BY DeliveryAssumption DEF Init
  <2> QED
    BY <2>1, <2>2 DEF Init, TypeOK, PCs, Verdicts
<1>2. \A p \in Procs : BatchOK(p)
  BY DEF Init, BatchOK, Serving, Decided
<1>3. DeliveredWasShown
  BY DEF Init, DeliveredWasShown
<1> QED
  BY <1>1, <1>2, <1>3 DEF IInv

LEMMA StepIInv == IInv /\ [Next]_vars => IInv'
<1> SUFFICES ASSUME IInv, [Next]_vars PROVE IInv'
  OBVIOUS
<1>1. CASE UNCHANGED vars
  BY <1>1 DEF IInv, TypeOK, BatchOK, DeliveredWasShown, vars, db, batch, intake, outside
<1>2. ASSUME NEW p \in Procs, BeginBatch(p) \/ BeginReconcile(p) PROVE IInv'
  BY <1>2, BeginKeeps
<1>3. ASSUME NEW p \in Procs, Work(p) PROVE IInv'
  <2>1. CASE ListDue(p) \/ ListRetriable(p)
    BY <2>1, ListKeeps
  <2>2. CASE ReadTarget(p)
    BY <2>2, ReadTargetKeeps
  <2>3. CASE Attempt(p)
    BY <2>3, AttemptKeeps
  <2>4. CASE Send(p)
    BY <2>4, SendKeeps
  <2>5. CASE Settle(p)
    BY <2>5, SettleKeeps
  <2>6. CASE Log(p)
    BY <2>6, LogKeeps
  <2>7. CASE LogDuplicate(p)
    BY <2>7, EndStep DEF LogDuplicate, IInv, TypeOK
  <2>8. CASE Reconcile(p)
    BY <2>8, ReconcileKeeps
  <2> QED
    BY <1>3, <2>1, <2>2, <2>3, <2>4, <2>5, <2>6, <2>7, <2>8 DEF Work
<1>4. ASSUME NEW p \in Procs, Restart(p) PROVE IInv'
  BY <1>4, EndStep DEF Restart, IInv, TypeOK
<1>5. ASSUME NEW p \in Procs, Crash(p) PROVE IInv'
  BY <1>5, EndStep DEF Crash, IInv, TypeOK
<1>6. ASSUME NEW G \in Groups, NEW lag \in 0 .. MaxLag, SweepRead(G, lag) PROVE IInv'
  BY <1>6, SweepReadKeeps
<1>7. CASE SweepWrite
  BY <1>7, SweepWriteKeeps
<1>8. CASE SwitchMode \/ Tick
             \/ \E person \in People, st \in TargetStates : ChangeTarget(person, st)
  BY <1>8, OutsideKeeps
<1> QED
  BY <1>1, <1>2, <1>3, <1>4, <1>5, <1>6, <1>7, <1>8 DEF Next, TargetStates

\* Types, and every batch knows the truth about the object in its hand.
THEOREM InductiveInvariant == Spec => []IInv
<1>1. IInv /\ [Next]_vars => IInv'
  BY StepIInv
<1> QED
  BY InitIInv, <1>1, PTL DEF Spec

\* Every variable keeps its type, whatever batches overlap.
THEOREM TypeCorrect == Spec => []TypeOK
<1>1. IInv => TypeOK
  BY DEF IInv
<1> QED
  BY InductiveInvariant, <1>1, PTL

\* No status and no row of the attempt ledger claims a delivery that did not
\* happen, for any number of overlapping batches, crashes and invalidations.
THEOREM DeliveriesAreReal == Spec => []DeliveredWasShown
<1>1. IInv => DeliveredWasShown
  BY DEF IInv
<1> QED
  BY InductiveInvariant, <1>1, PTL
=============================================================================
