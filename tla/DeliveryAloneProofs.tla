------------------------ MODULE DeliveryAloneProofs ------------------------
(***************************************************************************)
(* Proofs about Delivery where one process runs the batches and            *)
(* process_intent runs between them (Alone), as in the run delivery_alone: *)
(* for any reminders, provider, limits and number of crashes. What a batch *)
(* holds is then never stale, attempts are bounded and spaced, the ledger  *)
(* tells what the table tells, and the batches implement                   *)
(* ReminderLifecycle. Without it stale objects overwrite each other, and   *)
(* only what DeliveryProofs shows is left.                                 *)
(***************************************************************************)
EXTENDS DeliveryProofs, FiniteSetTheorems

\* One process, and process_intent between its batches only.
Single == Alone /\ \A p, q \in Procs : p = q

\* The object in the hand of a batch that has counted its attempt, or has decided
\* without one.
Flying(r) == \E p \in Procs : pc[p] \in {"send", "settle", "log"} /\ cur[p].id = r

\* An object is as its row is now.
Fresh(o) == o = ObjectOf(o.id)

\* The snapshot is never stale: nobody else writes, and the batch takes an object
\* out of it before it writes the row.
Snapshot(p) ==
  /\ at[p] <= now
  /\ pc[p] \in {"idle", "list", "rec_list"} => todo[p] = {}
  /\ \A o \in todo[p] :
       /\ Fresh(o)
       /\ o.next # None => o.next <= at[p]
       /\ pc[p] = "rec_write" => o.status = "attempted" /\ o.next # None
       /\ pc[p] \in Serving => o.id # cur[p].id

Tried(o) == reminder[o.id] = [status |-> "attempted", attempts |-> o.attempts, next |-> o.next]
HeldBack == {"blocked", "suppressed"}

\* What the row of the object in hand is, at each point.
Held(p) ==
  LET o == cur[p] IN
  /\ pc[p] = "attempt" => Fresh(o)
  /\ pc[p] = "send" => Tried(o) /\ shown[o.id] < o.attempts
  /\ pc[p] = "settle" =>
       IF verdict[p] \in HeldBack THEN Fresh(o)
       ELSE /\ Tried(o)
            /\ verdict[p] = "failed" => o.attempts > RetryLimit
            /\ verdict[p] = "retry" => o.attempts <= RetryLimit
  /\ pc[p] = "log" =>
       /\ reminder[o.id].status = StatusFor(verdict[p])
       /\ reminder[o.id].attempts = o.attempts
       /\ verdict[p] = "retry" =>
            o.attempts <= RetryLimit /\ reminder[o.id].next = at[p] + RetryDelay

\* The rows an object in hand has in the ledger are older than the one to come.
Older(p) ==
  \A e \in ledger : pc[p] \in Serving /\ e.id = cur[p].id =>
    /\ e.at + RetryDelay <= at[p]
    /\ IF pc[p] = "attempt" THEN e.index <= cur[p].attempts
       ELSE IF pc[p] = "send" THEN e.index < cur[p].attempts
       ELSE e.index < IndexOf(p)

\* The rows of a reminder that may be tried again.
Behind(e) ==
  LET r == reminder[e.id] IN
  r.status \in Open =>
    /\ e.index <= r.attempts
    /\ IF r.next # None THEN e.at + RetryDelay <= r.next
       ELSE \A p \in Procs : e.at + RetryDelay <= at[p]
    /\ crashes = 0 => e.status = "retry"

Retries(r) == {e \in ledger : e.id = r /\ e.status = "retry"}
Extra(r) == IF Flying(r) \/ reminder[r].status \in Finished THEN 1 ELSE 0
Tally(r) ==
  /\ reminder[r].attempts <= RetryLimit + crashes + Extra(r)
  /\ reminder[r].attempts <= Cardinality(Retries(r)) + crashes + Extra(r)
  /\ shown[r] <= reminder[r].attempts

\* The row in the ledger that tells how a reminder was finished.
Told(r) ==
  \E e \in ledger : /\ e.id = r /\ e.status = reminder[r].status
                    /\ \A f \in ledger : f.id = r /\ f # e => f.index < e.index

Final(r) ==
  crashes = 0 /\ reminder[r].status \in Finished \ {"invalidated"} =>
    \/ \E p \in Procs : pc[p] = "log" /\ cur[p].id = r
    \/ Told(r)

\* The inductive invariant of a process that is alone.
AInv ==
  /\ \A p \in Procs : Snapshot(p) /\ Held(p) /\ Older(p)
  /\ sweep # {} => AllIdle
  /\ \A o \in sweep : Fresh(o)
  /\ \A p \in Procs : \A r \in visible[p] : reminder[r].status = "delivered"
  /\ \A r \in gone : reminder[r].status = "invalidated"
  /\ IsFiniteSet(ledger)
  /\ \A e \in ledger : Behind(e)
  /\ RetrySpaced
  /\ \A r \in Reminders : Tally(r) /\ Final(r)

-----------------------------------------------------------------------------
(* Helpers                                                                 *)

\* What is known of the object in hand.
LEMMA HandType ==
  ASSUME IInv, NEW p \in Procs, pc[p] \in Serving
  PROVE  /\ cur[p] \in Object /\ cur[p].id \in Reminders /\ cur[p].status \in Open
         /\ cur[p].attempts \in Nat /\ cur[p].next \in Nat \cup {None}
BY DEF IInv, BatchOK, Object

\* What is known of an object of the snapshot or of a sweep.
LEMMA ObjectFields ==
  ASSUME NEW o \in Object
  PROVE  /\ o.id \in Reminders /\ o.status \in Open
         /\ o.attempts \in Nat /\ o.next \in Nat \cup {None}
BY DEF Object

LEMMA RowType ==
  ASSUME IInv, NEW r \in Reminders
  PROVE  /\ reminder[r].status \in Open \cup Finished
         /\ reminder[r].attempts \in Nat /\ reminder[r].next \in Nat \cup {None}
BY DEF IInv, TypeOK, Row

LEMMA EntryType ==
  ASSUME IInv, NEW e \in ledger
  PROVE  e.id \in Reminders /\ e.index \in Nat /\ e.at \in Nat
BY DEF IInv, TypeOK, Entry

LEMMA OpenOrFinished ==
  /\ Open \cap Finished = {} /\ "attempted" \in Open /\ "scheduled" \in Open
  /\ HeldBack \subseteq Finished
BY DEF Open, Finished, HeldBack

\* The row that Write commits.
LEMMA WriteRow ==
  ASSUME IInv, NEW r \in Reminders, NEW st, NEW n, NEW next, Write(r, st, n, next)
  PROVE  /\ reminder'[r] = [status |-> st, attempts |-> n, next |-> next]
         /\ \A q \in Reminders : q # r => reminder'[q] = reminder[q]
BY DEF Write, IInv, TypeOK

\* An object is fresh as long as its row is not written.
LEMMA FreshKept ==
  ASSUME NEW o, Fresh(o), reminder'[o.id] = reminder[o.id]
  PROVE  Fresh(o)'
BY DEF Fresh, ObjectOf

\* Two fresh objects of one reminder are one.
LEMMA FreshOnce ==
  ASSUME NEW o, NEW q, Fresh(o), Fresh(q), o.id = q.id
  PROVE  o = q
BY DEF Fresh

\* What is known of one process.
LEMMA AloneParts ==
  ASSUME AInv, NEW p \in Procs
  PROVE  Snapshot(p) /\ Held(p) /\ Older(p)
BY DEF AInv

LEMMA RetriesFinite ==
  ASSUME IsFiniteSet(ledger), NEW r
  PROVE  IsFiniteSet(Retries(r)) /\ Cardinality(Retries(r)) \in Nat
<1>1. Retries(r) \subseteq ledger
  BY DEF Retries
<1> QED
  BY <1>1, FS_Subset, FS_CardinalityType

\* What a step leaves alone that writes neither a row nor the ledger, drops
\* nothing in flight and turns no clock back.
LEMMA TableFrame ==
  ASSUME IInv, AInv, UNCHANGED <<reminder, ledger, shown, crashes, gone>>,
         \A p \in Procs : at'[p] \in Nat /\ at[p] <= at'[p],
         \A p \in Procs : pc[p] \in {"send", "settle", "log"} =>
                            pc'[p] = pc[p] /\ cur'[p] = cur[p]
  PROVE  /\ \A r \in gone' : reminder'[r].status = "invalidated"
         /\ IsFiniteSet(ledger)'
         /\ (\A e \in ledger : Behind(e))'
         /\ RetrySpaced'
         /\ (\A r \in Reminders : Tally(r) /\ Final(r))'
<1>1. /\ \A r \in gone : reminder[r].status = "invalidated"
      /\ IsFiniteSet(ledger) /\ RetrySpaced
      /\ \A e \in ledger : Behind(e)
      /\ \A r \in Reminders : Tally(r) /\ Final(r)
  BY DEF AInv
<1>2. ASSUME NEW e \in ledger PROVE Behind(e)'
  <2>1. \A p \in Procs : e.at + RetryDelay <= at[p] => e.at + RetryDelay <= at'[p]
    BY EntryType, DeliveryAssumption DEF IInv, TypeOK
  <2> QED
    BY <1>1, <2>1 DEF Behind
<1>3. ASSUME NEW r \in Reminders PROVE Tally(r)'
  <2>1. Flying(r) => Flying(r)'
    BY DEF Flying
  <2>2. Extra(r)' \in {0, 1} /\ Extra(r) \in {0, 1} /\ Extra(r) <= Extra(r)'
    BY <2>1 DEF Extra
  <2>3. Retries(r)' = Retries(r)
    BY DEF Retries
  <2>4. RetryLimit \in Nat /\ crashes \in Nat /\ reminder[r].attempts \in Nat
    BY RowType, DeliveryAssumption DEF RetryLimit, IInv, TypeOK
  <2>5. Cardinality(Retries(r)) \in Nat
    BY <1>1, RetriesFinite
  <2> HIDE DEF Retries, Extra
  <2> QED
    BY <1>1, <2>2, <2>3, <2>4, <2>5 DEF Tally
<1>4. ASSUME NEW r \in Reminders PROVE Final(r)'
  BY <1>1 DEF Final, Told
<1>5. RetrySpaced'
  BY <1>1 DEF RetrySpaced
<1> QED
  BY <1>1, <1>2, <1>3, <1>4, <1>5

-----------------------------------------------------------------------------
(* The batches                                                             *)

LEMMA BeginAlone ==
  ASSUME Single, IInv, AInv, NEW p \in Procs, BeginBatch(p) \/ BeginReconcile(p)
  PROVE  AInv'
<1>1. /\ pc[p] = "idle" /\ pc'[p] \in {"list", "rec_list"} /\ sweep = {}
      /\ at'[p] = now
      /\ UNCHANGED <<db, todo, cur, verdict, visible, intake, outside, shown, now, crashes>>
  BY DEF BeginBatch, BeginReconcile, Goto, IInv, TypeOK, Single
<1>2. now \in Nat /\ at[p] <= now /\ todo[p] = {}
  BY <1>1, AloneParts DEF IInv, TypeOK, Snapshot
<1>3. Snapshot(p)' /\ Held(p)' /\ Older(p)'
  BY <1>1, <1>2 DEF Snapshot, Held, Older, Serving
<1>4. /\ \A r \in gone' : reminder'[r].status = "invalidated"
      /\ IsFiniteSet(ledger)' /\ (\A e \in ledger : Behind(e))' /\ RetrySpaced'
      /\ (\A r \in Reminders : Tally(r) /\ Final(r))'
  BY <1>1, <1>2, TableFrame DEF Single, db, intake
<1> QED
  BY <1>1, <1>3, <1>4 DEF AInv, Single, db, intake

\* A SELECT of due rows finds no row that must still wait.
LEMMA ListAlone ==
  ASSUME Single, IInv, AInv, NEW p \in Procs, ListDue(p) \/ ListRetriable(p)
  PROVE  AInv'
<1>1. PICK R \in SUBSET Reminders :
        /\ todo' = [todo EXCEPT ![p] = {ObjectOf(r) : r \in R}]
        /\ \A r \in R : DueAt(r) <= at[p]
        /\ pc'[p] \in {"idle", "target", "rec_write"}
        /\ pc'[p] = "idle" => R = {}
        /\ pc'[p] = "rec_write" =>
             \A r \in R : reminder[r].status = "attempted" /\ reminder[r].next # None
  <2>1. CASE ListDue(p)
    <3>1. Due(at[p]) \in SUBSET Reminders /\ \A r \in Due(at[p]) : DueAt(r) <= at[p]
      BY DEF Due
    <3>2. /\ todo' = [todo EXCEPT ![p] = {ObjectOf(r) : r \in Due(at[p])}]
          /\ pc'[p] = IF Due(at[p]) = {} THEN "idle" ELSE "target"
      BY <2>1 DEF ListDue, Goto, IInv, TypeOK
    <3> HIDE DEF Due
    <3> QED
      BY <3>1, <3>2
  <2>2. CASE ListRetriable(p)
    <3>1. /\ Retriable(at[p]) \in SUBSET Reminders
          /\ \A r \in Retriable(at[p]) :
               /\ DueAt(r) <= at[p]
               /\ reminder[r].status = "attempted" /\ reminder[r].next # None
      BY DEF Retriable, FirstDue, Due
    <3>2. /\ todo' = [todo EXCEPT ![p] = {ObjectOf(r) : r \in Retriable(at[p])}]
          /\ pc'[p] = IF Retriable(at[p]) = {} THEN "idle" ELSE "rec_write"
      BY <2>2 DEF ListRetriable, Goto, IInv, TypeOK
    <3> QED
      BY <3>1, <3>2
  <2> QED
    BY <2>1, <2>2
<1>2. /\ pc[p] \in {"list", "rec_list"}
      /\ UNCHANGED <<db, at, cur, verdict, visible, intake, outside, shown, now, crashes>>
  BY DEF ListDue, ListRetriable, Goto
<1>3. Snapshot(p)'
  <2>1. at'[p] <= now'
    BY <1>2, AloneParts DEF Snapshot
  <2>2. todo'[p] = {ObjectOf(r) : r \in R}
    BY <1>1 DEF IInv, TypeOK
  <2>3. ASSUME NEW o \in todo'[p]
        PROVE  /\ Fresh(o)'
               /\ o.next # None => o.next <= at'[p]
               /\ pc'[p] = "rec_write" => o.status = "attempted" /\ o.next # None
    <3>1. PICK r \in R : o = ObjectOf(r)
      BY <2>2
    <3>2. /\ o.id = r /\ o.next = reminder[r].next /\ o.status = reminder[r].status
          /\ Fresh(o)
      BY <3>1 DEF ObjectOf, Fresh
    <3>3. Fresh(o)'
      BY <1>2, <3>2, FreshKept DEF db
    <3>4. o.next # None => o.next <= at'[p]
      BY <1>1, <1>2, <3>2 DEF DueAt
    <3> QED
      BY <1>1, <3>2, <3>3, <3>4
  <2>4. /\ pc'[p] \in {"idle", "list", "rec_list"} => todo'[p] = {}
        /\ pc'[p] \notin Serving
    BY <1>1, <2>2 DEF Serving
  <2> QED
    BY <2>1, <2>3, <2>4 DEF Snapshot
<1>4. Held(p)' /\ Older(p)'
  BY <1>1 DEF Held, Older, Serving
<1>5. /\ \A r \in gone' : reminder'[r].status = "invalidated"
      /\ IsFiniteSet(ledger)' /\ (\A e \in ledger : Behind(e))' /\ RetrySpaced'
      /\ (\A r \in Reminders : Tally(r) /\ Final(r))'
  BY <1>2, TableFrame DEF Single, db, intake, IInv, TypeOK
<1>6. sweep = {}
  BY <1>2 DEF AInv, AllIdle
<1> QED
  BY <1>2, <1>3, <1>4, <1>5, <1>6 DEF AInv, Single, db, intake

LEMMA ReadTargetAlone ==
  ASSUME Single, IInv, AInv, NEW p \in Procs, ReadTarget(p)
  PROVE  AInv'
<1>1. PICK o \in todo[p] :
        /\ todo'[p] = todo[p] \ {o} /\ cur'[p] = o
        /\ verdict'[p] = Gate(o.id, at[p])
        /\ pc'[p] = IF Gate(o.id, at[p]) = "none" THEN "attempt" ELSE "settle"
  BY DEF ReadTarget, Earliest, IInv, TypeOK
<1>2. /\ pc[p] = "target"
      /\ UNCHANGED <<db, at, visible, intake, outside, shown, now, crashes>>
  BY DEF ReadTarget
<1>3. o \in Object /\ at[p] \in Nat
  BY DEF IInv, TypeOK
<1>4. /\ Fresh(o)
      /\ o.next # None => o.next <= at[p]
      /\ \A q \in todo[p] : Fresh(q) /\ (q.next # None => q.next <= at[p])
      /\ at[p] <= now
  BY AloneParts DEF Snapshot
<1>5. Snapshot(p)'
  <2>1. ASSUME NEW q \in todo'[p]
        PROVE  Fresh(q)' /\ (q.next # None => q.next <= at'[p]) /\ q.id # o.id
    BY <1>1, <1>2, <1>4, FreshKept, FreshOnce DEF db
  <2> QED
    BY <1>1, <1>2, <1>4, <2>1 DEF Snapshot
<1>6. Fresh(o)'
  BY <1>2, <1>4, FreshKept DEF db
<1>7. Gate(o.id, at[p]) \in HeldBack \cup {"none"}
  BY <1>3, ObjectFields, GateType DEF HeldBack
<1>8. Held(p)'
  BY <1>1, <1>6, <1>7 DEF Held
<1>9. Older(p)'
  <2> SUFFICES ASSUME NEW e \in ledger, e.id = o.id
               PROVE  e.at + RetryDelay <= at[p] /\ e.index <= o.attempts
    <3>1. /\ pc'[p] = "settle" => IndexOf(p)' = o.attempts + 1
          /\ pc'[p] \in {"attempt", "settle"} /\ o.attempts \in Nat
      BY <1>1, <1>3, <1>7, ObjectFields DEF IndexOf, HeldBack
    <3>2. \A e \in ledger : e.index \in Nat
      BY EntryType
    <3> QED
      BY <1>1, <1>2, <3>1, <3>2 DEF Older, db
  <2>1. reminder[o.id].status \in Open /\ reminder[o.id].attempts = o.attempts
        /\ reminder[o.id].next = o.next
    BY <1>3, <1>4, ObjectFields DEF Fresh, ObjectOf
  <2>2. Behind(e)
    BY DEF AInv
  <2>3. e.index <= o.attempts
        /\ IF o.next # None THEN e.at + RetryDelay <= o.next ELSE e.at + RetryDelay <= at[p]
    BY <2>1, <2>2 DEF Behind
  <2> QED
    BY <1>3, <1>4, <2>3, EntryType, ObjectFields, DeliveryAssumption
<1>10. /\ \A r \in gone' : reminder'[r].status = "invalidated"
       /\ IsFiniteSet(ledger)' /\ (\A e \in ledger : Behind(e))' /\ RetrySpaced'
       /\ (\A r \in Reminders : Tally(r) /\ Final(r))'
  BY <1>2, TableFrame DEF Single, db, intake, IInv, TypeOK
<1>11. sweep = {}
  BY <1>2 DEF AInv, AllIdle
<1> QED
  BY <1>2, <1>5, <1>8, <1>9, <1>10, <1>11 DEF AInv, Single, db, intake

\* Where only the row of c is written and only c is in flight, the other reminders
\* keep what is said about them.
LEMMA OtherRows ==
  ASSUME IInv, AInv, NEW c \in Reminders, UNCHANGED <<ledger, crashes, at>>,
         \A r \in Reminders \ {c} : reminder'[r] = reminder[r] /\ shown'[r] = shown[r],
         \A p \in Procs :
           /\ pc[p] \in {"send", "settle", "log"} => cur[p].id = c
           /\ pc'[p] \in {"send", "settle", "log"} => cur'[p].id = c
  PROVE  /\ IsFiniteSet(ledger)' /\ RetrySpaced'
         /\ \A e \in ledger : e.id # c => Behind(e)'
         /\ \A r \in Reminders \ {c} : Tally(r)' /\ Final(r)'
<1>1. \A e \in ledger : e.id # c => Behind(e)'
  BY EntryType DEF AInv, Behind
<1>2. ASSUME NEW r \in Reminders \ {c} PROVE Tally(r)'
  <2>1. ~Flying(r) /\ ~Flying(r)'
    BY DEF Flying
  <2>2. Extra(r)' = Extra(r) /\ Retries(r)' = Retries(r)
    BY <2>1 DEF Extra, Retries
  <2>3. Tally(r)
    BY DEF AInv
  <2> QED
    BY <2>2, <2>3 DEF Tally
<1>3. ASSUME NEW r \in Reminders \ {c} PROVE Final(r)'
  <2>1. Final(r)
    BY DEF AInv
  <2> QED
    BY <2>1 DEF Final, Told
<1> QED
  BY <1>1, <1>2, <1>3 DEF AInv, RetrySpaced

\* What is not an object of the snapshot being written stays fresh.
LEMMA SnapshotKept ==
  ASSUME IInv, AInv, NEW p \in Procs, pc[p] \in Serving,
         \A r \in Reminders : r # cur[p].id => reminder'[r] = reminder[r],
         todo'[p] = todo[p], at'[p] = at[p], now' = now,
         \/ pc'[p] = "target" \/ (pc'[p] = "idle" /\ todo[p] = {})
         \/ pc'[p] \in Serving /\ cur'[p].id = cur[p].id
  PROVE  Snapshot(p)'
<1>1. Snapshot(p) /\ todo[p] \subseteq Object
  BY DEF AInv, IInv, TypeOK
<1>2. ASSUME NEW o \in todo[p] PROVE Fresh(o)' /\ o.id # cur[p].id
  <2>1. Fresh(o) /\ o.id # cur[p].id /\ o.id \in Reminders
    BY <1>1, ObjectFields DEF Snapshot
  <2> QED
    BY <2>1, FreshKept
<1> QED
  BY <1>1, <1>2 DEF Snapshot, Serving

\* The reminder in hand can still be tried, so it was not delivered before.
LEMMA AttemptFresh ==
  ASSUME IInv, AInv, NEW p \in Procs, Attempt(p)
  PROVE  /\ pc[p] = "attempt" /\ pc'[p] = "send"
         /\ Fresh(cur[p]) /\ cur[p].id \notin gone
         /\ cur'[p] = [cur[p] EXCEPT !.status = "attempted", !.attempts = cur[p].attempts + 1]
         /\ reminder'[cur[p].id] = [status |-> "attempted", attempts |-> cur[p].attempts + 1,
                                    next |-> cur[p].next]
         /\ \A r \in Reminders : r # cur[p].id => reminder'[r] = reminder[r]
         /\ UNCHANGED verdict
<1> DEFINE o == cur[p]
<1>1. pc[p] = "attempt"
  BY DEF Attempt
<1>2. o \in Object /\ o.id \in Reminders /\ o.status \in Open
  BY <1>1, HandType DEF Serving
<1>3. Fresh(o)
  BY <1>1, AloneParts DEF Held
<1>4. reminder[o.id].status \in Open
  BY <1>2, <1>3 DEF Fresh, ObjectOf
<1>5. o.id \notin visible[p] /\ o.id \notin gone
  BY <1>4 DEF AInv, Open
<1>6. /\ pc' = [pc EXCEPT ![p] = "send"]
      /\ cur' = [cur EXCEPT ![p].status = "attempted", ![p].attempts = @ + 1]
      /\ UNCHANGED verdict
      /\ Write(o.id, "attempted", o.attempts + 1, o.next)
  BY <1>5 DEF Attempt
<1>7. pc'[p] = "send"
      /\ cur'[p] = [o EXCEPT !.status = "attempted", !.attempts = o.attempts + 1]
  BY <1>6 DEF IInv, TypeOK
<1> QED
  BY <1>1, <1>2, <1>3, <1>5, <1>6, <1>7, WriteRow

LEMMA AttemptAlone ==
  ASSUME Single, IInv, AInv, NEW p \in Procs, Attempt(p)
  PROVE  AInv'
<1>0. PICK o \in Object, c \in Reminders :
        /\ o = cur[p] /\ c = o.id
        /\ o.status \in Open /\ o.attempts \in Nat /\ o.next \in Nat \cup {None}
  BY HandType DEF Attempt, Serving
<1>1. /\ pc[p] = "attempt" /\ pc'[p] = "send" /\ Fresh(o) /\ c \notin gone
      /\ cur'[p] = [o EXCEPT !.status = "attempted", !.attempts = o.attempts + 1]
      /\ reminder'[c] = [status |-> "attempted", attempts |-> o.attempts + 1, next |-> o.next]
      /\ \A r \in Reminders : r # c => reminder'[r] = reminder[r]
  BY <1>0, AttemptFresh
<1>2. UNCHANGED <<ledger, at, todo, visible, intake, outside, shown, now, crashes>>
  BY DEF Attempt
<1>4. cur'[p].id = c /\ cur'[p].attempts = o.attempts + 1 /\ cur'[p].next = o.next
  BY <1>1, <1>0 DEF Object
<1>5. /\ reminder[c].status \in Open /\ reminder[c].attempts = o.attempts
      /\ reminder[c].next = o.next
  BY <1>1, <1>0 DEF Fresh, ObjectOf
<1>6. Snapshot(p)'
  BY <1>0, <1>1, <1>2, <1>4, SnapshotKept DEF Serving
<1>7. Tally(c)
  BY <1>0 DEF AInv
<1>8. shown[c] \in Nat /\ shown[c] <= o.attempts
  BY <1>0, <1>5, <1>7 DEF Tally, IInv, TypeOK
<1>9. Held(p)'
  BY <1>1, <1>2, <1>0, <1>4, <1>8 DEF Held, Tried
<1>10. Older(p)'
  <2>1. \A e \in ledger : e.id = c => e.at + RetryDelay <= at[p] /\ e.index <= o.attempts
    BY <1>0, <1>1, AloneParts DEF Older, Serving
  <2> QED
    BY <1>1, <1>2, <1>0, <1>4, <2>1, EntryType DEF Older
<1>11. /\ IsFiniteSet(ledger)' /\ RetrySpaced'
       /\ \A e \in ledger : e.id # c => Behind(e)'
       /\ \A r \in Reminders \ {c} : Tally(r)' /\ Final(r)'
  BY <1>1, <1>2, <1>0, <1>4, OtherRows DEF Single
<1>12. ASSUME NEW e \in ledger, e.id = c PROVE Behind(e)'
  <2>1. Behind(e) /\ e.index \in Nat
    BY EntryType DEF AInv
  <2> QED
    BY <1>1, <1>2, <1>0, <1>5, <1>12, <2>1 DEF Behind
<1>13. Tally(c)'
  <2>1. ~Flying(c)
    BY <1>1 DEF Flying, Single
  <2>2. Extra(c) = 0
    BY <1>5, <2>1, OpenOrFinished DEF Extra
  <2>3. Extra(c)' = 1
    BY <1>1, <1>4 DEF Extra, Flying
  <2>4. Retries(c)' = Retries(c)
    BY <1>2 DEF Retries
  <2>5. RetryLimit \in Nat /\ crashes \in Nat /\ Cardinality(Retries(c)) \in Nat
    BY RetriesFinite, DeliveryAssumption DEF RetryLimit, IInv, TypeOK, AInv
  <2> HIDE DEF Extra, Retries
  <2> QED
    BY <1>1, <1>2, <1>0, <1>5, <1>7, <1>8, <2>2, <2>3, <2>4, <2>5 DEF Tally
<1>14. Final(c)'
  BY <1>1, OpenOrFinished DEF Final
<1>15. sweep = {}
  BY <1>1 DEF AInv, AllIdle
<1>16. \A q \in Procs : \A r \in visible[q] : reminder'[r].status = "delivered"
  BY <1>1, <1>5 DEF AInv, Open, IInv, TypeOK
<1>17. \A r \in gone : reminder'[r].status = "invalidated"
  BY <1>1 DEF AInv, IInv, TypeOK
<1> QED
  BY <1>2, <1>6, <1>9, <1>10, <1>11, <1>12, <1>13, <1>14, <1>15, <1>16, <1>17
  DEF AInv, Single, intake

\* The provider is called, and its answer decides: one message more at most, and
\* a failed attempt is given up only beyond the limit.
LEMMA SendAlone ==
  ASSUME Single, IInv, AInv, NEW p \in Procs, Send(p)
  PROVE  AInv'
<1>0. PICK o \in Object, c \in Reminders :
        /\ o = cur[p] /\ c = o.id
        /\ o.status \in Open /\ o.attempts \in Nat /\ o.next \in Nat \cup {None}
  BY HandType DEF Send, Goto, Serving
<1>1. PICK a \in Provider :
        /\ shown' = [shown EXCEPT ![c] = @ + (IF a.shown THEN 1 ELSE 0)]
        /\ verdict'[p] = VerdictOn(o, a.ok)
  BY <1>0 DEF Send, IInv, TypeOK
<1>2. /\ pc[p] = "send" /\ pc'[p] = "settle"
      /\ UNCHANGED <<db, at, todo, cur, visible, intake, outside, now, crashes>>
  BY DEF Send, Goto, IInv, TypeOK
<1>3. RetryLimit \in Nat
  BY DeliveryAssumption DEF RetryLimit
<1>4. /\ verdict'[p] \in {"delivered", "failed", "retry"}
      /\ verdict'[p] = "failed" => o.attempts > RetryLimit
      /\ verdict'[p] = "retry" => o.attempts <= RetryLimit
  BY <1>0, <1>1, <1>3 DEF VerdictOn
<1>5. Tried(o) /\ shown[c] < o.attempts
  BY <1>0, <1>2, AloneParts DEF Held
<1>6. /\ shown'[c] <= o.attempts
      /\ \A r \in Reminders \ {c} : shown'[r] = shown[r]
  BY <1>0, <1>1, <1>5 DEF IInv, TypeOK
<1>7. Snapshot(p)'
  BY <1>0, <1>2, SnapshotKept DEF Serving, db
<1>8. Held(p)'
  BY <1>0, <1>2, <1>4, <1>5 DEF Held, Tried, HeldBack, db
<1>9. Older(p)'
  <2>1. \A e \in ledger : e.id = c => e.at + RetryDelay <= at[p] /\ e.index < o.attempts
    BY <1>0, <1>2, AloneParts DEF Older, Serving
  <2>2. IndexOf(p)' = o.attempts
    BY <1>0, <1>2, <1>4 DEF IndexOf
  <2> QED
    BY <1>0, <1>2, <2>1, <2>2 DEF Older, db
<1>10. /\ IsFiniteSet(ledger)' /\ RetrySpaced'
       /\ \A e \in ledger : e.id # c => Behind(e)'
       /\ \A r \in Reminders \ {c} : Tally(r)' /\ Final(r)'
  BY <1>0, <1>2, <1>6, OtherRows DEF Single, db
<1>11. ASSUME NEW e \in ledger PROVE Behind(e)'
  BY <1>2 DEF AInv, Behind, db
<1>12. Tally(c)'
  <2>1. Extra(c)' = Extra(c) /\ Retries(c)' = Retries(c)
    BY <1>0, <1>2 DEF Extra, Flying, Single, Retries, db
  <2>2. Tally(c)
    BY DEF AInv
  <2>3. reminder[c].attempts = o.attempts
    BY <1>0, <1>5 DEF Tried
  <2> HIDE DEF Extra, Retries
  <2> QED
    BY <1>2, <1>6, <2>1, <2>2, <2>3 DEF Tally, db
<1>13. Final(c)'
  BY <1>0, <1>2, <1>5, OpenOrFinished DEF Final, Tried, db
<1>14. sweep = {}
  BY <1>2 DEF AInv, AllIdle
<1> QED
  BY <1>2, <1>7, <1>8, <1>9, <1>10, <1>11, <1>12, <1>13, <1>14
  DEF AInv, Single, intake, db

\* The outcome is written over the row the object was read from.
LEMMA SettleAlone ==
  ASSUME Single, IInv, AInv, NEW p \in Procs, Settle(p)
  PROVE  AInv'
<1>0. PICK o \in Object, c \in Reminders, v \in Verdicts \ {"none"} :
        /\ o = cur[p] /\ c = o.id /\ v = verdict[p]
        /\ o.status \in Open /\ o.attempts \in Nat /\ o.next \in Nat \cup {None}
  BY HandType DEF Settle, Goto, Serving, Decided, IInv, TypeOK, BatchOK
<1>1. PICK t \in {at[p] + RetryDelay, o.next} :
        /\ Write(c, StatusFor(v), o.attempts, t)
        /\ v = "retry" => t = at[p] + RetryDelay
  BY <1>0 DEF Settle, NextAttempt
<1>2. /\ pc[p] = "settle" /\ pc'[p] = "log"
      /\ visible' = [visible EXCEPT ![p] = IF v = "delivered" THEN @ \cup {c} ELSE @]
      /\ UNCHANGED <<ledger, at, todo, cur, verdict, intake, outside, shown, now, crashes>>
  BY <1>0 DEF Settle, Goto, IInv, TypeOK
<1>3. /\ reminder'[c] = [status |-> StatusFor(v), attempts |-> o.attempts, next |-> t]
      /\ \A r \in Reminders : r # c => reminder'[r] = reminder[r]
  BY <1>0, <1>1, WriteRow
<1>4. IF v \in HeldBack THEN Fresh(o)
      ELSE /\ Tried(o)
           /\ v = "failed" => o.attempts > RetryLimit
           /\ v = "retry" => o.attempts <= RetryLimit
  BY <1>0, <1>2, AloneParts DEF Held
<1>5. /\ reminder[c].status \in Open /\ reminder[c].attempts = o.attempts
      /\ reminder[c].next = o.next
  BY <1>0, <1>4, OpenOrFinished DEF Fresh, ObjectOf, Tried
<1>6. Snapshot(p)'
  BY <1>0, <1>2, <1>3, SnapshotKept DEF Serving
<1>7. Held(p)'
  <2>1. pc'[p] = "log" /\ cur'[p] = o /\ verdict'[p] = v /\ at'[p] = at[p]
    BY <1>0, <1>2
  <2>2. v = "retry" => o.attempts <= RetryLimit
    BY <1>4 DEF HeldBack
  <2> QED
    BY <1>0, <1>1, <1>3, <2>1, <2>2 DEF Held
<1>8. /\ \A e \in ledger : e.id = c => e.at + RetryDelay <= at[p] /\ e.index < IndexOf(p)
      /\ IndexOf(p)' = IndexOf(p)
  BY <1>0, <1>2, AloneParts DEF Older, Serving, IndexOf
<1>9. Older(p)'
  BY <1>0, <1>2, <1>8 DEF Older
<1>10. /\ IsFiniteSet(ledger)' /\ RetrySpaced'
       /\ \A e \in ledger : e.id # c => Behind(e)'
       /\ \A r \in Reminders \ {c} : Tally(r)' /\ Final(r)'
  BY <1>0, <1>2, <1>3, OtherRows DEF Single
<1>11. ASSUME NEW e \in ledger, e.id = c PROVE Behind(e)'
  <2> SUFFICES ASSUME StatusFor(v) \in Open PROVE Behind(e)'
    BY <1>3, <1>11 DEF Behind
  <2>1. v = "retry" /\ t = at[p] + RetryDelay /\ t # None
    BY <1>0, <1>1, DeliveryAssumption, TableAssumption
    DEF StatusFor, Open, Verdicts, IInv, TypeOK
  <2>2. Behind(e) /\ e.index <= o.attempts /\ (crashes = 0 => e.status = "retry")
    BY <1>5, <1>11 DEF AInv, Behind
  <2>3. e.at + RetryDelay <= t
    BY <1>8, <1>11, <2>1, EntryType, DeliveryAssumption DEF IInv, TypeOK
  <2> QED
    BY <1>2, <1>3, <1>11, <2>1, <2>2, <2>3 DEF Behind
<1>12. Tally(c)'
  <2>1. Extra(c) = 1 /\ Extra(c)' = 1 /\ Retries(c)' = Retries(c)
    BY <1>0, <1>2 DEF Extra, Flying, Retries
  <2>2. Tally(c)
    BY DEF AInv
  <2> HIDE DEF Extra, Retries
  <2> QED
    BY <1>2, <1>3, <1>5, <2>1, <2>2 DEF Tally
<1>13. Final(c)'
  BY <1>0, <1>2 DEF Final
<1>14. sweep = {}
  BY <1>2 DEF AInv, AllIdle
<1>15. \A q \in Procs : \A r \in visible'[q] : reminder'[r].status = "delivered"
  <2>1. ASSUME NEW q \in Procs, NEW r \in visible'[q]
        PROVE  reminder'[r].status = "delivered"
    <3>1. r \in Reminders /\ (r \in visible[q] \/ (r = c /\ v = "delivered"))
      BY <1>0, <1>2 DEF IInv, TypeOK
    <3>2. r \in visible[q] => r # c /\ reminder[r].status = "delivered"
      BY <1>5 DEF AInv, Open
    <3> QED
      BY <1>3, <3>1, <3>2 DEF StatusFor
  <2> QED
    BY <2>1
<1>16. \A r \in gone : reminder'[r].status = "invalidated"
  BY <1>3, <1>5 DEF AInv, IInv, TypeOK, Open
<1> QED
  BY <1>2, <1>6, <1>7, <1>9, <1>10, <1>11, <1>12, <1>13, <1>14, <1>15, <1>16
  DEF AInv, Single, intake

\* The new row of the ledger is the newest of its reminder, and tells what the
\* table tells.
LEMMA LogAlone ==
  ASSUME Single, IInv, AInv, NEW p \in Procs, Log(p)
  PROVE  AInv'
<1>0. PICK o \in Object, c \in Reminders, v \in Verdicts \ {"none"} :
        /\ o = cur[p] /\ c = o.id /\ v = verdict[p]
        /\ o.attempts \in Nat /\ pc[p] = "log"
  BY HandType DEF Log, Serving, Decided, IInv, TypeOK, BatchOK
<1>1. PICK n : n = IndexOf(p)
  OBVIOUS
<1>2. PICK new : new = [id |-> c, index |-> n, status |-> v, at |-> at[p]]
  OBVIOUS
<1>3. /\ ledger' = ledger \cup {new}
      /\ pc'[p] = IF todo[p] = {} THEN "idle" ELSE "target"
      /\ UNCHANGED <<reminder, at, todo, visible, intake, outside, shown, now, crashes>>
  BY <1>0, <1>1, <1>2 DEF Log, Advance, IInv, TypeOK
<1>4. /\ reminder[c].status = StatusFor(v) /\ reminder[c].attempts = o.attempts
      /\ v = "retry" =>
           o.attempts <= RetryLimit /\ reminder[c].next = at[p] + RetryDelay
  BY <1>0, AloneParts DEF Held
<1>5. \A e \in ledger : e.id = c => e.at + RetryDelay <= at[p] /\ e.index < n
  BY <1>0, <1>1, AloneParts DEF Older, Serving
<1>6. /\ n \in Nat /\ n >= o.attempts /\ (v = "retry" => n = o.attempts)
      /\ at[p] \in Nat /\ at[p] + RetryDelay \in Nat /\ RetryDelay \in Nat
      /\ at[p] + RetryDelay # None
  BY <1>0, <1>1, DeliveryAssumption, TableAssumption DEF IndexOf, IInv, TypeOK
<1>7. v = "retry" \/ (StatusFor(v) = v /\ v \in Finished)
  BY <1>0 DEF Verdicts, Finished, StatusFor
<1>8. new \notin ledger /\ new.id = c /\ new.index = n /\ new.status = v /\ new.at = at[p]
  BY <1>2, <1>5, <1>6
<1>9. Snapshot(p)'
  BY <1>0, <1>3, SnapshotKept DEF Serving
<1>10. Held(p)' /\ Older(p)'
  BY <1>3 DEF Held, Older, Serving
<1>11. IsFiniteSet(ledger)'
  BY <1>3, FS_AddElement DEF AInv
<1>12. ASSUME NEW e \in ledger' PROVE Behind(e)'
  <2>1. CASE e \in ledger
    BY <1>3, <2>1 DEF AInv, Behind
  <2>2. CASE e = new
    <3> SUFFICES ASSUME StatusFor(v) \in Open PROVE Behind(e)'
      BY <1>3, <1>4, <1>8, <2>2 DEF Behind
    <3>1. v = "retry"
      BY <1>7, OpenOrFinished
    <3> QED
      BY <1>3, <1>4, <1>6, <1>8, <2>2, <3>1 DEF Behind
  <2> QED
    BY <1>3, <2>1, <2>2
<1>13. RetrySpaced'
  <2>1. ASSUME NEW e \in ledger', NEW f \in ledger', e.id = f.id, e.index < f.index
        PROVE  f.at >= e.at + RetryDelay
    <3>1. CASE e \in ledger /\ f \in ledger
      BY <2>1, <3>1 DEF AInv, RetrySpaced
    <3>2. CASE f = new
      BY <1>3, <1>5, <1>6, <1>8, <2>1, <3>2, EntryType
    <3>3. CASE e = new /\ f \in ledger
      BY <1>5, <1>6, <1>8, <2>1, <3>3, EntryType
    <3> QED
      BY <1>3, <3>1, <3>2, <3>3
  <2> QED
    BY <2>1 DEF RetrySpaced
<1>14. ASSUME NEW r \in Reminders \ {c} PROVE Tally(r)' /\ Final(r)'
  <2>1. Tally(r) /\ Final(r)
    BY DEF AInv
  <2>2. ~Flying(r) /\ ~Flying(r)'
    BY <1>0, <1>3, <1>14 DEF Flying, Single
  <2>3. Extra(r)' = Extra(r)
    BY <1>3, <2>2 DEF Extra
  <2>4. Retries(r)' = Retries(r)
    BY <1>3, <1>8, <1>14 DEF Retries
  <2>5. Told(r) => Told(r)'
    BY <1>3, <1>8, <1>14 DEF Told
  <2>6. Tally(r)'
    BY <1>3, <2>1, <2>3, <2>4 DEF Tally
  <2>7. Final(r)'
    BY <1>0, <1>3, <1>14, <2>1, <2>5 DEF Final, Single
  <2> QED
    BY <2>6, <2>7
<1>15. Tally(c)'
  <2>1. Tally(c) /\ Extra(c) = 1
    BY <1>0 DEF AInv, Extra, Flying
  <2>2. /\ IsFiniteSet(Retries(c)) /\ Cardinality(Retries(c)) \in Nat
        /\ crashes \in Nat /\ RetryLimit \in Nat
    BY RetriesFinite, DeliveryAssumption DEF AInv, IInv, TypeOK, RetryLimit
  <2>3. ~Flying(c)'
    BY <1>3 DEF Flying, Single
  <2>4. CASE v = "retry"
    <3>1. Retries(c)' = Retries(c) \cup {new}
      BY <1>3, <1>8, <2>4 DEF Retries
    <3>2. new \notin Retries(c)
      BY <1>8 DEF Retries
    <3>3. Cardinality(Retries(c)') = Cardinality(Retries(c)) + 1
      BY <2>2, <3>1, <3>2, FS_AddElement
    <3>4. Extra(c)' = 0
      BY <1>3, <1>4, <2>3, <2>4, OpenOrFinished DEF Extra, StatusFor
    <3> HIDE DEF Retries, Extra
    <3> QED
      BY <1>0, <1>3, <1>4, <2>1, <2>2, <2>4, <3>3, <3>4 DEF Tally
  <2>5. CASE v # "retry"
    <3>1. Retries(c)' = Retries(c)
      BY <1>3, <1>8, <2>5 DEF Retries
    <3>2. Extra(c)' = 1
      BY <1>3, <1>4, <1>7, <2>5 DEF Extra
    <3> HIDE DEF Retries, Extra
    <3> QED
      BY <1>3, <2>1, <3>1, <3>2 DEF Tally
  <2> QED
    BY <2>4, <2>5
<1>16. Final(c)'
  <2> SUFFICES ASSUME reminder'[c].status \in Finished PROVE Told(c)'
    BY DEF Final
  <2>1. reminder'[c].status = v
    BY <1>3, <1>4, <1>7, OpenOrFinished DEF StatusFor
  <2>2. new \in ledger' /\ \A f \in ledger' : f.id = c /\ f # new => f.index < new.index
    BY <1>3, <1>5, <1>8
  <2> QED
    BY <1>8, <2>1, <2>2 DEF Told
<1>17. sweep = {}
  BY <1>0 DEF AInv, AllIdle
<1> QED
  BY <1>3, <1>9, <1>10, <1>11, <1>12, <1>13, <1>14, <1>15, <1>16, <1>17
  DEF AInv, Single, intake

\* The attempt id is never in the ledger already.
LEMMA NoDuplicate ==
  ASSUME IInv, AInv, NEW p \in Procs
  PROVE  ~LogDuplicate(p)
<1> SUFFICES ASSUME LogDuplicate(p) PROVE FALSE
  OBVIOUS
<1>1. PICK e \in ledger : e.id = cur[p].id /\ e.index = IndexOf(p) /\ pc[p] = "log"
  BY DEF LogDuplicate, Logged
<1>2. e.index < IndexOf(p)
  BY <1>1, AloneParts DEF Older, Serving
<1> QED
  BY <1>1, <1>2, EntryType

\* A reconciled retry keeps its distance: it was due when the batch began.
LEMMA ReconcileAlone ==
  ASSUME Single, IInv, AInv, NEW p \in Procs, Reconcile(p)
  PROVE  AInv'
<1>1. PICK o \in todo[p] :
        /\ Write(o.id, "scheduled", o.attempts, None)
        /\ todo'[p] = todo[p] \ {o}
        /\ pc'[p] = IF todo[p] = {o} THEN "idle" ELSE "rec_write"
  BY DEF Reconcile, Earliest, IInv, TypeOK
<1>2. PICK c \in Reminders :
        c = o.id /\ o \in Object /\ o.attempts \in Nat /\ o.next \in Nat \cup {None}
  BY ObjectFields DEF IInv, TypeOK
<1>3. /\ pc[p] = "rec_write"
      /\ UNCHANGED <<ledger, at, cur, verdict, visible, intake, outside, shown, now, crashes>>
  BY DEF Reconcile
<1>4. /\ reminder'[c] = [status |-> "scheduled", attempts |-> o.attempts, next |-> None]
      /\ \A r \in Reminders : r # c => reminder'[r] = reminder[r]
  BY <1>1, <1>2, WriteRow
<1>5. /\ Fresh(o) /\ o.status = "attempted" /\ o.next # None /\ o.next <= at[p]
      /\ at[p] <= now
      /\ \A q \in todo[p] : /\ Fresh(q) /\ (q.next # None => q.next <= at[p])
                            /\ q.status = "attempted" /\ q.next # None
  BY <1>3, AloneParts DEF Snapshot
<1>6. /\ reminder[c].status = "attempted" /\ reminder[c].attempts = o.attempts
      /\ reminder[c].next = o.next
  BY <1>2, <1>5 DEF Fresh, ObjectOf
<1>7. Snapshot(p)'
  <2>1. ASSUME NEW q \in todo'[p]
        PROVE  /\ Fresh(q)' /\ (q.next # None => q.next <= at'[p])
               /\ q.status = "attempted" /\ q.next # None
    <3>1. q \in todo[p] /\ q # o /\ q.id \in Reminders
      BY <1>1, <2>1, ObjectFields DEF IInv, TypeOK
    <3>2. q.id # c
      BY <1>2, <1>5, <3>1, FreshOnce
    <3> QED
      BY <1>3, <1>4, <1>5, <3>1, <3>2, FreshKept
  <2> QED
    BY <1>1, <1>3, <1>5, <2>1 DEF Snapshot, Serving
<1>8. Held(p)' /\ Older(p)'
  BY <1>1 DEF Held, Older, Serving
<1>9. /\ IsFiniteSet(ledger)' /\ RetrySpaced'
      /\ \A e \in ledger : e.id # c => Behind(e)'
      /\ \A r \in Reminders \ {c} : Tally(r)' /\ Final(r)'
  BY <1>1, <1>2, <1>3, <1>4, OtherRows DEF Single
<1>10. ASSUME NEW e \in ledger, e.id = c PROVE Behind(e)'
  <2>1. /\ e.index <= o.attempts /\ e.at + RetryDelay <= o.next
        /\ crashes = 0 => e.status = "retry"
    BY <1>5, <1>6, <1>10 DEF AInv, Behind, Open
  <2>2. e.at + RetryDelay <= at[p]
    BY <1>2, <1>5, <2>1, EntryType, DeliveryAssumption DEF IInv, TypeOK
  <2> QED
    BY <1>3, <1>4, <1>10, <2>1, <2>2 DEF Behind, Single
<1>11. Tally(c)'
  <2>1. Extra(c)' = Extra(c) /\ Retries(c)' = Retries(c)
    BY <1>1, <1>3, <1>4, <1>6, OpenOrFinished DEF Extra, Flying, Single, Retries
  <2>2. Tally(c)
    BY DEF AInv
  <2> HIDE DEF Extra, Retries
  <2> QED
    BY <1>3, <1>4, <1>6, <2>1, <2>2 DEF Tally
<1>12. Final(c)'
  BY <1>4, OpenOrFinished DEF Final
<1>13. sweep = {}
  BY <1>3 DEF AInv, AllIdle
<1>14. \A q \in Procs : \A r \in visible[q] : reminder'[r].status = "delivered"
  BY <1>4, <1>6 DEF AInv, IInv, TypeOK
<1>15. \A r \in gone : reminder'[r].status = "invalidated"
  BY <1>4, <1>6 DEF AInv, IInv, TypeOK
<1> QED
  BY <1>3, <1>7, <1>8, <1>9, <1>10, <1>11, <1>12, <1>13, <1>14, <1>15
  DEF AInv, Single, intake

-----------------------------------------------------------------------------
(* Ends of processes, and the environment                                  *)

LEMMA RestartAlone ==
  ASSUME Single, IInv, AInv, NEW p \in Procs, Restart(p)
  PROVE  AInv'
<1>1. /\ pc[p] = "idle" /\ pc'[p] = "idle" /\ todo'[p] = {} /\ visible'[p] = {}
      /\ UNCHANGED <<db, at, intake, outside, shown, now, crashes>>
  BY DEF Restart, End, IInv, TypeOK
<1>2. Snapshot(p)' /\ Held(p)' /\ Older(p)'
  BY <1>1, AloneParts DEF Snapshot, Held, Older, Serving
<1>3. /\ \A r \in gone' : reminder'[r].status = "invalidated"
      /\ IsFiniteSet(ledger)' /\ (\A e \in ledger : Behind(e))' /\ RetrySpaced'
      /\ (\A r \in Reminders : Tally(r) /\ Final(r))'
  BY <1>1, TableFrame DEF Single, db, intake, IInv, TypeOK
<1>4. AllIdle'
  BY <1>1 DEF AllIdle, Single
<1>5. \A o \in sweep : Fresh(o)'
  BY <1>1, FreshKept DEF AInv, db
<1> QED
  BY <1>1, <1>2, <1>3, <1>4, <1>5 DEF AInv, Single, db, intake

\* A crash loses the row of the attempt in flight, and counts for it.
LEMMA CrashAlone ==
  ASSUME Single, IInv, AInv, NEW p \in Procs, Crash(p)
  PROVE  AInv'
<1>1. /\ pc[p] # "idle" /\ pc'[p] = "idle" /\ todo'[p] = {} /\ visible'[p] = {}
      /\ crashes' = crashes + 1
      /\ UNCHANGED <<db, at, intake, outside, shown, now>>
  BY DEF Crash, End, IInv, TypeOK
<1>2. Snapshot(p)' /\ Held(p)' /\ Older(p)'
  BY <1>1, AloneParts DEF Snapshot, Held, Older, Serving
<1>3. crashes \in Nat /\ crashes' # 0
  BY <1>1 DEF IInv, TypeOK
<1>4. ASSUME NEW e \in ledger PROVE Behind(e)'
  BY <1>1, <1>3 DEF AInv, Behind, db
<1>5. ASSUME NEW r \in Reminders PROVE Tally(r)'
  <2>1. Extra(r) \in {0, 1} /\ Extra(r)' \in {0, 1} /\ Retries(r)' = Retries(r)
    BY <1>1 DEF Extra, Retries, db
  <2>2. Tally(r)
    BY DEF AInv
  <2>3. /\ RetryLimit \in Nat /\ reminder[r].attempts \in Nat
        /\ Cardinality(Retries(r)) \in Nat
    BY RowType, RetriesFinite, DeliveryAssumption DEF RetryLimit, AInv
  <2> HIDE DEF Extra, Retries
  <2> QED
    BY <1>1, <1>3, <2>1, <2>2, <2>3 DEF Tally, db
<1>6. ASSUME NEW r \in Reminders PROVE Final(r)'
  BY <1>3 DEF Final
<1>7. AllIdle'
  BY <1>1 DEF AllIdle, Single
<1>8. RetrySpaced' /\ IsFiniteSet(ledger)' /\ \A o \in sweep : Fresh(o)'
  BY <1>1, FreshKept DEF AInv, RetrySpaced, db
<1> QED
  BY <1>1, <1>2, <1>4, <1>5, <1>6, <1>7, <1>8 DEF AInv, Single, db, intake

\* process_intent comes between the batches: what it reads is fresh.
LEMMA SweepReadAlone ==
  ASSUME Single, IInv, AInv, NEW G \in Groups, NEW lag \in 0 .. MaxLag, SweepRead(G, lag)
  PROVE  AInv'
<1>1. /\ AllIdle
      /\ \A o \in sweep' : \E r \in Reminders : o = ObjectOf(r)
      /\ UNCHANGED <<db, batch, gone, outside, shown, now, crashes>>
  BY DeliveryAssumption DEF SweepRead, Single
<1>2. ASSUME NEW o \in sweep' PROVE Fresh(o)'
  <2>1. PICK r \in Reminders : o = ObjectOf(r)
    BY <1>1
  <2>2. Fresh(o)
    BY <2>1 DEF Fresh, ObjectOf
  <2> QED
    BY <1>1, <2>2, FreshKept DEF db
<1>3. \A p \in Procs : Snapshot(p)' /\ Held(p)' /\ Older(p)'
  BY <1>1, AloneParts DEF Snapshot, Held, Older, Serving, AllIdle, batch
<1>4. /\ \A r \in gone' : reminder'[r].status = "invalidated"
      /\ IsFiniteSet(ledger)' /\ (\A e \in ledger : Behind(e))' /\ RetrySpaced'
      /\ (\A r \in Reminders : Tally(r) /\ Final(r))'
  BY <1>1, TableFrame DEF db, batch, IInv, TypeOK
<1> QED
  BY <1>1, <1>2, <1>3, <1>4 DEF AInv, AllIdle, db, batch

LEMMA SweepWriteAlone ==
  ASSUME Single, IInv, AInv, SweepWrite
  PROVE  AInv'
<1>1. PICK o \in sweep :
        /\ Write(o.id, "invalidated", o.attempts, o.next)
        /\ sweep' = sweep \ {o} /\ gone' = gone \cup {o.id}
  BY DEF SweepWrite, Earliest
<1>2. PICK c \in Reminders :
        c = o.id /\ o.status \in Open /\ o.attempts \in Nat
  BY ObjectFields DEF IInv, TypeOK
<1>3. UNCHANGED <<ledger, batch, swept, outside, shown, now, crashes>> /\ AllIdle
  BY <1>1 DEF SweepWrite, AInv
<1>4. /\ reminder'[c] = [status |-> "invalidated", attempts |-> o.attempts, next |-> o.next]
      /\ \A r \in Reminders : r # c => reminder'[r] = reminder[r]
  BY <1>1, <1>2, WriteRow
<1>5. reminder[c].status \in Open /\ reminder[c].attempts = o.attempts
  BY <1>1, <1>2 DEF AInv, Fresh, ObjectOf
<1>6. \A p \in Procs : Snapshot(p)' /\ Held(p)' /\ Older(p)'
  BY <1>3, AloneParts DEF Snapshot, Held, Older, Serving, AllIdle, batch
<1>7. ASSUME NEW q \in sweep' PROVE Fresh(q)'
  <2>1. Fresh(q) /\ Fresh(o) /\ q # o /\ q.id \in Reminders
    BY <1>1, <1>7, ObjectFields DEF AInv, IInv, TypeOK
  <2>2. q.id # c
    BY <1>2, <2>1, FreshOnce
  <2> QED
    BY <1>4, <2>1, <2>2, FreshKept
<1>8. /\ IsFiniteSet(ledger)' /\ RetrySpaced'
      /\ \A e \in ledger : e.id # c => Behind(e)'
      /\ \A r \in Reminders \ {c} : Tally(r)' /\ Final(r)'
  BY <1>2, <1>3, <1>4, OtherRows DEF AllIdle, batch
<1>9. ASSUME NEW e \in ledger, e.id = c PROVE Behind(e)'
  BY <1>4, <1>9, OpenOrFinished DEF Behind, Finished
<1>10. Tally(c)'
  <2>1. Extra(c)' = 1 /\ Extra(c) \in {0, 1} /\ Retries(c)' = Retries(c)
    BY <1>3, <1>4 DEF Extra, Retries, Finished
  <2>2. Tally(c)
    BY DEF AInv
  <2>3. /\ RetryLimit \in Nat /\ crashes \in Nat
        /\ Cardinality(Retries(c)) \in Nat
    BY RetriesFinite, DeliveryAssumption DEF RetryLimit, AInv, IInv, TypeOK
  <2> HIDE DEF Extra, Retries
  <2> QED
    BY <1>2, <1>3, <1>4, <1>5, <2>1, <2>2, <2>3 DEF Tally
<1>11. Final(c)'
  BY <1>4 DEF Final
<1>12. \A q \in Procs : \A r \in visible[q] : reminder'[r].status = "delivered"
  BY <1>4, <1>5 DEF AInv, IInv, TypeOK, Open
<1>13. \A r \in gone' : reminder'[r].status = "invalidated"
  BY <1>1, <1>2, <1>4 DEF AInv, IInv, TypeOK
<1> QED
  BY <1>3, <1>6, <1>7, <1>8, <1>9, <1>10, <1>11, <1>12, <1>13 DEF AInv, AllIdle, batch

\* An operator, the clock, and a step of nobody.
LEMMA OutsideAlone ==
  ASSUME Single, IInv, AInv,
         \/ SwitchMode
         \/ \E person \in People, st \in {"no_tz", "ok"} : ChangeTarget(person, st)
         \/ Tick
         \/ UNCHANGED vars
  PROVE  AInv'
<1>1. /\ UNCHANGED <<db, batch, intake, shown, crashes>>
      /\ now' = now \/ now' = now + 1
  BY DEF SwitchMode, ChangeTarget, Tick, vars
<1>2. now \in Nat /\ now' \in Nat /\ now <= now'
  BY <1>1 DEF IInv, TypeOK
<1>3. ASSUME NEW p \in Procs PROVE Snapshot(p)'
  <2>1. at'[p] <= now'
    BY <1>1, <1>2, AloneParts DEF Snapshot, batch, IInv, TypeOK
  <2>2. \A o \in todo[p] : Fresh(o)'
    BY <1>1, FreshKept, AloneParts DEF Snapshot, db
  <2> QED
    BY <1>1, <2>1, <2>2, AloneParts DEF Snapshot, batch
<1>4. \A p \in Procs : Held(p)'
  BY <1>1, AloneParts DEF Held, Fresh, ObjectOf, Tried, db, batch
<1>5. \A p \in Procs : Older(p)'
  BY <1>1, AloneParts DEF Older, IndexOf, db, batch
<1>6. \A o \in sweep' : Fresh(o)'
  BY <1>1, FreshKept DEF AInv, db, intake
<1>7. /\ \A r \in gone' : reminder'[r].status = "invalidated"
      /\ IsFiniteSet(ledger)' /\ (\A e \in ledger : Behind(e))' /\ RetrySpaced'
      /\ (\A r \in Reminders : Tally(r) /\ Final(r))'
  BY <1>1, TableFrame DEF db, batch, intake, IInv, TypeOK
<1> QED
  BY <1>1, <1>3, <1>4, <1>5, <1>6, <1>7 DEF AInv, AllIdle, db, batch, intake

-----------------------------------------------------------------------------
(* The invariant                                                           *)

LEMMA InitAInv == Init => AInv
<1> SUFFICES ASSUME Init PROVE AInv
  OBVIOUS
<1>1. \A p \in Procs : Snapshot(p) /\ Held(p) /\ Older(p)
  BY DEF Init, Snapshot, Held, Older, Serving
<1>2. IsFiniteSet(ledger) /\ RetrySpaced /\ \A e \in ledger : Behind(e)
  BY FS_EmptySet DEF Init, RetrySpaced
<1>3. ASSUME NEW r \in Reminders PROVE Tally(r) /\ Final(r)
  <2>1. /\ reminder[r].attempts = 0 /\ reminder[r].status = "scheduled"
        /\ shown[r] = 0 /\ crashes = 0 /\ ~Flying(r)
    BY DEF Init, Flying
  <2>2. Extra(r) = 0 /\ Final(r)
    BY <2>1 DEF Extra, Final, Finished
  <2>3. RetryLimit \in Nat /\ Cardinality(Retries(r)) \in Nat
    BY <1>2, RetriesFinite, DeliveryAssumption DEF RetryLimit
  <2> HIDE DEF Extra, Retries
  <2> QED
    BY <2>1, <2>2, <2>3 DEF Tally
<1> QED
  BY <1>1, <1>2, <1>3 DEF Init, AInv

LEMMA StepAInv ==
  ASSUME Single, IInv, AInv, [Next]_vars
  PROVE  AInv'
<1>1. ASSUME NEW p \in Procs, BeginBatch(p) \/ BeginReconcile(p) PROVE AInv'
  BY <1>1, BeginAlone
<1>2. ASSUME NEW p \in Procs, Work(p) PROVE AInv'
  <2>1. CASE ListDue(p) \/ ListRetriable(p)
    BY <2>1, ListAlone
  <2>2. CASE ReadTarget(p)
    BY <2>2, ReadTargetAlone
  <2>3. CASE Attempt(p)
    BY <2>3, AttemptAlone
  <2>4. CASE Send(p)
    BY <2>4, SendAlone
  <2>5. CASE Settle(p)
    BY <2>5, SettleAlone
  <2>6. CASE Log(p)
    BY <2>6, LogAlone
  <2>7. CASE Reconcile(p)
    BY <2>7, ReconcileAlone
  <2> QED
    BY <1>2, <2>1, <2>2, <2>3, <2>4, <2>5, <2>6, <2>7, NoDuplicate DEF Work
<1>3. ASSUME NEW p \in Procs, Restart(p) PROVE AInv'
  BY <1>3, RestartAlone
<1>4. ASSUME NEW p \in Procs, Crash(p) PROVE AInv'
  BY <1>4, CrashAlone
<1>5. ASSUME NEW G \in Groups, NEW lag \in 0 .. MaxLag, SweepRead(G, lag) PROVE AInv'
  BY <1>5, SweepReadAlone
<1>6. CASE SweepWrite
  BY <1>6, SweepWriteAlone
<1>7. CASE \/ SwitchMode
           \/ \E person \in People, st \in {"no_tz", "ok"} : ChangeTarget(person, st)
           \/ Tick
           \/ UNCHANGED vars
  BY <1>7, OutsideAlone
<1> QED
  BY <1>1, <1>2, <1>3, <1>4, <1>5, <1>6, <1>7 DEF Next

\* A process that is alone holds nothing stale, and its ledger tells what the
\* table tells.
THEOREM AloneInvariant ==
  ASSUME Single
  PROVE  Spec => [](IInv /\ AInv)
<1>1. Init => IInv /\ AInv
  BY InitIInv, InitAInv
<1>2. (IInv /\ AInv) /\ [Next]_vars => (IInv /\ AInv)'
  BY StepIInv, StepAInv
<1> QED
  BY <1>1, <1>2, PTL DEF Spec

-----------------------------------------------------------------------------
(* The properties                                                          *)

\* A reminder is tried at most once more than the limit, and once more for every
\* crash, and shows at most one message per attempt.
THEOREM AttemptsAreBounded ==
  ASSUME Single
  PROVE  Spec => []AttemptsBounded
<1>1. IInv /\ AInv => AttemptsBounded
  <2> SUFFICES ASSUME IInv, AInv, NEW r \in Reminders
               PROVE  /\ reminder[r].attempts <= RetryLimit + 1 + crashes
                      /\ shown[r] <= reminder[r].attempts
    BY DEF AttemptsBounded
  <2>1. Tally(r) /\ Extra(r) \in {0, 1}
    BY DEF AInv, Extra
  <2>2. RetryLimit \in Nat /\ crashes \in Nat /\ reminder[r].attempts \in Nat
    BY RowType, DeliveryAssumption DEF RetryLimit, IInv, TypeOK
  <2> HIDE DEF Extra
  <2> QED
    BY <2>1, <2>2 DEF Tally
<1> QED
  BY <1>1, AloneInvariant, PTL

\* Two attempts at one reminder are at least the retry delay apart, also when a
\* reconciliation came between them.
THEOREM RetriesAreSpaced ==
  ASSUME Single
  PROVE  Spec => []RetrySpaced
<1>1. IInv /\ AInv => RetrySpaced
  BY DEF AInv
<1> QED
  BY <1>1, AloneInvariant, PTL

\* A recipient gets a reminder again only for an attempt that was reported as
\* failed, or for a crash.
THEOREM RepeatsAreExplained ==
  ASSUME Single
  PROVE  Spec => []RepeatExplained
<1>1. IInv /\ AInv => RepeatExplained
  <2> SUFFICES ASSUME IInv, AInv, NEW r \in Reminders
               PROVE  shown[r] <= 1 + crashes + Cardinality(Retries(r))
    BY DEF RepeatExplained, Retries
  <2>1. Tally(r) /\ Extra(r) \in {0, 1}
    BY DEF AInv, Extra
  <2>2. /\ crashes \in Nat /\ reminder[r].attempts \in Nat /\ shown[r] \in Nat
        /\ Cardinality(Retries(r)) \in Nat
    BY RowType, RetriesFinite DEF AInv, IInv, TypeOK
  <2> HIDE DEF Extra, Retries
  <2> QED
    BY <2>1, <2>2 DEF Tally
<1> QED
  BY <1>1, AloneInvariant, PTL

\* Between batches that did not crash, the table and the newest row of the ledger
\* tell the same of every reminder.
THEOREM LedgerTellsTheTable ==
  ASSUME Single
  PROVE  Spec => []LedgerAgrees
<1>1. IInv /\ AInv => LedgerAgrees
  <2> SUFFICES ASSUME IInv, AInv, AllIdle, crashes = 0 PROVE LedgerAgrees
    BY DEF LedgerAgrees
  <2> DEFINE rows(r) == {e \in ledger : e.id = r}
             newest(r) == CHOOSE e \in rows(r) : \A f \in rows(r) : f.index <= e.index
  <2>1. ASSUME NEW r \in Reminders, reminder[r].status \in Open
        PROVE  \A e \in rows(r) : e.status = "retry" /\ e.index <= reminder[r].attempts
    BY <2>1 DEF AInv, Behind
  <2>2. ASSUME NEW r \in Reminders, reminder[r].status \in Finished \ {"invalidated"}
        PROVE  rows(r) # {} /\ newest(r).status = reminder[r].status
    <3>1. Told(r)
      BY <2>2 DEF AInv, Final, AllIdle
    <3>2. PICK e \in rows(r) : /\ e.status = reminder[r].status
                              /\ \A f \in rows(r) : f # e => f.index < e.index
      BY <3>1 DEF Told
    <3>3. \A f \in rows(r) : f.index \in Nat
      BY EntryType
    <3>4. \A f \in rows(r) : f.index <= e.index
      BY <3>2, <3>3
    <3>5. newest(r) \in rows(r) /\ \A f \in rows(r) : f.index <= newest(r).index
      BY <3>4
    <3>6. newest(r) = e
      BY <3>2, <3>3, <3>5
    <3> HIDE DEF rows, newest
    <3> QED
      BY <3>2, <3>6
  <2>3. \A r \in Reminders : reminder[r].status \in Open \cup Finished
    BY RowType
  <2> QED
    BY <2>1, <2>2, <2>3, OpenOrFinished DEF LedgerAgrees
<1> QED
  BY <1>1, AloneInvariant, PTL

\* Once the invalidation of a reminder is committed, its recipient does not get it
\* any more.
THEOREM NothingSentAfterInvalidation ==
  ASSUME Single
  PROVE  Spec => NoSendAfterInvalidation
<1>1. ASSUME Single, IInv, AInv, [Next]_vars
      PROVE  [\A r \in gone : shown'[r] = shown[r]]_vars
  <2>1. CASE UNCHANGED shown
    BY <2>1
  <2>2. ASSUME NEW p \in Procs, Send(p)
        PROVE  \A r \in gone : shown'[r] = shown[r]
    <3>1. Tried(cur[p])
      BY <1>1, <2>2, AloneParts DEF Send, Goto, Held
    <3>2. cur[p].id \notin gone
      BY <1>1, <3>1 DEF AInv, Tried
    <3> QED
      BY <2>2, <3>2 DEF Send, IInv, TypeOK
  <2>3. UNCHANGED shown \/ \E p \in Procs : Send(p)
    BY <1>1 DEF Next, Work, BeginBatch, BeginReconcile, ListDue, ReadTarget, Attempt,
         Settle, Log, LogDuplicate, ListRetriable, Reconcile, Restart, Crash,
         SweepRead, SweepWrite, SwitchMode, ChangeTarget, Tick, vars
  <2> QED
    BY <2>1, <2>2, <2>3
<1> QED
  BY <1>1, AloneInvariant, PTL DEF Spec, NoSendAfterInvalidation

-----------------------------------------------------------------------------
(* The refinement                                                          *)

\* A step that writes one row at most, as the life of the reminders sees it.
LEMMA LifeWrite ==
  ASSUME IInv, NEW c \in Reminders, NEW st \in Open \cup Finished, NEW n \in Nat, NEW next,
         Write(c, st, n, next), UNCHANGED shown
  PROVE  /\ [r \in Reminders |-> reminder[r].status]' =
              [[r \in Reminders |-> reminder[r].status] EXCEPT ![c] = st]
         /\ [r \in Reminders |-> reminder[r].attempts]' =
              [[r \in Reminders |-> reminder[r].attempts] EXCEPT ![c] = n]
         /\ n = reminder[c].attempts => Life!Become(c, st)
<1>1. /\ reminder'[c].status = st /\ reminder'[c].attempts = n
      /\ \A q \in Reminders : q # c => reminder'[q] = reminder[q]
  <2>1. /\ reminder'[c] = [status |-> st, attempts |-> n, next |-> next]
        /\ \A q \in Reminders : q # c => reminder'[q] = reminder[q]
    BY DEF Write, IInv, TypeOK
  <2> QED
    BY <2>1
<1> QED
  BY <1>1 DEF Life!Become

\* Every step of a process that is alone is a step in the life of one reminder, or
\* none.
LEMMA LifeStep ==
  ASSUME Single, IInv, AInv, [Next]_vars
  PROVE  [Life!LifeNext]_(Life!lifeVars)
<1>1. ASSUME NEW p \in Procs, Attempt(p) PROVE Life!LifeNext
  <2>0. PICK o \in Object, c \in Reminders :
          o = cur[p] /\ c = o.id /\ o.attempts \in Nat /\ o.status \in Open
    BY <1>1, HandType DEF Attempt, Serving
  <2>1. Fresh(o)
    BY <1>1, <2>0, AttemptFresh
  <2>2. reminder[c].status \in Open /\ reminder[c].attempts = o.attempts
    BY <2>0, <2>1 DEF Fresh, ObjectOf
  <2>3. /\ [r \in Reminders |-> reminder[r].status]' =
             [[r \in Reminders |-> reminder[r].status] EXCEPT ![c] = "attempted"]
        /\ [r \in Reminders |-> reminder[r].attempts]' =
             [[r \in Reminders |-> reminder[r].attempts] EXCEPT ![c] = o.attempts + 1]
        /\ UNCHANGED shown
    <3>1. Write(c, "attempted", o.attempts + 1, o.next) /\ UNCHANGED shown
      BY <1>1, <2>0 DEF Attempt
    <3>2. reminder' = [reminder EXCEPT ![c] = [status |-> "attempted",
                         attempts |-> o.attempts + 1, next |-> o.next]]
      BY <3>1 DEF Write
    <3> QED
      BY <3>1, <3>2 DEF IInv, TypeOK
  <2>4. Life!Try(c)
    BY <2>2, <2>3 DEF Life!Try, Life!Open, Open
  <2> QED
    BY <2>4 DEF Life!LifeNext
<1>2. ASSUME NEW p \in Procs, Send(p) PROVE Life!LifeNext \/ UNCHANGED Life!lifeVars
  <2>0. PICK o \in Object, c \in Reminders : o = cur[p] /\ c = o.id
    BY <1>2, HandType DEF Send, Goto, Serving
  <2>1. Tried(o) /\ shown[c] < o.attempts /\ UNCHANGED reminder
    BY <1>2, <2>0, AloneParts DEF Send, Goto, Held, db
  <2>2. /\ reminder[c].status = "attempted" /\ shown[c] < reminder[c].attempts
    BY <2>0, <2>1 DEF Tried
  <2>3. shown' = [shown EXCEPT ![c] = @ + 1] \/ shown' = [shown EXCEPT ![c] = @ + 0]
    BY <1>2, <2>0 DEF Send
  <2>4. shown' = [shown EXCEPT ![c] = @ + 1] \/ UNCHANGED shown
    BY <2>3 DEF IInv, TypeOK
  <2>5. CASE UNCHANGED shown
    BY <2>1, <2>5 DEF Life!lifeVars
  <2>6. CASE shown' = [shown EXCEPT ![c] = @ + 1]
    BY <2>1, <2>2, <2>6 DEF Life!Show, Life!LifeNext
  <2> QED
    BY <2>4, <2>5, <2>6
<1>3. ASSUME NEW p \in Procs, Settle(p) PROVE Life!LifeNext \/ UNCHANGED Life!lifeVars
  <2>0. PICK o \in Object, c \in Reminders, v \in Verdicts \ {"none"} :
          /\ o = cur[p] /\ c = o.id /\ v = verdict[p] /\ o.attempts \in Nat
          /\ v = "delivered" => shown[c] > 0
    BY <1>3, HandType DEF Settle, Goto, Serving, Decided, IInv, TypeOK, BatchOK
  <2>1. IF v \in HeldBack THEN Fresh(o)
        ELSE Tried(o) /\ (v = "failed" => o.attempts > RetryLimit)
    BY <1>3, <2>0, AloneParts DEF Settle, Goto, Held
  <2>2. reminder[c].attempts = o.attempts /\ reminder[c].status \in Open
        /\ (v \notin HeldBack => reminder[c].status = "attempted")
    BY <2>0, <2>1, ObjectFields, OpenOrFinished DEF Fresh, ObjectOf, Tried
  <2>3. StatusFor(v) \in Open \cup Finished
    BY <2>0 DEF StatusFor, Verdicts, Open, Finished
  <2>4. Life!Become(c, StatusFor(v))
    <3>1. PICK next : Write(c, StatusFor(v), o.attempts, next) /\ UNCHANGED shown
      BY <1>3, <2>0 DEF Settle
    <3> QED
      BY <2>0, <2>2, <2>3, <3>1, LifeWrite
  <2>5. CASE v = "retry"
    <3>1. Life!Become(c, "attempted") /\ reminder[c].status = "attempted"
      BY <2>2, <2>4, <2>5 DEF StatusFor, HeldBack
    <3> QED
      BY <3>1 DEF Life!Become, Life!lifeVars
  <2>6. CASE v = "delivered"
    <3>1. Life!Succeed(c)
      BY <2>0, <2>2, <2>4, <2>6 DEF Life!Succeed, StatusFor, HeldBack
    <3> QED
      BY <3>1 DEF Life!LifeNext
  <2>7. CASE v = "failed"
    <3>1. Life!GiveUp(c)
      BY <2>0, <2>1, <2>2, <2>4, <2>7 DEF Life!GiveUp, StatusFor, HeldBack
    <3> QED
      BY <3>1 DEF Life!LifeNext
  <2>8. CASE v \in HeldBack
    <3>1. Life!Withhold(c)
      BY <2>2, <2>4, <2>8 DEF Life!Withhold, Life!Open, Open, StatusFor, HeldBack
    <3> QED
      BY <3>1 DEF Life!LifeNext
  <2> QED
    BY <2>0, <2>5, <2>6, <2>7, <2>8 DEF Verdicts, HeldBack
<1>4. ASSUME NEW p \in Procs, Reconcile(p) PROVE Life!LifeNext
  <2>1. PICK o \in todo[p] : Write(o.id, "scheduled", o.attempts, None) /\ UNCHANGED shown
    BY <1>4 DEF Reconcile, Earliest
  <2>2. PICK c \in Reminders : c = o.id /\ o \in Object /\ o.attempts \in Nat
    BY ObjectFields DEF IInv, TypeOK
  <2>3. reminder[c].status = "attempted" /\ reminder[c].attempts = o.attempts
    BY <1>4, <2>1, <2>2, AloneParts DEF Reconcile, Snapshot, Fresh, ObjectOf
  <2>4. Life!Become(c, "scheduled")
    BY <2>1, <2>2, <2>3, LifeWrite, OpenOrFinished
  <2> QED
    BY <2>3, <2>4 DEF Life!Reschedule, Life!LifeNext
<1>5. CASE SweepWrite
  <2>1. PICK o \in sweep : /\ Write(o.id, "invalidated", o.attempts, o.next)
                           /\ UNCHANGED shown
    BY <1>5 DEF SweepWrite, Earliest
  <2>2. PICK c \in Reminders :
          c = o.id /\ o \in Object /\ o.attempts \in Nat /\ o.status \in Open
    BY ObjectFields DEF IInv, TypeOK
  <2>3. reminder[c].status \in Open /\ reminder[c].attempts = o.attempts
    BY <2>1, <2>2 DEF AInv, Fresh, ObjectOf
  <2>4. Life!Become(c, "invalidated")
    BY <2>1, <2>2, <2>3, LifeWrite DEF Finished
  <2>5. Life!Withhold(c)
    BY <2>3, <2>4 DEF Life!Withhold, Life!Open, Open
  <2> QED
    BY <2>5 DEF Life!LifeNext
<1>6. \/ \E p \in Procs : Attempt(p) \/ Send(p) \/ Settle(p) \/ Reconcile(p)
      \/ SweepWrite
      \/ UNCHANGED <<reminder, shown>>
  BY DEF Next, Work, BeginBatch, BeginReconcile, ListDue, ReadTarget, Log, LogDuplicate,
       ListRetriable, Restart, Crash, SweepRead, SwitchMode, ChangeTarget, Tick, vars, db
<1>7. CASE UNCHANGED <<reminder, shown>>
  BY <1>7 DEF Life!lifeVars
<1> QED
  BY <1>1, <1>2, <1>3, <1>4, <1>5, <1>6, <1>7

\* The batches of a process that is alone, its snapshots, retries, reconciliations
\* and crashes included, implement the life the requirements give a reminder.
THEOREM BatchesImplementLifecycle ==
  ASSUME Single
  PROVE  Spec => ImplementsLifecycle
<1>1. Init => Life!LifeInit
  BY DEF Init, Life!LifeInit
<1>2. (IInv /\ AInv) /\ [Next]_vars => [Life!LifeNext]_(Life!lifeVars)
  BY LifeStep
<1> QED
  BY <1>1, <1>2, AloneInvariant, PTL DEF Spec, ImplementsLifecycle, Life!LifeSpec
=============================================================================
