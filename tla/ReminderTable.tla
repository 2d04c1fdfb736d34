--------------------------- MODULE ReminderTable ---------------------------
(***************************************************************************)
(* The reminders table of SqliteStateStore, as the engine's batches and    *)
(* the daemon's dispatcher read and write it: rows are selected as due, in *)
(* one order, and written back whole from an object read earlier.          *)
(***************************************************************************)
EXTENDS Integers, FiniteSets

CONSTANTS
  Reminders,      \* reminder ids, in the order they sort in
  Trigger,        \* Reminders -> Nat: trigger_at_utc
  None            \* no value (SQL NULL)

ASSUME TableAssumption ==
  /\ Reminders \subseteq Nat
  /\ Trigger \in [Reminders -> Nat]
  /\ None \notin Nat

VARIABLE
  reminder        \* per id its status, attempts and next_attempt_at

Open == {"scheduled", "attempted"}
Finished == {"delivered", "failed", "suppressed", "blocked", "invalidated"}
Row == [status : Open \cup Finished, attempts : Nat, next : Nat \cup {None}]

\* COALESCE(next_attempt_at_utc, trigger_at_utc)
DueAt(r) == IF reminder[r].next = None THEN Trigger[r] ELSE reminder[r].next

\* Slips: invalidated rows are listed too; attempted ones are not.
DueAll(t) ==
  {r \in Reminders : reminder[r].status \in Open \cup {"invalidated"} /\ DueAt(r) <= t}
DueScheduled(t) ==
  {r \in Reminders : reminder[r].status = "scheduled" /\ DueAt(r) <= t}

Due(t) == {r \in Reminders : reminder[r].status \in Open /\ DueAt(r) <= t}

\* ORDER BY trigger_at_utc, reminder_id
Before(a, b) == Trigger[a] < Trigger[b] \/ (Trigger[a] = Trigger[b] /\ a < b)
Earliest(S) == {o \in S : \A q \in S \ {o} : Before(o.id, q.id)}

\* list_due_reminders with a LIMIT.
FirstDue(t, n) ==
  {r \in Due(t) : Cardinality({q \in Due(t) : Before(q, r)}) < n}

\* update_reminder
Write(r, st, n, next) ==
  reminder' = [reminder EXCEPT ![r] =
                 [status |-> st, attempts |-> n, next |-> next]]
=============================================================================
