------------------------------- MODULE Intake -------------------------------
(***************************************************************************)
(* FamilySchedulerV0.process_intent over SqliteStateStore: several         *)
(* processes turn confirmed messages into event versions and reminders.    *)
(*                                                                         *)
(* No transaction spans process_intent.  Every SELECT and every commit of *)
(* the store is a step of its own here, so that other processes, a crash   *)
(* or a raised exception can come between any two of them.                 *)
(***************************************************************************)
EXTENDS Integers, Sequences, FiniteSets

CONSTANTS
  Workers,        \* processes that run process_intent on one database file
  Messages,       \* (channel, conversation_id, message_id) triples
  Recipients,     \* person ids, numbered in the order they sort in
  Slots,          \* (title, start_at_local) pairs: what similarity matches on
  Trigger,        \* Slots -> Int: start minus the reminder offset, in UTC
  Intents,        \* the intents a message may carry
  StartTargets,   \* states a recipient's delivery_targets row may start in
  MaxEvents,      \* bound on the event numbers the store hands out
  Window,         \* idempotency_window_hours
  MaxTime,        \* bound on the clock
  MaxLag,         \* bound on now minus the received_at_utc of a payload
  MaxDeliveries,  \* bound on how often one message is handed to a worker
  MaxCrashes,     \* bound on process crashes
  None            \* no value (SQL NULL, Python None)

Times == 0 .. MaxTime
EventIds == 1 .. MaxEvents
NoEvent == 0

Actions == {"create", "update", "cancel"}
TargetStates == {"absent", "no_tz", "ok"}

\* complete: no required field is missing.  dest_ok: the override fields pass
\* validation.  audience = {}: the key is not given (participants may be).
IntentType ==
  [action : Actions, slot : Slots, audience : SUBSET Recipients,
   event : EventIds \cup {NoEvent}, confirmed : BOOLEAN, complete : BOOLEAN,
   dest_ok : BOOLEAN]

ASSUME ConstantsAssumption ==
  /\ Trigger \in [Slots -> Int]
  /\ Recipients \subseteq Nat
  /\ Intents \subseteq IntentType
  /\ StartTargets \subseteq TargetStates
  /\ MaxEvents \in Nat /\ Window \in Nat /\ MaxTime \in Nat
  /\ MaxLag \in Nat /\ MaxDeliveries \in Nat /\ MaxCrashes \in Nat

VARIABLES
  \* the database
  row,         \* events: per event id its current_version and status
  log,         \* event_versions: per event id its versions 1, 2, ...
  reminders,   \* reminders: a set of rows
  receipts,    \* message_receipts: per message the row or None
  targets,     \* delivery_targets: per person absent, without or with timezone
  lock,        \* the process left holding the write lock, or None
  \* the processes
  pc,          \* where in process_intent each worker is
  task,        \* the locals of that call
  \* their environment
  now,         \* the system clock
  sent,        \* the intent each message carries
  deliveries,  \* how often each message was handed over
  handed,      \* history: the system clock when it was last handed over
  crashes      \* how many processes have crashed

db == <<row, log, reminders, receipts, targets>>
env == <<now, sent, deliveries, handed, crashes>>
vars == <<db, lock, pc, task, env>>

-----------------------------------------------------------------------------
(* Types                                                                   *)

Statuses == {"none", "active", "cancelled"}
Content == [slot : Slots, audience : SUBSET Recipients, source : Messages,
            at : Times]
Row == [version : Nat, status : Statuses]

\* "attempted" to "suppressed" are written by the delivery side only.
ReminderStatuses == {"scheduled", "attempted", "delivered", "failed",
                     "suppressed", "blocked", "invalidated"}
Finished == {"delivered", "failed", "suppressed", "blocked", "invalidated"}
Reminder == [event : EventIds, version : Nat, recipient : Recipients,
             trigger : Int, status : ReminderStatuses]

\* "unconfirmed" and "bad_target" are the two reasons of the status "blocked".
Outcomes == {"ok", "needs_follow_up", "ambiguous", "unconfirmed",
             "bad_target", "conflict"}
Result == [status : Outcomes, event : EventIds \cup {NoEvent}, version : Nat]
Receipt == [at : Times, hash : IntentType, result : Result]
Draft == [version : Nat, status : Statuses, content : Content]

\* A name of no worker and no message, and not a row.
ASSUME NoneAssumption ==
  None \notin Workers /\ None \notin Messages /\ None \notin Receipt

PCs == {"idle", "lookup", "resolve", "prepare", "commit", "sweep",
        "invalidate", "schedule", "receipt"}
Task == [msg : Messages \cup {None}, at : Times,
         target : EventIds \cup {NoEvent}, draft : Draft \cup {None},
         todo : SUBSET Reminder, pending : SUBSET Recipients,
         reply : Result \cup {None}]

NoTask == [msg |-> None, at |-> 0, target |-> NoEvent, draft |-> None,
           todo |-> {}, pending |-> {}, reply |-> None]
NoRow == [version |-> 0, status |-> "none"]

TypeOK ==
  /\ row \in [EventIds -> Row]
  /\ log \in [EventIds -> Seq(Content)]
  /\ reminders \subseteq Reminder
  /\ receipts \in [Messages -> Receipt \cup {None}]
  /\ targets \in [Recipients -> TargetStates]
  /\ lock \in Workers \cup {None}
  /\ pc \in [Workers -> PCs]
  /\ task \in [Workers -> Task]
  /\ now \in Times
  /\ sent \in [Messages -> IntentType]
  /\ deliveries \in [Messages -> Nat]
  /\ handed \in [Messages -> Times]
  /\ crashes \in Nat

-----------------------------------------------------------------------------
(* The parts of process_intent that compute                                *)

Intent(w) == sent[task[w].msg]

\* _intent_hash leaves the confirmation out.
Hash(i) == [i EXCEPT !.confirmed = FALSE]

Known == {e \in EventIds : row[e].version > 0}

\* get_latest_event
Latest(e) == log[e][row[e].version]

\* The active events whose similarity score reaches the threshold 0.8: the
\* weights .5 (title), .3 (start), .2 (participants) reach it only when both
\* title and start agree.
Matches(i) == {e \in Known : row[e].status = "active" /\ Latest(e).slot = i.slot}

IsExplicit(i) == i.event \in Known

\* next_event_id: one more than the largest number in the table.
NextEventId == CHOOSE n \in 1 .. MaxEvents + 1 :
                 (n = 1 \/ n - 1 \in Known) /\ \A e \in Known : e < n

\* Slips: the bound of the window excluded; the hash not compared.
StrictRecent(w) ==
  {m \in Messages : /\ receipts[m] # None
                    /\ receipts[m].hash = Hash(Intent(w))
                    /\ receipts[m].at > task[w].at - Window}
HashlessRecent(w) ==
  {m \in Messages : receipts[m] # None /\ receipts[m].at >= task[w].at - Window}

\* The receipts that find_recent_receipt_by_intent_hash may return: the newest
\* of those with the hash that are not older than the window.
Recent(w) ==
  {m \in Messages : /\ receipts[m] # None
                    /\ receipts[m].hash = Hash(Intent(w))
                    /\ receipts[m].at >= task[w].at - Window}
Newest(w) ==
  {m \in Recent(w) : \A o \in Recent(w) : receipts[o].at <= receipts[m].at}

NewContent(w) ==
  [slot |-> Intent(w).slot, audience |-> Intent(w).audience,
   source |-> task[w].msg, at |-> task[w].at]

\* A slip: nothing inherited.
PlainContent(w, c) == NewContent(w)

UpdatedContent(w, c) ==
  [NewContent(w) EXCEPT
     !.audience = IF Intent(w).audience = {} THEN c.audience ELSE @]

CancelledContent(w, c) == [c EXCEPT !.source = task[w].msg, !.at = task[w].at]

SameKey(r, s) ==
  r.event = s.event /\ r.version = s.version /\ r.recipient = s.recipient

\* A slip: the version just before the new one is left out.
OlderSuperseded(e, v, t) ==
  {r \in reminders : /\ r.event = e
                     /\ r.version < v - 1
                     /\ r.trigger > t
                     /\ r.status \notin Finished}

\* The rows _invalidate_prior_version_reminders writes for version v of e.
Superseded(e, v, t) ==
  {r \in reminders : /\ r.event = e
                     /\ r.version < v
                     /\ r.trigger > t
                     /\ r.status \notin Finished}

Reply(st, e, v) == [status |-> st, event |-> e, version |-> v]
\* A slip: success reported as a conflict.
WrongReply(w) == Reply("conflict", task[w].target, 0)

OkReply(w) == Reply("ok", task[w].target, task[w].draft.version)

-----------------------------------------------------------------------------
(* Steps of a worker                                                       *)

CanWrite(w) == lock \in {None, w}

Step(w, from, to) ==
  /\ pc[w] = from
  /\ pc' = [pc EXCEPT ![w] = to]

\* The call raised or its process died: the locals are gone, no receipt.
Abandon(w) ==
  /\ pc' = [pc EXCEPT ![w] = "idle"]
  /\ task' = [task EXCEPT ![w] = NoTask]

\* A slip: the receipt of the message is not looked up.
DeliverAgain(w, m) ==
  /\ Step(w, "idle", "lookup")
  /\ deliveries[m] < MaxDeliveries
  /\ task' = [task EXCEPT ![w].msg = m, ![w].at = now]
  /\ deliveries' = [deliveries EXCEPT ![m] = @ + 1]
  /\ handed' = [handed EXCEPT ![m] = now]
  /\ UNCHANGED <<db, lock, now, sent, crashes>>

\* A message, new or delivered again, for which no receipt is found.  (With a
\* receipt the call returns the stored result and changes nothing.)  Its time is
\* the clock, or the received_at_utc that the payload brings along.
Deliver(w, m) ==
  /\ Step(w, "idle", "lookup")
  /\ deliveries[m] < MaxDeliveries
  /\ receipts[m] = None
  /\ \E lag \in 0 .. MaxLag :
       /\ lag <= now
       /\ task' = [task EXCEPT ![w].msg = m, ![w].at = now - lag]
  /\ deliveries' = [deliveries EXCEPT ![m] = @ + 1]
  /\ handed' = [handed EXCEPT ![m] = now]
  /\ UNCHANGED <<db, lock, now, sent, crashes>>

\* Second identity: the result of a recent message with the same hash is
\* given again and saved for this message too.
Replay(w) ==
  /\ Step(w, "lookup", "receipt")
  /\ \E m \in Newest(w) :
       task' = [task EXCEPT ![w].reply = receipts[m].result]
  /\ UNCHANGED <<db, lock, env>>

\* The intake audit row is the first commit of the call.
Accept(w) ==
  /\ pc[w] = "lookup"
  /\ Recent(w) = {}
  /\ CanWrite(w)
  /\ lock' = None
  /\ IF Intent(w).action = "cancel" \/ Intent(w).complete
       THEN /\ Step(w, "lookup", "resolve")
            /\ UNCHANGED task
       ELSE /\ Step(w, "lookup", "receipt")
            /\ task' = [task EXCEPT
                 ![w].reply = Reply("needs_follow_up", NoEvent, 0)]
  /\ UNCHANGED <<db, env>>

Resolved(i) ==
  IF IsExplicit(i) THEN {i.event} ELSE Matches(i)

\* _resolve_event, then the two gates that need nothing but its outcome.
Resolve(w) ==
  LET found == Resolved(Intent(w)) IN
  /\ pc[w] = "resolve"
  /\ CanWrite(w)
  /\ lock' = None
  /\ \/ /\ Cardinality(found) > 1
        /\ Step(w, "resolve", "receipt")
        /\ task' = [task EXCEPT ![w].reply = Reply("ambiguous", NoEvent, 0)]
     \/ /\ Cardinality(found) <= 1
        /\ ~ Intent(w).confirmed
        /\ Step(w, "resolve", "receipt")
        /\ task' = [task EXCEPT ![w].reply = Reply("unconfirmed", NoEvent, 0)]
     \/ /\ Cardinality(found) <= 1
        /\ Intent(w).confirmed
        /\ Step(w, "resolve", "prepare")
        /\ \E e \in (IF found = {} THEN {NoEvent} ELSE found) :
             task' = [task EXCEPT ![w].target = e]
  /\ UNCHANGED <<db, env>>

\* _cancel_event without an event raises ValueError, which nothing catches.
CancelNothing(w) ==
  /\ pc[w] = "prepare"
  /\ Intent(w).action = "cancel"
  /\ task[w].target = NoEvent
  /\ Abandon(w)
  /\ UNCHANGED <<db, lock, env>>

PrepareCancel(w) ==
  LET e == task[w].target IN
  /\ Step(w, "prepare", "commit")
  /\ Intent(w).action = "cancel"
  /\ e # NoEvent
  /\ task' = [task EXCEPT ![w].draft =
       [version |-> row[e].version + 1, status |-> "cancelled",
        content |-> CancelledContent(w, Latest(e))]]
  /\ UNCHANGED <<db, lock, env>>

\* _update_event up to append_event_version: an update and also a create whose
\* event was found.  The status becomes active whatever it was.
PrepareUpdate(w) ==
  LET e == task[w].target IN
  /\ Step(w, "prepare", "commit")
  /\ CanWrite(w)
  /\ Intent(w).action # "cancel"
  /\ e # NoEvent
  /\ Intent(w).dest_ok
  /\ task' = [task EXCEPT ![w].draft =
       [version |-> row[e].version + 1, status |-> "active",
        content |-> UpdatedContent(w, Latest(e))]]
  /\ lock' = None
  /\ UNCHANGED <<db, env>>

\* _create_event up to save_new_event: a create or an update nothing matched.
PrepareCreate(w) ==
  /\ Step(w, "prepare", "commit")
  /\ CanWrite(w)
  /\ Intent(w).action # "cancel"
  /\ task[w].target = NoEvent
  /\ Intent(w).dest_ok
  /\ Intent(w).audience # {}
  /\ NextEventId \in EventIds
  /\ task' = [task EXCEPT ![w].target = NextEventId, ![w].draft =
       [version |-> 1, status |-> "active", content |-> NewContent(w)]]
  /\ lock' = None
  /\ UNCHANGED <<db, env>>

\* intent["audience"] raises KeyError: an update may inherit, a create cannot.
CreateWithoutAudience(w) ==
  /\ pc[w] = "prepare"
  /\ CanWrite(w)
  /\ Intent(w).action # "cancel"
  /\ task[w].target = NoEvent
  /\ Intent(w).dest_ok
  /\ Intent(w).audience = {}
  /\ Abandon(w)
  /\ lock' = None
  /\ UNCHANGED <<db, env>>

RejectDestination(w) ==
  /\ Step(w, "prepare", "receipt")
  /\ CanWrite(w)
  /\ Intent(w).action # "cancel"
  /\ ~ Intent(w).dest_ok
  /\ task' = [task EXCEPT ![w].reply = Reply("bad_target", task[w].target, 0)]
  /\ lock' = None
  /\ UNCHANGED <<db, env>>

Commit(w, e, d) ==
  /\ row' = [row EXCEPT ![e] = [version |-> d.version, status |-> d.status]]
  /\ log' = [log EXCEPT ![e] = Append(@, d.content)]
  /\ lock' = None

IsNew(w) == task[w].draft.version = 1

\* save_new_event.
CommitNew(w) ==
  LET e == task[w].target IN
  /\ Step(w, "commit", "schedule")
  /\ CanWrite(w)
  /\ IsNew(w)
  /\ row[e].version = 0
  /\ Commit(w, e, task[w].draft)
  /\ task' = [task EXCEPT ![w].pending = task[w].draft.content.audience]
  /\ UNCHANGED <<reminders, receipts, targets, env>>

\* save_new_event when another process took the id since next_event_id: the
\* primary key refuses, the transaction rolls back, the error escapes.
DuplicateId(w) ==
  /\ pc[w] = "commit"
  /\ CanWrite(w)
  /\ IsNew(w)
  /\ row[task[w].target].version > 0
  /\ Abandon(w)
  /\ lock' = None
  /\ UNCHANGED <<db, env>>

VersionUnmoved(w) ==
  row[task[w].target].version = task[w].draft.version - 1

\* append_event_version.
CommitVersion(w) ==
  /\ Step(w, "commit", "sweep")
  /\ CanWrite(w)
  /\ ~ IsNew(w)
  /\ VersionUnmoved(w)
  /\ Commit(w, task[w].target, task[w].draft)
  /\ UNCHANGED <<reminders, receipts, targets, task, env>>

VersionConflict(w) ==
  /\ Step(w, "commit", "receipt")
  /\ CanWrite(w)
  /\ ~ IsNew(w)
  /\ ~ VersionUnmoved(w)
  /\ lock' = None
  /\ task' = [task EXCEPT ![w].reply = Reply("conflict", task[w].target, 0)]
  /\ UNCHANGED <<db, env>>

\* A slip: nothing is scheduled after the sweep.
StopAfterSweep(w) == "receipt"

\* The SELECT of _invalidate_prior_version_reminders.  A cancellation with
\* nothing to invalidate is over, an update goes on to schedule.
AfterSweep(w) ==
  IF task[w].draft.status = "cancelled" THEN "receipt" ELSE "schedule"

SweepDone(w) ==
  [task[w] EXCEPT
     !.todo = {},
     !.pending = IF task[w].draft.status = "cancelled" THEN {}
                 ELSE task[w].draft.content.audience,
     !.reply = IF task[w].draft.status = "cancelled" THEN OkReply(w) ELSE None]

Sweep(w) ==
  LET found == Superseded(task[w].target, task[w].draft.version, task[w].at) IN
  /\ pc[w] = "sweep"
  /\ IF found = {}
       THEN /\ Step(w, "sweep", AfterSweep(w))
            /\ task' = [task EXCEPT ![w] = SweepDone(w)]
       ELSE /\ Step(w, "sweep", "invalidate")
            /\ task' = [task EXCEPT ![w].todo = found]
  /\ UNCHANGED <<db, lock, env>>

\* list_reminders sorts by dedupe_key: event, version, recipient.
Sooner(r, s) ==
  \/ r.version < s.version
  \/ r.version = s.version /\ r.recipient <= s.recipient

\* update_reminder overwrites the row of the key whatever it holds by now.
Overwrite(r, st) ==
  {IF SameKey(r, s) THEN [s EXCEPT !.status = st] ELSE s : s \in reminders}

Invalidate(w) ==
  /\ pc[w] = "invalidate"
  /\ \E r \in task[w].todo :
       /\ \A s \in task[w].todo : Sooner(r, s)
       /\ CanWrite(w)
       /\ reminders' = Overwrite(r, "invalidated")
       /\ lock' = None
       /\ IF task[w].todo = {r}
            THEN /\ Step(w, "invalidate", AfterSweep(w))
                 /\ task' = [task EXCEPT ![w] = SweepDone(w)]
            ELSE /\ Step(w, "invalidate", "invalidate")
                 /\ task' = [task EXCEPT ![w].todo = @ \ {r}]
       /\ UNCHANGED <<row, log, receipts, targets, env>>

\* The recipient whose turn it is: the audience is stored sorted.
NextUp(w) == {p \in task[w].pending : \A q \in task[w].pending : p <= q}

\* Slips: the version read again from the database; always the first version.
RereadReminder(w, p) ==
  [event |-> task[w].target, version |-> row[task[w].target].version,
   recipient |-> p, trigger |-> Trigger[task[w].draft.content.slot],
   status |-> IF targets[p] = "ok" THEN "scheduled" ELSE "blocked"]
FirstReminder(w, p) ==
  [event |-> task[w].target, version |-> 1,
   recipient |-> p, trigger |-> Trigger[task[w].draft.content.slot],
   status |-> IF targets[p] = "ok" THEN "scheduled" ELSE "blocked"]

NewReminder(w, p) ==
  [event |-> task[w].target, version |-> task[w].draft.version,
   recipient |-> p, trigger |-> Trigger[task[w].draft.content.slot],
   status |-> IF targets[p] = "ok" THEN "scheduled" ELSE "blocked"]

\* One recipient of _schedule_reminders.  The row of a person without a
\* timezone is blocked; INSERT OR REPLACE and has_reminder_dedupe both leave
\* one row per key.
Schedule(w) ==
  /\ pc[w] = "schedule"
  /\ CanWrite(w)
  /\ \E p \in NextUp(w) :
       LET r == NewReminder(w, p)
           old == {s \in reminders : SameKey(r, s)}
       IN
       /\ targets[p] # "absent"
       /\ reminders' = IF old # {} /\ targets[p] = "ok" THEN reminders
                       ELSE (reminders \ old) \cup {r}
       /\ lock' = None
       /\ IF task[w].pending = {p}
            THEN /\ Step(w, "schedule", "receipt")
                 /\ task' = [task EXCEPT ![w].pending = {},
                                         ![w].reply = OkReply(w)]
            ELSE /\ Step(w, "schedule", "schedule")
                 /\ task' = [task EXCEPT ![w].pending = @ \ {p}]
  /\ UNCHANGED <<row, log, receipts, targets, env>>

\* The foreign key on delivery_targets refuses the row of an unregistered
\* person.  The error escapes save_reminder without a rollback: the implicit
\* transaction, and with it the write lock, stays with this process.
ScheduleUnregistered(w) ==
  /\ pc[w] = "schedule"
  /\ CanWrite(w)
  /\ \E p \in NextUp(w) : targets[p] = "absent"
  /\ Abandon(w)
  /\ lock' = w
  /\ UNCHANGED <<db, env>>

\* save_message_receipt, INSERT OR REPLACE.
SaveReceipt(w) ==
  /\ pc[w] = "receipt"
  /\ CanWrite(w)
  /\ receipts' = [receipts EXCEPT ![task[w].msg] =
       [at |-> task[w].at, hash |-> Hash(Intent(w)),
        result |-> task[w].reply]]
  /\ lock' = None
  /\ Abandon(w)
  /\ UNCHANGED <<row, log, reminders, targets, env>>

\* A slip: waiting for the lock for ever.
WaitForever(w) == FALSE

\* Steps that commit: BEGIN IMMEDIATE or an INSERT waits five seconds for the
\* lock another process holds, then "database is locked" escapes the call.
LockTimeout(w) ==
  /\ pc[w] \notin {"idle", "sweep"}
  /\ pc[w] = "lookup" => Recent(w) = {}
  /\ pc[w] = "prepare" => Intent(w).action # "cancel"
  /\ ~ CanWrite(w)
  /\ Abandon(w)
  /\ UNCHANGED <<db, lock, env>>

-----------------------------------------------------------------------------
(* The environment                                                         *)

\* The process of w dies; SQLite rolls its open transaction back.
Crash(w) ==
  /\ crashes < MaxCrashes
  /\ pc[w] # "idle" \/ lock = w
  /\ Abandon(w)
  /\ lock' = IF lock = w THEN None ELSE lock
  /\ crashes' = crashes + 1
  /\ UNCHANGED <<db, now, sent, deliveries, handed>>

\* register_delivery_target, by an operator process.
RegisterTarget(p, st) ==
  /\ lock = None
  /\ st # targets[p]
  /\ targets' = [targets EXCEPT ![p] = st]
  /\ UNCHANGED <<row, log, reminders, receipts, lock, pc, task, env>>

Tick ==
  /\ now < MaxTime
  /\ now' = now + 1
  /\ UNCHANGED <<db, lock, pc, task, sent, deliveries, handed, crashes>>

-----------------------------------------------------------------------------

Init ==
  /\ row = [e \in EventIds |-> NoRow]
  /\ log = [e \in EventIds |-> << >>]
  /\ reminders = {}
  /\ receipts = [m \in Messages |-> None]
  /\ targets \in [Recipients -> StartTargets]
  /\ lock = None
  /\ pc = [w \in Workers |-> "idle"]
  /\ task = [w \in Workers |-> NoTask]
  /\ now = 0
  /\ sent \in [Messages -> Intents]
  /\ deliveries = [m \in Messages |-> 0]
  /\ handed = [m \in Messages |-> 0]
  /\ crashes = 0

\* What process_intent does by itself once it is called.
Work(w) ==
  \/ Replay(w) \/ Accept(w) \/ Resolve(w)
  \/ CancelNothing(w) \/ PrepareCancel(w) \/ PrepareUpdate(w)
  \/ PrepareCreate(w) \/ CreateWithoutAudience(w) \/ RejectDestination(w)
  \/ CommitNew(w) \/ DuplicateId(w) \/ CommitVersion(w) \/ VersionConflict(w)
  \/ Sweep(w) \/ Invalidate(w) \/ Schedule(w) \/ ScheduleUnregistered(w)
  \/ SaveReceipt(w) \/ LockTimeout(w)

Next ==
  \/ \E w \in Workers : Work(w) \/ Crash(w) \/ \E m \in Messages : Deliver(w, m)
  \/ \E p \in Recipients, st \in {"no_tz", "ok"} : RegisterTarget(p, st)
  \/ Tick

Spec == Init /\ [][Next]_vars

\* process_intent has no loop that waits for anything: a process that is in a
\* call keeps taking its steps unless it dies.
FairSpec == Spec /\ \A w \in Workers : WF_vars(Work(w))

-----------------------------------------------------------------------------
(* Properties                                                              *)

\* The two tables of the event store never disagree: the events row of an
\* event names the newest row of its event_versions, and versions count from 1
\* without a gap, whatever processes interleave or die.
VersionsContiguous ==
  \A e \in EventIds :
    /\ row[e].version = Len(log[e])
    /\ row[e].status = "none" <=> log[e] = << >>

\* A reminder belongs to a version that was committed: its recipient is in the
\* audience of exactly that version, its trigger is computed from the start of
\* exactly that version, and no key has two rows.
ReminderOfVersion ==
  \A r \in reminders :
    /\ r.version \in 1 .. Len(log[r.event])
    /\ r.recipient \in log[r.event][r.version].audience
    /\ r.trigger = Trigger[log[r.event][r.version].slot]
    /\ \A s \in reminders : SameKey(r, s) => r = s

\* What an answer "ok" claims is so: the version it names exists, and the
\* message that made it was confirmed and asked for the same thing as the
\* message answered, which may have got the answer of another one.
OkAnswerTrue ==
  \A m \in Messages :
    LET a == receipts[m].result IN
    receipts[m] # None /\ a.status = "ok" =>
      /\ a.event \in EventIds
      /\ a.version \in 1 .. Len(log[a.event])
      /\ LET by == sent[log[a.event][a.version].source] IN
         /\ by.confirmed
         /\ by.action = sent[m].action /\ by.slot = sent[m].slot
         /\ by.audience = sent[m].audience /\ by.event = sent[m].event

MadeBy(m) ==
  {v \in UNION {{e} \X (1 .. Len(log[e])) : e \in EventIds} :
     log[v[1]][v[2]].source = m}

\* A message that was answered has made at most one version, and none if the
\* answer says that nothing was persisted, also when it is handed over again: as
\* long as no call was cut off half-way.
AnswerMatchesEffect ==
  crashes = 0 =>
    \A m \in Messages :
      receipts[m] # None =>
        /\ Cardinality(MadeBy(m)) <= 1
        /\ receipts[m].result.status # "ok" => MadeBy(m) = {}

\* Between calls, a reminder of an old version that can still go out was
\* already overdue when its version was superseded ("overdue reminders remain
\* eligible"): every later version was made at or after its trigger.
SupersededOnlyIfOverdue ==
  crashes = 0 /\ (\A w \in Workers : pc[w] = "idle") =>
    \A r \in reminders :
      r.status = "scheduled" =>
        \A v \in r.version + 1 .. row[r.event].version :
          r.trigger <= log[r.event][v].at

\* Between calls, everyone in the audience of an active event has a row for
\* its current version: an update regenerates all of them.
CurrentScheduled ==
  crashes = 0 /\ (\A w \in Workers : pc[w] = "idle") =>
    \A e \in Known : row[e].status = "active" =>
      \A p \in Latest(e).audience :
        \E r \in reminders : /\ r.event = e /\ r.recipient = p
                             /\ r.version = row[e].version
                             /\ r.status \in {"scheduled", "blocked"}

\* Two times that are further apart than the window.
Beyond(a, b) == a > b + Window \/ b > a + Window

\* The version was made on the clock: its message brought no earlier time along.
OnTheClock(v) ==
  LET c == log[v[1]][v[2]] IN c.at = handed[c.source]

\* The same words do not take effect twice within the window, as the system clock
\* measures it, for messages that are received when the clock says so: of two
\* that made a version, one was handed over more than the window after the other.
SameIntentOneEffect ==
  crashes = 0 =>
    \A m, n \in Messages :
      \A v \in MadeBy(m), u \in MadeBy(n) :
        /\ m # n
        /\ Hash(sent[m]) = Hash(sent[n])
        /\ OnTheClock(v) /\ OnTheClock(u)
        => Beyond(handed[m], handed[n])

\* The same for all messages, whatever time a payload names: the specification
\* says that the window is on the system clock and never on a payload's time.
OneEffectPerWindow ==
  \A m, n \in Messages :
    /\ m # n
    /\ Hash(sent[m]) = Hash(sent[n])
    /\ MadeBy(m) # {} /\ MadeBy(n) # {}
    => Beyond(handed[m], handed[n])

\* What a message was answered once, it is answered for ever.
ReceiptStable ==
  [][\A m \in Messages : receipts[m] # None => receipts'[m] = receipts[m]]_vars

\* The split reads and writes of all processes amount to atomic versions.
Ledger == INSTANCE EventLedger WITH
            status <- [e \in EventIds |-> row[e].status], ledger <- log

ImplementsLedger == Ledger!LedgerSpec

\* A call ends, whatever lock another process was left with.
CallsEnd == \A w \in Workers : pc[w] # "idle" ~> pc[w] = "idle"

-----------------------------------------------------------------------------
(* What makes them inductive                                               *)

\* What a worker knows at each point of process_intent: the strengthening that
\* makes the invariants inductive.
DraftOf(w, c) ==
  IF Intent(w).action = "cancel"
    THEN task[w].draft.status = "cancelled" /\ task[w].draft.content = CancelledContent(w, c)
    ELSE task[w].draft.status = "active" /\ task[w].draft.content = UpdatedContent(w, c)

InHand(w) ==
  /\ task[w].msg \in Messages
  /\ pc[w] \notin {"lookup", "receipt"} =>
       Intent(w).action = "cancel" \/ Intent(w).complete

Chosen(w) ==
  /\ Intent(w).confirmed
  /\ task[w].target # NoEvent => row[task[w].target].version > 0

\* Between the read of the newest version and the commit: the draft is made from
\* a version that is in the log, though perhaps no longer the newest.
Drafted(w) ==
  /\ Intent(w).confirmed
  /\ Intent(w).action = "cancel" \/ Intent(w).dest_ok
  /\ task[w].target \in EventIds
  /\ task[w].draft \in Draft
  /\ IF task[w].draft.version = 1
       THEN /\ Intent(w).action # "cancel" /\ Intent(w).audience # {}
            /\ task[w].draft.status = "active"
            /\ task[w].draft.content = NewContent(w)
       ELSE /\ task[w].draft.version - 1 \in 1 .. Len(log[task[w].target])
            /\ DraftOf(w, log[task[w].target][task[w].draft.version - 1])

\* After the commit: the draft is in the log.
Committed(w) ==
  /\ task[w].target \in EventIds
  /\ task[w].draft \in Draft
  /\ task[w].draft.version \in 1 .. Len(log[task[w].target])
  /\ log[task[w].target][task[w].draft.version] = task[w].draft.content
  /\ task[w].pending \subseteq task[w].draft.content.audience

WorkerOK(w) ==
  /\ pc[w] # "idle" => InHand(w)
  /\ pc[w] = "prepare" => Chosen(w)
  /\ pc[w] = "commit" => Drafted(w)
  /\ pc[w] \in {"sweep", "invalidate", "schedule"} => Committed(w)
  /\ pc[w] # "schedule" => task[w].pending = {}
  /\ pc[w] = "receipt" => task[w].reply \in Result

\* The inductive invariant behind the theorems of IntakeProofs: whatever the
\* other processes commit meanwhile, the locals of a call stay usable.
IInv == TypeOK /\ VersionsContiguous /\ \A w \in Workers : WorkerOK(w)

=============================================================================
