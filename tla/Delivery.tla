------------------------------ MODULE Delivery ------------------------------
(***************************************************************************)
(* FamilySchedulerV0.attempt_due_deliveries and run_reconciliation_batch   *)
(* over SqliteStateStore.  A batch reads the mode once, takes a snapshot   *)
(* of the due reminders, and then works on those objects: every SELECT,    *)
(* every commit and the call of the provider is a step of its own, so that *)
(* another batch, the invalidation by process_intent, an operator, the     *)
(* clock or a crash can come between any two of them.                      *)
(***************************************************************************)
EXTENDS ReminderTable

CONSTANTS
  Procs,          \* processes that run batches on one database file
  People,         \* recipients
  RecipientOf,    \* Reminders -> People
  Quiet,          \* People -> the instants in the person's quiet hours
  StartTargets,   \* states a delivery_targets row may start in
  Provider,       \* what a call of the provider may do: [ok, shown]
  MaxRetries,     \* max_retries of the engine
  StoreRetries,   \* system_state.max_retry_attempts
  RetryDelay,     \* retry_delay_minutes
  BatchSize,      \* batch_size of the reconciliation
  Groups,         \* sets of reminders one change of an event may invalidate
  Alone,          \* TRUE: process_intent runs between the batches only
  MaxLag,         \* bound on now minus the received_at_utc of such a change
  MaxTime,        \* bound on the clock
  MaxAttempts,    \* bound on reminders.attempts
  MaxCrashes,     \* bound on processes killed in a batch
  MaxSwitches     \* bound on changes of the mode and of targets

Times == 0 .. MaxTime
\* A reminder refers to a delivery_targets row, which is never deleted.
TargetStates == {"no_tz", "ok"}

ASSUME DeliveryAssumption ==
  /\ RecipientOf \in [Reminders -> People]
  /\ Quiet \in [People -> SUBSET Nat]
  /\ StartTargets \subseteq TargetStates
  /\ Provider \subseteq [ok : BOOLEAN, shown : BOOLEAN]
  /\ MaxRetries \in Nat /\ StoreRetries \in Nat /\ RetryDelay \in Nat
  /\ BatchSize \in Nat /\ Groups \subseteq SUBSET Reminders
  /\ Alone \in BOOLEAN
  /\ MaxLag \in Nat /\ MaxTime \in Nat /\ MaxAttempts \in Nat
  /\ MaxCrashes \in Nat /\ MaxSwitches \in Nat

\* A provider that answers ok has handed the message over.
ASSUME ProviderAssumption == \A a \in Provider : a.ok => a.shown

VARIABLES
  \* the rest of the database
  ledger,      \* delivery_attempts: a set of rows
  target,      \* delivery_targets: per person without or with a timezone
  mode,        \* system_state.runtime_mode
  \* the processes
  pc,          \* where in a batch each process is
  at,          \* now_utc of that batch
  todo,        \* the rest of its snapshot
  cur,         \* the Reminder object in hand, or None
  verdict,     \* what is to be written for it
  visible,     \* _visible_delivery_keys, in memory
  \* their environment
  sweep,       \* rows process_intent has read and is about to invalidate
  swept,       \* groups a change has invalidated or is invalidating
  gone,        \* reminders whose invalidation was committed
  shown,       \* per reminder, the messages its recipient has got
  now, crashes, switches

db == <<reminder, ledger>>
batch == <<pc, at, todo, cur, verdict, visible>>
intake == <<sweep, swept, gone>>
outside == <<target, mode, switches>>
vars == <<db, batch, intake, outside, shown, now, crashes>>

-----------------------------------------------------------------------------
(* Types                                                                   *)

Object == [id : Reminders, status : Open, attempts : Nat,
           next : Nat \cup {None}]
Verdicts == {"none", "blocked", "suppressed", "delivered", "failed", "retry"}
Entry == [id : Reminders, index : Nat, status : Verdicts \ {"none"}, at : Nat]
PCs == {"idle", "list", "target", "attempt", "send", "settle", "log",
        "rec_list", "rec_write"}

TypeOK ==
  /\ reminder \in [Reminders -> Row]
  /\ ledger \subseteq Entry
  /\ target \in [People -> TargetStates]
  /\ mode \in {"normal", "capture_only"}
  /\ pc \in [Procs -> PCs]
  /\ at \in [Procs -> Nat]
  /\ todo \in [Procs -> SUBSET Object]
  /\ cur \in [Procs -> Object \cup {None}]
  /\ verdict \in [Procs -> Verdicts]
  /\ visible \in [Procs -> SUBSET Reminders]
  /\ sweep \subseteq Object
  /\ swept \subseteq Groups
  /\ gone \subseteq Reminders
  /\ shown \in [Reminders -> Nat]
  /\ now \in Nat /\ crashes \in Nat /\ switches \in Nat

-----------------------------------------------------------------------------
(* Helpers                                                                 *)

RetryLimit == IF MaxRetries < StoreRetries THEN MaxRetries ELSE StoreRetries

ObjectOf(r) ==
  [id |-> r, status |-> reminder[r].status, attempts |-> reminder[r].attempts,
   next |-> reminder[r].next]

Goto(p, from, to) == pc[p] = from /\ pc' = [pc EXCEPT ![p] = to]

\* The batch goes on with the next object of its snapshot.
Advance(p, to) ==
  /\ pc' = [pc EXCEPT ![p] = IF todo[p] = {} THEN "idle" ELSE to]
  /\ cur' = [cur EXCEPT ![p] = None]
  /\ verdict' = [verdict EXCEPT ![p] = "none"]

\* The process ends: a new one starts with an empty memory.
End(p) ==
  /\ pc' = [pc EXCEPT ![p] = "idle"]
  /\ todo' = [todo EXCEPT ![p] = {}]
  /\ cur' = [cur EXCEPT ![p] = None]
  /\ verdict' = [verdict EXCEPT ![p] = "none"]
  /\ visible' = [visible EXCEPT ![p] = {}]
  /\ UNCHANGED at

-----------------------------------------------------------------------------
(* attempt_due_deliveries                                                  *)

\* In capture_only the call writes an audit row and returns.
BeginBatch(p) ==
  /\ Goto(p, "idle", "list")
  /\ mode = "normal"
  /\ Alone => sweep = {}
  /\ at' = [at EXCEPT ![p] = now]
  /\ UNCHANGED <<db, todo, cur, verdict, visible, intake, outside, shown, now, crashes>>

ListDue(p) ==
  /\ Goto(p, "list", IF Due(at[p]) = {} THEN "idle" ELSE "target")
  /\ todo' = [todo EXCEPT ![p] = {ObjectOf(r) : r \in Due(at[p])}]
  /\ UNCHANGED <<db, at, cur, verdict, visible, intake, outside, shown, now, crashes>>

\* get_delivery_target, then the two gates.
Gate(r, t) ==
  CASE target[RecipientOf[r]] # "ok" -> "blocked"
    [] target[RecipientOf[r]] = "ok" /\ t \in Quiet[RecipientOf[r]] -> "suppressed"
    [] OTHER -> "none"

ReadTarget(p) ==
  /\ pc[p] = "target"
  /\ \E o \in Earliest(todo[p]) :
       /\ todo' = [todo EXCEPT ![p] = @ \ {o}]
       /\ cur' = [cur EXCEPT ![p] = o]
       /\ verdict' = [verdict EXCEPT ![p] = Gate(o.id, at[p])]
       /\ pc' = [pc EXCEPT ![p] =
                   IF Gate(o.id, at[p]) = "none" THEN "attempt" ELSE "settle"]
  /\ UNCHANGED <<db, at, visible, intake, outside, shown, now, crashes>>

\* A slip: the attempt is counted in memory only.
AttemptUncounted(p) ==
  LET o == cur[p] IN
  /\ pc[p] = "attempt"
  /\ o.attempts < MaxAttempts
  /\ Write(o.id, "attempted", o.attempts, o.next)
  /\ IF o.id \in visible[p]
       THEN Advance(p, "target")
       ELSE /\ pc' = [pc EXCEPT ![p] = "send"]
            /\ cur' = [cur EXCEPT ![p].status = "attempted", ![p].attempts = @ + 1]
            /\ UNCHANGED verdict
  /\ UNCHANGED <<ledger, at, todo, visible, intake, outside, shown, now, crashes>>

\* The attempt is counted before the provider is called.  A key that this
\* process has delivered before is passed over, and stays "attempted".
Attempt(p) ==
  LET o == cur[p] IN
  /\ pc[p] = "attempt"
  /\ o.attempts < MaxAttempts
  /\ Write(o.id, "attempted", o.attempts + 1, o.next)
  /\ IF o.id \in visible[p]
       THEN Advance(p, "target")
       ELSE /\ pc' = [pc EXCEPT ![p] = "send"]
            /\ cur' = [cur EXCEPT ![p].status = "attempted", ![p].attempts = @ + 1]
            /\ UNCHANGED verdict
  /\ UNCHANGED <<ledger, at, todo, visible, intake, outside, shown, now, crashes>>

\* A slip: the attempts left are counted from one too many.
VerdictLate(o, ok) ==
  CASE ok -> "delivered"
    [] ~ ok /\ o.attempts > RetryLimit + 1 -> "failed"
    [] OTHER -> "retry"

\* A slip: any answer counts as a success, as a dict is true.
VerdictTruthy(o, ok) == "delivered"

VerdictOn(o, ok) ==
  CASE ok -> "delivered"
    [] ~ ok /\ o.attempts > RetryLimit -> "failed"
    [] OTHER -> "retry"

Send(p) ==
  /\ Goto(p, "send", "settle")
  /\ \E a \in Provider :
       /\ shown' = [shown EXCEPT ![cur[p].id] = @ + (IF a.shown THEN 1 ELSE 0)]
       /\ verdict' = [verdict EXCEPT ![p] = VerdictOn(cur[p], a.ok)]
  /\ UNCHANGED <<db, at, todo, cur, visible, intake, outside, now, crashes>>

\* A slip: the delay is forgotten.
NextNow(p) == at[p]

NextAttempt(p) == at[p] + RetryDelay

\* A slip: a delivery left "attempted".
StatusUnlessSent(v) == IF v \in {"retry", "delivered"} THEN "attempted" ELSE v

StatusFor(v) == IF v = "retry" THEN "attempted" ELSE v

\* update_reminder with the outcome.
Settle(p) ==
  LET o == cur[p] IN
  /\ Goto(p, "settle", "log")
  /\ Write(o.id, StatusFor(verdict[p]), o.attempts,
           IF verdict[p] = "retry" THEN NextAttempt(p) ELSE o.next)
  /\ visible' = [visible EXCEPT ![p] =
                   IF verdict[p] = "delivered" THEN @ \cup {o.id} ELSE @]
  /\ UNCHANGED <<ledger, at, todo, cur, verdict, intake, outside, shown, now, crashes>>

\* A slip: the index of the last attempt.
LastIndex(p) == cur[p].attempts

\* What was held back did not count as an attempt: its row has the next index.
IndexOf(p) ==
  cur[p].attempts + (IF verdict[p] \in {"blocked", "suppressed"} THEN 1 ELSE 0)

Logged(p) == \E e \in ledger : e.id = cur[p].id /\ e.index = IndexOf(p)

\* append_delivery_attempt
Log(p) ==
  /\ pc[p] = "log"
  /\ ~ Logged(p)
  /\ ledger' = ledger \cup {[id |-> cur[p].id, index |-> IndexOf(p),
                             status |-> verdict[p], at |-> at[p]]}
  /\ Advance(p, "target")
  /\ UNCHANGED <<reminder, at, todo, visible, intake, outside, shown, now, crashes>>

\* The attempt id exists: the INSERT raises, the batch and its process end.
LogDuplicate(p) ==
  /\ pc[p] = "log"
  /\ Logged(p)
  /\ End(p)
  /\ UNCHANGED <<db, intake, outside, shown, now, crashes>>

-----------------------------------------------------------------------------
(* run_reconciliation_batch                                                *)

BeginReconcile(p) ==
  /\ Goto(p, "idle", "rec_list")
  /\ mode = "normal"
  /\ Alone => sweep = {}
  /\ at' = [at EXCEPT ![p] = now]
  /\ UNCHANGED <<db, todo, cur, verdict, visible, intake, outside, shown, now, crashes>>

\* The filter in the loop looks at the objects of the snapshot only.
Retriable(t) ==
  {r \in FirstDue(t, BatchSize) :
     reminder[r].status = "attempted" /\ reminder[r].next # None}

ListRetriable(p) ==
  /\ Goto(p, "rec_list", IF Retriable(at[p]) = {} THEN "idle" ELSE "rec_write")
  /\ todo' = [todo EXCEPT ![p] = {ObjectOf(r) : r \in Retriable(at[p])}]
  /\ UNCHANGED <<db, at, cur, verdict, visible, intake, outside, shown, now, crashes>>

Reconcile(p) ==
  /\ pc[p] = "rec_write"
  /\ \E o \in Earliest(todo[p]) :
       /\ Write(o.id, "scheduled", o.attempts, None)
       /\ todo' = [todo EXCEPT ![p] = @ \ {o}]
       /\ pc' = [pc EXCEPT ![p] = IF todo[p] = {o} THEN "idle" ELSE "rec_write"]
  /\ UNCHANGED <<ledger, at, cur, verdict, visible, intake, outside, shown, now, crashes>>

-----------------------------------------------------------------------------
(* The environment                                                         *)

AllIdle == \A p \in Procs : pc[p] = "idle"

\* process_intent changes an event: the reminders of its older version that are
\* in the future, as the clock of the message sees it, are read ...
SweepRead(G, lag) ==
  /\ sweep = {} /\ G \notin swept
  /\ Alone => AllIdle
  /\ lag <= now
  /\ sweep' = {ObjectOf(r) : r \in {q \in G : /\ Trigger[q] > now - lag
                                              /\ reminder[q].status \in Open}}
  /\ swept' = swept \cup {G}
  /\ UNCHANGED <<db, batch, gone, outside, shown, now, crashes>>

\* ... and written one by one.
SweepWrite ==
  /\ \E o \in Earliest(sweep) :
       /\ Write(o.id, "invalidated", o.attempts, o.next)
       /\ sweep' = sweep \ {o}
       /\ gone' = gone \cup {o.id}
  /\ UNCHANGED <<ledger, batch, swept, outside, shown, now, crashes>>

\* The process ends between batches and is started again: the dispatch runner is
\* a new process on every tick.
Restart(p) ==
  /\ pc[p] = "idle" /\ visible[p] # {}
  /\ End(p)
  /\ UNCHANGED <<db, intake, outside, shown, now, crashes>>

\* It is killed in a batch, or raises, also inside the provider.
Crash(p) ==
  /\ crashes < MaxCrashes
  /\ pc[p] # "idle"
  /\ End(p)
  /\ crashes' = crashes + 1
  /\ UNCHANGED <<db, intake, outside, shown, now>>

SwitchMode ==
  /\ switches < MaxSwitches
  /\ mode' = IF mode = "normal" THEN "capture_only" ELSE "normal"
  /\ switches' = switches + 1
  /\ UNCHANGED <<db, batch, intake, target, shown, now, crashes>>

ChangeTarget(person, st) ==
  /\ switches < MaxSwitches
  /\ st # target[person]
  /\ target' = [target EXCEPT ![person] = st]
  /\ switches' = switches + 1
  /\ UNCHANGED <<db, batch, intake, mode, shown, now, crashes>>

Tick ==
  /\ now < MaxTime
  /\ now' = now + 1
  /\ UNCHANGED <<db, batch, intake, outside, shown, crashes>>

-----------------------------------------------------------------------------

Init ==
  /\ reminder = [r \in Reminders |->
                   [status |-> "scheduled", attempts |-> 0, next |-> None]]
  /\ ledger = {}
  /\ target \in [People -> StartTargets]
  /\ mode = "normal"
  /\ pc = [p \in Procs |-> "idle"]
  /\ at = [p \in Procs |-> 0]
  /\ todo = [p \in Procs |-> {}]
  /\ cur = [p \in Procs |-> None]
  /\ verdict = [p \in Procs |-> "none"]
  /\ visible = [p \in Procs |-> {}]
  /\ sweep = {} /\ swept = {} /\ gone = {}
  /\ shown = [r \in Reminders |-> 0]
  /\ now = 0 /\ crashes = 0 /\ switches = 0

\* What a batch does by itself once it has begun.
Work(p) ==
  \/ ListDue(p) \/ ReadTarget(p) \/ Attempt(p) \/ Send(p) \/ Settle(p)
  \/ Log(p) \/ LogDuplicate(p)
  \/ ListRetriable(p) \/ Reconcile(p)

Next ==
  \/ \E p \in Procs : BeginBatch(p) \/ BeginReconcile(p) \/ Work(p)
                         \/ Restart(p) \/ Crash(p)
  \/ \E G \in Groups, lag \in 0 .. MaxLag : SweepRead(G, lag)
  \/ SweepWrite
  \/ SwitchMode
  \/ \E person \in People, st \in {"no_tz", "ok"} : ChangeTarget(person, st)
  \/ Tick

Spec == Init /\ [][Next]_vars

\* A batch that runs goes on, a timer starts deliveries again and again,
\* whatever else the process is used for, and the clock runs.
FairSpec ==
  /\ Spec
  /\ \A p \in Procs : WF_vars(Work(p)) /\ SF_vars(BeginBatch(p))
  /\ WF_vars(SweepWrite)
  /\ WF_vars(Tick)

-----------------------------------------------------------------------------
(* Properties                                                              *)

\* A reminder is delivered only if its recipient has got a message, and the
\* attempt ledger claims no delivery that did not happen, whatever batches
\* overlap, crash or write over each other.
DeliveredWasShown ==
  /\ \A r \in Reminders : reminder[r].status = "delivered" => shown[r] > 0
  /\ \A e \in ledger : e.status = "delivered" => shown[e.id] > 0

\* Retries are bounded: a reminder is tried at most once more than the limit,
\* and once more for every crash that hit an attempt.
AttemptsBounded ==
  \A r \in Reminders :
    /\ reminder[r].attempts <= RetryLimit + 1 + crashes
    /\ shown[r] <= reminder[r].attempts

\* A failed attempt is followed by another one only after the retry delay, also
\* when a reconciliation has rescheduled the reminder in between.
RetrySpaced ==
  \A e, f \in ledger :
    e.id = f.id /\ e.index < f.index => f.at >= e.at + RetryDelay

\* Every message a recipient gets beyond the first is owed to an attempt that was
\* reported as failed or to a crash: a batch never repeats what it has delivered.
RepeatExplained ==
  \A r \in Reminders :
    shown[r] <= 1 + crashes + Cardinality({e \in ledger : e.id = r /\ e.status = "retry"})

\* Between batches that did not crash, the status of a reminder and its newest
\* row in the attempt ledger tell the same story.
LedgerAgrees ==
  AllIdle /\ crashes = 0 =>
    \A r \in Reminders :
      LET rows == {e \in ledger : e.id = r}
          newest == CHOOSE e \in rows : \A f \in rows : f.index <= e.index IN
      CASE reminder[r].status = "invalidated" -> TRUE
        [] reminder[r].status \in Open ->
             \A e \in rows : e.status = "retry" /\ e.index <= reminder[r].attempts
        [] OTHER -> rows # {} /\ newest.status = reminder[r].status

\* Once its invalidation is committed a reminder is not shown again.
NoSendAfterInvalidation ==
  [][\A r \in gone : shown'[r] = shown[r]]_vars

\* Batches, snapshots and retries amount to the life of the requirements.
Life == INSTANCE ReminderLifecycle WITH
          status <- [r \in Reminders |-> reminder[r].status],
          attempts <- [r \in Reminders |-> reminder[r].attempts]

ImplementsLifecycle == Life!LifeSpec

\* Deliveries are tried until every reminder is finished, if the mode is normal
\* in the end.  (A retry that is due after the last instant of the bounded clock
\* cannot be waited for.)
EventuallyFinished ==
  <>[](mode = "normal") =>
    \A r \in Reminders :
      <>[](reminder[r].status \in Finished \/ DueAt(r) > MaxTime)

=============================================================================
