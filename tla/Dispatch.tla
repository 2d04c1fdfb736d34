------------------------------ MODULE Dispatch ------------------------------
(***************************************************************************)
(* DispatchCallbacks of the daemon: the cycles that DaemonRuntime.run_cycle *)
(* drives over SqliteStateStore, with the adapter as in Adapter.  A cycle  *)
(* reads the mode once, takes a snapshot of the due reminders, works on    *)
(* those objects, and then reconciles.  Every SELECT, every commit and the *)
(* call of the adapter is a step of its own, except that the two lookups   *)
(* before the closing of an unverified attempt are one step with its       *)
(* UPDATE: what they read is the daemon's own, or is used as of then.      *)
(* There is one daemon (its lock sees to that); the event changes come     *)
(* from another process.                                                   *)
(***************************************************************************)
EXTENDS ReminderTable

CONSTANTS
  StartTables,    \* reminders as they were scheduled, or left by the engine
  Elsewhere,      \* reminders whose channel is another one than whatsapp
  Answering,      \* what calls of the gateway may come to
  Window,         \* adapter_dedupe_window_ms
  VerifyWindow,   \* accept_mode_verification_window_sec
  Limit,          \* limit of list_due_reminders
  Groups,         \* sets of reminders one change of an event may invalidate
  MaxTime,        \* bound on the clock
  MaxFaults       \* bound on ends of the process, exceptions, changes of the
                  \* mode and of destinations, and late receipts, together

VARIABLES
  \* the rest of the database
  ledger,       \* delivery_attempts
  transitions,  \* audit_log: the closings of unverified attempts
  target,       \* per reminder, what its destination comes to
  mode,         \* system_state.runtime_mode
  \* the process
  canonical, calls,   \* the adapter
  pc,           \* where in a cycle it is
  cycleMode,    \* the mode this cycle has read
  recon,        \* whether this cycle reconciles
  at,           \* now of this candidate or this reconciliation
  todo,         \* the rest of the snapshot
  cur,          \* the Reminder object in hand, or None
  dest,         \* the destination read for it
  verdict,      \* the reason code to be written for it
  rows,         \* the rest of the unverified attempts
  row,          \* the attempt in hand, or None
  \* its environment
  sweep, gone,  \* invalidation by process_intent, as in Delivery
  now, crashes, aborts, switches, receipts

INSTANCE Adapter WITH Keys <- Reminders

db == <<reminder, ledger, transitions>>
adapter == <<canonical, calls>>
local == <<cycleMode, recon, at, todo, cur, dest, verdict, rows, row>>
intake == <<sweep, gone>>
outside == <<target, mode, switches>>
faults == <<crashes, aborts, receipts>>
vars == <<db, adapter, pc, local, intake, outside, faults, now>>

-----------------------------------------------------------------------------
(* Types                                                                   *)

Failures == {"TZ_MISSING", "FAILED_CONFIG_INVALID_TARGET",
             "FAILED_ADAPTER_RESULT_MISSING", "FAILED_ADAPTER_RESULT_INVALID",
             "ACCEPTED_UNVERIFIED", "FAILED_ACCEPTED_UNVERIFIED_TIMEOUT"}
Reasons == Failures \cup {"DELIVERED_SUCCESS"}
\* A failed attempt of the engine has FAILED_PROVIDER_TRANSIENT.
Entry == [id : Reminders, index : Nat, at : Nat, ref : BOOLEAN,
          reason : Reasons \cup {"FAILED_PROVIDER_TRANSIENT"}]
Object == [id : Reminders, attempts : Nat, next : Nat \cup {None}]
\* No timezone, no valid address, a channel that is not one of the schema's, an
\* address that is valid here but not one the adapter knows, and a good one.
Targets == {"no_tz", "invalid", "unlisted", "alias", "ok"}
Unresolved == {"invalid", "unlisted"}
Modes == {"normal", "capture_only"}
PCs == {"idle", "list", "next", "attempt", "send", "settle", "log",
        "retry", "reschedule", "open", "close", "reflect", "record", "end"}

ASSUME DispatchAssumption ==
  /\ \A s \in StartTables :
       s \in [Reminders -> Row] /\ \A r \in Reminders : s[r].status \in Open
  /\ Elsewhere \subseteq Reminders /\ Answering \subseteq Answers
  /\ Window \in Nat /\ VerifyWindow \in Nat /\ Limit \in Nat
  /\ Groups \subseteq SUBSET Reminders
  /\ MaxTime \in Nat /\ MaxFaults \in Nat

TypeOK ==
  /\ reminder \in [Reminders -> Row]
  /\ ledger \subseteq Entry
  /\ transitions \subseteq [id : Reminders, index : Nat, to : Reasons, mode : Modes]
  /\ target \in [Reminders -> Targets]
  /\ mode \in Modes /\ cycleMode \in Modes
  /\ AdapterTypeOK
  /\ pc \in PCs /\ recon \in BOOLEAN /\ at \in Nat
  /\ todo \subseteq Object /\ cur \in Object \cup {None}
  /\ dest \in Targets \cup {None} /\ verdict \in Reasons \cup {None}
  /\ rows \subseteq Entry /\ row \in Entry \cup {None}
  /\ sweep \subseteq Object /\ gone \subseteq Reminders
  /\ now \in Nat /\ crashes \in Nat /\ aborts \in Nat
  /\ switches \in Nat /\ receipts \subseteq Reminders

-----------------------------------------------------------------------------
(* Helpers                                                                 *)

ObjectOf(r) ==
  [id |-> r, attempts |-> reminder[r].attempts, next |-> reminder[r].next]

StatusOf(reason) == IF reason = "DELIVERED_SUCCESS" THEN "delivered" ELSE "failed"

Goto(from, to) == pc = from /\ pc' = to

\* After the candidates comes the reconciliation, if it is due.
AfterRows == IF recon THEN "retry" ELSE "end"

\* The locals of a candidate, and of a whole cycle, are dropped.
Drop == cur' = None /\ dest' = None /\ verdict' = None /\ row' = None
DropAll == /\ Drop /\ todo' = {} /\ rows' = {}
           /\ cycleMode' = "normal" /\ recon' = FALSE /\ at' = 0

-----------------------------------------------------------------------------
(* The candidates                                                          *)

\* run_cycle reads the mode; whether the reconciliation is due is the clock's.
BeginCycle(rec) ==
  /\ Goto("idle", "list")
  /\ cycleMode' = mode
  /\ recon' = rec
  /\ UNCHANGED <<db, adapter, at, todo, cur, dest, verdict, rows, row, intake, outside, faults, now>>

\* In capture_only the candidates are reported as blocked and passed over.
Candidates == IF cycleMode = "capture_only" THEN {} ELSE FirstDue(now, Limit)

List ==
  /\ Goto("list", IF Candidates = {} THEN AfterRows ELSE "next")
  /\ todo' = {ObjectOf(r) : r \in Candidates}
  /\ UNCHANGED <<db, adapter, cycleMode, recon, at, cur, dest, verdict, rows, row, intake, outside, faults, now>>

\* process_candidate begins with get_delivery_target.
Take ==
  /\ pc = "next"
  /\ \E o \in Earliest(todo) :
       /\ todo' = todo \ {o}
       /\ cur' = o
       /\ at' = now
       /\ dest' = target[o.id]
       /\ IF target[o.id] = "no_tz"
            THEN pc' = "settle" /\ verdict' = "TZ_MISSING"
            ELSE pc' = "attempt" /\ UNCHANGED verdict
  /\ UNCHANGED <<db, adapter, cycleMode, recon, rows, row, intake, outside, faults, now>>

\* What is not for whatsapp is marked as delivered and confirmed, with no send.
MarkUnsent ==
  /\ dest \notin Unresolved /\ cur.id \in Elsewhere
  /\ pc' = "settle" /\ verdict' = "DELIVERED_SUCCESS"

\* The attempt is counted, then the destination resolved.
Attempt ==
  /\ pc = "attempt"
  /\ Write(cur.id, "attempted", cur.attempts + 1, cur.next)
  /\ cur' = [cur EXCEPT !.attempts = @ + 1]
  /\ \/ dest \in Unresolved /\ pc' = "settle" /\ verdict' = "FAILED_CONFIG_INVALID_TARGET"
     \/ MarkUnsent
     \/ dest \notin Unresolved /\ cur.id \notin Elsewhere /\ pc' = "send" /\ UNCHANGED verdict
  /\ UNCHANGED <<ledger, transitions, adapter, cycleMode, recon, at, todo, dest, rows, row, intake, outside, faults, now>>

\* The adapter's answer, and what comes of it.
Send ==
  /\ Goto("send", "settle")
  /\ \E kind \in Answers :
       /\ \/ Replayed(cur.id, cur.attempts, now, kind)
          \/ dest = "alias" /\ Blocked(cur.id, cur.attempts, now, kind)
          \/ dest = "ok" /\ kind \in Answering
               /\ Called(cur.id, cur.attempts, now, kind)
       /\ verdict' = OutcomeOf(kind)
  /\ UNCHANGED <<db, cycleMode, recon, at, todo, cur, dest, rows, row, intake, outside, faults, now>>

Settle ==
  /\ Goto("settle", "log")
  /\ Write(cur.id, StatusOf(verdict), cur.attempts, cur.next)
  /\ UNCHANGED <<ledger, transitions, adapter, local, intake, outside, faults, now>>

Index == IF cur.attempts = 0 THEN 1 ELSE cur.attempts

Logged == \E e \in ledger : e.id = cur.id /\ e.index = Index

\* append_delivery_attempt, then the audit row and the next candidate.
Log ==
  /\ Goto("log", IF todo = {} THEN AfterRows ELSE "next")
  /\ ~ Logged /\ dest # "unlisted"
  /\ ledger' = ledger \cup {[id |-> cur.id, index |-> Index, at |-> at,
                             ref |-> verdict = "DELIVERED_SUCCESS", reason |-> verdict]}
  /\ Drop
  /\ UNCHANGED <<reminder, transitions, adapter, cycleMode, recon, at, todo, rows, intake, outside, faults, now>>

\* The attempt id exists: the INSERT raises and the cycle ends.
LogDuplicate ==
  /\ Goto("log", "idle")
  /\ Logged
  /\ DropAll
  /\ UNCHANGED <<db, adapter, intake, outside, faults, now>>

\* The CHECK of migration 0005 refuses a row that names a channel which is not
\* listed: the INSERT raises, behind the commit of the status.  (The transaction
\* it leaves open is in Outbound.)
LogRefused ==
  /\ Goto("log", "idle")
  /\ ~ Logged /\ dest = "unlisted"
  /\ DropAll
  /\ aborts' = aborts + 1
  /\ UNCHANGED <<db, adapter, intake, outside, crashes, receipts, now>>

-----------------------------------------------------------------------------
(* run_reconcile                                                           *)

\* Retries of the engine's batches that have become due ...
Retries == {r \in FirstDue(now, Limit) : reminder[r].status = "attempted"
                                            /\ reminder[r].next # None}

ListRetries ==
  /\ Goto("retry", IF Retries = {} THEN "open" ELSE "reschedule")
  /\ at' = now
  /\ todo' = {ObjectOf(r) : r \in Retries}
  /\ UNCHANGED <<db, adapter, cycleMode, recon, cur, dest, verdict, rows, row, intake, outside, faults, now>>

\* ... are scheduled again.
Reschedule ==
  /\ pc = "reschedule"
  /\ \E o \in Earliest(todo) :
       /\ Write(o.id, "scheduled", o.attempts, None)
       /\ todo' = todo \ {o}
       /\ pc' = IF todo = {o} THEN "open" ELSE "reschedule"
  /\ UNCHANGED <<ledger, transitions, adapter, cycleMode, recon, at, cur, dest, verdict, rows, row, intake, outside, faults, now>>

Unverified == {e \in ledger : e.reason = "ACCEPTED_UNVERIFIED"}

ListOpen ==
  /\ Goto("open", IF Unverified = {} THEN "end" ELSE "close")
  /\ rows' = Unverified
  /\ UNCHANGED <<db, adapter, cycleMode, recon, at, todo, cur, dest, verdict, row, intake, outside, faults, now>>

\* ORDER BY attempted_at_utc
Oldest(S) == {e \in S : \A f \in S : e.at <= f.at}

\* _transition_already_recorded
Recorded(e) == \E t \in transitions : t.id = e.id /\ t.index = e.index

\* A slip: the UPDATE is by the reminder's id, not by the attempt's.
CloseAll(e, reason) ==
  /\ ~ Recorded(e)
  /\ ledger' = {f \in ledger : f.id # e.id}
                 \cup {[e EXCEPT !.reason = reason, !.ref = reason = "DELIVERED_SUCCESS"]}
  /\ row' = e
  /\ cur' = ObjectOf(e.id)
  /\ verdict' = reason
  /\ pc' = "reflect"

\* _mutate_attempt_row, for an attempt whose closing is not recorded yet.
Close(e, reason) ==
  /\ ~ Recorded(e)
  /\ ledger' = {f \in ledger : f.id # e.id \/ f.index # e.index}
                 \cup {[e EXCEPT !.reason = reason, !.ref = reason = "DELIVERED_SUCCESS"]}
  /\ row' = e
  /\ cur' = ObjectOf(e.id)
  /\ verdict' = reason
  /\ pc' = "reflect"

\* A slip: the window that has just passed does not count.
ExpiredStrict(e) == at > e.at + VerifyWindow

Expired(e) == at >= e.at + VerifyWindow

\* A receipt with a reference promotes the attempt, else time demotes it.
PromoteOrDemote ==
  /\ pc = "close"
  /\ \E e \in Oldest(rows) :
       /\ rows' = rows \ {e}
       /\ \/ e.ref /\ Close(e, "DELIVERED_SUCCESS")
          \/ ~ e.ref /\ Expired(e) /\ Close(e, "FAILED_ACCEPTED_UNVERIFIED_TIMEOUT")
  /\ UNCHANGED <<reminder, transitions, adapter, cycleMode, recon, at, todo, dest, intake, outside, faults, now>>

LeaveOpen ==
  /\ pc = "close"
  /\ \E e \in Oldest(rows) :
       /\ e.ref \/ Expired(e) => Recorded(e)
       /\ rows' = rows \ {e}
       /\ pc' = IF rows = {e} THEN "end" ELSE "close"
  /\ UNCHANGED <<db, adapter, cycleMode, recon, at, todo, cur, dest, verdict, row, intake, outside, faults, now>>

\* A slip: the reason the attempt had before is reflected.
ReflectStale ==
  /\ Goto("reflect", "record")
  /\ Write(cur.id, StatusOf(row.reason), cur.attempts, cur.next)
  /\ UNCHANGED <<ledger, transitions, adapter, local, intake, outside, faults, now>>

\* The reminder follows its attempt ...
Reflect ==
  /\ Goto("reflect", "record")
  /\ Write(cur.id, StatusOf(verdict), cur.attempts, cur.next)
  /\ UNCHANGED <<ledger, transitions, adapter, local, intake, outside, faults, now>>

\* ... and the transition is recorded.
Record ==
  /\ Goto("record", IF rows = {} THEN "end" ELSE "close")
  /\ transitions' = transitions \cup
       {[id |-> row.id, index |-> row.index, to |-> verdict, mode |-> cycleMode]}
  /\ Drop
  /\ UNCHANGED <<reminder, ledger, adapter, cycleMode, recon, at, todo, rows, intake, outside, faults, now>>

\* The cycle is summed up.
EndCycle ==
  /\ Goto("end", "idle")
  /\ DropAll
  /\ UNCHANGED <<db, adapter, intake, outside, faults, now>>

-----------------------------------------------------------------------------
(* The environment                                                         *)

MayFail == crashes + aborts + switches + Cardinality(receipts) < MaxFaults

\* Another process changes an event: it reads the open reminders in the future ...
SweepRead(G) ==
  /\ sweep = {} /\ G \cap gone = {}
  /\ sweep' = {ObjectOf(r) : r \in {q \in G : Trigger[q] > now
                                               /\ reminder[q].status \in Open}}
  /\ sweep' # {}
  /\ UNCHANGED <<db, adapter, pc, local, gone, outside, faults, now>>

\* ... and writes them one by one.
SweepWrite ==
  /\ \E o \in Earliest(sweep) :
       /\ Write(o.id, "invalidated", o.attempts, o.next)
       /\ sweep' = sweep \ {o}
       /\ gone' = gone \cup {o.id}
  /\ UNCHANGED <<ledger, transitions, adapter, pc, local, outside, faults, now>>

\* The reference of a receipt is filled in from outside.
Receive ==
  /\ MayFail
  /\ \E e \in Unverified :
       /\ ~ e.ref
       /\ ledger' = (ledger \ {e}) \cup {[e EXCEPT !.ref = TRUE]}
       /\ receipts' = receipts \cup {e.id}
  /\ UNCHANGED <<reminder, transitions, adapter, pc, local, intake, outside, crashes, aborts, now>>

\* An exception, as of a locked database, ends the cycle; the process goes on.
Abort ==
  /\ MayFail
  /\ pc # "idle" /\ pc' = "idle"
  /\ DropAll
  /\ aborts' = aborts + 1
  /\ UNCHANGED <<db, adapter, intake, outside, crashes, receipts, now>>

\* The process ends, in a cycle or between two, and is started again.
Crash ==
  /\ MayFail
  /\ pc # "idle" \/ canonical # {}
  /\ pc' = "idle"
  /\ DropAll
  /\ Forget
  /\ crashes' = crashes + 1
  /\ UNCHANGED <<db, intake, outside, aborts, receipts, now>>

SwitchMode ==
  /\ MayFail
  /\ mode' \in Modes \ {mode}
  /\ switches' = switches + 1
  /\ UNCHANGED <<db, adapter, pc, local, intake, target, faults, now>>

ChangeTarget(r, d) ==
  /\ MayFail
  /\ d # target[r]
  /\ target' = [target EXCEPT ![r] = d]
  /\ switches' = switches + 1
  /\ UNCHANGED <<db, adapter, pc, local, intake, mode, faults, now>>

Tick ==
  /\ now < MaxTime
  /\ now' = now + 1
  /\ UNCHANGED <<db, adapter, pc, local, intake, outside, faults>>

-----------------------------------------------------------------------------

\* What the engine has attempted has a row for each attempt.
TriedBefore(r) ==
  {[id |-> r, index |-> n, at |-> 0, ref |-> FALSE, reason |-> "FAILED_PROVIDER_TRANSIENT"] :
     n \in 1 .. reminder[r].attempts}

Init ==
  /\ reminder \in StartTables
  /\ ledger = UNION {TriedBefore(r) : r \in Reminders}
  /\ transitions = {}
  /\ target = [r \in Reminders |-> "ok"]
  /\ mode = "normal"
  /\ AdapterInit
  /\ pc = "idle" /\ cycleMode = "normal" /\ recon = FALSE /\ at = 0
  /\ todo = {} /\ cur = None /\ dest = None /\ verdict = None
  /\ rows = {} /\ row = None
  /\ sweep = {} /\ gone = {}
  /\ now = 0 /\ crashes = 0 /\ aborts = 0 /\ switches = 0 /\ receipts = {}

\* What a cycle does by itself once it has begun.
Work ==
  \/ List \/ Take \/ Attempt \/ Send \/ Settle \/ Log \/ LogDuplicate \/ LogRefused
  \/ ListRetries \/ Reschedule
  \/ ListOpen \/ PromoteOrDemote \/ LeaveOpen \/ Reflect \/ Record
  \/ EndCycle

Next ==
  \/ \E rec \in BOOLEAN : BeginCycle(rec)
  \/ Work
  \/ Abort \/ Crash
  \/ \E G \in Groups : SweepRead(G)
  \/ SweepWrite
  \/ Receive
  \/ SwitchMode
  \/ \E r \in Reminders, d \in Targets : ChangeTarget(r, d)
  \/ Tick

Spec == Init /\ [][Next]_vars

\* A cycle that runs goes on, the loop starts the next one, the reconciliation
\* becomes due again and again, and the clock runs.
FairSpec ==
  /\ Spec
  /\ WF_vars(Work) /\ SF_vars(BeginCycle(TRUE))
  /\ WF_vars(SweepWrite) /\ WF_vars(Tick)

-----------------------------------------------------------------------------
(* Properties                                                              *)

\* A reminder that goes by whatsapp is delivered, and an attempt of it is logged as
\* delivered, only on evidence: the gateway confirmed a call for it, or a receipt
\* came in.  Nothing is said of other channels, Elsewhere: what goes there is marked
\* as delivered and confirmed without any call (MarkUnsent).
WhatsappOnEvidence ==
  \A r \in Reminders \ (Elsewhere \cup receipts) :
    \/ \E c \in calls[r] : c.kind = "confirmed"
    \/ /\ reminder[r].status # "delivered"
       /\ \A e \in ledger : e.id = r => e.reason # "DELIVERED_SUCCESS"

\* Within the window one life of the process gets at most one answer of the gateway
\* per reminder: a cycle that was cut off after the send replays the result in the
\* next one.
AnsweredOnce ==
  crashes = 0 =>
    \A r \in Reminders : \A c, d \in calls[r] :
      c.kind # "raised" /\ d.kind # "raised" /\ c # d => c.at > d.at + Window \/ d.at > c.at + Window

\* Between cycles that were not cut off, the status of a reminder and its newest
\* attempt tell the same story.
LedgerAgrees ==
  pc = "idle" /\ crashes = 0 /\ aborts = 0 =>
    \A r \in Reminders :
      reminder[r].status \in {"delivered", "failed"} =>
        \E e \in ledger :
          /\ e.id = r /\ \A f \in ledger : f.id = r => f.index <= e.index
          /\ e.reason \in Reasons => StatusOf(e.reason) = reminder[r].status

\* An attempt that is closed, as delivered or failed, is never written again.
ClosedForGood ==
  [][\A e \in ledger : e.reason # "ACCEPTED_UNVERIFIED" => e \in ledger']_vars

\* Every due reminder is finished in the end, if the mode is normal in the end.
EventuallySettled ==
  <>[](mode = "normal") =>
    \A r \in Reminders : <>(reminder[r].status \in Finished)

\* What the gateway has only accepted is promoted or demoted in the end, also if
\* the daemon is killed in the middle of it.
UnverifiedCloses ==
  \A r \in Reminders :
    (\E e \in Unverified : e.id = r /\ e.at + VerifyWindow <= MaxTime)
      ~> (\A e \in Unverified : e.id # r)

\* What a change of its event has invalidated stays invalidated: the status is
\* terminal.
InvalidatedIsTerminal == \A r \in gone : reminder[r].status = "invalidated"

\* In capture_only the reconciliation changes nothing.
CaptureOnlyReadOnly == \A t \in transitions : t.mode = "normal"
=============================================================================
