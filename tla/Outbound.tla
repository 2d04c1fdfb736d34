------------------------------ MODULE Outbound ------------------------------
(***************************************************************************)
(* A reminder on its way: from the intent that asks for a destination, by  *)
(* the version of the event and its reminder, to the daemon that resolves  *)
(* the destination, the adapter that sends, and the row of                 *)
(* delivery_attempts.  One event with one recipient; each version has one  *)
(* reminder, named by the number of the version.  Destinations are as in   *)
(* Destination, answers as in Seam.  Intake has the steps of an intent and *)
(* Dispatch those of a cycle; here an intent is one step.                  *)
(***************************************************************************)
EXTENDS Destination, Seam, Sequences

CONSTANTS
  Payloads,     \* what intents carry: an override and a context
  Registered,   \* rows of delivery_targets that occur
  Answering,    \* replies of the gateway that occur
  Bypasses,     \* values of force_bypass the daemon is started with
  MaxVersions,  \* bound on the versions of the event
  MaxChanges,   \* bound on registrations
  MaxFaults,    \* bound on exceptions and ends of the process
  None

VARIABLES
  log,          \* event_versions: the two destinations of each version
  reminder,     \* reminders: status and attempts, one per version
  target,       \* delivery_targets: the row of the recipient
  attempts,     \* delivery_attempts
  due,          \* the reminders whose trigger has passed
  \* the process
  pc,
  todo, cur,    \* the rest of the snapshot, and the object in hand
  dest,         \* the DestinationResolution in hand
  verdict,      \* the reason to be written
  frozen,       \* the adapter's memory, by dedupe key
  bypass,       \* force_bypass
  locked,       \* its connection was left in a transaction
  \* history
  said,         \* the payload of each version
  since,        \* the rows that stood since the object in hand was taken up
  sent,         \* calls of the gateway
  changes, faults

db == <<log, reminder, target, attempts>>
local == <<pc, todo, cur, dest, verdict>>
process == <<local, frozen, bypass, locked>>
history == <<said, since, sent, changes, faults>>
vars == <<db, due, process, history>>

Versions == 1 .. MaxVersions
Statuses == {"none", "scheduled", "blocked", "invalidated", "attempted", "delivered", "failed"}
Reasons == {"TZ_MISSING", "FAILED_CONFIG_INVALID_TARGET", "DELIVERED_SUCCESS",
            "ACCEPTED_UNVERIFIED", SeamGap} \cup {ReasonOfBranch[b] : b \in {"A", "B", "C"}}
Results == [status : STRING, reason : STRING, code : Codes, ref : Refs,
            confidence : STRING, acceptOnly : BOOLEAN]
Object == [version : Versions, attempts : Nat]

ASSUME OutboundAssumption ==
  /\ MaxVersions \in Nat /\ MaxChanges \in Nat /\ MaxFaults \in Nat
  /\ Payloads \subseteq [override : Carried, context : Carried]
  /\ Registered \subseteq [channel : Values, ref : Values \ TooLong, zone : BOOLEAN]
  /\ Answering \subseteq Replies /\ Bypasses \subseteq BOOLEAN
  /\ None \notin Object \cup Resolution \cup Reasons \cup Results

TypeOK ==
  /\ log \in Seq([override : Pair, context : Pair]) /\ Len(log) <= MaxVersions
  /\ reminder \in Seq([status : Statuses, attempts : Nat]) /\ Len(reminder) = Len(log)
  /\ said \in Seq([override : Carried, context : Carried]) /\ Len(said) = Len(log)
  /\ target \in Registered /\ since \subseteq Registered
  /\ attempts \subseteq [version : Versions, index : Nat, reason : Reasons, dest : Resolution]
  /\ due \subseteq DOMAIN log
  /\ pc \in {"idle", "next", "send", "settle", "record", "exit"}
  /\ todo \subseteq {o \in Object : o.version \in DOMAIN log}
  /\ pc \in {"send", "settle", "record"} =>
       /\ cur \in Object /\ cur.version \in DOMAIN log /\ dest \in Resolution
  /\ pc \in {"settle", "record"} => verdict \in Reasons \ {SeamGap}
  /\ bypass \in BOOLEAN /\ locked \in BOOLEAN
  /\ sent \subseteq [version : Versions, to : Values \cup {Null}]
  /\ changes \in Nat /\ faults \in Nat

-----------------------------------------------------------------------------
(* Intents and registrations                                               *)

Silent == [override |-> Flat(Absent, Absent), context |-> Flat(Absent, Absent)]

Latest == IF log = <<>> THEN [override |-> Nothing, context |-> Nothing] ELSE log[Len(log)]

\* A new version invalidates the open reminders that are not due yet.
Invalidated(v) ==
  IF v \notin due /\ reminder[v].status \in {"scheduled", "attempted"}
    THEN [reminder[v] EXCEPT !.status = "invalidated"]
    ELSE reminder[v]

Appended(version, payload, status) ==
  /\ ~ locked
  /\ Len(log) < MaxVersions
  /\ log' = Append(log, version)
  /\ said' = Append(said, payload)
  /\ reminder' = Append([v \in DOMAIN reminder |-> Invalidated(v)],
                        [status |-> status, attempts |-> 0])
  /\ UNCHANGED <<target, attempts, due, process, since, sent, changes, faults>>

\* A confirmed create or update whose destinations are accepted; of one that is
\* refused no version is written.
ProcessIntent(p) ==
  LET override == Lift(p.override)
      context == Lift(p.context)
      version == [override |-> Written(override, Latest.override),
                  context |-> Written(context, Latest.context)]
  IN /\ ~ LiftRaises(p.override) /\ ~ LiftRaises(p.context)
     /\ Writable(override) /\ Writable(context)
     /\ Storable(version.override) /\ Storable(version.context)
     /\ Appended(version, p, IF target.zone THEN "scheduled" ELSE "blocked")

\* A cancelled version keeps the destinations and has no reminder.
CancelEvent == log # <<>> /\ Appended(Latest, Silent, "none")

\* register_delivery_target
RegisterTarget(t) ==
  /\ ~ locked
  /\ changes < MaxChanges
  /\ t # target
  /\ target' = t
  /\ since' = since \cup {t}
  /\ changes' = changes + 1
  /\ UNCHANGED <<log, reminder, attempts, due, process, said, sent, faults>>

\* The trigger of a reminder passes.
Due(v) ==
  /\ v \in DOMAIN log \ due
  /\ due' = due \cup {v}
  /\ UNCHANGED <<db, process, history>>

-----------------------------------------------------------------------------
(* A cycle of the daemon                                                   *)

Listed == {v \in due : reminder[v].status \in {"scheduled", "attempted"}}

\* list_due_reminders
List ==
  /\ pc = "idle" /\ pc' = "next"
  /\ Listed # {}
  /\ todo' = {[version |-> v, attempts |-> reminder[v].attempts] : v \in Listed}
  /\ UNCHANGED <<db, due, cur, dest, verdict, frozen, bypass, locked, history>>

TakeUp(o) ==
  /\ pc = "next"
  /\ todo' = todo \ {o}
  /\ since' = {target}
  /\ UNCHANGED <<log, target, attempts, due, frozen, bypass, said, sent, changes, faults>>

\* process_candidate: without a timezone nothing is counted or resolved ...
TakeUnzoned(o) ==
  /\ TakeUp(o)
  /\ ~ target.zone
  /\ cur' = o /\ verdict' = "TZ_MISSING" /\ pc' = "settle"
  /\ dest' = [source |-> "none", status |-> "missing", resolved |-> Nothing, attempted |-> Nothing]
  /\ UNCHANGED <<reminder, locked>>

\* ... else the attempt is counted, which commits, and the destination resolved.
\* Only whatsapp is sent, other channels are taken for delivered as they are.
Own == [channel |-> target.channel, ref |-> target.ref]

Take(o) ==
  /\ TakeUp(o)
  /\ target.zone
  /\ cur' = [o EXCEPT !.attempts = @ + 1]
  /\ reminder' = [reminder EXCEPT ![o.version] =
                    [status |-> "attempted", attempts |-> o.attempts + 1]]
  /\ locked' = FALSE
  /\ LET d == Resolve(log[o.version].override, log[o.version].context, Own) IN
     /\ dest' = d
     /\ \/ /\ ~ ProvenanceComplete(d)
           /\ pc' = "settle" /\ verdict' = "FAILED_CONFIG_INVALID_TARGET"
        \/ /\ ProvenanceComplete(d) /\ d.resolved.channel # "whatsapp"
           /\ pc' = "settle" /\ verdict' = "DELIVERED_SUCCESS"
        \/ /\ ProvenanceComplete(d) /\ d.resolved.channel = "whatsapp" /\ bypass
           /\ pc' = "settle" /\ verdict' = Verdict(OtherError)
        \/ /\ ProvenanceComplete(d) /\ d.resolved.channel = "whatsapp" /\ ~ bypass
           /\ pc' = "send" /\ UNCHANGED verdict

\* A slip: the dedupe key without the version.
KeyOfEvent(v) == 1

\* dedupe_key, which names the version.
Key(v) == v

Remember(result) == frozen' = [frozen EXCEPT ![Key(cur.version)] = result]

\* The adapter: what it has frozen is replayed, wherever that went.
Replay ==
  /\ frozen[Key(cur.version)] # None
  /\ verdict' = Verdict(Returned(frozen[Key(cur.version)]))
  /\ UNCHANGED <<frozen, sent>>

\* What is no address is blocked.
Refuse ==
  LET result == Blocking("FAILED_CAPABILITY_UNSUPPORTED") IN
  /\ frozen[Key(cur.version)] = None
  /\ ~ Sendable(dest.resolved)
  /\ Remember(result)
  /\ verdict' = Verdict(Returned(result))
  /\ UNCHANGED sent

\* The gateway is called, and may have sent whatever it replies.
Call(reply) ==
  /\ frozen[Key(cur.version)] = None
  /\ Sendable(dest.resolved)
  /\ sent' = sent \cup {[version |-> cur.version, to |-> Address(dest.resolved)]}
  /\ IF Answered(reply).is = "result" THEN Remember(Answered(reply).result) ELSE UNCHANGED frozen
  /\ verdict' = Verdict(Answered(reply))

\* A seam gap ends the process.
Send ==
  /\ pc = "send"
  /\ Replay \/ Refuse \/ \E reply \in Answering : Call(reply)
  /\ pc' = IF verdict' = SeamGap THEN "exit" ELSE "settle"
  /\ UNCHANGED <<db, due, todo, cur, dest, bypass, locked, said, since, changes, faults>>

\* update_reminder ...
Settle ==
  /\ pc = "settle" /\ pc' = "record"
  /\ reminder' = [reminder EXCEPT ![cur.version] =
       [status |-> IF verdict = "DELIVERED_SUCCESS" THEN "delivered" ELSE "failed",
        attempts |-> cur.attempts]]
  /\ locked' = FALSE
  /\ UNCHANGED <<log, target, attempts, due, todo, cur, dest, verdict, frozen, bypass, history>>

Drop == cur' = None /\ dest' = None /\ verdict' = None

\* ... and append_delivery_attempt.
Record ==
  /\ pc = "record"
  /\ Recordable(dest)
  /\ attempts' = attempts \cup
       {[version |-> cur.version, index |-> IF cur.attempts = 0 THEN 1 ELSE cur.attempts,
         reason |-> verdict, dest |-> dest]}
  /\ locked' = FALSE
  /\ pc' = IF todo = {} THEN "idle" ELSE "next"
  /\ Drop
  /\ UNCHANGED <<log, reminder, target, due, todo, frozen, bypass, history>>

\* A CHECK of the table fails: the cycle ends, the transaction that the INSERT has
\* begun does not.
RecordFails ==
  /\ pc = "record"
  /\ ~ Recordable(dest)
  /\ locked' = TRUE
  /\ pc' = "idle" /\ todo' = {} /\ Drop
  /\ UNCHANGED <<db, due, frozen, bypass, history>>

-----------------------------------------------------------------------------
(* Faults                                                                  *)

\* An exception, as of a locked database, ends the cycle; the process goes on.
Abort ==
  /\ faults < MaxFaults
  /\ pc \notin {"idle", "exit"}
  /\ faults' = faults + 1
  /\ pc' = "idle" /\ todo' = {} /\ Drop
  /\ UNCHANGED <<db, due, frozen, bypass, locked, said, since, sent, changes>>

\* The process ends and is started again: its memory is lost, its transaction
\* rolled back.
Crash ==
  /\ faults < MaxFaults
  /\ faults' = faults + 1
  /\ pc' = "idle" /\ todo' = {} /\ Drop
  /\ frozen' = [v \in Versions |-> None]
  /\ bypass' \in Bypasses
  /\ locked' = FALSE
  /\ UNCHANGED <<db, due, said, since, sent, changes>>

-----------------------------------------------------------------------------

Init ==
  /\ log = <<>> /\ reminder = <<>> /\ said = <<>> /\ attempts = {} /\ due = {}
  /\ target \in Registered /\ since = {target}
  /\ pc = "idle" /\ todo = {} /\ cur = None /\ dest = None /\ verdict = None
  /\ frozen = [v \in Versions |-> None]
  /\ bypass \in Bypasses /\ locked = FALSE
  /\ sent = {} /\ changes = 0 /\ faults = 0

Next ==
  \/ \E p \in Payloads : ProcessIntent(p)
  \/ CancelEvent
  \/ \E t \in Registered : RegisterTarget(t)
  \/ \E v \in Versions : Due(v)
  \/ List
  \/ \E o \in todo : TakeUnzoned(o) \/ Take(o)
  \/ Send \/ Settle \/ Record \/ RecordFails
  \/ Abort \/ Crash

Spec == Init /\ [][Next]_vars

-----------------------------------------------------------------------------
(* Properties                                                              *)

Says(c) == HasFlat(c) \/ c.object.is \in {"null", "object"}

Spoken(c) ==
  CASE HasFlat(c) -> NormalPair([channel |-> Get(c.channel), ref |-> Get(c.ref)])
    [] ~ HasFlat(c) /\ c.object.is = "object" ->
         NormalPair([channel |-> Get(c.object.channel), ref |-> Get(c.object.ref)])
    [] OTHER -> Nothing

\* The last word about a prefix up to a version.
LastWord(prefix, v) ==
  {Spoken(said[i][prefix]) : i \in {j \in 1 .. v :
     /\ Says(said[j][prefix])
     /\ \A k \in (j + 1) .. v : ~ Says(said[k][prefix])}} \ {Nothing}

AskedFor(v) ==
  IF LastWord("override", v) # {} THEN LastWord("override", v) ELSE LastWord("context", v)

\* A destination that intake has accepted is never found invalid by the daemon, whose
\* validation is code of its own: what is invalid is a row of delivery_targets.
AcceptedResolves ==
  /\ dest # None /\ dest.status = "invalid" => dest.source = "recipient_default"
  /\ \A a \in attempts : a.dest.status = "invalid" => a.dest.source = "recipient_default"

\* A message goes where the last intent that said something wants it, the event before
\* the conversation, through updates that say nothing, nulls that clear, and a
\* cancellation; if none asks for anything, to a row of the recipient that stood since
\* the reminder was taken up.
SentWhereAsked ==
  [][\A s \in sent' \ sent :
       IF AskedFor(s.version) # {}
         THEN \E p \in AskedFor(s.version) : s.to = Address(p)
         ELSE \E t \in since :
                s.to = Address(NormalPair([channel |-> t.channel, ref |-> t.ref]))]_vars

\* No reply of the gateway makes the daemon find its own seam broken and exit.
NoSeamGap == pc # "exit"

Went == {"DELIVERED_SUCCESS", "ACCEPTED_UNVERIFIED"}

\* An attempt that went out by whatsapp names an address the gateway was called with for
\* it, if an intent asked for the destination: also after retries that were answered
\* from memory.
AskedIsWhereSent ==
  \A a \in attempts :
    a.reason \in Went /\ a.dest.resolved.channel = "whatsapp" /\ AskedFor(a.version) # {} =>
      [version |-> a.version, to |-> Address(a.dest.resolved)] \in sent

\* Between cycles none of which was cut off, every finished reminder has its attempt.
FinishedIsRecorded ==
  pc = "idle" /\ faults = 0 =>
    \A v \in DOMAIN reminder :
      reminder[v].status \in {"delivered", "failed"} => \E a \in attempts : a.version = v
=============================================================================
