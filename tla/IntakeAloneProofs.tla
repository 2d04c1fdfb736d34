------------------------- MODULE IntakeAloneProofs -------------------------
(***************************************************************************)
(* What holds of Intake when one process runs process_intent, as each of   *)
(* its callers in the repository does (the operator commands, the probes   *)
(* and the tests): an answer, once given, stands. And, where every         *)
(* recipient has a row in delivery_targets, until a process dies in the    *)
(* middle of a call: answers and versions fit, the reminders are those of  *)
(* the newest version but for the overdue ones, and of messages with the   *)
(* same words received at the time of the clock one takes effect in a      *)
(* window. For any number of messages, events and recipients, any clock,   *)
(* any lag of a payload, and messages delivered again.                     *)
(*                                                                         *)
(* With two processes each of these is false; after a call that failed     *)
(* between its commit and its receipt all but the first are: the           *)
(* conditions are what the code relies on.                                 *)
(***************************************************************************)
EXTENDS IntakeProofs, FiniteSetTheorems

\* One process calls process_intent.
One == \A v, w \in Workers : v = w

\* And none of its calls is refused half-way: the recipients are registered.
Serial == One /\ "absent" \notin StartTargets

-----------------------------------------------------------------------------
(* The invariant                                                           *)

Uncommitted == {"lookup", "resolve", "prepare", "commit"}
Post == {"sweep", "invalidate", "schedule"}

\* A message that is worked on has not been answered.
Unanswered(w) == pc[w] # "idle" => receipts[task[w].msg] = None

\* No call can fail: the lock is free and every recipient is registered.
Smooth == lock = None /\ \A p \in Recipients : targets[p] # "absent"

\* Between the look for a recent receipt and the commit none has come.
Fresh(w) == pc[w] \in {"resolve", "prepare", "commit"} => Recent(w) = {}

\* The version committed is the newest until the call ends, and what is about to
\* be invalidated is older.
Current(w) ==
  /\ pc[w] \in Post =>
       /\ task[w].draft.version = row[task[w].target].version
       /\ task[w].draft.status = row[task[w].target].status
       /\ task[w].draft.content.at = task[w].at
  /\ pc[w] = "invalidate" =>
       \A r \in task[w].todo : r.event = task[w].target /\ r.version < task[w].draft.version

\* The message behind a version: answered "ok", or about to be.
Done(c) ==
  /\ receipts[c.source] # None
  /\ receipts[c.source].result.status = "ok"
  /\ receipts[c.source].at = c.at
Doing(w, c) ==
  /\ task[w].msg = c.source /\ task[w].at = c.at
  /\ pc[w] \in Post \/ (pc[w] = "receipt" /\ task[w].reply.status = "ok")

Accounted ==
  \A e \in EventIds : \A v \in 1 .. Len(log[e]) :
    Done(log[e][v]) \/ \E w \in Workers : Doing(w, log[e][v])

\* A message has made one version at most.
SourceOnce ==
  \A e, f \in EventIds : \A v \in 1 .. Len(log[e]), u \in 1 .. Len(log[f]) :
    log[e][v].source = log[f][u].source => e = f /\ v = u

\* Versions of different messages with the same words lie further apart than the
\* window, by the times that their payloads name.
Apart ==
  \A e, f \in EventIds : \A v \in 1 .. Len(log[e]), u \in 1 .. Len(log[f]) :
    /\ log[e][v].source # log[f][u].source
    /\ Hash(sent[log[e][v].source]) = Hash(sent[log[f][u].source])
    => Beyond(log[e][v].at, log[f][u].at)

\* A reminder of the newest version has not been invalidated.
NewestLive ==
  \A r \in reminders :
    r.version = row[r.event].version => r.status \in {"scheduled", "blocked"}

\* A superseded reminder that can still go out was overdue, or is about to be
\* invalidated.
Condemned(r, v) ==
  \E w \in Workers :
    /\ task[w].target = r.event /\ task[w].draft.version = v
    /\ pc[w] = "sweep" \/ (pc[w] = "invalidate" /\ r \in task[w].todo)

Swept ==
  \A r \in reminders : r.status = "scheduled" =>
    \A v \in r.version + 1 .. row[r.event].version :
      r.trigger <= log[r.event][v].at \/ Condemned(r, v)

\* A recipient of the newest version of an active event has its reminder, or is
\* about to get it.
Reminded(e, p) ==
  \E r \in reminders : /\ r.event = e /\ r.recipient = p
                       /\ r.version = row[e].version
                       /\ r.status \in {"scheduled", "blocked"}
Awaited(e, p) ==
  \E w \in Workers :
    /\ task[w].target = e
    /\ pc[w] \in {"sweep", "invalidate"} \/ (pc[w] = "schedule" /\ p \in task[w].pending)

Covered ==
  \A e \in Known : row[e].status = "active" =>
    \A p \in Latest(e).audience : Reminded(e, p) \/ Awaited(e, p)

Alone ==
  /\ \A w \in Workers : Unanswered(w) /\ Fresh(w) /\ Current(w)
  /\ Smooth /\ Accounted /\ SourceOnce /\ Apart
  /\ NewestLive /\ Swept /\ Covered

-----------------------------------------------------------------------------
(* Helpers                                                                 *)

\* The steps up to the commit, which write nothing that is modelled.
Early(w) ==
  \/ Replay(w) \/ Accept(w) \/ Resolve(w)
  \/ CancelNothing(w) \/ PrepareCancel(w) \/ PrepareUpdate(w) \/ PrepareCreate(w)
  \/ CreateWithoutAudience(w) \/ RejectDestination(w) \/ DuplicateId(w) \/ VersionConflict(w)

LEMMA EarlyEffect ==
  ASSUME IInv, NEW w \in Workers, Early(w)
  PROVE  /\ pc[w] \in Uncommitted
         /\ pc'[w] \in Uncommitted \cup {"idle", "receipt"}
         /\ UNCHANGED <<row, log, reminders, receipts, targets, sent>>
         /\ lock' \in {lock, None}
<1> USE DEF IInv, TypeOK, Uncommitted, db, env, Step, Abandon
<1>1. CASE Replay(w) \/ Accept(w) \/ Resolve(w)
  BY <1>1 DEF Replay, Accept, Resolve
<1>2. CASE PrepareCancel(w) \/ PrepareUpdate(w) \/ PrepareCreate(w)
  BY <1>2 DEF PrepareCancel, PrepareUpdate, PrepareCreate
<1>3. CASE CancelNothing(w) \/ CreateWithoutAudience(w) \/ DuplicateId(w)
  BY <1>3 DEF CancelNothing, CreateWithoutAudience, DuplicateId
<1>4. CASE RejectDestination(w) \/ VersionConflict(w)
  BY <1>4 DEF RejectDestination, VersionConflict
<1> QED
  BY <1>1, <1>2, <1>3, <1>4 DEF Early

\* A call keeps its message and the time it was received.
LEMMA CallKept ==
  ASSUME IInv, NEW w \in Workers, Work(w), pc'[w] # "idle"
  PROVE  pc[w] # "idle" /\ task'[w].msg = task[w].msg /\ task'[w].at = task[w].at
<1>0. task[w] \in Task /\ TypeOK
  BY DEF IInv, TypeOK
<1> USE <1>0 DEF TypeOK, Step, Abandon, Task
<1>1. CASE Replay(w) \/ Accept(w) \/ Resolve(w) \/ RejectDestination(w) \/ VersionConflict(w)
  BY <1>1 DEF Replay, Accept, Resolve, RejectDestination, VersionConflict
<1>2. CASE PrepareCancel(w) \/ PrepareUpdate(w) \/ PrepareCreate(w)
  BY <1>2 DEF PrepareCancel, PrepareUpdate, PrepareCreate
<1>3. CASE CancelNothing(w) \/ CreateWithoutAudience(w) \/ DuplicateId(w)
           \/ ScheduleUnregistered(w) \/ SaveReceipt(w) \/ LockTimeout(w)
  BY <1>3 DEF CancelNothing, CreateWithoutAudience, DuplicateId, ScheduleUnregistered,
     SaveReceipt, LockTimeout
<1>4. CASE CommitNew(w) \/ CommitVersion(w)
  BY <1>4 DEF CommitNew, CommitVersion
<1>5. CASE Sweep(w) \/ Invalidate(w)
  <2>1. SweepDone(w).msg = task[w].msg /\ SweepDone(w).at = task[w].at
    BY DEF SweepDone
  <2>2. pc[w] # "idle" /\ (task'[w] = SweepDone(w) \/ \E s : task'[w] = [task[w] EXCEPT !.todo = s])
    <3>1. CASE Sweep(w)
      BY <3>1 DEF Sweep
    <3>2. CASE Invalidate(w)
      <4>1. pc[w] # "idle"
        BY <3>2 DEF Invalidate
      <4>2. PICK r \in task[w].todo :
              \/ task' = [task EXCEPT ![w] = SweepDone(w)]
              \/ task' = [task EXCEPT ![w] = [task[w] EXCEPT !.todo = task[w].todo \ {r}]]
        BY <3>2, Zenon DEF Invalidate
      <4>3. DOMAIN task = Workers
        BY <1>0
      <4> HIDE DEF TypeOK, Task, Step, Abandon
      <4>4. task'[w] = SweepDone(w) \/ task'[w] = [task[w] EXCEPT !.todo = task[w].todo \ {r}]
        BY <4>2, <4>3
      <4> QED
        BY <4>1, <4>4, Zenon
    <3> QED
      BY <1>5, <3>1, <3>2, Zenon
  <2> QED
    BY <2>1, <2>2
<1>6. CASE Schedule(w)
  BY <1>6 DEF Schedule
<1> QED
  BY <1>1, <1>2, <1>3, <1>4, <1>5, <1>6 DEF Work

\* A receipt is saved for the message in hand alone, and the call is over.
LEMMA SaveEffect ==
  ASSUME IInv, NEW w \in Workers, SaveReceipt(w)
  PROVE  /\ pc[w] = "receipt" /\ pc'[w] = "idle" /\ task[w].msg \in Messages
         /\ task'[w] = NoTask
         /\ receipts'[task[w].msg] =
              [at |-> task[w].at, hash |-> Hash(Intent(w)), result |-> task[w].reply]
         /\ \A m \in Messages \ {task[w].msg} : receipts'[m] = receipts[m]
         /\ UNCHANGED <<row, log, reminders, targets, sent>> /\ lock' = None
BY DEF SaveReceipt, Abandon, IInv, TypeOK, WorkerOK, InHand, env

LEMMA ReceiptType ==
  ASSUME IInv, NEW w \in Workers, pc[w] = "receipt"
  PROVE  [at |-> task[w].at, hash |-> Hash(Intent(w)), result |-> task[w].reply] \in Receipt
<1>1. task[w].msg \in Messages /\ task[w].reply \in Result /\ task[w].at \in Times
  BY DEF IInv, TypeOK, Task, WorkerOK, InHand
<1>2. Intent(w) \in IntentType
  BY <1>1 DEF Intent, IInv, TypeOK
<1>3. Hash(Intent(w)) \in IntentType
  BY <1>2 DEF Hash, IntentType
<1> QED
  BY <1>1, <1>3 DEF Receipt

-----------------------------------------------------------------------------
(* A receipt stands                                                        *)

LEMMA NextUnanswered ==
  ASSUME One, IInv, \A w \in Workers : Unanswered(w), [Next]_vars
  PROVE  /\ \A w \in Workers : Unanswered(w)'
         /\ \A m \in Messages : receipts[m] # None => receipts'[m] = receipts[m]
<1>1. TypeOK
  BY DEF IInv
<1>2. CASE \E w \in Workers : SaveReceipt(w)
  <2>1. PICK w \in Workers : SaveReceipt(w)
    BY <1>2
  <2>2. pc[w] = "receipt" /\ pc'[w] = "idle" /\ \A m \in Messages \ {task[w].msg} : receipts'[m] = receipts[m]
    BY <2>1, SaveEffect
  <2>3. receipts[task[w].msg] = None
    BY <2>2 DEF Unanswered
  <2>4. \A u \in Workers : u = w
    BY DEF One
  <2> QED
    BY <2>2, <2>3, <2>4 DEF Unanswered
<1>3. CASE receipts' = receipts
  <2> SUFFICES ASSUME NEW u \in Workers, pc'[u] # "idle" PROVE receipts[task'[u].msg] = None
    BY <1>3 DEF Unanswered
  <2>1. ASSUME NEW w \in Workers, Work(w) PROVE receipts[task'[u].msg] = None
    BY <2>1, CallKept DEF One, Unanswered
  <2>2. ASSUME NEW w \in Workers, Crash(w) PROVE FALSE
    BY <1>1, <2>2 DEF Crash, Abandon, TypeOK, One
  <2>3. ASSUME NEW w \in Workers, NEW m \in Messages, Deliver(w, m)
        PROVE  receipts[task'[u].msg] = None
    <3>1. task'[w].msg = m
      BY <1>1, <2>3 DEF Deliver, TypeOK, Task
    <3> QED
      BY <2>3, <3>1 DEF Deliver, One
  <2>4. CASE UNCHANGED <<pc, task>>
    BY <2>4 DEF Unanswered
  <2> QED
    BY <2>1, <2>2, <2>3, <2>4, Zenon DEF Next, RegisterTarget, Tick, vars
<1> QED
  BY <1>2, <1>3, OnlyReceiptsSaved

\* With one process a message that was answered keeps its answer for ever
\* (message_receipts; INSERT OR REPLACE finds nothing to replace), though the
\* process may crash and calls may fail.
THEOREM ReceiptsStand ==
  ASSUME One
  PROVE  Spec => ReceiptStable
<1> DEFINE U == \A w \in Workers : Unanswered(w)
           A == \A m \in Messages : receipts[m] # None => receipts'[m] = receipts[m]
<1>1. Init => U
  BY DEF Init, Unanswered
<1>2. IInv /\ U /\ [Next]_vars => U' /\ A
  BY NextUnanswered
<1> HIDE DEF U, A
<1>3. Spec => [][A]_vars
  BY <1>1, <1>2, InductiveInvariant, PTL DEF Spec
<1> QED
  BY <1>3 DEF ReceiptStable, A

-----------------------------------------------------------------------------
(* Frames                                                                  *)

Whole == IInv /\ ReminderOfVersion /\ Answers /\ Alone

LEMMA NoFailure ==
  ASSUME Serial, Whole, crashes' = 0, NEW w \in Workers
  PROVE  ~ ScheduleUnregistered(w) /\ ~ LockTimeout(w) /\ ~ Crash(w)
<1>1. lock = None /\ \A p \in Recipients : targets[p] # "absent"
  BY DEF Whole, Alone, Smooth
<1>2. NextUp(w) \subseteq Recipients
  BY DEF NextUp, Whole, IInv, TypeOK, Task
<1>3. ~ ScheduleUnregistered(w)
  BY <1>1, <1>2 DEF ScheduleUnregistered
<1>4. ~ LockTimeout(w)
  BY <1>1 DEF LockTimeout, CanWrite
<1>5. ~ Crash(w)
  BY DEF Crash, Whole, IInv, TypeOK
<1> QED
  BY <1>3, <1>4, <1>5

\* Only the steps of calls take the lock, and give it back.
LEMMA NextSmooth ==
  ASSUME Serial, Whole, [Next]_vars, crashes' = 0
  PROVE  Smooth'
<1>1. Smooth /\ IInv
  BY DEF Whole, Alone
<1>2. ASSUME NEW w \in Workers, Work(w) PROVE UNCHANGED targets /\ lock' \in {lock, None}
  <2>1. CASE Early(w)
    BY <1>1, <2>1, EarlyEffect
  <2>2. CASE CommitNew(w) \/ CommitVersion(w)
    BY <2>2 DEF CommitNew, CommitVersion, Commit
  <2>3. CASE Sweep(w) \/ Invalidate(w) \/ Schedule(w) \/ SaveReceipt(w)
    BY <2>3 DEF Sweep, Invalidate, Schedule, SaveReceipt, db
  <2> QED
    BY <1>2, <2>1, <2>2, <2>3, NoFailure DEF Work, Early
<1>3. ASSUME NEW w \in Workers, NEW m \in Messages, Deliver(w, m)
      PROVE  UNCHANGED targets /\ lock' \in {lock, None}
  BY <1>3 DEF Deliver, db
<1>4. ASSUME NEW p \in Recipients, NEW st \in {"no_tz", "ok"}, RegisterTarget(p, st) PROVE Smooth'
  BY <1>1, <1>4 DEF RegisterTarget, Smooth, IInv, TypeOK
<1>5. CASE UNCHANGED targets /\ lock' \in {lock, None}
  BY <1>1, <1>5 DEF Smooth
<1> QED
  BY <1>2, <1>3, <1>4, <1>5, NoFailure DEF Next, Tick, vars, db

\* What the events and their versions say stays, when they stay.
LEMMA LogKept ==
  ASSUME Whole, UNCHANGED <<row, log, sent>>
  PROVE  SourceOnce' /\ Apart'
BY DEF Whole, Alone, SourceOnce, Apart, Hash, Beyond

\* What the reminders say stays, before the commit and after the last reminder.
LEMMA RemindersKept ==
  ASSUME Whole, UNCHANGED <<row, log, reminders>>,
         \A w \in Workers : pc[w] \notin Post /\ pc'[w] \notin Post
  PROVE  NewestLive' /\ Swept' /\ Covered'
<1>1. NewestLive'
  BY DEF Whole, Alone, NewestLive
<1>2. Swept'
  <2>1. \A r, v : ~ Condemned(r, v)
    BY DEF Condemned, Post
  <2> QED
    BY <2>1 DEF Whole, Alone, Swept
<1>3. Covered'
  <2>1. \A e, p : ~ Awaited(e, p)
    BY DEF Awaited, Post
  <2> QED
    BY <2>1 DEF Whole, Alone, Covered, Known, Latest, Reminded
<1> QED
  BY <1>1, <1>2, <1>3

\* Up to the commit every version there is has been answered for.
LEMMA AllDone ==
  ASSUME One, Whole, NEW w \in Workers, pc[w] \in Uncommitted \cup {"idle"},
         NEW e \in EventIds, NEW v \in 1 .. Len(log[e])
  PROVE  Done(log[e][v])
<1>1. \A u \in Workers : ~ Doing(u, log[e][v])
  BY DEF Doing, One, Uncommitted, Post
<1> QED
  BY <1>1 DEF Whole, Alone, Accounted

-----------------------------------------------------------------------------
(* Steps that write no version and no reminder                             *)

LEMMA EarlyAlone ==
  ASSUME Serial, Whole, NEW w \in Workers, Early(w)
  PROVE  /\ Fresh(w)' /\ Current(w)' /\ Accounted'
         /\ SourceOnce' /\ Apart'
         /\ NewestLive' /\ Swept' /\ Covered'
<1>1. /\ pc[w] \in Uncommitted
      /\ pc'[w] \in Uncommitted \cup {"idle", "receipt"}
      /\ UNCHANGED <<row, log, reminders, receipts, targets, sent>>
      /\ IInv /\ TypeOK /\ One /\ Work(w)
  BY EarlyEffect DEF Whole, IInv, Serial, Work, Early
<1>2. \A u \in Workers : u = w
  BY <1>1 DEF One
<1>3. SourceOnce' /\ Apart'
  BY <1>1, LogKept
<1>4. NewestLive' /\ Swept' /\ Covered'
  BY <1>1, <1>2, RemindersKept DEF Uncommitted, Post
<1>5. Accounted'
  BY <1>1, AllDone DEF Accounted, Done
<1>6. Current(w)'
  BY <1>1 DEF Current, Uncommitted, Post
<1>7. Fresh(w)'
  <2>1. ASSUME pc'[w] \in {"resolve", "prepare", "commit"} PROVE Recent(w)' = {}
    <3>1. Recent(w) = {}
      <4>1. CASE pc[w] = "lookup"
        BY <1>1, <2>1, <4>1 DEF Early, Replay, Accept, Resolve, CancelNothing, PrepareCancel, PrepareUpdate,
           PrepareCreate, CreateWithoutAudience, RejectDestination, DuplicateId, VersionConflict,
           Step, TypeOK
      <4>2. CASE pc[w] # "lookup"
        BY <1>1, <4>2 DEF Uncommitted, Fresh, Whole, Alone
      <4> QED
        BY <4>1, <4>2
    <3>2. task'[w].msg = task[w].msg /\ task'[w].at = task[w].at
      BY <1>1, <2>1, CallKept
    <3> QED
      BY <1>1, <3>1, <3>2 DEF Recent, Intent
  <2> QED
    BY <2>1 DEF Fresh
<1> QED
  BY <1>3, <1>4, <1>5, <1>6, <1>7

LEMMA DeliverAlone ==
  ASSUME Serial, Whole, NEW w \in Workers, NEW m \in Messages, Deliver(w, m)
  PROVE  /\ Fresh(w)' /\ Current(w)' /\ Accounted'
         /\ SourceOnce' /\ Apart'
         /\ NewestLive' /\ Swept' /\ Covered'
<1>1. /\ pc[w] = "idle" /\ pc'[w] = "lookup"
      /\ UNCHANGED <<row, log, reminders, receipts, sent>>
      /\ One
  BY DEF Deliver, Step, db, Whole, IInv, TypeOK, Serial
<1>2. \A u \in Workers : u = w
  BY <1>1 DEF One
<1>3. NewestLive' /\ Swept' /\ Covered'
  BY <1>1, <1>2, RemindersKept DEF Post
<1>4. Accounted'
  BY <1>1, AllDone DEF Accounted, Done
<1> QED
  BY <1>1, <1>3, <1>4, LogKept DEF Fresh, Current, Post

\* An answer "ok" makes the message answered the one that is accounted for.
LEMMA SaveAlone ==
  ASSUME Serial, Whole, NEW w \in Workers, SaveReceipt(w)
  PROVE  /\ Fresh(w)' /\ Current(w)' /\ Accounted'
         /\ SourceOnce' /\ Apart'
         /\ NewestLive' /\ Swept' /\ Covered'
<1> DEFINE m == task[w].msg
<1>1. /\ pc[w] = "receipt" /\ pc'[w] = "idle" /\ m \in Messages
      /\ receipts'[m] = [at |-> task[w].at, hash |-> Hash(Intent(w)), result |-> task[w].reply]
      /\ \A o \in Messages \ {m} : receipts'[o] = receipts[o]
      /\ UNCHANGED <<row, log, reminders, sent>>
  BY SaveEffect DEF Whole
<1>2. \A u \in Workers : u = w
  BY DEF One, Serial
<1>3. NewestLive' /\ Swept' /\ Covered'
  BY <1>1, <1>2, RemindersKept DEF Post
<1>4. Accounted'
  <2> SUFFICES ASSUME NEW e \in EventIds, NEW v \in 1 .. Len(log[e]) PROVE Done(log[e][v])'
    BY <1>1 DEF Accounted
  <2> DEFINE c == log[e][v]
  <2>1. c.source \in Messages
    <3>1. log[e] \in Seq(Content)
      BY DEF Whole, IInv, TypeOK
    <3>2. c \in Content
      BY <3>1, ElementOfSeq
    <3> QED
      BY <3>2 DEF Content
  <2>2. receipts[m] = None
    BY <1>1 DEF Whole, Alone, Unanswered
  <2>3. Done(c) \/ Doing(w, c)
    BY <1>2 DEF Whole, Alone, Accounted
  <2>4. CASE c.source # m
    <3>1. Done(c)
      BY <2>3, <2>4 DEF Doing
    <3> QED
      BY <1>1, <2>1, <2>4, <3>1 DEF Done
  <2>5. CASE c.source = m
    <3>1. task[w].at = c.at /\ task[w].reply.status = "ok"
      BY <1>1, <2>2, <2>3, <2>5 DEF Done, Doing, Post
    <3>2. receipts'[m] # None
      <4>1. receipts'[m] \in Receipt
        BY <1>1, ReceiptType DEF Whole
      <4> QED
        BY <4>1, NoneAssumption
    <3> QED
      BY <1>1, <2>5, <3>1, <3>2 DEF Done
  <2> QED
    BY <2>4, <2>5
<1> QED
  BY <1>1, <1>3, <1>4, LogKept DEF Fresh, Current, Post

\* Time and the registry change nothing of it.
LEMMA RestAlone ==
  ASSUME Whole, Smooth', UNCHANGED <<row, log, reminders, receipts, pc, task, sent>>
  PROVE  Alone'
<1>1. \A w \in Workers : Unanswered(w)' /\ Fresh(w)' /\ Current(w)'
  BY DEF Whole, Alone, Unanswered, Fresh, Current, Recent, Intent, Known
<1>2. Accounted'
  BY DEF Whole, Alone, Accounted, Done, Doing
<1>3. NewestLive'
  BY DEF Whole, Alone, NewestLive
<1>4. Swept'
  BY DEF Whole, Alone, Swept, Condemned
<1>5. Covered'
  BY DEF Whole, Alone, Covered, Reminded, Awaited, Known, Latest
<1> QED
  BY <1>1, <1>2, <1>3, <1>4, <1>5, LogKept DEF Alone

-----------------------------------------------------------------------------
(* The commit                                                              *)

\* The version committed, and the versions that were there.
LEMMA CommitCells ==
  ASSUME Whole, NEW w \in Workers, CommitNew(w) \/ CommitVersion(w)
  PROVE  LET e == task[w].target
             d == task[w].draft
         IN
         /\ e \in EventIds /\ d.version \in Nat \ {0} /\ d.version = Len(log[e]) + 1
         /\ row'[e] = [version |-> d.version, status |-> d.status]
         /\ Len(log'[e]) = d.version /\ log'[e][d.version] = d.content
         /\ \A v \in 1 .. Len(log[e]) : log'[e][v] = log[e][v]
         /\ \A f \in EventIds \ {e} : row'[f] = row[f] /\ log'[f] = log[f]
<1> DEFINE e == task[w].target
           d == task[w].draft
<1>1. /\ Drafted(w)
      /\ d.version = Len(log[e]) + 1
      /\ row' = [row EXCEPT ![e] = [version |-> d.version, status |-> d.status]]
      /\ log' = [log EXCEPT ![e] = Append(log[e], d.content)]
  BY CommitEffect DEF Whole
<1>2. TypeOK /\ e \in EventIds /\ d \in Draft
  BY <1>1 DEF Whole, IInv, Drafted
<1>3. log[e] \in Seq(Content) /\ d.content \in Content
  BY <1>2 DEF TypeOK, Draft
<1>4. /\ row'[e] = [version |-> d.version, status |-> d.status]
      /\ log'[e] = Append(log[e], d.content)
      /\ \A f \in EventIds \ {e} : row'[f] = row[f] /\ log'[f] = log[f]
  <2>1. DOMAIN row = EventIds /\ DOMAIN log = EventIds
    BY <1>2 DEF TypeOK
  <2> HIDE DEF d, e
  <2>2. /\ row'[e] = [version |-> d.version, status |-> d.status]
        /\ log'[e] = Append(log[e], d.content)
    BY <1>1, <1>2, <2>1
  <2>3. \A f \in EventIds \ {e} : row'[f] = row[f] /\ log'[f] = log[f]
    BY <1>1, <1>2, <2>1
  <2> QED
    BY <2>2, <2>3
<1>5. /\ Len(log[e]) \in Nat
      /\ Len(Append(log[e], d.content)) = Len(log[e]) + 1
      /\ Append(log[e], d.content)[Len(log[e]) + 1] = d.content
      /\ \A v \in 1 .. Len(log[e]) : Append(log[e], d.content)[v] = log[e][v]
  BY <1>3
<1>6. d.version \in Nat \ {0}
  BY <1>1, <1>2, <1>5 DEF Draft
<1>7. Len(log'[e]) = d.version /\ log'[e][d.version] = d.content
  <2> HIDE DEF d, e
  <2> QED
    BY <1>1, <1>4, <1>5
<1>8. \A v \in 1 .. Len(log[e]) : log'[e][v] = log[e][v]
  <2> HIDE DEF d, e
  <2> QED
    BY <1>4, <1>5
<1> QED
  BY <1>1, <1>2, <1>4, <1>6, <1>7, <1>8, Zenon

\* What a commit does to the call.
LEMMA CommitCall ==
  ASSUME Whole, NEW w \in Workers, CommitNew(w) \/ CommitVersion(w)
  PROVE  LET d == task[w].draft IN
         /\ pc[w] = "commit" /\ task[w].msg \in Messages
         /\ UNCHANGED <<reminders, receipts, sent>>
         /\ task'[w].msg = task[w].msg /\ task'[w].at = task[w].at
         /\ task'[w].target = task[w].target /\ task'[w].draft = d
         /\ \/ d.version # 1 /\ pc'[w] = "sweep"
            \/ d.version = 1 /\ pc'[w] = "schedule" /\ task'[w].pending = d.content.audience
<1>1. TypeOK /\ task[w] \in Task
  BY DEF Whole, IInv, TypeOK
<1>2. task[w].msg \in Messages
  BY CommitEffect DEF Whole, InHand
<1>3. CASE CommitNew(w)
  BY <1>1, <1>2, <1>3 DEF CommitNew, Step, TypeOK, Task, env, IsNew
<1>4. CASE CommitVersion(w)
  BY <1>1, <1>2, <1>4 DEF CommitVersion, Step, TypeOK, env, IsNew
<1> QED
  BY <1>3, <1>4

LEMMA KnownLog ==
  ASSUME IInv, NEW e \in EventIds
  PROVE  row[e].version = Len(log[e]) /\ row[e].version \in Nat /\ (e \in Known <=> row[e].version > 0)
BY DEF IInv, VersionsContiguous, TypeOK, Row, Known

\* The new version is accounted for by its call, and no other is of its message.
LEMMA CommitLog ==
  ASSUME Serial, Whole, NEW w \in Workers, CommitNew(w) \/ CommitVersion(w)
  PROVE  Accounted' /\ SourceOnce'
<1> DEFINE e == task[w].target
           d == task[w].draft
<1>1. /\ e \in EventIds /\ d.version \in Nat \ {0} /\ d.version = Len(log[e]) + 1
      /\ row'[e] = [version |-> d.version, status |-> d.status]
      /\ Len(log'[e]) = d.version /\ log'[e][d.version] = d.content
      /\ \A v \in 1 .. Len(log[e]) : log'[e][v] = log[e][v]
      /\ \A f \in EventIds \ {e} : row'[f] = row[f] /\ log'[f] = log[f]
  BY CommitCells
<1>2. /\ pc[w] = "commit" /\ task[w].msg \in Messages
      /\ UNCHANGED <<reminders, receipts, sent>>
      /\ task'[w].msg = task[w].msg /\ task'[w].at = task[w].at
      /\ pc'[w] \in Post
  BY CommitCall DEF Post
<1>3. d.content.source = task[w].msg /\ d.content.at = task[w].at
  BY CommitEffect, DraftSource DEF Whole, IInv
<1>4. receipts[task[w].msg] = None
  BY <1>2 DEF Whole, Alone, Unanswered
<1>5. \A f \in EventIds : \A v \in 1 .. Len(log'[f]) :
        \/ v \in 1 .. Len(log[f]) /\ log'[f][v] = log[f][v]
        \/ f = e /\ v = d.version /\ log'[f][v] = d.content
  <2> HIDE DEF d, e
  <2> TAKE f \in EventIds
  <2>1. CASE f = e
    <3>1. Len(log[e]) \in Nat
      BY <1>1 DEF Whole, IInv, TypeOK
    <3>2. \A v \in 1 .. Len(log'[e]) : v \in 1 .. Len(log[e]) \/ v = d.version
      BY <1>1, <3>1
    <3> QED
      BY <1>1, <2>1, <3>2, Zenon
  <2>2. CASE f # e
    BY <1>1, <2>2
  <2> QED
    BY <2>1, <2>2
<1>6. \A f \in EventIds : \A v \in 1 .. Len(log[f]) : Done(log[f][v])
  BY <1>2, AllDone DEF Uncommitted, Serial
<1>7. Accounted'
  <2> SUFFICES ASSUME NEW f \in EventIds, NEW v \in 1 .. Len(log'[f])
               PROVE  Done(log[f][v])' \/ \E u \in Workers : Doing(u, log[f][v])'
    BY DEF Accounted
  <2>1. CASE v \in 1 .. Len(log[f]) /\ log'[f][v] = log[f][v]
    BY <1>2, <1>6, <2>1 DEF Done
  <2>2. CASE log'[f][v] = d.content
    BY <1>2, <1>3, <2>2 DEF Doing
  <2> QED
    BY <1>5, <2>1, <2>2
<1>8. \A f \in EventIds : \A v \in 1 .. Len(log[f]) : log[f][v].source # task[w].msg
  BY <1>4, <1>6 DEF Done
<1>9. SourceOnce'
  <2> SUFFICES ASSUME NEW f \in EventIds, NEW g \in EventIds,
                      NEW v \in 1 .. Len(log'[f]), NEW u \in 1 .. Len(log'[g]),
                      log'[f][v].source = log'[g][u].source
               PROVE  f = g /\ v = u
    BY DEF SourceOnce
  <2>1. CASE v \in 1 .. Len(log[f]) /\ log'[f][v] = log[f][v]
    <3>1. u \in 1 .. Len(log[g]) /\ log'[g][u] = log[g][u]
      <4>1. log'[g][u].source # task[w].msg
        BY <1>8, <2>1, Zenon
      <4> QED
        BY <1>3, <1>5, <4>1, Zenon
    <3> QED
      BY <2>1, <3>1 DEF Whole, Alone, SourceOnce
  <2>2. CASE f = e /\ v = d.version /\ log'[f][v] = d.content
    <3>1. g = e /\ u = d.version
      <4>1. log'[g][u].source = task[w].msg
        BY <1>3, <2>2
      <4>2. ~ (u \in 1 .. Len(log[g]) /\ log'[g][u] = log[g][u])
        BY <1>8, <4>1, Zenon
      <4> QED
        BY <1>5, <4>2, Zenon
    <3> QED
      BY <2>2, <3>1
  <2> QED
    BY <1>5, <2>1, <2>2
<1> QED
  BY <1>7, <1>9

\* A version is made only if those that another message made with the same words,
\* if there are any, were asked for longer ago than the window.
LEMMA CommitApart ==
  ASSUME Serial, Whole, NEW w \in Workers, CommitNew(w) \/ CommitVersion(w)
  PROVE  Apart'
<1> DEFINE e == task[w].target
           d == task[w].draft
<1>1. /\ e \in EventIds /\ d.version \in Nat \ {0} /\ d.version = Len(log[e]) + 1
      /\ Len(log'[e]) = d.version /\ log'[e][d.version] = d.content
      /\ \A v \in 1 .. Len(log[e]) : log'[e][v] = log[e][v]
      /\ \A f \in EventIds \ {e} : log'[f] = log[f]
  BY CommitCells
<1>2. /\ pc[w] = "commit" /\ task[w].msg \in Messages
      /\ UNCHANGED <<reminders, receipts, sent>>
  BY CommitCall
<1>3. d.content.source = task[w].msg /\ d.content.at = task[w].at
  BY CommitEffect, DraftSource DEF Whole, IInv
<1>4. Recent(w) = {}
  BY <1>2 DEF Whole, Alone, Fresh
<1>5. \A f \in EventIds : \A v \in 1 .. Len(log'[f]) :
        \/ v \in 1 .. Len(log[f]) /\ log'[f][v] = log[f][v]
        \/ f = e /\ v = d.version /\ log'[f][v] = d.content
  <2> HIDE DEF d, e
  <2> TAKE f \in EventIds
  <2>1. CASE f = e
    <3>1. Len(log[e]) \in Nat
      BY <1>1 DEF Whole, IInv, TypeOK
    <3>2. \A v \in 1 .. Len(log'[e]) : v \in 1 .. Len(log[e]) \/ v = d.version
      BY <1>1, <3>1
    <3> QED
      BY <1>1, <2>1, <3>2, Zenon
  <2>2. CASE f # e
    BY <1>1, <2>2
  <2> QED
    BY <2>1, <2>2
<1>6. ASSUME NEW f \in EventIds, NEW v \in 1 .. Len(log[f]),
             Hash(sent[log[f][v].source]) = Hash(sent[d.content.source])
      PROVE  Beyond(d.content.at, log[f][v].at) /\ Beyond(log[f][v].at, d.content.at)
  <2> DEFINE s == log[f][v].source
  <2>1. Done(log[f][v])
    BY <1>2, AllDone DEF Uncommitted, Serial
  <2>2. s \in Messages
    <3>1. log[f] \in Seq(Content)
      BY DEF Whole, IInv, TypeOK
    <3>2. log[f][v] \in Content
      BY <3>1, ElementOfSeq
    <3> QED
      BY <3>2 DEF Content
  <2>3. receipts[s].hash = Hash(sent[s])
    BY <2>1, <2>2 DEF Whole, Answers, Receipted, Done
  <2>4. ~ (receipts[s].at >= task[w].at - Window)
    BY <1>3, <1>4, <1>6, <2>1, <2>2, <2>3 DEF Recent, Done, Intent
  <2>5. receipts[s].at \in Int /\ task[w].at \in Int
    BY <2>1, <2>2 DEF Done, Whole, IInv, TypeOK, Receipt, Task, Times
  <2>6. receipts[s].at = log[f][v].at
    BY <2>1 DEF Done
  <2>7. d.content.at > log[f][v].at + Window
    BY <1>3, <2>4, <2>5, <2>6, ConstantsAssumption
  <2> QED
    BY <2>7 DEF Beyond
<1> SUFFICES ASSUME NEW f \in EventIds, NEW g \in EventIds,
                    NEW v \in 1 .. Len(log'[f]), NEW u \in 1 .. Len(log'[g]),
                    log'[f][v].source # log'[g][u].source,
                    Hash(sent[log'[f][v].source]) = Hash(sent[log'[g][u].source])
             PROVE  Beyond(log'[f][v].at, log'[g][u].at)
  BY <1>2 DEF Apart, Beyond, Hash
<1> HIDE DEF d, e
<1>7. CASE v \in 1 .. Len(log[f]) /\ log'[f][v] = log[f][v]
  <2>1. CASE u \in 1 .. Len(log[g]) /\ log'[g][u] = log[g][u]
    BY <1>7, <2>1 DEF Whole, Alone, Apart
  <2>2. CASE log'[g][u] = d.content
    BY <1>6, <1>7, <2>2
  <2> QED
    BY <1>5, <2>1, <2>2
<1>8. CASE log'[f][v] = d.content
  <2>1. u \in 1 .. Len(log[g]) /\ log'[g][u] = log[g][u]
    <3>1. log'[g][u] # d.content
      BY <1>8
    <3> QED
      BY <1>5, <3>1
  <2> QED
    BY <1>6, <1>8, <2>1
<1> QED
  BY <1>5, <1>7, <1>8

\* The call owes what the new version supersedes, and what it calls for.
LEMMA CommitReminders ==
  ASSUME Serial, Whole, NEW w \in Workers, CommitNew(w) \/ CommitVersion(w)
  PROVE  NewestLive' /\ Swept' /\ Covered'
<1> DEFINE e == task[w].target
           d == task[w].draft
<1>1. /\ e \in EventIds /\ d.version \in Nat \ {0} /\ d.version = Len(log[e]) + 1
      /\ row'[e] = [version |-> d.version, status |-> d.status]
      /\ Len(log'[e]) = d.version /\ log'[e][d.version] = d.content
      /\ \A v \in 1 .. Len(log[e]) : log'[e][v] = log[e][v]
      /\ \A f \in EventIds \ {e} : row'[f] = row[f] /\ log'[f] = log[f]
  BY CommitCells
<1>2. /\ pc[w] = "commit"
      /\ UNCHANGED reminders
      /\ task'[w].target = task[w].target /\ task'[w].draft = d
      /\ \/ d.version # 1 /\ pc'[w] = "sweep"
         \/ d.version = 1 /\ pc'[w] = "schedule" /\ task'[w].pending = d.content.audience
  BY CommitCall
<1>3. \A u \in Workers : u = w
  BY DEF Serial, One
<1>4. \A r \in reminders : /\ r \in Reminder /\ r.event \in EventIds
                           /\ r.version \in 1 .. Len(log[r.event])
                           /\ row[r.event].version = Len(log[r.event])
  BY KnownLog DEF Whole, ReminderOfVersion, IInv, TypeOK, Reminder
<1>5. Len(log[e]) \in Nat /\ row[e].version = Len(log[e])
  BY <1>1, KnownLog DEF Whole
<1>6. NewestLive'
  <2> SUFFICES ASSUME NEW r \in reminders, r.version = row'[r.event].version
               PROVE  r.status \in {"scheduled", "blocked"}
    BY <1>2 DEF NewestLive
  <2>1. r.event # e
    BY <1>1, <1>4, <1>5
  <2> QED
    BY <1>1, <1>4, <2>1 DEF Whole, Alone, NewestLive
<1>7. Swept'
  <2> SUFFICES ASSUME NEW r \in reminders, r.status = "scheduled",
                      NEW v \in r.version + 1 .. row'[r.event].version
               PROVE  r.trigger <= log'[r.event][v].at \/ Condemned(r, v)'
    BY <1>2 DEF Swept
  <2>1. ~ Condemned(r, v)
    BY <1>2, <1>3 DEF Condemned
  <2>2. CASE v \in r.version + 1 .. row[r.event].version
    <3>1. r.trigger <= log[r.event][v].at
      BY <2>1, <2>2 DEF Whole, Alone, Swept
    <3>2. log'[r.event][v] = log[r.event][v]
      <4>1. v \in 1 .. Len(log[r.event])
        BY <1>4, <2>2
      <4> QED
        BY <1>1, <1>4, <4>1
    <3> QED
      BY <3>1, <3>2
  <2>3. CASE v \notin r.version + 1 .. row[r.event].version
    <3>1. r.event = e /\ v = d.version
      <4>1. r.event = e
        BY <1>1, <1>4, <2>3
      <4> QED
        BY <1>1, <1>4, <1>5, <2>3, <4>1
    <3>2. d.version # 1
      BY <1>1, <1>4, <1>5, <3>1
    <3> QED
      BY <1>2, <3>1, <3>2 DEF Condemned
  <2> QED
    BY <2>2, <2>3
<1>8. Covered'
  <2> SUFFICES ASSUME NEW f \in Known', row'[f].status = "active",
                      NEW p \in log'[f][row'[f].version].audience
               PROVE  Reminded(f, p)' \/ Awaited(f, p)'
    BY DEF Covered, Latest
  <2>1. CASE f = e
    <3>1. p \in d.content.audience
      <4>1. row'[f].version = d.version
        <5> HIDE DEF d, e
        <5> QED
          BY <1>1, <2>1
      <4>2. log'[f][d.version] = d.content
        <5> HIDE DEF d, e
        <5> QED
          BY <1>1, <2>1
      <4> QED
        BY <4>1, <4>2
    <3> QED
      BY <1>2, <2>1, <3>1 DEF Awaited
  <2>2. CASE f # e
    <3>1. f \in EventIds /\ row'[f] = row[f] /\ log'[f] = log[f]
      BY <1>1, <2>2 DEF Known
    <3>2. f \in Known /\ p \in Latest(f).audience /\ row[f].status = "active"
      BY <3>1 DEF Known, Latest
    <3>3. ~ Awaited(f, p)
      BY <1>2, <1>3 DEF Awaited
    <3> QED
      BY <1>2, <3>1, <3>2, <3>3 DEF Reminded, Whole, Alone, Covered
  <2> QED
    BY <2>1, <2>2
<1> QED
  BY <1>6, <1>7, <1>8

LEMMA CommitAlone ==
  ASSUME Serial, Whole, NEW w \in Workers, CommitNew(w) \/ CommitVersion(w)
  PROVE  /\ Fresh(w)' /\ Current(w)' /\ Accounted'
         /\ SourceOnce' /\ Apart'
         /\ NewestLive' /\ Swept' /\ Covered'
<1>1. Fresh(w)'
  BY CommitCall DEF Fresh
<1>2. Current(w)'
  <2>1. task[w].draft.content.at = task[w].at
    BY CommitEffect, DraftSource DEF Whole, IInv
  <2>2. /\ task'[w].target = task[w].target /\ task'[w].draft = task[w].draft
        /\ task'[w].at = task[w].at /\ pc'[w] # "invalidate"
    BY CommitCall
  <2>3. row'[task[w].target] = [version |-> task[w].draft.version, status |-> task[w].draft.status]
    BY CommitCells
  <2> QED
    BY <2>1, <2>2, <2>3 DEF Current
<1> QED
  BY <1>1, <1>2, CommitLog, CommitApart, CommitReminders

-----------------------------------------------------------------------------
(* The reminders                                                           *)

\* What is known of a call after its commit.
LEMMA PostFacts ==
  ASSUME Whole, NEW w \in Workers, pc[w] \in Post
  PROVE  LET e == task[w].target
             d == task[w].draft
         IN
         /\ e \in EventIds /\ d \in Draft /\ d.version = row[e].version /\ d.status = row[e].status
         /\ Latest(e) = d.content /\ d.content = log[e][d.version] /\ d.content.at = task[w].at
         /\ d.version \in Nat
BY DEF Whole, Alone, Current, IInv, WorkerOK, Committed, Post, Latest, Draft

\* The ways on from the reminders: further ones, or the answer "ok".
Onward(w) ==
  /\ task'[w].msg = task[w].msg /\ task'[w].at = task[w].at
  /\ task'[w].target = task[w].target /\ task'[w].draft = task[w].draft
  /\ pc'[w] \in Post \/ (pc'[w] = "receipt" /\ task'[w].reply = OkReply(w))

\* Where the sweep leaves off.
SweptOut(w) ==
  \/ /\ task[w].draft.status = "cancelled"
     /\ pc'[w] = "receipt"
  \/ /\ task[w].draft.status # "cancelled"
     /\ pc'[w] = "schedule" /\ task'[w].pending = task[w].draft.content.audience

LEMMA SweptOutEffect ==
  ASSUME IInv, NEW w \in Workers, pc'[w] = AfterSweep(w), task'[w] = SweepDone(w)
  PROVE  Onward(w) /\ SweptOut(w)
<1>1. task[w] \in Task
  BY DEF IInv, TypeOK
<1>2. /\ task'[w].msg = task[w].msg /\ task'[w].at = task[w].at
      /\ task'[w].target = task[w].target /\ task'[w].draft = task[w].draft
      /\ task'[w].pending = IF task[w].draft.status = "cancelled" THEN {}
                            ELSE task[w].draft.content.audience
      /\ task[w].draft.status = "cancelled" => task'[w].reply = OkReply(w)
  BY <1>1 DEF SweepDone, Task
<1> QED
  BY <1>2 DEF Onward, SweptOut, AfterSweep, Post

\* The version in hand stays accounted for, and the versions stay.
LEMMA OnwardKeeps ==
  ASSUME Serial, Whole, NEW w \in Workers, pc[w] \in Post, Onward(w),
         UNCHANGED <<row, log, receipts, sent>>,
         pc'[w] = "invalidate" => \A r \in task'[w].todo :
           r.event = task[w].target /\ r.version < task[w].draft.version
  PROVE  /\ Fresh(w)' /\ Current(w)' /\ Accounted'
         /\ SourceOnce' /\ Apart'
<1>1. Fresh(w)'
  BY DEF Fresh, Onward, Post
<1>2. Current(w)'
  BY PostFacts DEF Current, Onward
<1>3. OkReply(w).status = "ok"
  BY DEF OkReply, Reply
<1>4. Accounted'
  <2> SUFFICES ASSUME NEW e \in EventIds, NEW v \in 1 .. Len(log[e])
               PROVE  Done(log[e][v])' \/ \E u \in Workers : Doing(u, log[e][v])'
    BY DEF Accounted
  <2>1. CASE Done(log[e][v])
    BY <2>1 DEF Done
  <2>2. CASE Doing(w, log[e][v])
    BY <1>3, <2>2 DEF Doing, Onward
  <2> QED
    BY <2>1, <2>2 DEF Whole, Alone, Accounted, Serial, One
<1> QED
  BY <1>1, <1>2, <1>4, LogKept

\* A step of the sweep: the rows in left are still to be invalidated, all others
\* that it scheduled are of other events, newer or overdue, and the newest stay.
LEMMA SweepingKeeps ==
  ASSUME Serial, Whole, NEW w \in Workers, pc[w] \in {"sweep", "invalidate"}, Onward(w),
         NEW left,
         left = {} => SweptOut(w),
         left # {} => pc'[w] = "invalidate" /\ task'[w].todo = left,
         UNCHANGED <<row, log, receipts, sent>>,
         \A s \in left : s.event = task[w].target /\ s.version < task[w].draft.version,
         \A s \in reminders' : s.status = "scheduled" =>
           /\ s \in reminders
           /\ s.event = task[w].target /\ s.version < task[w].draft.version =>
                s \in left \/ s.trigger <= task[w].at,
         \A s \in reminders \cup reminders' :
           s.version = row[s.event].version => s \in reminders /\ s \in reminders'
  PROVE  /\ Fresh(w)' /\ Current(w)' /\ Accounted'
         /\ SourceOnce' /\ Apart'
         /\ NewestLive' /\ Swept' /\ Covered'
<1> DEFINE e == task[w].target
           d == task[w].draft
<1>1. /\ e \in EventIds /\ d \in Draft /\ d.version = row[e].version /\ d.status = row[e].status
      /\ Latest(e) = d.content /\ d.content = log[e][d.version] /\ d.content.at = task[w].at
      /\ d.version \in Nat
  BY PostFacts DEF Post
<1>2. \A u \in Workers : u = w
  BY DEF Serial, One
<1>3. pc'[w] = "invalidate" => task'[w].todo = left
  BY DEF SweptOut
<1>4. /\ Fresh(w)' /\ Current(w)' /\ Accounted'
      /\ SourceOnce' /\ Apart'
  BY <1>3, OnwardKeeps DEF Post
<1>5. NewestLive'
  BY DEF Whole, Alone, NewestLive
<1>6. Swept'
  <2> SUFFICES ASSUME NEW s \in reminders', s.status = "scheduled",
                      NEW v \in s.version + 1 .. row[s.event].version
               PROVE  s.trigger <= log[s.event][v].at \/ Condemned(s, v)'
    BY DEF Swept
  <2>1. s \in reminders /\ s \in Reminder /\ row[s.event].version \in Nat
    BY DEF Whole, IInv, TypeOK, Reminder, Row
  <2>2. s.trigger <= log[s.event][v].at \/ Condemned(s, v)
    BY <2>1 DEF Whole, Alone, Swept
  <2>3. CASE Condemned(s, v)
    <3>1. e = s.event /\ v = d.version
      BY <1>2, <2>3 DEF Condemned
    <3>2. s.version < d.version
      BY <2>1, <3>1 DEF Reminder
    <3>3. CASE s \in left
      <4>1. /\ pc'[w] = "invalidate" /\ s \in task'[w].todo
            /\ task'[w].target = s.event /\ task'[w].draft.version = v
        BY <3>1, <3>3 DEF Onward
      <4> QED
        BY <4>1 DEF Condemned
    <3>4. CASE s.trigger <= task[w].at
      BY <1>1, <3>1, <3>4
    <3> QED
      BY <3>1, <3>2, <3>3, <3>4
  <2> QED
    BY <2>2, <2>3
<1>7. Covered'
  <2> SUFFICES ASSUME NEW f \in Known, row[f].status = "active", NEW p \in Latest(f).audience
               PROVE  Reminded(f, p)' \/ Awaited(f, p)'
    BY DEF Covered, Latest, Known
  <2>1. CASE Reminded(f, p)
    BY <2>1 DEF Reminded
  <2>2. CASE Awaited(f, p)
    <3>1. f = e
      BY <1>2, <2>2 DEF Awaited
    <3>2. task'[w].target = f
      BY <3>1 DEF Onward
    <3>3. pc'[w] = "invalidate" \/ (pc'[w] = "schedule" /\ p \in task'[w].pending)
      BY <1>1, <3>1 DEF SweptOut
    <3> QED
      BY <3>2, <3>3 DEF Awaited
  <2> QED
    BY <2>1, <2>2 DEF Whole, Alone, Covered
<1> QED
  BY <1>4, <1>5, <1>6, <1>7

\* The rows that the sweep does not find are overdue, those it finds are listed.
LEMMA SweepAlone ==
  ASSUME Serial, Whole, NEW w \in Workers, Sweep(w)
  PROVE  /\ Fresh(w)' /\ Current(w)' /\ Accounted'
         /\ SourceOnce' /\ Apart'
         /\ NewestLive' /\ Swept' /\ Covered'
<1> DEFINE found == Superseded(task[w].target, task[w].draft.version, task[w].at)
<1>1. /\ pc[w] = "sweep" /\ UNCHANGED <<row, log, reminders, receipts, sent>>
      /\ TypeOK /\ IInv /\ task[w] \in Task
  BY DEF Sweep, Whole, IInv, TypeOK, db, env
<1>2. ASSUME found = {} PROVE Onward(w) /\ SweptOut(w)
  BY <1>1, <1>2, SweptOutEffect DEF Sweep, Step, TypeOK
<1>3. ASSUME found # {} PROVE pc'[w] = "invalidate" /\ task'[w].todo = found /\ Onward(w)
  BY <1>1, <1>3 DEF Sweep, Step, TypeOK, Task, Onward, Post
<1>4. \A s \in found : s.event = task[w].target /\ s.version < task[w].draft.version
  BY DEF Superseded
<1>5. \A s \in reminders :
        s.status = "scheduled" /\ s.event = task[w].target /\ s.version < task[w].draft.version
          => s \in found \/ s.trigger <= task[w].at
  BY <1>1 DEF Superseded, Finished, TypeOK, Reminder, Task, Times
<1>6. Onward(w)
  BY <1>2, <1>3
<1> HIDE DEF found
<1> QED
  BY <1>1, <1>2, <1>3, <1>4, <1>5, <1>6, SweepingKeeps

\* What an update of a row to "invalidated" leaves.
LEMMA OverwriteEffect ==
  ASSUME IInv, ReminderOfVersion, NEW r
  PROVE  /\ \A s \in Overwrite(r, "invalidated") : \E o \in reminders :
              /\ s.event = o.event /\ s.version = o.version /\ s.recipient = o.recipient
              /\ s = o \/ (SameKey(r, o) /\ s.status = "invalidated")
         /\ \A o \in reminders : ~ SameKey(r, o) => o \in Overwrite(r, "invalidated")
BY DEF Overwrite, IInv, TypeOK, Reminder

\* One row less to invalidate, and none of the newest version.
LEMMA InvalidateAlone ==
  ASSUME Serial, Whole, NEW w \in Workers, Invalidate(w)
  PROVE  /\ Fresh(w)' /\ Current(w)' /\ Accounted'
         /\ SourceOnce' /\ Apart'
         /\ NewestLive' /\ Swept' /\ Covered'
<1> DEFINE e == task[w].target
           d == task[w].draft
<1>1. PICK r \in task[w].todo :
        /\ reminders' = Overwrite(r, "invalidated")
        /\ IF task[w].todo = {r}
             THEN /\ Step(w, "invalidate", AfterSweep(w))
                  /\ task' = [task EXCEPT ![w] = SweepDone(w)]
             ELSE /\ Step(w, "invalidate", "invalidate")
                  /\ task' = [task EXCEPT ![w].todo = @ \ {r}]
  BY DEF Invalidate
<1> DEFINE left == task[w].todo \ {r}
<1>2. /\ pc[w] = "invalidate" /\ UNCHANGED <<row, log, receipts, sent>>
      /\ TypeOK /\ IInv /\ task[w] \in Task
  BY DEF Invalidate, Whole, IInv, TypeOK, env
<1>3. ASSUME left = {} PROVE Onward(w) /\ SweptOut(w)
  <2>1. task[w].todo = {r}
    BY <1>3
  <2> QED
    BY <1>1, <1>2, <2>1, SweptOutEffect DEF Step, TypeOK
<1>4. ASSUME left # {} PROVE pc'[w] = "invalidate" /\ task'[w].todo = left /\ Onward(w)
  <2>1. task[w].todo # {r}
    BY <1>4
  <2> QED
    BY <1>1, <1>2, <2>1 DEF Step, TypeOK, Task, Onward, Post
<1>5. \A s \in task[w].todo : s.event = e /\ s.version < d.version
  BY <1>2 DEF Whole, Alone, Current
<1>6. /\ e \in EventIds /\ d.version = row[e].version /\ d.version \in Nat
      /\ d.content = log[e][d.version] /\ d.content.at = task[w].at
  BY <1>2, PostFacts DEF Post
<1>7. /\ \A s \in reminders' : \E o \in reminders :
           /\ s.event = o.event /\ s.version = o.version /\ s.recipient = o.recipient
           /\ s = o \/ (SameKey(r, o) /\ s.status = "invalidated")
      /\ \A o \in reminders : ~ SameKey(r, o) => o \in reminders'
  BY <1>1, OverwriteEffect DEF Whole
<1>8. ASSUME NEW s \in reminders', s.status = "scheduled"
      PROVE  s \in reminders /\ s # r
  <2>1. PICK o \in reminders : s = o \/ (SameKey(r, o) /\ s.status = "invalidated")
    BY <1>7
  <2>2. s = o
    BY <1>8, <2>1
  <2>3. ASSUME s = r PROVE FALSE
    <3>1. r \in reminders /\ r.status = "scheduled"
      BY <1>8, <2>2, <2>3
    <3>2. PICK q \in reminders :
            s = IF SameKey(r, q) THEN [q EXCEPT !.status = "invalidated"] ELSE q
      BY <1>1 DEF Overwrite
    <3>3. SameKey(r, q)
      BY <2>3, <3>2 DEF SameKey
    <3>4. [q EXCEPT !.status = "invalidated"].status = "invalidated"
      BY <1>2 DEF TypeOK, Reminder
    <3> QED
      BY <2>3, <3>1, <3>2, <3>3, <3>4
  <2> QED
    BY <2>2, <2>3
<1>9. ASSUME NEW s \in reminders', s.status = "scheduled", s.event = e, s.version < d.version
      PROVE  s \in left \/ s.trigger <= task[w].at
  <2>1. s \in reminders /\ s # r /\ s \in Reminder
    BY <1>2, <1>8, <1>9 DEF TypeOK
  <2>2. d.version \in s.version + 1 .. row[s.event].version
    BY <1>6, <1>9, <2>1 DEF Reminder
  <2>3. s.trigger <= log[e][d.version].at \/ Condemned(s, d.version)
    BY <1>9, <2>1, <2>2 DEF Whole, Alone, Swept
  <2>4. Condemned(s, d.version) => s \in task[w].todo
    BY <1>2 DEF Condemned, Serial, One
  <2> QED
    BY <1>6, <2>1, <2>3, <2>4
<1>10. ASSUME NEW s \in reminders \cup reminders', s.version = row[s.event].version
       PROVE  s \in reminders /\ s \in reminders'
  <2>1. ~ SameKey(r, s)
    BY <1>5, <1>6, <1>10 DEF SameKey
  <2>2. CASE s \in reminders
    BY <1>7, <2>1, <2>2
  <2>3. CASE s \in reminders'
    <3>1. PICK o \in reminders :
            /\ s.event = o.event /\ s.version = o.version /\ s.recipient = o.recipient
            /\ s = o \/ (SameKey(r, o) /\ s.status = "invalidated")
      BY <1>7, <2>3
    <3>2. ~ SameKey(r, o)
      BY <2>1, <3>1 DEF SameKey
    <3> QED
      BY <2>3, <3>1, <3>2
  <2> QED
    BY <2>2, <2>3
<1>11. Onward(w) /\ \A s \in left : s.event = task[w].target /\ s.version < task[w].draft.version
  BY <1>3, <1>4, <1>5
<1> HIDE DEF left
<1> QED
  BY <1>2, <1>3, <1>4, <1>8, <1>9, <1>10, <1>11, SweepingKeeps

\* The recipient whose turn it is gets the reminder of the newest version.
LEMMA ScheduleAlone ==
  ASSUME Serial, Whole, NEW w \in Workers, Schedule(w)
  PROVE  /\ Fresh(w)' /\ Current(w)' /\ Accounted'
         /\ SourceOnce' /\ Apart'
         /\ NewestLive' /\ Swept' /\ Covered'
<1> DEFINE e == task[w].target
           d == task[w].draft
<1>1. PICK p \in NextUp(w) :
        LET r == NewReminder(w, p)
            old == {s \in reminders : SameKey(r, s)}
        IN
        /\ reminders' = IF old # {} /\ targets[p] = "ok" THEN reminders
                        ELSE (reminders \ old) \cup {r}
        /\ IF task[w].pending = {p}
             THEN /\ Step(w, "schedule", "receipt")
                  /\ task' = [task EXCEPT ![w].pending = {}, ![w].reply = OkReply(w)]
             ELSE /\ Step(w, "schedule", "schedule")
                  /\ task' = [task EXCEPT ![w].pending = @ \ {p}]
  BY DEF Schedule
<1> DEFINE r == NewReminder(w, p)
           old == {s \in reminders : SameKey(r, s)}
<1>2. /\ pc[w] = "schedule" /\ UNCHANGED <<row, log, receipts, sent>>
      /\ TypeOK /\ IInv /\ task[w] \in Task /\ p \in task[w].pending
  BY DEF Schedule, Whole, IInv, TypeOK, env, NextUp
<1>3. \A u \in Workers : u = w
  BY DEF Serial, One
<1>4. /\ e \in EventIds /\ d.version = row[e].version /\ d.version \in Nat
  BY <1>2, PostFacts DEF Post
<1>5. /\ Onward(w)
      /\ pc'[w] \in {"schedule", "receipt"}
      /\ task[w].pending # {p} => pc'[w] = "schedule" /\ task'[w].pending = task[w].pending \ {p}
  <2>1. CASE task[w].pending = {p}
    BY <1>1, <1>2, <2>1 DEF Step, TypeOK, Task, Onward
  <2>2. CASE task[w].pending # {p}
    BY <1>1, <1>2, <2>2 DEF Step, TypeOK, Task, Onward, Post
  <2> QED
    BY <2>1, <2>2
<1>6. /\ r.event = e /\ r.version = d.version /\ r.recipient = p
      /\ r.status \in {"scheduled", "blocked"}
  BY DEF NewReminder
<1>7. (reminders' = reminders /\ old # {}) \/ reminders' = (reminders \ old) \cup {r}
  BY <1>1
<1> HIDE DEF r
<1>8. NewestLive'
  BY <1>2, <1>6, <1>7 DEF Whole, Alone, NewestLive
<1>9. Swept'
  <2> SUFFICES ASSUME NEW s \in reminders', s.status = "scheduled",
                      NEW v \in s.version + 1 .. row[s.event].version
               PROVE  s.trigger <= log[s.event][v].at
    BY <1>2 DEF Swept
  <2>1. CASE s = r
    BY <1>4, <1>6, <2>1
  <2>2. CASE s # r
    <3>1. s \in reminders
      BY <1>7, <2>2
    <3>2. ~ Condemned(s, v)
      BY <1>2, <1>3 DEF Condemned
    <3> QED
      BY <3>1, <3>2 DEF Whole, Alone, Swept
  <2> QED
    BY <2>1, <2>2
<1>10. Covered'
  <2> SUFFICES ASSUME NEW f \in Known, row[f].status = "active", NEW q \in Latest(f).audience
               PROVE  Reminded(f, q)' \/ Awaited(f, q)'
    BY <1>2 DEF Covered, Latest, Known
  <2>1. \E s \in reminders' : /\ s.event = e /\ s.recipient = p /\ s.version = row[e].version
                              /\ s.status \in {"scheduled", "blocked"}
    <3>1. CASE reminders' = reminders /\ old # {}
      <4>1. PICK s \in reminders : SameKey(r, s)
        BY <3>1
      <4>2. s.event = e /\ s.version = row[e].version /\ s.recipient = p
        BY <1>4, <1>6, <4>1 DEF SameKey
      <4>3. s.status \in {"scheduled", "blocked"}
        BY <4>2 DEF Whole, Alone, NewestLive
      <4> QED
        BY <3>1, <4>2, <4>3
    <3>2. CASE reminders' = (reminders \ old) \cup {r}
      BY <1>4, <1>6, <3>2
    <3> QED
      BY <1>7, <3>1, <3>2
  <2>2. CASE f = e /\ q = p
    BY <1>2, <2>1, <2>2 DEF Reminded
  <2>3. CASE Reminded(f, q) /\ ~ (f = e /\ q = p)
    <3>1. PICK s \in reminders : /\ s.event = f /\ s.recipient = q
                                 /\ s.version = row[f].version
                                 /\ s.status \in {"scheduled", "blocked"}
      BY <2>3 DEF Reminded
    <3>2. s \in reminders'
      BY <1>6, <1>7, <2>3, <3>1 DEF SameKey
    <3> QED
      BY <1>2, <3>1, <3>2 DEF Reminded
  <2>4. CASE Awaited(f, q) /\ ~ (f = e /\ q = p)
    <3>1. f = e /\ q \in task[w].pending
      BY <1>2, <1>3, <2>4 DEF Awaited
    <3>2. pc'[w] = "schedule" /\ q \in task'[w].pending /\ task'[w].target = f
      BY <1>5, <2>4, <3>1 DEF Onward
    <3> QED
      BY <3>2 DEF Awaited
  <2> QED
    BY <2>2, <2>3, <2>4 DEF Whole, Alone, Covered
<1> QED
  BY <1>2, <1>5, <1>8, <1>9, <1>10, OnwardKeeps DEF Post

-----------------------------------------------------------------------------
(* The theorems                                                            *)

LEMMA NextAlone ==
  ASSUME Serial, Whole, [Next]_vars, crashes' = 0
  PROVE  Alone'
<1>1. Smooth' /\ \A w \in Workers : Unanswered(w)'
  BY NextSmooth, NextUnanswered DEF Serial, Whole, Alone
<1>2. ASSUME NEW w \in Workers,
             /\ Fresh(w)' /\ Current(w)' /\ Accounted'
             /\ SourceOnce' /\ Apart'
             /\ NewestLive' /\ Swept' /\ Covered'
      PROVE  Alone'
  <2>1. \A u \in Workers : Fresh(u)' /\ Current(u)'
    BY <1>2 DEF Serial, One
  <2> QED
    BY <1>1, <1>2, <2>1 DEF Alone
<1>3. ASSUME NEW w \in Workers, Work(w) PROVE Alone'
  BY <1>2, <1>3, NoFailure, EarlyAlone, CommitAlone, SweepAlone, InvalidateAlone, ScheduleAlone,
     SaveAlone DEF Work, Early
<1>4. ASSUME NEW w \in Workers, NEW m \in Messages, Deliver(w, m) PROVE Alone'
  BY <1>2, <1>4, DeliverAlone
<1>5. CASE UNCHANGED <<row, log, reminders, receipts, pc, task, sent>>
  BY <1>1, <1>5, RestAlone
<1> QED
  BY <1>3, <1>4, <1>5, NoFailure DEF Next, RegisterTarget, Tick, vars, db, env

LEMMA InitAlone ==
  ASSUME Serial, Init
  PROVE  Alone
<1> USE DEF Init
<1>1. \A w \in Workers : Unanswered(w) /\ Fresh(w) /\ Current(w)
  BY DEF Unanswered, Fresh, Current, Post
<1>2. Smooth
  BY DEF Smooth, Serial
<1>3. Known = {}
  BY DEF Known, NoRow
<1>5. \A e \in EventIds : 1 .. Len(log[e]) = {}
  OBVIOUS
<1>6. Accounted /\ SourceOnce /\ Apart
  BY <1>5 DEF Accounted, SourceOnce, Apart
<1>7. Covered
  BY <1>3 DEF Covered
<1>8. NewestLive /\ Swept
  BY DEF NewestLive, Swept
<1> QED
  BY <1>1, <1>2, <1>6, <1>7, <1>8 DEF Alone

\* The invariant: Alone holds until a process dies in the middle of a call.
UntilCrash == IInv /\ ReminderOfVersion /\ Answers /\ (crashes = 0 => Alone)

LEMMA UntilCrashWhole ==
  ASSUME UntilCrash, crashes = 0
  PROVE  Whole
BY DEF UntilCrash, Whole

\* No step takes a crash back.
LEMMA NoneBefore ==
  ASSUME TypeOK, [Next]_vars, crashes' = 0
  PROVE  crashes = 0
<1>1. CASE \E w \in Workers : Crash(w)
  BY <1>1 DEF Crash, TypeOK
<1>2. CASE UNCHANGED crashes
  BY <1>2
<1>3. CASE \E w \in Workers : Work(w)
  BY <1>3 DEF Work, Replay, Accept, Resolve, CancelNothing, PrepareCancel, PrepareUpdate,
     PrepareCreate, CreateWithoutAudience, RejectDestination, CommitNew, DuplicateId,
     CommitVersion, VersionConflict, Sweep, Invalidate, Schedule, ScheduleUnregistered,
     SaveReceipt, LockTimeout, env
<1> QED
  BY <1>1, <1>2, <1>3 DEF Next, Deliver, RegisterTarget, Tick, vars, env

\* With one process, what the database says fits what the call that runs is doing,
\* until that process dies in the middle of a call.
THEOREM AloneInvariant ==
  ASSUME Serial
  PROVE  Spec => []UntilCrash
<1>1. Init => UntilCrash
  BY InitIInv, InitAnswers, InitAlone DEF Init, ReminderOfVersion, UntilCrash
<1>2. UntilCrash /\ [Next]_vars => UntilCrash'
  <2> SUFFICES ASSUME UntilCrash, [Next]_vars PROVE UntilCrash'
    OBVIOUS
  <2>1. IInv /\ ReminderOfVersion /\ Answers /\ TypeOK
    BY DEF UntilCrash, IInv
  <2>2. IInv' /\ ReminderOfVersion'
    BY <2>1, NextIInv, NextReminders
  <2>3. Answers'
    BY <2>1, <2>2, NextAnswers
  <2>4. ASSUME crashes' = 0 PROVE Alone'
    BY <2>1, <2>4, NoneBefore, UntilCrashWhole, NextAlone
  <2> QED
    BY <2>2, <2>3, <2>4 DEF UntilCrash
<1> QED
  BY <1>1, <1>2, PTL DEF Spec

\* Every answer matches its effect: "ok" of one version at most, and anything else
\* of none, also when the message is delivered again after a call that refused it
\* with an exception (process_intent, save_message_receipt).
THEOREM AnswersMatchEffects ==
  ASSUME Serial
  PROVE  Spec => []AnswerMatchesEffect
<1>1. ASSUME Serial, Whole, crashes = 0 PROVE AnswerMatchesEffect
  <2> SUFFICES ASSUME NEW m \in Messages, receipts[m] # None
               PROVE  /\ Cardinality(MadeBy(m)) <= 1
                      /\ receipts[m].result.status # "ok" => MadeBy(m) = {}
    BY Zenon DEF AnswerMatchesEffect
  <2>1. ASSUME NEW x \in MadeBy(m)
        PROVE  \E e \in EventIds : \E v \in 1 .. Len(log[e]) : x = <<e, v>> /\ log[e][v].source = m
    BY DEF MadeBy
  <2>2. ASSUME NEW x \in MadeBy(m), NEW y \in MadeBy(m) PROVE x = y
    <3>1. PICK e \in EventIds : \E v \in 1 .. Len(log[e]) : x = <<e, v>> /\ log[e][v].source = m
      BY <2>1
    <3>2. PICK v \in 1 .. Len(log[e]) : x = <<e, v>> /\ log[e][v].source = m
      BY <3>1
    <3>3. PICK f \in EventIds : \E u \in 1 .. Len(log[f]) : y = <<f, u>> /\ log[f][u].source = m
      BY <2>1
    <3>4. PICK u \in 1 .. Len(log[f]) : y = <<f, u>> /\ log[f][u].source = m
      BY <3>3
    <3>5. e = f /\ v = u
      BY <1>1, <3>2, <3>4 DEF Whole, Alone, SourceOnce
    <3> QED
      BY <3>2, <3>4, <3>5
  <2>3. Cardinality(MadeBy(m)) <= 1
    <3>1. CASE MadeBy(m) = {}
      BY <3>1, FS_EmptySet
    <3>2. CASE MadeBy(m) # {}
      <4>1. PICK x : MadeBy(m) = {x}
        BY <2>2, <3>2
      <4>2. Cardinality({x}) = 1
        BY FS_Singleton
      <4> QED
        BY <4>1, <4>2
    <3> QED
      BY <3>1, <3>2
  <2>4. ASSUME receipts[m].result.status # "ok", NEW x \in MadeBy(m) PROVE FALSE
    <3>1. PICK e \in EventIds : \E v \in 1 .. Len(log[e]) : log[e][v].source = m
      BY <2>1, <2>4
    <3>2. PICK v \in 1 .. Len(log[e]) : log[e][v].source = m
      BY <3>1
    <3>3. \E w \in Workers : Doing(w, log[e][v])
      BY <1>1, <2>4, <3>2 DEF Whole, Alone, Accounted, Done
    <3>4. PICK w \in Workers : pc[w] # "idle" /\ task[w].msg = m
      BY <3>2, <3>3 DEF Doing, Post
    <3> QED
      BY <1>1, <3>4 DEF Whole, Alone, Unanswered
  <2> QED
    BY <2>3, <2>4
<1>2. UntilCrash => AnswerMatchesEffect
  BY <1>1, UntilCrashWhole DEF AnswerMatchesEffect
<1> QED
  BY <1>2, AloneInvariant, PTL

\* Between calls only overdue reminders of old versions can still go out
\* (_invalidate_prior_version_reminders: "overdue reminders remain eligible").
THEOREM OnlyOverdueSurvive ==
  ASSUME Serial
  PROVE  Spec => []SupersededOnlyIfOverdue
<1>1. ASSUME Serial, Whole, crashes = 0 PROVE SupersededOnlyIfOverdue
  <2> SUFFICES ASSUME \A w \in Workers : pc[w] = "idle"
               PROVE  \A r \in reminders : r.status = "scheduled" =>
                        \A v \in r.version + 1 .. row[r.event].version :
                          r.trigger <= log[r.event][v].at
    BY DEF SupersededOnlyIfOverdue
  <2>1. \A r, v : ~ Condemned(r, v)
    BY DEF Condemned
  <2> QED
    BY <1>1, <2>1 DEF Whole, Alone, Swept
<1>2. UntilCrash => SupersededOnlyIfOverdue
  BY <1>1, UntilCrashWhole DEF SupersededOnlyIfOverdue
<1> QED
  BY <1>2, AloneInvariant, PTL

\* Between calls the whole audience of an active event has its reminders
\* (_schedule_reminders).
THEOREM AudienceScheduled ==
  ASSUME Serial
  PROVE  Spec => []CurrentScheduled
<1>1. ASSUME Serial, Whole, crashes = 0 PROVE CurrentScheduled
  <2> SUFFICES ASSUME \A w \in Workers : pc[w] = "idle",
                      NEW e \in Known, row[e].status = "active", NEW p \in Latest(e).audience
               PROVE  Reminded(e, p)
    BY DEF CurrentScheduled, Reminded
  <2>1. ~ Awaited(e, p)
    BY DEF Awaited
  <2> QED
    BY <1>1, <2>1 DEF Whole, Alone, Covered
<1>2. UntilCrash => CurrentScheduled
  BY <1>1, UntilCrashWhole DEF CurrentScheduled
<1> QED
  BY <1>2, AloneInvariant, PTL

\* Messages with the same words that are received at the time of the clock take
\* effect further apart than the window (find_recent_receipt_by_intent_hash). Of a
\* message whose payload names another time nothing is claimed, and nothing holds:
\* the code measures the window by that time.
THEOREM SameIntentApart ==
  ASSUME Serial
  PROVE  Spec => []SameIntentOneEffect
<1>1. ASSUME Whole PROVE SameIntentOneEffect
  <2> SUFFICES ASSUME NEW m \in Messages, NEW n \in Messages,
                      NEW x \in MadeBy(m), NEW y \in MadeBy(n),
                      m # n, Hash(sent[m]) = Hash(sent[n]), OnTheClock(x), OnTheClock(y)
               PROVE  Beyond(handed[m], handed[n])
    BY Zenon DEF SameIntentOneEffect
  <2> DEFINE Is(z, o, k, i) == z = <<k, i>> /\ log[k][i].source = o
  <2>1. /\ \E e \in EventIds : \E v \in 1 .. Len(log[e]) : Is(x, m, e, v)
        /\ \E f \in EventIds : \E u \in 1 .. Len(log[f]) : Is(y, n, f, u)
    BY DEF MadeBy
  <2> HIDE DEF Is
  <2>2. PICK e \in EventIds : \E v \in 1 .. Len(log[e]) : Is(x, m, e, v)
    BY <2>1
  <2>3. PICK v \in 1 .. Len(log[e]) : Is(x, m, e, v)
    BY <2>2
  <2>4. PICK f \in EventIds : \E u \in 1 .. Len(log[f]) : Is(y, n, f, u)
    BY <2>1
  <2>5. PICK u \in 1 .. Len(log[f]) : Is(y, n, f, u)
    BY <2>4
  <2>6. x = <<e, v>> /\ log[e][v].source = m /\ y = <<f, u>> /\ log[f][u].source = n
    BY <2>3, <2>5 DEF Is
  <2>7. Beyond(log[e][v].at, log[f][u].at)
    BY <1>1, <2>6 DEF Whole, Alone, Apart
  <2>8. log[e][v].at = handed[m] /\ log[f][u].at = handed[n]
    BY <2>6 DEF OnTheClock
  <2> QED
    BY <2>7, <2>8
<1>2. UntilCrash => SameIntentOneEffect
  BY <1>1, UntilCrashWhole DEF SameIntentOneEffect
<1> QED
  BY <1>2, AloneInvariant, PTL
=============================================================================
