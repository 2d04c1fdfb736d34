---------------------------- MODULE IntakeProofs ----------------------------
(***************************************************************************)
(* Proofs about Intake, for any number of processes, messages, recipients  *)
(* and crashes.                                                            *)
(***************************************************************************)
EXTENDS Intake, TLAPS

LEMMA InitIInv == Init => IInv
<1> SUFFICES ASSUME Init PROVE IInv
  OBVIOUS
<1> USE DEF Init
<1>1. NoTask \in Task /\ 0 \in Times
  BY ConstantsAssumption DEF NoTask, Task, Times, NoEvent
<1>2. TypeOK
  <2>1. row \in [EventIds -> Row]
    BY DEF NoRow, Row, Statuses
  <2>2. log \in [EventIds -> Seq(Content)]
    OBVIOUS
  <2>3. targets \in [Recipients -> TargetStates]
    BY ConstantsAssumption
  <2>4. sent \in [Messages -> IntentType]
    BY ConstantsAssumption
  <2>5. pc \in [Workers -> PCs] /\ task \in [Workers -> Task]
    BY <1>1 DEF PCs
  <2> QED
    BY <1>1, <2>1, <2>2, <2>3, <2>4, <2>5 DEF TypeOK
<1>3. VersionsContiguous
  BY DEF VersionsContiguous, NoRow
<1>4. \A w \in Workers : WorkerOK(w)
  BY DEF WorkerOK, NoTask
<1> QED
  BY <1>2, <1>3, <1>4 DEF IInv

\* A step moves one worker to a program counter; abandoning a call resets it.
LEMMA MoveType ==
  ASSUME TypeOK, NEW w \in Workers, NEW a \in PCs, NEW b \in PCs, Step(w, a, b)
  PROVE  pc' \in [Workers -> PCs]
BY DEF TypeOK, Step

LEMMA AbandonType ==
  ASSUME TypeOK, NEW w \in Workers, Abandon(w)
  PROVE  pc' \in [Workers -> PCs] /\ task' \in [Workers -> Task]
<1>1. NoTask \in Task
  BY ConstantsAssumption DEF NoTask, Task, Times, NoEvent
<1> QED
  BY <1>1 DEF TypeOK, Abandon, PCs

\* The newest version of a known event is a version.
LEMMA LatestType ==
  ASSUME TypeOK, VersionsContiguous, NEW e \in EventIds, row[e].version > 0
  PROVE  /\ row[e].version \in 1 .. Len(log[e])
         /\ Latest(e) \in Content
<1>1. row[e] \in Row /\ log[e] \in Seq(Content)
  BY DEF TypeOK
<1>2. row[e].version = Len(log[e])
  BY DEF VersionsContiguous
<1> QED
  BY <1>1, <1>2 DEF Latest, Row

\* The contents a draft may have are contents.
LEMMA ContentType ==
  ASSUME TypeOK, NEW w \in Workers, task[w].msg \in Messages, NEW c \in Content
  PROVE  /\ NewContent(w) \in Content
         /\ UpdatedContent(w, c) \in Content
         /\ CancelledContent(w, c) \in Content
<1>1. Intent(w) \in IntentType /\ task[w].at \in Times
  BY DEF TypeOK, Intent, Task
<1> QED
  BY <1>1 DEF NewContent, UpdatedContent, CancelledContent, Content, IntentType

\* Assigning to a local keeps the record of locals well typed.
LEMMA TaskSet ==
  ASSUME TypeOK, NEW w \in Workers, NEW t \in Task, task' = [task EXCEPT ![w] = t]
  PROVE  task' \in [Workers -> Task]
BY DEF TypeOK

LEMMA TaskFields ==
  ASSUME NEW t \in Task
  PROVE  /\ \A m \in Messages, a \in Times : [t EXCEPT !.msg = m, !.at = a] \in Task
         /\ \A e \in EventIds \cup {NoEvent} : [t EXCEPT !.target = e] \in Task
         /\ \A d \in Draft : [t EXCEPT !.draft = d] \in Task
         /\ \A x \in Result : [t EXCEPT !.reply = x] \in Task
         /\ \A s \in SUBSET Reminder : [t EXCEPT !.todo = s] \in Task
         /\ \A p \in SUBSET Recipients : [t EXCEPT !.pending = p] \in Task
BY DEF Task

LEMMA SetReply ==
  ASSUME TypeOK, NEW w \in Workers, NEW x \in Result,
         task' = [task EXCEPT ![w].reply = x]
  PROVE  task' \in [Workers -> Task]
<1>1. task' = [task EXCEPT ![w] = [task[w] EXCEPT !.reply = x]]
  BY DEF TypeOK
<1>2. [task[w] EXCEPT !.reply = x] \in Task
  BY TaskFields DEF TypeOK
<1> QED
  BY <1>1, <1>2, TaskSet

LEMMA SetTarget ==
  ASSUME TypeOK, NEW w \in Workers, NEW e \in EventIds \cup {NoEvent},
         task' = [task EXCEPT ![w].target = e]
  PROVE  task' \in [Workers -> Task]
<1>1. task' = [task EXCEPT ![w] = [task[w] EXCEPT !.target = e]]
  BY DEF TypeOK
<1>2. [task[w] EXCEPT !.target = e] \in Task
  BY TaskFields DEF TypeOK
<1> QED
  BY <1>1, <1>2, TaskSet

LEMMA SetDraft ==
  ASSUME TypeOK, NEW w \in Workers, NEW d \in Draft,
         task' = [task EXCEPT ![w].draft = d]
  PROVE  task' \in [Workers -> Task]
<1>1. task' = [task EXCEPT ![w] = [task[w] EXCEPT !.draft = d]]
  BY DEF TypeOK
<1>2. [task[w] EXCEPT !.draft = d] \in Task
  BY TaskFields DEF TypeOK
<1> QED
  BY <1>1, <1>2, TaskSet

LEMMA DeliverType ==
  ASSUME TypeOK, NEW w \in Workers, NEW m \in Messages, Deliver(w, m)
  PROVE  TypeOK'
<1>1. pc' \in [Workers -> PCs]
  BY MoveType DEF Deliver, PCs
<1>2. task' \in [Workers -> Task]
  <2>1. PICK lag \in 0 .. MaxLag :
          lag <= now /\ task' = [task EXCEPT ![w].msg = m, ![w].at = now - lag]
    BY DEF Deliver
  <2>2. now - lag \in Times
    BY <2>1, ConstantsAssumption DEF TypeOK, Times
  <2>3. task' = [task EXCEPT ![w] = [task[w] EXCEPT !.msg = m, !.at = now - lag]]
    BY <2>1 DEF TypeOK
  <2>4. [task[w] EXCEPT !.msg = m, !.at = now - lag] \in Task
    BY <2>2, TaskFields DEF TypeOK
  <2> QED
    BY <2>3, <2>4, TaskSet
<1> QED
  BY <1>1, <1>2 DEF Deliver, TypeOK, db

LEMMA PreCommitType ==
  ASSUME TypeOK, VersionsContiguous, NEW w \in Workers, WorkerOK(w),
         Replay(w) \/ Accept(w) \/ Resolve(w) \/ CancelNothing(w)
         \/ CreateWithoutAudience(w) \/ RejectDestination(w) \/ DuplicateId(w)
         \/ VersionConflict(w) \/ ScheduleUnregistered(w) \/ LockTimeout(w)
  PROVE  TypeOK'
<1> USE DEF PCs
<1>1. CASE Replay(w)
  <2>1. pc' \in [Workers -> PCs]
    BY <1>1, MoveType DEF Replay
  <2>2. PICK m \in Newest(w) : task' = [task EXCEPT ![w].reply = receipts[m].result]
    BY <1>1 DEF Replay
  <2>3. receipts[m].result \in Result
    BY <2>2 DEF TypeOK, Newest, Recent, Receipt
  <2>4. task' \in [Workers -> Task]
    BY <2>2, <2>3, SetReply
  <2> QED
    BY <1>1, <2>1, <2>4 DEF Replay, TypeOK, db, env
<1>2. CASE Accept(w)
  <2>1. pc' \in [Workers -> PCs]
    BY <1>2, MoveType DEF Accept
  <2>2. Reply("needs_follow_up", NoEvent, 0) \in Result
    BY DEF Reply, Result, Outcomes
  <2>3. task' \in [Workers -> Task]
    BY <1>2, <2>2, SetReply DEF Accept, TypeOK
  <2> QED
    BY <1>2, <2>1, <2>3 DEF Accept, TypeOK, db, env
<1>3. CASE Resolve(w)
  <2>1. pc' \in [Workers -> PCs]
    BY <1>3, MoveType DEF Resolve
  <2>2. /\ Reply("ambiguous", NoEvent, 0) \in Result
        /\ Reply("unconfirmed", NoEvent, 0) \in Result
    BY DEF Reply, Result, Outcomes
  <2>3. Resolved(Intent(w)) \subseteq EventIds
    BY DEF Resolved, IsExplicit, Matches, Known
  <2>4. task' \in [Workers -> Task]
    BY <1>3, <2>2, <2>3, SetReply, SetTarget DEF Resolve
  <2> QED
    BY <1>3, <2>1, <2>4 DEF Resolve, TypeOK, db, env
<1>4. CASE CancelNothing(w)
  BY <1>4, AbandonType DEF CancelNothing, TypeOK, db, env
<1>5. CASE CreateWithoutAudience(w)
  BY <1>5, AbandonType DEF CreateWithoutAudience, TypeOK, db, env
<1>6. CASE RejectDestination(w)
  <2>1. pc' \in [Workers -> PCs]
    BY <1>6, MoveType DEF RejectDestination
  <2>2. Reply("bad_target", task[w].target, 0) \in Result
    BY DEF TypeOK, Task, Reply, Result, Outcomes
  <2>3. task' \in [Workers -> Task]
    BY <1>6, <2>2, SetReply DEF RejectDestination
  <2> QED
    BY <1>6, <2>1, <2>3 DEF RejectDestination, TypeOK, db, env
<1>7. CASE DuplicateId(w)
  BY <1>7, AbandonType DEF DuplicateId, TypeOK, db, env
<1>8. CASE VersionConflict(w)
  <2>1. pc' \in [Workers -> PCs]
    BY <1>8, MoveType DEF VersionConflict
  <2>2. Reply("conflict", task[w].target, 0) \in Result
    BY DEF TypeOK, Task, Reply, Result, Outcomes
  <2>3. task' \in [Workers -> Task]
    BY <1>8, <2>2, SetReply DEF VersionConflict
  <2> QED
    BY <1>8, <2>1, <2>3 DEF VersionConflict, TypeOK, db, env
<1>9. CASE ScheduleUnregistered(w)
  BY <1>9, AbandonType DEF ScheduleUnregistered, TypeOK, db, env
<1>10. CASE LockTimeout(w)
  BY <1>10, AbandonType DEF LockTimeout, TypeOK, db, env
<1> QED
  BY <1>1, <1>2, <1>3, <1>4, <1>5, <1>6, <1>7, <1>8, <1>9, <1>10

LEMMA PrepareType ==
  ASSUME TypeOK, VersionsContiguous, NEW w \in Workers, WorkerOK(w),
         PrepareCancel(w) \/ PrepareUpdate(w) \/ PrepareCreate(w)
  PROVE  TypeOK'
<1> DEFINE e == task[w].target
<1>1. pc[w] = "prepare" /\ pc' \in [Workers -> PCs]
  BY MoveType DEF PrepareCancel, PrepareUpdate, PrepareCreate, Step, PCs
<1>2. task[w].msg \in Messages
  BY <1>1 DEF WorkerOK, InHand
<1>3. e \in EventIds \cup {NoEvent}
  BY DEF TypeOK, Task
<1>4. ASSUME e # NoEvent
      PROVE  /\ row[e].version + 1 \in Nat
             /\ UpdatedContent(w, Latest(e)) \in Content
             /\ CancelledContent(w, Latest(e)) \in Content
  <2>1. e \in EventIds /\ row[e].version > 0
    BY <1>1, <1>3, <1>4 DEF WorkerOK, Chosen
  <2>2. row[e].version + 1 \in Nat
    BY <2>1 DEF TypeOK, Row
  <2>3. Latest(e) \in Content
    BY <2>1, LatestType
  <2> QED
    BY <1>2, <2>2, <2>3, ContentType
<1>5. \A v \in Nat, st \in Statuses, c \in Content :
        [version |-> v, status |-> st, content |-> c] \in Draft
  BY DEF Draft
<1>6. CASE PrepareCancel(w)
  <2>1. task' \in [Workers -> Task]
    BY <1>4, <1>5, <1>6, SetDraft DEF PrepareCancel, Statuses
  <2> QED
    BY <1>1, <1>6, <2>1 DEF PrepareCancel, TypeOK, db, env
<1>7. CASE PrepareUpdate(w)
  <2>1. task' \in [Workers -> Task]
    BY <1>4, <1>5, <1>7, SetDraft DEF PrepareUpdate, Statuses
  <2> QED
    BY <1>1, <1>7, <2>1 DEF PrepareUpdate, TypeOK, db, env
<1>8. CASE PrepareCreate(w)
  <2> DEFINE d == [version |-> 1, status |-> "active", content |-> NewContent(w)]
             t == [task[w] EXCEPT !.target = NextEventId]
  <2>1. NewContent(w) \in Content
    <3>1. Intent(w) \in IntentType /\ task[w].at \in Times
      BY <1>2 DEF TypeOK, Intent, Task
    <3> QED
      BY <1>2, <3>1 DEF NewContent, Content, IntentType
  <2>2. d \in Draft
    BY <1>5, <2>1 DEF Statuses
  <2>3. t \in Task
    BY <1>8, TaskFields DEF PrepareCreate, TypeOK
  <2>4. [t EXCEPT !.draft = d] \in Task
    BY <2>2, <2>3, TaskFields
  <2>5. task' = [task EXCEPT ![w] = [t EXCEPT !.draft = d]]
    BY <1>8 DEF PrepareCreate, TypeOK
  <2>6. task' \in [Workers -> Task]
    BY <2>4, <2>5, TaskSet
  <2> QED
    BY <1>1, <1>8, <2>6 DEF PrepareCreate, TypeOK, db, env
<1> QED
  BY <1>6, <1>7, <1>8

LEMMA SetPending ==
  ASSUME TypeOK, NEW w \in Workers, NEW p \in SUBSET Recipients,
         task' = [task EXCEPT ![w].pending = p]
  PROVE  task' \in [Workers -> Task]
<1>1. task' = [task EXCEPT ![w] = [task[w] EXCEPT !.pending = p]]
  BY DEF TypeOK
<1>2. [task[w] EXCEPT !.pending = p] \in Task
  BY TaskFields DEF TypeOK
<1> QED
  BY <1>1, <1>2, TaskSet

LEMMA SetTodo ==
  ASSUME TypeOK, NEW w \in Workers, NEW s \in SUBSET Reminder,
         task' = [task EXCEPT ![w].todo = s]
  PROVE  task' \in [Workers -> Task]
<1>1. task' = [task EXCEPT ![w] = [task[w] EXCEPT !.todo = s]]
  BY DEF TypeOK
<1>2. [task[w] EXCEPT !.todo = s] \in Task
  BY TaskFields DEF TypeOK
<1> QED
  BY <1>1, <1>2, TaskSet

\* A commit adds one version to one event.
LEMMA CommitStoreType ==
  ASSUME TypeOK, NEW w \in Workers, NEW e \in EventIds, NEW d \in Draft, Commit(w, e, d)
  PROVE  row' \in [EventIds -> Row] /\ log' \in [EventIds -> Seq(Content)]
<1>1. d.version \in Nat /\ d.status \in Statuses /\ d.content \in Content
  BY DEF Draft
<1>2. [version |-> d.version, status |-> d.status] \in Row
  BY <1>1 DEF Row
<1>3. Append(log[e], d.content) \in Seq(Content)
  BY <1>1 DEF TypeOK
<1> QED
  BY <1>2, <1>3 DEF Commit, TypeOK

LEMMA CommitType ==
  ASSUME TypeOK, NEW w \in Workers, WorkerOK(w), CommitNew(w) \/ CommitVersion(w)
  PROVE  TypeOK'
<1>1. pc[w] = "commit" /\ pc' \in [Workers -> PCs]
  BY MoveType DEF CommitNew, CommitVersion, Step, PCs
<1>2. task[w].target \in EventIds /\ task[w].draft \in Draft
  BY <1>1 DEF WorkerOK, Drafted
<1>3. row' \in [EventIds -> Row] /\ log' \in [EventIds -> Seq(Content)]
  BY <1>2, CommitStoreType DEF CommitNew, CommitVersion
<1>4. task' \in [Workers -> Task]
  <2>1. task[w].draft.content.audience \in SUBSET Recipients
    BY <1>2 DEF Draft, Content
  <2>2. CASE CommitNew(w)
    BY <2>1, <2>2, SetPending DEF CommitNew
  <2>3. CASE CommitVersion(w)
    BY <2>3 DEF CommitVersion, TypeOK
  <2> QED
    BY <2>2, <2>3
<1>5. UNCHANGED <<reminders, receipts, targets, now, sent, deliveries, handed, crashes>>
      /\ lock' = None
  BY DEF CommitNew, CommitVersion, Commit, env
<1> QED
  BY <1>1, <1>3, <1>4, <1>5 DEF TypeOK

\* What a worker holds after the sweep.
LEMMA SweepDoneType ==
  ASSUME TypeOK, NEW w \in Workers, Committed(w)
  PROVE  SweepDone(w) \in Task /\ AfterSweep(w) \in {"receipt", "schedule"}
<1>1. OkReply(w) \in Result
  BY DEF Committed, OkReply, Reply, Result, Outcomes, Draft
<1>2. task[w].draft.content.audience \in SUBSET Recipients
  BY DEF Committed, Draft, Content
<1>3. task[w] \in Task
  BY DEF TypeOK
<1> QED
  BY <1>1, <1>2, <1>3 DEF SweepDone, AfterSweep, Task

LEMMA SweepType ==
  ASSUME TypeOK, NEW w \in Workers, WorkerOK(w), Sweep(w) \/ Invalidate(w)
  PROVE  TypeOK'
<1>1. Committed(w)
  BY DEF WorkerOK, Sweep, Invalidate
<1>2. SweepDone(w) \in Task /\ AfterSweep(w) \in {"receipt", "schedule"}
  BY <1>1, SweepDoneType
<1>3. CASE Sweep(w)
  <2> DEFINE found == Superseded(task[w].target, task[w].draft.version, task[w].at)
  <2>1. found \in SUBSET Reminder
    BY DEF Superseded, TypeOK
  <2>2. pc' \in [Workers -> PCs]
    BY <1>2, <1>3, MoveType DEF Sweep, PCs
  <2>3. task' \in [Workers -> Task]
    BY <1>2, <1>3, <2>1, SetTodo, TaskSet DEF Sweep
  <2> QED
    BY <1>3, <2>2, <2>3 DEF Sweep, TypeOK, db, env
<1>4. CASE Invalidate(w)
  <2>1. PICK r \in task[w].todo :
          /\ reminders' = Overwrite(r, "invalidated")
          /\ lock' = None
          /\ IF task[w].todo = {r}
               THEN /\ Step(w, "invalidate", AfterSweep(w))
                    /\ task' = [task EXCEPT ![w] = SweepDone(w)]
               ELSE /\ Step(w, "invalidate", "invalidate")
                    /\ task' = [task EXCEPT ![w].todo = @ \ {r}]
          /\ UNCHANGED <<row, log, receipts, targets, env>>
    BY <1>4 DEF Invalidate
  <2>2. reminders' \subseteq Reminder
    <3>1. \A s \in Reminder : [s EXCEPT !.status = "invalidated"] \in Reminder
      BY DEF Reminder, ReminderStatuses
    <3> QED
      BY <2>1, <3>1 DEF Overwrite, TypeOK
  <2>3. pc' \in [Workers -> PCs]
    BY <1>2, <2>1, MoveType DEF PCs
  <2>4. task' \in [Workers -> Task]
    <3>1. task[w].todo \ {r} \in SUBSET Reminder
      BY DEF TypeOK, Task
    <3>2. [task EXCEPT ![w].todo = @ \ {r}] = [task EXCEPT ![w].todo = task[w].todo \ {r}]
      BY DEF TypeOK
    <3> QED
      BY <1>2, <2>1, <3>1, <3>2, SetTodo, TaskSet
  <2> QED
    BY <2>1, <2>2, <2>3, <2>4 DEF TypeOK, env
<1> QED
  BY <1>3, <1>4

LEMMA ScheduleType ==
  ASSUME TypeOK, NEW w \in Workers, WorkerOK(w), Schedule(w)
  PROVE  TypeOK'
<1>1. Committed(w)
  BY DEF WorkerOK, Schedule
<1>2. PICK p \in NextUp(w) :
        LET r == NewReminder(w, p)
            old == {s \in reminders : SameKey(r, s)}
        IN
        /\ targets[p] # "absent"
        /\ reminders' = IF old # {} /\ targets[p] = "ok" THEN reminders
                        ELSE (reminders \ old) \cup {r}
        /\ lock' = None
        /\ IF task[w].pending = {p}
             THEN /\ Step(w, "schedule", "receipt")
                  /\ task' = [task EXCEPT ![w].pending = {}, ![w].reply = OkReply(w)]
             ELSE /\ Step(w, "schedule", "schedule")
                  /\ task' = [task EXCEPT ![w].pending = @ \ {p}]
  BY DEF Schedule
<1>3. p \in Recipients /\ task[w].pending \in SUBSET Recipients
  BY DEF NextUp, TypeOK, Task
<1>4. reminders' \subseteq Reminder
  <2>1. NewReminder(w, p) \in Reminder
    <3>1. Trigger[task[w].draft.content.slot] \in Int
      BY <1>1, ConstantsAssumption DEF Committed, Draft, Content
    <3>2. task[w].draft.version \in Nat /\ task[w].target \in EventIds
      BY <1>1 DEF Committed, Draft
    <3> QED
      BY <1>3, <3>1, <3>2 DEF NewReminder, Reminder, ReminderStatuses
  <2> QED
    BY <1>2, <2>1 DEF TypeOK
<1>5. pc' \in [Workers -> PCs]
  BY <1>2, MoveType DEF PCs
<1>6. task' \in [Workers -> Task]
  <2>1. OkReply(w) \in Result
    BY <1>1 DEF Committed, OkReply, Reply, Result, Outcomes, Draft
  <2>2. CASE task[w].pending = {p}
    <3> DEFINE t == [task[w] EXCEPT !.pending = {}]
    <3>1. t \in Task
      BY TaskFields DEF TypeOK
    <3>2. [t EXCEPT !.reply = OkReply(w)] \in Task
      BY <2>1, <3>1, TaskFields
    <3>3. task' = [task EXCEPT ![w] = [t EXCEPT !.reply = OkReply(w)]]
      BY <1>2, <2>2 DEF TypeOK
    <3> QED
      BY <3>2, <3>3, TaskSet
  <2>3. CASE task[w].pending # {p}
    <3>1. task' = [task EXCEPT ![w].pending = task[w].pending \ {p}]
      BY <1>2, <2>3 DEF TypeOK
    <3> QED
      BY ZenonT(40), <1>3, <3>1, SetPending
  <2> QED
    BY <2>2, <2>3
<1>7. UNCHANGED <<row, log, receipts, targets, env>>
  BY DEF Schedule
<1> QED
  BY <1>2, <1>4, <1>5, <1>6, <1>7 DEF TypeOK, env

LEMMA SaveReceiptType ==
  ASSUME TypeOK, NEW w \in Workers, WorkerOK(w), SaveReceipt(w)
  PROVE  TypeOK'
<1>1. task[w].msg \in Messages /\ task[w].reply \in Result
  BY DEF SaveReceipt, WorkerOK, InHand
<1>2. pc' \in [Workers -> PCs] /\ task' \in [Workers -> Task]
  BY AbandonType DEF SaveReceipt
<1>3. receipts' \in [Messages -> Receipt \cup {None}]
  <2>1. Intent(w) \in IntentType /\ task[w].at \in Times /\ now \in Times
    BY <1>1 DEF TypeOK, Intent, Task
  <2>2. Hash(Intent(w)) \in IntentType
    BY <2>1 DEF Hash, IntentType
  <2>3. [at |-> task[w].at, hash |-> Hash(Intent(w)),
         result |-> task[w].reply] \in Receipt
    BY <1>1, <2>1, <2>2 DEF Receipt
  <2> QED
    BY <1>1, <2>3 DEF SaveReceipt, TypeOK
<1> QED
  BY <1>2, <1>3 DEF SaveReceipt, TypeOK, env

\* Every step keeps the types.
LEMMA NextType ==
  ASSUME IInv, [Next]_vars
  PROVE  TypeOK'
<1>1. TypeOK /\ VersionsContiguous /\ \A w \in Workers : WorkerOK(w)
  BY DEF IInv
<1>2. ASSUME NEW w \in Workers, Work(w) PROVE TypeOK'
  BY <1>1, <1>2, PreCommitType, PrepareType, CommitType, SweepType, ScheduleType,
     SaveReceiptType DEF Work
<1>3. ASSUME NEW w \in Workers, Crash(w) PROVE TypeOK'
  BY <1>1, <1>3, AbandonType DEF Crash, TypeOK, db
<1>4. ASSUME NEW w \in Workers, NEW m \in Messages, Deliver(w, m) PROVE TypeOK'
  BY <1>1, <1>4, DeliverType
<1>5. ASSUME NEW p \in Recipients, NEW st \in {"no_tz", "ok"}, RegisterTarget(p, st)
      PROVE  TypeOK'
  BY <1>1, <1>5 DEF RegisterTarget, TypeOK, TargetStates, env
<1>6. CASE Tick
  BY <1>1, <1>6, ConstantsAssumption DEF Tick, TypeOK, Times, db
<1>7. CASE UNCHANGED vars
  BY <1>1, <1>7 DEF vars, TypeOK, db, env
<1> QED
  BY <1>2, <1>3, <1>4, <1>5, <1>6, <1>7 DEF Next

-----------------------------------------------------------------------------
(* The event tables: only two kinds of step write them, and they append.   *)

LEMMA OnlyCommitsWrite ==
  ASSUME [Next]_vars
  PROVE  \/ \E w \in Workers : CommitNew(w) \/ CommitVersion(w)
         \/ UNCHANGED <<row, log>>
<1>1. ASSUME NEW w \in Workers, Work(w)
      PROVE  CommitNew(w) \/ CommitVersion(w) \/ UNCHANGED <<row, log>>
  BY <1>1 DEF Work, Replay, Accept, Resolve, CancelNothing, PrepareCancel,
     PrepareUpdate, PrepareCreate, CreateWithoutAudience, RejectDestination,
     DuplicateId, VersionConflict, Sweep, Invalidate, Schedule,
     ScheduleUnregistered, SaveReceipt, LockTimeout, db
<1>2. ASSUME NEW w \in Workers, Crash(w) PROVE UNCHANGED <<row, log>>
  BY <1>2 DEF Crash, db
<1>3. ASSUME NEW w \in Workers, NEW m \in Messages, Deliver(w, m)
      PROVE  UNCHANGED <<row, log>>
  BY <1>3 DEF Deliver, db
<1>4. ASSUME NEW p \in Recipients, NEW st \in {"no_tz", "ok"}, RegisterTarget(p, st)
      PROVE  UNCHANGED <<row, log>>
  BY <1>4 DEF RegisterTarget
<1>5. CASE Tick
  BY <1>5 DEF Tick, db
<1>6. CASE UNCHANGED vars
  BY <1>6 DEF vars, db
<1> QED
  BY <1>1, <1>2, <1>3, <1>4, <1>5, <1>6 DEF Next

\* What a commit finds and what it leaves: the version it makes is the one
\* after the newest, and everything that was in the log stays there.
LEMMA CommitEffect ==
  ASSUME IInv, NEW w \in Workers, CommitNew(w) \/ CommitVersion(w)
  PROVE  LET e == task[w].target
             d == task[w].draft
         IN
         /\ Drafted(w) /\ InHand(w) /\ pc[w] = "commit"
         /\ d.version = Len(log[e]) + 1
         /\ row' = [row EXCEPT ![e] = [version |-> d.version, status |-> d.status]]
         /\ log' = [log EXCEPT ![e] = Append(log[e], d.content)]
         /\ CommitNew(w) <=> d.version = 1
<1> DEFINE e == task[w].target
           d == task[w].draft
<1>1. Drafted(w) /\ InHand(w) /\ pc[w] = "commit"
  BY DEF IInv, WorkerOK, CommitNew, CommitVersion, Step
<1>2. e \in EventIds /\ d.version \in Nat
  BY <1>1 DEF Drafted, Draft
<1>3. row[e].version = Len(log[e]) /\ row[e].version \in Nat
  BY <1>2 DEF IInv, VersionsContiguous, TypeOK, Row
<1>4. d.version = Len(log[e]) + 1
  BY <1>2, <1>3 DEF CommitNew, CommitVersion, IsNew, VersionUnmoved
<1>5. Commit(w, e, d)
  BY DEF CommitNew, CommitVersion
<1>6. log' = [log EXCEPT ![e] = Append(log[e], d.content)]
  BY <1>5 DEF Commit, IInv, TypeOK
<1>7. CommitNew(w) <=> d.version = 1
  BY DEF CommitNew, CommitVersion, IsNew
<1> QED
  BY <1>1, <1>4, <1>5, <1>6, <1>7 DEF Commit

\* No step removes a version, changes one or makes an event unknown.
Grows ==
  \A e \in EventIds :
    /\ row[e].version > 0 => row'[e].version > 0
    /\ \A i \in 1 .. Len(log[e]) : /\ i \in 1 .. Len(log'[e])
                                   /\ log'[e][i] = log[e][i]

LEMMA NextGrows ==
  ASSUME IInv, [Next]_vars
  PROVE  Grows
<1>1. TypeOK
  BY DEF IInv
<1>2. CASE UNCHANGED <<row, log>>
  BY <1>2 DEF Grows
<1>3. ASSUME NEW w \in Workers, CommitNew(w) \/ CommitVersion(w) PROVE Grows
  <2> DEFINE e == task[w].target
             d == task[w].draft
  <2>1. /\ Drafted(w)
        /\ d.version = Len(log[e]) + 1
        /\ row' = [row EXCEPT ![e] = [version |-> d.version, status |-> d.status]]
        /\ log' = [log EXCEPT ![e] = Append(log[e], d.content)]
    BY <1>3, CommitEffect
  <2>2. e \in EventIds /\ d.content \in Content /\ log[e] \in Seq(Content)
    BY <1>1, <2>1 DEF Drafted, Draft, TypeOK
  <2>3. row'[e].version > 0
    BY <1>1, <2>1, <2>2 DEF TypeOK
  <2>4. \A i \in 1 .. Len(log[e]) : /\ i \in 1 .. Len(log'[e])
                                   /\ log'[e][i] = log[e][i]
    BY <1>1, <2>1, <2>2 DEF TypeOK
  <2>5. \A f \in EventIds : f # e => row'[f] = row[f] /\ log'[f] = log[f]
    BY <1>1, <2>1 DEF TypeOK
  <2> QED
    BY <2>3, <2>4, <2>5 DEF Grows
<1> QED
  BY <1>2, <1>3, OnlyCommitsWrite

LEMMA NextContiguous ==
  ASSUME IInv, [Next]_vars
  PROVE  VersionsContiguous'
<1>1. TypeOK /\ VersionsContiguous
  BY DEF IInv
<1>2. CASE UNCHANGED <<row, log>>
  BY <1>1, <1>2 DEF VersionsContiguous
<1>3. ASSUME NEW w \in Workers, CommitNew(w) \/ CommitVersion(w)
      PROVE  VersionsContiguous'
  <2> DEFINE e == task[w].target
             d == task[w].draft
  <2>1. /\ Drafted(w)
        /\ d.version = Len(log[e]) + 1
        /\ row' = [row EXCEPT ![e] = [version |-> d.version, status |-> d.status]]
        /\ log' = [log EXCEPT ![e] = Append(log[e], d.content)]
    BY <1>3, CommitEffect
  <2>2. e \in EventIds /\ d.content \in Content /\ log[e] \in Seq(Content)
    BY <1>1, <2>1 DEF Drafted, Draft, TypeOK
  <2>3. d.status # "none"
    BY <2>1 DEF Drafted, DraftOf
  <2>4. row'[e] = [version |-> d.version, status |-> d.status]
    BY <1>1, <2>1, <2>2 DEF TypeOK
  <2>5. log'[e] = Append(log[e], d.content)
    BY <1>1, <2>1, <2>2 DEF TypeOK
  <2>6. Len(log'[e]) = d.version /\ log'[e] # << >>
    <3>1. Len(Append(log[e], d.content)) = Len(log[e]) + 1
      BY <2>2
    <3>2. Len(log[e]) \in Nat
      BY <2>2
    <3>3. Len(log'[e]) # 0
      BY <2>5, <3>1, <3>2
    <3>4. log'[e] # << >>
      BY <3>3
    <3> QED
      BY <2>1, <2>5, <3>1, <3>4
  <2>7. \A f \in EventIds : f # e => row'[f] = row[f] /\ log'[f] = log[f]
    BY <1>1, <2>1 DEF TypeOK
  <2> QED
    BY <1>1, <2>3, <2>4, <2>6, <2>7 DEF VersionsContiguous
<1> QED
  BY <1>2, <1>3, OnlyCommitsWrite

-----------------------------------------------------------------------------
(* What a worker holds stays usable.                                       *)

\* Whatever the other processes do.
LEMMA OthersFrame ==
  ASSUME IInv, NEW u \in Workers, Grows,
         pc'[u] = pc[u], task'[u] = task[u], sent' = sent
  PROVE  WorkerOK(u)'
<1>1. TypeOK /\ WorkerOK(u)
  BY DEF IInv
<1>2. Intent(u)' = Intent(u)
  BY DEF Intent
<1>3. InHand(u) => InHand(u)'
  BY <1>2 DEF InHand
<1>4. Chosen(u) => Chosen(u)'
  <2>1. task[u].target \in EventIds \cup {NoEvent}
    BY <1>1 DEF TypeOK, Task
  <2> QED
    BY <1>2, <2>1 DEF Chosen, Grows
<1>5. Drafted(u) => Drafted(u)'
  <2> SUFFICES ASSUME Drafted(u) PROVE Drafted(u)'
    OBVIOUS
  <2> DEFINE e == task[u].target
             d == task[u].draft
  <2>1. CASE d.version = 1
    <3>1. NewContent(u)' = NewContent(u)
      BY <1>2 DEF NewContent
    <3> QED
      BY <1>2, <2>1, <3>1 DEF Drafted
  <2>2. CASE d.version # 1
    <3>1. d.version - 1 \in 1 .. Len(log[e]) /\ e \in EventIds
      BY <2>2 DEF Drafted
    <3>2. d.version - 1 \in 1 .. Len(log'[e])
          /\ log'[e][d.version - 1] = log[e][d.version - 1]
      BY <3>1 DEF Grows
    <3> DEFINE c == log[e][d.version - 1]
    <3>3. DraftOf(u, c)
      BY <2>2 DEF Drafted
    <3>4. DraftOf(u, log[e][d.version - 1])'
      BY <1>2, <3>2, <3>3 DEF DraftOf, UpdatedContent, CancelledContent, NewContent
    <3> QED
      BY <1>2, <2>2, <3>2, <3>4 DEF Drafted
  <2> QED
    BY <2>1, <2>2
<1>6. Committed(u) => Committed(u)'
  BY DEF Committed, Grows
<1> QED
  BY <1>1, <1>3, <1>4, <1>5, <1>6 DEF WorkerOK

\* A call that is over holds nothing.
LEMMA AbandonedOK ==
  ASSUME TypeOK, NEW w \in Workers, Abandon(w)
  PROVE  WorkerOK(w)'
<1>1. pc'[w] = "idle" /\ task'[w] = NoTask
  BY DEF Abandon, TypeOK
<1> QED
  BY <1>1 DEF WorkerOK, NoTask

\* A step of w leaves the locals of the others alone.
LEMMA OthersAlone ==
  ASSUME TypeOK, NEW w \in Workers,
         Work(w) \/ Crash(w) \/ \E m \in Messages : Deliver(w, m)
  PROVE  /\ sent' = sent
         /\ \A u \in Workers \ {w} : pc'[u] = pc[u] /\ task'[u] = task[u]
<1> USE DEF TypeOK, Step, Abandon, env
<1>1. ASSUME Replay(w) \/ Accept(w) \/ Resolve(w) \/ CancelNothing(w)
             \/ RejectDestination(w) \/ CreateWithoutAudience(w)
      PROVE  /\ sent' = sent
             /\ \A u \in Workers \ {w} : pc'[u] = pc[u] /\ task'[u] = task[u]
  BY <1>1 DEF Replay, Accept, Resolve, CancelNothing, RejectDestination,
     CreateWithoutAudience
<1>2. ASSUME PrepareCancel(w) \/ PrepareUpdate(w) \/ PrepareCreate(w)
             \/ CommitNew(w) \/ DuplicateId(w) \/ CommitVersion(w)
             \/ VersionConflict(w)
      PROVE  /\ sent' = sent
             /\ \A u \in Workers \ {w} : pc'[u] = pc[u] /\ task'[u] = task[u]
  BY <1>2 DEF PrepareCancel, PrepareUpdate, PrepareCreate, CommitNew, DuplicateId,
     CommitVersion, VersionConflict
<1>3. ASSUME Sweep(w) \/ Invalidate(w) \/ Schedule(w) \/ ScheduleUnregistered(w)
             \/ SaveReceipt(w) \/ LockTimeout(w)
      PROVE  /\ sent' = sent
             /\ \A u \in Workers \ {w} : pc'[u] = pc[u] /\ task'[u] = task[u]
  BY <1>3 DEF Sweep, Invalidate, Schedule, ScheduleUnregistered, SaveReceipt,
     LockTimeout
<1>4. ASSUME Crash(w) \/ \E m \in Messages : Deliver(w, m)
      PROVE  /\ sent' = sent
             /\ \A u \in Workers \ {w} : pc'[u] = pc[u] /\ task'[u] = task[u]
  BY <1>4 DEF Crash, Deliver
<1> QED
  BY <1>1, <1>2, <1>3, <1>4 DEF Work

\* Up to the choice of the event.
LEMMA OwnIntake ==
  ASSUME IInv, TypeOK', NEW w \in Workers,
         Replay(w) \/ Accept(w) \/ Resolve(w) \/ RejectDestination(w)
         \/ VersionConflict(w) \/ \E m \in Messages : Deliver(w, m)
  PROVE  WorkerOK(w)'
<1>1. TypeOK /\ VersionsContiguous /\ WorkerOK(w)
  BY DEF IInv
<1>2. task[w] \in Task /\ task'[w] \in Task
  BY <1>1 DEF TypeOK
<1>3. ASSUME NEW m \in Messages, Deliver(w, m) PROVE WorkerOK(w)'
  <2>1. pc[w] = "idle" /\ pc'[w] = "lookup"
    BY <1>1, <1>3 DEF Deliver, Step, TypeOK
  <2>2. task'[w].msg = m /\ task'[w].pending = task[w].pending
    <3>1. PICK lag \in 0 .. MaxLag : task' = [task EXCEPT ![w].msg = m, ![w].at = now - lag]
      BY <1>3 DEF Deliver
    <3>2. task'[w] = [task[w] EXCEPT !.msg = m, !.at = now - lag]
      BY <1>1, <3>1 DEF TypeOK
    <3> QED
      BY <1>2, <3>2 DEF Task
  <2> QED
    BY <1>1, <2>1, <2>2 DEF WorkerOK, InHand
<1>4. ASSUME NEW x \in Result, pc[w] \in {"lookup", "resolve", "prepare", "commit"},
             pc'[w] = "receipt", task' = [task EXCEPT ![w].reply = x]
      PROVE  WorkerOK(w)'
  <2>1. /\ task'[w].msg = task[w].msg /\ task'[w].pending = task[w].pending
        /\ task'[w].reply = x
    BY <1>1, <1>4 DEF TypeOK, Task
  <2> QED
    BY <1>1, <1>4, <2>1 DEF WorkerOK, InHand
<1>5. CASE Replay(w)
  <2>1. PICK m \in Newest(w) : task' = [task EXCEPT ![w].reply = receipts[m].result]
    BY <1>5 DEF Replay
  <2>2. receipts[m].result \in Result
    BY <1>1, <2>1 DEF TypeOK, Newest, Recent, Receipt
  <2> QED
    BY <1>1, <1>4, <1>5, <2>1, <2>2 DEF Replay, Step, TypeOK
<1>6. CASE Accept(w)
  <2>1. CASE Intent(w).action = "cancel" \/ Intent(w).complete
    <3>1. /\ task' = task /\ sent' = sent
          /\ pc[w] = "lookup" /\ pc'[w] = "resolve"
      BY <1>1, <1>6, <2>1 DEF Accept, Step, TypeOK, env
    <3> QED
      BY <1>1, <2>1, <3>1 DEF WorkerOK, InHand, Intent
  <2>2. CASE ~ (Intent(w).action = "cancel" \/ Intent(w).complete)
    <3>1. Reply("needs_follow_up", NoEvent, 0) \in Result
      BY DEF Reply, Result, Outcomes
    <3> QED
      BY <1>1, <1>4, <1>6, <2>2, <3>1 DEF Accept, Step, TypeOK
  <2> QED
    BY <2>1, <2>2
<1>7. CASE Resolve(w)
  <2> DEFINE found == Resolved(Intent(w))
  <2>1. /\ Reply("ambiguous", NoEvent, 0) \in Result
        /\ Reply("unconfirmed", NoEvent, 0) \in Result
    BY DEF Reply, Result, Outcomes
  <2>2. CASE Step(w, "resolve", "receipt")
    BY <1>1, <1>4, <1>7, <2>1, <2>2 DEF Resolve, Step, TypeOK
  <2>3. CASE /\ Intent(w).confirmed
             /\ Step(w, "resolve", "prepare")
             /\ \E e \in (IF found = {} THEN {NoEvent} ELSE found) :
                  task' = [task EXCEPT ![w].target = e]
    <3>1. PICK e \in (IF found = {} THEN {NoEvent} ELSE found) :
            task' = [task EXCEPT ![w].target = e]
      BY <2>3
    <3>2. e # NoEvent => row[e].version > 0
      BY <3>1 DEF Resolved, IsExplicit, Matches, Known
    <3>3. /\ task'[w].target = e /\ task'[w].msg = task[w].msg
          /\ task'[w].pending = task[w].pending
      BY <1>1, <3>1 DEF TypeOK, Task
    <3>4. pc[w] = "resolve" /\ pc'[w] = "prepare"
      BY <1>1, <2>3 DEF Step, TypeOK
    <3>5. sent' = sent /\ row' = row
      BY <1>7 DEF Resolve, db, env
    <3> QED
      BY <1>1, <2>3, <3>2, <3>3, <3>4, <3>5 DEF WorkerOK, InHand, Chosen, Intent
  <2> QED
    BY <1>7, <2>2, <2>3 DEF Resolve
<1>8. CASE RejectDestination(w)
  <2>1. Reply("bad_target", task[w].target, 0) \in Result
    BY <1>2 DEF Task, Reply, Result, Outcomes
  <2> QED
    BY <1>1, <1>4, <1>8, <2>1 DEF RejectDestination, Step, TypeOK
<1>9. CASE VersionConflict(w)
  <2>1. Reply("conflict", task[w].target, 0) \in Result
    BY <1>2 DEF Task, Reply, Result, Outcomes
  <2> QED
    BY <1>1, <1>4, <1>9, <2>1 DEF VersionConflict, Step, TypeOK
<1> QED
  BY <1>3, <1>5, <1>6, <1>7, <1>8, <1>9

\* From the read of the newest version to the commit.
LEMMA OwnPrepare ==
  ASSUME IInv, TypeOK', NEW w \in Workers,
         PrepareCancel(w) \/ PrepareUpdate(w) \/ PrepareCreate(w)
  PROVE  WorkerOK(w)'
<1> DEFINE e == task[w].target
           d == task'[w].draft
<1>1. TypeOK /\ VersionsContiguous /\ WorkerOK(w)
  BY DEF IInv
<1>2. task[w] \in Task /\ task'[w] \in Task
  BY <1>1 DEF TypeOK
<1>3. pc[w] = "prepare" /\ pc'[w] = "commit"
  BY <1>1 DEF PrepareCancel, PrepareUpdate, PrepareCreate, Step, TypeOK
<1>4. InHand(w) /\ Chosen(w) /\ task[w].pending = {}
  BY <1>1, <1>3 DEF WorkerOK
<1>5. sent' = sent /\ log' = log
  BY DEF PrepareCancel, PrepareUpdate, PrepareCreate, db, env
<1>6. ASSUME /\ task'[w].msg = task[w].msg /\ task'[w].pending = {}
             /\ Drafted(w)'
      PROVE  WorkerOK(w)'
  BY <1>3, <1>4, <1>5, <1>6 DEF WorkerOK, InHand, Intent
<1>7. ASSUME e # NoEvent
      PROVE  /\ e \in EventIds
             /\ row[e].version \in 1 .. Len(log[e])
             /\ Latest(e) = log[e][row[e].version]
             /\ Latest(e) \in Content
  <2>1. e \in EventIds /\ row[e].version > 0
    BY <1>2, <1>4, <1>7 DEF Chosen, Task
  <2> QED
    BY <1>1, <2>1, LatestType DEF Latest
<1>8. ASSUME e # NoEvent, NEW st \in {"active", "cancelled"}, NEW c \in Content,
             task' = [task EXCEPT ![w].draft =
               [version |-> row[e].version + 1, status |-> st, content |-> c]]
      PROVE  /\ task'[w].msg = task[w].msg /\ task'[w].pending = {}
             /\ task'[w].target = e /\ task'[w].at = task[w].at
             /\ d = [version |-> row[e].version + 1, status |-> st, content |-> c]
             /\ d \in Draft
             /\ d.version # 1 /\ d.version - 1 = row[e].version
  <2> DEFINE x == [version |-> row[e].version + 1, status |-> st, content |-> c]
  <2>1. row[e].version \in Nat /\ row[e].version >= 1
    BY <1>7, <1>8
  <2>2. x \in Draft
    BY <2>1 DEF Draft, Statuses
  <2>3. task'[w] = [task[w] EXCEPT !.draft = x]
    BY <1>1, <1>8 DEF TypeOK
  <2>4. /\ task'[w].msg = task[w].msg /\ task'[w].pending = task[w].pending
        /\ task'[w].target = e /\ task'[w].at = task[w].at
        /\ d = x
    BY <1>2, <2>3 DEF Task
  <2> QED
    BY <1>4, <2>1, <2>2, <2>4
<1>9. CASE PrepareCancel(w)
  <2> DEFINE c == CancelledContent(w, Latest(e))
  <2>1. e # NoEvent /\ Intent(w).action = "cancel"
    BY <1>9 DEF PrepareCancel
  <2>2. c \in Content
    BY <1>1, <1>4, <1>7, <2>1, ContentType DEF InHand
  <2>3. task' = [task EXCEPT ![w].draft =
          [version |-> row[e].version + 1, status |-> "cancelled", content |-> c]]
    BY <1>9 DEF PrepareCancel
  <2>4. /\ task'[w].msg = task[w].msg /\ task'[w].pending = {}
        /\ task'[w].target = e /\ task'[w].at = task[w].at
        /\ d = [version |-> row[e].version + 1, status |-> "cancelled", content |-> c]
        /\ d \in Draft
        /\ d.version # 1 /\ d.version - 1 = row[e].version
    BY <1>8, <2>1, <2>2, <2>3
  <2>5. d.status = "cancelled" /\ d.content = CancelledContent(w, Latest(e))
    BY <2>4
  <2>6. /\ task'[w].target = e
        /\ log'[e][d.version - 1] = Latest(e)
    BY <1>5, <1>7, <2>1, <2>4
  <2>7. DraftOf(w, log[e][task[w].draft.version - 1])'
    BY <1>5, <2>1, <2>4, <2>5, <2>6 DEF DraftOf, Intent, CancelledContent
  <2>8. d.version - 1 \in 1 .. Len(log'[e])
    BY <1>5, <1>7, <2>1, <2>4
  <2> QED
    BY <1>4, <1>5, <1>6, <1>7, <2>1, <2>4, <2>7, <2>8 DEF Drafted, Intent, Chosen
<1>10. CASE PrepareUpdate(w)
  <2> DEFINE c == UpdatedContent(w, Latest(e))
  <2>1. e # NoEvent /\ Intent(w).action # "cancel" /\ Intent(w).dest_ok
    BY <1>10 DEF PrepareUpdate
  <2>2. c \in Content
    BY <1>1, <1>4, <1>7, <2>1, ContentType DEF InHand
  <2>3. task' = [task EXCEPT ![w].draft =
          [version |-> row[e].version + 1, status |-> "active", content |-> c]]
    BY <1>10 DEF PrepareUpdate
  <2>4. /\ task'[w].msg = task[w].msg /\ task'[w].pending = {}
        /\ task'[w].target = e /\ task'[w].at = task[w].at
        /\ d = [version |-> row[e].version + 1, status |-> "active", content |-> c]
        /\ d \in Draft
        /\ d.version # 1 /\ d.version - 1 = row[e].version
    BY <1>8, <2>1, <2>2, <2>3
  <2>5. d.status = "active" /\ d.content = UpdatedContent(w, Latest(e))
    BY <2>4
  <2>6. /\ task'[w].target = e
        /\ log'[e][d.version - 1] = Latest(e)
    BY <1>5, <1>7, <2>1, <2>4
  <2>7. DraftOf(w, log[e][task[w].draft.version - 1])'
    <3>1. Intent(w)' = Intent(w)
      BY <1>5, <2>4 DEF Intent
    <3>2. ASSUME NEW x PROVE UpdatedContent(w, x)' = UpdatedContent(w, x)
      BY <2>4, <3>1 DEF UpdatedContent, NewContent
    <3>3. PICK x : x = Latest(e)
      OBVIOUS
    <3>4. d.status = "active" /\ d.content = UpdatedContent(w, x)'
      BY <2>5, <3>2, <3>3
    <3>5. DraftOf(w, x)'
      BY <2>1, <3>1, <3>4 DEF DraftOf
    <3>6. log'[task'[w].target][task'[w].draft.version - 1] = x
      BY <2>6, <3>3
    <3> QED
      BY <2>6, <3>5, <3>6
  <2>8. d.version - 1 \in 1 .. Len(log'[e])
    BY <1>5, <1>7, <2>1, <2>4
  <2> QED
    BY <1>4, <1>5, <1>6, <1>7, <2>1, <2>4, <2>7, <2>8 DEF Drafted, Intent, Chosen
<1>11. CASE PrepareCreate(w)
  <2>1. /\ Intent(w).action # "cancel" /\ Intent(w).dest_ok
        /\ Intent(w).audience # {} /\ NextEventId \in EventIds
    BY <1>11 DEF PrepareCreate
  <2>2. task'[w] = [task[w] EXCEPT !.target = NextEventId, !.draft =
          [version |-> 1, status |-> "active", content |-> NewContent(w)]]
    BY <1>1, <1>11 DEF PrepareCreate, TypeOK
  <2>3. /\ task'[w].msg = task[w].msg /\ task'[w].pending = {}
        /\ task'[w].target = NextEventId /\ task'[w].at = task[w].at
        /\ d = [version |-> 1, status |-> "active", content |-> NewContent(w)]
    BY <1>2, <1>4, <2>2 DEF Task
  <2>4. NewContent(w) \in Content
    <3>1. Intent(w) \in IntentType /\ task[w].at \in Times
      BY <1>1, <1>2, <1>4 DEF TypeOK, Intent, Task, InHand
    <3> QED
      BY <1>4, <3>1 DEF NewContent, Content, IntentType, InHand
  <2>5. d \in Draft
    BY <2>3, <2>4 DEF Draft, Statuses
  <2> QED
    BY <1>4, <1>5, <1>6, <2>1, <2>3, <2>5 DEF Drafted, Intent, Chosen, NewContent
<1> QED
  BY <1>9, <1>10, <1>11

\* The commit makes what was drafted a version.
LEMMA OwnCommit ==
  ASSUME IInv, TypeOK', NEW w \in Workers, CommitNew(w) \/ CommitVersion(w)
  PROVE  WorkerOK(w)'
<1> DEFINE e == task[w].target
           d == task[w].draft
<1>1. TypeOK /\ WorkerOK(w)
  BY DEF IInv
<1>2. /\ Drafted(w) /\ InHand(w) /\ pc[w] = "commit"
      /\ d.version = Len(log[e]) + 1
      /\ log' = [log EXCEPT ![e] = Append(log[e], d.content)]
  BY CommitEffect
<1>3. e \in EventIds /\ d \in Draft /\ d.content \in Content /\ log[e] \in Seq(Content)
  BY <1>1, <1>2 DEF Drafted, Draft, TypeOK
<1>4. log'[e] = Append(log[e], d.content)
  BY <1>1, <1>2, <1>3 DEF TypeOK
<1>5. d.version \in 1 .. Len(log'[e]) /\ log'[e][d.version] = d.content
  BY <1>2, <1>3, <1>4
<1>6. sent' = sent
  BY DEF CommitNew, CommitVersion, env
<1>7. task[w] \in Task /\ task[w].pending = {}
  BY <1>1, <1>2 DEF TypeOK, WorkerOK
<1>8. CASE CommitNew(w)
  <2>1. pc'[w] = "schedule"
    BY <1>1, <1>8 DEF CommitNew, Step, TypeOK
  <2>2. task'[w] = [task[w] EXCEPT !.pending = d.content.audience]
    BY <1>1, <1>8 DEF CommitNew, TypeOK
  <2>3. /\ task'[w].msg = task[w].msg /\ task'[w].target = e /\ task'[w].draft = d
        /\ task'[w].pending = d.content.audience
    BY <1>7, <2>2 DEF Task
  <2> QED
    BY <1>2, <1>3, <1>5, <1>6, <2>1, <2>3 DEF WorkerOK, Committed, InHand, Intent
<1>9. CASE CommitVersion(w)
  <2>1. pc'[w] = "sweep" /\ task' = task
    BY <1>1, <1>9 DEF CommitVersion, Step, TypeOK
  <2> QED
    BY <1>2, <1>3, <1>5, <1>6, <1>7, <2>1 DEF WorkerOK, Committed, InHand, Intent
<1> QED
  BY <1>8, <1>9

\* After the commit.
LEMMA OwnReminders ==
  ASSUME IInv, TypeOK', NEW w \in Workers, Sweep(w) \/ Invalidate(w) \/ Schedule(w)
  PROVE  WorkerOK(w)'
<1> DEFINE d == task[w].draft
<1>1. TypeOK /\ WorkerOK(w)
  BY DEF IInv
<1>2. /\ pc[w] \in {"sweep", "invalidate", "schedule"}
      /\ Committed(w) /\ InHand(w) /\ task[w] \in Task
      /\ pc[w] # "schedule" => task[w].pending = {}
  BY <1>1 DEF WorkerOK, TypeOK, Sweep, Invalidate, Schedule, Step
<1>3. sent' = sent /\ log' = log
  BY DEF Sweep, Invalidate, Schedule, db, env
<1>4. OkReply(w) \in Result
  BY <1>2 DEF Committed, OkReply, Reply, Result, Outcomes, Draft
<1>5. ASSUME /\ task'[w].msg = task[w].msg /\ task'[w].target = task[w].target
             /\ task'[w].draft = d
             /\ task'[w].pending \subseteq d.content.audience
             /\ pc'[w] \in {"invalidate", "schedule", "receipt"}
             /\ pc'[w] # "schedule" => task'[w].pending = {}
             /\ pc'[w] = "receipt" => task'[w].reply \in Result
      PROVE  WorkerOK(w)'
  BY <1>2, <1>3, <1>5 DEF WorkerOK, Committed, InHand, Intent
<1>6. ASSUME pc'[w] = AfterSweep(w), task'[w] = SweepDone(w) PROVE WorkerOK(w)'
  <2>1. /\ task'[w].msg = task[w].msg /\ task'[w].target = task[w].target
        /\ task'[w].draft = d
        /\ task'[w].pending = IF d.status = "cancelled" THEN {} ELSE d.content.audience
        /\ d.status = "cancelled" => task'[w].reply = OkReply(w)
    BY <1>2, <1>6 DEF SweepDone, Task
  <2> QED
    BY <1>4, <1>5, <1>6, <2>1 DEF AfterSweep
<1>7. CASE Sweep(w)
  <2> DEFINE found == Superseded(task[w].target, task[w].draft.version, task[w].at)
  <2>1. CASE found = {}
    BY <1>1, <1>6, <1>7, <2>1 DEF Sweep, Step, TypeOK
  <2>2. CASE found # {}
    <3>1. pc[w] = "sweep" /\ pc'[w] = "invalidate"
          /\ task'[w] = [task[w] EXCEPT !.todo = found]
      BY <1>1, <1>7, <2>2 DEF Sweep, Step, TypeOK
    <3>2. /\ task'[w].msg = task[w].msg /\ task'[w].target = task[w].target
          /\ task'[w].draft = d /\ task'[w].pending = task[w].pending
      BY <1>2, <3>1 DEF Task
    <3> QED
      BY <1>2, <1>5, <3>1, <3>2
  <2> QED
    BY <2>1, <2>2
<1>8. CASE Invalidate(w)
  <2>1. PICK r \in task[w].todo :
          IF task[w].todo = {r}
            THEN /\ Step(w, "invalidate", AfterSweep(w))
                 /\ task' = [task EXCEPT ![w] = SweepDone(w)]
            ELSE /\ Step(w, "invalidate", "invalidate")
                 /\ task' = [task EXCEPT ![w].todo = @ \ {r}]
    BY <1>8 DEF Invalidate
  <2>2. CASE task[w].todo = {r}
    BY <1>1, <1>6, <2>1, <2>2 DEF Step, TypeOK
  <2>3. CASE task[w].todo # {r}
    <3>1. pc[w] = "invalidate" /\ pc'[w] = "invalidate"
          /\ task'[w] = [task[w] EXCEPT !.todo = @ \ {r}]
      BY <1>1, <2>1, <2>3 DEF Step, TypeOK
    <3>2. /\ task'[w].msg = task[w].msg /\ task'[w].target = task[w].target
          /\ task'[w].draft = d /\ task'[w].pending = task[w].pending
      BY <1>2, <3>1 DEF Task
    <3> QED
      BY <1>2, <1>5, <3>1, <3>2
  <2> QED
    BY <2>2, <2>3
<1>9. CASE Schedule(w)
  <2>1. PICK p \in NextUp(w) :
          IF task[w].pending = {p}
            THEN /\ Step(w, "schedule", "receipt")
                 /\ task' = [task EXCEPT ![w].pending = {}, ![w].reply = OkReply(w)]
            ELSE /\ Step(w, "schedule", "schedule")
                 /\ task' = [task EXCEPT ![w].pending = @ \ {p}]
    BY <1>9 DEF Schedule
  <2>2. CASE task[w].pending = {p}
    <3>1. pc'[w] = "receipt"
          /\ task'[w] = [task[w] EXCEPT !.pending = {}, !.reply = OkReply(w)]
      BY <1>1, <2>1, <2>2 DEF Step, TypeOK
    <3>2. /\ task'[w].msg = task[w].msg /\ task'[w].target = task[w].target
          /\ task'[w].draft = d /\ task'[w].pending = {}
          /\ task'[w].reply = OkReply(w)
      BY <1>2, <3>1 DEF Task
    <3> QED
      BY <1>2, <1>4, <1>5, <3>1, <3>2
  <2>3. CASE task[w].pending # {p}
    <3>1. pc'[w] = "schedule"
          /\ task'[w] = [task[w] EXCEPT !.pending = @ \ {p}]
      BY <1>1, <2>1, <2>3 DEF Step, TypeOK
    <3>2. /\ task'[w].msg = task[w].msg /\ task'[w].target = task[w].target
          /\ task'[w].draft = d /\ task'[w].pending = task[w].pending \ {p}
      BY <1>2, <3>1 DEF Task
    <3> QED
      BY <1>2, <1>5, <3>1, <3>2 DEF Committed
  <2> QED
    BY <2>2, <2>3
<1> QED
  BY <1>7, <1>8, <1>9

LEMMA NextWorkers ==
  ASSUME IInv, TypeOK', [Next]_vars
  PROVE  \A u \in Workers : WorkerOK(u)'
<1>1. TypeOK /\ Grows
  BY NextGrows DEF IInv
<1>2. ASSUME NEW w \in Workers, WorkerOK(w)',
             Work(w) \/ Crash(w) \/ \E m \in Messages : Deliver(w, m)
      PROVE  \A u \in Workers : WorkerOK(u)'
  BY <1>1, <1>2, OthersAlone, OthersFrame
<1>3. ASSUME NEW w \in Workers, Work(w) PROVE WorkerOK(w)'
  <2>1. ASSUME Abandon(w) PROVE WorkerOK(w)'
    BY <1>1, <2>1, AbandonedOK
  <2>2. CASE CancelNothing(w) \/ CreateWithoutAudience(w) \/ DuplicateId(w)
             \/ ScheduleUnregistered(w) \/ SaveReceipt(w) \/ LockTimeout(w)
    BY <2>1, <2>2 DEF CancelNothing, CreateWithoutAudience, DuplicateId,
       ScheduleUnregistered, SaveReceipt, LockTimeout
  <2> QED
    BY <1>3, <2>2, OwnIntake, OwnPrepare, OwnCommit, OwnReminders DEF Work
<1>4. ASSUME NEW w \in Workers, Crash(w) PROVE WorkerOK(w)'
  BY <1>1, <1>4, AbandonedOK DEF Crash
<1>5. ASSUME NEW w \in Workers, NEW m \in Messages, Deliver(w, m) PROVE WorkerOK(w)'
  BY <1>5, OwnIntake
<1>6. ASSUME UNCHANGED <<pc, task, sent>> PROVE \A u \in Workers : WorkerOK(u)'
  BY <1>1, <1>6, OthersFrame
<1>7. CASE UNCHANGED vars
  BY <1>6, <1>7 DEF vars, env
<1>8. CASE Tick
  BY <1>6, <1>8 DEF Tick
<1>9. ASSUME NEW p \in Recipients, NEW st \in {"no_tz", "ok"}, RegisterTarget(p, st)
      PROVE  \A u \in Workers : WorkerOK(u)'
  BY <1>6, <1>9 DEF RegisterTarget, env
<1> QED
  BY <1>2, <1>3, <1>4, <1>5, <1>7, <1>8, <1>9 DEF Next

\* The invariant is inductive.
LEMMA NextIInv ==
  ASSUME IInv, [Next]_vars
  PROVE  IInv'
BY NextType, NextContiguous, NextWorkers DEF IInv

-----------------------------------------------------------------------------

\* Whatever processes interleave, die or are refused the lock, the locals of
\* every call of process_intent fit what the database holds by then.
THEOREM InductiveInvariant == Spec => []IInv
BY InitIInv, NextIInv, PTL DEF Spec

\* Every variable keeps its type.
THEOREM TypeCorrect == Spec => []TypeOK
BY InductiveInvariant, PTL DEF IInv

\* The events table and the event_versions table never disagree, and the
\* versions of an event have no gap (append_event_version, save_new_event).
THEOREM Contiguous == Spec => []VersionsContiguous
BY InductiveInvariant, PTL DEF IInv

-----------------------------------------------------------------------------
(* Intake implements EventLedger: a commit is Open, Revise or Close, every *)
(* other step leaves the ledger alone.                                     *)

LEMMA LedgerStart ==
  ASSUME Init PROVE Ledger!LedgerInit
BY DEF Init, NoRow, Ledger!LedgerInit

\* The status the abstract store shows after a commit.
LEMMA LedgerPut ==
  ASSUME IInv, NEW w \in Workers, CommitNew(w) \/ CommitVersion(w)
  PROVE  Ledger!Put(task[w].target, task[w].draft.status, task[w].draft.content)
<1> DEFINE e == task[w].target
           d == task[w].draft
<1>1. /\ Drafted(w)
      /\ row' = [row EXCEPT ![e] = [version |-> d.version, status |-> d.status]]
      /\ log' = [log EXCEPT ![e] = Append(log[e], d.content)]
  BY CommitEffect
<1>2. TypeOK /\ e \in EventIds
  BY <1>1 DEF IInv, Drafted
<1>3. [f \in EventIds |-> row'[f].status]
        = [[f \in EventIds |-> row[f].status] EXCEPT ![e] = d.status]
  BY <1>1, <1>2 DEF TypeOK
<1>4. sent' = sent
  BY DEF CommitNew, CommitVersion, env
<1> QED
  BY <1>1, <1>3, <1>4 DEF Ledger!Put

LEMMA LedgerCommit ==
  ASSUME IInv, NEW w \in Workers, CommitNew(w) \/ CommitVersion(w)
  PROVE  Ledger!LedgerNext
<1> DEFINE e == task[w].target
           d == task[w].draft
           m == task[w].msg
           t == task[w].at
<1>1. /\ Drafted(w) /\ InHand(w) /\ pc[w] = "commit"
      /\ d.version = Len(log[e]) + 1
      /\ CommitNew(w) <=> d.version = 1
  BY CommitEffect
<1>2. e \in EventIds /\ m \in Messages /\ t \in Times /\ d \in Draft
  BY <1>1 DEF Drafted, InHand, IInv, TypeOK, Task
<1>3. Ledger!MayMutate(sent[m])
  BY <1>1 DEF Drafted, InHand, Intent, Ledger!MayMutate
<1>4. Ledger!Put(e, d.status, d.content)
  BY LedgerPut
<1>5. log[e] \in Seq(Content)
  BY <1>2 DEF IInv, TypeOK
<1>6. CASE d.version = 1
  <2>1. log[e] = << >>
    BY <1>1, <1>5, <1>6
  <2>2. /\ Intent(w).action # "cancel" /\ Intent(w).audience # {}
        /\ d.status = "active" /\ d.content = NewContent(w)
    BY <1>1, <1>6 DEF Drafted
  <2>3. NewContent(w) = Ledger!First(m, t)
    BY DEF NewContent, Intent, Ledger!First
  <2>4. Ledger!Open(e, m, t)
    BY <1>3, <1>4, <2>1, <2>2, <2>3 DEF Intent, Ledger!Put, Ledger!Open
  <2> QED
    BY <1>2, <2>4 DEF Ledger!LedgerNext, Ledger!Open, Ledger!Put
<1>7. CASE d.version # 1
  <2>1. /\ d.version - 1 \in 1 .. Len(log[e])
        /\ DraftOf(w, log[e][d.version - 1])
    BY <1>1, <1>7 DEF Drafted
  <2>2. log[e] # << >> /\ log[e][d.version - 1] = Ledger!Newest(e)
    <3>1. d.version - 1 = Len(log[e])
      BY <1>1, <1>2, <1>5 DEF Draft
    <3> QED
      BY <1>5, <2>1, <3>1 DEF Ledger!Newest
  <2> DEFINE c == Ledger!Newest(e)
  <2>3. CASE Intent(w).action = "cancel"
    <3>1. d.status = "cancelled" /\ d.content = CancelledContent(w, c)
      BY <2>1, <2>2, <2>3 DEF DraftOf
    <3>2. CancelledContent(w, c) = Ledger!Closed(c, m, t)
      BY DEF CancelledContent, Ledger!Closed
    <3>3. Ledger!Close(e, m, t)
      BY <1>3, <1>4, <2>2, <2>3, <3>1, <3>2 DEF Intent, Ledger!Put, Ledger!Close
    <3> QED
      BY <1>2, <3>3 DEF Ledger!LedgerNext, Ledger!Close, Ledger!Put
  <2>4. CASE Intent(w).action # "cancel"
    <3>1. d.status = "active" /\ d.content = UpdatedContent(w, c)
      BY <2>1, <2>2, <2>4 DEF DraftOf
    <3>2. UpdatedContent(w, c) = Ledger!Revised(c, m, t)
      BY DEF UpdatedContent, NewContent, Intent, Ledger!Revised
    <3>3. Ledger!Revise(e, m, t)
      BY <1>3, <1>4, <2>2, <2>4, <3>1, <3>2 DEF Intent, Ledger!Put, Ledger!Revise
    <3> QED
      BY <1>2, <3>3 DEF Ledger!LedgerNext, Ledger!Revise, Ledger!Put
  <2> QED
    BY <2>3, <2>4
<1> QED
  BY <1>6, <1>7

\* No message changes its intent.
LEMMA SentConstant ==
  ASSUME IInv, [Next]_vars PROVE sent' = sent
<1>1. TypeOK
  BY DEF IInv
<1> QED
  BY <1>1, OthersAlone DEF Next, RegisterTarget, Tick, vars, env

LEMMA LedgerStep ==
  ASSUME IInv, [Next]_vars
  PROVE  [Ledger!LedgerNext]_(Ledger!ledgerVars)
<1>1. CASE UNCHANGED <<row, log>>
  <2>1. [f \in EventIds |-> row'[f].status] = [f \in EventIds |-> row[f].status]
    BY <1>1
  <2> QED
    BY <1>1, <2>1, SentConstant DEF Ledger!ledgerVars
<1> QED
  BY <1>1, OnlyCommitsWrite, LedgerCommit

\* The reads and the commits of process_intent, separate steps that other
\* processes and crashes come between, amount to versions made atomically from
\* the newest one by confirmed and valid messages.
THEOREM Refinement == Spec => ImplementsLedger
<1>1. Spec => Ledger!LedgerInit /\ [][Ledger!LedgerNext]_(Ledger!ledgerVars)
  BY LedgerStart, LedgerStep, InductiveInvariant, PTL DEF Spec
<1> QED
  BY <1>1 DEF ImplementsLedger, Ledger!LedgerSpec

-----------------------------------------------------------------------------
(* Reminders.                                                              *)

\* What ReminderOfVersion says of one row, apart from the key.
Dated(r, l) ==
  /\ r.version \in 1 .. Len(l[r.event])
  /\ r.recipient \in l[r.event][r.version].audience
  /\ r.trigger = Trigger[l[r.event][r.version].slot]

OneRowPerKey(rs) == \A r, s \in rs : SameKey(r, s) => r = s

LEMMA ReminderSplit ==
  ReminderOfVersion <=> (\A r \in reminders : Dated(r, log)) /\ OneRowPerKey(reminders)
BY DEF ReminderOfVersion, Dated, OneRowPerKey

\* A row that fits the log still fits it when the log has grown.
LEMMA DatedGrows ==
  ASSUME IInv, Grows, NEW r \in Reminder, Dated(r, log)
  PROVE  Dated(r, log')
<1>1. r.event \in EventIds
  BY DEF Reminder
<1> QED
  BY <1>1 DEF Dated, Grows

LEMMA OnlyRemindersWritten ==
  ASSUME [Next]_vars
  PROVE  \/ \E w \in Workers : Invalidate(w) \/ Schedule(w)
         \/ UNCHANGED reminders
<1>1. ASSUME NEW w \in Workers, Work(w)
      PROVE  Invalidate(w) \/ Schedule(w) \/ UNCHANGED reminders
  BY <1>1 DEF Work, Replay, Accept, Resolve, CancelNothing, PrepareCancel,
     PrepareUpdate, PrepareCreate, CreateWithoutAudience, RejectDestination,
     CommitNew, CommitVersion, DuplicateId, VersionConflict, Sweep,
     ScheduleUnregistered, SaveReceipt, LockTimeout, db
<1>2. ASSUME NEW w \in Workers, Crash(w) \/ \E m \in Messages : Deliver(w, m)
      PROVE  UNCHANGED reminders
  BY <1>2 DEF Crash, Deliver, db
<1>3. ASSUME NEW p \in Recipients, NEW st \in {"no_tz", "ok"}, RegisterTarget(p, st)
      PROVE  UNCHANGED reminders
  BY <1>3 DEF RegisterTarget
<1> QED
  BY <1>1, <1>2, <1>3 DEF Next, Tick, vars, db

\* Invalidating changes a status, never a key, a version or a trigger.
LEMMA InvalidateReminders ==
  ASSUME IInv, ReminderOfVersion, NEW w \in Workers, Invalidate(w)
  PROVE  ReminderOfVersion'
<1>1. PICK r : reminders' = Overwrite(r, "invalidated")
  BY DEF Invalidate
<1>2. log' = log /\ reminders \subseteq Reminder
  BY DEF Invalidate, IInv, TypeOK
<1>3. \A s \in reminders' : \E o \in reminders :
        /\ s = IF SameKey(r, o) THEN [o EXCEPT !.status = "invalidated"] ELSE o
        /\ s.event = o.event /\ s.version = o.version
        /\ s.recipient = o.recipient /\ s.trigger = o.trigger
  BY <1>1, <1>2 DEF Overwrite, Reminder
<1>4. \A s \in reminders' : Dated(s, log')
  BY <1>2, <1>3, ReminderSplit DEF Dated
<1>5. OneRowPerKey(reminders')
  <2> SUFFICES ASSUME NEW s \in reminders', NEW t \in reminders', SameKey(s, t)
               PROVE  s = t
    BY DEF OneRowPerKey
  <2>1. PICK o \in reminders :
          /\ s = IF SameKey(r, o) THEN [o EXCEPT !.status = "invalidated"] ELSE o
          /\ s.event = o.event /\ s.version = o.version /\ s.recipient = o.recipient
    BY <1>3
  <2>2. PICK q \in reminders :
          /\ t = IF SameKey(r, q) THEN [q EXCEPT !.status = "invalidated"] ELSE q
          /\ t.event = q.event /\ t.version = q.version /\ t.recipient = q.recipient
    BY <1>3
  <2>3. o = q
    BY <2>1, <2>2, ReminderSplit DEF OneRowPerKey, SameKey
  <2> QED
    BY <2>1, <2>2, <2>3
<1> QED
  BY <1>4, <1>5, ReminderSplit DEF ReminderOfVersion, Dated, OneRowPerKey

\* The row added is of the version committed, and replaces that of its key.
LEMMA ScheduleReminders ==
  ASSUME IInv, ReminderOfVersion, NEW w \in Workers, Schedule(w)
  PROVE  ReminderOfVersion'
<1> DEFINE d == task[w].draft
<1>1. PICK p \in NextUp(w) :
        LET r == NewReminder(w, p)
            old == {s \in reminders : SameKey(r, s)}
        IN reminders' = IF old # {} /\ targets[p] = "ok" THEN reminders
                        ELSE (reminders \ old) \cup {r}
  BY DEF Schedule
<1>2. log' = log /\ Committed(w)
  BY DEF Schedule, IInv, WorkerOK
<1> DEFINE r == NewReminder(w, p)
           old == {s \in reminders : SameKey(r, s)}
<1>3. /\ r.event = task[w].target /\ r.version = d.version /\ r.recipient = p
      /\ r.trigger = Trigger[d.content.slot]
  BY DEF NewReminder
<1>4. Dated(r, log)
  <2>1. p \in d.content.audience
    BY <1>2 DEF NextUp, Committed
  <2> QED
    BY <1>2, <1>3, <2>1 DEF Dated, Committed
<1>5. CASE reminders' = reminders
  BY <1>2, <1>5 DEF ReminderOfVersion
<1>6. CASE reminders' = (reminders \ old) \cup {r}
  <2>1. \A s \in reminders' : Dated(s, log')
    BY <1>2, <1>4, <1>6, ReminderSplit
  <2>2. OneRowPerKey(reminders')
    BY <1>6, ReminderSplit DEF OneRowPerKey, SameKey
  <2> QED
    BY <2>1, <2>2 DEF ReminderOfVersion, Dated, OneRowPerKey
<1> QED
  BY <1>1, <1>5, <1>6

LEMMA NextReminders ==
  ASSUME IInv, ReminderOfVersion, [Next]_vars
  PROVE  ReminderOfVersion'
<1>1. CASE UNCHANGED reminders
  <2>1. \A r \in reminders : Dated(r, log')
    BY NextGrows, DatedGrows, ReminderSplit DEF IInv, TypeOK
  <2> QED
    BY <1>1, <2>1, ReminderSplit DEF ReminderOfVersion, Dated, OneRowPerKey
<1> QED
  BY <1>1, OnlyRemindersWritten, InvalidateReminders, ScheduleReminders

\* A reminder row always belongs to a committed version: right audience, right
\* trigger, one row per dedupe key (_schedule_reminders, save_reminder).
THEOREM RemindersDated == Spec => []ReminderOfVersion
<1>1. Init => ReminderOfVersion
  BY DEF Init, ReminderOfVersion
<1> QED
  BY <1>1, NextReminders, InductiveInvariant, PTL DEF Spec

-----------------------------------------------------------------------------
(* Answers.                                                                *)

\* What an answer "ok" to the intent i claims of the versions in l.
Honest(a, i, l) ==
  a.status = "ok" =>
    /\ a.event \in EventIds
    /\ a.version \in 1 .. Len(l[a.event])
    /\ LET by == sent[l[a.event][a.version].source] IN by.confirmed /\ Hash(by) = Hash(i)

\* A worker that has committed has a confirmed message, the source of its version;
\* what it is about to answer is honest.
Answering(w) ==
  /\ pc[w] \in {"sweep", "invalidate", "schedule"} =>
       Intent(w).confirmed /\ task[w].draft.content.source = task[w].msg
  /\ pc[w] = "receipt" => Honest(task[w].reply, Intent(w), log)

\* OkAnswerTrue is not inductive: a replay answers from a receipt, found by its
\* hash, so the hash must be that of the message the receipt is of.
Receipted(m) ==
  receipts[m] # None =>
    receipts[m].hash = Hash(sent[m]) /\ Honest(receipts[m].result, sent[m], log)

Answers == (\A w \in Workers : Answering(w)) /\ (\A m \in Messages : Receipted(m))

LEMMA HonestGrows ==
  ASSUME Grows, NEW a, NEW i, Honest(a, i, log)
  PROVE  Honest(a, i, log')
BY DEF Honest, Grows

\* A claim is about the words of an intent and not its confirmation.
LEMMA HonestHash ==
  ASSUME NEW a, NEW i, NEW j, Hash(i) = Hash(j), Honest(a, i, log)
  PROVE  Honest(a, j, log)
BY DEF Honest

LEMMA OnlyReceiptsSaved ==
  ASSUME [Next]_vars
  PROVE  (\E w \in Workers : SaveReceipt(w)) \/ UNCHANGED receipts
<1>1. ASSUME NEW w \in Workers, Work(w) PROVE SaveReceipt(w) \/ UNCHANGED receipts
  BY <1>1 DEF Work, Replay, Accept, Resolve, CancelNothing, PrepareCancel,
     PrepareUpdate, PrepareCreate, CreateWithoutAudience, RejectDestination,
     CommitNew, CommitVersion, DuplicateId, VersionConflict, Sweep, Invalidate, Schedule,
     ScheduleUnregistered, LockTimeout, db
<1>2. ASSUME NEW w \in Workers, Crash(w) \/ \E m \in Messages : Deliver(w, m)
      PROVE  UNCHANGED receipts
  BY <1>2 DEF Crash, Deliver, db
<1>3. ASSUME NEW p \in Recipients, NEW st \in {"no_tz", "ok"}, RegisterTarget(p, st)
      PROVE  UNCHANGED receipts
  BY <1>3 DEF RegisterTarget
<1> QED
  BY <1>1, <1>2, <1>3 DEF Next, Tick, vars, db

\* The receipt saved is that of the message answered.
LEMMA NextReceipted ==
  ASSUME IInv, Answers, [Next]_vars, NEW m \in Messages
  PROVE  Receipted(m)'
<1>1. sent' = sent /\ Grows
  BY SentConstant, NextGrows
<1>2. CASE receipts'[m] = receipts[m]
  <2>1. receipts[m] # None => Honest(receipts[m].result, sent[m], log')
    BY <1>1, HonestGrows DEF Answers, Receipted
  <2> QED
    BY <1>1, <1>2, <2>1 DEF Answers, Receipted, Honest
<1>3. CASE receipts'[m] # receipts[m]
  <2>1. PICK w \in Workers : SaveReceipt(w)
    BY <1>3, OnlyReceiptsSaved
  <2>2. task[w].msg = m
    BY <1>3, <2>1 DEF SaveReceipt, IInv, TypeOK
  <2>3. receipts'[m] = [at |-> task[w].at, hash |-> Hash(Intent(w)), result |-> task[w].reply]
    BY <2>1, <2>2 DEF SaveReceipt, IInv, TypeOK
  <2>4. Honest(task[w].reply, sent[m], log)
    BY <2>1, <2>2 DEF SaveReceipt, Answers, Answering, Intent
  <2>5. log' = log
    BY <2>1 DEF SaveReceipt
  <2>6. receipts'[m].hash = Hash(sent'[m]) /\ receipts'[m].result = task[w].reply
    BY <1>1, <2>2, <2>3 DEF Intent
  <2>7. Honest(receipts[m].result, sent[m], log)'
    BY <1>1, <2>4, <2>5, <2>6 DEF Honest
  <2> QED
    BY <2>6, <2>7 DEF Receipted, Hash
<1> QED
  BY <1>2, <1>3

\* A draft names the message it is made for, and when that was received.
LEMMA DraftSource ==
  ASSUME TypeOK, NEW w \in Workers, Drafted(w)
  PROVE  task[w].draft.content.source = task[w].msg /\ task[w].draft.content.at = task[w].at
<1>1. task[w].draft.version = 1 => task[w].draft.content = NewContent(w)
  BY DEF Drafted
<1>2. PICK c \in Content : task[w].draft.version # 1 => DraftOf(w, c)
  <2>1. CASE task[w].draft.version = 1
    <3>1. task[w].draft.content \in Content
      BY DEF Drafted, Draft
    <3> QED
      BY <2>1, <3>1
  <2>2. CASE task[w].draft.version # 1
    BY <2>2 DEF Drafted, TypeOK
  <2> QED
    BY <2>1, <2>2
<1>3. NewContent(w).source = task[w].msg /\ NewContent(w).at = task[w].at
  BY DEF NewContent
<1>4. UpdatedContent(w, c).source = task[w].msg /\ UpdatedContent(w, c).at = task[w].at
  BY DEF NewContent, UpdatedContent
<1>5. CancelledContent(w, c).source = task[w].msg /\ CancelledContent(w, c).at = task[w].at
  BY <1>2 DEF CancelledContent, Content
<1> QED
  BY <1>1, <1>2, <1>3, <1>4, <1>5 DEF DraftOf

\* What a step of w leaves of its own answer.
LEMMA OwnAnswer ==
  ASSUME IInv, Answers, IInv', NEW w \in Workers, Work(w)
  PROVE  Answering(w)'
<1>1. TypeOK /\ TypeOK' /\ WorkerOK(w) /\ WorkerOK(w)' /\ Answering(w) /\ sent' = sent
  BY OthersAlone DEF IInv, Answers
<1>2. task[w] \in Task /\ task'[w] \in Task
  BY <1>1 DEF TypeOK
<1>3. ASSUME NEW x, x.status # "ok", pc'[w] = "receipt", task'[w].reply = x
      PROVE  Answering(w)'
  BY <1>3 DEF Answering, Honest
<1>4. ASSUME pc'[w] \notin {"sweep", "invalidate", "schedule", "receipt"} PROVE Answering(w)'
  BY <1>4 DEF Answering
<1>5. CASE CancelNothing(w) \/ CreateWithoutAudience(w) \/ DuplicateId(w)
           \/ ScheduleUnregistered(w) \/ SaveReceipt(w) \/ LockTimeout(w)
  <2>1. pc'[w] = "idle"
    BY <1>1, <1>5 DEF CancelNothing, CreateWithoutAudience, DuplicateId, ScheduleUnregistered,
       SaveReceipt, LockTimeout, Abandon, TypeOK
  <2> QED
    BY <1>4, <2>1
<1>6. CASE Replay(w)
  <2>1. PICK m \in Newest(w) : task' = [task EXCEPT ![w].reply = receipts[m].result]
    BY <1>6 DEF Replay
  <2>2. m \in Messages /\ receipts[m] # None /\ receipts[m].hash = Hash(Intent(w))
    BY <2>1 DEF Newest, Recent
  <2>3. Hash(sent[m]) = Hash(Intent(w)) /\ Honest(receipts[m].result, sent[m], log)
    BY <2>2 DEF Answers, Receipted
  <2>4. Honest(receipts[m].result, Intent(w), log)
    BY <2>3, HonestHash
  <2>5. pc'[w] = "receipt" /\ task'[w].msg = task[w].msg /\ task'[w].reply = receipts[m].result
    BY <1>1, <1>2, <1>6, <2>1 DEF Replay, Step, TypeOK, Task
  <2>6. log' = log
    BY <1>6 DEF Replay, db
  <2> QED
    BY <1>1, <2>4, <2>5, <2>6 DEF Answering, Intent, Honest
<1>7. ASSUME NEW p \in PCs, Step(w, p, "receipt"), NEW st \in Outcomes \ {"ok"}, NEW e, NEW v,
             task' = [task EXCEPT ![w].reply = Reply(st, e, v)]
      PROVE  Answering(w)'
  <2>1. pc'[w] = "receipt" /\ task'[w].reply = Reply(st, e, v)
    BY <1>1, <1>2, <1>7 DEF Step, TypeOK, Task
  <2>2. Reply(st, e, v).status # "ok"
    BY <1>7 DEF Reply
  <2> QED
    BY <1>3, <2>1, <2>2
<1>8. CASE Accept(w)
  <2>1. CASE Step(w, "lookup", "resolve")
    BY <1>1, <1>4, <2>1 DEF Step, TypeOK
  <2>2. CASE Step(w, "lookup", "receipt") /\ task' = [task EXCEPT ![w].reply = Reply("needs_follow_up", NoEvent, 0)]
    BY <1>7, <2>2 DEF PCs, Outcomes
  <2> QED
    BY <1>8, <2>1, <2>2 DEF Accept
<1>9. CASE Resolve(w)
  <2>1. CASE Step(w, "resolve", "prepare")
    BY <1>1, <1>4, <2>1 DEF Step, TypeOK
  <2>2. CASE /\ Step(w, "resolve", "receipt")
             /\ \E st \in {"ambiguous", "unconfirmed"} :
                  task' = [task EXCEPT ![w].reply = Reply(st, NoEvent, 0)]
    BY <1>7, <2>2 DEF PCs, Outcomes
  <2> QED
    BY <1>9, <2>1, <2>2 DEF Resolve
<1>10. CASE RejectDestination(w)
  BY <1>7, <1>10 DEF RejectDestination, PCs, Outcomes
<1>11. CASE VersionConflict(w)
  BY <1>7, <1>11 DEF VersionConflict, PCs, Outcomes
<1>12. CASE PrepareCancel(w) \/ PrepareUpdate(w) \/ PrepareCreate(w)
  <2>1. pc'[w] = "commit"
    BY <1>1, <1>12 DEF PrepareCancel, PrepareUpdate, PrepareCreate, Step, TypeOK
  <2> QED
    BY <1>4, <2>1
<1>13. CASE CommitNew(w) \/ CommitVersion(w)
  <2>1. Drafted(w)
    BY <1>13, CommitEffect
  <2>2. task[w].draft.content.source = task[w].msg
    BY <1>1, <2>1, DraftSource
  <2>3. /\ pc'[w] \in {"sweep", "schedule"}
        /\ task'[w].msg = task[w].msg /\ task'[w].draft = task[w].draft
    BY <1>1, <1>2, <1>13 DEF CommitNew, CommitVersion, Step, TypeOK, Task
  <2> QED
    BY <1>1, <2>1, <2>2, <2>3 DEF Drafted, Answering, Intent
<1>14. CASE Sweep(w) \/ Invalidate(w) \/ Schedule(w)
  <2>1. Committed(w) /\ Intent(w).confirmed /\ task[w].draft.content.source = task[w].msg
    BY <1>1, <1>14 DEF Sweep, Invalidate, Schedule, WorkerOK, Answering, Step
  <2>2. Honest(OkReply(w), Intent(w), log)
    BY <2>1 DEF Honest, OkReply, Reply, Committed, Intent
  <2>3. log' = log
    BY <1>14 DEF Sweep, Invalidate, Schedule, db
  <2>4. /\ task'[w].msg = task[w].msg /\ task'[w].draft = task[w].draft
        /\ pc'[w] \in {"invalidate", "schedule", "receipt"}
        /\ pc'[w] = "receipt" => task'[w].reply = OkReply(w)
    <3>1. CASE pc'[w] = AfterSweep(w) /\ task'[w] = SweepDone(w)
      BY <1>2, <3>1 DEF AfterSweep, SweepDone, Task
    <3>2. CASE Sweep(w)
      BY <1>1, <1>2, <3>1, <3>2 DEF Sweep, Step, TypeOK, Task
    <3>3. CASE Invalidate(w)
      BY <1>1, <1>2, <3>1, <3>3 DEF Invalidate, Step, TypeOK, Task
    <3>4. CASE Schedule(w)
      BY <1>1, <1>2, <3>4 DEF Schedule, Step, TypeOK, Task
    <3> QED
      BY <1>14, <3>2, <3>3, <3>4
  <2> QED
    BY <1>1, <2>1, <2>2, <2>3, <2>4 DEF Answering, Intent, Honest
<1> QED
  BY <1>5, <1>6, <1>8, <1>9, <1>10, <1>11, <1>12, <1>13, <1>14 DEF Work

LEMMA NextAnswers ==
  ASSUME IInv, Answers, IInv', [Next]_vars
  PROVE  Answers'
<1>1. sent' = sent /\ Grows /\ TypeOK
  BY SentConstant, NextGrows DEF IInv
<1>2. ASSUME NEW u \in Workers, pc'[u] = pc[u], task'[u] = task[u] PROVE Answering(u)'
  BY <1>1, <1>2, HonestGrows DEF Answers, Answering, Intent, Honest
<1>3. ASSUME NEW u \in Workers, pc'[u] \in {"idle", "lookup"} PROVE Answering(u)'
  BY <1>3 DEF Answering
<1>4. ASSUME NEW u \in Workers PROVE Answering(u)'
  <2>1. ASSUME NEW w \in Workers, Work(w) \/ Crash(w) \/ \E m \in Messages : Deliver(w, m)
        PROVE  Answering(u)'
    <3>1. CASE u # w
      BY <1>1, <1>2, <2>1, <3>1, OthersAlone
    <3>2. CASE u = w /\ Work(w)
      BY <3>2, OwnAnswer
    <3>3. CASE u = w /\ (Crash(w) \/ \E m \in Messages : Deliver(w, m))
      BY <1>1, <1>3, <3>3 DEF Crash, Deliver, Abandon, Step, TypeOK
    <3> QED
      BY <2>1, <3>1, <3>2, <3>3
  <2>2. CASE UNCHANGED <<pc, task>>
    BY <1>2, <2>2
  <2> QED
    BY <2>1, <2>2, Zenon DEF Next, RegisterTarget, Tick, vars
<1> QED
  BY <1>4, NextReceipted DEF Answers

LEMMA InitAnswers == Init => Answers
BY DEF Init, Answers, Answering, Receipted

\* Two intents that hash alike ask for the same.
LEMMA HashTells ==
  ASSUME NEW i \in IntentType, NEW j \in IntentType, Hash(i) = Hash(j)
  PROVE  /\ i.action = j.action /\ i.slot = j.slot
         /\ i.audience = j.audience /\ i.event = j.event
<1>1. \A k \in IntentType : /\ Hash(k).action = k.action /\ Hash(k).slot = k.slot
                            /\ Hash(k).audience = k.audience /\ Hash(k).event = k.event
  BY DEF Hash, IntentType
<1> QED
  BY <1>1

LEMMA ElementOfSeq ==
  ASSUME NEW S, NEW s \in Seq(S), NEW i \in 1 .. Len(s) PROVE s[i] \in S
OBVIOUS

\* An answer "ok" is true, whatever comes between the steps of the call, and also
\* when it is another message's answer given again (find_recent_receipt_by_intent_hash):
\* the version it names exists, made by a confirmed message in the same words.
THEOREM AnswersTrue == Spec => []OkAnswerTrue
<1>1. IInv /\ Answers => OkAnswerTrue
  <2> SUFFICES ASSUME IInv, Answers, NEW m \in Messages,
                      receipts[m] # None, receipts[m].result.status = "ok"
               PROVE  LET a == receipts[m].result IN
                      /\ a.event \in EventIds
                      /\ a.version \in 1 .. Len(log[a.event])
                      /\ LET by == sent[log[a.event][a.version].source] IN
                         /\ by.confirmed
                         /\ by.action = sent[m].action /\ by.slot = sent[m].slot
                         /\ by.audience = sent[m].audience /\ by.event = sent[m].event
    BY Zenon DEF OkAnswerTrue
  <2> DEFINE a == receipts[m].result
             by == sent[log[a.event][a.version].source]
  <2>1. /\ a.event \in EventIds
        /\ a.version \in 1 .. Len(log[a.event])
        /\ by.confirmed /\ Hash(by) = Hash(sent[m])
    BY DEF Answers, Receipted, Honest
  <2>2. by \in IntentType /\ sent[m] \in IntentType
    <3>1. log[a.event] \in Seq(Content)
      BY <2>1 DEF IInv, TypeOK
    <3>2. log[a.event][a.version] \in Content
      BY <2>1, <3>1, ElementOfSeq
    <3>3. log[a.event][a.version].source \in Messages
      BY <3>2 DEF Content
    <3> QED
      BY <3>3 DEF IInv, TypeOK
  <2>3. /\ by.action = sent[m].action /\ by.slot = sent[m].slot
        /\ by.audience = sent[m].audience /\ by.event = sent[m].event
    BY <2>1, <2>2, HashTells
  <2> QED
    BY <2>1, <2>3
<1>2. IInv /\ Answers /\ [Next]_vars => Answers'
  BY NextIInv, NextAnswers
<1> QED
  BY <1>1, <1>2, InitIInv, InitAnswers, InductiveInvariant, PTL DEF Spec
=============================================================================
