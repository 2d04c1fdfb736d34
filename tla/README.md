# Kinflow: models and proofs

TLA+ models of kinflow, TLC instances that check them, and theorems about them
that TLAPS has checked. Kinflow turns confirmed messages of a family into
versioned calendar events, derives reminders from the events, and delivers the
reminders exactly when they are due, from a SQLite file that several short-lived
and one long-lived process share. Paths below are relative to the repository.

No transaction spans more than one statement group of the store, the processes
hold objects they read earlier, and the memory of a process is lost when it
ends. What can go wrong is therefore almost never in one function; it is in what
another process, a crash, a second delivery of a message or the clock does
between two of its commits. The models are cut at exactly these places: **every
SELECT, every commit and every call of a provider is a step of its own.** The
exceptions: in `Dispatch` the lookups before a closing (`list_reminders`, the recorded
transitions) are one step with its UPDATE, since what they read is the daemon's own, or
is written back in a later step, before which an event change may come anyway; in `Runner` the text of a record is written to its temporary file in one
step, and renamed in another; `Outbound` takes an intent as one step, since `Intake`
has taken it apart.

## 1. The system's parts

| part | code | state it keeps | operations | what makes it correct | module |
|---|---|---|---|---|---|
| Intake | `src/kinflow/engine.py` `process_intent` and what it calls; `persistence/store.py` | `events`, `event_versions`, `reminders`, `message_receipts`, `delivery_targets` | receipt lookup, replay by intent hash, resolver, confirmation and destination gates, create / update / cancel, invalidation, scheduling, receipt | a message has one answer and at most one effect; versions are gapless; what is scheduled belongs to the version in force | `Intake`, `EventLedger` |
| Reminder table | `persistence/store.py` 558-637 | `reminders` | list due, write back | selected rows are due and in order | `ReminderTable` |
| Batch delivery | `engine.py` `attempt_due_deliveries`, `run_reconciliation_batch`; `scripts/dispatch_runner_tick.py` | `reminders`, `delivery_attempts`, the visible keys in memory | snapshot, gates, attempt, provider call, outcome, attempt row, reconciliation | retries bounded and spaced; no delivery claimed that did not happen; finished stays finished; everything is finished in the end | `Delivery`, `ReminderLifecycle` |
| Outbound adapter | `src/kinflow/oc_adapter.py`, gateway call in `scripts/daemon_run.py` 514-593 | results frozen in memory, by attempt id and by dedupe key | send: replay, block, call, map, freeze | the gateway is not asked twice for one key within the window | `Adapter` |
| Daemon dispatcher | `scripts/daemon_run.py` `DispatchCallbacks`, `src/kinflow/daemon.py` `run_cycle` | `reminders`, `delivery_attempts`, transitions in `audit_log`, mode, the adapter | cycle: mode, candidates, send, outcome; reconcile: retries, promote, demote | a reminder for whatsapp is delivered only on evidence; reminder and attempt agree; what was only accepted is closed once, and for good | `Dispatch` |
| Daemon process | `scripts/daemon_run.py` 79-332, 1838-2085; `scripts/tickerd_daemon_run.py`, `src/kinflow/tickerd_runtime.py` | lock file, owner record with heartbeat, health and stamp files, count of fatal cycles, last reconcile boundary | configure, acquire, take over, open the store, announce, cycle loop, stop | one owner; health is the owner's and tells the truth; no boundary is lost; failures in a row stop it, and a signal does | `Runner` |
| Migrations | `persistence/db.py`, `migrations/`, `from_path` in `persistence/store.py` | `schema_migrations` with the dirty marker and checksums, the schema, `system_state` | fail if dirty, apply, verify, defaults | a half-applied schema is never used, no statement runs twice, somebody gets an open store | `Migrations` |
| Destination resolution | `engine.py` 75-178, `scripts/daemon_run.py` 695-900, the CHECKs of migration 0005, `oc_adapter.py` 375-391 | two destinations per event version; `delivery_targets` | normalise a payload, validate, inherit; precedence, validate again; canonical address | what is accepted resolves, and messages go where the newest word wants them | `Destination`, `Outbound` |
| Outcome seam | `scripts/daemon_run.py` 437-593, 1303-1749; `oc_adapter.py` 179-192, 393-592 | none | reply, normalised response, `DeliveryResult`, branch, reason or exit | the tables, the evidence and the errata checks never contradict each other | `Seam`, `Outbound` |
| Primitives | `daemon.py` 55-230, `engine.py` 817-830 | reconnect and fairness state | quiet hours, reconcile boundary, configuration; backoff, freshness, fairness | boundaries and wrap-around | boundary and configuration in `Runner`, quiet hours in `Delivery`; the rest is called by tests only |

How they interact: `Intake` and the two delivery sides share the tables only.
`Intake` inserts reminders and invalidates those of an older version, with rows
it selected earlier; `Delivery` and `Dispatch` take a snapshot of the due rows,
and write whole rows back from it (`update_reminder` has no guard on what was
read). `Delivery` leaves failed attempts with a `next_attempt_at`; the
reconciliation of either side schedules them again. `Dispatch` calls `Adapter`,
and `Adapter` the gateway, by function call; what the adapter answers goes through
the seam (`Seam`), where it goes is resolved from the version, the conversation and
the recipient's row (`Destination`). `Runner` is the process in which the cycles of
`Dispatch` run, and opens the store through `Migrations`, as every other process
does. An operator, or another tool, changes `runtime_mode` and `delivery_targets`
at any time.

Left out, with the reason: the gates of `dispatch_runner_tick` (a pure function
of the environment before the batch that `Delivery` models), the in-memory store (the same protocol without other
processes), daily brief and conflict scan (read-only), renderer (text), reason
codes, models and contract pins (constants), operator commands (one call of
`process_intent` each), probes, drills and rehearsals (scripts that exercise the
system). `PROJECT.json` lists every part with its status.

## 2. The modules and how they correspond to the code

`PROJECT.json` maps every definition to the lines it stands for. In short:

**Intake.** One worker is one process in one call of `process_intent`; its `pc`
is the next database access, `task` the locals of the call. `lookup` is the
receipt lookup and the replay by intent hash, `resolve` the resolver with its
similarity match and the gates, `prepare` the read of the newest version and the
draft, `commit` the transaction of `save_new_event` or `append_event_version`
(with the version guard that makes a conflict), `sweep` and `invalidate` the
invalidation (one SELECT, then one commit per row), `schedule` one INSERT per
recipient, `receipt` the answer. An INSERT that fails on a missing
`delivery_targets` row leaves the transaction open: the variable `lock`, and the
others run into the busy timeout. `handed` is history: the clock at the last hand-over
of a message; its `at` is the time the payload names, up to `MaxLag` behind.
Abstracted: an intent is a record of what the
branches look at; a title with a start is a *slot*, two are similar when they are
equal; the content of a version is slot, audience, source message and time.

**EventLedger** is what Intake promises: a log per event, extended in one atomic
step from its newest version by a message that was confirmed.

**ReminderTable** holds the row, the due-selection with its order and limit, and
`update_reminder`; both delivery sides extend it.

**Delivery.** One process is one engine object; `todo` is its snapshot, `cur` the
object in hand with its own copy of attempts and status, `verdict` what is to be
written. `list`, `target`, `attempt`, `send`, `settle`, `log` follow one
iteration of the loop; `rec_list`, `rec_write` the reconciliation. `shown` counts
the messages the recipient really got; the code cannot see it. The provider
answers ok or not, and may have shown the message although it reports a failure.

**ReminderLifecycle** is the life of one reminder without batches and snapshots.

The proofs of a component are in a module of its own: `IntakeProofs`, `DeliveryProofs`,
`DispatchProofs`, `RunnerProofs`, `MigrationProofs`, `OutboundProofs`; what takes a
process that is alone is in `IntakeAloneProofs` and `DeliveryAloneProofs`, which
extend the first two.

**Adapter** is `send` as one step: replay by attempt, replay by dedupe key within
the window (the boundary included), block, or call. Its memory is forgotten with
the process. Answers are the four the callers can tell apart: confirmed with a
reference, only accepted, any other result, an exception. `calls` is history.

**Dispatch.** The daemon is one process (the lock sees to that). `list`, `next`,
`attempt`, `send`, `settle`, `log` follow `process_candidate`; `retry` to
`record` follow `run_reconcile`. `todo` and `cur` are the objects listed at the
start of the cycle. `transitions` are the audit rows `_transition_already_recorded`
reads. `Receive` is external: the code reads `provider_ref` of a row it has
written with NULL, so promotion needs somebody outside to fill it in; nothing in
the repository does. A reminder for another channel than whatsapp is marked as
delivered with no send (`MarkUnsent`, `daemon_run.py` 1132-1151): the code does so, and
it is in the model as it is. An attempt row with a channel that is not listed is
refused by the CHECK of migration 0005 (`LogRefused`): the cycle ends with an exception
behind the status; that the connection is left in a transaction is in `Outbound`
only. The audit rows nobody reads again are left out, and so is
the write lock that the failed INSERT of `LogDuplicate` leaves behind (it can
only delay the other process, whose steps are taken at any time anyway).

**Runner.** One `pc` per process, of either kind; its points are the numbered
startup steps, the loop, the cycle, `except RunnerExit` (`handler`) and `finally`
(`release`). The two kinds differ in the order: `daemon_run.py` takes the lock and
then opens the store and writes the stamp, `tickerd_daemon_run.py` does it the other
way round (`Stamp` goes on to `lock` there). A health record is written to a
temporary file that has the same name for every process, and renamed in a step of its
own (`Rename`, `after` says where the process goes on): a record may be overtaken, or
its file be taken away by the other process, and then the rename fails. The beat is a
step behind the record (`Beat`), and may fail in every cycle, at no cost to the
budget of faults (`BeatFails`). A cycle is its outcome (all processed,
reconciled, or an exception), the bootstrap its result, the heartbeat its age up to
the threshold. The kernel and the runner of tickerd are a package outside the
repository; `TickerdCycle` is what its adapters and tests here say of it, and an
assumption: its runner may pass over, or pass on, a sink that fails.

**Migrations.** One process is one `from_path`. Every step ends at a commit:
`executescript` commits the `BEGIN IMMEDIATE` before it and runs each statement of a
script in autocommit mode, so a script is as many steps as it has statements. A
process carries a release: the files it knows and their checksums.

**Destination, Seam** are functions, no state: the payload shapes, normalisation and
validation of intake next to the validation of the daemon, which is other code; and
the way of an answer from the command line to the reason. Strings are members of a
small set with the attributes the code looks at (blank, too long, unprintable,
canonical for the adapter); a reference is real, hollow, absent or no text.

**Outbound** composes them: one event with one recipient, intents as single steps, a
daemon that takes the due reminders through resolution, adapter, seam, status and
attempt row, with `frozen` as the adapter's memory. `said`, `since` and `sent` are
history: what the intents asked for, the recipient's rows since the reminder was
taken up, and the calls of the gateway.

## 3. What the runs check

Two workers of TLC finish every run in a minute or two.

| run | instance | what it shows |
|---|---|---|
| `intake_alone` | 1 process that may die once, 3 messages out of 4 intents, each handed over up to twice, payload times on and behind the clock 0..2 | `AnswerMatchesEffect`, `SupersededOnlyIfOverdue`, `CurrentScheduled`, `SameIntentOneEffect` (until the process dies), `OkAnswerTrue`, `ReceiptStable` (whatever happens): create, move, cancel, revive and refuse in every sequence, redelivery after an answer and after a crash between any two commits |
| `intake_race` | 2 processes, 2 messages out of 6 intents, each handed over up to twice and to both at once, recipients that are registered on the way | `IInv`, `ReminderOfVersion`, `ImplementsLedger`, `CallsEnd`: interleavings at every access; no call hangs on the lock of another |
| `delivery_alone` | 1 process, 2 reminders, clock 0..4, 1 crash, 1 change of mode or target | `AttemptsBounded`, `RetrySpaced`, `RepeatExplained`, `LedgerAgrees`, `NoSendAfterInvalidation`, `ImplementsLifecycle`, `EventuallyFinished` |
| `delivery_overlap` | 2 processes, 1 reminder, 1 crash, invalidation at any point | `DeliveredWasShown`: batches that overwrite each other never invent a delivery |
| `dispatch` | 2 reminders (one the engine may have left for a retry, one for another channel), all answers, 1 fault of any kind (a destination that is not listed among them), fair | `WhatsappOnEvidence`, `AnsweredOnce`, `LedgerAgrees`, `ClosedForGood`, `EventuallySettled`, `UnverifiedCloses` |
| `runner` | a compatibility daemon and a tickerd daemon, 4 environments, 1 kill or failing record or bootstrap, records that overtake each other, signals, heartbeats of any age that may fail in every cycle, fair | `OneOwner`, `ReadyIsAlive`, `HealthByOwner`, `ReconcileMadeUp`, `FailuresStop`, `StopHeeded`, `OwnerSeen` |
| `migrations` | 3 processes of 3 releases (installed, newer, edited), 3 scripts, 4 starts, 1 crash or failing statement, fair | `ReadyMeansComplete`, `RunOnce`, `InOrder`, `FailStop`, `SomeoneGetsThere` |
| `outbound` | 2 versions of an event out of 11 payloads, 5 recipient rows of which one change, 4 replies (one a failure), bypass on and off, 1 exception or restart | `AcceptedResolves`, `SentWhereAsked`, `AskedIsWhereSent`, `NoSeamGap` |
| `vio_window` | violated: `OneEffectPerWindow` | two messages with the same words reach intake within the window and both take effect, as the first payload names an earlier time (specs: the window is on the system clock and not on the payload's) |
| `vio_terminal` | violated: `InvalidatedIsTerminal` | the daemon writes its stale object over an invalidated row (specs: terminal) |
| `vio_capture` | violated: `CaptureOnlyReadOnly` | reconciliation mutates in capture_only (specs: read-only) |
| `vio_invalid` | violated: `FinishedIsRecorded` | a recipient row with a channel that is not listed: the reminder is failed, but the CHECK of migration 0005 refuses the attempt row with the channel that failed, and the connection stays in a transaction (specs: a snapshot with each attempt) |

Every property of a passing run has a mutant of a mapped definition (a dropped
guard, a wrong comparison, a stale value) under which TLC finds it violated; the
mutated forms stand before the definitions, marked as slips.

### Bounds, and why they are enough

* *Intake.* Three messages are create, change and a third that meets the result;
  a collision needs two processes. Slots trigger at 1 and 2 on a clock 0..2, so
  that a reminder is in the future, due now and overdue when its event changes.
  `MaxDeliveries` 2 is a redelivery, after a crash or an answer; a lag of 1 is
  enough to be late by the whole window (1). `MaxEvents` 3 is never the limit: three
  messages make at most three events. `intake_race` has no clock and no crash: what
  collides there is the order of the accesses.
* *Delivery.* The retry limit 1 (the smaller of 1 and 2) allows two attempts; the
  clock to 4 has room for both attempts of both reminders; `MaxAttempts` 4 is
  above what one crash can add. `Alone` runs process_intent between the batches:
  the properties that hold only then (a stale write revives an invalidated row
  otherwise, see below) are checked with it, `DeliveredWasShown` without.
* *Dispatch.* One fault out of crash, exception (a refused row included), change of
  mode or destination and late receipt, at any point; `Window` 0 still replays within an instant and
  forgets after it; the verification window 1 can be open and over on a clock
  0..2. Two reminders are a snapshot with a rest. More faults are what the proofs
  are for.
* *Runner.* One process of each kind has both orders of startup and both ways to
  meet on the files; each restarts any number of times. `StaleAfter` 1 makes a
  heartbeat fresh, at the threshold and past it. A limit of 2 fatal cycles has a
  first that is survived. One fault reaches every point; exceptions of a cycle, failing
  beats and files taken away are no faults and not bounded.
* *Migrations.* Three releases are all there is between two processes (same,
  more files, other text) and a third that comes while two are at it; one script
  has two statements and so an inside. Four starts are one after everybody's.
* *Outbound.* Two versions are a word and a newer one; the payloads have each
  shape, accepted and refused, at each of the two places; the rows are two good
  ones, one without a zone, one not listed, one blank. The proofs have any number.

### Fairness

* `Intake!FairSpec`: weak fairness of the steps of a call. A call waits for
  nothing but the lock, and there the busy timeout is one of its steps.
* `Delivery!FairSpec`: weak fairness of the steps of a batch that has begun, of
  an invalidation that has begun and of the clock; strong fairness of the begin
  of a batch, since a timer starts deliveries again and again, whatever the
  process does in between.
* `Dispatch!FairSpec`: the same, with strong fairness of a cycle that
  reconciles: the reconcile boundary recurs, and `run_cycle` moves it only when
  the reconciliation has succeeded, so that a cycle cut off is made up for.
  Faults are bounded, which stands for *finitely many* of them.
* `Runner!FairSpec`, `Migrations!FairSpec`: weak fairness of each process's own
  steps: a process that is alive goes on, the loop sleeps but does not wait for
  anybody. Nothing is assumed of starts, signals, kills, time or failures.

## 4. What is proved

Every safety invariant the runs check, and every action property, is a theorem, and
so are the two refinements. All are for every value of the constants; the bounds of
the runs are bounds in guards, and the theorems hold with any of them. Assumptions
are those on the types of the constants (`...Assumption` in the modules), and where a
theorem has a hypothesis, it is named below.

**Intake, any number of processes** (`IntakeProofs`):

* `InductiveInvariant`: `Spec => []IInv`. `IInv` is `TypeOK`,
  `VersionsContiguous` and `WorkerOK` for every worker. Contiguity is not
  inductive by itself: a commit appends version *n* on the strength of a draft
  made some steps earlier, and between them other processes commit. `WorkerOK`
  says what of a call's knowledge survives that: the draft extends a version
  that *is in the log*, though perhaps not the newest any more, and what is
  committed stays. It rests on the lemma `NextGrows` (logs only grow), so that a
  step of one worker leaves what the others know true (`OthersAlone`).
* `TypeCorrect`, `Contiguous`: its first two parts.
* `Refinement`: `Spec => ImplementsLedger`. Only the two commits change what the
  ledger sees (`OnlyCommitsWrite`); the version guard makes the draft's base the
  newest version at that moment, and `WorkerOK` makes it the right content.
* `RemindersDated`: `Spec => []ReminderOfVersion`, from `IInv` and that
  committed versions never change.
* `AnswersTrue`: `Spec => []OkAnswerTrue`. A call replays a receipt it found by its
  hash, so the invariant `Answers` adds to the claim itself that a receipt has the
  hash of its own message, and follows the claim through the draft and the reply of
  every call that is under way. It is stable under everybody else's steps since a
  claim is about versions, and logs only grow (`HonestGrows`).

**Intake, one process** (`IntakeAloneProofs`). `One` says that one process calls
`process_intent`, as each caller in the repository does; `Serial` that moreover every
recipient has a row in `delivery_targets`, so that no call is refused half-way. The
four last properties have `crashes = 0`: they hold until a process dies in the middle
of a call. TLC refutes each of these theorems with two processes, and all
but the first behind a crash between commit and receipt, so the hypotheses are what the
code relies on; messages may still be delivered again, be late or be refused. The
run `intake_alone` is an instance of `Serial`.

* `ReceiptsStand`: `One` gives `ReceiptStable`, crashes and failing calls included:
  a call that gets to its receipt began with a lookup that found none.
* `AloneInvariant`: `Serial` gives the invariant `UntilCrash` (`Alone`, until a crash). Its
  parts tie what the call in hand has done so far to the tables: a message worked on is
  not answered, the version committed is the newest until the call ends, the message of
  every version is answered "ok" or about to be (`Accounted`), the events are numbered
  without gaps, a superseded reminder was overdue or is about to be invalidated (`Swept`),
  a recipient has a reminder or is about to get one (`Covered`).
* `AnswersMatchEffects`, `OnlyOverdueSurvive`, `AudienceScheduled` read
  `AnswerMatchesEffect`, `SupersededOnlyIfOverdue` and `CurrentScheduled` off it, where no
  call is in hand.
* `SameIntentApart`: of two messages with the same words whose `received_at_utc` is the
  system clock when they are handed over, both take effect only if the hand-overs
  lie further apart than the window. `Apart` says so of the times the payloads
  name, since that is what the code measures by: two versions in the same words would
  have met in the receipt lookup, as the first one's receipt has its words and its time
  (`Answers`, `Accounted`). For a payload that names another time the claim is false,
  which is the run `vio_window`.

**Delivery, any number of processes** (`DeliveryProofs`), with a provider that hands
the message over when it answers ok:

* `InductiveInvariant`, `TypeCorrect`: `Spec => []IInv`, `Spec => []TypeOK`.
* `DeliveriesAreReal`: `Spec => []DeliveredWasShown`, for any number of
  overlapping batches, sweeps, crashes and reminders. The status "delivered" is
  written two steps after the answer, from memory, so `IInv` adds for every
  process that a verdict "delivered" in hand is about a reminder that was shown.

**Delivery, one process** (`DeliveryAloneProofs`). `Single` is the setting of the run
`delivery_alone`: one process, and `process_intent` between its batches. Crashes,
restarts, changes of mode and target at any time.

* `AloneInvariant`: the invariant `AInv`. A snapshot is as its rows are (`Snapshot`);
  the row of the object in hand, at each point of the loop, is what the batch has made
  of it (`Held`); ledger rows are older than what is to come, by the retry delay when
  a retry is (`Older`, `Behind`); `Tally` bounds the attempts of a row by the retry limit,
  and by its rows marked for a retry, plus crashes plus one; `Final` says that a row
  that is finished is told by the ledger or is about to be.
* `AttemptsAreBounded`, `RetriesAreSpaced`, `RepeatsAreExplained`, `LedgerTellsTheTable`
  and `NothingSentAfterInvalidation` are its consequences, for any limits and number of
  crashes.
* `BatchesImplementLifecycle`: `Spec => ImplementsLifecycle`. Each step of a batch, a
  crash, an invalidation or a reconciliation maps to one step of `ReminderLifecycle` or a
  stutter; that nothing in hand is stale is what makes the writes of whole rows legal
  steps of a life.

**Dispatch** (`DispatchProofs`), any answers, faults, late receipts and reminders:

* `InductiveInvariant`, `TypeCorrect`.
* `EvidenceCorrect`: `Spec => []WhatsappOnEvidence`, of reminders that go by whatsapp; a
  reminder for another channel is marked as delivered with no send, and nothing is
  claimed of it. "Delivered" is written from a
  verdict in hand, from a result frozen in an earlier cycle, or from a reference in
  a snapshot: `Evident` says of each of these that its evidence exists.
* `AnsweredCorrect`: `Spec => []AnsweredOnce`. `Remembered` says that in the first
  life of the process each answer is frozen with its time, and that a key with
  anything frozen has a newest result; with nothing to replay, everything frozen is
  then older than the window (`NothingRecent`), so that a new answer is too.
* `ClosedCorrect`: `Spec => ClosedForGood`. `Keyed` says that an attempt has one
  row, and that what the stale snapshot still has to close is open in the table,
  though a receipt may have changed it.
* `LedgerCorrect`: `Spec => []LedgerAgrees`. The property looks at the daemon at rest;
  in a cycle either the row or the status is written first. `Tidy` says, as long as no
  cycle was cut off: what is open, in the table (`Untold`) or in a snapshot (`Ahead`), has no
  row but those of earlier tries that left it for a retry; a row the daemon wrote is the
  newest of its reminder (`Behind`); and everything finished agrees with its newest row
  except the one that is being written (`Told`).

**Runner** (`RunnerProofs`), any number of daemons of both kinds: `OneOwnerCorrect`,
`TakeoverCorrect` (a takeover is recorded only of a process that has left its loop, in
no run), `HealthCorrect`, `ReconcileCorrect`, `ReadyCorrect`. `OneOwner` is not
inductive, since the owner record of a process outside its loop may be anybody's:
`IInv` adds that the record names the holder of the lock, at which points the lock
is held, and for a process between its write and its rename that it goes on to a point
where it may be (`Targeted`). `TmpHonest` says that the file that waits was written by
the owner after a success of its own, or says "failed": whoever renames it, the record
is true. `BoundaryKept` ties what is due to what came during the cycle. `ReadyIsAlive`
needs that who writes "ready" is in the loop and that everyone who leaves it alive
writes another record behind it, also when records overtake each other (`RecordAlive`,
`FileAlive`).

**Migrations** (`MigrationProofs`), any processes, releases and scripts:
`ReadyCorrect`, `RunOnceCorrect`, `InOrderCorrect`, `FailStopCorrect`. `IInv` says who
owns a dirty row: the process whose INSERT made it, and nobody else runs the script.
Clean rows are never written again, so that what a process has passed over stays whole,
and the row of a process that died is nobody's for ever.

**Outbound** (`OutboundProofs`), any values, payloads, rows, replies and number of
versions: `AcceptedCorrect`, `NoGap`, `RecordCorrect`, `SentCorrect`, `TypeCorrect`.
Normalising twice is normalising once (`NormalTwice`), so that the daemon's validation
agrees with intake's on what intake has written; the columns of a version are the
newest words of the intents up to it; what is frozen for a version went where the
version wants it. `NoGap` is a fact about the pure functions of `Seam`, over all replies.

**Model-checked only:** the liveness properties (`CallsEnd`, `EventuallyFinished`,
`EventuallySettled`, `UnverifiedCloses`, `FailuresStop`, `StopHeeded`, `OwnerSeen`,
`SomeoneGetsThere`), since fairness and ENABLED are out of the prover's reach; and the
counterexamples of the four violation runs, which need no proof.

## 5. What was seen on the way

The four violation runs are disagreements with the documents. These are more, which
the models show or contain and which have no run of their own; specifications are those in
`specs/`, by their short names:

* *Startup order* (`Runner!Stamp`, `OpenStore`): the tickerd daemon opens, and may
  migrate, the store and writes the stamp before it asks for the lock. Runner
  implementation spec v0.1.3, line 41: singleton ownership "before any stateful runtime
  initialization"; also lines 149 and 183. `OneOwner` exempts these two steps.
* *A health record that cannot be written* while the daemon runs ends it at once
  (`daemon_run.py` 298 and 1988, `CycleReturns`). Runner spec, line 120: a cycle failure,
  "process exits only if fatal threshold is exceeded". It happens with no fault of the
  disk, too: the temporary file has one name for every process (208-212), so a process
  that did not get the lock may rename the owner's file away, and the owner's own rename
  then fails (`Rename`).
* *The fatal threshold* is reached at `>=` (`daemon_run.py` 2014, `Counted`). Daemon
  runtime contract v0.1.4, line 352: "if consecutive fatal cycles >
  max_consecutive_fatal_cycles".
* *A cycle that raises* is counted and not rolled back (`daemon_run.py` 1991-2014). Runtime
  contract, line 347: "rollback active transaction". `Outbound` keeps the transaction
  that is left open (`vio_invalid`).
* *A heartbeat that is never refreshed:* the count is set to zero by a good cycle
  (`daemon_run.py` 1970) before the beat (1987) fails and sets it to one (1991), so
  that for a limit of 2 or more the loop goes on for ever without a beat (2014).
  Deployment contract v0.1.4, line 52: the heartbeat "must be present and updated
  during operation"; runner spec, 143-145 and 150. `BeatFails` is in the run without a
  bound, and so `FailuresStop` promises an end of failures only where no success comes
  between them.
* *Another channel than whatsapp:* the reminder is marked as delivered, and its attempt
  as confirmed by the provider with a reference that is made up, with no send at all
  (`daemon_run.py` 1132-1151, `MarkUnsent`). `WhatsappOnEvidence` leaves these out.
* *The retry limit* of the engine is the smaller of 2 and the stored one. Persistence spec
  v0.2.6, line 395: the stored one is "authoritative".

Other things seen, where no document says otherwise or the cause has a run already:

* *Ask first, confirm later.* The intent hash leaves the confirmation out
  (`engine.py` 864), so that a confirmed message within the window replays the
  refusal its unconfirmed twin got.
* *Create, cancel, create again* in the same words within the window replays the
  ok of the first create (`engine.py` 194); nothing is executed. `OkAnswerTrue`
  holds: the answer names a version that exists, but it is cancelled.
* *Two processes with the same words at once* make two events: receipt lookup
  and commit are separate transactions. `SameIntentOneEffect` is a property
  of one process. Two processes with the *same message* overwrite its receipt.
* *An update racing an update*: one schedules reminders of its version after the
  other has superseded and swept it (`engine.py` 679).
* *Overlapping ticks both send*, and a crash between the provider's answer and
  the commit sends again: the visible keys are in memory. `RepeatExplained` says
  that nothing else repeats a message.
* *A switch to capture_only in the middle of a batch or cycle* does not stop it;
  the daemon's adapter is built without the mode reader.
* *A batch and an invalidation* overwrite each other in both directions.
* *Daemon:* a failed attempt is final, whatever `retry_eligible` says; a crash behind
  the first of the three commits of promote or demote leaves the reminder as it
  was for ever (`LedgerAgrees` is about cycles that were not cut off); a missing
  timezone for a reminder the engine has tried once inserts an attempt id that
  exists, which ends the cycle (`LogDuplicate`); an exception after the gateway
  was called freezes nothing; the gateway's timeout in milliseconds is passed as
  seconds (`daemon_run.py` 581).
* *A crash between version and invalidation* leaves reminders of the old version.
* *Replay by dedupe key, whatever the destination* (`oc_adapter.py` 244): after an
  exception behind the send and a change of the recipient's row, the attempt row
  names the new address though the message went to the old one. `AskedIsWhereSent`
  is therefore about destinations an intent has asked for.
* *The first key that is not blank decides* (`daemon_run.py` 464): a hollow
  `messageId` hides a real reference behind it, and the message counts as accepted
  only.
* *A nested override that is no object* raises TypeError (`engine.py` 131) instead of
  a refusal, and leaves no receipt.
* *Health:* the loser of the lock, of either kind, writes a `failed` record over the
  owner's (`OwnerSeen`: for one cycle); a startup exception that is no `RunnerExit`
  leaves the record of the process before it as it was; the record of a failing cycle
  names that cycle as the last successful one (`daemon_run.py` 1980). Failed items count
  as fatal cycles for tickerd, not for `daemon_run.py`.
* *Written and wired nowhere:* `FairnessTracker`, `ReconnectState`,
  `compute_health_freshness`, `next_tick_boundary_ms`, `DaemonRuntime.startup`.

## 6. Not modelled, and what is left

Not modelled, each with its reason in `PROJECT.json`: the in-memory store, the gates
of the dispatch tick, brief and conflict scan, renderer, constants and pins, operator
commands, probes and drills. Partly: tickerd (its runner is another package),
primitives (the rest of them is called by tests only).

Done: A `Intake` with `EventLedger` and its proofs, B `Delivery` with
`ReminderLifecycle` and `DeliveryProofs`, C `Adapter`, `Dispatch`, `DispatchProofs`,
D `Migrations`, `Runner` and their proofs, E `Destination`, `Seam`, `Outbound` and
`OutboundProofs`, F `IntakeAloneProofs` and `DeliveryAloneProofs`.

What would come next:

1. `System`: Intake, Delivery and Dispatch over one `ReminderTable`, where the
   environment of each is the other; a daemon next to ticks.
2. Theorems about the operators of `ReminderTable` (the due-selection: sorted, limited,
   nothing due passed over) and the reverse of the hypotheses: what exactly a crash costs
   the properties of `IntakeAloneProofs`.
