----------------------------- MODULE Migrations -----------------------------
(***************************************************************************)
(* The database bootstrap: SqliteStateStore.from_path opens the file, runs *)
(* apply_migrations and inserts the policy defaults.  Every process that   *)
(* opens the store runs it (the daemons, the tests, the operator's tools), *)
(* at any time and side by side, and the only coordination is the table    *)
(* schema_migrations.                                                      *)
(*                                                                         *)
(* Each action below ends at a commit or reads a committed state.  The     *)
(* script of a migration is not one transaction: Python's executescript    *)
(* commits the BEGIN IMMEDIATE before it and then runs every statement in  *)
(* autocommit mode, so that each statement is durable by itself.           *)
(*                                                                         *)
(* A process carries a release: the migrations of its directory (Known)    *)
(* and the checksum of each file as it stands there (Checksum).            *)
(***************************************************************************)
EXTENDS Integers, FiniteSets

CONSTANTS
  Procs,        \* the processes that may open the store
  LastMig,      \* migrations are 1..LastMig, in the order of their file names
  Statements,   \* [1..LastMig -> Nat \ {0}]: statements of each script
  Known,        \* [Procs -> SUBSET 1..LastMig]: files in the process's directory
  Checksum,     \* [Procs -> [1..LastMig -> Checksums]]
  Checksums,    \* file contents told apart by SHA-256
  Modes,        \* values of system_state.runtime_mode
  DefaultMode,  \* the one that _ensure_system_state_defaults inserts
  MaxFaults,    \* bound: crashes and failing statements
  MaxStarts     \* bound: bootstraps started

Migs == 1..LastMig

ASSUME MigrationAssumption ==
  /\ LastMig \in Nat
  /\ Statements \in [Migs -> Nat \ {0}]
  /\ Known \in [Procs -> SUBSET Migs]
  /\ Checksum \in [Procs -> [Migs -> Checksums]]
  /\ DefaultMode \in Modes
  /\ MaxFaults \in Nat
  /\ MaxStarts \in Nat

VARIABLES
  row,       \* schema_migrations: the dirty marker and checksum per version
  applied,   \* statements of each migration that are durable in the schema
  twice,     \* history: migrations of which some statement was run again
  mode,      \* the runtime_mode row of system_state
  pc,        \* where the bootstrap of a process stands
  todo,      \* the versions a process has still to look at
  at,        \* the version a process is at
  faults, starts

vars == <<row, applied, twice, mode, pc, todo, at, faults, starts>>
durable == <<row, applied, twice, mode>>

Absent == [state |-> "absent"]
Row(d, c) == [state |-> "there", dirty |-> d, sum |-> c]
Rows == {Absent} \cup [state : {"there"}, dirty : BOOLEAN, sum : Checksums]
There(m) == row[m].state = "there"
Dirty(m) == There(m) /\ row[m].dirty
NoMode == "no row"

Points == {"closed", "guard", "next", "insert", "script", "clean", "verify",
           "compare", "defaults", "ready", "refused"}

TypeOK ==
  /\ row \in [Migs -> Rows]
  /\ applied \in [Migs -> Nat]
  /\ twice \subseteq Migs
  /\ mode \in Modes \cup {NoMode}
  /\ pc \in [Procs -> Points]
  /\ todo \in [Procs -> SUBSET Migs]
  /\ at \in [Procs -> Migs \cup {0}]
  /\ faults \in Nat
  /\ starts \in Nat

Init ==
  /\ row = [m \in Migs |-> Absent]
  /\ applied = [m \in Migs |-> 0]
  /\ twice = {}
  /\ mode = NoMode
  /\ pc = [p \in Procs |-> "closed"]
  /\ todo = [p \in Procs |-> {}]
  /\ at = [p \in Procs |-> 0]
  /\ faults = 0
  /\ starts = 0

-----------------------------------------------------------------------------
Goto(p, to) == pc' = [pc EXCEPT ![p] = to]

\* bootstrap_database: connect, discover_migrations, the table if it is missing.
Open(p) ==
  /\ pc[p] \in {"closed", "refused"}
  /\ starts < MaxStarts
  /\ starts' = starts + 1
  /\ Goto(p, "guard")
  /\ todo' = [todo EXCEPT ![p] = Known[p]]
  /\ at' = [at EXCEPT ![p] = 0]
  /\ UNCHANGED <<durable, faults>>

\* A slip: only the versions that are known here are looked at.
FailIfDirtyHere(p, here, then) ==
  /\ pc[p] = here
  /\ Goto(p, IF \E m \in Known[p] : Dirty(m) THEN "refused" ELSE then)
  /\ UNCHANGED <<durable, todo, at, faults, starts>>

\* fail_if_dirty_migration, before the loop and at the head of the last check:
\* DirtyMigrationError for the marker of any version, known here or not.
FailIfDirty(p, here, then) ==
  /\ pc[p] = here
  /\ Goto(p, IF \E m \in Migs : Dirty(m) THEN "refused" ELSE then)
  /\ UNCHANGED <<durable, todo, at, faults, starts>>

\* A slip: the files come in the order of the directory.
LookupUnsorted(p) ==
  /\ pc[p] = "next"
  /\ \E m \in todo[p] :
       /\ at' = [at EXCEPT ![p] = m]
       /\ \/ There(m) /\ row[m] # Row(FALSE, Checksum[p][m]) /\ Goto(p, "refused") /\ UNCHANGED todo
          \/ row[m] = Row(FALSE, Checksum[p][m]) /\ todo' = [todo EXCEPT ![p] = @ \ {m}] /\ UNCHANGED pc
          \/ ~There(m) /\ Goto(p, "insert") /\ UNCHANGED todo
  /\ UNCHANGED <<durable, faults, starts>>

\* The loop takes its versions in name order: the SELECT of one, which either
\* refuses, passes the version over, or leaves it to be applied.
Lookup(p) ==
  /\ pc[p] = "next"
  /\ \E m \in todo[p] :
       /\ \A k \in todo[p] : m <= k
       /\ at' = [at EXCEPT ![p] = m]
       /\ \/ /\ There(m)
             /\ row[m].dirty \/ row[m].sum # Checksum[p][m]
             /\ Goto(p, "refused")
             /\ UNCHANGED todo
          \/ /\ row[m] = Row(FALSE, Checksum[p][m])
             /\ todo' = [todo EXCEPT ![p] = @ \ {m}]
             /\ UNCHANGED pc
          \/ /\ ~There(m)
             /\ Goto(p, "insert")
             /\ UNCHANGED todo
  /\ UNCHANGED <<durable, faults, starts>>

\* No version is left: the loop ends.
LoopDone(p) ==
  /\ pc[p] = "next"
  /\ todo[p] = {}
  /\ Goto(p, "verify")
  /\ UNCHANGED <<durable, todo, at, faults, starts>>

\* A slip: INSERT OR REPLACE.
InsertOrReplace(p) ==
  /\ pc[p] = "insert"
  /\ row' = [row EXCEPT ![at[p]] = Row(TRUE, Checksum[p][at[p]])]
  /\ Goto(p, "script")
  /\ UNCHANGED <<applied, twice, mode, todo, at, faults, starts>>

\* A slip: the marker is not set.
InsertClean(p) ==
  /\ pc[p] = "insert"
  /\ ~There(at[p])
  /\ row' = [row EXCEPT ![at[p]] = Row(FALSE, Checksum[p][at[p]])]
  /\ Goto(p, "script")
  /\ UNCHANGED <<applied, twice, mode, todo, at, faults, starts>>

\* INSERT of the dirty row and its commit; the version is the primary key, so
\* that a row which appeared since the SELECT makes the INSERT raise.
InsertDirty(p) ==
  /\ pc[p] = "insert"
  /\ IF There(at[p])
     THEN /\ Goto(p, "refused")
          /\ UNCHANGED row
     ELSE /\ row' = [row EXCEPT ![at[p]] = Row(TRUE, Checksum[p][at[p]])]
          /\ Goto(p, "script")
  /\ UNCHANGED <<applied, twice, mode, todo, at, faults, starts>>

\* One statement of the script, durable at once.
RunStatement(p) ==
  /\ pc[p] = "script"
  /\ LET m == at[p] IN
     /\ IF applied[m] < Statements[m]
        THEN applied' = [applied EXCEPT ![m] = @ + 1] /\ UNCHANGED twice
        ELSE twice' = twice \cup {m} /\ UNCHANGED applied
     /\ Goto(p, IF applied[m] + 1 >= Statements[m] THEN "clean" ELSE "script")
  /\ UNCHANGED <<row, mode, todo, at, faults, starts>>

\* A statement raises (a constraint, a lock held too long, a full disk): the
\* rollback finds nothing to undo and the exception leaves apply_migrations.
StatementFails(p) ==
  /\ pc[p] = "script"
  /\ faults < MaxFaults
  /\ faults' = faults + 1
  /\ Goto(p, "refused")
  /\ UNCHANGED <<durable, todo, at, starts>>

\* A slip: the marker is not taken away.
LeaveDirty(p) ==
  /\ pc[p] = "clean"
  /\ todo' = [todo EXCEPT ![p] = @ \ {at[p]}]
  /\ Goto(p, "next")
  /\ UNCHANGED <<durable, at, faults, starts>>

\* UPDATE schema_migrations SET dirty = 0, and its commit.
MarkClean(p) ==
  /\ pc[p] = "clean"
  /\ row' = [row EXCEPT ![at[p]] = Row(FALSE, row[at[p]].sum)]
  /\ todo' = [todo EXCEPT ![p] = @ \ {at[p]}]
  /\ Goto(p, "next")
  /\ UNCHANGED <<applied, twice, mode, at, faults, starts>>

\* The rows of verify_migration_checksums: every row, against the files here.
Compare(p) ==
  /\ pc[p] = "compare"
  /\ Goto(p, IF \E m \in Migs : Dirty(m) \/ /\ There(m)
                                            /\ m \in Known[p]
                                            /\ row[m].sum # Checksum[p][m]
             THEN "refused" ELSE "defaults")
  /\ UNCHANGED <<durable, todo, at, faults, starts>>

\* _ensure_system_state_defaults: INSERT OR IGNORE of the policy rows.
InsertDefaults(p) ==
  /\ pc[p] = "defaults"
  /\ mode' = IF mode = NoMode THEN DefaultMode ELSE mode
  /\ Goto(p, "ready")
  /\ UNCHANGED <<row, applied, twice, todo, at, faults, starts>>

\* The operator sets the mode through a store that is open.
OperatorSetsMode ==
  /\ \E p \in Procs : pc[p] = "ready"
  /\ \E v \in Modes : mode' = v
  /\ UNCHANGED <<row, applied, twice, pc, todo, at, faults, starts>>

\* The process ends: an orderly close of an open store, or a crash anywhere.
Close(p) ==
  /\ pc[p] = "ready"
  /\ Goto(p, "closed")
  /\ UNCHANGED <<durable, todo, at, faults, starts>>

Crash(p) ==
  /\ pc[p] \notin {"closed", "refused"}
  /\ faults < MaxFaults
  /\ faults' = faults + 1
  /\ Goto(p, "closed")
  /\ UNCHANGED <<durable, todo, at, starts>>

Step(p) ==
  \/ FailIfDirty(p, "guard", "next")
  \/ Lookup(p)
  \/ LoopDone(p)
  \/ InsertDirty(p)
  \/ RunStatement(p)
  \/ MarkClean(p)
  \/ FailIfDirty(p, "verify", "compare")
  \/ Compare(p)
  \/ InsertDefaults(p)

Next ==
  \/ \E p \in Procs : Open(p) \/ Step(p) \/ StatementFails(p) \/ Close(p) \/ Crash(p)
  \/ OperatorSetsMode

Spec == Init /\ [][Next]_vars

-----------------------------------------------------------------------------
Complete(m) == applied[m] = Statements[m] /\ There(m) /\ ~row[m].dirty

\* A store that from_path has returned holds every migration of its release
\* whole, with the text the release has of it, and with none dirty.
ReadyMeansComplete ==
  \A p \in Procs : pc[p] = "ready" =>
    \A m \in Known[p] : Complete(m) /\ row[m].sum = Checksum[p][m]

\* Scripts 0002 and 0005 drop, rename and add columns: no statement is ever run
\* twice, by two bootstraps at once or by one that follows a crash.
RunOnce == twice = {}

\* A migration is begun only on the schema its predecessors in the same release
\* leave behind: all of them whole and clean.
InOrder ==
  \A p \in Procs : pc[p] \in {"insert", "script", "clean"} =>
    \A m \in Known[p] : m < at[p] => Complete(m)

\* The version is left dirty with nobody working on it.
Abandoned(m) == Dirty(m) /\ \A p \in Procs : at[p] = m => pc[p] \notin {"script", "clean"}

\* Fail-stop: once a migration is abandoned half way no bootstrap repairs it and
\* none gets past it; the processes that are refused stay refused.
FailStop ==
  [][\A m \in Migs : Abandoned(m) =>
       /\ Abandoned(m)' /\ applied'[m] = applied[m]
       /\ \A p \in Procs : pc[p] \in {"closed", "refused", "guard", "next", "verify"}
                             => pc'[p] # "compare" /\ pc'[p] # "ready"]_vars

\* Each bootstrap runs to its end unless the process dies.
FairSpec == Spec /\ \A p \in Procs : WF_vars(Step(p))

\* Bootstraps that run at once may refuse each other, but never all of them:
\* after a start somebody gets an open store, unless something failed, or one was
\* refused that has another text of a migration which is applied.
Edited(p) == \E m \in Known[p] : There(m) /\ row[m].sum # Checksum[p][m]
SomeoneGetsThere ==
  (\E p \in Procs : pc[p] = "guard") ~>
    \/ faults > 0
    \/ \E p \in Procs : pc[p] = "ready" \/ (pc[p] = "refused" /\ Edited(p))
=============================================================================
