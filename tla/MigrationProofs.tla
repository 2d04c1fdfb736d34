--------------------------- MODULE MigrationProofs ---------------------------
(***************************************************************************)
(* The safety of the bootstrap for any set of processes, releases and      *)
(* scripts.  The invariant says who owns a dirty row: nobody but the       *)
(* process whose INSERT created it, and that process alone runs the        *)
(* script.  Clean rows are never written again, so that what a process has *)
(* passed over stays whole.                                                *)
(***************************************************************************)
EXTENDS Migrations, TLAPS

Working == {"script", "clean"}
InLoop == {"next", "insert", "script", "clean"}
PastLoop == {"verify", "compare", "defaults", "ready"}
Clean(m) == There(m) /\ ~row[m].dirty

\* The row a process works on is the one it inserted, and it is on its list.
OwnsRow ==
  \A p \in Procs : pc[p] \in Working =>
    row[at[p]] = Row(TRUE, Checksum[p][at[p]])

\* No two processes work on one version.
OneWorker ==
  \A p, q \in Procs : pc[p] \in Working /\ pc[q] \in Working /\ at[p] = at[q] => p = q

\* The version at hand is the smallest one left.
AtSmallest ==
  \A p \in Procs : pc[p] \in {"insert", "script", "clean"} =>
    at[p] \in todo[p] /\ \A k \in todo[p] : at[p] <= k

\* How far a script is: as the row and its worker say.
Progress ==
  /\ \A m \in Migs : ~There(m) => applied[m] = 0
  /\ \A m \in Migs : Clean(m) => applied[m] = Statements[m]
  /\ \A p \in Procs : pc[p] = "script" => applied[at[p]] < Statements[at[p]]
  /\ \A p \in Procs : pc[p] = "clean" => applied[at[p]] = Statements[at[p]]

\* What a process has behind it is whole and has the text of its release.
Behind ==
  \A p \in Procs :
    /\ pc[p] = "guard" => todo[p] = Known[p]
    /\ pc[p] \in InLoop \cup PastLoop =>
         \A m \in Known[p] \ todo[p] : Clean(m) /\ row[m].sum = Checksum[p][m]
    /\ pc[p] \in PastLoop => todo[p] = {}

IInv == TypeOK /\ OwnsRow /\ OneWorker /\ AtSmallest /\ Progress /\ Behind /\ RunOnce

-----------------------------------------------------------------------------
\* Init establishes the invariant.
LEMMA InitIInv == Init => IInv
<1> SUFFICES ASSUME Init PROVE IInv
  OBVIOUS
<1> USE MigrationAssumption DEF Init, Absent
<1>1. TypeOK
  <2>1. row \in [Migs -> Rows]
    BY DEF Rows
  <2>2. pc \in [Procs -> Points]
    BY DEF Points
  <2>3. applied \in [Migs -> Nat] /\ twice \subseteq Migs /\ mode \in Modes \cup {NoMode}
    BY SMT
  <2>4. todo \in [Procs -> SUBSET Migs] /\ at \in [Procs -> Migs \cup {0}]
    BY SMT
  <2> QED
    BY <2>1, <2>2, <2>3, <2>4 DEF TypeOK
<1>2. OwnsRow /\ OneWorker /\ AtSmallest /\ Behind /\ RunOnce
  BY DEF OwnsRow, OneWorker, AtSmallest, Behind, RunOnce, Working, InLoop, PastLoop
<1>3. Progress
  BY DEF Progress, Clean, There, Absent
<1> QED
  BY <1>1, <1>2, <1>3 DEF IInv

\* A step that leaves the rows and scripts alone and moves one process between
\* points outside the script keeps what is said of the rows and their workers.
LEMMA MoveKeeps ==
  ASSUME IInv, NEW p \in Procs, NEW to \in Points,
         UNCHANGED <<row, applied, twice>>,
         pc' = [pc EXCEPT ![p] = to],
         to \notin Working,
         \A q \in Procs : q # p => at'[q] = at[q]
  PROVE  OwnsRow' /\ OneWorker' /\ Progress' /\ RunOnce'
<1> USE DEF IInv, TypeOK, Points, Working
<1>1. OwnsRow'
  BY DEF OwnsRow
<1>2. OneWorker'
  BY DEF OneWorker
<1>3. Progress'
  BY DEF Progress, Clean, There
<1> QED
  BY <1>1, <1>2, <1>3 DEF RunOnce

\* A point of a process changes and nothing else does.
LEMMA PointKeeps ==
  ASSUME IInv, NEW p \in Procs, NEW to \in Points,
         UNCHANGED <<row, applied, twice, todo, at>>,
         mode' \in Modes \cup {NoMode}, faults' \in Nat, starts' \in Nat,
         pc' = [pc EXCEPT ![p] = to],
         to \notin {"insert", "script", "clean"},
         to # "guard",
         to \in InLoop \cup PastLoop => pc[p] \in InLoop \cup PastLoop \/ pc[p] = "guard",
         to \in PastLoop => todo[p] = {}
  PROVE  IInv'
<1>1. TypeOK'
  BY DEF IInv, TypeOK
<1>2. OwnsRow' /\ OneWorker' /\ Progress' /\ RunOnce'
  BY MoveKeeps DEF Working
<1>3. AtSmallest'
  BY DEF IInv, TypeOK, AtSmallest
<1>4. Behind'
  BY DEF IInv, TypeOK, Behind, Clean, There
<1> QED
  BY <1>1, <1>2, <1>3, <1>4 DEF IInv

\* A checksum of a release, and the rows an INSERT and an UPDATE may write.
LEMMA RowFacts ==
  ASSUME NEW p \in Procs, NEW m \in Migs, NEW d \in BOOLEAN
  PROVE  /\ Checksum[p][m] \in Checksums
         /\ Row(d, Checksum[p][m]) \in Rows
BY MigrationAssumption DEF Rows, Row

\* A worker is at a version that has a row, and its row is dirty.
LEMMA WorkerFacts ==
  ASSUME IInv, NEW q \in Procs, pc[q] \in Working
  PROVE  /\ at[q] \in Migs /\ at[q] \in todo[q]
         /\ There(at[q]) /\ Dirty(at[q]) /\ ~Clean(at[q])
<1>1. at[q] \in todo[q] /\ todo[q] \subseteq Migs
  BY DEF IInv, TypeOK, AtSmallest, Working
<1>2. row[at[q]] = Row(TRUE, Checksum[q][at[q]])
  BY DEF IInv, OwnsRow
<1>3. row[at[q]].state = "there" /\ row[at[q]].dirty
  BY <1>2 DEF Row
<1> QED
  BY <1>1, <1>3 DEF There, Dirty, Clean

-----------------------------------------------------------------------------
\* The bootstrap starts over with the whole list of its release.
LEMMA OpenStep == ASSUME IInv, NEW p \in Procs, Open(p) PROVE IInv'
<1> USE DEF Open, Goto, durable
<1>1. TypeOK'
  <2>1. pc' \in [Procs -> Points] /\ starts' \in Nat /\ at' \in [Procs -> Migs \cup {0}]
    BY DEF IInv, TypeOK, Points
  <2>2. todo' \in [Procs -> SUBSET Migs]
    BY MigrationAssumption DEF IInv, TypeOK
  <2> QED
    BY <2>1, <2>2 DEF IInv, TypeOK
<1>2. OwnsRow' /\ OneWorker' /\ Progress' /\ RunOnce'
  <2>1. pc' = [pc EXCEPT ![p] = "guard"] /\ \A q \in Procs : q # p => at'[q] = at[q]
    BY DEF IInv, TypeOK
  <2>2. "guard" \in Points /\ "guard" \notin Working
    BY DEF Points, Working
  <2> QED
    BY <2>1, <2>2, MoveKeeps
<1>3. AtSmallest'
  BY DEF IInv, TypeOK, AtSmallest
<1>4. Behind'
  BY MigrationAssumption DEF IInv, TypeOK, Behind, Clean, There, InLoop, PastLoop
<1> QED
  BY <1>1, <1>2, <1>3, <1>4 DEF IInv

\* Both dirty guards move one process and change nothing.
LEMMA GuardStep ==
  ASSUME IInv, NEW p \in Procs,
         FailIfDirty(p, "guard", "next") \/ FailIfDirty(p, "verify", "compare")
  PROVE  IInv'
<1> USE DEF FailIfDirty, Goto, durable, IInv, TypeOK, Points, InLoop, PastLoop
<1>1. CASE FailIfDirty(p, "guard", "next")
  <2> DEFINE to == IF \E m \in Migs : Dirty(m) THEN "refused" ELSE "next"
  <2> HIDE DEF IInv
  <2>1. to \in Points /\ pc' = [pc EXCEPT ![p] = to] /\ pc[p] = "guard"
    BY <1>1
  <2>2. to \in {"refused", "next"}
    OBVIOUS
  <2>3. /\ UNCHANGED <<row, applied, twice, todo, at>>
        /\ mode' \in Modes \cup {NoMode} /\ faults' \in Nat /\ starts' \in Nat
    BY <1>1 DEF IInv
  <2> HIDE DEF to
  <2> QED
    BY <2>1, <2>2, <2>3, PointKeeps
<1>2. CASE FailIfDirty(p, "verify", "compare")
  <2> DEFINE to == IF \E m \in Migs : Dirty(m) THEN "refused" ELSE "compare"
  <2> HIDE DEF IInv
  <2>1. to \in Points /\ pc' = [pc EXCEPT ![p] = to] /\ pc[p] = "verify"
    BY <1>2
  <2>2. to \in {"refused", "compare"} /\ todo[p] = {}
    BY <2>1 DEF IInv, Behind
  <2>3. /\ UNCHANGED <<row, applied, twice, todo, at>>
        /\ mode' \in Modes \cup {NoMode} /\ faults' \in Nat /\ starts' \in Nat
    BY <1>2 DEF IInv
  <2> HIDE DEF to
  <2> QED
    BY <2>1, <2>2, <2>3, PointKeeps
<1> QED
  BY <1>1, <1>2

\* The SELECT of a version: only a version that is whole and has the release's
\* text leaves the list.
LEMMA LookupStep == ASSUME IInv, NEW p \in Procs, Lookup(p) PROVE IInv'
<1>1. PICK m \in todo[p] :
        /\ \A k \in todo[p] : m <= k
        /\ at' = [at EXCEPT ![p] = m]
        /\ \/ /\ Goto(p, "refused")
              /\ UNCHANGED todo
           \/ /\ row[m] = Row(FALSE, Checksum[p][m])
              /\ todo' = [todo EXCEPT ![p] = @ \ {m}]
              /\ UNCHANGED pc
           \/ /\ ~There(m)
              /\ Goto(p, "insert")
              /\ UNCHANGED todo
  BY DEF Lookup
<1>2. pc[p] = "next" /\ UNCHANGED <<durable, faults, starts>> /\ m \in Migs
  BY DEF Lookup, IInv, TypeOK
<1>3. TypeOK'
  BY <1>1, <1>2 DEF IInv, TypeOK, durable, Goto, Points
<1>4. \E to \in Points \ Working : pc' = [pc EXCEPT ![p] = to]
  <2>1. {"next", "refused", "insert"} \subseteq Points \ Working
    BY DEF Points, Working
  <2>2. pc = [pc EXCEPT ![p] = "next"]
    BY <1>2 DEF IInv, TypeOK
  <2> QED
    BY <1>1, <2>1, <2>2 DEF Goto
<1>5. OwnsRow' /\ OneWorker' /\ Progress' /\ RunOnce'
  BY <1>1, <1>2, <1>4, MoveKeeps DEF durable, IInv, TypeOK
<1>6. AtSmallest'
  BY <1>1, <1>2 DEF IInv, TypeOK, AtSmallest, Goto
<1>7. Behind'
  <2> USE DEF IInv, TypeOK, Behind, InLoop, PastLoop, Clean, There, durable
  <2>1. CASE Goto(p, "refused") /\ UNCHANGED todo
    BY <1>1, <1>2, <2>1 DEF Goto
  <2>2. CASE Goto(p, "insert") /\ UNCHANGED todo
    BY <1>1, <1>2, <2>2 DEF Goto
  <2>3. CASE /\ row[m] = Row(FALSE, Checksum[p][m])
             /\ todo' = [todo EXCEPT ![p] = @ \ {m}]
             /\ UNCHANGED pc
    <3>1. Clean(m) /\ row[m].sum = Checksum[p][m]
      BY <2>3 DEF Row
    <3>2. /\ pc' = pc /\ row' = row
          /\ todo'[p] = todo[p] \ {m} /\ \A q \in Procs \ {p} : todo'[q] = todo[q]
      BY <1>2, <2>3
    <3>3. Known[p] \ todo'[p] \subseteq (Known[p] \ todo[p]) \cup {m}
      BY <3>2
    <3>4. \A q \in Procs \ {p} :
            /\ pc'[q] = "guard" => todo'[q] = Known[q]
            /\ pc'[q] \in InLoop \cup PastLoop =>
                 \A k \in Known[q] \ todo'[q] : (Clean(k) /\ row[k].sum = Checksum[q][k])'
            /\ pc'[q] \in PastLoop => todo'[q] = {}
      BY <3>2
    <3>5. \A k \in Known[p] \ todo'[p] : (Clean(k) /\ row[k].sum = Checksum[p][k])'
      BY <1>2, <3>1, <3>2, <3>3
    <3> QED
      BY <1>2, <3>2, <3>4, <3>5
  <2> QED
    BY <1>1, <2>1, <2>2, <2>3
<1> QED
  BY <1>3, <1>5, <1>6, <1>7 DEF IInv

\* The loop ends when the list is empty.
LEMMA LoopDoneStep == ASSUME IInv, NEW p \in Procs, LoopDone(p) PROVE IInv'
<1>1. /\ UNCHANGED <<row, applied, twice, todo, at>>
      /\ mode' \in Modes \cup {NoMode} /\ faults' \in Nat /\ starts' \in Nat
      /\ pc[p] = "next" /\ todo[p] = {} /\ pc' = [pc EXCEPT ![p] = "verify"]
  BY DEF LoopDone, Goto, durable, IInv, TypeOK
<1> QED
  BY <1>1, PointKeeps DEF Points, InLoop, PastLoop

\* The INSERT gives the new row one worker: a version that has a row already
\* makes it raise.
LEMMA InsertStep == ASSUME IInv, NEW p \in Procs, InsertDirty(p) PROVE IInv'
<1>1. CASE There(at[p])
  <2>1. /\ UNCHANGED <<row, applied, twice, todo, at>>
        /\ mode' \in Modes \cup {NoMode} /\ faults' \in Nat /\ starts' \in Nat
        /\ pc[p] = "insert" /\ pc' = [pc EXCEPT ![p] = "refused"]
    BY <1>1 DEF InsertDirty, Goto, IInv, TypeOK
  <2> QED
    BY <2>1, PointKeeps DEF Points, InLoop, PastLoop
<1>2. CASE ~There(at[p])
  <2>a. PICK m : m = at[p]
    OBVIOUS
  <2>1. /\ pc[p] = "insert" /\ pc' = [pc EXCEPT ![p] = "script"]
        /\ row' = [row EXCEPT ![m] = Row(TRUE, Checksum[p][m])]
        /\ UNCHANGED <<applied, twice, mode, todo, at, faults, starts>>
    BY <1>2, <2>a DEF InsertDirty, Goto
  <2>2. m \in Migs /\ m \in todo[p] /\ (\A k \in todo[p] : m <= k) /\ applied[m] = 0
    BY <1>2, <2>a, <2>1 DEF IInv, TypeOK, AtSmallest, Progress
  <2>3. Row(TRUE, Checksum[p][m]) \in Rows
    BY <2>2, RowFacts
  <2>4. row'[m] = Row(TRUE, Checksum[p][m]) /\ \A k \in Migs \ {m} : row'[k] = row[k]
    BY <2>1, <2>2 DEF IInv, TypeOK
  <2>5. There(m)' /\ ~Clean(m)' /\ \A k \in Migs \ {m} : (There(k)' <=> There(k)) /\ (Clean(k)' <=> Clean(k))
    BY <2>4 DEF There, Clean, Row
  <2>6. \A q \in Procs : pc[q] \in Working => at[q] # m /\ at[q] \in Migs
    BY <1>2, <2>a, WorkerFacts
  <2> USE DEF IInv, TypeOK
  <2>7. TypeOK'
    BY <2>1, <2>3 DEF Points
  <2>b. /\ \A q \in Procs \ {p} : pc'[q] = pc[q] /\ at'[q] = at[q] /\ todo'[q] = todo[q]
        /\ pc'[p] = "script" /\ at'[p] = m /\ todo'[p] = todo[p]
    BY <2>a, <2>1
  <2>8. OwnsRow'
    <3>1. \A q \in Procs \ {p} : pc[q] \in Working => row'[at[q]] = row[at[q]] /\ at'[q] = at[q]
      BY <2>b, <2>4, <2>6
    <3>2. \A q \in Procs \ {p} : pc'[q] \in Working => row'[at'[q]] = Row(TRUE, Checksum[q][at'[q]])
      <4> SUFFICES ASSUME NEW q \in Procs \ {p}, pc'[q] \in Working
                   PROVE  row'[at'[q]] = Row(TRUE, Checksum[q][at'[q]])
        OBVIOUS
      <4>1. pc[q] \in Working /\ at'[q] = at[q] /\ row'[at[q]] = row[at[q]]
        BY <2>b, <3>1
      <4>2. row[at[q]] = Row(TRUE, Checksum[q][at[q]])
        BY <4>1 DEF OwnsRow
      <4> QED
        BY <4>1, <4>2
    <3> QED
      BY <2>b, <2>4, <3>2 DEF OwnsRow
  <2>c. OneWorker'
    BY <2>b, <2>6 DEF OneWorker, Working
  <2>9. AtSmallest'
    BY <2>b, <2>2 DEF AtSmallest
  <2>10. Progress'
    <3>1. \A k \in Migs : (~There(k) => applied[k] = 0)' /\ (Clean(k) => applied[k] = Statements[k])'
      BY <2>1, <2>5 DEF Progress
    <3>2. \A q \in Procs : pc'[q] = "script" => applied'[at'[q]] < Statements[at'[q]]
      <4>1. 0 < Statements[m]
        BY <2>2, MigrationAssumption
      <4> QED
        BY <2>1, <2>b, <2>2, <4>1 DEF Progress
    <3>3. \A q \in Procs : pc'[q] = "clean" => applied'[at'[q]] = Statements[at'[q]]
      BY <2>1, <2>b DEF Progress
    <3> QED
      BY <3>1, <3>2, <3>3 DEF Progress
  <2>11. Behind'
    <3>1. \A q \in Procs : \A k \in Known[q] : Clean(k) => Clean(k)' /\ row'[k] = row[k]
      BY <1>2, <2>a, <2>4, <2>5, MigrationAssumption DEF Clean
    <3> QED
      <4>1. pc[p] \in InLoop /\ pc'[p] \in InLoop /\ pc'[p] \notin PastLoop
        BY <2>1, <2>b DEF InLoop, PastLoop
      <4>2. pc'[p] # "guard"
        BY <2>b
      <4> QED
        BY <2>b, <3>1, <4>1, <4>2 DEF Behind
  <2> QED
    BY <2>1, <2>7, <2>8, <2>c, <2>9, <2>10, <2>11 DEF RunOnce
<1> QED
  BY <1>1, <1>2

\* A statement brings the worker's script one further, up to its last.
LEMMA StatementStep == ASSUME IInv, NEW p \in Procs, RunStatement(p) PROVE IInv'
<1>1. PICK m : m = at[p]
  OBVIOUS
<1>2. pc[p] = "script" /\ UNCHANGED <<row, mode, todo, at, faults, starts>>
  BY DEF RunStatement
<1>3. m \in Migs /\ There(m) /\ ~Clean(m)
  BY <1>1, <1>2, WorkerFacts DEF Working
<1>4. applied[m] < Statements[m] /\ applied[m] \in Nat /\ Statements[m] \in Nat
  BY <1>1, <1>2, <1>3, MigrationAssumption DEF IInv, TypeOK, Progress
<1>5. PICK to : to = IF applied[m] + 1 >= Statements[m] THEN "clean" ELSE "script"
  OBVIOUS
<1>6. applied' = [applied EXCEPT ![m] = @ + 1] /\ twice' = twice /\ pc' = [pc EXCEPT ![p] = to]
  BY <1>1, <1>4, <1>5 DEF RunStatement, Goto
<1>7. /\ to \in Working
      /\ to = "clean" => applied[m] + 1 = Statements[m]
      /\ to = "script" => applied[m] + 1 < Statements[m]
  BY <1>4, <1>5 DEF Working
<1> USE DEF IInv, TypeOK
<1>8. /\ \A q \in Procs \ {p} : pc'[q] = pc[q]
      /\ pc'[p] = to
      /\ applied'[m] = applied[m] + 1
      /\ \A k \in Migs \ {m} : applied'[k] = applied[k]
  BY <1>3, <1>6
<1>9. TypeOK'
  BY <1>2, <1>3, <1>4, <1>6, <1>7 DEF Working, Points
<1>10. OwnsRow' /\ OneWorker'
  <2>1. \A q \in Procs : pc'[q] \in Working => pc[q] \in Working
    BY <1>2, <1>7, <1>8 DEF Working
  <2>2. OneWorker'
    BY <1>2, <2>1 DEF OneWorker
  <2>3. OwnsRow'
    BY <1>2, <2>1 DEF OwnsRow
  <2> QED
    BY <2>2, <2>3
<1>11. AtSmallest'
  BY <1>2, <1>7, <1>8 DEF AtSmallest, Working
<1>12. Progress'
  <2>1. \A k \in Migs : (~There(k) => applied[k] = 0)' /\ (Clean(k) => applied[k] = Statements[k])'
    BY <1>2, <1>3, <1>8 DEF Progress, There, Clean
  <2>2. \A q \in Procs \ {p} : pc[q] \in Working => at[q] # m /\ at[q] \in Migs
    BY <1>1, <1>2, WorkerFacts DEF OneWorker, Working
  <2>3. \A q \in Procs \ {p} : pc[q] \in Working => applied'[at[q]] = applied[at[q]]
    BY <1>8, <2>2
  <2>4. \A q \in Procs : pc'[q] = "script" => applied'[at'[q]] < Statements[at'[q]]
    BY <1>1, <1>2, <1>7, <1>8, <2>3 DEF Progress, Working
  <2>5. \A q \in Procs : pc'[q] = "clean" => applied'[at'[q]] = Statements[at'[q]]
    BY <1>1, <1>2, <1>7, <1>8, <2>3 DEF Progress, Working
  <2> QED
    BY <2>1, <2>4, <2>5 DEF Progress
<1>13. Behind'
  BY <1>2, <1>7, <1>8 DEF Behind, InLoop, PastLoop, Working, Clean, There
<1> QED
  BY <1>6, <1>9, <1>10, <1>11, <1>12, <1>13 DEF RunOnce

\* The worker that marks its row clean has run the whole script.
LEMMA MarkCleanStep == ASSUME IInv, NEW p \in Procs, MarkClean(p) PROVE IInv'
<1>1. PICK m : m = at[p]
  OBVIOUS
<1>2. /\ pc[p] = "clean"
      /\ row' = [row EXCEPT ![m] = Row(FALSE, row[m].sum)]
      /\ todo' = [todo EXCEPT ![p] = @ \ {m}]
      /\ pc' = [pc EXCEPT ![p] = "next"]
      /\ UNCHANGED <<applied, twice, mode, at, faults, starts>>
  BY <1>1 DEF MarkClean, Goto
<1>3. m \in Migs /\ m \in todo[p] /\ There(m)
  BY <1>1, <1>2, WorkerFacts DEF Working
<1>4. row[m].sum = Checksum[p][m]
  <2>1. row[m] = Row(TRUE, Checksum[p][m])
    BY <1>1, <1>2 DEF IInv, OwnsRow, Working
  <2> QED
    BY <2>1 DEF Row
<1>5. row'[m] = Row(FALSE, Checksum[p][m]) /\ \A k \in Migs \ {m} : row'[k] = row[k]
  BY <1>2, <1>3, <1>4 DEF IInv, TypeOK
<1>6. row'[m].state = "there" /\ ~row'[m].dirty /\ row'[m].sum = Checksum[p][m]
  BY <1>5 DEF Row
<1>7. There(m)' /\ Clean(m)' /\ \A k \in Migs \ {m} : (There(k)' <=> There(k)) /\ (Clean(k)' <=> Clean(k))
  BY <1>5, <1>6 DEF There, Clean
<1>8. \A q \in Procs \ {p} : pc[q] \in Working => at[q] # m /\ at[q] \in Migs
  BY <1>1, <1>2, WorkerFacts DEF IInv, OneWorker, Working
<1>9. /\ \A q \in Procs \ {p} : pc'[q] = pc[q] /\ at'[q] = at[q] /\ todo'[q] = todo[q]
      /\ pc'[p] = "next" /\ at'[p] = m /\ todo'[p] = todo[p] \ {m}
  BY <1>1, <1>2 DEF IInv, TypeOK
<1>10. applied[m] = Statements[m]
  BY <1>1, <1>2 DEF IInv, Progress
<1> USE DEF IInv, TypeOK
<1>11. TypeOK'
  BY <1>2, <1>3, <1>4, RowFacts DEF Points
<1>12. OwnsRow'
  <2> SUFFICES ASSUME NEW q \in Procs, pc'[q] \in Working
               PROVE  row'[at'[q]] = Row(TRUE, Checksum[q][at'[q]])
    BY DEF OwnsRow
  <2>1. q # p /\ pc[q] \in Working /\ at'[q] = at[q]
    BY <1>9 DEF Working
  <2>2. row'[at[q]] = row[at[q]]
    BY <1>5, <1>8, <2>1
  <2>3. row[at[q]] = Row(TRUE, Checksum[q][at[q]])
    BY <2>1 DEF OwnsRow
  <2> QED
    BY <2>1, <2>2, <2>3
<1>13. OneWorker' /\ AtSmallest'
  BY <1>9 DEF OneWorker, AtSmallest, Working
<1>14. Progress'
  <2>1. \A k \in Migs : (~There(k) => applied[k] = 0)' /\ (Clean(k) => applied[k] = Statements[k])'
    BY <1>2, <1>7, <1>10 DEF Progress
  <2>2. \A q \in Procs : pc'[q] = "script" => applied'[at'[q]] < Statements[at'[q]]
    BY <1>2, <1>9 DEF Progress
  <2>3. \A q \in Procs : pc'[q] = "clean" => applied'[at'[q]] = Statements[at'[q]]
    BY <1>2, <1>9 DEF Progress
  <2> QED
    BY <2>1, <2>2, <2>3 DEF Progress
<1>15. Behind'
  <2>1. \A q \in Procs : \A k \in Known[q] : Clean(k) => Clean(k)' /\ (k # m => row'[k] = row[k])
    BY <1>5, <1>7, MigrationAssumption
  <2>2. ~Clean(m)
    BY <1>1, <1>2, WorkerFacts DEF Working
  <2>3. \A q \in Procs \ {p} :
          /\ pc'[q] = "guard" => todo'[q] = Known[q]
          /\ pc'[q] \in InLoop \cup PastLoop =>
               \A k \in Known[q] \ todo'[q] : Clean(k)' /\ row'[k].sum = Checksum[q][k]
          /\ pc'[q] \in PastLoop => todo'[q] = {}
    BY <1>9, <2>1, <2>2 DEF Behind
  <2>4. \A k \in Known[p] \ todo'[p] : Clean(k)' /\ row'[k].sum = Checksum[p][k]
    <3>1. pc[p] \in InLoop \cup PastLoop
      BY <1>2 DEF InLoop
    <3>2. \A k \in Known[p] \ todo[p] : Clean(k) /\ row[k].sum = Checksum[p][k]
      BY <3>1 DEF Behind
    <3>3. \A k \in Known[p] \ todo'[p] : k = m \/ k \notin todo[p]
      BY <1>9
    <3> QED
      BY <1>6, <1>7, <2>1, <2>2, <3>2, <3>3
  <2> QED
    BY <1>9, <2>3, <2>4 DEF Behind, InLoop, PastLoop
<1> QED
  BY <1>2, <1>11, <1>12, <1>13, <1>14, <1>15 DEF RunOnce

\* The last comparison, the defaults, and every way a process comes to an end.
LEMMA EndStep ==
  ASSUME IInv, NEW p \in Procs,
         Compare(p) \/ InsertDefaults(p) \/ Close(p) \/ Crash(p) \/ StatementFails(p)
  PROVE  IInv'
<1>1. PICK to \in {"refused", "defaults", "ready", "closed"} :
        /\ pc' = [pc EXCEPT ![p] = to]
        /\ to \in {"defaults", "ready"} => pc[p] \in PastLoop
  BY DEF Compare, InsertDefaults, Close, Crash, StatementFails, Goto, PastLoop
<1>2. UNCHANGED <<row, applied, twice, todo, at>> /\ starts' \in Nat
  BY DEF Compare, InsertDefaults, Close, Crash, StatementFails, durable, IInv, TypeOK
<1>3. mode' \in Modes \cup {NoMode} /\ faults' \in Nat
  BY MigrationAssumption
     DEF Compare, InsertDefaults, Close, Crash, StatementFails, durable, IInv, TypeOK
<1>4. to \in Points /\ to \notin {"guard", "insert", "script", "clean"}
  BY DEF Points
<1>5. to \in InLoop \cup PastLoop => pc[p] \in PastLoop /\ todo[p] = {}
  BY <1>1 DEF InLoop, PastLoop, IInv, Behind
<1> QED
  BY <1>1, <1>2, <1>3, <1>4, <1>5, PointKeeps

\* Every step keeps the invariant.
LEMMA NextIInv == IInv /\ [Next]_vars => IInv'
<1> SUFFICES ASSUME IInv, [Next]_vars PROVE IInv'
  OBVIOUS
<1>1. ASSUME NEW p \in Procs, Open(p) PROVE IInv'
  BY <1>1, OpenStep
<1>2. ASSUME NEW p \in Procs, Step(p) PROVE IInv'
  BY <1>2, GuardStep, LookupStep, LoopDoneStep, InsertStep, StatementStep, MarkCleanStep,
     EndStep DEF Step
<1>3. ASSUME NEW p \in Procs, StatementFails(p) \/ Close(p) \/ Crash(p) PROVE IInv'
  BY <1>3, EndStep
<1>4. CASE OperatorSetsMode
  <2>1. mode' \in Modes /\ UNCHANGED <<row, applied, twice, pc, todo, at, faults, starts>>
    BY <1>4 DEF OperatorSetsMode
  <2>2. TypeOK'
    BY <2>1 DEF IInv, TypeOK
  <2> QED
    BY <2>1, <2>2 DEF IInv, OwnsRow, OneWorker, AtSmallest, Progress, Behind, RunOnce, Clean, There
<1>5. CASE UNCHANGED vars
  <2>1. TypeOK'
    BY <1>5 DEF vars, IInv, TypeOK
  <2> QED
    BY <1>5, <2>1
       DEF vars, IInv, OwnsRow, OneWorker, AtSmallest, Progress, Behind, RunOnce, Clean, There
<1> QED
  BY <1>1, <1>2, <1>3, <1>4, <1>5 DEF Next

THEOREM Invariance == Spec => []IInv
<1>1. Init => IInv
  BY InitIInv
<1>2. IInv /\ [Next]_vars => IInv'
  BY NextIInv
<1> QED
  BY <1>1, <1>2, PTL DEF Spec

-----------------------------------------------------------------------------
\* A store that is open holds every migration of its release whole and clean,
\* with the text of the release (apply_migrations, verify_migration_checksums).
THEOREM ReadyCorrect == Spec => []ReadyMeansComplete
<1>1. IInv => ReadyMeansComplete
  <2> SUFFICES ASSUME IInv, NEW p \in Procs, pc[p] = "ready", NEW m \in Known[p]
               PROVE  Complete(m) /\ row[m].sum = Checksum[p][m]
    BY DEF ReadyMeansComplete
  <2>1. m \in Migs /\ Clean(m) /\ row[m].sum = Checksum[p][m]
    BY MigrationAssumption DEF IInv, Behind, PastLoop
  <2>2. applied[m] = Statements[m]
    BY <2>1 DEF IInv, Progress
  <2> QED
    BY <2>1, <2>2 DEF Complete, Clean
<1> QED
  BY <1>1, Invariance, PTL

\* No statement of a migration is ever run twice, whatever crashes and whoever
\* else opens the store.
THEOREM RunOnceCorrect == Spec => []RunOnce
<1>1. IInv => RunOnce
  BY DEF IInv
<1> QED
  BY <1>1, Invariance, PTL

\* A migration is begun on the whole of its predecessors in the same release.
THEOREM InOrderCorrect == Spec => []InOrder
<1>1. IInv => InOrder
  <2> SUFFICES ASSUME IInv, NEW p \in Procs, pc[p] \in {"insert", "script", "clean"},
                      NEW m \in Known[p], m < at[p]
               PROVE  Complete(m)
    BY DEF InOrder
  <2>1. m \in Migs
    BY MigrationAssumption
  <2>2. m \notin todo[p]
    <3>1. at[p] \in Migs /\ todo[p] \subseteq Migs /\ \A k \in todo[p] : at[p] <= k
      BY DEF IInv, TypeOK, AtSmallest
    <3>2. m \in todo[p] => at[p] <= m
      BY <3>1
    <3> QED
      BY <2>1, <3>1, <3>2 DEF Migs
  <2>3. Clean(m)
    BY <2>2 DEF IInv, Behind, InLoop
  <2> QED
    BY <2>1, <2>3 DEF IInv, Progress, Complete, Clean
<1> QED
  BY <1>1, Invariance, PTL

\* A migration that was left half way stays as it is and shuts the store for
\* everybody: no bootstrap gets past its marker.
THEOREM FailStopCorrect == Spec => FailStop
<1> DEFINE Stays(m) ==
      /\ Abandoned(m)' /\ applied'[m] = applied[m]
      /\ \A p \in Procs : pc[p] \in {"closed", "refused", "guard", "next", "verify"}
                            => pc'[p] # "compare" /\ pc'[p] # "ready"
<1>1. ASSUME IInv, [Next]_vars, NEW m \in Migs, Abandoned(m) PROVE Stays(m)
  <2> USE DEF IInv, TypeOK
  <2>1. /\ Dirty(m)
        /\ \A p \in Procs : at[p] = m => pc[p] \notin Working
    BY <1>1 DEF Abandoned, Working
  <2>2. row'[m] = row[m] /\ applied'[m] = applied[m]
    <3>1. \A p \in Procs : InsertDirty(p) => row'[m] = row[m] /\ applied'[m] = applied[m]
      BY <1>1, <2>1 DEF InsertDirty, Dirty
    <3>2. \A p \in Procs : RunStatement(p) \/ MarkClean(p) => row'[m] = row[m] /\ applied'[m] = applied[m]
      BY <1>1, <2>1 DEF RunStatement, MarkClean, Working
    <3> QED
      BY <1>1, <3>1, <3>2
         DEF Next, Step, vars, Open, FailIfDirty, Lookup, LoopDone, StatementFails, Compare,
             InsertDefaults, Close, Crash, OperatorSetsMode, durable
  <2>3. \A p \in Procs : at'[p] = m => pc'[p] \notin Working
    <3> SUFFICES ASSUME NEW p \in Procs, at'[p] = m, pc'[p] \in Working PROVE FALSE
      OBVIOUS
    <3>1. ASSUME NEW q \in Procs, Lookup(q) PROVE FALSE
      BY <1>1, <2>1, <3>1 DEF Lookup, Goto, Working, Dirty, There
    <3>2. ASSUME NEW q \in Procs, InsertDirty(q) PROVE FALSE
      BY <1>1, <2>1, <3>2 DEF InsertDirty, Goto, Working, Dirty
    <3>3. ASSUME NEW q \in Procs, RunStatement(q) PROVE FALSE
      BY <1>1, <2>1, <3>3 DEF RunStatement, Goto, Working
    <3>4. ASSUME NEW q \in Procs, Open(q) PROVE FALSE
      BY <1>1, <2>1, <3>4 DEF Open, Goto, Working
    <3>5. ASSUME NEW q \in Procs,
                 FailIfDirty(q, "guard", "next") \/ FailIfDirty(q, "verify", "compare") PROVE FALSE
      BY <1>1, <2>1, <3>5 DEF FailIfDirty, Goto, Working
    <3>6. ASSUME NEW q \in Procs, LoopDone(q) \/ MarkClean(q) \/ Compare(q) \/ InsertDefaults(q)
                 PROVE FALSE
      BY <1>1, <2>1, <3>6 DEF LoopDone, MarkClean, Compare, InsertDefaults, Goto, Working
    <3>7. ASSUME NEW q \in Procs, StatementFails(q) \/ Close(q) \/ Crash(q) PROVE FALSE
      BY <1>1, <2>1, <3>7 DEF StatementFails, Close, Crash, Goto, Working
    <3>8. OperatorSetsMode \/ UNCHANGED vars => FALSE
      BY <1>1, <2>1 DEF OperatorSetsMode, vars, Working
    <3> QED
      BY <1>1, <3>1, <3>2, <3>3, <3>4, <3>5, <3>6, <3>7, <3>8 DEF Next, Step
  <2>4. \A p \in Procs : pc[p] \in {"closed", "refused", "guard", "next", "verify"}
                           => pc'[p] # "compare" /\ pc'[p] # "ready"
    <3> SUFFICES ASSUME NEW p \in Procs, pc[p] \in {"closed", "refused", "guard", "next", "verify"},
                        pc'[p] \in {"compare", "ready"}
                 PROVE  FALSE
      OBVIOUS
    <3>1. \A q \in Procs : ~FailIfDirty(q, "guard", "next") /\ ~FailIfDirty(q, "verify", "compare")
      BY <1>1, <2>1 DEF FailIfDirty, Goto
    <3>2. \A q \in Procs : ~(Open(q) \/ LoopDone(q) \/ Lookup(q) \/ InsertDirty(q) \/ RunStatement(q))
      BY ZenonT(40), <1>1 DEF Open, LoopDone, Lookup, InsertDirty, RunStatement, Goto
    <3>3. \A q \in Procs : ~(MarkClean(q) \/ Compare(q) \/ InsertDefaults(q))
      BY <1>1 DEF MarkClean, Compare, InsertDefaults, Goto
    <3>4. \A q \in Procs : ~(StatementFails(q) \/ Close(q) \/ Crash(q))
      BY <1>1 DEF StatementFails, Close, Crash, Goto
    <3> QED
      BY <1>1, <3>1, <3>2, <3>3, <3>4 DEF Next, Step, OperatorSetsMode, vars
  <2>5. Abandoned(m)'
    BY <2>1, <2>2, <2>3 DEF Abandoned, Dirty, There, Working
  <2> QED
    BY <2>2, <2>4, <2>5
<1>2. IInv /\ [Next]_vars => [\A m \in Migs : Abandoned(m) => Stays(m)]_vars
  BY <1>1
<1> QED
  BY <1>2, Invariance, PTL DEF Spec, FailStop
=============================================================================
