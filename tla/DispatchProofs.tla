--------------------------- MODULE DispatchProofs ---------------------------
(***************************************************************************)
(* Proofs about Dispatch and its Adapter, for any reminders, answers of    *)
(* the gateway, windows, crashes, exceptions and changes from outside.     *)
(***************************************************************************)
EXTENDS Dispatch, TLAPS

\* Where an attempt is under way, where its outcome is in hand, and where the
\* unverified attempts are worked off.
Serving == {"attempt", "send"}
Decided == {"settle", "log", "reflect", "record"}
Closing == {"close", "reflect", "record"}

\* What allows the daemon to say that r is delivered.
Evidence(r) ==
  r \in Elsewhere \cup receipts \/ \E c \in calls[r] : c.kind = "confirmed"

\* What a cycle has in hand at each of its places.
Held ==
  /\ pc \in Serving => cur \in Object /\ dest \in Targets
  /\ pc \in Decided => cur \in Object /\ verdict \in Reasons
  /\ pc \in {"reflect", "record"} => row \in Entry
  /\ pc \notin Closing => rows = {}

\* WhatsappOnEvidence is not inductive: the word "delivered" is written from a
\* verdict in hand, from a result frozen in an earlier cycle, or from a reference
\* that was read with a snapshot of the attempts.
Evident ==
  /\ \A c \in canonical : c.kind = "confirmed" => Evidence(c.key)
  /\ \A r \in Reminders : reminder[r].status = "delivered" => Evidence(r)
  /\ \A e \in ledger \cup rows : e.reason = "DELIVERED_SUCCESS" => Evidence(e.id)
  /\ \A e \in ledger \cup rows : e.ref => Evidence(e.id)
  /\ pc \in Decided /\ verdict = "DELIVERED_SUCCESS" => Evidence(cur.id)

\* Two rows of one attempt are one row.
SameAttempt(e, f) == e.id = f.id /\ e.index = f.index
OneRowEach(S) == \A e, f \in S : SameAttempt(e, f) => e = f

\* The snapshot of the unverified attempts may be stale in what a receipt has
\* changed, but what it still has to work off is unverified in the table.
Keyed ==
  /\ OneRowEach(ledger)
  /\ OneRowEach(rows)
  /\ \A e \in rows, f \in ledger : SameAttempt(e, f) => f.reason = "ACCEPTED_UNVERIFIED"

\* What is frozen for a key has a newest result, or there would be nothing for the
\* adapter to replay.  In the first life of the process every answer of the gateway
\* is remembered.
Remembered ==
  /\ \A f \in canonical : f.at <= now
  /\ \A f \in canonical :
       \E c \in canonical :
         c.key = f.key /\ \A d \in canonical : d.key = f.key => d.at <= c.at
  /\ crashes = 0 =>
       \A r \in Reminders : \A c \in calls[r] :
         c.kind # "raised" => \E f \in canonical : f.key = r /\ f.at = c.at
  /\ AnsweredOnce

IInv == TypeOK /\ Held /\ Evident /\ Keyed /\ Remembered

-----------------------------------------------------------------------------
(* Helpers                                                                 *)

\* The row that Write commits is a row, and nobody else's status changes.
LEMMA WriteType ==
  ASSUME TypeOK, NEW r \in Reminders, NEW st \in Open \cup Finished,
         NEW n \in Nat, NEW next \in Nat \cup {None}, Write(r, st, n, next)
  PROVE  /\ reminder' \in [Reminders -> Row]
         /\ \A q \in Reminders :
              reminder'[q].status = IF q = r THEN st ELSE reminder[q].status
BY DEF TypeOK, Write, Row

\* What a SELECT of rows returns are Reminder objects.
LEMMA ObjectType ==
  ASSUME TypeOK, NEW r \in Reminders
  PROVE  ObjectOf(r) \in Object /\ ObjectOf(r).id = r
BY DEF TypeOK, ObjectOf, Object, Row

\* The status a reason stands for is final.
LEMMA StatusType ==
  ASSUME NEW reason
  PROVE  /\ StatusOf(reason) \in Open \cup Finished
         /\ StatusOf(reason) = "delivered" <=> reason = "DELIVERED_SUCCESS"
BY DEF StatusOf, Finished

\* Each kind of answer comes to a reason, and only a confirmed one to a delivery.
LEMMA OutcomeType ==
  ASSUME NEW kind \in Answers
  PROVE  /\ OutcomeOf(kind) \in Reasons
         /\ OutcomeOf(kind) = "DELIVERED_SUCCESS" => kind = "confirmed"
BY DEF OutcomeOf, Answers, Reasons, Failures

\* Evidence is never taken back.
LEMMA EvidenceStays ==
  ASSUME \A r \in Reminders : calls[r] \subseteq calls'[r], receipts \subseteq receipts',
         NEW r \in Reminders, Evidence(r)
  PROVE  Evidence(r)'
BY DEF Evidence

\* As long as nobody calls the gateway and no receipt comes in, what is evident
\* is evident by the same evidence.
LEMMA EvidenceSame ==
  ASSUME UNCHANGED <<calls, receipts>>, NEW r
  PROVE  Evidence(r)' <=> Evidence(r)
BY DEF Evidence

\* A replay is a frozen result of the same key.
LEMMA ReplayIsFrozen ==
  ASSUME NEW k, NEW n, NEW t, NEW c \in Replay(k, n, t)
  PROVE  c \in canonical /\ c.key = k
BY DEF Replay, OfAttempt, Recent

\* With nothing to replay, all that is frozen for the key is older than the window.
LEMMA NothingRecent ==
  ASSUME TypeOK, Remembered, DispatchAssumption, NEW k \in Reminders, NEW n \in Nat,
         Replay(k, n, now) = {},
         NEW f \in canonical, f.key = k
  PROVE  now > f.at + Window
<1> SUFFICES ASSUME ~ (now > f.at + Window) PROVE FALSE
  OBVIOUS
<1>1. \A c \in canonical : c.at \in Nat
  BY DEF TypeOK, AdapterTypeOK, Result
<1>2. now \in Nat /\ Window \in Nat
  BY DEF TypeOK, DispatchAssumption
<1>3. PICK c \in canonical : c.key = k /\ \A d \in canonical : d.key = k => d.at <= c.at
  BY DEF Remembered
<1>4. now - f.at <= Window /\ f.at <= c.at
  BY <1>1, <1>2, <1>3
<1>5. now - c.at <= Window
  BY <1>1, <1>2, <1>4
<1>6. c \in Recent(k, now)
  BY <1>3, <1>5 DEF Recent
<1>7. \A d \in Recent(k, now) : d.at <= c.at
  BY <1>3 DEF Recent
<1>8. OfAttempt(k, n) = {}
  BY DEF Replay
<1>9. c \in Replay(k, n, now)
  BY <1>6, <1>7, <1>8 DEF Replay
<1> QED
  BY <1>9

\* A step without the adapter leaves its memory true.
LEMMA AdapterRests ==
  ASSUME TypeOK, Remembered, UNCHANGED <<adapter, crashes>>, now' \in Nat, now <= now'
  PROVE  Remembered'
<1>1. \A f \in canonical : f.at \in Nat
  BY DEF TypeOK, AdapterTypeOK, Result
<1>2. \A f \in canonical' : f.at <= now'
  BY <1>1 DEF Remembered, adapter, TypeOK
<1> QED
  BY <1>2 DEF Remembered, AnsweredOnce, adapter

\* A step that writes no reminder and no attempt, calls nobody, and does not come
\* by a verdict leaves what is evident evident.
LEMMA NothingSaid ==
  ASSUME TypeOK, Evident, UNCHANGED <<db, adapter, receipts>>, rows' \subseteq rows \cup ledger,
         pc' \in Decided => pc \in Decided /\ cur' = cur /\ verdict' = verdict
  PROVE  Evident'
<1>1. \A r : Evidence(r)' <=> Evidence(r)
  BY EvidenceSame DEF adapter
<1>2. \A e \in (ledger \cup rows)' : e \in ledger \cup rows
  BY DEF db
<1> QED
  BY <1>1, <1>2 DEF Evident, db, adapter

\* A step that works the snapshot off, or leaves it alone, keeps it in order.
LEMMA SnapshotShrinks ==
  ASSUME Keyed, ledger' = ledger, rows' \subseteq rows
  PROVE  Keyed'
BY DEF Keyed, OneRowEach, SameAttempt

\* Ending a cycle forgets what it has in hand.
LEMMA DropKeeps ==
  ASSUME IInv, DropAll, pc' = "idle", UNCHANGED <<db, intake, outside>>,
         UNCHANGED <<calls, receipts, now>>, crashes' \in Nat, aborts' \in Nat,
         switches' \in Nat, canonical' \subseteq canonical
  PROVE  TypeOK' /\ Held' /\ Evident' /\ Keyed'
<1> USE DEF DropAll, Drop
<1>1. TypeOK'
  BY DEF IInv, TypeOK, db, intake, outside, PCs, Modes, AdapterTypeOK
<1>2. Held'
  BY DEF Held, Serving, Decided
<1>3. Evident'
  <2>1. \A r : Evidence(r)' <=> Evidence(r)
    BY EvidenceSame
  <2>2. pc' \notin Decided
    BY DEF Decided
  <2> QED
    BY <2>1, <2>2 DEF IInv, Evident, db
<1>4. Keyed'
  BY SnapshotShrinks DEF IInv, db
<1> QED
  BY <1>1, <1>2, <1>3, <1>4

-----------------------------------------------------------------------------
(* The candidates                                                          *)

LEMMA BeginKeeps ==
  ASSUME IInv, NEW rec \in BOOLEAN, BeginCycle(rec)
  PROVE  IInv'
<1> USE DEF BeginCycle, Goto
<1>1. TypeOK'
  BY DEF IInv, TypeOK, db, adapter, intake, outside, faults, PCs, AdapterTypeOK
<1>2. Held'
  BY DEF IInv, Held, Serving, Decided, Closing
<1>3. Evident'
  <2>1. pc' \notin Decided
    BY DEF Decided
  <2> QED
    BY <2>1, NothingSaid DEF IInv, faults
<1>4. Keyed' /\ Remembered'
  BY SnapshotShrinks, AdapterRests DEF IInv, TypeOK, db, faults
<1> QED
  BY <1>1, <1>2, <1>3, <1>4 DEF IInv

LEMMA ListKeeps ==
  ASSUME IInv, List
  PROVE  IInv'
<1> DEFINE to == IF Candidates = {} THEN AfterRows ELSE "next"
<1>0. /\ to \in {"retry", "end", "next"} /\ pc = "list" /\ pc' = to
      /\ Candidates \subseteq Reminders
      /\ todo' = {ObjectOf(r) : r \in Candidates}
  BY DEF List, Goto, AfterRows, Candidates, FirstDue, Due
<1>1. /\ UNCHANGED <<db, adapter, cycleMode, recon, at, cur, dest, verdict, rows, row>>
      /\ UNCHANGED <<intake, outside, faults, now>>
  BY DEF List
<1> HIDE DEF to
<1>2. TypeOK'
  <2>1. todo' \subseteq Object
    BY <1>0, ObjectType DEF IInv
  <2> QED
    BY <1>0, <1>1, <2>1 DEF IInv, TypeOK, db, adapter, intake, outside, faults, PCs, AdapterTypeOK
<1>3. Held'
  BY <1>0, <1>1 DEF IInv, Held, Serving, Decided, Closing
<1>4. Evident'
  <2>1. pc' \notin Decided
    BY <1>0 DEF Decided
  <2> QED
    BY <1>1, <2>1, NothingSaid DEF IInv, faults
<1>5. Keyed' /\ Remembered'
  BY <1>1, SnapshotShrinks, AdapterRests DEF IInv, TypeOK, db, faults
<1> QED
  BY <1>2, <1>3, <1>4, <1>5 DEF IInv

LEMMA TakeKeeps ==
  ASSUME IInv, Take
  PROVE  IInv'
<1> USE DEF Take
<1>1. PICK o \in Earliest(todo) :
        /\ todo' = todo \ {o}
        /\ cur' = o
        /\ at' = now
        /\ dest' = target[o.id]
        /\ \/ pc' = "settle" /\ verdict' = "TZ_MISSING"
           \/ pc' = "attempt" /\ verdict' = verdict
  OBVIOUS
<1>2. o \in Object /\ o.id \in Reminders
  BY <1>1 DEF Earliest, IInv, TypeOK, Object
<1>3. "TZ_MISSING" \in Reasons
  BY DEF Reasons, Failures
<1>4. TypeOK'
  BY <1>1, <1>2, <1>3 DEF IInv, TypeOK, db, adapter, intake, outside, faults, PCs, AdapterTypeOK
<1>5. Held'
  BY <1>1, <1>2, <1>3 DEF IInv, TypeOK, Held, Serving, Decided, Closing
<1>6. Evident'
  <2>1. \A r : Evidence(r)' <=> Evidence(r)
    BY EvidenceSame DEF adapter, faults
  <2>2. pc' \in Decided => verdict' # "DELIVERED_SUCCESS"
    BY <1>1 DEF Decided
  <2> QED
    BY <2>1, <2>2 DEF IInv, Evident, db, adapter
<1>7. Keyed' /\ Remembered'
  BY SnapshotShrinks, AdapterRests DEF IInv, TypeOK, db, faults
<1> QED
  BY <1>4, <1>5, <1>6, <1>7 DEF IInv

LEMMA AttemptKeeps ==
  ASSUME IInv, Attempt
  PROVE  IInv'
<1> USE DEF Attempt, MarkUnsent
<1>1. cur \in Object /\ cur.id \in Reminders /\ cur.attempts + 1 \in Nat
      /\ cur.next \in Nat \cup {None} /\ dest \in Targets
  BY DEF IInv, Held, Serving, Object
<1>2. "attempted" \in Open \cup Finished
  BY DEF Open
<1>3. /\ reminder' \in [Reminders -> Row]
      /\ \A q \in Reminders :
           reminder'[q].status = IF q = cur.id THEN "attempted" ELSE reminder[q].status
  BY <1>1, <1>2, WriteType DEF IInv
<1>4. cur' \in Object /\ cur'.id = cur.id
  BY <1>1 DEF Object
<1>5. \/ pc' = "settle" /\ verdict' = "FAILED_CONFIG_INVALID_TARGET"
      \/ pc' = "settle" /\ verdict' = "DELIVERED_SUCCESS" /\ cur.id \in Elsewhere
      \/ pc' = "send" /\ verdict' = verdict
  OBVIOUS
<1>6. {"FAILED_CONFIG_INVALID_TARGET", "DELIVERED_SUCCESS"} \subseteq Reasons
  BY DEF Reasons, Failures
<1>7. TypeOK'
  BY <1>3, <1>4, <1>5, <1>6 DEF IInv, TypeOK, adapter, intake, outside, faults, PCs, AdapterTypeOK
<1>8. Held'
  BY <1>1, <1>4, <1>5, <1>6 DEF IInv, TypeOK, Held, Serving, Decided, Closing
<1>9. Evident'
  <2>1. \A r : Evidence(r)' <=> Evidence(r)
    BY EvidenceSame DEF adapter, faults
  <2>2. pc' \in Decided /\ verdict' = "DELIVERED_SUCCESS" => Evidence(cur'.id)
    BY <1>4, <1>5 DEF Decided, Evidence
  <2>3. \A r \in Reminders : reminder'[r].status = "delivered" => Evidence(r)
    BY <1>3 DEF IInv, Evident
  <2> QED
    BY <2>1, <2>2, <2>3 DEF IInv, Evident, adapter
<1>10. Keyed' /\ Remembered'
  BY SnapshotShrinks, AdapterRests DEF IInv, TypeOK, faults
<1> QED
  BY <1>7, <1>8, <1>9, <1>10 DEF IInv

\* A call of the adapter: at most one result more is frozen and one call more is
\* made, both now, and an answer of the gateway only if nothing is frozen for the
\* key within the window.
LEMMA AdapterKeeps ==
  ASSUME IInv, NEW k \in Reminders, NEW n \in Nat, NEW kind \in Answers,
         \/ Replayed(k, n, now, kind)
         \/ Blocked(k, n, now, kind)
         \/ Called(k, n, now, kind),
         UNCHANGED <<now, crashes, receipts>>
  PROVE  /\ AdapterTypeOK'
         /\ Remembered'
         /\ \A r \in Reminders : calls[r] \subseteq calls'[r]
         /\ \A c \in canonical' : c.kind = "confirmed" => Evidence(c.key)'
         /\ kind = "confirmed" => Evidence(k)'
<1> DEFINE f == [key |-> k, attempt |-> n, kind |-> kind, at |-> now]
           c0 == [attempt |-> n, kind |-> kind, at |-> now]
<1>1. TypeOK /\ AdapterTypeOK /\ Remembered /\ Evident /\ now \in Nat
  BY DEF IInv, TypeOK
<1>2. CASE Replayed(k, n, now, kind)
  <2>1. PICK c \in canonical : c.key = k /\ c.kind = kind
    BY <1>2, ReplayIsFrozen DEF Replayed
  <2>2. UNCHANGED <<canonical, calls>>
    BY <1>2 DEF Replayed
  <2>3. \A r : Evidence(r)' <=> Evidence(r)
    BY <2>2, EvidenceSame
  <2>4. Remembered'
    BY <1>1, <2>2 DEF Remembered, AnsweredOnce
  <2> QED
    BY <1>1, <2>1, <2>2, <2>3, <2>4 DEF AdapterTypeOK, Evident
<1>3. ASSUME kind # "raised", canonical' = canonical \cup {f}
      PROVE  /\ canonical' \subseteq Result
             /\ \A g \in canonical' : g.at <= now
             /\ \A g \in canonical' :
                  \E c \in canonical' :
                    c.key = g.key /\ \A d \in canonical' : d.key = g.key => d.at <= c.at
  <2>1. f \in Result
    BY <1>1, <1>3 DEF Result, Kinds
  <2>2. f.key = k /\ f.at = now
    OBVIOUS
  <2> HIDE DEF f
  <2>3. \A g \in canonical' : g.at <= now
    BY <1>1, <1>3, <2>2 DEF Remembered
  <2>4. ASSUME NEW g \in canonical'
        PROVE  \E c \in canonical' :
                 c.key = g.key /\ \A d \in canonical' : d.key = g.key => d.at <= c.at
    <3>1. CASE g.key = k
      BY <1>3, <2>2, <2>3, <3>1
    <3>2. CASE g.key # k
      <4>1. g \in canonical
        BY <1>3, <2>2, <3>2
      <4>2. PICK c \in canonical :
              c.key = g.key /\ \A d \in canonical : d.key = g.key => d.at <= c.at
        BY <4>1, <1>1 DEF Remembered
      <4> QED
        BY <1>3, <2>2, <3>2, <4>2
    <3> QED
      BY <3>1, <3>2
  <2> QED
    BY <1>1, <1>3, <2>1, <2>3, <2>4 DEF AdapterTypeOK
<1>4. CASE Blocked(k, n, now, kind)
  <2>1. kind = "refused" /\ canonical' = canonical \cup {f} /\ calls' = calls
    BY <1>4 DEF Blocked, Freeze
  <2>2. f.kind = kind
    OBVIOUS
  <2> HIDE DEF f
  <2>3. \A r : Evidence(r)' <=> Evidence(r)
    BY <2>1, EvidenceSame
  <2>4. AdapterTypeOK' /\ Remembered'
    BY <1>1, <1>3, <2>1 DEF AdapterTypeOK, Remembered, AnsweredOnce
  <2> QED
    BY <1>1, <2>1, <2>2, <2>3, <2>4 DEF Evident
<1>5. CASE Called(k, n, now, kind)
  <2>1. /\ Replay(k, n, now) = {}
        /\ calls' = [calls EXCEPT ![k] = @ \cup {c0}]
        /\ IF kind = "raised" THEN canonical' = canonical ELSE canonical' = canonical \cup {f}
    BY <1>5 DEF Called, Freeze
  <2>2. c0 \in Call /\ c0.kind = kind /\ c0.at = now
    BY <1>1 DEF Call
  <2>3. f.key = k /\ f.at = now /\ f.kind = kind
    OBVIOUS
  <2> HIDE DEF c0, f
  <2>4. /\ calls' \in [Reminders -> SUBSET Call]
        /\ \A r \in Reminders : calls[r] \subseteq calls'[r]
        /\ \A r \in Reminders : \A c \in calls'[r] : c \in calls[r] \/ (r = k /\ c = c0)
        /\ c0 \in calls'[k]
    BY <1>1, <2>1, <2>2 DEF AdapterTypeOK
  <2>5. \A r \in Reminders : Evidence(r) => Evidence(r)'
    BY <2>4, EvidenceStays
  <2>6. kind = "confirmed" => Evidence(k)'
    BY <2>2, <2>4 DEF Evidence
  <2>7. \A c \in canonical : c.key \in Reminders
    BY <1>1 DEF AdapterTypeOK, Result
  <2>8. \A c \in canonical' : c.kind = "confirmed" => Evidence(c.key)'
    BY <1>1, <2>1, <2>3, <2>5, <2>6, <2>7 DEF Evident
  <2>9. AdapterTypeOK'
    BY <1>1, <1>3, <2>1, <2>4 DEF AdapterTypeOK
  <2>10. /\ \A g \in canonical' : g.at <= now
         /\ \A g \in canonical' :
              \E c \in canonical' :
                c.key = g.key /\ \A d \in canonical' : d.key = g.key => d.at <= c.at
    BY <1>1, <1>3, <2>1 DEF Remembered
  <2>11. canonical \subseteq canonical' /\ (kind # "raised" => f \in canonical')
    BY <2>1
  <2>12. ASSUME crashes = 0, NEW r \in Reminders, NEW c \in calls'[r], c.kind # "raised"
         PROVE  \E g \in canonical' : g.key = r /\ g.at = c.at
    BY <1>1, <2>2, <2>3, <2>4, <2>11, <2>12 DEF Remembered
  <2>13. ASSUME crashes = 0, NEW c \in calls[k], c.kind # "raised"
         PROVE  now > c.at + Window
    <3>1. PICK g \in canonical : g.key = k /\ g.at = c.at
      BY <1>1, <2>13 DEF Remembered
    <3> QED
      BY <1>1, <2>1, <3>1, NothingRecent, DispatchAssumption
  <2>14. ASSUME crashes = 0, NEW r \in Reminders, NEW c \in calls'[r], NEW d \in calls'[r],
                c.kind # "raised", d.kind # "raised", c # d
         PROVE  c.at > d.at + Window \/ d.at > c.at + Window
    <3>1. CASE c \in calls[r] /\ d \in calls[r]
      BY <1>1, <2>14, <3>1 DEF Remembered, AnsweredOnce
    <3>2. CASE c \notin calls[r]
      <4>1. r = k /\ c = c0 /\ d \in calls[k]
        BY <2>4, <2>14, <3>2
      <4> QED
        BY <2>2, <2>13, <2>14, <4>1
    <3>3. CASE d \notin calls[r]
      <4>1. r = k /\ d = c0 /\ c \in calls[k]
        BY <2>4, <2>14, <3>3
      <4> QED
        BY <2>2, <2>13, <2>14, <4>1
    <3> QED
      BY <3>1, <3>2, <3>3
  <2>15. Remembered'
    BY <2>10, <2>12, <2>14 DEF Remembered, AnsweredOnce
  <2> QED
    BY <2>4, <2>6, <2>8, <2>9, <2>15
<1> QED
  BY <1>2, <1>4, <1>5

LEMMA SendKeeps ==
  ASSUME IInv, Send
  PROVE  IInv'
<1>1. PICK kind \in Answers :
        /\ \/ Replayed(cur.id, cur.attempts, now, kind)
           \/ Blocked(cur.id, cur.attempts, now, kind)
           \/ Called(cur.id, cur.attempts, now, kind)
        /\ verdict' = OutcomeOf(kind)
  BY DEF Send
<1>2. /\ pc = "send" /\ pc' = "settle"
      /\ UNCHANGED <<db, cycleMode, recon, at, todo, cur, dest, rows, row>>
      /\ UNCHANGED <<intake, outside, faults, now>>
  BY DEF Send, Goto
<1>3. cur \in Object /\ cur.id \in Reminders /\ cur.attempts \in Nat
  BY <1>2 DEF IInv, Held, Serving, Object
<1>4. /\ AdapterTypeOK'
      /\ Remembered'
      /\ \A r \in Reminders : calls[r] \subseteq calls'[r]
      /\ \A c \in canonical' : c.kind = "confirmed" => Evidence(c.key)'
      /\ kind = "confirmed" => Evidence(cur.id)'
  BY <1>1, <1>2, <1>3, AdapterKeeps DEF faults
<1>5. verdict' \in Reasons /\ (verdict' = "DELIVERED_SUCCESS" => kind = "confirmed")
  BY <1>1, OutcomeType
<1>6. TypeOK'
  BY <1>2, <1>4, <1>5 DEF IInv, TypeOK, db, intake, outside, faults, PCs
<1>7. Held'
  BY <1>2, <1>3, <1>5 DEF IInv, Held, Serving, Decided, Closing
<1>8. Evident'
  <2>1. \A r \in Reminders : Evidence(r) => Evidence(r)'
    BY <1>2, <1>4, EvidenceStays DEF faults
  <2>2. \A e \in ledger \cup rows : e.id \in Reminders
    BY DEF IInv, TypeOK, Entry
  <2> QED
    BY <1>2, <1>4, <1>5, <2>1, <2>2 DEF IInv, Evident, db
<1>9. Keyed'
  BY <1>2, SnapshotShrinks DEF IInv, db
<1> QED
  BY <1>4, <1>6, <1>7, <1>8, <1>9 DEF IInv

\* Settle and Reflect write the status that the verdict in hand stands for.
LEMMA StatusKeeps ==
  ASSUME IInv, Settle \/ Reflect
  PROVE  IInv'
<1>1. /\ \/ pc = "settle" /\ pc' = "log"
         \/ pc = "reflect" /\ pc' = "record"
      /\ Write(cur.id, StatusOf(verdict), cur.attempts, cur.next)
      /\ UNCHANGED <<ledger, transitions, adapter, local, intake, outside, faults, now>>
  BY DEF Settle, Reflect, Goto
<1>2. pc \in Decided /\ cur \in Object /\ verdict \in Reasons
  BY <1>1 DEF IInv, Held, Decided
<1>3. cur.id \in Reminders /\ cur.attempts \in Nat /\ cur.next \in Nat \cup {None}
  BY <1>2 DEF Object
<1>4. /\ reminder' \in [Reminders -> Row]
      /\ \A q \in Reminders :
           reminder'[q].status = IF q = cur.id THEN StatusOf(verdict) ELSE reminder[q].status
  BY <1>1, <1>3, StatusType, WriteType DEF IInv
<1>5. TypeOK'
  BY <1>1, <1>4 DEF IInv, TypeOK, local, adapter, intake, outside, faults, PCs, AdapterTypeOK
<1>6. Held'
  BY <1>1, <1>2 DEF IInv, Held, Serving, Decided, Closing, local
<1>7. Evident'
  <2>1. \A r : Evidence(r)' <=> Evidence(r)
    BY <1>1, EvidenceSame DEF adapter, faults
  <2>2. \A r \in Reminders : reminder'[r].status = "delivered" => Evidence(r)
    BY <1>2, <1>4, StatusType DEF IInv, Evident
  <2> QED
    BY <1>1, <1>2, <2>1, <2>2 DEF IInv, Evident, adapter, local, Decided
<1>8. Keyed' /\ Remembered'
  BY <1>1, SnapshotShrinks, AdapterRests DEF IInv, TypeOK, faults, local
<1> QED
  BY <1>5, <1>6, <1>7, <1>8 DEF IInv

LEMMA LogKeeps ==
  ASSUME IInv, Log
  PROVE  IInv'
<1> DEFINE e == [id |-> cur.id, index |-> Index, at |-> at,
                 ref |-> verdict = "DELIVERED_SUCCESS", reason |-> verdict]
           to == IF todo = {} THEN AfterRows ELSE "next"
<1>1. /\ pc = "log" /\ pc' = to /\ to \in {"retry", "end", "next"}
      /\ ledger' = ledger \cup {e} /\ ~ Logged
      /\ Drop
      /\ UNCHANGED <<reminder, transitions, adapter, cycleMode, recon, at, todo, rows>>
      /\ UNCHANGED <<intake, outside, faults, now>>
  BY DEF Log, Goto, AfterRows
<1>2. /\ cur \in Object /\ verdict \in Reasons /\ rows = {}
      /\ verdict = "DELIVERED_SUCCESS" => Evidence(cur.id)
  BY <1>1 DEF IInv, Held, Evident, Decided, Closing
<1>3. Index \in Nat /\ cur.id \in Reminders
  BY <1>2 DEF Index, Object
<1>4. e.id = cur.id /\ e.index = Index /\ e.reason = verdict
      /\ (e.ref => verdict = "DELIVERED_SUCCESS")
  OBVIOUS
<1>5. e \in Entry
  BY <1>2, <1>3 DEF Entry, IInv, TypeOK
<1> HIDE DEF e, to
<1>6. TypeOK'
  BY <1>1, <1>5 DEF IInv, TypeOK, Drop, adapter, intake, outside, faults, PCs, AdapterTypeOK
<1>7. Held'
  BY <1>1, <1>2 DEF Held, Serving, Decided, Closing
<1>8. Evident'
  <2>1. \A r : Evidence(r)' <=> Evidence(r)
    BY <1>1, EvidenceSame DEF adapter, faults
  <2>2. pc' \notin Decided
    BY <1>1 DEF Decided
  <2> QED
    BY <1>1, <1>2, <1>4, <2>1, <2>2 DEF IInv, Evident, adapter
<1>9. Keyed'
  <2>1. \A f \in ledger : ~ SameAttempt(e, f) /\ ~ SameAttempt(f, e)
    BY <1>1, <1>4 DEF Logged, SameAttempt
  <2> QED
    BY <1>1, <1>2, <2>1 DEF IInv, Keyed, OneRowEach
<1>10. Remembered'
  BY <1>1, AdapterRests DEF IInv, TypeOK, faults
<1> QED
  BY <1>6, <1>7, <1>8, <1>9, <1>10 DEF IInv

\* A cycle that ends, by itself or by an exception.
LEMMA EndKeeps ==
  ASSUME IInv, LogDuplicate \/ LogRefused \/ EndCycle \/ Abort
  PROVE  IInv'
<1>1. /\ DropAll /\ pc' = "idle" /\ UNCHANGED <<db, adapter, intake, outside>>
      /\ UNCHANGED <<crashes, receipts, now>> /\ aborts' \in Nat
  BY DEF LogDuplicate, LogRefused, EndCycle, Abort, Goto, faults, IInv, TypeOK
<1>2. TypeOK' /\ Held' /\ Evident' /\ Keyed'
  <2>1. calls' = calls /\ canonical' \subseteq canonical /\ switches' = switches
        /\ switches \in Nat /\ crashes \in Nat
    BY <1>1 DEF adapter, outside, IInv, TypeOK
  <2> QED
    BY <1>1, <2>1, DropKeeps
<1>3. Remembered'
  BY <1>1, AdapterRests DEF IInv, TypeOK
<1> QED
  BY <1>2, <1>3 DEF IInv

-----------------------------------------------------------------------------
(* The reconciliation                                                      *)

LEMMA ListRetriesKeeps ==
  ASSUME IInv, ListRetries
  PROVE  IInv'
<1> DEFINE to == IF Retries = {} THEN "open" ELSE "reschedule"
<1>1. /\ to \in {"open", "reschedule"} /\ pc = "retry" /\ pc' = to
      /\ at' = now
      /\ Retries \subseteq Reminders
      /\ todo' = {ObjectOf(r) : r \in Retries}
      /\ UNCHANGED <<db, adapter, cycleMode, recon, cur, dest, verdict, rows, row>>
      /\ UNCHANGED <<intake, outside, faults, now>>
  BY DEF ListRetries, Goto, Retries, FirstDue, Due
<1> HIDE DEF to
<1>2. TypeOK'
  <2>1. todo' \subseteq Object
    BY <1>1, ObjectType DEF IInv
  <2> QED
    BY <1>1, <2>1 DEF IInv, TypeOK, db, adapter, intake, outside, faults, PCs, AdapterTypeOK
<1>3. Held'
  BY <1>1 DEF IInv, Held, Serving, Decided, Closing
<1>4. Evident'
  <2>1. pc' \notin Decided
    BY <1>1 DEF Decided
  <2> QED
    BY <1>1, <2>1, NothingSaid DEF IInv, faults
<1>5. Keyed' /\ Remembered'
  BY <1>1, SnapshotShrinks, AdapterRests DEF IInv, TypeOK, db, faults
<1> QED
  BY <1>2, <1>3, <1>4, <1>5 DEF IInv

\* A status that is not "delivered" may be written at any time.
LEMMA OtherStatus ==
  ASSUME IInv, NEW r \in Reminders, NEW st \in (Open \cup Finished) \ {"delivered"},
         NEW n \in Nat, NEW next \in Nat \cup {None}, Write(r, st, n, next),
         UNCHANGED <<ledger, adapter, receipts>>, rows' = rows,
         pc' \in Decided => pc \in Decided /\ cur' = cur /\ verdict' = verdict
  PROVE  reminder' \in [Reminders -> Row] /\ Evident'
<1>1. /\ reminder' \in [Reminders -> Row]
      /\ \A q \in Reminders :
           reminder'[q].status = IF q = r THEN st ELSE reminder[q].status
  BY WriteType DEF IInv
<1>2. \A q : Evidence(q)' <=> Evidence(q)
  BY EvidenceSame DEF adapter
<1> QED
  BY <1>1, <1>2 DEF IInv, Evident, adapter

LEMMA RescheduleKeeps ==
  ASSUME IInv, Reschedule
  PROVE  IInv'
<1>1. PICK o \in todo, to \in {"open", "reschedule"} :
        /\ Write(o.id, "scheduled", o.attempts, None)
        /\ todo' = todo \ {o}
        /\ pc' = to
  BY DEF Reschedule, Earliest
<1>2. /\ pc = "reschedule"
      /\ UNCHANGED <<ledger, transitions, adapter, cycleMode, recon, at, cur, dest>>
      /\ UNCHANGED <<verdict, rows, row, intake, outside, faults, now>>
  BY DEF Reschedule
<1>3. o.id \in Reminders /\ o.attempts \in Nat /\ None \in Nat \cup {None}
  BY DEF IInv, TypeOK, Object
<1>4. "scheduled" \in (Open \cup Finished) \ {"delivered"}
  BY DEF Open
<1>5. reminder' \in [Reminders -> Row] /\ Evident'
  <2>1. pc' \notin Decided
    BY <1>1 DEF Decided
  <2> QED
    BY <1>1, <1>2, <1>3, <1>4, <2>1, OtherStatus DEF faults
<1>6. TypeOK'
  BY <1>1, <1>2, <1>5 DEF IInv, TypeOK, adapter, intake, outside, faults, PCs, AdapterTypeOK
<1>7. Held'
  BY <1>1, <1>2 DEF IInv, Held, Serving, Decided, Closing
<1>8. Keyed' /\ Remembered'
  BY <1>2, SnapshotShrinks, AdapterRests DEF IInv, TypeOK, faults
<1> QED
  BY <1>5, <1>6, <1>7, <1>8 DEF IInv

LEMMA ListOpenKeeps ==
  ASSUME IInv, ListOpen
  PROVE  IInv'
<1> DEFINE to == IF Unverified = {} THEN "end" ELSE "close"
<1>1. /\ pc = "open" /\ pc' = to
      /\ to = "end" => Unverified = {}
      /\ to \in {"end", "close"}
      /\ rows' = Unverified
      /\ UNCHANGED <<db, adapter, cycleMode, recon, at, todo, cur, dest, verdict, row>>
      /\ UNCHANGED <<intake, outside, faults, now>>
  BY DEF ListOpen, Goto
<1> HIDE DEF to
<1>2. rows' \subseteq ledger
  BY <1>1 DEF Unverified
<1>3. TypeOK'
  BY <1>1, <1>2 DEF IInv, TypeOK, db, adapter, intake, outside, faults, PCs, AdapterTypeOK
<1>4. Held'
  BY <1>1 DEF IInv, Held, Serving, Decided, Closing
<1>5. Evident'
  <2>1. pc' \notin Decided
    BY <1>1 DEF Decided
  <2> QED
    BY <1>1, <1>2, <2>1, NothingSaid DEF IInv, faults
<1>6. Keyed'
  <2>1. \A e \in Unverified, f \in ledger :
          SameAttempt(e, f) => f.reason = "ACCEPTED_UNVERIFIED"
    BY DEF IInv, Keyed, OneRowEach, Unverified
  <2> QED
    BY <1>1, <2>1 DEF IInv, Keyed, OneRowEach, Unverified, db
<1>7. Remembered'
  BY <1>1, AdapterRests DEF IInv, TypeOK, faults
<1> QED
  BY <1>3, <1>4, <1>5, <1>6, <1>7 DEF IInv

\* Closing an attempt replaces its row, and only this row.
LEMMA CloseWrites ==
  ASSUME IInv, NEW e \in rows, NEW reason \in Reasons, Close(e, reason)
  PROVE  \E g \in Entry :
           /\ g.id = e.id /\ g.index = e.index /\ g.reason = reason
           /\ g.ref => reason = "DELIVERED_SUCCESS"
           /\ ledger' = {f \in ledger : ~ SameAttempt(e, f)} \cup {g}
<1> DEFINE g == [e EXCEPT !.reason = reason, !.ref = reason = "DELIVERED_SUCCESS"]
<1>1. e \in Entry
  BY DEF IInv, TypeOK
<1>2. /\ g \in Entry /\ g.id = e.id /\ g.index = e.index /\ g.reason = reason
      /\ g.ref => reason = "DELIVERED_SUCCESS"
  BY <1>1 DEF Entry
<1>3. ledger' = {f \in ledger : f.id # e.id \/ f.index # e.index} \cup {g}
  BY DEF Close
<1> HIDE DEF g
<1>4. {f \in ledger : f.id # e.id \/ f.index # e.index} = {f \in ledger : ~ SameAttempt(e, f)}
  BY DEF SameAttempt
<1> QED
  BY <1>2, <1>3, <1>4

\* What PromoteOrDemote closes was in the snapshot, and is unverified in the table.
LEMMA CloseStep ==
  ASSUME IInv, PromoteOrDemote
  PROVE  \E e \in rows, reason \in Reasons :
           /\ Close(e, reason)
           /\ rows' = rows \ {e}
           /\ reason = "DELIVERED_SUCCESS" => Evidence(e.id)
<1>1. PICK e \in rows :
        /\ rows' = rows \ {e}
        /\ \/ e.ref /\ Close(e, "DELIVERED_SUCCESS")
           \/ Close(e, "FAILED_ACCEPTED_UNVERIFIED_TIMEOUT")
  BY DEF PromoteOrDemote, Oldest
<1>2. /\ "DELIVERED_SUCCESS" \in Reasons
      /\ "FAILED_ACCEPTED_UNVERIFIED_TIMEOUT" \in Reasons
  BY DEF Reasons, Failures
<1>3. e.ref => Evidence(e.id)
  BY DEF IInv, Evident
<1> QED
  BY <1>1, <1>2, <1>3

LEMMA CloseKeeps ==
  ASSUME IInv, PromoteOrDemote
  PROVE  IInv'
<1>1. PICK e \in rows, reason \in Reasons :
        /\ Close(e, reason)
        /\ rows' = rows \ {e}
        /\ reason = "DELIVERED_SUCCESS" => Evidence(e.id)
  BY CloseStep
<1>2. PICK g \in Entry :
        /\ g.id = e.id /\ g.index = e.index /\ g.reason = reason
        /\ g.ref => reason = "DELIVERED_SUCCESS"
        /\ ledger' = {f \in ledger : ~ SameAttempt(e, f)} \cup {g}
  BY <1>1, CloseWrites
<1>3. /\ pc = "close" /\ pc' = "reflect"
      /\ row' = e /\ cur' = ObjectOf(e.id) /\ verdict' = reason
      /\ UNCHANGED <<reminder, transitions, adapter, cycleMode, recon, at, todo, dest>>
      /\ UNCHANGED <<intake, outside, faults, now>>
  BY <1>1 DEF PromoteOrDemote, Close
<1>4. e \in Entry /\ e.id \in Reminders
  BY DEF IInv, TypeOK, Entry
<1>5. cur' \in Object /\ cur'.id = e.id
  BY <1>3, <1>4, ObjectType DEF IInv
<1>6. TypeOK'
  BY <1>1, <1>2, <1>3, <1>4, <1>5
  DEF IInv, TypeOK, adapter, intake, outside, faults, PCs, AdapterTypeOK
<1>7. Held'
  BY <1>3, <1>4, <1>5 DEF Held, Serving, Decided, Closing
<1>8. Evident'
  <2>1. \A r : Evidence(r)' <=> Evidence(r)
    BY <1>3, EvidenceSame DEF adapter, faults
  <2>2. \A f \in (ledger \cup rows)' : f \in ledger \cup rows \/ f = g
    BY <1>1, <1>2
  <2>3. verdict' = "DELIVERED_SUCCESS" => Evidence(cur'.id)
    BY <1>1, <1>3, <1>5
  <2> QED
    BY <1>1, <1>2, <1>3, <2>1, <2>2, <2>3 DEF IInv, Evident, adapter
<1>9. Keyed'
  <2>1. OneRowEach(ledger)'
    BY <1>2 DEF IInv, Keyed, OneRowEach, SameAttempt
  <2>2. ASSUME NEW d \in rows', NEW f \in ledger', SameAttempt(d, f)
        PROVE  f.reason = "ACCEPTED_UNVERIFIED"
    <3>1. ~ SameAttempt(d, e)
      BY <1>1 DEF IInv, Keyed, OneRowEach
    <3>2. f # g
      BY <1>2, <2>2, <3>1 DEF SameAttempt
    <3> QED
      BY <1>1, <1>2, <2>2, <3>2 DEF IInv, Keyed
  <2> QED
    BY <1>1, <2>1, <2>2 DEF IInv, Keyed, OneRowEach, SameAttempt
<1>10. Remembered'
  BY <1>3, AdapterRests DEF IInv, TypeOK, faults
<1> QED
  BY <1>6, <1>7, <1>8, <1>9, <1>10 DEF IInv

LEMMA LeaveOpenKeeps ==
  ASSUME IInv, LeaveOpen
  PROVE  IInv'
<1>1. PICK e \in rows, to \in {"end", "close"} :
        /\ rows' = rows \ {e}
        /\ pc' = to
        /\ to = "end" => rows = {e}
  BY DEF LeaveOpen, Oldest
<1>2. /\ UNCHANGED <<db, adapter, cycleMode, recon, at, todo, cur, dest, verdict, row>>
      /\ UNCHANGED <<intake, outside, faults, now>>
  BY DEF LeaveOpen
<1>3. TypeOK'
  BY <1>1, <1>2 DEF IInv, TypeOK, db, adapter, intake, outside, faults, PCs, AdapterTypeOK
<1>4. Held'
  BY <1>1 DEF Held, Serving, Decided, Closing
<1>5. Evident'
  <2>1. pc' \notin Decided
    BY <1>1 DEF Decided
  <2> QED
    BY <1>1, <1>2, <2>1, NothingSaid DEF IInv, faults
<1>6. Keyed' /\ Remembered'
  BY <1>1, <1>2, SnapshotShrinks, AdapterRests DEF IInv, TypeOK, db, faults
<1> QED
  BY <1>3, <1>4, <1>5, <1>6 DEF IInv

LEMMA RecordKeeps ==
  ASSUME IInv, Record
  PROVE  IInv'
<1> DEFINE t == [id |-> row.id, index |-> row.index, to |-> verdict, mode |-> cycleMode]
           to == IF rows = {} THEN "end" ELSE "close"
<1>1. /\ pc = "record" /\ pc' = to
      /\ to = "end" => rows = {}
      /\ to \in {"end", "close"}
      /\ transitions' = transitions \cup {t}
      /\ Drop
      /\ UNCHANGED <<reminder, ledger, adapter, cycleMode, recon, at, todo, rows>>
      /\ UNCHANGED <<intake, outside, faults, now>>
  BY DEF Record, Goto
<1>2. t \in [id : Reminders, index : Nat, to : Reasons, mode : Modes]
  BY <1>1 DEF IInv, TypeOK, Held, Decided, Entry
<1> HIDE DEF t, to
<1>3. TypeOK'
  BY <1>1, <1>2 DEF IInv, TypeOK, Drop, adapter, intake, outside, faults, PCs, AdapterTypeOK
<1>4. Held'
  BY <1>1 DEF Held, Serving, Decided, Closing
<1>5. Evident'
  <2>1. \A r : Evidence(r)' <=> Evidence(r)
    BY <1>1, EvidenceSame DEF adapter, faults
  <2>2. pc' \notin Decided
    BY <1>1 DEF Decided
  <2> QED
    BY <1>1, <2>1, <2>2 DEF IInv, Evident, adapter
<1>6. Keyed' /\ Remembered'
  BY <1>1, SnapshotShrinks, AdapterRests DEF IInv, TypeOK, faults
<1> QED
  BY <1>3, <1>4, <1>5, <1>6 DEF IInv

-----------------------------------------------------------------------------
(* The environment                                                         *)

LEMMA SweepKeeps ==
  ASSUME IInv, (\E G \in Groups : SweepRead(G)) \/ SweepWrite
  PROVE  IInv'
<1>1. CASE \E G \in Groups : SweepRead(G)
  <2>1. PICK G \in Groups : SweepRead(G)
    BY <1>1
  <2>2. PICK R \in SUBSET Reminders : sweep' = {ObjectOf(r) : r \in R}
    <3>1. G \subseteq Reminders
      BY DispatchAssumption
    <3>2. {q \in G : Trigger[q] > now /\ reminder[q].status \in Open} \in SUBSET Reminders
      BY <3>1
    <3> QED
      BY <2>1, <3>2 DEF SweepRead
  <2>3. sweep' \subseteq Object
    BY <2>2, ObjectType DEF IInv
  <2>4. UNCHANGED <<db, adapter, pc, local, gone, outside, faults, now>>
    BY <2>1 DEF SweepRead
  <2>5. TypeOK'
    BY <2>3, <2>4 DEF IInv, TypeOK, db, local, adapter, outside, faults, AdapterTypeOK
  <2>6. Held' /\ Evident'
    BY <2>4, NothingSaid DEF IInv, Held, local, faults
  <2>7. Keyed' /\ Remembered'
    BY <2>4, SnapshotShrinks, AdapterRests DEF IInv, TypeOK, db, local, faults
  <2> QED
    BY <2>5, <2>6, <2>7 DEF IInv
<1>2. CASE SweepWrite
  <2>1. PICK o \in sweep :
          /\ Write(o.id, "invalidated", o.attempts, o.next)
          /\ sweep' = sweep \ {o}
          /\ gone' = gone \cup {o.id}
    BY <1>2 DEF SweepWrite, Earliest
  <2>2. UNCHANGED <<ledger, transitions, adapter, pc, local, outside, faults, now>>
    BY <1>2 DEF SweepWrite
  <2>3. o.id \in Reminders /\ o.attempts \in Nat /\ o.next \in Nat \cup {None}
    BY DEF IInv, TypeOK, Object
  <2>4. "invalidated" \in (Open \cup Finished) \ {"delivered"}
    BY DEF Finished
  <2>5. reminder' \in [Reminders -> Row] /\ Evident'
    BY <2>1, <2>2, <2>3, <2>4, OtherStatus DEF local, faults
  <2>6. TypeOK'
    BY <2>1, <2>2, <2>3, <2>5 DEF IInv, TypeOK, local, adapter, outside, faults, AdapterTypeOK
  <2>7. Held'
    BY <2>2 DEF IInv, Held, local
  <2>8. Keyed' /\ Remembered'
    BY <2>2, SnapshotShrinks, AdapterRests DEF IInv, TypeOK, local, faults
  <2> QED
    BY <2>5, <2>6, <2>7, <2>8 DEF IInv
<1> QED
  BY <1>1, <1>2

\* A receipt is evidence, and changes a row that is still unverified.
LEMMA ReceiveStep ==
  ASSUME IInv, Receive
  PROVE  \E e \in Unverified, g \in Entry :
           /\ g.id = e.id /\ g.index = e.index /\ g.reason = e.reason
           /\ ledger' = (ledger \ {e}) \cup {g}
           /\ receipts' = receipts \cup {e.id}
<1>1. PICK e \in Unverified :
        /\ ledger' = (ledger \ {e}) \cup {[e EXCEPT !.ref = TRUE]}
        /\ receipts' = receipts \cup {e.id}
  BY DEF Receive
<1> DEFINE g == [e EXCEPT !.ref = TRUE]
<1>2. e \in Entry
  BY DEF Unverified, IInv, TypeOK
<1>3. g \in Entry /\ g.id = e.id /\ g.index = e.index /\ g.reason = e.reason
  BY <1>2 DEF Entry
<1> HIDE DEF g
<1> QED
  BY <1>1, <1>3 DEF g

LEMMA ReceiveKeeps ==
  ASSUME IInv, Receive
  PROVE  IInv'
<1>1. PICK e \in Unverified, g \in Entry :
        /\ g.id = e.id /\ g.index = e.index /\ g.reason = e.reason
        /\ ledger' = (ledger \ {e}) \cup {g}
        /\ receipts' = receipts \cup {e.id}
  BY ReceiveStep
<1>2. UNCHANGED <<reminder, transitions, adapter, pc, local, intake, outside, crashes, aborts, now>>
  BY DEF Receive
<1>3. e \in ledger /\ e.reason = "ACCEPTED_UNVERIFIED" /\ e.id \in Reminders
  BY DEF Unverified, IInv, TypeOK, Entry
<1>4. TypeOK'
  BY <1>1, <1>2, <1>3 DEF IInv, TypeOK, local, adapter, intake, outside, AdapterTypeOK
<1>5. Held'
  BY <1>2 DEF IInv, Held, local
<1>6. Evident'
  <2>1. \A r \in Reminders : Evidence(r) => Evidence(r)'
    BY <1>1, <1>2, EvidenceStays DEF adapter
  <2>2. Evidence(g.id)'
    BY <1>1 DEF Evidence
  <2>3. \A f \in (ledger \cup rows)' : f.id \in Reminders /\ (f \in ledger \cup rows \/ f = g)
    BY <1>1, <1>2, <1>4 DEF TypeOK, Entry, local
  <2>4. \A c \in canonical : c.key \in Reminders
    BY DEF IInv, TypeOK, AdapterTypeOK, Result
  <2>5. pc \in Decided => cur.id \in Reminders
    BY DEF IInv, Held, Object
  <2> QED
    BY <1>1, <1>2, <2>1, <2>2, <2>3, <2>4, <2>5 DEF IInv, Evident, adapter, local
<1>7. Keyed'
  <2>1. OneRowEach(ledger)'
    BY <1>1, <1>3 DEF IInv, Keyed, OneRowEach, SameAttempt
  <2>2. \A d \in rows, f \in ledger' : SameAttempt(d, f) => f.reason = "ACCEPTED_UNVERIFIED"
    BY <1>1, <1>3 DEF IInv, Keyed, SameAttempt
  <2> QED
    BY <1>2, <2>1, <2>2 DEF IInv, Keyed, OneRowEach, SameAttempt, local
<1>8. Remembered'
  BY <1>2, AdapterRests DEF IInv, TypeOK
<1> QED
  BY <1>4, <1>5, <1>6, <1>7, <1>8 DEF IInv

LEMMA CrashKeeps ==
  ASSUME IInv, Crash
  PROVE  IInv'
<1>1. /\ DropAll /\ pc' = "idle" /\ canonical' = {} /\ calls' = calls
      /\ crashes' = crashes + 1
      /\ UNCHANGED <<db, intake, outside, aborts, receipts, now>>
  BY DEF Crash, Forget
<1>2. crashes \in Nat /\ crashes' \in Nat /\ crashes' # 0 /\ aborts \in Nat /\ switches \in Nat
  BY <1>1 DEF IInv, TypeOK
<1>3. TypeOK' /\ Held' /\ Evident' /\ Keyed'
  BY <1>1, <1>2, DropKeeps DEF outside
<1>4. Remembered'
  BY <1>1, <1>2 DEF Remembered, AnsweredOnce
<1> QED
  BY <1>3, <1>4 DEF IInv

\* Changes of the mode, of a destination and of the time.
LEMMA OutsideKeeps ==
  ASSUME IInv, SwitchMode \/ (\E r \in Reminders, d \in Targets : ChangeTarget(r, d)) \/ Tick
  PROVE  IInv'
<1>1. /\ UNCHANGED <<db, adapter, pc, local, intake, faults>>
      /\ mode' \in Modes /\ target' \in [Reminders -> Targets] /\ switches' \in Nat
      /\ now' \in Nat /\ now <= now'
  BY DEF SwitchMode, ChangeTarget, Tick, outside, IInv, TypeOK
<1>2. TypeOK'
  BY <1>1 DEF IInv, TypeOK, db, local, adapter, intake, faults, AdapterTypeOK
<1>3. Held'
  BY <1>1 DEF IInv, Held, local
<1>4. Evident'
  BY <1>1, NothingSaid DEF IInv, local, faults
<1>5. Keyed'
  BY <1>1, SnapshotShrinks DEF IInv, db, local
<1>6. Remembered'
  BY <1>1, AdapterRests DEF IInv, faults
<1> QED
  BY <1>2, <1>3, <1>4, <1>5, <1>6 DEF IInv

LEMMA StutterKeeps ==
  ASSUME IInv, UNCHANGED vars
  PROVE  IInv'
<1> USE DEF vars, db, local, adapter, intake, outside, faults
<1>1. TypeOK' /\ Held'
  BY DEF IInv, TypeOK, Held, AdapterTypeOK
<1>2. Evident'
  BY NothingSaid DEF IInv
<1>3. Keyed' /\ Remembered'
  BY SnapshotShrinks, AdapterRests DEF IInv, TypeOK
<1> QED
  BY <1>1, <1>2, <1>3 DEF IInv

-----------------------------------------------------------------------------
(* The theorems                                                            *)

LEMMA InitHolds ==
  ASSUME Init
  PROVE  IInv
<1>1. reminder \in [Reminders -> Row] /\ \A r \in Reminders : reminder[r].status \in Open
  BY DispatchAssumption DEF Init
<1> DEFINE Tried(r, n) == [id |-> r, index |-> n, at |-> 0, ref |-> FALSE,
                           reason |-> "FAILED_PROVIDER_TRANSIENT"]
<1>2. ASSUME NEW e \in ledger
      PROVE  \E r \in Reminders, n \in Nat : e = Tried(r, n)
  <2>1. PICK r \in Reminders : e \in TriedBefore(r)
    BY DEF Init
  <2>2. reminder[r].attempts \in Nat
    BY <1>1 DEF Row
  <2> QED
    BY <2>1, <2>2 DEF TriedBefore
<1>2a. ASSUME NEW r \in Reminders, NEW n \in Nat
      PROVE  /\ Tried(r, n) \in Entry
             /\ Tried(r, n).id = r /\ Tried(r, n).index = n
             /\ ~ Tried(r, n).ref /\ Tried(r, n).reason # "DELIVERED_SUCCESS"
  BY DEF Entry
<1> HIDE DEF Tried
<1>3. /\ ledger \subseteq Entry
      /\ \A e \in ledger : ~ e.ref /\ e.reason # "DELIVERED_SUCCESS"
  BY <1>2, <1>2a
<1>4. OneRowEach(ledger)
  <2> SUFFICES ASSUME NEW e \in ledger, NEW f \in ledger, SameAttempt(e, f)
               PROVE  e = f
    BY DEF OneRowEach
  <2> QED
    BY <1>2, <1>2a DEF SameAttempt
<1>5. /\ transitions = {} /\ target \in [Reminders -> Targets] /\ mode = "normal"
      /\ AdapterTypeOK /\ canonical = {} /\ \A r \in Reminders : calls[r] = {}
  BY DEF Init, AdapterInit, AdapterTypeOK, Targets
<1>6. /\ pc = "idle" /\ cycleMode = "normal" /\ recon = FALSE /\ at = 0
      /\ todo = {} /\ cur = None /\ dest = None /\ verdict = None
      /\ rows = {} /\ row = None /\ sweep = {} /\ gone = {}
      /\ now = 0 /\ crashes = 0 /\ aborts = 0 /\ switches = 0 /\ receipts = {}
  BY DEF Init
<1>7. TypeOK
  BY <1>1, <1>3, <1>5, <1>6 DEF TypeOK, Modes, PCs
<1>8. Held
  BY <1>6 DEF Held, Serving, Decided
<1>9. Evident
  BY <1>1, <1>3, <1>5, <1>6 DEF Evident, Decided, Open
<1>10. Keyed
  BY <1>4, <1>6 DEF Keyed, OneRowEach
<1>11. Remembered
  BY <1>5 DEF Remembered, AnsweredOnce
<1> QED
  BY <1>7, <1>8, <1>9, <1>10, <1>11 DEF IInv

LEMMA StepKeeps ==
  ASSUME IInv, [Next]_vars
  PROVE  IInv'
<1>1. CASE \E rec \in BOOLEAN : BeginCycle(rec)
  BY <1>1, BeginKeeps
<1>2. CASE Work
  BY <1>2, ListKeeps, TakeKeeps, AttemptKeeps, SendKeeps, StatusKeeps, LogKeeps, EndKeeps,
     ListRetriesKeeps, RescheduleKeeps, ListOpenKeeps, CloseKeeps, LeaveOpenKeeps, RecordKeeps
  DEF Work
<1>3. CASE Abort
  BY <1>3, EndKeeps
<1>4. CASE Crash
  BY <1>4, CrashKeeps
<1>5. CASE (\E G \in Groups : SweepRead(G)) \/ SweepWrite
  BY <1>5, SweepKeeps
<1>6. CASE Receive
  BY <1>6, ReceiveKeeps
<1>7. CASE SwitchMode \/ (\E r \in Reminders, d \in Targets : ChangeTarget(r, d)) \/ Tick
  BY <1>7, OutsideKeeps
<1>8. CASE UNCHANGED vars
  BY <1>8, StutterKeeps
<1> QED
  BY <1>1, <1>2, <1>3, <1>4, <1>5, <1>6, <1>7, <1>8 DEF Next

\* The inductive invariant: types, what a cycle has in hand, what may be said to be
\* delivered, one row per attempt, and what the adapter remembers.
THEOREM InductiveInvariant == Spec => []IInv
<1>1. Init => IInv
  BY InitHolds
<1>2. IInv /\ [Next]_vars => IInv'
  BY StepKeeps
<1> QED
  BY <1>1, <1>2, PTL DEF Spec

\* Every variable of Dispatch keeps its type.
THEOREM TypeCorrect == Spec => []TypeOK
<1>1. IInv => TypeOK
  BY DEF IInv
<1> QED
  BY <1>1, InductiveInvariant, PTL

\* Whatever the gateway answers, and wherever a cycle is cut off: of what goes by
\* whatsapp, process_candidate and run_reconcile say "delivered" only when the
\* gateway has confirmed it or a receipt came in.  Of other channels the theorem
\* says nothing: process_candidate marks them as delivered without a send.
THEOREM EvidenceCorrect == Spec => []WhatsappOnEvidence
<1>1. IInv => WhatsappOnEvidence
  BY DEF IInv, Evident, Evidence, WhatsappOnEvidence
<1> QED
  BY <1>1, InductiveInvariant, PTL

\* OpenClawGatewayAdapter.send: within the window one life of the process gets at
\* most one answer of the gateway for a reminder, whatever cycles ask it.
THEOREM AnsweredCorrect == Spec => []AnsweredOnce
<1>1. IInv => AnsweredOnce
  BY DEF IInv, Remembered
<1> QED
  BY <1>1, InductiveInvariant, PTL

\* The ledger is changed by appending an attempt, by closing one that is open, and
\* by a receipt for one that is open.
LEMMA ClosedStep ==
  ASSUME IInv, [Next]_vars, NEW e \in ledger, e.reason # "ACCEPTED_UNVERIFIED"
  PROVE  e \in ledger'
<1>1. CASE PromoteOrDemote
  <2>1. PICK d \in rows, reason \in Reasons : Close(d, reason)
    BY <1>1, CloseStep
  <2>2. PICK g : ledger' = {f \in ledger : ~ SameAttempt(d, f)} \cup {g}
    BY <2>1, CloseWrites
  <2>3. ~ SameAttempt(d, e)
    BY DEF IInv, Keyed
  <2> QED
    BY <2>2, <2>3
<1>2. CASE Receive
  <2>1. PICK d \in Unverified, g \in Entry : ledger' = (ledger \ {d}) \cup {g}
    BY <1>2, ReceiveStep
  <2> QED
    BY <2>1 DEF Unverified
<1>3. CASE Log
  BY <1>3 DEF Log
<1>4. ASSUME ~ PromoteOrDemote, ~ Receive, ~ Log
      PROVE  ledger' = ledger
  BY <1>4 DEF Next, Work, vars, db, BeginCycle, List, Take, Attempt, MarkUnsent, Send, Settle,
     LogDuplicate, LogRefused, ListRetries, Reschedule, ListOpen, LeaveOpen, Reflect, Record, EndCycle,
     Abort, Crash, SweepRead, SweepWrite, SwitchMode, ChangeTarget, Tick
<1> QED
  BY <1>1, <1>2, <1>3, <1>4

\* run_reconcile closes an attempt once and for good, although it works from a
\* snapshot that receipts and crashes may have overtaken.
THEOREM ClosedCorrect == Spec => ClosedForGood
<1>1. IInv /\ [Next]_vars =>
        [\A e \in ledger : e.reason # "ACCEPTED_UNVERIFIED" => e \in ledger']_vars
  BY ClosedStep
<1> QED
  BY <1>1, InductiveInvariant, PTL DEF Spec, ClosedForGood

-----------------------------------------------------------------------------
(* The table and the ledger                                                *)

\* Nothing but the engine's retries has been logged for r, up to the n-th.
OnlyTried(r, n) ==
  \A e \in ledger : e.id = r => e.reason \notin Reasons /\ e.index <= n

Newest(e) == \A f \in ledger : f.id = e.id => f.index <= e.index

Agreed(r) ==
  \E e \in ledger : /\ e.id = r /\ Newest(e)
                    /\ e.reason \in Reasons => StatusOf(e.reason) = reminder[r].status

\* Where a candidate is in hand.
Processing == {"attempt", "send", "settle", "log"}

\* The objects still to work off, and the one in hand, are of different reminders,
\* and none of them has been finished by an attempt of the daemon.
Ahead ==
  /\ \A o \in todo : OnlyTried(o.id, o.attempts)
  /\ \A o, q \in todo : o.id = q.id => o = q
  /\ pc \in Processing =>
       OnlyTried(cur.id, cur.attempts) /\ \A o \in todo : o.id # cur.id
  /\ pc = "log" => reminder[cur.id].status \in {StatusOf(verdict), "invalidated"}

\* What an attempt of the daemon was logged for is the newest row of its reminder,
\* and a snapshot of unverified rows is one of rows that are still there.
Behind ==
  /\ \A e \in ledger : e.reason \in Reasons => Newest(e)
  /\ \A e \in rows : \E f \in ledger : SameAttempt(e, f)
  /\ pc = "reflect" => \E e \in ledger : e.id = cur.id /\ e.reason = verdict /\ Newest(e)

Calm == crashes = 0 /\ aborts = 0

Untold == \A r \in Reminders : reminder[r].status \in Open => OnlyTried(r, reminder[r].attempts)

Told ==
  \A r \in Reminders :
    reminder[r].status \in {"delivered", "failed"}
      /\ ~ (pc \in {"log", "reflect"} /\ cur.id = r) => Agreed(r)

\* LedgerAgrees looks at the idle daemon.  In a cycle the status is written before
\* the row, or the row before the status, and what was read before both must not
\* be finished already.
Tidy == Calm => Untold /\ Ahead /\ Behind /\ Told

\* What is said of one reminder and the ledger holds as long as both rest.
LEMMA SameLedger ==
  ASSUME ledger' = ledger, NEW r, NEW n, NEW e
  PROVE  /\ OnlyTried(r, n)' <=> OnlyTried(r, n)
         /\ Newest(e)' <=> Newest(e)
         /\ reminder'[r] = reminder[r] => (Agreed(r)' <=> Agreed(r))
BY DEF OnlyTried, Newest, Agreed

\* What is finished is not open.
LEMMA OpenOrFinished ==
  Open \cap {"delivered", "failed", "invalidated"} = {} /\ "attempted" \in Open
BY DEF Open

\* The row that Write commits.
LEMMA WriteRow ==
  ASSUME TypeOK, NEW r \in Reminders, NEW st, NEW n, NEW next, Write(r, st, n, next)
  PROVE  /\ reminder'[r].status = st /\ reminder'[r].attempts = n
         /\ \A q \in Reminders : q # r => reminder'[q] = reminder[q]
BY DEF TypeOK, Write

\* A step that writes neither table, takes nothing new in hand and shortens what is
\* still to do.
LEMMA QuietTidy ==
  ASSUME Untold, Ahead, Behind, Told, UNCHANGED <<reminder, ledger>>,
         rows' \subseteq rows, todo' \subseteq todo,
         \/ pc' = pc /\ cur' = cur /\ verdict' = verdict
         \/ pc = "send" /\ pc' = "settle" /\ cur' = cur
         \/ pc \notin {"log", "reflect"} /\ pc' \notin Processing \cup {"reflect"}
  PROVE  Untold' /\ Ahead' /\ Behind' /\ Told'
<1>1. Untold'
  BY SameLedger DEF Untold
<1>2. Ahead'
  <2>1. \A o \in todo' : OnlyTried(o.id, o.attempts)' /\ o \in todo
    BY SameLedger DEF Ahead
  <2>2. pc' \in Processing => pc \in Processing /\ cur' = cur
    BY DEF Processing
  <2>3. OnlyTried(cur.id, cur.attempts) /\ cur' = cur => OnlyTried(cur.id, cur.attempts)'
    BY DEF OnlyTried
  <2>4. pc' = "log" => pc = "log" /\ verdict' = verdict
    BY DEF Processing
  <2> QED
    BY <2>1, <2>2, <2>3, <2>4 DEF Ahead
<1>3. Behind'
  BY SameLedger DEF Behind
<1>4. Told'
  BY SameLedger DEF Told
<1> QED
  BY <1>1, <1>2, <1>3, <1>4

\* What a SELECT finds open was not finished by an attempt of the daemon.
LEMMA ListTidy ==
  ASSUME IInv, Calm, Tidy, List \/ ListRetries
  PROVE  Tidy'
<1>1. PICK R \in SUBSET Reminders :
        /\ todo' = {ObjectOf(r) : r \in R}
        /\ \A r \in R : reminder[r].status \in Open
  <2>1. CASE List
    <3>1. Candidates \in SUBSET Reminders /\ \A r \in Candidates : reminder[r].status \in Open
      BY DEF Candidates, FirstDue, Due
    <3> QED
      BY <2>1, <3>1 DEF List
  <2>2. CASE ListRetries
    <3>1. Retries \in SUBSET Reminders /\ \A r \in Retries : reminder[r].status \in Open
      BY DEF Retries, FirstDue, Due
    <3> QED
      BY <2>2, <3>1 DEF ListRetries
  <2> QED
    BY <2>1, <2>2
<1>2. /\ pc \in {"list", "retry"} /\ pc' \in {"retry", "end", "next", "open", "reschedule"}
      /\ UNCHANGED <<reminder, ledger, rows, cur, verdict>>
  BY DEF List, ListRetries, Goto, AfterRows, db
<1>3. Untold /\ Ahead /\ Behind /\ Told
  BY DEF Tidy
<1>4. Ahead'
  <2>1. ASSUME NEW o \in todo'
        PROVE  \E r \in R : /\ o = ObjectOf(r) /\ o.id = r
                            /\ OnlyTried(o.id, o.attempts)'
    <3>1. PICK r \in R : o = ObjectOf(r)
      BY <1>1
    <3>2. o.id = r /\ o.attempts = reminder[r].attempts
      BY <3>1 DEF ObjectOf
    <3>3. OnlyTried(r, reminder[r].attempts)
      BY <1>1, <1>3 DEF Untold
    <3> QED
      BY <1>2, <3>1, <3>2, <3>3, SameLedger
  <2> QED
    BY <1>2, <2>1 DEF Ahead, Processing
<1>5. Untold' /\ Behind' /\ Told'
  BY <1>2, <1>3, SameLedger DEF Untold, Behind, Told
<1> QED
  BY <1>4, <1>5 DEF Tidy

LEMMA TakeTidy ==
  ASSUME IInv, Calm, Tidy, Take
  PROVE  Tidy'
<1>1. PICK o \in todo :
        /\ todo' = todo \ {o} /\ cur' = o
        /\ pc' \in {"attempt", "settle"}
  BY DEF Take, Earliest
<1>2. pc = "next" /\ UNCHANGED <<reminder, ledger, rows>>
  BY DEF Take, db
<1>3. Untold /\ Ahead /\ Behind /\ Told
  BY DEF Tidy
<1>4. Ahead'
  <2>1. \A q \in todo : OnlyTried(q.id, q.attempts)'
    BY <1>2, <1>3, SameLedger DEF Ahead
  <2>2. OnlyTried(cur.id, cur.attempts)'
    BY <1>1, <2>1 DEF OnlyTried
  <2>3. \A q \in todo' : q \in todo /\ q.id # o.id
    BY <1>1, <1>3 DEF Ahead
  <2> QED
    BY <1>1, <1>3, <2>1, <2>2, <2>3 DEF Ahead
<1>5. Untold' /\ Behind' /\ Told'
  BY <1>1, <1>2, <1>3, SameLedger DEF Untold, Behind, Told
<1> QED
  BY <1>4, <1>5 DEF Tidy

LEMMA AttemptTidy ==
  ASSUME IInv, Calm, Tidy, Attempt
  PROVE  Tidy'
<1>1. PICK o \in Object, c \in Reminders :
        /\ o = cur /\ c = o.id /\ o.attempts \in Nat /\ pc = "attempt"
  BY DEF Attempt, MarkUnsent, IInv, Held, Serving, Object
<1>2. /\ cur' \in Object /\ cur'.id = c /\ cur'.attempts = o.attempts + 1
      /\ pc' \in {"settle", "send"} /\ UNCHANGED <<ledger, todo, rows>>
  BY <1>1 DEF Attempt, MarkUnsent, Object
<1>3. /\ reminder'[c].status = "attempted" /\ reminder'[c].attempts = o.attempts + 1
      /\ \A r \in Reminders : r # c => reminder'[r] = reminder[r]
  <2>1. Write(c, "attempted", o.attempts + 1, o.next)
    BY <1>1 DEF Attempt, MarkUnsent
  <2> QED
    BY <2>1, WriteRow DEF IInv
<1>4. Untold /\ Ahead /\ Behind /\ Told
  BY DEF Tidy
<1>5. OnlyTried(c, o.attempts)
  BY <1>1, <1>4 DEF Ahead, Processing
<1>6. \A n : n = o.attempts + 1 => OnlyTried(c, n)'
  <2>1. \A e \in ledger : e.index \in Nat
    BY DEF IInv, TypeOK, Entry
  <2> QED
    BY <1>1, <1>2, <1>5, <2>1 DEF OnlyTried
<1>7. Untold'
  <2> SUFFICES ASSUME NEW r \in Reminders, reminder'[r].status \in Open
               PROVE  OnlyTried(r, reminder[r].attempts)'
    BY DEF Untold
  <2>1. CASE r = c
    BY <1>3, <1>6, <2>1 DEF OnlyTried
  <2>2. CASE r # c
    BY <1>2, <1>3, <1>4, <2>2 DEF Untold, OnlyTried
  <2> QED
    BY <2>1, <2>2
<1>8. Ahead'
  <2>1. \A q \in todo : OnlyTried(q.id, q.attempts)' /\ q.id # c
    BY <1>1, <1>2, <1>4, SameLedger DEF Ahead, Processing
  <2>2. OnlyTried(cur.id, cur.attempts)'
    BY <1>2, <1>6 DEF OnlyTried
  <2> QED
    BY <1>2, <1>4, <2>1, <2>2 DEF Ahead
<1>9. Behind'
  BY <1>2, <1>4, SameLedger DEF Behind
<1>10. Told'
  BY <1>1, <1>2, <1>3, <1>4, SameLedger DEF Told
<1> QED
  BY <1>7, <1>8, <1>9, <1>10 DEF Tidy

\* Between Settle and Log the status is ahead of the ledger.
LEMMA SettleTidy ==
  ASSUME IInv, Calm, Tidy, Settle
  PROVE  Tidy'
<1>1. PICK o \in Object, c \in Reminders :
        /\ o = cur /\ c = o.id /\ pc = "settle"
  BY DEF Settle, Goto, IInv, Held, Decided, Object
<1>2. pc' = "log" /\ UNCHANGED <<ledger, todo, rows, cur, verdict>>
  BY <1>1 DEF Settle, Goto, local
<1>3. /\ reminder'[c].status = StatusOf(verdict)
      /\ \A r \in Reminders : r # c => reminder'[r] = reminder[r]
  <2>1. PICK v : v = verdict
    OBVIOUS
  <2>2. Write(c, StatusOf(v), o.attempts, o.next)
    BY <1>1, <2>1 DEF Settle
  <2> QED
    BY <2>1, <2>2, WriteRow DEF IInv
<1>4. Untold /\ Ahead /\ Behind /\ Told
  BY DEF Tidy
<1>5. Untold'
  BY <1>2, <1>3, <1>4, OpenOrFinished, SameLedger DEF Untold, StatusOf, OnlyTried
<1>6. Ahead'
  <2>1. \A q \in todo : OnlyTried(q.id, q.attempts)'
    BY <1>2, <1>4, SameLedger DEF Ahead
  <2>2. OnlyTried(cur.id, cur.attempts)'
    BY <1>1, <1>2, <1>4 DEF Ahead, Processing, OnlyTried
  <2>3. reminder'[cur'.id].status = StatusOf(verdict')
    BY <1>1, <1>2, <1>3
  <2> QED
    BY <1>1, <1>2, <1>4, <2>1, <2>2, <2>3 DEF Ahead, Processing, StatusOf
<1>7. Behind'
  BY <1>2, <1>4, SameLedger DEF Behind
<1>8. Told'
  BY <1>1, <1>2, <1>3, <1>4, SameLedger DEF Told
<1> QED
  BY <1>5, <1>6, <1>7, <1>8 DEF Tidy

LEMMA LogTidy ==
  ASSUME IInv, Calm, Tidy, Log
  PROVE  Tidy'
<1>1. PICK o \in Object, c \in Reminders, v \in Reasons, n \in Nat :
        /\ o = cur /\ c = o.id /\ v = verdict /\ n = Index /\ pc = "log"
        /\ o.attempts \in Nat /\ n >= o.attempts
  BY DEF Log, Goto, IInv, Held, Decided, Object, Index
<1>2. PICK new : new = [id |-> c, index |-> n, at |-> at,
                        ref |-> verdict = "DELIVERED_SUCCESS", reason |-> v]
  OBVIOUS
<1>3. /\ new.id = c /\ new.index = n /\ new.reason = v
      /\ ledger' = ledger \cup {new}
      /\ pc' \in {"retry", "end", "next"} /\ UNCHANGED <<reminder, todo, rows>>
  BY <1>1, <1>2 DEF Log, Goto, AfterRows
<1>4. Untold /\ Ahead /\ Behind /\ Told
  BY DEF Tidy
<1>5. /\ OnlyTried(c, o.attempts) /\ \A q \in todo : q.id # c
      /\ reminder[c].status \in {StatusOf(v), "invalidated"}
  BY <1>1, <1>4 DEF Ahead, Processing
<1>6. \A e \in ledger : e.index \in Nat
  BY DEF IInv, TypeOK, Entry
<1>7. \A e \in ledger : e.id = c => e.reason \notin Reasons /\ e.index <= n
  BY <1>1, <1>5, <1>6 DEF OnlyTried
<1>8. Newest(new)'
  BY <1>3, <1>7 DEF Newest
<1>9. \A r, m : r # c => (OnlyTried(r, m)' <=> OnlyTried(r, m))
  BY <1>3 DEF OnlyTried
<1>10. \A e \in ledger : e.id # c /\ Newest(e) => Newest(e)'
  BY <1>3 DEF Newest
<1>11. Untold'
  <2>1. reminder[c].status \notin Open
    BY <1>5, OpenOrFinished DEF StatusOf
  <2> QED
    BY <1>3, <1>4, <1>9, <2>1 DEF Untold, OnlyTried
<1>12. Ahead'
  BY <1>3, <1>4, <1>5, <1>9 DEF Ahead, Processing
<1>13. Behind'
  <2>1. \A e \in ledger' : e.reason \in Reasons => Newest(e)'
    BY <1>3, <1>4, <1>7, <1>8, <1>10 DEF Behind
  <2> QED
    BY <1>3, <1>4, <2>1 DEF Behind
<1>14. Told'
  <2> SUFFICES ASSUME NEW r \in Reminders, reminder[r].status \in {"delivered", "failed"}
               PROVE  Agreed(r)'
    BY <1>3 DEF Told
  <2>1. CASE r = c
    BY <1>3, <1>5, <1>8, <2>1 DEF Agreed
  <2>2. CASE r # c
    <3>1. Agreed(r)
      BY <1>1, <1>4, <2>2 DEF Told
    <3> QED
      BY <1>3, <1>10, <2>2, <3>1 DEF Agreed
  <2> QED
    BY <2>1, <2>2
<1> QED
  BY <1>11, <1>12, <1>13, <1>14 DEF Tidy

\* The only row that can be there already is the engine's last try.
LEMMA DuplicateTidy ==
  ASSUME IInv, Calm, Tidy, LogDuplicate
  PROVE  Tidy'
<1>1. PICK o \in Object, c \in Reminders :
        /\ o = cur /\ c = o.id /\ o.attempts \in Nat /\ pc = "log"
  BY DEF LogDuplicate, Goto, IInv, Held, Decided, Object
<1>2. /\ pc' = "idle" /\ todo' = {} /\ rows' = {} /\ UNCHANGED <<reminder, ledger>>
  BY DEF LogDuplicate, Goto, DropAll, db
<1>3. Untold /\ Ahead /\ Behind /\ Told
  BY DEF Tidy
<1>4. OnlyTried(c, o.attempts)
  BY <1>1, <1>3 DEF Ahead, Processing
<1>5. PICK e \in ledger : e.id = c /\ e.index = IF o.attempts = 0 THEN 1 ELSE o.attempts
  BY <1>1 DEF LogDuplicate, Logged, Index
<1>6. Agreed(c)
  <2>1. e.index = o.attempts /\ e.reason \notin Reasons
    BY <1>1, <1>4, <1>5 DEF OnlyTried
  <2>2. Newest(e)
    BY <1>4, <1>5, <2>1 DEF OnlyTried, Newest
  <2> QED
    BY <1>5, <2>1, <2>2 DEF Agreed
<1>7. Told'
  BY <1>1, <1>2, <1>3, <1>6, SameLedger DEF Told
<1>8. Untold' /\ Ahead' /\ Behind'
  BY <1>2, <1>3, SameLedger DEF Untold, Ahead, Behind, Processing
<1> QED
  BY <1>7, <1>8 DEF Tidy

LEMMA RescheduleTidy ==
  ASSUME IInv, Calm, Tidy, Reschedule
  PROVE  Tidy'
<1>1. PICK o \in todo :
        /\ Write(o.id, "scheduled", o.attempts, None)
        /\ todo' = todo \ {o}
        /\ pc' \in {"open", "reschedule"}
  BY DEF Reschedule, Earliest
<1>2. PICK c \in Reminders : c = o.id /\ o.attempts \in Nat
  BY DEF IInv, TypeOK, Object
<1>3. pc = "reschedule" /\ UNCHANGED <<ledger, rows, cur, verdict>>
  BY DEF Reschedule
<1>4. /\ reminder'[c].status = "scheduled" /\ reminder'[c].attempts = o.attempts
      /\ \A r \in Reminders : r # c => reminder'[r] = reminder[r]
  BY <1>1, <1>2, WriteRow DEF IInv
<1>5. Untold /\ Ahead /\ Behind /\ Told
  BY DEF Tidy
<1>6. Untold'
  <2>1. OnlyTried(c, o.attempts)
    BY <1>1, <1>2, <1>5 DEF Ahead
  <2> QED
    BY <1>3, <1>4, <1>5, <2>1 DEF Untold, OnlyTried
<1>7. Ahead'
  BY <1>1, <1>3, <1>5, SameLedger DEF Ahead, Processing
<1>8. Behind'
  BY <1>1, <1>3, <1>5, SameLedger DEF Behind
<1>9. Told'
  BY <1>1, <1>3, <1>4, <1>5, SameLedger DEF Told
<1> QED
  BY <1>6, <1>7, <1>8, <1>9 DEF Tidy

LEMMA ListOpenTidy ==
  ASSUME IInv, Calm, Tidy, ListOpen
  PROVE  Tidy'
<1>1. /\ pc = "open" /\ pc' \in {"end", "close"} /\ rows' \subseteq ledger
      /\ UNCHANGED <<reminder, ledger, todo, cur, verdict>>
  BY DEF ListOpen, Goto, Unverified, db
<1>2. Untold /\ Ahead /\ Behind /\ Told
  BY DEF Tidy
<1>3. Behind'
  <2>1. \A e \in rows' : \E f \in ledger' : SameAttempt(e, f)
    BY <1>1 DEF SameAttempt
  <2> QED
    BY <1>1, <1>2, <2>1, SameLedger DEF Behind
<1>4. Untold' /\ Ahead' /\ Told'
  BY <1>1, <1>2, SameLedger DEF Untold, Ahead, Told, Processing
<1> QED
  BY <1>3, <1>4 DEF Tidy

\* What is said of the ledger does not look at what a row was changed to, as long
\* as the row keeps its place and is still one of the daemon.
LEMMA SwapRow ==
  ASSUME NEW f \in ledger, NEW g, g.id = f.id, g.index = f.index,
         ledger' = (ledger \ {f}) \cup {g}
  PROVE  /\ \A e \in ledger : Newest(e) => Newest(e)'
         /\ Newest(f) => Newest(g)'
         /\ \A r, n : r # f.id => (OnlyTried(r, n)' <=> OnlyTried(r, n))
         /\ \A r : r # f.id /\ reminder'[r] = reminder[r] => (Agreed(r) => Agreed(r)')
         /\ \A e : (\E h \in ledger : SameAttempt(e, h)) => \E h \in ledger' : SameAttempt(e, h)
<1>1. /\ \A e \in ledger : Newest(e) => Newest(e)'
      /\ Newest(f) => Newest(g)'
  BY DEF Newest
<1>2. \A r, n : r # f.id => (OnlyTried(r, n)' <=> OnlyTried(r, n))
  BY DEF OnlyTried
<1>3. ASSUME NEW r, r # f.id, reminder'[r] = reminder[r], Agreed(r)
      PROVE  Agreed(r)'
  <2>1. PICK e \in ledger : /\ e.id = r /\ Newest(e)
                            /\ e.reason \in Reasons => StatusOf(e.reason) = reminder[r].status
    BY <1>3 DEF Agreed
  <2>2. e \in ledger'
    BY <1>3, <2>1
  <2> QED
    BY <1>1, <1>3, <2>1, <2>2 DEF Agreed
<1>4. \A e : (\E h \in ledger : SameAttempt(e, h)) => \E h \in ledger' : SameAttempt(e, h)
  BY DEF SameAttempt
<1> QED
  BY <1>1, <1>2, <1>3, <1>4

\* Between PromoteOrDemote and Reflect the ledger is ahead of the status.
LEMMA CloseTidy ==
  ASSUME IInv, Calm, Tidy, PromoteOrDemote
  PROVE  Tidy'
<1>1. PICK e \in rows, reason \in Reasons : Close(e, reason) /\ rows' = rows \ {e}
  BY CloseStep
<1>2. PICK g \in Entry :
        /\ g.id = e.id /\ g.index = e.index /\ g.reason = reason
        /\ ledger' = {f \in ledger : ~ SameAttempt(e, f)} \cup {g}
  BY <1>1, CloseWrites
<1>3. /\ pc = "close" /\ pc' = "reflect" /\ cur'.id = e.id /\ verdict' = reason
      /\ UNCHANGED <<reminder, todo>>
  BY <1>1 DEF PromoteOrDemote, Close, ObjectOf
<1>4. Untold /\ Ahead /\ Behind /\ Told
  BY DEF Tidy
<1>5. PICK f \in ledger :
        /\ SameAttempt(e, f) /\ f.reason = "ACCEPTED_UNVERIFIED"
        /\ f.id = e.id /\ f.index = e.index /\ f.id \in Reminders
  BY <1>4 DEF Behind, IInv, TypeOK, Keyed, SameAttempt, Entry
<1>6. ledger' = (ledger \ {f}) \cup {g}
  <2>1. \A h \in ledger : SameAttempt(e, h) <=> h = f
    BY <1>5 DEF SameAttempt, IInv, Keyed, OneRowEach
  <2> QED
    BY <1>2, <2>1
<1>7. f.reason \in Reasons /\ Newest(f)
  BY <1>4, <1>5 DEF Behind, Reasons, Failures
<1>8. \A n : ~ OnlyTried(f.id, n)
  BY <1>7 DEF OnlyTried
<1>9. Untold'
  <2>1. reminder[f.id].status \notin Open
    BY <1>4, <1>5, <1>8 DEF Untold
  <2> SUFFICES ASSUME NEW r \in Reminders, reminder[r].status \in Open
               PROVE  OnlyTried(r, reminder[r].attempts)'
    BY <1>3 DEF Untold
  <2>2. r # f.id /\ OnlyTried(r, reminder[r].attempts)
    BY <1>4, <2>1 DEF Untold
  <2> QED
    BY <1>2, <1>3, <1>5, <1>6, <2>2 DEF OnlyTried
<1>10. Ahead'
  <2>1. \A o \in todo : o.id # f.id /\ OnlyTried(o.id, o.attempts)
    BY <1>4, <1>8 DEF Ahead
  <2>2. \A o \in todo : OnlyTried(o.id, o.attempts)'
    BY <1>2, <1>5, <1>6, <2>1 DEF OnlyTried
  <2> QED
    BY <1>3, <1>4, <2>2 DEF Ahead, Processing
<1>11. Behind'
  <2>1. Newest(g)'
    BY <1>2, <1>5, <1>6, <1>7, SwapRow
  <2>2. \A h \in ledger' : h.reason \in Reasons => Newest(h)'
    BY <1>2, <1>4, <1>5, <1>6, <2>1, SwapRow DEF Behind
  <2>3. \A d \in rows' : \E h \in ledger' : SameAttempt(d, h)
    BY <1>1, <1>2, <1>4, <1>5, <1>6, SwapRow DEF Behind
  <2> QED
    BY <1>2, <1>3, <1>6, <2>1, <2>2, <2>3 DEF Behind, SameAttempt
<1>12. Told'
  <2> SUFFICES ASSUME NEW r \in Reminders, r # f.id,
                      reminder[r].status \in {"delivered", "failed"}
               PROVE  Agreed(r)'
    BY <1>3, <1>5 DEF Told
  <2>1. Agreed(r)
    BY <1>3, <1>4 DEF Told
  <2> QED
    BY <1>2, <1>3, <1>5, <1>6, <2>1, SwapRow
<1> QED
  BY <1>9, <1>10, <1>11, <1>12 DEF Tidy

LEMMA ReflectTidy ==
  ASSUME IInv, Calm, Tidy, Reflect
  PROVE  Tidy'
<1>1. PICK o \in Object, c \in Reminders :
        /\ o = cur /\ c = o.id /\ pc = "reflect"
  BY DEF Reflect, Goto, IInv, Held, Decided, Object
<1>2. pc' = "record" /\ UNCHANGED <<ledger, todo, rows, cur, verdict>>
  BY <1>1 DEF Reflect, Goto, local
<1>3. /\ reminder'[c].status = StatusOf(verdict)
      /\ \A r \in Reminders : r # c => reminder'[r] = reminder[r]
  <2>1. PICK v : v = verdict
    OBVIOUS
  <2>2. Write(c, StatusOf(v), o.attempts, o.next)
    BY <1>1, <2>1 DEF Reflect
  <2> QED
    BY <2>1, <2>2, WriteRow DEF IInv
<1>4. Untold /\ Ahead /\ Behind /\ Told
  BY DEF Tidy
<1>5. Untold'
  BY <1>2, <1>3, <1>4, OpenOrFinished, SameLedger DEF Untold, StatusOf, OnlyTried
<1>6. Ahead'
  BY <1>2, <1>4, SameLedger DEF Ahead, Processing
<1>7. Behind'
  BY <1>2, <1>4, SameLedger DEF Behind
<1>8. Agreed(c)'
  <2>1. PICK e \in ledger : e.id = c /\ e.reason = verdict /\ Newest(e)
    BY <1>1, <1>4 DEF Behind
  <2> QED
    BY <1>2, <1>3, <2>1 DEF Agreed, Newest
<1>9. Told'
  BY <1>1, <1>2, <1>3, <1>4, <1>8, SameLedger DEF Told
<1> QED
  BY <1>5, <1>6, <1>7, <1>9 DEF Tidy

LEMMA SweepTidy ==
  ASSUME IInv, Calm, Tidy, SweepWrite
  PROVE  Tidy'
<1>1. PICK o \in sweep : Write(o.id, "invalidated", o.attempts, o.next)
  BY DEF SweepWrite, Earliest
<1>2. PICK c \in Reminders : c = o.id
  BY DEF IInv, TypeOK, Object
<1>3. UNCHANGED <<ledger, pc, todo, rows, cur, verdict>>
  BY DEF SweepWrite, local
<1>4. /\ reminder'[c].status = "invalidated"
      /\ \A r \in Reminders : r # c => reminder'[r] = reminder[r]
  BY <1>1, <1>2, WriteRow DEF IInv
<1>5. Untold /\ Ahead /\ Behind /\ Told
  BY DEF Tidy
<1>6. Untold'
  BY <1>3, <1>4, <1>5, OpenOrFinished DEF Untold, OnlyTried
<1>7. Ahead'
  <2>1. pc = "log" => cur.id \in Reminders
    BY DEF IInv, Held, Decided, Object
  <2>2. pc = "log" => reminder'[cur.id].status \in {StatusOf(verdict), "invalidated"}
    BY <1>4, <1>5, <2>1 DEF Ahead
  <2> QED
    BY <1>3, <1>5, <2>2 DEF Ahead, OnlyTried
<1>8. Behind'
  BY <1>3, <1>5 DEF Behind, Newest
<1>9. Told'
  BY <1>3, <1>4, <1>5, SameLedger DEF Told
<1> QED
  BY <1>6, <1>7, <1>8, <1>9 DEF Tidy

LEMMA ReceiveTidy ==
  ASSUME IInv, Calm, Tidy, Receive
  PROVE  Tidy'
<1>1. PICK f \in Unverified, g \in Entry :
        /\ g.id = f.id /\ g.index = f.index /\ g.reason = f.reason
        /\ ledger' = (ledger \ {f}) \cup {g}
  BY ReceiveStep
<1>2. UNCHANGED <<reminder, pc, todo, rows, cur, verdict>>
  BY DEF Receive, local
<1>3. Untold /\ Ahead /\ Behind /\ Told /\ f \in ledger
  BY DEF Tidy, Unverified
<1>4. \A r, n : OnlyTried(r, n) => OnlyTried(r, n)'
  BY <1>1, <1>3 DEF OnlyTried
<1>5. Untold'
  BY <1>2, <1>3, <1>4 DEF Untold, OnlyTried
<1>6. Ahead'
  <2>1. \A o \in todo : OnlyTried(o.id, o.attempts)'
    BY <1>3, <1>4 DEF Ahead
  <2>2. pc \in Processing => OnlyTried(cur.id, cur.attempts)'
    BY <1>1, <1>2, <1>3 DEF Ahead, OnlyTried
  <2> QED
    BY <1>2, <1>3, <2>1, <2>2 DEF Ahead
<1>7. \A e \in ledger' : \E d \in ledger :
        /\ d.id = e.id /\ d.index = e.index /\ d.reason = e.reason /\ (Newest(d) => Newest(e)')
  <2>1. ASSUME NEW e \in ledger' PROVE e = g \/ e \in ledger
    BY <1>1
  <2> QED
    BY <1>1, <1>3, <2>1, SwapRow
<1>8. \A d \in ledger : \E e \in ledger' :
        /\ d.id = e.id /\ d.index = e.index /\ d.reason = e.reason /\ (Newest(d) => Newest(e)')
  <2>1. ASSUME NEW d \in ledger PROVE d = f \/ d \in ledger'
    BY <1>1
  <2> QED
    BY <1>1, <1>3, <2>1, SwapRow
<1>9. Behind'
  <2>1. \A e \in ledger' : e.reason \in Reasons => Newest(e)'
    BY <1>3, <1>7 DEF Behind
  <2>2. \A e \in rows : \E h \in ledger' : SameAttempt(e, h)
    BY <1>3, <1>8 DEF Behind, SameAttempt
  <2>3. pc = "reflect" =>
          \E e \in ledger' : e.id = cur.id /\ e.reason = verdict /\ Newest(e)'
    BY <1>3, <1>8 DEF Behind
  <2> QED
    BY <1>2, <2>1, <2>2, <2>3 DEF Behind, Newest
<1>10. Told'
  <2>1. \A r : Agreed(r) => Agreed(r)'
    BY <1>2, <1>8 DEF Agreed
  <2> QED
    BY <1>2, <1>3, <2>1 DEF Told
<1> QED
  BY <1>5, <1>6, <1>9, <1>10 DEF Tidy

LEMMA InitTidy == Init => Tidy
<1> SUFFICES ASSUME Init PROVE Tidy
  OBVIOUS
<1>1. /\ \A r \in Reminders : reminder[r].status \in Open
      /\ todo = {} /\ rows = {} /\ pc = "idle"
  BY DispatchAssumption DEF Init
<1>2. ASSUME NEW r \in Reminders PROVE OnlyTried(r, reminder[r].attempts)
  <2>1. "FAILED_PROVIDER_TRANSIENT" \notin Reasons
    BY DEF Reasons, Failures
  <2>2. ASSUME NEW e \in ledger, e.id = r
        PROVE  /\ e.reason = "FAILED_PROVIDER_TRANSIENT"
               /\ e.index <= reminder[r].attempts
    <3>1. PICK q \in Reminders : e \in TriedBefore(q)
      BY DEF Init
    <3>2. PICK n \in 1 .. reminder[q].attempts :
            e = [id |-> q, index |-> n, at |-> 0, ref |-> FALSE,
                 reason |-> "FAILED_PROVIDER_TRANSIENT"]
      BY <3>1 DEF TriedBefore
    <3>3. q = r /\ e.index = n /\ e.reason = "FAILED_PROVIDER_TRANSIENT"
      BY <2>2, <3>2
    <3> QED
      BY <3>2, <3>3
  <2> QED
    BY <2>1, <2>2 DEF OnlyTried
<1>3. \A e \in ledger : e.reason \notin Reasons
  <2>1. \A e \in ledger : e.id \in Reminders
    BY InitHolds DEF IInv, TypeOK, Entry
  <2> QED
    BY <1>2, <2>1 DEF OnlyTried
<1>4. Untold /\ Ahead
  BY <1>1, <1>2 DEF Untold, Ahead, Processing
<1>5. Behind /\ Told
  BY <1>1, <1>3 DEF Behind, Told, Open
<1> QED
  BY <1>4, <1>5 DEF Tidy

LEMMA StepTidy ==
  ASSUME IInv, Tidy, [Next]_vars
  PROVE  Tidy'
<1> SUFFICES ASSUME Calm' PROVE Tidy'
  BY DEF Tidy
<1>1. ~ Abort /\ ~ Crash /\ ~ LogRefused
  BY DEF Abort, LogRefused, Crash, Calm, IInv, TypeOK
<1>2. Calm
  BY <1>1 DEF Calm, Next, Work, vars, faults, BeginCycle, List, Take, Attempt, MarkUnsent, Send, Settle,
     Log, LogDuplicate, LogRefused, ListRetries, Reschedule, ListOpen, PromoteOrDemote, LeaveOpen,
     Reflect, Record, EndCycle, SweepRead, SweepWrite, Receive, SwitchMode, ChangeTarget, Tick
<1>3. CASE \/ \E rec \in BOOLEAN : BeginCycle(rec)
           \/ Send \/ LeaveOpen \/ Record \/ EndCycle
           \/ \E G \in Groups : SweepRead(G)
           \/ SwitchMode \/ (\E r \in Reminders, d \in Targets : ChangeTarget(r, d)) \/ Tick
           \/ UNCHANGED vars
  <2>1. /\ UNCHANGED <<reminder, ledger>> /\ rows' \subseteq rows /\ todo' \subseteq todo
        /\ \/ pc' = pc /\ cur' = cur /\ verdict' = verdict
           \/ pc = "send" /\ pc' = "settle" /\ cur' = cur
           \/ pc \notin {"log", "reflect"} /\ pc' \notin Processing \cup {"reflect"}
    BY <1>3 DEF BeginCycle, Send, LeaveOpen, Record, EndCycle, DropAll, Drop, SweepRead,
       SwitchMode, ChangeTarget, Tick, vars, db, local, Goto, Processing
  <2> QED
    BY <1>2, <2>1, QuietTidy DEF Tidy
<1>4. CASE \/ List \/ Take \/ Attempt \/ Settle \/ Log \/ LogDuplicate \/ ListRetries
           \/ Reschedule \/ ListOpen \/ PromoteOrDemote \/ Reflect \/ SweepWrite \/ Receive
  BY <1>2, <1>4, ListTidy, TakeTidy, AttemptTidy, SettleTidy, LogTidy, DuplicateTidy,
     RescheduleTidy, ListOpenTidy, CloseTidy, ReflectTidy, SweepTidy, ReceiveTidy
<1> QED
  BY <1>1, <1>3, <1>4 DEF Next, Work

\* process_candidate and run_reconcile: between cycles that were not cut off, a
\* reminder that is delivered or failed has a newest attempt that says the same,
\* whatever the engine tried before, and whatever is invalidated or received.
THEOREM LedgerCorrect == Spec => []LedgerAgrees
<1>1. IInv /\ Tidy => LedgerAgrees
  BY DEF Tidy, Calm, Told, Agreed, Newest, LedgerAgrees
<1>2. Init => IInv /\ Tidy
  BY InitHolds, InitTidy
<1>3. (IInv /\ Tidy) /\ [Next]_vars => (IInv /\ Tidy)'
  BY StepKeeps, StepTidy
<1> QED
  BY <1>1, <1>2, <1>3, PTL DEF Spec
=============================================================================
