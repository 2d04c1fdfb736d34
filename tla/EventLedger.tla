---------------------------- MODULE EventLedger ----------------------------
(***************************************************************************)
(* What the event store of kinflow promises, with no process, no reminder  *)
(* and no crash in sight: per event an append-only log of versions and one *)
(* status.  A version is made in ONE atomic step, from the newest version  *)
(* there is and from a message its sender has confirmed.  Intake, where    *)
(* the read and the write of a version are separate steps of several       *)
(* processes, is shown to implement this module.                           *)
(***************************************************************************)
EXTENDS Naturals, Sequences

CONSTANTS
  EventIds,     \* the ids the store can hand out
  Messages,     \* message ids
  Times         \* instants a version can be made at

VARIABLES
  sent,         \* the intent each message carries (never changes)
  status,       \* per event: "none", "active" or "cancelled"
  ledger        \* per event: the sequence of its versions

ledgerVars == <<sent, status, ledger>>

Newest(e) == ledger[e][Len(ledger[e])]

\* An intent that may change an event at all.
MayMutate(i) ==
  /\ i.confirmed
  /\ i.action = "cancel" \/ (i.complete /\ i.dest_ok)

\* The first version of an event, made for message m at time t.
First(m, t) ==
  [slot |-> sent[m].slot, audience |-> sent[m].audience, source |-> m, at |-> t]

\* The version that an update replaces c by: an audience the intent does not
\* give is inherited.
Revised(c, m, t) ==
  [slot |-> sent[m].slot,
   audience |-> IF sent[m].audience = {} THEN c.audience ELSE sent[m].audience,
   source |-> m, at |-> t]

\* The version that a cancellation replaces c by: the same content.
Closed(c, m, t) == [c EXCEPT !.source = m, !.at = t]

LedgerInit ==
  /\ status = [e \in EventIds |-> "none"]
  /\ ledger = [e \in EventIds |-> << >>]

Put(e, st, c) ==
  /\ status' = [status EXCEPT ![e] = st]
  /\ ledger' = [ledger EXCEPT ![e] = Append(@, c)]
  /\ UNCHANGED sent

Open(e, m, t) ==
  /\ ledger[e] = << >>
  /\ MayMutate(sent[m]) /\ sent[m].action # "cancel" /\ sent[m].audience # {}
  /\ Put(e, "active", First(m, t))

Revise(e, m, t) ==
  /\ ledger[e] # << >>
  /\ MayMutate(sent[m]) /\ sent[m].action # "cancel"
  /\ Put(e, "active", Revised(Newest(e), m, t))

Close(e, m, t) ==
  /\ ledger[e] # << >>
  /\ MayMutate(sent[m]) /\ sent[m].action = "cancel"
  /\ Put(e, "cancelled", Closed(Newest(e), m, t))

LedgerNext ==
  \E e \in EventIds, m \in Messages, t \in Times :
     Open(e, m, t) \/ Revise(e, m, t) \/ Close(e, m, t)

LedgerSpec == LedgerInit /\ [][LedgerNext]_ledgerVars
=============================================================================
