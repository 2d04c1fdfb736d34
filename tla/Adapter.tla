------------------------------ MODULE Adapter ------------------------------
(***************************************************************************)
(* OpenClawGatewayAdapter.send.  A result the adapter has once frozen is   *)
(* replayed: for the same attempt always, for another attempt with the     *)
(* same dedupe key within a window.  What is frozen lives in the memory of *)
(* the process.  The gateway behind it is external: it answers a call, or  *)
(* the call raises, whether or not the message went out.                   *)
(***************************************************************************)
EXTENDS Seam

CONSTANTS
  Keys,      \* dedupe keys
  Window     \* adapter_dedupe_window_ms

VARIABLES
  canonical,   \* _canonical_by_attempt_id and _canonical_by_dedupe
  calls        \* per key, what the calls of the gateway came to (history)

\* The kinds of results.
Kinds == Answers \ {"raised"}

\* delivery_id and attempt_id are made of the key and the number of the attempt.
Result == [key : Keys, attempt : Nat, kind : Kinds, at : Nat]
Call == [attempt : Nat, kind : Answers, at : Nat]

AdapterTypeOK ==
  /\ canonical \subseteq Result
  /\ calls \in [Keys -> SUBSET Call]

AdapterInit ==
  /\ canonical = {}
  /\ calls = [k \in Keys |-> {}]

OfAttempt(k, n) == {c \in canonical : c.key = k /\ c.attempt = n}

Recent(k, t) == {c \in canonical : c.key = k /\ t - c.at <= Window}

\* A slip: only the same attempt is replayed.
ReplayAttempt(k, n, t) == OfAttempt(k, n)

\* By the attempt id first, then the newest result within the window.
Replay(k, n, t) ==
  IF OfAttempt(k, n) # {} THEN OfAttempt(k, n)
  ELSE {c \in Recent(k, t) : \A d \in Recent(k, t) : d.at <= c.at}

Freeze(k, n, kind, t) ==
  canonical' = canonical \cup {[key |-> k, attempt |-> n, kind |-> kind, at |-> t]}

\* The call is answered from memory ...
Replayed(k, n, t, kind) ==
  /\ \E c \in Replay(k, n, t) : kind = c.kind
  /\ UNCHANGED <<canonical, calls>>

\* ... or refused before the gateway is called, the target being no address ...
Blocked(k, n, t, kind) ==
  /\ Replay(k, n, t) = {}
  /\ kind = "refused"
  /\ Freeze(k, n, kind, t)
  /\ UNCHANGED calls

\* ... or the gateway is called.  A result is frozen after it was mapped: an
\* exception, also one of the mapping, leaves nothing behind.
Called(k, n, t, kind) ==
  /\ Replay(k, n, t) = {}
  /\ calls' = [calls EXCEPT ![k] = @ \cup {[attempt |-> n, kind |-> kind, at |-> t]}]
  /\ IF kind = "raised" THEN UNCHANGED canonical ELSE Freeze(k, n, kind, t)

\* A new process starts with an empty memory.
Forget == canonical' = {} /\ UNCHANGED calls
=============================================================================
