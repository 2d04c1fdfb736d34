----------------------------- MODULE MCDispatch -----------------------------
(***************************************************************************)
(* Instances of Dispatch for TLC.  Both reminders are due at time 1; the   *)
(* second goes to another channel than whatsapp.                           *)
(***************************************************************************)
EXTENDS Dispatch

AllAt1 == [r \in Reminders |-> 1]
New == [status |-> "scheduled", attempts |-> 0, next |-> None]
\* The engine has tried it once and wants it tried again at time 1.
Retried == [status |-> "attempted", attempts |-> 1, next |-> 1]
Fresh == {[r \in Reminders |-> New]}
FreshOrRetried == Fresh \cup {[r \in Reminders |-> IF r = 1 THEN Retried ELSE New]}
=============================================================================
