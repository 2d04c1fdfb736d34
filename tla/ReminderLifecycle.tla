------------------------- MODULE ReminderLifecycle -------------------------
(***************************************************************************)
(* The life of one reminder as the requirements tell it: scheduled, then   *)
(* attempted, then delivered or failed; or blocked, suppressed or          *)
(* invalidated instead.  No batch, no process and no snapshot here: each   *)
(* step is atomic and sees the newest state.  An attempt shows the         *)
(* recipient at most one message, and what is finished stays finished.     *)
(* Delivery is shown to implement this module.                             *)
(***************************************************************************)
EXTENDS Naturals

CONSTANTS
  Reminders,    \* reminder ids
  RetryLimit    \* attempts that may fail without the reminder failing

VARIABLES
  status,       \* per reminder
  attempts,     \* per reminder, how many attempts were begun
  shown         \* per reminder, how many messages its recipient got

lifeVars == <<status, attempts, shown>>

Open == {"scheduled", "attempted"}

LifeInit ==
  /\ status = [r \in Reminders |-> "scheduled"]
  /\ attempts = [r \in Reminders |-> 0]
  /\ shown = [r \in Reminders |-> 0]

Become(r, st) ==
  /\ status' = [status EXCEPT ![r] = st]
  /\ UNCHANGED <<attempts, shown>>

Try(r) ==
  /\ status[r] \in Open
  /\ status' = [status EXCEPT ![r] = "attempted"]
  /\ attempts' = [attempts EXCEPT ![r] = @ + 1]
  /\ UNCHANGED shown

Show(r) ==
  /\ status[r] = "attempted"
  /\ shown[r] < attempts[r]
  /\ shown' = [shown EXCEPT ![r] = @ + 1]
  /\ UNCHANGED <<status, attempts>>

Succeed(r) == status[r] = "attempted" /\ shown[r] > 0 /\ Become(r, "delivered")

GiveUp(r) ==
  status[r] = "attempted" /\ attempts[r] > RetryLimit /\ Become(r, "failed")

Reschedule(r) == status[r] = "attempted" /\ Become(r, "scheduled")

Withhold(r) ==
  /\ status[r] \in Open
  /\ \E st \in {"blocked", "suppressed", "invalidated"} : Become(r, st)

LifeNext ==
  \E r \in Reminders :
    Try(r) \/ Show(r) \/ Succeed(r) \/ GiveUp(r) \/ Reschedule(r) \/ Withhold(r)

LifeSpec == LifeInit /\ [][LifeNext]_lifeVars
=============================================================================
