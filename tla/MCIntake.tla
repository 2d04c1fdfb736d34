------------------------------ MODULE MCIntake ------------------------------
(***************************************************************************)
(* Instances of Intake for TLC.  Slot 1 triggers at time 1, slot 2 at time *)
(* 2: with the clock running from 0 to 2 a reminder can be in the future,  *)
(* due now and overdue when its event changes.                             *)
(***************************************************************************)
EXTENDS Intake, TLC

CONSTANTS m1, m2, m3, w1, w2

MCSlots == {1, 2}
MCTrigger == [s \in MCSlots |-> s]
OneRecipient == {1}

\* A confirmed, complete and valid intent; the instances change it from there.
Wish(action, slot, audience, event) ==
  [action |-> action, slot |-> slot, audience |-> audience, event |-> event,
   confirmed |-> TRUE, complete |-> TRUE, dest_ok |-> TRUE]

CreateA == Wish("create", 1, {1}, NoEvent)
RetargetFirst == Wish("update", 2, {}, 1)
CancelA == Wish("cancel", 1, {}, NoEvent)
CancelFirst == Wish("cancel", 2, {}, 1)

Unconfirmed == [CreateA EXCEPT !.confirmed = FALSE]
Incomplete == [CreateA EXCEPT !.complete = FALSE]
BadTarget == [CreateA EXCEPT !.dest_ok = FALSE]

\* One process, three messages: an event made, moved, cancelled, revived and
\* named again, with and without a confirmation.
AloneIntents == {CreateA, RetargetFirst, CancelA, Unconfirmed}

\* Several processes: what can collide, and what is refused on the way.
RaceIntents ==
  {CreateA, RetargetFirst, CancelFirst, Unconfirmed, Incomplete, BadTarget}

\* Two messages with the same words.
Twins == {CreateA}

Symmetry == Permutations(Messages)
=============================================================================
