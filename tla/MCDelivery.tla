----------------------------- MODULE MCDelivery -----------------------------
(***************************************************************************)
(* Instances of Delivery for TLC.  Reminder 1 is due at time 1, reminder 2 *)
(* at time 2; the clock reaches far enough for every retry of both.        *)
(***************************************************************************)
EXTENDS Delivery, TLC

CONSTANTS p1, p2, ann, bob

One == {1}
Two == {1, 2}
MCTrigger == [r \in Reminders |-> r]
ToAnn == [r \in Reminders |-> ann]
ToEach == [r \in Reminders |-> IF r = 1 THEN ann ELSE bob]
Awake == [person \in People |-> {}]
QuietAt3 == [person \in People |-> {3}]

\* A provider that tells what it did, and one that may report a failure after
\* the message went out.
Honest == {[ok |-> TRUE, shown |-> TRUE], [ok |-> FALSE, shown |-> FALSE]}
Lossy == Honest \cup {[ok |-> FALSE, shown |-> TRUE]}

Symmetry == Permutations(Procs)
=============================================================================
