------------------------------ MODULE MCRunner ------------------------------
(***************************************************************************)
(* Runner for TLC: one compatibility daemon and one tickerd daemon on the  *)
(* same files, started with a good environment or with one that fails at a *)
(* startup check.                                                          *)
(***************************************************************************)
EXTENDS Runner

Good == [db |-> TRUE, tick |-> 1000, fatal |-> 2, grace |-> 3000, window |-> 120,
         contract |-> TRUE]

\* What can be wrong with an environment: nothing, a path that is missing, a tick
\* that only the second validation refuses, another release's contract.
MCConfigs == {Good, [Good EXCEPT !.db = FALSE], [Good EXCEPT !.tick = 500],
              [Good EXCEPT !.contract = FALSE]}
=============================================================================
