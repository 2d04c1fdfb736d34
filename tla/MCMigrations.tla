---------------------------- MODULE MCMigrations ----------------------------
(***************************************************************************)
(* Migrations for TLC: the installed release (p1), the next one, whose     *)
(* directory has one more file (p2), and a copy of the installed one in    *)
(* which an old file was edited (p3).                                      *)
(***************************************************************************)
EXTENDS Migrations

CONSTANTS p1, p2, p3

MCProcs == {p1, p2, p3}
MCStatements == [m \in 1..3 |-> IF m = 2 THEN 2 ELSE 1]
MCKnown == [p \in MCProcs |-> IF p = p2 THEN 1..3 ELSE 1..2]
MCChecksum == [p \in MCProcs |-> [m \in 1..3 |->
                 IF p = p3 /\ m = 2 THEN "edited" ELSE "text"]]
=============================================================================
