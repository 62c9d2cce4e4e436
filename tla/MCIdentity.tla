----------------------------- MODULE MCIdentity -----------------------------
(* Values of the constants of Identity for the runs.                       *)
EXTENDS Identity

TwoPids == {1, 2}
TwoName == [p \in Pids |-> IF p = 1 THEN {0, 2} ELSE {0}]
=============================================================================
