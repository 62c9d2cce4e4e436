------------------------------ MODULE MCAttach ------------------------------
(* Values of the constants of Attach for the runs.                         *)
EXTENDS Attach

(* Processes whose keys meet in slot 0 of a table of two.                  *)
Two       == {<<2, 0>>, <<4, 2>>}
One       == {<<6, 0>>}
Three     == Two \cup One
Own       == [t \in Threads |-> t]
SeeAll    == [p \in Procs |-> Procs]
MapAll    == [p \in Procs |-> Handles]
BelowAll  == Procs
=============================================================================
