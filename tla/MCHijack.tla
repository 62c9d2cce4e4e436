------------------------------ MODULE MCHijack ------------------------------
(* Values of the constants of Hijack for the runs.                         *)
EXTENDS HijackLedger

(* Three processes whose keys meet in the same slot of a table of two.     *)
Collide3  == {<<1, 0>>, <<2, 0>>, <<3, 2>>}
Collide2  == {<<1, 0>>, <<2, 0>>}
One       == {<<1, 2>>}
(* Its node is 2: gmem_used ends while records 0, 1 and 2 are chained in    *)
(* this order.                                                             *)
Last      == {<<1, 1>>}
Own       == [t \in Threads |-> t]
TwoThreads == {"t1", "t2"}
OneOwner  == [t \in TwoThreads |-> <<1, 2>>]
SeeAll    == [p \in Procs |-> Procs]
MapAll    == [p \in Procs |-> Handles]
MapOwn    == [p \in Procs |-> IF p = <<1, 0>> THEN {1} ELSE {2}]
BelowAll  == Procs
=============================================================================
