------------------------------- MODULE MCHold -------------------------------
(* The run hold: the values of MCHijack, with the history of HijackScan.   *)
EXTENDS MCHijack, HijackScan
=============================================================================
