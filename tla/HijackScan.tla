----------------------------- MODULE HijackScan -----------------------------
(***************************************************************************)
(* What a scan of gmem_used has to show for: the calls of Hijack, one at a *)
(* time, with a history variable for the usage when each call began.       *)
(***************************************************************************)
EXTENDS HijackLedger

VARIABLE began   \* history: began[t], the sum of the first records of the
                 \* processes that existed when the call of t began to sum

Sums(t) == pc[t] \in {"used", "sum", "check"}

Note ==
  began' = [t \in Threads |->
    IF ~Sums(t)' THEN 0 ELSE IF Sums(t) THEN began[t] ELSE HeadSum(LiveNodes)]

ScanInit == Init /\ began = [t \in Threads |-> 0]
ScanNext == HoldNext /\ Note
ScanSpec == ScanInit /\ [][ScanNext]_<<vars, began>>
FairScan == ScanSpec /\ Fairness

(* used, when the limit is checked, counts the first record of every       *)
(* process that exists, and of none that had ended before the scan began:  *)
(* only a process that ends while gmem_used goes over the nodes may be in  *)
(* it or not, whatever its node and whatever the nodes of the dead.        *)
UsedIsHeads ==
  \A t \in Threads : pc[t] = "check" =>
    HeadSum(LiveNodes) <= acc[t] /\ acc[t] <= began[t]
=============================================================================
