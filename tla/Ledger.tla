------------------------------- MODULE Ledger -------------------------------
(***************************************************************************)
(* What the library promises to processes whose calls do not overlap: a    *)
(* list of allocation sizes per process, of which the first one counts     *)
(* against the limit.  Hijack implements it with the tables of the RNM.    *)
(***************************************************************************)
EXTENDS Integers, Sequences, FiniteSets

CONSTANTS
  Procs,      \* the processes of the host
  Sizes,      \* request sizes
  Limit,      \* GPU_MEM_LIMIT
  Capacity    \* how many records there can be

VARIABLES
  alive,      \* the processes that exist
  book,       \* book[p]: the sizes recorded for p, in the order of its calls
  pending     \* pending[p]: what p has from the driver and not recorded yet

vars == <<alive, book, pending>>

Init ==
  /\ alive = [p \in Procs |-> TRUE]
  /\ book = [p \in Procs |-> <<>>]
  /\ pending = [p \in Procs |-> 0]

(* What counts: the first size of every process that exists.  The sum is    *)
(* the number of those bytes.                                              *)
First(p) == IF alive[p] /\ book[p] # <<>> THEN Head(book[p]) ELSE 0
Usage == Cardinality(UNION {{p} \X (1..First(p)) : p \in Procs})

(* A process that ended inside a call may have taken one record along.     *)
Dead == {p \in Procs : ~alive[p]}
Records == UNION {{p} \X DOMAIN book[p] : p \in Procs}
Full == Cardinality(Records) + Cardinality(Dead) >= Capacity

(* The driver gives b bytes that fit beside what counts.                   *)
Allocate(p, b) ==
  /\ alive[p]
  /\ \A q \in Procs : pending[q] = 0
  /\ Usage + b <= Limit
  /\ pending' = [pending EXCEPT ![p] = b]
  /\ UNCHANGED <<alive, book>>

Record(p) ==
  /\ pending[p] # 0
  /\ book' = [book EXCEPT ![p] = Append(@, pending[p])]
  /\ pending' = [pending EXCEPT ![p] = 0]
  /\ UNCHANGED alive

(* With no room left the allocation lives on unrecorded.                   *)
Lose(p) ==
  /\ pending[p] # 0 /\ Full
  /\ pending' = [pending EXCEPT ![p] = 0]
  /\ UNCHANGED <<alive, book>>

(* The records of a process that ends stay, and count no more.             *)
End(p) ==
  /\ alive[p]
  /\ alive' = [alive EXCEPT ![p] = FALSE]
  /\ pending' = [pending EXCEPT ![p] = 0]
  /\ UNCHANGED book

Next == \E p \in Procs :
  (\E b \in Sizes : Allocate(p, b)) \/ Record(p) \/ Lose(p) \/ End(p)

Spec == Init /\ [][Next]_vars
=============================================================================
