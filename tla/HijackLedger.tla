---------------------------- MODULE HijackLedger ----------------------------
(* The calls of Hijack, one at a time, implement the Ledger.               *)
EXTENDS HijackProps, Sequences

(* s is the way along the links of GMem.next, from the entry of node n to  *)
(* its end.                                                                *)
IsWalk(s, n) ==
  /\ s = <<>> <=> rnode[n].entry = -1
  /\ s # <<>> => s[1] = rnode[n].entry /\ gmem[s[Len(s)]].next = -1
  /\ \A i \in 1..(Len(s) - 1) : gmem[s[i]].next = s[i + 1]
Walks(n) == {s \in UNION {[1..k -> Slots] : k \in 0..NG} : IsWalk(s, n)}

(* The sizes that process p has recorded, in that order.                   *)
Book(p) ==
  LET walks == UNION {Walks(n) : n \in NodesOf(p)}
      walk  == CHOOSE s \in walks : TRUE
  IN  IF walks = {} THEN <<>> ELSE [i \in DOMAIN walk |-> gmem[walk[i]].bytes]

(* What it has from the driver and add_gmem is recording.                  *)
Pending(p) ==
  LET adding == {t \in Threads : Me(t) = p /\ InAddGmem(t)}
  IN  IF adding = {} THEN 0 ELSE arg[CHOOSE t \in adding : TRUE].bytes

L == INSTANCE Ledger WITH
  Capacity <- NG,
  book     <- [p \in Procs |-> Book(p)],
  pending  <- [p \in Procs |-> Pending(p)]

(* Hold workload: every call appends exactly one size to the list of its   *)
(* process or, with all slots taken, none; it touches no other list; and   *)
(* it gets memory only within the limit, beside the first sizes of the     *)
(* others, although check, driver call and record are many separate steps. *)
ImplementsLedger == L!Spec
=============================================================================
