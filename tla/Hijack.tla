------------------------------- MODULE Hijack -------------------------------
(***************************************************************************)
(* The hijacked driver calls of src/src/hijack_call.c on top of the        *)
(* Resource Node Map: check the usage against GPU_MEM_LIMIT, call the      *)
(* driver, record or forget the allocation.                                *)
(*                                                                         *)
(* Kinds of allocation calls:                                              *)
(*   mem    cuMemAlloc, _v2, cuMemAllocManaged, cuMemAllocPitch_v2         *)
(*   array  cuArrayCreate, cuArray3DCreate, _v2, cuMipmappedArrayCreate    *)
(*   pitch  cuMemAllocPitch, which takes used as 0                         *)
(***************************************************************************)
EXTENDS RNM

CONSTANTS
  Limit,     \* GPU_MEM_LIMIT, the same in every process
  AllocKinds,\* the kinds of allocation calls the applications make
  Stores     \* what an application writes to a variable it has passed before

ASSUME CallAssumption ==
  /\ Limit \in Bytes
  /\ AllocKinds \subseteq {"mem", "array", "pitch"}
  /\ Stores \subseteq Dptrs \cup {NULL}

(* No process has made a call.                                             *)
NoCalls ==
  /\ mem = [p \in Procs |-> [h \in Handles |-> NULL]]
  /\ drv = [p \in Procs |-> [d \in Dptrs |-> 0]]
  /\ pc = [t \in Threads |-> "idle"]
  /\ cnt = [t \in Threads |-> 0]
  /\ cur = [t \in Threads |-> -1]
  /\ prv = [t \in Threads |-> -1]
  /\ acc = [t \in Threads |-> 0]
  /\ node = [t \in Threads |-> -1]
  /\ arg = [t \in Threads |-> NoArg]

(* The initialised segments, every process started and cuInit called.      *)
Init ==
  /\ rnode = [n \in Nodes |-> InitRNode]
  /\ gmem = [g \in Slots |-> InitGMem]
  /\ alive = [p \in Procs |-> TRUE]
  /\ NoCalls

(***************************************************************************)
(* Calls of the application                                                *)
(***************************************************************************)
StartAlloc(t, k, h, b) ==
  /\ pc[t] = "idle"
  /\ h \in Mapped[Me(t)]
  /\ arg' = [arg EXCEPT ![t] = [kind |-> k, hdl |-> h, bytes |-> b, dptr |-> NULL]]
  /\ Goto(t, IF k = "pitch" THEN "check" ELSE "used")
  /\ UNCHANGED <<shm, host, cnt, cur, prv, acc, node>>

StartFree(t, d) ==
  /\ pc[t] = "idle"
  /\ d \in Dptrs \ Arrays /\ drv[Me(t)][d] # 0
  /\ arg' = [arg EXCEPT ![t] = [kind |-> "free", hdl |-> NULL, bytes |-> 0, dptr |-> d]]
  /\ Goto(t, "find")
  /\ UNCHANGED <<shm, host, cnt, cur, prv, acc, node>>

(* cuArrayDestroy and cuMipmappedArrayDestroy only forward to the driver.  *)
ArrayDestroy(t, d) ==
  /\ pc[t] = "idle"
  /\ d \in Arrays /\ drv[Me(t)][d] # 0
  /\ drv' = [drv EXCEPT ![Me(t)][d] = 0]
  /\ UNCHANGED <<shm, alive, mem, pc, regs>>

(* The application reuses the variable of an earlier allocation.           *)
Overwrite(t, h, v) ==
  LET p == Me(t) IN
  /\ pc[t] = "idle"
  /\ h \in Mapped[p] /\ mem[p][h] # v
  /\ \A u \in Threads : Me(u) = p => arg[u].hdl # h
  /\ mem' = [mem EXCEPT ![p][h] = v]
  /\ UNCHANGED <<shm, alive, drv, pc, regs>>

(***************************************************************************)
(* The part of a call outside the RNM                                      *)
(***************************************************************************)
ExceedsM(t) == arg[t].bytes > Limit
Exceeds(t)  == (acc[t] + arg[t].bytes) % SizeMod > Limit

CheckLimit(t) ==
  /\ pc[t] = "check"
  /\ \/ /\ Exceeds(t)
        /\ Return(t)
     \/ /\ ~Exceeds(t)
        /\ Goto(t, "driver")
        /\ UNCHANGED regs
  /\ UNCHANGED <<shm, host>>

DriverAlloc(t, d) ==
  LET p == Me(t) IN
  /\ pc[t] = "driver"
  /\ d \in (IF arg[t].kind = "array" THEN Arrays ELSE Dptrs \ Arrays)
  /\ drv[p][d] = 0
  /\ drv' = [drv EXCEPT ![p][d] = arg[t].bytes]
  /\ mem' = [mem EXCEPT ![p][arg[t].hdl] = d]
  /\ arg' = [arg EXCEPT ![t].dptr = d]
  /\ Begin(t, "find")
  /\ UNCHANGED <<shm, alive, cur, prv, acc, node>>

DriverAllocFails(t) ==
  /\ pc[t] = "driver"
  /\ Return(t)
  /\ UNCHANGED <<shm, host>>

(* cuMemFree calls the driver after the record is gone.                    *)
DriverFree(t) ==
  /\ pc[t] = "release"
  /\ drv' = [drv EXCEPT ![Me(t)][arg[t].dptr] = 0]
  /\ Return(t)
  /\ UNCHANGED <<shm, alive, mem>>

DriverFreeFails(t) ==
  /\ pc[t] = "release"
  /\ Return(t)
  /\ UNCHANGED <<shm, host>>

(***************************************************************************)
(* A process ends: the driver frees its memory, the segments keep its node *)
(* and its records.                                                        *)
(***************************************************************************)
Die(p) ==
  /\ alive[p]
  /\ alive' = [alive EXCEPT ![p] = FALSE]
  /\ drv' = [drv EXCEPT ![p] = [d \in Dptrs |-> 0]]
  /\ mem' = [mem EXCEPT ![p] = [h \in Handles |-> NULL]]
  /\ pc' = [t \in Threads |-> IF Me(t) = p THEN "dead" ELSE pc[t]]
  /\ DropRegs({t \in Threads : Me(t) = p})
  /\ UNCHANGED shm

Segfault(t) == Faults(t) /\ Die(Me(t))

(***************************************************************************)
(* Specification                                                           *)
(***************************************************************************)
InCode(t) ==
  \/ UsedNode(t) \/ UsedSum(t)
  \/ FindRnode(t) \/ InsertProbe(t) \/ InsertAssign(t) \/ ReadEntry(t)
  \/ FindGmem(t) \/ ResetRecord(t) \/ PushProbe(t) \/ PushClaim(t)
  \/ LinkEntry(t) \/ SetEntry(t) \/ LastRec(t) \/ LinkTail(t)
  \/ RemoveVisit(t) \/ RemoveBypass(t) \/ RemoveDelete(t)
  \/ CheckLimit(t) \/ (\E d \in Dptrs : DriverAlloc(t, d)) \/ DriverAllocFails(t)
  \/ DriverFree(t) \/ DriverFreeFails(t)
  \/ Segfault(t)

Next ==
  \/ \E t \in Threads : InCode(t)
  \/ \E t \in Threads, k \in AllocKinds, h \in Handles, b \in Sizes : StartAlloc(t, k, h, b)
  \/ \E t \in Threads, d \in Dptrs : StartFree(t, d) \/ ArrayDestroy(t, d)
  \/ \E t \in Threads, h \in Handles, v \in Stores : Overwrite(t, h, v)
  \/ \E p \in Procs : Die(p)

Spec == Init /\ [][Next]_vars

(***************************************************************************)
(* Workloads: restrictions on what the applications do, not on the code.   *)
(*                                                                         *)
(* Keep     an allocation keeps a variable of its own while it lives, and  *)
(*          it lives until the process ends                                *)
(* Hold     the same, and no two calls overlap                             *)
(* Careful  Hold with frees, in any order                                  *)
(* Apart    Keep with two calls at a time that overlap anywhere but inside *)
(*          add_gmem                                                       *)
(***************************************************************************)
Live(p)     == {d \in Dptrs : drv[p][d] # 0}
Fresh(p, h) == mem[p][h] \notin Live(p)

Active == {t \in Threads : pc[t] \notin {"idle", "dead"}}
Serial == \A t, u \in Active : t = u

Keep(t) ==
  \/ InCode(t)
  \/ \E k \in AllocKinds, h \in Handles, b \in Sizes :
       Fresh(Me(t), h) /\ StartAlloc(t, k, h, b)

KeepNext == (\E t \in Threads : Keep(t)) \/ (\E p \in Procs : Die(p))

(* The driver has answered, add_gmem has not returned.                     *)
Recording == {"find", "insert", "assign", "entry", "search", "reset", "push",
              "claim", "link", "adopt", "tail", "append"}
InAddGmem(t) == pc[t] \in Recording /\ arg[t].kind # "free"

AtMost(k, S) == Cardinality(S) <= k

HoldNext    == KeepNext /\ Serial'
ApartNext   ==
  KeepNext /\ AtMost(2, Active)' /\ AtMost(1, {t \in Threads : InAddGmem(t)})'
CarefulNext ==
  (KeepNext \/ \E t \in Threads, d \in Dptrs : StartFree(t, d)) /\ Serial'

(* Every runnable thread is scheduled: there is nothing to block on.       *)
Fairness == \A t \in Threads : WF_vars(InCode(t))

KeepSpec    == Init /\ [][KeepNext]_vars
HoldSpec    == Init /\ [][HoldNext]_vars
CarefulSpec == Init /\ [][CarefulNext]_vars
ApartSpec   == Init /\ [][ApartNext]_vars
FairHold    == HoldSpec /\ Fairness
FairCareful == CarefulSpec /\ Fairness
=============================================================================
