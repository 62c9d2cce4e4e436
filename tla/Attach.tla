------------------------------- MODULE Attach -------------------------------
(***************************************************************************)
(* RNM::init of src/src/resource.cxx under the calls of Hijack.            *)
(*                                                                         *)
(* The constructor of the static RNM runs when a process loads the         *)
(* library, before main: shmget with IPC_EXCL decides who creates a        *)
(* segment, the creator initialises it slot by slot, and everybody else    *)
(* attaches it at once, without waiting for the creator.  A segment that   *)
(* has just been created holds zeros.                                      *)
(***************************************************************************)
EXTENDS HijackProps

CONSTANT
  Starved   \* the processes that the kernel may refuse a segment

ASSUME AttachAssumption == Starved \subseteq Procs

VARIABLES
  made,   \* the segments that exist
  boot,   \* where the constructor of each process is
  slot,   \* its loop counter i
  base    \* base[p]: the segments that p has attached

segs == <<made, boot, slot, base>>
allvars == <<vars, segs>>

Segments   == {"rnode", "gmem"}
BootLabels == {"get_rnode", "wipe_rnode", "get_gmem", "wipe_gmem", "ready"}

ZeroRNode == [key |-> <<0, 0>>, entry |-> 0, stat |-> "NONEXIST"]
ZeroGMem  == [ptr |-> NULL, bytes |-> 0, next |-> 0]

AttachInit ==
  /\ made = {}
  /\ boot = [p \in Procs |-> "get_rnode"]
  /\ slot = [p \in Procs |-> 0]
  /\ base = [p \in Procs |-> {}]
  /\ rnode = [n \in Nodes |-> ZeroRNode]
  /\ gmem = [g \in Slots |-> ZeroGMem]
  /\ alive = [p \in Procs |-> TRUE]
  /\ NoCalls

(***************************************************************************)
(* The constructor                                                         *)
(***************************************************************************)
BootTo(p, label) == boot' = [boot EXCEPT ![p] = label]

(* init_rnode and init_gmem return true, "created", whenever the first     *)
(* shmget fails: the segment is there, or the kernel is short of memory or *)
(* of ids.  The second shmget then attaches the segment, makes it after    *)
(* all, or fails as well and shmat leaves the address -1 as the table.     *)
CreatesM(s) == TRUE
Creates(s)  == s \notin made

Attaching(p, s) ==
  /\ made' = made \cup {s}
  /\ base' = [base EXCEPT ![p] = @ \cup {s}]

Get(p, s, wipe, next) ==
  \/ Attaching(p, s) /\ BootTo(p, IF Creates(s) THEN wipe ELSE next)
  \/ p \in Starved /\ Creates(s) /\ Attaching(p, s) /\ BootTo(p, next)
  \/ p \in Starved /\ BootTo(p, next) /\ UNCHANGED <<made, base>>

GetRnodeM(p) ==
  /\ alive[p] /\ boot[p] = "get_rnode"
  /\ \A q \in Procs : boot[q] # "wipe_rnode"
  /\ Get(p, "rnode", "wipe_rnode", "get_gmem")
  /\ UNCHANGED <<vars, slot>>

GetRnode(p) ==
  /\ alive[p] /\ boot[p] = "get_rnode"
  /\ Get(p, "rnode", "wipe_rnode", "get_gmem")
  /\ UNCHANGED <<vars, slot>>

WipeRnode(p) ==
  /\ alive[p] /\ boot[p] = "wipe_rnode"
  /\ IF slot[p] < NR
     THEN /\ rnode' = [rnode EXCEPT ![slot[p]] = InitRNode]
          /\ slot' = [slot EXCEPT ![p] = @ + 1]
          /\ UNCHANGED boot
     ELSE /\ BootTo(p, "get_gmem")
          /\ slot' = [slot EXCEPT ![p] = 0]
          /\ UNCHANGED rnode
  /\ UNCHANGED <<gmem, host, pc, regs, made, base>>

GetGmem(p) ==
  /\ alive[p] /\ boot[p] = "get_gmem"
  /\ Get(p, "gmem", "wipe_gmem", "ready")
  /\ UNCHANGED <<vars, slot>>

WipeGmem(p) ==
  /\ alive[p] /\ boot[p] = "wipe_gmem"
  /\ IF slot[p] < NG
     THEN /\ gmem' = [gmem EXCEPT ![slot[p]] = InitGMem]
          /\ slot' = [slot EXCEPT ![p] = @ + 1]
          /\ UNCHANGED boot
     ELSE /\ BootTo(p, "ready")
          /\ slot' = [slot EXCEPT ![p] = 0]
          /\ UNCHANGED gmem
  /\ UNCHANGED <<rnode, host, pc, regs, made, base>>

Boot(p) == GetRnode(p) \/ WipeRnode(p) \/ GetGmem(p) \/ WipeGmem(p)

(***************************************************************************)
(* Calls on what is attached                                               *)
(***************************************************************************)
(* The table that the next step of thread t reads or writes.               *)
Table(t) ==
  CASE pc[t] \in {"used", "find", "insert", "assign", "entry", "link", "adopt"} -> {"rnode"}
    [] pc[t] \in {"sum", "search", "reset", "push", "claim", "tail", "append"}  -> {"gmem"}
    [] OTHER -> {}
Attached(t) == Table(t) \subseteq base[Me(t)]

(* A call through the address -1.                                          *)
BadTable(t) == ~Attached(t) /\ pc[t] \notin {"idle", "dead"} /\ Die(Me(t))

(***************************************************************************)
(* Specifications                                                          *)
(*                                                                         *)
(* Eager    a process calls as soon as its constructor is done             *)
(* Patient  no call starts before both segments exist and every living     *)
(*          creator is done, as when a host runs one process first         *)
(***************************************************************************)
Wiping(p) == alive[p] /\ boot[p] \in {"wipe_rnode", "wipe_gmem"}
Wiped     == made = Segments /\ \A p \in Procs : ~Wiping(p)

EagerNext ==
  \/ \E p \in Procs : Boot(p)
  \/ \E t \in Threads :
       boot[Me(t)] = "ready" /\ Attached(t) /\ Keep(t) /\ UNCHANGED segs
  \/ \E t \in Threads : BadTable(t) /\ UNCHANGED segs
  \/ \E p \in Procs : Die(p) /\ UNCHANGED segs

CallsStart == \E t \in Threads : pc[t] = "idle" /\ pc'[t] \notin {"idle", "dead"}
PatientNext == EagerNext /\ (CallsStart => Wiped)

(* A constructor runs to its end: it waits for nobody.                     *)
BootFairness == \A p \in Procs : WF_allvars(Boot(p))

EagerSpec   == AttachInit /\ [][EagerNext]_allvars
PatientSpec == AttachInit /\ [][PatientNext]_allvars /\ BootFairness

(***************************************************************************)
(* Properties                                                              *)
(***************************************************************************)
(* Patient, cuMemAllocPitch only: the segments that the calls work on are  *)
(* as good as the initialised ones of Hijack.  Attaching while others call *)
(* disturbs nothing, since only one process ever wipes a segment; slots    *)
(* that nobody wiped, because the creator ended or its first shmget failed,*)
(* behave as empty; and without a segment a process ends in its first call.*)
H == INSTANCE Hijack WITH
  rnode <- [n \in Nodes |-> IF ~Wiped \/ rnode[n] = ZeroRNode THEN InitRNode ELSE rnode[n]],
  gmem  <- [g \in Slots |-> IF ~Wiped \/ gmem[g] = ZeroGMem THEN InitGMem ELSE gmem[g]]
ImplementsHijack == H!KeepSpec

(* Every process gets through its constructor, or ends: the IPC_EXCL       *)
(* protocol waits for nobody, a creator that died included.                *)
Attaches == \A p \in Procs : []<>(boot[p] = "ready" \/ ~alive[p])

(* resource.cxx:171, "not found": find_rnode gives nullptr when the table  *)
(* has no node with the key.                                               *)
NotFoundMeansAbsent ==
  \A t \in Threads : pc[t] = "find" /\ ProbeEnds(t) => Absent(t)
=============================================================================
