-------------------------------- MODULE RNM --------------------------------
(***************************************************************************)
(* The Resource Node Map of src/src/resource.cxx: two System V shared      *)
(* memory segments that every process of a host attaches.                  *)
(*                                                                         *)
(*   rnode  an open-addressing hash table, one RNode per process, keyed by *)
(*          (pid, start time); RNode.entry is the index of the first       *)
(*          allocation record of the process.                              *)
(*   gmem   an array of allocation records (GMem) that the processes claim *)
(*          first-fit and chain through GMem.next.                         *)
(*                                                                         *)
(* There is no lock anywhere in the code.  One action here is one visit of *)
(* one table slot: one iteration of a loop, or one setter of RNode or GMem.*)
(* A thread keeps the locals of the C++ function it runs in the variables  *)
(* cnt, cur, prv, acc and node, and its place in the code in pc.           *)
(***************************************************************************)
EXTENDS Integers, FiniteSets

CONSTANTS
  Threads,    \* threads that call the hijacked driver API
  Procs,      \* processes, each the pair <<pid, start time>> of its key
  ProcOf,     \* the process of a thread
  Signals,    \* Signals[p]: the processes that p is permitted to kill(pid, 0)
  NR,         \* len_rnode, the length of the hash table
  NG,         \* len_gmem, the length of the record array
  Handles,    \* addresses of the caller's CUdeviceptr / CUarray variables
  Mapped,     \* Mapped[p]: the addresses of Handles that are mapped in p
  ZeroBelow,  \* processes that read zeros in front of the gmem segment
  Dptrs,      \* device pointers and array handles the driver hands out
  Arrays,     \* those of Dptrs that are CUarray or CUmipmappedArray handles
  Sizes,      \* request sizes in bytes
  SizeMod,    \* size_t arithmetic is modulo SizeMod
  NULL        \* the null pointer

ASSUME ThreadAssumption ==
  /\ Procs \subseteq Nat \X Nat
  /\ ProcOf \in [Threads -> Procs]
  /\ Signals \in [Procs -> SUBSET Procs]

ASSUME TableAssumption == NR \in Nat \ {0} /\ NG \in Nat /\ NR <= NG

ASSUME DataAssumption ==
  /\ NULL \notin Handles /\ NULL \notin Dptrs
  /\ Mapped \in [Procs -> SUBSET Handles]
  /\ ZeroBelow \subseteq Procs
  /\ Arrays \subseteq Dptrs
  /\ SizeMod \in Nat \ {0} /\ Sizes \subseteq 1..(SizeMod - 1)

Nodes == 0..(NR - 1)
Slots == 0..(NG - 1)
Bytes == 0..(SizeMod - 1)

VARIABLES
  rnode, gmem,   \* the two shared segments
  alive,         \* kill(pid, 0) and /proc/pid/stat confirm the process
  mem,           \* mem[p][h]: what the variable at address h of p holds
  drv,           \* drv[p][d]: bytes the driver holds for p at d, 0 if none
  pc,            \* where each thread is
  cnt,           \* the loop counter i of a table scan
  cur,           \* g_idx: the record in hand
  prv,           \* prev_idx, or the record last_rec looks at
  acc,           \* used
  node,          \* RNode*, as an index; -1 is nullptr
  arg            \* the arguments of the call

shm  == <<rnode, gmem>>
host == <<alive, mem, drv>>
regs == <<cnt, cur, prv, acc, node, arg>>
vars == <<shm, host, pc, regs>>

(***************************************************************************)
(* RNode and GMem values                                                   *)
(***************************************************************************)
Statuses == {"NONEXIST", "DELETED", "EXIST"}
NoKey    == <<-1, 0>>
RNodes   == [key : Procs \cup {NoKey}, entry : -1..(NG - 1), stat : Statuses]
GMems    == [ptr : Handles \cup {NULL}, bytes : Bytes, next : -1..(NG - 1)]

InitRNode == [key |-> NoKey, entry |-> -1, stat |-> "NONEXIST"]
InitGMem  == [ptr |-> NULL, bytes |-> 0, next |-> -1]

Empty(c)   == c.ptr = NULL
IsTailM(c) == c.ptr = NULL /\ c.next = -1
IsTail(c)  == c.ptr # NULL /\ c.next = -1

(* What a process finds at ptr_gmem[g].  The code also reads index -1, the *)
(* bytes in front of the segment: unmapped, or the zeros of another        *)
(* mapping, where next reads as 0.                                         *)
Cell(g) == IF g = -1 THEN [ptr |-> NULL, bytes |-> 0, next |-> 0] ELSE gmem[g]

(* *static_cast<T*>(ptr), read in the address space of process p.          *)
Deref(p, c) == mem[p][c.ptr]

(* The slot of the i-th probe for key k: pre_hash is (pid << 6) + stime.   *)
HashM(k, i) == (k[1] * 64 + k[2] + 2 * i) % NR
Hash(k, i)  == (k[1] * 64 + k[2] + i) % NR

SameKeyM(n, k) == rnode[n].key[1] = k[2]
SameKey(n, k)  == rnode[n].key = k

AvailableM(n) == rnode[n].stat # "DELETED"
Available(n)  == rnode[n].stat \in {"NONEXIST", "DELETED"}

(* RNode::process_exist, asked by process p.                               *)
ProcessExistM(p, k) == k \in Signals[p]
ProcessExist(p, k) == k \in Signals[p] /\ alive[k]

(***************************************************************************)
(* Thread locals                                                           *)
(***************************************************************************)
Kinds == {"mem", "array", "pitch", "free"}
Args  == [kind : Kinds, hdl : Handles \cup {NULL}, bytes : Bytes,
          dptr : Dptrs \cup {NULL}]
NoArg == [kind |-> "free", hdl |-> NULL, bytes |-> 0, dptr |-> NULL]

Me(t) == ProcOf[t]
Goto(t, label) == pc' = [pc EXCEPT ![t] = label]

(* The call of thread t goes on at label with its loop counter at 0.       *)
Begin(t, label) == Goto(t, label) /\ cnt' = [cnt EXCEPT ![t] = 0]

(* Locals end with the call.                                               *)
DropRegs(T) ==
  /\ cnt'  = [t \in Threads |-> IF t \in T THEN 0 ELSE cnt[t]]
  /\ cur'  = [t \in Threads |-> IF t \in T THEN -1 ELSE cur[t]]
  /\ prv'  = [t \in Threads |-> IF t \in T THEN -1 ELSE prv[t]]
  /\ acc'  = [t \in Threads |-> IF t \in T THEN 0 ELSE acc[t]]
  /\ node' = [t \in Threads |-> IF t \in T THEN -1 ELSE node[t]]
  /\ arg'  = [t \in Threads |-> IF t \in T THEN NoArg ELSE arg[t]]

Return(t) == Goto(t, "idle") /\ DropRegs({t})

(***************************************************************************)
(* gmem_used: for every EXIST node of an existing process, sum the bytes   *)
(* from its entry on.  The inner loop steps to ptr_gmem[i].next, with i    *)
(* the index of the node and not of the record.                            *)
(***************************************************************************)
Counted(t, n) == rnode[n].stat = "EXIST" /\ ProcessExist(Me(t), rnode[n].key)

UsedNode(t) ==
  /\ pc[t] = "used"
  /\ \/ /\ cnt[t] = NR
        /\ Goto(t, "check")
        /\ UNCHANGED <<cnt, cur>>
     \/ /\ cnt[t] < NR
        /\ Counted(t, cnt[t]) /\ rnode[cnt[t]].entry > -1
        /\ Goto(t, "sum")
        /\ cur' = [cur EXCEPT ![t] = rnode[cnt[t]].entry]
        /\ UNCHANGED cnt
     \/ /\ cnt[t] < NR
        /\ ~(Counted(t, cnt[t]) /\ rnode[cnt[t]].entry > -1)
        /\ cnt' = [cnt EXCEPT ![t] = @ + 1]
        /\ UNCHANGED <<pc, cur>>
  /\ UNCHANGED <<shm, host, prv, acc, node, arg>>

UsedSum(t) ==
  LET next == gmem[cnt[t]].next IN
  /\ pc[t] = "sum"
  /\ acc' = [acc EXCEPT ![t] = (@ + gmem[cur[t]].bytes) % SizeMod]
  /\ IF next > -1
     THEN cur' = [cur EXCEPT ![t] = next] /\ UNCHANGED <<pc, cnt>>
     ELSE /\ Goto(t, "used")
          /\ cnt' = [cnt EXCEPT ![t] = @ + 1]
          /\ cur' = [cur EXCEPT ![t] = -1]
  /\ UNCHANGED <<shm, host, prv, node, arg>>

(***************************************************************************)
(* find_rnode: add_gmem goes on to insert_rnode when the key is absent,    *)
(* remove_gmem returns.                                                    *)
(***************************************************************************)
ProbeEnds(t) == cnt[t] = NR \/ rnode[Hash(Me(t), cnt[t])].stat = "NONEXIST"
ProbeHits(t) ==
  LET n == Hash(Me(t), cnt[t]) IN rnode[n].stat = "EXIST" /\ SameKey(n, Me(t))

FindRnode(t) ==
  /\ pc[t] = "find"
  /\ \/ /\ ProbeEnds(t)
        /\ Begin(t, IF arg[t].kind = "free" THEN "release" ELSE "insert")
        /\ UNCHANGED node
     \/ /\ ~ProbeEnds(t) /\ ProbeHits(t)
        /\ Begin(t, "entry")
        /\ node' = [node EXCEPT ![t] = Hash(Me(t), cnt[t])]
     \/ /\ ~ProbeEnds(t) /\ ~ProbeHits(t)
        /\ cnt' = [cnt EXCEPT ![t] = @ + 1]
        /\ UNCHANGED <<pc, node>>
  /\ UNCHANGED <<shm, host, cur, prv, acc, arg>>

(***************************************************************************)
(* insert_rnode: the first slot that is not EXIST, or EXIST with this key, *)
(* is overwritten; nullptr when there is none.                             *)
(***************************************************************************)
Usable(t) ==
  LET n == Hash(Me(t), cnt[t]) IN Available(n) \/ SameKey(n, Me(t))

InsertProbe(t) ==
  /\ pc[t] = "insert"
  /\ \/ /\ cnt[t] = NR
        /\ Goto(t, "entry")
        /\ UNCHANGED cnt
     \/ /\ cnt[t] < NR /\ Usable(t)
        /\ Goto(t, "assign")
        /\ UNCHANGED cnt
     \/ /\ cnt[t] < NR /\ ~Usable(t)
        /\ cnt' = [cnt EXCEPT ![t] = @ + 1]
        /\ UNCHANGED pc
  /\ UNCHANGED <<shm, host, cur, prv, acc, node, arg>>

InsertAssign(t) ==
  LET n == Hash(Me(t), cnt[t]) IN
  /\ pc[t] = "assign"
  /\ rnode' = [rnode EXCEPT ![n] = [key |-> Me(t), entry |-> -1, stat |-> "EXIST"]]
  /\ node' = [node EXCEPT ![t] = n]
  /\ Begin(t, "entry")
  /\ UNCHANGED <<gmem, host, cur, prv, acc, arg>>

(* The caller reads res_entry_idx of the node; through nullptr it faults.  *)
ReadEntry(t) ==
  /\ pc[t] = "entry" /\ node[t] # -1
  /\ cur' = [cur EXCEPT ![t] = rnode[node[t]].entry]
  /\ Begin(t, IF arg[t].kind = "free" THEN "remove" ELSE "search")
  /\ UNCHANGED <<shm, host, prv, acc, node, arg>>

(***************************************************************************)
(* find_gmem and the branches of add_gmem that follow it.                  *)
(***************************************************************************)
Holds(t, c) == Deref(Me(t), c) = arg[t].dptr

FindGmem(t) ==
  LET c == Cell(cur[t]) IN
  /\ pc[t] = "search"
  /\ cur[t] = -1 => Me(t) \in ZeroBelow
  /\ \/ /\ Empty(c)
        /\ Begin(t, "push")
        /\ UNCHANGED cur
     \/ /\ c.ptr \in Mapped[Me(t)] /\ Holds(t, c)
        /\ Goto(t, "reset")
        /\ UNCHANGED <<cnt, cur>>
     \/ /\ c.ptr \in Mapped[Me(t)] /\ ~Holds(t, c)
        /\ cur' = [cur EXCEPT ![t] = c.next]
        /\ UNCHANGED <<pc, cnt>>
  /\ UNCHANGED <<shm, host, prv, acc, node, arg>>

ResetRecordM(t) ==
  /\ pc[t] = "reset"
  /\ gmem' = [gmem EXCEPT ![cur[t]].ptr = arg[t].hdl, ![cur[t]].bytes = @ + arg[t].bytes]
  /\ Goto(t, "link")
  /\ UNCHANGED <<rnode, host, regs>>

ResetRecord(t) ==
  /\ pc[t] = "reset"
  /\ gmem' = [gmem EXCEPT ![cur[t]].ptr = arg[t].hdl, ![cur[t]].bytes = arg[t].bytes]
  /\ Goto(t, "link")
  /\ UNCHANGED <<rnode, host, regs>>

(* push_gmem: first fit; -1 when every slot it looked at was taken.        *)
PushAnyM(t) ==
  /\ pc[t] = "push"
  /\ Goto(t, "claim")
  /\ UNCHANGED <<shm, host, regs>>

PushProbe(t) ==
  /\ pc[t] = "push"
  /\ \/ /\ cnt[t] = NG
        /\ Goto(t, "link")
        /\ cur' = [cur EXCEPT ![t] = -1]
        /\ UNCHANGED cnt
     \/ /\ cnt[t] < NG /\ Empty(gmem[cnt[t]])
        /\ Goto(t, "claim")
        /\ UNCHANGED <<cnt, cur>>
     \/ /\ cnt[t] < NG /\ ~Empty(gmem[cnt[t]])
        /\ cnt' = [cnt EXCEPT ![t] = @ + 1]
        /\ UNCHANGED <<pc, cur>>
  /\ UNCHANGED <<shm, host, prv, acc, node, arg>>

PushClaim(t) ==
  /\ pc[t] = "claim"
  /\ gmem' = [gmem EXCEPT ![cnt[t]] =
               [ptr |-> arg[t].hdl, bytes |-> arg[t].bytes, next |-> -1]]
  /\ cur' = [cur EXCEPT ![t] = cnt[t]]
  /\ Begin(t, "link")
  /\ UNCHANGED <<rnode, host, prv, acc, node, arg>>

(***************************************************************************)
(* link_rnode_gmem and last_rec.                                           *)
(***************************************************************************)
LinkEntryM(t) ==
  /\ pc[t] = "link"
  /\ Goto(t, "adopt")
  /\ UNCHANGED <<shm, host, regs>>

LinkEntry(t) ==
  /\ pc[t] = "link"
  /\ IF rnode[node[t]].entry = -1
     THEN Goto(t, "adopt") /\ UNCHANGED prv
     ELSE Goto(t, "tail") /\ prv' = [prv EXCEPT ![t] = rnode[node[t]].entry]
  /\ UNCHANGED <<shm, host, cnt, cur, acc, node, arg>>

SetEntry(t) ==
  /\ pc[t] = "adopt"
  /\ rnode' = [rnode EXCEPT ![node[t]].entry = cur[t]]
  /\ Return(t)
  /\ UNCHANGED <<gmem, host>>

LastRec(t) ==
  LET c == Cell(prv[t]) IN
  /\ pc[t] = "tail"
  /\ prv[t] = -1 => Me(t) \in ZeroBelow
  /\ \/ /\ IsTail(c) /\ prv[t] # cur[t]
        /\ Goto(t, "append")
        /\ UNCHANGED regs
     \/ /\ IsTail(c) /\ prv[t] = cur[t]
        /\ Return(t)
     \/ /\ ~IsTail(c)
        /\ prv' = [prv EXCEPT ![t] = c.next]
        /\ UNCHANGED <<pc, cnt, cur, acc, node, arg>>
  /\ UNCHANGED <<shm, host>>

LinkTail(t) ==
  /\ pc[t] = "append"
  /\ gmem' = [gmem EXCEPT ![prv[t]].next = cur[t]]
  /\ Return(t)
  /\ UNCHANGED <<rnode, host>>

(***************************************************************************)
(* remove_gmem_by_dptr: walk to an empty record; unlink and empty each     *)
(* record that holds dptr.  The entry of the node is left alone.           *)
(***************************************************************************)
RemoveVisit(t) ==
  LET c == Cell(cur[t]) IN
  /\ pc[t] = "remove"
  /\ cur[t] = -1 => Me(t) \in ZeroBelow
  /\ \/ /\ Empty(c)
        /\ Goto(t, "release")
        /\ UNCHANGED <<cur, prv>>
     \/ /\ c.ptr \in Mapped[Me(t)] /\ Holds(t, c)
        /\ Goto(t, IF prv[t] = -1 THEN "delete" ELSE "bypass")
        /\ UNCHANGED <<cur, prv>>
     \/ /\ c.ptr \in Mapped[Me(t)] /\ ~Holds(t, c)
        /\ prv' = [prv EXCEPT ![t] = cur[t]]
        /\ cur' = [cur EXCEPT ![t] = c.next]
        /\ UNCHANGED pc
  /\ UNCHANGED <<shm, host, cnt, acc, node, arg>>

RemoveBypass(t) ==
  /\ pc[t] = "bypass"
  /\ gmem' = [gmem EXCEPT ![prv[t]].next = gmem[cur[t]].next]
  /\ Goto(t, "delete")
  /\ UNCHANGED <<rnode, host, regs>>

RemoveDeleteM(t) ==
  /\ pc[t] = "delete"
  /\ gmem' = [gmem EXCEPT ![cur[t]].next = -1]
  /\ prv' = [prv EXCEPT ![t] = cur[t]]
  /\ cur' = [cur EXCEPT ![t] = -1]
  /\ Goto(t, "remove")
  /\ UNCHANGED <<rnode, host, cnt, acc, node, arg>>

RemoveDelete(t) ==
  /\ pc[t] = "delete"
  /\ gmem' = [gmem EXCEPT ![cur[t]].ptr = NULL, ![cur[t]].next = -1]
  /\ prv' = [prv EXCEPT ![t] = cur[t]]
  /\ cur' = [cur EXCEPT ![t] = -1]
  /\ Goto(t, "remove")
  /\ UNCHANGED <<rnode, host, cnt, acc, node, arg>>

(* Where the code as built gets SIGSEGV: nullptr, index -1 of an unmapped  *)
(* page, or a pointer that another process recorded.                       *)
Faults(t) ==
  \/ pc[t] = "entry" /\ node[t] = -1
  \/ /\ pc[t] \in {"search", "remove"}
     /\ \/ cur[t] = -1 /\ Me(t) \notin ZeroBelow
        \/ cur[t] # -1 /\ Cell(cur[t]).ptr \notin Mapped[Me(t)] \cup {NULL}
  \/ pc[t] = "tail" /\ prv[t] = -1 /\ Me(t) \notin ZeroBelow
=============================================================================
