---------------------------- MODULE HijackProofs ----------------------------
(***************************************************************************)
(* Proofs about Hijack for every number of processes and threads, every    *)
(* table length and every interleaving: the types, the node table, and     *)
(* which records a push leaves alone.                                      *)
(***************************************************************************)
EXTENDS HijackProps, TLAPS

(* TypeOK is not inductive: that a step finds its index in range depends on *)
(* where the thread is.                                                    *)
Indices ==
  \A t \in Threads :
    /\ pc[t] \in {"idle", "dead"} => cnt[t] = 0
    /\ pc[t] \in {"used", "find", "insert"} => cnt[t] <= NR
    /\ pc[t] \in {"sum", "assign"} => cnt[t] < NR
    /\ pc[t] = "claim" => cnt[t] < NG
    /\ pc[t] \in {"sum", "bypass", "delete"} => cur[t] # -1
    /\ pc[t] \in {"search", "reset", "push", "claim", "link", "adopt"} => node[t] # -1

TypeInv == TypeOK /\ Indices

(***************************************************************************)
(* Lemmas on the operators                                                 *)
(***************************************************************************)
(* The probes of a process stay inside the table.                          *)
LEMMA HashInTable ==
  ASSUME NEW k \in Procs, NEW i \in Nat
  PROVE  Hash(k, i) \in Nodes
  <1>1. k[1] * 64 + k[2] + i \in Nat
    BY ThreadAssumption
  <1>2. \A a \in Nat : a % NR \in 0..(NR - 1)
    BY TableAssumption
  <1> QED BY <1>1, <1>2 DEF Hash, Nodes

LEMMA MeType == \A t \in Threads : Me(t) \in Procs
  BY ThreadAssumption DEF Me

(* A record read at an index of the chain walk, -1 included.               *)
LEMMA CellType ==
  ASSUME TypeOK, NEW g \in -1..(NG - 1)
  PROVE  /\ Cell(g).ptr \in Handles \cup {NULL}
         /\ Cell(g).next \in -1..(NG - 1)
  BY TableAssumption DEF TypeOK, Cell, Slots, GMems

LEMMA EntryType ==
  ASSUME TypeOK, NEW n \in Nodes
  PROVE  rnode[n].entry \in -1..(NG - 1)
  BY DEF TypeOK, RNodes

(* size_t arithmetic stays in size_t.                                      *)
LEMMA WrapsInBytes ==
  ASSUME NEW a \in Bytes, NEW b \in Bytes
  PROVE  (a + b) % SizeMod \in Bytes
  <1>1. \A c \in Nat : c % SizeMod \in 0..(SizeMod - 1)
    BY DataAssumption
  <1>2. a + b \in Nat
    BY DataAssumption DEF Bytes
  <1> QED BY <1>1, <1>2 DEF Bytes

LEMMA SomeBytes == 0 \in Bytes /\ Sizes \subseteq Bytes
  BY DataAssumption DEF Bytes

(* The locals of a call that ends keep their types.                        *)
LEMMA DropRegsType ==
  ASSUME TypeOK, NEW T \in SUBSET Threads, DropRegs(T)
  PROVE  /\ cnt' \in [Threads -> 0..NG]
         /\ cur' \in [Threads -> -1..(NG - 1)]
         /\ prv' \in [Threads -> -1..(NG - 1)]
         /\ acc' \in [Threads -> Bytes]
         /\ node' \in [Threads -> -1..(NR - 1)]
         /\ arg' \in [Threads -> Args]
  <1>1. NoArg \in Args
    BY SomeBytes DEF NoArg, Args, Kinds
  <1> QED BY <1>1, SomeBytes, TableAssumption DEF DropRegs, TypeOK

(* A call that returns leaves the other threads where they are.            *)
LEMMA ReturnType ==
  ASSUME TypeInv, NEW t \in Threads, Return(t)
  PROVE  /\ cnt' \in [Threads -> 0..NG]
         /\ cur' \in [Threads -> -1..(NG - 1)]
         /\ prv' \in [Threads -> -1..(NG - 1)]
         /\ acc' \in [Threads -> Bytes]
         /\ node' \in [Threads -> -1..(NR - 1)]
         /\ arg' \in [Threads -> Args]
         /\ pc' \in [Threads -> Labels]
         /\ Indices'
  <1>1. pc' = [pc EXCEPT ![t] = "idle"] /\ DropRegs({t})
    BY DEF Return, Goto
  <1>2. pc' \in [Threads -> Labels]
    BY <1>1 DEF TypeInv, TypeOK, Labels
  <1>3. Indices'
    BY <1>1 DEF TypeInv, TypeOK, Indices, DropRegs
  <1> QED BY <1>1, <1>2, <1>3, DropRegsType DEF TypeInv

(***************************************************************************)
(* Type correctness: TypeOK is inductive together with Indices             *)
(***************************************************************************)
LEMMA TypeInit == Init => TypeInv
  <1> SUFFICES ASSUME Init PROVE TypeInv
    OBVIOUS
  <1>1. InitRNode \in RNodes /\ InitGMem \in GMems /\ NoArg \in Args
    BY SomeBytes, TableAssumption
    DEF InitRNode, RNodes, NoKey, Statuses, InitGMem, GMems, NoArg, Args, Kinds
  <1>2. TypeOK
    BY <1>1, SomeBytes, TableAssumption DEF Init, NoCalls, TypeOK, Labels
  <1> QED BY <1>2 DEF TypeInv, Init, NoCalls, Indices

LEMMA TypeUsedNode ==
  ASSUME TypeInv, NEW t \in Threads, UsedNode(t)
  PROVE  TypeInv'
  <1>1. cnt[t] < NR => rnode[cnt[t]].entry \in -1..(NG - 1)
    BY EntryType, TableAssumption DEF TypeInv, TypeOK, Nodes
  <1>2. pc' \in [Threads -> Labels]
    BY <1>1, TableAssumption DEF TypeInv, TypeOK, UsedNode, Goto, Begin, Labels
  <1>3. cnt' \in [Threads -> 0..NG]
    BY <1>1, TableAssumption DEF TypeInv, TypeOK, UsedNode, Begin, Indices
  <1>4. cur' \in [Threads -> -1..(NG - 1)]
    BY <1>1, TableAssumption DEF TypeInv, TypeOK, UsedNode
  <1>5. TypeOK'
    BY <1>2, <1>3, <1>4 DEF TypeInv, TypeOK, UsedNode, shm, host
  <1>6. Indices'
    BY <1>1, TableAssumption DEF TypeInv, TypeOK, UsedNode, Goto, Begin, Indices
  <1> QED BY <1>5, <1>6 DEF TypeInv

LEMMA TypeUsedSum ==
  ASSUME TypeInv, NEW t \in Threads, UsedSum(t)
  PROVE  TypeInv'
  <1>1. cur[t] \in Slots /\ cnt[t] \in Slots /\ cnt[t] < NR
    BY TableAssumption DEF TypeInv, TypeOK, UsedSum, Indices, Slots
  <1>2. gmem[cur[t]].bytes \in Bytes /\ gmem[cnt[t]].next \in -1..(NG - 1)
    BY <1>1 DEF TypeInv, TypeOK, GMems
  <1>3. (acc[t] + gmem[cur[t]].bytes) % SizeMod \in Bytes
    BY <1>2, WrapsInBytes DEF TypeInv, TypeOK
  <1>4. pc' \in [Threads -> Labels]
    BY <1>1, <1>2, <1>3, TableAssumption DEF TypeInv, TypeOK, UsedSum, Goto, Begin, Labels
  <1>5. cnt' \in [Threads -> 0..NG]
    BY <1>1, <1>2, <1>3, TableAssumption DEF TypeInv, TypeOK, UsedSum, Begin, Indices
  <1>6. cur' \in [Threads -> -1..(NG - 1)]
    BY <1>1, <1>2, <1>3, TableAssumption DEF TypeInv, TypeOK, UsedSum
  <1>7. acc' \in [Threads -> Bytes]
    BY <1>1, <1>2, <1>3, TableAssumption DEF TypeInv, TypeOK, UsedSum
  <1>8. TypeOK'
    BY <1>4, <1>5, <1>6, <1>7 DEF TypeInv, TypeOK, UsedSum, shm, host
  <1>9. Indices'
    BY <1>1, <1>2, <1>3, TableAssumption DEF TypeInv, TypeOK, UsedSum, Goto, Begin, Indices
  <1> QED BY <1>8, <1>9 DEF TypeInv

LEMMA TypeFindRnode ==
  ASSUME TypeInv, NEW t \in Threads, FindRnode(t)
  PROVE  TypeInv'
  <1>1. Hash(Me(t), cnt[t]) \in Nodes
    BY HashInTable, MeType DEF TypeInv, TypeOK
  <1>2. ~ProbeEnds(t) /\ pc[t] = "find" => cnt[t] < NR
    <2>1. cnt[t] \in Nat /\ NR \in Nat /\ (pc[t] = "find" => cnt[t] <= NR)
      BY TableAssumption DEF TypeInv, TypeOK, Indices
    <2> QED BY <2>1 DEF ProbeEnds
  <1>3. pc' \in [Threads -> Labels]
    BY <1>1, <1>2, TableAssumption DEF TypeInv, TypeOK, FindRnode, Goto, Begin, Labels
  <1>4. cnt' \in [Threads -> 0..NG]
    <2>1. cnt \in [Threads -> 0..NG]
      BY DEF TypeInv, TypeOK
    <2>2. \/ cnt' = [cnt EXCEPT ![t] = 0]
          \/ cnt[t] < NR /\ cnt' = [cnt EXCEPT ![t] = @ + 1]
      BY <1>2 DEF FindRnode, Begin
    <2> QED BY <2>1, <2>2, TableAssumption
  <1>5. node' \in [Threads -> -1..(NR - 1)]
    <2>1. node \in [Threads -> -1..(NR - 1)]
      BY DEF TypeInv, TypeOK
    <2>2. PICK h \in Nodes : node' = node \/ node' = [node EXCEPT ![t] = h]
      BY <1>1 DEF FindRnode
    <2> QED BY <2>1, <2>2, TableAssumption DEF Nodes
  <1>6. TypeOK'
    BY <1>3, <1>4, <1>5 DEF TypeInv, TypeOK, FindRnode, shm, host
  <1>7. Indices'
    BY <1>1, <1>2, TableAssumption DEF TypeInv, TypeOK, FindRnode, Goto, Begin, Indices, Nodes
  <1> QED BY <1>6, <1>7 DEF TypeInv

LEMMA TypeInsertProbe ==
  ASSUME TypeInv, NEW t \in Threads, InsertProbe(t)
  PROVE  TypeInv'
  <1>1. pc' \in [Threads -> Labels]
    BY TableAssumption DEF TypeInv, TypeOK, InsertProbe, Goto, Begin, Labels
  <1>2. cnt' \in [Threads -> 0..NG]
    <2>1. cnt \in [Threads -> 0..NG]
      BY DEF TypeInv, TypeOK
    <2>2. \/ cnt' = cnt
          \/ cnt[t] < NR /\ cnt' = [cnt EXCEPT ![t] = @ + 1]
      BY DEF InsertProbe
    <2> QED BY <2>1, <2>2, TableAssumption
  <1>3. TypeOK'
    BY <1>1, <1>2 DEF TypeInv, TypeOK, InsertProbe, shm, host
  <1>4. Indices'
    BY TableAssumption DEF TypeInv, TypeOK, InsertProbe, Goto, Begin, Indices
  <1> QED BY <1>3, <1>4 DEF TypeInv

LEMMA TypeInsertAssign ==
  ASSUME TypeInv, NEW t \in Threads, InsertAssign(t)
  PROVE  TypeInv'
  <1>1. Hash(Me(t), cnt[t]) \in Nodes
    BY HashInTable, MeType DEF TypeInv, TypeOK
  <1>2. [key |-> Me(t), entry |-> -1, stat |-> "EXIST"] \in RNodes
    BY MeType, TableAssumption DEF RNodes, Statuses
  <1>3. rnode' \in [Nodes -> RNodes]
    BY <1>1, <1>2, TableAssumption DEF TypeInv, TypeOK, InsertAssign, Nodes
  <1>4. pc' \in [Threads -> Labels]
    BY <1>1, <1>2, TableAssumption DEF TypeInv, TypeOK, InsertAssign, Goto, Begin, Labels
  <1>5. cnt' \in [Threads -> 0..NG]
    <2>1. cnt \in [Threads -> 0..NG]
      BY DEF TypeInv, TypeOK
    <2>2. cnt' = [cnt EXCEPT ![t] = 0]
      BY DEF InsertAssign, Begin
    <2> QED BY <2>1, <2>2, TableAssumption
  <1>6. node' \in [Threads -> -1..(NR - 1)]
    BY <1>1, <1>2, TableAssumption DEF TypeInv, TypeOK, InsertAssign, Nodes
  <1>7. TypeOK'
    BY <1>3, <1>4, <1>5, <1>6 DEF TypeInv, TypeOK, InsertAssign, host
  <1>8. Indices'
    BY <1>1, <1>2, TableAssumption DEF TypeInv, TypeOK, InsertAssign, Goto, Begin, Indices, Nodes
  <1> QED BY <1>7, <1>8 DEF TypeInv

LEMMA TypeReadEntry ==
  ASSUME TypeInv, NEW t \in Threads, ReadEntry(t)
  PROVE  TypeInv'
  <1>1. rnode[node[t]].entry \in -1..(NG - 1)
    BY EntryType DEF TypeInv, TypeOK, ReadEntry, Nodes
  <1>2. pc' \in [Threads -> Labels]
    BY <1>1, TableAssumption DEF TypeInv, TypeOK, ReadEntry, Goto, Begin, Labels
  <1>3. cnt' \in [Threads -> 0..NG]
    BY <1>1, TableAssumption DEF TypeInv, TypeOK, ReadEntry, Begin, Indices
  <1>4. cur' \in [Threads -> -1..(NG - 1)]
    BY <1>1, TableAssumption DEF TypeInv, TypeOK, ReadEntry
  <1>5. TypeOK'
    BY <1>2, <1>3, <1>4 DEF TypeInv, TypeOK, ReadEntry, shm, host
  <1>6. Indices'
    BY <1>1, TableAssumption DEF TypeInv, TypeOK, ReadEntry, Goto, Begin, Indices
  <1> QED BY <1>5, <1>6 DEF TypeInv

LEMMA TypeFindGmem ==
  ASSUME TypeInv, NEW t \in Threads, FindGmem(t)
  PROVE  TypeInv'
  <1>1. Cell(cur[t]).next \in -1..(NG - 1)
    BY CellType DEF TypeInv, TypeOK
  <1>2. pc' \in [Threads -> Labels]
    BY <1>1, TableAssumption DEF TypeInv, TypeOK, FindGmem, Goto, Begin, Labels
  <1>3. cnt' \in [Threads -> 0..NG]
    BY <1>1, TableAssumption DEF TypeInv, TypeOK, FindGmem, Begin, Indices
  <1>4. cur' \in [Threads -> -1..(NG - 1)]
    BY <1>1, TableAssumption DEF TypeInv, TypeOK, FindGmem
  <1>5. TypeOK'
    BY <1>2, <1>3, <1>4 DEF TypeInv, TypeOK, FindGmem, shm, host
  <1>6. Indices'
    BY <1>1, TableAssumption DEF TypeInv, TypeOK, FindGmem, Goto, Begin, Indices
  <1> QED BY <1>5, <1>6 DEF TypeInv

LEMMA TypeResetRecord ==
  ASSUME TypeInv, NEW t \in Threads, ResetRecord(t)
  PROVE  TypeInv'
  <1>1. arg[t].hdl \in Handles \cup {NULL} /\ arg[t].bytes \in Bytes
    BY DEF TypeInv, TypeOK, Args
  <1>2. gmem' \in [Slots -> GMems]
    BY <1>1, TableAssumption DEF TypeInv, TypeOK, ResetRecord, Slots, GMems
  <1>3. pc' \in [Threads -> Labels]
    BY <1>1, TableAssumption DEF TypeInv, TypeOK, ResetRecord, Goto, Begin, Labels
  <1>4. TypeOK'
    BY <1>2, <1>3 DEF TypeInv, TypeOK, ResetRecord, host, regs
  <1>5. Indices'
    BY <1>1, TableAssumption DEF TypeInv, TypeOK, ResetRecord, Goto, Indices, regs
  <1> QED BY <1>4, <1>5 DEF TypeInv

LEMMA TypePushProbe ==
  ASSUME TypeInv, NEW t \in Threads, PushProbe(t)
  PROVE  TypeInv'
  <1>1. pc' \in [Threads -> Labels]
    BY TableAssumption DEF TypeInv, TypeOK, PushProbe, Goto, Begin, Labels
  <1>2. cnt' \in [Threads -> 0..NG]
    BY TableAssumption DEF TypeInv, TypeOK, PushProbe, Begin, Indices
  <1>3. cur' \in [Threads -> -1..(NG - 1)]
    BY TableAssumption DEF TypeInv, TypeOK, PushProbe
  <1>4. TypeOK'
    BY <1>1, <1>2, <1>3 DEF TypeInv, TypeOK, PushProbe, shm, host
  <1>5. Indices'
    BY TableAssumption DEF TypeInv, TypeOK, PushProbe, Goto, Begin, Indices
  <1> QED BY <1>4, <1>5 DEF TypeInv

LEMMA TypePushClaim ==
  ASSUME TypeInv, NEW t \in Threads, PushClaim(t)
  PROVE  TypeInv'
  <1>1. arg[t].hdl \in Handles \cup {NULL} /\ arg[t].bytes \in Bytes
    BY DEF TypeInv, TypeOK, Args
  <1>2. cnt[t] \in -1..(NG - 1)
    BY TableAssumption DEF TypeInv, TypeOK, PushClaim, Indices
  <1>3. gmem' \in [Slots -> GMems]
    BY <1>1, <1>2, TableAssumption DEF TypeInv, TypeOK, PushClaim, Slots, GMems
  <1>4. pc' \in [Threads -> Labels]
    BY <1>1, <1>2, TableAssumption DEF TypeInv, TypeOK, PushClaim, Goto, Begin, Labels
  <1>5. cnt' \in [Threads -> 0..NG]
    BY <1>1, <1>2, TableAssumption DEF TypeInv, TypeOK, PushClaim, Begin, Indices
  <1>6. cur' \in [Threads -> -1..(NG - 1)]
    BY <1>1, <1>2, TableAssumption DEF TypeInv, TypeOK, PushClaim
  <1>7. TypeOK'
    BY <1>3, <1>4, <1>5, <1>6 DEF TypeInv, TypeOK, PushClaim, host
  <1>8. Indices'
    BY <1>1, <1>2, TableAssumption DEF TypeInv, TypeOK, PushClaim, Goto, Begin, Indices
  <1> QED BY <1>7, <1>8 DEF TypeInv

LEMMA TypeLinkEntry ==
  ASSUME TypeInv, NEW t \in Threads, LinkEntry(t)
  PROVE  TypeInv'
  <1>1. node[t] \in Nodes
    BY TableAssumption DEF TypeInv, TypeOK, Indices, LinkEntry, Nodes
  <1>2. rnode[node[t]].entry \in -1..(NG - 1)
    BY <1>1, EntryType DEF TypeInv
  <1>3. prv' \in [Threads -> -1..(NG - 1)] /\ pc' \in [Threads -> Labels]
    BY <1>2 DEF TypeInv, TypeOK, LinkEntry, Goto, Labels
  <1>4. TypeOK'
    BY <1>3 DEF TypeInv, TypeOK, LinkEntry, shm, host
  <1>5. Indices'
    BY DEF TypeInv, TypeOK, LinkEntry, Goto, Indices
  <1> QED BY <1>4, <1>5 DEF TypeInv

LEMMA TypeSetEntry ==
  ASSUME TypeInv, NEW t \in Threads, SetEntry(t)
  PROVE  TypeInv'
  <1>1. node[t] \in Nodes
    BY TableAssumption DEF TypeInv, TypeOK, Indices, SetEntry, Nodes
  <1>2. cur[t] \in -1..(NG - 1) /\ rnode \in [Nodes -> RNodes]
    BY DEF TypeInv, TypeOK
  <1>3. rnode' = [rnode EXCEPT ![node[t]].entry = cur[t]]
    BY DEF SetEntry
  <1>4. rnode' \in [Nodes -> RNodes]
    BY <1>1, <1>2, <1>3 DEF RNodes
  <1> QED BY <1>4, ReturnType DEF TypeInv, TypeOK, SetEntry, host

LEMMA TypeLastRec ==
  ASSUME TypeInv, NEW t \in Threads, LastRec(t)
  PROVE  TypeInv'
  <1>1. CASE Return(t)
    BY <1>1, ReturnType DEF TypeInv, TypeOK, LastRec, shm, host
  <1>2. CASE ~Return(t)
    <2>1. Cell(prv[t]).next \in -1..(NG - 1)
      BY CellType DEF TypeInv, TypeOK
    <2>2. pc' \in [Threads -> Labels]
      BY <1>2 DEF TypeInv, TypeOK, LastRec, Goto, Labels
    <2>3. prv' \in [Threads -> -1..(NG - 1)]
      BY <1>2, <2>1 DEF TypeInv, TypeOK, LastRec, regs
    <2>4. TypeOK'
      BY <1>2, <2>2, <2>3 DEF TypeInv, TypeOK, LastRec, shm, host, regs
    <2>5. Indices'
      BY <1>2 DEF TypeInv, TypeOK, LastRec, Goto, Indices, regs
    <2> QED BY <2>4, <2>5 DEF TypeInv
  <1> QED BY <1>1, <1>2

LEMMA TypeLinkTail ==
  ASSUME TypeInv, NEW t \in Threads, LinkTail(t)
  PROVE  TypeInv'
  <1>1. gmem' \in [Slots -> GMems]
    BY DEF TypeInv, TypeOK, LinkTail, GMems
  <1> QED BY <1>1, ReturnType DEF TypeInv, TypeOK, LinkTail, host

LEMMA TypeRemoveVisit ==
  ASSUME TypeInv, NEW t \in Threads, RemoveVisit(t)
  PROVE  TypeInv'
  <1>1. Cell(cur[t]).next \in -1..(NG - 1)
    BY CellType DEF TypeInv, TypeOK
  <1>2. pc' \in [Threads -> Labels]
    BY <1>1, TableAssumption DEF TypeInv, TypeOK, RemoveVisit, Goto, Begin, Labels
  <1>3. cur' \in [Threads -> -1..(NG - 1)]
    BY <1>1, TableAssumption DEF TypeInv, TypeOK, RemoveVisit
  <1>4. prv' \in [Threads -> -1..(NG - 1)]
    BY <1>1, TableAssumption DEF TypeInv, TypeOK, RemoveVisit
  <1>5. TypeOK'
    BY <1>2, <1>3, <1>4 DEF TypeInv, TypeOK, RemoveVisit, shm, host
  <1>6. Indices'
    <2>1. /\ pc[t] = "remove" /\ \E l \in {"release", "delete", "bypass", "remove"} : Goto(t, l)
          /\ pc' # pc /\ pc'[t] \in {"delete", "bypass"} => cur[t] # -1
          /\ \A u \in Threads : u # t => cur'[u] = cur[u]
      BY DataAssumption DEF TypeInv, TypeOK, RemoveVisit, Goto, Cell, Empty
    <2> QED BY <2>1 DEF TypeInv, TypeOK, RemoveVisit, Goto, Indices
  <1> QED BY <1>5, <1>6 DEF TypeInv

LEMMA TypeRemoveBypass ==
  ASSUME TypeInv, NEW t \in Threads, RemoveBypass(t)
  PROVE  TypeInv'
  <1>1. gmem[cur[t]].next \in -1..(NG - 1)
    BY TableAssumption DEF TypeInv, TypeOK, Indices, RemoveBypass, Slots, GMems
  <1>2. gmem' \in [Slots -> GMems]
    BY <1>1, TableAssumption DEF TypeInv, TypeOK, RemoveBypass, Slots, GMems
  <1>3. pc' \in [Threads -> Labels]
    BY <1>1, TableAssumption DEF TypeInv, TypeOK, RemoveBypass, Goto, Begin, Labels
  <1>4. TypeOK'
    BY <1>2, <1>3 DEF TypeInv, TypeOK, RemoveBypass, host, regs
  <1>5. Indices'
    BY <1>1, TableAssumption DEF TypeInv, TypeOK, RemoveBypass, Goto, Indices, regs
  <1> QED BY <1>4, <1>5 DEF TypeInv

LEMMA TypeRemoveDelete ==
  ASSUME TypeInv, NEW t \in Threads, RemoveDelete(t)
  PROVE  TypeInv'
  <1>1. gmem' \in [Slots -> GMems]
    <2>1. cur[t] \in Slots /\ gmem \in [Slots -> GMems]
      BY TableAssumption DEF TypeInv, TypeOK, Indices, RemoveDelete, Slots
    <2> QED BY <2>1, TableAssumption DEF RemoveDelete, GMems
  <1>2. pc' \in [Threads -> Labels]
    BY TableAssumption DEF TypeInv, TypeOK, RemoveDelete, Goto, Begin, Labels
  <1>3. cur' \in [Threads -> -1..(NG - 1)]
    BY TableAssumption DEF TypeInv, TypeOK, RemoveDelete
  <1>4. prv' \in [Threads -> -1..(NG - 1)]
    BY TableAssumption DEF TypeInv, TypeOK, RemoveDelete
  <1>5. TypeOK'
    BY <1>1, <1>2, <1>3, <1>4 DEF TypeInv, TypeOK, RemoveDelete, host
  <1>6. Indices'
    BY TableAssumption DEF TypeInv, TypeOK, RemoveDelete, Goto, Begin, Indices
  <1> QED BY <1>5, <1>6 DEF TypeInv

LEMMA TypeCheckLimit ==
  ASSUME TypeInv, NEW t \in Threads, CheckLimit(t)
  PROVE  TypeInv'
  <1>1. CASE Exceeds(t)
    BY <1>1, ReturnType DEF TypeInv, TypeOK, CheckLimit, shm, host
  <1>2. CASE ~Exceeds(t)
    <2>1. pc' \in [Threads -> Labels]
      BY <1>2 DEF TypeInv, TypeOK, CheckLimit, Goto, Labels
    <2>2. TypeOK'
      BY <1>2, <2>1 DEF TypeInv, TypeOK, CheckLimit, shm, host, regs
    <2>3. Indices'
      BY <1>2 DEF TypeInv, TypeOK, CheckLimit, Goto, Indices, regs
    <2> QED BY <2>2, <2>3 DEF TypeInv
  <1> QED BY <1>1, <1>2

LEMMA TypeDriverAlloc ==
  ASSUME TypeInv, NEW t \in Threads, NEW d \in Dptrs, DriverAlloc(t, d)
  PROVE  TypeInv'
  <1>1. arg[t].bytes \in Bytes /\ Me(t) \in Procs
    BY MeType DEF TypeInv, TypeOK, Args
  <1>2. drv' \in [Procs -> [Dptrs -> Bytes]]
    BY <1>1 DEF TypeInv, TypeOK, DriverAlloc
  <1>3. mem' \in [Procs -> [Handles -> Dptrs \cup {NULL}]]
    BY <1>1 DEF TypeInv, TypeOK, DriverAlloc
  <1>4. arg' \in [Threads -> Args]
    BY DEF TypeInv, TypeOK, DriverAlloc, Args
  <1>5. pc' \in [Threads -> Labels] /\ cnt' \in [Threads -> 0..NG]
    BY TableAssumption DEF TypeInv, TypeOK, DriverAlloc, Begin, Goto, Labels
  <1>6. TypeOK'
    BY <1>2, <1>3, <1>4, <1>5 DEF TypeInv, TypeOK, DriverAlloc, shm
  <1>7. Indices'
    BY TableAssumption DEF TypeInv, TypeOK, DriverAlloc, Begin, Goto, Indices
  <1> QED BY <1>6, <1>7 DEF TypeInv

LEMMA TypeDriverAllocFails ==
  ASSUME TypeInv, NEW t \in Threads, DriverAllocFails(t)
  PROVE  TypeInv'
  <1> QED BY ReturnType DEF TypeInv, TypeOK, DriverAllocFails, shm, host

LEMMA TypeDriverFree ==
  ASSUME TypeInv, NEW t \in Threads, DriverFree(t)
  PROVE  TypeInv'
  <1>1. drv' \in [Procs -> [Dptrs -> Bytes]]
    BY MeType, SomeBytes DEF TypeInv, TypeOK, DriverFree
  <1> QED BY <1>1, ReturnType DEF TypeInv, TypeOK, DriverFree, shm

LEMMA TypeDriverFreeFails ==
  ASSUME TypeInv, NEW t \in Threads, DriverFreeFails(t)
  PROVE  TypeInv'
  <1> QED BY ReturnType DEF TypeInv, TypeOK, DriverFreeFails, shm, host

LEMMA TypeDie ==
  ASSUME TypeInv, NEW p \in Procs, Die(p)
  PROVE  TypeInv'
  <1> DEFINE T == {t \in Threads : Me(t) = p}
  <1>1. DropRegs(T) /\ T \subseteq Threads
    BY DEF Die
  <1>2. pc' \in [Threads -> Labels]
    BY DEF TypeInv, TypeOK, Die, Labels
  <1>3. /\ alive' \in [Procs -> BOOLEAN]
        /\ drv' \in [Procs -> [Dptrs -> Bytes]]
        /\ mem' \in [Procs -> [Handles -> Dptrs \cup {NULL}]]
    BY SomeBytes DEF TypeInv, TypeOK, Die
  <1>4. TypeOK'
    BY <1>1, <1>2, <1>3, DropRegsType DEF TypeInv, TypeOK, Die, shm
  <1>5. Indices'
    BY <1>1 DEF TypeInv, TypeOK, Die, DropRegs, Indices
  <1> QED BY <1>4, <1>5 DEF TypeInv

(* The calls that start, and what the applications do between them.        *)
LEMMA TypeStart ==
  ASSUME TypeInv, NEW t \in Threads,
         \/ \E k \in AllocKinds, h \in Handles, b \in Sizes : StartAlloc(t, k, h, b)
         \/ \E d \in Dptrs : StartFree(t, d)
  PROVE  TypeInv'
  <1>1. PICK a \in Args, l \in {"check", "used", "find"} :
          /\ arg' = [arg EXCEPT ![t] = a] /\ Goto(t, l)
          /\ pc[t] = "idle"
          /\ UNCHANGED <<shm, host, cnt, cur, prv, acc, node>>
    BY CallAssumption, SomeBytes DEF StartAlloc, StartFree, Args, Kinds
  <1>2. cnt[t] = 0
    BY <1>1 DEF TypeInv, Indices
  <1>3. TypeOK'
    BY <1>1 DEF TypeInv, TypeOK, Goto, Labels, shm, host
  <1>4. Indices'
    BY <1>1, <1>2, TableAssumption DEF TypeInv, TypeOK, Goto, Indices
  <1> QED BY <1>3, <1>4 DEF TypeInv

LEMMA TypeArrayDestroy ==
  ASSUME TypeInv, NEW t \in Threads, NEW d \in Dptrs, ArrayDestroy(t, d)
  PROVE  TypeInv'
  <1>1. drv' \in [Procs -> [Dptrs -> Bytes]]
    BY SomeBytes, MeType DEF TypeInv, TypeOK, ArrayDestroy
  <1>2. TypeOK'
    BY <1>1 DEF TypeInv, TypeOK, ArrayDestroy, shm, regs
  <1>3. Indices'
    BY DEF TypeInv, ArrayDestroy, Indices, regs
  <1> QED BY <1>2, <1>3 DEF TypeInv

LEMMA TypeOverwrite ==
  ASSUME TypeInv, NEW t \in Threads, NEW h \in Handles, NEW v \in Stores, Overwrite(t, h, v)
  PROVE  TypeInv'
  <1>1. mem' \in [Procs -> [Handles -> Dptrs \cup {NULL}]]
    BY CallAssumption, MeType DEF TypeInv, TypeOK, Overwrite
  <1>2. TypeOK'
    BY <1>1 DEF TypeInv, TypeOK, Overwrite, shm, regs
  <1>3. Indices'
    BY DEF TypeInv, Overwrite, Indices, regs
  <1> QED BY <1>2, <1>3 DEF TypeInv

LEMMA TypeStep == TypeInv /\ [Next]_vars => TypeInv'
  <1> SUFFICES ASSUME TypeInv, [Next]_vars PROVE TypeInv'
    OBVIOUS
  <1>1. ASSUME NEW t \in Threads, InCode(t) PROVE TypeInv'
    BY <1>1, TypeUsedNode, TypeUsedSum, TypeFindRnode, TypeInsertProbe, TypeInsertAssign,
       TypeReadEntry, TypeFindGmem, TypeResetRecord, TypePushProbe, TypePushClaim,
       TypeLinkEntry, TypeSetEntry, TypeLastRec, TypeLinkTail, TypeRemoveVisit,
       TypeRemoveBypass,
       TypeRemoveDelete, TypeCheckLimit, TypeDriverAlloc, TypeDriverAllocFails,
       TypeDriverFree, TypeDriverFreeFails, TypeDie, MeType
    DEF InCode, Segfault
  <1>2. CASE UNCHANGED vars
    BY <1>2 DEF TypeInv, TypeOK, Indices, vars, shm, host, regs
  <1> QED BY <1>1, <1>2, TypeStart, TypeArrayDestroy, TypeOverwrite, TypeDie DEF Next

(* Every variable keeps its range, whatever the applications do.           *)
THEOREM TypeCorrect == Spec => []TypeOK
  <1>1. TypeInv => TypeOK
    BY DEF TypeInv
  <1> QED BY TypeInit, TypeStep, <1>1, PTL DEF Spec

(***************************************************************************)
(* At most one node for a process: NodeInv is inductive                    *)
(*                                                                         *)
(* A slot never becomes NONEXIST again, so the path to a node stays open.  *)
(* A thread inserts only after its scan has missed every slot up to a free *)
(* one, or the whole table: by Reachable its node is nowhere else.  The    *)
(* inserts of other processes in between use other keys.                   *)
(***************************************************************************)
(* Each process makes its calls from one thread.                           *)
OneThread == \A t, u \in Threads : Me(t) = Me(u) => t = u

(* The steps that write a node write its entry only, except InsertAssign.  *)
SameNodes == \A n \in Nodes :
  rnode'[n].key = rnode[n].key /\ rnode'[n].stat = rnode[n].stat

(* A thread that a step leaves alone, or takes out of the node table.      *)
Unmoved(u) == pc'[u] = pc[u] /\ cnt'[u] = cnt[u]
Outside(u) == pc'[u] \notin {"insert", "assign"} /\ (pc'[u] = "find" => cnt'[u] = 0)

Bystander == SameNodes /\ \A u \in Threads : Unmoved(u) \/ Outside(u)

LEMMA BystanderNodes ==
  ASSUME TypeInv, TypeInv', NodeInv, Bystander
  PROVE  NodeInv'
  <1>1. UniqueKey'
    BY DEF NodeInv, UniqueKey, Existing, Bystander, SameNodes
  <1>2. ASSUME NEW n \in Nodes, Existing(n)' PROVE rnode'[n].key \in Procs /\ Reachable(n)'
    <2>1. Existing(n) /\ Reachable(n) /\ rnode[n].key \in Procs
      BY <1>2 DEF NodeInv, Existing, Bystander, SameNodes
    <2> QED BY <2>1, HashInTable DEF Reachable, Bystander, SameNodes, Nodes
  <1>3. ASSUME NEW u \in Threads PROVE Hash(Me(u), 0) \in Nodes /\ \A i \in Nat : Hash(Me(u), i) \in Nodes
    BY HashInTable, MeType
  <1>4. ASSUME NEW u \in Threads, pc'[u] = "find" PROVE Probed(u)' /\ Missed(u)'
    <2>1. CASE Outside(u)
      BY <1>4, <2>1 DEF Outside, Probed, Missed
    <2>2. CASE Unmoved(u)
      <3>1. Probed(u) /\ Missed(u) /\ cnt'[u] = cnt[u] /\ cnt[u] \in Nat
        BY <1>4, <2>2, TableAssumption DEF NodeInv, Unmoved, TypeInv, TypeOK
      <3> QED BY <3>1, <1>3 DEF Probed, Missed, HasNode, Existing, Bystander, SameNodes
    <2> QED BY <2>1, <2>2 DEF Bystander
  <1>5. ASSUME NEW u \in Threads, pc'[u] \in {"insert", "assign"} PROVE Probed(u)' /\ Absent(u)'
    <2>1. Unmoved(u)
      BY <1>5 DEF Bystander, Outside
    <2>2. Probed(u) /\ Absent(u) /\ cnt'[u] = cnt[u] /\ cnt[u] \in Nat
      BY <1>5, <2>1, TableAssumption DEF NodeInv, Unmoved, TypeInv, TypeOK
    <2> QED BY <2>2, <1>3 DEF Probed, Absent, HasNode, Existing, Bystander, SameNodes
  <1> QED BY <1>1, <1>2, <1>4, <1>5 DEF NodeInv

(* A scan of find_rnode that ends without a hit has looked at every slot   *)
(* where the node of the process could be.                                 *)
LEMMA MissIsAbsent ==
  ASSUME TypeInv, NodeInv, NEW t \in Threads, pc[t] = "find", ProbeEnds(t)
  PROVE  Absent(t)
  <1> SUFFICES ASSUME NEW n \in Nodes, HasNode(t, n) PROVE FALSE
    BY DEF Absent
  <1>1. Existing(n) /\ rnode[n].key = Me(t) /\ Missed(t) /\ cnt[t] \in Nat
    BY TableAssumption DEF HasNode, NodeInv, TypeInv, TypeOK
  <1>2. PICK j \in Nodes :
          /\ n = Hash(Me(t), j)
          /\ \A i \in 0..(j - 1) : rnode[Hash(Me(t), i)].stat # "NONEXIST"
    BY <1>1 DEF NodeInv, Reachable
  <1>3. ~(j < cnt[t])
    BY <1>1, <1>2 DEF Missed, HasNode, Nodes
  <1>4. CASE cnt[t] = NR
    BY <1>3, <1>4, TableAssumption DEF Nodes
  <1>5. CASE rnode[Hash(Me(t), cnt[t])].stat = "NONEXIST"
    BY <1>1, <1>2, <1>3, <1>5, TableAssumption DEF Nodes, Existing
  <1> QED BY <1>4, <1>5 DEF ProbeEnds

(* A step of thread t through a scan, which writes nothing.                *)
LEMMA ScanNodes ==
  ASSUME NodeInv, NEW t \in Threads, rnode' = rnode,
         \A u \in Threads : u # t => Unmoved(u),
         pc'[t] = "find" => Probed(t)' /\ Missed(t)',
         pc'[t] \in {"insert", "assign"} => Probed(t)' /\ Absent(t)'
  PROVE  NodeInv'
  <1>1. UniqueKey'
    BY DEF NodeInv, UniqueKey, Existing
  <1>2. \A n \in Nodes : Existing(n)' => rnode'[n].key \in Procs /\ Reachable(n)'
    BY DEF NodeInv, Existing, Reachable
  <1>3. ASSUME NEW u \in Threads, u # t
        PROVE  /\ pc'[u] = "find" => Probed(u)' /\ Missed(u)'
               /\ pc'[u] \in {"insert", "assign"} => Probed(u)' /\ Absent(u)'
    BY <1>3 DEF NodeInv, Unmoved, Probed, Missed, Absent, HasNode, Existing
  <1> QED BY <1>1, <1>2, <1>3 DEF NodeInv

LEMMA FindRnodeNodes ==
  ASSUME TypeInv, NodeInv, NEW t \in Threads, FindRnode(t)
  PROVE  NodeInv'
  <1>1. rnode' = rnode
    BY DEF FindRnode, shm
  <1>2. \A u \in Threads : u # t => Unmoved(u)
    BY DEF FindRnode, Begin, Goto, Unmoved, TypeInv, TypeOK
  <1>3. Probed(t) /\ Missed(t) /\ cnt[t] \in Nat
    BY TableAssumption DEF FindRnode, NodeInv, TypeInv, TypeOK
  <1>4. CASE ProbeEnds(t)
    <2>1. pc[t] = "find" /\ pc'[t] \in {"release", "insert"} /\ cnt'[t] = 0
      BY <1>4 DEF FindRnode, Begin, Goto, TypeInv, TypeOK
    <2>2. Absent(t)
      BY <1>4, <2>1, MissIsAbsent
    <2>3. Probed(t)' /\ Absent(t)'
      BY <1>1, <2>1, <2>2 DEF Probed, Absent, HasNode, Existing
    <2> QED BY <1>1, <1>2, <2>1, <2>3, ScanNodes
  <1>5. CASE ~ProbeEnds(t) /\ ProbeHits(t)
    <2>1. pc'[t] = "entry"
      BY <1>5 DEF FindRnode, Begin, Goto, TypeInv, TypeOK
    <2> QED BY <1>1, <1>2, <2>1, ScanNodes
  <1>6. CASE ~ProbeEnds(t) /\ ~ProbeHits(t)
    <2>1. pc'[t] = "find" /\ cnt'[t] = cnt[t] + 1
      BY <1>6 DEF FindRnode, TypeInv, TypeOK
    <2>2. /\ rnode[Hash(Me(t), cnt[t])].stat # "NONEXIST"
          /\ ~HasNode(t, Hash(Me(t), cnt[t]))
      BY <1>6 DEF ProbeEnds, ProbeHits, SameKey, HasNode, Existing
    <2>3. \A i \in 0..(cnt'[t] - 1) : i \in 0..(cnt[t] - 1) \/ i = cnt[t]
      BY <1>3, <2>1
    <2>4. Probed(t)' /\ Missed(t)'
      BY <1>1, <1>3, <2>2, <2>3 DEF Probed, Missed, HasNode, Existing
    <2> QED BY <1>1, <1>2, <2>1, <2>4, ScanNodes
  <1> QED BY <1>4, <1>5, <1>6

LEMMA InsertProbeNodes ==
  ASSUME TypeInv, NodeInv, NEW t \in Threads, InsertProbe(t)
  PROVE  NodeInv'
  <1>1. rnode' = rnode
    BY DEF InsertProbe, shm
  <1>2. \A u \in Threads : u # t => Unmoved(u)
    BY DEF InsertProbe, Goto, Unmoved, TypeInv, TypeOK
  <1>3. Probed(t) /\ Absent(t) /\ cnt[t] \in Nat
    BY TableAssumption DEF InsertProbe, NodeInv, TypeInv, TypeOK
  <1>4. Absent(t)'
    BY <1>1, <1>3 DEF Absent, HasNode, Existing
  <1>5. CASE cnt'[t] = cnt[t]
    <2>1. Probed(t)'
      BY <1>1, <1>3, <1>5 DEF Probed
    <2>2. pc'[t] # "find"
      BY DEF InsertProbe, Goto, TypeInv, TypeOK
    <2> QED BY <1>1, <1>2, <1>4, <2>1, <2>2, ScanNodes
  <1>6. CASE cnt'[t] # cnt[t]
    <2>1. pc'[t] = "insert" /\ ~Usable(t) /\ cnt[t] < NR /\ cnt'[t] = cnt[t] + 1
      BY <1>6 DEF InsertProbe, TypeInv, TypeOK
    <2>2. rnode[Hash(Me(t), cnt[t])].stat # "NONEXIST"
      BY <2>1 DEF Usable, Available
    <2>3. \A i \in 0..(cnt'[t] - 1) : i \in 0..(cnt[t] - 1) \/ i = cnt[t]
      BY <1>3, <2>1
    <2>4. Probed(t)'
      BY <1>1, <1>3, <2>2, <2>3 DEF Probed
    <2> QED BY <1>1, <1>2, <1>4, <2>1, <2>4, ScanNodes
  <1> QED BY <1>5, <1>6

(* The insert writes the one node of its process; on the paths of the      *)
(* others it leaves a slot in use.                                         *)
LEMMA InsertAssignNodes ==
  ASSUME TypeInv, TypeInv', NodeInv, OneThread, NEW t \in Threads, InsertAssign(t)
  PROVE  NodeInv'
  <1> DEFINE s == Hash(Me(t), cnt[t])
  <1>1. /\ pc[t] = "assign" /\ cnt[t] \in Nat /\ cnt[t] < NR /\ cnt[t] \in Nodes
        /\ Probed(t) /\ Absent(t) /\ s \in Nodes /\ Me(t) \in Procs
    BY TableAssumption, HashInTable, MeType
    DEF InsertAssign, NodeInv, TypeInv, TypeOK, Indices, Nodes
  <1>2. /\ rnode'[s].key = Me(t) /\ rnode'[s].stat = "EXIST"
        /\ \A n \in Nodes : n # s => rnode'[n] = rnode[n]
    BY <1>1 DEF InsertAssign, TypeInv, TypeOK
  <1>3. \A n \in Nodes : rnode[n].stat # "NONEXIST" => rnode'[n].stat # "NONEXIST"
    BY <1>2
  <1>4. \A u \in Threads : u # t => Unmoved(u) /\ Me(u) # Me(t)
    BY DEF InsertAssign, Begin, Goto, Unmoved, TypeInv, TypeOK, OneThread
  <1>5. pc'[t] = "entry"
    BY DEF InsertAssign, Begin, Goto, TypeInv, TypeOK
  <1>6. UniqueKey'
    BY <1>1, <1>2 DEF NodeInv, UniqueKey, Existing, Absent, HasNode
  <1>7. ASSUME NEW k \in Procs, NEW i \in Nat PROVE Hash(k, i) \in Nodes
    BY HashInTable
  <1>8. ASSUME NEW n \in Nodes, Existing(n)'
        PROVE  rnode'[n].key \in Procs /\ Reachable(n)'
    <2>1. CASE n = s
      <3>1. \A i \in 0..(cnt[t] - 1) : rnode'[Hash(Me(t), i)].stat # "NONEXIST"
        BY <1>1, <1>3, <1>7 DEF Probed
      <3> QED BY <1>1, <1>2, <2>1, <3>1 DEF Reachable
    <2>2. CASE n # s
      <3>1. rnode'[n] = rnode[n] /\ rnode[n].key \in Procs /\ Reachable(n)
        BY <1>2, <1>8, <2>2 DEF NodeInv, Existing
      <3>2. PICK j \in Nodes :
              /\ n = Hash(rnode[n].key, j)
              /\ \A i \in 0..(j - 1) : rnode[Hash(rnode[n].key, i)].stat # "NONEXIST"
        BY <3>1 DEF Reachable
      <3>3. \A i \in 0..(j - 1) : rnode'[Hash(rnode[n].key, i)].stat # "NONEXIST"
        BY <1>3, <1>7, <3>1, <3>2 DEF Nodes
      <3> QED BY <3>1, <3>2, <3>3 DEF Reachable
    <2> QED BY <2>1, <2>2
  <1>9. ASSUME NEW u \in Threads, u # t
        PROVE  /\ pc'[u] = "find" => Probed(u)' /\ Missed(u)'
               /\ pc'[u] \in {"insert", "assign"} => Probed(u)' /\ Absent(u)'
    <2>1. cnt'[u] = cnt[u] /\ cnt[u] \in Nat /\ Me(u) \in Procs /\ pc'[u] = pc[u]
      BY <1>4, <1>9, MeType, TableAssumption DEF Unmoved, TypeInv, TypeOK
    <2>2. Probed(u) => Probed(u)'
      BY <1>3, <1>7, <2>1 DEF Probed
    <2>3. \A n \in Nodes : HasNode(u, n)' => HasNode(u, n)
      BY <1>2, <1>4, <1>9 DEF HasNode, Existing
    <2>4. Missed(u) => Missed(u)'
      BY <1>7, <2>1, <2>3 DEF Missed
    <2>5. Absent(u) => Absent(u)'
      BY <2>3 DEF Absent
    <2> QED BY <2>1, <2>2, <2>4, <2>5 DEF NodeInv
  <1> QED BY <1>5, <1>6, <1>8, <1>9 DEF NodeInv

(* Everything else a thread does in the code is outside the node table or  *)
(* writes an entry.                                                        *)
LEMMA CodeBystander ==
  ASSUME TypeInv, NEW t \in Threads, InCode(t),
         ~FindRnode(t), ~InsertProbe(t), ~InsertAssign(t)
  PROVE  Bystander
  <1> USE DEF TypeInv, TypeOK, Bystander, Unmoved, Outside, SameNodes, Goto, Begin
  <1>1. CASE UsedNode(t) \/ UsedSum(t) \/ ReadEntry(t)
    BY <1>1 DEF UsedNode, UsedSum, ReadEntry, shm
  <1>2. CASE FindGmem(t) \/ ResetRecord(t)
    BY <1>2 DEF FindGmem, ResetRecord, shm, regs
  <1>3. CASE PushProbe(t) \/ PushClaim(t)
    BY <1>3 DEF PushProbe, PushClaim, shm
  <1>4. CASE SetEntry(t)
    <2>1. SameNodes
      <3>1. rnode \in [Nodes -> RNodes]
        OBVIOUS
      <3>2. rnode' = [rnode EXCEPT ![node[t]].entry = cur[t]]
        BY <1>4 DEF SetEntry
      <3> HIDE DEF TypeInv, TypeOK
      <3> QED BY <3>1, <3>2 DEF RNodes
    <2>2. pc' = [pc EXCEPT ![t] = "idle"]
      BY <1>4 DEF SetEntry, Return
    <2>3. \A u \in Threads : u # t => cnt'[u] = cnt[u]
      BY <1>4 DEF SetEntry, Return, DropRegs
    <2> QED BY <2>1, <2>2, <2>3
  <1>5. CASE LinkEntry(t) \/ LastRec(t) \/ LinkTail(t)
    BY <1>5 DEF LinkEntry, LastRec, LinkTail, Return, DropRegs, shm, regs
  <1>6. CASE RemoveVisit(t) \/ RemoveBypass(t) \/ RemoveDelete(t)
    BY <1>6 DEF RemoveVisit, RemoveBypass, RemoveDelete, shm, regs
  <1>7. CASE CheckLimit(t)
    BY <1>7 DEF CheckLimit, Return, DropRegs, shm, regs
  <1>8. CASE \E d \in Dptrs : DriverAlloc(t, d)
    BY <1>8 DEF DriverAlloc, shm
  <1>9. CASE DriverAllocFails(t) \/ DriverFree(t) \/ DriverFreeFails(t)
    BY <1>9 DEF DriverAllocFails, DriverFree, DriverFreeFails, Return, DropRegs, shm
  <1>10. CASE Segfault(t)
    BY <1>10 DEF Segfault, Die, DropRegs, shm
  <1> QED BY <1>1, <1>2, <1>3, <1>4, <1>5, <1>6, <1>7, <1>8, <1>9, <1>10 DEF InCode

(* So is what the applications and the host do.                            *)
LEMMA OtherBystander ==
  ASSUME TypeInv,
         \/ \E t \in Threads, k \in AllocKinds, h \in Handles, b \in Sizes : StartAlloc(t, k, h, b)
         \/ \E t \in Threads, d \in Dptrs : StartFree(t, d) \/ ArrayDestroy(t, d)
         \/ \E t \in Threads, h \in Handles, v \in Stores : Overwrite(t, h, v)
         \/ \E p \in Procs : Die(p)
         \/ UNCHANGED vars
  PROVE  Bystander
  <1> USE DEF TypeInv, TypeOK, Bystander, Unmoved, Outside, SameNodes, Goto
  <1>1. ASSUME NEW t \in Threads,
               \/ \E k \in AllocKinds, h \in Handles, b \in Sizes : StartAlloc(t, k, h, b)
               \/ \E d \in Dptrs : StartFree(t, d)
        PROVE  Bystander
    <2>1. cnt' = cnt /\ cnt[t] = 0
      BY <1>1 DEF StartAlloc, StartFree, Indices
    <2> QED BY <1>1, <2>1 DEF StartAlloc, StartFree, shm
  <1>2. CASE \E t \in Threads, d \in Dptrs : ArrayDestroy(t, d)
    BY <1>2 DEF ArrayDestroy, shm, regs
  <1>3. CASE \E t \in Threads, h \in Handles, v \in Stores : Overwrite(t, h, v)
    BY <1>3 DEF Overwrite, shm, regs
  <1>4. CASE \E p \in Procs : Die(p)
    BY <1>4 DEF Die, DropRegs, shm
  <1>5. CASE UNCHANGED vars
    BY <1>5 DEF vars, shm, regs
  <1> QED BY <1>1, <1>2, <1>3, <1>4, <1>5

LEMMA NodeInit == Init => NodeInv
  BY DEF Init, NoCalls, InitRNode, NodeInv, UniqueKey, Existing

LEMMA NodeStep ==
  ASSUME OneThread
  PROVE  TypeInv /\ NodeInv /\ [Next]_vars => NodeInv'
  <1> SUFFICES ASSUME TypeInv, NodeInv, [Next]_vars PROVE NodeInv'
    OBVIOUS
  <1>1. TypeInv'
    BY TypeStep
  <1>2. CASE \E t \in Threads : InCode(t)
    <2>1. PICK t \in Threads : InCode(t)
      BY <1>2
    <2>2. CASE FindRnode(t)
      BY <2>2, FindRnodeNodes
    <2>3. CASE InsertProbe(t)
      BY <2>3, InsertProbeNodes
    <2>4. CASE InsertAssign(t)
      BY <1>1, <2>4, InsertAssignNodes
    <2>5. CASE ~FindRnode(t) /\ ~InsertProbe(t) /\ ~InsertAssign(t)
      <3>1. Bystander
        BY <2>1, <2>5, CodeBystander
      <3> QED BY <1>1, <3>1, BystanderNodes
    <2> QED BY <2>2, <2>3, <2>4, <2>5
  <1>3. CASE ~(\E t \in Threads : InCode(t))
    <2>1. Bystander
      BY <1>3, OtherBystander DEF Next
    <2> QED BY <1>1, <2>1, BystanderNodes
  <1> QED BY <1>2, <1>3

(* A process that calls from one thread never has two nodes, whatever the  *)
(* other processes do at the same time and wherever any of them dies.      *)
THEOREM OneNodePerProcess ==
  ASSUME OneThread
  PROVE  Spec => []UniqueKey
  <1>1. Init => TypeInv /\ NodeInv
    BY TypeInit, NodeInit
  <1>2. TypeInv /\ NodeInv /\ [Next]_vars => (TypeInv /\ NodeInv)'
    BY TypeStep, NodeStep
  <1>3. NodeInv => UniqueKey
    BY DEF NodeInv
  <1> QED BY <1>1, <1>2, <1>3, PTL DEF Spec

(* The same calls keep every node where find_rnode looks for it, so an     *)
(* insert is under way only for a key that has no node.                    *)
THEOREM NodesAreReachable ==
  ASSUME OneThread
  PROVE  Spec => []NodeInv
  <1>1. Init => TypeInv /\ NodeInv
    BY TypeInit, NodeInit
  <1>2. TypeInv /\ NodeInv /\ [Next]_vars => (TypeInv /\ NodeInv)'
    BY TypeStep, NodeStep
  <1> QED BY <1>1, <1>2, PTL DEF Spec

(***************************************************************************)
(* A node that no insert is about to overwrite stays                       *)
(***************************************************************************)
(* The slot that an insert goes for is free: an insert is under way only   *)
(* for a key without a node.                                               *)
LEMMA UsableIsFree ==
  ASSUME TypeInv, NodeInv, NEW t \in Threads, pc[t] = "insert", cnt[t] < NR, Usable(t)
  PROVE  ~Existing(Hash(Me(t), cnt[t]))
  <1>1. Hash(Me(t), cnt[t]) \in Nodes /\ Absent(t)
    BY HashInTable, MeType, TableAssumption DEF TypeInv, TypeOK, NodeInv
  <1> QED BY <1>1 DEF Usable, Available, SameKey, Absent, HasNode, Existing

LEMMA SettledStep ==
  ASSUME TypeInv, NodeInv, OneThread, [Next]_vars, NEW n \in Nodes, Settled(n)
  PROVE  Settled(n)' /\ rnode'[n].key = rnode[n].key
  <1>1. CASE Bystander
    <2>1. Existing(n)' /\ rnode'[n].key = rnode[n].key
      BY <1>1 DEF Bystander, SameNodes, Settled, Existing
    <2>2. ASSUME NEW u \in Threads, pc'[u] = "assign" PROVE Hash(Me(u), cnt'[u]) # n
      BY <1>1, <2>2 DEF Bystander, Unmoved, Outside, Settled
    <2> QED BY <2>1, <2>2 DEF Settled
  <1>2. ASSUME NEW t \in Threads, FindRnode(t)
        PROVE  Settled(n)' /\ rnode'[n].key = rnode[n].key
    <2>1. rnode' = rnode
      BY <1>2 DEF FindRnode, shm
    <2>2. \A u \in Threads : pc'[u] = "assign" => Unmoved(u)
      BY <1>2 DEF FindRnode, Begin, Goto, Unmoved, TypeInv, TypeOK
    <2> QED BY <2>1, <2>2 DEF Settled, Existing, Unmoved
  <1>3. ASSUME NEW t \in Threads, InsertProbe(t)
        PROVE  Settled(n)' /\ rnode'[n].key = rnode[n].key
    <2>1. rnode' = rnode
      BY <1>3 DEF InsertProbe, shm
    <2>2. \A u \in Threads : u # t => Unmoved(u)
      BY <1>3 DEF InsertProbe, Goto, Unmoved, TypeInv, TypeOK
    <2>3. pc'[t] = "assign" => cnt'[t] = cnt[t] /\ cnt[t] < NR /\ Usable(t) /\ pc[t] = "insert"
      BY <1>3 DEF InsertProbe, Goto, TypeInv, TypeOK
    <2>4. pc'[t] = "assign" => Hash(Me(t), cnt'[t]) # n
      BY <2>3, UsableIsFree DEF Settled
    <2> QED BY <2>1, <2>2, <2>4 DEF Settled, Existing, Unmoved
  <1>4. ASSUME NEW t \in Threads, InsertAssign(t)
        PROVE  Settled(n)' /\ rnode'[n].key = rnode[n].key
    <2>1. Hash(Me(t), cnt[t]) # n /\ rnode'[n] = rnode[n]
      BY <1>4 DEF InsertAssign, Settled, TypeInv, TypeOK
    <2>2. \A u \in Threads : pc'[u] = "assign" => Unmoved(u)
      BY <1>4 DEF InsertAssign, Begin, Goto, Unmoved, TypeInv, TypeOK
    <2> QED BY <2>1, <2>2 DEF Settled, Existing, Unmoved
  <1>5. Bystander \/ \E t \in Threads : FindRnode(t) \/ InsertProbe(t) \/ InsertAssign(t)
    BY CodeBystander, OtherBystander DEF Next
  <1> QED BY <1>1, <1>2, <1>3, <1>4, <1>5

(* Once its insert is done and no other process has picked the same slot,  *)
(* a process keeps its node: find_rnode finds it in every later call.      *)
THEOREM NodesAreKept ==
  ASSUME OneThread
  PROVE  Spec => SettledNodesStay
  <1>1. Init => TypeInv /\ NodeInv
    BY TypeInit, NodeInit
  <1>2. TypeInv /\ NodeInv /\ [Next]_vars => (TypeInv /\ NodeInv)'
    BY TypeStep, NodeStep
  <1>3. TypeInv /\ NodeInv /\ [Next]_vars =>
          [KeepsNodes]_vars
    BY SettledStep DEF KeepsNodes
  <1> QED BY <1>1, <1>2, <1>3, PTL DEF Spec, SettledNodesStay

(***************************************************************************)
(* insert_rnode gives nullptr only when the table is full                  *)
(*                                                                         *)
(* No step takes EXIST from a slot: delete_rnode has no caller.  So the    *)
(* slots that an insert has passed stay taken, and after NR probes they    *)
(* are the whole table, since the probes start anywhere and step by one.   *)
(***************************************************************************)
Passed(t) == \A i \in 0..(cnt[t] - 1) : Existing(Hash(Me(t), i))
FullInv ==
  /\ \A t \in Threads : pc[t] \in {"insert", "assign"} => Passed(t)
  /\ NullOnlyWhenFull

(* Every slot is the goal of one of the NR probes of a key.                *)
LEMMA ProbesCover ==
  ASSUME NEW k \in Procs, NEW n \in Nodes
  PROVE  \E i \in Nodes : Hash(k, i) = n
  <1> DEFINE a == k[1] * 64 + k[2]
  <1>1. a \in Nat /\ NR \in Nat \ {0} /\ n \in 0..(NR - 1)
    BY ThreadAssumption, TableAssumption DEF Nodes
  <1> HIDE DEF a
  <1> DEFINE q == a \div NR
             r == a % NR
  <1>2. q \in Nat /\ r \in 0..(NR - 1) /\ a = q * NR + r
    BY <1>1
  <1> HIDE DEF q, r
  <1>3. \A m, x \in Nat : x < NR => (m * NR + x) % NR = x
    BY <1>1, SMTT(20)
  <1>4. CASE r <= n
    <2>1. n - r \in Nodes /\ a + (n - r) = q * NR + n
      BY <1>1, <1>2, <1>4 DEF Nodes
    <2>2. (a + (n - r)) % NR = n
      BY <1>1, <1>2, <1>3, <2>1
    <2> QED BY <2>1, <2>2 DEF Hash, a
  <1>5. CASE r > n
    <2>1. n - r + NR \in Nodes /\ a + (n - r + NR) = (q + 1) * NR + n
      BY <1>1, <1>2, <1>5 DEF Nodes
    <2>2. (a + (n - r + NR)) % NR = n
      BY <1>1, <1>2, <1>3, <2>1
    <2> QED BY <2>1, <2>2 DEF Hash, a
  <1> QED BY <1>1, <1>2, <1>4, <1>5

(* What an insert has passed stays passed, and a nullptr stays true, as    *)
(* long as no slot in use is lost.                                         *)
KeepsExisting == \A n \in Nodes : Existing(n) => Existing(n)'

LEMMA ExistingStays ==
  ASSUME TypeInv, [Next]_vars
  PROVE  KeepsExisting
  <1>1. CASE Bystander
    BY <1>1 DEF Bystander, SameNodes, KeepsExisting, Existing
  <1>2. ASSUME NEW t \in Threads, FindRnode(t) \/ InsertProbe(t) PROVE KeepsExisting
    BY <1>2 DEF FindRnode, InsertProbe, shm, KeepsExisting, Existing
  <1>3. ASSUME NEW t \in Threads, InsertAssign(t) PROVE KeepsExisting
    <2>1. \A n \in Nodes : rnode'[n].stat = "EXIST" \/ rnode'[n] = rnode[n]
      BY <1>3 DEF InsertAssign, TypeInv, TypeOK
    <2> QED BY <2>1 DEF KeepsExisting, Existing
  <1> QED BY <1>1, <1>2, <1>3, CodeBystander, OtherBystander DEF Next

(* How a thread gets to each place where FullInv says something of it.     *)
LEMMA EntersEntry ==
  ASSUME TypeInv, [Next]_vars, NEW u \in Threads, pc'[u] = "entry", node'[u] = -1
  PROVE  \/ pc[u] = "entry" /\ node[u] = -1
         \/ pc[u] = "insert" /\ cnt[u] = NR
  <1> USE DEF TypeInv, TypeOK, Goto, Begin
  <1>1. ASSUME NEW t \in Threads, FindRnode(t)
        PROVE  u # t /\ pc[u] = pc'[u] /\ node[u] = node'[u]
    <2>1. \A i \in Nat : Hash(Me(t), i) # -1
      BY HashInTable, MeType DEF Nodes
    <2>2. cnt[t] \in Nat
      BY TableAssumption
    <2> QED BY <1>1, <2>1, <2>2 DEF FindRnode
  <1>2. ASSUME NEW t \in Threads, InsertProbe(t)
        PROVE  \/ pc[u] = "entry" /\ node[u] = -1
               \/ pc[u] = "insert" /\ cnt[u] = NR
    BY <1>2 DEF InsertProbe
  <1>3. ASSUME NEW t \in Threads, InsertAssign(t)
        PROVE  u # t /\ pc[u] = pc'[u] /\ node[u] = node'[u]
    <2>1. Hash(Me(t), cnt[t]) # -1
      BY HashInTable, MeType, TableAssumption DEF Nodes
    <2> QED BY <1>3, <2>1 DEF InsertAssign
  <1>4. ASSUME NEW t \in Threads, InCode(t),
               ~FindRnode(t), ~InsertProbe(t), ~InsertAssign(t)
        PROVE  pc[u] = pc'[u] /\ node[u] = node'[u]
    <2>1. CASE UsedNode(t) \/ UsedSum(t) \/ ReadEntry(t)
      BY <2>1 DEF UsedNode, UsedSum, ReadEntry
    <2>2. CASE FindGmem(t) \/ ResetRecord(t) \/ PushProbe(t) \/ PushClaim(t)
      BY <2>2 DEF FindGmem, ResetRecord, PushProbe, PushClaim, regs
    <2>3. CASE LinkEntry(t) \/ SetEntry(t) \/ LastRec(t) \/ LinkTail(t)
      BY <2>3 DEF LinkEntry, SetEntry, LastRec, LinkTail, Return, DropRegs, regs
    <2>4. CASE RemoveVisit(t) \/ RemoveBypass(t) \/ RemoveDelete(t)
      BY <2>4 DEF RemoveVisit, RemoveBypass, RemoveDelete, regs
    <2>5. CASE CheckLimit(t)
      BY <2>5 DEF CheckLimit, Return, DropRegs, regs
    <2>6. CASE \E d \in Dptrs : DriverAlloc(t, d)
      BY <2>6 DEF DriverAlloc
    <2>7. CASE DriverAllocFails(t) \/ DriverFree(t) \/ DriverFreeFails(t)
      BY <2>7 DEF DriverAllocFails, DriverFree, DriverFreeFails, Return, DropRegs
    <2>8. CASE Segfault(t)
      BY <2>8 DEF Segfault, Die, DropRegs
    <2> QED BY <1>4, <2>1, <2>2, <2>3, <2>4, <2>5, <2>6, <2>7, <2>8 DEF InCode
  <1>5. CASE \E t \in Threads, k \in AllocKinds, h \in Handles, b \in Sizes : StartAlloc(t, k, h, b)
    BY <1>5 DEF StartAlloc
  <1>6. CASE \E t \in Threads, d \in Dptrs : StartFree(t, d) \/ ArrayDestroy(t, d)
    BY <1>6 DEF StartFree, ArrayDestroy, regs
  <1>7. CASE \E t \in Threads, h \in Handles, v \in Stores : Overwrite(t, h, v)
    BY <1>7 DEF Overwrite, regs
  <1>8. CASE \E p \in Procs : Die(p)
    BY <1>8 DEF Die, DropRegs
  <1>9. CASE UNCHANGED vars
    BY <1>9 DEF vars, regs
  <1> QED BY <1>1, <1>2, <1>3, <1>4, <1>5, <1>6, <1>7, <1>8, <1>9 DEF Next

(* A thread goes on with an insert where it stands, starts one at its      *)
(* first probe, or has just passed a slot in use.                          *)
LEMMA GoesOnInserting ==
  ASSUME TypeInv, [Next]_vars, NEW u \in Threads, pc'[u] \in {"insert", "assign"}
  PROVE  \/ pc[u] \in {"insert", "assign"} /\ cnt'[u] = cnt[u]
         \/ cnt'[u] = 0
         \/ /\ pc[u] = "insert" /\ cnt[u] < NR /\ cnt'[u] = cnt[u] + 1
            /\ Existing(Hash(Me(u), cnt[u]))
  <1>1. CASE Bystander
    <2>1. Unmoved(u)
      BY <1>1 DEF Bystander, Outside
    <2> QED BY <2>1 DEF Unmoved
  <1>2. ASSUME NEW t \in Threads, FindRnode(t)
        PROVE  \/ pc[u] \in {"insert", "assign"} /\ cnt'[u] = cnt[u]
               \/ cnt'[u] = 0
    BY <1>2 DEF FindRnode, Begin, Goto, TypeInv, TypeOK
  <1>3. ASSUME NEW t \in Threads, InsertProbe(t)
        PROVE  \/ pc[u] \in {"insert", "assign"} /\ cnt'[u] = cnt[u]
               \/ /\ pc[u] = "insert" /\ cnt[u] < NR /\ cnt'[u] = cnt[u] + 1
                  /\ Existing(Hash(Me(u), cnt[u]))
    <2>1. CASE u # t
      BY <1>3, <2>1 DEF InsertProbe, Goto, TypeInv, TypeOK
    <2>2. CASE u = t
      <3>1. CASE cnt[t] < NR /\ ~Usable(t) /\ cnt' = [cnt EXCEPT ![t] = @ + 1]
        <4>1. Hash(Me(t), cnt[t]) \in Nodes
          BY HashInTable, MeType, TableAssumption DEF TypeInv, TypeOK
        <4>2. rnode[Hash(Me(t), cnt[t])].stat \in Statuses
          BY <4>1 DEF TypeInv, TypeOK, RNodes
        <4>3. Existing(Hash(Me(t), cnt[t]))
          BY <3>1, <4>2 DEF Usable, Available, Statuses, Existing
        <4> QED BY <1>3, <2>2, <3>1, <4>3 DEF InsertProbe, TypeInv, TypeOK
      <3>2. CASE cnt' = cnt
        BY <1>3, <2>2, <3>2 DEF InsertProbe
      <3> QED BY <1>3, <3>1, <3>2 DEF InsertProbe
    <2> QED BY <2>1, <2>2
  <1>4. ASSUME NEW t \in Threads, InsertAssign(t)
        PROVE  pc[u] \in {"insert", "assign"} /\ cnt'[u] = cnt[u]
    BY <1>4 DEF InsertAssign, Begin, Goto, TypeInv, TypeOK
  <1> QED BY <1>1, <1>2, <1>3, <1>4, CodeBystander, OtherBystander DEF Next

LEMMA FullInit == Init => FullInv
  BY DEF Init, NoCalls, FullInv, NullOnlyWhenFull

LEMMA FullStep == TypeInv /\ FullInv /\ [Next]_vars => FullInv'
  <1> SUFFICES ASSUME TypeInv, FullInv, [Next]_vars PROVE FullInv'
    OBVIOUS
  <1>1. KeepsExisting
    BY ExistingStays
  <1>2. ASSUME NEW u \in Threads, NEW i \in Nat PROVE Hash(Me(u), i) \in Nodes
    BY HashInTable, MeType
  <1>3. ASSUME NEW u \in Threads, pc'[u] \in {"insert", "assign"} PROVE Passed(u)'
    <2>1. cnt[u] \in Nat /\ cnt'[u] \in Nat
      BY TypeStep, TableAssumption DEF TypeInv, TypeOK
    <2>2. CASE cnt'[u] = 0
      BY <2>2 DEF Passed
    <2>3. CASE pc[u] \in {"insert", "assign"} /\ cnt'[u] = cnt[u]
      <3>1. Passed(u)
        BY <2>3 DEF FullInv
      <3> QED BY <1>1, <1>2, <2>1, <2>3, <3>1 DEF Passed, KeepsExisting
    <2>4. CASE /\ pc[u] = "insert" /\ cnt'[u] = cnt[u] + 1
               /\ Existing(Hash(Me(u), cnt[u]))
      <3>1. Passed(u)
        BY <2>4 DEF FullInv
      <3>2. \A i \in 0..(cnt'[u] - 1) : i \in Nat /\ (i \in 0..(cnt[u] - 1) \/ i = cnt[u])
        BY <2>1, <2>4
      <3> QED BY <1>1, <1>2, <2>4, <3>1, <3>2 DEF Passed, KeepsExisting
    <2> QED BY <1>3, <2>2, <2>3, <2>4, GoesOnInserting
  <1>4. ASSUME NEW u \in Threads, pc'[u] = "entry", node'[u] = -1, NEW n \in Nodes
        PROVE  Existing(n)'
    <2>1. CASE pc[u] = "entry" /\ node[u] = -1
      BY <1>1, <2>1 DEF FullInv, NullOnlyWhenFull, KeepsExisting
    <2>2. CASE pc[u] = "insert" /\ cnt[u] = NR
      <3>1. PICK i \in Nodes : Hash(Me(u), i) = n
        BY ProbesCover, MeType
      <3> QED BY <1>1, <2>2, <3>1 DEF FullInv, Passed, KeepsExisting, Nodes
    <2> QED BY <1>4, <2>1, <2>2, EntersEntry
  <1> QED BY <1>3, <1>4 DEF FullInv, NullOnlyWhenFull

(* insert_rnode never turns a process away while a slot is free, whatever  *)
(* the threads of all processes do at the same time.                       *)
THEOREM NullMeansFull == Spec => []NullOnlyWhenFull
  <1>1. Init => TypeInv /\ FullInv
    BY TypeInit, FullInit
  <1>2. TypeInv /\ FullInv /\ [Next]_vars => (TypeInv /\ FullInv)'
    BY TypeStep, FullStep
  <1>3. FullInv => NullOnlyWhenFull
    BY DEF FullInv
  <1> QED BY <1>1, <1>2, <1>3, PTL DEF Spec

(***************************************************************************)
(* Records, in the Keep workload                                           *)
(*                                                                         *)
(* With no frees a record is written by a claim, by the registration of a  *)
(* record that is there, and by links, which leave its variable alone; and *)
(* a claim starts only on a slot that is empty.                            *)
(***************************************************************************)
Freeing == {"remove", "bypass", "delete", "release"}
NoFrees ==
  \A t \in Threads :
    pc[t] \notin {"idle", "dead"} => pc[t] \notin Freeing /\ arg[t].kind # "free"

LEMMA KeepIsNext == KeepNext => Next
  BY DEF KeepNext, Keep, Next

LEMMA NoFreesStep == TypeInv /\ NoFrees /\ [KeepNext]_vars => NoFrees'
  <1> SUFFICES ASSUME TypeInv, NoFrees, [KeepNext]_vars PROVE NoFrees'
    OBVIOUS
  <1> USE DEF TypeInv, TypeOK, NoFrees, Freeing, Goto, Begin
  <1>1. ASSUME NEW t \in Threads, InCode(t) PROVE NoFrees'
    <2>1. CASE UsedNode(t) \/ UsedSum(t) \/ CheckLimit(t)
      BY <2>1 DEF UsedNode, UsedSum, CheckLimit, Return, DropRegs, regs
    <2>2. CASE FindRnode(t) \/ InsertProbe(t) \/ InsertAssign(t)
      BY <2>2 DEF FindRnode, InsertProbe, InsertAssign
    <2>3. CASE ReadEntry(t) \/ FindGmem(t) \/ ResetRecord(t)
      BY <2>3 DEF ReadEntry, FindGmem, ResetRecord, regs
    <2>4. CASE PushProbe(t) \/ PushClaim(t)
      BY <2>4 DEF PushProbe, PushClaim
    <2>5. CASE LinkEntry(t) \/ SetEntry(t) \/ LastRec(t) \/ LinkTail(t)
      BY <2>5 DEF LinkEntry, SetEntry, LastRec, LinkTail, Return, DropRegs, regs
    <2>6. CASE RemoveVisit(t) \/ RemoveBypass(t) \/ RemoveDelete(t)
      BY <2>6 DEF RemoveVisit, RemoveBypass, RemoveDelete
    <2>7. ASSUME NEW d \in Dptrs, DriverAlloc(t, d) PROVE NoFrees'
      <3>1. arg[t].kind # "free" /\ arg \in [Threads -> Args]
        BY <2>7 DEF DriverAlloc
      <3>2. arg'[t].kind = arg[t].kind /\ \A u \in Threads : u # t => arg'[u] = arg[u]
        BY <2>7, <3>1 DEF DriverAlloc, Args
      <3> QED BY <2>7, <3>1, <3>2 DEF DriverAlloc
    <2>8. CASE DriverAllocFails(t) \/ DriverFree(t) \/ DriverFreeFails(t)
      BY <2>8 DEF DriverAllocFails, DriverFree, DriverFreeFails, Return, DropRegs
    <2>9. CASE Segfault(t)
      BY <2>9 DEF Segfault, Die, DropRegs
    <2> QED BY <1>1, <2>1, <2>2, <2>3, <2>4, <2>5, <2>6, <2>7, <2>8, <2>9 DEF InCode
  <1>2. ASSUME NEW t \in Threads, NEW k \in AllocKinds, NEW h \in Handles,
               NEW b \in Sizes, StartAlloc(t, k, h, b)
        PROVE  NoFrees'
    <2>1. k # "free"
      BY CallAssumption
    <2> QED BY <1>2, <2>1 DEF StartAlloc
  <1>3. ASSUME NEW p \in Procs, Die(p) PROVE NoFrees'
    BY <1>3 DEF Die, DropRegs
  <1>4. CASE UNCHANGED vars
    BY <1>4 DEF vars, regs
  <1> QED BY <1>1, <1>2, <1>3, <1>4 DEF KeepNext, Keep

(* What a step does to the records: claims and registrations write those   *)
(* that SettledRecord and Reregistered speak of.                           *)
LEMMA WritesRecord ==
  ASSUME TypeInv, NoFrees, [KeepNext]_vars, NEW g \in Slots
  PROVE  \/ gmem'[g].ptr = gmem[g].ptr
         \/ \E t \in Threads : pc[t] = "claim" /\ cnt[t] = g
         \/ Reregistered(g)
  <1>1. ASSUME NEW t \in Threads, ResetRecord(t)
        PROVE  gmem'[g].ptr = gmem[g].ptr \/ Reregistered(g)
    <2>1. CASE cur[t] = g
      BY <1>1, <2>1 DEF ResetRecord, Reregistered
    <2>2. CASE cur[t] # g
      BY <1>1, <2>2 DEF ResetRecord, TypeInv, TypeOK
    <2> QED BY <2>1, <2>2
  <1>2. ASSUME NEW t \in Threads, PushClaim(t)
        PROVE  gmem'[g].ptr = gmem[g].ptr \/ (pc[t] = "claim" /\ cnt[t] = g)
    <2>1. cnt[t] # g => gmem'[g] = gmem[g]
      BY <1>2 DEF PushClaim, TypeInv, TypeOK
    <2>2. pc[t] = "claim"
      BY <1>2 DEF PushClaim
    <2>3. CASE cnt[t] = g
      BY <2>2, <2>3
    <2>4. CASE cnt[t] # g
      BY <2>1, <2>4
    <2> QED BY <2>3, <2>4
  <1>3. ASSUME NEW t \in Threads, LinkTail(t)
        PROVE  gmem'[g].ptr = gmem[g].ptr
    <2>1. gmem[g] \in GMems /\ gmem' = [gmem EXCEPT ![prv[t]].next = cur[t]]
      BY <1>3 DEF LinkTail, TypeInv, TypeOK
    <2>2. gmem \in [Slots -> GMems]
      BY DEF TypeInv, TypeOK
    <2> QED BY <2>1, <2>2 DEF GMems
  <1>4. ASSUME NEW t \in Threads, InCode(t),
               ~ResetRecord(t), ~PushClaim(t), ~LinkTail(t)
        PROVE  gmem' = gmem
    <2>1. ~RemoveBypass(t) /\ ~RemoveDelete(t)
      BY DEF NoFrees, Freeing, RemoveBypass, RemoveDelete
    <2>2. CASE UsedNode(t) \/ UsedSum(t) \/ CheckLimit(t) \/ FindRnode(t)
      BY <2>2 DEF UsedNode, UsedSum, CheckLimit, FindRnode, shm
    <2>3. CASE InsertProbe(t) \/ InsertAssign(t) \/ ReadEntry(t) \/ FindGmem(t)
      BY <2>3 DEF InsertProbe, InsertAssign, ReadEntry, FindGmem, shm
    <2>4. CASE PushProbe(t) \/ LinkEntry(t) \/ SetEntry(t) \/ LastRec(t) \/ RemoveVisit(t)
      BY <2>4 DEF PushProbe, LinkEntry, SetEntry, LastRec, RemoveVisit, shm
    <2>5. CASE (\E d \in Dptrs : DriverAlloc(t, d)) \/ DriverAllocFails(t)
      BY <2>5 DEF DriverAlloc, DriverAllocFails, shm
    <2>6. CASE DriverFree(t) \/ DriverFreeFails(t) \/ Segfault(t)
      BY <2>6 DEF DriverFree, DriverFreeFails, Segfault, Die, shm
    <2> QED BY <1>4, <2>1, <2>2, <2>3, <2>4, <2>5, <2>6 DEF InCode
  <1>5. ASSUME NEW t \in Threads, NEW k \in AllocKinds, NEW h \in Handles,
               NEW b \in Sizes, StartAlloc(t, k, h, b)
        PROVE  gmem' = gmem
    BY <1>5 DEF StartAlloc, shm
  <1>6. ASSUME NEW p \in Procs, Die(p) PROVE gmem' = gmem
    BY <1>6 DEF Die, shm
  <1>7. CASE UNCHANGED vars
    BY <1>7 DEF vars, shm
  <1> QED BY <1>1, <1>2, <1>3, <1>4, <1>5, <1>6, <1>7 DEF KeepNext, Keep

(* A claim starts on an empty slot, and goes on where it started.          *)
LEMMA ClaimsEmpty ==
  ASSUME TypeInv, [KeepNext]_vars, NEW u \in Threads, pc'[u] = "claim"
  PROVE  \/ pc[u] = "claim" /\ cnt'[u] = cnt[u]
         \/ pc[u] = "push" /\ cnt'[u] = cnt[u] /\ Empty(gmem[cnt[u]])
  <1> USE DEF TypeInv, TypeOK, Goto, Begin
  <1>1. ASSUME NEW t \in Threads, InCode(t)
        PROVE  \/ pc[u] = "claim" /\ cnt'[u] = cnt[u]
               \/ pc[u] = "push" /\ cnt'[u] = cnt[u] /\ Empty(gmem[cnt[u]])
    <2>1. CASE UsedNode(t) \/ UsedSum(t) \/ CheckLimit(t)
      BY <2>1 DEF UsedNode, UsedSum, CheckLimit, Return, DropRegs, regs
    <2>2. CASE FindRnode(t) \/ InsertProbe(t) \/ InsertAssign(t)
      BY <2>2 DEF FindRnode, InsertProbe, InsertAssign
    <2>3. CASE ReadEntry(t) \/ FindGmem(t) \/ ResetRecord(t)
      BY <2>3 DEF ReadEntry, FindGmem, ResetRecord, regs
    <2>4. CASE PushProbe(t) \/ PushClaim(t)
      BY <2>4 DEF PushProbe, PushClaim
    <2>5. CASE LinkEntry(t) \/ SetEntry(t) \/ LastRec(t) \/ LinkTail(t)
      BY <2>5 DEF LinkEntry, SetEntry, LastRec, LinkTail, Return, DropRegs, regs
    <2>6. CASE RemoveVisit(t) \/ RemoveBypass(t) \/ RemoveDelete(t)
      BY <2>6 DEF RemoveVisit, RemoveBypass, RemoveDelete, regs
    <2>7. CASE (\E d \in Dptrs : DriverAlloc(t, d)) \/ DriverAllocFails(t)
      BY <2>7 DEF DriverAlloc, DriverAllocFails, Return, DropRegs
    <2>8. CASE DriverFree(t) \/ DriverFreeFails(t) \/ Segfault(t)
      BY <2>8 DEF DriverFree, DriverFreeFails, Segfault, Die, Return, DropRegs
    <2> QED BY <1>1, <2>1, <2>2, <2>3, <2>4, <2>5, <2>6, <2>7, <2>8 DEF InCode
  <1>2. ASSUME NEW t \in Threads, NEW k \in AllocKinds, NEW h \in Handles,
               NEW b \in Sizes, StartAlloc(t, k, h, b)
        PROVE  pc[u] = "claim" /\ cnt'[u] = cnt[u]
    BY <1>2 DEF StartAlloc
  <1>3. ASSUME NEW p \in Procs, Die(p) PROVE pc[u] = "claim" /\ cnt'[u] = cnt[u]
    BY <1>3 DEF Die, DropRegs
  <1>4. CASE UNCHANGED vars
    BY <1>4 DEF vars, regs
  <1> QED BY <1>1, <1>2, <1>3, <1>4 DEF KeepNext, Keep

LEMMA RecordStep ==
  ASSUME TypeInv, NoFrees, [KeepNext]_vars
  PROVE  KeepsRecords
  <1> SUFFICES ASSUME NEW g \in Slots, SettledRecord(g), ~Reregistered(g)
               PROVE  SettledRecord(g)' /\ gmem'[g].ptr = gmem[g].ptr
    BY DEF KeepsRecords
  <1>1. gmem'[g].ptr = gmem[g].ptr
    BY WritesRecord DEF SettledRecord
  <1>2. ASSUME NEW u \in Threads, pc'[u] = "claim" PROVE cnt'[u] # g
    BY <1>2, ClaimsEmpty DEF SettledRecord
  <1> QED BY <1>1, <1>2 DEF SettledRecord, Empty

(* While nobody frees, a record loses its variable only to processes that  *)
(* already were about to claim its slot when it was claimed, or that share *)
(* it since: threads, nodes and re-used variables make no difference.      *)
THEOREM RecordsAreKept == KeepSpec => SettledRecordsStay
  <1>1. Init => TypeInv /\ NoFrees
    BY TypeInit DEF Init, NoCalls, NoFrees
  <1>2. TypeInv /\ NoFrees /\ [KeepNext]_vars => (TypeInv /\ NoFrees)'
    <2>1. [KeepNext]_vars => [Next]_vars
      BY KeepIsNext
    <2> QED BY <2>1, TypeStep, NoFreesStep
  <1>3. TypeInv /\ NoFrees /\ [KeepNext]_vars => [KeepsRecords]_vars
    BY RecordStep
  <1> QED BY <1>1, <1>2, <1>3, PTL DEF KeepSpec, SettledRecordsStay
=============================================================================
