----------------------------- MODULE FreeProofs -----------------------------
(***************************************************************************)
(* The records of one process that allocates and frees in any order: a     *)
(* record on its chain always has its allocation, and find_gmem never      *)
(* finds a record of the allocation that it is about to record.            *)
(*                                                                         *)
(* remove_gmem_by_dptr empties a record and leaves the entry of the node   *)
(* alone, so a chain may lose its tail when its first record goes.  What   *)
(* saves the properties is that push_gmem fills slot 0 first: the entry of *)
(* the node, once set, is 0 for good.                                      *)
(***************************************************************************)
EXTENDS ChainProofs

(* One process on the host, and it calls from one thread.                  *)
OneProcess == \A p, q \in Procs : p = q

(***************************************************************************)
(* The inductive invariant                                                 *)
(***************************************************************************)
(* The records that a walk from the entry visits.                          *)
Linked == {g \in Slots : \E n \in Nodes : Existing(n) /\ g \in Chain(n)}

(* Every link leads to a record in use, and to each record one at most;    *)
(* none leads to the entry, which is record 0.                             *)
InOrder ==
  /\ \A n \in Nodes : Existing(n) => rnode[n].entry \in {-1, 0}
  /\ \A g \in Linked : gmem[g].next # -1 =>
       gmem[g].next \in Slots \ {0} /\ ~Empty(gmem[gmem[g].next])
  /\ \A f, g \in Linked : gmem[f].next = gmem[g].next /\ gmem[f].next # -1 => f = g
  /\ \A g \in Slots : Empty(gmem[g]) => gmem[g].next = -1

(* The records are allocations of the process, each one once.              *)
Current ==
  \A p \in Procs :
    /\ \A g \in Linked :
         /\ gmem[g].ptr \in Handles /\ mem[p][gmem[g].ptr] \in Live(p)
         /\ gmem[g].bytes = drv[p][mem[p][gmem[g].ptr]]
    /\ \A f, g \in Linked : mem[p][gmem[f].ptr] = mem[p][gmem[g].ptr] => f = g

(* The records that a walk from cur visits.                                *)
Ahead(t) ==
  {g \in Slots : \A S \in SUBSET Slots : cur[t] \in S \cup {-1} /\ Closed(S) => g \in S}

(* Record g is about the device pointer of the call.                       *)
About(t, g) == mem[Me(t)][gmem[g].ptr] = arg[t].dptr

(* What a call knows about its arguments, and which node it works for.     *)
Asked(t) ==
  /\ pc[t] \in Asking =>
       /\ arg[t].kind # "free" /\ arg[t].hdl \in Handles
       /\ mem[Me(t)][arg[t].hdl] \notin Live(Me(t)) /\ arg[t].bytes \in Sizes
  /\ pc[t] \in Registering \cup {"insert", "assign"} => arg[t].kind # "free"
  /\ InAddGmem(t) =>
       /\ arg[t].hdl \in Handles /\ arg[t].dptr \in Live(Me(t))
       /\ mem[Me(t)][arg[t].hdl] = arg[t].dptr
       /\ drv[Me(t)][arg[t].dptr] = arg[t].bytes
AtNode(t) ==
  /\ (pc[t] = "entry" /\ node[t] # -1) \/ pc[t] \in Registering \cup {"remove", "bypass", "delete"}
       => node[t] \in Nodes /\ HasNode(t, node[t])
  /\ pc[t] \in Asking \cup {"idle", "find", "insert", "assign"} => node[t] = -1

(* While it registers: no other record is about the pointer, and the first *)
(* slot without a record is taken.                                         *)
Adding(t) ==
  /\ InAddGmem(t) =>
       \A g \in Linked : About(t, g) => pc[t] \in Linking /\ g = cur[t]
  /\ pc[t] = "search" =>
       cur[t] = -1 \/ (cur[t] \in Slots /\ Empty(gmem[cur[t]])) \/ cur[t] \in Linked
  /\ pc[t] \in {"push", "claim"} => \A g \in Slots : g < cnt[t] => ~Empty(gmem[g])
  /\ pc[t] = "claim" => Empty(gmem[cnt[t]])
  /\ pc[t] \in Linking =>
       \/ cur[t] = -1 /\ Full
       \/ /\ cur[t] \in Slots /\ gmem[cur[t]].ptr = arg[t].hdl
          /\ gmem[cur[t]].bytes = arg[t].bytes /\ gmem[cur[t]].next = -1
          /\ \A g \in Slots : g <= cur[t] => ~Empty(gmem[g])
          /\ cur[t] \in Linked => Linked = {cur[t]}
  /\ pc[t] = "adopt" => \A n \in Nodes : Existing(n) => rnode[n].entry = -1
  /\ pc[t] \in {"tail", "append"} => prv[t] \in Linked
  /\ pc[t] = "append" => gmem[prv[t]].next = -1 /\ prv[t] # cur[t]

(* While it frees: the record about the pointer is still ahead, until      *)
(* there is none.                                                          *)
Removing(t) ==
  /\ pc[t] \notin Freeing \cup {"tail", "append"} => prv[t] = -1
  /\ pc[t] = "remove" =>
       /\ \/ cur[t] = -1
          \/ prv[t] = -1 /\ cur[t] = 0
          \/ prv[t] \in Linked /\ cur[t] \in Linked /\ gmem[prv[t]].next = cur[t]
       /\ \A g \in Linked : About(t, g) => g \in Ahead(t)
  /\ pc[t] = "bypass" =>
       /\ prv[t] \in Linked /\ cur[t] \in Linked
       /\ gmem[prv[t]].next = cur[t] /\ About(t, cur[t])
  /\ pc[t] = "delete" =>
       /\ cur[t] \in Slots
       /\ \A g \in Linked \ {cur[t]} : ~About(t, g) /\ gmem[g].next # cur[t]
  /\ pc[t] = "release" => \A g \in Linked : ~About(t, g)

(* Before the first record has become the entry no other slot is in use.   *)
Unused(t) ==
  (\A n \in Nodes : Existing(n) => rnode[n].entry = -1) =>
    \A g \in Slots : Empty(gmem[g]) \/ (pc[t] \in {"link", "adopt"} /\ g = cur[t])

Place(t) ==
  Asked(t) /\ AtNode(t) /\ Adding(t) /\ Removing(t) /\ Unused(t) /\ pc[t] \notin {"reset", "dead"}

Living == InOrder /\ Current /\ \A t \in Threads : Place(t)

(* The process is gone; what it left in the segments is nobody's.          *)
Ended ==
  /\ \A p \in Procs : ~alive[p]
  /\ \A t \in Threads : pc[t] = "dead"
FreeInv == TypeInv /\ NodeInv /\ (Living \/ Ended)

(***************************************************************************)
(* The one node and the records that it leads to                           *)
(***************************************************************************)
LEMMA Alone ==
  ASSUME OneThread, OneProcess, NEW t \in Threads
  PROVE  (\A u \in Threads : u = t) /\ (\A p \in Procs : p = Me(t)) /\ Me(t) \in Procs
  BY MeType DEF OneThread, OneProcess

LEMMA OnlyNode ==
  ASSUME OneProcess, NodeInv, NEW m \in Nodes, NEW n \in Nodes, Existing(m), Existing(n)
  PROVE  m = n
  <1>1. rnode[m].key = rnode[n].key
    BY DEF NodeInv, OneProcess
  <1> QED BY <1>1 DEF NodeInv, UniqueKey

LEMMA LinkedUsed == \A g \in Linked : g \in Slots /\ ~Empty(gmem[g])
  BY DEF Linked, Chain

LEMMA LinkedIsChain ==
  ASSUME OneProcess, NodeInv, NEW n \in Nodes, Existing(n)
  PROVE  Linked = Chain(n)
  <1>1. \A m \in Nodes : Existing(m) => m = n
    BY OnlyNode
  <1> QED BY <1>1 DEF Linked, Chain

LEMMA LinkedStart ==
  ASSUME OneProcess, TypeInv, NodeInv, NEW n \in Nodes, Existing(n),
         rnode[n].entry # -1, ~Empty(gmem[rnode[n].entry])
  PROVE  rnode[n].entry \in Linked
  <1>1. rnode[n].entry \in Slots
    BY EntryType, TableAssumption DEF TypeInv, Slots
  <1> QED BY <1>1, LinkedIsChain DEF Chain

LEMMA LinkedNext ==
  ASSUME OneProcess, TypeInv, NodeInv, InOrder, NEW g \in Linked, gmem[g].next # -1
  PROVE  gmem[g].next \in Linked
  <1>1. PICK n \in Nodes : Existing(n) /\ g \in Chain(n)
    BY DEF Linked
  <1>2. gmem[g].next \in Slots /\ ~Empty(gmem[gmem[g].next])
    BY DEF InOrder
  <1>3. ASSUME NEW S \in SUBSET Slots, rnode[n].entry \in S \cup {-1}, Closed(S)
        PROVE  gmem[g].next \in S
    <2>1. g \in S
      BY <1>1, <1>3, ChainLeast
    <2> QED BY <1>3, <2>1 DEF Closed
  <1>4. gmem[g].next \in Chain(n)
    BY <1>2, <1>3 DEF Chain
  <1> QED BY <1>1, <1>2, <1>4 DEF Linked

(* Nothing is linked but what is in every set that holds the entries and   *)
(* that no link leaves, now and after a step.                              *)
LEMMA LinkedLeast ==
  ASSUME NEW S \in SUBSET Slots,
         \A n \in Nodes : Existing(n) => rnode[n].entry \in S \cup {-1},
         \A g \in S : gmem[g].next \in S \cup {-1}
  PROVE  Linked \subseteq S
  <1>1. \A n \in Nodes : Existing(n) => Chain(n) \subseteq S
    BY ChainLeast DEF Closed
  <1> QED BY <1>1 DEF Linked

LEMMA LinkedLeastAfter ==
  ASSUME NEW CONSTANT S \in SUBSET Slots,
         \A n \in Nodes : Existing(n)' => rnode'[n].entry \in S \cup {-1},
         \A g \in S : gmem'[g].next \in S \cup {-1}
  PROVE  \A g \in Linked' : g \in S /\ ~Empty(gmem'[g])
  <1>1. \A n \in Nodes : Existing(n)' => Chain(n)' \subseteq S
    BY ChainLeastAfter
  <1> QED BY <1>1 DEF Linked, Chain

(* While there is no record to start from nothing is linked.               *)
LEMMA NothingLinked ==
  ASSUME TypeInv, InOrder,
         \A n \in Nodes : Existing(n) => rnode[n].entry = -1 \/ Empty(gmem[0])
  PROVE  Linked = {}
  <1>1. 0 \in Slots /\ -1 \notin Slots
    BY TableAssumption DEF Slots
  <1>2. CASE Empty(gmem[0])
    <2>1. {0} \in SUBSET Slots /\ \A g \in {0} : gmem[g].next \in {0} \cup {-1}
      BY <1>1, <1>2 DEF InOrder
    <2>2. \A n \in Nodes : Existing(n) => rnode[n].entry \in {0} \cup {-1}
      BY DEF InOrder
    <2>3. Linked \subseteq {0}
      BY <2>1, <2>2, LinkedLeast
    <2> QED BY <1>2, <2>3, LinkedUsed
  <1>3. CASE ~Empty(gmem[0])
    <2>1. {} \in SUBSET Slots /\ \A n \in Nodes : Existing(n) => rnode[n].entry \in {} \cup {-1}
      BY <1>3
    <2>2. Linked \subseteq {}
      BY <2>1, LinkedLeast
    <2> QED BY <2>2
  <1> QED BY <1>2, <1>3

(* Otherwise the first record is record 0.                                 *)
LEMMA FirstLinked ==
  ASSUME OneProcess, TypeInv, NodeInv, InOrder, Linked # {}
  PROVE  /\ 0 \in Linked
         /\ \A n \in Nodes : Existing(n) => rnode[n].entry = 0
  <1>1. PICK n \in Nodes : Existing(n) /\ rnode[n].entry # -1 /\ ~Empty(gmem[0])
    BY NothingLinked
  <1>2. rnode[n].entry = 0
    BY <1>1 DEF InOrder
  <1>3. 0 \in Linked
    BY <1>1, <1>2, LinkedStart
  <1> QED BY <1>1, <1>2, <1>3, OnlyNode

(* A step that leaves the segments alone leaves the links alone.           *)
LEMMA SameLinked ==
  ASSUME UNCHANGED shm
  PROVE  Linked' = Linked /\ Full' = Full /\ (InOrder => InOrder')
  <1>1. rnode' = rnode /\ gmem' = gmem
    BY DEF shm
  <1>2. (\A n \in Nodes : Chain(n)' = Chain(n)) /\ Full' = Full
    BY SameShm
  <1>3. Linked' = Linked
    BY <1>1, <1>2 DEF Linked, Existing
  <1> QED BY <1>1, <1>2, <1>3 DEF InOrder, Existing

LEMMA SameCurrent ==
  ASSUME Current, UNCHANGED <<shm, host>>
  PROVE  Current'
  <1>1. gmem' = gmem /\ mem' = mem /\ drv' = drv /\ Linked' = Linked
    BY SameLinked DEF shm, host
  <1> QED BY <1>1 DEF Current, Live

(***************************************************************************)
(* Steps that write neither the segments nor what the driver holds         *)
(***************************************************************************)
LEMMA LivesOn ==
  ASSUME OneThread, OneProcess, NEW t \in Threads, InOrder', Current', Place(t)'
  PROVE  Living'
  <1>1. \A u \in Threads : u = t
    BY Alone
  <1> QED BY <1>1 DEF Living

LEMMA SameLives ==
  ASSUME OneThread, OneProcess, Living, NEW t \in Threads, UNCHANGED <<shm, host>>, Place(t)'
  PROVE  Living'
  <1>1. InOrder' /\ Current'
    BY SameLinked, SameCurrent DEF Living
  <1> QED BY <1>1, LivesOn

(* A call that is over is in its place.                                    *)
LEMMA PlaceReturns ==
  ASSUME TypeInv, NEW t \in Threads, Return(t), Unused(t)'
  PROVE  Place(t)'
  <1>1. pc'[t] = "idle" /\ prv'[t] = -1 /\ node'[t] = -1
    BY DEF Return, Goto, DropRegs, TypeInv, TypeOK
  <1>2. Asked(t)' /\ AtNode(t)'
    BY <1>1 DEF Asked, AtNode, Asking, Registering, InAddGmem, Recording
  <1>3. Adding(t)' /\ Removing(t)'
    BY <1>1 DEF Adding, Removing, Freeing, Linking, InAddGmem, Recording
  <1> QED BY <1>1, <1>2, <1>3 DEF Place

LEMMA UnusedStays ==
  ASSUME NEW t \in Threads, Unused(t), UNCHANGED shm,
         pc[t] \in {"link", "adopt"} => pc'[t] \in {"link", "adopt"} /\ cur'[t] = cur[t]
  PROVE  Unused(t)'
  <1>1. rnode' = rnode /\ gmem' = gmem
    BY DEF shm
  <1> QED BY <1>1 DEF Unused, Existing

(* The usage scan and the limit, and the failures of the driver.           *)
LEMMA AskingLives ==
  ASSUME OneThread, OneProcess, TypeInv, NodeInv, Living, NEW t \in Threads,
         UsedNode(t) \/ UsedSum(t) \/ CheckLimit(t) \/ DriverAllocFails(t) \/ DriverFreeFails(t)
  PROVE  Living'
  <1>1. UNCHANGED <<shm, host>> /\ Place(t) /\ pc[t] \in Asking \cup {"release"}
    BY DEF UsedNode, UsedSum, CheckLimit, DriverAllocFails, DriverFreeFails, Living, Asking
  <1>2. Unused(t)'
    BY <1>1, UnusedStays DEF Place, Asking
  <1>3. CASE Return(t)
    BY <1>1, <1>2, <1>3, PlaceReturns, SameLives
  <1>4. CASE ~Return(t)
    <2>1. /\ pc[t] \in Asking /\ pc'[t] \in Asking /\ arg' = arg /\ node' = node /\ prv' = prv
      BY <1>4 DEF UsedNode, UsedSum, CheckLimit, DriverAllocFails, DriverFreeFails, Asking,
                  Begin, Goto, regs, TypeInv, TypeOK
    <2>2. mem' = mem /\ drv' = drv
      BY <1>1 DEF host
    <2>3. Asked(t)' /\ AtNode(t)'
      BY <1>1, <2>1, <2>2
      DEF Place, Asked, AtNode, Asking, Registering, InAddGmem, Recording, Live
    <2>4. Adding(t)' /\ Removing(t)'
      BY <1>1, <2>1 DEF Place, Adding, Removing, Asking, Freeing, Linking, InAddGmem, Recording
    <2>5. Place(t)'
      BY <1>2, <2>1, <2>3, <2>4 DEF Place, Asking
    <2> QED BY <1>1, <2>5, SameLives
  <1> QED BY <1>3, <1>4

(* The application starts a call.                                          *)
LEMMA StartLives ==
  ASSUME OneThread, OneProcess, TypeInv, NodeInv, Living, NEW t \in Threads,
         \/ \E k \in AllocKinds, h \in Handles, b \in Sizes :
              Fresh(Me(t), h) /\ StartAlloc(t, k, h, b)
         \/ \E d \in Dptrs : StartFree(t, d)
  PROVE  Living'
  <1>1. /\ UNCHANGED <<shm, host, node, prv>> /\ Place(t) /\ pc[t] = "idle"
    BY DEF StartAlloc, StartFree, Living
  <1>2. Unused(t)'
    BY <1>1, UnusedStays DEF Place
  <1>3. mem' = mem /\ drv' = drv /\ node' = node /\ prv' = prv
    BY <1>1 DEF host
  <1>4. node[t] = -1 /\ prv[t] = -1
    BY <1>1 DEF Place, AtNode, Removing, Freeing
  <1>5. CASE \E k \in AllocKinds, h \in Handles, b \in Sizes :
               Fresh(Me(t), h) /\ StartAlloc(t, k, h, b)
    <2>1. PICK k \in AllocKinds, h \in Handles, b \in Sizes :
            Fresh(Me(t), h) /\ StartAlloc(t, k, h, b)
      BY <1>5
    <2>2. /\ pc'[t] \in {"check", "used"}
          /\ arg'[t].kind = k /\ arg'[t].hdl = h /\ arg'[t].bytes = b
      BY <2>1 DEF StartAlloc, Goto, TypeInv, TypeOK
    <2>3. k # "free" /\ mem[Me(t)][h] \notin Live(Me(t))
      BY <2>1, CallAssumption DEF Fresh
    <2>4. Asked(t)'
      BY <1>3, <2>2, <2>3 DEF Asked, Asking, Registering, InAddGmem, Recording, Live
    <2>5. AtNode(t)'
      BY <1>3, <1>4, <2>2 DEF AtNode, Asking, Registering
    <2>6. Adding(t)' /\ Removing(t)'
      BY <1>3, <1>4, <2>2 DEF Adding, Removing, Freeing, Linking, InAddGmem, Recording
    <2>7. Place(t)'
      BY <1>2, <2>2, <2>4, <2>5, <2>6 DEF Place
    <2> QED BY <1>1, <2>7, SameLives
  <1>6. CASE \E d \in Dptrs : StartFree(t, d)
    <2>1. pc'[t] = "find" /\ arg'[t].kind = "free"
      BY <1>6 DEF StartFree, Goto, TypeInv, TypeOK
    <2>2. Asked(t)' /\ AtNode(t)'
      BY <1>3, <1>4, <2>1 DEF Asked, AtNode, Asking, Registering, InAddGmem, Recording
    <2>3. Adding(t)' /\ Removing(t)'
      BY <1>3, <1>4, <2>1 DEF Adding, Removing, Freeing, Linking, InAddGmem, Recording
    <2>4. Place(t)'
      BY <1>2, <2>1, <2>2, <2>3 DEF Place
    <2> QED BY <1>1, <2>4, SameLives
  <1> QED BY <1>5, <1>6

(***************************************************************************)
(* Finding or making the node                                              *)
(***************************************************************************)
LEMMA NodelessLinks ==
  ASSUME OneThread, OneProcess, NodeInv, NEW t \in Threads, Absent(t)
  PROVE  (\A n \in Nodes : ~Existing(n)) /\ Linked = {}
  <1>1. \A n \in Nodes : Existing(n) => rnode[n].key = Me(t)
    BY Alone DEF NodeInv
  <1> QED BY <1>1 DEF Absent, HasNode, Linked

LEMMA FindRnodeLives ==
  ASSUME OneThread, OneProcess, TypeInv, NodeInv, Living, NEW t \in Threads, FindRnode(t)
  PROVE  Living'
  <1>1. /\ UNCHANGED <<shm, host>> /\ Place(t) /\ pc[t] = "find"
        /\ mem' = mem /\ drv' = drv /\ arg' = arg /\ prv' = prv /\ rnode' = rnode /\ gmem' = gmem
    BY DEF FindRnode, Living, host, shm
  <1>2. Unused(t)' /\ Linked' = Linked
    BY <1>1, UnusedStays, SameLinked DEF Place
  <1>3. /\ node[t] = -1 /\ prv[t] = -1
        /\ InAddGmem(t) <=> arg[t].kind # "free"
    BY <1>1 DEF Place, AtNode, Removing, Freeing, InAddGmem, Recording
  <1>4. \/ pc'[t] = "find" /\ node'[t] = -1
        \/ pc'[t] = "insert" /\ node'[t] = -1 /\ arg[t].kind # "free"
        \/ pc'[t] = "release" /\ arg[t].kind = "free" /\ ProbeEnds(t)
        \/ pc'[t] = "entry" /\ ~ProbeEnds(t) /\ ProbeHits(t) /\ node'[t] = Hash(Me(t), cnt[t])
    BY <1>1, <1>3 DEF FindRnode, Begin, Goto, TypeInv, TypeOK
  <1>5. pc'[t] = "entry" => node'[t] \in Nodes /\ HasNode(t, node[t])'
    <2>1. Hash(Me(t), cnt[t]) \in Nodes
      BY HashInTable, MeType, TableAssumption DEF TypeInv, TypeOK
    <2> QED BY <1>1, <1>4, <2>1 DEF ProbeHits, SameKey, HasNode, Existing
  <1>6. InAddGmem(t)' => InAddGmem(t)
    BY <1>1, <1>3 DEF InAddGmem
  <1>7. Asked(t)'
    BY <1>1, <1>4, <1>6 DEF Place, Asked, Asking, Registering, Live
  <1>8. AtNode(t)'
    BY <1>4, <1>5 DEF AtNode, Asking, Registering
  <1>9. Adding(t)'
    <2>1. InAddGmem(t)' => \A g \in Linked : ~About(t, g)'
      BY <1>1, <1>6 DEF Place, Adding, Linking, About
    <2> QED BY <1>2, <1>4, <2>1 DEF Adding, Linking
  <1>10. Removing(t)'
    <2>1. pc'[t] = "release" => Linked = {}
      BY <1>1, <1>4, MissIsAbsent, NodelessLinks
    <2> QED BY <1>1, <1>2, <1>3, <1>4, <2>1 DEF Removing, Freeing
  <1>11. Place(t)'
    BY <1>2, <1>4, <1>7, <1>8, <1>9, <1>10 DEF Place
  <1> QED BY <1>1, <1>11, SameLives

LEMMA InsertProbeLives ==
  ASSUME OneThread, OneProcess, TypeInv, NodeInv, Living, NEW t \in Threads, InsertProbe(t)
  PROVE  Living'
  <1>1. /\ UNCHANGED <<shm, host>> /\ Place(t) /\ pc[t] = "insert"
        /\ mem' = mem /\ drv' = drv /\ arg' = arg /\ prv' = prv /\ node' = node /\ gmem' = gmem
    BY DEF InsertProbe, Living, host, shm
  <1>2. Unused(t)' /\ Linked' = Linked
    BY <1>1, UnusedStays, SameLinked DEF Place
  <1>3. node[t] = -1 /\ prv[t] = -1 /\ arg[t].kind # "free" /\ InAddGmem(t)
    BY <1>1 DEF Place, Asked, AtNode, Removing, Freeing, InAddGmem, Recording
  <1>4. pc'[t] \in {"insert", "assign", "entry"}
    BY <1>1 DEF InsertProbe, Goto, TypeInv, TypeOK
  <1>5. Asked(t)'
    BY <1>1, <1>3, <1>4 DEF Place, Asked, Asking, Registering, Live
  <1>6. AtNode(t)'
    BY <1>1, <1>3, <1>4 DEF AtNode, Asking, Registering
  <1>7. Adding(t)'
    <2>1. \A g \in Linked : ~About(t, g)'
      BY <1>1, <1>3 DEF Place, Adding, Linking, About
    <2> QED BY <1>2, <1>4, <2>1 DEF Adding, Linking
  <1>8. Removing(t)'
    BY <1>1, <1>3, <1>4 DEF Removing, Freeing
  <1>9. Place(t)'
    BY <1>2, <1>4, <1>5, <1>6, <1>7, <1>8 DEF Place
  <1> QED BY <1>1, <1>9, SameLives

(* The first node: no record is in use yet.                                *)
LEMMA InsertAssignLives ==
  ASSUME OneThread, OneProcess, TypeInv, NodeInv, Living, NEW t \in Threads, InsertAssign(t)
  PROVE  Living'
  <1>1. /\ UNCHANGED host /\ Place(t) /\ pc[t] = "assign"
        /\ mem' = mem /\ drv' = drv /\ arg' = arg /\ prv' = prv /\ gmem' = gmem
    BY DEF InsertAssign, Living, host
  <1>2. PICK s \in Nodes : s = Hash(Me(t), cnt[t])
    BY HashInTable, MeType, TableAssumption DEF TypeInv, TypeOK
  <1>3. (\A n \in Nodes : ~Existing(n)) /\ Linked = {}
    BY <1>1, NodelessLinks DEF NodeInv
  <1>4. \A g \in Slots : Empty(gmem[g])
    BY <1>1, <1>3 DEF Place, Unused
  <1>5. /\ \A n \in Nodes : Existing(n)' => rnode'[n].entry = -1
        /\ Existing(s)' /\ rnode'[s].key = Me(t)
    BY <1>2, <1>3 DEF InsertAssign, Existing, TypeInv, TypeOK
  <1>6. Linked' = {}
    <2>1. {} \in SUBSET Slots /\ \A n \in Nodes : Existing(n)' => rnode'[n].entry \in {} \cup {-1}
      BY <1>5
    <2> QED BY <2>1, LinkedLeastAfter
  <1>7. /\ pc'[t] = "entry" /\ node'[t] = s
        /\ prv[t] = -1 /\ arg[t].kind # "free" /\ InAddGmem(t)
    BY <1>1, <1>2 DEF InsertAssign, Begin, Goto, TypeInv, TypeOK, Place, Asked, Removing, Freeing,
                InAddGmem, Recording
  <1>8. InOrder'
    BY <1>1, <1>5, <1>6 DEF Living, InOrder
  <1>9. Current'
    BY <1>6 DEF Current
  <1>10. Asked(t)'
    BY <1>1, <1>7 DEF Place, Asked, Asking, Registering, Live
  <1>11. AtNode(t)'
    BY <1>2, <1>5, <1>7 DEF AtNode, HasNode, Asking, Registering
  <1>12. Adding(t)' /\ Removing(t)'
    BY <1>1, <1>6, <1>7 DEF Adding, Removing, Linking, Freeing
  <1>13. Unused(t)'
    BY <1>1, <1>4 DEF Unused
  <1>14. Place(t)'
    BY <1>7, <1>10, <1>11, <1>12, <1>13 DEF Place
  <1> QED BY <1>8, <1>9, <1>14, LivesOn

(* From the entry, everything linked is ahead.                             *)
LEMMA ReadEntryLives ==
  ASSUME OneThread, OneProcess, TypeInv, NodeInv, Living, NEW t \in Threads, ReadEntry(t)
  PROVE  Living'
  <1>1. /\ UNCHANGED <<shm, host>> /\ Place(t) /\ pc[t] = "entry" /\ node[t] # -1
        /\ mem' = mem /\ drv' = drv /\ arg' = arg /\ prv' = prv /\ node' = node
        /\ rnode' = rnode /\ gmem' = gmem
    BY DEF ReadEntry, Living, host, shm
  <1>2. Unused(t)' /\ Linked' = Linked
    BY <1>1, UnusedStays, SameLinked DEF Place
  <1>3. /\ prv[t] = -1 /\ node[t] \in Nodes /\ HasNode(t, node[t])
        /\ InAddGmem(t) <=> arg[t].kind # "free"
    BY <1>1 DEF Place, AtNode, Removing, Freeing, InAddGmem, Recording
  <1>4. /\ cur'[t] = rnode[node[t]].entry
        /\ \/ pc'[t] = "remove" /\ arg[t].kind = "free"
           \/ pc'[t] = "search" /\ arg[t].kind # "free"
    BY <1>1 DEF ReadEntry, Begin, Goto, TypeInv, TypeOK
  <1>5. Existing(node[t]) /\ cur'[t] \in {-1, 0} /\ 0 \in Slots /\ -1 \notin Slots
    BY <1>3, <1>4, TableAssumption DEF Living, InOrder, HasNode, Slots
  <1>6. cur'[t] = -1 \/ Empty(gmem[cur'[t]]) \/ cur'[t] \in Linked
    BY <1>3, <1>4, <1>5, LinkedStart
  <1>7. Linked \subseteq Ahead(t)'
    <2>1. ASSUME NEW g \in Linked, NEW S \in SUBSET Slots,
                 rnode[node[t]].entry \in S \cup {-1}, Closed(S)
          PROVE  g \in S
      BY <1>3, <1>5, <2>1, LinkedIsChain, ChainLeast
    <2> QED BY <1>1, <1>4, <2>1, LinkedUsed DEF Ahead, Closed
  <1>8. Asked(t)'
    BY <1>1, <1>3, <1>4 DEF Place, Asked, InAddGmem, Asking, Registering, Live
  <1>9. AtNode(t)'
    BY <1>1, <1>3, <1>4 DEF AtNode, HasNode, Existing, Asking, Registering
  <1>10. Adding(t)'
    <2>1. InAddGmem(t)' => \A g \in Linked : ~About(t, g)'
      BY <1>1, <1>3, <1>4 DEF Place, Adding, Linking, About, InAddGmem
    <2> QED BY <1>1, <1>2, <1>4, <1>5, <1>6, <2>1 DEF Adding, Linking
  <1>11. Removing(t)'
    BY <1>1, <1>2, <1>3, <1>4, <1>5, <1>7 DEF Removing, Freeing
  <1>12. Place(t)'
    BY <1>2, <1>4, <1>8, <1>9, <1>10, <1>11 DEF Place
  <1> QED BY <1>1, <1>12, SameLives

(***************************************************************************)
(* add_gmem                                                                *)
(***************************************************************************)
(* find_gmem finds no record of the allocation.                            *)
LEMMA FindGmemLives ==
  ASSUME OneThread, OneProcess, TypeInv, NodeInv, Living, NEW t \in Threads, FindGmem(t)
  PROVE  Living'
  <1>1. /\ UNCHANGED <<shm, host>> /\ Place(t) /\ pc[t] = "search"
        /\ mem' = mem /\ drv' = drv /\ arg' = arg /\ prv' = prv /\ node' = node
        /\ rnode' = rnode /\ gmem' = gmem
    BY DEF FindGmem, Living, host, shm
  <1>2. Unused(t)' /\ Linked' = Linked
    BY <1>1, UnusedStays, SameLinked DEF Place
  <1>3. /\ prv[t] = -1 /\ arg[t].kind # "free" /\ InAddGmem(t)
        /\ node[t] \in Nodes /\ HasNode(t, node[t])
        /\ cur[t] = -1 \/ (cur[t] \in Slots /\ Empty(gmem[cur[t]])) \/ cur[t] \in Linked
    BY <1>1 DEF Place, Asked, AtNode, Adding, Removing, Freeing, Registering, InAddGmem, Recording
  <1>4. \A g \in Linked : ~About(t, g)
    BY <1>1, <1>3 DEF Place, Adding, Linking
  <1>5. ~Empty(Cell(cur[t])) => cur[t] \in Linked /\ Cell(cur[t]) = gmem[cur[t]]
    BY <1>3, LinkedUsed DEF Cell, Empty, Slots
  <1>6. \A h \in Mapped[Me(t)] : h # NULL
    BY DataAssumption, MeType
  <1>7. ~(Cell(cur[t]).ptr \in Mapped[Me(t)] /\ Holds(t, Cell(cur[t])))
    BY <1>4, <1>5, <1>6 DEF Empty, Holds, Deref, About
  <1>8. \/ pc'[t] = "push" /\ cnt'[t] = 0
        \/ pc'[t] = "search" /\ cur'[t] = Cell(cur[t]).next /\ ~Empty(Cell(cur[t]))
    <2>1. CASE Empty(Cell(cur[t])) /\ Begin(t, "push")
      BY <2>1 DEF Begin, Goto, TypeInv, TypeOK
    <2>2. CASE /\ Cell(cur[t]).ptr \in Mapped[Me(t)] /\ cur' = [cur EXCEPT ![t] = Cell(cur[t]).next]
               /\ UNCHANGED <<pc, cnt>>
      BY <1>1, <1>6, <2>2 DEF Empty, TypeInv, TypeOK
    <2> QED BY <1>7, <2>1, <2>2 DEF FindGmem
  <1>9. pc'[t] = "search" => cur'[t] = -1 \/ cur'[t] \in Linked
    BY <1>5, <1>8, LinkedNext DEF Living
  <1>10. Asked(t)'
    BY <1>1, <1>3, <1>8 DEF Place, Asked, Asking, Registering, Live
  <1>11. AtNode(t)'
    BY <1>1, <1>3, <1>8 DEF AtNode, HasNode, Existing, Asking, Registering
  <1>12. Adding(t)'
    <2>1. \A g \in Linked : ~About(t, g)'
      BY <1>1, <1>4 DEF About
    <2>2. \A g \in Slots : ~(g < 0)
      BY DEF Slots
    <2> QED BY <1>2, <1>8, <1>9, <2>1, <2>2 DEF Adding, Linking
  <1>13. Removing(t)'
    BY <1>1, <1>3, <1>8 DEF Removing, Freeing
  <1>14. Place(t)'
    BY <1>2, <1>8, <1>10, <1>11, <1>12, <1>13 DEF Place
  <1> QED BY <1>1, <1>14, SameLives

(* push_gmem looks for the first slot without a record.                    *)
LEMMA PushProbeLives ==
  ASSUME OneThread, OneProcess, TypeInv, NodeInv, Living, NEW t \in Threads, PushProbe(t)
  PROVE  Living'
  <1>1. /\ UNCHANGED <<shm, host>> /\ Place(t) /\ pc[t] = "push"
        /\ mem' = mem /\ drv' = drv /\ arg' = arg /\ prv' = prv /\ node' = node
        /\ rnode' = rnode /\ gmem' = gmem
    BY DEF PushProbe, Living, host, shm
  <1>2. Unused(t)' /\ Linked' = Linked /\ Full' = Full
    BY <1>1, UnusedStays, SameLinked DEF Place
  <1>3. /\ prv[t] = -1 /\ arg[t].kind # "free" /\ InAddGmem(t)
        /\ node[t] \in Nodes /\ HasNode(t, node[t])
        /\ \A g \in Slots : g < cnt[t] => ~Empty(gmem[g])
    BY <1>1 DEF Place, Asked, AtNode, Adding, Removing, Freeing, Registering, InAddGmem, Recording
  <1>4. \A g \in Linked : ~About(t, g)
    BY <1>1, <1>3 DEF Place, Adding, Linking
  <1>5. \/ pc'[t] = "link" /\ cur'[t] = -1 /\ cnt[t] = NG
        \/ pc'[t] = "claim" /\ cnt'[t] = cnt[t] /\ Empty(gmem[cnt[t]])
        \/ pc'[t] = "push" /\ cnt'[t] = cnt[t] + 1 /\ ~Empty(gmem[cnt[t]])
    BY <1>1 DEF PushProbe, Goto, TypeInv, TypeOK
  <1>6. cnt[t] = NG => Full
    BY <1>3, TableAssumption DEF Full, Slots
  <1>7. ~Empty(gmem[cnt[t]]) => \A g \in Slots : g < cnt[t] + 1 => ~Empty(gmem[g])
    <2>1. cnt[t] \in Nat /\ NG \in Nat
      BY TableAssumption DEF TypeInv, TypeOK
    <2>2. \A g \in Slots : g < cnt[t] + 1 => g < cnt[t] \/ g = cnt[t]
      BY <2>1 DEF Slots
    <2> QED BY <1>3, <2>2
  <1>8. Asked(t)'
    BY <1>1, <1>3, <1>5 DEF Place, Asked, Asking, Registering, Live
  <1>9. AtNode(t)'
    BY <1>1, <1>3, <1>5 DEF AtNode, HasNode, Existing, Asking, Registering
  <1>10. Adding(t)'
    <2>1. \A g \in Linked : ~About(t, g)'
      BY <1>1, <1>4 DEF About
    <2> QED BY <1>1, <1>2, <1>3, <1>5, <1>6, <1>7, <2>1 DEF Adding, Linking
  <1>11. Removing(t)'
    BY <1>1, <1>3, <1>5 DEF Removing, Freeing
  <1>12. Place(t)'
    BY <1>2, <1>5, <1>8, <1>9, <1>10, <1>11 DEF Place
  <1> QED BY <1>1, <1>12, SameLives

(* link_rnode_gmem: a slot that was the first without a record, or a full  *)
(* array, says that record 0 is in use.                                    *)
LEMMA LinkEntryLives ==
  ASSUME OneThread, OneProcess, TypeInv, NodeInv, Living, NEW t \in Threads, LinkEntry(t)
  PROVE  Living'
  <1>1. /\ UNCHANGED <<shm, host>> /\ Place(t) /\ pc[t] = "link"
        /\ mem' = mem /\ drv' = drv /\ arg' = arg /\ node' = node /\ cur' = cur
        /\ rnode' = rnode /\ gmem' = gmem
    BY DEF LinkEntry, Living, host, shm
  <1>2. Linked' = Linked /\ Full' = Full
    BY <1>1, SameLinked
  <1>3. /\ prv[t] = -1 /\ arg[t].kind # "free" /\ InAddGmem(t)
        /\ node[t] \in Nodes /\ HasNode(t, node[t]) /\ Existing(node[t])
    BY <1>1 DEF Place, Asked, AtNode, Removing, Freeing, Registering, InAddGmem, Recording, HasNode
  <1>4. \/ pc'[t] = "adopt" /\ prv' = prv /\ rnode[node[t]].entry = -1
        \/ pc'[t] = "tail" /\ prv'[t] = rnode[node[t]].entry /\ rnode[node[t]].entry # -1
    BY <1>1 DEF LinkEntry, Goto, TypeInv, TypeOK
  <1>5. ~Empty(gmem[0])
    <2>1. 0 \in Slots /\ \A g \in Slots : 0 <= g
      BY TableAssumption DEF Slots
    <2> QED BY <1>1, <2>1 DEF Place, Adding, Linking, Full
  <1>6. pc'[t] = "tail" => prv'[t] \in Linked
    BY <1>3, <1>4, <1>5, LinkedStart DEF Living, InOrder
  <1>7. pc'[t] = "adopt" => \A n \in Nodes : Existing(n)' => rnode'[n].entry = -1
    BY <1>1, <1>3, <1>4, OnlyNode DEF Existing
  <1>8. Asked(t)'
    BY <1>1, <1>3, <1>4 DEF Place, Asked, Asking, Registering, Live
  <1>9. AtNode(t)'
    BY <1>1, <1>3, <1>4 DEF AtNode, HasNode, Existing, Asking, Registering
  <1>10. Adding(t)'
    <2>1. \A g \in Linked : About(t, g)' => g = cur'[t]
      BY <1>1, <1>3 DEF Place, Adding, About
    <2>2. \/ cur'[t] = -1 /\ Full'
          \/ /\ cur'[t] \in Slots /\ gmem'[cur'[t]].ptr = arg'[t].hdl
             /\ gmem'[cur'[t]].bytes = arg'[t].bytes /\ gmem'[cur'[t]].next = -1
             /\ \A g \in Slots : g <= cur'[t] => ~Empty(gmem'[g])
             /\ cur'[t] \in Linked' => Linked' = {cur'[t]}
      BY <1>1, <1>2 DEF Place, Adding, Linking
    <2> QED BY <1>1, <1>2, <1>4, <1>6, <1>7, <2>1, <2>2 DEF Adding, Linking
  <1>11. Removing(t)'
    BY <1>1, <1>3, <1>4 DEF Removing, Freeing
  <1>12. Unused(t)'
    BY <1>1, <1>3, <1>4 DEF Place, Unused, Existing
  <1>13. Place(t)'
    BY <1>4, <1>8, <1>9, <1>10, <1>11, <1>12 DEF Place
  <1> QED BY <1>1, <1>13, SameLives

(* last_rec walks to the record without a successor.                       *)
LEMMA LastRecLives ==
  ASSUME OneThread, OneProcess, TypeInv, NodeInv, Living, NEW t \in Threads, LastRec(t)
  PROVE  Living'
  <1>1. /\ UNCHANGED <<shm, host>> /\ Place(t) /\ pc[t] = "tail"
        /\ mem' = mem /\ drv' = drv /\ rnode' = rnode /\ gmem' = gmem
    BY DEF LastRec, Living, host, shm
  <1>2. Linked' = Linked /\ Full' = Full /\ Unused(t)'
    BY <1>1, UnusedStays, SameLinked DEF Place
  <1>3. /\ prv[t] \in Linked /\ arg[t].kind # "free" /\ InAddGmem(t)
        /\ node[t] \in Nodes /\ HasNode(t, node[t])
    BY <1>1 DEF Place, Asked, AtNode, Adding, Registering, InAddGmem, Recording
  <1>4. prv[t] \in Slots /\ ~Empty(gmem[prv[t]]) /\ Cell(prv[t]) = gmem[prv[t]]
    BY <1>3, LinkedUsed DEF Cell, Slots
  <1>5. CASE Return(t)
    BY <1>1, <1>2, <1>5, PlaceReturns, SameLives
  <1>6. CASE ~Return(t)
    <2>1. /\ arg' = arg /\ node' = node /\ cur' = cur
          /\ \/ pc'[t] = "append" /\ prv'[t] = prv[t] /\ gmem[prv[t]].next = -1 /\ prv[t] # cur[t]
             \/ pc'[t] = "tail" /\ prv'[t] = gmem[prv[t]].next /\ gmem[prv[t]].next # -1
      BY <1>1, <1>4, <1>6 DEF LastRec, IsTail, Empty, Goto, regs, TypeInv, TypeOK
    <2>2. prv'[t] \in Linked
      BY <1>3, <2>1, LinkedNext DEF Living
    <2>3. Asked(t)'
      BY <1>1, <1>3, <2>1 DEF Place, Asked, Asking, Registering, Live
    <2>4. AtNode(t)'
      BY <1>1, <1>3, <2>1 DEF AtNode, HasNode, Existing, Asking, Registering
    <2>5. Adding(t)'
      <3>1. \A g \in Linked : About(t, g)' => g = cur'[t]
        BY <1>1, <1>3, <2>1 DEF Place, Adding, About
      <3>2. \/ cur'[t] = -1 /\ Full'
            \/ /\ cur'[t] \in Slots /\ gmem'[cur'[t]].ptr = arg'[t].hdl
               /\ gmem'[cur'[t]].bytes = arg'[t].bytes /\ gmem'[cur'[t]].next = -1
               /\ \A g \in Slots : g <= cur'[t] => ~Empty(gmem'[g])
               /\ cur'[t] \in Linked' => Linked' = {cur'[t]}
        BY <1>1, <1>2, <2>1 DEF Place, Adding, Linking
      <3> QED BY <1>1, <1>2, <2>1, <2>2, <3>1, <3>2 DEF Adding, Linking
    <2>6. Removing(t)'
      BY <2>1 DEF Removing, Freeing
    <2>7. Place(t)'
      BY <1>2, <2>1, <2>3, <2>4, <2>5, <2>6 DEF Place
    <2> QED BY <1>1, <2>7, SameLives
  <1> QED BY <1>5, <1>6

(* push_gmem claims the slot.  Either the chain stays, or the slot is      *)
(* record 0 and the whole chain.                                           *)
LEMMA ClaimLinks ==
  ASSUME OneThread, OneProcess, TypeInv, NodeInv, Living, NEW t \in Threads, PushClaim(t),
         NEW c \in Slots, c = cnt[t]
  PROVE  \/ c \notin Linked' /\ Linked' \subseteq Linked
         \/ Linked' = {c}
  <1>1. /\ Place(t) /\ pc[t] = "claim" /\ rnode' = rnode /\ InOrder
    BY DEF PushClaim, Living
  <1>2. Empty(gmem[c]) /\ \A g \in Slots : g < c => ~Empty(gmem[g])
    BY <1>1 DEF Place, Adding
  <1>3. gmem'[c].next = -1 /\ \A g \in Slots : g # c => gmem'[g] = gmem[g]
    BY DEF PushClaim, TypeInv, TypeOK
  <1>4. c \notin Linked
    BY <1>2, LinkedUsed
  <1>5. \A g \in Linked : gmem'[g].next \in Linked \cup {-1}
    BY <1>1, <1>3, <1>4, LinkedNext, LinkedUsed
  <1>6. PICK L \in SUBSET Slots : L = Linked
    BY DEF Linked
  <1>7. CASE Empty(gmem[0])
    <2>1. c = 0
      BY <1>2, <1>7, TableAssumption DEF Slots
    <2>2. /\ {c} \in SUBSET Slots /\ \A g \in {c} : gmem'[g].next \in {c} \cup {-1}
          /\ \A n \in Nodes : Existing(n)' => rnode'[n].entry \in {c} \cup {-1}
      BY <1>1, <1>3, <2>1 DEF InOrder, Existing
    <2>3. \A g \in Linked' : g \in {c} /\ ~Empty(gmem'[g])
      BY <2>2, LinkedLeastAfter
    <2> QED BY <2>3
  <1>8. CASE ~Empty(gmem[0])
    <2>1. \A n \in Nodes : Existing(n) => rnode[n].entry \in L \cup {-1}
      BY <1>1, <1>6, <1>8, LinkedStart DEF InOrder
    <2>2. /\ \A g \in L : gmem'[g].next \in L \cup {-1}
          /\ \A n \in Nodes : Existing(n)' => rnode'[n].entry \in L \cup {-1}
      BY <1>1, <1>5, <1>6, <2>1 DEF Existing
    <2>3. \A g \in Linked' : g \in L /\ ~Empty(gmem'[g])
      BY <2>2, LinkedLeastAfter
    <2> QED BY <1>4, <1>6, <2>3
  <1> QED BY <1>7, <1>8

LEMMA PushClaimLives ==
  ASSUME OneThread, OneProcess, TypeInv, NodeInv, Living, NEW t \in Threads, PushClaim(t)
  PROVE  Living'
  <1>1. /\ Place(t) /\ pc[t] = "claim" /\ InOrder /\ Current
        /\ alive' = alive /\ mem' = mem /\ drv' = drv /\ rnode' = rnode
        /\ arg' = arg /\ prv' = prv /\ node' = node
    BY DEF PushClaim, Living, host
  <1>2. PICK c \in Slots : c = cnt[t]
    BY <1>1, TableAssumption DEF TypeInv, TypeOK, Indices, Slots
  <1>3. /\ prv[t] = -1 /\ arg[t].kind # "free" /\ InAddGmem(t)
        /\ node[t] \in Nodes /\ HasNode(t, node[t])
        /\ Empty(gmem[c]) /\ \A g \in Slots : g < c => ~Empty(gmem[g])
    BY <1>1, <1>2
    DEF Place, Asked, AtNode, Adding, Removing, Freeing, Registering, InAddGmem, Recording
  <1>4. \A g \in Linked : ~About(t, g)
    BY <1>1, <1>3 DEF Place, Adding, Linking
  <1>5. /\ arg[t].hdl \in Handles /\ arg[t].hdl # NULL /\ arg[t].dptr \in Live(Me(t))
        /\ mem[Me(t)][arg[t].hdl] = arg[t].dptr /\ drv[Me(t)][arg[t].dptr] = arg[t].bytes
    BY <1>1, <1>3, DataAssumption DEF Place, Asked
  <1>6. /\ pc'[t] = "link" /\ cur'[t] = c
        /\ gmem'[c].ptr = arg[t].hdl /\ gmem'[c].bytes = arg[t].bytes /\ gmem'[c].next = -1
        /\ \A g \in Slots : g # c => gmem'[g] = gmem[g]
    BY <1>2 DEF PushClaim, Begin, Goto, TypeInv, TypeOK
  <1>7. \A g \in Slots : ~Empty(gmem[g]) => ~Empty(gmem'[g])
    BY <1>3, <1>6
  <1>8. ~Empty(gmem'[c])
    BY <1>5, <1>6 DEF Empty
  <1>9. \/ /\ c \notin Linked' /\ Linked' \subseteq Linked
           /\ \A g \in Linked' : gmem'[g] = gmem[g]
        \/ Linked' = {c}
    BY <1>2, <1>6, ClaimLinks, LinkedUsed
  <1>10. InOrder'
    <2>1. \A g \in Linked' : gmem'[g].next # -1 =>
            gmem'[g].next \in Slots \ {0} /\ ~Empty(gmem'[gmem'[g].next])
      BY <1>1, <1>6, <1>7, <1>9 DEF InOrder
    <2>2. \A f, g \in Linked' : gmem'[f].next = gmem'[g].next /\ gmem'[f].next # -1 => f = g
      BY <1>1, <1>9 DEF InOrder
    <2>3. \A g \in Slots : Empty(gmem'[g]) => gmem'[g].next = -1
      BY <1>1, <1>6 DEF InOrder
    <2> QED BY <1>1, <2>1, <2>2, <2>3 DEF InOrder, Existing
  <1>11. Current'
    <2>1. \A p \in Procs : p = Me(t)
      BY Alone
    <2>2. CASE Linked' = {c}
      BY <1>1, <1>5, <1>6, <2>1, <2>2 DEF Current, Live
    <2>3. CASE Linked' \subseteq Linked /\ \A g \in Linked' : gmem'[g] = gmem[g]
      BY <1>1, <2>3 DEF Current, Live
    <2> QED BY <1>9, <2>2, <2>3
  <1>12. Asked(t)'
    BY <1>1, <1>3, <1>6 DEF Place, Asked, Asking, Registering, Live
  <1>13. AtNode(t)'
    BY <1>1, <1>3, <1>6 DEF AtNode, HasNode, Existing, Asking, Registering
  <1>14. Adding(t)'
    <2>1. \A g \in Linked' : About(t, g)' => g = cur'[t]
      BY <1>1, <1>4, <1>6, <1>9 DEF About
    <2>2. \A g \in Slots : g <= c => g < c \/ g = c
      BY DEF Slots
    <2>3. \A g \in Slots : g <= c => ~Empty(gmem'[g])
      BY <1>3, <1>7, <1>8, <2>2
    <2> QED BY <1>1, <1>6, <1>9, <2>1, <2>3 DEF Adding, Linking
  <1>15. Removing(t)'
    BY <1>1, <1>3, <1>6 DEF Removing, Freeing
  <1>16. Unused(t)'
    BY <1>1, <1>6 DEF Place, Unused, Existing
  <1>17. Place(t)'
    BY <1>6, <1>12, <1>13, <1>14, <1>15, <1>16 DEF Place
  <1> QED BY <1>10, <1>11, <1>17, LivesOn

(* Before the node has an entry the record to adopt is the only one, so it *)
(* is record 0.                                                            *)
LEMMA SetEntryLives ==
  ASSUME OneThread, OneProcess, TypeInv, NodeInv, Living, NEW t \in Threads, SetEntry(t)
  PROVE  Living'
  <1>1. /\ Place(t) /\ pc[t] = "adopt" /\ InOrder /\ Return(t)
        /\ alive' = alive /\ mem' = mem /\ drv' = drv /\ gmem' = gmem
        /\ \A n \in Nodes : Existing(n) => rnode[n].entry = -1
    BY DEF SetEntry, Living, host, Place, Adding
  <1>2. \A g \in Slots : Empty(gmem[g]) \/ g = cur[t]
    BY <1>1 DEF Place, Unused
  <1>3. /\ arg[t].kind # "free" /\ InAddGmem(t)
        /\ node[t] \in Nodes /\ HasNode(t, node[t])
        /\ \/ cur[t] = -1 /\ Full
           \/ /\ cur[t] \in Slots
              /\ gmem[cur[t]].ptr = arg[t].hdl /\ gmem[cur[t]].next = -1
              /\ gmem[cur[t]].bytes = arg[t].bytes
              /\ \A g \in Slots : g <= cur[t] => ~Empty(gmem[g])
    BY <1>1 DEF Place, Asked, AtNode, Adding, Linking, Registering, InAddGmem, Recording
  <1>4. cur[t] = 0 /\ gmem[0].ptr = arg[t].hdl /\ gmem[0].next = -1 /\ gmem[0].bytes = arg[t].bytes
    <2>1. 0 \in Slots /\ -1 \notin Slots /\ \A g \in Slots : 0 <= g
      BY TableAssumption DEF Slots
    <2>2. ~Empty(gmem[0])
      BY <1>3, <2>1 DEF Full
    <2> QED BY <1>2, <1>3, <2>1, <2>2
  <1>5. \A n \in Nodes : Existing(n)' => n = node[t] /\ rnode'[n].entry = 0
    <2>1. \A n \in Nodes : n # node[t] => rnode'[n] = rnode[n]
      BY DEF SetEntry, TypeInv, TypeOK
    <2>2. rnode'[node[t]].entry = 0 /\ Existing(node[t])
      BY <1>3, <1>4 DEF SetEntry, HasNode, TypeInv, TypeOK, RNodes
    <2>3. \A n \in Nodes : n # node[t] => ~Existing(n)
      BY <1>3, <2>2, OnlyNode
    <2> QED BY <2>1, <2>2, <2>3 DEF Existing
  <1>6. \A g \in Linked' : g = 0
    <2>1. 0 \in Slots
      BY TableAssumption DEF Slots
    <2>2. /\ {0} \in SUBSET Slots /\ \A g \in {0} : gmem'[g].next \in {0} \cup {-1}
          /\ \A n \in Nodes : Existing(n)' => rnode'[n].entry \in {0} \cup {-1}
      BY <1>1, <1>4, <1>5, <2>1
    <2>3. \A g \in Linked' : g \in {0} /\ ~Empty(gmem'[g])
      BY <2>2, LinkedLeastAfter
    <2> QED BY <2>3
  <1>7. InOrder'
    BY <1>1, <1>4, <1>5, <1>6 DEF InOrder
  <1>8. Current'
    <2>1. /\ arg[t].hdl \in Handles /\ arg[t].dptr \in Live(Me(t))
          /\ mem[Me(t)][arg[t].hdl] = arg[t].dptr /\ drv[Me(t)][arg[t].dptr] = arg[t].bytes
      BY <1>1, <1>3 DEF Place, Asked
    <2>2. \A p \in Procs : p = Me(t)
      BY Alone
    <2> QED BY <1>1, <1>4, <1>6, <2>1, <2>2 DEF Current, Live
  <1>9. Unused(t)'
    <2>1. Existing(node[t])
      BY <1>3 DEF HasNode
    <2>2. \E n \in Nodes : Existing(n)' /\ rnode'[n].entry # -1
      <3>1. PICK n \in Nodes : n = node[t]
        BY <1>3
      <3>2. rnode'[n].entry = 0 /\ rnode'[n].stat = rnode[n].stat
        BY <1>4, <3>1 DEF SetEntry, TypeInv, TypeOK, RNodes
      <3> QED BY <2>1, <3>1, <3>2 DEF Existing
    <2> QED BY <2>2 DEF Unused
  <1>10. Place(t)'
    BY <1>1, <1>9, PlaceReturns
  <1> QED BY <1>7, <1>8, <1>10, LivesOn

(* The last record links to the new one.                                   *)
LEMMA LinkTailLives ==
  ASSUME OneThread, OneProcess, TypeInv, NodeInv, Living, NEW t \in Threads, LinkTail(t)
  PROVE  Living'
  <1>1. /\ Place(t) /\ pc[t] = "append" /\ InOrder /\ Current /\ Return(t)
        /\ alive' = alive /\ mem' = mem /\ drv' = drv /\ rnode' = rnode
    BY DEF LinkTail, Living, host
  <1>2. PICK l \in Linked : l = prv[t] /\ gmem[l].next = -1 /\ l # cur[t]
    BY <1>1 DEF Place, Adding
  <1>3. l \in Slots /\ ~Empty(gmem[l])
    BY <1>2, LinkedUsed
  <1>4. PICK c : c = cur[t]
    OBVIOUS
  <1>5. /\ arg[t].kind # "free" /\ InAddGmem(t)
        /\ \/ c = -1
           \/ /\ c \in Slots /\ gmem[c].ptr = arg[t].hdl /\ gmem[c].next = -1
              /\ gmem[c].bytes = arg[t].bytes /\ ~Empty(gmem[c])
              /\ c \notin Linked
    <2>1. c \in Slots => c <= c
      BY DEF Slots
    <2> QED BY <1>1, <1>2, <1>4, <2>1
            DEF Place, Asked, Adding, Linking, Registering, InAddGmem, Recording
  <1>6. /\ \A g \in Slots : g # l => gmem'[g] = gmem[g]
        /\ gmem'[l].next = c /\ gmem'[l].ptr = gmem[l].ptr /\ gmem'[l].bytes = gmem[l].bytes
        /\ c # l
    BY <1>2, <1>3, <1>4 DEF LinkTail, TypeInv, TypeOK, GMems
  <1>7. \A g \in Slots : gmem'[g].ptr = gmem[g].ptr /\ gmem'[g].bytes = gmem[g].bytes
    BY <1>6
  <1>8. 0 \in Linked /\ \A n \in Nodes : Existing(n) => rnode[n].entry = 0
    BY <1>1, <1>2, FirstLinked
  <1>9. \A g \in Linked' : g \in Linked \/ (g = c /\ c \in Slots)
    <2>1. PICK S \in SUBSET Slots : S = Linked \cup ({c} \cap Slots)
      BY DEF Linked
    <2>2. \A g \in Linked : g # l => gmem'[g].next \in Linked \cup {-1}
      BY <1>1, <1>6, LinkedNext, LinkedUsed
    <2>3. \A g \in S : gmem'[g].next \in S \cup {-1}
      <3>1. c \in Slots => gmem'[c].next = -1
        BY <1>5, <1>6, TableAssumption DEF Slots
      <3>2. gmem'[l].next \in S \cup {-1}
        BY <1>5, <1>6, <2>1
      <3> QED BY <2>1, <2>2, <3>1, <3>2
    <2>4. \A n \in Nodes : Existing(n)' => rnode'[n].entry \in S \cup {-1}
      BY <1>1, <1>8, <2>1 DEF Existing
    <2>5. \A g \in Linked' : g \in S /\ ~Empty(gmem'[g])
      BY <2>3, <2>4, LinkedLeastAfter
    <2> QED BY <2>1, <2>5
  <1>10. InOrder'
    <2>0. \A g \in Linked' : gmem'[g].next # -1 => g \in Linked
      <3>1. c \in Slots => gmem'[c].next = -1
        BY <1>5, <1>6, TableAssumption DEF Slots
      <3> QED BY <1>9, <3>1
    <2>1. \A g \in Linked' : gmem'[g].next # -1 =>
            gmem'[g].next \in Slots \ {0} /\ ~Empty(gmem'[gmem'[g].next])
      <3>1. \A g \in Linked : g # l /\ gmem'[g].next # -1 =>
              gmem'[g].next \in Slots \ {0} /\ ~Empty(gmem[gmem'[g].next])
        BY <1>1, <1>6, LinkedUsed DEF InOrder
      <3>2. c \in Slots => c \in Slots \ {0} /\ ~Empty(gmem[c])
        BY <1>5, <1>8 DEF Slots
      <3>3. \A g \in Linked' : gmem'[g].next # -1 =>
              gmem'[g].next \in Slots \ {0} /\ ~Empty(gmem[gmem'[g].next])
        BY <1>5, <1>6, <2>0, <3>1, <3>2
      <3> QED BY <1>7, <3>3 DEF Empty
    <2>2. \A f, g \in Linked' : gmem'[f].next = gmem'[g].next /\ gmem'[f].next # -1 => f = g
      <3>1. \A g \in Linked : gmem[g].next # c \/ c = -1
        BY <1>1, <1>5, LinkedNext
      <3>2. \A g \in Linked : g # l => gmem'[g].next = gmem[g].next
        BY <1>6, LinkedUsed
      <3> QED BY <1>1, <1>6, <2>0, <3>1, <3>2 DEF InOrder
    <2>3. \A g \in Slots : Empty(gmem'[g]) => gmem'[g].next = -1
      BY <1>1, <1>3, <1>6 DEF InOrder, Empty
    <2> QED BY <1>1, <2>1, <2>2, <2>3 DEF InOrder, Existing
  <1>11. Current'
    <2>1. \A p \in Procs : p = Me(t)
      BY Alone
    <2>2. c \in Slots =>
            /\ gmem[c].ptr \in Handles /\ mem[Me(t)][gmem[c].ptr] = arg[t].dptr
            /\ arg[t].dptr \in Live(Me(t)) /\ gmem[c].bytes = drv[Me(t)][arg[t].dptr]
      BY <1>1, <1>5, TableAssumption DEF Place, Asked, Slots
    <2>3. \A g \in Linked : mem[Me(t)][gmem[g].ptr] = arg[t].dptr => g = c
      BY <1>1, <1>4, <1>5 DEF Place, Adding, About
    <2>4. \A g \in Linked \cup ({c} \cap Slots) :
            /\ gmem[g].ptr \in Handles /\ mem[Me(t)][gmem[g].ptr] \in Live(Me(t))
            /\ gmem[g].bytes = drv[Me(t)][mem[Me(t)][gmem[g].ptr]]
      BY <1>1, <2>2, Alone DEF Current
    <2>5. \A f, g \in Linked \cup ({c} \cap Slots) :
            mem[Me(t)][gmem[f].ptr] = mem[Me(t)][gmem[g].ptr] => f = g
      BY <1>1, <2>2, <2>3, Alone DEF Current
    <2>6. \A g \in Linked' : /\ g \in Linked \cup ({c} \cap Slots)
                             /\ gmem'[g].ptr = gmem[g].ptr /\ gmem'[g].bytes = gmem[g].bytes
      BY <1>7, <1>9, LinkedUsed
    <2> QED BY <1>1, <2>1, <2>4, <2>5, <2>6 DEF Current, Live
  <1>12. Unused(t)'
    BY <1>1, <1>8, <1>3 DEF Place, Unused, Existing
  <1>13. Place(t)'
    BY <1>1, <1>12, PlaceReturns
  <1> QED BY <1>10, <1>11, <1>13, LivesOn

(***************************************************************************)
(* The driver answers                                                      *)
(***************************************************************************)
(* A pointer that the driver hands out is in no record: the variables of   *)
(* all records hold allocations that live.                                 *)
LEMMA DriverAllocLives ==
  ASSUME OneThread, OneProcess, TypeInv, NodeInv, Living, NEW t \in Threads,
         NEW d \in Dptrs, DriverAlloc(t, d)
  PROVE  Living'
  <1>1. /\ Place(t) /\ pc[t] = "driver" /\ InOrder /\ Current /\ UNCHANGED shm
        /\ rnode' = rnode /\ gmem' = gmem /\ prv' = prv /\ node' = node
    BY DEF DriverAlloc, Living, shm
  <1>2. Unused(t)' /\ Linked' = Linked /\ InOrder'
    BY <1>1, UnusedStays, SameLinked DEF Place
  <1>3. PICK h \in Handles, b \in Sizes, p \in Procs :
          /\ h = arg[t].hdl /\ b = arg[t].bytes /\ p = Me(t) /\ arg[t].kind # "free"
          /\ mem[p][h] \notin Live(p)
    BY <1>1, MeType DEF Place, Asked, Asking
  <1>4. prv[t] = -1 /\ node[t] = -1
    BY <1>1 DEF Place, AtNode, Removing, Freeing, Asking
  <1>5. /\ pc'[t] = "find" /\ arg'[t].kind # "free" /\ arg'[t].hdl = h
        /\ arg'[t].bytes = b /\ arg'[t].dptr = d
    BY <1>3 DEF DriverAlloc, Begin, Goto, TypeInv, TypeOK, Args
  <1>6. /\ d \notin Live(p) /\ drv'[p][d] = b /\ mem'[p][h] = d
        /\ \A e \in Dptrs : e # d => drv'[p][e] = drv[p][e]
        /\ \A i \in Handles : i # h => mem'[p][i] = mem[p][i]
    BY <1>3 DEF DriverAlloc, Live, TypeInv, TypeOK
  <1>7. b # 0
    BY <1>3, DataAssumption
  <1>8. d \in Live(p)' /\ \A e \in Live(p) : e \in Live(p)' /\ drv'[p][e] = drv[p][e]
    BY <1>6, <1>7 DEF Live
  <1>9. \A g \in Linked :
          /\ gmem[g].ptr \in Handles /\ mem[p][gmem[g].ptr] \in Live(p)
          /\ mem'[p][gmem[g].ptr] = mem[p][gmem[g].ptr]
    BY <1>1, <1>3, <1>6 DEF Current
  <1>10. Current'
    <2>1. \A q \in Procs : q = p
      BY DEF OneProcess
    <2> QED BY <1>1, <1>2, <1>8, <1>9, <2>1 DEF Current
  <1>11. Asked(t)'
    BY <1>3, <1>5, <1>6, <1>8 DEF Asked, Asking, Registering
  <1>12. AtNode(t)'
    BY <1>1, <1>4, <1>5 DEF AtNode, Asking, Registering
  <1>13. Adding(t)'
    <2>1. \A g \in Linked : ~About(t, g)'
      BY <1>1, <1>3, <1>5, <1>6, <1>9 DEF About
    <2> QED BY <1>2, <1>5, <2>1 DEF Adding, Linking
  <1>14. Removing(t)'
    BY <1>1, <1>4, <1>5 DEF Removing, Freeing
  <1>15. Place(t)'
    BY <1>2, <1>5, <1>11, <1>12, <1>13, <1>14 DEF Place
  <1> QED BY <1>2, <1>10, <1>15, LivesOn

(* The driver frees what no record is about any more.                      *)
LEMMA DriverFreeLives ==
  ASSUME OneThread, OneProcess, TypeInv, NodeInv, Living, NEW t \in Threads, DriverFree(t)
  PROVE  Living'
  <1>1. /\ Place(t) /\ pc[t] = "release" /\ Current /\ Return(t) /\ UNCHANGED shm
        /\ gmem' = gmem /\ mem' = mem
    BY DEF DriverFree, Living, shm
  <1>2. Unused(t)' /\ Linked' = Linked /\ InOrder'
    BY <1>1, UnusedStays, SameLinked DEF Place, Living
  <1>3. PICK p \in Procs : p = Me(t) /\ \A q \in Procs : q = p
    BY Alone
  <1>4. \A g \in Linked : mem[p][gmem[g].ptr] # arg[t].dptr
    BY <1>1, <1>3 DEF Place, Removing, About
  <1>5. \A e \in Dptrs : e # arg[t].dptr => drv'[p][e] = drv[p][e]
    BY <1>3 DEF DriverFree, TypeInv, TypeOK
  <1>6. \A e \in Live(p) : e # arg[t].dptr => e \in Live(p)' /\ drv'[p][e] = drv[p][e]
    BY <1>5 DEF Live
  <1>7. Current'
    BY <1>1, <1>2, <1>3, <1>4, <1>6 DEF Current
  <1>8. Place(t)'
    BY <1>1, <1>2, PlaceReturns
  <1> QED BY <1>2, <1>7, <1>8, LivesOn

(***************************************************************************)
(* remove_gmem_by_dptr                                                     *)
(***************************************************************************)
(* What lies ahead of a record and is not the record lies ahead of its     *)
(* successor; nothing lies ahead of -1.                                    *)
LEMMA AheadNext ==
  ASSUME NEW t \in Threads, cur[t] \in Slots, gmem' = gmem, cur'[t] = gmem[cur[t]].next,
         NEW g \in Ahead(t), g # cur[t]
  PROVE  g \in Ahead(t)'
  <1>1. g \in Slots
    BY DEF Ahead
  <1>2. ASSUME NEW S \in SUBSET Slots, cur'[t] \in S \cup {-1},
               \A f \in S : gmem[f].next \in S \cup {-1}
        PROVE  g \in S
    <2>1. /\ S \cup {cur[t]} \in SUBSET Slots /\ cur[t] \in (S \cup {cur[t]}) \cup {-1}
          /\ \A f \in S \cup {cur[t]} : gmem[f].next \in (S \cup {cur[t]}) \cup {-1}
      BY <1>2
    <2>2. g \in S \cup {cur[t]}
      BY <2>1 DEF Ahead, Closed
    <2> QED BY <2>2
  <1> QED BY <1>1, <1>2 DEF Ahead, Closed

LEMMA AheadOfNothing ==
  ASSUME NEW t \in Threads, cur[t] = -1
  PROVE  Ahead(t) = {}
  <1>1. {} \in SUBSET Slots /\ cur[t] \in {} \cup {-1} /\ Closed({})
    BY DEF Closed
  <1> QED BY <1>1 DEF Ahead

LEMMA AheadOfEmpty ==
  ASSUME InOrder, NEW t \in Threads, cur[t] \in Slots, Empty(gmem[cur[t]])
  PROVE  Ahead(t) \subseteq {cur[t]}
  <1>1. {cur[t]} \in SUBSET Slots /\ cur[t] \in {cur[t]} \cup {-1} /\ Closed({cur[t]})
    BY DEF Closed, InOrder
  <1> QED BY <1>1 DEF Ahead

LEMMA RemoveVisitLives ==
  ASSUME OneThread, OneProcess, TypeInv, NodeInv, Living, NEW t \in Threads, RemoveVisit(t)
  PROVE  Living'
  <1>1. /\ UNCHANGED <<shm, host>> /\ Place(t) /\ pc[t] = "remove" /\ InOrder /\ Current
        /\ mem' = mem /\ drv' = drv /\ arg' = arg /\ node' = node
        /\ rnode' = rnode /\ gmem' = gmem
    BY DEF RemoveVisit, Living, host, shm
  <1>2. Unused(t)' /\ Linked' = Linked
    BY <1>1, UnusedStays, SameLinked DEF Place
  <1>3. /\ node[t] \in Nodes /\ HasNode(t, node[t])
        /\ \/ cur[t] = -1
           \/ prv[t] = -1 /\ cur[t] = 0
           \/ prv[t] \in Linked /\ cur[t] \in Linked /\ gmem[prv[t]].next = cur[t]
        /\ \A g \in Linked : About(t, g) => g \in Ahead(t)
    BY <1>1 DEF Place, AtNode, Removing
  <1>4. 0 \in Slots /\ -1 \notin Slots
    BY TableAssumption DEF Slots
  <1>5. ~Empty(Cell(cur[t])) =>
          cur[t] \in Linked /\ cur[t] \in Slots /\ Cell(cur[t]) = gmem[cur[t]]
    <2>1. CASE cur[t] = -1
      BY <2>1 DEF Cell, Empty
    <2>2. CASE cur[t] = 0
      <3>1. Cell(cur[t]) = gmem[0]
        BY <2>2 DEF Cell
      <3>2. ~Empty(gmem[0]) => \E n \in Nodes : Existing(n) /\ rnode[n].entry # -1
        BY <1>1, <1>4 DEF Place, Unused
      <3>3. ~Empty(gmem[0]) => 0 \in Linked
        BY <1>1, <3>2, LinkedStart DEF InOrder
      <3> QED BY <1>4, <2>2, <3>1, <3>3
    <2>3. CASE cur[t] \in Linked
      BY <1>4, <2>3, LinkedUsed DEF Cell
    <2> QED BY <1>3, <2>1, <2>2, <2>3
  <1>6. \A h \in Mapped[Me(t)] : h # NULL
    BY DataAssumption, MeType
  <1>7. \/ pc'[t] = "release" /\ Empty(Cell(cur[t]))
        \/ /\ ~Empty(Cell(cur[t])) /\ About(t, cur[t]) /\ cur' = cur /\ prv' = prv
           /\ pc'[t] = IF prv[t] = -1 THEN "delete" ELSE "bypass"
        \/ /\ ~Empty(Cell(cur[t])) /\ ~About(t, cur[t]) /\ pc'[t] = "remove"
           /\ prv'[t] = cur[t] /\ cur'[t] = gmem[cur[t]].next
    <2>1. CASE Empty(Cell(cur[t])) /\ Goto(t, "release")
      BY <2>1 DEF Goto, TypeInv, TypeOK
    <2>2. CASE /\ Cell(cur[t]).ptr \in Mapped[Me(t)] /\ Holds(t, Cell(cur[t]))
               /\ Goto(t, IF prv[t] = -1 THEN "delete" ELSE "bypass")
               /\ UNCHANGED <<cur, prv>>
      <3>1. ~Empty(Cell(cur[t]))
        BY <1>6, <2>2 DEF Empty
      <3>2. About(t, cur[t])
        BY <1>5, <2>2, <3>1 DEF Holds, Deref, About
      <3> QED BY <2>2, <3>1, <3>2 DEF Goto, TypeInv, TypeOK
    <2>3. CASE /\ Cell(cur[t]).ptr \in Mapped[Me(t)] /\ ~Holds(t, Cell(cur[t]))
               /\ prv' = [prv EXCEPT ![t] = cur[t]]
               /\ cur' = [cur EXCEPT ![t] = Cell(cur[t]).next]
               /\ UNCHANGED pc
      <3>1. ~Empty(Cell(cur[t]))
        BY <1>6, <2>3 DEF Empty
      <3>2. ~About(t, cur[t])
        BY <1>5, <2>3, <3>1 DEF Holds, Deref, About
      <3> QED BY <1>1, <1>5, <2>3, <3>1, <3>2 DEF TypeInv, TypeOK
    <2> QED BY <2>1, <2>2, <2>3 DEF RemoveVisit
  <1>8. Asked(t)'
    BY <1>7 DEF Asked, Asking, Registering, InAddGmem, Recording
  <1>9. AtNode(t)'
    BY <1>1, <1>3, <1>7 DEF AtNode, HasNode, Existing, Asking, Registering
  <1>10. Adding(t)'
    BY <1>7 DEF Adding, Linking, InAddGmem, Recording
  <1>11. Removing(t)'
    <2>1. CASE pc'[t] = "release" /\ Empty(Cell(cur[t]))
      <3>1. cur[t] = -1 \/ (cur[t] \in Slots /\ Empty(gmem[cur[t]]))
        BY <1>3, <1>4, <2>1, LinkedUsed DEF Cell
      <3>2. \A g \in Linked : g \notin Ahead(t)
        BY <1>1, <3>1, AheadOfNothing, AheadOfEmpty, LinkedUsed
      <3>3. \A g \in Linked : ~About(t, g)'
        BY <1>1, <1>3, <3>2 DEF About
      <3> QED BY <1>2, <2>1, <3>3 DEF Removing, Freeing
    <2>2. CASE /\ ~Empty(Cell(cur[t])) /\ About(t, cur[t]) /\ cur' = cur /\ prv' = prv
               /\ pc'[t] = IF prv[t] = -1 THEN "delete" ELSE "bypass"
      <3>1. \A g \in Linked : About(t, g) => g = cur[t]
        BY <1>1, <1>5, <2>2, MeType DEF Current, About
      <3>2. (\A g \in Linked : About(t, g)' => g = cur[t]) /\ About(t, cur'[t])
        BY <1>1, <2>2, <3>1 DEF About
      <3>3. CASE prv[t] = -1
        <4>1. cur[t] = 0
          BY <1>3, <1>4, <1>5, <2>2, <3>3, LinkedUsed DEF Cell, Empty
        <4>2. \A g \in Linked : gmem[g].next # cur[t]
          BY <1>1, <1>4, <4>1 DEF InOrder
        <4> QED BY <1>1, <1>2, <1>4, <2>2, <3>2, <3>3, <4>1, <4>2 DEF Removing, Freeing
      <3>4. CASE prv[t] # -1
        <4>1. prv[t] \in Linked /\ cur[t] \in Linked /\ gmem[prv[t]].next = cur[t]
          BY <1>3, <1>5, <2>2, <3>4 DEF Cell, Empty
        <4>2. About(t, cur[t])'
          BY <1>1, <2>2 DEF About
        <4> QED BY <1>1, <1>2, <2>2, <3>4, <4>1, <4>2 DEF Removing, Freeing
      <3> QED BY <3>3, <3>4
    <2>3. CASE /\ ~Empty(Cell(cur[t])) /\ ~About(t, cur[t]) /\ pc'[t] = "remove"
               /\ prv'[t] = cur[t] /\ cur'[t] = gmem[cur[t]].next
      <3>1. cur'[t] = -1 \/ (prv'[t] \in Linked /\ cur'[t] \in Linked /\ gmem[prv'[t]].next = cur'[t])
        BY <1>1, <1>5, <2>3, LinkedNext
      <3>2. ASSUME NEW g \in Linked, About(t, g)' PROVE g \in Ahead(t)'
        <4>1. About(t, g) /\ g # cur[t]
          BY <1>1, <2>3, <3>2 DEF About
        <4> QED BY <1>1, <1>3, <1>5, <2>3, <4>1, AheadNext
      <3> QED BY <1>1, <1>2, <2>3, <3>1, <3>2 DEF Removing, Freeing
    <2> QED BY <1>7, <2>1, <2>2, <2>3
  <1>12. Place(t)'
    BY <1>2, <1>7, <1>8, <1>9, <1>10, <1>11 DEF Place
  <1> QED BY <1>1, <1>12, SameLives

LEMMA FewerCurrent ==
  ASSUME Current, UNCHANGED host, Linked' \subseteq Linked,
         \A g \in Linked' : gmem'[g].ptr = gmem[g].ptr /\ gmem'[g].bytes = gmem[g].bytes
  PROVE  Current'
  <1>1. mem' = mem /\ drv' = drv
    BY DEF host
  <1> QED BY <1>1 DEF Current, Live

(* The record before the one in hand links past it: as no other link leads *)
(* to it, nothing does.                                                    *)
LEMMA RemoveBypassLives ==
  ASSUME OneThread, OneProcess, TypeInv, NodeInv, Living, NEW t \in Threads, RemoveBypass(t)
  PROVE  Living'
  <1>1. /\ Place(t) /\ pc[t] = "bypass" /\ InOrder /\ Current /\ UNCHANGED <<host, regs>>
        /\ mem' = mem /\ drv' = drv /\ arg' = arg /\ node' = node /\ rnode' = rnode
        /\ cur' = cur /\ prv' = prv
    BY DEF RemoveBypass, Living, host, regs
  <1>2. PICK l \in Linked, c \in Linked :
          l = prv[t] /\ c = cur[t] /\ gmem[l].next = c /\ About(t, c)
    BY <1>1 DEF Place, Removing
  <1>3. l \in Slots /\ c \in Slots \ {0} /\ c # -1 /\ ~Empty(gmem[l])
    BY <1>1, <1>2, LinkedUsed DEF InOrder, Slots
  <1>4. /\ \A g \in Slots : g # l => gmem'[g] = gmem[g]
        /\ gmem'[l].next = gmem[c].next
        /\ gmem'[l].ptr = gmem[l].ptr /\ gmem'[l].bytes = gmem[l].bytes
    BY <1>2, <1>3 DEF RemoveBypass, TypeInv, TypeOK, GMems
  <1>5. \A g \in Slots : gmem'[g].ptr = gmem[g].ptr /\ gmem'[g].bytes = gmem[g].bytes
    BY <1>4
  <1>6. 0 \in Linked /\ \A n \in Nodes : Existing(n) => rnode[n].entry = 0
    BY <1>1, <1>2, FirstLinked
  <1>7. PICK S \in SUBSET Slots : S = Linked \ {c}
    BY DEF Linked
  <1>8. 0 \in S
    BY <1>3, <1>6, <1>7
  <1>9. \A g \in Linked : gmem[g].next = c => g = l
    BY <1>1, <1>2, <1>3 DEF InOrder
  <1>10. gmem[c].next # c
    <2>1. SUFFICES ASSUME gmem[c].next = c PROVE FALSE
      OBVIOUS
    <2>2. c = l
      BY <1>9, <2>1
    <2>3. \A g \in S : gmem[g].next \in S \cup {-1}
      BY <1>1, <1>7, <1>9, <2>2, LinkedNext
    <2>4. \A n \in Nodes : Existing(n) => rnode[n].entry \in S \cup {-1}
      BY <1>6, <1>8
    <2>5. Linked \subseteq S
      BY <2>3, <2>4, LinkedLeast
    <2> QED BY <1>7, <2>5
  <1>11. l # c
    BY <1>2, <1>10
  <1>12. Linked' \subseteq Linked \ {c}
    <2>1. \A g \in S : g # l => gmem'[g].next \in S \cup {-1}
      BY <1>1, <1>4, <1>7, <1>9, LinkedNext
    <2>2. gmem'[l].next \in S \cup {-1}
      BY <1>1, <1>4, <1>7, <1>10, LinkedNext
    <2>3. \A g \in S : gmem'[g].next \in S \cup {-1}
      BY <2>1, <2>2
    <2>4. \A n \in Nodes : Existing(n)' => rnode'[n].entry \in S \cup {-1}
      BY <1>1, <1>6, <1>8 DEF Existing
    <2>5. \A g \in Linked' : g \in S /\ ~Empty(gmem'[g])
      BY <2>3, <2>4, LinkedLeastAfter
    <2> QED BY <1>7, <2>5
  <1>13. InOrder'
    <2>1. \A g \in Linked' : gmem'[g].next # -1 =>
            gmem'[g].next \in Slots \ {0} /\ ~Empty(gmem[gmem'[g].next])
      BY <1>1, <1>4, <1>12, LinkedUsed DEF InOrder
    <2>2. \A f, g \in Linked' : gmem'[f].next = gmem'[g].next /\ gmem'[f].next # -1 => f = g
      <3>1. \A g \in Linked' : g # l => g \in Linked \ {c} /\ gmem'[g].next = gmem[g].next
        BY <1>4, <1>12, LinkedUsed
      <3>2. \A g \in Linked \ {c} : gmem[g].next = gmem[c].next => gmem[g].next = -1
        BY <1>1 DEF InOrder
      <3> QED BY <1>1, <1>4, <3>1, <3>2 DEF InOrder
    <2>3. \A g \in Slots : Empty(gmem'[g]) => gmem'[g].next = -1
      BY <1>1, <1>3, <1>4, <1>5 DEF InOrder, Empty
    <2> QED BY <1>1, <1>5, <2>1, <2>2, <2>3 DEF InOrder, Existing, Empty
  <1>14. Current'
    BY <1>1, <1>5, <1>12, FewerCurrent, LinkedUsed
  <1>15. pc'[t] = "delete"
    BY DEF RemoveBypass, Goto, TypeInv, TypeOK
  <1>16. Asked(t)'
    BY <1>15 DEF Asked, Asking, Registering, InAddGmem, Recording
  <1>17. AtNode(t)'
    BY <1>1, <1>15 DEF Place, AtNode, HasNode, Existing, Asking, Registering
  <1>18. Adding(t)'
    BY <1>15 DEF Adding, Linking, InAddGmem, Recording
  <1>19. Removing(t)'
    <2>1. \A g \in Linked' : ~About(t, g)'
      BY <1>1, <1>2, <1>5, <1>12, LinkedUsed, MeType DEF Current, About
    <2>2. \A g \in Linked' : gmem'[g].next # c
      BY <1>4, <1>9, <1>10, <1>12, LinkedUsed
    <2> QED BY <1>1, <1>2, <1>3, <1>15, <2>1, <2>2 DEF Removing, Freeing
  <1>20. Unused(t)'
    BY <1>1, <1>3, <1>6 DEF Place, Unused, Existing
  <1>21. Place(t)'
    BY <1>15, <1>16, <1>17, <1>18, <1>19, <1>20 DEF Place
  <1> QED BY <1>13, <1>14, <1>21, LivesOn

(* The record in hand is emptied.  If it was the first one nothing is      *)
(* linked any more; if not it was not linked any more itself.              *)
LEMMA RemoveDeleteLives ==
  ASSUME OneThread, OneProcess, TypeInv, NodeInv, Living, NEW t \in Threads, RemoveDelete(t)
  PROVE  Living'
  <1>1. /\ Place(t) /\ pc[t] = "delete" /\ InOrder /\ Current /\ UNCHANGED host
        /\ mem' = mem /\ drv' = drv /\ arg' = arg /\ node' = node /\ rnode' = rnode
    BY DEF RemoveDelete, Living, host
  <1>2. PICK c \in Slots : c = cur[t] /\ \A g \in Linked \ {c} : ~About(t, g) /\ gmem[g].next # c
    BY <1>1 DEF Place, Removing
  <1>3. /\ \A g \in Slots : g # c => gmem'[g] = gmem[g]
        /\ gmem'[c].next = -1 /\ Empty(gmem'[c])
    BY <1>2 DEF RemoveDelete, Empty, TypeInv, TypeOK, GMems
  <1>4. \A g \in Slots : Empty(gmem'[g]) => gmem'[g].next = -1
    BY <1>1, <1>3 DEF InOrder
  <1>5. Linked' \subseteq Linked \ {c}
    <2>1. PICK S \in SUBSET Slots : S = Linked \cup {g \in Slots : Empty(gmem'[g])}
      BY DEF Linked
    <2>2. \A g \in Linked : g # c => gmem'[g].next \in Linked \cup {-1}
      BY <1>1, <1>3, LinkedNext, LinkedUsed
    <2>3. \A g \in S : gmem'[g].next \in S \cup {-1}
      BY <1>3, <1>4, <2>1, <2>2
    <2>4. ASSUME NEW n \in Nodes, Existing(n)' PROVE rnode'[n].entry \in S \cup {-1}
      <3>1. Existing(n) /\ rnode'[n].entry = rnode[n].entry
        BY <1>1, <2>4 DEF Existing
      <3>2. rnode[n].entry = -1 \/ (rnode[n].entry = 0 /\ 0 \in Slots)
        BY <1>1, <3>1, TableAssumption DEF InOrder, Slots
      <3>3. rnode[n].entry # -1 /\ ~Empty(gmem[0]) => 0 \in Linked
        BY <3>1, <3>2, LinkedStart
      <3>4. 0 \in Slots /\ Empty(gmem[0]) => Empty(gmem'[0])
        BY <1>3
      <3> QED BY <2>1, <3>1, <3>2, <3>3, <3>4
    <2>5. \A g \in Linked' : g \in S /\ ~Empty(gmem'[g])
      BY <2>3, <2>4, LinkedLeastAfter
    <2> QED BY <1>3, <2>1, <2>5
  <1>6. \A g \in Linked' : g \in Linked /\ g # c /\ gmem'[g] = gmem[g]
    BY <1>3, <1>5, LinkedUsed
  <1>7. InOrder'
    <2>1. \A g \in Linked' : gmem'[g].next # -1 =>
            gmem'[g].next \in Slots \ {0} /\ ~Empty(gmem'[gmem'[g].next])
      BY <1>1, <1>2, <1>3, <1>6 DEF InOrder
    <2>2. \A f, g \in Linked' : gmem'[f].next = gmem'[g].next /\ gmem'[f].next # -1 => f = g
      BY <1>1, <1>6 DEF InOrder
    <2> QED BY <1>1, <1>4, <2>1, <2>2 DEF InOrder, Existing
  <1>8. Current'
    BY <1>1, <1>6, FewerCurrent
  <1>9. pc'[t] = "remove" /\ cur'[t] = -1
    BY DEF RemoveDelete, Goto, TypeInv, TypeOK
  <1>10. Asked(t)'
    BY <1>9 DEF Asked, Asking, Registering, InAddGmem, Recording
  <1>11. AtNode(t)'
    BY <1>1, <1>9 DEF Place, AtNode, HasNode, Existing, Asking, Registering
  <1>12. Adding(t)'
    BY <1>9 DEF Adding, Linking, InAddGmem, Recording
  <1>13. Removing(t)'
    <2>1. \A g \in Linked' : ~About(t, g)'
      BY <1>1, <1>2, <1>6 DEF About
    <2> QED BY <1>9, <2>1 DEF Removing, Freeing
  <1>14. Unused(t)'
    BY <1>1, <1>3 DEF Place, Unused, Existing
  <1>15. Place(t)'
    BY <1>9, <1>10, <1>11, <1>12, <1>13, <1>14 DEF Place
  <1> QED BY <1>7, <1>8, <1>15, LivesOn

(***************************************************************************)
(* The invariant                                                           *)
(***************************************************************************)
LEMMA FreeInit == Init => FreeInv
  <1> SUFFICES ASSUME Init PROVE FreeInv
    OBVIOUS
  <1>1. /\ \A n \in Nodes : ~Existing(n)
        /\ \A g \in Slots : Empty(gmem[g]) /\ gmem[g].next = -1
        /\ \A t \in Threads : pc[t] = "idle" /\ node[t] = -1 /\ prv[t] = -1
    BY DEF Init, NoCalls, InitRNode, InitGMem, Existing, Empty
  <1>2. Linked = {}
    BY <1>1 DEF Linked
  <1>3. InOrder /\ Current
    BY <1>1, <1>2 DEF InOrder, Current
  <1>4. ASSUME NEW t \in Threads PROVE Place(t)
    <2>1. Asked(t) /\ AtNode(t)
      BY <1>1 DEF Asked, AtNode, Asking, Registering, InAddGmem, Recording
    <2>2. Adding(t) /\ Removing(t) /\ Unused(t)
      BY <1>1 DEF Adding, Removing, Unused, Freeing, Linking, InAddGmem, Recording
    <2> QED BY <1>1, <2>1, <2>2 DEF Place
  <1> QED BY <1>3, <1>4, TypeInit, NodeInit DEF FreeInv, Living

(* The process ends, and with it everything it did.                        *)
LEMMA DieEnds ==
  ASSUME OneProcess, TypeInv, NEW p \in Procs, Die(p)
  PROVE  Ended'
  <1>1. \A q \in Procs : q = p
    BY DEF OneProcess
  <1>2. ~alive'[p] /\ \A t \in Threads : pc'[t] = "dead"
    BY <1>1, MeType DEF Die, TypeInv, TypeOK
  <1> QED BY <1>1, <1>2 DEF Ended

LEMMA EndedStays ==
  ASSUME TypeInv, Ended, [CarefulNext]_vars
  PROVE  Ended'
  <1> USE DEF Ended
  <1>1. ASSUME NEW t \in Threads, InCode(t) PROVE FALSE
    <2>1. pc[t] = "dead" /\ ~alive[Me(t)]
      BY MeType
    <2>2. ~(UsedNode(t) \/ UsedSum(t) \/ FindRnode(t) \/ InsertProbe(t) \/ InsertAssign(t) \/ ReadEntry(t))
      BY <2>1 DEF UsedNode, UsedSum, FindRnode, InsertProbe, InsertAssign, ReadEntry
    <2>3. ~(FindGmem(t) \/ ResetRecord(t) \/ PushProbe(t) \/ PushClaim(t) \/ LinkEntry(t))
      BY <2>1 DEF FindGmem, ResetRecord, PushProbe, PushClaim, LinkEntry
    <2>4. ~(SetEntry(t) \/ LastRec(t) \/ LinkTail(t) \/ RemoveVisit(t) \/ RemoveBypass(t) \/ RemoveDelete(t))
      BY <2>1 DEF SetEntry, LastRec, LinkTail, RemoveVisit, RemoveBypass, RemoveDelete
    <2>5. ~(CheckLimit(t) \/ (\E d \in Dptrs : DriverAlloc(t, d)) \/ DriverAllocFails(t))
      BY <2>1 DEF CheckLimit, DriverAlloc, DriverAllocFails
    <2>6. ~(DriverFree(t) \/ DriverFreeFails(t) \/ Segfault(t))
      BY <2>1 DEF DriverFree, DriverFreeFails, Segfault, Die
    <2> QED BY <1>1, <2>2, <2>3, <2>4, <2>5, <2>6 DEF InCode
  <1>2. ASSUME NEW t \in Threads, NEW k \in AllocKinds, NEW h \in Handles, NEW b \in Sizes,
               StartAlloc(t, k, h, b)
        PROVE  FALSE
    BY <1>2 DEF StartAlloc
  <1>3. ASSUME NEW t \in Threads, NEW d \in Dptrs, StartFree(t, d) PROVE FALSE
    BY <1>3 DEF StartFree
  <1>4. ASSUME NEW p \in Procs, Die(p) PROVE FALSE
    BY <1>4 DEF Die
  <1>5. UNCHANGED vars
    BY <1>1, <1>2, <1>3, <1>4 DEF CarefulNext, KeepNext, Keep
  <1> QED BY <1>5 DEF vars, host

LEMMA LivingStep ==
  ASSUME OneThread, OneProcess, TypeInv, NodeInv, Living, [CarefulNext]_vars
  PROVE  Living' \/ Ended'
  <1>1. ASSUME NEW t \in Threads, InCode(t) PROVE Living' \/ Ended'
    <2>1. CASE UsedNode(t) \/ UsedSum(t) \/ CheckLimit(t) \/ DriverAllocFails(t) \/ DriverFreeFails(t)
      BY <2>1, AskingLives
    <2>2. CASE FindRnode(t) \/ InsertProbe(t) \/ InsertAssign(t) \/ ReadEntry(t)
      BY <2>2, FindRnodeLives, InsertProbeLives, InsertAssignLives, ReadEntryLives
    <2>3. ~ResetRecord(t)
      BY DEF Living, Place, ResetRecord
    <2>4. CASE FindGmem(t) \/ PushProbe(t) \/ PushClaim(t)
      BY <2>4, FindGmemLives, PushProbeLives, PushClaimLives
    <2>5. CASE LinkEntry(t) \/ SetEntry(t) \/ LastRec(t) \/ LinkTail(t)
      BY <2>5, LinkEntryLives, SetEntryLives, LastRecLives, LinkTailLives
    <2>6. CASE RemoveVisit(t) \/ RemoveBypass(t) \/ RemoveDelete(t)
      BY <2>6, RemoveVisitLives, RemoveBypassLives, RemoveDeleteLives
    <2>7. CASE DriverFree(t) \/ \E d \in Dptrs : DriverAlloc(t, d)
      BY <2>7, DriverFreeLives, DriverAllocLives
    <2>8. CASE Segfault(t)
      BY <2>8, DieEnds, MeType DEF Segfault
    <2> QED BY <1>1, <2>1, <2>2, <2>3, <2>4, <2>5, <2>6, <2>7, <2>8 DEF InCode
  <1>2. ASSUME NEW t \in Threads,
               \/ \E k \in AllocKinds, h \in Handles, b \in Sizes :
                    Fresh(Me(t), h) /\ StartAlloc(t, k, h, b)
               \/ \E d \in Dptrs : StartFree(t, d)
        PROVE  Living'
    BY <1>2, StartLives
  <1>3. ASSUME NEW p \in Procs, Die(p) PROVE Ended'
    BY <1>3, DieEnds
  <1>4. CASE UNCHANGED vars
    <2>1. /\ UNCHANGED <<shm, host>> /\ pc' = pc /\ rnode' = rnode /\ gmem' = gmem /\ alive' = alive
          /\ mem' = mem /\ drv' = drv /\ cnt' = cnt /\ cur' = cur /\ prv' = prv
          /\ node' = node /\ arg' = arg
      BY <1>4 DEF vars, shm, host, regs
    <2>2. Linked' = Linked /\ Full' = Full /\ InOrder' /\ Current'
      BY <2>1, SameLinked, SameCurrent DEF Living
    <2>3. ASSUME NEW t \in Threads PROVE Place(t)'
      <3>1. Place(t)
        BY DEF Living
      <3>2. Asked(t)' /\ AtNode(t)'
        BY <2>1, <3>1 DEF Place, Asked, AtNode, InAddGmem, Live, HasNode, Existing
      <3>3. Adding(t)'
        BY <2>1, <2>2, <3>1 DEF Place, Adding, InAddGmem, About, Existing
      <3>4. Ahead(t)' = Ahead(t)
        BY <2>1 DEF Ahead, Closed
      <3>5. Removing(t)'
        BY <2>1, <2>2, <3>1, <3>4 DEF Place, Removing, About
      <3>6. Unused(t)'
        BY <2>1, <3>1 DEF Place, Unused, Existing
      <3> QED BY <2>1, <3>1, <3>2, <3>3, <3>5, <3>6 DEF Place
    <2> QED BY <2>2, <2>3 DEF Living
  <1> QED BY <1>1, <1>2, <1>3, <1>4 DEF CarefulNext, KeepNext, Keep

LEMMA CarefulIsNext == CarefulNext => Next
  BY KeepIsNext DEF CarefulNext, Next

LEMMA FreeStep ==
  ASSUME OneThread, OneProcess
  PROVE  FreeInv /\ [CarefulNext]_vars => FreeInv'
  <1> SUFFICES ASSUME FreeInv, [CarefulNext]_vars PROVE FreeInv'
    OBVIOUS
  <1>1. TypeInv' /\ NodeInv'
    BY CarefulIsNext, TypeStep, NodeStep DEF FreeInv
  <1> QED BY <1>1, LivingStep, EndedStays DEF FreeInv

(* Between calls, every record that a walk from the entry meets is one of  *)
(* an allocation that the process still has, with its size: remove_gmem    *)
(* forgets in time, wherever in the chain the record stands.  It may       *)
(* forget too much, but what it leaves is true.                            *)
THEOREM NothingStale ==
  ASSUME OneThread, OneProcess
  PROVE  CarefulSpec => []NoStaleRecord
  <1>1. FreeInv => NoStaleRecord
    <2> SUFFICES ASSUME FreeInv, NEW p \in Procs, alive[p], NEW n \in NodesOf(p), NEW g \in Chain(n)
                 PROVE  /\ mem[p][gmem[g].ptr] \in Live(p)
                        /\ gmem[g].bytes = drv[p][mem[p][gmem[g].ptr]]
      BY DEF NoStaleRecord
    <2>1. Living
      BY DEF FreeInv, Ended
    <2>2. g \in Linked
      BY DEF Linked, NodesOf, Chain
    <2> QED BY <2>1, <2>2 DEF Living, Current
  <1> QED BY FreeInit, FreeStep, <1>1, PTL DEF CarefulSpec

(* find_gmem finds no record of the allocation that add_gmem is about to   *)
(* record, though the driver hands out device pointers again and the       *)
(* variables are used again: the reset of resource.cxx:284 is unreachable. *)
THEOREM NeverTwice ==
  ASSUME OneThread, OneProcess
  PROVE  CarefulSpec => []NeverReregisters
  <1>1. FreeInv => NeverReregisters
    BY DEF FreeInv, Living, Ended, Place, NeverReregisters
  <1> QED BY FreeInit, FreeStep, <1>1, PTL DEF CarefulSpec

(* Whatever has been freed, and although the entry of the node goes on     *)
(* naming slot 0 when its record is gone, link_rnode_gmem looks for the    *)
(* end of the chain on the chain, and reads no record that was emptied.    *)
THEOREM EndIsLinked ==
  ASSUME OneThread, OneProcess
  PROVE  CarefulSpec => []LastRecOnChain
  <1>1. FreeInv => LastRecOnChain
    <2> SUFFICES ASSUME FreeInv, NEW t \in Threads, pc[t] \in {"tail", "append"}
                 PROVE  prv[t] \in Chain(node[t])
      BY DEF LastRecOnChain
    <2>1. Living /\ NodeInv
      BY DEF FreeInv, Ended
    <2>2. prv[t] \in Linked /\ node[t] \in Nodes /\ Existing(node[t])
      BY <2>1 DEF Living, Place, Adding, AtNode, Registering, HasNode
    <2> QED BY <2>1, <2>2, LinkedIsChain
  <1> QED BY FreeInit, FreeStep, <1>1, PTL DEF CarefulSpec
=============================================================================
