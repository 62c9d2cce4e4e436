---------------------------- MODULE ChainProofs ----------------------------
(***************************************************************************)
(* The records of Hijack while nobody frees and the calls do not meet      *)
(* inside add_gmem: every process has its own chain, every allocation is   *)
(* on it, and a crash leaks one record at most.                            *)
(***************************************************************************)
EXTENDS HijackProofs, FiniteSetTheorems

AddsAlone == \A t, u \in Threads : InAddGmem(t) /\ InAddGmem(u) => t = u
AloneNext == KeepNext /\ AddsAlone'

(***************************************************************************)
(* The inductive invariant                                                 *)
(***************************************************************************)
Asking      == {"used", "sum", "check", "driver"}
Registering == {"search", "reset", "push", "claim", "link", "adopt", "tail", "append"}
Linking     == {"link", "adopt", "tail", "append"}

(* push_gmem has nothing left to give.                                     *)
Full == \A g \in Slots : ~Empty(gmem[g])

(* An entry or a link leads to a record in use.                            *)
LinksUsed ==
  /\ \A n \in Nodes : Existing(n) =>
       rnode[n].entry = -1 \/ ~Empty(gmem[rnode[n].entry])
  /\ \A g \in Slots : ~Empty(gmem[g]) =>
       gmem[g].next = -1 \/ ~Empty(gmem[gmem[g].next])

(* The record that thread t has claimed and not linked yet.                *)
InHand(t) ==
  /\ cur[t] \in Slots /\ ~Empty(gmem[cur[t]])
  /\ gmem[cur[t]].ptr = arg[t].hdl /\ gmem[cur[t]].bytes = arg[t].bytes
  /\ gmem[cur[t]].next = -1
  /\ \A n \in Nodes : Existing(n) => cur[t] \notin Chain(n)

(* What the locals of add_gmem point to.                                   *)
Held(t) ==
  /\ pc[t] \in Asking \cup {"idle", "dead", "find", "insert", "assign"} => node[t] = -1
  /\ pc[t] = "assign" => ~Existing(Hash(Me(t), cnt[t]))
  /\ (pc[t] = "entry" /\ node[t] # -1) \/ pc[t] \in Registering =>
       node[t] \in Nodes /\ HasNode(t, node[t])
  /\ pc[t] = "search" => cur[t] \in Chain(node[t]) \cup {-1}
  /\ pc[t] = "push" => \A g \in Slots : g < cnt[t] => ~Empty(gmem[g])
  /\ pc[t] = "claim" => Empty(gmem[cnt[t]])
  /\ pc[t] \in Linking => (cur[t] = -1 /\ Full) \/ InHand(t)
  /\ pc[t] = "adopt" => rnode[node[t]].entry = -1
  /\ pc[t] \in {"tail", "append"} => prv[t] \in Chain(node[t])
  /\ pc[t] = "append" => gmem[prv[t]].next = -1

Chained ==
  /\ LinksUsed
  /\ ChainsDisjoint
  /\ \A t \in Threads : Held(t)

(* Every variable that an application passed holds one live allocation,    *)
(* and every live allocation is in the variable it was asked for.          *)
OwnVariables ==
  /\ \A p \in Procs : ~alive[p] =>
       /\ \A t \in Threads : Me(t) = p => pc[t] = "dead"
       /\ \A h \in Handles : mem[p][h] = NULL
  /\ \A p \in Procs, h \in Handles : mem[p][h] # NULL => drv[p][mem[p][h]] # 0
  /\ \A p \in Procs, h, i \in Handles : mem[p][h] = mem[p][i] /\ mem[p][h] # NULL => h = i
  /\ \A p \in Procs : \A d \in Live(p) : \E h \in Handles : mem[p][h] = d
  /\ \A t \in Threads : pc[t] \in Asking =>
       arg[t].hdl \in Handles /\ mem[Me(t)][arg[t].hdl] = NULL /\ arg[t].bytes \in Sizes
  /\ \A t \in Threads : InAddGmem(t) =>
       /\ arg[t].hdl \in Handles /\ arg[t].dptr \in Dptrs
       /\ mem[Me(t)][arg[t].hdl] = arg[t].dptr
       /\ arg[t].bytes = drv[Me(t)][arg[t].dptr]

(* The records on the chain of node n are allocations of its process, each *)
(* once, and none is the allocation that is being recorded.                *)
RecordsOf(n) ==
  LET p == rnode[n].key IN
  /\ \A g \in Chain(n) :
       /\ mem[p][gmem[g].ptr] # NULL
       /\ gmem[g].bytes = drv[p][mem[p][gmem[g].ptr]]
  /\ \A f, g \in Chain(n) : gmem[f].ptr = gmem[g].ptr => f = g
  /\ \A t \in Threads : InAddGmem(t) /\ Me(t) = p =>
       \A g \in Chain(n) : gmem[g].ptr # arg[t].hdl
Recorded == \A n \in Nodes : Existing(n) /\ alive[rnode[n].key] => RecordsOf(n)

AllRecorded == Full \/
  \A p \in Procs, h \in Handles : mem[p][h] # NULL =>
    \/ \E t \in Threads : Me(t) = p /\ InAddGmem(t) /\ arg[t].hdl = h
    \/ \E n \in NodesOf(p) : \E g \in Chain(n) : gmem[g].ptr = h

BaseInv == TypeInv /\ NodeInv /\ NoFrees /\ AddsAlone
KeptInv ==
  /\ BaseInv
  /\ Chained
  /\ NeverReregisters
  /\ OwnVariables
  /\ Recorded
  /\ AllRecorded

(***************************************************************************)
(* Lemmas on chains                                                        *)
(***************************************************************************)
LEMMA ChainInSlots == \A n \in Nodes : Chain(n) \subseteq Slots
  BY DEF Chain

LEMMA ChainUsed == \A n \in Nodes : \A g \in Chain(n) : ~Empty(gmem[g])
  BY DEF Chain

(* A chain is the least set that holds the entry and that no link leaves.  *)
LEMMA ChainLeast ==
  ASSUME NEW n \in Nodes, NEW S \in SUBSET Slots,
         rnode[n].entry \in S \cup {-1}, Closed(S)
  PROVE  Chain(n) \subseteq S
  BY DEF Chain

LEMMA ChainStart ==
  ASSUME TypeInv, LinksUsed, NEW n \in Nodes, Existing(n)
  PROVE  rnode[n].entry \in Chain(n) \cup {-1}
  <1>1. rnode[n].entry = -1 \/ (rnode[n].entry \in Slots /\ ~Empty(gmem[rnode[n].entry]))
    BY EntryType, TableAssumption DEF TypeInv, LinksUsed, Slots
  <1>2. -1 \notin Slots
    BY DEF Slots
  <1> QED BY <1>1, <1>2 DEF Chain

LEMMA ChainNext ==
  ASSUME TypeInv, LinksUsed, NEW n \in Nodes, NEW g \in Chain(n)
  PROVE  gmem[g].next \in Chain(n) \cup {-1}
  <1>1. g \in Slots /\ ~Empty(gmem[g])
    BY ChainInSlots, ChainUsed
  <1>2. gmem[g].next \in -1..(NG - 1)
    BY <1>1 DEF TypeInv, TypeOK, GMems
  <1>3. CASE gmem[g].next # -1
    <2>1. gmem[g].next \in Slots /\ ~Empty(gmem[gmem[g].next])
      BY <1>1, <1>2, <1>3, TableAssumption DEF LinksUsed, Slots
    <2>2. ASSUME NEW S \in SUBSET Slots, rnode[n].entry \in S \cup {-1}, Closed(S)
          PROVE  gmem[g].next \in S
      <3>1. g \in S
        BY <2>2, ChainLeast
      <3> QED BY <1>3, <2>2, <3>1 DEF Closed
    <2> QED BY <2>1, <2>2 DEF Chain
  <1> QED BY <1>3

LEMMA ChainClosed ==
  ASSUME TypeInv, LinksUsed, NEW n \in Nodes
  PROVE  Closed(Chain(n))
  BY ChainNext DEF Closed

(* The same, of the chain after a step and a set that does not change.     *)
LEMMA ChainLeastAfter ==
  ASSUME NEW n \in Nodes, NEW CONSTANT S \in SUBSET Slots,
         rnode'[n].entry \in S \cup {-1},
         \A g \in S : gmem'[g].next \in S \cup {-1}
  PROVE  Chain(n)' \subseteq S
  BY DEF Chain, Closed

(* A step that leaves the entry and the records of a chain where they are  *)
(* leaves the chain alone.                                                 *)
LEMMA ChainAgrees ==
  ASSUME TypeInv, LinksUsed, NEW n \in Nodes, Existing(n),
         rnode'[n].entry = rnode[n].entry,
         \A g \in Chain(n) : gmem'[g].next = gmem[g].next /\ ~Empty(gmem'[g])
  PROVE  Chain(n)' = Chain(n)
  <1>1. PICK C : C = Chain(n)
    OBVIOUS
  <1>2. /\ C \in SUBSET Slots /\ rnode[n].entry \in C \cup {-1}
        /\ \A g \in C : gmem[g].next \in C \cup {-1}
    BY <1>1, ChainInSlots, ChainNext, ChainStart
  <1>3. Chain(n)' \subseteq C
    BY <1>1, <1>2, ChainLeastAfter
  <1>4. ASSUME NEW g \in C, NEW S \in SUBSET Slots, rnode'[n].entry \in S \cup {-1},
               \A f \in S : gmem'[f].next \in S \cup {-1}
        PROVE  g \in S
    <2>1. S \cap C \in SUBSET Slots /\ rnode[n].entry \in (S \cap C) \cup {-1}
      BY <1>2, <1>4
    <2>2. \A f \in S \cap C : gmem[f].next \in (S \cap C) \cup {-1}
      BY <1>1, <1>2, <1>4
    <2>3. Chain(n) \subseteq S \cap C
      BY <2>1, <2>2, ChainLeast DEF Closed
    <2> QED BY <1>1, <2>3
  <1>5. C \subseteq Chain(n)'
    BY <1>1, <1>2, <1>4 DEF Chain, Closed
  <1> QED BY <1>1, <1>3, <1>5

(* An entry of -1 is an empty chain.                                       *)
LEMMA ChainEmpty ==
  ASSUME NEW n \in Nodes, rnode[n].entry = -1
  PROVE  Chain(n) = {}
  <1>1. {} \in SUBSET Slots /\ rnode[n].entry \in {} \cup {-1} /\ Closed({})
    BY DEF Closed
  <1> QED BY <1>1, ChainLeast

LEMMA ChainEmptyAfter ==
  ASSUME NEW n \in Nodes, rnode'[n].entry = -1
  PROVE  Chain(n)' = {}
  <1>1. {} \in SUBSET Slots /\ rnode'[n].entry \in {} \cup {-1}
    OBVIOUS
  <1> QED BY <1>1, ChainLeastAfter

(* A record without a successor becomes the chain when it becomes the      *)
(* entry.                                                                  *)
LEMMA ChainAdopts ==
  ASSUME NEW n \in Nodes, NEW g \in Slots,
         rnode'[n].entry = g, gmem'[g].next = -1, ~Empty(gmem'[g])
  PROVE  Chain(n)' = {g}
  <1>1. g # -1
    BY DEF Slots
  <1>2. Chain(n)' \subseteq {g}
    <2>1. /\ {g} \in SUBSET Slots /\ rnode'[n].entry \in {g} \cup {-1}
          /\ \A f \in {g} : gmem'[f].next \in {g} \cup {-1}
      OBVIOUS
    <2> QED BY <2>1, ChainLeastAfter
  <1>3. g \in Chain(n)'
    BY <1>1 DEF Chain
  <1> QED BY <1>2, <1>3

(* It extends the chain when the last record links to it.                  *)
LEMMA ChainAppends ==
  ASSUME TypeInv, LinksUsed, NEW n \in Nodes, Existing(n), NEW g \in Slots,
         NEW l \in Chain(n), gmem[l].next = -1, g \notin Chain(n),
         rnode'[n].entry = rnode[n].entry,
         \A f \in Chain(n) : ~Empty(gmem'[f]),
         \A f \in Chain(n) \ {l} : gmem'[f].next = gmem[f].next,
         gmem'[l].next = g, gmem'[g].next = -1, ~Empty(gmem'[g])
  PROVE  Chain(n)' = Chain(n) \cup {g}
  <1>1. PICK C : C = Chain(n)
    OBVIOUS
  <1>2. /\ C \in SUBSET Slots /\ rnode[n].entry \in C \cup {-1}
        /\ \A f \in C : gmem[f].next \in C \cup {-1}
        /\ g # -1
    BY <1>1, ChainInSlots, ChainNext, ChainStart DEF Slots
  <1>3. Chain(n)' \subseteq C \cup {g}
    <2>1. /\ C \cup {g} \in SUBSET Slots /\ rnode'[n].entry \in (C \cup {g}) \cup {-1}
          /\ \A f \in C \cup {g} : gmem'[f].next \in (C \cup {g}) \cup {-1}
      BY <1>1, <1>2
    <2> QED BY <2>1, ChainLeastAfter
  <1>4. ASSUME NEW S \in SUBSET Slots, rnode'[n].entry \in S \cup {-1},
               \A f \in S : gmem'[f].next \in S \cup {-1}
        PROVE  C \cup {g} \subseteq S
    <2>1. S \cap C \in SUBSET Slots /\ rnode[n].entry \in (S \cap C) \cup {-1}
      BY <1>2, <1>4
    <2>2. \A f \in S \cap C : gmem[f].next \in (S \cap C) \cup {-1}
      BY <1>1, <1>2, <1>4
    <2>3. Chain(n) \subseteq S \cap C
      BY <2>1, <2>2, ChainLeast DEF Closed
    <2>4. l \in S
      BY <2>3
    <2> QED BY <1>1, <1>2, <1>4, <2>3, <2>4
  <1>5. C \cup {g} \subseteq Chain(n)'
    BY <1>1, <1>2, <1>4 DEF Chain, Closed
  <1> QED BY <1>1, <1>3, <1>5

(***************************************************************************)
(* Frames: what a step that leaves something alone keeps                   *)
(***************************************************************************)
Still(u) ==
  /\ pc'[u] = pc[u] /\ cnt'[u] = cnt[u] /\ cur'[u] = cur[u] /\ prv'[u] = prv[u]
  /\ node'[u] = node[u] /\ arg'[u] = arg[u]

(* A thread that starts nothing new and keeps the arguments of its call.   *)
SameCall(u) ==
  /\ pc[u] = "dead" => pc'[u] = "dead"
  /\ pc'[u] \in Asking => pc[u] \in Asking /\ arg'[u] = arg[u]
  /\ InAddGmem(u)' => InAddGmem(u) /\ arg'[u] = arg[u]

(* A thread that does not leave add_gmem.                                  *)
StaysIn(u) == InAddGmem(u) => InAddGmem(u)' /\ arg'[u] = arg[u]

(* The chains and what they record stay; a new node starts without records.*)
SameRecords ==
  /\ \A n \in Nodes : Existing(n) =>
       Existing(n)' /\ rnode'[n].key = rnode[n].key /\ Chain(n)' = Chain(n)
  /\ \A n \in Nodes : Existing(n)' /\ ~Existing(n) => Chain(n)' = {}
  /\ \A g \in Slots : ~Empty(gmem[g]) =>
       gmem'[g].ptr = gmem[g].ptr /\ gmem'[g].bytes = gmem[g].bytes

LEMMA SameShm ==
  ASSUME UNCHANGED shm
  PROVE  /\ \A n \in Nodes : Chain(n)' = Chain(n)
         /\ Full' = Full /\ SameRecords
  <1>1. rnode' = rnode /\ gmem' = gmem
    BY DEF shm
  <1>2. \A n \in Nodes : Chain(n)' = Chain(n)
    BY <1>1 DEF Chain, Closed
  <1>3. Full' = Full
    BY <1>1 DEF Full
  <1> QED BY <1>1, <1>2, <1>3 DEF SameRecords, Existing

LEMMA HeldStays ==
  ASSUME UNCHANGED shm, NEW u \in Threads, Still(u), Held(u)
  PROVE  Held(u)'
  <1>1. rnode' = rnode /\ gmem' = gmem
    BY DEF shm
  <1>2. (\A n \in Nodes : Chain(n)' = Chain(n)) /\ Full' = Full
    BY SameShm
  <1>3. InHand(u) => InHand(u)'
    BY <1>1, <1>2 DEF InHand, Still, Existing
  <1>4. pc[u] \in {"search", "tail", "append"} => Chain(node[u])' = Chain(node[u])
    BY <1>2 DEF Held, Registering, Still
  <1>5. /\ pc'[u] = "search" => cur'[u] \in Chain(node[u])' \cup {-1}
        /\ pc'[u] \in {"tail", "append"} => prv'[u] \in Chain(node[u])'
        /\ pc'[u] \in Linking => (cur'[u] = -1 /\ Full') \/ InHand(u)'
    BY <1>2, <1>3, <1>4 DEF Held, Still
  <1>6. (pc'[u] = "entry" /\ node'[u] # -1) \/ pc'[u] \in Registering =>
          node'[u] \in Nodes /\ HasNode(u, node[u])'
    BY <1>1 DEF Held, Still, HasNode, Existing
  <1> QED BY <1>1, <1>5, <1>6 DEF Held, Still, Existing

LEMMA OwnStays ==
  ASSUME OwnVariables, UNCHANGED host, \A u \in Threads : SameCall(u)
  PROVE  OwnVariables'
  <1>1. alive' = alive /\ mem' = mem /\ drv' = drv
    BY DEF host
  <1>2. ASSUME NEW p \in Procs, ~alive'[p]
        PROVE  /\ \A t \in Threads : Me(t) = p => pc'[t] = "dead"
               /\ \A h \in Handles : mem'[p][h] = NULL
    BY <1>1, <1>2 DEF OwnVariables, SameCall
  <1>3. \A p \in Procs : Live(p)' = Live(p)
    BY <1>1 DEF Live
  <1>4. ASSUME NEW t \in Threads, pc'[t] \in Asking
        PROVE  /\ arg'[t].hdl \in Handles /\ mem'[Me(t)][arg'[t].hdl] = NULL
               /\ arg'[t].bytes \in Sizes
    BY <1>1, <1>4 DEF OwnVariables, SameCall
  <1>5. ASSUME NEW t \in Threads, InAddGmem(t)'
        PROVE  /\ arg'[t].hdl \in Handles /\ arg'[t].dptr \in Dptrs
               /\ mem'[Me(t)][arg'[t].hdl] = arg'[t].dptr
               /\ arg'[t].bytes = drv'[Me(t)][arg'[t].dptr]
    BY <1>1, <1>5 DEF OwnVariables, SameCall
  <1>6. /\ \A p \in Procs, h \in Handles : mem'[p][h] # NULL => drv'[p][mem'[p][h]] # 0
        /\ \A p \in Procs, h, i \in Handles :
             mem'[p][h] = mem'[p][i] /\ mem'[p][h] # NULL => h = i
        /\ \A p \in Procs : \A d \in Live(p)' : \E h \in Handles : mem'[p][h] = d
    BY <1>1, <1>3 DEF OwnVariables
  <1> QED BY <1>2, <1>4, <1>5, <1>6 DEF OwnVariables

LEMMA RecordedStays ==
  ASSUME NodeInv, Recorded, SameRecords, UNCHANGED host, \A u \in Threads : SameCall(u)
  PROVE  Recorded'
  <1>1. alive' = alive /\ mem' = mem /\ drv' = drv
    BY DEF host
  <1> SUFFICES ASSUME NEW n \in Nodes, Existing(n)', alive'[rnode'[n].key]
               PROVE  RecordsOf(n)'
    BY DEF Recorded
  <1>2. CASE ~Existing(n)
    <2>1. Chain(n)' = {}
      BY <1>2 DEF SameRecords
    <2> QED BY <2>1 DEF RecordsOf
  <1>3. CASE Existing(n)
    <2>1. rnode'[n].key = rnode[n].key /\ Chain(n)' = Chain(n) /\ RecordsOf(n)
      BY <1>1, <1>3 DEF SameRecords, Recorded
    <2>2. \A g \in Chain(n) : gmem'[g].ptr = gmem[g].ptr /\ gmem'[g].bytes = gmem[g].bytes
      BY ChainInSlots, ChainUsed DEF SameRecords
    <2>3. \A t \in Threads : InAddGmem(t)' => InAddGmem(t) /\ arg'[t] = arg[t]
      BY DEF SameCall
    <2> QED BY <1>1, <2>1, <2>2, <2>3 DEF RecordsOf
  <1> QED BY <1>2, <1>3

LEMMA AllRecordedStays ==
  ASSUME AllRecorded, SameRecords, UNCHANGED host, \A u \in Threads : StaysIn(u)
  PROVE  AllRecorded'
  <1>1. mem' = mem
    BY DEF host
  <1>2. CASE Full
    BY <1>2 DEF SameRecords, Full, Empty, AllRecorded
  <1>3. CASE ~Full
    <2> SUFFICES ASSUME NEW p \in Procs, NEW h \in Handles, mem'[p][h] # NULL
                 PROVE  \/ \E t \in Threads : Me(t) = p /\ InAddGmem(t)' /\ arg'[t].hdl = h
                        \/ \E n \in NodesOf(p)' : \E g \in Chain(n)' : gmem'[g].ptr = h
      BY DEF AllRecorded
    <2>1. CASE \E t \in Threads : Me(t) = p /\ InAddGmem(t) /\ arg[t].hdl = h
      BY <2>1 DEF StaysIn
    <2>2. CASE \E n \in NodesOf(p) : \E g \in Chain(n) : gmem[g].ptr = h
      <3>0. PICK n \in NodesOf(p) : \E g \in Chain(n) : gmem[g].ptr = h
        BY <2>2
      <3>1. PICK g \in Chain(n) : gmem[g].ptr = h
        BY <3>0
      <3>2. n \in Nodes /\ Existing(n) /\ rnode[n].key = p
        BY <3>1 DEF NodesOf
      <3>3. n \in NodesOf(p)' /\ Chain(n)' = Chain(n)
        BY <3>2 DEF NodesOf, SameRecords
      <3>4. gmem'[g].ptr = h
        BY <3>1, <3>2, ChainInSlots, ChainUsed DEF SameRecords
      <3> QED BY <3>1, <3>3, <3>4
    <2> QED BY <1>1, <1>3, <2>1, <2>2 DEF AllRecorded
  <1> QED BY <1>2, <1>3

(***************************************************************************)
(* Steps that only read the segments                                       *)
(***************************************************************************)
Reads(t) ==
  /\ UNCHANGED <<shm, host>>
  /\ \A u \in Threads : u # t => Still(u)
  /\ Held(t)' /\ pc'[t] # "reset"
  /\ \A u \in Threads : SameCall(u) /\ StaysIn(u)

LEMMA ReadsKept ==
  ASSUME KeptInv, BaseInv', NEW t \in Threads, Reads(t)
  PROVE  KeptInv'
  <1>1. UNCHANGED shm /\ UNCHANGED host
    BY DEF Reads, shm, host
  <1>2. rnode' = rnode /\ gmem' = gmem /\ \A n \in Nodes : Chain(n)' = Chain(n)
    BY <1>1, SameShm DEF shm
  <1>3. SameRecords
    BY <1>1, SameShm
  <1>4. LinksUsed' /\ ChainsDisjoint'
    BY <1>2 DEF KeptInv, Chained, LinksUsed, ChainsDisjoint, Existing
  <1>5. \A u \in Threads : Held(u)'
    BY <1>1, HeldStays DEF Reads, KeptInv, Chained
  <1>6. NeverReregisters'
    BY DEF KeptInv, NeverReregisters, Reads, Still
  <1>7. OwnVariables'
    BY <1>1, OwnStays DEF KeptInv, Reads
  <1>8. Recorded'
    BY <1>1, <1>3, RecordedStays DEF KeptInv, BaseInv, Reads
  <1>9. AllRecorded'
    BY <1>1, <1>3, AllRecordedStays DEF KeptInv, Reads
  <1> QED BY <1>4, <1>5, <1>6, <1>7, <1>8, <1>9 DEF KeptInv, Chained

(* Enough for Reads: thread t stays on its side of the driver's answer.    *)
LEMMA ReadsIf ==
  ASSUME NEW t \in Threads, UNCHANGED <<shm, host>>,
         \A u \in Threads : u # t => Still(u),
         Held(t)', pc'[t] # "reset", pc[t] # "dead",
         pc'[t] = "idle" \/ arg'[t] = arg[t],
         pc'[t] \in Asking => pc[t] \in Asking,
         pc'[t] \in Recording <=> pc[t] \in Recording
  PROVE  Reads(t)
  <1>1. \A u \in Threads : u # t => SameCall(u) /\ StaysIn(u)
    BY DEF Still, SameCall, StaysIn, InAddGmem
  <1>2. SameCall(t) /\ StaysIn(t)
    BY DEF SameCall, StaysIn, InAddGmem, Asking, Recording
  <1> QED BY <1>1, <1>2 DEF Reads

(* The labels of a thread that is past the insert, or not there yet.       *)
LEMMA BeforeNode ==
  ASSUME NEW t \in Threads, node'[t] = -1,
         pc'[t] \in Asking \cup {"idle", "dead", "find", "insert", "entry"}
  PROVE  Held(t)'
  BY DEF Held, Asking, Registering, Linking

LEMMA ReadsUsed ==
  ASSUME KeptInv, NEW t \in Threads, UsedNode(t) \/ UsedSum(t) \/ CheckLimit(t)
  PROVE  Reads(t)
  <1> USE DEF KeptInv, BaseInv, TypeInv, TypeOK, Goto, Begin
  <1>1. pc[t] \in {"used", "sum", "check"} /\ node[t] = -1
    BY DEF UsedNode, UsedSum, CheckLimit, Chained, Held, Asking
  <1>2. CASE UsedNode(t) \/ UsedSum(t)
    <2>1. \A u \in Threads : u # t => Still(u)
      BY <1>2 DEF UsedNode, UsedSum, Still
    <2>2. UNCHANGED <<shm, host>> /\ node' = node /\ arg' = arg
      BY <1>2 DEF UsedNode, UsedSum, shm, host
    <2>3. pc'[t] \in {"used", "sum", "check"}
      BY <1>2 DEF UsedNode, UsedSum
    <2>4. Held(t)'
      BY <1>1, <2>2, <2>3, BeforeNode DEF Asking
    <2> QED BY <1>1, <2>1, <2>2, <2>3, <2>4, ReadsIf DEF Asking, Recording
  <1>3. CASE CheckLimit(t)
    <2>1. \A u \in Threads : u # t => Still(u)
      BY <1>3 DEF CheckLimit, Return, DropRegs, regs, Still
    <2>2. UNCHANGED <<shm, host>> /\ node'[t] = -1
      BY <1>1, <1>3 DEF CheckLimit, Return, DropRegs, regs, shm, host
    <2>3. pc'[t] = "idle" \/ (pc'[t] = "driver" /\ arg' = arg)
      BY <1>3 DEF CheckLimit, Return, regs
    <2>4. Held(t)'
      BY <2>2, <2>3, BeforeNode DEF Asking
    <2> QED BY <1>1, <2>1, <2>2, <2>3, <2>4, ReadsIf DEF Asking, Recording
  <1> QED BY <1>2, <1>3

LEMMA ReadsDriverFails ==
  ASSUME KeptInv, NEW t \in Threads, DriverAllocFails(t)
  PROVE  Reads(t)
  <1> USE DEF KeptInv, BaseInv, TypeInv, TypeOK, Goto
  <1>1. \A u \in Threads : u # t => Still(u)
    BY DEF DriverAllocFails, Return, DropRegs, Still
  <1>2. UNCHANGED <<shm, host>> /\ node'[t] = -1 /\ pc'[t] = "idle" /\ pc[t] = "driver"
    BY DEF DriverAllocFails, Return, DropRegs, shm, host
  <1>3. Held(t)'
    BY <1>2, BeforeNode
  <1> QED BY <1>1, <1>2, <1>3, ReadsIf DEF Asking, Recording

LEMMA ReadsFindRnode ==
  ASSUME KeptInv, NEW t \in Threads, FindRnode(t)
  PROVE  Reads(t)
  <1> USE DEF KeptInv, BaseInv, TypeInv, TypeOK, Goto, Begin
  <1>1. pc[t] = "find" /\ node[t] = -1 /\ arg[t].kind # "free"
    BY DEF FindRnode, Chained, Held, NoFrees
  <1>2. \A u \in Threads : u # t => Still(u)
    BY DEF FindRnode, Still
  <1>3. UNCHANGED <<shm, host>> /\ arg' = arg
    BY DEF FindRnode
  <1>4. CASE ProbeEnds(t)
    <2>1. pc'[t] = "insert" /\ node'[t] = -1
      BY <1>1, <1>4 DEF FindRnode
    <2>2. Held(t)'
      BY <2>1, BeforeNode
    <2> QED BY <1>1, <1>2, <1>3, <2>1, <2>2, ReadsIf DEF Asking, Recording
  <1>5. CASE ~ProbeEnds(t) /\ ProbeHits(t)
    <2>1. pc'[t] = "entry" /\ node'[t] = Hash(Me(t), cnt[t])
      BY <1>5 DEF FindRnode
    <2>2. Hash(Me(t), cnt[t]) \in Nodes /\ rnode' = rnode
      BY <1>3, HashInTable, MeType DEF shm
    <2>3. HasNode(t, node[t])'
      BY <1>5, <2>1, <2>2 DEF ProbeHits, SameKey, HasNode, Existing
    <2>4. Held(t)'
      BY <2>1, <2>2, <2>3 DEF Held, Asking, Registering, Linking
    <2> QED BY <1>1, <1>2, <1>3, <2>1, <2>4, ReadsIf DEF Asking, Recording
  <1>6. CASE ~ProbeEnds(t) /\ ~ProbeHits(t)
    <2>1. pc'[t] = "find" /\ node'[t] = -1
      BY <1>1, <1>6 DEF FindRnode
    <2>2. Held(t)'
      BY <2>1, BeforeNode
    <2> QED BY <1>1, <1>2, <1>3, <2>1, <2>2, ReadsIf DEF Asking, Recording
  <1> QED BY <1>4, <1>5, <1>6

LEMMA ReadsInsertProbe ==
  ASSUME KeptInv, NEW t \in Threads, InsertProbe(t)
  PROVE  Reads(t)
  <1> USE DEF KeptInv, BaseInv, TypeInv, TypeOK, Goto
  <1>1. pc[t] = "insert" /\ node[t] = -1
    BY DEF InsertProbe, Chained, Held
  <1>2. \A u \in Threads : u # t => Still(u)
    BY DEF InsertProbe, Still
  <1>3. UNCHANGED <<shm, host>> /\ arg' = arg /\ node'[t] = -1
    BY <1>1 DEF InsertProbe
  <1>4. pc'[t] \in {"insert", "entry", "assign"}
    BY <1>1 DEF InsertProbe
  <1>5. Held(t)'
    <2>1. CASE pc'[t] # "assign"
      BY <1>3, <1>4, <2>1, BeforeNode
    <2>2. CASE pc'[t] = "assign"
      <3>1. cnt[t] < NR /\ Usable(t) /\ cnt' = cnt
        BY <1>1, <2>2 DEF InsertProbe
      <3>2. ~Existing(Hash(Me(t), cnt[t]))
        BY <1>1, <3>1, UsableIsFree
      <3>3. ~Existing(Hash(Me(t), cnt[t]))'
        BY <1>3, <3>1, <3>2 DEF Existing, shm
      <3> QED BY <1>3, <2>2, <3>3 DEF Held, Asking, Registering, Linking
    <2> QED BY <2>1, <2>2
  <1> QED BY <1>1, <1>2, <1>3, <1>4, <1>5, ReadsIf DEF Asking, Recording

LEMMA ReadsEntry ==
  ASSUME KeptInv, NEW t \in Threads, ReadEntry(t)
  PROVE  Reads(t)
  <1> USE DEF KeptInv, BaseInv, TypeInv, TypeOK, Goto, Begin
  <1>1. pc[t] = "entry" /\ node[t] # -1 /\ arg[t].kind # "free"
    BY DEF ReadEntry, NoFrees
  <1>2. node[t] \in Nodes /\ HasNode(t, node[t])
    BY <1>1 DEF Chained, Held
  <1>3. \A u \in Threads : u # t => Still(u)
    BY DEF ReadEntry, Still
  <1>4. /\ UNCHANGED <<shm, host>> /\ arg' = arg /\ node' = node
        /\ pc'[t] = "search" /\ cur'[t] = rnode[node[t]].entry
    BY <1>1 DEF ReadEntry
  <1>5. cur'[t] \in Chain(node[t]) \cup {-1}
    BY <1>2, <1>4, ChainStart DEF Chained, HasNode
  <1>6. Chain(node[t])' = Chain(node[t]) /\ HasNode(t, node[t])'
    BY <1>2, <1>4, SameShm DEF shm, HasNode, Existing
  <1>7. Held(t)'
    BY <1>2, <1>4, <1>5, <1>6 DEF Held, Asking, Registering, Linking
  <1> QED BY <1>1, <1>3, <1>4, <1>7, ReadsIf DEF Asking, Recording

(* A thread inside a call belongs to a process that exists.                *)
LEMMA CallerLives ==
  ASSUME TypeInv, OwnVariables, NEW t \in Threads, pc[t] # "dead"
  PROVE  Me(t) \in Procs /\ alive[Me(t)]
  BY MeType DEF OwnVariables, TypeInv, TypeOK

(* No record of the process holds the memory that it is recording.         *)
LEMMA NoneHolds ==
  ASSUME KeptInv, NEW t \in Threads, InAddGmem(t), NEW n \in Nodes, HasNode(t, n),
         NEW g \in Chain(n)
  PROVE  ~Holds(t, gmem[g])
  <1>1. pc[t] # "dead" /\ TypeInv /\ OwnVariables /\ Recorded
    BY DEF InAddGmem, Recording, KeptInv, BaseInv
  <1>2. Me(t) \in Procs /\ alive[Me(t)]
    BY <1>1, CallerLives
  <1>3. rnode[n].key = Me(t) /\ RecordsOf(n)
    BY <1>1, <1>2 DEF HasNode, Recorded
  <1>4. gmem[g].ptr # arg[t].hdl
    BY <1>3 DEF RecordsOf
  <1>5. gmem[g].ptr \in Handles
    BY <1>1, ChainInSlots, ChainUsed DEF TypeInv, TypeOK, GMems, Empty
  <1>6. arg[t].hdl \in Handles /\ mem[Me(t)][arg[t].hdl] = arg[t].dptr /\ arg[t].dptr # NULL
    BY <1>1, DataAssumption DEF OwnVariables
  <1> QED BY <1>1, <1>2, <1>4, <1>5, <1>6 DEF OwnVariables, Holds, Deref

LEMMA ReadsFindGmem ==
  ASSUME KeptInv, NEW t \in Threads, FindGmem(t)
  PROVE  Reads(t)
  <1> DEFINE c == Cell(cur[t])
  <1> USE DEF KeptInv, BaseInv, TypeInv, TypeOK, Goto, Begin
  <1>1. pc[t] = "search" /\ arg[t].kind # "free"
    BY DEF FindGmem, NoFrees
  <1>2. /\ node[t] \in Nodes /\ HasNode(t, node[t])
        /\ cur[t] \in Chain(node[t]) \cup {-1}
    BY <1>1 DEF Chained, Held, Registering
  <1>3. \A u \in Threads : u # t => Still(u)
    BY DEF FindGmem, Still
  <1>4. /\ UNCHANGED <<shm, host>> /\ arg' = arg /\ node' = node
    BY DEF FindGmem
  <1>5. Chain(node[t])' = Chain(node[t]) /\ HasNode(t, node[t])'
    BY <1>2, <1>4, SameShm DEF shm, HasNode, Existing
  <1>6. CASE Empty(c)
    <2>1. pc'[t] = "push" /\ cnt'[t] = 0
      BY <1>6, <1>1, DataAssumption, MeType DEF FindGmem, Empty
    <2>2. Held(t)'
      BY <1>2, <1>4, <1>5, <2>1, TableAssumption
      DEF Held, Asking, Registering, Linking, Slots
    <2> QED BY <1>1, <1>3, <1>4, <2>1, <2>2, ReadsIf DEF Asking, Recording
  <1>7. CASE c.ptr \in Mapped[Me(t)]
    <2>1. c.ptr # NULL /\ ~Empty(c)
      BY <1>7, DataAssumption, MeType DEF Empty
    <2>2. cur[t] \in Chain(node[t]) /\ cur[t] # -1 /\ c = gmem[cur[t]]
      BY <1>2, <2>1, ChainInSlots DEF Cell, Slots
    <2>3. ~Holds(t, c)
      BY <1>1, <1>2, <2>2, NoneHolds DEF InAddGmem, Recording
    <2>4. pc'[t] = "search" /\ cur'[t] = gmem[cur[t]].next
      BY <1>1, <1>7, <2>1, <2>2, <2>3 DEF FindGmem
    <2>5. cur'[t] \in Chain(node[t]) \cup {-1}
      BY <1>2, <2>2, <2>4, ChainNext DEF Chained
    <2>6. Held(t)'
      BY <1>2, <1>4, <1>5, <2>4, <2>5 DEF Held, Asking, Registering, Linking
    <2> QED BY <1>1, <1>3, <1>4, <2>4, <2>6, ReadsIf DEF Asking, Recording
  <1> QED BY <1>6, <1>7 DEF FindGmem

LEMMA ReadsPushProbe ==
  ASSUME KeptInv, NEW t \in Threads, PushProbe(t)
  PROVE  Reads(t)
  <1> USE DEF KeptInv, BaseInv, TypeInv, TypeOK, Goto
  <1>1. /\ pc[t] = "push" /\ node[t] \in Nodes /\ HasNode(t, node[t])
        /\ \A g \in Slots : g < cnt[t] => ~Empty(gmem[g])
    BY DEF PushProbe, Chained, Held, Registering
  <1>2. \A u \in Threads : u # t => Still(u)
    BY DEF PushProbe, Still
  <1>3. UNCHANGED <<shm, host>> /\ arg' = arg /\ node' = node /\ gmem' = gmem
    BY DEF PushProbe, shm
  <1>4. HasNode(t, node[t])'
    BY <1>1, <1>3 DEF shm, HasNode, Existing
  <1>5. CASE cnt[t] = NG
    <2>1. pc'[t] = "link" /\ cur'[t] = -1
      BY <1>1, <1>5, TableAssumption DEF PushProbe
    <2>2. Full'
      BY <1>1, <1>3, <1>5, TableAssumption DEF Full, Slots
    <2>3. Held(t)'
      BY <1>1, <1>3, <1>4, <2>1, <2>2 DEF Held, Asking, Registering, Linking
    <2> QED BY <1>1, <1>2, <1>3, <2>1, <2>3, ReadsIf DEF Asking, Recording
  <1>6. CASE cnt[t] < NG /\ Empty(gmem[cnt[t]])
    <2>1. pc'[t] = "claim" /\ cnt' = cnt
      BY <1>1, <1>6, TableAssumption DEF PushProbe
    <2>2. Held(t)'
      BY <1>1, <1>3, <1>4, <1>6, <2>1 DEF Held, Asking, Registering, Linking
    <2> QED BY <1>1, <1>2, <1>3, <2>1, <2>2, ReadsIf DEF Asking, Recording
  <1>7. CASE cnt[t] < NG /\ ~Empty(gmem[cnt[t]])
    <2>1. pc'[t] = "push" /\ cnt'[t] = cnt[t] + 1
      BY <1>1, <1>7, TableAssumption DEF PushProbe
    <2>2. \A g \in Slots : g < cnt'[t] => ~Empty(gmem'[g])
      BY <1>1, <1>3, <1>7, <2>1 DEF Slots
    <2>3. Held(t)'
      BY <1>1, <1>3, <1>4, <2>1, <2>2 DEF Held, Asking, Registering, Linking
    <2> QED BY <1>1, <1>2, <1>3, <2>1, <2>3, ReadsIf DEF Asking, Recording
  <1> QED BY <1>5, <1>6, <1>7 DEF PushProbe

LEMMA ReadsLinkEntry ==
  ASSUME KeptInv, NEW t \in Threads, LinkEntry(t)
  PROVE  Reads(t)
  <1> USE DEF KeptInv, BaseInv, TypeInv, TypeOK, Goto
  <1>1. /\ pc[t] = "link" /\ node[t] \in Nodes /\ HasNode(t, node[t])
        /\ (cur[t] = -1 /\ Full) \/ InHand(t)
    BY DEF LinkEntry, Chained, Held, Registering, Linking
  <1>2. \A u \in Threads : u # t => Still(u)
    BY DEF LinkEntry, Still
  <1>3. /\ UNCHANGED <<shm, host>> /\ arg' = arg /\ node' = node /\ cur' = cur
        /\ rnode' = rnode /\ gmem' = gmem
    BY DEF LinkEntry, shm
  <1>4. /\ HasNode(t, node[t])' /\ Full' = Full
        /\ \A n \in Nodes : Chain(n)' = Chain(n)
    BY <1>1, <1>3, SameShm DEF shm, HasNode, Existing
  <1>5. (cur'[t] = -1 /\ Full') \/ InHand(t)'
    BY <1>1, <1>3, <1>4 DEF InHand, Existing
  <1>6. CASE rnode[node[t]].entry = -1
    <2>1. pc'[t] = "adopt"
      BY <1>1, <1>6 DEF LinkEntry
    <2>2. Held(t)'
      BY <1>1, <1>3, <1>4, <1>5, <1>6, <2>1 DEF Held, Asking, Registering
    <2> QED BY <1>1, <1>2, <1>3, <2>1, <2>2, ReadsIf DEF Asking, Recording
  <1>7. CASE rnode[node[t]].entry # -1
    <2>1. pc'[t] = "tail" /\ prv'[t] = rnode[node[t]].entry
      BY <1>1, <1>7 DEF LinkEntry
    <2>2. prv'[t] \in Chain(node[t])
      BY <1>1, <1>7, <2>1, ChainStart DEF Chained, HasNode
    <2>3. Held(t)'
      BY <1>1, <1>3, <1>4, <1>5, <2>1, <2>2 DEF Held, Asking, Registering
    <2> QED BY <1>1, <1>2, <1>3, <2>1, <2>3, ReadsIf DEF Asking, Recording
  <1> QED BY <1>6, <1>7

(* The walk of last_rec never meets the record that it is to link.         *)
LEMMA ReadsLastRec ==
  ASSUME KeptInv, NEW t \in Threads, LastRec(t)
  PROVE  Reads(t)
  <1> USE DEF KeptInv, BaseInv, TypeInv, TypeOK, Goto
  <1>1. /\ pc[t] = "tail" /\ node[t] \in Nodes /\ HasNode(t, node[t])
        /\ (cur[t] = -1 /\ Full) \/ InHand(t)
        /\ prv[t] \in Chain(node[t])
    BY DEF LastRec, Chained, Held, Registering, Linking
  <1>2. prv[t] # cur[t] /\ prv[t] # -1
    BY <1>1, ChainInSlots DEF InHand, HasNode, Slots
  <1>3. Cell(prv[t]) = gmem[prv[t]] /\ ~Empty(gmem[prv[t]])
    BY <1>1, <1>2, ChainUsed DEF Cell
  <1>4. \/ pc'[t] = "append" /\ IsTail(gmem[prv[t]]) /\ UNCHANGED regs
        \/ /\ pc'[t] = "tail" /\ prv' = [prv EXCEPT ![t] = gmem[prv[t]].next]
           /\ ~IsTail(gmem[prv[t]])
           /\ UNCHANGED <<cnt, cur, acc, node, arg>>
    BY <1>1, <1>2, <1>3 DEF LastRec
  <1>5. \A u \in Threads : u # t => Still(u)
    BY <1>2, <1>4 DEF LastRec, Still, regs
  <1>6. /\ UNCHANGED <<shm, host>> /\ arg' = arg /\ node' = node /\ cur' = cur
        /\ rnode' = rnode /\ gmem' = gmem
    BY <1>4 DEF LastRec, shm, regs
  <1>7. /\ HasNode(t, node[t])' /\ Full' = Full
        /\ \A n \in Nodes : Chain(n)' = Chain(n)
    BY <1>1, <1>6, SameShm DEF shm, HasNode, Existing
  <1>8. (cur'[t] = -1 /\ Full') \/ InHand(t)'
    BY <1>1, <1>6, <1>7 DEF InHand, Existing
  <1>9. prv'[t] \in Chain(node[t])
    <2>1. gmem[prv[t]].next \in Chain(node[t]) \cup {-1}
      BY <1>1, ChainNext DEF Chained
    <2> QED BY <1>1, <1>3, <1>4, <2>1 DEF IsTail, Empty, regs
  <1>10. pc'[t] = "append" => gmem'[prv'[t]].next = -1
    BY <1>4, <1>6 DEF IsTail, regs
  <1>11. Held(t)'
    BY <1>1, <1>4, <1>6, <1>7, <1>8, <1>9, <1>10 DEF Held, Asking, Registering
  <1> QED BY <1>1, <1>4, <1>5, <1>6, <1>11, ReadsIf DEF Asking, Recording

(***************************************************************************)
(* Steps that write the segments: while one thread is in add_gmem the      *)
(* others hold nothing of them                                             *)
(***************************************************************************)
LEMMA OthersHold ==
  ASSUME KeptInv, NEW t \in Threads, pc[t] \in Recording,
         NEW u \in Threads, u # t, Still(u)
  PROVE  Held(u)'
  <1>1. arg[t].kind # "free" /\ InAddGmem(t)
    BY DEF KeptInv, BaseInv, NoFrees, InAddGmem, Recording
  <1>2. ~InAddGmem(u)
    BY <1>1 DEF KeptInv, BaseInv, AddsAlone
  <1>3. pc[u] \in Labels /\ pc[u] \notin Recording /\ pc[u] \notin Freeing
    BY <1>2 DEF KeptInv, BaseInv, NoFrees, InAddGmem, Recording, Freeing, TypeInv, TypeOK
  <1>4. pc[u] \in Asking \cup {"idle", "dead"}
    BY <1>3 DEF Labels, Recording, Freeing, Asking
  <1>5. node[u] = -1
    BY <1>4 DEF KeptInv, Chained, Held
  <1> QED BY <1>4, <1>5, BeforeNode DEF Still

(* Enough for a step of add_gmem that records nothing yet.                 *)
LEMMA WritesKept ==
  ASSUME KeptInv, BaseInv', NEW t \in Threads, SameRecords, UNCHANGED host,
         \A u \in Threads : u # t => Still(u),
         Held(t)', LinksUsed', ChainsDisjoint',
         pc[t] \in Recording, pc'[t] \in Recording, pc'[t] # "reset", arg'[t] = arg[t]
  PROVE  KeptInv'
  <1>1. \A u \in Threads : SameCall(u) /\ StaysIn(u)
    BY DEF Still, SameCall, StaysIn, InAddGmem, Recording, Asking
  <1>2. \A u \in Threads : Held(u)'
    BY OthersHold
  <1>3. NeverReregisters'
    BY DEF KeptInv, NeverReregisters, Still
  <1>4. OwnVariables' /\ Recorded' /\ AllRecorded'
    BY <1>1, OwnStays, RecordedStays, AllRecordedStays DEF KeptInv, BaseInv
  <1> QED BY <1>2, <1>3, <1>4 DEF KeptInv, Chained

LEMMA LinkType ==
  ASSUME TypeOK
  PROVE  /\ \A n \in Nodes : rnode[n].entry = -1 \/ rnode[n].entry \in Slots
         /\ \A g \in Slots : gmem[g].next = -1 \/ gmem[g].next \in Slots
  <1>1. \A n \in Nodes : rnode[n].entry \in -1..(NG - 1)
    BY EntryType
  <1>2. \A g \in Slots : gmem[g].next \in -1..(NG - 1)
    BY DEF TypeOK, GMems
  <1> QED BY <1>1, <1>2, TableAssumption DEF Slots

(* Entries and links stay, and those that a step sets anew lead nowhere.   *)
LEMMA LinksStay ==
  ASSUME TypeOK, LinksUsed,
         \A g \in Slots : ~Empty(gmem[g]) => ~Empty(gmem'[g]),
         \A n \in Nodes : Existing(n)' =>
           rnode'[n].entry = -1 \/ (Existing(n) /\ rnode'[n].entry = rnode[n].entry),
         \A g \in Slots : ~Empty(gmem'[g]) =>
           gmem'[g].next = -1 \/ (~Empty(gmem[g]) /\ gmem'[g].next = gmem[g].next)
  PROVE  LinksUsed'
  <1>1. ASSUME NEW n \in Nodes, Existing(n)'
        PROVE  rnode'[n].entry = -1 \/ ~Empty(gmem'[rnode'[n].entry])
    BY <1>1, LinkType DEF LinksUsed
  <1>2. ASSUME NEW g \in Slots, ~Empty(gmem'[g])
        PROVE  gmem'[g].next = -1 \/ ~Empty(gmem'[gmem'[g].next])
    BY <1>2, LinkType DEF LinksUsed
  <1> QED BY <1>1, <1>2 DEF LinksUsed

LEMMA DisjointStays ==
  ASSUME ChainsDisjoint,
         \A n \in Nodes : Existing(n)' =>
           Chain(n)' = {} \/ (Existing(n) /\ Chain(n)' = Chain(n)),
         \A g \in Slots : ~Empty(gmem[g]) =>
           gmem'[g].ptr = gmem[g].ptr /\ gmem'[g].next = gmem[g].next
  PROVE  ChainsDisjoint'
  <1>1. ASSUME NEW m \in Nodes, NEW n \in Nodes, Existing(m)', Existing(n)', m # n
        PROVE  Chain(m)' \cap Chain(n)' = {}
    BY <1>1 DEF ChainsDisjoint
  <1>2. ASSUME NEW n \in Nodes, Existing(n)', Chain(n)' # {}
        PROVE  \E g \in Chain(n)' : IsTail(gmem'[g])
    <2>1. PICK g \in Chain(n) : IsTail(gmem[g])
      BY <1>2 DEF ChainsDisjoint
    <2>2. gmem'[g].ptr = gmem[g].ptr /\ gmem'[g].next = gmem[g].next
      BY ChainInSlots, ChainUsed
    <2> QED BY <1>2, <2>1, <2>2 DEF IsTail
  <1> QED BY <1>1, <1>2 DEF ChainsDisjoint

LEMMA KeptInsertAssign ==
  ASSUME KeptInv, BaseInv', NEW t \in Threads, InsertAssign(t)
  PROVE  KeptInv'
  <1> USE DEF KeptInv, BaseInv, TypeInv, TypeOK, Goto, Begin
  <1>0. PICK s : s = Hash(Me(t), cnt[t])
    OBVIOUS
  <1>1. /\ pc[t] = "assign" /\ s \in Nodes /\ ~Existing(s)
    BY <1>0, HashInTable, MeType DEF InsertAssign, Chained, Held
  <1>2. /\ rnode'[s].key = Me(t) /\ rnode'[s].entry = -1 /\ rnode'[s].stat = "EXIST"
        /\ \A n \in Nodes : n # s => rnode'[n] = rnode[n]
        /\ gmem' = gmem
    BY <1>0, <1>1 DEF InsertAssign
  <1>3. Existing(s)' /\ \A n \in Nodes : n # s => Existing(n)' = Existing(n)
    BY <1>1, <1>2 DEF Existing
  <1>4. \A u \in Threads : u # t => Still(u)
    BY DEF InsertAssign, Still
  <1>5. pc'[t] = "entry" /\ node'[t] = s /\ arg' = arg /\ UNCHANGED host
    BY <1>0 DEF InsertAssign
  <1>6. Chain(s)' = {}
    BY <1>1, <1>2, ChainEmptyAfter
  <1>7. ASSUME NEW n \in Nodes, Existing(n) PROVE n # s /\ Chain(n)' = Chain(n)
    <2>1. n # s /\ rnode'[n].entry = rnode[n].entry
      BY <1>1, <1>2, <1>7
    <2> QED BY <1>2, <1>7, <2>1, ChainAgrees, ChainUsed DEF Chained
  <1>8. SameRecords
    BY <1>2, <1>3, <1>6, <1>7 DEF SameRecords
  <1>9. LinksUsed'
    <2>1. \A n \in Nodes : Existing(n)' =>
            rnode'[n].entry = -1 \/ (Existing(n) /\ rnode'[n].entry = rnode[n].entry)
      BY <1>2, <1>3 DEF Existing
    <2>2. \A g \in Slots : gmem'[g] = gmem[g]
      BY <1>2
    <2> QED BY <2>1, <2>2, LinksStay DEF Chained
  <1>10. ChainsDisjoint'
    <2>1. \A n \in Nodes : Existing(n)' =>
            Chain(n)' = {} \/ (Existing(n) /\ Chain(n)' = Chain(n))
      BY <1>3, <1>6, <1>7
    <2> QED BY <1>2, <2>1, DisjointStays DEF Chained
  <1>11. Held(t)'
    <2>1. HasNode(t, node[t])'
      BY <1>1, <1>2, <1>3, <1>5 DEF HasNode
    <2> QED BY <1>1, <1>5, <2>1 DEF Held, Asking, Registering, Linking
  <1> HIDE DEF KeptInv, BaseInv, TypeInv, TypeOK
  <1> QED BY <1>1, <1>4, <1>5, <1>8, <1>9, <1>10, <1>11, WritesKept DEF Recording

LEMMA KeptPushClaim ==
  ASSUME KeptInv, BaseInv', NEW t \in Threads, PushClaim(t)
  PROVE  KeptInv'
  <1> USE DEF KeptInv, BaseInv, TypeInv, TypeOK, Goto, Begin
  <1>0. PICK s : s = cnt[t]
    OBVIOUS
  <1>1. /\ pc[t] = "claim" /\ s \in Slots /\ Empty(gmem[s])
        /\ node[t] \in Nodes /\ HasNode(t, node[t]) /\ arg[t].kind # "free"
    BY <1>0 DEF PushClaim, Chained, Held, Registering, Indices, Slots, NoFrees
  <1>2. arg[t].hdl \in Handles /\ arg[t].hdl # NULL
    BY <1>1, DataAssumption DEF OwnVariables, InAddGmem, Recording
  <1>3. /\ gmem'[s].ptr = arg[t].hdl /\ gmem'[s].bytes = arg[t].bytes
        /\ gmem'[s].next = -1
        /\ \A g \in Slots : g # s => gmem'[g] = gmem[g]
        /\ rnode' = rnode
    BY <1>0, <1>1 DEF PushClaim
  <1>4. \A u \in Threads : u # t => Still(u)
    BY DEF PushClaim, Still
  <1>5. /\ pc'[t] = "link" /\ node' = node /\ arg' = arg /\ cur'[t] = s
        /\ UNCHANGED host
    BY <1>0 DEF PushClaim
  <1>6. ~Empty(gmem'[s])
    BY <1>2, <1>3 DEF Empty
  <1>7. ASSUME NEW n \in Nodes, Existing(n) PROVE s \notin Chain(n) /\ Chain(n)' = Chain(n)
    <2>1. s \notin Chain(n)
      BY <1>1, ChainUsed
    <2>2. \A g \in Chain(n) : gmem'[g] = gmem[g] /\ ~Empty(gmem[g])
      BY <1>3, <2>1, ChainInSlots, ChainUsed
    <2> QED BY <1>3, <1>7, <2>1, <2>2, ChainAgrees DEF Chained
  <1>8. SameRecords
    BY <1>1, <1>3, <1>7 DEF SameRecords, Existing
  <1>9. LinksUsed'
    <2>1. \A g \in Slots : g = s \/ gmem'[g] = gmem[g]
      BY <1>3
    <2>3. \A g \in Slots : ~Empty(gmem[g]) => ~Empty(gmem'[g])
      BY <1>1, <2>1
    <2>4. \A g \in Slots : ~Empty(gmem'[g]) =>
            gmem'[g].next = -1 \/ (~Empty(gmem[g]) /\ gmem'[g].next = gmem[g].next)
      BY <1>3, <2>1
    <2>2. \A n \in Nodes : Existing(n)' => Existing(n) /\ rnode'[n].entry = rnode[n].entry
      BY <1>3 DEF Existing
    <2> QED BY <2>2, <2>3, <2>4, LinksStay DEF Chained
  <1>10. ChainsDisjoint'
    <2>1. \A g \in Slots : ~Empty(gmem[g]) => gmem'[g] = gmem[g]
      BY <1>1, <1>3
    <2>2. \A n \in Nodes : Existing(n)' => Existing(n) /\ Chain(n)' = Chain(n)
      BY <1>3, <1>7 DEF Existing
    <2> QED BY <2>1, <2>2, DisjointStays DEF Chained
  <1>11. Held(t)'
    <2>1. HasNode(t, node[t])'
      BY <1>1, <1>3, <1>5 DEF HasNode, Existing
    <2>2. InHand(t)'
      BY <1>1, <1>3, <1>5, <1>6, <1>7 DEF InHand, Existing
    <2> QED BY <1>1, <1>5, <2>1, <2>2 DEF Held, Asking, Registering, Linking
  <1> HIDE DEF KeptInv, BaseInv, TypeInv, TypeOK
  <1> QED BY <1>1, <1>4, <1>5, <1>8, <1>9, <1>10, <1>11, WritesKept DEF Recording

(***************************************************************************)
(* The last step of add_gmem                                               *)
(***************************************************************************)
(* Enough for a step by which thread t leaves add_gmem.                    *)
LEMMA LeavesKept ==
  ASSUME KeptInv, BaseInv', NEW t \in Threads, UNCHANGED host,
         \A u \in Threads : u # t => Still(u),
         LinksUsed', ChainsDisjoint', Recorded', AllRecorded',
         pc[t] \in Recording, pc'[t] = "idle", node'[t] = -1
  PROVE  KeptInv'
  <1>1. \A u \in Threads : SameCall(u)
    BY DEF Still, SameCall, InAddGmem, Recording, Asking
  <1>2. \A u \in Threads : Held(u)'
    BY OthersHold, BeforeNode
  <1>3. NeverReregisters'
    BY DEF KeptInv, NeverReregisters, Still
  <1>4. OwnVariables'
    BY <1>1, OwnStays DEF KeptInv
  <1> QED BY <1>2, <1>3, <1>4 DEF KeptInv, Chained

(* With all slots taken there is nothing to link and nothing changes.      *)
SameFields ==
  /\ \A n \in Nodes :
       /\ rnode'[n].entry = rnode[n].entry
       /\ rnode'[n].key = rnode[n].key /\ rnode'[n].stat = rnode[n].stat
  /\ \A g \in Slots :
       /\ gmem'[g].ptr = gmem[g].ptr /\ gmem'[g].bytes = gmem[g].bytes
       /\ gmem'[g].next = gmem[g].next

LEMMA NothingToLink ==
  ASSUME KeptInv, BaseInv', NEW t \in Threads, UNCHANGED host, SameFields, Full,
         \A u \in Threads : u # t => Still(u),
         pc[t] \in Recording, pc'[t] = "idle", node'[t] = -1
  PROVE  KeptInv'
  <1>1. TypeInv /\ LinksUsed /\ ChainsDisjoint /\ NodeInv /\ Recorded
    BY DEF KeptInv, BaseInv, Chained
  <1>2. \A n \in Nodes : Existing(n)' <=> Existing(n)
    BY DEF SameFields, Existing
  <1>3. ASSUME NEW n \in Nodes, Existing(n) PROVE Chain(n)' = Chain(n)
    <2>1. \A g \in Chain(n) : gmem'[g].next = gmem[g].next /\ ~Empty(gmem'[g])
      BY ChainInSlots, ChainUsed DEF SameFields, Empty
    <2>2. rnode'[n].entry = rnode[n].entry
      BY DEF SameFields
    <2> QED BY <1>1, <1>3, <2>1, <2>2, ChainAgrees
  <1>4. SameRecords
    BY <1>2, <1>3 DEF SameRecords, SameFields
  <1>5. LinksUsed'
    <2>1. \A g \in Slots : Empty(gmem'[g]) <=> Empty(gmem[g])
      BY DEF SameFields, Empty
    <2>2. \A n \in Nodes : Existing(n)' => Existing(n) /\ rnode'[n].entry = rnode[n].entry
      BY <1>2 DEF SameFields
    <2>3. \A g \in Slots : ~Empty(gmem'[g]) =>
            ~Empty(gmem[g]) /\ gmem'[g].next = gmem[g].next
      BY <2>1 DEF SameFields
    <2> QED BY <1>1, <2>1, <2>2, <2>3, LinksStay DEF TypeInv
  <1>6. ChainsDisjoint'
    <2>1. \A n \in Nodes : Existing(n)' => Existing(n) /\ Chain(n)' = Chain(n)
      BY <1>2, <1>3
    <2>2. \A g \in Slots : gmem'[g].ptr = gmem[g].ptr /\ gmem'[g].next = gmem[g].next
      BY DEF SameFields
    <2> QED BY <1>1, <2>1, <2>2, DisjointStays
  <1>7. Recorded'
    <2>1. \A u \in Threads : SameCall(u)
      BY DEF Still, SameCall, InAddGmem, Recording, Asking
    <2> QED BY <1>1, <1>4, <2>1, RecordedStays
  <1>8. AllRecorded'
    BY DEF AllRecorded, Full, SameFields, Empty
  <1> QED BY <1>5, <1>6, <1>7, <1>8, LeavesKept

(* Record g joins the chain of node m.                                     *)
Joins(g, m) ==
  /\ \A n \in Nodes : (Existing(n)' <=> Existing(n)) /\ rnode'[n].key = rnode[n].key
  /\ Chain(m)' = Chain(m) \cup {g}
  /\ \A n \in Nodes : Existing(n) /\ n # m => Chain(n)' = Chain(n)
  /\ \A f \in Slots : gmem'[f].ptr = gmem[f].ptr /\ gmem'[f].bytes = gmem[f].bytes

LEMMA JoinsKept ==
  ASSUME KeptInv, BaseInv', NEW t \in Threads, UNCHANGED host,
         \A u \in Threads : u # t => Still(u),
         NEW m \in Nodes, NEW g \in Slots, m = node[t], g = cur[t],
         Joins(g, m), InHand(t), HasNode(t, m),
         LinksUsed', ChainsDisjoint',
         pc[t] \in Recording, pc'[t] = "idle", node'[t] = -1
  PROVE  KeptInv'
  <1>1. /\ TypeInv /\ NodeInv /\ OwnVariables /\ Recorded /\ AllRecorded
        /\ AddsAlone /\ InAddGmem(t) /\ NoFrees
    <2>1. /\ TypeInv /\ NodeInv /\ NoFrees /\ OwnVariables /\ Recorded /\ AllRecorded
          /\ AddsAlone
      BY DEF KeptInv, BaseInv
    <2>2. InAddGmem(t)
      BY <2>1 DEF InAddGmem, NoFrees, Recording
    <2> QED BY <2>1, <2>2
  <1>4. PICK p \in Procs : p = Me(t)
    BY MeType
  <1>5. Chain(m)' = Chain(m) \cup {g}
    BY DEF Joins
  <1>6. alive' = alive /\ mem' = mem /\ drv' = drv
    BY DEF host
  <1>7. \A u \in Threads : ~InAddGmem(u)'
    <2>1. ~InAddGmem(t)'
      BY DEF InAddGmem, Recording
    <2>2. ASSUME NEW u \in Threads, u # t PROVE ~InAddGmem(u)'
      BY <1>1, <2>2 DEF AddsAlone, InAddGmem, Still
    <2> QED BY <2>1, <2>2
  <1>8. /\ gmem[g].ptr = arg[t].hdl /\ gmem[g].bytes = arg[t].bytes
        /\ arg[t].hdl \in Handles /\ mem[p][arg[t].hdl] = arg[t].dptr
        /\ arg[t].dptr # NULL /\ arg[t].bytes = drv[p][arg[t].dptr]
    BY <1>1, <1>4, DataAssumption DEF InHand, OwnVariables
  <1>9. Existing(m) /\ rnode[m].key = p /\ alive[p]
    BY <1>1, <1>4, CallerLives DEF HasNode, InAddGmem, Recording
  <1>10. ASSUME NEW n \in Nodes, Existing(n)', alive'[rnode'[n].key]
         PROVE  RecordsOf(n)'
    <2>1. Existing(n) /\ rnode'[n].key = rnode[n].key /\ RecordsOf(n)
      BY <1>1, <1>6, <1>10 DEF Joins, Recorded
    <2>2. \A f \in Slots : gmem'[f].ptr = gmem[f].ptr /\ gmem'[f].bytes = gmem[f].bytes
      BY DEF Joins
    <2>3. CASE n # m
      <3>1. Chain(n)' = Chain(n)
        BY <2>1, <2>3 DEF Joins
      <3> QED BY <1>6, <1>7, <2>1, <2>2, <3>1, ChainInSlots DEF RecordsOf
    <2>4. CASE n = m
      <3>1. \A f \in Chain(m) : gmem[f].ptr # arg[t].hdl
        BY <1>1, <1>4, <1>9, <2>1, <2>4 DEF RecordsOf
      <3>2. \A f \in Chain(m) : /\ f \in Slots /\ mem[p][gmem[f].ptr] # NULL
                                /\ gmem[f].bytes = drv[p][mem[p][gmem[f].ptr]]
        BY <1>9, <2>1, <2>4, ChainInSlots DEF RecordsOf
      <3>3. \A f, e \in Chain(m) : gmem[f].ptr = gmem[e].ptr => f = e
        BY <2>1, <2>4 DEF RecordsOf
      <3>4. \A f \in Chain(n)' : /\ mem'[p][gmem'[f].ptr] # NULL
                                 /\ gmem'[f].bytes = drv'[p][mem'[p][gmem'[f].ptr]]
        BY <1>5, <1>6, <1>8, <2>2, <2>4, <3>2
      <3>5. \A f, e \in Chain(n)' : gmem'[f].ptr = gmem'[e].ptr => f = e
        BY <1>5, <1>8, <2>2, <2>4, <3>1, <3>2, <3>3
      <3> QED BY <1>7, <1>9, <2>1, <2>4, <3>4, <3>5 DEF RecordsOf
    <2> QED BY <2>3, <2>4
  <1>11. AllRecorded'
    <2>1. Full => Full'
      BY DEF Full, Joins, Empty
    <2>2. ASSUME ~Full, NEW q \in Procs, NEW h \in Handles, mem[q][h] # NULL
          PROVE  \E n \in NodesOf(q)' : \E f \in Chain(n)' : gmem'[f].ptr = h
      <3>1. CASE \E u \in Threads : Me(u) = q /\ InAddGmem(u) /\ arg[u].hdl = h
        <4>1. q = p /\ arg[t].hdl = h
          BY <1>1, <1>4, <3>1 DEF AddsAlone
        <4>2. m \in NodesOf(q)'
          BY <1>9, <4>1 DEF NodesOf, Joins
        <4>3. g \in Chain(m)' /\ gmem'[g].ptr = h
          BY <1>5, <1>8, <4>1 DEF Joins
        <4> QED BY <4>2, <4>3
      <3>2. CASE \E n \in NodesOf(q) : \E f \in Chain(n) : gmem[f].ptr = h
        <4>1. PICK n \in NodesOf(q) : \E f \in Chain(n) : gmem[f].ptr = h
          BY <3>2
        <4>2. PICK f \in Chain(n) : gmem[f].ptr = h
          BY <4>1
        <4>3. n \in Nodes /\ Existing(n)
          BY DEF NodesOf
        <4>4. n \in NodesOf(q)'
          BY DEF NodesOf, Joins
        <4>5. f \in Chain(n)'
          BY <1>5, <4>3 DEF Joins
        <4>6. gmem'[f].ptr = h
          BY <4>2, <4>3, ChainInSlots DEF Joins
        <4> QED BY <4>4, <4>5, <4>6
      <3> QED BY <1>1, <2>2, <3>1, <3>2 DEF AllRecorded
    <2> QED BY <1>6, <2>1, <2>2 DEF AllRecorded
  <1>12. Recorded'
    BY <1>10 DEF Recorded
  <1> QED BY <1>11, <1>12, LeavesKept

LEMMA KeptSetEntry ==
  ASSUME KeptInv, BaseInv', NEW t \in Threads, SetEntry(t)
  PROVE  KeptInv'
  <1> USE DEF KeptInv, BaseInv, TypeInv, TypeOK, Goto
  <1>1. /\ pc[t] = "adopt" /\ node[t] \in Nodes /\ HasNode(t, node[t])
        /\ (cur[t] = -1 /\ Full) \/ InHand(t)
        /\ rnode[node[t]].entry = -1
    BY DEF SetEntry, Chained, Held, Registering, Linking
  <1>2. PICK m \in Nodes : m = node[t]
    BY <1>1
  <1>3. PICK g : g = cur[t]
    OBVIOUS
  <1>4. /\ rnode'[m].entry = g /\ rnode'[m].key = rnode[m].key
        /\ rnode'[m].stat = rnode[m].stat
        /\ \A n \in Nodes : n # m => rnode'[n] = rnode[n]
        /\ gmem' = gmem
    BY <1>2, <1>3 DEF SetEntry
  <1>5. \A u \in Threads : u # t => Still(u)
    BY DEF SetEntry, Return, DropRegs, Still
  <1>6. pc'[t] = "idle" /\ node'[t] = -1 /\ UNCHANGED host
    BY DEF SetEntry, Return, DropRegs, host
  <1>7. CASE g = -1 /\ Full
    <2>1. SameFields
      BY <1>1, <1>2, <1>4, <1>7 DEF SameFields
    <2> HIDE DEF KeptInv, BaseInv, TypeInv, TypeOK
    <2> QED BY <1>1, <1>5, <1>6, <1>7, <2>1, NothingToLink DEF Recording
  <1>8. CASE InHand(t)
    <2>1. /\ g \in Slots /\ g # -1 /\ ~Empty(gmem[g]) /\ gmem[g].next = -1
          /\ \A n \in Nodes : Existing(n) => g \notin Chain(n)
      BY <1>3, <1>8 DEF InHand, Slots
    <2>2. Chain(m) = {} /\ Chain(m)' = {g}
      BY <1>1, <1>2, <1>4, <2>1, ChainEmpty, ChainAdopts
    <2>3. \A n \in Nodes : Existing(n)' <=> Existing(n)
      BY <1>4 DEF Existing
    <2>4. ASSUME NEW n \in Nodes, Existing(n), n # m PROVE Chain(n)' = Chain(n)
      <3>1. rnode'[n].entry = rnode[n].entry
        BY <1>4, <2>4
      <3> QED BY <1>4, <2>4, <3>1, ChainAgrees, ChainUsed DEF Chained
    <2>5. Joins(g, m)
      BY <1>4, <2>2, <2>3, <2>4 DEF Joins
    <2>6. LinksUsed'
      <3>1. \A n \in Nodes : Existing(n)' =>
              rnode'[n].entry = -1 \/ ~Empty(gmem'[rnode'[n].entry])
        BY <1>4, <2>1, <2>3 DEF Chained, LinksUsed
      <3> QED BY <1>4, <3>1 DEF Chained, LinksUsed
    <2>7. ChainsDisjoint'
      <3>1. \A n \in Nodes : Existing(n)' /\ n # m => Chain(n)' = Chain(n) /\ g \notin Chain(n)'
        BY <2>1, <2>3, <2>4
      <3>2. ASSUME NEW k \in Nodes, NEW n \in Nodes, Existing(k)', Existing(n)', k # n
            PROVE  Chain(k)' \cap Chain(n)' = {}
        BY <2>2, <2>3, <3>1, <3>2 DEF Chained, ChainsDisjoint
      <3>3. ASSUME NEW n \in Nodes, Existing(n)', Chain(n)' # {}
            PROVE  \E f \in Chain(n)' : IsTail(gmem'[f])
        <4>1. CASE n = m
          BY <1>4, <2>1, <2>2, <4>1 DEF IsTail, Empty
        <4>2. CASE n # m
          <5>1. Existing(n) /\ Chain(n)' = Chain(n)
            BY <2>3, <3>1, <3>3, <4>2
          <5>2. PICK f \in Chain(n) : IsTail(gmem[f])
            BY <3>3, <5>1 DEF Chained, ChainsDisjoint
          <5> QED BY <1>4, <5>1, <5>2
        <4> QED BY <4>1, <4>2
      <3> QED BY <3>2, <3>3 DEF ChainsDisjoint
    <2> HIDE DEF KeptInv, BaseInv, TypeInv, TypeOK
    <2> QED BY <1>1, <1>2, <1>3, <1>5, <1>6, <1>8, <2>1, <2>5, <2>6, <2>7, JoinsKept
            DEF Recording
  <1> QED BY <1>1, <1>3, <1>7, <1>8

LEMMA KeptLinkTail ==
  ASSUME KeptInv, BaseInv', NEW t \in Threads, LinkTail(t)
  PROVE  KeptInv'
  <1> USE DEF KeptInv, BaseInv, TypeInv, TypeOK, Goto
  <1>1. /\ pc[t] = "append" /\ node[t] \in Nodes /\ HasNode(t, node[t])
        /\ (cur[t] = -1 /\ Full) \/ InHand(t)
        /\ prv[t] \in Chain(node[t]) /\ gmem[prv[t]].next = -1
    BY DEF LinkTail, Chained, Held, Registering, Linking
  <1>2. PICK m \in Nodes : m = node[t]
    BY <1>1
  <1>3. PICK g : g = cur[t]
    OBVIOUS
  <1>4. PICK l \in Slots : l = prv[t]
    BY <1>1, ChainInSlots
  <1>5. /\ gmem'[l].next = g /\ gmem'[l].ptr = gmem[l].ptr
        /\ gmem'[l].bytes = gmem[l].bytes
        /\ \A f \in Slots : f # l => gmem'[f] = gmem[f]
        /\ rnode' = rnode
    BY <1>3, <1>4 DEF LinkTail
  <1>6. \A u \in Threads : u # t => Still(u)
    BY DEF LinkTail, Return, DropRegs, Still
  <1>7. pc'[t] = "idle" /\ node'[t] = -1 /\ UNCHANGED host
    BY DEF LinkTail, Return, DropRegs, host
  <1>8. CASE g = -1 /\ Full
    <2>1. SameFields
      BY <1>1, <1>4, <1>5, <1>8 DEF SameFields
    <2> HIDE DEF KeptInv, BaseInv, TypeInv, TypeOK
    <2> QED BY <1>1, <1>6, <1>7, <1>8, <2>1, NothingToLink DEF Recording
  <1>9. CASE InHand(t)
    <2>1. /\ g \in Slots /\ g # -1 /\ ~Empty(gmem[g]) /\ gmem[g].next = -1
          /\ \A n \in Nodes : Existing(n) => g \notin Chain(n)
      BY <1>3, <1>9 DEF InHand, Slots
    <2>2. Existing(m) /\ l \in Chain(m) /\ gmem[l].next = -1 /\ l # g
      BY <1>1, <1>2, <1>4, <2>1 DEF HasNode
    <2>3. \A f \in Slots : (Empty(gmem'[f]) <=> Empty(gmem[f])) /\ gmem'[f].ptr = gmem[f].ptr
      BY <1>5 DEF Empty
    <2>4. gmem'[g].next = -1
      BY <1>5, <2>1, <2>2
    <2>5. Chain(m)' = Chain(m) \cup {g}
      <3>1. \A f \in Chain(m) : ~Empty(gmem'[f])
        BY <2>3, ChainInSlots, ChainUsed
      <3>2. \A f \in Chain(m) \ {l} : gmem'[f].next = gmem[f].next
        BY <1>5, ChainInSlots
      <3>3. rnode'[m].entry = rnode[m].entry
        BY <1>5
      <3> QED BY <1>5, <2>1, <2>2, <2>3, <2>4, <3>1, <3>2, <3>3, ChainAppends DEF Chained
    <2>6. \A n \in Nodes : Existing(n)' <=> Existing(n)
      BY <1>5 DEF Existing
    <2>7. ASSUME NEW n \in Nodes, Existing(n), n # m PROVE Chain(n)' = Chain(n)
      <3>1. l \notin Chain(n)
        BY <2>2, <2>7 DEF Chained, ChainsDisjoint
      <3>2. \A f \in Chain(n) : gmem'[f].next = gmem[f].next /\ ~Empty(gmem'[f])
        BY <1>5, <2>3, <3>1, ChainInSlots, ChainUsed
      <3>3. rnode'[n].entry = rnode[n].entry
        BY <1>5
      <3> QED BY <2>7, <3>2, <3>3, ChainAgrees DEF Chained
    <2>8. Joins(g, m)
      <3>1. \A f \in Slots : gmem'[f].bytes = gmem[f].bytes
        BY <1>5
      <3> QED BY <1>5, <2>3, <2>5, <2>6, <2>7, <3>1 DEF Joins
    <2>9. LinksUsed'
      <3>1. \A n \in Nodes : Existing(n)' =>
              rnode'[n].entry = -1 \/ ~Empty(gmem'[rnode'[n].entry])
        BY <1>5, <2>3, <2>6, LinkType DEF Chained, LinksUsed
      <3>2. \A f \in Slots : ~Empty(gmem'[f]) =>
              gmem'[f].next = -1 \/ ~Empty(gmem'[gmem'[f].next])
        BY <1>5, <2>1, <2>3, LinkType DEF Chained, LinksUsed
      <3> QED BY <3>1, <3>2 DEF LinksUsed
    <2>10. ChainsDisjoint'
      <3>1. \A n \in Nodes : Existing(n)' /\ n # m => Chain(n)' = Chain(n) /\ g \notin Chain(n)'
        BY <2>1, <2>6, <2>7
      <3>2. ASSUME NEW k \in Nodes, NEW n \in Nodes, Existing(k)', Existing(n)', k # n
            PROVE  Chain(k)' \cap Chain(n)' = {}
        <4>1. Existing(k) /\ Existing(n) /\ Chain(k) \cap Chain(n) = {}
          BY <2>6, <3>2 DEF Chained, ChainsDisjoint
        <4>2. CASE k = m
          BY <2>5, <3>1, <3>2, <4>1, <4>2
        <4>3. CASE n = m
          BY <2>5, <3>1, <3>2, <4>1, <4>3
        <4>4. CASE k # m /\ n # m
          BY <3>1, <3>2, <4>1, <4>4
        <4> QED BY <4>2, <4>3, <4>4
      <3>3. ASSUME NEW n \in Nodes, Existing(n)', Chain(n)' # {}
            PROVE  \E f \in Chain(n)' : IsTail(gmem'[f])
        <4>1. CASE n = m
          BY <2>1, <2>3, <2>4, <2>5, <4>1 DEF IsTail, Empty
        <4>2. CASE n # m
          <5>1. Existing(n) /\ Chain(n)' = Chain(n)
            BY <2>6, <3>1, <3>3, <4>2
          <5>2. PICK f \in Chain(n) : IsTail(gmem[f])
            BY <3>3, <5>1 DEF Chained, ChainsDisjoint
          <5>3. f # l /\ f \in Slots
            BY <2>2, <4>2, <5>1, ChainInSlots DEF Chained, ChainsDisjoint
          <5> QED BY <1>5, <5>1, <5>2, <5>3
        <4> QED BY <4>1, <4>2
      <3> QED BY <3>2, <3>3 DEF ChainsDisjoint
    <2> HIDE DEF KeptInv, BaseInv, TypeInv, TypeOK
    <2> QED BY <1>1, <1>2, <1>3, <1>6, <1>7, <1>9, <2>1, <2>8, <2>9, <2>10, JoinsKept
            DEF Recording
  <1> QED BY <1>1, <1>3, <1>8, <1>9

(***************************************************************************)
(* Steps of the applications and of the driver                             *)
(***************************************************************************)
(* The segments stay: only the invariants of the processes are at stake.   *)
LEMMA HostKept ==
  ASSUME KeptInv, BaseInv', UNCHANGED shm,
         \A u \in Threads : Held(u)' /\ pc'[u] # "reset",
         OwnVariables', Recorded', AllRecorded'
  PROVE  KeptInv'
  <1>1. rnode' = rnode /\ gmem' = gmem /\ \A n \in Nodes : Chain(n)' = Chain(n)
    BY SameShm DEF shm
  <1>2. LinksUsed' /\ ChainsDisjoint'
    BY <1>1 DEF KeptInv, Chained, LinksUsed, ChainsDisjoint, Existing
  <1> QED BY <1>2 DEF KeptInv, Chained, NeverReregisters

LEMMA KeptStartAlloc ==
  ASSUME KeptInv, BaseInv', NEW t \in Threads, NEW k \in AllocKinds, NEW h \in Handles,
         NEW b \in Sizes, Fresh(Me(t), h), StartAlloc(t, k, h, b)
  PROVE  KeptInv'
  <1> USE DEF KeptInv, BaseInv, TypeInv, TypeOK, Goto
  <1>1. pc[t] = "idle" /\ pc'[t] \in {"check", "used"} /\ node' = node /\ node[t] = -1
    BY DEF StartAlloc, Chained, Held
  <1>2. UNCHANGED shm /\ UNCHANGED host /\ mem' = mem /\ drv' = drv /\ alive' = alive
    BY DEF StartAlloc, shm, host
  <1>3. \A u \in Threads : u # t => Still(u)
    BY DEF StartAlloc, Still
  <1>4. arg'[t].hdl = h /\ arg'[t].bytes = b
    BY DEF StartAlloc
  <1>5. Me(t) \in Procs /\ alive[Me(t)]
    BY <1>1, CallerLives
  <1>6. mem[Me(t)][h] = NULL
    <2>1. mem[Me(t)][h] \in Dptrs \cup {NULL}
      BY <1>5
    <2> QED BY <1>5, <2>1 DEF OwnVariables, Fresh, Live
  <1>7. \A u \in Threads : Held(u)' /\ pc'[u] # "reset"
    <2>1. Held(t)'
      BY <1>1, BeforeNode DEF Asking
    <2>2. ASSUME NEW u \in Threads, u # t PROVE Held(u)' /\ pc'[u] # "reset"
      BY <1>2, <1>3, <2>2, HeldStays DEF Still, Chained, NeverReregisters
    <2> QED BY <1>1, <2>1, <2>2
  <1> HIDE DEF KeptInv, BaseInv, TypeInv, TypeOK, Goto
  <1>8. OwnVariables /\ Recorded /\ AllRecorded /\ NodeInv
    BY DEF KeptInv, BaseInv
  <1>9. \A u \in Threads : InAddGmem(u)' => InAddGmem(u) /\ arg'[u] = arg[u]
    BY <1>1, <1>3 DEF Still, InAddGmem, Recording
  <1>10. OwnVariables'
    <2>1. \A u \in Threads : ~alive'[Me(u)] => pc'[u] = "dead"
      BY <1>2, <1>3, <1>5, <1>8, MeType DEF OwnVariables, Still
    <2>2. \A u \in Threads : pc'[u] \in Asking =>
            /\ arg'[u].hdl \in Handles /\ mem'[Me(u)][arg'[u].hdl] = NULL
            /\ arg'[u].bytes \in Sizes
      BY <1>2, <1>3, <1>4, <1>6, <1>8 DEF OwnVariables, Still
    <2>3. \A u \in Threads : InAddGmem(u)' =>
            /\ arg'[u].hdl \in Handles /\ arg'[u].dptr \in Dptrs
            /\ mem'[Me(u)][arg'[u].hdl] = arg'[u].dptr
            /\ arg'[u].bytes = drv'[Me(u)][arg'[u].dptr]
      BY <1>2, <1>8, <1>9 DEF OwnVariables
    <2> QED BY <1>2, <1>8, <2>1, <2>2, <2>3 DEF OwnVariables, Live
  <1>11. Recorded'
    <2>1. ASSUME NEW n \in Nodes, Existing(n)', alive'[rnode'[n].key]
          PROVE  RecordsOf(n)'
      <3>1. rnode' = rnode /\ gmem' = gmem /\ Chain(n)' = Chain(n)
        BY <1>2, SameShm DEF shm
      <3> QED BY <1>2, <1>8, <1>9, <2>1, <3>1 DEF Recorded, RecordsOf, Existing
    <2> QED BY <2>1 DEF Recorded
  <1>12. AllRecorded'
    <2>1. \A u \in Threads : StaysIn(u)
      BY <1>1, <1>3 DEF StaysIn, Still, InAddGmem, Recording
    <2> QED BY <1>2, <1>8, <2>1, SameShm, AllRecordedStays
  <1> QED BY <1>2, <1>7, <1>10, <1>11, <1>12, HostKept

(* The driver answers with memory that the process does not hold yet, and  *)
(* writes it to the variable of the call.                                  *)
LEMMA KeptDriverAlloc ==
  ASSUME OneThread, KeptInv, BaseInv', NEW t \in Threads, NEW d \in Dptrs, DriverAlloc(t, d)
  PROVE  KeptInv'
  <1> USE DEF KeptInv, BaseInv, TypeInv, TypeOK, Goto, Begin
  <1>0. PICK p \in Procs, h \in Handles : p = Me(t) /\ h = arg[t].hdl
    BY MeType DEF DriverAlloc, OwnVariables, Asking
  <1>1. /\ pc[t] = "driver" /\ pc'[t] = "find" /\ node' = node /\ node[t] = -1
        /\ drv[p][d] = 0 /\ mem[p][h] = NULL /\ arg[t].bytes \in Sizes
        /\ arg[t].kind # "free"
    BY <1>0 DEF DriverAlloc, Chained, Held, OwnVariables, Asking, NoFrees
  <1>2. UNCHANGED shm /\ alive' = alive /\ alive[p]
    BY <1>0, <1>1, CallerLives DEF DriverAlloc, shm
  <1>3. \A u \in Threads : u # t => Still(u)
    BY DEF DriverAlloc, Still
  <1>4. /\ arg'[t].dptr = d /\ arg'[t].hdl = h /\ arg'[t].bytes = arg[t].bytes
        /\ arg'[t].kind = arg[t].kind
    BY <1>0, <1>1 DEF DriverAlloc
  <1>5. /\ drv'[p][d] = arg[t].bytes /\ arg[t].bytes # 0
        /\ \A q \in Procs, e \in Dptrs : q # p \/ e # d => drv'[q][e] = drv[q][e]
    BY <1>0, <1>1, DataAssumption DEF DriverAlloc
  <1>6. /\ mem'[p][h] = d
        /\ \A q \in Procs, i \in Handles : q # p \/ i # h => mem'[q][i] = mem[q][i]
    BY <1>0, <1>1 DEF DriverAlloc
  <1>7. \A u \in Threads : Held(u)' /\ pc'[u] # "reset"
    <2>1. Held(t)'
      BY <1>1, BeforeNode
    <2>2. ASSUME NEW u \in Threads, u # t PROVE Held(u)' /\ pc'[u] # "reset"
      BY <1>2, <1>3, <2>2, HeldStays DEF Still, Chained, NeverReregisters
    <2> QED BY <1>1, <2>1, <2>2
  <1>8. /\ OwnVariables /\ Recorded /\ AllRecorded /\ NodeInv /\ AddsAlone'
        /\ \A q \in Procs, i \in Handles : mem[q][i] \in Dptrs \cup {NULL}
        /\ d # NULL
    BY DataAssumption
  <1> HIDE DEF KeptInv, BaseInv, TypeInv, TypeOK, Goto, Begin
  <1>9. InAddGmem(t)' /\ \A u \in Threads : InAddGmem(u)' => u = t
    BY <1>1, <1>4, <1>8 DEF InAddGmem, Recording, AddsAlone
  <1>10. \A i \in Handles : mem[p][i] # d
    BY <1>1, <1>8 DEF OwnVariables
  <1>11. OwnVariables'
    <2>1. ASSUME NEW q \in Procs, ~alive'[q]
          PROVE  /\ \A u \in Threads : Me(u) = q => pc'[u] = "dead"
                 /\ \A i \in Handles : mem'[q][i] = NULL
      <3>1. q # p /\ ~alive[q]
        BY <1>2, <2>1
      <3> QED BY <1>0, <1>3, <1>6, <1>8, <3>1 DEF OwnVariables, Still
    <2>2. ASSUME NEW q \in Procs, NEW i \in Handles, mem'[q][i] # NULL
          PROVE  drv'[q][mem'[q][i]] # 0
      <3>1. CASE q = p /\ i = h
        BY <1>5, <1>6, <3>1
      <3>2. CASE q # p \/ i # h
        <4>1. mem'[q][i] = mem[q][i] /\ mem[q][i] \in Dptrs /\ drv[q][mem[q][i]] # 0
          BY <1>6, <1>8, <2>2, <3>2 DEF OwnVariables
        <4>2. q # p \/ mem[q][i] # d
          BY <1>10
        <4> QED BY <1>5, <4>1, <4>2
      <3> QED BY <3>1, <3>2
    <2>3. \A q \in Procs, i, j \in Handles :
            mem'[q][i] = mem'[q][j] /\ mem'[q][i] # NULL => i = j
      BY <1>6, <1>8, <1>10 DEF OwnVariables
    <2>4. ASSUME NEW q \in Procs, NEW e \in Live(q)'
          PROVE  \E i \in Handles : mem'[q][i] = e
      <3>1. CASE q = p /\ e = d
        BY <1>6, <3>1
      <3>2. CASE q # p \/ e # d
        <4>1. e \in Live(q)
          BY <1>5, <3>2 DEF Live
        <4>2. PICK i \in Handles : mem[q][i] = e
          BY <1>8, <4>1 DEF OwnVariables
        <4>3. e # NULL
          BY <4>1, DataAssumption DEF Live
        <4>4. q # p \/ i # h
          BY <1>1, <4>2, <4>3
        <4> QED BY <1>6, <4>2, <4>4
      <3> QED BY <3>1, <3>2
    <2>5. ASSUME NEW u \in Threads, pc'[u] \in Asking
          PROVE  /\ arg'[u].hdl \in Handles /\ mem'[Me(u)][arg'[u].hdl] = NULL
                 /\ arg'[u].bytes \in Sizes
      <3>1. u # t
        BY <1>1, <2>5 DEF Asking
      <3>2. Me(u) # p /\ Me(u) \in Procs
        BY <1>0, <3>1, MeType DEF OneThread, Me
      <3> QED BY <1>3, <1>6, <1>8, <2>5, <3>1, <3>2 DEF OwnVariables, Still
    <2>6. ASSUME NEW u \in Threads, InAddGmem(u)'
          PROVE  /\ arg'[u].hdl \in Handles /\ arg'[u].dptr \in Dptrs
                 /\ mem'[Me(u)][arg'[u].hdl] = arg'[u].dptr
                 /\ arg'[u].bytes = drv'[Me(u)][arg'[u].dptr]
      BY <1>0, <1>4, <1>5, <1>6, <1>9, <2>6
    <2> QED BY <2>1, <2>2, <2>3, <2>4, <2>5, <2>6 DEF OwnVariables
  <1>12. Recorded'
    <2>1. ASSUME NEW n \in Nodes, Existing(n)', alive'[rnode'[n].key]
          PROVE  RecordsOf(n)'
      <3>1. rnode' = rnode /\ gmem' = gmem /\ Chain(n)' = Chain(n) /\ Existing(n)
        BY <1>2, <2>1, SameShm DEF shm, Existing
      <3>2. RecordsOf(n) /\ rnode[n].key \in Procs
        BY <1>2, <1>8, <2>1, <3>1 DEF Recorded, NodeInv
      <3>3. PICK q \in Procs : q = rnode[n].key
        BY <3>2
      <3>4. \A g \in Chain(n) : gmem[g].ptr \in Handles
        BY ChainInSlots, ChainUsed DEF KeptInv, BaseInv, TypeInv, TypeOK, GMems, Empty
      <3>5. \A g \in Chain(n) : mem'[q][gmem[g].ptr] = mem[q][gmem[g].ptr]
        BY <1>1, <1>6, <3>2, <3>3, <3>4 DEF RecordsOf
      <3>6. \A g \in Chain(n) : mem[q][gmem[g].ptr] \in Dptrs
        BY <1>8, <3>2, <3>3, <3>4 DEF RecordsOf
      <3>7. \A g \in Chain(n) :
              drv'[q][mem[q][gmem[g].ptr]] = drv[q][mem[q][gmem[g].ptr]]
        BY <1>5, <1>10, <3>4, <3>6
      <3>8. \A g \in Chain(n)' : /\ mem'[q][gmem'[g].ptr] # NULL
                                 /\ gmem'[g].bytes = drv'[q][mem'[q][gmem'[g].ptr]]
        BY <3>1, <3>2, <3>3, <3>5, <3>7 DEF RecordsOf
      <3>9. \A u \in Threads : InAddGmem(u)' /\ Me(u) = q =>
              \A g \in Chain(n)' : gmem'[g].ptr # arg'[u].hdl
        BY <1>0, <1>1, <1>4, <1>9, <3>1, <3>2, <3>3 DEF RecordsOf
      <3> QED BY <3>1, <3>2, <3>3, <3>8, <3>9 DEF RecordsOf
    <2> QED BY <2>1 DEF Recorded
  <1>13. AllRecorded'
    <2>0. rnode' = rnode /\ gmem' = gmem /\ Full' = Full /\ \A n \in Nodes : Chain(n)' = Chain(n)
      BY <1>2, SameShm DEF shm
    <2>1. ASSUME ~Full, NEW q \in Procs, NEW i \in Handles, mem'[q][i] # NULL
          PROVE  \/ \E u \in Threads : Me(u) = q /\ InAddGmem(u)' /\ arg'[u].hdl = i
                 \/ \E n \in NodesOf(q)' : \E g \in Chain(n)' : gmem'[g].ptr = i
      <3>1. CASE q = p /\ i = h
        BY <1>0, <1>4, <1>9, <3>1
      <3>2. CASE q # p \/ i # h
        <4>1. mem[q][i] # NULL
          BY <1>6, <2>1, <3>2
        <4>2. CASE \E u \in Threads : Me(u) = q /\ InAddGmem(u) /\ arg[u].hdl = i
          <5>1. PICK u \in Threads : Me(u) = q /\ InAddGmem(u) /\ arg[u].hdl = i
            BY <4>2
          <5>2. u # t
            BY <1>1, <5>1 DEF InAddGmem, Recording
          <5> QED BY <1>3, <5>1, <5>2 DEF Still, InAddGmem
        <4>3. CASE \E n \in NodesOf(q) : \E g \in Chain(n) : gmem[g].ptr = i
          BY <2>0, <4>3 DEF NodesOf, Existing
        <4> QED BY <1>8, <2>1, <4>1, <4>2, <4>3 DEF AllRecorded
      <3> QED BY <3>1, <3>2
    <2> QED BY <2>0, <2>1 DEF AllRecorded
  <1> QED BY <1>2, <1>7, <1>11, <1>12, <1>13, HostKept

(* The memory of a process that ends is gone; its records stay.            *)
LEMMA KeptDie ==
  ASSUME KeptInv, BaseInv', NEW p \in Procs, Die(p)
  PROVE  KeptInv'
  <1> USE DEF KeptInv, BaseInv, TypeInv, TypeOK
  <1>1. UNCHANGED shm /\ rnode' = rnode /\ gmem' = gmem
    BY DEF Die, shm
  <1>2. \A u \in Threads : Me(u) = p => pc'[u] = "dead" /\ node'[u] = -1
    BY DEF Die, DropRegs
  <1>3. \A u \in Threads : Me(u) # p => Still(u)
    BY DEF Die, DropRegs, Still
  <1>4. \A h \in Handles : mem'[p][h] = NULL
    BY DEF Die
  <1>5. \A d \in Dptrs : drv'[p][d] = 0
    BY DEF Die
  <1>6. \A q \in Procs : q # p =>
          mem'[q] = mem[q] /\ drv'[q] = drv[q] /\ alive'[q] = alive[q]
    BY DEF Die
  <1>7. ~alive'[p]
    BY DEF Die
  <1>8. \A u \in Threads : Held(u)' /\ pc'[u] # "reset"
    <2>1. ASSUME NEW u \in Threads, Me(u) = p PROVE Held(u)' /\ pc'[u] # "reset"
      BY <1>2, <2>1, BeforeNode
    <2>2. ASSUME NEW u \in Threads, Me(u) # p PROVE Held(u)' /\ pc'[u] # "reset"
      BY <1>1, <1>3, <2>2, HeldStays DEF Still, Chained, NeverReregisters
    <2> QED BY <2>1, <2>2
  <1>9. OwnVariables /\ Recorded /\ AllRecorded /\ NodeInv
    OBVIOUS
  <1> HIDE DEF KeptInv, BaseInv, TypeInv, TypeOK
  <1>10. \A u \in Threads : pc'[u] # "dead" => Me(u) \in Procs /\ Me(u) # p /\ Still(u)
    BY <1>2, <1>3, MeType
  <1>11. OwnVariables'
    <2>1. ASSUME NEW q \in Procs, ~alive'[q]
          PROVE  /\ \A u \in Threads : Me(u) = q => pc'[u] = "dead"
                 /\ \A i \in Handles : mem'[q][i] = NULL
      <3>1. CASE q = p
        BY <1>2, <1>4, <3>1
      <3>2. CASE q # p
        BY <1>3, <1>6, <1>9, <2>1, <3>2 DEF OwnVariables, Still
      <3> QED BY <3>1, <3>2
    <2>2. \A q \in Procs, i \in Handles : mem'[q][i] # NULL => drv'[q][mem'[q][i]] # 0
      BY <1>4, <1>6, <1>9 DEF OwnVariables
    <2>3. \A q \in Procs, i, j \in Handles :
            mem'[q][i] = mem'[q][j] /\ mem'[q][i] # NULL => i = j
      BY <1>4, <1>6, <1>9 DEF OwnVariables
    <2>4. ASSUME NEW q \in Procs, NEW e \in Live(q)'
          PROVE  \E i \in Handles : mem'[q][i] = e
      <3>1. q # p
        BY <1>5, <2>4 DEF Live
      <3>2. e \in Live(q) /\ mem'[q] = mem[q]
        BY <1>6, <2>4, <3>1 DEF Live
      <3> QED BY <1>9, <3>2 DEF OwnVariables
    <2>5. ASSUME NEW u \in Threads, pc'[u] \in Asking
          PROVE  /\ arg'[u].hdl \in Handles /\ mem'[Me(u)][arg'[u].hdl] = NULL
                 /\ arg'[u].bytes \in Sizes
      BY <1>6, <1>9, <1>10, <2>5 DEF OwnVariables, Still, Asking
    <2>6. ASSUME NEW u \in Threads, InAddGmem(u)'
          PROVE  /\ arg'[u].hdl \in Handles /\ arg'[u].dptr \in Dptrs
                 /\ mem'[Me(u)][arg'[u].hdl] = arg'[u].dptr
                 /\ arg'[u].bytes = drv'[Me(u)][arg'[u].dptr]
      <3>1. pc'[u] # "dead"
        BY <2>6 DEF InAddGmem, Recording
      <3>2. InAddGmem(u) /\ Me(u) \in Procs /\ Me(u) # p /\ arg'[u] = arg[u]
        BY <1>10, <2>6, <3>1 DEF InAddGmem, Still
      <3> QED BY <1>6, <1>9, <3>2 DEF OwnVariables
    <2> QED BY <2>1, <2>2, <2>3, <2>4, <2>5, <2>6 DEF OwnVariables
  <1>12. Recorded'
    <2>1. ASSUME NEW n \in Nodes, Existing(n)', alive'[rnode'[n].key]
          PROVE  RecordsOf(n)'
      <3>1. Chain(n)' = Chain(n) /\ Existing(n) /\ rnode[n].key \in Procs \ {p}
        BY <1>1, <1>7, <1>9, <2>1, SameShm DEF Existing, NodeInv
      <3>2. RecordsOf(n)
        BY <1>1, <1>6, <1>9, <2>1, <3>1 DEF Recorded
      <3>3. PICK q \in Procs \ {p} : q = rnode[n].key
        BY <3>1
      <3>4. \A u \in Threads : InAddGmem(u)' => InAddGmem(u) /\ arg'[u] = arg[u]
        BY <1>10 DEF InAddGmem, Recording, Still
      <3>5. mem'[q] = mem[q] /\ drv'[q] = drv[q]
        BY <1>6, <3>3
      <3> QED BY <1>1, <3>1, <3>2, <3>3, <3>4, <3>5 DEF RecordsOf
    <2> QED BY <2>1 DEF Recorded
  <1>13. AllRecorded'
    <2>0. Full' = Full /\ \A n \in Nodes : Chain(n)' = Chain(n)
      BY <1>1, SameShm
    <2>1. ASSUME ~Full, NEW q \in Procs, NEW i \in Handles, mem'[q][i] # NULL
          PROVE  \/ \E u \in Threads : Me(u) = q /\ InAddGmem(u)' /\ arg'[u].hdl = i
                 \/ \E n \in NodesOf(q)' : \E g \in Chain(n)' : gmem'[g].ptr = i
      <3>1. q # p /\ mem[q][i] # NULL
        BY <1>4, <1>6, <2>1
      <3>2. CASE \E u \in Threads : Me(u) = q /\ InAddGmem(u) /\ arg[u].hdl = i
        BY <1>3, <3>1, <3>2 DEF Still, InAddGmem
      <3>3. CASE \E n \in NodesOf(q) : \E g \in Chain(n) : gmem[g].ptr = i
        BY <1>1, <2>0, <3>3 DEF NodesOf, Existing
      <3> QED BY <1>9, <2>1, <3>1, <3>2, <3>3 DEF AllRecorded
    <2> QED BY <2>0, <2>1 DEF AllRecorded
  <1> QED BY <1>1, <1>8, <1>11, <1>12, <1>13, HostKept

(***************************************************************************)
(* The invariant holds                                                     *)
(***************************************************************************)
LEMMA KeptInit == Init => KeptInv
  <1> SUFFICES ASSUME Init PROVE KeptInv
    OBVIOUS
  <1>1. BaseInv
    BY TypeInit, NodeInit DEF Init, NoCalls, BaseInv, NoFrees, AddsAlone, InAddGmem, Recording
  <1>2. \A n \in Nodes : ~Existing(n)
    BY DEF Init, InitRNode, Existing
  <1>3. \A t \in Threads : pc[t] = "idle" /\ node[t] = -1
    BY DEF Init, NoCalls
  <1>4. \A g \in Slots : Empty(gmem[g])
    BY DEF Init, InitGMem, Empty
  <1>5. Chained
    <2>1. LinksUsed /\ ChainsDisjoint
      BY <1>2, <1>4 DEF LinksUsed, ChainsDisjoint
    <2>2. \A t \in Threads : Held(t)
      BY <1>3 DEF Held, Registering, Linking
    <2> QED BY <2>1, <2>2 DEF Chained
  <1>6. /\ \A p \in Procs : alive[p]
        /\ \A p \in Procs, h \in Handles : mem[p][h] = NULL
        /\ \A p \in Procs, d \in Dptrs : drv[p][d] = 0
    BY DEF Init, NoCalls
  <1>7. OwnVariables
    BY <1>3, <1>6 DEF OwnVariables, Live, Asking, InAddGmem, Recording
  <1>8. Recorded /\ AllRecorded /\ NeverReregisters
    BY <1>2, <1>3, <1>6 DEF Recorded, AllRecorded, NeverReregisters
  <1> QED BY <1>1, <1>5, <1>7, <1>8 DEF KeptInv

LEMMA KeptCode ==
  ASSUME OneThread, KeptInv, BaseInv', NEW t \in Threads, InCode(t)
  PROVE  KeptInv'
  <1>1. CASE UsedNode(t) \/ UsedSum(t) \/ CheckLimit(t)
    BY <1>1, ReadsUsed, ReadsKept
  <1>2. CASE FindRnode(t) \/ InsertProbe(t) \/ ReadEntry(t)
    BY <1>2, ReadsFindRnode, ReadsInsertProbe, ReadsEntry, ReadsKept
  <1>3. CASE FindGmem(t) \/ PushProbe(t) \/ LinkEntry(t) \/ LastRec(t)
    BY <1>3, ReadsFindGmem, ReadsPushProbe, ReadsLinkEntry, ReadsLastRec, ReadsKept
  <1>4. CASE InsertAssign(t) \/ PushClaim(t) \/ SetEntry(t) \/ LinkTail(t)
    BY <1>4, KeptInsertAssign, KeptPushClaim, KeptSetEntry, KeptLinkTail
  <1>5. CASE (\E d \in Dptrs : DriverAlloc(t, d)) \/ DriverAllocFails(t)
    BY <1>5, KeptDriverAlloc, ReadsDriverFails, ReadsKept
  <1>6. ~ResetRecord(t)
    BY DEF ResetRecord, KeptInv, NeverReregisters
  <1>7. ~(RemoveVisit(t) \/ RemoveBypass(t) \/ RemoveDelete(t) \/ DriverFree(t) \/ DriverFreeFails(t))
    BY DEF KeptInv, BaseInv, NoFrees, Freeing, RemoveVisit, RemoveBypass, RemoveDelete,
           DriverFree, DriverFreeFails
  <1>8. CASE Segfault(t)
    BY <1>8, MeType, KeptDie DEF Segfault
  <1> QED BY <1>1, <1>2, <1>3, <1>4, <1>5, <1>6, <1>7, <1>8 DEF InCode

LEMMA KeptStep ==
  ASSUME OneThread
  PROVE  KeptInv /\ [AloneNext]_vars => KeptInv'
  <1> SUFFICES ASSUME KeptInv, [AloneNext]_vars PROVE KeptInv'
    OBVIOUS
  <1>1. CASE UNCHANGED vars
    <2>1. /\ rnode' = rnode /\ gmem' = gmem /\ alive' = alive /\ mem' = mem /\ drv' = drv
          /\ pc' = pc /\ cnt' = cnt /\ cur' = cur /\ prv' = prv /\ acc' = acc
          /\ node' = node /\ arg' = arg
      BY <1>1 DEF vars, shm, host, regs
    <2>2. UNCHANGED shm /\ UNCHANGED host
      BY <2>1 DEF shm, host
    <2>3. BaseInv'
      <3>1. TypeInv' /\ NodeInv'
        BY <1>1, TypeStep, NodeStep DEF KeptInv, BaseInv
      <3>2. NoFrees' /\ AddsAlone'
        BY <2>1 DEF KeptInv, BaseInv, NoFrees, AddsAlone, InAddGmem
      <3> QED BY <3>1, <3>2 DEF BaseInv
    <2>4. \A u \in Threads : Held(u)' /\ pc'[u] # "reset" /\ SameCall(u) /\ StaysIn(u)
      <3>1. \A u \in Threads : Still(u) /\ SameCall(u) /\ StaysIn(u)
        BY <2>1 DEF Still, SameCall, StaysIn, InAddGmem
      <3> QED BY <2>1, <2>2, <3>1, HeldStays DEF KeptInv, Chained, NeverReregisters
    <2>5. OwnVariables' /\ Recorded' /\ AllRecorded'
      BY <2>2, <2>4, SameShm, OwnStays, RecordedStays, AllRecordedStays DEF KeptInv, BaseInv
    <2> QED BY <2>2, <2>3, <2>4, <2>5, HostKept
  <1>2. CASE AloneNext
    <2>1. BaseInv'
      BY <1>2, KeepIsNext, TypeStep, NodeStep, NoFreesStep DEF AloneNext, KeptInv, BaseInv
    <2>2. ASSUME NEW t \in Threads, InCode(t) PROVE KeptInv'
      BY <2>1, <2>2, KeptCode
    <2>3. ASSUME NEW t \in Threads, NEW k \in AllocKinds, NEW h \in Handles, NEW b \in Sizes,
                 Fresh(Me(t), h), StartAlloc(t, k, h, b)
          PROVE  KeptInv'
      BY <2>1, <2>3, KeptStartAlloc
    <2>4. ASSUME NEW p \in Procs, Die(p) PROVE KeptInv'
      BY <2>1, <2>4, KeptDie
    <2> QED BY <1>2, <2>2, <2>3, <2>4 DEF AloneNext, KeepNext, Keep
  <1> QED BY <1>1, <1>2

(***************************************************************************)
(* The workloads in which the calls do not meet inside add_gmem            *)
(***************************************************************************)
LEMMA HoldIsAlone == HoldNext => AloneNext
  <1> SUFFICES ASSUME KeepNext, Serial' PROVE AddsAlone'
    BY DEF HoldNext, AloneNext
  <1>1. \A t \in Threads : InAddGmem(t)' => t \in Active'
    BY DEF InAddGmem, Active, Recording
  <1> QED BY <1>1 DEF AddsAlone, Serial

LEMMA ApartIsAlone ==
  ASSUME IsFiniteSet(Threads)
  PROVE  ApartNext => AloneNext
  <1> SUFFICES ASSUME KeepNext, AtMost(1, {t \in Threads : InAddGmem(t)})' PROVE AddsAlone'
    BY DEF ApartNext, AloneNext
  <1> DEFINE A == {t \in Threads : InAddGmem(t)'}
  <1>1. IsFiniteSet(A)
    BY FS_Subset
  <1>2. Cardinality(A) \in Nat /\ Cardinality(A) <= 1
    BY <1>1, FS_CardinalityType DEF AtMost
  <1>3. ASSUME NEW t \in A, NEW u \in A PROVE t = u
    BY <1>1, <1>2, FS_EmptySet, FS_Singleton
  <1> QED BY <1>3 DEF AddsAlone

(* What the invariant says of a process between two calls: OwnVariables    *)
(* gives an allocation its variable, AllRecorded gives that its record.    *)
LEMMA KeptLedger == KeptInv => LedgerComplete
  <1> SUFFICES ASSUME KeptInv, ~Full, NEW p \in Procs, alive[p], Quiet(p), NEW d \in Live(p)
               PROVE  \E n \in NodesOf(p) :
                        \E g \in Chain(n) :
                          /\ mem[p][gmem[g].ptr] = d /\ gmem[g].bytes = drv[p][d]
                          /\ \A f \in Chain(n) : mem[p][gmem[f].ptr] = d => f = g
    BY DEF LedgerComplete, Full
  <1>1. OwnVariables /\ Recorded /\ AllRecorded /\ TypeInv
    BY DEF KeptInv, BaseInv
  <1>2. d # NULL
    BY DataAssumption DEF Live
  <1>3. PICK h \in Handles : mem[p][h] = d
    BY <1>1 DEF OwnVariables
  <1>4. \A t \in Threads : Me(t) = p => ~InAddGmem(t)
    BY DEF Quiet, InAddGmem, Recording
  <1>5. PICK n \in NodesOf(p) : \E g \in Chain(n) : gmem[g].ptr = h
    BY <1>1, <1>2, <1>3, <1>4 DEF AllRecorded
  <1>6. PICK g \in Chain(n) : gmem[g].ptr = h
    BY <1>5
  <1>7. n \in Nodes /\ Existing(n) /\ rnode[n].key = p
    BY DEF NodesOf
  <1>8. RecordsOf(n)
    BY <1>1, <1>7 DEF Recorded
  <1>9. gmem[g].bytes = drv[p][d]
    BY <1>3, <1>6, <1>7, <1>8 DEF RecordsOf
  <1>10. ASSUME NEW f \in Chain(n), mem[p][gmem[f].ptr] = d PROVE f = g
    <2>1. gmem[f].ptr \in Handles
      BY <1>1, <1>7, ChainInSlots, ChainUsed DEF TypeInv, TypeOK, GMems, Empty
    <2>2. gmem[f].ptr = h
      BY <1>1, <1>2, <1>3, <1>10, <2>1 DEF OwnVariables
    <2> QED BY <1>6, <1>8, <2>2 DEF RecordsOf
  <1> QED BY <1>3, <1>6, <1>9, <1>10

(***************************************************************************)
(* Records that no chain reaches                                           *)
(***************************************************************************)
InFlight == {t \in Threads : pc[t] \in Linking /\ cur[t] # -1}
Dead     == {p \in Procs : ~alive[p]}

(* Neither on a chain nor in the hands of a thread that will link it.      *)
Lost ==
  {g \in Slots : /\ ~Empty(gmem[g])
                 /\ \A n \in Nodes : Existing(n) => g \notin Chain(n)
                 /\ \A t \in InFlight : cur[t] # g}

LeakInv == KeptInv /\ Cardinality(Lost) <= Cardinality(Dead)

(* ChainStart and ChainNext of the state after a step.                     *)
LEMMA ChainStartAfter ==
  ASSUME TypeInv', LinksUsed', NEW n \in Nodes, Existing(n)'
  PROVE  rnode'[n].entry \in Chain(n)' \cup {-1}
  <1>1. rnode'[n].entry \in -1..(NG - 1)
    BY DEF TypeInv, TypeOK, RNodes
  <1>2. rnode'[n].entry = -1 \/ (rnode'[n].entry \in Slots /\ ~Empty(gmem'[rnode'[n].entry]))
    BY <1>1, TableAssumption DEF LinksUsed, Slots
  <1>3. -1 \notin Slots
    BY DEF Slots
  <1> QED BY <1>2, <1>3 DEF Chain

LEMMA ChainNextAfter ==
  ASSUME TypeInv', LinksUsed', NEW n \in Nodes, NEW g \in Chain(n)'
  PROVE  gmem'[g].next \in Chain(n)' \cup {-1}
  <1>1. g \in Slots /\ ~Empty(gmem'[g])
    BY DEF Chain
  <1>2. gmem'[g].next \in -1..(NG - 1)
    BY <1>1 DEF TypeInv, TypeOK, GMems
  <1>3. CASE gmem'[g].next # -1
    <2>1. gmem'[g].next \in Slots /\ ~Empty(gmem'[gmem'[g].next])
      BY <1>1, <1>2, <1>3, TableAssumption DEF LinksUsed, Slots
    <2>2. ASSUME NEW S \in SUBSET Slots, rnode'[n].entry \in S \cup {-1},
                 \A f \in S : gmem'[f].next \in S \cup {-1}
          PROVE  gmem'[g].next \in S
      <3>1. g \in S
        BY <2>2, ChainLeastAfter
      <3> QED BY <1>3, <2>2, <3>1
    <2> QED BY <2>1, <2>2 DEF Chain, Closed
  <1> QED BY <1>3

(* A chain grows where it ended: entries and links are set once.           *)
LEMMA ChainGrows ==
  ASSUME TypeInv, LinksUsed, TypeInv', LinksUsed', NEW n \in Nodes,
         Existing(n), Existing(n)',
         rnode[n].entry = -1 \/ rnode'[n].entry = rnode[n].entry,
         \A g \in Slots : ~Empty(gmem[g]) =>
           gmem[g].next = -1 \/ gmem'[g].next = gmem[g].next
  PROVE  Chain(n) \subseteq Chain(n)'
  <1>1. PICK C : C = Chain(n)'
    OBVIOUS
  <1>2. C \in SUBSET Slots /\ rnode'[n].entry \in C \cup {-1}
    BY <1>1, ChainStartAfter DEF Chain
  <1>3. \A g \in C : gmem'[g].next \in C \cup {-1}
    BY <1>1, ChainNextAfter
  <1> DEFINE S == {g \in C : ~Empty(gmem[g])}
  <1>4. S \in SUBSET Slots
    BY <1>2
  <1>5. rnode[n].entry \in S \cup {-1}
    BY <1>2 DEF LinksUsed
  <1>6. \A g \in S : gmem[g].next \in S \cup {-1}
    BY <1>2, <1>3 DEF LinksUsed
  <1>7. Chain(n) \subseteq S
    BY <1>4, <1>5, <1>6, ChainLeast DEF Closed
  <1> QED BY <1>1, <1>7

LEMMA LostStays ==
  ASSUME KeptInv, KeptInv',
         \A n \in Nodes : Existing(n) =>
           Existing(n)' /\ (rnode[n].entry = -1 \/ rnode'[n].entry = rnode[n].entry),
         \A g \in Slots : ~Empty(gmem[g]) =>
           gmem[g].next = -1 \/ gmem'[g].next = gmem[g].next,
         \A g \in Slots : ~Empty(gmem'[g]) =>
           ~Empty(gmem[g]) \/ \E t \in InFlight' : cur'[t] = g,
         \A t \in InFlight :
           \/ t \in InFlight' /\ cur'[t] = cur[t]
           \/ \E n \in Nodes : Existing(n)' /\ cur[t] \in Chain(n)'
  PROVE  Lost' \subseteq Lost
  <1>1. TypeInv /\ LinksUsed /\ TypeInv' /\ LinksUsed'
    BY DEF KeptInv, BaseInv, Chained
  <1>2. \A n \in Nodes : Existing(n) => Existing(n)' /\ Chain(n) \subseteq Chain(n)'
    BY <1>1, ChainGrows
  <1>3. ASSUME NEW g \in Lost' PROVE g \in Lost
    <2>1. /\ g \in Slots /\ ~Empty(gmem'[g])
          /\ \A n \in Nodes : Existing(n)' => g \notin Chain(n)'
          /\ \A t \in InFlight' : cur'[t] # g
      BY DEF Lost
    <2>2. ~Empty(gmem[g])
      BY <2>1
    <2>3. \A n \in Nodes : Existing(n) => g \notin Chain(n)
      BY <1>2, <2>1
    <2>4. \A t \in InFlight : cur[t] # g
      BY <2>1
    <2> QED BY <2>1, <2>2, <2>3, <2>4 DEF Lost
  <1> QED BY <1>3

LEMMA LostReads ==
  ASSUME KeptInv, KeptInv', NEW t \in Threads, UNCHANGED shm,
         \A u \in Threads : u # t => Still(u),
         t \in InFlight => t \in InFlight' /\ cur'[t] = cur[t]
  PROVE  Lost' \subseteq Lost
  <1>1. rnode' = rnode /\ gmem' = gmem
    BY DEF shm
  <1>2. \A u \in InFlight : u \in InFlight' /\ cur'[u] = cur[u]
    BY DEF InFlight, Still
  <1>3. \A n \in Nodes : Existing(n) => Existing(n)'
    BY <1>1 DEF Existing
  <1>4. \A g \in Slots : ~Empty(gmem'[g]) => ~Empty(gmem[g])
    BY <1>1
  <1> QED BY <1>1, <1>2, <1>3, <1>4, LostStays

LEMMA LostInsertAssign ==
  ASSUME KeptInv, KeptInv', NEW t \in Threads, InsertAssign(t)
  PROVE  Lost' \subseteq Lost
  <1> USE DEF KeptInv, BaseInv, TypeInv, TypeOK, Goto, Begin
  <1>0. PICK s : s = Hash(Me(t), cnt[t])
    OBVIOUS
  <1>1. /\ pc[t] = "assign" /\ s \in Nodes /\ ~Existing(s)
    BY <1>0, HashInTable, MeType DEF InsertAssign, Chained, Held
  <1>2. gmem' = gmem /\ \A n \in Nodes : n # s => rnode'[n] = rnode[n]
    BY <1>0, <1>1 DEF InsertAssign
  <1>3. \A u \in InFlight : u \in InFlight' /\ cur'[u] = cur[u]
    BY <1>1 DEF InsertAssign, InFlight, Linking
  <1>4. \A n \in Nodes : Existing(n) => Existing(n)' /\ rnode'[n].entry = rnode[n].entry
    BY <1>1, <1>2 DEF Existing
  <1> HIDE DEF KeptInv, BaseInv, TypeInv, TypeOK
  <1> QED BY <1>2, <1>3, <1>4, LostStays

LEMMA LostPushClaim ==
  ASSUME KeptInv, KeptInv', NEW t \in Threads, PushClaim(t)
  PROVE  Lost' \subseteq Lost
  <1> USE DEF KeptInv, BaseInv, TypeInv, TypeOK, Goto, Begin
  <1>0. PICK s : s = cnt[t]
    OBVIOUS
  <1>1. pc[t] = "claim" /\ s \in Slots /\ Empty(gmem[s]) /\ s # -1
    BY <1>0 DEF PushClaim, Chained, Held, Indices, Slots
  <1>2. rnode' = rnode /\ \A g \in Slots : g # s => gmem'[g] = gmem[g]
    BY <1>0, <1>1 DEF PushClaim
  <1>3. t \in InFlight' /\ cur'[t] = s
    BY <1>0, <1>1 DEF PushClaim, InFlight, Linking
  <1>4. \A u \in InFlight : u \in InFlight' /\ cur'[u] = cur[u]
    BY <1>1 DEF PushClaim, InFlight, Linking
  <1>5. \A g \in Slots : ~Empty(gmem'[g]) => ~Empty(gmem[g]) \/ \E u \in InFlight' : cur'[u] = g
    BY <1>2, <1>3
  <1>6. \A g \in Slots : ~Empty(gmem[g]) => gmem'[g].next = gmem[g].next
    BY <1>1, <1>2
  <1>7. \A n \in Nodes : Existing(n) => Existing(n)' /\ rnode'[n].entry = rnode[n].entry
    BY <1>2 DEF Existing
  <1> HIDE DEF KeptInv, BaseInv, TypeInv, TypeOK
  <1> QED BY <1>4, <1>5, <1>6, <1>7, LostStays

LEMMA LostSetEntry ==
  ASSUME KeptInv, KeptInv', NEW t \in Threads, SetEntry(t)
  PROVE  Lost' \subseteq Lost
  <1> USE DEF KeptInv, BaseInv, TypeInv, TypeOK, Goto
  <1>1. PICK m \in Nodes : m = node[t] /\ Existing(m) /\ rnode[m].entry = -1
    BY DEF SetEntry, Chained, Held, Registering, HasNode
  <1>2. /\ gmem' = gmem /\ rnode'[m].entry = cur[t] /\ rnode'[m].stat = rnode[m].stat
        /\ \A n \in Nodes : n # m => rnode'[n] = rnode[n]
    BY <1>1 DEF SetEntry
  <1>3. \A u \in Threads : u # t => Still(u)
    BY DEF SetEntry, Return, DropRegs, Still
  <1>4. \A n \in Nodes : Existing(n) =>
          Existing(n)' /\ (rnode[n].entry = -1 \/ rnode'[n].entry = rnode[n].entry)
    BY <1>1, <1>2 DEF Existing
  <1>5. cur[t] # -1 => cur[t] \in Chain(m)'
    <2>1. rnode'[m].entry \in Chain(m)' \cup {-1}
      BY <1>1, <1>4, ChainStartAfter DEF Chained
    <2> QED BY <1>2, <2>1
  <1>6. \A u \in InFlight :
           \/ u \in InFlight' /\ cur'[u] = cur[u]
           \/ \E n \in Nodes : Existing(n)' /\ cur[u] \in Chain(n)'
    BY <1>1, <1>3, <1>4, <1>5 DEF InFlight, Still
  <1> HIDE DEF KeptInv, BaseInv, TypeInv, TypeOK
  <1> QED BY <1>2, <1>4, <1>6, LostStays

LEMMA LostLinkTail ==
  ASSUME KeptInv, KeptInv', NEW t \in Threads, LinkTail(t)
  PROVE  Lost' \subseteq Lost
  <1> USE DEF KeptInv, BaseInv, TypeInv, TypeOK, Goto
  <1>1. PICK m \in Nodes : m = node[t] /\ Existing(m) /\ prv[t] \in Chain(m)
    BY DEF LinkTail, Chained, Held, Registering, HasNode
  <1>2. PICK l \in Slots : l = prv[t] /\ l \in Chain(m) /\ gmem[l].next = -1
    BY <1>1, ChainInSlots DEF LinkTail, Chained, Held
  <1>3. /\ rnode' = rnode /\ gmem'[l].next = cur[t] /\ gmem'[l].ptr = gmem[l].ptr
        /\ \A g \in Slots : g # l => gmem'[g] = gmem[g]
    BY <1>2 DEF LinkTail
  <1>4. \A u \in Threads : u # t => Still(u)
    BY DEF LinkTail, Return, DropRegs, Still
  <1>5. \A n \in Nodes : Existing(n) => Existing(n)' /\ rnode'[n].entry = rnode[n].entry
    BY <1>3 DEF Existing
  <1>6. \A g \in Slots : ~Empty(gmem[g]) => gmem[g].next = -1 \/ gmem'[g].next = gmem[g].next
    BY <1>2, <1>3
  <1>7. \A g \in Slots : ~Empty(gmem'[g]) => ~Empty(gmem[g])
    BY <1>3 DEF Empty
  <1>8. cur[t] # -1 => cur[t] \in Chain(m)'
    <2>1. Chain(m) \subseteq Chain(m)'
      BY <1>1, <1>5, <1>6, ChainGrows DEF Chained
    <2>2. gmem'[l].next \in Chain(m)' \cup {-1}
      BY <1>2, <2>1, ChainNextAfter DEF Chained
    <2> QED BY <1>3, <2>2
  <1>9. \A u \in InFlight :
           \/ u \in InFlight' /\ cur'[u] = cur[u]
           \/ \E n \in Nodes : Existing(n)' /\ cur[u] \in Chain(n)'
    BY <1>1, <1>4, <1>5, <1>8 DEF InFlight, Still
  <1> HIDE DEF KeptInv, BaseInv, TypeInv, TypeOK
  <1> QED BY <1>5, <1>6, <1>7, <1>9, LostStays

LEMMA LostCode ==
  ASSUME KeptInv, KeptInv', NEW t \in Threads, InCode(t), ~Segfault(t)
  PROVE  Lost' \subseteq Lost
  <1> USE DEF KeptInv, BaseInv, TypeInv, TypeOK, Goto, Begin
  <1>1. CASE UsedNode(t) \/ UsedSum(t) \/ CheckLimit(t) \/ DriverAllocFails(t)
    <2>1. UNCHANGED shm /\ pc[t] \notin Linking /\ \A u \in Threads : u # t => Still(u)
      BY <1>1 DEF UsedNode, UsedSum, CheckLimit, DriverAllocFails, Return, DropRegs, regs,
                  shm, Linking, Still
    <2> QED BY <2>1, LostReads DEF InFlight
  <1>2. ASSUME NEW d \in Dptrs, DriverAlloc(t, d) PROVE Lost' \subseteq Lost
    <2>1. UNCHANGED shm /\ pc[t] \notin Linking /\ \A u \in Threads : u # t => Still(u)
      BY <1>2 DEF DriverAlloc, shm, Linking, Still
    <2> QED BY <2>1, LostReads DEF InFlight
  <1>3. CASE \/ FindRnode(t) \/ InsertProbe(t) \/ ReadEntry(t) \/ FindGmem(t)
             \/ PushProbe(t)
    <2>1. UNCHANGED shm /\ pc[t] \notin Linking /\ \A u \in Threads : u # t => Still(u)
      BY <1>3 DEF FindRnode, InsertProbe, ReadEntry, FindGmem, PushProbe, shm, Linking, Still
    <2> QED BY <2>1, LostReads DEF InFlight
  <1>4. CASE LinkEntry(t)
    <2>1. UNCHANGED shm /\ cur' = cur /\ pc'[t] \in Linking
      BY <1>4 DEF LinkEntry, shm, Linking
    <2>2. \A u \in Threads : u # t => Still(u)
      BY <1>4 DEF LinkEntry, Still
    <2> QED BY <2>1, <2>2, LostReads DEF InFlight
  <1>5. CASE LastRec(t)
    <2>1. UNCHANGED shm /\ \A u \in Threads : u # t => Still(u)
      BY <1>5, ReadsLastRec DEF Reads, shm
    <2>2. pc[t] = "tail"
      BY <1>5 DEF LastRec
    <2>3. t \in InFlight => prv[t] # cur[t]
      BY <2>2 DEF InFlight, Chained, Held, InHand, Registering, HasNode, Linking
    <2>4. prv[t] # cur[t] => cur' = cur /\ pc'[t] \in Linking
      BY <1>5, <2>2 DEF LastRec, Linking, regs
    <2> QED BY <2>1, <2>3, <2>4, LostReads DEF InFlight
  <1>6. CASE InsertAssign(t) \/ PushClaim(t) \/ SetEntry(t) \/ LinkTail(t)
    BY <1>6, LostInsertAssign, LostPushClaim, LostSetEntry, LostLinkTail
  <1>7. ~ResetRecord(t)
    BY DEF ResetRecord, NeverReregisters
  <1>8. ~(RemoveVisit(t) \/ RemoveBypass(t) \/ RemoveDelete(t) \/ DriverFree(t) \/ DriverFreeFails(t))
    BY DEF NoFrees, Freeing, RemoveVisit, RemoveBypass, RemoveDelete,
           DriverFree, DriverFreeFails
  <1> HIDE DEF KeptInv, BaseInv, TypeInv, TypeOK, Goto, Begin
  <1> QED BY <1>1, <1>2, <1>3, <1>4, <1>5, <1>6, <1>7, <1>8 DEF InCode

LEMMA LostStart ==
  ASSUME KeptInv, KeptInv', NEW t \in Threads, NEW k \in AllocKinds, NEW h \in Handles,
         NEW b \in Sizes, StartAlloc(t, k, h, b)
  PROVE  Lost' \subseteq Lost
  <1>1. UNCHANGED shm /\ pc[t] \notin Linking /\ \A u \in Threads : u # t => Still(u)
    BY DEF StartAlloc, shm, Linking, Still, Goto, KeptInv, BaseInv, TypeInv, TypeOK
  <1> QED BY <1>1, LostReads DEF InFlight

LEMMA LostFinite == IsFiniteSet(Lost) /\ Cardinality(Lost) \in Nat
  <1>1. Lost \in SUBSET Slots
    BY DEF Lost
  <1>2. IsFiniteSet(Slots)
    BY FS_Interval, TableAssumption DEF Slots
  <1> QED BY <1>1, <1>2, FS_Subset, FS_CardinalityType

(* A process that ends loses what its thread has in hand, one record.      *)
LEMMA LostDie ==
  ASSUME OneThread, IsFiniteSet(Procs), KeptInv, NEW p \in Procs, Die(p),
         Cardinality(Lost) <= Cardinality(Dead)
  PROVE  Cardinality(Lost') <= Cardinality(Dead')
  <1> USE DEF KeptInv, BaseInv, TypeInv, TypeOK
  <1>1. rnode' = rnode /\ gmem' = gmem /\ \A n \in Nodes : Chain(n)' = Chain(n)
    <2>1. UNCHANGED shm
      BY DEF Die, shm
    <2> QED BY <2>1, SameShm DEF shm
  <1>2. \A u \in Threads : Me(u) # p => Still(u)
    BY DEF Die, DropRegs, Still
  <1>3. PICK x : \A u \in Threads : Me(u) = p => cur[u] = x
    BY DEF OneThread
  <1>4. Lost' \subseteq Lost \cup {x}
    <2>1. ASSUME NEW g \in Lost', g # x PROVE g \in Lost
      <3>1. /\ g \in Slots /\ ~Empty(gmem[g])
            /\ \A n \in Nodes : Existing(n) => g \notin Chain(n)
        BY <1>1 DEF Lost, Existing
      <3>2. ASSUME NEW u \in InFlight PROVE cur[u] # g
        <4>1. CASE Me(u) = p
          BY <1>3, <2>1, <4>1 DEF InFlight
        <4>2. CASE Me(u) # p
          <5>1. u \in InFlight' /\ cur'[u] = cur[u]
            BY <1>2, <4>2 DEF InFlight, Still
          <5> QED BY <2>1, <5>1 DEF Lost
        <4> QED BY <4>1, <4>2
      <3> QED BY <3>1, <3>2 DEF Lost
    <2> QED BY <2>1
  <1>5. Dead' = Dead \cup {p} /\ p \notin Dead
    BY DEF Die, Dead
  <1> HIDE DEF KeptInv, BaseInv, TypeInv, TypeOK
  <1>6. IsFiniteSet(Dead) /\ Cardinality(Dead) \in Nat
    <2>1. Dead \in SUBSET Procs
      BY DEF Dead
    <2> QED BY <2>1, FS_Subset, FS_CardinalityType
  <1>7. Cardinality(Dead') = Cardinality(Dead) + 1
    BY <1>5, <1>6, FS_AddElement
  <1>8. IsFiniteSet(Lost \cup {x}) /\ Cardinality(Lost \cup {x}) <= Cardinality(Lost) + 1
    <2>1. IsFiniteSet(Lost) /\ Cardinality(Lost) \in Nat
      BY LostFinite
    <2>2. /\ IsFiniteSet(Lost \cup {x})
          /\ Cardinality(Lost \cup {x}) =
               IF x \in Lost THEN Cardinality(Lost) ELSE Cardinality(Lost) + 1
      BY <2>1, FS_AddElement
    <2> QED BY <2>1, <2>2
  <1>9. Cardinality(Lost') <= Cardinality(Lost \cup {x})
    BY <1>4, <1>8, FS_Subset
  <1>10. Cardinality(Lost') \in Nat /\ Cardinality(Lost \cup {x}) \in Nat
    <2>1. IsFiniteSet(Lost')
      BY <1>4, <1>8, FS_Subset
    <2> QED BY <1>8, <2>1, FS_CardinalityType
  <1> QED BY <1>6, <1>7, <1>8, <1>9, <1>10, LostFinite

LEMMA LeakInit == IsFiniteSet(Procs) /\ Init => LeakInv
  <1> SUFFICES ASSUME IsFiniteSet(Procs), Init PROVE LeakInv
    OBVIOUS
  <1>1. Lost = {}
    BY DEF Lost, Init, InitGMem, Empty
  <1>2. Dead = {}
    BY DEF Dead, Init
  <1> QED BY <1>1, <1>2, KeptInit, FS_EmptySet DEF LeakInv

LEMMA LeakStep ==
  ASSUME OneThread, IsFiniteSet(Procs)
  PROVE  LeakInv /\ [AloneNext]_vars => LeakInv'
  <1> SUFFICES ASSUME LeakInv, [AloneNext]_vars PROVE LeakInv'
    OBVIOUS
  <1>1. KeptInv /\ KeptInv' /\ Cardinality(Lost) <= Cardinality(Dead)
    BY KeptStep DEF LeakInv
  <1>2. \/ Lost' \subseteq Lost /\ Dead' = Dead
        \/ \E p \in Procs : Die(p)
    <2>1. CASE UNCHANGED vars
      <3>1. /\ rnode' = rnode /\ gmem' = gmem /\ alive' = alive /\ pc' = pc /\ cur' = cur
            /\ UNCHANGED shm
        BY <2>1 DEF vars, shm, host, regs
      <3>2. \A n \in Nodes : Chain(n)' = Chain(n)
        BY <3>1, SameShm
      <3> QED BY <3>1, <3>2 DEF Lost, Dead, InFlight, Existing
    <2>2. ASSUME NEW t \in Threads, InCode(t), ~Segfault(t)
          PROVE  Lost' \subseteq Lost /\ Dead' = Dead
      <3>1. alive' = alive
        BY <2>2 DEF InCode, UsedNode, UsedSum, FindRnode, InsertProbe, InsertAssign, ReadEntry,
                    FindGmem, ResetRecord, PushProbe, PushClaim, LinkEntry, SetEntry, LastRec,
                    LinkTail, RemoveVisit, RemoveBypass, RemoveDelete, CheckLimit, DriverAlloc,
                    DriverAllocFails, DriverFree, DriverFreeFails, host
      <3> QED BY <1>1, <2>2, <3>1, LostCode DEF Dead
    <2>3. ASSUME NEW t \in Threads, NEW k \in AllocKinds, NEW h \in Handles, NEW b \in Sizes,
                 StartAlloc(t, k, h, b)
          PROVE  Lost' \subseteq Lost /\ Dead' = Dead
      <3>1. alive' = alive
        BY <2>3 DEF StartAlloc, host
      <3> QED BY <1>1, <2>3, <3>1, LostStart DEF Dead
    <2>4. \A t \in Threads : Segfault(t) => \E p \in Procs : Die(p)
      BY MeType DEF Segfault
    <2> QED BY <2>1, <2>2, <2>3, <2>4 DEF AloneNext, KeepNext, Keep
  <1>3. CASE Lost' \subseteq Lost /\ Dead' = Dead
    <2>1. IsFiniteSet(Lost) /\ Cardinality(Lost) \in Nat
      BY LostFinite
    <2>2. IsFiniteSet(Lost') /\ Cardinality(Lost') <= Cardinality(Lost)
      BY <1>3, <2>1, FS_Subset
    <2>3. Cardinality(Lost') \in Nat /\ Cardinality(Dead) \in Nat
      <3>1. IsFiniteSet(Dead)
        <4>1. Dead \in SUBSET Procs
          BY DEF Dead
        <4> QED BY <4>1, FS_Subset
      <3> QED BY <2>2, <3>1, FS_CardinalityType
    <2>4. Cardinality(Lost') <= Cardinality(Dead')
      BY <1>1, <1>3, <2>1, <2>2, <2>3
    <2> QED BY <1>1, <2>4 DEF LeakInv
  <1>4. CASE \E p \in Procs : Die(p)
    BY <1>1, <1>4, LostDie DEF LeakInv
  <1> QED BY <1>2, <1>3, <1>4

LEMMA KeptLeaks ==
  ASSUME IsFiniteSet(Procs)
  PROVE  LeakInv => CrashLeaksOne
  <1> SUFFICES ASSUME LeakInv PROVE CrashLeaksOne
    OBVIOUS
  <1> DEFINE linked  == UNION {Chain(n) : n \in {m \in Nodes : Existing(m)}}
             orphans == {g \in Slots : ~Empty(gmem[g])} \ linked
             linking == {t \in Threads : pc[t] \in {"link", "adopt", "tail", "append"}}
  <1>1. \A t, u \in linking : t = u
    BY DEF LeakInv, KeptInv, BaseInv, AddsAlone, InAddGmem, Recording, NoFrees
  <1>2. IsFiniteSet(Lost) /\ Cardinality(Lost) \in Nat /\ Cardinality(Lost) <= Cardinality(Dead)
    BY LostFinite DEF LeakInv
  <1>3. IsFiniteSet(Dead) /\ Cardinality(Dead) \in Nat
    <2>1. Dead \in SUBSET Procs
      BY DEF Dead
    <2> QED BY <2>1, FS_Subset, FS_CardinalityType
  <1>4. Cardinality(orphans) <= Cardinality(linking) + Cardinality(Dead)
    <2>1. CASE linking = {}
      <3>1. orphans \in SUBSET Lost
        BY <2>1 DEF Lost, InFlight, Linking
      <3>2. Cardinality(orphans) <= Cardinality(Lost) /\ Cardinality(orphans) \in Nat
        BY <1>2, <3>1, FS_Subset, FS_CardinalityType
      <3>3. Cardinality(linking) = 0
        BY <2>1, FS_EmptySet
      <3> QED BY <1>2, <1>3, <3>2, <3>3
    <2>2. CASE linking # {}
      <3>1. PICK t \in linking : TRUE
        BY <2>2
      <3>2. linking = {t}
        BY <1>1, <3>1
      <3>3. Cardinality(linking) = 1
        BY <3>2, FS_Singleton
      <3>4. orphans \in SUBSET (Lost \cup {cur[t]})
        BY <3>2 DEF Lost, InFlight, Linking
      <3>5. /\ IsFiniteSet(Lost \cup {cur[t]})
            /\ Cardinality(Lost \cup {cur[t]}) =
                 IF cur[t] \in Lost THEN Cardinality(Lost) ELSE Cardinality(Lost) + 1
        BY <1>2, FS_AddElement
      <3>6. IsFiniteSet(orphans) /\ Cardinality(orphans) <= Cardinality(Lost \cup {cur[t]})
        BY <3>4, <3>5, FS_Subset
      <3>7. Cardinality(orphans) \in Nat
        BY <3>6, FS_CardinalityType
      <3> HIDE DEF orphans, linking
      <3> QED BY <1>2, <1>3, <3>3, <3>5, <3>6, <3>7
    <2> QED BY <2>1, <2>2
  <1> QED BY <1>4 DEF CrashLeaksOne, Dead

(***************************************************************************)
(* Theorems                                                                *)
(***************************************************************************)
LEMMA AloneKept ==
  ASSUME OneThread, IsFiniteSet(Threads)
  PROVE  (HoldSpec => []KeptInv) /\ (ApartSpec => []KeptInv)
  <1>1. KeptInv /\ [HoldNext]_vars => KeptInv'
    BY KeptStep, HoldIsAlone
  <1>2. KeptInv /\ [ApartNext]_vars => KeptInv'
    BY KeptStep, ApartIsAlone
  <1>3. HoldSpec => []KeptInv
    BY KeptInit, <1>1, PTL DEF HoldSpec
  <1>4. ApartSpec => []KeptInv
    BY KeptInit, <1>2, PTL DEF ApartSpec
  <1> QED BY <1>3, <1>4

(* Nobody frees and no two calls are inside add_gmem at a time: no record  *)
(* is on the chains of two processes, and last_rec finds the end of every  *)
(* chain, however many processes have ended anywhere in their calls.       *)
THEOREM OwnChains ==
  ASSUME OneThread, IsFiniteSet(Threads)
  PROVE  (HoldSpec => []ChainsDisjoint) /\ (ApartSpec => []ChainsDisjoint)
  <1>1. KeptInv => ChainsDisjoint
    BY DEF KeptInv, Chained
  <1>2. HoldSpec => []ChainsDisjoint
    <2>1. HoldSpec => []KeptInv
      BY AloneKept
    <2> QED BY <1>1, <2>1, PTL
  <1>3. ApartSpec => []ChainsDisjoint
    <2>1. ApartSpec => []KeptInv
      BY AloneKept
    <2> QED BY <1>1, <2>1, PTL
  <1> QED BY <1>2, <1>3

(* There, link_rnode_gmem looks for the end of a chain on the chain of its *)
(* own process: it reads no record beside it, and no ptr_gmem[-1].         *)
THEOREM EndOnOwnChain ==
  ASSUME OneThread, IsFiniteSet(Threads)
  PROVE  (HoldSpec => []LastRecOnChain) /\ (ApartSpec => []LastRecOnChain)
  <1>1. KeptInv => LastRecOnChain
    BY DEF KeptInv, Chained, Held, LastRecOnChain
  <1>2. HoldSpec => []LastRecOnChain
    <2>1. HoldSpec => []KeptInv
      BY AloneKept
    <2> QED BY <1>1, <2>1, PTL
  <1>3. ApartSpec => []LastRecOnChain
    <2>1. ApartSpec => []KeptInv
      BY AloneKept
    <2> QED BY <1>1, <2>1, PTL
  <1> QED BY <1>2, <1>3

(* There, as long as push_gmem has slots to give, every allocation of a    *)
(* process between two calls has exactly one record of the size asked for. *)
THEOREM AllocationsRecorded ==
  ASSUME OneThread, IsFiniteSet(Threads)
  PROVE  (HoldSpec => []LedgerComplete) /\ (ApartSpec => []LedgerComplete)
  <1>1. HoldSpec => []LedgerComplete
    <2>1. HoldSpec => []KeptInv
      BY AloneKept
    <2> QED BY KeptLedger, <2>1, PTL
  <1>2. ApartSpec => []LedgerComplete
    <2>1. ApartSpec => []KeptInv
      BY AloneKept
    <2> QED BY KeptLedger, <2>1, PTL
  <1> QED BY <1>1, <1>2

(* There, every process that ends takes at most one record away from       *)
(* everybody: the one that it had claimed and not linked.                  *)
THEOREM OneLeakPerCrash ==
  ASSUME OneThread, IsFiniteSet(Threads), IsFiniteSet(Procs)
  PROVE  (HoldSpec => []CrashLeaksOne) /\ (ApartSpec => []CrashLeaksOne)
  <1>1. Init => LeakInv
    BY LeakInit
  <1>2. LeakInv => CrashLeaksOne
    BY KeptLeaks
  <1>3. LeakInv /\ [HoldNext]_vars => LeakInv'
    BY LeakStep, HoldIsAlone
  <1>4. LeakInv /\ [ApartNext]_vars => LeakInv'
    BY LeakStep, ApartIsAlone
  <1>5. HoldSpec => []CrashLeaksOne
    BY <1>1, <1>2, <1>3, PTL DEF HoldSpec
  <1>6. ApartSpec => []CrashLeaksOne
    BY <1>1, <1>2, <1>4, PTL DEF ApartSpec
  <1> QED BY <1>5, <1>6
=============================================================================
