---------------------------- MODULE HijackProps ----------------------------
(* What the calls of Hijack promise, under which workload.                 *)
EXTENDS Hijack, FiniteSetsExt

Labels == {"idle", "dead", "used", "sum", "check", "driver", "find", "insert",
           "assign", "entry", "search", "reset", "push", "claim", "link", "adopt",
           "tail", "append", "remove", "bypass", "delete", "release"}

(* Every variable, index and pointer keeps its range.                      *)
TypeOK ==
  /\ rnode \in [Nodes -> RNodes]
  /\ gmem \in [Slots -> GMems]
  /\ alive \in [Procs -> BOOLEAN]
  /\ mem \in [Procs -> [Handles -> Dptrs \cup {NULL}]]
  /\ drv \in [Procs -> [Dptrs -> Bytes]]
  /\ pc \in [Threads -> Labels]
  /\ cnt \in [Threads -> 0..NG]
  /\ cur \in [Threads -> -1..(NG - 1)]
  /\ prv \in [Threads -> -1..(NG - 1)]
  /\ acc \in [Threads -> Bytes]
  /\ node \in [Threads -> -1..(NR - 1)]
  /\ arg \in [Threads -> Args]

(***************************************************************************)
(* The hash table, whatever the interleaving                               *)
(***************************************************************************)
Existing(n) == rnode[n].stat = "EXIST"

(* A process whose calls come from one thread has at most one node, so a   *)
(* scan of gmem_used counts it at most once: find_rnode and insert_rnode   *)
(* run unlocked between the other processes' inserts.                      *)
UniqueKey ==
  \A m, n \in Nodes :
    Existing(m) /\ Existing(n) /\ rnode[m].key = rnode[n].key => m = n

(* A node stands where find_rnode looks for it: the slots that the probes  *)
(* of its key visit before it have been used.                              *)
Reachable(n) ==
  \E j \in Nodes :
    /\ n = Hash(rnode[n].key, j)
    /\ \A i \in 0..(j - 1) : rnode[Hash(rnode[n].key, i)].stat # "NONEXIST"

HasNode(t, n) == Existing(n) /\ rnode[n].key = Me(t)

(* The probes of thread t so far: slots in use, none of them its node.     *)
Probed(t) ==
  \A i \in 0..(cnt[t] - 1) : rnode[Hash(Me(t), i)].stat # "NONEXIST"
Missed(t) == \A i \in 0..(cnt[t] - 1) : ~HasNode(t, Hash(Me(t), i))
Absent(t) == \A n \in Nodes : ~HasNode(t, n)

(* What makes UniqueKey inductive: every node stays reachable for          *)
(* find_rnode, and an insert is under way only for a key without a node.   *)
NodeInv ==
  /\ \A n \in Nodes : Existing(n) => rnode[n].key \in Procs /\ Reachable(n)
  /\ UniqueKey
  /\ \A t \in Threads :
       /\ pc[t] = "find" => Probed(t) /\ Missed(t)
       /\ pc[t] \in {"insert", "assign"} => Probed(t) /\ Absent(t)

(* insert_rnode gives nullptr only "if ... the rnode hash table is full".  *)
NullOnlyWhenFull ==
  \A t \in Threads : pc[t] = "entry" /\ node[t] = -1 => \A n \in Nodes : Existing(n)

(* A node that no insert is about to overwrite stays with its process for  *)
(* good: no step of another process takes the slot away.                   *)
Settled(n) ==
  /\ Existing(n)
  /\ \A t \in Threads : pc[t] = "assign" => Hash(Me(t), cnt[t]) # n
KeepsNodes ==
  \A n \in Nodes : Settled(n) => Settled(n)' /\ rnode'[n].key = rnode[n].key
SettledNodesStay == [][KeepsNodes]_vars

(***************************************************************************)
(* The records                                                             *)
(***************************************************************************)
NodesOf(p) == {n \in Nodes : Existing(n) /\ rnode[n].key = p}

(* The records that the links of GMem.next reach from the entry of node n: *)
(* those in every set that holds the entry and that no link leaves.        *)
Closed(S) == \A g \in S : gmem[g].next \in S \cup {-1}
Chain(n) ==
  {g \in Slots : /\ ~Empty(gmem[g])
                 /\ \A S \in SUBSET Slots :
                      rnode[n].entry \in S \cup {-1} /\ Closed(S) => g \in S}

Quiet(p) == \A t \in Threads : Me(t) = p => pc[t] = "idle"

(* Hold workload: every allocation of a process between calls has exactly  *)
(* one record, on the chain of the process and with the requested size,    *)
(* until push_gmem has run out of slots.                                   *)
LedgerComplete ==
  (\E g \in Slots : Empty(gmem[g])) =>
    \A p \in Procs : alive[p] /\ Quiet(p) =>
      \A d \in Live(p) :
        \E n \in NodesOf(p) :
          \E g \in Chain(n) :
            /\ mem[p][gmem[g].ptr] = d /\ gmem[g].bytes = drv[p][d]
            /\ \A f \in Chain(n) : mem[p][gmem[f].ptr] = d => f = g

(* Hold workload: two processes never share a record, and every chain has  *)
(* an end: no two links and no two entries meet.                           *)
ChainsDisjoint ==
  /\ \A m, n \in Nodes :
       Existing(m) /\ Existing(n) /\ m # n => Chain(m) \cap Chain(n) = {}
  /\ \A n \in Nodes :
       Existing(n) /\ Chain(n) # {} => \E g \in Chain(n) : IsTail(gmem[g])

(* Hold workload: a record that no chain reaches was left by a process     *)
(* that ended inside add_gmem, one at most for each, or is being linked.   *)
CrashLeaksOne ==
  LET linked  == UNION {Chain(n) : n \in {m \in Nodes : Existing(m)}}
      orphans == {g \in Slots : ~Empty(gmem[g])} \ linked
      linking == {t \in Threads : pc[t] \in {"link", "adopt", "tail", "append"}}
      dead    == {p \in Procs : ~alive[p]}
  IN  Cardinality(orphans) <= Cardinality(linking) + Cardinality(dead)

(* Hold workload, and Careful workload of one process: where last_rec      *)
(* looks for the end of a chain is on the chain of its own process, so it  *)
(* never reads a record that remove_gmem_by_dptr has emptied behind a      *)
(* dangling entry, nor ptr_gmem[-1], as find_gmem and remove_gmem_by_dptr  *)
(* do past every tail; and link_rnode_gmem makes no record of another      *)
(* process its own.                                                        *)
LastRecOnChain ==
  \A t \in Threads : pc[t] \in {"tail", "append"} => prv[t] \in Chain(node[t])

(* Keep workload: a record that no push_gmem in flight is about to claim   *)
(* keeps its variable for good, unless a process that shares it since an   *)
(* earlier double claim registers it again: that push_gmem tests a slot    *)
(* and claims it later harms nobody but the processes that race for it.    *)
SettledRecord(g) ==
  /\ ~Empty(gmem[g])
  /\ \A t \in Threads : pc[t] = "claim" => cnt[t] # g
Reregistered(g) == \E t \in Threads : pc[t] = "reset" /\ cur[t] = g
KeepsRecords ==
  \A g \in Slots : SettledRecord(g) /\ ~Reregistered(g) =>
    SettledRecord(g)' /\ gmem'[g].ptr = gmem[g].ptr
SettledRecordsStay == [][KeepsRecords]_vars

(***************************************************************************)
(* The usage and the limit                                                 *)
(***************************************************************************)
HeadBytes(n) == IF rnode[n].entry = -1 THEN 0 ELSE gmem[rnode[n].entry].bytes
(* The sum of HeadBytes over the nodes S, as the number of those bytes.     *)
HeadSum(S) == Cardinality({c \in S \X Bytes : c[2] < HeadBytes(c[1])})
LiveNodes == {n \in Nodes : Existing(n) /\ alive[rnode[n].key]}

(* Hold workload: the first allocations of the existing processes together *)
(* never exceed GPU_MEM_LIMIT.                                             *)
HeadQuota == HeadSum(LiveNodes) <= Limit

(* Apart workload: the usage check of one call and the record of another   *)
(* may come in any order, so two calls that overlap can overshoot          *)
(* GPU_MEM_LIMIT, by the largest request and never by more, however many   *)
(* such pairs follow each other.                                           *)
HeadOvershoot == HeadSum(LiveNodes) <= Limit + Max(Sizes)

(* The inner loop of gmem_used does not end at a node i that is counted    *)
(* and whose number is that of a record with a successor.                  *)
Trapped(t) == pc[t] = "sum" /\ gmem[cnt[t]].next > -1

(* Serial calls: every call returns, or its process ends, or it is trapped *)
(* in gmem_used: no walk of find_gmem, last_rec or remove_gmem_by_dptr     *)
(* goes around in a circle.                                                *)
CallReturns ==
  \A t \in Threads :
    pc[t] \notin {"idle", "dead"} ~> pc[t] \in {"idle", "dead"} \/ Trapped(t)

(***************************************************************************)
(* Frees                                                                   *)
(***************************************************************************)
(* Careful workload of one process: no record on its chain outlives its    *)
(* allocation, whatever the order of the frees.                            *)
NoStaleRecord ==
  \A p \in Procs : alive[p] /\ Quiet(p) =>
    \A n \in NodesOf(p) : \A g \in Chain(n) :
      /\ mem[p][gmem[g].ptr] \in Live(p)
      /\ gmem[g].bytes = drv[p][mem[p][gmem[g].ptr]]

(***************************************************************************)
(* What the comments of the source say                                     *)
(***************************************************************************)
(* resource.cxx:284: changing the bytes registered "should not accur".     *)
(* Careful workload of one process: with a variable for every allocation   *)
(* it does not; the record of a device pointer is gone before the driver   *)
(* hands it out again.                                                     *)
NeverReregisters == \A t \in Threads : pc[t] # "reset"

(* resource.cxx:291: the node is created "if the node does not exist".     *)
CreatesOnlyIfAbsent ==
  \A t \in Threads : pc[t] = "assign" => NodesOf(Me(t)) = {}
=============================================================================
