---------------------------- MODULE LedgerProofs ----------------------------
(***************************************************************************)
(* What the tables amount to while nobody frees: what gmem_used returns    *)
(* and what the first records of the processes hold together, when calls   *)
(* do not meet inside add_gmem; and, when they do not overlap at all, that *)
(* the tables implement Ledger.                                            *)
(***************************************************************************)
EXTENDS HijackScan, ChainProofs, WellFoundedInduction, SequenceTheorems


(***************************************************************************)
(* Sums over sets of nodes, as numbers of bytes                            *)
(***************************************************************************)
Cells(S, f) == {c \in S \X Bytes : c[2] < f[c[1]]}
Total(S, f) == Cardinality(Cells(S, f))

LEMMA TotalType ==
  ASSUME NEW S \in SUBSET Nodes, NEW f
  PROVE  IsFiniteSet(Cells(S, f)) /\ Total(S, f) \in Nat
  <1>1. IsFiniteSet(Nodes) /\ IsFiniteSet(Bytes)
    BY FS_Interval, TableAssumption, DataAssumption DEF Nodes, Bytes
  <1>2. IsFiniteSet(S)
    BY <1>1, FS_Subset
  <1>3. IsFiniteSet(S \X Bytes)
    BY <1>1, <1>2, FS_Product
  <1>4. Cells(S, f) \in SUBSET (S \X Bytes)
    BY DEF Cells
  <1> QED BY <1>3, <1>4, FS_Subset, FS_CardinalityType DEF Total

LEMMA TotalEmpty == ASSUME NEW f PROVE Total({}, f) = 0
  <1>1. Cells({}, f) = {}
    BY DEF Cells
  <1> QED BY <1>1, FS_EmptySet DEF Total

LEMMA TotalOne ==
  ASSUME NEW n \in Nodes, NEW f \in [Nodes -> Bytes]
  PROVE  Total({n}, f) = f[n]
  <1>1. f[n] \in Nat /\ f[n] < SizeMod
    BY DataAssumption DEF Bytes
  <1> DEFINE I == 0..(f[n] - 1)
  <1>2. IsFiniteSet(I) /\ Cardinality(I) = f[n]
    BY <1>1, FS_Interval
  <1>3. IsFiniteSet({n}) /\ Cardinality({n}) = 1
    BY FS_Singleton
  <1>4. Cells({n}, f) = {n} \X I
    <2>1. I = {b \in Bytes : b < f[n]}
      BY <1>1, DataAssumption DEF Bytes
    <2>2. ASSUME NEW c \in Cells({n}, f) PROVE c \in {n} \X I
      BY <2>1, <2>2 DEF Cells
    <2>3. ASSUME NEW c \in {n} \X I PROVE c \in Cells({n}, f)
      BY <2>1, <2>3 DEF Cells
    <2> QED BY <2>2, <2>3
  <1> HIDE DEF I
  <1>5. Cardinality({n} \X I) = 1 * f[n]
    BY <1>2, <1>3, FS_Product
  <1>6. Cardinality({n} \X I) = f[n]
    BY <1>1, <1>5
  <1> QED BY <1>4, <1>6 DEF Total

LEMMA TotalUnion ==
  ASSUME NEW S \in SUBSET Nodes, NEW T \in SUBSET Nodes, NEW f, S \cap T = {}
  PROVE  Total(S \cup T, f) = Total(S, f) + Total(T, f)
  <1>1. /\ IsFiniteSet(Cells(S, f)) /\ Total(S, f) \in Nat
        /\ IsFiniteSet(Cells(T, f)) /\ Total(T, f) \in Nat
    BY TotalType
  <1>2. Cells(S \cup T, f) = Cells(S, f) \cup Cells(T, f)
    BY DEF Cells
  <1>3. Cells(S, f) \cap Cells(T, f) = {}
    BY DEF Cells
  <1>4. Cardinality(Cells(S, f) \cap Cells(T, f)) = 0
    BY <1>3, FS_EmptySet
  <1>5. Cardinality(Cells(S, f) \cup Cells(T, f)) =
          Cardinality(Cells(S, f)) + Cardinality(Cells(T, f))
            - Cardinality(Cells(S, f) \cap Cells(T, f))
    BY <1>1, FS_Union
  <1>6. Cardinality(Cells(S, f)) \in Nat /\ Cardinality(Cells(T, f)) \in Nat
    BY <1>1 DEF Total
  <1>7. Cardinality(Cells(S, f) \cup Cells(T, f)) =
          Cardinality(Cells(S, f)) + Cardinality(Cells(T, f))
    BY <1>4, <1>5, <1>6
  <1> QED BY <1>2, <1>7 DEF Total

LEMMA TotalGrows ==
  ASSUME NEW S \in SUBSET Nodes, NEW T \in SUBSET Nodes, S \subseteq T,
         NEW f \in [Nodes -> Bytes], NEW g \in [Nodes -> Bytes],
         \A n \in S : f[n] <= g[n]
  PROVE  Total(S, f) <= Total(T, g)
  <1>1. IsFiniteSet(Cells(T, g))
    BY TotalType
  <1>2. Cells(S, f) \in SUBSET Cells(T, g)
    <2>1. ASSUME NEW c \in S \X Bytes, c[2] < f[c[1]] PROVE c[2] < g[c[1]]
      <3>1. c[1] \in S /\ c[2] \in Int /\ f[c[1]] \in Int /\ g[c[1]] \in Int
        BY DEF Bytes
      <3>2. f[c[1]] <= g[c[1]]
        BY <3>1
      <3> QED BY <2>1, <3>1, <3>2
    <2>2. ASSUME NEW c \in Cells(S, f) PROVE c \in Cells(T, g)
      BY <2>1, <2>2 DEF Cells
    <2> QED BY <2>2
  <1> QED BY <1>1, <1>2, FS_Subset DEF Total

LEMMA TotalAgrees ==
  ASSUME NEW S \in SUBSET Nodes, NEW f \in [Nodes -> Bytes], NEW g \in [Nodes -> Bytes],
         \A n \in S : f[n] = g[n]
  PROVE  Total(S, f) = Total(S, g)
  <1>1. Total(S, f) <= Total(S, g) /\ Total(S, g) <= Total(S, f)
    <2>1. \A n \in S : f[n] <= g[n] /\ g[n] <= f[n]
      BY DEF Bytes
    <2> QED BY <2>1, TotalGrows
  <1>2. Total(S, f) \in Nat /\ Total(S, g) \in Nat
    BY TotalType
  <1> QED BY <1>1, <1>2

(* One node more; the sum of a set in two parts.                           *)
LEMMA TotalNext ==
  ASSUME NEW S \in SUBSET Nodes, NEW n \in Nodes, n \notin S, NEW f \in [Nodes -> Bytes]
  PROVE  Total(S \cup {n}, f) = Total(S, f) + f[n]
  <1>1. {n} \in SUBSET Nodes /\ S \cap {n} = {}
    OBVIOUS
  <1>2. Total(S \cup {n}, f) = Total(S, f) + Total({n}, f)
    BY <1>1, TotalUnion
  <1>3. Total({n}, f) = f[n]
    BY TotalOne
  <1> QED BY <1>2, <1>3

LEMMA TotalParts ==
  ASSUME NEW S \in SUBSET Nodes, NEW f
  PROVE  Total(Nodes, f) = Total(S, f) + Total(Nodes \ S, f)
  <1>1. /\ Nodes \ S \in SUBSET Nodes /\ S \cap (Nodes \ S) = {}
        /\ S \cup (Nodes \ S) = Nodes
    OBVIOUS
  <1>2. Total(S \cup (Nodes \ S), f) = Total(S, f) + Total(Nodes \ S, f)
    BY <1>1, TotalUnion
  <1> QED BY <1>1, <1>2

(* A node that counted nothing begins to count b.                          *)
LEMMA TotalBump ==
  ASSUME NEW S \in SUBSET Nodes, NEW n \in S, NEW f \in [Nodes -> Bytes],
         NEW g \in [Nodes -> Bytes], f[n] = 0, \A m \in S : m # n => f[m] = g[m]
  PROVE  Total(S, g) = Total(S, f) + g[n]
  <1> DEFINE R == S \ {n}
  <1>1. R \in SUBSET Nodes /\ n \in Nodes /\ n \notin R /\ R \cup {n} = S
    OBVIOUS
  <1>2. Total(R, f) = Total(R, g)
    BY <1>1, TotalAgrees
  <1>3. Total(S, f) = Total(R, f) + f[n] /\ Total(S, g) = Total(R, g) + g[n]
    <2> HIDE DEF R
    <2>1. Total(R \cup {n}, f) = Total(R, f) + f[n] /\ Total(R \cup {n}, g) = Total(R, g) + g[n]
      BY <1>1, TotalNext
    <2> QED BY <1>1, <2>1
  <1>4. Total(R, f) \in Nat /\ g[n] \in Nat
    BY <1>1, TotalType DEF Bytes
  <1> QED BY <1>2, <1>3, <1>4

(* When nodes stop counting, a part of them loses no more than the whole.  *)
LEMMA TotalDrops ==
  ASSUME NEW S \in SUBSET Nodes, NEW f \in [Nodes -> Bytes], NEW g \in [Nodes -> Bytes],
         \A n \in Nodes : g[n] <= f[n]
  PROVE  /\ Total(Nodes, g) <= Total(Nodes, f)
         /\ Total(Nodes, g) - Total(S, g) <= Total(Nodes, f) - Total(S, f)
  <1>1. Nodes \in SUBSET Nodes /\ Nodes \ S \in SUBSET Nodes
    OBVIOUS
  <1>2. Total(Nodes, g) <= Total(Nodes, f) /\ Total(Nodes \ S, g) <= Total(Nodes \ S, f)
    BY <1>1, TotalGrows
  <1>3. /\ Total(Nodes, f) = Total(S, f) + Total(Nodes \ S, f)
        /\ Total(Nodes, g) = Total(S, g) + Total(Nodes \ S, g)
    BY TotalParts
  <1>4. /\ Total(S, f) \in Nat /\ Total(Nodes \ S, f) \in Nat
        /\ Total(S, g) \in Nat /\ Total(Nodes \ S, g) \in Nat
    BY <1>1, TotalType
  <1> QED BY <1>2, <1>3, <1>4

LEMMA TotalBound ==
  ASSUME NEW S \in SUBSET Nodes, NEW f \in [Nodes -> Bytes], NEW m \in Nat, m < SizeMod,
         \A n \in Nodes : f[n] <= m
  PROVE  Total(S, f) <= NR * m
  <1> DEFINE I == 0..(m - 1)
  <1>1. IsFiniteSet(I) /\ Cardinality(I) = m
    BY FS_Interval
  <1>2. IsFiniteSet(Nodes) /\ Cardinality(Nodes) = NR
    BY FS_Interval, TableAssumption DEF Nodes
  <1>3. Cells(S, f) \in SUBSET (Nodes \X I)
    <2>1. ASSUME NEW c \in S \X Bytes, c[2] < f[c[1]] PROVE c \in Nodes \X I
      <3>1. c[1] \in Nodes /\ c[2] \in Nat /\ f[c[1]] \in Nat /\ c[2] < f[c[1]] /\ f[c[1]] <= m
        BY <2>1 DEF Bytes
      <3>2. c[2] \in I
        BY <3>1
      <3> QED BY <3>1, <3>2
    <2> QED BY <2>1 DEF Cells
  <1> HIDE DEF I
  <1>4. IsFiniteSet(Nodes \X I) /\ Cardinality(Nodes \X I) = NR * m
    BY <1>1, <1>2, FS_Product
  <1> QED BY <1>3, <1>4, FS_Subset DEF Total

(***************************************************************************)
(* What a step may do to the tables                                        *)
(***************************************************************************)
(* Nodes keep their key, entries and links are set once, records are       *)
(* written only where there was none.                                      *)
NodesGrow ==
  \A n \in Nodes :
    /\ Existing(n) => /\ Existing(n)' /\ rnode'[n].key = rnode[n].key
                      /\ rnode[n].entry = -1 \/ rnode'[n].entry = rnode[n].entry
    /\ Existing(n)' /\ ~Existing(n) => rnode'[n].entry = -1
RecordsGrow ==
  \A g \in Slots :
    /\ ~Empty(gmem[g]) =>
         /\ ~Empty(gmem'[g]) /\ gmem'[g].bytes = gmem[g].bytes
         /\ gmem[g].next = -1 \/ gmem'[g].next = gmem[g].next
    /\ Empty(gmem[g]) =>
         \/ gmem'[g] = gmem[g]
         \/ /\ gmem'[g].next = -1
            /\ \E t \in Threads : pc[t] = "claim" /\ gmem'[g].bytes = arg[t].bytes
Grows == NodesGrow /\ RecordsGrow

LEMMA SameGrows == UNCHANGED shm => Grows
  <1> SUFFICES ASSUME rnode' = rnode, gmem' = gmem PROVE Grows
    BY DEF shm
  <1> QED BY DEF Grows, NodesGrow, RecordsGrow, Existing

LEMMA CodeGrows ==
  ASSUME KeptInv, NEW t \in Threads, InCode(t)
  PROVE  Grows
  <1> USE DEF KeptInv, BaseInv, TypeInv, TypeOK, Goto, Begin
  <1>1. CASE InsertAssign(t)
    <2>1. PICK s : s = Hash(Me(t), cnt[t])
      OBVIOUS
    <2>2. /\ pc[t] = "assign" /\ s \in Nodes /\ ~Existing(s)
      BY <1>1, <2>1, HashInTable, MeType DEF InsertAssign, Chained, Held
    <2>3. gmem' = gmem /\ rnode'[s].entry = -1 /\ \A n \in Nodes : n # s => rnode'[n] = rnode[n]
      BY <1>1, <2>1, <2>2 DEF InsertAssign
    <2> QED BY <2>2, <2>3 DEF Grows, NodesGrow, RecordsGrow, Existing
  <1>2. CASE PushClaim(t)
    <2>1. PICK s : s = cnt[t]
      OBVIOUS
    <2>2. pc[t] = "claim" /\ s \in Slots /\ Empty(gmem[s])
      <3>1. pc[t] = "claim"
        BY <1>2 DEF PushClaim
      <3>2. cnt[t] \in Slots
        BY <3>1, TableAssumption DEF Indices, Slots
      <3>3. Empty(gmem[cnt[t]])
        BY <3>1 DEF Chained, Held
      <3> QED BY <2>1, <3>1, <3>2, <3>3
    <2>3. /\ rnode' = rnode /\ gmem'[s].next = -1 /\ gmem'[s].bytes = arg[t].bytes
          /\ \A g \in Slots : g # s => gmem'[g] = gmem[g]
      BY <1>2, <2>1, <2>2 DEF PushClaim
    <2>4. NodesGrow
      BY <2>3 DEF NodesGrow, Existing
    <2>5. RecordsGrow
      BY <2>2, <2>3 DEF RecordsGrow
    <2> QED BY <2>4, <2>5 DEF Grows
  <1>3. CASE SetEntry(t)
    <2>1. PICK m \in Nodes : m = node[t] /\ rnode[m].entry = -1
      BY <1>3 DEF SetEntry, Chained, Held, Registering
    <2>2. /\ gmem' = gmem /\ rnode'[m].stat = rnode[m].stat /\ rnode'[m].key = rnode[m].key
          /\ \A n \in Nodes : n # m => rnode'[n] = rnode[n]
      BY <1>3, <2>1 DEF SetEntry
    <2>3. NodesGrow
      BY <2>1, <2>2 DEF NodesGrow, Existing
    <2>4. RecordsGrow
      BY <2>2 DEF RecordsGrow
    <2> QED BY <2>3, <2>4 DEF Grows
  <1>4. CASE LinkTail(t)
    <2>1. PICK m \in Nodes : m = node[t] /\ prv[t] \in Chain(m)
      BY <1>4 DEF LinkTail, Chained, Held, Registering, HasNode
    <2>2. PICK l \in Slots : l = prv[t] /\ l \in Chain(m) /\ gmem[l].next = -1
      BY <1>4, <2>1, ChainInSlots DEF LinkTail, Chained, Held
    <2>3. /\ rnode' = rnode /\ gmem'[l].ptr = gmem[l].ptr /\ gmem'[l].bytes = gmem[l].bytes
          /\ \A g \in Slots : g # l => gmem'[g] = gmem[g]
      BY <1>4, <2>2 DEF LinkTail
    <2>4. NodesGrow
      BY <2>3 DEF NodesGrow, Existing
    <2>5. ~Empty(gmem[l])
      BY <2>1, <2>2, ChainUsed
    <2>6. RecordsGrow
      BY <2>2, <2>3, <2>5 DEF RecordsGrow, Empty
    <2> QED BY <2>4, <2>6 DEF Grows
  <1>5. CASE Segfault(t)
    BY <1>5, SameGrows DEF Segfault, Die, shm
  <1>6. CASE ~(InsertAssign(t) \/ PushClaim(t) \/ SetEntry(t) \/ LinkTail(t) \/ Segfault(t))
    <2>1. ~ResetRecord(t)
      BY DEF ResetRecord, NeverReregisters
    <2>2. ~(RemoveVisit(t) \/ RemoveBypass(t) \/ RemoveDelete(t) \/ DriverFree(t) \/ DriverFreeFails(t))
      BY DEF NoFrees, Freeing, RemoveVisit, RemoveBypass, RemoveDelete,
             DriverFree, DriverFreeFails
    <2> HIDE DEF KeptInv, BaseInv, TypeInv, TypeOK, Goto, Begin
    <2>3. UNCHANGED shm
      BY <1>6, <2>1, <2>2
      DEF InCode, UsedNode, UsedSum, FindRnode, InsertProbe, ReadEntry, FindGmem, PushProbe,
          LinkEntry, LastRec, CheckLimit, DriverAlloc, DriverAllocFails, shm
    <2> QED BY <2>3, SameGrows
  <1> QED BY <1>1, <1>2, <1>3, <1>4, <1>5, <1>6

LEMMA AloneGrows == KeptInv /\ [AloneNext]_vars => Grows
  <1> SUFFICES ASSUME KeptInv, [AloneNext]_vars PROVE Grows
    OBVIOUS
  <1>1. CASE UNCHANGED vars
    BY <1>1, SameGrows DEF vars
  <1>2. ASSUME NEW t \in Threads, NEW k \in AllocKinds, NEW h \in Handles, NEW b \in Sizes,
               StartAlloc(t, k, h, b)
        PROVE  Grows
    BY <1>2, SameGrows DEF StartAlloc, shm
  <1>3. ASSUME NEW p \in Procs, Die(p) PROVE Grows
    BY <1>3, SameGrows DEF Die
  <1> QED BY <1>1, <1>2, <1>3, CodeGrows DEF AloneNext, KeepNext, Keep

(***************************************************************************)
(* The first records of the processes                                      *)
(***************************************************************************)
Heads == [n \in Nodes |-> IF Existing(n) THEN HeadBytes(n) ELSE 0]
LiveHeads ==
  [n \in Nodes |-> IF Existing(n) /\ alive[rnode[n].key] THEN HeadBytes(n) ELSE 0]
Usage == Total(Nodes, LiveHeads)

LEMMA UsageIsHeadSum == HeadSum(LiveNodes) = Usage
  <1>1. {c \in LiveNodes \X Bytes : c[2] < HeadBytes(c[1])} = Cells(Nodes, LiveHeads)
    <2>1. ASSUME NEW c \in LiveNodes \X Bytes, c[2] < HeadBytes(c[1])
          PROVE  c \in Cells(Nodes, LiveHeads)
      BY <2>1 DEF Cells, LiveHeads, LiveNodes
    <2>2. ASSUME NEW c \in Cells(Nodes, LiveHeads)
          PROVE  c \in LiveNodes \X Bytes /\ c[2] < HeadBytes(c[1])
      <3>1. c \in Nodes \X Bytes /\ c[2] < LiveHeads[c[1]]
        BY DEF Cells
      <3>2. c[1] \in Nodes /\ c[2] \in Nat
        BY <3>1 DEF Bytes
      <3>3. Existing(c[1]) /\ alive[rnode[c[1]].key]
        BY <3>1, <3>2 DEF LiveHeads
      <3> QED BY <3>1, <3>2, <3>3 DEF LiveHeads, LiveNodes
    <2> QED BY <2>1, <2>2
  <1> QED BY <1>1 DEF HeadSum, Usage, Total

LEMMA HeadsType ==
  ASSUME TypeInv, NodeInv
  PROVE  /\ Heads \in [Nodes -> Bytes] /\ LiveHeads \in [Nodes -> Bytes]
         /\ \A n \in Nodes : LiveHeads[n] <= Heads[n]
  <1>1. \A n \in Nodes : HeadBytes(n) \in Bytes
    BY LinkType, SomeBytes DEF HeadBytes, TypeInv, TypeOK, GMems
  <1>2. 0 \in Bytes /\ \A b \in Bytes : 0 <= b /\ b <= b
    BY SomeBytes DEF Bytes
  <1>3. \A n \in Nodes : Existing(n) => alive[rnode[n].key] \in BOOLEAN
    BY DEF NodeInv, TypeInv, TypeOK
  <1> QED BY <1>1, <1>2, <1>3 DEF Heads, LiveHeads

LEMMA HeadsTypeAfter ==
  ASSUME TypeInv', NodeInv'
  PROVE  Heads' \in [Nodes -> Bytes] /\ LiveHeads' \in [Nodes -> Bytes]
  <1>1. ASSUME NEW n \in Nodes PROVE HeadBytes(n)' \in Bytes
    <2>1. rnode'[n].entry = -1 \/ rnode'[n].entry \in Slots
      BY TableAssumption DEF TypeInv, TypeOK, RNodes, Slots
    <2> QED BY <2>1, SomeBytes DEF HeadBytes, TypeInv, TypeOK, GMems
  <1>2. 0 \in Bytes
    BY SomeBytes
  <1> QED BY <1>1, <1>2 DEF Heads, LiveHeads

(* A step changes what a node counts when it sets its entry.               *)
LEMMA HeadStays ==
  ASSUME KeptInv, Grows, NEW n \in Nodes, Existing(n) => rnode'[n].entry = rnode[n].entry
  PROVE  Heads'[n] = Heads[n]
  <1>1. CASE ~Existing(n)
    BY <1>1 DEF Grows, NodesGrow, Heads, HeadBytes
  <1>2. CASE Existing(n)
    <2>1. Existing(n)' /\ rnode'[n].entry = rnode[n].entry
      BY <1>2 DEF Grows, NodesGrow
    <2>2. CASE rnode[n].entry = -1
      BY <1>2, <2>1, <2>2 DEF Heads, HeadBytes
    <2>3. CASE rnode[n].entry # -1
      <3>1. rnode[n].entry \in Slots /\ ~Empty(gmem[rnode[n].entry])
        BY <1>2, <2>3, LinkType DEF KeptInv, BaseInv, TypeInv, Chained, LinksUsed
      <3>2. gmem'[rnode[n].entry].bytes = gmem[rnode[n].entry].bytes
        BY <3>1 DEF Grows, RecordsGrow
      <3> QED BY <1>2, <2>1, <2>3, <3>2 DEF Heads, HeadBytes
    <2> QED BY <2>2, <2>3
  <1> QED BY <1>1, <1>2

LEMMA HeadsGrow ==
  ASSUME KeptInv, KeptInv', Grows, NEW n \in Nodes
  PROVE  Heads[n] <= Heads'[n]
  <1>1. Heads \in [Nodes -> Bytes] /\ Heads' \in [Nodes -> Bytes]
    BY HeadsType, HeadsTypeAfter DEF KeptInv, BaseInv
  <1>2. Heads[n] \in Int /\ Heads'[n] \in Int /\ 0 <= Heads'[n]
    BY <1>1 DEF Bytes
  <1>3. CASE Existing(n) => rnode'[n].entry = rnode[n].entry
    BY <1>2, <1>3, HeadStays
  <1>4. CASE Existing(n) /\ rnode'[n].entry # rnode[n].entry
    BY <1>2, <1>4 DEF Grows, NodesGrow, Heads, HeadBytes
  <1> QED BY <1>3, <1>4

LEMMA QuietHeads ==
  ASSUME KeptInv, KeptInv', Grows, alive' = alive,
         \A n \in Nodes : Existing(n) => rnode'[n].entry = rnode[n].entry
  PROVE  Heads' = Heads /\ LiveHeads' = LiveHeads
  <1>1. \A n \in Nodes : Heads'[n] = Heads[n]
    BY HeadStays
  <1>2. ASSUME NEW n \in Nodes PROVE LiveHeads'[n] = LiveHeads[n]
    <2>1. CASE Existing(n)
      <3>1. Existing(n)' /\ rnode'[n].key = rnode[n].key
        BY <2>1 DEF Grows, NodesGrow
      <3> QED BY <1>1, <2>1, <3>1 DEF Heads, LiveHeads
    <2>2. CASE ~Existing(n)
      <3>1. LiveHeads[n] = 0 /\ (Existing(n)' => HeadBytes(n)' = 0)
        BY <2>2 DEF LiveHeads, Grows, NodesGrow, HeadBytes
      <3> QED BY <3>1 DEF LiveHeads
    <2> QED BY <2>1, <2>2
  <1>3. /\ Heads = [n \in Nodes |-> Heads[n]] /\ Heads' = [n \in Nodes |-> Heads'[n]]
        /\ LiveHeads = [n \in Nodes |-> LiveHeads[n]]
        /\ LiveHeads' = [n \in Nodes |-> LiveHeads'[n]]
    BY DEF Heads, LiveHeads
  <1> QED BY <1>1, <1>2, <1>3

(***************************************************************************)
(* What a scan of gmem_used has counted so far                             *)
(***************************************************************************)
Scanning == {"used", "sum", "check"}
Scans(t) == pc[t] \in Scanning /\ ~Trapped(t)

Counts(t) ==
  /\ pc[t] \in {"idle", "dead"} => acc[t] = 0
  /\ Scans(t) =>
       /\ pc[t] = "used" => acc[t] <= Total(0..(cnt[t] - 1), Heads)
       /\ pc[t] = "sum"  => /\ acc[t] <= Total(0..(cnt[t] - 1), Heads)
                            /\ Existing(cnt[t]) /\ cur[t] = rnode[cnt[t]].entry
       /\ pc[t] = "check" => acc[t] <= Total(Nodes, Heads)

(* Requests and records have sizes that the applications ask for.          *)
SizesKept ==
  /\ \A g \in Slots : ~Empty(gmem[g]) => gmem[g].bytes \in Sizes
  /\ \A t \in Threads : pc[t] \notin {"idle", "dead"} => arg[t].bytes \in Sizes

EmptyUnlinked == \A g \in Slots : Empty(gmem[g]) => gmem[g].next = -1

CountInv ==
  /\ KeptInv
  /\ SizesKept
  /\ EmptyUnlinked
  /\ \A t \in Threads : Counts(t)

(* used does not wrap around in the next step of the call.                 *)
Fits(t) ==
  /\ pc[t] = "sum"   => acc[t] + Heads[cnt[t]] < SizeMod
  /\ pc[t] = "check" => acc[t] + arg[t].bytes < SizeMod

Rests(u) == Still(u) /\ acc'[u] = acc[u]

(* A thread that is trapped stays so, and what another one has counted     *)
(* stays counted.                                                          *)
LEMMA TrapStays ==
  ASSUME KeptInv, EmptyUnlinked, Grows, NEW u \in Threads, Trapped(u), pc'[u] = "sum",
         cnt'[u] = cnt[u]
  PROVE  Trapped(u)'
  <1>1. PICK c : c = cnt[u]
    OBVIOUS
  <1>2. pc[u] = "sum" /\ c \in Slots /\ gmem[c].next > -1
    BY <1>1, TableAssumption
    DEF Trapped, KeptInv, BaseInv, TypeInv, TypeOK, Indices, Slots
  <1>3. gmem'[c].next = gmem[c].next
    BY <1>2 DEF EmptyUnlinked, Grows, RecordsGrow
  <1> QED BY <1>1, <1>2, <1>3 DEF Trapped

LEMMA CountsRests ==
  ASSUME CountInv, KeptInv', Grows, NEW u \in Threads, Rests(u)
  PROVE  Counts(u)'
  <1>1. PICK c : c = cnt[u]
    OBVIOUS
  <1>2. c \in 0..NG /\ (pc[u] = "used" => c <= NR) /\ (pc[u] = "sum" => c < NR /\ cur[u] # -1)
    BY <1>1 DEF CountInv, KeptInv, BaseInv, TypeInv, TypeOK, Indices
  <1>9. pc[u] = "sum" => c \in Nodes
    BY <1>2, TableAssumption DEF Nodes
  <1>3. /\ Heads \in [Nodes -> Bytes] /\ Heads' \in [Nodes -> Bytes]
        /\ \A n \in Nodes : Heads[n] <= Heads'[n]
    BY HeadsType, HeadsTypeAfter, HeadsGrow DEF CountInv, KeptInv, BaseInv
  <1>4. acc'[u] = acc[u] /\ acc[u] \in Nat
    BY DEF Rests, CountInv, KeptInv, BaseInv, TypeInv, TypeOK, Bytes
  <1>5. /\ pc'[u] = pc[u] /\ cnt'[u] = c /\ cur'[u] = cur[u]
    BY <1>1 DEF Rests, Still
  <1>6. pc'[u] \in {"idle", "dead"} => acc'[u] = 0
    BY <1>4, <1>5 DEF CountInv, Counts
  <1>7. ASSUME NEW S \in SUBSET Nodes, acc[u] <= Total(S, Heads)
        PROVE  acc'[u] <= Total(S, Heads')
    <2>1. Total(S, Heads) <= Total(S, Heads')
      BY <1>3, TotalGrows
    <2>2. Total(S, Heads) \in Nat /\ Total(S, Heads') \in Nat
      BY TotalType
    <2> QED BY <1>4, <1>7, <2>1, <2>2
  <1>8. ASSUME Scans(u)'
        PROVE  /\ pc'[u] = "used" => acc'[u] <= Total(0..(c - 1), Heads')
               /\ pc'[u] = "sum"  => /\ acc'[u] <= Total(0..(c - 1), Heads')
                                     /\ Existing(c)' /\ cur'[u] = rnode'[c].entry
               /\ pc'[u] = "check" => acc'[u] <= Total(Nodes, Heads')
    <2>1. Scans(u)
      BY <1>5, <1>8, TrapStays DEF Scans, Trapped, Rests, Still, CountInv
    <2>2. Nodes \in SUBSET Nodes /\ (pc[u] \in {"used", "sum"} => 0..(c - 1) \in SUBSET Nodes)
      <3>1. pc[u] \in {"used", "sum"} => c \in Nat /\ c <= NR
        BY <1>2, TableAssumption
      <3>2. pc[u] \in {"used", "sum"} => 0..(c - 1) \subseteq Nodes
        BY <3>1, TableAssumption DEF Nodes
      <3> QED BY <3>2
    <2>3. pc[u] = "used" => acc'[u] <= Total(0..(c - 1), Heads')
      BY <1>1, <1>7, <2>1, <2>2 DEF CountInv, Counts
    <2>4. pc[u] = "sum" => acc'[u] <= Total(0..(c - 1), Heads')
      BY <1>1, <1>7, <2>1, <2>2 DEF CountInv, Counts
    <2>5. pc[u] = "check" => acc'[u] <= Total(Nodes, Heads')
      BY <1>7, <2>1, <2>2 DEF CountInv, Counts
    <2>6. pc[u] = "sum" => Existing(c)' /\ cur'[u] = rnode'[c].entry
      <3>1. pc[u] = "sum" => c \in Nodes /\ Existing(c) /\ cur[u] = rnode[c].entry /\ cur[u] # -1
        BY <1>1, <1>2, <1>9, <2>1 DEF CountInv, Counts
      <3> QED BY <1>5, <3>1 DEF Grows, NodesGrow
    <2> QED BY <1>5, <2>3, <2>4, <2>5, <2>6
  <1> QED BY <1>5, <1>6, <1>8 DEF Counts

(* A thread that is outside gmem_used has nothing to count.                *)
LEMMA CountsElsewhere ==
  ASSUME NEW t \in Threads, pc'[t] \notin Scanning,
         pc'[t] \in {"idle", "dead"} => acc'[t] = 0
  PROVE  Counts(t)'
  BY DEF Counts, Scans

(***************************************************************************)
(* What the limit is checked against                                       *)
(***************************************************************************)
(* used at the end of the scan, if nothing changes until then.             *)
Foreseen(t) ==
  IF pc[t] = "used" THEN acc[t] + Total(cnt[t]..(NR - 1), LiveHeads)
  ELSE IF pc[t] = "sum"
       THEN acc[t] + Heads[cnt[t]] + Total((cnt[t] + 1)..(NR - 1), LiveHeads)
       ELSE acc[t]

(* What the driver was or will be asked for, and no head shows yet.        *)
Due(t) == IF pc[t] \in Recording \cup {"driver"} THEN arg[t].bytes ELSE 0

(* How a step may change the two for thread u that makes no step itself.   *)
Same(u) == Due(u)' = Due(u) /\ (Scans(u)' => Scans(u) /\ Foreseen(u)' = Foreseen(u))

(* And for the thread that makes it: it goes on, starts, or is granted.    *)
Goes(t) ==
  \/ Due(t)' \in {0, Due(t)} /\ (Scans(t)' => Scans(t) /\ Foreseen(t)' = Foreseen(t))
  \/ pc[t] \notin Scanning /\ Due(t)' = 0 /\ Foreseen(t)' = Usage
  \/ Scans(t) /\ ~Scans(t)' /\ Due(t)' \in Sizes /\ Foreseen(t) + Due(t)' <= Limit

LEMMA TotalFrom ==
  ASSUME NEW c \in Nodes, NEW f \in [Nodes -> Bytes]
  PROVE  /\ Total(c..(NR - 1), f) = f[c] + Total((c + 1)..(NR - 1), f)
         /\ Total(0..c, f) = Total(0..(c - 1), f) + f[c]
  <1>1. /\ c \in Nat /\ c < NR /\ NR \in Nat
        /\ f[c] \in Nat
    BY TableAssumption, DataAssumption DEF Nodes, Bytes
  <1>2. (c + 1)..(NR - 1) \subseteq Nodes /\ 0..(c - 1) \subseteq Nodes
    BY <1>1 DEF Nodes
  <1>3. c \notin (c + 1)..(NR - 1) /\ c \notin 0..(c - 1)
    BY <1>1
  <1>4. ((c + 1)..(NR - 1)) \cup {c} = c..(NR - 1) /\ (0..(c - 1)) \cup {c} = 0..c
    BY <1>1
  <1>5. Total(((c + 1)..(NR - 1)) \cup {c}, f) = Total((c + 1)..(NR - 1), f) + f[c]
    BY <1>2, <1>3, TotalNext
  <1>6. Total((0..(c - 1)) \cup {c}, f) = Total(0..(c - 1), f) + f[c]
    BY <1>2, <1>3, TotalNext
  <1>7. Total((c + 1)..(NR - 1), f) \in Nat
    BY <1>2, TotalType
  <1>8. Total(c..(NR - 1), f) = Total((c + 1)..(NR - 1), f) + f[c]
    BY <1>4, <1>5
  <1>9. Total(0..c, f) = Total(0..(c - 1), f) + f[c]
    BY <1>4, <1>6
  <1> QED BY <1>1, <1>7, <1>8, <1>9

LEMMA SameRests ==
  ASSUME CountInv, Grows, Heads' = Heads, LiveHeads' = LiveHeads,
         NEW u \in Threads, Rests(u)
  PROVE  Same(u)
  <1>1. Due(u)' = Due(u)
    BY DEF Due, Rests, Still
  <1>2. Scans(u)' => Scans(u)
    BY TrapStays DEF Scans, Trapped, Rests, Still, CountInv
  <1>3. PICK c, a, H, LH : c = cnt[u] /\ a = acc[u] /\ H = Heads /\ LH = LiveHeads
    OBVIOUS
  <1>4. cnt'[u] = c /\ acc'[u] = a /\ Heads' = H /\ LiveHeads' = LH /\ pc'[u] = pc[u]
    BY <1>3 DEF Rests, Still
  <1>5. Foreseen(u)' = Foreseen(u)
    BY <1>3, <1>4 DEF Foreseen
  <1> QED BY <1>1, <1>2, <1>5 DEF Same

(* Every process may signal every other one.                               *)
SeesAll == \A p \in Procs : Signals[p] = Procs

LEMMA GoesUsedNode ==
  ASSUME SeesAll, CountInv, KeptInv', NEW t \in Threads, UsedNode(t),
         Heads' = Heads, LiveHeads' = LiveHeads
  PROVE  Counts(t)' /\ Goes(t)
  <1>1. PICK c, a, H, LH : c = cnt[t] /\ a = acc[t] /\ H = Heads /\ LH = LiveHeads
    OBVIOUS
  <1>2. /\ H \in [Nodes -> Bytes] /\ LH \in [Nodes -> Bytes]
        /\ c \in 0..NR /\ a \in Nat /\ pc[t] = "used"
        /\ rnode' = rnode /\ gmem' = gmem /\ acc'[t] = a /\ Heads' = H /\ LiveHeads' = LH
        /\ a <= Total(0..(c - 1), H)
        /\ Foreseen(t) = a + Total(c..(NR - 1), LH)
        /\ Scans(t)
    <2>1. /\ H \in [Nodes -> Bytes] /\ LH \in [Nodes -> Bytes] /\ Heads' = H /\ LiveHeads' = LH
      BY <1>1, HeadsType DEF CountInv, KeptInv, BaseInv
    <2>2. c \in 0..NR /\ a \in Nat /\ pc[t] = "used"
      BY <1>1, TableAssumption
      DEF UsedNode, CountInv, KeptInv, BaseInv, TypeInv, TypeOK, Indices, Bytes
    <2>3. rnode' = rnode /\ gmem' = gmem /\ acc'[t] = a
      BY <1>1 DEF UsedNode, shm
    <2>4. Scans(t)
      BY <2>2 DEF Scans, Scanning, Trapped
    <2>5. a <= Total(0..(c - 1), H)
      BY <1>1, <2>2, <2>4 DEF CountInv, Counts
    <2>6. Foreseen(t) = a + Total(c..(NR - 1), LH)
      BY <1>1, <2>2 DEF Foreseen
    <2> QED BY <2>1, <2>2, <2>3, <2>4, <2>5, <2>6
  <1>3. Due(t)' = 0 /\ Due(t) = 0
    BY <1>2 DEF UsedNode, Due, Recording, Goto, CountInv, KeptInv, BaseInv, TypeInv, TypeOK
  <1>4. CASE c = NR
    <2>1. pc'[t] = "check"
      BY <1>1, <1>2, <1>4, TableAssumption
      DEF UsedNode, Goto, CountInv, KeptInv, BaseInv, TypeInv, TypeOK
    <2>2. 0..(c - 1) = Nodes /\ c..(NR - 1) = {}
      BY <1>4, TableAssumption DEF Nodes
    <2>3. Foreseen(t) = a
      <3>1. Total(c..(NR - 1), LH) = 0
        BY <2>2, TotalEmpty
      <3> QED BY <1>2, <3>1
    <2>4. Foreseen(t)' = a
      BY <1>2, <2>1 DEF Foreseen
    <2>5. Counts(t)'
      BY <1>2, <2>1, <2>2 DEF Counts
    <2> QED BY <1>2, <1>3, <2>3, <2>4, <2>5 DEF Goes
  <1>5. CASE c < NR
    <2>1. c \in Nodes /\ c \in Nat
      BY <1>2, <1>5, TableAssumption DEF Nodes
    <2>2. /\ Total(c..(NR - 1), LH) = LH[c] + Total((c + 1)..(NR - 1), LH)
          /\ Total(0..c, H) = Total(0..(c - 1), H) + H[c]
      BY <1>2, <2>1, TotalFrom
    <2>3. Existing(c) => rnode[c].key \in Procs /\ alive[rnode[c].key] \in BOOLEAN
      BY <2>1 DEF CountInv, KeptInv, BaseInv, NodeInv, TypeInv, TypeOK
    <2>4. Counted(t, c) <=> Existing(c) /\ alive[rnode[c].key]
      BY <2>3, MeType DEF Counted, ProcessExist, Existing, SeesAll
    <2>7. Total((c + 1)..(NR - 1), LH) \in Nat /\ Total(0..(c - 1), H) \in Nat
      <3>1. (c + 1)..(NR - 1) \subseteq Nodes /\ 0..(c - 1) \subseteq Nodes
        BY <2>1, <1>5, TableAssumption DEF Nodes
      <3> QED BY <3>1, TotalType
    <2>8. H[c] \in Nat
      <3>1. H[c] \in Bytes
        BY <1>2, <2>1
      <3> QED BY <3>1 DEF Bytes
    <2>5. CASE Counted(t, c) /\ rnode[c].entry > -1
      <3>1. pc'[t] = "sum" /\ cur'[t] = rnode[c].entry /\ cnt'[t] = c
        BY <1>1, <1>2, <1>5, <2>5
        DEF UsedNode, Goto, CountInv, KeptInv, BaseInv, TypeInv, TypeOK
      <3>2. LH[c] = H[c]
        BY <1>1, <2>1, <2>4, <2>5 DEF Heads, LiveHeads
      <3>3. Foreseen(t)' = a + H[c] + Total((c + 1)..(NR - 1), LH)
        BY <1>2, <3>1 DEF Foreseen
      <3>4. Foreseen(t)' = Foreseen(t)
        BY <1>2, <2>2, <3>2, <3>3, <2>7, <2>8
      <3>5. Counts(t)'
        BY <1>2, <2>4, <2>5, <3>1 DEF Counts, Existing
      <3> QED BY <1>2, <1>3, <3>4, <3>5 DEF Goes
    <2>6. CASE ~(Counted(t, c) /\ rnode[c].entry > -1)
      <3>1. pc'[t] = "used" /\ cnt'[t] = c + 1
        <4>1. cnt[t] = c /\ c # NR
          BY <1>1, <1>5, <2>1, TableAssumption
        <4>2. /\ cnt' = [cnt EXCEPT ![t] = @ + 1]
              /\ pc' = pc
          BY <1>2, <2>6, <4>1 DEF UsedNode
        <4> QED BY <1>2, <4>1, <4>2 DEF CountInv, KeptInv, BaseInv, TypeInv, TypeOK
      <3>2. LH[c] = 0
        <4>1. rnode[c].entry = -1 \/ rnode[c].entry > -1
          BY <2>1, LinkType DEF CountInv, KeptInv, BaseInv, TypeInv, Slots
        <4> QED BY <1>1, <2>1, <2>4, <2>6, <4>1 DEF LiveHeads, HeadBytes
      <3>3. Foreseen(t)' = a + Total((c + 1)..(NR - 1), LH)
        BY <1>2, <3>1 DEF Foreseen
      <3>6. Foreseen(t)' = Foreseen(t)
        BY <1>2, <2>2, <3>2, <3>3, <2>7
      <3>7. a <= Total(0..c, H) /\ (c + 1) - 1 = c
        BY <1>2, <2>1, <2>2, <2>7, <2>8
      <3>8. Counts(t)'
        <4>1. Total(0..((c + 1) - 1), H) = Total(0..c, H)
          BY <3>7
        <4> QED BY <1>2, <3>1, <3>7, <4>1 DEF Counts
      <3> QED BY <1>2, <1>3, <3>6, <3>8 DEF Goes
    <2> QED BY <2>5, <2>6
  <1> QED BY <1>2, <1>4, <1>5, TableAssumption

LEMMA NoWrap == \A x \in Nat : x < SizeMod => x % SizeMod = x
  BY DataAssumption

(* The bytes of the record in hand; a trapped thread stays trapped.        *)
LEMMA GoesUsedSum ==
  ASSUME CountInv, KeptInv', NEW t \in Threads, UsedSum(t), Scans(t) => Fits(t),
         Heads' = Heads, LiveHeads' = LiveHeads
  PROVE  Counts(t)' /\ Goes(t)
  <1>1. PICK c, a, H, LH : c = cnt[t] /\ a = acc[t] /\ H = Heads /\ LH = LiveHeads
    OBVIOUS
  <1>2. /\ H \in [Nodes -> Bytes] /\ LH \in [Nodes -> Bytes] /\ Heads' = H /\ LiveHeads' = LH
    BY <1>1, HeadsType DEF CountInv, KeptInv, BaseInv
  <1>3. /\ c \in 0..NG /\ c < NR /\ a \in Nat /\ pc[t] = "sum" /\ cur[t] # -1
        /\ rnode' = rnode /\ gmem' = gmem
    BY <1>1, TableAssumption
    DEF UsedSum, shm, CountInv, KeptInv, BaseInv, TypeInv, TypeOK, Indices, Bytes
  <1>4. c \in Nodes /\ c \in Slots /\ c \in Nat
    BY <1>3, TableAssumption DEF Nodes, Slots
  <1>5. Due(t) = 0
    BY <1>3 DEF Due, Recording
  <1>6. CASE gmem[c].next > -1
    <2>1. pc'[t] = "sum" /\ cnt'[t] = c
      BY <1>1, <1>3, <1>6 DEF UsedSum
    <2>2. ~Scans(t)' /\ Due(t)' = 0 /\ Counts(t)'
      BY <1>3, <1>6, <2>1 DEF Scans, Trapped, Due, Recording, Counts
    <2> QED BY <2>2 DEF Goes
  <1>7. CASE ~(gmem[c].next > -1)
    <2>1. Scans(t)
      BY <1>1, <1>3, <1>7 DEF Scans, Scanning, Trapped
    <2>2. /\ a <= Total(0..(c - 1), H) /\ Existing(c) /\ cur[t] = rnode[c].entry
          /\ a + H[c] < SizeMod
      BY <1>1, <1>3, <2>1 DEF CountInv, Counts, Fits
    <2>3. H[c] = gmem[cur[t]].bytes
      BY <1>1, <1>3, <1>4, <2>2 DEF Heads, HeadBytes
    <2>4. H[c] \in Nat
      <3>1. H[c] \in Bytes
        BY <1>2, <1>4
      <3> QED BY <3>1 DEF Bytes
    <2>5. (a + H[c]) % SizeMod = a + H[c]
      <3>1. a + H[c] \in Nat
        BY <1>3, <2>4
      <3> QED BY <2>2, <3>1, NoWrap
    <2>6. pc'[t] = "used" /\ cnt'[t] = c + 1 /\ acc'[t] = a + H[c]
      <3>1. /\ acc' = [acc EXCEPT ![t] = (@ + gmem[cur[t]].bytes) % SizeMod]
            /\ pc' = [pc EXCEPT ![t] = "used"]
            /\ cnt' = [cnt EXCEPT ![t] = @ + 1]
        BY <1>1, <1>7 DEF UsedSum, Goto
      <3>2. acc'[t] = (a + gmem[cur[t]].bytes) % SizeMod /\ pc'[t] = "used" /\ cnt'[t] = c + 1
        BY <1>1, <3>1 DEF CountInv, KeptInv, BaseInv, TypeInv, TypeOK
      <3> QED BY <2>3, <2>5, <3>2
    <2>7. Total((c + 1)..(NR - 1), LH) \in Nat /\ Total(0..(c - 1), H) \in Nat
      <3>1. (c + 1)..(NR - 1) \subseteq Nodes /\ 0..(c - 1) \subseteq Nodes
        BY <1>3, <1>4, TableAssumption DEF Nodes
      <3> QED BY <3>1, TotalType
    <2>8. Foreseen(t)' = Foreseen(t)
      <3>1. Foreseen(t) = a + H[c] + Total((c + 1)..(NR - 1), LH)
        BY <1>1, <1>3 DEF Foreseen
      <3>2. Foreseen(t)' = a + H[c] + Total((c + 1)..(NR - 1), LH)
        BY <1>2, <2>6 DEF Foreseen
      <3> QED BY <3>1, <3>2
    <2>9. a + H[c] <= Total(0..c, H)
      <3>1. Total(0..c, H) = Total(0..(c - 1), H) + H[c]
        BY <1>2, <1>4, TotalFrom
      <3> QED BY <1>3, <2>2, <2>4, <2>7, <3>1
    <2>10. Counts(t)'
      <3>1. (c + 1) - 1 = c
        BY <1>4
      <3>2. Total(0..((c + 1) - 1), H) = Total(0..c, H)
        BY <3>1
      <3> QED BY <1>2, <2>6, <2>9, <3>2 DEF Counts
    <2>11. Due(t)' = 0
      BY <2>6 DEF Due, Recording
    <2> QED BY <1>5, <2>1, <2>8, <2>10, <2>11 DEF Goes
  <1> QED BY <1>6, <1>7

(* The check against the limit: used does not wrap around.                 *)
LEMMA GoesCheckLimit ==
  ASSUME CountInv, KeptInv', NEW t \in Threads, CheckLimit(t), Scans(t) => Fits(t)
  PROVE  Counts(t)' /\ Goes(t)
  <1>1. /\ pc[t] = "check" /\ acc[t] \in Nat /\ arg[t].bytes \in Sizes /\ arg[t].bytes \in Nat
    <2>1. pc[t] = "check"
      BY DEF CheckLimit
    <2>2. acc[t] \in Nat
      BY DEF CountInv, KeptInv, BaseInv, TypeInv, TypeOK, Bytes
    <2>3. arg[t].bytes \in Sizes
      BY <2>1 DEF CountInv, SizesKept
    <2>4. arg[t].bytes \in 1..(SizeMod - 1)
      BY <2>3, DataAssumption
    <2> QED BY <2>1, <2>2, <2>3, <2>4
  <1>2. Scans(t)
    BY <1>1 DEF Scans, Scanning, Trapped
  <1>3. CASE Exceeds(t)
    <2>1. Return(t)
      BY <1>3 DEF CheckLimit
    <2>2. pc'[t] = "idle" /\ acc'[t] = 0
      BY <2>1 DEF Return, Goto, DropRegs, CountInv, KeptInv, BaseInv, TypeInv, TypeOK
    <2>3. ~Scans(t)' /\ Due(t)' = 0
      BY <2>2 DEF Scans, Scanning, Due, Recording
    <2>4. Counts(t)'
      BY <2>2, CountsElsewhere DEF Scanning
    <2> QED BY <2>3, <2>4 DEF Goes
  <1>4. CASE ~Exceeds(t)
    <2>1. pc'[t] = "driver" /\ arg' = arg
      BY <1>4 DEF CheckLimit, Goto, regs, CountInv, KeptInv, BaseInv, TypeInv, TypeOK
    <2>2. acc[t] + arg[t].bytes <= Limit
      <3>1. (acc[t] + arg[t].bytes) % SizeMod = acc[t] + arg[t].bytes
        BY <1>1, <1>2, NoWrap DEF Fits
      <3>2. Limit \in Int
        BY CallAssumption DEF Bytes
      <3>3. ~(acc[t] + arg[t].bytes > Limit)
        BY <1>4, <3>1 DEF Exceeds
      <3> QED BY <1>1, <3>2, <3>3
    <2>3. Foreseen(t) = acc[t]
      BY <1>1 DEF Foreseen
    <2>4. ~Scans(t)' /\ Due(t)' = arg[t].bytes
      BY <2>1 DEF Scans, Scanning, Due
    <2>5. Counts(t)'
      BY <2>1, CountsElsewhere DEF Scanning
    <2> QED BY <1>1, <1>2, <2>2, <2>3, <2>4, <2>5 DEF Goes
  <1> QED BY <1>3, <1>4

(* A call starts to count.                                                 *)
LEMMA GoesStart ==
  ASSUME CountInv, KeptInv', "pitch" \notin AllocKinds,
         NEW t \in Threads, NEW k \in AllocKinds, NEW h \in Handles, NEW b \in Sizes,
         StartAlloc(t, k, h, b), Heads' = Heads, LiveHeads' = LiveHeads
  PROVE  Counts(t)' /\ Goes(t)
  <1>1. pc[t] = "idle" /\ pc'[t] = "used" /\ cnt'[t] = cnt[t] /\ acc'[t] = acc[t]
    BY DEF StartAlloc, Goto, CountInv, KeptInv, BaseInv, TypeInv, TypeOK
  <1>2. cnt[t] = 0 /\ acc[t] = 0
    BY <1>1 DEF CountInv, Counts, KeptInv, BaseInv, TypeInv, Indices
  <1>3. 0..(NR - 1) = Nodes /\ 0..(0 - 1) = {}
    BY DEF Nodes
  <1>4. Usage \in Nat /\ 0 <= Total({}, Heads)
    BY TotalType, TotalEmpty DEF Usage
  <1>5. Foreseen(t)' = 0 + Total(Nodes, LiveHeads)
    <2>1. cnt'[t] = 0 /\ acc'[t] = 0
      BY <1>1, <1>2
    <2> QED BY <1>1, <1>3, <2>1 DEF Foreseen
  <1>6. Foreseen(t)' = Usage
    BY <1>4, <1>5 DEF Usage
  <1>7. Due(t)' = 0
    BY <1>1 DEF Due, Recording
  <1>8. Counts(t)'
    <2>1. cnt'[t] = 0 /\ acc'[t] = 0
      BY <1>1, <1>2
    <2>2. acc'[t] <= Total(0..(cnt'[t] - 1), Heads')
      BY <1>3, <1>4, <2>1
    <2> QED BY <1>1, <2>2 DEF Counts
  <1>9. pc[t] \notin Scanning
    BY <1>1 DEF Scanning
  <1> QED BY <1>6, <1>7, <1>8, <1>9 DEF Goes

(***************************************************************************)
(* The steps                                                               *)
(***************************************************************************)
(* What every step of the code by thread t leaves alone.                   *)
Moves(t) ==
  /\ alive' = alive
  /\ \A u \in Threads : u # t => Rests(u)
  /\ pc'[t] # "dead"
  /\ \/ pc'[t] = "idle" /\ acc'[t] = 0
     \/ pc'[t] # "idle" /\ arg'[t].bytes = arg[t].bytes
  /\ pc[t] \notin Scanning =>
       /\ pc'[t] \notin Scanning
       /\ pc'[t] \in Recording \cup {"driver"} => pc[t] \in Recording \cup {"driver"}

LEMMA CodeMoves ==
  ASSUME KeptInv, NEW t \in Threads, InCode(t), ~Segfault(t)
  PROVE  Moves(t)
  <1>1. TypeOK /\ NoFrees
    BY DEF KeptInv, BaseInv, TypeInv
  <1> USE DEF TypeOK, Moves, Rests, Still, Goto, Begin, Scanning, Recording
  <1>2. CASE UsedNode(t)
    BY <1>1, <1>2 DEF UsedNode, host
  <1>3. CASE UsedSum(t)
    BY <1>1, <1>3 DEF UsedSum, host
  <1>4. CASE CheckLimit(t)
    BY <1>1, <1>4 DEF CheckLimit, Return, DropRegs, host, regs
  <1>5. CASE FindRnode(t)
    BY <1>1, <1>5 DEF FindRnode, NoFrees, host
  <1>6. CASE InsertProbe(t) \/ InsertAssign(t)
    BY <1>1, <1>6 DEF InsertProbe, InsertAssign, host
  <1>7. CASE ReadEntry(t)
    BY <1>1, <1>7 DEF ReadEntry, NoFrees, host
  <1>8. CASE FindGmem(t)
    BY <1>1, <1>8 DEF FindGmem, host
  <1>9. CASE PushProbe(t) \/ PushClaim(t)
    BY <1>1, <1>9 DEF PushProbe, PushClaim, host
  <1>10. CASE LinkEntry(t)
    BY <1>1, <1>10 DEF LinkEntry, host
  <1>11. CASE SetEntry(t) \/ LinkTail(t)
    BY <1>1, <1>11 DEF SetEntry, LinkTail, Return, DropRegs, host
  <1>12. CASE LastRec(t)
    BY <1>1, <1>12 DEF LastRec, Return, DropRegs, host, regs
  <1>13. ASSUME NEW d \in Dptrs, DriverAlloc(t, d) PROVE Moves(t)
    BY <1>1, <1>13 DEF DriverAlloc, Args
  <1>14. CASE DriverAllocFails(t)
    BY <1>1, <1>14 DEF DriverAllocFails, Return, DropRegs, host
  <1>15. ~ResetRecord(t)
    BY DEF ResetRecord, KeptInv, NeverReregisters
  <1>16. ~(RemoveVisit(t) \/ RemoveBypass(t) \/ RemoveDelete(t) \/ DriverFree(t) \/ DriverFreeFails(t))
    BY <1>1 DEF NoFrees, Freeing, RemoveVisit, RemoveBypass, RemoveDelete,
           DriverFree, DriverFreeFails
  <1> HIDE DEF TypeOK, Moves, Rests, Still, Goto, Begin, Scanning, Recording
  <1> QED BY <1>2, <1>3, <1>4, <1>5, <1>6, <1>7, <1>8, <1>9, <1>10, <1>11, <1>12,
             <1>13, <1>14, <1>15, <1>16 DEF InCode

(* A step writes no entry, except the one of link_rnode_gmem.              *)
LEMMA EntriesStay ==
  ASSUME KeptInv, NEW t \in Threads, InCode(t), ~SetEntry(t)
  PROVE  \A n \in Nodes : Existing(n) => rnode'[n].entry = rnode[n].entry
  <1>1. CASE InsertAssign(t)
    <2>1. PICK s : s = Hash(Me(t), cnt[t])
      OBVIOUS
    <2>2. ~Existing(s) /\ \A n \in Nodes : n # s => rnode'[n] = rnode[n]
      BY <1>1, <2>1
      DEF InsertAssign, KeptInv, BaseInv, TypeInv, TypeOK, Chained, Held
    <2> QED BY <2>2
  <1>2. CASE ~InsertAssign(t)
    <2>1. rnode' = rnode
      BY <1>2
      DEF InCode, UsedNode, UsedSum, FindRnode, InsertProbe, ReadEntry, FindGmem, ResetRecord,
          PushProbe, PushClaim, LinkEntry, LastRec, LinkTail, RemoveVisit, RemoveBypass,
          RemoveDelete, CheckLimit, DriverAlloc, DriverAllocFails, DriverFree,
          DriverFreeFails, Segfault, Die, shm
    <2> QED BY <2>1
  <1> QED BY <1>1, <1>2

(* How a step changes what is counted: nothing new is counted; thread t    *)
(* gives its node a first record; a process ends.                          *)
Quietly(t) ==
  /\ Usage' = Usage
  /\ Goes(t)
  /\ \A u \in Threads : u # t => Same(u)
Adopts(t) ==
  /\ t \in Active
  /\ Usage <= Usage' /\ Usage' <= Usage + Due(t)
  /\ Due(t)' = 0 /\ ~Scans(t)'
  /\ \A u \in Threads : u # t =>
       Due(u)' = Due(u) /\ (Scans(u)' => Scans(u) /\ Foreseen(u) <= Foreseen(u)')
Ends ==
  /\ Usage' <= Usage
  /\ \A u \in Threads :
       \/ Due(u)' = 0 /\ ~Scans(u)'
       \/ /\ Due(u)' = Due(u)
          /\ Scans(u)' =>
               /\ Scans(u) /\ Foreseen(u)' <= Foreseen(u)
               /\ Foreseen(u) - Foreseen(u)' <= Usage - Usage'

LEMMA QuietCode ==
  ASSUME SeesAll, CountInv, KeptInv', Grows, \A u \in Threads : Scans(u) => Fits(u),
         NEW t \in Threads, InCode(t), ~SetEntry(t), ~Segfault(t)
  PROVE  (\A u \in Threads : Counts(u)') /\ Quietly(t)
  <1>1. KeptInv /\ Moves(t)
    BY CodeMoves DEF CountInv
  <1>2. Heads' = Heads /\ LiveHeads' = LiveHeads
    BY <1>1, EntriesStay, QuietHeads DEF Moves
  <1>3. \A u \in Threads : u # t => Counts(u)' /\ Same(u)
    BY <1>1, <1>2, CountsRests, SameRests DEF Moves
  <1>4. Usage' = Usage
    BY <1>2 DEF Usage, Total, Cells
  <1>5. CASE pc[t] \in Scanning
    <2>1. UsedNode(t) \/ UsedSum(t) \/ CheckLimit(t)
      BY <1>5
      DEF Scanning, InCode, UsedNode, UsedSum, FindRnode, InsertProbe, InsertAssign, ReadEntry,
          FindGmem, ResetRecord, PushProbe, PushClaim, LinkEntry, LastRec, LinkTail,
          RemoveVisit, RemoveBypass, RemoveDelete, CheckLimit, DriverAlloc,
          DriverAllocFails, DriverFree, DriverFreeFails
    <2>2. Counts(t)' /\ Goes(t)
      BY <1>2, <2>1, GoesUsedNode, GoesUsedSum, GoesCheckLimit
    <2> QED BY <1>3, <1>4, <2>2 DEF Quietly
  <1>6. CASE pc[t] \notin Scanning
    <2>1. pc'[t] \notin Scanning /\ Counts(t)'
      BY <1>1, <1>6, CountsElsewhere DEF Moves
    <2>2. Due(t)' \in {0, Due(t)}
      BY <1>1, <1>6 DEF Moves, Due, Recording
    <2>3. ~Scans(t)'
      BY <2>1 DEF Scans
    <2> QED BY <1>3, <1>4, <2>1, <2>2, <2>3 DEF Quietly, Goes
  <1> QED BY <1>5, <1>6

LEMMA QuietStart ==
  ASSUME CountInv, KeptInv', Grows, "pitch" \notin AllocKinds,
         NEW t \in Threads, NEW k \in AllocKinds, NEW h \in Handles, NEW b \in Sizes,
         StartAlloc(t, k, h, b)
  PROVE  (\A u \in Threads : Counts(u)') /\ Quietly(t)
  <1>1. rnode' = rnode /\ alive' = alive
    BY DEF StartAlloc, shm, host
  <1>2. Heads' = Heads /\ LiveHeads' = LiveHeads
    BY <1>1, QuietHeads DEF CountInv
  <1>3. \A u \in Threads : u # t => Rests(u)
    BY DEF StartAlloc, Goto, Rests, Still, CountInv, KeptInv, BaseInv, TypeInv, TypeOK
  <1>4. \A u \in Threads : u # t => Counts(u)' /\ Same(u)
    BY <1>2, <1>3, CountsRests, SameRests
  <1>5. Counts(t)' /\ Goes(t)
    BY <1>2, GoesStart
  <1>6. Usage' = Usage
    BY <1>2 DEF Usage, Total, Cells
  <1> QED BY <1>4, <1>5, <1>6 DEF Quietly

(* What other threads foresee grows with the heads.                        *)
LEMMA ForeseenGrows ==
  ASSUME CountInv, KeptInv', Grows, \A n \in Nodes : LiveHeads[n] <= LiveHeads'[n],
         NEW u \in Threads, Rests(u)
  PROVE  Due(u)' = Due(u) /\ (Scans(u)' => Scans(u) /\ Foreseen(u) <= Foreseen(u)')
  <1>1. Due(u)' = Due(u)
    BY DEF Due, Rests, Still
  <1>2. Scans(u)' => Scans(u)
    BY TrapStays DEF Scans, Trapped, Rests, Still, CountInv
  <1>3. PICK c, a, H, LH : c = cnt[u] /\ a = acc[u] /\ H = Heads /\ LH = LiveHeads
    OBVIOUS
  <1>4. PICK I, M : I = Heads' /\ M = LiveHeads'
    OBVIOUS
  <1>5. cnt'[u] = c /\ acc'[u] = a /\ pc'[u] = pc[u]
    BY <1>3 DEF Rests, Still
  <1>6. /\ H \in [Nodes -> Bytes] /\ LH \in [Nodes -> Bytes]
        /\ I \in [Nodes -> Bytes] /\ M \in [Nodes -> Bytes]
        /\ \A n \in Nodes : H[n] <= I[n] /\ LH[n] <= M[n]
    BY <1>3, <1>4, HeadsType, HeadsTypeAfter, HeadsGrow DEF CountInv, KeptInv, BaseInv
  <1>7. a \in Nat /\ c \in Nat /\ (pc[u] = "sum" => c < NR)
    BY <1>3, TableAssumption DEF CountInv, KeptInv, BaseInv, TypeInv, TypeOK, Indices, Bytes
  <1>8. ASSUME NEW S, S \subseteq Nodes
        PROVE  Total(S, LH) \in Nat /\ Total(S, M) \in Nat /\ Total(S, LH) <= Total(S, M)
    <2>1. S \in SUBSET Nodes /\ \A n \in S : LH[n] <= M[n]
      BY <1>6, <1>8
    <2> QED BY <1>6, <2>1, TotalType, TotalGrows
  <1>9. c..(NR - 1) \subseteq Nodes /\ (c + 1)..(NR - 1) \subseteq Nodes
    BY <1>7, TableAssumption DEF Nodes
  <1>10. CASE pc[u] = "used"
    <2>1. Foreseen(u) = a + Total(c..(NR - 1), LH)
      BY <1>3, <1>10 DEF Foreseen
    <2>2. Foreseen(u)' = a + Total(c..(NR - 1), M)
      BY <1>4, <1>5, <1>10 DEF Foreseen
    <2>3. /\ Total(c..(NR - 1), LH) \in Nat /\ Total(c..(NR - 1), M) \in Nat
          /\ Total(c..(NR - 1), LH) <= Total(c..(NR - 1), M)
      BY <1>8, <1>9
    <2>4. Foreseen(u) <= Foreseen(u)'
      BY <1>7, <2>1, <2>2, <2>3
    <2> QED BY <1>1, <1>2, <2>4
  <1>11. CASE pc[u] = "sum"
    <2>1. Foreseen(u) = a + H[c] + Total((c + 1)..(NR - 1), LH)
      BY <1>3, <1>11 DEF Foreseen
    <2>2. Foreseen(u)' = a + I[c] + Total((c + 1)..(NR - 1), M)
      BY <1>4, <1>5, <1>11 DEF Foreseen
    <2>3. /\ Total((c + 1)..(NR - 1), LH) \in Nat /\ Total((c + 1)..(NR - 1), M) \in Nat
          /\ Total((c + 1)..(NR - 1), LH) <= Total((c + 1)..(NR - 1), M)
      BY <1>8, <1>9
    <2>4. H[c] \in Nat /\ I[c] \in Nat /\ H[c] <= I[c]
      <3>1. c \in Nodes
        BY <1>7, <1>11, TableAssumption DEF Nodes
      <3>2. H[c] \in Bytes /\ I[c] \in Bytes
        BY <1>6, <3>1
      <3> QED BY <1>6, <3>1, <3>2 DEF Bytes
    <2>5. Foreseen(u) <= Foreseen(u)'
      BY <1>7, <2>1, <2>2, <2>3, <2>4
    <2> QED BY <1>1, <1>2, <2>5
  <1>12. CASE pc[u] \notin {"used", "sum"}
    <2>1. Foreseen(u) = a /\ Foreseen(u)' = a
      BY <1>3, <1>5, <1>12 DEF Foreseen
    <2> QED BY <1>1, <1>2, <1>7, <2>1
  <1> QED BY <1>10, <1>11, <1>12

(* The node of thread t begins to count its first record.                  *)
LEMMA AdoptSetEntry ==
  ASSUME CountInv, KeptInv', Grows, NEW t \in Threads, SetEntry(t)
  PROVE  (\A u \in Threads : Counts(u)') /\ Adopts(t)
  <1>1. KeptInv /\ InCode(t) /\ ~Segfault(t) /\ pc[t] = "adopt"
    BY DEF CountInv, InCode, SetEntry, Segfault, Faults
  <1>2. Moves(t)
    BY <1>1, CodeMoves
  <1>3. PICK m \in Nodes : m = node[t] /\ Existing(m) /\ rnode[m].key = Me(t) /\ rnode[m].entry = -1
    BY <1>1 DEF KeptInv, Chained, Held, Registering, HasNode
  <1>4. PICK g, b, H, LH : g = cur[t] /\ b = arg[t].bytes /\ H = Heads /\ LH = LiveHeads
    OBVIOUS
  <1>5. PICK I, M : I = Heads' /\ M = LiveHeads'
    OBVIOUS
  <1>6. /\ LH \in [Nodes -> Bytes] /\ M \in [Nodes -> Bytes]
    BY <1>1, <1>4, <1>5, HeadsType, HeadsTypeAfter DEF KeptInv, BaseInv
  <1>7. /\ gmem' = gmem /\ rnode'[m].stat = rnode[m].stat /\ rnode'[m].key = rnode[m].key
        /\ rnode'[m].entry = g
        /\ \A n \in Nodes : n # m => rnode'[n] = rnode[n]
        /\ alive' = alive /\ pc'[t] = "idle"
    <2>1. rnode \in [Nodes -> RNodes] /\ pc \in [Threads -> Labels]
      BY <1>1 DEF KeptInv, BaseInv, TypeInv, TypeOK
    <2>2. rnode' = [rnode EXCEPT ![m].entry = g] /\ gmem' = gmem /\ alive' = alive
      BY <1>3, <1>4 DEF SetEntry, host
    <2>3. pc'[t] = "idle"
      BY <2>1 DEF SetEntry, Return, Goto
    <2> QED BY <1>3, <2>1, <2>2, <2>3 DEF RNodes
  <1>8. alive[Me(t)]
    BY <1>1, CallerLives DEF KeptInv, BaseInv
  <1>9. LH[m] = 0
    BY <1>3, <1>4 DEF LiveHeads, HeadBytes
  <1>10. M[m] \in {0, b}
    <2>1. M[m] = IF g = -1 THEN 0 ELSE gmem[g].bytes
      BY <1>3, <1>5, <1>7, <1>8 DEF LiveHeads, HeadBytes, Existing
    <2>2. g = -1 \/ gmem[g].bytes = b
      BY <1>1, <1>4 DEF KeptInv, Chained, Held, Linking, InHand
    <2> QED BY <2>1, <2>2
  <1>11. \A n \in Nodes : n # m => LH[n] = M[n]
    BY <1>4, <1>5, <1>7 DEF LiveHeads, HeadBytes, Existing
  <1>12. b \in Nat /\ M[m] \in Nat
    <2>1. b \in Sizes
      BY <1>1, <1>4 DEF CountInv, SizesKept
    <2>2. b \in 1..(SizeMod - 1)
      BY <2>1, DataAssumption
    <2> QED BY <1>10, <2>2
  <1>13. Total(Nodes, M) = Total(Nodes, LH) + M[m]
    <2>1. Nodes \in SUBSET Nodes
      OBVIOUS
    <2> QED BY <1>3, <1>6, <1>9, <1>11, <2>1, TotalBump
  <1>14. Usage = Total(Nodes, LH) /\ Usage' = Total(Nodes, M) /\ Usage \in Nat
    BY <1>4, <1>5, TotalType DEF Usage, Total, Cells
  <1>15. Due(t) = b /\ Due(t)' = 0 /\ ~Scans(t)'
    BY <1>1, <1>4, <1>7 DEF Due, Recording, Scans, Scanning
  <1>16. Usage <= Usage' /\ Usage' <= Usage + Due(t)
    BY <1>10, <1>12, <1>13, <1>14, <1>15
  <1>17. \A n \in Nodes : LiveHeads[n] <= LiveHeads'[n]
    <2>1. \A n \in Nodes : LH[n] \in Int /\ M[n] \in Int
      BY <1>6 DEF Bytes
    <2>2. \A n \in Nodes : LH[n] <= M[n]
      BY <1>9, <1>11, <1>12, <2>1
    <2> QED BY <1>4, <1>5, <2>2
  <1>18. \A u \in Threads : u # t => Counts(u)' /\ Due(u)' = Due(u)
                              /\ (Scans(u)' => Scans(u) /\ Foreseen(u) <= Foreseen(u)')
    BY <1>2, <1>17, CountsRests, ForeseenGrows DEF Moves
  <1>19. Counts(t)'
    BY <1>2, <1>7, CountsElsewhere DEF Moves, Scanning
  <1>20. t \in Active
    BY <1>1 DEF Active
  <1> QED BY <1>15, <1>16, <1>18, <1>19, <1>20 DEF Adopts

(* A process that ends is no longer counted.                               *)
LEMMA DieEnds ==
  ASSUME CountInv, KeptInv', Grows, NEW p \in Procs, Die(p)
  PROVE  (\A u \in Threads : Counts(u)') /\ Ends
  <1>1. PICK H, LH : H = Heads /\ LH = LiveHeads
    OBVIOUS
  <1>2. PICK M : M = LiveHeads'
    OBVIOUS
  <1>3. rnode' = rnode /\ gmem' = gmem /\ alive' = [alive EXCEPT ![p] = FALSE]
    BY DEF Die, shm
  <1>4. /\ H \in [Nodes -> Bytes] /\ LH \in [Nodes -> Bytes] /\ M \in [Nodes -> Bytes]
    BY <1>1, <1>2, HeadsType, HeadsTypeAfter DEF CountInv, KeptInv, BaseInv
  <1>5. Heads' = H
    BY <1>1, <1>3 DEF Heads, HeadBytes, Existing
  <1>6. \A n \in Nodes : M[n] <= LH[n]
    <2>1. ASSUME NEW n \in Nodes PROVE M[n] = LH[n] \/ M[n] = 0
      <3>1. Existing(n) => rnode[n].key \in Procs
        BY DEF CountInv, KeptInv, BaseInv, NodeInv
      <3>2. Existing(n) /\ rnode[n].key # p => alive'[rnode[n].key] = alive[rnode[n].key]
        BY <1>3, <3>1 DEF CountInv, KeptInv, BaseInv, TypeInv, TypeOK
      <3>3. Existing(n) /\ rnode[n].key = p => ~alive'[rnode[n].key]
        BY <1>3 DEF CountInv, KeptInv, BaseInv, TypeInv, TypeOK
      <3> QED BY <1>1, <1>2, <1>3, <3>2, <3>3 DEF LiveHeads, HeadBytes, Existing
    <2>2. \A n \in Nodes : M[n] \in Nat /\ LH[n] \in Nat
      BY <1>4 DEF Bytes
    <2> QED BY <2>1, <2>2
  <1>7. Usage = Total(Nodes, LH) /\ Usage' = Total(Nodes, M)
    BY <1>1, <1>2 DEF Usage, Total, Cells
  <1>8. Usage' <= Usage /\ Usage \in Nat /\ Usage' \in Nat
    <2>1. Nodes \in SUBSET Nodes
      OBVIOUS
    <2> QED BY <1>4, <1>6, <1>7, <2>1, TotalDrops, TotalType
  <1>9. ASSUME NEW u \in Threads, Me(u) = p
        PROVE  Counts(u)' /\ Due(u)' = 0 /\ ~Scans(u)'
    <2>1. pc'[u] = "dead" /\ acc'[u] = 0
      BY <1>9 DEF Die, DropRegs
    <2> QED BY <2>1, CountsElsewhere DEF Due, Recording, Scans, Scanning
  <1>10. ASSUME NEW u \in Threads, Me(u) # p PROVE Rests(u)
    BY <1>10 DEF Die, DropRegs, Rests, Still
  <1>11. ASSUME NEW u \in Threads, Me(u) # p
         PROVE  /\ Counts(u)' /\ Due(u)' = Due(u)
                /\ Scans(u)' =>
                     /\ Scans(u) /\ Foreseen(u)' <= Foreseen(u)
                     /\ Foreseen(u) - Foreseen(u)' <= Usage - Usage'
    <2>1. Counts(u)' /\ Due(u)' = Due(u)
      BY <1>10, <1>11, CountsRests DEF Due, Rests, Still
    <2>2. Scans(u)' => Scans(u)
      BY <1>10, <1>11, TrapStays DEF Scans, Trapped, Rests, Still, CountInv
    <2>3. PICK c, a : c = cnt[u] /\ a = acc[u]
      OBVIOUS
    <2>4. cnt'[u] = c /\ acc'[u] = a /\ pc'[u] = pc[u]
      BY <1>10, <1>11, <2>3 DEF Rests, Still
    <2>5. a \in Nat /\ c \in Nat /\ (pc[u] = "sum" => c < NR)
      BY <2>3, TableAssumption DEF CountInv, KeptInv, BaseInv, TypeInv, TypeOK, Indices, Bytes
    <2>6. ASSUME NEW S, S \subseteq Nodes
          PROVE  /\ Total(S, LH) \in Nat /\ Total(S, M) \in Nat /\ Total(S, M) <= Total(S, LH)
                 /\ Total(S, LH) - Total(S, M) <= Usage - Usage'
      <3>1. S \in SUBSET Nodes /\ \A n \in S : M[n] <= LH[n]
        BY <1>6, <2>6
      <3>2. Total(S, LH) \in Nat /\ Total(S, M) \in Nat /\ Total(S, M) <= Total(S, LH)
        BY <1>4, <3>1, TotalType, TotalGrows
      <3>3. Total(Nodes, M) - Total(S, M) <= Total(Nodes, LH) - Total(S, LH)
        BY <1>4, <1>6, <3>1, TotalDrops
      <3> QED BY <1>7, <1>8, <3>2, <3>3
    <2>7. c..(NR - 1) \subseteq Nodes /\ (c + 1)..(NR - 1) \subseteq Nodes
      BY <2>5, TableAssumption DEF Nodes
    <2>8. CASE pc[u] = "used"
      <3>1. Foreseen(u) = a + Total(c..(NR - 1), LH)
        BY <1>1, <2>3, <2>8 DEF Foreseen
      <3>2. Foreseen(u)' = a + Total(c..(NR - 1), M)
        BY <1>2, <2>4, <2>8 DEF Foreseen
      <3>3. PICK x, y : x = Total(c..(NR - 1), LH) /\ y = Total(c..(NR - 1), M)
        OBVIOUS
      <3>4. x \in Nat /\ y \in Nat /\ y <= x /\ x - y <= Usage - Usage'
        BY <2>6, <2>7, <3>3
      <3> QED BY <1>8, <2>1, <2>2, <2>5, <3>1, <3>2, <3>3, <3>4
    <2>9. CASE pc[u] = "sum"
      <3>1. Foreseen(u) = a + H[c] + Total((c + 1)..(NR - 1), LH)
        BY <1>1, <2>3, <2>9 DEF Foreseen
      <3>2. Foreseen(u)' = a + H[c] + Total((c + 1)..(NR - 1), M)
        BY <1>2, <1>5, <2>4, <2>9 DEF Foreseen
      <3>3. PICK x, y : x = Total((c + 1)..(NR - 1), LH) /\ y = Total((c + 1)..(NR - 1), M)
        OBVIOUS
      <3>4. x \in Nat /\ y \in Nat /\ y <= x /\ x - y <= Usage - Usage'
        BY <2>6, <2>7, <3>3
      <3>5. H[c] \in Nat
        <4>1. c \in Nodes
          BY <2>5, <2>9, TableAssumption DEF Nodes
        <4>2. H[c] \in Bytes
          BY <1>4, <4>1
        <4> QED BY <4>2 DEF Bytes
      <3> QED BY <1>8, <2>1, <2>2, <2>5, <3>1, <3>2, <3>3, <3>4, <3>5
    <2>10. CASE pc[u] \notin {"used", "sum"}
      <3>1. Foreseen(u) = a /\ Foreseen(u)' = a
        BY <2>3, <2>4, <2>10 DEF Foreseen
      <3>2. Foreseen(u)' <= Foreseen(u) /\ Foreseen(u) - Foreseen(u)' = 0
        BY <2>5, <3>1
      <3>3. PICK x, y : x = Usage /\ y = Usage'
        OBVIOUS
      <3>4. x \in Nat /\ y \in Nat /\ y <= x
        BY <1>8, <3>3
      <3>5. 0 <= x - y
        BY <3>4
      <3> QED BY <2>1, <2>2, <3>2, <3>3, <3>5
    <2> QED BY <2>8, <2>9, <2>10
  <1> QED BY <1>8, <1>9, <1>11 DEF Ends

LEMMA ForeseenType ==
  ASSUME CountInv, NEW t \in Threads, Scans(t)
  PROVE  Foreseen(t) \in Nat /\ acc[t] <= Foreseen(t)
  <1>1. PICK c, a, H, LH : c = cnt[t] /\ a = acc[t] /\ H = Heads /\ LH = LiveHeads
    OBVIOUS
  <1>2. H \in [Nodes -> Bytes] /\ a \in Nat /\ c \in Nat /\ (pc[t] = "sum" => c < NR)
    BY <1>1, HeadsType, TableAssumption
    DEF CountInv, KeptInv, BaseInv, TypeInv, TypeOK, Indices, Bytes
  <1>3. c..(NR - 1) \subseteq Nodes /\ (c + 1)..(NR - 1) \subseteq Nodes
    BY <1>2, TableAssumption DEF Nodes
  <1>4. Total(c..(NR - 1), LH) \in Nat /\ Total((c + 1)..(NR - 1), LH) \in Nat
    BY <1>3, TotalType
  <1>5. CASE pc[t] = "used"
    <2>1. Foreseen(t) = a + Total(c..(NR - 1), LH)
      BY <1>1, <1>5 DEF Foreseen
    <2> QED BY <1>1, <1>2, <1>4, <2>1
  <1>6. CASE pc[t] = "sum"
    <2>1. Foreseen(t) = a + H[c] + Total((c + 1)..(NR - 1), LH)
      BY <1>1, <1>6 DEF Foreseen
    <2>2. H[c] \in Nat
      <3>1. c \in Nodes
        BY <1>2, <1>6, TableAssumption DEF Nodes
      <3>2. H[c] \in Bytes
        BY <1>2, <3>1
      <3> QED BY <3>2 DEF Bytes
    <2> QED BY <1>1, <1>2, <1>4, <2>1, <2>2
  <1>7. CASE pc[t] \notin {"used", "sum"}
    BY <1>1, <1>2, <1>7 DEF Foreseen
  <1> QED BY <1>5, <1>6, <1>7

LEMMA QuotaSame ==
  ASSUME CountInv, KeptInv', Grows, UNCHANGED vars
  PROVE  (\A u \in Threads : Counts(u)') /\ Ends
  <1>1. /\ rnode' = rnode /\ gmem' = gmem /\ alive' = alive
        /\ \A u \in Threads : Rests(u)
    BY DEF vars, shm, host, regs, Rests, Still
  <1>2. Heads' = Heads /\ LiveHeads' = LiveHeads
    BY <1>1, QuietHeads DEF CountInv
  <1>3. Usage' = Usage /\ Usage \in Nat
    BY <1>2, TotalType DEF Usage, Total, Cells
  <1>4. \A u \in Threads : Counts(u)' /\ Same(u)
    BY <1>1, <1>2, CountsRests, SameRests
  <1>5. \A n \in Nodes : LiveHeads[n] <= LiveHeads'[n]
    <2>1. \A n \in Nodes : LiveHeads[n] \in Int
      BY HeadsType DEF Bytes, CountInv, KeptInv, BaseInv
    <2> QED BY <1>2, <2>1
  <1>6. \A u \in Threads : Scans(u)' => Foreseen(u) <= Foreseen(u)'
    BY <1>1, <1>5, ForeseenGrows
  <1>7. ASSUME NEW u \in Threads, Scans(u)'
        PROVE  Foreseen(u)' <= Foreseen(u) /\ Foreseen(u) - Foreseen(u)' <= Usage - Usage'
    <2>1. Foreseen(u)' = Foreseen(u) /\ Foreseen(u) \in Int
      BY <1>4, <1>7, ForeseenType DEF Same
    <2> QED BY <1>3, <2>1
  <1>8. ASSUME NEW u \in Threads
        PROVE  /\ Due(u)' = Due(u)
               /\ Scans(u)' =>
                    /\ Scans(u) /\ Foreseen(u)' <= Foreseen(u)
                    /\ Foreseen(u) - Foreseen(u)' <= Usage - Usage'
    BY <1>4, <1>7 DEF Same
  <1> QED BY <1>3, <1>4, <1>8 DEF Ends

(* Every step of a workload in which the calls meet nowhere in add_gmem.   *)
LEMMA QuotaStep ==
  ASSUME SeesAll, "pitch" \notin AllocKinds, CountInv, KeptInv', [AloneNext]_vars,
         \A u \in Threads : Scans(u) => Fits(u)
  PROVE  /\ \A u \in Threads : Counts(u)'
         /\ (\E t \in Threads : Quietly(t) \/ Adopts(t)) \/ Ends
  <1>1. Grows
    BY AloneGrows DEF CountInv
  <1>2. CASE UNCHANGED vars
    BY <1>1, <1>2, QuotaSame
  <1>3. ASSUME NEW t \in Threads, InCode(t), ~Segfault(t)
        PROVE  (\A u \in Threads : Counts(u)') /\ (Quietly(t) \/ Adopts(t))
    BY <1>1, <1>3, QuietCode, AdoptSetEntry
  <1>4. ASSUME NEW t \in Threads, Segfault(t)
        PROVE  (\A u \in Threads : Counts(u)') /\ Ends
    BY <1>1, <1>4, MeType, DieEnds DEF Segfault
  <1>5. ASSUME NEW t \in Threads, NEW k \in AllocKinds, NEW h \in Handles, NEW b \in Sizes,
               StartAlloc(t, k, h, b)
        PROVE  (\A u \in Threads : Counts(u)') /\ Quietly(t)
    BY <1>1, <1>5, QuietStart
  <1>6. ASSUME NEW p \in Procs, Die(p)
        PROVE  (\A u \in Threads : Counts(u)') /\ Ends
    BY <1>1, <1>6, DieEnds
  <1> QED BY <1>2, <1>3, <1>4, <1>5, <1>6 DEF AloneNext, KeepNext, Keep

LEMMA SizesStep == CountInv /\ [AloneNext]_vars => SizesKept' /\ EmptyUnlinked'
  <1> SUFFICES ASSUME CountInv, [AloneNext]_vars PROVE SizesKept' /\ EmptyUnlinked'
    OBVIOUS
  <1>1. Grows
    BY AloneGrows DEF CountInv
  <1>2. ASSUME NEW g \in Slots, Empty(gmem'[g]) PROVE gmem'[g].next = -1
    BY <1>1, <1>2 DEF Grows, RecordsGrow, CountInv, EmptyUnlinked
  <1>3. ASSUME NEW g \in Slots, ~Empty(gmem'[g]) PROVE gmem'[g].bytes \in Sizes
    BY <1>1, <1>3 DEF Grows, RecordsGrow, CountInv, SizesKept
  <1>4. ASSUME NEW u \in Threads, pc'[u] \notin {"idle", "dead"} PROVE arg'[u].bytes \in Sizes
    <2>1. pc[u] \notin {"idle", "dead"} => arg[u].bytes \in Sizes
      BY DEF CountInv, SizesKept
    <2>2. CASE UNCHANGED vars
      BY <1>4, <2>1, <2>2 DEF vars, regs
    <2>3. ASSUME NEW t \in Threads, InCode(t), ~Segfault(t) PROVE arg'[u].bytes \in Sizes
      <3>1. Moves(t) /\ pc[t] \notin {"idle", "dead"}
        BY <2>3, CodeMoves
        DEF CountInv, InCode, UsedNode, UsedSum, FindRnode, InsertProbe, InsertAssign, ReadEntry,
            FindGmem, ResetRecord, PushProbe, PushClaim, LinkEntry, SetEntry, LastRec, LinkTail,
            RemoveVisit, RemoveBypass, RemoveDelete, CheckLimit, DriverAlloc,
            DriverAllocFails, DriverFree, DriverFreeFails
      <3>2. CASE u = t
        BY <1>4, <2>1, <3>1, <3>2 DEF Moves
      <3>3. CASE u # t
        BY <1>4, <2>1, <3>1, <3>3 DEF Moves, Rests, Still
      <3> QED BY <3>2, <3>3
    <2>4. ASSUME NEW t \in Threads, NEW k \in AllocKinds, NEW h \in Handles, NEW b \in Sizes,
                 StartAlloc(t, k, h, b)
          PROVE  arg'[u].bytes \in Sizes
      <3>1. arg \in [Threads -> Args] /\ pc \in [Threads -> Labels]
        BY DEF CountInv, KeptInv, BaseInv, TypeInv, TypeOK
      <3>2. CASE u = t
        BY <2>4, <3>1, <3>2 DEF StartAlloc
      <3>3. CASE u # t
        BY <1>4, <2>1, <2>4, <3>1, <3>3 DEF StartAlloc, Goto
      <3> QED BY <3>2, <3>3
    <2>5. ASSUME NEW p \in Procs, Die(p) PROVE arg'[u].bytes \in Sizes
      <3>1. Me(u) # p /\ pc'[u] = pc[u] /\ arg'[u] = arg[u]
        BY <1>4, <2>5 DEF Die, DropRegs
      <3> QED BY <1>4, <2>1, <3>1
    <2>6. ASSUME NEW t \in Threads, Segfault(t) PROVE arg'[u].bytes \in Sizes
      BY <2>5, <2>6, MeType DEF Segfault
    <2> QED BY <2>2, <2>3, <2>4, <2>5, <2>6 DEF AloneNext, KeepNext, Keep
  <1> QED BY <1>2, <1>3, <1>4 DEF SizesKept, EmptyUnlinked

LEMMA CountInit == Init => CountInv
  <1> SUFFICES ASSUME Init PROVE CountInv
    OBVIOUS
  <1>1. \A g \in Slots : Empty(gmem[g]) /\ gmem[g].next = -1
    BY DEF Init, InitGMem, Empty
  <1>2. \A t \in Threads : pc[t] = "idle" /\ acc[t] = 0
    BY DEF Init, NoCalls
  <1> QED BY <1>1, <1>2, KeptInit
      DEF CountInv, SizesKept, EmptyUnlinked, Counts, Scans, Scanning

(***************************************************************************)
(* One call at a time: the limit holds                                     *)
(***************************************************************************)
(* No request can make used wrap around.                                   *)
LimitFits == \A b \in Sizes : Limit + b < SizeMod

HoldQuota ==
  /\ Usage <= Limit
  /\ \A t \in Threads :
       /\ Usage + Due(t) <= Limit
       /\ Scans(t) => Usage <= Foreseen(t) /\ Foreseen(t) <= Limit
HoldInv == CountInv /\ Serial /\ HoldQuota

(* Sizes as integers, for the steps of arithmetic.                         *)
LEMMA QuotaType ==
  ASSUME CountInv
  PROVE  /\ Usage \in Nat /\ Limit \in Nat /\ Limit < SizeMod
         /\ \A t \in Threads : Due(t) \in Nat /\ (Due(t) # 0 => t \in Active /\ Due(t) \in Sizes)
         /\ \A t \in Threads : Scans(t) => Foreseen(t) \in Nat /\ t \in Active /\ Due(t) = 0
  <1>1. Usage \in Nat /\ Limit \in Nat /\ Limit < SizeMod
    BY TotalType, CallAssumption, DataAssumption DEF Usage, Bytes
  <1>2. ASSUME NEW t \in Threads
        PROVE  Due(t) \in Nat /\ (Due(t) # 0 => t \in Active /\ Due(t) \in Sizes)
    <2>1. CASE pc[t] \in Recording \cup {"driver"}
      <3>1. t \in Active /\ Due(t) = arg[t].bytes /\ arg[t].bytes \in Sizes
        BY <2>1 DEF Active, Recording, Due, CountInv, SizesKept
      <3>2. arg[t].bytes \in 1..(SizeMod - 1)
        BY <3>1, DataAssumption
      <3> QED BY <3>1, <3>2
    <2>2. CASE pc[t] \notin Recording \cup {"driver"}
      BY <2>2 DEF Due
    <2> QED BY <2>1, <2>2
  <1>3. ASSUME NEW t \in Threads, Scans(t)
        PROVE  Foreseen(t) \in Nat /\ t \in Active /\ Due(t) = 0
    BY <1>3, ForeseenType DEF Scans, Scanning, Active, Due, Recording
  <1> QED BY <1>1, <1>2, <1>3

LEMMA HoldFits ==
  ASSUME LimitFits, HoldInv, NEW t \in Threads, Scans(t)
  PROVE  Fits(t)
  <1>1. CountInv /\ Foreseen(t) <= Limit /\ Foreseen(t) \in Nat /\ Limit \in Nat /\ Limit < SizeMod
    BY QuotaType DEF HoldInv, HoldQuota
  <1>2. SizeMod \in Nat
    BY DataAssumption
  <1>3. CASE pc[t] = "sum"
    <2>1. PICK c, a, H, LH : c = cnt[t] /\ a = acc[t] /\ H = Heads /\ LH = LiveHeads
      OBVIOUS
    <2>2. H \in [Nodes -> Bytes] /\ a \in Nat /\ c \in Nat /\ c < NR
      BY <1>1, <1>3, <2>1, HeadsType, TableAssumption
      DEF CountInv, KeptInv, BaseInv, TypeInv, TypeOK, Indices, Bytes
    <2>3. H[c] \in Nat
      <3>1. c \in Nodes
        BY <2>2, TableAssumption DEF Nodes
      <3>2. H[c] \in Bytes
        BY <2>2, <3>1
      <3> QED BY <3>2 DEF Bytes
    <2>4. Total((c + 1)..(NR - 1), LH) \in Nat
      <3>1. (c + 1)..(NR - 1) \subseteq Nodes
        BY <2>2, TableAssumption DEF Nodes
      <3> QED BY <3>1, TotalType
    <2>5. Foreseen(t) = a + H[c] + Total((c + 1)..(NR - 1), LH)
      BY <1>3, <2>1 DEF Foreseen
    <2>6. a + H[c] <= Limit
      BY <1>1, <2>2, <2>3, <2>4, <2>5
    <2>7. a + H[c] < SizeMod
      BY <1>1, <1>2, <2>2, <2>3, <2>6
    <2> QED BY <1>3, <2>1, <2>7 DEF Fits
  <1>4. CASE pc[t] = "check"
    <2>1. arg[t].bytes \in Sizes /\ acc[t] <= Limit /\ acc[t] \in Nat
      <3>1. acc[t] = Foreseen(t)
        BY <1>4 DEF Foreseen
      <3> QED BY <1>1, <1>4, <3>1 DEF CountInv, SizesKept
    <2>2. Limit + arg[t].bytes < SizeMod /\ arg[t].bytes \in 1..(SizeMod - 1)
      BY <2>1, DataAssumption DEF LimitFits
    <2>3. acc[t] + arg[t].bytes < SizeMod
      BY <1>1, <1>2, <2>1, <2>2
    <2> QED BY <1>4, <2>3 DEF Fits
  <1> QED BY <1>3, <1>4 DEF Fits

QuotaTyped ==
  /\ Usage \in Nat
  /\ \A t \in Threads : Due(t) \in Nat
  /\ \A t \in Threads : Scans(t) => Foreseen(t) \in Nat

LEMMA QuotaIsTyped == CountInv => QuotaTyped
  BY QuotaType DEF QuotaTyped

LEMMA QuotaTypeAfter == CountInv' => QuotaTyped'
  BY QuotaIsTyped, PTL

LEMMA NothingUsed == Init => Usage = 0
  <1> SUFFICES ASSUME Init PROVE Usage = 0
    OBVIOUS
  <1>1. \A n \in Nodes : LiveHeads[n] = 0
    BY DEF Init, InitRNode, LiveHeads, Existing
  <1>2. Cells(Nodes, LiveHeads) = {}
    <2>1. ASSUME NEW c \in Nodes \X Bytes PROVE ~(c[2] < LiveHeads[c[1]])
      <3>1. c[2] \in Nat /\ LiveHeads[c[1]] = 0
        BY <1>1 DEF Bytes
      <3> QED BY <3>1
    <2> QED BY <2>1 DEF Cells
  <1> QED BY <1>2, FS_EmptySet DEF Usage, Total

LEMMA HoldQuotaStep ==
  ASSUME HoldInv, CountInv', Serial',
         (\E t \in Threads : Quietly(t) \/ Adopts(t)) \/ Ends
  PROVE  HoldQuota'
  <1>1. CountInv /\ HoldQuota /\ Serial
    BY DEF HoldInv
  <1>2. PICK x, y : x = Usage /\ y = Usage'
    OBVIOUS
  <1>3. /\ x \in Nat /\ Limit \in Nat /\ x <= Limit
        /\ \A t \in Threads : Due(t) \in Nat /\ (Due(t) # 0 => t \in Active)
        /\ \A t \in Threads : Scans(t) => Foreseen(t) \in Nat /\ t \in Active
    BY <1>1, <1>2, QuotaType DEF HoldQuota
  <1>4. /\ y \in Nat
        /\ \A t \in Threads : Due(t)' \in Nat
        /\ \A t \in Threads : Scans(t)' => Foreseen(t)' \in Nat
    BY <1>2, QuotaTypeAfter DEF QuotaTyped
  <1>5. /\ \A t \in Threads : x + Due(t) <= Limit
        /\ \A t \in Threads : Scans(t) => x <= Foreseen(t) /\ Foreseen(t) <= Limit
    BY <1>1, <1>2 DEF HoldQuota
  <1>6. \A t, u \in Threads : t \in Active /\ u \in Active => t = u
    BY <1>1 DEF Serial
  <1>7. SUFFICES /\ y <= Limit
                 /\ \A u \in Threads : y + Due(u)' <= Limit
                 /\ \A u \in Threads : Scans(u)' => y <= Foreseen(u)' /\ Foreseen(u)' <= Limit
    BY <1>2 DEF HoldQuota
  <1>8. ASSUME NEW t \in Threads, Quietly(t)
        PROVE  /\ y <= Limit
               /\ \A u \in Threads : y + Due(u)' <= Limit
               /\ \A u \in Threads : Scans(u)' => y <= Foreseen(u)' /\ Foreseen(u)' <= Limit
    <2>1. y = x
      BY <1>2, <1>8 DEF Quietly
    <2>2. y + Due(t)' <= Limit
      <3>1. CASE Due(t)' \in {0, Due(t)}
        BY <1>3, <1>5, <2>1, <3>1
      <3>2. CASE Scans(t) /\ Foreseen(t) + Due(t)' <= Limit
        <4>1. PICK f, d : f = Foreseen(t) /\ d = Due(t)'
          OBVIOUS
        <4>2. f \in Nat /\ d \in Nat /\ x <= f /\ f + d <= Limit
          BY <1>3, <1>4, <1>5, <3>2, <4>1
        <4>3. x + d <= Limit
          BY <1>3, <4>2
        <4> QED BY <2>1, <4>1, <4>3
      <3> QED BY <1>8, <3>1, <3>2 DEF Quietly, Goes
    <2>3. Scans(t)' => y <= Foreseen(t)' /\ Foreseen(t)' <= Limit
      <3>1. CASE Scans(t)' => Scans(t) /\ Foreseen(t)' = Foreseen(t)
        BY <1>5, <2>1, <3>1
      <3>2. CASE Foreseen(t)' = Usage
        BY <1>2, <1>3, <2>1, <3>2
      <3> QED BY <1>8, <3>1, <3>2 DEF Quietly, Goes
    <2>4. \A u \in Threads : u # t => y + Due(u)' <= Limit
      BY <1>5, <1>8, <2>1 DEF Quietly, Same
    <2>5. \A u \in Threads : u # t /\ Scans(u)' => y <= Foreseen(u)' /\ Foreseen(u)' <= Limit
      BY <1>5, <1>8, <2>1 DEF Quietly, Same
    <2> QED BY <1>3, <2>1, <2>2, <2>3, <2>4, <2>5
  <1>9. ASSUME NEW t \in Threads, Adopts(t)
        PROVE  /\ y <= Limit
               /\ \A u \in Threads : y + Due(u)' <= Limit
               /\ \A u \in Threads : Scans(u)' => y <= Foreseen(u)' /\ Foreseen(u)' <= Limit
    <2>1. PICK d : d = Due(t)
      OBVIOUS
    <2>2. t \in Active /\ y <= x + d /\ x + d <= Limit /\ d \in Nat
      BY <1>2, <1>3, <1>5, <1>9, <2>1 DEF Adopts
    <2>3. y <= Limit
      BY <1>3, <1>4, <2>2
    <2>4. \A u \in Threads : u # t => Due(u) = 0 /\ ~Scans(u)
      BY <1>3, <1>6, <2>2
    <2>5. \A u \in Threads : Due(u)' = 0 /\ ~Scans(u)'
      BY <1>9, <2>4 DEF Adopts
    <2> QED BY <1>4, <2>3, <2>5
  <1>10. CASE Ends
    <2>1. y <= x
      BY <1>2, <1>10 DEF Ends
    <2>2. ASSUME NEW u \in Threads PROVE y + Due(u)' <= Limit
      <3>1. PICK d, e : d = Due(u) /\ e = Due(u)'
        OBVIOUS
      <3>2. d \in Nat /\ e \in Nat /\ x + d <= Limit /\ (e = 0 \/ e = d)
        BY <1>3, <1>4, <1>5, <1>10, <3>1 DEF Ends
      <3>3. y + e <= Limit
        BY <1>3, <1>4, <2>1, <3>2
      <3> QED BY <3>1, <3>3
    <2>3. ASSUME NEW u \in Threads, Scans(u)'
          PROVE  y <= Foreseen(u)' /\ Foreseen(u)' <= Limit
      <3>1. PICK f, g : f = Foreseen(u) /\ g = Foreseen(u)'
        OBVIOUS
      <3>2. Scans(u) /\ g <= f /\ f - g <= x - y
        BY <1>2, <1>10, <2>3, <3>1 DEF Ends
      <3>3. f \in Nat /\ g \in Nat /\ x <= f /\ f <= Limit
        BY <1>3, <1>4, <1>5, <2>3, <3>1, <3>2
      <3>4. y <= g /\ g <= Limit
        BY <1>3, <1>4, <3>2, <3>3
      <3> QED BY <3>1, <3>4
    <2>4. y <= Limit
      BY <1>3, <1>4, <2>1
    <2> QED BY <2>2, <2>3, <2>4
  <1> QED BY <1>8, <1>9, <1>10

LEMMA HoldInit == Init => HoldInv
  <1> SUFFICES ASSUME Init PROVE HoldInv
    OBVIOUS
  <1>1. CountInv
    BY CountInit
  <1>2. \A t \in Threads : pc[t] = "idle"
    BY DEF Init, NoCalls
  <1>3. Serial
    BY <1>2 DEF Serial, Active
  <1>4. Usage = 0
    BY NothingUsed
  <1>5. \A t \in Threads : Due(t) = 0 /\ ~Scans(t)
    BY <1>2 DEF Due, Recording, Scans, Scanning
  <1>6. Limit \in Nat
    BY <1>1, QuotaType
  <1> QED BY <1>1, <1>3, <1>4, <1>5, <1>6 DEF HoldInv, HoldQuota

LEMMA HoldStep ==
  ASSUME OneThread, SeesAll, "pitch" \notin AllocKinds, LimitFits
  PROVE  HoldInv /\ [HoldNext]_vars => HoldInv'
  <1> SUFFICES ASSUME HoldInv, [HoldNext]_vars PROVE HoldInv'
    OBVIOUS
  <1>1. CountInv /\ KeptInv /\ [AloneNext]_vars
    BY HoldIsAlone DEF HoldInv, CountInv
  <1>2. KeptInv'
    BY <1>1, KeptStep
  <1>3. \A u \in Threads : Scans(u) => Fits(u)
    BY HoldFits
  <1>4. /\ \A u \in Threads : Counts(u)'
        /\ (\E t \in Threads : Quietly(t) \/ Adopts(t)) \/ Ends
    BY <1>1, <1>2, <1>3, QuotaStep
  <1>5. CountInv'
    BY <1>1, <1>2, <1>4, SizesStep DEF CountInv
  <1>6. Serial'
    <2>1. CASE HoldNext
      BY <2>1 DEF HoldNext
    <2>2. CASE UNCHANGED vars
      BY <2>2 DEF vars, Serial, Active, HoldInv
    <2> QED BY <2>1, <2>2
  <1>7. HoldQuota'
    BY <1>4, <1>5, <1>6, HoldQuotaStep
  <1> QED BY <1>5, <1>6, <1>7 DEF HoldInv

(* Hold workload: the first records together never exceed the limit.        *)
LEMMA HoldShows == HoldInv => HeadQuota
  BY UsageIsHeadSum DEF HoldInv, HoldQuota, HeadQuota

(***************************************************************************)
(* The same with what the usage was when the call began                    *)
(***************************************************************************)
ScanInv ==
  /\ HoldInv
  /\ began \in [Threads -> Nat]
  /\ \A t \in Threads : Scans(t) => Foreseen(t) <= began[t]

LEMMA ScanStart == ScanInit => ScanInv
  <1> SUFFICES ASSUME ScanInit PROVE ScanInv
    OBVIOUS
  <1>1. HoldInv
    BY HoldInit DEF ScanInit
  <1>2. \A t \in Threads : ~Scans(t)
    BY DEF ScanInit, Init, NoCalls, Scans, Scanning
  <1> QED BY <1>1, <1>2 DEF ScanInv, ScanInit

(* A call that begins to count foresees the usage it began with; while it  *)
(* goes on, what it foresees only falls, by the processes that end.        *)
LEMMA ScanStep ==
  ASSUME OneThread, SeesAll, "pitch" \notin AllocKinds, LimitFits
  PROVE  ScanInv /\ [ScanNext]_<<vars, began>> => ScanInv'
  <1> SUFFICES ASSUME ScanInv, [ScanNext]_<<vars, began>> PROVE ScanInv'
    OBVIOUS
  <1>1. HoldInv /\ CountInv /\ [HoldNext]_vars
    BY DEF ScanInv, HoldInv, ScanNext
  <1>2. HoldInv' /\ CountInv'
    BY <1>1, HoldStep DEF HoldInv
  <1>3. CASE UNCHANGED <<vars, began>>
    <2>1. ASSUME NEW t \in Threads PROVE Scans(t)' = Scans(t) /\ Foreseen(t)' = Foreseen(t)
      <3>1. Heads' = Heads /\ LiveHeads' = LiveHeads
        BY <1>3 DEF vars, shm, host, Heads, LiveHeads, HeadBytes, Existing
      <3>2. PICK a, c, H, LH : a = acc[t] /\ c = cnt[t] /\ H = Heads /\ LH = LiveHeads
        OBVIOUS
      <3>3. /\ acc'[t] = a /\ cnt'[t] = c /\ Heads' = H /\ LiveHeads' = LH
            /\ pc' = pc /\ gmem' = gmem
        BY <1>3, <3>1, <3>2 DEF vars, shm, regs
      <3>4. Foreseen(t)' = Foreseen(t)
        BY <3>2, <3>3 DEF Foreseen
      <3> QED BY <3>2, <3>3, <3>4 DEF Scans, Trapped
    <2> QED BY <1>2, <1>3, <2>1 DEF ScanInv
  <1>4. CASE ScanNext
    <2>1. \A t \in Threads : Scans(t) => pc[t] \in Scanning
      BY DEF Scans
    <2>2. \A t \in Threads : Scans(t)' => pc'[t] \in Scanning
      BY DEF Scans
    <2>3. Usage \in Nat
      BY <1>1, QuotaType
    <2>4. /\ began' \in [Threads -> Nat]
          /\ \A t \in Threads : pc'[t] \in Scanning =>
               began'[t] = IF pc[t] \in Scanning THEN began[t] ELSE Usage
      BY <1>4, <2>3, UsageIsHeadSum DEF ScanNext, Note, Sums, Scanning, ScanInv
    <2>5. ASSUME NEW u \in Threads, Scans(u)', Scans(u), Foreseen(u)' <= Foreseen(u)
          PROVE  Foreseen(u)' <= began'[u]
      <3>1. began'[u] = began[u] /\ began[u] \in Nat /\ Foreseen(u) <= began[u]
        BY <2>1, <2>2, <2>4, <2>5 DEF ScanInv
      <3>2. Foreseen(u) \in Nat /\ Foreseen(u)' \in Nat
        BY <1>1, <1>2, <2>5, QuotaType, QuotaTypeAfter DEF QuotaTyped
      <3> QED BY <2>5, <3>1, <3>2
    <2>6. KeptInv' /\ \A u \in Threads : Scans(u) => Fits(u)
      BY <1>1, <1>2, HoldFits DEF CountInv
    <2>7. (\E t \in Threads : Quietly(t) \/ Adopts(t)) \/ Ends
      BY <1>1, <2>6, HoldIsAlone, QuotaStep
    <2>8. ASSUME NEW t \in Threads, Quietly(t), NEW u \in Threads, Scans(u)'
          PROVE  Foreseen(u)' <= began'[u]
      <3>1. CASE Scans(u) /\ Foreseen(u)' = Foreseen(u)
        <4>1. Foreseen(u) \in Nat
          BY <1>1, <3>1, QuotaType
        <4> QED BY <2>5, <2>8, <3>1, <4>1
      <3>2. CASE pc[u] \notin Scanning /\ Foreseen(u)' = Usage
        BY <2>2, <2>3, <2>4, <2>8, <3>2
      <3> QED BY <2>8, <3>1, <3>2 DEF Quietly, Goes, Same
    <2>9. ASSUME NEW t \in Threads, Adopts(t), NEW u \in Threads
          PROVE  ~Scans(u)'
      <3>1. Scans(u) => u \in Active
        BY <1>1, QuotaType
      <3>2. u # t => u \notin Active
        BY <1>1, <2>9 DEF HoldInv, Serial, Adopts
      <3> QED BY <2>9, <3>1, <3>2 DEF Adopts
    <2>10. ASSUME Ends, NEW u \in Threads, Scans(u)' PROVE Foreseen(u)' <= began'[u]
      BY <2>5, <2>10 DEF Ends
    <2> QED BY <1>2, <2>4, <2>7, <2>8, <2>9, <2>10 DEF ScanInv
  <1> QED BY <1>3, <1>4

(* Calls that do not overlap: gmem_used finds what the heads of the        *)
(* processes hold; of those that ended before the call it counts nothing,  *)
(* one that ends while it scans may be in it or not.                       *)
THEOREM UsedIsCounted ==
  ASSUME OneThread, SeesAll, "pitch" \notin AllocKinds, LimitFits
  PROVE  ScanSpec => []UsedIsHeads
  <1>1. ScanInit => ScanInv
    BY ScanStart
  <1>2. ScanInv /\ [ScanNext]_<<vars, began>> => ScanInv'
    BY ScanStep
  <1>3. ScanInv => UsedIsHeads
    <2> SUFFICES ASSUME ScanInv, NEW t \in Threads, pc[t] = "check"
                 PROVE  HeadSum(LiveNodes) <= acc[t] /\ acc[t] <= began[t]
      BY DEF UsedIsHeads
    <2>1. Scans(t) /\ Foreseen(t) = acc[t]
      BY DEF Scans, Scanning, Trapped, Foreseen
    <2> QED BY <2>1, UsageIsHeadSum DEF ScanInv, HoldInv, HoldQuota
  <1> QED BY <1>1, <1>2, <1>3, PTL DEF ScanSpec

(* Calls that do not overlap: the first allocations of the existing        *)
(* processes together stay within GPU_MEM_LIMIT.                           *)
THEOREM HeadsWithinLimit ==
  ASSUME OneThread, SeesAll, "pitch" \notin AllocKinds, LimitFits
  PROVE  HoldSpec => []HeadQuota
  <1>1. Init => HoldInv
    BY HoldInit
  <1>2. HoldInv /\ [HoldNext]_vars => HoldInv'
    BY HoldStep
  <1>3. HoldInv => HeadQuota
    BY HoldShows
  <1> QED BY <1>1, <1>2, <1>3, PTL DEF HoldSpec

(***************************************************************************)
(* Two calls at a time: the overshoot is one request                       *)
(***************************************************************************)
Largest == Max(Sizes)

LEMMA LeastOf ==
  ASSUME NEW T, T \subseteq Nat, T # {}
  PROVE  \E x \in T : \A y \in T : x <= y
  <1> DEFINE R == OpToRel(<, Nat)
  <1>1. IsWellFoundedOn(R, Nat)
    BY NatLessThanWellFounded
  <1>2. PICK x \in T : \A y \in T : ~(<<y, x>> \in R)
    BY <1>1, WFMin
  <1>3. \A y \in T : ~(y < x)
    BY <1>2 DEF OpToRel
  <1> QED BY <1>3

LEMMA LargestSize ==
  ASSUME Sizes # {}
  PROVE  Largest \in Sizes /\ Largest \in Nat /\ \A b \in Sizes : b \in Nat /\ b <= Largest
  <1> DEFINE T == {n \in Nat : \A b \in Sizes : b <= n}
  <1>1. \A b \in Sizes : b \in Nat /\ b > 0 /\ b <= SizeMod - 1
    BY DataAssumption
  <1>2. SizeMod - 1 \in T
    BY <1>1, DataAssumption
  <1>3. PICK x \in T : \A y \in T : x <= y
    BY <1>2, LeastOf
  <1>4. x \in Sizes
    <2> SUFFICES ASSUME x \notin Sizes PROVE FALSE
      OBVIOUS
    <2>1. \A b \in Sizes : b <= x - 1
      BY <1>1, <1>3
    <2>2. x - 1 \in Nat
      BY <1>1, <1>3
    <2>3. x - 1 \in T
      BY <2>1, <2>2
    <2> QED BY <1>3, <2>3
  <1>5. \A b \in Sizes : x >= b
    BY <1>1, <1>3
  <1>6. Largest \in Sizes /\ \A b \in Sizes : Largest >= b
    BY <1>4, <1>5 DEF Largest, Max
  <1> QED BY <1>1, <1>6

(* One record for every node and one request more do not wrap around.      *)
SumFits == (NR + 1) * Largest < SizeMod

(* Two calls at a time.                                                    *)
NoThree == \A t, u, v \in Active : t = u \/ t = v \/ u = v

ApartQuota ==
  /\ Usage <= Limit + Largest
  /\ \A t \in Threads : Usage + Due(t) <= Limit + Largest
  /\ \A t, u \in Threads : t # u => Usage + Due(t) + Due(u) <= Limit + Largest
  /\ \A t, u \in Threads : Scans(t) =>
       Usage + Due(u) <= Limit \/ Usage + Due(u) <= Foreseen(t) + Largest
  /\ \A t, u \in Threads : t # u /\ Scans(t) /\ Scans(u) =>
       Usage <= Foreseen(t) \/ Usage <= Foreseen(u)
ApartInv == CountInv /\ NoThree /\ ApartQuota

LEMMA ApartFits ==
  ASSUME Sizes # {}, SumFits, CountInv, NEW t \in Threads, Scans(t)
  PROVE  Fits(t)
  <1>1. PICK c, a, H, m : c = cnt[t] /\ a = acc[t] /\ H = Heads /\ m = Largest
    OBVIOUS
  <1>2. /\ H \in [Nodes -> Bytes] /\ a \in Nat /\ c \in Nat /\ (pc[t] = "sum" => c < NR)
        /\ m \in Sizes /\ m \in Nat /\ m < SizeMod
    BY <1>1, HeadsType, TableAssumption, LargestSize, DataAssumption
    DEF CountInv, KeptInv, BaseInv, TypeInv, TypeOK, Indices, Bytes
  <1>3. \A n \in Nodes : H[n] <= m
    <2>1. ASSUME NEW n \in Nodes PROVE H[n] \in Sizes \cup {0}
      <3>1. CASE Existing(n) /\ rnode[n].entry # -1
        <4>1. rnode[n].entry \in Slots /\ ~Empty(gmem[rnode[n].entry])
          BY <3>1, LinkType DEF CountInv, KeptInv, BaseInv, TypeInv, Chained, LinksUsed
        <4>2. gmem[rnode[n].entry].bytes \in Sizes
          BY <4>1 DEF CountInv, SizesKept
        <4> QED BY <1>1, <3>1, <4>2 DEF Heads, HeadBytes
      <3>2. CASE ~(Existing(n) /\ rnode[n].entry # -1)
        BY <1>1, <3>2 DEF Heads, HeadBytes
      <3> QED BY <3>1, <3>2
    <2>2. \A b \in Sizes \cup {0} : b <= m
      BY <1>1, <1>2, LargestSize
    <2> QED BY <2>1, <2>2
  <1>4. NR * m + m < SizeMod /\ NR * m \in Nat /\ NR * m < SizeMod
    <2>1. NR \in Nat /\ SizeMod \in Nat
      BY TableAssumption, DataAssumption
    <2>2. (NR + 1) * m = NR * m + m /\ NR * m \in Nat
      BY <1>2, <2>1
    <2> QED BY <1>1, <1>2, <2>1, <2>2 DEF SumFits
  <1>5. ASSUME NEW S, S \subseteq Nodes PROVE Total(S, H) <= NR * m /\ Total(S, H) \in Nat
    BY <1>2, <1>3, <1>5, TotalBound, TotalType
  <1>6. CASE pc[t] = "sum"
    <2>1. c \in Nodes /\ 0..c \subseteq Nodes /\ 0..(c - 1) \subseteq Nodes
      BY <1>2, <1>6, TableAssumption DEF Nodes
    <2>2. H[c] \in Nat
      <3>1. H[c] \in Bytes
        BY <1>2, <2>1
      <3> QED BY <3>1 DEF Bytes
    <2>3. a <= Total(0..(c - 1), H)
      BY <1>1, <1>6 DEF CountInv, Counts
    <2>4. Total(0..c, H) = Total(0..(c - 1), H) + H[c]
      BY <1>2, <2>1, TotalFrom
    <2>5. PICK x, y : x = Total(0..c, H) /\ y = Total(0..(c - 1), H)
      OBVIOUS
    <2>6. x \in Nat /\ y \in Nat /\ x <= NR * m /\ x = y + H[c] /\ a <= y
      BY <1>5, <2>1, <2>3, <2>4, <2>5
    <2>7. a + H[c] < SizeMod
      BY <1>2, <1>4, <2>2, <2>6, DataAssumption
    <2> QED BY <1>1, <1>6, <2>7 DEF Fits
  <1>7. CASE pc[t] = "check"
    <2>1. a <= Total(Nodes, H)
      BY <1>1, <1>7 DEF CountInv, Counts
    <2>2. PICK x, b : x = Total(Nodes, H) /\ b = arg[t].bytes
      OBVIOUS
    <2>3. x \in Nat /\ x <= NR * m
      BY <1>5, <2>2
    <2>4. b \in Nat /\ b <= m
      BY <1>1, <1>7, <2>2, LargestSize DEF CountInv, SizesKept
    <2>5. a + b < SizeMod
      BY <1>2, <1>4, <2>1, <2>2, <2>3, <2>4, DataAssumption
    <2> QED BY <1>1, <1>7, <2>2, <2>5 DEF Fits
  <1> QED BY <1>6, <1>7 DEF Fits

LEMMA ApartQuotaStep ==
  ASSUME Sizes # {}, ApartInv, CountInv', 
         (\E t \in Threads : Quietly(t) \/ Adopts(t)) \/ Ends
  PROVE  ApartQuota'
  <1>1. CountInv /\ ApartQuota /\ NoThree
    BY DEF ApartInv
  <1>2. PICK m, x, y, D, E, F, G, S, R :
          /\ m = Largest /\ x = Usage /\ y = Usage'
          /\ D = [t \in Threads |-> Due(t)] /\ E = [t \in Threads |-> Due(t)']
          /\ F = [t \in Threads |-> Foreseen(t)] /\ G = [t \in Threads |-> Foreseen(t)']
          /\ S = {t \in Threads : Scans(t)} /\ R = {t \in Threads : Scans(t)'}
    OBVIOUS
  <1>3. /\ m \in Nat /\ x \in Nat /\ Limit \in Nat
        /\ \A t \in Threads : D[t] \in Nat /\ D[t] <= m /\ (D[t] # 0 => t \in Active)
        /\ \A t \in S : t \in Threads /\ F[t] \in Nat /\ t \in Active /\ D[t] = 0
    <2>1. m \in Nat /\ \A b \in Sizes : b \in Nat /\ b <= m
      BY <1>2, LargestSize
    <2>2. x \in Nat /\ Limit \in Nat
      BY <1>1, <1>2, QuotaType
    <2>3. \A t \in Threads : D[t] \in Nat /\ (D[t] # 0 => t \in Active /\ D[t] \in Sizes)
      BY <1>1, <1>2, QuotaType
    <2>4. \A t \in Threads : D[t] <= m
      BY <2>1, <2>3
    <2>5. \A t \in S : t \in Threads /\ F[t] \in Nat /\ t \in Active /\ D[t] = 0
      BY <1>1, <1>2, QuotaType
    <2> QED BY <2>1, <2>2, <2>3, <2>4, <2>5
  <1>4. /\ y \in Nat
        /\ \A t \in Threads : E[t] \in Nat
        /\ \A t \in R : t \in Threads /\ G[t] \in Nat
    BY <1>2, QuotaTypeAfter DEF QuotaTyped
  <1>5. /\ x <= Limit + m
        /\ \A t \in Threads : x + D[t] <= Limit + m
        /\ \A t, u \in Threads : t # u => x + D[t] + D[u] <= Limit + m
        /\ \A t \in S, u \in Threads : x + D[u] <= Limit \/ x + D[u] <= F[t] + m
        /\ \A t, u \in S : t # u => x <= F[t] \/ x <= F[u]
    BY <1>1, <1>2 DEF ApartQuota
  <1>6. \A t, u, v \in Active : t = u \/ t = v \/ u = v
    BY <1>1 DEF NoThree
  <1> DEFINE Bounded ==
        /\ y <= Limit + m
        /\ \A t \in Threads : y + E[t] <= Limit + m
        /\ \A t, u \in Threads : t # u => y + E[t] + E[u] <= Limit + m
        /\ \A t \in R, u \in Threads : y + E[u] <= Limit \/ y + E[u] <= G[t] + m
        /\ \A t, u \in R : t # u => y <= G[t] \/ y <= G[u]
  <1>7. SUFFICES Bounded
    BY <1>2 DEF ApartQuota
  <1>8. ASSUME NEW t \in Threads, Quietly(t) PROVE Bounded
    <2>1. y = x
      BY <1>2, <1>8 DEF Quietly
    <2>2. \A u \in Threads : u # t => E[u] = D[u] /\ (u \in R => u \in S /\ G[u] = F[u])
      BY <1>2, <1>8 DEF Quietly, Same
    <2>3. CASE E[t] \in {0, D[t]} /\ (t \in R => t \in S /\ G[t] = F[t])
      <3>1. \A u \in Threads : E[u] \in {0, D[u]} /\ (u \in R => u \in S /\ G[u] = F[u])
        BY <2>2, <2>3
      <3>2. \A u \in Threads : E[u] <= D[u]
        BY <1>3, <3>1
      <3> HIDE DEF Bounded
      <3>3. y <= Limit + m
        BY <1>5, <2>1
      <3>4. \A u \in Threads : y + E[u] <= Limit + m
        BY <1>3, <1>4, <1>5, <2>1, <3>2
      <3>5. \A u, v \in Threads : u # v => y + E[u] + E[v] <= Limit + m
        BY <1>3, <1>4, <1>5, <2>1, <3>2
      <3>6. \A u \in R, v \in Threads : y + E[v] <= Limit \/ y + E[v] <= G[u] + m
        BY <1>3, <1>4, <1>5, <2>1, <3>1, <3>2
      <3>7. \A u, v \in R : u # v => y <= G[u] \/ y <= G[v]
        BY <1>3, <1>4, <1>5, <2>1, <3>1
      <3> QED BY <3>3, <3>4, <3>5, <3>6, <3>7 DEF Bounded
    <2>4. CASE E[t] = 0 /\ G[t] = x
      <3>1. \A u \in Threads : E[u] <= D[u]
        BY <1>3, <2>2, <2>4
      <3> HIDE DEF Bounded
      <3>3. y <= Limit + m
        BY <1>5, <2>1
      <3>4. \A u \in Threads : y + E[u] <= Limit + m
        BY <1>3, <1>4, <1>5, <2>1, <3>1
      <3>5. \A u, v \in Threads : u # v => y + E[u] + E[v] <= Limit + m
        BY <1>3, <1>4, <1>5, <2>1, <3>1
      <3>6. ASSUME NEW u \in R, NEW v \in Threads
            PROVE  y + E[v] <= Limit \/ y + E[v] <= G[u] + m
        <4>1. CASE u = t
          BY <1>3, <1>4, <2>1, <2>4, <3>1, <4>1
        <4>2. CASE u # t
          BY <1>3, <1>4, <1>5, <2>1, <2>2, <3>1, <4>2
        <4> QED BY <4>1, <4>2
      <3>7. \A u, v \in R : u # v => y <= G[u] \/ y <= G[v]
        BY <1>3, <1>4, <1>5, <2>1, <2>2, <2>4
      <3> QED BY <3>3, <3>4, <3>5, <3>6, <3>7 DEF Bounded
    <2>5. CASE t \in S /\ t \notin R /\ F[t] + E[t] <= Limit /\ E[t] <= m
      <3>1. PICK e, f : e = E[t] /\ f = F[t]
        OBVIOUS
      <3>2. e \in Nat /\ f \in Nat /\ f + e <= Limit /\ e <= m
        BY <1>3, <1>4, <2>5, <3>1
      <3>3. \A u \in Threads : x + D[u] <= Limit \/ x + D[u] <= f + m
        BY <1>5, <2>5, <3>1
      <3>4. ASSUME NEW u \in Threads PROVE x + D[u] + e <= Limit + m
        BY <1>3, <3>2, <3>3
      <3> HIDE DEF Bounded
      <3>5. x + e <= Limit + m
        BY <1>3, <2>5, <3>2, <3>4
      <3>6. y <= Limit + m
        BY <1>5, <2>1
      <3>7. \A u \in Threads : y + E[u] <= Limit + m
        BY <1>5, <2>1, <2>2, <3>1, <3>5
      <3>8. \A u, v \in Threads : u # v => y + E[u] + E[v] <= Limit + m
        BY <1>3, <1>5, <2>1, <2>2, <3>1, <3>2, <3>4
      <3>9. ASSUME NEW u \in R, NEW v \in Threads
            PROVE  y + E[v] <= Limit \/ y + E[v] <= G[u] + m
        <4>1. u # t /\ u \in S /\ G[u] = F[u] /\ F[u] \in Nat /\ u \in Threads
          BY <1>3, <1>4, <2>2, <2>5
        <4>2. CASE v = t
          <5>1. x <= f \/ x <= F[u]
            BY <1>5, <2>5, <3>1, <4>1
          <5> QED BY <1>3, <2>1, <3>1, <3>2, <4>1, <4>2, <5>1
        <4>3. CASE v # t
          BY <1>5, <2>1, <2>2, <4>1, <4>3
        <4> QED BY <4>2, <4>3
      <3>10. \A u, v \in R : u # v => y <= G[u] \/ y <= G[v]
        BY <1>4, <1>5, <2>1, <2>2, <2>5
      <3> QED BY <3>6, <3>7, <3>8, <3>9, <3>10 DEF Bounded
    <2>6. Goes(t)
      BY <1>8 DEF Quietly
    <2>7. Due(t)' \in Sizes => E[t] <= m
      BY <1>2, LargestSize
    <2> HIDE DEF Bounded
    <2> QED BY <1>2, <2>1, <2>3, <2>4, <2>5, <2>6, <2>7 DEF Goes
  <1>9. ASSUME NEW t \in Threads, Adopts(t) PROVE Bounded
    <2>1. PICK d : d = D[t]
      OBVIOUS
    <2>2. d \in Nat /\ t \in Active /\ y <= x + d /\ E[t] = 0 /\ t \notin R
      BY <1>2, <1>3, <1>9, <2>1 DEF Adopts
    <2>3. \A u \in Threads : u # t => E[u] = D[u] /\ (u \in R => u \in S /\ F[u] <= G[u])
      BY <1>2, <1>9 DEF Adopts
    <2> HIDE DEF Bounded
    <2>4. \A u \in Threads : u # t => x + d + D[u] <= Limit + m
      BY <1>5, <2>1
    <2>5. x + d <= Limit + m
      BY <1>5, <2>1
    <2>6. y <= Limit + m
      BY <1>3, <1>4, <2>2, <2>5
    <2>7. ASSUME NEW u \in Threads PROVE y + E[u] <= Limit + m
      <3>1. CASE u = t
        BY <1>4, <2>2, <2>6, <3>1
      <3>2. CASE u # t
        BY <1>3, <1>4, <2>2, <2>3, <2>4, <3>2
      <3> QED BY <3>1, <3>2
    <2>8. ASSUME NEW u \in Threads, NEW v \in Threads, u # v
          PROVE  y + E[u] + E[v] <= Limit + m
      <3>1. E[u] = 0 \/ E[v] = 0
        <4>1. CASE u = t \/ v = t
          BY <2>2, <4>1
        <4>2. CASE u # t /\ v # t
          BY <1>3, <1>6, <2>2, <2>3, <2>8, <4>2
        <4> QED BY <4>1, <4>2
      <3>2. y + E[u] <= Limit + m /\ y + E[v] <= Limit + m
        BY <2>7
      <3> QED BY <1>4, <3>1, <3>2
    <2>9. ASSUME NEW u \in R, NEW v \in Threads
          PROVE  y + E[v] <= Limit \/ y + E[v] <= G[u] + m
      <3>1. u \in Threads /\ u # t /\ u \in S /\ F[u] <= G[u] /\ G[u] \in Nat /\ F[u] \in Nat
        BY <1>3, <1>4, <2>2, <2>3
      <3>2. E[v] = 0
        <4>1. CASE v = t
          BY <2>2, <4>1
        <4>2. CASE v # t
          <5>1. u \in Active /\ D[u] = 0
            BY <1>3, <3>1
          <5>2. v = u \/ v \notin Active
            BY <1>6, <2>2, <3>1, <4>2, <5>1
          <5> QED BY <1>3, <2>3, <4>2, <5>1, <5>2
        <4> QED BY <4>1, <4>2
      <3>3. x + d <= Limit \/ x + d <= F[u] + m
        BY <1>5, <2>1, <3>1
      <3> QED BY <1>3, <1>4, <2>2, <3>1, <3>2, <3>3
    <2>10. ASSUME NEW u \in R, NEW v \in R, u # v PROVE FALSE
      <3>1. u # t /\ v # t /\ u \in Active /\ v \in Active
        BY <1>3, <1>4, <2>2, <2>3
      <3> QED BY <1>6, <2>2, <2>10, <3>1
    <2> QED BY <2>6, <2>7, <2>8, <2>9, <2>10 DEF Bounded
  <1>10. CASE Ends
    <2>1. y <= x
      BY <1>2, <1>10 DEF Ends
    <2>2. \A u \in Threads :
            /\ E[u] = 0 \/ E[u] = D[u]
            /\ u \in R => u \in S /\ G[u] <= F[u] /\ F[u] - G[u] <= x - y
      BY <1>2, <1>10 DEF Ends
    <2>3. \A u \in Threads : E[u] <= D[u]
      BY <1>3, <2>2
    <2> HIDE DEF Bounded
    <2>4. y <= Limit + m
      BY <1>3, <1>4, <1>5, <2>1
    <2>5. \A u \in Threads : y + E[u] <= Limit + m
      BY <1>3, <1>4, <1>5, <2>1, <2>3
    <2>6. ASSUME NEW u \in Threads, NEW v \in Threads, u # v
          PROVE  y + E[u] + E[v] <= Limit + m
      <3>1. x + D[u] + D[v] <= Limit + m
        BY <1>5, <2>6
      <3> QED BY <1>3, <1>4, <2>1, <2>3, <3>1
    <2>7. ASSUME NEW u \in R, NEW v \in Threads
          PROVE  y + E[v] <= Limit \/ y + E[v] <= G[u] + m
      <3>1. u \in S /\ G[u] <= F[u] /\ F[u] - G[u] <= x - y /\ F[u] \in Nat /\ G[u] \in Nat
        BY <1>3, <1>4, <2>2
      <3>2. x + D[v] <= Limit \/ x + D[v] <= F[u] + m
        BY <1>5, <3>1
      <3> QED BY <1>3, <1>4, <2>1, <2>3, <3>1, <3>2
    <2>8. ASSUME NEW u \in R, NEW v \in R, u # v PROVE y <= G[u] \/ y <= G[v]
      <3>1. /\ u \in S /\ F[u] - G[u] <= x - y /\ F[u] \in Nat /\ G[u] \in Nat
            /\ v \in S /\ F[v] - G[v] <= x - y /\ F[v] \in Nat /\ G[v] \in Nat
        BY <1>3, <1>4, <2>2
      <3>2. x <= F[u] \/ x <= F[v]
        BY <1>5, <2>8, <3>1
      <3> QED BY <1>3, <1>4, <3>1, <3>2
    <2> QED BY <2>4, <2>5, <2>6, <2>7, <2>8 DEF Bounded
  <1> HIDE DEF Bounded
  <1> QED BY <1>8, <1>9, <1>10

LEMMA ApartInit ==
  ASSUME Sizes # {}
  PROVE  Init => ApartInv
  <1> SUFFICES ASSUME Init PROVE ApartInv
    OBVIOUS
  <1>1. CountInv
    BY CountInit
  <1>2. \A t \in Threads : pc[t] = "idle"
    BY DEF Init, NoCalls
  <1>3. NoThree
    BY <1>2 DEF NoThree, Active
  <1>4. Usage = 0
    BY NothingUsed
  <1>5. \A t \in Threads : Due(t) = 0 /\ ~Scans(t)
    BY <1>2 DEF Due, Recording, Scans, Scanning
  <1>6. Limit \in Nat /\ Largest \in Nat
    BY <1>1, QuotaType, LargestSize
  <1>7. ApartQuota
    BY <1>4, <1>5, <1>6 DEF ApartQuota
  <1> QED BY <1>1, <1>3, <1>7 DEF ApartInv

LEMMA AtMostTwo ==
  ASSUME IsFiniteSet(Threads), AtMost(2, Active)'
  PROVE  NoThree'
  <1> DEFINE A == Active'
  <1>1. A \subseteq Threads /\ IsFiniteSet(A)
    BY FS_Subset DEF Active
  <1>2. Cardinality(A) \in Nat /\ Cardinality(A) <= 2
    BY <1>1, FS_CardinalityType DEF AtMost
  <1>3. ASSUME NEW t \in A, NEW u \in A, NEW v \in A PROVE t = u \/ t = v \/ u = v
    <2> SUFFICES ASSUME t # u, t # v, u # v PROVE FALSE
      OBVIOUS
    <2> HIDE DEF A
    <2>1. IsFiniteSet({t}) /\ Cardinality({t}) = 1
      BY FS_Singleton
    <2>2. IsFiniteSet({t} \cup {u}) /\ Cardinality({t} \cup {u}) = 2
      <3>1. u \notin {t}
        OBVIOUS
      <3>2. /\ IsFiniteSet({t} \cup {u})
            /\ Cardinality({t} \cup {u}) = Cardinality({t}) + 1
        BY <2>1, <3>1, FS_AddElement
      <3> QED BY <2>1, <3>2
    <2>3. v \notin {t} \cup {u}
      OBVIOUS
    <2>4. IsFiniteSet(({t} \cup {u}) \cup {v}) /\ Cardinality(({t} \cup {u}) \cup {v}) = 3
      <3>1. /\ IsFiniteSet(({t} \cup {u}) \cup {v})
            /\ Cardinality(({t} \cup {u}) \cup {v}) = Cardinality({t} \cup {u}) + 1
        BY <2>2, <2>3, FS_AddElement
      <3> QED BY <2>2, <3>1
    <2>5. ({t} \cup {u}) \cup {v} \in SUBSET A
      OBVIOUS
    <2>6. Cardinality(({t} \cup {u}) \cup {v}) <= Cardinality(A)
      BY <1>1, <2>5, FS_Subset
    <2> QED BY <1>2, <2>4, <2>6
  <1> QED BY <1>3 DEF NoThree

LEMMA ApartStep ==
  ASSUME OneThread, SeesAll, "pitch" \notin AllocKinds, Sizes # {}, SumFits,
         IsFiniteSet(Threads)
  PROVE  ApartInv /\ [ApartNext]_vars => ApartInv'
  <1> SUFFICES ASSUME ApartInv, [ApartNext]_vars PROVE ApartInv'
    OBVIOUS
  <1>1. CountInv /\ KeptInv /\ [AloneNext]_vars
    BY ApartIsAlone DEF ApartInv, CountInv
  <1>2. KeptInv'
    BY <1>1, KeptStep
  <1>3. \A u \in Threads : Scans(u) => Fits(u)
    BY <1>1, ApartFits
  <1>4. /\ \A u \in Threads : Counts(u)'
        /\ (\E t \in Threads : Quietly(t) \/ Adopts(t)) \/ Ends
    BY <1>1, <1>2, <1>3, QuotaStep
  <1>5. CountInv'
    BY <1>1, <1>2, <1>4, SizesStep DEF CountInv
  <1>6. NoThree'
    <2>1. CASE ApartNext
      BY <2>1, AtMostTwo DEF ApartNext
    <2>2. CASE UNCHANGED vars
      BY <2>2 DEF vars, NoThree, Active, ApartInv
    <2> QED BY <2>1, <2>2
  <1>7. ApartQuota'
    BY <1>4, <1>5, ApartQuotaStep
  <1> QED BY <1>5, <1>6, <1>7 DEF ApartInv

(* Two calls that overlap anywhere but inside add_gmem: the first          *)
(* allocations of the existing processes overshoot GPU_MEM_LIMIT by one    *)
(* request at most, however many such pairs follow each other.             *)
THEOREM OvershootIsOneRequest ==
  ASSUME OneThread, SeesAll, "pitch" \notin AllocKinds, Sizes # {}, SumFits,
         IsFiniteSet(Threads)
  PROVE  ApartSpec => []HeadOvershoot
  <1>1. Init => ApartInv
    BY ApartInit
  <1>2. ApartInv /\ [ApartNext]_vars => ApartInv'
    BY ApartStep
  <1>3. ApartInv => HeadOvershoot
    BY UsageIsHeadSum DEF ApartInv, ApartQuota, HeadOvershoot, Largest
  <1> QED BY <1>1, <1>2, <1>3, PTL DEF ApartSpec

(***************************************************************************)
(* Walks                                                                   *)
(***************************************************************************)
LEMMA WalkType ==
  \A n \in Nodes : \A s \in Walks(n) :
    /\ s \in Seq(Slots) /\ Len(s) \in Nat /\ Len(s) <= NG
    /\ DOMAIN s = 1..Len(s) /\ s \in [1..Len(s) -> Slots]
    /\ (s = <<>> <=> Len(s) = 0) /\ IsWalk(s, n)
  <1> SUFFICES ASSUME NEW n \in Nodes, NEW s \in Walks(n)
               PROVE  /\ s \in Seq(Slots) /\ Len(s) \in Nat /\ Len(s) <= NG
                      /\ DOMAIN s = 1..Len(s) /\ s \in [1..Len(s) -> Slots]
                      /\ (s = <<>> <=> Len(s) = 0) /\ IsWalk(s, n)
    OBVIOUS
  <1>1. PICK k \in 0..NG : s \in [1..k -> Slots]
    BY DEF Walks
  <1>2. k \in Nat /\ k <= NG
    BY TableAssumption
  <1>3. s \in Seq(Slots)
    BY <1>1, <1>2, SeqDef
  <1>4. Len(s) \in Nat /\ DOMAIN s = 1..Len(s) /\ s \in [1..Len(s) -> Slots]
    BY <1>3, LenProperties
  <1>5. DOMAIN s = 1..k
    BY <1>1
  <1>6. Len(s) = k
    <2>1. PICK l \in Nat : l = Len(s)
      BY <1>4
    <2>2. 1..l = 1..k
      BY <1>4, <1>5, <2>1
    <2>3. l = k
      BY <1>2, <2>2
    <2> QED BY <2>1, <2>3
  <1>7. s = <<>> <=> Len(s) = 0
    BY <1>3, EmptySeq
  <1> QED BY <1>2, <1>3, <1>4, <1>6, <1>7 DEF Walks

LEMMA WalkIs ==
  ASSUME NEW n \in Nodes, NEW s \in Seq(Slots), Len(s) <= NG, IsWalk(s, n)
  PROVE  s \in Walks(n)
  <1>1. Len(s) \in Nat /\ s \in [1..Len(s) -> Slots]
    BY LenProperties
  <1>2. Len(s) \in 0..NG
    BY <1>1, TableAssumption
  <1> QED BY <1>1, <1>2 DEF Walks

(* There is one walk at most: it is the links that say where it goes on.   *)
LEMMA WalksAgree ==
  ASSUME NEW n \in Nodes, NEW s \in Walks(n), NEW u \in Walks(n),
         NEW i \in DOMAIN s, i \in DOMAIN u
  PROVE  s[i] = u[i]
  <1>1. /\ DOMAIN s = 1..Len(s) /\ Len(s) \in Nat /\ IsWalk(s, n)
        /\ DOMAIN u = 1..Len(u) /\ Len(u) \in Nat /\ IsWalk(u, n)
        /\ (s = <<>> <=> Len(s) = 0) /\ (u = <<>> <=> Len(u) = 0)
    BY WalkType
  <1> DEFINE T == {j \in Nat : j \in DOMAIN s /\ j \in DOMAIN u /\ s[j] # u[j]}
  <1> SUFFICES ASSUME T # {} PROVE FALSE
    BY <1>1
  <1>2. PICK j \in T : \A x \in T : j <= x
    BY LeastOf
  <1>3. j \in Nat /\ j \in 1..Len(s) /\ j \in 1..Len(u) /\ s[j] # u[j]
    BY <1>1, <1>2
  <1>4. j # 1
    BY <1>1, <1>3 DEF IsWalk
  <1>5. j - 1 \in Nat /\ j - 1 \in 1..(Len(s) - 1) /\ j - 1 \in 1..(Len(u) - 1)
    BY <1>1, <1>3, <1>4
  <1>6. gmem[s[j - 1]].next = s[j] /\ gmem[u[j - 1]].next = u[j]
    <2>1. (j - 1) + 1 = j
      BY <1>3
    <2> QED BY <1>1, <1>5, <2>1 DEF IsWalk
  <1>7. s[j - 1] = u[j - 1]
    <2>1. j - 1 \notin T
      BY <1>2, <1>3
    <2>2. j - 1 \in 1..Len(s) /\ j - 1 \in 1..Len(u)
      BY <1>1, <1>5
    <2> QED BY <1>1, <1>5, <2>1, <2>2
  <1> QED BY <1>3, <1>6, <1>7

LEMMA WalkLonger ==
  ASSUME NEW n \in Nodes, NEW s \in Walks(n), NEW u \in Walks(n), TypeOK
  PROVE  ~(Len(s) < Len(u))
  <1>1. /\ DOMAIN s = 1..Len(s) /\ Len(s) \in Nat /\ IsWalk(s, n)
        /\ DOMAIN u = 1..Len(u) /\ Len(u) \in Nat /\ IsWalk(u, n)
        /\ (s = <<>> <=> Len(s) = 0) /\ (u = <<>> <=> Len(u) = 0)
        /\ u \in [1..Len(u) -> Slots]
    BY WalkType
  <1> SUFFICES ASSUME Len(s) < Len(u) PROVE FALSE
    OBVIOUS
  <1>2. Len(s) # 0
    BY <1>1 DEF IsWalk
  <1>3. PICK k \in Nat : k = Len(s)
    BY <1>1
  <1>4. k \in DOMAIN s /\ k \in DOMAIN u /\ k \in 1..(Len(u) - 1) /\ k + 1 \in 1..Len(u)
    BY <1>1, <1>2, <1>3
  <1>5. s[k] = u[k]
    BY <1>4, WalksAgree
  <1>6. gmem[s[k]].next = -1
    BY <1>1, <1>2, <1>3 DEF IsWalk
  <1>7. gmem[u[k]].next = u[k + 1] /\ u[k + 1] \in Slots
    BY <1>1, <1>4 DEF IsWalk
  <1> QED BY <1>5, <1>6, <1>7 DEF Slots

LEMMA OneWalk ==
  TypeOK => \A n \in Nodes : \A s, u \in Walks(n) : s = u
  <1> SUFFICES ASSUME TypeOK, NEW n \in Nodes, NEW s \in Walks(n), NEW u \in Walks(n)
               PROVE  s = u
    OBVIOUS
  <1>1. /\ DOMAIN s = 1..Len(s) /\ Len(s) \in Nat /\ s \in [1..Len(s) -> Slots]
        /\ DOMAIN u = 1..Len(u) /\ Len(u) \in Nat /\ u \in [1..Len(u) -> Slots]
    BY WalkType
  <1>2. Len(s) = Len(u)
    <2>1. ~(Len(s) < Len(u)) /\ ~(Len(u) < Len(s))
      BY WalkLonger
    <2>2. PICK k, l \in Nat : k = Len(s) /\ l = Len(u)
      BY <1>1
    <2>3. ~(k < l) /\ ~(l < k)
      BY <2>1, <2>2
    <2>4. k = l
      BY <2>3
    <2> QED BY <2>2, <2>4
  <1>3. \A i \in DOMAIN s : s[i] = u[i]
    BY <1>1, <1>2, WalksAgree
  <1> QED BY <1>1, <1>2, <1>3

(***************************************************************************)
(* The list of a process                                                   *)
(***************************************************************************)
LEMMA BookIs ==
  TypeOK /\ UniqueKey =>
    \A p \in Procs, n \in Nodes : \A s \in Walks(n) :
      Existing(n) /\ rnode[n].key = p => Book(p) = [i \in DOMAIN s |-> gmem[s[i]].bytes]
  <1> SUFFICES ASSUME TypeOK, UniqueKey, NEW p \in Procs, NEW n \in Nodes,
                      NEW s \in Walks(n), Existing(n), rnode[n].key = p
               PROVE  Book(p) = [i \in DOMAIN s |-> gmem[s[i]].bytes]
    OBVIOUS
  <1>1. NodesOf(p) = {n}
    BY DEF NodesOf, UniqueKey
  <1>2. Walks(n) = {s}
    BY OneWalk
  <1>3. UNION {Walks(m) : m \in NodesOf(p)} = {s}
    BY <1>1, <1>2
  <1> DEFINE walks == UNION {Walks(m) : m \in NodesOf(p)}
             walk == CHOOSE x \in walks : TRUE
  <1>4. walks = {s} /\ walks # {}
    BY <1>3
  <1>5. walk = s
    BY <1>4
  <1>6. Book(p) = IF walks = {} THEN <<>> ELSE [i \in DOMAIN walk |-> gmem[walk[i]].bytes]
    BY DEF Book
  <1> HIDE DEF walks, walk
  <1> QED BY <1>4, <1>5, <1>6

LEMMA BookNone ==
  \A p \in Procs : NodesOf(p) = {} => Book(p) = <<>>
  <1> SUFFICES ASSUME NEW p \in Procs, NodesOf(p) = {} PROVE Book(p) = <<>>
    OBVIOUS
  <1>1. UNION {Walks(n) : n \in NodesOf(p)} = {}
    OBVIOUS
  <1> QED BY <1>1 DEF Book

(* The same facts of the state after a step.                               *)
LEMMA BookIsAfter ==
  (TypeOK /\ UniqueKey =>
    \A p \in Procs, n \in Nodes : \A s \in Walks(n) :
      Existing(n) /\ rnode[n].key = p => Book(p) = [i \in DOMAIN s |-> gmem[s[i]].bytes])'
  BY BookIs, PTL

LEMMA BookNoneAfter == (\A p \in Procs : NodesOf(p) = {} => Book(p) = <<>>)'
  BY BookNone, PTL

(* The sizes along a walk are as many as its records.                      *)
LEMMA SizesAlong ==
  TypeOK => \A n \in Nodes : \A s \in Walks(n) :
    LET b == [i \in DOMAIN s |-> gmem[s[i]].bytes] IN
    b \in Seq(Bytes) /\ Len(b) = Len(s) /\ (b = <<>> <=> s = <<>>)
  <1> SUFFICES ASSUME TypeOK, NEW n \in Nodes, NEW s \in Walks(n)
               PROVE  LET b == [i \in DOMAIN s |-> gmem[s[i]].bytes] IN
                      b \in Seq(Bytes) /\ Len(b) = Len(s) /\ (b = <<>> <=> s = <<>>)
    OBVIOUS
  <1> DEFINE b == [i \in DOMAIN s |-> gmem[s[i]].bytes]
  <1>1. /\ DOMAIN s = 1..Len(s) /\ Len(s) \in Nat /\ s \in [1..Len(s) -> Slots]
        /\ (s = <<>> <=> Len(s) = 0)
    BY WalkType
  <1>2. PICK k \in Nat : k = Len(s)
    BY <1>1
  <1>3. \A i \in 1..k : gmem[s[i]].bytes \in Bytes
    BY <1>1, <1>2 DEF TypeOK, GMems
  <1>4. b \in [1..k -> Bytes]
    BY <1>1, <1>2, <1>3
  <1>5. b \in Seq(Bytes)
    BY <1>4, SeqDef
  <1>6. PICK l \in Nat : l = Len(b) /\ DOMAIN b = 1..l
    BY <1>5, LenProperties
  <1>7. 1..l = 1..k
    BY <1>4, <1>6
  <1>8. l = k
    BY <1>7
  <1>9. b = <<>> <=> Len(b) = 0
    BY <1>5, EmptySeq
  <1> QED BY <1>1, <1>2, <1>5, <1>6, <1>8, <1>9

(***************************************************************************)
(* The inductive invariant: the walk of a node meets its chain, each       *)
(* record once.                                                            *)
(***************************************************************************)
Along(s, n) ==
  /\ {s[i] : i \in DOMAIN s} = Chain(n)
  /\ \A i, j \in DOMAIN s : s[i] = s[j] => i = j
Ordered == \A n \in Nodes : Existing(n) => \E s \in Walks(n) : Along(s, n)

LedgerInv == HoldInv /\ LeakInv /\ Ordered

LEMMA AlongChain ==
  \A n \in Nodes : \A s \in Walks(n) : Along(s, n) =>
    /\ \A i \in 1..Len(s) : s[i] \in Chain(n)
    /\ \A g \in Chain(n) : \E i \in 1..Len(s) : s[i] = g
  BY WalkType DEF Along

(* A step that leaves the way of node n alone.                             *)
SameWay(n) ==
  /\ rnode'[n].entry = rnode[n].entry
  /\ Chain(n)' = Chain(n)
  /\ \A g \in Chain(n) :
       gmem'[g].next = gmem[g].next /\ gmem'[g].bytes = gmem[g].bytes

LEMMA WayStays ==
  ASSUME NEW n \in Nodes, SameWay(n), NEW s \in Walks(n), Along(s, n)
  PROVE  s \in Walks(n)' /\ Along(s, n)'
  <1>1. /\ DOMAIN s = 1..Len(s) /\ Len(s) \in Nat /\ IsWalk(s, n)
        /\ (s = <<>> <=> Len(s) = 0)
    BY WalkType
  <1>2. \A i \in 1..Len(s) : s[i] \in Chain(n)
    BY AlongChain
  <1>3. IsWalk(s, n)'
    <2>1. s = <<>> <=> rnode'[n].entry = -1
      BY <1>1 DEF IsWalk, SameWay
    <2>2. ASSUME s # <<>> PROVE s[1] = rnode'[n].entry /\ gmem'[s[Len(s)]].next = -1
      <3>1. Len(s) \in 1..Len(s)
        BY <1>1, <2>2
      <3> QED BY <1>1, <1>2, <2>2, <3>1 DEF IsWalk, SameWay
    <2>3. ASSUME NEW i \in 1..(Len(s) - 1) PROVE gmem'[s[i]].next = s[i + 1]
      <3>1. i \in 1..Len(s)
        BY <1>1
      <3> QED BY <1>1, <1>2, <3>1 DEF IsWalk, SameWay
    <2> QED BY <2>1, <2>2, <2>3 DEF IsWalk
  <1>4. s \in UNION {[1..k -> Slots] : k \in 0..NG}
    BY DEF Walks
  <1> QED BY <1>3, <1>4 DEF Walks, Along, SameWay

(* A node without records has the empty walk.                              *)
LEMMA EmptyWalkAfter ==
  ASSUME NEW n \in Nodes, rnode'[n].entry = -1
  PROVE  <<>> \in Walks(n)' /\ Along(<<>>, n)'
  <1>1. <<>> \in Seq(Slots) /\ Len(<<>>) = 0
    BY EmptySeq
  <1>2. 1..(Len(<<>>) - 1) = {}
    BY <1>1
  <1>3. IsWalk(<<>>, n)'
    BY <1>2 DEF IsWalk
  <1>4. 0 \in 0..NG /\ <<>> \in [1..0 -> Slots]
    BY TableAssumption
  <1>5. Chain(n)' = {}
    BY ChainEmptyAfter
  <1>6. DOMAIN <<>> = {}
    OBVIOUS
  <1> QED BY <1>3, <1>4, <1>5, <1>6 DEF Walks, Along

LEMMA BookStays ==
  ASSUME TypeOK, UniqueKey, TypeOK', UniqueKey', Ordered, NodesGrow, NEW p \in Procs,
         \A n \in Nodes : Existing(n) /\ rnode[n].key = p => SameWay(n)
  PROVE  Book(p)' = Book(p)
  <1>1. CASE NodesOf(p) # {}
    <2>1. PICK n \in Nodes : Existing(n) /\ rnode[n].key = p
      BY <1>1 DEF NodesOf
    <2>2. PICK s \in Walks(n) : Along(s, n)
      BY <2>1 DEF Ordered
    <2>3. SameWay(n) /\ s \in Walks(n)' /\ Existing(n)' /\ rnode'[n].key = p
      BY <2>1, <2>2, WayStays DEF NodesGrow
    <2>4. Book(p) = [i \in DOMAIN s |-> gmem[s[i]].bytes]
      BY <2>1, BookIs
    <2>5. Book(p)' = [i \in DOMAIN s |-> gmem'[s[i]].bytes]
      BY <2>3, BookIsAfter
    <2>6. \A i \in DOMAIN s : gmem'[s[i]].bytes = gmem[s[i]].bytes
      BY <2>2, <2>3, AlongChain, WalkType DEF SameWay
    <2> QED BY <2>4, <2>5, <2>6
  <1>2. CASE NodesOf(p) = {}
    <2>1. Book(p) = <<>>
      BY <1>2, BookNone
    <2>2. CASE NodesOf(p)' = {}
      BY <2>1, <2>2, BookNoneAfter
    <2>3. CASE NodesOf(p)' # {}
      <3>1. PICK n \in Nodes : Existing(n)' /\ rnode'[n].key = p
        BY <2>3 DEF NodesOf
      <3>2. rnode'[n].entry = -1
        BY <1>2, <3>1 DEF NodesGrow, NodesOf
      <3>3. <<>> \in Walks(n)'
        BY <3>2, EmptyWalkAfter
      <3>5. Book(p)' = [i \in DOMAIN <<>> |-> gmem'[<<>>[i]].bytes]
        BY <3>1, <3>3, BookIsAfter
      <3>6. [i \in DOMAIN <<>> |-> gmem'[<<>>[i]].bytes] = <<>>
        OBVIOUS
      <3> QED BY <2>1, <3>5, <3>6
    <2> QED BY <2>2, <2>3
  <1> QED BY <1>1, <1>2

(***************************************************************************)
(* What a process has from the driver and has not recorded                 *)
(***************************************************************************)
LEMMA PendingIs ==
  OneThread => \A p \in Procs, t \in Threads :
    Me(t) = p => Pending(p) = IF InAddGmem(t) THEN arg[t].bytes ELSE 0
  <1> SUFFICES ASSUME OneThread, NEW p \in Procs, NEW t \in Threads, Me(t) = p
               PROVE  Pending(p) = IF InAddGmem(t) THEN arg[t].bytes ELSE 0
    OBVIOUS
  <1> DEFINE adding == {u \in Threads : Me(u) = p /\ InAddGmem(u)}
  <1>1. adding = IF InAddGmem(t) THEN {t} ELSE {}
    BY DEF OneThread
  <1>2. Pending(p) = IF adding = {} THEN 0 ELSE arg[CHOOSE u \in adding : TRUE].bytes
    BY DEF Pending
  <1> HIDE DEF adding
  <1> QED BY <1>1, <1>2

LEMMA PendingNone ==
  \A p \in Procs : (\A t \in Threads : Me(t) = p => ~InAddGmem(t)) => Pending(p) = 0
  <1> SUFFICES ASSUME NEW p \in Procs, \A t \in Threads : Me(t) = p => ~InAddGmem(t)
               PROVE  Pending(p) = 0
    OBVIOUS
  <1>1. {t \in Threads : Me(t) = p /\ InAddGmem(t)} = {}
    OBVIOUS
  <1> QED BY <1>1 DEF Pending

LEMMA PendingIsAfter ==
  (OneThread => \A p \in Procs, t \in Threads :
    Me(t) = p => Pending(p) = IF InAddGmem(t) THEN arg[t].bytes ELSE 0)'
  BY PendingIs, PTL

LEMMA PendingNoneAfter ==
  (\A p \in Procs : (\A t \in Threads : Me(t) = p => ~InAddGmem(t)) => Pending(p) = 0)'
  BY PendingNone, PTL

(* A thread that is inside add_gmem before and after the step or not at    *)
(* all, for the same request.                                              *)
SamePending(u) ==
  /\ InAddGmem(u)' <=> InAddGmem(u)
  /\ InAddGmem(u) => arg'[u].bytes = arg[u].bytes

LEMMA PendingStays ==
  ASSUME OneThread, NEW p \in Procs, \A u \in Threads : Me(u) = p => SamePending(u)
  PROVE  Pending(p)' = Pending(p)
  <1>1. CASE \E t \in Threads : Me(t) = p
    <2>1. PICK t \in Threads : Me(t) = p
      BY <1>1
    <2>2. Pending(p) = IF InAddGmem(t) THEN arg[t].bytes ELSE 0
      BY <2>1, PendingIs
    <2>3. OneThread' /\ Me(t)' = p
      BY <2>1 DEF OneThread, Me
    <2>4. Pending(p)' = IF InAddGmem(t)' THEN arg'[t].bytes ELSE 0
      BY <2>3, PendingIsAfter
    <2> QED BY <2>1, <2>2, <2>4 DEF SamePending
  <1>2. CASE ~\E t \in Threads : Me(t) = p
    <2>1. Pending(p) = 0
      BY <1>2, PendingNone
    <2>2. \A t \in Threads : Me(t)' # p
      BY <1>2 DEF Me
    <2>3. Pending(p)' = 0
      BY <2>2, PendingNoneAfter
    <2> QED BY <2>1, <2>3
  <1> QED BY <1>1, <1>2

(***************************************************************************)
(* Steps that change no list                                               *)
(***************************************************************************)
SameBooks == Ordered' /\ \A p \in Procs : Book(p)' = Book(p)

LEMMA WaysStay ==
  ASSUME KeptInv, KeptInv', Ordered, NodesGrow, \A n \in Nodes : Existing(n) => SameWay(n)
  PROVE  SameBooks
  <1>1. ASSUME NEW n \in Nodes, Existing(n)' PROVE \E s \in Walks(n)' : Along(s, n)'
    <2>1. CASE Existing(n)
      BY <2>1, WayStays DEF Ordered
    <2>2. CASE ~Existing(n)
      BY <1>1, <2>2, EmptyWalkAfter DEF NodesGrow
    <2> QED BY <2>1, <2>2
  <1>2. \A p \in Procs : Book(p)' = Book(p)
    BY BookStays DEF KeptInv, BaseInv, TypeInv, NodeInv
  <1> QED BY <1>1, <1>2 DEF SameBooks, Ordered

LEMMA BooksOfSameShm ==
  ASSUME KeptInv, KeptInv', Ordered, UNCHANGED shm
  PROVE  SameBooks
  <1>1. NodesGrow
    BY SameGrows DEF Grows
  <1>2. \A n \in Nodes : SameWay(n)
    BY SameShm DEF SameWay, shm
  <1> QED BY <1>1, <1>2, WaysStay

LEMMA BooksOfInsertAssign ==
  ASSUME KeptInv, KeptInv', Ordered, NEW t \in Threads, InsertAssign(t)
  PROVE  SameBooks
  <1>1. NodesGrow
    BY CodeGrows DEF Grows, InCode
  <1>2. PICK m : m = Hash(Me(t), cnt[t]) /\ ~Existing(m)
    BY DEF KeptInv, Chained, Held, InsertAssign
  <1>3. gmem' = gmem /\ \A n \in Nodes : n # m => rnode'[n] = rnode[n]
    BY <1>2 DEF InsertAssign, KeptInv, BaseInv, TypeInv, TypeOK
  <1>4. ASSUME NEW n \in Nodes, Existing(n) PROVE SameWay(n)
    <2>1. rnode'[n].entry = rnode[n].entry
      BY <1>2, <1>3, <1>4
    <2>2. \A g \in Chain(n) : ~Empty(gmem'[g])
      BY <1>3, ChainUsed
    <2>3. Chain(n)' = Chain(n)
      BY <1>3, <1>4, <2>1, <2>2, ChainAgrees DEF KeptInv, BaseInv, Chained
    <2> QED BY <1>3, <2>1, <2>3 DEF SameWay
  <1> QED BY <1>1, <1>4, WaysStay

LEMMA BooksOfPushClaim ==
  ASSUME KeptInv, KeptInv', Ordered, NEW t \in Threads, PushClaim(t)
  PROVE  SameBooks
  <1>1. NodesGrow
    BY CodeGrows DEF Grows, InCode
  <1>2. PICK c : c = cnt[t] /\ Empty(gmem[c])
    BY DEF KeptInv, Chained, Held, PushClaim
  <1>3. rnode' = rnode /\ \A g \in Slots : g # c => gmem'[g] = gmem[g]
    BY <1>2 DEF PushClaim, KeptInv, BaseInv, TypeInv, TypeOK
  <1>4. ASSUME NEW n \in Nodes, Existing(n) PROVE SameWay(n)
    <2>1. \A g \in Chain(n) : gmem'[g] = gmem[g] /\ ~Empty(gmem'[g])
      BY <1>2, <1>3, ChainUsed, ChainInSlots
    <2>2. rnode'[n].entry = rnode[n].entry
      BY <1>3
    <2>3. Chain(n)' = Chain(n)
      BY <1>4, <2>1, <2>2, ChainAgrees DEF KeptInv, BaseInv, Chained
    <2> QED BY <2>1, <2>2, <2>3 DEF SameWay
  <1> QED BY <1>1, <1>4, WaysStay

(* Nothing to link: the setters write -1 over -1.                          *)
LEMMA BooksOfSameFields ==
  ASSUME KeptInv, KeptInv', Ordered, NodesGrow, SameFields
  PROVE  SameBooks
  <1>1. ASSUME NEW n \in Nodes, Existing(n) PROVE SameWay(n)
    <2>1. \A g \in Chain(n) :
            /\ gmem'[g].next = gmem[g].next /\ gmem'[g].bytes = gmem[g].bytes
            /\ ~Empty(gmem'[g])
      BY ChainUsed, ChainInSlots DEF SameFields, Empty
    <2>2. rnode'[n].entry = rnode[n].entry
      BY DEF SameFields
    <2>3. Chain(n)' = Chain(n)
      BY <1>1, <2>1, <2>2, ChainAgrees DEF KeptInv, BaseInv, Chained
    <2> QED BY <2>1, <2>2, <2>3 DEF SameWay
  <1> QED BY <1>1, WaysStay

(***************************************************************************)
(* Steps that append to a list                                             *)
(***************************************************************************)
(* The way of node m goes on to record g.                                  *)
WayGoesOn(s, m, g) ==
  /\ gmem'[g].next = -1
  /\ Chain(m)' = Chain(m) \cup {g}
  /\ IF s = <<>>
     THEN rnode'[m].entry = g
     ELSE /\ rnode'[m].entry = rnode[m].entry
          /\ gmem'[s[Len(s)]].next = g
          /\ \A f \in Chain(m) : f # s[Len(s)] => gmem'[f].next = gmem[f].next

LEMMA WalkAppends ==
  ASSUME TypeOK, NEW m \in Nodes, NEW s \in Walks(m), Along(s, m),
         NEW g \in Slots, g \notin Chain(m), WayGoesOn(s, m, g)
  PROVE  Append(s, g) \in Walks(m)' /\ Along(Append(s, g), m)'
  <1>1. /\ s \in Seq(Slots) /\ Len(s) \in Nat /\ DOMAIN s = 1..Len(s) /\ IsWalk(s, m)
        /\ (s = <<>> <=> Len(s) = 0)
    BY WalkType
  <1> DEFINE r == Append(s, g)
  <1>2. PICK k \in Nat : k = Len(s)
    BY <1>1
  <1>3. /\ r \in Seq(Slots) /\ r # <<>> /\ Len(r) = k + 1
        /\ \A i \in 1..k : r[i] = s[i]
        /\ r[k + 1] = g
    BY <1>1, <1>2, AppendProperties
  <1>4. r \in [1..(k + 1) -> Slots] /\ DOMAIN r = 1..(k + 1)
    BY <1>3, LenProperties
  <1> HIDE DEF r
  <1>5. \A i \in 1..k : s[i] \in Chain(m) /\ s[i] # g
    BY <1>2, AlongChain
  <1>6. \A i, j \in 1..k : s[i] = s[j] => i = j
    BY <1>1, <1>2 DEF Along
  <1>7. ASSUME NEW i \in 1..(k + 1), NEW j \in 1..(k + 1), r[i] = r[j] PROVE i = j
    <2>1. i \in 1..k \/ i = k + 1
      BY <1>2
    <2>2. j \in 1..k \/ j = k + 1
      BY <1>2
    <2> QED BY <1>3, <1>5, <1>6, <1>7, <2>1, <2>2
  <1>8. k + 1 <= NG
    <2>1. IsFiniteSet(Slots) /\ Cardinality(Slots) = NG
      BY FS_Interval, TableAssumption DEF Slots
    <2>2. r \in Injection(1..(k + 1), Slots)
      BY <1>4, <1>7 DEF Injection, IsInjective
    <2>3. Cardinality(1..(k + 1)) <= Cardinality(Slots)
      BY <2>1, <2>2, FS_Injection
    <2>4. Cardinality(1..(k + 1)) = k + 1
      BY FS_Interval
    <2> QED BY <2>1, <2>3, <2>4
  <1>9. IsWalk(r, m)'
    <2>1. r # <<>> /\ rnode'[m].entry # -1 /\ r[1] = rnode'[m].entry
      <3>1. CASE s = <<>>
        <4>1. k + 1 = 1
          BY <1>1, <1>2, <3>1
        <4> QED BY <1>3, <3>1, <4>1 DEF WayGoesOn, Slots
      <3>2. CASE s # <<>>
        <4>1. 1 \in 1..k
          BY <1>1, <1>2, <3>2
        <4>2. s[1] = rnode[m].entry /\ rnode[m].entry # -1
          BY <1>1, <3>2 DEF IsWalk
        <4> QED BY <1>3, <3>2, <4>1, <4>2 DEF WayGoesOn
      <3> QED BY <3>1, <3>2
    <2>2. gmem'[r[k + 1]].next = -1
      BY <1>3 DEF WayGoesOn
    <2>3. ASSUME NEW i \in 1..k PROVE gmem'[r[i]].next = r[i + 1]
      <3>1. s # <<>>
        BY <1>1, <1>2
      <3>2. CASE i = k
        BY <1>2, <1>3, <3>1, <3>2 DEF WayGoesOn
      <3>3. CASE i # k
        <4>1. i \in 1..(k - 1) /\ i + 1 \in 1..k /\ k \in 1..k
          BY <3>3
        <4>2. gmem[s[i]].next = s[i + 1]
          BY <1>1, <1>2, <4>1 DEF IsWalk
        <4>3. s[i] # s[k]
          BY <1>6, <3>3, <4>1
        <4>4. gmem'[s[i]].next = gmem[s[i]].next
          BY <1>2, <1>5, <3>1, <4>3 DEF WayGoesOn
        <4> QED BY <1>3, <4>1, <4>2, <4>4
      <3> QED BY <3>2, <3>3
    <2>4. Len(r) - 1 = k
      BY <1>3
    <2> QED BY <1>3, <2>1, <2>2, <2>3, <2>4 DEF IsWalk
  <1>10. k + 1 \in 0..NG
    BY <1>8, TableAssumption
  <1>11. {r[i] : i \in 1..(k + 1)} = Chain(m)'
    <2>1. \A i \in 1..(k + 1) : r[i] \in Chain(m) \cup {g}
      <3> SUFFICES ASSUME NEW i \in 1..(k + 1) PROVE r[i] \in Chain(m) \cup {g}
        OBVIOUS
      <3>1. i \in 1..k \/ i = k + 1
        OBVIOUS
      <3> QED BY <1>3, <1>5, <3>1
    <2>2. \A f \in Chain(m) : \E i \in 1..(k + 1) : r[i] = f
      <3> SUFFICES ASSUME NEW f \in Chain(m) PROVE \E i \in 1..(k + 1) : r[i] = f
        OBVIOUS
      <3>1. PICK i \in 1..k : s[i] = f
        BY <1>2, AlongChain
      <3>2. i \in 1..(k + 1)
        OBVIOUS
      <3> QED BY <1>3, <3>1, <3>2
    <2>3. k + 1 \in 1..(k + 1)
      OBVIOUS
    <2> QED BY <1>3, <2>1, <2>2, <2>3 DEF WayGoesOn
  <1>12. Along(r, m)'
    BY <1>4, <1>7, <1>11 DEF Along
  <1>13. r \in Walks(m)'
    BY <1>4, <1>9, <1>10 DEF Walks
  <1> QED BY <1>12, <1>13 DEF r

(* Appending to the way of the process's node appends to its list.         *)
LEMMA BookAppends ==
  ASSUME TypeOK, UniqueKey, TypeOK', UniqueKey', NEW p \in Procs,
         NEW m \in Nodes, Existing(m), rnode[m].key = p, Existing(m)', rnode'[m].key = p,
         NEW s \in Walks(m), Along(s, m), NEW g \in Slots, Append(s, g) \in Walks(m)',
         \A f \in Chain(m) : gmem'[f].bytes = gmem[f].bytes
  PROVE  Book(p)' = Append(Book(p), gmem'[g].bytes)
  <1> DEFINE r == Append(s, g)
             b == [i \in DOMAIN s |-> gmem[s[i]].bytes]
             c == [i \in DOMAIN r |-> gmem'[r[i]].bytes]
  <1>1. /\ s \in Seq(Slots) /\ Len(s) \in Nat /\ DOMAIN s = 1..Len(s)
    BY WalkType
  <1>2. PICK k \in Nat : k = Len(s)
    BY <1>1
  <1>3. /\ r \in Seq(Slots) /\ Len(r) = k + 1
        /\ \A i \in 1..k : r[i] = s[i]
        /\ r[k + 1] = g
    BY <1>1, <1>2, AppendProperties
  <1>4. DOMAIN r = 1..(k + 1)
    BY <1>3, LenProperties
  <1>5. Book(p) = b
    BY BookIs
  <1>6. Book(p)' = c
    BY BookIsAfter
  <1>7. b \in Seq(Bytes) /\ Len(b) = k
    BY <1>2, SizesAlong
  <1>8. gmem'[g].bytes \in Bytes
    BY DEF TypeOK, GMems
  <1>9. PICK x \in Bytes : x = gmem'[g].bytes
    BY <1>8
  <1>10. /\ Append(b, x) \in Seq(Bytes) /\ Len(Append(b, x)) = k + 1
         /\ \A i \in 1..k : Append(b, x)[i] = b[i]
         /\ Append(b, x)[k + 1] = x
    <2> HIDE DEF b
    <2> QED BY <1>7, AppendProperties
  <1>11. DOMAIN Append(b, x) = 1..(k + 1) /\ Append(b, x) \in [1..(k + 1) -> Bytes]
    <2> HIDE DEF b
    <2> QED BY <1>10, LenProperties
  <1>12. \A i \in 1..k : b[i] = gmem[s[i]].bytes /\ s[i] \in Chain(m)
    BY <1>1, <1>2, AlongChain
  <1>13. ASSUME NEW i \in 1..(k + 1) PROVE gmem'[r[i]].bytes = Append(b, x)[i]
    <2> HIDE DEF b, r
    <2>1. CASE i \in 1..k
      BY <1>3, <1>10, <1>12, <2>1
    <2>2. CASE i = k + 1
      BY <1>3, <1>9, <1>10, <2>2
    <2>3. i \in 1..k \/ i = k + 1
      BY <1>2
    <2> QED BY <2>1, <2>2, <2>3
  <1>14. c = Append(b, x)
    <2>1. c = [i \in 1..(k + 1) |-> gmem'[r[i]].bytes]
      BY <1>4
    <2> HIDE DEF b, c, r
    <2> QED BY <1>11, <1>13, <2>1
  <1> QED BY <1>5, <1>6, <1>9, <1>14

(* The record of thread t joins the list of its process.                   *)
Appends(t) ==
  /\ Ordered'
  /\ Book(Me(t))' = Append(Book(Me(t)), arg[t].bytes)
  /\ \A q \in Procs : q # Me(t) => Book(q)' = Book(q)

LEMMA WayAppends ==
  ASSUME KeptInv, KeptInv', Ordered, NodesGrow, NEW t \in Threads, NEW p \in Procs, p = Me(t),
         NEW m \in Nodes, HasNode(t, m), NEW g \in Slots, g \notin Chain(m),
         NEW s \in Walks(m), Along(s, m), WayGoesOn(s, m, g),
         \A f \in Chain(m) : gmem'[f].bytes = gmem[f].bytes,
         gmem'[g].bytes = arg[t].bytes,
         \A n \in Nodes : Existing(n) /\ n # m => SameWay(n)
  PROVE  Ordered' /\ Book(p)' = Append(Book(p), arg[t].bytes)
         /\ \A q \in Procs : q # p => Book(q)' = Book(q)
  <1>1. /\ TypeOK /\ UniqueKey /\ TypeOK' /\ UniqueKey'
        /\ Existing(m) /\ rnode[m].key = p /\ Existing(m)' /\ rnode'[m].key = p
    BY DEF KeptInv, BaseInv, TypeInv, NodeInv, HasNode, NodesGrow
  <1>2. Append(s, g) \in Walks(m)' /\ Along(Append(s, g), m)'
    BY <1>1, WalkAppends
  <1>3. Book(p)' = Append(Book(p), arg[t].bytes)
    BY <1>1, <1>2, BookAppends
  <1>4. ASSUME NEW q \in Procs, q # p PROVE Book(q)' = Book(q)
    <2>1. \A n \in Nodes : Existing(n) /\ rnode[n].key = q => SameWay(n)
      BY <1>1, <1>4
    <2> QED BY <1>1, <2>1, BookStays
  <1>5. ASSUME NEW n \in Nodes, Existing(n)' PROVE \E u \in Walks(n)' : Along(u, n)'
    <2>1. CASE n = m
      BY <1>2, <2>1
    <2>2. CASE n # m /\ Existing(n)
      BY <2>2, WayStays DEF Ordered
    <2>3. CASE ~Existing(n)
      BY <1>5, <2>3, EmptyWalkAfter DEF NodesGrow
    <2> QED BY <2>1, <2>2, <2>3
  <1>6. Ordered'
    BY <1>5 DEF Ordered
  <1> QED BY <1>3, <1>4, <1>6

LEMMA AppendsOfSetEntry ==
  ASSUME KeptInv, KeptInv', Ordered, NEW t \in Threads, SetEntry(t), cur[t] # -1
  PROVE  Appends(t)
  <1>1. NodesGrow
    BY CodeGrows DEF Grows, InCode
  <1>2. node[t] \in Nodes /\ HasNode(t, node[t]) /\ InHand(t) /\ rnode[node[t]].entry = -1
    BY DEF SetEntry, KeptInv, Chained, Held, Registering, Linking
  <1>3. PICK m \in Nodes : m = node[t]
    BY <1>2
  <1>4. PICK g \in Slots : g = cur[t]
    BY <1>2 DEF InHand
  <1>5. PICK p \in Procs : p = Me(t)
    BY ThreadAssumption DEF Me
  <1>6. /\ gmem' = gmem /\ rnode'[m].entry = g
        /\ \A n \in Nodes : n # m => rnode'[n] = rnode[n]
    BY <1>3, <1>4 DEF SetEntry, KeptInv, BaseInv, TypeInv, TypeOK
  <1>7. HasNode(t, m) /\ rnode[m].entry = -1 /\ Chain(m) = {}
    BY <1>2, <1>3, ChainEmpty
  <1>8. gmem[g].next = -1 /\ ~Empty(gmem[g]) /\ gmem[g].bytes = arg[t].bytes
    BY <1>2, <1>4 DEF InHand
  <1>9. Chain(m)' = {g}
    BY <1>6, <1>8, ChainAdopts
  <1>10. PICK s \in Walks(m) : Along(s, m)
    BY <1>7 DEF Ordered, HasNode
  <1>11. s = <<>>
    BY <1>7, <1>10, WalkType DEF IsWalk
  <1>12. WayGoesOn(s, m, g)
    BY <1>6, <1>7, <1>8, <1>9, <1>11 DEF WayGoesOn
  <1>13. ASSUME NEW n \in Nodes, Existing(n), n # m PROVE SameWay(n)
    <2>1. \A f \in Chain(n) : gmem'[f].next = gmem[f].next /\ ~Empty(gmem'[f])
      BY <1>6, ChainUsed
    <2>2. Chain(n)' = Chain(n)
      BY <1>6, <1>13, <2>1, ChainAgrees DEF KeptInv, BaseInv, Chained
    <2> QED BY <1>6, <1>13, <2>2 DEF SameWay
  <1>14. gmem'[g].bytes = arg[t].bytes
    BY <1>6, <1>8
  <1>15. /\ Ordered' /\ Book(p)' = Append(Book(p), arg[t].bytes)
         /\ \A q \in Procs : q # p => Book(q)' = Book(q)
    BY <1>1, <1>5, <1>7, <1>10, <1>12, <1>13, <1>14, WayAppends
  <1>16. Me(t)' = Me(t) /\ Book(Me(t))' = Book(p)'
    BY <1>5 DEF Me
  <1> QED BY <1>5, <1>15, <1>16 DEF Appends

LEMMA AppendsOfLinkTail ==
  ASSUME KeptInv, KeptInv', Ordered, NEW t \in Threads, LinkTail(t), cur[t] # -1
  PROVE  Appends(t)
  <1>1. NodesGrow
    BY CodeGrows DEF Grows, InCode
  <1>2. /\ node[t] \in Nodes /\ HasNode(t, node[t]) /\ InHand(t)
        /\ prv[t] \in Chain(node[t]) /\ gmem[prv[t]].next = -1
    BY DEF LinkTail, KeptInv, Chained, Held, Registering, Linking
  <1>3. PICK m \in Nodes : m = node[t]
    BY <1>2
  <1>4. PICK g \in Slots : g = cur[t]
    BY <1>2 DEF InHand
  <1>5. PICK p \in Procs : p = Me(t)
    BY ThreadAssumption DEF Me
  <1>6. PICK l \in Chain(m) : l = prv[t] /\ l \in Slots /\ gmem[l].next = -1
    BY <1>2, <1>3, ChainInSlots
  <1>7. /\ rnode' = rnode /\ gmem'[l].next = g
        /\ gmem'[l].ptr = gmem[l].ptr /\ gmem'[l].bytes = gmem[l].bytes
        /\ \A f \in Slots : f # l => gmem'[f] = gmem[f]
    BY <1>4, <1>6 DEF LinkTail, KeptInv, BaseInv, TypeInv, TypeOK
  <1>8. /\ HasNode(t, m) /\ g \notin Chain(m) /\ l # g
        /\ gmem[g].next = -1 /\ ~Empty(gmem[g]) /\ gmem[g].bytes = arg[t].bytes
    BY <1>2, <1>3, <1>4, <1>6 DEF InHand, HasNode
  <1>9. gmem'[g].next = -1 /\ ~Empty(gmem'[g]) /\ gmem'[g].bytes = arg[t].bytes
    BY <1>7, <1>8
  <1>10. \A f \in Slots : ~Empty(gmem[f]) => ~Empty(gmem'[f])
    BY <1>7 DEF Empty
  <1>11. Chain(m)' = Chain(m) \cup {g}
    <2>1. \A f \in Chain(m) : ~Empty(gmem'[f])
      BY <1>10, ChainInSlots, ChainUsed
    <2>2. \A f \in Chain(m) \ {l} : gmem'[f].next = gmem[f].next
      BY <1>7, ChainInSlots
    <2> QED BY <1>6, <1>7, <1>8, <1>9, <2>1, <2>2, ChainAppends
            DEF KeptInv, BaseInv, Chained, HasNode
  <1>12. PICK s \in Walks(m) : Along(s, m)
    BY <1>8 DEF Ordered, HasNode
  <1>13. s # <<>> /\ s[Len(s)] = l
    <2>1. /\ DOMAIN s = 1..Len(s) /\ Len(s) \in Nat /\ IsWalk(s, m)
          /\ (s = <<>> <=> Len(s) = 0) /\ s \in [1..Len(s) -> Slots]
      BY WalkType
    <2>2. PICK i \in 1..Len(s) : s[i] = l
      BY <1>12, AlongChain
    <2>3. PICK k \in Nat : k = Len(s)
      BY <2>1
    <2>4. ASSUME i # k PROVE FALSE
      <3>1. i \in 1..(k - 1) /\ i + 1 \in 1..k
        BY <2>2, <2>3, <2>4
      <3>2. gmem[s[i]].next = s[i + 1] /\ s[i + 1] \in Slots
        BY <2>1, <2>3, <3>1 DEF IsWalk
      <3> QED BY <1>6, <2>2, <3>2 DEF Slots
    <2>5. k # 0
      BY <2>2, <2>3
    <2> QED BY <2>1, <2>2, <2>3, <2>4, <2>5
  <1>14. WayGoesOn(s, m, g)
    BY <1>7, <1>9, <1>11, <1>13, ChainInSlots DEF WayGoesOn
  <1>15. ASSUME NEW n \in Nodes, Existing(n), n # m PROVE SameWay(n)
    <2>1. l \notin Chain(n)
      BY <1>6, <1>8, <1>15 DEF KeptInv, Chained, ChainsDisjoint, HasNode
    <2>2. \A f \in Chain(n) : gmem'[f] = gmem[f] /\ ~Empty(gmem'[f])
      BY <1>7, <2>1, ChainInSlots, ChainUsed
    <2>3. Chain(n)' = Chain(n)
      BY <1>7, <1>15, <2>2, ChainAgrees DEF KeptInv, BaseInv, Chained
    <2> QED BY <1>7, <2>2, <2>3 DEF SameWay
  <1>16. \A f \in Chain(m) : gmem'[f].bytes = gmem[f].bytes
    BY <1>7, ChainInSlots
  <1>17. /\ Ordered' /\ Book(p)' = Append(Book(p), arg[t].bytes)
         /\ \A q \in Procs : q # p => Book(q)' = Book(q)
    BY <1>1, <1>5, <1>8, <1>9, <1>12, <1>14, <1>15, <1>16, WayAppends
  <1>18. Me(t)' = Me(t) /\ Book(Me(t))' = Book(p)'
    BY <1>5 DEF Me
  <1> QED BY <1>5, <1>17, <1>18 DEF Appends

(***************************************************************************)
(* What counts, and how much room there is                                 *)
(***************************************************************************)
LEMMA FirstIs ==
  ASSUME KeptInv, Ordered, NEW p \in Procs, NEW n \in Nodes, Existing(n), rnode[n].key = p
  PROVE  L!First(p) = LiveHeads[n]
  <1>1. PICK s \in Walks(n) : Along(s, n)
    BY DEF Ordered
  <1>2. /\ DOMAIN s = 1..Len(s) /\ Len(s) \in Nat /\ IsWalk(s, n)
        /\ (s = <<>> <=> Len(s) = 0)
    BY WalkType
  <1> DEFINE b == [i \in DOMAIN s |-> gmem[s[i]].bytes]
  <1>3. Book(p) = b
    BY <1>1, BookIs DEF KeptInv, BaseInv, TypeInv, NodeInv
  <1>4. b \in Seq(Bytes) /\ (b = <<>> <=> s = <<>>)
    BY SizesAlong DEF KeptInv, BaseInv, TypeInv
  <1>5. LiveHeads[n] = IF alive[p] THEN HeadBytes(n) ELSE 0
    BY DEF LiveHeads
  <1>6. L!First(p) = IF alive[p] /\ b # <<>> THEN Head(b) ELSE 0
    BY <1>3 DEF L!First
  <1>7. CASE s = <<>>
    BY <1>2, <1>4, <1>5, <1>6, <1>7 DEF IsWalk, HeadBytes
  <1>8. CASE s # <<>>
    <2>1. Head(b) = b[1]
      <3> HIDE DEF b
      <3> QED BY <1>4, <1>8
    <2>2. 1 \in DOMAIN s
      BY <1>2, <1>8
    <2>3. b[1] = gmem[s[1]].bytes
      BY <2>2
    <2>4. HeadBytes(n) = gmem[s[1]].bytes
      BY <1>2, <1>8 DEF IsWalk, HeadBytes
    <2> HIDE DEF b
    <2> QED BY <1>4, <1>5, <1>6, <1>8, <2>1, <2>3, <2>4
  <1> QED BY <1>7, <1>8

LEMMA FirstNone ==
  ASSUME NEW p \in Procs, NodesOf(p) = {}
  PROVE  L!First(p) = 0
  BY BookNone DEF L!First

(* The first sizes of the lists are first records of the tables.           *)
LEMMA UsageCovers ==
  ASSUME KeptInv, Ordered
  PROVE  L!Usage \in Nat /\ L!Usage <= Usage
  <1> DEFINE S == UNION {{p} \X (1..L!First(p)) : p \in Procs}
             T == Cells(Nodes, LiveHeads)
             home(p) == CHOOSE n \in Nodes : Existing(n) /\ rnode[n].key = p
             f == [c \in S |-> <<home(c[1]), c[2] - 1>>]
  <1>1. LiveHeads \in [Nodes -> Bytes]
    BY HeadsType DEF KeptInv, BaseInv
  <1>2. ASSUME NEW c \in S
        PROVE  /\ c = <<c[1], c[2]>> /\ c[1] \in Procs /\ c[2] \in Int /\ 1 <= c[2]
               /\ home(c[1]) \in Nodes /\ rnode[home(c[1])].key = c[1]
               /\ c[2] <= LiveHeads[home(c[1])]
    <2>1. PICK p \in Procs : c \in {p} \X (1..L!First(p))
      OBVIOUS
    <2>2. c[1] = p /\ c[2] \in 1..L!First(p) /\ c = <<c[1], c[2]>>
      BY <2>1
    <2>3. NodesOf(p) # {}
      <3> SUFFICES ASSUME NodesOf(p) = {} PROVE FALSE
        OBVIOUS
      <3>1. L!First(p) = 0
        BY FirstNone
      <3>2. c[2] \in 1..0
        BY <2>2, <3>1
      <3> QED BY <3>2
    <2>4. home(p) \in Nodes /\ Existing(home(p)) /\ rnode[home(p)].key = p
      BY <2>3 DEF NodesOf
    <2>5. PICK h \in Nodes : h = home(p)
      BY <2>4
    <2>6. L!First(p) = LiveHeads[h]
      BY <2>4, <2>5, FirstIs
    <2>7. PICK x \in Bytes : x = LiveHeads[h]
      BY <1>1
    <2>8. c[2] \in 1..x /\ x \in Int
      BY <2>2, <2>6, <2>7, DataAssumption DEF Bytes
    <2>9. c[2] \in Int /\ 1 <= c[2] /\ c[2] <= x
      BY <2>8
    <2> HIDE DEF home
    <2> QED BY <2>2, <2>4, <2>5, <2>7, <2>9
  <1>3. ASSUME NEW c \in S PROVE f[c] \in T /\ f[c][1] = home(c[1]) /\ f[c][2] = c[2] - 1
    <2>1. PICK h \in Nodes, i \in Int :
            h = home(c[1]) /\ i = c[2] /\ 1 <= i /\ i <= LiveHeads[h]
      BY <1>2
    <2>2. f[c] = <<h, i - 1>>
      BY <2>1
    <2>3. PICK x \in Bytes : x = LiveHeads[h]
      BY <1>1
    <2>4. i - 1 \in Bytes /\ i - 1 < x
      BY <2>1, <2>3, DataAssumption DEF Bytes
    <2>5. <<h, i - 1>> \in T
      BY <2>3, <2>4 DEF Cells
    <2> HIDE DEF f, home
    <2> QED BY <2>1, <2>2, <2>5
  <1>4. ASSUME NEW c \in S, NEW d \in S, f[c] = f[d] PROVE c = d
    <2>1. home(c[1]) = home(d[1]) /\ c[2] - 1 = d[2] - 1
      BY <1>3, <1>4
    <2>2. c[2] = d[2]
      BY <1>2, <2>1
    <2>3. c[1] = d[1]
      BY <1>2, <2>1
    <2> QED BY <1>2, <2>2, <2>3
  <1>5. f \in [S -> T]
    BY <1>3
  <1>6. f \in Injection(S, T)
    <2> HIDE DEF f, S, T
    <2> QED BY <1>4, <1>5 DEF Injection, IsInjective
  <1>7. IsFiniteSet(T) /\ Cardinality(T) \in Nat
    BY TotalType DEF Total
  <1>8. IsFiniteSet(S) /\ Cardinality(S) <= Cardinality(T)
    <2> HIDE DEF f, S, T
    <2> QED BY <1>6, <1>7, FS_Injection
  <1>9. Cardinality(S) \in Nat
    <2> HIDE DEF S
    <2> QED BY <1>8, FS_CardinalityType
  <1>10. Usage = Cardinality(T)
    BY DEF Usage, Total
  <1>11. L!Usage = Cardinality(S)
    BY DEF L!Usage, L!Cardinality, Cardinality
  <1> QED BY <1>8, <1>9, <1>10, <1>11

Linked == UNION {Chain(n) : n \in {m \in Nodes : Existing(m)}}

(* With no slot left and no record in hand, the lists and the processes    *)
(* that ended have taken all.                                              *)
LEMMA ListsCover ==
  ASSUME KeptInv, Ordered, IsFiniteSet(Procs)
  PROVE  /\ L!Cardinality(L!Records) \in Nat
         /\ IsFiniteSet(Linked) /\ Cardinality(Linked) <= L!Cardinality(L!Records)
  <1> DEFINE S == L!Records
             way(p) == CHOOSE s \in UNION {Walks(n) : n \in NodesOf(p)} : TRUE
             f == [c \in S |-> way(c[1])[c[2]]]
  <1>1. S = UNION {{p} \X DOMAIN Book(p) : p \in Procs}
    BY DEF L!Records
  <1>2. ASSUME NEW p \in Procs, NEW n \in Nodes, Existing(n), rnode[n].key = p,
               NEW s \in Walks(n)
        PROVE  way(p) = s /\ DOMAIN Book(p) = 1..Len(s)
    <2>1. TypeOK /\ UniqueKey
      BY DEF KeptInv, BaseInv, TypeInv, NodeInv
    <2>2. NodesOf(p) = {n}
      BY <1>2, <2>1 DEF NodesOf, UniqueKey
    <2>3. Walks(n) = {s}
      BY <2>1, OneWalk
    <2>4. UNION {Walks(m) : m \in NodesOf(p)} = {s}
      BY <2>2, <2>3
    <2>5. Book(p) = [i \in DOMAIN s |-> gmem[s[i]].bytes]
      BY <1>2, <2>1, BookIs
    <2>6. DOMAIN Book(p) = 1..Len(s)
      BY <2>5, WalkType
    <2> QED BY <2>4, <2>6
  <1>3. ASSUME NEW c \in S
        PROVE  /\ c[1] \in Procs /\ c = <<c[1], c[2]>>
               /\ c[2] \in 1..NG /\ way(c[1])[c[2]] \in Linked
    <2>1. PICK p \in Procs : c \in {p} \X DOMAIN Book(p)
      BY <1>1
    <2>2. c[1] = p /\ c[2] \in DOMAIN Book(p) /\ c = <<c[1], c[2]>>
      BY <2>1
    <2>3. NodesOf(p) # {}
      <3> SUFFICES ASSUME NodesOf(p) = {} PROVE FALSE
        OBVIOUS
      <3>1. DOMAIN Book(p) = {}
        BY BookNone
      <3> QED BY <2>2, <3>1
    <2>4. PICK n \in Nodes : Existing(n) /\ rnode[n].key = p
      BY <2>3 DEF NodesOf
    <2>5. PICK s \in Walks(n) : Along(s, n)
      BY <2>4 DEF Ordered
    <2>6. way(p) = s /\ DOMAIN Book(p) = 1..Len(s)
      BY <1>2, <2>4, <2>5
    <2>7. s[c[2]] \in Chain(n)
      BY <2>2, <2>5, <2>6, AlongChain
    <2>8. c[2] \in 1..NG
      <3>1. PICK k \in Nat : k = Len(s) /\ k <= NG
        BY WalkType
      <3>2. c[2] \in 1..k
        BY <2>2, <2>6, <3>1
      <3> QED BY <3>1, <3>2, TableAssumption
    <2> HIDE DEF way
    <2> QED BY <2>2, <2>4, <2>6, <2>7, <2>8 DEF Linked
  <1>4. ASSUME NEW g \in Linked PROVE \E c \in S : f[c] = g
    <2>1. PICK n \in Nodes : Existing(n) /\ g \in Chain(n)
      BY DEF Linked
    <2>2. PICK p \in Procs : p = rnode[n].key
      BY <2>1 DEF KeptInv, BaseInv, NodeInv
    <2>3. PICK s \in Walks(n) : Along(s, n)
      BY <2>1 DEF Ordered
    <2>4. PICK i \in 1..Len(s) : s[i] = g
      BY <2>1, <2>3, AlongChain
    <2>5. way(p) = s /\ DOMAIN Book(p) = 1..Len(s)
      BY <1>2, <2>1, <2>2, <2>3
    <2>6. <<p, i>> \in S
      BY <1>1, <2>4, <2>5
    <2>7. f[<<p, i>>] = s[i]
      BY <2>5, <2>6
    <2> QED BY <2>4, <2>6, <2>7
  <1>5. f \in [S -> Linked]
    BY <1>3
  <1>6. f \in Surjection(S, Linked)
    <2> HIDE DEF f, S
    <2> QED BY <1>4, <1>5 DEF Surjection
  <1>7. IsFiniteSet(S)
    <2>1. IsFiniteSet(1..NG)
      BY FS_Interval, TableAssumption
    <2>2. IsFiniteSet(Procs \X (1..NG))
      BY <2>1, FS_Product
    <2>3. S \in SUBSET (Procs \X (1..NG))
      <3> HIDE DEF S, way
      <3> QED BY <1>3
    <2> HIDE DEF S
    <2> QED BY <2>2, <2>3, FS_Subset
  <1>8. IsFiniteSet(Linked) /\ Cardinality(Linked) <= Cardinality(S)
    <2> HIDE DEF f, S
    <2> QED BY <1>6, <1>7, FS_Surjection
  <1>9. Cardinality(S) \in Nat
    <2> HIDE DEF S
    <2> QED BY <1>7, FS_CardinalityType
  <1>10. L!Cardinality(L!Records) = Cardinality(S)
    <2> HIDE DEF S
    <2>1. L!Cardinality(S) = Cardinality(S)
      BY DEF L!Cardinality, Cardinality
    <2> QED BY <2>1 DEF S
  <1> QED BY <1>8, <1>9, <1>10

LEMMA NoRoom ==
  ASSUME LeakInv, Ordered, IsFiniteSet(Procs), Full, InFlight = {}
  PROVE  L!Full
  <1>1. KeptInv /\ Cardinality(Lost) <= Cardinality(Dead)
    BY DEF LeakInv
  <1>2. IsFiniteSet(Lost) /\ Cardinality(Lost) \in Nat
    BY LostFinite
  <1>3. IsFiniteSet(Dead) /\ Cardinality(Dead) \in Nat
    <2>1. Dead \in SUBSET Procs
      BY DEF Dead
    <2> QED BY <2>1, FS_Subset, FS_CardinalityType
  <1>4. /\ L!Cardinality(L!Records) \in Nat
        /\ IsFiniteSet(Linked) /\ Cardinality(Linked) <= L!Cardinality(L!Records)
    BY <1>1, ListsCover
  <1>5. Slots \subseteq Linked \cup Lost
    BY DEF Full, Linked, Lost
  <1>6. IsFiniteSet(Linked \cup Lost)
    BY <1>2, <1>4, FS_Union
  <1>7. Cardinality(Linked \cup Lost)
          = Cardinality(Linked) + Cardinality(Lost) - Cardinality(Linked \cap Lost)
    BY <1>2, <1>4, FS_Union
  <1>8. Cardinality(Linked) \in Nat /\ Cardinality(Linked \cap Lost) \in Nat
    BY <1>4, FS_Intersection, FS_CardinalityType
  <1>9. Cardinality(Slots) = NG
    BY FS_Interval, TableAssumption DEF Slots
  <1>10. Cardinality(Slots) <= Cardinality(Linked \cup Lost)
    BY <1>5, <1>6, FS_Subset
  <1>11. L!Dead = Dead
    BY DEF L!Dead, Dead
  <1>12. L!Cardinality(L!Dead) = Cardinality(Dead)
    BY <1>11 DEF L!Cardinality, Cardinality
  <1>13. NG <= L!Cardinality(L!Records) + L!Cardinality(L!Dead)
    <2>1. PICK a, b, c, d, e \in Nat :
            /\ a = L!Cardinality(L!Records) /\ b = Cardinality(Dead)
            /\ c = Cardinality(Linked) /\ d = Cardinality(Lost)
            /\ e = Cardinality(Linked \cap Lost)
      BY <1>2, <1>3, <1>4, <1>8
    <2>2. c <= a /\ d <= b /\ NG <= c + d - e
      BY <1>1, <1>4, <1>7, <1>9, <1>10, <2>1
    <2>3. NG <= a + b
      BY <2>2, TableAssumption
    <2> QED BY <1>12, <2>1, <2>3
  <1> QED BY <1>13, <1>12, <1>3, <1>4, TableAssumption DEF L!Full

(***************************************************************************)
(* The steps of the lists                                                  *)
(***************************************************************************)
(* No list and no process changes.                                         *)
Silent ==
  alive' = alive /\ SameBooks /\ \A p \in Procs : Pending(p)' = Pending(p)

LEMMA SilentStep ==
  ASSUME Silent
  PROVE  Ordered' /\ UNCHANGED L!vars
  <1>1. [p \in Procs |-> Book(p)]' = [p \in Procs |-> Book(p)]
    BY DEF Silent, SameBooks
  <1>2. [p \in Procs |-> Pending(p)]' = [p \in Procs |-> Pending(p)]
    BY DEF Silent
  <1>3. alive' = alive /\ Ordered'
    BY DEF Silent, SameBooks
  <1> QED BY <1>1, <1>2, <1>3 DEF L!vars

LEMMA SilentReads ==
  ASSUME OneThread, KeptInv, KeptInv', Ordered, NEW t \in Threads, Reads(t)
  PROVE  Silent
  <1>1. \A u \in Threads : SamePending(u)
    BY DEF Reads, SameCall, StaysIn, SamePending
  <1>2. \A p \in Procs : Pending(p)' = Pending(p)
    BY <1>1, PendingStays
  <1>3. SameBooks
    BY BooksOfSameShm DEF Reads
  <1> QED BY <1>2, <1>3 DEF Silent, Reads, host

LEMMA SilentWrites ==
  ASSUME OneThread, KeptInv, KeptInv', Ordered, NEW t \in Threads,
         InsertAssign(t) \/ PushClaim(t)
  PROVE  Silent
  <1>1. \A u \in Threads : SamePending(u)
    BY DEF InsertAssign, PushClaim, Begin, Goto, InAddGmem, Recording, SamePending,
           KeptInv, BaseInv, TypeInv, TypeOK
  <1>2. \A p \in Procs : Pending(p)' = Pending(p)
    BY <1>1, PendingStays
  <1>3. SameBooks
    BY BooksOfInsertAssign, BooksOfPushClaim
  <1> QED BY <1>2, <1>3 DEF Silent, InsertAssign, PushClaim, host

LEMMA SilentStart ==
  ASSUME OneThread, KeptInv, KeptInv', Ordered, NEW t \in Threads,
         NEW k \in AllocKinds, NEW h \in Handles, NEW b \in Sizes, StartAlloc(t, k, h, b)
  PROVE  Silent
  <1>1. \A u \in Threads : SamePending(u)
    BY DEF StartAlloc, Goto, InAddGmem, Recording, SamePending,
           KeptInv, BaseInv, TypeInv, TypeOK
  <1>2. \A p \in Procs : Pending(p)' = Pending(p)
    BY <1>1, PendingStays
  <1>3. SameBooks
    BY BooksOfSameShm DEF StartAlloc
  <1> QED BY <1>2, <1>3 DEF Silent, StartAlloc, host

(* The last setter of a call: the thread has nothing pending any more.     *)
LEMMA ReturnClears ==
  ASSUME OneThread, KeptInv, CountInv, NEW t \in Threads, SetEntry(t) \/ LinkTail(t),
         NEW p \in Procs, p = Me(t)
  PROVE  /\ Pending(p) = arg[t].bytes /\ Pending(p) # 0 /\ Pending(p)' = 0
         /\ \A q \in Procs : q # p => Pending(q)' = Pending(q)
         /\ alive' = alive
  <1>1. /\ pc[t] \in {"adopt", "append"} /\ pc'[t] = "idle" /\ alive' = alive
        /\ \A u \in Threads : u # t => pc'[u] = pc[u] /\ arg'[u] = arg[u]
    BY DEF SetEntry, LinkTail, Return, DropRegs, Goto, host,
           KeptInv, BaseInv, TypeInv, TypeOK
  <1>2. InAddGmem(t) /\ ~InAddGmem(t)'
    BY <1>1 DEF InAddGmem, Recording, KeptInv, BaseInv, NoFrees
  <1>3. arg[t].bytes # 0
    BY <1>1, DataAssumption DEF CountInv, SizesKept
  <1>4. Pending(p) = arg[t].bytes
    BY <1>2, PendingIs
  <1>5. \A u \in Threads : Me(u)' = p => u = t
    BY DEF OneThread, Me
  <1>6. Pending(p)' = 0
    BY <1>2, <1>5, PendingNoneAfter
  <1>7. ASSUME NEW q \in Procs, q # p PROVE Pending(q)' = Pending(q)
    <2>1. \A u \in Threads : Me(u) = q => SamePending(u)
      BY <1>1, <1>7 DEF SamePending, InAddGmem
    <2> QED BY <2>1, PendingStays
  <1> QED BY <1>1, <1>3, <1>4, <1>6, <1>7

LEMMA ListGrows ==
  ASSUME OneThread, KeptInv, KeptInv', CountInv, Ordered, NEW t \in Threads,
         SetEntry(t) \/ LinkTail(t), cur[t] # -1, NEW p \in Procs, p = Me(t)
  PROVE  Ordered' /\ L!Record(p)
  <1>1. /\ Pending(p) = arg[t].bytes /\ Pending(p) # 0 /\ Pending(p)' = 0
        /\ \A q \in Procs : q # p => Pending(q)' = Pending(q)
        /\ alive' = alive
    BY ReturnClears
  <1>2. Appends(t)
    BY AppendsOfSetEntry, AppendsOfLinkTail
  <1>3. Book(p)' = Append(Book(p), Pending(p))
    <2>1. Book(Me(t))' = Book(p)'
      BY DEF Me
    <2> QED BY <1>1, <1>2, <2>1 DEF Appends
  <1>4. \A q \in Procs : q # p => Book(q)' = Book(q)
    BY <1>2 DEF Appends
  <1>5. [q \in Procs |-> Book(q)]'
          = [[q \in Procs |-> Book(q)] EXCEPT ![p] =
                Append([q \in Procs |-> Book(q)][p], [q \in Procs |-> Pending(q)][p])]
    BY <1>3, <1>4
  <1>6. [q \in Procs |-> Pending(q)]' = [[q \in Procs |-> Pending(q)] EXCEPT ![p] = 0]
    BY <1>1
  <1>7. [q \in Procs |-> Pending(q)][p] # 0
    BY <1>1
  <1>8. Ordered'
    BY <1>2 DEF Appends
  <1> QED BY <1>1, <1>5, <1>6, <1>7, <1>8 DEF L!Record

(* push_gmem found no slot: the setter writes -1 where -1 was.             *)
LEMMA ListLoses ==
  ASSUME OneThread, IsFiniteSet(Procs), LeakInv, KeptInv', CountInv, Serial, Ordered,
         NEW t \in Threads, SetEntry(t) \/ LinkTail(t), cur[t] = -1, NEW p \in Procs, p = Me(t)
  PROVE  Ordered' /\ L!Lose(p)
  <1>1. KeptInv
    BY DEF LeakInv
  <1>2. /\ Pending(p) # 0 /\ Pending(p)' = 0
        /\ \A q \in Procs : q # p => Pending(q)' = Pending(q)
        /\ alive' = alive
    BY <1>1, ReturnClears
  <1>3. pc[t] \in {"adopt", "append"}
    BY DEF SetEntry, LinkTail
  <1>4. Full
    BY <1>1, <1>3 DEF KeptInv, Chained, Held, Linking, InHand, Slots
  <1>5. InFlight = {}
    BY <1>3 DEF InFlight, Serial, Active, Linking
  <1>6. L!Full
    BY <1>4, <1>5, NoRoom
  <1>7. SameFields
    <2>1. CASE SetEntry(t)
      <3>1. node[t] \in Nodes /\ rnode[node[t]].entry = -1
        BY <1>1, <2>1 DEF KeptInv, Chained, Held, Registering, SetEntry
      <3> QED BY <1>1, <2>1, <3>1
              DEF SetEntry, SameFields, KeptInv, BaseInv, TypeInv, TypeOK, RNodes
    <2>2. CASE LinkTail(t)
      <3>1. prv[t] \in Chain(node[t]) /\ node[t] \in Nodes /\ gmem[prv[t]].next = -1
        BY <1>1, <2>2 DEF KeptInv, Chained, Held, Registering, LinkTail
      <3>2. prv[t] \in Slots
        BY <3>1, ChainInSlots
      <3> QED BY <1>1, <2>2, <3>1, <3>2
              DEF LinkTail, SameFields, KeptInv, BaseInv, TypeInv, TypeOK, GMems
    <2> QED BY <2>1, <2>2
  <1>8. NodesGrow
    BY <1>1, CodeGrows DEF Grows, InCode
  <1>9. SameBooks
    BY <1>1, <1>7, <1>8, BooksOfSameFields
  <1>10. [q \in Procs |-> Book(q)]' = [q \in Procs |-> Book(q)]
    BY <1>9 DEF SameBooks
  <1>11. [q \in Procs |-> Pending(q)]' = [[q \in Procs |-> Pending(q)] EXCEPT ![p] = 0]
    BY <1>2
  <1>12. [q \in Procs |-> Pending(q)][p] # 0
    BY <1>2
  <1> QED BY <1>2, <1>6, <1>9, <1>10, <1>11, <1>12 DEF L!Lose, SameBooks

(* The driver answers: what counts and the request are within the limit,   *)
(* and nobody else has anything pending.                                   *)
LEMMA ListAllocates ==
  ASSUME OneThread, HoldInv, KeptInv', Ordered, NEW t \in Threads, NEW d \in Dptrs,
         DriverAlloc(t, d), NEW p \in Procs, p = Me(t)
  PROVE  Ordered' /\ \E b \in Sizes : L!Allocate(p, b)
  <1>1. CountInv /\ KeptInv /\ Serial /\ HoldQuota
    BY DEF HoldInv, CountInv
  <1>2. /\ pc[t] = "driver" /\ pc'[t] = "find" /\ alive' = alive /\ UNCHANGED shm
        /\ arg'[t].bytes = arg[t].bytes /\ arg'[t].kind = arg[t].kind
        /\ \A u \in Threads : u # t => pc'[u] = pc[u] /\ arg'[u] = arg[u]
    BY <1>1 DEF DriverAlloc, Begin, Goto, KeptInv, BaseInv, TypeInv, TypeOK, Args
  <1>3. PICK b \in Sizes : b = arg[t].bytes
    BY <1>1, <1>2 DEF CountInv, SizesKept
  <1>4. alive[p]
    BY <1>1, <1>2, CallerLives DEF KeptInv, BaseInv
  <1>5. ASSUME NEW q \in Procs PROVE Pending(q) = 0
    <2>1. \A u \in Threads : ~InAddGmem(u)
      BY <1>1, <1>2 DEF InAddGmem, Recording, Serial, Active
    <2> QED BY <2>1, PendingNone
  <1>6. L!Usage + b <= Limit
    <2>1. Due(t) = b
      BY <1>2, <1>3 DEF Due
    <2>2. Usage + b <= Limit
      BY <1>1, <2>1 DEF HoldQuota
    <2>3. L!Usage \in Nat /\ L!Usage <= Usage /\ Usage \in Nat /\ Limit \in Nat
      BY <1>1, UsageCovers, QuotaType
    <2>4. b \in Nat
      BY DataAssumption
    <2> QED BY <2>2, <2>3, <2>4
  <1>7. Pending(p)' = b
    <2>1. InAddGmem(t)'
      BY <1>1, <1>2 DEF InAddGmem, Recording, KeptInv, BaseInv, NoFrees
    <2>2. OneThread' /\ Me(t)' = p
      BY DEF OneThread, Me
    <2> QED BY <1>2, <1>3, <2>1, <2>2, PendingIsAfter
  <1>8. ASSUME NEW q \in Procs, q # p PROVE Pending(q)' = Pending(q)
    <2>1. \A u \in Threads : Me(u) = q => SamePending(u)
      BY <1>2, <1>8 DEF SamePending, InAddGmem
    <2> QED BY <2>1, PendingStays
  <1>9. SameBooks
    BY <1>1, <1>2, BooksOfSameShm
  <1>10. [q \in Procs |-> Book(q)]' = [q \in Procs |-> Book(q)]
    BY <1>9 DEF SameBooks
  <1>11. [q \in Procs |-> Pending(q)]' = [[q \in Procs |-> Pending(q)] EXCEPT ![p] = b]
    BY <1>7, <1>8
  <1>12. \A q \in Procs : [x \in Procs |-> Pending(x)][q] = 0
    BY <1>5
  <1>13. L!Allocate(p, b)
    BY <1>2, <1>4, <1>6, <1>10, <1>11, <1>12 DEF L!Allocate
  <1> QED BY <1>9, <1>13 DEF SameBooks

LEMMA ListEnds ==
  ASSUME OneThread, KeptInv, KeptInv', Ordered, NEW p \in Procs, Die(p)
  PROVE  Ordered' /\ L!End(p)
  <1>1. /\ alive[p] /\ alive' = [alive EXCEPT ![p] = FALSE] /\ UNCHANGED shm
        /\ \A u \in Threads : Me(u) = p => pc'[u] = "dead"
        /\ \A u \in Threads : Me(u) # p => pc'[u] = pc[u] /\ arg'[u] = arg[u]
    BY DEF Die, DropRegs
  <1>2. Pending(p)' = 0
    <2>1. \A u \in Threads : Me(u)' = p => ~InAddGmem(u)'
      BY <1>1 DEF InAddGmem, Recording, Me
    <2> QED BY <2>1, PendingNoneAfter
  <1>3. ASSUME NEW q \in Procs, q # p PROVE Pending(q)' = Pending(q)
    <2>1. \A u \in Threads : Me(u) = q => SamePending(u)
      BY <1>1, <1>3 DEF SamePending, InAddGmem
    <2> QED BY <2>1, PendingStays
  <1>4. SameBooks
    BY <1>1, BooksOfSameShm
  <1>5. [q \in Procs |-> Book(q)]' = [q \in Procs |-> Book(q)]
    BY <1>4 DEF SameBooks
  <1>6. [q \in Procs |-> Pending(q)]' = [[q \in Procs |-> Pending(q)] EXCEPT ![p] = 0]
    BY <1>2, <1>3
  <1> QED BY <1>1, <1>4, <1>5, <1>6 DEF L!End, SameBooks

LEMMA ListCode ==
  ASSUME OneThread, IsFiniteSet(Procs), LedgerInv, KeptInv', NEW t \in Threads, InCode(t)
  PROVE  Ordered' /\ [L!Next]_(L!vars)
  <1>1. HoldInv /\ CountInv /\ KeptInv /\ Serial /\ LeakInv /\ Ordered
    BY DEF LedgerInv, HoldInv, CountInv
  <1>2. PICK p \in Procs : p = Me(t)
    BY ThreadAssumption DEF Me
  <1>3. CASE UsedNode(t) \/ UsedSum(t) \/ CheckLimit(t) \/ DriverAllocFails(t)
    BY <1>1, <1>3, ReadsUsed, ReadsDriverFails, SilentReads, SilentStep
  <1>4. CASE FindRnode(t) \/ InsertProbe(t) \/ ReadEntry(t)
    BY <1>1, <1>4, ReadsFindRnode, ReadsInsertProbe, ReadsEntry, SilentReads, SilentStep
  <1>5. CASE FindGmem(t) \/ PushProbe(t) \/ LinkEntry(t) \/ LastRec(t)
    BY <1>1, <1>5, ReadsFindGmem, ReadsPushProbe, ReadsLinkEntry, ReadsLastRec, SilentReads,
       SilentStep
  <1>6. CASE InsertAssign(t) \/ PushClaim(t)
    BY <1>1, <1>6, SilentWrites, SilentStep
  <1>7. CASE SetEntry(t) \/ LinkTail(t)
    <2>1. CASE cur[t] # -1
      <3>1. Ordered' /\ L!Record(p)
        BY <1>1, <1>2, <1>7, <2>1, ListGrows
      <3> QED BY <3>1 DEF L!Next
    <2>2. CASE cur[t] = -1
      <3>1. Ordered' /\ L!Lose(p)
        BY <1>1, <1>2, <1>7, <2>2, ListLoses
      <3> QED BY <3>1 DEF L!Next
    <2> QED BY <2>1, <2>2
  <1>8. ASSUME NEW d \in Dptrs, DriverAlloc(t, d) PROVE Ordered' /\ [L!Next]_(L!vars)
    <2>1. Ordered' /\ \E b \in Sizes : L!Allocate(p, b)
      BY <1>1, <1>2, <1>8, ListAllocates
    <2> QED BY <2>1 DEF L!Next
  <1>9. ~ResetRecord(t)
    BY <1>1 DEF ResetRecord, KeptInv, NeverReregisters
  <1>10. ~(RemoveVisit(t) \/ RemoveBypass(t) \/ RemoveDelete(t) \/ DriverFree(t)
           \/ DriverFreeFails(t))
    BY <1>1 DEF KeptInv, BaseInv, NoFrees, Freeing, RemoveVisit, RemoveBypass, RemoveDelete,
                DriverFree, DriverFreeFails
  <1>11. CASE Segfault(t)
    <2>1. Ordered' /\ L!End(p)
      BY <1>1, <1>2, <1>11, ListEnds DEF Segfault
    <2> QED BY <2>1 DEF L!Next
  <1> QED BY <1>3, <1>4, <1>5, <1>6, <1>7, <1>8, <1>9, <1>10, <1>11 DEF InCode

LEMMA ListStep ==
  ASSUME OneThread, IsFiniteSet(Procs), LedgerInv, KeptInv', [HoldNext]_vars
  PROVE  Ordered' /\ [L!Next]_(L!vars)
  <1>1. KeptInv /\ Ordered
    BY DEF LedgerInv, HoldInv, CountInv
  <1>2. CASE UNCHANGED vars
    <2>1. \A u \in Threads : SamePending(u)
      BY <1>2 DEF vars, regs, SamePending, InAddGmem
    <2>2. \A p \in Procs : Pending(p)' = Pending(p)
      BY <2>1, PendingStays
    <2>3. SameBooks /\ alive' = alive
      BY <1>1, <1>2, BooksOfSameShm DEF vars, host
    <2> QED BY <2>2, <2>3, SilentStep DEF Silent
  <1>3. ASSUME NEW t \in Threads, InCode(t) PROVE Ordered' /\ [L!Next]_(L!vars)
    BY <1>3, ListCode
  <1>4. ASSUME NEW t \in Threads, NEW k \in AllocKinds, NEW h \in Handles, NEW b \in Sizes,
               StartAlloc(t, k, h, b)
        PROVE  Ordered' /\ [L!Next]_(L!vars)
    BY <1>1, <1>4, SilentStart, SilentStep
  <1>5. ASSUME NEW p \in Procs, Die(p) PROVE Ordered' /\ [L!Next]_(L!vars)
    <2>1. Ordered' /\ L!End(p)
      BY <1>1, <1>5, ListEnds
    <2> QED BY <2>1 DEF L!Next
  <1> QED BY <1>2, <1>3, <1>4, <1>5 DEF HoldNext, KeepNext, Keep

LEMMA ListInit ==
  Init => Ordered /\ L!Init
  <1> SUFFICES ASSUME Init PROVE Ordered /\ L!Init
    OBVIOUS
  <1>1. \A n \in Nodes : ~Existing(n)
    BY DEF Init, Existing, InitRNode
  <1>2. Ordered
    BY <1>1 DEF Ordered
  <1>3. \A p \in Procs : Book(p) = <<>>
    BY <1>1, BookNone DEF NodesOf
  <1>4. \A p \in Procs : Pending(p) = 0
    BY PendingNone DEF Init, NoCalls, InAddGmem, Recording
  <1>5. alive = [p \in Procs |-> TRUE]
    BY DEF Init
  <1> QED BY <1>2, <1>3, <1>4, <1>5 DEF L!Init

(* Calls that do not overlap implement the Ledger: whatever the tables go  *)
(* through, an allocation appends one size to the list of its process, or  *)
(* none when the record table is full; the lists of the others stay; and   *)
(* the driver gives memory only within the limit, beside what counts.      *)
THEOREM TablesAreLedger ==
  ASSUME OneThread, IsFiniteSet(Procs), SeesAll, "pitch" \notin AllocKinds, LimitFits
  PROVE  HoldSpec => ImplementsLedger
  <1>1. Init => LedgerInv /\ L!Init
    BY HoldInit, LeakInit, ListInit DEF LedgerInv
  <1>2. LedgerInv /\ [HoldNext]_vars => LedgerInv' /\ [L!Next]_(L!vars)
    <2> SUFFICES ASSUME LedgerInv, [HoldNext]_vars PROVE LedgerInv' /\ [L!Next]_(L!vars)
      OBVIOUS
    <2>1. HoldInv' /\ KeptInv'
      BY HoldStep DEF LedgerInv, HoldInv, CountInv
    <2>2. LeakInv'
      BY LeakStep, HoldIsAlone DEF LedgerInv
    <2>3. Ordered' /\ [L!Next]_(L!vars)
      BY <2>1, ListStep
    <2> QED BY <2>1, <2>2, <2>3 DEF LedgerInv
  <1> QED BY <1>1, <1>2, PTL DEF HoldSpec, ImplementsLedger, L!Spec
=============================================================================
