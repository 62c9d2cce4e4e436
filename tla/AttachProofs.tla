---------------------------- MODULE AttachProofs ----------------------------
(***************************************************************************)
(* Attachment implements Hijack: with applications that wait for the       *)
(* creators and call cuMemAllocPitch only, the calls see tables that were  *)
(* initialised once, for any number of processes and table lengths.        *)
(***************************************************************************)
EXTENDS Attach, HijackProofs

(* No call sums the usage.                                                 *)
OnlyPitch == AllocKinds \subseteq {"pitch"}

(***************************************************************************)
(* The inductive invariant                                                 *)
(***************************************************************************)
Adding  == {"find", "insert", "assign", "entry", "search", "reset", "push", "claim",
            "link", "adopt", "tail", "append"}
AtRest == {"idle", "dead"}

AttachType ==
  /\ rnode \in [Nodes -> [key : Procs \cup {NoKey, <<0, 0>>}, entry : -1..(NG - 1),
                          stat : Statuses]]
  /\ gmem \in [Slots -> GMems]
  /\ alive \in [Procs -> BOOLEAN]
  /\ pc \in [Threads -> AtRest \cup {"check", "driver"} \cup Adding]
  /\ cnt \in [Threads -> 0..NG]
  /\ cur \in [Threads -> -1..(NG - 1)]
  /\ prv \in [Threads -> -1..(NG - 1)]
  /\ node \in [Threads -> -1..(NR - 1)]
  /\ arg \in [Threads -> Args]
  /\ boot \in [Procs -> BootLabels]
  /\ slot \in [Procs -> Nat]

(* Before the creators are done.                                           *)
Clean ==
  /\ \A n \in Nodes : rnode[n] \in {ZeroRNode, InitRNode}
  /\ \A g \in Slots : gmem[g] \in {ZeroGMem, InitGMem}
  /\ \A t \in Threads : pc[t] \in AtRest

(* Every entry and every link in use leads to a record in use.             *)
Used(g) == g \in Slots /\ ~Empty(gmem[g])
LinksLead ==
  /\ \A n \in Nodes : Existing(n) => rnode[n].entry = -1 \/ Used(rnode[n].entry)
  /\ \A g \in Slots : ~Empty(gmem[g]) => gmem[g].next = -1 \/ Used(gmem[g].next)

(* What a thread has in hand is in use: it works on no slot of the table   *)
(* that nobody has written.                                                *)
Works(t) ==
  /\ pc[t] \in AtRest => node[t] = -1
  /\ pc[t] \notin AtRest => arg[t].hdl \in Handles /\ arg[t].kind = "pitch"
  /\ node[t] # -1 => node[t] \in Nodes /\ Existing(node[t])
  /\ pc[t] \in Adding \ {"find", "insert", "assign", "entry"} => node[t] # -1
  /\ pc[t] \in {"find", "insert"} => cnt[t] <= NR
  /\ pc[t] = "claim" => cnt[t] < NG
  /\ pc[t] \in {"search", "link", "adopt", "tail", "append"} => cur[t] = -1 \/ Used(cur[t])
  /\ pc[t] = "reset" => Used(cur[t])
  /\ pc[t] \in {"tail", "append"} => Used(prv[t])

AttachInv ==
  /\ AttachType
  /\ LinksLead
  /\ \A t \in Threads : Works(t)
  /\ ~Wiped => Clean

(***************************************************************************)
(* The tables that Hijack sees                                             *)
(***************************************************************************)
ShownNodes ==
  [n \in Nodes |-> IF ~Wiped \/ rnode[n] = ZeroRNode THEN InitRNode ELSE rnode[n]]
ShownRecords ==
  [g \in Slots |-> IF ~Wiped \/ gmem[g] = ZeroGMem THEN InitGMem ELSE gmem[g]]

Seen ==
  /\ \A n \in Nodes : ShownNodes[n].stat = rnode[n].stat
  /\ \A n \in Nodes : Existing(n) => ShownNodes[n] = rnode[n]
  /\ \A g \in Slots : Empty(ShownRecords[g]) <=> Empty(gmem[g])
  /\ \A g \in Slots : ~Empty(gmem[g]) => ShownRecords[g] = gmem[g]

LEMMA Shown == AttachInv /\ Wiped => Seen
  BY DEF Seen, ShownNodes, ShownRecords, ZeroRNode, InitRNode, ZeroGMem, InitGMem,
     Existing, Empty

LEMMA ShownAfter == AttachInv' /\ Wiped' => Seen'
  BY Shown, PTL

LEMMA HashSame == \A k, i : H!Hash(k, i) = Hash(k, i)
  BY DEF H!Hash, Hash

LEMMA TablesSame ==
  ASSUME UNCHANGED shm, Wiped, Wiped'
  PROVE  UNCHANGED H!shm
  BY DEF shm, H!shm

(***************************************************************************)
(* Operators of Hijack that the two tables do not change                   *)
(***************************************************************************)
LEMMA LocalsSame ==
  /\ \A t : H!Me(t) = Me(t)
  /\ \A t, l : H!Goto(t, l) <=> Goto(t, l)
  /\ \A t, l : H!Begin(t, l) <=> Begin(t, l)
  /\ \A T : H!DropRegs(T) <=> DropRegs(T)
  /\ \A t : H!Return(t) <=> Return(t)
  /\ UNCHANGED H!host <=> UNCHANGED host
  /\ UNCHANGED H!regs <=> UNCHANGED regs
  <1>1. \A t, l : H!Goto(t, l) <=> Goto(t, l)
    BY DEF H!Goto, Goto
  <1>2. \A t, l : H!Begin(t, l) <=> Begin(t, l)
    BY <1>1 DEF H!Begin, Begin
  <1>3. \A T : H!DropRegs(T) <=> DropRegs(T)
    BY DEF H!DropRegs, DropRegs, H!NoArg, NoArg
  <1>4. \A t : H!Return(t) <=> Return(t)
    BY <1>1, <1>3 DEF H!Return, Return
  <1> QED BY <1>1, <1>2, <1>3, <1>4 DEF H!Me, Me, H!host, host, H!regs, regs

LEMMA DieSame ==
  ASSUME NEW p, Die(p), UNCHANGED H!shm
  PROVE  H!Die(p)
  BY LocalsSame DEF Die, H!Die

(***************************************************************************)
(* The calls keep the invariant                                            *)
(***************************************************************************)
OnlyAdds ==
  /\ \A n \in Nodes : Existing(n) => Existing(n)'
  /\ \A g \in Slots : ~Empty(gmem[g]) => ~Empty(gmem'[g])

Idles(u) ==
  /\ pc'[u] = pc[u] /\ cnt'[u] = cnt[u] /\ cur'[u] = cur[u]
  /\ prv'[u] = prv[u] /\ node'[u] = node[u] /\ arg'[u] = arg[u]

LEMMA BystanderWorks ==
  ASSUME NEW u \in Threads, Works(u), OnlyAdds, Idles(u)
  PROVE  Works(u)'
  <1>1. node'[u] # -1 => node'[u] \in Nodes /\ rnode'[node'[u]].stat = "EXIST"
    BY DEF Works, OnlyAdds, Idles, Existing
  <1>2. \A g : Used(g) => g \in Slots /\ ~Empty(gmem'[g])
    BY DEF Used, OnlyAdds
  <1> QED BY <1>1, <1>2 DEF Works, Idles, Existing, Used, Empty

(* One call goes on, the others are where they were.                       *)
LEMMA CallKeeps ==
  ASSUME AttachInv, Wiped, NEW t \in Threads, UNCHANGED <<segs, alive>>,
         AttachType', LinksLead', OnlyAdds, Works(t)',
         \A u \in Threads \ {t} : Idles(u)
  PROVE  AttachInv' /\ Wiped'
  <1>1. \A u \in Threads : Works(u)'
    BY BystanderWorks DEF AttachInv
  <1>2. Wiped'
    BY DEF Wiped, Wiping, segs
  <1> QED BY <1>1, <1>2 DEF AttachInv

LEMMA TablesStay ==
  ASSUME AttachInv, UNCHANGED shm
  PROVE  LinksLead' /\ OnlyAdds
  BY DEF AttachInv, LinksLead, OnlyAdds, Existing, Used, Empty, shm

LEMMA ReturnKeeps ==
  ASSUME AttachInv, NEW t \in Threads, Return(t)
  PROVE  /\ pc' \in [Threads -> AtRest \cup {"check", "driver"} \cup Adding]
         /\ cnt' \in [Threads -> 0..NG]
         /\ cur' \in [Threads -> -1..(NG - 1)]
         /\ prv' \in [Threads -> -1..(NG - 1)]
         /\ node' \in [Threads -> -1..(NR - 1)]
         /\ arg' \in [Threads -> Args]
         /\ Works(t)'
         /\ \A u \in Threads \ {t} : Idles(u)
  <1>1. pc' = [pc EXCEPT ![t] = "idle"] /\ DropRegs({t})
    BY DEF Return, Goto
  <1>2. NoArg \in Args
    BY SomeBytes DEF NoArg, Args, Kinds
  <1>3. /\ pc' \in [Threads -> AtRest \cup {"check", "driver"} \cup Adding]
        /\ cnt' \in [Threads -> 0..NG]
        /\ cur' \in [Threads -> -1..(NG - 1)]
        /\ prv' \in [Threads -> -1..(NG - 1)]
        /\ node' \in [Threads -> -1..(NR - 1)]
        /\ arg' \in [Threads -> Args]
    BY <1>1, <1>2, TableAssumption DEF AttachInv, AttachType, DropRegs, AtRest
  <1>4. pc'[t] = "idle" /\ node'[t] = -1
    BY <1>1 DEF AttachInv, AttachType, DropRegs
  <1>5. \A u \in Threads \ {t} : Idles(u)
    BY <1>1 DEF AttachInv, AttachType, DropRegs, Idles
  <1> QED BY <1>3, <1>4, <1>5 DEF Works, AtRest, Adding

LEMMA CheckLimitKeeps ==
  ASSUME AttachInv, Wiped, NEW t \in Threads, CheckLimit(t), UNCHANGED segs
  PROVE  AttachInv' /\ Wiped'
  <1>1. UNCHANGED shm /\ UNCHANGED host
    BY DEF CheckLimit
  <1>2. CASE Return(t)
    <2>1. AttachType'
      BY <1>1, <1>2, ReturnKeeps DEF AttachInv, AttachType, shm, host, segs
    <2> QED BY <1>1, <1>2, <2>1, ReturnKeeps, TablesStay, CallKeeps DEF host
  <1>3. CASE Goto(t, "driver") /\ UNCHANGED regs
    <2>1. AttachType'
      BY <1>1, <1>3 DEF AttachInv, AttachType, Goto, shm, host, segs, regs
    <2>2. Works(t)'
      <3>1. pc[t] = "check" /\ pc'[t] = "driver"
        BY <1>3 DEF CheckLimit, Goto, AttachInv, AttachType
      <3> QED BY <1>1, <1>3, <3>1 DEF AttachInv, Works, AtRest, Adding, regs, shm, Existing
    <2>3. \A u \in Threads \ {t} : Idles(u)
      BY <1>3 DEF AttachInv, AttachType, Goto, regs, Idles
    <2> QED BY <1>1, <2>1, <2>2, <2>3, TablesStay, CallKeeps DEF host
  <1> QED BY <1>2, <1>3 DEF CheckLimit

LEMMA DriverAllocKeeps ==
  ASSUME AttachInv, Wiped, NEW t \in Threads, NEW d \in Dptrs, DriverAlloc(t, d),
         UNCHANGED segs
  PROVE  AttachInv' /\ Wiped'
  <1>1. UNCHANGED <<shm, alive, cur, prv, acc, node>> /\ pc[t] = "driver"
        /\ pc' = [pc EXCEPT ![t] = "find"] /\ cnt' = [cnt EXCEPT ![t] = 0]
        /\ arg' = [arg EXCEPT ![t].dptr = d]
    BY DEF DriverAlloc, Begin, Goto
  <1>2. arg' \in [Threads -> Args] /\ arg'[t].hdl = arg[t].hdl /\ arg'[t].kind = arg[t].kind
    BY <1>1 DEF AttachInv, AttachType, Args
  <1>3. AttachType'
    BY <1>1, <1>2, TableAssumption DEF AttachInv, AttachType, Adding, shm, segs
  <1>4. Works(t)'
    <2>1. pc'[t] = "find"
      BY <1>1 DEF AttachInv, AttachType
    <2>2. cnt'[t] = 0
      BY <1>1 DEF AttachInv, AttachType
    <2> QED BY <1>1, <1>2, <2>1, <2>2, TableAssumption
        DEF AttachInv, Works, AtRest, Adding, shm, Existing
  <1>5. \A u \in Threads \ {t} : Idles(u)
    BY <1>1 DEF AttachInv, AttachType, Idles
  <1> QED BY <1>1, <1>3, <1>4, <1>5, TablesStay, CallKeeps

LEMMA DriverAllocFailsKeeps ==
  ASSUME AttachInv, Wiped, NEW t \in Threads, DriverAllocFails(t), UNCHANGED segs
  PROVE  AttachInv' /\ Wiped'
  <1>1. UNCHANGED shm /\ UNCHANGED host /\ Return(t)
    BY DEF DriverAllocFails
  <1>2. AttachType'
    BY <1>1, ReturnKeeps DEF AttachInv, AttachType, shm, host, segs
  <1> QED BY <1>1, <1>2, ReturnKeeps, TablesStay, CallKeeps DEF host

LEMMA StartAllocKeeps ==
  ASSUME OnlyPitch, AttachInv, Wiped, NEW t \in Threads, NEW k \in AllocKinds,
         NEW h \in Handles, NEW b \in Sizes, StartAlloc(t, k, h, b), UNCHANGED segs
  PROVE  AttachInv' /\ Wiped'
  <1>1. k = "pitch"
    BY DEF OnlyPitch
  <1>2. /\ UNCHANGED <<shm, host, cnt, cur, prv, acc, node>> /\ pc[t] = "idle"
        /\ pc' = [pc EXCEPT ![t] = "check"]
        /\ arg' = [arg EXCEPT ![t] = [kind |-> "pitch", hdl |-> h, bytes |-> b, dptr |-> NULL]]
    BY <1>1 DEF StartAlloc, Goto
  <1>3. AttachType'
    <2>1. arg' \in [Threads -> Args]
      BY <1>2, SomeBytes DEF AttachInv, AttachType, Args, Kinds
    <2> QED BY <1>2, <2>1 DEF AttachInv, AttachType, shm, host, segs
  <1>4. Works(t)'
    <2>1. pc'[t] = "check" /\ arg'[t].hdl = h /\ arg'[t].kind = "pitch"
      BY <1>2 DEF AttachInv, AttachType
    <2> QED BY <1>2, <2>1 DEF AttachInv, Works, AtRest, Adding, shm, Existing
  <1>5. \A u \in Threads \ {t} : Idles(u)
    BY <1>2 DEF AttachInv, AttachType, Idles
  <1> QED BY <1>2, <1>3, <1>4, <1>5, TablesStay, CallKeeps DEF host

LEMMA FindRnodeKeeps ==
  ASSUME AttachInv, Wiped, NEW t \in Threads, FindRnode(t), UNCHANGED segs
  PROVE  AttachInv' /\ Wiped'
  <1> DEFINE n == Hash(Me(t), cnt[t])
  <1>1. UNCHANGED <<shm, host, cur, prv, acc, arg>> /\ pc[t] = "find"
    BY DEF FindRnode
  <1>2. arg[t].kind # "free" /\ cnt[t] \in Nat /\ n \in Nodes
    <2>1. arg[t].kind # "free" /\ cnt[t] \in Nat
      BY <1>1, TableAssumption DEF AttachInv, AttachType, Works, AtRest
    <2> QED BY <2>1, HashInTable, MeType
  <1>3. cnt[t] < NR \/ ProbeEnds(t)
    BY <1>1, <1>2, TableAssumption DEF ProbeEnds, AttachInv, Works
  <1>4. ASSUME NEW l \in {"insert", "entry"}, pc' = [pc EXCEPT ![t] = l],
               cnt' = [cnt EXCEPT ![t] = 0],
               UNCHANGED node \/ (ProbeHits(t) /\ node' = [node EXCEPT ![t] = n])
        PROVE  AttachInv' /\ Wiped'
    <2>1. n \in -1..(NR - 1)
      BY <1>2, TableAssumption DEF Nodes
    <2>2. node' \in [Threads -> -1..(NR - 1)] /\ \A u \in Threads \ {t} : node'[u] = node[u]
      BY <1>4, <2>1 DEF AttachInv, AttachType
    <2>3. AttachType'
      <3>1. cnt' \in [Threads -> 0..NG]
        BY <1>4, TableAssumption DEF AttachInv, AttachType
      <3>2. pc' \in [Threads -> AtRest \cup {"check", "driver"} \cup Adding]
        BY <1>4 DEF AttachInv, AttachType, Adding
      <3> QED BY <1>1, <2>2, <3>1, <3>2 DEF AttachInv, AttachType, shm, host, segs
    <2>4. node'[t] # -1 => node'[t] \in Nodes /\ Existing(node'[t])
      BY <1>2, <1>4 DEF AttachInv, AttachType, Works, ProbeHits, Existing
    <2>5. Works(t)'
      <3>1. pc'[t] = l /\ cnt'[t] = 0 /\ 0 <= NR
        BY <1>4, TableAssumption DEF AttachInv, AttachType
      <3> QED BY <1>1, <2>4, <3>1 DEF AttachInv, Works, AtRest, Adding, shm, Existing
    <2>6. \A u \in Threads \ {t} : Idles(u)
      BY <1>1, <1>4, <2>2 DEF AttachInv, AttachType, Idles
    <2> QED BY <1>1, <2>3, <2>5, <2>6, TablesStay, CallKeeps DEF host
  <1>5. CASE ~ProbeEnds(t) /\ cnt' = [cnt EXCEPT ![t] = @ + 1] /\ UNCHANGED <<pc, node>>
    <2>1. cnt[t] + 1 \in 0..NR /\ cnt[t] + 1 \in 0..NG
      BY <1>2, <1>3, <1>5, TableAssumption
    <2>2. AttachType'
      BY <1>1, <1>5, <2>1 DEF AttachInv, AttachType, shm, host, segs
    <2>5. cnt'[t] <= NR
      BY <1>5, <2>1 DEF AttachInv, AttachType
    <2>3. Works(t)'
      BY <1>1, <1>5, <2>5 DEF AttachInv, Works, Adding, AtRest, shm, Existing
    <2>4. \A u \in Threads \ {t} : Idles(u)
      BY <1>1, <1>5 DEF AttachInv, AttachType, Idles
    <2> QED BY <1>1, <2>2, <2>3, <2>4, TablesStay, CallKeeps DEF host
  <1> QED BY <1>2, <1>4, <1>5 DEF FindRnode, Begin, Goto

LEMMA InsertProbeKeeps ==
  ASSUME AttachInv, Wiped, NEW t \in Threads, InsertProbe(t), UNCHANGED segs
  PROVE  AttachInv' /\ Wiped'
  <1>1. UNCHANGED <<shm, host, cur, prv, acc, node, arg>> /\ pc[t] = "insert"
    BY DEF InsertProbe
  <1>2. cnt[t] \in Nat
    BY TableAssumption DEF AttachInv, AttachType
  <1>3. ASSUME NEW l \in {"entry", "assign"}, pc' = [pc EXCEPT ![t] = l], UNCHANGED cnt
        PROVE  AttachInv' /\ Wiped'
    <2>1. AttachType'
      <3>1. pc' \in [Threads -> AtRest \cup {"check", "driver"} \cup Adding]
        BY <1>3 DEF AttachInv, AttachType, Adding
      <3> QED BY <1>1, <1>3, <3>1 DEF AttachInv, AttachType, shm, host, segs
    <2>2. Works(t)'
      <3>1. pc'[t] = l
        BY <1>3 DEF AttachInv, AttachType
      <3> QED BY <1>1, <1>3, <3>1 DEF AttachInv, Works, AtRest, Adding, shm, Existing
    <2>3. \A u \in Threads \ {t} : Idles(u)
      BY <1>1, <1>3 DEF AttachInv, AttachType, Idles
    <2> QED BY <1>1, <2>1, <2>2, <2>3, TablesStay, CallKeeps DEF host
  <1>4. CASE cnt[t] < NR /\ cnt' = [cnt EXCEPT ![t] = @ + 1] /\ UNCHANGED pc
    <2>1. cnt[t] + 1 \in 0..NR /\ cnt[t] + 1 \in 0..NG
      BY <1>2, <1>4, TableAssumption
    <2>2. AttachType'
      BY <1>1, <1>4, <2>1 DEF AttachInv, AttachType, shm, host, segs
    <2>3. cnt'[t] <= NR
      BY <1>4, <2>1 DEF AttachInv, AttachType
    <2>4. Works(t)'
      BY <1>1, <1>4, <2>3 DEF AttachInv, Works, Adding, AtRest, shm, Existing
    <2>5. \A u \in Threads \ {t} : Idles(u)
      BY <1>1, <1>4 DEF AttachInv, AttachType, Idles
    <2> QED BY <1>1, <2>2, <2>4, <2>5, TablesStay, CallKeeps DEF host
  <1> QED BY <1>3, <1>4 DEF InsertProbe, Goto

LEMMA InsertAssignKeeps ==
  ASSUME AttachInv, Wiped, NEW t \in Threads, InsertAssign(t), UNCHANGED segs
  PROVE  AttachInv' /\ Wiped'
  <1> DEFINE n == Hash(Me(t), cnt[t])
             new == [key |-> Me(t), entry |-> -1, stat |-> "EXIST"]
  <1>1. /\ UNCHANGED <<gmem, host, cur, prv, acc, arg>> /\ pc[t] = "assign"
        /\ rnode' = [rnode EXCEPT ![n] = new]
        /\ node' = [node EXCEPT ![t] = n]
        /\ pc' = [pc EXCEPT ![t] = "entry"] /\ cnt' = [cnt EXCEPT ![t] = 0]
    BY DEF InsertAssign, Begin, Goto
  <1>2. n \in Nodes /\ n \in -1..(NR - 1)
    <2>1. cnt[t] \in Nat
      BY TableAssumption DEF AttachInv, AttachType
    <2>2. n \in Nodes
      BY <2>1, HashInTable, MeType
    <2> QED BY <2>2, TableAssumption DEF Nodes
  <1> HIDE DEF n
  <1>3. \A m \in Nodes : rnode'[m] = IF m = n THEN new ELSE rnode[m]
    BY <1>1, <1>2 DEF AttachInv, AttachType
  <1>4. AttachType'
    <2>1. rnode' \in [Nodes -> [key : Procs \cup {NoKey, <<0, 0>>}, entry : -1..(NG - 1),
                                stat : Statuses]]
      BY <1>1, <1>2, MeType, TableAssumption DEF AttachInv, AttachType, Statuses
    <2>2. pc' \in [Threads -> AtRest \cup {"check", "driver"} \cup Adding]
      BY <1>1 DEF AttachInv, AttachType, Adding
    <2>3. cnt' \in [Threads -> 0..NG] /\ node' \in [Threads -> -1..(NR - 1)]
      BY <1>1, <1>2, TableAssumption DEF AttachInv, AttachType
    <2> QED BY <1>1, <2>1, <2>2, <2>3 DEF AttachInv, AttachType, host, segs
  <1>5. LinksLead' /\ OnlyAdds
    BY <1>1, <1>3 DEF AttachInv, LinksLead, OnlyAdds, Existing, Used, Empty
  <1>6. Works(t)'
    <2>1. pc'[t] = "entry" /\ node'[t] = n
      BY <1>1 DEF AttachInv, AttachType
    <2> QED BY <1>1, <1>2, <1>3, <2>1 DEF AttachInv, Works, AtRest, Adding, Existing
  <1>7. \A u \in Threads \ {t} : Idles(u)
    BY <1>1 DEF AttachInv, AttachType, Idles
  <1> QED BY <1>1, <1>4, <1>5, <1>6, <1>7, CallKeeps DEF host

LEMMA ReadEntryKeeps ==
  ASSUME AttachInv, Wiped, NEW t \in Threads, ReadEntry(t), UNCHANGED segs
  PROVE  AttachInv' /\ Wiped'
  <1>1. arg[t].kind # "free" /\ pc[t] = "entry" /\ node[t] # -1
    BY DEF AttachInv, Works, AtRest, ReadEntry
  <1>2. /\ UNCHANGED <<shm, host, prv, acc, node, arg>>
        /\ cur' = [cur EXCEPT ![t] = rnode[node[t]].entry]
        /\ pc' = [pc EXCEPT ![t] = "search"] /\ cnt' = [cnt EXCEPT ![t] = 0]
    BY <1>1 DEF ReadEntry, Begin, Goto
  <1>3. node[t] \in Nodes /\ rnode[node[t]].entry \in -1..(NG - 1)
    BY <1>1 DEF AttachInv, AttachType, Works
  <1>4. rnode[node[t]].entry = -1 \/ Used(rnode[node[t]].entry)
    BY <1>1, <1>3 DEF AttachInv, LinksLead, Works
  <1>5. AttachType'
    <2>1. pc' \in [Threads -> AtRest \cup {"check", "driver"} \cup Adding]
      BY <1>2 DEF AttachInv, AttachType, Adding
    <2>2. cnt' \in [Threads -> 0..NG] /\ cur' \in [Threads -> -1..(NG - 1)]
      BY <1>2, <1>3, TableAssumption DEF AttachInv, AttachType
    <2> QED BY <1>2, <2>1, <2>2 DEF AttachInv, AttachType, shm, host, segs
  <1>6. Works(t)'
    <2>1. pc'[t] = "search" /\ cur'[t] = rnode[node[t]].entry
      BY <1>2 DEF AttachInv, AttachType
    <2> QED BY <1>1, <1>2, <1>4, <2>1
        DEF AttachInv, Works, AtRest, Adding, shm, Existing, Used, Empty
  <1>7. \A u \in Threads \ {t} : Idles(u)
    BY <1>2 DEF AttachInv, AttachType, Idles
  <1> QED BY <1>2, <1>5, <1>6, <1>7, TablesStay, CallKeeps DEF host

LEMMA FindGmemKeeps ==
  ASSUME AttachInv, Wiped, NEW t \in Threads, FindGmem(t), UNCHANGED segs
  PROVE  AttachInv' /\ Wiped'
  <1> DEFINE c == Cell(cur[t])
  <1>1. UNCHANGED <<shm, host, prv, acc, node, arg>> /\ pc[t] = "search"
    BY DEF FindGmem
  <1>2. cur[t] = -1 \/ Used(cur[t])
    BY <1>1 DEF AttachInv, Works
  <1>3. ASSUME NEW l \in {"push", "reset"}, pc' = [pc EXCEPT ![t] = l], UNCHANGED cur,
               UNCHANGED cnt \/ cnt' = [cnt EXCEPT ![t] = 0],
               l = "reset" => cur[t] # -1
        PROVE  AttachInv' /\ Wiped'
    <2>1. AttachType'
      <3>1. pc' \in [Threads -> AtRest \cup {"check", "driver"} \cup Adding]
        BY <1>3 DEF AttachInv, AttachType, Adding
      <3>2. cnt' \in [Threads -> 0..NG]
        BY <1>3, TableAssumption DEF AttachInv, AttachType
      <3> QED BY <1>1, <1>3, <3>1, <3>2 DEF AttachInv, AttachType, shm, host, segs
    <2>2. Works(t)'
      <3>1. pc'[t] = l
        BY <1>3 DEF AttachInv, AttachType
      <3> QED BY <1>1, <1>2, <1>3, <3>1
          DEF AttachInv, Works, AtRest, Adding, shm, Existing, Used, Empty
    <2>3. \A u \in Threads \ {t} : Idles(u)
      BY <1>1, <1>3 DEF AttachInv, AttachType, Idles
    <2> QED BY <1>1, <2>1, <2>2, <2>3, TablesStay, CallKeeps DEF host
  <1>4. ASSUME ~Empty(c), cur' = [cur EXCEPT ![t] = c.next], UNCHANGED <<pc, cnt>>
        PROVE  AttachInv' /\ Wiped'
    <2>1. Used(cur[t]) /\ c = gmem[cur[t]] /\ cur[t] \in Slots
      BY <1>2, <1>4 DEF Cell, Empty, Used
    <2>2. c.next \in -1..(NG - 1) /\ (c.next = -1 \/ Used(c.next))
      BY <2>1, <1>4 DEF AttachInv, AttachType, LinksLead, GMems, Used
    <2> HIDE DEF c
    <2>3. AttachType'
      BY <1>1, <1>4, <2>2 DEF AttachInv, AttachType, shm, host, segs
    <2>4. Works(t)'
      <3>1. cur'[t] = c.next
        BY <1>4 DEF AttachInv, AttachType
      <3> QED BY <1>1, <1>4, <2>2, <3>1
          DEF AttachInv, Works, AtRest, Adding, shm, Existing, Used, Empty
    <2>5. \A u \in Threads \ {t} : Idles(u)
      BY <1>1, <1>4 DEF AttachInv, AttachType, Idles
    <2> QED BY <1>1, <2>3, <2>4, <2>5, TablesStay, CallKeeps DEF host
  <1>5. \A q \in Procs : NULL \notin Mapped[q]
    BY DataAssumption
  <1>6. CASE Empty(c) /\ Begin(t, "push") /\ UNCHANGED cur
    BY <1>3, <1>6 DEF Begin, Goto
  <1>7. CASE c.ptr \in Mapped[Me(t)] /\ Goto(t, "reset") /\ UNCHANGED <<cnt, cur>>
    <2>1. cur[t] # -1
      BY <1>5, <1>7, MeType DEF Cell
    <2> QED BY <1>3, <1>7, <2>1 DEF Goto
  <1>8. CASE c.ptr \in Mapped[Me(t)] /\ cur' = [cur EXCEPT ![t] = c.next]
             /\ UNCHANGED <<pc, cnt>>
    BY <1>4, <1>5, <1>8, MeType DEF Empty
  <1> QED BY <1>6, <1>7, <1>8 DEF FindGmem

(* A write of a record that is in use afterwards and leads to one.         *)
LEMMA WriteLeads ==
  ASSUME AttachInv, NEW g \in Slots, NEW r \in GMems, gmem' = [gmem EXCEPT ![g] = r],
         UNCHANGED rnode, ~Empty(r), r.next = -1 \/ r.next = g \/ Used(r.next)
  PROVE  LinksLead' /\ OnlyAdds /\ gmem' \in [Slots -> GMems]
  <1>1. \A i \in Slots : gmem'[i] = IF i = g THEN r ELSE gmem[i]
    BY DEF AttachInv, AttachType
  <1>2. OnlyAdds
    BY <1>1 DEF OnlyAdds, Existing, Empty
  <1>3. \A i : Used(i) => i \in Slots /\ ~Empty(gmem'[i])
    BY <1>2 DEF OnlyAdds, Used
  <1>4. LinksLead'
    BY <1>1, <1>3 DEF AttachInv, LinksLead, Existing, Used, Empty
  <1> QED BY <1>2, <1>4 DEF AttachInv, AttachType

LEMMA ResetRecordKeeps ==
  ASSUME AttachInv, Wiped, NEW t \in Threads, ResetRecord(t), UNCHANGED segs
  PROVE  AttachInv' /\ Wiped'
  <1> DEFINE g == cur[t]
             r == [gmem[g] EXCEPT !.ptr = arg[t].hdl, !.bytes = arg[t].bytes]
  <1>1. /\ UNCHANGED <<rnode, host, regs>> /\ pc[t] = "reset"
        /\ gmem' = [gmem EXCEPT ![g].ptr = arg[t].hdl, ![g].bytes = arg[t].bytes]
        /\ pc' = [pc EXCEPT ![t] = "link"]
    BY DEF ResetRecord, Goto
  <1>2. g \in Slots /\ ~Empty(gmem[g]) /\ arg[t].hdl \in Handles /\ arg[t].bytes \in Bytes
    BY <1>1 DEF AttachInv, AttachType, Works, Used, AtRest, Args
  <1>3. gmem[g] \in GMems
    BY <1>2 DEF AttachInv, AttachType
  <1>4. r \in GMems /\ r.next = gmem[g].next /\ ~Empty(r)
    BY <1>2, <1>3, DataAssumption DEF GMems, Empty
  <1>5. gmem' = [gmem EXCEPT ![g] = r]
    BY <1>1, <1>2 DEF AttachInv, AttachType
  <1>6. r.next = -1 \/ Used(r.next)
    BY <1>2, <1>4 DEF AttachInv, LinksLead
  <1> HIDE DEF g, r
  <1>7. LinksLead' /\ OnlyAdds /\ gmem' \in [Slots -> GMems]
    BY <1>1, <1>2, <1>4, <1>5, <1>6, WriteLeads
  <1>8. AttachType'
    <2>1. pc' \in [Threads -> AtRest \cup {"check", "driver"} \cup Adding]
      BY <1>1 DEF AttachInv, AttachType, Adding
    <2> QED BY <1>1, <1>7, <2>1 DEF AttachInv, AttachType, host, segs, regs
  <1>9. Works(t)'
    <2>1. pc'[t] = "link" /\ \A i : Used(i) => i \in Slots /\ ~Empty(gmem'[i])
      BY <1>1, <1>7 DEF AttachInv, AttachType, Used, OnlyAdds
    <2> QED BY <1>1, <2>1
        DEF AttachInv, Works, AtRest, Adding, regs, Existing, Used, Empty
  <1>10. \A u \in Threads \ {t} : Idles(u)
    BY <1>1 DEF AttachInv, AttachType, Idles, regs
  <1> QED BY <1>1, <1>7, <1>8, <1>9, <1>10, CallKeeps DEF host

LEMMA PushProbeKeeps ==
  ASSUME AttachInv, Wiped, NEW t \in Threads, PushProbe(t), UNCHANGED segs
  PROVE  AttachInv' /\ Wiped'
  <1>1. UNCHANGED <<shm, host, prv, acc, node, arg>> /\ pc[t] = "push"
    BY DEF PushProbe
  <1>2. cnt[t] \in Nat /\ -1 \in -1..(NG - 1)
    BY TableAssumption DEF AttachInv, AttachType
  <1>3. ASSUME NEW l \in {"link", "claim"}, pc' = [pc EXCEPT ![t] = l], UNCHANGED cnt,
               \/ l = "link" /\ cur' = [cur EXCEPT ![t] = -1]
               \/ l = "claim" /\ cnt[t] < NG /\ UNCHANGED cur
        PROVE  AttachInv' /\ Wiped'
    <2>1. AttachType'
      <3>1. pc' \in [Threads -> AtRest \cup {"check", "driver"} \cup Adding]
        BY <1>3 DEF AttachInv, AttachType, Adding
      <3>2. cur' \in [Threads -> -1..(NG - 1)]
        BY <1>2, <1>3 DEF AttachInv, AttachType
      <3> QED BY <1>1, <1>3, <3>1, <3>2 DEF AttachInv, AttachType, shm, host, segs
    <2>2. Works(t)'
      <3>1. pc'[t] = l /\ (l = "link" => cur'[t] = -1)
        BY <1>3 DEF AttachInv, AttachType
      <3> QED BY <1>1, <1>3, <3>1 DEF AttachInv, Works, AtRest, Adding, shm, Existing
    <2>3. \A u \in Threads \ {t} : Idles(u)
      BY <1>1, <1>3 DEF AttachInv, AttachType, Idles
    <2> QED BY <1>1, <2>1, <2>2, <2>3, TablesStay, CallKeeps DEF host
  <1>4. CASE cnt[t] < NG /\ cnt' = [cnt EXCEPT ![t] = @ + 1] /\ UNCHANGED <<pc, cur>>
    <2>1. cnt[t] + 1 \in 0..NG
      BY <1>2, <1>4, TableAssumption
    <2>2. AttachType'
      BY <1>1, <1>4, <2>1 DEF AttachInv, AttachType, shm, host, segs
    <2>3. Works(t)'
      BY <1>1, <1>4 DEF AttachInv, Works, Adding, AtRest, shm, Existing
    <2>4. \A u \in Threads \ {t} : Idles(u)
      BY <1>1, <1>4 DEF AttachInv, AttachType, Idles
    <2> QED BY <1>1, <2>2, <2>3, <2>4, TablesStay, CallKeeps DEF host
  <1> QED BY <1>3, <1>4 DEF PushProbe, Goto

LEMMA PushClaimKeeps ==
  ASSUME AttachInv, Wiped, NEW t \in Threads, PushClaim(t), UNCHANGED segs
  PROVE  AttachInv' /\ Wiped'
  <1> DEFINE g == cnt[t]
             r == [ptr |-> arg[t].hdl, bytes |-> arg[t].bytes, next |-> -1]
  <1>1. /\ UNCHANGED <<rnode, host, prv, acc, node, arg>> /\ pc[t] = "claim"
        /\ gmem' = [gmem EXCEPT ![g] = r]
        /\ cur' = [cur EXCEPT ![t] = g]
        /\ pc' = [pc EXCEPT ![t] = "link"] /\ cnt' = [cnt EXCEPT ![t] = 0]
    BY DEF PushClaim, Begin, Goto
  <1>2. g \in Slots /\ arg[t].hdl \in Handles /\ arg[t].bytes \in Bytes
    <2>1. cnt[t] \in 0..NG /\ cnt[t] < NG
      BY <1>1 DEF AttachInv, AttachType, Works
    <2>2. g \in Slots
      BY <2>1, TableAssumption DEF Slots
    <2> QED BY <1>1, <2>2 DEF AttachInv, AttachType, Works, AtRest, Args
  <1>3. r \in GMems /\ ~Empty(r) /\ r.next = -1
    BY <1>2, DataAssumption, TableAssumption DEF GMems, Empty
  <1> HIDE DEF g, r
  <1>4. LinksLead' /\ OnlyAdds /\ gmem' \in [Slots -> GMems]
    BY <1>1, <1>2, <1>3, WriteLeads
  <1>5. g \in -1..(NG - 1)
    BY <1>2, TableAssumption DEF Slots
  <1>6. AttachType'
    <2>1. pc' \in [Threads -> AtRest \cup {"check", "driver"} \cup Adding]
      BY <1>1 DEF AttachInv, AttachType, Adding
    <2>2. cnt' \in [Threads -> 0..NG] /\ cur' \in [Threads -> -1..(NG - 1)]
      BY <1>1, <1>5, TableAssumption DEF AttachInv, AttachType
    <2> QED BY <1>1, <1>4, <2>1, <2>2 DEF AttachInv, AttachType, host, segs
  <1>7. Works(t)'
    <2>1. pc'[t] = "link" /\ cur'[t] = g
      BY <1>1 DEF AttachInv, AttachType
    <2>2. gmem'[g] = r
      BY <1>1, <1>2 DEF AttachInv, AttachType
    <2> QED BY <1>1, <1>2, <1>3, <2>1, <2>2
        DEF AttachInv, Works, AtRest, Adding, Existing, Used, Empty
  <1>8. \A u \in Threads \ {t} : Idles(u)
    BY <1>1 DEF AttachInv, AttachType, Idles
  <1> QED BY <1>1, <1>4, <1>6, <1>7, <1>8, CallKeeps DEF host

LEMMA LinkEntryKeeps ==
  ASSUME AttachInv, Wiped, NEW t \in Threads, LinkEntry(t), UNCHANGED segs
  PROVE  AttachInv' /\ Wiped'
  <1> DEFINE e == rnode[node[t]].entry
  <1>1. UNCHANGED <<shm, host, cnt, cur, acc, node, arg>> /\ pc[t] = "link"
    BY DEF LinkEntry
  <1>2. e \in -1..(NG - 1) /\ (e = -1 \/ Used(e))
    BY <1>1 DEF AttachInv, AttachType, LinksLead, Works, Adding
  <1> HIDE DEF e
  <1>3. ASSUME NEW l \in {"adopt", "tail"}, pc' = [pc EXCEPT ![t] = l],
               \/ l = "adopt" /\ UNCHANGED prv
               \/ l = "tail" /\ prv' = [prv EXCEPT ![t] = e] /\ e # -1
        PROVE  AttachInv' /\ Wiped'
    <2>1. AttachType'
      <3>1. pc' \in [Threads -> AtRest \cup {"check", "driver"} \cup Adding]
        BY <1>3 DEF AttachInv, AttachType, Adding
      <3>2. prv' \in [Threads -> -1..(NG - 1)]
        BY <1>2, <1>3 DEF AttachInv, AttachType
      <3> QED BY <1>1, <3>1, <3>2 DEF AttachInv, AttachType, shm, host, segs
    <2>2. Works(t)'
      <3>1. pc'[t] = l /\ (l = "tail" => prv'[t] = e /\ Used(e))
        BY <1>2, <1>3 DEF AttachInv, AttachType
      <3> QED BY <1>1, <1>3, <3>1
          DEF AttachInv, Works, AtRest, Adding, shm, Existing, Used, Empty
    <2>3. \A u \in Threads \ {t} : Idles(u)
      BY <1>1, <1>3 DEF AttachInv, AttachType, Idles
    <2> QED BY <1>1, <2>1, <2>2, <2>3, TablesStay, CallKeeps DEF host
  <1> QED BY <1>3 DEF LinkEntry, Goto, e

LEMMA SetEntryKeeps ==
  ASSUME AttachInv, Wiped, NEW t \in Threads, SetEntry(t), UNCHANGED segs
  PROVE  AttachInv' /\ Wiped'
  <1> DEFINE n == node[t]
             g == cur[t]
  <1>1. /\ UNCHANGED <<gmem, host>> /\ pc[t] = "adopt" /\ Return(t)
        /\ rnode' = [rnode EXCEPT ![n].entry = g]
    BY DEF SetEntry
  <1>2. n \in Nodes /\ g \in -1..(NG - 1) /\ (g = -1 \/ Used(g))
    BY <1>1 DEF AttachInv, AttachType, Works, Adding
  <1> HIDE DEF n, g
  <1>3. rnode' \in [Nodes -> [key : Procs \cup {NoKey, <<0, 0>>}, entry : -1..(NG - 1),
                              stat : Statuses]]
    BY <1>1, <1>2 DEF AttachInv, AttachType
  <1>4. \A m \in Nodes : /\ rnode'[m].stat = rnode[m].stat
                         /\ rnode'[m].entry = IF m = n THEN g ELSE rnode[m].entry
    BY <1>1, <1>2 DEF AttachInv, AttachType
  <1>5. LinksLead' /\ OnlyAdds
    BY <1>1, <1>2, <1>4 DEF AttachInv, LinksLead, OnlyAdds, Existing, Used, Empty
  <1>6. AttachType'
    BY <1>1, <1>3, ReturnKeeps DEF AttachInv, AttachType, host, segs
  <1> QED BY <1>1, <1>5, <1>6, ReturnKeeps, CallKeeps DEF host

LEMMA LastRecKeeps ==
  ASSUME AttachInv, Wiped, NEW t \in Threads, LastRec(t), UNCHANGED segs
  PROVE  AttachInv' /\ Wiped'
  <1> DEFINE c == gmem[prv[t]]
  <1>1. UNCHANGED shm /\ UNCHANGED host /\ pc[t] = "tail"
    BY DEF LastRec
  <1>2. Used(prv[t])
    BY <1>1 DEF AttachInv, Works
  <1>3. prv[t] \in Slots /\ Cell(prv[t]) = c /\ ~Empty(c)
    BY <1>2 DEF Used, Cell, Slots
  <1>4. c.next \in -1..(NG - 1) /\ (~IsTail(c) => Used(c.next))
    BY <1>3 DEF AttachInv, AttachType, LinksLead, GMems, IsTail, Empty
  <1> HIDE DEF c
  <1>5. CASE Goto(t, "append") /\ UNCHANGED regs
    <2>1. AttachType'
      <3>1. pc' \in [Threads -> AtRest \cup {"check", "driver"} \cup Adding]
        BY <1>5 DEF AttachInv, AttachType, Adding, Goto
      <3> QED BY <1>1, <1>5, <3>1 DEF AttachInv, AttachType, shm, host, segs, regs
    <2>2. Works(t)'
      <3>1. pc'[t] = "append"
        BY <1>5 DEF AttachInv, AttachType, Goto
      <3> QED BY <1>1, <1>5, <3>1
          DEF AttachInv, Works, AtRest, Adding, shm, regs, Existing, Used, Empty
    <2>3. \A u \in Threads \ {t} : Idles(u)
      BY <1>5 DEF AttachInv, AttachType, Idles, Goto, regs
    <2> QED BY <1>1, <2>1, <2>2, <2>3, TablesStay, CallKeeps DEF host
  <1>6. CASE Return(t)
    <2>1. AttachType'
      BY <1>1, <1>6, ReturnKeeps DEF AttachInv, AttachType, shm, host, segs
    <2> QED BY <1>1, <1>6, <2>1, ReturnKeeps, TablesStay, CallKeeps DEF host
  <1>7. CASE /\ ~IsTail(c) /\ prv' = [prv EXCEPT ![t] = c.next]
             /\ UNCHANGED <<pc, cnt, cur, acc, node, arg>>
    <2>1. AttachType'
      BY <1>1, <1>4, <1>7 DEF AttachInv, AttachType, shm, host, segs
    <2>2. Works(t)'
      <3>1. prv'[t] = c.next
        BY <1>7 DEF AttachInv, AttachType
      <3> QED BY <1>1, <1>4, <1>7, <3>1
          DEF AttachInv, Works, AtRest, Adding, shm, Existing, Used, Empty
    <2>3. \A u \in Threads \ {t} : Idles(u)
      BY <1>7 DEF AttachInv, AttachType, Idles
    <2> QED BY <1>1, <2>1, <2>2, <2>3, TablesStay, CallKeeps DEF host
  <1> QED BY <1>3, <1>5, <1>6, <1>7 DEF LastRec

LEMMA LinkTailKeeps ==
  ASSUME AttachInv, Wiped, NEW t \in Threads, LinkTail(t), UNCHANGED segs
  PROVE  AttachInv' /\ Wiped'
  <1> DEFINE g == prv[t]
             r == [gmem[g] EXCEPT !.next = cur[t]]
  <1>1. /\ UNCHANGED <<rnode, host>> /\ pc[t] = "append" /\ Return(t)
        /\ gmem' = [gmem EXCEPT ![g].next = cur[t]]
    BY DEF LinkTail
  <1>2. g \in Slots /\ ~Empty(gmem[g]) /\ cur[t] \in -1..(NG - 1)
        /\ (cur[t] = -1 \/ Used(cur[t]))
    BY <1>1 DEF AttachInv, AttachType, Works, Used
  <1>3. gmem[g] \in GMems
    BY <1>2 DEF AttachInv, AttachType
  <1>4. r \in GMems /\ r.next = cur[t] /\ ~Empty(r)
    BY <1>2, <1>3 DEF GMems, Empty
  <1>5. gmem' = [gmem EXCEPT ![g] = r]
    BY <1>1, <1>2 DEF AttachInv, AttachType
  <1> HIDE DEF g, r
  <1>6. LinksLead' /\ OnlyAdds /\ gmem' \in [Slots -> GMems]
    BY <1>1, <1>2, <1>4, <1>5, WriteLeads
  <1>7. AttachType'
    BY <1>1, <1>6, ReturnKeeps DEF AttachInv, AttachType, host, segs
  <1> QED BY <1>1, <1>6, <1>7, ReturnKeeps, CallKeeps DEF host

LEMMA CodeKeeps ==
  ASSUME AttachInv, Wiped, NEW t \in Threads, InCode(t), ~Segfault(t), UNCHANGED segs
  PROVE  AttachInv' /\ Wiped'
  <1>1. pc[t] \in {"check", "driver"} \cup Adding \cup AtRest
    BY DEF AttachInv, AttachType
  <1>2. ~UsedNode(t) /\ ~UsedSum(t)
    BY <1>1 DEF UsedNode, UsedSum, Adding, AtRest
  <1>3. ~RemoveVisit(t) /\ ~RemoveBypass(t) /\ ~RemoveDelete(t)
    BY <1>1 DEF RemoveVisit, RemoveBypass, RemoveDelete, Adding, AtRest
  <1>4. ~DriverFree(t) /\ ~DriverFreeFails(t)
    BY <1>1 DEF DriverFree, DriverFreeFails, Adding, AtRest
  <1> QED BY <1>2, <1>3, <1>4, FindRnodeKeeps, InsertProbeKeeps, InsertAssignKeeps,
             ReadEntryKeeps, FindGmemKeeps, ResetRecordKeeps, PushProbeKeeps,
             PushClaimKeeps, LinkEntryKeeps, SetEntryKeeps, LastRecKeeps, LinkTailKeeps,
             CheckLimitKeeps, DriverAllocKeeps, DriverAllocFailsKeeps DEF InCode

LEMMA DieKeeps ==
  ASSUME AttachInv, NEW p \in Procs, Die(p), UNCHANGED segs
  PROVE  AttachInv' /\ (Wiped => Wiped')
  <1>1. UNCHANGED shm /\ alive' = [alive EXCEPT ![p] = FALSE]
        /\ pc' = [t \in Threads |-> IF Me(t) = p THEN "dead" ELSE pc[t]]
        /\ DropRegs({t \in Threads : Me(t) = p})
    BY DEF Die
  <1>2. Wiped => Wiped'
    BY <1>1 DEF Wiped, Wiping, segs, AttachInv, AttachType
  <1>3. LinksLead' /\ OnlyAdds
    BY <1>1, TablesStay
  <1>4. NoArg \in Args
    BY SomeBytes DEF NoArg, Args, Kinds
  <1>5. AttachType'
    <2>1. pc' \in [Threads -> AtRest \cup {"check", "driver"} \cup Adding]
      BY <1>1 DEF AttachInv, AttachType, AtRest
    <2>2. /\ cnt' \in [Threads -> 0..NG]
          /\ cur' \in [Threads -> -1..(NG - 1)]
          /\ prv' \in [Threads -> -1..(NG - 1)]
          /\ node' \in [Threads -> -1..(NR - 1)]
          /\ arg' \in [Threads -> Args]
      BY <1>1, <1>4, TableAssumption DEF AttachInv, AttachType, DropRegs
    <2> QED BY <1>1, <2>1, <2>2 DEF AttachInv, AttachType, shm, segs
  <1>6. ASSUME NEW t \in Threads PROVE Works(t)'
    <2>1. CASE Me(t) = p
      <3>1. pc'[t] = "dead" /\ node'[t] = -1
        BY <1>1, <2>1 DEF DropRegs
      <3> QED BY <3>1 DEF Works, AtRest, Adding
    <2>2. CASE Me(t) # p
      <3>1. Idles(t)
        BY <1>1, <2>2 DEF DropRegs, Idles
      <3> QED BY <1>3, <3>1, BystanderWorks DEF AttachInv
    <2> QED BY <2>1, <2>2
  <1>7. ~Wiped => Clean'
    BY <1>1 DEF AttachInv, Clean, shm, AtRest
  <1> QED BY <1>2, <1>3, <1>5, <1>6, <1>7 DEF AttachInv

(***************************************************************************)
(* The constructors keep it                                                *)
(***************************************************************************)
LEMMA GetStep ==
  ASSUME NEW p \in Procs, NEW s \in Segments, NEW wipe \in BootLabels,
         NEW next \in BootLabels, Get(p, s, wipe, next), AttachType
  PROVE  /\ boot' \in [Procs -> BootLabels]
         /\ made = Segments => UNCHANGED made /\ boot' = [boot EXCEPT ![p] = next]
  BY DEF Get, Attaching, BootTo, Creates, AttachType

LEMMA BootStep ==
  ASSUME AttachInv, NEW p \in Procs, Boot(p)
  PROVE  /\ UNCHANGED <<host, pc, regs>>
         /\ boot' \in [Procs -> BootLabels] /\ slot' \in [Procs -> Nat]
         /\ Wiped => UNCHANGED shm /\ Wiped'
         /\ UNCHANGED rnode \/ \E i : rnode' = [rnode EXCEPT ![i] = InitRNode]
         /\ UNCHANGED gmem \/ \E i : gmem' = [gmem EXCEPT ![i] = InitGMem]
  <1> DEFINE Goal ==
         /\ UNCHANGED <<host, pc, regs>>
         /\ boot' \in [Procs -> BootLabels] /\ slot' \in [Procs -> Nat]
         /\ Wiped => UNCHANGED shm /\ Wiped'
         /\ UNCHANGED rnode \/ \E i : rnode' = [rnode EXCEPT ![i] = InitRNode]
         /\ UNCHANGED gmem \/ \E i : gmem' = [gmem EXCEPT ![i] = InitGMem]
  <1>1. ASSUME NEW s \in Segments, NEW wipe \in BootLabels, NEW next \in {"get_gmem", "ready"},
               Get(p, s, wipe, next), UNCHANGED <<vars, slot>>
        PROVE  Goal
    <2>1. boot' \in [Procs -> BootLabels]
      BY <1>1, GetStep DEF AttachInv, BootLabels
    <2>2. made = Segments => UNCHANGED made /\ boot' = [boot EXCEPT ![p] = next]
      BY <1>1, GetStep DEF AttachInv, BootLabels
    <2>3. Wiped => Wiped'
      BY <1>1, <2>2 DEF Wiped, Wiping, vars, host, AttachInv, AttachType
    <2> QED BY <1>1, <2>1, <2>3 DEF vars, shm, AttachInv, AttachType
  <1>2. CASE WipeRnode(p)
    <2>1. ~Wiped
      BY <1>2 DEF WipeRnode, Wiped, Wiping
    <2>2. boot' \in [Procs -> BootLabels] /\ slot' \in [Procs -> Nat]
      BY <1>2 DEF WipeRnode, BootTo, BootLabels, AttachInv, AttachType
    <2>3. UNCHANGED rnode \/ \E i : rnode' = [rnode EXCEPT ![i] = InitRNode]
      BY <1>2 DEF WipeRnode
    <2> QED BY <1>2, <2>1, <2>2, <2>3 DEF WipeRnode
  <1>3. CASE WipeGmem(p)
    <2>1. ~Wiped
      BY <1>3 DEF WipeGmem, Wiped, Wiping
    <2>2. boot' \in [Procs -> BootLabels] /\ slot' \in [Procs -> Nat]
      BY <1>3 DEF WipeGmem, BootTo, BootLabels, AttachInv, AttachType
    <2>3. UNCHANGED gmem \/ \E i : gmem' = [gmem EXCEPT ![i] = InitGMem]
      BY <1>3 DEF WipeGmem
    <2> QED BY <1>3, <2>1, <2>2, <2>3 DEF WipeGmem
  <1>4. CASE GetRnode(p)
    BY <1>1, <1>4 DEF GetRnode, Segments, BootLabels
  <1>5. CASE GetGmem(p)
    BY <1>1, <1>5 DEF GetGmem, Segments, BootLabels
  <1> QED BY <1>2, <1>3, <1>4, <1>5 DEF Boot

LEMMA BootKeeps ==
  ASSUME AttachInv, NEW p \in Procs, Boot(p)
  PROVE  AttachInv'
  <1>1. UNCHANGED <<host, pc, regs>>
    BY BootStep
  <1>2. boot' \in [Procs -> BootLabels] /\ slot' \in [Procs -> Nat]
    BY BootStep
  <1>3. CASE Wiped
    <2>1. UNCHANGED shm /\ Wiped'
      BY <1>3, BootStep
    <2>2. AttachType' /\ LinksLead'
      BY <1>1, <1>2, <2>1, TablesStay DEF AttachInv, AttachType, shm, host, regs
    <2>3. \A t \in Threads : Works(t)'
      BY <1>1, <2>1 DEF AttachInv, Works, shm, regs, Used, Existing, Empty
    <2> QED BY <2>1, <2>2, <2>3 DEF AttachInv
  <1>4. CASE ~Wiped
    <2>1. Clean
      BY <1>4 DEF AttachInv
    <2>2. rnode' \in [Nodes -> {ZeroRNode, InitRNode}]
      <3>1. rnode \in [Nodes -> {ZeroRNode, InitRNode}]
        BY <2>1 DEF Clean, AttachInv, AttachType
      <3> QED BY <3>1, BootStep
    <2>3. gmem' \in [Slots -> {ZeroGMem, InitGMem}]
      <3>1. gmem \in [Slots -> {ZeroGMem, InitGMem}]
        BY <2>1 DEF Clean, AttachInv, AttachType
      <3> QED BY <3>1, BootStep
    <2>4. Clean'
      BY <1>1, <2>1, <2>2, <2>3 DEF Clean
    <2>5. /\ ZeroRNode.stat = "NONEXIST" /\ InitRNode.stat = "NONEXIST"
          /\ Empty(ZeroGMem) /\ Empty(InitGMem)
      BY DEF ZeroRNode, InitRNode, ZeroGMem, InitGMem, Empty
    <2>6. LinksLead'
      BY <2>2, <2>3, <2>5 DEF LinksLead, Existing, Empty
    <2>7. AttachType'
      <3>1. {ZeroRNode, InitRNode} \subseteq
              [key : Procs \cup {NoKey, <<0, 0>>}, entry : -1..(NG - 1), stat : Statuses]
        BY TableAssumption DEF ZeroRNode, InitRNode, Statuses
      <3>2. {ZeroGMem, InitGMem} \subseteq GMems
        BY TableAssumption, SomeBytes DEF ZeroGMem, InitGMem, GMems
      <3> HIDE DEF ZeroRNode, InitRNode
      <3>3. rnode' \in [Nodes -> [key : Procs \cup {NoKey, <<0, 0>>}, entry : -1..(NG - 1),
                                  stat : Statuses]]
        BY <2>2, <3>1
      <3>4. gmem' \in [Slots -> GMems]
        BY <2>3, <3>2
      <3> QED BY <1>1, <1>2, <3>3, <3>4 DEF AttachInv, AttachType, host, regs
    <2>8. \A t \in Threads : Works(t)'
      <3>1. \A t \in Threads : pc'[t] \in AtRest /\ node'[t] = -1
        BY <1>1, <2>1 DEF AttachInv, Works, Clean, regs
      <3> QED BY <3>1 DEF Works, AtRest, Adding
    <2> QED BY <2>4, <2>6, <2>7, <2>8 DEF AttachInv
  <1> QED BY <1>3, <1>4

LEMMA AttachStart == AttachInit => AttachInv /\ ~Wiped
  <1> SUFFICES ASSUME AttachInit PROVE AttachInv /\ ~Wiped
    OBVIOUS
  <1>1. ~Wiped
    BY DEF AttachInit, Wiped, Segments
  <1>2. Clean
    BY DEF AttachInit, NoCalls, Clean, AtRest
  <1>3. /\ ZeroRNode \in [key : Procs \cup {NoKey, <<0, 0>>}, entry : -1..(NG - 1),
                          stat : Statuses]
        /\ ZeroGMem \in GMems /\ NoArg \in Args
    BY TableAssumption, SomeBytes
    DEF ZeroRNode, Statuses, ZeroGMem, GMems, NoArg, Args, Kinds
  <1>4. AttachType
    BY <1>3, TableAssumption DEF AttachInit, NoCalls, AttachType, AtRest, BootLabels
  <1>5. LinksLead
    BY DEF AttachInit, LinksLead, Existing, Empty, ZeroRNode, ZeroGMem
  <1>6. \A t \in Threads : Works(t)
    BY DEF AttachInit, NoCalls, Works, AtRest, Adding
  <1> QED BY <1>1, <1>2, <1>4, <1>5, <1>6 DEF AttachInv

(* No call is under way before the creators are done, and none starts.     *)
LEMMA CallsWait ==
  ASSUME AttachInv, PatientNext, NEW t \in Threads, ~Wiped
  PROVE  ~Keep(t) /\ ~BadTable(t)
  <1>1. \A u \in Threads : pc[u] \in AtRest
    BY DEF AttachInv, Clean
  <1>2. ~InCode(t)
    BY <1>1 DEF InCode, AtRest, UsedNode, UsedSum, FindRnode, InsertProbe, InsertAssign,
       ReadEntry, FindGmem, ResetRecord, PushProbe, PushClaim, LinkEntry, SetEntry, LastRec,
       LinkTail, RemoveVisit, RemoveBypass, RemoveDelete, CheckLimit, DriverAlloc,
       DriverAllocFails, DriverFree, DriverFreeFails, Segfault, Faults
  <1>3. ASSUME NEW k \in AllocKinds, NEW h \in Handles, NEW b \in Sizes, StartAlloc(t, k, h, b)
        PROVE  FALSE
    <2>1. pc[t] = "idle" /\ pc'[t] \in {"check", "used"}
      BY <1>3 DEF StartAlloc, Goto, AttachInv, AttachType
    <2> QED BY <2>1 DEF PatientNext, CallsStart
  <1> QED BY <1>1, <1>2, <1>3 DEF Keep, BadTable, AtRest

LEMMA AttachStep ==
  ASSUME OnlyPitch
  PROVE  AttachInv /\ [PatientNext]_allvars => AttachInv' /\ (Wiped => Wiped')
  <1> SUFFICES ASSUME AttachInv, [PatientNext]_allvars
               PROVE  AttachInv' /\ (Wiped => Wiped')
    OBVIOUS
  <1>1. CASE UNCHANGED allvars
    <2>1. UNCHANGED <<shm, host, pc, regs, segs>>
      BY <1>1 DEF allvars, vars
    <2>2. AttachType' /\ LinksLead'
      BY <2>1, TablesStay DEF AttachInv, AttachType, shm, host, regs, segs
    <2>3. \A t \in Threads : Works(t)'
      BY <2>1 DEF AttachInv, Works, shm, regs, Used, Existing, Empty
    <2>4. ~Wiped' => Clean'
      BY <2>1 DEF AttachInv, Clean, shm, host, segs, Wiped, Wiping
    <2>5. Wiped => Wiped'
      BY <2>1 DEF host, segs, Wiped, Wiping
    <2> QED BY <2>2, <2>3, <2>4, <2>5 DEF AttachInv
  <1>2. CASE PatientNext
    <2>1. ASSUME NEW p \in Procs, Boot(p) PROVE AttachInv' /\ (Wiped => Wiped')
      BY <2>1, BootKeeps, BootStep
    <2>2. ASSUME NEW t \in Threads, Keep(t), UNCHANGED segs PROVE AttachInv' /\ (Wiped => Wiped')
      <3>1. Wiped
        BY <1>2, <2>2, CallsWait
      <3>2. CASE Segfault(t)
        BY <2>2, <3>2, DieKeeps, MeType DEF Segfault
      <3>3. CASE InCode(t) /\ ~Segfault(t)
        BY <2>2, <3>1, <3>3, CodeKeeps
      <3>4. ASSUME NEW k \in AllocKinds, NEW h \in Handles, NEW b \in Sizes,
                   StartAlloc(t, k, h, b)
            PROVE  AttachInv' /\ Wiped'
        BY <2>2, <3>1, <3>4, StartAllocKeeps
      <3> QED BY <2>2, <3>2, <3>3, <3>4 DEF Keep, InCode
    <2>3. ASSUME NEW t \in Threads, BadTable(t), UNCHANGED segs PROVE AttachInv' /\ (Wiped => Wiped')
      BY <2>3, DieKeeps, MeType DEF BadTable
    <2>4. ASSUME NEW p \in Procs, Die(p), UNCHANGED segs PROVE AttachInv' /\ (Wiped => Wiped')
      BY <2>4, DieKeeps
    <2> QED BY <1>2, <2>1, <2>2, <2>3, <2>4 DEF PatientNext, EagerNext
  <1> QED BY <1>1, <1>2

(***************************************************************************)
(* Each step is a step of Hijack on the tables that are shown              *)
(***************************************************************************)
LEMMA CheckLimitMaps ==
  ASSUME NEW t \in Threads, CheckLimit(t), UNCHANGED H!shm
  PROVE  H!CheckLimit(t)
  BY LocalsSame DEF CheckLimit, H!CheckLimit, Exceeds, H!Exceeds

LEMMA DriverAllocMaps ==
  ASSUME NEW t \in Threads, NEW d \in Dptrs, DriverAlloc(t, d), UNCHANGED H!shm
  PROVE  H!DriverAlloc(t, d)
  BY LocalsSame DEF DriverAlloc, H!DriverAlloc

LEMMA DriverAllocFailsMaps ==
  ASSUME NEW t \in Threads, DriverAllocFails(t), UNCHANGED H!shm
  PROVE  H!DriverAllocFails(t)
  BY LocalsSame DEF DriverAllocFails, H!DriverAllocFails

LEMMA StartAllocMaps ==
  ASSUME NEW t \in Threads, NEW k, NEW h, NEW b, Fresh(Me(t), h), StartAlloc(t, k, h, b),
         UNCHANGED H!shm
  PROVE  H!Fresh(H!Me(t), h) /\ H!StartAlloc(t, k, h, b)
  BY LocalsSame DEF Fresh, H!Fresh, Live, H!Live, StartAlloc, H!StartAlloc

LEMMA FindRnodeMaps ==
  ASSUME AttachInv, Wiped, NEW t \in Threads, FindRnode(t), UNCHANGED H!shm
  PROVE  H!FindRnode(t)
  <1> DEFINE n == Hash(Me(t), cnt[t])
  <1>1. n \in Nodes
    BY HashInTable, MeType, TableAssumption DEF AttachInv, AttachType
  <1>2. H!ProbeEnds(t) <=> ProbeEnds(t)
    BY <1>1, Shown, HashSame, LocalsSame DEF Seen, H!ProbeEnds, ProbeEnds, ShownNodes
  <1>3. H!ProbeHits(t) <=> ProbeHits(t)
    BY <1>1, Shown, HashSame, LocalsSame
    DEF Seen, H!ProbeHits, ProbeHits, ShownNodes, H!SameKey, SameKey, Existing
  <1> QED BY <1>2, <1>3, HashSame, LocalsSame DEF FindRnode, H!FindRnode

LEMMA InsertProbeMaps ==
  ASSUME AttachInv, Wiped, NEW t \in Threads, InsertProbe(t), UNCHANGED H!shm
  PROVE  H!InsertProbe(t)
  <1> DEFINE n == Hash(Me(t), cnt[t])
  <1>1. n \in Nodes
    BY HashInTable, MeType, TableAssumption DEF AttachInv, AttachType
  <1>2. H!Usable(t) <=> Usable(t)
    <2>1. rnode[n].stat \in Statuses
      BY <1>1 DEF AttachInv, AttachType
    <2> QED BY <1>1, <2>1, Shown, HashSame, LocalsSame
        DEF Seen, H!Usable, Usable, ShownNodes, H!SameKey, SameKey, Existing,
            H!Available, Available, Statuses
  <1> QED BY <1>2, LocalsSame DEF InsertProbe, H!InsertProbe

LEMMA ReadEntryMaps ==
  ASSUME AttachInv, Wiped, NEW t \in Threads, ReadEntry(t), UNCHANGED H!shm
  PROVE  H!ReadEntry(t)
  <1>1. ShownNodes[node[t]] = rnode[node[t]]
    BY Shown DEF Seen, ReadEntry, AttachInv, Works
  <1> QED BY <1>1, LocalsSame DEF ReadEntry, H!ReadEntry, ShownNodes

LEMMA CellShown ==
  ASSUME AttachInv, Wiped, NEW g, g = -1 \/ Used(g)
  PROVE  H!Cell(g) = Cell(g)
  BY Shown DEF Seen, Cell, H!Cell, Used, ShownRecords, Slots

LEMMA FindGmemMaps ==
  ASSUME AttachInv, Wiped, NEW t \in Threads, FindGmem(t), UNCHANGED H!shm
  PROVE  H!FindGmem(t)
  <1>1. H!Cell(cur[t]) = Cell(cur[t])
    BY CellShown DEF FindGmem, AttachInv, Works
  <1> QED BY <1>1, LocalsSame
      DEF FindGmem, H!FindGmem, H!Empty, Empty, H!Holds, Holds, H!Deref, Deref

LEMMA PushProbeMaps ==
  ASSUME AttachInv, Wiped, NEW t \in Threads, PushProbe(t), UNCHANGED H!shm
  PROVE  H!PushProbe(t)
  <1>1. CASE cnt[t] = NG
    BY <1>1, TableAssumption, LocalsSame DEF PushProbe, H!PushProbe
  <1>2. CASE cnt[t] # NG
    <2>1. cnt[t] \in Slots
      <3>1. cnt[t] \in 0..NG
        BY DEF AttachInv, AttachType
      <3> QED BY <1>2, <3>1, TableAssumption DEF Slots
    <2>2. Empty(ShownRecords[cnt[t]]) <=> Empty(gmem[cnt[t]])
      BY <2>1, Shown DEF Seen
    <2> QED BY <1>2, <2>2, LocalsSame DEF PushProbe, H!PushProbe, H!Empty, Empty, ShownRecords
  <1> QED BY <1>1, <1>2

LEMMA LinkEntryMaps ==
  ASSUME AttachInv, Wiped, NEW t \in Threads, LinkEntry(t), UNCHANGED H!shm
  PROVE  H!LinkEntry(t)
  <1>1. ShownNodes[node[t]] = rnode[node[t]]
    BY Shown DEF Seen, LinkEntry, AttachInv, Works, Adding
  <1> QED BY <1>1, LocalsSame DEF LinkEntry, H!LinkEntry, ShownNodes

LEMMA LastRecMaps ==
  ASSUME AttachInv, Wiped, NEW t \in Threads, LastRec(t), UNCHANGED H!shm
  PROVE  H!LastRec(t)
  <1>1. H!Cell(prv[t]) = Cell(prv[t])
    BY CellShown DEF LastRec, AttachInv, Works
  <1> QED BY <1>1, LocalsSame DEF LastRec, H!LastRec, H!IsTail, IsTail

(* A slot that is written with a node or a record is shown as written.     *)
LEMMA NodeWritten ==
  ASSUME AttachInv, Wiped, Wiped', NEW n \in Nodes, NEW r, r.stat = "EXIST",
         rnode' = [rnode EXCEPT ![n] = r], UNCHANGED gmem
  PROVE  ShownNodes' = [ShownNodes EXCEPT ![n] = r] /\ UNCHANGED ShownRecords
  <1>1. r # ZeroRNode
    BY DEF ZeroRNode
  <1>2. \A m \in Nodes : rnode'[m] = IF m = n THEN r ELSE rnode[m]
    BY DEF AttachInv, AttachType
  <1> HIDE DEF ZeroRNode
  <1> QED BY <1>1, <1>2 DEF ShownNodes, ShownRecords

LEMMA RecordWritten ==
  ASSUME AttachInv, Wiped, Wiped', NEW g \in Slots, NEW r, ~Empty(r),
         gmem' = [gmem EXCEPT ![g] = r], UNCHANGED rnode
  PROVE  ShownRecords' = [ShownRecords EXCEPT ![g] = r] /\ UNCHANGED ShownNodes
  <1>1. r # ZeroGMem
    BY DEF ZeroGMem, Empty
  <1>2. \A i \in Slots : gmem'[i] = IF i = g THEN r ELSE gmem[i]
    BY DEF AttachInv, AttachType
  <1> HIDE DEF ZeroGMem
  <1> QED BY <1>1, <1>2 DEF ShownNodes, ShownRecords

LEMMA InsertAssignMaps ==
  ASSUME AttachInv, Wiped, Wiped', NEW t \in Threads, InsertAssign(t)
  PROVE  H!InsertAssign(t)
  <1> DEFINE n == Hash(Me(t), cnt[t])
             r == [key |-> Me(t), entry |-> -1, stat |-> "EXIST"]
  <1>1. n \in Nodes
    BY HashInTable, MeType, TableAssumption DEF AttachInv, AttachType
  <1>2. ShownNodes' = [ShownNodes EXCEPT ![n] = r] /\ UNCHANGED ShownRecords
    <2>1. r.stat = "EXIST" /\ rnode' = [rnode EXCEPT ![n] = r] /\ UNCHANGED gmem
      BY DEF InsertAssign
    <2> HIDE DEF n, r
    <2> QED BY <1>1, <2>1, NodeWritten
  <1> QED BY <1>2, HashSame, LocalsSame DEF InsertAssign, H!InsertAssign, ShownNodes, ShownRecords

LEMMA SetEntryMaps ==
  ASSUME AttachInv, Wiped, Wiped', NEW t \in Threads, SetEntry(t)
  PROVE  H!SetEntry(t)
  <1> DEFINE n == node[t]
             r == [rnode[n] EXCEPT !.entry = cur[t]]
  <1>1. n \in Nodes /\ Existing(n)
    BY DEF SetEntry, AttachInv, Works, Adding
  <1>2. ShownNodes[n] = rnode[n]
    BY <1>1, Shown DEF Seen
  <1>3. r.stat = "EXIST" /\ rnode' = [rnode EXCEPT ![n] = r]
    BY <1>1 DEF SetEntry, Existing, AttachInv, AttachType
  <1>4. ShownNodes' = [ShownNodes EXCEPT ![n] = r] /\ UNCHANGED ShownRecords
    BY <1>1, <1>3, NodeWritten DEF SetEntry
  <1>5. ShownNodes' = [ShownNodes EXCEPT ![n].entry = cur[t]]
    BY <1>1, <1>2, <1>4 DEF ShownNodes
  <1> QED BY <1>4, <1>5, LocalsSame DEF SetEntry, H!SetEntry, ShownNodes, ShownRecords

LEMMA PushClaimMaps ==
  ASSUME AttachInv, Wiped, Wiped', NEW t \in Threads, PushClaim(t)
  PROVE  H!PushClaim(t)
  <1> DEFINE r == [ptr |-> arg[t].hdl, bytes |-> arg[t].bytes, next |-> -1]
  <1>1. cnt[t] \in Slots
    <2>1. cnt[t] \in 0..NG /\ cnt[t] < NG
      BY DEF PushClaim, AttachInv, AttachType, Works
    <2> QED BY <2>1, TableAssumption DEF Slots
  <1>2. ~Empty(r)
    BY DataAssumption DEF PushClaim, AttachInv, Works, AtRest, Empty
  <1>3. ShownRecords' = [ShownRecords EXCEPT ![cnt[t]] = r] /\ UNCHANGED ShownNodes
    BY <1>1, <1>2, RecordWritten DEF PushClaim
  <1> QED BY <1>3, LocalsSame DEF PushClaim, H!PushClaim, ShownNodes, ShownRecords

LEMMA ResetRecordMaps ==
  ASSUME AttachInv, Wiped, Wiped', NEW t \in Threads, ResetRecord(t)
  PROVE  H!ResetRecord(t)
  <1> DEFINE g == cur[t]
             r == [gmem[g] EXCEPT !.ptr = arg[t].hdl, !.bytes = arg[t].bytes]
  <1>1. g \in Slots /\ ~Empty(gmem[g]) /\ arg[t].hdl \in Handles
    BY DEF ResetRecord, AttachInv, Works, Used, AtRest
  <1>2. ShownRecords[g] = gmem[g] /\ gmem[g] \in GMems
    BY <1>1, Shown DEF Seen, AttachInv, AttachType
  <1>3. ~Empty(r) /\ gmem' = [gmem EXCEPT ![g] = r]
    BY <1>1, <1>2, DataAssumption DEF ResetRecord, Empty, GMems, AttachInv, AttachType
  <1>4. ShownRecords' = [ShownRecords EXCEPT ![g] = r] /\ UNCHANGED ShownNodes
    BY <1>1, <1>3, RecordWritten DEF ResetRecord
  <1>5. ShownRecords' = [ShownRecords EXCEPT ![g].ptr = arg[t].hdl, ![g].bytes = arg[t].bytes]
    BY <1>1, <1>2, <1>4 DEF ShownRecords
  <1> QED BY <1>4, <1>5, LocalsSame DEF ResetRecord, H!ResetRecord, ShownNodes, ShownRecords

LEMMA LinkTailMaps ==
  ASSUME AttachInv, Wiped, Wiped', NEW t \in Threads, LinkTail(t)
  PROVE  H!LinkTail(t)
  <1> DEFINE g == prv[t]
             r == [gmem[g] EXCEPT !.next = cur[t]]
  <1>1. g \in Slots /\ ~Empty(gmem[g])
    BY DEF LinkTail, AttachInv, Works, Used
  <1>2. ShownRecords[g] = gmem[g] /\ gmem[g] \in GMems
    BY <1>1, Shown DEF Seen, AttachInv, AttachType
  <1>3. ~Empty(r) /\ gmem' = [gmem EXCEPT ![g] = r]
    BY <1>1, <1>2 DEF LinkTail, Empty, GMems, AttachInv, AttachType
  <1>4. ShownRecords' = [ShownRecords EXCEPT ![g] = r] /\ UNCHANGED ShownNodes
    BY <1>1, <1>3, RecordWritten DEF LinkTail
  <1>5. ShownRecords' = [ShownRecords EXCEPT ![g].next = cur[t]]
    BY <1>1, <1>2, <1>4 DEF ShownRecords
  <1> QED BY <1>4, <1>5, LocalsSame DEF LinkTail, H!LinkTail, ShownNodes, ShownRecords

LEMMA CodeMaps ==
  ASSUME AttachInv, Wiped, NEW t \in Threads, InCode(t), ~Segfault(t), UNCHANGED segs
  PROVE  H!InCode(t)
  <1>1. Wiped'
    BY CodeKeeps
  <1>2. pc[t] \in {"check", "driver"} \cup Adding \cup AtRest
    BY DEF AttachInv, AttachType
  <1>3. ~UsedNode(t) /\ ~UsedSum(t)
    BY <1>2 DEF UsedNode, UsedSum, Adding, AtRest
  <1>4. ~RemoveVisit(t) /\ ~RemoveBypass(t) /\ ~RemoveDelete(t)
    BY <1>2 DEF RemoveVisit, RemoveBypass, RemoveDelete, Adding, AtRest
  <1>5. ~DriverFree(t) /\ ~DriverFreeFails(t)
    BY <1>2 DEF DriverFree, DriverFreeFails, Adding, AtRest
  <1>6. CASE UNCHANGED shm
    <2>1. UNCHANGED H!shm
      BY <1>1, <1>6, TablesSame
    <2>2. InsertAssign(t) \/ SetEntry(t) \/ PushClaim(t) \/ ResetRecord(t) \/ LinkTail(t)
            => H!InCode(t)
      BY <1>1, InsertAssignMaps, SetEntryMaps, PushClaimMaps, ResetRecordMaps, LinkTailMaps
      DEF H!InCode
    <2> QED BY <1>3, <1>4, <1>5, <2>1, <2>2, CheckLimitMaps, DriverAllocMaps,
               DriverAllocFailsMaps, FindRnodeMaps, InsertProbeMaps, ReadEntryMaps,
               FindGmemMaps, PushProbeMaps, LinkEntryMaps, LastRecMaps DEF InCode, H!InCode
  <1>7. CASE ~UNCHANGED shm
    <2>1. InsertAssign(t) \/ SetEntry(t) \/ PushClaim(t) \/ ResetRecord(t) \/ LinkTail(t)
      BY <1>3, <1>4, <1>5, <1>7 DEF InCode, CheckLimit, DriverAlloc, DriverAllocFails,
         FindRnode, InsertProbe, ReadEntry, FindGmem, PushProbe, LinkEntry, LastRec
    <2> QED BY <1>1, <2>1, InsertAssignMaps, SetEntryMaps, PushClaimMaps, ResetRecordMaps,
               LinkTailMaps DEF H!InCode
  <1> QED BY <1>6, <1>7

LEMMA InitMaps == AttachInit => H!Init
  <1> SUFFICES ASSUME AttachInit PROVE H!Init
    OBVIOUS
  <1>1. ~Wiped
    BY AttachStart
  <1>2. H!InitRNode = InitRNode /\ H!InitGMem = InitGMem /\ H!NoArg = NoArg
        /\ H!Nodes = Nodes /\ H!Slots = Slots
    BY DEF H!InitRNode, InitRNode, H!NoKey, NoKey, H!InitGMem, InitGMem, H!NoArg, NoArg,
       H!Nodes, Nodes, H!Slots, Slots
  <1>3. H!NoCalls
    BY <1>2 DEF AttachInit, NoCalls, H!NoCalls
  <1> QED BY <1>1, <1>2, <1>3 DEF AttachInit, H!Init

(* While the creators are at work and when they are done: the tables that  *)
(* Hijack sees do not change by it.                                        *)
LEMMA BootMaps ==
  ASSUME AttachInv, NEW p \in Procs, Boot(p)
  PROVE  UNCHANGED H!vars
  <1>1. UNCHANGED <<host, pc, regs>>
    BY BootStep
  <1>2. CASE Wiped
    <2>1. UNCHANGED H!shm
      BY <1>2, BootStep, TablesSame
    <2> QED BY <1>1, <2>1, LocalsSame DEF H!vars
  <1>3. CASE ~Wiped
    <2>1. Clean
      BY <1>3 DEF AttachInv
    <2>2. \A n \in Nodes : rnode'[n] \in {ZeroRNode, InitRNode}
      <3>1. rnode \in [Nodes -> {ZeroRNode, InitRNode}]
        BY <2>1 DEF Clean, AttachInv, AttachType
      <3> QED BY <3>1, BootStep
    <2>3. \A g \in Slots : gmem'[g] \in {ZeroGMem, InitGMem}
      <3>1. gmem \in [Slots -> {ZeroGMem, InitGMem}]
        BY <2>1 DEF Clean, AttachInv, AttachType
      <3> QED BY <3>1, BootStep
    <2>4. UNCHANGED ShownNodes /\ UNCHANGED ShownRecords
      BY <1>3, <2>2, <2>3 DEF ShownNodes, ShownRecords
    <2>5. UNCHANGED H!shm
      BY <2>4 DEF H!shm, ShownNodes, ShownRecords
    <2> QED BY <1>1, <2>5, LocalsSame DEF H!vars
  <1> QED BY <1>2, <1>3

LEMMA DieMaps ==
  ASSUME AttachInv, NEW p \in Procs, Die(p), UNCHANGED segs
  PROVE  H!Die(p)
  <1>1. UNCHANGED shm
    BY DEF Die
  <1>2. CASE Wiped
    BY <1>1, <1>2, DieKeeps, TablesSame, DieSame
  <1>3. CASE ~Wiped
    <2>1. Clean
      BY <1>3 DEF AttachInv
    <2>2. UNCHANGED ShownNodes /\ UNCHANGED ShownRecords
      BY <1>1, <1>3, <2>1 DEF ShownNodes, ShownRecords, Clean, shm
    <2>3. UNCHANGED H!shm
      BY <2>2 DEF H!shm, ShownNodes, ShownRecords
    <2> QED BY <2>3, DieSame
  <1> QED BY <1>2, <1>3

LEMMA StepMaps ==
  ASSUME OnlyPitch
  PROVE  AttachInv /\ [PatientNext]_allvars => [H!KeepNext]_(H!vars)
  <1> SUFFICES ASSUME AttachInv, [PatientNext]_allvars
               PROVE  H!KeepNext \/ UNCHANGED H!vars
    OBVIOUS
  <1>1. CASE UNCHANGED allvars
    <2>1. UNCHANGED <<shm, host, pc, regs, segs>>
      BY <1>1 DEF allvars, vars
    <2>2. UNCHANGED H!shm
      BY <2>1 DEF H!shm, shm, host, segs, Wiped, Wiping
    <2> QED BY <2>1, <2>2, LocalsSame DEF H!vars
  <1>2. CASE PatientNext
    <2>1. ASSUME NEW p \in Procs, Boot(p) PROVE UNCHANGED H!vars
      BY <2>1, BootMaps
    <2>2. ASSUME NEW p \in Procs, Die(p), UNCHANGED segs PROVE H!KeepNext
      BY <2>2, DieMaps DEF H!KeepNext
    <2>3. ASSUME NEW t \in Threads, BadTable(t), UNCHANGED segs PROVE H!KeepNext
      BY <2>2, <2>3, MeType DEF BadTable
    <2>4. ASSUME NEW t \in Threads, Keep(t), UNCHANGED segs PROVE H!KeepNext
      <3>1. Wiped
        BY <1>2, <2>4, CallsWait
      <3>2. CASE Segfault(t)
        BY <2>2, <2>4, <3>2, MeType DEF Segfault
      <3>3. CASE InCode(t) /\ ~Segfault(t)
        BY <2>4, <3>1, <3>3, CodeMaps DEF H!KeepNext, H!Keep
      <3>4. ASSUME NEW k \in AllocKinds, NEW h \in Handles, NEW b \in Sizes,
                   Fresh(Me(t), h), StartAlloc(t, k, h, b)
            PROVE  H!KeepNext
        <4>1. Wiped'
          BY <2>4, <3>1, <3>4, StartAllocKeeps
        <4>2. UNCHANGED H!shm
          BY <3>1, <3>4, <4>1, TablesSame DEF StartAlloc
        <4> QED BY <3>4, <4>2, StartAllocMaps DEF H!KeepNext, H!Keep
      <3> QED BY <2>4, <3>2, <3>3, <3>4 DEF Keep, InCode
    <2> QED BY <1>2, <2>1, <2>2, <2>3, <2>4 DEF PatientNext, EagerNext
  <1> QED BY <1>1, <1>2

(* RNM::init and the calls behind it, resource.cxx:28-76: when processes   *)
(* that call cuMemAllocPitch only wait for the creators of the segments,   *)
(* every behaviour, failing shmgets, creators that end and calls through   *)
(* the address -1 included, is a behaviour of the calls on two tables that *)
(* were initialised before the first call.                                 *)
THEOREM AttachedAsInitialised ==
  ASSUME OnlyPitch
  PROVE  PatientSpec => ImplementsHijack
  <1>1. AttachInit => AttachInv
    BY AttachStart
  <1>2. AttachInv /\ [PatientNext]_allvars => AttachInv'
    BY AttachStep
  <1>3. AttachInit => H!Init
    BY InitMaps
  <1>4. AttachInv /\ [PatientNext]_allvars => [H!KeepNext]_(H!vars)
    BY StepMaps
  <1> QED BY <1>1, <1>2, <1>3, <1>4, PTL DEF PatientSpec, ImplementsHijack, H!KeepSpec

(***************************************************************************)
(* What the calls promise on initialised tables, they promise on attached  *)
(* ones: the theorems of HijackProofs about the tables that are shown      *)
(***************************************************************************)
V == INSTANCE HijackProofs WITH
  rnode <- [n \in Nodes |-> IF ~Wiped \/ rnode[n] = ZeroRNode THEN InitRNode ELSE rnode[n]],
  gmem  <- [g \in Slots |-> IF ~Wiped \/ gmem[g] = ZeroGMem THEN InitGMem ELSE gmem[g]]

(* H and V are one module, instantiated in one way.                        *)
LEMMA LocalsOfViews ==
  /\ \A t : V!Me(t) = H!Me(t)
  /\ \A t, l : H!Goto(t, l) => V!Goto(t, l)
  /\ \A t, l : H!Begin(t, l) => V!Begin(t, l)
  /\ \A T : H!DropRegs(T) => V!DropRegs(T)
  /\ \A t : H!Return(t) => V!Return(t)
  /\ UNCHANGED H!shm <=> UNCHANGED V!shm
  /\ UNCHANGED H!host <=> UNCHANGED V!host
  /\ UNCHANGED H!regs <=> UNCHANGED V!regs
  <1>1. \A t, l : H!Goto(t, l) => V!Goto(t, l)
    BY DEF H!Goto, V!Goto
  <1>2. \A t, l : H!Begin(t, l) => V!Begin(t, l)
    BY <1>1 DEF H!Begin, V!Begin
  <1>3. \A T : H!DropRegs(T) => V!DropRegs(T)
    BY DEF H!DropRegs, V!DropRegs, H!NoArg, V!NoArg
  <1>4. \A t : H!Return(t) => V!Return(t)
    BY <1>1, <1>3 DEF H!Return, V!Return
  <1>5. UNCHANGED H!shm <=> UNCHANGED V!shm
    BY DEF H!shm, V!shm
  <1> QED BY <1>1, <1>2, <1>3, <1>4, <1>5
          DEF H!Me, V!Me, H!host, V!host, H!regs, V!regs

LEMMA CodeOfViews == \A t : H!InCode(t) => V!InCode(t)
  <1> SUFFICES ASSUME NEW t, H!InCode(t) PROVE V!InCode(t)
    OBVIOUS
  <1>1. H!UsedNode(t) => V!UsedNode(t)
    BY LocalsOfViews DEF H!UsedNode, V!UsedNode, H!Counted, V!Counted, H!ProcessExist,
           V!ProcessExist
  <1>2. H!UsedSum(t) => V!UsedSum(t)
    BY LocalsOfViews DEF H!UsedSum, V!UsedSum
  <1>3. H!FindRnode(t) => V!FindRnode(t)
    BY LocalsOfViews DEF H!FindRnode, V!FindRnode, H!ProbeEnds, V!ProbeEnds,
           H!ProbeHits, V!ProbeHits, H!Hash, V!Hash, H!SameKey, V!SameKey
  <1>4. H!InsertProbe(t) => V!InsertProbe(t)
    BY LocalsOfViews DEF H!InsertProbe, V!InsertProbe, H!Usable, V!Usable, H!Hash,
           V!Hash, H!Available, V!Available, H!SameKey, V!SameKey
  <1>5. H!InsertAssign(t) => V!InsertAssign(t)
    BY LocalsOfViews DEF H!InsertAssign, V!InsertAssign, H!Hash, V!Hash
  <1>6. H!ReadEntry(t) => V!ReadEntry(t)
    BY LocalsOfViews DEF H!ReadEntry, V!ReadEntry
  <1>7. H!FindGmem(t) => V!FindGmem(t)
    BY LocalsOfViews DEF H!FindGmem, V!FindGmem, H!Cell, V!Cell, H!Empty, V!Empty,
           H!Holds, V!Holds, H!Deref, V!Deref
  <1>8. H!ResetRecord(t) => V!ResetRecord(t)
    BY LocalsOfViews DEF H!ResetRecord, V!ResetRecord
  <1>9. H!PushProbe(t) => V!PushProbe(t)
    BY LocalsOfViews DEF H!PushProbe, V!PushProbe, H!Empty, V!Empty
  <1>10. H!PushClaim(t) => V!PushClaim(t)
    BY LocalsOfViews DEF H!PushClaim, V!PushClaim
  <1>11. H!LinkEntry(t) => V!LinkEntry(t)
    BY LocalsOfViews DEF H!LinkEntry, V!LinkEntry
  <1>12. H!SetEntry(t) => V!SetEntry(t)
    BY LocalsOfViews DEF H!SetEntry, V!SetEntry
  <1>13. H!LastRec(t) => V!LastRec(t)
    BY LocalsOfViews DEF H!LastRec, V!LastRec, H!Cell, V!Cell, H!IsTail, V!IsTail
  <1>14. H!LinkTail(t) => V!LinkTail(t)
    BY LocalsOfViews DEF H!LinkTail, V!LinkTail
  <1>15. H!RemoveVisit(t) => V!RemoveVisit(t)
    BY LocalsOfViews DEF H!RemoveVisit, V!RemoveVisit, H!Cell, V!Cell, H!Empty, V!Empty,
           H!Holds, V!Holds, H!Deref, V!Deref
  <1>16. H!RemoveBypass(t) => V!RemoveBypass(t)
    BY LocalsOfViews DEF H!RemoveBypass, V!RemoveBypass
  <1>17. H!RemoveDelete(t) => V!RemoveDelete(t)
    BY LocalsOfViews DEF H!RemoveDelete, V!RemoveDelete
  <1>18. H!CheckLimit(t) => V!CheckLimit(t)
    BY LocalsOfViews DEF H!CheckLimit, V!CheckLimit, H!Exceeds, V!Exceeds
  <1>19. H!DriverAllocFails(t) => V!DriverAllocFails(t)
    BY LocalsOfViews DEF H!DriverAllocFails, V!DriverAllocFails
  <1>20. H!DriverFree(t) => V!DriverFree(t)
    BY LocalsOfViews DEF H!DriverFree, V!DriverFree
  <1>21. H!DriverFreeFails(t) => V!DriverFreeFails(t)
    BY LocalsOfViews DEF H!DriverFreeFails, V!DriverFreeFails
  <1>22. \A d : H!DriverAlloc(t, d) => V!DriverAlloc(t, d)
    BY LocalsOfViews DEF H!DriverAlloc, V!DriverAlloc
  <1>23. \A p : H!Die(p) => V!Die(p)
    BY LocalsOfViews DEF H!Die, V!Die
  <1>24. H!Segfault(t) => V!Segfault(t)
    BY <1>23, LocalsOfViews DEF H!Segfault, V!Segfault, H!Faults, V!Faults, H!Cell,
           V!Cell
  <1> QED BY <1>1, <1>2, <1>3, <1>4, <1>5, <1>6, <1>7, <1>8, <1>9, <1>10, <1>11, <1>12,
             <1>13, <1>14, <1>15, <1>16, <1>17, <1>18, <1>19, <1>20, <1>21, <1>22,
             <1>23, <1>24
          DEF H!InCode, V!InCode

LEMMA StepOfViews == [H!KeepNext]_(H!vars) => [V!KeepNext]_(V!vars)
  <1>1. UNCHANGED H!vars => UNCHANGED V!vars
    BY LocalsOfViews DEF H!vars, V!vars
  <1>2. \A p : H!Die(p) => V!Die(p)
    BY LocalsOfViews DEF H!Die, V!Die
  <1>3. \A t, h : H!Fresh(H!Me(t), h) => V!Fresh(V!Me(t), h)
    BY LocalsOfViews DEF H!Fresh, V!Fresh, H!Live, V!Live
  <1>4. \A t, k, h, b : H!StartAlloc(t, k, h, b) => V!StartAlloc(t, k, h, b)
    BY LocalsOfViews DEF H!StartAlloc, V!StartAlloc
  <1>5. H!KeepNext => V!KeepNext
    BY <1>2, <1>3, <1>4, CodeOfViews DEF H!KeepNext, V!KeepNext, H!Keep, V!Keep
  <1> QED BY <1>1, <1>5

LEMMA InitOfViews == H!Init => V!Init
  BY DEF H!Init, V!Init, H!Nodes, V!Nodes, H!InitRNode, V!InitRNode, H!Slots, V!Slots,
         H!InitGMem, V!InitGMem, H!NoCalls, V!NoCalls, H!NoKey, V!NoKey, H!NoArg,
         V!NoArg

LEMMA ViewIsKept == H!KeepSpec => V!KeepSpec
  BY StepOfViews, InitOfViews, PTL DEF H!KeepSpec, V!KeepSpec

LEMMA ViewIsSpec == H!KeepSpec => V!Spec
  <1>1. V!KeepNext => V!Next
    BY V!KeepIsNext, ThreadAssumption, TableAssumption, DataAssumption, CallAssumption
    DEF Bytes, V!Bytes
  <1>2. [V!KeepNext]_(V!vars) => [V!Next]_(V!vars)
    BY <1>1
  <1> QED BY <1>2, ViewIsKept, PTL DEF V!KeepSpec, V!Spec

LEMMA AttachedAlways ==
  ASSUME OnlyPitch
  PROVE  PatientSpec => []AttachInv /\ H!KeepSpec
  <1>1. AttachInit => AttachInv
    BY AttachStart
  <1>2. AttachInv /\ [PatientNext]_allvars => AttachInv'
    BY AttachStep
  <1>3. PatientSpec => H!KeepSpec
    BY AttachedAsInitialised DEF ImplementsHijack
  <1> QED BY <1>1, <1>2, <1>3, PTL DEF PatientSpec

LEMMA FullInView == AttachInv /\ V!NullOnlyWhenFull => NullOnlyWhenFull
  <1> SUFFICES ASSUME AttachInv, V!NullOnlyWhenFull, NEW t \in Threads,
                      pc[t] = "entry", node[t] = -1, NEW n \in Nodes
               PROVE  Existing(n)
    BY DEF NullOnlyWhenFull
  <1>1. Wiped
    BY DEF AttachInv, Clean, AtRest
  <1>2. n \in V!Nodes
    BY DEF Nodes, V!Nodes
  <1>3. ShownNodes[n].stat = "EXIST"
    BY <1>2 DEF V!NullOnlyWhenFull, V!Existing, ShownNodes
  <1> QED BY <1>1, <1>3, Shown DEF Seen, Existing

LEMMA NodesInView ==
  ASSUME AttachInv, AttachInv', Wiped => Wiped', [V!KeepsNodes]_(V!vars)
  PROVE  KeepsNodes
  <1> SUFFICES ASSUME NEW n \in Nodes, Settled(n)
               PROVE  Settled(n)' /\ rnode'[n].key = rnode[n].key
    BY DEF KeepsNodes
  <1>1. Wiped /\ Wiped'
    BY DEF AttachInv, Clean, Settled, Existing, ZeroRNode, InitRNode
  <1>2. ShownNodes[n] = rnode[n] /\ ShownNodes'[n].stat = rnode'[n].stat
        /\ (rnode'[n].stat = "EXIST" => ShownNodes'[n] = rnode'[n])
    BY <1>1, Shown, ShownAfter DEF Seen, Settled, Existing
  <1>3. \A t, i : V!Hash(V!Me(t), i) = Hash(Me(t), i)
    BY DEF V!Hash, Hash, V!Me, Me
  <1>4. CASE UNCHANGED V!vars
    <2>1. UNCHANGED <<ShownNodes, pc, cnt>>
      BY <1>4 DEF V!vars, V!shm, V!regs, ShownNodes
    <2> QED BY <1>2, <2>1 DEF Settled, Existing
  <1>5. CASE V!KeepsNodes
    <2>1. n \in V!Nodes
      BY DEF Nodes, V!Nodes
    <2>2. V!Settled(n)
      BY <1>2, <1>3 DEF V!Settled, V!Existing, Settled, Existing, ShownNodes
    <2>3. V!Settled(n)' /\ ShownNodes'[n].key = ShownNodes[n].key
      BY <1>5, <2>1, <2>2 DEF V!KeepsNodes, ShownNodes
    <2>4. ShownNodes'[n].stat = "EXIST"
          /\ \A t \in Threads : pc'[t] = "assign" => Hash(Me(t), cnt'[t]) # n
      BY <1>3, <2>3 DEF V!Settled, V!Existing, ShownNodes
    <2> QED BY <1>2, <2>3, <2>4 DEF Settled, Existing
  <1> QED BY <1>4, <1>5

LEMMA RecordsInView ==
  ASSUME AttachInv, AttachInv', Wiped => Wiped', [V!KeepsRecords]_(V!vars)
  PROVE  KeepsRecords
  <1> SUFFICES ASSUME NEW g \in Slots, SettledRecord(g), ~Reregistered(g)
               PROVE  SettledRecord(g)' /\ gmem'[g].ptr = gmem[g].ptr
    BY DEF KeepsRecords
  <1>1. Wiped /\ Wiped'
    BY DEF AttachInv, Clean, SettledRecord, Empty, ZeroGMem, InitGMem
  <1>2. ShownRecords[g] = gmem[g] /\ (Empty(ShownRecords'[g]) <=> Empty(gmem'[g]))
        /\ (~Empty(gmem'[g]) => ShownRecords'[g] = gmem'[g])
    BY <1>1, Shown, ShownAfter DEF Seen, SettledRecord, Empty
  <1>3. CASE UNCHANGED V!vars
    <2>1. UNCHANGED <<ShownRecords, pc, cnt>>
      BY <1>3 DEF V!vars, V!shm, V!regs, ShownRecords
    <2> QED BY <1>2, <2>1 DEF SettledRecord, Empty
  <1>4. CASE V!KeepsRecords
    <2>1. g \in V!Slots
      BY DEF Slots, V!Slots
    <2>2. V!SettledRecord(g) /\ ~V!Reregistered(g)
      BY <1>2 DEF V!SettledRecord, V!Reregistered, V!Empty, SettledRecord, Reregistered,
                  Empty, ShownRecords
    <2>3. V!SettledRecord(g)' /\ ShownRecords'[g].ptr = ShownRecords[g].ptr
      BY <1>4, <2>1, <2>2 DEF V!KeepsRecords, ShownRecords
    <2>4. ~Empty(ShownRecords'[g]) /\ \A t \in Threads : pc'[t] = "claim" => cnt'[t] # g
      BY <2>3 DEF V!SettledRecord, V!Empty, Empty, ShownRecords
    <2> QED BY <1>2, <2>3, <2>4 DEF SettledRecord, Empty
  <1> QED BY <1>3, <1>4

(* Processes that call cuMemAllocPitch only and start no call before both  *)
(* segments exist and every living creator has initialised its own; the    *)
(* code does not make them wait, and attach_early shows what happens when  *)
(* they do not.  Among those, insert_rnode turns nobody away from a table  *)
(* with a free slot, also when the creator ended before it had initialised *)
(* every slot: a slot of zeros is as free as an initialised one.           *)
THEOREM AttachedNullMeansFull ==
  ASSUME OnlyPitch
  PROVE  PatientSpec => []NullOnlyWhenFull
  <1>1. V!Spec => []V!NullOnlyWhenFull
    BY V!NullMeansFull, ThreadAssumption, TableAssumption, DataAssumption, CallAssumption,
       PTL DEF Bytes, V!Bytes
  <1>2. AttachInv /\ V!NullOnlyWhenFull => NullOnlyWhenFull
    BY FullInView
  <1> QED BY <1>1, <1>2, AttachedAlways, ViewIsSpec, PTL

(* Under the same two restrictions on the processes, a process that        *)
(* attaches later, is refused a segment or has found it at its second      *)
(* shmget takes no settled node away: whoever finds a segment wipes none.  *)
THEOREM AttachedNodesAreKept ==
  ASSUME OnlyPitch, OneThread
  PROVE  PatientSpec => SettledNodesStay
  <1>1. V!Spec => V!SettledNodesStay
    <2>1. V!OneThread
      BY DEF OneThread, V!OneThread, Me, V!Me
    <2> QED BY <2>1, V!NodesAreKept, ThreadAssumption, TableAssumption, DataAssumption,
               CallAssumption, PTL DEF Bytes, V!Bytes
  <1>2. /\ AttachInv /\ AttachInv' /\ [PatientNext]_allvars
        /\ [V!KeepsNodes]_(V!vars)
        => [KeepsNodes]_vars
    BY NodesInView, AttachStep
  <1> QED BY <1>1, <1>2, AttachedAlways, ViewIsSpec, PTL
          DEF PatientSpec, V!SettledNodesStay, SettledNodesStay

(* Under the same two restrictions: nor a settled record.  Without the     *)
(* first, a creator still at work wipes nodes and records away.            *)
THEOREM AttachedRecordsAreKept ==
  ASSUME OnlyPitch
  PROVE  PatientSpec => SettledRecordsStay
  <1>1. V!KeepSpec => V!SettledRecordsStay
    BY V!RecordsAreKept, ThreadAssumption, TableAssumption, DataAssumption, CallAssumption,
       PTL DEF Bytes, V!Bytes
  <1>2. /\ AttachInv /\ AttachInv' /\ [PatientNext]_allvars
        /\ [V!KeepsRecords]_(V!vars)
        => [KeepsRecords]_vars
    BY RecordsInView, AttachStep
  <1> QED BY <1>1, <1>2, AttachedAlways, ViewIsKept, PTL
          DEF PatientSpec, V!SettledRecordsStay, SettledRecordsStay
=============================================================================
