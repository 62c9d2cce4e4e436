--------------------------- MODULE IdentityProofs ---------------------------
(***************************************************************************)
(* Proofs about Identity for any pids, users and names: what the key of a  *)
(* process and that of a node say about who they belong to.                *)
(***************************************************************************)
EXTENDS Identity, TLAPS

Keys == Int \X Int
Reads == {"stime", "other", "nothing"}
Processes ==
  [state : {"free", "run", "zombie"}, start : Nat, user : Users, extra : 0..2,
   threads : 1..2, key : Keys, read : Reads, origin : Keys, cut : BOOLEAN]
NodeSet == [key : Keys, pid : Pids, start : Nat, read : Reads]

TypeInv ==
  /\ clock \in Nat /\ Boot <= clock
  /\ last \in [Pids -> Nat]
  /\ proc \in [Pids -> Processes]
  /\ nodes \subseteq NodeSet

(* The key of a process has the pid of the one who called cuInit last and  *)
(* nothing later than its start time, which is no later than the process's *)
(* own; and its start time if that was what it read.                       *)
ProcInv(p) ==
  /\ proc[p].state # "free" =>
       /\ Boot <= proc[p].start /\ proc[p].start = last[p] /\ proc[p].start <= clock
       /\ proc[p].key[2] <= proc[p].start
       /\ proc[p].origin # NoKey => proc[p].origin[2] <= proc[p].start
  /\ proc[p].origin # NoKey =>
       /\ proc[p].key[1] = proc[p].origin[1]
       /\ proc[p].key[2] <= proc[p].origin[2]
       /\ proc[p].read = "stime" => proc[p].key[2] = proc[p].origin[2]
  /\ proc[p].origin = NoKey => proc[p].key = NoKey

NodeInv(n) ==
  /\ n.key[1] = n.pid
  /\ n.key[2] <= n.start /\ n.start <= last[n.pid] /\ Boot <= n.start
  /\ n.read = "stime" => n.key[2] = n.start

(* The inductive invariant.                                                *)
IdInv ==
  /\ TypeInv
  /\ \A p \in Pids : ProcInv(p)
  /\ \A n \in nodes : NodeInv(n)

LEMMA FreshType ==
  ASSUME NEW s \in {"free", "run", "zombie"}, NEW t \in Nat, NEW u \in Users, NEW x \in 0..2
  PROVE  /\ Fresh(s, t, u, x) \in Processes
         /\ Fresh(s, t, u, x).state = s /\ Fresh(s, t, u, x).start = t
         /\ Fresh(s, t, u, x).key = NoKey /\ Fresh(s, t, u, x).origin = NoKey
         /\ Fresh(s, t, u, x).read = "nothing"
  <1>1. NoKey \in Keys
    BY DEF NoKey, Keys
  <1> QED BY <1>1 DEF Fresh, Processes, Reads

(* The word that a process reads is its start time or smaller than any.    *)
LEMMA Word22Is ==
  ASSUME TypeInv, NEW p \in Pids
  PROVE  /\ Word22(p) \in Nat
         /\ Word22(p) = proc[p].start \/ Word22(p) \in 0..2
         /\ proc[p].extra = 0 => Word22(p) = proc[p].start
  <1>1. proc[p].extra \in 0..2 /\ proc[p].start \in Nat /\ proc[p].threads \in 1..2
    BY DEF TypeInv, Processes
  <1>2. CASE proc[p].extra = 0
    BY <1>1, <1>2 DEF Word22
  <1>3. CASE proc[p].extra = 1
    BY <1>1, <1>3 DEF Word22
  <1>4. CASE proc[p].extra = 2
    BY <1>1, <1>4 DEF Word22
  <1> QED BY <1>1, <1>2, <1>3, <1>4

(* A step that gives pid p the process v and leaves the nodes alone.       *)
Becomes(p, v) == proc' = [proc EXCEPT ![p] = v] /\ nodes' = nodes /\ clock' = clock

LEMMA Changed ==
  ASSUME IdInv, NEW p \in Pids, NEW v \in Processes, Becomes(p, v),
         last' \in [Pids -> Nat],
         \A q \in Pids : last[q] <= last'[q] /\ (q # p => last'[q] = last[q]),
         ProcInv(p)'
  PROVE  IdInv'
  <1>1. proc'[p] = v /\ \A q \in Pids : q # p => proc'[q] = proc[q]
    BY DEF Becomes, IdInv, TypeInv
  <1>2. TypeInv'
    BY DEF Becomes, IdInv, TypeInv
  <1>3. ASSUME NEW q \in Pids PROVE ProcInv(q)'
    <2>1. CASE q # p
      <3>1. proc'[q] = proc[q] /\ last'[q] = last[q] /\ clock' = clock /\ ProcInv(q)
        BY <1>1, <2>1 DEF Becomes, IdInv
      <3> QED BY <3>1 DEF ProcInv
    <2> QED BY <2>1
  <1>4. ASSUME NEW n \in nodes' PROVE NodeInv(n)'
    <2>1. n \in NodeSet /\ NodeInv(n)
      BY DEF Becomes, IdInv, TypeInv
    <2>2. /\ n.pid \in Pids /\ n.start \in Nat /\ last[n.pid] \in Nat /\ last'[n.pid] \in Nat
          /\ last[n.pid] <= last'[n.pid]
      BY <2>1 DEF NodeSet, IdInv, TypeInv
    <2> QED BY <2>1, <2>2 DEF NodeInv
  <1> QED BY <1>2, <1>3, <1>4 DEF IdInv

(* The same for a step that gives no pid away.                             *)
LEMMA Stays ==
  ASSUME IdInv, NEW p \in Pids, NEW v \in Processes, Becomes(p, v), last' = last, ProcInv(p)'
  PROVE  IdInv'
  <1>1. last' \in [Pids -> Nat] /\ \A q \in Pids : last[q] <= last'[q]
    BY DEF IdInv, TypeInv
  <1> QED BY <1>1, Changed

LEMMA IdInit == Init => IdInv
  <1> SUFFICES ASSUME Init PROVE IdInv
    OBVIOUS
  <1>1. /\ NoProcess \in Processes /\ NoProcess.state = "free"
        /\ NoProcess.key = NoKey /\ NoProcess.origin = NoKey
    BY FreshType, IdentityAssumption DEF NoProcess
  <1>2. TypeInv
    BY <1>1 DEF Init, TypeInv, Boot
  <1>3. ASSUME NEW p \in Pids PROVE ProcInv(p)
    BY <1>1 DEF Init, ProcInv
  <1> QED BY <1>2, <1>3 DEF Init, IdInv

(* A process without a key, and with a start time of its own.              *)
LEMMA FreshStep ==
  ASSUME IdInv, NEW p \in Pids, NEW s \in {"free", "run", "zombie"}, NEW t \in Nat,
         NEW u \in Users, NEW x \in 0..2, Becomes(p, Fresh(s, t, u, x)),
         last' \in [Pids -> Nat],
         \A q \in Pids : last[q] <= last'[q] /\ (q # p => last'[q] = last[q]),
         s # "free" => Boot <= t /\ t = last'[p] /\ t <= clock
  PROVE  IdInv'
  <1> DEFINE v == Fresh(s, t, u, x)
  <1>1. v \in Processes /\ v.state = s /\ v.start = t /\ v.key = NoKey /\ v.origin = NoKey
    BY FreshType
  <1> HIDE DEF v
  <1>2. Becomes(p, v)
    BY DEF v
  <1>3. proc'[p] = v /\ clock' = clock
    BY <1>2 DEF Becomes, IdInv, TypeInv
  <1>4. NoKey[2] <= t
    BY DEF NoKey
  <1>5. ProcInv(p)'
    BY <1>1, <1>3, <1>4 DEF ProcInv
  <1> QED BY <1>1, <1>2, <1>5, Changed

LEMMA SpawnStep ==
  ASSUME IdInv, NEW p \in Pids, NEW u \in Owners, NEW x \in Extras[p], Spawn(p, u, x)
  PROVE  IdInv'
  <1>1. u \in Users /\ x \in 0..2
    BY IdentityAssumption
  <1>2. /\ clock \in Nat /\ Boot <= clock /\ last \in [Pids -> Nat] /\ last[p] < clock
        /\ last' = [last EXCEPT ![p] = clock]
    BY DEF Spawn, NewPid, IdInv, TypeInv
  <1>3. /\ last' \in [Pids -> Nat] /\ last'[p] = clock
        /\ \A q \in Pids : last[q] <= last'[q] /\ (q # p => last'[q] = last[q])
    BY <1>2
  <1>4. Becomes(p, Fresh("run", clock, u, x))
    BY DEF Spawn, Becomes
  <1> QED BY <1>1, <1>2, <1>3, <1>4, FreshStep

(* execve, exit and the parent's wait: no key, the same start time.        *)
LEMMA EmptyStep ==
  ASSUME IdInv, NEW p \in Pids, Exec(p) \/ Exit(p) \/ Reap(p)
  PROVE  IdInv'
  <1>1. /\ last \in [Pids -> Nat] /\ last' = last /\ Root \in Users
        /\ proc[p].start \in Nat /\ proc[p].user \in Users /\ proc[p].extra \in 0..2
    BY IdentityAssumption DEF Exec, Exit, Reap, IdInv, TypeInv, Processes
  <1>2. \A q \in Pids : last[q] <= last'[q] /\ last'[q] = last[q]
    BY <1>1
  <1>3. Runs(p) => Boot <= proc[p].start /\ proc[p].start = last'[p] /\ proc[p].start <= clock
    BY <1>1 DEF IdInv, ProcInv, Runs
  <1>4. CASE Exec(p)
    <2>1. Becomes(p, Fresh("run", proc[p].start, proc[p].user, proc[p].extra)) /\ Runs(p)
      BY <1>4 DEF Exec, Becomes
    <2> QED BY <1>1, <1>2, <1>3, <2>1, FreshStep
  <1>5. CASE Exit(p)
    <2>1. Becomes(p, Fresh("zombie", proc[p].start, proc[p].user, proc[p].extra)) /\ Runs(p)
      BY <1>5 DEF Exit, Becomes
    <2> QED BY <1>1, <1>2, <1>3, <2>1, FreshStep
  <1>6. CASE Reap(p)
    <2>1. Becomes(p, Fresh("free", 0, Root, 0))
      BY <1>6 DEF Reap, Becomes, NoProcess
    <2> QED BY <1>1, <1>2, <2>1, FreshStep
  <1> QED BY <1>4, <1>5, <1>6

(* Another name, another thread: the key stays.                            *)
LEMMA LookStep ==
  ASSUME IdInv, NEW p \in Pids, NEW v \in Processes, Becomes(p, v), last' = last,
         v.state = proc[p].state, v.start = proc[p].start, v.key = proc[p].key,
         v.read = proc[p].read, v.origin = proc[p].origin
  PROVE  IdInv'
  <1>1. proc'[p] = v /\ clock' = clock
    BY DEF Becomes, IdInv, TypeInv
  <1>2. ProcInv(p)'
    BY <1>1 DEF IdInv, ProcInv
  <1> QED BY <1>2, Stays

LEMMA RenameStep ==
  ASSUME IdInv, NEW p \in Pids, NEW x \in Extras[p], Rename(p, x)
  PROVE  IdInv'
  <1> DEFINE v == [proc[p] EXCEPT !.extra = x]
  <1>1. x \in 0..2 /\ proc[p] \in Processes
    BY IdentityAssumption DEF IdInv, TypeInv
  <1>2. /\ v \in Processes
        /\ v.state = proc[p].state /\ v.start = proc[p].start /\ v.key = proc[p].key
        /\ v.read = proc[p].read /\ v.origin = proc[p].origin
    BY <1>1 DEF Processes
  <1>3. Becomes(p, v) /\ last' = last
    BY DEF Rename, Becomes
  <1> HIDE DEF v
  <1> QED BY <1>2, <1>3, LookStep

LEMMA AddThreadStep ==
  ASSUME IdInv, NEW p \in Pids, AddThread(p)
  PROVE  IdInv'
  <1> DEFINE v == [proc[p] EXCEPT !.threads = 2]
  <1>1. proc[p] \in Processes
    BY DEF IdInv, TypeInv
  <1>2. /\ v \in Processes
        /\ v.state = proc[p].state /\ v.start = proc[p].start /\ v.key = proc[p].key
        /\ v.read = proc[p].read /\ v.origin = proc[p].origin
    BY <1>1 DEF Processes
  <1>3. Becomes(p, v) /\ last' = last
    BY DEF AddThread, Becomes
  <1> HIDE DEF v
  <1> QED BY <1>2, <1>3, LookStep

(* The child has the key of its parent and starts no earlier.              *)
LEMMA ForkStep ==
  ASSUME IdInv, NEW p \in Pids, NEW c \in Pids, Fork(p, c)
  PROVE  IdInv'
  <1> DEFINE new == Fresh("run", clock, proc[p].user, proc[p].extra)
             b == proc[p].origin # NoKey
             v == [new EXCEPT !.key = proc[p].key, !.read = proc[p].read,
                              !.origin = proc[p].origin, !.cut = b]
  <1>1. /\ clock \in Nat /\ Boot <= clock /\ last \in [Pids -> Nat] /\ last[c] < clock
        /\ last' = [last EXCEPT ![c] = clock]
        /\ proc[p] \in Processes /\ Runs(p) /\ ProcInv(p)
    BY DEF Fork, NewPid, IdInv, TypeInv
  <1>2. /\ last' \in [Pids -> Nat] /\ last'[c] = clock
        /\ \A q \in Pids : last[q] <= last'[q] /\ (q # c => last'[q] = last[q])
    BY <1>1
  <1>3. new \in Processes /\ new.state = "run" /\ new.start = clock
    BY <1>1, FreshType DEF Processes
  <1>4. Becomes(c, v)
    BY DEF Fork, Becomes
  <1>5. b \in BOOLEAN
    OBVIOUS
  <1> HIDE DEF new, b
  <1>6. /\ v \in Processes /\ v.state = "run" /\ v.start = clock
        /\ v.key = proc[p].key /\ v.read = proc[p].read /\ v.origin = proc[p].origin
    BY <1>1, <1>3, <1>5 DEF Processes
  <1> HIDE DEF v
  <1>7. proc'[c] = v /\ clock' = clock
    BY <1>4 DEF Becomes, IdInv, TypeInv
  <1>8. /\ proc[p].start <= clock /\ proc[p].start \in Nat
        /\ v.key[2] <= proc[p].start /\ v.key[2] \in Int /\ v.origin[2] \in Int
        /\ v.origin # NoKey =>
             /\ v.origin[2] <= proc[p].start /\ v.key[1] = v.origin[1]
             /\ v.key[2] <= v.origin[2]
             /\ v.read = "stime" => v.key[2] = v.origin[2]
        /\ v.origin = NoKey => v.key = NoKey
    BY <1>1, <1>6 DEF ProcInv, Runs, Processes, Keys
  <1>9. ProcInv(c)'
    BY <1>1, <1>2, <1>6, <1>7, <1>8 DEF ProcInv
  <1> QED BY <1>2, <1>4, <1>6, <1>9, Changed

(* cuInit: a key with the own pid and nothing later than the start time.   *)
LEMMA CuInitAsStep ==
  ASSUME IdInv, NEW p \in Pids, NEW w \in Int, NEW r \in Reads, CuInitAs(p, <<p, w>>, r),
         w <= proc[p].start, r = "stime" => w = proc[p].start
  PROVE  IdInv'
  <1> DEFINE o == <<p, proc[p].start>>
             v == [proc[p] EXCEPT !.key = <<p, w>>, !.read = r, !.origin = o]
  <1>1. /\ proc[p] \in Processes /\ p \in Nat /\ p > 0
        /\ proc[p].start \in Nat /\ Runs(p)
    BY IdentityAssumption DEF IdInv, TypeInv, CuInitAs, Processes
  <1>2. o \in Keys /\ <<p, w>> \in Keys /\ o # NoKey /\ o[1] = p /\ o[2] = proc[p].start
    BY <1>1 DEF Keys, NoKey
  <1>3. Becomes(p, v) /\ last' = last
    BY DEF CuInitAs, Becomes
  <1> HIDE DEF o
  <1>4. /\ v \in Processes /\ v.state = "run" /\ v.start = proc[p].start
        /\ v.key = <<p, w>> /\ v.read = r /\ v.origin = o
    BY <1>1, <1>2 DEF Processes, Runs
  <1> HIDE DEF v
  <1>5. proc'[p] = v /\ clock' = clock
    BY <1>3 DEF Becomes, IdInv, TypeInv
  <1>6. /\ Boot <= proc[p].start /\ proc[p].start = last[p] /\ proc[p].start <= clock
    BY <1>1 DEF IdInv, ProcInv, Runs
  <1>7. ProcInv(p)'
    BY <1>1, <1>2, <1>3, <1>4, <1>5, <1>6 DEF ProcInv
  <1> QED BY <1>3, <1>4, <1>7, Stays

LEMMA CuInitStep ==
  ASSUME IdInv, NEW p \in Pids, NEW opened \in BOOLEAN, CuInit(p, opened)
  PROVE  IdInv'
  <1>1. Runs(p)
    BY DEF CuInit, CuInitAs
  <1>2. /\ proc[p].start \in Nat /\ Boot <= proc[p].start /\ proc[p].key[2] \in Int
        /\ proc[p].key[2] <= proc[p].start
    BY <1>1 DEF IdInv, TypeInv, ProcInv, Processes, Keys, Runs
  <1>3. CASE opened /\ CuInitAs(p, <<p, Word22(p)>>, What(p))
    <2>1. Word22(p) \in Int /\ Word22(p) <= proc[p].start
      BY <1>2, Word22Is DEF IdInv, Boot
    <2>2. What(p) \in Reads /\ (What(p) = "stime" => Word22(p) = proc[p].start)
      BY Word22Is DEF What, Reads, IdInv
    <2> QED BY <1>3, <2>1, <2>2, CuInitAsStep
  <1>4. CASE ~opened /\ CuInitAs(p, <<p, proc[p].key[2]>>, "nothing")
    <2>1. "nothing" \in Reads
      BY DEF Reads
    <2> QED BY <1>2, <1>4, <2>1, CuInitAsStep
  <1> QED BY <1>3, <1>4 DEF CuInit

(* A node gets the key of its process.                                     *)
LEMMA AddNodeStep ==
  ASSUME IdInv, NEW p \in Pids, AddNode(p)
  PROVE  IdInv'
  <1> DEFINE m == [key  |-> proc[p].key, pid |-> p, start |-> proc[p].start,
                   read |-> proc[p].read]
  <1>1. Runs(p) /\ Called(p) /\ UNCHANGED <<clock, last, proc>> /\ nodes' = nodes \cup {m}
    BY DEF AddNode
  <1>2. /\ proc[p] \in Processes /\ ProcInv(p) /\ proc[p].origin[1] = p
        /\ proc[p].origin[2] = proc[p].start /\ p \in Nat /\ p > 0
    BY <1>1, IdentityAssumption DEF IdInv, TypeInv, Called
  <1>3. proc[p].origin # NoKey
    BY <1>2 DEF NoKey
  <1>4. /\ m \in NodeSet /\ m.pid = p /\ m.key = proc[p].key /\ m.start = proc[p].start
        /\ m.read = proc[p].read /\ m.start <= last[p]
    BY <1>1, <1>2 DEF Processes, NodeSet, ProcInv, Runs
  <1> HIDE DEF m
  <1>5. NodeInv(m)
    BY <1>1, <1>2, <1>3, <1>4 DEF NodeInv, ProcInv, Runs
  <1>6. TypeInv'
    BY <1>1, <1>4 DEF IdInv, TypeInv
  <1>7. ASSUME NEW q \in Pids PROVE ProcInv(q)'
    BY <1>1 DEF IdInv, ProcInv
  <1>8. ASSUME NEW n \in nodes' PROVE NodeInv(n)'
    BY <1>1, <1>5 DEF IdInv, NodeInv
  <1> QED BY <1>6, <1>7, <1>8 DEF IdInv

LEMMA TickStep == ASSUME IdInv, Tick PROVE IdInv'
  <1>1. /\ clock \in Nat /\ clock' = clock + 1 /\ UNCHANGED <<last, proc, nodes>>
    BY DEF Tick, IdInv, TypeInv
  <1>2. TypeInv'
    BY <1>1 DEF IdInv, TypeInv, Boot
  <1>3. ASSUME NEW p \in Pids PROVE ProcInv(p)'
    <2>1. proc[p].start \in Nat
      BY DEF IdInv, TypeInv, Processes
    <2>2. proc[p].start <= clock => proc[p].start <= clock'
      BY <1>1, <2>1
    <2> QED BY <1>1, <2>2 DEF IdInv, ProcInv
  <1>4. \A n \in nodes' : NodeInv(n)'
    BY <1>1 DEF IdInv, NodeInv
  <1> QED BY <1>2, <1>3, <1>4 DEF IdInv

LEMMA StutterStep == ASSUME IdInv, UNCHANGED vars PROVE IdInv'
  BY DEF vars, IdInv, TypeInv, ProcInv, NodeInv

LEMMA IdStep == ASSUME IdInv, [Next]_vars PROVE IdInv'
  <1>1. ASSUME NEW p \in Pids,
               AddThread(p) \/ Exec(p) \/ Exit(p) \/ Reap(p) \/ AddNode(p)
        PROVE  IdInv'
    BY <1>1, AddThreadStep, EmptyStep, AddNodeStep
  <1>2. ASSUME NEW p \in Pids, NEW u \in Owners, NEW x \in Extras[p], Spawn(p, u, x)
        PROVE  IdInv'
    BY <1>2, SpawnStep
  <1>3. ASSUME NEW p \in Pids, NEW x \in Extras[p], Rename(p, x) PROVE IdInv'
    BY <1>3, RenameStep
  <1>4. ASSUME NEW p \in Pids, NEW c \in Pids, Fork(p, c) PROVE IdInv'
    BY <1>4, ForkStep
  <1>5. ASSUME NEW p \in Pids, NEW opened \in BOOLEAN, CuInit(p, opened) PROVE IdInv'
    BY <1>5, CuInitStep
  <1> QED BY <1>1, <1>2, <1>3, <1>4, <1>5, TickStep, StutterStep DEF Next

(***************************************************************************)
(* What the invariant says                                                 *)
(***************************************************************************)
LEMMA CountedIsOwn == ASSUME IdInv PROVE CountsExisting
  <1> SUFFICES ASSUME NEW u \in Users, NEW n \in nodes, NEW opened \in BOOLEAN,
                      ProcessExist(u, n.key, opened), proc[n.pid].extra = 0
               PROVE  proc[n.pid].start = n.start
    <2>1. \A n \in nodes : n.pid \in Pids
      BY DEF IdInv, TypeInv, NodeSet
    <2>2. \A p \in Pids : proc[p].extra \in 0..2
      BY DEF IdInv, TypeInv, Processes
    <2>3. \A n \in nodes : proc[n.pid].extra > 0 \/ proc[n.pid].extra = 0
      BY <2>1, <2>2
    <2> QED BY <2>3 DEF CountsExisting
  <1> DEFINE p == n.pid
  <1>1. /\ p \in Pids /\ n.key[1] = p /\ n.start \in Nat /\ n.key[2] \in Int /\ last[p] \in Nat
        /\ n.key[2] <= n.start /\ n.start <= last[p]
    BY DEF IdInv, TypeInv, NodeSet, NodeInv, Keys
  <1>2. proc[p].state # "free" /\ Word22(p) = n.key[2]
    BY <1>1 DEF ProcessExist
  <1>3. proc[p].start = n.key[2]
    BY <1>1, <1>2, Word22Is DEF IdInv
  <1>4. proc[p].start = last[p]
    BY <1>1, <1>2 DEF IdInv, ProcInv
  <1> QED BY <1>1, <1>3, <1>4

LEMMA OwnIsCounted == ASSUME IdInv PROVE NodeSeen
  <1> SUFFICES ASSUME NEW u \in Users, NEW n \in nodes, n.read = "stime",
                      MaySignal(u, n.pid), Runs(n.pid), proc[n.pid].start = n.start,
                      proc[n.pid].extra = 0
               PROVE  ProcessExist(u, n.key, TRUE)
    BY DEF NodeSeen
  <1>1. n.pid \in Pids /\ n.key[1] = n.pid /\ n.key[2] = n.start
    BY DEF IdInv, TypeInv, NodeSet, NodeInv
  <1>2. Word22(n.pid) = n.key[2]
    BY <1>1, Word22Is DEF IdInv
  <1> QED BY <1>1, <1>2 DEF ProcessExist, Runs

LEMMA FoundIsOwn == ASSUME IdInv PROVE KeysApart
  <1> SUFFICES ASSUME NEW p \in Pids, NEW n \in nodes, Runs(p), proc[p].key = n.key,
                      proc[p].read = "stime", Called(p) \/ n.read = "stime"
               PROVE  proc[p].origin = <<n.pid, n.start>>
    <2>1. \A n \in nodes : n.read \in Reads
      BY DEF IdInv, TypeInv, NodeSet
    <2> QED BY <2>1 DEF KeysApart
  <1>1. /\ n.pid \in Pids /\ n.pid > 0 /\ n.key[1] = n.pid /\ n.start \in Nat
        /\ n.key[2] \in Int /\ n.key[2] <= n.start /\ n.start <= last[n.pid]
        /\ last[n.pid] \in Nat /\ (n.read = "stime" => n.key[2] = n.start)
    BY IdentityAssumption DEF IdInv, TypeInv, NodeSet, NodeInv, Keys
  <1>2. /\ proc[p].origin \in Keys /\ ProcInv(p) /\ proc[p].state # "free"
    BY DEF IdInv, TypeInv, Processes, Runs
  <1>3. proc[p].origin # NoKey
    BY <1>1, <1>2 DEF ProcInv, NoKey
  <1>4. proc[p].origin[1] = n.pid /\ proc[p].origin[2] = n.key[2]
    BY <1>1, <1>2, <1>3 DEF ProcInv
  <1>5. n.key[2] = n.start
    <2>1. CASE n.read = "stime"
      BY <1>1, <2>1
    <2>2. CASE Called(p)
      <3>1. p = n.pid /\ proc[p].start = n.key[2] /\ proc[p].start = last[p]
        BY <1>2, <1>4, <2>2 DEF Called, ProcInv
      <3> QED BY <1>1, <3>1
    <2> QED BY <2>1, <2>2
  <1>6. proc[p].origin = <<proc[p].origin[1], proc[p].origin[2]>>
    BY <1>2 DEF Keys
  <1> QED BY <1>4, <1>5, <1>6

(* However often pids are given away again, and whatever set_process could *)
(* read: a node that somebody counts is that of the process that has the   *)
(* pid now, unless that one has a name with blanks.                        *)
THEOREM CountedIsThere == Spec => []CountsExisting
  <1> QED BY IdInit, IdStep, CountedIsOwn, PTL DEF Spec

(* Whoever may signal a process and can open its stat counts its node.     *)
THEOREM OwnNodeIsSeen == Spec => []NodeSeen
  <1> QED BY IdInit, IdStep, OwnIsCounted, PTL DEF Spec

(* A process that has read its start time in cuInit shares no node with    *)
(* its ancestors, with other processes or with those that had its pid.     *)
THEOREM NodesAreOwn == Spec => []KeysApart
  <1> QED BY IdInit, IdStep, FoundIsOwn, PTL DEF Spec
=============================================================================
