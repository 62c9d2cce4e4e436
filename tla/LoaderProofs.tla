---------------------------- MODULE LoaderProofs ----------------------------
(***************************************************************************)
(* Proofs about Loader for any number of threads, any driver and any table.*)
(***************************************************************************)
EXTENDS Loader, TLAPS

Labels == {"idle", "set_pid", "set_stime", "read_version", "load_single", "once",
           "load", "call", "driver"}

(* Past the first store of set_process, and wherever an entry is resolved, *)
(* the pid is known.                                                       *)
Keyed == {"set_stime", "read_version", "load_single", "once", "load", "driver"}

(* The inductive invariant: the key moves from <<-1, 0>> over the pid to   *)
(* the whole key and never back, the last step being that the file could   *)
(* be opened, and entries are resolved behind the pid.                     *)
KeyInv ==
  /\ pc \in [Threads -> Labels]
  /\ key \in {<<-1, 0>>, <<Self[1], 0>>, Self}
  /\ IF read THEN key = Self ELSE key \in {<<-1, 0>>, <<Self[1], 0>>}
  /\ \A t \in Threads : pc[t] \in Keyed => key # <<-1, 0>>
  /\ loaded \in Nat
  /\ single \/ loaded # 0 => key # <<-1, 0>>

(* The pid of the process is not the one that the RNM starts with.         *)
LEMMA SelfPair == Self = <<Self[1], Self[2]>> /\ Self[1] # -1
  BY LoaderAssumption

LEMMA SetPidStep ==
  ASSUME KeyInv, NEW t \in Threads, SetPid(t)
  PROVE  KeyInv'
  <1>1. UNCHANGED <<read, loaded, single>> /\ key' = [key EXCEPT ![1] = Self[1]]
    BY DEF SetPid, rest
  <1>2. key' = IF key = Self THEN Self ELSE <<Self[1], 0>>
    <2>1. key = Self => key' = Self
      BY <1>1, SelfPair
    <2>2. key = <<Self[1], 0>> => key' = <<Self[1], 0>>
      BY <1>1
    <2>3. key = <<-1, 0>> => key' = <<Self[1], 0>> /\ key # Self
      BY <1>1, SelfPair
    <2> QED BY <2>1, <2>2, <2>3 DEF KeyInv
  <1>3. key' # <<-1, 0>>
    BY <1>2, SelfPair
  <1>4. pc' = [pc EXCEPT ![t] = "set_stime"]
    BY DEF SetPid, Goto
  <1> QED BY <1>1, <1>2, <1>3, <1>4 DEF KeyInv, Keyed, Labels

LEMMA SetStimeStep ==
  ASSUME KeyInv, NEW t \in Threads, SetStime(t)
  PROVE  KeyInv'
  <1>1. pc' = [pc EXCEPT ![t] = "read_version"] /\ loaded' = loaded /\ single' = single
    BY DEF SetStime, Goto, rest
  <1>2. pc[t] = "set_stime" /\ key \in {<<Self[1], 0>>, Self}
    BY DEF KeyInv, Keyed, SetStime
  <1>3. CASE key' = [key EXCEPT ![2] = Self[2]] /\ read' = TRUE
    <2>1. key' = Self
      BY <1>2, <1>3, SelfPair
    <2> QED BY <1>1, <1>3, <2>1, SelfPair DEF KeyInv, Keyed, Labels
  <1>4. CASE UNCHANGED <<key, read>>
    BY <1>1, <1>2, <1>4, SelfPair DEF KeyInv, Keyed, Labels
  <1> QED BY <1>3, <1>4 DEF SetStime

(* A call gets into the driver only through an entry that is resolved.     *)
LEMMA EnterDriverStep ==
  ASSUME KeyInv, NEW t \in Threads, EnterDriver(t)
  PROVE  KeyInv'
  <1>1. single \/ loaded # 0
    BY DEF KeyInv, EnterDriver, Called, FnPtr
  <1>2. key # <<-1, 0>> /\ UNCHANGED <<key, read, loaded, single>>
    BY <1>1 DEF KeyInv, EnterDriver, process
  <1>3. pc' = [pc EXCEPT ![t] = "driver"]
    BY DEF EnterDriver, Goto
  <1> QED BY <1>2, <1>3 DEF KeyInv, Keyed, Labels

(* Every other step leaves the key alone.                                  *)
LEMMA OtherStep ==
  ASSUME KeyInv, NEW t \in Threads, Runs(t), ~SetPid(t), ~SetStime(t), ~EnterDriver(t)
  PROVE  KeyInv'
  <1> USE DEF KeyInv, Keyed, Labels, Goto
  <1>1. CASE ReadVersion(t)
    BY <1>1 DEF ReadVersion
  <1>2. CASE LoadSingle(t)
    BY <1>2 DEF LoadSingle, ProcessEnds
  <1>3. CASE Once(t)
    BY <1>3 DEF Once
  <1>4. CASE LoadNext(t)
    BY <1>4 DEF LoadNext
  <1>5. CASE CallNull(t)
    BY <1>5 DEF CallNull, ProcessEnds
  <1>6. CASE DriverReturns(t)
    BY <1>6 DEF DriverReturns
  <1> QED BY <1>1, <1>2, <1>3, <1>4, <1>5, <1>6 DEF Runs

LEMMA KeyStep == KeyInv /\ [Next]_vars => KeyInv'
  <1> SUFFICES ASSUME KeyInv, [Next]_vars PROVE KeyInv'
    OBVIOUS
  <1>1. ASSUME NEW t \in Threads, Runs(t) PROVE KeyInv'
    BY <1>1, SetPidStep, SetStimeStep, EnterDriverStep, OtherStep
  <1>2. ASSUME NEW t \in Threads, NEW w, StartInit(t, w) PROVE KeyInv'
    BY <1>2 DEF StartInit, Goto, process, KeyInv, Keyed, Labels
  <1>3. ASSUME NEW t \in Threads, NEW w, StartCall(t, w) PROVE KeyInv'
    BY <1>3 DEF StartCall, Goto, process, KeyInv, Keyed, Labels
  <1>4. CASE UNCHANGED vars
    BY <1>4 DEF vars, process, KeyInv
  <1> QED BY <1>1, <1>2, <1>3, <1>4 DEF Next

(* The driver is entered under the pid of the process, and under the start *)
(* time that was read once any set_process could read it: no thread that   *)
(* calls cuInit again takes it away, whatever the driver exports.          *)
THEOREM KeyFirst == Spec => []KeyBeforeCalls
  <1>1. Init => KeyInv
    BY DEF Init, KeyInv, Keyed, Labels
  <1>2. KeyInv => KeyBeforeCalls
    BY SelfPair DEF KeyInv, Keyed, KeyBeforeCalls
  <1> QED BY <1>1, <1>2, KeyStep, PTL DEF Spec

(***************************************************************************)
(* What the entries hold                                                   *)
(***************************************************************************)
(* The enumerator of every entry that a wrapper calls through is the       *)
(* position of its name in the table.                                      *)
TablesAgree ==
  /\ Len(Table) \in Nat
  /\ \A w \in Forwarded \cup Hijacked :
       /\ Position[Target(w)] \in 1..Len(Table)
       /\ Table[Position[Target(w)]] = Target(w)

(* One thread fills the table, nobody empties it, and it is full when the  *)
(* first call of an initialising wrapper gets past pthread_once.           *)
LoadInv ==
  /\ pc \in [Threads -> Labels]
  /\ call \in [Threads -> Forwarded \cup Hijacked \cup {NULL}]
  /\ loaded \in Nat
  /\ once \in {"new", "busy", "done"}
  /\ once = "done" => ~(loaded < Len(Table))
  /\ inited => once = "done"
  /\ \A t \in Threads :
       /\ pc[t] # "idle" => call[t] \in Forwarded \cup Hijacked
       /\ pc[t] \in {"call", "driver"} /\ call[t] \in InitCalls => once = "done"
       /\ pc[t] = "load" => once = "busy" /\ \A u \in Threads : pc[u] = "load" => u = t

LEMMA InitCallsHijacked == InitCalls \subseteq Hijacked
  BY DEF InitCalls, Hijacked

(* When the table is full, the entry of a function that the driver has is  *)
(* resolved.                                                               *)
LEMMA FullTable ==
  ASSUME TablesAgree, NEW t \in Threads, call[t] \in Forwarded \cup Hijacked,
         loaded \in Nat, ~(loaded < Len(Table)), Target(call[t]) \in Exports
  PROVE  Called(t) # NULL
  <1> DEFINE i == Position[Target(call[t])]
  <1>1. i \in 1..Len(Table) /\ Table[i] = Target(call[t]) /\ Len(Table) \in Nat
    BY DEF TablesAgree
  <1>2. i \in 1..loaded
    BY <1>1
  <1>3. Called(t) = Dlsym(Table[i])
    BY <1>2 DEF Called, FnPtr
  <1> QED BY <1>1, <1>3, LoaderAssumption DEF Dlsym

LEMMA LoadOnceStep ==
  ASSUME LoadInv, NEW t \in Threads, Once(t)
  PROVE  LoadInv'
  <1> USE DEF LoadInv, Goto, Once
  <1>1. CASE once = "new"
    BY <1>1 DEF Labels
  <1>2. CASE once # "new"
    BY <1>2 DEF Labels
  <1> QED BY <1>1, <1>2

LEMMA LoadNextStep ==
  ASSUME LoadInv, NEW t \in Threads, LoadNext(t)
  PROVE  LoadInv'
  <1> USE DEF LoadInv, Goto, LoadNext
  <1>1. CASE loaded < Len(Table)
    BY <1>1 DEF Labels
  <1>2. CASE ~(loaded < Len(Table))
    BY <1>2 DEF Labels
  <1> QED BY <1>1, <1>2

LEMMA LoadStep ==
  ASSUME LoadInv, [Next]_vars
  PROVE  LoadInv'
  <1> USE DEF LoadInv, Goto, Labels
  <1>1. ASSUME NEW t \in Threads, Runs(t) PROVE LoadInv'
    <2>1. CASE SetPid(t)
      BY <2>1 DEF SetPid, rest
    <2>2. CASE SetStime(t)
      BY <2>2 DEF SetStime, rest
    <2>3. CASE ReadVersion(t)
      BY <2>3 DEF ReadVersion
    <2>4. CASE LoadSingle(t)
      BY <2>4 DEF LoadSingle, ProcessEnds
    <2>5. CASE CallNull(t)
      BY <2>5 DEF CallNull, ProcessEnds
    <2>6. CASE DriverReturns(t)
      BY <2>6 DEF DriverReturns
    <2>7. CASE EnterDriver(t)
      BY <2>7 DEF EnterDriver, process
    <2> QED BY <1>1, <2>1, <2>2, <2>3, <2>4, <2>5, <2>6, <2>7,
               LoadOnceStep, LoadNextStep DEF Runs
  <1>2. ASSUME NEW t \in Threads, NEW w \in InitCalls, StartInit(t, w) PROVE LoadInv'
    BY <1>2, InitCallsHijacked DEF StartInit, process
  <1>3. ASSUME NEW t \in Threads, NEW w \in (Forwarded \cup Hijacked) \ InitCalls,
               StartCall(t, w)
        PROVE  LoadInv'
    BY <1>3 DEF StartCall, process
  <1>4. CASE UNCHANGED vars
    BY <1>4 DEF vars, process
  <1>5. \A t \in Threads :
          Early \cup (IF inited THEN Later[t] ELSE {}) \subseteq
            (Forwarded \cup Hijacked) \ InitCalls
    BY LoaderAssumption
  <1> HIDE DEF LoadInv
  <1> QED BY <1>1, <1>2, <1>3, <1>4, <1>5 DEF Next

LEMMA LoadStart == Init => LoadInv
  BY DEF Init, LoadInv, Labels

(* Given that enumerators and table agree: once a cuInit has returned, no  *)
(* call of any wrapper jumps through an entry that is not resolved, for    *)
(* any number of threads that call cuInit again, unless the driver has no  *)
(* such function.                                                          *)
THEOREM InitResolves == ASSUME TablesAgree PROVE Spec => []CallsResolved
  <1>1. LoadInv => CallsResolved
    BY FullTable DEF LoadInv, CallsResolved
  <1>2. LoadInv /\ [Next]_vars => LoadInv'
    BY LoadStep
  <1> QED BY <1>1, <1>2, LoadStart, PTL DEF Spec
=============================================================================
