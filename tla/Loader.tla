------------------------------- MODULE Loader -------------------------------
(***************************************************************************)
(* src/src/loader.c: how the threads of one process come to call the real  *)
(* driver.  cuInit and cuDriverGetVersion run load_necessary_data, which   *)
(* names the process to the RNM, reads the driver version, resolves one    *)
(* entry outside and all entries inside pthread_once.  Every other wrapper *)
(* calls through its entry at once, resolved or not.                       *)
(***************************************************************************)
EXTENDS Entries, Integers, SequencesExt

CONSTANTS
  Threads,   \* threads of the process
  Exports,   \* the names that the installed driver library exports
  Early,     \* wrappers that the application calls without a cuInit before
  Later,     \* Later[t]: wrappers that thread t calls when cuInit is done
  Self,      \* <<pid, start time>> of the process, the latter as
             \* set_process reads it: 0 with one blank in the name
  NULL       \* the null pointer

InitCalls == {"cuInit", "cuDriverGetVersion"}

ASSUME LoaderAssumption ==
  /\ Self \in (Nat \ {0}) \X Nat
  /\ Early \cup UNION {Later[t] : t \in Threads} \subseteq
       (Forwarded \cup Hijacked) \ InitCalls
  /\ NULL \notin Exports

VARIABLES
  driver,    \* what is installed: "none", "version" (no library), "library"
  version,   \* driver_version has been read
  key,       \* pid and stime of the static RNM
  read,      \* history: a set_process could open /proc/pid/stat
  single,    \* load_single_cuda_function has resolved its entry
  loaded,    \* entries 1..loaded have been resolved by load_libcuda
  once,      \* g_cuda_set
  inited,    \* a cuInit or cuDriverGetVersion has returned
  up,        \* the process runs
  pc, call,  \* where each thread is, in a call of which wrapper
  entered    \* the driver function that each thread has called

process == <<driver, version, key, read, single, loaded, once, inited, up>>
vars == <<process, pc, call, entered>>

Init ==
  /\ driver \in {"none", "version", "library"}
  /\ version = FALSE /\ single = FALSE /\ loaded = 0
  /\ key = <<-1, 0>> /\ read = FALSE
  /\ once = "new" /\ inited = FALSE /\ up = TRUE
  /\ pc = [t \in Threads |-> "idle"]
  /\ call = [t \in Threads |-> NULL]
  /\ entered = [t \in Threads |-> NULL]

Goto(t, label) == up /\ pc' = [pc EXCEPT ![t] = label]

(* exit(-1) of LOGGER(FATAL), or SIGSEGV.                                  *)
ProcessEnds == up' = FALSE /\ UNCHANGED <<pc, call, entered>>

(***************************************************************************)
(* The driver library                                                      *)
(***************************************************************************)
(* dlopen of "libcuda.so.<version>", and dlsym.                            *)
Opens == driver = "library" /\ version
Dlsym(name) == IF name \in Exports THEN name ELSE NULL

(* CUDA_ENTRY_ENUM: the position of the enumerator of a name.              *)
Position == [name \in ToSet(Enum) |-> CHOOSE i \in 1..Len(Enum) : Enum[i] = name]

(* cuda_library_entry[i].fn_ptr.                                           *)
FnPtr(i) ==
  IF i \in 1..loaded \/ (single /\ i = Position["cuDriverGetVersion"])
  THEN Dlsym(Table[i]) ELSE NULL

(***************************************************************************)
(* load_necessary_data                                                     *)
(***************************************************************************)
StartInit(t, w) ==
  /\ pc[t] = "idle"
  /\ call' = [call EXCEPT ![t] = w]
  /\ Goto(t, "set_pid")
  /\ UNCHANGED <<process, entered>>

rest == <<driver, version, single, loaded, once, inited, up, call, entered>>

(* set_process stores the pid, reads /proc/pid/stat, stores the start time.*)
SetPidM(t) ==
  /\ pc[t] = "set_pid"
  /\ key' = <<Self[1], 0>>
  /\ Goto(t, "set_stime")
  /\ UNCHANGED <<rest, read>>

SetPid(t) ==
  /\ pc[t] = "set_pid"
  /\ key' = [key EXCEPT ![1] = Self[1]]
  /\ Goto(t, "set_stime")
  /\ UNCHANGED <<rest, read>>

(* When the file cannot be opened, set_process says so, the start time is  *)
(* what it was, and the call goes on.                                      *)
SetStime(t) ==
  /\ pc[t] = "set_stime"
  /\ \/ key' = [key EXCEPT ![2] = Self[2]] /\ read' = TRUE
     \/ UNCHANGED <<key, read>>
  /\ Goto(t, "read_version")
  /\ UNCHANGED rest

ReadVersion(t) ==
  /\ pc[t] = "read_version"
  /\ version' = (version \/ driver # "none")
  /\ Goto(t, "load_single")
  /\ UNCHANGED <<driver, key, single, loaded, once, inited, up, call, entered, read>>

LoadSingle(t) ==
  /\ pc[t] = "load_single" /\ up
  /\ \/ /\ Opens
        /\ single' = TRUE
        /\ Goto(t, "once")
        /\ UNCHANGED <<up, call, entered>>
     \/ /\ ~Opens
        /\ ProcessEnds
        /\ UNCHANGED single
  /\ UNCHANGED <<driver, version, key, loaded, once, inited, read>>

(* pthread_once: the first thread runs load_libcuda, those that come while *)
(* it runs wait for its end.                                               *)
OnceM(t) ==
  /\ pc[t] = "once"
  /\ once' = "busy"
  /\ Goto(t, IF once = "new" THEN "load" ELSE "call")
  /\ UNCHANGED <<driver, version, key, single, loaded, inited, up, call, entered, read>>

Once(t) ==
  /\ pc[t] = "once" /\ once # "busy"
  /\ once' = IF once = "new" THEN "busy" ELSE once
  /\ Goto(t, IF once = "new" THEN "load" ELSE "call")
  /\ UNCHANGED <<driver, version, key, single, loaded, inited, up, call, entered, read>>

(* One iteration of the loop of load_libcuda.  The library that was opened *)
(* for the single entry opens again: it stays mapped (RTLD_NODELETE).      *)
LoadNextM(t) ==
  /\ pc[t] = "load"
  /\ IF loaded < Len(Table)
     THEN loaded' = loaded + 1 /\ Goto(t, "load") /\ UNCHANGED once
     ELSE Goto(t, "call") /\ UNCHANGED <<loaded, once>>
  /\ UNCHANGED <<driver, version, key, single, inited, up, call, entered, read>>

LoadNext(t) ==
  /\ pc[t] = "load"
  /\ IF loaded < Len(Table)
     THEN loaded' = loaded + 1 /\ Goto(t, "load") /\ UNCHANGED once
     ELSE once' = "done" /\ Goto(t, "call") /\ UNCHANGED loaded
  /\ UNCHANGED <<driver, version, key, single, inited, up, call, entered, read>>

(***************************************************************************)
(* CUDA_ENTRY_CALL                                                         *)
(***************************************************************************)
StartCall(t, w) ==
  /\ pc[t] = "idle"
  /\ call' = [call EXCEPT ![t] = w]
  /\ Goto(t, "call")
  /\ UNCHANGED <<process, entered>>

Called(t) == FnPtr(Position[Target(call[t])])

EnterDriver(t) ==
  /\ pc[t] = "call" /\ Called(t) # NULL
  /\ entered' = [entered EXCEPT ![t] = Called(t)]
  /\ Goto(t, "driver")
  /\ UNCHANGED <<process, call>>

CallNull(t) ==
  /\ pc[t] = "call" /\ up /\ Called(t) = NULL
  /\ ProcessEnds
  /\ UNCHANGED <<driver, version, key, single, loaded, once, inited, read>>

DriverReturns(t) ==
  /\ pc[t] = "driver"
  /\ inited' = (inited \/ call[t] \in InitCalls)
  /\ call' = [call EXCEPT ![t] = NULL]
  /\ entered' = [entered EXCEPT ![t] = NULL]
  /\ Goto(t, "idle")
  /\ UNCHANGED <<driver, version, key, single, loaded, once, up, read>>

(***************************************************************************)
(* Specification                                                           *)
(***************************************************************************)
Runs(t) ==
  \/ SetPid(t) \/ SetStime(t) \/ ReadVersion(t) \/ LoadSingle(t)
  \/ Once(t) \/ LoadNext(t)
  \/ EnterDriver(t) \/ CallNull(t) \/ DriverReturns(t)

Next == \E t \in Threads :
  \/ Runs(t)
  \/ \E w \in InitCalls : StartInit(t, w)
  \/ \E w \in Early \cup (IF inited THEN Later[t] ELSE {}) : StartCall(t, w)

(* The threads are scheduled, and the driver returns.                      *)
Spec == Init /\ [][Next]_vars /\ \A t \in Threads : WF_vars(Runs(t))

(***************************************************************************)
(* Properties                                                              *)
(***************************************************************************)
(* Once any cuInit has returned, no call goes through an entry that is not *)
(* resolved, unless the driver has no such function: a second cuInit, whose*)
(* single load and pthread_once overlap the calls of others, takes nothing *)
(* away.                                                                   *)
CallsResolved ==
  \A t \in Threads : inited /\ pc[t] = "call" =>
    Called(t) # NULL \/ Target(call[t]) \notin Exports

(* A wrapper reaches the driver function of its own name, except the one   *)
(* that cuda_originals.c:1434 sends to cuGraphicsEGLRegisterImage.  The    *)
(* build compares the lengths of enum and table, nothing their order.      *)
OwnFunction ==
  \A t \in Threads : pc[t] = "driver" =>
    entered[t] = call[t] \/ call[t] = "cuGraphicsResourceGetMappedEglFrame"

(* No driver function runs before the RNM has the pid of the process, nor, *)
(* once a set_process could open /proc/pid/stat, under another start time  *)
(* than that: the set_process of another thread may be between its two     *)
(* stores, or fail to open the file.  Until one could, it is 0.  Names that*)
(* change between two calls are in Identity.                               *)
KeyBeforeCalls ==
  \A t \in Threads : pc[t] = "driver" =>
    key = (IF read THEN Self ELSE <<Self[1], 0>>)

(* Every call returns or ends the process: no thread waits for ever in     *)
(* pthread_once, even when the loading thread finds no library.            *)
InitReturns == \A t \in Threads : pc[t] # "idle" ~> pc[t] = "idle" \/ ~up
=============================================================================
