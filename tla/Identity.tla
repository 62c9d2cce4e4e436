------------------------------ MODULE Identity ------------------------------
(***************************************************************************)
(* Who a process is to the Resource Node Map: the key (pid, start time)    *)
(* that set_process reads from /proc/pid/stat, the nodes that are filed    *)
(* under it, the test of process_exist, and what fork, execve, prctl, exit *)
(* and the reuse of a pid do to them.                                      *)
(*                                                                         *)
(* A call is one step here, and of add_gmem there is only what it does to  *)
(* the nodes; which records they lead to is in Hijack.                     *)
(***************************************************************************)
EXTENDS Integers, FiniteSets

CONSTANTS
  Pids,     \* the pids of the host
  Users,    \* the users who count usage
  Owners,   \* those of them who run the programs that are counted
  Root,     \* the one who may signal everybody
  Extras,   \* Extras[p]: how many blanks a program with pid p may have in
            \* its name
  Ticks,    \* the ticks that pass
  Room      \* how many nodes there may be

ASSUME IdentityAssumption ==
  /\ Pids \subseteq Nat \ {0}
  /\ Extras \in [Pids -> SUBSET (0..2)]
  /\ Owners \subseteq Users /\ Root \in Users
  /\ Ticks \in Nat /\ Room \in Nat

(* The first tick: no start time looks like a number of threads.           *)
Boot == 10

VARIABLES
  clock,  \* the tick
  last,   \* last[p]: when pid p was given away last
  proc,   \* proc[p]: the process with pid p
  nodes   \* the nodes in the segment, each with who filed it

vars == <<clock, last, proc, nodes>>

(***************************************************************************)
(* Processes                                                               *)
(*                                                                         *)
(*   state, start, user, extra (blanks in the name), threads               *)
(*            what kill and /proc/pid/stat tell                            *)
(*   key      rnm.pid and rnm.stime                                        *)
(*   read     history: what the last set_process read in stat: the start   *)
(*            time, another field, or nothing                              *)
(*   origin   history: pid and start time of the process that called       *)
(*            cuInit last, this one or an ancestor that forked it since    *)
(*   cut      forked from a user of CUDA: the driver refuses it memory     *)
(***************************************************************************)
(* set_process(-1), by the constructor of the static RNM.                  *)
NoKey == <<-1, 0>>

(* A process with nothing of the library's or the driver's in it.          *)
Fresh(state, start, user, extra) ==
  [state |-> state, start |-> start, user |-> user, extra |-> extra, threads |-> 1,
   key |-> NoKey, read |-> "nothing", origin |-> NoKey, cut |-> FALSE]
NoProcess == Fresh("free", 0, Root, 0)

Runs(p)   == proc[p].state = "run"
Called(p) == proc[p].origin = <<p, proc[p].start>>

(* The 22nd word of the file: the start time is the 22nd field, and each   *)
(* blank in the name, the second field, moves the 21st and 20th there.     *)
Word22(p) ==
  CASE proc[p].extra = 0 -> proc[p].start
    [] proc[p].extra = 1 -> 0
    [] proc[p].extra = 2 -> proc[p].threads

MaySignal(u, p) == u \in {Root, proc[p].user}

(* RNode::process_exist of a node with key k, in a process of user u that  *)
(* could open the file or not.                                             *)
ProcessExistM(u, k, opened) ==
  proc[k[1]].state # "free" /\ MaySignal(u, k[1]) /\ opened
ProcessExist(u, k, opened) ==
  /\ proc[k[1]].state # "free" /\ MaySignal(u, k[1])
  /\ opened /\ Word22(k[1]) = k[2]

Init ==
  /\ clock = Boot
  /\ last = [p \in Pids |-> 0]
  /\ proc = [p \in Pids |-> NoProcess]
  /\ nodes = {}

(***************************************************************************)
(* The host                                                                *)
(***************************************************************************)
Tick ==
  /\ clock < Boot + Ticks
  /\ clock' = clock + 1
  /\ UNCHANGED <<last, proc, nodes>>

(* A pid does not come back within a tick.                                 *)
NewPid(p) ==
  /\ proc[p].state = "free" /\ last[p] < clock
  /\ last' = [last EXCEPT ![p] = clock]

Spawn(p, u, x) ==
  /\ NewPid(p)
  /\ proc' = [proc EXCEPT ![p] = Fresh("run", clock, u, x)]
  /\ UNCHANGED <<clock, nodes>>

(* execve keeps pid and start time, and the constructor runs again.        *)
Exec(p) ==
  /\ Runs(p)
  /\ proc' = [proc EXCEPT ![p] = Fresh("run", proc[p].start, proc[p].user, proc[p].extra)]
  /\ UNCHANGED <<clock, last, nodes>>

Rename(p, x) ==
  /\ Runs(p) /\ proc[p].extra # x
  /\ proc' = [proc EXCEPT ![p].extra = x]
  /\ UNCHANGED <<clock, last, nodes>>

(* The number of threads is read with two blanks in the name only.         *)
AddThread(p) ==
  /\ Runs(p) /\ proc[p].threads = 1 /\ proc[p].extra = 2
  /\ proc' = [proc EXCEPT ![p].threads = 2]
  /\ UNCHANGED <<clock, last, nodes>>

Exit(p) ==
  /\ Runs(p)
  /\ proc' = [proc EXCEPT ![p] = Fresh("zombie", proc[p].start, proc[p].user, proc[p].extra)]
  /\ UNCHANGED <<clock, last, nodes>>

Reap(p) ==
  /\ proc[p].state = "zombie"
  /\ proc' = [proc EXCEPT ![p] = NoProcess]
  /\ UNCHANGED <<clock, last, nodes>>

(* The child has the parent's rnm.                                         *)
Fork(p, c) ==
  /\ Runs(p) /\ NewPid(c)
  /\ proc' = [proc EXCEPT ![c] =
       [Fresh("run", clock, proc[p].user, proc[p].extra)
          EXCEPT !.key = proc[p].key, !.read = proc[p].read, !.origin = proc[p].origin,
                 !.cut = proc[p].origin # NoKey]]
  /\ UNCHANGED <<clock, nodes>>

(***************************************************************************)
(* The library                                                             *)
(***************************************************************************)
(* load_necessary_data, on every cuInit: set_process with the pid and,     *)
(* when stat cannot be opened, the start time that was there before.       *)
CuInitAs(p, key, read) ==
  /\ Runs(p)
  /\ proc' = [proc EXCEPT ![p] =
       [@ EXCEPT !.key = key, !.read = read, !.origin = <<p, proc[p].start>>]]
  /\ UNCHANGED <<clock, last, nodes>>

What(p) == IF proc[p].extra = 0 THEN "stime" ELSE "other"

CuInitPidM(p, opened) == CuInitAs(p, <<p, 0>>, What(p))

CuInitOnceM(p, opened) ==
  IF proc[p].key = NoKey /\ opened THEN CuInitAs(p, <<p, Word22(p)>>, What(p))
  ELSE CuInitAs(p, proc[p].key, proc[p].read)

CuInit(p, opened) ==
  \/ opened  /\ CuInitAs(p, <<p, Word22(p)>>, What(p))
  \/ ~opened /\ CuInitAs(p, <<p, proc[p].key[2]>>, "nothing")

(* add_gmem of a process that finds no node under its key.                 *)
AddNode(p) ==
  /\ Runs(p) /\ Called(p) /\ ~proc[p].cut
  /\ \A n \in nodes : n.key # proc[p].key
  /\ Cardinality(nodes) < Room
  /\ nodes' = nodes \cup {[key  |-> proc[p].key, pid |-> p, start |-> proc[p].start,
                           read |-> proc[p].read]}
  /\ UNCHANGED <<clock, last, proc>>

Next ==
  \/ Tick
  \/ \E p \in Pids : \E u \in Owners, x \in Extras[p] : Spawn(p, u, x)
  \/ \E p \in Pids : \E x \in Extras[p] : Rename(p, x)
  \/ \E p, c \in Pids : Fork(p, c)
  \/ \E p \in Pids, opened \in BOOLEAN : CuInit(p, opened)
  \/ \E p \in Pids : AddThread(p) \/ Exec(p) \/ Exit(p) \/ Reap(p) \/ AddNode(p)

Spec == Init /\ [][Next]_vars

(***************************************************************************)
(* Properties                                                              *)
(***************************************************************************)
(* A node that somebody counts is that of the process that has the pid     *)
(* now, running or not yet reaped, whatever pids were given away again     *)
(* and whatever the one who filed it could read; unless the process that   *)
(* has the pid now has a name with blanks.                                 *)
CountsExisting ==
  \A u \in Users, n \in nodes, opened \in BOOLEAN :
    ProcessExist(u, n.key, opened) =>
      proc[n.pid].start = n.start \/ proc[n.pid].extra > 0

(* A node of a running process, filed under its start time, is counted by  *)
(* everybody who may signal the process and can open its stat, through     *)
(* fork and execve; unless its name has blanks now.                        *)
NodeSeen ==
  \A u \in Users, n \in nodes :
    /\ n.read = "stime" /\ MaySignal(u, n.pid)
    /\ Runs(n.pid) /\ proc[n.pid].start = n.start /\ proc[n.pid].extra = 0
    => ProcessExist(u, n.key, TRUE)

(* A process that read its start time in cuInit finds no node but its own, *)
(* whatever its ancestors and the processes that had its pid before filed; *)
(* until it calls cuInit itself a forked child finds that of its ancestor. *)
KeysApart ==
  \A p \in Pids, n \in nodes : Runs(p) /\ proc[p].key = n.key =>
    \/ proc[p].origin = <<n.pid, n.start>>
    \/ proc[p].read # "stime"
    \/ ~Called(p) /\ n.read # "stime"

(* resource.cxx:111: "read stime from /proc/{pid}/stat, the 22nd element". *)
(* So whoever could open the file has its start time in the key.           *)
KeyHasStartTime ==
  \A p \in Pids : Called(p) /\ proc[p].read # "nothing" => proc[p].key = <<p, proc[p].start>>
=============================================================================
