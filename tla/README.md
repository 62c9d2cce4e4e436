# A TLA+ model of vcuda-controller

`libcuda-control` is preloaded in place of the CUDA driver library. It
intercepts the driver API of every process on a host, keeps the GPU memory that
the processes allocate in tables in shared memory, and refuses an allocation
that would exceed `GPU_MEM_LIMIT`. There is no lock in the code and no daemon:
all coordination is what the processes do to two System V segments.

## 1. Inventory

| part | state | operations | modelled in |
|---|---|---|---|
| Resource Node Map (`src/src/resource.cxx`, `rnode.hpp`, `gmem.hpp`) | `ptr_rnode[101]`: hash table of processes keyed by (pid, start time), with the index of the first record; `ptr_gmem[1024]`: allocation records chained by `next` | `find_rnode`, `insert_rnode`, `add_gmem` (`find_gmem`, `push_gmem`, `link_rnode_gmem`, `last_rec`), `remove_gmem`, `gmem_used` | `RNM`; `Ledger` abstractly |
| Hijacked memory calls (`hijack_call.c`) | none of its own | usage check, driver call, record; forget, driver free | `Hijack` |
| Attachment (`RNM::init`) | the two segments exist or not, who has them | `shmget` with `IPC_EXCL`, which may fail; initialise; attach | `Attach` |
| Request sizes (`ROUND_UP`, array helpers) | none | `size_t` arithmetic | `Sizes` |
| Reports (`cuDeviceTotalMem`, `cuMemGetInfo`) and the limit | environment | `GPU_MEM_LIMIT` through `strtoul`, free and total memory | `Sizes` |
| Process identity (`set_process`, `process_exist`) | `/proc`, the process table, the key in the static `RNM` | name oneself, ask for another | `Identity`; parts in `RNM`, `Loader` |
| Driver loader (`loader.c`) | `driver_version`, `g_cuda_set`, `fn_ptr` of each entry, pid and start time of the static `RNM` | `load_necessary_data` from `cuInit` and `cuDriverGetVersion` | `Loader` |
| Entry table, enumerators, wrappers (`loader.c`, `cuda-helper.h`, `cuda_originals.c`) | constant | 441 entries, 420 forwarding wrappers, 20 hijacked functions | `Entries`, `Loader` |
| C wrapper (`resource_c_wrapper.cxx`) | none | hands the calls on | with the calls, in `RNM`, `Hijack`, `Loader` |
| CUDA types | | array formats and descriptors matter to request sizes | `Sizes` |
| Printing, build | | | not modelled, see section 6 |

How they meet: an application thread calls a wrapper. The memory calls first
read both tables (`gmem_used`), then the driver through an entry that the loader
has filled, then write both tables (`add_gmem`). `cuMemFree` writes the tables
first and calls the driver after. All processes of the host share the tables;
the threads of a process share the static `RNM` and the entry table.

What is hard about it: test-then-write without a lock (node slots, record
slots, the limit); a record that holds the *address of the caller's variable* and
compares what that variable holds later; an entry that is not maintained when the
first record is freed; index -1, which the walks read in front of the segment;
`gmem_used` stepping by the index of the node; processes that end at any point;
nodes that are never deleted; a creator that initialises a table others already
use; identity read from a text file that is split at blanks and may fail to open, and
kept across `fork` and `execve`; sums and products that wrap; entries that agree with the enum by
position only. `PROJECT.json` lists each with its line.

What makes each part correct:

* node table: one node per process, found where the probes look for it, kept
  until its process is gone, `nullptr` only from a full table;
* records: one record per live allocation, chains of different processes
  disjoint and finite, a bounded loss when a process ends inside a call;
* calls: usage within the limit, or past it by one request when two calls
  overlap; every call ends;
* sizes: a request counts at least what it takes; what was reported free, or as the
  total, can be had;
* identity: a node that counts is that of the process that has the pid now, the node
  of a running process counts for whoever may signal it, and no process takes the
  node of another one for its own;
* attachment: callers see tables that were initialised once, nobody waits;
* loader: after `cuInit` each wrapper reaches its own driver function, and the
  driver is never entered under a key that a thread is just changing.

## 2. Modules

    RNM --> Hijack --> HijackProps --> HijackLedger --> MCHijack --> MCHold   (runs)
                            |  |            |  \-- INSTANCE Ledger    |
                            |  |            \--> HijackScan ----------/
                            |  \---> Attach --> MCAttach   (INSTANCE Hijack)
                            |
                            \--> HijackProofs --> ChainProofs --> FreeProofs
                                     |                 \--> LedgerProofs  (and HijackScan)
                                     \--> AttachProofs  (and Attach)      (theorems)
    Entries --> Loader --> MCLoader, LoaderProofs
    Sizes -----> MCSizes, SizesProofs
    Identity --> MCIdentity, IdentityProofs

**RNM.** The tables and what a thread does to them. One action is one visit of
one table slot: one iteration of a loop, or one setter (an `RNode` assignment;
`set_res` with `set_next`; `set_next`; `shallow_delete`). A test and the write
that follows it are separate actions wherever another process or thread can come
in between: `InsertProbe`/`InsertAssign`, `PushProbe`/`PushClaim`,
`LinkEntry`/`SetEntry`, `LastRec`/`LinkTail`. `pc` is the place in the code,
`cnt`, `cur`, `prv`, `acc` and `node` are the locals `i`, `g_idx`, `prev_idx`,
`used` and `RNode*`. The setters are atomic, and all processes see one order of
writes: torn writes and weak memory are outside the model.

| actions | code |
|---|---|
| `UsedNode`, `UsedSum` | `gmem_used`, the outer and the inner loop |
| `FindRnode`, `InsertProbe`, `InsertAssign`, `ReadEntry` | `find_rnode`, `insert_rnode`, the dereference of their result |
| `FindGmem`, `ResetRecord`, `PushProbe`, `PushClaim` | `find_gmem`, `set_res` of a record that matches, `push_gmem` |
| `LinkEntry`, `SetEntry`, `LastRec`, `LinkTail` | `link_rnode_gmem`, `last_rec` |
| `RemoveVisit`, `RemoveBypass`, `RemoveDelete` | `remove_gmem_by_dptr` |

The code reads `ptr_gmem[-1]` on every walk that finds nothing. What is there is
not defined: `ZeroBelow` is the set of processes that have zeros in front of the
segment (the record reads as empty with `next` 0), the others fault; the runs take
the zeros, with which calls go on, and the theorems hold for both. A recorded
address of another process is either mapped in the reader (`Mapped`), and then
reads what the reader keeps there, or faults. An endless recursion is an endless
loop (both are tail calls, built with `-O2`).

**Hijack.** The calls on top: `StartAlloc` (three kinds: `mem`, `array`, and
`pitch`, which is `cuMemAllocPitch` with its usage of 0), `CheckLimit`,
`DriverAlloc` or its failure, then `add_gmem`; `StartFree`, `remove_gmem`,
`DriverFree` or its failure; `ArrayDestroy`, which only forwards; `Overwrite`, the
application reusing a variable; `Die`, the end of a process at any point;
`Segfault`, the end where the code faults. A process that ends loses its GPU
memory and leaves `/proc` in the same step. `Init` has initialised tables and
loaded libraries.

Workloads restrict the *applications*, never the code, and their names appear in
every property that needs one: `Keep` (an allocation keeps a variable of its own
and lives until its process ends), `Hold` (`Keep`, calls do not overlap), `Apart`
(`Keep`, two calls overlap anywhere but inside `add_gmem`), `Careful` (`Hold` with
frees). Without them the code keeps few promises.

**HijackProps** has the properties, **Ledger** what the tables promise without the
tables: a list of sizes per process, of which the first counts, with atomic
`Allocate`, `Record`, `Lose` (no room) and `End`. **HijackLedger** maps the tables to
it: `book` is the walk along `GMem.next` from the entry of the node, `pending` what
the driver has given and `add_gmem` not yet recorded. **HijackScan** adds a history
variable to `Hold`: `began[t]`, the sum of the first records of the processes that
existed when the call of `t` began to sum, against which `UsedIsHeads` holds what
`gmem_used` returns.

Chains, walks and sums are defined without recursion, so that the proofs can use
them: a chain is what lies in every set of records that holds the entry and that no
link leaves (`Chain`), a walk is a sequence that begins at the entry, follows the
links and ends where they end (`IsWalk`), and a sum of sizes is the number of bytes
in their disjoint union (`HeadSum`, `Usage`).

**Attach.** `RNM::init` of every process under the calls of `Hijack`. A new
segment is zero-filled (`ZeroRNode`, `ZeroGMem`), the creator turns it into the
initial one slot by slot, everybody else is ready at once. The kernel may refuse
the processes in `Starved` a segment, once (the segment is made by the second
`shmget`, and nobody initialises it) or twice (`shmat` gives the address -1, and the
first use ends the process, `BadTable`). `Eager` applications call as soon as they
can, `Patient` ones when the creators are done. `Patient` implements `Hijack` under
`Keep`: the refinement `H` shows the initial tables while a creator is at work, the
real ones after, with slots nobody initialised as empty ones.

**Sizes.** One application that asks for reports and makes allocation calls,
with `used` and `GPU_MEM_LIMIT` moving around it: `RequestSize` per call, `Refused`
for the check, `LimitOf` for `strtoul`, `Free` (`cuMemGetInfo`) and `TotalMem`
(`cuDeviceTotalMem`) for the reports, all modulo `SizeMod`. `Takes` is what the driver
allocates at least, a reference definition and not code.

**Identity.** The host around `set_process` and `process_exist`: pids are given
away, given away again, forked, execed, renamed, ended and reaped. The key is what
the 22nd word of `/proc/pid/stat` says at the time of `cuInit` (`Word22`), or the
start time that was there before when the file cannot be opened; `ProcessExist` is
the test of another process, with its permission to signal and its own attempt at the
file. Of `add_gmem` there is only what it does to the nodes: a process that finds
none under its key adds one (`AddNode`), and nothing deletes any. Which records a
node leads to, and what a free leaves of them, is the business of `RNM` and `Hijack`.
`read` and `origin` are history: what the last `set_process` read, and which process
called `cuInit` last.

**Entries.** The three lists of names, in the order of the source.

**Loader.** The threads of one process. `set_process` is two stores, and leaves the
second out when the file cannot be opened (`SetStime`); the single
load happens on every `cuInit`; `pthread_once` lets one thread run `LoadNext` per
entry and blocks the others; `EnterDriver` or `CallNull` is `CUDA_ENTRY_CALL`.
`fn_ptr` is not a variable: `loaded` and `single` say which entries are resolved.
What is installed (`driver`) is chosen once, initially.

## 3. Runs

| run | bounds | shows |
|---|---|---|
| `attach` | 3 processes with colliding keys, 1 of them starved, 2 nodes, 2 records, `Patient` | `NullOnlyWhenFull`, `SettledNodesStay`, `SettledRecordsStay`, `ImplementsHijack`, `Attaches` |
| `calls` | 2 processes whose variables are not mapped in each other, 2 nodes, 2 records, every call | `UniqueKey`, `NodeInv` |
| `records` | 1 process, 3 records, 2 handles, an array, `SizeMod` 4 | `TypeOK` |
| `hold` | 2 processes, 2 nodes, 3 records, sizes 1 and 2, limit 3, `Hold` with the history of `HijackScan` | `LedgerComplete`, `ChainsDisjoint`, `CrashLeaksOne`, `UsedIsHeads`, `HeadQuota`, `LastRecOnChain`, `CallReturns`, `ImplementsLedger` |
| `overlap` | 3 processes, 3 nodes, 3 records, sizes 1 and 2, limit 2, `Apart` | `LedgerComplete`, `ChainsDisjoint`, `HeadOvershoot` |
| `solo` | 1 process on the last of 3 nodes, 3 records, 3 allocations, frees in every order, `Careful` | `NoStaleRecord`, `NeverReregisters`, `LastRecOnChain`, `CallReturns` |
| `loader` | 2 threads, the real tables, a driver without the virtual memory calls | `CallsResolved`, `OwnFunction`, `KeyBeforeCalls`, `InitReturns` |
| `sizes` | modulo 256, 7 usages, 6 spellings of the limit, every kind of call | `BeyondLimitOnly`, `PitchIsLeast`, `ReportedIsGranted` |
| `identity` | 2 pids, one of them with names of 0 or 2 blanks; root, the owner and a third user; 2 ticks, 1 node | `CountsExisting`, `NodeSeen`, `KeysApart` |
| `threads`, `attach_early`, `blank` | small | a disagreement each, see below |

Why the bounds are enough. The node table matters through collisions: with two
slots and three keys that start at the same slot every probe path, wrap-around,
full table and lost race occurs. Chains of three records, with
a first, a middle and a last one to link and to unlink, occur in `solo` only: its
process has the last of three nodes, so that the inner loop of `gmem_used`, which
steps by `ptr_gmem[2].next`, ends while records 0, 1 and 2 are chained in this order.
In `hold` chains have two records at most, in `overlap` one, and the theorems cover the
rest. The tables also fill.
Sizes 1 and 2 against a limit of 3 give acceptance, refusal and equality.
`SizeMod` is the width of `size_t`: 4 where wrapping is wanted, 16 where it is
not. In `hold`, a push that finds the table full ends the promise of
`LedgerComplete`, as in the code: the allocation goes unrecorded; `Ledger` has `Lose`
for it. `overlap` needs the third process: two overshoot, and the third must not add
to that. In `sizes`, 256 is small enough for every product to wrap and not to wrap;
the limits are unset, below, above the device, out of range and negative.
In `identity`, two ticks let a pid come back with another start time, a second
pid is enough for parent and child, and the third user is neither owner nor root.
One node (`Room`) is enough because each property is about one node and nodes do not
influence what processes do: whichever node would break a property, the behaviour that
files only that one breaks it too.
One blank makes the 22nd word 0, two the number of threads; the run takes two,
which contains the hard part, a word that changes. `loader` has no
such bound: its tables are the whole 441 entries, and one thread calls all 440
wrappers less the two `cuMemGetInfo`, which do not reach the driver.

No run checks for deadlock: applications may stop calling and processes end.

Some results deserve words.

* `UsedIsHeads` says what `gmem_used` computes: the sum of the *first* record of
  each existing process, since the inner loop steps by `ptr_gmem[i].next` with the
  index of the node. The bound above is the same sum when the scan began, so a process
  that ended before must not count, whose node is still there. `HeadQuota` is therefore
  the limit the code enforces, for calls that do not overlap; the total usage of a host
  is not limited.
* `HeadOvershoot`: when calls overlap, that sum may exceed the limit by one request
  and not by two, because the third caller counts the second's record before it is
  given anything. This needs records that are not lost: if two `add_gmem` overlap,
  both may claim the same node or record, memory goes uncounted and nothing bounds
  the excess. What survives any overlap is `SettledNodesStay` and
  `SettledRecordsStay`: the harm stays with the processes that race.
* `CallReturns` has the escape `Trapped`: when record `i` has a successor and node
  `i` is counted, that inner loop does not end. Everything else ends.
* `LastRecOnChain`: `find_gmem` and `remove_gmem_by_dptr` read past the end of the chain
  they are on, into `ptr_gmem[-1]`. The walk that is about to write does not: `last_rec`
  starts and stays on the chain of its own process, although after a free the entry may
  name an emptied slot.
* `CrashLeaksOne`: a process that ends between claim and link leaves one record
  that no chain reaches; never more than one per process.
* `ImplementsHijack` is stated for `cuMemAllocPitch`, which does not sum the usage. A
  segment that nobody initialised, because its creator ended or its first `shmget`
  failed, has `next` 0 in every record, and `gmem_used` never ends on it.
* `solo`: after the first record is freed the rest of the chain is unreachable, so
  the later frees find nothing. `NoStaleRecord` holds because what is reachable is
  right, not because nothing is lost.
* `BeyondLimitOnly` names every way past the limit in the arithmetic: a sum or
  product that wraps; an array of height 0, a mipmap of depth 0 or a 3D array deeper
  than 8 (bits counted for bytes make good a depth up to 8); `cuMemAllocPitch`.
* `ReportedIsGranted` holds also for a report made while the usage was above the
  limit, and for a limit above the device: each report is then the smaller number.
* `CountsExisting`, `NodeSeen` and `KeysApart` are the three ways an identity could go
  wrong: a node that counts for the wrong process, a node of a running process that
  does not count, and a process that works on a node not its own. Excepted are names
  with blanks (`blank` shows why), users who may not signal the process (`kill` gives
  `EPERM`), a start time that could not be read, and a forked child before its own
  `cuInit`, which has its parent's key.
* `KeyBeforeCalls` lets the start time be 0 until a `set_process` could open the file;
  the code goes on into the driver with it.

The disagreements (`findings` in `PROJECT.json` quotes the lines):

* `threads`: two threads of a process both create its node.
* `attach_early`: a table in use is initialised by its creator.
* `blank`: the 22nd word of `/proc/pid/stat` is not the start time of a process with
  a blank in its name.

## 4. Fairness

`WF_vars(InCode(t))` for each thread, in `hold` and `solo`: nothing in the code
blocks, so a thread that the operating system schedules goes on; starting a call
is never fair, nor is ending a process. The driver returns, with success or not.
`BootFairness` is the same for constructors. In `Loader`, `WF_vars(Runs(t))`: a
thread may wait in `pthread_once`, and is enabled again when the loader is done.
`Sizes` and `Identity` state safety only and assume no fairness.

## 5. Proofs

The theorems hold for every number of processes, threads, pids and users, all
table lengths, every width of `size_t`, every driver and every value of the other
constants, under the `ASSUME`s of the modules, which TLC evaluates in the runs.

`HijackProofs`, the tables under every interleaving:

* `TypeCorrect`: `Spec => []TypeOK`. `TypeOK` is not inductive: which range a counter
  or an index has depends on where the thread is. `Indices` adds this per label, -1
  included where the code reads `ptr_gmem[-1]`, and `TypeInv == TypeOK /\ Indices` is
  inductive. It needs `NR <= NG`, because `gmem_used` indexes records by node numbers
  (101 and 1024 in the code).
* `OneNodePerProcess`: `Spec => []UniqueKey`, and `NodesAreReachable`:
  `Spec => []NodeInv`, assuming `OneThread`, that a process calls from one thread;
  `threads` shows that they are false otherwise. Every node is reachable by the probes
  of its key, because slots never become `NONEXIST` again; a thread that is inserting
  has therefore seen that no node has its key, and nobody else inserts it. An insert
  that overwrites a node of another process only removes a key.
* `NodesAreKept`: `Spec => SettledNodesStay`, same assumption: a node that no
  insert is about to overwrite is never taken away, because `insert_rnode` takes only
  slots that it saw available.
* `NullMeansFull`: `Spec => []NullOnlyWhenFull`, for any number of threads per
  process. `ProbesCover` shows that the `NR` probes of a key visit every slot; `FullInv`
  says that an insert has only passed slots in use, and slots in use stay in use, since
  nobody deletes nodes.
* `RecordsAreKept`: `KeepSpec => SettledRecordsStay`, for any number of threads.
  `NoFrees` keeps the writes of the free path away; the others write a record that is
  empty when they choose it (`ClaimsEmpty`) or that they register again
  (`WritesRecord`).

`ChainProofs`, the chains while nobody frees and at most one call is inside
`add_gmem`. All four hold for `HoldSpec` and for `ApartSpec`, in which other calls
go on around it, and assume `OneThread`:

* `OwnChains`: `[]ChainsDisjoint`; `AllocationsRecorded`: `[]LedgerComplete`. None of
  this is inductive alone. In `KeptInv`, `Chained` says that entries and links of what
  is in use lead to records in use, that no two chains share a record, and what the
  locals of `add_gmem` point to (`Held`): the search stands on its own chain, and the
  record about to be linked is on none. `OwnVariables` says that each live allocation
  is in one variable and each variable in use holds one; `Recorded` and `AllRecorded`
  that records on a chain are about such variables, and that each such variable has a
  record, is being recorded, or met a full table. A chain is the least set of records
  that holds the first one and is closed under links, so the proofs reason about whole
  chains by naming closed sets, without induction along them.
* `EndOnOwnChain`: `[]LastRecOnChain`, by what `Held` says of `last_rec` and by
  `Chained`.
* `OneLeakPerCrash`: `[]CrashLeaksOne`. `LeakInv` adds that the records that are
  `Lost`, in use but on no chain and in the hands of no call that will link them, are
  never more than the processes that ended: a record is lost only when the process
  ends whose call holds it.

`LedgerProofs`, the limit and the abstract list. Assumed are `OneThread`; `SeesAll`, that
every process may signal every other, for `kill` decides who is counted; no call of
`cuMemAllocPitch`, which does not sum the usage; and that the sums do not wrap
(`LimitFits`, `SumFits`), which 64 bits give for sizes and limits of real devices.
`BeyondLimitOnly` in `Sizes` names what happens without the last two, and
`NodeSeen` in `Identity` names who is counted without `SeesAll`.

* `UsedIsCounted`: `ScanSpec => []UsedIsHeads`. `ScanInv` adds to `HoldInv` that what
  a scan foresees is no more than `began`: calls are serial, so nothing changes during
  a scan but that processes end, and with them what it foresees only falls.
* `HeadsWithinLimit`: `HoldSpec => []HeadQuota`. `Foreseen(t)` is what the scan will
  return if nothing changes, `Due(t)` what the driver was or will be asked for and no first record
  shows yet. `HoldQuota` says that first records and `Due` stay below the limit and
  that a scan foresees no less than the first records hold. It holds because entries
  are set once and a process that ends only takes away.
* `OvershootIsOneRequest`: `ApartSpec => []HeadOvershoot`. With two calls, `ApartQuota`
  bounds the first records and what two calls have due by the limit and one largest
  request. It also says what keeps the next grant from adding to it: a scan foresees
  all but at most one largest request of what is there and due unless that is within
  the limit anyway, and of two scans at a time one foresees all first records.
* `TablesAreLedger`: `HoldSpec => ImplementsLedger`. `Ordered` says that each node has
  a walk that meets its chain, each record once; walks are unique (`OneWalk`, by the
  least index at which two would differ), so `Book` is that walk. The driver's answer is
  `Allocate`; `SetEntry` and `LinkTail` with a record are `Record`, with index -1 `Lose`,
  which is allowed then, because `LeakInv` counts the records that are in no list;
  `Die` and `Segfault` are `End`; every other step changes no list.

`FreeProofs`, for `CarefulSpec`, frees in any order between allocations, assuming
`OneThread`:

* `NothingStale`: `[]NoStaleRecord`, and `NeverTwice`: `[]NeverReregisters`. Both need
  `OneProcess`, that one process uses the tables. By `FreeInv` a chain always leads
  through records in use, each one about an allocation of its own, although
  `remove_gmem` leaves the entry of the node alone. What saves it is first fit: with
  one process the entry is 0 from its first allocation on, and when record 0 has been
  emptied, the next push fills just that. With two processes the entry of one can be
  a record that the other one claims after it was freed, so the assumption is needed.
* `EndIsLinked`: `[]LastRecOnChain`, under the same assumptions and by `FreeInv`.

`AttachProofs`, the constructors under the calls. Assumed is `OnlyPitch`, for
`gmem_used` never ends on a segment that nobody initialised:

* `AttachedAsInitialised`: `PatientSpec => ImplementsHijack`. `AttachInv` says that
  no call is under way while a creator is at work (`Clean`), that entries and links of
  what is in use lead to what is in use (`LinksLead`), and that a call has in hand only
  what is in use (`Works`); so it never sees the difference between a slot of zeros and an
  initialised one. Once the creators are done nobody wipes again (`BootStep`). Each
  step of a call is then the same step on the tables that are shown, steps of
  constructors change nothing that is shown, and a call through the address -1 is the
  end of the process.
* `AttachedNullMeansFull`, `AttachedNodesAreKept`, `AttachedRecordsAreKept`:
  the properties of `NullMeansFull`, `NodesAreKept` and `RecordsAreKept` for
  `PatientSpec`. They are the theorems of `HijackProofs` about the tables that are shown
  (`V`), carried back to the real ones, where nodes and records in use look the same.

All four are about applications with two habits that the code does not impose: they
call `cuMemAllocPitch` only (`OnlyPitch`), and start no call before both segments
exist and every living creator has initialised its own (`PatientSpec`). `attach_early`
is what happens to those that do not wait.

`SizesProofs`, the arithmetic:

* `ReportedCanBeHad`: `Spec => []ReportedIsGranted`, by `ReportInv`: the last report
  says what was free at its time and what the limit made of the device, and the call in
  flight was judged by the same limit.
* `PitchCountsLeast`: `Spec => []PitchIsLeast`. `RoundUpIsLeast` is the fact about
  `ROUND_UP`; two multiples of a base that are less than a base apart are equal
  (`MultiplesApart`), and rows padded one by one are such a multiple (`PaddedRows`).
* `NothingBeyondLimit`: `Spec => []BeyondLimitOnly`. `GrantInv` records what the check
  saw; `FlatCovers`, `DeepCovers` and `PitchedCovers` show per kind of call that the
  size counted covers what the driver takes.

`IdentityProofs`, all by one invariant, `IdInv`: a key, of a process (`ProcInv`) or of
a node (`NodeInv`), has the pid of whoever called `cuInit` and nothing later than its
start time, and just that if it was read; and a pid is given away with ever later start
times, so a key that is older than its pid's last one matches nobody.

* `CountedIsThere`: `Spec => []CountsExisting`.
* `OwnNodeIsSeen`: `Spec => []NodeSeen`.
* `NodesAreOwn`: `Spec => []KeysApart`.

`LoaderProofs`:

* `KeyFirst`: `Spec => []KeyBeforeCalls`. Entries are resolved behind `set_process`,
  and a call enters the driver only through an entry that is resolved; from then on each
  of the two stores writes what is there, or leaves it (`KeyInv`).
* `InitResolves`: `Spec => []CallsResolved`, assuming `TablesAgree`, that each
  enumerator used is the position of its name in the table. This is a fact about two
  lists of 441 names, which no prover need see: it holds for the lists of `Entries`, and
  a table in another order breaks `OwnFunction` in the run `loader`. By `LoadInv` one
  thread at a time fills the table, nobody empties it, and it is full before a `cuInit`
  gets past `pthread_once`.

With these, each safety invariant and action property that a passing run checks but
one, and both refinements, have a theorem, under the assumptions named above. The one
is `OwnFunction`: given `TablesAgree` it is true by definition, so what there is to
say is that the real lists agree, and the run `loader` says it for each name. Only
model-checked is liveness, too: `CallReturns`, `Attaches` and `InitReturns` rest on
fairness, that is on `ENABLED`, which is out of reach of the prover. That a property
fails when an assumption of its theorem does is shown by counterexamples (`threads`,
`attach_early`, `blank`), not by proofs.

## 6. Not modelled

* Weak memory and torn writes: a setter is one step.
* `RNM_init`, `delete_rnode`, `contain`, `free_gmem_cuarr` and the other functions
  that free array records: nothing in the library calls them, so no execution has
  them. There are no tombstones for the same reason.
* The families that are forwarded although they take GPU memory (`cuMemCreate`,
  contexts, modules, streams): the library does nothing about them, so there is no
  state to model beyond `OwnFunction`.
* That memory is in use and no longer counted after the driver refuses a free: the
  step is there (`DriverFreeFails`); nothing in the code promises otherwise, so no
  property is stated.
* What becomes of records when processes share a node or an entry leads astray is in
  the actions of `RNM` and `Hijack`, and has no property, because the code guarantees
  nothing there: a first record goes on counting after its free, since `shallow_delete`
  keeps the bytes and `remove_gmem` the entry; with several processes, the next push of
  another one may claim the slot that the entry names, and a walk of the first then
  compares, resets or frees that record.
* In `Identity`: records, and with them what an `execve`d program, whose records are
  linked behind the old one's and not counted, or a forked child that frees memory does
  to those of its node; pid name spaces.
* In `Sizes`: a `cuDeviceTotalMem` of the driver that fails, which returns before
  anything is computed; the device's alignment, which only adds to `Takes`.
* The vendored CUDA declarations, the text of log lines, `print_rnodes` and
  `print_gmem`, which only read, and the build files.

## 7. Plan

1. `RNM`, `Hijack`, `Attach`, `Entries`, `Loader` with their runs: done.
2. `Identity`, `Sizes`, failing `shmget`, calls that overlap: done.
3. `Ledger`, implemented by `Hijack` under `Hold`: done.
4. Proofs of types, nodes, records under overlap, arithmetic, identity and the key:
   done.
5. Proofs of the chains, the leak of a crash, the limit, the overshoot, the frees, and
   of the refinements of `Ledger` and `Hijack`: done.
6. Left: `NoStaleRecord` with several processes needs another property, one that says
   which record of another process an entry left behind can come to lead to; and
   `ImplementsHijack` for calls that sum the usage, on segments that are known to be
   initialised.
