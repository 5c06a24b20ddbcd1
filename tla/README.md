# Timekeeper plugin: models, checks and proofs

The plugin keeps the clocks of the nodes of a CSP network together.  An operator tells a node, from a
console, to send its time to every address of its routing table: once, or again after every period.  Each
receiver sets its clock and becomes a slave of the sender.  This directory models that in TLA+, with the
packet library and the backends the repository carries, checks it with TLC on small instances and proves the
main invariants with TLAPS.

1. [Inventory](#inventory) – 2. [Modules](#modules) – 3. [Runs](#runs) – 4. [Proofs](#proofs) –
5. [What the code does not keep](#what-the-code-does-not-keep) – 6. [Not modelled](#not-modelled) –
7. [Plan](#plan)

## Inventory

| Component | Source | State | Operations |
|---|---|---|---|
| timekeeper service | `src/svc_tk.c`, `svc_tk.h` | `tk_data` (state, err, sync_mode, frequency, last_sync, last_failed_node, master_node), binary semaphores `tk_start_sem`, `tk_wait_finish_sem` | thread: `timekeeper_init`, `timekeeper_main`, `timekeeper_csp_iterate`, `tk_sync_slaves_req`; for callbacks: `tk_app_get_time`, `tk_app_set_time`, `tk_app_sync_time`, `tk_app_make_slave` |
| packet server | `src/srv/src/server_tk.c` | request and response buffers on the stack of the callback | `server_process_timekeeper_packet`, `tk_set_time`, `tk_get_time`, `tk_sync_time`, `tk_sync_slaves` |
| client and console | `src/cli/src/client_tk.c`, `src/cli/cmd/tk_cmd.c`, `src/common/include/tk_defines.h` | none between commands | `tk set time`, `tk get time`, `tk time sync`: check flags, one transaction, print |
| packet descriptions | `src/common/lpldgen/cmds.txt`, generated `pld_tk_plugin.c/.h` | none | build, parse, test and export each of eight packets; the table `payload_specs` |
| packet library runtime | `payloads.c`, `payloads_pretty_print.c` | the growable string of a print | find a description by kind or by packet, dispatch to it, export as JSON, print |
| in-memory serial backend | `src/lib/sally-backends/com/memcom_backend.c` | 16 pairs of ring buffers | open, close, write, read, available |
| file-system backends | `src/lib/sally-backends/fs/*` | volume, collector thread, three status members | init, mount, unmount, format, wipe, open, close, read, write, seek, ... |
| other backends | `posix_tty_backend.c`, `os/*` | operating-system handles | wrappers of one system call each |
| third-party code | `cJSON.c`, `munit` | – | – |
| external | CSP (transactions, routing table, clock), CMSIS-RTOS2, SALLY framework, `csp_pld_txn`, yaffs, FatFs | – | modelled only as the code uses them |

**How they interact.**  The console builds a `TK_SYNC_TIME_REQ` and waits for one response, at most
`SYNC_TIMEOUT`.  The framework calls `server_process_timekeeper_packet` on a thread of its own.  That callback
writes `tk_data`, releases `tk_start_sem`, and with the WAIT flag blocks on `tk_wait_finish_sem` for at most
`MAX_SYNC_DONE_WAIT`.  The service thread takes `tk_start_sem` or times out after `frequency` ticks, walks the
routing table with one blocking CSP transaction per address, and releases `tk_wait_finish_sem`.  Its requests
arrive in the callbacks of other nodes.  No lock protects `tk_data`.

**What is hard, and what makes each part correct.**

- *Service and server share a struct without a lock.*  Both write `sync_mode` and `last_sync`; every test and
  every write is a separate access.  Right means: the role and the mode end up consistent, and the error the
  status reports is that of the last pass.
- *Two binary semaphores make a rendezvous.*  Tokens are left over by passes nobody waited for.  Right means:
  a waiting request is answered, never by a token older than itself, and also when a semaphore is missing.
- *A period from a client becomes a semaphore timeout* (i64 → long → u64 → u32).  Right means: neither 0
  (spinning) nor `osWaitForever`.
- *Passes go through a network.*  Packets are lost, delayed, reordered; a callback that waits serves no sync
  request; passes of two masters cross.  Right means: a pass ends, an error-free pass reached everybody, and
  one commanded master keeps its role, but for the race of `svc_tk.c:154` ([below](#what-the-code-does-not-keep)).
- *Console and node are timed apart.*  The console's timeout, the server's wait and a held callback race each
  other; the console's flag rules and the node's reading of the flags are separate code.  Right means: each
  printed field is true of the node (`last_failed_node` is not: the node never writes it), and no command takes
  effect twice.
- *Generated code has each number several times.*  Sizes, tests and table entries must agree; request and
  response share their first byte.  Right means: what is built is recognised, parsed and printed as itself.
- *Allocations fail half-way* through an export or a print.  Right means: nothing else is lost than what the
  code shows at once, and the text stays in its buffer.
- *Ring buffers without a lock.*  Right means: each direction is a byte pipe.
- *Volumes come and go* under open files and a collector thread.  Right means: the collector runs under a
  mounted volume, but for a wipe that failed on a volume it could not take off, and what a transfer reported is in
  the file.

`PROJECT.json` lists the hazards with their lines and the properties that would notice them going wrong.

## Modules

### Timekeeper: one node

`Timekeeper.tla` is one node at the grain of single accesses: every read or write of a field of `tk_data`
that another thread also uses, and every semaphore call, is a step.  Steps of the service thread and of any
set `Handlers` of callbacks interleave freely.  The deployment in the repository has one callback thread; the
model allows several since nothing in the service forbids it.

| Code | Model |
|---|---|
| `timekeeper_init` | `InitFields1`, `InitFields2`, `NewStartSem`, `NewFinishSem`, then `StartMain` or `InitFails` |
| `timekeeper_main`, `ST_IDLE` | `Sleep` reads the period, `WakeByStart`/`WakeByTimeout`, `ClearErr`, then `CheckMaster`, `CheckStop`, `CheckSlave` |
| `ST_SYNC_ITERATE_SEND`, `timekeeper_csp_iterate`, `tk_sync_slaves_req` | `IterateSelf`, `IterateSend`, `TxnAnswered`, `TxnFails`, `IterateEnd` |
| `ST_SYNC_DONE` | `DoneCheck`, `DoneUnset`, `DoneRelease` |
| `server_process_timekeeper_packet` | `Receive` (with garbage in the response buffer), `Reply` |
| `tk_set_time`, `tk_get_time` | `SetTime`, `GetTime` |
| `tk_sync_slaves`, `tk_app_make_slave` | `SlaveClock`, `MakeSlave` (three writes) |
| `tk_sync_time`, `tk_app_sync_time` | `SetFrequency`, `SetModes` (three flags), `BecomeMaster`, `DrainToken`/`DrainEmpty`, `ReleaseStart`, `WaitToken`/`WaitTimeout`, `Stamp`, `ReadStatus` (four fields) |

`tk_data.state` and the place in the code are both in `main`: the field is the service thread's own, so the
two never disagree.  `ST_SYNC_ERR` and the default case are unreachable.  `idx` is the position of
`csp_rtable_iterate`, `ticks` the timeout in use.  `seen` and `failed` are history variables: no action reads
them except to keep them up to date.  `seen` says of each callback whether a pass was under way when its request
came in (`"mid"`) and which end of a pass it has witnessed.

Abstractions, and why they hide nothing:

- Accesses are sequentially consistent and atomic.  A 64-bit field could tear on a 32-bit processor; all
  values written to `frequency` and `last_sync` fit in the low word (`long` of the target, `tv_sec`), and on a
  64-bit host, where a long may be wider, the access is a single one.
- Reading the clock and storing what was read (`Stamp`, `MakeSlave`) is one step: a clock that moves between
  the two gives a value some other schedule gives too.
- `sync_mode` is read twice by the condition at `svc_tk.c:154`, as the code says; a build that loads it once
  has a subset of these behaviours.
- Packets that are empty or of unknown command change nothing and are not received.  A packet that does not
  parse never reaches the handlers (`csp_pld_txn`, external).
- A transaction either returns a response or fails; what the other node does is `TkNetwork`.
- `u8`/`u64` payloads are members of small sets.  Widths that matter are constants: `TimeMod` (tv_sec),
  `LongMod` (`long`), `TickMod` (semaphore timeout); the conversions are `ToTime`, `ToLong`, `ToTicks`.

### SyncService: what a node promises

`SyncService.tla` is the service of one node without its threads: a pass (`Wake`, then per address `Call` and
`HangUp` or `Skip`, then `End`) goes to every address of the routing table once and in order and records a
failure; who asks (`Ask`) is told of a pass that ended since (`Told`) or gives up when none did (`GiveUp`).
`KeepsPromise` in `Timekeeper` says that the interleaved accesses of all threads amount to this:

| SyncService | Timekeeper |
|---|---|
| `phase`, `at`, `report` | the place of the service thread (`main`), the addresses it has passed (`idx`), `tk_data.err` |
| `waiting` | the callbacks between the empty drain and the end of `osSemaphoreAcquire`, with WAIT (`Waiting`) |
| `ended` | the token of `tk_wait_finish_sem` |
| `since` | those of `Waiting` that have seen a release |
| `Ask`, `Told`, `GiveUp` | `DrainEmpty`, `WaitToken`, `WaitTimeout` |
| `Forget` | `DrainToken` |
| `Call`, `Skip`, `HangUp`, `End` | `IterateSend`, `IterateSelf`, `TxnAnswered` or `TxnFails`, `DoneRelease` |

`NodesKeepPromise` in `TkNetwork` says the same of every node at the grain of that module.  What a caller is not
promised is that the pass began after it asked: that is the run `wait_mid_pass`.

### TkNetwork: several nodes

`TkNetwork.tla` puts nodes on a network.  A handler is one step here; the inner interleavings are
`Timekeeper`'s.  What remains visible is what takes time: a pass between its transactions (`pass`, `idx`), a
callback held by WAIT (`call`), packets in flight (`net`); and the condition of `svc_tk.c:154`, three reads
(`CheckMaster`, `CheckStop`, `CheckSlave`) between which handlers run, because that is how a slave gets into a
pass.  `raced` records the nodes that were told something between the two reads of `sync_mode`.

A packet carries whether the sender still waits for its transaction (`open`): `csp_transaction` opens a connection
per call, and a response to a closed one is dropped.  `Lose` drops any packet; packets are a set, so they arrive in any order.  Two stale packets that are
equal in all fields merge: the model misses behaviours in which two abandoned requests of the same sender are
both served late by the same node with a command in between.  The properties about `reached` count
open packets only, of which a sender has one at a time, and are not affected.  Clocks are left out.

`Wake` is enabled whenever the node is idle: the period may end at any moment.  A command with STATUS and no
mode changes nothing here and is left out.  `EndWait`, `Check`, `OpenTransaction` and `TakeResponse` are the
common bodies of actions and of the faults described next.

### TkClient: consoles and one node

`TkClient.tla` has consoles that type one command after the other and one node at the grain of `TkNetwork`.
`tk_set_time_req`, `tk_get_time_req` and `tk_time_sync_req` go up to the request (`Submit`) or to the end without
one (`Refuse`: flags that are rejected, a clock that `clock_gettime` cannot read); `SetVerdict`, `GetVerdict` and
`SyncVerdict` are what they print.  `TakeResponse` and `GiveUp` are the two ends of `cmd_lp_generic_txn_addr`.
A command is its number; the clock and `last_sync` hold the number of the command that set them.

The node: the callback runs `ServeSet`, `ServeGet`, `ServeSync` in one step up to the wait, the service thread is
`Wake` with the read of the master, `CheckStop`, `CheckSlave`, `PassFails` and `PassEnds`, which releases
`tk_wait_finish_sem` whatever the mode has become.  A status is read in two steps, `err` first (`ServeStatus` or
`EndWait`) and the rest in `Reply`: the service thread writes `err` and `sync_mode`, so its steps may fall between;
`last_sync` and `master_node` are written by the callback alone, which is the one that reads them.
`last_failed_node` is `"unwritten"`: the node sends whatever its buffer held, the console prints it, and `Claims`,
what the prints are held to, leaves it out.  Other masters make the node a slave (`MadeSlave`).

Time is counted in steps of `TIMEOUT_MS`: a step (`Tick`) happens only when nothing is due, and a packet is
delivered or lost within one step, unless the callback is held.  `SYNC_TIMEOUT` and `MAX_SYNC_DONE_WAIT` are both
10000, the first in milliseconds, the second in kernel ticks, of which `svc_tk.c:69` (108000 in 30 minutes) has 60 a
second: 10 s against 167 s.  So a command that waits for a pass may well outlive its console; the instance has
`MaxWait > SyncTimeout`, and the theorems assume nothing about the two.  `served` counts runs of a handler: a set-time
that the node's clock refused is carried out as well; `took` has those that set it.

### PldPlugin, PldCodec, DynStr, Payloads: packets

`PldPlugin.tla` is data: one definition per generated struct, parse, build, test and JSON function and table
entry, each read from its own lines, so that two numbers that the generator should have written alike are two
numbers here too.  `PldCodec.tla` is what these functions share (bytes to numbers and back, the order of their
checks) and the look-ups of `payloads.c`; also the dispatch of `server_tk.c` on the first byte.  `DynStr.tla`
is the growable string as bookkeeping.  `Payloads.tla` runs one packet through the library: `Build`,
`BuildStatic`; `ParseRecognized`, `ParseAs`, `Serve`; `ToJson`, one `AllocItem` per allocation, `AllocFails`,
`DataStrays`; `PrettyPrint`, `MakeText`, `Push`, `PushFails`, `PrintReturns`; the caller's `Release`.

- `PLD_HAVE_ALLOC` and `PLD_HAVE_EXPORT` are 0 in `conf_payloads.h`; the functions they guard are modelled as
  they are compiled with 1.  `PLD_BUILD_FUNCS_CHECK_ID` is 2 as configured.
- A byte has `Base` values, so a 64-bit field is eight digits; a double is exact up to `Exact` and rounds to
  even above it.
- A piece of text is a token of length 2, layout one of length 1: `TextFits` is about lengths only.
- The caller sets `*output` to NULL before an export.  A failing first allocation otherwise frees garbage
  (`payloads.c:468`).
- `dstr_new` is not tested for NULL: `PrintCrashes`.
- `dstr_new` clears `sizeof(struct dynstr)` bytes (`HeaderSize`) of the buffer whatever its capacity
  (`payloads_pretty_print.c:105`): the history `top` starts there.  A capacity of `STR_MIN_ALLOC` = 16 need not hold
  them; the only caller asks for 256.  That the capacity does is an assumption of `Payloads`
  (`CapacityAssumption`) and a discipline of who calls in `StrNext`.

### MemCom and BytePipe: a pair of serial ports

`MemCom.tla` is one pair of ports; every access to a position or a cell that the other side uses is a step
(`Store`, `AdvanceWrite`, `Load`, `AdvanceRead`), and the calls up to their loops are `Write`, `Read`, `Available`,
`Open`.  One thread writes and one reads per port.  `memcom_read` tests once whether the buffer is empty and then
copies `count` bytes, past the write position if there are fewer: the mirror of the overrun of `memcom_write`.
`Read` has that one test and no other; that readers ask for one byte, or for no more than `memcom_available` told them,
is a discipline of the callers (`Asked`), stated where `Next` calls it.  Everything checked and proved of the ports
is under it.  `memcom_available` of a port that was never opened would divide by a size of zero (line 149); a handle
comes from `memcom_open` only.  `BytePipe.tla` is the promise of one direction: a bounded
FIFO.  `UnderWay` maps the ring to it, and `PortsArePipes` says that both directions implement it.

### FsBackends: three file systems

`FsBackends.tla` is a volume and one file of it, on one of the three backends; the file systems below may
refuse any call.  The backends' own state is the collector thread (`gc`), the three status members, and what a
transfer reports.  `y_unmount` is two steps and `y_wipe` four (`y_wipe`, `Detach`, `Erase`, `WipeEnds`): the collector
is stopped, the volume taken off by force, the chip erased, the volume mounted again.  Any of these may be refused,
the forced unmount too, whose result the code does not look at: then the chip is erased under a mounted volume with
open handles, or the collector stays stopped if erasing fails.  The history `halted` marks the latter.  `y_format` is
one step: yaffs does all of it under its own lock, and the backend does not touch the collector.

### Faults

An operator with the comment "Fault:" is a plausible bug in the definition that follows it.  It is not used by
the specification.  Substituting it shows that the property named in `PROJECT.json` is able to fail.

### Others

`MCTimekeeper`, `MCTkNetwork`, `MCTkClient`, `MCPayloads` and `MCMemCom` hold the values of constants for TLC.
`TimekeeperProofs`, `TkNetworkProofs`, `TkClientProofs`, `MemComProofs`, `MemComRefines`, `FsBackendsProofs`,
`PldCodecProofs` and `PayloadsProofs` hold the theorems.

## Runs

| Run | Instance | Shows |
|---|---|---|
| `node` | 1 callback, 1 peer in the table; the seven things a command of the console can be to a node (of its 13 accepted flag sets those that differ only in STATUS beside a mode are the same, `svc_tk.c:225`) and a bare WAIT of another client; frequencies -1 and 9 (truncated to 1), served during boot | `TypeOK`, `PassErrorAccurate`, `SleepIsBounded`; live: `RequestAnswered`, `ContinuousKeepsSyncing`, `OnceEnds`, `RestingGoesQuiet` |
| `node_two_callbacks` | 2 interchangeable callbacks, the node itself and 1 peer in its table | `WaiterSeesCompletion`, `ActiveIsMaster`, refinement `KeepsPromise` |
| `network` | 2 nodes, one with itself in its table too, 2 commands | `TypeOK`, `CleanPassReachedAll`, `NeverOwnMaster`, `SoleMasterKeepsRole`, refinement `NodesKeepPromise`; live: `PassEnds`, `CallEnds` |
| `console` | 2 consoles, 2 commands: one sets the time, asks the status, starts, and combines START with STOP, which is refused; the other gets the time and waits for a ONCE with STATUS | `TypeOK`, `SuccessMeansServedOnce`, `ShownWasTrue`, `FailsForAReason`, `ObeysOrder`; live: `CommandReturns` |
| `payloads` | 8 packets, 3 values each, 2 peers, every wrong ID, pointer, size and failing allocation | `TypeOK`, `FillsItsBuffer`, `RecognizedAsBuilt`, `ServedAsBuilt`, `PrintedAsBuilt`, `LosesNothingElse`, `TextFits` |
| `memcom` | rings of 3 cells, 2 byte values one way, 1 the other, written singly and read singly or as many as were told | `TypeOK`, `StoresIntoRoom`, `AvailableStaysTrue`, refinement `PortsArePipes` |
| `files` | 3 backends, a file of 3 bytes | `TypeOK`, `MountedIsCollected`, `ReportedIsThere` |
| `wait_mid_pass`, `start_cancelled`, `two_masters`, `set_time_unchecked`, `memcom_overrun` | the smallest instances that do it | each a promise the code does not keep, see below |

**Bounds.**  `LongMod = TickMod = 8` has every case of the conversions: negative, zero, positive, truncated,
`osWaitForever` = 7; `DefFrequency = 5` is one of the values between.  `TimeMod` is 1: no property adds up time.
Requests are not limited in number: `Timekeeper` has no bound on the length of a behaviour.  `Garbage = {7}` is
a value no address has.  The own address is not in the table of `node`; it is in that of `node_two_callbacks`, and
the theorems hold for any table.  Two callbacks are the fewest that can steal each other's token.  In `TkNetwork`,
`MaxCommands` bounds the commands of operators: each command can at most start one pass out of turn, periodic
passes are free, and two commands are what crossing passes and crossing waits need; three nodes and longer
tables are left to the theorems, which hold for any number.  In `TkClient`, two commands are what a late answer
or a held callback needs; `TxnTimeout = 1 < SyncTimeout = 2 < MaxWait = 3` is the order of the three timeouts in seconds.
In `Payloads`, `Base = 4` is the least in which the four commands are different bytes; the values are the least
and the greatest of each field and one where all fields differ; `Exact = 4096` makes every 64-bit extreme inexact
and the small values exact; `Capacity = 6`, `MinAlloc = 3` make the
string grow several times, and `HeaderSize = 5` is what 256 bytes hold and `MinAlloc` may not.  A ring of 3
cells is empty, half full and full, and wraps.  `SizeMod = 8` makes a negative result visible as a size.

**Fairness.**  In `Timekeeper`, the service thread and each callback have weak fairness: every RTOS thread of
normal priority is scheduled, `osSemaphoreAcquire` with a finite timeout returns, a CSP transaction returns
after 1000 ticks at most.  `WakeByTimeout` is part of the thread's fairness because the period passes.  Arriving
requests, `Tick` and packet deliveries have none.  The drain loop of `tk_app_sync_time` has strong fairness of
its exit: between two tokens there is a whole pass, which needs a token of `tk_start_sem` or at least one tick
of timeout, and the loop's next acquire is a single call, so it finds the semaphore empty.  Weak fairness alone
would admit a schedule where every look at the semaphore falls right after a release.  In `TkClient`, one
weak fairness says that a console gives up or takes its response, the callback goes on, or time passes: consoles and
callback are scheduled threads.  What the network and the service thread do has none.
The other modules have no liveness: their functions are loops over counted bytes
and fields, and who calls them is outside.

**Deadlock** checking is on in every run but says little where the clock ticks or an idle node may wake.  That
nobody waits for good is what `RequestAnswered`, `PassEnds`, `CallEnds` and `CommandReturns` say.

## Proofs

| Module | Theorem | States |
|---|---|---|
| `TimekeeperProofs` | `TypeCorrect` | `Spec => []TypeOK` |
| | `SleepBounded` | `Spec => []SleepIsBounded` |
| | `ActiveMastersItself` | `Spec => []ActiveIsMaster` |
| | `PassErrorRight` | `Spec => []PassErrorAccurate` |
| | `WaiterSeesItsPass` | `Spec => []WaiterSeesCompletion` |
| | `NodeKeepsPromise` | `Spec => KeepsPromise`: the threads implement `SyncService` |
| `TkNetworkProofs` | `NetworkTypeCorrect` | `Spec => []TypeOK` |
| | `CleanPassComplete` | `Spec => []CleanPassReachedAll` |
| | `NoOwnMaster` | `Spec => []NeverOwnMaster` |
| | `SoleMasterStays` | `Spec => []SoleMasterKeepsRole` |
| | `EveryNodeKeepsPromise` | `Spec => NodesKeepPromise`: each node implements `SyncService` |
| `MemComProofs` | `PositionsInRange`, `NoOverrun`, `AvailableIsKept` | with single bytes and reads of one byte or of what was told, `Spec => []TypeOK`, `[]StoresIntoRoom`, `[]AvailableStaysTrue` |
| `MemComRefines` | `PortsImplementPipes` | likewise, `Spec => PortsArePipes`: the ring buffers implement `BytePipe` |
| `TkClientProofs` | `TypeCorrect` | `Spec => []TypeOK` |
| | `SuccessIsService` | `Spec => []SuccessMeansServedOnce` |
| | `PrintsTheTruth` | `Spec => []ShownWasTrue` |
| | `FailureHasAReason` | `Spec => []FailsForAReason` |
| | `NodeObeysOrder` | `Spec => ObeysOrder`, an action property |
| `FsBackendsProofs` | `FileTypeCorrect`, `MountedCollected`, `ReportedThere` | `Spec => []TypeOK`, `[]MountedIsCollected`, `[]ReportedIsThere` |
| `PldCodecProofs` | `BuildFills`, `ParsesBack`, `ParsesInType`, `Recognition` | what the functions of a kind compute, for all data or all bytes |
| `PayloadsProofs` | `StringFits` | `StrSpec => []TextFits`: the string alone, from a capacity that holds a `struct dynstr` |
| | `PrintedTextFits` | `Spec => []TextFits` |
| | `LittleIsLost` | `Spec => []LosesNothingElse` |
| | `BuildsFill`, `RecognizedRight`, `ServedRight` | `Spec => []FillsItsBuffer`, `[]RecognizedAsBuilt`, `[]ServedAsBuilt` |
| | `PayloadsTypeCorrect` | `Spec => []TypeOK` |
| | `PrintedRight` | `Spec => []PrintedAsBuilt` |

**Timekeeper**, for any set of callbacks, any routing table, any inputs.  Assumptions: addresses are natural
numbers with 0 among them, the routing table is a sequence of addresses, `LongMod <= TickMod` (a `long` is no
wider than the tick counter, as on the 32-bit target) and `DefFrequency` is a proper timeout.  Without
`LongMod <= TickMod`, as on a 64-bit host, `SleepIsBounded` is false: 2^32 becomes 0 ticks and 2^32 - 1 waits for
ever.  The argument, once types are known (`TypeMain`, `TypeCall`, `TypeTick`; `MainFrame` and `CallFrame` say
what the steps of one thread leave alone):

- `SleepInv` adds that `frequency` itself is a proper timeout as soon as `timekeeper_init` has stored the
  default.  `LongIsProper` shows that a positive long is one; a frequency that is not positive is not stored.
- `ActiveIsMaster` is inductive as it stands: its exception names exactly the program points between the two
  writes, for `tk_app_sync_time` (mode first, then master) and for `tk_app_make_slave` (master first, then mode).
- `ErrInv` extends `PassErrorAccurate` to all of the pass and to the checks before it, where `ClearErr` has
  made the record clean.
- `WaitInv` says why the drain is enough: from the empty drain on, a token in the semaphore was put there by
  a release this callback has seen.  Other callbacks only take tokens.
- `NodeKeepsPromise` needs `PromiseInv`: past the start of the service thread there is a semaphore for those who
  wait, and only a callback that was asked to waits.  With `ErrInv` and `WaitInv`, `MainKeeps` and `CallKeeps` show for
  every action which step of `SyncService` it is, or that it is none; `MainHeard` says that nothing but the
  end of a pass is heard by those who wait.

**TkNetwork**, for any set of nodes, any routing tables, any commands.  None of the properties is inductive
alone: a pass is clean because of what is in the network.  The strengthening says that only nodes that were commanded
or raced (`Masters`) have a pass or packets, and only commanded ones an active mode (`ActiveWasCommanded`,
`PacketsOfMasters`), that a pass not yet begun is at the first address (`StartsClean`), that a node waits for at most
one transaction and only in a pass (`OneOpenTransaction`), and that a response somebody waits for comes from a node
that has served his request of this pass (`ResponsesWereServed`).  `EveryNodeKeepsPromise` goes action by action: those of
a node are steps of its promise (`CallbackKeeps`, `ServiceKeeps`), those of the others are not seen in it
(`OthersRest`).

**MemCom**, for any size of the rings and any bytes, under two assumptions on who calls.  Bytes are written singly
(`WriteCounts = {1}`): with longer writes `StoresIntoRoom` is false (run `memcom_overrun`).  And no more than one byte
or what `memcom_available` told is read (`Asked`, in `Next`): `memcom_read` itself would run past the write position.
`Distance`, `OneMore` and `OneLess` are the arithmetic of the
ring; the invariant adds that a writing call has one byte left and a reading call one to read.
`PortsImplementPipes` adds that a byte is in its cell before it is counted (`StoredFirst`), and goes by what is
under way as a sequence (`Bytes`): counting a byte puts it in (`AdvancePuts`), copying it takes it out
(`LoadTakes`), opening the port empties the pipe, and everything else leaves it alone, storing too, because the
cell written is not among those under way (`UpToWrite`).

**TkClient**, for any consoles, any commands, any bound on their number and any timeouts.  Assumption: only a sync
has flags.  Apart from `TypeOK` none of the properties is inductive alone.  `SuccessMeansServedOnce` needs that a request
in the network is the one its console sent and has not been served, and that a response and a held callback belong to
a command served once (`RequestsWereSent`, `ServedWhenGone`).  `ShownWasTrue` needs that each field of the node, of a
response under way and of what the callback has read of `err` was true since the command was typed (`AnswersAreTrue`);
`Recorded` is what a step that changes a field adds to that record.  `FailsForAReason` needs where a command without
an excuse is (`InTime`): its request still in the network with the whole timeout left, or the callback working on it,
held no longer than its console has waited, or the answer there before the next step of time.  A
callback that waits for as long as `SYNC_TIMEOUT` is an excuse (`WaitIsLong`).  `NodeKeeps` collects what the steps of the
node have in common, which leave the consoles alone.  `ObeysOrder` follows from the flags: `AcceptedHasOne` and
`ModeIsAsked` compare the console's rules with the node's reading of them.

**FsBackends**, for any largest file and any modulus of `size_t` beyond it.  Two facts make the three properties
inductive: a mounted yaffs volume, and one being wiped, has its device, and an open file of it is on a mounted
volume (`MountedHasDevice`); while a call of several steps is under way the collector stands still (`CallStopsGc`).

**PldCodec**, for every even base above 3 (the first bytes of the commands are 0 to 3) and all data.  Writing and
reading are folds over the fields.  Here the induction that a fold needs is done in first-order steps: the set of those
numbers up to which a claim holds has 0 and with each number the next, so it has all (`UpFromZero`, from the
well-foundedness of the naturals); `FoldExists` and `FoldUnrolls` turn a fold into the list of its
intermediate values.  `BytesBack` is positional notation: the digits of a number are the number modulo the power;
`ValueBack` adds the sign.  `PacketLayout` says at which place each field stands, `ReadsEach` that it is
read from there, `RoundTrip` joins them for any list of fields with different names.  That the eight structs,
parse and build functions and table entries agree is checked one by one (`KindsAgree`, `FieldsFill`).
`KindsDiffer` is why recognition is right: no two kinds have size and first byte in common.

**DynStr, Payloads.**  `StrInv` (write pointer and remaining room add up to the capacity, the end of what was
written is inside) is inductive for the string alone, which starts with a capacity that holds a `struct dynstr`
(`HeaderSize <= Capacity` in `Payloads`, 256 in the code); for `Payloads`, `StringSteps` shows that each step of a
print is a step of the string or leaves it alone, and that there is a string only while printing.  `MemInv` adds to
`LosesNothingElse` that builder and buffer live only while printing, and that a failed export has given back its
items.  `CodecInv` says that what is on its way is what was built, with an address that fits its kind whoever the
peer is; the theorems of `PldCodecProofs` do the rest.  Assumption: the data sent are values of their C types.

`PrintedRight` goes from the struct that was built to the text.  `PrintedAsBuilt` is about the last state only, so the
inductive invariant `PrintInv` says how far an export and a print have come: what hangs on the object is a front part
of `Items` and what is left to do is the rest (`Exporting`, `Exported`); what the text shows is what a front part of
`Tokens` shows and the rest is left, or the print has fallen back to raw JSON (`Printing`, `PrintedAll`).  What `Items`
and `Tokens` hold is a matter of lemmas: `OfConcat` and `OfGlued` pick the entries of a kind out of sequences put
together from blocks, `ItemsOf` finds the members' values in an export of any style, `TokensOf` a name and a value for
each of them in a print, whatever the style, also where the members of the bare style are printed from the object
itself.  `ShowsItsMembers` compares the eight JSON functions with the eight structs.  `DoubleNear` is the rounding: a
value of eight bytes has a step, a power of two, at which it is at most `Exact` steps long (`StepExists`), and the
multiple that is shown is at most half a step away.  `ExactAssumption` asks for that: doubles are exact up to a positive
`Exact` and eight bytes are at most 2^11 times as large, as with 53 of 64 bits.

A pragma in a proof (`SMTT`, `ZenonT`) gives a leaf the time it needs on a slow machine.

**Only model-checked:** all liveness (`RequestAnswered`, `ContinuousKeepsSyncing`, `OnceEnds`, `RestingGoesQuiet`,
`PassEnds`, `CallEnds`, `CommandReturns`), which needs fairness and ENABLED.  Every invariant, action property and
refinement of the passing runs is a theorem, under the assumptions named above.

## What the code does not keep

Each of these is a run with expectation "violation", against a sentence of the repository:

- `wait_mid_pass`: WAIT is answered by the end of a pass that was under way when the command came in and had sent
  its requests before (`svc_tk.c:256`).
- `start_cancelled`: the test for ONCE and the write of STOP are two accesses; a START in between is lost
  (`svc_tk.c:164-165`).
- `two_masters`: two nodes told to sync continuously make slaves of each other, and none is left to sync
  (`svc_tk.c:281`).
- `set_time_unchecked`: the console prints "Time successfully set." whatever the node answered (`tk_cmd.c:105`).
- `memcom_overrun`: a write of several bytes is tested for room once and overwrites unread bytes
  (`memcom_backend.c:95`).

Met while modelling and in the models as the code has it, without a run of their own:

- A slave that is told STOP between the two reads of its mode is neither stopped nor a slave for the test, starts a
  pass and takes the role from its master (`svc_tk.c:154`), though the console says "Stop time syncing on node."
  (`tk_cmd.c:181`).  `SoleMasterKeepsRole` names this as its exception (`raced`).
- A pass goes on to its next address after a STOP was answered (`svc_tk.c:159`).
- A sync request that arrives after its sender gave up still changes the role (`server_tk.c:118`).
- The status response never gets its `last_failed_node` (`svc_tk.c:226`, `:264`); the console prints the byte
  (`tk_cmd.c:269`).
- The wait for a pass (`MAX_SYNC_DONE_WAIT`, in ticks) may last longer than its console waits (`SYNC_TIMEOUT`, in
  milliseconds), which then reports a failure of what is carried out.
- `memcom_read` tests once for an empty buffer and copies past the write position (`memcom_backend.c:122-131`).
- `dstr_new` clears a whole `struct dynstr` in a buffer that may have 16 bytes (`payloads_pretty_print.c:105`).
- `last_sync` moves with commands that synchronised nothing, and not with periodic passes (`svc_tk.c:262`).
- A slave that answers that its clock was not set counts as synchronised (`svc_tk.c:139`).
- The console cuts the node number to eight bits (`tk_cmd.c:195`).
- A failing export frees `*output` before it was set (`payloads.c:468`); a data object whose key cannot be copied
  strays and OK is returned (`payloads.c:440`); a text whose push fails is not freed (`payloads_pretty_print.c:462`).
  The header says of `pld_..._build` that `len` may be NULL; the code returns `PLD_ERR_BAD_ARGS`.
- `ff_format` never mounts the volume it made: `FATFS_CHECK_RET` returns in either case (`fatfs_backend.c:308`).
  `y_wipe` does not look at a refused unmount (`yaffs_backend.c:262-271`): if erasing fails, a mounted volume is left
  without its collector, and if it succeeds, the chip is blank under a mounted volume and its open files.  A
  `y_wipe` that fails leaves the collector stopped in any case; before `y_init` it reads through NULL
  (`yaffs_backend.c:262`).
  `posix_eof` and `posix_size` move the position (`:183-194`), `posix_lseek` returns the offset where zero means
  success (`:154`), `posix_opendir` keeps its result in its own parameter (`:158`).

## Not modelled

- `posix_tty_backend.c`, `os/*`: one system call per function, no state of their own, not used by the
  timekeeper, which calls CMSIS directly.
- `cJSON`, `munit`: third-party.  `Payloads` has what the export and the print ask of cJSON.
- In the packet library: lists of several modules, nested structs, arrays, bit-fields and units, which none of
  the eight packets has; the wording and the colours of the print.
- In the file-system backends: calls that hand a path on and keep nothing (stat, unlink, mkdir, rmdir, rename,
  chmod, directories).
- Registration of commands and version strings of `tk_cmd.c`; the commented-out `app_init_timekeeper`.

## Plan

Done: all modules of the inventory that are to be modelled, theorems for every safety property of the passing runs,
and the refinements `MemCom` to `BytePipe`, `Timekeeper` and `TkNetwork` to `SyncService`.
What would come next:

1. The map from `Timekeeper` to one node of `TkNetwork`: the coarse handlers are justified above in words only,
   and by both modules implementing `SyncService`.
2. Lists of several packet modules and nested structs, as soon as a packet has one.
