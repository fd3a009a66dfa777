# Verification of hakoniwa-core-pro

TLA+ models, TLC runs and TLAPS proofs for hakoniwa-core-pro, the extension of
the Hakoniwa simulation hub that adds data-receive events, request/response
services, a conductor, callback and polling APIs with Python bindings, a command
line and a launcher to hakoniwa-core-cpp. Paths are relative to the repository
root, `core/` stands for `sources/core/src/`. Line numbers of every definition
are in `PROJECT.json` under `map`.

## 1. Inventory

Several processes (assets, service servers and clients, one conductor) attach
to shared memory. hakoniwa-core-cpp (a submodule, not in this tree) keeps the
simulation state machine, the clock and the PDU channels with their locks;
hakoniwa-core-pro adds two tables and a generation counter next to them and
hooks into `write_pdu`, start and reset. The launcher starts the processes, and
`hako-cmd` steers the simulation and cleans up after it.

| Component | State | Operations | What is hard | What makes it correct |
|---|---|---|---|---|
| Data receive events (`core/hako_pro_data_recv_event.cpp`, hooks in `hako_pro_data.cpp`) | table of entries (process, channel, `recv_flag`, `pending_flag`), `entry_num`, spin lock `atomic_is_busy` | register, take over, gate, consume, call back; before-write and after-write hooks; `clear_run_flags` | three different locks guard the same fields, searches run without any | no id is given twice, the table never overflows, no event survives a start, a writer is not refused for ever |
| Service RPC protocol (`core/service/hako_service_protocol_{server,client}.cpp`, `hako_service_impl_*`) | server: one state per client, current client, generations; client: state, generation | poll, reply, cancel, request | check-then-act across processes, objects that live through restarts of the simulation | a call is executed at most once and answered with its own result; nothing crosses a run; a call ends |
| Service table (`core/service/hako_pro_data_service.cpp`, first half) | entries with name, lock, `nextClientId` and client slots; a name index in each process | `set_service_data`, `create_service`, `create_service_client` | rebuild without a lock, processes that die and come back | a slot and its receive event have one living owner; handles stay valid |
| Service data path (the same file, second half) | request and response channels | get/put of requests and responses | flag and PDU are read in separate sections | an answer belongs to its call |
| Service polling API (`sources/assets/polling/src/hako_asset_service_*.cpp`) | handles | guard "only while Running", forwarding | the guard is a read, not a lock | errors and answers are told apart |
| Pro data life cycle (`core/hako_pro_data.cpp`, `core/hako_pro.cpp`) | shared memory, generation, pointers of the process | create, load, reset, destroy, controllers | order of publication, allocation before load | old state is cleared before the run starts; no null pointer is followed |
| Simulation cycle of callback assets (`sources/assets/callback/src`) | `current_usec`, `target_time_usec`, the event it waits for | start, event waits, step, usleep, feedback | stop and reset in the middle of a wait or step | no step between runs, times stay together, events are answered |
| Polling asset API (`sources/assets/polling/src/hako_capi.cpp`, loop in `examples/service_polling/asset_loop.hpp`) | three pointers; the loop's local time | event, feedback, time, trigger | failures return defaults | the same, seen from a polling loop |
| Asset process (`hako_asset.cpp`, `hako_asset_impl.cpp`, `hako_pro.cpp`) | `hako_asset_instance`, controllers | register, attach, external use | partial failure of attach and register | initialized means usable; the master lock is released |
| Conductor (`sources/conductor/src`) | `hako_conductor`, `cmd_stop`, a thread | start, loop, stop | the thread clears the pointer others test | one thread at most; stop returns |
| Runtime error (`core/hako_runtime_error*`) | one status per thread | clear, capture | one status for all APIs | a status is that of the last call |
| Python bindings (`sources/assets/bindings/python/src/hako_asset_python.cpp`) | four callback slots with references | every method; callbacks | reference counts by hand | hakopy owns what it can call; raises exactly for a failure of the core |
| Command line and recovery (`sources/command/src`) | files and pids | probe, attach, wait, check, recover | partial failure, pid reuse, locks without owner | a live session loses nothing; the report is true; a command ends |
| Launcher (`launcher/hako_launch`) | `state`, `_stop_watch`, processes | sort, activate, cmd, terminate, watch, abort | main and watch threads share all of it without a lock | order of start and stop; loss of one stops all |
| RPC and MCP front ends, meta dump, measurement, `tools/hako.py` | little or none | – | – | – |

How they meet: a client's request is a `write_pdu` on its request channel, which
raises the flag of the server's entry; the server consumes the flag, reads the
PDU and answers on the response channel in the same way. The conductor's start
raises the generation and clears all flags; the protocol objects notice the new
generation at their next call. The master posts start, stop and reset to every
asset and goes on when all have given their feedback; assets tell it their time
and wait for the world time. The application does this in the thread in which
it polls its services.

The hazards of this code, each at its line and with the properties that guard
against it, are listed in `PROJECT.json` under `hazards`.

## 2. Modules

| Module | Role |
|---|---|
| `RecvEvent` | the receive-event table with its locks, both write hooks and `clear_run_flags` |
| `RpcContract` | what the service API promises a client, seen from outside |
| `ServiceRpc` | server, clients and application of one service over the channels, with starts, stops and resets |
| `Heartbeat` | the timeout test of a service call, with its integers at their width |
| `SlotRegistry` | what the service table promises: a name owns one slot of a service until the session ends |
| `ServiceTable` | the service table in shared memory and the processes that create services and clients |
| `Simulation` | the master with callback, manual timing and polling assets |
| `AssetProcess` | one process around the core library: instance, controllers, conductor thread, error status, Python bindings |
| `Recovery` | `hako-cmd` and `hako-cmd recover` beside processes that run and die |
| `Launcher` | `LauncherService`, `HakoMonitor`, the sort of the launch file and the modes of `main` (immediate, `--no-watch`, serve) |
| `MC…` | instances for TLC of the module of that name |
| `…Proofs` | theorems about the module of that name |

The modules meet where one's result is the other's assumption: `ServiceTable`
establishes one living receive event for each response channel (`OneLiveOwner`),
which is why one flag per channel is enough in `ServiceRpc`; `RecvEvent`
establishes that no event survives a start (`NoEventOfPreviousRun`), which is
`ClearFlag` there; `Simulation` establishes that every event is answered and that
nothing is in the middle of a step while the simulation is stopped
(`QuietBetweenRuns`), which `Stopped` and `Acknowledged` of `ServiceRpc` rely on.

### RecvEvent

`entries`, `entry_num` and `table_lock` are `HakoRecvEventTableType`; `table_lock`
also names the holder. An entry with `chan = NoChan` is one with `enabled` false.
`pc`, `arg` and `alloc` are the local state of a process inside a call, `wphase`
and `wchan` that of a thread inside `write_pdu`, `clear_at` the loop index of
`clear_run_flags`. History are `run` (clears begun), `known` (the entries there were
when the last one began), `wrun` (the `run` in which a write took its lock),
`raised_in` (the `wrun` of the write that last raised a flag) and `grants`.

One action is one critical section or one unlocked search:

- `register_data_recv_event` is `RegisterCheck` (capacity, no lock),
  `RegisterAlloc` (lock, capacity again, index) and `RegisterFill` (fields,
  `entry_num++`, unlock).
- `update_data_recv_event` is `UpdateFind` (search, no lock) and `UpdateApply`
  (one entry under the table lock, but not under the channel lock).
- `get_recv_event` is `GetRecvEvent` (search) and `Consume` (under the channel's
  read lock); `CallRecvEventCallback` is one turn of the loop that calls back.
- `SetPending` is both forms of `set_recv_event_pending`.
- `write_pdu` is `WriteBegin` (write lock and `on_pdu_data_before_write`) and
  `WriteEnd` (`on_pdu_data_write`, unlock); a refused write leaves the writer in
  "want", the retry of the callers in this repository. `Produce` is the
  application.
- `clear_run_flags` is `ClearBegin`, `ClearEntry` (one entry, which waits for a
  writer of its channel), `ClearEnd`. `NoEventOfPreviousRun` rests on that wait: a
  write that has its channel lock when the loop passes would raise a flag of the
  old run behind it. A flag raised by a write begun after the clear counts as one
  of the new run; entries registered beside the loop are not its matter.

A process makes one call at a time, registers an ordinary channel once, and a
response channel has one entry that a returning client takes over
(`create_service_client` holds the service entry's lock while it decides).

### ServiceRpc

`req` and `rsp` are the channels: the PDU last written and its flag. That one
flag per channel is enough here follows from the registrations: one server entry
for each request channel, one client entry for each response channel. `srvState`,
`cur`, `srvGen`, `reqGen` are `state_`, `current_client_id_`, `run_generation_`,
`request_generation_` of the server; `cliState`, `cliGen` those of the client.
`poll` and `cliPoll` are local variables of a poll between the consumption of
the flag and the read of the PDU; `out` is a response between its construction,
the check of `reply_to_current_request` and its write; `work` is what the
application is busy with. `call`, `answer` and `execs` name the messages and
count acceptances for the properties; `call` takes the place of `request_id`,
which no code compares.

What a step is: one access to a channel under its lock, together with the
accesses to the process's own variables around it. This is sound because
nothing else reads those variables: the protocol objects are private to their
process, and the documentation of `examples/service_polling` has one thread use
them. Two accesses are finer on purpose: flag and PDU (two lock sections in
`get_request` and `get_response`), and the generation check and the write of a
response.

The environment is hakoniwa-core-cpp as this repository uses it: `Start`
publishes Runnable, and `on_pdu_data_create` raises the generation and begins to
clear the flags; `Acknowledged` takes the simulation to Running (or, after a
reset, to Stopped) when the clearing is done; `Stopped` comes when the assets
have acknowledged, which `asset_loop.hpp` does from the polling thread, so never
inside a poll or a reply. `ClientPoll` of an asset is confined to Running, as its
loop is; the code has no such test, and neither has `CancelRequest`, which is
possible whenever the client is DOING. Generations count up without wrapping: the code's
32-bit counter is compared for equality only, so a wrap would need 2^32 starts
between two calls of one object.

`Usage` says what the applications do beyond the documented pattern:

- `{}`: requests only from IDLE, no cancel, no progress reports, work dropped at
  the stop (the rules of `examples/service_polling/README.md`);
- `"cancel"`: `cancel_request` at any time the API accepts it (a timeout returned
  by poll changes no state of the client, so it needs no action: what follows it
  in the examples is the cancel);
- `"retry"`: another request while the last one is unanswered;
- `"progress"`: `poll_interval_msec > 0`;
- `"late"`: responses come from a worker that survives a stop, as
  `polling_asset_server --late-reply` plays it;
- `"unregistered"`: the clients are no assets, which the table "When each API may be
  called" allows. A stop does not wait for them, so a call is three steps
  (`CallEnter` the Running test, `CallReset`, `CallSend` the write), and a poll may
  be late as well. For an asset the three steps are one, `CallRequest`: what happens
  between them is at most a stop, which changes nothing they read.

### RpcContract

Seen by the clients, a call belongs to the run it is made in, is executed at
most once, is answered only after that and with its own number, and is abandoned
when a new run begins. `ServiceRpc` implements it with the mapping `Contract`:
a client waits when its state is not IDLE, and `executed` counts how often the
server has accepted its last call, so that a second execution is a step the
contract does not have.

### Heartbeat

`IsHeartbeatTimeout` is `is_heartbeat_timeout`, `ToInt` the conversion of a world
time to the `int heartbeat_confirmed_time_`, and `Late` what the test is meant to
say. It has no state; `ServiceRpc` does not use it.

### ServiceTable and SlotRegistry

`num` and `entries` are `HakoServiceTableType` (`entry_num`; name, `nextClientId`,
`atomic_is_busy` and the client names of an entry), `index` is each process's
`service_name_to_id_`. `at`, `id`, `k` and `retried` are the local state of a
process inside `create_service` or `create_service_client`. `events` lists the
receive events; registering one is one step, since `RecvEvent` has its races.
`owner` in an event becomes `NoProc` when the process dies: the pid stays in the
code's table, but no living process has it.

- `Begin` loads the tables and builds the index, `Check` decides whether the
  table is rebuilt, `SetNum`, `SetEntry`, `SetDone` are `set_service_data`, which
  takes no lock and writes the count first.
- `CheckFull` and `Lookup` are the rest of `create_service` up to the id, with its
  second rebuild when the name is missing; `Register` is one request event.
- `Lock`, `Search`, `TakeOver` or `Claim` and `Assign` are
  `create_service_client` inside the entry's spin lock, every early return
  included.
- `Die` may come at any of these; `NewSession` is the next conductor.

`Mode = {}` is the orderly launch of the documentation: while one process
rebuilds the table nobody else creates, and no process dies in the rebuild.
`{"together"}` and `{"torn"}` drop these two rules.

`SlotRegistry` is the promise: a name gets one slot of its service, a slot belongs
to one name, neither changes before the next session. `ServiceTable` implements
it with `owner <- OwnerOfSlot`, read off the entries; crashes, returns, takeovers
and rebuilds are stutters.

### Simulation

`sim`, `world`, `event`, `ack`, `registered`, `synced`, `reported` are the master's
state as the assets see it through hakoniwa-core-cpp: the state machine, the
world time, the event posted for each asset, the feedback and
`notify_write_pdu_done` bits, and the time each asset has told. `at` is where the
asset's thread is, `doing` the event it has taken, `cur` and `target` are
`current_usec` and `target_time_usec`. `run` and `base` (the world time a run
started from) are history. Time counts in units of the master's delta.

- Callback assets: `Register`, `StartCall` (with the refusal of a transition),
  `GetEvent` and `CallbackFeedback` (`hako_asset_impl_wait_event`), `WaitRunning`,
  then `Notify`, `Check`, `DoStep` or `Recheck` (`hako_asset_impl_step` and the
  loop), `Usleep` (manual timing), `ForceStop` and `StartEnds`.
- Polling assets: `PollRegister`, `GetEvent` and `PollFeedback`, `PollRunning`,
  `PollAdvance`, `PollEnds`, over the calls of `hako_capi.cpp`, which with
  `"failing"` may answer with their default.
- Master and operator: `TriggerStart`, `TriggerStop`, `TriggerReset`,
  `Acknowledged`, `Advance`.

`Use` adds starts without a reset, an operator who triggers as soon as he can or
stops before every asset has seen Running, forced stops, and failing calls.

### AssetProcess

`core` are the five pointers of `hako_pro.cpp` (`data = "fresh"` is a
`master_data_ptr` that was allocated but never loaded), `inst` is
`hako_asset_instance`, `capi` the three pointers of `hako_capi.cpp`, `conductor`
its pointer, `cmd_stop` and the threads it has, `status` the thread-local error
status, `py` the callback slots of hakopy, its references, which wrappers it
passes on, and the interrupt flag. `last` is the answer of the last call: what it
threw and what Python got.

`section` is where a registration is under the master lock and whether this
process holds that lock; `section.kept` is history: an exception came inside.

Calls are one step each, except `hako_conductor_stop` (`ConductorStop`,
`ConductorStopped`), `hako_asset_start` (`Start`, `Callback`, …,
`StartReturns`), and registration, whose part under the master lock is stepped:
`RegisterInSession` up to `asset_register_polling`, `RegisterLock`, then the loop
over the channels with its three ends, `ChannelRefused` (a channel cannot be
made), `ChannelThrows` (the core throws, past both unlocks) and `ChannelsMade`.
What this process does meanwhile is nothing (its call has not returned); the
exception leaves the lock taken, and a later registration of the same process
then meets a fault or waits for ever, since the lock is not recursive. The methods of hakopy fall into few kinds by what they make of
an answer (`Convert`), so `PduMethods`, `ServerAnswerMethods` and the like stand
for many methods each. `Use` adds a second attach after no master was found, a
system that refuses threads, and asking for a request that is not there.

### Recovery

`files`, `odd`, `image`, `recorded`, `owner` are what lies on the disk: known files,
those that are no regular files, what the master memory can be read as, the pids
in it, and the owner written in `flock.bin`. `live` are the running processes.
`rec` is `hako-cmd recover` between its steps `RecoverList`, `RecoverLock`,
`ReadPids`, `ProbePid` (one pid), `RemoveFile` (one file), `RemoveDone`, `Report`; `cmd`
is another `hako-cmd` between `CmdProbe`, `CmdAttach` and the end of its wait
(`CmdWork`, `CmdTimeout`, `CmdSignal`), or `CmdCheck`. A probe is nondeterministic as
`kill(pid, 0)` is: a live process may be uncertain, a dead pid may be reused.
Reading may fail too: `RecoverList` and `CmdProbe` may refuse whatever is there,
and `ReadPids` either refuses an existing master memory, or cannot open it and
goes on without a pid, as `read_runtime_pids` does (`runtime_recovery.cpp:36-38`).
`blind` remembers the second: it is the one way in which a live session loses its
files (section 4), and `LiveKeepsFiles` says that it is the only one.
Processes take the lock and die at any moment, but none starts while recover is
at work, as README.md:129-142 asks.

### Launcher

`queue` and `order` are the sort of the launch file, `state`, `stop` and `mon` are
`LauncherService.state`, `_stop_watch` and its monitor, `procs`, `alive` and
`aborted` belong to each `HakoMonitor`. `pc` is where the main thread and the
watch thread of each monitor are; `of` and `idx` say which monitor a thread is
aborting and how far it has come.

`SortStep` and `SortDone` are the sort; `Activate`, `Spawn`, `Stable`,
`StartFailed`, `SpawnRaises`, `StartedAll`, `StartWatch`, `SetActivated` are activation;
`Cmd`, `CmdDone`, `CmdRaises`, `CmdRefused` the commands, `TerminateCommand`, `Quit`,
`QuitTerminates`, `SetTerminated` termination; `AbortThen` begins
`HakoMonitor.abort`, `AbortStep` stops one process, `AbortDone` ends it;
`WatchLoop` (a look at the processes), `WatchAborts` (the current monitor, read
again), `WatchSet` are the watch thread; `Interrupt` is the SIGINT handler,
which runs on top of whatever main was doing. `Use` adds SIGINT and the end of
standard input, commands that cannot be started, a missing `hako-cmd`, and an
activation while the watch thread is about to abort or aborting. The mode
"unwatched" is the immediate mode with `--no-watch`: main ends after the start
command, whatever is left running.

Two steps are coarser than the code. `Spawn` is the test of `_aborted`, `Popen` and
the append to `procs` (`hako_monitor.py:56-75`): until `StartWatch` nobody but main
aborts a monitor, unless an activation is "hasty", and Ctrl-C in between leaves
the same processes behind as anywhere else in an activation (*`NoOrphans`*). And
the except branch of the watch loop (`hako_launcher.py:97-101`) is left out, since
no call in the loop raises while SIGKILL works, as the module assumes.

## 3. Runs

| Run | Bounds | Shows |
|---|---|---|
| `recv_event` | 2 processes, 1 writer, an ordinary and a response channel, 2 entries, 1 clear; symmetry of the processes | capacity and types, `GrantsDistinct`, `NoEventOfPreviousRun` |
| `recv_event_live` | the same with the ordinary channel only, no symmetry | `WriterProgress` |
| `rpc_contract` | 2 clients, 3 calls each, 2 runs, `{"progress"}` | `OnlyCurrentBusy`, `RequestsOfThisRun`, and the refinement `KeepsContract`: every answer is the one to the client's last call, which was executed once |
| `rpc_generations` | 2 clients, 1 call each, 2 runs, every use but `"late"` | `AnswerNotRefused`, `StaleResponseRefused` |
| `rpc_returns` | 1 client, 2 calls, 2 runs, `{}` | `EveryCallReturns` |
| `service_table` | a server and 2 clients of service 2 of 2, three tables an earlier session may have left (none, shorter, other names), 3 services, 2 slots, 4 events, `Mode = {}` | slots and events stay with their owners, `KeepsRegistry`, `CreationEnds` |
| `simulation` | a callback asset (step 1), a polling one (step 1), a manual one (step 2, sleeping 3), `max_delay` 2, time 3, 2 runs, everything in `Use` | `QuietBetweenRuns`, `TimesTogether` |
| `simulation_live` | the same with the orderly operator, sleeps 0 and 3 | `EventsAcknowledged`, `RunMoves` |
| `recovery` | a master, 2 assets, 4 files, every session that can be left behind | `LiveKeepsFiles`, `EvidenceLast`, `ReportTrue`, `CommandEnds` |
| `launcher` | 3 assets with a chain, an order other than the list's and a cycle, 2 activations, all three modes, SIGINT, commands and `hako-cmd` that cannot be run | `StartsInOrder`, `StopsInReverse`, `TerminatedMeansStopped`, `LossStopsAll` |
| `asset_process` | 2 callables, 4 dictionaries, 2 references, two kinds of exception | the pointers, the thread, the status and the references: six invariants and `StopEnds` |
| `rpc_second_client` | 2 clients, 1 call each, 1 run, `{}` | a counterexample, see section 4 |

The first safety run of a module also checks its `TypeOK`. The mutants
in `PROJECT.json` show for every property a change of the code's logic that
breaks it within these bounds.

Why the bounds are enough:

- Table of receive events: two entries give two registrations for the last one,
  and a takeover of one while the other is cleared. A second clear starts from a
  state the first one allows; the proofs cover any number.
- RPC: two clients make the turn of the server move and come back, two calls make
  an old response meet a new request, a third shows what that meeting has left
  behind, two runs make an old request, response or state meet a new run. What is
  wrong with cancels needs the third call (section 4). The generation tests tell a
  run, not a call, so one call for each client is enough for `rpc_generations`.
- Service table: two clients for two slots, of which one dies and returns, meet in
  the same section; the service used is not the first, so ids differ from the
  default 0; a stale table of the same length with another name is the case that
  the count does not reveal.
- Simulation: one asset of each kind, one with a step that divides neither its
  sleep nor the time, a delay larger than a step; two runs with and without a
  reset between them.
- Recovery: two assets make one pid dead and one alive, four files make the
  removal fail before, at and after `flock.bin`.
- Launcher: three assets give an order that differs from the list and a middle
  one to lose; two activations let a thread of the first meet the second.
- Asset process: two callables and two references make a callback replaced while
  it is held, kept, and dropped.

Deadlock is not checked where the system may really stop: a session in which
everybody has ended or died (`service_table`), a clock at its bound with no
operator (`simulation`, `simulation_live`), a launcher that is over (`launcher`), a
process that crashed (`asset_process`).

### Fairness

- `RecvEvent`: consumers poll each channel again and again; calls that wait for a
  spin lock get it eventually (strong fairness: these locks have no queue but are
  held for a few instructions), and a writer that retries gets its chance.
  Registration and gating have none. `WriterProgress` needs one assumption more,
  `GatesSettle`: two owners of a channel that gate and resume their entries in
  turn, each polling only while its own is gated, can refuse a writer for ever.
- `ServiceRpc`: weak fairness for the steps of a poll and the clients' polls (all
  users poll in loops), strong fairness for the application's start of an answer,
  which the poll of the same thread disables and enables again. None for calls,
  cancels, starts and stops: nobody has to call, and a run may go on for ever.
  `EveryCallReturns` also ends with the run.
- `ServiceTable`: a process inside a creation goes on, and gets the entry's spin
  lock when it is free again and again (strong). Nobody has to begin.
- `Simulation`: weak for the master and for the steps of every asset's thread,
  strong for taking and answering an event, since a polling loop looks for its
  event in every round and is elsewhere in between. The operator has none.
- `Recovery`: weak for `hako-cmd`. Nothing makes a process release the lock, so the
  end of a command rests on its own timeout.
- `Launcher`: weak for the main thread's own steps and for each watch thread; none
  for the operator, for the assets or for signals.
- `AssetProcess`: weak for the conductor's thread and the poll of
  `hako_conductor_stop`.

## 4. Known deviations

`rpc_second_client` checks `EveryCallReturns` against what
`include/hako_asset_service.h:48` says of poll, and TLC finds a fair behaviour in
which it fails: the server looks at the current client only and moves on after a
reply, so a second client waits for ever while the first makes no request. It is
listed in `PROJECT.json` under `findings`.

The other places where code and documentation differ are settings of `Use`, `Usage`
and `Mode`, so that the remaining properties say what holds around them. Adding
the setting to a run's cfg reproduces each; properties in italics are defined in
the module but belong to no run.

| Setting | Property that fails | What happens | What the repository says |
|---|---|---|---|
| `rpc_returns`, `Usage = {"progress"}` | `EveryCallReturns` | a progress report goes through `reply`, which ends the request; the final response is dropped | `include/hako_asset_service.h:216` |
| `rpc_returns`, `{"cancel"}` | `EveryCallReturns` | a cancel overwrites the request between flag and PDU; the idle server ignores it, and the client stays CANCELING, where no timeout applies | `include/hako_asset_service.h:172` |
| `rpc_returns`, `{"unregistered"}` | `EveryCallReturns` | a client that is no asset passes the Running test, sleeps through stop and start, and writes while flags are being cleared | `examples/service_polling/README.md:27-29` |
| `rpc_contract`, `{"cancel"}` | `KeepsContract` | the answer overtakes the cancel; the client's next request then replaces the cancel in the PDU while the server, which has consumed the cancel's flag, is about to read it, so that one request is read under two flags and executed twice. Or a cancel is sent for a call of the run before | `examples/service_polling/bench_client.cpp:121-126` |
| `rpc_contract`, `{"cancel"}`, `{"retry"}` or `{"unregistered"}` | `OnlyCurrentBusy` | a second execution for a client whose response channel is still full: the reply cannot be written, but the server moves on and leaves that client DOING | – |
| `rpc_contract`, `{"unregistered"}` | `RequestsOfThisRun`, `KeepsContract` | a call whose Running test was in one run writes its request in the next | `examples/service_polling/README.md:33-34` |
| `rpc_generations`, `{"late"}` | `StaleResponseRefused` | generation check and write are separate: a response checked before a start reaches the next run | comment at `core/hako_pro_data.cpp:136` |
| `rpc_generations`, any with `"cancel"` | *`IsCanceledAnswers`* | `is_canceled` returns -1 for a canceled request | `include/hako_asset_service.h:136` |
| `service_table`, `Mode = {"together"}` | `HandlesValid` | the rebuild takes no lock, so it runs beside another creation | `sources/core/include/hako_pro_data.hpp:90-95` |
| `simulation_live`, `Use = {"hasty"}` or `{"force"}` | *`RetryAccepted`* | a callback asset whose start was refused in a transition is not there to answer it, so the transition does not end and neither do the refusals; with `{}` it holds | `sources/assets/callback/src/hako_asset_state_check.hpp:43-45` |
| `launcher`, any | *`NoOrphans`* | quit comes while the daemon watch thread is stopping processes: `abort` returns at once, main ends and the thread with it; or Ctrl-C comes during activation, when the state is IDLE and `terminate` does nothing | `launcher/hako_launch/hako_launcher.py:107` |
| `launcher`, any | *`LaunchEnds`* | the watch thread aborts and sets TERMINATED while main is in `cmd("start")`, which then sets RUNNING: main waits for TERMINATED for ever | `launcher/hako_launch/hako_monitor.py:35` |
| `asset_process` | *`OneLoop`* | a dictionary with both loops (a missing key counts as one) is refused only after hakopy has taken its callbacks, so the instance registered before runs both | `sources/assets/callback/src/hako_asset.cpp:39` |
| `asset_process` | *`StartTold`* | start raises for the status of a call that one of its callbacks made | `docs/runtime-error-contract.md` |
| `asset_process`, `{"retry"}` | `AttachedWhenUsed` | a second attach after no master was found takes an allocated but never loaded object for loaded memory | – |
| `asset_process`, any | *`NoLockKept`* | an exception between `lock_master` and `unlock_master` leaves the master lock taken for every process | comment at `sources/assets/callback/src/hako_asset_impl.cpp:252-253` |
| `recovery`, any | *`RefusedWhenUncertain`* | a master memory that is there but cannot be opened (another user's, or no descriptor left) is read as no memory: recover asks no pid and removes the files of a session that lives, if its lock happens to be free | `README.md:129-130` |
| `asset_process`, `{"misuse"}` | `FailureTold` | asking for a request that is not there returns NULL to Python with nothing raised | `docs/runtime-error-contract.md` |
| `asset_process`, `{"nothread"}` | `StopEnds` | the thread could not be created after the pointer was set, and stop waits for a thread that never was | `sources/conductor/src/hako_conductor_impl.cpp:80-87` |
| `launcher`, `Use` with `"hasty"` | `TerminatedMeansStopped` | an activation beside a thread that still aborts, which sets TERMINATED over the new activation's state, or that has seen a dead process and aborts the new activation | – |

One deviation is proved and not run, since it is about the width of an int and
not about steps: by `TimeoutAtOnce` of `Heartbeat`, when the world time is past
2147 seconds every call with a timeout is timed out by its first poll that finds no
response, although `include/hako_asset_service.h:227` calls the parameter the timeout
of the operation.

## 5. Proofs

`tlapm` checks every theorem for all values of the constants, assuming only the
module's `ConstantsAssumption` and what the theorem's own ASSUME says of `Use`,
`Usage` or `Mode`. Every invariant of the runs is a theorem, for at least the uses
that the run allows, and so are both refinements.

**RecvEventProofs.** `IInv` adds to the type invariant who holds the table lock in
which phase (a process in "fill" is the holder, its `alloc` is `entry_num`), that
ids handed out lie below `entry_num`, and, for the clear, that entries the loop
has passed (`Passed`) carry no event of an earlier run, and that a write which holds
the channel lock of one of them began in this run (`ClearInv`). The second half is
what the loop's wait for the channel's writers gives, and what makes the first
half inductive. The three safety properties of the run follow.

**ServiceRpcProofs.** Each property is proved for the widest use for which it is
true; section 4 shows for the others how it fails.

- Any usage: `TypeCorrect`, and `AnswerNotRefusedCorrect` by `GenInv` (the server is
  never ahead of the run, and busy in this run means accepted in this run).
- Clients that are assets (`"unregistered" \notin Usage`): `RequestsOfThisRunCorrect`.
  `FreshInv` says that a request that waits, is being read or is being served was
  written in this run; it rests on stops that wait for the client's poll, and
  on flags that are cleared before a run begins.
- Work that ends with its run (`"late" \notin Usage`): `StaleResponseRefusedCorrect`.
  `StaleInv` says that a response on its way, and the poll or the answer about to
  send one, belong to a request the server accepted in this run.
- The documented use, with or without progress reports (`Usage \subseteq
  {"progress"}`): `OnlyCurrentBusyCorrect` and `KeepsContractCorrect`. `IInv` follows
  one call through the system: for each client at most one of *requested*, *being
  read*, *served*, *answered*, *being taken* holds, only while it waits in this run,
  and what each leaves in the channels, in the server and in `execs` is part of
  it (`CallInv`). That a response is the answer to the last call needs that the
  request channel is empty while the response is under way. The application may
  still work on a call that a progress report has ended; its response is refused
  because the server is no longer busy (`ServerInv`). The refinement maps initial
  states to initial states of `RpcContract`, and each step to one of its steps or
  to none that a client sees.

**Heartbeat.** No assumption but the ranges of the times: up to 2^31 microseconds
the test is exact (`TimeoutExact`), later it is always true (`TimeoutAtOnce`).

**ServiceTableProofs.** Under `Orderly`, any number of processes, services, clients
and entries: `Mode = {}`, one `service.json` without repeated names that names the
service of every process, and stale tables of other configurations that do not
name it. (A table with some services of the new configuration would be used before
it is rebuilt; two entries of one name would share their clients.) `NameInv` says
that a rebuild happens only with everybody else gone and before any slot is used
(`Clean`), and that the others stand on a complete table, where a service has one
`Position`. From it follow `LockInv` (an entry whose section is occupied is locked),
`SlotInv` (the slots below `next` belong to different names, and the client in the
section has none yet) and `EventInv` (who answers to an event of a response channel
holds the slot, or is about to). `OneLiveOwner` combines the last two through
`OneChannel`. `TypeCorrect` holds in every `Mode`, rebuilds beside a creation included:
`TypeInv` bounds what each creation has read, however stale it is, and `LastId` finds
the last entry of a name in a table of any length, by the well-foundedness of the
naturals. `KeepsRegistryCorrect` maps `Assign` to the registry's and every other
step to a new session or to none, rebuilds included.

**SimulationProofs.** Every setting of `Use`, any assets, steps and `max_delay_usec`.
`QuietBetweenRuns` becomes inductive with the feedback: who has answered Stop is in
no step (`QuietInv`). `TimesTogether` needs the events (`EventInv`): the event of a
transition is waiting, taken or gone, and who has given its feedback has none,
so when all have answered nobody has one left that would set its time back in
a run. `TimeInv` then relates what an asset has told the master with its time:
told times are at most the asset's time, or from before this run, and the clock
looks at told times only. With that each asset's time is bounded by the world's,
and the world's by the asset's or by `base`.

**RecoveryProofs.** No assumption. `LiveKeepsFilesCorrect` is the point: recover asks
the pids one after the other and removes much later. `SessionInv` (whoever lives is
recorded), `JudgedInv` (whoever lives is still to be asked, unless recover is
`blind`) and `RemovalInv` (what is
removed was known) make it inductive, together with the README's rule that
nothing is started meanwhile. The theorem is as strong as the code allows: a
blind recover does remove a live session's files (section 4), and nothing else
does. `EvidenceLastCorrect` and `ReportTrueCorrect` follow.

**LauncherProofs.** `TypeCorrect`, `StartsInOrderCorrect` and `RefusedIsCyclicCorrect` are
unconditional, for every graph over every list of assets. `SortInv` says of the
sort that the queue and the result together have no asset twice, that each
sorted asset comes after all it depends on, and that what is in neither still
waits for an asset that is not sorted. So an empty queue means that all are
sorted or that each asset left out depends on another one (`AllSorted`). `StartInv` says
that `start_all` has started what comes before `next` in that order. The queue is
filled by `InFileOrder`, a recursive function; `FileOrder` (it lists its set, each
asset once) is proved by induction with the minimum of the counterexamples. For
`StopsInReverseCorrect` it is enough that a monitor that is being aborted starts nothing
(`AbortingIsMarked`), also unconditionally. For `TerminatedMeansStoppedCorrect` (without `"hasty"`) `AbortedInv` says that what
has been marked is stopped, unless a thread is still at it or main is leaving,
`EarlierInv` that nothing is left of other activations, `WatchInv` that each
monitor gets one watch thread, and `TerminatedInv` that the state TERMINATED is the
current activation's.

**AssetProcessProofs.** `TypeCorrect`, `CallbacksOwnedCorrect`, `LockLeftCorrect` and
`OneConductorThreadCorrect` hold for every use; `FailureToldCorrect` assumes
`"misuse" \notin Use`, `AttachedWhenUsedCorrect`
`"retry" \notin Use` (section 4 shows each assumption is needed). `SectionInv`
strengthens `LockLeft`: a registration that is inside has its controllers, and one that
is about to take the lock holds none and has no initialized callback instance. `PointerInv` says
which pointers imply which: a controller needs loaded data, an initialized
instance needs its controllers.

Only model-checked:

- liveness (`WriterProgress`, `EveryCallReturns`, `CreationEnds`, `EventsAcknowledged`,
  `RunMoves`, `CommandEnds`, `LossStopsAll`, `StopEnds`): fairness and ENABLED are
  out of the prover's reach.

Not claimed at all: the theorems on `ServiceTable` other than `TypeCorrect` for a `Mode`
other than `{}`, and what a theorem's ASSUME excludes elsewhere; section 4 has the
counterexamples.

The library's induction theorems take an operator as parameter, which the provers
cannot instantiate. Where an induction over the naturals is needed, the proofs
use that a nonempty set of naturals has a least element (`WFMin`), which speaks of
sets.

## 6. Plan

1. `OnlyCurrentBusy` and `KeepsContract` for a restricted cancel: which rule of use (a
   cancel only for a call of this run, no request before its answer was polled)
   makes the contract hold, first with TLC.
2. `ServiceTable` with tables that share names with the new configuration: how much
   of the orderly launch the theorems need.

## 7. Not modelled, and why

- The world time in `ServiceRpc`: the timeout test is in `Heartbeat`, and
  `ServiceRpc` lets a client time out whenever
  it waits.
- `initialize_service` (reading `service.json`) and the handle and buffer plumbing
  of the polling API: sequential, they keep nothing the properties speak of.
- `hako::destroy`: only `hako-cmd` calls it (`hako_cmd.cpp:420`), and there it returns
  at once, since the process is no master. `cancel_done`: no API calls it.
- Invalid headers and oversized packets: the library's own clients cannot send
  them.
- hakopy's argument parsing and `on_data_recv_event_callback`.
- Formatting, logging, JSON and CSV, meta dump, measurement, `tools/hako.py`: no
  state that outlives a call.
- The launcher's RPC and MCP front ends translate requests into `LauncherService`
  calls; the library that serves them is not in the repository.
- hakoniwa-core-cpp: external; its locks, clock and state machine appear as the
  environment, from how the code here calls it. Its heartbeat timeout of dead
  assets is left out, so assets do not die in `Simulation`.
