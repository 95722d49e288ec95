# nms-agent: a formal model

nms-agent polls network devices by ICMP and SNMP, computes metrics and threshold
statuses, stores the telemetry in an SQLite queue and forwards it to a backend
(ThingsBoard, another MQTT broker, or a terminal). This directory holds TLA+
modules of its core, TLC configurations that check them on small instances, and
TLAPS proofs of their safety properties. Paths are
relative to `src/`; `PROJECT.json` maps every definition to the lines it models.

    tlc -workers 2 -config MCPipeline_retry.cfg MCPipeline.tla
    tlapm PipelineProofs.tla

## Inventory

One process, `nms-agent`, runs everything below except the commands of
`nms-agentctl`, which are processes of their own on the same files. The main
goroutine runs one cycle after another and handles reloads in between.

| Component | State | Operations | Talks to |
|---|---|---|---|
| Durable queue, `internal/queue` | table `queue_items` (status, attempts, time of creation and of next attempt), retry configuration | EnqueueBatch, PendingBatch, MarkDelivered, MarkFailed, CleanupDeleted | pipeline; `queue retry` in another process |
| Delivery pipeline, `internal/core`, and the loop of `cmd/nms-agent/main.go` | the batch in memory, counters of the cycle | RunOnce; start, stop, cleanup, reload | collector, processor, queue, adapter |
| Collectors, `internal/collectors` | two channels and the workers of one collection | Collect of ICMP and SNMP, combinedCollector | devices |
| Preprocessing, `internal/processors` | last counters, speeds and identity of each interface | Normalize | pipeline |
| Threshold rules, same package | none (rules are configuration) | applyThresholds | alarms, through a tag of the item |
| ThingsBoard adapter, `internal/adapters/thingsboard_mqtt` and `internal/integrations/thingsboard` | tokens in the database; caches of attributes, relations, topology | SendBatch, provisioning, reconciliation, BuildSiteTopology | MQTT and REST |
| Alarm manager, `internal/integrations/thingsboard/alarm_manager.go` | cache of alarms, cache of entities | ProcessBatch | REST |
| devices.d and `nms-agentctl device` | one file per device | add, update, remove, with validation and rollback | files |
| Reload: `internal/configwatch` and the main loop | debounce timer, channel of capacity one, SIGHUP channel | watch, debounce, load, validate, replace the pipeline | files, pipeline |
| Viewer, `internal/viewer`, `view` command | snapshot, active devices, subscribers with queues of eight | Update, SetActiveDevices, Subscribe, broadcast | pipeline (observer), socket |
| Discovery, `internal/discovery`, `discover` command | found devices | scan, probe, promote | devices.d |
| Routes, `internal/routes` | cache of fingerprints | Collect of SNMPProvider and Collector, NormalizeSnapshot | SNMP, pipeline; the topology is made of its snapshots |
| Other adapters; profiles; configuration; status file; other commands | connections; none | SendBatch; read and validate; write a file | pipeline, files |

What is hard about it, and what makes each part correct:

* **Queue and pipeline.** A crash, a cancellation or a failing database call may
  come between any two steps; a send may publish a part of its batch before it
  fails; the retry configuration changes from start to start; a second process
  takes rows of the same table; timestamps are compared as texts. Correct: no
  item is lost or revived, every item is delivered or given up, at the limit and
  not before, backoff and order hold.
* **Collectors.** Workers, feeder and receiver are goroutines that close each
  other's channels. Correct: no send on a closed channel, no answer lost or
  doubled, every collection ends.
* **Preprocessing.** State survives from one cycle to the next while counters
  wrap, devices reboot and single walks fail. Correct: no invented rate, a stable
  classification.
* **Thresholds and alarms.** An alarm is changed by two calls that fail
  separately; answers get lost; an operator clears alarms; the cache may be
  wrong; a device is found by a text search, so another may answer for it. Correct:
  alarms follow the status of their own metrics, unless one device's name is part of
  another's, when they are shared.
* **ThingsBoard adapter.** Many calls, each of which may fail before or after it
  took effect, with caches of what was done. Correct: success means received;
  caches claim only what is so; management calls never fail a delivery, and are
  made in the end.
* **Devices and reload.** Commands without a lock; loading that lists first and
  reads later; signals that are dropped when one is waiting; commands that are killed,
  operations on files that fail, rollbacks that fail without notice. Correct: a command
  that takes its course leaves the directory valid, one that does not leaves the files of
  other devices alone, and the agent ends with the devices of the directory.
* **Viewer.** A change of the hub and its broadcast are two steps, and so are the
  snapshot and the subscription of a connection; full queues drop messages; rows
  delivered late repeat old readings. Correct: removed devices stay away, and a
  view that missed nothing shows what the hub holds.
* **Discovery.** Decides from a load that is minutes old, writes several files, is
  never validated, and probes with a pool of goroutines. Correct: the directory
  stays valid, no device comes twice or is lost, the pool ends.
* **Routes.** A table is read column by column while it changes, a failing walk looks
  like an empty table, a change mark is consumed before it is stored, a snapshot is
  cut. Correct: marks tell what the queue's reader sees change, routes without an
  interface get the right one, default routes lead to the right gateway.

`PROJECT.json` lists the single hazards with their lines.

## Modules

| Module | Models | Runs |
|---|---|---|
| `SQLiteQueue` | the table and its operations, as operators on a function from row numbers to rows | through `Pipeline` |
| `Pipeline` (extends `SQLiteQueue`) | RunOnce, the main loop, crashes, `queue retry` | `retry`, `shared`, `tuidrop` |
| `StoreAndForward` | the promise: accept, deliver, acknowledge, give up, purge | refined by `Pipeline` |
| `WorkerPool` | the pool of goroutines of Collect | through `PollCycle` |
| `Processor` | the memory of Normalize | through `PollCycle` |
| `PollCycle` (extends both) | collection and preprocessing across cycles | `poll`, `mixed` |
| `Thresholds` | the rules, as operators | through `ThresholdAlarms` |
| `AlarmManager` | ProcessBatch and its REST calls | `alarms` |
| `ThresholdAlarms` (extends both) | whole batches: rules, then alarms | `unruled` |
| `ThingsBoardAdapter` | SendBatch of the thingsboard_mqtt adapter | `sync` |
| `DevicesDir` | the directory and the device commands | through `AgentReload`, `Discovery` |
| `AgentReload` (extends `DevicesDir`) | watcher, signals, main loop | `reload` |
| `Discovery` (extends `DevicesDir`) | scan, probes and promotion | `discover` |
| `ViewerHub` | hub, connections, the state of the view | `view` |
| `RouteTable` | reading, resolving and ordering the rows of a route table, as operators | through `RouteInventory` |
| `SiteTopology` (extends `RouteTable`) | the topology of a batch, as an operator | through `RouteInventory` |
| `RouteInventory` (extends `SiteTopology`) | the route collector and its change cache across cycles | `routes` |
| `PipelineProofs`, `AlarmManagerProofs`, `AgentReloadProofs`, `ThingsBoardAdapterProofs`, `PollCycleProofs`, `ViewerHubProofs`, `DiscoveryProofs`, `RouteInventoryProofs` | theorems about the module each extends | |

Modules named `MC...` hold the model values of the runs. An operator whose name
has a suffix after an underscore (`Due_NoBackoff`) is a plausible bug in the
operator it is named after: with it in its place TLC finds the corresponding
property violated, so the property depends on that code.

### How state and actions correspond to the code

**SQLiteQueue, Pipeline.** `rows` is the table; a row has its status, attempts,
time of creation and time of next attempt. A row is deleted when it leaves
`rows`. `phase` is the program counter of RunOnce and the main loop: one action
for each database call or send, so that a crash fits between any two. `inbox` is
what was collected and not stored. `TextKey` and `TextLeq` model the comparison
of RFC 3339 texts, whose fraction drops trailing zeros: a whole second sorts after
its own fractions. `Nack` is MarkFailed with backoff, counting and dead letters
in one transaction. `SendError(part)` publishes any part of the batch and fails.
`CLIFetch` and `CLIAck` are the two halves of `queue retry`; `Tick` is time.
`published` is a history of what the backend got.

**WorkerPool, Processor, PollCycle.** `HandOver` is the rendezvous on the
unbuffered `targetCh`, `results` the buffered `resultCh`, `Leave` the end of a
worker whose channel is closed, `CloseResults` the feeder after `wg.Wait`; what each
goroutine waits for is a definition of its own (`CanSend`, `CanCloseResults`). What
an answer contains cannot influence the pool, so a result is just the device, and
what the device answered is chosen in `EndCycle`, where Normalize looks at it:
traffic since the last look, a reboot, and which walks failed. Counters are
small; the 32-bit counter counts modulo `WrapStd`. An interface per device in one
direction stands for all: the code keys every map by device, index and direction.

**Thresholds, AlarmManager, ThresholdAlarms.** Each call of ProcessBatch is an
action with a failing variant, which may have taken effect on the server. In
AlarmManager items come in any order and any number; in ThresholdAlarms they are
those of a fixed batch, in its order, with statuses from the rules. Devices are found by
name: `Matches[d]` is the set of devices whose names contain that of `d`, any of which
`GetDeviceByName` may return, since the client takes the first hit of a text search
without comparing its name (`client.go`, lines 106-116). `known` is `originatorCache`, so
the calls for a key are about the alarms of the device found for it, `Slot(k)`.

**ThingsBoardAdapter.** SendBatch as its sequence of calls, per device, then the
management path; `durable` is what survives a restart. The reconciliation of a
batch is one action with the sets of devices whose relation was made and heard of
(`made`) and made but not heard of (`lost`); nothing else runs between those calls
that sees the difference. `ids` is `deviceIDByName`, filled by the same text search: a
relation is made to the device that was found, and the one asked for is marked as seen.

**DevicesDir, AgentReload.** A command loads, validates, changes one file, loads
again and rolls back if that fails; loading is two steps, listing and reading. A
device file is its id and a revision standing for the other fields. `Faults` says what may
go wrong: any operation on a file may fail (`PrepareFails`, `ChangeFails`, `Reject`,
`RollbackFails`), and a command may be killed at any step (`Kill`). `add` and `update`
write a temporary file, which the loader ignores, and rename it, which is one step. The
rollback of `remove` writes the file in place, so it is two (`Recreate`, `Rewrite`)
between which the file holds a part of its content (`Torn`); that of `update` renames its
temporary file even if only a part of it was written. A command whose rollback fails ends
in `unrestored`, but says the same as one that ends in `restored`. `event`,
`timer`, `changes` and `hangup` are the places where a signal can be. That the
rest of the configuration (rules, profiles, adapters) loads and builds is assumed.

**Discovery.** A candidate is the revision of the file that would be written for it;
`AddressOf` gives a revision its address and `IdsTried` is the order in which
uniqueDeviceID tries ids. The probes are a pool (`Feed`, `Probed`, `PoolEnds`) whose
channel holds one answer for each candidate. What a probe finds is chosen: a
fingerprint a profile matches, one that leads to an exploration, or nothing to
promote. Each promotion is a step that may fail; the process may be killed anywhere.

**ViewerHub.** The main goroutine changes the hub in one step (`Collect`, `Deliver`,
`SetActiveDevices`, `SetSnapshot`), which leaves its messages in `outbox`, and
`Broadcast` puts one into every channel with room. A connection takes the snapshot
(`Connect`), subscribes (`Subscribe`), and reads its channel (`Receive`). A device has
one metric and a reading is the number of its cycle, so `telemetryKey` is the device.
Slices of telemetry are kept as what matters of their order: a batch as the set of
readings it has of each device, which come in the order of the cycles; the snapshot as
the `first` entry of each device, the one `mergeSnapshot` replaces, and the `older` ones
behind it, which only a snapshot read from the queue has; a message as the `last` reading
of each device, which ApplyBatch leaves on the screen, and `all` of them, any of which
may raise an alert. Rows of one cycle have one time and come in any order (`Oldest`,
`Newest`). `missed` is a history: a message passed the viewer by in the gap or at a full
channel.

**RouteTable, SiteTopology, RouteInventory.** A row of a route table has a key and six
columns. `WalkColumns` reads the first n columns before a change of the table and the
rest after it, so a row may be one that never existed. Addresses are numbers of `Width`
bits, a mask is its length, the name of an interface follows from its index. Tables and
what a walk returns are sets; where the code sorts, the order decides which element
is taken: `TriedBefore` orders the connected routes an interface is looked for in, and
`Rank` gives a row its place among the sorted ones. `Reads` is
all that one Collect of SNMPProvider may give: tables that change before, within or
after it, each of the walks failing. The collector visits a target in one step
(`CollectNext`), because nothing else sees its cache; `EnqueueBatch` and `CycleFails`
are the two ends of a cycle, `NewCollector` a restart or a reload. `queued` and `gap`
are history: the last snapshot in the queue, and whether one was lost since.

## What the runs show

Runs that pass:

| Run | Question | Instance |
|---|---|---|
| `retry` | Does an agent alone on its database, with a network adapter, lose nothing, revive nothing, bury rows exactly at the limit, implement `StoreAndForward`, and does an item that poisons its batch leave the queue and let its batch mates leave? | 3 items, one of them rejected by the backend, batches of 2, two batches a cycle, two tries, retention of a tick, 9 moments, fairness; 40 thousand states |
| `shared` | Do backoff and order hold to within a second, and does no row come back, when retries are switched on and off, the adapter changes and `queue retry` interleaves? | 2 items, batches of 1, two ticks to the second, 2.5 million states |
| `poll` | Does every collection end with every answer once, without a goroutine that blocks or turns in circles; are rates between two reads of the same counter never above the traffic; do interfaces stay classified? | 2 devices, 2 workers, counter modulo 2 beside one that does not wrap, reboots, reloads, 3 moments; 221 thousand states |
| `alarms` | Does an alarm follow its own metric, unless a call failed half way, is the cache right, do alarms clear; is an alarm changed only by telemetry of its type of a device whose search may return its device? | 2 devices, the name of one part of the other's, an alarm type of each, every call may fail, restarts, an operator, fairness; 393 thousand states |
| `sync` | Does success mean received; are caches true; can management not fail a delivery; do the topology, and the relation of a device only it answers for, get made? | the same 2 devices, 2 addresses, every call may fail, restarts, fairness; 301 thousand states |
| `reload` | Does a command leave the directory valid and change just its file; does no change get lost; does the agent catch up? | 1 device, 2 file names, an invalid revision, commands killed at any step, failing operations on files, edits by hand, SIGHUP, restarts; 71 thousand states |
| `discover` | Does the directory stay valid without a validation; does no address come twice; is no device overwritten whose file has its name; has each candidate one answer when it is promoted; does every discovery end, however probes are scheduled? | 3 candidates, two of one name, 3 ids and files, 2 workers, at most 2 promotions, any valid directory; 33 thousand states |
| `view` | Do removed devices stay away; does a view that missed nothing show what the hub holds; do updates settle on the newest reading? | 2 devices, 1 viewer, a channel of one message, 3 cycles, batches of 2, reloads, restarts; 2.3 million states |
| `routes` | Does the mark say whether a stored snapshot differs from the one before; do routes get the right interface; does the topology find the gateways; do the marks end? | 2 devices, one of which changes its table at any moment, walks that fail, cycles that fail, new collectors; addresses of 3 bits, snapshots cut at 2 routes; 79 thousand states |

Runs that end in a violation, each a disagreement between the code and what the
repository says:

| Run | What TLC finds |
|---|---|
| `tuidrop` | After its program has quit, the tui adapter accepts batches and drops them; the agent deletes their rows. `docs/ADAPTER_CONTRACT.md`: an adapter must not drop telemetry silently. |
| `mixed` | After a cycle in which only the 32-bit counter could be read, the 64-bit counter minus that value becomes a rate, though nothing was carried. `docs/DEVELOPMENT_STAGES.md` (line 204): throughput "Uses HC counters with fallback to 32-bit". |
| `unruled` | A metric without a rule counts as normal as soon as any rule exists, and clears the alarm of another metric of the same alarm type, in every cycle. `docs/DEVELOPMENT_STAGES.md` says metrics with configured rules. |

Exceptions that properties of the passing runs name, because the code makes no
promise there:

* `AlarmFollowsUnlessBroken`: not for a key one of whose calls failed half way. When
  CreateAlarm fails after ClearAlarm, the cache keeps the alarm just cleared, and
  nothing is created when the old severity returns.
* `AlarmFollowsUnlessBroken`, `CacheIsTrue`, `AutoClears`, `RelationIsEnsured`: for
  devices that alone answer to their name, and alarms that no other telemetry may end up
  at (`Own`). `AlarmsAreSeparate` says who may change an alarm when names do contain one
  another. Telemetry of `router-1` can then create, change and clear an alarm of
  `router-10` (`docs/KNOWLEDGE.md`, line 55, says alarms are kept per device and metric),
  and the relation of `router-1` may not be made while the agent runs, since it is marked
  as seen when that of `router-10` has been made.
* `TopologyIsPublishedUnlessUnsaved`: not after a failed save, since the fingerprint
  is remembered before the topology is saved.
* `CommandLeavesValid`, `CommandIsAtomic`: with one command at a time. Two can end
  with an invalid directory, though each has validated it: `add` writes an invalid device;
  an `update` of it keeps those bytes for its rollback; `add` takes its file back; `update`
  finds no file when it validates again, and its rollback writes the invalid bytes.
* `CommandLeavesValid`: not for a command that is killed, which may leave a change nobody
  has validated, nor for one whose rollback fails, which says "(rolled back)" like
  one that worked (`device.go`, lines 300, 696-697, 757). Nothing repairs the
  directory then; the agent goes on with the devices it runs.
* `CommandIsAtomic`: in every case the files of other devices are untouched. The file of
  the command may hold a part of its old content after a kill while `remove` rewrites it,
  and after a rollback of `update` or `remove` that failed.
* `AddsOnlyNew`: with one discovery and nothing else that changes the directory.
* `RateIsCarriedUnlessSwitched`: a rate between two cycles of which one could read the
  64-bit counter and the other only the 32-bit one is bounded only by what the device
  counts, since `lastCounters` has one entry for both; `mixed` shows such a rate.
* `NamedDevicesStay`: for files named after the id of their device. A promotion renames
  its file onto `<id>.yml` whatever device that file holds; the loader accepts files of
  other names, and `docs/DEVELOPMENT_STAGES.md` (line 1585) promises collision-safe ids.
* `MarkTellsTruth`: not for the first snapshot after a lost one (`gap`), whose mark
  compares it with the one that was lost.
* `SnapshotIsTrue`, `GatewaysAreFound`: for reads that nothing disturbed. A torn read is
  not detected; `MarksEnd` says that it is made good once the table is left alone.
* `GatewaysAreFound`: for a batch that holds the snapshots of a cycle, none of them cut.
* `EventuallyLeavesPending`: with retries on. Without backoff a failed batch is the
  oldest due one and is fetched again within the same cycle, although
  `docs/BASELINE_0.md` (line 93) says that the cycle goes on to the next batch.
* `ViewAgreesWithSnapshot`: not for a viewer that missed a message, until the next
  snapshot is broadcast, which takes a reload.
* `RemovedStaysRemoved`: not without any active device, when the hub filters nothing.
* `FirstIsLatestOnceDelivered`: the first entry of a device. After a reload with a
  backlog the snapshot has several, and a viewer that connects later shows the last,
  which is the oldest, until the next cycle.

### Bounds

Constants of the specifications: `MaxItems`, `MaxTime`, `RetryCap` (attempts are
counted up to it), `MaxOctets`, `Ids` (alarm ids the server may hand out for a
device and a type: more than `Slots` and `Keys` together). Two ticks to the second are enough for the text order to go wrong, since
that needs a whole second and a fraction of it. Three items and batches of two
give a batch with and without the rejected item and a rest behind it; two tries
give a failure that is retried and one that buries. Two devices are enough where
devices interact only through a common list, and two workers where an order
between two goroutines is all there is. Counters up to two with a wrap at two
reach a wrap, a reboot and a rate in any order. In `view` one viewer is enough, as
viewers do not see one another, and a channel of one fills as one of eight does; a
third cycle is needed for an old reading to replace one it must not. In `discover`
`Scan` has the bound that the ids suffice, and three candidates are more than
workers. In `routes` three bits are enough for a default route, a subnet and one within
it, and a limit of two cuts a table of three; one device whose table changes is enough,
as devices meet only in the topology. Where names matter two devices are
enough, one named within the other: a search for the first may return either, one for the
second only itself. In `reload` one device and two files are enough for an id to be in
two files, and one valid and one invalid revision for a content that loads and one that
does not. `retry` lets time pass only while the agent waits for a row that is backing
off, so that a bounded clock does not run out; in `shared` it passes at any moment.

### Fairness

* `Pipeline`: weak fairness of the agent (its goroutine runs), strong fairness of
  the successful database calls and collections (an operation tried for ever
  succeeds sometimes) and of `Stop` (a select statement offered a case for ever takes
  it). Nothing is assumed of users and of the backend, which may fail every send. `EventuallyLeavesPending` further supposes that
  crashes and cancellations stop (`Undisturbed`).
* `PollCycle`: weak fairness of the running cycle: goroutines run and pings and
  walks have timeouts.
* `AlarmManager`, `ThingsBoardAdapter`: calls return, and a call repeated for ever for
  a device whose name is its own, looking it up included, is sometimes answered. Nothing is
  assumed of the calls for others, and of which device a search returns. `AutoClears` supposes that the loop keeps reaching the
  key and that restarts stop.
* `Discovery`: goroutines run and probes have timeouts, until the process is killed.
* `RouteInventory`: the main loop goes on; walks have timeouts. `MarksEnd` supposes that
  devices, cycles and collector are left undisturbed from some time on.
* `AgentReload`: goroutines run, commands end if they are not killed before, a ready case of a select statement
  is taken sometimes. `AgentCatchesUp` supposes that the directory and the process
  are left alone from some time on.

## What is proved

Each theorem holds for all values of the constants that satisfy the named
assumptions, which TLC evaluates in the runs.

| Module, assumptions | Theorem | Statement |
|---|---|---|
| `Pipeline`: `TicksAssumption`, `RetryCapAssumption`, `PipelineAssumption` | `TypeCorrect` | `Spec => []TypeOK` |
| | `BackoffIsKept` | no batch takes a row a second or more before its next attempt, and none with room leaves one a second overdue |
| | `DeadLettersAreFinal` | a dead letter is never revived, counted or sent |
| | `BudgetIsKept` | rows are buried at the limit of a retry configuration |
| | `OldestGoFirst` | no batch leaves behind a due row a second or more older than one of its own |
| | `NothingComesBack` | no late acknowledgement or failure restores a deleted row |
| | `BatchStaysOnDisk`, `NothingIsLost` | what is delivered is stored; a row leaves only once published, or as a dead letter past its retention |
| | `StoreAndForwardImplemented` | `Pipeline` implements `StoreAndForward` |
| | `TextOrderWithinASecond` | for every clock resolution, comparing texts errs by less than a second |
| `AlarmManager`: `AlarmAssumption` | `AlarmTypeCorrect`, `AlarmsFollow`, `CacheTellsTruth`, `AlarmsStaySeparate` | types, and the safety properties of the run `alarms`, for any keys, ids and devices, whatever names contain one another |
| `AgentReload`: `DevicesDirAssumption`, `CommandAssumption` | `ReloadTypeCorrect`, `ChangesArrive` | types, and no change of the directory is lost on its way to the agent |
| | `CommandsLeaveValid`, `CommandsAreAtomic` | a command whose change is verified or taken back leaves the directory valid; however it ends, the files of other devices are as before and its own is old or new, but for a rollback that fails or is cut short |
| `ThingsBoardAdapter`: `AddressAssumption`, `NameAssumption`, `ConfigurationAssumption` | `AdapterTypeCorrect`, `OkIsReceived`, `CachesTellTruth`, `ManagementIsHarmless` | types, and the safety properties of the run `sync`, for any devices and addresses |
| `PollCycle`: `PollAssumption` | `AnswersArrive`, `SendsArePossible` | no answer lost or doubled, no send on a closed channel or without room, for any targets and workers |
| | `CollectCannotStick`, `EachStepOfACollectionCounts` | a running collection is never stuck, and each of its steps lowers what is left to do |
| | `PollTypeCorrect`, `RatesAreCarried`, `InterfacesAreClassified` | types, rates (between two reads of one counter within the traffic, else within what the device counts) and classification, for any traffic and any width of the counters |
| `Discovery`: `DevicesDirAssumption`, `DiscoveryAssumption`, `DiscoveringAssumption` | `DiscoveryTypeCorrect`, `NamedAreKept`, `OnlyNewIsAdded` | the directory stays valid, no address twice, no named file replaced |
| | `CandidatesAreProbedOnce` | no probe waits for room for its answer, and each candidate has exactly one when they are promoted |
| `ViewerHub`: `ViewerAssumption` | `TypeCorrect` | types, and no channel of a subscriber holds more than its capacity |
| | `RemovedStay` | a removed device does not come back into the snapshot |
| | `ViewAgrees` | a viewer that missed nothing shows what the snapshot has, and every alert of it |
| | `FirstIsLatest` | once nothing of a device is left to deliver, the entry updates go to is its newest reading |
| `RouteInventory`: `WidthAssumption`, `InventoryAssumption`, `AbsentAssumption` | `MarksTellTruth` | a stored snapshot is marked if and only if it differs from the one stored before |
| | `SnapshotsAreTrue` | an undisturbed read has every route, each by the interface of a most specific connected route; a default route is shown however the snapshot is cut |
| | `GatewaysFound` | the topology of a cycle is a graph, and default routes lead to a device on the subnet of the next hop, or out of the site |

`BatchStaysOnDisk`, `NothingIsLost` and `StoreAndForwardImplemented` assume `Alone`: nobody runs `queue retry` and the
adapter is a network adapter. Both are necessary: `tuidrop` shows the second, and
`queue retry`, whose built-in adapter sends nothing, acknowledges rows that no backend got.
`CommandsLeaveValid` and `CommandsAreAtomic` assume `OneProcess`, since commands take no
lock; the exceptions above say how two break the first. They assume nothing of operations on files or
of kills.

Some assumptions say something about the system. `DiscoveryAssumption`: two ids have two
files (`FileOf` is injective), and a scan finds finitely many candidates and no address
twice. `PollAssumption`: no device is configured twice among the targets, and the workers are
finitely many and one at least, as both collectors see to.
`InventoryAssumption`: nor among those of the route collector, and the rows of a route
table are finitely many, complete, and have different keys (their OIDs); what a torn
walk makes of them need not be complete. The rest keep model values apart from data (`NoResult`, `Nothing`, `Absent`, `None`), or bound a range.

### The arguments

**Pipeline.** `TypeOK` is inductive: `TypeInit`, `TypeNext`. Two facts make the
rest of the induction go through:

* `BatchAlive`: the batch in memory holds no dead letter, and is empty outside
  delivery. Needed for `DeadLetterIsFinal`, because `Nack` updates the rows of the
  batch whatever their status; it holds because only the agent buries rows and it
  gives up its batch in that very step.
* `StoreInv`: `BatchOnDisk` (the batch is pending on disk, and published when it is
  about to be acknowledged), and `queue retry` holds nothing. `BatchOnDisk` alone
  is not inductive: an acknowledgement by the other process would take rows from
  under the batch.

The lemmas about `SQLiteQueue` say what `PendingBatch`, `FailedRow` and
`Expired` return; the proofs about steps cite them and do not expand the queue.
`BackoffIsKept` needs that a batch with room left takes every due row
(`PendingBatchFull`), and of the due rows a first one that was left out exists because
the natural numbers are well-founded (`LeastNatural`).
The steps of `Pipeline` are grouped by what they do to the table
(`TableSteps`), the batch (`BatchSteps`) and the published items
(`PublishedSteps`), each grouping proved once.

**AlarmManager.** `AlarmInv` adds to the two properties (`StatusHolds`, `CacheHolds`) what is
known in the middle of an item (`AtClear`, `AtCreate`: which alarm the cache holds and which
the server). Everything is about the place a key has found, which is one of its own if only
its device answers to its name (`OwnSlot`, `Found`). `IdsDiffer` says that two alarms on the
server have different ids, `CachedAtSlot` that an id in the cache of a key is nowhere on the
server but at a place the key may have found; both hold because an id the server hands out
is one nobody holds (`CreatedApart`). Without them, clearing an id could close an alarm that
the key has nothing to do with, which `AlarmsStaySeparate` excludes.

**AgentReload.** `NoChangeIsLost` is not inductive: while a load is under way neither the
devices that run nor a signal need account for a change. `ReloadInv` says that what was
listed is what is there unless a signal says otherwise (`Listed`), and the same for the
first load, before the watcher watches (`Starting`). `CommandInv` says what a lone command
knows of the directory at each of its steps: before the change that it is valid, after it
that it is the one before but for the file of the command, and in a rollback what that file
held. `CommandGoesOn` proves that it still knows it after a step of its own, `CommandEnds`
that it may end at any step, by itself or killed, and the two properties hold of what it
leaves.

**ThingsBoardAdapter.** `AdapterInv` says how far SendBatch has come: the devices of the
batch that are no longer to do are served (`TodoIsLeft`), which at the end are all; and
that an attribute marked as sent is the configured one (`OnlyOwnAddress`), which makes
skipping it sound.

**PollCycle.** `PoolInv` places every answer: a target handed over and answered is with
one worker, in `resultCh` or in what Collect has received, and nowhere twice (`Placed`);
there are no more answers and targets in hand than targets handed over, so the buffer of
`resultCh` suffices (`Counted`); a channel is closed only when nobody can send on it any
more (`Closed`). With `Staying`, that no worker leaves before `targetCh` is closed, it
follows that somebody can always go on (`CollectCannotStick`). `WorkLeft` counts the steps
that are left: four for a target that waits, four, three or one for a worker with a
target, with a result or idle, one for each result and each close to come. It begins at
`4 * Len(Targets) + Cardinality(Workers) + 2` (`WorkAtFirst`) and falls with each step.
Together the two are `CollectEnds` but for the fairness that makes somebody who can go
on do so. `RateInv` relates the last counter of a
device to what was carried since it was read, if the next one read is the same counter, `InfoInv` what is known of an interface to
the walks that have succeeded. The lemmas before them are about sequences and remainders.

**Discovery.** `DiscInv`: the ids in use are those of the directory and of this run, the
candidates still to be promoted have addresses the directory has not, each once, and ids
enough are left for them (`Ready`). The last is a count of finite sets, for which the
theorems of FiniteSetTheorems are instantiated step by step. `ProbeInv`: each index handed
over is with one worker or has one answer (`Dealt`); as many answers as indices is then a
bijection, and a worker with an index leaves room for one more (`DealtRoom`).

**ViewerHub.** What a viewer shows lags behind, so `ViewAgreesWithSnapshot` is not
inductive. `OutboxInv` says what may wait for its broadcast: only the first message can
change a view, and what it says of a device is in the snapshot. `Tracks` follows a viewer
that missed nothing, one device at a time: unless a message about the device is still to
be broadcast, the last message about it in the channel agrees with the snapshot, or, if
there is none, what the viewer shows does (`AgreesAfter`). `missed` is cleared only by a
snapshot message in the channel, which speaks of all devices. `QueueInv`, for
`FirstIsLatestOnceDelivered`: a device with a row in the queue has its newest reading
there, since deliveries take the oldest rows; so the batch that empties the queue of a
device ends with that reading, whatever was repeated before.

**RouteInventory.** `MarkInv` compares the two memories of a device's last routes. They
agree for a device this cycle has not visited (`Agree`); for one it has, the cache is
ahead by the snapshot in the inbox (`Memories`), which is why the mark, computed from the
cache, is true of the queue. The other two theorems are about the operators.
`WalkedIsTable`: whatever a device does during a walk, the rows it yields are a table
again; `WalkAtRest`, `FinalizeAtRest`: of a table at rest it is that table.
`ResolvedIsMostSpecific`: the connected route tried first exists and is a most specific
one. `RankIsAPlace`: entries are ordered by their first difference and rows with equal
ones by their keys, a strict total order, so that the rank is an injection of a finite
set into as many places and hence onto them; `RoutesAreEntries` follows, and
`DefaultIsFirst`: a default route has the least entry, so a cut never hides it. In the
topology a default route leads where the first attached device is (`GatewayLeads`), and
by `MarkInv` the inbox has one snapshot of each device (`InOrderIsInbox`).

### Only model-checked

* All liveness (`EventuallyLeavesPending`, `AutoClears`, `AgentCatchesUp`,
  `RelationIsEnsured`, `TopologyIsPublishedUnlessUnsaved`, `CollectEnds`,
  `DiscoveryEnds`, `MarksEnd`): it needs fairness and ENABLED, which are beyond the
  prover used.
* `ThresholdAlarms`, whose only run looks for a violation.

Every safety property of a passing run is a theorem. Type correctness, which the other
theorems of a module rest on, is proved (`TypeOK`; in `RouteInventory` the types are part
of `MarkInv`) and so is not among what the runs check again.

## Not modelled

* The thresholds file. `nms-agentctl threshold set` loads the rules, merges one by metric
  and tags, and rewrites the file by `os.Remove` and `os.Rename` (`threshold.go`, lines
  228 and 229), without a lock. A kill in between, or a load by a start or a reload, finds
  no file, and no configuration loads without it, although
  `docs/DEVELOPMENT_STAGES.md` (line 922) calls the write atomic; two commands that
  overlap lose the rule of one. The watcher does not watch the file, so rules change at
  the next reload. It is read off the code and listed as a hazard.
* In `ViewerHub` retries are disabled: with backoff a late row may repeat an old reading
  after the newest, until the next cycle.
* Speeds and utilisation, memory and storage metrics: arithmetic on one batch, except
  that the last speed of an interface is never forgotten.
* Several batches to one cycle's route snapshots: the topology is then that of a part of
  the devices.
* Profiles, the checks of configuration fields, the demo collector, and commands that
  only print: they keep no state. The status file: written, never read by the agent.
* Left out for good: formatting, rendering and logging; the decoding of ping output and
  SNMP values; MQTT and TLS connections; parsing of YAML files.

`AlarmManager` has a constant `PagedAnswer`. `docs/thingsboard.json` describes the
list of alarms as wrapped in a page object, which the client does not decode; with
`PagedAnswer = TRUE` listing always fails. The runs take the answer the client was
written for, as everything else about alarms would be out of reach.

## Plan

Order, most important first; what is done is marked.

1. `SQLiteQueue`, `Pipeline`, `StoreAndForward`, their runs and proofs. *Done.*
2. `AlarmManager`, `Thresholds`, `ThresholdAlarms`. *Done.*
3. `DevicesDir`, `AgentReload`. *Done.*
4. `ThingsBoardAdapter`. *Done.*
5. `WorkerPool`, `Processor`, `PollCycle`. *Done, without speeds and utilisation.*
6. `ViewerHub`. *Done.* Left: backoff, and several metrics of a device.
7. `Discovery`. *Done.* Left: beside device commands and the agent's watcher.
8. `RouteTable`, `SiteTopology`, `RouteInventory`. *Done.* Left: topologies of a part of
   the devices, composed with the throttle of `ThingsBoardAdapter`.
9. Proofs of the safety properties of all runs. *Done.*
10. The thresholds file beside the commands, the loads of the agent and kills.
