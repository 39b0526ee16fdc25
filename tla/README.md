# Formal model of the protocol gateway

The gateway (`src/cmd/gateway`, `src/internal`) reads values from industrial
devices (Modbus, OPC UA, S7), publishes them to an MQTT broker, and writes to
the devices on command.  This directory holds TLA+ models of the parts that
decide whether it does so correctly, TLC configurations that check them on
small instances, and TLAPS proofs for every size.

## 1. The system

| Part | State | Operations | Hard behaviour |
|---|---|---|---|
| Polling service (`service/polling.go`) | `devices`, one `devicePoller` each with `running`, `subscribed`, `stopChan`; `workerPool`; `ctx` | `RegisterDevice`, `UnregisterDevice`, `ReplaceDevice`, `Start`, `Stop`, a goroutine per polled device | configuration replaced under a running poll; stop channels replaced after a timeout; push and poll mode |
| Command handler (`service/command_handler.go`) | `commandQueue`, `writeSemaphore`, subscriptions, device index | MQTT callbacks, `processCommandQueue`, `Start`, `Stop`, `UpdateDevices` | full queue, drain at shutdown, partial start |
| MQTT publisher (`adapter/mqtt/publisher.go`) | `connected`, `messageBuffer`, `done` | `Publish`, `processBuffer`, `drainBuffer`, `Connect`, `Disconnect`, callbacks | link lost between test and publish, late callbacks, buffer at its limit |
| Shutdown (`cmd/gateway/main.go`) | which components are up | signal, one stop per component | order, one deadline for several steps |
| Modbus pool and client (`adapter/modbus`) | `clients`, breaker per device, `connected`, `lastUsed` | `GetClient`, reads and writes, health check, reaper, `RemoveClient`, `Close` | locks kept while dialling, removal under use, broken connections |
| S7 pool and client (`adapter/s7`) | `clients` with entries, breaker per device, `lastUse` | as Modbus, with eviction | removal under use, an entry looked up twice, broken connections |
| Reading and writing tags (`modbus/client.go`, `s7/client.go`, `s7/batch.go`, both `conversion.go`) | the points collected so far | ranges, requests, fallbacks, values out of bytes, writes | overlapping tags, addresses at their limit, one failure among several requests |
| OPC UA sessions (`adapter/opcua/pool.go`, `session.go`, `health.go`, `subscription.go`) | `sessions` by endpoint, `devices` (bindings), subscription managers, two tiers of breakers | `GetClient`, reads and writes, `SubscribeDevice`, `UnsubscribeDevice`, health check, reaper, `Close` | devices that share a session and move, lookups repeated after a lock was released |
| OPC UA load shaping (`adapter/opcua/loadshaping.go`) | `globalInFlight`, `inFlight`, `priorityQueues`, `brownoutMode` | the gate before each operation, workers, `checkGlobalHealth` | decisions on stale loads, abandoned requests, closing under senders |
| Health checker (`health/checker.go`) | check results, thresholds, operational state | check loop, `SetState` | flapping, stale results |
| Device manager and API (`api/handlers.go`) | device map, callbacks, the device file | add, update, delete, load | half-done changes when a callback or the save fails |
| Configuration, metrics, logging | files, counters | | input and output only |

How they interact: main builds everything and wires the device manager's
callbacks to the polling service.  Poller goroutines and the command processor
call the pools through the protocol manager; pollers and OPC UA notification
handlers call `Publish`; the command handler answers through the same MQTT
client.  Shared state: the MQTT client, the pools, and the device objects.

What makes each part correct:

* polling: one goroutine at most per device, none for a device that was
  removed, but those a wait left behind; no worker token leaked; `Stop` ends all;
* commands: each command received is counted once and answered at most once, writes
  in the order of delivery, `Stop` returns;
* publisher: each message is delivered, counted as lost, or in one place, never
  delivered twice; `Publish` and `Disconnect` return;
* shutdown: no component uses one that was taken down before;
* load shaping: the counter is exact, safety operations are served, brownout ends;
* pools: capacity, one connection per device, a failing device is cut off by
  its breaker and hurts no other, nothing lives on after `Close`;
* tags: each tag is answered once, with its own bytes; a write is read back;
* health: the state follows the report, also after failures and across `Stop`;
* device manager: the map, the file, and the running pollers agree.

The hazards, each at its line of code, are listed in `PROJECT.json`.

## 2. Modules

| Module | Models | Runs |
|---|---|---|
| `PollingService` (`MCPollingService`, `PollingServiceProofs`) | polling service | `Polling` |
| `CommandHandler` (`CommandHandlerProofs`) | command handler | `Command` |
| `MqttPublisher` (`MqttPublisherProofs`) | publisher and its buffer | `Mqtt` |
| `GatewayShutdown` (`MCGatewayShutdown`, `GatewayProofs`) | end of main, composing the components by what they promise | `Shutdown` |
| `HealthChecker` (`GatewayProofs`) | health checker | `Health` |
| `DeviceManager` (`MCDeviceManager`, `GatewayProofs`) | device manager, device file, callbacks, restart | `Devices*` |
| `LossyDelivery` | what a publisher promises (abstract) | `Mqtt` |
| `CircuitBreaker` | gobreaker with the pools' settings, as operators on a record | used by `ModbusPool` |
| `DevicePool` | what a pool of connections promises (abstract) | `Modbus`, `S7Pool` |
| `ModbusPool` (`MCModbusPool`, `ModbusPoolProofs`) | Modbus pool with its clients | `Modbus` |
| `S7Pool` (`MCS7Pool`, `S7PoolProofs`) | S7 pool with its clients | `S7Pool` |
| `TagAccess` (`MCTagAccess`, `GatewayProofs`) | tags to requests and bytes to values, Modbus and S7 | `TagAccess` |
| `OpcuaSessions` (`MCOpcuaSessions`, `OpcuaSessionsProofs`) | OPC UA sessions, bindings, subscriptions | `OpcuaSessions` |
| `OpcuaLoad` (`MCOpcuaLoad`, `OpcuaLoadProofs`) | OPC UA load shaping | `OpcuaLoad` |

### Conventions

An action is one stretch of code between two points where another goroutine can
get in: a lock, a channel, a call of the network.  A call made with a lock held
is an action (or several) whose guard keeps others out.  Definitions keep the
names of the code.  `map` in `PROJECT.json` gives the lines of each.  Definitions
marked `Variant` are wrong on purpose: each replaces the definition that follows
it to show that a property would notice.

### PollingService

`devices`, `running`, `subscribed` and `device` are the fields of the service and
of `devicePoller`.  `muPc` is what the holder of `s.mu` is doing, because
`ReplaceDevice` waits for an old goroutine, and `startDeviceSubscription` calls
the server, with the mutex held.  A goroutine's `pc` goes from `select` over the
worker semaphore, the read and the publish back to `select`.  `stopChan` is
replaced when a poller is reset: `sig` records which one a goroutine waits on.
Poll cycles may be longer than the five seconds `stopAndResetPoller` waits: a read and
a publish for each tag, each with its timeout, and the jitter add up to more.  A wait that
times out leaves its goroutine behind; `late` counts, for each `devicePoller`, the
waits that did, and what the code cannot keep is stated in terms of it: each
goroutine too many is owed to one of them.  What the subscription handler and the server
hold is not modelled: an error of `Unsubscribe` is logged or ignored, so `subscribed` is
all the service goes by.  API calls may come during `Stop` and after it.

### CommandHandler

Commands are numbered as they arrive.  `queue`, `stats`, `subs` and `running` are
the fields of the handler, `pc` the processor goroutine (several when `Start` is
retried).  Start and Stop go topic by topic, since a callback may come in
between.  Payloads are malformed, for an unknown device, or well-formed.  Sending a
response (`Answer`) publishes it or does not (acknowledgement is off, or the publish
failed, which is only logged), and need never return: `token.Wait` has no timeout.

### MqttPublisher

`link` and `callbacks` belong to the MQTT library (external): it reconnects by
itself and calls back later.  Callbacks are assumed to run in the order of the
events.  `connected` is the publisher's flag, `messageBuffer` its channel, `pc`
and `bufPc` are the producers and `processBuffer`.

### GatewayShutdown

`step` is where main is.  Components appear by what they promise: the polling
service's goroutines exit when told unless they are slow (`StopDrains` of
`PollingService`), the command processor ends before its `Stop` returns (the guard of
`StopDone` in `CommandHandler`), which it does as long as responses return
(`StopReturns`), and notification handlers end before the OPC UA pool is closed.

### ModbusPool

`clients` is the map, `mu` the operation that holds the pool's mutex in
`GetClient`, `link` the state of a client: off, up, or connected over a TCP
connection that is broken.  `goburrow/modbus` (external) does not replace a
broken connection by itself.  `Pollers` call `ReadTags`, which never returns an
error, `Commands` call `WriteTag`, which retries, reconnects on the few errors it
recognises, and may fail over a connection that works.  A behaviour picks
one of the `Workloads`: who uses which device.  `stale` holds the clients whose
`lastUsed` is older than `IdleTimeout`, the only thing it is compared with.
`tally` follows what really happened to the requests of a breaker, to compare
with what the breaker counted.

### S7Pool

As `ModbusPool`, with the differences of the code: the entry is looked up before and
again after `GetOrCreate` (`Lookup`, `Look`), a full pool evicts an entry that is idle,
reads retry too, and the health check passes over clients whose breaker is open.  A
breaker is its state only; what it counts is checked in `ModbusPool`.  A device may be
given another `address` (`Move`); a client goes on to use the one it was made for
(`target`).

### Abstract specifications

`LossyDelivery`: a message that was accepted is delivered once, or given up, and never
comes back; a message that timed out may count as given up and still arrive.
`MqttPublisher` implements it: `pending` is what producers, buffer and `processBuffer`
hold.  `DevicePool`: never more than `Capacity` devices with an entry, entries are made
only while the pool is open, and once it is closed nothing new is connected.
`ModbusPool` and `S7Pool` implement it with the map as `held`, the connected clients as
`links`.

### TagAccess

A tag has an area, an address, a size, a byte order and a bit; a device is a set of tags
that meet.  Memory is symbolic: a bit holds the symbol of its place or of the write that
set it, so that two values are equal only if they are made of the same bits in the same
order.  `list`, `todo`, `got`, `resultMap` and `points` are the locals of `ReadTags` and the
functions it calls; `mode` is where the call is.  `Nil` is a nil entry of the result:
`ReadTag` of S7 returns nil when it cannot even try, and the fallback appends it.  Addresses wrap at `Space` as the `uint16` of the
code.  A request may fail and the context end at any point, and writes may fall between
the requests of a read.

### HealthChecker

`loop` is where `checkLoop` is, `job` the goroutine of each check in the round,
`failing` the two flags of `runChecks` (a set of severities).  `up` is the
environment.

### DeviceManager

`call` is the API call that holds `dm.mu`.  `file` is the content of the device file,
`Stored` what a round trip through it keeps, `Loads` what `LoadDevices` accepts.
`polled` is the polling service by what its operations promise; their inside is
`PollingService`.

### OpcuaSessions

`sessions` and `devices` are the maps of the pool, `obj` the `pooledSession`
objects by number: a caller (`found`) or the health check (`check`) goes on with an
object that has left the map.  `p.mu` is held by `GetClient` from beginning to end,
so that each of its ways is one action; what follows it (`pc`) takes the mutexes
again.  `Retry`, `Disconnect` and `Reconnect` are the three times `Client.reconnect`
takes the client's mutex.  Time is two flags per session, compared with `IdleTimeout`
only.  Backoff and breakers are the choice `ok` or `Refused`.  `BrowseNodes` is reached
by the API only and needs no binding of its own.

### OpcuaLoad

`pc` is where a caller is in `checkGlobalLoadAndQueueWithSession`, `cur` the load it
read, `wpc` the level of select a worker is at.  A request keeps its place in the
queue when its caller gives up (`ended`).  A select with several ready cases is a
choice.  `SendPanics` is the send on a closed channel, after which nothing runs.
`Calls` says which operations a caller may ask for.

## 3. Runs

| Run | Properties | What it shows |
|---|---|---|
| `Polling` | `SinglePoller`, `UnregisteredStops`, `PushExcludesPolling`, `UnregisteredExits`, `StopDrains` | A device changing between polling, push mode and no enabled tag, poll cycles of any length, API calls before, during and after Stop: goroutines beyond one per devicePoller, orphans and polling in push mode are all owed to a wait that timed out; under fair scheduling an unregistered device's goroutine exits when no wait did, and Stop's cancellation empties the service. |
| `Command` | `Accounted`, `WritesInOrder`, `AnsweredOnce`, `QueuedHandled`, `StopReturns` | One processor, three deliveries, a queue of two, devices that come and go, a Start that may be refused, responses that fail or never return, Stop at any moment: accounting, order of writes and at most one answer each; and as long as responses return, every queued command is handled unless Stop is called, and Stop returns. |
| `Mqtt` | `ImplementsLossyDelivery`, `CallsReturn`, `BufferDrains` | Three producers and a buffer of one, a loss of the link at any moment, publishes that time out, Connect, Disconnect and Connect again: the publisher implements LossyDelivery (each message is pending in one place until it is delivered once or dropped), Publish and Disconnect return, and a stable link empties the buffer. |
| `Shutdown` | `NoUseAfterClose`, `NoProducerAtDisconnect`, `ShutdownEnds` | Two pollers, a push device, two requests and the command processor while main shuts down, some of them slower than its 30s: until shutdownCtx expires nothing uses a closed pool or publisher and nobody publishes once the publisher flushes; commands never do; and the process ends as long as responses to commands return. |
| `Modbus` | `BreakerTrips`, `ImplementsDevicePool`, `CallsReturn`, `DeviceRecovers` | A poll and a command on one device, or polls of two devices with one connection for both, with the health check, the reaper and Close while the network comes and goes: the pool keeps the promise of DevicePool, a breaker opens when all requests it counted failed, every operation and Close return, and a device that is back, and that commands leave alone, loses its broken connection to the reaper. |
| `S7Pool` | `NoNilEntry`, `ImplementsDevicePool`, `DeviceRecovers` | A poll and a command on one device, or polls of two devices with one connection for both, with eviction, the health check, the reaper, a new address and Close while the network comes and goes: the pool keeps the promise of DevicePool, no operation goes on without an entry, and a device that answers does not keep an entry that cannot reach it. |
| `OpcuaLoad` | `InFlightAccounted`, `SafetyServed`, `BrownoutEnds` | A poller, a writer of commands and a reader of safety tags on one endpoint, two operations at most at once, queues of one place and one worker, contexts that end, breakers that open, Close at any moment: the counter of operations in flight is exact, a queued safety operation is answered, and brownout mode ends when the load goes. |
| `OpcuaSessions` | `BindingsAgree`, `SubscriptionsLive` | Two devices that move between three endpoints in a pool of two sessions, two callers, reconnections by callers and by the health check, the reaper and Close: the two maps agree, and no session of the pool has a subscription on a dead client. |
| `Health` | `StateFollows`, `ShutdownIsFinal`, `ReadinessConverges` | Two critical checks and one of severity warning that fail and recover at any time, a threshold of two, Stop in the middle of a round: the state and the cached report follow the last round, a round never brings the service back from Stop and readiness converges. |
| `Devices` | `PollingAgrees`, `Persisted` | Two devices added, changed and deleted with six kinds of configuration, saves that fail before or in the middle of the write, the process killed at any point and started again: between calls the API, the file and the polling service agree. |
| `DevicesRestart` *(violation)* | `StartsAgain` | A device that the API accepts and saves makes the next start of the gateway fail. |
| `TagAccess` | `GoodValuesRight`, `AllTagsAnswered`, `WriteReadsBack` | Every list of up to three tags of five devices, whose tags touch, overlap, contain one another, go beyond the last address or have none, read while requests fail, the context ends and up to two writes fall between the requests: each tag is answered once, or, on S7 after a failure, by nil; good points hold what the device holds, but for the defects the property names; and a value written is read back. |

A run marked *violation* checks one statement of a document or comment that the
code does not keep; `findings` in `PROJECT.json` quotes the statement and says
where the code departs from it.

### Bounds

Two devices, or two of whatever competes, are enough for each interleaving the
properties are about: a property relates at most two goroutines of one object, or
two objects.  `Polling` has two poller objects and two goroutines, so that a device can
be removed and registered again while the old goroutine is still there; `MaxLate` is the
number of waits that time out per poller, one being enough to leave a goroutine beside its
successor.  Queues and buffers have one or two places, so that full and empty
both happen, with at least one message more than places.  `MaxLosses`,
`MaxConnects`, `MaxMsgs` and `MaxCommands` bound counters of the environment.
Breakers have a threshold of two and count at most `MaxCounted` requests
before their interval clears them.  `OpcuaSessions` has three endpoints for two
places, and `MaxSessions` objects, so that the pool is full, devices move, and a
reaped session is made again.  `OpcuaLoad` has one caller of each priority, and
limits of two, so that the third caller meets the hard limit.  `OpcuaSessions`, which has
no liveness property, uses symmetry.  `Modbus` and `S7Pool` have room for one connection
and two objects: an operation, or the health check, holds on to an object that was dropped
while another is in the pool.  In `TagAccess` a space of 12 addresses, ranges of at most 4
and gaps of 1 let tags merge, not merge, fill a range and reach beyond the last address;
three tags are enough for one that lies inside another and one that follows; `MaxTags`
bounds the tags of the list and the writes together.

### Fairness

Weak fairness on the steps of goroutines and of main: Go schedules every runnable
goroutine, and the calls of devices and of servers, `Publish` of the publisher and the
health checks have a timeout in the code.  Sending a response to a command has none
(`command_handler.go:485`), so `Respond`, `RejectFull` and `CommandAnswered` have no fairness:
`QueuedHandled`, `StopReturns` and `ShutdownEnds` say "as long as responses return".  Strong fairness where a select has several ready cases (it
picks at random, so a closed channel is not passed over for ever) and where a
mutex is contended (Go's mutex hands over after a millisecond of waiting).
Nothing is assumed of the environment: devices, broker and clients of the API may
stop at any time; in the pools tickers tick, idle times pass and breakers' timeouts end;
`DeviceRecovers` and `BufferDrains` are conditional on a network
that stays up, `DeviceRecovers` of `ModbusPool` also on a device that commands leave alone,
since a command refreshes `lastUsed` and keeps the reaper away.  In `OpcuaLoad` operations end (their requests have a timeout) and the
health loop ticks; contexts need not end, and breakers may change or not.

## 4. Proofs

| Module | Theorems | Assumption |
|---|---|---|
| `PollingServiceProofs` | `TypeCorrect`, `WorkersAreBounded` | none |
| | `SinglePollerHolds`, `UnregisteredStopsHolds`, `PushExcludesPollingHolds` | none |
| `CommandHandlerProofs` | `TypeCorrect`, `CommandsAccounted`, `LimitsHold`, `OneAnswer` | none |
| | `WritesKeepOrder` | one processor |
| `MqttPublisherProofs` | `TypeCorrect`, `ImplementsLossyDeliveryHolds` | none |
| `GatewayProofs`: shutdown | `GatewayTypeCorrect`, `NoUseAfterCloseHolds`, `NoProducerAtDisconnectHolds` | none |
| health checker | `HealthTypeCorrect`, `StateFollowsHolds`, `ShutdownIsFinalHolds` | none |
| device manager | `DeviceTypeCorrect`, `PollingAgreesHolds`, `PersistedHolds` | none |
| tag access | `AllTagsAnsweredHolds`, `GoodValuesRightHolds`, `WriteReadsBackHolds` | none |
| `S7PoolProofs` | `TypeCorrect`, `NoNilEntryHolds`, `CapacityHolds`, `Refinement` | none |
| `ModbusPoolProofs` | `TypeCorrect`, `BreakerTripsHolds`, `Refinement` | none |
| `OpcuaSessionsProofs` | `TypeCorrect`, `BindingsAgreeHolds`, `SubscriptionsLiveHolds` | none |
| `OpcuaLoadProofs` | `TypeCorrect`, `InFlightAccountedHolds` | none |

All of them are for any finite number of devices, goroutines, commands and pools.
A `TypeOK` that is proved is not repeated in a run.  "None" in the last column: nothing
beyond the `ASSUME` of the component's module, which TLC evaluates in its run and which
only says what kind of value a constant is (positive limits, disjoint names; for tags,
what `ValidateForProtocol` and `parseSymbolicAddress` accept, and that a range and one more
tag are smaller than the 65536 addresses).  Shutdown, health checker,
device manager and tag access share a module of proofs; their specifications have no
variable and no definition in common.

*Polling.*  `IInv` adds to the types that a poller's owner matches the map and
that the holder of `s.mu` works on a poller it may work on (`OwnerInv`, `LockInv`):
without them a step of `startDevicePoller` could start a second goroutine or
subscribe an unregistered device.  `running` is not true exactly while a goroutine lives:
the deferred `running = false` of an old goroutine arrives late.  `RunningInv` says which
way it may err: a `devicePoller` has one goroutine more than `late` only while the flag is
set, no more than `late` wait on a replaced channel that nobody will close, and
a poller that was removed, or is being stopped, has the flag off or its channel closed.
So the test of `running` in `startDevicePoller`, `UnregisterDevice` and
`stopAndResetPoller` adds a goroutine, or passes one over, only where a wait that timed out
accounts for it.

*Commands.*  `PlaceInv` says that every command received is in one place only: in the
queue, with one processor, with the callback that rejects it, or answered.
Accounting and single answers follow from it; `OrderInv` adds that places are
ordered by number.  `LifeInv` ties `running`, the subscriptions and
the processors to how far `Start` and `Stop` got, failed attempts included.

*Publisher.*  The refinement needs that a step which settles a message leaves it nowhere
else.  `PlaceInv` says that a message is in the hands of its producer, in the buffer or
with `processBuffer`, in one of them and once; `HeldInv` and `PhaseInv` say when
`processBuffer` holds one, and `SentInv` that whatever is known of was passed to `Publish`,
so that the next message is new.  Each step moves one message at most (`Moved`), and is an
`Accept`, `Deliver` or `Lose` of it, or a stutter.

*Shutdown.*  `StopInv` says which actors are gone at each step of main.  Each step
of main establishes one more of its conjuncts (`MainStops`), and no other action
brings an actor back (`WorkKeepsStopped`).  The invariant holds until `shutdownCtx`
expires, except for the command processor, which main waits for without a deadline.

*Health.*  `RoundInv` ties the flags to the checks that have ended in the round,
`StateInv` the state to the rounds and to `Stop`.

*Devices.*  `CallInv` says that the call in progress accounts for every difference
between the map, the file and the polling service, with the old entry the call
remembers; `FileInv` that a restart reads back what was written.

*OPC UA sessions.*  The types say that `sessions[e]` is an object made for `e`, so that
two endpoints never share one; with that `BindingsAgree` is inductive.
`SubscriptionsLive` is not: `Client.reconnect` disconnects a client without looking.
`LiveInv` adds that a client in use whose session is pooled is connected (`UseLive`)
and that a client being reconnected has left the pool (`RetryGone`); sessions never
come back to the pool.

*OPC UA load.*  `InFlightAccounted` counts callers, queues and workers.  A worker that
answers sends a caller back, which must not take it out of an operation that is
counted: `PlaceInv` says that a request whose context has not ended belongs to a
caller that waits, and that no caller has two.

*Tag access: reading.*  The invariant of a call, `ReadInv`, says for each way of reading
where every tag is.  On the way of Modbus (`Progress`) a tag has a point, in the result
when its area is done and in `got` when it is not, or waits in exactly one range; areas
stay together (`Together`), so that a group that is cancelled can be replaced as a whole;
on the optimized way of S7 a tag is in `resultMap` or waits; in the fallbacks the first
tags are answered, in order, and the others wait.  At the end nothing waits, which is
`AllTagsAnswered`; only `ReadSingle`, after a batch failed, leaves nil at a place.
That the sorted tags are divided into ranges at all, each in one (`RangesDivide`), and that a range covers its tags (`RangeOK`) rests on `GrowRange`: the
`uint16` sums of `buildContiguousRanges` keep a range covering its tags, also when one of
them wraps round the last address, in which case the whole range wraps and is refused
(`Wraps`) or the tag alone gets a bad point.  `GoodValuesRight` follows from the answers
to one range: `CoilAnswer` for the packed bits, `ItemAnswer` for S7, where a boolean in an
item of its own is right or `Masked`, and `RegisterAnswer`,
for which `Untouched` says that the buffer still holds what was read for a tag that is not
`Disturbed`: only tags before it that overlap it, in another byte order, have moved its
bytes.  The loops over lists are recursive functions; the proofs about them do not use
induction theorems, which take operators, but the least number at which a claim would
fail (`LeastNumber`, from `WFMin`), and `LoopRuns`, that the sequence of states of a loop
exists, so that the function defined by recursion is it.

*Tag access: writing.*  `TagInv` is `WriteReadsBack` and that only tags of the device are written.
Three facts make it inductive, each a lemma about the operators: a byte order is its own
inverse (`SourceTwice`), so that `reorderBytes` of a read undoes that of the write; what a
tag reads depends on the bits of its `Footprint` only (`ReadsFootprint`), so that it is
not changed by a write elsewhere; and a write changes only the bits of the tag's
`Footprint` (`Changes`), which for a boolean of a data block means that
`writeBoolWithRMW` writes the other bits of the byte as it has read them.

*S7 pool.*  `NoNilEntry` is about the second look into the map, which the code makes
without a test.  `OpInv` has the reason why it finds the entry: what `GetOrCreate` has
just returned is in the map and its `lastUse` is new, so that neither an eviction nor the
reaper, which take idle entries only, may remove it before it is used, and `Close` comes
after the last operation.  The refinement needs `Distinct`, no client serves two devices,
so that the entry that is taken out is not the link of another one, and `Capacity`: an
eviction makes room for exactly one insertion, also when the dial fails.

*Modbus pool.*  `BreakerTrips` compares a breaker with what really happened to its
requests.  `Balance` keeps its books: requests counted are those that failed, succeeded or
are in flight; failures are the tally as long as nothing else was seen; and a closed
breaker with a full tally waits for a request still, since gobreaker trips on the failure
that completes it.  A step has one of five fates for a client (`Fate`: nothing, new
counts, a request taken, succeeded, failed), and each keeps the balance.  The refinement
classifies each step by what it does to the map (`MapStep`); it needs that `GetClient` holds
`p.mu` while it dials and that a command is not in progress once the pool is closed, so that
nothing is connected afterwards.

`WorkersAreBounded` is proved only: no run repeats it.

Model-checked only: liveness, which needs fairness and is out of the prover's reach.  Every
other property of a passing run is stated by a theorem.

## 5. Observations

Behaviour met while modelling that no run keeps as a statement of its own:

* a poll cycle longer than the five seconds of `stopAndResetPoller`
  (`polling.go:410`) leaves a goroutine that finds the new `stopChan` when it enters its
  `select` again, and goes on beside its successor; when either leaves, the deferred
  `running = false` makes a later `UnregisterDevice` skip the close of `stopChan`, and the
  other polls a removed device until `Stop`.  The properties of `PollingService` say that
  this is the only way;
* an `Unsubscribe` that fails, or looks at another session than the one that holds the
  subscription (`opcua/pool.go:690-707`), is logged or ignored (`polling.go:279-281`, `:319`,
  `:352`, `:370`) and the flag is cleared: the old subscription goes on pushing, beside the
  poller when the device now polls;
* a refused subscription leaves the command processor and perhaps one topic running with
  `running` false, so `Stop` returns at once (`command_handler.go:204`, `:223`) and commands
  go on being written, though `main.go` has logged that write operations are disabled;
* `sendResponse` waits for the broker without a timeout (`command_handler.go:485`): with
  QoS 1 and the broker away the processor, `Stop` and main may hang, and so may the callback
  that rejects a command of a full queue, in which paho delivers everything in order.  A failed
  publish is logged and the sender of the command learns nothing (`:486`);
* `Stop` of the command handler cancels before it unsubscribes, so a command that
  arrives in between is queued and never answered (`command_handler.go:227`);
* `processBuffer` puts a message back behind newer ones (`publisher.go:470`), and
  returns without draining when `done` is closed during its backoff (`:477`);
* `Connect` sets the flag after the token (`publisher.go:272`); a link lost before
  that leaves the flag set over a dead link until the library reconnects;
* a publish that fails after the flag was read as set is reported and not buffered
  (`publisher.go:322`, `:353-380`), though `docs/pages/protocol_adapters.md:663`
  promises "no data loss during transient network issues"; such a message is in
  `lost`;
* `RecoveryThreshold` of the health checker is never used (`health/checker.go:327-341`):
  one success makes a check healthy, where `checker.go:104` and
  `docs/pages/observability_infrastructure.md:359` ask for two;
* a critical check that fails from the start leaves the service running and ready
  until it failed `FailureThreshold` times (`health/checker.go:315-325`);
* `SaveDevices` writes the file in place (`config/devices.go:383`): killed between
  the truncation and the write, the gateway starts with no devices; and
  `circuit_breaker`, `serial_port`, the S7 timeout and the priority of a tag have no
  place in the file, so a restart forgets them (`Stored`);
* an update to a protocol without a pool is refused by the callback after it was
  saved (`main.go:218-224`): the old configuration goes on being polled, the
  exception in `PollingAgrees`;
* nothing tells a pool that a device changed: `RemoveClient` has no caller, and the
  connection to the old host is used until the reaper takes it, though
  `polling.go:336-337` says the next poll uses the new connection; the command
  handler keeps the device list of the start (`main.go:289`);
* the HTTP and polling steps of shutdown share one context of 30s (`main.go:475`);
  when it expires the pools are closed under a poll cycle, which is why
  `NoUseAfterClose` excuses pollers and requests after `Expire`;
* the health checks of both pools may reconnect a client that the reaper has just removed
  (`modbus/pool.go:579-590`, `s7/pool.go:604`); nobody closes that connection;
* polls do not refresh `lastUsed` (`modbus/client.go:219-245`), so the reaper closes
  connections in use (`modbus/pool.go:644`); it is also the only thing that ends a
  broken connection, see `DeviceRecovers`.  Commands do refresh it (`:849`), and their errors
  are wrapped with `%v` (`:962`, `:982`, `:991`), which hides an EOF or a timeout from
  `isConnectionError`: steady commands keep a broken connection for ever;
* a poll cycle reads `dp.device` afresh at each use (`polling.go:554`, `:573`, `:646`),
  so a cycle under way when `ReplaceDevice` swaps it publishes values of the old tags
  under the new topic prefix, though `polling.go:298-302` speaks of an atomic update
  seen by the next cycle;
* `Client.ReadTags` turns errors into data points of bad quality and returns nil
  (`modbus/client.go:219-245`): failed polls count as successes of the breaker, and
  the thresholds of `docs/pages/resilience_patterns.md:59-60` hold for writes only;
* `recordPublishActivity` is called by `SubscribeDevice` only (`opcua/pool.go:678`), so a
  session used for push alone is reaped `IdleTimeout` after it subscribed, against
  `opcua/health.go:336` ("Does NOT reap sessions with active subscriptions"), and the
  polling service does not learn of it;
* the OPC UA health check, or the retry of a failed operation, may reconnect a
  session reaped meanwhile (`opcua/health.go:264`, `client.go:1497`); nobody closes that
  connection, and a subscription made on it may lose its client: `SubscriptionsLive` is
  about sessions in the pool;
* `UnsubscribeDevice` looks at the session the device is bound to now: after a move the
  subscription on the old session stays (`opcua/pool.go:690`);
* `checkGlobalLoadAndQueueWithSession` tests `closed` before it sends
  (`opcua/loadshaping.go:178-201`); `Close` may close the channel in between, and the
  send panics (`SendPanics`), though `:180` says the test rules it out;
* a safety operation is refused when its queue is full or its breaker open
  (`opcua/loadshaping.go:210`), though `docs/pages/protocol_adapters.md:336` says "Never dropped";
  `SafetyServed` is about operations that were queued;
* brownout mode cannot end when half the threshold rounds down to zero
  (`opcua/loadshaping.go:233` and `:252`): `BrownoutEnds` says nothing then;
* when the server refuses a subscription, `startDeviceSubscription` logs "falling back to
  polling" (`polling.go:511`) and calls `startDevicePoller` (`:516`), which for a push
  device calls `startDeviceSubscription` again (`:432`), with `s.mu` held: it does not
  poll, and recurs as long as the server refuses.  In `PollingService` the subscription
  is simply tried again;
* `reorderBytes` reverses in place (`modbus/conversion.go:77`), in the buffer that all tags
  of a range share: a tag that overlaps an earlier one of another byte order is parsed
  from moved bytes and published as good (`Disturbed`);
* a boolean with a bit position is read from its bit and written as the whole register
  (`modbus/conversion.go:159`), and a tag with more registers than its type needs is not
  read back as written in the orders that swap registers (`Asymmetric`);
* the multi-variable read of S7 asks for a boolean as a bit (`s7/client.go:472-484`,
  `:552-553`), gets 0 or 1, and masks it with `1 << bitOffset` (`s7/conversion.go:27`): in the
  fallback a boolean at bit 1 or above is false with good quality (`Masked`);
* `readTagsFallback` appends what `ReadTag` returns, nil when the client is not connected or
  its context ended (`s7/client.go:151`, `:178`, `:426`); the polling service skips it
  (`polling.go:641`), so that the tag has no point of bad quality either;
* the single read and the write of S7 use the inputs for every area that is not a data
  block (`s7/client.go:866-872`, `:929-934`), though `isTagWritable` says "DB, Merkers, and
  Outputs are writable": a merker reads right in a batch and wrong after the last fallback
  (`Misread`);
* a tag of several coils that begins before the last coil and ends beyond it is merged with
  a neighbour into a range that ends at the neighbour (`modbus/client.go:632-640`), and is read
  from the answer, or from the bits that fill up its last byte, with good quality; alone it is
  refused.  `GoodValuesRight` leaves it out (`Nowhere`);
* nothing refuses two tags of a device with the same ID; `resultMap` has one place for both
  (`s7/client.go:277`), so that S7 returns one point twice.  Tags of a call are told apart
  by their position in the model, that is, they have different IDs;
* `Client.ReadTag` of Modbus refuses a tag that ends at the last register
  (`modbus/client.go:334`), which a batch reads;
* a register in a gap between two tags that the device does not have makes every tag of
  the range bad; nothing splits the range again (`modbus/client.go:450-461`);
* `register_count` has no upper bound in the validation: a count beyond a range makes the
  sums wrap.  `BatchAssumption` leaves that out;
* a change of an S7 boolean reads and writes a byte (`s7/client.go:946`): a bit the PLC
  program changes in between is lost.  `WriteReadsBack` is about the gateway's own writes,
  which the client's mutex keeps apart;
* `GetOrCreate` of the S7 pool does not ask whether the pool is closed (`s7/pool.go:121`):
  only the order of shutdown keeps it from connecting after `Close`; the breaker settings
  of `PoolConfig` are not used (`:140-241` has its own);
* the S7 health check passes over clients whose breaker is open (`s7/pool.go:611`), and
  failing polls open it again each time it probes: a broken connection may stay until the
  reaper takes it, and so may a connection to the old address of a device that moved;
* `GetClient` dials with the pool's mutex held (`modbus/pool.go:145`, `:162`), so a
  device that does not answer delays all others by the connection timeout.

## 6. Not modelled

Configuration files, certificates and trust store, metrics, logging, HTTP
middleware: input and output without control of their own.  Statistics counters
and jitter.  The MQTT, Modbus, S7 and OPC UA libraries and gobreaker are external
and modelled from how the code uses them.  A goroutine that captured a
`goburrow` client before `Disconnect` could dial again through it; the library
closes that connection by its own idle timer, and it is left out.  The conversion of
numbers and their scaling: floating-point arithmetic is out of TLC's reach.  Handlers of
the API that only read, NTP arithmetic, and functions no code calls.

## 7. Plan

Order of work, most important behaviour first:

1. done: the path of data and of commands (`PollingService`, `CommandHandler`,
   `MqttPublisher`), shutdown, the Modbus pool, the OPC UA sessions and load shaping,
   the health checker, the device manager with its file;
2. done: the S7 pool, the ranges and conversions of Modbus and S7 (`TagAccess`), and the
   abstract specifications `LossyDelivery` and `DevicePool` with their refinements;
3. done: the proofs that `ReadTags` answers every tag, and rightly, that `MqttPublisher` implements `LossyDelivery`, that `ModbusPool` and
   `S7Pool` implement `DevicePool`, of the breakers of `ModbusPool`, and that tags read
   back what was written to them;
4. the device list of the command handler and the connections of the pools composed with
   the device manager: which host a write reaches after an update;
5. the two tiers of OPC UA breakers and the contents of subscriptions.
