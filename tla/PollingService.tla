--------------------------- MODULE PollingService ---------------------------
(***************************************************************************)
(* The device poller lifecycle of internal/service/polling.go.             *)
(*                                                                         *)
(* A PollingService keeps one devicePoller object per registered device.   *)
(* A device is served either by a poller goroutine (tick, take a worker    *)
(* slot, read, publish) or by a push subscription held by the subscription *)
(* handler.  RegisterDevice, UnregisterDevice and ReplaceDevice run under  *)
(* the service mutex s.mu, which ReplaceDevice keeps while it waits for an *)
(* old goroutine to exit and startDeviceSubscription keeps while it calls  *)
(* the OPC UA server.  Poller goroutines never take s.mu, so they          *)
(* interleave with all of this.                                            *)
(*                                                                         *)
(* Time is abstracted: a ticker may fire whenever its goroutine is in      *)
(* select, and the 5s wait of stopAndResetPoller may end at any moment     *)
(* (the jitter sleep, a slow read and one 5s publish after another all     *)
(* outlast it).  late counts those waits.  What the handler holds is left  *)
(* out: an error of Unsubscribe is ignored, so dp.subscribed is all the    *)
(* service knows.  Statistics counters are left out.                       *)
(***************************************************************************)
EXTENDS Naturals, FiniteSets

CONSTANTS
    Devices,       \* device IDs
    Pollers,       \* devicePoller objects; a garbage object may be reused
    Routines,      \* poller goroutines; the id of one that exited is reused
    WorkerCount,   \* config.WorkerCount, the capacity of the workerPool channel
    Configs,       \* device configurations, see ConfigsAssumption
    MaxLate,       \* bound on the waits that time out, per devicePoller
    None           \* the nil value

ASSUME ConfigsAssumption ==
    /\ Configs # {}
    /\ Configs \subseteq [interval: Nat, sub: BOOLEAN, tags: BOOLEAN]

ASSUME PoolAssumption ==
    /\ WorkerCount \in Nat \ {0}
    /\ IsFiniteSet(Routines)
    /\ MaxLate \in Nat
    /\ None \notin Pollers

VARIABLES
    devices,     \* s.devices: device ID -> devicePoller or None
    device,      \* dp.device: the configuration in force
    running,     \* dp.running
    subscribed,  \* dp.subscribed
    stopped,     \* the current dp.stopChan is closed (dp.stopOnce is done)
    late,        \* history: waits of stopAndResetPoller that left a goroutine
    muPc,        \* what the holder of s.mu is doing
    muDp,        \* the devicePoller it is doing it to
    todo,        \* devicePollers startDevicePoller is still to be called for
    pc,          \* position of each poller goroutine
    of,          \* the devicePoller a goroutine belongs to
    sig,         \* the stopChan a goroutine in select waits on, see StopSeen
    workerPool,  \* goroutines holding a token of the workerPool channel
    ctx,         \* s.ctx: "nil" before Start, "live", "done" once cancelled
    started,     \* s.started
    stopPc       \* progress of Stop

dpVars == <<devices, device, running, subscribed, stopped>>
muVars == <<muPc, muDp, todo>>
goVars == <<pc, of, sig, workerPool>>
svcVars == <<ctx, started, stopPc>>
vars == <<dpVars, late, muVars, goVars, svcVars>>

-----------------------------------------------------------------------------

Live(g) == pc[g] # "free"
LiveOf(dp) == {g \in Routines : Live(g) /\ of[g] = dp}
Registered(dp) == \E d \in Devices : devices[d] = dp

\* A devicePoller nobody refers to: its memory may be allocated again.
Garbage(dp) == ~Registered(dp) /\ LiveOf(dp) = {}

\* dp.device.Connection.OPCUseSubscriptions, for an OPC UA device with a
\* subscription handler set.
WantsSubscription(cfg) == cfg.sub

\* select evaluates dp.stopChan when it is entered, so a goroutine already in
\* select keeps waiting on a channel that stopAndResetPoller has replaced:
\* "cur" is the current channel, "closed" and "open" are replaced ones.
StopSeen(g) == \/ sig[g] = "closed"
               \/ sig[g] = "cur" /\ stopped[of[g]]

Init ==
    /\ devices = [d \in Devices |-> None]
    /\ device = [dp \in Pollers |-> None]
    /\ running = [dp \in Pollers |-> FALSE]
    /\ subscribed = [dp \in Pollers |-> FALSE]
    /\ stopped = [dp \in Pollers |-> FALSE]
    /\ late = [dp \in Pollers |-> 0]
    /\ muPc = "free"
    /\ muDp = None
    /\ todo = {}
    /\ pc = [g \in Routines |-> "free"]
    /\ of = [g \in Routines |-> None]
    /\ sig = [g \in Routines |-> "cur"]
    /\ workerPool = {}
    /\ ctx = "nil"
    /\ started = FALSE
    /\ stopPc = "no"

-----------------------------------------------------------------------------
(* Service lifecycle                                                       *)

\* Start: main calls it once, after the initial registrations.
Start ==
    /\ muPc = "free" /\ ~started /\ ctx = "nil"
    /\ ctx' = "live"
    /\ started' = TRUE
    /\ todo' = {dp \in Pollers : Registered(dp)}
    /\ muPc' = IF todo' = {} THEN "free" ELSE "start"
    /\ UNCHANGED <<dpVars, late, muDp, goVars, stopPc>>

\* Stop, up to the wait for the pollers.
StopCancel ==
    /\ started /\ stopPc = "no"
    /\ ctx' = "done"
    /\ stopPc' = "waiting"
    /\ UNCHANGED <<dpVars, late, muVars, goVars, started>>

\* Stop: wg.Wait returned.
StopDone ==
    /\ stopPc = "waiting"
    /\ \A g \in Routines : ~Live(g)
    /\ stopPc' = "clean"
    /\ started' = FALSE
    /\ UNCHANGED <<dpVars, late, muVars, goVars, ctx>>

\* Stop: the shutdown context expired first.
StopTimeout ==
    /\ stopPc = "waiting"
    /\ stopPc' = "timeout"
    /\ started' = FALSE
    /\ UNCHANGED <<dpVars, late, muVars, goVars, ctx>>

-----------------------------------------------------------------------------
(* Device registration, under s.mu                                         *)

\* main wires the API after Start: only RegisterDevice is called before it.  API
\* calls still run while Stop does, and after it, when the server's own shutdown
\* timed out.
RegisterDevice(d, cfg) ==
    /\ muPc = "free"
    /\ devices[d] = None
    /\ \E dp \in Pollers :
          /\ Garbage(dp)
          /\ devices' = [devices EXCEPT ![d] = dp]
          /\ device' = [device EXCEPT ![dp] = cfg]
          /\ running' = [running EXCEPT ![dp] = FALSE]
          /\ subscribed' = [subscribed EXCEPT ![dp] = FALSE]
          /\ stopped' = [stopped EXCEPT ![dp] = FALSE]
          /\ late' = [late EXCEPT ![dp] = 0]
          /\ todo' = IF started THEN {dp} ELSE {}
    /\ muPc' = IF started THEN "start" ELSE "free"
    /\ UNCHANGED <<muDp, goVars, svcVars>>

\* Variant: the device is removed and its stop channel is left open.
UnregisterDeviceNoClose(d) ==
    /\ muPc = "free" /\ ctx # "nil" /\ devices[d] # None
    /\ LET dp == devices[d] IN
          /\ subscribed' = [subscribed EXCEPT ![dp] = FALSE]
          /\ devices' = [devices EXCEPT ![d] = None]
    /\ UNCHANGED <<device, running, stopped, late, muVars, goVars,
                   svcVars>>

\* UnregisterDevice, and ReplaceDevice with a disabled device.
UnregisterDevice(d) ==
    /\ muPc = "free" /\ ctx # "nil"
    /\ devices[d] # None
    /\ LET dp == devices[d] IN
          /\ subscribed' = [subscribed EXCEPT ![dp] = FALSE]
          /\ stopped' = [stopped EXCEPT ![dp] = @ \/ running[dp]]
          /\ devices' = [devices EXCEPT ![d] = None]
    /\ UNCHANGED <<device, running, late, muVars, goVars, svcVars>>

\* ReplaceDevice without a mode or interval change: the device pointer is
\* swapped and a running goroutine picks it up at its next read of dp.device.
ReplaceInPlace(d, cfg) ==
    /\ muPc = "free" /\ ctx # "nil"
    /\ devices[d] # None
    /\ LET dp == devices[d] IN
          /\ ~subscribed[dp] /\ ~WantsSubscription(cfg)
          /\ device[dp].interval = cfg.interval \/ ~started
          /\ device' = [device EXCEPT ![dp] = cfg]
    /\ UNCHANGED <<devices, running, subscribed, stopped, late, muVars,
                   goVars, svcVars>>

\* ReplaceDevice that must restart: the pointer is swapped, an existing
\* subscription is dropped, and stopAndResetPoller closes the stop channel of
\* a running poller and begins to wait for it.
ReplaceRestart(d, cfg) ==
    /\ muPc = "free" /\ ctx # "nil"
    /\ devices[d] # None
    /\ LET dp == devices[d] IN
          /\ \/ subscribed[dp] \/ WantsSubscription(cfg)
             \/ device[dp].interval # cfg.interval /\ started
          /\ device' = [device EXCEPT ![dp] = cfg]
          /\ subscribed' = [subscribed EXCEPT ![dp] = FALSE]
          /\ stopped' = [stopped EXCEPT ![dp] = @ \/ running[dp]]
          /\ muDp' = dp
    /\ muPc' = "stopwait"
    /\ UNCHANGED <<devices, running, late, todo, goVars, svcVars>>

\* Goroutines in select on the channel being replaced keep waiting on it.
Detach(dp) ==
    sig' = [g \in Routines |->
              IF pc[g] = "select" /\ of[g] = dp /\ sig[g] = "cur"
              THEN IF stopped[dp] THEN "closed" ELSE "open"
              ELSE sig[g]]

\* The end of stopAndResetPoller: a fresh stopChan and stopOnce, after which
\* ReplaceDevice calls startDevicePoller.
ResetPoller(dp) ==
    /\ Detach(dp)
    /\ stopped' = [stopped EXCEPT ![dp] = FALSE]
    /\ todo' = {dp}
    /\ muPc' = "start"
    /\ muDp' = None
    /\ UNCHANGED <<devices, device, subscribed, pc, of,
                   workerPool, svcVars>>

\* Variant: the stop channel is replaced without waiting for the goroutine.
StopWaitNone ==
    /\ muPc = "stopwait"
    /\ ResetPoller(muDp)
    /\ running' = [running EXCEPT ![muDp] = FALSE]
    /\ UNCHANGED late

\* stopAndResetPoller saw running become false (or it never was true).
StopWaitDone ==
    /\ muPc = "stopwait" /\ ~running[muDp]
    /\ ResetPoller(muDp)
    /\ UNCHANGED <<running, late>>

\* stopAndResetPoller gave up after 5s and forces running to false.  A
\* subscribed devicePoller has running set and no goroutine that would ever
\* clear it, so its replacement always takes this path; otherwise a goroutine is
\* left behind.
StopWaitTimeout ==
    /\ muPc = "stopwait" /\ running[muDp]
    /\ IF LiveOf(muDp) = {}
       THEN UNCHANGED late
       ELSE /\ late[muDp] < MaxLate
            /\ late' = [late EXCEPT ![muDp] = @ + 1]
    /\ ResetPoller(muDp)
    /\ running' = [running EXCEPT ![muDp] = FALSE]

-----------------------------------------------------------------------------
(* startDevicePoller and startDeviceSubscription, under s.mu               *)

Done(dp) == /\ todo' = todo \ {dp}
            /\ muPc' = IF todo' = {} THEN "free" ELSE "start"

\* Already running, or subscription mode without an enabled tag.
StartSkipped(dp) ==
    /\ muPc = "start" /\ dp \in todo
    /\ running[dp] \/ (WantsSubscription(device[dp]) /\ ~device[dp].tags)
    /\ Done(dp)
    /\ UNCHANGED <<dpVars, late, muDp, goVars, svcVars>>

StartDevicePoller(dp) ==
    /\ muPc = "start" /\ dp \in todo
    /\ ~running[dp] /\ ~WantsSubscription(device[dp])
    /\ \E g \in Routines :
          /\ ~Live(g)
          /\ pc' = [pc EXCEPT ![g] = "poll"]
          /\ of' = [of EXCEPT ![g] = dp]
    /\ running' = [running EXCEPT ![dp] = TRUE]
    /\ Done(dp)
    /\ UNCHANGED <<devices, device, subscribed, stopped, late, muDp,
                   sig, workerPool, svcVars>>

StartDeviceSubscription(dp) ==
    /\ muPc = "start" /\ dp \in todo
    /\ ~running[dp] /\ WantsSubscription(device[dp]) /\ device[dp].tags
    /\ muPc' = "subscribe"
    /\ muDp' = dp
    /\ UNCHANGED <<dpVars, late, todo, goVars, svcVars>>

SubscribeOk ==
    /\ muPc = "subscribe"
    /\ subscribed' = [subscribed EXCEPT ![muDp] = TRUE]
    /\ running' = [running EXCEPT ![muDp] = TRUE]
    /\ Done(muDp)
    /\ muDp' = None
    /\ UNCHANGED <<devices, device, stopped, late, goVars, svcVars>>

\* The fallback calls startDevicePoller again: dp is still to be started, and
\* its configuration still asks for a subscription.
SubscribeFails ==
    /\ muPc = "subscribe"
    /\ subscribed' = [subscribed EXCEPT ![muDp] = FALSE]
    /\ running' = [running EXCEPT ![muDp] = FALSE]
    /\ muPc' = "start"
    /\ muDp' = None
    /\ UNCHANGED <<devices, device, stopped, late, todo, goVars,
                   svcVars>>

-----------------------------------------------------------------------------
(* The poller goroutine                                                    *)

\* pollDevice is over: its slot is released and the goroutine enters select.
EndPoll(g) == /\ pc' = [pc EXCEPT ![g] = "select"]
              /\ sig' = [sig EXCEPT ![g] = "cur"]
              /\ workerPool' = workerPool \ {g}

\* pollDevice takes a worker slot and collects the enabled tags.
AcquireWorker(g) ==
    /\ pc[g] = "poll"
    /\ Cardinality(workerPool) < WorkerCount
    /\ IF device[of[g]].tags
       THEN /\ workerPool' = workerPool \cup {g}
            /\ pc' = [pc EXCEPT ![g] = "read"]
            /\ UNCHANGED sig
       ELSE EndPoll(g)
    /\ UNCHANGED <<dpVars, late, muVars, of, svcVars>>

\* pollDevice: no free worker (back-pressure), or the service was cancelled.
SkipPoll(g) ==
    /\ pc[g] = "poll"
    /\ ctx = "done" \/ Cardinality(workerPool) >= WorkerCount
    /\ EndPoll(g)
    /\ UNCHANGED <<dpVars, late, muVars, of, svcVars>>

\* ReadTags returned an error, or PublishBatch returned (its error is only
\* logged): pollDevice is over.
FinishPoll(g) ==
    /\ pc[g] = "read"
    /\ EndPoll(g)
    /\ UNCHANGED <<dpVars, late, muVars, of, svcVars>>

Tick(g) ==
    /\ pc[g] = "select"
    /\ pc' = [pc EXCEPT ![g] = "poll"]
    /\ UNCHANGED <<dpVars, late, muVars, of, sig, workerPool,
                   svcVars>>

\* What leaving the goroutine does: the deferred calls clear running.
LeaveSelect(g) ==
    /\ pc' = [pc EXCEPT ![g] = "free"]
    /\ of' = [of EXCEPT ![g] = None]
    /\ sig' = [sig EXCEPT ![g] = "cur"]
    /\ running' = [running EXCEPT ![of[g]] = FALSE]
    /\ UNCHANGED <<devices, device, subscribed, stopped, late, muVars,
                   workerPool, svcVars>>

\* Variant: the select has no case for the stop channel.
ExitOnCancelOnly(g) == pc[g] = "select" /\ ctx = "done" /\ LeaveSelect(g)

\* Variant: the select has no case for the service context.
ExitOnStopOnly(g) == pc[g] = "select" /\ StopSeen(g) /\ LeaveSelect(g)

\* The goroutine returns from its loop.
Exit(g) ==
    /\ pc[g] = "select"
    /\ ctx = "done" \/ StopSeen(g)
    /\ LeaveSelect(g)

-----------------------------------------------------------------------------

Service == Start \/ StopCancel \/ StopDone \/ StopTimeout

Api(d) == \/ UnregisterDevice(d)
          \/ \E cfg \in Configs : \/ RegisterDevice(d, cfg)
                                  \/ ReplaceInPlace(d, cfg)
                                  \/ ReplaceRestart(d, cfg)

Starting == \/ \E dp \in Pollers : \/ StartSkipped(dp)
                                   \/ StartDevicePoller(dp)
                                   \/ StartDeviceSubscription(dp)
            \/ SubscribeOk
            \/ SubscribeFails

StopWait == StopWaitDone \/ StopWaitTimeout

PollCycle(g) == \/ AcquireWorker(g)
                \/ SkipPoll(g)
                \/ FinishPoll(g)

Next == \/ Service
        \/ \E d \in Devices : Api(d)
        \/ Starting
        \/ StopWait
        \/ \E g \in Routines : PollCycle(g) \/ Tick(g) \/ Exit(g)

Spec == Init /\ [][Next]_vars

\* Every call under s.mu returns, reads and publishes end by their timeouts,
\* and Go's select picks uniformly among its ready cases, so a stop signal is
\* not passed over for ever in favour of ticks.
Fairness ==
    /\ WF_vars(Starting)
    /\ WF_vars(StopWait)
    /\ \A g \in Routines : WF_vars(PollCycle(g)) /\ SF_vars(Exit(g))

FairSpec == Spec /\ Fairness
-----------------------------------------------------------------------------
(* Properties                                                              *)

\* Types of the variables.
TypeOK ==
    /\ devices \in [Devices -> Pollers \cup {None}]
    /\ device \in [Pollers -> Configs \cup {None}]
    /\ running \in [Pollers -> BOOLEAN]
    /\ subscribed \in [Pollers -> BOOLEAN]
    /\ stopped \in [Pollers -> BOOLEAN]
    /\ late \in [Pollers -> 0 .. MaxLate]
    /\ muPc \in {"free", "start", "subscribe", "stopwait"}
    /\ muDp \in Pollers \cup {None}
    /\ todo \subseteq Pollers
    /\ pc \in [Routines -> {"free", "poll", "read", "select"}]
    /\ of \in [Routines -> Pollers \cup {None}]
    /\ sig \in [Routines -> {"cur", "closed", "open"}]
    /\ workerPool \subseteq Routines
    /\ ctx \in {"nil", "live", "done"}
    /\ started \in BOOLEAN
    /\ stopPc \in {"no", "waiting", "clean", "timeout"}

\* Every goroutine of a devicePoller beyond its one is owed to a wait of
\* stopAndResetPoller that timed out: nothing else in the code, neither the
\* running flag that a leaving goroutine clears under its successor nor any
\* sequence of replacements, removals and exits, polls a device twice at once.
SinglePoller == \A dp \in Pollers : Cardinality(LiveOf(dp)) <= 1 + late[dp]

\* The goroutines of dp that have not been told to stop.
Untold(dp) == {g \in LiveOf(dp) : ~StopSeen(g)}

\* UnregisterDevice decides from the running flag alone whether to close the
\* stop channel, and the flag may have been cleared by another goroutine, the
\* channel replaced under its reader.  Still each goroutine that goes on polling
\* a removed device is owed to a wait that timed out; after none, none does.
UnregisteredStops ==
    \A dp \in Pollers : ~Registered(dp) => Cardinality(Untold(dp)) <= late[dp]

\* A devicePoller in push mode has no goroutine of its own polling the device
\* as well, but for those left behind by a wait that timed out.
PushExcludesPolling ==
    \A dp \in Pollers : subscribed[dp] => Cardinality(LiveOf(dp)) <= late[dp]

\* The worker semaphore: never more poll cycles in progress than workers, and
\* every token is held by a goroutine inside a poll cycle (none is leaked by
\* the early returns of pollDevice).
WorkersBounded ==
    /\ Cardinality(workerPool) <= WorkerCount
    /\ workerPool = {g \in Routines : pc[g] = "read"}

\* After UnregisterDevice the device's goroutine exits, if no wait on its
\* devicePoller timed out.
UnregisteredExits ==
    \A g \in Routines :
        (Live(g) /\ ~Registered(of[g]) /\ late[of[g]] = 0) ~> ~Live(g)

\* After Stop cancels the context every goroutine exits: also one that a wait
\* left behind, and one that an API call starts while Stop runs or after it.
StopDrains == \A g \in Routines : (ctx = "done" /\ Live(g)) ~> ~Live(g)

-----------------------------------------------------------------------------
(* The inductive strengthening used by PollingServiceProofs.               *)

\* Exactly the live goroutines belong to a devicePoller and may be in select.
OwnerInv ==
    \A g \in Routines : /\ Live(g) <=> of[g] # None
                        /\ ~Live(g) => sig[g] = "cur"

\* What the holder of s.mu works on is registered and not yet subscribed.
LockInv ==
    /\ \A dp \in todo : Registered(dp) /\ ~subscribed[dp]
    /\ muPc \in {"free", "stopwait"} => todo = {}
    /\ muPc \in {"subscribe", "stopwait"} =>
          muDp \in Pollers /\ Registered(muDp) /\ ~subscribed[muDp]
    /\ muPc = "subscribe" => muDp \in todo
    /\ ctx = "nil" => /\ muPc = "free" /\ ~started
                      /\ \A d \in Devices : devices[d] # None => ~subscribed[devices[d]]

\* The goroutines waiting on an abandoned stop channel that is not closed.
Open(dp) == {g \in LiveOf(dp) : sig[g] = "open"}

\* The running flag errs on one side only.  A goroutine without the flag is one
\* that a wait left behind, and so is one on a channel no call will ever close;
\* a removed device, or one being stopped, has the flag off or its channel closed.
RunningInv ==
    /\ \A dp \in Pollers :
          /\ Cardinality(LiveOf(dp)) <= (IF running[dp] THEN 1 ELSE 0) + late[dp]
          /\ Cardinality(Open(dp)) <= late[dp]
          /\ ~Registered(dp) /\ ~stopped[dp] => ~running[dp]
    /\ muPc = "subscribe" => ~running[muDp]
    /\ muPc = "stopwait" /\ ~stopped[muDp] => ~running[muDp]

IInv == TypeOK /\ OwnerInv /\ LockInv /\ WorkersBounded /\ RunningInv
        /\ PushExcludesPolling
=============================================================================
