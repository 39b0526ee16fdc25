--------------------------- MODULE CommandHandler ---------------------------
(***************************************************************************)
(* MQTT write commands: internal/service/command_handler.go.               *)
(*                                                                         *)
(* The MQTT client calls handleWriteCommand and handleTagWriteCommand, one *)
(* message at a time, for the topics Start subscribed to.  They put        *)
(* commands into the bounded channel commandQueue or reject them.  The     *)
(* goroutine Start launched, processCommandQueue, takes commands out and   *)
(* writes them to devices through the protocol manager.  Stop cancels the  *)
(* handler's context, unsubscribes and waits for that goroutine, which     *)
(* drains the queue before it ends.                                        *)
(*                                                                         *)
(* Commands are numbered in order of delivery.  A response is published on *)
(* the broker with a wait that has no timeout, so answering is a step of   *)
(* its own, which need never end.                                          *)
(***************************************************************************)
EXTENDS Naturals, Sequences, FiniteSets

CONSTANTS
    Devices,              \* device IDs
    InitialDevices,       \* the devices given to NewCommandHandler
    Procs,                \* processCommandQueue goroutines, one per Start
    CommandQueueSize,     \* capacity of commandQueue
    MaxConcurrentWrites,  \* capacity of writeSemaphore
    SubscribeCanFail,     \* TRUE if the broker may refuse a subscription
    SlowDrain,            \* TRUE if draining may outlast its 5s
    MaxCommands           \* bound: number of MQTT messages delivered

ASSUME HandlerAssumption ==
    /\ InitialDevices \subseteq Devices
    /\ IsFiniteSet(Procs)
    /\ CommandQueueSize \in Nat \ {0}
    /\ MaxConcurrentWrites \in Nat \ {0}
    /\ SubscribeCanFail \in BOOLEAN
    /\ SlowDrain \in BOOLEAN
    /\ MaxCommands \in Nat

VARIABLES
    devices,    \* h.devices and h.tagByID: the devices indexed
    running,    \* h.running
    cancelled,  \* h.ctx is done
    subs,       \* topics subscribed at the MQTT client
    startPc,    \* progress of Start
    stopPc,     \* progress of Stop
    received,   \* stats.CommandsReceived, and the number of the last command
    stats,      \* the other counters of CommandStats
    queue,      \* h.commandQueue
    hCmd,       \* the command a callback is rejecting, 0 if none
    pc,         \* position of each processCommandQueue goroutine
    cur,        \* the command each of them is processing
    draining,   \* those that are in drainCommandQueue
    outcome,    \* the result each of them is about to answer
    sem,        \* goroutines holding a token of writeSemaphore
    answers,    \* number of responses published per command
    written     \* numbers of the commands written to a device, in order

handlerVars == <<received, hCmd>>
lifeVars == <<running, cancelled, subs, startPc, stopPc>>
procVars == <<pc, cur, draining, outcome, sem>>
vars == <<devices, handlerVars, lifeVars, procVars, queue, stats, answers, written>>

Topics == {"write", "set"}   \* <prefix>/+/write and <prefix>/+/+/set

\* A parsed command: its number, its device, and whether the tag it names is a
\* writable tag of that device.
Command == [id: 1..MaxCommands, dev: Devices, writable: BOOLEAN]
NoCommand == [id |-> 0, dev |-> "none", writable |-> FALSE]

Counters == {"succeeded", "failed", "rejected"}

Live(p) == pc[p] # "off"

\* sendResponse: the response is published, or it is not because acknowledgement
\* is off, or marshalling or publishing failed, which is only logged.
Answer(c) == answers' \in {answers, [answers EXCEPT ![c] = @ + 1]}

Count(counter) == stats' = [stats EXCEPT ![counter] = @ + 1]

Init ==
    /\ devices = InitialDevices
    /\ running = FALSE /\ cancelled = FALSE
    /\ subs = {}
    /\ startPc = "no" /\ stopPc = "no"
    /\ received = 0
    /\ stats = [k \in Counters |-> 0]
    /\ queue = <<>>
    /\ hCmd = 0
    /\ pc = [p \in Procs |-> "off"]
    /\ cur = [p \in Procs |-> NoCommand]
    /\ draining = {}
    /\ outcome = [p \in Procs |-> "none"]
    /\ sem = {}
    /\ answers = [c \in 1..MaxCommands |-> 0]
    /\ written = <<>>

-----------------------------------------------------------------------------
(* Start and Stop                                                          *)

\* Start launches the queue processor before it subscribes.
Start ==
    /\ ~running /\ startPc \in {"no", "failed"} /\ stopPc = "no"
    /\ \E p \in Procs : ~Live(p) /\ pc' = [pc EXCEPT ![p] = "select"]
    /\ startPc' = "write"
    /\ UNCHANGED <<devices, handlerVars, running, cancelled, subs, stopPc, cur,
                   draining, outcome, sem, queue, stats, answers, written>>

\* The two subscriptions, one after the other.
Subscribed ==
    /\ startPc \in Topics
    /\ subs' = subs \cup {startPc}
    /\ startPc' = IF startPc = "write" THEN "set" ELSE "started"
    /\ running' = (startPc = "set")
    /\ UNCHANGED <<devices, handlerVars, cancelled, stopPc, procVars, queue, stats,
                   answers, written>>

\* Start returns an error and leaves everything it did in place.
SubscribeFailed ==
    /\ startPc \in Topics /\ SubscribeCanFail
    /\ startPc' = "failed"
    /\ UNCHANGED <<devices, handlerVars, running, cancelled, subs, stopPc, procVars,
                   queue, stats, answers, written>>

\* main calls Stop once, after Start returned.
StopNotRunning ==
    /\ stopPc = "no" /\ ~running /\ startPc = "failed"
    /\ stopPc' = "done"
    /\ UNCHANGED <<devices, handlerVars, running, cancelled, subs, startPc, procVars,
                   queue, stats, answers, written>>

StopCancel ==
    /\ stopPc = "no" /\ running
    /\ cancelled' = TRUE
    /\ stopPc' = "write"
    /\ UNCHANGED <<devices, handlerVars, running, subs, startPc, procVars, queue,
                   stats, answers, written>>

\* Unsubscribe from one topic after the other; neither token is awaited.
StopUnsubscribe ==
    /\ stopPc \in Topics
    /\ subs' = subs \ {stopPc}
    /\ stopPc' = IF stopPc = "write" THEN "set" ELSE "wait"
    /\ UNCHANGED <<devices, handlerVars, running, cancelled, startPc, procVars,
                   queue, stats, answers, written>>

\* wg.Wait returned.
StopDone ==
    /\ stopPc = "wait"
    /\ \A p \in Procs : ~Live(p)
    /\ running' = FALSE
    /\ stopPc' = "done"
    /\ UNCHANGED <<devices, handlerVars, cancelled, subs, startPc, procVars, queue,
                   stats, answers, written>>

-----------------------------------------------------------------------------
(* MQTT callbacks                                                          *)

\* handleWriteCommand with a payload that is not JSON: no response.
HandleMalformed ==
    /\ "write" \in subs /\ hCmd = 0 /\ received < MaxCommands
    /\ received' = received + 1
    /\ Count("rejected")
    /\ UNCHANGED <<devices, hCmd, lifeVars, procVars, queue, answers, written>>

\* Variant: a command jumps the queue.
HandleQueuedFirst(cmd) ==
    /\ subs # {} /\ hCmd = 0 /\ received < MaxCommands
    /\ received' = received + 1
    /\ cmd.id = received'
    /\ Len(queue) < CommandQueueSize
    /\ queue' = <<cmd>> \o queue
    /\ UNCHANGED <<devices, hCmd, lifeVars, procVars, stats, answers, written>>

\* Either handler, up to the non-blocking send that succeeds.
HandleQueued(cmd) ==
    /\ subs # {} /\ hCmd = 0 /\ received < MaxCommands
    /\ received' = received + 1
    /\ cmd.id = received'
    /\ Len(queue) < CommandQueueSize
    /\ queue' = Append(queue, cmd)
    /\ UNCHANGED <<devices, hCmd, lifeVars, procVars, stats, answers, written>>

\* Either handler when the queue is full: sendResponse blocks the callback.
HandleFull ==
    /\ subs # {} /\ hCmd = 0 /\ received < MaxCommands
    /\ received' = received + 1
    /\ Len(queue) = CommandQueueSize
    /\ hCmd' = received'
    /\ UNCHANGED <<devices, lifeVars, procVars, queue, stats, answers, written>>

\* Variant: the rejection is answered and not counted.
RejectFullUncounted ==
    /\ hCmd # 0
    /\ Answer(hCmd)
    /\ hCmd' = 0
    /\ UNCHANGED <<devices, received, lifeVars, procVars, queue, stats, written>>

RejectFull ==
    /\ hCmd # 0
    /\ Answer(hCmd)
    /\ Count("rejected")
    /\ hCmd' = 0
    /\ UNCHANGED <<devices, received, lifeVars, procVars, queue, written>>

-----------------------------------------------------------------------------
(* The queue processor                                                     *)

\* processCommandQueue or drainCommandQueue receives a command.
TakeCommand(p) ==
    /\ pc[p] \in {"select", "drain"} /\ queue # <<>>
    /\ cur' = [cur EXCEPT ![p] = Head(queue)]
    /\ queue' = Tail(queue)
    /\ pc' = [pc EXCEPT ![p] = "acquire"]
    /\ UNCHANGED <<devices, handlerVars, lifeVars, draining, outcome, sem, stats,
                   answers, written>>

\* Variant: the select has no case for h.ctx.Done.
SeesCancelNever(p) == pc[p] = "select" /\ FALSE /\ UNCHANGED vars

SeesCancel(p) ==
    /\ pc[p] = "select" /\ cancelled
    /\ pc' = [pc EXCEPT ![p] = "drain"]
    /\ draining' = draining \cup {p}
    /\ UNCHANGED <<devices, handlerVars, lifeVars, cur, outcome, sem, queue, stats,
                   answers, written>>

\* The queue is empty, or the 5s of drainCommandQueue are over.
DrainEnds(p) ==
    /\ pc[p] = "drain"
    /\ queue = <<>> \/ SlowDrain
    /\ pc' = [pc EXCEPT ![p] = "off"]
    /\ draining' = draining \ {p}
    /\ UNCHANGED <<devices, handlerVars, lifeVars, cur, outcome, sem, queue, stats,
                   answers, written>>

\* What processWriteCommand will answer without writing.
Refuse(p, why) == /\ pc' = [pc EXCEPT ![p] = "respond"]
                  /\ outcome' = [outcome EXCEPT ![p] = why]

\* processWriteCommand got a semaphore token; it then looks up the device and
\* the tag, and checks that the tag is writable.
Acquire(p) ==
    /\ pc[p] = "acquire"
    /\ Cardinality(sem) < MaxConcurrentWrites
    /\ sem' = sem \cup {p}
    /\ IF cur[p].dev \in devices /\ cur[p].writable
       THEN pc' = [pc EXCEPT ![p] = "write"] /\ UNCHANGED outcome
       ELSE Refuse(p, "failed")
    /\ UNCHANGED <<devices, handlerVars, lifeVars, cur, draining, queue, stats,
                   answers, written>>

\* No token: the service is shutting down, or the semaphore is full.
RefuseCommand(p) ==
    /\ pc[p] = "acquire"
    /\ cancelled \/ Cardinality(sem) >= MaxConcurrentWrites
    /\ Refuse(p, "rejected")
    /\ UNCHANGED <<devices, handlerVars, lifeVars, cur, draining, sem, queue, stats,
                   answers, written>>

\* protocolManager.WriteTag returned nil.
WriteOk(p) ==
    /\ pc[p] = "write"
    /\ written' = Append(written, cur[p].id)
    /\ pc' = [pc EXCEPT ![p] = "respond"]
    /\ outcome' = [outcome EXCEPT ![p] = "succeeded"]
    /\ UNCHANGED <<devices, handlerVars, lifeVars, cur, draining, sem, queue, stats,
                   answers>>

\* Variant: a failed write is put back at the end of the queue for a retry.
WriteFailsRetries(p) ==
    /\ pc[p] = "write"
    /\ written' = Append(written, cur[p].id)
    /\ queue' = Append(queue, cur[p])
    /\ Refuse(p, "failed")
    /\ UNCHANGED <<devices, handlerVars, lifeVars, cur, draining, sem, stats, answers>>

\* It returned an error; after a timeout the device may have been written.
WriteFails(p) ==
    /\ pc[p] = "write"
    /\ written' \in {written, Append(written, cur[p].id)}
    /\ Refuse(p, "failed")
    /\ UNCHANGED <<devices, handlerVars, lifeVars, cur, draining, sem, queue, stats,
                   answers>>

\* Variant: the processor returns after a failed command.
RespondStopsOnFailure(p) ==
    /\ pc[p] = "respond"
    /\ Answer(cur[p].id)
    /\ Count(outcome[p])
    /\ sem' = sem \ {p}
    /\ pc' = [pc EXCEPT ![p] = IF outcome[p] = "failed" THEN "off"
                              ELSE IF p \in draining THEN "drain" ELSE "select"]
    /\ cur' = [cur EXCEPT ![p] = NoCommand]
    /\ outcome' = [outcome EXCEPT ![p] = "none"]
    /\ UNCHANGED <<devices, handlerVars, lifeVars, draining, queue, written>>

\* sendResponse returned, so processWriteCommand does: its token is released.
Respond(p) ==
    /\ pc[p] = "respond"
    /\ Answer(cur[p].id)
    /\ Count(outcome[p])
    /\ sem' = sem \ {p}
    /\ pc' = [pc EXCEPT ![p] = IF p \in draining THEN "drain" ELSE "select"]
    /\ cur' = [cur EXCEPT ![p] = NoCommand]
    /\ outcome' = [outcome EXCEPT ![p] = "none"]
    /\ UNCHANGED <<devices, handlerVars, lifeVars, draining, queue, written>>

-----------------------------------------------------------------------------
(* Device index                                                            *)

\* UpdateDevices; AddDevice and RemoveDevice change one member.
UpdateDevices(list) ==
    /\ list # devices
    /\ devices' = list
    /\ UNCHANGED <<handlerVars, lifeVars, procVars, queue, stats, answers, written>>

-----------------------------------------------------------------------------

Callback == \/ HandleMalformed
            \/ \E cmd \in Command : HandleQueued(cmd)
            \/ HandleFull

Work(p) == \/ TakeCommand(p) \/ SeesCancel(p) \/ DrainEnds(p)
           \/ Acquire(p) \/ RefuseCommand(p)
           \/ WriteOk(p) \/ WriteFails(p)

Process(p) == Work(p) \/ Respond(p)

StopSteps == StopUnsubscribe \/ StopDone

Next == \/ Start \/ Subscribed \/ SubscribeFailed
        \/ StopNotRunning \/ StopCancel \/ StopSteps
        \/ Callback \/ RejectFull
        \/ \E p \in Procs : Process(p)
        \/ \E list \in SUBSET Devices : UpdateDevices(list)

Spec == Init /\ [][Next]_vars

\* Writes to devices return by their timeouts, Unsubscribe does not wait, and
\* select picks uniformly among its ready cases, so a cancelled processor does
\* not pass over h.ctx.Done for ever.  Nothing makes sendResponse return: there
\* is no fairness on Respond and RejectFull.
Fairness == /\ WF_vars(StopSteps)
            /\ \A p \in Procs : WF_vars(Work(p)) /\ SF_vars(SeesCancel(p))

FairSpec == Spec /\ Fairness

-----------------------------------------------------------------------------
(* Properties                                                              *)

\* Types of the variables.
TypeOK ==
    /\ devices \subseteq Devices
    /\ running \in BOOLEAN
    /\ cancelled \in BOOLEAN
    /\ subs \subseteq Topics
    /\ startPc \in {"no", "failed", "started"} \cup Topics
    /\ stopPc \in {"no", "wait", "done"} \cup Topics
    /\ received \in 0..MaxCommands
    /\ stats \in [Counters -> Nat]
    /\ queue \in Seq(Command)
    /\ hCmd \in 0..MaxCommands
    /\ pc \in [Procs -> {"off", "select", "drain", "acquire", "write", "respond"}]
    /\ cur \in [Procs -> Command \cup {NoCommand}]
    /\ draining \subseteq Procs
    /\ outcome \in [Procs -> Counters \cup {"none"}]
    /\ sem \subseteq Procs
    /\ answers \in [1..MaxCommands -> Nat]
    /\ written \in Seq(1..MaxCommands)

Busy == {p \in Procs : pc[p] \in {"acquire", "write", "respond"}}

\* Every command received is in exactly one place: counted as succeeded, failed
\* or rejected, in the queue, or in the hands of a callback or a processor.
\* No path through the handlers or processWriteCommand loses or counts twice.
Accounted ==
    received = stats["succeeded"] + stats["failed"] + stats["rejected"]
               + Len(queue) + Cardinality(Busy) + (IF hCmd = 0 THEN 0 ELSE 1)

\* The bounded queue and the write semaphore keep their limits, and a token is
\* held only while a command is processed.
Bounded ==
    /\ Len(queue) <= CommandQueueSize
    /\ Cardinality(sem) <= MaxConcurrentWrites
    /\ sem \subseteq Busy

\* Commands reach the devices in the order in which they were delivered: the
\* last setpoint sent is the last one written.
WritesInOrder ==
    \A i, j \in 1..Len(written) : i < j => written[i] < written[j]

\* A command is answered at most once, and only after it was dealt with.
AnsweredOnce ==
    \A c \in 1..MaxCommands :
        /\ answers[c] <= 1
        /\ answers[c] = 1 => \A p \in Procs : cur[p].id # c

InQueue(c) == \E i \in 1..Len(queue) : queue[i].id = c
InHand(c) == \E p \in Procs : cur[p].id = c

\* No processor is for ever in a sendResponse: its token.Wait returns as long
\* as the connection to the broker does not stay away.
ResponsesReturn == \A p \in Procs : []<>(pc[p] # "respond")

\* As long as responses return, a queued command is processed to its end,
\* unless Stop is called: no refusal, failure or full semaphore ends the loop.
QueuedHandled ==
    ResponsesReturn =>
        \A c \in 1..MaxCommands :
            InQueue(c) ~> ((~InQueue(c) /\ ~InHand(c)) \/ cancelled)

\* As long as responses return, Stop does, also when it is called with a full
\* queue and a busy processor.
StopReturns == ResponsesReturn => ((stopPc # "no") ~> (stopPc = "done"))

-----------------------------------------------------------------------------
(* The inductive strengthening used by CommandHandlerProofs.               *)

\* The queue holds unanswered commands in order of delivery.
QueueInv ==
    /\ \A i \in 1..Len(queue) : queue[i].id <= received /\ answers[queue[i].id] = 0
    /\ \A i, j \in 1..Len(queue) : i < j => queue[i].id < queue[j].id

\* A busy processor holds an unanswered command nobody else has.
ProcInv ==
    /\ \A p \in Procs : p \notin Busy => cur[p] = NoCommand
    /\ \A p \in Busy : /\ cur[p] \in Command /\ cur[p].id <= received
                       /\ answers[cur[p].id] = 0
                       /\ cur[p].id # hCmd /\ ~InQueue(cur[p].id)
    /\ \A p, q \in Busy : cur[q].id = cur[p].id => p = q

\* So does a callback that is rejecting one.
CallbackInv ==
    hCmd # 0 => hCmd <= received /\ answers[hCmd] = 0 /\ ~InQueue(hCmd)

AnswerInv ==
    \A c \in 1..MaxCommands : answers[c] <= 1 /\ (c > received => answers[c] = 0)

\* Every unanswered command is in one place only.
PlaceInv == QueueInv /\ ProcInv /\ CallbackInv /\ AnswerInv

\* An outcome is known exactly while its response is being sent.
OutcomeInv == \A p \in Procs : outcome[p] # "none" <=> pc[p] = "respond"

IInv == TypeOK /\ PlaceInv /\ OutcomeInv /\ Bounded /\ Accounted

\* What was written is older than what is being processed, and that is older
\* than what is queued: holds with a single processor.
OrderInv ==
    /\ WritesInOrder
    /\ \A k \in 1..Len(written) :
          /\ \A i \in 1..Len(queue) : written[k] < queue[i].id
          /\ \A p \in Procs : pc[p] \in {"acquire", "write"} => written[k] < cur[p].id
          /\ written[k] <= received
    /\ \A p \in Procs : p \in Busy =>
          \A i \in 1..Len(queue) : cur[p].id < queue[i].id
=============================================================================
