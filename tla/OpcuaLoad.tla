----------------------------- MODULE OpcuaLoad -----------------------------
(***************************************************************************)
(* Fleet-wide load shaping of the OPC UA pool (loadshaping.go): callers    *)
(* pass checkGlobalLoadAndQueueWithSession, which rejects them, runs their *)
(* operation at once, or queues it for the priority workers.  The counters *)
(* are atomic, the decisions are not: a caller decides on values it loaded *)
(* some steps earlier.  The health loop adjusts brownout mode, and Close   *)
(* may come while callers are anywhere in between.                         *)
(*                                                                         *)
(* A rejected call changes nothing, so that rejections at the entrance are *)
(* the guard of Call.                                                      *)
(***************************************************************************)
EXTENDS Integers, Sequences, FiniteSets

CONSTANTS Callers,                 \* goroutines that read and write tags
          Workers,                 \* priorityQueueProcessor goroutines
          Endpoints,               \* sessions of the pool
          MaxGlobalInFlight,
          Threshold,               \* int64(maxGlobalInFlight * brownoutThreshold)
          MaxInFlightPerEndpoint,
          PriorityQueueSize,
          Calls,                   \* the operations that each caller may ask for
          None

Telemetry == 0
Control == 1
Safety == 2
Priority == {Telemetry, Control, Safety}

Op == [prio : Priority, ep : Endpoints]

\* opRequest: its caller and session, and whether its context has ended.
Request == [from : Callers, ep : Endpoints, ended : BOOLEAN]

ASSUME LoadAssumption ==
    /\ IsFiniteSet(Callers) /\ IsFiniteSet(Workers)
    /\ MaxGlobalInFlight \in Nat \ {0}
    /\ Threshold \in 0..MaxGlobalInFlight
    /\ MaxInFlightPerEndpoint \in Nat \ {0}
    /\ PriorityQueueSize \in Nat \ {0}
    /\ Calls \in [Callers -> SUBSET Op]
    /\ None \notin Op \cup Request

VARIABLES
    globalInFlight,  \* p.globalInFlight
    inFlight,        \* session.inFlight
    queues,          \* p.priorityQueues
    brownout,        \* p.brownoutMode
    open,            \* endpoints whose breaker is open
    closed,          \* p.closed is set and p.done closed
    channels,        \* "open", or "closed" by Close
    panicked,        \* a send on a closed channel ended the process
    pc,              \* where a caller is
    call,            \* its operation
    cur,             \* the load it decides on
    wpc,             \* where a worker is: a level of its select, or in an operation
    job              \* the request a worker holds

callVars == <<pc, call, cur>>
workVars == <<wpc, job>>
loadVars == <<globalInFlight, inFlight>>
closeVars == <<closed, channels, panicked>>
vars == <<loadVars, queues, brownout, open, closeVars, callVars, workVars>>

Init ==
    /\ globalInFlight = 0 /\ inFlight = [e \in Endpoints |-> 0]
    /\ queues = [p \in Priority |-> <<>>]
    /\ brownout = FALSE /\ open = {}
    /\ closed = FALSE /\ channels = "open" /\ panicked = FALSE
    /\ pc = [c \in Callers |-> "idle"]
    /\ call = [c \in Callers |-> None]
    /\ cur = [c \in Callers |-> 0]
    /\ wpc = [w \in Workers |-> "safety"]
    /\ job = [w \in Workers |-> None]

\* The two counters of an operation on e.
Count(e, n) ==
    /\ globalInFlight' = globalInFlight + n
    /\ inFlight' = [inFlight EXCEPT ![e] = @ + n]

-----------------------------------------------------------------------------
(* checkGlobalLoadAndQueueWithSession                                      *)

\* The call is let in: the breaker is not open, and telemetry meets neither
\* brownout mode nor an endpoint at its limit.
Call(c, op) ==
    /\ pc[c] = "idle"
    /\ op.ep \notin open
    /\ op.prio = Telemetry =>
          ~brownout /\ inFlight[op.ep] < MaxInFlightPerEndpoint
    /\ pc' = [pc EXCEPT ![c] = "load"]
    /\ call' = [call EXCEPT ![c] = op]
    /\ UNCHANGED <<loadVars, queues, brownout, open, closeVars, cur, workVars>>

Load(c) ==
    /\ pc[c] = "load"
    /\ cur' = [cur EXCEPT ![c] = globalInFlight]
    /\ pc' = [pc EXCEPT ![c] = "decide"]
    /\ UNCHANGED <<loadVars, queues, brownout, open, closeVars, call, workVars>>

Sheds(c) == cur[c] >= Threshold /\ call[c].prio = Telemetry

Return(c) ==
    /\ pc' = [pc EXCEPT ![c] = "idle"]
    /\ call' = [call EXCEPT ![c] = None]
    /\ cur' = [cur EXCEPT ![c] = 0]

\* Telemetry above the threshold is rejected and starts brownout mode.
Shed(c) ==
    /\ pc[c] = "decide" /\ Sheds(c)
    /\ brownout' = TRUE
    /\ Return(c)
    /\ UNCHANGED <<loadVars, queues, open, closeVars, workVars>>

\* At the hard limit: return if the pool is closed, else count and queue.
AtLimit(c) ==
    /\ pc[c] = "decide" /\ ~Sheds(c) /\ cur[c] >= MaxGlobalInFlight
    /\ IF closed
       THEN Return(c) /\ UNCHANGED loadVars
       ELSE /\ Count(call[c].ep, 1)
            /\ pc' = [pc EXCEPT ![c] = "send"]
            /\ cur' = [cur EXCEPT ![c] = 0]
            /\ UNCHANGED call
    /\ UNCHANGED <<queues, brownout, open, closeVars, workVars>>

\* The send itself: it does not block, and it panics on a closed channel.
Send(c) ==
    /\ pc[c] = "send" /\ channels = "open"
    /\ Len(queues[call[c].prio]) < PriorityQueueSize
    /\ queues' = [queues EXCEPT ![call[c].prio] =
                     Append(@, [from |-> c, ep |-> call[c].ep, ended |-> FALSE])]
    /\ pc' = [pc EXCEPT ![c] = "wait"]
    /\ UNCHANGED <<loadVars, brownout, open, closeVars, call, cur, workVars>>

\* Variant: a full queue is left with the counters as they are.
SendFullCounted(c) ==
    /\ pc[c] = "send" /\ channels = "open"
    /\ Len(queues[call[c].prio]) >= PriorityQueueSize
    /\ Return(c)
    /\ UNCHANGED <<loadVars, queues, brownout, open, closeVars, workVars>>

SendFull(c) ==
    /\ pc[c] = "send" /\ channels = "open"
    /\ Len(queues[call[c].prio]) >= PriorityQueueSize
    /\ Count(call[c].ep, -1)
    /\ Return(c)
    /\ UNCHANGED <<queues, brownout, open, closeVars, workVars>>

SendPanics(c) ==
    /\ pc[c] = "send" /\ channels = "closed"
    /\ panicked' = TRUE
    /\ UNCHANGED <<loadVars, queues, brownout, open, closed, channels, callVars,
                   workVars>>

\* Below the limit: count, leave brownout mode if the load seen was low, run.
Proceed(c) ==
    /\ pc[c] = "decide" /\ ~Sheds(c) /\ cur[c] < MaxGlobalInFlight
    /\ Count(call[c].ep, 1)
    /\ brownout' = (brownout /\ cur[c] >= Threshold \div 2)
    /\ pc' = [pc EXCEPT ![c] = "run"]
    /\ cur' = [cur EXCEPT ![c] = 0]
    /\ UNCHANGED <<queues, open, closeVars, call, workVars>>

\* The operation ends, well or not, and the deferred function counts it off.
Finish(c) ==
    /\ pc[c] = "run"
    /\ Count(call[c].ep, -1)
    /\ Return(c)
    /\ UNCHANGED <<queues, brownout, open, closeVars, workVars>>

Abandoned(r, c) == IF r.from = c THEN [r EXCEPT !.ended = TRUE] ELSE r

\* The context ends while the caller waits: its request stays where it is.
GiveUp(c) ==
    /\ pc[c] = "wait"
    /\ queues' = [p \in Priority |->
                     [i \in 1..Len(queues[p]) |-> Abandoned(queues[p][i], c)]]
    /\ job' = [w \in Workers |-> IF job[w] = None THEN None ELSE Abandoned(job[w], c)]
    /\ Return(c)
    /\ UNCHANGED <<loadVars, brownout, open, closeVars, wpc>>

-----------------------------------------------------------------------------
(* priorityQueueProcessor                                                  *)

\* The queues that a level of the nested selects receives from.
Receives(level) == CASE level = "safety" -> {Safety}
                     [] level = "control" -> {Safety, Control}
                     [] level = "all" -> Priority

\* One of the ready cases of a select, whichever.
Take(w, p) ==
    /\ wpc[w] \in {"safety", "control", "all"} /\ p \in Receives(wpc[w])
    /\ queues[p] # <<>>
    /\ job' = [job EXCEPT ![w] = Head(queues[p])]
    /\ queues' = [queues EXCEPT ![p] = Tail(@)]
    /\ wpc' = [wpc EXCEPT ![w] = "check"]
    /\ UNCHANGED <<loadVars, brownout, open, closeVars, callVars>>

\* The default case leads to the next level.
Default(w) ==
    /\ wpc[w] \in {"safety", "control"} /\ ~closed
    /\ \A p \in Receives(wpc[w]) : queues[p] = <<>>
    /\ wpc' = [wpc EXCEPT ![w] = IF @ = "safety" THEN "control" ELSE "all"]
    /\ UNCHANGED <<loadVars, queues, brownout, open, closeVars, callVars, job>>

\* Every level looks at done.
WorkerExits(w) ==
    /\ wpc[w] \in {"safety", "control", "all"} /\ closed
    /\ wpc' = [wpc EXCEPT ![w] = "exited"]
    /\ UNCHANGED <<loadVars, queues, brownout, open, closeVars, callVars, job>>

\* The result goes to a caller that still waits for it.
Deliver(r) ==
    IF r.ended THEN UNCHANGED callVars ELSE Return(r.from)

\* A request whose context has ended, or whose endpoint's breaker is open, is
\* not executed.
Drop(w) ==
    /\ wpc[w] = "check" /\ (job[w].ended \/ job[w].ep \in open)
    /\ Deliver(job[w])
    /\ wpc' = [wpc EXCEPT ![w] = "release"]
    /\ UNCHANGED <<loadVars, queues, brownout, open, closeVars, job>>

Execute(w) ==
    /\ wpc[w] = "check" /\ ~job[w].ended /\ job[w].ep \notin open
    /\ wpc' = [wpc EXCEPT ![w] = "run"]
    /\ UNCHANGED <<loadVars, queues, brownout, open, closeVars, callVars, job>>

Executed(w) ==
    /\ wpc[w] = "run"
    /\ Deliver(job[w])
    /\ wpc' = [wpc EXCEPT ![w] = "release"]
    /\ UNCHANGED <<loadVars, queues, brownout, open, closeVars, job>>

\* Variant: after a request the worker goes on at the inner select.
ReleaseInner(w) ==
    /\ wpc[w] = "release"
    /\ Count(job[w].ep, -1)
    /\ job' = [job EXCEPT ![w] = None]
    /\ wpc' = [wpc EXCEPT ![w] = "all"]
    /\ UNCHANGED <<queues, brownout, open, closeVars, callVars>>

Release(w) ==
    /\ wpc[w] = "release"
    /\ Count(job[w].ep, -1)
    /\ job' = [job EXCEPT ![w] = None]
    /\ wpc' = [wpc EXCEPT ![w] = "safety"]
    /\ UNCHANGED <<queues, brownout, open, closeVars, callVars>>

-----------------------------------------------------------------------------
(* checkGlobalHealth, the breakers and Close                               *)

\* Variant: the health loop enters brownout mode and does not leave it.
CheckGlobalHealthUp ==
    /\ ~closed
    /\ brownout' = (globalInFlight >= Threshold \/ brownout)
    /\ UNCHANGED <<loadVars, queues, open, closeVars, callVars, workVars>>

\* The health loop ticks: between the two thresholds the mode stays.
CheckGlobalHealth ==
    /\ ~closed
    /\ brownout' = (\/ globalInFlight >= Threshold
                    \/ brownout /\ globalInFlight >= Threshold \div 2)
    /\ UNCHANGED <<loadVars, queues, open, closeVars, callVars, workVars>>

\* gobreaker opens and closes the breaker of an endpoint.
BreakerChanges(e) ==
    /\ open' = IF e \in open THEN open \ {e} ELSE open \cup {e}
    /\ UNCHANGED <<loadVars, queues, brownout, closeVars, callVars, workVars>>

Close ==
    /\ ~closed /\ closed' = TRUE
    /\ UNCHANGED <<loadVars, queues, brownout, open, channels, panicked, callVars,
                   workVars>>

\* wg.Wait returned: the channels are closed.
CloseChannels ==
    /\ closed /\ channels = "open"
    /\ \A w \in Workers : wpc[w] = "exited"
    /\ channels' = "closed"
    /\ UNCHANGED <<loadVars, queues, brownout, open, closed, panicked, callVars,
                   workVars>>

-----------------------------------------------------------------------------

CallerSteps(c) == \/ Load(c) \/ Shed(c) \/ AtLimit(c) \/ Send(c) \/ SendFull(c)
                  \/ SendPanics(c) \/ Proceed(c) \/ Finish(c)

WorkerSteps(w) == \/ \E p \in Priority : Take(w, p)
                  \/ Default(w) \/ WorkerExits(w) \/ Drop(w)
                  \/ Execute(w) \/ Executed(w) \/ Release(w)

Next ==
    /\ ~panicked
    /\ \/ \E c \in Callers : \/ \E op \in Calls[c] : Call(c, op)
                             \/ CallerSteps(c) \/ GiveUp(c)
       \/ \E w \in Workers : WorkerSteps(w)
       \/ CheckGlobalHealth
       \/ \E e \in Endpoints : BreakerChanges(e)
       \/ Close \/ CloseChannels

Spec == Init /\ [][Next]_vars

\* Goroutines run on, the client's operations end by their request timeout, and
\* the health loop ticks.  Nothing says that a context ends.
Fairness ==
    /\ \A c \in Callers : WF_vars(~panicked /\ CallerSteps(c))
    /\ \A w \in Workers : WF_vars(~panicked /\ WorkerSteps(w))
    /\ WF_vars(~panicked /\ CheckGlobalHealth)

FairSpec == Spec /\ Fairness

-----------------------------------------------------------------------------
(* Properties                                                              *)

\* Types of the variables; the queues keep their capacity.
TypeOK ==
    /\ globalInFlight \in Int
    /\ inFlight \in [Endpoints -> Int]
    /\ queues \in [Priority -> Seq(Request)]
    /\ \A p \in Priority : Len(queues[p]) <= PriorityQueueSize
    /\ brownout \in BOOLEAN
    /\ open \subseteq Endpoints
    /\ closed \in BOOLEAN
    /\ channels \in {"open", "closed"}
    /\ panicked \in BOOLEAN
    /\ pc \in [Callers -> {"idle", "load", "decide", "send", "wait", "run"}]
    /\ call \in [Callers -> Op \cup {None}]
    /\ cur \in [Callers -> Int]
    /\ wpc \in [Workers -> {"safety", "control", "all", "check", "run", "release", "exited"}]
    /\ job \in [Workers -> Request \cup {None}]

Counted == {c \in Callers : pc[c] \in {"send", "run"}}
Holding == {w \in Workers : job[w] # None}

\* The counter that all limits are taken from is exact: each operation that
\* runs, waits in a queue (its caller gone or not) or is in the hands of a
\* worker is counted once, whatever rejections, abandoned requests and open
\* breakers came before.
InFlightAccounted ==
    globalInFlight = Cardinality(Counted) + Cardinality(Holding)
                     + Len(queues[0]) + Len(queues[1]) + Len(queues[2])

\* No stream of commands, nor any number of stale requests, keeps a queued
\* safety operation from being answered while the pool is open.
SafetyServed ==
    \A c \in Callers :
        (pc[c] = "wait" /\ call[c].prio = Safety) ~> (pc[c] = "idle" \/ closed)

\* Brownout mode does not outlast the load: if the load stays below half the
\* threshold, telemetry is let in again for good, however stale the load was
\* on which a caller entered the mode.
BrownoutEnds ==
    <>[](globalInFlight < Threshold \div 2) => <>[]~brownout \/ <>closed
=============================================================================
