--------------------------- MODULE HealthChecker ---------------------------
(***************************************************************************)
(* The health checker of internal/health/checker.go.                       *)
(*                                                                         *)
(* A loop runs rounds.  In a round every registered check runs in a        *)
(* goroutine of its own, a check becomes unhealthy after FailureThreshold  *)
(* failures in a row, and when all goroutines have ended the round's       *)
(* status moves the operational state and is cached for the HTTP probes.   *)
(* Stop sets the state itself, possibly in the middle of a round, and      *)
(* waits for the loop.                                                     *)
(*                                                                         *)
(* main registers the checks before Start and never removes one.  Times,   *)
(* error texts and the callback of SetState, which main does not set, are  *)
(* left out.  A failure count is compared with the threshold only, and     *)
(* counts no further than that.                                            *)
(***************************************************************************)
EXTENDS Naturals

CONSTANTS
    Critical, Warning, Info,   \* the checks, by severity
    FailureThreshold,          \* config.FailureThreshold
    NoResult

\* OperationalState
State == {"starting", "running", "degraded", "recovering", "shutting_down", "offline"}

ASSUME HealthAssumption ==
    /\ FailureThreshold \in Nat \ {0}
    /\ Critical \cap Warning = {}
    /\ NoResult \notin [status : {"healthy", "degraded", "unhealthy"}, state : State]

Checks == Critical \cup Warning \cup Info

VARIABLES
    up,             \* components that pass their check at this moment
    loop,           \* where checkLoop is
    job,            \* the goroutine of each check in this round
    failureCounts,  \* h.failureCounts
    statuses,       \* the Status of h.statuses
    failing,        \* severities found unhealthy in this round
    state,          \* h.state
    cached,         \* h.cachedResult: its status and state, or None
    stopPc          \* where Stop is

roundVars == <<job, failureCounts, statuses, failing>>
healthVars == <<up, loop, roundVars, state, cached, stopPc>>

\* NewChecker, and AddCheck for every check.
HealthInit ==
    /\ up \in SUBSET Checks
    /\ loop = "off"
    /\ job = [n \in Checks |-> "none"]
    /\ failureCounts = [n \in Checks |-> 0]
    /\ statuses = [n \in Checks |-> "unknown"]
    /\ failing = {}
    /\ state = "starting"
    /\ cached = NoResult
    /\ stopPc = "no"

-----------------------------------------------------------------------------
(* The loop                                                                *)

\* One failure more, up to the threshold.
More(k) == IF k < FailureThreshold THEN k + 1 ELSE k

\* Start, and the beginning of the first round.
Start ==
    /\ loop = "off"
    /\ loop' = "round"
    /\ job' = [n \in Checks |-> "call"]
    /\ UNCHANGED <<up, failureCounts, statuses, failing, state, cached, stopPc>>

\* The ticker: runChecks again.
Tick ==
    /\ loop = "select"
    /\ loop' = "round"
    /\ job' = [n \in Checks |-> "call"]
    /\ failing' = {}
    /\ UNCHANGED <<up, failureCounts, statuses, state, cached, stopPc>>

\* HealthCheck of component n answers, or its timeout passes.
HealthCheck(n) ==
    /\ job[n] = "call"
    /\ job' = [job EXCEPT ![n] = IF n \in up THEN "passed" ELSE "failed"]
    /\ UNCHANGED <<up, loop, failureCounts, statuses, failing, state, cached, stopPc>>

Severity(n) == IF n \in Critical THEN "critical"
               ELSE IF n \in Warning THEN "warning" ELSE "info"

\* The goroutine of check n ends with status s.
Report(n, s) ==
    /\ job' = [job EXCEPT ![n] = "none"]
    /\ statuses' = [statuses EXCEPT ![n] = s]
    /\ failing' = IF s = "unhealthy" THEN failing \cup {Severity(n)} ELSE failing
    /\ UNCHANGED <<up, loop, state, cached, stopPc>>

\* updateCheckStatus without an error: healthy at once.
UpdatePassed(n) ==
    /\ job[n] = "passed"
    /\ failureCounts' = [failureCounts EXCEPT ![n] = 0]
    /\ Report(n, "healthy")

\* updateCheckStatus with an error: unhealthy from the threshold on; below it a
\* healthy check stays so, any other is degraded.
UpdateFailed(n) ==
    /\ job[n] = "failed"
    /\ failureCounts' = [failureCounts EXCEPT ![n] = More(@)]
    /\ Report(n, IF failureCounts'[n] >= FailureThreshold THEN "unhealthy"
                 ELSE IF statuses[n] = "healthy" THEN "healthy" ELSE "degraded")

\* The status of a round.
Overall == IF "critical" \in failing THEN "unhealthy"
           ELSE IF "warning" \in failing THEN "degraded" ELSE "healthy"

\* Variant: no case for the terminal states.
NextStateRevives(s, health) ==
    IF health # "healthy" THEN "degraded"
    ELSE IF s = "degraded" THEN "recovering" ELSE "running"

\* Variant: no case for recovering.
NextStateRecovers(s, health) ==
    IF s \in {"shutting_down", "offline"} THEN s
    ELSE IF health # "healthy" THEN "degraded"
    ELSE IF s \in {"degraded", "recovering"} THEN "recovering" ELSE "running"

\* The switch of updateOperationalState: a service that was degraded is running
\* again after a second healthy round.
NextState(s, health) ==
    IF s \in {"shutting_down", "offline"} THEN s
    ELSE IF health # "healthy" THEN "degraded"
    ELSE IF s = "degraded" THEN "recovering" ELSE "running"

\* All goroutines have ended: updateOperationalState.
UpdateOperationalState ==
    /\ loop = "round" /\ \A n \in Checks : job[n] = "none"
    /\ loop' = "cache"
    /\ state' = NextState(state, Overall)
    /\ UNCHANGED <<up, roundVars, cached, stopPc>>

\* Variant: the response keeps the state read when the round began.
CacheResultEarly ==
    /\ loop = "cache"
    /\ loop' = "select"
    /\ cached' = [status |-> Overall,
                  state |-> IF cached = NoResult THEN "starting" ELSE cached.state]
    /\ UNCHANGED <<up, roundVars, state, stopPc>>

\* The state is read again, with Stop perhaps in between, and the result cached.
CacheResult ==
    /\ loop = "cache"
    /\ loop' = "select"
    /\ cached' = [status |-> Overall, state |-> state]
    /\ UNCHANGED <<up, roundVars, state, stopPc>>

\* The loop sees stopChan closed.
LoopEnds ==
    /\ loop = "select" /\ stopPc = "waiting"
    /\ loop' = "ended"
    /\ UNCHANGED <<up, roundVars, state, cached, stopPc>>

-----------------------------------------------------------------------------
(* Stop                                                                    *)

\* Stop before Start does nothing.
StopSetsState ==
    /\ stopPc = "no" /\ loop # "off"
    /\ stopPc' = "closing"
    /\ state' = "shutting_down"
    /\ UNCHANGED <<up, loop, roundVars, cached>>

StopCloses ==
    /\ stopPc = "closing"
    /\ stopPc' = "waiting"
    /\ UNCHANGED <<up, loop, roundVars, state, cached>>

\* The loop has ended.
StopDone ==
    /\ stopPc = "waiting" /\ loop = "ended"
    /\ stopPc' = "done"
    /\ state' = "offline"
    /\ UNCHANGED <<up, loop, roundVars, cached>>

-----------------------------------------------------------------------------

\* Components fail and recover at any time.
Breaks(n) == /\ n \in up /\ up' = up \ {n}
             /\ UNCHANGED <<loop, roundVars, state, cached, stopPc>>
Recovers(n) == /\ n \notin up /\ up' = up \cup {n}
               /\ UNCHANGED <<loop, roundVars, state, cached, stopPc>>

Job(n) == HealthCheck(n) \/ UpdatePassed(n) \/ UpdateFailed(n)
Loop == Tick \/ UpdateOperationalState \/ CacheResult
Stop == StopSetsState \/ StopCloses \/ StopDone

HealthNext ==
    \/ Start \/ Loop \/ LoopEnds \/ Stop
    \/ \E n \in Checks : Job(n) \/ Breaks(n) \/ Recovers(n)

HealthSpec == HealthInit /\ [][HealthNext]_healthVars

\* Goroutines run on, checks have a timeout, the ticker ticks.  A select with
\* both cases ready does not pass over stopChan for ever (SF).  main calls Start;
\* nothing obliges it to call Stop.
FairHealthSpec ==
    /\ HealthSpec
    /\ WF_healthVars(Start) /\ WF_healthVars(Loop) /\ SF_healthVars(LoopEnds)
    /\ WF_healthVars(StopCloses \/ StopDone)
    /\ \A n \in Checks : WF_healthVars(Job(n))

-----------------------------------------------------------------------------
(* Properties                                                              *)

Status == {"healthy", "degraded", "unhealthy"}
\* Types of the variables.
HealthTypeOK ==
    /\ up \subseteq Checks
    /\ loop \in {"off", "round", "cache", "select", "ended"}
    /\ job \in [Checks -> {"none", "call", "passed", "failed"}]
    /\ failureCounts \in [Checks -> 0..FailureThreshold]
    /\ statuses \in [Checks -> Status \cup {"unknown"}]
    /\ failing \subseteq {"critical", "warning", "info"}
    /\ state \in State
    /\ cached \in [status : Status, state : State] \cup {NoResult}
    /\ stopPc \in {"no", "closing", "waiting", "done"}

\* Between two rounds the operational state agrees with the report: a service
\* that says it runs or recovers was healthy in the last round, one that says it
\* is degraded was not, and none is still starting.
StateFollows ==
    loop = "select" /\ stopPc = "no" =>
        /\ cached.state = state
        /\ state \in {"running", "recovering"} => cached.status = "healthy"
        /\ state = "degraded" => cached.status # "healthy"
        /\ state # "starting"

\* A round that ends during Stop does not bring the service back.
ShutdownIsFinal ==
    [][/\ state = "shutting_down" => state' \in {"shutting_down", "offline"}
       /\ state = "offline" => state' = "offline"]_healthVars

\* What /health/ready answers.
Ready == IF cached = NoResult THEN state # "starting"
                          ELSE cached.status # "unhealthy" /\ cached.state # "starting"

\* Components that stay up make the service running and ready, one critical
\* component that stays down makes it not ready, unless Stop is called.
ReadinessConverges ==
    /\ <>[](up = Checks) => <>[](Ready /\ state = "running") \/ <>(stopPc # "no")
    /\ \A n \in Critical : <>[](n \notin up) => <>[]~Ready \/ <>(stopPc # "no")

-----------------------------------------------------------------------------
(* The inductive strengthening used by GatewayProofs.                      *)

\* The flags of a round stand for the checks of their severity that have ended.
EndedUnhealthy(S) == \E n \in S : job[n] = "none" /\ statuses[n] = "unhealthy"

RoundInv ==
    /\ "critical" \in failing <=> EndedUnhealthy(Critical)
    /\ "warning" \in failing <=> EndedUnhealthy(Warning)
    /\ loop # "round" => \A n \in Checks : job[n] = "none"
    /\ loop = "off" => failing = {}
    /\ loop \in {"select", "ended"} => cached # NoResult /\ cached.status = Overall

\* Only Stop makes the state a terminal one, and a round leaves it as it found
\* the components.
StateInv ==
    /\ stopPc \in {"no", "closing", "waiting"} => state # "offline"
    /\ stopPc = "no" <=> state \notin {"shutting_down", "offline"}
    /\ loop \in {"cache", "select"} /\ stopPc = "no" =>
          /\ state # "starting"
          /\ state = "degraded" <=> Overall # "healthy"
    /\ loop = "select" /\ stopPc = "no" => cached.state = state
    /\ stopPc = "done" => loop = "ended"

HealthInv == HealthTypeOK /\ RoundInv /\ StateInv
=============================================================================
