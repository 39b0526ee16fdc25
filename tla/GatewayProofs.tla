--------------------------- MODULE GatewayProofs ---------------------------
(***************************************************************************)
(* Proofs about four parts of the gateway: the end of main                 *)
(* (GatewayShutdown), the health checker (HealthChecker), the device       *)
(* manager with its file (DeviceManager), and how the Modbus and S7        *)
(* clients access tags (TagAccess).  Each specification is proved on its   *)
(* own; their names are disjoint, so that the proofs share this module.    *)
(***************************************************************************)
EXTENDS GatewayShutdown, HealthChecker, DeviceManager, TagAccess, WellFoundedInduction,
    FiniteSetTheorems, TLAPS

-----------------------------------------------------------------------------
(* The end of main, for any number of devices, requests and pools.  The    *)
(* guarantee that main documents holds until shutdownCtx expires.          *)

AfterHttp == {"command", "polling", "opcua", "pools", "mqtt", "exit"}
AfterCommands == AfterHttp \ {"command"}
AfterPolling == AfterCommands \ {"polling"}
AfterOpcua == AfterPolling \ {"opcua"}

\* What each step of main has achieved, and what stays so: nothing comes back
\* once its part of the gateway was stopped.
Stopped ==
    /\ step \in AfterHttp /\ ~expired => \A r \in Requests : request[r] \in {"none", "done"}
    /\ step \in AfterCommands => processor = "off"
    /\ step \in AfterPolling /\ ~expired => \A p \in Pollers : poller[p] \in {"none", "off"}
    /\ step \in AfterOpcua => \A p \in Pushers : pusher[p] = "off"
    /\ step \notin AfterOpcua => open = Pools
    /\ step # "exit" => mqtt = TRUE

StopInv == GatewayTypeOK /\ Stopped

-----------------------------------------------------------------------------

\* Every variable of the shutdown model keeps its type, whatever is slow.
THEOREM GatewayTypeCorrect == GatewaySpec => []GatewayTypeOK
<1>1. GatewayInit => GatewayTypeOK
  BY ShutdownAssumption DEF GatewayInit, GatewayTypeOK, RequestState, PollerState
<1>2. GatewayTypeOK /\ [GatewayNext]_gatewayVars => GatewayTypeOK'
  <2> SUFFICES ASSUME GatewayTypeOK, [GatewayNext]_gatewayVars PROVE GatewayTypeOK'
    OBVIOUS
  <2> USE ShutdownAssumption DEF GatewayTypeOK, RequestState, PollerState, Go
  <2>1. CASE Main
    BY <2>1 DEF Main, Signal, HealthStopped, HttpStopped, CommandStopped,
                PollingStopped, OpcuaClosed, PoolsClosed, Disconnected,
                pollingVars
  <2>2. CASE Expire \/ HealthRound \/ HealthRoundEnds
    BY <2>2 DEF Expire, HealthRound, HealthRoundEnds, mainVars, pollingVars
  <2>3. CASE \E r \in Requests : RequestSteps(r)
    <3>1. PICK r \in Requests : RequestSteps(r)
      BY <2>3
    <3>2. CASE RequestArrives(r) \/ RequestDone(r)
      BY <3>2 DEF RequestArrives, RequestDone, mainVars, pollingVars
    <3>3. CASE \E p \in Pollers : RequestRegisters(r, p)
      BY <3>3 DEF RequestRegisters, mainVars
    <3>4. QED BY <3>1, <3>2, <3>3 DEF RequestSteps
  <2>4. CASE Commands
    BY <2>4 DEF Commands, CommandArrives, CommandWritten, CommandAnswered, mainVars,
                pollingVars
  <2>5. CASE \E p \in Pollers : Polling(p)
    BY <2>5 DEF Polling, PollBegins, PollRead, PollPublished, PollerExits, mainVars
  <2>6. CASE \E p \in Pushers : Pushing(p)
    BY <2>6 DEF Pushing, PushBegins, PushPublished, mainVars, pollingVars
  <2>7. CASE UNCHANGED gatewayVars
    BY <2>7 DEF gatewayVars, mainVars, pollingVars
  <2>8. QED
    BY <2>1, <2>2, <2>3, <2>4, <2>5, <2>6, <2>7 DEF GatewayNext
<1>3. QED
  BY <1>1, <1>2, PTL DEF GatewaySpec

-----------------------------------------------------------------------------

\* Each step of main establishes its own part of Stopped and keeps the rest.
LEMMA MainStops ==
  ASSUME StopInv, Main PROVE Stopped'
<1> USE DEF StopInv, Stopped, GatewayTypeOK, Go, AfterHttp, AfterCommands, AfterPolling,
            AfterOpcua, pollingVars
<1>1. CASE Signal \/ HealthStopped
  BY <1>1 DEF Signal, HealthStopped
<1>2. CASE HttpStopped
  BY <1>2 DEF HttpStopped
<1>3. CASE CommandStopped
  BY <1>3 DEF CommandStopped
<1>4. CASE PollingStopped
  BY <1>4 DEF PollingStopped
<1>5. CASE OpcuaClosed
  BY <1>5 DEF OpcuaClosed
<1>6. CASE PoolsClosed \/ Disconnected
  BY <1>6 DEF PoolsClosed, Disconnected
<1>7. QED
  BY <1>1, <1>2, <1>3, <1>4, <1>5, <1>6 DEF Main

\* No component brings back what main has stopped.
LEMMA WorkKeepsStopped ==
  ASSUME StopInv,
         \/ Expire \/ HealthRound \/ HealthRoundEnds
         \/ \E r \in Requests : RequestSteps(r)
         \/ Commands
         \/ \E p \in Pollers : Polling(p)
         \/ \E p \in Pushers : Pushing(p)
  PROVE  Stopped'
<1> USE DEF StopInv, Stopped, GatewayTypeOK, AfterHttp, AfterCommands, AfterPolling, AfterOpcua,
            mainVars, pollingVars
<1>1. CASE Expire
  BY <1>1 DEF Expire
<1>2. CASE HealthRound \/ HealthRoundEnds
  BY <1>2 DEF HealthRound, HealthRoundEnds
<1>3. ASSUME NEW r \in Requests, RequestSteps(r) PROVE Stopped'
  <2>1. CASE RequestArrives(r) \/ RequestDone(r)
    BY <2>1 DEF RequestArrives, RequestDone
  <2>2. CASE \E p \in Pollers : RequestRegisters(r, p)
    BY <2>2 DEF RequestRegisters
  <2>3. QED BY <1>3, <2>1, <2>2 DEF RequestSteps
<1>4. CASE Commands
  BY <1>4 DEF Commands, CommandArrives, CommandWritten, CommandAnswered
<1>5. ASSUME NEW p \in Pollers, Polling(p) PROVE Stopped'
  BY <1>5 DEF Polling, PollBegins, PollRead, PollPublished, PollerExits
<1>6. ASSUME NEW p \in Pushers, Pushing(p) PROVE Stopped'
  BY <1>6 DEF Pushing, PushBegins, PushPublished
<1>7. QED
  BY <1>1, <1>2, <1>3, <1>4, <1>5, <1>6

LEMMA Ordered == GatewaySpec => []StopInv
<1>1. GatewayInit => Stopped
  BY DEF GatewayInit, Stopped, AfterHttp, AfterCommands, AfterPolling, AfterOpcua
<1>2. StopInv /\ [GatewayNext]_gatewayVars => Stopped'
  <2> SUFFICES ASSUME StopInv, [GatewayNext]_gatewayVars PROVE Stopped'
    OBVIOUS
  <2>1. CASE Main
    BY <2>1, MainStops
  <2>2. CASE UNCHANGED gatewayVars
    BY <2>2 DEF StopInv, Stopped, gatewayVars, mainVars, pollingVars
  <2>3. QED
    BY <2>1, <2>2, WorkKeepsStopped DEF GatewayNext
<1>3. QED
  BY <1>1, <1>2, GatewayTypeCorrect, PTL DEF GatewaySpec, StopInv

\* The guarantee main documents: until shutdownCtx expires no poller,
\* request, command or notification uses a pool or the publisher after it was
\* closed; a command does not even then.
THEOREM NoUseAfterCloseHolds == GatewaySpec => []NoUseAfterClose
<1>1. StopInv => NoUseAfterClose
  BY ShutdownAssumption DEF StopInv, Stopped, GatewayTypeOK, NoUseAfterClose, InTime, AfterHttp,
     AfterCommands, AfterPolling, AfterOpcua
<1>2. QED
  BY <1>1, Ordered, PTL

\* Unless shutdownCtx expired nobody publishes any more when the publisher
\* starts to flush.
THEOREM NoProducerAtDisconnectHolds == GatewaySpec => []NoProducerAtDisconnect
<1>1. StopInv => NoProducerAtDisconnect
  BY DEF StopInv, Stopped, NoProducerAtDisconnect, AfterHttp, AfterCommands,
     AfterPolling, AfterOpcua
<1>2. QED
  BY <1>1, Ordered, PTL

-----------------------------------------------------------------------------
(* The health checker, for any set of checks and any failure threshold.    *)

\* A saturating count keeps its range and reaches the threshold only from one
\* below it or from itself.
LEMMA MoreRange ==
    ASSUME NEW k \in 0..FailureThreshold
    PROVE  /\ More(k) \in 0..FailureThreshold
           /\ More(k) >= FailureThreshold <=> More(k) = FailureThreshold
           /\ More(k) # 0
  BY HealthAssumption DEF More

\* A round's status is one of the three.
LEMMA OverallStatus == Overall \in Status
  BY DEF Overall, Status

\* The state machine of updateOperationalState stays within its states, leaves the
\* terminal ones alone, and is degraded exactly after a round that was not healthy.
LEMMA NextStateFacts ==
    ASSUME NEW s \in State, NEW h \in Status
    PROVE  /\ NextState(s, h) \in State
           /\ s \in {"shutting_down", "offline"} => NextState(s, h) = s
           /\ s \notin {"shutting_down", "offline"} =>
                 /\ NextState(s, h) \notin {"shutting_down", "offline", "starting"}
                 /\ NextState(s, h) = "degraded" <=> h # "healthy"
  BY DEF NextState, State, Status

\* Every step keeps the types.
LEMMA HealthTypeStep == HealthTypeOK /\ [HealthNext]_healthVars => HealthTypeOK'
  <1> SUFFICES ASSUME HealthTypeOK, [HealthNext]_healthVars PROVE HealthTypeOK'
    OBVIOUS
  <1> USE DEF HealthTypeOK
  <1>1. CASE Start
    BY <1>1 DEF Start
  <1>2. CASE Tick
    BY <1>2 DEF Tick
  <1>3. ASSUME NEW n \in Checks, HealthCheck(n) PROVE HealthTypeOK'
    BY <1>3 DEF HealthCheck
  <1>4. ASSUME NEW n \in Checks, UpdatePassed(n) PROVE HealthTypeOK'
    BY <1>4, HealthAssumption DEF UpdatePassed, Report, Status, Severity
  <1>5. ASSUME NEW n \in Checks, UpdateFailed(n) PROVE HealthTypeOK'
    <2>1. failureCounts' \in [Checks -> 0..FailureThreshold]
      BY <1>5, MoreRange DEF UpdateFailed
    <2> QED BY <1>5, <2>1 DEF UpdateFailed, Report, Status, Severity
  <1>6. CASE UpdateOperationalState
    BY <1>6, NextStateFacts, OverallStatus
       DEF UpdateOperationalState, roundVars
  <1>7. CASE CacheResult
    BY <1>7, OverallStatus DEF CacheResult, roundVars
  <1>8. CASE LoopEnds
    BY <1>8 DEF LoopEnds, roundVars
  <1>9. CASE StopSetsState
    BY <1>9 DEF StopSetsState, State, roundVars
  <1>10. CASE StopCloses
    BY <1>10 DEF StopCloses, roundVars
  <1>11. CASE StopDone
    BY <1>11 DEF StopDone, State, roundVars
  <1>12. ASSUME NEW n \in Checks, Breaks(n) \/ Recovers(n) PROVE HealthTypeOK'
    BY <1>12 DEF Breaks, Recovers, roundVars
  <1>13. CASE UNCHANGED healthVars
    BY <1>13 DEF healthVars, roundVars
  <1> QED
    BY <1>1, <1>2, <1>3, <1>4, <1>5, <1>6, <1>7, <1>8, <1>9, <1>10, <1>11, <1>12,
       <1>13 DEF HealthNext, Job, Loop, Stop

\* When n's goroutine ends with status s, the flag of a severity follows the
\* checks of that severity.
LEMMA ReportFlags ==
    ASSUME HealthTypeOK, RoundInv, NEW n \in Checks, NEW s, Report(n, s), job[n] # "none"
    PROVE  /\ "critical" \in failing' <=> EndedUnhealthy(Critical)'
           /\ "warning" \in failing' <=> EndedUnhealthy(Warning)'
           /\ loop = "round"
  <1>1. loop = "round"
    BY DEF RoundInv
  <1>2. \A m \in Checks : m # n => job'[m] = job[m] /\ statuses'[m] = statuses[m]
    BY DEF Report, HealthTypeOK
  <1>3. job'[n] = "none" /\ statuses'[n] = s
    BY DEF Report, HealthTypeOK
  <1>4. ASSUME NEW S \in SUBSET Checks
        PROVE  EndedUnhealthy(S)' <=> \/ EndedUnhealthy(S)
                                      \/ n \in S /\ s = "unhealthy"
    BY <1>2, <1>3 DEF EndedUnhealthy
  <1>5. "critical" \in failing' <=> \/ "critical" \in failing
                                    \/ n \in Critical /\ s = "unhealthy"
    BY DEF Report, Severity
  <1>6. "warning" \in failing' <=> \/ "warning" \in failing
                                   \/ n \in Warning /\ s = "unhealthy"
    BY HealthAssumption DEF Report, Severity
  <1>7. Critical \in SUBSET Checks /\ Warning \in SUBSET Checks
    BY DEF Checks
  <1> QED
    BY <1>1, <1>4, <1>5, <1>6, <1>7 DEF RoundInv

\* The flags of a round and the cached result.
LEMMA RoundStep == HealthTypeOK /\ RoundInv /\ [HealthNext]_healthVars => RoundInv'
  <1> SUFFICES ASSUME HealthTypeOK, RoundInv, [HealthNext]_healthVars PROVE RoundInv'
    OBVIOUS
  <1>0. Critical \subseteq Checks /\ Warning \subseteq Checks
    BY DEF Checks
  <1>1. CASE Start
    <2>1. "critical" \notin failing /\ "warning" \notin failing
      BY <1>1 DEF Start, RoundInv
    <2> QED
      BY <1>0, <1>1, <2>1 DEF Start, RoundInv, EndedUnhealthy
  <1>2. CASE Tick
    BY <1>0, <1>2 DEF Tick, RoundInv, EndedUnhealthy
  <1>3. ASSUME NEW n \in Checks, HealthCheck(n) PROVE RoundInv'
    <2>1. \A m \in Checks : job'[m] = "none" <=> job[m] = "none"
      BY <1>3 DEF HealthCheck, HealthTypeOK
    <2>2. loop = "round" /\ loop' = "round"
      BY <1>3 DEF HealthCheck, RoundInv
    <2> QED
      BY <1>0, <1>3, <2>1, <2>2 DEF HealthCheck, RoundInv, EndedUnhealthy
  <1>4. ASSUME NEW n \in Checks, UpdatePassed(n) PROVE RoundInv'
    <2>1. loop' = "round"
      BY <1>4, ReportFlags DEF UpdatePassed, Report
    <2> QED
      BY <1>4, <2>1, ReportFlags DEF UpdatePassed, RoundInv
  <1>5. ASSUME NEW n \in Checks, UpdateFailed(n) PROVE RoundInv'
    <2>1. loop' = "round"
      BY <1>5, ReportFlags DEF UpdateFailed, Report
    <2> QED
      BY <1>5, <2>1, ReportFlags DEF UpdateFailed, RoundInv
  <1>6. CASE UpdateOperationalState
    BY <1>6 DEF UpdateOperationalState, RoundInv, EndedUnhealthy, roundVars
  <1>7. CASE CacheResult
    <2>1. cached' # NoResult
      <3>1. Overall \in {"healthy", "degraded", "unhealthy"} /\ state \in State
        BY OverallStatus DEF HealthTypeOK, Status
      <3>2. cached' \in [status : {"healthy", "degraded", "unhealthy"}, state : State]
        BY <1>7, <3>1 DEF CacheResult
      <3> QED
        BY <3>2, HealthAssumption
    <2> QED
      BY <1>7, <2>1 DEF CacheResult, RoundInv, EndedUnhealthy, Overall, roundVars
  <1>8. CASE LoopEnds
    BY <1>8 DEF LoopEnds, RoundInv, EndedUnhealthy, Overall, roundVars
  <1>9. CASE UNCHANGED <<loop, job, statuses, failing, cached>>
    BY <1>9 DEF RoundInv, EndedUnhealthy, Overall
  <1> QED
    BY <1>1, <1>2, <1>3, <1>4, <1>5, <1>6, <1>7, <1>8, <1>9
    DEF HealthNext, Job, Loop, Stop, StopSetsState, StopCloses, StopDone, Breaks, Recovers,
        healthVars, roundVars

\* The operational state, by the rounds and Stop.
LEMMA StateStep == HealthTypeOK /\ RoundInv /\ StateInv /\ [HealthNext]_healthVars => StateInv'
  <1> SUFFICES ASSUME HealthTypeOK, RoundInv, StateInv, [HealthNext]_healthVars PROVE StateInv'
    OBVIOUS
  <1>1. CASE Start
    BY <1>1 DEF Start, StateInv
  <1>2. CASE Tick
    BY <1>2 DEF Tick, StateInv
  <1>3. ASSUME NEW n \in Checks, HealthCheck(n) PROVE StateInv'
    BY <1>3 DEF HealthCheck, StateInv, RoundInv
  <1>4. ASSUME NEW n \in Checks, UpdatePassed(n) \/ UpdateFailed(n) PROVE StateInv'
    BY <1>4 DEF UpdatePassed, UpdateFailed, Report, StateInv, RoundInv
  <1>5. CASE UpdateOperationalState
    <2>1. Overall' = Overall
      BY <1>5 DEF UpdateOperationalState, Overall, roundVars
    <2> QED
      BY <1>5, <2>1, OverallStatus, NextStateFacts
      DEF UpdateOperationalState, StateInv, HealthTypeOK
  <1>6. CASE CacheResult
    <2>1. Overall' = Overall
      BY <1>6 DEF CacheResult, Overall, roundVars
    <2> QED
      BY <1>6, <2>1 DEF CacheResult, StateInv
  <1>7. CASE LoopEnds
    BY <1>7 DEF LoopEnds, StateInv
  <1>8. CASE Stop
    BY <1>8 DEF Stop, StopSetsState, StopCloses, StopDone, StateInv
  <1>9. CASE UNCHANGED <<loop, failing, state, cached, stopPc>>
    BY <1>9 DEF StateInv, Overall
  <1> QED
    BY <1>1, <1>2, <1>3, <1>4, <1>5, <1>6, <1>7, <1>8, <1>9
    DEF HealthNext, Job, Loop, Breaks, Recovers, healthVars, roundVars

\* The initial states.
LEMMA InitHealthInv == HealthInit => HealthInv
  <1> SUFFICES ASSUME HealthInit PROVE HealthInv
    OBVIOUS
  <1>1. HealthTypeOK
    BY HealthAssumption DEF HealthInit, HealthTypeOK, State
  <1>2. RoundInv
    <2>1. Critical \subseteq Checks /\ Warning \subseteq Checks
      BY DEF Checks
    <2> QED
      BY <2>1 DEF HealthInit, RoundInv, EndedUnhealthy
  <1>3. StateInv
    BY DEF HealthInit, StateInv
  <1> QED
    BY <1>1, <1>2, <1>3 DEF HealthInv

\* HealthInv is an invariant of the health checker.
THEOREM HealthInvariant == HealthSpec => []HealthInv
  <1>1. HealthInv /\ [HealthNext]_healthVars => HealthInv'
    BY HealthTypeStep, RoundStep, StateStep DEF HealthInv
  <1> QED
    BY <1>1, InitHealthInv, PTL DEF HealthSpec

\* Every variable of the health checker keeps its type.
THEOREM HealthTypeCorrect == HealthSpec => []HealthTypeOK
  <1>1. HealthInv => HealthTypeOK
    BY DEF HealthInv
  <1> QED
    BY <1>1, HealthInvariant, PTL

\* Between rounds the operational state agrees with the round's status.
THEOREM StateFollowsHolds == HealthSpec => []StateFollows
  <1>1. HealthInv => StateFollows
    BY DEF HealthInv, RoundInv, StateInv, StateFollows
  <1> QED
    BY <1>1, HealthInvariant, PTL

\* No round brings the service back from shutting_down or offline.
THEOREM ShutdownIsFinalHolds == HealthSpec => ShutdownIsFinal
  <1> DEFINE Final == /\ state = "shutting_down" => state' \in {"shutting_down", "offline"}
                      /\ state = "offline" => state' = "offline"
  <1>1. HealthInv /\ [HealthNext]_healthVars => [Final]_healthVars
    <2> SUFFICES ASSUME HealthInv, HealthNext PROVE Final
      OBVIOUS
    <2>1. CASE UpdateOperationalState
      BY <2>1, OverallStatus, NextStateFacts
      DEF UpdateOperationalState, HealthInv, HealthTypeOK
    <2>2. CASE Stop
      BY <2>2 DEF Stop, StopSetsState, StopCloses, StopDone, HealthInv, StateInv
    <2>3. CASE UNCHANGED state
      BY <2>3
    <2> QED
      BY <2>1, <2>2, <2>3
      DEF HealthNext, Job, Loop, Start, Tick, HealthCheck, UpdatePassed, UpdateFailed, Report,
          CacheResult, LoopEnds, Breaks, Recovers
  <1> QED
    BY <1>1, HealthInvariant, PTL DEF HealthSpec, ShutdownIsFinal

-----------------------------------------------------------------------------
(* The device manager, the device file and the polling service agree, for  *)
(* any set of devices and configurations.                                  *)

\* What is stored is a map of devices, and storing it again changes nothing.
LEMMA StoredFacts ==
    ASSUME NEW m \in Map
    PROVE  Stored(m) \in Map /\ Stored(Stored(m)) = Stored(m)
  <1>1. ASSUME NEW c \in Configs
        PROVE  /\ [c EXCEPT !.extra = FALSE] \in Configs
               /\ [c EXCEPT !.extra = FALSE] # None
               /\ [[c EXCEPT !.extra = FALSE] EXCEPT !.extra = FALSE]
                     = [c EXCEPT !.extra = FALSE]
    BY DeviceAssumption
  <1>2. \A d \in Ids : m[d] \in Configs \cup {None}
    BY DEF Map
  <1> QED
    BY <1>1, <1>2 DEF Stored, Map

\* The callbacks register enabled devices only.
LEMMA CallbackType ==
    ASSUME DeviceTypeOK, NEW d \in Ids, NEW op, NEW c,
           op # "delete" => c \in Configs
    PROVE  Callback(op, d, c) \in {k \in Configs : k.enabled} \cup {None}
  BY DEF Callback, Register, Replace, DeviceTypeOK

\* After the callback the entry of d agrees with the device.
LEMMA CallbackAgrees ==
    ASSUME DeviceTypeOK, NEW d \in Ids, NEW op, NEW c, NEW old,
           op = "delete" <=> c = None, op = "add" <=> old = None,
           op # "delete" => c \in Configs,
           polled[d] # None => old # None /\ (old.supported => polled[d] = old)
    PROVE  LET p == Callback(op, d, c)
           IN  /\ p # None => c # None /\ (c.supported => p = c)
               /\ c # None /\ c.enabled /\ c.supported => p # None
  BY DeviceAssumption DEF Callback, Register, Replace, DeviceTypeOK

\* A call in progress has the fields of one.
LEMMA CallFields ==
    ASSUME DeviceTypeOK, call.at # "none"
    PROVE  call \in [op : {"add", "update", "delete"}, id : Ids,
                     old : Configs \cup {None}, at : {"open", "write", "notify"}]
  BY DEF DeviceTypeOK, NoCall

\* Every step keeps the types.
LEMMA DeviceTypeStep == DeviceInv /\ [DeviceNext]_deviceVars => DeviceTypeOK'
  <1> SUFFICES ASSUME DeviceInv, [DeviceNext]_deviceVars PROVE DeviceTypeOK'
    OBVIOUS
  <1>0. DeviceTypeOK /\ CallInv
    BY DEF DeviceInv
  <1>1. ASSUME NEW op \in {"add", "update", "delete"}, NEW d \in Ids,
               NEW e \in Configs \cup {None}, Change(op, d, e)
        PROVE  DeviceTypeOK'
    BY <1>0, <1>1 DEF Change, DeviceTypeOK, Map
  <1>2. CASE SaveOpens
    <2>1. Empty \in Map
      BY DEF Empty, Map
    <2> QED BY <1>0, <1>2, <2>1, CallFields DEF SaveOpens, DeviceTypeOK
  <1>3. CASE SaveWrites
    BY <1>0, <1>3, CallFields, StoredFacts DEF SaveWrites, DeviceTypeOK
  <1>4. CASE SaveFails
    <2>1. call.id \in Ids /\ call.old \in Configs \cup {None}
      BY <1>0, <1>4, CallFields DEF SaveFails
    <2>2. devices' \in Map
      BY <1>0, <1>4, <2>1 DEF SaveFails, DeviceTypeOK, Map
    <2>3. file' \in Map \cup {Garbled}
      BY <1>0, <1>4, StoredFacts DEF SaveFails, DeviceTypeOK, Map, Partial
    <2> QED BY <1>0, <1>4, <2>2, <2>3 DEF SaveFails, DeviceTypeOK
  <1>5. CASE Notify
    <2>1. /\ call.id \in Ids
          /\ call.op # "delete" => devices[call.id] \in Configs
      BY <1>0, <1>5, CallFields DEF Notify, DeviceTypeOK, Map, CallInv, NoCall
    <2> QED BY <1>0, <1>5, <2>1, CallbackType DEF Notify, DeviceTypeOK
  <1>6. CASE Crash
    BY <1>0, <1>6 DEF Crash, Empty, Map, DeviceTypeOK
  <1>7. CASE StartUp
    <2>1. file \in Map
      BY <1>0, <1>7 DEF StartUp, Loads, DeviceTypeOK
    <2>2. polled' \in [Ids -> {c \in Configs : c.enabled} \cup {None}]
      BY <1>0, <1>7, <2>1 DEF StartUp, Register, Map, DeviceTypeOK
    <2> QED BY <1>0, <1>7, <2>1, <2>2 DEF StartUp, DeviceTypeOK
  <1>8. CASE StartFails
    BY <1>0, <1>8 DEF StartFails, DeviceTypeOK
  <1>9. CASE UNCHANGED deviceVars
    BY <1>0, <1>9 DEF deviceVars, DeviceTypeOK
  <1> QED
    BY <1>1, <1>2, <1>3, <1>4, <1>5, <1>6, <1>7, <1>8, <1>9
    DEF DeviceNext, AddDevice, UpdateDevice, DeleteDevice

\* Undoing a change gives the map back.
LEMMA Undo ==
    ASSUME NEW m \in Map, NEW d \in Ids, NEW e \in Configs \cup {None}
    PROVE  [[m EXCEPT ![d] = e] EXCEPT ![d] = m[d]] = m
  BY DEF Map

\* Every step keeps what relates the map, the file and the polling service.
LEMMA CallStep == DeviceInv /\ [DeviceNext]_deviceVars => CallInv' /\ PollingAgrees' /\ Persisted'
  <1> SUFFICES ASSUME DeviceInv, [DeviceNext]_deviceVars
               PROVE  CallInv' /\ PollingAgrees' /\ Persisted'
    OBVIOUS
  <1>0. DeviceTypeOK /\ FileInv /\ CallInv /\ PollingAgrees /\ Persisted
    BY DEF DeviceInv
  <1>1. ASSUME NEW op \in {"add", "update", "delete"}, NEW d \in Ids,
               NEW e \in Configs \cup {None}, Change(op, d, e),
               op = "delete" <=> e = None, op = "add" <=> devices[d] = None
        PROVE  CallInv' /\ PollingAgrees' /\ Persisted'
    <2>1. /\ call' # NoCall /\ call'.id = d /\ call'.op = op /\ call'.at = "open"
          /\ call'.old = devices[d]
      BY <1>1 DEF Change, NoCall
    <2>2. devices'[d] = e /\ \A m \in Ids \ {d} : devices'[m] = devices[m]
      BY <1>0, <1>1 DEF Change, DeviceTypeOK, Map
    <2>3. \A m \in Ids : Agrees(m)
      BY <1>0, <1>1 DEF Change, PollingAgrees
    <2>4. \A m \in Ids \ {d} : Agrees(m)'
      BY <1>1, <2>2, <2>3 DEF Change, Agrees
    <2>5. [devices' EXCEPT ![d] = devices[d]] = devices
      BY <1>0, <1>1, Undo DEF Change, DeviceTypeOK
    <2>6. intact' => file' = Stored(devices)
      BY <1>0, <1>1 DEF Change, Persisted
    <2>7. polled'[d] # None =>
             devices[d] # None /\ (devices[d].supported => polled'[d] = devices[d])
      BY <1>1, <2>3 DEF Change, Agrees
    <2>8. devices[d] # None /\ devices[d].enabled /\ devices[d].supported => polled'[d] # None
      BY <1>1, <2>3 DEF Change, Agrees
    <2>9. CallInv'
      BY <1>1, <2>1, <2>2, <2>4, <2>5, <2>6, <2>7, <2>8 DEF Change, CallInv
    <2> QED BY <2>1, <2>9 DEF PollingAgrees, Persisted
  <1>2. CASE SaveOpens
    <2>1. call # NoCall /\ call' # NoCall /\ call'.id = call.id /\ call'.op = call.op
          /\ call'.old = call.old /\ call'.at = "write"
      BY <1>0, <1>2, CallFields DEF SaveOpens, NoCall
    <2>2. CallInv'
      BY <1>0, <1>2, <2>1 DEF SaveOpens, CallInv, Agrees
    <2> QED BY <2>1, <2>2 DEF PollingAgrees, Persisted
  <1>3. CASE SaveWrites
    <2>1. call # NoCall /\ call' # NoCall /\ call'.id = call.id /\ call'.op = call.op
          /\ call'.old = call.old /\ call'.at = "notify"
      BY <1>0, <1>3, CallFields DEF SaveWrites, NoCall
    <2>2. Stored(devices)' = Stored(devices)
      BY <1>3 DEF SaveWrites, Stored
    <2>3. CallInv'
      BY <1>0, <1>3, <2>1, <2>2 DEF SaveWrites, CallInv, Agrees
    <2> QED BY <2>1, <2>3 DEF PollingAgrees, Persisted
  <1>4. CASE SaveFails
    <2>1. call # NoCall /\ call.id \in Ids /\ call.old \in Configs \cup {None}
      BY <1>0, <1>4, CallFields DEF SaveFails, NoCall
    <2>2. /\ devices'[call.id] = call.old
          /\ \A m \in Ids \ {call.id} : devices'[m] = devices[m]
      BY <1>0, <1>4, <2>1 DEF SaveFails, DeviceTypeOK, Map
    <2>3. phase = "up"
      BY <1>0, <2>1 DEF CallInv, DeviceTypeOK
    <2>4. \A m \in Ids : Agrees(m)'
      BY <1>0, <1>4, <2>1, <2>2, <2>3 DEF SaveFails, CallInv, Agrees
    <2>5. intact' => file' = Stored(devices')
      BY <1>0, <1>4, <2>1 DEF SaveFails, CallInv
    <2>6. call' = NoCall /\ phase' = "up"
      BY <1>4, <2>3 DEF SaveFails
    <2> QED BY <2>4, <2>5, <2>6 DEF CallInv, PollingAgrees, Persisted, Stored
  <1>5. CASE Notify
    <2>1. call # NoCall /\ call.id \in Ids /\ call.old \in Configs \cup {None}
      BY <1>0, <1>5, CallFields DEF Notify, NoCall
    <2>2. phase = "up"
      BY <1>0, <2>1 DEF CallInv, DeviceTypeOK
    <2>0. PICK d \in Ids : d = call.id
      BY <2>1
    <2> DEFINE p == Callback(call.op, d, devices[d])
    <2>3. call.op # "delete" => devices[d] \in Configs
      BY <1>0, <2>0, <2>1 DEF CallInv, DeviceTypeOK, Map
    <2>4. /\ p # None => devices[d] # None /\ (devices[d].supported => p = devices[d])
          /\ devices[d] # None /\ devices[d].enabled /\ devices[d].supported => p # None
      BY <1>0, <2>0, <2>1, <2>3, CallbackAgrees DEF CallInv
    <2>5. polled'[d] = p /\ \A m \in Ids \ {d} : polled'[m] = polled[m]
      BY <1>0, <1>5, <2>0 DEF Notify, DeviceTypeOK
    <2>6. Agrees(d)'
      BY <1>5, <2>4, <2>5 DEF Notify, Agrees
    <2>7. \A m \in Ids \ {d} : Agrees(m)'
      BY <1>0, <1>5, <2>0, <2>2, <2>5 DEF Notify, Agrees, CallInv
    <2>8. file' = Stored(devices)'
      BY <1>0, <1>5, <2>1 DEF Notify, CallInv, Stored
    <2> HIDE DEF p
    <2> QED BY <1>5, <2>2, <2>6, <2>7, <2>8 DEF Notify, CallInv, PollingAgrees, Persisted
  <1>6. CASE Crash
    BY <1>6 DEF Crash, CallInv, PollingAgrees, Persisted
  <1>7. CASE StartUp
    <2>1. file \in Map /\ call' = NoCall /\ polled = Empty /\ phase' = "up"
      BY <1>0, <1>7 DEF StartUp, Loads, DeviceTypeOK, CallInv
    <2>2. ASSUME NEW d \in Ids PROVE Agrees(d)'
      BY <1>7, <2>1, DeviceAssumption DEF StartUp, Register, Empty, Agrees, Map
    <2>3. file' = Stored(devices)'
      BY <1>0, <1>7 DEF StartUp, Loads, FileInv, Stored
    <2> QED BY <2>1, <2>2, <2>3 DEF CallInv, PollingAgrees, Persisted
  <1>8. CASE StartFails
    BY <1>0, <1>8 DEF StartFails, CallInv, PollingAgrees, Persisted
  <1>9. CASE UNCHANGED deviceVars
    BY <1>0, <1>9 DEF deviceVars, CallInv, PollingAgrees, Persisted, Agrees, Stored
  <1> QED
    BY <1>0, <1>1, <1>2, <1>3, <1>4, <1>5, <1>6, <1>7, <1>8, <1>9, DeviceAssumption
    DEF DeviceNext, AddDevice, UpdateDevice, DeleteDevice

\* What the file holds is what would be stored again.
LEMMA FileStep == DeviceInv /\ [DeviceNext]_deviceVars => FileInv'
  <1> SUFFICES ASSUME DeviceInv, [DeviceNext]_deviceVars, file' # Garbled
               PROVE  Stored(file') = file'
    BY DEF FileInv, Stored
  <1>1. devices \in Map /\ FileInv
    BY DEF DeviceInv, DeviceTypeOK
  <1>2. CASE UNCHANGED file
    BY <1>1, <1>2 DEF FileInv
  <1>3. CASE SaveOpens
    BY <1>3 DEF SaveOpens, Stored, Empty
  <1>4. CASE SaveWrites
    BY <1>1, <1>4, StoredFacts DEF SaveWrites
  <1>5. CASE SaveFails /\ file' \in Partial
    <2>1. PICK S \in SUBSET Ids :
             file' = [d \in Ids |-> IF d \in S THEN Stored(devices)[d] ELSE None]
      BY <1>5 DEF Partial
    <2>2. Stored(Stored(devices)) = Stored(devices)
      BY <1>1, StoredFacts
    <2>3. ASSUME NEW d \in Ids PROVE Stored(file')[d] = file'[d]
      <3>1. CASE d \in S
        <4>1. Stored(Stored(devices))[d] = Stored(devices)[d]
          BY <2>2
        <4> QED BY <2>1, <3>1, <4>1 DEF Stored
      <3>2. CASE d \notin S
        BY <2>1, <3>2 DEF Stored
      <3> QED BY <3>1, <3>2
    <2> QED BY <2>1, <2>3 DEF Stored
  <1> QED
    BY <1>2, <1>3, <1>4, <1>5
    DEF DeviceNext, AddDevice, UpdateDevice, DeleteDevice, Change, SaveFails, Notify, Crash,
        StartUp, StartFails, deviceVars

\* The initial states.
LEMMA InitDeviceInv == DeviceInit => DeviceInv
  <1> SUFFICES ASSUME DeviceInit PROVE DeviceInv
    OBVIOUS
  <1>1. DeviceTypeOK
    BY DEF DeviceInit, DeviceTypeOK, Map, Empty
  <1> QED
    BY <1>1 DEF DeviceInit, DeviceInv, FileInv, CallInv, PollingAgrees, Persisted

\* IInv is an invariant of the device manager.
THEOREM DeviceInvariant == DeviceSpec => []DeviceInv
  <1>1. DeviceInv /\ [DeviceNext]_deviceVars => DeviceInv'
    BY DeviceTypeStep, FileStep, CallStep DEF DeviceInv
  <1> QED
    BY <1>1, InitDeviceInv, PTL DEF DeviceSpec

\* Every variable keeps its type, and only enabled devices are polled.
THEOREM DeviceTypeCorrect == DeviceSpec => []DeviceTypeOK
  <1>1. DeviceInv => DeviceTypeOK
    BY DEF DeviceInv
  <1> QED
    BY <1>1, DeviceInvariant, PTL

\* Between calls the polling service polls what the API shows.
THEOREM PollingAgreesHolds == DeviceSpec => []PollingAgrees
  <1>1. DeviceInv => PollingAgrees
    BY DEF DeviceInv
  <1> QED
    BY <1>1, DeviceInvariant, PTL

\* Between calls an intact file holds what the API shows.
THEOREM PersistedHolds == DeviceSpec => []Persisted
  <1>1. DeviceInv => Persisted
    BY DEF DeviceInv
  <1> QED
    BY <1>1, DeviceInvariant, PTL

-----------------------------------------------------------------------------
(* Tag access, for any tags, any number of bits in a byte and any space of *)
(* addresses: what was written is read back.  What is written in a byte    *)
(* order is read in the same one, a tag reads its own bits only, and a     *)
(* write changes the bits of its tag only.                                 *)

\* A coil, registers, and bytes of a data block that are written as they are read.
IsCoil(t) == t.area = "coil" /\ t.addr \in Nat
IsRegisters(t) ==
    /\ t.area = "holding" /\ t.addr \in Nat /\ t.count \in Nat \ {0}
    /\ t.size \in {2, 4, 8} /\ t.size <= 2 * t.count
    /\ t.order \in {"BE", "LE", "MB", "ML"}
    /\ t.bool \in BOOLEAN /\ (t.bool => t.size = 2 /\ t.bit = -1)
    /\ t.size = 2 * t.count \/ t.order \in {"BE", "MB"}
IsBlock(t) ==
    /\ t.area \notin ModbusArea /\ Single(t.area) = t.area
    /\ t.addr \in Nat /\ t.size \in Nat \ {0} /\ t.bool \in BOOLEAN
    /\ t.bool => t.bit \in 0..(Bits - 1) /\ t.size = 1
Symmetric(t) == IsCoil(t) \/ IsRegisters(t) \/ IsBlock(t)

\* What is written as it is read is one of the three.
LEMMA SymmetricTags ==
    ASSUME NEW t \in UNION (ModbusDevices \cup S7Devices),
           t \in UNION ModbusDevices => t.area \in {"coil", "holding"},
           ~Asymmetric(t)
    PROVE  Symmetric(t)
  <1>1. CASE t \in UNION ModbusDevices
    BY <1>1, BatchAssumption, TagAssumption
       DEF Asymmetric, Symmetric, IsCoil, IsRegisters, ModbusArea
  <1>2. CASE t \in UNION S7Devices
    BY <1>2, BatchAssumption, TagAssumption
       DEF Asymmetric, Symmetric, IsBlock, Single, Block
  <1> QED BY <1>1, <1>2

-----------------------------------------------------------------------------
(* Byte orders                                                             *)

\* reorderBytes undoes itself: each byte order is its own inverse.
LEMMA SourceTwice ==
    ASSUME NEW o \in {"BE", "LE", "MB", "ML"}, NEW n \in {2, 4, 8}, NEW i \in 1..n
    PROVE  Source(o, n, i) \in 1..n /\ Source(o, n, Source(o, n, i)) = i
  BY DEF Source

\* Registers beyond those of the type, which only BE and MB tags have here, leave the
\* places of its bytes as they are.
LEMMA SourcePrefix ==
    ASSUME NEW t, IsRegisters(t), NEW i \in 1..t.size
    PROVE  Source(t.order, 2 * t.count, i) = Source(t.order, t.size, i)
  BY DEF Source, IsRegisters

-----------------------------------------------------------------------------
(* What is read                                                            *)

\* The bytes of registers t in order, cut out of the bytes on the wire.
Cells(t, wire) == [i \in 1..t.size |-> wire[Source(t.order, t.size, i)]]

\* parseValue looks at the first t.size bytes only.
LEMMA ParseRegisters ==
    ASSUME NEW t, IsRegisters(t), NEW wire, Len(wire) = 2 * t.count
    PROVE  ModbusValue(t, reorderBytes(wire, t.order)) =
              IF t.bool THEN Truth(ToSet(Cells(t, wire)[1]) \cup ToSet(Cells(t, wire)[2]))
                        ELSE Cells(t, wire)
  <1>1. PICK ordered : ordered = reorderBytes(wire, t.order)
    OBVIOUS
  <1>2. ordered = [i \in 1..(2 * t.count) |-> wire[Source(t.order, 2 * t.count, i)]]
    BY <1>1 DEF reorderBytes
  <1>3. t.count \in Nat /\ t.size \in 2..(2 * t.count)
    BY DEF IsRegisters
  <1>4. \A i \in 1..t.size : ordered[i] = Cells(t, wire)[i]
    <2> SUFFICES ASSUME NEW i \in 1..t.size PROVE ordered[i] = Cells(t, wire)[i]
      OBVIOUS
    <2>1. i \in 1..(2 * t.count)
      BY <1>3
    <2>2. ordered[i] = wire[Source(t.order, 2 * t.count, i)]
      BY <1>2, <2>1
    <2> QED BY <2>2, SourcePrefix DEF Cells
  <1>5. CASE t.bool
    <2>1. ordered[1] = Cells(t, wire)[1] /\ ordered[2] = Cells(t, wire)[2]
      BY <1>3, <1>4
    <2> QED BY <1>1, <1>5, <2>1 DEF ModbusValue, IsRegisters
  <1>6. CASE ~t.bool
    <2>1. SubSeq(ordered, 1, t.size) = [i \in 1..t.size |-> ordered[i]]
      BY <1>2, <1>3
    <2>2. SubSeq(ordered, 1, t.size) = Cells(t, wire)
      BY <1>4, <2>1 DEF Cells
    <2> QED BY <1>1, <1>6, <2>2 DEF ModbusValue
  <1> QED BY <1>5, <1>6

\* What a tag reads, by its kind.
LEMMA Reads ==
    ASSUME NEW t
    PROVE  /\ IsCoil(t) => Actual(t) = Truth({Bit(t.area, t.addr, 0)})
           /\ IsRegisters(t) =>
                 Actual(t) = ModbusValue(t, reorderBytes(
                                 Bytes(t.area, 2 * t.addr, 2 * t.count), t.order))
           /\ IsBlock(t) => Actual(t) = S7Value(t, Bytes(t.area, t.addr, t.size))
  BY DEF IsCoil, IsRegisters, IsBlock, Actual, Coil, ModbusArea

\* The same of what it reads after the step.
LEMMA ReadsNext ==
    ASSUME NEW t
    PROVE  /\ IsCoil(t) => Actual(t)' = Truth({Bit(t.area, t.addr, 0)'})
           /\ IsRegisters(t) =>
                 Actual(t)' = ModbusValue(t, reorderBytes(
                                 Bytes(t.area, 2 * t.addr, 2 * t.count)', t.order))
           /\ IsBlock(t) => Actual(t)' = S7Value(t, Bytes(t.area, t.addr, t.size)')
  <1>1. IsCoil(t) => Actual(t)' = Truth({Bit(t.area, t.addr, 0)'})
    BY DEF IsCoil, Actual, Coil, ModbusArea, Truth, Zero
  <1>2. IsRegisters(t) => Actual(t)' = ModbusValue(t, reorderBytes(
                                 Bytes(t.area, 2 * t.addr, 2 * t.count)', t.order))
    BY DEF IsRegisters, Actual, Coil, ModbusArea
  <1>3. IsBlock(t) => Actual(t)' = S7Value(t, Bytes(t.area, t.addr, t.size)')
    BY DEF IsBlock, Actual, Coil, ModbusArea, S7Value, Truth, Zero
  <1> QED BY <1>1, <1>2, <1>3

\* What a tag reads are its own bits.
LEMMA ReadsFootprint ==
    ASSUME NEW t, Symmetric(t), Bits \in Nat,
           \A a, p, b : <<a, p, b>> \in Footprint(t) => Bit(a, p, b)' = Bit(a, p, b)
    PROVE  Actual(t)' = Actual(t)
  <1>1. CASE IsCoil(t)
    <2>1. Bit(t.area, t.addr, 0)' = Bit(t.area, t.addr, 0)
      BY <1>1 DEF IsCoil, Footprint, Coil
    <2> QED BY <1>1, <2>1, Reads, ReadsNext
  <1>2. CASE IsRegisters(t)
    <2>1. PICK old : old = Bytes(t.area, 2 * t.addr, 2 * t.count)
      OBVIOUS
    <2>2. PICK new : new = Bytes(t.area, 2 * t.addr, 2 * t.count)'
      OBVIOUS
    <2>3. 2 * t.count \in Nat /\ t.size \in 2..(2 * t.count) /\ t.addr \in Nat
      BY <1>2 DEF IsRegisters
    <2>4. ASSUME NEW i \in 1..t.size PROVE new[i] = old[i]
      <3>1. ASSUME NEW b \in 1..Bits
            PROVE  Bit(t.area, 2 * t.addr + i - 1, b - 1)'
                      = Bit(t.area, 2 * t.addr + i - 1, b - 1)
        <4>1. <<t.area, 2 * t.addr + i - 1, b - 1>> \in Footprint(t)
          BY <1>2, <2>3 DEF IsRegisters, Footprint, Coil, ModbusArea
        <4> QED BY <4>1
      <3>2. i \in 1..(2 * t.count)
        BY <2>3
      <3>3. old[i] = [b \in 1..Bits |-> Bit(t.area, 2 * t.addr + i - 1, b - 1)]
        BY <2>1, <3>2 DEF Bytes
      <3>4. new[i] = [b \in 1..Bits |-> Bit(t.area, 2 * t.addr + i - 1, b - 1)']
        BY <2>2, <3>2 DEF Bytes
      <3> QED BY <3>1, <3>3, <3>4
    <2>5. Cells(t, new) = Cells(t, old)
      <3>1. \A i \in 1..t.size : Source(t.order, t.size, i) \in 1..t.size
        BY <1>2, SourceTwice DEF IsRegisters
      <3> QED BY <2>4, <3>1 DEF Cells
    <2>6. Len(old) = 2 * t.count /\ Len(new) = 2 * t.count
      BY <2>1, <2>2, <2>3 DEF Bytes
    <2>7. Actual(t) = ModbusValue(t, reorderBytes(old, t.order))
      BY <1>2, <2>1, Reads
    <2>8. Actual(t)' = ModbusValue(t, reorderBytes(new, t.order))
      BY <1>2, <2>2, ReadsNext
    <2>9. ModbusValue(t, reorderBytes(old, t.order))
             = ModbusValue(t, reorderBytes(new, t.order))
      BY <1>2, <2>5, <2>6, ParseRegisters
    <2> QED BY <2>7, <2>8, <2>9
  <1>3. CASE IsBlock(t)
    <2>1. PICK old : old = Bytes(t.area, t.addr, t.size)
      OBVIOUS
    <2>2. PICK new : new = Bytes(t.area, t.addr, t.size)'
      OBVIOUS
    <2>3. t.size \in Nat /\ t.addr \in Nat
      BY <1>3 DEF IsBlock
    <2>4. CASE t.bool
      <3>0. Bits \in Nat \ {0} /\ t.size = 1
        BY <1>3, <2>4, BatchAssumption DEF IsBlock
      <3>1. PICK bit \in 0..(Bits - 1) : bit = t.bit
        BY <1>3, <2>4 DEF IsBlock
      <3>2. Bit(t.area, t.addr, bit)' = Bit(t.area, t.addr, bit)
        BY <1>3, <2>4, <3>1 DEF IsBlock, Footprint, Coil, ModbusArea
      <3>3. bit + 1 \in 1..Bits /\ t.addr + 1 - 1 = t.addr /\ bit + 1 - 1 = bit
        BY <2>3, <3>0, <3>1
      <3>4. old[1][bit + 1] = Bit(t.area, t.addr + 1 - 1, bit + 1 - 1)
        BY <2>1, <3>0, <3>3 DEF Bytes
      <3>5. new[1] = [b \in 1..Bits |-> Bit(t.area, t.addr + 1 - 1, b - 1)']
        BY <2>2, <3>0 DEF Bytes
      <3>6. new[1][bit + 1] = Bit(t.area, t.addr + 1 - 1, bit + 1 - 1)'
        BY <3>3, <3>5 DEF Bit
      <3>7. Bit(t.area, t.addr + 1 - 1, bit + 1 - 1)' = Bit(t.area, t.addr, bit)'
        BY <2>3, <3>1 DEF Bit
      <3>8. Bit(t.area, t.addr + 1 - 1, bit + 1 - 1) = Bit(t.area, t.addr, bit)
        BY <3>3
      <3>9. new[1][bit + 1] = old[1][bit + 1]
        BY <3>2, <3>4, <3>6, <3>7, <3>8
      <3> QED BY <1>3, <2>1, <2>2, <2>4, <3>1, <3>9, Reads, ReadsNext DEF S7Value
    <2>5. CASE ~t.bool
      <3>1. ASSUME NEW i \in 1..t.size, NEW b \in 1..Bits
            PROVE  Bit(t.area, t.addr + i - 1, b - 1)' = Bit(t.area, t.addr + i - 1, b - 1)
        <4>1. <<t.area, t.addr + i - 1, b - 1>> \in Footprint(t)
          BY <1>3, <2>5 DEF IsBlock, Footprint, Coil, ModbusArea
        <4> QED BY <4>1
      <3>2. Bytes(t.area, t.addr, t.size)' = Bytes(t.area, t.addr, t.size)
        BY <3>1 DEF Bytes
      <3> QED BY <1>3, <3>2, Reads, ReadsNext
    <2> QED BY <2>4, <2>5
  <1> QED BY <1>1, <1>2, <1>3 DEF Symmetric

-----------------------------------------------------------------------------
(* What is written                                                         *)

\* The bits of n bytes from byte p of area a on.
Region(a, p, n) == {a} \X (p..(p + n - 1)) \X (0..(Bits - 1))

\* Bit b of byte i is one of them.
LEMMA InRegion ==
    ASSUME NEW a, NEW p \in Nat, NEW n \in Nat, NEW i \in 1..n, NEW b \in 1..Bits
    PROVE  <<a, p + i - 1, b - 1>> \in Region(a, p, n)
  BY BatchAssumption DEF Region

\* Data is put at byte p of area a; what memory holds after n bytes were put there.
Puts(a, p, data) == memory' = Put(a, p, data)
HoldsAt(a, p, n, data) ==
    /\ DOMAIN memory' = Region(a, p, n) \cup DOMAIN memory
    /\ \A i \in 1..n, b \in 1..Bits : memory'[<<a, p + i - 1, b - 1>>] = data[i][b]
    /\ \A c \in DOMAIN memory \ Region(a, p, n) : memory'[c] = memory[c]

\* Put does what it says.
LEMMA PutBits ==
    ASSUME NEW a, NEW p \in Nat, NEW data, NEW n \in Nat, Len(data) = n, Puts(a, p, data)
    PROVE  HoldsAt(a, p, n, data)
  <1> DEFINE new == [c \in Region(a, p, n) |-> data[c[2] - p + 1][c[3] + 1]]
  <1>1. memory' = With(new)
    BY DEF Puts, Put, Region
  <1>2. DOMAIN new = Region(a, p, n)
    OBVIOUS
  <1>3. /\ DOMAIN memory' = DOMAIN new \cup DOMAIN memory
        /\ \A c \in DOMAIN new : memory'[c] = new[c]
        /\ \A c \in DOMAIN memory \ DOMAIN new : memory'[c] = memory[c]
    BY <1>1, ZenonT(30) DEF With
  <1>4. ASSUME NEW i \in 1..n, NEW b \in 1..Bits
        PROVE  memory'[<<a, p + i - 1, b - 1>>] = data[i][b]
    <2>1. <<a, p + i - 1, b - 1>> \in DOMAIN new
      BY <1>2, InRegion
    <2>2. new[<<a, p + i - 1, b - 1>>] = data[(p + i - 1) - p + 1][(b - 1) + 1]
      BY <1>2, <2>1
    <2>3. (p + i - 1) - p + 1 = i /\ (b - 1) + 1 = b
      BY BatchAssumption
    <2> QED BY <1>3, <2>1, <2>2, <2>3
  <1> QED BY <1>2, <1>3, <1>4 DEF HoldsAt

\* A write that changes only the bits F, whatever else it writes again.
Changes(F) ==
    /\ \A x, q, b : <<x, q, b>> \notin F => Bit(x, q, b)' = Bit(x, q, b)
    /\ \A c \in DOMAIN memory' :
          c \in F \/ memory'[c] = c \/ (c \in DOMAIN memory /\ memory'[c] = memory[c])

\* New values of the bits F, and of no other, are such a write.
LEMMA PutChanges ==
    ASSUME NEW F, DOMAIN memory' = F \cup DOMAIN memory,
           \A c \in DOMAIN memory \ F : memory'[c] = memory[c]
    PROVE  Changes(F)
  BY DEF Changes, Bit

\* A boolean that was written is never 0.
LEMMA WrittenTrue ==
    ASSUME NEW n
    PROVE  Written(n) # Zero /\ Truth({Written(n)}) = {Written(n)}
  <1>1. Written(n) # Zero
    BY DEF Written, Zero
  <1> QED BY <1>1 DEF Truth

\* A coil.
LEMMA WritesCoil ==
    ASSUME NEW t, IsCoil(t), NEW n,
           memory' = With([c \in {<<t.area, t.addr, 0>>} |-> Written(n)])
    PROVE  /\ Actual(t)' = {Written(n)}
           /\ Changes(Footprint(t))
  <1>1. Footprint(t) = {<<t.area, t.addr, 0>>}
    BY DEF IsCoil, Footprint, Coil
  <1>2. /\ DOMAIN memory' = Footprint(t) \cup DOMAIN memory
        /\ \A c \in Footprint(t) : memory'[c] = Written(n)
        /\ \A c \in DOMAIN memory : c \notin Footprint(t) => memory'[c] = memory[c]
    <2>1. PICK new : new = [c \in Footprint(t) |-> Written(n)]
      OBVIOUS
    <2>2. memory' = With(new)
      BY <1>1, <2>1
    <2>3. DOMAIN new = Footprint(t) /\ \A c \in Footprint(t) : new[c] = Written(n)
      BY <2>1
    <2> QED BY <2>2, <2>3 DEF With
  <1>3. Bit(t.area, t.addr, 0)' = Written(n)
    <2>1. PICK place : place = <<t.area, t.addr, 0>>
      OBVIOUS
    <2>2. place \in DOMAIN memory' /\ memory'[place] = Written(n)
      BY <1>1, <1>2, <2>1
    <2> QED BY <2>1, <2>2 DEF Bit
  <1>4. Actual(t)' = {Written(n)}
    BY <1>3, WrittenTrue, ReadsNext
  <1> QED BY <1>2, <1>4, PutChanges

\* Registers: the order of the bytes is undone when they are read.
LEMMA WritesRegisters ==
    ASSUME NEW t, IsRegisters(t), NEW n, memory' = Put(t.area, 2 * t.addr, Encoded(t, n))
    PROVE  /\ Actual(t)' = IF t.bool THEN {Written(n)} ELSE Number(n, t.size)
           /\ Changes(Footprint(t))
  <1>0. /\ 2 * t.addr \in Nat /\ 2 * t.count \in Nat /\ t.size \in 2..(2 * t.count)
        /\ t.size \in {2, 4, 8} /\ t.order \in {"BE", "LE", "MB", "ML"} /\ Bits \in Nat \ {0}
    BY BatchAssumption DEF IsRegisters
  <1>1. PICK plain : plain = ModbusBytes(t, n)
    OBVIOUS
  <1>2. PICK data : data = Encoded(t, n)
    OBVIOUS
  <1>3. Len(plain) = t.size /\ plain = [i \in 1..t.size |-> plain[i]]
        /\ \A i \in 1..t.size : plain[i] = [b \in 1..Bits |-> plain[i][b]]
    <2>1. CASE t.bool
      <3>1. t.size = 2 /\ plain = <<False, [False EXCEPT ![1] = Written(n)]>>
        BY <1>1, <2>1 DEF ModbusBytes, IsRegisters
      <3>2. /\ plain[1] = [b \in 1..Bits |-> plain[1][b]]
            /\ plain[2] = [b \in 1..Bits |-> plain[2][b]]
        BY <3>1 DEF False
      <3> QED BY <3>1, <3>2
    <2>2. CASE ~t.bool
      <3>1. plain = [i \in 1..t.size |-> [b \in 1..Bits |-> <<n, "number", i, b>>]]
        BY <1>1, <2>2 DEF ModbusBytes, Number
      <3>2. t.size \in Nat
        BY <1>0
      <3>3. Len(plain) = t.size
        BY <3>1, <3>2
      <3> QED BY <3>1, <3>3
    <2> QED BY <2>1, <2>2
  <1>4. Len(data) = t.size /\ data = [i \in 1..t.size |-> plain[Source(t.order, t.size, i)]]
    BY <1>0, <1>1, <1>2, <1>3 DEF Encoded, reorderBytes
  <1>5. Footprint(t) = Region(t.area, 2 * t.addr, Len(data))
    BY <1>4 DEF Region, IsRegisters, Footprint, Coil, ModbusArea
  <1>6. memory' = Put(t.area, 2 * t.addr, data)
    BY <1>2
  <1>13. /\ DOMAIN memory' = Region(t.area, 2 * t.addr, Len(data)) \cup DOMAIN memory
         /\ \A i \in 1..Len(data), b \in 1..Bits :
               memory'[<<t.area, 2 * t.addr + i - 1, b - 1>>] = data[i][b]
         /\ \A c \in DOMAIN memory \ Region(t.area, 2 * t.addr, Len(data)) :
               memory'[c] = memory[c]
    <2>1. Len(data) \in Nat
      BY <1>0, <1>4
    <2>2. PICK p \in Nat : p = 2 * t.addr
      BY <1>0
    <2>3. Puts(t.area, p, data)
      BY <1>6, <2>2 DEF Puts
    <2>4. HoldsAt(t.area, p, Len(data), data)
      BY <2>1, <2>3, PutBits
    <2> QED BY <2>2, <2>4 DEF HoldsAt
  <1>7. PICK wire : wire = Bytes(t.area, 2 * t.addr, 2 * t.count)'
    OBVIOUS
  <1>8. ASSUME NEW i \in 1..t.size PROVE wire[i] = data[i]
    <2>1. wire[i] = [b \in 1..Bits |-> Bit(t.area, 2 * t.addr + i - 1, b - 1)']
      BY <1>0, <1>7 DEF Bytes
    <2>2. ASSUME NEW b \in 1..Bits
          PROVE  Bit(t.area, 2 * t.addr + i - 1, b - 1)' = data[i][b]
      <3>1. <<t.area, 2 * t.addr + i - 1, b - 1>> \in DOMAIN memory'
        BY <1>0, <1>4, <1>13, InRegion
      <3>2. memory'[<<t.area, 2 * t.addr + i - 1, b - 1>>] = data[i][b]
        BY <1>0, <1>4, <1>13
      <3> QED BY <3>1, <3>2 DEF Bit
    <2>3. data[i] = [b \in 1..Bits |-> data[i][b]]
      <3>1. Source(t.order, t.size, i) \in 1..t.size
        BY <1>0, SourceTwice
      <3> QED BY <1>3, <1>4, <3>1
    <2> QED BY <2>1, <2>2, <2>3
  <1>9. Cells(t, wire) = plain
    <2>1. ASSUME NEW i \in 1..t.size PROVE wire[Source(t.order, t.size, i)] = plain[i]
      <3>1. /\ Source(t.order, t.size, i) \in 1..t.size
            /\ Source(t.order, t.size, Source(t.order, t.size, i)) = i
        BY <1>0, SourceTwice
      <3> QED BY <1>4, <1>8, <3>1
    <2> QED BY <1>3, <2>1 DEF Cells
  <1>10. Len(wire) = 2 * t.count
    BY <1>0, <1>7 DEF Bytes
  <1>11. Actual(t)' = IF t.bool THEN Truth(ToSet(plain[1]) \cup ToSet(plain[2])) ELSE plain
    <2>1. Actual(t)' = ModbusValue(t, reorderBytes(wire, t.order))
      BY <1>7, ReadsNext
    <2> QED BY <1>9, <1>10, <2>1, ParseRegisters
  <1>12. Actual(t)' = IF t.bool THEN {Written(n)} ELSE Number(n, t.size)
    <2>1. CASE t.bool
      <3>1. plain = <<False, [False EXCEPT ![1] = Written(n)]>>
        BY <1>1, <2>1 DEF ModbusBytes
      <3>2. ToSet(plain[1]) = {Zero}
        BY <1>0, <3>1 DEF False, ToSet
      <3>3. ToSet(plain[2]) \subseteq {Zero, Written(n)} /\ Written(n) \in ToSet(plain[2])
        BY <1>0, <3>1 DEF False, ToSet
      <3> QED BY <1>11, <2>1, <3>2, <3>3, WrittenTrue DEF Truth
    <2>2. CASE ~t.bool
      BY <1>1, <1>11, <2>2 DEF ModbusBytes
    <2> QED BY <2>1, <2>2
  <1> QED BY <1>5, <1>12, <1>13, PutChanges

\* A data block: the other bits of the byte are written as they were read.
LEMMA WritesBlock ==
    ASSUME NEW t, IsBlock(t), NEW n,
           memory' = Put(t.area, t.addr,
                         IF t.bool
                         THEN <<[Bytes(t.area, t.addr, 1)[1] EXCEPT ![t.bit + 1] = Written(n)]>>
                         ELSE Number(n, t.size))
    PROVE  /\ Actual(t)' = IF t.bool THEN {Written(n)} ELSE Number(n, t.size)
           /\ Changes(Footprint(t))
  <1>0. t.addr \in Nat /\ t.size \in Nat \ {0} /\ Bits \in Nat \ {0}
    BY BatchAssumption DEF IsBlock
  <1>1. CASE t.bool
    <2>1. PICK bit \in 0..(Bits - 1) : bit = t.bit
      BY <1>1 DEF IsBlock
    <2>2. PICK data : data = <<[Bytes(t.area, t.addr, 1)[1] EXCEPT ![bit + 1] = Written(n)]>>
      OBVIOUS
    <2>3. Puts(t.area, t.addr, data)
      BY <1>1, <2>1, <2>2 DEF Puts
    <2>4. Len(data) = 1 /\ \A b \in 1..Bits :
              data[1][b] = IF b = bit + 1 THEN Written(n)
                                          ELSE Bit(t.area, t.addr + 1 - 1, b - 1)
      BY <1>0, <2>1, <2>2 DEF Bytes
    <2>5. /\ DOMAIN memory' = Region(t.area, t.addr, 1) \cup DOMAIN memory
          /\ \A i \in 1..1, b \in 1..Bits :
                memory'[<<t.area, t.addr + i - 1, b - 1>>] = data[i][b]
          /\ \A c \in DOMAIN memory \ Region(t.area, t.addr, 1) : memory'[c] = memory[c]
      <3>1. Len(data) \in Nat
        BY <1>0, <2>4
      <3>2. HoldsAt(t.area, t.addr, Len(data), data)
        BY <1>0, <2>3, <3>1, PutBits
      <3> QED BY <2>4, <3>2 DEF HoldsAt
    <2>6. Region(t.area, t.addr, 1) = {t.area} \X {t.addr} \X (0..(Bits - 1))
      <3>1. t.addr..(t.addr + 1 - 1) = {t.addr}
        BY <1>0
      <3> QED BY <3>1 DEF Region
    <2>7. ASSUME NEW b \in 0..(Bits - 1)
          PROVE  memory'[<<t.area, t.addr, b>>] =
                    IF b = bit THEN Written(n) ELSE Bit(t.area, t.addr, b)
      <3>1. PICK k \in 1..Bits : k = b + 1
        BY <1>0
      <3>2. t.addr + 1 - 1 = t.addr /\ k - 1 = b /\ (k = bit + 1 <=> b = bit)
        BY <1>0, <2>1, <3>1
      <3>3. memory'[<<t.area, t.addr + 1 - 1, k - 1>>] = data[1][k]
        BY <2>5
      <3>4. data[1][k] = IF k = bit + 1 THEN Written(n)
                                        ELSE Bit(t.area, t.addr + 1 - 1, k - 1)
        BY <2>4
      <3> QED BY <3>2, <3>3, <3>4
    <2>8. Footprint(t) = {<<t.area, t.addr, bit>>}
      BY <1>1, <2>1 DEF IsBlock, Footprint, Coil, ModbusArea
    <2>9. <<t.area, t.addr, bit>> \in DOMAIN memory'
      BY <2>1, <2>5, <2>6
    <2>10. Bit(t.area, t.addr, bit)' = Written(n)
      BY <2>1, <2>7, <2>9 DEF Bit
    <2>11. Actual(t)' = {Written(n)}
      <3>1. PICK new : new = Bytes(t.area, t.addr, t.size)'
        OBVIOUS
      <3>2. t.size = 1
        BY <1>1 DEF IsBlock
      <3>3. new[1] = [b \in 1..Bits |-> Bit(t.area, t.addr + 1 - 1, b - 1)']
        BY <3>1, <3>2 DEF Bytes
      <3>4. bit + 1 \in 1..Bits /\ t.addr + 1 - 1 = t.addr /\ bit + 1 - 1 = bit
        BY <1>0, <2>1
      <3>5. new[1][bit + 1] = Bit(t.area, t.addr + 1 - 1, bit + 1 - 1)'
        BY <3>3, <3>4 DEF Bit
      <3>6. Bit(t.area, t.addr + 1 - 1, bit + 1 - 1)' = Bit(t.area, t.addr, bit)'
        BY <1>0, <2>1 DEF Bit
      <3>7. Actual(t)' = S7Value(t, new)
        BY <3>1, ReadsNext
      <3> QED BY <1>1, <2>1, <2>10, <3>5, <3>6, <3>7, WrittenTrue DEF S7Value
    <2>12. Changes(Footprint(t))
      <3>1. ASSUME NEW c \in DOMAIN memory', c \notin Footprint(t)
            PROVE  memory'[c] = c \/ (c \in DOMAIN memory /\ memory'[c] = memory[c])
        <4>1. CASE c \in Region(t.area, t.addr, 1)
          <5>1. PICK b \in 0..(Bits - 1) : c = <<t.area, t.addr, b>>
            BY <2>6, <4>1
          <5> QED BY <2>7, <2>8, <3>1, <5>1 DEF Bit
        <4>2. CASE c \notin Region(t.area, t.addr, 1)
          BY <2>5, <4>2
        <4> QED BY <4>1, <4>2
      <3>2. ASSUME NEW x, NEW q, NEW b, <<x, q, b>> \notin Footprint(t)
            PROVE  Bit(x, q, b)' = Bit(x, q, b)
        <4>1. CASE <<x, q, b>> \in Region(t.area, t.addr, 1)
          <5>1. x = t.area /\ q = t.addr /\ b \in 0..(Bits - 1) /\ b # bit
            BY <2>6, <2>8, <3>2, <4>1
          <5>2. <<x, q, b>> \in DOMAIN memory'
            BY <2>5, <4>1
          <5> QED BY <2>7, <5>1, <5>2 DEF Bit
        <4>2. CASE <<x, q, b>> \notin Region(t.area, t.addr, 1)
          BY <2>5, <4>2 DEF Bit
        <4> QED BY <4>1, <4>2
      <3> QED BY <3>1, <3>2 DEF Changes
    <2> QED BY <1>1, <2>11, <2>12
  <1>2. CASE ~t.bool
    <2>1. PICK data : data = Number(n, t.size)
      OBVIOUS
    <2>2. Puts(t.area, t.addr, data)
      BY <1>2, <2>1 DEF Puts
    <2>3. data = [i \in 1..t.size |-> [b \in 1..Bits |-> <<n, "number", i, b>>]]
      BY <2>1 DEF Number
    <2>4. Len(data) = t.size
      BY <1>0, <2>3
    <2>5. /\ DOMAIN memory' = Region(t.area, t.addr, t.size) \cup DOMAIN memory
          /\ \A i \in 1..t.size, b \in 1..Bits :
                memory'[<<t.area, t.addr + i - 1, b - 1>>] = data[i][b]
          /\ \A c \in DOMAIN memory \ Region(t.area, t.addr, t.size) : memory'[c] = memory[c]
      <3>1. Len(data) \in Nat
        BY <1>0, <2>4
      <3>2. HoldsAt(t.area, t.addr, Len(data), data)
        BY <1>0, <2>2, <3>1, PutBits
      <3> QED BY <2>4, <3>2 DEF HoldsAt
    <2>6. Footprint(t) = Region(t.area, t.addr, t.size)
      BY <1>2 DEF IsBlock, Footprint, Coil, ModbusArea, Region
    <2>7. Bytes(t.area, t.addr, t.size)' = data
      <3>1. ASSUME NEW i \in 1..t.size, NEW b \in 1..Bits
            PROVE  Bit(t.area, t.addr + i - 1, b - 1)' = data[i][b]
        <4>1. <<t.area, t.addr + i - 1, b - 1>> \in DOMAIN memory'
          BY <1>0, <2>5, InRegion
        <4> QED BY <2>5, <4>1 DEF Bit
      <3> QED BY <2>3, <3>1 DEF Bytes
    <2>8. Actual(t)' = data
      <3>1. Actual(t)' = SubSeq(data, 1, t.size)
        BY <1>2, <2>7, ReadsNext DEF S7Value
      <3>2. SubSeq(data, 1, t.size) = [i \in 1..t.size |-> data[i]]
        BY <1>0, <2>3
      <3> QED BY <2>3, <3>1, <3>2
    <2> QED BY <1>2, <2>1, <2>5, <2>6, <2>8, PutChanges
  <1> QED BY <1>1, <1>2

-----------------------------------------------------------------------------
(* The invariant                                                           *)

\* Only tags of the device are written, and coils and holding registers of Modbus only.
WriteInv ==
    /\ device \in ModbusDevices \cup S7Devices
    /\ writes \in Seq(device)
    /\ \A n \in 1..Len(writes) :
          writes[n] \in UNION ModbusDevices => writes[n].area \in {"coil", "holding"}

TagInv == WriteInv /\ WriteReadsBack

\* The value of write n of tag t.
Value(t, n) == IF t.bool \/ Coil(t) THEN {Written(n)} ELSE Number(n, t.size)

\* What a write does to the tag and to the others.
LEMMA WriteFacts ==
    ASSUME WriteInv, NEW t \in device, ModbusWriteTag(t) \/ S7WriteTag(t)
    PROVE  /\ writes' = Append(writes, t) /\ device' = device
           /\ t \in UNION ModbusDevices => t.area \in {"coil", "holding"}
           /\ ~Asymmetric(t) =>
                 /\ Symmetric(t)
                 /\ Actual(t)' = Value(t, Len(writes) + 1)
                 /\ Changes(Footprint(t))
  <1>1. PICK n : n = Len(writes) + 1
    OBVIOUS
  <1>2. writes' = Append(writes, t) /\ device' = device
    BY DEF ModbusWriteTag, S7WriteTag, Wrote
  <1>3. t \in UNION (ModbusDevices \cup S7Devices)
    BY DEF WriteInv
  <1>4. CASE ModbusWriteTag(t)
    <2>1. t \in UNION ModbusDevices /\ t.area \in {"coil", "holding"}
      BY <1>4 DEF ModbusWriteTag
    <2>2. ASSUME ~Asymmetric(t)
          PROVE  /\ Symmetric(t) /\ Actual(t)' = Value(t, n) /\ Changes(Footprint(t))
      <3>1. Symmetric(t)
        BY <1>3, <2>1, <2>2, SymmetricTags
      <3>2. CASE t.area = "coil"
        <4>1. IsCoil(t)
          BY <3>1, <3>2 DEF Symmetric, IsCoil, IsRegisters, IsBlock, ModbusArea
        <4>2. memory' = With([c \in {<<t.area, t.addr, 0>>} |-> Written(n)])
          BY <1>1, <1>4, <3>2 DEF ModbusWriteTag
        <4>3. Actual(t)' = {Written(n)} /\ Changes(Footprint(t))
          BY <4>1, <4>2, WritesCoil
        <4> QED BY <3>1, <3>2, <4>3 DEF Value, Coil
      <3>3. CASE t.area = "holding"
        <4>1. IsRegisters(t)
          BY <3>1, <3>3 DEF Symmetric, IsCoil, IsRegisters, IsBlock, ModbusArea
        <4>2. memory' = Put(t.area, 2 * t.addr, Encoded(t, n))
          BY <1>1, <1>4, <3>3 DEF ModbusWriteTag
        <4>3. /\ Actual(t)' = IF t.bool THEN {Written(n)} ELSE Number(n, t.size)
              /\ Changes(Footprint(t))
          BY <4>1, <4>2, WritesRegisters
        <4> QED BY <3>1, <3>3, <4>3 DEF Value, Coil
      <3> QED BY <2>1, <3>2, <3>3
    <2> QED BY <1>1, <1>2, <2>1, <2>2
  <1>5. CASE S7WriteTag(t)
    <2>1. t \in UNION S7Devices
      BY <1>5 DEF S7WriteTag
    <2>2. t.area \notin ModbusArea
      BY <2>1, TagAssumption
    <2>3. t \notin UNION ModbusDevices
      BY <2>2, TagAssumption
    <2>4. ASSUME ~Asymmetric(t)
          PROVE  /\ Symmetric(t) /\ Actual(t)' = Value(t, n) /\ Changes(Footprint(t))
      <3>1. Symmetric(t) /\ IsBlock(t)
        BY <1>3, <2>2, <2>3, <2>4, SymmetricTags
           DEF Symmetric, IsCoil, IsRegisters, ModbusArea
      <3>2. Single(t.area) = t.area
        BY <3>1 DEF IsBlock
      <3>3. memory' = Put(t.area, t.addr,
                          IF t.bool
                          THEN <<[Bytes(t.area, t.addr, 1)[1] EXCEPT ![t.bit + 1] = Written(n)]>>
                          ELSE Number(n, t.size))
        BY <1>1, <1>5, <3>2 DEF S7WriteTag
      <3>4. /\ Actual(t)' = IF t.bool THEN {Written(n)} ELSE Number(n, t.size)
            /\ Changes(Footprint(t))
        BY <3>1, <3>3, WritesBlock
      <3> QED BY <2>2, <3>1, <3>4 DEF Value, Coil, ModbusArea
    <2> QED BY <1>1, <1>2, <2>3, <2>4
  <1> QED BY <1>4, <1>5

\* A write keeps the invariant.
LEMMA WriteStep ==
    ASSUME TagInv, NEW t \in device, ModbusWriteTag(t) \/ S7WriteTag(t)
    PROVE  TagInv'
  <1>0. WriteInv /\ WriteReadsBack
    BY DEF TagInv
  <1>1. /\ writes' = Append(writes, t) /\ device' = device
        /\ t \in UNION ModbusDevices => t.area \in {"coil", "holding"}
        /\ ~Asymmetric(t) =>
              Symmetric(t) /\ Actual(t)' = Value(t, Len(writes) + 1) /\ Changes(Footprint(t))
    BY <1>0, WriteFacts
  <1>2. PICK last \in Nat \ {0} : last = Len(writes) + 1
    BY <1>0 DEF WriteInv
  <1>3. /\ Len(writes') = last /\ Len(writes) = last - 1 /\ writes'[last] = t
        /\ \A n \in 1..(last - 1) : writes'[n] = writes[n]
        /\ writes' \in Seq(device)
    BY <1>0, <1>1, <1>2 DEF WriteInv
  <1>4. WriteInv'
    BY <1>0, <1>1, <1>2, <1>3 DEF WriteInv
  <1>5. ASSUME \A n \in 1..last : ~Asymmetric(writes'[n])
        PROVE  /\ \A u \in device, n \in 1..last :
                     writes'[n] = u =>
                        \/ \E m \in (n + 1)..last :
                              Footprint(writes'[m]) \cap Footprint(u) # {}
                        \/ Actual(u)' = Value(u, n)
               /\ \A place \in DOMAIN memory' :
                     \/ memory'[place] = place
                     \/ \E n \in 1..last : place \in Footprint(writes'[n])
    <2>1. ~Asymmetric(t) /\ \A n \in 1..Len(writes) : ~Asymmetric(writes[n])
      BY <1>2, <1>3, <1>5
    <2>2. Actual(t)' = Value(t, last) /\ Changes(Footprint(t))
      BY <1>1, <1>2, <2>1
    <2>3. /\ \A u \in device, n \in 1..Len(writes) :
                writes[n] = u =>
                   \/ \E m \in (n + 1)..Len(writes) :
                         Footprint(writes[m]) \cap Footprint(u) # {}
                   \/ Actual(u) = Value(u, n)
          /\ \A place \in DOMAIN memory :
                \/ memory[place] = place
                \/ \E n \in 1..Len(writes) : place \in Footprint(writes[n])
      BY <1>0, <2>1 DEF WriteReadsBack, Value
    <2>4. ASSUME NEW u \in device, NEW n \in 1..(last - 1), writes[n] = u
          PROVE  \/ \E m \in (n + 1)..last : Footprint(writes'[m]) \cap Footprint(u) # {}
                 \/ Actual(u)' = Value(u, n)
      <3>1. CASE \E m \in (n + 1)..(last - 1) : Footprint(writes[m]) \cap Footprint(u) # {}
        <4>1. PICK m \in (n + 1)..(last - 1) : Footprint(writes[m]) \cap Footprint(u) # {}
          BY <3>1
        <4>2. m \in (n + 1)..last /\ m \in 1..(last - 1) /\ writes'[m] = writes[m]
          BY <1>2, <1>3, <4>1
        <4> QED BY <4>1, <4>2
      <3>2. CASE Footprint(t) \cap Footprint(u) # {}
        <4>1. last \in (n + 1)..last
          BY <1>2
        <4> QED BY <1>3, <3>2, <4>1
      <3>3. CASE Footprint(t) \cap Footprint(u) = {} /\ Actual(u) = Value(u, n)
        <4>1. Symmetric(u)
          <5>1. u \in UNION ModbusDevices => u.area \in {"coil", "holding"}
            BY <1>0, <1>3, <2>4 DEF WriteInv
          <5>2. ~Asymmetric(u) /\ u \in UNION (ModbusDevices \cup S7Devices)
            BY <1>0, <1>3, <2>1, <2>4 DEF WriteInv
          <5> QED BY <5>1, <5>2, SymmetricTags
        <4>2. \A a, p, b : <<a, p, b>> \in Footprint(u) => Bit(a, p, b)' = Bit(a, p, b)
          BY <2>2, <3>3 DEF Changes
        <4>3. Actual(u)' = Actual(u)
          BY <4>1, <4>2, BatchAssumption, ReadsFootprint
        <4> QED BY <3>3, <4>3
      <3>4. \/ \E m \in (n + 1)..(last - 1) : Footprint(writes[m]) \cap Footprint(u) # {}
            \/ Actual(u) = Value(u, n)
        BY <1>3, <2>3, <2>4
      <3> QED BY <3>1, <3>2, <3>3, <3>4
    <2>5. ASSUME NEW place \in DOMAIN memory'
          PROVE  memory'[place] = place \/ \E n \in 1..last : place \in Footprint(writes'[n])
      <3>1. CASE place \in Footprint(t)
        BY <1>2, <1>3, <3>1
      <3>2. CASE memory'[place] = place
        BY <3>2
      <3>3. CASE place \in DOMAIN memory /\ memory'[place] = memory[place]
        BY <1>2, <1>3, <2>3, <3>3
      <3> QED BY <2>2, <3>1, <3>2, <3>3 DEF Changes
    <2>6. ASSUME NEW u \in device, NEW n \in 1..last, writes'[n] = u
          PROVE  \/ \E m \in (n + 1)..last : Footprint(writes'[m]) \cap Footprint(u) # {}
                 \/ Actual(u)' = Value(u, n)
      <3>1. CASE n = last
        <4>1. u = t
          BY <1>3, <2>6, <3>1
        <4> QED BY <2>2, <3>1, <4>1
      <3>2. CASE n # last
        <4>1. n \in 1..(last - 1) /\ writes[n] = u
          BY <1>2, <1>3, <2>6, <3>2
        <4> QED BY <2>4, <4>1
      <3> QED BY <3>1, <3>2
    <2> QED BY <2>5, <2>6
  <1>6. WriteReadsBack'
    BY <1>1, <1>3, <1>5 DEF WriteReadsBack, Value
  <1> QED BY <1>4, <1>6 DEF TagInv

\* A step that writes nothing keeps it.
LEMMA ReadStep ==
    ASSUME TagInv, UNCHANGED <<device, memory, writes>>
    PROVE  TagInv'
  <1>1. WriteInv'
    BY DEF TagInv, WriteInv
  <1>2. ASSUME NEW t PROVE Actual(t)' = Actual(t)
    BY DEF Actual, Bytes, Bit, ModbusValue, S7Value, reorderBytes
  <1>3. WriteReadsBack'
    BY <1>2 DEF TagInv, WriteReadsBack
  <1> QED BY <1>1, <1>3 DEF TagInv

\* The inductive invariant.
THEOREM TagInvariant == TagSpec => []TagInv
  <1>1. TagInit => TagInv
    BY DEF TagInit, TagInv, WriteInv, WriteReadsBack
  <1>2. TagInv /\ [TagNext]_tagVars => TagInv'
    <2> SUFFICES ASSUME TagInv, [TagNext]_tagVars PROVE TagInv'
      OBVIOUS
    <2>1. ASSUME NEW t \in device, ModbusWriteTag(t) \/ S7WriteTag(t) PROVE TagInv'
      BY <2>1, WriteStep
    <2>2. CASE UNCHANGED tagVars
      BY <2>2, ReadStep DEF tagVars
    <2>3. ASSUME NEW tags \in Lists, ReadTags(tags) PROVE TagInv'
      BY <2>3, ReadStep DEF ReadTags, Begin
    <2>4. CASE Cancel \/ ReadRange \/ ReadRangeFails \/ GroupCancelled
      BY <2>4, ReadStep DEF Cancel, ReadRange, ReadRangeFails, GroupCancelled, Collect
    <2>5. ASSUME NEW bad \in SUBSET (1..MaxItems), ReadChunk(bad) \/ ReadBatch(bad)
          PROVE  TagInv'
      BY <2>5, ReadStep DEF ReadChunk, ReadBatch, Answered
    <2>6. CASE Fallback \/ FallbackCancelled \/ BatchFails \/ Return
      BY <2>6, ReadStep DEF Fallback, FallbackCancelled, BatchFails, Return
    <2>7. ASSUME NEW q, ReadSingle(q) PROVE TagInv'
      BY <2>7, ReadStep DEF ReadSingle, Answered
    <2> QED BY <2>1, <2>2, <2>3, <2>4, <2>5, <2>6, <2>7 DEF TagNext
  <1> QED BY <1>1, <1>2, PTL DEF TagSpec

\* A value that was written is read back, and no write changes a bit that is not the
\* tag's.
THEOREM WriteReadsBackHolds == TagSpec => []WriteReadsBack
  <1>1. TagInv => WriteReadsBack
    BY DEF TagInv
  <1> QED BY <1>1, TagInvariant, PTL

-----------------------------------------------------------------------------
(* ReadTags, for all devices, tags, limits and lists of any length: every  *)
(* tag has one point, and a point of good quality holds what the device    *)
(* holds.  Recursion over lists is proved about with the least number at   *)
(* which it would go wrong.                                                *)

\* Every set of numbers that is not empty has a least one.
LEMMA LeastNumber ==
    ASSUME NEW T, T \subseteq Nat, T # {}
    PROVE  \E n \in T : \A m \in T : n <= m
  <1>1. PICK n \in T : \A m \in T : <<m, n>> \notin OpToRel(<, Nat)
    BY NatLessThanWellFounded, WFMin
  <1>2. ASSUME NEW m \in T PROVE n <= m
    <2>1. <<m, n>> \in Nat \X Nat
      OBVIOUS
    <2>2. ~(m < n)
      BY <1>1, <2>1 DEF OpToRel
    <2> QED BY <2>2
  <1> QED BY <1>2

\* Induction, for a set of numbers.
LEMMA Induction ==
    ASSUME NEW n \in Nat, NEW S, 0 \in S, \A k \in 1..n : k - 1 \in S => k \in S
    PROVE  0..n \subseteq S
  <1> SUFFICES ASSUME ~(0..n \subseteq S) PROVE FALSE
    OBVIOUS
  <1>1. PICK T \in SUBSET Nat : T = (0..n) \ S
    <2>1. (0..n) \ S \in SUBSET Nat
      OBVIOUS
    <2> QED BY <2>1
  <1>2. T # {}
    BY <1>1
  <1>3. PICK k \in T : \A m \in T : k <= m
    BY <1>2, LeastNumber
  <1>4. k \in 1..n /\ k - 1 \notin T
    BY <1>1, <1>3
  <1> QED BY <1>1, <1>4

\* The first m rounds of a loop over values of X: what step makes of the value in each.
Runs(f, m, first, body) ==
    f[0] = first /\ \A k \in 1..m : f[k] = body[<<f[k - 1], k>>]

\* A loop that goes through 1..n has run: there is the sequence of its states.
LEMMA LoopRuns ==
    ASSUME NEW X, NEW n \in Nat, NEW first \in X, NEW body \in [X \X (1..n) -> X]
    PROVE  \E f \in [0..n -> X] : Runs(f, n, first, body)
  <1>0. PICK S : S = {m \in 0..n : \E f \in [0..n -> X] : Runs(f, m, first, body)}
    OBVIOUS
  <1>1. 0 \in S
    <2>1. PICK f \in [0..n -> X] : f = [k \in 0..n |-> first]
      OBVIOUS
    <2>2. Runs(f, 0, first, body)
      BY <2>1 DEF Runs
    <2> QED BY <1>0, <2>2
  <1>2. ASSUME NEW m \in 1..n, m - 1 \in S PROVE m \in S
    <2>1. PICK f \in [0..n -> X] : Runs(f, m - 1, first, body)
      BY <1>0, <1>2
    <2>2. PICK v \in X : v = body[<<f[m - 1], m>>]
      <3>1. f[m - 1] \in X
        OBVIOUS
      <3>2. body[<<f[m - 1], m>>] \in X
        BY <3>1
      <3> QED BY <3>2
    <2>3. PICK g \in [0..n -> X] : g = [f EXCEPT ![m] = v]
      OBVIOUS
    <2>4. g[m] = v /\ \A k \in 0..(m - 1) : g[k] = f[k]
      BY <2>3
    <2>5. ASSUME NEW k \in 1..m PROVE g[k] = body[<<g[k - 1], k>>]
      <3>1. g[k - 1] = f[k - 1]
        BY <2>4
      <3>2. CASE k = m
        BY <2>2, <2>4, <3>1, <3>2
      <3>3. CASE k # m
        BY <2>1, <2>4, <3>1, <3>3 DEF Runs
      <3> QED BY <3>2, <3>3
    <2>6. g[0] = first
      BY <2>1, <2>4 DEF Runs
    <2>7. Runs(g, m, first, body)
      BY <2>5, <2>6 DEF Runs
    <2> QED BY <1>0, <2>7
  <1>3. n \in S
    BY <1>1, <1>2, Induction
  <1> QED BY <1>0, <1>3

-----------------------------------------------------------------------------
(* Ranges                                                                  *)

\* Position i is in place m of range j.
IsAt(rs, i, j, m) == j \in 1..Len(rs) /\ m \in 1..Len(rs[j].tags) /\ rs[j].tags[m] = i

AnyArea == STRING \cup ModbusArea

RangeType(n) == [area : AnyArea, start : Nat, end : Int, tags : Seq(1..n)]

\* What one more tag does to the ranges.
Inserted(n, rs, ss, t, i) ==
    /\ ss \in Seq(RangeType(n)) /\ ss # <<>>
    /\ \A x, j, m : IsAt(ss, x, j, m) <=>
          IsAt(rs, x, j, m) \/ (x = i /\ j = Len(ss) /\ m = Len(ss[j].tags))
    /\ ~\E x : IsAt(rs, x, Len(ss), Len(ss[Len(ss)].tags))
    /\ \A j \in 1..(Len(ss) - 1) : j \in 1..Len(rs) /\ ss[j] = rs[j]
    /\ \/ /\ rs # <<>> /\ Len(ss) = Len(rs) /\ Last(rs).area = t.area /\ Merges(Last(rs), t)
          /\ ss[Len(ss)] = Extend(Last(rs), i, End(t))
       \/ /\ Len(ss) = Len(rs) + 1
          /\ ss[Len(ss)] = [area |-> t.area, start |-> t.addr, end |-> End(t), tags |-> <<i>>]

\* Insert puts a tag at the end of the last range or of a new one, and leaves the other
\* tags where they are.
LEMMA InsertIn ==
    ASSUME NEW n \in Nat, NEW rs \in Seq(RangeType(n)), NEW t, NEW i \in 1..n,
           t.area \in AnyArea, t.addr \in Nat, End(t) \in Int,
           NEW ss, ss = Insert(rs, t, i)
    PROVE  Inserted(n, rs, ss, t, i)
  <1>1. CASE rs # <<>> /\ Last(rs).area = t.area /\ Merges(Last(rs), t)
    <2>1. ss = [rs EXCEPT ![Len(rs)] = Extend(rs[Len(rs)], i, End(t))]
      BY <1>1 DEF Insert
    <2>2. Len(rs) \in Nat \ {0} /\ rs[Len(rs)] \in RangeType(n)
      BY <1>1
    <2>3. PICK r \in RangeType(n) : r = rs[Len(rs)]
      BY <2>2
    <2>4. PICK q : q = Extend(r, i, End(t))
      OBVIOUS
    <2>5. q \in RangeType(n) /\ q.tags = Append(r.tags, i)
      <3>1. PICK e \in Int : e = IF End(t) > r.end THEN End(t) ELSE r.end
        BY <2>3 DEF RangeType
      <3>2. PICK is \in Seq(1..n) : is = Append(r.tags, i)
        <4>1. r.tags \in Seq(1..n)
          BY <2>3 DEF RangeType
        <4>2. Append(r.tags, i) \in Seq(1..n)
          BY <4>1
        <4> QED BY <4>2
      <3>3. q = [[r EXCEPT !.end = e] EXCEPT !.tags = is]
        BY <2>4, <3>1, <3>2 DEF Extend
      <3> QED BY <2>3, <3>2, <3>3 DEF RangeType
    <2>6. ss \in Seq(RangeType(n)) /\ Len(ss) = Len(rs) /\ ss[Len(ss)] = q
          /\ \A j \in 1..(Len(rs) - 1) : ss[j] = rs[j]
      BY <2>1, <2>2, <2>3, <2>4, <2>5
    <2>7. Last(rs) = r
      BY <2>3 DEF Last
    <2>8. Len(q.tags) = Len(r.tags) + 1 /\ q.tags[Len(q.tags)] = i /\ Len(r.tags) \in Nat
          /\ \A m \in 1..Len(r.tags) : q.tags[m] = r.tags[m]
      <3>1. r.tags \in Seq(1..n)
        BY <2>3 DEF RangeType
      <3> QED BY <2>5, <3>1
    <2>9. ASSUME NEW x, NEW j, NEW m
          PROVE  IsAt(ss, x, j, m) <=> IsAt(rs, x, j, m) \/ (x = i /\ j = Len(ss) /\ m = Len(ss[j].tags))
      <3>1. CASE j = Len(rs)
        <4>1. j \in 1..Len(ss) /\ j \in 1..Len(rs) /\ ss[j] = q /\ rs[j] = r /\ j = Len(ss)
          BY <2>2, <2>3, <2>6, <3>1
        <4>2. IsAt(ss, x, j, m) <=> m \in 1..Len(q.tags) /\ q.tags[m] = x
          BY <4>1 DEF IsAt
        <4>3. IsAt(rs, x, j, m) <=> m \in 1..Len(r.tags) /\ r.tags[m] = x
          BY <4>1 DEF IsAt
        <4>4. m \in 1..Len(q.tags) <=> m \in 1..Len(r.tags) \/ m = Len(q.tags)
          BY <2>8
        <4>5. m \in 1..Len(r.tags) => m # Len(q.tags) /\ q.tags[m] = r.tags[m]
          BY <2>8
        <4> QED BY <2>8, <4>1, <4>2, <4>3, <4>4, <4>5
      <3>2. CASE j # Len(rs)
        <4>1. j \in 1..Len(rs) => j \in 1..(Len(rs) - 1)
          BY <2>2, <3>2
        <4>2. j \in 1..Len(rs) => ss[j] = rs[j] /\ j # Len(ss)
          BY <2>6, <3>2, <4>1
        <4> QED BY <2>6, <3>2, <4>2 DEF IsAt
      <3> QED BY <3>1, <3>2
    <2>10. ~\E x : IsAt(rs, x, Len(ss), Len(ss[Len(ss)].tags))
      BY <2>3, <2>6, <2>8 DEF IsAt
    <2> QED BY <1>1, <2>2, <2>4, <2>6, <2>7, <2>9, <2>10 DEF Inserted
  <1>2. CASE ~(rs # <<>> /\ Last(rs).area = t.area /\ Merges(Last(rs), t))
    <2>1. PICK q : q = [area |-> t.area, start |-> t.addr, end |-> End(t), tags |-> <<i>>]
      OBVIOUS
    <2>2. ss = Append(rs, q)
      BY <1>2, <2>1 DEF Insert
    <2>3. q \in RangeType(n) /\ q.tags = <<i>>
      BY <2>1 DEF RangeType
    <2>4. ss \in Seq(RangeType(n)) /\ Len(ss) = Len(rs) + 1 /\ ss[Len(ss)] = q /\ Len(rs) \in Nat
          /\ \A j \in 1..Len(rs) : ss[j] = rs[j]
      BY <2>2, <2>3
    <2>5. ASSUME NEW x, NEW j, NEW m
          PROVE  IsAt(ss, x, j, m) <=> IsAt(rs, x, j, m) \/ (x = i /\ j = Len(ss) /\ m = Len(ss[j].tags))
      <3>1. Len(q.tags) = 1 /\ q.tags[1] = i
        BY <2>3
      <3>2. \A k \in 1..Len(rs) : ss[k] = rs[k]
        BY <2>4
      <3>3. CASE j = Len(rs) + 1
        <4>1. j \notin 1..Len(rs) /\ j \in 1..Len(ss) /\ ss[j] = q
          BY <2>4, <3>3
        <4>2. ~IsAt(rs, x, j, m)
          BY <4>1 DEF IsAt
        <4>3. IsAt(ss, x, j, m) <=> m \in 1..Len(q.tags) /\ q.tags[m] = x
          BY <4>1 DEF IsAt
        <4>4. m \in 1..Len(q.tags) <=> m = 1
          BY <3>1
        <4>5. IsAt(ss, x, j, m) <=> m = 1 /\ x = i
          BY <3>1, <4>3, <4>4
        <4> QED BY <2>4, <3>1, <3>3, <4>1, <4>2, <4>5
      <3>4. CASE j # Len(rs) + 1
        BY <2>4, <3>2, <3>4 DEF IsAt
      <3> QED BY <3>3, <3>4
    <2>6. ~\E x : IsAt(rs, x, Len(ss), Len(ss[Len(ss)].tags))
      BY <2>4 DEF IsAt
    <2> QED BY <2>1, <2>4, <2>5, <2>6 DEF Inserted
  <1> QED BY <1>1, <1>2

\* What the proofs need to know of a tag.
ValidTag(t) ==
    /\ t.area \in AnyArea /\ t.addr \in Nat
    /\ t.area \in ModbusArea =>
          /\ t.addr < Space /\ t.count \in Nat \ {0}
          /\ MaxRead + MaxGap + t.count < Space /\ 2 * t.count + MaxGap < Space
          /\ t.order \in {"BE", "LE", "MB", "ML"}
    /\ t.area \notin ModbusArea => t.size \in Nat \ {0}

\* A Modbus tag that goes beyond the last address.
Beyond(t) == t.area \in ModbusArea /\ t.addr + t.count > Space

\* Numbers that are less than one turn away.
LEMMA Modulo ==
    ASSUME NEW s \in Nat \ {0}, NEW x \in 0..(s - 1)
    PROVE  x % s = x /\ (x + s) % s = x /\ (x - s) % s = x
  OBVIOUS

\* The uint16 sum wraps round once at most.
LEMMA EndOf ==
    ASSUME NEW t, ValidTag(t)
    PROVE  /\ End(t) \in Int
           /\ t.area \notin ModbusArea => End(t) = t.addr + t.size - 1
           /\ t.area \in ModbusArea =>
                 /\ End(t) \in 0..(Space - 1)
                 /\ End(t) = IF Beyond(t) THEN t.addr + t.count - 1 - Space
                                          ELSE t.addr + t.count - 1
  <1>1. CASE t.area \notin ModbusArea
    BY <1>1 DEF ValidTag, End, S7End
  <1>2. CASE t.area \in ModbusArea
    <2>1. PICK x \in Nat : x = t.addr + t.count - 1
      BY <1>2 DEF ValidTag
    <2>2. /\ Space \in Nat \ {0} /\ x < 2 * Space /\ (Beyond(t) <=> x >= Space)
          /\ End(t) = x % Space
      BY <1>2, <2>1, BatchAssumption DEF ValidTag, End, ModbusEnd, Beyond
    <2>3. x % Space = IF x >= Space THEN x - Space ELSE x
      <3>1. CASE x < Space
        BY <2>2, <3>1, Modulo
      <3>2. CASE x >= Space
        <4>1. PICK y \in 0..(Space - 1) : x = y + Space
          BY <2>2, <3>2
        <4> QED BY <2>2, <4>1, Modulo
      <3> QED BY <2>2, <3>1, <3>2
    <2>4. CASE Beyond(t)
      <3>1. End(t) = x - Space /\ x - Space \in 0..(Space - 1)
        BY <2>2, <2>3, <2>4
      <3> QED BY <1>2, <2>1, <2>4, <3>1, BatchAssumption DEF ValidTag
    <2>5. CASE ~Beyond(t)
      <3>1. End(t) = x /\ x \in 0..(Space - 1)
        BY <2>2, <2>3, <2>5
      <3> QED BY <1>2, <2>1, <2>5, <3>1 DEF ValidTag
    <2> QED BY <2>4, <2>5
  <1> QED BY <1>1, <1>2

\* Tag t lies in range r, as far as the device has it.
Fits(r, t) ==
    /\ t.area = r.area /\ r.start <= t.addr
    /\ t.area \in ModbusArea => Beyond(t) \/ t.addr + t.count - 1 <= r.end
    /\ t.area \notin ModbusArea => t.addr + t.size - 1 <= r.end

\* Position i is read before position j.
Before(tags, i, j) ==
    \/ tags[i].addr < tags[j].addr
    \/ tags[i].addr = tags[j].addr /\ (tags[j].area \in ModbusArea => i < j)

\* A range that wraps has no tag that the device has, and nothing is merged into it.
Wraps(tags, r) ==
    /\ r.start - r.end > MaxGap + 1
    /\ \A m \in 1..Len(r.tags) : Beyond(tags[r.tags[m]])

\* With one more tag, and a gap, a range of size n still has less than Space addresses.
Small(n) == n < Space /\ (n <= MaxRead \/ 2 * n + MaxGap < Space)

RangeOK(tags, r) ==
    /\ r.tags # <<>> /\ r.start = tags[r.tags[1]].addr
    /\ \A m \in 1..Len(r.tags) : Fits(r, tags[r.tags[m]])
    /\ \A l, m \in 1..Len(r.tags) : l < m => Before(tags, r.tags[l], r.tags[m])
    /\ r.area \in ModbusArea =>
          /\ r.start < Space /\ r.end \in 0..(Space - 1)
          /\ IF r.end < r.start THEN Wraps(tags, r) ELSE Small(r.end - r.start + 1)

\* A new range is right for its tag.
LEMMA NewRange ==
    ASSUME NEW n \in Nat, NEW tags, NEW i \in 1..n, ValidTag(tags[i]),
           NEW r, r = [area |-> tags[i].area, start |-> tags[i].addr, end |-> End(tags[i]),
                       tags |-> <<i>>]
    PROVE  RangeOK(tags, r)
  <1>1. PICK t : t = tags[i]
    OBVIOUS
  <1>2. r.tags = <<i>> /\ r.area = t.area /\ r.start = t.addr /\ r.end = End(t)
    BY <1>1
  <1>3. Len(r.tags) = 1 /\ r.tags[1] = i
    BY <1>2
  <1>4. Fits(r, t)
    BY <1>1, <1>2, EndOf DEF ValidTag, Fits
  <1>5. ASSUME t.area \in ModbusArea
        PROVE  /\ r.start < Space /\ r.end \in 0..(Space - 1)
               /\ IF r.end < r.start THEN Wraps(tags, r) ELSE Small(r.end - r.start + 1)
    <2>1. r.start < Space /\ r.end \in 0..(Space - 1)
      BY <1>1, <1>2, <1>5, EndOf DEF ValidTag
    <2>2. ASSUME r.end < r.start
          PROVE  Beyond(t) /\ r.start - r.end > MaxGap + 1
      BY <1>1, <1>2, <1>5, <2>2, EndOf, BatchAssumption DEF ValidTag, Beyond
    <2>3. ASSUME ~(r.end < r.start)
          PROVE  Small(r.end - r.start + 1)
      <3>1. ~Beyond(t)
        BY <1>1, <1>2, <1>5, <2>3, EndOf, BatchAssumption DEF ValidTag, Beyond
      <3>2. r.end - r.start + 1 = t.count
        BY <1>1, <1>2, <1>5, <3>1, EndOf DEF ValidTag
      <3> QED BY <1>1, <1>5, <3>2, BatchAssumption DEF ValidTag, Small
    <2> QED BY <1>1, <1>3, <2>1, <2>2, <2>3 DEF Wraps
  <1> QED BY <1>1, <1>2, <1>3, <1>4, <1>5 DEF RangeOK

\* A range stays right when a tag that it may be merged with comes to it.
LEMMA GrowRange ==
    ASSUME NEW n \in Nat, NEW tags, NEW i \in 1..n, ValidTag(tags[i]),
           NEW r \in RangeType(n), RangeOK(tags, r), r.area = tags[i].area, Merges(r, tags[i]),
           \A m \in 1..Len(r.tags) : Before(tags, r.tags[m], i) /\ ValidTag(tags[r.tags[m]]),
           NEW q, q = Extend(r, i, End(tags[i]))
    PROVE  RangeOK(tags, q)
  <1>1. PICK t : t = tags[i]
    OBVIOUS
  <1>2. PICK e \in Int : e = IF End(t) > r.end THEN End(t) ELSE r.end
    BY <1>1, EndOf DEF RangeType
  <1>3. /\ r.tags \in Seq(1..n) /\ Len(r.tags) \in Nat /\ r.start \in Nat /\ r.end \in Int
        /\ r.area \in AnyArea
    BY DEF RangeType
  <1>4. q = [[r EXCEPT !.end = e] EXCEPT !.tags = Append(r.tags, i)]
    BY <1>1, <1>2 DEF Extend
  <1>5. q.area = r.area /\ q.start = r.start /\ q.end = e /\ q.tags = Append(r.tags, i)
    BY <1>4 DEF RangeType
  <1>6. /\ Len(q.tags) = Len(r.tags) + 1 /\ q.tags[Len(q.tags)] = i
        /\ \A m \in 1..Len(r.tags) : q.tags[m] = r.tags[m]
    BY <1>3, <1>5
  <1>7. q.tags # <<>> /\ q.tags[1] = r.tags[1] /\ 1 \in 1..Len(r.tags)
    BY <1>3, <1>6 DEF RangeOK
  <1>8. r.start <= t.addr /\ t.addr \in Nat
    <2>1. r.start = tags[r.tags[1]].addr
      BY DEF RangeOK
    <2>2. t.addr \in Nat
      BY <1>1 DEF ValidTag
    <2>3. Before(tags, r.tags[1], i)
      BY <1>7
    <2> QED BY <1>1, <1>3, <2>1, <2>2, <2>3 DEF Before
  <1>9. r.end <= e /\ End(t) <= e /\ End(t) \in Int
    BY <1>1, <1>2, <1>3, EndOf
  <1>10. Fits(q, t)
    <2>1. t.area = q.area /\ q.start <= t.addr
      BY <1>1, <1>5, <1>8
    <2>2. ASSUME t.area \in ModbusArea, ~Beyond(t) PROVE t.addr + t.count - 1 <= q.end
      BY <1>1, <1>5, <1>9, <2>2, EndOf
    <2>3. ASSUME t.area \notin ModbusArea PROVE t.addr + t.size - 1 <= q.end
      BY <1>1, <1>5, <1>9, <2>3, EndOf
    <2> QED BY <2>1, <2>2, <2>3 DEF Fits
  <1>11. ASSUME NEW m \in 1..Len(r.tags) PROVE Fits(q, tags[r.tags[m]])
    <2>1. PICK u : u = tags[r.tags[m]]
      OBVIOUS
    <2>2. Fits(r, u) /\ ValidTag(u)
      BY <2>1 DEF RangeOK
    <2>3. u.area = q.area /\ q.start <= u.addr
      BY <1>5, <2>2 DEF Fits
    <2>4. ASSUME u.area \in ModbusArea, ~Beyond(u) PROVE u.addr + u.count - 1 <= q.end
      <3>1. u.addr + u.count - 1 <= r.end /\ u.addr + u.count - 1 \in Int
        BY <2>2, <2>4 DEF Fits, ValidTag
      <3> QED BY <1>3, <1>5, <1>9, <3>1
    <2>5. ASSUME u.area \notin ModbusArea PROVE u.addr + u.size - 1 <= q.end
      <3>1. u.addr + u.size - 1 <= r.end /\ u.addr + u.size - 1 \in Int
        BY <2>2, <2>5 DEF Fits, ValidTag
      <3> QED BY <1>3, <1>5, <1>9, <3>1
    <2>6. Fits(q, u)
      BY <2>3, <2>4, <2>5 DEF Fits
    <2> QED BY <2>1, <2>6
  <1>12. ASSUME NEW l \in 1..Len(q.tags), NEW m \in 1..Len(q.tags), l < m
         PROVE  Before(tags, q.tags[l], q.tags[m])
    <2>1. l \in 1..Len(r.tags) /\ q.tags[l] = r.tags[l]
      <3>1. PICK k \in Nat : k = Len(r.tags) /\ Len(q.tags) = k + 1
        BY <1>3, <1>6
      <3>2. l \in 1..k
        BY <1>12, <3>1
      <3> QED BY <1>6, <3>1, <3>2
    <2>2. CASE m = Len(q.tags)
      <3>1. Before(tags, r.tags[l], i)
        BY <2>1
      <3>2. q.tags[m] = i
        BY <1>6, <2>2
      <3> QED BY <2>1, <3>1, <3>2
    <2>3. CASE m # Len(q.tags)
      <3>1. m \in 1..Len(r.tags) /\ q.tags[m] = r.tags[m]
        BY <1>3, <1>6, <2>3
      <3> QED BY <1>12, <2>1, <3>1 DEF RangeOK
    <2> QED BY <2>2, <2>3
  <1>13. ASSUME t.area \in ModbusArea
         PROVE  /\ q.start < Space /\ q.end \in 0..(Space - 1) /\ ~(q.end < q.start)
               /\ Small(q.end - q.start + 1)
    <2>1. r.start < Space /\ r.end \in 0..(Space - 1) /\ (r.end < r.start => r.start - r.end > MaxGap + 1)
      BY <1>1, <1>13 DEF RangeOK, Wraps
    <2>2. t.addr - r.end - 1 <= MaxGap
      BY <1>1, <1>13 DEF Merges, ModbusMerges
    <2>3. ~(r.end < r.start)
      BY <1>8, <2>1, <2>2, <1>3, BatchAssumption
    <2>4. End(t) \in 0..(Space - 1)
      BY <1>1, <1>13, EndOf
    <2>5. e \in 0..(Space - 1)
      BY <1>2, <2>1, <2>4, BatchAssumption
    <2>6. r.start <= e
      BY <1>3, <1>9, <2>3
    <2>7. Small(r.end - r.start + 1)
      BY <1>1, <1>13, <2>3 DEF RangeOK
    <2>8. Small(e - r.start + 1)
      <3>1. CASE ~(End(t) > r.end)
        BY <1>2, <2>7, <3>1
      <3>2. CASE End(t) > r.end
        <4>1. t.addr \in Nat /\ t.count \in Nat \ {0} /\ Space \in Nat /\ MaxGap \in Nat /\ MaxRead \in Nat
              /\ MaxRead + MaxGap + t.count < Space /\ 2 * t.count + MaxGap < Space
          BY <1>1, <1>13, BatchAssumption DEF ValidTag
        <4>a. PICK a \in Nat : a = t.addr
          BY <4>1
        <4>b. PICK b \in Nat : b = r.start
          BY <1>3
        <4>c. PICK c \in Nat \ {0} : c = t.count
          BY <4>1
        <4>d. PICK w \in Nat : w = r.end
          BY <2>1
        <4>2. a = t.addr /\ c = t.count /\ b = r.start /\ w = r.end
          BY <4>a, <4>b, <4>c, <4>d
        <4>3. b <= a /\ b <= w /\ a <= w + 1 + MaxGap /\ e = End(t) /\ w < e
              /\ MaxRead + MaxGap + c < Space /\ 2 * c + MaxGap < Space
          <5>1. b <= a
            BY <1>8, <4>2
          <5>2. b <= w
            BY <2>3, <4>2
          <5>3. a <= w + 1 + MaxGap
            <6>1. a - w - 1 <= MaxGap
              BY <2>2, <4>2
            <6>2. MaxGap \in Nat
              BY <4>1
            <6> QED BY <6>1, <6>2
          <5>4. e = End(t) /\ w < e
            BY <1>2, <3>2, <4>2
          <5> QED BY <4>1, <4>2, <5>1, <5>2, <5>3, <5>4
        <4>4. e = a + c - 1 - Space \/ e = a + c - 1
          BY <1>1, <1>13, <4>2, <4>3, EndOf
        <4>5. e = a + c - 1
          <5>1. a + c - 1 - Space < w
            <6>1. PICK S \in Nat, G \in Nat : S = Space /\ G = MaxGap
              BY <4>1
            <6>2. a <= w + 1 + G /\ 2 * c + G < S
              BY <4>3, <6>1
            <6>3. a + c - 1 - S < w
              BY <6>2
            <6> QED BY <6>1, <6>3
          <5> QED BY <4>3, <4>4, <5>1
        <4>6. w - b + 1 <= MaxRead \/ 2 * (w - b + 1) + MaxGap < Space
          BY <2>7, <4>2 DEF Small
        <4>7. PICK x \in Int : x = e - b + 1
          BY <1>2
        <4>8. x \in 0..(Space - 1)
          BY <4>1, <4>3, <4>5, <4>6, <4>7
        <4>9. (End(t) - r.start + 1) % Space <= MaxRead
          BY <1>1, <1>13 DEF Merges, ModbusMerges, End
        <4>10. x % Space <= MaxRead
          BY <4>2, <4>3, <4>7, <4>9
        <4>11. x <= MaxRead
          BY <4>8, <4>10, Modulo, BatchAssumption
        <4> QED BY <4>1, <4>2, <4>7, <4>8, <4>11 DEF Small
      <3> QED BY <3>1, <3>2
    <2> QED BY <1>3, <1>5, <2>1, <2>5, <2>6, <2>8
  <1>14. ASSUME NEW m \in 1..Len(q.tags) PROVE Fits(q, tags[q.tags[m]])
    <2>1. CASE m = Len(q.tags)
      BY <1>1, <1>6, <1>10, <2>1
    <2>2. CASE m # Len(q.tags)
      <3>1. m \in 1..Len(r.tags) /\ q.tags[m] = r.tags[m]
        BY <1>3, <1>6, <2>2
      <3> QED BY <1>11, <3>1
    <2> QED BY <2>1, <2>2
  <1> QED BY <1>1, <1>5, <1>7, <1>12, <1>13, <1>14 DEF RangeOK

\* An order lists each position once, keeps areas together and sorts them.
InOrder(tags, order) ==
    LET N == 1..Len(tags)
    IN  /\ order \in [N -> N] /\ \A i \in N : \E p \in N : order[p] = i
        /\ \A p, q \in N : order[p] = order[q] => p = q
        /\ \A p, q \in N : p < q /\ tags[order[p]].area = tags[order[q]].area =>
              /\ \A m \in p..q : tags[order[m]].area = tags[order[p]].area
              /\ Before(tags, order[p], order[q])

\* The order of sortTagsByAddress and of the areas, as positions.
LEMMA OrderFacts ==
    ASSUME NEW tags, Len(tags) \in Nat, \A i \in 1..Len(tags) : ValidTag(tags[i]),
           NEW order \in Orders(tags)
    PROVE  InOrder(tags, order)
  <1>1. PICK n \in Nat : n = Len(tags)
    OBVIOUS
  <1>2. PICK N : N = 1..n
    OBVIOUS
  <1>3. IsFiniteSet(N) /\ Cardinality(N) = n
    BY <1>2, FS_Interval
  <1>4. order \in SetToSeqs(N)
    BY <1>1, <1>2 DEF Orders
  <1>5. order \in [N -> N] /\ \A p, q \in N : order[p] = order[q] => p = q
    BY <1>2, <1>3, <1>4 DEF SetToSeqs
  <1>6. order \in Injection(N, N)
    BY <1>5 DEF Injection, IsInjective
  <1>7. order \in Surjection(N, N)
    BY <1>3, <1>6, FS_Injection
  <1>8. \A i \in N : \E p \in N : order[p] = i
    BY <1>7 DEF Surjection
  <1>9. ASSUME NEW p \in N, NEW q \in N, p < q, tags[order[p]].area = tags[order[q]].area
        PROVE  /\ \A m \in p..q : tags[order[m]].area = tags[order[p]].area
               /\ Before(tags, order[p], order[q])
    <2>1. PICK t : t = tags[order[p]]
      OBVIOUS
    <2>2. PICK u : u = tags[order[q]]
      OBVIOUS
    <2>3. /\ \A m \in p..q : tags[order[m]].area = t.area
          /\ t.addr <= u.addr
          /\ t.addr = u.addr /\ t.area \in ModbusArea => order[p] < order[q]
      BY <1>1, <1>2, <1>9, <2>1, <2>2 DEF Orders
    <2>4. order[p] \in 1..Len(tags) /\ order[q] \in 1..Len(tags)
      BY <1>1, <1>2, <1>5
    <2>5. t.addr \in Nat /\ u.addr \in Nat
      BY <2>1, <2>2, <2>4 DEF ValidTag
    <2>6. Before(tags, order[p], order[q])
      BY <1>9, <2>1, <2>2, <2>3, <2>5 DEF Before
    <2> QED BY <2>1, <2>3, <2>6
  <1> QED BY <1>1, <1>2, <1>5, <1>8, <1>9 DEF InOrder

\* No tag is in two places, and the ranges of an area follow one another.
Unique(rs) == \A i, j, l, m, o : IsAt(rs, i, j, m) /\ IsAt(rs, i, l, o) => j = l /\ m = o
Together(rs) ==
    \A j, l \in 1..Len(rs) : rs[j].area = rs[l].area => \A m \in j..l : rs[m].area = rs[j].area

\* Ranges of the first k tags in the order.
Divided(tags, order, rs, k) ==
    /\ rs \in Seq(RangeType(Len(tags))) /\ \A j \in 1..Len(rs) : RangeOK(tags, rs[j])
    /\ \A i, j, m : IsAt(rs, i, j, m) => \E p \in 1..k : order[p] = i
    /\ \A p \in 1..k : \E j, m : IsAt(rs, order[p], j, m)
    /\ Unique(rs) /\ Together(rs)
    /\ k > 0 => rs # <<>> /\ Last(rs).area = tags[order[k]].area

\* One more tag comes into the ranges.
LEMMA DivideStep ==
    ASSUME NEW tags, Len(tags) \in Nat, \A i \in 1..Len(tags) : ValidTag(tags[i]),
           NEW order, InOrder(tags, order), NEW k \in 1..Len(tags),
           NEW rs, Divided(tags, order, rs, k - 1),
           NEW ss, ss = Insert(rs, tags[order[k]], order[k])
    PROVE  Divided(tags, order, ss, k)
  <1>1. PICK n \in Nat : n = Len(tags)
    OBVIOUS
  <1>2. PICK i \in 1..n : i = order[k]
    BY <1>1 DEF InOrder
  <1>3. PICK t : t = tags[i]
    OBVIOUS
  <1>4. ValidTag(t) /\ t.area \in AnyArea /\ t.addr \in Nat /\ End(t) \in Int
    BY <1>1, <1>3, EndOf DEF ValidTag
  <1>5. rs \in Seq(RangeType(n)) /\ ss = Insert(rs, t, i)
    BY <1>1, <1>2, <1>3 DEF Divided
  <1>6. Inserted(n, rs, ss, t, i)
    BY <1>4, <1>5, InsertIn
  <1>16. /\ ss \in Seq(RangeType(n)) /\ ss # <<>>
         /\ \A j \in 1..(Len(ss) - 1) : j \in 1..Len(rs) /\ ss[j] = rs[j]
    BY <1>6 DEF Inserted
  <1>17. \A x, j, m : IsAt(ss, x, j, m) <=>
            IsAt(rs, x, j, m) \/ (x = i /\ j = Len(ss) /\ m = Len(ss[j].tags))
    BY <1>6 DEF Inserted
  <1>18. order \in [1..n -> 1..n]
    BY <1>1 DEF InOrder
  <1>7. \A x, j, m : IsAt(rs, x, j, m) => x # i
    <2>1. \A p \in 1..(k - 1) : order[p] # order[k]
      BY <1>1 DEF InOrder
    <2> QED BY <1>2, <2>1 DEF Divided
  <1>8. Unique(ss)
    <2> SUFFICES ASSUME NEW x, NEW j, NEW l, NEW m, NEW o, IsAt(ss, x, j, m), IsAt(ss, x, l, o)
                 PROVE  j = l /\ m = o
      BY DEF Unique
    <2>1. CASE x = i
      BY <1>7, <1>17, <2>1
    <2>2. CASE x # i
      BY <1>17, <2>2 DEF Divided, Unique
    <2> QED BY <2>1, <2>2
  <1>9. \A x, j, m : IsAt(ss, x, j, m) => \E p \in 1..k : order[p] = x
    <2>1. \A x, j, m : IsAt(rs, x, j, m) => \E p \in 1..(k - 1) : order[p] = x
      BY DEF Divided
    <2>2. \A p \in 1..(k - 1) : p \in 1..k
      OBVIOUS
    <2>3. k \in 1..k
      OBVIOUS
    <2> QED BY <1>2, <1>17, <2>1, <2>2, <2>3
  <1>10. \A p \in 1..k : \E j, m : IsAt(ss, order[p], j, m)
    <2> SUFFICES ASSUME NEW p \in 1..k PROVE \E j, m : IsAt(ss, order[p], j, m)
      OBVIOUS
    <2>1. CASE p = k
      BY <1>2, <1>17, <2>1
    <2>2. CASE p # k
      <3>1. p \in 1..(k - 1)
        BY <2>2
      <3>2. PICK j, m : IsAt(rs, order[p], j, m)
        BY <3>1 DEF Divided
      <3> QED BY <1>17, <3>2
    <2> QED BY <2>1, <2>2
  <1>11. Len(ss) \in Nat \ {0} /\ Len(rs) \in Nat
    BY <1>5, <1>16
  <1>12. RangeOK(tags, ss[Len(ss)]) /\ ss[Len(ss)].area = t.area
    <2>1. CASE rs # <<>> /\ Len(ss) = Len(rs) /\ Last(rs).area = t.area /\ Merges(Last(rs), t)
               /\ ss[Len(ss)] = Extend(Last(rs), i, End(t))
      <3>1. PICK r \in RangeType(n) : r = Last(rs)
        BY <1>5, <2>1 DEF Last
      <3>2. PICK q : q = Extend(r, i, End(t))
        OBVIOUS
      <3>3. RangeOK(tags, r)
        BY <1>5, <2>1, <3>1 DEF Divided, Last
      <3>4. ASSUME NEW m \in 1..Len(r.tags)
            PROVE  Before(tags, r.tags[m], i) /\ ValidTag(tags[r.tags[m]])
        <4>1. IsAt(rs, r.tags[m], Len(rs), m)
          BY <1>5, <2>1, <3>1 DEF IsAt, Last
        <4>2. PICK p \in 1..(k - 1) : order[p] = r.tags[m]
          BY <4>1 DEF Divided
        <4>3. tags[order[p]].area = t.area
          BY <2>1, <3>1, <3>3, <4>2 DEF RangeOK, Fits
        <4>4. p \in 1..Len(tags) /\ p < k /\ order[p] \in 1..Len(tags)
          BY <1>1, <1>18, <4>2
        <4>5. Before(tags, order[p], order[k])
          BY <1>2, <1>3, <4>3, <4>4 DEF InOrder
        <4> QED BY <1>2, <4>2, <4>4, <4>5
      <3>5. RangeOK(tags, q)
        BY <1>3, <1>4, <2>1, <3>1, <3>2, <3>3, <3>4, GrowRange
      <3>6. q.area = r.area
        BY <3>2 DEF Extend, RangeType
      <3> QED BY <2>1, <3>1, <3>2, <3>5, <3>6
    <2>2. CASE ss[Len(ss)] = [area |-> t.area, start |-> t.addr, end |-> End(t), tags |-> <<i>>]
      <3>1. PICK q : q = ss[Len(ss)]
        OBVIOUS
      <3>2. RangeOK(tags, q)
        BY <1>3, <1>4, <2>2, <3>1, NewRange
      <3> QED BY <2>2, <3>1, <3>2
    <2> QED BY <1>6, <2>1, <2>2 DEF Inserted
  <1>13. \A j \in 1..Len(ss) : RangeOK(tags, ss[j])
    <2>1. \A j \in 1..(Len(ss) - 1) : RangeOK(tags, ss[j])
      BY <1>16 DEF Divided
    <2> QED BY <1>11, <1>12, <2>1
  <1>14. Together(ss)
    <2> SUFFICES ASSUME NEW j \in 1..Len(ss), NEW l \in 1..Len(ss), ss[j].area = ss[l].area,
                        NEW m \in j..l
                 PROVE  ss[m].area = ss[j].area
      BY DEF Together
    <2>1. CASE l # Len(ss)
      <3>1. j \in 1..(Len(ss) - 1) /\ l \in 1..(Len(ss) - 1) /\ m \in 1..(Len(ss) - 1)
        BY <1>11, <2>1
      <3>2. ss[j] = rs[j] /\ ss[l] = rs[l] /\ ss[m] = rs[m]
        BY <1>16, <3>1
      <3>3. j \in 1..Len(rs) /\ l \in 1..Len(rs)
        BY <1>16, <3>1
      <3>4. rs[j].area = rs[l].area
        BY <3>2
      <3>5. Together(rs)
        BY DEF Divided
      <3>6. rs[m].area = rs[j].area
        BY <3>3, <3>4, <3>5 DEF Together
      <3> QED BY <3>2, <3>6
    <2>2. CASE m = l \/ m = j
      BY <2>2
    <2>3. CASE l = Len(ss) /\ m # l /\ m # j
      <3>1. /\ j \in 1..Len(rs) /\ m \in j..Len(rs) /\ m \in 1..Len(rs)
            /\ ss[j] = rs[j] /\ ss[m] = rs[m] /\ rs[j].area = t.area
        <4>1. j \in 1..(Len(ss) - 1) /\ m \in 1..(Len(ss) - 1)
          BY <1>11, <2>3
        <4>2. j \in 1..Len(rs) /\ m \in 1..Len(rs) /\ ss[j] = rs[j] /\ ss[m] = rs[m]
          BY <1>16, <4>1
        <4>3. m \in j..Len(rs)
          BY <1>11, <4>2
        <4>4. rs[j].area = t.area
          BY <1>12, <2>3, <4>2
        <4> QED BY <4>2, <4>3, <4>4
      <3>2. CASE Last(rs).area = t.area
        <4>1. Len(rs) \in 1..Len(rs) /\ rs[Len(rs)].area = rs[j].area
          BY <1>11, <3>1, <3>2 DEF Last
        <4>2. Together(rs)
          BY <1>11 DEF Divided
        <4>3. rs[m].area = rs[j].area
          BY <3>1, <4>1, <4>2 DEF Together
        <4> QED BY <3>1, <4>3
      <3>3. CASE Last(rs).area # t.area
        <4>1. IsAt(rs, rs[j].tags[1], j, 1) /\ tags[rs[j].tags[1]].area = t.area
          <5>1. PICK q \in RangeType(n) : q = rs[j]
            BY <1>5, <3>1
          <5>2. RangeOK(tags, q) /\ q.tags \in Seq(1..n)
            BY <3>1, <5>1 DEF Divided, RangeType
          <5>3. 1 \in 1..Len(q.tags)
            BY <5>2 DEF RangeOK
          <5> QED BY <3>1, <5>1, <5>2, <5>3 DEF RangeOK, Fits, IsAt
        <4>2. PICK p \in 1..(k - 1) : order[p] = rs[j].tags[1]
          BY <4>1 DEF Divided
        <4>3. k - 1 > 0 /\ p \in 1..Len(tags) /\ p < k /\ k - 1 \in p..k
          BY <4>2
        <4>4. tags[order[k - 1]].area = t.area
          <5>1. tags[order[p]].area = t.area /\ tags[order[k]].area = t.area
            BY <1>2, <1>3, <4>1, <4>2
          <5>2. PICK h : h = k - 1
            OBVIOUS
          <5>3. h \in p..k /\ k \in 1..Len(tags)
            BY <4>3, <5>2
          <5>4. \A q \in p..k : tags[order[q]].area = tags[order[p]].area
            <6>1. \A a, b \in 1..Len(tags) :
                     a < b /\ tags[order[a]].area = tags[order[b]].area =>
                        \A q \in a..b : tags[order[q]].area = tags[order[a]].area
              BY DEF InOrder
            <6>2. p < k /\ tags[order[p]].area = tags[order[k]].area
              BY <4>3, <5>1
            <6> QED BY <4>3, <6>1, <6>2
          <5>5. tags[order[h]].area = t.area
            BY <5>1, <5>3, <5>4
          <5> QED BY <5>2, <5>5
        <4> QED BY <3>3, <4>3, <4>4 DEF Divided
      <3> QED BY <3>2, <3>3
    <2> QED BY <2>1, <2>2, <2>3
  <1>15. Last(ss).area = tags[order[k]].area
    BY <1>2, <1>3, <1>12 DEF Last
  <1> QED BY <1>1, <1>16, <1>8, <1>9, <1>10, <1>13, <1>14, <1>15 DEF Divided

\* buildContiguousRanges, buildCoilRanges and buildS7ContiguousRanges put every tag into
\* exactly one range.
LEMMA RangesDivide ==
    ASSUME NEW tags, Len(tags) \in Nat, \A i \in 1..Len(tags) : ValidTag(tags[i]),
           NEW order, InOrder(tags, order)
    PROVE  Divided(tags, order, Ranges(tags, order), Len(tags))
  <1>1. PICK n \in Nat : n = Len(tags)
    OBVIOUS
  <1>2. Len(order) = n /\ order \in [1..n -> 1..n]
    BY <1>1 DEF InOrder
  <1> DEFINE F(g) == g = [k \in 0..Len(order) |->
                             IF k = 0 THEN <<>> ELSE Insert(g[k - 1], tags[order[k]], order[k])]
             rs[k \in 0..Len(order)] ==
                 IF k = 0 THEN <<>> ELSE Insert(rs[k - 1], tags[order[k]], order[k])
  <1>3. rs = CHOOSE g : F(g)
    OBVIOUS
  <1>4. Ranges(tags, order) = rs[Len(order)]
    BY DEF Ranges
  <1>5. PICK X : X = Seq(RangeType(n))
    OBVIOUS
  <1>6. PICK body : body = [a \in X \X (1..n) |-> Insert(a[1], tags[order[a[2]]], order[a[2]])]
    OBVIOUS
  <1>7. body \in [X \X (1..n) -> X]
    <2>1. ASSUME NEW a \in X, NEW k \in 1..n
          PROVE  Insert(a, tags[order[k]], order[k]) \in X
      <3>1. PICK i \in 1..n : i = order[k]
        BY <1>2
      <3>2. PICK t : t = tags[i]
        OBVIOUS
      <3>3. t.area \in AnyArea /\ t.addr \in Nat /\ End(t) \in Int
        BY <1>1, <3>2, EndOf DEF ValidTag
      <3>4. PICK ss : ss = Insert(a, t, i)
        OBVIOUS
      <3>5. Inserted(n, a, ss, t, i)
        BY <1>5, <3>1, <3>3, <3>4, InsertIn
      <3> QED BY <1>5, <3>1, <3>2, <3>4, <3>5 DEF Inserted
    <2> QED BY <1>6, <2>1
  <1>8. <<>> \in X
    BY <1>5
  <1>9. PICK f \in [0..n -> X] : Runs(f, n, <<>>, body)
    BY <1>7, <1>8, LoopRuns
  <1>10. F(f)
    <2>1. ASSUME NEW k \in 1..n PROVE f[k] = Insert(f[k - 1], tags[order[k]], order[k])
      <3>1. PICK a \in X : a = f[k - 1]
        OBVIOUS
      <3>2. f[k] = body[<<a, k>>]
        BY <1>9, <3>1 DEF Runs
      <3>3. body[<<a, k>>] = Insert(a, tags[order[k]], order[k])
        BY <1>6
      <3> QED BY <3>1, <3>2, <3>3
    <2>2. f[0] = <<>>
      BY <1>9 DEF Runs
    <2> QED BY <1>2, <2>1, <2>2
  <1>11. F(rs)
    <2> HIDE DEF rs, F
    <2> QED BY <1>3, <1>10
  <1> HIDE DEF rs
  <1>12. rs[0] = <<>> /\ \A k \in 1..n : rs[k] = Insert(rs[k - 1], tags[order[k]], order[k])
    <2>1. rs = [k \in 0..n |-> IF k = 0 THEN <<>> ELSE Insert(rs[k - 1], tags[order[k]], order[k])]
      BY <1>2, <1>11
    <2>2. PICK g : g = rs
      OBVIOUS
    <2>3. g = [k \in 0..n |-> IF k = 0 THEN <<>> ELSE Insert(g[k - 1], tags[order[k]], order[k])]
      BY <2>1, <2>2
    <2>4. g[0] = <<>> /\ \A k \in 1..n : g[k] = Insert(g[k - 1], tags[order[k]], order[k])
      BY <2>3
    <2> QED BY <2>2, <2>4
  <1>13. PICK S : S = {k \in 0..n : Divided(tags, order, rs[k], k)}
    OBVIOUS
  <1>14. 0 \in S
    <2>1. PICK none : none = <<>>
      OBVIOUS
    <2>2. none \in Seq(RangeType(n)) /\ Len(none) = 0 /\ \A i, j, m : ~IsAt(none, i, j, m)
      BY <2>1 DEF IsAt
    <2>3. Divided(tags, order, none, 0)
      BY <1>1, <2>2 DEF Divided, Unique, Together
    <2> QED BY <1>12, <1>13, <2>1, <2>3
  <1>15. ASSUME NEW k \in 1..n, k - 1 \in S PROVE k \in S
    <2>1. Divided(tags, order, rs[k - 1], k - 1)
      BY <1>13, <1>15
    <2>2. rs[k] = Insert(rs[k - 1], tags[order[k]], order[k])
      BY <1>12
    <2>3. Divided(tags, order, rs[k], k)
      BY <1>1, <2>1, <2>2, DivideStep
    <2> QED BY <1>13, <2>3
  <1>16. n \in S
    BY <1>14, <1>15, Induction
  <1> QED BY <1>1, <1>2, <1>4, <1>13, <1>16

-----------------------------------------------------------------------------
(* Answers                                                                 *)

Sequence(s) == s \in Seq(ToSet(s))

\* A function on 1..n is a sequence.
LEMMA MadeSequence ==
    ASSUME NEW n \in Nat, NEW s, s = [k \in 1..n |-> s[k]]
    PROVE  Sequence(s) /\ Len(s) = n
  <1>1. PICK X : X = ToSet(s)
    OBVIOUS
  <1>2. \A k \in 1..n : s[k] \in X
    BY <1>1 DEF ToSet
  <1>3. s \in [1..n -> X]
    BY <1>2
  <1> QED BY <1>1, <1>3 DEF Sequence

\* What is one of the points in s.
LEMMA Members ==
    ASSUME NEW s, Sequence(s)
    PROVE  Len(s) \in Nat /\ \A x : x \in ToSet(s) <=> \E k \in 1..Len(s) : s[k] = x
  <1>1. PICK X : X = ToSet(s) /\ s \in Seq(X)
    BY DEF Sequence
  <1>2. DOMAIN s = 1..Len(s) /\ Len(s) \in Nat
    BY <1>1
  <1> QED BY <1>2 DEF ToSet

Joined(s, t, u) ==
    /\ Sequence(u) /\ Len(s) \in Nat /\ Len(t) \in Nat /\ Len(u) = Len(s) + Len(t)
    /\ \A k \in 1..Len(s) : u[k] = s[k]
    /\ \A k \in 1..Len(t) : u[Len(s) + k] = t[k]
    /\ \A k \in 1..Len(u) : k \in 1..Len(s) \/ k - Len(s) \in 1..Len(t)

\* The members of two sequences put together.
LEMMA JoinedSequence ==
    ASSUME NEW s, NEW t, Sequence(s), Sequence(t), NEW u, u = s \o t
    PROVE  Joined(s, t, u)
  <1>1. PICK X : X = ToSet(s) \cup ToSet(t)
    OBVIOUS
  <1>2. s \in Seq(X) /\ t \in Seq(X)
    <2>1. PICK Y : Y = ToSet(s) /\ s \in Seq(Y)
      BY DEF Sequence
    <2>2. PICK Z : Z = ToSet(t) /\ t \in Seq(Z)
      BY DEF Sequence
    <2>3. Y \subseteq X /\ Z \subseteq X
      BY <1>1, <2>1, <2>2
    <2> QED BY <2>1, <2>2, <2>3
  <1>3. u \in Seq(X) /\ Len(u) = Len(s) + Len(t)
    BY <1>2
  <1>4. Sequence(u)
    <2>1. u \in [1..Len(u) -> X] /\ Len(u) \in Nat
      <3>1. PICK v \in Seq(X) : v = u
        BY <1>3
      <3>2. v \in [1..Len(v) -> X] /\ Len(v) \in Nat
        OBVIOUS
      <3> QED BY <3>1, <3>2
    <2>2. u = [k \in 1..Len(u) |-> u[k]]
      BY <2>1
    <2> QED BY <2>1, <2>2, MadeSequence
  <1>5. \A k \in 1..Len(s) : u[k] = s[k]
    BY <1>2
  <1>6. \A k \in 1..Len(t) : u[Len(s) + k] = t[k]
    BY <1>2
  <1> QED BY <1>2, <1>3, <1>4, <1>5, <1>6 DEF Joined

\* The points for the tags at positions is.
PointsFor(is, ps) ==
    /\ Sequence(ps) /\ Len(ps) = Len(is)
    /\ \A m \in 1..Len(is) : ps[m].tag = is[m]

\* As they should be when no request has failed, and
Fine(tags, ps) == \A m \in 1..Len(ps) : ps[m].quality = "good" \/ Nowhere(tags[ps[m].tag])

\* when they are good.
Right(p) ==
    p.quality = "good" =>
        \/ p.value = Actual(list[p.tag])
        \/ Masked(p.tag) /\ p.value = {}
        \/ Disturbed(p.tag) \/ Misread(p.tag) \/ Nowhere(list[p.tag])

\* createErrorDataPoint for each tag of a list.
LEMMA BadAnswer ==
    ASSUME NEW n \in Nat, NEW is \in Seq(1..n), NEW ps, ps = BadPoints(is)
    PROVE  PointsFor(is, ps) /\ \A m \in 1..Len(ps) : ps[m].quality = "bad"
  <1>1. PICK l \in Nat : l = Len(is)
    OBVIOUS
  <1>2. ps = [k \in 1..l |-> Bad(is[k])]
    BY <1>1 DEF BadPoints
  <1>3. ps = [k \in 1..l |-> ps[k]]
    BY <1>2
  <1>4. Sequence(ps) /\ Len(ps) = l
    BY <1>3, MadeSequence
  <1>5. \A k \in 1..l : ps[k].tag = is[k] /\ ps[k].quality = "bad"
    BY <1>2 DEF Bad
  <1> QED BY <1>1, <1>4, <1>5 DEF PointsFor

\* A range of registers or coils: the device refuses it if it wraps round.
LEMMA CountOf ==
    ASSUME NEW n \in Nat, NEW r \in RangeType(n), NEW tags, RangeOK(tags, r), r.area \in ModbusArea
    PROVE  /\ r.start \in 0..(Space - 1) /\ r.end \in 0..(Space - 1)
           /\ IF r.end < r.start THEN ~Answers(r)
              ELSE Answers(r) /\ Count(r) = r.end - r.start + 1
  <1>1. Space \in Nat \ {0} /\ MaxGap \in Nat /\ MaxRead \in Nat
    BY BatchAssumption
  <1>2. r.start \in 0..(Space - 1) /\ r.end \in 0..(Space - 1)
    <2>1. r.start \in Nat /\ r.start < Space /\ r.end \in 0..(Space - 1)
      BY DEF RangeOK, RangeType
    <2> QED BY <1>1, <2>1
  <1>3. PICK a \in 0..(Space - 1) : a = r.start
    BY <1>2
  <1>4. PICK b \in 0..(Space - 1) : b = r.end
    BY <1>2
  <1>5. Count(r) = (b - a + 1) % Space
    BY <1>3, <1>4 DEF Count
  <1>6. CASE b < a
    <2>1. a - b > MaxGap + 1
      BY <1>3, <1>4, <1>6 DEF RangeOK, Wraps
    <2>2. PICK x \in 0..(Space - 1) : x = b - a + 1 + Space
      BY <1>1, <2>1
    <2>3. b - a + 1 = x - Space
      BY <1>1, <2>2
    <2>4. Count(r) = x
      BY <1>1, <1>5, <2>3, Modulo
    <2>5. a + x > Space
      BY <1>1, <2>2
    <2>6. ~Answers(r)
      <3>1. r.start + Count(r) > Space
        BY <1>3, <2>4, <2>5
      <3> QED BY <1>1, <1>3, <2>2, <2>4, <3>1 DEF Answers
    <2> QED BY <1>2, <1>3, <1>4, <1>6, <2>6
  <1>7. CASE ~(b < a)
    <2>1. PICK x \in Int : x = b - a + 1
      OBVIOUS
    <2>2. Small(x)
      BY <1>3, <1>4, <1>7, <2>1 DEF RangeOK
    <2>3. x \in 1..(Space - 1)
      BY <1>1, <1>7, <2>1, <2>2 DEF Small
    <2>4. Count(r) = x
      BY <1>1, <1>5, <2>1, <2>3, Modulo
    <2>5. Answers(r)
      BY <1>1, <1>3, <2>1, <2>3, <2>4 DEF Answers
    <2> QED BY <1>2, <1>3, <1>4, <1>7, <2>1, <2>4, <2>5
  <1> QED BY <1>3, <1>4, <1>6, <1>7

-----------------------------------------------------------------------------
(* Coils                                                                   *)

\* Quotient and remainder.
LEMMA Division ==
    ASSUME NEW n \in Nat, NEW d \in Nat \ {0}
    PROVE  /\ n \div d \in Nat /\ n % d \in 0..(d - 1)
           /\ n = d * (n \div d) + (n % d)
  OBVIOUS

\* A coil is in a byte of the answer,
LEMMA ByteOf ==
    ASSUME NEW n \in Nat, NEW x \in Nat, x < n, NEW d \in Nat \ {0}
    PROVE  x \div d + 1 <= (n + d - 1) \div d
  <1>1. PICK q \in Nat : q = x \div d
    BY Division
  <1>2. PICK y \in 0..(d - 1) : x = d * q + y
    BY <1>1, Division
  <1>3. n + d - 1 \in Nat
    OBVIOUS
  <1>4. PICK p \in Nat : p = (n + d - 1) \div d
    BY <1>3, Division
  <1>5. PICK z \in 0..(d - 1) : n + d - 1 = d * p + z
    BY <1>3, <1>4, Division
  <1>6. ASSUME p <= q PROVE FALSE
    <2>1. d * p <= d * q
      BY <1>6
    <2>2. PICK u \in Nat : u = d * p
      OBVIOUS
    <2>3. PICK v \in Nat : v = d * q
      OBVIOUS
    <2> QED BY <1>2, <1>5, <2>1, <2>2, <2>3
  <1> QED BY <1>1, <1>4, <1>6

\* at its place.
LEMMA CoilBit ==
    ASSUME NEW a, NEW c, NEW n \in Nat, NEW x \in Nat, x < n
    PROVE  LET data == Coils(a, c, n)
           IN  /\ x \div Bits + 1 \in 1..Len(data)
               /\ data[x \div Bits + 1][(x % Bits) + 1] = Bit(a, c + x, 0)
  <1>1. Bits \in Nat \ {0}
    BY BatchAssumption
  <1>2. PICK l \in Nat : l = (n + Bits - 1) \div Bits
    BY <1>1, Division
  <1>3. PICK q \in Nat : q = x \div Bits
    BY <1>1, Division
  <1>4. PICK y \in 0..(Bits - 1) : y = x % Bits /\ x = Bits * q + y
    BY <1>1, <1>3, Division
  <1>5. q + 1 \in 1..l
    BY <1>1, <1>2, <1>3, ByteOf
  <1>6. PICK data : data = Coils(a, c, n)
    OBVIOUS
  <1>7. data = [i \in 1..l |->
                   [b \in 1..Bits |-> LET k == (i - 1) * Bits + b - 1
                                      IN  IF k < n THEN Bit(a, c + k, 0) ELSE Zero]]
    BY <1>2, <1>6 DEF Coils
  <1>8. Len(data) = l
    <2>1. data = [i \in 1..l |-> data[i]]
      BY <1>7
    <2> QED BY <2>1, MadeSequence
  <1>9. PICK j \in 1..l : j = q + 1
    BY <1>5
  <1>10. PICK b \in 1..Bits : b = y + 1
    BY <1>1
  <1>11. data[j][b] = LET k == (j - 1) * Bits + b - 1
                      IN  IF k < n THEN Bit(a, c + k, 0) ELSE Zero
    BY <1>7
  <1>12. (j - 1) * Bits + b - 1 = x
    <2>1. j - 1 = q /\ b - 1 = y
      BY <1>9, <1>10
    <2>2. q * Bits = Bits * q
      BY <1>1
    <2> QED BY <1>1, <1>4, <2>1, <2>2
  <1>13. data[j][b] = Bit(a, c + x, 0)
    BY <1>11, <1>12
  <1> QED BY <1>3, <1>4, <1>5, <1>6, <1>8, <1>9, <1>10, <1>13

\* What a range gives.
RangeAnswered(r, ps) ==
    /\ PointsFor(r.tags, ps) /\ Fine(list, ps) /\ \A m \in 1..Len(ps) : Right(ps[m])

\* A range that wraps round the space of addresses has only tags that reach beyond it.
LEMMA RefusedAnswer ==
    ASSUME NEW n \in Nat, NEW r \in RangeType(n), RangeOK(list, r), r.area \in ModbusArea,
           ~Answers(r), NEW ps, ps = RangePoints(r)
    PROVE  RangeAnswered(r, ps)
  <1>1. ps = BadPoints(r.tags)
    BY DEF RangePoints
  <1>2. r.tags \in Seq(1..n)
    BY DEF RangeType
  <1>3. PointsFor(r.tags, ps) /\ \A m \in 1..Len(ps) : ps[m].quality = "bad"
    BY <1>1, <1>2, BadAnswer
  <1>4. r.end < r.start
    BY CountOf
  <1>5. ASSUME NEW m \in 1..Len(ps) PROVE Nowhere(list[ps[m].tag]) /\ Right(ps[m])
    <2>1. m \in 1..Len(r.tags) /\ ps[m].tag = r.tags[m] /\ ps[m].quality = "bad"
      BY <1>3 DEF PointsFor
    <2>2. Beyond(list[r.tags[m]])
      BY <1>4, <2>1 DEF RangeOK, Wraps
    <2>3. Nowhere(list[ps[m].tag])
      BY <2>1, <2>2 DEF Beyond, Nowhere
    <2> QED BY <2>1, <2>3 DEF Right
  <1> QED BY <1>3, <1>5 DEF RangeAnswered, Fine

\* readCoilRange cuts the bit of each tag out of the packed answer.
LEMMA CoilAnswer ==
    ASSUME NEW n \in Nat, NEW r \in RangeType(n), RangeOK(list, r), Coil(r), Answers(r),
           \A m \in 1..Len(r.tags) : ValidTag(list[r.tags[m]]),
           NEW ps, ps = RangePoints(r)
    PROVE  RangeAnswered(r, ps)
  <1>1. r.area \in ModbusArea /\ r.area \in {"coil", "discrete"}
    BY DEF Coil, ModbusArea
  <1>2. /\ r.start \in 0..(Space - 1) /\ r.end \in 0..(Space - 1) /\ ~(r.end < r.start)
        /\ Count(r) = r.end - r.start + 1
    BY <1>1, CountOf
  <1>3. Space \in Nat \ {0} /\ Bits \in Nat \ {0}
    BY BatchAssumption
  <1>4. PICK c \in Nat : c = Count(r)
    BY <1>2, <1>3
  <1>5. PICK data : data = Coils(r.area, r.start, c)
    OBVIOUS
  <1>6. PICK l \in Nat : l = Len(r.tags)
    BY DEF RangeType
  <1>7. ps = CoilPoints(r, data)
    BY <1>4, <1>5 DEF RangePoints
  <1>8. PICK h : h = [k \in 1..l |->
            LET offset == (list[r.tags[k]].addr - r.start) % Space
                byte == offset \div Bits + 1
            IN  IF byte > Len(data) THEN Bad(r.tags[k])
                ELSE Point(r.tags[k], Truth({data[byte][(offset % Bits) + 1]}))]
    OBVIOUS
  <1>9. ps = h
    BY <1>6, <1>7, <1>8 DEF CoilPoints
  <1>10. Sequence(ps) /\ Len(ps) = l
    <2>1. h = [k \in 1..l |-> h[k]]
      BY <1>8
    <2> QED BY <1>9, <2>1, MadeSequence
  <1>11. ASSUME NEW m \in 1..l
         PROVE  /\ ps[m].tag = r.tags[m] /\ (ps[m].quality = "good" \/ Nowhere(list[ps[m].tag]))
                /\ Right(ps[m])
    <2>1. PICK t : t = list[r.tags[m]]
      OBVIOUS
    <2>2. ValidTag(t) /\ Fits(r, t) /\ t.area = r.area
      BY <1>6, <2>1 DEF RangeOK, Fits
    <2>3. PICK a \in 0..(Space - 1) : a = t.addr
      BY <1>1, <1>3, <2>2 DEF ValidTag
    <2>4. r.start <= a
      BY <2>2, <2>3 DEF Fits
    <2>5. PICK x \in 0..(Space - 1) : x = a - r.start
      BY <1>2, <1>3, <2>4
    <2>6. (a - r.start) % Space = x
      BY <1>3, <2>5, Modulo
    <2>7. ps[m] = IF x \div Bits + 1 > Len(data) THEN Bad(r.tags[m])
                  ELSE Point(r.tags[m], Truth({data[x \div Bits + 1][(x % Bits) + 1]}))
      BY <1>8, <1>9, <2>1, <2>3, <2>6
    <2>8. ps[m].tag = r.tags[m]
      BY <2>7 DEF Bad, Point
    <2>9. CASE x < c
      <3>1. x \div Bits + 1 \in 1..Len(data) /\ data[x \div Bits + 1][(x % Bits) + 1] = Bit(r.area, r.start + x, 0)
        BY <1>5, <2>9, CoilBit
      <3>2. ~(x \div Bits + 1 > Len(data))
        BY <3>1
      <3>3. r.start + x = a
        BY <1>2, <2>5
      <3>4. ps[m] = Point(r.tags[m], Truth({Bit(r.area, a, 0)}))
        BY <2>7, <3>1, <3>2, <3>3
      <3>5. Actual(t) = Truth({Bit(r.area, a, 0)})
        BY <1>1, <2>2, <2>3 DEF Actual, Coil
      <3> QED BY <2>1, <2>8, <3>4, <3>5 DEF Point, Right
    <2>10. CASE ~(x < c)
      <3>1. Beyond(t)
        <4>1. t.area \in ModbusArea /\ t.count \in Nat \ {0}
          BY <1>1, <2>2 DEF ValidTag
        <4>2. ~(a + t.count - 1 <= r.end)
          <5>1. PICK d \in Nat \ {0} : d = t.count
            BY <4>1
          <5>2. PICK e \in 0..(Space - 1) : e = r.end
            BY <1>2
          <5>3. PICK b \in 0..(Space - 1) : b = r.start
            BY <1>2
          <5>4. c = e - b + 1 /\ x = a - b
            BY <1>2, <1>4, <2>5, <5>2, <5>3
          <5>5. ~(a + d - 1 <= e)
            BY <1>3, <2>10, <5>4
          <5> QED BY <5>1, <5>2, <5>5
        <4> QED BY <2>2, <2>3, <4>1, <4>2 DEF Fits
      <3>2. Nowhere(list[ps[m].tag])
        BY <2>1, <2>8, <3>1 DEF Beyond, Nowhere
      <3> QED BY <2>8, <3>2 DEF Right
    <2> QED BY <2>9, <2>10
  <1> QED BY <1>6, <1>10, <1>11 DEF RangeAnswered, PointsFor, Fine

-----------------------------------------------------------------------------
(* Registers                                                               *)

\* reorderBytes takes each byte from the value itself.
LEMMA SourceIn ==
    ASSUME NEW c \in Nat, NEW n \in Nat, n = 2 * c, NEW order \in {"BE", "LE", "MB", "ML"}, NEW i \in 1..n
    PROVE  Source(order, n, i) \in 1..n
  <1>1. PICK k \in 0..3 : k = (i - 1) % 4
    OBVIOUS
  <1>2. CASE order = "LE"
    BY <1>2 DEF Source
  <1>3. CASE order = "MB"
    BY <1>3 DEF Source
  <1>4. CASE order = "ML"
    BY <1>1, <1>4 DEF Source
  <1>5. CASE order = "BE"
    BY <1>5 DEF Source
  <1> QED BY <1>2, <1>3, <1>4, <1>5

\* A part of a buffer.
LEMMA PartOf ==
    ASSUME NEW N \in Nat, NEW B, NEW buffer \in [1..N -> B], NEW f \in Nat, NEW g \in Nat,
           f <= g, g <= N
    PROVE  /\ SubSeq(buffer, f + 1, g) = [k \in 1..(g - f) |-> buffer[f + k]]
           /\ Len(SubSeq(buffer, f + 1, g)) = g - f
  <1>1. buffer \in Seq(B) /\ Len(buffer) = N
    OBVIOUS
  <1>2. PICK s : s = SubSeq(buffer, f + 1, g)
    OBVIOUS
  <1>3. s \in Seq(B) /\ Len(s) = g - f /\ \A k \in 1..(g - f) : s[k] = buffer[f + k]
    BY <1>1, <1>2
  <1>4. s = [k \in 1..(g - f) |-> buffer[f + k]]
    BY <1>3
  <1> QED BY <1>2, <1>3, <1>4

\* Where a tag of the range lies in the buffer.
LEMMA Place ==
    ASSUME NEW r, NEW i, ValidTag(list[i]), Fits(r, list[i]), r.area \in ModbusArea, r.start \in Nat
    PROVE  /\ From(r, i) \in Nat /\ To(r, i) \in Nat
           /\ From(r, i) = 2 * (list[i].addr - r.start)
           /\ To(r, i) = From(r, i) + 2 * list[i].count
  <1>1. PICK a \in 0..(Space - 1) : a = list[i].addr
    BY BatchAssumption DEF ValidTag, Fits
  <1>2. PICK b \in Nat : b = r.start
    OBVIOUS
  <1>3. b <= a
    BY <1>1, <1>2 DEF Fits
  <1>4. PICK x \in 0..(Space - 1) : x = a - b
    BY <1>1, <1>2, <1>3, BatchAssumption
  <1>5. From(r, i) = 2 * x
    BY <1>1, <1>2, <1>4, Modulo, BatchAssumption DEF From
  <1>6. list[i].count \in Nat
    BY DEF ValidTag, Fits
  <1> QED BY <1>1, <1>2, <1>4, <1>5, <1>6, BatchAssumption DEF To

\* parseValue reorders the bytes of the tag in the buffer, and no others.
Moved(r, i, buffer, new) ==
    /\ SubSeq(new, From(r, i) + 1, To(r, i)) =
           reorderBytes(SubSeq(buffer, From(r, i) + 1, To(r, i)), list[i].order)
    /\ \A b \in 1..Len(buffer) :
          list[i].order = "BE" \/ b \notin (From(r, i) + 1)..To(r, i) => new[b] = buffer[b]

\* parseValue reorders the bytes of its tag and no others.
LEMMA ReorderedMoves ==
    ASSUME NEW r, NEW i, ValidTag(list[i]), Fits(r, list[i]), r.area \in ModbusArea,
           r.start \in Nat,
           NEW N \in Nat, NEW B, NEW buffer \in [1..N -> B], To(r, i) <= N,
           NEW new, new = Reordered(buffer, r, i)
    PROVE  new \in [1..N -> B] /\ Moved(r, i, buffer, new)
  <1>1. PICK f \in Nat : f = From(r, i)
    BY Place
  <1>2. PICK g \in Nat : g = To(r, i)
    BY Place
  <1>3. PICK c \in Nat : c = list[i].count
    BY DEF ValidTag, Fits
  <1>4. g = f + 2 * c /\ g <= N
    BY <1>1, <1>2, <1>3, Place
  <1>5. PICK order \in {"BE", "LE", "MB", "ML"} : order = list[i].order
    BY DEF ValidTag, Fits
  <1>6. PICK s : s = SubSeq(buffer, f + 1, g)
    OBVIOUS
  <1>7. s = [k \in 1..(g - f) |-> buffer[f + k]] /\ Len(s) = g - f
    BY <1>4, <1>6, PartOf
  <1>8. PICK n \in Nat : n = 2 * c
    OBVIOUS
  <1>9. s = [k \in 1..n |-> buffer[f + k]] /\ Len(s) = n
    BY <1>4, <1>7, <1>8
  <1>10. PICK ordered : ordered = reorderBytes(s, order)
    OBVIOUS
  <1>11. ordered = [k \in 1..n |-> s[Source(order, n, k)]]
    BY <1>9, <1>10 DEF reorderBytes
  <1>12. \A k \in 1..n : Source(order, n, k) \in 1..n
    BY <1>8, SourceIn
  <1>13. \A k \in 1..n : s[k] \in B /\ s[k] = buffer[f + k]
    BY <1>4, <1>8, <1>9
  <1>14. \A k \in 1..n : ordered[k] \in B
    BY <1>11, <1>12, <1>13
  <1>15. new = [b \in 1..N |-> IF b \in (f + 1)..g THEN ordered[b - f] ELSE buffer[b]]
    BY <1>1, <1>2, <1>5, <1>6, <1>10 DEF Reordered
  <1>16. new \in [1..N -> B]
    BY <1>4, <1>8, <1>14, <1>15
  <1>17. SubSeq(new, f + 1, g) = ordered
    <2>1. SubSeq(new, f + 1, g) = [k \in 1..n |-> new[f + k]]
      BY <1>4, <1>8, <1>16, PartOf
    <2>2. \A k \in 1..n : new[f + k] = ordered[k]
      BY <1>4, <1>8, <1>15
    <2>3. ordered = [k \in 1..n |-> ordered[k]]
      BY <1>11
    <2> QED BY <2>1, <2>2, <2>3
  <1>18. ASSUME NEW b \in 1..N, order = "BE" \/ b \notin (f + 1)..g PROVE new[b] = buffer[b]
    <2>1. CASE b \notin (f + 1)..g
      BY <1>15, <2>1
    <2>2. CASE b \in (f + 1)..g /\ order = "BE"
      <3>1. PICK k \in 1..n : k = b - f
        BY <1>4, <1>8, <2>2
      <3>2. Source(order, n, k) = k
        BY <2>2 DEF Source
      <3>3. new[b] = ordered[k] /\ ordered[k] = s[k]
        BY <1>11, <1>15, <2>2, <3>1, <3>2
      <3>4. f + k = b
        BY <3>1
      <3> QED BY <1>13, <3>3, <3>4
    <2> QED BY <1>18, <2>1, <2>2
  <1> QED BY <1>1, <1>2, <1>5, <1>6, <1>10, <1>16, <1>17, <1>18 DEF Moved

\* The buffer after the first k tags of the range.
Buffers(r, data, buffer) ==
    /\ buffer[0] = data
    /\ \A k \in 1..Len(r.tags) :
          buffer[k] = IF To(r, r.tags[k]) > Len(data) THEN buffer[k - 1]
                      ELSE Reordered(buffer[k - 1], r, r.tags[k])

\* What comes of the tags of the range, N bytes of B.
Parsed(r, data, N, B) ==
    \E buffer \in [0..Len(r.tags) -> [1..N -> B]] :
        /\ Buffers(r, data, buffer)
        /\ Registers(r, data) =
              [k \in 1..Len(r.tags) |->
                  LET i == r.tags[k]
                  IN  IF To(r, i) > Len(data) THEN Bad(i)
                      ELSE Point(i, ModbusValue(list[i],
                                     SubSeq(buffer[k], From(r, i) + 1, To(r, i))))]

\* The states of the buffer while readRegisterRange goes through the tags.
LEMMA BuffersExist ==
    ASSUME NEW n \in Nat, NEW r \in RangeType(n), RangeOK(list, r), r.area \in ModbusArea,
           \A m \in 1..Len(r.tags) : ValidTag(list[r.tags[m]]),
           NEW N \in Nat, NEW B, NEW data \in [1..N -> B]
    PROVE  Parsed(r, data, N, B)
  <1> DEFINE F(g) == g = [k \in 0..Len(r.tags) |->
                             IF k = 0 THEN data
                             ELSE IF To(r, r.tags[k]) > Len(data) THEN g[k - 1]
                             ELSE Reordered(g[k - 1], r, r.tags[k])]
             buffer[k \in 0..Len(r.tags)] ==
                 IF k = 0 THEN data
                 ELSE IF To(r, r.tags[k]) > Len(data) THEN buffer[k - 1]
                 ELSE Reordered(buffer[k - 1], r, r.tags[k])
  <1>1. buffer = CHOOSE g : F(g)
    OBVIOUS
  <1>2. Registers(r, data) =
            [k \in 1..Len(r.tags) |->
                LET i == r.tags[k]
                IN  IF To(r, i) > Len(data) THEN Bad(i)
                    ELSE Point(i, ModbusValue(list[i],
                                   SubSeq(buffer[k], From(r, i) + 1, To(r, i))))]
    BY DEF Registers
  <1>3. PICK l \in Nat : l = Len(r.tags)
    BY DEF RangeType
  <1>4. PICK X : X = [1..N -> B]
    OBVIOUS
  <1>5. PICK body : body = [a \in X \X (1..l) |->
                               IF To(r, r.tags[a[2]]) > N THEN a[1]
                               ELSE Reordered(a[1], r, r.tags[a[2]])]
    OBVIOUS
  <1>6. body \in [X \X (1..l) -> X]
    <2>1. ASSUME NEW a \in X, NEW k \in 1..l, ~(To(r, r.tags[k]) > N)
          PROVE  Reordered(a, r, r.tags[k]) \in X
      <3>1. PICK i : i = r.tags[k]
        OBVIOUS
      <3>2. ValidTag(list[i]) /\ Fits(r, list[i]) /\ r.start \in Nat
        BY <1>3, <3>1 DEF RangeOK, RangeType
      <3>3. To(r, i) \in Nat
        BY <3>2, Place
      <3>4. To(r, i) <= N
        BY <2>1, <3>1, <3>3
      <3>5. PICK new : new = Reordered(a, r, i)
        OBVIOUS
      <3>6. a \in [1..N -> B]
        BY <1>4
      <3>7. new \in [1..N -> B]
        BY <3>2, <3>4, <3>5, <3>6, ReorderedMoves
      <3> QED BY <1>4, <3>1, <3>5, <3>7
    <2> QED BY <1>5, <2>1
  <1>7. data \in X
    BY <1>4
  <1>8. PICK f \in [0..l -> X] : Runs(f, l, data, body)
    BY <1>6, <1>7, LoopRuns
  <1>9. Len(data) = N
    OBVIOUS
  <1>10. F(f)
    <2>1. ASSUME NEW k \in 1..l
          PROVE  f[k] = IF To(r, r.tags[k]) > N THEN f[k - 1] ELSE Reordered(f[k - 1], r, r.tags[k])
      <3>1. PICK a \in X : a = f[k - 1]
        OBVIOUS
      <3>2. f[k] = body[<<a, k>>]
        BY <1>8, <3>1 DEF Runs
      <3>3. body[<<a, k>>] = IF To(r, r.tags[k]) > N THEN a ELSE Reordered(a, r, r.tags[k])
        BY <1>5
      <3> QED BY <3>1, <3>2, <3>3
    <2>2. f[0] = data
      BY <1>8 DEF Runs
    <2> QED BY <1>3, <1>9, <2>1, <2>2
  <1>11. F(buffer)
    <2> HIDE DEF buffer, F
    <2> QED BY <1>1, <1>10
  <1> HIDE DEF buffer
  <1>12. PICK h : h = buffer
    OBVIOUS
  <1>13. /\ h[0] = data
         /\ \A k \in 1..l : h[k] = IF To(r, r.tags[k]) > N THEN h[k - 1]
                                   ELSE Reordered(h[k - 1], r, r.tags[k])
         /\ h = [k \in 0..l |-> h[k]]
    <2>1. F(h)
      <3> HIDE DEF F
      <3> QED BY <1>11, <1>12
    <2> QED BY <1>3, <1>9, <2>1
  <1>14. Buffers(r, data, h)
    BY <1>3, <1>9, <1>13 DEF Buffers
  <1>15. PICK S : S = {k \in 0..l : h[k] \in X}
    OBVIOUS
  <1>16. 0 \in S
    BY <1>7, <1>13, <1>15
  <1>17. ASSUME NEW k \in 1..l, k - 1 \in S PROVE k \in S
    <2>1. PICK a \in X : a = h[k - 1]
      BY <1>15, <1>17
    <2>2. body[<<a, k>>] \in X
      BY <1>6
    <2>3. body[<<a, k>>] = IF To(r, r.tags[k]) > N THEN a ELSE Reordered(a, r, r.tags[k])
      BY <1>5
    <2>4. h[k] = body[<<a, k>>]
      BY <1>13, <2>1, <2>3
    <2> QED BY <1>15, <2>2, <2>4
  <1>18. 0..l \subseteq S
    BY <1>16, <1>17, Induction
  <1>19. h \in [0..l -> X]
    BY <1>13, <1>15, <1>18
  <1> QED BY <1>2, <1>3, <1>4, <1>12, <1>14, <1>19 DEF Parsed

\* The bytes of tag i are the same in two buffers.
Kept(r, i, N, buffer, data) ==
    \A b \in (From(r, i) + 1)..To(r, i) : b \in 1..N => buffer[b] = data[b]

\* A tag finds its bytes where the device put them, unless it is disturbed.
LEMMA Untouched ==
    ASSUME NEW n, n = Len(list), n \in Nat,
           NEW r \in RangeType(n), RangeOK(list, r), r.area \in {"holding", "input"},
           \A m \in 1..Len(r.tags) : ValidTag(list[r.tags[m]]),
           NEW N \in Nat, NEW B, NEW data \in [1..N -> B],
           NEW buffer \in [0..Len(r.tags) -> [1..N -> B]], Buffers(r, data, buffer),
           NEW m \in 1..Len(r.tags), ~Disturbed(r.tags[m])
    PROVE  Kept(r, r.tags[m], N, buffer[m - 1], data)
  <1>1. PICK l \in Nat : l = Len(r.tags)
    BY DEF RangeType
  <1>2. PICK i \in 1..n : i = r.tags[m]
    BY <1>1 DEF RangeType
  <1>3. PICK P : P = (From(r, i) + 1)..To(r, i)
    OBVIOUS
  <1>4. r.area \in ModbusArea /\ r.start \in Nat /\ ValidTag(list[i]) /\ Fits(r, list[i])
        /\ list[i].area = r.area
    BY <1>2 DEF ModbusArea, RangeType, RangeOK, Fits
  <1>5. PICK S : S = {k \in 0..(m - 1) : \A b \in P : b \in 1..N => buffer[k][b] = data[b]}
    OBVIOUS
  <1>6. Len(data) = N
    OBVIOUS
  <1>7. 0 \in S
    <2>1. buffer[0] = data
      BY <1>1 DEF Buffers
    <2> QED BY <1>5, <2>1
  <1>8. ASSUME NEW k \in 1..(m - 1), k - 1 \in S PROVE k \in S
    <2>1. k \in 1..l /\ k < m /\ m \in 1..l /\ k \in 1..Len(r.tags)
      BY <1>1
    <2>2. PICK j \in 1..n : j = r.tags[k]
      BY <2>1 DEF RangeType
    <2>3. PICK u \in [1..N -> B] : u = buffer[k - 1]
      <3>1. k - 1 \in 0..Len(r.tags)
        BY <1>1, <2>1
      <3> QED BY <3>1
    <2>4. \A b \in P : b \in 1..N => u[b] = data[b]
      BY <1>5, <1>8, <2>3
    <2>5. ValidTag(list[j]) /\ Fits(r, list[j]) /\ list[j].area = r.area /\ Before(list, j, i)
      BY <1>2, <2>1, <2>2 DEF RangeOK, Fits
    <2>6. buffer[k] = IF To(r, j) > N THEN u ELSE Reordered(u, r, j)
      <3>1. buffer[k] = IF To(r, r.tags[k]) > Len(data) THEN buffer[k - 1]
                        ELSE Reordered(buffer[k - 1], r, r.tags[k])
        BY <2>1 DEF Buffers
      <3> QED BY <1>6, <2>2, <2>3, <3>1
    <2>7. CASE To(r, j) > N
      BY <1>5, <2>1, <2>4, <2>6, <2>7
    <2>8. CASE ~(To(r, j) > N)
      <3>1. PICK new : new = Reordered(u, r, j)
        OBVIOUS
      <3>2. To(r, j) <= N
        BY <1>4, <2>5, <2>8, Place
      <3>3. Moved(r, j, u, new)
        BY <1>4, <2>5, <3>1, <3>2, ReorderedMoves
      <3>4. ASSUME NEW b \in P, b \in 1..N PROVE new[b] = data[b]
        <4>1. list[j].order = "BE" \/ b \notin (From(r, j) + 1)..To(r, j)
          <5> SUFFICES ASSUME list[j].order # "BE", b \in (From(r, j) + 1)..To(r, j) PROVE FALSE
            OBVIOUS
          <5>1. PICK x \in Nat : x = list[i].addr
            BY <1>4 DEF ValidTag
          <5>2. PICK y \in Nat : y = list[j].addr
            BY <2>5 DEF ValidTag
          <5>3. PICK c \in Nat : c = list[j].count
            BY <1>4, <2>5 DEF ValidTag
          <5>4. PICK s \in Nat : s = r.start
            BY <1>4
          <5>5. From(r, i) = 2 * (x - s)
            BY <1>4, <5>1, <5>4, Place
          <5>6. To(r, j) = 2 * (y - s) + 2 * c
            BY <1>4, <2>5, <5>2, <5>3, <5>4, Place
          <5>7. From(r, i) + 1 <= b /\ b <= To(r, j)
            BY <1>3, <1>4, <2>5, <3>4, Place
          <5>8. x < y + c
            BY <5>5, <5>6, <5>7
          <5>9. y < x \/ (y = x /\ j < i)
            BY <1>4, <2>5, <5>1, <5>2 DEF Before
          <5>10. Disturbed(i)
            BY <1>4, <2>5, <5>1, <5>2, <5>3, <5>8, <5>9 DEF Disturbed
          <5> QED BY <1>2, <5>10
        <4>2. Len(u) = N
          OBVIOUS
        <4>3. new[b] = u[b]
          BY <3>3, <3>4, <4>1, <4>2 DEF Moved
        <4> QED BY <2>4, <3>4, <4>3
      <3> QED BY <1>5, <2>1, <2>6, <2>8, <3>1, <3>4
    <2> QED BY <2>7, <2>8
  <1>9. m - 1 \in S
    <2>1. PICK e \in Nat : e = m - 1
      BY <1>1
    <2>2. 0..e \subseteq S
      BY <1>7, <1>8, <2>1, Induction
    <2> QED BY <2>1, <2>2
  <1> QED BY <1>2, <1>3, <1>5, <1>9 DEF Kept

\* The bytes of an answer, and of its parts.
AnswerOf(a, p, n, data) ==
    /\ data \in [1..n -> ToSet(data)] /\ Len(data) = n
    /\ \A f, g \in Nat : f <= g /\ g <= n =>
          SubSeq(data, f + 1, g) = Bytes(a, p + f, g - f)

\* A part of an answer is what the device holds there.
LEMMA BytesFrom ==
    ASSUME NEW a, NEW p \in Nat, NEW n \in Nat, NEW data, data = Bytes(a, p, n)
    PROVE  AnswerOf(a, p, n, data)
  <1>1. data = [i \in 1..n |-> data[i]]
    BY DEF Bytes
  <1>2. Len(data) = n /\ Sequence(data)
    BY <1>1, MadeSequence
  <1>3. PICK B : B = ToSet(data) /\ data \in Seq(B)
    BY <1>2 DEF Sequence
  <1>4. data \in [1..n -> B]
    BY <1>1, <1>2, <1>3
  <1>5. ASSUME NEW f \in Nat, NEW g \in Nat, f <= g, g <= n
        PROVE  SubSeq(data, f + 1, g) = Bytes(a, p + f, g - f)
    <2>1. PICK s : s = SubSeq(data, f + 1, g)
      OBVIOUS
    <2>2. s = [k \in 1..(g - f) |-> data[f + k]]
      BY <1>4, <1>5, <2>1, PartOf
    <2>3. ASSUME NEW k \in 1..(g - f)
          PROVE  data[f + k] = [b \in 1..Bits |-> Bit(a, p + f + k - 1, b - 1)]
      <3>1. PICK i \in 1..n : i = f + k
        BY <1>5
      <3>2. data[i] = [b \in 1..Bits |-> Bit(a, p + i - 1, b - 1)]
        BY DEF Bytes
      <3>3. p + i - 1 = p + f + k - 1
        BY <3>1
      <3> QED BY <3>1, <3>2, <3>3
    <2>4. s = [k \in 1..(g - f) |-> [b \in 1..Bits |-> Bit(a, p + f + k - 1, b - 1)]]
      BY <2>2, <2>3
    <2> QED BY <2>1, <2>4 DEF Bytes
  <1> QED BY <1>2, <1>3, <1>4, <1>5 DEF AnswerOf

\* readRegisterRange gives each tag what the device holds for it, unless parseValue has
\* moved its bytes for another tag.
LEMMA RegisterAnswer ==
    ASSUME NEW n, n = Len(list), n \in Nat,
           NEW r \in RangeType(n), RangeOK(list, r), r.area \in ModbusArea, ~Coil(r), Answers(r),
           \A m \in 1..Len(r.tags) : ValidTag(list[r.tags[m]]),
           NEW ps, ps = RangePoints(r)
    PROVE  RangeAnswered(r, ps)
  <1>1. r.area \in {"holding", "input"}
    BY DEF ModbusArea, Coil
  <1>2. /\ r.start \in 0..(Space - 1) /\ r.end \in 0..(Space - 1) /\ ~(r.end < r.start)
        /\ Count(r) = r.end - r.start + 1
    BY CountOf
  <1>3. Space \in Nat \ {0}
    BY BatchAssumption
  <1>4. PICK c \in Nat : c = Count(r)
    BY <1>2, <1>3
  <1>5. PICK start \in Nat : start = r.start
    BY <1>2, <1>3
  <1>6. PICK N \in Nat : N = 2 * c
    OBVIOUS
  <1>7. PICK data : data = Bytes(r.area, 2 * start, N)
    OBVIOUS
  <1>8. PICK p \in Nat : p = 2 * start
    OBVIOUS
  <1>9. PICK B : B = ToSet(data)
    OBVIOUS
  <1>18. AnswerOf(r.area, p, N, data)
    <2>1. data = Bytes(r.area, p, N)
      BY <1>7, <1>8
    <2> QED BY <2>1, BytesFrom
  <1>10. data \in [1..N -> B] /\ Len(data) = N
    BY <1>9, <1>18 DEF AnswerOf
  <1>17. \A f, g \in Nat : f <= g /\ g <= N =>
            SubSeq(data, f + 1, g) = Bytes(r.area, p + f, g - f)
    BY <1>18 DEF AnswerOf
  <1>11. ps = Registers(r, data)
    BY <1>4, <1>5, <1>6, <1>7 DEF RangePoints
  <1>12. PICK l \in Nat : l = Len(r.tags)
    BY DEF RangeType
  <1>19. Parsed(r, data, N, B)
    BY <1>10, BuffersExist
  <1>13. PICK buffer \in [0..Len(r.tags) -> [1..N -> B]] :
              /\ Buffers(r, data, buffer)
              /\ Registers(r, data) =
                    [k \in 1..Len(r.tags) |->
                        LET i == r.tags[k]
                        IN  IF To(r, i) > Len(data) THEN Bad(i)
                            ELSE Point(i, ModbusValue(list[i],
                                           SubSeq(buffer[k], From(r, i) + 1, To(r, i))))]
    BY <1>19 DEF Parsed
  <1>14. ps = [k \in 1..l |->
                  LET i == r.tags[k]
                  IN  IF To(r, i) > N THEN Bad(i)
                      ELSE Point(i, ModbusValue(list[i], SubSeq(buffer[k], From(r, i) + 1, To(r, i))))]
    BY <1>10, <1>11, <1>12, <1>13
  <1>15. Sequence(ps) /\ Len(ps) = l
    <2>1. ps = [k \in 1..l |-> ps[k]]
      BY <1>14
    <2> QED BY <2>1, MadeSequence
  <1>16. ASSUME NEW m \in 1..l
         PROVE  /\ ps[m].tag = r.tags[m] /\ (ps[m].quality = "good" \/ Nowhere(list[ps[m].tag]))
                /\ Right(ps[m])
    <2>1. PICK i \in 1..n : i = r.tags[m]
      BY <1>12 DEF RangeType
    <2>2. PICK t : t = list[i]
      OBVIOUS
    <2>3. m \in 1..Len(r.tags)
      BY <1>12
    <2>4. ValidTag(t) /\ Fits(r, t) /\ t.area = r.area
      BY <2>1, <2>2, <2>3 DEF RangeOK, Fits
    <2>5. PICK a \in Nat : a = t.addr
      BY <2>4 DEF ValidTag
    <2>6. PICK k \in Nat \ {0} : k = t.count
      BY <2>4 DEF ValidTag
    <2>7. start <= a
      BY <1>5, <2>4, <2>5 DEF Fits
    <2>8. PICK f \in Nat : f = 2 * (a - start)
      BY <2>7
    <2>9. PICK g \in Nat : g = f + 2 * k
      OBVIOUS
    <2>10. From(r, i) = f /\ To(r, i) = g
      BY <1>5, <2>2, <2>4, <2>5, <2>6, <2>8, <2>9, Place
    <2>11. ps[m] = IF g > N THEN Bad(i) ELSE Point(i, ModbusValue(t, SubSeq(buffer[m], f + 1, g)))
      BY <1>14, <2>1, <2>2, <2>10
    <2>12. ps[m].tag = i
      BY <2>11 DEF Bad, Point
    <2>13. CASE g > N
      <3>1. Beyond(t)
        <4>1. ~(a + k - 1 <= r.end)
          <5>1. PICK e \in Nat : e = r.end
            BY <1>2, <1>3
          <5>2. c = e - start + 1
            BY <1>2, <1>4, <1>5, <5>1
          <5>3. f + 2 * k > 2 * (e - start + 1)
            BY <1>6, <2>9, <2>13, <5>2
          <5>4. ~(a + k - 1 <= e)
            BY <2>8, <5>3
          <5> QED BY <5>1, <5>4
        <4> QED BY <2>4, <2>5, <2>6, <4>1 DEF Fits
      <3>2. Nowhere(t)
        BY <3>1 DEF Beyond, Nowhere
      <3> QED BY <2>1, <2>2, <2>12, <3>2 DEF Right
    <2>14. CASE ~(g > N)
      <3>1. f <= g /\ g <= N
        BY <2>9, <2>14
      <3>2. ps[m].quality = "good" /\ ps[m].value = ModbusValue(t, SubSeq(buffer[m], f + 1, g))
        BY <2>11, <2>14 DEF Point
      <3>3. ASSUME ~Disturbed(i)
            PROVE  ModbusValue(t, SubSeq(buffer[m], f + 1, g)) = Actual(t)
        <4>1. PICK u \in [1..N -> B] : u = buffer[m - 1]
          <5>1. m - 1 \in 0..Len(r.tags)
            BY <1>12
          <5> QED BY <5>1
        <4>2. \A b \in (f + 1)..g : b \in 1..N => u[b] = data[b]
          <5>1. Buffers(r, data, buffer)
            BY <1>13
          <5>2. ~Disturbed(r.tags[m])
            BY <2>1, <3>3
          <5>3. Kept(r, r.tags[m], N, buffer[m - 1], data)
            BY <1>1, <1>10, <2>3, <5>1, <5>2, Untouched
          <5> QED BY <2>1, <2>10, <4>1, <5>3 DEF Kept
        <4>3. SubSeq(u, f + 1, g) = [x \in 1..(g - f) |-> u[f + x]]
          BY <3>1, PartOf
        <4>4. SubSeq(data, f + 1, g) = [x \in 1..(g - f) |-> data[f + x]]
          BY <1>10, <3>1, PartOf
        <4>5. \A x \in 1..(g - f) : u[f + x] = data[f + x]
          BY <3>1, <4>2
        <4>6. SubSeq(u, f + 1, g) = Bytes(r.area, 2 * start + f, g - f)
          BY <1>8, <1>17, <3>1, <4>3, <4>4, <4>5
        <4>7. 2 * start + f = 2 * a /\ g - f = 2 * k
          BY <2>8, <2>9
        <4>8. PICK new : new = Reordered(u, r, i)
          OBVIOUS
        <4>9. buffer[m] = new
          <5>1. buffer[m] = IF To(r, r.tags[m]) > Len(data) THEN buffer[m - 1]
                            ELSE Reordered(buffer[m - 1], r, r.tags[m])
            BY <1>13, <2>3 DEF Buffers
          <5> QED BY <1>10, <2>1, <2>10, <2>14, <4>1, <4>8, <5>1
        <4>10. Moved(r, i, u, new)
          BY <1>5, <2>2, <2>4, <2>10, <3>1, <4>8, ReorderedMoves
        <4>11. SubSeq(buffer[m], f + 1, g) = reorderBytes(Bytes(r.area, 2 * a, 2 * k), t.order)
          BY <2>2, <2>10, <4>6, <4>7, <4>9, <4>10 DEF Moved
        <4>12. Actual(t) = ModbusValue(t, reorderBytes(Bytes(t.area, 2 * t.addr, 2 * t.count), t.order))
          BY <2>4 DEF Actual, Coil
        <4> QED BY <2>4, <2>5, <2>6, <4>11, <4>12
      <3>4. Right(ps[m])
        BY <2>2, <2>12, <3>2, <3>3 DEF Right
      <3> QED BY <2>1, <2>12, <3>2, <3>4
    <2> QED BY <2>13, <2>14
  <1> QED BY <1>12, <1>15, <1>16 DEF RangeAnswered, PointsFor, Fine

-----------------------------------------------------------------------------
(* Blocks of bytes                                                         *)

\* readContiguousRanges cuts the bytes of each tag out of its item.
LEMMA ItemAnswer ==
    ASSUME NEW n \in Nat, NEW r \in RangeType(n), RangeOK(list, r), r.area \notin ModbusArea,
           \A m \in 1..Len(r.tags) : ValidTag(list[r.tags[m]]),
           NEW ps, ps = S7RangePoints(r)
    PROVE  RangeAnswered(r, ps)
  <1>1. PICK l \in Nat : l = Len(r.tags)
    BY DEF RangeType
  <1>2. PICK start \in Nat : start = r.start
    BY DEF RangeType
  <1>3. PICK end \in Int : end = r.end
    BY DEF RangeType
  <1>4. ASSUME NEW m \in 1..l
        PROVE  /\ ValidTag(list[r.tags[m]]) /\ Fits(r, list[r.tags[m]])
               /\ list[r.tags[m]].area = r.area
               /\ list[r.tags[m]].addr \in Nat /\ list[r.tags[m]].size \in Nat \ {0}
               /\ start <= list[r.tags[m]].addr
               /\ list[r.tags[m]].addr + list[r.tags[m]].size - 1 <= end
    <2>1. PICK t : t = list[r.tags[m]]
      OBVIOUS
    <2>2. m \in 1..Len(r.tags)
      BY <1>1
    <2>3. ValidTag(t) /\ Fits(r, t) /\ t.area = r.area
      BY <2>1, <2>2 DEF RangeOK, Fits
    <2>4. t.addr \in Nat /\ t.size \in Nat \ {0}
      BY <2>3 DEF ValidTag
    <2> QED BY <1>2, <1>3, <2>1, <2>3, <2>4 DEF Fits
  <1>5. PICK N \in Int : N = end - start + 1
    OBVIOUS
  <1>6. N \in Nat
    <2>1. 1 \in 1..l
      <3>1. r.tags # <<>>
        BY DEF RangeOK
      <3>2. r.tags \in Seq(1..n)
        BY DEF RangeType
      <3> QED BY <1>1, <3>1, <3>2
    <2>2. PICK a \in Nat : a = list[r.tags[1]].addr
      BY <1>4, <2>1
    <2>3. PICK s \in Nat \ {0} : s = list[r.tags[1]].size
      BY <1>4, <2>1
    <2>4. start <= a /\ a + s - 1 <= end
      BY <1>4, <2>1, <2>2, <2>3
    <2> QED BY <1>5, <2>4
  <1>7. PICK data : data = Bytes(r.area, start, N)
    OBVIOUS
  <1>8. AnswerOf(r.area, start, N, data)
    BY <1>6, <1>7, BytesFrom
  <1>9. ps = ItemPoints(r, data)
    BY <1>2, <1>3, <1>5, <1>7 DEF S7RangePoints
  <1>10. ps = [k \in 1..l |->
                  LET t == list[r.tags[k]]
                      from == t.addr - start
                  IN  IF from + t.size > N THEN Bad(r.tags[k])
                      ELSE Point(r.tags[k], S7Value(t, SubSeq(data, from + 1, from + t.size)))]
    <2>1. Len(data) = N
      BY <1>8 DEF AnswerOf
    <2> QED BY <1>1, <1>2, <1>9, <2>1 DEF ItemPoints
  <1>11. Sequence(ps) /\ Len(ps) = l
    <2>1. ps = [k \in 1..l |-> ps[k]]
      BY <1>10
    <2> QED BY <2>1, MadeSequence
  <1>12. ASSUME NEW m \in 1..l
         PROVE  ps[m].tag = r.tags[m] /\ ps[m].quality = "good" /\ Right(ps[m])
    <2>1. PICK t : t = list[r.tags[m]]
      OBVIOUS
    <2>2. PICK a \in Nat : a = t.addr
      BY <1>4, <2>1
    <2>3. PICK s \in Nat \ {0} : s = t.size
      BY <1>4, <2>1
    <2>4. t.area = r.area /\ start <= a /\ a + s - 1 <= end
      BY <1>4, <2>1, <2>2, <2>3
    <2>5. PICK f \in Nat : f = a - start
      BY <2>4
    <2>6. PICK g \in Nat : g = f + s
      OBVIOUS
    <2>7. f <= g /\ g <= N /\ start + f = a /\ g - f = s
      BY <1>5, <2>4, <2>5, <2>6
    <2>8. ps[m] = IF g > N THEN Bad(r.tags[m])
                  ELSE Point(r.tags[m], S7Value(t, SubSeq(data, f + 1, g)))
      BY <1>10, <2>1, <2>2, <2>3, <2>5, <2>6
    <2>9. SubSeq(data, f + 1, g) = Bytes(r.area, a, s)
      <3>1. SubSeq(data, f + 1, g) = Bytes(r.area, start + f, g - f)
        BY <1>8, <2>7 DEF AnswerOf
      <3> QED BY <2>7, <3>1
    <2>10. ps[m] = Point(r.tags[m], S7Value(t, Bytes(r.area, a, s)))
      <3>1. ~(g > N)
        BY <2>7
      <3> QED BY <2>8, <2>9, <3>1
    <2>11. Actual(t) = S7Value(t, Bytes(r.area, a, s))
      BY <2>2, <2>3, <2>4 DEF Actual, Coil, ModbusArea
    <2> QED BY <2>1, <2>10, <2>11 DEF Point, Right
  <1> QED BY <1>1, <1>11, <1>12 DEF RangeAnswered, PointsFor, Fine

\* The bit of a boolean of S7, and the byte it is read from.
LEMMA BooleanItem ==
    ASSUME NEW t, t.addr \in Nat, t.bool, t.size = 1, t.bit \in 0..(Bits - 1)
    PROVE  \/ S7Value(t, ItemBytes(t)) = S7Value(t, Bytes(t.area, t.addr, t.size))
           \/ t.bit # 0 /\ S7Value(t, ItemBytes(t)) = {}
  <1>1. Bits \in Nat \ {0}
    BY BatchAssumption
  <1>2. PICK x : x = Bit(t.area, t.addr, t.bit)
    OBVIOUS
  <1>3. PICK byte : byte = [False EXCEPT ![1] = x]
    OBVIOUS
  <1>4. ItemBytes(t) = <<byte>>
    BY <1>2, <1>3 DEF ItemBytes
  <1>5. S7Value(t, ItemBytes(t)) = Truth({byte[t.bit + 1]})
    BY <1>4 DEF S7Value
  <1>6. CASE t.bit = 0
    <2>1. byte[1] = x
      BY <1>1, <1>3 DEF False
    <2>2. Bytes(t.area, t.addr, t.size)[1][1] = Bit(t.area, t.addr, 0)
      <3>1. 1 \in 1..t.size /\ 1 \in 1..Bits
        BY <1>1
      <3>2. Bytes(t.area, t.addr, t.size)[1][1] = Bit(t.area, t.addr + 1 - 1, 1 - 1)
        BY <3>1 DEF Bytes
      <3>3. t.addr + 1 - 1 = t.addr
        OBVIOUS
      <3> QED BY <3>2, <3>3
    <2>3. S7Value(t, Bytes(t.area, t.addr, t.size)) = Truth({Bytes(t.area, t.addr, t.size)[1][t.bit + 1]})
      BY DEF S7Value
    <2> QED BY <1>2, <1>5, <1>6, <2>1, <2>2, <2>3
  <1>7. CASE t.bit # 0
    <2>1. t.bit + 1 \in 1..Bits /\ t.bit + 1 # 1
      BY <1>1, <1>7
    <2>2. byte[t.bit + 1] = Zero
      BY <1>3, <2>1 DEF False
    <2> QED BY <1>5, <1>7, <2>2 DEF Truth
  <1> QED BY <1>6, <1>7

\* readTagBatch and ReadTag read the bytes of the one tag.
LEMMA TagAnswer ==
    ASSUME NEW i, list[i].area \notin ModbusArea, list[i].addr \in Nat,
           list[i].bool => list[i].size = 1 /\ list[i].bit \in 0..(Bits - 1)
    PROVE  /\ TagPoint(i).tag = i /\ TagPoint(i).quality = "good"
           /\ mode = "fallback" => Right(TagPoint(i))
           /\ SinglePoint(i).tag = i /\ SinglePoint(i).quality = "good"
           /\ mode = "singles" => Right(SinglePoint(i))
  <1>1. PICK t : t = list[i]
    OBVIOUS
  <1>2. Actual(t) = S7Value(t, Bytes(t.area, t.addr, t.size))
    BY <1>1 DEF Actual, Coil, ModbusArea
  <1>3. TagPoint(i).tag = i /\ TagPoint(i).quality = "good"
        /\ TagPoint(i).value = S7Value(t, ItemBytes(t))
    BY <1>1 DEF TagPoint, Point
  <1>4. mode = "fallback" => Right(TagPoint(i))
    <2>1. CASE ~t.bool
      <3>1. ItemBytes(t) = Bytes(t.area, t.addr, t.size)
        BY <2>1 DEF ItemBytes
      <3> QED BY <1>1, <1>2, <1>3, <3>1 DEF Right
    <2>2. CASE t.bool
      <3>1. \/ S7Value(t, ItemBytes(t)) = Actual(t)
            \/ t.bit # 0 /\ S7Value(t, ItemBytes(t)) = {}
        BY <1>1, <1>2, <2>2, BooleanItem
      <3>2. mode = "fallback" /\ t.bit # 0 => Masked(i)
        BY <1>1, <2>2 DEF Masked
      <3> QED BY <1>1, <1>3, <3>1, <3>2 DEF Right
    <2> QED BY <2>1, <2>2
  <1>5. CASE Single(t.area) = t.area
    <2>1. SinglePoint(i) = Point(i, Actual(t))
      BY <1>1, <1>2, <1>5 DEF SinglePoint
    <2> QED BY <1>1, <1>3, <1>4, <2>1 DEF Point, Right
  <1>6. CASE Single(t.area) # t.area
    <2>1. mode = "singles" => Misread(i)
      BY <1>1, <1>6 DEF Misread
    <2>2. SinglePoint(i).tag = i /\ SinglePoint(i).quality = "good"
      BY DEF SinglePoint, Point
    <2> QED BY <1>3, <1>4, <2>1, <2>2 DEF Right
  <1> QED BY <1>5, <1>6

-----------------------------------------------------------------------------
(* The tags of a call of the Modbus client, by group and range             *)

TagsOf(ps) == {ps[k].tag : k \in 1..Len(ps)}

\* No tag has two points.
Once(ps) == Sequence(ps) /\ \A k, l \in 1..Len(ps) : ps[k].tag = ps[l].tag => k = l

\* The points that are there when an area is to be read, when position i is.
AreaLeft(rs, a) == \E j \in 1..Len(rs) : rs[j].area = a
Waits(rs, i) == \E j, m : IsAt(rs, i, j, m)

RangesLeft(tags, rs) ==
    /\ Len(tags) \in Nat /\ rs \in Seq(RangeType(Len(tags)))
    /\ \A j \in 1..Len(rs) : RangeOK(tags, rs[j])
    /\ Unique(rs) /\ Together(rs)

\* ps has the points of the groups that are complete, gs those of the present group.
Progress(tags, rs, ps, gs) ==
    /\ RangesLeft(tags, rs) /\ Once(ps) /\ Once(gs)
    /\ TagsOf(ps) = {i \in 1..Len(tags) : ~AreaLeft(rs, tags[i].area)}
    /\ \A i \in TagsOf(gs) :
          i \in 1..Len(tags) /\ rs # <<>> /\ tags[i].area = rs[1].area /\ ~Waits(rs, i)
    /\ \A i \in 1..Len(tags) : AreaLeft(rs, tags[i].area) => i \in TagsOf(gs) \/ Waits(rs, i)

JoinedPoints(s, t, u) ==
    /\ Sequence(u) /\ TagsOf(u) = TagsOf(s) \cup TagsOf(t)
    /\ Once(s) /\ Once(t) /\ TagsOf(s) \cap TagsOf(t) = {} => Once(u)
    /\ \A tags : Fine(tags, s) /\ Fine(tags, t) => Fine(tags, u)

\* The tags of two lists of points put together.
LEMMA JoinedTags ==
    ASSUME NEW s, NEW t, Sequence(s), Sequence(t), NEW u, u = s \o t
    PROVE  JoinedPoints(s, t, u)
  <1>1. /\ Sequence(u) /\ Len(s) \in Nat /\ Len(t) \in Nat /\ Len(u) = Len(s) + Len(t)
        /\ \A k \in 1..Len(s) : u[k] = s[k]
        /\ \A k \in 1..Len(t) : u[Len(s) + k] = t[k]
        /\ \A k \in 1..Len(u) : k \in 1..Len(s) \/ k - Len(s) \in 1..Len(t)
    <2>1. Joined(s, t, u)
      BY JoinedSequence
    <2> QED BY <2>1 DEF Joined
  <1>2. PICK p \in Nat : p = Len(s)
    BY <1>1
  <1>3. PICK q \in Nat : q = Len(t)
    BY <1>1
  <1>4. /\ Len(u) = p + q
        /\ \A k \in 1..p : u[k] = s[k] /\ k \in 1..(p + q)
        /\ \A k \in 1..q : u[p + k] = t[k] /\ p + k \in 1..(p + q)
    BY <1>1, <1>2, <1>3
  <1>5. \A k \in 1..(p + q) : (k \in 1..p /\ u[k] = s[k]) \/ (k - p \in 1..q /\ u[k] = t[k - p])
    <2>1. ASSUME NEW k \in 1..(p + q), k \notin 1..p PROVE k - p \in 1..q /\ u[k] = t[k - p]
      <3>1. PICK l \in 1..q : l = k - p
        BY <2>1
      <3>2. u[p + l] = t[l] /\ p + l = k
        BY <1>4, <3>1
      <3> QED BY <3>1, <3>2
    <2> QED BY <1>4, <2>1
  <1>6. TagsOf(u) = TagsOf(s) \cup TagsOf(t)
    <2>1. ASSUME NEW x \in TagsOf(u) PROVE x \in TagsOf(s) \cup TagsOf(t)
      <3>1. PICK k \in 1..(p + q) : u[k].tag = x
        BY <1>4, <2>1 DEF TagsOf
      <3> QED BY <1>2, <1>3, <1>5, <3>1 DEF TagsOf
    <2>2. ASSUME NEW x \in TagsOf(s) PROVE x \in TagsOf(u)
      BY <1>2, <1>4, <2>2 DEF TagsOf
    <2>3. ASSUME NEW x \in TagsOf(t) PROVE x \in TagsOf(u)
      <3>1. PICK k \in 1..q : t[k].tag = x
        BY <1>3, <2>3 DEF TagsOf
      <3> QED BY <1>4, <3>1 DEF TagsOf
    <2> QED BY <2>1, <2>2, <2>3
  <1>7. ASSUME Once(s), Once(t), TagsOf(s) \cap TagsOf(t) = {} PROVE Once(u)
    <2> SUFFICES ASSUME NEW k \in 1..(p + q), NEW l \in 1..(p + q), u[k].tag = u[l].tag PROVE k = l
      BY <1>1, <1>4 DEF Once
    <2>1. CASE k \in 1..p /\ l \in 1..p
      BY <1>2, <1>4, <1>7, <2>1 DEF Once
    <2>2. CASE k \in 1..p /\ l \notin 1..p
      <3>1. l - p \in 1..q /\ u[l] = t[l - p] /\ u[k] = s[k]
        BY <1>4, <1>5, <2>2
      <3>2. u[l].tag \in TagsOf(t) /\ u[k].tag \in TagsOf(s)
        BY <1>2, <1>3, <2>2, <3>1 DEF TagsOf
      <3> QED BY <1>7, <3>2
    <2>3. CASE k \notin 1..p /\ l \in 1..p
      <3>1. k - p \in 1..q /\ u[k] = t[k - p] /\ u[l] = s[l]
        BY <1>4, <1>5, <2>3
      <3>2. u[k].tag \in TagsOf(t) /\ u[l].tag \in TagsOf(s)
        BY <1>2, <1>3, <2>3, <3>1 DEF TagsOf
      <3> QED BY <1>7, <3>2
    <2>4. CASE k \notin 1..p /\ l \notin 1..p
      <3>1. k - p \in 1..q /\ u[k] = t[k - p] /\ l - p \in 1..q /\ u[l] = t[l - p]
        BY <1>5, <2>4
      <3>2. k - p = l - p
        BY <1>3, <1>7, <3>1 DEF Once
      <3> QED BY <3>2
    <2> QED BY <2>1, <2>2, <2>3, <2>4
  <1>8. ASSUME NEW tags, Fine(tags, s), Fine(tags, t) PROVE Fine(tags, u)
    <2> SUFFICES ASSUME NEW m \in 1..(p + q)
                 PROVE  u[m].quality = "good" \/ Nowhere(tags[u[m].tag])
      BY <1>4 DEF Fine
    <2>1. CASE m \in 1..p /\ u[m] = s[m]
      BY <1>2, <1>8, <2>1 DEF Fine
    <2>2. CASE m - p \in 1..q /\ u[m] = t[m - p]
      <3>1. PICK l \in 1..q : l = m - p
        BY <2>2
      <3>2. t[l].quality = "good" \/ Nowhere(tags[t[l].tag])
        BY <1>3, <1>8, <3>1 DEF Fine
      <3> QED BY <2>2, <3>1, <3>2
    <2> QED BY <1>5, <2>1, <2>2
  <1> QED BY <1>1, <1>6, <1>7, <1>8 DEF JoinedPoints

\* The ranges after the first e.
After(tags, rs, e, rest) ==
    /\ RangesLeft(tags, rest) /\ Len(rs) \in Nat /\ Len(rest) = Len(rs) - e
    /\ \A j \in 1..Len(rest) : j + e \in 1..Len(rs) /\ rest[j] = rs[j + e]
    /\ \A x, j, m : IsAt(rest, x, j, m) <=> j \in 1..Len(rest) /\ IsAt(rs, x, j + e, m)

\* The ranges that are left when the first e are done.
LEMMA Dropped ==
    ASSUME NEW tags, NEW rs, RangesLeft(tags, rs), NEW e \in 0..Len(rs),
           NEW rest, rest = SubSeq(rs, e + 1, Len(rs))
    PROVE  After(tags, rs, e, rest)
  <1>1. PICK X : X = RangeType(Len(tags))
    OBVIOUS
  <1>2. rs \in Seq(X) /\ Len(rs) \in Nat
    BY <1>1 DEF RangesLeft
  <1>3. rest \in Seq(X) /\ Len(rest) = Len(rs) - e
    BY <1>2
  <1>4. ASSUME NEW j \in 1..Len(rest) PROVE j + e \in 1..Len(rs) /\ rest[j] = rs[j + e]
    <2>1. j \in 1..(Len(rs) - e)
      BY <1>3
    <2>2. rest[j] = rs[e + j]
      BY <1>2, <2>1
    <2> QED BY <1>2, <2>1, <2>2
  <1>5. ASSUME NEW x, NEW j, NEW m
        PROVE  IsAt(rest, x, j, m) <=> j \in 1..Len(rest) /\ IsAt(rs, x, j + e, m)
    BY <1>4 DEF IsAt
  <1>6. Unique(rest)
    <2> SUFFICES ASSUME NEW x, NEW j, NEW l, NEW m, NEW o, IsAt(rest, x, j, m), IsAt(rest, x, l, o)
                 PROVE  j = l /\ m = o
      BY DEF Unique
    <2>1. j \in 1..Len(rest) /\ l \in 1..Len(rest) /\ IsAt(rs, x, j + e, m) /\ IsAt(rs, x, l + e, o)
      BY <1>5
    <2>2. j + e = l + e /\ m = o
      BY <2>1 DEF RangesLeft, Unique
    <2> QED BY <2>1, <2>2
  <1>7. Together(rest)
    <2> SUFFICES ASSUME NEW j \in 1..Len(rest), NEW l \in 1..Len(rest), rest[j].area = rest[l].area,
                        NEW m \in j..l
                 PROVE  rest[m].area = rest[j].area
      BY DEF Together
    <2>1. m \in 1..Len(rest)
      BY <1>2, <1>3
    <2>2. PICK a \in 1..Len(rs) : a = j + e
      BY <1>4
    <2>3. PICK b \in 1..Len(rs) : b = l + e
      BY <1>4
    <2>4. PICK c \in a..b : c = m + e
      BY <2>2, <2>3
    <2>5. rs[a].area = rs[b].area
      BY <1>4, <2>2, <2>3
    <2>6. rs[c].area = rs[a].area
      BY <2>5 DEF RangesLeft, Together
    <2> QED BY <1>4, <2>1, <2>2, <2>4, <2>6
  <1>8. \A j \in 1..Len(rest) : RangeOK(tags, rest[j])
    BY <1>4 DEF RangesLeft
  <1> QED BY <1>1, <1>2, <1>3, <1>4, <1>5, <1>6, <1>7, <1>8 DEF RangesLeft, After

\* A position that waits is one of a tag of an area that is left.
LEMMA WaitsInArea ==
    ASSUME NEW tags, NEW rs, RangesLeft(tags, rs), NEW i, NEW j, NEW m, IsAt(rs, i, j, m)
    PROVE  /\ i \in 1..Len(tags) /\ j \in 1..Len(rs) /\ tags[i].area = rs[j].area
           /\ AreaLeft(rs, tags[i].area) /\ Waits(rs, i)
  <1>1. j \in 1..Len(rs) /\ m \in 1..Len(rs[j].tags) /\ rs[j].tags[m] = i
    BY DEF IsAt
  <1>2. PICK r \in RangeType(Len(tags)) : r = rs[j]
    BY <1>1 DEF RangesLeft
  <1>3. RangeOK(tags, r)
    BY <1>1, <1>2 DEF RangesLeft
  <1>4. r.tags \in Seq(1..Len(tags))
    BY <1>2 DEF RangeType
  <1>5. i \in 1..Len(tags)
    BY <1>1, <1>2, <1>4
  <1>6. tags[i].area = rs[j].area
    BY <1>1, <1>2, <1>3 DEF RangeOK, Fits
  <1> QED BY <1>1, <1>5, <1>6 DEF AreaLeft, Waits

\* The tags of the next range, and what is left without it.
Without(tags, rs, new, rest) ==
    /\ RangesLeft(tags, rest) /\ Once(new)
    /\ \A x \in TagsOf(new) : /\ x \in 1..Len(tags) /\ tags[x].area = rs[1].area
                            /\ Waits(rs, x) /\ ~Waits(rest, x)
    /\ \A x : Waits(rs, x) <=> x \in TagsOf(new) \/ Waits(rest, x)
    /\ \A a : AreaLeft(rs, a) <=> a = rs[1].area \/ AreaLeft(rest, a)

\* What one range takes from those that wait.
LEMMA NextRange ==
    ASSUME NEW tags, NEW rs, RangesLeft(tags, rs), rs # <<>>,
           NEW new, PointsFor(rs[1].tags, new), NEW rest, rest = SubSeq(rs, 2, Len(rs))
    PROVE  Without(tags, rs, new, rest)
  <1>1. 1 \in 0..Len(rs) /\ Len(rs) \in Nat /\ 1 \in 1..Len(rs)
    BY DEF RangesLeft
  <1>2. /\ RangesLeft(tags, rest) /\ Len(rest) = Len(rs) - 1
        /\ \A j \in 1..Len(rest) : j + 1 \in 1..Len(rs) /\ rest[j] = rs[j + 1]
        /\ \A x, j, m : IsAt(rest, x, j, m) <=> j \in 1..Len(rest) /\ IsAt(rs, x, j + 1, m)
    <2>1. rest = SubSeq(rs, 1 + 1, Len(rs))
      OBVIOUS
    <2>2. After(tags, rs, 1, rest)
      BY <1>1, <2>1, Dropped
    <2> QED BY <2>2 DEF After
  <1>3. \A x : x \in TagsOf(new) <=> \E m : IsAt(rs, x, 1, m)
    BY <1>1 DEF PointsFor, TagsOf, IsAt
  <1>4. Once(new)
    <2> SUFFICES ASSUME NEW k \in 1..Len(new), NEW l \in 1..Len(new), new[k].tag = new[l].tag PROVE k = l
      BY DEF Once, PointsFor
    <2>1. IsAt(rs, new[k].tag, 1, k) /\ IsAt(rs, new[k].tag, 1, l)
      BY <1>1 DEF PointsFor, IsAt
    <2> QED BY <2>1 DEF RangesLeft, Unique
  <1>5. ASSUME NEW x \in TagsOf(new)
        PROVE  /\ x \in 1..Len(tags) /\ tags[x].area = rs[1].area
               /\ Waits(rs, x) /\ ~Waits(rest, x)
    <2>1. PICK m : IsAt(rs, x, 1, m)
      BY <1>3
    <2>2. x \in 1..Len(tags) /\ tags[x].area = rs[1].area /\ Waits(rs, x)
      BY <2>1, WaitsInArea
    <2>3. ASSUME NEW j, NEW o, IsAt(rest, x, j, o) PROVE FALSE
      <3>1. IsAt(rs, x, j + 1, o) /\ j \in 1..Len(rest)
        BY <1>2, <2>3
      <3>2. j + 1 = 1
        BY <2>1, <3>1 DEF RangesLeft, Unique
      <3>3. Len(rest) \in Int
        BY <1>1, <1>2
      <3> QED BY <3>1, <3>2, <3>3
    <2> QED BY <2>2, <2>3 DEF Waits
  <1>6. ASSUME NEW x PROVE Waits(rs, x) <=> x \in TagsOf(new) \/ Waits(rest, x)
    <2>1. ASSUME Waits(rest, x) PROVE Waits(rs, x)
      BY <1>2, <2>1 DEF Waits
    <2>2. ASSUME NEW j, NEW m, IsAt(rs, x, j, m), x \notin TagsOf(new) PROVE Waits(rest, x)
      <3>1. j \in 2..Len(rs)
        BY <1>1, <1>3, <2>2 DEF IsAt
      <3>2. PICK i \in 1..Len(rest) : i = j - 1
        BY <1>1, <1>2, <3>1
      <3>3. i + 1 = j
        BY <3>1, <3>2
      <3>4. IsAt(rest, x, i, m)
        BY <1>2, <2>2, <3>3
      <3> QED BY <3>4 DEF Waits
    <2> QED BY <1>5, <2>1, <2>2 DEF Waits
  <1>7. ASSUME NEW a PROVE AreaLeft(rs, a) <=> a = rs[1].area \/ AreaLeft(rest, a)
    <2>1. ASSUME AreaLeft(rest, a) PROVE AreaLeft(rs, a)
      BY <1>2, <2>1 DEF AreaLeft
    <2>2. ASSUME NEW j \in 1..Len(rs), rs[j].area = a, a # rs[1].area PROVE AreaLeft(rest, a)
      <3>1. PICK i \in 1..Len(rest) : i = j - 1
        BY <1>1, <1>2, <2>2
      <3>2. i + 1 = j
        BY <1>1, <3>1
      <3> QED BY <1>2, <2>2, <3>2 DEF AreaLeft
    <2> QED BY <1>1, <2>1, <2>2 DEF AreaLeft
  <1> QED BY <1>2, <1>4, <1>5, <1>6, <1>7 DEF Without

\* The next range belongs to the same group: its points join those of the group.
LEMMA Continues ==
    ASSUME NEW tags, NEW rs, NEW ps, NEW gs, Progress(tags, rs, ps, gs), rs # <<>>,
           NEW new, PointsFor(rs[1].tags, new), NEW rest, rest = SubSeq(rs, 2, Len(rs)),
           rest # <<>>, rest[1].area = rs[1].area,
           NEW more, more = gs \o new
    PROVE  Progress(tags, rest, ps, more)
  <1>1. RangesLeft(tags, rs)
    BY DEF Progress
  <1>2. /\ RangesLeft(tags, rest) /\ Once(new)
        /\ \A x \in TagsOf(new) : /\ x \in 1..Len(tags) /\ tags[x].area = rs[1].area
                                /\ Waits(rs, x) /\ ~Waits(rest, x)
        /\ \A x : Waits(rs, x) <=> x \in TagsOf(new) \/ Waits(rest, x)
        /\ \A a : AreaLeft(rs, a) <=> a = rs[1].area \/ AreaLeft(rest, a)
    <2>1. Without(tags, rs, new, rest)
      BY <1>1, NextRange
    <2> QED BY <2>1 DEF Without
  <1>3. TagsOf(gs) \cap TagsOf(new) = {}
    BY <1>2 DEF Progress
  <1>4. Once(more) /\ TagsOf(more) = TagsOf(gs) \cup TagsOf(new)
    <2>1. Sequence(gs) /\ Sequence(new) /\ Once(gs) /\ Once(new)
      BY <1>2 DEF Progress, Once
    <2>2. JoinedPoints(gs, new, more)
      BY <2>1, JoinedTags
    <2> QED BY <1>3, <2>1, <2>2 DEF JoinedPoints
  <1>5. AreaLeft(rest, rs[1].area)
    <2>1. 1 \in 1..Len(rest)
      BY <1>2 DEF RangesLeft
    <2> QED BY <2>1 DEF AreaLeft
  <1>6. \A a : AreaLeft(rs, a) <=> AreaLeft(rest, a)
    BY <1>2, <1>5
  <1>7. TagsOf(ps) = {i \in 1..Len(tags) : ~AreaLeft(rest, tags[i].area)}
    BY <1>6 DEF Progress
  <1>8. \A i \in TagsOf(more) :
           i \in 1..Len(tags) /\ rest # <<>> /\ tags[i].area = rest[1].area /\ ~Waits(rest, i)
    BY <1>2, <1>4 DEF Progress
  <1>9. \A i \in 1..Len(tags) : AreaLeft(rest, tags[i].area) => i \in TagsOf(more) \/ Waits(rest, i)
    BY <1>2, <1>4, <1>6 DEF Progress
  <1> QED BY <1>2, <1>4, <1>7, <1>8, <1>9 DEF Progress

\* One point for each tag of area a.
Whole(tags, a, w) == Once(w) /\ TagsOf(w) = {i \in 1..Len(tags) : tags[i].area = a}

\* The group is complete when no range of its area is left.
LEMMA Ends ==
    ASSUME NEW tags, NEW rs, NEW ps, NEW gs, Progress(tags, rs, ps, gs), rs # <<>>,
           NEW e \in 1..Len(rs), \A j \in 1..e : rs[j].area = rs[1].area,
           NEW rest, rest = SubSeq(rs, e + 1, Len(rs)), ~AreaLeft(rest, rs[1].area),
           NEW new, Whole(tags, rs[1].area, new),
           NEW more, more = ps \o new
    PROVE  Progress(tags, rest, more, <<>>)
  <1>1. RangesLeft(tags, rs) /\ Len(rs) \in Nat /\ e \in 0..Len(rs)
    BY DEF Progress, RangesLeft
  <1>2. /\ RangesLeft(tags, rest) /\ Len(rest) = Len(rs) - e
        /\ \A j \in 1..Len(rest) : j + e \in 1..Len(rs) /\ rest[j] = rs[j + e]
        /\ \A x, j, m : IsAt(rest, x, j, m) <=> j \in 1..Len(rest) /\ IsAt(rs, x, j + e, m)
    <2>1. After(tags, rs, e, rest)
      BY <1>1, Dropped
    <2> QED BY <2>1 DEF After
  <1>3. ASSUME NEW a PROVE AreaLeft(rs, a) <=> a = rs[1].area \/ AreaLeft(rest, a)
    <2>1. ASSUME AreaLeft(rest, a) PROVE AreaLeft(rs, a)
      BY <1>2, <2>1 DEF AreaLeft
    <2>2. ASSUME NEW j \in 1..Len(rs), rs[j].area = a, a # rs[1].area PROVE AreaLeft(rest, a)
      <3>1. j \notin 1..e
        BY <2>2
      <3>2. PICK i \in 1..Len(rest) : i = j - e
        BY <1>1, <1>2, <3>1
      <3>3. i + e = j
        BY <1>1, <3>2
      <3> QED BY <1>2, <2>2, <3>3 DEF AreaLeft
    <2>3. 1 \in 1..Len(rs)
      BY <1>1
    <2> QED BY <2>1, <2>2, <2>3 DEF AreaLeft
  <1>4. TagsOf(ps) \cap TagsOf(new) = {}
    BY <1>3 DEF Progress, Whole
  <1>5. Once(more) /\ TagsOf(more) = TagsOf(ps) \cup TagsOf(new)
    <2>1. Sequence(ps) /\ Sequence(new) /\ Once(ps) /\ Once(new)
      BY DEF Progress, Once, Whole
    <2>2. JoinedPoints(ps, new, more)
      BY <2>1, JoinedTags
    <2> QED BY <1>4, <2>1, <2>2 DEF JoinedPoints
  <1>6. TagsOf(more) = {i \in 1..Len(tags) : ~AreaLeft(rest, tags[i].area)}
    <2>1. \A i : i \in TagsOf(ps) <=> i \in 1..Len(tags) /\ ~AreaLeft(rs, tags[i].area)
      BY DEF Progress
    <2>2. \A i : i \in TagsOf(new) <=> i \in 1..Len(tags) /\ tags[i].area = rs[1].area
      BY DEF Whole
    <2>3. \A i : i \in TagsOf(more) <=> i \in TagsOf(ps) \/ i \in TagsOf(new)
      BY <1>5
    <2> QED BY <1>3, <2>1, <2>2, <2>3
  <1>7. PICK none : none = <<>>
    OBVIOUS
  <1>8. Once(none) /\ TagsOf(none) = {}
    <2>1. Len(none) = 0 /\ none = [k \in 1..0 |-> none[k]]
      BY <1>7
    <2>2. Sequence(none)
      BY <1>7 DEF Sequence
    <2> QED BY <2>1, <2>2 DEF Once, TagsOf
  <1>9. ASSUME NEW i \in 1..Len(tags), AreaLeft(rest, tags[i].area) PROVE Waits(rest, i)
    <2>1. AreaLeft(rs, tags[i].area) /\ tags[i].area # rs[1].area
      BY <1>3, <1>9
    <2>2. Waits(rs, i)
      BY <2>1 DEF Progress
    <2>3. PICK j, m : IsAt(rs, i, j, m)
      BY <2>2 DEF Waits
    <2>4. j \in 1..Len(rs) /\ tags[i].area = rs[j].area
      BY <1>1, <2>3, WaitsInArea
    <2>5. j \notin 1..e
      BY <2>1, <2>4
    <2>6. PICK l \in 1..Len(rest) : l = j - e
      BY <1>1, <1>2, <2>4, <2>5
    <2>7. l + e = j
      BY <1>1, <2>4, <2>6
    <2>8. IsAt(rest, i, l, m)
      BY <1>2, <2>3, <2>7
    <2> QED BY <2>8 DEF Waits
  <1> QED BY <1>2, <1>5, <1>6, <1>7, <1>8, <1>9 DEF Progress

\* With its last range a group is complete.
LEMMA GroupWhole ==
    ASSUME NEW tags, NEW rs, NEW ps, NEW gs, Progress(tags, rs, ps, gs), rs # <<>>,
           NEW new, PointsFor(rs[1].tags, new), NEW rest, rest = SubSeq(rs, 2, Len(rs)),
           ~AreaLeft(rest, rs[1].area), NEW whole, whole = gs \o new
    PROVE  Whole(tags, rs[1].area, whole)
  <1>1. RangesLeft(tags, rs)
    BY DEF Progress
  <1>2. Without(tags, rs, new, rest)
    BY <1>1, NextRange
  <1>3. Sequence(gs) /\ Sequence(new) /\ Once(gs) /\ Once(new)
    BY <1>2 DEF Progress, Once, Without
  <1>4. JoinedPoints(gs, new, whole)
    BY <1>3, JoinedTags
  <1>5. TagsOf(gs) \cap TagsOf(new) = {}
    BY <1>2 DEF Progress, Without
  <1>6. Once(whole) /\ TagsOf(whole) = TagsOf(gs) \cup TagsOf(new)
    BY <1>3, <1>4, <1>5 DEF JoinedPoints
  <1>7. ASSUME NEW x \in TagsOf(whole) PROVE x \in 1..Len(tags) /\ tags[x].area = rs[1].area
    BY <1>2, <1>6 DEF Progress, Without
  <1>8. ASSUME NEW x \in 1..Len(tags), tags[x].area = rs[1].area PROVE x \in TagsOf(whole)
    <2>1. AreaLeft(rs, tags[x].area)
      BY <1>2, <1>8 DEF Without
    <2>2. x \in TagsOf(gs) \/ Waits(rs, x)
      BY <2>1 DEF Progress
    <2>3. ASSUME Waits(rest, x) PROVE FALSE
      <3>1. PICK j, m : IsAt(rest, x, j, m)
        BY <2>3 DEF Waits
      <3>2. RangesLeft(tags, rest)
        BY <1>2 DEF Without
      <3>3. AreaLeft(rest, tags[x].area)
        BY <3>1, <3>2, WaitsInArea
      <3> QED BY <1>8, <3>3
    <2>4. Waits(rs, x) => x \in TagsOf(new)
      BY <1>2, <2>3 DEF Without
    <2> QED BY <1>6, <2>2, <2>4
  <1> QED BY <1>6, <1>7, <1>8 DEF Whole

\* As many points as tags.
LEMMA OneForEach ==
    ASSUME NEW n \in Nat, NEW ps, Once(ps), TagsOf(ps) = 1..n
    PROVE  Len(ps) = n /\ {p.tag : p \in ToSet(ps)} = 1..n
  <1>1. Len(ps) \in Nat /\ \A x : x \in ToSet(ps) <=> \E k \in 1..Len(ps) : ps[k] = x
    BY Members DEF Once
  <1>2. PICK l \in Nat : l = Len(ps)
    BY <1>1
  <1>3. PICK f : f = [k \in 1..l |-> ps[k].tag]
    OBVIOUS
  <1>4. f \in [1..l -> 1..n]
    BY <1>2, <1>3 DEF TagsOf
  <1>5. \A j, k \in 1..l : f[j] = f[k] => j = k
    BY <1>2, <1>3 DEF Once
  <1>6. \A i \in 1..n : \E k \in 1..l : f[k] = i
    BY <1>2, <1>3 DEF TagsOf
  <1>7. f \in Bijection(1..l, 1..n)
    BY <1>4, <1>5, <1>6 DEF Bijection, Injection, Surjection, IsInjective
  <1>8. /\ IsFiniteSet(1..l) /\ Cardinality(1..l) = l
        /\ IsFiniteSet(1..n) /\ Cardinality(1..n) = n
    <2>1. /\ IsFiniteSet(1..l) /\ Cardinality(1..l) = IF 1 > l THEN 0 ELSE l - 1 + 1
          /\ IsFiniteSet(1..n) /\ Cardinality(1..n) = IF 1 > n THEN 0 ELSE n - 1 + 1
      BY FS_Interval
    <2> QED BY <2>1
  <1>9. Cardinality(1..l) = Cardinality(1..n)
    <2>1. ExistsBijection(1..l, 1..n)
      BY <1>7 DEF ExistsBijection
    <2> QED BY <1>8, <2>1, FS_Bijection
  <1>10. {p.tag : p \in ToSet(ps)} = TagsOf(ps)
    BY <1>1 DEF TagsOf
  <1> QED BY <1>2, <1>8, <1>9, <1>10

\* The ranges of the present group come first.
LEMMA PresentGroup ==
    ASSUME NEW tags, RangesLeft(tags, todo), todo # <<>>
    PROVE  /\ Present \in 1..Len(todo)
           /\ \A k \in 1..Present : todo[k].area = todo[1].area
           /\ ~AreaLeft(SubSeq(todo, Present + 1, Len(todo)), todo[1].area)
  <1>1. PICK l \in Nat \ {0} : l = Len(todo)
    BY DEF RangesLeft
  <1>2. PICK a : a = todo[1].area
    OBVIOUS
  <1>3. PICK T : T = {k \in 1..l : k = l \/ todo[k + 1].area # a}
    OBVIOUS
  <1>4. T \subseteq Nat /\ l \in T
    BY <1>3
  <1>5. PICK e \in T : \A m \in T : e <= m
    BY <1>4, LeastNumber
  <1>6. e \in 1..l /\ (e < l => todo[e + 1].area # a)
    BY <1>3, <1>5
  <1>7. \A k \in 1..e : todo[k].area = a
    <2>1. PICK S : S = {k \in 0..(e - 1) : todo[k + 1].area = a}
      OBVIOUS
    <2>2. 0 \in S
      BY <1>2, <1>6, <2>1
    <2>3. ASSUME NEW k \in 1..(e - 1), k - 1 \in S PROVE k \in S
      <3>1. k \notin T
        BY <1>4, <1>5
      <3>2. todo[k + 1].area = a
        BY <1>3, <1>6, <3>1
      <3> QED BY <2>1, <3>2
    <2>4. PICK d \in Nat : d = e - 1
      BY <1>6
    <2>5. 0..d \subseteq S
      BY <2>2, <2>3, <2>4, Induction
    <2>6. ASSUME NEW k \in 1..e PROVE todo[k].area = a
      <3>1. PICK j \in 0..d : j = k - 1
        BY <1>6, <2>4
      <3>2. j \in S
        BY <2>5
      <3>3. todo[j + 1].area = a /\ j + 1 = k
        BY <2>1, <3>1, <3>2
      <3> QED BY <3>3
    <2> QED BY <2>6
  <1>8. Head(todo) = todo[1]
    BY DEF RangesLeft
  <1>9. PICK p : p = Present
    OBVIOUS
  <1>10. /\ p \in 1..l /\ \A k \in 1..p : todo[k].area = a
         /\ p < l => todo[p + 1].area # a
    BY <1>1, <1>2, <1>6, <1>7, <1>8, <1>9 DEF Present
  <1>11. PICK rest : rest = SubSeq(todo, p + 1, Len(todo))
    OBVIOUS
  <1>12. ASSUME AreaLeft(rest, a) PROVE FALSE
    <2>1. p \in 0..Len(todo)
      BY <1>1, <1>10
    <2>2. After(tags, todo, p, rest)
      BY <1>11, <2>1, Dropped
    <2>3. PICK j \in 1..Len(rest) : rest[j].area = a
      BY <1>12 DEF AreaLeft
    <2>4. j + p \in 1..Len(todo) /\ todo[j + p].area = a
      BY <2>2, <2>3 DEF After
    <2>5. Len(rest) = l - p
      BY <1>1, <2>2 DEF After
    <2>6. PICK q \in 1..l : q = j + p
      BY <1>1, <2>4
    <2>7. p + 1 \in 1..q /\ p < l /\ 1 \in 1..l /\ q \in 1..l
      BY <1>10, <2>3, <2>5, <2>6
    <2>8. todo[1].area = todo[q].area
      BY <1>2, <2>4, <2>6
    <2>9. todo[p + 1].area = todo[1].area
      <3>1. PICK c \in 1..q : c = p + 1
        BY <2>7
      <3>2. \A m \in 1..q : todo[m].area = todo[1].area
        BY <1>1, <2>7, <2>8 DEF RangesLeft, Together
      <3> QED BY <3>1, <3>2
    <2> QED BY <1>2, <1>10, <2>7, <2>9
  <1> QED BY <1>1, <1>2, <1>9, <1>10, <1>11, <1>12

\* The first k positions of area a.
GroupOf(tags, a, k, s) ==
    /\ s \in Seq(1..Len(tags))
    /\ \A m \in 1..Len(s) : s[m] \in 1..k /\ tags[s[m]].area = a
    /\ \A i \in 1..k : tags[i].area = a => \E m \in 1..Len(s) : s[m] = i
    /\ \A l, m \in 1..Len(s) : s[l] = s[m] => l = m

\* One more position joins its group.
LEMMA GroupStep ==
    ASSUME NEW tags, Len(tags) \in Nat, NEW a, NEW k \in 1..Len(tags),
           NEW s, GroupOf(tags, a, k - 1, s),
           NEW t, t = IF tags[k].area = a THEN Append(s, k) ELSE s
    PROVE  GroupOf(tags, a, k, t)
  <1>1. PICK n \in Nat : n = Len(tags)
    OBVIOUS
  <1>2. s \in Seq(1..n) /\ Len(s) \in Nat
    BY <1>1 DEF GroupOf
  <1>3. \A m \in 1..Len(s) : s[m] \in 1..k /\ s[m] # k /\ tags[s[m]].area = a
    BY DEF GroupOf
  <1>4. CASE tags[k].area # a
    <2>1. t = s
      BY <1>4
    <2>2. ASSUME NEW i \in 1..k, tags[i].area = a PROVE \E m \in 1..Len(s) : s[m] = i
      <3>1. i \in 1..(k - 1)
        BY <1>4, <2>2
      <3> QED BY <2>2, <3>1 DEF GroupOf
    <2> QED BY <1>3, <2>1, <2>2 DEF GroupOf
  <1>5. CASE tags[k].area = a
    <2>1. t = Append(s, k)
      BY <1>5
    <2>2. /\ t \in Seq(1..n) /\ Len(t) = Len(s) + 1 /\ t[Len(t)] = k
          /\ \A m \in 1..Len(s) : t[m] = s[m]
      <3>1. k \in 1..n
        BY <1>1
      <3>2. Append(s, k) \in Seq(1..n)
        BY <1>2, <3>1
      <3>3. Len(t) = Len(s) + 1 /\ t[Len(s) + 1] = k /\ \A m \in 1..Len(s) : t[m] = s[m]
        BY <1>2, <2>1, <3>1
      <3> QED BY <2>1, <3>2, <3>3
    <2>3. PICK l \in Nat : l = Len(s)
      BY <1>2
    <2>4. \A m \in 1..(l + 1) : m \in 1..l \/ m = l + 1
      OBVIOUS
    <2>5. \A m \in 1..Len(t) : t[m] \in 1..k /\ tags[t[m]].area = a
      BY <1>3, <1>5, <2>2, <2>3, <2>4
    <2>6. ASSUME NEW i \in 1..k, tags[i].area = a PROVE \E m \in 1..Len(t) : t[m] = i
      <3>1. CASE i = k
        BY <2>2, <2>3, <3>1
      <3>2. CASE i # k
        <4>1. i \in 1..(k - 1)
          BY <3>2
        <4>2. PICK m \in 1..Len(s) : s[m] = i
          BY <2>6, <4>1 DEF GroupOf
        <4> QED BY <2>2, <2>3, <4>2
      <3> QED BY <3>1, <3>2
    <2>7. ASSUME NEW j \in 1..Len(t), NEW m \in 1..Len(t), t[j] = t[m] PROVE j = m
      <3>1. CASE j \in 1..l /\ m \in 1..l
        BY <2>2, <2>3, <2>7, <3>1 DEF GroupOf
      <3>2. CASE j = l + 1 /\ m \in 1..l
        BY <1>3, <2>2, <2>3, <2>7, <3>2
      <3>3. CASE m = l + 1 /\ j \in 1..l
        BY <1>3, <2>2, <2>3, <2>7, <3>3
      <3> QED BY <2>2, <2>3, <2>4, <3>1, <3>2, <3>3
    <2> QED BY <1>1, <2>2, <2>5, <2>6, <2>7 DEF GroupOf
  <1> QED BY <1>4, <1>5

\* Group has the position of every tag of the area, once.
LEMMA GroupIs ==
    ASSUME NEW a, Len(list) \in Nat
    PROVE  GroupOf(list, a, Len(list), Group(a))
  <1>1. PICK n \in Nat : n = Len(list)
    OBVIOUS
  <1> DEFINE F(g) == g = [k \in 0..Len(list) |->
                             IF k = 0 THEN <<>>
                             ELSE IF list[k].area = a THEN Append(g[k - 1], k) ELSE g[k - 1]]
             group[k \in 0..Len(list)] ==
                 IF k = 0 THEN <<>>
                 ELSE IF list[k].area = a THEN Append(group[k - 1], k) ELSE group[k - 1]
  <1>2. group = CHOOSE g : F(g)
    OBVIOUS
  <1>3. Group(a) = group[n]
    BY <1>1 DEF Group
  <1>4. PICK X : X = Seq(1..n)
    OBVIOUS
  <1>5. PICK body : body = [b \in X \X (1..n) |-> IF list[b[2]].area = a THEN Append(b[1], b[2]) ELSE b[1]]
    OBVIOUS
  <1>6. body \in [X \X (1..n) -> X]
    <2>1. \A b \in X, k \in 1..n : Append(b, k) \in X
      BY <1>4
    <2> QED BY <1>5, <2>1
  <1>7. <<>> \in X
    BY <1>4
  <1>8. PICK f \in [0..n -> X] : Runs(f, n, <<>>, body)
    BY <1>6, <1>7, LoopRuns
  <1>9. F(f)
    <2>1. ASSUME NEW k \in 1..n
          PROVE  f[k] = IF list[k].area = a THEN Append(f[k - 1], k) ELSE f[k - 1]
      <3>1. PICK b \in X : b = f[k - 1]
        OBVIOUS
      <3>2. f[k] = body[<<b, k>>]
        BY <1>8, <3>1 DEF Runs
      <3>3. body[<<b, k>>] = IF list[k].area = a THEN Append(b, k) ELSE b
        BY <1>5
      <3> QED BY <3>1, <3>2, <3>3
    <2>2. f[0] = <<>>
      BY <1>8 DEF Runs
    <2> DEFINE N(s, k) == IF list[k].area = a THEN Append(s, k) ELSE s
    <2>3. \A k \in 1..n : f[k] = N(f[k - 1], k)
      BY <2>1
    <2>4. f = [k \in 0..n |-> IF k = 0 THEN <<>> ELSE N(f[k - 1], k)]
      <3> HIDE DEF N
      <3>1. \A k \in 0..n : f[k] = IF k = 0 THEN <<>> ELSE N(f[k - 1], k)
        BY <2>2, <2>3
      <3> QED BY <3>1
    <2> QED BY <1>1, <2>4
  <1>10. F(group)
    <2> HIDE DEF group, F
    <2> QED BY <1>2, <1>9
  <1> HIDE DEF group
  <1>11. PICK h : h = group
    OBVIOUS
  <1>12. h[0] = <<>> /\ \A k \in 1..n : h[k] = IF list[k].area = a THEN Append(h[k - 1], k) ELSE h[k - 1]
    <2>1. F(h)
      <3> HIDE DEF F
      <3> QED BY <1>10, <1>11
    <2> DEFINE N(s, k) == IF list[k].area = a THEN Append(s, k) ELSE s
    <2>2. h = [k \in 0..n |-> IF k = 0 THEN <<>> ELSE N(h[k - 1], k)]
      BY <1>1, <2>1
    <2>3. h[0] = <<>> /\ \A k \in 1..n : h[k] = N(h[k - 1], k)
      <3> HIDE DEF N
      <3> QED BY <2>2
    <2> QED BY <2>3
  <1>13. PICK S : S = {k \in 0..n : GroupOf(list, a, k, h[k])}
    OBVIOUS
  <1>14. 0 \in S
    <2>1. PICK none : none = <<>>
      OBVIOUS
    <2>2. none \in Seq(1..n) /\ Len(none) = 0
      BY <2>1
    <2>3. GroupOf(list, a, 0, none)
      BY <1>1, <2>2 DEF GroupOf
    <2> QED BY <1>12, <1>13, <2>1, <2>3
  <1>15. ASSUME NEW k \in 1..n, k - 1 \in S PROVE k \in S
    <2>1. PICK s : s = h[k - 1]
      OBVIOUS
    <2>2. PICK t : t = h[k]
      OBVIOUS
    <2>3. GroupOf(list, a, k - 1, s) /\ t = IF list[k].area = a THEN Append(s, k) ELSE s
      BY <1>12, <1>13, <1>15, <2>1, <2>2
    <2>4. GroupOf(list, a, k, t)
      BY <1>1, <2>3, GroupStep
    <2> QED BY <1>13, <2>2, <2>4
  <1>16. n \in S
    <2>1. 0..n \subseteq S
      BY <1>14, <1>15, Induction
    <2> QED BY <2>1
  <1> QED BY <1>1, <1>3, <1>11, <1>13, <1>16

\* All tags of a device have what ReadTags relies on.
LEMMA DeviceTags ==
    ASSUME NEW d, NEW t \in d
    PROVE  /\ d \in ModbusDevices => ValidTag(t) /\ t.area \in ModbusArea
           /\ d \in S7Devices => ValidTag(t) /\ t.area \notin ModbusArea
  <1>1. ASSUME d \in ModbusDevices
        PROVE  ValidTag(t) /\ t.area \in ModbusArea
    <2>1. t \in UNION ModbusDevices
      BY <1>1
    <2>2. /\ t \in [area : ModbusArea, addr : 0..(Space - 1), count : Nat \ {0}, size : {2, 4, 8},
                    bool : BOOLEAN, order : {"BE", "LE", "MB", "ML"}, bit : -1..(Bits - 1)]
          /\ MaxRead + MaxGap + t.count < Space /\ 2 * t.count + MaxGap < Space
      BY <2>1, TagAssumption, BatchAssumption
    <2>3. /\ t.area \in ModbusArea /\ t.addr \in 0..(Space - 1) /\ t.count \in Nat \ {0}
          /\ t.order \in {"BE", "LE", "MB", "ML"}
      BY <2>2
    <2>4. t.area \in AnyArea
      BY <2>3 DEF AnyArea
    <2>5. t.addr \in Nat /\ t.addr < Space
      <3>1. Space \in Nat
        BY BatchAssumption
      <3>2. \A x \in 0..(Space - 1) : x \in Nat /\ x < Space
        BY <3>1
      <3> QED BY <2>3, <3>2
    <2> QED BY <2>2, <2>3, <2>4, <2>5 DEF ValidTag
  <1>2. ASSUME d \in S7Devices
        PROVE  ValidTag(t) /\ t.area \notin ModbusArea
    <2>1. t \in UNION S7Devices
      BY <1>2
    <2>2. t \in [area : STRING \ ModbusArea, addr : Nat, count : {0}, size : {1, 2, 4, 8},
                 bool : BOOLEAN, order : {"BE"}, bit : -1..(Bits - 1)]
      BY <2>1, TagAssumption
    <2> QED BY <2>2 DEF ValidTag, AnyArea
  <1> QED BY <1>1, <1>2

\* The beginning: all tags wait.
LEMMA Begins ==
    ASSUME NEW tags, Len(tags) \in Nat \ {0}, \A i \in 1..Len(tags) : ValidTag(tags[i]),
           NEW rs \in RangesOf(tags)
    PROVE  /\ rs # <<>> /\ RangesLeft(tags, rs)
           /\ \A i \in 1..Len(tags) : Waits(rs, i)
           /\ Progress(tags, rs, <<>>, <<>>)
  <1>1. PICK n \in Nat \ {0} : n = Len(tags)
    OBVIOUS
  <1>2. PICK order \in Orders(tags) : rs = Ranges(tags, order)
    BY DEF RangesOf
  <1>3. InOrder(tags, order)
    BY <1>2, OrderFacts
  <1>4. Divided(tags, order, rs, n)
    BY <1>1, <1>2, <1>3, RangesDivide
  <1>5. RangesLeft(tags, rs) /\ rs # <<>>
    BY <1>1, <1>4 DEF Divided, RangesLeft
  <1>6. \A i \in 1..n : Waits(rs, i)
    <2> SUFFICES ASSUME NEW i \in 1..n PROVE Waits(rs, i)
      OBVIOUS
    <2>1. PICK p \in 1..n : order[p] = i
      BY <1>1, <1>3 DEF InOrder
    <2>2. \E j, m : IsAt(rs, order[p], j, m)
      BY <1>4, <2>1 DEF Divided
    <2> QED BY <2>1, <2>2 DEF Waits
  <1>7. \A i \in 1..n : AreaLeft(rs, tags[i].area)
    <2> SUFFICES ASSUME NEW i \in 1..n PROVE AreaLeft(rs, tags[i].area)
      OBVIOUS
    <2>1. PICK j, m : IsAt(rs, i, j, m)
      BY <1>6 DEF Waits
    <2> QED BY <1>5, <2>1, WaitsInArea
  <1>8. PICK none : none = <<>>
    OBVIOUS
  <1>9. Len(none) = 0 /\ Once(none) /\ TagsOf(none) = {}
    <2>1. Len(none) = 0 /\ none \in Seq(ToSet(none))
      BY <1>8
    <2> QED BY <2>1 DEF Once, TagsOf, Sequence
  <1>10. Progress(tags, rs, none, none)
    BY <1>1, <1>5, <1>6, <1>7, <1>9 DEF Progress
  <1> QED BY <1>1, <1>5, <1>6, <1>8, <1>10

\* A sequence is empty, or has a head.
LEMMA EmptyOrNot ==
    ASSUME NEW S, NEW s \in Seq(S)
    PROVE  /\ Len(s) \in Nat /\ (s # <<>> <=> Len(s) > 0)
           /\ s # <<>> => Head(s) = s[1]
  <1>1. Len(s) \in Nat
    OBVIOUS
  <1>2. s # <<>> => Len(s) > 0 /\ Head(s) = s[1]
    OBVIOUS
  <1>3. ASSUME s = <<>> PROVE ~(Len(s) > 0)
    BY <1>3
  <1> QED BY <1>1, <1>2, <1>3

\* readTagGroup goes on with the next range, or ends the group.
Collected(tags, rs, rest, ps, more, all) ==
    IF rest = <<>> \/ Head(rest).area # Head(rs).area
    THEN Progress(tags, rest, all, <<>>) ELSE Progress(tags, rest, ps, more)

\* readTagGroup goes on with the next range, or ends the group.
LEMMA CollectStep ==
    ASSUME NEW tags, NEW rs, NEW ps, NEW gs, Progress(tags, rs, ps, gs), rs # <<>>,
           NEW new, PointsFor(rs[1].tags, new), NEW rest, rest = Tail(rs),
           NEW more, more = gs \o new, NEW all, all = ps \o more
    PROVE  Collected(tags, rs, rest, ps, more, all)
  <1>1. RangesLeft(tags, rs)
    BY DEF Progress
  <1>2. rs \in Seq(RangeType(Len(tags))) /\ Len(rs) \in Nat \ {0}
    BY <1>1 DEF RangesLeft
  <1>3. rest = SubSeq(rs, 2, Len(rs)) /\ Head(rs) = rs[1]
    BY <1>2
  <1>4. PICK e \in 1..Len(rs) : e = 1
    BY <1>2
  <1>5. After(tags, rs, e, rest)
    <2>1. e \in 0..Len(rs) /\ rest = SubSeq(rs, e + 1, Len(rs))
      BY <1>2, <1>3, <1>4
    <2> QED BY <1>1, <2>1, Dropped
  <1>6. /\ Len(rest) \in Nat /\ (rest # <<>> <=> Len(rest) > 0)
        /\ rest # <<>> => Head(rest) = rest[1]
    <2>1. rest \in Seq(RangeType(Len(tags)))
      BY <1>5 DEF After, RangesLeft
    <2> QED BY <2>1, EmptyOrNot
  <1>7. CASE rest # <<>> /\ rest[1].area = rs[1].area
    <2>1. Progress(tags, rest, ps, more)
      BY <1>3, <1>6, <1>7, Continues
    <2> QED BY <1>3, <1>6, <1>7, <2>1 DEF Collected
  <1>8. CASE ~(rest # <<>> /\ rest[1].area = rs[1].area)
    <2>1. ~AreaLeft(rest, rs[1].area)
      <3> SUFFICES ASSUME NEW j \in 1..Len(rest), rest[j].area = rs[1].area PROVE FALSE
        BY DEF AreaLeft
      <3>1. rest # <<>> /\ 1 \in 1..Len(rest)
        BY <1>6
      <3>2. rest[j] = rs[j + 1] /\ j + 1 \in 1..Len(rs) /\ rest[1] = rs[2]
        BY <1>4, <1>5, <3>1 DEF After
      <3>3. rs[j + 1].area = rs[1].area /\ 1 \in 1..Len(rs) /\ 2 \in 1..(j + 1)
        BY <1>2, <3>2
      <3>4. rs[2].area = rs[1].area
        BY <1>1, <3>2, <3>3 DEF RangesLeft, Together
      <3> QED BY <1>8, <3>1, <3>2, <3>4
    <2>3. Whole(tags, rs[1].area, more)
      BY <1>3, <2>1, GroupWhole
    <2>4. rest = SubSeq(rs, e + 1, Len(rs)) /\ \A j \in 1..e : rs[j].area = rs[1].area
      BY <1>3, <1>4
    <2>5. Progress(tags, rest, all, <<>>)
      BY <2>1, <2>3, <2>4, Ends
    <2> QED BY <1>3, <1>6, <1>8, <2>5 DEF Collected
  <1> QED BY <1>7, <1>8

\* With no range left every tag has its point.
LEMMA Complete ==
    ASSUME NEW tags, NEW ps, Progress(tags, <<>>, ps, <<>>)
    PROVE  Len(ps) = Len(tags) /\ {p.tag : p \in ToSet(ps)} = 1..Len(tags)
  <1>1. PICK n : n = Len(tags)
    OBVIOUS
  <1>2. n \in Nat /\ Once(ps)
    BY <1>1 DEF Progress, RangesLeft
  <1>3. \A a : ~AreaLeft(<<>>, a)
    BY DEF AreaLeft
  <1>4. TagsOf(ps) = 1..n
    BY <1>1, <1>3 DEF Progress
  <1> QED BY <1>1, <1>2, <1>4, OneForEach

\* What Fine says of the points as a set.
LEMMA FineSet ==
    ASSUME NEW tags, NEW ps, Sequence(ps), Fine(tags, ps)
    PROVE  \A p \in ToSet(ps) : p.quality = "good" \/ Nowhere(tags[p.tag])
  BY Members DEF Fine

\* Points that name every tag have no nil among them.
LEMMA AllNamed ==
    ASSUME NEW ps, Sequence(ps), NEW n \in Nat, Len(ps) = n, {p.tag : p \in ToSet(ps)} = 1..n
    PROVE  Nil \notin ToSet(ps) /\ {p.tag : p \in ToSet(ps) \ {Nil}} = {i \in 1..n : ps[i] # Nil}
  <1>1. Nil \notin ToSet(ps)
    <2> SUFFICES ASSUME Nil \in ToSet(ps) PROVE FALSE
      OBVIOUS
    <2>1. Nil.tag \in 1..n
      OBVIOUS
    <2> QED BY <2>1 DEF Nil
  <1>2. ToSet(ps) \ {Nil} = ToSet(ps)
    BY <1>1
  <1>3. \A i \in 1..n : ps[i] \in ToSet(ps)
    BY Members
  <1> QED BY <1>1, <1>2, <1>3

-----------------------------------------------------------------------------
(* The invariant of a call                                                 *)

ReadType ==
    /\ device \in ModbusDevices \cup S7Devices
    /\ Len(list) \in Nat /\ \A i \in 1..Len(list) : list[i] \in device
    /\ alive \in BOOLEAN /\ fault \in BOOLEAN /\ (alive \/ fault)
    /\ mode \in {"idle", "ranges", "optimized", "fallback", "singles", "done", "error"}

Quiet == mode = "idle" => list = <<>> /\ points = <<>> /\ got = <<>> /\ resultMap = <<>>

\* readTagGroup: every tag has its point, or waits in a range.
InRanges ==
    mode = "ranges" =>
        /\ device \in ModbusDevices /\ todo # <<>>
        /\ Progress(list, todo, points, got)
        /\ fault \/ (Fine(list, points) /\ Fine(list, got))

\* A point in resultMap is that of its tag.
OwnPoints(tags, map, failed) ==
    \A i \in DOMAIN map :
        /\ i \in 1..Len(tags) /\ map[i].tag = i
        /\ failed \/ map[i].quality = "good" \/ Nowhere(tags[i])

\* readTagsOptimized, the same.
Optimized ==
    mode = "optimized" =>
        /\ device \in S7Devices /\ todo # <<>> /\ points = <<>> /\ got = <<>>
        /\ RangesLeft(list, todo)
        /\ OwnPoints(list, resultMap, fault)
        /\ \A i \in 1..Len(list) : i \in DOMAIN resultMap \/ Waits(todo, i)

\* readTagsFallback: the first tags have a point or nil, the others are still to be read.
FirstOnes(tags, ps, rest) ==
    /\ Sequence(ps) /\ Len(ps) < Len(tags)
    /\ \A k \in 1..Len(ps) : ps[k].tag = k \/ ps[k] = Nil
    /\ rest = [k \in 1..(Len(tags) - Len(ps)) |-> Len(ps) + k]

OneByOne ==
    mode \in {"fallback", "singles"} =>
        /\ device \in S7Devices /\ got = <<>> /\ resultMap = <<>>
        /\ FirstOnes(list, points, todo)
        /\ fault \/ (Fine(list, points) /\ Nil \notin ToSet(points))

ReadInv == ReadType /\ Quiet /\ InRanges /\ Optimized /\ OneByOne /\ AllTagsAnswered

\* No points at all.
LEMMA NoPoints ==
    ASSUME NEW ps, ps = <<>>, NEW tags
    PROVE  Sequence(ps) /\ Len(ps) = 0 /\ Fine(tags, ps) /\ Nil \notin ToSet(ps)
  <1>1. Len(ps) = 0 /\ ps \in Seq(ToSet(ps))
    OBVIOUS
  <1>2. Sequence(ps)
    BY <1>1 DEF Sequence
  <1>3. Nil \notin ToSet(ps)
    BY <1>1, <1>2, Members
  <1> QED BY <1>1, <1>2, <1>3 DEF Fine

\* The invariant holds at first.
LEMMA ReadStarts ==
    TagInit => ReadInv
  <1> SUFFICES ASSUME TagInit PROVE ReadInv
    OBVIOUS
  <1>1. ReadType
    <2>1. PICK l : l = list
      OBVIOUS
    <2>2. Len(l) = 0
      BY <2>1 DEF TagInit
    <2>3. Len(list) = 0 /\ 1..Len(list) = {}
      BY <2>1, <2>2
    <2> QED BY <2>3 DEF TagInit, ReadType
  <1>2. Quiet /\ InRanges /\ Optimized /\ OneByOne /\ AllTagsAnswered
    BY DEF TagInit, Quiet, InRanges, Optimized, OneByOne, AllTagsAnswered
  <1> QED BY <1>1, <1>2 DEF ReadInv

\* All tags that are listed come from a device of the call.
LEMMA ListTags ==
    ASSUME NEW tags, Len(tags) \in Nat, NEW d, \A i \in 1..Len(tags) : tags[i] \in d
    PROVE  /\ d \in ModbusDevices => \A i \in 1..Len(tags) : ValidTag(tags[i]) /\ tags[i].area \in ModbusArea
           /\ d \in S7Devices => \A i \in 1..Len(tags) : ValidTag(tags[i]) /\ tags[i].area \notin ModbusArea
  BY DeviceTags

\* The booleans of S7 have a bit of one byte.
LEMMA S7Tags ==
    ASSUME NEW tags, Len(tags) \in Nat, NEW d \in S7Devices, \A i \in 1..Len(tags) : tags[i] \in d
    PROVE  \A i \in 1..Len(tags) :
              /\ tags[i].area \notin ModbusArea /\ tags[i].addr \in Nat
              /\ tags[i].bool => tags[i].size = 1 /\ tags[i].bit \in 0..(Bits - 1)
  <1> SUFFICES ASSUME NEW i \in 1..Len(tags)
               PROVE  /\ tags[i].area \notin ModbusArea /\ tags[i].addr \in Nat
                      /\ tags[i].bool => tags[i].size = 1 /\ tags[i].bit \in 0..(Bits - 1)
    OBVIOUS
  <1>1. PICK t \in UNION S7Devices : t = tags[i]
    OBVIOUS
  <1>2. /\ t \in [area : STRING \ ModbusArea, addr : Nat, count : {0}, size : {1, 2, 4, 8},
                 bool : BOOLEAN, order : {"BE"}, bit : -1..(Bits - 1)]
        /\ t.bool => t.size = 1 /\ t.bit # -1
    BY TagAssumption
  <1>3. t.area \notin ModbusArea /\ t.addr \in Nat /\ t.bit \in -1..(Bits - 1)
    BY <1>2
  <1>4. Bits \in Nat
    BY BatchAssumption
  <1> QED BY <1>1, <1>2, <1>3, <1>4

\* Positions of the tags.
LEMMA FromTheFirst ==
    ASSUME NEW tags, Len(tags) \in Nat \ {0}, NEW ps, ps = <<>>, NEW rest, rest = Positions(tags)
    PROVE  FirstOnes(tags, ps, rest)
  <1>1. PICK n \in Nat \ {0} : n = Len(tags)
    OBVIOUS
  <1>2. Sequence(ps) /\ Len(ps) = 0
    BY NoPoints
  <1>3. rest = [k \in 1..n |-> k]
    BY <1>1 DEF Positions
  <1>4. n - Len(ps) = n /\ \A k \in 1..n : Len(ps) + k = k
    BY <1>2
  <1>5. rest = [k \in 1..(n - Len(ps)) |-> Len(ps) + k]
    BY <1>3, <1>4
  <1> QED BY <1>1, <1>2, <1>5 DEF FirstOnes

\* ReadTags begins: all tags wait.
LEMMA ReadTagsStep ==
    ASSUME ReadInv, NEW tags \in Lists, ReadTags(tags)
    PROVE  ReadInv'
  <1>1. PICK n \in 1..MaxTags : tags \in [1..n -> device]
    BY DEF Lists
  <1>2. n \in Nat \ {0} /\ Len(tags) = n /\ \A i \in 1..n : tags[i] \in device
    <2>1. MaxTags \in Nat
      BY BatchAssumption
    <2>2. n \in Nat \ {0}
      BY <2>1
    <2>3. tags \in Seq(device) /\ Len(tags) = n
      BY <1>1, <2>2
    <2> QED BY <1>1, <2>2, <2>3
  <1>3. /\ list' = tags /\ device' = device /\ points = <<>> /\ points' = points
        /\ got = <<>> /\ got' = got /\ resultMap = <<>> /\ resultMap' = resultMap
        /\ alive' = alive /\ fault' = fault /\ mode' \in {"ranges", "optimized", "fallback"}
    BY DEF ReadTags, Begin, ReadInv, Quiet
  <1>4. ReadType'
    BY <1>2, <1>3 DEF ReadInv, ReadType
  <1>5. Sequence(points) /\ Fine(tags, points) /\ Nil \notin ToSet(points) /\ Sequence(got) /\ Fine(tags, got)
    BY <1>3, NoPoints
  <1>6. /\ device \in ModbusDevices => \A i \in 1..n : ValidTag(tags[i]) /\ tags[i].area \in ModbusArea
        /\ device \in S7Devices => \A i \in 1..n : ValidTag(tags[i]) /\ tags[i].area \notin ModbusArea
    BY <1>2, ListTags
  <1>7. InRanges'
    <2> SUFFICES ASSUME mode' = "ranges" PROVE InRanges'
      BY DEF InRanges
    <2>1. device \in ModbusDevices /\ todo' \in RangesOf(tags)
      BY DEF ReadTags, Begin
    <2>2. todo' # <<>> /\ Progress(tags, todo', <<>>, <<>>)
      BY <1>2, <1>6, <2>1, Begins
    <2> QED BY <1>3, <1>5, <2>1, <2>2 DEF InRanges
  <1>8. Optimized'
    <2> SUFFICES ASSUME mode' = "optimized" PROVE Optimized'
      BY DEF Optimized
    <2>1. device \in S7Devices /\ todo' \in RangesOf(tags)
      BY DEF ReadTags, Begin
    <2>2. todo' # <<>> /\ RangesLeft(tags, todo') /\ \A i \in 1..n : Waits(todo', i)
      BY <1>2, <1>6, <2>1, Begins
    <2>3. DOMAIN resultMap = {}
      BY <1>3
    <2>4. OwnPoints(tags, resultMap, fault)
      BY <2>3 DEF OwnPoints
    <2> QED BY <1>2, <1>3, <2>1, <2>2, <2>4 DEF Optimized
  <1>9. OneByOne'
    <2> SUFFICES ASSUME mode' = "fallback" PROVE OneByOne'
      BY <1>3 DEF OneByOne
    <2>1. device \in S7Devices /\ todo' = Positions(tags)
      BY DEF ReadTags, Begin
    <2>2. FirstOnes(tags, points, todo')
      BY <1>2, <1>3, <2>1, FromTheFirst
    <2> QED BY <1>3, <1>5, <2>1, <2>2 DEF OneByOne
  <1> QED BY <1>3, <1>4, <1>7, <1>8, <1>9 DEF ReadInv, Quiet, AllTagsAnswered

\* The context ends.
LEMMA CancelStep ==
    ASSUME ReadInv, Cancel
    PROVE  ReadInv'
  <1>1. /\ device' = device /\ list' = list /\ mode' = mode /\ todo' = todo /\ got' = got
        /\ resultMap' = resultMap /\ points' = points /\ fault' = TRUE /\ alive' = FALSE
        /\ mode \in {"ranges", "optimized", "fallback", "singles"}
    BY DEF Cancel
  <1>2. ReadType' /\ Quiet' /\ AllTagsAnswered'
    BY <1>1 DEF ReadInv, ReadType, Quiet, AllTagsAnswered
  <1>3. InRanges' /\ OneByOne'
    BY <1>1 DEF ReadInv, InRanges, OneByOne
  <1>4. OwnPoints(list, resultMap, fault) => OwnPoints(list, resultMap, TRUE)
    BY DEF OwnPoints
  <1>5. Optimized'
    BY <1>1, <1>4 DEF ReadInv, Optimized
  <1> QED BY <1>2, <1>3, <1>5 DEF ReadInv

\* The caller has the result.
LEMMA ReturnStep ==
    ASSUME ReadInv, Return
    PROVE  ReadInv'
  <1>1. /\ device' = device /\ list' = <<>> /\ mode' = "idle" /\ got' = <<>>
        /\ resultMap' = <<>> /\ points' = <<>> /\ fault' = FALSE /\ alive' = TRUE
    BY DEF Return
  <1>2. ReadType'
    <2>1. PICK l : l = list'
      OBVIOUS
    <2>2. Len(l) = 0
      BY <1>1, <2>1
    <2>3. Len(list') = 0 /\ 1..Len(list') = {}
      BY <2>1, <2>2
    <2> QED BY <1>1, <2>3 DEF ReadInv, ReadType
  <1> QED BY <1>1, <1>2 DEF ReadInv, Quiet, InRanges, Optimized, OneByOne, AllTagsAnswered

\* Points that come new are right.
NewRight == \A p \in HasRead' \ HasRead : Right(p)

\* The points of two lists put together, as sets.
LEMMA JoinedSet ==
    ASSUME NEW s, NEW t, Sequence(s), Sequence(t), NEW u, u = s \o t
    PROVE  Sequence(u) /\ ToSet(u) \subseteq ToSet(s) \cup ToSet(t)
  <1>1. Joined(s, t, u)
    BY JoinedSequence
  <1>2. Sequence(u)
    BY <1>1 DEF Joined
  <1>3. ASSUME NEW x \in ToSet(u) PROVE x \in ToSet(s) \cup ToSet(t)
    <2>1. PICK k \in 1..Len(u) : u[k] = x
      BY <1>2, Members
    <2>2. CASE k \in 1..Len(s)
      <3>1. s[k] = x
        BY <1>1, <2>1, <2>2 DEF Joined
      <3> QED BY <2>2, <3>1, Members
    <2>3. CASE k - Len(s) \in 1..Len(t)
      <3>1. PICK l \in 1..Len(t) : l = k - Len(s)
        BY <2>3
      <3>2. Len(s) + l = k
        BY <1>1, <3>1 DEF Joined
      <3>3. t[l] = x
        BY <1>1, <2>1, <3>1, <3>2 DEF Joined
      <3> QED BY <3>3, Members
    <2> QED BY <1>1, <2>1, <2>2, <2>3 DEF Joined
  <1> QED BY <1>2, <1>3

\* A range of Modbus, answered.
LEMMA RangeAnswer ==
    ASSUME NEW n, n = Len(list), n \in Nat, \A i \in 1..n : ValidTag(list[i]),
           NEW r \in RangeType(n), RangeOK(list, r), r.area \in ModbusArea,
           NEW ps, ps = RangePoints(r)
    PROVE  RangeAnswered(r, ps)
  <1>1. \A m \in 1..Len(r.tags) : ValidTag(list[r.tags[m]])
    <2> SUFFICES ASSUME NEW m \in 1..Len(r.tags) PROVE ValidTag(list[r.tags[m]])
      OBVIOUS
    <2>1. r.tags \in Seq(1..n)
      BY DEF RangeType
    <2>2. r.tags[m] \in 1..n
      BY <2>1
    <2> QED BY <2>2
  <1>2. CASE ~Answers(r)
    BY <1>2, RefusedAnswer
  <1>3. CASE Answers(r) /\ Coil(r)
    BY <1>1, <1>3, CoilAnswer
  <1>4. CASE Answers(r) /\ ~Coil(r)
    BY <1>1, <1>4, RegisterAnswer
  <1> QED BY <1>2, <1>3, <1>4

\* Ranges of tags in some areas are in those areas.
LEMMA AreaOf ==
    ASSUME NEW tags, NEW r, RangeOK(tags, r), Len(r.tags) \in Nat, r.tags \in Seq(1..Len(tags))
    PROVE  /\ (\A i \in 1..Len(tags) : tags[i].area \in ModbusArea) => r.area \in ModbusArea
           /\ (\A i \in 1..Len(tags) : tags[i].area \notin ModbusArea) => r.area \notin ModbusArea
           /\ \A m \in 1..Len(r.tags) : r.tags[m] \in 1..Len(tags)
  <1>1. r.tags # <<>> /\ \A m \in 1..Len(r.tags) : Fits(r, tags[r.tags[m]])
    BY DEF RangeOK
  <1>2. 1 \in 1..Len(r.tags)
    BY <1>1
  <1>3. \A m \in 1..Len(r.tags) : r.tags[m] \in 1..Len(tags)
    OBVIOUS
  <1>4. tags[r.tags[1]].area = r.area
    BY <1>1, <1>2 DEF Fits
  <1> QED BY <1>2, <1>3, <1>4

\* New points for the first range.
LEMMA CollectKeeps ==
    ASSUME ReadInv, mode = "ranges", NEW new, PointsFor(todo[1].tags, new), Collect(new),
           fault' \in BOOLEAN, fault => fault', fault' \/ Fine(list, new)
    PROVE  ReadInv' /\ HasRead' \subseteq HasRead \cup ToSet(new)
  <1>1. /\ device \in ModbusDevices /\ todo # <<>> /\ Progress(list, todo, points, got)
        /\ fault \/ (Fine(list, points) /\ Fine(list, got))
    BY DEF ReadInv, InRanges
  <1>2. todo \in Seq(RangeType(Len(list))) /\ Sequence(points) /\ Sequence(got) /\ Sequence(new)
    BY <1>1 DEF Progress, RangesLeft, Once, PointsFor
  <1>3. PICK rest : rest = Tail(todo)
    OBVIOUS
  <1>4. PICK more : more = got \o new
    OBVIOUS
  <1>5. PICK all : all = points \o more
    OBVIOUS
  <1>6. JoinedPoints(got, new, more) /\ Sequence(more) /\ ToSet(more) \subseteq ToSet(got) \cup ToSet(new)
    BY <1>2, <1>4, JoinedTags, JoinedSet
  <1>7. JoinedPoints(points, more, all) /\ Sequence(all) /\ ToSet(all) \subseteq ToSet(points) \cup ToSet(more)
    BY <1>2, <1>5, <1>6, JoinedTags, JoinedSet
  <1>8. fault' \/ (Fine(list, points) /\ Fine(list, got) /\ Fine(list, more) /\ Fine(list, all))
    BY <1>1, <1>6, <1>7 DEF JoinedPoints
  <1>9. /\ device' = device /\ list' = list /\ alive' = alive /\ resultMap' = resultMap
        /\ todo' = rest /\ mode' = IF rest = <<>> THEN "done" ELSE mode
    BY <1>3 DEF Collect
  <1>10. ReadType'
    BY <1>9 DEF ReadInv, ReadType
  <1>11. IF rest = <<>> \/ Head(rest).area # Head(todo).area
         THEN Progress(list, rest, all, <<>>) ELSE Progress(list, rest, points, more)
    <2>1. Collected(list, todo, rest, points, more, all)
      BY <1>1, <1>3, <1>4, <1>5, CollectStep
    <2> QED BY <2>1 DEF Collected
  <1>12. CASE rest = <<>> \/ Head(rest).area # Head(todo).area
    <2>1. points' = all /\ got' = <<>>
      BY <1>3, <1>4, <1>5, <1>12 DEF Collect
    <2>2. Progress(list, rest, all, <<>>)
      BY <1>11, <1>12
    <2>3. PICK none : none = <<>>
      OBVIOUS
    <2>4. Sequence(none) /\ Fine(list, none) /\ ToSet(none) = {}
      <3>1. Sequence(none) /\ Len(none) = 0 /\ Fine(list, none)
        BY <2>3, NoPoints
      <3> QED BY <3>1, Members
    <2>5. HasRead' \subseteq HasRead \cup ToSet(new)
      BY <1>6, <1>7, <1>9, <2>1, <2>3, <2>4 DEF HasRead
    <2>6. CASE rest = <<>>
      <3>1. mode' = "done"
        BY <1>9, <2>6
      <3>2. Len(all) = Len(list) /\ {p.tag : p \in ToSet(all)} = 1..Len(list)
        BY <2>2, <2>6, Complete
      <3>3. fault' \/ \A p \in ToSet(all) : p.quality = "good" \/ Nowhere(list[p.tag])
        BY <1>7, <1>8, FineSet
      <3>4. Nil \notin ToSet(all) /\ {p.tag : p \in ToSet(all) \ {Nil}} = {i \in 1..Len(list) : all[i] # Nil}
        BY <1>7, <3>2, AllNamed DEF ReadInv, ReadType
      <3>5. AllTagsAnswered'
        BY <1>9, <2>1, <3>2, <3>3, <3>4 DEF AllTagsAnswered
      <3> QED BY <1>10, <2>5, <3>1, <3>5 DEF ReadInv, Quiet, InRanges, Optimized, OneByOne
    <2>7. CASE rest # <<>>
      <3>1. mode' = "ranges"
        BY <1>9, <2>7
      <3>2. InRanges'
        BY <1>1, <1>8, <1>9, <2>1, <2>2, <2>3, <2>4, <2>7 DEF InRanges
      <3> QED BY <1>10, <2>5, <3>1, <3>2 DEF ReadInv, Quiet, AllTagsAnswered, Optimized, OneByOne
    <2> QED BY <2>6, <2>7
  <1>13. CASE ~(rest = <<>> \/ Head(rest).area # Head(todo).area)
    <2>1. points' = points /\ got' = more
      BY <1>3, <1>4, <1>13 DEF Collect
    <2>2. mode' = "ranges"
      BY <1>9, <1>13
    <2>3. HasRead' \subseteq HasRead \cup ToSet(new)
      BY <1>6, <1>9, <2>1 DEF HasRead
    <2>4. InRanges'
      BY <1>1, <1>8, <1>9, <1>11, <1>13, <2>1 DEF InRanges
    <2> QED BY <1>10, <2>2, <2>3, <2>4 DEF ReadInv, Quiet, AllTagsAnswered, Optimized, OneByOne
  <1> QED BY <1>12, <1>13

\* Points of which every one is right, as a set.
LEMMA RightSet ==
    ASSUME NEW ps, Sequence(ps), \A m \in 1..Len(ps) : Right(ps[m])
    PROVE  \A p \in ToSet(ps) : Right(p)
  BY Members

\* A range is read: its points are right, and each of its tags has one.
LEMMA ReadRangeStep ==
    ASSUME ReadInv, ReadRange
    PROVE  ReadInv' /\ NewRight
  <1>1. /\ mode = "ranges" /\ device \in ModbusDevices /\ todo # <<>> /\ RangesLeft(list, todo)
        /\ fault' = fault
    BY DEF ReadInv, InRanges, Progress, ReadRange, Modbus
  <1>2. PICK n : n = Len(list)
    OBVIOUS
  <1>3. n \in Nat /\ \A i \in 1..n : ValidTag(list[i]) /\ list[i].area \in ModbusArea
    BY <1>1, <1>2, ListTags DEF ReadInv, ReadType
  <1>4. todo \in Seq(RangeType(n)) /\ 1 \in 1..Len(todo) /\ Head(todo) = todo[1]
    BY <1>1, <1>2 DEF RangesLeft
  <1>5. PICK r : r = todo[1]
    OBVIOUS
  <1>6. r \in RangeType(n) /\ RangeOK(list, r)
    BY <1>1, <1>4, <1>5 DEF RangesLeft
  <1>7. r.tags \in Seq(1..n) /\ Len(r.tags) \in Nat
    BY <1>6 DEF RangeType
  <1>8. r.area \in ModbusArea
    BY <1>2, <1>3, <1>6, <1>7, AreaOf
  <1>9. PICK ps : ps = RangePoints(r)
    OBVIOUS
  <1>10. RangeAnswered(r, ps)
    BY <1>2, <1>3, <1>6, <1>8, <1>9, RangeAnswer
  <1>11. Collect(ps)
    BY <1>4, <1>5, <1>9 DEF ReadRange
  <1>12. PointsFor(todo[1].tags, ps) /\ Fine(list, ps) /\ Sequence(ps) /\ \A m \in 1..Len(ps) : Right(ps[m])
    BY <1>5, <1>10 DEF RangeAnswered, PointsFor
  <1>13. fault' \in BOOLEAN /\ (fault => fault')
    BY <1>1 DEF ReadInv, ReadType
  <1>14. ReadInv' /\ HasRead' \subseteq HasRead \cup ToSet(ps)
    BY <1>1, <1>11, <1>12, <1>13, CollectKeeps
  <1>15. \A p \in ToSet(ps) : Right(p)
    BY <1>12, RightSet
  <1> QED BY <1>14, <1>15 DEF NewRight

\* A range fails: its tags get bad points.
LEMMA ReadRangeFailsStep ==
    ASSUME ReadInv, ReadRangeFails
    PROVE  ReadInv' /\ NewRight
  <1>1. /\ mode = "ranges" /\ todo # <<>> /\ RangesLeft(list, todo) /\ fault' = TRUE
    BY DEF ReadInv, InRanges, Progress, ReadRangeFails, Modbus
  <1>2. PICK n \in Nat : n = Len(list)
    BY DEF ReadInv, ReadType
  <1>3. todo \in Seq(RangeType(n)) /\ 1 \in 1..Len(todo) /\ Head(todo) = todo[1]
    BY <1>1, <1>2 DEF RangesLeft
  <1>4. PICK is \in Seq(1..n) : is = todo[1].tags
    <2>1. todo[1] \in RangeType(n)
      BY <1>3
    <2> QED BY <2>1 DEF RangeType
  <1>5. PICK ps : ps = BadPoints(is)
    OBVIOUS
  <1>6. PointsFor(is, ps) /\ \A m \in 1..Len(ps) : ps[m].quality = "bad"
    BY <1>5, BadAnswer
  <1>7. Collect(ps)
    BY <1>3, <1>4, <1>5 DEF ReadRangeFails
  <1>8. ReadInv' /\ HasRead' \subseteq HasRead \cup ToSet(ps)
    BY <1>1, <1>4, <1>6, <1>7, CollectKeeps
  <1>9. \A p \in ToSet(ps) : Right(p)
    <2>1. Sequence(ps) /\ \A m \in 1..Len(ps) : Right(ps[m])
      BY <1>6 DEF PointsFor, Right
    <2> QED BY <2>1, RightSet
  <1> QED BY <1>8, <1>9 DEF NewRight

\* The bad points of a group: one for each of its tags.
LEMMA BadGroup ==
    ASSUME NEW tags, NEW n \in Nat, n = Len(tags), NEW a, NEW is, GroupOf(tags, a, n, is),
           NEW ps, ps = BadPoints(is)
    PROVE  Whole(tags, a, ps) /\ Sequence(ps) /\ \A p \in ToSet(ps) : p.quality = "bad"
  <1>1. is \in Seq(1..n)
    BY DEF GroupOf
  <1>2. PointsFor(is, ps) /\ \A m \in 1..Len(ps) : ps[m].quality = "bad"
    BY <1>1, BadAnswer
  <1>3. Sequence(ps) /\ Len(ps) = Len(is) /\ \A m \in 1..Len(is) : ps[m].tag = is[m]
    BY <1>2 DEF PointsFor
  <1>4. Once(ps)
    BY <1>3 DEF Once, GroupOf
  <1>5. \A i : i \in TagsOf(ps) <=> \E m \in 1..Len(is) : is[m] = i
    BY <1>3 DEF TagsOf
  <1>6. \A i : i \in TagsOf(ps) <=> i \in 1..n /\ tags[i].area = a
    <2>1. \A m \in 1..Len(is) : is[m] \in 1..n /\ tags[is[m]].area = a
      BY DEF GroupOf
    <2>2. \A i \in 1..n : tags[i].area = a => \E m \in 1..Len(is) : is[m] = i
      BY DEF GroupOf
    <2> QED BY <1>5, <2>1, <2>2
  <1>7. TagsOf(ps) = {i \in 1..n : tags[i].area = a}
    BY <1>6
  <1> QED BY <1>2, <1>3, <1>4, <1>7, Members DEF Whole

\* The context ends a group: what it has read is replaced, and every tag of the group,
\* those of its later ranges, too, has one point.
LEMMA GroupCancelledStep ==
    ASSUME ReadInv, GroupCancelled
    PROVE  ReadInv' /\ NewRight
  <1>1. /\ mode = "ranges" /\ device \in ModbusDevices /\ todo # <<>>
        /\ Progress(list, todo, points, got) /\ RangesLeft(list, todo) /\ fault = TRUE
    BY DEF ReadInv, InRanges, Progress, GroupCancelled, Modbus, ReadType
  <1>2. PICK n \in Nat : n = Len(list)
    BY DEF ReadInv, ReadType
  <1>3. PICK e : e = Present
    OBVIOUS
  <1>4. PICK rest : rest = SubSeq(todo, Present + 1, Len(todo))
    OBVIOUS
  <1>5. /\ e \in 1..Len(todo) /\ \A j \in 1..e : todo[j].area = todo[1].area
        /\ ~AreaLeft(rest, todo[1].area)
    BY <1>1, <1>3, <1>4, PresentGroup
  <1>6. todo \in Seq(RangeType(n))
    BY <1>1, <1>2 DEF RangesLeft
  <1>7. Head(todo) = todo[1]
    BY <1>1, <1>6, EmptyOrNot
  <1>8. PICK a : a = todo[1].area
    OBVIOUS
  <1>9. PICK is : is = Group(a)
    OBVIOUS
  <1>10. GroupOf(list, a, n, is)
    BY <1>2, <1>9, GroupIs
  <1>11. PICK new : new = BadPoints(is)
    OBVIOUS
  <1>12. Whole(list, a, new) /\ Sequence(new) /\ \A p \in ToSet(new) : p.quality = "bad"
    BY <1>2, <1>10, <1>11, BadGroup
  <1>13. PICK all : all = points \o new
    OBVIOUS
  <1>14. /\ device' = device /\ list' = list /\ alive' = alive /\ fault' = TRUE
         /\ resultMap' = resultMap /\ got' = <<>> /\ points' = all /\ todo' = rest
         /\ mode' = IF rest = <<>> THEN "done" ELSE mode
    BY <1>1, <1>4, <1>7, <1>8, <1>9, <1>11, <1>13 DEF GroupCancelled
  <1>15. rest = SubSeq(todo, e + 1, Len(todo)) /\ ~AreaLeft(rest, todo[1].area)
    BY <1>3, <1>4, <1>5
  <1>16. Progress(list, rest, all, <<>>)
    BY <1>1, <1>5, <1>8, <1>12, <1>13, <1>15, Ends
  <1>17. ReadType'
    BY <1>14 DEF ReadInv, ReadType
  <1>18. Sequence(points)
    BY <1>1 DEF Progress, Once
  <1>19. ToSet(all) \subseteq ToSet(points) \cup ToSet(new)
    BY <1>12, <1>13, <1>18, JoinedSet
  <1>20. PICK none : none = <<>>
    OBVIOUS
  <1>21. ToSet(none) = {}
    <2>1. Sequence(none) /\ Len(none) = 0
      BY <1>20, NoPoints
    <2> QED BY <2>1, Members
  <1>22. HasRead' \subseteq HasRead \cup ToSet(new)
    BY <1>14, <1>19, <1>20, <1>21 DEF HasRead
  <1>23. \A p \in ToSet(new) : Right(p)
    BY <1>12 DEF Right
  <1>24. NewRight
    BY <1>22, <1>23 DEF NewRight
  <1>25. CASE rest = <<>>
    <2>1. mode' = "done"
      BY <1>14, <1>25
    <2>2. Len(all) = Len(list) /\ {p.tag : p \in ToSet(all)} = 1..Len(list)
      BY <1>16, <1>25, Complete
    <2>3. Sequence(all)
      BY <1>12, <1>13, <1>18, JoinedSet
    <2>4. Nil \notin ToSet(all) /\ {p.tag : p \in ToSet(all) \ {Nil}} = {i \in 1..Len(list) : all[i] # Nil}
      BY <1>2, <2>2, <2>3, AllNamed
    <2>5. AllTagsAnswered'
      BY <1>14, <2>2, <2>4 DEF AllTagsAnswered
    <2> QED BY <1>17, <1>24, <2>1, <2>5 DEF ReadInv, Quiet, InRanges, Optimized, OneByOne
  <1>26. CASE rest # <<>>
    <2>1. mode' = "ranges"
      BY <1>1, <1>14, <1>26
    <2>2. InRanges'
      BY <1>1, <1>14, <1>16, <1>26 DEF InRanges
    <2> QED BY <1>17, <1>24, <2>1, <2>2 DEF ReadInv, Quiet, AllTagsAnswered, Optimized, OneByOne
  <1> QED BY <1>25, <1>26

-----------------------------------------------------------------------------
(* One tag after the other                                                 *)

\* The next chunk has c members.
Chunked(c) ==
    /\ c \in 1..Len(todo) /\ Len(Chunk) = c
    /\ \A k \in 1..c : Chunk[k] = todo[k]
    /\ Rest = SubSeq(todo, c + 1, Len(todo))

\* The next chunk is not empty.
LEMMA ChunkIs ==
    ASSUME NEW S, todo \in Seq(S), todo # <<>>
    PROVE  \E c \in 1..Len(todo) : Chunked(c)
  <1>1. PICK n \in Nat \ {0} : n = Len(todo)
    BY EmptyOrNot
  <1>2. PICK c : c = IF Len(todo) > MaxItems THEN MaxItems ELSE Len(todo)
    OBVIOUS
  <1>3. MaxItems \in Nat \ {0}
    BY BatchAssumption
  <1>4. c \in 1..n
    BY <1>1, <1>2, <1>3
  <1>5. Chunk = SubSeq(todo, 1, c)
    BY <1>2 DEF Chunk
  <1>6. PICK s : s = SubSeq(todo, 1, c)
    OBVIOUS
  <1>7. Len(s) = c /\ \A k \in 1..c : s[k] = todo[k]
    BY <1>1, <1>4, <1>6
  <1>8. Len(Chunk) = c /\ \A k \in 1..c : Chunk[k] = todo[k]
    BY <1>5, <1>6, <1>7
  <1>9. Rest = SubSeq(todo, c + 1, Len(todo))
    BY <1>8 DEF Rest
  <1> QED BY <1>1, <1>4, <1>8, <1>9 DEF Chunked

\* After some more points.
Grown(tags, more, left) ==
    /\ Sequence(more) /\ \A k \in 1..Len(more) : more[k].tag = k \/ more[k] = Nil
    /\ IF left = <<>> THEN Len(more) = Len(tags) ELSE FirstOnes(tags, more, left)

\* The next tags have their points, in order.
LEMMA MorePoints ==
    ASSUME NEW tags, Len(tags) \in Nat, NEW ps, NEW rest, FirstOnes(tags, ps, rest),
           NEW c \in 1..Len(rest), NEW new, Sequence(new), Len(new) = c,
           \A k \in 1..c : new[k].tag = rest[k] \/ new[k] = Nil,
           NEW more, more = ps \o new, NEW left, left = SubSeq(rest, c + 1, Len(rest))
    PROVE  Grown(tags, more, left)
  <1>1. PICK n \in Nat : n = Len(tags)
    OBVIOUS
  <1>2. Sequence(ps) /\ Len(ps) < n /\ \A k \in 1..Len(ps) : ps[k].tag = k \/ ps[k] = Nil
    BY <1>1 DEF FirstOnes
  <1>3. PICK l \in Nat : l = Len(ps)
    BY <1>2, Members
  <1>4. rest = [k \in 1..(n - l) |-> l + k]
    BY <1>1, <1>3 DEF FirstOnes
  <1>5. PICK d \in Nat : d = n - l
    <2>1. l < n
      BY <1>2, <1>3
    <2> QED BY <2>1
  <1>6. rest = [k \in 1..d |-> l + k] /\ rest \in [1..d -> Int]
    <2>1. rest = [k \in 1..d |-> l + k]
      BY <1>4, <1>5
    <2>2. \A k \in 1..d : l + k \in Int
      OBVIOUS
    <2> QED BY <2>1, <2>2
  <1>7. Len(rest) = d
    BY <1>6
  <1>8. c \in 1..d /\ \A k \in 1..c : new[k].tag = l + k \/ new[k] = Nil
    <2>1. c \in 1..d
      BY <1>7
    <2>2. \A k \in 1..d : rest[k] = l + k
      BY <1>6
    <2>3. \A k \in 1..c : rest[k] = l + k
      BY <2>1, <2>2
    <2>4. ASSUME NEW k \in 1..c PROVE new[k].tag = l + k \/ new[k] = Nil
      BY <2>3
    <2> QED BY <2>1, <2>4
  <1>9. Joined(ps, new, more)
    BY <1>2, JoinedSequence
  <1>10. Sequence(more) /\ Len(more) = l + c
    BY <1>3, <1>9 DEF Joined
  <1>11. ASSUME NEW k \in 1..Len(more) PROVE more[k].tag = k \/ more[k] = Nil
    <2>1. CASE k \in 1..Len(ps)
      BY <1>2, <1>9, <2>1 DEF Joined
    <2>2. CASE k - Len(ps) \in 1..Len(new)
      <3>1. PICK j \in 1..c : j = k - l
        BY <1>3, <2>2
      <3>2. l + j = k /\ Len(ps) + j = k
        BY <1>3, <1>10, <3>1
      <3>3. more[k] = new[j]
        BY <1>9, <3>1, <3>2 DEF Joined
      <3> QED BY <1>8, <3>2, <3>3
    <2> QED BY <1>9, <2>1, <2>2 DEF Joined
  <1>12. PICK e \in Nat : e = d - c
    BY <1>8
  <1>13. left = [k \in 1..e |-> l + c + k]
    <2>1. left = SubSeq(rest, c + 1, d)
      BY <1>7
    <2>2. left = [k \in 1..(d - c) |-> rest[c + k]]
      BY <1>6, <1>8, <2>1, PartOf
    <2>3. \A k \in 1..e : rest[c + k] = l + c + k
      BY <1>6, <1>8, <1>12
    <2> QED BY <1>12, <2>2, <2>3
  <1>14. Len(left) = e /\ n - (l + c) = e /\ l + c \in Nat
    BY <1>5, <1>8, <1>12, <1>13
  <1>15. CASE left = <<>>
    <2>1. e = 0
      BY <1>14, <1>15
    <2>2. Len(more) = n
      BY <1>10, <1>14, <2>1
    <2> QED BY <1>1, <1>10, <1>11, <1>15, <2>2 DEF Grown
  <1>16. CASE left # <<>>
    <2>1. e > 0
      <3>1. CASE e = 0
        BY <1>13, <1>16, <3>1
      <3> QED BY <3>1
    <2>2. Len(more) < n
      BY <1>10, <1>14, <2>1
    <2>3. PICK m \in Nat : m = Len(more) /\ m = l + c
      BY <1>10, <1>14
    <2>4. n - m = e /\ \A k \in 1..e : l + c + k = m + k
      BY <1>14, <2>3
    <2>5. left = [k \in 1..(n - m) |-> m + k]
      BY <1>13, <2>4
    <2>6. FirstOnes(tags, more, left)
      BY <1>1, <1>10, <1>11, <2>2, <2>3, <2>5 DEF FirstOnes
    <2> QED BY <1>10, <1>11, <1>16, <2>6 DEF Grown
  <1> QED BY <1>15, <1>16

\* The k-th point is that of tag k.
LEMMA Numbered ==
    ASSUME NEW ps, Sequence(ps), \A k \in 1..Len(ps) : ps[k].tag = k
    PROVE  {p.tag : p \in ToSet(ps)} = 1..Len(ps)
  <1>1. Len(ps) \in Nat /\ \A x : x \in ToSet(ps) <=> \E k \in 1..Len(ps) : ps[k] = x
    BY Members
  <1>2. ASSUME NEW x \in {p.tag : p \in ToSet(ps)} PROVE x \in 1..Len(ps)
    <2>1. PICK p \in ToSet(ps) : x = p.tag
      OBVIOUS
    <2>2. PICK k \in 1..Len(ps) : ps[k] = p
      BY <1>1
    <2> QED BY <2>1, <2>2
  <1>3. ASSUME NEW k \in 1..Len(ps) PROVE k \in {p.tag : p \in ToSet(ps)}
    <2>1. ps[k] \in ToSet(ps) /\ ps[k].tag = k
      BY <1>1
    <2> QED BY <2>1
  <1> QED BY <1>2, <1>3

\* The same with nil here and there.
LEMMA NumberedOrNil ==
    ASSUME NEW ps, Sequence(ps), \A k \in 1..Len(ps) : ps[k].tag = k \/ ps[k] = Nil
    PROVE  {p.tag : p \in ToSet(ps) \ {Nil}} = {i \in 1..Len(ps) : ps[i] # Nil}
  <1>1. Len(ps) \in Nat /\ \A x : x \in ToSet(ps) <=> \E k \in 1..Len(ps) : ps[k] = x
    BY Members
  <1>2. ASSUME NEW x \in {p.tag : p \in ToSet(ps) \ {Nil}}
        PROVE  x \in {i \in 1..Len(ps) : ps[i] # Nil}
    <2>1. PICK p \in ToSet(ps) \ {Nil} : x = p.tag
      OBVIOUS
    <2>2. PICK k \in 1..Len(ps) : ps[k] = p
      BY <1>1
    <2> QED BY <2>1, <2>2
  <1>3. ASSUME NEW k \in 1..Len(ps), ps[k] # Nil
        PROVE  k \in {p.tag : p \in ToSet(ps) \ {Nil}}
    <2>1. ps[k] \in ToSet(ps) \ {Nil} /\ ps[k].tag = k
      BY <1>1, <1>3
    <2> QED BY <2>1
  <1> QED BY <1>2, <1>3

\* The next tags are answered.
LEMMA AnsweredStep ==
    ASSUME ReadInv, mode \in {"fallback", "singles"}, NEW c \in 1..Len(todo),
           NEW new, Sequence(new), Len(new) = c, \A k \in 1..c : new[k].tag = todo[k] \/ new[k] = Nil,
           NEW left, left = SubSeq(todo, c + 1, Len(todo)),
           NEW next \in {"fallback", "singles"}, Answered(new, left, next),
           fault' \in BOOLEAN, fault => fault', fault' \/ (Fine(list, new) /\ Nil \notin ToSet(new))
    PROVE  ReadInv' /\ HasRead' \subseteq HasRead \cup ToSet(new)
  <1>1. /\ device \in S7Devices /\ got = <<>> /\ resultMap = <<>> /\ FirstOnes(list, points, todo)
        /\ fault \/ (Fine(list, points) /\ Nil \notin ToSet(points))
    BY DEF ReadInv, OneByOne
  <1>2. PICK more : more = points \o new
    OBVIOUS
  <1>3. Grown(list, more, left)
    BY <1>1, <1>2, MorePoints DEF ReadInv, ReadType
  <1>4. Sequence(points)
    BY <1>1 DEF FirstOnes
  <1>5. JoinedPoints(points, new, more) /\ ToSet(more) \subseteq ToSet(points) \cup ToSet(new)
    BY <1>2, <1>4, JoinedTags, JoinedSet
  <1>6. fault' \/ (Fine(list, more) /\ Nil \notin ToSet(more))
    BY <1>1, <1>5 DEF JoinedPoints
  <1>7. /\ device' = device /\ list' = list /\ alive' = alive /\ got' = <<>> /\ resultMap' = <<>>
        /\ points' = more /\ todo' = left /\ mode' = IF left = <<>> THEN "done" ELSE next
    BY <1>1, <1>2 DEF Answered
  <1>8. ReadType'
    BY <1>7 DEF ReadInv, ReadType
  <1>9. HasRead' \subseteq HasRead \cup ToSet(new)
    BY <1>1, <1>5, <1>7 DEF HasRead
  <1>10. CASE left = <<>>
    <2>1. mode' = "done"
      BY <1>7, <1>10
    <2>2. /\ Sequence(more) /\ Len(more) = Len(list)
          /\ \A k \in 1..Len(more) : more[k].tag = k \/ more[k] = Nil
      BY <1>3, <1>10 DEF Grown
    <2>3. {p.tag : p \in ToSet(more) \ {Nil}} = {i \in 1..Len(list) : more[i] # Nil}
      BY <2>2, NumberedOrNil
    <2>4. fault' \/ \A p \in ToSet(more) : p.quality = "good" \/ Nowhere(list[p.tag])
      BY <1>6, <2>2, FineSet
    <2>5. AllTagsAnswered'
      BY <1>1, <1>6, <1>7, <2>2, <2>3, <2>4 DEF AllTagsAnswered
    <2> QED BY <1>8, <1>9, <2>1, <2>5 DEF ReadInv, Quiet, InRanges, Optimized, OneByOne
  <1>11. CASE left # <<>>
    <2>1. mode' = next
      BY <1>7, <1>11
    <2>2. OneByOne'
      BY <1>1, <1>3, <1>6, <1>7, <1>11 DEF OneByOne, Grown
    <2> QED BY <1>8, <1>9, <2>1, <2>2 DEF ReadInv, Quiet, InRanges, Optimized, AllTagsAnswered
  <1> QED BY <1>10, <1>11

\* What is left of the tags.
LEMMA StillToRead ==
    ASSUME NEW tags, Len(tags) \in Nat, NEW ps, NEW rest, FirstOnes(tags, ps, rest)
    PROVE  rest \in Seq(1..Len(tags)) /\ rest # <<>>
  <1>1. PICK n \in Nat : n = Len(tags)
    OBVIOUS
  <1>2. Sequence(ps) /\ Len(ps) < n
    BY <1>1 DEF FirstOnes
  <1>3. PICK l \in Nat : l = Len(ps)
    BY <1>2, Members
  <1>4. PICK d \in Nat \ {0} : d = n - l
    BY <1>2, <1>3
  <1>5. rest = [k \in 1..d |-> l + k]
    BY <1>1, <1>3, <1>4 DEF FirstOnes
  <1>6. \A k \in 1..d : l + k \in 1..n
    BY <1>4
  <1>7. rest \in [1..d -> 1..n]
    BY <1>5, <1>6
  <1>8. PICK seq : seq = rest
    OBVIOUS
  <1>9. seq \in Seq(1..n) /\ Len(seq) = d
    BY <1>7, <1>8
  <1> QED BY <1>1, <1>8, <1>9, EmptyOrNot

\* readTagBatch answers the tags of a chunk.
LEMMA ReadBatchStep ==
    ASSUME ReadInv, NEW bad, ReadBatch(bad)
    PROVE  ReadInv' /\ NewRight
  <1>1. /\ mode = "fallback" /\ device \in S7Devices /\ FirstOnes(list, points, todo)
        /\ Len(list) \in Nat /\ fault \in BOOLEAN /\ fault' = (fault \/ bad # {})
    BY DEF ReadInv, ReadType, OneByOne, ReadBatch
  <1>2. PICK n \in Nat : n = Len(list)
    BY <1>1
  <1>3. todo \in Seq(1..n) /\ todo # <<>>
    BY <1>1, <1>2, StillToRead
  <1>4. PICK c \in 1..Len(todo) : Chunked(c)
    BY <1>3, ChunkIs
  <1>5. /\ Len(Chunk) = c /\ \A k \in 1..c : Chunk[k] = todo[k] /\ todo[k] \in 1..n
    BY <1>3, <1>4 DEF Chunked
  <1>6. PICK new : new = [k \in 1..Len(Chunk) |->
                            IF k \in bad THEN Bad(Chunk[k]) ELSE TagPoint(Chunk[k])]
    OBVIOUS
  <1>7. PICK left : left = Rest
    OBVIOUS
  <1>8. left = SubSeq(todo, c + 1, Len(todo))
    BY <1>4, <1>7 DEF Chunked
  <1>9. Answered(new, left, "fallback")
    BY <1>6, <1>7 DEF ReadBatch
  <1>10. \A i \in 1..n : /\ list[i].area \notin ModbusArea /\ list[i].addr \in Nat
                         /\ list[i].bool => list[i].size = 1 /\ list[i].bit \in 0..(Bits - 1)
    BY <1>1, <1>2, S7Tags DEF ReadInv, ReadType
  <1>11. c \in Nat /\ new = [k \in 1..c |-> new[k]]
    BY <1>3, <1>5, <1>6
  <1>12. Sequence(new) /\ Len(new) = c
    BY <1>11, MadeSequence
  <1>13. ASSUME NEW k \in 1..c
         PROVE  /\ new[k].tag = todo[k] /\ Right(new[k]) /\ new[k] # Nil
                /\ bad = {} => new[k].quality = "good"
    <2>1. PICK i \in 1..n : i = Chunk[k] /\ i = todo[k]
      BY <1>5
    <2>2. new[k] = IF k \in bad THEN Bad(i) ELSE TagPoint(i)
      BY <1>5, <1>6, <2>1
    <2>3. TagPoint(i).tag = i /\ TagPoint(i).quality = "good" /\ Right(TagPoint(i))
      BY <1>1, <1>10, TagAnswer
    <2>4. Bad(i).tag = i /\ Bad(i).quality = "bad"
      BY DEF Bad
    <2>5. Right(Bad(i))
      BY <2>4 DEF Right
    <2>6. new[k].quality # Nil.quality
      BY <2>2, <2>3, <2>4 DEF Nil
    <2> QED BY <2>1, <2>2, <2>3, <2>4, <2>5, <2>6
  <1>14. fault' \/ (Fine(list, new) /\ Nil \notin ToSet(new))
    <2>1. CASE bad = {}
      <3>1. Nil \notin ToSet(new)
        BY <1>12, <1>13, Members
      <3> QED BY <1>12, <1>13, <2>1, <3>1 DEF Fine
    <2>2. CASE bad # {}
      BY <1>1, <2>2
    <2> QED BY <2>1, <2>2
  <1>15. fault' \in BOOLEAN /\ (fault => fault')
    BY <1>1
  <1>16. ReadInv' /\ HasRead' \subseteq HasRead \cup ToSet(new)
    BY <1>1, <1>8, <1>9, <1>12, <1>13, <1>14, <1>15, AnsweredStep
  <1>17. \A p \in ToSet(new) : Right(p)
    BY <1>12, <1>13, RightSet
  <1> QED BY <1>16, <1>17 DEF NewRight

\* ReadTag answers one tag, perhaps with a point that is nil.
LEMMA ReadSingleStep ==
    ASSUME ReadInv, NEW quality \in {"good", "bad", "nil"}, ReadSingle(quality)
    PROVE  ReadInv' /\ NewRight
  <1>1. /\ mode = "singles" /\ device \in S7Devices /\ FirstOnes(list, points, todo)
        /\ Len(list) \in Nat /\ fault \in BOOLEAN
    BY DEF ReadInv, ReadType, OneByOne, ReadSingle
  <1>2. PICK n \in Nat : n = Len(list)
    BY <1>1
  <1>3. todo \in Seq(1..n) /\ todo # <<>>
    BY <1>1, <1>2, StillToRead
  <1>4. PICK i \in 1..n : i = Head(todo) /\ i = todo[1]
    BY <1>3
  <1>5. PICK c \in 1..Len(todo) : c = 1
    BY <1>3
  <1>6. PICK left : left = Tail(todo)
    OBVIOUS
  <1>7. left = SubSeq(todo, c + 1, Len(todo))
    BY <1>3, <1>5, <1>6
  <1>8. PICK p : p = IF quality = "good" THEN SinglePoint(i)
                     ELSE IF quality = "bad" THEN Bad(i) ELSE Nil
    OBVIOUS
  <1>9. PICK next \in {"fallback", "singles"} :
            next = IF (i % MaxItems) = 0 THEN "fallback" ELSE "singles"
    OBVIOUS
  <1>10. PICK new : new = <<p>>
    OBVIOUS
  <1>11. Answered(new, left, next) /\ fault' = (fault \/ quality = "nil" \/ (quality = "bad" /\ Parses(list[i])))
    BY <1>4, <1>6, <1>8, <1>9, <1>10 DEF ReadSingle
  <1>12. /\ list[i].area \notin ModbusArea /\ list[i].addr \in Nat
         /\ list[i].bool => list[i].size = 1 /\ list[i].bit \in 0..(Bits - 1)
    BY <1>1, <1>2, S7Tags DEF ReadInv, ReadType
  <1>13. /\ SinglePoint(i).tag = i /\ SinglePoint(i).quality = "good" /\ Right(SinglePoint(i))
    BY <1>1, <1>12, TagAnswer
  <1>14. Bad(i).tag = i /\ Bad(i).quality = "bad" /\ Nil.quality = "nil"
    BY DEF Bad, Nil
  <1>15. /\ p.tag = i \/ (p = Nil /\ quality = "nil")
         /\ p.quality = quality /\ Right(p)
    <2>1. CASE quality = "good"
      BY <1>8, <1>13, <2>1
    <2>2. CASE quality = "bad"
      BY <1>8, <1>14, <2>2 DEF Right
    <2>3. CASE quality = "nil"
      BY <1>8, <1>14, <2>3 DEF Right
    <2> QED BY <2>1, <2>2, <2>3
  <1>16. Len(new) = 1 /\ new[1] = p /\ new = [k \in 1..1 |-> new[k]]
    BY <1>10
  <1>17. Sequence(new) /\ Len(new) = c
    BY <1>5, <1>16, MadeSequence
  <1>18. \A k \in 1..c : k = 1 /\ new[k] = p /\ (new[k].tag = todo[k] \/ new[k] = Nil) /\ Right(new[k])
    BY <1>4, <1>5, <1>15, <1>16
  <1>19. fault' \in BOOLEAN /\ (fault => fault')
    BY <1>1, <1>11
  <1>20. fault' \/ (Fine(list, new) /\ Nil \notin ToSet(new))
    <2> SUFFICES ASSUME ~fault' PROVE Fine(list, new) /\ Nil \notin ToSet(new)
      BY <1>19
    <2>1. quality = "good" \/ (quality = "bad" /\ ~Parses(list[i]))
      BY <1>11
    <2>2. p.tag = i /\ p # Nil
      BY <1>14, <1>15, <2>1
    <2>3. p.quality = "good" \/ Nowhere(list[p.tag])
      BY <1>15, <2>1, <2>2 DEF Nowhere
    <2>4. Nil \notin ToSet(new)
      BY <1>17, <1>18, <2>2, Members
    <2> QED BY <1>17, <1>18, <2>3, <2>4 DEF Fine
  <1>21. ReadInv' /\ HasRead' \subseteq HasRead \cup ToSet(new)
    BY <1>1, <1>7, <1>11, <1>17, <1>18, <1>19, <1>20, AnsweredStep
  <1>22. \A x \in ToSet(new) : Right(x)
    BY <1>17, <1>18, RightSet
  <1> QED BY <1>21, <1>22 DEF NewRight

\* The fallback begins with the first tag again, whatever was read before.
LEMMA FallbackStep ==
    ASSUME ReadInv, Fallback
    PROVE  ReadInv' /\ NewRight
  <1>1. /\ mode = "optimized" /\ device \in S7Devices /\ points = <<>> /\ got = <<>>
        /\ todo # <<>> /\ RangesLeft(list, todo) /\ Len(list) \in Nat
    BY DEF ReadInv, ReadType, Optimized, Fallback
  <1>2. PICK n \in Nat : n = Len(list)
    BY <1>1
  <1>3. n # 0
    <2>1. todo \in Seq(RangeType(n)) /\ 1 \in 1..Len(todo)
      BY <1>1, <1>2 DEF RangesLeft
    <2>2. PICK r : r = todo[1]
      OBVIOUS
    <2>3. r \in RangeType(n) /\ RangeOK(list, r)
      BY <1>1, <2>1, <2>2 DEF RangesLeft
    <2>4. r.tags \in Seq(1..n) /\ r.tags # <<>>
      BY <2>3 DEF RangeType, RangeOK
    <2>5. r.tags[1] \in 1..n
      BY <2>4
    <2> QED BY <2>5
  <1>4. /\ device' = device /\ list' = list /\ alive' = alive /\ got' = got /\ resultMap' = <<>>
        /\ points' = points /\ todo' = Positions(list) /\ mode' = "fallback" /\ fault' = TRUE
    BY DEF Fallback
  <1>5. FirstOnes(list, points, todo')
    BY <1>1, <1>2, <1>3, <1>4, FromTheFirst
  <1>6. ReadType'
    BY <1>4 DEF ReadInv, ReadType
  <1>7. OneByOne'
    BY <1>1, <1>4, <1>5 DEF OneByOne
  <1>8. HasRead' \subseteq HasRead
    <2>1. PICK none : none = <<>>
      OBVIOUS
    <2>2. Sequence(none) /\ Len(none) = 0
      BY <2>1, NoPoints
    <2>3. ToSet(none) = {}
      BY <2>2, Members
    <2> QED BY <1>4, <2>1, <2>3 DEF HasRead
  <1> QED BY <1>4, <1>6, <1>7, <1>8 DEF ReadInv, Quiet, InRanges, Optimized, AllTagsAnswered, NewRight

\* The fallback returns the error of the context.
LEMMA FallbackCancelledStep ==
    ASSUME ReadInv, FallbackCancelled
    PROVE  ReadInv' /\ NewRight
  <1>1. /\ device' = device /\ list' = list /\ alive' = alive /\ fault' = fault /\ mode' = "error"
        /\ points' = points /\ got' = got /\ resultMap' = resultMap
    BY DEF FallbackCancelled
  <1>2. ReadType'
    BY <1>1 DEF ReadInv, ReadType
  <1> QED BY <1>1, <1>2 DEF ReadInv, Quiet, InRanges, Optimized, OneByOne, AllTagsAnswered, NewRight, HasRead

\* A batch fails.
LEMMA BatchFailsStep ==
    ASSUME ReadInv, BatchFails
    PROVE  ReadInv' /\ NewRight
  <1>1. /\ device' = device /\ list' = list /\ alive' = alive /\ todo' = todo /\ points' = points
        /\ got' = got /\ resultMap' = resultMap /\ mode = "fallback" /\ mode' = "singles"
        /\ fault' = (fault \/ ChunkParses)
    BY DEF BatchFails
  <1>2. fault \in BOOLEAN
    BY DEF ReadInv, ReadType
  <1>3. fault' \in BOOLEAN /\ (fault => fault')
    BY <1>1, <1>2
  <1>4. ReadType'
    BY <1>1, <1>3 DEF ReadInv, ReadType
  <1>5. OneByOne'
    BY <1>1, <1>3 DEF ReadInv, OneByOne
  <1> QED BY <1>1, <1>4, <1>5 DEF ReadInv, Quiet, InRanges, Optimized, AllTagsAnswered, NewRight, HasRead

-----------------------------------------------------------------------------
(* Ranges of S7                                                            *)

\* What item k of a chunk gives.
Item(k, bad, ps) ==
    /\ Sequence(ps)
    /\ \A p \in ToSet(ps) :
          /\ Right(p) /\ \E m : IsAt(todo, p.tag, k, m)
          /\ k \notin bad => p.quality = "good" \/ Nowhere(list[p.tag])
    /\ \A i, m : IsAt(todo, i, k, m) => \E p \in ToSet(ps) : p.tag = i

\* An item of AGReadMulti answers the tags of its range.
LEMMA ItemIs ==
    ASSUME ReadInv, mode = "optimized", NEW bad, NEW k \in 1..Len(todo),
           NEW ps, ps = IF k \in bad THEN BadPoints(todo[k].tags) ELSE S7RangePoints(todo[k])
    PROVE  Item(k, bad, ps)
  <1>1. device \in S7Devices /\ RangesLeft(list, todo) /\ Len(list) \in Nat
    BY DEF ReadInv, ReadType, Optimized
  <1>2. PICK n \in Nat : n = Len(list)
    BY <1>1
  <1>3. PICK r : r = todo[k]
    OBVIOUS
  <1>4. r \in RangeType(n) /\ RangeOK(list, r)
    BY <1>1, <1>2, <1>3 DEF RangesLeft
  <1>5. r.tags \in Seq(1..n) /\ Len(r.tags) \in Nat
    BY <1>4 DEF RangeType
  <1>6. \A i \in 1..n : ValidTag(list[i]) /\ list[i].area \notin ModbusArea
    BY <1>1, <1>2, ListTags DEF ReadInv, ReadType
  <1>7. r.area \notin ModbusArea /\ \A m \in 1..Len(r.tags) : r.tags[m] \in 1..n
    BY <1>2, <1>4, <1>5, <1>6, AreaOf
  <1>8. \A i, m : IsAt(todo, i, k, m) <=> m \in 1..Len(r.tags) /\ r.tags[m] = i
    BY <1>3 DEF IsAt
  <1>9. /\ PointsFor(r.tags, ps) /\ \A m \in 1..Len(ps) : Right(ps[m])
        /\ k \notin bad => Fine(list, ps)
    <2>1. CASE k \in bad
      <3>1. ps = BadPoints(r.tags)
        BY <1>3, <2>1
      <3>2. PointsFor(r.tags, ps) /\ \A m \in 1..Len(ps) : ps[m].quality = "bad"
        BY <1>5, <3>1, BadAnswer
      <3> QED BY <2>1, <3>2 DEF Right
    <2>2. CASE k \notin bad
      <3>1. ps = S7RangePoints(r)
        BY <1>3, <2>2
      <3>2. \A m \in 1..Len(r.tags) : ValidTag(list[r.tags[m]])
        BY <1>6, <1>7
      <3>3. RangeAnswered(r, ps)
        BY <1>4, <1>7, <3>1, <3>2, ItemAnswer
      <3> QED BY <3>3 DEF RangeAnswered
    <2> QED BY <2>1, <2>2
  <1>10. Sequence(ps) /\ Len(ps) = Len(r.tags) /\ \A m \in 1..Len(r.tags) : ps[m].tag = r.tags[m]
    BY <1>9 DEF PointsFor
  <1>11. ASSUME NEW p \in ToSet(ps)
         PROVE  /\ Right(p) /\ \E m : IsAt(todo, p.tag, k, m)
                /\ k \notin bad => p.quality = "good" \/ Nowhere(list[p.tag])
    <2>1. PICK m \in 1..Len(ps) : ps[m] = p
      BY <1>10, Members
    <2>2. IsAt(todo, p.tag, k, m)
      BY <1>8, <1>10, <2>1
    <2> QED BY <1>9, <2>1, <2>2 DEF Fine
  <1>12. ASSUME NEW i, NEW m, IsAt(todo, i, k, m)
         PROVE  \E p \in ToSet(ps) : p.tag = i
    <2>1. m \in 1..Len(ps) /\ ps[m].tag = i
      BY <1>8, <1>10, <1>12
    <2>2. ps[m] \in ToSet(ps)
      BY <1>10, <2>1, Members
    <2> QED BY <2>1, <2>2
  <1> QED BY <1>10, <1>11, <1>12 DEF Item

\* What a chunk of c items gives.
ChunkGives(c, bad, new) ==
    /\ \A p \in new : Right(p) /\ \E k, m : k \in 1..c /\ IsAt(todo, p.tag, k, m)
    /\ bad = {} => \A p \in new : p.quality = "good" \/ Nowhere(list[p.tag])
    /\ \A i, k, m : k \in 1..c /\ IsAt(todo, i, k, m) => \E p \in new : p.tag = i

\* AGReadMulti answers the tags of its ranges.
LEMMA ChunkPointsAre ==
    ASSUME ReadInv, mode = "optimized", NEW bad, NEW c, Chunked(c),
           NEW new, new = ChunkPoints(bad)
    PROVE  ChunkGives(c, bad, new)
  <1>1. c \in 1..Len(todo) /\ Len(Chunk) = c /\ \A k \in 1..c : Chunk[k] = todo[k] /\ k \in 1..Len(todo)
    <2>1. RangesLeft(list, todo)
      BY DEF ReadInv, Optimized
    <2>2. Len(todo) \in Nat
      BY <2>1 DEF RangesLeft
    <2> QED BY <2>2 DEF Chunked
  <1> DEFINE P(k) == IF k \in bad THEN BadPoints(todo[k].tags) ELSE S7RangePoints(todo[k])
  <1>2. new = UNION {ToSet(P(k)) : k \in 1..c}
    <2>1. \A k \in 1..c : (IF k \in bad THEN BadPoints(Chunk[k].tags) ELSE S7RangePoints(Chunk[k])) = P(k)
      BY <1>1
    <2> QED BY <1>1, <2>1 DEF ChunkPoints
  <1>3. \A k \in 1..c : Item(k, bad, P(k))
    BY <1>1, ItemIs
  <1> HIDE DEF P
  <1>4. \A p : p \in new <=> \E k \in 1..c : p \in ToSet(P(k))
    BY <1>2
  <1>5. ASSUME NEW p \in new
        PROVE  /\ Right(p) /\ \E k, m : k \in 1..c /\ IsAt(todo, p.tag, k, m)
               /\ bad = {} => p.quality = "good" \/ Nowhere(list[p.tag])
    <2>1. PICK k \in 1..c : p \in ToSet(P(k))
      BY <1>4
    <2> QED BY <1>3, <2>1 DEF Item
  <1>6. ASSUME NEW i, NEW k, NEW m, k \in 1..c, IsAt(todo, i, k, m)
        PROVE  \E p \in new : p.tag = i
    <2>1. PICK p \in ToSet(P(k)) : p.tag = i
      BY <1>3, <1>6 DEF Item
    <2> QED BY <1>4, <1>6, <2>1
  <1> QED BY <1>5, <1>6 DEF ChunkGives

\* resultMap with the points of a chunk.
Merged(map, new, all) ==
    /\ DOMAIN all = DOMAIN map \cup {p.tag : p \in new}
    /\ \A i \in DOMAIN all :
          \/ all[i] \in new /\ all[i].tag = i
          \/ i \in DOMAIN map /\ all[i] = map[i]

MapWith(map, new, tags) ==
    [i \in DOMAIN map \cup tags |->
        IF i \in tags THEN CHOOSE p \in new : p.tag = i ELSE map[i]]

\* The new points replace nothing but points of the same tag.
LEMMA MergedMap ==
    ASSUME NEW map, NEW new, NEW tags, tags = {p.tag : p \in new},
           NEW all, all = MapWith(map, new, tags)
    PROVE  Merged(map, new, all)
  <1> DEFINE C(i) == CHOOSE p \in new : p.tag = i
  <1>1. ASSUME NEW i \in tags PROVE C(i) \in new /\ C(i).tag = i
    <2>1. \E p \in new : p.tag = i
      OBVIOUS
    <2> QED BY <2>1
  <1>2. PICK D : D = DOMAIN map \cup tags
    OBVIOUS
  <1>3. all = [i \in D |-> IF i \in tags THEN C(i) ELSE map[i]]
    BY <1>2 DEF MapWith
  <1> HIDE DEF C
  <1>4. PICK f : f = [i \in D |-> IF i \in tags THEN C(i) ELSE map[i]]
    OBVIOUS
  <1>5. all = f
    BY <1>3, <1>4
  <1>6. DOMAIN f = D
    BY <1>4
  <1>7. ASSUME NEW i \in D
        PROVE  (f[i] \in new /\ f[i].tag = i) \/ (i \in DOMAIN map /\ f[i] = map[i])
    <2>1. f[i] = IF i \in tags THEN C(i) ELSE map[i]
      BY <1>4
    <2>2. CASE i \in tags
      BY <1>1, <2>1, <2>2
    <2>3. CASE i \notin tags
      BY <1>2, <2>1, <2>3
    <2> QED BY <2>2, <2>3
  <1> QED BY <1>2, <1>5, <1>6, <1>7 DEF Merged

\* AGReadMulti is done: with the last chunk every tag has its point in resultMap.
LEMMA ReadChunkStep ==
    ASSUME ReadInv, NEW bad, ReadChunk(bad)
    PROVE  ReadInv' /\ NewRight
  <1>1. /\ mode = "optimized" /\ device \in S7Devices /\ points = <<>> /\ got = <<>>
        /\ todo # <<>> /\ RangesLeft(list, todo) /\ Len(list) \in Nat
        /\ OwnPoints(list, resultMap, fault)
        /\ \A i \in 1..Len(list) : i \in DOMAIN resultMap \/ Waits(todo, i)
        /\ fault \in BOOLEAN /\ fault' = (fault \/ bad # {})
    BY DEF ReadInv, ReadType, Optimized, ReadChunk
  <1>2. PICK n \in Nat : n = Len(list)
    BY <1>1
  <1>3. todo \in Seq(RangeType(n)) /\ Len(todo) \in Nat
    BY <1>1, <1>2 DEF RangesLeft
  <1>4. PICK c \in 1..Len(todo) : Chunked(c)
    BY <1>1, <1>3, ChunkIs
  <1>5. PICK new : new = ChunkPoints(bad)
    OBVIOUS
  <1>6. ChunkGives(c, bad, new)
    BY <1>1, <1>4, <1>5, ChunkPointsAre
  <1>7. PICK tags : tags = {p.tag : p \in new}
    OBVIOUS
  <1>8. PICK all : all = MapWith(resultMap, new, tags)
    OBVIOUS
  <1>9. Merged(resultMap, new, all)
    BY <1>7, <1>8, MergedMap
  <1>10. PICK rest : rest = Rest
    OBVIOUS
  <1>11. PICK made : made = [i \in 1..Len(list) |-> IF i \in DOMAIN all THEN all[i] ELSE Bad(i)]
    OBVIOUS
  <1>12. /\ device' = device /\ list' = list /\ alive' = alive /\ got' = got
         /\ todo' = rest /\ resultMap' = all
         /\ IF rest # <<>> THEN mode' = mode /\ points' = points
            ELSE mode' = "done" /\ points' = made
    <2>1. device' = device /\ list' = list /\ alive' = alive /\ got' = got /\ todo' = rest
      BY <1>10 DEF ReadChunk
    <2>2. resultMap' = all
      BY <1>5, <1>7, <1>8 DEF ReadChunk, MapWith
    <2>3. CASE rest # <<>>
      BY <1>10, <2>1, <2>2, <2>3 DEF ReadChunk
    <2>4. CASE rest = <<>>
      <3>1. /\ mode' = "done"
            /\ points' = [i \in 1..Len(list) |-> IF i \in DOMAIN resultMap' THEN resultMap'[i] ELSE Bad(i)]
        BY <1>10, <2>4 DEF ReadChunk
      <3> QED BY <1>11, <2>1, <2>2, <2>4, <3>1
    <2> QED BY <2>3, <2>4
  <1>13. fault' \in BOOLEAN /\ (fault => fault') /\ (fault' \/ (~fault /\ bad = {}))
    BY <1>1
  <1>14. ReadType'
    BY <1>12, <1>13 DEF ReadInv, ReadType
  <1>15. rest = SubSeq(todo, c + 1, Len(todo)) /\ c \in 0..Len(todo)
    BY <1>3, <1>4, <1>10 DEF Chunked
  <1>16. After(list, todo, c, rest)
    BY <1>1, <1>15, Dropped
  <1>17. ASSUME NEW i \in DOMAIN all
         PROVE  /\ i \in 1..n /\ all[i].tag = i
                /\ fault' \/ all[i].quality = "good" \/ Nowhere(list[i])
                /\ Right(all[i]) \/ all[i] \in ToSet(resultMap)
    <2>1. CASE all[i] \in new /\ all[i].tag = i
      <3>1. PICK p \in new : p = all[i] /\ p.tag = i
        BY <2>1
      <3>2. PICK k, m : k \in 1..c /\ IsAt(todo, p.tag, k, m)
        BY <1>6 DEF ChunkGives
      <3>3. IsAt(todo, i, k, m)
        BY <3>1, <3>2
      <3>4. i \in 1..Len(list)
        BY <1>1, <3>3, WaitsInArea
      <3>5. Right(p)
        BY <1>6 DEF ChunkGives
      <3>6. bad = {} => p.quality = "good" \/ Nowhere(list[p.tag])
        BY <1>6 DEF ChunkGives
      <3> QED BY <1>2, <1>13, <3>1, <3>4, <3>5, <3>6
    <2>2. CASE i \in DOMAIN resultMap /\ all[i] = resultMap[i]
      <3>1. resultMap[i] \in ToSet(resultMap)
        BY <2>2 DEF ToSet
      <3> QED BY <1>1, <1>2, <1>13, <2>2, <3>1 DEF OwnPoints
    <2> QED BY <1>9, <2>1, <2>2 DEF Merged
  <1>18. OwnPoints(list, all, fault')
    BY <1>2, <1>17 DEF OwnPoints
  <1>19. ASSUME NEW i \in 1..n PROVE i \in DOMAIN all \/ Waits(rest, i)
    <2>1. CASE i \in DOMAIN resultMap
      BY <1>9, <2>1 DEF Merged
    <2>2. CASE Waits(todo, i)
      <3>1. PICK j, m : IsAt(todo, i, j, m)
        BY <2>2 DEF Waits
      <3>2. j \in 1..Len(todo)
        BY <3>1 DEF IsAt
      <3>3. CASE j \in 1..c
        <4>1. PICK p \in new : p.tag = i
          BY <1>6, <3>1, <3>3 DEF ChunkGives
        <4> QED BY <1>9, <4>1 DEF Merged
      <3>4. CASE j \notin 1..c
        <4>1. PICK l \in 1..(Len(todo) - c) : l = j - c
          BY <1>3, <1>4, <3>2, <3>4
        <4>2. l \in 1..Len(rest) /\ l + c = j
          BY <1>3, <1>4, <1>16, <3>2, <4>1 DEF After
        <4>3. IsAt(rest, i, l, m)
          BY <1>16, <3>1, <4>2 DEF After
        <4> QED BY <4>3 DEF Waits
      <3> QED BY <3>3, <3>4
    <2> QED BY <1>1, <1>2, <2>1, <2>2
  <1>20. \A p \in ToSet(all) : Right(p) \/ p \in ToSet(resultMap)
    BY <1>17 DEF ToSet
  <1>21. CASE rest # <<>>
    <2>1. mode' = "optimized" /\ points' = points
      BY <1>1, <1>12, <1>21
    <2>2. RangesLeft(list, rest)
      BY <1>16 DEF After
    <2>3. Optimized'
      BY <1>1, <1>2, <1>12, <1>18, <1>19, <1>21, <2>1, <2>2 DEF Optimized
    <2>4. NewRight
      BY <1>12, <1>20, <2>1 DEF NewRight, HasRead
    <2> QED BY <1>14, <2>1, <2>3, <2>4 DEF ReadInv, Quiet, InRanges, OneByOne, AllTagsAnswered
  <1>22. CASE rest = <<>>
    <2>1. mode' = "done" /\ points' = made
      BY <1>12, <1>22
    <2>2. \A i \in 1..n : ~Waits(rest, i)
      BY <1>22 DEF Waits, IsAt
    <2>3. made = [i \in 1..n |-> made[i]] /\ \A i \in 1..n : made[i] = all[i] /\ i \in DOMAIN all
      BY <1>2, <1>11, <1>19, <2>2
    <2>4. Sequence(made) /\ Len(made) = n
      BY <2>3, MadeSequence
    <2>5. \A i \in 1..Len(made) : made[i].tag = i
      BY <1>17, <2>3, <2>4
    <2>6. {p.tag : p \in ToSet(made)} = 1..n
      BY <2>4, <2>5, Numbered
    <2>7. \A p \in ToSet(made) : p \in ToSet(all) /\ (fault' \/ p.quality = "good" \/ Nowhere(list[p.tag]))
      <3> SUFFICES ASSUME NEW p \in ToSet(made)
                   PROVE  p \in ToSet(all) /\ (fault' \/ p.quality = "good" \/ Nowhere(list[p.tag]))
        OBVIOUS
      <3>1. PICK i \in 1..n : made[i] = p
        BY <2>4, Members
      <3>2. p = all[i] /\ i \in DOMAIN all
        BY <2>3, <3>1
      <3>3. p \in ToSet(all)
        BY <3>2 DEF ToSet
      <3> QED BY <1>17, <3>2, <3>3
    <2>8. AllTagsAnswered'
      <3>1. Nil \notin ToSet(made) /\ {p.tag : p \in ToSet(made) \ {Nil}} = {i \in 1..n : made[i] # Nil}
        BY <2>4, <2>6, AllNamed
      <3> QED BY <1>2, <1>12, <2>1, <2>4, <2>7, <3>1 DEF AllTagsAnswered
    <2>9. NewRight
      BY <1>12, <1>20, <2>1, <2>7 DEF NewRight, HasRead
    <2> QED BY <1>14, <2>1, <2>8, <2>9 DEF ReadInv, Quiet, InRanges, Optimized, OneByOne
  <1> QED BY <1>21, <1>22

\* The other steps leave the points alone, or drop all of them.
LEMMA NothingNew ==
    ASSUME points' = points \/ points' = <<>>, got' = got \/ got' = <<>>,
           resultMap' = resultMap \/ resultMap' = <<>>
    PROVE  NewRight
  <1>1. PICK none : none = <<>>
    OBVIOUS
  <1>2. Sequence(none) /\ Len(none) = 0
    BY <1>1, NoPoints
  <1>3. ToSet(none) = {}
    BY <1>2, Members
  <1>4. ToSet(points') \subseteq ToSet(points) /\ ToSet(got') \subseteq ToSet(got)
    BY <1>1, <1>3
  <1>5. ToSet(resultMap') \subseteq ToSet(resultMap)
    BY <1>1, <1>3
  <1> QED BY <1>4, <1>5 DEF NewRight, HasRead

\* A write, or a step that changes nothing.
LEMMA QuietStep ==
    ASSUME ReadInv, UNCHANGED <<device, callVars>>
    PROVE  ReadInv' /\ NewRight
  <1>1. /\ device' = device /\ list' = list /\ mode' = mode /\ todo' = todo /\ got' = got
        /\ resultMap' = resultMap /\ points' = points /\ alive' = alive /\ fault' = fault
    BY DEF callVars
  <1>2. NewRight
    BY <1>1, NothingNew
  <1> QED BY <1>1, <1>2 DEF ReadInv, ReadType, Quiet, InRanges, Optimized, OneByOne, AllTagsAnswered

\* The invariant is kept by every step, and new points are right.
LEMMA ReadNext ==
    ASSUME ReadInv, [TagNext]_tagVars
    PROVE  ReadInv' /\ NewRight
  <1>1. ASSUME NEW tags \in Lists, ReadTags(tags) PROVE ReadInv' /\ NewRight
    <2>1. ReadInv'
      BY <1>1, ReadTagsStep
    <2>2. points' = points /\ got' = got /\ resultMap' = resultMap
      BY <1>1 DEF ReadTags, Begin
    <2> QED BY <2>1, <2>2, NothingNew
  <1>2. CASE Cancel
    BY <1>2, CancelStep, NothingNew DEF Cancel
  <1>3. CASE Return
    BY <1>3, ReturnStep, NothingNew DEF Return
  <1>4. CASE ReadRange \/ ReadRangeFails \/ GroupCancelled
    BY <1>4, ReadRangeStep, ReadRangeFailsStep, GroupCancelledStep
  <1>5. ASSUME NEW bad \in SUBSET (1..MaxItems), ReadChunk(bad) \/ ReadBatch(bad)
        PROVE  ReadInv' /\ NewRight
    BY <1>5, ReadChunkStep, ReadBatchStep
  <1>6. CASE Fallback \/ FallbackCancelled \/ BatchFails
    BY <1>6, FallbackStep, FallbackCancelledStep, BatchFailsStep
  <1>7. ASSUME NEW quality \in {"good", "bad", "nil"}, ReadSingle(quality)
        PROVE  ReadInv' /\ NewRight
    BY <1>7, ReadSingleStep
  <1>8. ASSUME NEW t \in device, ModbusWriteTag(t) \/ S7WriteTag(t) PROVE ReadInv' /\ NewRight
    <2>1. UNCHANGED <<device, callVars>>
      BY <1>8 DEF ModbusWriteTag, S7WriteTag, Wrote
    <2> QED BY <2>1, QuietStep
  <1>9. CASE UNCHANGED tagVars
    <2>1. UNCHANGED <<device, callVars>>
      BY <1>9 DEF tagVars
    <2> QED BY <2>1, QuietStep
  <1> QED BY <1>1, <1>2, <1>3, <1>4, <1>5, <1>6, <1>7, <1>8, <1>9 DEF TagNext

\* The inductive invariant of a call.
THEOREM ReadInvariant == TagSpec => []ReadInv
  <1>1. ReadInv /\ [TagNext]_tagVars => ReadInv'
    BY ReadNext
  <1> QED BY <1>1, ReadStarts, PTL DEF TagSpec

\* Every tag has exactly one point when ReadTags returns without an error, but for those
\* of S7 at whose place there is nil after a failure.
THEOREM AllTagsAnsweredHolds == TagSpec => []AllTagsAnswered
  <1>1. ReadInv => AllTagsAnswered
    BY DEF ReadInv
  <1> QED BY <1>1, ReadInvariant, PTL

\* A point of good quality holds what the device holds for its tag when it is read, but
\* for the defects that GoodValuesRight excepts by name.
THEOREM GoodValuesRightHolds == TagSpec => GoodValuesRight
  <1>1. ReadInv /\ [TagNext]_tagVars =>
            [\A p \in HasRead' \ HasRead :
                p.quality = "good" =>
                    \/ p.value = Actual(list[p.tag])
                    \/ Masked(p.tag) /\ p.value = {}
                    \/ Disturbed(p.tag) \/ Misread(p.tag) \/ Nowhere(list[p.tag])]_tagVars
    <2> SUFFICES ASSUME ReadInv, [TagNext]_tagVars
                 PROVE  \A p \in HasRead' \ HasRead :
                           p.quality = "good" =>
                               \/ p.value = Actual(list[p.tag])
                               \/ Masked(p.tag) /\ p.value = {}
                               \/ Disturbed(p.tag) \/ Misread(p.tag) \/ Nowhere(list[p.tag])
      OBVIOUS
    <2>1. NewRight
      BY ReadNext
    <2> QED BY <2>1 DEF NewRight, Right
  <1> QED BY <1>1, ReadInvariant, PTL DEF TagSpec, GoodValuesRight
=============================================================================
