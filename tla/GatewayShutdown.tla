--------------------------- MODULE GatewayShutdown ---------------------------
(***************************************************************************)
(* The shutdown sequence at the end of main (cmd/gateway/main.go) and the  *)
(* goroutines it has to outlive.                                           *)
(*                                                                         *)
(* main stops the health checker, the HTTP server, the command handler and *)
(* the polling service, then closes the protocol pools, then disconnects   *)
(* the MQTT publisher.  One context of 30 seconds, shutdownCtx, bounds the *)
(* HTTP and the polling step together.  The components appear here by what *)
(* they promise to main; PollingService, CommandHandler and MqttPublisher  *)
(* model them in detail.                                                   *)
(***************************************************************************)
EXTENDS Naturals, FiniteSets

CONSTANTS
    Pollers,       \* goroutines of polled devices
    Pushers,       \* notification handlers of devices in push mode
    Requests,      \* HTTP requests
    Pools,         \* protocol pools
    OPCUA,         \* the pool of OPC UA devices
    PoolOf,        \* the pool of a polled device
    Slow           \* who may take longer than 30s: "requests", "pollers"

ASSUME ShutdownAssumption ==
    /\ OPCUA \in Pools
    /\ PoolOf \in [Pollers -> Pools]
    /\ Slow \subseteq {"requests", "pollers"}

VARIABLES
    step,       \* what main is doing
    open,       \* pools that are not closed
    mqtt,       \* TRUE until the publisher is disconnected
    expired,    \* shutdownCtx has expired
    checking,   \* checkLoop of the health checker is in runChecks
    request,    \* state of each request
    processor,  \* the command processor
    started,    \* pollingSvc.started
    cancelled,  \* pollingSvc.ctx is cancelled
    poller,     \* state of each poller
    pusher      \* state of each notification handler

mainVars == <<step, open, mqtt, expired>>
pollingVars == <<started, cancelled, poller>>
gatewayVars == <<mainVars, checking, request, processor, pollingVars, pusher>>

RequestState == {"none", "handle", "browse", "done"}
PollerState == {"none", "select", "read", "publish", "off"}

\* main after start-up, with a command handler whose Start succeeded.
GatewayInit ==
    /\ step = "serve"
    /\ open = Pools /\ mqtt = TRUE /\ expired = FALSE
    /\ checking = FALSE
    /\ request = [r \in Requests |-> "none"]
    /\ processor = "wait"
    /\ started = TRUE /\ cancelled = FALSE
    /\ poller \in [Pollers -> {"none", "select"}]
    /\ pusher = [p \in Pushers |-> "wait"]

-----------------------------------------------------------------------------
(* The work of the components                                              *)

HealthRound ==
    /\ ~checking /\ step \in {"serve", "health"}
    /\ checking' = TRUE
    /\ UNCHANGED <<mainVars, request, processor, pollingVars, pusher>>

HealthRoundEnds ==
    /\ checking
    /\ checking' = FALSE
    /\ UNCHANGED <<mainVars, request, processor, pollingVars, pusher>>

\* The listener accepts until httpServer.Shutdown.
RequestArrives(r) ==
    /\ request[r] = "none" /\ step \in {"serve", "health"}
    /\ \E s \in {"handle", "browse"} : request' = [request EXCEPT ![r] = s]
    /\ UNCHANGED <<mainVars, checking, processor, pollingVars, pusher>>

\* POST and PUT of a device reach RegisterDevice and ReplaceDevice, which start
\* a poller if the service is started.
RequestRegisters(r, p) ==
    /\ request[r] = "handle" /\ poller[p] = "none" /\ started
    /\ poller' = [poller EXCEPT ![p] = "select"]
    /\ request' = [request EXCEPT ![r] = "done"]
    /\ UNCHANGED <<mainVars, checking, processor, started, cancelled, pusher>>

RequestDone(r) ==
    /\ request[r] \in {"handle", "browse"}
    /\ request' = [request EXCEPT ![r] = "done"]
    /\ UNCHANGED <<mainVars, checking, processor, pollingVars, pusher>>

CommandArrives ==
    /\ processor = "wait" /\ mqtt
    /\ processor' = "write"
    /\ UNCHANGED <<mainVars, checking, request, pollingVars, pusher>>

CommandWritten ==
    /\ processor = "write"
    /\ processor' = "respond"
    /\ UNCHANGED <<mainVars, checking, request, pollingVars, pusher>>

CommandAnswered ==
    /\ processor = "respond"
    /\ processor' = "wait"
    /\ UNCHANGED <<mainVars, checking, request, pollingVars, pusher>>

\* A tick: select may choose it over a cancelled context.
PollBegins(p) ==
    /\ poller[p] = "select"
    /\ poller' = [poller EXCEPT ![p] = "read"]
    /\ UNCHANGED <<mainVars, checking, request, processor, started, cancelled, pusher>>

\* The read succeeded, or failed and ends the cycle.
PollRead(p) ==
    /\ poller[p] = "read"
    /\ \E s \in {"publish", "select"} : poller' = [poller EXCEPT ![p] = s]
    /\ UNCHANGED <<mainVars, checking, request, processor, started, cancelled, pusher>>

PollPublished(p) ==
    /\ poller[p] = "publish"
    /\ poller' = [poller EXCEPT ![p] = "select"]
    /\ UNCHANGED <<mainVars, checking, request, processor, started, cancelled, pusher>>

PollerExits(p) ==
    /\ poller[p] = "select" /\ cancelled
    /\ poller' = [poller EXCEPT ![p] = "off"]
    /\ UNCHANGED <<mainVars, checking, request, processor, started, cancelled, pusher>>

PushBegins(p) ==
    /\ pusher[p] = "wait" /\ OPCUA \in open
    /\ pusher' = [pusher EXCEPT ![p] = "publish"]
    /\ UNCHANGED <<mainVars, checking, request, processor, pollingVars>>

PushPublished(p) ==
    /\ pusher[p] = "publish"
    /\ pusher' = [pusher EXCEPT ![p] = "wait"]
    /\ UNCHANGED <<mainVars, checking, request, processor, pollingVars>>

-----------------------------------------------------------------------------
(* main                                                                    *)

Go(from, to) == step = from /\ step' = to

\* SIGINT or SIGTERM: shutdownCtx starts to run.
Signal ==
    /\ Go("serve", "health")
    /\ UNCHANGED <<open, mqtt, expired, checking, request, processor, pollingVars,
                   pusher>>

\* shutdownCtx expires while main waits for a slow request or poll cycle.
Expire ==
    /\ ~expired
    /\ \/ /\ step = "http" /\ "requests" \in Slow
          /\ \E r \in Requests : request[r] \in {"handle", "browse"}
       \/ /\ step = "polling" /\ "pollers" \in Slow
          /\ \E p \in Pollers : poller[p] \in {"read", "publish"}
    /\ expired' = TRUE
    /\ UNCHANGED <<step, open, mqtt, checking, request, processor, pollingVars, pusher>>

\* healthChecker.Stop waits for checkLoop.
HealthStopped ==
    /\ Go("health", "http") /\ ~checking
    /\ UNCHANGED <<open, mqtt, expired, checking, request, processor, pollingVars,
                   pusher>>

\* Variant: httpServer.Close, which does not wait for the handlers.
HttpStoppedNoDrain ==
    /\ Go("http", "command")
    /\ UNCHANGED <<open, mqtt, expired, checking, request, processor, pollingVars,
                   pusher>>

\* httpServer.Shutdown waits for the handlers, or for its context.
HttpStopped ==
    /\ Go("http", "command")
    /\ expired \/ \A r \in Requests : request[r] \in {"none", "done"}
    /\ UNCHANGED <<open, mqtt, expired, checking, request, processor, pollingVars,
                   pusher>>

\* cmdHandler.Stop waits for the processor.  pollingSvc.Stop begins: its context
\* is cancelled.
CommandStopped ==
    /\ Go("command", "polling")
    /\ processor = "wait" /\ processor' = "off"
    /\ cancelled' = TRUE
    /\ UNCHANGED <<open, mqtt, expired, checking, request, started, poller, pusher>>

\* Variant: pollingSvc.Stop does not look at its context.
PollingStoppedNoContext ==
    /\ Go("polling", "opcua")
    /\ \A p \in Pollers : poller[p] \in {"none", "off"}
    /\ started' = FALSE
    /\ UNCHANGED <<open, mqtt, expired, checking, request, processor, cancelled, poller,
                   pusher>>

\* pollingSvc.Stop waits for the pollers, or for shutdownCtx.
PollingStopped ==
    /\ Go("polling", "opcua")
    /\ expired \/ \A p \in Pollers : poller[p] \in {"none", "off"}
    /\ started' = FALSE
    /\ UNCHANGED <<open, mqtt, expired, checking, request, processor, cancelled, poller,
                   pusher>>

\* Variant: the subscription managers are not stopped.
OpcuaClosedNoStop ==
    /\ Go("opcua", "pools")
    /\ open' = open \ {OPCUA}
    /\ UNCHANGED <<mqtt, expired, checking, request, processor, pollingVars, pusher>>

\* opcuaPool.Close stops the subscription managers, which wait for their
\* notification handlers.
OpcuaClosed ==
    /\ Go("opcua", "pools")
    /\ \A p \in Pushers : pusher[p] = "wait"
    /\ open' = open \ {OPCUA}
    /\ pusher' = [p \in Pushers |-> "off"]
    /\ UNCHANGED <<mqtt, expired, checking, request, processor, pollingVars>>

\* modbusPool.Close and s7Pool.Close wait for no reader.
PoolsClosed ==
    /\ Go("pools", "mqtt")
    /\ open' = {}
    /\ UNCHANGED <<mqtt, expired, checking, request, processor, pollingVars, pusher>>

\* mqttPublisher.Disconnect; main returns.
Disconnected ==
    /\ Go("mqtt", "exit")
    /\ mqtt' = FALSE
    /\ UNCHANGED <<open, expired, checking, request, processor, pollingVars, pusher>>

Main == \/ Signal \/ HealthStopped \/ HttpStopped \/ CommandStopped \/ PollingStopped
        \/ OpcuaClosed \/ PoolsClosed \/ Disconnected

Commands == CommandArrives \/ CommandWritten \/ CommandAnswered
RequestSteps(r) == \/ RequestArrives(r) \/ RequestDone(r)
                   \/ \E p \in Pollers : RequestRegisters(r, p)
Polling(p) == PollBegins(p) \/ PollRead(p) \/ PollPublished(p) \/ PollerExits(p)
Pushing(p) == PushBegins(p) \/ PushPublished(p)

\* When main has returned the process ends, with every goroutine in it.
GatewayNext ==
    /\ step # "exit"
    /\ \/ Main \/ Expire
       \/ HealthRound \/ HealthRoundEnds
       \/ \E r \in Requests : RequestSteps(r)
       \/ Commands
       \/ \E p \in Pollers : Polling(p)
       \/ \E p \in Pushers : Pushing(p)

GatewaySpec == GatewayInit /\ [][GatewayNext]_gatewayVars

\* main's steps end: each Stop is seen by the loop it stops (select does not
\* ignore a closed channel for ever), runChecks, device writes and the publishes
\* of MqttPublisher have timeouts, and so has shutdownCtx.  Requests and poll
\* cycles may hang, and so may the response to a command, whose wait for the
\* broker has no timeout: there is no fairness on CommandAnswered.
Fairness ==
    /\ SF_gatewayVars(Main) /\ WF_gatewayVars(Expire)
    /\ WF_gatewayVars(HealthRoundEnds)
    /\ WF_gatewayVars(CommandWritten)
    /\ \A p \in Pollers : SF_gatewayVars(PollerExits(p))
    /\ \A p \in Pushers : WF_gatewayVars(PushPublished(p))

FairGatewaySpec == GatewaySpec /\ Fairness

-----------------------------------------------------------------------------
(* Properties                                                              *)

\* Types of the variables.
GatewayTypeOK ==
    /\ step \in {"serve", "health", "http", "command", "polling", "opcua", "pools",
                 "mqtt", "exit"}
    /\ open \in {Pools, Pools \ {OPCUA}, {}}
    /\ {mqtt, expired, checking, started, cancelled} \subseteq BOOLEAN
    /\ request \in [Requests -> RequestState]
    /\ processor \in {"wait", "write", "respond", "off"}
    /\ poller \in [Pollers -> PollerState]
    /\ pusher \in [Pushers -> {"wait", "publish", "off"}]

InTime ==
    /\ \A p \in Pollers : poller[p] = "read" => PoolOf[p] \in open
    /\ \A r \in Requests : request[r] = "browse" => OPCUA \in open
    /\ ~mqtt => /\ \A p \in Pollers : poller[p] # "publish"
                /\ \A p \in Pushers : pusher[p] # "publish"

\* As long as shutdownCtx has not expired, no component uses a pool that is
\* closed, or the publisher once it is disconnected ("no component tries to use
\* a resource that has already been torn down").  A command never does.
NoUseAfterClose ==
    /\ processor = "write" => open = Pools
    /\ processor = "respond" => mqtt
    /\ ~expired => InTime

\* When main calls Disconnect in time nobody is left who could publish: what the buffer
\* holds then is all there is to flush.
NoProducerAtDisconnect ==
    step = "mqtt" /\ ~expired =>
        /\ processor = "off"
        /\ \A p \in Pollers : poller[p] \in {"none", "off"}
        /\ \A p \in Pushers : pusher[p] = "off"
        /\ \A r \in Requests : request[r] \in {"none", "done"}

\* The process ends after a signal, even when a request and a poller hang, as
\* long as responses to commands return: cmdHandler.Stop waits for the processor,
\* and it for the broker, outside shutdownCtx.
ShutdownEnds ==
    []<>(processor # "respond") => ((step = "health") ~> (step = "exit"))
=============================================================================
