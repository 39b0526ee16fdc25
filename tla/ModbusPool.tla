----------------------------- MODULE ModbusPool -----------------------------
(***************************************************************************)
(* The connection pool of internal/adapter/modbus/pool.go with the clients *)
(* it manages (client.go).                                                 *)
(*                                                                         *)
(* An operation gets the device's client under the pool's mutex, which it  *)
(* keeps while it connects, and then runs on that client through the       *)
(* device's circuit breaker without any lock of the pool.  A health check  *)
(* loop reconnects clients that know they are disconnected, a reaper       *)
(* removes the idle ones, RemoveClient removes one, Close stops the loops  *)
(* and disconnects all.                                                    *)
(*                                                                         *)
(* Polling calls ReadTags: batched reads, no retry, and an error of the    *)
(* device becomes a bad quality in the result.  Commands call WriteTag:    *)
(* retries with reconnection, and an error is an error.                    *)
(*                                                                         *)
(* A client and its pooledClient are one object, a member of Clients.      *)
(* MaxTTL, which main does not configure, statistics and metrics are left  *)
(* out.                                                                    *)
(***************************************************************************)
EXTENDS CircuitBreaker, FiniteSets

CONSTANTS
    Devices,
    Pollers,        \* goroutines that call ReadTags
    Commands,       \* goroutines that call WriteTag
    Workloads,      \* who may use which device: sets of pairs; one set is chosen
    Clients,        \* client objects; one is reused when nobody refers to it
    MaxConnections, \* config.MaxConnections
    MaxRetries,     \* config.MaxRetries of a client
    Removals,       \* TRUE if RemoveClient is called
    None

ASSUME PoolAssumption ==
    /\ MaxConnections \in Nat \ {0} /\ MaxRetries \in Nat \ {0}
    /\ Pollers \cap Commands = {} /\ Removals \in BOOLEAN
    /\ Workloads \subseteq SUBSET ((Pollers \cup Commands) \X Devices)
    /\ None \notin Clients \cup Devices \cup Pollers \cup Commands

VARIABLES
    workload,   \* the one of Workloads that this behaviour has
    clients,    \* p.clients: the client of each device, or None
    owner,      \* the device a client was made for
    closed,     \* "open"; "closing": done is closed; "closed"
    mu,         \* the operation that holds p.mu in GetClient, or None
    link,       \* of each client: "off" is not connected; "up"; "broken" is
                \* connected, on a TCP connection that no longer works
    network,    \* devices that can be reached
    breaker,    \* breaker, of each pooledClient
    tally,      \* errors the breaker was told of since it changed, or Answered
    op,         \* the state of each operation
    check,      \* the health check: what it does and to which client
    stale       \* clients whose lastUsed is more than IdleTimeout ago

poolVars == <<clients, owner, closed>>
breakerVars == <<breaker, tally>>
vars == <<workload, poolVars, mu, link, network, breakerVars, op, check, stale>>

Ops == Pollers \cup Commands

Idle == [pc |-> "idle", dev |-> None, client |-> None, breaker |-> None,
         counted |-> FALSE, attempt |-> 0]

Used == {call[2] : call \in workload}   \* the devices in use

connected(c) == link[c] # "off"

Pooled == {clients[d] : d \in Devices} \ {None}
Held == {d \in Devices : clients[d] # None}   \* the keys of p.clients

\* Objects nobody refers to.
Free == {c \in Clients \ Pooled :
            /\ check.client # c
            /\ \A o \in Ops : op[o].client # c /\ op[o].breaker # c}

Init ==
    /\ workload \in Workloads
    /\ clients = [d \in Devices |-> None]
    /\ owner = [c \in Clients |-> None]
    /\ closed = "open" /\ mu = None
    /\ link = [c \in Clients |-> "off"]
    /\ network \in SUBSET Used
    /\ breaker = [c \in Clients |-> NewBreaker] /\ tally = [c \in Clients |-> 0]
    /\ op = [o \in Ops |-> Idle]
    /\ check = [at |-> "wait", client |-> None]
    /\ stale = {}

-----------------------------------------------------------------------------
(* GetClient                                                               *)

\* An operation starts: GetClient takes p.mu, and keeps it until it returns.
GetClient(o, d) ==
    /\ op[o].pc = "idle" /\ mu = None /\ closed = "open"
    /\ <<o, d>> \in workload
    /\ mu' = o
    /\ op' = [op EXCEPT ![o] = [Idle EXCEPT !.pc = "get", !.dev = d]]
    /\ UNCHANGED <<workload, poolVars, link, network, breakerVars, check, stale>>

Current(o) == clients[op[o].dev]   \* the entry of the device at this moment

\* GetClient also takes the mutex of the device's client, if there is one, which
\* the health check holds while it connects.  It returns with p.mu unlocked.
Getting(o) == /\ op[o].pc = "get"
              /\ check.at = "connect" => Current(o) # check.client
              /\ mu' = None

Got(o, c) == op' = [op EXCEPT ![o] = [@ EXCEPT !.pc = "look", !.client = c]]
Return(o) == op' = [op EXCEPT ![o] = Idle]

\* Connect succeeds.
Connects(c) == /\ link' = [link EXCEPT ![c] = "up"]
               /\ stale' = stale \ {c}

GetConnected(o) ==
    /\ Getting(o)
    /\ Current(o) # None /\ connected(Current(o))
    /\ Got(o, Current(o))
    /\ UNCHANGED <<workload, poolVars, link, network, breakerVars, check, stale>>

GetReconnected(o) ==
    /\ Getting(o)
    /\ Current(o) # None /\ ~connected(Current(o)) /\ op[o].dev \in network
    /\ Connects(Current(o))
    /\ Got(o, Current(o))
    /\ UNCHANGED <<workload, poolVars, network, breakerVars, check>>

\* A client is made, connected, and put into the pool.
Create(o, c) ==
    /\ clients' = [clients EXCEPT ![op[o].dev] = c]
    /\ owner' = [owner EXCEPT ![c] = op[o].dev]
    /\ breaker' = [breaker EXCEPT ![c] = NewBreaker] /\ tally' = [tally EXCEPT ![c] = 0]
    /\ Connects(c)
    /\ Got(o, c)
    /\ UNCHANGED <<workload, closed, network, check>>

GetCreated(o) ==
    /\ Getting(o)
    /\ Current(o) = None /\ op[o].dev \in network
    /\ Cardinality(Held) < MaxConnections
    /\ Free # {} /\ Create(o, CHOOSE c \in Free : TRUE)

NoConnection(o) ==
    IF Current(o) # None
    THEN ~connected(Current(o)) /\ op[o].dev \notin network
    ELSE op[o].dev \notin network \/ Cardinality(Held) >= MaxConnections

\* The pool is exhausted, or the device cannot be reached.
GetFails(o) ==
    /\ Getting(o) /\ NoConnection(o)
    /\ Return(o)
    /\ UNCHANGED <<workload, poolVars, link, network, breakerVars, check, stale>>

-----------------------------------------------------------------------------
(* ReadTags and WriteTag on the client                                     *)

\* The device's entry is looked up again, for its breaker: it may be gone, or be
\* another one than the client at hand.  WriteTag sets lastUsed, ReadTags not.
Admit(o) ==
    /\ op[o].pc = "look" /\ mu = None
    /\ Current(o) # None /\ Admits(breaker[Current(o)])
    /\ breaker' = [breaker EXCEPT ![Current(o)] = Admitted(@)]
    /\ op' = [op EXCEPT ![o] = [@ EXCEPT !.pc = "run", !.breaker = Current(o),
                                         !.counted = TRUE]]
    /\ stale' = IF o \in Commands THEN stale \ {op[o].client} ELSE stale
    /\ UNCHANGED <<workload, poolVars, mu, link, network, tally, check>>

\* Variant: nobody notices that the entry is gone.
RefuseOpen(o) ==
    /\ op[o].pc = "look" /\ mu = None
    /\ Current(o) # None /\ breaker[Current(o)].state # "closed"
    /\ ~Admits(breaker[Current(o)])
    /\ Return(o)
    /\ UNCHANGED <<workload, poolVars, mu, link, network, breakerVars, check, stale>>

\* ErrDeviceNotFound, or the breaker refuses.
Refuse(o) ==
    /\ op[o].pc = "look" /\ mu = None
    /\ Current(o) # None => /\ breaker[Current(o)].state # "closed"
                            /\ ~Admits(breaker[Current(o)])
    /\ Return(o)
    /\ UNCHANGED <<workload, poolVars, mu, link, network, breakerVars, check, stale>>

Answered == Threshold + 1

\* Breaker c changes to b.  When its state changes or its counts are cleared,
\* requests in flight no longer count and the tally starts again.
Change(c, b, t, ops) ==
    /\ breaker' = [breaker EXCEPT ![c] = b]
    /\ IF b \in {In("closed"), In("open"), In("half-open")}
       THEN /\ tally' = [tally EXCEPT ![c] = 0]
            /\ op' = [o \in Ops |-> IF ops[o].breaker = c
                                    THEN [ops[o] EXCEPT !.counted = FALSE] ELSE ops[o]]
       ELSE tally' = [tally EXCEPT ![c] = t] /\ op' = ops

\* The request of o ends: b is the breaker after it and t its tally.
Done(o, b, t) ==
    LET ops == [op EXCEPT ![o] = Idle]
    IN  IF op[o].counted THEN Change(op[o].breaker, b, t, ops)
                         ELSE op' = ops /\ UNCHANGED breakerVars

TallyFailure(c) == IF tally[c] >= Threshold THEN tally[c] ELSE tally[c] + 1

Works(c) == link[c] = "up"

\* The device answers.
Succeed(o) ==
    /\ op[o].pc = "run" /\ Works(op[o].client)
    /\ Done(o, Succeeded(breaker[op[o].breaker]), Answered)
    /\ UNCHANGED <<workload, poolVars, mu, link, network, check, stale>>

\* ReadTags failed: an error in the quality of the data points, and no error for
\* the breaker.
ReadFails(o) ==
    /\ o \in Pollers /\ op[o].pc = "run" /\ ~Works(op[o].client)
    /\ Done(o, Succeeded(breaker[op[o].breaker]), Answered)
    /\ UNCHANGED <<workload, poolVars, mu, link, network, check, stale>>

\* Variant: WriteTag returns nil after its last retry.
WriteFailsSilently(o) ==
    /\ o \in Commands /\ op[o].pc = "run"
    /\ Done(o, Succeeded(breaker[op[o].breaker]), TallyFailure(op[o].breaker))
    /\ UNCHANGED <<workload, poolVars, mu, link, network, check, stale>>

\* WriteTag failed for good with an error that is not retried.  The connection
\* may work: the tag is not writable, the value does not convert, the device
\* answers with an exception.  Or it does not: a timeout, EOF, the client is
\* disconnected.  Or the context ended.  The breaker counts them all.
WriteFails(o) ==
    /\ o \in Commands /\ op[o].pc = "run"
    /\ Done(o, Failed(breaker[op[o].breaker]), TallyFailure(op[o].breaker))
    /\ UNCHANGED <<workload, poolVars, mu, link, network, check, stale>>

\* A connection error that is retried: reconnect disconnects first.
WriteDisconnects(o) ==
    /\ o \in Commands /\ op[o].pc = "run"
    /\ link[op[o].client] = "broken"
    /\ link' = [link EXCEPT ![op[o].client] = "off"]
    /\ op' = [op EXCEPT ![o].pc = "reconnect"]
    /\ UNCHANGED <<workload, poolVars, mu, network, breakerVars, check, stale>>

\* reconnect connects, if it can.  After the last attempt WriteTag fails.
WriteReconnects(o) ==
    LET c == op[o].client
    IN  /\ op[o].pc = "reconnect"
        /\ IF owner[c] \in network THEN Connects(c) ELSE UNCHANGED <<link, stale>>
        /\ IF op[o].attempt < MaxRetries
           THEN /\ op' = [op EXCEPT ![o].pc = "run", ![o].attempt = @ + 1]
                /\ UNCHANGED breakerVars
           ELSE Done(o, Failed(breaker[op[o].breaker]), TallyFailure(op[o].breaker))
        /\ UNCHANGED <<workload, poolVars, mu, network, check>>

-----------------------------------------------------------------------------
(* The health check and the reaper, RemoveClient, Close                    *)

\* checkClientHealth finds a client.
CheckLook(c) ==
    /\ check.at = "wait" /\ closed # "closed" /\ mu = None /\ c \in Pooled
    /\ check' = [at |-> "look", client |-> c]
    /\ UNCHANGED <<workload, poolVars, mu, link, network, breakerVars, op, stale>>

\* With the client's mutex: connected, or to be connected.
CheckLock ==
    /\ check.at = "look"
    /\ check' = IF connected(check.client) THEN [at |-> "wait", client |-> None]
                                           ELSE [check EXCEPT !.at = "connect"]
    /\ UNCHANGED <<workload, poolVars, mu, link, network, breakerVars, op, stale>>

CheckConnect ==
    /\ check.at = "connect"
    /\ check' = [at |-> "wait", client |-> None]
    /\ IF owner[check.client] \in network THEN Connects(check.client)
                                          ELSE UNCHANGED <<link, stale>>
    /\ UNCHANGED <<workload, poolVars, mu, network, breakerVars, op>>

\* healthCheckLoop sees done.
CheckEnds ==
    /\ check.at = "wait" /\ closed = "closing"
    /\ check' = [check EXCEPT !.at = "off"]
    /\ UNCHANGED <<workload, poolVars, mu, link, network, breakerVars, op, stale>>

\* Who holds p.mu and wants the mutex of client c too.
Locks(c) == mu = None /\ ~(check.at = "connect" /\ check.client = c)

\* The client is disconnected and taken out of the pool, and its breaker with it:
\* what requests in flight report to that no longer matters.
Drop(c) ==
    /\ clients' = [d \in Devices |-> IF clients[d] = c THEN None ELSE clients[d]]
    /\ link' = [link EXCEPT ![c] = "off"]
    /\ stale' = stale \ {c}
    /\ Change(c, NewBreaker, 0, op)
    /\ UNCHANGED <<workload, owner, closed, mu, network, check>>

\* Variant: the reaper spares idle connections.
ReapNever(c) == c \in Pooled /\ FALSE /\ UNCHANGED vars

Reap(c) ==
    /\ c \in Pooled /\ c \in stale /\ Locks(c) /\ closed # "closed"
    /\ Drop(c)

RemoveClient(c) ==
    /\ Removals /\ c \in Pooled /\ Locks(c)
    /\ Drop(c)

\* main closes the pools when the command handler has stopped and no command is
\* under way (NoUseAfterClose of GatewayShutdown); polls may be.
Close ==
    /\ closed = "open" /\ mu = None
    /\ \A o \in Commands : op[o].pc = "idle"
    /\ closed' = "closing"
    /\ UNCHANGED <<workload, clients, owner, mu, link, network, breakerVars, op, check,
                   stale>>

\* Variant: Close disconnects without waiting for the loops.
CloseDoneNoWait ==
    /\ closed = "closing" /\ mu = None
    /\ closed' = "closed"
    /\ link' = [c \in Clients |-> IF c \in Pooled THEN "off" ELSE link[c]]
    /\ clients' = [d \in Devices |-> None]
    /\ UNCHANGED <<workload, owner, mu, network, breakerVars, op, check, stale>>

\* The loops have ended: everything is disconnected.
CloseDone ==
    /\ closed = "closing" /\ check.at = "off" /\ mu = None
    /\ closed' = "closed"
    /\ link' = [c \in Clients |-> IF c \in Pooled THEN "off" ELSE link[c]]
    /\ clients' = [d \in Devices |-> None]
    /\ UNCHANGED <<workload, owner, mu, network, breakerVars, op, check, stale>>

-----------------------------------------------------------------------------
(* The environment                                                         *)

\* A connection that broke stays broken until it is made anew.
NetworkDown(d) ==
    /\ d \in network
    /\ network' = network \ {d}
    /\ link' = [c \in Clients |-> IF owner[c] = d /\ connected(c) THEN "broken"
                                                               ELSE link[c]]
    /\ UNCHANGED <<workload, poolVars, mu, breakerVars, op, check, stale>>

NetworkUp(d) ==
    /\ d \notin network
    /\ network' = network \cup {d}
    /\ UNCHANGED <<workload, poolVars, mu, link, breakerVars, op, check, stale>>

\* IdleTimeout passes for client c.  It is minutes long and WriteTag, which set
\* lastUsed when it began, is not: none is under way.
TimePasses(c) ==
    /\ c \in Pooled \ stale
    /\ \A o \in Commands : op[o].client # c
    /\ stale' = stale \cup {c}
    /\ UNCHANGED <<workload, poolVars, mu, link, network, breakerVars, op, check>>

\* The breaker's Interval or Timeout passes.
BreakerTime(c) ==
    /\ c \in Pooled /\ breaker[c].state # "half-open"
    /\ Change(c, Cleared(breaker[c]), 0, op)
    /\ UNCHANGED <<workload, poolVars, mu, link, network, check, stale>>

-----------------------------------------------------------------------------

Steps(o) == \/ GetConnected(o) \/ GetReconnected(o) \/ GetCreated(o) \/ GetFails(o)
            \/ Admit(o) \/ Refuse(o)
            \/ Succeed(o) \/ ReadFails(o) \/ WriteFails(o)
            \/ WriteDisconnects(o) \/ WriteReconnects(o)

Checks == CheckLock \/ CheckConnect \/ CheckEnds

Next == \/ \E o \in Ops : \/ \E d \in Devices : GetClient(o, d)
                          \/ Steps(o)
        \/ \E c \in Clients : \/ CheckLook(c) \/ Reap(c) \/ RemoveClient(c)
                              \/ TimePasses(c) \/ BreakerTime(c)
        \/ Checks
        \/ Close \/ CloseDone
        \/ \E d \in Used : NetworkDown(d) \/ NetworkUp(d)

Spec == Init /\ [][Next]_vars

\* Goroutines run on and every call of the network ends: Steps, Checks, CloseDone.
\* Go's mutexes and select starve nobody (SF).  Tickers go on ticking, and a
\* client that no command uses any more gets idle; one that commands keep using
\* need not.
FairSpec ==
    /\ Spec
    /\ \A o \in Ops : SF_vars(Steps(o))
    /\ WF_vars(CheckLock \/ CheckConnect \/ CloseDone) /\ SF_vars(CheckEnds)
    /\ \A c \in Clients : /\ SF_vars(Reap(c))
                          /\ WF_vars(TimePasses(c)) /\ WF_vars(BreakerTime(c))

-----------------------------------------------------------------------------
(* Properties                                                              *)

\* Types of the variables; the pool keeps to MaxConnections.
TypeOK ==
    /\ clients \in [Devices -> Clients \cup {None}]
    /\ Cardinality(Held) <= MaxConnections
    /\ owner \in [Clients -> Devices \cup {None}]
    /\ closed \in {"open", "closing", "closed"}
    /\ mu \in Ops \cup {None}
    /\ link \in [Clients -> {"off", "up", "broken"}]
    /\ network \subseteq Devices
    /\ breaker \in [Clients -> Breaker] /\ tally \in [Clients -> 0..Answered]
    /\ op \in [Ops -> [pc : {"idle", "get", "look", "run", "reconnect"},
                      dev : Devices \cup {None}, client : Clients \cup {None},
                      breaker : Clients \cup {None}, counted : BOOLEAN, attempt : 0..MaxRetries]]
    /\ check \in [at : {"wait", "look", "connect", "off"}, client : Clients \cup {None}]
    /\ stale \subseteq Clients

Pool == INSTANCE DevicePool WITH
    Device <- Devices, Connection <- Clients, Capacity <- MaxConnections,
    held <- Held,
    links <- {c \in Clients : connected(c)},
    phase <- closed

\* The pool keeps its promise while operations, the health check, the reaper,
\* RemoveClient and Close interleave: the capacity holds, and once Close has
\* returned nothing is connected any more, since the loops that could do it have
\* ended and GetClient refuses.
ImplementsDevicePool == Pool!Spec

\* A breaker is not closed when all requests it counted, Threshold of them or
\* more, have ended with an error.
BreakerTrips ==
    \A c \in Pooled :
        tally[c] = Threshold /\ ~(\E o \in Ops : op[o].breaker = c /\ op[o].counted)
            => breaker[c].state # "closed"

\* Every operation returns, whatever the devices, the health check and Close do,
\* and so does Close: nobody waits for p.mu or a client's mutex for ever.
CallsReturn ==
    /\ \A o \in Ops : []<>(op[o].pc = "idle")
    /\ []<>(closed # "closing")

\* A device that can be reached, and that commands leave alone, does not keep a
\* broken connection for ever, though the reads that fail on it never reconnect:
\* the reaper takes it.  Commands may keep it for ever: each sets lastUsed, and
\* an error wrapped with %v is not one that reconnects.
DeviceRecovers ==
    \A d \in Devices :
        <>[](d \in network /\ \A o \in Commands : op[o].dev # d) =>
            []<>(clients[d] = None \/ Works(clients[d]) \/ closed # "open")
=============================================================================
