------------------------------- MODULE S7Pool -------------------------------
(***************************************************************************)
(* The connection pool of internal/adapter/s7/pool.go with the clients it  *)
(* manages (client.go).                                                    *)
(*                                                                         *)
(* An operation looks its device's entry up and, if there is none, makes   *)
(* one with GetOrCreate and looks it up again, without asking whether it   *)
(* is still there.  It runs on the entry's client through the entry's      *)
(* circuit breaker without any lock of the pool.  A health check loop      *)
(* connects clients that know they are disconnected, unless the breaker is *)
(* open; a reaper removes the entries whose lastUse is old.                *)
(*                                                                         *)
(* Only GetOrCreate sets lastUse, and the pool finds entries by the id of  *)
(* the device: an entry in use is reaped like any other, and one whose     *)
(* device was given a new address goes on to use the old one until then.   *)
(*                                                                         *)
(* GetOrCreate dials with p.mu locked, the health check with the client's  *)
(* mutex locked, which is the last one anybody takes: each is one step     *)
(* here.  A breaker is open or not; what it counts, when it opens and how  *)
(* it probes is in CircuitBreaker.  The number of attempts is left open:   *)
(* each tag of a poll has its own.  MaxTTL, which main does not configure, *)
(* Remove, which nobody calls, statistics and metrics are left out.        *)
(***************************************************************************)
EXTENDS Naturals, FiniteSets

CONSTANTS
    Devices,
    Pollers,        \* goroutines that call ReadTags
    Commands,       \* goroutines that call WriteTag
    Workloads,      \* who may use which device: sets of pairs; one set is chosen
    Clients,        \* entries with their clients; one is reused when nobody
                    \* refers to it
    MaxConnections, \* maxConnections
    Moving,         \* devices whose address may change
    MaxMoves,       \* bound: number of these changes, of each
    None

ASSUME PoolAssumption ==
    /\ MaxConnections \in Nat \ {0} /\ MaxMoves \in Nat
    /\ Pollers \cap Commands = {} /\ Moving \subseteq Devices
    /\ Workloads \subseteq SUBSET ((Pollers \cup Commands) \X Devices)
    /\ None \notin Clients \cup Devices \cup Pollers \cup Commands
    /\ "off" \notin Clients \cup {None}

VARIABLES
    workload, \* the one of Workloads that this behaviour has
    clients,  \* p.clients: the entry of each device, or None
    closed,   \* "open"; "closing": stopChan is closed; "closed"
    address,  \* device.Connection, as callers pass it: the number of its changes
    target,   \* the device and address a client was made for, or None
    link,     \* of each client: "off" is not connected; "up"; "broken" is
              \* connected, on a TCP connection that no longer works
    network,  \* devices and addresses that answer
    breaker,  \* of each entry: "closed", "open", "half-open"
    stale,    \* entries whose lastUse is more than idleTimeout ago
    op,       \* the state of each operation
    check,    \* the client the health check is about to connect, None or "off"
    reaper    \* TRUE while idleReaperLoop runs

poolVars == <<workload, clients, closed>>
netVars == <<address, network>>
vars == <<poolVars, netVars, target, link, breaker, stale, op, check, reaper>>

Ops == Pollers \cup Commands
Address == Devices \X (0..MaxMoves)
Current(d) == <<d, address[d]>>   \* the device as its callers know it

Idle == [pc |-> "idle", dev |-> None, client |-> None]

connected(c) == link[c] # "off"
Works(c) == link[c] = "up"

Pooled == {clients[d] : d \in Devices} \ {None}
Held == {d \in Devices : clients[d] # None}   \* the keys of p.clients

\* Objects nobody refers to.
Free == {c \in Clients \ Pooled : check # c /\ \A o \in Ops : op[o].client # c}

Used == {call[2] : call \in workload}   \* the devices in use

Init ==
    /\ workload \in Workloads
    /\ clients = [d \in Devices |-> None] /\ closed = "open"
    /\ address = [d \in Devices |-> 0]
    /\ target = [c \in Clients |-> None]
    /\ link = [c \in Clients |-> "off"]
    /\ network \in SUBSET {<<d, 0>> : d \in Used}
    /\ breaker = [c \in Clients |-> "closed"]
    /\ stale = {}
    /\ op = [o \in Ops |-> Idle]
    /\ check = None /\ reaper = TRUE

-----------------------------------------------------------------------------
(* From the call to the entry                                              *)

\* ReadTags or WriteTag looks the entry up.  main closes the pool when nobody
\* uses it any more (NoUseAfterClose of GatewayShutdown): nothing here asks.
Lookup(o, d) ==
    /\ op[o].pc = "idle" /\ closed = "open" /\ <<o, d>> \in workload
    /\ op' = [op EXCEPT ![o] = [pc |-> IF clients[d] = None THEN "get" ELSE "admit",
                                dev |-> d, client |-> clients[d]]]
    /\ UNCHANGED <<poolVars, netVars, target, link, breaker, stale, check, reaper>>

Return(o) == op' = [op EXCEPT ![o] = Idle]
Got(o) == op' = [op EXCEPT ![o].pc = "look"]

\* Variant: an entry that is found does not count as used.
GetExistingUnused(o) ==
    /\ op[o].pc = "get" /\ clients[op[o].dev] # None
    /\ Got(o)
    /\ UNCHANGED <<poolVars, netVars, target, link, breaker, stale, check, reaper>>

\* GetOrCreate: somebody else has made the entry in the meantime.
GetExisting(o) ==
    /\ op[o].pc = "get" /\ clients[op[o].dev] # None
    /\ stale' = stale \ {clients[op[o].dev]}
    /\ Got(o)
    /\ UNCHANGED <<poolVars, netVars, target, link, breaker, check, reaper>>

Full == Cardinality(Held) >= MaxConnections

\* evictIdleConnection finds nothing that is idle: ErrPoolExhausted.
GetExhausted(o) ==
    /\ op[o].pc = "get" /\ clients[op[o].dev] = None
    /\ Full /\ stale \cap Pooled = {}
    /\ Return(o)
    /\ UNCHANGED <<poolVars, netVars, target, link, breaker, stale, check, reaper>>

\* clients without e, and the links once it is disconnected.
Without(e) == [d \in Devices |-> IF clients[d] = e THEN None ELSE clients[d]]
Unlinked(e) == [c \in Clients |-> IF c = e THEN "off" ELSE link[c]]

\* evictIdleConnection removes the entry whose lastUse is the oldest.
Evicts(e) == IF Full THEN e \in stale \cap Pooled ELSE e = None

\* A client is made, connected, and put into the pool, after an eviction if need
\* be, which is not undone when the device does not answer.
GetCreated(o) ==
    LET d == op[o].dev
        c == CHOOSE f \in Free : TRUE
    IN  /\ op[o].pc = "get" /\ clients[d] = None /\ Free # {}
        /\ \E e \in Clients \cup {None} :
              /\ Evicts(e)
              /\ IF Current(d) \in network
                 THEN /\ clients' = [Without(e) EXCEPT ![d] = c]
                      /\ link' = [Unlinked(e) EXCEPT ![c] = "up"]
                      /\ target' = [target EXCEPT ![c] = Current(d)]
                      /\ breaker' = [breaker EXCEPT ![c] = "closed"]
                      /\ stale' = stale \ {e, c}
                      /\ Got(o)
                 ELSE /\ clients' = Without(e) /\ link' = Unlinked(e)
                      /\ stale' = stale \ {e}
                      /\ Return(o)
                      /\ UNCHANGED <<target, breaker>>
        /\ UNCHANGED <<workload, closed, netVars, check, reaper>>

\* The entry is looked up again and used, whether it is there or not.
Look(o) ==
    /\ op[o].pc = "look"
    /\ op' = [op EXCEPT ![o] = [@ EXCEPT !.pc = "admit", !.client = clients[op[o].dev]]]
    /\ UNCHANGED <<poolVars, netVars, target, link, breaker, stale, check, reaper>>

-----------------------------------------------------------------------------
(* ReadTags and WriteTag on the client, through the breaker                *)

Admit(o) ==
    /\ op[o].pc = "admit" /\ op[o].client # None /\ breaker[op[o].client] # "open"
    /\ op' = [op EXCEPT ![o].pc = "run"]
    /\ UNCHANGED <<poolVars, netVars, target, link, breaker, stale, check, reaper>>

\* The breaker is open, or it probes and others are ahead.
Refuse(o) ==
    /\ op[o].pc = "admit" /\ op[o].client # None /\ breaker[op[o].client] # "closed"
    /\ Return(o)
    /\ UNCHANGED <<poolVars, netVars, target, link, breaker, stale, check, reaper>>

\* The request of o ends with an error or without; the breaker takes note.
Done(o, error) ==
    /\ Return(o)
    /\ \E b \in {breaker[op[o].client], IF error THEN "open" ELSE "closed"} :
          /\ breaker[op[o].client] = "open" => b = "open"
          /\ breaker' = [breaker EXCEPT ![op[o].client] = b]

\* ErrConnectionClosed without a try: the client was not connected.
NotConnected(o) ==
    /\ op[o].pc = "run" /\ ~connected(op[o].client)
    /\ Done(o, TRUE)
    /\ UNCHANGED <<poolVars, netVars, target, link, stale, check, reaper>>

\* The device answers.
Succeed(o) ==
    /\ op[o].pc = "run" /\ Works(op[o].client)
    /\ Done(o, FALSE)
    /\ UNCHANGED <<poolVars, netVars, target, link, stale, check, reaper>>

\* It refuses, or does not answer and there is no (further) retry: the error is not
\* one of the connection, the attempts are used up, or the context ended.  WriteTag
\* returns the error, and ReadTags that of the context; readTagsFallback puts others
\* into the data points.
Fails(o) ==
    /\ op[o].pc = "run"
    /\ \E error \in BOOLEAN : (o \in Commands => error) /\ Done(o, error)
    /\ UNCHANGED <<poolVars, netVars, target, link, stale, check, reaper>>

\* A connection error: reconnect disconnects first.
Disconnects(o) ==
    /\ op[o].pc = "run" /\ ~Works(op[o].client)
    /\ link' = Unlinked(op[o].client)
    /\ op' = [op EXCEPT ![o].pc = "reconnect"]
    /\ UNCHANGED <<poolVars, netVars, target, breaker, stale, check, reaper>>

\* Connect, if the address the client was made for answers.
Connects(c) == IF connected(c) \/ target[c] \in network
               THEN link' = [link EXCEPT ![c] = IF connected(c) THEN @ ELSE "up"]
               ELSE UNCHANGED link

\* reconnect connects, if it can, and the next attempt follows.
Reconnects(o) ==
    /\ op[o].pc = "reconnect"
    /\ Connects(op[o].client)
    /\ op' = [op EXCEPT ![o].pc = "run"]
    /\ UNCHANGED <<poolVars, netVars, target, breaker, stale, check, reaper>>

-----------------------------------------------------------------------------
(* The health check, the reaper, Close                                     *)

\* checkConnectionsAndReconnect notes a client that is not connected,
CheckLook(c) ==
    /\ check = None /\ c \in Pooled /\ ~connected(c)
    /\ check' = c
    /\ UNCHANGED <<poolVars, netVars, target, link, breaker, stale, op, reaper>>

\* and connects it, though its entry may have gone by now, unless its breaker is
\* open or its last failure is too recent.
CheckConnect ==
    /\ check \in Clients
    /\ check' = None
    /\ \/ breaker[check] # "open" /\ Connects(check)
       \/ UNCHANGED link
    /\ UNCHANGED <<poolVars, netVars, target, breaker, stale, op, reaper>>

\* healthCheckLoop sees stopChan.
CheckEnds ==
    /\ check = None /\ closed = "closing"
    /\ check' = "off"
    /\ UNCHANGED <<poolVars, netVars, target, link, breaker, stale, op, reaper>>

\* The entry is taken out of the pool and its client disconnected.
Drop(c) ==
    /\ clients' = Without(c)
    /\ link' = Unlinked(c)
    /\ stale' = stale \ {c}
    /\ UNCHANGED <<workload, closed, netVars, target, breaker, op, check, reaper>>

\* Variant: the reaper spares clients that are connected.
ReapDisconnected(c) == reaper /\ c \in Pooled /\ c \in stale /\ ~connected(c) /\ Drop(c)

Reap(c) == reaper /\ c \in Pooled /\ c \in stale /\ Drop(c)

\* idleReaperLoop sees stopChan.
ReaperEnds ==
    /\ reaper /\ closed = "closing"
    /\ reaper' = FALSE
    /\ UNCHANGED <<poolVars, netVars, target, link, breaker, stale, op, check>>

\* main closes the pool when commands and polls have ended.
Close ==
    /\ closed = "open" /\ \A o \in Ops : op[o].pc = "idle"
    /\ closed' = "closing"
    /\ UNCHANGED <<workload, clients, netVars, target, link, breaker, stale, op, check,
                   reaper>>

\* Variant: Close disconnects without waiting for the loops.
CloseDoneNoWait ==
    /\ closed = "closing"
    /\ closed' = "closed"
    /\ link' = [c \in Clients |-> IF c \in Pooled THEN "off" ELSE link[c]]
    /\ clients' = [d \in Devices |-> None]
    /\ UNCHANGED <<workload, netVars, target, breaker, stale, op, check, reaper>>

\* The loops have ended: everything is disconnected.
CloseDone ==
    /\ closed = "closing" /\ check = "off" /\ ~reaper
    /\ closed' = "closed"
    /\ link' = [c \in Clients |-> IF c \in Pooled THEN "off" ELSE link[c]]
    /\ clients' = [d \in Devices |-> None]
    /\ UNCHANGED <<workload, netVars, target, breaker, stale, op, check, reaper>>

-----------------------------------------------------------------------------
(* The environment                                                         *)

\* A connection that broke stays broken until it is made anew.
NetworkDown(a) ==
    /\ a \in network
    /\ network' = network \ {a}
    /\ link' = [c \in Clients |-> IF target[c] = a /\ connected(c) THEN "broken"
                                                                 ELSE link[c]]
    /\ UNCHANGED <<poolVars, address, target, breaker, stale, op, check, reaper>>

NetworkUp(d) ==
    /\ Current(d) \notin network
    /\ network' = network \cup {Current(d)}
    /\ UNCHANGED <<poolVars, address, target, link, breaker, stale, op, check, reaper>>

\* UpdateDevice gives a device another address: the next calls pass it.
Move(d) ==
    /\ d \in Moving /\ address[d] < MaxMoves
    /\ address' = [address EXCEPT ![d] = @ + 1]
    /\ UNCHANGED <<poolVars, network, target, link, breaker, stale, op, check, reaper>>

\* idleTimeout (minutes) passes for entry c; not between the statements of an
\* operation that has just got it.
TimePasses(c) ==
    /\ c \in Pooled \ stale
    /\ \A o \in Ops : op[o].pc = "look" => clients[op[o].dev] # c
    /\ stale' = stale \cup {c}
    /\ UNCHANGED <<poolVars, netVars, target, link, breaker, op, check, reaper>>

\* The breaker's Timeout passes: it lets probes pass.
BreakerTimeout(c) ==
    /\ breaker[c] = "open"
    /\ breaker' = [breaker EXCEPT ![c] = "half-open"]
    /\ UNCHANGED <<poolVars, netVars, target, link, stale, op, check, reaper>>

-----------------------------------------------------------------------------

Steps(o) == \/ GetExisting(o) \/ GetExhausted(o) \/ GetCreated(o) \/ Look(o)
            \/ Admit(o) \/ Refuse(o) \/ NotConnected(o)
            \/ Succeed(o) \/ Fails(o) \/ Disconnects(o) \/ Reconnects(o)

Next == \/ \E o \in Ops : Steps(o) \/ \E d \in Devices : Lookup(o, d)
        \/ \E c \in Clients : \/ CheckLook(c) \/ Reap(c)
                              \/ TimePasses(c) \/ BreakerTimeout(c)
        \/ CheckConnect \/ CheckEnds \/ ReaperEnds \/ Close \/ CloseDone
        \/ \E a \in Address : NetworkDown(a)
        \/ \E d \in Used : NetworkUp(d) \/ Move(d)

Spec == Init /\ [][Next]_vars

\* Operations end, and the tickers of the reaper go on ticking: whatever the
\* health check and the breaker do, that is enough for DeviceRecovers.
FairSpec ==
    /\ Spec
    /\ \A o \in Ops : WF_vars(Steps(o))
    /\ \A c \in Clients : WF_vars(TimePasses(c)) /\ WF_vars(Reap(c))

-----------------------------------------------------------------------------
(* Properties                                                              *)

\* Types of the variables.
TypeOK ==
    /\ clients \in [Devices -> Clients \cup {None}]
    /\ closed \in {"open", "closing", "closed"}
    /\ address \in [Devices -> 0..MaxMoves]
    /\ target \in [Clients -> Address \cup {None}]
    /\ link \in [Clients -> {"off", "up", "broken"}]
    /\ network \subseteq Address
    /\ breaker \in [Clients -> {"closed", "open", "half-open"}]
    /\ stale \subseteq Clients
    /\ op \in [Ops -> [pc : {"idle", "get", "look", "admit", "run", "reconnect"},
                      dev : Devices \cup {None}, client : Clients \cup {None}]]
    /\ check \in Clients \cup {None, "off"}
    /\ reaper \in BOOLEAN

Pool == INSTANCE DevicePool WITH
    Device <- Devices, Connection <- Clients, Capacity <- MaxConnections,
    held <- Held,
    links <- {c \in Clients : connected(c)},
    phase <- closed

\* The pool keeps its promise though an eviction, the dial and the insertion are
\* one critical section, reads and the health check connect clients without the
\* pool's mutex, also some that have left the pool, and Close sets closed last:
\* the capacity holds, and once Close has returned nothing is connected any more.
ImplementsDevicePool == Pool!Spec

\* No operation goes on with an entry that is not there (pool.go reads
\* p.clients[device.ID] without asking, and a nil entry ends the process): what
\* GetOrCreate returned cannot be evicted or reaped before it is looked up again.
NoNilEntry == \A o \in Ops : op[o].pc = "admit" => op[o].client # None

\* A device that answers at its present address does not keep an entry for ever
\* that cannot reach it, because the connection is broken, because polls keep the
\* breaker open and the health check away, or because the address changed: the
\* reaper takes it, which does not know of use.
DeviceRecovers ==
    \A d \in Devices :
        <>[](Current(d) \in network) =>
            []<>\/ clients[d] = None \/ closed # "open"
                \/ Works(clients[d]) /\ target[clients[d]] = Current(d)
=============================================================================
