--------------------------- MODULE OpcuaSessions ---------------------------
(***************************************************************************)
(* The sessions of the OPC UA pool (pool.go, session.go, health.go and the *)
(* subscription managers of subscription.go).  Devices of one endpoint     *)
(* share a session.  p.mu protects the two maps, session.mu a session; an  *)
(* operation takes them one after the other, so that between its steps the *)
(* reaper, the health check or another caller may replace what it found.   *)
(*                                                                         *)
(* A session is an object of its own: callers and the health check go on   *)
(* with the object they have found, also when it has left the map.  Time   *)
(* is abstracted to flags: whether a session was used or subscribed to     *)
(* within IdleTimeout.  MaxTTL is not set by the gateway.                  *)
(***************************************************************************)
EXTENDS Integers, FiniteSets

CONSTANTS Devices,
          Endpoints,       \* endpoint keys: URL, security and credentials
          Callers,         \* goroutines that call the pool
          MaxConnections,
          MaxSessions,     \* bound: session objects ever made
          None

ASSUME SessionAssumption ==
    /\ MaxConnections \in Nat \ {0}
    /\ MaxSessions \in Nat
    /\ None \notin Nat /\ None \notin Endpoints /\ None \notin Devices

VARIABLES
    sessions,  \* p.sessions: the session of an endpoint, or None
    devices,   \* p.devices: the EndpointKey of a device's binding, or None
    made,      \* number of session objects made
    obj,       \* the session objects, by number
    state,     \* the pool: "open", "closing" (done is closed) or "closed"
    pc,        \* where a caller is
    arg,       \* the device its call is about
    found,     \* the session object it goes on with
    check      \* the session the health check has looked up, or None

poolVars == <<sessions, devices, made, obj>>
callVars == <<pc, arg, found>>
vars == <<poolVars, state, callVars, check>>

Ids == 1..MaxSessions

\* pooledSession, with the state of its client and subscription manager.
Session == [ep : Endpoints,
            connected : BOOLEAN,
            devices : SUBSET Devices,
            subs : SUBSET Devices,   \* subscriptions of its manager
            active : BOOLEAN,        \* hasActiveSubscriptions
            used : BOOLEAN,          \* client.lastUsed is within IdleTimeout
            published : BOOLEAN]     \* so is lastPublishTime

Init ==
    /\ sessions = [e \in Endpoints |-> None]
    /\ devices = [d \in Devices |-> None]
    /\ made = 0
    /\ obj = [s \in Ids |-> None]
    /\ state = "open"
    /\ pc = [c \in Callers |-> "idle"]
    /\ arg = [c \in Callers |-> None]
    /\ found = [c \in Callers |-> None]
    /\ check = None

Pooled == {s \in Ids : \E e \in Endpoints : sessions[e] = s}

Return(c) ==
    /\ pc' = [pc EXCEPT ![c] = "idle"]
    /\ arg' = [arg EXCEPT ![c] = None]
    /\ found' = [found EXCEPT ![c] = None]

\* canAttemptReconnect, client.Connect and recordConnectResult: ok says that no
\* backoff from earlier failures holds and that the server answers.
Connect(o, ok) ==
    IF ok /\ ~o.connected THEN [o EXCEPT !.connected = TRUE, !.used = TRUE] ELSE o

-----------------------------------------------------------------------------
(* GetClient, under p.mu from its beginning to its end.                    *)

\* The first half: a device bound to another endpoint leaves that session.
MovedFrom(d, e) == devices[d] \notin {None, e}

\* Variant: the old session keeps the device.
LeaveNothing(d, e) == obj

Leave(d, e) ==
    IF MovedFrom(d, e) /\ sessions[devices[d]] # None
    THEN [obj EXCEPT ![sessions[devices[d]]].devices = @ \ {d}]
    ELSE obj

\* What the caller does with the client: go on if it is connected.
GoOn(c, d, op, s, o) ==
    IF o.connected
    THEN /\ pc' = [pc EXCEPT ![c] = op]
         /\ arg' = [arg EXCEPT ![c] = d]
         /\ found' = [found EXCEPT ![c] = s]
    ELSE UNCHANGED callVars

\* The endpoint has a session: bind the device, reconnect if need be.
GetExisting(c, d, e, op, ok) ==
    LET s == sessions[e]
        bound == [Leave(d, e)[s] EXCEPT !.devices = @ \cup {d}]
        o == Connect(bound, ok)
    IN  /\ pc[c] = "idle" /\ state = "open" /\ s # None
        /\ obj' = [Leave(d, e) EXCEPT ![s] = o]
        /\ devices' = [devices EXCEPT ![d] = IF d \in obj[s].devices THEN @ ELSE e]
        /\ GoOn(c, d, op, s, o)
        /\ UNCHANGED <<sessions, made, state, check>>

NewSession(d, e, ok) ==
    [ep |-> e, connected |-> ok, devices |-> {d}, subs |-> {},
     active |-> FALSE, used |-> TRUE, published |-> FALSE]

Full == Cardinality({e \in Endpoints : sessions[e] # None}) >= MaxConnections

\* It has none: make one.  The session stays in the pool if the server does
\* not answer.
GetCreated(c, d, e, op, ok) ==
    LET s == made + 1
    IN  /\ pc[c] = "idle" /\ state = "open" /\ sessions[e] = None /\ ~Full
        /\ made < MaxSessions
        /\ made' = s
        /\ obj' = [Leave(d, e) EXCEPT ![s] = NewSession(d, e, ok)]
        /\ sessions' = [sessions EXCEPT ![e] = s]
        /\ devices' = [devices EXCEPT ![d] = e]
        /\ GoOn(c, d, op, s, NewSession(d, e, ok))
        /\ UNCHANGED <<state, check>>

\* The pool is exhausted; a device that moved has lost its binding by then.
GetRefused(c, d, e) ==
    /\ pc[c] = "idle" /\ state = "open" /\ sessions[e] = None /\ Full
    /\ obj' = Leave(d, e)
    /\ devices' = [devices EXCEPT ![d] = IF MovedFrom(d, e) THEN None ELSE @]
    /\ UNCHANGED <<sessions, made, state, callVars, check>>

-----------------------------------------------------------------------------
(* The operations that follow                                              *)

\* getSessionForDevice and getDeviceBinding.
Bound(d) == IF devices[d] = None THEN None ELSE sessions[devices[d]]

\* A read or write: with the device still bound, and unless load shaping or a
\* breaker refuses, the client that GetClient returned is used.  It may have
\* been disconnected by now.
Use(c) ==
    LET o == obj[found[c]]
    IN  /\ pc[c] = "use" /\ Bound(arg[c]) # None
        /\ obj' = [obj EXCEPT ![found[c]].used = TRUE]
        /\ IF o.connected
           THEN pc' = [pc EXCEPT ![c] = "run"] /\ UNCHANGED <<arg, found>>
           ELSE Return(c)
        /\ UNCHANGED <<sessions, devices, made, state, check>>

Refused(c) ==
    /\ pc[c] = "use" /\ Return(c) /\ UNCHANGED <<poolVars, state, check>>

UseEnds(c) ==
    /\ pc[c] = "run" /\ Return(c) /\ UNCHANGED <<poolVars, state, check>>

\* A ReadTag or WriteTag that fails on a client disconnected in the meantime,
\* pooled or not, reconnects it before the next attempt: it looks at the flag
\* under the client's mutex ...
Retry(c) ==
    /\ pc[c] = "run" /\ ~obj[found[c]].connected
    /\ pc' = [pc EXCEPT ![c] = "disconnect"]
    /\ UNCHANGED <<poolVars, state, arg, found, check>>

\* ... and takes the mutex again to disconnect, whatever came in between ...
Disconnect(c) ==
    /\ pc[c] = "disconnect"
    /\ obj' = [obj EXCEPT ![found[c]].connected = FALSE]
    /\ pc' = [pc EXCEPT ![c] = "connect"]
    /\ UNCHANGED <<sessions, devices, made, state, arg, found, check>>

\* ... and once more to connect.
Reconnect(c, ok) ==
    /\ pc[c] = "connect"
    /\ obj' = [obj EXCEPT ![found[c]] = Connect(@, ok)]
    /\ pc' = [pc EXCEPT ![c] = "run"]
    /\ UNCHANGED <<sessions, devices, made, state, arg, found, check>>

\* BrowseNodes asks for no client: it takes what it finds.
Browse(d) ==
    /\ Bound(d) # None /\ obj[Bound(d)].connected
    /\ obj' = [obj EXCEPT ![Bound(d)].used = TRUE]
    /\ UNCHANGED <<sessions, devices, made, state, callVars, check>>

\* SubscribeDevice looks the session up again ...
SubscribeLookup(c) ==
    /\ pc[c] = "lookup"
    /\ IF Bound(arg[c]) = None
       THEN Return(c)
       ELSE /\ pc' = [pc EXCEPT ![c] = "subscribe"]
            /\ found' = [found EXCEPT ![c] = Bound(arg[c])]
            /\ UNCHANGED arg
    /\ UNCHANGED <<poolVars, state, check>>

\* Variant: the subscription is entered whether the client is connected or not.
SubscribeUnchecked(c, ok) ==
    /\ pc[c] = "subscribe"
    /\ obj' = [obj EXCEPT ![found[c]] =
                  [@ EXCEPT !.subs = @ \cup {arg[c]}, !.active = TRUE, !.published = TRUE]]
    /\ Return(c)
    /\ UNCHANGED <<sessions, devices, made, state, check>>

\* ... and subscribes under session.mu.  An existing subscription is removed
\* first; the rest needs a connected client and a server that agrees.
Subscribe(c, ok) ==
    LET s == found[c]
        o == obj[s]
    IN  /\ pc[c] = "subscribe"
        /\ obj' = [obj EXCEPT ![s] =
                     IF o.connected /\ ok
                     THEN [o EXCEPT !.subs = @ \cup {arg[c]}, !.active = TRUE,
                                    !.published = TRUE]
                     ELSE [o EXCEPT !.subs = @ \ {arg[c]}]]
        /\ Return(c)
        /\ UNCHANGED <<sessions, devices, made, state, check>>

\* UnsubscribeDevice, the same way.
UnsubscribeLookup(c, d) ==
    /\ pc[c] = "idle" /\ Bound(d) # None
    /\ pc' = [pc EXCEPT ![c] = "unsubscribe"]
    /\ arg' = [arg EXCEPT ![c] = d]
    /\ found' = [found EXCEPT ![c] = Bound(d)]
    /\ UNCHANGED <<poolVars, state, check>>

Unsubscribe(c) ==
    LET o == obj[found[c]]
    IN  /\ pc[c] = "unsubscribe"
        /\ obj' = IF arg[c] \in o.subs
                  THEN [obj EXCEPT ![found[c]] =
                          [o EXCEPT !.subs = @ \ {arg[c]}, !.active = o.subs # {arg[c]}]]
                  ELSE obj
        /\ Return(c)
        /\ UNCHANGED <<sessions, devices, made, state, check>>

-----------------------------------------------------------------------------
(* Health check, reaper, Close                                             *)

\* healthCheckLoop looks a session up and lets p.mu go.  Close may have begun.
CheckLookup(e) ==
    /\ check = None /\ state # "closed" /\ sessions[e] # None
    /\ check' = sessions[e]
    /\ UNCHANGED <<poolVars, state, callVars>>

\* checkSessionHealth reconnects it, unless its breaker is open.
CheckSessionHealth(ok) ==
    /\ check # None
    /\ obj' = [obj EXCEPT ![check] = Connect(@, ok)]
    /\ check' = None
    /\ UNCHANGED <<sessions, devices, made, state, callVars>>

RecentActivity(o) == o.used \/ (o.active /\ o.published)

\* subscriptionMgr.Stop, then client.Disconnect.  The rest is only read of
\* sessions in the pool, and the object now leaves it.
Ended(o) == [o EXCEPT !.subs = {}, !.connected = FALSE, !.devices = {},
                      !.active = FALSE, !.used = FALSE, !.published = FALSE]

\* The third pass of reapIdleSessions, which decides under both mutexes.
Reap(e) ==
    /\ state # "closed" /\ sessions[e] # None /\ ~RecentActivity(obj[sessions[e]])
    /\ obj' = [obj EXCEPT ![sessions[e]] = Ended(@)]
    /\ devices' = [d \in Devices |-> IF d \in obj[sessions[e]].devices /\ devices[d] = e
                                     THEN None ELSE devices[d]]
    /\ sessions' = [sessions EXCEPT ![e] = None]
    /\ UNCHANGED <<made, state, callVars, check>>

Close ==
    /\ state = "open" /\ state' = "closing"
    /\ UNCHANGED <<poolVars, callVars, check>>

\* wg.Wait returned: the sessions are ended and the maps emptied.
CloseSessions ==
    /\ state = "closing" /\ check = None
    /\ obj' = [s \in Ids |-> IF s \in Pooled THEN Ended(obj[s]) ELSE obj[s]]
    /\ sessions' = [e \in Endpoints |-> None]
    /\ devices' = [d \in Devices |-> None]
    /\ state' = "closed"
    /\ UNCHANGED <<made, callVars, check>>

-----------------------------------------------------------------------------
(* Time                                                                    *)

\* IdleTimeout passes since the last use, or the last SubscribeDevice.
Ages(s) ==
    /\ s \in Pooled
    /\ \/ obj[s].used /\ obj' = [obj EXCEPT ![s].used = FALSE]
       \/ obj[s].published /\ obj' = [obj EXCEPT ![s].published = FALSE]
    /\ UNCHANGED <<sessions, devices, made, state, callVars, check>>

-----------------------------------------------------------------------------

GetClient(c, d, e) ==
    \/ \E op \in {"use", "lookup"}, ok \in BOOLEAN :
           GetExisting(c, d, e, op, ok) \/ GetCreated(c, d, e, op, ok)
    \/ GetRefused(c, d, e)

CallSteps(c) == \/ Use(c) \/ Refused(c) \/ UseEnds(c) \/ Retry(c) \/ Disconnect(c)
                \/ SubscribeLookup(c) \/ Unsubscribe(c)
                \/ \E ok \in BOOLEAN : Reconnect(c, ok) \/ Subscribe(c, ok)

Next ==
    \/ \E c \in Callers : \/ \E d \in Devices, e \in Endpoints : GetClient(c, d, e)
                          \/ \E d \in Devices : UnsubscribeLookup(c, d)
                          \/ CallSteps(c)
    \/ \E d \in Devices : Browse(d)
    \/ \E e \in Endpoints : CheckLookup(e) \/ Reap(e)
    \/ \E ok \in BOOLEAN : CheckSessionHealth(ok)
    \/ Close \/ CloseSessions
    \/ \E s \in Ids : Ages(s)

Spec == Init /\ [][Next]_vars

-----------------------------------------------------------------------------
(* Properties                                                              *)

\* Types of the variables; the pool keeps its capacity.
TypeOK ==
    /\ sessions \in [Endpoints -> Ids \cup {None}]
    /\ devices \in [Devices -> Endpoints \cup {None}]
    /\ made \in 0..MaxSessions
    /\ obj \in [Ids -> Session \cup {None}]
    /\ \A s \in 1..made : obj[s] \in Session
    /\ \A e \in Endpoints : sessions[e] # None =>
          sessions[e] <= made /\ obj[sessions[e]].ep = e
    /\ state \in {"open", "closing", "closed"}
    /\ pc \in [Callers -> {"idle", "use", "run", "disconnect", "connect",
                            "lookup", "subscribe", "unsubscribe"}]
    /\ arg \in [Callers -> Devices \cup {None}]
    /\ found \in [Callers -> Ids \cup {None}]
    /\ \A c \in Callers : pc[c] # "idle" => arg[c] # None /\ found[c] \in 1..made
    /\ check \in (1..made) \cup {None}

\* The two maps agree: a device is bound to an endpoint exactly if the session
\* of that endpoint is in the pool and lists the device, whatever moves between
\* endpoints, refusals and reaping there were.
BindingsAgree ==
    \A d \in Devices, e \in Endpoints :
        devices[d] = e <=> sessions[e] # None /\ d \in obj[sessions[e]].devices

\* No session of the pool has a subscription on a client that is not connected:
\* a push device is never silent because its session was reaped and made anew,
\* or reconnected by somebody else, between the steps of SubscribeDevice.
SubscriptionsLive ==
    \A e \in Endpoints :
        sessions[e] # None /\ obj[sessions[e]].subs # {} => obj[sessions[e]].connected
=============================================================================
