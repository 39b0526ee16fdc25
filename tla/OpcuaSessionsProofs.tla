------------------------ MODULE OpcuaSessionsProofs ------------------------
(***************************************************************************)
(* Proofs about OpcuaSessions.  Reaping and moving devices keep the two    *)
(* maps in agreement only because sessions[e] is an object made for e,     *)
(* which is part of the types.  That no subscription of the pool is on a   *)
(* disconnected client needs LiveInv: a caller that disconnects a client   *)
(* to reconnect it has found it disconnected, so that its session has left *)
(* the pool for good.                                                      *)
(***************************************************************************)
EXTENDS OpcuaSessions, TLAPS

IInv == TypeOK /\ BindingsAgree

\* The initial state satisfies the invariant.
LEMMA InitInv == Init => IInv
<1> SUFFICES ASSUME Init PROVE IInv
  OBVIOUS
<1> USE SessionAssumption
<1>1. TypeOK
  BY DEF Init, TypeOK, Ids
<1>2. BindingsAgree
  BY DEF Init, BindingsAgree
<1> QED BY <1>1, <1>2 DEF IInv

\* Connect yields a session of the same endpoint, devices and subscriptions,
\* which is connected if it was before.
LEMMA ConnectSession ==
  ASSUME NEW o \in Session, NEW ok \in BOOLEAN
  PROVE  /\ Connect(o, ok) \in Session
         /\ Connect(o, ok).ep = o.ep
         /\ Connect(o, ok).devices = o.devices
         /\ Connect(o, ok).subs = o.subs
         /\ o.connected => Connect(o, ok).connected
  BY DEF Connect, Session

\* Leave takes the device from the session of its old endpoint and changes
\* nothing else.
LEMMA LeaveSession ==
  ASSUME IInv, NEW d \in Devices, NEW e \in Endpoints
  PROVE  /\ Leave(d, e) \in [Ids -> Session \cup {None}]
         /\ \A s \in 1..made :
               /\ Leave(d, e)[s] \in Session
               /\ Leave(d, e)[s].ep = obj[s].ep
               /\ Leave(d, e)[s].subs = obj[s].subs
               /\ (Leave(d, e)[s].connected <=> obj[s].connected)
               /\ Leave(d, e)[s].devices =
                     IF MovedFrom(d, e) /\ sessions[devices[d]] = s
                     THEN obj[s].devices \ {d} ELSE obj[s].devices
<1> USE SessionAssumption DEF IInv
<1>1. made \in Nat /\ 1..made \subseteq Ids /\ \A s \in 1..made : s # None
  BY DEF TypeOK, Ids
<1>2. CASE MovedFrom(d, e) /\ sessions[devices[d]] # None
  <2> DEFINE q == sessions[devices[d]]
  <2>1. q \in 1..made /\ obj[q] \in Session
    BY <1>2 DEF TypeOK, MovedFrom, Ids
  <2>2. Leave(d, e) = [obj EXCEPT ![q].devices = @ \ {d}]
    BY <1>2 DEF Leave
  <2>3. [obj[q] EXCEPT !.devices = @ \ {d}] \in Session
    BY <2>1 DEF Session
  <2>4. Leave(d, e) = [obj EXCEPT ![q] = [obj[q] EXCEPT !.devices = @ \ {d}]]
    BY <2>2
  <2>5. obj \in [Ids -> Session \cup {None}] /\ q \in Ids
    BY <1>1, <2>1 DEF TypeOK
  <2>6. Leave(d, e) \in [Ids -> Session \cup {None}]
    BY <2>3, <2>4, <2>5
  <2>7. ASSUME NEW s \in 1..made
        PROVE  /\ Leave(d, e)[s] \in Session
               /\ Leave(d, e)[s].ep = obj[s].ep
               /\ Leave(d, e)[s].subs = obj[s].subs
               /\ (Leave(d, e)[s].connected <=> obj[s].connected)
               /\ Leave(d, e)[s].devices =
                     IF q = s THEN obj[s].devices \ {d} ELSE obj[s].devices
    <3>1. s \in Ids /\ obj[s] \in Session
      BY <1>1 DEF TypeOK
    <3>2. CASE s = q
      BY <2>1, <2>3, <2>4, <2>5, <3>1, <3>2 DEF Session
    <3>3. CASE s # q
      BY <2>4, <2>5, <3>1, <3>3
    <3> QED BY <3>2, <3>3
  <2> QED BY <1>2, <2>6, <2>7
<1>3. CASE ~(MovedFrom(d, e) /\ sessions[devices[d]] # None)
  BY <1>1, <1>3 DEF Leave, TypeOK
<1> QED BY <1>2, <1>3

-----------------------------------------------------------------------------
(* The parts of the types: what callers hold, and the pool                 *)

CallsOK ==
    /\ pc \in [Callers -> {"idle", "use", "run", "disconnect", "connect",
                            "lookup", "subscribe", "unsubscribe"}]
    /\ arg \in [Callers -> Devices \cup {None}]
    /\ found \in [Callers -> Ids \cup {None}]
    /\ \A c \in Callers : pc[c] # "idle" => arg[c] # None /\ found[c] \in 1..made
    /\ check \in (1..made) \cup {None}

PoolOK ==
    /\ sessions \in [Endpoints -> Ids \cup {None}]
    /\ devices \in [Devices -> Endpoints \cup {None}]
    /\ made \in 0..MaxSessions
    /\ obj \in [Ids -> Session \cup {None}]
    /\ \A s \in 1..made : obj[s] \in Session
    /\ \A e \in Endpoints : sessions[e] # None =>
          sessions[e] <= made /\ obj[sessions[e]].ep = e
    /\ state \in {"open", "closing", "closed"}

\* The two parts make up the types.
LEMMA TypeParts == TypeOK <=> PoolOK /\ CallsOK
  BY DEF TypeOK, PoolOK, CallsOK

\* A return keeps the types of the callers.
LEMMA ReturnCalls ==
  ASSUME CallsOK, NEW c \in Callers, Return(c), UNCHANGED <<made, check>>
  PROVE  CallsOK'
  BY SessionAssumption DEF CallsOK, Return

\* A step that replaces one object by another of the same endpoint and devices
\* keeps the invariant.
LEMMA ObjectStep ==
  ASSUME IInv, NEW s \in 1..made, NEW o \in Session,
         o.ep = obj[s].ep, o.devices = obj[s].devices,
         obj' = [obj EXCEPT ![s] = o],
         UNCHANGED <<sessions, devices, made, state>>, CallsOK'
  PROVE  IInv'
<1> USE SessionAssumption DEF IInv
<1>1. made \in Nat /\ 1..made \subseteq Ids /\ \A t \in 1..made : t # None
  BY DEF TypeOK, Ids
<1>2. \A t \in 1..made : obj'[t] = IF t = s THEN o ELSE obj[t]
  BY <1>1 DEF TypeOK
<1>3. \A t \in 1..made : obj'[t].ep = obj[t].ep /\ obj'[t].devices = obj[t].devices
  BY <1>2
<1>4. \A e \in Endpoints : sessions[e] # None => sessions[e] \in 1..made
  BY DEF TypeOK, Ids
<1>5. PoolOK'
  <2>1. obj' \in [Ids -> Session \cup {None}]
    BY <1>1 DEF TypeOK
  <2>2. \A t \in 1..made : obj'[t] \in Session
    BY <1>2 DEF TypeOK
  <2> QED BY <1>3, <1>4, <2>1, <2>2 DEF PoolOK, TypeOK
<1>6. BindingsAgree'
  BY <1>3, <1>4 DEF BindingsAgree
<1>7. TypeOK'
  BY <1>5, TypeParts, PTL
<1> QED BY <1>6, <1>7

-----------------------------------------------------------------------------
(* GetClient                                                               *)

\* What GetClient leaves to its caller keeps the types.
LEMMA GoOnCalls ==
  ASSUME CallsOK, NEW c \in Callers, NEW d \in Devices, NEW op \in {"use", "lookup"},
         NEW s \in Ids, NEW o, GoOn(c, d, op, s, o), UNCHANGED check,
         made \in Nat, made' \in Nat, made <= made', s <= made'
  PROVE  CallsOK'
<1> USE SessionAssumption
<1>0. s \in 1..made' /\ 1..made \subseteq 1..made'
  BY DEF Ids
<1>1. CASE o.connected
  BY <1>0, <1>1 DEF CallsOK, GoOn, Ids
<1>2. CASE ~o.connected
  BY <1>0, <1>2 DEF CallsOK, GoOn, callVars
<1> QED BY <1>1, <1>2

\* GetClient on an endpoint that has a session: the device that moves in is
\* listed by no other session.
LEMMA GetExistingInv ==
  ASSUME IInv, NEW c \in Callers, NEW d \in Devices, NEW e \in Endpoints,
         NEW op \in {"use", "lookup"}, NEW ok \in BOOLEAN, GetExisting(c, d, e, op, ok)
  PROVE  IInv'
<1> USE SessionAssumption DEF IInv
<1>1. made \in Nat /\ 1..made \subseteq Ids /\ \A t \in 1..made : t # None
  BY DEF TypeOK, Ids
<1>2. PICK s : s = sessions[e]
  OBVIOUS
<1>3. PICK L : L = Leave(d, e)
  OBVIOUS
<1>4. s \in 1..made /\ obj[s].ep = e
  BY <1>2 DEF GetExisting, TypeOK, Ids
<1>5. /\ L \in [Ids -> Session \cup {None}]
      /\ \A t \in 1..made :
            /\ L[t] \in Session
            /\ L[t].ep = obj[t].ep /\ L[t].subs = obj[t].subs
            /\ (L[t].connected <=> obj[t].connected)
            /\ L[t].devices = IF MovedFrom(d, e) /\ sessions[devices[d]] = t
                              THEN obj[t].devices \ {d} ELSE obj[t].devices
  BY <1>3, LeaveSession
<1>6. PICK b : b = [L[s] EXCEPT !.devices = @ \cup {d}]
  OBVIOUS
<1>7. /\ b \in Session /\ b.ep = e /\ b.subs = obj[s].subs
      /\ (b.connected <=> obj[s].connected) /\ b.devices = L[s].devices \cup {d}
  <2>1. /\ L[s] \in Session /\ L[s].ep = e /\ L[s].subs = obj[s].subs
        /\ (L[s].connected <=> obj[s].connected)
    BY <1>4, <1>5
  <2>2. /\ b \in Session /\ b.ep = L[s].ep /\ b.subs = L[s].subs
        /\ b.connected = L[s].connected /\ b.devices = L[s].devices \cup {d}
    BY <1>6, <2>1 DEF Session
  <2> QED BY <2>1, <2>2
<1>8. PICK o : o = Connect(b, ok)
  OBVIOUS
<1>9. /\ o \in Session /\ o.ep = e /\ o.devices = L[s].devices \cup {d}
      /\ o.subs = obj[s].subs /\ (obj[s].connected => o.connected)
  BY <1>7, <1>8, ConnectSession
<1>10. /\ obj' = [L EXCEPT ![s] = o]
       /\ devices' = [devices EXCEPT ![d] = IF d \in obj[s].devices THEN @ ELSE e]
       /\ GoOn(c, d, op, s, o)
       /\ UNCHANGED <<sessions, made, state, check>>
  BY <1>2, <1>3, <1>6, <1>8 DEF GetExisting
<1>11. \A t \in 1..made : obj'[t] = IF t = s THEN o ELSE L[t]
  BY <1>1, <1>5, <1>10
<1>12. \A f \in Endpoints : sessions[f] # None =>
          sessions[f] \in 1..made /\ obj[sessions[f]].ep = f
  BY DEF TypeOK, Ids
<1>13. devices' = [devices EXCEPT ![d] = e]
  <2>1. CASE d \in obj[s].devices
    <3>1. devices[d] = e
      BY <1>1, <1>2, <1>4, <2>1 DEF BindingsAgree
    <3>2. devices' = [devices EXCEPT ![d] = devices[d]]
      BY <1>10, <2>1
    <3> QED BY <3>1, <3>2
  <2>2. CASE d \notin obj[s].devices
    BY <1>10, <2>2
  <2> QED BY <2>1, <2>2
<1>14. TypeOK'
  <2>1. PoolOK'
    <3>1. obj' \in [Ids -> Session \cup {None}]
      BY <1>1, <1>4, <1>5, <1>9, <1>10
    <3>2. \A t \in 1..made : obj'[t] \in Session /\ obj'[t].ep = obj[t].ep
      BY <1>4, <1>5, <1>9, <1>11
    <3>3. devices' \in [Devices -> Endpoints \cup {None}]
      BY <1>13 DEF TypeOK
    <3> QED BY <1>10, <1>12, <3>1, <3>2, <3>3 DEF PoolOK, TypeOK
  <2>2. CallsOK'
    BY <1>1, <1>4, <1>10, GoOnCalls, TypeParts
  <2> QED BY <2>1, <2>2, TypeParts, PTL
<1>15. BindingsAgree'
  <2> SUFFICES ASSUME NEW x \in Devices, NEW f \in Endpoints
               PROVE  devices'[x] = f <=> sessions[f] # None /\ x \in obj'[sessions[f]].devices
    BY <1>10 DEF BindingsAgree
  <2>1. devices[x] = f <=> sessions[f] # None /\ x \in obj[sessions[f]].devices
    BY DEF BindingsAgree
  <2>2. CASE x # d
    <3>1. devices'[x] = devices[x]
      BY <1>13, <2>2 DEF TypeOK
    <3>2. ASSUME sessions[f] # None
          PROVE  x \in obj'[sessions[f]].devices <=> x \in obj[sessions[f]].devices
      <4>1. sessions[f] \in 1..made
        BY <1>12, <3>2
      <4>2. x \in L[sessions[f]].devices <=> x \in obj[sessions[f]].devices
        BY <1>5, <2>2, <4>1
      <4>3. CASE sessions[f] = s
        BY <1>9, <1>11, <2>2, <4>1, <4>2, <4>3
      <4>4. CASE sessions[f] # s
        BY <1>11, <4>1, <4>2, <4>4
      <4> QED BY <4>3, <4>4
    <3> QED BY <2>1, <3>1, <3>2
  <2>3. CASE x = d /\ f = e
    BY <1>1, <1>2, <1>4, <1>9, <1>11, <1>13, <2>3 DEF TypeOK
  <2>4. CASE x = d /\ f # e
    <3>1. devices'[d] = e
      BY <1>13 DEF TypeOK
    <3>2. ASSUME sessions[f] # None, d \in obj'[sessions[f]].devices PROVE FALSE
      <4>1. sessions[f] \in 1..made /\ sessions[f] # s
        BY <1>4, <1>12, <2>4, <3>2
      <4>2. d \in L[sessions[f]].devices
        BY <1>11, <3>2, <4>1
      <4>3. d \in obj[sessions[f]].devices
        BY <1>5, <4>1, <4>2
      <4>4. devices[d] = f
        BY <2>1, <2>4, <3>2, <4>3
      <4>5. MovedFrom(d, e) /\ sessions[devices[d]] = sessions[f]
        BY <2>4, <4>4 DEF MovedFrom
      <4> QED BY <1>5, <4>1, <4>2, <4>5
    <3> QED BY <2>4, <3>1, <3>2
  <2> QED BY <2>2, <2>3, <2>4
<1> QED BY <1>14, <1>15

\* GetClient on an endpoint without a session.
LEMMA GetCreatedInv ==
  ASSUME IInv, NEW c \in Callers, NEW d \in Devices, NEW e \in Endpoints,
         NEW op \in {"use", "lookup"}, NEW ok \in BOOLEAN, GetCreated(c, d, e, op, ok)
  PROVE  IInv'
<1> USE SessionAssumption DEF IInv
<1>1. made \in Nat /\ 1..made \subseteq Ids /\ \A t \in 1..made : t # None
  BY DEF TypeOK, Ids
<1>2. PICK s : s = made + 1
  OBVIOUS
<1>3. PICK L : L = Leave(d, e)
  OBVIOUS
<1>4. PICK n : n = NewSession(d, e, ok)
  OBVIOUS
<1>5. /\ n \in Session /\ n.ep = e /\ n.devices = {d} /\ n.subs = {}
  BY <1>4 DEF NewSession, Session
<1>6. /\ L \in [Ids -> Session \cup {None}]
      /\ \A t \in 1..made :
            /\ L[t] \in Session
            /\ L[t].ep = obj[t].ep /\ L[t].subs = obj[t].subs
            /\ (L[t].connected <=> obj[t].connected)
            /\ L[t].devices = IF MovedFrom(d, e) /\ sessions[devices[d]] = t
                              THEN obj[t].devices \ {d} ELSE obj[t].devices
  BY <1>3, LeaveSession
<1>7. /\ obj' = [L EXCEPT ![s] = n]
      /\ sessions' = [sessions EXCEPT ![e] = s]
      /\ devices' = [devices EXCEPT ![d] = e]
      /\ made' = s /\ s \in Ids /\ s \notin 1..made /\ sessions[e] = None
      /\ GoOn(c, d, op, s, n)
      /\ UNCHANGED <<state, check>>
  BY <1>1, <1>2, <1>3, <1>4 DEF GetCreated, Ids
<1>8. /\ 1..made' = (1..made) \cup {s} /\ s # None /\ obj'[s] = n
      /\ \A t \in 1..made : obj'[t] = L[t]
  BY <1>1, <1>2, <1>6, <1>7
<1>9. \A f \in Endpoints : sessions[f] # None =>
          sessions[f] \in 1..made /\ obj[sessions[f]].ep = f
  BY DEF TypeOK, Ids
<1>10. /\ sessions'[e] = s /\ \A f \in Endpoints \ {e} : sessions'[f] = sessions[f]
       /\ devices'[d] = e /\ \A x \in Devices \ {d} : devices'[x] = devices[x]
  BY <1>7 DEF TypeOK
<1>11. TypeOK'
  <2>1. PoolOK'
    <3>1. obj' \in [Ids -> Session \cup {None}]
      BY <1>5, <1>6, <1>7
    <3>2. \A t \in 1..made' : obj'[t] \in Session
      BY <1>5, <1>6, <1>8
    <3>3. /\ sessions' \in [Endpoints -> Ids \cup {None}]
          /\ devices' \in [Devices -> Endpoints \cup {None}]
      BY <1>7 DEF TypeOK
    <3>4. made' \in 0..MaxSessions
      BY <1>7 DEF Ids
    <3>5. ASSUME NEW f \in Endpoints, sessions'[f] # None
          PROVE  sessions'[f] <= made' /\ obj'[sessions'[f]].ep = f
      <4>1. CASE f = e
        BY <1>1, <1>2, <1>5, <1>7, <1>8, <1>10, <4>1
      <4>2. CASE f # e
        <5>1. sessions'[f] \in 1..made /\ obj[sessions'[f]].ep = f
          BY <1>9, <1>10, <3>5, <4>2
        <5>2. obj'[sessions'[f]].ep = f
          BY <1>6, <1>8, <5>1
        <5>3. sessions'[f] <= made'
          BY <1>1, <1>2, <1>7, <5>1
        <5> QED BY <5>2, <5>3
      <4> QED BY <4>1, <4>2
    <3>6. state' \in {"open", "closing", "closed"}
      BY <1>7 DEF TypeOK
    <3> QED BY <3>1, <3>2, <3>3, <3>4, <3>5, <3>6 DEF PoolOK
  <2>2. CallsOK'
    BY <1>1, <1>2, <1>7, GoOnCalls, TypeParts
  <2> QED BY <2>1, <2>2, TypeParts, PTL
<1>12. BindingsAgree'
  <2> SUFFICES ASSUME NEW x \in Devices, NEW f \in Endpoints
               PROVE  devices'[x] = f <=> sessions'[f] # None /\ x \in obj'[sessions'[f]].devices
    BY DEF BindingsAgree
  <2>1. devices[x] = f <=> sessions[f] # None /\ x \in obj[sessions[f]].devices
    BY DEF BindingsAgree
  <2>2. CASE f = e
    <3>1. sessions'[f] # None /\ obj'[sessions'[f]].devices = {d}
      BY <1>5, <1>8, <1>10, <2>2
    <3>2. devices[x] # e
      BY <1>7, <2>1, <2>2
    <3> QED BY <1>10, <2>2, <3>1, <3>2
  <2>3. CASE f # e /\ sessions[f] = None
    BY <1>10, <2>1, <2>3
  <2>4. CASE f # e /\ sessions[f] # None
    <3>1. sessions'[f] = sessions[f] /\ sessions[f] \in 1..made
      BY <1>9, <1>10, <2>4
    <3>2. obj'[sessions[f]] = L[sessions[f]]
      BY <1>8, <3>1
    <3>3. CASE x # d
      <4>1. x \in L[sessions[f]].devices <=> x \in obj[sessions[f]].devices
        BY <1>6, <3>1, <3>3
      <4> QED BY <1>10, <2>1, <2>4, <3>1, <3>2, <3>3, <4>1
    <3>4. CASE x = d
      <4>1. ASSUME d \in L[sessions[f]].devices PROVE FALSE
        <5>1. d \in obj[sessions[f]].devices
          BY <1>6, <3>1, <4>1
        <5>2. devices[d] = f
          BY <2>1, <2>4, <3>4, <5>1
        <5>3. MovedFrom(d, e) /\ sessions[devices[d]] = sessions[f]
          BY <2>4, <5>2 DEF MovedFrom
        <5> QED BY <1>6, <3>1, <4>1, <5>3
      <4> QED BY <1>10, <2>4, <3>1, <3>2, <3>4, <4>1
    <3> QED BY <3>3, <3>4
  <2> QED BY <2>2, <2>3, <2>4
<1> QED BY <1>11, <1>12

\* GetClient at MaxConnections: a device that moved is unbound.
LEMMA GetRefusedInv ==
  ASSUME IInv, NEW c \in Callers, NEW d \in Devices, NEW e \in Endpoints,
         GetRefused(c, d, e)
  PROVE  IInv'
<1> USE SessionAssumption DEF IInv
<1>1. made \in Nat /\ 1..made \subseteq Ids
  BY DEF TypeOK, Ids
<1>2. PICK L : L = Leave(d, e)
  OBVIOUS
<1>3. /\ L \in [Ids -> Session \cup {None}]
      /\ \A t \in 1..made :
            /\ L[t] \in Session
            /\ L[t].ep = obj[t].ep /\ L[t].subs = obj[t].subs
            /\ (L[t].connected <=> obj[t].connected)
            /\ L[t].devices = IF MovedFrom(d, e) /\ sessions[devices[d]] = t
                              THEN obj[t].devices \ {d} ELSE obj[t].devices
  BY <1>2, LeaveSession
<1>4. /\ obj' = L /\ sessions[e] = None
      /\ devices' = [devices EXCEPT ![d] = IF MovedFrom(d, e) THEN None ELSE @]
      /\ UNCHANGED <<sessions, made, state, callVars, check>>
  BY <1>2 DEF GetRefused
<1>5. \A f \in Endpoints : sessions[f] # None =>
          sessions[f] \in 1..made /\ obj[sessions[f]].ep = f
  BY DEF TypeOK, Ids
<1>6. /\ devices'[d] = IF MovedFrom(d, e) THEN None ELSE devices[d]
      /\ \A x \in Devices \ {d} : devices'[x] = devices[x]
      /\ devices' \in [Devices -> Endpoints \cup {None}]
  BY <1>4 DEF TypeOK
<1>7. TypeOK'
  <2>1. PoolOK'
    BY <1>3, <1>4, <1>5, <1>6 DEF PoolOK, TypeOK
  <2>2. CallsOK'
    BY <1>4 DEF CallsOK, TypeOK, callVars
  <2> QED BY <2>1, <2>2, TypeParts, PTL
<1>8. BindingsAgree'
  <2> SUFFICES ASSUME NEW x \in Devices, NEW f \in Endpoints
               PROVE  devices'[x] = f <=> sessions[f] # None /\ x \in L[sessions[f]].devices
    BY <1>4 DEF BindingsAgree
  <2>1. devices[x] = f <=> sessions[f] # None /\ x \in obj[sessions[f]].devices
    BY DEF BindingsAgree
  <2>2. CASE ~(x = d /\ MovedFrom(d, e))
    <3>1. devices'[x] = devices[x]
      BY <1>6, <2>2
    <3>2. sessions[f] # None =>
             (x \in L[sessions[f]].devices <=> x \in obj[sessions[f]].devices)
      BY <1>3, <1>5, <2>2
    <3> QED BY <2>1, <3>1, <3>2
  <2>3. CASE x = d /\ MovedFrom(d, e)
    <3>1. devices'[x] # f
      BY <1>6, <2>3
    <3>2. ASSUME sessions[f] # None, d \in L[sessions[f]].devices PROVE FALSE
      <4>1. sessions[f] \in 1..made
        BY <1>5, <3>2
      <4>2. d \in obj[sessions[f]].devices
        BY <1>3, <3>2, <4>1
      <4>3. devices[d] = f
        BY <2>1, <2>3, <3>2, <4>2
      <4> QED BY <1>3, <2>3, <3>2, <4>1, <4>3
    <3> QED BY <2>3, <3>1, <3>2
  <2> QED BY <2>2, <2>3
<1> QED BY <1>7, <1>8

-----------------------------------------------------------------------------
(* The operations on a session                                             *)

\* An object that a caller holds is a session.
LEMMA FoundSession ==
  ASSUME IInv, NEW c \in Callers, pc[c] # "idle"
  PROVE  found[c] \in 1..made /\ obj[found[c]] \in Session /\ arg[c] \in Devices
  BY DEF IInv, TypeOK

\* A read or write.
LEMMA UseInv ==
  ASSUME IInv, NEW c \in Callers, Use(c)
  PROVE  IInv'
<1>1. PICK s, o : s = found[c] /\ o = [obj[s] EXCEPT !.used = TRUE]
  OBVIOUS
<1>2. s \in 1..made /\ obj[s] \in Session
  BY <1>1, FoundSession DEF Use
<1>3. /\ o \in Session /\ o.ep = obj[s].ep /\ o.devices = obj[s].devices
  BY <1>1, <1>2 DEF Session
<1>4. obj' = [obj EXCEPT ![s] = o] /\ UNCHANGED <<sessions, devices, made, state, check>>
  BY <1>1 DEF Use
<1>5. CallsOK'
  <2>1. CASE obj[found[c]].connected
    BY <1>1, <1>2, <2>1, FoundSession, TypeParts, SessionAssumption
       DEF IInv, Use, CallsOK
  <2>2. CASE ~obj[found[c]].connected
    BY <2>2, ReturnCalls, TypeParts DEF IInv, Use
  <2> QED BY <2>1, <2>2
<1> QED BY <1>2, <1>3, <1>4, <1>5, ObjectStep

\* reconnect of the client.
LEMMA ReconnectInv ==
  ASSUME IInv, NEW c \in Callers, NEW ok \in BOOLEAN, Disconnect(c) \/ Reconnect(c, ok)
  PROVE  IInv'
<1>1. PICK s : s = found[c]
  OBVIOUS
<1>2. s \in 1..made /\ obj[s] \in Session
  BY <1>1, FoundSession DEF Disconnect, Reconnect
<1>3. PICK o \in {[obj[s] EXCEPT !.connected = FALSE], Connect(obj[s], ok)} :
         obj' = [obj EXCEPT ![s] = o]
  BY <1>1 DEF Disconnect, Reconnect
<1>4. /\ o \in Session /\ o.ep = obj[s].ep /\ o.devices = obj[s].devices
  <2>1. CASE o = [obj[s] EXCEPT !.connected = FALSE]
    BY <1>2, <2>1 DEF Session
  <2>2. CASE o = Connect(obj[s], ok)
    BY <1>2, <2>2, ConnectSession
  <2> QED BY <1>3, <2>1, <2>2
<1>5. UNCHANGED <<sessions, devices, made, state, check>>
  BY DEF Disconnect, Reconnect
<1>6. CallsOK'
  BY TypeParts DEF IInv, Disconnect, Reconnect, CallsOK
<1> QED BY <1>2, <1>3, <1>4, <1>5, <1>6, ObjectStep

\* SubscribeDevice.
LEMMA SubscribeInv ==
  ASSUME IInv, NEW c \in Callers, NEW ok \in BOOLEAN, Subscribe(c, ok)
  PROVE  IInv'
<1>1. PICK s : s = found[c]
  OBVIOUS
<1>2. s \in 1..made /\ obj[s] \in Session /\ arg[c] \in Devices
  BY <1>1, FoundSession DEF Subscribe
<1>3. CallsOK'
  BY ReturnCalls, TypeParts DEF IInv, Subscribe
<1>4. UNCHANGED <<sessions, devices, made, state>>
  BY DEF Subscribe
<1>5. CASE obj[s].connected /\ ok
  <2>1. PICK o : o = [obj[s] EXCEPT !.subs = @ \cup {arg[c]}, !.active = TRUE,
                                    !.published = TRUE]
    OBVIOUS
  <2>2. /\ o \in Session /\ o.ep = obj[s].ep /\ o.devices = obj[s].devices
    BY <1>2, <2>1 DEF Session
  <2>3. obj' = [obj EXCEPT ![s] = o]
    BY <1>1, <1>5, <2>1 DEF Subscribe
  <2> QED BY <1>2, <1>3, <1>4, <2>2, <2>3, ObjectStep
<1>6. CASE ~(obj[s].connected /\ ok)
  <2>1. PICK o : o = [obj[s] EXCEPT !.subs = @ \ {arg[c]}]
    OBVIOUS
  <2>2. /\ o \in Session /\ o.ep = obj[s].ep /\ o.devices = obj[s].devices
    BY <1>2, <2>1 DEF Session
  <2>3. obj' = [obj EXCEPT ![s] = o]
    BY <1>1, <1>6, <2>1 DEF Subscribe
  <2> QED BY <1>2, <1>3, <1>4, <2>2, <2>3, ObjectStep
<1> QED BY <1>5, <1>6

\* A step that leaves the pool alone keeps the invariant.
LEMMA PoolKept ==
  ASSUME IInv, UNCHANGED <<sessions, devices, made, obj>>,
         state' \in {"open", "closing", "closed"}, CallsOK'
  PROVE  IInv'
<1>1. PoolOK'
  BY DEF IInv, TypeOK, PoolOK
<1>2. BindingsAgree'
  BY DEF IInv, BindingsAgree
<1> QED BY <1>1, <1>2, TypeParts, PTL DEF IInv

\* UnsubscribeDevice.
LEMMA UnsubscribeInv ==
  ASSUME IInv, NEW c \in Callers, Unsubscribe(c)
  PROVE  IInv'
<1>1. PICK s : s = found[c]
  OBVIOUS
<1>2. s \in 1..made /\ obj[s] \in Session /\ arg[c] \in Devices
  BY <1>1, FoundSession DEF Unsubscribe
<1>3. CallsOK'
  BY ReturnCalls, TypeParts DEF IInv, Unsubscribe
<1>4. UNCHANGED <<sessions, devices, made, state>>
  BY DEF Unsubscribe
<1>5. CASE arg[c] \in obj[s].subs
  <2>1. PICK o : o = [obj[s] EXCEPT !.subs = @ \ {arg[c]}, !.active = obj[s].subs # {arg[c]}]
    OBVIOUS
  <2>2. /\ o \in Session /\ o.ep = obj[s].ep /\ o.devices = obj[s].devices
    BY <1>2, <2>1 DEF Session
  <2>3. obj' = [obj EXCEPT ![s] = o]
    BY <1>1, <1>5, <2>1 DEF Unsubscribe
  <2> QED BY <1>2, <1>3, <1>4, <2>2, <2>3, ObjectStep
<1>6. CASE arg[c] \notin obj[s].subs
  <2>1. UNCHANGED obj
    BY <1>1, <1>6 DEF Unsubscribe
  <2> QED BY <1>3, <1>4, <2>1, PoolKept DEF IInv, TypeOK
<1> QED BY <1>5, <1>6

\* The session of a bound device is a session in the pool.
LEMMA BoundSession ==
  ASSUME IInv, NEW d \in Devices, Bound(d) # None
  PROVE  Bound(d) \in 1..made /\ obj[Bound(d)] \in Session
<1>1. Bound(d) \in 1..made
  BY SessionAssumption DEF Bound, IInv, TypeOK, Ids
<1> QED BY <1>1 DEF IInv, TypeOK

\* The lookups and returns of operations.
LEMMA LookupInv ==
  ASSUME IInv, NEW c \in Callers,
         \/ SubscribeLookup(c) \/ Refused(c) \/ UseEnds(c) \/ Retry(c)
         \/ \E d \in Devices : UnsubscribeLookup(c, d)
  PROVE  IInv'
<1> USE SessionAssumption
<1>1. UNCHANGED <<sessions, devices, made, obj, state, check>>
  BY DEF SubscribeLookup, Refused, UseEnds, Retry, UnsubscribeLookup, poolVars
<1>2. CallsOK
  BY TypeParts DEF IInv
<1>3. 1..made \subseteq Ids
  BY DEF IInv, TypeOK, Ids
<1>4. CASE Refused(c) \/ UseEnds(c) \/ Retry(c)
  <2>1. CASE Return(c)
    BY <1>1, <1>2, <2>1, ReturnCalls, PoolKept DEF IInv, TypeOK
  <2>2. CASE Retry(c)
    <3>1. CallsOK'
      BY <1>1, <1>2, <2>2 DEF Retry, CallsOK
    <3> QED BY <1>1, <3>1, PoolKept DEF IInv, TypeOK
  <2> QED BY <1>4, <2>1, <2>2 DEF Refused, UseEnds
<1>5. CASE SubscribeLookup(c)
  <2>1. arg[c] \in Devices
    BY <1>5, FoundSession DEF SubscribeLookup
  <2>2. CallsOK'
    <3>1. CASE Bound(arg[c]) = None
      BY <1>1, <1>2, <1>5, <3>1, ReturnCalls DEF SubscribeLookup
    <3>2. CASE Bound(arg[c]) # None
      <4>1. Bound(arg[c]) \in 1..made
        BY <2>1, <3>2, BoundSession
      <4> QED BY <1>1, <1>2, <1>3, <1>5, <2>1, <3>2, <4>1 DEF SubscribeLookup, CallsOK
    <3> QED BY <3>1, <3>2
  <2> QED BY <1>1, <2>2, PoolKept DEF IInv, TypeOK
<1>6. CASE \E d \in Devices : UnsubscribeLookup(c, d)
  <2>1. PICK d \in Devices : UnsubscribeLookup(c, d)
    BY <1>6
  <2>2. Bound(d) \in 1..made
    BY <2>1, BoundSession DEF UnsubscribeLookup
  <2>3. CallsOK'
    BY <1>1, <1>2, <1>3, <2>1, <2>2 DEF UnsubscribeLookup, CallsOK
  <2> QED BY <1>1, <2>3, PoolKept DEF IInv, TypeOK
<1> QED BY <1>4, <1>5, <1>6

\* BrowseNodes.
LEMMA BrowseInv ==
  ASSUME IInv, NEW d \in Devices, Browse(d)
  PROVE  IInv'
<1>1. PICK s, o : s = Bound(d) /\ o = [obj[s] EXCEPT !.used = TRUE]
  OBVIOUS
<1>2. s \in 1..made /\ obj[s] \in Session
  BY <1>1, BoundSession DEF Browse
<1>3. /\ o \in Session /\ o.ep = obj[s].ep /\ o.devices = obj[s].devices
  BY <1>1, <1>2 DEF Session
<1>4. /\ obj' = [obj EXCEPT ![s] = o]
      /\ UNCHANGED <<sessions, devices, made, state, pc, arg, found, check>>
  BY <1>1 DEF Browse, callVars
<1>5. CallsOK'
  BY <1>4, TypeParts DEF IInv, CallsOK
<1> QED BY <1>2, <1>3, <1>4, <1>5, ObjectStep

\* checkSessionHealth.
LEMMA CheckInv ==
  ASSUME IInv, NEW ok \in BOOLEAN, CheckSessionHealth(ok)
  PROVE  IInv'
<1>1. PICK s, o : s = check /\ o = Connect(obj[s], ok)
  OBVIOUS
<1>2. s \in 1..made /\ obj[s] \in Session
  BY <1>1 DEF CheckSessionHealth, IInv, TypeOK
<1>3. /\ o \in Session /\ o.ep = obj[s].ep /\ o.devices = obj[s].devices
  BY <1>1, <1>2, ConnectSession
<1>4. /\ obj' = [obj EXCEPT ![s] = o] /\ check' = None
      /\ UNCHANGED <<sessions, devices, made, state, pc, arg, found>>
  BY <1>1 DEF CheckSessionHealth, callVars
<1>5. CallsOK'
  BY <1>4, TypeParts DEF IInv, CallsOK
<1> QED BY <1>2, <1>3, <1>4, <1>5, ObjectStep

\* Time passes.
LEMMA AgesInv ==
  ASSUME IInv, NEW s \in Ids, Ages(s)
  PROVE  IInv'
<1>1. s \in 1..made /\ obj[s] \in Session
  <2>1. s \in 1..made
    BY SessionAssumption DEF Ages, Pooled, IInv, TypeOK, Ids
  <2> QED BY <2>1 DEF IInv, TypeOK
<1>2. PICK o \in {[obj[s] EXCEPT !.used = FALSE], [obj[s] EXCEPT !.published = FALSE]} :
         obj' = [obj EXCEPT ![s] = o]
  BY DEF Ages
<1>3. /\ o \in Session /\ o.ep = obj[s].ep /\ o.devices = obj[s].devices
  BY <1>1, <1>2 DEF Session
<1>4. UNCHANGED <<sessions, devices, made, state, pc, arg, found, check>>
  BY DEF Ages, callVars
<1>5. CallsOK'
  BY <1>4, TypeParts DEF IInv, CallsOK
<1> QED BY <1>1, <1>2, <1>3, <1>4, <1>5, ObjectStep

-----------------------------------------------------------------------------
(* Sessions leave the pool                                                 *)

\* A session that was ended is a session without subscriptions.
LEMMA EndedSession ==
  ASSUME NEW o \in Session
  PROVE  Ended(o) \in Session /\ Ended(o).ep = o.ep /\ Ended(o).subs = {}
  BY DEF Ended, Session

\* reapIdleSessions: the bindings of the session's devices go with it.
LEMMA ReapInv ==
  ASSUME IInv, NEW e \in Endpoints, Reap(e)
  PROVE  IInv'
<1> USE SessionAssumption DEF IInv
<1>1. made \in Nat /\ 1..made \subseteq Ids
  BY DEF TypeOK, Ids
<1>2. PICK s : s = sessions[e]
  OBVIOUS
<1>3. PICK o : o = Ended(obj[s])
  OBVIOUS
<1>4. \A f \in Endpoints : sessions[f] # None =>
          sessions[f] \in 1..made /\ obj[sessions[f]].ep = f
  BY DEF TypeOK, Ids
<1>5. s \in 1..made /\ obj[s] \in Session /\ obj[s].ep = e
  BY <1>2, <1>4 DEF Reap, TypeOK
<1>6. o \in Session /\ o.ep = e /\ o.subs = {}
  BY <1>3, <1>5, EndedSession
<1>7. /\ obj' = [obj EXCEPT ![s] = o]
      /\ sessions' = [sessions EXCEPT ![e] = None]
      /\ devices' = [d \in Devices |-> IF d \in obj[s].devices /\ devices[d] = e
                                       THEN None ELSE devices[d]]
      /\ UNCHANGED <<made, state, pc, arg, found, check>>
  BY <1>2, <1>3 DEF Reap, callVars
<1>8. \A t \in 1..made : obj'[t] = IF t = s THEN o ELSE obj[t]
  BY <1>1, <1>7 DEF TypeOK
<1>9. sessions'[e] = None /\ \A f \in Endpoints \ {e} : sessions'[f] = sessions[f]
  BY <1>7 DEF TypeOK
<1>10. TypeOK'
  <2>1. PoolOK'
    <3>1. obj' \in [Ids -> Session \cup {None}] /\ \A t \in 1..made : obj'[t] \in Session
      BY <1>1, <1>5, <1>6, <1>7, <1>8 DEF TypeOK
    <3>2. /\ sessions' \in [Endpoints -> Ids \cup {None}]
          /\ devices' \in [Devices -> Endpoints \cup {None}]
      BY <1>7 DEF TypeOK
    <3>3. \A f \in Endpoints : sessions'[f] # None =>
             sessions'[f] <= made /\ obj'[sessions'[f]].ep = f
      BY <1>1, <1>4, <1>5, <1>8, <1>9
    <3> QED BY <1>7, <3>1, <3>2, <3>3 DEF PoolOK, TypeOK
  <2>2. CallsOK'
    BY <1>7, TypeParts DEF CallsOK
  <2> QED BY <2>1, <2>2, TypeParts, PTL
<1>11. BindingsAgree'
  <2> SUFFICES ASSUME NEW x \in Devices, NEW f \in Endpoints
               PROVE  devices'[x] = f <=> sessions'[f] # None /\ x \in obj'[sessions'[f]].devices
    BY DEF BindingsAgree
  <2>1. devices[x] = f <=> sessions[f] # None /\ x \in obj[sessions[f]].devices
    BY DEF BindingsAgree
  <2>2. CASE f = e
    <3>1. devices'[x] # e
      BY <1>2, <1>7, <2>1, <2>2
    <3> QED BY <1>9, <2>2, <3>1
  <2>3. CASE f # e
    <3>1. devices'[x] = f <=> devices[x] = f
      BY <1>7, <2>3
    <3>2. sessions'[f] = sessions[f]
      BY <1>9, <2>3
    <3>3. sessions[f] # None => obj'[sessions[f]] = obj[sessions[f]]
      BY <1>4, <1>5, <1>8, <2>3
    <3> QED BY <2>1, <3>1, <3>2, <3>3
  <2> QED BY <2>2, <2>3
<1> QED BY <1>10, <1>11

\* The end of Close.
LEMMA CloseSessionsInv ==
  ASSUME IInv, CloseSessions
  PROVE  IInv'
<1> USE SessionAssumption DEF IInv
<1>1. 1..made \subseteq Ids
  BY DEF TypeOK, Ids
<1>2. \A s \in Pooled : s \in 1..made
  BY DEF Pooled, TypeOK, Ids
<1>3. /\ obj' = [s \in Ids |-> IF s \in Pooled THEN Ended(obj[s]) ELSE obj[s]]
      /\ sessions' = [e \in Endpoints |-> None] /\ devices' = [d \in Devices |-> None]
      /\ state' = "closed" /\ UNCHANGED <<made, pc, arg, found, check>>
  BY DEF CloseSessions, callVars
<1>4. \A s \in 1..made : obj'[s] = IF s \in Pooled THEN Ended(obj[s]) ELSE obj[s]
  BY <1>1, <1>3
<1>5. \A s \in 1..made : obj'[s] \in Session /\ (obj'[s].subs = {} \/ obj'[s] = obj[s])
  <2> SUFFICES ASSUME NEW s \in 1..made
               PROVE  obj'[s] \in Session /\ (obj'[s].subs = {} \/ obj'[s] = obj[s])
    OBVIOUS
  <2>1. obj[s] \in Session
    BY DEF TypeOK
  <2> QED BY <1>4, <2>1, EndedSession
<1>6. TypeOK'
  <2>1. PoolOK'
    <3>1. obj' \in [Ids -> Session \cup {None}]
      <4> SUFFICES ASSUME NEW s \in Ids PROVE obj'[s] \in Session \cup {None}
        BY <1>3
      <4>1. CASE s \in Pooled
        BY <1>2, <1>5, <4>1
      <4>2. CASE s \notin Pooled
        BY <1>3, <4>2 DEF TypeOK
      <4> QED BY <4>1, <4>2
    <3> QED BY <1>3, <1>5, <3>1 DEF PoolOK, TypeOK
  <2>2. CallsOK'
    BY <1>3, TypeParts DEF CallsOK
  <2> QED BY <2>1, <2>2, TypeParts, PTL
<1>7. BindingsAgree'
  BY <1>3 DEF BindingsAgree
<1> QED BY <1>6, <1>7

-----------------------------------------------------------------------------
(* Theorems                                                                *)

\* Every step keeps the invariant.
LEMMA StepInv == IInv /\ [Next]_vars => IInv'
<1> SUFFICES ASSUME IInv, [Next]_vars PROVE IInv'
  OBVIOUS
<1>1. ASSUME NEW c \in Callers, NEW d \in Devices, NEW e \in Endpoints, GetClient(c, d, e)
      PROVE  IInv'
  BY <1>1, GetExistingInv, GetCreatedInv, GetRefusedInv DEF GetClient
<1>2. ASSUME NEW c \in Callers, CallSteps(c) \/ \E d \in Devices : UnsubscribeLookup(c, d)
      PROVE  IInv'
  BY <1>2, UseInv, ReconnectInv, SubscribeInv, UnsubscribeInv, LookupInv DEF CallSteps
<1>3. ASSUME NEW e \in Endpoints, CheckLookup(e) PROVE IInv'
  <2>1. UNCHANGED <<sessions, devices, made, obj, state, pc, arg, found>>
    BY <1>3 DEF CheckLookup, poolVars, callVars
  <2>2. check' \in 1..made
    BY <1>3, SessionAssumption DEF CheckLookup, IInv, TypeOK, Ids
  <2>3. CallsOK'
    BY <2>1, <2>2, TypeParts DEF IInv, CallsOK
  <2> QED BY <2>1, <2>3, PoolKept DEF IInv, TypeOK
<1>4. CASE Close
  <2>1. UNCHANGED <<sessions, devices, made, obj, pc, arg, found, check>> /\ state' = "closing"
    BY <1>4 DEF Close, poolVars, callVars
  <2>2. CallsOK'
    BY <2>1, TypeParts DEF IInv, CallsOK
  <2> QED BY <2>1, <2>2, PoolKept
<1>5. CASE UNCHANGED vars
  <2>1. UNCHANGED <<sessions, devices, made, obj, state, pc, arg, found, check>>
    BY <1>5 DEF vars, poolVars, callVars
  <2>2. CallsOK'
    BY <2>1, TypeParts DEF IInv, CallsOK
  <2> QED BY <2>1, <2>2, PoolKept DEF IInv, TypeOK
<1> QED BY <1>1, <1>2, <1>3, <1>4, <1>5, BrowseInv, ReapInv, CheckInv, AgesInv,
           CloseSessionsInv DEF Next

\* The invariant holds in every reachable state.
LEMMA Inductive == Spec => []IInv
  BY InitInv, StepInv, PTL DEF Spec

\* Every variable keeps its type, and the session of an endpoint in p.sessions
\* is one that was made for that endpoint.
THEOREM TypeCorrect == Spec => []TypeOK
<1>1. IInv => TypeOK
  BY DEF IInv
<1> QED BY <1>1, Inductive, PTL

\* p.devices and the device lists of the sessions agree for any number of
\* devices, endpoints and callers: GetClient, the reaper and Close never leave a
\* binding to a session that is gone, nor a session that lists a device bound
\* elsewhere.
THEOREM BindingsAgreeHolds == Spec => []BindingsAgree
<1>1. IInv => BindingsAgree
  BY DEF IInv
<1> QED BY <1>1, Inductive, PTL

-----------------------------------------------------------------------------
(* Subscriptions                                                           *)

\* A client in use whose session is in the pool is connected.
UseLive ==
    \A c \in Callers, e \in Endpoints :
        pc[c] \in {"use", "run"} /\ found[c] = sessions[e] => obj[found[c]].connected

\* A client that is being reconnected has left the pool.
RetryGone ==
    \A c \in Callers, e \in Endpoints :
        pc[c] \in {"disconnect", "connect"} => found[c] # sessions[e]

LiveInv == SubscriptionsLive /\ UseLive /\ RetryGone

\* What a step does to the sessions of the pool: each was there before and has
\* lost neither its connection nor taken a subscription without one, or is new.
PoolLives ==
    \A e \in Endpoints : sessions'[e] # None =>
        \/ /\ sessions'[e] = sessions[e]
           /\ obj[sessions[e]].connected => obj'[sessions[e]].connected
           /\ obj'[sessions[e]].subs # {} =>
                 obj[sessions[e]].subs # {} \/ obj'[sessions[e]].connected
        \/ sessions'[e] \notin 1..made /\ obj'[sessions'[e]].subs = {}

\* What it does to a caller: it goes on with its client or a connected one, and
\* reconnects only one that is not in the pool.
CallerLives(c) ==
    /\ pc'[c] \in {"use", "run"} =>
          \/ pc[c] \in {"use", "run"} /\ found'[c] = found[c]
          \/ pc[c] \in {"disconnect", "connect"} /\ found'[c] = found[c]
          \/ obj'[found'[c]].connected
    /\ pc'[c] \in {"disconnect", "connect"} =>
          /\ pc[c] # "idle" /\ found'[c] = found[c]
          /\ pc[c] \in {"disconnect", "connect"} \/ \A e \in Endpoints : found[c] # sessions[e]

\* The sessions of the pool are objects made for their endpoints.
LEMMA PooledSessions ==
  ASSUME IInv, NEW e \in Endpoints, sessions[e] # None
  PROVE  /\ sessions[e] \in 1..made /\ sessions[e] \in Ids
         /\ obj[sessions[e]] \in Session /\ obj[sessions[e]].ep = e
  BY SessionAssumption DEF IInv, TypeOK, Ids

\* Such steps keep the invariant.
LEMMA LiveKept ==
  ASSUME IInv, LiveInv, PoolLives, \A c \in Callers : CallerLives(c)
  PROVE  LiveInv'
<1>1. SubscriptionsLive'
  <2> SUFFICES ASSUME NEW e \in Endpoints, sessions'[e] # None, obj'[sessions'[e]].subs # {}
               PROVE  obj'[sessions'[e]].connected
    BY DEF SubscriptionsLive
  <2> QED BY DEF PoolLives, LiveInv, SubscriptionsLive
<1>2. \A c \in Callers : pc[c] # "idle" => found[c] \in 1..made /\ found[c] # None
  BY FoundSession, SessionAssumption
<1>3. UseLive'
  <2> SUFFICES ASSUME NEW c \in Callers, NEW e \in Endpoints, pc'[c] \in {"use", "run"},
                      found'[c] = sessions'[e]
               PROVE  obj'[found'[c]].connected
    BY DEF UseLive
  <2>1. CASE pc[c] \in {"use", "run"} /\ found'[c] = found[c]
    <3>1. found[c] \in 1..made /\ found[c] # None
      BY <1>2, <2>1
    <3>2. /\ sessions'[e] = sessions[e]
          /\ obj[sessions[e]].connected => obj'[sessions[e]].connected
      BY <2>1, <3>1 DEF PoolLives
    <3> QED BY <2>1, <3>2 DEF LiveInv, UseLive
  <2>2. CASE pc[c] \in {"disconnect", "connect"} /\ found'[c] = found[c]
    <3>1. found[c] \in 1..made /\ found[c] # None
      BY <1>2, <2>2
    <3>2. sessions'[e] = sessions[e]
      BY <2>2, <3>1 DEF PoolLives
    <3> QED BY <2>2, <3>2 DEF LiveInv, RetryGone
  <2> QED BY <2>1, <2>2 DEF CallerLives
<1>4. RetryGone'
  <2> SUFFICES ASSUME NEW c \in Callers, NEW e \in Endpoints,
                      pc'[c] \in {"disconnect", "connect"}, found'[c] = sessions'[e]
               PROVE  FALSE
    BY DEF RetryGone
  <2>1. found'[c] = found[c] /\ found[c] \in 1..made /\ found[c] # None
    BY <1>2 DEF CallerLives
  <2>2. sessions'[e] = sessions[e]
    BY <2>1 DEF PoolLives
  <2> QED BY <2>1, <2>2 DEF CallerLives, LiveInv, RetryGone
<1> QED BY <1>1, <1>3, <1>4 DEF LiveInv

\* A step that changes one object and leaves the map alone.
LEMMA ObjectLives ==
  ASSUME IInv, NEW s \in 1..made, NEW o \in Session, UNCHANGED sessions,
         obj' = [obj EXCEPT ![s] = o],
         \/ /\ obj[s].connected => o.connected
            /\ o.subs # {} => obj[s].subs # {} \/ o.connected
         \/ \A e \in Endpoints : sessions[e] # s
  PROVE  PoolLives /\ obj'[s] = o
<1>1. obj'[s] = o /\ \A t \in Ids \ {s} : obj'[t] = obj[t]
  BY SessionAssumption DEF IInv, TypeOK, Ids
<1> QED BY <1>1, PooledSessions DEF PoolLives

\* A step that leaves objects and map alone.
LEMMA SameLives ==
  ASSUME UNCHANGED <<sessions, obj>>
  PROVE  PoolLives
  BY DEF PoolLives

\* The steps of a caller on its session.
LEMMA CallLive ==
  ASSUME IInv, LiveInv, NEW c \in Callers, CallSteps(c)
  PROVE  LiveInv'
<1>1. PICK s : s = found[c]
  OBVIOUS
<1>2. pc[c] # "idle" /\ s \in 1..made /\ obj[s] \in Session /\ arg[c] \in Devices
  BY <1>1, FoundSession DEF CallSteps, Use, Refused, UseEnds, Retry, Disconnect, Reconnect,
                            SubscribeLookup, Subscribe, Unsubscribe
<1>3. pc \in [Callers -> {"idle", "use", "run", "disconnect", "connect", "lookup",
                          "subscribe", "unsubscribe"}]
      /\ found \in [Callers -> Ids \cup {None}]
  BY DEF IInv, TypeOK
<1>4. ASSUME Return(c) PROVE \A b \in Callers : CallerLives(b)
  BY <1>3, <1>4 DEF Return, CallerLives
<1>5. ASSUME UNCHANGED found, NEW x, pc' = [pc EXCEPT ![c] = x],
             \/ x = "run" /\ pc[c] \in {"use", "connect"}
             \/ x = "connect" /\ pc[c] = "disconnect"
             \/ x = "disconnect" /\ \A e \in Endpoints : found[c] # sessions[e]
             \/ x = "subscribe"
      PROVE  \A b \in Callers : CallerLives(b)
  BY <1>2, <1>3, <1>5 DEF CallerLives
<1>6. CASE Use(c)
  <2>1. PICK o : o = [obj[s] EXCEPT !.used = TRUE]
    OBVIOUS
  <2>2. o \in Session /\ o.subs = obj[s].subs /\ o.connected = obj[s].connected
    BY <1>2, <2>1 DEF Session
  <2>3. obj' = [obj EXCEPT ![s] = o] /\ UNCHANGED sessions
    BY <1>1, <1>6, <2>1 DEF Use
  <2>4. PoolLives
    BY <1>2, <2>2, <2>3, ObjectLives
  <2>5. \A b \in Callers : CallerLives(b)
    BY <1>4, <1>5, <1>6 DEF Use
  <2> QED BY <2>4, <2>5, LiveKept
<1>7. CASE Refused(c) \/ UseEnds(c)
  BY <1>4, <1>7, SameLives, LiveKept DEF Refused, UseEnds, poolVars
<1>8. CASE Retry(c)
  <2>1. \A e \in Endpoints : found[c] # sessions[e]
    BY <1>8 DEF Retry, LiveInv, UseLive
  <2>2. \A b \in Callers : CallerLives(b)
    BY <1>5, <1>8, <2>1 DEF Retry
  <2> QED BY <1>8, <2>2, SameLives, LiveKept DEF Retry, poolVars
<1>9. CASE Disconnect(c)
  <2>1. PICK o : o = [obj[s] EXCEPT !.connected = FALSE]
    OBVIOUS
  <2>2. o \in Session
    BY <1>2, <2>1 DEF Session
  <2>3. obj' = [obj EXCEPT ![s] = o] /\ UNCHANGED sessions
    BY <1>1, <1>9, <2>1 DEF Disconnect
  <2>4. \A e \in Endpoints : sessions[e] # s
    BY <1>1, <1>9 DEF Disconnect, LiveInv, RetryGone
  <2>5. PoolLives
    BY <1>2, <2>2, <2>3, <2>4, ObjectLives
  <2>6. \A b \in Callers : CallerLives(b)
    BY <1>5, <1>9 DEF Disconnect
  <2> QED BY <2>5, <2>6, LiveKept
<1>10. ASSUME NEW ok \in BOOLEAN, Reconnect(c, ok) PROVE LiveInv'
  <2>1. PICK o : o = Connect(obj[s], ok)
    OBVIOUS
  <2>2. o \in Session /\ o.subs = obj[s].subs /\ (obj[s].connected => o.connected)
    BY <1>2, <2>1, ConnectSession
  <2>3. obj' = [obj EXCEPT ![s] = o] /\ UNCHANGED sessions
    BY <1>1, <1>10, <2>1 DEF Reconnect
  <2>4. PoolLives
    BY <1>2, <2>2, <2>3, ObjectLives
  <2>5. \A b \in Callers : CallerLives(b)
    BY <1>5, <1>10 DEF Reconnect
  <2> QED BY <2>4, <2>5, LiveKept
<1>11. CASE SubscribeLookup(c)
  <2>1. \A b \in Callers : CallerLives(b)
    <3>1. CASE Return(c)
      BY <1>4, <3>1
    <3>2. CASE pc' = [pc EXCEPT ![c] = "subscribe"]
               /\ found' = [found EXCEPT ![c] = Bound(arg[c])]
      BY <1>3, <3>2 DEF CallerLives
    <3> QED BY <1>11, <3>1, <3>2 DEF SubscribeLookup
  <2> QED BY <1>11, <2>1, SameLives, LiveKept DEF SubscribeLookup, poolVars
<1>12. ASSUME NEW ok \in BOOLEAN, Subscribe(c, ok) PROVE LiveInv'
  <2>1. PICK o : o = IF obj[s].connected /\ ok
                     THEN [obj[s] EXCEPT !.subs = @ \cup {arg[c]}, !.active = TRUE,
                                         !.published = TRUE]
                     ELSE [obj[s] EXCEPT !.subs = @ \ {arg[c]}]
    OBVIOUS
  <2>2. /\ o \in Session /\ o.connected = obj[s].connected
        /\ o.subs # {} => obj[s].subs # {} \/ o.connected
    <3>1. CASE obj[s].connected /\ ok
      BY <1>2, <2>1, <3>1 DEF Session
    <3>2. CASE ~(obj[s].connected /\ ok)
      BY <1>2, <2>1, <3>2 DEF Session
    <3> QED BY <3>1, <3>2
  <2>3. obj' = [obj EXCEPT ![s] = o] /\ UNCHANGED sessions
    BY <1>1, <1>12, <2>1 DEF Subscribe
  <2>4. PoolLives
    BY <1>2, <2>2, <2>3, ObjectLives
  <2> QED BY <1>4, <1>12, <2>4, LiveKept DEF Subscribe
<1>13. CASE Unsubscribe(c)
  <2>1. CASE arg[c] \in obj[s].subs
    <3>1. PICK o : o = [obj[s] EXCEPT !.subs = @ \ {arg[c]}, !.active = obj[s].subs # {arg[c]}]
      OBVIOUS
    <3>2. /\ o \in Session /\ o.connected = obj[s].connected
          /\ o.subs # {} => obj[s].subs # {}
      BY <1>2, <2>1, <3>1 DEF Session
    <3>3. obj' = [obj EXCEPT ![s] = o] /\ UNCHANGED sessions
      BY <1>1, <1>13, <2>1, <3>1 DEF Unsubscribe
    <3>4. PoolLives
      BY <1>2, <3>2, <3>3, ObjectLives
    <3> QED BY <1>4, <1>13, <3>4, LiveKept DEF Unsubscribe
  <2>2. CASE arg[c] \notin obj[s].subs
    BY <1>1, <1>4, <1>13, <2>2, SameLives, LiveKept DEF Unsubscribe
  <2> QED BY <2>1, <2>2
<1> QED BY <1>6, <1>7, <1>8, <1>9, <1>10, <1>11, <1>12, <1>13 DEF CallSteps

\* A caller that GetClient lets go on has a connected client.
LEMMA GoOnLives ==
  ASSUME IInv, NEW c \in Callers, NEW d \in Devices, NEW op \in {"use", "lookup"},
         NEW s, NEW o, GoOn(c, d, op, s, o), obj'[s] = o
  PROVE  \A b \in Callers : CallerLives(b)
<1>1. /\ pc \in [Callers -> {"idle", "use", "run", "disconnect", "connect", "lookup",
                             "subscribe", "unsubscribe"}]
      /\ found \in [Callers -> Ids \cup {None}]
  BY DEF IInv, TypeOK
<1>2. CASE o.connected
  BY <1>1, <1>2 DEF GoOn, CallerLives
<1>3. CASE ~o.connected
  BY <1>3 DEF GoOn, callVars, CallerLives
<1> QED BY <1>2, <1>3

\* A step that leaves the callers alone.
LEMMA CallersLive ==
  ASSUME IInv, UNCHANGED <<pc, found>>
  PROVE  \A b \in Callers : CallerLives(b)
  BY DEF CallerLives

\* What LeaveSession says of clients and subscriptions, for a name of the result.
LEMMA LeaveKeepsClients ==
  ASSUME IInv, NEW d \in Devices, NEW e \in Endpoints, NEW L, L = Leave(d, e)
  PROVE  /\ L \in [Ids -> Session \cup {None}]
         /\ \A t \in 1..made :
               /\ L[t] \in Session /\ L[t].subs = obj[t].subs
               /\ (L[t].connected <=> obj[t].connected)
<1>1. /\ Leave(d, e) \in [Ids -> Session \cup {None}]
      /\ \A s \in 1..made :
            /\ Leave(d, e)[s] \in Session
            /\ Leave(d, e)[s].ep = obj[s].ep
            /\ Leave(d, e)[s].subs = obj[s].subs
            /\ (Leave(d, e)[s].connected <=> obj[s].connected)
            /\ Leave(d, e)[s].devices =
                  IF MovedFrom(d, e) /\ sessions[devices[d]] = s
                  THEN obj[s].devices \ {d} ELSE obj[s].devices
  BY LeaveSession
<1>2. /\ Leave(d, e) \in [Ids -> Session \cup {None}]
      /\ \A t \in 1..made :
            /\ Leave(d, e)[t] \in Session /\ Leave(d, e)[t].subs = obj[t].subs
            /\ (Leave(d, e)[t].connected <=> obj[t].connected)
  BY <1>1
<1> QED BY <1>2

\* GetClient.
LEMMA GetLive ==
  ASSUME IInv, LiveInv, NEW c \in Callers, NEW d \in Devices, NEW e \in Endpoints,
         GetClient(c, d, e)
  PROVE  LiveInv'
<1> USE SessionAssumption
<1>1. PICK L : L = Leave(d, e)
  OBVIOUS
<1>2. /\ L \in [Ids -> Session \cup {None}]
      /\ \A t \in 1..made :
            /\ L[t] \in Session /\ L[t].subs = obj[t].subs
            /\ (L[t].connected <=> obj[t].connected)
  BY <1>1, LeaveKeepsClients
<1>3. made \in Nat /\ 1..made \subseteq Ids
  BY DEF IInv, TypeOK, Ids
<1>4. ASSUME NEW op \in {"use", "lookup"}, NEW ok \in BOOLEAN, GetExisting(c, d, e, op, ok)
      PROVE  LiveInv'
  <2>1. PICK s : s = sessions[e]
    OBVIOUS
  <2>2. s \in 1..made
    BY <1>4, <2>1, PooledSessions DEF GetExisting
  <2>3. PICK b, o : b = [L[s] EXCEPT !.devices = @ \cup {d}] /\ o = Connect(b, ok)
    OBVIOUS
  <2>4. b \in Session /\ b.subs = obj[s].subs /\ (b.connected <=> obj[s].connected)
    <3>1. b \in Session /\ b.subs = L[s].subs /\ b.connected = L[s].connected
      BY <1>2, <2>2, <2>3 DEF Session
    <3> QED BY <1>2, <2>2, <3>1
  <2>5. o \in Session /\ o.subs = obj[s].subs /\ (obj[s].connected => o.connected)
    BY <2>3, <2>4, ConnectSession
  <2>6. obj' = [L EXCEPT ![s] = o] /\ GoOn(c, d, op, s, o) /\ UNCHANGED sessions
    BY <1>1, <1>4, <2>1, <2>3 DEF GetExisting
  <2>7. obj'[s] = o /\ \A t \in Ids \ {s} : obj'[t] = L[t]
    BY <1>2, <1>3, <2>2, <2>6
  <2>8. PoolLives
    <3> SUFFICES ASSUME NEW f \in Endpoints, sessions[f] # None
                 PROVE  /\ obj[sessions[f]].connected => obj'[sessions[f]].connected
                        /\ obj'[sessions[f]].subs = obj[sessions[f]].subs
      BY <2>6 DEF PoolLives
    <3>1. sessions[f] \in 1..made /\ sessions[f] \in Ids
      BY PooledSessions
    <3> QED BY <1>2, <2>5, <2>7, <3>1
  <2> QED BY <2>6, <2>7, <2>8, GoOnLives, LiveKept
<1>5. ASSUME NEW op \in {"use", "lookup"}, NEW ok \in BOOLEAN, GetCreated(c, d, e, op, ok)
      PROVE  LiveInv'
  <2>1. PICK s, n : s = made + 1 /\ n = NewSession(d, e, ok)
    OBVIOUS
  <2>2. n \in Session /\ n.subs = {}
    BY <2>1 DEF NewSession, Session
  <2>3. /\ obj' = [L EXCEPT ![s] = n] /\ sessions' = [sessions EXCEPT ![e] = s]
        /\ GoOn(c, d, op, s, n) /\ s \in Ids /\ s \notin 1..made
    BY <1>1, <1>3, <1>5, <2>1 DEF GetCreated, Ids
  <2>4. obj'[s] = n /\ \A t \in 1..made : obj'[t] = L[t]
    BY <1>2, <1>3, <2>3
  <2>5. sessions'[e] = s /\ \A f \in Endpoints \ {e} : sessions'[f] = sessions[f]
    BY <2>3 DEF IInv, TypeOK
  <2>6. PoolLives
    BY <1>2, <2>2, <2>3, <2>4, <2>5, PooledSessions DEF PoolLives
  <2> QED BY <2>3, <2>4, <2>6, GoOnLives, LiveKept
<1>6. CASE GetRefused(c, d, e)
  <2>1. obj' = L /\ UNCHANGED <<sessions, pc, found>>
    BY <1>1, <1>6 DEF GetRefused, callVars
  <2>2. PoolLives
    BY <1>2, <2>1, PooledSessions DEF PoolLives
  <2> QED BY <2>1, <2>2, CallersLive, LiveKept
<1> QED BY <1>4, <1>5, <1>6 DEF GetClient

\* The steps of the pool itself.
LEMMA PoolLive ==
  ASSUME IInv, LiveInv,
         \/ \E d \in Devices : Browse(d)
         \/ \E e \in Endpoints : CheckLookup(e) \/ Reap(e)
         \/ \E ok \in BOOLEAN : CheckSessionHealth(ok)
         \/ Close \/ CloseSessions
         \/ \E s \in Ids : Ages(s)
         \/ UNCHANGED vars
  PROVE  LiveInv'
<1>1. \A b \in Callers : CallerLives(b)
  <2>1. UNCHANGED <<pc, found>>
    BY DEF Browse, CheckLookup, Reap, CheckSessionHealth, Close, CloseSessions, Ages, vars,
           callVars
  <2> QED BY <2>1, CallersLive
<1>2. ASSUME NEW d \in Devices, Browse(d) PROVE PoolLives
  <2>1. PICK s, o : s = Bound(d) /\ o = [obj[s] EXCEPT !.used = TRUE]
    OBVIOUS
  <2>2. s \in 1..made /\ obj[s] \in Session
    BY <1>2, <2>1, BoundSession DEF Browse
  <2>3. o \in Session /\ o.subs = obj[s].subs /\ o.connected = obj[s].connected
    BY <2>1, <2>2 DEF Session
  <2> QED BY <1>2, <2>1, <2>2, <2>3, ObjectLives DEF Browse
<1>3. ASSUME (\E e \in Endpoints : CheckLookup(e)) \/ Close \/ UNCHANGED vars PROVE PoolLives
  BY <1>3, SameLives DEF CheckLookup, Close, vars, poolVars
<1>4. ASSUME NEW e \in Endpoints, Reap(e) PROVE PoolLives
  <2>1. PICK s : s = sessions[e]
    OBVIOUS
  <2>2. s \in 1..made /\ s \in Ids /\ obj[s].ep = e
    BY <1>4, <2>1, PooledSessions DEF Reap
  <2>3. sessions'[e] = None /\ \A f \in Endpoints \ {e} : sessions'[f] = sessions[f]
    BY <1>4 DEF Reap, IInv, TypeOK
  <2>4. \A t \in Ids \ {s} : obj'[t] = obj[t]
    BY <1>4, <2>1, <2>2 DEF Reap, IInv, TypeOK
  <2>5. \A f \in Endpoints \ {e} : sessions[f] # None => sessions[f] \in Ids \ {s}
    BY <2>2, PooledSessions
  <2> QED BY <2>3, <2>4, <2>5 DEF PoolLives
<1>5. ASSUME NEW ok \in BOOLEAN, CheckSessionHealth(ok) PROVE PoolLives
  <2>1. PICK s, o : s = check /\ o = Connect(obj[s], ok)
    OBVIOUS
  <2>2. s \in 1..made /\ obj[s] \in Session
    BY <1>5, <2>1 DEF CheckSessionHealth, IInv, TypeOK
  <2>3. o \in Session /\ o.subs = obj[s].subs /\ (obj[s].connected => o.connected)
    BY <2>1, <2>2, ConnectSession
  <2> QED BY <1>5, <2>1, <2>2, <2>3, ObjectLives DEF CheckSessionHealth
<1>6. ASSUME CloseSessions PROVE PoolLives
  BY <1>6 DEF CloseSessions, PoolLives
<1>7. ASSUME NEW s \in Ids, Ages(s) PROVE PoolLives
  <2>0. PICK e \in Endpoints : sessions[e] = s
    BY <1>7 DEF Ages, Pooled
  <2>1. s \in 1..made /\ obj[s] \in Session
    BY <2>0, PooledSessions, SessionAssumption DEF Ids
  <2>2. PICK o \in {[obj[s] EXCEPT !.used = FALSE], [obj[s] EXCEPT !.published = FALSE]} :
           obj' = [obj EXCEPT ![s] = o]
    BY <1>7 DEF Ages
  <2>3. o \in Session /\ o.subs = obj[s].subs /\ o.connected = obj[s].connected
    BY <2>1, <2>2 DEF Session
  <2> QED BY <1>7, <2>1, <2>2, <2>3, ObjectLives DEF Ages
<1> QED BY <1>1, <1>2, <1>3, <1>4, <1>5, <1>6, <1>7, LiveKept

\* Every step keeps the invariant.
LEMMA StepLive == IInv /\ LiveInv /\ [Next]_vars => LiveInv'
<1> SUFFICES ASSUME IInv, LiveInv, [Next]_vars PROVE LiveInv'
  OBVIOUS
<1>1. ASSUME NEW c \in Callers, NEW d \in Devices, UnsubscribeLookup(c, d) PROVE LiveInv'
  <2>1. \A b \in Callers : CallerLives(b)
    BY <1>1 DEF UnsubscribeLookup, CallerLives, IInv, TypeOK
  <2> QED BY <1>1, <2>1, SameLives, LiveKept DEF UnsubscribeLookup, poolVars
<1>2. CASE \E c \in Callers : \/ \E d \in Devices, e \in Endpoints : GetClient(c, d, e)
                              \/ \E d \in Devices : UnsubscribeLookup(c, d)
                              \/ CallSteps(c)
  BY <1>1, <1>2, GetLive, CallLive
<1> QED BY <1>2, PoolLive DEF Next

\* No subscription of a session in the pool is on a disconnected client, for any
\* number of devices, endpoints and callers.
THEOREM SubscriptionsLiveHolds == Spec => []SubscriptionsLive
<1>1. Init => LiveInv
  BY DEF Init, LiveInv, SubscriptionsLive, UseLive, RetryGone
<1>2. LiveInv => SubscriptionsLive
  BY DEF LiveInv
<1> QED BY <1>1, <1>2, Inductive, StepLive, PTL DEF Spec
=============================================================================
