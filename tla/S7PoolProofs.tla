---------------------------- MODULE S7PoolProofs ----------------------------
(***************************************************************************)
(* The S7 pool never goes on with an entry that is not there, and it is a  *)
(* DevicePool, for any sets of devices, callers and clients, any capacity  *)
(* and any number of address changes.                                      *)
(***************************************************************************)
EXTENDS S7Pool, FiniteSetTheorems, TLAPS

\* No client serves two devices: GetOrCreate puts a new one into the map.
Distinct ==
    \A d, e \in Devices : clients[d] = clients[e] /\ clients[d] # None => d = e

\* The map has at most MaxConnections entries.
Capacity == IsFiniteSet(Held) /\ Cardinality(Held) <= MaxConnections

\* An operation knows its device, and runs only while the pool is open.  What
\* GetOrCreate has just returned is in the map and counts as used; from the second
\* look-up on the operation has an entry.
OpInv ==
    \A o \in Ops :
        /\ op[o].pc # "idle" => op[o].dev \in Devices /\ closed = "open"
        /\ op[o].pc = "look" => clients[op[o].dev] # None /\ clients[op[o].dev] \notin stale
        /\ op[o].pc \in {"admit", "run", "reconnect"} => op[o].client # None

\* Close waits for the health check.
LoopInv == closed = "closed" => check = "off"

IInv == TypeOK /\ workload \in Workloads /\ Distinct /\ Capacity /\ OpInv /\ LoopInv

-----------------------------------------------------------------------------

\* GetCreated, when the device answers: c is put into the map, e taken out first.
Inserts(o, d, c, e) ==
    /\ clients' = [Without(e) EXCEPT ![d] = c]
    /\ link' = [Unlinked(e) EXCEPT ![c] = "up"]
    /\ target' = [target EXCEPT ![c] = Current(d)]
    /\ breaker' = [breaker EXCEPT ![c] = "closed"]
    /\ stale' = stale \ {e, c}
    /\ op' = [op EXCEPT ![o].pc = "look"]
    /\ UNCHANGED <<workload, closed, netVars, check, reaper>>

\* When it does not: only e is taken out.
OnlyEvicts(o, e) ==
    /\ clients' = Without(e) /\ link' = Unlinked(e)
    /\ stale' = stale \ {e}
    /\ op' = [op EXCEPT ![o] = Idle]
    /\ UNCHANGED <<workload, closed, netVars, target, breaker, check, reaper>>

\* What a step of GetCreated does, for the device of the operation and a client
\* that is not in the map.
LEMMA CreatedFacts ==
    ASSUME IInv, NEW o \in Ops, GetCreated(o)
    PROVE  \E d \in Devices, c \in Clients \ Pooled, e \in Clients \cup {None} :
              /\ op[o].dev = d /\ clients[d] = None /\ closed = "open" /\ Evicts(e)
              /\ Inserts(o, d, c, e) \/ OnlyEvicts(o, e)
  <1>1. PICK c \in Free : c = CHOOSE f \in Free : TRUE
    BY DEF GetCreated
  <1>2. c \in Clients \ Pooled
    BY <1>1 DEF Free
  <1>3. op[o].dev \in Devices /\ closed = "open"
    BY DEF IInv, OpInv, GetCreated
  <1>4. PICK e \in Clients \cup {None} :
             Evicts(e) /\ (Inserts(o, op[o].dev, c, e) \/ OnlyEvicts(o, e))
    BY <1>1, ZenonT(30) DEF GetCreated, Got, Return, Inserts, OnlyEvicts
  <1>5. clients[op[o].dev] = None
    BY DEF GetCreated
  <1> QED BY <1>2, <1>3, <1>4, <1>5

\* Taking a client out of the map.
LEMMA WithoutFacts ==
    ASSUME TypeOK, NEW e
    PROVE  /\ Without(e) \in [Devices -> Clients \cup {None}]
           /\ Unlinked(e) \in [Clients -> {"off", "up", "broken"}]
           /\ \A d \in Devices : Without(e)[d] = IF clients[d] = e THEN None ELSE clients[d]
  BY DEF TypeOK, Without, Unlinked

-----------------------------------------------------------------------------
(* Types                                                                   *)

\* Every step keeps the types.
LEMMA TypeStep == IInv /\ [Next]_vars => TypeOK'
  <1> SUFFICES ASSUME IInv, [Next]_vars PROVE TypeOK'
    OBVIOUS
  <1>0. TypeOK /\ workload \in Workloads /\ OpInv
    BY DEF IInv
  <1>1. ASSUME NEW o \in Ops, NEW d \in Devices, Lookup(o, d) PROVE TypeOK'
    BY <1>0, <1>1 DEF Lookup, TypeOK, poolVars, netVars
  <1>2. ASSUME NEW o \in Ops, GetExisting(o) \/ GetExhausted(o) PROVE TypeOK'
    BY <1>0, <1>2, PoolAssumption
       DEF GetExisting, GetExhausted, Got, Return, Idle, TypeOK, poolVars, netVars
  <1>3. ASSUME NEW o \in Ops, GetCreated(o) PROVE TypeOK'
    <2>1. PICK d \in Devices, c \in Clients \ Pooled, e \in Clients \cup {None} :
              Inserts(o, d, c, e) \/ OnlyEvicts(o, e)
      BY <1>3, CreatedFacts
    <2>2. clients' \in [Devices -> Clients \cup {None}] /\ stale' \subseteq Clients
      BY <1>0, <2>1, WithoutFacts DEF TypeOK, Inserts, OnlyEvicts
    <2>3. link' \in [Clients -> {"off", "up", "broken"}]
      BY <1>0, <2>1, WithoutFacts DEF Inserts, OnlyEvicts
    <2>4. target' \in [Clients -> Address \cup {None}]
      BY <1>0, <2>1 DEF TypeOK, Inserts, OnlyEvicts, Current, Address
    <2>5. breaker' \in [Clients -> {"closed", "open", "half-open"}]
      BY <1>0, <2>1 DEF TypeOK, Inserts, OnlyEvicts
    <2> QED BY <1>0, <2>1, <2>2, <2>3, <2>4, <2>5
               DEF TypeOK, Inserts, OnlyEvicts, Idle, netVars
  <1>4. ASSUME NEW o \in Ops, Look(o) \/ Admit(o) \/ Refuse(o) PROVE TypeOK'
    <2>1. CASE Look(o)
      <3>1. clients[op[o].dev] \in Clients \cup {None}
        BY <1>0, <2>1 DEF Look, TypeOK, OpInv
      <3> QED BY <1>0, <2>1, <3>1, ZenonT(30) DEF Look, TypeOK, poolVars, netVars
    <2>2. CASE Admit(o)
      BY <1>0, <2>2 DEF Admit, TypeOK, poolVars, netVars
    <2>3. CASE Refuse(o)
      BY <1>0, <2>3 DEF Refuse, Return, Idle, TypeOK, poolVars, netVars
    <2> QED BY <1>4, <2>1, <2>2, <2>3
  <1>5. ASSUME NEW o \in Ops, NotConnected(o) \/ Succeed(o) \/ Fails(o) PROVE TypeOK'
    <2>1. \E error \in BOOLEAN : Done(o, error)
      BY <1>5 DEF NotConnected, Succeed, Fails
    <2>2. breaker' \in [Clients -> {"closed", "open", "half-open"}]
      BY <1>0, <1>5, <2>1 DEF Done, TypeOK, OpInv, NotConnected, Succeed, Fails
    <2> QED BY <1>0, <1>5, <2>1, <2>2 DEF NotConnected, Succeed, Fails, Done, Return, Idle,
                                          TypeOK, poolVars, netVars
  <1>6. ASSUME NEW o \in Ops, Disconnects(o) \/ Reconnects(o) PROVE TypeOK'
    BY <1>0, <1>6, WithoutFacts DEF Disconnects, Reconnects, Connects, TypeOK, poolVars, netVars
  <1>7. ASSUME NEW c \in Clients, CheckLook(c) \/ TimePasses(c) \/ BreakerTimeout(c)
        PROVE  TypeOK'
    BY <1>0, <1>7 DEF CheckLook, TimePasses, BreakerTimeout, TypeOK, poolVars, netVars
  <1>8. ASSUME NEW c \in Clients, Reap(c) PROVE TypeOK'
    BY <1>0, <1>8, WithoutFacts DEF Reap, Drop, TypeOK, netVars
  <1>9. CASE CheckConnect \/ CheckEnds \/ ReaperEnds \/ Close
    <2>1. link' \in [Clients -> {"off", "up", "broken"}]
      BY <1>0, <1>9 DEF CheckConnect, CheckEnds, ReaperEnds, Close, Connects, TypeOK
    <2> QED BY <1>0, <1>9, <2>1 DEF CheckConnect, CheckEnds, ReaperEnds, Close, TypeOK,
                                    poolVars, netVars
  <1>10. CASE CloseDone
    BY <1>0, <1>10 DEF CloseDone, TypeOK, netVars
  <1>11. ASSUME NEW a \in Address, NetworkDown(a) PROVE TypeOK'
    BY <1>0, <1>11 DEF NetworkDown, TypeOK, poolVars
  <1>12. ASSUME NEW d \in Used, NetworkUp(d) \/ Move(d) PROVE TypeOK'
    <2>1. d \in Devices
      BY <1>0, PoolAssumption DEF Used
    <2>2. address[d] \in 0..MaxMoves
      BY <1>0, <2>1 DEF TypeOK
    <2> QED BY <1>0, <1>12, <2>1, <2>2, PoolAssumption
               DEF NetworkUp, Move, Current, Address, TypeOK, poolVars
  <1>13. CASE UNCHANGED vars
    BY <1>0, <1>13 DEF vars, TypeOK, poolVars, netVars
  <1> QED
    BY <1>1, <1>2, <1>3, <1>4, <1>5, <1>6, <1>7, <1>8, <1>9, <1>10, <1>11, <1>12, <1>13
       DEF Next, Steps

-----------------------------------------------------------------------------
(* Operations                                                              *)

\* What an operation has just got stays in the map until it is looked up again:
\* evictions and the reaper take stale entries only, others are made for devices
\* that have none, and Close waits for the operations.
LEMMA OpStep == IInv /\ [Next]_vars => OpInv'
  <1> SUFFICES ASSUME IInv, [Next]_vars PROVE OpInv'
    OBVIOUS
  <1>0. TypeOK /\ OpInv
    BY DEF IInv
  <1>1. ASSUME NEW o \in Ops, NEW d \in Devices, Lookup(o, d) PROVE OpInv'
    BY <1>0, <1>1 DEF Lookup, TypeOK, OpInv, poolVars
  <1>2. ASSUME NEW o \in Ops, GetExisting(o) PROVE OpInv'
    BY <1>0, <1>2 DEF GetExisting, Got, TypeOK, OpInv, poolVars
  <1>3. ASSUME NEW o \in Ops, GetExhausted(o) \/ Refuse(o) PROVE OpInv'
    BY <1>0, <1>3 DEF GetExhausted, Refuse, Return, Idle, TypeOK, OpInv, poolVars
  <1>4. ASSUME NEW o \in Ops, GetCreated(o) PROVE OpInv'
    <2>1. PICK d \in Devices, c \in Clients \ Pooled, e \in Clients \cup {None} :
              /\ op[o].dev = d /\ clients[d] = None /\ closed = "open" /\ Evicts(e)
              /\ Inserts(o, d, c, e) \/ OnlyEvicts(o, e)
      BY <1>4, CreatedFacts
    <2>2. e = None \/ e \in stale
      BY <2>1 DEF Evicts
    <2>3. ASSUME NEW k \in Devices, clients[k] # None, clients[k] \notin stale
          PROVE  clients'[k] # None /\ clients'[k] \notin stale'
      BY <1>0, <2>1, <2>2, <2>3, WithoutFacts, PoolAssumption DEF Inserts, OnlyEvicts, TypeOK
    <2>4. CASE Inserts(o, d, c, e)
      <3>1. clients'[d] # None /\ clients'[d] \notin stale'
        BY <1>0, <2>4, WithoutFacts, PoolAssumption DEF Inserts
      <3> QED BY <1>0, <2>1, <2>3, <2>4, <3>1 DEF Inserts, TypeOK, OpInv
    <2>5. CASE OnlyEvicts(o, e)
      BY <1>0, <2>1, <2>3, <2>5 DEF OnlyEvicts, TypeOK, OpInv, Idle
    <2> QED BY <2>1, <2>4, <2>5
  <1>5. ASSUME NEW o \in Ops, Look(o) PROVE OpInv'
    BY <1>0, <1>5 DEF Look, TypeOK, OpInv, poolVars
  <1>6. ASSUME NEW o \in Ops, Admit(o) PROVE OpInv'
    BY <1>0, <1>6 DEF Admit, TypeOK, OpInv, poolVars
  <1>7. ASSUME NEW o \in Ops, NotConnected(o) \/ Succeed(o) \/ Fails(o) PROVE OpInv'
    BY <1>0, <1>7 DEF NotConnected, Succeed, Fails, Done, Return, Idle, TypeOK, OpInv, poolVars
  <1>8. ASSUME NEW o \in Ops, Disconnects(o) \/ Reconnects(o) PROVE OpInv'
    BY <1>0, <1>8 DEF Disconnects, Reconnects, TypeOK, OpInv, poolVars
  <1>9. ASSUME NEW c \in Clients, CheckLook(c) \/ BreakerTimeout(c) PROVE OpInv'
    BY <1>0, <1>9 DEF CheckLook, BreakerTimeout, OpInv, poolVars
  <1>10. ASSUME NEW c \in Clients, TimePasses(c) PROVE OpInv'
    BY <1>0, <1>10 DEF TimePasses, OpInv, poolVars
  <1>11. ASSUME NEW c \in Clients, Reap(c) PROVE OpInv'
    BY <1>0, <1>11, WithoutFacts DEF Reap, Drop, OpInv
  <1>12. CASE CheckConnect \/ CheckEnds \/ ReaperEnds
    BY <1>0, <1>12 DEF CheckConnect, CheckEnds, ReaperEnds, OpInv, poolVars
  <1>13. CASE Close \/ CloseDone
    BY <1>0, <1>13 DEF Close, CloseDone, OpInv
  <1>14. ASSUME NEW a \in Address, NetworkDown(a) PROVE OpInv'
    BY <1>0, <1>14 DEF NetworkDown, OpInv, poolVars
  <1>15. ASSUME NEW d \in Used, NetworkUp(d) \/ Move(d) PROVE OpInv'
    BY <1>0, <1>15 DEF NetworkUp, Move, OpInv, poolVars
  <1>16. CASE UNCHANGED vars
    BY <1>0, <1>16 DEF vars, OpInv, poolVars
  <1> QED
    BY <1>1, <1>2, <1>3, <1>4, <1>5, <1>6, <1>7, <1>8, <1>9, <1>10, <1>11, <1>12, <1>13,
       <1>14, <1>15, <1>16 DEF Next, Steps

-----------------------------------------------------------------------------
(* The map                                                                 *)

\* An entry taken out leaves no other one behind, and makes room for one.
LEMMA RemoveEntry ==
    ASSUME TypeOK, Distinct, Capacity, NEW d \in Devices, clients[d] # None
    PROVE  /\ \A k \in Devices : Without(clients[d])[k] = IF k = d THEN None ELSE clients[k]
           /\ {k \in Devices : Without(clients[d])[k] # None} = Held \ {d}
           /\ IsFiniteSet(Held \ {d}) /\ Cardinality(Held \ {d}) = Cardinality(Held) - 1
           /\ Cardinality(Held) \in Nat
  <1>1. \A k \in Devices : Without(clients[d])[k] = IF k = d THEN None ELSE clients[k]
    BY WithoutFacts DEF Distinct
  <1>2. {k \in Devices : Without(clients[d])[k] # None} = Held \ {d}
    BY <1>1 DEF Held
  <1>3. d \in Held /\ IsFiniteSet(Held)
    BY DEF Held, Capacity
  <1> QED
    BY <1>1, <1>2, <1>3, FS_RemoveElement, FS_CardinalityType

\* What a step may do to the map, the links and closed.
Links == {c \in Clients : connected(c)}

LinksMove ==
    /\ clients' = clients /\ closed' = closed
    /\ \/ Links' = Links
       \/ \E c \in Clients : closed # "closed" /\ Links' = Links \cup {c}
       \/ \E c \in Clients : Links' = Links \ {c}

Takes(d) ==
    /\ clients' = Without(clients[d]) /\ link' = Unlinked(clients[d])
    /\ closed' = closed

Puts(d, c, e) ==
    /\ clients' = [Without(e) EXCEPT ![d] = c]
    /\ link' = [Unlinked(e) EXCEPT ![c] = "up"]
    /\ closed = "open" /\ closed' = closed
    /\ e = None => Cardinality(Held) < MaxConnections

\* When a client connects, its link is the only one that changes.
LEMMA ConnectsFacts ==
    ASSUME TypeOK, NEW c \in Clients, Connects(c)
    PROVE  Links' = Links \/ Links' = Links \cup {c}
  <1>1. CASE connected(c) \/ target[c] \in network
    <2>1. Links' = Links \cup {c}
      BY <1>1 DEF Connects, Links, connected, TypeOK
    <2> QED BY <2>1
  <1>2. CASE ~(connected(c) \/ target[c] \in network)
    BY <1>2 DEF Connects, Links, connected
  <1> QED BY <1>1, <1>2

\* Every step moves a link or none, takes one entry out of the map, adds one for a
\* device that has none, perhaps in the place of another, or is one of Close.
LEMMA MapStep ==
    ASSUME IInv, [Next]_vars
    PROVE  \/ LinksMove
           \/ \E d \in Held : Takes(d)
           \/ \E d \in Devices \ Held, c \in Clients \ Pooled, e \in Pooled \cup {None} :
                 Puts(d, c, e)
           \/ Close \/ CloseDone
  <1>0. TypeOK /\ Capacity /\ OpInv /\ LoopInv
    BY DEF IInv
  <1>1. ASSUME UNCHANGED <<clients, closed, link>> PROVE LinksMove
    BY <1>1 DEF LinksMove, Links, connected
  <1>2. ASSUME NEW o \in Ops,
               \/ \E d \in Devices : Lookup(o, d)
               \/ GetExisting(o) \/ GetExhausted(o) \/ Look(o) \/ Admit(o) \/ Refuse(o)
               \/ NotConnected(o) \/ Succeed(o) \/ Fails(o)
        PROVE  LinksMove
    BY <1>1, <1>2 DEF Lookup, GetExisting, GetExhausted, Look, Admit, Refuse, NotConnected,
                      Succeed, Fails, poolVars
  <1>3. ASSUME NEW o \in Ops, GetCreated(o)
        PROVE  \/ LinksMove
               \/ \E d \in Held : Takes(d)
               \/ \E d \in Devices \ Held, c \in Clients \ Pooled, e \in Pooled \cup {None} :
                     Puts(d, c, e)
    <2>1. PICK d \in Devices, c \in Clients \ Pooled, e \in Clients \cup {None} :
              /\ op[o].dev = d /\ clients[d] = None /\ closed = "open" /\ Evicts(e)
              /\ Inserts(o, d, c, e) \/ OnlyEvicts(o, e)
      BY <1>3, CreatedFacts
    <2>2. /\ d \in Devices \ Held /\ e \in Pooled \cup {None}
          /\ closed' = closed
      BY <2>1 DEF Held, Evicts, Inserts, OnlyEvicts
    <2>3. Cardinality(Held) \in Nat
      BY <1>0, FS_CardinalityType DEF Capacity
    <2>4. e = None => Cardinality(Held) < MaxConnections
      BY <2>1, <2>3, PoolAssumption DEF Evicts, Full, Pooled
    <2>5. CASE Inserts(o, d, c, e)
      BY <2>1, <2>2, <2>4, <2>5 DEF Inserts, Puts
    <2>6. CASE OnlyEvicts(o, e) /\ e = None
      <3>1. clients' = clients /\ link' = link
        BY <1>0, <2>6, PoolAssumption DEF OnlyEvicts, Without, Unlinked, TypeOK
      <3> QED BY <1>1, <2>2, <3>1
    <2>7. CASE OnlyEvicts(o, e) /\ e # None
      <3>1. PICK k \in Devices : clients[k] = e /\ clients[k] # None
        BY <2>2, <2>7 DEF Pooled
      <3> QED BY <2>2, <2>7, <3>1 DEF OnlyEvicts, Takes, Held
    <2> QED BY <2>1, <2>5, <2>6, <2>7
  <1>4. ASSUME NEW o \in Ops, Disconnects(o) PROVE LinksMove
    <2>1. PICK c \in Clients : c = op[o].client
      BY <1>0, <1>4 DEF Disconnects, OpInv, TypeOK
    <2>2. Links' = Links \ {c}
      BY <1>0, <1>4, <2>1, WithoutFacts DEF Disconnects, Links, connected, Unlinked
    <2> QED BY <1>4, <2>2 DEF Disconnects, LinksMove, poolVars
  <1>5. ASSUME NEW o \in Ops, Reconnects(o) PROVE LinksMove
    <2>1. PICK c \in Clients : c = op[o].client
      BY <1>0, <1>5 DEF Reconnects, OpInv, TypeOK
    <2>2. closed # "closed"
      BY <1>0, <1>5 DEF Reconnects, OpInv
    <2>3. Links' = Links \/ Links' = Links \cup {c}
      BY <1>0, <1>5, <2>1, ConnectsFacts DEF Reconnects
    <2> QED BY <1>5, <2>2, <2>3 DEF Reconnects, LinksMove, poolVars
  <1>6. ASSUME NEW c \in Clients, CheckLook(c) \/ TimePasses(c) \/ BreakerTimeout(c)
        PROVE  LinksMove
    BY <1>1, <1>6 DEF CheckLook, TimePasses, BreakerTimeout, poolVars
  <1>7. ASSUME NEW c \in Clients, Reap(c) PROVE \E d \in Held : Takes(d)
    <2>1. PICK d \in Devices : clients[d] = c /\ clients[d] # None
      BY <1>7 DEF Reap, Pooled
    <2> QED BY <1>7, <2>1 DEF Reap, Drop, Takes, Held
  <1>8. CASE CheckConnect
    <2>1. closed # "closed"
      BY <1>0, <1>8, PoolAssumption DEF CheckConnect, LoopInv
    <2>2. Links' = Links \/ \E c \in Clients : Links' = Links \cup {c}
      <3>1. CASE UNCHANGED link
        BY <3>1 DEF Links, connected
      <3>2. CASE Connects(check)
        BY <1>0, <1>8, <3>2, ConnectsFacts DEF CheckConnect
      <3> QED BY <1>8, <3>1, <3>2 DEF CheckConnect
    <2> QED BY <1>8, <2>1, <2>2 DEF CheckConnect, LinksMove, poolVars
  <1>9. CASE CheckEnds \/ ReaperEnds
    BY <1>1, <1>9 DEF CheckEnds, ReaperEnds, poolVars
  <1>10. ASSUME NEW a \in Address, NetworkDown(a) PROVE LinksMove
    <2>1. Links' = Links
      BY <1>10 DEF NetworkDown, Links, connected
    <2> QED BY <1>10, <2>1 DEF NetworkDown, LinksMove, poolVars
  <1>11. ASSUME NEW d \in Used, NetworkUp(d) \/ Move(d) PROVE LinksMove
    BY <1>1, <1>11 DEF NetworkUp, Move, poolVars
  <1>12. CASE UNCHANGED vars
    BY <1>1, <1>12 DEF vars, poolVars
  <1> QED
    BY <1>2, <1>3, <1>4, <1>5, <1>6, <1>7, <1>8, <1>9, <1>10, <1>11, <1>12 DEF Next, Steps

\* An entry that is put into the map is added to the ones kept, which leave room.
LEMMA PutsFacts ==
    ASSUME IInv, NEW d \in Devices \ Held, NEW c \in Clients \ Pooled,
           NEW e \in Pooled \cup {None}, Puts(d, c, e)
    PROVE  /\ \E kept \in SUBSET Held :
                 /\ IsFiniteSet(kept) /\ Cardinality(kept) < MaxConnections
                 /\ Held' = kept \cup {d}
           /\ \E open \in SUBSET Links : Links' = open \cup {c}
           /\ Distinct'
  <1>0. TypeOK /\ Distinct /\ Capacity /\ MaxConnections \in Nat
    BY PoolAssumption DEF IInv
  <1>1. clients[d] = None /\ \A k \in Devices : clients[k] # c
    BY <1>0, PoolAssumption DEF Held, Pooled
  <1>2. \A k \in Devices :
            clients'[k] = IF k = d THEN c ELSE IF clients[k] = e THEN None ELSE clients[k]
    BY <1>0, WithoutFacts DEF Puts
  <1>3. Distinct'
    BY <1>0, <1>1, <1>2 DEF Distinct
  <1>4. Links' = (Links \ {e}) \cup {c}
    BY <1>0, WithoutFacts DEF Puts, Links, connected, Unlinked
  <1>5. \E kept \in SUBSET Held :
            /\ IsFiniteSet(kept) /\ Cardinality(kept) < MaxConnections
            /\ Held' = kept \cup {d}
    <2>1. CASE e = None
      <3>1. Held' = Held \cup {d}
        BY <1>2, <2>1, PoolAssumption DEF Held
      <3> QED BY <1>0, <2>1, <3>1 DEF Puts, Capacity
    <2>2. CASE e # None
      <3>1. PICK k \in Devices : clients[k] = e /\ clients[k] # None
        BY <2>2 DEF Pooled
      <3>2. Held' = (Held \ {k}) \cup {d}
        BY <1>0, <1>2, <3>1, PoolAssumption DEF Held, Distinct
      <3>3. IsFiniteSet(Held \ {k}) /\ Cardinality(Held \ {k}) = Cardinality(Held) - 1
            /\ Cardinality(Held) \in Nat
        BY <1>0, <3>1, RemoveEntry
      <3>4. Cardinality(Held \ {k}) < MaxConnections
        BY <1>0, <3>3 DEF Capacity
      <3> QED BY <3>2, <3>3, <3>4
    <2> QED BY <2>1, <2>2
  <1> QED BY <1>3, <1>4, <1>5

\* The map keeps one client per device and its capacity.
LEMMA CapacityStep == IInv /\ [Next]_vars => Distinct' /\ Capacity'
  <1> SUFFICES ASSUME IInv, [Next]_vars PROVE Distinct' /\ Capacity'
    OBVIOUS
  <1>0. TypeOK /\ Distinct /\ Capacity /\ MaxConnections \in Nat
    BY PoolAssumption DEF IInv
  <1>1. CASE LinksMove \/ Close
    BY <1>0, <1>1 DEF LinksMove, Close, Distinct, Capacity, Held
  <1>2. ASSUME NEW d \in Held, Takes(d) PROVE Distinct' /\ Capacity'
    <2>0. d \in Devices /\ clients[d] # None
      BY DEF Held
    <2>1. \A k \in Devices : clients'[k] = IF k = d THEN None ELSE clients[k]
      BY <1>0, <1>2, <2>0, RemoveEntry DEF Takes
    <2>2. Held' = Held \ {d}
      BY <2>1 DEF Held
    <2>3. Distinct'
      BY <1>0, <2>1 DEF Distinct
    <2>4. IsFiniteSet(Held \ {d}) /\ Cardinality(Held \ {d}) = Cardinality(Held) - 1
          /\ Cardinality(Held) \in Nat
      BY <1>0, <2>0, RemoveEntry
    <2> QED BY <1>0, <2>2, <2>3, <2>4 DEF Capacity
  <1>3. ASSUME NEW d \in Devices \ Held, NEW c \in Clients \ Pooled,
               NEW e \in Pooled \cup {None}, Puts(d, c, e)
        PROVE  Distinct' /\ Capacity'
    <2>1. PICK kept \in SUBSET Held :
              /\ IsFiniteSet(kept) /\ Cardinality(kept) < MaxConnections
              /\ Held' = kept \cup {d}
      BY <1>3, PutsFacts
    <2>2. IsFiniteSet(kept \cup {d}) /\ Cardinality(kept \cup {d}) <= MaxConnections
      <3>1. Cardinality(kept) \in Nat
        BY <2>1, FS_CardinalityType
      <3>2. /\ IsFiniteSet(kept \cup {d})
            /\ Cardinality(kept \cup {d}) = IF d \in kept THEN Cardinality(kept)
                                                        ELSE Cardinality(kept) + 1
        BY <2>1, FS_AddElement
      <3> QED BY <1>0, <2>1, <3>1, <3>2
    <2>3. Distinct'
      BY <1>3, PutsFacts
    <2> QED BY <2>1, <2>2, <2>3 DEF Capacity
  <1>4. CASE CloseDone
    <2>1. \A k \in Devices : clients'[k] = None
      BY <1>4 DEF CloseDone
    <2>2. Held' = {}
      BY <2>1 DEF Held
    <2> QED BY <1>0, <2>1, <2>2, FS_EmptySet DEF Distinct, Capacity
  <1> QED BY <1>1, <1>2, <1>3, <1>4, MapStep

\* Nothing starts the health check again.
LEMMA LoopStep == IInv /\ [Next]_vars => LoopInv' /\ workload' \in Workloads
  <1> SUFFICES ASSUME IInv, [Next]_vars PROVE LoopInv' /\ workload' \in Workloads
    OBVIOUS
  <1>0. LoopInv /\ workload \in Workloads
    BY DEF IInv
  <1>1. ASSUME NEW o \in Ops, Steps(o) \/ \E d \in Devices : Lookup(o, d)
        PROVE  UNCHANGED <<workload, closed, check>>
    BY <1>1 DEF Steps, Lookup, GetExisting, GetExhausted, GetCreated, Look, Admit, Refuse,
                NotConnected, Succeed, Fails, Disconnects, Reconnects, poolVars
  <1>2. ASSUME NEW c \in Clients, Reap(c) \/ TimePasses(c) \/ BreakerTimeout(c)
        PROVE  UNCHANGED <<workload, closed, check>>
    BY <1>2 DEF Reap, Drop, TimePasses, BreakerTimeout, poolVars
  <1>3. ASSUME NEW c \in Clients, CheckLook(c) PROVE LoopInv' /\ workload' \in Workloads
    BY <1>0, <1>3, PoolAssumption DEF CheckLook, LoopInv, poolVars
  <1>4. CASE CheckConnect \/ CheckEnds \/ Close \/ CloseDone
    BY <1>0, <1>4, PoolAssumption DEF CheckConnect, CheckEnds, Close, CloseDone, LoopInv,
                                      poolVars
  <1>5. CASE ReaperEnds \/ UNCHANGED vars
    BY <1>0, <1>5 DEF ReaperEnds, LoopInv, vars, poolVars
  <1>6. ASSUME NEW a \in Address, NetworkDown(a) PROVE UNCHANGED <<workload, closed, check>>
    BY <1>6 DEF NetworkDown, poolVars
  <1>7. ASSUME NEW d \in Used, NetworkUp(d) \/ Move(d)
        PROVE  UNCHANGED <<workload, closed, check>>
    BY <1>7 DEF NetworkUp, Move, poolVars
  <1> QED BY <1>0, <1>1, <1>2, <1>3, <1>4, <1>5, <1>6, <1>7 DEF Next, LoopInv

\* The invariant holds initially.
LEMMA InitIInv == Init => IInv
  <1> SUFFICES ASSUME Init PROVE IInv
    OBVIOUS
  <1>1. TypeOK
    <2>1. network \subseteq Address
      BY PoolAssumption DEF Init, Used, Address
    <2> QED BY <2>1, PoolAssumption DEF Init, TypeOK, Idle
  <1>2. Held = {}
    BY DEF Init, Held
  <1>3. Capacity
    BY <1>2, FS_EmptySet, PoolAssumption DEF Capacity
  <1> QED BY <1>1, <1>3 DEF Init, IInv, Distinct, OpInv, LoopInv, Idle

-----------------------------------------------------------------------------
(* Theorems                                                                *)

\* The inductive invariant.
THEOREM Invariant == Spec => []IInv
  <1>1. IInv /\ [Next]_vars => IInv'
    BY TypeStep, OpStep, CapacityStep, LoopStep DEF IInv
  <1> QED BY <1>1, InitIInv, PTL DEF Spec

\* Every variable of the S7 pool keeps its type.
THEOREM TypeCorrect == Spec => []TypeOK
  <1>1. IInv => TypeOK
    BY DEF IInv
  <1> QED BY <1>1, Invariant, PTL

\* No operation uses a nil entry of p.clients after GetOrCreate.
THEOREM NoNilEntryHolds == Spec => []NoNilEntry
  <1>1. IInv => NoNilEntry
    BY DEF IInv, OpInv, NoNilEntry
  <1> QED BY <1>1, Invariant, PTL

\* The map never has more than maxConnections entries.
THEOREM CapacityHolds == Spec => [](Cardinality(Held) <= MaxConnections)
  <1>1. IInv => Cardinality(Held) <= MaxConnections
    BY DEF IInv, Capacity
  <1> QED BY <1>1, Invariant, PTL

\* DevicePool counts as this module does.
LEMMA SameCardinality ==
    ASSUME NEW S PROVE Pool!Cardinality(S) = Cardinality(S)
  BY SMT DEF Cardinality, Pool!Cardinality

\* The S7 pool is a DevicePool: each step takes an entry out, puts one in where
\* there is room, moves a link before the pool is closed, closes it, or changes
\* nothing a caller of the pool relies on.
THEOREM Refinement == Spec => ImplementsDevicePool
  <1>1. Init => Pool!Init
    BY DEF Init, Pool!Init, Held, connected
  <1>2. ASSUME IInv, [Next]_vars PROVE [Pool!Next]_(Pool!vars)
    <2>0. TypeOK /\ Distinct /\ Capacity
      BY <1>2 DEF IInv
    <2>1. CASE LinksMove
      <3>1. Held' = Held
        BY <2>1 DEF LinksMove, Held
      <3> QED BY <2>1, <3>1 DEF LinksMove, Links, Pool!Next, Pool!vars, Pool!Connect,
                                Pool!Disconnect
    <2>2. ASSUME NEW d \in Held, Takes(d) PROVE Pool!Next
      <3>1. d \in Devices /\ clients[d] # None
        BY DEF Held
      <3>2. \A k \in Devices : clients'[k] = IF k = d THEN None ELSE clients[k]
        BY <2>0, <2>2, <3>1, RemoveEntry DEF Takes
      <3>3. Held' = Held \ {d}
        BY <3>2 DEF Held
      <3>4. Links' \in SUBSET Links
        BY <2>0, <2>2, WithoutFacts DEF Takes, Links, connected, Unlinked
      <3> QED BY <2>2, <3>1, <3>3, <3>4 DEF Takes, Links, Pool!Next, Pool!Remove
    <2>3. ASSUME NEW d \in Devices \ Held, NEW c \in Clients \ Pooled,
                 NEW e \in Pooled \cup {None}, Puts(d, c, e)
          PROVE  Pool!Next
      <3>1. PICK kept \in SUBSET Held :
                Cardinality(kept) < MaxConnections /\ Held' = kept \cup {d}
        BY <1>2, <2>3, PutsFacts
      <3>2. PICK open \in SUBSET Links : Links' = open \cup {c}
        BY <1>2, <2>3, PutsFacts
      <3>3. Pool!Add(d, c)
        <4>1. \E k \in SUBSET Held : Cardinality(k) < MaxConnections /\ Held' = k \cup {d}
          BY <3>1
        <4>2. \E l \in SUBSET Links : Links' = l \cup {c}
          BY <3>2
        <4>3. closed = "open" /\ d \notin Held /\ closed' = closed
          BY <2>3 DEF Puts
        <4> QED BY <4>1, <4>2, <4>3, SameCardinality DEF Links, Pool!Add
      <3> QED BY <3>3 DEF Pool!Next
    <2>4. CASE Close
      BY <2>4 DEF Close, Held, connected, Pool!Next, Pool!Close
    <2>5. CASE CloseDone
      <3>1. Held' = {}
        BY <2>5 DEF CloseDone, Held
      <3>2. Links' \in SUBSET Links
        BY <2>5 DEF CloseDone, Links, connected
      <3> QED BY <2>5, <3>1, <3>2 DEF CloseDone, Links, Pool!Next, Pool!Closed
    <2> QED BY <1>2, <2>1, <2>2, <2>3, <2>4, <2>5, MapStep
  <1> QED BY <1>1, <1>2, Invariant, PTL DEF Spec, ImplementsDevicePool, Pool!Spec
=============================================================================
