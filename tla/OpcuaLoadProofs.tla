-------------------------- MODULE OpcuaLoadProofs --------------------------
(***************************************************************************)
(* Proofs about OpcuaLoad: its types, and that globalInFlight counts what  *)
(* is in flight.  A worker that delivers a result sends the caller back,   *)
(* which must not take a caller out of an operation that is counted:       *)
(* PlaceInv says that a request whose context has not ended belongs to a   *)
(* caller that waits, and that no caller has two of them.                  *)
(***************************************************************************)
EXTENDS OpcuaLoad, FiniteSetTheorems, SequenceTheorems, TLAPS

\* A caller that is at work has an operation, a worker a request.
WorkInv ==
    /\ \A c \in Callers : pc[c] # "idle" => call[c] \in Op
    /\ \A w \in Workers : job[w] # None <=> wpc[w] \in {"check", "run", "release"}

TInv == TypeOK /\ WorkInv

\* Requests that leave a queue at its head.
LEMMA TailRequests ==
  ASSUME NEW q \in Seq(Request), q # <<>>
  PROVE  /\ Head(q) = q[1] /\ q[1] \in Request /\ Len(q) \in Nat /\ Len(q) >= 1
         /\ Tail(q) \in Seq(Request) /\ Len(Tail(q)) = Len(q) - 1
         /\ \A i \in 1..Len(Tail(q)) : i + 1 \in 1..Len(q) /\ Tail(q)[i] = q[i + 1]
<1>1. /\ Head(q) \in Request /\ Tail(q) \in Seq(Request) /\ Len(Tail(q)) = Len(q) - 1
      /\ \A i \in 1..Len(Tail(q)) : Tail(q)[i] = q[i + 1]
  BY HeadTailProperties
<1>2. Len(q) \in Nat /\ Len(q) # 0
  BY LenProperties, EmptySeq
<1>3. Head(q) = q[1]
  BY <1>2
<1> QED BY <1>1, <1>2, <1>3

\* A request is put at the end of a queue.
LEMMA AppendRequests ==
  ASSUME NEW q \in Seq(Request), NEW r \in Request
  PROVE  /\ Append(q, r) \in Seq(Request) /\ Len(q) \in Nat
         /\ Len(Append(q, r)) = Len(q) + 1 /\ Append(q, r)[Len(q) + 1] = r
         /\ \A i \in 1..Len(q) : Append(q, r)[i] = q[i]
  BY AppendProperties, LenProperties

\* Requests that are marked keep their places.
LEMMA AbandonedRequests ==
  ASSUME NEW q \in Seq(Request), NEW c \in Callers,
         NEW m, m = [i \in 1..Len(q) |-> Abandoned(q[i], c)]
  PROVE  /\ m \in Seq(Request) /\ Len(m) = Len(q)
         /\ \A i \in 1..Len(q) : m[i] \in Request /\ m[i] = Abandoned(q[i], c)
<1>1. Len(q) \in Nat /\ \A i \in 1..Len(q) : q[i] \in Request
  BY LenProperties, ElementOfSeq
<1>2. \A i \in 1..Len(q) : Abandoned(q[i], c) \in Request
  BY <1>1 DEF Abandoned, Request
<1>3. m \in [1..Len(q) -> Request]
  BY <1>2
<1>4. m \in Seq(Request)
  BY <1>1, <1>3, SeqDef
<1>5. Len(m) = Len(q)
  BY <1>1, <1>3, <1>4, LenProperties
<1> QED BY <1>2, <1>4, <1>5

\* The initial state has the right types.
LEMMA InitType == Init => TInv
<1> SUFFICES ASSUME Init PROVE TInv
  OBVIOUS
<1> USE LoadAssumption
<1>1. TypeOK
  <2>1. queues \in [Priority -> Seq(Request)] /\ \A p \in Priority : Len(queues[p]) = 0
    BY EmptySeq DEF Init
  <2>2. /\ globalInFlight \in Int /\ inFlight \in [Endpoints -> Int]
        /\ cur \in [Callers -> Int] /\ call \in [Callers -> Op \cup {None}]
        /\ job \in [Workers -> Request \cup {None}]
    BY DEF Init
  <2>3. /\ pc \in [Callers -> {"idle", "load", "decide", "send", "wait", "run"}]
        /\ wpc \in [Workers -> {"safety", "control", "all", "check", "run", "release",
                                "exited"}]
    BY DEF Init
  <2>4. brownout \in BOOLEAN /\ closed \in BOOLEAN /\ panicked \in BOOLEAN
    BY DEF Init
  <2> QED BY <2>1, <2>2, <2>3, <2>4 DEF Init, TypeOK
<1>2. WorkInv
  BY DEF Init, WorkInv
<1> QED BY <1>1, <1>2 DEF TInv

-----------------------------------------------------------------------------
(* Types                                                                   *)

\* Return is a step of the callers' types.
LEMMA ReturnTypes ==
  ASSUME TInv, NEW c \in Callers, Return(c)
  PROVE  /\ pc' \in [Callers -> {"idle", "load", "decide", "send", "wait", "run"}]
         /\ call' \in [Callers -> Op \cup {None}] /\ cur' \in [Callers -> Int]
         /\ \A b \in Callers : pc'[b] # "idle" => call'[b] \in Op
  BY DEF TInv, TypeOK, WorkInv, Return

\* The counters stay integers.
LEMMA CountTypes ==
  ASSUME TypeOK, NEW e \in Endpoints, NEW n \in {1, -1}, Count(e, n)
  PROVE  globalInFlight' \in Int /\ inFlight' \in [Endpoints -> Int]
  BY DEF TypeOK, Count

\* The steps of a caller keep the types.
LEMMA CallerTypes ==
  ASSUME TInv, NEW c \in Callers,
         CallerSteps(c) \/ (\E op \in Calls[c] : Call(c, op)) \/ GiveUp(c)
  PROVE  TInv'
<1> USE LoadAssumption DEF TInv
<1>1. ASSUME NEW op \in Calls[c], Call(c, op) PROVE TInv'
  <2>1. op \in Op
    BY <1>1
  <2> QED BY <1>1, <2>1 DEF Call, TypeOK, WorkInv, loadVars, closeVars, workVars
<1>2. CASE Load(c)
  BY <1>2 DEF Load, TypeOK, WorkInv, loadVars, closeVars, workVars
<1>3. CASE Shed(c)
  BY <1>3, ReturnTypes DEF Shed, TypeOK, WorkInv, loadVars, closeVars, workVars
<1>4. CASE AtLimit(c)
  <2>0. call[c] \in Op /\ call[c].ep \in Endpoints
    BY <1>4 DEF AtLimit, WorkInv, Op
  <2>1. CASE closed
    BY <1>4, <2>1, ReturnTypes DEF AtLimit, TypeOK, WorkInv, loadVars, closeVars, workVars
  <2>2. CASE ~closed
    <3>1. /\ Count(call[c].ep, 1) /\ UNCHANGED call
          /\ pc' = [pc EXCEPT ![c] = "send"] /\ cur' = [cur EXCEPT ![c] = 0]
      BY <1>4, <2>2 DEF AtLimit
    <3>2. UNCHANGED <<queues, brownout, open, closed, channels, panicked, wpc, job>>
      BY <1>4 DEF AtLimit, closeVars, workVars
    <3>3. globalInFlight' \in Int /\ inFlight' \in [Endpoints -> Int]
      BY <2>0, <3>1, CountTypes
    <3>4. \A b \in Callers : pc'[b] # "idle" => call'[b] \in Op
      BY <2>0, <3>1 DEF TypeOK, WorkInv
    <3> QED BY <3>1, <3>2, <3>3, <3>4 DEF TypeOK, WorkInv
  <2> QED BY <2>1, <2>2
<1>5. CASE Send(c)
  <2>1. call[c] \in Op /\ call[c].prio \in Priority /\ call[c].ep \in Endpoints
    BY <1>5 DEF Send, WorkInv, Op
  <2>2. PICK r \in Request : r = [from |-> c, ep |-> call[c].ep, ended |-> FALSE]
    BY <2>1 DEF Request
  <2>3. queues' = [queues EXCEPT ![call[c].prio] = Append(@, r)]
    BY <1>5, <2>2 DEF Send
  <2>4. /\ queues' \in [Priority -> Seq(Request)]
        /\ \A p \in Priority : Len(queues'[p]) <= PriorityQueueSize
    BY <1>5, <2>1, <2>3, AppendRequests DEF Send, TypeOK
  <2> QED BY <1>5, <2>4 DEF Send, TypeOK, WorkInv, loadVars, closeVars, workVars
<1>6. CASE SendFull(c)
  <2>1. call[c] \in Op /\ call[c].ep \in Endpoints
    BY <1>6 DEF SendFull, WorkInv, Op
  <2> QED BY <1>6, <2>1, ReturnTypes, CountTypes
          DEF SendFull, TypeOK, WorkInv, closeVars, workVars
<1>7. CASE SendPanics(c)
  BY <1>7 DEF SendPanics, TypeOK, WorkInv, loadVars, callVars, workVars
<1>8. CASE Proceed(c)
  <2>1. call[c] \in Op /\ call[c].ep \in Endpoints
    BY <1>8 DEF Proceed, WorkInv, Op
  <2>2. brownout' \in BOOLEAN
    BY <1>8, Zenon DEF Proceed, TypeOK
  <2> QED BY <1>8, <2>1, <2>2, CountTypes DEF Proceed, TypeOK, WorkInv, closeVars, workVars
<1>9. CASE Finish(c)
  <2>1. call[c] \in Op /\ call[c].ep \in Endpoints
    BY <1>9 DEF Finish, WorkInv, Op
  <2> QED BY <1>9, <2>1, ReturnTypes, CountTypes
          DEF Finish, TypeOK, WorkInv, closeVars, workVars
<1>10. CASE GiveUp(c)
  <2>1. \A p \in Priority : /\ queues'[p] \in Seq(Request)
                            /\ Len(queues'[p]) = Len(queues[p])
    BY <1>10, AbandonedRequests DEF GiveUp, TypeOK
  <2>2. queues' \in [Priority -> Seq(Request)]
    <3>1. queues' = [p \in Priority |-> queues'[p]]
      BY <1>10 DEF GiveUp
    <3> QED BY <2>1, <3>1
  <2>3. \A w \in Workers : /\ job[w] = None => job'[w] = None
                           /\ job[w] # None => job'[w] \in Request
    BY <1>10 DEF GiveUp, TypeOK, Abandoned, Request
  <2>4. job' \in [Workers -> Request \cup {None}]
    BY <1>10, <2>3 DEF GiveUp
  <2> QED BY <1>10, <2>1, <2>2, <2>3, <2>4, ReturnTypes
          DEF GiveUp, TypeOK, WorkInv, loadVars, closeVars
<1> QED BY <1>1, <1>2, <1>3, <1>4, <1>5, <1>6, <1>7, <1>8, <1>9, <1>10 DEF CallerSteps

\* The result of a worker, delivered or not, keeps the types of the callers.
LEMMA DeliverTypes ==
  ASSUME TInv, NEW r \in Request, Deliver(r)
  PROVE  /\ pc' \in [Callers -> {"idle", "load", "decide", "send", "wait", "run"}]
         /\ call' \in [Callers -> Op \cup {None}] /\ cur' \in [Callers -> Int]
         /\ \A b \in Callers : pc'[b] # "idle" => call'[b] \in Op
<1>1. CASE r.ended
  BY <1>1 DEF Deliver, callVars, TInv, TypeOK, WorkInv
<1>2. CASE ~r.ended
  BY <1>2, ReturnTypes DEF Deliver, Request
<1> QED BY <1>1, <1>2

\* The steps of a worker keep the types.
LEMMA WorkerTypes ==
  ASSUME TInv, NEW w \in Workers, WorkerSteps(w)
  PROVE  TInv'
<1> USE LoadAssumption DEF TInv
<1>1. ASSUME NEW p \in Priority, Take(w, p) PROVE TInv'
  <2>1. /\ Head(queues[p]) \in Request /\ Tail(queues[p]) \in Seq(Request)
        /\ Len(queues[p]) \in Nat /\ Len(Tail(queues[p])) = Len(queues[p]) - 1
    BY <1>1, TailRequests DEF Take, TypeOK
  <2>2. /\ queues' \in [Priority -> Seq(Request)]
        /\ \A q \in Priority : Len(queues'[q]) <= PriorityQueueSize
    BY <1>1, <2>1 DEF Take, TypeOK
  <2>3. /\ job' \in [Workers -> Request \cup {None}]
        /\ \A v \in Workers : job'[v] # None <=> wpc'[v] \in {"check", "run", "release"}
    BY <1>1, <2>1 DEF Take, TypeOK, WorkInv
  <2> QED BY <1>1, <2>2, <2>3 DEF Take, TypeOK, WorkInv, loadVars, closeVars, callVars
<1>2. CASE Default(w)
  BY <1>2 DEF Default, TypeOK, WorkInv, loadVars, closeVars, callVars
<1>3. CASE WorkerExits(w)
  BY <1>3 DEF WorkerExits, TypeOK, WorkInv, loadVars, closeVars, callVars
<1>4. CASE Drop(w) \/ Executed(w)
  <2>1. job[w] \in Request
    BY <1>4 DEF Drop, Executed, TypeOK, WorkInv
  <2>2. /\ Deliver(job[w]) /\ wpc[w] \in {"check", "run"}
        /\ wpc' = [wpc EXCEPT ![w] = "release"]
        /\ UNCHANGED <<loadVars, queues, brownout, open, closeVars, job>>
    BY <1>4 DEF Drop, Executed
  <2> QED BY <2>1, <2>2, DeliverTypes DEF TypeOK, WorkInv, loadVars, closeVars
<1>5. CASE Execute(w)
  BY <1>5 DEF Execute, TypeOK, WorkInv, loadVars, closeVars, callVars
<1>6. CASE Release(w)
  <2>1. job[w] \in Request /\ job[w].ep \in Endpoints
    BY <1>6 DEF Release, TypeOK, WorkInv, Request
  <2>2. globalInFlight' \in Int /\ inFlight' \in [Endpoints -> Int]
    BY <1>6, <2>1, CountTypes DEF Release
  <2> QED BY <1>6, <2>2 DEF Release, TypeOK, WorkInv, closeVars, callVars
<1> QED BY <1>1, <1>2, <1>3, <1>4, <1>5, <1>6 DEF WorkerSteps

\* Every step keeps the types.
LEMMA StepTypes == TInv /\ [Next]_vars => TInv'
<1> SUFFICES ASSUME TInv, [Next]_vars PROVE TInv'
  OBVIOUS
<1>1. CASE CheckGlobalHealth
  <2>1. brownout' \in BOOLEAN
    BY <1>1, Zenon DEF CheckGlobalHealth
  <2> QED BY <1>1, <2>1 DEF CheckGlobalHealth, TInv, TypeOK, WorkInv, loadVars, closeVars,
                           callVars, workVars
<1>2. ASSUME NEW e \in Endpoints, BreakerChanges(e) PROVE TInv'
  BY <1>2 DEF BreakerChanges, TInv, TypeOK, WorkInv, loadVars, closeVars, callVars, workVars
<1>3. CASE Close
  BY <1>3 DEF Close, TInv, TypeOK, WorkInv, loadVars, callVars, workVars
<1>4. CASE CloseChannels
  BY <1>4 DEF CloseChannels, TInv, TypeOK, WorkInv, loadVars, callVars, workVars
<1>5. CASE UNCHANGED vars
  BY <1>5 DEF vars, TInv, TypeOK, WorkInv, loadVars, closeVars, callVars, workVars
<1> QED BY <1>1, <1>2, <1>3, <1>4, <1>5, CallerTypes, WorkerTypes DEF Next

\* The types hold in every reachable state.
LEMMA TypesHold == Spec => []TInv
  BY InitType, StepTypes, PTL DEF Spec

\* Every variable of the load shaping keeps its type, and the priority queues
\* their capacity.
THEOREM TypeCorrect == Spec => []TypeOK
<1>1. TInv => TypeOK
  BY DEF TInv
<1> QED BY <1>1, TypesHold, PTL

-----------------------------------------------------------------------------
(* Places of requests                                                      *)

\* A worker that has a request and has not answered it.
Working(w) == wpc[w] \in {"check", "run"}

\* A queued request whose context has not ended: its caller waits.
QueuedInv ==
    \A p \in Priority : \A i \in 1..Len(queues[p]) :
        ~queues[p][i].ended => pc[queues[p][i].from] = "wait"

\* The same of a request with a worker.
HeldInv ==
    \A w \in Workers : Working(w) /\ ~job[w].ended => pc[job[w].from] = "wait"

\* No caller has two such requests, queued or with workers.
DistinctInv ==
    /\ \A p, q \in Priority : \A i \in 1..Len(queues[p]), j \in 1..Len(queues[q]) :
          ~queues[p][i].ended /\ ~queues[q][j].ended
             /\ queues[p][i].from = queues[q][j].from => p = q /\ i = j
    /\ \A w \in Workers, p \in Priority : \A i \in 1..Len(queues[p]) :
          Working(w) /\ ~job[w].ended /\ ~queues[p][i].ended =>
             job[w].from # queues[p][i].from
    /\ \A v, w \in Workers :
          Working(v) /\ ~job[v].ended /\ Working(w) /\ ~job[w].ended
             /\ job[v].from = job[w].from => v = w

PlaceInv == QueuedInv /\ HeldInv /\ DistinctInv

\* Queues and requests have their types.
LEMMA QueueTypes ==
  ASSUME TInv, NEW p \in Priority
  PROVE  /\ queues[p] \in Seq(Request) /\ Len(queues[p]) \in Nat
         /\ \A i \in 1..Len(queues[p]) :
               queues[p][i] \in Request /\ queues[p][i].from \in Callers
<1>1. queues[p] \in Seq(Request)
  BY DEF TInv, TypeOK
<1>2. \A i \in 1..Len(queues[p]) : queues[p][i] \in Request
  BY <1>1, ElementOfSeq
<1>3. Len(queues[p]) \in Nat
  BY <1>1, LenProperties
<1> QED BY <1>1, <1>2, <1>3 DEF Request

\* So has the request of a worker.
LEMMA JobTypes ==
  ASSUME TInv, NEW w \in Workers, wpc[w] \in {"check", "run", "release"}
  PROVE  job[w] \in Request /\ job[w].from \in Callers /\ job[w].ep \in Endpoints
  BY DEF TInv, TypeOK, WorkInv, Request

\* A step that moves no request, and sends no caller away that waits, keeps
\* the places.
LEMMA PlacesKept ==
  ASSUME TInv, PlaceInv, UNCHANGED queues,
         \A w \in Workers : Working(w)' => Working(w) /\ job'[w] = job[w],
         \A c \in Callers : pc[c] = "wait" => pc'[c] = "wait"
  PROVE  PlaceInv'
<1>1. QueuedInv'
  BY QueueTypes DEF PlaceInv, QueuedInv
<1>2. HeldInv'
  <2> SUFFICES ASSUME NEW w \in Workers, Working(w)', ~job'[w].ended
               PROVE  pc'[job'[w].from] = "wait"
    BY DEF HeldInv
  <2>1. Working(w) /\ job'[w] = job[w]
    OBVIOUS
  <2>2. job[w].from \in Callers
    BY <2>1, JobTypes DEF Working
  <2>3. pc[job[w].from] = "wait"
    BY <2>1 DEF PlaceInv, HeldInv
  <2> QED BY <2>1, <2>2, <2>3
<1>3. DistinctInv'
  BY DEF PlaceInv, DistinctInv
<1> QED BY <1>1, <1>2, <1>3 DEF PlaceInv

\* A caller sends its request: it had no other.
LEMMA SendPlaces ==
  ASSUME TInv, PlaceInv, NEW c \in Callers, Send(c)
  PROVE  PlaceInv'
<1>1. call[c].prio \in Priority /\ call[c].ep \in Endpoints
  BY DEF Send, TInv, WorkInv, Op
<1>2. PICK z \in Priority : z = call[c].prio
  BY <1>1
<1>3. PICK r \in Request : r = [from |-> c, ep |-> call[c].ep, ended |-> FALSE]
  BY <1>1 DEF Request
<1>4. /\ queues' = [queues EXCEPT ![z] = Append(queues[z], r)]
      /\ pc[c] = "send" /\ pc' = [pc EXCEPT ![c] = "wait"] /\ UNCHANGED <<wpc, job>>
  BY <1>2, <1>3 DEF Send, workVars
<1>5. PICK n \in Nat : n = Len(queues[z])
  BY QueueTypes
<1>6. /\ Len(queues'[z]) = n + 1 /\ queues'[z][n + 1] = r
      /\ \A i \in 1..n : queues'[z][i] = queues[z][i]
      /\ \A p \in Priority \ {z} : queues'[p] = queues[p]
  BY <1>4, <1>5, AppendRequests, QueueTypes DEF TInv, TypeOK
<1>7. \A p \in Priority : \A i \in 1..Len(queues'[p]) :
         \/ i \in 1..Len(queues[p]) /\ queues'[p][i] = queues[p][i]
         \/ p = z /\ i = n + 1 /\ queues'[p][i] = r
  BY <1>5, <1>6
<1>8. r.from = c /\ ~r.ended /\ pc[c] # "wait"
  BY <1>3, <1>4
<1>9. pc'[c] = "wait" /\ \A b \in Callers : pc[b] = "wait" => pc'[b] = "wait"
  BY <1>4 DEF TInv, TypeOK
<1>10. \A p \in Priority : \A i \in 1..Len(queues[p]) :
          ~queues[p][i].ended => queues[p][i].from # c
  BY <1>8 DEF PlaceInv, QueuedInv
<1>11. \A w \in Workers : Working(w) /\ ~job[w].ended => job[w].from # c
  BY <1>8 DEF PlaceInv, HeldInv
<1>12. QueuedInv'
  BY <1>7, <1>8, <1>9, QueueTypes DEF PlaceInv, QueuedInv
<1>13. HeldInv'
  <2> SUFFICES ASSUME NEW w \in Workers, Working(w), ~job[w].ended
               PROVE  pc'[job[w].from] = "wait"
    BY <1>4 DEF HeldInv, Working
  <2>1. job[w].from \in Callers
    BY JobTypes DEF Working
  <2> QED BY <1>9, <2>1 DEF PlaceInv, HeldInv
<1>14. DistinctInv'
  <2>1. ASSUME NEW p \in Priority, NEW q \in Priority, NEW i \in 1..Len(queues'[p]),
               NEW j \in 1..Len(queues'[q]),
               ~queues'[p][i].ended, ~queues'[q][j].ended,
               queues'[p][i].from = queues'[q][j].from
        PROVE  p = q /\ i = j
    <3>1. CASE p = z /\ i = n + 1 /\ queues'[p][i] = r
      BY <1>7, <1>8, <1>10, <2>1, <3>1
    <3>2. CASE i \in 1..Len(queues[p]) /\ queues'[p][i] = queues[p][i]
      <4>1. CASE q = z /\ j = n + 1 /\ queues'[q][j] = r
        BY <1>8, <1>10, <2>1, <3>2, <4>1
      <4>2. CASE j \in 1..Len(queues[q]) /\ queues'[q][j] = queues[q][j]
        BY <2>1, <3>2, <4>2 DEF PlaceInv, DistinctInv
      <4> QED BY <1>7, <4>1, <4>2
    <3> QED BY <1>7, <3>1, <3>2
  <2>2. ASSUME NEW w \in Workers, NEW p \in Priority, NEW i \in 1..Len(queues'[p]),
               Working(w), ~job[w].ended, ~queues'[p][i].ended
        PROVE  job[w].from # queues'[p][i].from
    <3>1. CASE i \in 1..Len(queues[p]) /\ queues'[p][i] = queues[p][i]
      BY <2>2, <3>1 DEF PlaceInv, DistinctInv
    <3>2. CASE queues'[p][i] = r
      BY <1>8, <1>11, <2>2, <3>2
    <3> QED BY <1>7, <3>1, <3>2
  <2>3. \A v, w \in Workers :
          Working(v) /\ ~job[v].ended /\ Working(w) /\ ~job[w].ended
             /\ job[v].from = job[w].from => v = w
    BY DEF PlaceInv, DistinctInv
  <2> QED BY <1>4, <2>1, <2>2, <2>3 DEF DistinctInv, Working
<1> QED BY <1>12, <1>13, <1>14 DEF PlaceInv

\* A caller gives up: its requests are marked.
LEMMA GiveUpPlaces ==
  ASSUME TInv, PlaceInv, NEW c \in Callers, GiveUp(c)
  PROVE  PlaceInv'
<1>1. \A p \in Priority : Len(queues'[p]) = Len(queues[p]) /\
         \A i \in 1..Len(queues[p]) : queues'[p][i] = Abandoned(queues[p][i], c)
  BY AbandonedRequests, QueueTypes DEF GiveUp
<1>2. \A p \in Priority : \A i \in 1..Len(queues[p]) : ~queues'[p][i].ended =>
         queues'[p][i] = queues[p][i] /\ queues[p][i].from # c
  BY <1>1, QueueTypes DEF Abandoned, Request
<1>3. \A w \in Workers : Working(w) /\ ~job'[w].ended =>
         job'[w] = job[w] /\ job[w].from # c
  <2> SUFFICES ASSUME NEW w \in Workers, Working(w), ~job'[w].ended
               PROVE  job'[w] = job[w] /\ job[w].from # c
    OBVIOUS
  <2>1. job[w] \in Request /\ job[w] # None
    BY JobTypes, LoadAssumption DEF Working
  <2>2. job'[w] = Abandoned(job[w], c)
    BY <2>1 DEF GiveUp
  <2> QED BY <2>1, <2>2 DEF Abandoned, Request
<1>4. UNCHANGED wpc /\ \A b \in Callers \ {c} : pc'[b] = pc[b]
  BY DEF GiveUp, Return, TInv, TypeOK
<1>5. QueuedInv'
  BY <1>1, <1>2, <1>4, QueueTypes DEF PlaceInv, QueuedInv
<1>6. HeldInv'
  <2> SUFFICES ASSUME NEW w \in Workers, Working(w), ~job'[w].ended
               PROVE  pc'[job'[w].from] = "wait"
    BY <1>4 DEF HeldInv, Working
  <2>1. job'[w] = job[w] /\ job[w].from \in Callers \ {c}
    BY <1>3, JobTypes DEF Working
  <2> QED BY <1>4, <2>1 DEF PlaceInv, HeldInv
<1>7. DistinctInv'
  <2>1. \A w \in Workers : Working(w)' <=> Working(w)
    BY <1>4 DEF Working
  <2> QED BY <1>1, <1>2, <1>3, <2>1 DEF PlaceInv, DistinctInv
<1> QED BY <1>5, <1>6, <1>7 DEF PlaceInv

\* A worker takes the first request of a queue.
LEMMA TakePlaces ==
  ASSUME TInv, PlaceInv, NEW w \in Workers, NEW z \in Priority, Take(w, z)
  PROVE  PlaceInv'
<1>1. PICK n \in Nat : n = Len(queues[z])
  BY QueueTypes
<1>2. PICK r : r = queues[z][1]
  OBVIOUS
<1>3. /\ Head(queues[z]) = r /\ r \in Request /\ n >= 1
      /\ Len(Tail(queues[z])) = n - 1
      /\ \A i \in 1..(n - 1) : Tail(queues[z])[i] = queues[z][i + 1]
  BY <1>1, <1>2, TailRequests, QueueTypes DEF Take
<1>4. /\ job' = [job EXCEPT ![w] = r] /\ queues' = [queues EXCEPT ![z] = Tail(queues[z])]
      /\ wpc' = [wpc EXCEPT ![w] = "check"] /\ ~Working(w) /\ UNCHANGED pc
  BY <1>3 DEF Take, Working, callVars
<1>5. \A p \in Priority : \A i \in 1..Len(queues'[p]) :
         \/ p # z /\ i \in 1..Len(queues[p]) /\ queues'[p][i] = queues[p][i]
         \/ p = z /\ i + 1 \in 2..Len(queues[p]) /\ queues'[p][i] = queues[p][i + 1]
  <2> SUFFICES ASSUME NEW p \in Priority, NEW i \in 1..Len(queues'[p])
               PROVE  \/ p # z /\ i \in 1..Len(queues[p]) /\ queues'[p][i] = queues[p][i]
                      \/ p = z /\ i + 1 \in 2..Len(queues[p])
                               /\ queues'[p][i] = queues[p][i + 1]
    OBVIOUS
  <2>1. CASE p # z
    BY <1>4, <2>1 DEF TInv, TypeOK
  <2>2. CASE p = z
    <3>1. queues'[p] = Tail(queues[z])
      BY <1>4, <2>2 DEF TInv, TypeOK
    <3> QED BY <1>1, <1>3, <2>2, <3>1
  <2> QED BY <2>1, <2>2
<1>6. \A v \in Workers : Working(v)' =>
         \/ v # w /\ Working(v) /\ job'[v] = job[v]
         \/ v = w /\ job'[v] = r
  BY <1>4 DEF Working, TInv, TypeOK
<1>7. 1 \in 1..Len(queues[z])
  BY <1>1, <1>3
<1>8. QueuedInv'
  <2> SUFFICES ASSUME NEW p \in Priority, NEW i \in 1..Len(queues'[p]),
                      ~queues'[p][i].ended
               PROVE  pc[queues'[p][i].from] = "wait"
    BY <1>4 DEF QueuedInv
  <2>1. PICK k \in 1..Len(queues[p]) : queues'[p][i] = queues[p][k]
    BY <1>5
  <2> QED BY <2>1 DEF PlaceInv, QueuedInv
<1>9. HeldInv'
  <2> SUFFICES ASSUME NEW v \in Workers, Working(v)', ~job'[v].ended
               PROVE  pc[job'[v].from] = "wait"
    BY <1>4 DEF HeldInv
  <2>1. CASE v # w
    BY <1>6, <2>1 DEF PlaceInv, HeldInv
  <2>2. CASE v = w
    BY <1>2, <1>6, <1>7, <2>2 DEF PlaceInv, QueuedInv
  <2> QED BY <2>1, <2>2
<1>10. DistinctInv'
  <2>1. ASSUME NEW p \in Priority, NEW q \in Priority, NEW i \in 1..Len(queues'[p]),
               NEW j \in 1..Len(queues'[q]),
               ~queues'[p][i].ended, ~queues'[q][j].ended,
               queues'[p][i].from = queues'[q][j].from
        PROVE  p = q /\ i = j
    <3>1. PICK k \in 1..Len(queues[p]) : /\ queues'[p][i] = queues[p][k]
                                         /\ k = IF p = z THEN i + 1 ELSE i
      BY <1>5
    <3>2. PICK l \in 1..Len(queues[q]) : /\ queues'[q][j] = queues[q][l]
                                         /\ l = IF q = z THEN j + 1 ELSE j
      BY <1>5
    <3>3. p = q /\ k = l
      BY <2>1, <3>1, <3>2 DEF PlaceInv, DistinctInv
    <3>4. i \in Int /\ j \in Int
      OBVIOUS
    <3> QED BY <3>1, <3>2, <3>3, <3>4
  <2>2. ASSUME NEW v \in Workers, NEW p \in Priority, NEW i \in 1..Len(queues'[p]),
               Working(v)', ~job'[v].ended, ~queues'[p][i].ended
        PROVE  job'[v].from # queues'[p][i].from
    <3>1. PICK k \in 1..Len(queues[p]) : /\ queues'[p][i] = queues[p][k]
                                         /\ ~(p = z /\ k = 1)
      BY <1>5
    <3>2. CASE v # w
      BY <1>6, <2>2, <3>1, <3>2 DEF PlaceInv, DistinctInv
    <3>3. CASE v = w
      <4>1. job'[v] = queues[z][1]
        BY <1>2, <1>6, <2>2, <3>3
      <4> QED BY <1>7, <2>2, <3>1, <4>1 DEF PlaceInv, DistinctInv
    <3> QED BY <3>2, <3>3
  <2>3. ASSUME NEW u \in Workers, NEW v \in Workers, Working(u)', ~job'[u].ended,
               Working(v)', ~job'[v].ended, job'[u].from = job'[v].from
        PROVE  u = v
    <3>1. CASE u # w /\ v # w
      BY <1>6, <2>3, <3>1 DEF PlaceInv, DistinctInv
    <3>2. CASE u = w /\ v # w
      BY <1>2, <1>6, <1>7, <2>3, <3>2 DEF PlaceInv, DistinctInv
    <3>3. CASE u # w /\ v = w
      BY <1>2, <1>6, <1>7, <2>3, <3>3 DEF PlaceInv, DistinctInv
    <3> QED BY <3>1, <3>2, <3>3
  <2> QED BY <2>1, <2>2, <2>3 DEF DistinctInv
<1> QED BY <1>8, <1>9, <1>10 DEF PlaceInv

\* A worker answers: no other request of that caller is left.
LEMMA DeliverPlaces ==
  ASSUME TInv, PlaceInv, NEW w \in Workers, Drop(w) \/ Executed(w)
  PROVE  PlaceInv'
<1>1. /\ Working(w) /\ Deliver(job[w]) /\ wpc' = [wpc EXCEPT ![w] = "release"]
      /\ UNCHANGED <<queues, job>>
  BY DEF Drop, Executed, Working
<1>2. job[w] \in Request /\ job[w].from \in Callers
  BY <1>1, JobTypes DEF Working
<1>3. \A v \in Workers : Working(v)' => v # w /\ Working(v) /\ job'[v] = job[v]
  BY <1>1 DEF Working, TInv, TypeOK
<1>4. CASE job[w].ended
  BY <1>1, <1>3, <1>4, PlacesKept DEF Deliver, callVars
<1>5. CASE ~job[w].ended
  <2>1. \A b \in Callers \ {job[w].from} : pc'[b] = pc[b]
    BY <1>1, <1>2, <1>5 DEF Deliver, Return, TInv, TypeOK
  <2>2. QueuedInv'
    <3> SUFFICES ASSUME NEW p \in Priority, NEW i \in 1..Len(queues[p]),
                        ~queues[p][i].ended
                 PROVE  pc'[queues[p][i].from] = "wait"
      BY <1>1 DEF QueuedInv
    <3>1. queues[p][i].from \in Callers \ {job[w].from}
      BY <1>1, <1>5, QueueTypes DEF PlaceInv, DistinctInv
    <3> QED BY <2>1, <3>1 DEF PlaceInv, QueuedInv
  <2>3. HeldInv'
    <3> SUFFICES ASSUME NEW v \in Workers, Working(v)', ~job'[v].ended
                 PROVE  pc'[job'[v].from] = "wait"
      BY DEF HeldInv
    <3>1. v # w /\ Working(v) /\ job'[v] = job[v]
      BY <1>3
    <3>2. job[v].from \in Callers
      BY <3>1, JobTypes DEF Working
    <3>3. job[v].from # job[w].from
      BY <1>1, <1>5, <3>1 DEF PlaceInv, DistinctInv
    <3> QED BY <2>1, <3>1, <3>2, <3>3 DEF PlaceInv, HeldInv
  <2>4. DistinctInv'
    BY <1>1, <1>3 DEF PlaceInv, DistinctInv
  <2> QED BY <2>2, <2>3, <2>4 DEF PlaceInv
<1> QED BY <1>4, <1>5

\* Every step keeps the places.
LEMMA StepPlaces == TInv /\ PlaceInv /\ [Next]_vars => PlaceInv'
<1> SUFFICES ASSUME TInv, PlaceInv, [Next]_vars PROVE PlaceInv'
  OBVIOUS
<1> USE DEF TInv, TypeOK
<1>1. ASSUME NEW c \in Callers, CallerSteps(c) \/ \E op \in Calls[c] : Call(c, op)
      PROVE  PlaceInv'
  <2>1. CASE Send(c)
    BY <2>1, SendPlaces
  <2>2. CASE ~Send(c)
    <3>1. UNCHANGED <<queues, wpc, job>>
      BY <1>1, <2>2 DEF CallerSteps, Call, Load, Shed, AtLimit, SendFull, SendPanics,
                        Proceed, Finish, workVars
    <3>2. /\ pc[c] # "wait"
          /\ pc' = pc \/ \E x : pc' = [pc EXCEPT ![c] = x]
      BY <1>1, <2>2 DEF CallerSteps, Call, Load, Shed, AtLimit, SendFull, SendPanics,
                        Proceed, Finish, Return, callVars
    <3>3. \A b \in Callers : pc[b] = "wait" => pc'[b] = "wait"
      BY <3>2
    <3> QED BY <3>1, <3>3, PlacesKept DEF Working
  <2> QED BY <2>1, <2>2
<1>2. ASSUME NEW w \in Workers, Default(w) \/ WorkerExits(w) \/ Execute(w) \/ Release(w)
      PROVE  PlaceInv'
  <2>1. UNCHANGED <<queues, pc>>
    BY <1>2 DEF Default, WorkerExits, Execute, Release, callVars
  <2>2. \A v \in Workers : Working(v)' => Working(v) /\ job'[v] = job[v]
    BY <1>2 DEF Default, WorkerExits, Execute, Release, Working
  <2> QED BY <2>1, <2>2, PlacesKept
<1>3. CASE CheckGlobalHealth \/ (\E e \in Endpoints : BreakerChanges(e)) \/ Close
              \/ CloseChannels \/ UNCHANGED vars
  <2>1. UNCHANGED <<queues, pc, wpc, job>>
    BY <1>3 DEF CheckGlobalHealth, BreakerChanges, Close, CloseChannels, vars, callVars, workVars
  <2> QED BY <2>1, PlacesKept DEF Working
<1> QED BY <1>1, <1>2, <1>3, GiveUpPlaces, TakePlaces, DeliverPlaces DEF Next, WorkerSteps

\* No request exists at first.
LEMMA InitPlaces == Init => PlaceInv
<1> SUFFICES ASSUME Init PROVE PlaceInv
  OBVIOUS
<1>1. \A p \in Priority : Len(queues[p]) = 0
  BY EmptySeq DEF Init
<1>2. \A p \in Priority : 1..Len(queues[p]) = {}
  BY <1>1
<1>3. \A w \in Workers : ~Working(w)
  BY DEF Init, Working
<1> QED BY <1>2, <1>3 DEF PlaceInv, QueuedInv, HeldInv, DistinctInv

-----------------------------------------------------------------------------
(* The counter                                                             *)

\* What is counted is finite.
LEMMA CountedFinite ==
  ASSUME TInv
  PROVE  /\ IsFiniteSet(Counted) /\ Cardinality(Counted) \in Nat
         /\ IsFiniteSet(Holding) /\ Cardinality(Holding) \in Nat
         /\ \A p \in {0, 1, 2} : p \in Priority /\ Len(queues[p]) \in Nat
         /\ globalInFlight \in Int
<1>1. IsFiniteSet(Counted) /\ IsFiniteSet(Holding)
  BY LoadAssumption, FS_Subset DEF Counted, Holding
<1>2. \A p \in {0, 1, 2} : p \in Priority
  BY DEF Priority, Telemetry, Control, Safety
<1> QED BY <1>1, <1>2, FS_CardinalityType, QueueTypes DEF TInv, TypeOK

\* A step that touches nothing that is counted.
LEMMA CountKept ==
  ASSUME TInv, InFlightAccounted, globalInFlight' = globalInFlight,
         Counted' = Counted, Holding' = Holding,
         \A p \in Priority : Len(queues'[p]) = Len(queues[p])
  PROVE  InFlightAccounted'
  BY CountedFinite DEF InFlightAccounted

\* A step that moves the parts of the count, the length of one queue among
\* them, and the counter by their sum.
LEMMA CountMoves ==
  ASSUME TInv, InFlightAccounted, NEW a \in Int, NEW h \in Int, NEW l \in Int,
         NEW z \in {0, 1, 2},
         Cardinality(Counted') = Cardinality(Counted) + a,
         Cardinality(Holding') = Cardinality(Holding) + h,
         Len(queues'[z]) = Len(queues[z]) + l,
         \A p \in {0, 1, 2} \ {z} : Len(queues'[p]) = Len(queues[p]),
         globalInFlight' = globalInFlight + a + h + l
  PROVE  InFlightAccounted'
<1>1. PICK ca \in Nat, ch \in Nat, l0 \in Nat, l1 \in Nat, l2 \in Nat :
         /\ ca = Cardinality(Counted) /\ ch = Cardinality(Holding)
         /\ l0 = Len(queues[0]) /\ l1 = Len(queues[1]) /\ l2 = Len(queues[2])
  BY CountedFinite
<1>2. globalInFlight = ca + ch + l0 + l1 + l2
  BY <1>1 DEF InFlightAccounted
<1>3. PICK k0 \in Int, k1 \in Int, k2 \in Int :
         /\ k0 = Len(queues'[0]) /\ k1 = Len(queues'[1]) /\ k2 = Len(queues'[2])
         /\ k0 + k1 + k2 = l0 + l1 + l2 + l
  <2>1. CASE z = 0
    <3>1. Len(queues'[0]) = l0 + l /\ Len(queues'[1]) = l1 /\ Len(queues'[2]) = l2
      BY <1>1, <2>1
    <3>2. (l0 + l) + l1 + l2 = l0 + l1 + l2 + l /\ l0 + l \in Int
      OBVIOUS
    <3> QED BY <3>1, <3>2
  <2>2. CASE z = 1
    <3>1. Len(queues'[0]) = l0 /\ Len(queues'[1]) = l1 + l /\ Len(queues'[2]) = l2
      BY <1>1, <2>2
    <3>2. l0 + (l1 + l) + l2 = l0 + l1 + l2 + l /\ l1 + l \in Int
      OBVIOUS
    <3> QED BY <3>1, <3>2
  <2>3. CASE z = 2
    <3>1. Len(queues'[0]) = l0 /\ Len(queues'[1]) = l1 /\ Len(queues'[2]) = l2 + l
      BY <1>1, <2>3
    <3>2. l0 + l1 + (l2 + l) = l0 + l1 + l2 + l /\ l2 + l \in Int
      OBVIOUS
    <3> QED BY <3>1, <3>2
  <2> QED BY <2>1, <2>2, <2>3
<1>4. (ca + ch + l0 + l1 + l2) + a + h + l = (ca + a) + (ch + h) + k0 + k1 + k2
  <2>1. k0 + k1 + k2 = l0 + l1 + l2 + l
    BY <1>3
  <2> QED BY <2>1
<1> QED BY <1>1, <1>2, <1>3, <1>4 DEF InFlightAccounted

\* A caller enters or leaves a counted operation, and counts it.
LEMMA CallerCounts ==
  ASSUME TInv, InFlightAccounted, NEW c \in Callers, UNCHANGED <<queues, job>>,
         \/ /\ c \notin Counted /\ Counted' = Counted \cup {c}
            /\ globalInFlight' = globalInFlight + 1
         \/ /\ c \in Counted /\ Counted' = Counted \ {c}
            /\ globalInFlight' = globalInFlight - 1
  PROVE  InFlightAccounted'
<1>1. Holding' = Holding
  BY DEF Holding
<1>2. CASE c \notin Counted /\ Counted' = Counted \cup {c}
             /\ globalInFlight' = globalInFlight + 1
  <2>1. Cardinality(Counted') = Cardinality(Counted) + 1
    BY <1>2, CountedFinite, FS_AddElement
  <2>2. globalInFlight' = globalInFlight + 1 + 0 + 0 /\ Len(queues[0]) = Len(queues[0]) + 0
        /\ Cardinality(Holding) = Cardinality(Holding) + 0
    BY <1>2, CountedFinite
  <2> QED BY <1>1, <2>1, <2>2, CountMoves
<1>3. CASE c \in Counted /\ Counted' = Counted \ {c}
             /\ globalInFlight' = globalInFlight - 1
  <2>1. Cardinality(Counted') = Cardinality(Counted) - 1
    BY <1>3, CountedFinite, FS_RemoveElement
  <2>2. /\ globalInFlight' = globalInFlight + (-1) + 0 + 0
        /\ Cardinality(Counted') = Cardinality(Counted) + (-1)
        /\ Len(queues[0]) = Len(queues[0]) + 0
        /\ Cardinality(Holding) = Cardinality(Holding) + 0
    BY <1>3, <2>1, CountedFinite
  <2> QED BY <1>1, <2>2, CountMoves
<1> QED BY <1>2, <1>3

\* The steps of a caller keep the count.
LEMMA CallerCountStep ==
  ASSUME TInv, PlaceInv, InFlightAccounted, NEW c \in Callers,
         CallerSteps(c) \/ (\E op \in Calls[c] : Call(c, op)) \/ GiveUp(c)
  PROVE  InFlightAccounted'
<1> USE DEF TInv, TypeOK
<1>1. CASE \/ \E op \in Calls[c] : Call(c, op)
           \/ Load(c) \/ Shed(c) \/ SendPanics(c) \/ (AtLimit(c) /\ closed)
  <2>1. UNCHANGED <<globalInFlight, queues, job>>
    BY <1>1 DEF Call, Load, Shed, SendPanics, AtLimit, loadVars, workVars
  <2>2. Counted' = Counted
    BY <1>1 DEF Call, Load, Shed, SendPanics, AtLimit, Return, callVars, Counted
  <2>3. Holding' = Holding
    BY <2>1 DEF Holding
  <2> QED BY <2>1, <2>2, <2>3, CountKept
<1>2. CASE (AtLimit(c) /\ ~closed) \/ Proceed(c)
  <2>1. globalInFlight' = globalInFlight + 1 /\ UNCHANGED <<queues, job>>
    BY <1>2 DEF AtLimit, Proceed, Count, workVars
  <2>2. c \notin Counted /\ Counted' = Counted \cup {c}
    BY <1>2 DEF AtLimit, Proceed, Counted
  <2> QED BY <2>1, <2>2, CallerCounts
<1>3. CASE SendFull(c) \/ Finish(c)
  <2>1. globalInFlight' = globalInFlight - 1 /\ UNCHANGED <<queues, job>>
    BY <1>3 DEF SendFull, Finish, Count, workVars
  <2>2. c \in Counted /\ Counted' = Counted \ {c}
    BY <1>3 DEF SendFull, Finish, Return, Counted
  <2> QED BY <2>1, <2>2, CallerCounts
<1>4. CASE Send(c)
  <2>1. globalInFlight' = globalInFlight /\ UNCHANGED job
    BY <1>4 DEF Send, loadVars, workVars
  <2>2. c \in Counted /\ Counted' = Counted \ {c}
    BY <1>4 DEF Send, Counted
  <2>3. Cardinality(Counted') = Cardinality(Counted) - 1
    BY <2>2, CountedFinite, FS_RemoveElement
  <2>4. call[c] \in Op /\ call[c].prio \in Priority /\ call[c].ep \in Endpoints
    BY <1>4 DEF Send, WorkInv, Op
  <2>5. PICK z \in {0, 1, 2} : z = call[c].prio
    BY <2>4 DEF Priority, Telemetry, Control, Safety
  <2>6. PICK r \in Request : r = [from |-> c, ep |-> call[c].ep, ended |-> FALSE]
    BY <2>4 DEF Request
  <2>7. queues' = [queues EXCEPT ![z] = Append(queues[z], r)]
    BY <1>4, <2>5, <2>6 DEF Send
  <2>8. /\ Len(queues'[z]) = Len(queues[z]) + 1
        /\ \A p \in {0, 1, 2} \ {z} : Len(queues'[p]) = Len(queues[p])
    BY <2>7, AppendRequests, CountedFinite
  <2>9. Holding' = Holding
    BY <2>1 DEF Holding
  <2>10. PICK a \in Int, h \in Int, l \in Int : a = -1 /\ h = 0 /\ l = 1
    OBVIOUS
  <2>11. /\ globalInFlight' = globalInFlight + a + h + l
         /\ Cardinality(Counted') = Cardinality(Counted) + a
         /\ Cardinality(Holding') = Cardinality(Holding) + h
         /\ Len(queues'[z]) = Len(queues[z]) + l
    BY <2>1, <2>3, <2>8, <2>9, <2>10, CountedFinite
  <2> QED BY <2>8, <2>11, CountMoves
<1>5. CASE GiveUp(c)
  <2>1. \A p \in Priority : Len(queues'[p]) = Len(queues[p])
    BY <1>5, AbandonedRequests, QueueTypes DEF GiveUp
  <2>2. Counted' = Counted /\ globalInFlight' = globalInFlight
    BY <1>5 DEF GiveUp, Return, Counted, loadVars
  <2>3. \A w \in Workers : job'[w] = None <=> job[w] = None
    BY <1>5, LoadAssumption DEF GiveUp, Abandoned, Request
  <2>4. Holding' = Holding
    BY <2>3 DEF Holding
  <2> QED BY <2>1, <2>2, <2>4, CountKept
<1> QED BY <1>1, <1>2, <1>3, <1>4, <1>5 DEF CallerSteps

\* The steps of a worker keep the count: a request that it takes is counted
\* with the worker instead of the queue, and the caller that it answers was
\* not counted.
LEMMA WorkerCountStep ==
  ASSUME TInv, PlaceInv, InFlightAccounted, NEW w \in Workers, WorkerSteps(w)
  PROVE  InFlightAccounted'
<1> USE DEF TInv, TypeOK
<1>1. ASSUME NEW z \in Priority, Take(w, z) PROVE InFlightAccounted'
  <2>1. /\ Head(queues[z]) \in Request /\ Len(Tail(queues[z])) = Len(queues[z]) - 1
    BY <1>1, TailRequests, QueueTypes DEF Take
  <2>2. w \notin Holding /\ Holding' = Holding \cup {w}
    BY <1>1, <2>1, LoadAssumption DEF Take, Holding, WorkInv
  <2>3. Cardinality(Holding') = Cardinality(Holding) + 1
    BY <2>2, CountedFinite, FS_AddElement
  <2>4. globalInFlight' = globalInFlight /\ Counted' = Counted
    BY <1>1 DEF Take, Counted, loadVars, callVars
  <2>5. z \in {0, 1, 2}
    BY DEF Priority, Telemetry, Control, Safety
  <2>6. /\ Len(queues'[z]) = Len(queues[z]) - 1
        /\ \A p \in {0, 1, 2} \ {z} : Len(queues'[p]) = Len(queues[p])
    BY <1>1, <2>1, CountedFinite DEF Take
  <2>7. PICK a \in Int, h \in Int, l \in Int : a = 0 /\ h = 1 /\ l = -1
    OBVIOUS
  <2>8. /\ globalInFlight' = globalInFlight + a + h + l
        /\ Cardinality(Counted') = Cardinality(Counted) + a
        /\ Cardinality(Holding') = Cardinality(Holding) + h
        /\ Len(queues'[z]) = Len(queues[z]) + l
    BY <2>3, <2>4, <2>5, <2>6, <2>7, CountedFinite
  <2> QED BY <2>5, <2>6, <2>8, CountMoves
<1>2. CASE Default(w) \/ WorkerExits(w) \/ Execute(w)
  <2>1. UNCHANGED <<globalInFlight, queues, pc, job>>
    BY <1>2 DEF Default, WorkerExits, Execute, loadVars, callVars
  <2>2. Counted' = Counted /\ Holding' = Holding
    BY <2>1 DEF Counted, Holding
  <2> QED BY <2>1, <2>2, CountKept
<1>3. CASE Drop(w) \/ Executed(w)
  <2>1. /\ Working(w) /\ Deliver(job[w])
        /\ UNCHANGED <<globalInFlight, queues, job>>
    BY <1>3 DEF Drop, Executed, Working, loadVars
  <2>2. job[w].from \in Callers
    BY <2>1, JobTypes DEF Working
  <2>3. Counted' = Counted
    <3>1. CASE job[w].ended
      BY <2>1, <3>1 DEF Deliver, Counted, callVars
    <3>2. CASE ~job[w].ended
      <4>1. pc[job[w].from] = "wait"
        BY <2>1, <3>2 DEF PlaceInv, HeldInv
      <4> QED BY <2>1, <2>2, <3>2, <4>1 DEF Deliver, Return, Counted
    <3> QED BY <3>1, <3>2
  <2>4. Holding' = Holding
    BY <2>1 DEF Holding
  <2> QED BY <2>1, <2>3, <2>4, CountKept
<1>4. CASE Release(w)
  <2>1. globalInFlight' = globalInFlight - 1 /\ UNCHANGED <<queues, pc>>
    BY <1>4 DEF Release, Count, callVars
  <2>2. w \in Holding /\ Holding' = Holding \ {w}
    BY <1>4 DEF Release, Holding, WorkInv
  <2>3. Cardinality(Holding') = Cardinality(Holding) - 1
    BY <2>2, CountedFinite, FS_RemoveElement
  <2>4. Counted' = Counted
    BY <2>1 DEF Counted
  <2> QED BY <2>1, <2>3, <2>4, CountedFinite DEF InFlightAccounted
<1> QED BY <1>1, <1>2, <1>3, <1>4 DEF WorkerSteps

\* Every step keeps the count.
LEMMA CountStep ==
  TInv /\ PlaceInv /\ InFlightAccounted /\ [Next]_vars => InFlightAccounted'
<1> SUFFICES ASSUME TInv, PlaceInv, InFlightAccounted, [Next]_vars
             PROVE  InFlightAccounted'
  OBVIOUS
<1>1. CASE CheckGlobalHealth \/ (\E e \in Endpoints : BreakerChanges(e)) \/ Close
              \/ CloseChannels \/ UNCHANGED vars
  <2>1. UNCHANGED <<globalInFlight, queues, pc, job>>
    BY <1>1 DEF CheckGlobalHealth, BreakerChanges, Close, CloseChannels, vars, loadVars,
                callVars, workVars
  <2>2. Counted' = Counted /\ Holding' = Holding
    BY <2>1 DEF Counted, Holding
  <2> QED BY <2>1, <2>2, CountKept
<1> QED BY <1>1, CallerCountStep, WorkerCountStep DEF Next

\* Nothing is in flight at first.
LEMMA InitCount == Init => InFlightAccounted
<1> SUFFICES ASSUME Init PROVE InFlightAccounted
  OBVIOUS
<1>1. Counted = {} /\ Holding = {}
  BY DEF Init, Counted, Holding
<1>2. Len(queues[0]) = 0 /\ Len(queues[1]) = 0 /\ Len(queues[2]) = 0
  BY EmptySeq DEF Init, Priority, Telemetry, Control, Safety
<1> QED BY <1>1, <1>2, FS_EmptySet DEF Init, InFlightAccounted

\* For any number of callers, workers and endpoints and any limits, the counter
\* that load shaping decides on equals the number of operations in flight:
\* those of callers between the increment and their end, those in the queues
\* and those with workers, abandoned or not.
THEOREM InFlightAccountedHolds == Spec => []InFlightAccounted
<1>1. Init => TInv /\ PlaceInv /\ InFlightAccounted
  BY InitType, InitPlaces, InitCount
<1>2. TInv /\ PlaceInv /\ InFlightAccounted /\ [Next]_vars
        => (TInv /\ PlaceInv /\ InFlightAccounted)'
  BY StepTypes, StepPlaces, CountStep
<1> QED BY <1>1, <1>2, PTL DEF Spec
=============================================================================
