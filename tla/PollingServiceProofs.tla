------------------------ MODULE PollingServiceProofs ------------------------
(* Proofs about PollingService, for every set of devices, pollers,         *)
(* goroutines and configurations and every number of workers.              *)
EXTENDS PollingService, TLAPS, FiniteSetTheorems

-----------------------------------------------------------------------------
(* Type correctness                                                        *)

\* The initial state has the right types.
LEMMA InitType == Init => TypeOK
<1> SUFFICES ASSUME Init PROVE TypeOK
  OBVIOUS
<1>1. /\ running \in [Pollers -> BOOLEAN] /\ subscribed \in [Pollers -> BOOLEAN]
      /\ stopped \in [Pollers -> BOOLEAN] /\ started \in BOOLEAN
  BY DEF Init
<1>2. /\ device \in [Pollers -> Configs \cup {None}]
      /\ late \in [Pollers -> 0 .. MaxLate]
      /\ devices \in [Devices -> Pollers \cup {None}]
      /\ of \in [Routines -> Pollers \cup {None}]
  BY PoolAssumption DEF Init
<1> QED BY <1>1, <1>2 DEF Init, TypeOK

\* Every step keeps the types; SubscribeOk and the end of stopAndResetPoller
\* need to know that the devicePoller they work on is a registered one.
LEMMA TypeStep ==
  ASSUME TypeOK, OwnerInv, LockInv, [Next]_vars
  PROVE  TypeOK'
<1> USE PoolAssumption DEF TypeOK, dpVars, muVars, goVars, svcVars
<1>1. CASE Start
  BY <1>1 DEF Start
<1>2. CASE StopCancel \/ StopDone \/ StopTimeout
  BY <1>2 DEF StopCancel, StopDone, StopTimeout
<1>3. ASSUME NEW d \in Devices, UnregisterDevice(d) PROVE TypeOK'
  BY <1>3 DEF UnregisterDevice
<1>4. ASSUME NEW d \in Devices, NEW cfg \in Configs, RegisterDevice(d, cfg)
      PROVE  TypeOK'
  BY <1>4 DEF RegisterDevice
<1>5. ASSUME NEW d \in Devices, NEW cfg \in Configs, ReplaceInPlace(d, cfg)
      PROVE  TypeOK'
  BY <1>5 DEF ReplaceInPlace
<1>6. ASSUME NEW d \in Devices, NEW cfg \in Configs, ReplaceRestart(d, cfg)
      PROVE  TypeOK'
  BY <1>6 DEF ReplaceRestart
<1>7. CASE StopWait
  <2>1. muDp \in Pollers
    BY <1>7 DEF StopWait, StopWaitDone, StopWaitTimeout, LockInv
  <2>2. /\ ResetPoller(muDp) /\ running' \in [Pollers -> BOOLEAN]
    BY <1>7, <2>1 DEF StopWait, StopWaitDone, StopWaitTimeout
  <2>3. sig' \in [Routines -> {"cur", "closed", "open"}]
    BY <2>2 DEF ResetPoller, Detach
  <2>4. late' \in [Pollers -> 0 .. MaxLate]
    <3>1. CASE late' = late
      BY <3>1
    <3>2. CASE late[muDp] < MaxLate /\ late' = [late EXCEPT ![muDp] = @ + 1]
      <4>1. late[muDp] + 1 \in 0 .. MaxLate
        BY <2>1, <3>2
      <4> QED BY <2>1, <3>2, <4>1
    <3> QED BY <1>7, <3>1, <3>2 DEF StopWait, StopWaitDone, StopWaitTimeout
  <2> QED BY <2>1, <2>2, <2>3, <2>4 DEF ResetPoller
<1>8. ASSUME NEW dp \in Pollers,
             StartSkipped(dp) \/ StartDevicePoller(dp) \/ StartDeviceSubscription(dp)
      PROVE  TypeOK'
  <2>1. CASE StartSkipped(dp)
    BY <2>1 DEF StartSkipped, Done
  <2>2. CASE StartDevicePoller(dp)
    BY <2>2 DEF StartDevicePoller, Done
  <2>3. CASE StartDeviceSubscription(dp)
    BY <2>3 DEF StartDeviceSubscription
  <2> QED BY <1>8, <2>1, <2>2, <2>3
<1>9. CASE SubscribeOk
  <2>1. muDp \in Pollers
    BY <1>9 DEF SubscribeOk, LockInv
  <2> QED BY <1>9, <2>1 DEF SubscribeOk, Done
<1>10. CASE SubscribeFails
  BY <1>10 DEF SubscribeFails
<1>11. ASSUME NEW g \in Routines, PollCycle(g) PROVE TypeOK'
  BY <1>11 DEF PollCycle, AcquireWorker, SkipPoll, FinishPoll,
               EndPoll, OwnerInv, Live
<1>12. ASSUME NEW g \in Routines, Tick(g) \/ Exit(g) PROVE TypeOK'
  BY <1>12 DEF Tick, Exit, LeaveSelect
<1>13. CASE UNCHANGED vars
  BY <1>13 DEF vars
<1> QED
  BY <1>1, <1>2, <1>3, <1>4, <1>5, <1>6, <1>7, <1>8, <1>9, <1>10, <1>11,
     <1>12, <1>13 DEF Next, Service, Api, Starting

-----------------------------------------------------------------------------
(* The invariant that holds whatever the timing of poll cycles             *)

\* What a step may do to the goroutines: nothing, start one for the
\* devicePoller at hand, or move or end one.
LEMMA OwnerStep ==
  ASSUME TypeOK, OwnerInv, [Next]_vars
  PROVE  OwnerInv'
<1> USE PoolAssumption DEF TypeOK, OwnerInv, Live, dpVars, muVars, goVars, svcVars
<1>1. CASE Service
  BY <1>1 DEF Service, Start, StopCancel, StopDone, StopTimeout
<1>2. ASSUME NEW d \in Devices, UnregisterDevice(d) PROVE OwnerInv'
  BY <1>2 DEF UnregisterDevice
<1>3. ASSUME NEW d \in Devices, NEW cfg \in Configs, RegisterDevice(d, cfg)
      PROVE  OwnerInv'
  BY <1>3 DEF RegisterDevice, Garbage, Registered
<1>4. ASSUME NEW d \in Devices, NEW cfg \in Configs,
             ReplaceInPlace(d, cfg) \/ ReplaceRestart(d, cfg)
      PROVE  OwnerInv'
  BY <1>4 DEF ReplaceInPlace, ReplaceRestart
<1>5. CASE StopWait
  BY <1>5 DEF StopWait, StopWaitDone, StopWaitTimeout, ResetPoller, Detach
<1>6. CASE Starting
  <2>1. ASSUME NEW dp \in Pollers, StartDevicePoller(dp) PROVE OwnerInv'
    BY <2>1 DEF StartDevicePoller
  <2> QED
    BY <1>6, <2>1 DEF Starting, StartSkipped, StartDeviceSubscription,
                      SubscribeOk, SubscribeFails
<1>7. ASSUME NEW g \in Routines, PollCycle(g) PROVE OwnerInv'
  BY <1>7 DEF PollCycle, AcquireWorker, SkipPoll, FinishPoll,
              EndPoll
<1>8. ASSUME NEW g \in Routines, Tick(g) \/ Exit(g) PROVE OwnerInv'
  BY <1>8 DEF Tick, Exit, LeaveSelect
<1>9. CASE UNCHANGED vars
  BY <1>9 DEF vars
<1> QED
  BY <1>1, <1>2, <1>3, <1>4, <1>5, <1>6, <1>7, <1>8, <1>9 DEF Next, Api

LEMMA LockStep ==
  ASSUME TypeOK, OwnerInv, LockInv, [Next]_vars
  PROVE  LockInv'
<1> USE PoolAssumption DEF TypeOK, LockInv, Registered, dpVars, muVars, goVars,
                           svcVars
<1>1. CASE Start
  BY <1>1 DEF Start
<1>2. CASE StopCancel \/ StopDone \/ StopTimeout
  BY <1>2 DEF StopCancel, StopDone, StopTimeout
<1>3. ASSUME NEW d \in Devices, UnregisterDevice(d) PROVE LockInv'
  BY <1>3 DEF UnregisterDevice
<1>4. ASSUME NEW d \in Devices, NEW cfg \in Configs, RegisterDevice(d, cfg)
      PROVE  LockInv'
  BY <1>4 DEF RegisterDevice, Garbage
<1>5. ASSUME NEW d \in Devices, NEW cfg \in Configs, ReplaceInPlace(d, cfg)
      PROVE  LockInv'
  BY <1>5 DEF ReplaceInPlace
<1>6. ASSUME NEW d \in Devices, NEW cfg \in Configs, ReplaceRestart(d, cfg)
      PROVE  LockInv'
  BY <1>6 DEF ReplaceRestart
<1>7. CASE StopWait
  BY <1>7 DEF StopWait, StopWaitDone, StopWaitTimeout, ResetPoller
<1>8. ASSUME NEW dp \in Pollers,
             StartSkipped(dp) \/ StartDevicePoller(dp) \/ StartDeviceSubscription(dp)
      PROVE  LockInv'
  BY <1>8 DEF StartSkipped, StartDevicePoller, StartDeviceSubscription, Done
<1>9. CASE SubscribeOk
  BY <1>9 DEF SubscribeOk, Done
<1>10. CASE SubscribeFails
  BY <1>10 DEF SubscribeFails
<1>11. ASSUME NEW g \in Routines, PollCycle(g) PROVE LockInv'
  BY <1>11 DEF PollCycle, AcquireWorker, SkipPoll, FinishPoll
<1>12. ASSUME NEW g \in Routines, Tick(g) \/ Exit(g) PROVE LockInv'
  BY <1>12 DEF Tick, Exit, LeaveSelect
<1>13. CASE UNCHANGED vars
  BY <1>13 DEF vars
<1> QED
  BY <1>1, <1>2, <1>3, <1>4, <1>5, <1>6, <1>7, <1>8, <1>9, <1>10, <1>11,
     <1>12, <1>13 DEF Next, Service, Api, Starting

\* Tokens are taken one at a time below the limit, and returned on every path
\* out of pollDevice.
LEMMA WorkersStep ==
  ASSUME TypeOK, OwnerInv, WorkersBounded, [Next]_vars
  PROVE  WorkersBounded'
<1> USE DEF dpVars, muVars, goVars, svcVars
<1>a. /\ pc \in [Routines -> {"free", "poll", "read", "select"}]
      /\ workerPool \subseteq Routines
  BY DEF TypeOK
<1>b. WorkerCount \in Nat \ {0} /\ IsFiniteSet(Routines)
  BY PoolAssumption
<1>1. ASSUME pc' = pc, workerPool' = workerPool PROVE WorkersBounded'
  BY <1>1 DEF WorkersBounded
<1>2. CASE Service \/ StopWait \/ UNCHANGED vars
  BY <1>1, <1>2 DEF Service, Start, StopCancel, StopDone, StopTimeout, StopWait,
                    StopWaitDone, StopWaitTimeout, ResetPoller, vars
<1>3. ASSUME NEW d \in Devices, Api(d) PROVE WorkersBounded'
  BY <1>1, <1>3 DEF Api, UnregisterDevice, RegisterDevice, ReplaceInPlace,
                    ReplaceRestart
<1>4. CASE Starting
  <2>1. ASSUME NEW dp \in Pollers, StartDevicePoller(dp) PROVE WorkersBounded'
    BY <1>a, <2>1 DEF StartDevicePoller, Live, WorkersBounded
  <2> QED
    BY <1>1, <1>4, <2>1 DEF Starting, StartSkipped, StartDeviceSubscription,
                            SubscribeOk, SubscribeFails
<1>5. ASSUME NEW g \in Routines, PollCycle(g) PROVE WorkersBounded'
  <2>1. IsFiniteSet(workerPool) /\ Cardinality(workerPool) \in Nat
    BY <1>a, <1>b, FS_Subset, FS_CardinalityType
  <2>2. /\ Cardinality(workerPool \ {g}) \in Nat
        /\ Cardinality(workerPool \ {g}) <= Cardinality(workerPool)
    BY <2>1, FS_Subset, FS_CardinalityType
  <2>3. CASE EndPoll(g)
    <3>1. workerPool' = workerPool \ {g} /\ pc' = [pc EXCEPT ![g] = "select"]
      BY <2>3 DEF EndPoll
    <3>2. workerPool' = {h \in Routines : pc'[h] = "read"}
      BY <1>a, <3>1 DEF WorkersBounded
    <3> QED BY <1>b, <2>1, <2>2, <3>1, <3>2 DEF WorkersBounded
  <2>4. CASE pc[g] = "poll" /\ ~EndPoll(g)
    <3>1. /\ workerPool' = workerPool \cup {g}
          /\ pc' = [pc EXCEPT ![g] = "read"]
          /\ Cardinality(workerPool) < WorkerCount
      BY <1>5, <2>4 DEF PollCycle, AcquireWorker, SkipPoll, FinishPoll
    <3>2. g \notin workerPool /\ workerPool' = {h \in Routines : pc'[h] = "read"}
      BY <1>a, <2>4, <3>1 DEF WorkersBounded
    <3>3. Cardinality(workerPool') = Cardinality(workerPool) + 1
      BY <2>1, <3>1, <3>2, FS_AddElement
    <3> QED BY <1>b, <2>1, <3>1, <3>2, <3>3 DEF WorkersBounded
  <2> QED
    BY <1>5, <2>3, <2>4 DEF PollCycle, AcquireWorker, SkipPoll, FinishPoll
<1>6. ASSUME NEW g \in Routines, Tick(g) \/ Exit(g) PROVE WorkersBounded'
  <2>1. workerPool' = workerPool /\ pc[g] = "select"
        /\ (pc' = [pc EXCEPT ![g] = "poll"] \/ pc' = [pc EXCEPT ![g] = "free"])
    BY <1>6 DEF Tick, Exit, LeaveSelect
  <2>2. {h \in Routines : pc'[h] = "read"} = {h \in Routines : pc[h] = "read"}
    BY <1>a, <2>1
  <2> QED BY <2>1, <2>2 DEF WorkersBounded
<1> QED
  BY <1>2, <1>3, <1>4, <1>5, <1>6 DEF Next

-----------------------------------------------------------------------------
(* The goroutines of each devicePoller                                     *)

\* Sets of goroutines are finite and a smaller one has no more members.
LEMMA Counting ==
  ASSUME NEW S \in SUBSET Routines, NEW T \in SUBSET S
  PROVE  /\ IsFiniteSet(S) /\ IsFiniteSet(T)
         /\ Cardinality(S) \in Nat /\ Cardinality(T) \in Nat
         /\ Cardinality(T) <= Cardinality(S)
  BY PoolAssumption, FS_Subset, FS_CardinalityType

\* What RunningInv and PushExcludesPolling say of one devicePoller.
Counted(dp) ==
    /\ Cardinality(LiveOf(dp)) <= (IF running[dp] THEN 1 ELSE 0) + late[dp]
    /\ Cardinality(Open(dp)) <= late[dp]
    /\ ~Registered(dp) /\ ~stopped[dp] => ~running[dp]
    /\ subscribed[dp] => Cardinality(LiveOf(dp)) <= late[dp]

\* What they say of the holder of s.mu.
Held == /\ muPc = "subscribe" => ~running[muDp]
        /\ muPc = "stopwait" /\ ~stopped[muDp] => ~running[muDp]

LEMMA CountedDef ==
  RunningInv /\ PushExcludesPolling <=> Held /\ \A dp \in Pollers : Counted(dp)
  BY DEF RunningInv, PushExcludesPolling, Held, Counted

\* A step that moves goroutines within their loop, or changes the flags of a
\* devicePoller in a way that allows at least as many goroutines, keeps Counted.
LEMMA CountedKept ==
  ASSUME TypeOK, TypeOK', NEW dp \in Pollers, Counted(dp),
         LiveOf(dp)' \subseteq LiveOf(dp), Open(dp)' \subseteq Open(dp),
         late[dp]' = late[dp], running[dp] => running[dp]',
         subscribed[dp]' => subscribed[dp],
         ~Registered(dp)' /\ ~stopped[dp]' => ~running[dp]'
  PROVE  Counted(dp)'
<1>1. LiveOf(dp) \in SUBSET Routines /\ Open(dp) \in SUBSET LiveOf(dp)
  BY DEF LiveOf, Open
<1>2. /\ Cardinality(LiveOf(dp)) \in Nat /\ Cardinality(LiveOf(dp)') \in Nat
      /\ Cardinality(LiveOf(dp)') <= Cardinality(LiveOf(dp))
  BY <1>1, Counting
<1>3. /\ Cardinality(Open(dp)) \in Nat /\ Cardinality(Open(dp)') \in Nat
      /\ Cardinality(Open(dp)') <= Cardinality(Open(dp))
  BY <1>1, Counting
<1>4. late[dp] \in Nat /\ late[dp]' \in Nat
  BY PoolAssumption DEF TypeOK
<1> QED BY <1>2, <1>3, <1>4 DEF Counted

\* A leaving goroutine takes itself away along with the flag, whoever set it.
LEMMA CountedExit ==
  ASSUME TypeOK, OwnerInv, NEW g \in Routines, Exit(g),
         NEW dp \in Pollers, Counted(dp)
  PROVE  Counted(dp)'
<1> USE DEF TypeOK, Exit, LeaveSelect
<1>1. LiveOf(dp) \in SUBSET Routines /\ Open(dp) \in SUBSET LiveOf(dp)
  BY DEF LiveOf, Open
<1>2. late[dp] \in Nat /\ late' = late
  BY PoolAssumption
<1>3. /\ Registered(dp)' = Registered(dp)
      /\ stopped' = stopped /\ subscribed' = subscribed
  BY DEF Registered
<1>4. Open(dp)' \subseteq Open(dp)
  BY DEF Open, LiveOf, Live
<1>5. Cardinality(Open(dp)') <= late[dp]
  <2>1. /\ Cardinality(Open(dp)) \in Nat /\ Cardinality(Open(dp)') \in Nat
        /\ Cardinality(Open(dp)') <= Cardinality(Open(dp))
    BY <1>1, <1>4, Counting
  <2> QED BY <1>2, <2>1 DEF Counted
<1>6. of[g] \in Pollers
  BY DEF OwnerInv, Live
<1>7. CASE of[g] = dp
  <2>1. g \in LiveOf(dp) /\ LiveOf(dp)' = LiveOf(dp) \ {g}
    BY <1>7, PoolAssumption DEF LiveOf, Live
  <2>2. /\ Cardinality(LiveOf(dp)) \in Nat
        /\ Cardinality(LiveOf(dp)') = Cardinality(LiveOf(dp)) - 1
    BY <1>1, <2>1, Counting, FS_RemoveElement
  <2>3. ~running'[dp]
    BY <1>6, <1>7
  <2> QED BY <1>2, <1>3, <1>5, <2>2, <2>3 DEF Counted
<1>8. CASE of[g] # dp
  <2>1. LiveOf(dp)' = LiveOf(dp) /\ running'[dp] = running[dp]
    BY <1>6, <1>8, PoolAssumption DEF LiveOf, Live
  <2> QED BY <1>2, <1>3, <1>5, <2>1 DEF Counted
<1> QED BY <1>7, <1>8

\* A goroutine is started only while the flag is off, and sets it.
LEMMA CountedStart ==
  ASSUME TypeOK, OwnerInv, LockInv, NEW e \in Pollers, StartDevicePoller(e),
         NEW dp \in Pollers, Counted(dp)
  PROVE  Counted(dp)'
<1> USE DEF TypeOK, StartDevicePoller
<1>1. LiveOf(dp) \in SUBSET Routines
  BY DEF LiveOf
<1>2. late[dp] \in Nat /\ late' = late
  BY PoolAssumption
<1>3. /\ Registered(dp)' = Registered(dp) /\ stopped' = stopped
      /\ subscribed' = subscribed /\ Registered(e) /\ ~subscribed[e]
  BY DEF Registered, LockInv
<1>4. PICK g \in Routines : ~Live(g) /\ pc' = [pc EXCEPT ![g] = "poll"]
                            /\ of' = [of EXCEPT ![g] = e] /\ sig' = sig
  OBVIOUS
<1>5. Open(dp)' \subseteq Open(dp)
  <2> SUFFICES ASSUME NEW h \in Open(dp)' PROVE h \in Open(dp)
    OBVIOUS
  <2>1. h \in Routines /\ pc'[h] # "free" /\ of'[h] = dp /\ sig[h] = "open"
    BY <1>4 DEF Open, LiveOf, Live
  <2>2. h # g
    BY <1>4, <2>1 DEF OwnerInv
  <2> QED BY <1>4, <2>1, <2>2 DEF Open, LiveOf, Live
<1>6. Cardinality(Open(dp)') <= late[dp]
  <2>1. Open(dp) \in SUBSET Routines
    BY DEF Open, LiveOf
  <2>2. /\ Cardinality(Open(dp)) \in Nat /\ Cardinality(Open(dp)') \in Nat
        /\ Cardinality(Open(dp)') <= Cardinality(Open(dp))
    BY <1>5, <2>1, Counting
  <2> QED BY <1>2, <2>2 DEF Counted
<1>7. CASE e = dp
  <2>1. g \notin LiveOf(dp) /\ LiveOf(dp)' = LiveOf(dp) \cup {g}
    BY <1>4, <1>7 DEF LiveOf, Live
  <2>2. /\ Cardinality(LiveOf(dp)) \in Nat
        /\ Cardinality(LiveOf(dp)') = Cardinality(LiveOf(dp)) + 1
    BY <1>1, <2>1, Counting, FS_AddElement
  <2>3. running'[dp] /\ ~running[dp]
    BY <1>7
  <2> QED BY <1>2, <1>3, <1>6, <1>7, <2>2, <2>3 DEF Counted
<1>8. CASE e # dp
  <2>1. LiveOf(dp)' = LiveOf(dp) /\ running'[dp] = running[dp]
    BY <1>4, <1>8 DEF LiveOf, Live
  <2> QED BY <1>2, <1>3, <1>6, <2>1 DEF Counted
<1> QED BY <1>7, <1>8
\* stopAndResetPoller ends with the flag off and every goroutine of the
\* devicePoller either gone or counted by a wait that timed out.
LEMMA CountedReset ==
  ASSUME TypeOK, TypeOK', OwnerInv, LockInv, Held, StopWait,
         NEW dp \in Pollers, Counted(dp)
  PROVE  Counted(dp)'
<1> USE DEF TypeOK
<1>1. muDp \in Pollers /\ Registered(muDp) /\ ~subscribed[muDp] /\ muPc = "stopwait"
  BY DEF StopWait, StopWaitDone, StopWaitTimeout, LockInv
<1>2. ResetPoller(muDp) /\ running' = [running EXCEPT ![muDp] = FALSE]
  BY <1>1 DEF StopWait, StopWaitDone, StopWaitTimeout
<1>3. /\ LiveOf(dp)' = LiveOf(dp) /\ Registered(dp)' = Registered(dp)
      /\ subscribed' = subscribed
  BY <1>2 DEF ResetPoller, LiveOf, Live, Registered
<1>4. LiveOf(dp) \in SUBSET Routines /\ Open(dp) \in SUBSET LiveOf(dp)
  BY DEF LiveOf, Open
<1>5. CASE dp # muDp
  <2>1. Open(dp)' \subseteq Open(dp)
    BY <1>2, <1>5 DEF ResetPoller, Detach, Open, LiveOf, Live
  <2>2. late'[dp] = late[dp] /\ running'[dp] = running[dp] /\ stopped'[dp] = stopped[dp]
    BY <1>1, <1>2, <1>5 DEF StopWait, StopWaitDone, StopWaitTimeout, ResetPoller
  <2>3. ~Registered(dp)' /\ ~stopped'[dp] => ~running'[dp]
    BY <1>3, <2>2 DEF Counted
  <2>4. LiveOf(dp)' \subseteq LiveOf(dp)
    BY <1>3
  <2>5. /\ late[dp]' = late[dp]
        /\ running[dp] => running[dp]'
        /\ subscribed[dp]' => subscribed[dp]
        /\ ~Registered(dp)' /\ ~stopped[dp]' => ~running[dp]'
    BY <1>3, <2>2, <2>3
  <2> QED BY <2>1, <2>4, <2>5, CountedKept
<1>6. CASE dp = muDp
  <2>1. /\ Cardinality(LiveOf(dp)) \in Nat /\ Cardinality(Open(dp)) \in Nat
        /\ late[dp] \in Nat /\ late'[dp] \in Nat
    BY <1>4, Counting, PoolAssumption
  <2>2. Cardinality(LiveOf(dp)) <= late'[dp] /\ late[dp] <= late'[dp]
    <3>1. CASE StopWaitDone
      BY <1>6, <2>1, <3>1 DEF StopWaitDone, Counted
    <3>2. CASE StopWaitTimeout /\ LiveOf(dp) = {}
      BY <1>6, <2>1, <3>2, FS_EmptySet DEF StopWaitTimeout
    <3>3. CASE StopWaitTimeout /\ LiveOf(dp) # {}
      <4>1. late'[dp] = late[dp] + 1
        BY <1>1, <1>6, <3>3 DEF StopWaitTimeout
      <4>2. Cardinality(LiveOf(dp)) <= 1 + late[dp]
        BY <2>1 DEF Counted
      <4> QED BY <2>1, <4>1, <4>2
    <3> QED BY <3>1, <3>2, <3>3 DEF StopWait
  <2>3. Cardinality(Open(dp)') <= late'[dp]
    <3>1. Open(dp)' \subseteq LiveOf(dp)
      BY <1>3 DEF Open
    <3>2. CASE ~stopped[dp]
      <4>1. /\ Cardinality(Open(dp)') \in Nat
            /\ Cardinality(Open(dp)') <= Cardinality(LiveOf(dp))
        BY <1>4, <3>1, Counting
      <4> QED BY <2>1, <2>2, <4>1
    <3>3. CASE stopped[dp]
      <4>1. Open(dp)' \subseteq Open(dp)
        BY <1>2, <1>6, <3>3 DEF ResetPoller, Detach, Open, LiveOf, Live
      <4>2. Open(dp) \in SUBSET Routines
        BY <1>4
      <4>3. /\ Cardinality(Open(dp)') \in Nat
            /\ Cardinality(Open(dp)') <= Cardinality(Open(dp))
        BY <4>1, <4>2, Counting
      <4> QED BY <2>1, <2>2, <4>3 DEF Counted
    <3> QED BY <3>2, <3>3
  <2>4. ~running'[dp]
    BY <1>1, <1>2, <1>6
  <2> QED BY <1>3, <2>1, <2>2, <2>3, <2>4 DEF Counted
<1> QED BY <1>5, <1>6
\* One devicePoller is handled at a time and everything else only moves
\* goroutines within their loop.
LEMMA CountedStep ==
  ASSUME TypeOK, TypeOK', OwnerInv, LockInv, Held, [Next]_vars,
         NEW dp \in Pollers, Counted(dp)
  PROVE  Counted(dp)'
<1> USE DEF dpVars, muVars, goVars, svcVars
<1>0. ASSUME pc' = pc, of' = of, sig' = sig
      PROVE  LiveOf(dp)' = LiveOf(dp) /\ Open(dp)' = Open(dp)
  BY <1>0 DEF LiveOf, Open, Live
<1>1. ASSUME pc' = pc, of' = of, sig' = sig, devices' = devices,
             running' = running, subscribed' = subscribed, stopped' = stopped,
             late' = late
      PROVE  Counted(dp)'
  BY <1>0, <1>1 DEF Counted, Registered
<1>2. CASE Service \/ UNCHANGED vars
  BY <1>1, <1>2 DEF Service, Start, StopCancel, StopDone, StopTimeout, vars
<1>3. ASSUME NEW d \in Devices, UnregisterDevice(d) PROVE Counted(dp)'
  <2> DEFINE e == devices[d]
  <2>1. e \in Pollers
    BY <1>3 DEF UnregisterDevice, TypeOK
  <2>2. /\ stopped' = [stopped EXCEPT ![e] = stopped[e] \/ running[e]]
        /\ subscribed' = [subscribed EXCEPT ![e] = FALSE]
        /\ devices' = [devices EXCEPT ![d] = None]
        /\ running' = running /\ late' = late
        /\ pc' = pc /\ of' = of /\ sig' = sig
    BY <1>3 DEF UnregisterDevice
  <2>3. subscribed'[dp] => subscribed[dp]
    BY <2>1, <2>2 DEF TypeOK
  <2>4. CASE dp = e
    <3>1. ~stopped'[dp] => ~running'[dp]
      BY <2>1, <2>2, <2>4 DEF TypeOK
    <3> QED BY <1>0, <2>2, <2>3, <3>1, CountedKept
  <2>5. CASE dp # e
    <3>1. stopped'[dp] = stopped[dp]
      BY <2>2, <2>5 DEF TypeOK
    <3>2. Registered(dp)' <=> Registered(dp)
      BY <2>1, <2>2, <2>5, PoolAssumption DEF Registered, TypeOK
    <3>3. ~Registered(dp)' /\ ~stopped'[dp] => ~running'[dp]
      BY <2>2, <3>1, <3>2 DEF Counted
    <3> QED BY <1>0, <2>2, <2>3, <3>3, CountedKept
  <2> QED BY <2>4, <2>5
<1>4. ASSUME NEW d \in Devices, NEW cfg \in Configs, RegisterDevice(d, cfg)
      PROVE  Counted(dp)'
  <2>1. PICK e \in Pollers :
          /\ Garbage(e) /\ devices' = [devices EXCEPT ![d] = e]
          /\ running' = [running EXCEPT ![e] = FALSE]
          /\ subscribed' = [subscribed EXCEPT ![e] = FALSE]
          /\ stopped' = [stopped EXCEPT ![e] = FALSE]
          /\ late' = [late EXCEPT ![e] = 0]
    BY <1>4 DEF RegisterDevice
  <2>2. LiveOf(dp)' = LiveOf(dp) /\ Open(dp)' = Open(dp)
    BY <1>0, <1>4 DEF RegisterDevice
  <2>3. CASE dp = e
    <3>1. LiveOf(dp)' = {} /\ Open(dp)' = {}
      BY <2>1, <2>2, <2>3 DEF Garbage, Open
    <3>2. ~running'[dp] /\ late'[dp] = 0
      BY <2>1, <2>3 DEF TypeOK
    <3> QED BY <3>1, <3>2, FS_EmptySet DEF Counted
  <2>4. CASE dp # e
    <3>1. /\ running'[dp] = running[dp] /\ subscribed'[dp] = subscribed[dp]
          /\ stopped'[dp] = stopped[dp] /\ late'[dp] = late[dp]
      BY <2>1, <2>4 DEF TypeOK
    <3>2. Registered(dp)' <=> Registered(dp)
      <4>1. devices[d] = None
        BY <1>4 DEF RegisterDevice
      <4> QED BY <2>1, <2>4, <4>1, PoolAssumption DEF Registered, TypeOK
    <3> QED BY <2>2, <3>1, <3>2 DEF Counted
  <2> QED BY <2>3, <2>4
<1>5. ASSUME NEW d \in Devices, NEW cfg \in Configs, ReplaceInPlace(d, cfg)
      PROVE  Counted(dp)'
  BY <1>1, <1>5 DEF ReplaceInPlace
<1>6. ASSUME NEW d \in Devices, NEW cfg \in Configs, ReplaceRestart(d, cfg)
      PROVE  Counted(dp)'
  <2>1. /\ stopped' = [stopped EXCEPT ![devices[d]] = @ \/ running[devices[d]]]
        /\ subscribed' = [subscribed EXCEPT ![devices[d]] = FALSE]
        /\ devices' = devices /\ running' = running /\ late' = late
        /\ pc' = pc /\ of' = of /\ sig' = sig
    BY <1>6 DEF ReplaceRestart
  <2>2. (subscribed'[dp] => subscribed[dp]) /\ (stopped[dp] => stopped'[dp])
    BY <2>1 DEF TypeOK
  <2>3. ~Registered(dp)' /\ ~stopped'[dp] => ~running'[dp]
    BY <2>1, <2>2 DEF Counted, Registered
  <2> QED BY <1>0, <2>1, <2>2, <2>3, CountedKept
<1>7. CASE StopWait
  BY <1>7, CountedReset
<1>8. ASSUME NEW e \in Pollers, StartSkipped(e) \/ StartDeviceSubscription(e)
      PROVE  Counted(dp)'
  BY <1>1, <1>8 DEF StartSkipped, StartDeviceSubscription
<1>9. ASSUME NEW e \in Pollers, StartDevicePoller(e) PROVE Counted(dp)'
  BY <1>9, CountedStart
<1>10. CASE SubscribeOk \/ SubscribeFails
  <2>1. muDp \in Pollers /\ Registered(muDp) /\ ~running[muDp] /\ muPc = "subscribe"
    BY <1>10 DEF SubscribeOk, SubscribeFails, LockInv, Held
  <2>2. /\ LiveOf(dp)' = LiveOf(dp) /\ Open(dp)' = Open(dp)
        /\ Registered(dp)' = Registered(dp)
        /\ stopped' = stopped /\ late' = late
    BY <1>0, <1>10 DEF SubscribeOk, SubscribeFails, Registered
  <2>3. /\ dp # muDp => running'[dp] = running[dp] /\ subscribed'[dp] = subscribed[dp]
        /\ dp = muDp => Registered(dp) /\ ~running[dp]
    BY <1>10, <2>1 DEF SubscribeOk, SubscribeFails, TypeOK
  <2>4. /\ Cardinality(LiveOf(dp)) \in Nat
        /\ late[dp] \in Nat
    BY Counting, PoolAssumption DEF LiveOf, TypeOK
  <2>5. CASE dp = muDp
    <3>1. Cardinality(LiveOf(dp)) <= late[dp]
      BY <2>3, <2>4, <2>5 DEF Counted
    <3>2. Cardinality(LiveOf(dp)) <= (IF running'[dp] THEN 1 ELSE 0) + late[dp]
      BY <2>4, <3>1
    <3> QED BY <2>1, <2>2, <2>5, <3>1, <3>2 DEF Counted
  <2>6. CASE dp # muDp
    BY <2>2, <2>3, <2>6 DEF Counted
  <2> QED BY <2>5, <2>6
<1>11. ASSUME NEW g \in Routines, PollCycle(g) \/ Tick(g) PROVE Counted(dp)'
  <2>1. /\ \A h \in Routines : h # g => pc'[h] = pc[h] /\ sig'[h] = sig[h]
        /\ pc[g] # "free" /\ of' = of
        /\ sig'[g] = "cur" \/ sig'[g] = sig[g]
        /\ devices' = devices /\ running' = running /\ subscribed' = subscribed
        /\ stopped' = stopped /\ late' = late
    BY <1>11 DEF PollCycle, AcquireWorker, SkipPoll, FinishPoll, EndPoll, Tick, TypeOK
  <2>2. LiveOf(dp)' \subseteq LiveOf(dp) /\ Open(dp)' \subseteq Open(dp)
    BY <2>1 DEF LiveOf, Open, Live
  <2>3. Registered(dp)' = Registered(dp)
    BY <2>1 DEF Registered
  <2>4. ~Registered(dp)' /\ ~stopped'[dp] => ~running'[dp]
    BY <2>1, <2>3 DEF Counted
  <2> QED BY <2>1, <2>2, <2>4, CountedKept
<1>12. ASSUME NEW g \in Routines, Exit(g) PROVE Counted(dp)'
  BY <1>12, CountedExit
<1> QED
  BY <1>2, <1>3, <1>4, <1>5, <1>6, <1>7, <1>8, <1>9, <1>10, <1>11, <1>12
     DEF Next, Api, Starting

\* The flag of the devicePoller in hand is set by nobody but the holder of s.mu.
LEMMA HeldStep ==
  ASSUME TypeOK, OwnerInv, LockInv, Held, [Next]_vars
  PROVE  Held'
<1> USE DEF TypeOK, Held, dpVars, muVars, goVars, svcVars
<1>1. CASE Service \/ UNCHANGED vars
  BY <1>1 DEF Service, Start, StopCancel, StopDone, StopTimeout, vars
<1>2. ASSUME NEW d \in Devices, UnregisterDevice(d) PROVE Held'
  BY <1>2 DEF UnregisterDevice
<1>3. ASSUME NEW d \in Devices, NEW cfg \in Configs,
             RegisterDevice(d, cfg) \/ ReplaceInPlace(d, cfg)
      PROVE  Held'
  BY <1>3 DEF RegisterDevice, ReplaceInPlace
<1>4. ASSUME NEW d \in Devices, NEW cfg \in Configs, ReplaceRestart(d, cfg)
      PROVE  Held'
  BY <1>4 DEF ReplaceRestart
<1>5. CASE StopWait
  BY <1>5 DEF StopWait, StopWaitDone, StopWaitTimeout, ResetPoller
<1>6. ASSUME NEW e \in Pollers,
             StartSkipped(e) \/ StartDevicePoller(e) \/ StartDeviceSubscription(e)
      PROVE  Held'
  BY <1>6 DEF StartSkipped, StartDevicePoller, StartDeviceSubscription, Done
<1>7. CASE SubscribeOk \/ SubscribeFails
  BY <1>7 DEF SubscribeOk, SubscribeFails, Done
<1>8. ASSUME NEW g \in Routines, PollCycle(g) \/ Tick(g) PROVE Held'
  BY <1>8 DEF PollCycle, AcquireWorker, SkipPoll, FinishPoll, EndPoll, Tick
<1>9. ASSUME NEW g \in Routines, Exit(g) PROVE Held'
  BY <1>9 DEF Exit, LeaveSelect, LockInv
<1> QED
  BY <1>1, <1>2, <1>3, <1>4, <1>5, <1>6, <1>7, <1>8, <1>9 DEF Next, Api, Starting

-----------------------------------------------------------------------------
(* The invariant                                                           *)

LEMMA InitIInv == Init => IInv
<1> SUFFICES ASSUME Init PROVE IInv
  OBVIOUS
<1>1. TypeOK
  BY InitType
<1>2. OwnerInv /\ LockInv
  BY PoolAssumption DEF Init, OwnerInv, LockInv, Live, Registered
<1>3. WorkersBounded
  BY PoolAssumption, FS_EmptySet DEF Init, WorkersBounded
<1>4. ASSUME NEW dp \in Pollers PROVE Counted(dp)
  <2>1. LiveOf(dp) = {} /\ Open(dp) = {}
    BY DEF Init, LiveOf, Live, Open
  <2> QED BY <2>1, FS_EmptySet DEF Init, Counted
<1>5. Held
  BY DEF Init, Held
<1> QED BY <1>1, <1>2, <1>3, <1>4, <1>5, CountedDef DEF IInv

\* The strengthened invariant holds throughout, however long poll cycles last
\* and whether or not API calls race with Stop.
THEOREM Inductive == Spec => []IInv
<1>1. ASSUME IInv, [Next]_vars PROVE IInv'
  <2>1. TypeOK' /\ OwnerInv' /\ LockInv' /\ WorkersBounded'
    BY <1>1, TypeStep, OwnerStep, LockStep, WorkersStep DEF IInv
  <2>2. Held /\ \A dp \in Pollers : Counted(dp)
    BY <1>1, CountedDef DEF IInv
  <2>3. ASSUME NEW dp \in Pollers PROVE Counted(dp)'
    BY <1>1, <2>1, <2>2, CountedStep DEF IInv
  <2>4. Held'
    BY <1>1, <2>2, HeldStep DEF IInv
  <2>5. RunningInv' /\ PushExcludesPolling'
    BY <2>3, <2>4 DEF RunningInv, PushExcludesPolling, Held, Counted
  <2> QED BY <2>1, <2>5 DEF IInv
<1> QED BY InitIInv, <1>1, PTL DEF Spec

\* Every variable of the service keeps its type.
THEOREM TypeCorrect == Spec => []TypeOK
  BY Inductive, PTL DEF IInv

\* At most WorkerCount poll cycles hold a token of workerPool and every token
\* is held by a goroutine inside a cycle.
THEOREM WorkersAreBounded == Spec => []WorkersBounded
  BY Inductive, PTL DEF IInv

\* However long poll cycles last, a devicePoller has at most one goroutine more
\* than there were waits of stopAndResetPoller that timed out on it, whatever is
\* registered, replaced and removed.
THEOREM SinglePollerHolds == Spec => []SinglePoller
<1>1. ASSUME IInv PROVE SinglePoller
  <2> SUFFICES ASSUME NEW dp \in Pollers
               PROVE  Cardinality(LiveOf(dp)) <= 1 + late[dp]
    BY DEF SinglePoller
  <2>1. Cardinality(LiveOf(dp)) \in Nat /\ late[dp] \in Nat
    BY <1>1, Counting, PoolAssumption DEF IInv, LiveOf, TypeOK
  <2>2. Cardinality(LiveOf(dp)) <= (IF running[dp] THEN 1 ELSE 0) + late[dp]
    BY <1>1 DEF IInv, RunningInv
  <2> QED BY <2>1, <2>2
<1> QED BY <1>1, Inductive, PTL

\* The goroutines of a removed device that were not told to stop are no more
\* than the waits that timed out; after none, every one has been told.
THEOREM UnregisteredStopsHolds == Spec => []UnregisteredStops
<1>1. ASSUME IInv PROVE UnregisteredStops
  <2> SUFFICES ASSUME NEW dp \in Pollers, ~Registered(dp)
               PROVE  Cardinality(Untold(dp)) <= late[dp]
    BY DEF UnregisteredStops
  <2>1. /\ late[dp] \in Nat /\ LiveOf(dp) \in SUBSET Routines
        /\ Open(dp) \in SUBSET Routines
        /\ sig \in [Routines -> {"cur", "closed", "open"}]
    BY <1>1, PoolAssumption DEF IInv, LiveOf, Open, TypeOK
  <2>2. /\ Cardinality(LiveOf(dp)) <= (IF running[dp] THEN 1 ELSE 0) + late[dp]
        /\ Cardinality(Open(dp)) <= late[dp]
        /\ ~stopped[dp] => ~running[dp]
    BY <1>1 DEF IInv, RunningInv
  <2>3. CASE stopped[dp]
    <3>1. Untold(dp) \subseteq Open(dp)
      BY <2>1, <2>3 DEF Untold, Open, StopSeen, LiveOf
    <3>2. /\ Cardinality(Untold(dp)) \in Nat /\ Cardinality(Open(dp)) \in Nat
          /\ Cardinality(Untold(dp)) <= Cardinality(Open(dp))
      BY <2>1, <3>1, Counting
    <3> QED BY <2>1, <2>2, <3>2
  <2>4. CASE ~stopped[dp]
    <3>1. Untold(dp) \subseteq LiveOf(dp)
      BY DEF Untold
    <3>2. /\ Cardinality(Untold(dp)) \in Nat /\ Cardinality(LiveOf(dp)) \in Nat
          /\ Cardinality(Untold(dp)) <= Cardinality(LiveOf(dp))
      BY <2>1, <3>1, Counting
    <3> QED BY <2>1, <2>2, <2>4, <3>2
  <2> QED BY <2>3, <2>4
<1> QED BY <1>1, Inductive, PTL

\* A devicePoller marked subscribed has no goroutine of its own, but for those
\* left behind by a wait that timed out.
THEOREM PushExcludesPollingHolds == Spec => []PushExcludesPolling
  BY Inductive, PTL DEF IInv
=============================================================================
