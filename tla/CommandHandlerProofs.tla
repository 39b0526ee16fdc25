------------------------ MODULE CommandHandlerProofs ------------------------
(* Proofs about CommandHandler, for every queue size, number of concurrent *)
(* writes, number of commands and set of devices.                          *)
EXTENDS CommandHandler, TLAPS, FiniteSetTheorems

-----------------------------------------------------------------------------
(* Type correctness                                                        *)

LEMMA InitType == Init => TypeOK
<1> SUFFICES ASSUME Init PROVE TypeOK
  OBVIOUS
<1>1. /\ stats \in [Counters -> Nat]
      /\ answers \in [1..MaxCommands -> Nat]
      /\ outcome \in [Procs -> Counters \cup {"none"}]
      /\ cur \in [Procs -> Command \cup {NoCommand}]
      /\ pc \in [Procs -> {"off", "select", "drain", "acquire", "write", "respond"}]
  BY DEF Init
<1>2. received \in 0..MaxCommands /\ hCmd \in 0..MaxCommands /\ devices \subseteq Devices
  BY HandlerAssumption DEF Init
<1>3. queue \in Seq(Command) /\ written \in Seq(1..MaxCommands)
  BY DEF Init
<1> QED BY <1>1, <1>2, <1>3 DEF Init, TypeOK, Topics

LEMMA CountType ==
  ASSUME TypeOK, NEW k \in Counters, Count(k)
  PROVE  stats' \in [Counters -> Nat]
  BY DEF TypeOK, Count

LEMMA AnswerType ==
  ASSUME TypeOK, NEW c \in 1..MaxCommands, Answer(c)
  PROVE  answers' \in [1..MaxCommands -> Nat]
  BY DEF TypeOK, Answer

\* The parts of TypeOK about a processor step.
LEMMA ProcessType ==
  ASSUME TypeOK, PlaceInv, OutcomeInv, NEW p \in Procs, Process(p)
  PROVE  TypeOK'
<1> USE HandlerAssumption DEF TypeOK, handlerVars, lifeVars, procVars
<1>1. CASE TakeCommand(p)
  <2>1. Head(queue) \in Command /\ Tail(queue) \in Seq(Command)
    BY <1>1 DEF TakeCommand
  <2> QED BY <1>1, <2>1 DEF TakeCommand
<1>2. CASE SeesCancel(p) \/ DrainEnds(p)
  BY <1>2 DEF SeesCancel, DrainEnds
<1>3. CASE Acquire(p) \/ RefuseCommand(p)
  BY <1>3 DEF Acquire, RefuseCommand, Refuse, Counters
<1>4. CASE WriteOk(p) \/ WriteFails(p)
  <2>1. cur[p].id \in 1..MaxCommands
    BY <1>4 DEF WriteOk, WriteFails, PlaceInv, ProcInv, Busy, Command
  <2>2. Append(written, cur[p].id) \in Seq(1..MaxCommands)
    BY <2>1
  <2> QED BY <1>4, <2>2 DEF WriteOk, WriteFails, Refuse, Counters
<1>5. CASE Respond(p)
  <2>1. cur[p].id \in 1..MaxCommands /\ outcome[p] \in Counters
    BY <1>5 DEF Respond, PlaceInv, ProcInv, Busy, Command, OutcomeInv
  <2>2. stats' \in [Counters -> Nat]
    BY <1>5, <2>1, CountType DEF Respond
  <2>3. answers' \in [1..MaxCommands -> Nat]
    BY <1>5, <2>1, AnswerType DEF Respond
  <2> QED BY <1>5, <2>2, <2>3 DEF Respond
<1> QED BY <1>1, <1>2, <1>3, <1>4, <1>5 DEF Process, Work

LEMMA TypeStep ==
  ASSUME TypeOK, PlaceInv, OutcomeInv, [Next]_vars
  PROVE  TypeOK'
<1> USE HandlerAssumption DEF TypeOK, handlerVars, lifeVars, procVars, Topics
<1>1. CASE Start \/ Subscribed \/ SubscribeFailed
  BY <1>1 DEF Start, Subscribed, SubscribeFailed
<1>2. CASE StopNotRunning \/ StopCancel \/ StopSteps
  BY <1>2 DEF StopNotRunning, StopCancel, StopSteps, StopUnsubscribe, StopDone
<1>3. CASE HandleMalformed \/ HandleFull
  <2>1. CASE HandleMalformed
    BY <2>1, CountType DEF HandleMalformed, Counters
  <2>2. CASE HandleFull
    <3>1. received' \in 0..MaxCommands /\ hCmd' = received'
      BY <2>2 DEF HandleFull
    <3> QED BY <2>2, <3>1 DEF HandleFull
  <2> QED BY <1>3, <2>1, <2>2
<1>4. ASSUME NEW cmd \in Command, HandleQueued(cmd) PROVE TypeOK'
  BY <1>4 DEF HandleQueued
<1>5. CASE RejectFull
  <2>0. hCmd \in 1..MaxCommands /\ "rejected" \in Counters
    BY <1>5 DEF RejectFull, Counters
  <2>1. stats' \in [Counters -> Nat]
    BY <1>5, <2>0, CountType DEF RejectFull
  <2>2. answers' \in [1..MaxCommands -> Nat]
    BY <1>5, <2>0, AnswerType DEF RejectFull
  <2> QED BY <1>5, <2>1, <2>2 DEF RejectFull
<1>6. ASSUME NEW p \in Procs, Process(p) PROVE TypeOK'
  BY <1>6, ProcessType
<1>7. ASSUME NEW list \in SUBSET Devices, UpdateDevices(list) PROVE TypeOK'
  BY <1>7 DEF UpdateDevices
<1>8. CASE UNCHANGED vars
  BY <1>8 DEF vars
<1> QED BY <1>1, <1>2, <1>3, <1>4, <1>5, <1>6, <1>7, <1>8 DEF Next, Callback


-----------------------------------------------------------------------------
(* Every command is in one place                                           *)

\* What taking the first element of the queue does to its indexing.
LEMMA TakeIndex ==
  ASSUME queue \in Seq(Command), queue # <<>>, queue' = Tail(queue)
  PROVE  /\ Head(queue) = queue[1] /\ 1 \in 1..Len(queue)
         /\ Len(queue') = Len(queue) - 1
         /\ \A i \in 1..Len(queue') : i + 1 \in 1..Len(queue) /\ queue'[i] = queue[i + 1]
  OBVIOUS

\* And what adding an element at the end does.
LEMMA AddIndex ==
  ASSUME queue \in Seq(Command), NEW cmd \in Command, queue' = Append(queue, cmd)
  PROVE  /\ Len(queue') = Len(queue) + 1 /\ queue'[Len(queue')] = cmd
         /\ \A i \in 1..Len(queue') :
               i # Len(queue') => i \in 1..Len(queue) /\ queue'[i] = queue[i]
  OBVIOUS

\* The types the arguments about the queue need.
LEMMA QueueTypes ==
  ASSUME TypeOK
  PROVE  /\ received \in Nat /\ MaxCommands \in Nat /\ received <= MaxCommands
         /\ Len(queue) \in Nat
         /\ \A i \in 1..Len(queue) : queue[i] \in Command
         /\ \A i \in 1..Len(queue) : queue[i].id \in 1..MaxCommands
<1>1. received \in 0..MaxCommands /\ MaxCommands \in Nat /\ queue \in Seq(Command)
  BY HandlerAssumption DEF TypeOK
<1>2. \A i \in 1..Len(queue) : queue[i] \in Command
  BY <1>1
<1>3. \A c \in Command : c.id \in 1..MaxCommands
  BY DEF Command
<1> QED BY <1>1, <1>2, <1>3

LEMMA QueuedPlace ==
  ASSUME TypeOK, PlaceInv, NEW cmd \in Command, HandleQueued(cmd)
  PROVE  PlaceInv'
<1> USE DEF PlaceInv
<1>1. /\ Len(queue') = Len(queue) + 1 /\ queue'[Len(queue')] = cmd
      /\ \A i \in 1..Len(queue') :
            i # Len(queue') => i \in 1..Len(queue) /\ queue'[i] = queue[i]
  BY AddIndex DEF HandleQueued, TypeOK
<1>2. /\ received' = received + 1 /\ cmd.id = received' /\ answers' = answers
      /\ pc' = pc /\ cur' = cur /\ hCmd = 0 /\ hCmd' = 0
      /\ cmd.id \in 1..MaxCommands
  BY DEF HandleQueued, Command, lifeVars, procVars
<1>3. /\ received \in Nat /\ Len(queue) \in Nat
      /\ \A i \in 1..Len(queue) : queue[i].id \in 1..MaxCommands
  BY QueueTypes
<1>4. Busy' = Busy
  BY <1>2 DEF Busy
<1>5. QueueInv'
  <2>1. \A i \in 1..Len(queue') : queue'[i].id <= received' /\ answers'[queue'[i].id] = 0
    BY <1>1, <1>2, <1>3 DEF QueueInv, AnswerInv
  <2>2. \A i, j \in 1..Len(queue') : i < j => queue'[i].id < queue'[j].id
    BY <1>1, <1>2, <1>3 DEF QueueInv
  <2> QED BY <2>1, <2>2 DEF QueueInv
<1>6. ProcInv'
  <2>1. ASSUME NEW p \in Busy
        PROVE  cur[p].id <= received' /\ cur[p].id # 0 /\ ~InQueue(cur[p].id)'
    <3>1. cur[p].id \in 1..MaxCommands /\ cur[p].id <= received /\ ~InQueue(cur[p].id)
      BY DEF ProcInv, Command
    <3> QED BY <1>1, <1>2, <1>3, <3>1 DEF InQueue
  <2> QED BY <1>2, <1>4, <2>1 DEF ProcInv
<1>7. CallbackInv' /\ AnswerInv'
  BY <1>2, <1>3 DEF CallbackInv, AnswerInv
<1> QED BY <1>5, <1>6, <1>7

LEMMA TakePlace ==
  ASSUME TypeOK, PlaceInv, NEW p \in Procs, TakeCommand(p)
  PROVE  PlaceInv'
<1> USE DEF PlaceInv
<1>1. /\ Head(queue) = queue[1] /\ 1 \in 1..Len(queue)
      /\ Len(queue') = Len(queue) - 1
      /\ \A i \in 1..Len(queue') : i + 1 \in 1..Len(queue) /\ queue'[i] = queue[i + 1]
  BY TakeIndex DEF TakeCommand, TypeOK
<1>2. /\ received' = received /\ answers' = answers /\ hCmd' = hCmd
      /\ pc' = [pc EXCEPT ![p] = "acquire"] /\ cur' = [cur EXCEPT ![p] = queue[1]]
      /\ p \notin Busy
  BY <1>1 DEF TakeCommand, handlerVars, Busy
<1>3. /\ received \in Nat /\ Len(queue) \in Nat
      /\ \A i \in 1..Len(queue) : queue[i] \in Command /\ queue[i].id \in 1..MaxCommands
      /\ pc \in [Procs -> {"off", "select", "drain", "acquire", "write", "respond"}]
      /\ cur \in [Procs -> Command \cup {NoCommand}]
  BY QueueTypes DEF TypeOK
<1>4. Busy' = Busy \cup {p}
  BY <1>2, <1>3 DEF Busy
<1>5. QueueInv'
  <2>1. \A i \in 1..Len(queue') : queue'[i].id <= received /\ answers[queue'[i].id] = 0
    BY <1>1 DEF QueueInv
  <2>2. \A i, j \in 1..Len(queue') : i < j => queue'[i].id < queue'[j].id
    <3>1. SUFFICES ASSUME NEW i \in 1..Len(queue'), NEW j \in 1..Len(queue'), i < j
                   PROVE  queue[i + 1].id < queue[j + 1].id
      BY <1>1
    <3>2. i + 1 \in 1..Len(queue) /\ j + 1 \in 1..Len(queue) /\ i + 1 < j + 1
      BY <1>1, <3>1
    <3> QED BY <3>2 DEF QueueInv
  <2> QED BY <1>2, <2>1, <2>2 DEF QueueInv
<1> DEFINE InNew(c) == \E i \in 1..Len(queue') : queue'[i].id = c
<1>6. \A c : ~InQueue(c) => ~InNew(c)
  BY <1>1 DEF InQueue
<1>7. ~InNew(queue[1].id) /\ InQueue(queue[1].id)
  <2>1. \A i \in 1..Len(queue') : queue[1].id < queue[i + 1].id
    BY <1>1, <1>3 DEF QueueInv
  <2> QED BY <1>1, <1>3, <2>1 DEF InQueue
<1> HIDE DEF InNew
<1>8. ProcInv'
  <2>1. \A q \in Procs : q \notin Busy' => cur'[q] = NoCommand
    BY <1>2, <1>3, <1>4 DEF ProcInv
  <2>2. cur'[p] = queue[1] /\ \A q \in Busy : cur'[q] = cur[q]
    BY <1>2, <1>3 DEF Busy
  <2>3. queue[1].id <= received /\ answers[queue[1].id] = 0
    BY <1>1 DEF QueueInv
  <2>4. queue[1].id # hCmd
    BY <1>3, <1>1, <1>7 DEF CallbackInv
  <2>5. \A q \in Busy' : /\ cur'[q] \in Command /\ cur'[q].id <= received'
                         /\ answers'[cur'[q].id] = 0
                         /\ cur'[q].id # hCmd' /\ ~InNew(cur'[q].id)
    <3> SUFFICES ASSUME NEW q \in Busy'
                 PROVE  /\ cur'[q] \in Command /\ cur'[q].id <= received'
                        /\ answers'[cur'[q].id] = 0
                        /\ cur'[q].id # hCmd' /\ ~InNew(cur'[q].id)
      OBVIOUS
    <3>1. CASE q = p
      BY <1>1, <1>2, <1>3, <1>7, <2>2, <2>3, <2>4, <3>1
    <3>2. CASE q # p
      BY <1>2, <1>4, <1>6, <2>2, <3>2 DEF ProcInv
    <3> QED BY <3>1, <3>2
  <2>6. \A q, r \in Busy' : cur'[r].id = cur'[q].id => q = r
    BY <1>4, <1>7, <2>2 DEF ProcInv
  <2> QED BY <2>1, <2>5, <2>6 DEF ProcInv, InQueue, InNew
<1>9. CallbackInv' /\ AnswerInv'
  BY <1>2, <1>6 DEF CallbackInv, AnswerInv, InQueue, InNew
<1> QED BY <1>5, <1>8, <1>9

LEMMA RespondPlace ==
  ASSUME TypeOK, PlaceInv, NEW p \in Procs, Respond(p)
  PROVE  PlaceInv'
<1> USE DEF PlaceInv
<1>1. /\ received' = received /\ hCmd' = hCmd /\ queue' = queue
      /\ answers' \in {answers, [answers EXCEPT ![cur[p].id] = @ + 1]}
      /\ cur' = [cur EXCEPT ![p] = NoCommand]
      /\ p \in Busy
  BY DEF Respond, Answer, handlerVars, Busy
<1>2. /\ answers \in [1..MaxCommands -> Nat]
      /\ cur \in [Procs -> Command \cup {NoCommand}]
      /\ \A i \in 1..Len(queue) : queue[i].id \in 1..MaxCommands
      /\ hCmd \in 0..MaxCommands /\ received \in Nat
  BY QueueTypes DEF TypeOK
<1>3. Busy' = Busy \ {p}
  BY DEF Respond, Busy, TypeOK
<1>4. cur[p].id \in 1..MaxCommands /\ answers[cur[p].id] = 0 /\ cur[p].id <= received
  BY <1>1 DEF ProcInv, Command
<1>5. \A c \in 1..MaxCommands : c # cur[p].id => answers'[c] = answers[c]
  BY <1>1, <1>2
<1>6. QueueInv'
  BY <1>1, <1>2, <1>5 DEF QueueInv, ProcInv, InQueue
<1>7. ProcInv'
  <2>1. \A q \in Procs : q \notin Busy' => cur'[q] = NoCommand
    BY <1>1, <1>2, <1>3 DEF ProcInv
  <2>2. \A q \in Busy' : cur'[q] = cur[q] /\ q \in Busy /\ q # p
    BY <1>1, <1>2, <1>3 DEF Busy
  <2>3. \A q \in Busy' : cur[q].id # cur[p].id /\ cur[q].id \in 1..MaxCommands
    BY <1>1, <2>2 DEF ProcInv, Command
  <2> QED BY <1>1, <1>5, <2>1, <2>2, <2>3 DEF ProcInv, InQueue
<1>8. CallbackInv'
  BY <1>1, <1>2, <1>5 DEF CallbackInv, ProcInv, InQueue
<1>9. AnswerInv'
  <2>1. answers'[cur[p].id] \in {0, 1}
    <3>1. CASE answers' = answers
      BY <1>4, <3>1
    <3>2. CASE answers' = [answers EXCEPT ![cur[p].id] = @ + 1]
      BY <1>2, <1>4, <3>2
    <3> QED BY <1>1, <3>1, <3>2
  <2> QED BY <1>1, <1>2, <1>4, <1>5, <2>1 DEF AnswerInv
<1> QED BY <1>6, <1>7, <1>8, <1>9

LEMMA PlaceStep ==
  ASSUME TypeOK, PlaceInv, [Next]_vars
  PROVE  PlaceInv'
<1> USE DEF PlaceInv, handlerVars, lifeVars, procVars
<1>0. ASSUME Busy' = Busy, UNCHANGED <<cur, handlerVars, queue, answers>>
      PROVE  PlaceInv'
  BY <1>0 DEF QueueInv, ProcInv, CallbackInv, AnswerInv, InQueue
<1>1. CASE Start \/ Subscribed \/ SubscribeFailed
  BY <1>0, <1>1 DEF Start, Subscribed, SubscribeFailed, Live, TypeOK, Busy
<1>2. CASE StopNotRunning \/ StopCancel \/ StopSteps
  BY <1>0, <1>2 DEF StopNotRunning, StopCancel, StopSteps, StopUnsubscribe,
                    StopDone, Busy
<1>3. CASE HandleMalformed \/ HandleFull
  <2>1. received' = received + 1 /\ hCmd = 0 /\ hCmd' \in {0, received'}
        /\ UNCHANGED <<pc, cur, queue, answers>> /\ received' \in 1..MaxCommands
    BY <1>3, QueueTypes DEF HandleMalformed, HandleFull
  <2>2. Busy' = Busy
    BY <2>1 DEF Busy
  <2>3. \A p \in Busy : cur[p].id \in 1..MaxCommands /\ cur[p].id <= received
    BY DEF ProcInv, Command
  <2> QED
    BY <2>1, <2>2, <2>3, QueueTypes DEF QueueInv, ProcInv, CallbackInv, AnswerInv, InQueue
<1>4. ASSUME NEW cmd \in Command, HandleQueued(cmd) PROVE PlaceInv'
  BY <1>4, QueuedPlace
<1>5. CASE RejectFull
  <2>1. /\ answers' \in {answers, [answers EXCEPT ![hCmd] = @ + 1]} /\ hCmd' = 0
        /\ hCmd \in 1..MaxCommands
        /\ answers \in [1..MaxCommands -> Nat]
        /\ UNCHANGED <<pc, cur, queue, received>>
    BY <1>5 DEF RejectFull, Answer, TypeOK
  <2>2. Busy' = Busy
    BY <2>1 DEF Busy
  <2>3. \A c \in 1..MaxCommands : c # hCmd => answers'[c] = answers[c]
    BY <2>1
  <2>4. \A p \in Busy : cur[p].id \in 1..MaxCommands
    BY DEF ProcInv, Command
  <2>5. QueueInv' /\ ProcInv'
    <3>1. /\ hCmd' = 0 /\ received' = received /\ queue' = queue /\ pc' = pc
          /\ cur' = cur /\ hCmd \in 1..MaxCommands
      BY <2>1
    <3>2. \A i \in 1..Len(queue) : /\ queue[i].id \in 1..MaxCommands
                                   /\ queue[i].id # hCmd
      BY <3>1, QueueTypes DEF CallbackInv, InQueue
    <3>3. QueueInv'
      BY <2>3, <3>1, <3>2 DEF QueueInv
    <3>4. \A p \in Busy : answers'[cur[p].id] = 0 /\ cur[p].id # 0
      BY <2>3, <2>4 DEF ProcInv
    <3> QED BY <2>2, <3>1, <3>3, <3>4 DEF ProcInv, InQueue
  <2>6. CallbackInv' /\ AnswerInv'
    <3>1. answers[hCmd] = 0 /\ hCmd <= received
      BY <2>1 DEF CallbackInv
    <3>2. answers'[hCmd] \in {0, 1}
      <4>1. CASE answers' = answers
        BY <3>1, <4>1
      <4>2. CASE answers' = [answers EXCEPT ![hCmd] = @ + 1]
        BY <2>1, <3>1, <4>2
      <4> QED BY <2>1, <4>1, <4>2
    <3>3. hCmd' = 0 /\ received' = received
      BY <2>1
    <3> QED BY <2>3, <3>1, <3>2, <3>3, QueueTypes DEF CallbackInv, AnswerInv
  <2> QED BY <2>5, <2>6
<1>6. ASSUME NEW p \in Procs, Process(p) PROVE PlaceInv'
  <2>1. CASE TakeCommand(p)
    BY <2>1, TakePlace
  <2>2. CASE SeesCancel(p) \/ DrainEnds(p)
    BY <1>0, <2>2 DEF SeesCancel, DrainEnds, Busy, TypeOK
  <2>3. CASE Acquire(p) \/ RefuseCommand(p)
    BY <1>0, <2>3 DEF Acquire, RefuseCommand, Refuse, Busy, TypeOK
  <2>4. CASE WriteOk(p) \/ WriteFails(p)
    BY <1>0, <2>4 DEF WriteOk, WriteFails, Refuse, Busy, TypeOK
  <2>5. CASE Respond(p)
    BY <2>5, RespondPlace
  <2> QED BY <1>6, <2>1, <2>2, <2>3, <2>4, <2>5 DEF Process, Work
<1>7. ASSUME NEW list \in SUBSET Devices, UpdateDevices(list) PROVE PlaceInv'
  BY <1>0, <1>7 DEF UpdateDevices, Busy
<1>8. CASE UNCHANGED vars
  BY <1>0, <1>8 DEF vars, Busy
<1> QED BY <1>1, <1>2, <1>3, <1>4, <1>5, <1>6, <1>7, <1>8 DEF Next, Callback

LEMMA OutcomeStep ==
  ASSUME TypeOK, OutcomeInv, [Next]_vars
  PROVE  OutcomeInv'
<1> USE DEF OutcomeInv, TypeOK, handlerVars, lifeVars, procVars
<1>1. CASE Start \/ Subscribed \/ SubscribeFailed
  BY <1>1 DEF Start, Subscribed, SubscribeFailed, Live
<1>2. CASE StopNotRunning \/ StopCancel \/ StopSteps
  BY <1>2 DEF StopNotRunning, StopCancel, StopSteps, StopUnsubscribe, StopDone
<1>3. CASE Callback \/ RejectFull
  BY <1>3 DEF Callback, HandleMalformed, HandleFull, HandleQueued, RejectFull
<1>4. ASSUME NEW p \in Procs, Process(p) PROVE OutcomeInv'
  <2>1. CASE TakeCommand(p) \/ SeesCancel(p) \/ DrainEnds(p)
    BY <2>1 DEF TakeCommand, SeesCancel, DrainEnds
  <2>2. CASE Acquire(p) \/ RefuseCommand(p)
    BY <2>2 DEF Acquire, RefuseCommand, Refuse
  <2>3. CASE WriteOk(p) \/ WriteFails(p)
    BY <2>3 DEF WriteOk, WriteFails, Refuse
  <2>4. CASE Respond(p)
    BY <2>4 DEF Respond
  <2> QED BY <1>4, <2>1, <2>2, <2>3, <2>4 DEF Process, Work
<1>5. ASSUME NEW list \in SUBSET Devices, UpdateDevices(list) PROVE OutcomeInv'
  BY <1>5 DEF UpdateDevices
<1>6. CASE UNCHANGED vars
  BY <1>6 DEF vars
<1> QED BY <1>1, <1>2, <1>3, <1>4, <1>5, <1>6 DEF Next

-----------------------------------------------------------------------------
(* Limits and accounting                                                   *)

LEMMA BusyFinite ==
  ASSUME NEW p \in Procs
  PROVE  /\ IsFiniteSet(Busy) /\ Cardinality(Busy) \in Nat
         /\ Cardinality(Busy \cup {p}) =
               IF p \in Busy THEN Cardinality(Busy) ELSE Cardinality(Busy) + 1
         /\ Cardinality(Busy \ {p}) =
               IF p \in Busy THEN Cardinality(Busy) - 1 ELSE Cardinality(Busy)
<1>1. IsFiniteSet(Busy)
  BY HandlerAssumption, FS_Subset DEF Busy
<1> QED BY <1>1, FS_CardinalityType, FS_AddElement, FS_RemoveElement

LEMMA BoundedStep ==
  ASSUME TypeOK, Bounded, [Next]_vars
  PROVE  Bounded'
<1> USE DEF Bounded, handlerVars, lifeVars, procVars
<1>0. ASSUME Busy \subseteq Busy', UNCHANGED <<sem, queue>> PROVE Bounded'
  BY <1>0
<1>1. CASE Start \/ Subscribed \/ SubscribeFailed
  BY <1>0, <1>1 DEF Start, Subscribed, SubscribeFailed, Live, TypeOK, Busy
<1>2. CASE StopNotRunning \/ StopCancel \/ StopSteps
  BY <1>0, <1>2 DEF StopNotRunning, StopCancel, StopSteps, StopUnsubscribe,
                    StopDone, Busy
<1>3. CASE HandleMalformed \/ HandleFull \/ RejectFull
  BY <1>0, <1>3 DEF HandleMalformed, HandleFull, RejectFull, Busy
<1>4. ASSUME NEW cmd \in Command, HandleQueued(cmd) PROVE Bounded'
  <2>1. Len(queue') = Len(queue) + 1 /\ Len(queue) \in Nat
    BY <1>4 DEF HandleQueued, TypeOK
  <2> QED BY <1>4, <2>1, HandlerAssumption DEF HandleQueued, Busy
<1>5. ASSUME NEW p \in Procs, Process(p) PROVE Bounded'
  <2>1. CASE TakeCommand(p)
    <3>1. Len(queue') = Len(queue) - 1 /\ Len(queue) \in Nat
      BY <2>1 DEF TakeCommand, TypeOK
    <3> QED BY <2>1, <3>1, HandlerAssumption DEF TakeCommand, Busy, TypeOK
  <2>2. CASE SeesCancel(p) \/ DrainEnds(p) \/ RefuseCommand(p)
    BY <1>0, <2>2 DEF SeesCancel, DrainEnds, RefuseCommand, Refuse, Busy, TypeOK
  <2>3. CASE Acquire(p)
    <3>1. IsFiniteSet(sem) /\ Cardinality(sem) \in Nat
      BY HandlerAssumption, FS_Subset, FS_CardinalityType DEF TypeOK
    <3>2. Cardinality(sem \cup {p}) \in {Cardinality(sem), Cardinality(sem) + 1}
      BY <3>1, FS_AddElement, Zenon
    <3>3. sem' = sem \cup {p} /\ Cardinality(sem) < MaxConcurrentWrites /\ queue' = queue
      BY <2>3 DEF Acquire
    <3>4. Busy' = Busy /\ p \in Busy
      BY <2>3 DEF Acquire, Refuse, Busy, TypeOK
    <3>5. Cardinality(sem') <= MaxConcurrentWrites
      <4>1. Cardinality(sem') \in Nat
        BY <3>1, <3>3, FS_AddElement, FS_CardinalityType
      <4> QED BY <3>1, <3>2, <3>3, <4>1, HandlerAssumption
    <3> QED BY <3>3, <3>4, <3>5
  <2>4. CASE WriteOk(p) \/ WriteFails(p)
    BY <1>0, <2>4 DEF WriteOk, WriteFails, Refuse, Busy, TypeOK
  <2>5. CASE Respond(p)
    <3>1. sem' = sem \ {p} /\ queue' = queue
      BY <2>5 DEF Respond
    <3>2. Busy' = Busy \ {p}
      BY <2>5 DEF Respond, Busy, TypeOK
    <3>3. IsFiniteSet(sem) /\ Cardinality(sem) \in Nat
      BY HandlerAssumption, FS_Subset, FS_CardinalityType DEF TypeOK
    <3>4. Cardinality(sem') <= Cardinality(sem) /\ Cardinality(sem') \in Nat
      BY <3>1, <3>3, FS_Subset, FS_CardinalityType
    <3> QED BY <3>1, <3>2, <3>3, <3>4, HandlerAssumption
  <2> QED BY <1>5, <2>1, <2>2, <2>3, <2>4, <2>5 DEF Process, Work
<1>6. ASSUME NEW list \in SUBSET Devices, UpdateDevices(list) PROVE Bounded'
  BY <1>0, <1>6 DEF UpdateDevices, Busy
<1>7. CASE UNCHANGED vars
  BY <1>0, <1>7 DEF vars, Busy
<1> QED BY <1>1, <1>2, <1>3, <1>4, <1>5, <1>6, <1>7 DEF Next, Callback

\* One more counter event is one more in the sum.
LEMMA CountSum ==
  ASSUME TypeOK, NEW k \in Counters, Count(k)
  PROVE  /\ stats'["succeeded"] + stats'["failed"] + stats'["rejected"]
            = stats["succeeded"] + stats["failed"] + stats["rejected"] + 1
         /\ stats["succeeded"] + stats["failed"] + stats["rejected"] \in Nat
<1>1. /\ stats["succeeded"] \in Nat /\ stats["failed"] \in Nat
      /\ stats["rejected"] \in Nat
  BY DEF TypeOK, Counters
<1>2. stats' = [stats EXCEPT ![k] = stats[k] + 1] /\ stats \in [Counters -> Nat]
  BY DEF TypeOK, Count
<1>3. CASE k = "succeeded"
  BY <1>1, <1>2, <1>3 DEF Counters
<1>4. CASE k = "failed"
  BY <1>1, <1>2, <1>4 DEF Counters
<1>5. CASE k = "rejected"
  BY <1>1, <1>2, <1>5 DEF Counters
<1> QED BY <1>3, <1>4, <1>5 DEF Counters

LEMMA AccountedStep ==
  ASSUME TypeOK, OutcomeInv, Accounted, [Next]_vars
  PROVE  Accounted'
<1> USE DEF Accounted, handlerVars, lifeVars, procVars
<1>0. ASSUME Busy' = Busy, UNCHANGED <<handlerVars, stats, queue>> PROVE Accounted'
  BY <1>0
<1>n. /\ stats["succeeded"] + stats["failed"] + stats["rejected"] \in Nat
      /\ Cardinality(Busy) \in Nat /\ received \in Nat /\ Len(queue) \in Nat
  <2>1. IsFiniteSet(Busy)
    BY HandlerAssumption, FS_Subset DEF Busy
  <2> QED BY <2>1, FS_CardinalityType, QueueTypes DEF TypeOK, Counters
<1>1. CASE Start \/ Subscribed \/ SubscribeFailed
  BY <1>0, <1>1 DEF Start, Subscribed, SubscribeFailed, Live, TypeOK, Busy
<1>2. CASE StopNotRunning \/ StopCancel \/ StopSteps
  BY <1>0, <1>2 DEF StopNotRunning, StopCancel, StopSteps, StopUnsubscribe,
                    StopDone, Busy
<1>3. CASE HandleMalformed
  BY <1>n, <1>3, CountSum DEF HandleMalformed, Busy, Counters
<1>4. CASE HandleFull
  BY <1>n, <1>4 DEF HandleFull, Busy
<1>5. ASSUME NEW cmd \in Command, HandleQueued(cmd) PROVE Accounted'
  <2>1. Len(queue') = Len(queue) + 1
    BY <1>5 DEF HandleQueued, TypeOK
  <2> QED BY <1>n, <1>5, <2>1 DEF HandleQueued, Busy
<1>6. CASE RejectFull
  BY <1>n, <1>6, CountSum DEF RejectFull, Busy, Counters
<1>7. ASSUME NEW p \in Procs, Process(p) PROVE Accounted'
  <2>1. CASE TakeCommand(p)
    <3>1. Len(queue') = Len(queue) - 1
      BY <2>1 DEF TakeCommand, TypeOK
    <3>2. Busy' = Busy \cup {p} /\ p \notin Busy
      BY <2>1 DEF TakeCommand, Busy, TypeOK
    <3>3. Cardinality(Busy') = Cardinality(Busy) + 1
      BY <3>2, BusyFinite
    <3> QED BY <1>n, <2>1, <3>1, <3>3 DEF TakeCommand
  <2>2. CASE SeesCancel(p) \/ DrainEnds(p)
    BY <1>0, <2>2 DEF SeesCancel, DrainEnds, Busy, TypeOK
  <2>3. CASE Acquire(p) \/ RefuseCommand(p)
    BY <1>0, <2>3 DEF Acquire, RefuseCommand, Refuse, Busy, TypeOK
  <2>4. CASE WriteOk(p) \/ WriteFails(p)
    BY <1>0, <2>4 DEF WriteOk, WriteFails, Refuse, Busy, TypeOK
  <2>5. CASE Respond(p)
    <3>1. Busy' = Busy \ {p} /\ p \in Busy
      BY <2>5 DEF Respond, Busy, TypeOK
    <3>2. Cardinality(Busy') = Cardinality(Busy) - 1
      BY <3>1, BusyFinite
    <3>3. outcome[p] \in Counters /\ Count(outcome[p])
      BY <2>5 DEF Respond, OutcomeInv, TypeOK
    <3> QED BY <1>n, <2>5, <3>2, <3>3, CountSum DEF Respond
  <2> QED BY <1>7, <2>1, <2>2, <2>3, <2>4, <2>5 DEF Process, Work
<1>8. ASSUME NEW list \in SUBSET Devices, UpdateDevices(list) PROVE Accounted'
  BY <1>0, <1>8 DEF UpdateDevices, Busy
<1>9. CASE UNCHANGED vars
  BY <1>0, <1>9 DEF vars, Busy
<1> QED
  BY <1>1, <1>2, <1>3, <1>4, <1>5, <1>6, <1>7, <1>8, <1>9 DEF Next, Callback

-----------------------------------------------------------------------------
(* The invariant for any number of processors                              *)

LEMMA InitIInv == Init => IInv
<1> SUFFICES ASSUME Init PROVE IInv
  OBVIOUS
<1>1. TypeOK
  BY InitType
<1>2. Busy = {} /\ Len(queue) = 0
  BY DEF Init, Busy
<1>3. PlaceInv
  BY <1>2, HandlerAssumption DEF Init, PlaceInv, QueueInv, ProcInv, CallbackInv, AnswerInv
<1>4. OutcomeInv
  BY DEF Init, OutcomeInv
<1>5. Bounded
  BY <1>2, HandlerAssumption, FS_EmptySet DEF Init, Bounded
<1>6. Accounted
  BY <1>2, FS_EmptySet DEF Init, Accounted, Counters
<1> QED BY <1>1, <1>3, <1>4, <1>5, <1>6 DEF IInv

THEOREM Inductive == Spec => []IInv
<1>1. IInv /\ [Next]_vars => IInv'
  BY TypeStep, PlaceStep, OutcomeStep, BoundedStep, AccountedStep DEF IInv
<1> QED BY InitIInv, <1>1, PTL DEF Spec

\* Every variable of the command handler keeps its type.
THEOREM TypeCorrect == Spec => []TypeOK
  BY Inductive, PTL DEF IInv

\* CommandsReceived always equals the commands answered, rejected, queued and
\* in hand: no path through the handler loses or double counts a command.
THEOREM CommandsAccounted == Spec => []Accounted
  BY Inductive, PTL DEF IInv

\* commandQueue and writeSemaphore keep their capacities.
THEOREM LimitsHold == Spec => []Bounded
  BY Inductive, PTL DEF IInv

\* No command gets a second response.
THEOREM OneAnswer == Spec => []AnsweredOnce
<1>1. IInv => AnsweredOnce
  <2> SUFFICES ASSUME IInv, NEW c \in 1..MaxCommands
               PROVE  /\ answers[c] <= 1
                      /\ answers[c] = 1 => \A p \in Procs : cur[p].id # c
    BY DEF AnsweredOnce
  <2>1. answers[c] <= 1
    BY DEF IInv, PlaceInv, AnswerInv
  <2>2. ASSUME answers[c] = 1, NEW p \in Procs PROVE cur[p].id # c
    <3>1. CASE p \in Busy
      BY <2>2, <3>1 DEF IInv, PlaceInv, ProcInv
    <3>2. CASE p \notin Busy
      BY <3>2, HandlerAssumption DEF IInv, PlaceInv, ProcInv, NoCommand
    <3> QED BY <3>1, <3>2
  <2> QED BY <2>1, <2>2
<1> QED BY <1>1, Inductive, PTL

-----------------------------------------------------------------------------
(* A single processor keeps the order of delivery                          *)

\* What appending the number of a command to written does.
LEMMA WrittenIndex ==
  ASSUME TypeOK, NEW n \in 1..MaxCommands, written' = Append(written, n)
  PROVE  /\ Len(written) \in Nat /\ Len(written') = Len(written) + 1
         /\ written'[Len(written')] = n
         /\ \A k \in 1..Len(written') :
               k # Len(written') => k \in 1..Len(written) /\ written'[k] = written[k]
  BY DEF TypeOK

\* The order invariant after a write: the command written was the oldest left.
LEMMA OrderWrite ==
  ASSUME IInv, OrderInv, NEW p \in Procs, Procs = {p}, pc[p] = "write",
         pc' = [pc EXCEPT ![p] = "respond"],
         written' \in {written, Append(written, cur[p].id)},
         UNCHANGED <<queue, received, cur>>
  PROVE  OrderInv'
<1> DEFINE n == cur[p].id
<1>1. /\ p \in Busy /\ n \in 1..MaxCommands /\ n <= received
      /\ \A i \in 1..Len(queue) : n < queue[i].id
      /\ \A k \in 1..Len(written) : written[k] < n /\ written[k] <= received
      /\ \A k \in 1..Len(written) : \A i \in 1..Len(queue) : written[k] < queue[i].id
    BY DEF Busy, IInv, PlaceInv, ProcInv, Command, OrderInv
<1>2. pc'[p] = "respond" /\ p \in Busy'
  BY DEF IInv, TypeOK, Busy
<1>3. WritesInOrder
  BY DEF OrderInv
<1>4. CASE written' = written
  BY <1>1, <1>2, <1>3, <1>4 DEF OrderInv, WritesInOrder
<1>5. CASE written' = Append(written, n)
  <2> HIDE DEF n
  <2>1. /\ Len(written) \in Nat /\ Len(written') = Len(written) + 1
        /\ written'[Len(written')] = n
        /\ \A k \in 1..Len(written') :
              k # Len(written') => k \in 1..Len(written) /\ written'[k] = written[k]
    BY <1>1, <1>5, WrittenIndex DEF IInv
  <2>2. WritesInOrder'
    BY <1>1, <1>3, <2>1 DEF WritesInOrder
  <2>3. \A k \in 1..Len(written') :
           /\ \A i \in 1..Len(queue') : written'[k] < queue'[i].id
           /\ written'[k] <= received'
    BY <1>1, <2>1
  <2>4. \A q \in Procs : pc'[q] \notin {"acquire", "write"}
    BY <1>2
  <2>5. \A q \in Procs : \A i \in 1..Len(queue') : cur'[q].id < queue'[i].id
    BY <1>1 DEF n
  <2> QED BY <2>2, <2>3, <2>4, <2>5 DEF OrderInv
<1> QED BY <1>4, <1>5

\* The order invariant after a command was taken: it was the oldest queued.
LEMMA OrderTake ==
  ASSUME IInv, OrderInv, NEW p \in Procs, Procs = {p}, TakeCommand(p)
  PROVE  OrderInv'
<1>1. /\ Head(queue) = queue[1] /\ 1 \in 1..Len(queue)
      /\ Len(queue') = Len(queue) - 1
      /\ \A i \in 1..Len(queue') : i + 1 \in 1..Len(queue) /\ queue'[i] = queue[i + 1]
  BY TakeIndex DEF TakeCommand, IInv, TypeOK
<1>2. cur'[p] = queue[1] /\ written' = written /\ received' = received
  BY <1>1 DEF TakeCommand, handlerVars, IInv, TypeOK
<1>3. Len(queue) \in Nat
  BY QueueTypes DEF IInv
<1>4. \A i \in 1..Len(queue') : queue[1].id < queue'[i].id
  <2> SUFFICES ASSUME NEW i \in 1..Len(queue') PROVE queue[1].id < queue[i + 1].id
    BY <1>1
  <2>1. i + 1 \in 1..Len(queue) /\ 1 < i + 1
    BY <1>1, <1>3
  <2> QED BY <1>1, <2>1 DEF IInv, PlaceInv, QueueInv
<1> QED BY <1>1, <1>2, <1>4 DEF OrderInv, WritesInOrder

\* The order invariant after a command was queued: it is the youngest.
LEMMA OrderQueued ==
  ASSUME IInv, OrderInv, NEW cmd \in Command, HandleQueued(cmd)
  PROVE  OrderInv'
<1>1. /\ Len(queue') = Len(queue) + 1 /\ queue'[Len(queue')] = cmd
      /\ \A i \in 1..Len(queue') :
            i # Len(queue') => i \in 1..Len(queue) /\ queue'[i] = queue[i]
  BY AddIndex DEF HandleQueued, IInv, TypeOK
<1>2. /\ received' = received + 1 /\ cmd.id = received' /\ written' = written
      /\ pc' = pc /\ cur' = cur
  BY DEF HandleQueued, procVars
<1>3. received \in Nat /\ \A k \in 1..Len(written) : written[k] \in 1..MaxCommands
  BY QueueTypes DEF IInv, TypeOK
<1>4. \A k \in 1..Len(written) : written[k] <= received /\ written[k] < cmd.id
  BY <1>2, <1>3 DEF OrderInv
<1>5. \A p \in Procs : p \in Busy => cur[p].id \in 1..MaxCommands /\ cur[p].id < cmd.id
  BY <1>2, <1>3 DEF IInv, PlaceInv, ProcInv, Command
<1>6. Busy' = Busy
  BY <1>2 DEF Busy
<1>7. \A k \in 1..Len(written) : \A i \in 1..Len(queue') : written[k] < queue'[i].id
  BY <1>1, <1>4 DEF OrderInv
<1>8. \A p \in Procs : p \in Busy => \A i \in 1..Len(queue') : cur[p].id < queue'[i].id
  BY <1>1, <1>5 DEF OrderInv
<1>9. \A k \in 1..Len(written) : written[k] <= received'
  BY <1>2, <1>3, <1>4
<1> QED BY <1>2, <1>6, <1>7, <1>8, <1>9 DEF OrderInv, WritesInOrder

LEMMA OrderStep ==
  ASSUME IInv, OrderInv, NEW p \in Procs, Procs = {p}, [Next]_vars
  PROVE  OrderInv'
<1> USE DEF handlerVars, lifeVars, procVars
<1>0. ASSUME UNCHANGED <<cur, queue, written>>, received' \in {received, received + 1},
             \A q \in Procs : /\ q \in Busy' => q \in Busy
                              /\ pc'[q] \in {"acquire", "write"}
                                     => pc[q] \in {"acquire", "write"}
      PROVE  OrderInv'
  <2>1. received \in Nat /\ \A k \in 1..Len(written) : written[k] \in 1..MaxCommands
    BY QueueTypes DEF IInv, TypeOK
  <2> QED BY <1>0, <2>1 DEF OrderInv, WritesInOrder
<1>t. pc \in [Procs -> {"off", "select", "drain", "acquire", "write", "respond"}]
  BY DEF IInv, TypeOK
<1>1. CASE Start \/ Subscribed \/ SubscribeFailed
  BY <1>0, <1>t, <1>1 DEF Start, Subscribed, SubscribeFailed, Busy
<1>2. CASE StopNotRunning \/ StopCancel \/ StopSteps
  BY <1>0, <1>2 DEF StopNotRunning, StopCancel, StopSteps, StopUnsubscribe,
                    StopDone, Busy
<1>3. CASE HandleMalformed \/ HandleFull \/ RejectFull
  BY <1>0, <1>3 DEF HandleMalformed, HandleFull, RejectFull, Busy
<1>4. ASSUME NEW cmd \in Command, HandleQueued(cmd) PROVE OrderInv'
  BY <1>4, OrderQueued
<1>5. CASE Process(p)
  <2>1. CASE TakeCommand(p)
    BY <2>1, OrderTake
  <2>2. CASE SeesCancel(p) \/ DrainEnds(p)
    BY <1>0, <1>t, <2>2 DEF SeesCancel, DrainEnds, Busy
  <2>3. CASE Acquire(p) \/ RefuseCommand(p)
    BY <1>0, <1>t, <2>3 DEF Acquire, RefuseCommand, Refuse, Busy
  <2>4. CASE WriteOk(p) \/ WriteFails(p)
    BY <2>4, OrderWrite DEF WriteOk, WriteFails, Refuse
  <2>5. CASE Respond(p)
    <3>1. p \notin Busy' /\ pc'[p] \notin {"acquire", "write"}
      BY <1>t, <2>5 DEF Respond, Busy
    <3> QED BY <2>5, <3>1 DEF Respond, OrderInv, WritesInOrder
  <2> QED BY <1>5, <2>1, <2>2, <2>3, <2>4, <2>5 DEF Process, Work
<1>6. ASSUME NEW list \in SUBSET Devices, UpdateDevices(list) PROVE OrderInv'
  BY <1>0, <1>6 DEF UpdateDevices, Busy
<1>7. CASE UNCHANGED vars
  BY <1>0, <1>7 DEF vars, Busy
<1> QED BY <1>1, <1>2, <1>3, <1>4, <1>5, <1>6, <1>7 DEF Next, Callback

\* With the one processor of a Start that succeeded, commands reach the devices
\* in the order in which the broker delivered them.
THEOREM WritesKeepOrder ==
  ASSUME NEW p \in Procs, Procs = {p}
  PROVE  Spec => []WritesInOrder
<1>1. Init => OrderInv
  BY DEF Init, OrderInv, WritesInOrder, Busy
<1>2. IInv /\ OrderInv /\ [Next]_vars => OrderInv'
  BY OrderStep
<1>3. OrderInv => WritesInOrder
  BY DEF OrderInv
<1> QED BY <1>1, <1>2, <1>3, Inductive, PTL DEF Spec

=============================================================================
