-------------------------- MODULE ModbusPoolProofs --------------------------
(***************************************************************************)
(* The Modbus pool is a DevicePool, and a breaker does not stay closed     *)
(* when all it was told of are errors, for any sets of devices, callers    *)
(* and clients, and any settings of the pool and the breakers.             *)
(***************************************************************************)
EXTENDS ModbusPool, FiniteSetTheorems, TLAPS

\* No client serves two devices: GetClient puts a new one into the map.
Distinct ==
    \A d, e \in Devices : clients[d] = clients[e] /\ clients[d] # None => d = e

\* GetClient holds p.mu while it connects, so that Close cannot come in between.
\* Only commands reconnect, and Close comes after the last of them.  An operation
\* has a breaker, and counts there, once it was admitted.
OpInv ==
    \A o \in Ops :
        /\ op[o].pc # "idle" => op[o].dev \in Devices
        /\ op[o].pc = "get" => mu = o /\ closed = "open"
        /\ op[o].pc \in {"look", "run", "reconnect"} => op[o].client # None
        /\ op[o].pc = "reconnect" => o \in Commands
        /\ o \in Commands /\ closed # "open" => op[o].pc = "idle"
        /\ IF op[o].pc \in {"run", "reconnect"} THEN op[o].breaker # None
                                                ELSE op[o].breaker = None /\ ~op[o].counted

\* The health check has a client to look at, and Close waits for it.
LoopInv ==
    /\ check.at \in {"look", "connect"} => check.client # None
    /\ closed = "closed" => check.at = "off"

\* The requests breaker c was told of and waits for.
InFlight(c) == {o \in Ops : op[o].breaker = c /\ op[o].counted}

\* Requests that were counted have failed, succeeded or are in flight; the tally is
\* that of the failures, as long as nothing else was seen; and a closed breaker that
\* saw Threshold failures and nothing else still waits for a request.
Balance(c) ==
    LET b == breaker[c]
    IN  /\ IsFiniteSet(InFlight(c))
        /\ b.requests = b.failures + b.successes + Cardinality(InFlight(c))
        /\ b.state = "closed" /\ tally[c] <= Threshold =>
              /\ b.successes = 0
              /\ IF tally[c] < Threshold THEN b.failures = tally[c]
                                         ELSE b.failures >= Threshold
        /\ b.state = "closed" /\ tally[c] = Threshold => InFlight(c) # {}

IInv ==
    /\ TypeOK /\ workload \in Workloads /\ IsFiniteSet(Held)
    /\ Distinct /\ OpInv /\ LoopInv
    /\ \A c \in Clients : Balance(c)

-----------------------------------------------------------------------------
(* Breakers                                                                *)

\* A breaker after a request that it counted.
WithSuccess(b) == [b EXCEPT !.successes = @ + 1]
WithFailure(b) == [b EXCEPT !.failures = @ + 1]
Reset == {In("closed"), In("open"), In("half-open")}

\* What a step may do to breaker c and the requests it counts.
Same(c) == breaker'[c] = breaker[c] /\ tally'[c] = tally[c] /\ InFlight(c)' = InFlight(c)

Cleans(c) == breaker'[c] \in Reset /\ tally'[c] = 0 /\ InFlight(c)' = {}

Takes(c, o) ==
    /\ o \notin InFlight(c) /\ Admits(breaker[c])
    /\ breaker'[c] = Admitted(breaker[c]) /\ tally'[c] = tally[c]
    /\ InFlight(c)' = InFlight(c) \cup {o}

Succeeds(c, o) ==
    /\ o \in InFlight(c)
    /\ breaker'[c] = WithSuccess(breaker[c]) /\ tally'[c] = Answered
    /\ InFlight(c)' = InFlight(c) \ {o}

Errs(c, o) ==
    /\ o \in InFlight(c) /\ ~ReadyToTrip(WithFailure(breaker[c]))
    /\ breaker'[c] = WithFailure(breaker[c]) /\ tally'[c] = TallyFailure(c)
    /\ InFlight(c)' = InFlight(c) \ {o}

Fate(c) == Same(c) \/ Cleans(c) \/ \E o \in Ops : Takes(c, o) \/ Succeeds(c, o) \/ Errs(c, o)

\* When all requests failed the ratio is reached.
LEMMA AllFailed ==
    ASSUME NEW n \in Nat PROVE Ratio * n <= 100 * n
  <1>1. Ratio \in Nat /\ Ratio <= 100
    BY BreakerAssumption
  <1> QED BY <1>1

\* Whatever happens to a breaker, its books balance, and its counts stay in bounds.
LEMMA BalanceStep ==
    ASSUME NEW c \in Clients, Balance(c), Fate(c),
           breaker[c] \in Breaker, tally[c] \in 0..Answered
    PROVE  Balance(c)' /\ breaker'[c] \in Breaker /\ tally'[c] \in 0..Answered
  <1> USE BreakerAssumption
  <1>0. /\ IsFiniteSet(InFlight(c)) /\ Cardinality(InFlight(c)) \in Nat
        /\ breaker[c].requests = breaker[c].failures + breaker[c].successes
                                                    + Cardinality(InFlight(c))
    BY FS_CardinalityType DEF Balance
  <1>1. CASE Same(c)
    BY <1>1 DEF Same, Balance
  <1>2. CASE Cleans(c)
    <2>1. breaker'[c] \in Breaker /\ tally'[c] \in 0..Answered
      BY <1>2 DEF Cleans, Reset, In, Breaker, Answered
    <2> QED BY <1>2, <2>1, FS_EmptySet DEF Cleans, Reset, In, Balance
  <1>3. ASSUME NEW o \in Ops, Takes(c, o)
        PROVE  Balance(c)' /\ breaker'[c] \in Breaker /\ tally'[c] \in 0..Answered
    <2>1. /\ IsFiniteSet(InFlight(c)')
          /\ Cardinality(InFlight(c)') = Cardinality(InFlight(c)) + 1
      BY <1>0, <1>3, FS_AddElement DEF Takes
    <2>2. breaker'[c] \in Breaker
      BY <1>3 DEF Takes, Admits, Admitted, Breaker
    <2>3. /\ breaker'[c].requests = breaker[c].requests + 1
          /\ breaker'[c].state = breaker[c].state
          /\ breaker'[c].failures = breaker[c].failures
          /\ breaker'[c].successes = breaker[c].successes
      BY <1>3 DEF Takes, Admitted, Breaker
    <2>4. InFlight(c)' # {} /\ tally'[c] = tally[c]
      BY <1>3 DEF Takes
    <2>5. breaker'[c].requests = breaker'[c].failures + breaker'[c].successes
                                                      + Cardinality(InFlight(c)')
      BY <1>0, <2>1, <2>3 DEF Breaker
    <2> QED BY <2>1, <2>2, <2>3, <2>4, <2>5 DEF Balance
  <1>4. ASSUME NEW o \in Ops, Succeeds(c, o)
        PROVE  Balance(c)' /\ breaker'[c] \in Breaker /\ tally'[c] \in 0..Answered
    <2>1. /\ IsFiniteSet(InFlight(c)')
          /\ Cardinality(InFlight(c)') = Cardinality(InFlight(c)) - 1
          /\ Cardinality(InFlight(c)') \in Nat
      BY <1>0, <1>4, FS_RemoveElement, FS_CardinalityType DEF Succeeds
    <2>2. breaker'[c] \in Breaker
      BY <1>0, <1>4, <2>1 DEF Succeeds, WithSuccess, Breaker
    <2>3. tally'[c] \in 0..Answered /\ ~(tally'[c] <= Threshold)
      BY <1>4 DEF Succeeds, Answered
    <2>4. /\ breaker'[c].requests = breaker[c].requests
          /\ breaker'[c].failures = breaker[c].failures
          /\ breaker'[c].successes = breaker[c].successes + 1
      BY <1>4 DEF Succeeds, WithSuccess, Breaker
    <2>5. breaker'[c].requests = breaker'[c].failures + breaker'[c].successes
                                                      + Cardinality(InFlight(c)')
      BY <1>0, <2>1, <2>4 DEF Breaker
    <2> QED BY <2>1, <2>2, <2>3, <2>5 DEF Balance
  <1>5. ASSUME NEW o \in Ops, Errs(c, o)
        PROVE  Balance(c)' /\ breaker'[c] \in Breaker /\ tally'[c] \in 0..Answered
    <2>1. /\ IsFiniteSet(InFlight(c)')
          /\ Cardinality(InFlight(c)') = Cardinality(InFlight(c)) - 1
          /\ Cardinality(InFlight(c)') \in Nat
      BY <1>0, <1>5, FS_RemoveElement, FS_CardinalityType DEF Errs
    <2>2. breaker'[c] \in Breaker
      BY <1>0, <1>5, <2>1 DEF Errs, WithFailure, Breaker
    <2>3. tally'[c] \in 0..Answered
      BY <1>5 DEF Errs, TallyFailure, Answered
    <2>4. /\ breaker'[c].requests = breaker[c].requests
          /\ breaker'[c].state = breaker[c].state
          /\ breaker'[c].failures = breaker[c].failures + 1
          /\ breaker'[c].successes = breaker[c].successes
      BY <1>5 DEF Errs, WithFailure, Breaker
    <2>5. breaker'[c].requests = breaker'[c].failures + breaker'[c].successes
                                                      + Cardinality(InFlight(c)')
      BY <1>0, <2>1, <2>4 DEF Breaker
    <2>6. ASSUME breaker'[c].state = "closed", tally'[c] <= Threshold
          PROVE  /\ breaker'[c].successes = 0
                 /\ IF tally'[c] < Threshold THEN breaker'[c].failures = tally'[c]
                                             ELSE breaker'[c].failures >= Threshold
      BY <1>5, <2>4, <2>6 DEF Errs, TallyFailure, Balance, Breaker, Answered
    <2>7. ASSUME breaker'[c].state = "closed", tally'[c] = Threshold, InFlight(c)' = {}
          PROVE  FALSE
      <3>1. breaker'[c].requests = breaker'[c].failures /\ breaker'[c].failures >= Threshold
            /\ breaker'[c].failures \in Nat
        <4>1. Cardinality(InFlight(c)') = 0
          BY <2>7, FS_EmptySet
        <4> QED BY <2>2, <2>5, <2>6, <2>7, <4>1 DEF Breaker
      <3>2. Ratio * breaker'[c].failures <= 100 * breaker'[c].failures
        BY <3>1, AllFailed
      <3>3. ReadyToTrip(breaker'[c])
        BY <3>1, <3>2 DEF ReadyToTrip
      <3> QED BY <1>5, <3>3 DEF Errs
    <2> QED BY <2>1, <2>2, <2>3, <2>5, <2>6, <2>7 DEF Balance
  <1> QED BY <1>1, <1>2, <1>3, <1>4, <1>5 DEF Fate

-----------------------------------------------------------------------------
(* Which fate each action has for the breakers                             *)

OpRec == [pc : {"idle", "get", "look", "run", "reconnect"}, dev : Devices \cup {None},
          client : Clients \cup {None}, breaker : Clients \cup {None}, counted : BOOLEAN,
          attempt : 0..MaxRetries]

\* p and q differ at most in whether they are counted.
Alike(p, q) == /\ p.pc = q.pc /\ p.dev = q.dev /\ p.client = q.client
               /\ p.breaker = q.breaker /\ p.attempt = q.attempt

\* The breakers are still one for each client.
Framed == /\ breaker' = [c \in Clients |-> breaker'[c]]
          /\ tally' = [c \in Clients |-> tally'[c]]

\* A change of breaker c stops the counting of what is in flight there, or not.
LEMMA ChangeFacts ==
    ASSUME TypeOK, NEW c \in Clients, NEW b, NEW t, NEW ops \in [Ops -> OpRec],
           Change(c, b, t, ops)
    PROVE  /\ op' \in [Ops -> OpRec]
           /\ \A k \in Ops : /\ Alike(op'[k], ops[k])
                             /\ op'[k].counted <=>
                                   ops[k].counted /\ ~(b \in Reset /\ ops[k].breaker = c)
           /\ Framed
           /\ breaker'[c] = b /\ tally'[c] = IF b \in Reset THEN 0 ELSE t
           /\ \A e \in Clients \ {c} : breaker'[e] = breaker[e] /\ tally'[e] = tally[e]
  <1>1. /\ Framed
        /\ breaker'[c] = b /\ tally'[c] = IF b \in Reset THEN 0 ELSE t
        /\ \A e \in Clients \ {c} : breaker'[e] = breaker[e] /\ tally'[e] = tally[e]
    BY DEF Change, Reset, Framed, TypeOK
  <1>2. CASE b \in Reset
    <2>1. op' = [o \in Ops |-> IF ops[o].breaker = c THEN [ops[o] EXCEPT !.counted = FALSE]
                                                     ELSE ops[o]]
      BY <1>2 DEF Change, Reset
    <2>2. op' \in [Ops -> OpRec]
      BY <2>1, ZenonT(30) DEF OpRec
    <2>3. \A k \in Ops : /\ Alike(op'[k], ops[k])
                         /\ op'[k].counted <=> ops[k].counted /\ ops[k].breaker # c
      BY <2>1 DEF Alike, OpRec
    <2> QED BY <1>1, <1>2, <2>2, <2>3
  <1>3. CASE b \notin Reset
    <2>1. op' = ops
      BY <1>3 DEF Change, Reset
    <2> QED BY <1>1, <1>3, <2>1 DEF Alike
  <1> QED BY <1>2, <1>3

\* A reset of breaker c cleans it and leaves the others alone.
LEMMA ResetFate ==
    ASSUME TypeOK, NEW c \in Clients, NEW b \in Reset, NEW t, Change(c, b, t, op)
    PROVE  \A e \in Clients : Fate(e)
  <1>0. op \in [Ops -> OpRec]
    BY DEF TypeOK, OpRec
  <1>1. /\ \A k \in Ops : /\ op'[k].breaker = op[k].breaker
                          /\ op'[k].counted <=> op[k].counted /\ op[k].breaker # c
        /\ breaker'[c] = b /\ tally'[c] = 0
        /\ \A e \in Clients \ {c} : breaker'[e] = breaker[e] /\ tally'[e] = tally[e]
    BY <1>0, ChangeFacts DEF Alike
  <1>2. Cleans(c)
    BY <1>1 DEF Cleans, InFlight
  <1>3. ASSUME NEW e \in Clients, e # c PROVE Same(e)
    BY <1>1, <1>3 DEF Same, InFlight
  <1> QED BY <1>2, <1>3 DEF Fate

\* The end of a request.
LEMMA DoneFate ==
    ASSUME TypeOK, OpInv, NEW o \in Ops, op[o].pc \in {"run", "reconnect"}, NEW b, NEW t,
           Done(o, b, t),
           \/ b = Succeeded(breaker[op[o].breaker]) /\ t = Answered
           \/ b = Failed(breaker[op[o].breaker]) /\ t = TallyFailure(op[o].breaker)
    PROVE  /\ \A e \in Clients : Fate(e)
           /\ Framed
           /\ op' \in [Ops -> OpRec]
           /\ op'[o].pc = "idle" /\ op'[o].breaker = None /\ ~op'[o].counted
           /\ \A k \in Ops \ {o} : /\ Alike(op'[k], op[k])
                                   /\ op'[k].counted => op[k].counted
  <1> DEFINE ops == [op EXCEPT ![o] = Idle]
  <1>0. /\ Idle \in OpRec /\ op \in [Ops -> OpRec]
        /\ Idle.pc = "idle" /\ Idle.breaker = None /\ ~Idle.counted
    BY PoolAssumption DEF TypeOK, OpRec, Idle
  <1>1. /\ ops \in [Ops -> OpRec] /\ ops[o] = Idle
        /\ \A k \in Ops \ {o} : ops[k] = op[k]
    BY <1>0
  <1>2. PICK c \in Clients : c = op[o].breaker
    BY DEF TypeOK, OpInv
  <1>3. CASE ~op[o].counted
    <2>1. op' = ops /\ UNCHANGED breakerVars
      BY <1>3 DEF Done
    <2>2. \A k \in Ops : /\ op'[k].counted <=> op[k].counted
                         /\ op[k].counted => op'[k].breaker = op[k].breaker
      BY <1>0, <1>1, <1>3, <2>1
    <2>3. \A e \in Clients : Same(e)
      BY <2>1, <2>2 DEF Same, InFlight, breakerVars
    <2>4. Framed
      BY <2>1 DEF Framed, TypeOK, breakerVars
    <2> QED BY <1>0, <1>1, <2>1, <2>3, <2>4 DEF Fate, Alike
  <1>4. CASE op[o].counted
    <2>1. Change(c, b, t, ops)
      BY <1>2, <1>4 DEF Done
    <2> HIDE DEF ops
    <2>2. /\ op' \in [Ops -> OpRec]
          /\ \A k \in Ops : /\ Alike(op'[k], ops[k])
                            /\ op'[k].counted <=>
                                  ops[k].counted /\ ~(b \in Reset /\ ops[k].breaker = c)
          /\ Framed
          /\ breaker'[c] = b /\ tally'[c] = IF b \in Reset THEN 0 ELSE t
          /\ \A e \in Clients \ {c} : breaker'[e] = breaker[e] /\ tally'[e] = tally[e]
      BY <1>1, <2>1, ChangeFacts
    <2>3. ASSUME NEW e \in Clients, e # c PROVE Same(e)
      <3>1. \A k \in Ops : op'[k].breaker = e /\ op'[k].counted
                              <=> op[k].breaker = e /\ op[k].counted
        BY <1>0, <1>1, <1>2, <2>2, <2>3 DEF Alike
      <3> QED BY <2>2, <2>3, <3>1 DEF Same, InFlight
    <2>4. CASE b \in Reset
      <3>1. Cleans(c)
        BY <2>2, <2>4 DEF Cleans, InFlight, Alike
      <3> QED BY <1>0, <1>1, <2>2, <2>3, <3>1 DEF Fate, Alike
    <2>5. CASE b \notin Reset
      <3>1. InFlight(c)' = InFlight(c) \ {o} /\ o \in InFlight(c)
        <4>1. \A k \in Ops : op'[k].breaker = c /\ op'[k].counted
                                <=> k # o /\ op[k].breaker = c /\ op[k].counted
          BY <1>0, <1>1, <1>2, <2>2, <2>5 DEF Alike
        <4> QED BY <1>2, <1>4, <4>1 DEF InFlight
      <3>2. Succeeds(c, o) \/ Errs(c, o)
        <4>1. CASE b = Succeeded(breaker[c]) /\ t = Answered
          <5>1. b = WithSuccess(breaker[c])
            BY <2>5, <4>1 DEF Succeeded, WithSuccess, Reset
          <5> QED BY <2>2, <2>5, <3>1, <4>1, <5>1 DEF Succeeds
        <4>2. CASE b = Failed(breaker[c]) /\ t = TallyFailure(c)
          <5>1. b = WithFailure(breaker[c]) /\ ~ReadyToTrip(WithFailure(breaker[c]))
            BY <2>5, <4>2 DEF Failed, WithFailure, Reset
          <5> QED BY <2>2, <2>5, <3>1, <4>2, <5>1 DEF Errs
        <4> QED BY <1>2, <4>1, <4>2
      <3> QED BY <1>0, <1>1, <2>2, <2>3, <3>2 DEF Fate, Alike
    <2> QED BY <2>4, <2>5
  <1> QED BY <1>3, <1>4

\* Most steps change no breaker and nothing an operation is counted by.
LEMMA QuietFate ==
    ASSUME TypeOK, UNCHANGED breakerVars,
           \A k \in Ops : /\ op'[k].counted <=> op[k].counted
                          /\ op[k].counted => op'[k].breaker = op[k].breaker
    PROVE  Framed /\ \A c \in Clients : Fate(c)
  <1>1. Framed
    BY DEF Framed, TypeOK, breakerVars
  <1>2. \A c \in Clients : Same(c)
    BY DEF Same, InFlight, breakerVars
  <1> QED BY <1>1, <1>2 DEF Fate

\* A new client has a new breaker, and nobody is counted there yet.
LEMMA CreateFate ==
    ASSUME TypeOK, OpInv, NEW o \in Ops, op[o].pc = "get", NEW c \in Free, Create(o, c)
    PROVE  Framed /\ \A e \in Clients : Fate(e)
  <1>1. c \in Clients /\ \A k \in Ops : op[k].breaker # c
    BY DEF Free
  <1>2. \A k \in Ops : op'[k].counted = op[k].counted /\ op'[k].breaker = op[k].breaker
    BY DEF Create, Got, TypeOK
  <1>3. Framed
    BY DEF Create, Framed, TypeOK
  <1>4. Cleans(c)
    BY <1>1, <1>2 DEF Create, Cleans, InFlight, Reset, NewBreaker, TypeOK
  <1>5. ASSUME NEW e \in Clients, e # c PROVE Same(e)
    BY <1>1, <1>2, <1>5 DEF Create, Same, InFlight, TypeOK
  <1> QED BY <1>3, <1>4, <1>5 DEF Fate

\* An operation that is admitted is counted from now on.
LEMMA AdmitFate ==
    ASSUME TypeOK, OpInv, NEW o \in Ops, Admit(o)
    PROVE  Framed /\ \A e \in Clients : Fate(e)
  <1>1. PICK c \in Clients : c = Current(o)
    BY DEF Admit, Current, TypeOK, OpInv
  <1>2. Framed
    BY DEF Admit, Framed, TypeOK
  <1>3. /\ \A k \in Ops \ {o} : op'[k] = op[k]
        /\ op'[o].breaker = c /\ op'[o].counted /\ ~op[o].counted
    BY <1>1 DEF Admit, TypeOK, OpInv
  <1>4. Takes(c, o)
    <2>1. \A k \in Ops : op'[k].breaker = c /\ op'[k].counted
                            <=> k = o \/ (op[k].breaker = c /\ op[k].counted)
      BY <1>3
    <2>2. InFlight(c)' = InFlight(c) \cup {o} /\ o \notin InFlight(c)
      BY <1>3, <2>1 DEF InFlight
    <2> QED BY <1>1, <2>2 DEF Admit, Takes, TypeOK
  <1>5. ASSUME NEW e \in Clients, e # c PROVE Same(e)
    <2>1. InFlight(e)' = InFlight(e)
      BY <1>3, <1>5 DEF InFlight
    <2> QED BY <1>1, <1>5, <2>1 DEF Admit, Same, TypeOK
  <1> QED BY <1>2, <1>4, <1>5 DEF Fate

\* Every step is of a kind that keeps the books.
LEMMA FateStep == IInv /\ [Next]_vars => Framed /\ \A c \in Clients : Fate(c)
  <1> SUFFICES ASSUME IInv, [Next]_vars PROVE Framed /\ \A c \in Clients : Fate(c)
    OBVIOUS
  <1> DEFINE Kept == Framed /\ \A c \in Clients : Fate(c)
  <1>0. TypeOK /\ OpInv
    BY DEF IInv
  <1>1. ASSUME UNCHANGED <<breakerVars, op>> PROVE Kept
    BY <1>0, <1>1, QuietFate DEF breakerVars
  <1>2. ASSUME NEW o \in Ops,
               \/ \E d \in Devices : GetClient(o, d)
               \/ GetConnected(o) \/ GetReconnected(o) \/ GetFails(o) \/ Refuse(o)
               \/ WriteDisconnects(o)
        PROVE  Kept
    <2>1. UNCHANGED breakerVars
      BY <1>2 DEF GetClient, GetConnected, GetReconnected, GetFails, Refuse, WriteDisconnects
    <2>2. \A k \in Ops : /\ op'[k].counted <=> op[k].counted
                         /\ op[k].counted => op'[k].breaker = op[k].breaker
      <3>1. \A k \in Ops \ {o} : op'[k] = op[k]
        BY <1>0, <1>2 DEF TypeOK, GetClient, GetConnected, GetReconnected, GetFails, Refuse,
                          WriteDisconnects, Return, Got
      <3>2. CASE \E d \in Devices : GetClient(o, d)
        BY <1>0, <3>1, <3>2 DEF GetClient, Idle, TypeOK, OpInv
      <3>3. CASE GetConnected(o) \/ GetReconnected(o) \/ WriteDisconnects(o)
        <4>1. CASE Got(o, Current(o))
          BY <1>0, <3>1, <4>1 DEF Got, TypeOK
        <4>2. CASE WriteDisconnects(o)
          BY <1>0, <3>1, <4>2 DEF WriteDisconnects, TypeOK
        <4> QED BY <3>3, <4>1, <4>2 DEF GetConnected, GetReconnected
      <3>4. CASE GetFails(o) \/ Refuse(o)
        BY <1>0, <3>1, <3>4 DEF GetFails, Refuse, Getting, Return, Idle, TypeOK, OpInv
      <3> QED BY <1>2, <3>2, <3>3, <3>4
    <2> QED BY <1>0, <2>1, <2>2, QuietFate
  <1>3. ASSUME NEW o \in Ops, GetCreated(o) PROVE Kept
    BY <1>0, <1>3, CreateFate DEF GetCreated, Getting
  <1>4. ASSUME NEW o \in Ops, Admit(o) PROVE Kept
    BY <1>0, <1>4, AdmitFate
  <1>5. ASSUME NEW o \in Ops, Succeed(o) \/ ReadFails(o) \/ WriteFails(o) PROVE Kept
    BY <1>0, <1>5, DoneFate DEF Succeed, ReadFails, WriteFails
  <1>6. ASSUME NEW o \in Ops, WriteReconnects(o) PROVE Kept
    <2>1. CASE op[o].attempt < MaxRetries
      <3>1. /\ op' = [op EXCEPT ![o].pc = "run", ![o].attempt = @ + 1]
            /\ UNCHANGED breakerVars
        BY <1>6, <2>1 DEF WriteReconnects
      <3>2. \A k \in Ops : op'[k].counted = op[k].counted /\ op'[k].breaker = op[k].breaker
        BY <1>0, <3>1 DEF TypeOK
      <3> QED BY <1>0, <3>1, <3>2, QuietFate
    <2>2. CASE ~(op[o].attempt < MaxRetries)
      BY <1>0, <1>6, <2>2, DoneFate DEF WriteReconnects
    <2> QED BY <2>1, <2>2
  <1>7. ASSUME NEW c \in Clients, NEW b \in Reset, NEW t, Change(c, b, t, op) PROVE Kept
    <2>1. op \in [Ops -> OpRec]
      BY <1>0 DEF TypeOK, OpRec
    <2> QED BY <1>0, <1>7, <2>1, ResetFate, ChangeFacts
  <1>8. ASSUME NEW c \in Clients, Reap(c) \/ RemoveClient(c) PROVE Kept
    BY <1>7, <1>8 DEF Reap, RemoveClient, Drop, NewBreaker, Reset
  <1>9. ASSUME NEW c \in Clients, BreakerTime(c) PROVE Kept
    <2>1. Cleared(breaker[c]) \in Reset
      BY <1>0, <1>9 DEF BreakerTime, Cleared, Reset, TypeOK, Breaker
    <2> QED BY <1>7, <1>9, <2>1 DEF BreakerTime
  <1>10. ASSUME NEW c \in Clients, CheckLook(c) \/ TimePasses(c) PROVE Kept
    BY <1>1, <1>10 DEF CheckLook, TimePasses
  <1>11. CASE Checks \/ Close \/ CloseDone
    BY <1>1, <1>11 DEF Checks, CheckLock, CheckConnect, CheckEnds, Close, CloseDone
  <1>12. ASSUME NEW d \in Used, NetworkDown(d) \/ NetworkUp(d) PROVE Kept
    BY <1>1, <1>12 DEF NetworkDown, NetworkUp
  <1>13. CASE UNCHANGED vars
    BY <1>1, <1>13 DEF vars
  <1> QED
    BY <1>2, <1>3, <1>4, <1>5, <1>6, <1>8, <1>9, <1>10, <1>11, <1>12, <1>13 DEF Next, Steps

-----------------------------------------------------------------------------
(* Operations                                                              *)

\* Operations keep their types and go through their steps in order, p.mu in hand
\* while they get their client.
LEMMA OpStep == IInv /\ [Next]_vars => op' \in [Ops -> OpRec] /\ OpInv'
  <1> SUFFICES ASSUME IInv, [Next]_vars PROVE op' \in [Ops -> OpRec] /\ OpInv'
    OBVIOUS
  <1> DEFINE Kept == op' \in [Ops -> OpRec] /\ OpInv'
  <1>0. /\ TypeOK /\ OpInv /\ op \in [Ops -> OpRec] /\ Idle \in OpRec
        /\ Idle.pc = "idle" /\ Idle.breaker = None /\ ~Idle.counted
    BY PoolAssumption DEF IInv, TypeOK, OpRec, Idle
  <1>1. ASSUME UNCHANGED <<op, mu, closed>> PROVE Kept
    BY <1>0, <1>1 DEF OpInv
  <1>2. ASSUME NEW o \in Ops, NEW d \in Devices, GetClient(o, d) PROVE Kept
    <2>1. op' \in [Ops -> OpRec]
      BY <1>0, <1>2 DEF GetClient, OpRec
    <2>2. OpInv'
      BY <1>0, <1>2, PoolAssumption DEF GetClient, OpInv, poolVars, OpRec, Ops
    <2> QED BY <2>1, <2>2
  <1>3. ASSUME NEW o \in Ops, NEW c \in Clients, op[o].pc = "get", mu' = None, Got(o, c),
               UNCHANGED closed
        PROVE  Kept
    <2>1. op' \in [Ops -> OpRec]
      <3>1. [op[o] EXCEPT !.pc = "look", !.client = c] \in OpRec
        BY <1>0 DEF OpRec
      <3> QED BY <1>0, <1>3, <3>1 DEF Got
    <2>2. \A k \in Ops \ {o} : op[k].pc # "get"
      BY <1>0, <1>3 DEF OpInv
    <2>3. OpInv'
      BY <1>0, <1>3, <2>2, PoolAssumption DEF Got, OpInv, OpRec
    <2> QED BY <2>1, <2>3
  <1>4. ASSUME NEW o \in Ops, GetConnected(o) \/ GetReconnected(o) PROVE Kept
    <2>1. PICK c \in Clients : c = Current(o)
      BY <1>0, <1>4 DEF GetConnected, GetReconnected, Getting, Current, TypeOK, OpInv
    <2> QED BY <1>3, <1>4, <2>1 DEF GetConnected, GetReconnected, Getting, poolVars
  <1>5. ASSUME NEW o \in Ops, GetCreated(o) PROVE Kept
    <2>1. PICK c \in Clients : Create(o, c)
      BY <1>5 DEF GetCreated, Free
    <2> QED BY <1>3, <1>5, <2>1 DEF GetCreated, Getting, Create
  <1>6. ASSUME NEW o \in Ops, GetFails(o) PROVE Kept
    <2>1. \A k \in Ops \ {o} : op[k].pc # "get"
      BY <1>0, <1>6 DEF GetFails, Getting, OpInv
    <2> QED BY <1>0, <1>6, <2>1 DEF GetFails, Getting, Return, OpInv, poolVars
  <1>7. ASSUME NEW o \in Ops, Refuse(o) PROVE Kept
    BY <1>0, <1>7 DEF Refuse, Return, OpInv, poolVars
  <1>8. ASSUME NEW o \in Ops, Admit(o) PROVE Kept
    <2>1. PICK c \in Clients : c = Current(o)
      BY <1>0, <1>8 DEF Admit, Current, TypeOK, OpInv
    <2>2. op' \in [Ops -> OpRec]
      <3>1. [op[o] EXCEPT !.pc = "run", !.breaker = c, !.counted = TRUE] \in OpRec
        BY <1>0 DEF OpRec
      <3> QED BY <1>0, <1>8, <2>1, <3>1 DEF Admit
    <2>3. OpInv'
      BY <1>0, <1>8, <2>1, PoolAssumption DEF Admit, OpInv, OpRec, poolVars
    <2> QED BY <2>2, <2>3
  <1>9. ASSUME NEW o \in Ops, NEW b, NEW t, op[o].pc \in {"run", "reconnect"}, Done(o, b, t),
               \/ b = Succeeded(breaker[op[o].breaker]) /\ t = Answered
               \/ b = Failed(breaker[op[o].breaker]) /\ t = TallyFailure(op[o].breaker),
               UNCHANGED <<mu, closed>>
        PROVE  Kept
    <2>1. /\ op' \in [Ops -> OpRec]
          /\ op'[o].pc = "idle" /\ op'[o].breaker = None /\ ~op'[o].counted
          /\ \A k \in Ops \ {o} : /\ Alike(op'[k], op[k])
                                  /\ op'[k].counted => op[k].counted
      BY <1>0, <1>9, DoneFate
    <2>2. OpInv'
      BY <1>0, <1>9, <2>1 DEF OpInv, Alike
    <2> QED BY <2>1, <2>2
  <1>10. ASSUME NEW o \in Ops, Succeed(o) \/ ReadFails(o) \/ WriteFails(o) PROVE Kept
    <2>1. op[o].pc \in {"run", "reconnect"} /\ UNCHANGED <<mu, closed>>
      BY <1>10 DEF Succeed, ReadFails, WriteFails, poolVars
    <2> QED BY <1>9, <1>10, <2>1 DEF Succeed, ReadFails, WriteFails
  <1>11. ASSUME NEW o \in Ops, WriteDisconnects(o) PROVE Kept
    <2>1. op' \in [Ops -> OpRec]
      BY <1>0, <1>11 DEF WriteDisconnects, OpRec
    <2> QED BY <1>0, <1>11, <2>1 DEF WriteDisconnects, OpInv, OpRec, poolVars
  <1>12. ASSUME NEW o \in Ops, WriteReconnects(o) PROVE Kept
    <2>0. op[o].pc \in {"run", "reconnect"} /\ UNCHANGED <<mu, closed>>
      BY <1>12 DEF WriteReconnects, poolVars
    <2>1. CASE op[o].attempt < MaxRetries
      <3>1. op' = [op EXCEPT ![o].pc = "run", ![o].attempt = @ + 1]
        BY <1>12, <2>1 DEF WriteReconnects
      <3>2. op' \in [Ops -> OpRec]
        <4>1. op[o] \in OpRec /\ op[o].attempt \in 0..MaxRetries
          BY <1>0 DEF OpRec
        <4>2. op[o].attempt + 1 \in 0..MaxRetries
          BY <2>1, <4>1, PoolAssumption
        <4> QED BY <1>0, <3>1, <4>1, <4>2 DEF OpRec
      <3> QED BY <1>0, <1>12, <2>0, <3>1, <3>2 DEF WriteReconnects, OpInv, OpRec
    <2>2. CASE ~(op[o].attempt < MaxRetries)
      <3>1. Done(o, Failed(breaker[op[o].breaker]), TallyFailure(op[o].breaker))
        BY <1>12, <2>2 DEF WriteReconnects
      <3> QED BY <1>9, <2>0, <3>1
    <2> QED BY <2>1, <2>2
  <1>13. ASSUME NEW c \in Clients, NEW b, NEW t, Change(c, b, t, op), UNCHANGED <<mu, closed>>
         PROVE  Kept
    <2>1. /\ op' \in [Ops -> OpRec]
          /\ \A k \in Ops : Alike(op'[k], op[k]) /\ (op'[k].counted => op[k].counted)
      BY <1>0, <1>13, ChangeFacts
    <2> QED BY <1>0, <1>13, <2>1 DEF OpInv, Alike
  <1>14. ASSUME NEW c \in Clients, Reap(c) \/ RemoveClient(c) \/ BreakerTime(c) PROVE Kept
    BY <1>13, <1>14 DEF Reap, RemoveClient, Drop, BreakerTime, poolVars
  <1>15. ASSUME NEW c \in Clients, CheckLook(c) \/ TimePasses(c) PROVE Kept
    BY <1>1, <1>15 DEF CheckLook, TimePasses, poolVars
  <1>16. CASE Checks
    BY <1>1, <1>16 DEF Checks, CheckLock, CheckConnect, CheckEnds, poolVars
  <1>17. CASE Close \/ CloseDone
    <2>1. \A k \in Ops : op[k].pc # "get" /\ (k \in Commands => op[k].pc = "idle")
      BY <1>0, <1>17, PoolAssumption DEF Close, CloseDone, OpInv, Ops
    <2> QED BY <1>0, <1>17, <2>1 DEF Close, CloseDone, OpInv
  <1>18. ASSUME NEW d \in Used, NetworkDown(d) \/ NetworkUp(d) PROVE Kept
    BY <1>1, <1>18 DEF NetworkDown, NetworkUp, poolVars
  <1>19. CASE UNCHANGED vars
    BY <1>1, <1>19 DEF vars, poolVars
  <1> QED
    BY <1>2, <1>4, <1>5, <1>6, <1>7, <1>8, <1>10, <1>11, <1>12, <1>14, <1>15, <1>16, <1>17,
       <1>18, <1>19 DEF Next, Steps

-----------------------------------------------------------------------------
(* The map and the links                                                   *)

Links == {c \in Clients : connected(c)}

\* The types of the variables that are neither of operations nor of breakers.
PoolTypes ==
    /\ clients \in [Devices -> Clients \cup {None}]
    /\ owner \in [Clients -> Devices \cup {None}]
    /\ closed \in {"open", "closing", "closed"}
    /\ mu \in Ops \cup {None}
    /\ link \in [Clients -> {"off", "up", "broken"}]
    /\ network \subseteq Devices
    /\ check \in [at : {"wait", "look", "connect", "off"}, client : Clients \cup {None}]
    /\ stale \subseteq Clients

\* What a step may do to the map, the links and closed.
LinksMove ==
    /\ clients' = clients /\ closed' = closed
    /\ \/ Links' = Links
       \/ \E c \in Clients : closed # "closed" /\ Links' = Links \cup {c}
       \/ \E c \in Clients : Links' = Links \ {c}

TakesOut(d) ==
    /\ clients' = [e \in Devices |-> IF clients[e] = clients[d] THEN None ELSE clients[e]]
    /\ link' = [link EXCEPT ![clients[d]] = "off"]
    /\ closed' = closed

PutsIn(d, c) ==
    /\ clients' = [clients EXCEPT ![d] = c]
    /\ link' = [link EXCEPT ![c] = "up"]
    /\ closed = "open" /\ closed' = closed
    /\ Cardinality(Held) < MaxConnections

\* A client that connects is one link more, if any.
LEMMA ConnectsFacts ==
    ASSUME TypeOK, NEW c \in Clients, Connects(c)
    PROVE  /\ Links' = Links \cup {c}
           /\ link' \in [Clients -> {"off", "up", "broken"}] /\ stale' \subseteq Clients
  BY DEF Connects, Links, connected, TypeOK

\* Every step keeps the types of the pool; it moves a link or none, takes one entry
\* out of the map, adds one for a device that has none, or is one of Close.
LEMMA MapStep ==
    ASSUME IInv, [Next]_vars
    PROVE  /\ PoolTypes'
           /\ \/ LinksMove
              \/ \E d \in Held : TakesOut(d)
              \/ \E d \in Devices \ Held, c \in Clients \ Pooled : PutsIn(d, c)
              \/ Close \/ CloseDone
  <1>0. TypeOK /\ PoolTypes /\ OpInv /\ LoopInv /\ workload \in Workloads
    BY DEF IInv, TypeOK, PoolTypes
  <1>1. ASSUME UNCHANGED <<clients, owner, closed, link>>,
               mu' \in Ops \cup {None}, network' \subseteq Devices, stale' \subseteq Clients,
               check' \in [at : {"wait", "look", "connect", "off"},
                           client : Clients \cup {None}]
        PROVE  PoolTypes' /\ LinksMove
    BY <1>0, <1>1 DEF PoolTypes, LinksMove, Links, connected
  <1>2. ASSUME NEW c \in Clients, Connects(c), UNCHANGED <<clients, owner, closed>>,
               closed # "closed", mu' \in Ops \cup {None}, network' = network,
               check' \in [at : {"wait", "look", "connect", "off"},
                           client : Clients \cup {None}]
        PROVE  PoolTypes' /\ LinksMove
    <2>1. /\ Links' = Links \cup {c}
          /\ link' \in [Clients -> {"off", "up", "broken"}] /\ stale' \subseteq Clients
      BY <1>0, <1>2, ConnectsFacts
    <2> QED BY <1>0, <1>2, <2>1 DEF PoolTypes, LinksMove
  <1>3. ASSUME NEW o \in Ops,
               \/ \E d \in Devices : GetClient(o, d)
               \/ GetConnected(o) \/ GetFails(o) \/ Admit(o) \/ Refuse(o)
               \/ Succeed(o) \/ ReadFails(o) \/ WriteFails(o)
        PROVE  PoolTypes' /\ LinksMove
    <2>1. /\ UNCHANGED <<clients, owner, closed, link, network, check>>
          /\ mu' \in {mu, o, None} /\ stale' \subseteq stale
      BY <1>3 DEF GetClient, GetConnected, GetFails, Getting, Admit, Refuse, Succeed,
                  ReadFails, WriteFails, poolVars
    <2> QED BY <1>0, <1>1, <2>1 DEF PoolTypes
  <1>4. ASSUME NEW o \in Ops, GetReconnected(o) PROVE PoolTypes' /\ LinksMove
    <2>1. Current(o) \in Clients /\ closed # "closed"
      BY <1>0, <1>4 DEF GetReconnected, Getting, Current, OpInv, PoolTypes
    <2> QED BY <1>0, <1>2, <1>4, <2>1 DEF GetReconnected, Getting, PoolTypes, poolVars
  <1>5. ASSUME NEW o \in Ops, GetCreated(o)
        PROVE  /\ PoolTypes'
               /\ \E d \in Devices \ Held, c \in Clients \ Pooled : PutsIn(d, c)
    <2>1. PICK c \in Clients \ Pooled : Create(o, c)
      BY <1>5 DEF GetCreated, Free
    <2>2. PICK d \in Devices : d = op[o].dev
      BY <1>0, <1>5 DEF GetCreated, Getting, OpInv
    <2>3. d \notin Held /\ closed = "open"
      BY <1>0, <1>5, <2>2 DEF GetCreated, Getting, Current, OpInv, Held
    <2>4. PutsIn(d, c)
      BY <1>5, <2>1, <2>2, <2>3 DEF GetCreated, Create, Connects, PutsIn
    <2>5. link' \in [Clients -> {"off", "up", "broken"}] /\ stale' \subseteq Clients
      BY <1>0, <2>1, ConnectsFacts DEF Create
    <2>6. PoolTypes'
      <3>1. clients' = [clients EXCEPT ![d] = c] /\ owner' = [owner EXCEPT ![c] = d]
        BY <2>1, <2>2 DEF Create
      <3>2. /\ clients' \in [Devices -> Clients \cup {None}]
            /\ owner' \in [Clients -> Devices \cup {None}]
        BY <1>0, <3>1 DEF PoolTypes
      <3>3. mu' = None /\ UNCHANGED <<closed, network, check>>
        BY <1>5, <2>1 DEF GetCreated, Getting, Create
      <3> QED BY <1>0, <2>5, <3>2, <3>3 DEF PoolTypes
    <2> QED BY <2>3, <2>4, <2>6
  <1>6. ASSUME NEW o \in Ops, WriteDisconnects(o) PROVE PoolTypes' /\ LinksMove
    <2>1. PICK c \in Clients : c = op[o].client
      BY <1>0, <1>6 DEF WriteDisconnects, OpInv, TypeOK
    <2>2. Links' = Links \ {c} /\ link' \in [Clients -> {"off", "up", "broken"}]
      BY <1>0, <1>6, <2>1 DEF WriteDisconnects, Links, connected, PoolTypes
    <2> QED BY <1>0, <1>6, <2>2 DEF WriteDisconnects, PoolTypes, LinksMove, poolVars
  <1>7. ASSUME NEW o \in Ops, WriteReconnects(o) PROVE PoolTypes' /\ LinksMove
    <2>1. op[o].client \in Clients /\ closed # "closed"
      BY <1>0, <1>7 DEF WriteReconnects, OpInv, TypeOK
    <2>2. Connects(op[o].client) \/ UNCHANGED <<link, stale>>
      BY <1>7 DEF WriteReconnects
    <2>3. UNCHANGED <<clients, owner, closed, mu, network, check>>
      BY <1>7 DEF WriteReconnects, poolVars
    <2> QED BY <1>0, <1>1, <1>2, <2>1, <2>2, <2>3 DEF PoolTypes
  <1>8. ASSUME NEW c \in Clients, CheckLook(c) \/ TimePasses(c) \/ BreakerTime(c)
        PROVE  PoolTypes' /\ LinksMove
    BY <1>0, <1>1, <1>8 DEF CheckLook, TimePasses, BreakerTime, PoolTypes, poolVars
  <1>9. ASSUME NEW c \in Clients, Reap(c) \/ RemoveClient(c)
        PROVE  PoolTypes' /\ \E d \in Held : TakesOut(d)
    <2>1. Drop(c) /\ c \in Pooled
      BY <1>9 DEF Reap, RemoveClient
    <2>2. PICK d \in Devices : clients[d] = c /\ clients[d] # None
      BY <2>1 DEF Pooled
    <2>3. TakesOut(d) /\ d \in Held
      BY <2>1, <2>2 DEF Drop, TakesOut, Held
    <2>4. PoolTypes'
      BY <1>0, <2>1 DEF Drop, PoolTypes
    <2> QED BY <2>3, <2>4
  <1>10. CASE CheckLock \/ CheckEnds
    <2>1. check' \in [at : {"wait", "look", "connect", "off"}, client : Clients \cup {None}]
      BY <1>0, <1>10 DEF CheckLock, CheckEnds, PoolTypes
    <2> QED BY <1>0, <1>1, <1>10, <2>1 DEF CheckLock, CheckEnds, PoolTypes, poolVars
  <1>11. CASE CheckConnect
    <2>1. check.client \in Clients /\ closed # "closed"
      BY <1>0, <1>11 DEF CheckConnect, LoopInv, PoolTypes
    <2>2. check' \in [at : {"wait", "look", "connect", "off"}, client : Clients \cup {None}]
      BY <1>11 DEF CheckConnect
    <2>3. Connects(check.client) \/ UNCHANGED <<link, stale>>
      BY <1>11 DEF CheckConnect
    <2>4. UNCHANGED <<clients, owner, closed, mu, network>>
      BY <1>11 DEF CheckConnect, poolVars
    <2> QED BY <1>0, <1>1, <1>2, <2>1, <2>2, <2>3, <2>4 DEF PoolTypes
  <1>12. CASE Close \/ CloseDone
    BY <1>0, <1>12 DEF Close, CloseDone, PoolTypes
  <1>13. ASSUME NEW d \in Used, NetworkDown(d) PROVE PoolTypes' /\ LinksMove
    <2>1. Links' = Links
      BY <1>13 DEF NetworkDown, Links, connected
    <2> QED BY <1>0, <1>13, <2>1 DEF NetworkDown, PoolTypes, LinksMove, poolVars
  <1>14. ASSUME NEW d \in Used, NetworkUp(d) PROVE PoolTypes' /\ LinksMove
    <2>1. d \in Devices
      BY <1>0, PoolAssumption DEF Used
    <2> QED BY <1>0, <1>1, <1>14, <2>1 DEF NetworkUp, PoolTypes, poolVars
  <1>15. CASE UNCHANGED vars
    BY <1>0, <1>1, <1>15 DEF vars, PoolTypes, poolVars
  <1> QED
    BY <1>3, <1>4, <1>5, <1>6, <1>7, <1>8, <1>9, <1>10, <1>11, <1>12, <1>13, <1>14, <1>15
       DEF Next, Steps, Checks

\* Where an entry was taken out: one device less, and the others keep theirs.
LEMMA TakesOutFacts ==
    ASSUME TypeOK, Distinct, IsFiniteSet(Held), NEW d \in Held, TakesOut(d)
    PROVE  /\ Held' = Held \ {d} /\ Distinct'
           /\ IsFiniteSet(Held') /\ Cardinality(Held') <= Cardinality(Held)
           /\ Links' \in SUBSET Links
  <1>1. d \in Devices /\ clients[d] \in Clients /\ clients[d] # None
    BY DEF Held, TypeOK
  <1>2. \A k \in Devices : clients'[k] = IF k = d THEN None ELSE clients[k]
    BY <1>1 DEF TakesOut, Distinct
  <1>3. Held' = Held \ {d} /\ Distinct'
    BY <1>2 DEF Held, Distinct
  <1>4. IsFiniteSet(Held \ {d}) /\ Cardinality(Held \ {d}) <= Cardinality(Held)
    <2>1. /\ IsFiniteSet(Held \ {d}) /\ Cardinality(Held) \in Nat
          /\ Cardinality(Held \ {d}) = Cardinality(Held) - 1
      BY FS_RemoveElement, FS_CardinalityType
    <2> QED BY <2>1
  <1>5. Links' \in SUBSET Links
    BY <1>1 DEF TakesOut, Links, connected, TypeOK
  <1> QED BY <1>3, <1>4, <1>5

\* Where one was put in there was room.
LEMMA PutsInFacts ==
    ASSUME TypeOK, Distinct, IsFiniteSet(Held),
           NEW d \in Devices \ Held, NEW c \in Clients \ Pooled, PutsIn(d, c)
    PROVE  /\ Held' = Held \cup {d} /\ Distinct'
           /\ IsFiniteSet(Held') /\ Cardinality(Held') <= MaxConnections
           /\ Links' = Links \cup {c}
  <1>1. clients[d] = None /\ (\A k \in Devices : clients[k] # c) /\ c # None
    BY PoolAssumption DEF Held, Pooled
  <1>2. \A k \in Devices : clients'[k] = IF k = d THEN c ELSE clients[k]
    BY DEF PutsIn, TypeOK
  <1>3. Held' = Held \cup {d} /\ Distinct'
    BY <1>1, <1>2 DEF Held, Distinct
  <1>4. /\ IsFiniteSet(Held \cup {d}) /\ Cardinality(Held) \in Nat
        /\ Cardinality(Held \cup {d}) = Cardinality(Held) + 1
    BY FS_AddElement, FS_CardinalityType
  <1>5. Cardinality(Held \cup {d}) <= MaxConnections
    BY <1>4, PoolAssumption DEF PutsIn
  <1>6. Links' = Links \cup {c}
    BY DEF PutsIn, Links, connected, TypeOK
  <1> QED BY <1>3, <1>4, <1>5, <1>6

\* The map keeps one client per device and its capacity.
LEMMA CapacityStep ==
    IInv /\ [Next]_vars =>
        Distinct' /\ IsFiniteSet(Held') /\ Cardinality(Held') <= MaxConnections
  <1> SUFFICES ASSUME IInv, [Next]_vars
               PROVE  Distinct' /\ IsFiniteSet(Held') /\ Cardinality(Held') <= MaxConnections
    OBVIOUS
  <1>0. /\ TypeOK /\ Distinct /\ IsFiniteSet(Held) /\ Cardinality(Held) <= MaxConnections
        /\ MaxConnections \in Nat
    BY PoolAssumption DEF IInv, TypeOK
  <1>1. CASE LinksMove \/ Close
    BY <1>0, <1>1 DEF LinksMove, Close, Distinct, Held
  <1>2. ASSUME NEW d \in Held, TakesOut(d)
        PROVE  Distinct' /\ IsFiniteSet(Held') /\ Cardinality(Held') <= MaxConnections
    BY <1>0, <1>2, TakesOutFacts, FS_CardinalityType
  <1>3. ASSUME NEW d \in Devices \ Held, NEW c \in Clients \ Pooled, PutsIn(d, c)
        PROVE  Distinct' /\ IsFiniteSet(Held') /\ Cardinality(Held') <= MaxConnections
    BY <1>0, <1>3, PutsInFacts
  <1>4. CASE CloseDone
    <2>1. \A k \in Devices : clients'[k] = None
      BY <1>4 DEF CloseDone
    <2>2. Held' = {}
      BY <2>1 DEF Held
    <2> QED BY <1>0, <2>1, <2>2, FS_EmptySet DEF Distinct
  <1> QED BY <1>1, <1>2, <1>3, <1>4, MapStep

\* Nothing starts the health check again once the pool is closed.
LEMMA LoopStep == IInv /\ [Next]_vars => LoopInv' /\ workload' \in Workloads
  <1> SUFFICES ASSUME IInv, [Next]_vars PROVE LoopInv' /\ workload' \in Workloads
    OBVIOUS
  <1>0. LoopInv /\ workload \in Workloads /\ TypeOK
    BY DEF IInv
  <1>1. ASSUME NEW o \in Ops, Steps(o) \/ \E d \in Devices : GetClient(o, d)
        PROVE  UNCHANGED <<workload, closed, check>>
    BY <1>1 DEF Steps, GetClient, GetConnected, GetReconnected, GetCreated, Create, GetFails,
                Admit, Refuse, Succeed, ReadFails, WriteFails, WriteDisconnects,
                WriteReconnects, poolVars
  <1>2. ASSUME NEW c \in Clients, Reap(c) \/ RemoveClient(c) \/ TimePasses(c) \/ BreakerTime(c)
        PROVE  UNCHANGED <<workload, closed, check>>
    BY <1>2 DEF Reap, RemoveClient, Drop, TimePasses, BreakerTime, poolVars
  <1>3. ASSUME NEW c \in Clients, CheckLook(c) PROVE LoopInv' /\ workload' \in Workloads
    BY <1>0, <1>3, PoolAssumption DEF CheckLook, LoopInv, poolVars
  <1>4. CASE CheckLock
    BY <1>0, <1>4 DEF CheckLock, LoopInv, poolVars, TypeOK
  <1>5. CASE CheckConnect \/ CheckEnds
    BY <1>0, <1>5 DEF CheckConnect, CheckEnds, LoopInv, poolVars, TypeOK
  <1>6. CASE Close \/ CloseDone
    BY <1>0, <1>6 DEF Close, CloseDone, LoopInv
  <1>7. ASSUME NEW d \in Used, NetworkDown(d) \/ NetworkUp(d)
        PROVE  UNCHANGED <<workload, closed, check>>
    BY <1>7 DEF NetworkDown, NetworkUp, poolVars
  <1>8. CASE UNCHANGED vars
    BY <1>0, <1>8 DEF LoopInv, vars, poolVars
  <1> QED BY <1>0, <1>1, <1>2, <1>3, <1>4, <1>5, <1>6, <1>7, <1>8 DEF Next, Checks, LoopInv

\* The invariant holds initially.
LEMMA InitIInv == Init => IInv
  <1> SUFFICES ASSUME Init PROVE IInv
    OBVIOUS
  <1>1. Held = {} /\ \A c \in Clients : InFlight(c) = {}
    BY DEF Init, Held, InFlight, Idle
  <1>2. NewBreaker \in Breaker /\ 0 \in 0..Answered
    BY BreakerAssumption DEF NewBreaker, In, Breaker, Answered
  <1>3. network \subseteq Devices
    BY PoolAssumption DEF Init, Used
  <1>4. Idle \in OpRec
    BY PoolAssumption DEF Idle, OpRec
  <1>5. Cardinality(Held) <= MaxConnections /\ IsFiniteSet(Held)
    BY <1>1, FS_EmptySet, PoolAssumption
  <1>6. TypeOK
    BY <1>2, <1>3, <1>4, <1>5 DEF Init, TypeOK, OpRec
  <1>7. \A c \in Clients : Balance(c)
    BY <1>1, FS_EmptySet, BreakerAssumption DEF Init, Balance, NewBreaker, In
  <1>8. OpInv
    BY DEF Init, OpInv, Idle
  <1> QED BY <1>5, <1>6, <1>7, <1>8 DEF Init, IInv, Distinct, LoopInv

-----------------------------------------------------------------------------
(* Theorems                                                                *)

\* The inductive invariant.
THEOREM Invariant == Spec => []IInv
  <1>1. ASSUME IInv, [Next]_vars PROVE IInv'
    <2>1. TypeOK /\ \A c \in Clients : Balance(c)
      BY <1>1 DEF IInv
    <2>2. \A c \in Clients : Balance(c)' /\ breaker'[c] \in Breaker /\ tally'[c] \in 0..Answered
      BY <1>1, <2>1, FateStep, BalanceStep DEF TypeOK
    <2>3. breaker' \in [Clients -> Breaker] /\ tally' \in [Clients -> 0..Answered]
      BY <1>1, <2>2, FateStep DEF Framed
    <2>4. /\ Distinct' /\ IsFiniteSet(Held') /\ Cardinality(Held') <= MaxConnections
          /\ LoopInv' /\ workload' \in Workloads
          /\ op' \in [Ops -> OpRec] /\ OpInv'
          /\ PoolTypes'
      BY <1>1, CapacityStep, LoopStep, OpStep, MapStep
    <2>5. TypeOK'
      BY <2>3, <2>4 DEF TypeOK, PoolTypes, OpRec
    <2> QED BY <2>2, <2>4, <2>5 DEF IInv
  <1> QED BY <1>1, InitIInv, PTL DEF Spec

\* Every variable of the Modbus pool keeps its type, and the map its capacity.
THEOREM TypeCorrect == Spec => []TypeOK
  <1>1. IInv => TypeOK
    BY DEF IInv
  <1> QED BY <1>1, Invariant, PTL

\* A breaker that was told of Threshold errors and of nothing else is not closed
\* once it waits for no request.
THEOREM BreakerTripsHolds == Spec => []BreakerTrips
  <1>1. IInv => BreakerTrips
    <2> SUFFICES ASSUME IInv, NEW c \in Pooled, tally[c] = Threshold,
                        ~(\E o \in Ops : op[o].breaker = c /\ op[o].counted)
                 PROVE  breaker[c].state # "closed"
      BY DEF BreakerTrips
    <2>1. c \in Clients
      BY DEF IInv, TypeOK, Pooled
    <2>2. Balance(c) /\ InFlight(c) = {}
      BY <2>1 DEF IInv, InFlight
    <2> QED BY <2>2 DEF Balance
  <1> QED BY <1>1, Invariant, PTL

\* DevicePool counts as this module does.
LEMMA SameCardinality ==
    ASSUME NEW S PROVE Pool!Cardinality(S) = Cardinality(S)
  BY SMT DEF Cardinality, Pool!Cardinality

\* The Modbus pool is a DevicePool: each step takes an entry out, puts one in where
\* there is room, moves a link before the pool is closed, closes it, or changes
\* nothing a caller of the pool relies on.
THEOREM Refinement == Spec => ImplementsDevicePool
  <1>1. Init => Pool!Init
    BY DEF Init, Pool!Init, Held, connected
  <1>2. ASSUME IInv, [Next]_vars PROVE [Pool!Next]_(Pool!vars)
    <2>0. TypeOK /\ Distinct /\ IsFiniteSet(Held)
      BY <1>2 DEF IInv
    <2>1. CASE LinksMove
      <3>1. Held' = Held
        BY <2>1 DEF LinksMove, Held
      <3> QED BY <2>1, <3>1 DEF LinksMove, Links, Pool!Next, Pool!vars, Pool!Connect,
                                Pool!Disconnect
    <2>2. ASSUME NEW d \in Held, TakesOut(d) PROVE Pool!Next
      <3>1. d \in Devices /\ Held' = Held \ {d} /\ Links' \in SUBSET Links
        BY <2>0, <2>2, TakesOutFacts DEF Held
      <3> QED BY <2>2, <3>1 DEF TakesOut, Links, Pool!Next, Pool!Remove
    <2>3. ASSUME NEW d \in Devices \ Held, NEW c \in Clients \ Pooled, PutsIn(d, c)
          PROVE  Pool!Next
      <3>1. Held' = Held \cup {d} /\ Links' = Links \cup {c}
        BY <2>0, <2>3, PutsInFacts
      <3>2. Pool!Add(d, c)
        <4>1. \E k \in SUBSET Held : Cardinality(k) < MaxConnections /\ Held' = k \cup {d}
          BY <2>3, <3>1 DEF PutsIn
        <4>2. \E l \in SUBSET Links : Links' = l \cup {c}
          BY <3>1
        <4>3. closed = "open" /\ d \notin Held /\ closed' = closed
          BY <2>3 DEF PutsIn
        <4> QED BY <4>1, <4>2, <4>3, SameCardinality DEF Links, Pool!Add
      <3> QED BY <3>2 DEF Pool!Next
    <2>4. CASE Close
      BY <2>4 DEF Close, Held, connected, Pool!Next, Pool!Close
    <2>5. CASE CloseDone
      <3>1. Held' = {}
        BY <2>5 DEF CloseDone, Held
      <3>2. Links' \in SUBSET Links
        BY <2>5 DEF CloseDone, Links, connected
      <3> QED BY <2>5, <3>1, <3>2 DEF CloseDone, Links, Pool!Next, Pool!Closed
    <2> QED BY <1>2, <2>1, <2>2, <2>3, <2>4, <2>5, MapStep
  <1> QED BY <1>1, <1>2, Invariant, PTL DEF Spec, ImplementsDevicePool, Pool!Spec
=============================================================================
