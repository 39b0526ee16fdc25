------------------------- MODULE MqttPublisherProofs -------------------------
(***************************************************************************)
(* The types of MqttPublisher, and that it implements LossyDelivery, for   *)
(* any producers, any size of the buffer and any number of messages,       *)
(* losses of the link and connections.                                     *)
(*                                                                         *)
(* The heart is PlaceInv: a message is in one place only.  Without it a    *)
(* step that settles a message in one place might leave it pending in      *)
(* another.  SentInv says that whatever is known of a message, it was      *)
(* passed to Publish before, so that the next one is new.                  *)
(***************************************************************************)
EXTENDS MqttPublisher, TLAPS

Occurs(s, m) == \E i \in 1..Len(s) : s[i] = m
Distinct(s) == \A i, j \in 1..Len(s) : s[i] = s[j] => i = j

-----------------------------------------------------------------------------
(* Sequences                                                               *)

\* What occurs in a sequence after a send on a channel.
LEMMA AppendOccurs ==
    ASSUME NEW S, NEW s \in Seq(S), NEW e \in S
    PROVE  /\ Append(s, e) \in Seq(S) /\ Len(Append(s, e)) = Len(s) + 1
           /\ \A m : Occurs(Append(s, e), m) <=> Occurs(s, m) \/ m = e
  <1>1. /\ Len(s) \in Nat /\ Len(Append(s, e)) = Len(s) + 1
        /\ \A i \in 1..Len(s) : Append(s, e)[i] = s[i]
        /\ Append(s, e)[Len(s) + 1] = e
    OBVIOUS
  <1>2. ASSUME NEW m, Occurs(Append(s, e), m) PROVE Occurs(s, m) \/ m = e
    <2>1. PICK i \in 1..(Len(s) + 1) : Append(s, e)[i] = m
      BY <1>1, <1>2 DEF Occurs
    <2>2. i \in 1..Len(s) \/ i = Len(s) + 1
      BY <1>1
    <2> QED  BY <1>1, <2>1, <2>2 DEF Occurs
  <1>3. ASSUME NEW m, Occurs(s, m) PROVE Occurs(Append(s, e), m)
    <2>1. PICK i \in 1..Len(s) : s[i] = m
      BY <1>3 DEF Occurs
    <2>2. i \in 1..Len(Append(s, e)) /\ Append(s, e)[i] = m
      BY <1>1, <2>1
    <2> QED  BY <2>2 DEF Occurs
  <1>4. Occurs(Append(s, e), e)
    BY <1>1 DEF Occurs
  <1> QED  BY <1>1, <1>2, <1>3, <1>4

\* A send of a message that is not in the channel leaves its messages distinct.
LEMMA AppendDistinct ==
    ASSUME NEW S, NEW s \in Seq(S), NEW e \in S, Distinct(s), ~Occurs(s, e)
    PROVE  Distinct(Append(s, e))
  <1>1. /\ Len(s) \in Nat /\ Len(Append(s, e)) = Len(s) + 1
        /\ \A i \in 1..Len(s) : Append(s, e)[i] = s[i]
        /\ Append(s, e)[Len(s) + 1] = e
    OBVIOUS
  <1>2. \A i \in 1..Len(s) : s[i] # e
    BY DEF Occurs
  <1>3. SUFFICES ASSUME NEW i \in 1..(Len(s) + 1), NEW j \in 1..(Len(s) + 1),
                        Append(s, e)[i] = Append(s, e)[j]
                 PROVE  i = j
    BY <1>1 DEF Distinct
  <1>4. /\ i \in 1..Len(s) \/ i = Len(s) + 1
        /\ j \in 1..Len(s) \/ j = Len(s) + 1
    BY <1>1
  <1> QED  BY <1>1, <1>2, <1>3, <1>4 DEF Distinct

\* What occurs in a sequence after a receive from a channel.
LEMMA TailOccurs ==
    ASSUME NEW S, NEW s \in Seq(S), s # <<>>, Distinct(s)
    PROVE  /\ Head(s) \in S /\ Occurs(s, Head(s))
           /\ Tail(s) \in Seq(S) /\ Len(Tail(s)) = Len(s) - 1 /\ Distinct(Tail(s))
           /\ \A m : Occurs(Tail(s), m) <=> Occurs(s, m) /\ m # Head(s)
  <1>1. /\ Len(s) \in Nat \ {0} /\ Head(s) = s[1] /\ Head(s) \in S
        /\ Tail(s) \in Seq(S) /\ Len(Tail(s)) = Len(s) - 1
        /\ \A i \in 1..(Len(s) - 1) : Tail(s)[i] = s[i + 1]
    OBVIOUS
  <1>2. Occurs(s, Head(s))
    BY <1>1 DEF Occurs
  <1>3. Distinct(Tail(s))
    <2>1. SUFFICES ASSUME NEW i \in 1..(Len(s) - 1), NEW j \in 1..(Len(s) - 1),
                          Tail(s)[i] = Tail(s)[j]
                   PROVE  i = j
      BY <1>1 DEF Distinct
    <2>2. i + 1 \in 1..Len(s) /\ j + 1 \in 1..Len(s) /\ s[i + 1] = s[j + 1]
      BY <1>1, <2>1
    <2>3. i + 1 = j + 1
      BY <2>2 DEF Distinct
    <2> QED  BY <2>3
  <1>4. ASSUME NEW m, Occurs(Tail(s), m) PROVE Occurs(s, m) /\ m # Head(s)
    <2>1. PICK i \in 1..(Len(s) - 1) : Tail(s)[i] = m
      BY <1>1, <1>4 DEF Occurs
    <2>2. i + 1 \in 1..Len(s) /\ s[i + 1] = m /\ 1 \in 1..Len(s) /\ i + 1 # 1
      BY <1>1, <2>1
    <2>3. s[1] # m
      BY <2>2 DEF Distinct
    <2> QED  BY <1>1, <2>2, <2>3 DEF Occurs
  <1>5. ASSUME NEW m, Occurs(s, m), m # Head(s) PROVE Occurs(Tail(s), m)
    <2>1. PICK i \in 1..Len(s) : s[i] = m
      BY <1>5 DEF Occurs
    <2>2. i - 1 \in 1..(Len(s) - 1) /\ Tail(s)[i - 1] = m
      BY <1>1, <1>5, <2>1
    <2> QED  BY <1>1, <2>2 DEF Occurs
  <1> QED  BY <1>1, <1>2, <1>3, <1>4, <1>5

\* The message processBuffer publishes is the next one at the broker.
LEMMA ConcatOne ==
    ASSUME NEW S, NEW s \in Seq(S), NEW e \in S
    PROVE  s \o <<e>> = Append(s, e) /\ <<e>>[1] = e
  OBVIOUS

-----------------------------------------------------------------------------
(* The inductive invariant                                                 *)

\* A producer inside Publish has a message.
HandInv == \A r \in Producers : pc[r] # "idle" => sent[r] >= 1

Holding == bufPc \in {"publish", "rebuffer", "drainpublish"}

\* processBuffer holds a message exactly where it is about to do something with it.
HeldInv ==
    /\ Holding => \E m \in Message : held = <<m>>
    /\ ~Holding => held = <<>>

\* processBuffer runs between Connect and Disconnect only.
PhaseInv == phase \in {"off", "connecting"} => bufPc = "off"

\* A message is in one place only, and once there.
PlaceInv ==
    /\ Distinct(messageBuffer)
    /\ \A m \in Message : InHand(m) => ~InBuffer(m) /\ ~InProcess(m)
    /\ \A m \in Message : InBuffer(m) => ~InProcess(m)

Known(m) == InBuffer(m) \/ InProcess(m) \/ m \in lost \/ Occurs(delivered, m)

\* What is known of was passed to Publish.
SentInv == \A m \in Message : Known(m) => m[2] <= sent[m[1]]

IInv == TypeOK /\ HandInv /\ HeldInv /\ PhaseInv /\ PlaceInv /\ SentInv

\* InBuffer and Arrived in terms of Occurs.
LEMMA OccursIs ==
    /\ \A m : InBuffer(m) <=> Occurs(messageBuffer, m)
    /\ \A m : InBuffer(m)' <=> Occurs(messageBuffer', m)
  BY DEF InBuffer, Occurs

\* The messages at the broker, likewise.
LEMMA ArrivedIs ==
    ASSUME TypeOK
    PROVE  \A m : m \in Delivery!Arrived <=> Occurs(delivered, m)
  <1>1. DOMAIN delivered = 1..Len(delivered)
    BY DEF TypeOK
  <1> QED  BY <1>1 DEF Delivery!Arrived, Occurs

-----------------------------------------------------------------------------
(* Initial states                                                          *)

\* Nothing is anywhere at first.
LEMMA InitIInv == Init => IInv
  <1>1. SUFFICES ASSUME Init PROVE IInv
    OBVIOUS
  <1>2. TypeOK
    <2>1. /\ callbacks \in Seq({"connect", "lost"})
          /\ messageBuffer \in Seq(Message) /\ Len(messageBuffer) <= BufferSize
          /\ held \in Seq(Message) /\ Len(held) <= 1
          /\ delivered \in Seq(Message)
      BY <1>1, PublisherAssumption DEF Init
    <2>2. connected \in BOOLEAN
      BY <1>1 DEF Init
    <2>3. losses \in 0..MaxLosses /\ connects \in 0..MaxConnects
      BY <1>1, PublisherAssumption DEF Init
    <2>4. sent \in [Producers -> 0..MaxMsgs]
      BY <1>1, PublisherAssumption DEF Init
    <2>5. /\ pc \in [Producers -> {"idle", "raw", "buffer", "evict", "resend"}]
          /\ lost \subseteq Message
      BY <1>1 DEF Init
    <2>6. /\ link \in {"off", "up", "down"}
          /\ phase \in {"off", "connecting", "ready", "closing"}
          /\ bufPc \in {"off", "select", "publish", "rebuffer", "backoff", "drain",
                        "drainpublish"}
      BY <1>1 DEF Init
    <2> QED  BY <2>1, <2>2, <2>3, <2>4, <2>5, <2>6 DEF TypeOK
  <1>3. /\ \A m : ~Occurs(messageBuffer, m)
        /\ \A m : ~Occurs(delivered, m)
        /\ Distinct(messageBuffer)
    BY <1>1 DEF Init, Occurs, Distinct
  <1>4. \A m : ~InProcess(m)
    <2>1. \A m : <<>> # <<m>>
      OBVIOUS
    <2> QED  BY <1>1, <2>1 DEF Init, InProcess
  <1>5. HandInv /\ HeldInv /\ PhaseInv
    BY <1>1 DEF Init, HandInv, HeldInv, Holding, PhaseInv
  <1>6. PlaceInv
    BY <1>3, <1>4, OccursIs DEF PlaceInv
  <1>7. SentInv
    BY <1>1, <1>3, <1>4, OccursIs DEF SentInv, Known, Init
  <1> QED  BY <1>2, <1>5, <1>6, <1>7 DEF IInv

\* The initial states map to the initial state of LossyDelivery.
LEMMA InitImplements == Init => Delivery!Init
  <1>1. SUFFICES ASSUME Init PROVE Delivery!Init
    OBVIOUS
  <1>2. ASSUME NEW m \in Message PROVE m \notin Pending
    <2>1. ~InBuffer(m)
      BY <1>1 DEF Init, InBuffer
    <2>2. ~InProcess(m)
      BY <1>1 DEF Init, InProcess
    <2>3. ~InHand(m)
      BY <1>1, <1>2 DEF Init, InHand, Message
    <2> QED  BY <2>1, <2>2, <2>3 DEF Pending
  <1>3. Pending = {}
    BY <1>2 DEF Pending
  <1> QED  BY <1>1, <1>3 DEF Init, Delivery!Init

-----------------------------------------------------------------------------
(* Where messages go                                                       *)

OnePlace(m) ==
    /\ InHand(m) => ~InBuffer(m) /\ ~InProcess(m)
    /\ InBuffer(m) => ~InProcess(m)

\* A step leaves message m where it is.
Stays(m) ==
    /\ InHand(m)' <=> InHand(m)
    /\ InBuffer(m)' <=> InBuffer(m)
    /\ InProcess(m)' <=> InProcess(m)
    /\ m \in lost' <=> m \in lost
    /\ Occurs(delivered', m) <=> Occurs(delivered, m)

\* A step that concerns one message x only keeps the invariant if x is in one place
\* afterwards; other messages are pending if they were.
LEMMA Moved ==
    ASSUME IInv, NEW x \in Message, \A m \in Message : m # x => Stays(m),
           OnePlace(x)', Distinct(messageBuffer)',
           sent' = sent, x[2] <= sent[x[1]]
    PROVE  /\ PlaceInv' /\ SentInv'
           /\ x \notin Pending' => Pending' = Pending \ {x}
           /\ x \in Pending /\ x \in Pending' => Pending' = Pending
  <1>1. \A m \in Message : m # x => OnePlace(m)' /\ (m \in Pending' <=> m \in Pending)
                                 /\ (Known(m)' => Known(m))
    BY DEF IInv, PlaceInv, OnePlace, Stays, Pending, Known
  <1>2. PlaceInv'
    BY <1>1 DEF PlaceInv, OnePlace
  <1>3. SentInv'
    BY <1>1 DEF IInv, SentInv
  <1>4. Pending \subseteq Message /\ Pending' \subseteq Message
    BY DEF Pending
  <1> QED  BY <1>1, <1>2, <1>3, <1>4

\* A step that moves no message.
LEMMA Unmoved ==
    ASSUME IInv, \A m \in Message : Stays(m), UNCHANGED <<messageBuffer, delivered, lost, sent>>
    PROVE  PlaceInv' /\ SentInv' /\ UNCHANGED Delivery!vars
  <1>1. \A m \in Message : OnePlace(m)' /\ (m \in Pending' <=> m \in Pending)
                           /\ (Known(m)' => Known(m))
    BY DEF IInv, PlaceInv, OnePlace, Stays, Pending, Known
  <1>2. Pending' = Pending
    BY <1>1 DEF Pending
  <1>3. PlaceInv'
    BY <1>1 DEF IInv, PlaceInv, OnePlace, Distinct
  <1>4. SentInv'
    BY <1>1 DEF IInv, SentInv
  <1> QED  BY <1>2, <1>3, <1>4 DEF Delivery!vars

\* The message of a producer inside Publish, and what its return changes.
LEMMA HandOver ==
    ASSUME IInv, NEW r \in Producers, pc[r] # "idle"
    PROVE  /\ Current(r) \in Message /\ InHand(Current(r)) /\ Current(r) \in Pending
           /\ Current(r)[2] <= sent[Current(r)[1]]
           /\ Return(r) /\ sent' = sent =>
                 \A m \in Message : InHand(m)' <=> InHand(m) /\ m # Current(r)
  <1>1. sent[r] \in 1..MaxMsgs
    BY PublisherAssumption DEF IInv, TypeOK, HandInv
  <1>2. Current(r) \in Message /\ Current(r)[1] = r /\ Current(r)[2] = sent[r]
    BY <1>1 DEF Current, Message
  <1>3. InHand(Current(r))
    BY <1>2 DEF InHand
  <1>4. ASSUME Return(r), sent' = sent, NEW m \in Message
        PROVE  InHand(m)' <=> InHand(m) /\ m # Current(r)
    <2>1. m = <<m[1], m[2]>> /\ m[1] \in Producers
      BY DEF Message
    <2>2. CASE m[1] = r
      BY <1>4, <2>1, <2>2 DEF IInv, TypeOK, Return, InHand, Current
    <2>3. CASE m[1] # r
      BY <1>2, <1>4, <2>1, <2>3 DEF IInv, TypeOK, Return, InHand
    <2> QED  BY <2>2, <2>3
  <1>5. Current(r) \in Pending
    BY <1>2, <1>3 DEF Pending
  <1>6. Current(r)[2] <= sent[Current(r)[1]]
    BY <1>1, <1>2
  <1> QED  BY <1>2, <1>3, <1>4, <1>5, <1>6

\* The message in the hands of processBuffer.
LEMMA HeldMessage ==
    ASSUME IInv, Holding
    PROVE  \E m \in Message :
              /\ held = <<m>> /\ held[1] = m /\ InProcess(m) /\ m \in Pending
              /\ m[2] <= sent[m[1]]
              /\ \A k \in Message : InProcess(k) => k = m
  <1>1. PICK m \in Message : held = <<m>>
    BY DEF IInv, HeldInv
  <1>2. held[1] = m /\ InProcess(m) /\ \A k \in Message : InProcess(k) => k = m
    BY <1>1 DEF InProcess
  <1>3. m \in Pending /\ m[2] <= sent[m[1]]
    BY <1>2 DEF IInv, Pending, SentInv, Known
  <1> QED  BY <1>1, <1>2, <1>3

\* The first message of the buffer.
LEMMA HeadMessage ==
    ASSUME IInv, messageBuffer # <<>>
    PROVE  /\ Head(messageBuffer) \in Message /\ InBuffer(Head(messageBuffer))
           /\ Head(messageBuffer) \in Pending
           /\ Head(messageBuffer)[2] <= sent[Head(messageBuffer)[1]]
           /\ Tail(messageBuffer) \in Seq(Message) /\ Distinct(Tail(messageBuffer))
           /\ Len(Tail(messageBuffer)) <= BufferSize
           /\ \A m : Occurs(Tail(messageBuffer), m)
                        <=> InBuffer(m) /\ m # Head(messageBuffer)
  <1>1. messageBuffer \in Seq(Message) /\ Distinct(messageBuffer)
        /\ Len(messageBuffer) \in Nat /\ Len(messageBuffer) <= BufferSize
    BY DEF IInv, TypeOK, PlaceInv
  <1>2. /\ Head(messageBuffer) \in Message /\ Occurs(messageBuffer, Head(messageBuffer))
        /\ Tail(messageBuffer) \in Seq(Message) /\ Distinct(Tail(messageBuffer))
        /\ Len(Tail(messageBuffer)) = Len(messageBuffer) - 1
        /\ \A m : Occurs(Tail(messageBuffer), m)
                     <=> Occurs(messageBuffer, m) /\ m # Head(messageBuffer)
    BY <1>1, TailOccurs
  <1>3. InBuffer(Head(messageBuffer))
    BY <1>2, OccursIs
  <1>4. /\ Head(messageBuffer) \in Pending
        /\ Head(messageBuffer)[2] <= sent[Head(messageBuffer)[1]]
    BY <1>2, <1>3 DEF IInv, Pending, SentInv, Known
  <1>5. Len(Tail(messageBuffer)) <= BufferSize
    BY <1>1, <1>2, PublisherAssumption
  <1> QED  BY <1>2, <1>3, <1>4, <1>5, OccursIs

\* A send on the buffer, which has room.
LEMMA SendMessage ==
    ASSUME IInv, NEW x \in Message, ~InBuffer(x), Len(messageBuffer) < BufferSize
    PROVE  /\ Append(messageBuffer, x) \in Seq(Message)
           /\ Len(Append(messageBuffer, x)) <= BufferSize
           /\ Distinct(Append(messageBuffer, x))
           /\ \A m : Occurs(Append(messageBuffer, x), m) <=> InBuffer(m) \/ m = x
  <1>1. messageBuffer \in Seq(Message) /\ Distinct(messageBuffer)
        /\ Len(messageBuffer) \in Nat
    BY DEF IInv, TypeOK, PlaceInv
  <1>2. /\ Append(messageBuffer, x) \in Seq(Message)
        /\ Len(Append(messageBuffer, x)) = Len(messageBuffer) + 1
        /\ \A m : Occurs(Append(messageBuffer, x), m) <=> Occurs(messageBuffer, m) \/ m = x
    BY <1>1, AppendOccurs
  <1>3. Distinct(Append(messageBuffer, x))
    BY <1>1, AppendDistinct, OccursIs
  <1>4. Len(Append(messageBuffer, x)) <= BufferSize
    BY <1>1, <1>2, PublisherAssumption
  <1> QED  BY <1>2, <1>3, <1>4, OccursIs

\* An arrival at the broker.
LEMMA Arrival ==
    ASSUME IInv, NEW x \in Message
    PROVE  /\ Append(delivered, x) \in Seq(Message)
           /\ \A m : Occurs(Append(delivered, x), m) <=> Occurs(delivered, m) \/ m = x
  BY AppendOccurs DEF IInv, TypeOK

-----------------------------------------------------------------------------
(* The steps                                                               *)

\* A step of the client, of Connect and Disconnect, or of processBuffer that does not
\* concern messages.
Quiet == \/ LinkUp \/ LinkLost \/ Callback
         \/ Connect \/ ConnectDone \/ Disconnect \/ DisconnectDone
         \/ BackoffOver \/ DoneSeen \/ DrainDone

\* Such a step is a stutter of LossyDelivery.
LEMMA QuietStep == IInv /\ Quiet => IInv' /\ UNCHANGED Delivery!vars
  <1>1. SUFFICES ASSUME IInv, Quiet PROVE IInv' /\ UNCHANGED Delivery!vars
    OBVIOUS
  <1>2. UNCHANGED <<messageBuffer, pc, sent, held, delivered, lost>>
    BY <1>1 DEF Quiet, LinkUp, LinkLost, Callback, Connect, ConnectDone, Disconnect,
                DisconnectDone, BackoffOver, DoneSeen, DrainDone, prodVars, procVars
  <1>3. PlaceInv' /\ SentInv' /\ UNCHANGED Delivery!vars
    <2>1. \A m \in Message : Stays(m)
      BY <1>2 DEF Stays, InHand, InBuffer, InProcess
    <2> QED  BY <1>1, <1>2, <2>1, Unmoved
  <1>4. HandInv'
    BY <1>1, <1>2 DEF IInv, HandInv
  <1>5. HeldInv' /\ PhaseInv'
    BY <1>1, <1>2 DEF IInv, TypeOK, HeldInv, Holding, PhaseInv, Quiet, LinkUp, LinkLost,
          Callback, Connect, ConnectDone, Disconnect, DisconnectDone, BackoffOver,
          DoneSeen, DrainDone, procVars, connVars
  <1>6. TypeOK'
    <2>1. /\ messageBuffer' \in Seq(Message) /\ Len(messageBuffer') <= BufferSize
          /\ held' \in Seq(Message) /\ Len(held') <= 1 /\ delivered' \in Seq(Message)
          /\ lost' \subseteq Message /\ sent' \in [Producers -> 0..MaxMsgs]
          /\ pc' \in [Producers -> {"idle", "raw", "buffer", "evict", "resend"}]
      BY <1>1, <1>2 DEF IInv, TypeOK
    <2>2. connected' \in BOOLEAN
      BY <1>1 DEF IInv, TypeOK, Quiet, LinkUp, LinkLost, Callback, Connect, ConnectDone,
            Disconnect, DisconnectDone, BackoffOver, DoneSeen, DrainDone
    <2>3. callbacks' \in Seq({"connect", "lost"})
      <3>1. \/ \E c \in {"connect", "lost"} : callbacks' = Append(callbacks, c)
            \/ callbacks # <<>> /\ callbacks' = Tail(callbacks)
            \/ callbacks' = callbacks
        BY <1>1 DEF Quiet, LinkUp, LinkLost, Callback, Connect, ConnectDone, Disconnect,
              DisconnectDone, BackoffOver, DoneSeen, DrainDone, linkVars
      <3>2. callbacks \in Seq({"connect", "lost"})
        BY <1>1 DEF IInv, TypeOK
      <3> QED  BY <3>1, <3>2
    <2>4. /\ link' \in {"off", "up", "down"}
          /\ phase' \in {"off", "connecting", "ready", "closing"}
          /\ bufPc' \in {"off", "select", "publish", "rebuffer", "backoff", "drain",
                         "drainpublish"}
      BY <1>1 DEF IInv, TypeOK, Quiet, LinkUp, LinkLost, Callback, Connect, ConnectDone,
            Disconnect, DisconnectDone, BackoffOver, DoneSeen, DrainDone, linkVars,
            connVars, procVars
    <2>5. losses' \in 0..MaxLosses /\ connects' \in 0..MaxConnects
      BY <1>1, PublisherAssumption DEF IInv, TypeOK, Quiet, LinkUp, LinkLost, Callback,
            Connect, ConnectDone, Disconnect, DisconnectDone, BackoffOver, DoneSeen,
            DrainDone, linkVars, connVars
    <2> QED  BY <2>1, <2>2, <2>3, <2>4, <2>5 DEF TypeOK
  <1> QED  BY <1>3, <1>4, <1>5, <1>6 DEF IInv

\* What no step of a producer or with a message touches.
Still == UNCHANGED <<linkVars, connected, connVars>>

\* The parts of the invariant a step of a producer has to be asked for, if it is not
\* that of its message.
LEMMA ProducerKeeps ==
    ASSUME IInv, Still, UNCHANGED procVars, NEW r \in Producers,
           NEW q \in {"idle", "raw", "buffer", "evict", "resend"},
           pc' = [pc EXCEPT ![r] = q], sent' = sent, pc[r] # "idle",
           messageBuffer' \in Seq(Message), Len(messageBuffer') <= BufferSize,
           delivered' \in Seq(Message), lost' \subseteq Message
    PROVE  TypeOK' /\ HandInv' /\ HeldInv' /\ PhaseInv'
  <1>1. TypeOK'
    BY DEF IInv, TypeOK, Still, linkVars, connVars, procVars
  <1>2. HandInv'
    BY DEF IInv, TypeOK, HandInv
  <1>3. HeldInv' /\ PhaseInv'
    BY DEF IInv, HeldInv, Holding, PhaseInv, Still, connVars, procVars
  <1> QED  BY <1>1, <1>2, <1>3

\* Publish accepts a message, the next of its producer.
LEMMA PublishStep ==
    ASSUME IInv, NEW r \in Producers, Publish(r)
    PROVE  IInv' /\ Delivery!Next
  <1> DEFINE x == <<r, sent[r] + 1>>
  <1>1. sent[r] \in Nat /\ sent[r] + 1 \in 1..MaxMsgs
    BY PublisherAssumption DEF IInv, TypeOK, Publish
  <1>2. x \in Message /\ x[1] = r /\ x[2] = sent[r] + 1
    BY <1>1 DEF Message
  <1>3. UNCHANGED <<linkVars, connected, connVars, messageBuffer, procVars, delivered, lost>>
    BY DEF Publish
  <1>4. sent' = [sent EXCEPT ![r] = sent[r] + 1]
    BY DEF Publish
  <1>5. \E q \in {"raw", "buffer"} : pc' = [pc EXCEPT ![r] = q]
    BY DEF Publish
  <1>6. ~Known(x)
    BY <1>1, <1>2 DEF IInv, SentInv
  <1>7. \A m \in Message : /\ InBuffer(m)' <=> InBuffer(m)
                           /\ InProcess(m)' <=> InProcess(m)
                           /\ Known(m)' <=> Known(m)
    BY <1>3 DEF InBuffer, InProcess, Known, Occurs, procVars
  <1>8. ASSUME NEW m \in Message PROVE InHand(m)' <=> InHand(m) \/ m = x
    <2>1. m = <<m[1], m[2]>> /\ m[1] \in Producers
      BY DEF Message
    <2>2. CASE m[1] = r
      <3>1. ~InHand(m)
        BY <2>2 DEF InHand, Publish
      <3>2. pc'[r] # "idle" /\ sent'[r] = sent[r] + 1
        BY <1>4, <1>5 DEF IInv, TypeOK
      <3> QED  BY <1>2, <2>1, <2>2, <3>1, <3>2 DEF InHand
    <2>3. CASE m[1] # r
      <3>1. pc'[m[1]] = pc[m[1]] /\ sent'[m[1]] = sent[m[1]]
        BY <1>4, <1>5, <2>1, <2>3 DEF IInv, TypeOK
      <3> QED  BY <1>2, <2>3, <3>1 DEF InHand
    <2> QED  BY <2>2, <2>3
  <1>9. TypeOK'
    BY <1>1, <1>3, <1>4, <1>5 DEF IInv, TypeOK, linkVars, connVars, procVars
  <1>10. HandInv'
    BY <1>1, <1>4, <1>5 DEF IInv, TypeOK, HandInv
  <1>11. HeldInv' /\ PhaseInv'
    BY <1>3 DEF IInv, HeldInv, Holding, PhaseInv, connVars, procVars
  <1>12. PlaceInv'
    <2>1. Distinct(messageBuffer)'
      BY <1>3 DEF IInv, PlaceInv, Distinct
    <2>2. ~InBuffer(x) /\ ~InProcess(x)
      BY <1>6 DEF Known
    <2> QED  BY <1>7, <1>8, <2>1, <2>2 DEF IInv, PlaceInv
  <1>13. SentInv'
    <2>1. ASSUME NEW m \in Message PROVE sent[m[1]] \in Nat /\ sent[m[1]] <= sent'[m[1]]
                                        /\ sent'[m[1]] \in Nat /\ m[2] \in Nat
      BY <1>1, <1>4, PublisherAssumption DEF IInv, TypeOK, Message
    <2> QED  BY <1>7, <2>1 DEF IInv, SentInv
  <1>14. Delivery!Accept(x)
    <2>1. x \notin Pending
      <3>1. ~InHand(x)
        BY <1>2 DEF InHand, Publish
      <3> QED  BY <1>6, <3>1 DEF Pending, Known
    <2>2. x \notin lost /\ x \notin Delivery!Arrived
      BY <1>6, ArrivedIs DEF Known, IInv
    <2>3. Pending' = Pending \cup {x}
      BY <1>2, <1>7, <1>8 DEF Pending
    <2> QED  BY <1>3, <2>1, <2>2, <2>3 DEF Delivery!Accept
  <1>15. Delivery!Next
    BY <1>2, <1>14 DEF Delivery!Next
  <1> QED  BY <1>9, <1>10, <1>11, <1>12, <1>13, <1>15 DEF IInv

\* publishRaw ends, or the second send finds no room: the message leaves the hands of
\* its producer for good.
LEMMA SettleStep ==
    ASSUME IInv, NEW r \in Producers, PublishOk(r) \/ PublishFails(r) \/ ResendFull(r)
    PROVE  IInv' /\ Delivery!Next
  <1>1. pc[r] # "idle" /\ Return(r) /\ Still
        /\ UNCHANGED <<messageBuffer, sent, bufPc, held>>
    BY DEF PublishOk, PublishFails, ResendFull, Still, procVars
  <1>2. PICK x \in Message :
            /\ x = Current(r) /\ InHand(x) /\ x \in Pending /\ x[2] <= sent[x[1]]
            /\ \A m \in Message : InHand(m)' <=> InHand(m) /\ m # x
    BY <1>1, HandOver
  <1>3. /\ delivered' \in {delivered, Append(delivered, x)}
        /\ lost' \in {lost, lost \cup {x}}
    BY <1>2 DEF PublishOk, PublishFails, ResendFull
  <1>4. \A m \in Message : (InBuffer(m)' <=> InBuffer(m)) /\ (InProcess(m)' <=> InProcess(m))
    BY <1>1 DEF InBuffer, InProcess
  <1>5. /\ delivered' \in Seq(Message)
        /\ \A m : m # x => (Occurs(delivered', m) <=> Occurs(delivered, m))
    BY <1>2, <1>3, Arrival DEF IInv, TypeOK
  <1>6. TypeOK' /\ HandInv' /\ HeldInv' /\ PhaseInv'
    <2>1. /\ pc' = [pc EXCEPT ![r] = "idle"] /\ sent' = sent /\ UNCHANGED procVars
          /\ messageBuffer' \in Seq(Message) /\ Len(messageBuffer') <= BufferSize
          /\ lost' \subseteq Message
      BY <1>1, <1>2, <1>3 DEF IInv, TypeOK, Return, procVars
    <2> QED  BY <1>1, <1>5, <2>1, ProducerKeeps
  <1>7. \A m \in Message : m # x => Stays(m)
    BY <1>2, <1>3, <1>4, <1>5 DEF Stays
  <1>8. ~InBuffer(x)' /\ ~InProcess(x)' /\ ~InHand(x)'
    BY <1>2, <1>4 DEF IInv, PlaceInv
  <1>9. OnePlace(x)' /\ x \notin Pending'
    BY <1>8 DEF OnePlace, Pending
  <1>10. Distinct(messageBuffer)'
    BY <1>1 DEF IInv, PlaceInv, Distinct
  <1>11. PlaceInv' /\ SentInv' /\ Pending' = Pending \ {x}
    BY <1>1, <1>2, <1>7, <1>9, <1>10, Moved
  <1>12. Delivery!Deliver(x) \/ Delivery!Lose(x)
    BY <1>2, <1>11 DEF PublishOk, PublishFails, ResendFull, Delivery!Deliver,
                       Delivery!Lose, Delivery!Settle
  <1> QED  BY <1>2, <1>6, <1>11, <1>12 DEF IInv, Delivery!Next

\* The message goes from the hands of its producer into the buffer.
LEMMA SendStep ==
    ASSUME IInv, NEW r \in Producers, Buffer(r) \/ Resend(r)
    PROVE  IInv' /\ UNCHANGED Delivery!vars
  <1>1. /\ pc[r] # "idle" /\ Return(r) /\ Still
        /\ Len(messageBuffer) < BufferSize /\ messageBuffer' = Append(messageBuffer, Current(r))
        /\ UNCHANGED <<sent, bufPc, held, delivered, lost>>
    BY DEF Buffer, Resend, Still, procVars
  <1>2. PICK x \in Message :
            /\ x = Current(r) /\ InHand(x) /\ x \in Pending /\ x[2] <= sent[x[1]]
            /\ \A m \in Message : InHand(m)' <=> InHand(m) /\ m # x
    BY <1>1, HandOver
  <1>3. ~InBuffer(x) /\ ~InProcess(x)
    BY <1>2 DEF IInv, PlaceInv
  <1>4. /\ messageBuffer' \in Seq(Message) /\ Len(messageBuffer') <= BufferSize
        /\ Distinct(messageBuffer')
        /\ \A m : Occurs(messageBuffer', m) <=> InBuffer(m) \/ m = x
    BY <1>1, <1>2, <1>3, SendMessage
  <1>5. \A m : InBuffer(m)' <=> InBuffer(m) \/ m = x
    BY <1>4, OccursIs
  <1>6. \A m : InProcess(m)' <=> InProcess(m)
    BY <1>1 DEF InProcess
  <1>7. TypeOK' /\ HandInv' /\ HeldInv' /\ PhaseInv'
    <2>1. /\ pc' = [pc EXCEPT ![r] = "idle"] /\ sent' = sent /\ UNCHANGED procVars
          /\ delivered' \in Seq(Message) /\ lost' \subseteq Message
      BY <1>1 DEF IInv, TypeOK, Return, procVars
    <2> QED  BY <1>1, <1>4, <2>1, ProducerKeeps
  <1>8. \A m \in Message : m # x => Stays(m)
    BY <1>1, <1>2, <1>5, <1>6 DEF Stays
  <1>9. OnePlace(x)' /\ x \in Pending'
    BY <1>2, <1>3, <1>5, <1>6 DEF OnePlace, Pending
  <1>10. Distinct(messageBuffer)'
    BY <1>4 DEF Distinct
  <1>11. PlaceInv' /\ SentInv' /\ Pending' = Pending
    BY <1>1, <1>2, <1>8, <1>9, <1>10, Moved
  <1> QED  BY <1>1, <1>7, <1>11 DEF IInv, Delivery!vars

\* A producer goes on without moving a message.
LEMMA WalkStep ==
    ASSUME IInv, NEW r \in Producers, NEW q \in {"evict", "resend"}, pc[r] # "idle",
           pc' = [pc EXCEPT ![r] = q], Still,
           UNCHANGED <<messageBuffer, sent, bufPc, held, delivered, lost>>
    PROVE  IInv' /\ UNCHANGED Delivery!vars
  <1>1. TypeOK' /\ HandInv' /\ HeldInv' /\ PhaseInv'
    <2>1. /\ q \in {"idle", "raw", "buffer", "evict", "resend"} /\ UNCHANGED procVars
          /\ messageBuffer' \in Seq(Message) /\ Len(messageBuffer') <= BufferSize
          /\ delivered' \in Seq(Message) /\ lost' \subseteq Message
      BY DEF IInv, TypeOK, procVars
    <2> QED  BY <2>1, ProducerKeeps
  <1>2. ASSUME NEW m \in Message PROVE Stays(m)
    <2>1. m[1] \in Producers
      BY DEF Message
    <2>2. InHand(m)' <=> InHand(m)
      BY <2>1 DEF InHand, IInv, TypeOK
    <2> QED  BY <2>2 DEF Stays, InBuffer, InProcess
  <1>3. PlaceInv' /\ SentInv' /\ UNCHANGED Delivery!vars
    BY <1>2, Unmoved
  <1> QED  BY <1>1, <1>3 DEF IInv

\* bufferMessage makes room: the oldest message of the buffer is lost.
LEMMA EvictStep ==
    ASSUME IInv, NEW r \in Producers, Evict(r)
    PROVE  IInv' /\ [Delivery!Next]_(Delivery!vars)
  <1>1. CASE messageBuffer = <<>>
    <2>1. /\ pc[r] # "idle" /\ pc' = [pc EXCEPT ![r] = "resend"] /\ Still
          /\ UNCHANGED <<messageBuffer, sent, bufPc, held, delivered, lost>>
      BY <1>1 DEF Evict, Still, procVars
    <2>2. IInv' /\ UNCHANGED Delivery!vars
      BY <2>1, WalkStep
    <2> QED  BY <2>2
  <1>2. CASE messageBuffer # <<>>
    <2>1. /\ pc[r] # "idle" /\ pc' = [pc EXCEPT ![r] = "resend"] /\ Still
          /\ messageBuffer' = Tail(messageBuffer) /\ lost' = lost \cup {Head(messageBuffer)}
          /\ UNCHANGED <<sent, bufPc, held, delivered>>
      BY <1>2 DEF Evict, Still, procVars
    <2>2. PICK x \in Message :
              /\ x = Head(messageBuffer) /\ InBuffer(x) /\ x \in Pending
              /\ x[2] <= sent[x[1]]
              /\ messageBuffer' \in Seq(Message) /\ Distinct(messageBuffer')
              /\ Len(messageBuffer') <= BufferSize
              /\ \A m : Occurs(messageBuffer', m) <=> InBuffer(m) /\ m # x
      BY <1>2, <2>1, HeadMessage
    <2>3. TypeOK' /\ HandInv' /\ HeldInv' /\ PhaseInv'
      <3>1. UNCHANGED procVars /\ delivered' \in Seq(Message) /\ lost' \subseteq Message
        BY <2>1, <2>2 DEF IInv, TypeOK, procVars
      <3> QED  BY <2>1, <2>2, <3>1, ProducerKeeps
    <2>4. \A m : InBuffer(m)' <=> InBuffer(m) /\ m # x
      BY <2>2, OccursIs
    <2>5. ASSUME NEW m \in Message PROVE (InHand(m)' <=> InHand(m)) /\ (InProcess(m)' <=> InProcess(m))
      <3>1. m[1] \in Producers
        BY DEF Message
      <3> QED  BY <2>1, <3>1 DEF InHand, InProcess, IInv, TypeOK
    <2>6. \A m \in Message : m # x => Stays(m)
      BY <2>1, <2>2, <2>4, <2>5 DEF Stays
    <2>7. OnePlace(x)' /\ x \notin Pending'
      <3>1. ~InHand(x) /\ ~InProcess(x)
        BY <2>2 DEF IInv, PlaceInv
      <3>2. ~InHand(x)' /\ ~InProcess(x)' /\ ~InBuffer(x)'
        BY <2>4, <2>5, <3>1
      <3> QED  BY <3>2 DEF OnePlace, Pending
    <2>8. Distinct(messageBuffer)'
      BY <2>2 DEF Distinct
    <2>9. PlaceInv' /\ SentInv' /\ Pending' = Pending \ {x}
      BY <2>1, <2>2, <2>6, <2>7, <2>8, Moved
    <2>10. Delivery!Lose(x)
      BY <2>1, <2>2, <2>9 DEF Delivery!Lose, Delivery!Settle
    <2> QED  BY <2>2, <2>3, <2>9, <2>10 DEF IInv, Delivery!Next
  <1> QED  BY <1>1, <1>2

\* The parts of the invariant a step of processBuffer has to be asked for, if it is not
\* that of its message.
LEMMA ProcessKeeps ==
    ASSUME IInv, Still, UNCHANGED prodVars, bufPc # "off",
           bufPc' \in {"select", "publish", "rebuffer", "backoff", "drain", "drainpublish"},
           \/ ~Holding' /\ held' = <<>>
           \/ Holding' /\ \E m \in Message : held' = <<m>>,
           messageBuffer' \in Seq(Message), Len(messageBuffer') <= BufferSize,
           delivered' \in Seq(Message), lost' \subseteq Message
    PROVE  /\ TypeOK' /\ HandInv' /\ HeldInv' /\ PhaseInv'
           /\ \A m \in Message : InHand(m)' <=> InHand(m)
  <1>1. held' \in Seq(Message) /\ Len(held') <= 1
    <2>1. CASE held' = <<>>
      BY <2>1
    <2>2. ASSUME NEW m \in Message, held' = <<m>>
          PROVE  held' \in Seq(Message) /\ Len(held') <= 1
      BY <2>2
    <2> QED  BY <2>1, <2>2
  <1>2. TypeOK'
    BY <1>1 DEF IInv, TypeOK, Still, linkVars, connVars, prodVars
  <1>3. HandInv' /\ \A m \in Message : InHand(m)' <=> InHand(m)
    BY DEF IInv, HandInv, InHand, prodVars
  <1>4. HeldInv'
    BY DEF HeldInv
  <1>5. PhaseInv'
    BY DEF IInv, PhaseInv, Still, connVars
  <1> QED  BY <1>2, <1>3, <1>4, <1>5

\* publishRaw of a buffered message ends: the message leaves processBuffer for good.
LEMMA BufferedStep ==
    ASSUME IInv, BufferedOk \/ BufferedFails
    PROVE  IInv' /\ Delivery!Next
  <1>1. /\ Holding /\ bufPc # "off" /\ Still /\ UNCHANGED <<messageBuffer, prodVars>>
        /\ held' = <<>> /\ bufPc' \in {"select", "drain"}
    BY DEF BufferedOk, BufferedFails, NextMessage, Holding, Still
  <1>2. PICK x \in Message :
            /\ held = <<x>> /\ held[1] = x /\ InProcess(x) /\ x \in Pending
            /\ x[2] <= sent[x[1]] /\ \A k \in Message : InProcess(k) => k = x
    BY <1>1, HeldMessage
  <1>3. delivered \o held = Append(delivered, x)
    BY <1>2, ConcatOne DEF IInv, TypeOK
  <1>4. /\ \/ delivered' = Append(delivered, x) /\ lost' = lost
           \/ delivered' \in {delivered, Append(delivered, x)} /\ lost' = lost \cup {x}
    BY <1>2, <1>3 DEF BufferedOk, BufferedFails
  <1>5. /\ delivered' \in Seq(Message)
        /\ \A m : m # x => (Occurs(delivered', m) <=> Occurs(delivered, m))
    BY <1>4, Arrival DEF IInv, TypeOK
  <1>6. /\ TypeOK' /\ HandInv' /\ HeldInv' /\ PhaseInv'
        /\ \A m \in Message : InHand(m)' <=> InHand(m)
    <2>1. ~Holding' /\ lost' \subseteq Message
          /\ messageBuffer' \in Seq(Message) /\ Len(messageBuffer') <= BufferSize
      BY <1>1, <1>4 DEF Holding, IInv, TypeOK
    <2> QED  BY <1>1, <1>5, <2>1, ProcessKeeps
  <1>7. \A m \in Message : (InBuffer(m)' <=> InBuffer(m)) /\ ~InProcess(m)'
    BY <1>1 DEF InBuffer, InProcess
  <1>8. \A m \in Message : m # x => Stays(m)
    BY <1>2, <1>4, <1>5, <1>6, <1>7 DEF Stays
  <1>9. OnePlace(x)' /\ x \notin Pending'
    <2>1. ~InHand(x) /\ ~InBuffer(x)
      BY <1>2 DEF IInv, PlaceInv
    <2>2. ~InHand(x)' /\ ~InProcess(x)' /\ ~InBuffer(x)'
      BY <1>6, <1>7, <2>1
    <2> QED  BY <2>2 DEF OnePlace, Pending
  <1>10. Distinct(messageBuffer)' /\ sent' = sent
    BY <1>1 DEF IInv, PlaceInv, Distinct, prodVars
  <1>11. PlaceInv' /\ SentInv' /\ Pending' = Pending \ {x}
    BY <1>2, <1>8, <1>9, <1>10, Moved
  <1>12. Delivery!Deliver(x) \/ Delivery!Lose(x)
    BY <1>2, <1>4, <1>11 DEF Delivery!Deliver, Delivery!Lose, Delivery!Settle
  <1> QED  BY <1>2, <1>6, <1>11, <1>12 DEF IInv, Delivery!Next

\* processBuffer or drainBuffer receives a message from the buffer, to publish it or to
\* put it back, or, while it drains without a connection, to discard it.
LEMMA TakeStep ==
    ASSUME IInv, Receive \/ DrainTake
    PROVE  IInv' /\ [Delivery!Next]_(Delivery!vars)
  <1>1. /\ messageBuffer # <<>> /\ messageBuffer' = Tail(messageBuffer)
        /\ bufPc \in {"select", "drain"} /\ ~Holding /\ bufPc # "off" /\ Still
        /\ UNCHANGED <<prodVars, delivered>>
    BY DEF Receive, DrainTake, Holding, Still
  <1>2. PICK x \in Message :
            /\ x = Head(messageBuffer) /\ InBuffer(x) /\ x \in Pending
            /\ x[2] <= sent[x[1]]
            /\ messageBuffer' \in Seq(Message) /\ Distinct(messageBuffer')
            /\ Len(messageBuffer') <= BufferSize
            /\ \A m : Occurs(messageBuffer', m) <=> InBuffer(m) /\ m # x
    BY <1>1, HeadMessage
  <1>3. \/ held' = <<x>> /\ lost' = lost /\ bufPc' \in {"publish", "rebuffer", "drainpublish"}
        \/ held' = held /\ lost' = lost \cup {x} /\ bufPc' = bufPc
    BY <1>2 DEF Receive, DrainTake, procVars
  <1>4. held = <<>>
    BY <1>1 DEF IInv, HeldInv
  <1>5. /\ TypeOK' /\ HandInv' /\ HeldInv' /\ PhaseInv'
        /\ \A m \in Message : InHand(m)' <=> InHand(m)
    <2>1. /\ bufPc' \in {"select", "publish", "rebuffer", "backoff", "drain", "drainpublish"}
          /\ \/ ~Holding' /\ held' = <<>>
             \/ Holding' /\ \E m \in Message : held' = <<m>>
      BY <1>1, <1>3, <1>4 DEF Holding
    <2>2. delivered' \in Seq(Message) /\ lost' \subseteq Message
      BY <1>1, <1>3 DEF IInv, TypeOK
    <2> QED  BY <1>1, <1>2, <2>1, <2>2, ProcessKeeps
  <1>6. \A m : InBuffer(m)' <=> InBuffer(m) /\ m # x
    BY <1>2, OccursIs
  <1>7. \A m \in Message : ~InProcess(m) /\ (InProcess(m)' => m = x)
    BY <1>3, <1>4 DEF InProcess
  <1>8. \A m \in Message : m # x => Stays(m)
    BY <1>1, <1>3, <1>5, <1>6, <1>7 DEF Stays
  <1>9. ~InHand(x)' /\ ~InBuffer(x)'
    BY <1>2, <1>5, <1>6 DEF IInv, PlaceInv
  <1>10. OnePlace(x)'
    BY <1>9 DEF OnePlace
  <1>11. Distinct(messageBuffer)' /\ sent' = sent
    BY <1>1, <1>2 DEF Distinct, prodVars
  <1>12. /\ PlaceInv' /\ SentInv'
         /\ x \notin Pending' => Pending' = Pending \ {x}
         /\ x \in Pending' => Pending' = Pending
    BY <1>2, <1>8, <1>10, <1>11, Moved
  <1>13. CASE held' = <<x>> /\ lost' = lost
    <2>1. x \in Pending'
      BY <1>13 DEF Pending, InProcess
    <2>2. UNCHANGED Delivery!vars
      BY <1>1, <1>12, <1>13, <2>1 DEF Delivery!vars
    <2> QED  BY <1>5, <1>12, <2>2 DEF IInv
  <1>14. CASE held' = held /\ lost' = lost \cup {x}
    <2>1. ~InProcess(x)'
      BY <1>7, <1>14 DEF InProcess
    <2>2. Pending' = Pending \ {x}
      BY <1>9, <1>12, <2>1 DEF Pending
    <2>3. Delivery!Lose(x)
      BY <1>1, <1>2, <1>14, <2>2 DEF Delivery!Lose, Delivery!Settle
    <2> QED  BY <1>5, <1>12, <2>3 DEF IInv, Delivery!Next
  <1> QED  BY <1>3, <1>13, <1>14

\* processBuffer puts its message back into the buffer, or drops it if that is full.
LEMMA RebufferStep ==
    ASSUME IInv, Rebuffer
    PROVE  IInv' /\ [Delivery!Next]_(Delivery!vars)
  <1>1. /\ Holding /\ bufPc # "off" /\ Still /\ UNCHANGED <<prodVars, delivered>>
        /\ held' = <<>> /\ bufPc' = "backoff"
    BY DEF Rebuffer, Holding, Still
  <1>2. PICK x \in Message :
            /\ held = <<x>> /\ held[1] = x /\ InProcess(x) /\ x \in Pending
            /\ x[2] <= sent[x[1]] /\ \A k \in Message : InProcess(k) => k = x
    BY <1>1, HeldMessage
  <1>3. ~InHand(x) /\ ~InBuffer(x)
    BY <1>2 DEF IInv, PlaceInv
  <1>4. \A m \in Message : ~InProcess(m)'
    BY <1>1 DEF InProcess
  <1>5. ~Holding' /\ delivered' \in Seq(Message) /\ sent' = sent
    BY <1>1 DEF Holding, IInv, TypeOK, prodVars
  <1>6. CASE Len(messageBuffer) < BufferSize
    <2>1. messageBuffer' = Append(messageBuffer, x) /\ lost' = lost
      BY <1>2, <1>6 DEF Rebuffer
    <2>2. /\ messageBuffer' \in Seq(Message) /\ Len(messageBuffer') <= BufferSize
          /\ Distinct(messageBuffer')
          /\ \A m : Occurs(messageBuffer', m) <=> InBuffer(m) \/ m = x
      BY <1>3, <1>6, <2>1, SendMessage
    <2>3. /\ TypeOK' /\ HandInv' /\ HeldInv' /\ PhaseInv'
          /\ \A m \in Message : InHand(m)' <=> InHand(m)
      <3>1. lost' \subseteq Message
        BY <2>1 DEF IInv, TypeOK
      <3> QED  BY <1>1, <1>5, <2>2, <3>1, ProcessKeeps
    <2>4. \A m : InBuffer(m)' <=> InBuffer(m) \/ m = x
      BY <2>2, OccursIs
    <2>5. \A m \in Message : m # x => Stays(m)
      BY <1>1, <1>2, <1>4, <2>1, <2>3, <2>4 DEF Stays
    <2>6. OnePlace(x)' /\ x \in Pending'
      BY <1>3, <1>4, <2>3, <2>4 DEF OnePlace, Pending
    <2>7. Distinct(messageBuffer)'
      BY <2>2 DEF Distinct
    <2>8. PlaceInv' /\ SentInv' /\ Pending' = Pending
      BY <1>2, <1>5, <2>5, <2>6, <2>7, Moved
    <2> QED  BY <1>1, <2>1, <2>3, <2>8 DEF IInv, Delivery!vars
  <1>7. CASE ~(Len(messageBuffer) < BufferSize)
    <2>1. messageBuffer' = messageBuffer /\ lost' = lost \cup {x}
      BY <1>2, <1>7 DEF Rebuffer
    <2>2. /\ TypeOK' /\ HandInv' /\ HeldInv' /\ PhaseInv'
          /\ \A m \in Message : InHand(m)' <=> InHand(m)
      <3>1. /\ lost' \subseteq Message
            /\ messageBuffer' \in Seq(Message) /\ Len(messageBuffer') <= BufferSize
        BY <2>1 DEF IInv, TypeOK
      <3> QED  BY <1>1, <1>5, <3>1, ProcessKeeps
    <2>3. \A m : InBuffer(m)' <=> InBuffer(m)
      BY <2>1 DEF InBuffer
    <2>4. \A m \in Message : m # x => Stays(m)
      BY <1>1, <1>2, <1>4, <2>1, <2>2, <2>3 DEF Stays
    <2>5. OnePlace(x)' /\ x \notin Pending'
      <3>1. ~InHand(x)' /\ ~InProcess(x)' /\ ~InBuffer(x)'
        BY <1>3, <1>4, <2>2, <2>3
      <3> QED  BY <3>1 DEF OnePlace, Pending
    <2>6. Distinct(messageBuffer)'
      BY <2>1 DEF IInv, PlaceInv, Distinct
    <2>7. PlaceInv' /\ SentInv' /\ Pending' = Pending \ {x}
      BY <1>2, <1>5, <2>4, <2>5, <2>6, Moved
    <2>8. Delivery!Lose(x)
      BY <1>1, <1>2, <2>1, <2>7 DEF Delivery!Lose, Delivery!Settle
    <2> QED  BY <2>2, <2>7, <2>8 DEF IInv, Delivery!Next
  <1> QED  BY <1>6, <1>7

-----------------------------------------------------------------------------
(* The theorems                                                            *)

\* Every step keeps the invariant and is a step or a stutter of LossyDelivery.
LEMMA NextStep == IInv /\ [Next]_vars => IInv' /\ [Delivery!Next]_(Delivery!vars)
  <1>1. SUFFICES ASSUME IInv, [Next]_vars PROVE IInv' /\ [Delivery!Next]_(Delivery!vars)
    OBVIOUS
  <1>2. CASE Quiet
    BY <1>1, <1>2, QuietStep
  <1>3. ASSUME NEW r \in Producers, Publish(r) \/ PublishSteps(r)
        PROVE  IInv' /\ [Delivery!Next]_(Delivery!vars)
    <2>1. CASE Publish(r)
      BY <1>1, <2>1, PublishStep
    <2>2. CASE PublishOk(r) \/ PublishFails(r) \/ ResendFull(r)
      BY <1>1, <2>2, SettleStep
    <2>3. CASE Buffer(r) \/ Resend(r)
      BY <1>1, <2>3, SendStep
    <2>4. CASE BufferFull(r)
      <3>1. /\ pc[r] # "idle" /\ pc' = [pc EXCEPT ![r] = "evict"] /\ Still
            /\ UNCHANGED <<messageBuffer, sent, bufPc, held, delivered, lost>>
        BY <2>4 DEF BufferFull, Still, procVars
      <3> QED  BY <1>1, <3>1, WalkStep
    <2>5. CASE Evict(r)
      BY <1>1, <2>5, EvictStep
    <2> QED  BY <1>3, <2>1, <2>2, <2>3, <2>4, <2>5 DEF PublishSteps
  <1>4. CASE BufferedOk \/ BufferedFails
    BY <1>1, <1>4, BufferedStep
  <1>5. CASE Receive \/ DrainTake
    BY <1>1, <1>5, TakeStep
  <1>6. CASE Rebuffer
    BY <1>1, <1>6, RebufferStep
  <1>7. CASE UNCHANGED vars
    <2>1. UNCHANGED <<messageBuffer, pc, sent, bufPc, held, delivered, lost>>
      BY <1>7 DEF vars, prodVars, procVars
    <2>2. \A m \in Message : Stays(m)
      BY <2>1 DEF Stays, InHand, InBuffer, InProcess
    <2>3. PlaceInv' /\ SentInv' /\ UNCHANGED Delivery!vars
      BY <1>1, <2>1, <2>2, Unmoved
    <2>4. TypeOK' /\ HandInv' /\ HeldInv' /\ PhaseInv'
      BY <1>1, <1>7 DEF IInv, TypeOK, HandInv, HeldInv, Holding, PhaseInv, vars, linkVars,
            connVars, prodVars, procVars
    <2> QED  BY <2>3, <2>4 DEF IInv
  <1> QED  BY <1>1, <1>2, <1>3, <1>4, <1>5, <1>6, <1>7 DEF Next, Quiet, ProcessBuffer

\* The variables have their types; in particular the buffer never holds more than
\* BufferSize messages, and processBuffer never more than one.
THEOREM TypeCorrect == Spec => []TypeOK
  <1>1. Init => IInv
    BY InitIInv
  <1>2. IInv /\ [Next]_vars => IInv'
    BY NextStep
  <1>3. IInv => TypeOK
    BY DEF IInv
  <1> QED  BY <1>1, <1>2, <1>3, PTL DEF Spec

\* Publisher, buffer and processBuffer together deliver each message once or give it
\* up, whatever the link, the callbacks and the timeouts do, for any number of
\* producers and any size of the buffer.
THEOREM ImplementsLossyDeliveryHolds == Spec => ImplementsLossyDelivery
  <1>1. Init => IInv /\ Delivery!Init
    BY InitIInv, InitImplements
  <1>2. IInv /\ [Next]_vars => IInv' /\ [Delivery!Next]_(Delivery!vars)
    BY NextStep
  <1> QED  BY <1>1, <1>2, PTL DEF Spec, ImplementsLossyDelivery, Delivery!Spec
=============================================================================
