---------------------------- MODULE MqttPublisher ----------------------------
(***************************************************************************)
(* Buffering and reconnection of internal/adapter/mqtt/publisher.go.       *)
(*                                                                         *)
(* Poller goroutines call Publish.  While the connected flag is set a      *)
(* message goes straight to the MQTT client and Publish waits for the      *)
(* broker; otherwise it goes into the channel messageBuffer, from which    *)
(* the oldest entry is evicted when it is full.  The goroutine             *)
(* processBuffer, started by Connect, publishes what is in the buffer or   *)
(* puts it back.  Disconnect tells it to drain and end.                    *)
(*                                                                         *)
(* The link to the broker is the MQTT client library's: it reconnects by   *)
(* itself and reports through callbacks, which run in a goroutine of their *)
(* own some time after the link changed.                                   *)
(*                                                                         *)
(* Message n of producer r is <<r, n>>.  Counters and topic statistics are *)
(* left out.                                                               *)
(***************************************************************************)
EXTENDS Naturals, Sequences, FiniteSets

CONSTANTS
    Producers,    \* goroutines that call Publish
    BufferSize,   \* config.BufferSize
    MaxMsgs,      \* bound: messages per producer
    MaxLosses,    \* bound: number of times the link is lost
    MaxConnects,  \* bound: number of calls of Connect
    SlowBroker,   \* TRUE if a publish may time out on a working link
    SlowDrain     \* TRUE if drainBuffer may run into its timeout

ASSUME PublisherAssumption ==
    /\ BufferSize \in Nat \ {0}
    /\ MaxMsgs \in Nat /\ MaxLosses \in Nat /\ MaxConnects \in Nat
    /\ {SlowBroker, SlowDrain} \subseteq BOOLEAN

VARIABLES
    link,           \* the client's connection: "off", "up", "down" (reconnecting)
    callbacks,      \* callbacks of the client that have not run yet, in order
    connected,      \* p.connected
    phase,          \* "off", "connecting", "ready", "closing": Connect, Disconnect
    messageBuffer,  \* p.messageBuffer
    pc,             \* position of each producer in Publish
    sent,           \* number of messages each producer has passed to Publish
    bufPc,          \* position of processBuffer
    held,           \* the message processBuffer has in hand, as a sequence
    delivered,      \* messages the broker received, in order
    lost,           \* messages dropped or reported as failed
    losses,         \* number of link losses so far
    connects        \* number of calls of Connect so far

linkVars == <<link, callbacks, losses>>
connVars == <<phase, connects>>
prodVars == <<pc, sent>>
procVars == <<bufPc, held>>
vars == <<linkVars, connected, connVars, messageBuffer, prodVars, procVars,
          delivered, lost>>

Message == Producers \X (1..MaxMsgs)
Current(r) == <<r, sent[r]>>   \* the message r is publishing

Init ==
    /\ link = "off" /\ callbacks = <<>> /\ losses = 0
    /\ connected = FALSE
    /\ phase = "off" /\ connects = 0
    /\ messageBuffer = <<>>
    /\ pc = [r \in Producers |-> "idle"]
    /\ sent = [r \in Producers |-> 0]
    /\ bufPc = "off" /\ held = <<>>
    /\ delivered = <<>>
    /\ lost = {}

-----------------------------------------------------------------------------
(* The MQTT client                                                         *)

\* The first connection of a client, and its reconnections.
LinkUp ==
    /\ \/ link = "off" /\ phase = "connecting"
       \/ link = "down"
    /\ link' = "up"
    /\ callbacks' = Append(callbacks, "connect")
    /\ UNCHANGED <<losses, connected, connVars, messageBuffer, prodVars, procVars,
                   delivered, lost>>

LinkLost ==
    /\ link = "up" /\ losses < MaxLosses
    /\ link' = "down"
    /\ callbacks' = Append(callbacks, "lost")
    /\ losses' = losses + 1
    /\ UNCHANGED <<connected, connVars, messageBuffer, prodVars, procVars, delivered,
                   lost>>

\* Variant: the flag is not set again after a reconnection.
CallbackLostOnly ==
    /\ callbacks # <<>>
    /\ connected' = (connected /\ Head(callbacks) # "lost")
    /\ callbacks' = Tail(callbacks)
    /\ UNCHANGED <<link, losses, connVars, messageBuffer, prodVars, procVars,
                   delivered, lost>>

\* onConnect and onConnectionLost.
Callback ==
    /\ callbacks # <<>>
    /\ connected' = (Head(callbacks) = "connect")
    /\ callbacks' = Tail(callbacks)
    /\ UNCHANGED <<link, losses, connVars, messageBuffer, prodVars, procVars,
                   delivered, lost>>

-----------------------------------------------------------------------------
(* Connect and Disconnect                                                  *)

Connect ==
    /\ phase = "off" /\ connects < MaxConnects
    /\ phase' = "connecting"
    /\ connects' = connects + 1
    /\ UNCHANGED <<linkVars, connected, messageBuffer, prodVars, procVars, delivered,
                   lost>>

\* The client's token is done: the flag is set (again), done is made anew and
\* processBuffer is started.
ConnectDone ==
    /\ phase = "connecting" /\ link # "off"
    /\ phase' = "ready"
    /\ connected' = TRUE
    /\ bufPc' = "select"
    /\ UNCHANGED <<linkVars, connects, messageBuffer, prodVars, held, delivered, lost>>

\* Disconnect closes done.  main calls it after polling has stopped.
Disconnect ==
    /\ phase = "ready"
    /\ phase' = "closing"
    /\ UNCHANGED <<linkVars, connected, connects, messageBuffer, prodVars, procVars,
                   delivered, lost>>

\* wg.Wait returned: the client is disconnected.
DisconnectDone ==
    /\ phase = "closing" /\ bufPc = "off"
    /\ link' = "off"
    /\ connected' = FALSE
    /\ phase' = "off"
    /\ UNCHANGED <<callbacks, losses, connects, messageBuffer, prodVars, procVars,
                   delivered, lost>>

-----------------------------------------------------------------------------
(* Publish                                                                 *)

\* Publish decides by the flag.
Publish(r) ==
    /\ pc[r] = "idle" /\ sent[r] < MaxMsgs
    /\ sent' = [sent EXCEPT ![r] = @ + 1]
    /\ pc' = [pc EXCEPT ![r] = IF connected THEN "raw" ELSE "buffer"]
    /\ UNCHANGED <<linkVars, connected, connVars, messageBuffer, procVars, delivered,
                   lost>>

Return(r) == pc' = [pc EXCEPT ![r] = "idle"]

\* A publish gets an error, or no answer within PublishTimeout.
MayFail == link # "up" \/ SlowBroker

\* publishRaw: the broker acknowledged in time.
PublishOk(r) ==
    /\ pc[r] = "raw" /\ link = "up"
    /\ delivered' = Append(delivered, Current(r))
    /\ Return(r)
    /\ UNCHANGED <<linkVars, connected, connVars, messageBuffer, sent, procVars, lost>>

\* Variant: a failed publish is put into the buffer.
PublishFailsBuffered(r) ==
    /\ pc[r] = "raw" /\ MayFail
    /\ delivered' \in {delivered, Append(delivered, Current(r))}
    /\ pc' = [pc EXCEPT ![r] = "buffer"]
    /\ UNCHANGED <<linkVars, connected, connVars, messageBuffer, sent, procVars, lost>>

\* publishRaw: error or timeout, without an acknowledgement; the broker may
\* have the message nevertheless.
PublishFails(r) ==
    /\ pc[r] = "raw" /\ MayFail
    /\ delivered' \in {delivered, Append(delivered, Current(r))}
    /\ lost' = lost \cup {Current(r)}
    /\ Return(r)
    /\ UNCHANGED <<linkVars, connected, connVars, messageBuffer, sent, procVars>>

\* bufferMessage: there is room.
Buffer(r) ==
    /\ pc[r] = "buffer" /\ Len(messageBuffer) < BufferSize
    /\ messageBuffer' = Append(messageBuffer, Current(r))
    /\ Return(r)
    /\ UNCHANGED <<linkVars, connected, connVars, sent, procVars, delivered, lost>>

BufferFull(r) ==
    /\ pc[r] = "buffer" /\ Len(messageBuffer) = BufferSize
    /\ pc' = [pc EXCEPT ![r] = "evict"]
    /\ UNCHANGED <<linkVars, connected, connVars, messageBuffer, sent, procVars,
                   delivered, lost>>

\* bufferMessage makes room by receiving one message, if there still is one.
Evict(r) ==
    /\ pc[r] = "evict"
    /\ pc' = [pc EXCEPT ![r] = "resend"]
    /\ IF messageBuffer = <<>>
       THEN UNCHANGED <<messageBuffer, lost>>
       ELSE /\ lost' = lost \cup {Head(messageBuffer)}
            /\ messageBuffer' = Tail(messageBuffer)
    /\ UNCHANGED <<linkVars, connected, connVars, sent, procVars, delivered>>

\* The second send succeeds.
Resend(r) ==
    /\ pc[r] = "resend" /\ Len(messageBuffer) < BufferSize
    /\ messageBuffer' = Append(messageBuffer, Current(r))
    /\ Return(r)
    /\ UNCHANGED <<linkVars, connected, connVars, sent, procVars, delivered, lost>>

\* The second send finds the buffer full again: Publish gives up.
ResendFull(r) ==
    /\ pc[r] = "resend" /\ Len(messageBuffer) = BufferSize
    /\ lost' = lost \cup {Current(r)}
    /\ Return(r)
    /\ UNCHANGED <<linkVars, connected, connVars, messageBuffer, sent, procVars,
                   delivered>>

-----------------------------------------------------------------------------
(* processBuffer and drainBuffer                                           *)

\* processBuffer receives a message and looks at the flag.
Receive ==
    /\ bufPc = "select" /\ messageBuffer # <<>>
    /\ held' = <<Head(messageBuffer)>>
    /\ messageBuffer' = Tail(messageBuffer)
    /\ bufPc' = IF connected THEN "publish" ELSE "rebuffer"
    /\ UNCHANGED <<linkVars, connected, connVars, prodVars, delivered, lost>>

\* What follows a message: back to the loop it came from.
NextMessage == bufPc' = IF bufPc = "publish" THEN "select" ELSE "drain"

\* publishRaw of a buffered message, in processBuffer or in drainBuffer.
BufferedOk ==
    /\ bufPc \in {"publish", "drainpublish"} /\ link = "up"
    /\ delivered' = delivered \o held
    /\ held' = <<>>
    /\ NextMessage
    /\ UNCHANGED <<linkVars, connected, connVars, messageBuffer, prodVars, lost>>

\* The message is dropped with a log entry.
BufferedFails ==
    /\ bufPc \in {"publish", "drainpublish"} /\ MayFail
    /\ delivered' \in {delivered, delivered \o held}
    /\ lost' = lost \cup {held[1]}
    /\ held' = <<>>
    /\ NextMessage
    /\ UNCHANGED <<linkVars, connected, connVars, messageBuffer, prodVars>>

\* Variant: the message is put back with a blocking send.
RebufferBlocks ==
    /\ bufPc = "rebuffer" /\ Len(messageBuffer) < BufferSize
    /\ messageBuffer' = Append(messageBuffer, held[1])
    /\ held' = <<>>
    /\ bufPc' = "backoff"
    /\ UNCHANGED <<linkVars, connected, connVars, prodVars, delivered, lost>>

\* Not connected: back to the end of the buffer, or dropped if it is full.
Rebuffer ==
    /\ bufPc = "rebuffer"
    /\ IF Len(messageBuffer) < BufferSize
       THEN messageBuffer' = Append(messageBuffer, held[1]) /\ UNCHANGED lost
       ELSE lost' = lost \cup {held[1]} /\ UNCHANGED messageBuffer
    /\ held' = <<>>
    /\ bufPc' = "backoff"
    /\ UNCHANGED <<linkVars, connected, connVars, prodVars, delivered>>

BackoffOver ==
    /\ bufPc = "backoff"
    /\ bufPc' = "select"
    /\ UNCHANGED <<linkVars, connected, connVars, messageBuffer, prodVars, held,
                   delivered, lost>>

\* done is closed: drain, or return at once from the backoff.
DoneSeen ==
    /\ bufPc \in {"select", "backoff"} /\ phase = "closing"
    /\ bufPc' = IF bufPc = "select" THEN "drain" ELSE "off"
    /\ UNCHANGED <<linkVars, connected, connVars, messageBuffer, prodVars, held,
                   delivered, lost>>

\* drainBuffer publishes a message, or discards it when not connected.
DrainTake ==
    /\ bufPc = "drain" /\ messageBuffer # <<>>
    /\ messageBuffer' = Tail(messageBuffer)
    /\ IF connected
       THEN held' = <<Head(messageBuffer)>> /\ bufPc' = "drainpublish" /\ UNCHANGED lost
       ELSE lost' = lost \cup {Head(messageBuffer)} /\ UNCHANGED procVars
    /\ UNCHANGED <<linkVars, connected, connVars, prodVars, delivered>>

DrainDone ==
    /\ bufPc = "drain"
    /\ messageBuffer = <<>> \/ SlowDrain
    /\ bufPc' = "off"
    /\ UNCHANGED <<linkVars, connected, connVars, messageBuffer, prodVars, held,
                   delivered, lost>>

-----------------------------------------------------------------------------

PublishSteps(r) == \/ PublishOk(r) \/ PublishFails(r)
                   \/ Buffer(r) \/ BufferFull(r) \/ Evict(r)
                   \/ Resend(r) \/ ResendFull(r)

ProcessBuffer == \/ Receive \/ Rebuffer \/ BackoffOver
                 \/ BufferedOk \/ BufferedFails
                 \/ DoneSeen \/ DrainTake \/ DrainDone

Next == \/ LinkUp \/ LinkLost \/ Callback
        \/ Connect \/ ConnectDone \/ Disconnect \/ DisconnectDone
        \/ \E r \in Producers : Publish(r) \/ PublishSteps(r)
        \/ ProcessBuffer

Spec == Init /\ [][Next]_vars

\* Goroutines run on, callbacks run, publishes end by their timeouts, and
\* select does not pass over a closed done for ever.
Fairness ==
    /\ WF_vars(Callback)
    /\ WF_vars(DisconnectDone)
    /\ \A r \in Producers : WF_vars(PublishSteps(r))
    /\ WF_vars(ProcessBuffer) /\ SF_vars(DoneSeen)

FairSpec == Spec /\ Fairness

-----------------------------------------------------------------------------
(* Properties                                                              *)

\* Types of the variables.
TypeOK ==
    /\ link \in {"off", "up", "down"}
    /\ callbacks \in Seq({"connect", "lost"})
    /\ connected \in BOOLEAN
    /\ phase \in {"off", "connecting", "ready", "closing"}
    /\ messageBuffer \in Seq(Message) /\ Len(messageBuffer) <= BufferSize
    /\ pc \in [Producers -> {"idle", "raw", "buffer", "evict", "resend"}]
    /\ sent \in [Producers -> 0..MaxMsgs]
    /\ bufPc \in {"off", "select", "publish", "rebuffer", "backoff", "drain",
                  "drainpublish"}
    /\ held \in Seq(Message) /\ Len(held) <= 1
    /\ delivered \in Seq(Message)
    /\ lost \subseteq Message
    /\ losses \in 0..MaxLosses
    /\ connects \in 0..MaxConnects

InBuffer(m) == \E i \in 1..Len(messageBuffer) : messageBuffer[i] = m
InHand(m) == pc[m[1]] # "idle" /\ sent[m[1]] = m[2]
InProcess(m) == held = <<m>>

\* The messages Publish has accepted that are neither delivered nor dropped.
Pending == {m \in Message : InBuffer(m) \/ InHand(m) \/ InProcess(m)}

Delivery == INSTANCE LossyDelivery WITH pending <- Pending

\* However often the link breaks, publishes time out and the buffer overflows,
\* a message passed to Publish is in one place only, the hands of its producer,
\* the buffer or the hands of processBuffer, until it is delivered or dropped:
\* none vanishes, none is copied, and no value is published twice
\* (retransmissions inside the MQTT protocol aside).
ImplementsLossyDelivery == Delivery!Spec

\* Publish always returns, and so does Disconnect: with a full buffer, without a
\* broker, and while processBuffer puts back what it could not publish.
CallsReturn ==
    /\ \A r \in Producers : []<>(pc[r] = "idle")
    /\ []<>(phase # "closing")

\* Once the link is stable, everything buffered is published or dropped.
BufferDrains == <>[](link = "up" /\ phase = "ready") => <>[](messageBuffer = <<>>)
=============================================================================
