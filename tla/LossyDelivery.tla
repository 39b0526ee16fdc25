---------------------------- MODULE LossyDelivery ----------------------------
(***************************************************************************)
(* What a publisher promises to the goroutines that pass it messages:      *)
(* every message it accepts meets its fate once.  It reaches the broker,   *)
(* once; or it is given up; or it is given up though it did arrive, when   *)
(* the answer of the broker was not waited for any longer.  A message that *)
(* was given up is not delivered afterwards, and nothing is delivered that *)
(* was not accepted.  No order is promised.                                *)
(***************************************************************************)
EXTENDS Sequences

CONSTANT Message

VARIABLES
    pending,    \* messages accepted, whose fate is open
    delivered,  \* messages that reached the broker, in order
    lost        \* messages given up

vars == <<pending, delivered, lost>>

Arrived == {delivered[i] : i \in DOMAIN delivered}

Init == pending = {} /\ delivered = <<>> /\ lost = {}

Accept(m) ==
    /\ m \notin pending \cup lost \cup Arrived
    /\ pending' = pending \cup {m}
    /\ UNCHANGED <<delivered, lost>>

Settle(m) == m \in pending /\ pending' = pending \ {m}

Deliver(m) ==
    /\ Settle(m)
    /\ delivered' = Append(delivered, m)
    /\ UNCHANGED lost

Lose(m) ==
    /\ Settle(m)
    /\ delivered' \in {delivered, Append(delivered, m)}
    /\ lost' = lost \cup {m}

Next == \E m \in Message : Accept(m) \/ Deliver(m) \/ Lose(m)

Spec == Init /\ [][Next]_vars
=============================================================================
