----------------------------- MODULE DevicePool -----------------------------
(***************************************************************************)
(* What a protocol pool promises to the gateway: at most Capacity devices  *)
(* have an entry, entries are added only while the pool is open, and once  *)
(* Close has returned the pool is empty and no connection is made any      *)
(* more.  A connection may be lost, given up or made anew at any time      *)
(* before that, also one whose entry has gone.                             *)
(***************************************************************************)
EXTENDS Naturals, FiniteSets

CONSTANTS Device, Connection, Capacity

VARIABLES
    held,   \* devices that have an entry
    links,  \* connections that are open
    phase   \* "open", "closing", "closed"

vars == <<held, links, phase>>

Init == held = {} /\ links = {} /\ phase = "open"

\* A new entry, for a device that just answered, perhaps in the place of another.
Add(d, c) ==
    /\ phase = "open" /\ d \notin held
    /\ \E kept \in SUBSET held :
          /\ Cardinality(kept) < Capacity
          /\ held' = kept \cup {d}
    /\ \E open \in SUBSET links : links' = open \cup {c}
    /\ UNCHANGED phase

Remove(d) ==
    /\ d \in held
    /\ held' = held \ {d}
    /\ links' \in SUBSET links
    /\ UNCHANGED phase

Connect(c) ==
    /\ phase # "closed"
    /\ links' = links \cup {c}
    /\ UNCHANGED <<held, phase>>

Disconnect(c) ==
    /\ links' = links \ {c}
    /\ UNCHANGED <<held, phase>>

Close ==
    /\ phase = "open" /\ phase' = "closing"
    /\ UNCHANGED <<held, links>>

Closed ==
    /\ phase = "closing" /\ phase' = "closed"
    /\ held' = {}
    /\ links' \in SUBSET links

Next == \/ \E d \in Device : Remove(d) \/ \E c \in Connection : Add(d, c)
        \/ \E c \in Connection : Connect(c) \/ Disconnect(c)
        \/ Close \/ Closed

Spec == Init /\ [][Next]_vars
=============================================================================
