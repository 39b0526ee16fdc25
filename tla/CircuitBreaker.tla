--------------------------- MODULE CircuitBreaker ---------------------------
(***************************************************************************)
(* The circuit breaker the protocol pools put before each device: gobreaker*)
(* with the settings of createCircuitBreaker.  A breaker is a record; the  *)
(* operators give its value after an event.  A result of a request that    *)
(* was admitted before the last change of state, or before the counts were *)
(* cleared, is ignored: the pool keeps track of that.                      *)
(***************************************************************************)
EXTENDS Naturals

CONSTANTS
    Threshold,    \* FailureThreshold: requests needed before it may open
    Ratio,        \* FailureRatio, in percent
    Probes,       \* MaxRequests: requests admitted while half-open
    MaxCounted    \* bound: requests counted before the interval clears them

ASSUME BreakerAssumption ==
    /\ Threshold \in Nat \ {0} /\ Ratio \in 0..100
    /\ Probes \in Nat \ {0} /\ MaxCounted \in Nat /\ Probes <= MaxCounted

In(s) == [state |-> s, requests |-> 0, failures |-> 0, successes |-> 0]
NewBreaker == In("closed")

Breaker == [state : {"closed", "open", "half-open"}, requests : 0..MaxCounted,
            failures : 0..MaxCounted, successes : 0..MaxCounted]

Admits(b) == \/ b.state = "closed" /\ b.requests < MaxCounted
             \/ b.state = "half-open" /\ b.requests < Probes

Admitted(b) == [b EXCEPT !.requests = @ + 1]

ReadyToTrip(b) == b.requests >= Threshold /\ 100 * b.failures >= Ratio * b.requests

Succeeded(b) ==
    IF b.state = "half-open" /\ b.successes + 1 >= Probes
    THEN In("closed")
    ELSE [b EXCEPT !.successes = @ + 1]

Failed(b) ==
    LET f == [b EXCEPT !.failures = @ + 1]
    IN  IF b.state = "half-open" \/ ReadyToTrip(f) THEN In("open") ELSE f

\* Interval passes while closed, Timeout while open.
Cleared(b) == IF b.state = "open" THEN In("half-open") ELSE In(b.state)
=============================================================================
