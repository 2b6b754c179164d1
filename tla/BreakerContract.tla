--------------------------- MODULE BreakerContract --------------------------
(***************************************************************************)
(* What the circuit breaker promises its callers: the four transitions of  *)
(* the three-state machine, at most one probe at a time, and a HalfOpen    *)
(* verdict that only the goroutine holding the probe slot can give.        *)
(***************************************************************************)
CONSTANT Goroutines

VARIABLES state,   \* "Closed", "Open" or "HalfOpen"
          probers  \* the goroutines holding the probe slot

vars == <<state, probers>>

Init ==
  /\ state = "Closed"
  /\ probers = {}

\* Too many failures.
Open ==
  /\ state = "Closed"
  /\ state' = "Open"
  /\ UNCHANGED probers

\* The open timeout has elapsed.
AllowProbe ==
  /\ state = "Open"
  /\ state' = "HalfOpen"
  /\ UNCHANGED probers

TakeSlot(g) ==
  /\ probers = {}
  /\ probers' = {g}
  /\ UNCHANGED state

\* The probe's verdict.
Decide ==
  /\ state = "HalfOpen"
  /\ probers # {}
  /\ state' \in {"Closed", "Open"}
  /\ UNCHANGED probers

FreeSlot(g) ==
  /\ probers = {g}
  /\ probers' = {}
  /\ UNCHANGED state

Next ==
  \/ Open \/ AllowProbe \/ Decide
  \/ \E g \in Goroutines : TakeSlot(g) \/ FreeSlot(g)

Spec == Init /\ [][Next]_vars
=============================================================================
