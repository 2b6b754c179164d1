--------------------------- MODULE BreakerHistory ---------------------------
(***************************************************************************)
(* CircuitBreaker with a history variable that records how long the        *)
(* circuit has really been Open, for what breaker.go's comments say about  *)
(* OpenTimeout.                                                            *)
(***************************************************************************)
EXTENDS CircuitBreaker

VARIABLE openFor  \* ticks since the last step into Open, saturated

hvars == <<vars, openFor>>

Enters(s) == state # s /\ state' = s

HInit == Init /\ openFor = OpenTimeout

\* A goroutine's step takes no time.
Runs ==
  /\ \E g \in Goroutines : Execute(g) \/ Inside(g)
  /\ openFor' = IF Enters("Open") THEN 0 ELSE openFor

\* Time passes, for openedAt and for the real age.
Passes ==
  /\ openFor' = IF openFor < OpenTimeout THEN openFor + 1 ELSE openFor
  /\ \/ Tick
     \/ openAge = OpenTimeout /\ UNCHANGED vars

HNext == Runs \/ Passes

HSpec == HInit /\ [][HNext]_hvars

-----------------------------------------------------------------------------
\* "OpenTimeout is how long the circuit stays Open before transitioning to
\* HalfOpen" (breaker.go:42): no step to HalfOpen before OpenTimeout ticks.
StaysOpenForTimeout ==
  [][Enters("HalfOpen") => openFor >= OpenTimeout]_hvars
=============================================================================
