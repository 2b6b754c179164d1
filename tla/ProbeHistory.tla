---------------------------- MODULE ProbeHistory ----------------------------
(***************************************************************************)
(* CircuitBreaker with a history variable that counts successful probes,   *)
(* for what breaker.go says about SuccessThreshold.                        *)
(***************************************************************************)
EXTENDS CircuitBreaker

VARIABLE proven  \* probes that succeeded since one last closed or re-opened

pvars == <<vars, proven>>

PInit == Init /\ proven = 0

\* A probe succeeds when it leaves "addSuccess"; leaving HalfOpen ends the count.
Remember ==
  proven' = IF state = "HalfOpen" /\ state' # "HalfOpen" THEN 0
            ELSE IF \E g \in Goroutines :
                      pc[g] = "addSuccess" /\ pc'[g] # "addSuccess"
                 THEN proven + 1
            ELSE proven

PNext == Next /\ Remember

PSpec == PInit /\ [][PNext]_pvars /\ Fairness

-----------------------------------------------------------------------------
\* "On probe success the circuit closes after SuccessThreshold successes"
\* (breaker.go:102): no close rests on fewer, although the counter is zeroed
\* only after Open or Closed is published and goroutines that read an older
\* state still arrive and probe.
ClosesOnProof ==
  [][state # "Closed" /\ state' = "Closed" => proven >= SuccessThreshold]_pvars
=============================================================================
