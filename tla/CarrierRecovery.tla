-------------------------- MODULE CarrierRecovery ---------------------------
(***************************************************************************)
(* A carrier's breaker behind the only code that calls it: fanOut first    *)
(* drops carriers whose breaker reads Open (filterEligibleCarriers), and   *)
(* callCarrier runs Execute only for the ones that are left.  Hedge calls  *)
(* skip Open carriers too and never go through the breaker.                *)
(***************************************************************************)
EXTENDS CircuitBreaker

VARIABLE eligible  \* eligible[g]: g's request kept the carrier

rvars == <<vars, eligible>>

RInit == Init /\ eligible = [g \in Goroutines |-> FALSE]

\* filterEligibleCarriers for a new request of g.
Filter(g) ==
  /\ pc[g] = "idle"
  /\ ~eligible[g]
  /\ eligible' = [eligible EXCEPT ![g] = state # "Open"]
  /\ UNCHANGED vars

\* callCarrier reaches breaker.Execute.
CallCarrier(g) ==
  /\ eligible[g]
  /\ Execute(g)
  /\ eligible' = [eligible EXCEPT ![g] = FALSE]

Runs(g) == Inside(g) /\ UNCHANGED eligible

Clock == Tick /\ UNCHANGED eligible

RNext ==
  \/ \E g \in Goroutines : Filter(g) \/ CallCarrier(g) \/ Runs(g)
  \/ Clock

\* Requests keep arriving and every goroutine runs to completion.
RFairness ==
  /\ \A g \in Goroutines :
       WF_rvars(Filter(g)) /\ WF_rvars(CallCarrier(g)) /\ WF_rvars(Runs(g))
  /\ WF_rvars(Clock)

RSpec == RInit /\ [][RNext]_rvars /\ RFairness

\* "The CB will auto-recover. After `OpenTimeout` (30s), it transitions to
\* HalfOpen and sends a probe" (docs/runbook.md): an Open breaker leaves Open
\* while requests keep arriving.
AutoRecovers == state = "Open" ~> state # "Open"
=============================================================================
