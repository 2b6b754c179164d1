---------------------------- MODULE CallCarrier ----------------------------
(***************************************************************************)
(* Concurrent calls of Orchestrator.callCarrier for one carrier, around    *)
(* the state they share: its rate limiter (RateLimiter), its latency       *)
(* tracker (EMATracker) and its carrier_requests_total counters.           *)
(*                                                                         *)
(* The breaker may let a call through or refuse it (CircuitBreaker), the   *)
(* adapter may answer or fail (CarrierAdapter); the send of the answer is  *)
(* FanOut's.  The goroutines of callCarrier are the callers of Wait.       *)
(***************************************************************************)
EXTENDS RateLimiter, EMATracker

ASSUME CallersAssumption == Callers = Goroutines

VARIABLES
  registered,     \* the registry has an adapter for the carrier
  call,           \* call[g]: where g's callCarrier is
  requestsTotal   \* carrier_requests_total, by status

callVars == <<limiterVars, vars, registered, call, requestsTotal>>

Statuses == {"rate_limited", "circuit_open", "timeout", "error", "success"}

\* What execFn may return: the context's errors, the carrier's, or another.
AdapterErrors == {"DeadlineExceeded", "Canceled", "ErrCarrierUnavailable",
                  "other"}

classifyError(err) ==
  CASE err = "ErrCircuitOpen" -> "circuit_open"
    [] err = "ErrRateLimitExceeded" -> "rate_limited"
    [] err \in {"DeadlineExceeded", "ErrCarrierTimeout"} -> "timeout"
    [] OTHER -> "error"

CallInit ==
  /\ LimiterInit
  /\ Init
  /\ registered \in BOOLEAN
  /\ call = [g \in Goroutines |-> "wait"]
  /\ requestsTotal = [s \in Statuses |-> 0]

Moves(g, from, to) ==
  /\ call[g] = from
  /\ call' = [call EXCEPT ![g] = to]

RecordQuote(status) ==
  requestsTotal' = [requestsTotal EXCEPT ![status] = @ + 1]

\* registry.Get finds no adapter: the call returns, with nothing but a log.
NoAdapter(g) ==
  /\ ~registered
  /\ Moves(g, "wait", "returned")
  /\ UNCHANGED <<registered, limiterVars, vars, requestsTotal>>

\* limiter.Wait and other requests' hedges, which both have an adapter.
Limiter ==
  /\ registered
  /\ LimiterNext
  /\ UNCHANGED <<registered, vars, call, requestsTotal>>

\* Variant: a skipped carrier is only logged.
SkipSilent(g) ==
  /\ Moves(g, "wait", "returned")
  /\ wait[g] = "refused"
  /\ UNCHANGED <<registered, limiterVars, vars, requestsTotal>>

\* Wait returned an error, whichever: the carrier is skipped.
Skip(g) ==
  /\ Moves(g, "wait", "returned")
  /\ wait[g] = "refused"
  /\ RecordQuote("rate_limited")
  /\ UNCHANGED <<registered, limiterVars, vars>>

\* breaker.Execute refuses the call ...
CircuitOpen(g) ==
  /\ Moves(g, "wait", "returned")
  /\ wait[g] = "granted"
  /\ RecordQuote(classifyError("ErrCircuitOpen"))
  /\ UNCHANGED <<registered, limiterVars, vars>>

\* ... or calls the adapter,
Exec(g) ==
  /\ Moves(g, "wait", "exec")
  /\ wait[g] = "granted"
  /\ UNCHANGED <<registered, limiterVars, vars, requestsTotal>>

\* which fails
ExecFails(g, err) ==
  /\ Moves(g, "exec", "returned")
  /\ RecordQuote(classifyError(err))
  /\ UNCHANGED <<registered, limiterVars, vars>>

\* Variant: the latency is not recorded.
ExecSucceedsUnrecorded(g, l) ==
  /\ Moves(g, "exec", "record")
  /\ UNCHANGED <<registered, limiterVars, vars, requestsTotal>>

\* or answers: tracker.Record is called,
ExecSucceeds(g, l) ==
  /\ Moves(g, "exec", "record")
  /\ Record(g, l)
  /\ UNCHANGED <<registered, limiterVars, requestsTotal>>

Tracker(g) ==
  /\ call[g] = "record"
  /\ Inside(g)
  /\ UNCHANGED <<registered, limiterVars, call, requestsTotal>>

\* and the success is counted once it returned.
Success(g) ==
  /\ Moves(g, "record", "returned")
  /\ pc[g] = "idle"
  /\ RecordQuote("success")
  /\ UNCHANGED <<registered, limiterVars, vars>>

CallNext ==
  \/ Limiter
  \/ \E g \in Goroutines :
       \/ NoAdapter(g) \/ Skip(g) \/ CircuitOpen(g) \/ Exec(g)
       \/ \E err \in AdapterErrors : ExecFails(g, err)
       \/ \E l \in Latencies : ExecSucceeds(g, l)
       \/ Tracker(g) \/ Success(g)

\* The scheduler runs every goroutine that is inside tracker.Record.
CallSpec ==
  /\ CallInit /\ [][CallNext]_callVars
  /\ \A g \in Goroutines : WF_callVars(Tracker(g))

-----------------------------------------------------------------------------
(* Properties                                                              *)

\* Types, those of the limiter and the tracker included.
CallTypeOK ==
  /\ LimiterTypeOK
  /\ TypeOK
  /\ registered \in BOOLEAN
  /\ call \in [Goroutines -> {"wait", "exec", "record", "returned"}]
  /\ requestsTotal \in [Statuses -> 0..Cardinality(Goroutines)]

Returned == {g \in Goroutines : call[g] = "returned"}

\* Of the callCarriers the tracker blends exactly those that succeed: a failed,
\* refused or timed-out one never moves the p95, no success is left out of it,
\* and so a carrier whose warm-up is over never returns to it (REQ-HEDGE-002).
\* Hedges call the adapter too, and are neither recorded nor counted.
ObservationsAreSuccesses ==
  state.observations = requestsTotal["success"]
    + Cardinality({g \in Goroutines : call[g] = "record"
                                      /\ pc[g] \in {"emit", "idle"}})

\* Every callCarrier of a carrier with an adapter is counted once, under one
\* status, whatever error it met: in particular a skip by the limiter counts as
\* rate_limited although Wait does not turn every refusal into
\* ErrRateLimitExceeded.  Calls of a carrier without one leave no count.
OneOutcomePerCall ==
  /\ requestsTotal["rate_limited"] + requestsTotal["circuit_open"]
       + requestsTotal["timeout"] + requestsTotal["error"]
       + requestsTotal["success"] = IF registered THEN Cardinality(Returned)
                                    ELSE 0
  /\ requestsTotal["rate_limited"] =
       Cardinality({g \in Returned : wait[g] = "refused"})
=============================================================================
