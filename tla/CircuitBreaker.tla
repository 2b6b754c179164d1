--------------------------- MODULE CircuitBreaker ---------------------------
(***************************************************************************)
(* The per-carrier circuit breaker of internal/circuitbreaker/breaker.go.  *)
(*                                                                         *)
(* The breaker is lock-free: five atomics, and goroutines that run Execute *)
(* concurrently.  Every atomic operation (Load, Store, Add, CAS), every    *)
(* gauge update and every return of the guarded call fn is one action, and *)
(* pc[g] is the next such operation of goroutine g.  A goroutine returns   *)
(* to "idle" when its Execute returns and may call Execute again.          *)
(*                                                                         *)
(* Time appears in the code only as time.Since(openedAt) < OpenTimeout.    *)
(* openAge is that duration, saturated at OpenTimeout; it starts saturated *)
(* because openedAt is initially 0, the Unix epoch.                        *)
(***************************************************************************)
EXTENDS Naturals

CONSTANTS Goroutines,        \* callers of Execute
          FailureThreshold,  \* Config.FailureThreshold after defaulting
          SuccessThreshold,  \* Config.SuccessThreshold after defaulting
          OpenTimeout        \* Config.OpenTimeout, in ticks

\* New() replaces non-positive settings by positive defaults.
ASSUME ConfigAssumption ==
  /\ FailureThreshold \in Nat \ {0}
  /\ SuccessThreshold \in Nat \ {0}
  /\ OpenTimeout \in Nat \ {0}

VARIABLES
  state,             \* atomic state: "Closed", "Open" or "HalfOpen"
  failures,          \* atomic failure counter
  successes,         \* atomic success counter
  halfOpenInFlight,  \* atomic probe slot, 0 or 1
  openAge,           \* min(time.Since(openedAt), OpenTimeout)
  gauge,             \* the carrier_circuit_breaker_state gauge
  pc                 \* pc[g]: next operation of goroutine g

shared == <<state, failures, successes, halfOpenInFlight, openAge, gauge>>
vars == <<shared, pc>>

States == {"Closed", "Open", "HalfOpen"}

\* The operations of executeHalfOpen after its goroutine won the probe slot.
ProbeSection == {"callProbe", "reopen", "stampReopen", "zeroReopen",
                 "emitReopen", "addSuccess", "close", "zeroFailures",
                 "zeroSuccesses", "emitClosed", "release"}

Labels == ProbeSection \cup
  {"idle", "checkTimeout", "toHalfOpen", "emitHalfOpen", "acquire",
   "callClosed", "addFailure", "trip", "stampTrip", "emitTrip",
   "resetFailures"}

\* The atomics hold values of their types, the probe slot is 0 or 1, and every
\* goroutine is at an operation of Execute.
TypeOK ==
  /\ state \in States
  /\ failures \in Nat
  /\ successes \in Nat
  /\ halfOpenInFlight \in {0, 1}
  /\ openAge \in 0..OpenTimeout
  /\ gauge \in States
  /\ pc \in [Goroutines -> Labels]

Init ==
  /\ state = "Closed"
  /\ failures = 0
  /\ successes = 0
  /\ halfOpenInFlight = 0
  /\ openAge = OpenTimeout
  /\ gauge = "Closed"
  /\ pc = [g \in Goroutines |-> "idle"]

Step(g, from, to) ==
  /\ pc[g] = from
  /\ pc' = [pc EXCEPT ![g] = to]

\* state.CompareAndSwap(from, to) and where it leads when won and when lost.
Swap(g, from, to, at, won, lost) ==
  \/ /\ state = from
     /\ Step(g, at, won)
     /\ state' = to
     /\ UNCHANGED <<failures, successes, halfOpenInFlight, openAge, gauge>>
  \/ /\ state # from
     /\ Step(g, at, lost)
     /\ UNCHANGED shared

\* metrics.SetCBState
SetCBState(g, s, at, next) ==
  /\ Step(g, at, next)
  /\ gauge' = s
  /\ UNCHANGED <<state, failures, successes, halfOpenInFlight, openAge>>

-----------------------------------------------------------------------------
(* Execute: read the state once and branch on it.                          *)

\* Variant: only the call that finds the circuit Open goes on to probe.
ExecuteOpenOnly(g) ==
  /\ \/ state = "Open"     /\ Step(g, "idle", "checkTimeout")
     \/ state = "HalfOpen" /\ Step(g, "idle", "idle")
     \/ state = "Closed"   /\ Step(g, "idle", "callClosed")
  /\ UNCHANGED shared

Execute(g) ==
  /\ \/ state = "Open"     /\ Step(g, "idle", "checkTimeout")
     \/ state = "HalfOpen" /\ Step(g, "idle", "acquire")
     \/ state = "Closed"   /\ Step(g, "idle", "callClosed")
  /\ UNCHANGED shared

\* Return ErrCircuitOpen until OpenTimeout has elapsed.
CheckTimeout(g) ==
  /\ Step(g, "checkTimeout",
          IF openAge < OpenTimeout THEN "idle" ELSE "toHalfOpen")
  /\ UNCHANGED shared

\* CAS Open -> HalfOpen; the loser falls through to the probe slot as well.
ToHalfOpen(g) ==
  Swap(g, "Open", "HalfOpen", "toHalfOpen", "emitHalfOpen", "acquire")

EmitHalfOpen(g) == SetCBState(g, "HalfOpen", "emitHalfOpen", "acquire")

-----------------------------------------------------------------------------
(* executeClosed                                                           *)

\* fn returns in the Closed path: an error is counted, success resets.
ReturnClosed(g) ==
  /\ \/ Step(g, "callClosed", "addFailure")
     \/ Step(g, "callClosed", "resetFailures")
  /\ UNCHANGED shared

\* Variant: the comparison with the threshold is > instead of >=.
AddFailureStrict(g) ==
  /\ Step(g, "addFailure",
          IF failures + 1 > FailureThreshold THEN "trip" ELSE "idle")
  /\ failures' = failures + 1
  /\ UNCHANGED <<state, successes, halfOpenInFlight, openAge, gauge>>

AddFailure(g) ==
  /\ Step(g, "addFailure",
          IF failures + 1 >= FailureThreshold THEN "trip" ELSE "idle")
  /\ failures' = failures + 1
  /\ UNCHANGED <<state, successes, halfOpenInFlight, openAge, gauge>>

\* CAS Closed -> Open.
Trip(g) ==
  Swap(g, "Closed", "Open", "trip", "stampTrip", "idle")

StampTrip(g) ==
  /\ Step(g, "stampTrip", "emitTrip")
  /\ openAge' = 0
  /\ UNCHANGED <<state, failures, successes, halfOpenInFlight, gauge>>

EmitTrip(g) == SetCBState(g, "Open", "emitTrip", "idle")

ResetFailures(g) ==
  /\ Step(g, "resetFailures", "idle")
  /\ failures' = 0
  /\ UNCHANGED <<state, successes, halfOpenInFlight, openAge, gauge>>

-----------------------------------------------------------------------------
(* executeHalfOpen                                                         *)

\* Variant: the slot is loaded, not compare-and-swapped.
AcquireUnchecked(g) ==
  /\ Step(g, "acquire", "callProbe")
  /\ halfOpenInFlight' = 1
  /\ UNCHANGED <<state, failures, successes, openAge, gauge>>

\* Variant: the slot is counted with Add(1) and a loser does not undo it.
AcquireByAdd(g) ==
  /\ Step(g, "acquire", IF halfOpenInFlight = 0 THEN "callProbe" ELSE "idle")
  /\ halfOpenInFlight' = halfOpenInFlight + 1
  /\ UNCHANGED <<state, failures, successes, openAge, gauge>>

\* CAS halfOpenInFlight 0 -> 1; the loser returns ErrCircuitOpen.
Acquire(g) ==
  \/ /\ halfOpenInFlight = 0
     /\ Step(g, "acquire", "callProbe")
     /\ halfOpenInFlight' = 1
     /\ UNCHANGED <<state, failures, successes, openAge, gauge>>
  \/ /\ halfOpenInFlight # 0
     /\ Step(g, "acquire", "idle")
     /\ UNCHANGED shared

\* fn returns in the HalfOpen path.
ReturnProbe(g) ==
  /\ \/ Step(g, "callProbe", "reopen")
     \/ Step(g, "callProbe", "addSuccess")
  /\ UNCHANGED shared

\* CAS HalfOpen -> Open on probe failure.
Reopen(g) ==
  Swap(g, "HalfOpen", "Open", "reopen", "stampReopen", "release")

StampReopen(g) ==
  /\ Step(g, "stampReopen", "zeroReopen")
  /\ openAge' = 0
  /\ UNCHANGED <<state, failures, successes, halfOpenInFlight, gauge>>

\* Variant: the successes of the failed period are kept.
ZeroReopenForgotten(g) ==
  /\ Step(g, "zeroReopen", "emitReopen")
  /\ UNCHANGED shared

ZeroReopen(g) ==
  /\ Step(g, "zeroReopen", "emitReopen")
  /\ successes' = 0
  /\ UNCHANGED <<state, failures, halfOpenInFlight, openAge, gauge>>

EmitReopen(g) == SetCBState(g, "Open", "emitReopen", "release")

AddSuccess(g) ==
  /\ Step(g, "addSuccess",
          IF successes + 1 >= SuccessThreshold THEN "close" ELSE "release")
  /\ successes' = successes + 1
  /\ UNCHANGED <<state, failures, halfOpenInFlight, openAge, gauge>>

\* Variant: the state is stored, not compare-and-swapped.
CloseUnchecked(g) ==
  /\ Step(g, "close", "zeroFailures")
  /\ state' = "Closed"
  /\ UNCHANGED <<failures, successes, halfOpenInFlight, openAge, gauge>>

\* CAS HalfOpen -> Closed once enough probes succeeded.
Close(g) ==
  Swap(g, "HalfOpen", "Closed", "close", "zeroFailures", "release")

ZeroFailures(g) ==
  /\ Step(g, "zeroFailures", "zeroSuccesses")
  /\ failures' = 0
  /\ UNCHANGED <<state, successes, halfOpenInFlight, openAge, gauge>>

ZeroSuccesses(g) ==
  /\ Step(g, "zeroSuccesses", "emitClosed")
  /\ successes' = 0
  /\ UNCHANGED <<state, failures, halfOpenInFlight, openAge, gauge>>

EmitClosed(g) == SetCBState(g, "Closed", "emitClosed", "release")

\* The deferred Store(0) that frees the probe slot.
Release(g) ==
  /\ Step(g, "release", "idle")
  /\ halfOpenInFlight' = 0
  /\ UNCHANGED <<state, failures, successes, openAge, gauge>>

-----------------------------------------------------------------------------
\* The clock.
Tick ==
  /\ openAge < OpenTimeout
  /\ openAge' = openAge + 1
  /\ UNCHANGED <<state, failures, successes, halfOpenInFlight, gauge, pc>>

\* What a goroutine does once it is inside Execute.
Inside(g) ==
  \/ CheckTimeout(g) \/ ToHalfOpen(g) \/ EmitHalfOpen(g)
  \/ ReturnClosed(g) \/ AddFailure(g) \/ Trip(g) \/ StampTrip(g)
  \/ EmitTrip(g) \/ ResetFailures(g)
  \/ Acquire(g) \/ ReturnProbe(g) \/ Reopen(g) \/ StampReopen(g)
  \/ ZeroReopen(g) \/ EmitReopen(g) \/ AddSuccess(g) \/ Close(g)
  \/ ZeroFailures(g) \/ ZeroSuccesses(g) \/ EmitClosed(g) \/ Release(g)

Next ==
  \/ \E g \in Goroutines : Execute(g) \/ Inside(g)
  \/ Tick

Spec == Init /\ [][Next]_vars

\* The scheduler runs every goroutine, and fn returns (callCarrier bounds it by
\* the request deadline).  Requests keep arriving, but filterEligibleCarriers
\* lets them call Execute only while the breaker is not Open.
Fairness ==
  \A g \in Goroutines :
    WF_vars(state # "Open" /\ Execute(g)) /\ WF_vars(Inside(g))

-----------------------------------------------------------------------------
(* Properties                                                              *)

Probing(g) == pc[g] \in ProbeSection

\* At most one goroutine is between winning and freeing the probe slot, and
\* the slot is taken exactly while one is: never shared, never leaked
\* (executeHalfOpen's CAS and its deferred Store(0)).
SingleProbe ==
  /\ \A g, h \in Goroutines : Probing(g) /\ Probing(h) => g = h
  /\ halfOpenInFlight = 1 <=> \E g \in Goroutines : Probing(g)

\* The breaker cannot rest in Closed with the failure count at or above the
\* threshold: some goroutine is then about to trip it or to reset the count.
\* (executeClosed's Add-then-CAS against executeHalfOpen's CAS-then-Store.)
ThresholdActedOn ==
  state = "Closed" /\ failures >= FailureThreshold =>
    \E g \in Goroutines : pc[g] \in {"trip", "zeroFailures"}

\* What callers may rely on, with the goroutines in executeHalfOpen as the
\* holders of the probe slot.
Contract == INSTANCE BreakerContract
              WITH probers <- {g \in Goroutines : Probing(g)}

\* The breaker implements its contract: only the four documented transitions
\* happen, one probe at a time, and HalfOpen is left only by the goroutine
\* that holds the slot.
ImplementsContract == Contract!Spec

\* HalfOpen is never permanent: a probe closes or re-opens the circuit, as long
\* as requests keep arriving.
HalfOpenIsDecided == state = "HalfOpen" ~> state # "HalfOpen"
=============================================================================
