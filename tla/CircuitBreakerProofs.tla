------------------------ MODULE CircuitBreakerProofs ------------------------
(***************************************************************************)
(* Proofs about CircuitBreaker for any set of goroutines and any           *)
(* thresholds: its type invariant, the mutual exclusion of probes, that a  *)
(* reached failure threshold is always acted on, that the breaker          *)
(* implements BreakerContract, and that it closes only after enough        *)
(* successful probes.                                                      *)
(***************************************************************************)
EXTENDS ProbeHistory, TLAPS

\* The type invariant is inductive: every atomic operation of Execute keeps
\* the counters natural and the probe slot 0 or 1.
LEMMA TypeStep == TypeOK /\ [Next]_vars => TypeOK'
<1> SUFFICES ASSUME TypeOK, [Next]_vars PROVE TypeOK'
  OBVIOUS
<1> USE ConfigAssumption DEF TypeOK, States, Labels, ProbeSection, Step, Swap, SetCBState, shared
<1>1. ASSUME NEW g \in Goroutines, Execute(g) PROVE TypeOK'
  BY <1>1 DEF Execute
<1>2. ASSUME NEW g \in Goroutines,
             CheckTimeout(g) \/ ToHalfOpen(g) \/ EmitHalfOpen(g)
      PROVE  TypeOK'
  BY <1>2 DEF CheckTimeout, ToHalfOpen, EmitHalfOpen
<1>3. ASSUME NEW g \in Goroutines,
             \/ ReturnClosed(g) \/ AddFailure(g) \/ Trip(g) \/ StampTrip(g)
             \/ EmitTrip(g) \/ ResetFailures(g)
      PROVE  TypeOK'
  <2>1. CASE ReturnClosed(g) \/ AddFailure(g) \/ Trip(g)
    BY <2>1 DEF ReturnClosed, AddFailure, Trip
  <2>2. CASE StampTrip(g) \/ EmitTrip(g) \/ ResetFailures(g)
    BY <2>2 DEF StampTrip, EmitTrip, ResetFailures
  <2> QED BY <1>3, <2>1, <2>2
<1>4. ASSUME NEW g \in Goroutines,
             \/ Acquire(g) \/ ReturnProbe(g) \/ Reopen(g) \/ StampReopen(g)
             \/ ZeroReopen(g) \/ EmitReopen(g)
      PROVE  TypeOK'
  <2>1. CASE Acquire(g) \/ ReturnProbe(g) \/ Reopen(g)
    BY <2>1 DEF Acquire, ReturnProbe, Reopen
  <2>2. CASE StampReopen(g) \/ ZeroReopen(g) \/ EmitReopen(g)
    BY <2>2 DEF StampReopen, ZeroReopen, EmitReopen
  <2> QED BY <1>4, <2>1, <2>2
<1>5. ASSUME NEW g \in Goroutines,
             \/ AddSuccess(g) \/ Close(g) \/ ZeroFailures(g)
             \/ ZeroSuccesses(g) \/ EmitClosed(g) \/ Release(g)
      PROVE  TypeOK'
  <2>1. CASE AddSuccess(g) \/ Close(g) \/ ZeroFailures(g)
    BY <2>1 DEF AddSuccess, Close, ZeroFailures
  <2>2. CASE ZeroSuccesses(g) \/ EmitClosed(g) \/ Release(g)
    BY <2>2 DEF ZeroSuccesses, EmitClosed, Release
  <2> QED BY <1>5, <2>1, <2>2
<1>6. CASE Tick
  BY <1>6 DEF Tick
<1>7. CASE UNCHANGED vars
  BY <1>7 DEF vars
<1> QED
  BY <1>1, <1>2, <1>3, <1>4, <1>5, <1>6, <1>7 DEF Next, Inside

\* Type correctness of the breaker's atomics and of every goroutine's
\* position in Execute.
THEOREM TypeCorrect == Spec => []TypeOK
<1>1. Init => TypeOK
  BY ConfigAssumption DEF Init, TypeOK, States, Labels
<1> QED
  BY <1>1, TypeStep, PTL DEF Spec
-----------------------------------------------------------------------------
\* The goroutines inside executeHalfOpen's critical section change only by
\* winning the slot's CAS or by the deferred Store(0).
LEMMA SlotStep ==
  ASSUME TypeOK, NEW g \in Goroutines, Execute(g) \/ Inside(g)
  PROVE  \/ /\ UNCHANGED halfOpenInFlight
            /\ \A h \in Goroutines : Probing(h)' <=> Probing(h)
         \/ /\ halfOpenInFlight = 0 /\ halfOpenInFlight' = 1
            /\ ~Probing(g)
            /\ \A h \in Goroutines : Probing(h)' <=> (Probing(h) \/ h = g)
         \/ /\ halfOpenInFlight' = 0
            /\ Probing(g)
            /\ \A h \in Goroutines : Probing(h)' <=> (Probing(h) /\ h # g)
<1> USE DEF TypeOK, Probing, ProbeSection, Step, Swap, SetCBState, shared
<1>1. CASE Execute(g)
  BY <1>1 DEF Execute
<1>2. CASE CheckTimeout(g) \/ ToHalfOpen(g) \/ EmitHalfOpen(g)
  BY <1>2 DEF CheckTimeout, ToHalfOpen, EmitHalfOpen
<1>3. CASE ReturnClosed(g) \/ AddFailure(g) \/ Trip(g)
  BY <1>3 DEF ReturnClosed, AddFailure, Trip
<1>4. CASE StampTrip(g) \/ EmitTrip(g) \/ ResetFailures(g)
  BY <1>4 DEF StampTrip, EmitTrip, ResetFailures
<1>5. CASE Acquire(g)
  BY <1>5 DEF Acquire
<1>6. CASE ReturnProbe(g) \/ Reopen(g) \/ StampReopen(g)
  BY <1>6 DEF ReturnProbe, Reopen, StampReopen
<1>7. CASE ZeroReopen(g) \/ EmitReopen(g) \/ AddSuccess(g)
  BY <1>7 DEF ZeroReopen, EmitReopen, AddSuccess
<1>8. CASE Close(g) \/ ZeroFailures(g) \/ ZeroSuccesses(g) \/ EmitClosed(g)
  BY <1>8 DEF Close, ZeroFailures, ZeroSuccesses, EmitClosed
<1>9. CASE Release(g)
  BY <1>9 DEF Release
<1> QED
  BY <1>1, <1>2, <1>3, <1>4, <1>5, <1>6, <1>7, <1>8, <1>9 DEF Inside

\* Every operation of Execute keeps the probe slot and its holder in step.
LEMMA SingleProbeStep ==
  TypeOK /\ SingleProbe /\ [Next]_vars => SingleProbe'
<1> SUFFICES ASSUME TypeOK, SingleProbe, [Next]_vars PROVE SingleProbe'
  OBVIOUS
<1>1. ASSUME NEW g \in Goroutines, Execute(g) \/ Inside(g) PROVE SingleProbe'
  <2>1. CASE /\ UNCHANGED halfOpenInFlight
             /\ \A h \in Goroutines : Probing(h)' <=> Probing(h)
    BY <2>1 DEF SingleProbe
  <2>2. CASE /\ halfOpenInFlight = 0 /\ halfOpenInFlight' = 1
             /\ ~Probing(g)
             /\ \A h \in Goroutines : Probing(h)' <=> (Probing(h) \/ h = g)
    BY <2>2 DEF SingleProbe
  <2>3. CASE /\ halfOpenInFlight' = 0
             /\ Probing(g)
             /\ \A h \in Goroutines : Probing(h)' <=> (Probing(h) /\ h # g)
    BY <2>3 DEF SingleProbe
  <2> QED BY <1>1, <2>1, <2>2, <2>3, SlotStep
<1>2. CASE Tick
  BY <1>2 DEF Tick, SingleProbe, Probing
<1>3. CASE UNCHANGED vars
  BY <1>3 DEF vars, shared, SingleProbe, Probing
<1> QED
  BY <1>1, <1>2, <1>3 DEF Next

\* However many goroutines race through Execute, at most one runs fn as the
\* HalfOpen probe, and the slot is never leaked.
THEOREM ProbeExclusion == Spec => []SingleProbe
<1>1. Init => SingleProbe
  BY DEF Init, SingleProbe, Probing, ProbeSection
<1> QED
  BY <1>1, TypeCorrect, SingleProbeStep, PTL DEF Spec
-----------------------------------------------------------------------------
\* Every operation of Execute keeps a reached failure threshold in hand.
LEMMA ThresholdStep ==
  TypeOK /\ ThresholdActedOn /\ [Next]_vars => ThresholdActedOn'
<1> SUFFICES ASSUME TypeOK, ThresholdActedOn, [Next]_vars,
                    state' = "Closed", failures' >= FailureThreshold
             PROVE  \E h \in Goroutines : pc'[h] \in {"trip", "zeroFailures"}
  BY DEF ThresholdActedOn
<1> USE ConfigAssumption DEF TypeOK, Step, Swap, SetCBState, shared
<1> DEFINE Pending(h) == pc[h] \in {"trip", "zeroFailures"}
\* A step that leaves state and failures alone and is not one of the two.
<1>1. ASSUME NEW g \in Goroutines, Execute(g) \/ Inside(g),
             state' = state, failures' = failures, ~Pending(g)
      PROVE  \E h \in Goroutines : pc'[h] \in {"trip", "zeroFailures"}
  <2>1. \E h \in Goroutines : Pending(h)
    BY <1>1 DEF ThresholdActedOn
  <2>2. PICK h \in Goroutines : Pending(h)
    BY <2>1
  <2>3. pc'[h] = pc[h]
    <3>1. \A k \in Goroutines : k # g => pc'[k] = pc[k]
      <4>1. CASE Execute(g)
        BY <4>1 DEF Execute
      <4>2. CASE CheckTimeout(g) \/ ToHalfOpen(g) \/ EmitHalfOpen(g) \/ ReturnClosed(g) \/ AddFailure(g) \/ Trip(g) \/ StampTrip(g)
        BY <4>2 DEF CheckTimeout, ToHalfOpen, EmitHalfOpen, ReturnClosed, AddFailure, Trip, StampTrip
      <4>3. CASE EmitTrip(g) \/ ResetFailures(g) \/ Acquire(g) \/ ReturnProbe(g) \/ Reopen(g) \/ StampReopen(g) \/ ZeroReopen(g)
        BY <4>3 DEF EmitTrip, ResetFailures, Acquire, ReturnProbe, Reopen, StampReopen, ZeroReopen
      <4>4. CASE EmitReopen(g) \/ AddSuccess(g) \/ Close(g) \/ ZeroFailures(g) \/ ZeroSuccesses(g) \/ EmitClosed(g) \/ Release(g)
        BY <4>4 DEF EmitReopen, AddSuccess, Close, ZeroFailures, ZeroSuccesses, EmitClosed, Release
      <4> QED BY <1>1, <4>1, <4>2, <4>3, <4>4 DEF Inside
    <3> QED BY <1>1, <2>2, <3>1
  <2> QED BY <2>2, <2>3
<1>2. ASSUME NEW g \in Goroutines, AddFailure(g)
      PROVE  \E h \in Goroutines : pc'[h] \in {"trip", "zeroFailures"}
  BY <1>2 DEF AddFailure
<1>3. ASSUME NEW g \in Goroutines, Close(g)
      PROVE  \E h \in Goroutines : pc'[h] \in {"trip", "zeroFailures"}
  BY <1>3 DEF Close, ThresholdActedOn
<1>4. ASSUME NEW g \in Goroutines, ResetFailures(g) \/ ZeroFailures(g)
      PROVE  FALSE
  BY <1>4 DEF ResetFailures, ZeroFailures
<1>5. ASSUME NEW g \in Goroutines, Trip(g) \/ Reopen(g) \/ ToHalfOpen(g)
      PROVE  \E h \in Goroutines : pc'[h] \in {"trip", "zeroFailures"}
  <2>1. state' = state /\ failures' = failures
    BY <1>5 DEF Trip, Reopen, ToHalfOpen
  <2>2. ~Trip(g)
    BY <2>1 DEF Trip
  <2>3. ~Pending(g)
    BY <1>5, <2>2 DEF Reopen, ToHalfOpen
  <2> QED BY <1>1, <1>5, <2>1, <2>3 DEF Inside
<1>6. ASSUME NEW g \in Goroutines,
             \/ Execute(g) \/ CheckTimeout(g) \/ EmitHalfOpen(g)
             \/ ReturnClosed(g) \/ StampTrip(g) \/ EmitTrip(g) \/ Acquire(g)
             \/ ReturnProbe(g)
      PROVE  \E h \in Goroutines : pc'[h] \in {"trip", "zeroFailures"}
  <2>1. state' = state /\ failures' = failures /\ ~Pending(g)
    BY <1>6 DEF Execute, CheckTimeout, EmitHalfOpen, ReturnClosed, StampTrip,
                EmitTrip, Acquire, ReturnProbe
  <2> QED BY <1>1, <1>6, <2>1 DEF Inside
<1>7. ASSUME NEW g \in Goroutines,
             \/ StampReopen(g) \/ ZeroReopen(g) \/ EmitReopen(g)
             \/ AddSuccess(g) \/ ZeroSuccesses(g) \/ EmitClosed(g)
             \/ Release(g)
      PROVE  \E h \in Goroutines : pc'[h] \in {"trip", "zeroFailures"}
  <2>1. state' = state /\ failures' = failures /\ ~Pending(g)
    BY <1>7 DEF StampReopen, ZeroReopen, EmitReopen, AddSuccess,
                ZeroSuccesses, EmitClosed, Release
  <2> QED BY <1>1, <1>7, <2>1 DEF Inside
<1>8. CASE Tick \/ UNCHANGED vars
  BY <1>8 DEF Tick, vars, ThresholdActedOn
<1> QED
  BY <1>2, <1>3, <1>4, <1>5, <1>6, <1>7, <1>8 DEF Next, Inside

\* A Closed breaker whose failure count has reached the threshold always has
\* a goroutine about to trip it or to reset the count: no interleaving of
\* executeClosed and executeHalfOpen loses the trip.
THEOREM ThresholdNotLost == Spec => []ThresholdActedOn
<1>1. Init => ThresholdActedOn
  BY ConfigAssumption DEF Init, ThresholdActedOn
<1> QED
  BY <1>1, TypeCorrect, ThresholdStep, PTL DEF Spec
-----------------------------------------------------------------------------
\* Every step of the breaker is a step of its contract or leaves the state
\* and the probe slot's holder alone.
LEMMA ContractStep ==
  TypeOK /\ SingleProbe /\ SingleProbe' /\ [Next]_vars
    => [Contract!Next]_Contract!vars
<1> DEFINE P == {g \in Goroutines : Probing(g)}
<1> SUFFICES ASSUME TypeOK, SingleProbe, SingleProbe', [Next]_vars
             PROVE  Contract!Next \/ (state' = state /\ P' = P)
  BY DEF Contract!vars
<1>1. ASSUME NEW g \in Goroutines, Acquire(g) \/ Release(g)
      PROVE  Contract!Next \/ (state' = state /\ P' = P)
  <2>0. state' = state
    BY <1>1 DEF Acquire, Release, shared
  <2>1. CASE /\ UNCHANGED halfOpenInFlight
             /\ \A h \in Goroutines : Probing(h)' <=> Probing(h)
    BY <2>0, <2>1
  <2>2. CASE /\ halfOpenInFlight = 0 /\ halfOpenInFlight' = 1
             /\ ~Probing(g)
             /\ \A h \in Goroutines : Probing(h)' <=> (Probing(h) \/ h = g)
    <3>1. P = {}
      BY <2>2 DEF SingleProbe
    <3>2. P' = {g}
      BY <2>2, <3>1
    <3> QED BY <2>0, <3>1, <3>2 DEF Contract!Next, Contract!TakeSlot
  <2>3. CASE /\ halfOpenInFlight' = 0
             /\ Probing(g)
             /\ \A h \in Goroutines : Probing(h)' <=> (Probing(h) /\ h # g)
    <3>1. P = {g}
      BY <2>3 DEF SingleProbe
    <3>2. P' = {}
      BY <2>3, <3>1
    <3> QED BY <2>0, <3>1, <3>2 DEF Contract!Next, Contract!FreeSlot
  <2> QED BY <1>1, <2>1, <2>2, <2>3, SlotStep DEF Inside
<1>2. ASSUME NEW g \in Goroutines, Execute(g) \/ Inside(g),
             ~Acquire(g), ~Release(g)
      PROVE  P' = P
  <2> USE <1>2 DEF TypeOK, Probing, ProbeSection, Step, Swap, SetCBState, shared
  <2> SUFFICES \A h \in Goroutines : Probing(h)' <=> Probing(h)
    OBVIOUS
  <2>1. CASE Execute(g) \/ CheckTimeout(g) \/ ToHalfOpen(g) \/ EmitHalfOpen(g)
    BY <2>1 DEF Execute, CheckTimeout, ToHalfOpen, EmitHalfOpen
  <2>2. CASE ReturnClosed(g) \/ AddFailure(g) \/ Trip(g)
    BY <2>2 DEF ReturnClosed, AddFailure, Trip
  <2>3. CASE StampTrip(g) \/ EmitTrip(g) \/ ResetFailures(g)
    BY <2>3 DEF StampTrip, EmitTrip, ResetFailures
  <2>4. CASE ReturnProbe(g) \/ Reopen(g) \/ StampReopen(g)
    BY <2>4 DEF ReturnProbe, Reopen, StampReopen
  <2>5. CASE ZeroReopen(g) \/ EmitReopen(g) \/ AddSuccess(g)
    BY <2>5 DEF ZeroReopen, EmitReopen, AddSuccess
  <2>6. CASE Close(g) \/ ZeroFailures(g) \/ ZeroSuccesses(g) \/ EmitClosed(g)
    BY <2>6 DEF Close, ZeroFailures, ZeroSuccesses, EmitClosed
  <2> QED BY <2>1, <2>2, <2>3, <2>4, <2>5, <2>6 DEF Inside
<1>3. ASSUME NEW g \in Goroutines, Reopen(g) \/ Close(g)
      PROVE  Contract!Next \/ (state' = state /\ P' = P)
  <2>1. P # {}
    BY <1>3 DEF Reopen, Close, Swap, Step, Probing, ProbeSection
  <2>2. P' = P
    BY <1>2, <1>3 DEF Inside, Acquire, Release, Reopen, Close,
       Swap, Step
  <2>3. state' = state \/ (state = "HalfOpen" /\ state' \in {"Closed", "Open"})
    BY <1>3 DEF Reopen, Close, Swap, shared
  <2> QED BY <2>1, <2>2, <2>3 DEF Contract!Next, Contract!Decide
<1>4. ASSUME NEW g \in Goroutines, Trip(g) \/ ToHalfOpen(g)
      PROVE  Contract!Next \/ (state' = state /\ P' = P)
  <2>1. P' = P
    BY <1>2, <1>4 DEF Inside, Acquire, Release, Trip, ToHalfOpen,
       Swap, Step
  <2>2. \/ state' = state
        \/ state = "Closed" /\ state' = "Open"
        \/ state = "Open" /\ state' = "HalfOpen"
    BY <1>4 DEF Trip, ToHalfOpen, Swap, shared
  <2> QED BY <2>1, <2>2 DEF Contract!Next, Contract!Open, Contract!AllowProbe
<1>5. ASSUME NEW g \in Goroutines, Execute(g) \/ Inside(g),
             ~Acquire(g), ~Release(g), ~Reopen(g), ~Close(g), ~Trip(g),
             ~ToHalfOpen(g)
      PROVE  state' = state
  <2> USE DEF SetCBState
  <2>1. CASE Execute(g) \/ CheckTimeout(g) \/ EmitHalfOpen(g) \/ ReturnClosed(g)
    BY <2>1 DEF Execute, CheckTimeout, EmitHalfOpen, ReturnClosed, shared
  <2>2. CASE AddFailure(g) \/ StampTrip(g) \/ EmitTrip(g) \/ ResetFailures(g)
    BY <2>2 DEF AddFailure, StampTrip, EmitTrip, ResetFailures
  <2>3. CASE ReturnProbe(g) \/ StampReopen(g) \/ ZeroReopen(g) \/ EmitReopen(g)
    BY <2>3 DEF ReturnProbe, StampReopen, ZeroReopen, EmitReopen, shared
  <2>4. CASE AddSuccess(g) \/ ZeroFailures(g) \/ ZeroSuccesses(g) \/ EmitClosed(g)
    BY <2>4 DEF AddSuccess, ZeroFailures, ZeroSuccesses, EmitClosed
  <2> QED BY <1>5, <2>1, <2>2, <2>3, <2>4 DEF Inside
<1>6. CASE Tick \/ UNCHANGED vars
  BY <1>6 DEF Tick, vars, shared, Probing
<1> QED
  BY <1>1, <1>2, <1>3, <1>4, <1>5, <1>6 DEF Next

\* The lock-free breaker refines BreakerContract: callers see only the four
\* documented transitions, and only a probe leaves HalfOpen.
THEOREM Refinement == Spec => ImplementsContract
<1>1. Init => Contract!Init
  BY DEF Init, Contract!Init, Probing, ProbeSection
<1> QED
  BY <1>1, TypeCorrect, ProbeExclusion, ContractStep, PTL
  DEF Spec, ImplementsContract, Contract!Spec
-----------------------------------------------------------------------------
\* Between the CAS that ends HalfOpen and the Store(0) of successes.
Zeroing == {"stampReopen", "zeroReopen", "zeroFailures", "zeroSuccesses"}

\* The atomic counter is the number of successes since the last verdict, except
\* while the probe that gave the verdict has still to zero it; and only a probe
\* that read enough of them goes on to close.
Counted ==
  /\ proven \in Nat
  /\ (\A g \in Goroutines : pc[g] \notin Zeroing) => successes = proven
  /\ \A g \in Goroutines : pc[g] \in Zeroing => proven = 0
  /\ \A g \in Goroutines : pc[g] = "close" => successes >= SuccessThreshold

\* What a step may do to the state a probe's verdict rests on.
LEMMA CountStep ==
  ASSUME TypeOK, NEW g \in Goroutines, Execute(g) \/ Inside(g)
  PROVE  /\ \A h \in Goroutines \ {g} : pc'[h] = pc[h]
         /\ \/ /\ pc[g] \notin Zeroing \cup {"addSuccess"}
               /\ pc'[g] \notin Zeroing \cup {"close", "addSuccess"}
                    \/ (pc[g] = "callProbe" /\ pc'[g] = "addSuccess")
               /\ UNCHANGED successes
               /\ ~(state = "HalfOpen" /\ state' # "HalfOpen")
            \/ /\ pc[g] = "addSuccess" /\ successes' = successes + 1
               /\ pc'[g] \in {"close", "release"} /\ UNCHANGED state
               /\ pc'[g] = "close" => successes' >= SuccessThreshold
            \/ /\ pc[g] \in {"reopen", "close"} /\ pc'[g] \in Zeroing
               /\ state = "HalfOpen" /\ state' # "HalfOpen"
               /\ UNCHANGED successes
            \/ /\ pc[g] \in {"stampReopen", "zeroFailures"}
               /\ pc'[g] \in Zeroing
               /\ UNCHANGED <<state, successes>>
            \/ /\ pc[g] \in {"zeroReopen", "zeroSuccesses"}
               /\ pc'[g] \in {"emitReopen", "emitClosed"}
               /\ successes' = 0 /\ UNCHANGED state
<1> USE ConfigAssumption DEF TypeOK, Zeroing, Step, Swap, SetCBState, shared
<1>1. CASE Execute(g)
  BY <1>1 DEF Execute
<1>2. CASE CheckTimeout(g) \/ ToHalfOpen(g) \/ EmitHalfOpen(g)
  BY <1>2 DEF CheckTimeout, ToHalfOpen, EmitHalfOpen
<1>3. CASE ReturnClosed(g) \/ AddFailure(g) \/ Trip(g)
  BY <1>3 DEF ReturnClosed, AddFailure, Trip
<1>4. CASE StampTrip(g) \/ EmitTrip(g) \/ ResetFailures(g)
  BY <1>4 DEF StampTrip, EmitTrip, ResetFailures
<1>5. CASE Acquire(g) \/ ReturnProbe(g)
  BY <1>5 DEF Acquire, ReturnProbe
<1>6. CASE Reopen(g)
  BY <1>6 DEF Reopen
<1>7. CASE StampReopen(g) \/ ZeroReopen(g) \/ EmitReopen(g)
  BY <1>7 DEF StampReopen, ZeroReopen, EmitReopen
<1>8. CASE AddSuccess(g)
  BY <1>8 DEF AddSuccess
<1>9. CASE Close(g)
  BY <1>9 DEF Close
<1>10. CASE ZeroFailures(g) \/ ZeroSuccesses(g)
  BY <1>10 DEF ZeroFailures, ZeroSuccesses
<1>11. CASE EmitClosed(g) \/ Release(g)
  BY <1>11 DEF EmitClosed, Release
<1> QED
  BY <1>1, <1>2, <1>3, <1>4, <1>5, <1>6, <1>7, <1>8, <1>9, <1>10, <1>11
     DEF Inside

LEMMA CountedStep ==
  TypeOK /\ SingleProbe /\ Counted /\ [PNext]_pvars => Counted'
<1> SUFFICES ASSUME TypeOK, SingleProbe, Counted, [PNext]_pvars PROVE Counted'
  OBVIOUS
<1>1. ASSUME NEW g \in Goroutines, Execute(g) \/ Inside(g), Remember
      PROVE  Counted'
  <2>1. successes \in Nat /\ proven \in Nat
    BY DEF TypeOK, Counted
  <2>2. \A h \in Goroutines \ {g} : pc'[h] = pc[h]
    BY <1>1, CountStep
  <2>3. ASSUME pc[g] \in ProbeSection, NEW h \in Goroutines, h # g
        PROVE  pc[h] \notin Zeroing \cup {"addSuccess", "close"}
    BY <2>3 DEF SingleProbe, Probing, ProbeSection, Zeroing
  <2>4. CASE /\ pc[g] \notin Zeroing \cup {"addSuccess"}
             /\ pc'[g] \notin Zeroing \cup {"close", "addSuccess"}
                  \/ (pc[g] = "callProbe" /\ pc'[g] = "addSuccess")
             /\ UNCHANGED successes
             /\ ~(state = "HalfOpen" /\ state' # "HalfOpen")
    <3>1. pc'[g] \notin Zeroing \cup {"close"}
      BY <2>4 DEF Zeroing
    <3>2. UNCHANGED proven
      BY <1>1, <2>2, <2>4 DEF Remember
    <3> QED BY <2>1, <2>2, <2>4, <3>1, <3>2 DEF Counted
  <2>5. CASE /\ pc[g] = "addSuccess" /\ successes' = successes + 1
             /\ pc'[g] \in {"close", "release"} /\ UNCHANGED state
             /\ pc'[g] = "close" => successes' >= SuccessThreshold
    <3>1. proven' = proven + 1
      BY <1>1, <2>5 DEF Remember
    <3>2. \A h \in Goroutines : pc[h] \notin Zeroing /\ pc'[h] \notin Zeroing
      BY <2>2, <2>3, <2>5 DEF ProbeSection, Zeroing
    <3>3. \A h \in Goroutines : pc'[h] = "close" => h = g
      BY <2>2, <2>3, <2>5 DEF ProbeSection
    <3> QED BY <2>1, <2>5, <3>1, <3>2, <3>3 DEF Counted
  <2>6. CASE /\ pc[g] \in {"reopen", "close"} /\ pc'[g] \in Zeroing
             /\ state = "HalfOpen" /\ state' # "HalfOpen"
             /\ UNCHANGED successes
    <3>1. proven' = 0
      BY <1>1, <2>6 DEF Remember
    <3>2. \A h \in Goroutines : pc'[h] # "close"
      BY <2>2, <2>3, <2>6 DEF ProbeSection, Zeroing
    <3> QED BY <2>6, <3>1, <3>2 DEF Counted
  <2>7. CASE /\ pc[g] \in {"stampReopen", "zeroFailures"}
             /\ pc'[g] \in Zeroing
             /\ UNCHANGED <<state, successes>>
    <3>1. proven = 0 /\ \A h \in Goroutines : pc'[h] # "close"
      BY <2>2, <2>3, <2>7 DEF ProbeSection, Zeroing, Counted
    <3>2. proven' = 0
      BY <1>1, <2>2, <2>7, <3>1 DEF Remember
    <3> QED BY <2>7, <3>1, <3>2 DEF Counted
  <2>8. CASE /\ pc[g] \in {"zeroReopen", "zeroSuccesses"}
             /\ pc'[g] \in {"emitReopen", "emitClosed"}
             /\ successes' = 0 /\ UNCHANGED state
    <3>1. proven = 0 /\ \A h \in Goroutines : pc'[h] # "close"
      BY <2>2, <2>3, <2>8 DEF ProbeSection, Zeroing, Counted
    <3>2. proven' = 0
      BY <1>1, <2>2, <2>8, <3>1 DEF Remember
    <3> QED BY <2>8, <3>1, <3>2 DEF Counted
  <2> QED BY <1>1, <2>4, <2>5, <2>6, <2>7, <2>8, CountStep
<1>2. CASE Tick /\ Remember
  <2>1. UNCHANGED <<state, successes, pc>> /\ UNCHANGED proven
    BY <1>2 DEF Tick, Remember
  <2> QED BY <2>1 DEF Counted
<1>3. CASE UNCHANGED pvars
  BY <1>3 DEF pvars, vars, shared, Counted
<1> QED
  BY <1>1, <1>2, <1>3 DEF PNext, Next

\* The history variable restricts nothing: what holds of the breaker holds here.
LEMMA HistoryKeepsSpec == PSpec => Spec
<1>1. PInit => Init
  BY DEF PInit
<1>2. [PNext]_pvars => [Next]_vars
  BY DEF PNext, pvars
<1> QED BY <1>1, <1>2, PTL DEF PSpec, Spec

\* The breaker closes only after SuccessThreshold probes succeeded since a probe
\* last closed or re-opened it, however late goroutines with an older state come.
THEOREM ClosedOnProof == PSpec => ClosesOnProof
<1>1. PInit => Counted
  BY DEF PInit, Init, Counted, Zeroing
<1>2. /\ TypeOK /\ SingleProbe /\ Counted /\ [PNext]_pvars
      => [state # "Closed" /\ state' = "Closed" =>
            proven >= SuccessThreshold]_pvars
  <2> SUFFICES ASSUME TypeOK, SingleProbe, Counted, PNext,
                      state # "Closed", state' = "Closed"
               PROVE  proven >= SuccessThreshold
    OBVIOUS
  <2>1. PICK g \in Goroutines : Close(g)
    <3>1. ~Tick
      BY DEF Tick
    <3>2. ASSUME NEW g \in Goroutines, Execute(g) \/ Inside(g) PROVE Close(g)
      BY <3>2 DEF Execute, Inside, CheckTimeout, ToHalfOpen, EmitHalfOpen,
         ReturnClosed, AddFailure, Trip, StampTrip, EmitTrip, ResetFailures,
         Acquire, ReturnProbe, Reopen, StampReopen, ZeroReopen, EmitReopen,
         AddSuccess, ZeroFailures, ZeroSuccesses, EmitClosed, Release,
         Swap, SetCBState, shared
    <3> QED BY <3>1, <3>2 DEF PNext, Next
  <2>2. pc[g] = "close"
    BY <2>1 DEF Close, Swap, Step
  <2>3. \A h \in Goroutines : pc[h] \notin Zeroing
    BY <2>2 DEF SingleProbe, Probing, ProbeSection, Zeroing
  <2> QED BY <2>2, <2>3 DEF Counted
<1> QED
  BY <1>1, <1>2, CountedStep, HistoryKeepsSpec, TypeCorrect, ProbeExclusion,
     PTL DEF PSpec, ClosesOnProof
=============================================================================
