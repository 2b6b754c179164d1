------------------------- MODULE CallCarrierProofs -------------------------
(***************************************************************************)
(* Proofs about CallCarrier for any number of concurrent calls: its steps  *)
(* are steps of the limiter and of the tracker, whose theorems therefore   *)
(* hold here, and the counters agree with what the calls did.              *)
(***************************************************************************)
EXTENDS CallCarrier, RateLimiterProofs, EMATrackerProofs

CallTypes ==
  /\ registered \in BOOLEAN
  /\ call \in [Goroutines -> {"wait", "exec", "record", "returned"}]
  /\ requestsTotal \in [Statuses -> Nat]

\* A call leaves Wait with its answer, and is inside Record only when callCarrier
\* is; without an adapter none enters Wait.
Positions ==
  \A g \in Goroutines :
    /\ call[g] \in {"exec", "record"} => wait[g] = "granted"
    /\ call[g] = "returned" /\ registered => wait[g] \in {"granted", "refused"}
    /\ ~registered => wait[g] = "ready"
    /\ call[g] # "record" => pc[g] = "idle"

CallInv ==
  /\ LimiterInv /\ TrackerInv
  /\ CallTypes /\ Positions
  /\ ObservationsAreSuccesses /\ OneOutcomePerCall

\* All calls counted, under whatever status.
Total ==
  requestsTotal["rate_limited"] + requestsTotal["circuit_open"]
    + requestsTotal["timeout"] + requestsTotal["error"]
    + requestsTotal["success"]

\* The calls that are counted.
Countable == IF registered THEN Cardinality(Returned) ELSE 0

\* The calls that returned because Wait refused them.
Skipped == {g \in Returned : wait[g] = "refused"}

\* The calls whose latency is blended and whose success is not counted yet.
Observing ==
  {g \in Goroutines : call[g] = "record" /\ pc[g] \in {"emit", "idle"}}

-----------------------------------------------------------------------------
(* Counting                                                                *)

LEMMA SetsCounted ==
  /\ IsFiniteSet(Returned) /\ Cardinality(Returned) \in Nat
  /\ IsFiniteSet(Skipped) /\ Cardinality(Skipped) \in Nat
  /\ IsFiniteSet(Observing) /\ Cardinality(Observing) \in Nat
  /\ Cardinality(Returned) <= Cardinality(Goroutines)
  /\ Cardinality(Goroutines) \in Nat
<1>1. /\ IsFiniteSet(Returned) /\ Cardinality(Returned) <= Cardinality(Goroutines)
      /\ IsFiniteSet(Skipped) /\ IsFiniteSet(Observing)
  <2>1. /\ Returned \subseteq Goroutines /\ Skipped \subseteq Goroutines
        /\ Observing \subseteq Goroutines
    BY DEF Returned, Skipped, Observing
  <2> QED BY <2>1, TrackerAssumption, FS_Subset
<1> QED BY <1>1, TrackerAssumption, FS_CardinalityType

\* RecordQuote adds one call under one status.
LEMMA QuoteRecorded ==
  ASSUME CallTypes, NEW s \in Statuses, RecordQuote(s)
  PROVE  /\ requestsTotal' \in [Statuses -> Nat]
         /\ Total \in Nat /\ Total' = Total + 1
         /\ \A t \in Statuses :
              requestsTotal'[t] = IF t = s THEN requestsTotal[t] + 1
                                           ELSE requestsTotal[t]
<1>1. /\ requestsTotal' \in [Statuses -> Nat]
      /\ \A t \in Statuses :
           /\ requestsTotal[t] \in Nat
           /\ requestsTotal'[t] = IF t = s THEN requestsTotal[t] + 1
                                           ELSE requestsTotal[t]
  BY DEF CallTypes, RecordQuote
<1>2. Total \in Nat /\ Total' = Total + 1
  <2>1. /\ requestsTotal["rate_limited"] \in Nat
        /\ requestsTotal["circuit_open"] \in Nat
        /\ requestsTotal["timeout"] \in Nat
        /\ requestsTotal["error"] \in Nat
        /\ requestsTotal["success"] \in Nat
    BY <1>1 DEF Statuses
  <2>2. CASE s = "rate_limited"
    BY <1>1, <2>1, <2>2 DEF Total, Statuses
  <2>3. CASE s = "circuit_open"
    BY <1>1, <2>1, <2>3 DEF Total, Statuses
  <2>4. CASE s = "timeout"
    BY <1>1, <2>1, <2>4 DEF Total, Statuses
  <2>5. CASE s = "error"
    BY <1>1, <2>1, <2>5 DEF Total, Statuses
  <2>6. CASE s = "success"
    BY <1>1, <2>1, <2>6 DEF Total, Statuses
  <2> QED BY <2>2, <2>3, <2>4, <2>5, <2>6 DEF Statuses
<1> QED BY <1>1, <1>2

\* A call that returns and is counted under the right status keeps the counts.
LEMMA ReturnCounted ==
  ASSUME CallTypes, OneOutcomePerCall, NEW g \in Goroutines,
         NEW s \in Statuses, NEW from, Moves(g, from, "returned"),
         from # "returned", RecordQuote(s), UNCHANGED <<registered, wait>>,
         registered,
         wait[g] \in {"granted", "refused"},
         s = "rate_limited" <=> wait[g] = "refused"
  PROVE  OneOutcomePerCall'
<1>1. /\ call[g] # "returned" /\ call'[g] = "returned"
      /\ \A h \in Goroutines \ {g} : call'[h] = call[h]
  BY DEF Moves, CallTypes
<1>2. Returned' = Returned \cup {g} /\ g \notin Returned
  BY <1>1 DEF Returned
<1>3. /\ Skipped' = IF wait[g] = "refused" THEN Skipped \cup {g} ELSE Skipped
      /\ g \notin Skipped
  BY <1>2 DEF Skipped
<1>4. /\ Cardinality(Returned') = Cardinality(Returned) + 1
      /\ Cardinality(Skipped') = IF wait[g] = "refused"
                                 THEN Cardinality(Skipped) + 1
                                 ELSE Cardinality(Skipped)
  BY <1>2, <1>3, SetsCounted, FS_AddElement
<1>5. /\ Total \in Nat /\ Total' = Total + 1
      /\ requestsTotal'["rate_limited"] =
           IF s = "rate_limited" THEN requestsTotal["rate_limited"] + 1
                                 ELSE requestsTotal["rate_limited"]
  BY QuoteRecorded DEF Statuses
<1>6. /\ Total = Countable
      /\ requestsTotal["rate_limited"] = Cardinality(Skipped)
  BY DEF OneOutcomePerCall, Total, Countable, Skipped
<1>7. /\ Total' = Countable'
      /\ requestsTotal'["rate_limited"] = Cardinality(Skipped')
  BY <1>4, <1>5, <1>6 DEF Countable
<1> QED BY <1>7 DEF OneOutcomePerCall, Total, Countable, Skipped

\* Steps that return no call keep the counts.
LEMMA OutcomesKept ==
  ASSUME OneOutcomePerCall, UNCHANGED <<registered, requestsTotal>>,
         Countable' = Countable, Skipped' = Skipped
  PROVE  OneOutcomePerCall'
<1>1. Total = Countable /\ requestsTotal["rate_limited"] = Cardinality(Skipped)
  BY DEF OneOutcomePerCall, Total, Countable, Skipped
<1>2. Total' = Total
  BY DEF Total
<1>3. /\ Total' = Countable'
      /\ requestsTotal'["rate_limited"] = Cardinality(Skipped')
  BY <1>1, <1>2
<1> QED BY <1>3 DEF OneOutcomePerCall, Total, Countable, Skipped

\* In particular those that leave the calls that returned alone.
LEMMA NoneReturns ==
  ASSUME OneOutcomePerCall, UNCHANGED <<registered, requestsTotal>>,
         Returned' = Returned, \A g \in Returned : wait'[g] = wait[g]
  PROVE  OneOutcomePerCall'
<1>1. Countable' = Countable /\ Skipped' = Skipped
  BY DEF Countable, Skipped
<1> QED BY <1>1, OutcomesKept

\* Steps that neither swap nor count a success keep the observations.
LEMMA ObservationsSame ==
  ASSUME ObservationsAreSuccesses, state'.observations = state.observations,
         requestsTotal'["success"] = requestsTotal["success"],
         Observing' = Observing
  PROVE  ObservationsAreSuccesses'
BY DEF ObservationsAreSuccesses, Observing

-----------------------------------------------------------------------------
(* The components                                                          *)

\* Every step of a call is a step of the limiter and of the tracker, or leaves
\* them alone.
LEMMA CallParts ==
  ASSUME [CallNext]_callVars
  PROVE  [LimiterNext]_limiterVars /\ [Next]_vars
<1>1. CASE UNCHANGED callVars
  BY <1>1 DEF callVars
<1>2. CASE Limiter
  BY <1>2 DEF Limiter
<1>3. CASE \E g \in Goroutines :
             \/ NoAdapter(g) \/ Skip(g) \/ CircuitOpen(g) \/ Exec(g)
             \/ Success(g)
             \/ \E err \in AdapterErrors : ExecFails(g, err)
  BY <1>3 DEF NoAdapter, Skip, CircuitOpen, Exec, Success, ExecFails
<1>4. CASE \E g \in Goroutines : \E l \in Latencies : ExecSucceeds(g, l)
  BY <1>4 DEF ExecSucceeds, Next
<1>5. CASE \E g \in Goroutines : Tracker(g)
  BY <1>5 DEF Tracker, Next
<1> QED BY <1>1, <1>2, <1>3, <1>4, <1>5 DEF CallNext

\* The limiter answers a call once.
LEMMA Answered ==
  ASSUME LimiterTypeOK, [LimiterNext]_limiterVars, NEW g \in Callers,
         wait[g] \in {"granted", "refused"}
  PROVE  wait'[g] = wait[g]
<1>1. CASE UNCHANGED wait
  BY <1>1
<1>2. ASSUME NEW r \in Callers, wait[r] \in {"ready", "timer"},
             NEW outcome, Becomes(r, outcome)
      PROVE  wait'[g] = wait[g]
  BY <1>2 DEF Becomes, LimiterTypeOK
<1>3. CASE \E r \in Callers : \E d \in now..Horizon : Wait(r, d)
  BY <1>2, <1>3 DEF Wait, RejectCounted, RejectUncounted
<1>4. CASE \E r \in Callers : Wake(r) \/ CtxEnds(r)
  BY <1>2, <1>4 DEF Wake, CtxEnds, RejectCounted
<1> QED BY <1>1, <1>3, <1>4 DEF LimiterNext, limiterVars, Refill, TryAcquire

-----------------------------------------------------------------------------
(* The inductive invariant                                                 *)

LEMMA CallInitInv == CallInit => CallInv
<1> SUFFICES ASSUME CallInit PROVE CallInv
  OBVIOUS
<1>1. LimiterInit /\ Init
  BY DEF CallInit
<1>2. LimiterInv /\ TrackerInv
  BY <1>1, LimiterInitInv, TrackerInitInv
<1>3. /\ registered \in BOOLEAN
      /\ call = [g \in Goroutines |-> "wait"]
      /\ wait = [g \in Callers |-> "ready"]
      /\ requestsTotal = [s \in Statuses |-> 0]
      /\ \A g \in Goroutines : pc[g] = "idle"
      /\ state.observations = 0
  BY <1>1 DEF CallInit, Init, Initial, LimiterInit
<1>4. CallTypes
  BY <1>3 DEF CallTypes
<1>5. Positions
  BY <1>3, CallersAssumption DEF Positions
<1>6. Cardinality({}) = 0
  BY FS_EmptySet
<1>7. ObservationsAreSuccesses
  <2>1. Observing = {}
    BY <1>3 DEF Observing
  <2>2. requestsTotal["success"] = 0
    BY <1>3 DEF Statuses
  <2>3. state.observations = requestsTotal["success"] + Cardinality(Observing)
    BY <1>3, <1>6, <2>1, <2>2
  <2> QED BY <2>3 DEF ObservationsAreSuccesses, Observing
<1>8. OneOutcomePerCall
  <2>1. Returned = {} /\ Skipped = {}
    BY <1>3 DEF Returned, Skipped
  <2>2. Total = 0 /\ requestsTotal["rate_limited"] = 0
    BY <1>3 DEF Statuses, Total
  <2>3. /\ Total = Countable
        /\ requestsTotal["rate_limited"] = Cardinality(Skipped)
    BY <1>6, <2>1, <2>2 DEF Countable
  <2> QED BY <2>3 DEF OneOutcomePerCall, Total, Countable, Skipped
<1> QED BY <1>2, <1>4, <1>5, <1>7, <1>8 DEF CallInv

\* The part of the invariant the components do not have.
Outcomes ==
  CallTypes /\ Positions /\ ObservationsAreSuccesses /\ OneOutcomePerCall

\* A step of the limiter changes no answer a call has acted on.
LEMMA LimiterStep ==
  ASSUME CallInv, Limiter
  PROVE  Outcomes'
<1> USE CallersAssumption DEF CallInv
<1>1. /\ LimiterNext /\ registered
      /\ UNCHANGED <<registered, vars, call, requestsTotal>>
  BY DEF Limiter
<1>2. \A g \in Goroutines : wait[g] \in {"granted", "refused"} => wait'[g] = wait[g]
  BY <1>1, Answered DEF LimiterInv
<1>3. CallTypes'
  BY <1>1 DEF CallTypes
<1>4. Positions'
  BY <1>1, <1>2 DEF Positions, vars
<1>5. ObservationsAreSuccesses'
  BY <1>1 DEF ObservationsAreSuccesses, vars
<1>6. OneOutcomePerCall'
  <2>1. Returned' = Returned
    BY <1>1 DEF Returned
  <2>2. \A g \in Returned : wait'[g] = wait[g]
    BY <1>1, <1>2 DEF Returned, Positions
  <2> QED BY <1>1, <2>1, <2>2, NoneReturns
<1> QED BY <1>3, <1>4, <1>5, <1>6 DEF Outcomes

\* NoAdapter: a call that returns uncounted.
LEMMA NoAdapterStep ==
  ASSUME CallInv, NEW g \in Goroutines, NoAdapter(g)
  PROVE  Outcomes'
<1> USE DEF CallInv
<1>1. /\ ~registered /\ call[g] = "wait" /\ call'[g] = "returned"
      /\ call' \in [Goroutines -> {"wait", "exec", "record", "returned"}]
      /\ \A h \in Goroutines \ {g} : call'[h] = call[h]
      /\ UNCHANGED <<registered, wait, pc, state, requestsTotal>>
  BY DEF NoAdapter, Moves, CallTypes, limiterVars, vars
<1>2. CallTypes' /\ Positions'
  BY <1>1 DEF CallTypes, Positions
<1>3. Observing' = Observing /\ Countable' = Countable
  BY <1>1 DEF Observing, Countable
<1>4. Skipped' = Skipped
  BY <1>1 DEF Skipped, Returned, Positions
<1> QED BY <1>1, <1>2, <1>3, <1>4, ObservationsSame, OutcomesKept DEF Outcomes

\* Skip, CircuitOpen and ExecFails: a call that returns without a quote.
LEMMA FailureStep ==
  ASSUME CallInv, NEW g \in Goroutines,
         NEW from \in {"wait", "exec"}, Moves(g, from, "returned"),
         NEW s \in Statuses \ {"success"}, RecordQuote(s),
         UNCHANGED <<registered, limiterVars, vars>>,
         wait[g] \in {"granted", "refused"},
         s = "rate_limited" <=> wait[g] = "refused"
  PROVE  Outcomes'
<1> USE DEF CallInv
<1>1. /\ call[g] \in {"wait", "exec"} /\ call'[g] = "returned"
      /\ call' \in [Goroutines -> {"wait", "exec", "record", "returned"}]
      /\ \A h \in Goroutines \ {g} : call'[h] = call[h]
      /\ UNCHANGED <<registered, wait, pc, state>>
  BY DEF Moves, CallTypes, limiterVars, vars
<1>2. CallTypes' /\ requestsTotal'["success"] = requestsTotal["success"]
  BY <1>1, QuoteRecorded DEF CallTypes, Statuses
<1>3. Positions'
  BY <1>1 DEF Positions
<1>4. ObservationsAreSuccesses'
  <2>1. Observing' = Observing
    BY <1>1 DEF Observing
  <2> QED BY <1>1, <1>2, <2>1, ObservationsSame
<1>5. OneOutcomePerCall'
  <2>1. registered
    BY DEF Positions
  <2> QED BY <1>1, <2>1, ReturnCounted
<1> QED BY <1>2, <1>3, <1>4, <1>5 DEF Outcomes

\* Exec: nothing is counted yet.
LEMMA ExecStep ==
  ASSUME CallInv, NEW g \in Goroutines, Exec(g)
  PROVE  Outcomes'
<1> USE DEF CallInv
<1>1. /\ call[g] = "wait" /\ call'[g] = "exec" /\ wait[g] = "granted"
      /\ call' \in [Goroutines -> {"wait", "exec", "record", "returned"}]
      /\ \A h \in Goroutines \ {g} : call'[h] = call[h]
      /\ UNCHANGED <<registered, wait, pc, state, requestsTotal>>
  BY DEF Exec, Moves, CallTypes, limiterVars, vars
<1>2. CallTypes' /\ Positions'
  BY <1>1 DEF CallTypes, Positions
<1>3. Observing' = Observing /\ Returned' = Returned
  BY <1>1 DEF Observing, Returned
<1> QED BY <1>1, <1>2, <1>3, ObservationsSame, NoneReturns DEF Outcomes

\* ExecSucceeds: the call is inside Record and not counted yet.
LEMMA ExecSucceedsStep ==
  ASSUME CallInv, NEW g \in Goroutines, NEW l \in Latencies, ExecSucceeds(g, l)
  PROVE  Outcomes'
<1> USE DEF CallInv
<1>1. /\ call[g] = "exec" /\ call'[g] = "record"
      /\ call' \in [Goroutines -> {"wait", "exec", "record", "returned"}]
      /\ pc'[g] = "load"
      /\ \A h \in Goroutines \ {g} : call'[h] = call[h] /\ pc'[h] = pc[h]
      /\ UNCHANGED <<registered, wait, state, requestsTotal>>
  BY DEF ExecSucceeds, Moves, Record, CallTypes, TrackerInv, TypeOK,
         limiterVars, vars
<1>2. CallTypes' /\ Positions'
  BY <1>1 DEF CallTypes, Positions
<1>3. Observing' = Observing /\ Returned' = Returned
  BY <1>1 DEF Observing, Returned
<1> QED BY <1>1, <1>2, <1>3, ObservationsSame, NoneReturns DEF Outcomes

\* Tracker: the swap that succeeds counts one observation and makes its call
\* one whose success is still to be counted.
LEMMA TrackerStep ==
  ASSUME CallInv, NEW g \in Goroutines, Tracker(g)
  PROVE  Outcomes'
<1> USE DEF CallInv
<1>1. /\ call[g] = "record" /\ Inside(g)
      /\ UNCHANGED <<registered, wait, call, requestsTotal>>
  BY DEF Tracker, limiterVars
<1>2. \A h \in Goroutines \ {g} : pc'[h] = pc[h]
  BY <1>1 DEF Inside, Load, CompareAndSwap, Emit, TrackerInv, TypeOK
<1>3. CallTypes' /\ Positions'
  BY <1>1, <1>2 DEF CallTypes, Positions
<1>4. Returned' = Returned
  BY <1>1 DEF Returned
<1>5. OneOutcomePerCall'
  BY <1>1, <1>4, NoneReturns
<1>6. ObservationsAreSuccesses'
  <2>1. CASE Load(g) \/ Emit(g) \/ (CompareAndSwap(g) /\ ~UnchangedSince(g))
    <3>1. /\ pc[g] \in {"emit", "idle"} <=> pc'[g] \in {"emit", "idle"}
          /\ UNCHANGED state
      BY <2>1 DEF Load, Emit, CompareAndSwap, Retry, TrackerInv, TypeOK
    <3>2. Observing' = Observing
      BY <1>1, <1>2, <3>1 DEF Observing
    <3> QED BY <1>1, <3>1, <3>2, ObservationsSame
  <2>2. CASE CompareAndSwap(g) /\ UnchangedSince(g)
    <3>1. /\ pc[g] = "swap" /\ pc'[g] = "emit"
          /\ state'.observations = state.observations + 1
      BY <2>2 DEF CompareAndSwap, UnchangedSince, Installed, Blend,
                  TrackerInv, TypeOK
    <3>2. Observing' = Observing \cup {g} /\ g \notin Observing
      BY <1>1, <1>2, <3>1 DEF Observing
    <3>3. Cardinality(Observing') = Cardinality(Observing) + 1
      BY <3>2, SetsCounted, FS_AddElement
    <3>4. /\ state.observations = requestsTotal["success"]
                                    + Cardinality(Observing)
          /\ requestsTotal["success"] \in Nat
      BY DEF ObservationsAreSuccesses, Observing, CallTypes, Statuses
    <3>5. state'.observations = requestsTotal'["success"]
                                  + Cardinality(Observing')
      BY <1>1, <3>1, <3>3, <3>4, SetsCounted
    <3> QED BY <3>5 DEF ObservationsAreSuccesses, Observing
  <2> QED BY <1>1, <2>1, <2>2 DEF Inside
<1> QED BY <1>3, <1>5, <1>6 DEF Outcomes

\* Success: the counted success replaces the call that was inside Record.
LEMMA SuccessStep ==
  ASSUME CallInv, NEW g \in Goroutines, Success(g)
  PROVE  Outcomes'
<1> USE DEF CallInv
<1>1. /\ Moves(g, "record", "returned") /\ RecordQuote("success")
      /\ call[g] = "record" /\ call'[g] = "returned" /\ pc[g] = "idle"
      /\ call' \in [Goroutines -> {"wait", "exec", "record", "returned"}]
      /\ \A h \in Goroutines \ {g} : call'[h] = call[h]
      /\ UNCHANGED <<registered, wait, pc, state>>
  BY DEF Success, Moves, CallTypes, limiterVars, vars
<1>2. /\ requestsTotal' \in [Statuses -> Nat]
      /\ requestsTotal["success"] \in Nat
      /\ requestsTotal'["success"] = requestsTotal["success"] + 1
  BY <1>1, QuoteRecorded DEF Statuses, CallTypes
<1>3. wait[g] = "granted" /\ registered
  BY <1>1 DEF Positions
<1>4. CallTypes' /\ Positions'
  BY <1>1, <1>2, <1>3 DEF CallTypes, Positions
<1>5. OneOutcomePerCall'
  BY <1>1, <1>3, ReturnCounted DEF Statuses
<1>6. ObservationsAreSuccesses'
  <2>1. Observing' = Observing \ {g} /\ g \in Observing
    BY <1>1 DEF Observing
  <2>2. Cardinality(Observing') = Cardinality(Observing) - 1
    BY <2>1, SetsCounted, FS_RemoveElement
  <2>3. state.observations = requestsTotal["success"] + Cardinality(Observing)
    BY DEF ObservationsAreSuccesses, Observing
  <2>4. state'.observations = requestsTotal'["success"]
                                + Cardinality(Observing')
    BY <1>1, <1>2, <2>2, <2>3, SetsCounted
  <2> QED BY <2>4 DEF ObservationsAreSuccesses, Observing
<1> QED BY <1>4, <1>5, <1>6 DEF Outcomes

\* Every step keeps the invariant.
LEMMA CallNextInv == CallInv /\ [CallNext]_callVars => CallInv'
<1> SUFFICES ASSUME CallInv, [CallNext]_callVars PROVE CallInv'
  OBVIOUS
<1>1. LimiterInv' /\ TrackerInv'
  BY CallParts, LimiterNextInv, TrackerNextInv DEF CallInv
<1>2. Outcomes'
  <2>1. CASE UNCHANGED callVars
    BY <2>1 DEF callVars, limiterVars, vars, CallInv, Outcomes, CallTypes,
                Positions, ObservationsAreSuccesses, OneOutcomePerCall, Returned
  <2>2. CASE Limiter
    BY <2>2, LimiterStep
  <2>3. ASSUME NEW g \in Goroutines, Skip(g) PROVE Outcomes'
    BY <2>3, FailureStep DEF Skip, Statuses
  <2>4. ASSUME NEW g \in Goroutines, CircuitOpen(g) PROVE Outcomes'
    BY <2>4, FailureStep DEF CircuitOpen, Statuses, classifyError
  <2>5. ASSUME NEW g \in Goroutines, NEW err \in AdapterErrors,
               ExecFails(g, err)
        PROVE  Outcomes'
    <3>1. /\ classifyError(err) \in Statuses \ {"success"}
          /\ classifyError(err) # "rate_limited"
      BY DEF AdapterErrors, classifyError, Statuses
    <3>2. wait[g] = "granted"
      BY <2>5 DEF ExecFails, Moves, CallInv, Positions
    <3> QED BY <2>5, <3>1, <3>2, FailureStep DEF ExecFails
  <2> QED BY <2>1, <2>2, <2>3, <2>4, <2>5, NoAdapterStep, ExecStep, ExecSucceedsStep,
             TrackerStep, SuccessStep DEF CallNext
<1> QED BY <1>1, <1>2 DEF CallInv, Outcomes

-----------------------------------------------------------------------------
(* Theorems                                                                *)

\* The concurrent calls implement their limiter and their tracker: what is
\* proved of those holds for callCarrier.
THEOREM CallRefinesParts == CallSpec => LimiterSpec /\ Spec
<1>1. CallInit => LimiterInit /\ Init
  BY DEF CallInit
<1>2. [CallNext]_callVars => [LimiterNext]_limiterVars /\ [Next]_vars
  BY CallParts
<1> QED BY <1>1, <1>2, PTL DEF CallSpec, LimiterSpec, Spec

\* CallInv holds in every state of the concurrent calls.
THEOREM CallInvariant == CallSpec => []CallInv
<1> QED BY CallInitInv, CallNextInv, PTL DEF CallSpec

\* Types of the limiter, the tracker and the counters.
THEOREM CallTypesHold == CallSpec => []CallTypeOK
<1>1. CallInv => CallTypeOK
  <2> SUFFICES ASSUME CallInv PROVE CallTypeOK
    OBVIOUS
  <2>1. ASSUME NEW s \in Statuses
        PROVE  requestsTotal[s] \in 0..Cardinality(Goroutines)
    <3>1. Total = Countable
      BY DEF CallInv, OneOutcomePerCall, Total, Countable
    <3>2. \A t \in Statuses : requestsTotal[t] \in Nat
      BY DEF CallInv, CallTypes
    <3>3. requestsTotal[s] <= Total
      BY <3>2 DEF Total, Statuses
    <3> QED BY <3>1, <3>2, <3>3, SetsCounted DEF Countable
  <2>2. requestsTotal \in [Statuses -> 0..Cardinality(Goroutines)]
    BY <2>1 DEF CallInv, CallTypes
  <2> QED BY <2>2 DEF CallInv, LimiterInv, TrackerInv, CallTypes, CallTypeOK
<1> QED BY <1>1, CallInvariant, PTL

\* All calls of one carrier together, primaries and hedges, keep to its rate.
THEOREM CallsKeepRate == CallSpec => []RateBound
<1> QED BY CallRefinesParts, ArrivalCurve, PTL

\* No hedge takes a token from a callCarrier that waits for one.
THEOREM CallsOutrankHedges == CallSpec => HedgeYieldsToWaiters
<1> QED BY CallRefinesParts, HedgesYield, PTL

\* No latency of a finished callCarrier is lost or blended twice.
THEOREM CallsObserved == CallSpec => []NoObservationLost
<1> QED BY CallRefinesParts, ObservationsKept, PTL

\* The p95 gauge always shows an installed value.
THEOREM CallsGauge == CallSpec => []GaugeWasCurrent
<1> QED BY CallRefinesParts, GaugeCurrent, PTL

\* The tracker blends the successful callCarriers and no others.
THEOREM SuccessesObserved == CallSpec => []ObservationsAreSuccesses
<1>1. CallInv => ObservationsAreSuccesses
  BY DEF CallInv
<1> QED BY <1>1, CallInvariant, PTL

\* Every callCarrier of a carrier with an adapter is counted once, as
\* rate_limited exactly if Wait refused it; without an adapter none is.
THEOREM CallsCountedOnce == CallSpec => []OneOutcomePerCall
<1>1. CallInv => OneOutcomePerCall
  BY DEF CallInv
<1> QED BY <1>1, CallInvariant, PTL
=============================================================================
