------------------------ MODULE CarrierAdapterProofs ------------------------
(***************************************************************************)
(* Proofs about HTTPCarrier and CarrierAdapter for any number of retries   *)
(* and any validity a carrier sends.                                       *)
(***************************************************************************)
EXTENDS CarrierAdapter, TLAPS

-----------------------------------------------------------------------------
(* Post                                                                    *)

\* While Post runs, every attempt so far failed in a way that is retried.
Undecided ==
  pc # "returned" =>
    /\ result = "none"
    /\ attempt = Len(log)
    /\ attempt <= MaxRetries
    /\ \A i \in 1..Len(log) : log[i] \notin {"decoded", "4xx"}

\* An attempt delivers at most one request.
Deliveries ==
  /\ pc \in {"marshal", "send", "deliver", "backoff"} => delivered <= attempt
  /\ pc = "await" => delivered <= attempt + 1
  /\ pc = "backoff" => attempt >= 1

\* No attempt starts a request after the end of the caller's context, so no
\* other one is on its way once one came late.
Cancellation == late > 0 => late = 1 /\ ctxDone /\ pc # "deliver"

\* Post returns with a reason, and without an error only after a body decoded.
Decided ==
  /\ pc = "returned" => result # "none"
  /\ result = "nil" => log # <<>> /\ log[Len(log)] = "decoded"

PostInv ==
  /\ TypeOK /\ Undecided /\ Deliveries /\ Decided /\ Cancellation
  /\ FinalAnswerIsLast /\ GivesUpForCause

\* withDefaults leaves a positive number of retries.
LEMMA RetriesPositive == MaxRetries \in Nat \ {0}
BY RetriesAssumption DEF MaxRetries

LEMMA PostInit == Init => PostInv
<1> SUFFICES ASSUME Init PROVE PostInv
  OBVIOUS
<1> USE RetriesPositive DEF Init
<1>1. log \in Seq(Outcomes) /\ Len(log) = 0
  OBVIOUS
<1>2. ctxDone \in BOOLEAN
  BY Zenon
<1>3. TypeOK
  BY <1>1, <1>2 DEF TypeOK
<1>4. FinalAnswerIsLast
  BY DEF FinalAnswerIsLast
<1>5. GivesUpForCause
  BY DEF GivesUpForCause
<1>6. Undecided /\ Deliveries /\ Decided /\ Cancellation
  BY <1>1 DEF Undecided, Deliveries, Decided, Cancellation
<1> QED BY <1>3, <1>4, <1>5, <1>6 DEF PostInv

\* The end of an iteration keeps the invariant, however the attempt ended.
LEMMA AttemptStep ==
  ASSUME PostInv, pc \in {"send", "deliver", "await"}, NEW o \in Outcomes,
         AfterAttempt(o), UNCHANGED <<ctxDone, delivered, late>>
  PROVE  PostInv'
<1> USE RetriesPositive DEF PostInv
<1>1. /\ log \in Seq(Outcomes) /\ attempt = Len(log) /\ attempt \in Nat
      /\ attempt <= MaxRetries /\ result = "none"
      /\ \A i \in 1..Len(log) : log[i] \notin {"decoded", "4xx"}
  BY DEF TypeOK, Undecided
<1>2. /\ log' \in Seq(Outcomes) /\ Len(log') = attempt + 1
      /\ \A i \in 1..attempt : log'[i] \notin {"decoded", "4xx"}
      /\ log'[attempt + 1] = o
      /\ log' # <<>>
      /\ DOMAIN log' = 1..(attempt + 1)
  BY <1>1 DEF AfterAttempt
<1>3. /\ delivered' \in Nat /\ delivered' <= attempt + 1
      /\ late' \in 0..delivered'
  BY <1>1 DEF Deliveries, TypeOK
<1>4. ctxDone' \in BOOLEAN
  BY DEF TypeOK
<1>c. Cancellation'
  BY DEF Cancellation, AfterAttempt, ReturnWith
<1>5. CASE ~Retries(o)
  <2>1. /\ o \in {"decoded", "4xx"} /\ pc' = "returned" /\ attempt' = attempt
        /\ result' = IF o = "decoded" THEN "nil" ELSE "nonRetryable"
    BY <1>5 DEF AfterAttempt, Retries, ReturnWith
  <2>2. TypeOK'
    BY <1>1, <1>2, <1>3, <1>4, <2>1 DEF TypeOK
  <2>3. Undecided' /\ Deliveries'
    BY <2>1 DEF Undecided, Deliveries
  <2>4. Decided'
    BY <1>2, <2>1 DEF Decided
  <2>5. FinalAnswerIsLast'
    BY <1>1, <1>2, <2>1 DEF FinalAnswerIsLast
  <2>6. GivesUpForCause'
    BY <2>1 DEF GivesUpForCause
  <2> QED BY <1>c, <2>2, <2>3, <2>4, <2>5, <2>6
<1>6. CASE Retries(o)
  <2>1. /\ o \notin {"decoded", "4xx"} /\ attempt' = attempt + 1
        /\ \/ attempt' <= MaxRetries /\ pc' = "backoff" /\ result' = "none"
           \/ attempt' = MaxRetries + 1 /\ pc' = "returned"
              /\ result' = "allFailed"
    BY <1>1, <1>6 DEF AfterAttempt, Retries, ReturnWith, AttemptsLeft
  <2>2. TypeOK'
    BY <1>1, <1>2, <1>3, <1>4, <2>1 DEF TypeOK
  <2>3. \A i \in 1..Len(log') : log'[i] \notin {"decoded", "4xx"}
    BY <1>1, <1>2, <2>1
  <2>4. Undecided' /\ Deliveries' /\ Decided'
    BY <1>1, <1>2, <1>3, <2>1, <2>3 DEF Undecided, Deliveries, Decided
  <2>5. FinalAnswerIsLast'
    BY <1>2, <2>3 DEF FinalAnswerIsLast
  <2>6. GivesUpForCause'
    BY <1>1, <1>2, <2>1 DEF GivesUpForCause
  <2> QED BY <1>c, <2>2, <2>4, <2>5, <2>6
<1> QED BY <1>5, <1>6

\* Every step of Post, of the carrier and of the caller keeps the invariant.
LEMMA PostNext == PostInv /\ [Next]_vars => PostInv'
<1> SUFFICES ASSUME PostInv, [Next]_vars PROVE PostInv'
  OBVIOUS
<1> USE RetriesPositive DEF PostInv
<1>1. CASE UNCHANGED vars
  BY <1>1 DEF vars, TypeOK, Undecided, Deliveries, Decided, Cancellation,
              FinalAnswerIsLast, GivesUpForCause
<1>2. CASE Marshal
  <2>1. /\ pc = "marshal" /\ UNCHANGED <<attempt, ctxDone, delivered, late, log>>
        /\ \/ pc' = "returned" /\ result' = "marshalError"
           \/ pc' = "send" /\ result' = result
    BY <1>2 DEF Marshal, ReturnWith
  <2>2. DOMAIN log = 1..Len(log)
    BY DEF TypeOK
  <2>3. TypeOK'
    BY <2>1 DEF TypeOK
  <2>4. FinalAnswerIsLast'
    BY <2>1, <2>2 DEF FinalAnswerIsLast, Undecided
  <2> QED BY <2>1, <2>3, <2>4
          DEF Undecided, Deliveries, Decided, Cancellation, GivesUpForCause
<1>3. CASE CtxEnds
  <2>1. /\ ~ctxDone /\ ctxDone' = TRUE
        /\ UNCHANGED <<pc, attempt, delivered, late, log, result>>
    BY <1>3 DEF CtxEnds
  <2>2. ctxDone' \in BOOLEAN
    BY <2>1, Zenon
  <2>3. TypeOK'
    BY <2>1, <2>2 DEF TypeOK
  <2>4. Undecided' /\ Deliveries' /\ Decided' /\ FinalAnswerIsLast'
    BY <2>1 DEF Undecided, Deliveries, Decided, FinalAnswerIsLast
  <2>5. GivesUpForCause'
    BY <2>1 DEF GivesUpForCause
  <2>6. Cancellation'
    BY <2>1 DEF Cancellation
  <2> QED BY <2>3, <2>4, <2>5, <2>6
<1>4. CASE Send
  <2>1. /\ pc = "send" /\ pc' = "deliver" /\ ~ctxDone
        /\ UNCHANGED <<attempt, ctxDone, delivered, late, log, result>>
    BY <1>4 DEF Send, AttemptCtxAlive
  <2>2. TypeOK'
    BY <2>1 DEF TypeOK
  <2>3. FinalAnswerIsLast'
    BY <2>1 DEF FinalAnswerIsLast
  <2> QED BY <2>1, <2>2, <2>3
          DEF Undecided, Deliveries, Decided, Cancellation, GivesUpForCause
<1>d. CASE Deliver
  <2>1. /\ pc = "deliver" /\ pc' = "await" /\ delivered' = delivered + 1
        /\ late' = IF ctxDone THEN late + 1 ELSE late
        /\ UNCHANGED <<attempt, ctxDone, log, result>>
    BY <1>d DEF Deliver
  <2>2. /\ delivered \in Nat /\ attempt \in Nat /\ delivered <= attempt
        /\ attempt <= MaxRetries /\ late \in 0..delivered
    BY <2>1 DEF TypeOK, Deliveries, Undecided
  <2>3. late = 0
    BY <2>1, <2>2 DEF Cancellation
  <2>4. TypeOK'
    BY <2>1, <2>2 DEF TypeOK
  <2>5. FinalAnswerIsLast'
    BY <2>1 DEF FinalAnswerIsLast
  <2>6. Cancellation'
    BY <2>1, <2>3 DEF Cancellation
  <2> QED BY <2>1, <2>2, <2>4, <2>5, <2>6
          DEF Undecided, Deliveries, Decided, GivesUpForCause
<1>5. CASE SendFails \/ AttemptEnds \/ Respond
  BY <1>5, AttemptStep DEF SendFails, AttemptEnds, Respond, Outcomes
<1>6. CASE BackoffElapses
  <2>1. /\ pc = "backoff" /\ pc' = "send"
        /\ UNCHANGED <<attempt, ctxDone, delivered, late, log, result>>
    BY <1>6 DEF BackoffElapses
  <2>2. TypeOK'
    BY <2>1 DEF TypeOK
  <2>3. FinalAnswerIsLast'
    BY <2>1 DEF FinalAnswerIsLast
  <2> QED BY <2>1, <2>2, <2>3
          DEF Undecided, Deliveries, Decided, Cancellation, GivesUpForCause
<1>7. CASE BackoffCancelled
  <2>1. /\ pc = "backoff" /\ ctxDone /\ pc' = "returned"
        /\ result' = "cancelled"
        /\ UNCHANGED <<attempt, ctxDone, delivered, late, log>>
    BY <1>7 DEF BackoffCancelled, ReturnWith
  <2>2. /\ attempt = Len(log) /\ attempt \in 1..MaxRetries
        /\ DOMAIN log = 1..Len(log)
    BY <2>1 DEF TypeOK, Undecided, Deliveries
  <2>3. TypeOK'
    BY <2>1 DEF TypeOK
  <2>4. FinalAnswerIsLast'
    BY <2>1, <2>2 DEF FinalAnswerIsLast, Undecided
  <2>5. GivesUpForCause'
    BY <2>1, <2>2 DEF GivesUpForCause
  <2> QED BY <2>1, <2>3, <2>4, <2>5 DEF Undecided, Deliveries, Decided,
          Cancellation
<1> QED BY <1>1, <1>2, <1>3, <1>4, <1>d, <1>5, <1>6, <1>7 DEF Next, PostSteps

-----------------------------------------------------------------------------
(* The adapter                                                             *)

Durations == (-MaxDuration - 1)..MaxDuration

\* The closure has an error only when it has returned, converts an answer of
\* Delta only if Post returned none, and returns a quote with a positive
\* validity.
ClosureInv ==
  /\ stage # "returned" => err = "nil"
  /\ carrier = "delta" /\ stage = "answer" => result = "nil"
  /\ stage = "returned" /\ err = "nil" =>
       /\ validFor > 0
       /\ carrier = "delta" => result = "nil"

ClosureTypes ==
  /\ carrier \in {"delta", "mock"}
  /\ stage \in {"convert", "call", "answer", "returned"}
  /\ seconds \in Validities
  /\ validFor \in Durations
  /\ err \in {"nil", "marshalError", "nonRetryable", "allFailed", "cancelled",
              "ctx", "unavailable"}

AdapterInv == PostInv /\ ClosureTypes /\ ClosureInv

\* A product that overflows is a Duration all the same.
LEMMA WrappedInRange ==
  ASSUME NEW n \in Int
  PROVE  Wrapped(n) \in Durations
<1> DEFINE half == MaxDuration + 1
<1>1. half \in Nat \ {0} /\ 2 * half \in Nat \ {0} /\ n + half \in Int
  BY DurationAssumption
<1>2. ASSUME NEW x \in Int, NEW m \in Nat \ {0}
      PROVE  x % m \in 0..(m - 1)
  OBVIOUS
<1>3. (n + half) % (2 * half) \in 0..(2 * half - 1)
  BY <1>1, <1>2
<1> QED BY <1>1, <1>3, DurationAssumption DEF Wrapped, Durations

\* Every quote gets a positive validity.
LEMMA ValidityPositive ==
  ASSUME NEW s \in Int
  PROVE  /\ ValidFor(s) \in Durations /\ ValidFor(s) > 0
         /\ MockValidFor \in Durations /\ MockValidFor > 0
<1>1. s * Second \in Int
  BY DurationAssumption
<1>2. Duration(s) \in Durations
  BY <1>1, WrappedInRange DEF Duration
<1>3. DefaultValidFor \in Durations /\ DefaultValidFor > 0
  BY DurationAssumption DEF Durations
<1> QED BY <1>2, <1>3, DurationAssumption DEF ValidFor, MockValidFor, Durations

\* Every step of the closure is a step of Post or leaves it alone.
LEMMA AdapterPart ==
  ASSUME [AdapterNext]_adapterVars
  PROVE  [Next]_vars
<1>1. CASE PostRuns \/ PostAnswered \/ ContextEnds
  BY <1>1 DEF PostRuns, PostAnswered, ContextEnds, Next
<1> QED BY <1>1 DEF AdapterNext, AdapterRuns, ToCarrierRequest,
        DeltaCallReturns, MockCall, FromCarrierResponse, AdapterReturned,
        adapterVars

LEMMA AdapterInitInv == AdapterInit => AdapterInv
<1> SUFFICES ASSUME AdapterInit PROVE AdapterInv
  OBVIOUS
<1>1. PostInv
  BY PostInit DEF AdapterInit
<1>2. ClosureTypes
  BY DurationAssumption DEF AdapterInit, ClosureTypes, Validities, Durations
<1>3. ClosureInv
  BY DEF AdapterInit, ClosureInv
<1> QED BY <1>1, <1>2, <1>3 DEF AdapterInv

\* Every step keeps the invariant.
LEMMA AdapterNextInv == AdapterInv /\ [AdapterNext]_adapterVars => AdapterInv'
<1> SUFFICES ASSUME AdapterInv, [AdapterNext]_adapterVars PROVE AdapterInv'
  OBVIOUS
<1> USE DEF AdapterInv
<1>1. PostInv'
  BY AdapterPart, PostNext
<1>2. ClosureTypes' /\ ClosureInv'
  <2>1. CASE UNCHANGED adapterVars
    BY <2>1 DEF adapterVars, vars, ClosureTypes, ClosureInv
  <2>2. CASE ToCarrierRequest
    BY <2>2 DEF ToCarrierRequest, Moves, ClosureTypes, ClosureInv
  <2>3. CASE PostRuns
    BY <2>3 DEF PostRuns, ClosureTypes, ClosureInv
  <2>4. CASE PostAnswered
    BY <2>4 DEF PostAnswered, ClosureTypes, ClosureInv
  <2>5. CASE DeltaCallReturns
    <3>1. /\ carrier = "delta" /\ pc = "returned" /\ stage = "call"
          /\ UNCHANGED <<carrier, seconds, validFor, result>>
          /\ \/ /\ result # "nil" /\ stage' = "returned" /\ err' = result
             \/ /\ result = "nil" /\ stage' = "answer" /\ err' = "nil"
      BY <2>5 DEF DeltaCallReturns, Moves, CallFailed, vars
    <3>2. result \in {"marshalError", "nil", "nonRetryable", "allFailed",
                      "cancelled"}
      BY <3>1 DEF PostInv, TypeOK, Decided
    <3> QED BY <3>1, <3>2 DEF ClosureTypes, ClosureInv
  <2>6. CASE MockCall
    BY <2>6 DEF MockCall, Moves, ClosureTypes, ClosureInv, vars
  <2>7. CASE FromCarrierResponse
    <3>1. /\ stage = "answer" /\ stage' = "returned"
          /\ UNCHANGED <<carrier, seconds, err, result>>
          /\ validFor' = IF carrier = "delta" THEN ValidFor(seconds)
                                              ELSE MockValidFor
      BY <2>7 DEF FromCarrierResponse, Moves, vars
    <3>2. seconds \in Int
      BY DurationAssumption DEF ClosureTypes, Validities
    <3>3. validFor' \in Durations /\ validFor' > 0
      BY <3>1, <3>2, ValidityPositive
    <3> QED BY <3>1, <3>3 DEF ClosureTypes, ClosureInv
  <2>8. CASE ContextEnds
    BY <2>8 DEF ContextEnds, CtxEnds, ClosureTypes, ClosureInv
  <2>9. CASE AdapterReturned
    BY <2>1, <2>9 DEF AdapterReturned
  <2> QED BY <2>1, <2>2, <2>3, <2>4, <2>5, <2>6, <2>7, <2>8, <2>9
          DEF AdapterNext, AdapterRuns
<1> QED BY <1>1, <1>2

-----------------------------------------------------------------------------
(* Theorems                                                                *)

\* The Delta adapter and the mock adapters run Post as HTTPCarrier specifies it.
THEOREM AdapterRefinesPost == AdapterSpec => Spec
<1>1. AdapterInit => Init
  BY DEF AdapterInit
<1>2. [AdapterNext]_adapterVars => [Next]_vars
  BY AdapterPart
<1> QED BY <1>1, <1>2, PTL DEF AdapterSpec, Spec

\* AdapterInv holds in every state of the AdapterFunc.
THEOREM AdapterInvariant == AdapterSpec => []AdapterInv
<1> QED BY AdapterInitInv, AdapterNextInv, PTL DEF AdapterSpec

\* Types: Post makes at most MaxRetries + 1 attempts, and every validity is a
\* time.Duration.
THEOREM AdapterTypes == AdapterSpec => []AdapterTypeOK
<1>1. AdapterInv => AdapterTypeOK
  BY DEF AdapterInv, PostInv, ClosureTypes, AdapterTypeOK, Durations
<1> QED BY <1>1, AdapterInvariant, PTL

\* Post sends nothing after a quote or a 4xx, and returns it.
THEOREM DecidedRequestsEnd == AdapterSpec => []FinalAnswerIsLast
<1>1. AdapterInv => FinalAnswerIsLast
  BY DEF AdapterInv, PostInv
<1> QED BY <1>1, AdapterInvariant, PTL

\* Post gives up after all its attempts or because the caller left, and says
\* which.
THEOREM GivingUpHasCause == AdapterSpec => []GivesUpForCause
<1>1. AdapterInv => GivesUpForCause
  BY DEF AdapterInv, PostInv
<1> QED BY <1>1, AdapterInvariant, PTL

\* A returned quote expires in the future, whatever valid_for_seconds was and
\* however it overflowed, and comes from a decoded answer.
THEOREM QuotesAreSound == AdapterSpec => []QuoteSound
<1>1. AdapterInv => QuoteSound
  BY DEF AdapterInv, PostInv, Decided, ClosureInv, QuoteSound
<1> QED BY <1>1, AdapterInvariant, PTL

\* For any number of retries, at most one request reaches the carrier after the
\* caller's context ended.
THEOREM CancelStopsRequests == AdapterSpec => []CancelHonoured
<1>1. AdapterInv => CancelHonoured
  BY DEF AdapterInv, PostInv, TypeOK, Cancellation, CancelHonoured
<1> QED BY <1>1, AdapterInvariant, PTL
=============================================================================
