---------------------------- MODULE HTTPCarrier ----------------------------
(***************************************************************************)
(* One call of HTTPCarrier.Post (internal/adapter/http_carrier.go): the    *)
(* retry loop with its backoff, the attempts doOnce makes, the caller's    *)
(* context and the carrier's API, which may refuse, fail, answer garbage,  *)
(* or process a request and never answer it.                               *)
(*                                                                         *)
(* Backoff delays and timeouts are not measured: a timer that was started  *)
(* may fire at any later time.                                             *)
(***************************************************************************)
EXTENDS Integers, Sequences

CONSTANT ConfiguredRetries  \* HTTPCarrierConfig.MaxRetries

ASSUME RetriesAssumption == ConfiguredRetries \in Int

VARIABLES
  pc,         \* where Post is
  attempt,    \* the loop counter
  ctxDone,    \* the caller's context is cancelled or past its deadline
  delivered,  \* history: requests that reached the carrier
  late,       \* history: those that did after the caller's context ended
  log,        \* history: how each finished attempt ended
  result      \* what Post returned

vars == <<pc, attempt, ctxDone, delivered, late, log, result>>

\* How doOnce can end: no status (network error, timeout, cancelled context),
\* an error status, a body that does not decode, or a decoded body.
Outcomes == {"network", "5xx", "4xx", "badBody", "decoded"}

\* withDefaults: a value that is not positive is replaced by 3.
MaxRetries == IF ConfiguredRetries <= 0 THEN 3 ELSE ConfiguredRetries

Init ==
  /\ pc = "marshal"
  /\ attempt = 0
  /\ ctxDone = FALSE
  /\ delivered = 0
  /\ late = 0
  /\ log = <<>>
  /\ result = "none"

ReturnWith(r) == pc' = "returned" /\ result' = r

\* json.Marshal of the body fails, or the loop is entered.
Marshal ==
  /\ pc = "marshal"
  /\ \/ ReturnWith("marshalError")
     \/ pc' = "send" /\ UNCHANGED result
  /\ UNCHANGED <<attempt, ctxDone, delivered, late, log>>

\* The caller's context ends.
CtxEnds ==
  /\ ~ctxDone
  /\ ctxDone' = TRUE
  /\ UNCHANGED <<pc, attempt, delivered, late, log, result>>

\* Variant: 4xx answers are retried like any other failure.
Retries4xx(o) == o # "decoded"

\* An attempt that ended this way is repeated.
Retries(o) == o \notin {"decoded", "4xx"}

\* Variant: one retry more than configured.
AttemptsLeftOneMore(n) == n <= MaxRetries + 1

\* The loop condition.
AttemptsLeft(n) == n <= MaxRetries

\* The end of an iteration: return on success and on 4xx, else go round the
\* loop or give up.
AfterAttempt(o) ==
  /\ log' = Append(log, o)
  /\ \/ /\ ~Retries(o)
        /\ ReturnWith(IF o = "decoded" THEN "nil" ELSE "nonRetryable")
        /\ UNCHANGED attempt
     \/ /\ Retries(o)
        /\ attempt' = attempt + 1
        /\ IF AttemptsLeft(attempt')
           THEN pc' = "backoff" /\ UNCHANGED result
           ELSE ReturnWith("allFailed")

\* Variant: attemptCtx is derived from context.Background().
AttemptCtxAliveDetached == TRUE

\* attemptCtx is derived from the caller's context.
AttemptCtxAlive == ~ctxDone

\* client.Do looks at its context and starts the request,
Send ==
  /\ pc = "send"
  /\ AttemptCtxAlive
  /\ pc' = "deliver"
  /\ UNCHANGED <<attempt, ctxDone, delivered, late, log, result>>

\* which reaches the carrier, even if the context has ended meanwhile.
Deliver ==
  /\ pc = "deliver"
  /\ delivered' = delivered + 1
  /\ late' = IF ctxDone THEN late + 1 ELSE late
  /\ pc' = "await"
  /\ UNCHANGED <<attempt, ctxDone, log, result>>

\* The request cannot be built, or the context is done.
SendFails ==
  /\ pc = "send"
  /\ AfterAttempt("network")
  /\ UNCHANGED <<ctxDone, delivered, late>>

\* The carrier's answer arrives and is read.
Respond ==
  /\ pc = "await"
  /\ \E o \in Outcomes \ {"network"} : AfterAttempt(o)
  /\ UNCHANGED <<ctxDone, delivered, late>>

\* Variant: without the per-attempt timeout only the caller's context ends a
\* call.
AttemptEndsByCaller ==
  /\ pc \in {"deliver", "await"}
  /\ ctxDone
  /\ AfterAttempt("network")
  /\ UNCHANGED <<ctxDone, delivered, late>>

\* The attempt's timeout fires, its context is cancelled or the connection
\* breaks before the whole answer was read.
AttemptEnds ==
  /\ pc \in {"deliver", "await"}
  /\ AfterAttempt("network")
  /\ UNCHANGED <<ctxDone, delivered, late>>

\* The backoff select: either ready case may be chosen.
BackoffElapses ==
  /\ pc = "backoff"
  /\ pc' = "send"
  /\ UNCHANGED <<attempt, ctxDone, delivered, late, log, result>>

\* Variant: the cancellation is reported as the failure of all attempts.
BackoffCancelledAsFailure ==
  /\ pc = "backoff"
  /\ ctxDone
  /\ ReturnWith("allFailed")
  /\ UNCHANGED <<attempt, ctxDone, delivered, late, log>>

BackoffCancelled ==
  /\ pc = "backoff"
  /\ ctxDone
  /\ ReturnWith("cancelled")
  /\ UNCHANGED <<attempt, ctxDone, delivered, late, log>>

\* What Post's goroutine and its timers do without an answer of the carrier.
PostSteps ==
  \/ Marshal \/ Send \/ Deliver \/ SendFails \/ AttemptEnds
  \/ BackoffElapses \/ BackoffCancelled

Next == PostSteps \/ Respond \/ CtxEnds

Spec == Init /\ [][Next]_vars

-----------------------------------------------------------------------------
(* Properties                                                              *)

\* Types; Post makes at most MaxRetries + 1 attempts.
TypeOK ==
  /\ pc \in {"marshal", "send", "deliver", "await", "backoff", "returned"}
  /\ attempt \in 0..(MaxRetries + 1)
  /\ ctxDone \in BOOLEAN
  /\ delivered \in 0..(MaxRetries + 1)
  /\ late \in 0..delivered
  /\ log \in Seq(Outcomes)
  /\ result \in {"none", "marshalError", "nil", "nonRetryable", "allFailed",
                 "cancelled"}

\* The carrier gets no further request once it has given a final answer, a
\* quote or a 4xx: a retry never repeats a request that was decided.
FinalAnswerIsLast ==
  \A i \in DOMAIN log :
    log[i] \in {"decoded", "4xx"} =>
      /\ i = Len(log)
      /\ pc = "returned"
      /\ result = IF log[i] = "4xx" THEN "nonRetryable" ELSE "nil"

\* Post gives up only for the reason it reports: all MaxRetries + 1 attempts
\* failed, or the caller's context ended between two of them.
GivesUpForCause ==
  /\ result = "allFailed" => Len(log) = MaxRetries + 1
  /\ result = "cancelled" => ctxDone /\ Len(log) \in 1..MaxRetries

\* "ctx cancellation is honoured across all attempts" (http_carrier.go:82):
\* however many attempts are left, and although the backoff select may go on
\* with a retry after the end of the caller's context, at most one request
\* still reaches the carrier then, the one that was already on its way.
CancelHonoured == late <= 1
=============================================================================
