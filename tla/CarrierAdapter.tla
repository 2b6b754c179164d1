--------------------------- MODULE CarrierAdapter ---------------------------
(***************************************************************************)
(* One call of an AdapterFunc of the registry: the closure Register builds *)
(* (internal/adapter/adapter.go), which converts the request, calls the    *)
(* carrier and converts its answer, for the Delta carrier                  *)
(* (delta_carrier.go, over HTTPCarrier) and for the mock carriers          *)
(* (mock_carrier.go).                                                      *)
(*                                                                         *)
(* Of an answer only the validity of the quote is represented: seconds in  *)
(* the carrier's body, a time.Duration in the QuoteResult.  Durations are  *)
(* signed integers up to MaxDuration, so that the multiplication can       *)
(* overflow.                                                               *)
(***************************************************************************)
EXTENDS HTTPCarrier

CONSTANTS MaxValidity,      \* bound on the valid_for_seconds a carrier sends
          MaxDuration,      \* the largest time.Duration, 2^63 - 1
          Second,           \* time.Second
          DefaultValidFor   \* FromCarrierResponse's safe default

ASSUME DurationAssumption ==
  /\ MaxValidity \in Nat
  /\ MaxDuration \in Nat
  /\ Second \in Nat \ {0}
  /\ DefaultValidFor \in 1..MaxDuration

VARIABLES
  carrier,   \* "delta" or "mock"
  stage,     \* where the closure is
  seconds,   \* resp.ValidForSeconds, as decoded so far
  validFor,  \* the validity of the returned quote
  err        \* the error the closure returns

adapterVars == <<vars, carrier, stage, seconds, validFor, err>>

\* What valid_for_seconds may hold; a missing field is 0.
Validities == -MaxValidity..MaxValidity

\* A product in two's complement: every time.Duration is one of 2 * half.
Wrapped(n) ==
  LET half == MaxDuration + 1 IN ((n + half) % (2 * half)) - half

\* The conversion to a Duration and the multiplication by time.Second.
Duration(s) == Wrapped(s * Second)

AdapterInit ==
  /\ Init
  /\ carrier \in {"delta", "mock"}
  /\ stage = "convert"
  /\ seconds = 0
  /\ validFor = 0
  /\ err = "nil"

Moves(from, to) == stage = from /\ stage' = to

\* ToCarrierRequest, which cannot fail; then carrier.Call.
ToCarrierRequest ==
  /\ Moves("convert", "call")
  /\ UNCHANGED <<vars, carrier, seconds, validFor, err>>

\* deltaHTTPClient.Call runs Post.
PostRuns ==
  /\ carrier = "delta" /\ stage = "call"
  /\ PostSteps
  /\ UNCHANGED <<carrier, stage, seconds, validFor, err>>

\* The carrier answers.  json decodes into the one response struct of all
\* attempts: a body that does not fit may have set the field, and a body
\* without it leaves what an earlier attempt put there.
PostAnswered ==
  /\ carrier = "delta" /\ stage = "call"
  /\ Respond
  /\ \/ UNCHANGED seconds
     \/ /\ log'[Len(log')] \in {"decoded", "badBody"}
        /\ seconds' \in Validities
  /\ UNCHANGED <<carrier, stage, validFor, err>>

\* deltaHTTPClient.Call's test of Post's error.
CallFailed == result # "nil"

DeltaCallReturns ==
  /\ carrier = "delta" /\ pc = "returned"
  /\ Moves("call", IF CallFailed THEN "returned" ELSE "answer")
  /\ err' = IF CallFailed THEN result ELSE "nil"
  /\ UNCHANGED <<vars, carrier, seconds, validFor>>

\* MockCarrier.Call: its sleep ends with the context or with the timer, and then
\* it fails at random or answers.
MockCall ==
  /\ carrier = "mock"
  /\ \/ ctxDone /\ Moves("call", "returned") /\ err' = "ctx"
     \/ Moves("call", "returned") /\ err' = "unavailable"
     \/ Moves("call", "answer") /\ UNCHANGED err
  /\ UNCHANGED <<vars, carrier, seconds, validFor>>

\* Variant: the default is chosen before the conversion to a Duration.
ValidForUnconverted(s) == IF s <= 0 THEN DefaultValidFor ELSE Duration(s)

\* deltaAdapter.FromCarrierResponse's validFor.
ValidFor(s) == IF Duration(s) <= 0 THEN DefaultValidFor ELSE Duration(s)

\* mockAdapter.FromCarrierResponse: a mock quote always lasts 300 seconds,
\* which is the default of the other adapter.
MockValidFor == DefaultValidFor

FromCarrierResponse ==
  /\ Moves("answer", "returned")
  /\ validFor' = IF carrier = "delta" THEN ValidFor(seconds) ELSE MockValidFor
  /\ UNCHANGED <<vars, carrier, seconds, err>>

\* The request's context ends, which every step may find.
ContextEnds ==
  /\ CtxEnds
  /\ UNCHANGED <<carrier, stage, seconds, validFor, err>>

AdapterReturned == stage = "returned" /\ UNCHANGED adapterVars

\* The closure: convert, call, convert.
AdapterRuns ==
  \/ ToCarrierRequest \/ PostRuns \/ DeltaCallReturns \/ MockCall
  \/ FromCarrierResponse

AdapterNext == AdapterRuns \/ PostAnswered \/ ContextEnds \/ AdapterReturned

\* The goroutine runs and its timers fire; neither an answer of the carrier nor
\* the end of the caller's context is taken for granted.
AdapterSpec ==
  AdapterInit /\ [][AdapterNext]_adapterVars /\ WF_adapterVars(AdapterRuns)

-----------------------------------------------------------------------------
(* Properties                                                              *)

\* Types, those of Post included.
AdapterTypeOK ==
  /\ TypeOK
  /\ carrier \in {"delta", "mock"}
  /\ stage \in {"convert", "call", "answer", "returned"}
  /\ seconds \in Validities
  /\ validFor \in (-MaxDuration - 1)..MaxDuration
  /\ err \in {"nil", "marshalError", "nonRetryable", "allFailed", "cancelled",
              "ctx", "unavailable"}

\* Whatever the carrier sends, a returned quote expires in the future, as the
\* quote table relies on: FromCarrierResponse replaces a validity that is
\* missing, zero or negative, or that overflows to a negative Duration.  And it
\* is returned only for an answer of this call that decoded, never for a
\* response struct a failed attempt left half filled.
QuoteSound ==
  stage = "returned" /\ err = "nil" =>
    /\ validFor > 0
    /\ carrier = "delta" => log # <<>> /\ log[Len(log)] = "decoded"

\* The AdapterFunc returns although the carrier may never answer and the caller
\* may never cancel.
AdapterReturns == <>(stage = "returned")
=============================================================================
