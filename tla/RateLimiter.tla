---------------------------- MODULE RateLimiter ----------------------------
(***************************************************************************)
(* One carrier's limiter (internal/ratelimiter/limiter.go): primary calls  *)
(* block in Wait, hedges use TryAcquire, and both draw on one              *)
(* golang.org/x/time/rate bucket, modelled here from its use: a waiter     *)
(* reserves a future token, so the bucket can go below zero; a reservation *)
(* past the context's deadline is refused at once; a cancelled one is      *)
(* given back only if no later one was made.                               *)
(*                                                                         *)
(* A tick is the time one token takes.  Timers and goroutines may be late. *)
(***************************************************************************)
EXTENDS Integers, FiniteSets

CONSTANTS Callers,    \* primary calls for this carrier
          Burst,      \* RateLimitConfig.Burst
          MaxClock,   \* bound on the clock
          MaxHedges   \* bound on the tokens hedges take

ASSUME LimiterAssumption ==
  /\ IsFiniteSet(Callers)
  /\ Burst \in Nat \ {0}
  /\ MaxClock \in Nat
  /\ MaxHedges \in Nat

VARIABLES
  now,         \* the clock
  tokens,      \* the bucket, negative while tokens are reserved ahead
  lastEvent,   \* time of the latest reservation
  wait,        \* wait[r]: where caller r is in Wait
  due,         \* due[r]: when the token r waits for is there
  rejections,  \* rate_limit_exceeded_total
  hedges,      \* tokens TryAcquire handed out
  promised     \* history: promised[t], tokens handed out or promised up to t

limiterVars == <<now, tokens, lastEvent, wait, due, rejections, hedges,
                 promised>>

\* No token is promised for a later time.
Horizon == MaxClock + Cardinality(Callers) + 1

LimiterInit ==
  /\ now = 0
  /\ tokens = Burst
  /\ lastEvent = 0
  /\ wait = [r \in Callers |-> "ready"]
  /\ due = [r \in Callers |-> 0]
  /\ rejections = 0
  /\ hedges = 0
  /\ promised = [t \in -1..Horizon |-> 0]

-----------------------------------------------------------------------------
(* The token bucket                                                        *)

\* The bucket with one token more, at most full.
Refilled == IF tokens < Burst THEN tokens + 1 ELSE Burst

\* How long a token reserved now takes to arrive.
Delay == IF tokens >= 1 THEN 0 ELSE 1 - tokens

\* n tokens more are promised for time t.
Promise(t, n) ==
  promised' = [u \in -1..Horizon |->
                 IF u >= t THEN promised[u] + n ELSE promised[u]]

\* reserveN, once its delay was accepted.
Reserve ==
  /\ tokens' = tokens - 1
  /\ lastEvent' = now + Delay
  /\ Promise(now + Delay, 1)

\* Variant: a cancelled reservation always puts its token back.
RestoresAlways(r) == TRUE

\* Reservation.CancelAt gives the token back unless its time has passed or a
\* later reservation counts on it.
Restores(r) == due[r] >= now /\ due[r] = lastEvent

CancelReservation(r) ==
  /\ tokens' = IF Restores(r) THEN Refilled ELSE tokens
  /\ lastEvent' = IF Restores(r) /\ due[r] > now THEN due[r] - 1
                  ELSE lastEvent
  /\ Promise(due[r], -1)

\* Time passes and the bucket fills.
Refill ==
  /\ now < MaxClock
  /\ now' = now + 1
  /\ tokens' = Refilled
  /\ UNCHANGED <<lastEvent, wait, due, rejections, hedges,
                 promised>>

-----------------------------------------------------------------------------
(* Limiter                                                                 *)

Becomes(r, outcome) == wait' = [wait EXCEPT ![r] = outcome]

\* A context error is counted and becomes ErrRateLimitExceeded.
RejectCounted(r) ==
  /\ Becomes(r, "refused")
  /\ rejections' = rejections + 1

\* Any other error of the bucket is passed on as it is.
RejectUncounted(r) == Becomes(r, "refused") /\ UNCHANGED rejections

\* Wait with a context whose deadline is d: an ended context is refused, so is
\* a token that would come after d; otherwise one is taken or waited for.
Wait(r, d) ==
  /\ wait[r] = "ready"
  /\ \/ /\ d <= now
        /\ RejectCounted(r)
        /\ UNCHANGED <<tokens, lastEvent, due, promised>>
     \/ /\ d > now /\ now + Delay > d
        /\ RejectUncounted(r)
        /\ UNCHANGED <<tokens, lastEvent, due, promised>>
     \/ /\ d > now /\ now + Delay <= d
        /\ Becomes(r, IF Delay = 0 THEN "granted" ELSE "timer")
        /\ due' = [due EXCEPT ![r] = now + Delay]
        /\ Reserve
        /\ UNCHANGED rejections
  /\ UNCHANGED <<now, hedges>>

\* The reservation's timer fires.
Wake(r) ==
  /\ wait[r] = "timer"
  /\ due[r] <= now
  /\ Becomes(r, "granted")
  /\ UNCHANGED <<now, tokens, lastEvent, due, rejections, hedges,
                 promised>>

\* The context ends first: at its deadline, or because the caller left.
CtxEnds(r) ==
  /\ wait[r] = "timer"
  /\ CancelReservation(r)
  /\ RejectCounted(r)
  /\ UNCHANGED <<now, due, hedges>>

\* Variant: Reserve().OK() instead of Allow().
AllowReserved == TRUE

\* Limiter.Allow grants a token only if one is there now.
Allow == Delay = 0

\* TryAcquire, when it succeeds: a refusal changes nothing.
TryAcquire ==
  /\ hedges < MaxHedges
  /\ Allow
  /\ Reserve
  /\ hedges' = hedges + 1
  /\ UNCHANGED <<now, wait, due, rejections>>

LimiterNext ==
  \/ Refill \/ TryAcquire
  \/ \E r \in Callers : \/ \E d \in now..Horizon : Wait(r, d)
                        \/ Wake(r) \/ CtxEnds(r)

LimiterSpec == LimiterInit /\ [][LimiterNext]_limiterVars

-----------------------------------------------------------------------------
(* Properties                                                              *)

\* Types; the bucket never holds more than Burst tokens, and is overdrawn only
\* by callers that wait.
LimiterTypeOK ==
  /\ now \in 0..MaxClock
  /\ tokens \in -Cardinality(Callers)..Burst
  /\ lastEvent \in 0..Horizon
  /\ wait \in [Callers -> {"ready", "timer", "granted", "refused"}]
  /\ due \in [Callers -> 0..Horizon]
  /\ rejections \in 0..Cardinality(Callers)
  /\ hedges \in 0..MaxHedges
  /\ promised \in [-1..Horizon -> Nat]

\* In every interval the carrier is promised at most Burst tokens plus one per
\* tick, to primaries and hedges together, whatever was reserved, cancelled
\* and given back in between (Wait, TryAcquire).
RateBound ==
  \A a, b \in 0..Horizon :
    a <= b => promised[b] - promised[a - 1] <= Burst + (b - a)

\* A hedge gets no token while a primary call has to wait for one: TryAcquire
\* cannot take what Wait reserved.
HedgeYieldsToWaiters ==
  [][hedges' # hedges =>
       \A r \in Callers : ~(wait[r] = "timer" /\ due[r] > now)]_limiterVars

-----------------------------------------------------------------------------
(* A claim of the documentation the code does not keep                     *)

\* rate_limit_exceeded_total "increments each time a carrier is skipped due to
\* rate limiting" (REQ-RL-003): every refused Wait is counted.
RejectionsCounted ==
  rejections = Cardinality({r \in Callers : wait[r] = "refused"})
=============================================================================
