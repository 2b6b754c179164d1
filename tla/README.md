# Verification of carrier-gateway

TLA+ models of the carrier gateway: a Go service that takes an insurance quote
request over HTTP, asks every capable carrier for a quote in parallel, and
returns the quotes sorted by premium. Paths below are relative to the
repository root.

## 1. The system

| Component | State | Operations | Interacts with |
|---|---|---|---|
| Circuit breaker, `internal/circuitbreaker/breaker.go`, one per carrier | five atomics: state, failures, successes, probe slot, openedAt | `Execute`, `State` | called by every request's `callCarrier`; read by the eligibility filter and the hedge monitor; sets a gauge |
| Orchestrator, `internal/orchestrator/orchestrator.go` | singleflight group; per call: results channel, errgroup, contexts | `GetQuotes`, `fanOut`, `filterEligibleCarriers`, `callCarrier` | repository, breakers, limiters, trackers, adapters |
| Hedge monitor, `internal/orchestrator/hedging.go` | `pending`, `alreadyHedged`, a wait group | `hedgeMonitor`, `selectHedgeCandidate` | runs beside the primaries; sends on the same channel |
| EMA tracker, `internal/orchestrator/hedging.go` | pointer to an immutable `emaState` | `Record`, `P95`, `HedgeThreshold` | written by successful primaries, read when a fan-out starts |
| Rate limiter, `internal/ratelimiter/limiter.go` | token bucket | `Wait`, `TryAcquire` | primaries wait, hedges try |
| Quote repository, `internal/repository/postgres.go` | table `quotes`, key (request_id, carrier_id) | `Save`, `FindByRequestID`, `DeleteExpired` | `GetQuotes`, cleanup ticker |
| Cleanup ticker, `internal/cleanup/cleanup.go` | stop and done channels | `Start`, `Stop`, `sweep` | repository, shutdown in main |
| HTTP carrier client, `internal/adapter/http_carrier.go` | none between calls | `Post`, `doOnce` | the Delta adapter; a remote API |
| Registry, adapters, mock carriers, `internal/adapter` | a map fixed at startup | `Register`, `Get`, `Call` | `callCarrier`, hedges |
| HTTP handler, `internal/handler/http.go` | none | decode, validate, map errors to statuses | orchestrator |
| Middleware, `internal/middleware` | semaphore; failure budget per address | auth, concurrency limit, audit, headers | in front of the handler |
| Metrics, `internal/metrics` | Prometheus collectors | recorder methods | everything |
| Lifecycle, `cmd/carrier-gateway/main.go` | server, ticker, database handle | start, signal, shutdown | everything |

What is hard here: the breaker and the tracker are lock-free, so every atomic
operation interleaves with every other; a fan-out is up to 2n + 3 goroutines
around one channel that must be closed exactly when the last sender is gone;
answers race the request deadline; breakers are shared by all requests but read
and acted on at different moments; the cache lookup, the singleflight entry and
the save are separate steps; expired rows live until a sweep; waiters reserve
tokens of the limiter ahead and may give them back; an attempt of the HTTP client
that failed leaves traces in the response the next one decodes into; and the
process may die between any two of these steps. The file
`PROJECT.json` lists these hazards at their lines with the properties that
cover them.

What makes each part correct:

* breaker: one probe at a time, slot never leaked; a reached threshold is acted
  on; only the four transitions of the documented machine, HalfOpen decided by
  its probe, and no close on fewer successful probes than `SuccessThreshold`;
* fan-out: no goroutine left behind, no send on a closed channel, no quote
  dropped for want of buffer or because another carrier failed, the first quote
  of each carrier in premium order, also after the deadline, one hedge per slot, and it returns; towards
  `GetQuotes`: one return, one quote per carrier, only capable carriers;
* service: one fan-out per key at a time, nobody past the lookup waits for ever, one quote per
  carrier in every answer, live quotes stay stored although the process restarts,
  expired ones go;
* rate limiter: no interval promises more tokens than burst and rate allow, and a
  hedge never takes the token a primary is waiting for;
* tracker: no observation lost, progress, the gauge shows a value that was
  current once; exactly the successful calls move it, so warm-up ends once;
* counters: every `callCarrier` that finds an adapter is counted once, under the
  right status;
* HTTP client and adapter: no request after a final answer, no new one once the
  caller left, gives up only for the stated reason, returns although the carrier hangs,
  quotes only from an answer that decoded, every quote expires in the future;
* process: every slot of the concurrency limit comes back; concurrent bad keys overdraw the failure budget by a bounded
  amount; nobody uses the database after it is closed; exit code 0 only when every
  request was answered; and a signal ends the process.

## 2. Modules

| Module | Models | Notes |
|---|---|---|
| `CircuitBreaker` | `breaker.go` | one action per atomic operation, gauge update and return of the guarded call; `pc[g]` is goroutine g's next operation |
| `BreakerContract` | what callers may rely on | abstract state and the set of probers; `CircuitBreaker!ImplementsContract` is the refinement |
| `BreakerHistory` | `CircuitBreaker` and how long it has really been Open | for the OpenTimeout claim |
| `ProbeHistory` | `CircuitBreaker` and how many probes have succeeded | for the SuccessThreshold claim |
| `CarrierRecovery` | `filterEligibleCarriers` and `callCarrier` around the breaker | composition of orchestrator and breaker |
| `FanOut` | one `fanOut` call with `callCarrier`, `hedgeMonitor`, `selectHedgeCandidate`, closer and collector | breakers, limiter and carriers answer nondeterministically |
| `FanOutContract` | what `GetQuotes` and the table's primary key rely on | `FanOut!ImplementsContract` is the refinement |
| `QuoteService` | `GetQuotes`, the repository, the sweep and restarts of the process | `fanOut` is one step, the one `FanOutContract` allows |
| `RateLimiter` | `limiter.go` over the bucket of `golang.org/x/time/rate` | the bucket is external, modelled from its use |
| `EMATracker` | `EMATracker.Record` | an average is represented by the sequence of latencies it blends |
| `CallCarrier` | concurrent `callCarrier`s for one carrier with `classifyError` and the outcome counters | composes `RateLimiter` and `EMATracker`; breaker and adapter answer nondeterministically |
| `HTTPCarrier` | `HTTPCarrier.Post` with `doOnce` | |
| `CarrierAdapter` | the closure `Register` builds, with the Delta and the mock adapter | composes `HTTPCarrier` with the conversions around it |
| `Gateway` | startup, middleware chain with the failure budget, handler, cleanup ticker and shutdown | `GetQuotes` is an interval during which the database may be used |
| `CircuitBreakerProofs`, `FanOutProofs`, `QuoteServiceProofs`, `RateLimiterProofs`, `EMATrackerProofs`, `CallCarrierProofs`, `CarrierAdapterProofs`, `GatewayProofs` | theorems about the module of the same name | `CallCarrierProofs` uses those of limiter and tracker; `CarrierAdapterProofs` covers `HTTPCarrier` too |
| `MCFanOut` | carriers' estimates and priorities for TLC | the other modules are instantiated by their configurations directly |

Operators whose comment begins with *Variant* are plausible bugs. They are part
of no specification; each is substituted for the definition after it to see that
the property it is meant for is violated (`mutants` in `PROJECT.json`).

### How the state corresponds to the code

**CircuitBreaker.** `state`, `failures`, `successes`, `halfOpenInFlight` are the
atomics of the same names. `openedAt` is used only in
`time.Since(openedAt) < OpenTimeout`, so `openAge` is that duration, saturated at
the timeout; it starts saturated because `openedAt` is 0. A store of the current
time sets it to 0 and `Tick` advances it. `Execute` reads the state once, as the
code does: a goroutine that read Open goes on to the probe slot even if the
circuit has been closed meanwhile. The transition counters are left out.
`StampTrip` and `StampReopen` read the clock and store the value in one step; the
code can be delayed in between and then stores an earlier time, which no property
tells apart. `ProbeHistory` adds `proven`, the probes that succeeded since one
last closed or re-opened the circuit.

**FanOut.** `pc[c]` is `callCarrier` for carrier c, `hedgePc[x]` the hedge
goroutine fired for slot x, `closer` the goroutine that waits for the errgroup,
cancels the hedges, joins the monitor and closes the channel, `phase` the body of
`fanOut`. `results` is the channel and `first`, a history variable, the first
quote of each carrier that was put into it. `SelectSend` is the `select` with which
primaries and hedges send. `deadline` stands for `reqCtx` being done and
`groupDone` for `gCtx` being cancelled by `g.Wait`. Breakers are shared with
other requests, so the set of carriers read as Open is chosen anew at each read.
`due` is the set of carriers whose elapsed time has reached a finite threshold:
it only grows. Between choosing a candidate and taking its token the monitor can
be overtaken, so these are two actions. `FilterEligible` and `FilterAnyLine` are
the filters at the start of `fanOut`. `slices.SortFunc` is not stable, so
`Sorted` is its contract: the permutations in which no element comes after one it
is `Before`. In the refinement `done` is "fanOut has returned" and `quotes` the
set of quotes in the response, so that the collector's and the senders' steps are
stutters and `Return` is the only step.

**QuoteService.** `rows[k]` are the rows with `request_id = k`; time is discrete;
a row is live while `expiresAt > now`, the lookup's condition, and the sweep
deletes exactly the others. `flight[k]` is the singleflight entry. `Save` is one
transaction; an error leaves the rows out, or leaves them in when only the answer
to the commit was lost. `Lifetimes` are what can be left of a quote's validity
when its fan-out ends: carriers stamp the expiry when they answer, so it can be 0,
a quote that expired while a slower carrier was waited for. The fan-out is detached from the caller's context, as in
the code. `Restart` is a crash and the next start: the table stays, everything
the process held is gone.

**RateLimiter.** A tick is the time the bucket takes to gain one token. `tokens`
is the bucket, negative while waiters have reserved ahead; `due[r]` is when the
token caller r reserved is there; `lastEvent` the time of the latest reservation,
which decides whether a cancelled one gives its token back. A context deadline is
any time from now on. Timers and goroutines may be late: `RateBound` is about when
tokens fall due, and calls that wake late can reach the carrier closer together.
`promised` is a history variable, the arrival curve: `promised[t]` tokens have
been promised for times up to t. A cancelled reservation is taken out of it
whether or not its token goes back to the bucket.

**CallCarrier.** Three positions matter between `limiter.Wait` and the return: in
`breaker.Execute`, in `tracker.Record`, returned. The goroutines are the same as
the limiter's callers. `registered` says whether the registry has an adapter for
the carrier, which is fixed at startup; without one a call returns before the
limiter and is not counted. Other requests' hedges take tokens through `TryAcquire`.

**EMATracker.** Go compares pointers; every installed `emaState` has its own
observation count, so comparing values is the same here. `recorded` is a history
variable: the latencies of each goroutine's finished calls, which
`NoObservationLost` counts per latency and compares with the blended ones.

**HTTPCarrier.** `log` records how the finished attempts ended, `delivered` how
many requests reached the carrier and `late` how many of them after the caller's
context ended. `client.Do` is two steps, `Send` and `Deliver`: `net/http`, which is
external to the repository, sends no request whose context is already done, but one
it has started can reach the carrier after the cancellation. In the backoff
`select` both cases may be ready and either may be taken.

**CarrierAdapter.** Of a quote only its validity is represented; the other fields
are copied unchanged. A duration is an integer from `-MaxDuration - 1` to
`MaxDuration` and `Duration` is the wrapping multiplication by `time.Second`. All attempts of one
`Post` decode into one struct, so `seconds` survives a failed attempt.

**Gateway.** `pc[r]` is where the request on connection r is in the chain of
main.go:218-225; audit log and security headers change nothing and are left out.
Requests ask for one of the registered routes, with the right method or not, or for
another path, so the mux's 404 and 405 are among the answers.
`sem` is the number of tokens in `LimitConcurrency`'s channel. Keys and request
bodies are not represented: each check on them may pass or fail. All requests
come from one address, whose bucket is `budget`; `unpaid` counts the failures
since the last refill that found it empty. `main` is where main is from opening
the database to its `os.Exit`, with the close of the database and the exit that
follows it (main.go:270-280) one step; a panic is exit code 2;
`ticker`, `stop` and `db` are the cleanup goroutine, its stop channel and the
connection pool. `http.Server` is external: it accepts connections until
`Shutdown` is called, and `Shutdown` returns when no connection is active or
when the drain window ends, whichever its polling notices first.

## 3. Runs

| Run | Instance | Shows |
|---|---|---|
| `breaker` | 3 goroutines, thresholds 2 and 2, timeout 1 | `SingleProbe`, `ThresholdActedOn`, `ImplementsContract`, `ClosesOnProof`, `HalfOpenIsDecided`, types |
| `fanout_safety` | 3 carriers, one without adapter, one in warm-up, 2 premiums | `NothingOutlivesFanOut`, `SenderNeverBlocks`, `ResponseSortedUnique`, `FirstAnswersReturned`, `OneHedgePerSlot`, types |
| `fanout_liveness` | 3 carriers, 2 of them capable and hedgeable | `Returns`, `ImplementsContract` |
| `service` | 3 requests for one key, lifetimes 0 and 2, clock to 2, failing lookups and saves, restarts | `OneFlightPerKey`, `OneQuotePerCarrier`, `LiveRowsStay`, `Answered`, `ExpiredRowsGo`, types |
| `call_carrier` | 3 calls, with and without an adapter, burst 1, clock to 2, one hedge, 2 latencies | `RateBound`, `HedgeYieldsToWaiters`, `NoObservationLost`, `GaugeWasCurrent`, `LockFree`, `ObservationsAreSuccesses`, `OneOutcomePerCall`, types of limiter and tracker |
| `carrier_adapter` | 2 retries, durations from -8 to 7, a second of 3, validities from -6 to 6 | `FinalAnswerIsLast`, `GivesUpForCause`, `CancelHonoured`, `QuoteSound`, `AdapterReturns`, types |
| `gateway` | 2 connections, one slot, a failure budget of 2, with and without database and repository | `SlotsMatchHolders`, `OverdraftBounded`, `NoQueryAfterClose`, `CleanExitAnsweredAll`, `ShutdownEnds`, types |
| `breaker_open_timeout` | as `breaker` | violated: section 4 |
| `recovery` | 2 goroutines | violated: section 4 |
| `rate_limit_uncounted` | 3 callers, burst 1, no hedges | violated: section 4 |
| `service_idempotence` | 2 requests | violated: section 4 |
| `service_saved` | 1 request at a time | violated: section 4 |

**Bounds.** Thresholds of 2 let a counter be below, at and above its threshold
and let a second probe be needed to close; three goroutines let a late prober
meet both a failing and a succeeding caller. The breaker's counters need no
bound: they are reset or stop growing. Three carriers are the fewest for which a
hedge has a choice of targets and two hedges can hit one target; two premiums
give ties and strict order. The service needs a leader, a waiter and a request
that read the cache earlier, hence three requests; two ticks let a row expire
before and after a sweep and a second save. `MaxClock`, `MaxRecords` and
`MaxHedges` bound clock and calls. With a burst of 1 and three callers the bucket
is full, empty and overdrawn by two, a reservation in the middle is cancelled, and
three Records race. `call_carrier` and
`rate_limit_uncounted` do not check deadlock because every caller makes one call,
and `recovery` because its violation is about not stopping. In `carrier_adapter`
durations of four bits and a second of 3 make products overflow to a negative, a zero-adjacent
and a positive value within the validities tried; two retries let a half-decoded
body come before a final answer and before another failure. In `gateway` one slot
for two connections makes the limit bite, two concurrent failures overdraw a
budget of which one token is left, and a connection carries any number of
requests. `MaxClock` in `service` stops the clock, not the system: rows that
expire at the bound must still be swept. No run uses symmetry, because most check
liveness or depend on the order of carriers.

**Fairness.** Goroutines that can run are run (weak fairness per goroutine): the
Go scheduler is preemptive. `HalfOpenIsDecided` also assumes that `Execute` keeps
being called while the breaker is not Open, since the filter passes carriers in
HalfOpen; nothing is assumed of an Open one, which `recovery` shows never to be
called again, nor of the clock. A guarded call returns because the
request deadline bounds it. In `FanOut` a carrier call need only return once its
context is done; the request timer fires; and the monitor's `select`, which Go
resolves at random, eventually takes `ctx.Done()` when it stays ready, hence the
strong fairness on `MonitorCancelled`. In `CarrierAdapter` neither an answer nor a
cancellation is assumed, only that the goroutine runs and its timers fire, the
per-attempt timeout among them. `CallCarrier` assumes only that goroutines inside
`Record` run. `Answered` assumes that `fanOut` returns, which is `Returns`, and
that saves end (they have a timeout of their own); requests a restart kills are
excepted. `FindByRequestID` runs on the caller's context without a deadline
(orchestrator.go:103), so a lookup may hang for ever: `Answered` is about requests
past it, whose answer must not depend on it. `ExpiredRowsGo` assumes that the ticker keeps sweeping and that its
statement does not fail for ever. In `Gateway` requests and sweeps may hang for
ever; main runs, the ticker's goroutine starts (and panics if its interval is not
positive), the drain timer fires, and the ticker's random `select` does not pass over a closed stop
channel for ever (strong fairness on `TickerStops`). `ShutdownEnds` therefore
excepts the one case the code does not bound, a sweep that never returns.

## 4. Where code and documentation disagree

Each of these is a run in which TLC finds the documented claim violated by the
model of the code; `PROJECT.json` quotes the claims.

* `recovery` / `AutoRecovers`: only `Execute` moves a breaker from Open to
  HalfOpen, `filterEligibleCarriers` (orchestrator.go:276) drops carriers whose
  breaker reads Open, so no request ever calls `Execute` for them. The runbook
  promises automatic recovery after `OpenTimeout`.
* `breaker_open_timeout` / `StaysOpenForTimeout`: Open is published before
  `openedAt` is stored (breaker.go:135), so a call in between measures from an
  earlier trip and starts a probe at once.
* `rate_limit_uncounted` / `RejectionsCounted`: `rate.Limiter.Wait` refuses at
  once, with an error that is no context error, when the token would come after
  the deadline; limiter.go:46 passes that on without counting, so
  `rate_limit_exceeded_total` misses carriers that were skipped.
* `service_idempotence` / `SameIdSameAnswer`: a request can miss the cache,
  reach singleflight after the flight for its id has ended and fan out again;
  two callers get different live quotes for one id.
* `service_saved` / `SavedIsFindable`: `ON CONFLICT DO NOTHING` (postgres.go:81)
  keeps an expired row until the sweep, so a fresh quote is not stored.

Observations from reading the code that have no run of their own: `pending` is
never updated, so a carrier that has answered is still hedged when its threshold
passes while another is running (hedging.go:126, 164); a request that joins a
flight waits for the leader's timeout and not for its own (orchestrator.go:123); a
body that fails to decode leaves fields in the struct the next attempt decodes
into (http_carrier.go:157); a validity that overflows to a positive duration is
kept and is shorter than the carrier said (delta_carrier.go:60); a
`CLEANUP_INTERVAL` of zero or less panics in the ticker's goroutine and takes the
process down (main.go:109, cleanup.go:39); concurrent bad keys are all let through
to the comparison, so the budget can be overdrawn (auth.go:106); `Save` and
`FindByRequestID` have no column for `carrier_ref`, so a cached answer lacks it
(postgres.go:78); a failure
between the CAS to Closed and the reset of `failures` trips on old failures
(breaker.go:171); a late probe's success is kept for the next HalfOpen period
(breaker.go:169); both gauges are set after the CAS and unordered, so they can
stay on an older value (breaker.go:138, hedging.go:82); REQ-HEDGE-005
(openspec/specs/adaptive-hedging/spec.md:129, 139-143) wants the late result of a
slot discarded once the hedge for the slot has answered, but `fanOut` discards by
the carrier of the quote (orchestrator.go:225), so the hedge target's quote and the late
one of the hedged carrier are both returned, which `FirstAnswersReturned` states;
a carrier without an adapter is skipped without being counted
(orchestrator.go:302); a cache lookup has no deadline of its own, so one that hangs
holds its request (orchestrator.go:103); a hedge goes to a
HalfOpen carrier beside its probe and its quote has no RequestID (hedging.go:207,
211); `MaxRetries: 0` cannot disable retries, and undecodable 2xx bodies are
retried (http_carrier.go:37, 116); `/healthz` passes through the concurrency
limit and answers 503 when it is reached (main.go:221), where README.md:217 says
that it always returns 200; `fanOut` returns no error, so the documented 504 is
never produced and a deadline without quotes gives 422 (http.go:192, 232); after
a signal the server accepts connections until the ticker has stopped, and the
sweep it waits for has no deadline (main.go:262, cleanup.go:47).

## 5. Proofs

Proved with TLAPS for every value of the constants that satisfies the modules'
assumptions.

* `CircuitBreakerProofs`, from `ConfigAssumption` (thresholds and timeout are
  positive, which `New` ensures). `TypeCorrect`; `ProbeExclusion`:
  `SingleProbe` is inductive together with `TypeOK`, because the slot and the
  labels of the probe section change in the same step; `ThresholdNotLost`:
  `ThresholdActedOn` needs that the goroutine that just closed the circuit still
  has to zero the failures, which is why `"zeroFailures"` is among the
  witnesses; `Refinement`: every step maps to a step of `BreakerContract` or
  leaves state and probers alone, using `ProbeExclusion` for the verdicts;
  `ClosedOnProof`: `Counted` says that `successes` equals `proven` except
  between a verdict and the `Store(0)` of the probe that gave it. That window is
  harmless because only the prober adds, zeroes or closes, and there is one.
* `FanOutProofs`, from `CarrierAssumption`. The inductive invariant is `TypeOK`,
  `Structure` (which positions of closer, monitor, primaries and hedges can occur
  together), `Hedges` (a fired hedge is remembered) and `Accounted` (the channel
  holds at most one result per finished primary and per finished hedge). Without
  `Accounted` the buffer bound is not inductive: a sender's room depends on who
  has already sent. It gives `FanOutTypes`, `NoGoroutineLeak`,
  `BufferSuffices` and `HedgedOnce`. `Kept` adds that everything in the channel
  and everything collected is a quote of a capable carrier, hedges included, and
  that the collected ones have distinct carriers; `SortedFacts` says what sorting
  returns. From these come `Responded`, hence `ResponseOrdered`, and
  `FanOutRefinement`: `FanOut` implements `FanOutContract`. `AnswersReturned`
  follows the quotes in two directions. `Firsts`: of each carrier the first quote
  that entered the channel is in front of its others there or was collected, so
  the response is `first`, deadline or not. `Tracked`: until the deadline the
  errgroup's context ends only after every primary is done, so no sender takes the
  other branch of its `select` and every answering carrier has a quote in `first`.
* `QuoteServiceProofs`, from `ServiceAssumption`. `OneFlight` rests on
  `Flights`: the singleflight map holds exactly the running leaders, which a
  restart empties together. `OneQuote` rests on `Single`, which adds that the
  table has one row per key and carrier; it holds across restarts because the
  table is all that survives. `RowsStay` needs only what both need, that a save
  keeps every old row of a key. `ServiceTypes` needs that a request past its
  arrival has a key, so that a save never writes outside the table.
* `RateLimiterProofs`, from `LimiterAssumption`. `ArrivalCurve` is the theorem
  that took most: `RateBound` bounds the promises of every interval, and neither a
  reservation nor a cancellation preserves it alone. `Spent` says that what has been promised
  since a tick plus what is left in the bucket came out of one full bucket and
  the ticks since; `Ahead` that the future is promised one token per tick at
  most; `Level` that the overdraft is the distance to the latest reservation;
  `Waiters` that every waiter's token is promised for a time no other waiter has.
  `Waiters` is what a cancellation needs: the token it gives back was its own.
  `HedgesYield` rests on `Level` and `Waiters`: while a wait is not over, the
  bucket has no token to take.
* `EMATrackerProofs`, from `TrackerAssumption`. `ObservationsKept` counts: a
  successful swap adds one occurrence of the latency to the blend and one
  goroutine to those about to emit, an emit moves it to the finished calls.
  `GaugeCurrent` rests on `Published`: every value a goroutine is about to show is
  the beginning of the installed sequence, because installed sequences are only
  ever continued. That a swap installs a continuation needs that it compares with
  the state it loaded.
* `CallCarrierProofs`, from the assumptions of limiter and tracker and
  `Callers = Goroutines`. `CallRefinesParts` shows that every step of the
  composition is a step or a stutter of the limiter and of the tracker, which
  carries their theorems over: `CallsKeepRate`, `CallsOutrankHedges`,
  `CallsObserved`, `CallsGauge`. `SuccessesObserved` and `CallsCountedOnce` relate
  the counters to both parts and need `Positions`: a call executes only with a
  granted token and is inside `Record` only between execution and return; `Countable`
  is the number of calls that returned, or none without an adapter.
* `CarrierAdapterProofs`, from `RetriesAssumption` (any integer; `withDefaults`
  makes it positive) and `DurationAssumption` (the default validity is a positive
  duration). `AdapterRefinesPost` shows that the closure runs `Post` as
  `HTTPCarrier` specifies it. The invariant of `Post` is `Undecided` (while it
  runs, every attempt ended in a way that is retried, and the loop counter is
  their number), `Deliveries` and `Decided`; that of the closure is `ClosureInv`.
  `DecidedRequestsEnd` and `GivingUpHasCause` follow from the first,
  `QuotesAreSound` from the second and the range of a wrapped product;
  `CancelStopsRequests` needs `Cancellation`: after the cancellation a request is
  late at most once, and once it is no attempt is between its check of the context
  and its delivery, whatever the backoff `select` chose in between.
* `GatewayProofs`, from `GatewayAssumption`. `SlotsReturned` is inductive with
  the types, by counting the requests that enter and leave the handler.
  `BudgetOverdraft` needs `Overdraft`: once the budget is empty, the unpaid
  failures and the requests still between check and comparison together are
  fewer than the connections, since the request that emptied it is neither.
  `DatabaseClosedLast` and `CleanExit` need `ShutdownOrder`, what main has waited
  for at each point: the ticker before the server is shut down, the listener
  closed before draining, and nothing active before the close; and `Answers`, that
  a request that is done has a status.

Every invariant and every action property that a passing run checks is also
proved, and so are both refinements. Only model-checked: the liveness properties
(`HalfOpenIsDecided`, `Returns`, `Answered`, `ExpiredRowsGo`,
`LockFree`, `AdapterReturns`, `ShutdownEnds`), because the prover handles neither
fairness nor ENABLED, and the violations of section 4, which TLC's
counterexamples show.

## 6. Not modelled

Audit logging and security headers have no state. The remaining counters and the
histograms only grow and nothing in the program reads them. The wiring of main
(addresses, timeouts, the list of carriers) is straight-line code, and the
adapters' other field copies have no behaviour a model would add to. The float
arithmetic of the average and the choice of alpha are outside TLC and TLAPS.
`GetQuotes` without a request id is not reached, because the handler refuses such
requests. The gauge of the breaker's state is in the model, its transition counter
is not. The random delays of backoff and mock carriers are not measured: a timer
fires some time.

## 7. Plan

Done: breaker with contract and refinement; fan-out with hedging, contract and
refinement; service with repository and restarts; limiter, tracker and their
composition in `callCarrier`; HTTP client and adapters; process with startup,
middleware and shutdown; theorems for the safety properties of all of them.

1. What holds instead of the claims of section 4: that a breaker stays Open for
   `OpenTimeout` when no call falls between the publication of Open and the
   store of `openedAt`; that a save of a carrier without an expired row is found.
2. The breaker's counters against history variables that hold outside the two
   publication windows of section 4.
