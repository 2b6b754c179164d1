------------------------------ MODULE Gateway ------------------------------
(***************************************************************************)
(* The process around the orchestrator: main's startup and shutdown, the   *)
(* middleware chain and the handler every HTTP request runs through, and   *)
(* the cleanup ticker (cmd/carrier-gateway/main.go, internal/middleware,   *)
(* internal/handler/http.go, internal/cleanup/cleanup.go).                 *)
(*                                                                         *)
(* GetQuotes is a single interval here, during which the database may be   *)
(* used (QuoteService).  Keys and bodies are good or bad.  All requests    *)
(* come from one address, so they share one failure budget.                *)
(***************************************************************************)
EXTENDS Naturals, FiniteSets

CONSTANTS Requests,       \* connections that may carry a request
          MaxConcurrent,  \* LimitConcurrency's max
          AuthBurst       \* authFailureLimiter's burst

ASSUME GatewayAssumption ==
  /\ IsFiniteSet(Requests) /\ Requests # {}
  /\ MaxConcurrent \in Nat \ {0}
  /\ AuthBurst \in Nat \ {0}

VARIABLES
  main,      \* where main is
  exitCode,  \* os.Exit's argument, or None
  server,    \* the listener accepts connections
  ticker,    \* the cleanup goroutine, "none" without a repository
  stop,      \* its stop channel is closed
  db,        \* the connection pool: "none", "open" or "closed"
  budget,    \* tokens in the address's authFailureLimiter bucket
  unpaid,    \* history: failures since the last refill that found it empty
  sem,       \* tokens in LimitConcurrency's channel
  pc,        \* pc[r]: where request r is
  path,      \* path[r]
  status     \* status[r]: the status written, or None

vars == <<main, exitCode, server, ticker, stop, db, budget, unpaid, sem, pc,
          path, status>>

None == 99

\* "/other" stands for every path that has no route.
Paths == {"/quotes", "/healthz", "/metrics", "/readyz", "/other"}

\* The paths main lets through without a key.
SkipAuth == {"/healthz", "/metrics", "/readyz"}

Init ==
  /\ main = "openDB"
  /\ exitCode = None
  /\ server = FALSE
  /\ ticker = "none"
  /\ stop = FALSE
  /\ db = "none"
  /\ budget = AuthBurst
  /\ unpaid = 0
  /\ sem = 0
  /\ pc = [r \in Requests |-> "none"]
  /\ path = [r \in Requests |-> "/quotes"]
  /\ status = [r \in Requests |-> None]

Running == main # "exited"

HasRepo == ticker # "none"

process == <<main, exitCode, server, ticker, stop, db>>
auth == <<budget, unpaid>>

Goes(r, from, to) ==
  /\ Running
  /\ pc[r] = from
  /\ pc' = [pc EXCEPT ![r] = to]

Writes(r, code) == status' = [status EXCEPT ![r] = code]

-----------------------------------------------------------------------------
(* A request                                                               *)

Arrive(r, p) ==
  /\ server
  /\ pc[r] \in {"none", "answered"}
  /\ Running
  /\ pc' = [pc EXCEPT ![r] = "auth"]
  /\ path' = [path EXCEPT ![r] = p]
  /\ Writes(r, None)
  /\ UNCHANGED <<process, auth, sem>>

\* Variant: failures are recorded but the budget is never checked.
InBudgetAlways == TRUE

\* authFailureLimiter.check
InBudget == budget >= 1

\* RequireAPIKey: skipped paths pass, and an exhausted budget gets 429 ...
CheckBudget(r) ==
  /\ \/ /\ path[r] \in SkipAuth
        /\ Goes(r, "auth", "limit")
        /\ UNCHANGED status
     \/ /\ path[r] \notin SkipAuth
        /\ InBudget
        /\ Goes(r, "auth", "key")
        /\ UNCHANGED status
     \/ /\ path[r] \notin SkipAuth
        /\ ~InBudget
        /\ Goes(r, "auth", "answered")
        /\ Writes(r, 429)
  /\ UNCHANGED <<process, auth, sem, path>>

\* ... before the keys are compared: a failure takes a token, if one is left.
CompareKeys(r) ==
  /\ \/ /\ Goes(r, "key", "limit")
        /\ UNCHANGED <<auth, status>>
     \/ /\ Goes(r, "key", "answered")
        /\ Writes(r, 401)
        /\ budget' = IF budget >= 1 THEN budget - 1 ELSE 0
        /\ unpaid' = IF budget >= 1 THEN unpaid ELSE unpaid + 1
  /\ UNCHANGED <<process, sem, path>>

\* The bucket gains a token.
RefillBudget ==
  /\ Running
  /\ budget < AuthBurst
  /\ budget' = budget + 1
  /\ unpaid' = 0
  /\ UNCHANGED <<process, sem, pc, path, status>>

\* Variant: the channel is made one slot too large.
SlotFreeOneMore == sem <= MaxConcurrent

\* The send on the semaphore channel would not block.
SlotFree == sem < MaxConcurrent

\* LimitConcurrency's select: take a slot or answer 503.
LimitConcurrency(r) ==
  /\ \/ /\ SlotFree
        /\ sem' = sem + 1
        /\ Goes(r, "limit", "route")
        /\ UNCHANGED status
     \/ /\ ~SlotFree
        /\ Goes(r, "limit", "answered")
        /\ Writes(r, 503)
        /\ UNCHANGED sem
  /\ UNCHANGED <<process, auth, path>>

\* The mux.  /healthz and /metrics are answered at once; a path without a route
\* and a method the path's route does not take are answered by the mux itself.
RegisterRoutes(r) ==
  /\ \/ path[r] = "/quotes" /\ Goes(r, "route", "decode") /\ UNCHANGED status
     \/ path[r] = "/readyz" /\ Goes(r, "route", "ping") /\ UNCHANGED status
     \/ path[r] \in {"/healthz", "/metrics"} /\ Goes(r, "route", "leave")
                                            /\ Writes(r, 200)
     \/ Goes(r, "route", "leave")
        /\ Writes(r, IF path[r] = "/other" THEN 404 ELSE 405)
  /\ UNCHANGED <<process, auth, sem, path>>

\* handleReadyz pings the database, if there is one.
HandleReadyz(r) ==
  /\ Goes(r, "ping", "leave")
  /\ \/ Writes(r, 200)
     \/ db # "none" /\ Writes(r, 503)
  /\ UNCHANGED <<process, auth, sem, path>>

\* handlePostQuotes reads and decodes the body.
Decode(r) ==
  /\ \/ Goes(r, "decode", "validate") /\ UNCHANGED status
     \/ Goes(r, "decode", "leave") /\ Writes(r, 400)
  /\ UNCHANGED <<process, auth, sem, path>>

\* validateQuoteRequest, and GetQuotes is called.
Validate(r) ==
  /\ \/ Goes(r, "validate", "quotes") /\ UNCHANGED status
     \/ Goes(r, "validate", "leave") /\ Writes(r, 400)
  /\ UNCHANGED <<process, auth, sem, path>>

\* GetQuotes returns: some quotes, or none.  fanOut never returns an error.
GetQuotesReturns(r) ==
  /\ Goes(r, "quotes", "leave")
  /\ \E code \in {200, 422} : Writes(r, code)
  /\ UNCHANGED <<process, auth, sem, path>>

\* Variant: the slot is given back only after a 200.
LeaveOnSuccess(r) ==
  /\ Goes(r, "leave", "answered")
  /\ sem' = IF status[r] = 200 THEN sem - 1 ELSE sem
  /\ UNCHANGED <<process, auth, path, status>>

\* The deferred receive from the semaphore.
Leave(r) ==
  /\ Goes(r, "leave", "answered")
  /\ sem' = sem - 1
  /\ UNCHANGED <<process, auth, path, status>>

Serve(r) ==
  \/ CheckBudget(r) \/ CompareKeys(r) \/ LimitConcurrency(r)
  \/ RegisterRoutes(r) \/ HandleReadyz(r) \/ Decode(r) \/ Validate(r)
  \/ GetQuotesReturns(r) \/ Leave(r)

-----------------------------------------------------------------------------
(* The cleanup ticker                                                      *)

requests == <<auth, sem, pc, path, status>>

\* time.NewTicker(interval) panics if CLEANUP_INTERVAL was not positive, which
\* main does not check: the process dies.
TickerPanics ==
  /\ Running
  /\ ticker = "panic"
  /\ main' = "exited"
  /\ exitCode' = 2
  /\ UNCHANGED <<server, ticker, stop, db, requests>>

\* Start's select: a tick, even when stop is closed as well.
TickerFires ==
  /\ Running
  /\ ticker = "select"
  /\ ticker' = "sweep"
  /\ UNCHANGED <<main, exitCode, server, stop, db, requests>>

\* DeleteExpired returns.
SweepReturns ==
  /\ Running
  /\ ticker = "sweep"
  /\ ticker' = "select"
  /\ UNCHANGED <<main, exitCode, server, stop, db, requests>>

TickerStops ==
  /\ Running
  /\ ticker = "select"
  /\ stop
  /\ ticker' = "done"
  /\ UNCHANGED <<main, exitCode, server, stop, db, requests>>

-----------------------------------------------------------------------------
(* main                                                                    *)

MainGoes(from, to) == main = from /\ main' = to

\* DATABASE_URL is unset or unusable, or the pool is open; with a repository
\* the ticker is started.
OpenDB ==
  /\ MainGoes("openDB", "keys")
  /\ \/ UNCHANGED <<db, ticker>>
     \/ /\ db' = "open"
        /\ \E migrated \in BOOLEAN :
             IF migrated THEN ticker' \in {"select", "panic"}
             ELSE UNCHANGED ticker
  /\ UNCHANGED <<exitCode, server, stop, requests>>

\* parseAPIKeys: without keys, or with a short one, the process exits; else
\* the server is started.
ParseAPIKeys ==
  /\ \/ /\ MainGoes("keys", "exited")
        /\ exitCode' = 1
        /\ UNCHANGED server
     \/ /\ MainGoes("keys", "run")
        /\ server' = TRUE
        /\ UNCHANGED exitCode
  /\ UNCHANGED <<ticker, stop, db, requests>>

\* ListenAndServe fails: exit code 1.
ServerFails ==
  /\ MainGoes("run", "exited")
  /\ exitCode' = 1
  /\ UNCHANGED <<server, ticker, stop, db, requests>>

Signal ==
  /\ MainGoes("run", "stop")
  /\ UNCHANGED <<exitCode, server, ticker, stop, db, requests>>

\* Variant: Stop waits without closing the channel.
StopTickerSilent ==
  /\ MainGoes("stop", IF HasRepo THEN "join" ELSE "shutdown")
  /\ UNCHANGED <<exitCode, server, ticker, stop, db, requests>>

\* cleanupTicker.Stop closes the channel ...
StopTicker ==
  /\ MainGoes("stop", IF HasRepo THEN "join" ELSE "shutdown")
  /\ stop' = HasRepo
  /\ UNCHANGED <<exitCode, server, ticker, db, requests>>

\* Variant: Stop does not wait for the goroutine.
TickerDoneAssumed == TRUE

\* The channel done is closed.
TickerDone == ticker = "done"

\* ... and waits for Start to return.
JoinTicker ==
  /\ MainGoes("join", "shutdown")
  /\ TickerDone
  /\ UNCHANGED <<exitCode, server, ticker, stop, db, requests>>

\* srv.Shutdown closes the listener and waits for active connections ...
Shutdown ==
  /\ MainGoes("shutdown", "drain")
  /\ server' = FALSE
  /\ UNCHANGED <<exitCode, ticker, stop, db, requests>>

Drained == \A r \in Requests : pc[r] \in {"none", "answered"}

ShutdownReturns ==
  /\ MainGoes("drain", "close")
  /\ Drained
  /\ UNCHANGED <<exitCode, server, ticker, stop, db, requests>>

\* Variant: an exceeded drain window is not treated as an error.
DrainTimeoutIgnored ==
  /\ MainGoes("drain", "close")
  /\ UNCHANGED <<exitCode, server, ticker, stop, db, requests>>

\* ... for at most 30 seconds: then exit code 1, in whatever state.  Shutdown
\* polls, so the timer can also win after the last answer.
DrainTimeout ==
  /\ MainGoes("drain", "exited")
  /\ exitCode' = 1
  /\ UNCHANGED <<server, ticker, stop, db, requests>>

CloseDB ==
  /\ MainGoes("close", "exited")
  /\ db' = IF db = "open" THEN "closed" ELSE db
  /\ exitCode' = 0
  /\ UNCHANGED <<server, ticker, stop, requests>>

Exited == main = "exited" /\ UNCHANGED vars

Starting == OpenDB \/ ParseAPIKeys

Stopping ==
  \/ StopTicker \/ JoinTicker \/ Shutdown \/ ShutdownReturns \/ DrainTimeout
  \/ CloseDB

Next ==
  \/ \E r \in Requests : (\E p \in Paths : Arrive(r, p)) \/ Serve(r)
  \/ RefillBudget
  \/ TickerPanics \/ TickerFires \/ SweepReturns \/ TickerStops
  \/ Starting \/ ServerFails \/ Signal \/ Stopping \/ Exited

Spec == Init /\ [][Next]_vars

\* main runs, the drain timer fires, the ticker's goroutine is started, and its
\* select, random when both its channels are ready, does not ignore stop for
\* ever.  Requests may hang, and so may a sweep: its context has no deadline.
FairSpec ==
  /\ Spec
  /\ WF_vars(Starting) /\ WF_vars(Stopping)
  /\ WF_vars(TickerPanics) /\ SF_vars(TickerStops)

-----------------------------------------------------------------------------
(* Properties                                                              *)

\* Types; the semaphore never holds more than MaxConcurrent tokens.
TypeOK ==
  /\ main \in {"openDB", "keys", "run", "stop", "join", "shutdown", "drain",
               "close", "exited"}
  /\ exitCode \in {None, 0, 1, 2}
  /\ server \in BOOLEAN /\ stop \in BOOLEAN
  /\ db \in {"none", "open", "closed"}
  /\ ticker \in {"none", "panic", "select", "sweep", "done"}
  /\ budget \in 0..AuthBurst
  /\ unpaid \in Nat
  /\ sem \in 0..MaxConcurrent
  /\ pc \in [Requests -> {"none", "auth", "key", "limit", "route",
                          "decode", "validate", "ping", "quotes", "leave",
                          "answered"}]
  /\ path \in [Requests -> Paths]
  /\ status \in [Requests -> {None, 200, 400, 401, 404, 405, 422, 429, 503}]

\* The requests between LimitConcurrency's send and its deferred receive.
Inside == {r \in Requests : pc[r] \in {"route", "decode", "validate", "ping",
                                       "quotes", "leave"}}

\* The semaphore counts the requests inside the handler: rejected requests
\* take no slot and every answered one has given its slot back.
SlotsMatchHolders == sem = Cardinality(Inside)

\* The failure budget is checked before the key and paid after it, so it can be
\* overdrawn, but between two refills only by requests that had passed the
\* check already: all of them but the one that took the last token.
OverdraftBounded == unpaid < Cardinality(Requests)

\* Nobody uses the database once main has closed it: not a request that was
\* in flight, not the ticker in the middle of a sweep.
NoQueryAfterClose ==
  db = "closed" =>
    ticker # "sweep" /\ \A r \in Requests : pc[r] \notin {"quotes", "ping"}

\* Exit code 0 means that every accepted request was answered and has left
\* the handler (REQ-HTTP-005).
CleanExitAnsweredAll ==
  exitCode = 0 =>
    /\ \A r \in Requests : pc[r] = "none" \/ status[r] # None
    /\ sem = 0

\* A signal ends the process although requests may hang, unless a sweep
\* never returns.
ShutdownEnds ==
  (main = "stop" ~> main = "exited") \/ <>[](ticker = "sweep")

=============================================================================
