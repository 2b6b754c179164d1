---------------------------- MODULE QuoteService ----------------------------
(***************************************************************************)
(* Orchestrator.GetQuotes around fanOut: the lookup in the quote           *)
(* repository, singleflight deduplication by scoped key, the save after    *)
(* the fan-out, and the cleanup ticker that purges expired rows            *)
(* (orchestrator.go, repository/postgres.go, cleanup/cleanup.go).  The     *)
(* process may die and restart at any point; the table survives.           *)
(*                                                                         *)
(* fanOut is one step here, the Return of FanOutContract, which FanOut     *)
(* implements: at most one quote per carrier.  A request's context does    *)
(* not cancel it (context.WithoutCancel).  Postgres statements and the     *)
(* save transaction are atomic.                                            *)
(***************************************************************************)
EXTENDS Integers, FiniteSets

CONSTANTS Requests,   \* callers of GetQuotes
          Keys,       \* scopedKey(req): client and request id
          Carriers,
          Premiums,
          Lifetimes,  \* validity left when the fan-out ends, 0 if none is
          Faults,     \* database operations that may fail
          MaxClock,   \* bound on the clock
          NoRequest,  \* no leader
          NoKey       \* no key

ASSUME ServiceAssumption ==
  /\ Premiums \subseteq Nat
  /\ Lifetimes \subseteq Nat
  /\ Faults \subseteq {"find", "save"}
  /\ MaxClock \in Nat
  /\ NoRequest \notin Requests
  /\ NoKey \notin Keys

VARIABLES
  now,       \* the clock
  rows,      \* rows[k]: the quotes stored under request_id k
  pc,        \* pc[r]: where request r is in GetQuotes
  key,       \* key[r]: its scoped key
  flight,    \* flight[k]: sfGroup's call for k, its leader or NoRequest
  response,  \* response[r]: the quotes r returns
  stored     \* history: stored[r], r's save was committed

vars == <<now, rows, pc, key, flight, response, stored>>

\* Quotes a fan-out that ends at time t can produce.  Carriers stamp the expiry
\* when they answer, so a quote may have expired before the slowest is done.
QuotesAt(t) == [carrier : Carriers, premium : Premiums,
                expiresAt : {t + l : l \in Lifetimes}]

\* At most one per carrier.
Distinct(qs) == \A p, q \in qs : p.carrier = q.carrier => p = q

Live(qs) == {q \in qs : q.expiresAt > now}

Init ==
  /\ now = 0
  /\ rows = [k \in Keys |-> {}]
  /\ pc = [r \in Requests |-> "idle"]
  /\ key = [r \in Requests |-> NoKey]
  /\ flight = [k \in Keys |-> NoRequest]
  /\ response = [r \in Requests |-> {}]
  /\ stored = [r \in Requests |-> FALSE]

Goes(r, from, to) ==
  /\ pc[r] = from
  /\ pc' = [pc EXCEPT ![r] = to]

\* GetQuotes is called for key k.
Arrive(r, k) ==
  /\ pc[r] \in {"idle", "returned"}
  /\ pc' = [pc EXCEPT ![r] = "find"]
  /\ key' = [key EXCEPT ![r] = k]
  /\ response' = [response EXCEPT ![r] = {}]
  /\ stored' = [stored EXCEPT ![r] = FALSE]
  /\ UNCHANGED <<now, rows, flight>>

\* FindByRequestID: a hit returns the unexpired rows; a miss or an error goes
\* on to the fan-out.
Find(r) ==
  /\ pc[r] = "find"
  /\ LET hit == Live(rows[key[r]]) IN
       \/ /\ hit # {}
          /\ Goes(r, "find", "returned")
          /\ response' = [response EXCEPT ![r] = hit]
       \/ /\ hit = {} \/ "find" \in Faults
          /\ Goes(r, "find", "do")
          /\ UNCHANGED response
  /\ UNCHANGED <<now, rows, key, flight, stored>>

\* Variant: every caller runs its own fan-out.
DoAlone(r) ==
  /\ Goes(r, "do", "fanOut")
  /\ flight' = [flight EXCEPT ![key[r]] = r]
  /\ UNCHANGED <<now, rows, key, response, stored>>

\* sfGroup.Do: the first caller leads, the others wait for its result.
Do(r) ==
  /\ \/ /\ Goes(r, "do", "fanOut")
        /\ flight[key[r]] = NoRequest
        /\ flight' = [flight EXCEPT ![key[r]] = r]
     \/ /\ Goes(r, "do", "wait")
        /\ flight[key[r]] # NoRequest
        /\ UNCHANGED flight
  /\ UNCHANGED <<now, rows, key, response, stored>>

\* fanOut returns its quotes; only a non-empty result is saved.
FanOut(r) ==
  /\ \E qs \in SUBSET QuotesAt(now) :
       /\ Distinct(qs)
       /\ response' = [response EXCEPT ![r] = qs]
       /\ Goes(r, "fanOut", IF qs = {} THEN "finish" ELSE "save")
  /\ UNCHANGED <<now, rows, key, flight, stored>>

\* Variant: without ON CONFLICT and the primary key every row is added.
InsertAlways(old, new) == old \cup new

\* Variant: expires_at is left at its zero value, which is long past.
InsertNoExpiry(old, new) == old \cup {[q EXCEPT !.expiresAt = -1] : q \in new}

\* What INSERT ... ON CONFLICT (request_id, carrier_id) DO NOTHING leaves in
\* the table: the old row of a carrier wins, expired or not.
Insert(old, new) ==
  old \cup {q \in new : \A p \in old : p.carrier # q.carrier}

\* Save's transaction is all or nothing.  If it reports an error the rows are
\* missing, or they are there and only the answer to Commit was lost.
Save(r) ==
  /\ Goes(r, "save", "finish")
  /\ \/ /\ rows' = [rows EXCEPT ![key[r]] = Insert(@, response[r])]
        /\ stored' = [stored EXCEPT ![r] = TRUE]
     \/ /\ "save" \in Faults
        /\ \/ UNCHANGED rows
           \/ rows' = [rows EXCEPT ![key[r]] = Insert(@, response[r])]
        /\ UNCHANGED stored
  /\ UNCHANGED <<now, key, flight, response>>

\* Variant: only the leader's caller gets the result.
FinishLeaderOnly(r) ==
  /\ Goes(r, "finish", "returned")
  /\ flight' = [flight EXCEPT ![key[r]] = NoRequest]
  /\ UNCHANGED <<now, rows, key, response, stored>>

\* sfGroup.Do returns: the call is forgotten, and the leader and everyone
\* waiting return the leader's quotes.
Finish(r) ==
  /\ pc[r] = "finish"
  /\ LET shared == {s \in Requests : pc[s] = "wait" /\ key[s] = key[r]}
     IN  /\ pc' = [s \in Requests |->
                     IF s \in shared \cup {r} THEN "returned" ELSE pc[s]]
         /\ response' = [s \in Requests |->
                           IF s \in shared THEN response[r] ELSE response[s]]
  /\ flight' = [flight EXCEPT ![key[r]] = NoRequest]
  /\ UNCHANGED <<now, rows, key, stored>>

\* Time passes.
Tick ==
  /\ now < MaxClock
  /\ now' = now + 1
  /\ UNCHANGED <<rows, pc, key, flight, response, stored>>

\* Variant: rows are purged one tick too early.
SweepEarly ==
  /\ rows' = [k \in Keys |-> {q \in rows[k] : q.expiresAt > now + 1}]
  /\ UNCHANGED <<now, pc, key, flight, response, stored>>

\* Variant: the comparison is the wrong way round.
SweepSwapped ==
  /\ rows' = [k \in Keys |-> rows[k] \ Live(rows[k])]
  /\ UNCHANGED <<now, pc, key, flight, response, stored>>

\* The cleanup ticker's sweep: DELETE ... WHERE expires_at <= NOW().
Sweep ==
  /\ rows' = [k \in Keys |-> Live(rows[k])]
  /\ UNCHANGED <<now, pc, key, flight, response, stored>>

\* The process dies at any point and is started again: Open and Migrate, whose
\* DDL is idempotent, leave the rows; the requests and sfGroup are gone.
Restart ==
  /\ pc' = [r \in Requests |-> "idle"]
  /\ key' = [r \in Requests |-> NoKey]
  /\ flight' = [k \in Keys |-> NoRequest]
  /\ response' = [r \in Requests |-> {}]
  /\ stored' = [r \in Requests |-> FALSE]
  /\ UNCHANGED <<now, rows>>

\* What a request does after the lookup.
AfterFind(r) == Do(r) \/ FanOut(r) \/ Save(r) \/ Finish(r)

Next ==
  \/ \E r \in Requests : \/ \E k \in Keys : Arrive(r, k)
                         \/ Find(r) \/ AfterFind(r)
  \/ Tick \/ Sweep \/ Restart

Spec == Init /\ [][Next]_vars

\* Every goroutine runs; fanOut returns (FanOut!Returns) and the save is
\* bounded by its own three second timeout.  The lookup has no deadline but the
\* caller's, so it may hang.  The ticker sweeps every interval while the process
\* runs, and its statement does not fail for ever.
FairSpec ==
  /\ Spec
  /\ \A r \in Requests : WF_vars(AfterFind(r))
  /\ WF_vars(Sweep)

-----------------------------------------------------------------------------
(* Properties                                                              *)

\* Types; every stored and returned quote is one some fan-out made, with its
\* expiry.
TypeOK ==
  /\ now \in 0..MaxClock
  /\ rows \in [Keys -> SUBSET UNION {QuotesAt(t) : t \in 0..MaxClock}]
  /\ pc \in [Requests -> {"idle", "find", "do", "wait", "fanOut", "save",
                          "finish", "returned"}]
  /\ key \in [Requests -> Keys \cup {NoKey}]
  /\ flight \in [Keys -> Requests \cup {NoRequest}]
  /\ response \in [Requests -> SUBSET UNION {QuotesAt(t) : t \in 0..MaxClock}]
  /\ stored \in [Requests -> BOOLEAN]

Leads(r) == pc[r] \in {"fanOut", "save", "finish"}

\* At most one fan-out runs per scoped key, and a request only waits while
\* some request leads its key: no waiter is left without a leader.
OneFlightPerKey ==
  /\ \A r, s \in Requests : Leads(r) /\ Leads(s) /\ key[r] = key[s] => r = s
  /\ \A r \in Requests :
       pc[r] = "wait" => \E s \in Requests : Leads(s) /\ key[s] = key[r]

\* Nobody is answered with two quotes of one carrier, from the cache or from
\* a fan-out, although several fan-outs may have saved under one key.
OneQuotePerCarrier ==
  \A r \in Requests : Distinct(response[r])

\* Once quotes are saved, a request for the same key cannot start another
\* fan-out by finding the cache empty while one of them is still live: rows
\* leave the table only when they expire, across restarts too.
LiveRowsStay ==
  [][\A k \in Keys : Live(rows[k]) \subseteq rows'[k]]_vars

\* Every request that is past its lookup is answered, leaders and waiters alike
\* and although lookups of the same key hang, unless the process dies, which
\* takes its requests back to "idle".
Answered ==
  \A r \in Requests : pc[r] = "do" ~> pc[r] \in {"returned", "idle"}

\* An expired row does not keep its successor out of the table for ever: it
\* is swept, whatever requests find, fan out and save meanwhile.
ExpiredRowsGo ==
  \A k \in Keys, q \in UNION {QuotesAt(t) : t \in 0..MaxClock} :
    q \in rows[k] /\ q.expiresAt <= now ~> q \notin rows[k]

-----------------------------------------------------------------------------
(* Claims of the documentation the code does not keep                      *)

\* "Same ID returns cached results" (README.md): two answers for one key that
\* quote the same carrier, both still valid, quote it alike.
SameIdSameAnswer ==
  \A r, s \in Requests :
    pc[r] = "returned" /\ pc[s] = "returned" /\ key[r] = key[s] =>
      Distinct(Live(response[r]) \cup Live(response[s]))

\* "On a cache miss, results are saved after the fan-out completes"
\* (orchestrator.go:96): after a committed save the next lookup finds a quote
\* of every carrier whose quote is still live.
SavedIsFindable ==
  [][\A r \in Requests :
       ~stored[r] /\ stored'[r] =>
         \A q \in Live(response[r]) :
           \E p \in Live(rows'[key[r]]) : p.carrier = q.carrier]_vars
=============================================================================
