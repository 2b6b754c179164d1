------------------------------- MODULE FanOut -------------------------------
(***************************************************************************)
(* One call of Orchestrator.fanOut (internal/orchestrator/orchestrator.go) *)
(* with the goroutines it starts: a primary call per eligible carrier, the *)
(* hedge monitor and its hedge calls (hedging.go), the goroutine that      *)
(* closes the results channel, and the collector loop of fanOut itself.    *)
(*                                                                         *)
(* Carriers are numbered in the order of the configured slice, which is    *)
(* also the order of their ids.  Breakers are shared with every other      *)
(* request, and from any state a breaker can reach any other one           *)
(* (CircuitBreaker), so each read of a breaker's state here may return any *)
(* of the three: the set read as Open is chosen where it is read.          *)
(***************************************************************************)
EXTENDS Integers, Sequences, FiniteSets, Functions

CONSTANTS Carriers,    \* configured carriers, a finite set of positive numbers
          Capable,     \* those offering a requested coverage line
          Registered,  \* those with an adapter in the registry
          Warm,        \* those past EMAWarmupObservations: a finite threshold
          P95,         \* tracker.P95() when the fan-out starts
          Priority,    \* Config.Priority
          Premiums     \* premiums a carrier may quote

ASSUME CarrierAssumption ==
  /\ Carriers \subseteq Nat \ {0}
  /\ IsFiniteSet(Carriers)
  /\ Capable \subseteq Carriers
  /\ Registered \subseteq Carriers
  /\ Warm \subseteq Carriers
  /\ P95 \in [Carriers -> Nat]
  /\ Priority \in [Carriers -> Nat]
  /\ Premiums \subseteq Nat

VARIABLES
  phase,          \* fanOut itself: "start", "range", "finish" or "returned"
  eligible,       \* result of filterEligibleCarriers
  deadline,       \* reqCtx is done: its timeout fired or the caller left
  pc,             \* pc[c]: callCarrier for c
  groupDone,      \* the errgroup cancelled gCtx
  closer,         \* the goroutine that closes results, which it does last
  monitor,        \* hedgeMonitor
  todo,           \* carriers its current scan has not visited
  allResolved,    \* its local of the same name
  due,            \* pending carriers whose elapsed time reached the threshold
  trigger,        \* carrier whose hedge is about to be fired, or None
  candidate,      \* the target chosen for it, or None
  alreadyHedged,  \* carriers a hedge was fired for
  hedgePc,        \* hedgePc[c]: the hedge goroutine fired for c
  hedgeTarget,    \* hedgeTarget[c]: the carrier it calls
  results,        \* the buffered channel
  collected,      \* results kept by the collector
  answered,       \* history: carriers whose primary call returned a quote
  first,          \* history: the first quote of each carrier in the channel
  response        \* what fanOut returns

fanOutVars == <<phase, eligible, deadline, collected, response>>
groupVars == <<pc, groupDone, answered>>
monitorVars == <<monitor, todo, allResolved, due, trigger, candidate,
                 alreadyHedged>>
hedgeVars == <<hedgePc, hedgeTarget>>
channelVars == <<results, first>>
vars == <<fanOutVars, groupVars, closer, monitorVars, hedgeVars,
          channelVars>>

None == 0

\* A QuoteResult, as far as the collector looks at it.
Quote(c, p) == [carrier |-> c, premium |-> p]

Quotes == [carrier : Carriers, premium : Premiums]

\* The carriers that already have a result: the keys of the map seen.
Seen == {collected[i].carrier : i \in DOMAIN collected}

\* close(results) has run.
Closed == closer = "done"

\* gCtx, and so hedgeCtx, is done.
GCtxDone == deadline \/ groupDone

\* Variant: one buffer slot per carrier, none for its hedge.
ChannelCapacityHalved == Cardinality(eligible)

\* make(chan domain.QuoteResult, len(eligible)*2)
ChannelCapacity == 2 * Cardinality(eligible)

-----------------------------------------------------------------------------
Init ==
  /\ phase = "start"
  /\ eligible = {}
  /\ deadline = FALSE
  /\ pc = [c \in Carriers |-> "none"]
  /\ groupDone = FALSE
  /\ closer = "none"
  /\ monitor = "none"
  /\ todo = {}
  /\ allResolved = FALSE
  /\ due = {}
  /\ trigger = None
  /\ candidate = None
  /\ alreadyHedged = {}
  /\ hedgePc = [c \in Carriers |-> "none"]
  /\ hedgeTarget = [c \in Carriers |-> None]
  /\ results = <<>>
  /\ collected = <<>>
  /\ answered = {}
  /\ first = {}
  /\ response = <<>>

\* Variant: the coverage lines are not compared.
FilterAnyLine(open) == Carriers \ open

\* filterEligibleCarriers: the capable carriers whose breaker is not Open.
FilterEligible(open) == Capable \ open

\* fanOut up to its collector loop.  Without an eligible carrier it returns at
\* once; else it starts the monitor, the primaries and the closer.
Start ==
  /\ phase = "start"
  /\ \E open \in SUBSET Carriers : eligible' = FilterEligible(open)
  /\ \/ /\ eligible' = {}
        /\ phase' = "returned"
        /\ UNCHANGED <<pc, closer, monitor>>
     \/ /\ eligible' # {}
        /\ phase' = "range"
        /\ pc' = [c \in Carriers |-> IF c \in eligible' THEN "get" ELSE "none"]
        /\ closer' = "wait"
        /\ monitor' = "select"
  /\ UNCHANGED <<deadline, collected, response, groupDone, answered, todo,
                 allResolved, due, trigger, candidate, alreadyHedged,
                 hedgeVars, channelVars>>

\* The request timeout, or the caller's cancellation.
DeadlineFires ==
  /\ phase = "range"
  /\ ~deadline
  /\ deadline' = TRUE
  /\ UNCHANGED <<phase, eligible, collected, response, groupVars, closer,
                 monitorVars, hedgeVars, channelVars>>

-----------------------------------------------------------------------------
(* callCarrier                                                             *)

Goes(c, from, to) ==
  /\ pc[c] = from
  /\ pc' = [pc EXCEPT ![c] = to]

\* registry.Get: a carrier without an adapter is skipped.
GetAdapter(c) ==
  /\ Goes(c, "get", IF c \in Registered THEN "wait" ELSE "done")
  /\ UNCHANGED <<fanOutVars, groupDone, answered, closer, monitorVars,
                 hedgeVars, channelVars>>

\* limiter.Wait returns a token or an error.
LimiterWait(c) ==
  /\ Goes(c, "wait", "execute") \/ Goes(c, "wait", "done")
  /\ UNCHANGED <<fanOutVars, groupDone, answered, closer, monitorVars,
                 hedgeVars, channelVars>>

\* breaker.Execute calls fn or returns ErrCircuitOpen.
BreakerExecute(c) ==
  /\ \E to \in {"call", "done"} : Goes(c, "execute", to)
  /\ UNCHANGED <<fanOutVars, groupDone, answered, closer, monitorVars,
                 hedgeVars, channelVars>>

\* Variant: a carrier error reaches the errgroup, which cancels gCtx.
CallReturnsFatal(c) ==
  /\ \/ /\ Goes(c, "call", "send")
        /\ answered' = answered \cup {c}
        /\ UNCHANGED groupDone
     \/ /\ Goes(c, "call", "done")
        /\ groupDone' = TRUE
        /\ UNCHANGED answered
  /\ UNCHANGED <<fanOutVars, closer, monitorVars, hedgeVars, channelVars>>

\* execFn returns a quote or an error.  An error is classified and recorded,
\* and callCarrier still returns nil.
CallReturns(c) ==
  /\ \/ /\ Goes(c, "call", "send")
        /\ answered' = answered \cup {c}
     \/ /\ Goes(c, "call", "done")
        /\ UNCHANGED answered
  /\ UNCHANGED <<fanOutVars, groupDone, closer, monitorVars, hedgeVars,
                 channelVars>>

\* select { case results <- q: case <-ctx.Done(): }
SelectSend(q) ==
  \/ /\ Len(results) < ChannelCapacity
     /\ results' = Append(results, q)
     /\ first' = IF \E f \in first : f.carrier = q.carrier THEN first
                 ELSE first \cup {q}
  \/ GCtxDone /\ UNCHANGED channelVars

\* The end of callCarrier.
Send(c) ==
  /\ Goes(c, "send", "done")
  /\ \E p \in Premiums : SelectSend(Quote(c, p))
  /\ UNCHANGED <<fanOutVars, groupDone, answered, closer, monitorVars,
                 hedgeVars>>

Primary(c) ==
  \/ GetAdapter(c) \/ LimiterWait(c) \/ BreakerExecute(c) \/ Send(c)

-----------------------------------------------------------------------------
(* The goroutine that closes the channel                                   *)

\* g.Wait returns, which cancels gCtx, and hedgeCancel runs.
CloserWait ==
  /\ closer = "wait"
  /\ \A c \in eligible : pc[c] = "done"
  /\ closer' = "join"
  /\ groupDone' = TRUE
  /\ UNCHANGED <<fanOutVars, pc, answered, monitorVars, hedgeVars,
                 channelVars>>

\* Variant: the channel is closed without waiting for hedgeDone.
CloserCloseEarly ==
  /\ closer = "join"
  /\ closer' = "done"
  /\ UNCHANGED <<fanOutVars, groupVars, monitorVars, hedgeVars, channelVars>>

\* <-hedgeDone, then close(results).
CloserClose ==
  /\ closer = "join"
  /\ monitor = "done"
  /\ closer' = "done"
  /\ UNCHANGED <<fanOutVars, groupVars, monitorVars, hedgeVars, channelVars>>

-----------------------------------------------------------------------------
(* hedgeMonitor                                                            *)

\* Variant: break leaves only the select, not the loop.
MonitorCancelledBreak ==
  /\ monitor = "select"
  /\ GCtxDone
  /\ UNCHANGED vars

\* case <-ctx.Done(): return, which runs the deferred hedgeWg.Wait.
MonitorCancelled ==
  /\ monitor = "select"
  /\ GCtxDone
  /\ monitor' = "drain"
  /\ UNCHANGED <<fanOutVars, groupVars, closer, todo, allResolved, due,
                 trigger, candidate, alreadyHedged, hedgeVars, channelVars>>

\* case <-ticker.C: now is read once; elapsed times only grow, and warm-up
\* makes the threshold infinite.
MonitorTick ==
  /\ monitor = "select"
  /\ monitor' = "scan"
  /\ todo' = eligible
  /\ allResolved' = TRUE
  /\ \E d \in SUBSET (Warm \cap eligible) : due \subseteq d /\ due' = d
  /\ UNCHANGED <<fanOutVars, groupVars, closer, trigger, candidate,
                 alreadyHedged, hedgeVars, channelVars>>

\* selectHedgeCandidate's comparison: lower p95, then lower Priority number,
\* then the earlier position in the slice.
Better(a, b) ==
  \/ P95[a] < P95[b]
  \/ P95[a] = P95[b] /\ Priority[a] < Priority[b]
  \/ P95[a] = P95[b] /\ Priority[a] = Priority[b] /\ a < b

\* Variant: carriers filterEligibleCarriers dropped may be hedged to.
CandidatesUnfiltered(x, open) == (Registered \ open) \ {x}

\* selectHedgeCandidate chooses among the hedgeable carriers whose breaker is
\* not Open, the slow carrier x excluded.
Candidates(x, open) == ((eligible \cap Registered) \ open) \ {x}

\* One iteration of the loop over pending, whose map order is arbitrary.
MonitorVisit(x) ==
  /\ monitor = "scan"
  /\ x \in todo
  /\ todo' = todo \ {x}
  /\ allResolved' = (allResolved /\ x \in alreadyHedged)
  /\ \/ /\ x \in alreadyHedged \/ x \notin due
        /\ UNCHANGED <<monitor, trigger, candidate>>
     \/ /\ x \notin alreadyHedged /\ x \in due
        /\ \E open \in SUBSET eligible :
             \/ /\ Candidates(x, open) = {}
                /\ UNCHANGED <<monitor, trigger, candidate>>
             \/ \E c \in Candidates(x, open) :
                  /\ \A d \in Candidates(x, open) \ {c} : Better(c, d)
                  /\ candidate' = c
                  /\ trigger' = x
                  /\ monitor' = "fire"
  /\ UNCHANGED <<fanOutVars, groupVars, closer, due, alreadyHedged,
                 hedgeVars, channelVars>>

\* Variant: the trigger is not remembered in alreadyHedged.
MonitorFireForgetful ==
  /\ monitor = "fire"
  /\ monitor' = "scan"
  /\ trigger' = None /\ candidate' = None
  /\ hedgePc' = [hedgePc EXCEPT ![trigger] = "call"]
  /\ hedgeTarget' = [hedgeTarget EXCEPT ![trigger] = candidate]
  /\ UNCHANGED <<fanOutVars, groupVars, closer, todo, allResolved, due,
                 alreadyHedged, channelVars>>

\* tryAcquire, and if it grants a token the hedge goroutine is started.
MonitorFire ==
  /\ monitor = "fire"
  /\ monitor' = "scan"
  /\ trigger' = None /\ candidate' = None
  /\ \/ /\ alreadyHedged' = alreadyHedged \cup {trigger}
        /\ hedgePc' = [hedgePc EXCEPT ![trigger] = "call"]
        /\ hedgeTarget' = [hedgeTarget EXCEPT ![trigger] = candidate]
     \/ UNCHANGED <<alreadyHedged, hedgeVars>>
  /\ UNCHANGED <<fanOutVars, groupVars, closer, todo, allResolved, due,
                 channelVars>>

\* The end of an iteration: return if every slot was already hedged.
MonitorScanned ==
  /\ monitor = "scan"
  /\ todo = {}
  /\ monitor' = IF allResolved THEN "drain" ELSE "select"
  /\ UNCHANGED <<fanOutVars, groupVars, closer, todo, allResolved, due,
                 trigger, candidate, alreadyHedged, hedgeVars, channelVars>>

\* hedgeWg.Wait, then close(hedgeDone).
MonitorDrain ==
  /\ monitor = "drain"
  /\ \A c \in eligible : hedgePc[c] \in {"none", "done"}
  /\ monitor' = "done"
  /\ UNCHANGED <<fanOutVars, groupVars, closer, todo, allResolved, due,
                 trigger, candidate, alreadyHedged, hedgeVars, channelVars>>

\* The hedge's execFn returns; it is called without the breaker.
HedgeReturns(x) ==
  /\ hedgePc[x] = "call"
  /\ \E to \in {"send", "done"} : hedgePc' = [hedgePc EXCEPT ![x] = to]
  /\ UNCHANGED <<fanOutVars, groupVars, closer, monitorVars, hedgeTarget,
                 channelVars>>

\* The hedge's select.
HedgeSend(x) ==
  /\ hedgePc[x] = "send"
  /\ hedgePc' = [hedgePc EXCEPT ![x] = "done"]
  /\ \E p \in Premiums : SelectSend(Quote(hedgeTarget[x], p))
  /\ UNCHANGED <<fanOutVars, groupVars, closer, monitorVars, hedgeTarget>>

-----------------------------------------------------------------------------
(* The collector: the rest of fanOut                                       *)

\* Variant: without the seen map every result is kept.
CollectAll ==
  /\ phase = "range"
  /\ results # <<>>
  /\ results' = Tail(results)
  /\ collected' = Append(collected, Head(results))
  /\ UNCHANGED <<phase, eligible, deadline, response, groupVars, closer,
                 monitorVars, hedgeVars, first>>

\* Variant: a later result of a carrier replaces the earlier one.
CollectLatest ==
  /\ phase = "range"
  /\ results # <<>>
  /\ results' = Tail(results)
  /\ collected' = Append(SelectSeq(collected, LAMBDA q :
                             q.carrier # Head(results).carrier), Head(results))
  /\ UNCHANGED <<phase, eligible, deadline, response, groupVars, closer,
                 monitorVars, hedgeVars, first>>

\* for result := range results: keep the first result of each carrier.
Collect ==
  /\ phase = "range"
  /\ results # <<>>
  /\ results' = Tail(results)
  /\ collected' = IF Head(results).carrier \in Seen THEN collected
                  ELSE Append(collected, Head(results))
  /\ UNCHANGED <<phase, eligible, deadline, response, groupVars, closer,
                 monitorVars, hedgeVars, first>>

\* The loop ends when the channel is closed and empty.
CollectEnd ==
  /\ phase = "range"
  /\ results = <<>>
  /\ Closed
  /\ phase' = "finish"
  /\ UNCHANGED <<eligible, deadline, collected, response, groupVars,
                 closer, monitorVars, hedgeVars, channelVars>>

\* The comparison slices.SortFunc is given.
Before(a, b) ==
  \/ a.premium < b.premium
  \/ a.premium = b.premium /\ a.carrier < b.carrier

\* slices.SortFunc, which is not stable: any permutation of s in which no
\* element comes after one it is Before.
Sorted(s) ==
  {r \in {[i \in DOMAIN s |-> s[order[i]]] :
            order \in Bijection(DOMAIN s, DOMAIN s)} :
     \A i, j \in DOMAIN s : i < j => ~Before(r[j], r[i])}

\* Sort, save (see QuoteService) and return.
Return ==
  /\ phase = "finish"
  /\ phase' = "returned"
  /\ response' \in Sorted(collected)
  /\ UNCHANGED <<eligible, deadline, collected, groupVars, closer,
                 monitorVars, hedgeVars, channelVars>>

\* Nothing is left to do once fanOut has returned.
Returned ==
  /\ phase = "returned"
  /\ UNCHANGED vars

-----------------------------------------------------------------------------
Closer == CloserWait \/ CloserClose

Monitor ==
  \/ MonitorTick \/ MonitorCancelled
  \/ \E x \in Carriers : MonitorVisit(x)
  \/ MonitorFire \/ MonitorScanned \/ MonitorDrain

Collector == Collect \/ CollectEnd \/ Return

Next ==
  \/ Start \/ DeadlineFires
  \/ \E c \in Carriers : \/ Primary(c) \/ CallReturns(c)
                         \/ HedgeReturns(c) \/ HedgeSend(c)
  \/ Closer \/ Monitor \/ Collector
  \/ Returned

Spec == Init /\ [][Next]_vars

\* The scheduler runs every goroutine that can move, and the request timer
\* fires.  A carrier may hang: a call is only sure to return once its context
\* is done, which every adapter selects on.  Go's select picks at random, so
\* the monitor cannot prefer its ticker to ctx.Done() for ever.
Fairness ==
  /\ WF_vars(Start) /\ WF_vars(DeadlineFires)
  /\ \A c \in Carriers :
       /\ WF_vars(Primary(c)) /\ WF_vars(GCtxDone /\ CallReturns(c))
       /\ WF_vars(HedgeSend(c)) /\ WF_vars(GCtxDone /\ HedgeReturns(c))
  /\ WF_vars(Closer)
  /\ WF_vars(Monitor) /\ SF_vars(MonitorCancelled)
  /\ WF_vars(Collector)

FairSpec == Spec /\ Fairness

-----------------------------------------------------------------------------
(* Properties                                                              *)

\* Types; the monitor, its hedges and the answers concern carriers that passed
\* filterEligibleCarriers only.
TypeOK ==
  /\ phase \in {"start", "range", "finish", "returned"}
  /\ eligible \subseteq Carriers
  /\ deadline \in BOOLEAN
  /\ pc \in [Carriers -> {"none", "get", "wait", "execute", "call",
                          "send", "done"}]
  /\ groupDone \in BOOLEAN
  /\ closer \in {"none", "wait", "join", "done"}
  /\ monitor \in {"none", "select", "scan", "fire", "drain", "done"}
  /\ todo \subseteq eligible
  /\ allResolved \in BOOLEAN
  /\ due \subseteq eligible
  /\ trigger \in eligible \cup {None}
  /\ candidate \in eligible \cup {None}
  /\ alreadyHedged \subseteq eligible
  /\ hedgePc \in [Carriers -> {"none", "call", "send", "done"}]
  /\ hedgeTarget \in [Carriers -> eligible \cup {None}]
  /\ results \in Seq(Quotes)
  /\ collected \in Seq(Quotes)
  /\ answered \subseteq eligible
  /\ first \subseteq Quotes
  /\ response \in Seq(Quotes)

\* No goroutine of the fan-out is running.
Quiet ==
  /\ \A c \in Carriers : /\ pc[c] \in {"none", "done"}
                         /\ hedgePc[c] \in {"none", "done"}
  /\ monitor \in {"none", "done"}

\* close(results) never races a send, which would panic, and no goroutine
\* fanOut started is running once it stops collecting (REQ-ORCH-005).
NothingOutlivesFanOut ==
  Closed \/ phase \in {"finish", "returned"} => Quiet

\* The buffer of 2 * len(eligible) is enough: a sender never has to choose
\* between blocking and dropping its result because the channel is full.
SenderNeverBlocks ==
  \A c \in Carriers :
    pc[c] = "send" \/ hedgePc[c] = "send" => Len(results) < ChannelCapacity

\* The response has one quote per carrier, cheapest first, ties by carrier,
\* however primaries and hedges were interleaved.
ResponseSortedUnique ==
  \A i, j \in DOMAIN response :
    i < j => /\ Before(response[i], response[j])
             /\ response[i].carrier # response[j].carrier

\* Partial results: fanOut returns, for every carrier, the first quote that
\* reached the channel and nothing else, also when the deadline cut it short.
\* Before the deadline no quote of a primary misses the channel, whoever else
\* fails or is hedged.  A slot's primary and its hedge are two carriers here,
\* so both are returned; REQ-HEDGE-005 would discard the later one.
FirstAnswersReturned ==
  phase = "returned" =>
    /\ Range(response) = first
    /\ ~deadline => answered \subseteq {q.carrier : q \in first}

\* At most one hedge is fired per primary slot (REQ-HEDGE-003).
OneHedgePerSlot ==
  [][\A x \in Carriers :
       hedgePc[x] # "none" => /\ hedgePc'[x] = "call" => hedgePc[x] = "call"
                              /\ UNCHANGED hedgeTarget[x]]_vars

\* fanOut returns even if carriers hang until the deadline.
Returns == <>(phase = "returned")

Contract == INSTANCE FanOutContract
              WITH done <- phase = "returned",
                   quotes <- {response[i] : i \in DOMAIN response}

\* fanOut keeps FanOutContract, on which GetQuotes and the primary key of the
\* quote table rely: it returns once, with at most one quote per carrier, and
\* only of carriers that offer a requested line, hedges included.
ImplementsContract == Contract!Spec
=============================================================================
