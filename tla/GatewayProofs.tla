--------------------------- MODULE GatewayProofs ---------------------------
(***************************************************************************)
(* Proofs about Gateway for any number of connections, any concurrency     *)
(* limit and any failure budget.                                           *)
(***************************************************************************)
EXTENDS Gateway, FiniteSetTheorems, TLAPS

\* The requests at one of the labels L.
At(L) == {r \in Requests : pc[r] \in L}

HandlerLabels == {"route", "decode", "validate", "ping", "quotes", "leave"}

Labels == {"none", "auth", "key", "limit", "answered"} \cup HandlerLabels
Codes == {200, 400, 401, 404, 405, 422, 429, 503}

\* The failure budget: nobody has gone unpaid while a token is left, and once
\* none is, whoever may still fail had passed the check before.
Overdraft ==
  /\ budget >= 1 => unpaid = 0
  /\ budget = 0 => unpaid + Cardinality(At({"key"})) < Cardinality(Requests)

\* A request that is done has a status.
Answers ==
  \A r \in Requests : pc[r] \in {"leave", "answered"} => status[r] # None

\* What main has waited for when it gets to a point of the shutdown.
ShutdownOrder ==
  /\ main \in {"shutdown", "drain", "close"} => ticker \in {"none", "done"}
  /\ main \in {"drain", "close"} => ~server
  /\ main = "close" => Drained
  /\ db = "closed" \/ exitCode = 0 =>
       main = "exited" /\ ticker \in {"none", "done"} /\ Drained

IInv == TypeOK /\ SlotsMatchHolders /\ Overdraft /\ Answers /\ ShutdownOrder

-----------------------------------------------------------------------------
(* Counting requests                                                       *)

\* How the number of requests at L changes when one request moves.
LEMMA CountMove ==
  ASSUME NEW L, NEW r \in Requests, NEW to, pc = [s \in Requests |-> pc[s]],
         pc' = [pc EXCEPT ![r] = to]
  PROVE  /\ Cardinality(At(L)) \in Nat
         /\ pc[r] \notin L /\ to \in L =>
              Cardinality(At(L)') = Cardinality(At(L)) + 1
         /\ pc[r] \in L /\ to \notin L =>
              /\ Cardinality(At(L)) >= 1
              /\ Cardinality(At(L)') = Cardinality(At(L)) - 1
         /\ (pc[r] \in L <=> to \in L) =>
              Cardinality(At(L)') = Cardinality(At(L))
<1>1. IsFiniteSet(At(L)) /\ IsFiniteSet(At(L)')
  BY GatewayAssumption, FS_Subset DEF At
<1>2. Cardinality(At(L)) \in Nat /\ Cardinality(At(L)') \in Nat
  BY <1>1, FS_CardinalityType
<1>3. ASSUME pc[r] \notin L, to \in L
      PROVE  Cardinality(At(L)') = Cardinality(At(L)) + 1
  <2>1. At(L)' = At(L) \cup {r} /\ r \notin At(L)
    BY <1>3 DEF At
  <2> QED BY <1>1, <2>1, FS_AddElement
<1>4. ASSUME pc[r] \in L, to \notin L
      PROVE  /\ Cardinality(At(L)) >= 1
             /\ Cardinality(At(L)') = Cardinality(At(L)) - 1
  <2>1. At(L) = At(L)' \cup {r} /\ r \notin At(L)'
    BY <1>4 DEF At
  <2>2. Cardinality(At(L)) = Cardinality(At(L)') + 1
    BY <1>1, <2>1, FS_AddElement
  <2> QED BY <1>2, <2>2
<1>5. ASSUME pc[r] \in L <=> to \in L
      PROVE  Cardinality(At(L)') = Cardinality(At(L))
  <2>1. At(L)' = At(L)
    BY <1>5 DEF At
  <2> QED BY <2>1
<1> QED BY <1>2, <1>3, <1>4, <1>5

\* At most all requests are at L.
LEMMA CountBound ==
  ASSUME NEW L
  PROVE  /\ Cardinality(At(L)) \in Nat /\ Cardinality(Requests) \in Nat
         /\ Cardinality(At(L)) <= Cardinality(Requests)
<1>1. IsFiniteSet(At(L)) /\ Cardinality(At(L)) <= Cardinality(Requests)
  BY GatewayAssumption, FS_Subset DEF At
<1> QED BY <1>1, GatewayAssumption, FS_CardinalityType

-----------------------------------------------------------------------------
(* The inductive invariant                                                 *)

\* The process starts with nothing to account for.
LEMMA InitIInv == Init => IInv
<1> SUFFICES ASSUME Init PROVE IInv
  OBVIOUS
<1> USE GatewayAssumption DEF Init
<1>1. TypeOK
  <2>1. /\ pc \in [Requests -> Labels]
        /\ path \in [Requests -> Paths]
        /\ status \in [Requests -> Codes \cup {None}]
    BY DEF Labels, Paths
  <2>2. /\ main = "openDB" /\ db = "none" /\ ticker = "none"
        /\ exitCode = None /\ unpaid = 0
        /\ budget \in 0..AuthBurst /\ sem \in 0..MaxConcurrent
    OBVIOUS
  <2>3. server \in BOOLEAN /\ stop \in BOOLEAN
    BY Zenon
  <2> HIDE DEF Init
  <2> QED BY <2>1, <2>2, <2>3 DEF TypeOK, Labels, HandlerLabels, Codes
<1>2. SlotsMatchHolders
  <2>1. Inside = {}
    BY DEF Inside
  <2> QED BY <2>1, FS_EmptySet DEF SlotsMatchHolders
<1> QED
  BY <1>1, <1>2 DEF IInv, Overdraft, Answers, ShutdownOrder, None

\* A wrong key takes a token, or goes unpaid.
FailedKey ==
  /\ budget' = IF budget >= 1 THEN budget - 1 ELSE 0
  /\ unpaid' = IF budget >= 1 THEN unpaid ELSE unpaid + 1

\* A running request that moves on, without a change of the process, keeps the
\* invariant if the semaphore follows it in and out of the handler, if it has a
\* status when it is done, if it does not get to the key comparison on an empty
\* budget and pays only when it leaves it.
LEMMA RequestMoves ==
  ASSUME IInv, NEW r \in Requests,
         NEW from \in Labels \ {"none", "answered"}, NEW to \in Labels,
         Goes(r, from, to), UNCHANGED <<process, path>>,
         UNCHANGED status \/ \E code \in Codes : Writes(r, code),
         to \in {"leave", "answered"} => status'[r] # None,
         \/ UNCHANGED auth /\ (to = "key" => budget >= 1)
         \/ from = "key" /\ to # "key" /\ FailedKey,
         from \in HandlerLabels <=> to \in HandlerLabels => UNCHANGED sem,
         from \notin HandlerLabels /\ to \in HandlerLabels =>
           sem < MaxConcurrent /\ sem' = sem + 1,
         from \in HandlerLabels /\ to \notin HandlerLabels => sem' = sem - 1
  PROVE  IInv'
<1> USE GatewayAssumption DEF process, auth
<1>1. /\ pc[r] = from /\ Running
      /\ pc = [s \in Requests |-> pc[s]]
      /\ pc' = [pc EXCEPT ![r] = to]
  BY DEF Goes, IInv, TypeOK
<1>2. /\ Inside = At(HandlerLabels) /\ Inside' = At(HandlerLabels)'
      /\ sem = Cardinality(At(HandlerLabels))
  BY DEF IInv, SlotsMatchHolders, Inside, At, HandlerLabels
<1>3. SlotsMatchHolders' /\ sem' \in 0..MaxConcurrent
  <2>1. sem \in 0..MaxConcurrent
    BY DEF IInv, TypeOK
  <2>2. CASE from \notin HandlerLabels /\ to \in HandlerLabels
    BY <1>1, <1>2, <2>1, <2>2, CountMove DEF SlotsMatchHolders
  <2>3. CASE from \in HandlerLabels /\ to \notin HandlerLabels
    BY <1>1, <1>2, <2>1, <2>3, CountMove DEF SlotsMatchHolders
  <2>4. CASE from \in HandlerLabels <=> to \in HandlerLabels
    BY <1>1, <1>2, <2>1, <2>4, CountMove DEF SlotsMatchHolders
  <2> QED BY <2>2, <2>3, <2>4
<1>4. TypeOK'
  <2>1. pc' \in [Requests -> Labels]
    BY <1>1 DEF IInv, TypeOK, Labels, HandlerLabels
  <2>2. status' \in [Requests -> Codes \cup {None}]
    BY DEF IInv, TypeOK, Codes, Writes
  <2>3. budget' \in 0..AuthBurst /\ unpaid' \in Nat
    BY DEF IInv, TypeOK, FailedKey
  <2> QED
    BY <1>3, <2>1, <2>2, <2>3 DEF IInv, TypeOK, Labels, HandlerLabels, Codes
<1>5. Overdraft'
  <2>1. /\ Cardinality(At({"key"})) \in Nat /\ Cardinality(Requests) \in Nat
        /\ Cardinality(At({"key"})) <= Cardinality(Requests)
    BY CountBound
  <2>2. CASE UNCHANGED auth /\ to = "key"
    BY <2>2 DEF IInv, Overdraft, TypeOK
  <2>3. CASE UNCHANGED auth /\ to # "key"
    <3>1. /\ Cardinality(At({"key"})') <= Cardinality(At({"key"}))
          /\ Cardinality(At({"key"})') \in Nat
      BY <1>1, <2>1, <2>3, CountMove
    <3> QED BY <2>1, <2>3, <3>1 DEF IInv, Overdraft, TypeOK
  <2>4. CASE from = "key" /\ to # "key" /\ FailedKey
    <3>1. Cardinality(At({"key"})') = Cardinality(At({"key"})) - 1
      BY <1>1, <2>4, CountMove
    <3> QED BY <2>1, <2>4, <3>1 DEF IInv, Overdraft, TypeOK, FailedKey
  <2> QED BY <2>2, <2>3, <2>4
<1>6. Answers'
  BY <1>1 DEF IInv, Answers, TypeOK, Writes
<1>7. ShutdownOrder'
  <2>1. ~Drained
    BY <1>1 DEF Drained
  <2> QED BY <1>1, <2>1 DEF IInv, ShutdownOrder, Running
<1> QED BY <1>3, <1>4, <1>5, <1>6, <1>7 DEF IInv

\* A status other than None is one of Codes.
LEMMA WritesCode ==
  ASSUME IInv, NEW r \in Requests, NEW code \in Codes, Writes(r, code)
  PROVE  status'[r] # None /\ \E c \in Codes : Writes(r, c)
<1>1. DOMAIN status = Requests
  BY DEF IInv, TypeOK
<1>2. status'[r] = code
  BY <1>1 DEF Writes
<1> QED BY <1>2 DEF Codes, None

\* Each step of a request keeps the invariant.
LEMMA ServeStep ==
  ASSUME IInv, NEW r \in Requests, Serve(r)
  PROVE  IInv'
<1> USE DEF Labels, HandlerLabels, Codes
<1>1. CASE CheckBudget(r)
  <2>1. CASE path[r] \in SkipAuth
    BY <1>1, <2>1, RequestMoves DEF CheckBudget
  <2>2. CASE path[r] \notin SkipAuth /\ InBudget
    <3>1. Goes(r, "auth", "key") /\ UNCHANGED status
      BY <1>1, <2>2 DEF CheckBudget
    <3> QED BY <1>1, <2>2, <3>1, RequestMoves DEF CheckBudget, InBudget
  <2>3. CASE path[r] \notin SkipAuth /\ ~InBudget
    BY <1>1, <2>3, WritesCode, RequestMoves DEF CheckBudget
  <2> QED BY <2>1, <2>2, <2>3
<1>2. CASE CompareKeys(r)
  <2>1. CASE Goes(r, "key", "limit") /\ UNCHANGED <<auth, status>>
    BY <1>2, <2>1, RequestMoves DEF CompareKeys
  <2>2. CASE Goes(r, "key", "answered") /\ Writes(r, 401) /\ FailedKey
    BY <1>2, <2>2, WritesCode, RequestMoves DEF CompareKeys
  <2> QED BY <1>2, <2>1, <2>2 DEF CompareKeys, FailedKey
<1>3. CASE LimitConcurrency(r)
  <2>1. CASE SlotFree
    BY <1>3, <2>1, RequestMoves DEF LimitConcurrency, SlotFree
  <2>2. CASE ~SlotFree
    BY <1>3, <2>2, WritesCode, RequestMoves DEF LimitConcurrency
  <2> QED BY <2>1, <2>2
<1>4. CASE RegisterRoutes(r)
  <2>1. ASSUME NEW code \in {200, 404, 405}, Goes(r, "route", "leave"),
               Writes(r, code)
        PROVE  IInv'
    BY <1>4, <2>1, WritesCode, RequestMoves DEF RegisterRoutes
  <2>2. CASE Goes(r, "route", "decode") /\ UNCHANGED status
    BY <1>4, <2>2, RequestMoves DEF RegisterRoutes
  <2>3. CASE Goes(r, "route", "ping") /\ UNCHANGED status
    BY <1>4, <2>3, RequestMoves DEF RegisterRoutes
  <2> QED BY <1>4, <2>1, <2>2, <2>3 DEF RegisterRoutes
<1>5. CASE HandleReadyz(r)
  <2>1. PICK code \in Codes : Writes(r, code)
    BY <1>5 DEF HandleReadyz
  <2> QED BY <1>5, <2>1, WritesCode, RequestMoves DEF HandleReadyz
<1>6. CASE Decode(r)
  <2>1. CASE Goes(r, "decode", "validate") /\ UNCHANGED status
    BY <1>6, <2>1, RequestMoves DEF Decode
  <2>2. CASE Goes(r, "decode", "leave") /\ Writes(r, 400)
    BY <1>6, <2>2, WritesCode, RequestMoves DEF Decode
  <2> QED BY <1>6, <2>1, <2>2 DEF Decode
<1>7. CASE Validate(r)
  <2>1. CASE Goes(r, "validate", "quotes") /\ UNCHANGED status
    BY <1>7, <2>1, RequestMoves DEF Validate
  <2>2. CASE Goes(r, "validate", "leave") /\ Writes(r, 400)
    BY <1>7, <2>2, WritesCode, RequestMoves DEF Validate
  <2> QED BY <1>7, <2>1, <2>2 DEF Validate
<1>8. CASE GetQuotesReturns(r)
  <2>1. PICK code \in Codes : Writes(r, code)
    BY <1>8 DEF GetQuotesReturns
  <2> QED BY <1>8, <2>1, WritesCode, RequestMoves DEF GetQuotesReturns
<1>9. CASE Leave(r)
  <2>1. status'[r] # None
    BY <1>9 DEF Leave, Goes, IInv, Answers
  <2> QED BY <1>9, <2>1, RequestMoves DEF Leave
<1> QED
  BY <1>1, <1>2, <1>3, <1>4, <1>5, <1>6, <1>7, <1>8, <1>9 DEF Serve

\* A request arrives only while the listener is open, so not after Shutdown.
LEMMA ArriveStep ==
  ASSUME IInv, NEW r \in Requests, NEW p \in Paths, Arrive(r, p)
  PROVE  IInv'
<1> USE DEF process, auth
<1>1. /\ pc[r] \in {"none", "answered"} /\ Running /\ server
      /\ pc = [s \in Requests |-> pc[s]]
      /\ pc' = [pc EXCEPT ![r] = "auth"]
      /\ UNCHANGED <<main, exitCode, server, ticker, stop, db, budget, unpaid,
                     sem>>
  BY DEF Arrive, IInv, TypeOK
<1>2. SlotsMatchHolders'
  <2>1. Inside' = Inside
    BY <1>1 DEF Inside
  <2> QED BY <1>1, <2>1 DEF IInv, SlotsMatchHolders
<1>3. TypeOK'
  <2>1. pc' \in [Requests -> Labels]
    BY <1>1 DEF IInv, TypeOK, Labels, HandlerLabels
  <2>2. /\ status' \in [Requests -> Codes \cup {None}]
        /\ path' \in [Requests -> Paths]
    BY DEF IInv, TypeOK, Arrive, Writes, Codes
  <2> QED
    BY <1>1, <2>1, <2>2 DEF IInv, TypeOK, Labels, HandlerLabels, Codes
<1>4. Overdraft'
  <2>1. At({"key"})' = At({"key"})
    BY <1>1 DEF At
  <2> QED BY <1>1, <2>1 DEF IInv, Overdraft
<1>5. Answers'
  BY <1>1 DEF IInv, Answers, TypeOK, Arrive, Writes
<1>6. ShutdownOrder'
  BY <1>1 DEF IInv, ShutdownOrder, Running
<1> QED BY <1>2, <1>3, <1>4, <1>5, <1>6 DEF IInv

\* The parts of the invariant about requests, which only their steps and the
\* refill of the budget can disturb.
LEMMA RequestsKept ==
  ASSUME IInv, UNCHANGED requests
  PROVE  SlotsMatchHolders' /\ Overdraft' /\ Answers' /\ (Drained' <=> Drained)
<1> USE DEF requests, auth
<1>1. Inside' = Inside /\ At({"key"})' = At({"key"})
  BY DEF Inside, At
<1> QED
  BY <1>1 DEF IInv, SlotsMatchHolders, Overdraft, Answers, Drained

\* The ticker stops for good before main goes on to Shutdown.
LEMMA TickerStep ==
  ASSUME IInv, TickerPanics \/ TickerFires \/ SweepReturns \/ TickerStops
  PROVE  IInv'
<1>1. UNCHANGED requests /\ Running
  BY DEF TickerPanics, TickerFires, SweepReturns, TickerStops
<1>2. TypeOK'
  BY <1>1 DEF IInv, TypeOK, requests, auth, TickerPanics, TickerFires,
     SweepReturns, TickerStops
<1>3. ShutdownOrder'
  BY <1>1, RequestsKept DEF IInv, ShutdownOrder, TypeOK, Running, TickerPanics,
     TickerFires, SweepReturns, TickerStops, None
<1> QED BY <1>1, <1>2, <1>3, RequestsKept DEF IInv

\* main's own steps keep its order.
LEMMA MainStep ==
  ASSUME IInv, Starting \/ ServerFails \/ Signal \/ Stopping
  PROVE  IInv'
<1> USE DEF MainGoes
<1>1. UNCHANGED requests
  BY DEF Starting, OpenDB, ParseAPIKeys, ServerFails, Signal, Stopping,
     StopTicker, JoinTicker, Shutdown, ShutdownReturns, DrainTimeout, CloseDB
<1>2. TypeOK' /\ ShutdownOrder'
  <2> USE <1>1, RequestsKept DEF IInv, TypeOK, ShutdownOrder, requests, auth,
      None
  <2>0. server' \in BOOLEAN /\ stop' \in BOOLEAN
    <3>1. server \in BOOLEAN /\ stop \in BOOLEAN
      OBVIOUS
    <3>2. server' \in {server, TRUE, FALSE} /\ stop' \in {stop, HasRepo}
      BY Zenon DEF Starting, OpenDB, ParseAPIKeys, ServerFails, Signal, Stopping,
      StopTicker, JoinTicker, Shutdown, ShutdownReturns, DrainTimeout, CloseDB
    <3> QED BY <3>1, <3>2, Zenon DEF HasRepo
  <2>1. CASE OpenDB
    BY <2>1 DEF OpenDB
  <2>2. CASE ParseAPIKeys
    BY <2>0, <2>2 DEF ParseAPIKeys
  <2>3. CASE ServerFails
    BY <2>3 DEF ServerFails
  <2>4. CASE Signal
    BY <2>4 DEF Signal
  <2>5. CASE StopTicker
    BY <2>5 DEF StopTicker, HasRepo
  <2>6. CASE JoinTicker
    BY <2>6 DEF JoinTicker, TickerDone
  <2>7. CASE Shutdown
    BY <2>0, <2>7 DEF Shutdown
  <2>8. CASE ShutdownReturns
    BY <2>8 DEF ShutdownReturns
  <2>9. CASE DrainTimeout
    BY <2>9 DEF DrainTimeout
  <2>10. CASE CloseDB
    BY <2>10 DEF CloseDB
  <2> QED
    BY <2>1, <2>2, <2>3, <2>4, <2>5, <2>6, <2>7, <2>8, <2>9, <2>10
    DEF Starting, Stopping
<1> QED BY <1>1, <1>2, RequestsKept DEF IInv

\* A refill forgives what went unpaid.
LEMMA RefillStep ==
  ASSUME IInv, RefillBudget
  PROVE  IInv'
<1>1. TypeOK' /\ Overdraft'
  BY GatewayAssumption DEF IInv, TypeOK, Overdraft, RefillBudget, process
<1>2. Inside' = Inside /\ Drained' = Drained
  BY DEF RefillBudget, Inside, Drained
<1> QED
  BY <1>1, <1>2 DEF IInv, SlotsMatchHolders, Answers, ShutdownOrder,
     RefillBudget, process

\* No step of the process breaks the invariant.
LEMMA NextIInv == IInv /\ [Next]_vars => IInv'
<1> SUFFICES ASSUME IInv, [Next]_vars PROVE IInv'
  OBVIOUS
<1>1. CASE UNCHANGED vars
  <2>1. UNCHANGED requests /\ UNCHANGED process
    BY <1>1 DEF vars, requests, auth, process
  <2> QED
    BY <2>1, RequestsKept DEF IInv, TypeOK, ShutdownOrder, requests, auth,
       process
<1> QED
  BY <1>1, ServeStep, ArriveStep, TickerStep, MainStep, RefillStep
  DEF Next, Exited

-----------------------------------------------------------------------------
(* Theorems                                                                *)

\* The invariant holds of every behaviour.
LEMMA Invariant == Spec => []IInv
BY InitIInv, NextIInv, PTL DEF Spec

\* Every variable of the process keeps its type; in particular the semaphore
\* never holds more than MaxConcurrent tokens and the budget stays within its
\* burst (LimitConcurrency, authFailureLimiter).
THEOREM GatewayTypes == Spec => []TypeOK
<1>1. IInv => TypeOK
  BY DEF IInv
<1> QED BY <1>1, Invariant, PTL

\* The semaphore counts exactly the requests inside the handler, so every path
\* out of it gives the slot back (LimitConcurrency).
THEOREM SlotsReturned == Spec => []SlotsMatchHolders
<1>1. IInv => SlotsMatchHolders
  BY DEF IInv
<1> QED BY <1>1, Invariant, PTL

\* However many bad keys are compared at once, between two refills fewer than
\* the number of connections go unpaid (RequireAPIKey).
THEOREM BudgetOverdraft == Spec => []OverdraftBounded
<1>1. IInv => OverdraftBounded
  BY CountBound, GatewayAssumption, FS_EmptySet
  DEF IInv, Overdraft, OverdraftBounded, TypeOK
<1> QED BY <1>1, Invariant, PTL

\* main closes the database only after the ticker and all requests have
\* stopped using it (main, Stop, Shutdown).
THEOREM DatabaseClosedLast == Spec => []NoQueryAfterClose
<1>1. IInv => NoQueryAfterClose
  BY DEF IInv, ShutdownOrder, NoQueryAfterClose, Drained
<1> QED BY <1>1, Invariant, PTL

\* Exit code 0 is reported only when every accepted request was answered and
\* all slots are back (main, Shutdown).
THEOREM CleanExit == Spec => []CleanExitAnsweredAll
<1>1. ASSUME IInv, exitCode = 0
      PROVE  sem = 0 /\ \A r \in Requests : pc[r] = "none" \/ status[r] # None
  <2>1. Drained
    BY <1>1 DEF IInv, ShutdownOrder
  <2>2. Inside = {}
    BY <2>1 DEF Drained, Inside
  <2> QED
    BY <1>1, <2>1, <2>2, FS_EmptySet
    DEF IInv, SlotsMatchHolders, Answers, Drained
<1>2. IInv => CleanExitAnsweredAll
  BY <1>1 DEF CleanExitAnsweredAll
<1> QED BY <1>2, Invariant, PTL
=============================================================================
