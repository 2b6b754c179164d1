------------------------- MODULE QuoteServiceProofs -------------------------
(***************************************************************************)
(* Proofs about QuoteService for any requests, keys, carriers and faults.  *)
(***************************************************************************)
EXTENDS QuoteService, TLAPS

Control == {"idle", "find", "do", "wait", "fanOut", "save", "finish",
            "returned"}

\* The part of TypeOK the other invariants rest on.
Typed ==
  /\ pc \in [Requests -> Control]
  /\ key \in [Requests -> Keys \cup {NoKey}]
  /\ flight \in [Keys -> Requests \cup {NoRequest}]
  /\ \A r \in Requests : pc[r] # "idle" => key[r] \in Keys

\* sfGroup's map holds exactly the running leaders, and a waiter's key is in
\* it.
Flights ==
  /\ \A r \in Requests : Leads(r) => flight[key[r]] = r
  /\ \A k \in Keys : flight[k] # NoRequest =>
                       Leads(flight[k]) /\ key[flight[k]] = k
  /\ \A r \in Requests : pc[r] = "wait" => flight[key[r]] # NoRequest

\* Neither the table nor an answer has two quotes of one carrier.
Single ==
  /\ rows = [k \in Keys |-> rows[k]]
  /\ response = [r \in Requests |-> response[r]]
  /\ \A k \in Keys : Distinct(rows[k])
  /\ \A r \in Requests : Distinct(response[r])

FlightInv == Typed /\ Flights
-----------------------------------------------------------------------------
\* Every step of GetQuotes and of the sweep keeps the types.
LEMMA TypedStep == Typed /\ [Next]_vars => Typed'
<1> SUFFICES ASSUME Typed, [Next]_vars PROVE Typed'
  OBVIOUS
<1> USE ServiceAssumption DEF Typed, Control, Goes
<1>1. ASSUME NEW r \in Requests, NEW k \in Keys, Arrive(r, k) PROVE Typed'
  BY <1>1 DEF Arrive
<1>2. ASSUME NEW r \in Requests, Find(r) PROVE Typed'
  BY <1>2 DEF Find
<1>3. ASSUME NEW r \in Requests, Do(r) PROVE Typed'
  BY <1>3 DEF Do
<1>4. ASSUME NEW r \in Requests, FanOut(r) PROVE Typed'
  <2>1. \E to \in {"finish", "save"} : Goes(r, "fanOut", to)
    BY <1>4 DEF FanOut
  <2> QED BY <1>4, <2>1 DEF FanOut
<1>5. ASSUME NEW r \in Requests, Save(r) PROVE Typed'
  BY <1>5 DEF Save
<1>6. ASSUME NEW r \in Requests, Finish(r) PROVE Typed'
  BY <1>6 DEF Finish
<1>7. CASE Tick \/ Sweep \/ UNCHANGED vars
  BY <1>7 DEF Tick, Sweep, vars
<1>8. CASE Restart
  BY <1>8 DEF Restart
<1> QED
  BY <1>1, <1>2, <1>3, <1>4, <1>5, <1>6, <1>7, <1>8 DEF Next, AfterFind

\* Every step keeps sfGroup's map equal to the running leaders.
LEMMA FlightsStep == FlightInv /\ [Next]_vars => Flights'
<1> SUFFICES ASSUME FlightInv, [Next]_vars PROVE Flights'
  OBVIOUS
<1> USE ServiceAssumption DEF FlightInv, Typed, Control, Flights, Leads, Goes
<1>1. ASSUME NEW r \in Requests, NEW k \in Keys, Arrive(r, k) PROVE Flights'
  BY <1>1 DEF Arrive
<1>2. ASSUME NEW r \in Requests, Find(r) PROVE Flights'
  BY <1>2 DEF Find
<1>3. ASSUME NEW r \in Requests, Do(r) PROVE Flights'
  BY <1>3 DEF Do
<1>4. ASSUME NEW r \in Requests, FanOut(r) PROVE Flights'
  <2>1. \E to \in {"finish", "save"} : Goes(r, "fanOut", to)
    BY <1>4 DEF FanOut
  <2> QED BY <1>4, <2>1 DEF FanOut
<1>5. ASSUME NEW r \in Requests, Save(r) PROVE Flights'
  BY <1>5 DEF Save
<1>6. ASSUME NEW r \in Requests, Finish(r) PROVE Flights'
  <2>1. /\ key' = key
        /\ \A s \in Requests :
             pc'[s] = IF s = r \/ (pc[s] = "wait" /\ key[s] = key[r])
                      THEN "returned" ELSE pc[s]
        /\ flight' = [flight EXCEPT ![key[r]] = NoRequest]
        /\ pc[r] = "finish"
    BY <1>6 DEF Finish
  <2> QED BY <2>1
<1>7. CASE Tick \/ Sweep \/ UNCHANGED vars
  BY <1>7 DEF Tick, Sweep, vars
<1>8. CASE Restart
  BY <1>8 DEF Restart
<1> QED
  BY <1>1, <1>2, <1>3, <1>4, <1>5, <1>6, <1>7, <1>8 DEF Next, AfterFind

\* However requests interleave, one fan-out at most runs per scoped key and
\* nobody waits for a fan-out that is not running.
THEOREM OneFlight == Spec => []OneFlightPerKey
<1>1. Init => FlightInv
  BY ServiceAssumption DEF Init, FlightInv, Typed, Control, Flights, Leads
<1>2. FlightInv /\ [Next]_vars => FlightInv'
  BY TypedStep, FlightsStep DEF FlightInv
<1>3. FlightInv => OneFlightPerKey
  BY ServiceAssumption DEF FlightInv, Typed, Flights, OneFlightPerKey, Leads,
     Control
<1> QED BY <1>1, <1>2, <1>3, PTL DEF Spec
-----------------------------------------------------------------------------
\* ON CONFLICT DO NOTHING keeps one row per carrier and every old row.
LEMMA InsertKeeps ==
  ASSUME NEW old, NEW new, Distinct(old), Distinct(new)
  PROVE  Distinct(Insert(old, new)) /\ old \subseteq Insert(old, new)
BY DEF Distinct, Insert

\* Dropping quotes, as the lookup and the sweep do, keeps them distinct.
LEMMA SubsetDistinct ==
  ASSUME NEW S, Distinct(S), NEW T, T \subseteq S
  PROVE  Distinct(T)
BY DEF Distinct

LEMMA SingleStep == Typed /\ Single /\ [Next]_vars => Single'
<1> SUFFICES ASSUME Typed, Single, [Next]_vars PROVE Single'
  OBVIOUS
<1> USE DEF Single
<1>1. ASSUME NEW r \in Requests, NEW k \in Keys, Arrive(r, k) PROVE Single'
  BY <1>1 DEF Arrive, Distinct
<1>2. ASSUME NEW r \in Requests, Find(r) PROVE Single'
  <2>1. pc[r] = "find" /\ key[r] \in Keys
    BY <1>2 DEF Find, Typed, Control
  <2>2. Distinct(Live(rows[key[r]]))
    BY <2>1, SubsetDistinct DEF Live
  <2>3. /\ rows' = rows
        /\ \/ response' = response
           \/ response' = [response EXCEPT ![r] = Live(rows[key[r]])]
    BY <1>2 DEF Find
  <2> QED BY <2>2, <2>3
<1>3. ASSUME NEW r \in Requests, FanOut(r) PROVE Single'
  <2>1. PICK qs : Distinct(qs) /\ response' = [response EXCEPT ![r] = qs]
    BY <1>3 DEF FanOut
  <2>2. rows' = rows
    BY <1>3 DEF FanOut
  <2> QED BY <2>1, <2>2
<1>4. ASSUME NEW r \in Requests, Save(r) PROVE Single'
  <2>1. key[r] \in Keys
    BY <1>4 DEF Save, Goes, Typed, Control
  <2>2. Distinct(Insert(rows[key[r]], response[r]))
    BY <2>1, InsertKeeps
  <2>3. /\ response' = response
        /\ \/ rows' = rows
           \/ rows' = [rows EXCEPT ![key[r]] = Insert(rows[key[r]], response[r])]
    BY <1>4 DEF Save
  <2> QED BY <2>1, <2>2, <2>3
<1>5. ASSUME NEW r \in Requests, Finish(r) PROVE Single'
  <2>1. /\ rows' = rows
        /\ response' = [s \in Requests |-> response'[s]]
        /\ \A s \in Requests : response'[s] \in {response[r], response[s]}
    BY <1>5 DEF Finish
  <2> QED BY <2>1
<1>6. CASE Sweep
  <2>1. \A k \in Keys : Distinct(Live(rows[k]))
    BY SubsetDistinct DEF Live
  <2> QED BY <1>6, <2>1 DEF Sweep
<1>7. ASSUME NEW r \in Requests, Do(r) PROVE Single'
  BY <1>7 DEF Do
<1>8. CASE Tick \/ UNCHANGED vars
  BY <1>8 DEF Tick, vars
<1>9. CASE Restart
  BY <1>9 DEF Restart, Distinct
<1> QED
  BY <1>1, <1>2, <1>3, <1>4, <1>5, <1>6, <1>7, <1>8, <1>9 DEF Next, AfterFind

LEMMA SingleInvariance == Spec => [](Typed /\ Single)
<1>1. Init => Typed /\ Single
  BY ServiceAssumption DEF Init, Typed, Control, Single, Distinct
<1>2. Typed /\ Single /\ [Next]_vars => (Typed /\ Single)'
  BY TypedStep, SingleStep
<1> QED BY <1>1, <1>2, PTL DEF Spec

\* No answer ever holds two quotes of one carrier, although a cached answer
\* may mix rows that several fan-outs saved under its key.
THEOREM OneQuote == Spec => []OneQuotePerCarrier
<1>1. Single => OneQuotePerCarrier
  BY DEF Single, OneQuotePerCarrier
<1> QED BY <1>1, SingleInvariance, PTL

\* A stored quote stays until it expires: no save replaces it, no sweep removes
\* it early and no restart loses it.
THEOREM RowsStay == Spec => LiveRowsStay
<1> DEFINE Stay == \A k \in Keys : Live(rows[k]) \subseteq rows'[k]
<1>1. Typed /\ Single /\ [Next]_vars => [Stay]_vars
  <2> SUFFICES ASSUME Typed, Single, Next PROVE Stay
    OBVIOUS
  <2>1. CASE rows' = rows
    BY <2>1 DEF Live
  <2>2. ASSUME NEW r \in Requests, Save(r) PROVE Stay
    <3>1. key[r] \in Keys
      BY <2>2 DEF Save, Goes, Typed, Control
    <3>2. rows[key[r]] \subseteq Insert(rows[key[r]], response[r])
      BY <3>1, InsertKeeps DEF Single
    <3>3. \/ rows' = rows
          \/ rows' = [rows EXCEPT ![key[r]] = Insert(rows[key[r]], response[r])]
      BY <2>2 DEF Save
    <3> QED BY <3>1, <3>2, <3>3 DEF Live, Single
  <2>3. CASE Sweep
    BY <2>3 DEF Sweep
  <2>4. ASSUME NEW r \in Requests,
               \/ \E k \in Keys : Arrive(r, k)
               \/ Find(r) \/ Do(r) \/ FanOut(r) \/ Finish(r)
        PROVE  rows' = rows
    BY <2>4 DEF Arrive, Find, Do, FanOut, Finish
  <2>5. CASE Tick \/ Restart
    BY <2>5, <2>1 DEF Tick, Restart
  <2> QED BY <2>1, <2>2, <2>3, <2>4, <2>5 DEF Next, AfterFind
<1> QED BY <1>1, SingleInvariance, PTL DEF Spec, LiveRowsStay
-----------------------------------------------------------------------------
\* The quotes fan-outs make before the clock stops.
AllQuotes == UNION {QuotesAt(t) : t \in 0..MaxClock}

\* What TypeOK adds to Typed: the clock, the table, the answers and the saves.
Stores ==
  /\ now \in 0..MaxClock
  /\ rows \in [Keys -> SUBSET AllQuotes]
  /\ response \in [Requests -> SUBSET AllQuotes]
  /\ stored \in [Requests -> BOOLEAN]

\* A fan-out only makes quotes of its own time.
LEMMA MadeNow ==
  ASSUME NEW t \in 0..MaxClock, NEW qs \in SUBSET QuotesAt(t)
  PROVE  qs \in SUBSET AllQuotes
BY DEF AllQuotes

\* A save stores nothing but old rows and rows of the answer.
LEMMA InsertWithin ==
  ASSUME NEW S, NEW old \in SUBSET S, NEW new \in SUBSET S
  PROVE  Insert(old, new) \in SUBSET S
BY DEF Insert

LEMMA StoresStep == Typed /\ Stores /\ [Next]_vars => Stores'
<1> SUFFICES ASSUME Typed, Stores, [Next]_vars PROVE Stores'
  OBVIOUS
<1> USE DEF Stores
<1>1. ASSUME NEW r \in Requests, NEW k \in Keys, Arrive(r, k) PROVE Stores'
  BY <1>1 DEF Arrive
<1>2. ASSUME NEW r \in Requests, Find(r) PROVE Stores'
  <2>1. pc[r] = "find" /\ key[r] \in Keys
    BY <1>2 DEF Find, Typed, Control
  <2>2. Live(rows[key[r]]) \in SUBSET AllQuotes
    BY <2>1 DEF Live
  <2>3. /\ UNCHANGED <<now, rows, stored>>
        /\ \/ response' = response
           \/ response' = [response EXCEPT ![r] = Live(rows[key[r]])]
    BY <1>2 DEF Find
  <2> QED BY <2>2, <2>3
<1>3. ASSUME NEW r \in Requests, FanOut(r) PROVE Stores'
  <2>1. PICK qs \in SUBSET QuotesAt(now) :
          response' = [response EXCEPT ![r] = qs]
    BY <1>3 DEF FanOut
  <2>2. qs \in SUBSET AllQuotes
    BY MadeNow
  <2>3. UNCHANGED <<now, rows, stored>>
    BY <1>3 DEF FanOut
  <2> QED BY <2>1, <2>2, <2>3
<1>4. ASSUME NEW r \in Requests, Save(r) PROVE Stores'
  <2>1. key[r] \in Keys
    BY <1>4 DEF Save, Goes, Typed, Control
  <2>2. Insert(rows[key[r]], response[r]) \in SUBSET AllQuotes
    BY <2>1, InsertWithin
  <2>3. \/ rows' = rows
        \/ rows' = [rows EXCEPT ![key[r]] = Insert(rows[key[r]], response[r])]
    BY <1>4 DEF Save
  <2>4. /\ UNCHANGED <<now, response>>
        /\ stored' \in [Requests -> BOOLEAN]
    BY <1>4 DEF Save
  <2> QED BY <2>1, <2>2, <2>3, <2>4
<1>5. ASSUME NEW r \in Requests, Finish(r) PROVE Stores'
  <2>1. /\ UNCHANGED <<now, rows, stored>>
        /\ response' = [s \in Requests |-> response'[s]]
        /\ \A s \in Requests : response'[s] \in {response[r], response[s]}
    BY <1>5 DEF Finish
  <2> QED BY <2>1
<1>6. CASE Sweep
  <2>1. \A k \in Keys : Live(rows[k]) \in SUBSET AllQuotes
    BY DEF Live
  <2> QED BY <1>6, <2>1 DEF Sweep
<1>7. ASSUME NEW r \in Requests, Do(r) PROVE Stores'
  BY <1>7 DEF Do
<1>8. CASE Tick
  BY <1>8, ServiceAssumption DEF Tick
<1>9. CASE UNCHANGED vars
  BY <1>9 DEF vars
<1>10. CASE Restart
  BY <1>10 DEF Restart
<1> QED
  BY <1>1, <1>2, <1>3, <1>4, <1>5, <1>6, <1>7, <1>8, <1>9, <1>10
     DEF Next, AfterFind

\* Types: what GetQuotes stores and answers are quotes some fan-out made, with
\* the expiry that fan-out gave them; a save, a sweep, a shared answer and a
\* restart make none up.
THEOREM ServiceTypes == Spec => []TypeOK
<1>1. Init => Typed /\ Stores
  BY ServiceAssumption DEF Init, Typed, Control, Stores
<1>2. Typed /\ Stores /\ [Next]_vars => (Typed /\ Stores)'
  BY TypedStep, StoresStep
<1>3. Typed /\ Stores => TypeOK
  BY DEF Typed, Control, Stores, AllQuotes, TypeOK
<1> QED BY <1>1, <1>2, <1>3, PTL DEF Spec
=============================================================================
