------------------------- MODULE RateLimiterProofs -------------------------
(***************************************************************************)
(* Proofs about RateLimiter for any number of callers and hedges and any   *)
(* burst.                                                                  *)
(***************************************************************************)
EXTENDS RateLimiter, FiniteSetTheorems, TLAPS

Times == -1..Horizon

\* promised is a cumulative count, and nothing is promised after the latest
\* reservation.
Cumulative ==
  /\ \A u, v \in Times : u <= v => promised[u] <= promised[v]
  /\ \A u \in Times : lastEvent <= u => promised[u] = promised[lastEvent]

\* Every waiter's token is promised, for a time of its own.
Waiters ==
  \A r \in Callers : wait[r] = "timer" =>
    /\ due[r] \in 1..lastEvent
    /\ promised[due[r] - 1] < promised[due[r]]
    /\ \A s \in Callers : wait[s] = "timer" /\ due[s] = due[r] => s = r

\* The bucket is overdrawn by as many tokens as lie between now and the latest
\* reservation.
Level ==
  /\ tokens < 0 => lastEvent = now - tokens
  /\ tokens >= 0 => lastEvent <= now

\* In the future at most one token per tick is promised.
Ahead ==
  \A u, v \in Times :
    now <= u /\ u <= v => promised[v] - promised[u] <= v - u

\* What was promised since a, and what is left in the bucket, came out of a full
\* bucket and one token per tick since then.
Spent ==
  \A a \in 0..now :
    promised[Horizon] - promised[a - 1] + tokens <= Burst + (now - a)

\* Every caller reserves at most one token and is refused at most once.
Counted ==
  /\ -Cardinality({r \in Callers : wait[r] # "ready"}) <= tokens
  /\ rejections <= Cardinality({r \in Callers : wait[r] = "refused"})

Curve == Cumulative /\ Waiters /\ Level /\ Ahead /\ Spent /\ RateBound
LimiterInv == LimiterTypeOK /\ Counted /\ Curve

-----------------------------------------------------------------------------
\* The horizon lies behind the last tick.
LEMMA Sizes ==
  /\ Cardinality(Callers) \in Nat
  /\ Horizon \in Nat /\ MaxClock < Horizon
  /\ Times \subseteq Int
<1>1. Cardinality(Callers) \in Nat
  BY LimiterAssumption, FS_CardinalityType
<1> QED BY <1>1, LimiterAssumption DEF Horizon, Times

\* The numbers the limiter works with.
LEMMA Numbers ==
  ASSUME LimiterTypeOK
  PROVE  /\ now \in Nat /\ now < Horizon
         /\ tokens \in Int /\ tokens <= Burst
         /\ lastEvent \in Nat /\ lastEvent <= Horizon
         /\ \A u \in Times : promised[u] \in Nat
BY Sizes, LimiterAssumption DEF LimiterTypeOK, Times

\* A reservation keeps the arrival curve.
LEMMA ReserveCurve ==
  ASSUME LimiterTypeOK, Curve, Reserve, UNCHANGED now,
         now + Delay <= Horizon
  PROVE  /\ promised' \in [Times -> Nat]
         /\ Cumulative' /\ Level' /\ Ahead' /\ Spent' /\ RateBound'
<1> DEFINE d == now + Delay
<1> USE Sizes, Numbers, LimiterAssumption
<1>1. /\ d \in Nat /\ d \in Times /\ now <= d /\ lastEvent <= d
      /\ tokens' = tokens - 1 /\ lastEvent' = d /\ now' = now
      /\ tokens >= 1 => d = now
      /\ tokens < 1 => d = now - tokens' /\ lastEvent < d
  BY DEF Reserve, Delay, Curve, Level, Times
<1>2. \A u \in Times : promised'[u] = IF u >= d THEN promised[u] + 1
                                               ELSE promised[u]
  BY DEF Reserve, Promise, Times
<1> HIDE DEF d
<1>3. Cumulative'
  BY <1>1, <1>2 DEF Curve, Cumulative, Times
<1>4. Level'
  BY <1>1 DEF Level
<1>5. Ahead'
  <2> SUFFICES ASSUME NEW u \in Times, NEW v \in Times, now <= u, u <= v
               PROVE  promised'[v] - promised'[u] <= v - u
    BY <1>1 DEF Ahead
  <2>1. promised[v] - promised[u] <= v - u
    BY DEF Curve, Ahead
  <2>2. CASE ~(u < d /\ d <= v)
    BY <1>1, <1>2, <2>1, <2>2 DEF Times
  <2>3. CASE u < d /\ d <= v
    <3>1. d - 1 \in Times /\ u <= d - 1 /\ lastEvent <= d - 1
      BY <1>1, <2>3 DEF Times
    <3>2. promised[v] = promised[d - 1]
      BY <1>1, <2>3, <3>1 DEF Curve, Cumulative, Times
    <3>3. promised[d - 1] - promised[u] <= d - 1 - u
      BY <3>1 DEF Curve, Ahead
    <3> QED BY <1>1, <1>2, <2>3, <3>2, <3>3 DEF Times
  <2> QED BY <2>2, <2>3
<1>6. Spent'
  <2> SUFFICES ASSUME NEW a \in 0..now
               PROVE  promised'[Horizon] - promised'[a - 1] + tokens'
                        <= Burst + (now - a)
    BY <1>1 DEF Spent
  <2>1. promised[Horizon] - promised[a - 1] + tokens <= Burst + (now - a)
    BY DEF Curve, Spent
  <2>2. a - 1 \in Times /\ Horizon \in Times /\ a - 1 < d /\ d <= Horizon
    BY <1>1 DEF Times
  <2> QED BY <1>1, <1>2, <2>1, <2>2
<1>7. RateBound'
  <2> SUFFICES ASSUME NEW a \in 0..Horizon, NEW b \in 0..Horizon, a <= b
               PROVE  promised'[b] - promised'[a - 1] <= Burst + (b - a)
    BY DEF RateBound
  <2>0. /\ a - 1 \in Times /\ b \in Times /\ Horizon \in Times
        /\ promised'[b] \in Int /\ promised'[a - 1] \in Int
        /\ promised'[Horizon] \in Int
    BY <1>2 DEF Times
  <2>1. promised[b] - promised[a - 1] <= Burst + (b - a)
    BY DEF Curve, RateBound
  <2>2. CASE ~(a - 1 < d /\ d <= b)
    BY <1>1, <1>2, <2>0, <2>1, <2>2
  <2>3. CASE a > now
    BY <1>1, <1>5, <2>0, <2>3 DEF Ahead
  <2>4. CASE d <= b /\ a <= now
    <3>1. promised'[Horizon] - promised'[a - 1] + tokens' <= Burst + (now - a)
      BY <1>1, <1>6, <2>4 DEF Spent
    <3>2. promised'[b] <= promised'[Horizon]
      BY <1>3, <2>0 DEF Cumulative
    <3>3. now - tokens' <= b
      BY <1>1, <2>4
    <3> QED BY <1>1, <2>0, <3>1, <3>2, <3>3
  <2> QED BY <1>1, <2>2, <2>3, <2>4
<1>8. promised' \in [Times -> Nat]
  BY DEF Reserve, Promise, Times
<1> QED BY <1>3, <1>4, <1>5, <1>6, <1>7, <1>8

\* Giving a reservation back keeps the arrival curve: the token returns to the
\* bucket only if the reservation was the latest one.
LEMMA CancelCurve ==
  ASSUME LimiterTypeOK, Curve, NEW r \in Callers, wait[r] = "timer",
         CancelReservation(r), UNCHANGED now
  PROVE  /\ promised' \in [Times -> Nat]
         /\ Cumulative' /\ Level' /\ Ahead' /\ Spent' /\ RateBound'
<1> DEFINE d == due[r]
           last == Restores(r) /\ d > now
<1> USE Sizes, Numbers, LimiterAssumption
<1>1. /\ d \in 1..lastEvent /\ d \in Times /\ d - 1 \in Times
      /\ lastEvent \in Times /\ promised[d - 1] < promised[d]
  BY DEF Curve, Waiters, Times
<1>2. \A u \in Times : promised'[u] = IF u >= d THEN promised[u] - 1
                                               ELSE promised[u]
  BY DEF CancelReservation, Promise, Times
<1>3. /\ now' = now
      /\ tokens' \in {tokens, tokens + 1, Burst}
      /\ ~Restores(r) => tokens' = tokens /\ lastEvent' = lastEvent
      /\ Restores(r) => tokens' <= tokens + 1 /\ now <= d /\ d = lastEvent
      /\ last => tokens < 0 /\ tokens' = tokens + 1 /\ lastEvent' = d - 1
      /\ ~last => lastEvent' = lastEvent
  BY DEF CancelReservation, Refilled, Restores, Curve, Level
<1>4. ASSUME last PROVE promised[d] = promised[d - 1] + 1
  <2>1. promised[d] - promised[d - 1] <= 1
    BY <1>1, <1>4 DEF Curve, Ahead
  <2> QED BY <1>1, <2>1
<1>5. Level'
  BY <1>1, <1>3 DEF Curve, Level, Restores, CancelReservation, Refilled
<1>6. promised' = [u \in Times |-> promised'[u]]
  BY DEF CancelReservation, Promise, Times
<1> HIDE DEF d, last
<1>7. promised' \in [Times -> Nat]
  <2>1. ASSUME NEW u \in Times, u >= d PROVE promised[u] >= 1
    <3>1. promised[d] <= promised[u]
      BY <1>1, <2>1 DEF Curve, Cumulative
    <3> QED BY <1>1, <3>1
  <2>2. \A u \in Times : promised'[u] \in Nat
    BY <1>1, <1>2, <2>1
  <2> QED BY <1>6, <2>2
<1>8. Cumulative'
  <2>1. ASSUME NEW u \in Times, NEW v \in Times, u <= v
        PROVE  promised'[u] <= promised'[v]
    <3>1. CASE u < d /\ d <= v
      <4>1. promised[u] <= promised[d - 1] /\ promised[d] <= promised[v]
        BY <1>1, <3>1 DEF Curve, Cumulative
      <4> QED BY <1>1, <1>2, <3>1, <4>1
    <3>2. CASE ~(u < d /\ d <= v)
      BY <1>1, <1>2, <2>1, <3>2 DEF Curve, Cumulative
    <3> QED BY <3>1, <3>2
  <2>2. ASSUME NEW u \in Times, lastEvent' <= u
        PROVE  promised'[u] = promised'[lastEvent']
    <3>1. CASE last
      <4>1. CASE u = d - 1
        BY <1>3, <3>1, <4>1
      <4>2. CASE u >= d
        BY <1>1, <1>2, <1>3, <1>4, <3>1, <4>2 DEF Curve, Cumulative
      <4> QED BY <1>1, <1>3, <2>2, <3>1, <4>1, <4>2
    <3>2. CASE ~last
      BY <1>1, <1>2, <1>3, <2>2, <3>2 DEF Curve, Cumulative
    <3> QED BY <3>1, <3>2
  <2> QED BY <2>1, <2>2 DEF Cumulative
<1>9. Ahead'
  BY <1>1, <1>2, <1>3 DEF Curve, Ahead
<1>10. Spent'
  <2> SUFFICES ASSUME NEW a \in 0..now
               PROVE  promised'[Horizon] - promised'[a - 1] + tokens'
                        <= Burst + (now - a)
    BY <1>3 DEF Spent
  <2>1. promised[Horizon] - promised[a - 1] + tokens <= Burst + (now - a)
    BY DEF Curve, Spent
  <2>2. a - 1 \in Times /\ Horizon \in Times /\ d <= Horizon
    BY <1>1 DEF Times
  <2> QED BY <1>1, <1>2, <1>3, <2>1, <2>2
<1>11. RateBound'
  <2> SUFFICES ASSUME NEW a \in 0..Horizon, NEW b \in 0..Horizon, a <= b
               PROVE  promised'[b] - promised'[a - 1] <= Burst + (b - a)
    BY DEF RateBound
  <2>1. promised[b] - promised[a - 1] <= Burst + (b - a)
    BY DEF Curve, RateBound
  <2>2. a - 1 \in Times /\ b \in Times
    BY DEF Times
  <2> QED BY <1>1, <1>2, <2>1, <2>2
<1> QED BY <1>5, <1>7, <1>8, <1>9, <1>10, <1>11

\* One tick fills the bucket by at most one token.
LEMMA RefillCurve ==
  ASSUME LimiterTypeOK, Curve, Refill
  PROVE  Curve'
<1> USE Sizes, Numbers, LimiterAssumption
<1>1. /\ now' = now + 1
      /\ tokens' \in Int /\ tokens' <= tokens + 1 /\ tokens' <= Burst
      /\ tokens < 0 => tokens' = tokens + 1
      /\ tokens >= 0 => tokens' >= 0
      /\ UNCHANGED <<lastEvent, wait, due, promised>>
  BY DEF Refill, Refilled
<1>2. Cumulative' /\ Waiters' /\ RateBound'
  BY <1>1 DEF Curve, Cumulative, Waiters, RateBound
<1>3. Level'
  BY <1>1 DEF Curve, Level
<1>4. Ahead'
  BY <1>1 DEF Curve, Ahead
<1>5. Spent'
  <2> SUFFICES ASSUME NEW a \in 0..(now + 1)
               PROVE  promised[Horizon] - promised[a - 1] + tokens'
                        <= Burst + (now + 1 - a)
    BY <1>1 DEF Spent
  <2>1. now \in Times /\ Horizon \in Times /\ a - 1 \in Times
        /\ lastEvent \in Times
    BY DEF Times
  <2>2. CASE a <= now
    <3>1. promised[Horizon] - promised[a - 1] + tokens <= Burst + (now - a)
      BY <2>2 DEF Curve, Spent
    <3> QED BY <1>1, <2>1, <3>1
  <2>3. CASE a = now + 1 /\ tokens >= 0
    <3>1. promised[Horizon] = promised[now]
      BY <2>1, <2>3 DEF Curve, Level, Cumulative
    <3> QED BY <1>1, <2>1, <2>3, <3>1
  <2>4. CASE a = now + 1 /\ tokens < 0
    <3>1. lastEvent = now - tokens
      BY <2>4 DEF Curve, Level
    <3>2. promised[Horizon] = promised[lastEvent]
      BY <2>1 DEF Curve, Cumulative
    <3>3. promised[lastEvent] - promised[now] <= lastEvent - now
      BY <2>1, <2>4, <3>1 DEF Curve, Ahead
    <3> QED BY <1>1, <2>1, <2>4, <3>1, <3>2, <3>3
  <2> QED BY <2>2, <2>3, <2>4
<1> QED BY <1>2, <1>3, <1>4, <1>5 DEF Curve

-----------------------------------------------------------------------------
(* The inductive invariant                                                 *)

\* The limiter starts with a full bucket and nothing promised.
LEMMA LimiterInitInv == LimiterInit => LimiterInv
<1> SUFFICES ASSUME LimiterInit PROVE LimiterInv
  OBVIOUS
<1> USE Sizes, LimiterAssumption DEF LimiterInit
<1>1. /\ {r \in Callers : wait[r] # "ready"} = {}
      /\ {r \in Callers : wait[r] = "refused"} = {}
  OBVIOUS
<1>2. Counted
  <2>1. Cardinality({}) = 0
    BY FS_EmptySet
  <2>2. /\ Cardinality({r \in Callers : wait[r] # "ready"}) = 0
        /\ Cardinality({r \in Callers : wait[r] = "refused"}) = 0
        /\ tokens = Burst /\ rejections = 0 /\ Burst \in Nat
    BY <1>1, <2>1
  <2> HIDE DEF LimiterInit
  <2> QED BY <2>2 DEF Counted
<1>3. LimiterTypeOK
  <2>1. /\ wait \in [Callers -> {"ready", "timer", "granted", "refused"}]
        /\ due \in [Callers -> 0..Horizon]
        /\ promised \in [-1..Horizon -> Nat]
    OBVIOUS
  <2> QED BY <2>1 DEF LimiterTypeOK
<1>4. \A u \in Times : promised[u] = 0
  BY DEF Times
<1>5. /\ 0 \in Times /\ Horizon \in Times
      /\ \A a \in 0..Horizon : a \in Times /\ a - 1 \in Times
  BY DEF Times
<1>6. Waiters /\ Level
  BY DEF Waiters, Level
<1>7. now = 0 /\ tokens = Burst /\ lastEvent = 0
  OBVIOUS
<1> HIDE DEF LimiterInit
<1>8. Cumulative /\ Ahead
  BY <1>4, <1>5, <1>7 DEF Cumulative, Ahead
<1>9. Spent
  BY <1>4, <1>5, <1>7 DEF Spent
<1>10. RateBound
  BY <1>4, <1>5 DEF RateBound
<1> QED BY <1>2, <1>3, <1>6, <1>8, <1>9, <1>10 DEF LimiterInv, Curve

\* How Becomes changes the callers that have called Wait and those refused.
LEMMA Called ==
  ASSUME LimiterTypeOK, NEW r \in Callers, wait[r] = "ready",
         NEW outcome \in {"timer", "granted", "refused"}, Becomes(r, outcome)
  PROVE  LET before == Cardinality({s \in Callers : wait[s] # "ready"})
             after == Cardinality({s \in Callers : wait'[s] # "ready"})
         IN  /\ before \in Nat /\ after = before + 1
             /\ after <= Cardinality(Callers)
<1> DEFINE B == {s \in Callers : wait[s] # "ready"}
           A == {s \in Callers : wait'[s] # "ready"}
<1>1. A = B \cup {r} /\ r \notin B
  BY DEF LimiterTypeOK, Becomes
<1>2. /\ IsFiniteSet(B) /\ IsFiniteSet(A)
      /\ Cardinality(A) <= Cardinality(Callers)
  BY LimiterAssumption, FS_Subset
<1>3. Cardinality(B) \in Nat /\ Cardinality(A) = Cardinality(B) + 1
  BY <1>1, <1>2, FS_AddElement, FS_CardinalityType
<1> QED BY <1>2, <1>3

LEMMA Refused ==
  ASSUME LimiterTypeOK, NEW r \in Callers, wait[r] # "refused",
         NEW outcome \in {"timer", "granted", "refused"}, Becomes(r, outcome)
  PROVE  LET before == Cardinality({s \in Callers : wait[s] = "refused"})
             after == Cardinality({s \in Callers : wait'[s] = "refused"})
         IN  /\ before \in Nat /\ after <= Cardinality(Callers)
             /\ after = IF outcome = "refused" THEN before + 1 ELSE before
<1> DEFINE B == {s \in Callers : wait[s] = "refused"}
           A == {s \in Callers : wait'[s] = "refused"}
<1>1. /\ A = IF outcome = "refused" THEN B \cup {r} ELSE B
      /\ r \notin B
  BY DEF LimiterTypeOK, Becomes
<1>2. /\ IsFiniteSet(B) /\ IsFiniteSet(A)
      /\ Cardinality(A) <= Cardinality(Callers)
  BY LimiterAssumption, FS_Subset
<1>3. /\ Cardinality(B) \in Nat
      /\ Cardinality(A) = IF outcome = "refused" THEN Cardinality(B) + 1
                                                 ELSE Cardinality(B)
  BY <1>1, <1>2, FS_AddElement, FS_CardinalityType
<1> QED BY <1>2, <1>3

\* Wait keeps the invariant, refused or not.
LEMMA WaitStep ==
  ASSUME LimiterInv, NEW r \in Callers, NEW d \in Int, Wait(r, d)
  PROVE  LimiterInv'
<1> USE Sizes, LimiterAssumption DEF LimiterInv
<1> DEFINE before == Cardinality({s \in Callers : wait[s] # "ready"})
           after == Cardinality({s \in Callers : wait'[s] # "ready"})
           refused == Cardinality({s \in Callers : wait[s] = "refused"})
<1>1. wait[r] = "ready" /\ UNCHANGED <<now, hedges>>
  BY DEF Wait
<1>2. PICK outcome \in {"timer", "granted", "refused"} : Becomes(r, outcome)
  BY DEF Wait, RejectCounted, RejectUncounted
<1>3. /\ before \in Nat /\ after = before + 1
      /\ after <= Cardinality(Callers)
  BY <1>1, <1>2, Called
<1>4. /\ wait' \in [Callers -> {"ready", "timer", "granted", "refused"}]
      /\ \A s \in Callers : s # r => wait'[s] = wait[s]
      /\ wait'[r] = outcome
  BY <1>1, <1>2 DEF LimiterTypeOK, Becomes
<1>5. /\ refused \in Nat /\ refused' <= Cardinality(Callers)
      /\ refused' = IF outcome = "refused" THEN refused + 1 ELSE refused
  BY <1>1, <1>2, Refused
<1>6. Counted <=> -before <= tokens /\ rejections <= refused
  BY DEF Counted
<1>7. Counted' <=> -after <= tokens' /\ rejections' <= refused'
  BY DEF Counted
<1> HIDE DEF before, after, refused
<1>8. CASE UNCHANGED <<tokens, lastEvent, due, promised>>
           /\ (RejectCounted(r) \/ RejectUncounted(r))
  <2>1. rejections' \in {rejections, rejections + 1} /\ wait'[r] = "refused"
    BY <1>1, <1>8 DEF RejectCounted, RejectUncounted, Becomes, LimiterTypeOK
  <2>2. Counted'
    BY <1>3, <1>4, <1>5, <1>6, <1>7, <1>8, <2>1, Numbers DEF LimiterTypeOK
  <2>3. rejections' \in 0..Cardinality(Callers)
    BY <1>5, <1>7, <2>1, <2>2 DEF LimiterTypeOK
  <2>4. LimiterTypeOK'
    BY <1>1, <1>4, <1>8, <2>3 DEF LimiterTypeOK
  <2>5. Waiters'
    BY <1>4, <1>8, <2>1 DEF Curve, Waiters
  <2>6. Cumulative' /\ Level' /\ Ahead' /\ Spent' /\ RateBound'
    BY <1>1, <1>8 DEF Curve, Cumulative, Level, Ahead, Spent, RateBound
  <2> QED BY <2>2, <2>4, <2>5, <2>6 DEF Curve
<1>9. CASE /\ Becomes(r, IF Delay = 0 THEN "granted" ELSE "timer")
           /\ due' = [due EXCEPT ![r] = now + Delay]
           /\ Reserve
           /\ UNCHANGED rejections
  <2> DEFINE t == now + Delay
  <2>1. /\ t \in Nat /\ now <= t /\ t < Horizon /\ lastEvent <= t
        /\ t > now => lastEvent < t
        /\ Delay = 0 <=> t = now
    BY <1>3, <1>6, Numbers DEF Delay, Horizon, LimiterTypeOK, Curve, Level
  <2>2. /\ tokens' = tokens - 1 /\ lastEvent' = t
        /\ due' \in [Callers -> 0..Horizon] /\ due'[r] = t
        /\ \A s \in Callers : s # r => due'[s] = due[s]
    <3>1. /\ due \in [Callers -> 0..Horizon] /\ t \in 0..Horizon
          /\ due' = [due EXCEPT ![r] = t]
      BY <1>9, <2>1 DEF LimiterTypeOK
    <3>2. tokens' = tokens - 1 /\ lastEvent' = t
      BY <1>9 DEF Reserve
    <3> HIDE DEF t
    <3> QED BY <3>1, <3>2
  <2>3. /\ promised' \in [Times -> Nat]
        /\ Cumulative' /\ Level' /\ Ahead' /\ Spent' /\ RateBound'
    BY <1>1, <1>9, <2>1, ReserveCurve
  <2>4. \A u \in Times : promised'[u] = IF u >= t THEN promised[u] + 1
                                                 ELSE promised[u]
    BY <1>9 DEF Reserve, Promise, Times
  <2>5. wait'[r] = "timer" => t > now
    BY <1>9, <2>1 DEF Becomes, LimiterTypeOK
  <2> HIDE DEF t
  <2>6. Counted'
    BY <1>3, <1>5, <1>6, <1>7, <1>9, <2>2, Numbers DEF LimiterTypeOK
  <2>7. LimiterTypeOK'
    <3>1. tokens' \in -Cardinality(Callers)..Burst
      BY <1>3, <1>7, <2>2, <2>6, Numbers
    <3> QED BY <1>1, <1>4, <1>9, <2>1, <2>2, <2>3, <3>1
            DEF LimiterTypeOK, Times
  <2>8. Waiters'
    <3> SUFFICES ASSUME NEW s \in Callers, wait'[s] = "timer"
                 PROVE  /\ due'[s] \in 1..lastEvent'
                        /\ promised'[due'[s] - 1] < promised'[due'[s]]
                        /\ \A q \in Callers :
                             wait'[q] = "timer" /\ due'[q] = due'[s] => q = s
      BY DEF Waiters
    <3>1. ASSUME NEW q \in Callers, q # r, wait'[q] = "timer"
          PROVE  /\ due'[q] \in 1..lastEvent /\ due'[q] = due[q]
                 /\ promised[due[q] - 1] < promised[due[q]]
                 /\ wait[q] = "timer"
      BY <1>4, <2>2, <3>1 DEF Curve, Waiters
    <3>2. CASE s = r
      <4>1. t \in 1..lastEvent' /\ t \in Times /\ t - 1 \in Times
        BY <2>1, <2>2, <2>5, <3>2, Numbers DEF Times
      <4>2. promised[t - 1] <= promised[t]
        BY <4>1 DEF Curve, Cumulative, Times
      <4>3. promised'[t - 1] < promised'[t]
        BY <2>4, <4>1, <4>2, Numbers DEF Times
      <4> QED BY <2>1, <2>2, <2>5, <3>1, <3>2, <4>1, <4>3, Numbers
    <3>3. CASE s # r
      <4>1. /\ due[s] \in Times /\ due[s] - 1 \in Times
            /\ due'[s] \in 1..lastEvent /\ due'[s] = due[s]
            /\ promised[due[s] - 1] < promised[due[s]]
            /\ wait[s] = "timer"
        BY <3>1, <3>3, Numbers DEF Times
      <4>2. promised'[due[s] - 1] < promised'[due[s]]
        BY <2>1, <2>4, <4>1, Numbers DEF Times
      <4>3. ASSUME NEW q \in Callers, wait'[q] = "timer", due'[q] = due'[s]
            PROVE  q = s
        <5>1. CASE q = r
          BY <2>1, <2>2, <2>5, <4>1, <4>3, <5>1, Numbers
        <5>2. CASE q # r
          BY <3>1, <4>1, <4>3, <5>2 DEF Curve, Waiters
        <5> QED BY <5>1, <5>2
      <4> QED BY <2>1, <2>2, <4>1, <4>2, <4>3, Numbers
    <3> QED BY <3>2, <3>3
  <2> QED BY <2>3, <2>6, <2>7, <2>8 DEF Curve
<1> QED BY <1>8, <1>9 DEF Wait

\* A timer that fires keeps the invariant.
LEMMA WakeStep ==
  ASSUME LimiterInv, NEW r \in Callers, Wake(r)
  PROVE  LimiterInv'
<1> USE Sizes, LimiterAssumption DEF LimiterInv
<1>1. /\ wait[r] = "timer" /\ Becomes(r, "granted")
      /\ UNCHANGED <<now, tokens, lastEvent, due, rejections, hedges,
                     promised>>
  BY DEF Wake
<1>2. /\ wait' \in [Callers -> {"ready", "timer", "granted", "refused"}]
      /\ \A s \in Callers : wait'[s] = IF s = r THEN "granted" ELSE wait[s]
  BY <1>1 DEF LimiterTypeOK, Becomes
<1>3. /\ {s \in Callers : wait'[s] # "ready"}
           = {s \in Callers : wait[s] # "ready"}
      /\ {s \in Callers : wait'[s] = "refused"}
           = {s \in Callers : wait[s] = "refused"}
  BY <1>1, <1>2
<1>4. Counted'
  BY <1>1, <1>3 DEF Counted
<1>5. LimiterTypeOK'
  BY <1>1, <1>2 DEF LimiterTypeOK
<1>6. Waiters'
  BY <1>1, <1>2 DEF Curve, Waiters
<1>7. Cumulative' /\ Level' /\ Ahead' /\ Spent' /\ RateBound'
  BY <1>1 DEF Curve, Cumulative, Level, Ahead, Spent, RateBound
<1> QED BY <1>4, <1>5, <1>6, <1>7 DEF Curve

\* A waiter whose context ends gives its reservation back and keeps the
\* invariant; in particular the others' tokens stay promised.
LEMMA CtxEndsStep ==
  ASSUME LimiterInv, NEW r \in Callers, CtxEnds(r)
  PROVE  LimiterInv'
<1> USE Sizes, LimiterAssumption DEF LimiterInv
<1> DEFINE refused == Cardinality({s \in Callers : wait[s] = "refused"})
<1>1. /\ wait[r] = "timer" /\ Becomes(r, "refused")
      /\ CancelReservation(r) /\ rejections' = rejections + 1
      /\ UNCHANGED <<now, due, hedges>>
  BY DEF CtxEnds, RejectCounted
<1>2. /\ wait' \in [Callers -> {"ready", "timer", "granted", "refused"}]
      /\ \A s \in Callers : wait'[s] = IF s = r THEN "refused" ELSE wait[s]
  BY <1>1 DEF LimiterTypeOK, Becomes
<1>3. {s \in Callers : wait'[s] # "ready"} = {s \in Callers : wait[s] # "ready"}
  BY <1>1, <1>2
<1>4. /\ refused \in Nat /\ refused' <= Cardinality(Callers)
      /\ refused' = refused + 1
  BY <1>1, Refused
<1>5. /\ promised' \in [Times -> Nat]
      /\ Cumulative' /\ Level' /\ Ahead' /\ Spent' /\ RateBound'
  BY <1>1, CancelCurve
<1>6. PICK n \in Nat :
        /\ n = Cardinality({s \in Callers : wait[s] # "ready"})
        /\ n = Cardinality({s \in Callers : wait'[s] # "ready"})
  <2>1. IsFiniteSet({s \in Callers : wait[s] # "ready"})
    BY FS_Subset
  <2> QED BY <1>3, <2>1, FS_CardinalityType
<1>7. /\ -n <= tokens /\ rejections <= refused
      /\ Counted' <=> -n <= tokens' /\ rejections' <= refused'
  BY <1>6 DEF Counted
<1>8. /\ due[r] \in 1..lastEvent
      /\ tokens' \in Int /\ tokens <= tokens' /\ tokens' <= Burst
      /\ lastEvent' \in 0..Horizon
      /\ \/ lastEvent' = lastEvent
         \/ lastEvent' = lastEvent - 1 /\ due[r] = lastEvent
  <2>1. due[r] \in 1..lastEvent
    BY <1>1 DEF Curve, Waiters
  <2>2. /\ tokens' = tokens \/ tokens' = Refilled
        /\ Refilled \in Int /\ tokens <= Refilled /\ Refilled <= Burst
    BY <1>1, Numbers DEF CancelReservation, Refilled
  <2>3. \/ lastEvent' = lastEvent
        \/ lastEvent' = due[r] - 1 /\ due[r] = lastEvent
    BY <1>1 DEF CancelReservation, Restores
  <2> HIDE DEF Refilled
  <2> QED BY <2>1, <2>2, <2>3, Numbers
<1> HIDE DEF refused
<1>9. Counted'
  <2>1. rejections \in Nat
    BY DEF LimiterTypeOK
  <2>2. rejections' <= refused'
    BY <1>1, <1>4, <1>7, <2>1
  <2>3. -n <= tokens'
    BY <1>7, <1>8, Numbers
  <2> QED BY <1>7, <2>2, <2>3
<1>10. LimiterTypeOK'
  <2>1. tokens' \in -Cardinality(Callers)..Burst
    BY <1>8, Numbers DEF LimiterTypeOK
  <2>2. rejections' \in 0..Cardinality(Callers)
    BY <1>1, <1>4, <1>7, <1>9 DEF LimiterTypeOK
  <2> QED BY <1>1, <1>2, <1>5, <1>8, <2>1, <2>2 DEF LimiterTypeOK, Times
<1>11. Waiters'
  <2> SUFFICES ASSUME NEW s \in Callers, wait'[s] = "timer"
               PROVE  /\ due[s] \in 1..lastEvent'
                      /\ promised'[due[s] - 1] < promised'[due[s]]
                      /\ \A q \in Callers :
                           wait'[q] = "timer" /\ due[q] = due[s] => q = s
    BY <1>1 DEF Waiters
  <2>1. s # r /\ wait[s] = "timer"
    BY <1>2
  <2>2. /\ due[s] \in 1..lastEvent /\ due[s] # due[r]
        /\ promised[due[s] - 1] < promised[due[s]]
        /\ \A q \in Callers : wait[q] = "timer" /\ due[q] = due[s] => q = s
    BY <1>1, <2>1 DEF Curve, Waiters
  <2>3. due[s] \in Times /\ due[s] - 1 \in Times
    BY <2>2, Numbers DEF Times
  <2>4. \A u \in Times : promised'[u] = IF u >= due[r] THEN promised[u] - 1
                                                      ELSE promised[u]
    BY <1>1 DEF CancelReservation, Promise, Times
  <2>5. promised'[due[s] - 1] < promised'[due[s]]
    BY <1>8, <2>2, <2>3, <2>4, Numbers
  <2>6. due[s] \in 1..lastEvent'
    BY <1>8, <2>2, Numbers
  <2> QED BY <1>2, <2>2, <2>5, <2>6
<1> QED BY <1>5, <1>9, <1>10, <1>11 DEF Curve

\* A hedge takes only a token that is in the bucket.
LEMMA TryAcquireStep ==
  ASSUME LimiterInv, TryAcquire
  PROVE  LimiterInv'
<1> USE Sizes, LimiterAssumption DEF LimiterInv
<1>1. /\ Reserve /\ Delay = 0 /\ tokens >= 1
      /\ hedges' \in 0..MaxHedges
      /\ UNCHANGED <<now, wait, due, rejections>>
  BY Numbers DEF TryAcquire, Allow, Delay, LimiterTypeOK
<1>2. /\ promised' \in [Times -> Nat]
      /\ Cumulative' /\ Level' /\ Ahead' /\ Spent' /\ RateBound'
  BY <1>1, Numbers, ReserveCurve
<1>3. tokens' = tokens - 1 /\ lastEvent' = now /\ lastEvent <= now
  BY <1>1, Numbers DEF Reserve, Curve, Level
<1>4. Counted'
  <2>1. IsFiniteSet({s \in Callers : wait[s] # "ready"})
    BY FS_Subset
  <2>2. Cardinality({s \in Callers : wait[s] # "ready"}) \in Nat
    BY <2>1, FS_CardinalityType
  <2> QED BY <1>1, <1>3, <2>2, Numbers DEF Counted
<1>5. LimiterTypeOK'
  <2>1. tokens' \in -Cardinality(Callers)..Burst /\ lastEvent' \in 0..Horizon
    BY <1>1, <1>3, Numbers
  <2> QED BY <1>1, <1>2, <2>1 DEF LimiterTypeOK, Times
<1>6. Waiters'
  <2>1. \A u \in Times : promised'[u] = IF u >= now THEN promised[u] + 1
                                                   ELSE promised[u]
    BY <1>1, Numbers DEF Reserve, Promise, Times
  <2> SUFFICES ASSUME NEW s \in Callers, wait[s] = "timer"
               PROVE  /\ due[s] \in 1..now
                      /\ promised'[due[s] - 1] < promised'[due[s]]
                      /\ \A q \in Callers :
                           wait[q] = "timer" /\ due[q] = due[s] => q = s
    BY <1>1, <1>3 DEF Waiters
  <2>2. /\ due[s] \in 1..lastEvent
        /\ promised[due[s] - 1] < promised[due[s]]
        /\ \A q \in Callers : wait[q] = "timer" /\ due[q] = due[s] => q = s
    BY DEF Curve, Waiters
  <2>3. due[s] \in Times /\ due[s] - 1 \in Times
    BY <2>2, Numbers DEF Times
  <2> QED BY <1>3, <2>1, <2>2, <2>3, Numbers
<1> QED BY <1>2, <1>4, <1>5, <1>6 DEF Curve

\* A tick keeps the invariant.
LEMMA RefillStep ==
  ASSUME LimiterInv, Refill
  PROVE  LimiterInv'
<1> USE Sizes, LimiterAssumption DEF LimiterInv
<1>1. /\ now' \in 0..MaxClock
      /\ tokens' \in Int /\ tokens <= tokens' /\ tokens' <= Burst
      /\ UNCHANGED <<lastEvent, wait, due, rejections, hedges, promised>>
  BY Numbers DEF Refill, Refilled, LimiterTypeOK
<1>2. LimiterTypeOK'
  BY <1>1, Numbers DEF LimiterTypeOK
<1>3. Counted'
  <2>1. IsFiniteSet({s \in Callers : wait[s] # "ready"})
    BY FS_Subset
  <2>2. Cardinality({s \in Callers : wait[s] # "ready"}) \in Nat
    BY <2>1, FS_CardinalityType
  <2> QED BY <1>1, <2>2, Numbers DEF Counted
<1> QED BY <1>2, <1>3, RefillCurve

\* Every step keeps the invariant.
LEMMA LimiterNextInv == LimiterInv /\ [LimiterNext]_limiterVars => LimiterInv'
<1> SUFFICES ASSUME LimiterInv, [LimiterNext]_limiterVars
             PROVE  LimiterInv'
  OBVIOUS
<1>1. CASE UNCHANGED limiterVars
  BY <1>1 DEF limiterVars, LimiterInv, LimiterTypeOK, Counted, Curve,
              Cumulative, Waiters, Level, Ahead, Spent, RateBound
<1>2. CASE Refill
  BY <1>2, RefillStep
<1>3. CASE TryAcquire
  BY <1>3, TryAcquireStep
<1>4. CASE \E r \in Callers : \E d \in now..Horizon : Wait(r, d)
  <2>1. now \in Int /\ Horizon \in Int
    BY Sizes, LimiterAssumption DEF LimiterInv, LimiterTypeOK
  <2> QED BY <1>4, <2>1, WaitStep
<1>5. CASE \E r \in Callers : Wake(r)
  BY <1>5, WakeStep
<1>6. CASE \E r \in Callers : CtxEnds(r)
  BY <1>6, CtxEndsStep
<1> QED BY <1>1, <1>2, <1>3, <1>4, <1>5, <1>6 DEF LimiterNext

\* A token a hedge takes is not one a waiter was promised: while a waiter's
\* token lies ahead the bucket is overdrawn.
LEMMA HedgeStep ==
  ASSUME LimiterInv, LimiterNext, hedges' # hedges, NEW r \in Callers
  PROVE  ~(wait[r] = "timer" /\ due[r] > now)
<1>1. TryAcquire
  BY DEF LimiterNext, Refill, Wait, Wake, CtxEnds
<1>2. tokens >= 1 /\ lastEvent <= now
  BY <1>1, Numbers DEF TryAcquire, Allow, Delay, LimiterInv, Curve, Level
<1>3. wait[r] = "timer" => due[r] \in 1..lastEvent
  BY DEF LimiterInv, Curve, Waiters
<1> QED BY <1>2, <1>3, Numbers DEF LimiterInv

-----------------------------------------------------------------------------
(* Theorems                                                                *)

\* LimiterInv holds in every state of the limiter.
THEOREM LimiterInvariant == LimiterSpec => []LimiterInv
<1> QED BY LimiterInitInv, LimiterNextInv, PTL DEF LimiterSpec

\* Whatever the callers of Wait and TryAcquire do, the bucket holds at most
\* Burst tokens and is overdrawn by at most one token per caller.
THEOREM LimiterTypes == LimiterSpec => []LimiterTypeOK
<1>1. LimiterInv => LimiterTypeOK
  BY DEF LimiterInv
<1> QED BY <1>1, LimiterInvariant, PTL

\* The carrier is promised at most Burst tokens plus one per tick in every
\* interval, for every interleaving of Wait, TryAcquire and cancelled waits.
THEOREM ArrivalCurve == LimiterSpec => []RateBound
<1>1. LimiterInv => RateBound
  BY DEF LimiterInv, Curve
<1> QED BY <1>1, LimiterInvariant, PTL

\* TryAcquire never takes a token while a Wait has to wait for one.
THEOREM HedgesYield == LimiterSpec => HedgeYieldsToWaiters
<1>1. LimiterInv /\ [LimiterNext]_limiterVars =>
        [hedges' # hedges =>
           \A r \in Callers : ~(wait[r] = "timer" /\ due[r] > now)]_limiterVars
  BY HedgeStep DEF limiterVars
<1> QED BY <1>1, LimiterInvariant, PTL DEF LimiterSpec, HedgeYieldsToWaiters
=============================================================================
