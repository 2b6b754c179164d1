---------------------------- MODULE FanOutProofs ----------------------------
(***************************************************************************)
(* Proofs about FanOut for any finite set of carriers and any choice of    *)
(* capable, registered and warm ones.                                      *)
(***************************************************************************)
EXTENDS FanOut, FiniteSetTheorems, TLAPS

PrimaryDone == {c \in eligible : pc[c] = "done"}
HedgeDone == {c \in eligible : hedgePc[c] = "done"}

\* How the goroutines' positions depend on each other.
Structure ==
  /\ phase = "start" => closer = "none" /\ eligible = {}
  /\ \A c \in Carriers \ eligible : pc[c] = "none" /\ hedgePc[c] = "none"
  /\ closer = "none" => eligible = {} /\ monitor = "none"
  /\ closer \in {"join", "done"} => \A c \in eligible : pc[c] = "done"
  /\ closer = "done" => monitor = "done"
  /\ monitor \in {"none", "done"} =>
       \A c \in eligible : hedgePc[c] \in {"none", "done"}
  /\ phase = "finish" => closer = "done"
  /\ phase = "returned" => closer \in {"none", "done"}

\* What the hedge monitor remembers about the hedges it fired.
Hedges ==
  /\ monitor = "fire" => /\ trigger \in eligible \ alreadyHedged
                         /\ candidate \in eligible
  /\ \A c \in Carriers : hedgePc[c] # "none" => /\ c \in alreadyHedged
                                               /\ hedgeTarget[c] \in eligible

\* Every result in the channel was sent by a goroutine that has finished.
Accounted ==
  Len(results) <= Cardinality(PrimaryDone) + Cardinality(HedgeDone)

IInv == TypeOK /\ Structure /\ Hedges /\ Accounted

-----------------------------------------------------------------------------
\* The invariant holds before fanOut starts.
LEMMA InitIInv == Init => IInv
<1> SUFFICES ASSUME Init PROVE IInv
  OBVIOUS
<1> USE CarrierAssumption DEF Init, None
<1>1. TypeOK
  <2>1. /\ results \in Seq(Quotes) /\ collected \in Seq(Quotes)
        /\ response \in Seq(Quotes)
    OBVIOUS
  <2>2. /\ pc \in [Carriers -> {"none", "get", "wait", "execute", "call",
                               "send", "done"}]
        /\ hedgePc \in [Carriers -> {"none", "call", "send", "done"}]
        /\ hedgeTarget \in [Carriers -> eligible \cup {None}]
    OBVIOUS
  <2> QED BY <2>1, <2>2 DEF TypeOK
<1>2. Structure
  BY DEF Structure
<1>3. Hedges
  BY DEF Hedges
<1>4. Accounted
  <2>1. PrimaryDone = {} /\ HedgeDone = {} /\ Len(results) = 0
    BY DEF PrimaryDone, HedgeDone
  <2> QED BY <2>1, FS_EmptySet DEF Accounted
<1> QED BY <1>1, <1>2, <1>3, <1>4 DEF IInv

\* Quotes put on the channel are well-formed.
LEMMA QuoteType ==
  ASSUME NEW c \in Carriers, NEW p \in Premiums
  PROVE  Quote(c, p) \in Quotes
BY DEF Quote, Quotes

\* What SortFunc returns: the same elements, each in one place, none after an
\* element it is Before.
LEMMA SortedFacts ==
  ASSUME NEW S, NEW s \in Seq(S), NEW r \in Sorted(s)
  PROVE  /\ r \in Seq(S) /\ DOMAIN r = DOMAIN s
         /\ \A i, j \in DOMAIN r : i < j => ~Before(r[j], r[i])
         /\ \E order \in [DOMAIN s -> DOMAIN s] :
              /\ \A i \in DOMAIN s : r[i] = s[order[i]]
              /\ \A i, j \in DOMAIN s : order[i] = order[j] => i = j
              /\ \A k \in DOMAIN s : \E i \in DOMAIN s : order[i] = k
<1>1. PICK order \in Bijection(DOMAIN s, DOMAIN s) :
        r = [i \in DOMAIN s |-> s[order[i]]]
  BY DEF Sorted
<1>2. /\ order \in [DOMAIN s -> DOMAIN s]
      /\ \A i, j \in DOMAIN s : order[i] = order[j] => i = j
      /\ \A k \in DOMAIN s : \E i \in DOMAIN s : order[i] = k
  BY DEF Bijection, Injection, Surjection, IsInjective
<1>3. /\ DOMAIN r = DOMAIN s
      /\ \A i \in DOMAIN s : r[i] = s[order[i]] /\ s[order[i]] \in S
  BY <1>1, <1>2
<1>4. r \in Seq(S)
  <2>1. DOMAIN s = 1..Len(s) /\ Len(s) \in Nat
    OBVIOUS
  <2> QED BY <1>1, <1>3, <2>1
<1>5. \A i, j \in DOMAIN r : i < j => ~Before(r[j], r[i])
  BY <1>3 DEF Sorted
<1> QED BY <1>2, <1>3, <1>4, <1>5

\* Everything Return leaves alone, whatever order it sorts into.
LEMMA ReturnFrame ==
  Return => /\ phase = "finish" /\ phase' = "returned"
            /\ UNCHANGED <<eligible, deadline, collected, groupVars, closer,
                           monitorVars, hedgeVars, channelVars>>
BY Zenon DEF Return

\* A send puts one more quote on the channel.
LEMMA AppendType ==
  ASSUME NEW s \in Seq(Quotes), NEW q \in Quotes
  PROVE  /\ Append(s, q) \in Seq(Quotes)
         /\ Len(Append(s, q)) = Len(s) + 1
OBVIOUS

\* Every step of the fan-out's goroutines keeps the types.
LEMMA TypeStep == IInv /\ [Next]_vars => TypeOK'
<1> SUFFICES ASSUME IInv, [Next]_vars PROVE TypeOK'
  OBVIOUS
<1> USE CarrierAssumption DEF IInv, TypeOK, fanOutVars, groupVars,
        monitorVars, hedgeVars, channelVars
<1>1. CASE Start
  BY <1>1 DEF Start, FilterEligible, Structure
<1>2. CASE DeadlineFires
  BY <1>2 DEF DeadlineFires
<1>3. ASSUME NEW c \in Carriers, GetAdapter(c) \/ LimiterWait(c)
      PROVE  TypeOK'
  <2>1. CASE GetAdapter(c)
    BY <2>1 DEF GetAdapter, Goes
  <2>2. CASE LimiterWait(c)
    <3>1. \E to \in {"execute", "done"} : pc' = [pc EXCEPT ![c] = to]
      BY <2>2 DEF LimiterWait, Goes
    <3> QED BY <2>2, <3>1 DEF LimiterWait
  <2> QED BY <1>3, <2>1, <2>2
<1>4. ASSUME NEW c \in Carriers, BreakerExecute(c) PROVE TypeOK'
  BY <1>4 DEF BreakerExecute, Goes
<1>5. ASSUME NEW c \in Carriers, CallReturns(c) PROVE TypeOK'
  <2>1. c \in eligible
    BY <1>5 DEF CallReturns, Goes, Structure
  <2>2. \E to \in {"send", "done"} : pc' = [pc EXCEPT ![c] = to]
    BY <1>5 DEF CallReturns, Goes
  <2>3. answered' \subseteq eligible
    BY <1>5, <2>1 DEF CallReturns
  <2> QED BY <1>5, <2>2, <2>3 DEF CallReturns
<1>6. ASSUME NEW c \in Carriers, Send(c) PROVE TypeOK'
  <2>1. results' \in Seq(Quotes) /\ first' \subseteq Quotes
    <3>1. CASE UNCHANGED channelVars
      BY <3>1
    <3>2. ASSUME NEW p \in Premiums, results' = Append(results, Quote(c, p)),
                 first' \subseteq first \cup {Quote(c, p)}
          PROVE  results' \in Seq(Quotes) /\ first' \subseteq Quotes
      <4>1. Quote(c, p) \in Quotes
        BY QuoteType
      <4> QED BY <3>2, <4>1, AppendType
    <3> QED BY <1>6, <3>1, <3>2 DEF Send, SelectSend
  <2> QED BY <1>6, <2>1 DEF Send, Goes
<1>7. ASSUME NEW c \in Carriers, HedgeReturns(c) PROVE TypeOK'
  BY <1>7 DEF HedgeReturns
<1>8. ASSUME NEW c \in Carriers, HedgeSend(c) PROVE TypeOK'
  <2>1. hedgeTarget[c] \in Carriers
    BY <1>8 DEF HedgeSend, Hedges
  <2>2. results' \in Seq(Quotes) /\ first' \subseteq Quotes
    <3>1. CASE UNCHANGED channelVars
      BY <3>1
    <3>2. ASSUME NEW p \in Premiums, results' = Append(results, Quote(hedgeTarget[c], p)),
                 first' \subseteq first \cup {Quote(hedgeTarget[c], p)}
          PROVE  results' \in Seq(Quotes) /\ first' \subseteq Quotes
      <4>1. Quote(hedgeTarget[c], p) \in Quotes
        BY <2>1, QuoteType
      <4> QED BY <3>2, <4>1, AppendType
    <3> QED BY <1>8, <3>1, <3>2 DEF HedgeSend, SelectSend
  <2> QED BY <1>8, <2>2 DEF HedgeSend
<1>9. CASE Closer
  BY <1>9 DEF Closer, CloserWait, CloserClose
<1>10. CASE MonitorTick \/ MonitorCancelled
  BY <1>10 DEF MonitorTick, MonitorCancelled
<1>11. ASSUME NEW x \in Carriers, MonitorVisit(x) PROVE TypeOK'
  BY <1>11 DEF MonitorVisit, Candidates
<1>12. CASE MonitorFire
  <2>1. trigger \in eligible /\ candidate \in eligible
    BY <1>12 DEF MonitorFire, Hedges
  <2>2. /\ alreadyHedged' \subseteq eligible
        /\ hedgePc' \in [Carriers -> {"none", "call", "send", "done"}]
    BY <1>12, <2>1 DEF MonitorFire
  <2>3. hedgeTarget' \in [Carriers -> eligible \cup {None}]
    BY <1>12, <2>1 DEF MonitorFire
  <2> QED BY <1>12, <2>2, <2>3 DEF MonitorFire
<1>13. CASE MonitorScanned \/ MonitorDrain
  BY <1>13 DEF MonitorScanned, MonitorDrain
<1>14. CASE Collect
  <2>1. Tail(results) \in Seq(Quotes) /\ Head(results) \in Quotes
    BY <1>14 DEF Collect
  <2> QED BY <1>14, <2>1 DEF Collect
<1>15. CASE CollectEnd \/ Return
  <2>1. response' \in Seq(Quotes)
    BY <1>15, SortedFacts DEF CollectEnd, Return
  <2> QED BY <1>15, <2>1, ReturnFrame DEF CollectEnd
<1>16. CASE Returned \/ UNCHANGED vars
  BY <1>16 DEF Returned, vars
<1> QED
  BY <1>1, <1>2, <1>3, <1>4, <1>5, <1>6, <1>7, <1>8, <1>9, <1>10, <1>11,
     <1>12, <1>13, <1>14, <1>15, <1>16 DEF Next, Primary, Monitor, Collector
-----------------------------------------------------------------------------
\* A primary's step changes only its own position, and not into or out of
\* "none"; it never leaves "done".
LEMMA PrimaryStep ==
  ASSUME IInv, NEW c \in Carriers, Primary(c) \/ CallReturns(c)
  PROVE  /\ c \in eligible /\ pc[c] # "done"
         /\ \A d \in Carriers : d # c => pc'[d] = pc[d]
         /\ pc'[c] # "none"
         /\ UNCHANGED <<phase, eligible, closer, monitorVars, hedgeVars>>
<1> USE DEF IInv, TypeOK, Goes, Structure, fanOutVars
<1>1. CASE GetAdapter(c) \/ LimiterWait(c)
  BY <1>1 DEF GetAdapter, LimiterWait
<1>2. CASE BreakerExecute(c)
  BY <1>2 DEF BreakerExecute
<1>3. CASE Send(c)
  BY <1>3 DEF Send
<1>4. CASE CallReturns(c)
  BY <1>4 DEF CallReturns
<1> QED BY <1>1, <1>2, <1>3, <1>4 DEF Primary

\* Every step keeps the goroutines' positions consistent.
LEMMA StructureStep == IInv /\ [Next]_vars => Structure'
<1> SUFFICES ASSUME IInv, [Next]_vars PROVE Structure'
  OBVIOUS
<1> USE CarrierAssumption DEF IInv, TypeOK, Structure, fanOutVars, groupVars,
        monitorVars, hedgeVars, channelVars
<1>1. CASE Start
  BY <1>1 DEF Start, FilterEligible
<1>2. CASE DeadlineFires
  BY <1>2 DEF DeadlineFires
<1>3. ASSUME NEW c \in Carriers, Primary(c) \/ CallReturns(c)
      PROVE  Structure'
  BY <1>3, PrimaryStep
<1>4. ASSUME NEW c \in Carriers, HedgeReturns(c) PROVE Structure'
  BY <1>4 DEF HedgeReturns
<1>5. ASSUME NEW c \in Carriers, HedgeSend(c) PROVE Structure'
  BY <1>5 DEF HedgeSend
<1>6. CASE Closer
  BY <1>6 DEF Closer, CloserWait, CloserClose
<1>7. CASE MonitorTick \/ MonitorCancelled
  BY <1>7 DEF MonitorTick, MonitorCancelled
<1>8. ASSUME NEW x \in Carriers, MonitorVisit(x) PROVE Structure'
  BY <1>8 DEF MonitorVisit
<1>9. CASE MonitorFire
  BY <1>9 DEF MonitorFire, Hedges
<1>10. CASE MonitorScanned \/ MonitorDrain
  BY <1>10 DEF MonitorScanned, MonitorDrain
<1>11. CASE Collector
  <2>1. CASE Collect
    BY <2>1 DEF Collect
  <2>2. CASE CollectEnd
    BY <2>2 DEF CollectEnd, Closed
  <2>3. CASE Return
    BY <2>3, ReturnFrame
  <2> QED BY <1>11, <2>1, <2>2, <2>3 DEF Collector
<1>12. CASE Returned \/ UNCHANGED vars
  BY <1>12 DEF Returned, vars
<1> QED
  BY <1>1, <1>2, <1>3, <1>4, <1>5, <1>6, <1>7, <1>8, <1>9, <1>10, <1>11,
     <1>12 DEF Next, Monitor

\* Every step keeps fired hedges remembered.
LEMMA HedgesStep == IInv /\ [Next]_vars => Hedges'
<1> SUFFICES ASSUME IInv, [Next]_vars PROVE Hedges'
  OBVIOUS
<1> USE CarrierAssumption DEF IInv, TypeOK, Hedges, fanOutVars, groupVars,
        monitorVars, hedgeVars, channelVars
<1>1. CASE Start
  BY <1>1 DEF Start, FilterEligible, Structure
<1>2. CASE DeadlineFires
  BY <1>2 DEF DeadlineFires
<1>3. ASSUME NEW c \in Carriers, Primary(c) \/ CallReturns(c)
      PROVE  Hedges'
  <2>1. UNCHANGED <<eligible, monitor, trigger, candidate, alreadyHedged,
                    hedgePc, hedgeTarget>>
    BY <1>3, PrimaryStep
  <2> QED BY <2>1
<1>4. ASSUME NEW c \in Carriers, HedgeReturns(c) PROVE Hedges'
  BY <1>4 DEF HedgeReturns
<1>5. ASSUME NEW c \in Carriers, HedgeSend(c) PROVE Hedges'
  BY <1>5 DEF HedgeSend
<1>6. CASE Closer
  BY <1>6 DEF Closer, CloserWait, CloserClose
<1>7. CASE MonitorTick \/ MonitorCancelled
  BY <1>7 DEF MonitorTick, MonitorCancelled
<1>8. ASSUME NEW x \in Carriers, MonitorVisit(x) PROVE Hedges'
  BY <1>8 DEF MonitorVisit, Candidates
<1>9. CASE MonitorFire
  BY <1>9 DEF MonitorFire
<1>10. CASE MonitorScanned \/ MonitorDrain
  BY <1>10 DEF MonitorScanned, MonitorDrain
<1>11. CASE Collector
  <2>1. CASE Collect
    BY <2>1 DEF Collect
  <2>2. CASE CollectEnd
    BY <2>2 DEF CollectEnd, Closed
  <2>3. CASE Return
    BY <2>3, ReturnFrame
  <2> QED BY <1>11, <2>1, <2>2, <2>3 DEF Collector
<1>12. CASE Returned \/ UNCHANGED vars
  BY <1>12 DEF Returned, vars
<1> QED
  BY <1>1, <1>2, <1>3, <1>4, <1>5, <1>6, <1>7, <1>8, <1>9, <1>10, <1>11,
     <1>12 DEF Next, Monitor
-----------------------------------------------------------------------------
\* The sets of finished goroutines are finite, and growing them by one
\* element, or by any, moves their cardinality accordingly.
LEMMA DoneFinite ==
  ASSUME TypeOK
  PROVE  /\ IsFiniteSet(eligible)
         /\ IsFiniteSet(PrimaryDone) /\ IsFiniteSet(HedgeDone)
         /\ Cardinality(PrimaryDone) \in Nat /\ Cardinality(HedgeDone) \in Nat
         /\ Cardinality(eligible) \in Nat
<1>1. IsFiniteSet(eligible)
  BY CarrierAssumption, FS_Subset DEF TypeOK
<1>2. IsFiniteSet(PrimaryDone) /\ IsFiniteSet(HedgeDone)
  BY <1>1, FS_Subset DEF PrimaryDone, HedgeDone
<1> QED BY <1>1, <1>2, FS_CardinalityType

\* A result enters the channel only as its sender finishes.
LEMMA AccountedStep == IInv /\ TypeOK' /\ [Next]_vars => Accounted'
<1> SUFFICES ASSUME IInv, TypeOK', [Next]_vars PROVE Accounted'
  OBVIOUS
<1> DEFINE P == Cardinality(PrimaryDone)
           H == Cardinality(HedgeDone)
<1>n. /\ P \in Nat /\ H \in Nat /\ P' \in Nat /\ H' \in Nat
      /\ IsFiniteSet(PrimaryDone) /\ IsFiniteSet(HedgeDone)
      /\ IsFiniteSet(PrimaryDone)' /\ IsFiniteSet(HedgeDone)'
  <2>1. /\ P \in Nat /\ H \in Nat
        /\ IsFiniteSet(PrimaryDone) /\ IsFiniteSet(HedgeDone)
    BY DoneFinite DEF IInv
  <2>2. /\ P' \in Nat /\ H' \in Nat
        /\ IsFiniteSet(PrimaryDone)' /\ IsFiniteSet(HedgeDone)'
    <3>1. IsFiniteSet(eligible')
      BY CarrierAssumption, FS_Subset DEF TypeOK
    <3>2. IsFiniteSet(PrimaryDone') /\ IsFiniteSet(HedgeDone')
      BY <3>1, FS_Subset DEF PrimaryDone, HedgeDone
    <3> QED BY <3>2, FS_CardinalityType
  <2> QED BY <2>1, <2>2
<1>l. /\ Len(results) \in Nat /\ Len(results') \in Nat
      /\ results \in Seq(Quotes) /\ Len(results) <= P + H
  BY DEF IInv, TypeOK, Accounted
<1> SUFFICES Len(results') <= P' + H'
  BY DEF Accounted
\* Steps that touch neither the channel nor the finished goroutines.
<1>f. ASSUME UNCHANGED <<eligible, pc, hedgePc, results>>
      PROVE  Len(results') <= P' + H'
  BY <1>f, <1>l DEF PrimaryDone, HedgeDone
<1>1. CASE Start
  <2>1. PrimaryDone = {} /\ HedgeDone = {}
    BY <1>1 DEF Start, FilterEligible, IInv, Structure, PrimaryDone, HedgeDone
  <2>2. Len(results) = 0
    BY <2>1, <1>l, FS_EmptySet
  <2> QED BY <1>1, <1>l, <1>n, <2>2 DEF Start, FilterEligible, channelVars
<1>2. ASSUME NEW c \in Carriers, Primary(c) \/ CallReturns(c), ~Send(c)
      PROVE  Len(results') <= P' + H'
  <2>1. UNCHANGED <<eligible, hedgePc, results>>
    BY <1>2, PrimaryStep DEF Primary, GetAdapter, LimiterWait, BreakerExecute,
                             CallReturns, hedgeVars, channelVars
  <2>2. PrimaryDone \subseteq PrimaryDone' /\ HedgeDone' = HedgeDone
    BY <1>2, <2>1, PrimaryStep DEF PrimaryDone, HedgeDone, IInv, TypeOK
  <2>3. P <= P' /\ H = H'
    BY <2>2, <1>n, FS_Subset
  <2> QED BY <1>l, <1>n, <2>1, <2>3
<1>3. ASSUME NEW c \in Carriers, Send(c) PROVE Len(results') <= P' + H'
  <2>1. /\ c \in eligible /\ pc[c] # "done"
        /\ UNCHANGED <<eligible, hedgePc>>
        /\ \A d \in Carriers : d # c => pc'[d] = pc[d]
    BY <1>3, PrimaryStep DEF Primary, hedgeVars
  <2>2. pc'[c] = "done"
    BY <1>3 DEF Send, Goes, IInv, TypeOK
  <2>3. PrimaryDone' = PrimaryDone \cup {c} /\ c \notin PrimaryDone
    BY <2>1, <2>2 DEF PrimaryDone, IInv, TypeOK
  <2>4. P' = P + 1
    BY <2>3, <1>n, FS_AddElement
  <2>5. H' = H
    BY <2>1 DEF HedgeDone
  <2>6. Len(results') <= Len(results) + 1
    <3>1. ASSUME NEW p \in Premiums,
                 results' = Append(results, Quote(c, p))
          PROVE  Len(results') = Len(results) + 1
      <4>1. Quote(c, p) \in Quotes
        BY QuoteType
      <4> QED BY <1>l, <3>1, <4>1, AppendType
    <3>2. \/ \E p \in Premiums :
               results' = Append(results, Quote(c, p))
          \/ results' = results
      BY <1>3 DEF Send, SelectSend, channelVars
    <3>3. Len(results') = Len(results) + 1 \/ results' = results
      BY <3>1, <3>2, Zenon
    <3> QED BY <1>l, <3>3
  <2> QED BY <1>l, <1>n, <2>4, <2>5, <2>6
<1>4. ASSUME NEW c \in Carriers, HedgeReturns(c)
      PROVE  Len(results') <= P' + H'
  <2>1. UNCHANGED <<eligible, pc, results>>
    BY <1>4 DEF HedgeReturns, fanOutVars, groupVars, channelVars
  <2>2. HedgeDone \subseteq HedgeDone'
    BY <1>4, <2>1 DEF HedgeReturns, HedgeDone, IInv, TypeOK
  <2>3. P' = P
    BY <2>1 DEF PrimaryDone
  <2>4. H <= H'
    BY <2>2, <1>n, FS_Subset
  <2> QED BY <1>l, <1>n, <2>1, <2>3, <2>4
<1>5. ASSUME NEW c \in Carriers, HedgeSend(c) PROVE Len(results') <= P' + H'
  <2>1. UNCHANGED <<eligible, pc>>
    BY <1>5 DEF HedgeSend, fanOutVars, groupVars, channelVars
  <2>2. c \in eligible /\ hedgeTarget[c] \in Carriers
    BY <1>5 DEF HedgeSend, IInv, Structure, Hedges, TypeOK
  <2>3. HedgeDone' = HedgeDone \cup {c} /\ c \notin HedgeDone
    BY <1>5, <2>1, <2>2 DEF HedgeSend, HedgeDone, IInv, TypeOK
  <2>4. H' = H + 1
    BY <2>3, <1>n, FS_AddElement
  <2>5. P' = P
    BY <2>1 DEF PrimaryDone
  <2>6. Len(results') <= Len(results) + 1
    <3>1. ASSUME NEW p \in Premiums,
                 results' = Append(results,
                                   Quote(hedgeTarget[c], p))
          PROVE  Len(results') = Len(results) + 1
      <4>1. Quote(hedgeTarget[c], p) \in Quotes
        BY <2>2, QuoteType
      <4> QED BY <1>l, <3>1, <4>1, AppendType
    <3>2. \/ \E p \in Premiums :
               results' = Append(results,
                                 Quote(hedgeTarget[c], p))
          \/ results' = results
      BY <1>5 DEF HedgeSend, SelectSend, channelVars
    <3>3. Len(results') = Len(results) + 1 \/ results' = results
      BY <3>1, <3>2, Zenon
    <3> QED BY <1>l, <3>3
  <2> QED BY <1>l, <1>n, <2>4, <2>5, <2>6
<1>6. CASE MonitorFire
  <2>1. UNCHANGED <<eligible, pc, results>>
    BY <1>6 DEF MonitorFire, fanOutVars, groupVars, channelVars
  <2>2. trigger \in Carriers /\ hedgePc[trigger] = "none"
    BY <1>6 DEF MonitorFire, IInv, Hedges, TypeOK
  <2>3. HedgeDone' = HedgeDone
    BY <1>6, <2>1, <2>2 DEF MonitorFire, HedgeDone, IInv, TypeOK, hedgeVars
  <2> QED BY <1>l, <2>1, <2>3 DEF PrimaryDone
<1>7. CASE Collect
  <2>1. UNCHANGED <<eligible, pc, hedgePc>>
    BY <1>7 DEF Collect, groupVars, hedgeVars
  <2>2. Len(results') <= Len(results)
    BY <1>7, <1>l DEF Collect
  <2>3. P' = P /\ H' = H
    BY <2>1 DEF PrimaryDone, HedgeDone
  <2> QED BY <1>l, <1>n, <2>2, <2>3
<1>8. CASE DeadlineFires \/ Closer \/ CollectEnd \/ Return
  BY <1>8, <1>f, ReturnFrame DEF DeadlineFires, Closer, CloserWait, CloserClose,
     CollectEnd, fanOutVars, groupVars, hedgeVars, channelVars
<1>9. CASE MonitorTick \/ MonitorCancelled \/ MonitorScanned \/ MonitorDrain
  BY <1>9, <1>f DEF MonitorTick, MonitorCancelled, MonitorScanned,
     MonitorDrain, fanOutVars, groupVars, hedgeVars, channelVars
<1>10. ASSUME NEW x \in Carriers, MonitorVisit(x)
       PROVE  Len(results') <= P' + H'
  BY <1>10, <1>f DEF MonitorVisit, fanOutVars, groupVars, hedgeVars, channelVars
<1>11. CASE Returned \/ UNCHANGED vars
  BY <1>11, <1>f DEF Returned, vars, fanOutVars, groupVars, hedgeVars, channelVars
<1> QED
  BY <1>1, <1>2, <1>3, <1>4, <1>5, <1>6, <1>7, <1>8, <1>9, <1>10, <1>11
  DEF Next, Monitor, Collector

\* The inductive invariant holds in every state of fanOut.
LEMMA Invariance == Spec => []IInv
<1>1. IInv /\ [Next]_vars => IInv'
  BY TypeStep, StructureStep, HedgesStep, AccountedStep DEF IInv
<1> QED BY <1>1, InitIInv, PTL DEF Spec
-----------------------------------------------------------------------------
\* Type correctness of everything fanOut's goroutines share.
THEOREM FanOutTypes == Spec => []TypeOK
<1>1. IInv => TypeOK
  BY DEF IInv
<1> QED BY <1>1, Invariance, PTL

\* For any number of carriers and any interleaving, close(results) finds no
\* goroutine that could still send, and fanOut leaves none behind.
THEOREM NoGoroutineLeak == Spec => []NothingOutlivesFanOut
<1>1. IInv => NothingOutlivesFanOut
  BY DEF IInv, TypeOK, Structure, NothingOutlivesFanOut, Closed, Quiet
<1> QED BY <1>1, Invariance, PTL

\* For any number of carriers the channel's buffer has room for every sender.
THEOREM BufferSuffices == Spec => []SenderNeverBlocks
<1>1. ASSUME IInv, NEW c \in Carriers,
             pc[c] = "send" \/ hedgePc[c] = "send"
      PROVE  Len(results) < ChannelCapacity
  <2>1. c \in eligible
    BY <1>1 DEF IInv, Structure
  <2>2. c \notin PrimaryDone \/ c \notin HedgeDone
    BY <1>1 DEF PrimaryDone, HedgeDone
  <2>3. /\ Cardinality(PrimaryDone) <= Cardinality(eligible)
        /\ Cardinality(HedgeDone) <= Cardinality(eligible)
    BY <1>1, DoneFinite, FS_Subset DEF PrimaryDone, HedgeDone, IInv
  <2>4. \/ Cardinality(PrimaryDone) < Cardinality(eligible)
        \/ Cardinality(HedgeDone) < Cardinality(eligible)
    BY <1>1, <2>1, <2>2, DoneFinite, FS_Subset DEF PrimaryDone, HedgeDone, IInv
  <2>5. Len(results) <= Cardinality(PrimaryDone) + Cardinality(HedgeDone)
    BY <1>1 DEF IInv, Accounted
  <2>6. Len(results) \in Nat
    BY <1>1 DEF IInv, TypeOK
  <2> QED BY <1>1, <2>3, <2>4, <2>5, <2>6, DoneFinite DEF ChannelCapacity, IInv
<1>2. IInv => SenderNeverBlocks
  BY <1>1 DEF SenderNeverBlocks
<1> QED BY <1>2, Invariance, PTL

\* For any number of carriers, a slot that was hedged is never hedged again.
THEOREM HedgedOnce == Spec => OneHedgePerSlot
<1> DEFINE Once == \A x \in Carriers :
             hedgePc[x] # "none" =>
               /\ hedgePc'[x] = "call" => hedgePc[x] = "call"
               /\ UNCHANGED hedgeTarget[x]
<1>1. IInv /\ [Next]_vars => [Once]_vars
  <2> SUFFICES ASSUME IInv, Next PROVE Once
    OBVIOUS
  <2> USE DEF IInv, TypeOK, hedgeVars
  <2>1. CASE UNCHANGED hedgeVars
    BY <2>1
  <2>2. ASSUME NEW c \in Carriers, HedgeReturns(c) \/ HedgeSend(c) PROVE Once
    BY <2>2 DEF HedgeReturns, HedgeSend
  <2>3. CASE MonitorFire
    BY <2>3 DEF MonitorFire, Hedges
  <2>4. ASSUME NEW c \in Carriers, Primary(c) \/ CallReturns(c)
        PROVE  UNCHANGED hedgeVars
    BY <2>4, PrimaryStep
  <2>5. ASSUME NEW x \in Carriers, MonitorVisit(x) PROVE UNCHANGED hedgeVars
    BY <2>5 DEF MonitorVisit
  <2>6. CASE \/ MonitorTick \/ MonitorCancelled \/ MonitorScanned
             \/ MonitorDrain \/ Closer
    BY <2>6, <2>1 DEF MonitorTick, MonitorCancelled, MonitorScanned,
       MonitorDrain, Closer, CloserWait, CloserClose
  <2>7. CASE Start \/ DeadlineFires \/ Collector \/ Returned
    BY <2>7, <2>1, ReturnFrame DEF Start, DeadlineFires, Collector, Collect,
       CollectEnd, Returned, vars
  <2> QED BY <2>1, <2>2, <2>3, <2>4, <2>5, <2>6, <2>7 DEF Next, Monitor
<1> QED BY <1>1, Invariance, PTL DEF Spec, OneHedgePerSlot

-----------------------------------------------------------------------------
Offers == [carrier : Capable, premium : Premiums]

\* Quotes come from capable carriers, and the collector keeps one per carrier.
Kept ==
  /\ eligible \subseteq Capable
  /\ results \in Seq(Offers)
  /\ collected \in Seq(Offers)
  /\ phase = "start" => collected = <<>>
  /\ \A i, j \in DOMAIN collected :
       collected[i].carrier = collected[j].carrier => i = j

\* What most goroutines leave alone.
Frame == UNCHANGED <<phase, eligible, collected, response>>

\* Only fanOut itself moves phase, eligible, collected and response.
LEMMA OthersFrame ==
  ASSUME [Next]_vars, ~Start, ~Collector
  PROVE  Frame
<1> USE DEF Frame, fanOutVars
<1>1. ASSUME NEW c \in Carriers, Primary(c) PROVE Frame
  BY <1>1 DEF Primary, GetAdapter, LimiterWait, BreakerExecute, Send
<1>2. ASSUME NEW c \in Carriers, CallReturns(c) PROVE Frame
  BY <1>2 DEF CallReturns
<1>3. ASSUME NEW c \in Carriers, HedgeReturns(c) \/ HedgeSend(c) PROVE Frame
  BY <1>3 DEF HedgeReturns, HedgeSend
<1>4. CASE Closer
  BY <1>4 DEF Closer, CloserWait, CloserClose
<1>5. ASSUME NEW x \in Carriers, MonitorVisit(x) PROVE Frame
  BY <1>5 DEF MonitorVisit
<1>6. CASE \/ MonitorTick \/ MonitorCancelled \/ MonitorFire
           \/ MonitorScanned \/ MonitorDrain
  BY <1>6 DEF MonitorTick, MonitorCancelled, MonitorFire, MonitorScanned,
     MonitorDrain
<1>7. CASE DeadlineFires \/ Returned \/ UNCHANGED vars
  BY <1>7 DEF DeadlineFires, Returned, vars
<1> QED
  BY <1>1, <1>2, <1>3, <1>4, <1>5, <1>6, <1>7 DEF Next, Monitor

\* What is sent is an offer of a capable carrier.
LEMMA SendsOffers ==
  ASSUME IInv, Kept, [Next]_vars, ~Collector
  PROVE  results' \in Seq(Offers)
<1> USE DEF channelVars
<1>1. ASSUME NEW c \in eligible, NEW p \in Premiums,
             results' = Append(results, Quote(c, p))
      PROVE  results' \in Seq(Offers)
  <2>1. Quote(c, p) \in Offers
    BY DEF Quote, Offers, Kept
  <2> QED BY <1>1, <2>1 DEF Kept
<1>2. CASE UNCHANGED results
  BY <1>2 DEF Kept
<1>3. ASSUME NEW c \in Carriers, Primary(c) PROVE results' \in Seq(Offers)
  <2>1. c \in eligible
    BY <1>3, PrimaryStep
  <2>2. CASE Send(c)
    BY <2>1, <2>2, <1>1, <1>2 DEF Send, SelectSend, channelVars
  <2> QED
    BY <1>2, <1>3, <2>2 DEF Primary, GetAdapter, LimiterWait, BreakerExecute
<1>4. ASSUME NEW c \in Carriers, HedgeSend(c) PROVE results' \in Seq(Offers)
  <2>1. hedgeTarget[c] \in eligible
    BY <1>4 DEF HedgeSend, IInv, Hedges
  <2> QED BY <1>1, <1>2, <1>4, <2>1 DEF HedgeSend, SelectSend, channelVars
<1>5. ASSUME NEW c \in Carriers,
             CallReturns(c) \/ HedgeReturns(c) \/ MonitorVisit(c)
      PROVE  UNCHANGED results
  BY <1>5 DEF CallReturns, HedgeReturns, MonitorVisit
<1>6. CASE \/ MonitorTick \/ MonitorCancelled \/ MonitorFire
           \/ MonitorScanned \/ MonitorDrain \/ Closer
  BY <1>2, <1>6 DEF MonitorTick, MonitorCancelled, MonitorFire,
     MonitorScanned, MonitorDrain, Closer, CloserWait, CloserClose
<1>7. CASE Start \/ DeadlineFires \/ Returned \/ UNCHANGED vars
  BY <1>2, <1>7 DEF Start, DeadlineFires, Returned, vars
<1> QED
  BY <1>2, <1>3, <1>4, <1>5, <1>6, <1>7 DEF Next, Monitor

\* Every step keeps the collected quotes unique.
LEMMA KeptStep == IInv /\ Kept /\ [Next]_vars => Kept'
<1> SUFFICES ASSUME IInv, Kept, [Next]_vars PROVE Kept'
  OBVIOUS
<1>1. CASE Start
  BY <1>1, SendsOffers, ReturnFrame DEF Start, FilterEligible, Kept, Collector,
     Collect, CollectEnd
<1>2. CASE Collect
  <2>1. /\ Tail(results) \in Seq(Offers) /\ Head(results) \in Offers
        /\ UNCHANGED <<phase, eligible>> /\ phase # "start"
    BY <1>2 DEF Collect, Kept
  <2>2. CASE Head(results).carrier \in Seen
    BY <1>2, <2>1, <2>2 DEF Collect, Kept
  <2>3. CASE Head(results).carrier \notin Seen
    <3>1. collected' = Append(collected, Head(results))
      BY <1>2, <2>3 DEF Collect
    <3>2. \A i \in DOMAIN collected :
            collected[i].carrier # Head(results).carrier
      BY <2>3 DEF Seen
    <3>3. /\ collected' \in Seq(Offers)
          /\ \A i, j \in DOMAIN collected' :
               collected'[i].carrier = collected'[j].carrier => i = j
      BY <2>1, <3>1, <3>2 DEF Kept
    <3> QED BY <1>2, <2>1, <3>3 DEF Collect, Kept
  <2> QED BY <2>2, <2>3
<1>3. CASE CollectEnd \/ Return
  BY <1>3, ReturnFrame DEF CollectEnd, Kept, channelVars
<1>4. CASE ~Start /\ ~Collector
  BY <1>4, OthersFrame, SendsOffers DEF Frame, Kept
<1> QED BY <1>1, <1>2, <1>3, <1>4 DEF Collector

\* The response is set by the return only, sorted, one quote per carrier, and
\* consists of exactly the quotes that were collected.
Responded ==
  /\ phase # "returned" => response = <<>>
  /\ response \in Seq(Offers)
  /\ ResponseSortedUnique
  /\ phase = "returned" => Range(response) = Range(collected)

\* Sorting what was collected gives a response.
LEMMA ReturnSorts ==
  ASSUME Kept, Return
  PROVE  Responded'
<1> USE CarrierAssumption
<1>1. /\ collected \in Seq(Offers) /\ response' \in Sorted(collected)
      /\ phase' = "returned" /\ UNCHANGED collected
  BY ReturnFrame DEF Kept, Return
<1>2. /\ response' \in Seq(Offers) /\ DOMAIN response' = DOMAIN collected
      /\ \A i, j \in DOMAIN response' :
           i < j => ~Before(response'[j], response'[i])
  BY <1>1, SortedFacts
<1>3. PICK order \in [DOMAIN collected -> DOMAIN collected] :
        /\ \A i \in DOMAIN collected : response'[i] = collected[order[i]]
        /\ \A i, j \in DOMAIN collected : order[i] = order[j] => i = j
        /\ \A k \in DOMAIN collected : \E i \in DOMAIN collected : order[i] = k
  BY <1>1, SortedFacts
<1>4. ResponseSortedUnique'
  <2> SUFFICES ASSUME NEW i \in DOMAIN response', NEW j \in DOMAIN response',
                      i < j
               PROVE  /\ Before(response'[i], response'[j])
                      /\ response'[i].carrier # response'[j].carrier
    BY DEF ResponseSortedUnique
  <2>1. i \in Int /\ j \in Int /\ i # j
    BY <1>2
  <2>2. response'[i].carrier # response'[j].carrier
    <3>1. /\ order[i] \in DOMAIN collected /\ order[j] \in DOMAIN collected
          /\ order[i] # order[j]
          /\ response'[i] = collected[order[i]]
          /\ response'[j] = collected[order[j]]
      BY <1>2, <1>3, <2>1
    <3>2. \A k, m \in DOMAIN collected :
            collected[k].carrier = collected[m].carrier => k = m
      BY DEF Kept
    <3> QED BY <3>1, <3>2
  <2>3. ~Before(response'[j], response'[i])
    BY <1>2
  <2>4. /\ response'[i].carrier \in Nat /\ response'[j].carrier \in Nat
        /\ response'[i].premium \in Nat /\ response'[j].premium \in Nat
    <3>1. response'[i] \in Offers /\ response'[j] \in Offers
      BY <1>2
    <3>2. \A q \in Offers : q.carrier \in Nat /\ q.premium \in Nat
      BY DEF Offers
    <3> QED BY <3>1, <3>2
  <2> QED BY <2>2, <2>3, <2>4 DEF Before
<1>5. Range(response') = Range(collected')
  <2>1. ASSUME NEW k \in DOMAIN collected
        PROVE  \E i \in DOMAIN response' : response'[i] = collected[k]
    <3>1. PICK i \in DOMAIN collected : order[i] = k
      BY <1>3
    <3> QED BY <1>2, <1>3, <3>1
  <2>2. ASSUME NEW i \in DOMAIN response'
        PROVE  \E k \in DOMAIN collected : response'[i] = collected[k]
    BY <1>2, <1>3
  <2> QED BY <1>1, <2>1, <2>2 DEF Range
<1> QED BY <1>1, <1>2, <1>4, <1>5 DEF Responded

\* Every step keeps the response sorted and complete.
LEMMA RespondedStep == Kept /\ Responded /\ [Next]_vars => Responded'
<1> SUFFICES ASSUME Kept, Responded, [Next]_vars PROVE Responded'
  OBVIOUS
<1>1. CASE Start
  <2>1. /\ collected = <<>> /\ UNCHANGED <<collected, response>>
        /\ response = <<>>
    BY <1>1 DEF Start, Kept, Responded
  <2> QED BY <2>1 DEF Responded, Range, ResponseSortedUnique
<1>2. CASE Collect \/ CollectEnd
  <2>1. phase' # "returned" /\ phase # "returned" /\ UNCHANGED response
    BY <1>2 DEF Collect, CollectEnd
  <2> QED BY <2>1 DEF Responded, ResponseSortedUnique
<1>3. CASE Return
  BY <1>3, ReturnSorts
<1>4. CASE ~Start /\ ~Collector
  BY <1>4, OthersFrame DEF Frame, Responded, ResponseSortedUnique, Range
<1> QED BY <1>1, <1>2, <1>3, <1>4 DEF Collector

\* Every step of fanOut is a Return of the contract or none of its business.
LEMMA ReturnsOffers ==
  ASSUME Responded, Responded', [Next]_vars
  PROVE  [Contract!Return]_(Contract!vars)
<1>1. /\ {response'[i] : i \in DOMAIN response'} \subseteq Offers
      /\ \A p, q \in {response'[i] : i \in DOMAIN response'} :
           p.carrier = q.carrier => p = q
  <2>1. DOMAIN response' \subseteq Int
    BY DEF Responded
  <2>2. \A i, j \in DOMAIN response' :
          response'[i].carrier = response'[j].carrier => i = j
    BY <2>1 DEF Responded, ResponseSortedUnique
  <2> QED BY <2>2 DEF Responded
<1>2. ASSUME phase # "returned", phase' = "returned"
      PROVE  Contract!Return
  BY <1>1, <1>2 DEF Contract!Return, Offers
<1>3. ASSUME phase # "returned", phase' # "returned"
      PROVE  UNCHANGED Contract!vars
  BY <1>3 DEF Contract!vars, Responded
<1>4. ASSUME Frame PROVE UNCHANGED Contract!vars
  BY <1>4 DEF Contract!vars, Frame
<1>5. CASE Start \/ Collector
  BY <1>2, <1>3, <1>5 DEF Start, Collector, Collect, CollectEnd, Return
<1> QED BY <1>4, <1>5, OthersFrame

\* Kept and Responded hold in every state of fanOut.
LEMMA ResponseInvariance == Spec => [](Kept /\ Responded)
<1>1. Init => Kept /\ Responded
  <2> SUFFICES ASSUME Init PROVE Kept /\ Responded
    OBVIOUS
  <2>1. /\ results \in Seq(Offers) /\ collected \in Seq(Offers)
        /\ response \in Seq(Offers) /\ DOMAIN collected = {}
        /\ DOMAIN response = {}
    BY DEF Init
  <2> QED BY <2>1 DEF Init, Kept, Responded, ResponseSortedUnique
<1>2. IInv /\ Kept /\ Responded /\ [Next]_vars => (Kept /\ Responded)'
  BY KeptStep, RespondedStep
<1> QED BY <1>1, <1>2, Invariance, PTL DEF Spec

\* For any set of carriers and any interleaving of primaries and hedges, fanOut
\* implements FanOutContract: one return, at most one quote per carrier, and
\* only carriers that offer a requested line.
THEOREM FanOutRefinement == Spec => ImplementsContract
<1>1. Init => Contract!Init
  BY DEF Init, Contract!Init
<1> QED
  BY <1>1, ResponseInvariance, ReturnsOffers, PTL
  DEF Spec, ImplementsContract, Contract!Spec

\* Whatever order SortFunc leaves equal elements in, the response is strictly
\* ordered by premium and carrier, with one quote per carrier.
THEOREM ResponseOrdered == Spec => []ResponseSortedUnique
<1>1. Responded => ResponseSortedUnique
  BY DEF Responded
<1> QED BY <1>1, ResponseInvariance, PTL
-----------------------------------------------------------------------------
\* Which quotes were the first of their carrier: the collected ones, and those
\* in the channel that the collector will meet before another of the carrier.
Firsts ==
  /\ \A p, q \in first : p.carrier = q.carrier => p = q
  /\ Range(collected) \subseteq first
  /\ \A i \in DOMAIN results : \E f \in first : f.carrier = results[i].carrier
  /\ \A f \in first :
       \/ f.carrier \in Seen
       \/ \E i \in DOMAIN results :
            /\ results[i] = f
            /\ \A j \in 1..(i - 1) : results[j].carrier # f.carrier

\* A quote a primary returned is, until the deadline, on its way to the channel
\* or past it; the errgroup's context ends only after all primaries are done,
\* and the loop over the channel only after it is drained.
Tracked ==
  /\ ~deadline =>
       \A c \in answered : pc[c] = "send" \/ \E f \in first : f.carrier = c
  /\ groupDone => closer \in {"join", "done"}
  /\ phase \in {"start", "finish", "returned"} => results = <<>>
  /\ phase = "start" => answered = {}

\* A send puts a quote behind those that are waiting.
LEMMA FirstsSend ==
  ASSUME TypeOK, Firsts, NEW q \in Quotes, UNCHANGED collected,
         results' = Append(results, q),
         first' = IF \E f \in first : f.carrier = q.carrier THEN first
                  ELSE first \cup {q}
  PROVE  Firsts'
<1>1. /\ DOMAIN results = 1..Len(results) /\ Len(results) \in Nat
      /\ DOMAIN results' = 1..(Len(results) + 1)
      /\ \A i \in 1..Len(results) : results'[i] = results[i]
      /\ results'[Len(results) + 1] = q
  BY DEF TypeOK
<1>2. Seen' = Seen /\ Range(collected') = Range(collected)
  BY DEF Seen, Range
<1>3. first \subseteq first' /\ \E f \in first' : f.carrier = q.carrier
  OBVIOUS
<1>4. \A p, r \in first' : p.carrier = r.carrier => p = r
  BY DEF Firsts
<1>5. \A i \in DOMAIN results' : \E f \in first' : f.carrier = results'[i].carrier
  BY <1>1, <1>3 DEF Firsts
<1>6. ASSUME NEW f \in first'
      PROVE  \/ f.carrier \in Seen
             \/ \E i \in DOMAIN results' :
                  /\ results'[i] = f
                  /\ \A j \in 1..(i - 1) : results'[j].carrier # f.carrier
  <2>1. CASE f \in first
    BY <1>1, <2>1 DEF Firsts
  <2>2. CASE f \notin first
    <3>1. f = q /\ \A g \in first : g.carrier # q.carrier
      BY <2>2
    <3>2. \A j \in 1..Len(results) : results'[j].carrier # f.carrier
      BY <1>1, <3>1 DEF Firsts
    <3> QED BY <1>1, <3>1, <3>2
  <2> QED BY <2>1, <2>2
<1> QED BY <1>2, <1>3, <1>4, <1>5, <1>6 DEF Firsts

\* The collector keeps the first quote of each carrier.
LEMMA FirstsReceive ==
  ASSUME TypeOK, Firsts, Collect
  PROVE  Firsts'
<1> DEFINE h == Head(results)
<1>1. /\ collected \in Seq(Quotes) /\ UNCHANGED first
      /\ collected' = IF h.carrier \in Seen THEN collected
                      ELSE Append(collected, h)
  BY DEF Collect, TypeOK
<1>2. /\ DOMAIN results = 1..Len(results) /\ Len(results) \in Nat
      /\ Len(results) > 0 /\ h = results[1]
      /\ DOMAIN results' = 1..(Len(results) - 1)
      /\ \A i \in 1..(Len(results) - 1) : results'[i] = results[i + 1]
  BY DEF Collect, TypeOK
<1>3. h.carrier \notin Seen => h \in first
  <2> SUFFICES ASSUME h.carrier \notin Seen PROVE h \in first
    OBVIOUS
  <2>1. PICK f \in first : f.carrier = h.carrier
    BY <1>2 DEF Firsts
  <2>2. PICK i \in DOMAIN results :
          /\ results[i] = f
          /\ \A j \in 1..(i - 1) : results[j].carrier # f.carrier
    BY <2>1 DEF Firsts
  <2>3. i = 1
    BY <1>2, <2>1, <2>2
  <2> QED BY <1>2, <2>2, <2>3
<1>4. /\ Range(collected') \subseteq first
      /\ Seen' = Seen \cup {h.carrier}
  <2>1. CASE h.carrier \in Seen
    BY <1>1, <2>1 DEF Firsts, Seen, Range
  <2>2. CASE h.carrier \notin Seen
    <3>1. /\ DOMAIN collected = 1..Len(collected) /\ Len(collected) \in Nat
          /\ DOMAIN collected' = 1..(Len(collected) + 1)
          /\ \A i \in 1..Len(collected) : collected'[i] = collected[i]
          /\ collected'[Len(collected) + 1] = h
      BY <1>1, <2>2
    <3>2. Range(collected') = Range(collected) \cup {h}
      BY <3>1 DEF Range
    <3>3. Seen' = Seen \cup {h.carrier}
      BY <3>1 DEF Seen
    <3> QED BY <1>3, <2>2, <3>2, <3>3 DEF Firsts
  <2> QED BY <2>1, <2>2
<1>5. \A i \in DOMAIN results' :
        \E f \in first : f.carrier = results'[i].carrier
  BY <1>2 DEF Firsts
<1>6. ASSUME NEW f \in first
      PROVE  \/ f.carrier \in Seen'
             \/ \E i \in DOMAIN results' :
                  /\ results'[i] = f
                  /\ \A j \in 1..(i - 1) : results'[j].carrier # f.carrier
  <2>1. CASE f.carrier \in Seen \cup {h.carrier}
    BY <1>4, <2>1
  <2>2. CASE f.carrier \notin Seen \cup {h.carrier}
    <3>1. PICK i \in DOMAIN results :
            /\ results[i] = f
            /\ \A j \in 1..(i - 1) : results[j].carrier # f.carrier
      BY <2>2 DEF Firsts
    <3>2. i - 1 \in DOMAIN results' /\ results'[i - 1] = f
      BY <1>2, <2>2, <3>1
    <3>3. \A j \in 1..((i - 1) - 1) : results'[j].carrier # f.carrier
      BY <1>2, <3>1
    <3> QED BY <3>2, <3>3
  <2> QED BY <2>1, <2>2
<1> QED BY <1>1, <1>4, <1>5, <1>6 DEF Firsts

\* Every step but a send and a receive leaves the channel's quotes alone.
LEMMA FirstsStep == IInv /\ Firsts /\ [Next]_vars => Firsts'
<1> SUFFICES ASSUME IInv, Firsts, [Next]_vars PROVE Firsts'
  OBVIOUS
<1> USE DEF channelVars
<1>f. ASSUME UNCHANGED <<results, first, collected>> PROVE Firsts'
  BY <1>f DEF Firsts, Seen, Range
<1>1. ASSUME NEW q \in Quotes, SelectSend(q), UNCHANGED collected
      PROVE  Firsts'
  <2>1. CASE UNCHANGED channelVars
    BY <1>1, <1>f, <2>1
  <2>2. CASE ~UNCHANGED channelVars
    BY <1>1, <2>2, FirstsSend DEF SelectSend, IInv
  <2> QED BY <2>1, <2>2
<1>2. ASSUME NEW c \in Carriers, Send(c) PROVE Firsts'
  BY <1>1, <1>2, QuoteType DEF Send, fanOutVars
<1>3. ASSUME NEW c \in Carriers, HedgeSend(c) PROVE Firsts'
  <2>1. hedgeTarget[c] \in Carriers /\ UNCHANGED collected
    BY <1>3 DEF HedgeSend, IInv, Hedges, TypeOK, fanOutVars
  <2> QED BY <1>1, <1>3, <2>1, QuoteType DEF HedgeSend
<1>4. CASE Collect
  BY <1>4, FirstsReceive DEF IInv
<1>5. ASSUME NEW c \in Carriers,
             \/ GetAdapter(c) \/ LimiterWait(c) \/ BreakerExecute(c)
             \/ CallReturns(c) \/ HedgeReturns(c) \/ MonitorVisit(c)
      PROVE  Firsts'
  BY <1>5, <1>f DEF GetAdapter, LimiterWait, BreakerExecute, CallReturns,
     HedgeReturns, MonitorVisit, fanOutVars
<1>6. CASE \/ MonitorTick \/ MonitorCancelled \/ MonitorFire
           \/ MonitorScanned \/ MonitorDrain \/ Closer
  BY <1>6, <1>f DEF MonitorTick, MonitorCancelled, MonitorFire,
     MonitorScanned, MonitorDrain, Closer, CloserWait, CloserClose, fanOutVars
<1>7. CASE \/ Start \/ DeadlineFires \/ CollectEnd \/ Return \/ Returned
           \/ UNCHANGED vars
  BY <1>7, <1>f, ReturnFrame DEF Start, DeadlineFires, CollectEnd, Returned,
     vars, fanOutVars
<1> QED
  BY <1>2, <1>3, <1>4, <1>5, <1>6, <1>7 DEF Next, Primary, Monitor, Collector

\* Steps that leave the first quotes, the channel and the primaries alone.
LEMMA TrackedFrame ==
  ASSUME Tracked, UNCHANGED <<phase, pc, answered, groupDone, closer, results,
                              first>>,
         deadline => deadline'
  PROVE  Tracked'
BY DEF Tracked

\* Every step keeps track of the quotes the primaries returned.
LEMMA TrackedStep == IInv /\ Tracked /\ [Next]_vars => Tracked'
<1> SUFFICES ASSUME IInv, Tracked, [Next]_vars PROVE Tracked'
  OBVIOUS
<1> USE DEF fanOutVars, groupVars, hedgeVars, channelVars
<1>1. CASE Start
  <2>1. /\ results = <<>> /\ answered = {} /\ closer = "none" /\ ~groupDone
        /\ UNCHANGED <<results, answered, groupDone>>
    BY <1>1 DEF Start, Tracked, IInv, Structure
  <2> QED BY <2>1 DEF Tracked
<1>2. CASE DeadlineFires
  BY <1>2, TrackedFrame DEF DeadlineFires
<1>3. ASSUME NEW c \in Carriers,
             GetAdapter(c) \/ LimiterWait(c) \/ BreakerExecute(c)
      PROVE  Tracked'
  <2>1. /\ pc[c] # "send"
        /\ UNCHANGED <<phase, deadline, answered, groupDone, closer, results,
                       first>>
    BY <1>3 DEF GetAdapter, LimiterWait, BreakerExecute, Goes
  <2>2. \A d \in Carriers : d # c => pc'[d] = pc[d]
    BY <1>3, PrimaryStep DEF Primary
  <2> QED BY <2>1, <2>2 DEF Tracked, IInv, TypeOK
<1>4. ASSUME NEW c \in Carriers, CallReturns(c) PROVE Tracked'
  <2>1. UNCHANGED <<phase, deadline, groupDone, closer, results, first>>
    BY <1>4 DEF CallReturns
  <2>2. \A d \in Carriers : d # c => pc'[d] = pc[d]
    BY <1>4, PrimaryStep
  <2>3. \/ answered' = answered \cup {c} /\ pc'[c] = "send"
        \/ answered' = answered /\ pc[c] # "send"
    BY <1>4 DEF CallReturns, Goes, IInv, TypeOK
  <2>4. phase # "start"
    BY <1>4, PrimaryStep DEF IInv, Structure
  <2> QED BY <2>1, <2>2, <2>3, <2>4 DEF Tracked, IInv, TypeOK
<1>5. ASSUME NEW c \in Carriers, Send(c) PROVE Tracked'
  <2>1. /\ UNCHANGED <<phase, deadline, answered, groupDone, closer>>
        /\ pc[c] = "send" /\ c \in eligible
    BY <1>5, PrimaryStep DEF Send, Goes, Primary
  <2>2. \A d \in Carriers : d # c => pc'[d] = pc[d]
    BY <1>5, PrimaryStep DEF Primary
  <2>3. ~groupDone /\ phase = "range"
    BY <2>1 DEF Tracked, IInv, TypeOK, Structure
  <2>4. CASE deadline
    BY <2>1, <2>3, <2>4 DEF Tracked
  <2>5. CASE ~deadline
    <3>1. first \subseteq first' /\ \E f \in first' : f.carrier = c
      BY <1>5, <2>3, <2>5 DEF Send, SelectSend, GCtxDone, Quote
    <3> QED BY <2>1, <2>2, <2>3, <3>1 DEF Tracked, IInv, TypeOK
  <2> QED BY <2>4, <2>5
<1>6. ASSUME NEW c \in Carriers, HedgeSend(c) PROVE Tracked'
  <2>1. /\ UNCHANGED <<phase, deadline, pc, answered, groupDone, closer>>
        /\ hedgePc[c] = "send" /\ first \subseteq first'
    BY <1>6 DEF HedgeSend, SelectSend
  <2>2. phase = "range"
    BY <2>1 DEF IInv, TypeOK, Structure
  <2> QED BY <2>1, <2>2 DEF Tracked
<1>7. CASE Closer
  <2>1. /\ UNCHANGED <<phase, deadline, pc, answered, results, first>>
        /\ closer' \in {"join", "done"}
    BY <1>7 DEF Closer, CloserWait, CloserClose
  <2> QED BY <2>1 DEF Tracked
<1>8. CASE Collect
  <2>1. /\ UNCHANGED <<phase, deadline, pc, answered, groupDone, closer, first>>
        /\ phase = "range"
    BY <1>8 DEF Collect
  <2> QED BY <2>1 DEF Tracked
<1>9. CASE CollectEnd
  BY <1>9 DEF CollectEnd, Tracked
<1>10. CASE Return
  BY <1>10, ReturnFrame DEF Tracked
<1>11. ASSUME NEW c \in Carriers, HedgeReturns(c) \/ MonitorVisit(c)
       PROVE  Tracked'
  BY <1>11, TrackedFrame DEF HedgeReturns, MonitorVisit
<1>12. CASE \/ MonitorTick \/ MonitorCancelled \/ MonitorFire
            \/ MonitorScanned \/ MonitorDrain
  BY <1>12, TrackedFrame DEF MonitorTick, MonitorCancelled, MonitorFire,
     MonitorScanned, MonitorDrain
<1>13. CASE Returned \/ UNCHANGED vars
  BY <1>13, TrackedFrame DEF Returned, vars
<1> QED
  BY <1>1, <1>2, <1>3, <1>4, <1>5, <1>6, <1>7, <1>8, <1>9, <1>10, <1>11,
     <1>12, <1>13 DEF Next, Primary, Monitor, Collector

\* For any carriers and any interleaving fanOut returns exactly the first quote
\* of each carrier that reached the channel, cut short by the deadline or not;
\* and unless the deadline fired, one of every carrier whose primary call
\* returned a quote.
THEOREM AnswersReturned == Spec => []FirstAnswersReturned
<1>1. Init => Tracked /\ Firsts
  BY DEF Init, Tracked, Firsts, Range, Seen
<1>2. Spec => [](Tracked /\ Firsts)
  BY <1>1, TrackedStep, FirstsStep, Invariance, PTL DEF Spec
<1>3. IInv /\ Responded /\ Tracked /\ Firsts => FirstAnswersReturned
  <2> SUFFICES ASSUME IInv, Responded, Tracked, Firsts, phase = "returned"
               PROVE  /\ Range(response) = first
                      /\ ~deadline => answered \subseteq {q.carrier : q \in first}
    BY DEF FirstAnswersReturned
  <2>1. results = <<>> /\ Range(response) = Range(collected)
    BY DEF Tracked, Responded
  <2>2. first \subseteq Range(collected)
    <3> SUFFICES ASSUME NEW f \in first PROVE f \in Range(collected)
      OBVIOUS
    <3>1. PICK i \in DOMAIN collected : collected[i].carrier = f.carrier
      BY <2>1 DEF Firsts, Seen
    <3>2. collected[i] \in first
      BY DEF Firsts, Range
    <3>3. collected[i] = f
      BY <3>1, <3>2 DEF Firsts
    <3> QED BY <3>3 DEF Range
  <2>3. ASSUME ~deadline, NEW c \in answered
        PROVE  \E f \in first : f.carrier = c
    <3>1. pc[c] # "send"
      BY DEF IInv, TypeOK, Structure
    <3> QED BY <2>3, <3>1 DEF Tracked
  <2> QED BY <2>1, <2>2, <2>3 DEF Firsts
<1> QED BY <1>2, <1>3, Invariance, ResponseInvariance, PTL
=============================================================================
