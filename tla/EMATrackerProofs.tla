-------------------------- MODULE EMATrackerProofs --------------------------
(***************************************************************************)
(* Proofs about EMATracker for any number of goroutines, latencies and     *)
(* calls of Record.                                                        *)
(***************************************************************************)
EXTENDS EMATracker, FiniteSetTheorems, TLAPS

\* The values an emaState pointer can lead to.
emaStates == [p95 : Seq(Latencies), observations : Nat]

Shapes ==
  /\ state \in emaStates
  /\ old \in [Goroutines -> emaStates]
  /\ recorded \in [Goroutines -> Seq(Latencies)]

\* Sequence t continues s.
StartOf(s, t) == Len(s) <= Len(t) /\ \A i \in 1..Len(s) : s[i] = t[i]

\* What the gauge shows, and what a goroutine is about to show, is a p95 that
\* was installed and has only been continued since.
Published ==
  /\ StartOf(gauge, state.p95)
  /\ \A g \in Goroutines : pc[g] = "emit" => StartOf(Emitted(g), state.p95)

\* A goroutine inside Record has a call left.
CallsLeft ==
  \A g \in Goroutines :
    /\ Len(recorded[g]) <= MaxRecords
    /\ pc[g] # "idle" => Len(recorded[g]) < MaxRecords

TrackerInv == TypeOK /\ Shapes /\ Published /\ CallsLeft /\ NoObservationLost

Occurrences(s, l) == {i \in 1..Len(s) : s[i] = l}
Emitters(l) == {g \in Goroutines : pc[g] = "emit" /\ latency[g] = l}

-----------------------------------------------------------------------------
(* Sequences and counts                                                    *)

LEMMA Appended ==
  ASSUME NEW S, NEW s \in Seq(S), NEW x \in S
  PROVE  /\ Append(s, x) \in Seq(S) /\ Len(s) \in Nat
         /\ Len(Append(s, x)) = Len(s) + 1
         /\ \A i \in 1..Len(s) : Append(s, x)[i] = s[i]
         /\ Append(s, x)[Len(s) + 1] = x
OBVIOUS

\* A start of a sequence stays one when the sequence is continued.
LEMMA StartAppended ==
  ASSUME NEW S, NEW t \in Seq(S), NEW x \in S
  PROVE  /\ StartOf(Append(t, x), Append(t, x))
         /\ \A s \in Seq(S) : StartOf(s, t) => StartOf(s, Append(t, x))
<1>1. /\ Append(t, x) \in Seq(S) /\ Len(t) \in Nat
      /\ Len(Append(t, x)) = Len(t) + 1
      /\ \A i \in 1..Len(t) : Append(t, x)[i] = t[i]
  BY Appended
<1>2. StartOf(Append(t, x), Append(t, x))
  BY <1>1 DEF StartOf
<1>3. ASSUME NEW s \in Seq(S), StartOf(s, t)
      PROVE  StartOf(s, Append(t, x))
  <2>1. Len(s) \in Nat
    OBVIOUS
  <2> QED BY <1>1, <1>3, <2>1 DEF StartOf
<1> QED BY <1>2, <1>3

\* Appending x adds one occurrence of x and none of another value.
LEMMA OccurrencesAppended ==
  ASSUME NEW S, NEW s \in Seq(S), NEW x \in S, NEW l
  PROVE  /\ Cardinality(Occurrences(s, l)) \in Nat
         /\ Cardinality(Occurrences(Append(s, x), l)) =
              IF x = l THEN Cardinality(Occurrences(s, l)) + 1
                       ELSE Cardinality(Occurrences(s, l))
<1>1. /\ Len(s) \in Nat
      /\ Len(Append(s, x)) = Len(s) + 1
      /\ \A i \in 1..Len(s) : Append(s, x)[i] = s[i]
      /\ Append(s, x)[Len(s) + 1] = x
  BY Appended
<1>2. /\ Occurrences(Append(s, x), l) =
           IF x = l THEN Occurrences(s, l) \cup {Len(s) + 1}
                    ELSE Occurrences(s, l)
      /\ Len(s) + 1 \notin Occurrences(s, l)
  BY <1>1 DEF Occurrences
<1>3. IsFiniteSet(Occurrences(s, l))
  <2>1. Occurrences(s, l) \subseteq 1..Len(s)
    BY DEF Occurrences
  <2>2. IsFiniteSet(1..Len(s))
    BY <1>1, FS_Interval
  <2> QED BY <2>1, <2>2, FS_Subset
<1> QED BY <1>2, <1>3, FS_AddElement, FS_CardinalityType

\* Finished calls can be counted.
LEMMA FinishedCounted ==
  ASSUME NEW l
  PROVE  IsFiniteSet(Finished(l)) /\ Cardinality(Finished(l)) \in Nat
<1>1. IsFiniteSet(1..MaxRecords)
  BY TrackerAssumption, FS_Interval
<1>2. IsFiniteSet(Goroutines \X (1..MaxRecords))
  BY <1>1, TrackerAssumption, FS_Product
<1>3. Finished(l) \subseteq Goroutines \X (1..MaxRecords)
  BY DEF Finished
<1>4. IsFiniteSet(Finished(l))
  BY <1>2, <1>3, FS_Subset
<1> QED BY <1>4, FS_CardinalityType

\* A finished call is one more of its latency.
LEMMA FinishedAppended ==
  ASSUME recorded \in [Goroutines -> Seq(Latencies)],
         NEW g \in Goroutines, Len(recorded[g]) < MaxRecords,
         NEW x \in Latencies,
         recorded' = [recorded EXCEPT ![g] = Append(@, x)], NEW l
  PROVE  Cardinality(Finished(l)') =
           IF x = l THEN Cardinality(Finished(l)) + 1
                    ELSE Cardinality(Finished(l))
<1> DEFINE n == Len(recorded[g]) + 1
<1> USE TrackerAssumption
<1>1. recorded[g] \in Seq(Latencies) /\ recorded'[g] = Append(recorded[g], x)
  OBVIOUS
<1>2. /\ Len(recorded[g]) \in Nat /\ Len(recorded'[g]) = n
      /\ \A i \in 1..Len(recorded[g]) : recorded'[g][i] = recorded[g][i]
      /\ recorded'[g][n] = x
  BY <1>1, Appended
<1>3. n \in 1..MaxRecords
  BY <1>2
<1>4. ASSUME NEW h \in Goroutines, NEW i \in 1..MaxRecords
      PROVE  (i <= Len(recorded'[h]) /\ recorded'[h][i] = l)
               <=> \/ i <= Len(recorded[h]) /\ recorded[h][i] = l
                   \/ h = g /\ i = n /\ x = l
  <2>1. CASE h = g
    BY <1>2, <2>1
  <2>2. CASE h # g
    <3>1. recorded'[h] = recorded[h]
      BY <2>2
    <3> QED BY <2>2, <3>1
  <2> QED BY <2>1, <2>2
<1> HIDE DEF n
<1>5. \A c : c \in Finished(l)' <=> c \in Finished(l) \/ (c = <<g, n>> /\ x = l)
  <2> SUFFICES ASSUME NEW c
               PROVE  c \in Finished(l)'
                        <=> c \in Finished(l) \/ (c = <<g, n>> /\ x = l)
    OBVIOUS
  <2>1. CASE c \notin Goroutines \X (1..MaxRecords)
    BY <1>3, <2>1 DEF Finished
  <2>2. CASE c \in Goroutines \X (1..MaxRecords)
    <3>1. PICK h \in Goroutines, i \in 1..MaxRecords : c = <<h, i>>
      BY <2>2
    <3>2. c = <<g, n>> <=> h = g /\ i = n
      BY <3>1
    <3>3. c[1] = h /\ c[2] = i
      BY <3>1
    <3> QED BY <1>4, <2>2, <3>1, <3>2, <3>3 DEF Finished
  <2> QED BY <2>1, <2>2
<1>6. <<g, n>> \notin Finished(l)
  <2>1. ~(n <= Len(recorded[g]))
    BY <1>2 DEF n
  <2>2. <<g, n>>[1] = g /\ <<g, n>>[2] = n
    OBVIOUS
  <2> QED BY <2>1, <2>2 DEF Finished
<1>7. IsFiniteSet(Finished(l))
  BY FinishedCounted
<1>8. Finished(l)' = IF x = l THEN Finished(l) \cup {<<g, n>>} ELSE Finished(l)
  BY <1>5
<1> QED BY <1>6, <1>7, <1>8, FS_AddElement, FS_CardinalityType

\* The goroutines between their swap and their gauge update.
LEMMA EmittersCounted ==
  ASSUME NEW l
  PROVE  IsFiniteSet(Emitters(l)) /\ Cardinality(Emitters(l)) \in Nat
<1>1. IsFiniteSet(Emitters(l))
  BY TrackerAssumption, FS_Subset DEF Emitters
<1> QED BY <1>1, FS_CardinalityType

LEMMA EmitterJoins ==
  ASSUME TypeOK, NEW g \in Goroutines, pc[g] # "emit", NEW l,
         pc' = [pc EXCEPT ![g] = "emit"], UNCHANGED latency
  PROVE  Cardinality(Emitters(l)') =
           IF latency[g] = l THEN Cardinality(Emitters(l)) + 1
                             ELSE Cardinality(Emitters(l))
<1>1. /\ g \notin Emitters(l)
      /\ Emitters(l)' = IF latency[g] = l THEN Emitters(l) \cup {g}
                                          ELSE Emitters(l)
  BY DEF Emitters, TypeOK
<1> QED BY <1>1, EmittersCounted, FS_AddElement

LEMMA EmitterLeaves ==
  ASSUME TypeOK, NEW g \in Goroutines, pc[g] = "emit", NEW l,
         pc' = [pc EXCEPT ![g] = "idle"], UNCHANGED latency
  PROVE  Cardinality(Emitters(l)') =
           IF latency[g] = l THEN Cardinality(Emitters(l)) - 1
                             ELSE Cardinality(Emitters(l))
<1>1. /\ latency[g] = l => g \in Emitters(l)
      /\ Emitters(l)' = IF latency[g] = l THEN Emitters(l) \ {g}
                                          ELSE Emitters(l)
  BY DEF Emitters, TypeOK
<1> QED BY <1>1, EmittersCounted, FS_RemoveElement

-----------------------------------------------------------------------------
(* The inductive invariant                                                 *)

\* The tracker starts with nothing blended and nobody inside Record.
LEMMA TrackerInitInv == Init => TrackerInv
<1> SUFFICES ASSUME Init PROVE TrackerInv
  OBVIOUS
<1> USE TrackerAssumption DEF Init
<1>1. /\ <<>> \in Seq(Latencies) /\ Len(<<>>) = 0
      /\ (CHOOSE l \in Latencies : TRUE) \in Latencies
  OBVIOUS
<1>2. /\ pc \in [Goroutines -> {"idle", "load", "swap", "emit"}]
      /\ latency \in [Goroutines -> Latencies]
      /\ recorded \in [Goroutines -> Seq(Latencies)]
      /\ state.p95 = <<>> /\ state.observations = 0
  BY <1>1 DEF Initial
<1>3. TypeOK
  BY <1>1, <1>2 DEF TypeOK
<1>4. Initial \in emaStates
  BY <1>1 DEF Initial, emaStates
<1>5. Shapes
  BY <1>2, <1>4 DEF Shapes
<1>6. Published
  BY <1>1, <1>2 DEF Published, StartOf
<1>7. CallsLeft
  BY <1>1 DEF CallsLeft
<1>8. NoObservationLost
  <2> SUFFICES ASSUME NEW l \in Latencies
               PROVE  Cardinality(Occurrences(state.p95, l))
                        = Cardinality(Finished(l)) + Cardinality(Emitters(l))
    BY DEF NoObservationLost, Occurrences, Emitters
  <2>1. Occurrences(state.p95, l) = {}
    BY <1>1, <1>2 DEF Occurrences
  <2>2. Emitters(l) = {}
    BY DEF Emitters
  <2>3. Finished(l) = {}
    <3>1. ASSUME NEW c \in Goroutines \X (1..MaxRecords)
          PROVE  ~(c[2] <= Len(recorded[c[1]]))
      <4>1. c[1] \in Goroutines /\ c[2] \in 1..MaxRecords
        OBVIOUS
      <4>2. recorded[c[1]] = <<>>
        BY <4>1
      <4> QED BY <1>1, <4>1, <4>2
    <3> QED BY <3>1 DEF Finished
  <2>4. Cardinality({}) = 0
    BY FS_EmptySet
  <2> HIDE DEF Init
  <2> QED BY <2>1, <2>2, <2>3, <2>4
<1> QED BY <1>3, <1>5, <1>6, <1>7, <1>8 DEF TrackerInv

\* The counts of NoObservationLost by name.
LEMMA Counts ==
  NoObservationLost <=>
    \A l \in Latencies :
      Cardinality(Occurrences(state.p95, l))
        = Cardinality(Finished(l)) + Cardinality(Emitters(l))
BY DEF NoObservationLost, Occurrences, Emitters

\* Steps that neither swap nor emit keep the counts.
LEMMA CountsKept ==
  ASSUME NoObservationLost, TypeOK, NEW g \in Goroutines,
         UNCHANGED <<state, recorded>>,
         pc[g] # "emit", pc'[g] # "emit",
         \A h \in Goroutines \ {g} : pc'[h] = pc[h] /\ latency'[h] = latency[h]
  PROVE  NoObservationLost'
<1> SUFFICES ASSUME NEW l \in Latencies
             PROVE  Cardinality(Occurrences(state.p95, l)')
                      = Cardinality(Finished(l)') + Cardinality(Emitters(l)')
  BY DEF NoObservationLost, Occurrences, Emitters
<1>1. /\ Occurrences(state.p95, l)' = Occurrences(state.p95, l)
      /\ Finished(l)' = Finished(l)
  BY DEF Occurrences, Finished
<1>2. Emitters(l)' = Emitters(l)
  BY DEF Emitters
<1> QED BY <1>1, <1>2, Counts

LEMMA RecordStep ==
  ASSUME TrackerInv, NEW g \in Goroutines, NEW l \in Latencies, Record(g, l)
  PROVE  TrackerInv'
<1> USE DEF TrackerInv
<1>1. /\ pc[g] = "idle" /\ Len(recorded[g]) < MaxRecords
      /\ UNCHANGED <<state, gauge, old, recorded>>
      /\ pc' \in [Goroutines -> {"idle", "load", "swap", "emit"}]
      /\ latency' \in [Goroutines -> Latencies]
      /\ pc'[g] = "load"
      /\ \A h \in Goroutines \ {g} : pc'[h] = pc[h] /\ latency'[h] = latency[h]
  BY DEF Record, TypeOK
<1>2. TypeOK' /\ Shapes'
  BY <1>1 DEF TypeOK, Shapes
<1>3. Published'
  BY <1>1 DEF Published, Emitted
<1>4. CallsLeft'
  BY <1>1 DEF CallsLeft
<1>5. NoObservationLost'
  BY <1>1, CountsKept
<1> QED BY <1>2, <1>3, <1>4, <1>5

LEMMA LoadStep ==
  ASSUME TrackerInv, NEW g \in Goroutines, Load(g)
  PROVE  TrackerInv'
<1> USE DEF TrackerInv
<1>1. /\ pc[g] = "load"
      /\ UNCHANGED <<state, gauge, latency, recorded>>
      /\ pc' \in [Goroutines -> {"idle", "load", "swap", "emit"}]
      /\ old' \in [Goroutines -> emaStates]
      /\ pc'[g] = "swap"
      /\ \A h \in Goroutines \ {g} : pc'[h] = pc[h] /\ old'[h] = old[h]
  BY DEF Load, TypeOK, Shapes
<1>2. TypeOK' /\ Shapes'
  BY <1>1 DEF TypeOK, Shapes
<1>3. Published'
  BY <1>1 DEF Published, Emitted
<1>4. CallsLeft'
  BY <1>1 DEF CallsLeft
<1>5. NoObservationLost'
  BY <1>1, CountsKept
<1> QED BY <1>2, <1>3, <1>4, <1>5

\* A swap that succeeds continues the installed sequence by one latency.
LEMMA SwapInstalls ==
  ASSUME TrackerInv, NEW g \in Goroutines, CompareAndSwap(g), UnchangedSince(g)
  PROVE  TrackerInv'
<1> USE DEF TrackerInv
<1> DEFINE x == latency[g]
<1>1. /\ pc[g] = "swap" /\ state = old[g] /\ x \in Latencies
      /\ state' = Installed(g)
      /\ pc' = [pc EXCEPT ![g] = "emit"]
      /\ UNCHANGED <<gauge, latency, old, recorded>>
  BY DEF CompareAndSwap, UnchangedSince, TypeOK
<1>2. /\ pc' \in [Goroutines -> {"idle", "load", "swap", "emit"}]
      /\ pc'[g] = "emit"
      /\ \A h \in Goroutines \ {g} : pc'[h] = pc[h]
  BY <1>1 DEF TypeOK
<1>3. /\ state'.p95 = Append(state.p95, x)
      /\ state'.observations = state.observations + 1
      /\ state' = [p95 |-> Append(state.p95, x),
                   observations |-> state.observations + 1]
      /\ Emitted(g)' = state'.p95
  BY <1>1 DEF Installed, Blend, Emitted
<1>4. /\ state.p95 \in Seq(Latencies) /\ state.observations = Len(state.p95)
      /\ Append(state.p95, x) \in Seq(Latencies)
      /\ Len(Append(state.p95, x)) = Len(state.p95) + 1
      /\ Len(state.p95) \in Nat
  BY <1>1, Appended DEF TypeOK
<1> HIDE DEF x
<1>5. TypeOK' /\ Shapes'
  <2>1. state' \in emaStates
    BY <1>3, <1>4 DEF emaStates
  <2> QED BY <1>1, <1>2, <1>3, <1>4, <2>1 DEF TypeOK, Shapes
<1>6. Published'
  <2>1. /\ gauge \in Seq(Latencies)
        /\ \A h \in Goroutines : Emitted(h) \in Seq(Latencies)
    <3>1. ASSUME NEW h \in Goroutines
          PROVE  Emitted(h) \in Seq(Latencies)
      <4>1. old[h].p95 \in Seq(Latencies) /\ latency[h] \in Latencies
        BY DEF Shapes, TypeOK, emaStates
      <4> QED BY <4>1, Appended DEF Emitted, Blend
    <3> QED BY <3>1 DEF TypeOK
  <2>2. \A h \in Goroutines : Emitted(h)' = Emitted(h)
    BY <1>1 DEF Emitted
  <2>3. StartOf(gauge, state.p95)'
    BY <1>1, <1>3, <1>4, <2>1, StartAppended DEF Published
  <2>4. ASSUME NEW h \in Goroutines, pc'[h] = "emit"
        PROVE  StartOf(Emitted(h), state.p95)'
    <3>1. CASE h = g
      BY <1>1, <1>3, <1>4, <3>1, StartAppended DEF x
    <3>2. CASE h # g
      BY <1>1, <1>2, <1>3, <1>4, <2>1, <2>2, <2>4, <3>2, StartAppended
      DEF Published, x
    <3> QED BY <3>1, <3>2
  <2> QED BY <2>3, <2>4 DEF Published
<1>7. CallsLeft'
  BY <1>1, <1>2 DEF CallsLeft
<1>8. NoObservationLost'
  <2> SUFFICES ASSUME NEW l \in Latencies
               PROVE  Cardinality(Occurrences(state.p95, l)')
                        = Cardinality(Finished(l)') + Cardinality(Emitters(l)')
    BY DEF NoObservationLost, Occurrences, Emitters
  <2>1. Finished(l)' = Finished(l)
    BY <1>1 DEF Finished
  <2>2. Occurrences(state.p95, l)' = Occurrences(Append(state.p95, x), l)
    BY <1>3
  <2>3. /\ Cardinality(Occurrences(state.p95, l)) \in Nat
        /\ Cardinality(Occurrences(Append(state.p95, x), l)) =
             IF x = l THEN Cardinality(Occurrences(state.p95, l)) + 1
                      ELSE Cardinality(Occurrences(state.p95, l))
    BY <1>1, <1>4, OccurrencesAppended
  <2>4. Cardinality(Emitters(l)') = IF x = l THEN Cardinality(Emitters(l)) + 1
                                             ELSE Cardinality(Emitters(l))
    BY <1>1, EmitterJoins DEF x
  <2>5. Cardinality(Occurrences(state.p95, l))
          = Cardinality(Finished(l)) + Cardinality(Emitters(l))
    BY Counts
  <2>6. Cardinality(Emitters(l)) \in Nat /\ Cardinality(Finished(l)) \in Int
    BY EmittersCounted, FinishedCounted
  <2> QED BY <2>1, <2>2, <2>3, <2>4, <2>5, <2>6
<1> QED BY <1>5, <1>6, <1>7, <1>8

\* A swap that lost the race sends Record back and changes nothing.
LEMMA SwapRetries ==
  ASSUME TrackerInv, NEW g \in Goroutines, CompareAndSwap(g), ~UnchangedSince(g)
  PROVE  TrackerInv'
<1> USE DEF TrackerInv
<1>1. /\ pc[g] = "swap"
      /\ UNCHANGED <<state, gauge, latency, old, recorded>>
      /\ pc' \in [Goroutines -> {"idle", "load", "swap", "emit"}]
      /\ pc'[g] = "load"
      /\ \A h \in Goroutines \ {g} : pc'[h] = pc[h]
  BY DEF CompareAndSwap, TypeOK, Retry
<1>2. TypeOK' /\ Shapes'
  BY <1>1 DEF TypeOK, Shapes
<1>3. Published'
  BY <1>1 DEF Published, Emitted
<1>4. CallsLeft'
  BY <1>1 DEF CallsLeft
<1>5. NoObservationLost'
  BY <1>1, CountsKept
<1> QED BY <1>2, <1>3, <1>4, <1>5

\* SetP95Latency shows what its Record installed, and the call is finished.
LEMMA EmitStep ==
  ASSUME TrackerInv, NEW g \in Goroutines, Emit(g)
  PROVE  TrackerInv'
<1> USE DEF TrackerInv
<1>1. /\ pc[g] = "emit" /\ gauge' = Emitted(g)
      /\ pc' = [pc EXCEPT ![g] = "idle"]
      /\ recorded' = [recorded EXCEPT ![g] = Append(@, latency[g])]
      /\ UNCHANGED <<state, latency, old>>
  BY DEF Emit
<1>2. /\ recorded[g] \in Seq(Latencies) /\ latency[g] \in Latencies
      /\ old[g].p95 \in Seq(Latencies)
      /\ Len(recorded[g]) < MaxRecords
  BY <1>1 DEF TypeOK, Shapes, emaStates, CallsLeft
<1>3. /\ pc' \in [Goroutines -> {"idle", "load", "swap", "emit"}]
      /\ pc'[g] = "idle"
      /\ \A h \in Goroutines \ {g} :
           pc'[h] = pc[h] /\ recorded'[h] = recorded[h]
      /\ recorded'[g] = Append(recorded[g], latency[g])
  BY <1>1 DEF TypeOK, Shapes
<1>4. /\ Append(recorded[g], latency[g]) \in Seq(Latencies)
      /\ Len(recorded[g]) \in Nat
      /\ Len(Append(recorded[g], latency[g])) = Len(recorded[g]) + 1
      /\ gauge' \in Seq(Latencies)
  BY <1>1, <1>2, Appended DEF Emitted, Blend
<1>5. Shapes'
  BY <1>1, <1>4 DEF Shapes
<1>6. TypeOK'
  <2>1. \A h \in Goroutines : recorded'[h] \in Seq(Latencies)
    BY <1>5 DEF Shapes
  <2> QED BY <1>1, <1>3, <1>4, <2>1 DEF TypeOK
<1>7. Published'
  <2>1. \A h \in Goroutines : Emitted(h)' = Emitted(h)
    BY <1>1 DEF Emitted
  <2> QED BY <1>1, <1>3, <2>1 DEF Published
<1>8. CallsLeft'
  BY <1>2, <1>3, <1>4, TrackerAssumption DEF CallsLeft
<1>9. NoObservationLost'
  <2> SUFFICES ASSUME NEW l \in Latencies
               PROVE  Cardinality(Occurrences(state.p95, l)')
                        = Cardinality(Finished(l)') + Cardinality(Emitters(l)')
    BY DEF NoObservationLost, Occurrences, Emitters
  <2>1. Occurrences(state.p95, l)' = Occurrences(state.p95, l)
    BY <1>1 DEF Occurrences
  <2>2. Cardinality(Finished(l)') =
          IF latency[g] = l THEN Cardinality(Finished(l)) + 1
                            ELSE Cardinality(Finished(l))
    BY <1>1, <1>2, FinishedAppended DEF Shapes
  <2>3. Cardinality(Emitters(l)') =
          IF latency[g] = l THEN Cardinality(Emitters(l)) - 1
                            ELSE Cardinality(Emitters(l))
    BY <1>1, EmitterLeaves
  <2>4. Cardinality(Occurrences(state.p95, l))
          = Cardinality(Finished(l)) + Cardinality(Emitters(l))
    BY Counts
  <2>5. Cardinality(Emitters(l)) \in Nat /\ Cardinality(Finished(l)) \in Nat
    BY EmittersCounted, FinishedCounted
  <2> QED BY <2>1, <2>2, <2>3, <2>4, <2>5
<1> QED BY <1>5, <1>6, <1>7, <1>8, <1>9

\* Every step keeps the invariant.
LEMMA TrackerNextInv == TrackerInv /\ [Next]_vars => TrackerInv'
<1> SUFFICES ASSUME TrackerInv, [Next]_vars PROVE TrackerInv'
  OBVIOUS
<1>1. CASE UNCHANGED vars
  BY <1>1 DEF vars, TrackerInv, TypeOK, Shapes, Published, Emitted, CallsLeft,
              NoObservationLost, Finished
<1>2. CASE Next
  BY <1>2, RecordStep, LoadStep, SwapInstalls, SwapRetries, EmitStep
  DEF Next, Inside
<1> QED BY <1>1, <1>2

\* A published start is what GaugeWasCurrent says.
LEMMA GaugeIsStart == TrackerInv => GaugeWasCurrent
<1> SUFFICES ASSUME TrackerInv PROVE GaugeWasCurrent
  OBVIOUS
<1>1. /\ gauge \in Seq(Latencies) /\ state.p95 \in Seq(Latencies)
      /\ Len(gauge) <= Len(state.p95)
      /\ \A i \in 1..Len(gauge) : gauge[i] = state.p95[i]
  BY DEF TrackerInv, TypeOK, Published, StartOf
<1>2. gauge = SubSeq(state.p95, 1, Len(gauge))
  BY <1>1
<1> QED BY <1>1, <1>2 DEF GaugeWasCurrent

-----------------------------------------------------------------------------
(* Theorems                                                                *)

\* TrackerInv holds in every state of the tracker.
THEOREM TrackerInvariant == Spec => []TrackerInv
<1> QED BY TrackerInitInv, TrackerNextInv, PTL DEF Spec

\* However the calls of Record race, the installed emaState counts exactly the
\* latencies it blends.
THEOREM TrackerTypes == Spec => []TypeOK
<1>1. TrackerInv => TypeOK
  BY DEF TrackerInv
<1> QED BY <1>1, TrackerInvariant, PTL

\* No Record that got past its swap is lost, and none is blended twice.
THEOREM ObservationsKept == Spec => []NoObservationLost
<1>1. TrackerInv => NoObservationLost
  BY DEF TrackerInv
<1> QED BY <1>1, TrackerInvariant, PTL

\* The gauge shows a p95 that was installed, however late SetP95Latency runs.
THEOREM GaugeCurrent == Spec => []GaugeWasCurrent
<1> QED BY GaugeIsStart, TrackerInvariant, PTL
=============================================================================
