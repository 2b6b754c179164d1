----------------------------- MODULE EMATracker -----------------------------
(***************************************************************************)
(* The per-carrier latency tracker of internal/orchestrator/hedging.go: a  *)
(* pointer to an immutable emaState, replaced by compare-and-swap by the   *)
(* goroutines that run Record.  Load, CompareAndSwap and the gauge update  *)
(* are one action each.                                                    *)
(*                                                                         *)
(* A p95 is represented by the sequence of latencies blended into the      *)
(* seed, oldest first: alpha, the seed and that sequence determine the     *)
(* float64, and every Record appends to it.  Each installed emaState has   *)
(* its own observation count, so comparing values here is comparing        *)
(* pointers there.                                                         *)
(***************************************************************************)
EXTENDS Naturals, Sequences, FiniteSets

CONSTANTS Goroutines,  \* callers of Record
          Latencies,   \* observed latencies
          MaxRecords   \* bound on the calls of Record one goroutine makes

ASSUME TrackerAssumption ==
  IsFiniteSet(Goroutines) /\ Latencies # {} /\ MaxRecords \in Nat

VARIABLES
  state,     \* *t.state: the blended latencies and their number
  gauge,     \* carrier_p95_latency_ms
  pc,        \* pc[g]: where goroutine g is in Record
  latency,   \* latency[g]: its argument, irrelevant before its first call
  old,       \* old[g]: the emaState it loaded
  recorded   \* history: recorded[g], the latencies of g's finished calls

vars == <<state, gauge, pc, latency, old, recorded>>

Initial == [p95 |-> <<>>, observations |-> 0]

Init ==
  /\ state = Initial
  /\ gauge = <<>>
  /\ pc = [g \in Goroutines |-> "idle"]
  /\ latency = [g \in Goroutines |-> CHOOSE l \in Latencies : TRUE]
  /\ old = [g \in Goroutines |-> Initial]
  /\ recorded = [g \in Goroutines |-> <<>>]

\* The emaState Record builds from the one it loaded.
Blend(s, l) == [p95 |-> Append(s.p95, l), observations |-> s.observations + 1]

Record(g, l) ==
  /\ pc[g] = "idle"
  /\ Len(recorded[g]) < MaxRecords
  /\ pc' = [pc EXCEPT ![g] = "load"]
  /\ latency' = [latency EXCEPT ![g] = l]
  /\ UNCHANGED <<state, gauge, old, recorded>>

Load(g) ==
  /\ pc[g] = "load"
  /\ pc' = [pc EXCEPT ![g] = "swap"]
  /\ old' = [old EXCEPT ![g] = state]
  /\ UNCHANGED <<state, gauge, latency, recorded>>

\* Variant: the new state is stored without comparing.
UnchangedAssumed(g) == TRUE

\* CompareAndSwap's comparison.
UnchangedSince(g) == state = old[g]

\* Variant: the new emaState keeps the old count.
InstalledUncounted(g) == [Blend(old[g], latency[g]) EXCEPT
                            !.observations = old[g].observations]

\* The emaState goroutine g builds from what it loaded.
Installed(g) == Blend(old[g], latency[g])

\* Variant: the Load is hoisted out of the retry loop.
RetryNoReload == "swap"

\* Where a lost race sends Record: back to its Load.
Retry == "load"

\* Install the new state, or retry with the fresh one.
CompareAndSwap(g) ==
  /\ pc[g] = "swap"
  /\ \/ /\ UnchangedSince(g)
        /\ state' = Installed(g)
        /\ pc' = [pc EXCEPT ![g] = "emit"]
     \/ /\ ~UnchangedSince(g)
        /\ pc' = [pc EXCEPT ![g] = Retry]
        /\ UNCHANGED state
  /\ UNCHANGED <<gauge, latency, old, recorded>>

\* Variant: the gauge is computed from the state of the moment.
EmittedFresh(g) == Blend(state, latency[g]).p95

\* The value Record passes to SetP95Latency: the one it installed.
Emitted(g) == Blend(old[g], latency[g]).p95

\* SetP95Latency, and return.
Emit(g) ==
  /\ pc[g] = "emit"
  /\ pc' = [pc EXCEPT ![g] = "idle"]
  /\ gauge' = Emitted(g)
  /\ recorded' = [recorded EXCEPT ![g] = Append(@, latency[g])]
  /\ UNCHANGED <<state, latency, old>>

Inside(g) == Load(g) \/ CompareAndSwap(g) \/ Emit(g)

Next == \E g \in Goroutines : (\E l \in Latencies : Record(g, l)) \/ Inside(g)

Spec == Init /\ [][Next]_vars

\* The scheduler runs every goroutine that is inside Record.
FairSpec == Spec /\ \A g \in Goroutines : WF_vars(Inside(g))

-----------------------------------------------------------------------------
(* Properties                                                              *)

\* The installed emaState is consistent: its count is the number of latencies
\* it blends, so Record never publishes a p95 of one state with the count of
\* another.
TypeOK ==
  /\ state.p95 \in Seq(Latencies)
  /\ state.observations = Len(state.p95)
  /\ gauge \in Seq(Latencies)
  /\ pc \in [Goroutines -> {"idle", "load", "swap", "emit"}]
  /\ latency \in [Goroutines -> Latencies]
  /\ \A g \in Goroutines : recorded[g] \in Seq(Latencies)

\* The finished calls of Record, numbered per goroutine, whose latency was l.
Finished(l) ==
  {c \in Goroutines \X (1..MaxRecords) :
     c[2] <= Len(recorded[c[1]]) /\ recorded[c[1]][c[2]] = l}

\* Every latency whose Record got past its swap is blended exactly once,
\* however the calls were interleaved (Record's retry loop).
NoObservationLost ==
  \A l \in Latencies :
    Cardinality({i \in 1..Len(state.p95) : state.p95[i] = l})
      = Cardinality(Finished(l))
        + Cardinality({g \in Goroutines : pc[g] = "emit" /\ latency[g] = l})

\* The gauge is set after the swap and may lag or even go back, but it always
\* shows a p95 that was installed: no Record publishes a value computed from
\* observations it did not see (Record's SetP95Latency).
GaugeWasCurrent ==
  Len(gauge) <= Len(state.p95) /\ gauge = SubSeq(state.p95, 1, Len(gauge))

\* Record is lock-free: while some call has not swapped, the number of
\* observations grows.
LockFree ==
  \A n \in 0..(MaxRecords * Cardinality(Goroutines)) :
    state.observations = n /\ (\E g \in Goroutines : pc[g] \in {"load", "swap"})
      ~> state.observations > n
=============================================================================
