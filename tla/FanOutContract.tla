--------------------------- MODULE FanOutContract ---------------------------
(***************************************************************************)
(* What Orchestrator.fanOut promises GetQuotes and the quote table, whose  *)
(* primary key is (request, carrier): it returns once, with at most one    *)
(* quote per carrier, from carriers that offer a requested coverage line.  *)
(***************************************************************************)
CONSTANTS Capable, Premiums

VARIABLES done, quotes

vars == <<done, quotes>>

Init == done = FALSE /\ quotes = {}

Return ==
  /\ ~done
  /\ done' = TRUE
  /\ quotes' \subseteq [carrier : Capable, premium : Premiums]
  /\ \A p, q \in quotes' : p.carrier = q.carrier => p = q

Spec == Init /\ [][Return]_vars
=============================================================================
