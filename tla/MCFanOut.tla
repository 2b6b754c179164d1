------------------------------ MODULE MCFanOut ------------------------------
(* Small instances of FanOut.                                              *)
EXTENDS FanOut

\* The p95 estimates and priorities of the mock carriers, in order.
MCP95 == [c \in Carriers |-> IF c < 3 THEN 1 ELSE 2]
MCPriority == [c \in Carriers |-> c]
=============================================================================
