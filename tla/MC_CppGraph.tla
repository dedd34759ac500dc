----------------------------- MODULE MC_CppGraph ----------------------------
(***************************************************************************)
(* Two views of the C++ graph.  A behaviour is either one of CppGraph, the *)
(* rounds of a graph whose queues are plain sequences, or one of           *)
(* StreamQueue, an output stream with its mirrors lock by lock; the other  *)
(* rests in its first state.                                               *)
(*                                                                         *)
(* The graph is a diamond without its top: a and b both read the graph     *)
(* input x, b also the side datum w, and c reads what the two write.       *)
(***************************************************************************)
EXTENDS CppGraph, StreamQueue

VARIABLE part     \* "graph" or "stream"

Nodes == {"a", "b", "c"}
MCPreds == [n \in Nodes |-> IF n = "c" THEN {"a", "b"} ELSE {}]
MCIns == [n \in Nodes |-> IF n = "c" THEN {"y", "z"} ELSE {"x"}]
MCOuts == [n \in Nodes |-> CASE n = "a" -> {"y"} [] n = "b" -> {"z"} [] n = "c" -> {"o"}]
MCSideIns == [n \in Nodes |-> IF n = "b" THEN {"w"} ELSE {}]
-----------------------------------------------------------------------------
RunInit == part \in {"graph", "stream"} /\ Init /\ StreamInit

GraphStep == part = "graph" /\ Next /\ UNCHANGED <<part, streamVars>>
StreamStep == part = "stream" /\ StreamNext /\ UNCHANGED <<part, vars>>
RunNext == GraphStep \/ StreamStep

\* A graph in its first state has nothing that is due: Fairness asks nothing
\* of the other part.
RunSpec == RunInit /\ [][RunNext]_<<part, vars, streamVars>> /\ Fairness
=============================================================================
