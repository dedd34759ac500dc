------------------------------- MODULE Wiring -------------------------------
(***************************************************************************)
(* What it means for the OutputManagers of a graph to be wired correctly.  *)
(* config.go establishes it (GraphUnit); the runtime relies on it          *)
(* (FlowGraph).  A channel <<m, s>> is the one InputManager m keeps for    *)
(* stream s; next[p][s] are the InputManagers that p sends s to, in order. *)
(***************************************************************************)
EXTENDS Integers, Sequences, Functions

\* No OutputManager feeds a channel twice, and no two feed the same one: a
\* channel has at most one sender, which closes it exactly once.
WellWired(ports, streams, chans, next) ==
  \A p \in ports, s \in streams :
    /\ IsInjective(next[p][s])
    /\ \A m \in Range(next[p][s]) :
         /\ <<m, s>> \in chans
         /\ \A r \in ports : m \in Range(next[r][s]) => r = p

\* A stream is an output of one node, and one of its outputs.
SingleWriter(nodes, outs) ==
  \A n \in nodes :
    /\ IsInjective(outs[n])
    /\ \A m \in nodes : m # n => Range(outs[n]) \cap Range(outs[m]) = {}

\* Every channel has a sender that writes its stream (writes[p] are the streams
\* of p): no reader waits for ever for its first datum.
AllFed(ports, chans, next, writes) ==
  \A x \in chans : \E p \in ports : x[1] \in Range(next[p][x[2]]) /\ x[2] \in writes[p]
=============================================================================
