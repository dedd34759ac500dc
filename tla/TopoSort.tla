------------------------------ MODULE TopoSort ------------------------------
(***************************************************************************)
(* IsExistLoop of dni/go/sdk/config/config.go: Kahn's algorithm over the   *)
(* predecessor map that GetNodeEdge built from the stream (or side data)   *)
(* names.  It yields the order in which a graph's nodes are opened and     *)
(* destroyed, and the verdict on which a configuration is rejected.        *)
(*                                                                         *)
(* One step is one iteration of one of its loops.  The successors of a     *)
(* node are kept in a Go map, so they are visited in any order.            *)
(***************************************************************************)
EXTENDS Integers, Sequences, FiniteSets, Functions

CONSTANT N      \* len(preList), the number of nodes of the graph

ASSUME NAssumption == N \in Nat

Node == 0 .. (N - 1)

VARIABLES
  preList,      \* preList[n]: the nodes whose outputs n reads (an input)
  nodeCount,    \* predecessors of each node not yet accounted for
  q,            \* the queue of nodes without unaccounted predecessors
  sortedNodes,  \* the nodes popped so far, in order
  zeroCount,    \* how many were popped
  seed,         \* the next node the first loop looks at
  node,         \* the node popped last
  todo,         \* its successors not yet visited
  pc,           \* "seed", "pop", "visit" or "done"
  isExistLoop   \* the verdict

sortVars == <<preList, nodeCount, q, sortedNodes, zeroCount, seed, node, todo, pc,
          isExistLoop>>

\* nextList is the converse of preList: GetNodeEdge fills both at once.
NextOf(p) == {n \in Node : p \in preList[n]}

SortInit ==
  /\ preList \in [Node -> SUBSET Node]
  /\ nodeCount = [n \in Node |-> 0]
  /\ q = << >>
  /\ sortedNodes = << >>
  /\ zeroCount = 0
  /\ seed = 0
  /\ node = 0
  /\ todo = {}
  /\ pc = "seed"
  /\ isExistLoop = FALSE

\* The first loop: count the predecessors of one node, queue it if it has none.
Seed ==
  /\ pc = "seed"
  /\ seed < N
  /\ nodeCount' = [nodeCount EXCEPT ![seed] = Cardinality(preList[seed])]
  /\ q' = IF preList[seed] = {} THEN Append(q, seed) ELSE q
  /\ seed' = seed + 1
  /\ UNCHANGED <<preList, sortedNodes, zeroCount, node, todo, pc, isExistLoop>>

EndSeed ==
  /\ pc = "seed"
  /\ seed = N
  /\ pc' = "pop"
  /\ UNCHANGED <<preList, nodeCount, q, sortedNodes, zeroCount, seed, node, todo,
                 isExistLoop>>

\* The second loop: pop a node and turn to its successors.
Pop ==
  /\ pc = "pop"
  /\ q # << >>
  /\ node' = Head(q)
  /\ q' = Tail(q)
  /\ sortedNodes' = Append(sortedNodes, Head(q))
  /\ zeroCount' = zeroCount + 1
  /\ todo' = NextOf(Head(q))
  /\ pc' = IF todo' = {} THEN "pop" ELSE "visit"
  /\ UNCHANGED <<preList, nodeCount, seed, isExistLoop>>

\* Mutant of Ready: one unaccounted predecessor is taken for none.
ReadyEarly(count) == count <= 1

\* A successor joins the queue when its last predecessor was accounted for.
Ready(count) == count = 0

\* The loop inside it: account for the popped node in one successor.
Visit(n) ==
  /\ pc = "visit"
  /\ n \in todo
  /\ nodeCount' = [nodeCount EXCEPT ![n] = @ - 1]
  /\ q' = IF Ready(nodeCount[n] - 1) THEN Append(q, n) ELSE q
  /\ todo' = todo \ {n}
  /\ pc' = IF todo' = {} THEN "pop" ELSE "visit"
  /\ UNCHANGED <<preList, sortedNodes, zeroCount, seed, node, isExistLoop>>

\* Mutant of LoopFound: a single node left over passes.
LoopFoundLax == zeroCount < N - 1

LoopFound == zeroCount # N

\* Mutant of Finish: the loop counts nodes, and pops an empty queue for ever.
FinishWhenAll ==
  /\ pc = "pop"
  /\ zeroCount = N
  /\ isExistLoop' = LoopFound
  /\ pc' = "done"
  /\ UNCHANGED <<preList, nodeCount, q, sortedNodes, zeroCount, seed, node, todo>>

Finish ==
  /\ pc = "pop"
  /\ q = << >>
  /\ isExistLoop' = LoopFound
  /\ pc' = "done"
  /\ UNCHANGED <<preList, nodeCount, q, sortedNodes, zeroCount, seed, node, todo>>

SortNext ==
  \/ Seed
  \/ EndSeed
  \/ Pop
  \/ \E n \in Node : Visit(n)
  \/ Finish

\* A sequential function: the caller runs it to its return.
SortSpec == SortInit /\ [][SortNext]_sortVars /\ WF_sortVars(SortNext)
-----------------------------------------------------------------------------
Popped == Range(sortedNodes)
Queued == Range(q)

\* The predecessors of n that nodeCount[n] still stands for.
Waiting(n) == {p \in preList[n] : p \notin Popped \/ (n \in todo /\ p = node)}

SortTypeOK ==
  /\ preList \in [Node -> SUBSET Node]
  /\ nodeCount \in [Node -> Int]
  /\ q \in Seq(Node)
  /\ sortedNodes \in Seq(Node)
  /\ zeroCount \in Nat
  /\ seed \in 0 .. N
  /\ node \in Nat
  /\ todo \in SUBSET Node
  /\ pc \in {"seed", "pop", "visit", "done"}
  /\ isExistLoop \in BOOLEAN

\* No node is ever queued or sorted twice: the counters reach zero once.
OnceInv ==
  /\ IsInjective(q)
  /\ IsInjective(sortedNodes)
  /\ Queued \cap Popped = {}

PhaseInv ==
  /\ pc = "seed" => sortedNodes = << >>
  /\ pc # "seed" => seed = N
  /\ pc = "visit" <=> todo # {}
  /\ pc = "done" => q = << >> /\ isExistLoop = LoopFound
  /\ pc = "visit" => node \in Popped
  /\ \A n \in todo : node \in preList[n]

CountInv ==
  /\ zeroCount = Cardinality(Popped)
  /\ \A n \in Node : n < seed => nodeCount[n] = Cardinality(Waiting(n))
  /\ \A n \in Node :
       n \in Queued \cup Popped <=> n < seed /\ Waiting(n) = {}

(***************************************************************************)
(* The order is topological at every moment: a node stands behind every    *)
(* node whose output it reads.  Destroy closes nodes, and PrepareForRun    *)
(* opens them, in this order.                                              *)
(***************************************************************************)
SortedIsTopological ==
  \A j \in DOMAIN sortedNodes :
    \A p \in preList[sortedNodes[j]] :
      \E i \in DOMAIN sortedNodes : i < j /\ sortedNodes[i] = p

\* A cycle, without paths: a set of nodes each fed by a node of the set.
Cyclic(S) == S # {} /\ \A n \in S : preList[n] \cap S # {}

HasCycle == \E S \in SUBSET Node : Cyclic(S)

AcyclicInv == \A S \in SUBSET Popped : ~ Cyclic(S)

(***************************************************************************)
(* The inductive invariant of the proofs in TopoSort_proofs.               *)
(***************************************************************************)
SortInv ==
  /\ SortTypeOK
  /\ OnceInv
  /\ PhaseInv
  /\ CountInv
  /\ SortedIsTopological
  /\ AcyclicInv

(***************************************************************************)
(* The verdict is right: a configuration is rejected as a loop exactly     *)
(* when the wiring has one (a self loop included), and an accepted one     *)
(* lists every node exactly once.                                          *)
(***************************************************************************)
VerdictCorrect ==
  pc = "done" =>
    /\ isExistLoop <=> HasCycle
    /\ ~ isExistLoop => Len(sortedNodes) = N /\ Popped = Node

\* The function returns, whatever the graph and the map iteration order.
Termination == <>(pc = "done")
=============================================================================
