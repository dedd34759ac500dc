------------------------------ MODULE SideData ------------------------------
(***************************************************************************)
(* Graph.PrepareForRun of dni/go/sdk/graph/graph.go: side data are values  *)
(* that reach the nodes before the graph runs.  The graph's own are set    *)
(* first; then the nodes are opened in SideDataSortedNodes order, and each *)
(* passes what its task's Open wrote to the nodes that read it.            *)
(*                                                                         *)
(* The call may fail half way (a missing value, a task that cannot open)   *)
(* and be made again.  A value is the number of the call it was made by,   *)
(* 0 is the nil of a new DataSlice.  The first reader of a value shares    *)
(* the writer's object; it is written again only by the next call's Open,  *)
(* and passed on again before anyone reads it.                             *)
(***************************************************************************)
EXTENDS Integers, Sequences, FiniteSets, Functions

CONSTANTS
  SideSize,      \* the number of nodes
  SideName,      \* side data names
  Configs,       \* accepted configurations: records of
                 \*   gin, gout: the graph's input and output side data
                 \*   ins, outs: those of each node, outs as a list
                 \*   sorted: SideDataSortedNodes
  MaxAttempts    \* bound on the calls of PrepareForRun

SideNode == 0 .. (SideSize - 1)

\* sorted lists every node once, behind the nodes whose side data it reads:
\* what IsExistLoop returns (TopoSort).
TopologicalOrder(c) ==
  /\ c.sorted \in [1 .. SideSize -> SideNode]
  /\ IsInjective(c.sorted) /\ Range(c.sorted) = SideNode
  /\ \A j \in 1 .. SideSize : \A s \in c.ins[c.sorted[j]] \ Range(c.gin) :
       \E i \in 1 .. SideSize : i < j /\ s \in Range(c.outs[c.sorted[i]])

\* What GetSideNodeEdge accepts (GraphUnit).
Accepted(c) ==
  /\ c.gin \in Seq(SideName) /\ c.gout \in SUBSET SideName
  /\ c.ins \in [SideNode -> SUBSET SideName] /\ c.outs \in [SideNode -> Seq(SideName)]
  /\ \A s \in c.gout : \E n \in SideNode : s \in Range(c.outs[n])

ASSUME SideAssumption ==
  /\ SideSize \in Nat
  /\ MaxAttempts \in Nat
  /\ \A c \in Configs : Accepted(c) /\ TopologicalOrder(c)

VARIABLES
  sideConf,   \* the configuration
  given,      \* the names of the gInputSideData argument of this call
  slot,       \* slot[n][s]: InputSideData of node n
  gSlot,      \* gSlot[s]: OutputSideData of the graph
  sideStage,  \* "idle", "inputs", "open", "send", "ready" or "failed"
  sidePos,    \* position in gin, or in sorted
  out,        \* position in the list of a node's outputs
  attempt     \* the number of this call

sideVars == <<sideConf, given, slot, gSlot, sideStage, sidePos, out, attempt>>

SideInit ==
  /\ sideConf \in Configs
  /\ given = {}
  /\ slot = [n \in SideNode |-> [s \in SideName |-> 0]]
  /\ gSlot = [s \in SideName |-> 0]
  /\ sideStage = "idle"
  /\ sidePos = 1 /\ out = 1
  /\ attempt = 0

GraphGives(s) == s \in Range(sideConf.gin)

\* OutputSideDataManager.AddData: set s in every node that reads it.
Delivered(s) ==
  [n \in SideNode |-> [t \in SideName |->
     IF t = s /\ s \in sideConf.ins[n] THEN attempt ELSE slot[n][t]]]

\* A call; names the graph does not ask for are never looked up.
PrepareForRun(g) ==
  /\ sideStage \in {"idle", "failed", "ready"}
  /\ attempt < MaxAttempts
  /\ given' = g
  /\ attempt' = attempt + 1
  /\ sideStage' = "inputs" /\ sidePos' = 1
  /\ UNCHANGED <<sideConf, slot, gSlot, out>>

Fail ==
  /\ sideStage' = "failed"
  /\ UNCHANGED <<sideConf, given, slot, gSlot, sidePos, out, attempt>>

AddGraphInputSideData ==
  /\ sideStage = "inputs" /\ sidePos \in DOMAIN sideConf.gin
  /\ sideConf.gin[sidePos] \in given
  /\ slot' = Delivered(sideConf.gin[sidePos])
  /\ sidePos' = sidePos + 1
  /\ UNCHANGED <<sideConf, given, gSlot, sideStage, out, attempt>>

\* "sidedata (%s) not exist".
MissingSideData ==
  /\ sideStage = "inputs" /\ sidePos \in DOMAIN sideConf.gin
  /\ sideConf.gin[sidePos] \notin given
  /\ Fail

InputsDone ==
  /\ sideStage = "inputs" /\ sidePos \notin DOMAIN sideConf.gin
  /\ sideStage' = "open" /\ sidePos' = 1
  /\ UNCHANGED <<sideConf, given, slot, gSlot, out, attempt>>

\* Mutant of NodeAt: the nodes are opened in the order of the file.
NodeAtInFile(k) == k - 1

NodeAt(k) == sideConf.sorted[k]

\* Node.PrepareForRun: Task.Open reads its side data and writes its outputs,
Open ==
  /\ sideStage = "open" /\ sidePos <= SideSize
  /\ sideStage' = "send" /\ out' = 1
  /\ UNCHANGED <<sideConf, given, slot, gSlot, sidePos, attempt>>

\* Mutant of OpenError: the other nodes are opened all the same.
OpenErrorIgnored ==
  /\ sideStage = "open" /\ sidePos <= SideSize
  /\ sidePos' = sidePos + 1
  /\ UNCHANGED <<sideConf, given, slot, gSlot, sideStage, out, attempt>>

\* or fails, and with it the call;
OpenError ==
  /\ sideStage = "open" /\ sidePos <= SideSize
  /\ Fail

\* then AddAllData sets each output where it is read.  A name that the graph
\* provides is not read from a node.
AddData ==
  /\ sideStage = "send" /\ out \in DOMAIN sideConf.outs[NodeAt(sidePos)]
  /\ LET s == sideConf.outs[NodeAt(sidePos)][out]
     IN  /\ slot' = IF GraphGives(s) THEN slot ELSE Delivered(s)
         /\ gSlot' = IF s \in sideConf.gout THEN [gSlot EXCEPT ![s] = attempt] ELSE gSlot
  /\ out' = out + 1
  /\ UNCHANGED <<sideConf, given, sideStage, sidePos, attempt>>

AddAllDataDone ==
  /\ sideStage = "send" /\ out \notin DOMAIN sideConf.outs[NodeAt(sidePos)]
  /\ sideStage' = "open" /\ sidePos' = sidePos + 1
  /\ UNCHANGED <<sideConf, given, slot, gSlot, out, attempt>>

\* All nodes are open: the graph may run.
SetStatusReady ==
  /\ sideStage = "open" /\ sidePos > SideSize
  /\ sideStage' = "ready"
  /\ UNCHANGED <<sideConf, given, slot, gSlot, sidePos, out, attempt>>

SideNext ==
  \/ \E g \in SUBSET Range(sideConf.gin) : PrepareForRun(g)
  \/ AddGraphInputSideData \/ MissingSideData \/ InputsDone
  \/ Open \/ OpenError \/ AddData \/ AddAllDataDone \/ SetStatusReady

SideSpec == SideInit /\ [][SideNext]_sideVars
-----------------------------------------------------------------------------
SideTypeOK ==
  /\ sideConf \in Configs
  /\ given \in SUBSET SideName
  /\ slot \in [SideNode -> [SideName -> Nat]] /\ gSlot \in [SideName -> Nat]
  /\ sideStage \in {"idle", "inputs", "open", "send", "ready", "failed"}
  /\ sidePos \in Nat \ {0} /\ out \in Nat \ {0} /\ attempt \in Nat
  /\ sideStage = "send" => sidePos <= SideSize
  /\ sideStage = "ready" => sidePos > SideSize

\* The graph's own side data that this call has set.
GivenDone(s) ==
  \/ sideStage \in {"open", "send", "ready"} /\ GraphGives(s)
  \/ sideStage = "inputs" /\ \E i \in DOMAIN sideConf.gin : i < sidePos /\ sideConf.gin[i] = s

\* The node outputs that this call has passed on.
SentDone(s) ==
  /\ sideStage \in {"open", "send", "ready"}
  /\ \/ \E i \in 1 .. SideSize : i < sidePos /\ s \in Range(sideConf.outs[NodeAt(i)])
     \/ /\ sideStage = "send"
        /\ \E o \in DOMAIN sideConf.outs[NodeAt(sidePos)] :
             o < out /\ sideConf.outs[NodeAt(sidePos)][o] = s

\* What was passed on reached everyone who reads it, and is of this call.
DeliveredInv ==
  \A s \in SideName :
    /\ GivenDone(s) \/ (~ GraphGives(s) /\ SentDone(s)) =>
         \A n \in SideNode : s \in sideConf.ins[n] => slot[n][s] = attempt
    /\ SentDone(s) /\ s \in sideConf.gout => gSlot[s] = attempt

\* The inductive invariant of SideData_proofs.
SideInv == SideTypeOK /\ DeliveredInv

(***************************************************************************)
(* When a task's Open runs, each of its input side data is there, and was  *)
(* made by this call of PrepareForRun, not left by one that failed.        *)
(***************************************************************************)
OpenSeesInputs ==
  sideStage = "open" /\ sidePos <= SideSize =>
    \A s \in sideConf.ins[NodeAt(sidePos)] : slot[NodeAt(sidePos)][s] = attempt

(***************************************************************************)
(* A graph that is ready has all side data of the call that made it so,    *)
(* its outputs included.                                                   *)
(***************************************************************************)
ReadyIsComplete ==
  sideStage = "ready" =>
    /\ \A n \in SideNode : \A s \in sideConf.ins[n] : slot[n][s] = attempt
    /\ \A s \in sideConf.gout : gSlot[s] = attempt
=============================================================================
