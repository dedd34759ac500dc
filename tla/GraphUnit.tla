----------------------------- MODULE GraphUnit ------------------------------
(***************************************************************************)
(* How a graph configuration becomes wiring: GraphUnit.GetNodeEdge,        *)
(* GetNodeEdge and GetSourceEdge of dni/go/sdk/config/config.go, and       *)
(* LinkNodeEdge and LinkSourceEdge of graph.go.  GetSideNodeEdge and       *)
(* GetSideSourceEdge are the same code over the names of the side data.    *)
(*                                                                         *)
(* A configuration lists names: the graph's inputs and outputs, and the    *)
(* inputs and outputs of each node.  One step is one iteration of one of   *)
(* the loops; an early return with an error rejects the configuration.     *)
(***************************************************************************)
EXTENDS Wiring, FiniteSets

CONSTANTS
  UnitSize,       \* the number of nodes
  Name,           \* stream names
  Source, Sink,   \* the graph's InputHandler and OutputHandler
  GraphLists,     \* the lists a configuration may give for the graph,
  InLists,        \* for the inputs of a node
  OutLists        \* and for its outputs

UnitNode == 0 .. (UnitSize - 1)
Port == UnitNode \cup {Source}
Manager == UnitNode \cup {Sink}
NoNode == -1      \* the zero result of a failed map lookup

ASSUME ConfAssumption ==
  /\ UnitSize \in Nat
  /\ Source \notin UnitNode /\ Sink \notin UnitNode
  /\ GraphLists \subseteq Seq(Name)
  /\ InLists \subseteq Seq(Name)
  /\ OutLists \subseteq Seq(Name)

VARIABLES
  gInputs, gOutputs,   \* GraphInputStream.Name and GraphOutputStream.Name
  ins, outs,           \* InputStream.Name and OutputStream.Name of each node
  nodeOutputs,         \* nodeOutputs[s]: the node that outputs s
  nodeEdge,            \* nodeEdge[n][s]: the readers of n's output s, in order
  preMap,              \* preMap[n]: the nodes that n reads from
  sourceEdge,          \* sourceEdge[s]: the readers of the graph input s
  next,                \* the NextInputManagers of every OutputManager
  nid, pos,            \* the loops' positions
  stage                \* "check", "outputs", "edge", "loop", "source", "link",
                       \* "linked" or "rejected"

conf == <<gInputs, gOutputs, ins, outs>>
unitVars == <<conf, nodeOutputs, nodeEdge, preMap, sourceEdge, next, nid, pos, stage>>

NoEdges == [s \in Name |-> << >>]

UnitInit ==
  /\ gInputs \in GraphLists /\ gOutputs \in GraphLists
  /\ ins \in [UnitNode -> InLists] /\ outs \in [UnitNode -> OutLists]
  /\ nodeOutputs = [s \in Name |-> NoNode]
  /\ nodeEdge = [n \in UnitNode |-> NoEdges]
  /\ preMap = [n \in UnitNode |-> {}]
  /\ sourceEdge = NoEdges
  /\ next = [p \in Port |-> NoEdges]
  /\ nid = 0 /\ pos = 1
  /\ stage = "check"

Reject ==
  /\ stage' = "rejected"
  /\ UNCHANGED <<conf, nodeOutputs, nodeEdge, preMap, sourceEdge, next, nid, pos>>

\* An output of node n is already in the map, or twice in its list.
OutputTaken(n) ==
  \/ \E s \in Range(outs[n]) : nodeOutputs[s] # NoNode
  \/ ~ IsInjective(outs[n])

InputTwice(n) == ~ IsInjective(ins[n])

\* GraphUnit.GetNodeEdge, the loop over the nodes: names must not repeat.
CheckNode ==
  /\ stage = "check" /\ nid < UnitSize
  /\ ~ InputTwice(nid) /\ ~ OutputTaken(nid)
  /\ nodeOutputs' = [s \in Name |-> IF s \in Range(outs[nid]) THEN nid ELSE nodeOutputs[s]]
  /\ nid' = nid + 1
  /\ UNCHANGED <<conf, nodeEdge, preMap, sourceEdge, next, pos, stage>>

RejectNode ==
  /\ stage = "check" /\ nid < UnitSize
  /\ InputTwice(nid) \/ OutputTaken(nid)
  /\ Reject

CheckDone ==
  /\ stage = "check" /\ nid = UnitSize
  /\ stage' = "outputs"
  /\ UNCHANGED <<conf, nodeOutputs, nodeEdge, preMap, sourceEdge, next, nid, pos>>

\* Every graph output is an output of some node.
CheckOutputs ==
  /\ stage = "outputs"
  /\ \A s \in Range(gOutputs) : nodeOutputs[s] # NoNode
  /\ stage' = "edge" /\ nid' = 0 /\ pos' = 1
  /\ UNCHANGED <<conf, nodeOutputs, nodeEdge, preMap, sourceEdge, next>>

RejectOutputs ==
  /\ stage = "outputs"
  /\ \E s \in Range(gOutputs) : nodeOutputs[s] = NoNode
  /\ Reject

Reading(s) == nid < UnitSize /\ pos \in DOMAIN ins[nid] /\ ins[nid][pos] = s

\* Mutant of FromGraph: graph inputs are not told from node outputs.
FromGraphNot(s) == FALSE

FromGraph(s) == s \in Range(gInputs)

\* GetNodeEdge, one input of one node: a graph input is left to GetSourceEdge;
GraphInput(s) ==
  /\ stage = "edge" /\ Reading(s)
  /\ FromGraph(s)
  /\ pos' = pos + 1
  /\ UNCHANGED <<conf, nodeOutputs, nodeEdge, preMap, sourceEdge, next, nid, stage>>

\* an output of another node becomes an edge from it;
Edge(s) ==
  /\ stage = "edge" /\ Reading(s)
  /\ ~ FromGraph(s)
  /\ nodeOutputs[s] # NoNode
  /\ nodeEdge' = [nodeEdge EXCEPT ![nodeOutputs[s]][s] = Append(@, nid)]
  /\ preMap' = [preMap EXCEPT ![nid] = @ \cup {nodeOutputs[s]}]
  /\ pos' = pos + 1
  /\ UNCHANGED <<conf, nodeOutputs, sourceEdge, next, nid, stage>>

\* anything else has no source.
RejectInput(s) ==
  /\ stage = "edge" /\ Reading(s)
  /\ ~ FromGraph(s)
  /\ nodeOutputs[s] = NoNode
  /\ Reject

EdgeNext ==
  /\ stage \in {"edge", "source"} /\ nid < UnitSize
  /\ pos \notin DOMAIN ins[nid]
  /\ nid' = nid + 1 /\ pos' = 1
  /\ UNCHANGED <<conf, nodeOutputs, nodeEdge, preMap, sourceEdge, next, stage>>

EdgeDone ==
  /\ stage = "edge" /\ nid = UnitSize
  /\ stage' = "loop"
  /\ UNCHANGED <<conf, nodeOutputs, nodeEdge, preMap, sourceEdge, next, nid, pos>>

\* IsExistLoop's verdict, as TopoSort shows it to be.
IsExistLoop == \E S \in SUBSET UnitNode : S # {} /\ \A n \in S : preMap[n] \cap S # {}

CheckLoop ==
  /\ stage = "loop"
  /\ ~ IsExistLoop
  /\ stage' = "source" /\ nid' = 0 /\ pos' = 1
  /\ UNCHANGED <<conf, nodeOutputs, nodeEdge, preMap, sourceEdge, next>>

RejectLoop ==
  /\ stage = "loop"
  /\ IsExistLoop
  /\ Reject

\* GetSourceEdge, one input of one node.
SourceEdge(s) ==
  /\ stage = "source" /\ Reading(s)
  /\ sourceEdge' = IF s \in Range(gInputs)
                     THEN [sourceEdge EXCEPT ![s] = Append(@, nid)]
                     ELSE sourceEdge
  /\ pos' = pos + 1
  /\ UNCHANGED <<conf, nodeOutputs, nodeEdge, preMap, next, nid, stage>>

SourceDone ==
  /\ stage = "source" /\ nid = UnitSize
  /\ stage' = "link"
  /\ UNCHANGED <<conf, nodeOutputs, nodeEdge, preMap, sourceEdge, next, nid, pos>>

\* Mutant of LinkNodeEdge: every node feeds the graph's outputs.
LinkNodeEdgeOfName(n, s) ==
  IF s \in Range(gOutputs) THEN Append(nodeEdge[n][s], Sink) ELSE nodeEdge[n][s]

\* LinkNodeEdge: to the next nodes, then to the graph's output.
LinkNodeEdge(n, s) ==
  IF s \in Range(outs[n]) /\ s \in Range(gOutputs)
    THEN Append(nodeEdge[n][s], Sink)
    ELSE nodeEdge[n][s]

Link ==
  /\ stage = "link"
  /\ next' = [p \in Port |-> IF p = Source THEN sourceEdge
                                          ELSE [s \in Name |-> LinkNodeEdge(p, s)]]
  /\ stage' = "linked"
  /\ UNCHANGED <<conf, nodeOutputs, nodeEdge, preMap, sourceEdge, nid, pos>>

UnitNext ==
  \/ CheckNode \/ RejectNode \/ CheckDone
  \/ CheckOutputs \/ RejectOutputs
  \/ \E s \in Name : GraphInput(s) \/ Edge(s) \/ RejectInput(s)
  \/ EdgeNext \/ EdgeDone
  \/ CheckLoop \/ RejectLoop
  \/ \E s \in Name : SourceEdge(s)
  \/ SourceDone \/ Link

UnitSpec == UnitInit /\ [][UnitNext]_unitVars
-----------------------------------------------------------------------------
\* The channels: one for each input of each node and each output of the graph.
Chan == {x \in Manager \X Name :
           x[2] \in IF x[1] = Sink THEN Range(gOutputs) ELSE Range(ins[x[1]])}

Stages == {"check", "outputs", "edge", "loop", "source", "link", "linked", "rejected"}

UnitTypeOK ==
  /\ gInputs \in GraphLists /\ gOutputs \in GraphLists
  /\ ins \in [UnitNode -> InLists] /\ outs \in [UnitNode -> OutLists]
  /\ nodeOutputs \in [Name -> UnitNode \cup {NoNode}]
  /\ nodeEdge \in [UnitNode -> [Name -> Seq(UnitNode)]]
  /\ preMap \in [UnitNode -> SUBSET UnitNode]
  /\ sourceEdge \in [Name -> Seq(UnitNode)]
  /\ next \in [Port -> [Name -> Seq(Manager)]]
  /\ nid \in 0 .. UnitSize /\ pos \in Nat
  /\ stage \in Stages

\* The nodes whose names were checked.
Checked == IF stage = "check" THEN nid ELSE UnitSize

\* nodeOutputs is the inverse of the output lists seen so far.
NamesInv ==
  \A n \in UnitNode :
    /\ n < Checked => IsInjective(ins[n]) /\ IsInjective(outs[n])
    /\ \A s \in Name : nodeOutputs[s] = n <=> n < Checked /\ s \in Range(outs[n])

PosInv ==
  stage \in {"edge", "source"} /\ nid < UnitSize => pos \in 1 .. Len(ins[nid]) + 1

\* The loop over inputs that runs in stage st has passed input s of node m.
Passed(st, later, m, s) ==
  /\ s \in Range(ins[m])
  /\ \/ stage \in later
     \/ /\ stage = st
        /\ m < nid \/ (m = nid /\ \E j \in DOMAIN ins[m] : j < pos /\ ins[m][j] = s)

Edged(m, s) == Passed("edge", {"loop", "source", "link", "linked"}, m, s)
Sourced(m, s) == Passed("source", {"link", "linked"}, m, s)

\* Every reader seen so far is in exactly one list of readers, once: that of the
\* graph's input, or else that of the node whose output it is.
EdgeInv ==
  /\ \A p \in UnitNode, s \in Name :
       /\ IsInjective(nodeEdge[p][s])
       /\ \A m \in UnitNode :
            m \in Range(nodeEdge[p][s]) <=>
              Edged(m, s) /\ s \notin Range(gInputs) /\ nodeOutputs[s] = p
  /\ \A s \in Name :
       /\ IsInjective(sourceEdge[s])
       /\ \A m \in UnitNode :
            m \in Range(sourceEdge[s]) <=> Sourced(m, s) /\ s \in Range(gInputs)

\* What was seen so far has a source, and so have the graph's outputs.
SourcesInv ==
  /\ stage \in {"edge", "loop", "source", "link", "linked"} =>
       \A s \in Range(gOutputs) : nodeOutputs[s] # NoNode
  /\ \A m \in UnitNode, s \in Name :
       Edged(m, s) => s \in Range(gInputs) \/ nodeOutputs[s] # NoNode

LinkInv ==
  stage = "linked" =>
    /\ next[Source] = sourceEdge
    /\ \A n \in UnitNode, s \in Name : next[n][s] = LinkNodeEdge(n, s)

(***************************************************************************)
(* The inductive invariant of GraphUnit_proofs: of a configuration that    *)
(* was not rejected.                                                       *)
(***************************************************************************)
UnitInv ==
  /\ UnitTypeOK
  /\ stage # "rejected" => NamesInv /\ PosInv /\ EdgeInv /\ SourcesInv /\ LinkInv

(***************************************************************************)
(* An accepted configuration is wired as the runtime needs it: every       *)
(* channel has exactly one sender, even where a node outputs a name that   *)
(* is a graph input too.                                                   *)
(***************************************************************************)
Wired ==
  stage = "linked" =>
    /\ WellWired(Port, Name, Chan, next)
    /\ SingleWriter(UnitNode, outs)
    /\ AllFed(Port, Chan, next,
              [p \in Port |-> IF p \in UnitNode THEN Range(outs[p]) ELSE Range(gInputs)])

\* The nodes that n reads from, by name: a graph input hides a node's output.
ReadsFrom(n) ==
  {p \in UnitNode : \E s \in Range(ins[n]) \ Range(gInputs) : s \in Range(outs[p])}

\* The configurations that make sense.
WellFormed ==
  /\ \A n \in UnitNode : IsInjective(ins[n])
  /\ SingleWriter(UnitNode, outs)
  /\ \A s \in Range(gOutputs) : \E n \in UnitNode : s \in Range(outs[n])
  /\ \A n \in UnitNode : \A s \in Range(ins[n]) :
       s \in Range(gInputs) \/ \E m \in UnitNode : s \in Range(outs[m])
  /\ \A S \in SUBSET UnitNode : S # {} => \E n \in S : ReadsFrom(n) \cap S = {}

(***************************************************************************)
(* Exactly the configurations that make sense are accepted, whichever of   *)
(* the checks comes first.                                                 *)
(***************************************************************************)
VerdictRight ==
  /\ stage = "linked" => WellFormed
  /\ stage = "rejected" => ~ WellFormed
=============================================================================
