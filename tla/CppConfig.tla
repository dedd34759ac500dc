------------------------------ MODULE CppConfig -----------------------------
(***************************************************************************)
(* From a GraphConfig to a wired graph: ParsedGraphConfig::Initialize      *)
(* (graph_config.cc) registers the streams and the side data of the nodes  *)
(* in the order they are declared, Graph::Initialize (graph.cc) creates a  *)
(* manager per stream, and Node::Initialize (node.cc) enters the inputs of *)
(* the node as mirrors of the outputs they read.                           *)
(*                                                                         *)
(* What TagMap makes of a declaration is a sequence of names, or Malformed *)
(* (module TagMap).  A node name is a sequence: <<"A", 0>> is "A_0".       *)
(***************************************************************************)
EXTENDS Integers, Sequences, FiniteSets

CONSTANTS
  Name,        \* names of streams and of side data
  NodeName,    \* names a config may give, and their numbered forms
  Malformed,   \* a declaration NewTagMap rejects
  NoNode,      \* no node owns it: a graph input, or nothing
  Configs      \* the GraphConfigs to read

\* A node's name is its task's if the config gives none; tags is FALSE if one of
\* its four declarations is one that NewTagMap rejects, its info is FALSE if an
\* InputStreamInfo of it is rejected.
Names == Seq(Name)
Decl == Names \cup {Malformed}
NodeConfig == [name : NodeName, ins : Names, outs : Names,
               sins : Names, souts : Names, tags : BOOLEAN, info : BOOLEAN]

ASSUME ConfigAssumption ==
  /\ NoNode \notin NodeName
  /\ \A c \in Configs :
       /\ {c.gin, c.gside, c.gout} \subseteq Decl
       /\ c.nodes \in Seq(NodeConfig)
       /\ \A i \in DOMAIN c.nodes : \A k \in 0 .. Len(c.nodes) : c.nodes[i].name \o <<k>> # NoNode

VARIABLES
  cfg,      \* proto_
  phase,    \* what is initialised next, "done", "failed", or "crashed"
  pos,      \* how many of the nodes that phase is through with
  cname,    \* the NodeName of each node read so far
  side,     \* the table of side data
  strm,     \* the table of streams
  preds,    \* predecessors_ of each node
  sideMir,  \* the mirrors of each OutputSideDatumImpl
  strmMir,  \* the mirrors of each OutputStreamManager
  entered   \* how many inputs of the node that is initialised have their mirror

vars == <<cfg, phase, pos, cname, side, strm, preds, sideMir, strmMir, entered>>

N == Len(cfg.nodes)
Node == 1 .. N

\* The four containers ParsedGraphConfig keeps for streams, and again for side
\* data: the edges, and for a name the last output and the node it is of.
EmptyTable ==
  [outs |-> << >>, ins |-> << >>, toIndex |-> [n \in Name |-> 0],
   toNode |-> [n \in Name |-> NoNode],
   outBase |-> << >>, inBase |-> << >>]

Init ==
  /\ cfg \in Configs
  /\ phase = "nodes" /\ pos = 0
  /\ cname = << >> /\ side = EmptyTable /\ strm = EmptyTable
  /\ preds = [i \in Node |-> {}]
  /\ sideMir = << >> /\ strmMir = << >> /\ entered = 0
-----------------------------------------------------------------------------
(* ParsedGraphConfig *)

\* The node's own name if no other has it, else numbered in order.
CanonicalNodeName(i) ==
  LET base == cfg.nodes[i].name
      same == {j \in Node : cfg.nodes[j].name = base} IN
  IF Cardinality(same) <= 1 THEN base
  ELSE base \o <<Cardinality({j \in same : j < i})>>

Stop(p) ==
  /\ phase' = p
  /\ UNCHANGED <<cfg, pos, cname, side, strm, preds, sideMir, strmMir, entered>>

Fail == Stop("failed")

Goto(p) == phase' = p /\ pos' = 0

InitializeNode ==
  /\ phase = "nodes" /\ pos < N
  /\ cfg.nodes[pos + 1].tags /\ cfg.nodes[pos + 1].info
  /\ cname' = Append(cname, CanonicalNodeName(pos + 1))
  /\ pos' = pos + 1
  /\ UNCHANGED <<cfg, phase, side, strm, preds, sideMir, strmMir, entered>>

RejectNode ==
  /\ phase = "nodes" /\ pos < N
  /\ cfg.nodes[pos + 1].tags /\ ~ cfg.nodes[pos + 1].info
  /\ Fail

\* NodeConfig::Initialize does not look at what NewTagMap returns: the DtypeSet
\* of a malformed declaration is made from a null TagMap.
CrashOnNode ==
  /\ phase = "nodes" /\ pos < N
  /\ ~ cfg.nodes[pos + 1].tags
  /\ Stop("crashed")

NodesInitialized ==
  /\ phase = "nodes" /\ pos = N
  /\ Goto("graphSide")
  /\ UNCHANGED <<cfg, cname, side, strm, preds, sideMir, strmMir, entered>>

\* The last place of n in the declaration l.
LastPlace(l, n) ==
  CHOOSE k \in DOMAIN l : l[k] = n /\ \A j \in DOMAIN l : l[j] = n => j <= k

\* output_stream_to_index_[n] once the outputs l are entered.
OutputIndex(t, l, n) ==
  IF \E k \in DOMAIN l : l[k] = n
  THEN Len(t.outs) + LastPlace(l, n) ELSE t.toIndex[n]

\* Mutant of OwnerName: the name in the config, not the canonical one.
OwnerNameGiven(i) == cfg.nodes[i].name

\* What output_stream_to_node_ holds for an output of node i.
OwnerName(i) == cname[i]

\* Graph inputs are outputs of virtual nodes behind the real ones.
RegisterGraphInputs(t, l) ==
  [t EXCEPT !.outs = @ \o [k \in DOMAIN l |-> [name |-> l[k], type |-> "graph", index |-> N + k]],
            !.toIndex = [n \in Name |-> OutputIndex(t, l, n)]]

RegisterOutputs(t, l, i) ==
  [t EXCEPT !.outs = @ \o [k \in DOMAIN l |-> [name |-> l[k], type |-> "task", index |-> i]],
            !.toIndex = [n \in Name |-> OutputIndex(t, l, n)],
            !.toNode = [n \in Name |->
                          IF \E k \in DOMAIN l : l[k] = n THEN OwnerName(i) ELSE @[n]],
            !.outBase = Append(@, Len(t.outs))]

\* An input gets the output that has its name now, 0 (-1 in the code) if none.
RegisterInputs(t, l, i) ==
  [t EXCEPT !.ins = @ \o [k \in DOMAIN l |-> [name |-> l[k], index |-> i, up |-> t.toIndex[l[k]]]],
            !.inBase = Append(@, Len(t.ins))]

\* The predecessors the inputs l add.
Upstream(t, l) ==
  {t.toNode[l[k]] : k \in {k \in DOMAIN l : t.toIndex[l[k]] # 0}} \ {NoNode}

GraphSideData ==
  /\ phase = "graphSide" /\ cfg.gside # Malformed
  /\ side' = RegisterGraphInputs(side, cfg.gside)
  /\ Goto("side")
  /\ UNCHANGED <<cfg, cname, strm, preds, sideMir, strmMir, entered>>

\* Inputs before outputs: a node does not feed its own side data.
initializeNodeSideData ==
  /\ phase = "side" /\ pos < N
  /\ LET i == pos + 1
         c == cfg.nodes[i] IN
       /\ side' = RegisterOutputs(RegisterInputs(side, c.sins, i), c.souts, i)
       /\ preds' = [preds EXCEPT ![i] = @ \cup Upstream(side, c.sins)]
  /\ pos' = pos + 1
  /\ UNCHANGED <<cfg, phase, cname, strm, sideMir, strmMir, entered>>

SideDataInitialized ==
  /\ phase = "side" /\ pos = N
  /\ Goto("graphIn")
  /\ UNCHANGED <<cfg, cname, side, strm, preds, sideMir, strmMir, entered>>

GraphInputs ==
  /\ phase = "graphIn" /\ cfg.gin # Malformed
  /\ strm' = RegisterGraphInputs(strm, cfg.gin)
  /\ Goto("streams")
  /\ UNCHANGED <<cfg, cname, side, preds, sideMir, strmMir, entered>>

\* Outputs before inputs: a node may be its own upstream.
initializeNodeStreams ==
  /\ phase = "streams" /\ pos < N
  /\ LET i == pos + 1
         c == cfg.nodes[i]
         t == RegisterOutputs(strm, c.outs, i) IN
       /\ strm' = RegisterInputs(t, c.ins, i)
       /\ preds' = [preds EXCEPT ![i] = @ \cup Upstream(t, c.ins)]
  /\ pos' = pos + 1
  /\ UNCHANGED <<cfg, phase, cname, side, sideMir, strmMir, entered>>

\* need_sorting is never set, so the sort and the second pass do not run.
GraphOutputs ==
  /\ phase = "streams" /\ pos = N /\ cfg.gout # Malformed
  /\ Goto("graphStreams")
  /\ UNCHANGED <<cfg, cname, side, strm, preds, sideMir, strmMir, entered>>

RejectDeclaration ==
  /\ \/ phase = "graphSide" /\ cfg.gside = Malformed
     \/ phase = "graphIn" /\ cfg.gin = Malformed
     \/ phase = "streams" /\ pos = N /\ cfg.gout = Malformed
  /\ Fail
-----------------------------------------------------------------------------
(* Graph and Node *)

\* The k-th graph input is found again under its name.
OwnStream(k) ==
  LET e == strm.outs[strm.toIndex[cfg.gin[k]]] IN
  e.type = "graph" /\ e.index = N + k

InitializeStreams ==
  /\ phase = "graphStreams"
  /\ \A k \in DOMAIN cfg.gin : OwnStream(k)
  /\ strmMir' = [k \in DOMAIN strm.outs |-> << >>]
  /\ sideMir' = [k \in DOMAIN side.outs |-> << >>]
  /\ Goto("graphNodes")
  /\ UNCHANGED <<cfg, cname, side, strm, preds, entered>>

RejectStreams ==
  /\ phase = "graphStreams"
  /\ \E k \in DOMAIN cfg.gin : ~ OwnStream(k)
  /\ Fail

\* Mutant of InputSlot: the base of the node is left out.
InputSlotNoBase(t, i, k) == k

\* graph_cfg_->InputStreams()[base + i]
InputSlot(t, i, k) == t.inBase[i] + k

\* AddMirror on the upstream of input k of node i, if it has one.
AddMirror(mir, t, i, k) ==
  LET u == t.ins[InputSlot(t, i, k)].up IN
  IF u = 0 THEN mir ELSE [mir EXCEPT ![u] = Append(@, <<i, k>>)]

\* Node::Initialize of node pos + 1: its side data first, then its streams, an
\* input a step.
NumSide == Len(cfg.nodes[pos + 1].sins)
NumIn == Len(cfg.nodes[pos + 1].ins)

initializeInputSideData ==
  /\ phase = "graphNodes" /\ pos < N /\ entered < NumSide
  /\ sideMir' = AddMirror(sideMir, side, pos + 1, entered + 1)
  /\ entered' = entered + 1
  /\ UNCHANGED <<cfg, phase, pos, cname, side, strm, preds, strmMir>>

initializeInputStream ==
  /\ phase = "graphNodes" /\ pos < N /\ NumSide <= entered /\ entered < NumSide + NumIn
  /\ strmMir' = AddMirror(strmMir, strm, pos + 1, entered - NumSide + 1)
  /\ entered' = entered + 1
  /\ UNCHANGED <<cfg, phase, pos, cname, side, strm, preds, sideMir>>

NodeInitialize ==
  /\ phase = "graphNodes" /\ pos < N /\ entered = NumSide + NumIn
  /\ pos' = pos + 1 /\ entered' = 0
  /\ UNCHANGED <<cfg, phase, cname, side, strm, preds, sideMir, strmMir>>

Initialized ==
  /\ phase = "graphNodes" /\ pos = N
  /\ Goto("done")
  /\ UNCHANGED <<cfg, cname, side, strm, preds, sideMir, strmMir, entered>>

Next ==
  \/ InitializeNode \/ RejectNode \/ CrashOnNode \/ NodesInitialized
  \/ GraphSideData \/ initializeNodeSideData \/ SideDataInitialized
  \/ GraphInputs \/ initializeNodeStreams \/ GraphOutputs \/ RejectDeclaration
  \/ InitializeStreams \/ RejectStreams
  \/ initializeInputSideData \/ initializeInputStream \/ NodeInitialize \/ Initialized

Spec == Init /\ [][Next]_vars
-----------------------------------------------------------------------------
(* Properties *)

Done == phase = "done"

(***************************************************************************)
(* Types: the tables and the mirrors fit the nodes that are declared.      *)
(***************************************************************************)
Phases == {"nodes", "graphSide", "side", "graphIn", "streams", "graphStreams",
           "graphNodes", "done", "failed", "crashed"}

TypeOK ==
  /\ phase \in Phases /\ pos \in 0 .. N
  /\ \A i \in DOMAIN cname : i \in Node
  /\ \A t \in {side, strm} :
       /\ t.toIndex \in [Name -> 0 .. Len(t.outs)]
       /\ \A k \in DOMAIN t.ins : t.ins[k].up \in 0 .. Len(t.outs)

(***************************************************************************)
(* The reference: who feeds input n of node i.  The last of the nodes up   *)
(* to i (before i, for side data) that has an output of that name, else    *)
(* the graph, 0; -1 if nobody does.                                        *)
(***************************************************************************)
Feeder(gin, outs, last, n) ==
  LET w == {j \in 1 .. last : n \in {outs[j][k] : k \in DOMAIN outs[j]}} IN
  IF w # {} THEN CHOOSE j \in w : \A l \in w : l <= j
  ELSE IF n \in {gin[k] : k \in DOMAIN gin} THEN 0 ELSE -1

StreamFeeder(i, n) == Feeder(cfg.gin, [j \in Node |-> cfg.nodes[j].outs], i, n)
SideFeeder(i, n) == Feeder(cfg.gside, [j \in Node |-> cfg.nodes[j].souts], i - 1, n)

\* Input k of node i is mirrored once, at an output of its name of the feeder.
MirroredOnce(mir, t, i, k, n, feeder) ==
  LET at == {u \in DOMAIN mir : \E m \in DOMAIN mir[u] : mir[u][m] = <<i, k>>} IN
  IF feeder = -1 THEN at = {}
  ELSE \E u \in DOMAIN mir :
         /\ at = {u} /\ t.outs[u].name = n
         /\ Cardinality({m \in DOMAIN mir[u] : mir[u][m] = <<i, k>>}) = 1
         /\ IF feeder = 0 THEN t.outs[u].type = "graph"
            ELSE t.outs[u].type = "task" /\ t.outs[u].index = feeder

(***************************************************************************)
(* In a graph that is initialised every input receives from exactly the    *)
(* output its name stands for, once: bases and offsets of the flat lists   *)
(* the configuration keeps lead each node to its own inputs.               *)
(***************************************************************************)
WiredOnce ==
  Done => \A i \in Node :
    /\ \A k \in DOMAIN cfg.nodes[i].ins :
         LET n == cfg.nodes[i].ins[k] IN
         MirroredOnce(strmMir, strm, i, k, n, StreamFeeder(i, n))
    /\ \A k \in DOMAIN cfg.nodes[i].sins :
         LET n == cfg.nodes[i].sins[k] IN
         MirroredOnce(sideMir, side, i, k, n, SideFeeder(i, n))

(***************************************************************************)
(* The predecessors of a node, which order the tasks of a run, are exactly *)
(* the nodes that feed it.                                                 *)
(***************************************************************************)
Feeders(i) ==
  ({StreamFeeder(i, cfg.nodes[i].ins[k]) : k \in DOMAIN cfg.nodes[i].ins}
   \cup {SideFeeder(i, cfg.nodes[i].sins[k]) : k \in DOMAIN cfg.nodes[i].sins}) \ {0, -1}

PredecessorsFeed == Done => \A i \in Node : preds[i] = {cname[j] : j \in Feeders(i)}

(***************************************************************************)
(* The predecessors of a node are names of nodes declared no later: with   *)
(* names that differ a run can wait only for itself or for earlier nodes.  *)
(***************************************************************************)
PredsEarlier ==
  \A i \in DOMAIN preds : \A p \in preds[i] :
    \E j \in 1 .. i : j \in DOMAIN cname /\ cname[j] = p

(***************************************************************************)
(* A graph that is accepted has graph inputs of different names, and no    *)
(* node has one of them as an output: AddDatumToInputStream reaches the    *)
(* stream the nodes read.                                                  *)
(***************************************************************************)
GraphInputsOwn ==
  Done => \A k \in DOMAIN cfg.gin :
    /\ \A l \in DOMAIN cfg.gin : l # k => cfg.gin[l] # cfg.gin[k]
    /\ \A i \in Node : \A l \in DOMAIN cfg.nodes[i].outs : cfg.nodes[i].outs[l] # cfg.gin[k]

(***************************************************************************)
(* ParsedGraphConfig: in a graph that is initialised every input receives  *)
(* from exactly the output its name stands for, once, through the bases    *)
(* and offsets of the flat lists; its predecessors are the nodes that feed *)
(* it; and no node writes to a stream of the graph.                        *)
(***************************************************************************)
WiredAsNamed == WiredOnce /\ PredecessorsFeed /\ GraphInputsOwn

(***************************************************************************)
(* The comment on ParsedGraphConfig::Initialize: the config is sorted into *)
(* ordered nodes and edges.  So an input some node writes is connected,    *)
(* wherever that node is declared.                                         *)
(***************************************************************************)
WrittenIsConnected ==
  Done => \A i \in Node : \A k \in DOMAIN cfg.nodes[i].ins :
    (\E j \in Node : \E l \in DOMAIN cfg.nodes[j].outs :
       cfg.nodes[j].outs[l] = cfg.nodes[i].ins[k])
    => strm.ins[InputSlot(strm, i, k)].up # 0
=============================================================================
