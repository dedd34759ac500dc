------------------------ MODULE CppComponents_proofs ------------------------
(***************************************************************************)
(* What holds of the sequential C++ components whatever they are given.    *)
(*                                                                         *)
(* For every configuration: the predecessors of a node are named after     *)
(* nodes declared no later than it, and an accepted one is wired as its    *)
(* names say.  For any strings: an accepted declaration has each stream in *)
(* the slot its tag and index say.  For all packets of any NICs: what the  *)
(* merge of graph 3 erases it reports, and its rules cover what is         *)
(* reported.  For any captures: the parsers and the MFR input read what    *)
(* was written into the slot.  For any model: the rows of an ONNX result   *)
(* are those of its input.                                                 *)
(*                                                                         *)
(* Each component has an inductive invariant: whom the tables may name     *)
(* while the nodes are passed, and what an id of a stream resolves to; how *)
(* many strings are under the tags before a tag; how each NIC done was     *)
(* grouped; where the cursor stands after so many packets; which dimension *)
(* of an input a run may set.                                              *)
(***************************************************************************)
EXTENDS CppConfig, AttackTracing, TagMap, PacketParse, MfrInput, OnnxTask, SeqLemmas, FiniteSetTheorems, TLAPS

Fields == {"outs", "ins", "toIndex", "toNode", "outBase", "inBase"}
IsTable(t) == DOMAIN t = Fields
Unowned(t) == \A n \in Name : t.toNode[n] = NoNode
OwnedBy(t, last) ==
  \A n \in Name : t.toNode[n] = NoNode \/ \E j \in 1 .. last : t.toNode[n] = cname[j]

Progress ==
  /\ cfg \in Configs /\ phase \in Phases /\ pos \in 0 .. N
  /\ phase = "nodes" => DOMAIN cname = 1 .. pos
  /\ phase \notin {"nodes", "failed", "crashed"} => DOMAIN cname = Node

Tables ==
  /\ IsTable(side) /\ IsTable(strm)
  /\ phase \in {"nodes", "graphSide"} => Unowned(side)
  /\ phase = "side" => OwnedBy(side, pos)
  /\ phase \in {"nodes", "graphSide", "side", "graphIn"} => Unowned(strm)
  /\ phase = "streams" => OwnedBy(strm, pos)

PredsShape ==
  /\ DOMAIN preds = Node
  /\ phase = "nodes" => \A i \in Node : preds[i] = {}

IInv == Progress /\ Tables /\ PredsShape /\ PredsEarlier

\* cfg.nodes is a sequence of node configs.
LEMMA NodesType ==
  ASSUME cfg \in Configs
  PROVE  cfg.nodes \in Seq(NodeConfig) /\ N \in Nat
BY ConfigAssumption DEF N

\* The inputs of a node in a declaration are names.
LEMMA InsType ==
  ASSUME cfg \in Configs, NEW i \in Node
  PROVE  /\ cfg.nodes[i].ins \in Seq(Name) /\ cfg.nodes[i].sins \in Seq(Name)
         /\ i \in Nat
<1>1. cfg.nodes \in Seq(NodeConfig) /\ i \in 1 .. Len(cfg.nodes)
  BY NodesType DEF Node, N
<1> HIDE DEF NodeConfig
<1>2. cfg.nodes[i] \in NodeConfig /\ i \in Nat
  BY <1>1
<1> QED
  BY <1>2 DEF NodeConfig, Names

\* RegisterOutputs makes node i the owner of its outputs and of nothing else.
LEMMA RegisterOutputsOwner ==
  ASSUME NEW t, IsTable(t), NEW l, NEW i
  PROVE  /\ IsTable(RegisterOutputs(t, l, i))
         /\ \A n \in Name : RegisterOutputs(t, l, i).toNode[n] \in {cname[i], t.toNode[n]}
BY DEF RegisterOutputs, OwnerName, IsTable, Fields

\* Inputs leave the owners alone.
LEMMA RegisterInputsOwner ==
  ASSUME NEW t, IsTable(t), NEW l, NEW i
  PROVE  IsTable(RegisterInputs(t, l, i)) /\ RegisterInputs(t, l, i).toNode = t.toNode
BY DEF RegisterInputs, IsTable, Fields

\* Nor do graph inputs get an owner.
LEMMA RegisterGraphOwner ==
  ASSUME NEW t, IsTable(t), NEW l
  PROVE  IsTable(RegisterGraphInputs(t, l)) /\ RegisterGraphInputs(t, l).toNode = t.toNode
BY DEF RegisterGraphInputs, IsTable, Fields

\* An upstream node is one the table names.
LEMMA UpstreamOwned ==
  ASSUME NEW t, NEW last, OwnedBy(t, last), NEW l \in Seq(Name), NEW p \in Upstream(t, l)
  PROVE  \E j \in 1 .. last : p = cname[j]
<1>1. PICK k \in DOMAIN l : p = t.toNode[l[k]] /\ p # NoNode
  BY DEF Upstream
<1>2. l[k] \in Name
  BY <1>1
<1> QED
  BY <1>1, <1>2 DEF OwnedBy

\* Before anything is read nobody has a predecessor.
LEMMA InitIInv == Init => IInv
<1> SUFFICES ASSUME Init PROVE IInv
  OBVIOUS
<1>1. Progress
  <2>1. N \in Nat
    BY NodesType DEF Init
  <2> QED
    BY <2>1 DEF Init, Progress, Phases
<1>2. IsTable(EmptyTable) /\ Unowned(EmptyTable)
  BY DEF IsTable, EmptyTable, Fields, Unowned
<1>3. Tables
  BY <1>2 DEF Init, Tables
<1>4. PredsShape /\ PredsEarlier
  BY DEF Init, PredsShape, PredsEarlier
<1> QED
  BY <1>1, <1>3, <1>4 DEF IInv

\* A failed step leaves the names and the predecessors as they are.
LEMMA FailIInv == ASSUME IInv, Stop("failed") \/ Stop("crashed") PROVE IInv'
BY DEF IInv, Stop, Progress, Phases, N, Node, Tables, PredsShape, PredsEarlier

\* So does a step that only goes on to a later phase.
LEMMA GotoIInv ==
  ASSUME IInv, NEW p, Goto(p), UNCHANGED <<cfg, cname, preds, strm, side>>,
         phase \notin {"failed", "crashed"}, DOMAIN cname = Node,
         \/ p \in {"graphSide"} /\ Unowned(side) /\ Unowned(strm)
         \/ p = "graphIn" /\ Unowned(strm)
         \/ p \in {"graphStreams", "graphNodes", "done"}
  PROVE  IInv'
<1>1. N \in Nat /\ N' = N /\ Node' = Node
  BY NodesType DEF IInv, Progress, N, Node
<1>2. Progress'
  BY <1>1 DEF IInv, Progress, Phases, Goto
<1>3. Tables'
  BY DEF IInv, Tables, Goto, Unowned
<1>4. PredsShape' /\ PredsEarlier'
  BY <1>1 DEF IInv, PredsShape, PredsEarlier, Goto
<1> QED
  BY <1>2, <1>3, <1>4 DEF IInv

\* Every step of the initialisation keeps the invariant.
LEMMA NextIInv == IInv /\ [Next]_vars => IInv'
<1> SUFFICES ASSUME IInv, [Next]_vars PROVE IInv'
  OBVIOUS
<1>0. N \in Nat /\ Node = 1 .. N
  BY NodesType DEF IInv, Progress, Node
<1>a. ASSUME UNCHANGED cfg PROVE N' = N /\ Node' = Node
  BY <1>a DEF N, Node
<1>1. CASE UNCHANGED vars
  BY <1>1, <1>a DEF vars, IInv, Progress, Tables, IsTable, Unowned, OwnedBy, PredsShape, PredsEarlier
<1>2. CASE InitializeNode
  <2> DEFINE name == CanonicalNodeName(pos + 1)
  <2>1. /\ phase = "nodes" /\ pos < N /\ cname' = Append(cname, name) /\ pos' = pos + 1
        /\ UNCHANGED <<cfg, phase, side, strm, preds>>
    BY <1>2 DEF InitializeNode
  <2>2. DOMAIN cname' = 1 .. (pos + 1)
    BY <2>1 DEF IInv, Progress
  <2>3. Progress'
    BY <1>0, <1>a, <2>1, <2>2 DEF IInv, Progress
  <2>4. Tables'
    BY <2>1 DEF IInv, Tables, Unowned
  <2>5. PredsShape' /\ PredsEarlier'
    BY <1>a, <2>1 DEF IInv, PredsShape, PredsEarlier
  <2> QED
    BY <2>3, <2>4, <2>5 DEF IInv
<1>3. CASE RejectNode \/ CrashOnNode \/ RejectDeclaration \/ RejectStreams
  BY <1>3, FailIInv DEF RejectNode, CrashOnNode, Fail, RejectDeclaration, RejectStreams
<1>4. CASE NodesInitialized
  BY <1>4, <1>0, GotoIInv DEF NodesInitialized, IInv, Progress, Tables
<1>5. CASE GraphSideData
  <2>1. IsTable(side') /\ side'.toNode = side.toNode
    BY <1>5, RegisterGraphOwner DEF GraphSideData, IInv, Tables
  <2>2. Unowned(side)
    BY <1>5 DEF GraphSideData, IInv, Tables
  <2>3. OwnedBy(side, 0)'
    BY <2>1, <2>2 DEF Unowned, OwnedBy
  <2>4. Progress' /\ Tables'
    BY <1>5, <1>0, <1>a, <2>1, <2>3 DEF GraphSideData, Goto, IInv, Progress, Tables, Unowned, Phases
  <2> QED
    BY <1>5, <1>a, <2>4 DEF GraphSideData, Goto, IInv, PredsShape, PredsEarlier
<1>6. CASE initializeNodeSideData
  <2> DEFINE i == pos + 1
             c == cfg.nodes[i]
  <2>1. /\ phase = "side" /\ pos < N /\ pos' = pos + 1
        /\ side' = RegisterOutputs(RegisterInputs(side, c.sins, i), c.souts, i)
        /\ preds' = [preds EXCEPT ![i] = @ \cup Upstream(side, c.sins)]
        /\ UNCHANGED <<cfg, phase, cname, strm>>
    BY <1>6 DEF initializeNodeSideData
  <2>2. i \in Node /\ i \in Nat /\ pos \in Nat
    BY <1>0, <2>1 DEF IInv, Progress
  <2>3. c.sins \in Seq(Name)
    BY <2>2, InsType DEF IInv, Progress
  <2>4. OwnedBy(side, pos)
    BY <2>1 DEF IInv, Tables
  <2>5. \A p \in Upstream(side, c.sins) : \E j \in 1 .. pos : p = cname[j]
    BY <2>3, <2>4, UpstreamOwned
  <2> HIDE DEF c
  <2>6. IsTable(side') /\ \A n \in Name : side'.toNode[n] \in {cname[i], side.toNode[n]}
    <3>1. IsTable(RegisterInputs(side, c.sins, i)) /\ RegisterInputs(side, c.sins, i).toNode = side.toNode
      BY RegisterInputsOwner DEF IInv, Tables
    <3> QED
      BY <2>1, <3>1, RegisterOutputsOwner
  <2>7. OwnedBy(side, pos)'
    BY <2>1, <2>2, <2>4, <2>6 DEF OwnedBy
  <2>8. Progress' /\ Tables'
    BY <1>0, <1>a, <2>1, <2>2, <2>6, <2>7 DEF IInv, Progress, Tables, Unowned
  <2>9. PredsShape'
    BY <1>a, <2>1 DEF IInv, PredsShape
  <2>10. PredsEarlier'
    <3> SUFFICES ASSUME NEW k \in Node, NEW p \in preds'[k]
                 PROVE  \E j \in 1 .. k : j \in DOMAIN cname /\ cname[j] = p
      BY <2>1, <2>9, <1>a DEF PredsEarlier, PredsShape
    <3>1. CASE p \in preds[k]
      BY <3>1 DEF IInv, PredsEarlier, PredsShape
    <3>2. CASE p \notin preds[k]
      <4>1. k = i /\ p \in Upstream(side, c.sins)
        BY <3>2, <2>1, <2>2 DEF IInv, PredsShape
      <4>2. PICK j \in 1 .. pos : p = cname[j]
        BY <4>1, <2>5
      <4>3. DOMAIN cname = 1 .. N
        BY <2>1, <1>0 DEF IInv, Progress
      <4> QED
        BY <1>0, <2>1, <2>2, <4>1, <4>2, <4>3
    <3> QED
      BY <3>1, <3>2
  <2> QED
    BY <2>8, <2>9, <2>10 DEF IInv
<1>7. CASE SideDataInitialized
  BY <1>7, GotoIInv DEF SideDataInitialized, IInv, Progress, Tables
<1>8. CASE GraphInputs
  <2>1. IsTable(strm') /\ strm'.toNode = strm.toNode
    BY <1>8, RegisterGraphOwner DEF GraphInputs, IInv, Tables
  <2>2. Unowned(strm)
    BY <1>8 DEF GraphInputs, IInv, Tables
  <2>3. OwnedBy(strm, 0)'
    BY <2>1, <2>2 DEF Unowned, OwnedBy
  <2>4. Progress' /\ Tables'
    BY <1>8, <1>0, <1>a, <2>1, <2>3 DEF GraphInputs, Goto, IInv, Progress, Tables, Phases
  <2> QED
    BY <1>8, <1>a, <2>4 DEF GraphInputs, Goto, IInv, PredsShape, PredsEarlier
<1>9. CASE initializeNodeStreams
  <2> DEFINE i == pos + 1
             c == cfg.nodes[i]
             t == RegisterOutputs(strm, c.outs, i)
  <2>1. /\ phase = "streams" /\ pos < N /\ pos' = pos + 1
        /\ strm' = RegisterInputs(t, c.ins, i)
        /\ preds' = [preds EXCEPT ![i] = @ \cup Upstream(t, c.ins)]
        /\ UNCHANGED <<cfg, phase, cname, side>>
    BY <1>9 DEF initializeNodeStreams
  <2>2. i \in Node /\ i \in Nat /\ pos \in Nat
    BY <1>0, <2>1 DEF IInv, Progress
  <2>3. c.ins \in Seq(Name)
    BY <2>2, InsType DEF IInv, Progress
  <2>4. OwnedBy(strm, pos)
    BY <2>1 DEF IInv, Tables
  <2>5. IsTable(t) /\ \A n \in Name : t.toNode[n] \in {cname[i], strm.toNode[n]}
    BY RegisterOutputsOwner DEF IInv, Tables
  <2> HIDE DEF t, c
  <2>6. OwnedBy(t, i)
    BY <2>2, <2>4, <2>5 DEF OwnedBy
  <2>7. IsTable(strm') /\ strm'.toNode = t.toNode
    BY <2>1, <2>5, RegisterInputsOwner
  <2>8. OwnedBy(strm, pos)'
    BY <2>1, <2>6, <2>7 DEF OwnedBy
  <2>9. Progress' /\ Tables'
    BY <1>0, <1>a, <2>1, <2>2, <2>7, <2>8 DEF IInv, Progress, Tables
  <2>10. PredsShape'
    BY <1>a, <2>1 DEF IInv, PredsShape
  <2>11. PredsEarlier'
    <3> SUFFICES ASSUME NEW k \in Node, NEW p \in preds'[k]
                 PROVE  \E j \in 1 .. k : j \in DOMAIN cname /\ cname[j] = p
      BY <2>1, <2>10, <1>a DEF PredsEarlier, PredsShape
    <3>1. CASE p \in preds[k]
      BY <3>1 DEF IInv, PredsEarlier, PredsShape
    <3>2. CASE p \notin preds[k]
      <4>1. k = i /\ p \in Upstream(t, c.ins)
        BY <3>2, <2>1, <2>2 DEF IInv, PredsShape
      <4>2. PICK j \in 1 .. i : p = cname[j]
        BY <4>1, <2>3, <2>6, UpstreamOwned
      <4>3. DOMAIN cname = 1 .. N
        BY <2>1, <1>0 DEF IInv, Progress
      <4> QED
        BY <1>0, <2>1, <2>2, <4>1, <4>2, <4>3
    <3> QED
      BY <3>1, <3>2
  <2> QED
    BY <2>9, <2>10, <2>11 DEF IInv
<1>10. CASE GraphOutputs
  BY <1>10, GotoIInv DEF GraphOutputs, IInv, Progress
<1>11. CASE InitializeStreams
  BY <1>11, GotoIInv DEF InitializeStreams, IInv, Progress
<1>12. CASE initializeInputSideData \/ initializeInputStream
  BY <1>a, <1>12 DEF initializeInputSideData, initializeInputStream, IInv, Progress, Tables, PredsShape, PredsEarlier, IsTable, Unowned, OwnedBy
<1>14. CASE NodeInitialize
  <2>1. phase = "graphNodes" /\ pos < N /\ pos' = pos + 1 /\ UNCHANGED <<cfg, phase, cname, side, strm, preds>>
    BY <1>14 DEF NodeInitialize
  <2> QED
    BY <1>0, <1>a, <2>1 DEF IInv, Progress, Tables, PredsShape, PredsEarlier
<1>13. CASE Initialized
  BY <1>13, GotoIInv DEF Initialized, IInv, Progress
<1> QED
  BY <1>1, <1>2, <1>3, <1>4, <1>5, <1>6, <1>7, <1>8, <1>9, <1>10, <1>11, <1>12, <1>13, <1>14 DEF Next

\* AddPredecessor only ever names nodes declared up to this one, so with
\* names that differ the tasks Graph::PrepareForRun links have no long cycle.
THEOREM Predecessors == Spec => []PredsEarlier
<1>1. IInv => PredsEarlier
  BY DEF IInv
<1> QED
  BY <1>1, InitIInv, NextIInv, PTL DEF Spec
-----------------------------------------------------------------------------
(* The wiring *)

In(l, n) == \E k \in DOMAIN l : l[k] = n

\* One more node: it feeds what it writes.
LEMMA FeederWrites ==
  ASSUME NEW gin, NEW outs, NEW i \in Nat \ {0}, NEW n, In(outs[i], n)
  PROVE  Feeder(gin, outs, i, n) = i
<1> DEFINE Who == {j \in 1 .. i : n \in {outs[j][k] : k \in DOMAIN outs[j]}}
<1>1. \A j \in Who : j \in Nat /\ j <= i
  OBVIOUS
<1>2. i \in Who
  BY DEF In
<1> DEFINE f == CHOOSE j \in Who : \A l \in Who : l <= j
<1>3. f = i
  <2> HIDE DEF Who
  <2>1. \E j \in Who : \A l \in Who : l <= j
    BY <1>1, <1>2
  <2>2. f \in Who /\ \A l \in Who : l <= f
    BY <2>1
  <2> HIDE DEF f
  <2>3. f \in Nat /\ f <= i /\ i <= f
    BY <1>1, <1>2, <2>2
  <2> QED BY <2>3
<1> QED
  BY <1>2, <1>3 DEF Feeder

\* What it does not write is fed as before.
LEMMA FeederSkips ==
  ASSUME NEW gin, NEW outs, NEW i \in Nat \ {0}, NEW n, ~ In(outs[i], n)
  PROVE  Feeder(gin, outs, i, n) = Feeder(gin, outs, i - 1, n)
<1> DEFINE Who(last) == {j \in 1 .. last : n \in {outs[j][k] : k \in DOMAIN outs[j]}}
           F(w) == IF w # {} THEN CHOOSE j \in w : \A l \in w : l <= j
                   ELSE IF n \in {gin[k] : k \in DOMAIN gin} THEN 0 ELSE -1
<1>1. Who(i) = Who(i - 1)
  BY DEF In
<1>2. Feeder(gin, outs, i, n) = F(Who(i)) /\ Feeder(gin, outs, i - 1, n) = F(Who(i - 1))
  BY Zenon DEF Feeder
<1> HIDE DEF F, Who
<1> QED
  BY <1>1, <1>2

\* Before any node only the graph feeds.
LEMMA FeederGraph ==
  ASSUME NEW gin, NEW outs, NEW n
  PROVE  Feeder(gin, outs, 0, n) = IF In(gin, n) THEN 0 ELSE -1
<1>1. {j \in 1 .. 0 : n \in {outs[j][k] : k \in DOMAIN outs[j]}} = {}
  OBVIOUS
<1>2. In(gin, n) <=> n \in {gin[k] : k \in DOMAIN gin}
  BY DEF In
<1> QED
  BY <1>1, <1>2 DEF Feeder

\* The feeder is a node up to the last, and one no earlier than any writer.
LEMMA FeederRange ==
  ASSUME NEW gin, NEW outs, NEW last \in Nat, NEW n
  PROVE  /\ Feeder(gin, outs, last, n) \in -1 .. last
         /\ \A j \in 1 .. last : In(outs[j], n) => j <= Feeder(gin, outs, last, n)
<1> DEFINE Who == {j \in 1 .. last : n \in {outs[j][k] : k \in DOMAIN outs[j]}}
           f == Feeder(gin, outs, last, n)
<1>1. \A j \in 1 .. last : In(outs[j], n) => j \in Who
  BY DEF In
<1>2. CASE Who = {}
  <2>1. f \in {0, -1}
    BY <1>2 DEF Feeder
  <2> QED
    BY <1>1, <1>2, <2>1
<1>3. CASE Who # {}
  <2>1. \E x \in Who : \A y \in Who : y <= x
    <3>1. Who \subseteq 0 .. last
      OBVIOUS
    <3> QED BY <1>3, <3>1, LargestOf
  <2>2. f = CHOOSE j \in Who : \A l \in Who : l <= j
    BY <1>3 DEF Feeder
  <2>3. f \in Who /\ \A y \in Who : y <= f
    <3> HIDE DEF Who
    <3> QED BY <2>1, <2>2
  <2> QED
    BY <1>1, <2>3
<1> QED
  BY <1>2, <1>3

\* The last place of a name in a declaration is one of its places.
LEMMA LastPlaceIn ==
  ASSUME NEW l \in Seq(Name), NEW n, In(l, n)
  PROVE  LastPlace(l, n) \in 1 .. Len(l) /\ l[LastPlace(l, n)] = n
<1> DEFINE S == {k \in 1 .. Len(l) : l[k] = n}
<1>1. S # {} /\ S \subseteq 0 .. Len(l) /\ Len(l) \in Nat /\ DOMAIN l = 1 .. Len(l)
  BY DEF In
<1>2. \E x \in S : \A y \in S : y <= x
  BY <1>1, LargestOf
<1>3. \E k \in DOMAIN l : l[k] = n /\ \A j \in DOMAIN l : l[j] = n => j <= k
  BY <1>1, <1>2
<1> QED
  BY <1>1, <1>3 DEF LastPlace

OutEdge == [name : Name, type : {"graph", "task"}, index : Nat]
InEdge == [name : Name, index : Nat, up : Nat]
TableOK(t) ==
  /\ IsTable(t) /\ t.outs \in Seq(OutEdge) /\ t.ins \in Seq(InEdge)
  /\ t.toIndex \in [Name -> Nat] /\ t.inBase \in Seq(Nat)
  /\ t.toNode = [n \in Name |-> t.toNode[n]]

\* Edge u is an output named n of node f, or of the graph if f is 0.
FedBy(t, u, n, f) ==
  /\ u \in 1 .. Len(t.outs) /\ t.outs[u].name = n
  /\ IF f = 0 THEN t.outs[u].type = "graph"
     ELSE t.outs[u].type = "task" /\ t.outs[u].index = f

Resolved(t, u, n, f) == IF f = -1 THEN u = 0 ELSE FedBy(t, u, n, f)

\* All outputs of t are in s, where they were.
KeepsOuts(t, s) == Len(t.outs) <= Len(s.outs) /\ \A u \in 1 .. Len(t.outs) : s.outs[u] = t.outs[u]

LEMMA ResolvedKept ==
  ASSUME NEW t, NEW s, TableOK(t), TableOK(s), KeepsOuts(t, s), NEW u, NEW n, NEW f, Resolved(t, u, n, f)
  PROVE  Resolved(s, u, n, f)
<1>1. Len(t.outs) \in Nat /\ Len(s.outs) \in Nat
  BY DEF TableOK
<1> QED
  BY <1>1 DEF Resolved, FedBy, KeepsOuts

\* The edges of a declaration: those of a node i, and those of the graph.
LEMMA EdgesOf ==
  ASSUME NEW l \in Seq(Name), NEW i \in Nat, NEW type \in {"graph", "task"}, NEW e,
         \/ e = [k \in DOMAIN l |-> [name |-> l[k], type |-> type, index |-> i]]
         \/ e = [k \in DOMAIN l |-> [name |-> l[k], type |-> type, index |-> i + k]]
  PROVE  /\ e \in Seq(OutEdge) /\ Len(e) = Len(l) /\ Len(l) \in Nat /\ DOMAIN l = 1 .. Len(l)
         /\ \A k \in 1 .. Len(l) : e[k].name = l[k] /\ e[k].type = type
<1>1. Len(l) \in Nat /\ DOMAIN l = 1 .. Len(l) /\ \A k \in DOMAIN l : l[k] \in Name
  OBVIOUS
<1>2. \A k \in DOMAIN l : i + k \in Nat
  BY <1>1
<1>3. DOMAIN e = 1 .. Len(l) /\ \A k \in 1 .. Len(l) :
         \/ e[k] = [name |-> l[k], type |-> type, index |-> i]
         \/ e[k] = [name |-> l[k], type |-> type, index |-> i + k]
  BY <1>1
<1>4. \A k \in 1 .. Len(l) : e[k].name = l[k] /\ e[k].type = type /\ e[k] \in OutEdge
  BY <1>1, <1>2, <1>3 DEF OutEdge
<1>5. e = [k \in 1 .. Len(l) |-> e[k]]
  BY <1>1
<1> HIDE DEF OutEdge
<1>6. e \in [1 .. Len(l) -> OutEdge]
  BY <1>4, <1>5
<1> QED
  BY <1>1, <1>4, <1>6, FunctionIsSeq

\* The outputs of node i: their names stand for the new edges.
LEMMA OutputsEffect ==
  ASSUME NEW t, TableOK(t), NEW l \in Seq(Name), NEW i \in Nat \ {0}
  PROVE  LET s == RegisterOutputs(t, l, i) IN
         /\ TableOK(s) /\ KeepsOuts(t, s) /\ s.ins = t.ins /\ s.inBase = t.inBase
         /\ \A n \in Name :
              /\ In(l, n) => FedBy(s, s.toIndex[n], n, i) /\ s.toNode[n] = cname[i]
              /\ ~ In(l, n) => s.toIndex[n] = t.toIndex[n] /\ s.toNode[n] = t.toNode[n]
<1> DEFINE s == RegisterOutputs(t, l, i)
           e == [k \in DOMAIN l |-> [name |-> l[k], type |-> "task", index |-> i]]
<1>1. /\ s.outs = t.outs \o e /\ s.ins = t.ins /\ s.inBase = t.inBase
      /\ s.toIndex = [n \in Name |-> OutputIndex(t, l, n)]
      /\ s.toNode = [n \in Name |-> IF In(l, n) THEN cname[i] ELSE t.toNode[n]]
      /\ IsTable(s)
  BY DEF RegisterOutputs, TableOK, IsTable, Fields, In, OwnerName
<1>2. /\ e \in Seq(OutEdge) /\ Len(e) = Len(l) /\ Len(l) \in Nat /\ DOMAIN l = 1 .. Len(l)
      /\ \A k \in 1 .. Len(l) : e[k].name = l[k] /\ e[k].type = "task" /\ e[k].index = i
      /\ t.outs \in Seq(OutEdge) /\ Len(t.outs) \in Nat
  <2>1. /\ e \in Seq(OutEdge) /\ Len(e) = Len(l) /\ Len(l) \in Nat /\ DOMAIN l = 1 .. Len(l)
        /\ \A k \in 1 .. Len(l) : e[k].name = l[k] /\ e[k].type = "task"
    <3>1. i \in Nat /\ "task" \in {"graph", "task"}
      OBVIOUS
    <3> QED BY <3>1, EdgesOf
  <2>2. \A k \in DOMAIN l : e[k].index = i
    OBVIOUS
  <2>3. t.outs \in Seq(OutEdge) /\ Len(t.outs) \in Nat
    BY DEF TableOK
  <2> QED BY <2>1, <2>2, <2>3
<1> HIDE DEF s, e
<1>3. /\ s.outs \in Seq(OutEdge) /\ Len(s.outs) = Len(t.outs) + Len(l)
      /\ \A k \in 1 .. Len(t.outs) : s.outs[k] = t.outs[k]
      /\ \A k \in 1 .. Len(l) : s.outs[Len(t.outs) + k] = e[k]
  <2> HIDE DEF OutEdge
  <2>1. /\ t.outs \o e \in Seq(OutEdge) /\ Len(t.outs \o e) = Len(t.outs) + Len(e)
        /\ \A k \in 1 .. Len(t.outs) : (t.outs \o e)[k] = t.outs[k]
        /\ \A k \in 1 .. Len(e) : (t.outs \o e)[Len(t.outs) + k] = e[k]
    <3> DEFINE o == t.outs
    <3>1. o \in Seq(OutEdge) /\ e \in Seq(OutEdge)
      BY <1>2
    <3> HIDE DEF o
    <3>2. /\ o \o e \in Seq(OutEdge) /\ Len(o \o e) = Len(o) + Len(e)
          /\ \A k \in 1 .. Len(o) : (o \o e)[k] = o[k]
          /\ \A k \in 1 .. Len(e) : (o \o e)[Len(o) + k] = e[k]
      BY <3>1, Concat
    <3> QED BY <3>2 DEF o
  <2> QED BY <1>1, <1>2, <2>1
<1>4. KeepsOuts(t, s)
  BY <1>2, <1>3 DEF KeepsOuts
<1>5. \A n \in Name : s.toIndex[n] = OutputIndex(t, l, n)
  BY <1>1
<1>6. ASSUME NEW n \in Name, In(l, n)
      PROVE  FedBy(s, s.toIndex[n], n, i) /\ s.toIndex[n] \in Nat
  <2> DEFINE k == LastPlace(l, n)
  <2>1. k \in 1 .. Len(l) /\ l[k] = n
    BY <1>6, LastPlaceIn
  <2> HIDE DEF k
  <2>2. s.toIndex[n] = Len(t.outs) + k
    BY <1>5, <1>6 DEF OutputIndex, In, k
  <2>3. s.outs[Len(t.outs) + k].name = n /\ s.outs[Len(t.outs) + k].type = "task" /\ s.outs[Len(t.outs) + k].index = i
    BY <1>2, <1>3, <2>1
  <2> QED
    BY <1>2, <1>3, <2>1, <2>2, <2>3 DEF FedBy
<1>7. ASSUME NEW n \in Name, ~ In(l, n)
      PROVE  s.toIndex[n] = t.toIndex[n] /\ s.toIndex[n] \in Nat
  BY <1>5, <1>7 DEF OutputIndex, In, TableOK
<1>8. s.toIndex \in [Name -> Nat]
  BY <1>1, <1>6, <1>7
<1>9. s.toNode = [n \in Name |-> s.toNode[n]]
  BY <1>1
<1>10. TableOK(s)
  BY <1>1, <1>3, <1>8, <1>9 DEF TableOK
<1> QED
  BY <1>1, <1>4, <1>6, <1>7, <1>10 DEF s

\* The inputs of the graph: their names stand for the new edges, which nobody owns.
LEMMA GraphEffect ==
  ASSUME NEW t, TableOK(t), NEW l \in Seq(Name), N \in Nat
  PROVE  LET s == RegisterGraphInputs(t, l) IN
         /\ TableOK(s) /\ KeepsOuts(t, s) /\ s.ins = t.ins /\ s.inBase = t.inBase /\ s.toNode = t.toNode
         /\ \A n \in Name :
              /\ In(l, n) => FedBy(s, s.toIndex[n], n, 0)
              /\ ~ In(l, n) => s.toIndex[n] = t.toIndex[n]
<1> DEFINE s == RegisterGraphInputs(t, l)
           e == [k \in DOMAIN l |-> [name |-> l[k], type |-> "graph", index |-> N + k]]
<1>1. /\ s.outs = t.outs \o e /\ s.ins = t.ins /\ s.inBase = t.inBase
      /\ s.toIndex = [n \in Name |-> OutputIndex(t, l, n)]
      /\ s.toNode = t.toNode
      /\ IsTable(s)
  BY DEF RegisterGraphInputs, TableOK, IsTable, Fields
<1>2. /\ e \in Seq(OutEdge) /\ Len(e) = Len(l) /\ Len(l) \in Nat /\ DOMAIN l = 1 .. Len(l)
      /\ \A k \in 1 .. Len(l) : e[k].name = l[k] /\ e[k].type = "graph"
      /\ t.outs \in Seq(OutEdge) /\ Len(t.outs) \in Nat
  <2>1. "graph" \in {"graph", "task"}
    OBVIOUS
  <2> HIDE DEF OutEdge
  <2>2. t.outs \in Seq(OutEdge) /\ Len(t.outs) \in Nat
    BY DEF TableOK
  <2>3. /\ e \in Seq(OutEdge) /\ Len(e) = Len(l) /\ Len(l) \in Nat /\ DOMAIN l = 1 .. Len(l)
        /\ \A k \in 1 .. Len(l) : e[k].name = l[k] /\ e[k].type = "graph"
    BY <2>1, EdgesOf
  <2> QED BY <2>2, <2>3
<1> HIDE DEF s, e
<1>3. /\ s.outs \in Seq(OutEdge) /\ Len(s.outs) = Len(t.outs) + Len(l)
      /\ \A k \in 1 .. Len(t.outs) : s.outs[k] = t.outs[k]
      /\ \A k \in 1 .. Len(l) : s.outs[Len(t.outs) + k] = e[k]
  <2> HIDE DEF OutEdge
  <2>1. /\ t.outs \o e \in Seq(OutEdge) /\ Len(t.outs \o e) = Len(t.outs) + Len(e)
        /\ \A k \in 1 .. Len(t.outs) : (t.outs \o e)[k] = t.outs[k]
        /\ \A k \in 1 .. Len(e) : (t.outs \o e)[Len(t.outs) + k] = e[k]
    <3> DEFINE o == t.outs
    <3>1. o \in Seq(OutEdge) /\ e \in Seq(OutEdge)
      BY <1>2
    <3> HIDE DEF o
    <3>2. /\ o \o e \in Seq(OutEdge) /\ Len(o \o e) = Len(o) + Len(e)
          /\ \A k \in 1 .. Len(o) : (o \o e)[k] = o[k]
          /\ \A k \in 1 .. Len(e) : (o \o e)[Len(o) + k] = e[k]
      BY <3>1, Concat
    <3> QED BY <3>2 DEF o
  <2> QED BY <1>1, <1>2, <2>1
<1>4. KeepsOuts(t, s)
  BY <1>2, <1>3 DEF KeepsOuts
<1>5. \A n \in Name : s.toIndex[n] = OutputIndex(t, l, n)
  BY <1>1
<1>6. ASSUME NEW n \in Name, In(l, n)
      PROVE  FedBy(s, s.toIndex[n], n, 0) /\ s.toIndex[n] \in Nat
  <2> DEFINE k == LastPlace(l, n)
  <2>1. k \in 1 .. Len(l) /\ l[k] = n
    BY <1>6, LastPlaceIn
  <2> HIDE DEF k
  <2>2. s.toIndex[n] = Len(t.outs) + k
    BY <1>5, <1>6 DEF OutputIndex, In, k
  <2>3. s.outs[Len(t.outs) + k].name = n /\ s.outs[Len(t.outs) + k].type = "graph"
    BY <1>2, <1>3, <2>1
  <2> QED
    BY <1>2, <1>3, <2>1, <2>2, <2>3 DEF FedBy
<1>7. ASSUME NEW n \in Name, ~ In(l, n)
      PROVE  s.toIndex[n] = t.toIndex[n] /\ s.toIndex[n] \in Nat
  BY <1>5, <1>7 DEF OutputIndex, In, TableOK
<1>8. s.toIndex \in [Name -> Nat]
  BY <1>1, <1>6, <1>7
<1>9. TableOK(s)
  BY <1>1, <1>3, <1>8 DEF TableOK
<1> QED
  BY <1>1, <1>4, <1>6, <1>7, <1>9 DEF s

\* The table s is t with the inputs l of one more node, each with the edge its
\* name stands for.
InputsEntered(t, l, s) ==
  /\ TableOK(s) /\ s.outs = t.outs /\ s.toIndex = t.toIndex /\ s.toNode = t.toNode
  /\ Len(s.inBase) = Len(t.inBase) + 1
  /\ \A j \in 1 .. Len(t.inBase) : s.inBase[j] = t.inBase[j]
  /\ Len(t.ins) <= Len(s.ins)
  /\ \A k \in 1 .. Len(t.ins) : s.ins[k] = t.ins[k]
  /\ \A k \in DOMAIN l :
       /\ s.inBase[Len(s.inBase)] + k \in 1 .. Len(s.ins)
       /\ s.ins[s.inBase[Len(s.inBase)] + k].up = t.toIndex[l[k]]

LEMMA InputsEffect ==
  ASSUME NEW t, TableOK(t), NEW l \in Seq(Name), NEW i \in Nat \ {0}, NEW s, s = RegisterInputs(t, l, i)
  PROVE  InputsEntered(t, l, s)
<1> DEFINE e == [k \in DOMAIN l |-> [name |-> l[k], index |-> i, up |-> t.toIndex[l[k]]]]
<1>1. /\ s.ins = t.ins \o e /\ s.outs = t.outs /\ s.inBase = Append(t.inBase, Len(t.ins))
      /\ s.toIndex = t.toIndex /\ s.toNode = t.toNode /\ IsTable(s)
  BY DEF RegisterInputs, TableOK, IsTable, Fields
<1>2. /\ t.ins \in Seq(InEdge) /\ Len(t.ins) \in Nat
      /\ t.inBase \in Seq(Nat) /\ Len(t.inBase) \in Nat
      /\ Len(l) \in Nat /\ DOMAIN l = 1 .. Len(l) /\ \A k \in DOMAIN l : l[k] \in Name
      /\ \A n \in Name : t.toIndex[n] \in Nat
  <2> HIDE DEF InEdge
  <2> QED BY DEF TableOK
<1>3. /\ e \in Seq(InEdge) /\ Len(e) = Len(l)
      /\ \A k \in DOMAIN l : e[k].up = t.toIndex[l[k]]
  <2>1. \A k \in DOMAIN l : e[k] \in InEdge /\ e[k].up = t.toIndex[l[k]]
    BY <1>2 DEF InEdge
  <2> HIDE DEF InEdge
  <2>2. e \in [1 .. Len(l) -> InEdge]
    BY <1>2, <2>1
  <2> QED
    BY <1>2, <2>1, <2>2, FunctionIsSeq
<1> HIDE DEF e
<1>4. /\ s.ins \in Seq(InEdge) /\ Len(s.ins) = Len(t.ins) + Len(l)
      /\ \A k \in 1 .. Len(t.ins) : s.ins[k] = t.ins[k]
      /\ \A k \in 1 .. Len(l) : s.ins[Len(t.ins) + k] = e[k]
  <2> HIDE DEF InEdge
  <2>1. /\ t.ins \o e \in Seq(InEdge) /\ Len(t.ins \o e) = Len(t.ins) + Len(e)
        /\ \A k \in 1 .. Len(t.ins) : (t.ins \o e)[k] = t.ins[k]
        /\ \A k \in 1 .. Len(e) : (t.ins \o e)[Len(t.ins) + k] = e[k]
    <3> DEFINE o == t.ins
    <3>1. o \in Seq(InEdge) /\ e \in Seq(InEdge)
      BY <1>2, <1>3
    <3> HIDE DEF o
    <3>2. /\ o \o e \in Seq(InEdge) /\ Len(o \o e) = Len(o) + Len(e)
          /\ \A k \in 1 .. Len(o) : (o \o e)[k] = o[k]
          /\ \A k \in 1 .. Len(e) : (o \o e)[Len(o) + k] = e[k]
      BY <3>1, Concat
    <3> QED BY <3>2 DEF o
  <2> QED BY <1>1, <1>3, <2>1
<1>5. /\ s.inBase \in Seq(Nat) /\ Len(s.inBase) = Len(t.inBase) + 1
      /\ \A j \in 1 .. Len(t.inBase) : s.inBase[j] = t.inBase[j]
      /\ s.inBase[Len(s.inBase)] = Len(t.ins)
  BY <1>1, <1>2
<1>6. TableOK(s)
  BY <1>1, <1>4, <1>5 DEF TableOK
<1>7. \A k \in DOMAIN l : /\ Len(t.ins) + k \in 1 .. Len(s.ins)
                          /\ s.ins[Len(t.ins) + k].up = t.toIndex[l[k]]
  <2> HIDE DEF InEdge
  <2>1. \A k \in 1 .. Len(l) : Len(t.ins) + k \in 1 .. Len(s.ins)
    BY <1>2, <1>4
  <2> QED BY <1>2, <1>3, <1>4, <2>1
<1> QED
  BY <1>1, <1>2, <1>4, <1>5, <1>6, <1>7, SMTT(30) DEF InputsEntered

\* Each name stands for the edge of its feeder among the first nodes, and the
\* table names that node as its owner.
NamesRight(t, called, gin, outs, last) ==
  \A n \in Name :
    LET f == Feeder(gin, outs, last, n) IN
    /\ Resolved(t, t.toIndex[n], n, f)
    /\ t.toNode[n] = IF f \in {0, -1} THEN NoNode ELSE called[f]

Up(t, i, k) == t.ins[InputSlot(t, i, k)].up

\* Each input of the first nodes has the edge of its feeder.  A node is (off = 0)
\* or is not (off = 1) among those that may feed it.
InputsRight(t, gin, outs, ins, off, last) ==
  /\ Len(t.inBase) = last
  /\ \A i \in 1 .. last : \A k \in DOMAIN ins[i] :
       /\ InputSlot(t, i, k) \in 1 .. Len(t.ins)
       /\ Resolved(t, Up(t, i, k), ins[i][k], Feeder(gin, outs, i - off, ins[i][k]))

\* More outputs leave the inputs as they are.
LEMMA InputsKept ==
  ASSUME NEW t, NEW s, TableOK(t), TableOK(s), KeepsOuts(t, s), s.ins = t.ins, s.inBase = t.inBase,
         NEW gin, NEW outs, NEW ins, NEW off, NEW last, InputsRight(t, gin, outs, ins, off, last)
  PROVE  InputsRight(s, gin, outs, ins, off, last)
<1> SUFFICES ASSUME NEW i \in 1 .. last, NEW k \in DOMAIN ins[i]
             PROVE  /\ InputSlot(s, i, k) \in 1 .. Len(s.ins)
                    /\ Resolved(s, Up(s, i, k), ins[i][k], Feeder(gin, outs, i - off, ins[i][k]))
  BY DEF InputsRight
<1>1. InputSlot(s, i, k) = InputSlot(t, i, k) /\ Up(s, i, k) = Up(t, i, k)
  BY DEF InputSlot, Up
<1>2. /\ InputSlot(t, i, k) \in 1 .. Len(t.ins)
      /\ Resolved(t, Up(t, i, k), ins[i][k], Feeder(gin, outs, i - off, ins[i][k]))
  BY DEF InputsRight
<1> QED
  BY <1>1, <1>2, ResolvedKept

\* The graph's inputs in an empty table.
LEMMA GraphNamesRight ==
  ASSUME NEW gin \in Seq(Name), NEW outs, N \in Nat
  PROVE  LET s == RegisterGraphInputs(EmptyTable, gin) IN
         TableOK(s) /\ s.inBase = << >> /\ NamesRight(s, cname, gin, outs, 0)
<1> DEFINE s == RegisterGraphInputs(EmptyTable, gin)
<1>1. /\ TableOK(EmptyTable) /\ EmptyTable.inBase = << >>
      /\ \A n \in Name : EmptyTable.toIndex[n] = 0 /\ EmptyTable.toNode[n] = NoNode
  BY DEF EmptyTable, TableOK, IsTable, Fields
<1>2. /\ TableOK(s) /\ s.inBase = EmptyTable.inBase /\ s.toNode = EmptyTable.toNode
      /\ \A n \in Name :
           /\ In(gin, n) => FedBy(s, s.toIndex[n], n, 0)
           /\ ~ In(gin, n) => s.toIndex[n] = EmptyTable.toIndex[n]
  BY <1>1, GraphEffect
<1> HIDE DEF s
<1>3. ASSUME NEW n \in Name
      PROVE  LET f == Feeder(gin, outs, 0, n) IN
             /\ Resolved(s, s.toIndex[n], n, f)
             /\ s.toNode[n] = IF f \in {0, -1} THEN NoNode ELSE cname[f]
  BY <1>1, <1>2, FeederGraph DEF Resolved
<1> QED
  BY <1>1, <1>2, <1>3 DEF NamesRight, s

\* One node's outputs.
LEMMA OutputNamesRight ==
  ASSUME NEW t, TableOK(t), NEW i \in Nat \ {0}, NEW gin, NEW outs, outs[i] \in Seq(Name),
         NamesRight(t, cname, gin, outs, i - 1)
  PROVE  NamesRight(RegisterOutputs(t, outs[i], i), cname, gin, outs, i)
<1> DEFINE s == RegisterOutputs(t, outs[i], i)
<1>1. /\ TableOK(s) /\ KeepsOuts(t, s)
      /\ \A n \in Name :
           /\ In(outs[i], n) => FedBy(s, s.toIndex[n], n, i) /\ s.toNode[n] = cname[i]
           /\ ~ In(outs[i], n) => s.toIndex[n] = t.toIndex[n] /\ s.toNode[n] = t.toNode[n]
  BY OutputsEffect
<1> HIDE DEF s
<1> SUFFICES ASSUME NEW n \in Name
             PROVE  LET f == Feeder(gin, outs, i, n) IN
                    /\ Resolved(s, s.toIndex[n], n, f)
                    /\ s.toNode[n] = IF f \in {0, -1} THEN NoNode ELSE cname[f]
  BY DEF NamesRight, s
<1>2. CASE In(outs[i], n)
  <2>1. Feeder(gin, outs, i, n) = i
    BY <1>2, FeederWrites
  <2>2. i \notin {0, -1}
    OBVIOUS
  <2> QED
    BY <1>1, <1>2, <2>1, <2>2 DEF Resolved
<1>3. CASE ~ In(outs[i], n)
  <2>1. Feeder(gin, outs, i, n) = Feeder(gin, outs, i - 1, n)
    BY <1>3, FeederSkips
  <2> DEFINE f == Feeder(gin, outs, i - 1, n)
  <2>2. /\ Resolved(t, t.toIndex[n], n, f)
        /\ t.toNode[n] = IF f \in {0, -1} THEN NoNode ELSE cname[f]
    BY DEF NamesRight
  <2> HIDE DEF f
  <2>3. Resolved(s, t.toIndex[n], n, f)
    BY <1>1, <2>2, ResolvedKept
  <2> QED
    BY <1>1, <1>3, <2>1, <2>2, <2>3 DEF f
<1> QED
  BY <1>2, <1>3

\* One node's inputs.
LEMMA NextInputsRight ==
  ASSUME NEW t, TableOK(t), NEW i \in Nat \ {0}, NEW gin, NEW outs, NEW ins, NEW l \in Seq(Name), l = ins[i],
         NEW off \in {0, 1}, NamesRight(t, cname, gin, outs, i - off), InputsRight(t, gin, outs, ins, off, i - 1),
         NEW s, s = RegisterInputs(t, l, i)
  PROVE  /\ TableOK(s) /\ InputsRight(s, gin, outs, ins, off, i) /\ NamesRight(s, cname, gin, outs, i - off)
<1>1. /\ TableOK(s) /\ s.outs = t.outs /\ s.toIndex = t.toIndex /\ s.toNode = t.toNode
      /\ Len(s.inBase) = Len(t.inBase) + 1
      /\ \A j \in 1 .. Len(t.inBase) : s.inBase[j] = t.inBase[j]
      /\ Len(t.ins) <= Len(s.ins)
      /\ \A k \in 1 .. Len(t.ins) : s.ins[k] = t.ins[k]
      /\ \A k \in DOMAIN l :
           /\ s.inBase[Len(s.inBase)] + k \in 1 .. Len(s.ins)
           /\ s.ins[s.inBase[Len(s.inBase)] + k].up = t.toIndex[l[k]]
  <2>1. InputsEntered(t, l, s)
    BY InputsEffect
  <2> QED BY <2>1 DEF InputsEntered
<1>2. Len(t.inBase) = i - 1 /\ Len(s.inBase) = i /\ Len(t.ins) \in Nat /\ Len(s.ins) \in Nat
  BY <1>1 DEF InputsRight, TableOK
<1>3. \A u, n, f : Resolved(s, u, n, f) <=> Resolved(t, u, n, f)
  BY <1>1 DEF Resolved, FedBy
<1>4. NamesRight(s, cname, gin, outs, i - off)
  BY <1>1, <1>3 DEF NamesRight
<1>5. ASSUME NEW j \in 1 .. i, NEW k \in DOMAIN ins[j]
      PROVE  /\ InputSlot(s, j, k) \in 1 .. Len(s.ins)
             /\ Resolved(s, Up(s, j, k), ins[j][k], Feeder(gin, outs, j - off, ins[j][k]))
  <2>1. CASE j = i
    <3>1. InputSlot(s, i, k) \in 1 .. Len(s.ins) /\ Up(s, i, k) = t.toIndex[ins[i][k]]
      BY <1>1, <1>2, <1>5, <2>1 DEF InputSlot, Up
    <3>2. ins[i][k] \in Name
      BY <1>5, <2>1
    <3>3. Resolved(t, t.toIndex[ins[i][k]], ins[i][k], Feeder(gin, outs, i - off, ins[i][k]))
      BY <3>2 DEF NamesRight
    <3> QED
      BY <1>3, <2>1, <3>1, <3>3
  <2>2. CASE j # i
    <3>1. j \in 1 .. i - 1
      BY <1>5, <2>2
    <3>2. InputSlot(s, j, k) = InputSlot(t, j, k)
      BY <1>1, <1>2, <3>1 DEF InputSlot
    <3>3. /\ InputSlot(t, j, k) \in 1 .. Len(t.ins)
          /\ Resolved(t, Up(t, j, k), ins[j][k], Feeder(gin, outs, j - off, ins[j][k]))
      BY <1>5, <3>1 DEF InputsRight
    <3>4. InputSlot(s, j, k) \in 1 .. Len(s.ins) /\ Up(s, j, k) = Up(t, j, k)
      BY <1>1, <1>2, <3>2, <3>3 DEF Up
    <3> QED
      BY <1>3, <3>3, <3>4
  <2> QED
    BY <2>1, <2>2
<1>6. InputsRight(s, gin, outs, ins, off, i)
  BY <1>2, <1>5 DEF InputsRight
<1> QED
  BY <1>1, <1>4, <1>6

\* The predecessors the inputs l add are the nodes that feed them.
FeederNames(called, gin, outs, last, l) ==
  {called[j] : j \in {Feeder(gin, outs, last, l[k]) : k \in DOMAIN l} \ {0, -1}}

LEMMA UpstreamFeeds ==
  ASSUME NEW t, NEW gin, NEW outs, NEW last \in 0 .. N, N \in Nat, NamesRight(t, cname, gin, outs, last),
         NEW l \in Seq(Name), \A j \in Node : cname[j] # NoNode
  PROVE  Upstream(t, l) = FeederNames(cname, gin, outs, last, l)
<1> DEFINE F(k) == Feeder(gin, outs, last, l[k])
<1>1. ASSUME NEW k \in DOMAIN l
      PROVE  /\ F(k) \in -1 .. last
             /\ F(k) = -1 => t.toIndex[l[k]] = 0
             /\ F(k) # -1 => t.toIndex[l[k]] # 0
             /\ F(k) \in {0, -1} => t.toNode[l[k]] = NoNode
             /\ F(k) \notin {0, -1} => t.toNode[l[k]] = cname[F(k)]
  <2>1. l[k] \in Name
    OBVIOUS
  <2>2. F(k) \in -1 .. last
    BY FeederRange
  <2> QED
    BY <2>1, <2>2 DEF NamesRight, Resolved, FedBy
<1>2. ASSUME NEW k \in DOMAIN l, F(k) \notin {0, -1}
      PROVE  cname[F(k)] # NoNode
  BY <1>1, <1>2 DEF Node
<1> HIDE DEF F
<1>3. Upstream(t, l) = {t.toNode[l[k]] : k \in {k \in DOMAIN l : F(k) \notin {0, -1}}}
  <2>1. ASSUME NEW x \in Upstream(t, l)
        PROVE  x \in {t.toNode[l[k]] : k \in {k \in DOMAIN l : F(k) \notin {0, -1}}}
    <3>1. PICK k \in DOMAIN l : x = t.toNode[l[k]] /\ x # NoNode
      BY <2>1 DEF Upstream
    <3> QED
      BY <1>1, <3>1
  <2>2. ASSUME NEW k \in DOMAIN l, F(k) \notin {0, -1}
        PROVE  t.toNode[l[k]] \in Upstream(t, l)
    BY <1>1, <1>2, <2>2 DEF Upstream
  <2> QED
    BY <2>1, <2>2
<1>4. ASSUME NEW x \in {t.toNode[l[k]] : k \in {k \in DOMAIN l : F(k) \notin {0, -1}}}
      PROVE  x \in FeederNames(cname, gin, outs, last, l)
  <2>1. PICK k \in DOMAIN l : F(k) \notin {0, -1} /\ x = cname[F(k)]
    BY <1>1, <1>4
  <2> QED
    BY <2>1 DEF FeederNames, F
<1>5. ASSUME NEW x \in FeederNames(cname, gin, outs, last, l)
      PROVE  x \in {t.toNode[l[k]] : k \in {k \in DOMAIN l : F(k) \notin {0, -1}}}
  <2>1. PICK k \in DOMAIN l : F(k) \notin {0, -1} /\ x = cname[F(k)]
    BY <1>5 DEF FeederNames, F
  <2> QED
    BY <1>1, <2>1
<1> QED
  BY <1>3, <1>4, <1>5

\* Inputs entered so far: those of the first nodes, and some of the next.
Passed(i, k, last, some) == i <= last \/ (i = last + 1 /\ k <= some)

MirrorPlace == Nat \X Nat

\* The mirrors are these inputs, each once, at the output it has.
MirrorsRight(nodes, mir, t, ins, last, some) ==
  /\ DOMAIN mir = 1 .. Len(t.outs)
  /\ \A u \in DOMAIN mir :
       /\ mir[u] \in Seq(MirrorPlace)
       /\ \A m \in 1 .. Len(mir[u]) : \E i \in nodes : \E k \in DOMAIN ins[i] :
            mir[u][m] = <<i, k>> /\ Passed(i, k, last, some) /\ Up(t, i, k) = u
       /\ \A m, l \in 1 .. Len(mir[u]) : mir[u][m] = mir[u][l] => m = l
  /\ \A i \in nodes : \A k \in DOMAIN ins[i] :
       Passed(i, k, last, some) /\ Up(t, i, k) # 0 =>
         /\ Up(t, i, k) \in DOMAIN mir
         /\ \E m \in 1 .. Len(mir[Up(t, i, k)]) : mir[Up(t, i, k)][m] = <<i, k>>

LEMMA AddMirrorRight ==
  ASSUME NEW mir, NEW t, NEW ins, NEW last \in Nat, NEW some \in Nat, N \in Nat,
         MirrorsRight(Node, mir, t, ins, last, some), last + 1 \in Node, some + 1 \in DOMAIN ins[last + 1],
         \A i \in Node : DOMAIN ins[i] \subseteq Nat,
         Up(t, last + 1, some + 1) \in 0 .. Len(t.outs), Len(t.outs) \in Nat
  PROVE  MirrorsRight(Node, AddMirror(mir, t, last + 1, some + 1), t, ins, last, some + 1)
<1> DEFINE u == Up(t, last + 1, some + 1)
           e == <<last + 1, some + 1>>
           new == AddMirror(mir, t, last + 1, some + 1)
           up(i, k) == Up(t, i, k)
<1>0. \A i \in Node : i \in Nat
  BY DEF Node
<1>1. \A i \in Node : \A k \in DOMAIN ins[i] :
        /\ Passed(i, k, last, some + 1) => Passed(i, k, last, some) \/ (i = last + 1 /\ k = some + 1)
        /\ Passed(i, k, last, some) => Passed(i, k, last, some + 1)
        /\ ~ Passed(last + 1, some + 1, last, some)
        /\ Passed(last + 1, some + 1, last, some + 1)
  <2> SUFFICES ASSUME NEW i \in Node, NEW k \in DOMAIN ins[i]
               PROVE  /\ Passed(i, k, last, some + 1) => Passed(i, k, last, some) \/ (i = last + 1 /\ k = some + 1)
                      /\ Passed(i, k, last, some) => Passed(i, k, last, some + 1)
                      /\ ~ Passed(last + 1, some + 1, last, some)
                      /\ Passed(last + 1, some + 1, last, some + 1)
    OBVIOUS
  <2>1. i \in Nat /\ k \in Nat
    BY <1>0
  <2> QED
    BY <2>1 DEF Passed
<1>a. \A v \in DOMAIN mir :
        /\ mir[v] \in Seq(MirrorPlace) /\ Len(mir[v]) \in Nat
        /\ \A m \in 1 .. Len(mir[v]) : \E i \in Node : \E k \in DOMAIN ins[i] :
             mir[v][m] = <<i, k>> /\ Passed(i, k, last, some) /\ Up(t, i, k) = v
        /\ \A m, l \in 1 .. Len(mir[v]) : mir[v][m] = mir[v][l] => m = l
  <2> SUFFICES ASSUME NEW v \in DOMAIN mir
               PROVE  /\ mir[v] \in Seq(MirrorPlace) /\ Len(mir[v]) \in Nat
                      /\ \A m \in 1 .. Len(mir[v]) : \E i \in Node : \E k \in DOMAIN ins[i] :
                           mir[v][m] = <<i, k>> /\ Passed(i, k, last, some) /\ Up(t, i, k) = v
                      /\ \A m, l \in 1 .. Len(mir[v]) : mir[v][m] = mir[v][l] => m = l
    BY Zenon
  <2>1. mir[v] \in Seq(MirrorPlace)
    BY Zenon DEF MirrorsRight
  <2>2. Len(mir[v]) \in Nat
    BY ONLY <2>1
  <2>3. \A m \in 1 .. Len(mir[v]) : \E i \in Node : \E k \in DOMAIN ins[i] :
          mir[v][m] = <<i, k>> /\ Passed(i, k, last, some) /\ Up(t, i, k) = v
    BY Zenon DEF MirrorsRight
  <2>4. \A m, l \in 1 .. Len(mir[v]) : mir[v][m] = mir[v][l] => m = l
    BY Zenon DEF MirrorsRight
  <2> QED
    BY <2>1, <2>2, <2>3, <2>4
<1>b. \A i \in Node : \A k \in DOMAIN ins[i] :
        Passed(i, k, last, some) /\ Up(t, i, k) # 0 =>
          /\ Up(t, i, k) \in DOMAIN mir
          /\ \E m \in 1 .. Len(mir[Up(t, i, k)]) : mir[Up(t, i, k)][m] = <<i, k>>
  BY Zenon DEF MirrorsRight
<1>2. CASE u = 0
  <2>1. new = mir
    BY <1>2 DEF AddMirror, Up
  <2>2. \A v \in DOMAIN mir : \A m \in 1 .. Len(mir[v]) : \E i \in Node : \E k \in DOMAIN ins[i] :
          mir[v][m] = <<i, k>> /\ Passed(i, k, last, some + 1) /\ Up(t, i, k) = v
    BY <1>1, <1>a
  <2>3. \A i \in Node : \A k \in DOMAIN ins[i] :
          Passed(i, k, last, some + 1) /\ Up(t, i, k) # 0 =>
            /\ Up(t, i, k) \in DOMAIN mir
            /\ \E m \in 1 .. Len(mir[Up(t, i, k)]) : mir[Up(t, i, k)][m] = <<i, k>>
    BY <1>1, <1>2, <1>b, Zenon
  <2>4. MirrorsRight(Node, mir, t, ins, last, some + 1)
    BY <1>a, <2>2, <2>3, Zenon DEF MirrorsRight
  <2> QED
    BY <2>1, <2>4
<1>3. CASE u # 0
  <2>1. u \in DOMAIN mir /\ mir[u] \in Seq(MirrorPlace) /\ e \in MirrorPlace
    BY <1>3 DEF MirrorsRight, MirrorPlace
  <2>2. new = [mir EXCEPT ![u] = Append(@, e)]
    BY <1>3 DEF AddMirror, Up
  <2>3. DOMAIN new = DOMAIN mir /\ new[u] = Append(mir[u], e) /\ \A v \in DOMAIN mir : v # u => new[v] = mir[v]
    BY <2>1, <2>2
  <2> HIDE DEF u, e, new
  <2>4. /\ new[u] \in Seq(MirrorPlace) /\ Len(new[u]) = Len(mir[u]) + 1 /\ Len(mir[u]) \in Nat
        /\ \A m \in 1 .. Len(mir[u]) : new[u][m] = mir[u][m]
        /\ new[u][Len(mir[u]) + 1] = e
    BY <2>1, <2>3
  <2>5. \A m \in 1 .. Len(mir[u]) : mir[u][m] # e
    <3> SUFFICES ASSUME NEW m \in 1 .. Len(mir[u]), mir[u][m] = e PROVE FALSE
      OBVIOUS
    <3>1a. PICK i \in Node : \E k \in DOMAIN ins[i] : mir[u][m] = <<i, k>> /\ Passed(i, k, last, some)
      BY <2>1 DEF MirrorsRight
    <3>1. PICK k \in DOMAIN ins[i] : mir[u][m] = <<i, k>> /\ Passed(i, k, last, some)
      BY <3>1a
    <3>2. i = last + 1 /\ k = some + 1
      BY <3>1 DEF e
    <3> QED
      BY <1>1, <3>1, <3>2
  <2>6. ASSUME NEW v \in DOMAIN new, NEW m \in 1 .. Len(new[v])
        PROVE  \E i \in Node : \E k \in DOMAIN ins[i] :
                 new[v][m] = <<i, k>> /\ Passed(i, k, last, some + 1) /\ up(i, k) = v
    <3>1. CASE v = u /\ m = Len(mir[u]) + 1
      <4>1. new[v][m] = <<last + 1, some + 1>> /\ up(last + 1, some + 1) = v
        BY <2>4, <3>1 DEF u, e
      <4> QED
        BY <1>1, <4>1
    <3>2. CASE ~ (v = u /\ m = Len(mir[u]) + 1)
      <4>1. m \in 1 .. Len(mir[v]) /\ new[v][m] = mir[v][m]
        <5>1. CASE v = u
          BY <2>4, <2>6, <3>2, <5>1
        <5>2. CASE v # u
          BY <2>3, <2>6, <5>2
        <5> QED BY <5>1, <5>2
      <4>2a. PICK i \in Node : \E k \in DOMAIN ins[i] : mir[v][m] = <<i, k>> /\ Passed(i, k, last, some) /\ up(i, k) = v
        BY <2>3, <4>1, SMTT(30) DEF MirrorsRight
      <4>2. PICK k \in DOMAIN ins[i] : mir[v][m] = <<i, k>> /\ Passed(i, k, last, some) /\ up(i, k) = v
        BY <4>2a
      <4> QED
        BY <1>1, <4>1, <4>2
    <3> QED
      BY <3>1, <3>2
  <2>7. ASSUME NEW v \in DOMAIN new, NEW m \in 1 .. Len(new[v]), NEW l \in 1 .. Len(new[v]), new[v][m] = new[v][l]
        PROVE  m = l
    <3>1. \A x, y \in 1 .. Len(mir[v]) : mir[v][x] = mir[v][y] => x = y
      BY <2>3 DEF MirrorsRight
    <3>2. CASE v # u
      BY <2>3, <2>7, <3>1, <3>2
    <3>3. CASE v = u
      <4>1. m \in 1 .. Len(mir[u]) + 1 /\ l \in 1 .. Len(mir[u]) + 1 /\ new[u][m] = new[u][l]
        BY <2>4, <2>7, <3>3
      <4>2. CASE m = Len(mir[u]) + 1 /\ l = Len(mir[u]) + 1
        BY <4>2
      <4>3. CASE m \in 1 .. Len(mir[u]) /\ l \in 1 .. Len(mir[u])
        BY <2>4, <3>1, <3>3, <4>1, <4>3
      <4>4. CASE (m \in 1 .. Len(mir[u])) # (l \in 1 .. Len(mir[u]))
        <5>1. new[u][Len(mir[u]) + 1] = e /\ \A x \in 1 .. Len(mir[u]) : new[u][x] # e
          BY <2>4, <2>5
        <5>2. m = Len(mir[u]) + 1 \/ l = Len(mir[u]) + 1
          BY <2>4, <4>1, <4>4
        <5> QED BY <4>1, <4>4, <5>1, <5>2
      <4> QED
        BY <2>4, <4>1, <4>2, <4>3, <4>4
    <3> QED
      BY <3>2, <3>3
  <2>8. ASSUME NEW i \in Node, NEW k \in DOMAIN ins[i], Passed(i, k, last, some + 1), up(i, k) # 0
        PROVE  /\ up(i, k) \in DOMAIN new
               /\ \E m \in 1 .. Len(new[up(i, k)]) : new[up(i, k)][m] = <<i, k>>
    <3>1. CASE i = last + 1 /\ k = some + 1
      <4>1. up(i, k) = u /\ <<i, k>> = e
        BY <3>1 DEF u, e
      <4>2. Len(mir[u]) + 1 \in 1 .. Len(new[u])
        BY <2>4
      <4> HIDE DEF up
      <4> QED
        BY <2>1, <2>3, <2>4, <4>1, <4>2
    <3>2. CASE Passed(i, k, last, some)
      <4>1. PICK m \in 1 .. Len(mir[up(i, k)]) : mir[up(i, k)][m] = <<i, k>> /\ up(i, k) \in DOMAIN mir
        BY <1>b, <2>8, <3>2, Zenon
      <4> HIDE DEF up
      <4>2. m \in 1 .. Len(new[up(i, k)]) /\ new[up(i, k)][m] = <<i, k>>
        <5>1. CASE up(i, k) = u
          <6>1. m \in 1 .. Len(mir[u]) /\ mir[u][m] = <<i, k>>
            BY <4>1, <5>1
          <6>2. m \in 1 .. Len(new[u]) /\ new[u][m] = <<i, k>>
            <7>1. m \in 1 .. Len(new[u])
              BY <2>4, <6>1
            <7>2. new[u][m] = mir[u][m]
              BY <2>4, <6>1
            <7> QED BY <6>1, <7>1, <7>2
          <6> QED BY <5>1, <6>2
        <5>2. CASE up(i, k) # u
          BY <2>3, <4>1, <5>2
        <5> QED BY <5>1, <5>2
      <4> QED
        BY <2>3, <4>1, <4>2
    <3> QED
      BY <1>1, <2>8, <3>1, <3>2
  <2>9. \A v \in DOMAIN new : new[v] \in Seq(MirrorPlace)
    BY <2>3, <2>4 DEF MirrorsRight
  <2>10. DOMAIN new = 1 .. Len(t.outs)
    BY <2>3 DEF MirrorsRight
  <2>11. MirrorsRight(Node, new, t, ins, last, some + 1)
    BY <2>6, <2>7, <2>8, <2>9, <2>10 DEF MirrorsRight
  <2> QED
    BY <2>11 DEF new
<1> QED
  BY <1>2, <1>3

\* Every input is mirrored once, at the output of its feeder.
LEMMA MirroredRight ==
  ASSUME NEW mir, NEW t, NEW gin, NEW outs, NEW ins, NEW off, N \in Nat,
         InputsRight(t, gin, outs, ins, off, N), MirrorsRight(Node, mir, t, ins, N, 0),
         NEW i \in Node, NEW k \in DOMAIN ins[i]
  PROVE  MirroredOnce(mir, t, i, k, ins[i][k], Feeder(gin, outs, i - off, ins[i][k]))
<1> DEFINE u == Up(t, i, k)
           f == Feeder(gin, outs, i - off, ins[i][k])
           at == {v \in DOMAIN mir : \E m \in DOMAIN mir[v] : mir[v][m] = <<i, k>>}
<1>0. i \in 1 .. N
  BY DEF Node
<1>1. Resolved(t, u, ins[i][k], f) /\ Passed(i, k, N, 0)
  <2>1. Resolved(t, u, ins[i][k], f)
    BY <1>0, Zenon DEF InputsRight
  <2>2. Passed(i, k, N, 0)
    BY <1>0 DEF Passed
  <2> QED BY <2>1, <2>2
<1>2. \A v \in at : v = u
  <2> SUFFICES ASSUME NEW v \in DOMAIN mir, NEW m \in DOMAIN mir[v], mir[v][m] = <<i, k>> PROVE v = u
    OBVIOUS
  <2>1. m \in 1 .. Len(mir[v])
    BY DEF MirrorsRight
  <2>2a. PICK j \in Node : \E l \in DOMAIN ins[j] : mir[v][m] = <<j, l>> /\ Up(t, j, l) = v
    BY <2>1 DEF MirrorsRight
  <2>2. PICK l \in DOMAIN ins[j] : mir[v][m] = <<j, l>> /\ Up(t, j, l) = v
    BY <2>2a
  <2>3. j = i /\ l = k
    BY <2>2
  <2> QED
    BY <2>2, <2>3
<1> HIDE DEF u, f
<1>3. CASE f = -1
  <2>1. u = 0 /\ 0 \notin DOMAIN mir
    BY <1>1, <1>3 DEF Resolved, MirrorsRight
  <2>2. at = {}
    BY <1>2, <2>1
  <2> QED
    BY <1>3, <2>2 DEF MirroredOnce, f
<1>4. CASE f # -1
  <2>1. FedBy(t, u, ins[i][k], f) /\ u # 0
    BY <1>1, <1>4 DEF Resolved, FedBy
  <2>2. u \in DOMAIN mir /\ \E m \in 1 .. Len(mir[u]) : mir[u][m] = <<i, k>>
    BY <1>1, <2>1 DEF MirrorsRight, u
  <2>3. /\ DOMAIN mir[u] = 1 .. Len(mir[u])
        /\ \A m, l \in 1 .. Len(mir[u]) : mir[u][m] = mir[u][l] => m = l
    <3>1. mir[u] \in Seq(MirrorPlace)
      BY <2>2, Zenon DEF MirrorsRight
    <3>2. \A m, l \in 1 .. Len(mir[u]) : mir[u][m] = mir[u][l] => m = l
      BY <2>2, Zenon DEF MirrorsRight
    <3> QED BY <3>1, <3>2
  <2>4. at = {u}
    BY <1>2, <2>2, <2>3
  <2>5. PICK m \in DOMAIN mir[u] : mir[u][m] = <<i, k>>
    BY <2>2, <2>3
  <2>6. {l \in DOMAIN mir[u] : mir[u][l] = <<i, k>>} = {m}
    BY <2>3, <2>5
  <2>7. Cardinality({l \in DOMAIN mir[u] : mir[u][l] = <<i, k>>}) = 1
    BY <2>6, FS_Singleton
  <2>8. \E v \in DOMAIN mir :
          /\ at = {v} /\ t.outs[v].name = ins[i][k]
          /\ Cardinality({l \in DOMAIN mir[v] : mir[v][l] = <<i, k>>}) = 1
          /\ IF f = 0 THEN t.outs[v].type = "graph" ELSE t.outs[v].type = "task" /\ t.outs[v].index = f
    <3> HIDE DEF at
    <3>1. /\ at = {u} /\ t.outs[u].name = ins[i][k]
          /\ Cardinality({l \in DOMAIN mir[u] : mir[u][l] = <<i, k>>}) = 1
          /\ IF f = 0 THEN t.outs[u].type = "graph" ELSE t.outs[u].type = "task" /\ t.outs[u].index = f
      BY <2>1, <2>4, <2>7 DEF FedBy
    <3> QED
      BY <2>2, <3>1, Zenon
  <2> QED
    BY <1>4, <2>8, Zenon DEF MirroredOnce, f
<1> QED
  BY <1>3, <1>4

\* What the configuration declares, node by node.
Outs == [j \in Node |-> cfg.nodes[j].outs]
Ins == [j \in Node |-> cfg.nodes[j].ins]
Souts == [j \in Node |-> cfg.nodes[j].souts]
Sins == [j \in Node |-> cfg.nodes[j].sins]

LEMMA DeclType ==
  ASSUME cfg \in Configs
  PROVE  /\ N \in Nat /\ Node = 1 .. N
         /\ \A i \in Node :
              /\ Outs[i] \in Seq(Name) /\ Ins[i] \in Seq(Name)
              /\ Souts[i] \in Seq(Name) /\ Sins[i] \in Seq(Name)
              /\ Outs[i] = cfg.nodes[i].outs /\ Ins[i] = cfg.nodes[i].ins
              /\ Souts[i] = cfg.nodes[i].souts /\ Sins[i] = cfg.nodes[i].sins
              /\ cfg.nodes[i].name \in NodeName
<1>1. N \in Nat /\ Node = 1 .. N
  BY NodesType DEF Node
<1>2. ASSUME NEW i \in Node
      PROVE  /\ cfg.nodes[i].ins \in Seq(Name) /\ cfg.nodes[i].sins \in Seq(Name)
             /\ cfg.nodes[i].outs \in Seq(Name) /\ cfg.nodes[i].souts \in Seq(Name)
             /\ cfg.nodes[i].name \in NodeName
  <2>1. cfg.nodes \in Seq(NodeConfig) /\ i \in 1 .. Len(cfg.nodes)
    BY NodesType DEF Node, N
  <2> HIDE DEF NodeConfig
  <2>2. cfg.nodes[i] \in NodeConfig
    BY <2>1, SMTT(30)
  <2> QED
    BY <2>2 DEF NodeConfig, Names
<1> QED
  BY <1>1, <1>2 DEF Outs, Ins, Souts, Sins

\* A canonical name is a name.
LEMMA CanonicalReal ==
  ASSUME cfg \in Configs, NEW i \in Node
  PROVE  CanonicalNodeName(i) # NoNode
<1> DEFINE stem == cfg.nodes[i].name
           same == {j \in Node : cfg.nodes[j].name = stem}
           before == {j \in same : j < i}
           c == Cardinality(before)
<1>1. N \in Nat /\ Node = 1 .. N /\ stem \in NodeName
  BY DeclType
<1>2. IsFiniteSet(Node) /\ Cardinality(Node) = N
  <2>1. 1 \in Int /\ N \in Int /\ N >= 0
    BY <1>1
  <2>2. /\ IsFiniteSet(1 .. N)
        /\ Cardinality(1 .. N) = IF 1 > N THEN 0 ELSE N - 1 + 1
    BY ONLY <2>1, FS_Interval
  <2>3. (IF 1 > N THEN 0 ELSE N - 1 + 1) = N
    BY ONLY <2>1
  <2> QED
    BY <2>2, <2>3, <1>1
<1>3. before \subseteq Node
  OBVIOUS
<1>4. c \in Nat /\ c <= N
  BY <1>2, <1>3, FS_Subset, FS_CardinalityType
<1>5. stem # NoNode
  BY <1>1, ConfigAssumption
<1>6. stem \o <<c>> # NoNode
  <2>1. i \in DOMAIN cfg.nodes /\ Len(cfg.nodes) = N
    BY <1>1, NodesType DEF N, Node
  <2>2. c \in 0 .. Len(cfg.nodes)
    BY <1>1, <1>4, <2>1
  <2> HIDE DEF c, NodeConfig
  <2> QED
    BY <2>1, <2>2, ConfigAssumption
<1> QED
  BY <1>5, <1>6 DEF CanonicalNodeName

\* How many nodes have their side data, their streams and their mirrors.
SideDone == IF phase \in {"nodes", "graphSide"} THEN 0 ELSE IF phase = "side" THEN pos ELSE N
StrmDone ==
  IF phase \in {"nodes", "graphSide", "side", "graphIn"} THEN 0
  ELSE IF phase = "streams" THEN pos ELSE N
MirDone == IF phase = "done" THEN N ELSE pos

\* How many mirrors of the next node are entered.
SideSome == IF phase = "done" \/ pos = N THEN 0 ELSE entered
StrmSome == IF phase = "done" \/ pos = N \/ entered < NumSide THEN 0 ELSE entered - NumSide

TablesRight ==
  /\ TableOK(side) /\ TableOK(strm)
  /\ phase \in {"nodes", "graphSide"} => side = EmptyTable
  /\ phase \in {"nodes", "graphSide", "side", "graphIn"} => strm = EmptyTable
  /\ phase = "side" => NamesRight(side, cname, cfg.gside, Souts, pos)
  /\ phase \in {"streams", "graphStreams", "graphNodes", "done"} =>
       cfg.gin \in Seq(Name) /\ NamesRight(strm, cname, cfg.gin, Outs, StrmDone)
  /\ InputsRight(side, cfg.gside, Souts, Sins, 1, SideDone)
  /\ InputsRight(strm, cfg.gin, Outs, Ins, 0, StrmDone)

SidePreds(i) == FeederNames(cname, cfg.gside, Souts, i - 1, Sins[i])
StrmPreds(i) == FeederNames(cname, cfg.gin, Outs, i, Ins[i])

PredsRight ==
  /\ \A i \in DOMAIN cname : cname[i] # NoNode
  /\ \A i \in Node : preds[i] = (IF i <= SideDone THEN SidePreds(i) ELSE {})
                                \cup (IF i <= StrmDone THEN StrmPreds(i) ELSE {})

MirrorsEntered ==
  /\ entered \in Nat
  /\ phase \notin {"graphNodes", "done"} => entered = 0
  /\ phase \in {"graphNodes", "done"} =>
       /\ \A k \in DOMAIN cfg.gin : OwnStream(k)
       /\ MirrorsRight(Node, sideMir, side, Sins, MirDone, SideSome)
       /\ MirrorsRight(Node, strmMir, strm, Ins, MirDone, StrmSome)

WInv == IInv /\ (phase \notin {"failed", "crashed"} => TablesRight /\ PredsRight /\ MirrorsEntered)

\* What is not in use yet is as it was: nothing is wired.
LEMMA InitWInv == Init => WInv
<1> SUFFICES ASSUME Init PROVE WInv
  OBVIOUS
<1>1. IInv
  BY InitIInv
<1>2. N \in Nat /\ Node = 1 .. N
  BY DeclType DEF IInv, Init
<1>3. TableOK(EmptyTable) /\ Len(EmptyTable.inBase) = 0
  BY DEF EmptyTable, TableOK, IsTable, Fields
<1>4. SideDone = 0 /\ StrmDone = 0
  BY DEF Init, SideDone, StrmDone
<1>5. TablesRight
  BY <1>3, <1>4 DEF Init, TablesRight, InputsRight
<1>6. PredsRight
  BY <1>2, <1>4 DEF Init, PredsRight
<1>7. MirrorsEntered
  BY DEF Init, MirrorsEntered
<1> QED
  BY <1>1, <1>5, <1>6, <1>7 DEF WInv

LEMMA DeclSame ==
  ASSUME UNCHANGED cfg
  PROVE  N' = N /\ Node' = Node /\ Outs' = Outs /\ Ins' = Ins /\ Souts' = Souts /\ Sins' = Sins
<1>1. N' = N
  BY DEF N
<1>2. Node' = Node
  BY <1>1 DEF Node
<1> QED
  BY <1>1, <1>2 DEF Outs, Ins, Souts, Sins

\* The predecessors stay right while nothing is registered.
LEMMA PredsKept ==
  ASSUME PredsRight, UNCHANGED <<cfg, cname, preds>>, SideDone' = SideDone, StrmDone' = StrmDone
  PROVE  PredsRight'
BY DeclSame DEF PredsRight, SidePreds, StrmPreds

\* So do the tables on the way from a phase to the next.
LEMMA TablesKept ==
  ASSUME TablesRight, UNCHANGED <<cfg, cname, side, strm>>, SideDone' = SideDone, StrmDone' = StrmDone,
         \/ phase = "nodes" /\ phase' = "graphSide"
         \/ phase = "side" /\ phase' = "graphIn"
         \/ phase = "streams" /\ phase' = "graphStreams"
         \/ phase = "graphStreams" /\ phase' = "graphNodes"
         \/ phase = "graphNodes" /\ phase' \in {"graphNodes", "done"}
  PROVE  TablesRight'
BY DeclSame DEF TablesRight

\* A phase that is through.
LEMMA GotoWInv ==
  ASSUME WInv, phase \notin {"failed", "crashed"}, NodesInitialized \/ SideDataInitialized \/ GraphOutputs
  PROVE  (TablesRight /\ PredsRight /\ MirrorsEntered)'
<1>1. TablesRight /\ PredsRight /\ MirrorsEntered /\ cfg \in Configs
  BY DEF WInv, IInv, Progress
<1>2. N' = N
  BY DeclSame DEF NodesInitialized, SideDataInitialized, GraphOutputs
<1>3. SideDone' = SideDone /\ StrmDone' = StrmDone
  BY <1>2 DEF NodesInitialized, SideDataInitialized, GraphOutputs, Goto, SideDone, StrmDone
<1>4. /\ UNCHANGED <<cfg, cname, side, strm, preds, entered>>
      /\ \/ phase = "nodes" /\ phase' = "graphSide"
         \/ phase = "side" /\ phase' = "graphIn"
         \/ phase = "streams" /\ phase' = "graphStreams"
  BY DEF NodesInitialized, SideDataInitialized, GraphOutputs, Goto
<1>5. TablesRight'
  BY <1>1, <1>3, <1>4, TablesKept
<1>6. PredsRight'
  BY <1>1, <1>3, <1>4, PredsKept
<1>7. MirrorsEntered'
  BY <1>1, <1>4 DEF MirrorsEntered
<1> QED
  BY <1>5, <1>6, <1>7

\* A node gets its name.
LEMMA InitializeNodeWInv ==
  ASSUME WInv, InitializeNode
  PROVE  (TablesRight /\ PredsRight /\ MirrorsEntered)'
<1>1. /\ TablesRight /\ PredsRight /\ MirrorsEntered /\ cfg \in Configs /\ phase = "nodes" /\ pos < N
      /\ pos \in 0 .. N /\ DOMAIN cname = 1 .. pos
      /\ cname' = Append(cname, CanonicalNodeName(pos + 1))
      /\ UNCHANGED <<cfg, phase, side, strm, preds, entered>>
  BY DEF WInv, IInv, Progress, InitializeNode
<1>2. N \in Nat /\ Node = 1 .. N /\ pos + 1 \in Node
  <2>1. N \in Nat /\ Node = 1 .. N
    BY <1>1, DeclType
  <2>2. pos \in 0 .. N /\ pos < N
    BY <1>1
  <2>3. pos + 1 \in 1 .. N
    BY ONLY <2>1, <2>2
  <2> QED
    BY <2>1, <2>3
<1>3. SideDone' = 0 /\ StrmDone' = 0 /\ SideDone = 0 /\ StrmDone = 0
  BY <1>1 DEF SideDone, StrmDone
<1>4. TablesRight'
  BY <1>1, <1>3, DeclSame DEF TablesRight
<1>5. \A i \in DOMAIN cname' : cname'[i] # NoNode
  <2>1. CanonicalNodeName(pos + 1) # NoNode
    BY <1>1, <1>2, CanonicalReal
  <2> DEFINE c == CanonicalNodeName(pos + 1)
  <2> HIDE DEF c
  <2>2. Len(cname) = pos /\ DOMAIN cname' = 1 .. pos + 1 /\ cname'[pos + 1] = c /\ \A i \in 1 .. pos : cname'[i] = cname[i]
    BY <1>1 DEF c
  <2>3. \A i \in 1 .. pos : cname[i] # NoNode
    BY <1>1 DEF PredsRight
  <2> QED
    BY <1>1, <2>1, <2>2, <2>3 DEF c
<1>6. PredsRight'
  <2>1. \A i \in Node : preds[i] = {}
    BY <1>1, <1>2, <1>3 DEF PredsRight
  <2>2. \A i \in Node' : ~ (i <= SideDone') /\ ~ (i <= StrmDone')
    BY <1>1, <1>2, <1>3, DeclSame
  <2> QED
    BY <1>1, <1>5, <2>1, <2>2, DeclSame DEF PredsRight
<1>7. MirrorsEntered'
  BY <1>1 DEF MirrorsEntered
<1> QED
  BY <1>4, <1>6, <1>7

\* The graph's side data and the graph's inputs.
LEMMA GraphDeclType ==
  ASSUME cfg \in Configs
  PROVE  (cfg.gin # Malformed => cfg.gin \in Seq(Name)) /\ (cfg.gside # Malformed => cfg.gside \in Seq(Name))
<1>1. {cfg.gin, cfg.gside, cfg.gout} \subseteq Decl
  BY ConfigAssumption
<1>2. cfg.gin \in Decl /\ cfg.gside \in Decl
  BY <1>1
<1> QED
  BY <1>2 DEF Decl, Names

LEMMA GraphSideWInv ==
  ASSUME WInv, GraphSideData
  PROVE  (TablesRight /\ PredsRight /\ MirrorsEntered)'
<1>1. /\ TablesRight /\ PredsRight /\ MirrorsEntered /\ cfg \in Configs /\ phase = "graphSide" /\ phase' = "side"
      /\ pos' = 0 /\ cfg.gside # Malformed /\ side' = RegisterGraphInputs(side, cfg.gside)
      /\ UNCHANGED <<cfg, cname, strm, preds, entered>>
  BY DEF WInv, IInv, Progress, GraphSideData, Goto
<1>2. N \in Nat /\ cfg.gside \in Seq(Name)
  BY <1>1, DeclType, GraphDeclType
<1>3. SideDone' = SideDone /\ StrmDone' = StrmDone /\ SideDone = 0
  BY <1>1 DEF SideDone, StrmDone
<1>4. TableOK(side') /\ side'.inBase = << >> /\ NamesRight(side', cname, cfg.gside, Souts, 0)
  BY <1>1, <1>2, GraphNamesRight DEF TablesRight
<1>5. InputsRight(side', cfg.gside, Souts, Sins, 1, 0)
  BY <1>4 DEF InputsRight
<1>6. TablesRight'
  BY <1>1, <1>3, <1>4, <1>5, DeclSame DEF TablesRight
<1> QED
  BY <1>1, <1>3, <1>6, PredsKept DEF MirrorsEntered

LEMMA GraphInputsWInv ==
  ASSUME WInv, GraphInputs
  PROVE  (TablesRight /\ PredsRight /\ MirrorsEntered)'
<1>1. /\ TablesRight /\ PredsRight /\ MirrorsEntered /\ cfg \in Configs /\ phase = "graphIn" /\ phase' = "streams"
      /\ pos' = 0 /\ cfg.gin # Malformed /\ strm' = RegisterGraphInputs(strm, cfg.gin)
      /\ UNCHANGED <<cfg, cname, side, preds, entered>>
  BY DEF WInv, IInv, Progress, GraphInputs, Goto
<1>2. N \in Nat /\ cfg.gin \in Seq(Name) /\ N' = N
  BY <1>1, DeclType, GraphDeclType, DeclSame
<1>3. SideDone' = SideDone /\ StrmDone' = StrmDone /\ StrmDone = 0
  BY <1>1, <1>2 DEF SideDone, StrmDone
<1>4. TableOK(strm') /\ strm'.inBase = << >> /\ NamesRight(strm', cname, cfg.gin, Outs, 0)
  BY <1>1, <1>2, GraphNamesRight DEF TablesRight
<1>5. InputsRight(strm', cfg.gin, Outs, Ins, 0, 0)
  BY <1>4 DEF InputsRight
<1>6. TablesRight'
  BY <1>1, <1>2, <1>3, <1>4, <1>5, DeclSame DEF TablesRight
<1> QED
  BY <1>1, <1>3, <1>6, PredsKept DEF MirrorsEntered

\* A node's side data: its inputs are resolved before its outputs are entered.
LEMMA SideDataWInv ==
  ASSUME WInv, initializeNodeSideData
  PROVE  (TablesRight /\ PredsRight /\ MirrorsEntered)'
<1> DEFINE i == pos + 1
           mid == RegisterInputs(side, Sins[i], i)
<1>1. /\ TablesRight /\ PredsRight /\ MirrorsEntered /\ cfg \in Configs /\ phase = "side" /\ phase' = "side"
      /\ pos < N /\ pos \in 0 .. N /\ pos' = i /\ DOMAIN cname = Node /\ DOMAIN preds = Node
      /\ UNCHANGED <<cfg, cname, strm, entered>>
  BY DEF WInv, IInv, Progress, PredsShape, initializeNodeSideData
<1>2. N \in Nat /\ Node = 1 .. N /\ i \in Node /\ i \in Nat \ {0} /\ i - 1 = pos
  <2>1. N \in Nat /\ Node = 1 .. N
    BY <1>1, DeclType
  <2>2. pos \in 0 .. N /\ pos < N
    BY <1>1
  <2>3. i \in 1 .. N /\ i \in Nat \ {0} /\ i - 1 = pos
    BY ONLY <2>1, <2>2
  <2> QED
    BY <2>1, <2>3
<1>3. /\ Sins[i] \in Seq(Name) /\ Souts[i] \in Seq(Name)
      /\ Sins[i] = cfg.nodes[i].sins /\ Souts[i] = cfg.nodes[i].souts
  BY <1>1, <1>2, DeclType
<1>4. side' = RegisterOutputs(mid, Souts[i], i) /\ preds' = [preds EXCEPT ![i] = @ \cup Upstream(side, Sins[i])]
  BY <1>3 DEF initializeNodeSideData
<1>5. SideDone = pos /\ SideDone' = i /\ StrmDone = 0 /\ StrmDone' = 0
  BY <1>1 DEF SideDone, StrmDone
<1>6. /\ TableOK(side) /\ NamesRight(side, cname, cfg.gside, Souts, i - 1)
      /\ InputsRight(side, cfg.gside, Souts, Sins, 1, i - 1)
  BY <1>1, <1>2, <1>5 DEF TablesRight
<1> HIDE DEF i, mid
<1>7. /\ TableOK(mid) /\ InputsRight(mid, cfg.gside, Souts, Sins, 1, i)
      /\ NamesRight(mid, cname, cfg.gside, Souts, i - 1)
  <2>1. mid = RegisterInputs(side, Sins[i], i) /\ 1 \in {0, 1}
    BY DEF mid
  <2> QED BY <1>2, <1>3, <1>6, <2>1, NextInputsRight
<1>8. NamesRight(side', cname, cfg.gside, Souts, i)
  BY <1>2, <1>3, <1>4, <1>7, OutputNamesRight
<1>9. TableOK(side') /\ KeepsOuts(mid, side') /\ side'.ins = mid.ins /\ side'.inBase = mid.inBase
  BY <1>2, <1>3, <1>4, <1>7, OutputsEffect
<1>10. InputsRight(side', cfg.gside, Souts, Sins, 1, i)
  BY <1>7, <1>9, InputsKept
<1>11. TablesRight'
  <2> USE DeclSame
  <2> QED BY <1>1, <1>5, <1>8, <1>9, <1>10 DEF TablesRight
<1>12. Upstream(side, Sins[i]) = SidePreds(i)
  <2>1. \A j \in Node : cname[j] # NoNode
    BY <1>1 DEF PredsRight
  <2>2. i - 1 \in 0 .. N
    BY <1>2
  <2> QED
    BY <1>2, <1>3, <1>6, <2>1, <2>2, UpstreamFeeds DEF SidePreds
<1>13. \A j \in Node : SidePreds(j)' = SidePreds(j)
  BY <1>1, DeclSame DEF SidePreds
<1>14. ASSUME NEW j \in Node
       PROVE  preds'[j] = (IF j <= SideDone' THEN SidePreds(j)' ELSE {}) \cup (IF j <= StrmDone' THEN StrmPreds(j)' ELSE {})
  <2>0. j \in Nat /\ ~ (j <= StrmDone') /\ ~ (j <= StrmDone)
    BY <1>2, <1>5
  <2>1. preds[j] = (IF j <= SideDone THEN SidePreds(j) ELSE {}) \cup (IF j <= StrmDone THEN StrmPreds(j) ELSE {})
    BY <1>1 DEF PredsRight
  <2>2. CASE j = i
    <3>1. ~ (j <= SideDone) /\ j <= SideDone'
      BY <1>2, <1>5, <2>2
    <3>2. preds'[j] = preds[j] \cup SidePreds(j)
      BY <1>1, <1>2, <1>4, <1>12, <2>2
    <3> QED
      BY <1>13, <2>0, <2>1, <3>1, <3>2
  <2>3. CASE j # i
    <3>1. (j <= SideDone) <=> (j <= SideDone')
      BY <1>2, <1>5, <2>0, <2>3
    <3>2. preds'[j] = preds[j]
      BY <1>1, <1>4, <2>3
    <3> QED
      BY <1>13, <2>0, <2>1, <3>1, <3>2
  <2> QED
    BY <2>2, <2>3
<1>15. PredsRight'
  BY <1>1, <1>14, DeclSame DEF PredsRight
<1>16. MirrorsEntered'
  BY <1>1 DEF MirrorsEntered
<1> QED
  BY <1>11, <1>15, <1>16

\* A node's streams: its outputs are entered before its inputs are resolved.
LEMMA StreamsWInv ==
  ASSUME WInv, initializeNodeStreams
  PROVE  (TablesRight /\ PredsRight /\ MirrorsEntered)'
<1> DEFINE i == pos + 1
           mid == RegisterOutputs(strm, Outs[i], i)
<1>1. /\ TablesRight /\ PredsRight /\ MirrorsEntered /\ cfg \in Configs /\ phase = "streams" /\ phase' = "streams"
      /\ pos < N /\ pos \in 0 .. N /\ pos' = i /\ DOMAIN cname = Node /\ DOMAIN preds = Node
      /\ UNCHANGED <<cfg, cname, side, entered>>
  BY DEF WInv, IInv, Progress, PredsShape, initializeNodeStreams
<1>2. N \in Nat /\ Node = 1 .. N /\ i \in Node /\ i \in Nat \ {0} /\ i - 1 = pos /\ i - 0 = i
  <2>1. N \in Nat /\ Node = 1 .. N
    BY <1>1, DeclType
  <2>2. pos \in 0 .. N /\ pos < N
    BY <1>1
  <2>3. i \in 1 .. N /\ i \in Nat \ {0} /\ i - 1 = pos /\ i - 0 = i
    BY ONLY <2>1, <2>2
  <2> QED
    BY <2>1, <2>3
<1>3. /\ Ins[i] \in Seq(Name) /\ Outs[i] \in Seq(Name)
      /\ Ins[i] = cfg.nodes[i].ins /\ Outs[i] = cfg.nodes[i].outs
  BY <1>1, <1>2, DeclType
<1>4. strm' = RegisterInputs(mid, Ins[i], i) /\ preds' = [preds EXCEPT ![i] = @ \cup Upstream(mid, Ins[i])]
  BY <1>3 DEF initializeNodeStreams
<1>5. SideDone = N /\ SideDone' = N /\ StrmDone = pos /\ StrmDone' = i
  BY <1>1, DeclSame DEF SideDone, StrmDone
<1>6. /\ TableOK(strm) /\ NamesRight(strm, cname, cfg.gin, Outs, i - 1)
      /\ InputsRight(strm, cfg.gin, Outs, Ins, 0, i - 1)
  BY <1>1, <1>2, <1>5 DEF TablesRight
<1>7. NamesRight(mid, cname, cfg.gin, Outs, i)
  <2> HIDE DEF i
  <2> QED BY <1>2, <1>3, <1>6, OutputNamesRight
<1> HIDE DEF i
<1>8. TableOK(mid) /\ KeepsOuts(strm, mid) /\ mid.ins = strm.ins /\ mid.inBase = strm.inBase
  BY <1>2, <1>3, <1>6, OutputsEffect
<1> HIDE DEF mid
<1>9. InputsRight(mid, cfg.gin, Outs, Ins, 0, i - 1)
  BY <1>6, <1>8, InputsKept
<1>10. /\ TableOK(strm') /\ InputsRight(strm', cfg.gin, Outs, Ins, 0, i)
       /\ NamesRight(strm', cname, cfg.gin, Outs, i)
  <2>1. NamesRight(mid, cname, cfg.gin, Outs, i - 0) /\ 0 \in {0, 1}
    BY <1>2, <1>7
  <2>2. /\ TableOK(strm') /\ InputsRight(strm', cfg.gin, Outs, Ins, 0, i)
        /\ NamesRight(strm', cname, cfg.gin, Outs, i - 0)
    BY <1>2, <1>3, <1>4, <1>8, <1>9, <2>1, NextInputsRight
  <2> QED BY <1>2, <2>2
<1>11. TablesRight'
  <2> USE DeclSame
  <2> QED BY <1>1, <1>5, <1>10 DEF TablesRight
<1>12. Upstream(mid, Ins[i]) = StrmPreds(i)
  <2>1. \A j \in Node : cname[j] # NoNode
    BY <1>1 DEF PredsRight
  <2>2. i - 0 \in 0 .. N /\ NamesRight(mid, cname, cfg.gin, Outs, i - 0)
    BY <1>2, <1>7
  <2>3. Upstream(mid, Ins[i]) = FeederNames(cname, cfg.gin, Outs, i - 0, Ins[i])
    BY <1>2, <1>3, <2>1, <2>2, UpstreamFeeds
  <2> QED
    BY <1>2, <2>3 DEF StrmPreds
<1>13. \A j \in Node : SidePreds(j)' = SidePreds(j) /\ StrmPreds(j)' = StrmPreds(j)
  BY <1>1, DeclSame DEF SidePreds, StrmPreds
<1>14. ASSUME NEW j \in Node
       PROVE  preds'[j] = (IF j <= SideDone' THEN SidePreds(j)' ELSE {}) \cup (IF j <= StrmDone' THEN StrmPreds(j)' ELSE {})
  <2>0. j \in Nat /\ j <= SideDone' /\ j <= SideDone
    BY <1>2, <1>5
  <2>1. preds[j] = (IF j <= SideDone THEN SidePreds(j) ELSE {}) \cup (IF j <= StrmDone THEN StrmPreds(j) ELSE {})
    BY <1>1 DEF PredsRight
  <2>2. CASE j = i
    <3>1. ~ (j <= StrmDone) /\ j <= StrmDone'
      BY <1>2, <1>5, <2>2
    <3>2. preds'[j] = preds[j] \cup StrmPreds(j)
      BY <1>1, <1>2, <1>4, <1>12, <2>2
    <3> QED
      BY <1>13, <2>0, <2>1, <3>1, <3>2
  <2>3. CASE j # i
    <3>1. (j <= StrmDone) <=> (j <= StrmDone')
      BY <1>2, <1>5, <2>0, <2>3
    <3>2. preds'[j] = preds[j]
      BY <1>1, <1>4, <2>3
    <3> QED
      BY <1>13, <2>0, <2>1, <3>1, <3>2
  <2> QED
    BY <2>2, <2>3
<1>15. PredsRight'
  BY <1>1, <1>14, DeclSame DEF PredsRight
<1>16. MirrorsEntered'
  BY <1>1 DEF MirrorsEntered
<1> QED
  BY <1>11, <1>15, <1>16

\* Only what is passed matters to the mirrors.
LEMMA PassedSame ==
  ASSUME NEW nodes, NEW mir, NEW t, NEW ins, NEW last, NEW some, NEW last2, NEW some2,
         MirrorsRight(nodes, mir, t, ins, last, some),
         \A i \in nodes : \A k \in DOMAIN ins[i] : Passed(i, k, last, some) <=> Passed(i, k, last2, some2)
  PROVE  MirrorsRight(nodes, mir, t, ins, last2, some2)
<1>1. \A u \in DOMAIN mir : \A m \in 1 .. Len(mir[u]) : \E i \in nodes : \E k \in DOMAIN ins[i] :
        mir[u][m] = <<i, k>> /\ Passed(i, k, last2, some2) /\ Up(t, i, k) = u
  <2> SUFFICES ASSUME NEW u \in DOMAIN mir, NEW m \in 1 .. Len(mir[u])
               PROVE  \E i \in nodes : \E k \in DOMAIN ins[i] :
                        mir[u][m] = <<i, k>> /\ Passed(i, k, last2, some2) /\ Up(t, i, k) = u
    OBVIOUS
  <2>1. \E i \in nodes : \E k \in DOMAIN ins[i] :
          mir[u][m] = <<i, k>> /\ Passed(i, k, last, some) /\ Up(t, i, k) = u
    BY Zenon DEF MirrorsRight
  <2> QED BY <2>1
<1>2. \A i \in nodes : \A k \in DOMAIN ins[i] :
        Passed(i, k, last2, some2) /\ Up(t, i, k) # 0 =>
          /\ Up(t, i, k) \in DOMAIN mir
          /\ \E m \in 1 .. Len(mir[Up(t, i, k)]) : mir[Up(t, i, k)][m] = <<i, k>>
  BY Zenon DEF MirrorsRight
<1>3. DOMAIN mir = 1 .. Len(t.outs) /\ \A u \in DOMAIN mir :
        mir[u] \in Seq(MirrorPlace) /\ \A m, l \in 1 .. Len(mir[u]) : mir[u][m] = mir[u][l] => m = l
  BY Zenon DEF MirrorsRight
<1> QED
  BY <1>1, <1>2, <1>3, Zenon DEF MirrorsRight

\* Empty mirrors before the first node.
LEMMA NoMirrors ==
  ASSUME NEW t, NEW ins, Len(t.outs) \in Nat, N \in Nat, \A i \in Node : DOMAIN ins[i] = 1 .. Len(ins[i]),
         NEW mir, mir = [k \in 1 .. Len(t.outs) |-> << >>]
  PROVE  MirrorsRight(Node, mir, t, ins, 0, 0)
<1>1. DOMAIN mir = 1 .. Len(t.outs) /\ \A u \in DOMAIN mir : mir[u] = << >>
  OBVIOUS
<1>2. \A u \in DOMAIN mir : mir[u] \in Seq(MirrorPlace) /\ Len(mir[u]) = 0 /\ 1 .. Len(mir[u]) = {}
  BY <1>1
<1>3. \A i \in Node : \A k \in DOMAIN ins[i] : ~ Passed(i, k, 0, 0)
  <2> SUFFICES ASSUME NEW i \in Node, NEW k \in 1 .. Len(ins[i]) PROVE ~ Passed(i, k, 0, 0)
    OBVIOUS
  <2> QED BY DEF Passed, Node
<1> HIDE DEF Passed
<1> QED
  BY <1>1, <1>2, <1>3 DEF MirrorsRight

\* The managers are created, with no mirrors yet.
LEMMA InitializeStreamsWInv ==
  ASSUME WInv, InitializeStreams
  PROVE  (TablesRight /\ PredsRight /\ MirrorsEntered)'
<1>1. /\ TablesRight /\ PredsRight /\ MirrorsEntered /\ cfg \in Configs /\ phase = "graphStreams" /\ phase' = "graphNodes"
      /\ pos' = 0 /\ UNCHANGED <<cfg, cname, side, strm, preds, entered>>
      /\ \A k \in DOMAIN cfg.gin : OwnStream(k)
      /\ strmMir' = [k \in DOMAIN strm.outs |-> << >>] /\ sideMir' = [k \in DOMAIN side.outs |-> << >>]
  BY DEF WInv, IInv, Progress, InitializeStreams, Goto
<1>2. /\ N \in Nat /\ N' = N /\ Node' = Node /\ Ins' = Ins /\ Sins' = Sins
      /\ \A i \in Node : DOMAIN Ins[i] = 1 .. Len(Ins[i]) /\ DOMAIN Sins[i] = 1 .. Len(Sins[i])
      /\ \A i \in Node : Len(Sins[i]) \in Nat /\ Sins[i] = cfg.nodes[i].sins
      /\ Node = 1 .. N
  BY <1>1, DeclType, DeclSame
<1>3. SideDone' = SideDone /\ StrmDone' = StrmDone
  BY <1>1, <1>2 DEF SideDone, StrmDone
<1>4. Len(side.outs) \in Nat /\ Len(strm.outs) \in Nat
      /\ DOMAIN side.outs = 1 .. Len(side.outs) /\ DOMAIN strm.outs = 1 .. Len(strm.outs)
  BY <1>1 DEF TablesRight, TableOK
<1>5. MirrorsRight(Node, sideMir', side, Sins, 0, 0) /\ MirrorsRight(Node, strmMir', strm, Ins, 0, 0)
  BY <1>1, <1>2, <1>4, NoMirrors
<1>6. entered = 0 /\ MirDone' = 0 /\ SideSome' = 0 /\ StrmSome' = 0
  <2>1. entered = 0 /\ entered' = 0
    BY <1>1 DEF MirrorsEntered
  <2>2. MirDone' = 0 /\ SideSome' = 0
    BY <1>1, <2>1 DEF MirDone, SideSome
  <2>3. StrmSome' = 0
    <3>1. CASE N = 0
      BY <1>1, <1>2, <3>1 DEF StrmSome
    <3>2. CASE N # 0
      <4>1. 1 \in Node /\ cfg.nodes[1].sins = Sins[1] /\ Len(Sins[1]) \in Nat
        BY <1>2, <3>2
      <4>2. NumSide' = Len(Sins[1])
        BY <1>1, <4>1 DEF NumSide
      <4> QED
        BY <1>1, <2>1, <4>1, <4>2 DEF StrmSome
    <3> QED
      BY <3>1, <3>2
  <2> QED BY <2>1, <2>2, <2>3
<1>7. \A k \in DOMAIN cfg'.gin : OwnStream(k)'
  BY <1>1, <1>2 DEF OwnStream
<1>8. MirrorsEntered'
  BY <1>1, <1>2, <1>5, <1>6, <1>7 DEF MirrorsEntered
<1> QED
  BY <1>1, <1>3, <1>8, TablesKept, PredsKept

\* An input has no output, or one that exists.
LEMMA UpRange ==
  ASSUME NEW t, NEW gin, NEW outs, NEW ins, NEW off, NEW last, InputsRight(t, gin, outs, ins, off, last),
         Len(t.outs) \in Nat, NEW i \in 1 .. last, NEW k \in DOMAIN ins[i]
  PROVE  Up(t, i, k) \in 0 .. Len(t.outs)
<1>1. Resolved(t, Up(t, i, k), ins[i][k], Feeder(gin, outs, i - off, ins[i][k]))
  BY Zenon DEF InputsRight
<1> QED
  BY <1>1 DEF Resolved, FedBy

\* Every step of Node::Initialize.
LEMMA NodeInitializeWInv ==
  ASSUME WInv, initializeInputSideData \/ initializeInputStream \/ NodeInitialize
  PROVE  (TablesRight /\ PredsRight /\ MirrorsEntered)'
<1> DEFINE i == pos + 1
<1>1. /\ TablesRight /\ PredsRight /\ MirrorsEntered /\ cfg \in Configs /\ phase = "graphNodes" /\ phase' = "graphNodes"
      /\ pos < N /\ pos \in 0 .. N /\ UNCHANGED <<cfg, cname, side, strm, preds>>
  BY DEF WInv, IInv, Progress, initializeInputSideData, initializeInputStream, NodeInitialize
<1>2. N \in Nat /\ N' = N /\ Node' = Node /\ Ins' = Ins /\ Sins' = Sins /\ Node = 1 .. N
  BY <1>1, DeclType, DeclSame
<1>3. \A j \in Node : /\ DOMAIN Ins[j] = 1 .. Len(Ins[j]) /\ DOMAIN Sins[j] = 1 .. Len(Sins[j])
                      /\ Len(Ins[j]) \in Nat /\ Len(Sins[j]) \in Nat
                      /\ Ins[j] = cfg.nodes[j].ins /\ Sins[j] = cfg.nodes[j].sins
  BY <1>1, DeclType
<1>4. SideDone' = SideDone /\ StrmDone' = StrmDone /\ SideDone = N /\ StrmDone = N
  BY <1>1, <1>2 DEF SideDone, StrmDone
<1>5. TablesRight' /\ PredsRight'
  BY <1>1, <1>4, TablesKept, PredsKept
<1>6. \A k \in DOMAIN cfg'.gin : OwnStream(k)'
  BY <1>1, <1>2 DEF OwnStream, MirrorsEntered
<1>7. i \in Node /\ i \in Nat /\ pos \in Nat /\ pos # N /\ NumSide = Len(Sins[i]) /\ NumIn = Len(Ins[i]) /\ entered \in Nat
      /\ NumSide \in Nat /\ NumIn \in Nat
  BY <1>1, <1>2, <1>3 DEF NumSide, NumIn, MirrorsEntered
<1>8. MirDone = pos /\ SideSome = entered /\ StrmSome = IF entered < NumSide THEN 0 ELSE entered - NumSide
  BY <1>1, <1>7 DEF MirDone, SideSome, StrmSome
<1>9. /\ MirrorsRight(Node, sideMir, side, Sins, pos, entered)
      /\ MirrorsRight(Node, strmMir, strm, Ins, pos, StrmSome)
  BY <1>1, <1>8 DEF MirrorsEntered
<1>10. /\ Len(side.outs) \in Nat /\ Len(strm.outs) \in Nat
       /\ InputsRight(side, cfg.gside, Souts, Sins, 1, N) /\ InputsRight(strm, cfg.gin, Outs, Ins, 0, N)
  BY <1>1, <1>4 DEF TablesRight, TableOK
<1> HIDE DEF i
<1>11. CASE initializeInputSideData
  <2>1. /\ entered < NumSide /\ sideMir' = AddMirror(sideMir, side, pos + 1, entered + 1) /\ entered' = entered + 1
        /\ UNCHANGED <<pos, strmMir>>
    BY <1>11 DEF initializeInputSideData
  <2>2. NumSide' = NumSide
    BY <1>1, <2>1 DEF NumSide
  <2>3. MirDone' = pos /\ SideSome' = entered + 1 /\ StrmSome' = 0 /\ StrmSome = 0
    BY <1>1, <1>2, <1>7, <1>8, <2>1, <2>2 DEF MirDone, SideSome, StrmSome
  <2>4. entered + 1 \in DOMAIN Sins[pos + 1] /\ pos + 1 \in Node /\ pos + 1 \in 1 .. N
    BY <1>2, <1>3, <1>7, <2>1 DEF i
  <2>5. Up(side, pos + 1, entered + 1) \in 0 .. Len(side.outs)
    BY <1>10, <2>4, UpRange
  <2>6. \A j \in Node : DOMAIN Sins[j] \subseteq Nat
    BY <1>3
  <2>7. MirrorsRight(Node, sideMir', side, Sins, pos, entered + 1)
    BY <1>2, <1>7, <1>9, <1>10, <2>1, <2>4, <2>5, <2>6, AddMirrorRight
  <2>8. MirrorsEntered'
    BY <1>1, <1>2, <1>6, <1>7, <1>9, <2>1, <2>3, <2>7 DEF MirrorsEntered
  <2> QED
    BY <1>5, <2>8
<1>12. CASE initializeInputStream
  <2>1. /\ NumSide <= entered /\ entered < NumSide + NumIn /\ entered' = entered + 1
        /\ strmMir' = AddMirror(strmMir, strm, pos + 1, entered - NumSide + 1)
        /\ UNCHANGED <<pos, sideMir>>
    BY <1>12 DEF initializeInputStream
  <2>2. NumSide' = NumSide
    BY <1>1, <2>1 DEF NumSide
  <2> DEFINE some == entered - NumSide
  <2>3. MirDone' = pos /\ SideSome' = entered + 1 /\ StrmSome' = some + 1 /\ StrmSome = some /\ some \in Nat
    <3>1. some \in Nat /\ ~ (entered < NumSide) /\ ~ (entered' < NumSide') /\ entered' - NumSide' = some + 1
      BY <1>7, <2>1, <2>2
    <3>2. StrmSome = some
      BY <1>8, <3>1
    <3>3. pos' # N' /\ phase' # "done"
      BY <1>1, <1>2, <1>7, <2>1
    <3>4. StrmSome' = some + 1
      BY <3>1, <3>3 DEF StrmSome
    <3>5. MirDone' = pos /\ SideSome' = entered + 1
      BY <2>1, <3>3 DEF MirDone, SideSome
    <3> QED BY <3>1, <3>2, <3>4, <3>5
  <2>4. some + 1 \in DOMAIN Ins[pos + 1] /\ pos + 1 \in Node /\ pos + 1 \in 1 .. N
    <3>1. pos + 1 \in Node /\ pos + 1 \in 1 .. N /\ DOMAIN Ins[pos + 1] = 1 .. NumIn
      BY <1>2, <1>3, <1>7 DEF i
    <3>2. some + 1 \in 1 .. NumIn
      <4>1. NumSide \in Nat /\ NumIn \in Nat /\ entered \in Nat /\ NumSide <= entered /\ entered < NumSide + NumIn
        BY <1>7, <2>1
      <4> QED BY ONLY <4>1
    <3> QED BY <3>1, <3>2
  <2>5. /\ strmMir' = AddMirror(strmMir, strm, pos + 1, some + 1)
        /\ MirrorsRight(Node, strmMir, strm, Ins, pos, some)
    BY <1>9, <2>1, <2>3
  <2> HIDE DEF some
  <2>6. Up(strm, pos + 1, some + 1) \in 0 .. Len(strm.outs)
    BY <1>10, <2>4, UpRange
  <2>7. \A j \in Node : DOMAIN Ins[j] \subseteq Nat
    BY <1>3
  <2>8. MirrorsRight(Node, strmMir', strm, Ins, pos, some + 1)
    BY <1>2, <1>7, <1>10, <2>3, <2>4, <2>5, <2>6, <2>7, AddMirrorRight
  <2>9. ASSUME NEW j \in Node, NEW k \in DOMAIN Sins[j]
        PROVE  Passed(j, k, pos, entered) <=> Passed(j, k, pos, entered + 1)
    <3>1. j \in Nat /\ k \in Nat /\ (j = pos + 1 => k <= entered)
      BY <1>2, <1>3, <1>7, <2>1 DEF i
    <3> QED BY <1>7, <3>1 DEF Passed
  <2>10. MirrorsRight(Node, sideMir, side, Sins, pos, entered + 1)
    BY <1>9, <2>9, PassedSame
  <2>11. MirrorsEntered'
    <3>1. entered' \in Nat
      BY <1>7, <2>1
    <3> QED BY <1>1, <1>2, <1>6, <2>1, <2>3, <2>8, <2>10, <3>1 DEF MirrorsEntered
  <2> QED
    BY <1>5, <2>11
<1>13. CASE NodeInitialize
  <2>1. /\ entered = NumSide + NumIn /\ entered' = 0 /\ pos' = pos + 1
        /\ UNCHANGED <<sideMir, strmMir>>
    BY <1>13 DEF NodeInitialize
  <2>2. StrmSome = NumIn
    <3>1. ~ (entered < NumSide) /\ entered - NumSide = NumIn
      <4>1. NumSide \in Nat /\ NumIn \in Nat /\ entered = NumSide + NumIn
        BY <1>7, <2>1
      <4> HIDE DEF NumSide, NumIn
      <4> QED BY ONLY <4>1
    <3> QED BY <1>8, <3>1
  <2>3. MirDone' = pos + 1 /\ SideSome' = 0 /\ StrmSome' = 0
    <3>1. MirDone' = pos + 1 /\ SideSome' = 0
      BY <1>1, <1>2, <2>1 DEF MirDone, SideSome
    <3>2. CASE pos + 1 = N
      <4>1. pos' = N'
        BY <1>2, <2>1, <3>2
      <4> QED BY <3>1, <4>1 DEF StrmSome
    <3>3. CASE pos + 1 # N
      <4>1. pos + 2 \in Node
        BY <1>2, <1>1, <3>3
      <4>2. NumSide' \in Nat
        <5>1. NumSide' = Len(cfg.nodes[pos + 2].sins)
          BY <1>1, <1>7, <2>1 DEF NumSide
        <5> QED BY <1>3, <4>1, <5>1
      <4>3. entered' < NumSide' \/ entered' - NumSide' = 0
        <5>1. entered' = 0
          BY <2>1
        <5>2. \A x \in Nat : 0 < x \/ 0 - x = 0
          OBVIOUS
        <5>3. 0 < NumSide' \/ 0 - NumSide' = 0
          BY <4>2, <5>2, Zenon
        <5> QED BY <5>1, <5>3
      <4> QED BY <3>1, <4>3 DEF StrmSome
    <3> QED BY <3>1, <3>2, <3>3
  <2>4. ASSUME NEW j \in Node, NEW k \in DOMAIN Sins[j]
        PROVE  Passed(j, k, pos, entered) <=> Passed(j, k, pos + 1, 0)
    <3>1. j \in Nat /\ k \in Nat \ {0} /\ (j = pos + 1 => k <= entered)
      <4>1. j \in Nat /\ k \in 1 .. Len(Sins[j]) /\ Len(Sins[j]) \in Nat
        BY <1>2, <1>3
      <4>2. j = pos + 1 => Len(Sins[j]) = NumSide
        BY <1>7 DEF i
      <4>3. NumSide \in Nat /\ NumIn \in Nat /\ entered = NumSide + NumIn
        BY <1>7, <2>1
      <4> QED BY ONLY <4>1, <4>2, <4>3
    <3> QED BY <1>7, <3>1 DEF Passed
  <2>5. ASSUME NEW j \in Node, NEW k \in DOMAIN Ins[j]
        PROVE  Passed(j, k, pos, NumIn) <=> Passed(j, k, pos + 1, 0)
    <3>1. j \in Nat /\ k \in Nat \ {0} /\ (j = pos + 1 => k <= NumIn)
      BY <1>2, <1>3, <1>7, <2>1 DEF i
    <3> QED BY <1>7, <3>1 DEF Passed
  <2>6. MirrorsRight(Node, sideMir, side, Sins, pos + 1, 0) /\ MirrorsRight(Node, strmMir, strm, Ins, pos + 1, 0)
    BY <1>9, <2>2, <2>4, <2>5, PassedSame
  <2>7. MirrorsEntered'
    BY <1>1, <1>2, <1>6, <2>1, <2>3, <2>6 DEF MirrorsEntered
  <2> QED
    BY <1>5, <2>7
<1> QED
  BY <1>11, <1>12, <1>13

\* All nodes are through.
LEMMA InitializedWInv ==
  ASSUME WInv, Initialized
  PROVE  (TablesRight /\ PredsRight /\ MirrorsEntered)'
<1>1. /\ TablesRight /\ PredsRight /\ MirrorsEntered /\ cfg \in Configs /\ phase = "graphNodes" /\ phase' = "done"
      /\ pos = N /\ UNCHANGED <<cfg, cname, side, strm, preds, sideMir, strmMir, entered>>
  BY DEF WInv, IInv, Progress, Initialized, Goto
<1>2. N' = N /\ Node' = Node /\ Ins' = Ins /\ Sins' = Sins
  BY <1>1, DeclSame
<1>3. SideDone' = SideDone /\ StrmDone' = StrmDone
  BY <1>1, <1>2 DEF SideDone, StrmDone
<1>4. MirDone = N /\ MirDone' = N /\ SideSome = 0 /\ SideSome' = 0 /\ StrmSome = 0 /\ StrmSome' = 0
  BY <1>1, <1>2 DEF MirDone, SideSome, StrmSome
<1>5. \A k \in DOMAIN cfg'.gin : OwnStream(k)'
  BY <1>1, <1>2 DEF OwnStream, MirrorsEntered
<1>6. MirrorsEntered'
  BY <1>1, <1>2, <1>4, <1>5 DEF MirrorsEntered
<1> QED
  BY <1>1, <1>3, <1>6, TablesKept, PredsKept

\* Every step of the initialisation wires what it registers as it is named.
LEMMA NextWInv == WInv /\ [Next]_vars => WInv'
<1> SUFFICES ASSUME WInv, [Next]_vars PROVE WInv'
  OBVIOUS
<1>0. IInv'
  BY NextIInv DEF WInv
<1>1. CASE UNCHANGED vars
  <2>1. UNCHANGED <<cfg, phase, pos, cname, side, strm, preds, sideMir, strmMir, entered>>
    BY <1>1 DEF vars
  <2>2. N' = N /\ Node' = Node /\ Outs' = Outs /\ Ins' = Ins /\ Souts' = Souts /\ Sins' = Sins
    BY <2>1, DeclSame
  <2>3. SideDone' = SideDone /\ StrmDone' = StrmDone /\ MirDone' = MirDone /\ SideSome' = SideSome /\ StrmSome' = StrmSome
    BY <2>1, <2>2 DEF SideDone, StrmDone, MirDone, SideSome, StrmSome, NumSide
  <2>4. TablesRight => TablesRight'
    BY <2>1, <2>2, <2>3 DEF TablesRight
  <2>5. PredsRight => PredsRight'
    BY <2>1, <2>3, PredsKept
  <2>6. MirrorsEntered => MirrorsEntered'
    BY <2>1, <2>2, <2>3 DEF MirrorsEntered, OwnStream
  <2> QED
    BY <1>0, <2>1, <2>4, <2>5, <2>6 DEF WInv
<1>2. CASE RejectNode \/ CrashOnNode \/ RejectDeclaration \/ RejectStreams
  <2>1. phase' \in {"failed", "crashed"}
    BY <1>2 DEF RejectNode, CrashOnNode, RejectDeclaration, RejectStreams, Fail, Stop
  <2> QED
    BY <1>0, <2>1 DEF WInv
<1>3. CASE InitializeNode
  BY <1>0, <1>3, InitializeNodeWInv DEF WInv
<1>4. CASE NodesInitialized \/ SideDataInitialized \/ GraphOutputs
  <2>1. phase \notin {"failed", "crashed"}
    BY <1>4 DEF NodesInitialized, SideDataInitialized, GraphOutputs
  <2> QED
    BY <1>0, <1>4, <2>1, GotoWInv DEF WInv
<1>5. CASE GraphSideData \/ GraphInputs
  BY <1>0, <1>5, GraphSideWInv, GraphInputsWInv DEF WInv
<1>6. CASE initializeNodeSideData \/ initializeNodeStreams
  BY <1>0, <1>6, SideDataWInv, StreamsWInv DEF WInv
<1>7. CASE InitializeStreams \/ Initialized
  BY <1>0, <1>7, InitializeStreamsWInv, InitializedWInv DEF WInv
<1>8. CASE initializeInputSideData \/ initializeInputStream \/ NodeInitialize
  BY <1>0, <1>8, NodeInitializeWInv DEF WInv
<1> QED
  BY <1>1, <1>2, <1>3, <1>4, <1>5, <1>6, <1>7, <1>8 DEF Next

\* In every graph that is initialised, whatever its configuration, an input is
\* mirrored once, at the output its name stands for; the predecessors of a node
\* are the nodes that feed it; and the graph's inputs are its own.
LEMMA WInvWired == WInv => WiredAsNamed
<1> SUFFICES ASSUME WInv, Done PROVE WiredAsNamed
  BY DEF WiredAsNamed, WiredOnce, PredecessorsFeed, GraphInputsOwn
<1>1. phase = "done" /\ TablesRight /\ PredsRight /\ MirrorsEntered /\ cfg \in Configs
  BY DEF WInv, IInv, Progress, Done
<1>2. SideDone = N /\ StrmDone = N /\ MirDone = N /\ SideSome = 0 /\ StrmSome = 0
  BY <1>1 DEF SideDone, StrmDone, MirDone, SideSome, StrmSome
<1>3. /\ N \in Nat /\ Node = 1 .. N
      /\ \A i \in Node : Ins[i] = cfg.nodes[i].ins /\ Sins[i] = cfg.nodes[i].sins /\ Outs[i] = cfg.nodes[i].outs
      /\ \A i \in Node : Ins[i] \in Seq(Name) /\ Sins[i] \in Seq(Name) /\ Outs[i] \in Seq(Name)
  BY <1>1, DeclType
<1>4. /\ InputsRight(side, cfg.gside, Souts, Sins, 1, N) /\ InputsRight(strm, cfg.gin, Outs, Ins, 0, N)
      /\ NamesRight(strm, cname, cfg.gin, Outs, N) /\ cfg.gin \in Seq(Name)
      /\ MirrorsRight(Node, sideMir, side, Sins, N, 0) /\ MirrorsRight(Node, strmMir, strm, Ins, N, 0)
  BY <1>1, <1>2 DEF TablesRight, MirrorsEntered
<1>5. \A i, n : StreamFeeder(i, n) = Feeder(cfg.gin, Outs, i, n) /\ SideFeeder(i, n) = Feeder(cfg.gside, Souts, i - 1, n)
  BY DEF StreamFeeder, SideFeeder, Outs, Souts
<1>6. WiredOnce
  <2>1. ASSUME NEW i \in Node, NEW k \in DOMAIN cfg.nodes[i].ins
        PROVE  MirroredOnce(strmMir, strm, i, k, cfg.nodes[i].ins[k], StreamFeeder(i, cfg.nodes[i].ins[k]))
    <3>1. k \in DOMAIN Ins[i] /\ i - 0 = i
      BY <1>3
    <3>2. MirroredOnce(strmMir, strm, i, k, Ins[i][k], Feeder(cfg.gin, Outs, i - 0, Ins[i][k]))
      BY <1>3, <1>4, <3>1, MirroredRight
    <3> QED
      BY <1>3, <1>5, <3>1, <3>2
  <2>2. ASSUME NEW i \in Node, NEW k \in DOMAIN cfg.nodes[i].sins
        PROVE  MirroredOnce(sideMir, side, i, k, cfg.nodes[i].sins[k], SideFeeder(i, cfg.nodes[i].sins[k]))
    <3>1. k \in DOMAIN Sins[i]
      BY <1>3
    <3>2. MirroredOnce(sideMir, side, i, k, Sins[i][k], Feeder(cfg.gside, Souts, i - 1, Sins[i][k]))
      BY <1>3, <1>4, <3>1, MirroredRight
    <3> QED
      BY <1>3, <1>5, <3>2
  <2> QED
    BY <2>1, <2>2 DEF WiredOnce
<1>7. PredecessorsFeed
  <2> SUFFICES ASSUME NEW i \in Node PROVE preds[i] = {cname[j] : j \in Feeders(i)}
    BY DEF PredecessorsFeed
  <2>1. preds[i] = SidePreds(i) \cup StrmPreds(i)
    BY <1>1, <1>2, <1>3 DEF PredsRight
  <2> DEFINE S == {SideFeeder(i, Sins[i][k]) : k \in DOMAIN Sins[i]}
             T == {StreamFeeder(i, Ins[i][k]) : k \in DOMAIN Ins[i]}
  <2>2. SidePreds(i) = {cname[j] : j \in S \ {0, -1}} /\ StrmPreds(i) = {cname[j] : j \in T \ {0, -1}}
    BY <1>5 DEF SidePreds, StrmPreds, FeederNames
  <2>3. Feeders(i) = (T \cup S) \ {0, -1}
    BY <1>3 DEF Feeders
  <2> HIDE DEF S, T
  <2> QED
    BY <2>1, <2>2, <2>3
<1>8. GraphInputsOwn
  <2> SUFFICES ASSUME NEW k \in DOMAIN cfg.gin
               PROVE  /\ \A l \in DOMAIN cfg.gin : l # k => cfg.gin[l] # cfg.gin[k]
                      /\ \A i \in Node : \A l \in DOMAIN cfg.nodes[i].outs : cfg.nodes[i].outs[l] # cfg.gin[k]
    BY DEF GraphInputsOwn
  <2> DEFINE e(j) == strm.outs[strm.toIndex[cfg.gin[j]]]
  <2>1. \A j \in DOMAIN cfg.gin : e(j).type = "graph" /\ e(j).index = N + j /\ j \in Nat /\ cfg.gin[j] \in Name
    BY <1>1, <1>4 DEF MirrorsEntered, OwnStream
  <2>2. ASSUME NEW l \in DOMAIN cfg.gin, l # k, cfg.gin[l] = cfg.gin[k] PROVE FALSE
    <3>1. e(l).index = e(k).index
      BY <2>2
    <3> HIDE DEF e
    <3> QED BY <1>3, <2>1, <2>2, <3>1
  <2>3. ASSUME NEW i \in Node, NEW l \in DOMAIN cfg.nodes[i].outs, cfg.nodes[i].outs[l] = cfg.gin[k] PROVE FALSE
    <3> DEFINE n == cfg.gin[k]
               f == Feeder(cfg.gin, Outs, N, n)
    <3>1. In(Outs[i], n) /\ i \in 1 .. N
      BY <1>3, <2>3 DEF In
    <3>2. f \in -1 .. N /\ i <= f
      BY <1>3, <3>1, FeederRange
    <3>3. f # 0 /\ f # -1
      BY <1>3, <3>1, <3>2
    <3>4. Resolved(strm, strm.toIndex[n], n, f)
      BY <1>4, <2>1 DEF NamesRight
    <3>5. e(k).type = "task"
      BY <3>3, <3>4 DEF Resolved, FedBy
    <3> QED
      BY <2>1, <3>5
  <2> QED
    BY <2>2, <2>3
<1> QED
  BY <1>6, <1>7, <1>8 DEF WiredAsNamed

\* ParsedGraphConfig::Initialize, Graph::Initialize and Node::Initialize wire
\* every configuration they accept as its names say.
THEOREM ConfigWired == Spec => []WiredAsNamed
BY InitWInv, NextWInv, WInvWired, PTL DEF Spec
-----------------------------------------------------------------------------
(* The tasks of graph 3 *)

\* What Append does to a list of anything.
LEMMA ListedAppend ==
  ASSUME NEW s, Listed(s), NEW e
  PROVE  /\ Listed(Append(s, e)) /\ Len(Append(s, e)) = Len(s) + 1 /\ Len(s) \in Nat
         /\ \A i \in 1 .. Len(s) : Append(s, e)[i] = s[i]
         /\ Append(s, e)[Len(s) + 1] = e
<1> DEFINE T == {s[i] : i \in DOMAIN s} \cup {e}
           t == Append(s, e)
           R == {t[i] : i \in DOMAIN t}
<1>1. /\ Len(s) \in Nat /\ DOMAIN s = 1 .. Len(s) /\ s = [i \in 1 .. Len(s) |-> s[i]]
  BY DEF Listed
<1>2. s \in Seq(T) /\ e \in T
  <2>1. \A i \in 1 .. Len(s) : s[i] \in T
    BY <1>1
  <2>2. s \in [1 .. Len(s) -> T]
    BY <1>1, <2>1
  <2> QED BY <1>1, <2>2, SeqDef
<1> HIDE DEF T
<1>3. /\ t \in Seq(T) /\ Len(t) = Len(s) + 1
      /\ \A i \in 1 .. Len(s) : t[i] = s[i]
      /\ t[Len(s) + 1] = e
  BY <1>2, AppendRange
<1>4. t \in Seq(R)
  <2>1. Len(t) \in Nat /\ DOMAIN t = 1 .. Len(t) /\ t = [i \in 1 .. Len(t) |-> t[i]]
    <3> HIDE DEF t
    <3>1. t \in Seq(T)
      BY <1>3
    <3> QED BY ONLY <3>1
  <2>2. \A i \in 1 .. Len(t) : t[i] \in R
    BY <2>1
  <2> HIDE DEF t, R
  <2>3. t \in [1 .. Len(t) -> R]
    BY <2>1, <2>2
  <2> QED BY <2>1, <2>3, SeqDef
<1> QED BY <1>1, <1>3, <1>4 DEF Listed

\* A reported block is never taken for the key of random sources.
LEMMA OwnerIsBlock ==
  ASSUME NEW found, NEW ip, NEW c \in Owners(found, ip)
  PROVE  c # RANDOM /\ belongs(c, ip)
<1>1. belongs(c, ip)
  BY DEF Owners
<1>2. c.len \in 0 .. W /\ W \in Nat
  BY <1>1, TraceAssumption DEF belongs, WidthAssumption
<1>3. RANDOM.len = -1
  BY DEF RANDOM
<1>4. c.len # RANDOM.len
  BY <1>2, <1>3
<1> QED BY <1>1, <1>4

\* The rules of the packet's own block: one of them, after repeated elements are
\* taken out, matches it and drops it.
LEMMA RuleDrops ==
  ASSUME NEW m, NEW i \in DOMAIN nicPackets[m],
         NEW key \in Owners(results[m], nicPackets[m][i][SIP]), key \in DOMAIN all_stat[m]
  PROVE  \E d \in {generate_dms_rule(r, NetDevs[m]) : r \in Prepare(results[m], nicPackets[m], all_stat[m])} :
           d.action.verb = "drop" /\ d.srcIP # RANDOM /\ Matches(d, nicPackets[m][i])
<1> DEFINE found == results[m]
           pkts == nicPackets[m]
           stats == all_stat[m]
           dev == NetDevs[m]
           p == pkts[i]
           all == UNION {{rule_stat(k, stats[k], pkts[j]) : j \in cidr_include_positions(found, pkts, k)}
                          : k \in DOMAIN stats}
           q == rule_stat(key, stats[key], p)
           r == CHOOSE x \in all : rule_elements(x) = rule_elements(q)
           d == generate_dms_rule(r, dev)
<1>1. key # RANDOM /\ belongs(key, p[SIP])
  BY OwnerIsBlock
<1>2. q \in all
  <2>1. i \in cidr_include_positions(found, pkts, key)
    BY <1>1 DEF cidr_include_positions
  <2> QED BY <2>1
<1>3. r \in all /\ rule_elements(r) = rule_elements(q)
  BY <1>2
<1>4. r \in Prepare(found, pkts, stats)
  BY <1>2 DEF Prepare
<1> HIDE DEF all, r
<1>5. /\ r.SIP = key /\ r.DIP = p[DIP] /\ r.Protocol = p[Protocol]
      /\ r.SPort = q.SPort /\ r.DPort = q.DPort /\ r.Length = q.Length
  <2>1. q.SIP = key /\ q.DIP = p[DIP] /\ q.Protocol = p[Protocol]
    BY DEF rule_stat
  <2> HIDE DEF q
  <2>2. /\ r.SIP = q.SIP /\ r.DIP = q.DIP /\ r.Protocol = q.Protocol
        /\ r.SPort = q.SPort /\ r.DPort = q.DPort /\ r.Length = q.Length
    BY <1>3 DEF rule_elements
  <2> QED BY <2>1, <2>2
<1>6. /\ Fits(q.SPort, p[SPort]) /\ Fits(q.DPort, p[DPort]) /\ Fits(q.Length, p[Length])
  <2>1. \A stat, number : Fits(Element(stat, number), number)
    BY DEF Fits, Element
  <2>2. /\ q.SPort = Element(stats[key].srcPort, p[SPort]) /\ q.DPort = Element(stats[key].dstPort, p[DPort])
        /\ q.Length = Element(stats[key].length, p[Length])
    BY DEF rule_stat
  <2> QED BY <2>1, <2>2
<1> HIDE DEF q
<1>7. /\ d.action.verb = "drop" /\ d.srcIP = r.SIP /\ d.dstIP = [ip |-> r.DIP, len |-> W]
      /\ d.sPort = r.SPort /\ d.dPort = r.DPort /\ d.length = r.Length /\ d.protocol = r.Protocol
  BY <1>1, <1>5 DEF generate_dms_rule, Action
<1> HIDE DEF d
<1>8. d.action.verb = "drop" /\ d.srcIP # RANDOM /\ Matches(d, p)
  BY <1>1, <1>5, <1>6, <1>7 DEF Matches
<1> QED BY <1>4, <1>8 DEF d

\* Sources at random that no port tells apart are limited by the older task.
LEMMA RuleLimits ==
  ASSUME NEW stat, NEW dev, "centralize" \notin {stat.srcPort.stat_type, stat.dstPort.stat_type}
  PROVE  \E r \in generate_dms_rules(RANDOM, stat, dev) : r.action.verb = "limit"
<1> DEFINE orAny(S) == IF S = {} THEN {-1} ELSE S
           rule(port, proto) == [srcIP |-> [ip |-> 0, len |-> W], dPort |-> <<"char", port % 256>>,
                                 protocol |-> proto, action |-> Action(FALSE, dev)]
           passed(port, proto) ==
             [srcIP |-> IF RANDOM = RANDOM THEN [ip |-> 0, len |-> W] ELSE RANDOM, dPort |-> <<"char", port % 256>>,
              protocol |-> proto,
              action |-> Action(RANDOM # RANDOM \/ "centralize" \in {stat.srcPort.stat_type, stat.dstPort.stat_type}, dev)]
<1>1. \A port \in orAny(stat.dstPort.value), proto \in orAny(DOMAIN stat.protocol) :
        rule(port, proto) \in generate_dms_rules(RANDOM, stat, dev)
  <2>1. \A port \in orAny(stat.dstPort.value), proto \in orAny(DOMAIN stat.protocol) :
          passed(port, proto) \in generate_dms_rules(RANDOM, stat, dev)
    BY DEF generate_dms_rules
  <2>2. \A port, proto : passed(port, proto) = rule(port, proto)
    OBVIOUS
  <2> HIDE DEF rule, passed, orAny
  <2> QED BY <2>1, <2>2
<1>2. PICK port, proto : port \in orAny(stat.dstPort.value) /\ proto \in orAny(DOMAIN stat.protocol)
  <2>1. \A S : \E x : x \in orAny(S)
    OBVIOUS
  <2> QED BY <2>1
<1>3. rule(port, proto).action.verb = "limit"
  BY DEF Action
<1> HIDE DEF rule, orAny
<1> QED BY <1>1, <1>2, <1>3

\* The property is about the variables of the tasks alone.
LEMMA CoverSame ==
  ASSUME RulesCoverAttack,
         UNCHANGED <<DeDup, nicPackets, results, all_stat, hosts_in_attack_link, nic_rules, stage>>
  PROVE  RulesCoverAttack'
<1>1. EachIsDropped' = EachIsDropped
  BY DEF EachIsDropped
<1>2. LinksComplete' = LinksComplete
  BY DEF LinksComplete
<1>3. RandomIsLimited' = RandomIsLimited
  BY DEF RandomIsLimited
<1> QED BY <1>1, <1>2, <1>3 DEF RulesCoverAttack

\* A NIC in turn is merged: only the current result changes.
LEMMA TraceMerge ==
  ASSUME TraceInv, MergeStep
  PROVE  TraceInv'
<1>1. UNCHANGED <<DeDup, nicPackets, nic, results, all_stat, prepared, hosts_in_attack_link, nic_rules, stage>>
  BY DEF MergeStep, traceVars, outVars
<1>2. randomIPs' # {} => containRandomAttack'
  BY DEF MergeStep, Merge, Program1, Program2, Program3, Program4, Report, TraceInv
<1>3. RulesCoverAttack'
  BY <1>1, CoverSame DEF TraceInv
<1>4. \A m \in 1 .. Len(results') : GroupedRight(m)'
  BY <1>1 DEF TraceInv, GroupedRight
<1> QED BY <1>1, <1>2, <1>3, <1>4 DEF TraceInv, Listed

\* The result of a NIC is grouped, and the next one begins.
LEMMA TraceOutput ==
  ASSUME TraceInv, SIPBaseMerge \/ SIPBaseMergeDeDup
  PROVE  TraceInv'
<1>0. PICK k : k = Len(results) + 1
  OBVIOUS
<1> DEFINE stats == GroupedStats
           found == MergeResult
           pkts == nicPackets[nic]
<1>1. PICK prep :
        /\ stage = "merge" /\ results' = Append(results, found) /\ all_stat' = Append(all_stat, stats)
        /\ prepared' = Append(prepared, prep) /\ (DeDup => prep = Prepare(found, pkts, stats))
        /\ IF nic < Len(NICs) THEN NextNIC ELSE stage' = "net" /\ UNCHANGED <<mergeVars, nic>>
        /\ UNCHANGED <<DeDup, nicPackets>>
  BY DEF SIPBaseMerge, SIPBaseMergeDeDup, Output
<1>2. nic = k /\ nic <= Len(NICs) /\ Len(NICs) \in Nat /\ Len(results) \in Nat
      /\ Len(all_stat) = Len(results) /\ Len(prepared) = Len(results)
  BY <1>0, <1>1, TraceAssumption, ListedAppend DEF TraceInv
<1>3. /\ Listed(results') /\ Listed(all_stat') /\ Listed(prepared')
      /\ Len(results') = k /\ Len(all_stat') = k /\ Len(prepared') = k
      /\ \A m \in 1 .. Len(results) :
           results'[m] = results[m] /\ all_stat'[m] = all_stat[m] /\ prepared'[m] = prepared[m]
      /\ results'[k] = found /\ all_stat'[k] = stats /\ prepared'[k] = prep
  <2>1. Listed(results) /\ Listed(all_stat) /\ Listed(prepared)
    BY DEF TraceInv
  <2> HIDE DEF stats, found
  <2> QED BY <1>0, <1>1, <1>2, <2>1, ListedAppend
<1>4. \A m \in 1 .. Len(results) : GroupedRight(m)'
  <2> SUFFICES ASSUME NEW m \in 1 .. Len(results) PROVE GroupedRight(m)'
    OBVIOUS
  <2>1. GroupedRight(m)
    BY DEF TraceInv
  <2>2. /\ results'[m] = results[m] /\ all_stat'[m] = all_stat[m] /\ prepared'[m] = prepared[m]
        /\ UNCHANGED <<DeDup, nicPackets>>
    BY <1>1, <1>3
  <2> QED BY ONLY <2>1, <2>2 DEF GroupedRight
<1>5. GroupedRight(k)'
  <2>1. /\ DOMAIN stats = Keys(found, pkts)
        /\ \A key \in DOMAIN stats :
             stats[key].hostNicSign = NICs[nic] /\ stats[key].dstIP = {pkts[i][DIP] : i \in Merged(found, pkts, key)}
    BY DEF GroupedStats, SIPBaseMergeStats
  <2>2. found.randomIPs # {} => found.containRandomAttack
    BY DEF MergeResult, TraceInv
  <2> HIDE DEF stats, found
  <2>3. nicPackets'[k] = pkts /\ NICs[k] = NICs[nic]
    BY <1>1, <1>2
  <2>4. DeDup' => prep = Prepare(found, pkts, stats)
    BY <1>1
  <2>5. Len(results') = k
    BY <1>3
  <2> HIDE DEF pkts
  <2> SUFFICES /\ DOMAIN all_stat'[k] = Keys(results'[k], nicPackets'[k])
               /\ \A key \in DOMAIN all_stat'[k] :
                    /\ all_stat'[k][key].hostNicSign = NICs[k]
                    /\ all_stat'[k][key].dstIP = {nicPackets'[k][i][DIP] : i \in Merged(results'[k], nicPackets'[k], key)}
               /\ DeDup' => prepared'[k] = Prepare(results'[k], nicPackets'[k], all_stat'[k])
               /\ results'[k].randomIPs # {} => results'[k].containRandomAttack
    BY DEF GroupedRight
  <2> QED BY <1>3, <2>1, <2>2, <2>3, <2>4
<1>6. \A m \in 1 .. Len(results') : GroupedRight(m)'
  <2>1. ASSUME NEW m \in 1 .. k PROVE m \in 1 .. Len(results) \/ m = k
    BY <1>0, <1>2
  <2> QED BY <1>3, <1>4, <1>5, <2>1
<1>7. /\ stage' \in {"merge", "net"}
      /\ IF stage' = "merge" THEN nic' = Len(results') + 1 /\ nic' <= Len(NICs) ELSE Len(results') = Len(NICs)
      /\ randomIPs' # {} => containRandomAttack'
  <2>1. CASE nic < Len(NICs)
    BY <1>0, <1>1, <1>2, <1>3, <2>1 DEF NextNIC
  <2>2. CASE ~ (nic < Len(NICs))
    <3>1. stage' = "net" /\ UNCHANGED <<randomIPs, containRandomAttack>>
      BY <1>1, <2>2 DEF mergeVars
    <3>2. k = Len(NICs)
      BY <1>0, <1>2, <2>2
    <3> QED BY <1>3, <3>1, <3>2 DEF TraceInv
  <2> QED BY <2>1, <2>2
<1>8. RulesCoverAttack'
  BY <1>7 DEF RulesCoverAttack, EachIsDropped, LinksComplete, RandomIsLimited
<1> QED BY <1>3, <1>6, <1>7, <1>8 DEF TraceInv

\* The links of NIC m, as its groups show them and as its packets do.
LEMMA LinksOfNIC ==
  ASSUME TraceInv, NEW m \in 1 .. Len(results)
  PROVE  UNION {{<<LinkKey(key, dip), all_stat[m][key].hostNicSign>> : dip \in all_stat[m][key].dstIP}
                  : key \in DOMAIN all_stat[m]}
           = UNION {{<<<<key, nicPackets[m][i][DIP]>>, NICs[m]>>
                       : key \in Owners(results[m], nicPackets[m][i][SIP])
                                   \cup (IF nicPackets[m][i][SIP] \in results[m].randomIPs THEN {RANDOM} ELSE {})}
                      : i \in DOMAIN nicPackets[m]}
<1> DEFINE found == results[m]
           pkts == nicPackets[m]
           stats == all_stat[m]
           Of(i) == Owners(found, pkts[i][SIP]) \cup (IF pkts[i][SIP] \in found.randomIPs THEN {RANDOM} ELSE {})
           L == UNION {{<<LinkKey(key, dip), stats[key].hostNicSign>> : dip \in stats[key].dstIP} : key \in DOMAIN stats}
           R == UNION {{<<<<key, pkts[i][DIP]>>, NICs[m]>> : key \in Of(i)} : i \in DOMAIN pkts}
<1>1. /\ DOMAIN stats = Keys(found, pkts)
      /\ \A key \in DOMAIN stats :
           stats[key].hostNicSign = NICs[m] /\ stats[key].dstIP = {pkts[i][DIP] : i \in Merged(found, pkts, key)}
      /\ found.randomIPs # {} => found.containRandomAttack
  BY DEF TraceInv, GroupedRight
<1> HIDE DEF found, pkts, stats
<1>2. \A i \in DOMAIN pkts : \A key : key \in Of(i) <=> key \in DOMAIN stats /\ i \in Merged(found, pkts, key)
  <2> SUFFICES ASSUME NEW i \in DOMAIN pkts, NEW key
               PROVE  key \in Of(i) <=> key \in Keys(found, pkts) /\ i \in Merged(found, pkts, key)
    BY <1>1
  <2>1. CASE key = RANDOM
    <3>1. key \notin Owners(found, pkts[i][SIP])
      BY <2>1, OwnerIsBlock
    <3>2. i \in Merged(found, pkts, key) <=> pkts[i][SIP] \in found.randomIPs
      BY <2>1 DEF Merged
    <3>3. pkts[i][SIP] \in found.randomIPs => key \in Keys(found, pkts)
      BY <1>1, <2>1 DEF Keys
    <3> QED BY <2>1, <3>1, <3>2, <3>3
  <2>2. CASE key # RANDOM
    <3>1. key \in Of(i) <=> key \in Owners(found, pkts[i][SIP])
      BY <2>2
    <3>2. i \in Merged(found, pkts, key) <=> key \in Owners(found, pkts[i][SIP])
      BY <2>2 DEF Merged
    <3>3. key \in Owners(found, pkts[i][SIP]) => key \in Keys(found, pkts)
      BY DEF Keys
    <3> QED BY <3>1, <3>2, <3>3
  <2> QED BY <2>1, <2>2
<1>3. \A key : Merged(found, pkts, key) \subseteq DOMAIN pkts
  BY DEF Merged
<1> HIDE DEF Of
<1>5. ASSUME NEW x \in L PROVE x \in R
  <2>1. PICK key \in DOMAIN stats : x \in {<<LinkKey(key, dip), stats[key].hostNicSign>> : dip \in stats[key].dstIP}
    BY <1>5
  <2>2. PICK dip \in stats[key].dstIP : x = <<LinkKey(key, dip), stats[key].hostNicSign>>
    BY <2>1
  <2>3. PICK i \in Merged(found, pkts, key) : dip = pkts[i][DIP]
    BY <1>1, <2>2
  <2>4. i \in DOMAIN pkts /\ key \in Of(i) /\ x = <<<<key, pkts[i][DIP]>>, NICs[m]>>
    BY <1>1, <1>2, <1>3, <2>2, <2>3 DEF LinkKey
  <2> QED BY <2>4
<1>6. ASSUME NEW x \in R PROVE x \in L
  <2>1. PICK i \in DOMAIN pkts : x \in {<<<<key, pkts[i][DIP]>>, NICs[m]>> : key \in Of(i)}
    BY <1>6
  <2>2. PICK key \in Of(i) : x = <<<<key, pkts[i][DIP]>>, NICs[m]>>
    BY <2>1
  <2>3. key \in DOMAIN stats /\ i \in Merged(found, pkts, key)
    BY <1>2, <2>2
  <2>4. pkts[i][DIP] \in stats[key].dstIP /\ x = <<LinkKey(key, pkts[i][DIP]), stats[key].hostNicSign>>
    BY <1>1, <2>2, <2>3 DEF LinkKey
  <2> QED BY <2>3, <2>4
<1> QED BY <1>5, <1>6 DEF Of, found, pkts, stats

LEMMA TraceLinks ==
  ASSUME TraceInv, NetRecordMerge
  PROVE  TraceInv'
<1>1. /\ stage = "net" /\ stage' = "rules" /\ Len(results) = Len(NICs)
      /\ UNCHANGED <<DeDup, nicPackets, nic, results, all_stat, prepared, randomIPs, containRandomAttack>>
  BY DEF NetRecordMerge, TraceInv, mergeVars
<1>2. LinksComplete'
  <2> DEFINE A(m) == UNION {{<<LinkKey(key, dip), all_stat[m][key].hostNicSign>> : dip \in all_stat[m][key].dstIP}
                              : key \in DOMAIN all_stat[m]}
             B(m) == UNION {{<<<<key, nicPackets[m][i][DIP]>>, NICs[m]>>
                       : key \in Owners(results[m], nicPackets[m][i][SIP])
                                   \cup (IF nicPackets[m][i][SIP] \in results[m].randomIPs THEN {RANDOM} ELSE {})}
                      : i \in DOMAIN nicPackets[m]}
  <2>1. hosts_in_attack_link' = UNION {A(m) : m \in 1 .. Len(NICs)}
    BY DEF NetRecordMerge
  <2>2. \A m \in 1 .. Len(NICs) : A(m) = B(m)
    BY <1>1, LinksOfNIC
  <2>3. LinksComplete' <=> hosts_in_attack_link' = UNION {B(m) : m \in 1 .. Len(NICs)}
    BY <1>1 DEF LinksComplete, NICIndex
  <2> HIDE DEF A, B
  <2> QED BY <2>1, <2>2, <2>3
<1>3. RulesCoverAttack'
  BY <1>1, <1>2 DEF RulesCoverAttack, EachIsDropped, RandomIsLimited
<1>4. \A m \in 1 .. Len(results') : GroupedRight(m)'
  BY <1>1 DEF TraceInv, GroupedRight
<1> QED BY <1>1, <1>3, <1>4 DEF TraceInv, Listed

LEMMA TraceRules ==
  ASSUME TraceInv, GenDMSRules \/ GenDeDupDMSRules
  PROVE  TraceInv'
<1>1. /\ stage = "rules" /\ stage' = "done" /\ Len(results) = Len(NICs)
      /\ UNCHANGED <<DeDup, nicPackets, nic, results, all_stat, prepared, randomIPs, containRandomAttack,
                     hosts_in_attack_link>>
  BY DEF GenDMSRules, GenDeDupDMSRules, SendRules, TraceInv, mergeVars
<1>2. LinksComplete'
  BY <1>1 DEF TraceInv, RulesCoverAttack, LinksComplete
<1>3. ASSUME DeDup PROVE EachIsDropped'
  <2>1. \A m \in 1 .. Len(NICs) : nic_rules'[m] = {generate_dms_rule(r, NetDevs[m]) : r \in prepared[m]}
    BY <1>3 DEF GenDMSRules, GenDeDupDMSRules, SendRules
  <2> SUFFICES ASSUME NEW m \in 1 .. Len(NICs), NEW i \in DOMAIN nicPackets[m],
                      Owners(results[m], nicPackets[m][i][SIP]) # {}
               PROVE  \E r \in nic_rules'[m] : r.action.verb = "drop" /\ r.srcIP # RANDOM /\ Matches(r, nicPackets[m][i])
    BY <1>1 DEF EachIsDropped, NICIndex
  <2>2. PICK key : key \in Owners(results[m], nicPackets[m][i][SIP])
    OBVIOUS
  <2>3. prepared[m] = Prepare(results[m], nicPackets[m], all_stat[m]) /\ DOMAIN all_stat[m] = Keys(results[m], nicPackets[m])
    BY <1>1, <1>3 DEF TraceInv, GroupedRight
  <2>4. key \in DOMAIN all_stat[m]
    BY <2>2, <2>3 DEF Keys
  <2>5. PICK d \in {generate_dms_rule(r, NetDevs[m]) : r \in Prepare(results[m], nicPackets[m], all_stat[m])} :
          d.action.verb = "drop" /\ d.srcIP # RANDOM /\ Matches(d, nicPackets[m][i])
    BY <2>2, <2>4, RuleDrops
  <2>6. d \in nic_rules'[m]
    BY <2>1, <2>3, <2>5
  <2> QED BY <2>5, <2>6
<1>4. ASSUME ~ DeDup PROVE RandomIsLimited'
  <2>1. \A m \in 1 .. Len(NICs) :
          nic_rules'[m] = UNION {generate_dms_rules(key, all_stat[m][key], NetDevs[m]) : key \in DOMAIN all_stat[m]}
    BY <1>4 DEF GenDMSRules, GenDeDupDMSRules, SendRules
  <2> SUFFICES ASSUME NEW m \in 1 .. Len(NICs), RANDOM \in DOMAIN all_stat[m],
                      "centralize" \notin {all_stat[m][RANDOM].srcPort.stat_type, all_stat[m][RANDOM].dstPort.stat_type}
               PROVE  \E r \in nic_rules'[m] : r.action.verb = "limit"
    BY <1>1 DEF RandomIsLimited, NICIndex
  <2>2. PICK r \in generate_dms_rules(RANDOM, all_stat[m][RANDOM], NetDevs[m]) : r.action.verb = "limit"
    BY RuleLimits
  <2> QED BY <2>1, <2>2
<1>5. RulesCoverAttack'
  BY <1>1, <1>2, <1>3, <1>4 DEF RulesCoverAttack
<1>6. \A m \in 1 .. Len(results') : GroupedRight(m)'
  BY <1>1 DEF TraceInv, GroupedRight
<1> QED BY <1>1, <1>5, <1>6 DEF TraceInv, Listed

(***************************************************************************)
(* The tasks of graph 3, for addresses of any width, any number of NICs    *)
(* and packets, and any options: a packet from a block that                *)
(* SndAttackerIPMergeTask reports is dropped by a rule of its NIC, however *)
(* the rules were joined; the links of SndNetRecordMergeTask are those the *)
(* packets show; and SndGenDMSRulesTask limits what it cannot tell apart.  *)
(***************************************************************************)
THEOREM RulesCover == TraceSpec => []RulesCoverAttack
<1>1. TraceInit => TraceInv
  <2> SUFFICES ASSUME TraceInit PROVE TraceInv
    OBVIOUS
  <2>1. /\ results = << >> /\ all_stat = << >> /\ prepared = << >> /\ stage = "merge" /\ nic = 1 /\ randomIPs = {}
    BY DEF TraceInit, MergeInit
  <2>2. Len(NICs) \in Nat /\ 1 <= Len(NICs)
    BY TraceAssumption
  <2>3. Listed(<< >>) /\ Len(<< >>) = 0
    BY DEF Listed
  <2>4. RulesCoverAttack
    BY <2>1 DEF RulesCoverAttack, EachIsDropped, LinksComplete, RandomIsLimited
  <2> QED BY <2>1, <2>2, <2>3, <2>4 DEF TraceInv
<1>2. TraceInv /\ [TraceNext]_<<mergeVars, traceVars>> => TraceInv'
  <2> SUFFICES ASSUME TraceInv, [TraceNext]_<<mergeVars, traceVars>> PROVE TraceInv'
    OBVIOUS
  <2>1. CASE UNCHANGED <<mergeVars, traceVars>>
    <3>1. UNCHANGED <<DeDup, nicPackets, nic, results, all_stat, prepared, hosts_in_attack_link, nic_rules, stage,
                      randomIPs, containRandomAttack>>
      BY <2>1 DEF mergeVars, traceVars, outVars
    <3>2. RulesCoverAttack'
      BY <3>1, CoverSame DEF TraceInv
    <3>3. \A m \in 1 .. Len(results') : GroupedRight(m)'
      BY <3>1 DEF TraceInv, GroupedRight
    <3> QED BY <3>1, <3>2, <3>3 DEF TraceInv, Listed
  <2> QED BY <2>1, TraceMerge, TraceOutput, TraceLinks, TraceRules DEF TraceNext
<1>3. TraceInv => RulesCoverAttack
  BY DEF TraceInv
<1> QED BY <1>1, <1>2, <1>3, PTL DEF TraceSpec

-----------------------------------------------------------------------------
(* The slots of a declaration *)

\* Short sequences.
LEMMA ShortSeq ==
  ASSUME NEW T
  PROVE  /\ \A e \in T : <<e>> \in Seq(T)
         /\ \A s \in Seq(T) : Len(s) \in Nat /\ (s # << >> => Len(s) >= 1)
         /\ \A s \in Seq(T) : s # << >> /\ Len(s) # 1 => Len(s) > 1
<1>1. \A e \in T : <<e>> \in Seq(T)
  OBVIOUS
<1>2. \A s \in Seq(T) : Len(s) \in Nat /\ (s # << >> => Len(s) >= 1)
  OBVIOUS
<1>3. \A n \in Nat : n >= 1 /\ n # 1 => n > 1
  OBVIOUS
<1> QED
  BY <1>1, <1>2, <1>3, Zenon

LEMMA TagFacts ==
  /\ Tag = ValidTag \cup {Blank} /\ Blank \in Tag /\ Blank \notin ValidTag
  /\ Len(TagOrder) \in Nat /\ 1 <= Len(TagOrder) /\ TagOrder[1] = Blank
  /\ \A i \in 1 .. Len(TagOrder) : TagOrder[i] \in Tag
  /\ \A t \in Tag : \E i \in 1 .. Len(TagOrder) : TagOrder[i] = t
  /\ \A i, j \in 1 .. Len(TagOrder) : TagOrder[i] = TagOrder[j] => i = j
  /\ \A f \in DOMAIN IndexOf : IndexOf[f] \in Nat
<1> USE TagAssumption DEF TagsFit
<1>1. Tag = ValidTag \cup {Blank} /\ Blank \in Tag /\ Blank \notin ValidTag
  BY DEF Tag
<1>2. Len(TagOrder) \in Nat /\ DOMAIN TagOrder = 1 .. Len(TagOrder) /\ TagOrder[1] = Blank
  OBVIOUS
<1>3. \A t \in Tag : \E i \in 1 .. Len(TagOrder) : TagOrder[i] = t
  BY <1>2 DEF Tag, Range
<1>4. 1 <= Len(TagOrder)
  <2>1. PICK i \in 1 .. Len(TagOrder) : TagOrder[i] = Blank
    BY <1>1, <1>3
  <2> QED BY <1>2, <2>1
<1>5. \A i \in 1 .. Len(TagOrder) : TagOrder[i] \in Tag
  BY <1>2 DEF Tag, Range
<1>6. \A i, j \in 1 .. Len(TagOrder) : TagOrder[i] = TagOrder[j] => i = j
  BY <1>2 DEF IsInjective
<1>7. \A f \in DOMAIN IndexOf : IndexOf[f] \in Nat
  OBVIOUS
<1> QED BY <1>1, <1>2, <1>3, <1>4, <1>5, <1>6, <1>7

\* What ParseTagIndexName makes of a string: only a bare name has no tag.
LEMMA ParseType ==
  ASSUME NEW s \in Strings
  PROVE  /\ ParseTagIndexName(s).tag \in Tag
         /\ ParseTagIndexName(s).name \in Seq(STRING)
         /\ ParseTagIndexName(s).index \in Nat \cup {-1}
         /\ ParseTagIndexName(s).index = -1 => Len(s) = 1 /\ ParseTagIndexName(s).tag = Blank
         /\ ParseTagIndexName(s).ok => (Len(s) = 1 <=> ParseTagIndexName(s).tag = Blank)
         /\ Len(s) = 1 => ParseTagIndexName(s).index = -1
<1>0. s \in Seq(STRING) /\ s # << >> /\ Blank \in STRING
  BY TagAssumption, Zenon DEF TagsFit
<1>1. s \in Seq(STRING) /\ Len(s) \in Nat /\ Len(s) >= 1 /\ NoName \in Seq(STRING)
  BY <1>0, ShortSeq DEF NoName
<1>2. CASE Len(s) = 1
  <2>1. ParseTagIndexName(s) = [ok |-> TRUE, tag |-> Blank, index |-> -1, name |-> s]
    BY <1>2 DEF ParseTagIndexName
  <2> QED BY <1>1, <1>2, <2>1, TagFacts
<1>3. CASE Len(s) = 2
  <2>1. CASE s[1] \in ValidTag
    <3>1. ParseTagIndexName(s) = [ok |-> TRUE, tag |-> s[1], index |-> 0, name |-> Tail(s)]
      BY <1>3, <2>1 DEF ParseTagIndexName, validateTag
    <3>2. Tail(s) \in Seq(STRING)
      BY <1>1
    <3> QED BY <1>3, <2>1, <3>1, <3>2, TagFacts
  <2>2. CASE s[1] \notin ValidTag
    <3>1. ParseTagIndexName(s) = [ok |-> FALSE, tag |-> Blank, index |-> 0, name |-> NoName]
      BY <1>3, <2>2 DEF ParseTagIndexName, validateTag, Invalid
    <3> QED BY <1>1, <1>3, <3>1, TagFacts
  <2> QED BY <2>1, <2>2
<1>4. CASE Len(s) # 1 /\ Len(s) # 2
  <2>0. Len(s) >= 3
    <3>1. \A n \in Nat : n >= 1 /\ n # 1 /\ n # 2 => n >= 3
      OBVIOUS
    <3> QED BY <1>1, <1>4, <3>1
  <2>1. CASE s[1] \in ValidTag /\ s[2] \in DOMAIN IndexOf
    <3>1. ParseTagIndexName(s) = [ok |-> TRUE, tag |-> s[1], index |-> IndexOf[s[2]], name |-> SubSeq(s, 3, Len(s))]
      BY <1>4, <2>1 DEF ParseTagIndexName, validateTag, validateIndex
    <3>2. SubSeq(s, 3, Len(s)) \in Seq(STRING) /\ IndexOf[s[2]] \in Nat
      BY <1>1, <2>0, <2>1, TagFacts
    <3> QED BY <1>4, <2>1, <3>1, <3>2, TagFacts
  <2>2. CASE ~ (s[1] \in ValidTag /\ s[2] \in DOMAIN IndexOf)
    <3>1. ParseTagIndexName(s) = [ok |-> FALSE, tag |-> Blank, index |-> 0, name |-> NoName]
      BY <1>4, <2>2 DEF ParseTagIndexName, validateTag, validateIndex, Invalid
    <3> QED BY <1>1, <1>4, <3>1, TagFacts
  <2> QED BY <2>1, <2>2
<1> QED BY <1>2, <1>3, <1>4

LEMMA WantedType ==
  ASSUME TagData, NEW k \in 1 .. Len(decl)
  PROVE  TagOf(k) \in Tag /\ WantedIndex(k) \in Nat /\ decl[k] \in Strings
<1>1. decl \in Seq(Strings) /\ Len(decl) \in Nat /\ decl[k] \in Strings
  BY DEF TagData
<1>2. TagOf(k) \in Tag /\ ParseTagIndexName(decl[k]).index \in Nat \cup {-1}
  BY <1>1, ParseType DEF TagOf
<1>3. Cardinality({j \in 1 .. k - 1 : Len(decl[j]) = 1}) \in Nat
  <2>1. k - 1 \in Nat
    BY <1>1
  <2> QED BY <2>1, Counting
<1> QED BY <1>1, <1>2, <1>3 DEF WantedIndex

LEMMA SlotsUptoFacts ==
  ASSUME TagData
  PROVE  /\ SlotsUpto(0) = 0 /\ SlotsUpto(Len(TagOrder)) = Len(decl)
         /\ \A p \in Nat : SlotsUpto(p) \in Nat
         /\ \A p, q \in Nat : p <= q => SlotsUpto(p) <= SlotsUpto(q)
         /\ \A p \in 0 .. Len(TagOrder) - 1 :
              SlotsUpto(p + 1) = SlotsUpto(p) + Cardinality({k \in 1 .. Len(decl) : TagOf(k) = TagOrder[p + 1]})
<1> DEFINE D == 1 .. Len(decl)
           F(p) == {TagOrder[i] : i \in 1 .. p}
<1>1. Len(decl) \in Nat /\ IsFiniteSet(D) /\ Cardinality(D) = Len(decl)
  <2>1. Len(decl) \in Nat
    BY DEF TagData
  <2>2. IsFiniteSet(1 .. Len(decl)) /\ Cardinality(1 .. Len(decl)) = IF 1 > Len(decl) THEN 0 ELSE Len(decl) - 1 + 1
    BY <2>1, FS_Interval
  <2> QED BY <2>1, <2>2
<1>2. \A tags : Under(tags) \subseteq D /\ IsFiniteSet(Under(tags)) /\ Cardinality(Under(tags)) \in Nat
  <2>1. \A tags : Under(tags) \subseteq D
    BY DEF Under
  <2> QED BY <1>1, <2>1, Counting
<1>3. SlotsUpto(0) = 0
  <2>1. Under(F(0)) = {}
    BY DEF Under
  <2> QED BY <2>1, FS_EmptySet DEF SlotsUpto
<1>4. SlotsUpto(Len(TagOrder)) = Len(decl)
  <2>1. Under(F(Len(TagOrder))) = D
    <3>1. ASSUME NEW k \in D PROVE TagOf(k) \in F(Len(TagOrder))
      <4>1. TagOf(k) \in Tag
        BY WantedType
      <4>2. PICK i \in 1 .. Len(TagOrder) : TagOrder[i] = TagOf(k)
        BY <4>1, TagFacts
      <4> QED BY <4>2
    <3> HIDE DEF F
    <3> QED BY <3>1 DEF Under
  <2> QED BY <1>1, <2>1 DEF SlotsUpto
<1>5. \A p \in Nat : SlotsUpto(p) \in Nat
  BY <1>2 DEF SlotsUpto
<1>6. ASSUME NEW p \in Nat, NEW q \in Nat, p <= q PROVE SlotsUpto(p) <= SlotsUpto(q)
  <2>1. F(p) \subseteq F(q)
    BY <1>6
  <2>2. Under(F(p)) \subseteq Under(F(q))
    BY <2>1 DEF Under
  <2> QED BY <1>2, <2>2, FS_Subset DEF SlotsUpto
<1>7. ASSUME NEW p \in 0 .. Len(TagOrder) - 1
      PROVE  SlotsUpto(p + 1) = SlotsUpto(p) + Cardinality({k \in D : TagOf(k) = TagOrder[p + 1]})
  <2> DEFINE A == Under(F(p))
             B == {k \in D : TagOf(k) = TagOrder[p + 1]}
  <2>1. p \in Nat /\ p + 1 \in 1 .. Len(TagOrder) /\ \A i \in 1 .. p : i \in 1 .. Len(TagOrder) /\ i # p + 1
    BY TagFacts
  <2>2. F(p + 1) = F(p) \cup {TagOrder[p + 1]} /\ TagOrder[p + 1] \notin F(p)
    <3>1. 1 .. p + 1 = 1 .. p \cup {p + 1}
      BY <2>1
    <3>2. F(p + 1) = F(p) \cup {TagOrder[p + 1]}
      BY <3>1
    <3> QED BY <2>1, <3>2, TagFacts
  <2> HIDE DEF F
  <2>3. Under(F(p + 1)) = A \cup B /\ A \cap B = {}
    BY <2>2 DEF Under
  <2>4. IsFiniteSet(A) /\ IsFiniteSet(B) /\ Cardinality(A) \in Nat /\ Cardinality(B) \in Nat
    BY <1>1, <1>2, Counting
  <2> HIDE DEF A, B
  <2>5. Cardinality(A \cup B) = Cardinality(A) + Cardinality(B) - Cardinality(A \cap B)
    BY <2>4, FS_Union
  <2>6. Cardinality(A \cap B) = 0
    BY <2>3, FS_EmptySet
  <2>7. Cardinality(A \cup B) = Cardinality(A) + Cardinality(B)
    BY <2>4, <2>5, <2>6
  <2> QED BY <2>3, <2>7 DEF SlotsUpto, A, B, F
<1> QED BY <1>3, <1>4, <1>5, <1>6, <1>7

\* The declaration does not change.
LEMMA TagSame ==
  ASSUME decl' = decl
  PROVE  /\ \A k : TagOf(k)' = TagOf(k) /\ WantedIndex(k)' = WantedIndex(k)
         /\ NoRepeats' = NoRepeats
         /\ \A p : SlotsUpto(p)' = SlotsUpto(p)
<1>1. \A k : TagOf(k)' = TagOf(k)
  BY DEF TagOf
<1>2. \A k : WantedIndex(k)' = WantedIndex(k)
  BY DEF WantedIndex
<1>3. NoRepeats' = NoRepeats
  BY <1>1, <1>2 DEF NoRepeats
<1>4. \A p : SlotsUpto(p)' = SlotsUpto(p)
  BY <1>1 DEF SlotsUpto, Under
<1> QED BY <1>1, <1>2, <1>3, <1>4

\* names.resize keeps what is there.
LEMMA PutAtFacts ==
  ASSUME NEW list \in Seq(Seq(STRING)), NEW idx \in Nat, NEW name \in Seq(STRING)
  PROVE  /\ PutAt(list, idx, name) \in Seq(Seq(STRING))
         /\ Len(PutAt(list, idx, name)) >= Len(list) /\ idx < Len(PutAt(list, idx, name))
         /\ PutAt(list, idx, name)[idx + 1] = name
         /\ \A i \in 1 .. Len(list) : i # idx + 1 => PutAt(list, idx, name)[i] = list[i]
<1> DEFINE n == IF Len(list) <= idx THEN idx + 1 ELSE Len(list)
           f == [i \in 1 .. n |-> IF i = idx + 1 THEN name ELSE IF i <= Len(list) THEN list[i] ELSE NoName]
<1>1. Len(list) \in Nat /\ n \in Nat /\ n >= Len(list) /\ idx < n /\ idx + 1 \in 1 .. n
  OBVIOUS
<1>2. NoName \in Seq(STRING)
  <2>1. Blank \in STRING
    BY TagAssumption DEF TagsFit
  <2> QED BY <2>1, ShortSeq DEF NoName
<1>3. PutAt(list, idx, name) = f
  BY DEF PutAt
<1> HIDE DEF n
<1>4. \A i \in 1 .. n : f[i] \in Seq(STRING)
  <2> SUFFICES ASSUME NEW i \in 1 .. n PROVE f[i] \in Seq(STRING)
    OBVIOUS
  <2>1. CASE i = idx + 1
    BY <2>1
  <2>2. CASE i # idx + 1 /\ i <= Len(list)
    <3>1. list[i] \in Seq(STRING)
      BY <1>1, <2>2
    <3> QED BY <2>2, <3>1
  <2>3. CASE i # idx + 1 /\ ~ (i <= Len(list))
    BY <1>2, <2>3
  <2> QED BY <2>1, <2>2, <2>3
<1>5. f[idx + 1] = name /\ \A i \in 1 .. Len(list) : i # idx + 1 => f[i] = list[i]
  BY <1>1
<1>6. DOMAIN f = 1 .. n
  OBVIOUS
<1> HIDE DEF f
<1>7. f \in Seq(Seq(STRING)) /\ Len(f) = n
  BY <1>1, <1>3, <1>4, <1>6, FunctionIsSeq DEF f
<1> QED BY <1>1, <1>3, <1>5, <1>7

\* A string is read: it is counted under its tag and stored at its index.
LEMMA ParseReads ==
  ASSUME TagInv, Parse
  PROVE  TagInv'
<1>0. PICK n : n = tagPos + 1
  OBVIOUS
<1> DEFINE p == ParseTagIndexName(decl[n])
           t == TagOf(n)
           w == WantedIndex(n)
<1>1. /\ TagData /\ tagPhase = "parse" /\ ReadRight(tagPos) /\ tagPos \in Nat /\ tagPos < Len(decl) /\ p.ok
      /\ decl \in Seq(Strings) /\ Len(decl) \in Nat /\ curr = 0 /\ names = << >>
      /\ UNCHANGED <<decl, tagPhase, base, curr, names, infos, used>> /\ tagPos' = n
      /\ tagNames' = [tagNames EXCEPT ![t] = PutAt(@, Slotted(p), p.name)]
      /\ count' = [count EXCEPT ![t] = @ + 1]
  BY <1>0 DEF TagInv, TagData, Parse, TagOf
<1>2. n \in 1 .. Len(decl) /\ n \in Nat /\ n - 1 = tagPos /\ \A k \in 1 .. n : k \in 1 .. Len(decl) /\ (k = n \/ k \in 1 .. tagPos)
  BY <1>0, <1>1
<1>3. /\ t \in Tag /\ w \in Nat /\ decl[n] \in Strings /\ p.name \in Seq(STRING)
      /\ count \in [Tag -> Nat] /\ tagNames \in [Tag -> Seq(Seq(STRING))]
  BY <1>1, <1>2, WantedType, ParseType DEF TagData
<1>4. Slotted(p) = w
  <2>1. p.tag = t /\ p.index \in Nat \cup {-1}
    BY <1>3, ParseType DEF TagOf
  <2>2. CASE p.index # -1
    <3>1. p.index \in Nat /\ p.index >= 0
      BY <2>1, <2>2
    <3> QED BY <2>2, <3>1 DEF Slotted, WantedIndex
  <2>3. CASE p.index = -1
    <3>1. t = Blank
      BY <1>3, <2>1, <2>3, ParseType
    <3>2. \A k \in 1 .. tagPos : TagOf(k) = Blank <=> Len(decl[k]) = 1
      <4> SUFFICES ASSUME NEW k \in 1 .. tagPos PROVE TagOf(k) = Blank <=> Len(decl[k]) = 1
        OBVIOUS
      <4>1. decl[k] \in Strings /\ ParseTagIndexName(decl[k]).ok
        BY <1>1, <1>2, WantedType DEF ReadRight
      <4> QED BY <4>1, ParseType DEF TagOf
    <3>3. {k \in 1 .. tagPos : TagOf(k) = Blank} = {k \in 1 .. n - 1 : Len(decl[k]) = 1}
      BY <1>2, <3>2
    <3>4. count[Blank] = Cardinality({k \in 1 .. tagPos : TagOf(k) = Blank})
      BY <1>1, <1>3, <3>1 DEF ReadRight
    <3>5. w = Cardinality({k \in 1 .. n - 1 : Len(decl[k]) = 1})
      BY <2>3 DEF WantedIndex
    <3> QED BY <2>1, <2>3, <3>1, <3>3, <3>4, <3>5 DEF Slotted
  <2> QED BY <2>2, <2>3
<1> DEFINE old == tagNames[t]
           new == PutAt(old, w, p.name)
<1>5. /\ new \in Seq(Seq(STRING)) /\ Len(new) >= Len(old) /\ w < Len(new) /\ new[w + 1] = p.name
      /\ \A i \in 1 .. Len(old) : i # w + 1 => new[i] = old[i]
      /\ Len(old) \in Nat /\ Len(new) \in Nat
  <2>1. old \in Seq(Seq(STRING))
    BY <1>3
  <2>2. Len(old) \in Nat
    BY <2>1
  <2> HIDE DEF old, p, w
  <2>3. /\ new \in Seq(Seq(STRING)) /\ Len(new) >= Len(old) /\ w < Len(new) /\ new[w + 1] = p.name
        /\ \A i \in 1 .. Len(old) : i # w + 1 => new[i] = old[i]
    BY <1>3, <2>1, PutAtFacts
  <2> HIDE DEF new
  <2>4. Len(new) \in Nat
    BY <2>3
  <2> QED BY <2>2, <2>3, <2>4
<1>6. /\ tagNames' \in [Tag -> Seq(Seq(STRING))] /\ tagNames'[t] = new
      /\ \A x \in Tag : x # t => tagNames'[x] = tagNames[x]
  <2>1. tagNames' = [tagNames EXCEPT ![t] = new]
    BY <1>1, <1>4
  <2> HIDE DEF new, t
  <2> QED BY <1>3, <1>5, <2>1
<1>7. /\ count' \in [Tag -> Nat] /\ count'[t] = count[t] + 1 /\ count[t] \in Nat
      /\ \A x \in Tag : x # t => count'[x] = count[x]
  <2> HIDE DEF t, p
  <2> QED BY <1>1, <1>3
<1>8. TagData'
  BY <1>1, <1>2, <1>6, <1>7 DEF TagData
<1>9. \A x \in Tag : count'[x] = Cardinality({k \in 1 .. n : TagOf(k) = x})
  <2> SUFFICES ASSUME NEW x \in Tag PROVE count'[x] = Cardinality({k \in 1 .. n : TagOf(k) = x})
    OBVIOUS
  <2> DEFINE S == {k \in 1 .. tagPos : TagOf(k) = x}
  <2>1. count[x] = Cardinality(S)
    BY <1>1 DEF ReadRight
  <2>2. CASE x = t
    <3>1. {k \in 1 .. n : TagOf(k) = x} = S \cup {tagPos + 1}
      BY <1>0, <1>1, <1>2, <2>2
    <3>2. S \subseteq 1 .. tagPos
      OBVIOUS
    <3> HIDE DEF S
    <3>3. Cardinality(S \cup {tagPos + 1}) = Cardinality(S) + 1
      BY <1>1, <3>2, CountNext
    <3> QED BY <1>7, <2>1, <2>2, <3>1, <3>3
  <2>3. CASE x # t
    <3>1. {k \in 1 .. n : TagOf(k) = x} = S
      BY <1>0, <1>1, <1>2, <2>3
    <3> QED BY <1>7, <2>1, <2>3, <3>1
  <2> QED BY <2>2, <2>3
<1>10. ASSUME NEW k \in 1 .. n
       PROVE  /\ ParseTagIndexName(decl[k]).ok /\ WantedIndex(k) < Len(tagNames'[TagOf(k)])
              /\ NoRepeats => tagNames'[TagOf(k)][WantedIndex(k) + 1] = ParseTagIndexName(decl[k]).name
  <2>1. CASE k = n
    <3>1. w < Len(new) /\ new[w + 1] = p.name /\ tagNames'[t] = new /\ p.ok
      BY <1>1, <1>5, <1>6
    <3> QED BY <2>1, <3>1
  <2>2. CASE k # n
    <3>1. k \in 1 .. tagPos /\ k \in 1 .. Len(decl)
      BY <1>2, <2>2
    <3>2. /\ ParseTagIndexName(decl[k]).ok /\ WantedIndex(k) < Len(tagNames[TagOf(k)])
          /\ NoRepeats => tagNames[TagOf(k)][WantedIndex(k) + 1] = ParseTagIndexName(decl[k]).name
      BY <1>1, <3>1 DEF ReadRight
    <3>3. TagOf(k) \in Tag /\ WantedIndex(k) \in Nat
      BY <1>1, <3>1, WantedType
    <3>4. CASE TagOf(k) # t
      BY <1>6, <3>2, <3>3, <3>4
    <3>5. CASE TagOf(k) = t
      <4>1. WantedIndex(k) < Len(old)
        BY <3>2, <3>5
      <4>2. NoRepeats => WantedIndex(k) # w
        BY <1>2, <2>2, <3>1, <3>5 DEF NoRepeats
      <4>3. WantedIndex(k) + 1 \in 1 .. Len(old) /\ WantedIndex(k) < Len(new)
        BY <1>5, <3>3, <4>1
      <4>4. NoRepeats => new[WantedIndex(k) + 1] = old[WantedIndex(k) + 1]
        <5> HIDE DEF new, old, w
        <5>1. WantedIndex(k) # w => WantedIndex(k) + 1 # w + 1
          BY <1>3, <3>3
        <5> QED BY <1>5, <4>2, <4>3, <5>1
      <4>5. tagNames'[TagOf(k)] = new /\ tagNames[TagOf(k)] = old
        BY <1>6, <3>5
      <4> HIDE DEF new, old
      <4> QED BY <3>2, <4>3, <4>4, <4>5
    <3> QED BY <3>4, <3>5
  <2> QED BY <2>1, <2>2
<1>11. ReadRight(n)'
  <2>1. \A k : TagOf(k)' = TagOf(k) /\ WantedIndex(k)' = WantedIndex(k)
    BY <1>1, TagSame
  <2>2. NoRepeats' = NoRepeats /\ Tag' = Tag
    BY <1>1, TagSame DEF Tag
  <2> HIDE DEF p, t, w, old, new
  <2> QED BY <1>1, <1>9, <1>10, <2>1, <2>2 DEF ReadRight
<1>12. ReadRight(tagPos)' /\ tagPos' <= Len(decl')
  BY <1>1, <1>2, <1>11
<1> QED BY <1>1, <1>8, <1>12 DEF TagInv

\* Steps that neither read nor store leave what was read.
LEMMA ReadKept ==
  ASSUME NEW n, ReadRight(n), UNCHANGED <<decl, count, tagNames>>
  PROVE  ReadRight(n)'
<1>1. /\ \A k : TagOf(k)' = TagOf(k) /\ WantedIndex(k)' = WantedIndex(k)
      /\ NoRepeats' = NoRepeats /\ Tag' = Tag
  BY TagSame DEF Tag
<1> QED BY <1>1 DEF ReadRight

LEMMA LaidKept ==
  ASSUME NEW n, LaidRight(n), UNCHANGED <<decl, count, tagNames, base, curr>>
  PROVE  LaidRight(n)'
<1>1. \A p : SlotsUpto(p)' = SlotsUpto(p)
  BY TagSame
<1> QED BY <1>1 DEF LaidRight

LEMMA InsertedKept ==
  ASSUME NEW n, InsertedRight(n), UNCHANGED <<decl, tagNames, names>>
  PROVE  InsertedRight(n)'
<1>1. \A p : SlotsUpto(p)' = SlotsUpto(p)
  BY TagSame
<1> QED BY <1>1 DEF InsertedRight

\* The number of strings under a tag is what count says.
LEMMA CountedSlots ==
  ASSUME TagData, ReadRight(Len(decl)), NEW p \in 0 .. Len(TagOrder) - 1
  PROVE  /\ SlotsUpto(p + 1) = SlotsUpto(p) + count[TagOrder[p + 1]]
         /\ p + 1 \in 1 .. Len(TagOrder) /\ TagOrder[p + 1] \in Tag
<1>1. p + 1 \in 1 .. Len(TagOrder) /\ TagOrder[p + 1] \in Tag
  BY TagFacts
<1>2. count[TagOrder[p + 1]] = Cardinality({k \in 1 .. Len(decl) : TagOf(k) = TagOrder[p + 1]})
  BY <1>1 DEF ReadRight
<1> QED BY <1>1, <1>2, SlotsUptoFacts

\* A tag that is complete is laid out behind the tags before it.
LEMMA LayoutRight ==
  ASSUME TagInv, Layout
  PROVE  TagInv'
<1>0. PICK n : n = tagPos + 1
  OBVIOUS
<1> DEFINE t == TagOrder[n]
<1>1. /\ TagData /\ tagPhase = "layout" /\ ReadRight(Len(decl)) /\ tagPos \in Nat /\ LaidRight(tagPos)
      /\ tagPos < Len(TagOrder) /\ names = << >>
      /\ UNCHANGED <<decl, tagPhase, count, tagNames, names, infos, used>> /\ tagPos' = n
      /\ count[t] = Len(tagNames[t]) /\ curr' = curr + count[t]
      /\ base' = IF count[t] > 0 THEN [base EXCEPT ![t] = curr] ELSE base
  BY <1>0 DEF TagInv, TagData, Layout, Complete
<1>2. tagPos \in 0 .. Len(TagOrder) - 1 /\ n \in 1 .. Len(TagOrder) /\ n - 1 = tagPos /\ n \in Nat /\ n <= Len(TagOrder)
  BY <1>0, <1>1, TagFacts
<1>3. SlotsUpto(n) = SlotsUpto(tagPos) + count[t] /\ t \in Tag
  BY <1>0, <1>1, <1>2, CountedSlots
<1>4. /\ count \in [Tag -> Nat] /\ base \in [Tag -> Int] /\ count[t] \in Nat
      /\ curr = SlotsUpto(tagPos) /\ SlotsUpto(tagPos) \in Nat
  BY <1>1, <1>3, SlotsUptoFacts DEF TagData, LaidRight
<1>5. /\ base' \in [Tag -> Int] /\ (count[t] > 0 => base'[t] = SlotsUpto(n - 1))
      /\ \A x \in Tag : x # t => base'[x] = base[x]
  <2> HIDE DEF t
  <2>1. CASE count[t] > 0
    <3>1. base' = [base EXCEPT ![t] = curr] /\ curr \in Int
      BY <1>1, <1>4, <2>1
    <3>2. base'[t] = curr /\ base' \in [Tag -> Int] /\ \A x \in Tag : x # t => base'[x] = base[x]
      BY <1>3, <1>4, <3>1
    <3> QED BY <1>2, <1>4, <3>2
  <2>2. CASE ~ (count[t] > 0)
    BY <1>1, <1>4, <2>2
  <2> QED BY <2>1, <2>2
<1>6. TagData'
  BY <1>1, <1>2, <1>5 DEF TagData
<1>7. ReadRight(Len(decl))'
  <2>1. PICK m : m = Len(decl)
    OBVIOUS
  <2>2. ReadRight(m)'
    BY <1>1, <2>1, ReadKept
  <2> QED BY <1>1, <2>1, <2>2
<1>8. LaidRight(n)'
  <2>1. \A p : SlotsUpto(p)' = SlotsUpto(p)
    BY <1>1, TagSame
  <2>2. curr' = SlotsUpto(n)
    BY <1>1, <1>3, <1>4
  <2>3. ASSUME NEW i \in 1 .. n
        PROVE  /\ count[TagOrder[i]] = Len(tagNames[TagOrder[i]])
               /\ count[TagOrder[i]] > 0 => base'[TagOrder[i]] = SlotsUpto(i - 1)
    <3>1. CASE i = n
      BY <1>1, <1>5, <3>1
    <3>2. CASE i # n
      <4>1. i \in 1 .. tagPos /\ i \in 1 .. Len(TagOrder)
        BY <1>0, <1>1, <1>2, <3>2
      <4>2. TagOrder[i] # t /\ TagOrder[i] \in Tag
        BY <1>2, <3>2, <4>1, TagFacts
      <4>3. /\ count[TagOrder[i]] = Len(tagNames[TagOrder[i]])
            /\ count[TagOrder[i]] > 0 => base[TagOrder[i]] = SlotsUpto(i - 1)
        BY <1>1, <4>1 DEF LaidRight
      <4> QED BY <1>5, <4>2, <4>3
    <3> QED BY <3>1, <3>2
  <2> HIDE DEF t
  <2> QED BY <1>1, <2>1, <2>2, <2>3 DEF LaidRight
<1>9. LaidRight(tagPos)' /\ tagPos' <= Len(TagOrder)
  BY <1>1, <1>2, <1>8
<1> QED BY <1>1, <1>6, <1>7, <1>9 DEF TagInv

\* The names of a tag are inserted behind those of the tags before it.
LEMMA InsertRight ==
  ASSUME TagInv, Insert
  PROVE  TagInv'
<1>0. PICK n, m : n = tagPos + 1 /\ m = tagPos
  BY SMTT(30)
<1> DEFINE t == TagOrder[n]
           b == IF count[t] > 0 THEN base[t] ELSE 0
<1>1. /\ TagData /\ tagPhase = "insert" /\ ReadRight(Len(decl)) /\ m \in Nat /\ LaidRight(Len(TagOrder))
      /\ InsertedRight(m) /\ m < Len(TagOrder) /\ m = tagPos
      /\ UNCHANGED <<decl, tagPhase, count, base, tagNames, curr, infos, used>> /\ tagPos' = n
  BY <1>0 DEF TagInv, TagData, Insert
<1>b. names' = SubSeq(names, 1, b) \o tagNames[t] \o SubSeq(names, b + 1, Len(names))
  BY <1>0 DEF Insert
<1>2. m \in 0 .. Len(TagOrder) - 1 /\ n = m + 1 /\ n \in 1 .. Len(TagOrder) /\ n - 1 = m /\ n \in Nat /\ n <= Len(TagOrder)
  BY <1>0, <1>1, TagFacts
<1>3. SlotsUpto(n) = SlotsUpto(m) + count[t] /\ t \in Tag
  BY <1>1, <1>2, CountedSlots
<1>4. /\ count[t] \in Nat /\ count[t] = Len(tagNames[t]) /\ tagNames[t] \in Seq(Seq(STRING))
      /\ names \in Seq(Seq(STRING)) /\ Len(names) \in Nat /\ Len(names) = SlotsUpto(m) /\ SlotsUpto(m) \in Nat
      /\ count[t] > 0 => base[t] = SlotsUpto(m)
  <2>1. count[t] = Len(tagNames[t]) /\ (count[t] > 0 => base[t] = SlotsUpto(n - 1))
    BY <1>1, <1>2 DEF LaidRight
  <2>2. names \in Seq(Seq(STRING)) /\ tagNames \in [Tag -> Seq(Seq(STRING))] /\ count \in [Tag -> Nat]
    BY <1>1 DEF TagData
  <2>3. Len(names) = SlotsUpto(m) /\ SlotsUpto(m) \in Nat
    BY <1>1, SlotsUptoFacts DEF InsertedRight
  <2> HIDE DEF t
  <2> QED BY <1>2, <1>3, <2>1, <2>2, <2>3
<1>5. names' = names \o tagNames[t]
  <2> DEFINE r == tagNames[t]
             T == Seq(STRING)
  <2>0. r \in Seq(T) /\ names \in Seq(T)
    BY <1>4
  <2> HIDE DEF T
  <2>1. CASE count[t] > 0
    <3>1. b = Len(names)
      BY <1>4, <2>1, SMTT(30)
    <3>2. names' = SubSeq(names, 1, Len(names)) \o r \o SubSeq(names, Len(names) + 1, Len(names))
      BY <1>b, <3>1
    <3> HIDE DEF r, t, b
    <3>3. SubSeq(names, 1, Len(names)) = names /\ SubSeq(names, Len(names) + 1, Len(names)) = << >>
      BY ONLY <2>0
    <3>4. (names \o r) \o << >> = names \o r
      BY ONLY <2>0
    <3> QED BY <3>2, <3>3, <3>4, Zenon DEF r
  <2>2. CASE ~ (count[t] > 0)
    <3>1. b = 0 /\ Len(r) = 0
      BY <1>4, <2>2
    <3>2. names' = SubSeq(names, 1, 0) \o r \o SubSeq(names, 1, Len(names))
      <4>1. b + 1 = 1
        BY <3>1
      <4> HIDE DEF r, b
      <4> QED BY <1>b, <3>1, <4>1 DEF r
    <3> HIDE DEF r, t, b
    <3>3. SubSeq(names, 1, Len(names)) = names /\ SubSeq(names, 1, 0) = << >> /\ r = << >>
      BY ONLY <2>0, <3>1
    <3>4. (<< >> \o << >>) \o names = names \o << >>
      BY ONLY <2>0
    <3> QED BY <3>2, <3>3, <3>4, Zenon DEF r
  <2> QED BY <2>1, <2>2
<1>6. /\ names' \in Seq(Seq(STRING)) /\ Len(names') = Len(names) + Len(tagNames[t])
      /\ \A k \in 1 .. Len(names) : names'[k] = names[k]
      /\ \A k \in 1 .. Len(tagNames[t]) : names'[Len(names) + k] = tagNames[t][k]
  <2> DEFINE r == tagNames[t]
             T == Seq(STRING)
  <2>1. r \in Seq(T) /\ names \in Seq(T) /\ names' = names \o r
    BY <1>4, <1>5
  <2> HIDE DEF r, T
  <2>2. /\ names' \in Seq(T) /\ Len(names') = Len(names) + Len(r)
        /\ \A k \in 1 .. Len(names) : names'[k] = names[k]
        /\ \A k \in 1 .. Len(r) : names'[Len(names) + k] = r[k]
    BY ONLY <2>1, Concat
  <2> QED BY <2>2 DEF r, T
<1>7. TagData'
  BY <1>1, <1>2, <1>6 DEF TagData
<1>8. ReadRight(Len(decl))' /\ LaidRight(Len(TagOrder))'
  <2>1. PICK x : x = Len(decl)
    OBVIOUS
  <2>2. ReadRight(x)'
    BY <1>1, <2>1, ReadKept
  <2>3. LaidRight(Len(TagOrder))'
    BY <1>1, LaidKept
  <2> QED BY <1>1, <2>1, <2>2, <2>3
<1>9. InsertedRight(n)'
  <2>1. \A p : SlotsUpto(p)' = SlotsUpto(p)
    BY <1>1, TagSame
  <2>2. Len(names') = SlotsUpto(n)
    BY <1>3, <1>4, <1>6
  <2>3. ASSUME NEW i \in 1 .. n, NEW j \in 1 .. Len(tagNames[TagOrder[i]])
        PROVE  names'[SlotsUpto(i - 1) + j] = tagNames[TagOrder[i]][j]
    <3>1. CASE i = n
      BY <1>2, <1>4, <1>6, <2>3, <3>1
    <3>2. CASE i # n
      <4>1. i \in 1 .. m /\ i \in 1 .. Len(TagOrder) /\ i - 1 \in 0 .. Len(TagOrder) - 1 /\ i \in Nat /\ i <= m /\ (i - 1) + 1 = i
        BY <1>1, <1>2, <3>2
      <4>2. SlotsUpto(i) = SlotsUpto(i - 1) + count[TagOrder[i]] /\ SlotsUpto(i) <= SlotsUpto(m)
        BY <1>1, <4>1, CountedSlots, SlotsUptoFacts
      <4>3. count[TagOrder[i]] = Len(tagNames[TagOrder[i]]) /\ count[TagOrder[i]] \in Nat /\ SlotsUpto(i - 1) \in Nat
        <5>1. TagOrder[i] \in Tag /\ i - 1 \in Nat
          BY <4>1, TagFacts
        <5>2. count[TagOrder[i]] \in Nat
          BY <1>1, <5>1 DEF TagData
        <5>3. count[TagOrder[i]] = Len(tagNames[TagOrder[i]])
          BY <1>1, <4>1 DEF LaidRight
        <5> QED BY <1>1, <5>1, <5>2, <5>3, SlotsUptoFacts
      <4>4. SlotsUpto(i - 1) + j \in 1 .. Len(names)
        <5>1. \A a, c, e, x \in Nat : x >= 1 /\ x <= c /\ a + c <= e => a + x \in 1 .. e
          BY ONLY TRUE
        <5>2. j \in Nat /\ j >= 1 /\ j <= count[TagOrder[i]]
          BY ONLY <2>3, <4>3
        <5>3. SlotsUpto(m) \in Nat /\ Len(names) = SlotsUpto(m)
          BY <1>4
        <5>4. SlotsUpto(i - 1) + count[TagOrder[i]] <= SlotsUpto(m)
          BY ONLY <4>2, Zenon
        <5>5. SlotsUpto(i - 1) + j \in 1 .. SlotsUpto(m)
          BY ONLY <4>3, <5>1, <5>2, <5>3, <5>4, Zenon
        <5> QED BY <5>3, <5>5
      <4>5. names[SlotsUpto(i - 1) + j] = tagNames[TagOrder[i]][j]
        BY <1>1, <2>3, <4>1 DEF InsertedRight
      <4> QED BY <1>6, <4>4, <4>5
    <3> QED BY <3>1, <3>2
  <2> HIDE DEF t, b
  <2> QED BY <1>1, <2>1, <2>2, <2>3 DEF InsertedRight
<1>10. InsertedRight(tagPos)' /\ tagPos' <= Len(TagOrder)
  BY <1>1, <1>2, <1>9
<1> QED BY <1>1, <1>7, <1>8, <1>10 DEF TagInv

LEMMA InfosKept ==
  ASSUME NEW n, InfosRight(n), UNCHANGED <<count, base, infos, used>>
  PROVE  InfosRight(n)'
<1>1. \A s : InfoSlot(s)' = InfoSlot(s)
  BY DEF InfoSlot, FindByTagIndex, ParseTagIndex, Tag
<1>2. \A s : NotANumber(s)' = NotANumber(s)
  BY DEF NotANumber
<1> QED BY <1>1, <1>2 DEF InfosRight

\* An info that is accepted has a slot no earlier one has.
LEMMA CheckInfoRight ==
  ASSUME TagInv, CheckInfo
  PROVE  TagInv'
<1>0. PICK n : n = tagPos + 1
  OBVIOUS
<1> DEFINE id == InfoSlot(infos[n])
<1>1. /\ TagData /\ tagPhase = "info" /\ tagPos \in Nat /\ tagPos < Len(infos) /\ InfosRight(tagPos)
      /\ ~ NotANumber(infos[n]) /\ id >= 0 /\ id \notin used /\ used' = used \cup {id}
      /\ UNCHANGED <<decl, tagPhase, count, base, tagNames, curr, names, infos>> /\ tagPos' = n
  BY <1>0 DEF TagInv, TagData, CheckInfo
<1>2. n \in Nat /\ n <= Len(infos) /\ \A i \in 1 .. n : i = n \/ i \in 1 .. tagPos
  <2>1. Len(infos) \in Nat
    BY <1>1 DEF TagData
  <2> QED BY <1>0, <1>1, <2>1
<1>3. /\ \A s : InfoSlot(s)' = InfoSlot(s)
      /\ \A s : NotANumber(s)' = NotANumber(s)
  BY <1>1 DEF InfoSlot, FindByTagIndex, ParseTagIndex, Tag, NotANumber
<1>4. \A i \in 1 .. n : ~ NotANumber(infos[i]) /\ InfoSlot(infos[i]) >= 0 /\ InfoSlot(infos[i]) \in used \cup {id}
  BY <1>1, <1>2 DEF InfosRight
<1>5. \A i, j \in 1 .. n : i # j => InfoSlot(infos[i]) # InfoSlot(infos[j])
  BY <1>1, <1>2 DEF InfosRight
<1>6. InfosRight(n)'
  <2> HIDE DEF id
  <2> QED BY <1>1, <1>3, <1>4, <1>5 DEF InfosRight
<1>7. InfosRight(tagPos)' /\ tagPos' <= Len(infos')
  BY <1>1, <1>2, <1>6
<1>8. TagData'
  BY <1>1, <1>2 DEF TagData
<1>9. ReadRight(Len(decl))' /\ LaidRight(Len(TagOrder))' /\ InsertedRight(Len(TagOrder))'
  <2>1. PICK x : x = Len(decl)
    OBVIOUS
  <2>2. ReadRight(x) /\ LaidRight(Len(TagOrder)) /\ InsertedRight(Len(TagOrder))
    BY <1>1, <2>1 DEF TagInv
  <2>3. ReadRight(x)' /\ LaidRight(Len(TagOrder))' /\ InsertedRight(Len(TagOrder))'
    BY <1>1, <2>2, ReadKept, LaidKept, InsertedKept
  <2> QED BY <1>1, <2>1, <2>3
<1> QED BY <1>1, <1>7, <1>8, <1>9 DEF TagInv

\* The steps between the passes.
LEMMA PassesRight ==
  ASSUME TagInv,
         \/ RejectString \/ Parsed \/ RejectGap \/ LaidOut \/ Inserted \/ RejectInfo \/ Checked
         \/ UNCHANGED tagVars
  PROVE  TagInv'
<1>1. PICK x : x = Len(decl)
  OBVIOUS
<1>2. /\ UNCHANGED <<decl, count, base, tagNames, curr, names, used>>
      /\ tagPos' \in Nat /\ TagData /\ infos' \in Seq(Infos) /\ x' = x
  <2>1. CASE Inserted
    <3>1. infos' \in BoundedSeq(Infos, MaxInfos)
      BY <2>1 DEF Inserted
    <3>2. infos' \in Seq(Infos)
      BY <3>1, TagAssumption DEF BoundedSeq, SeqOf, TagsFit
    <3> QED BY <2>1, <3>2 DEF Inserted, TagInv, TagData
  <2>2. CASE ~ Inserted
    BY <2>2 DEF RejectString, Parsed, RejectGap, LaidOut, RejectInfo, Checked, tagVars, TagInv, TagData
  <2> QED BY <2>1, <2>2
<1>3. TagData'
  BY <1>2 DEF TagData
<1>4. /\ ReadRight(x) => ReadRight(x)'
      /\ LaidRight(Len(TagOrder)) => LaidRight(Len(TagOrder))'
      /\ InsertedRight(Len(TagOrder)) => InsertedRight(Len(TagOrder))'
  BY <1>2, ReadKept, LaidKept, InsertedKept
<1>5. Len(decl') = x
  BY <1>1, <1>2
<1>6. CASE UNCHANGED tagVars
  <2>1. PICK m, y : m = tagPos /\ y = Len(infos)
    OBVIOUS
  <2>2. UNCHANGED <<decl, tagPos, tagPhase, count, base, tagNames, curr, names, infos, used>>
    BY <1>6 DEF tagVars
  <2>3. /\ ReadRight(m) => ReadRight(m)'
        /\ LaidRight(m) => LaidRight(m)'
        /\ InsertedRight(m) => InsertedRight(m)'
        /\ InfosRight(m) => InfosRight(m)'
        /\ InfosRight(y) => InfosRight(y)'
    BY <2>2, ReadKept, LaidKept, InsertedKept, InfosKept
  <2>4. tagPos' = m /\ Len(infos') = y
    BY <2>1, <2>2
  <2> QED BY <1>1, <1>3, <1>4, <1>5, <2>1, <2>2, <2>3, <2>4 DEF TagInv
<1>7. CASE RejectString \/ RejectGap \/ RejectInfo
  <2>1. tagPhase' = "failed"
    BY <1>7 DEF RejectString, RejectGap, RejectInfo
  <2> QED BY <1>3, <2>1 DEF TagInv
<1>8. CASE Parsed
  <2>1. tagPhase = "parse" /\ tagPhase' = "layout" /\ tagPos = x /\ tagPos' = 0
    BY <1>1, <1>8 DEF Parsed
  <2>2. ReadRight(x) /\ curr = 0 /\ names = << >>
    BY <2>1 DEF TagInv
  <2>3. LaidRight(0)'
    <3>1. SlotsUpto(0) = 0 /\ SlotsUpto(0)' = SlotsUpto(0)
      BY <1>2, SlotsUptoFacts, TagSame
    <3> QED BY <1>2, <2>2, <3>1 DEF LaidRight
  <2>4. 0 <= Len(TagOrder)
    BY TagFacts
  <2> QED BY <1>2, <1>3, <1>4, <1>5, <2>1, <2>2, <2>3, <2>4 DEF TagInv
<1>9. CASE LaidOut
  <2>1. tagPhase = "layout" /\ tagPhase' = "insert" /\ tagPos = Len(TagOrder) /\ tagPos' = 0
    BY <1>9 DEF LaidOut
  <2>2. ReadRight(x) /\ LaidRight(Len(TagOrder)) /\ names = << >>
    BY <1>1, <2>1 DEF TagInv
  <2>3. InsertedRight(0)'
    <3>1. SlotsUpto(0) = 0 /\ SlotsUpto(0)' = SlotsUpto(0)
      BY <1>2, SlotsUptoFacts, TagSame
    <3> QED BY <1>2, <2>2, <3>1 DEF InsertedRight
  <2>4. 0 <= Len(TagOrder)
    BY TagFacts
  <2> QED BY <1>2, <1>3, <1>4, <1>5, <2>1, <2>2, <2>3, <2>4 DEF TagInv
<1>10. CASE Inserted
  <2>1. tagPhase = "insert" /\ tagPhase' = "info" /\ tagPos = Len(TagOrder) /\ tagPos' = 0
    BY <1>10 DEF Inserted
  <2>2. ReadRight(x) /\ LaidRight(Len(TagOrder)) /\ InsertedRight(Len(TagOrder))
    BY <1>1, <2>1 DEF TagInv
  <2>3. InfosRight(0)' /\ 0 <= Len(infos')
    BY <1>2 DEF InfosRight
  <2> QED BY <1>3, <1>4, <1>5, <2>1, <2>2, <2>3 DEF TagInv
<1>11. CASE Checked
  <2>0. PICK y : y = Len(infos)
    OBVIOUS
  <2>1. tagPhase = "info" /\ tagPhase' = "done" /\ tagPos = y /\ UNCHANGED infos
    BY <1>11, <2>0 DEF Checked
  <2>2. ReadRight(x) /\ LaidRight(Len(TagOrder)) /\ InsertedRight(Len(TagOrder)) /\ InfosRight(y)
    BY <1>1, <2>1 DEF TagInv
  <2>3. InfosRight(y)' /\ Len(infos') = y
    BY <1>2, <2>0, <2>1, <2>2, InfosKept
  <2> QED BY <1>3, <1>4, <1>5, <2>1, <2>2, <2>3 DEF TagInv
<1> QED BY <1>6, <1>7, <1>8, <1>9, <1>10, <1>11

\* Where the tags are laid out, FindByTagIndex finds the slot.
LEMMA PlaceOf ==
  ASSUME TagData, ReadRight(Len(decl)), LaidRight(Len(TagOrder)), NEW i \in 1 .. Len(TagOrder), NEW j \in Nat,
         j < count[TagOrder[i]]
  PROVE  /\ FindByTagIndex(TagOrder[i], j) = SlotsUpto(i - 1) + j
         /\ base[TagOrder[i]] = SlotsUpto(i - 1) /\ SlotsUpto(i - 1) \in Nat
         /\ SlotsUpto(i - 1) + count[TagOrder[i]] <= Len(decl) /\ count[TagOrder[i]] \in Nat
<1>1. i - 1 \in 0 .. Len(TagOrder) - 1 /\ (i - 1) + 1 = i /\ i - 1 \in Nat /\ i \in Nat /\ i <= Len(TagOrder) /\ Len(TagOrder) \in Nat
  BY TagFacts
<1>2. TagOrder[i] \in Tag /\ count[TagOrder[i]] \in Nat /\ Len(decl) \in Nat
  BY TagFacts DEF TagData
<1>3. count[TagOrder[i]] > 0
  BY <1>2
<1>4. base[TagOrder[i]] = SlotsUpto(i - 1) /\ SlotsUpto(i - 1) \in Nat
  BY <1>1, <1>3, SlotsUptoFacts DEF LaidRight
<1>5. SlotsUpto(i) = SlotsUpto(i - 1) + count[TagOrder[i]] /\ SlotsUpto(i) <= SlotsUpto(Len(TagOrder))
  BY <1>1, CountedSlots, SlotsUptoFacts
<1>6. SlotsUpto(Len(TagOrder)) = Len(decl)
  BY SlotsUptoFacts
<1>7. FindByTagIndex(TagOrder[i], j) = base[TagOrder[i]] + j
  BY <1>2, <1>3 DEF FindByTagIndex
<1> QED BY <1>2, <1>4, <1>5, <1>6, <1>7

LEMMA TagInvExact ==
  ASSUME TagInv
  PROVE  SlotsExact
<1>1. EachInItsSlot
  <2> SUFFICES ASSUME Built, NoRepeats
               PROVE  /\ Len(names) = Len(decl) /\ curr = Len(decl)
                      /\ \A k \in 1 .. Len(decl) : OwnSlot(k)
    BY DEF EachInItsSlot
  <2>1. TagData /\ ReadRight(Len(decl)) /\ LaidRight(Len(TagOrder)) /\ InsertedRight(Len(TagOrder))
    BY DEF TagInv, Built
  <2>2. Len(names) = Len(decl) /\ curr = Len(decl) /\ Len(decl) \in Nat
    BY <2>1, SlotsUptoFacts DEF LaidRight, InsertedRight, TagData
  <2>3. ASSUME NEW k \in 1 .. Len(decl) PROVE OwnSlot(k)
    <3>1. TagOf(k) \in Tag /\ WantedIndex(k) \in Nat
      BY <2>1, WantedType
    <3>2. PICK i \in 1 .. Len(TagOrder) : TagOrder[i] = TagOf(k)
      BY <3>1, TagFacts
    <3>3. /\ WantedIndex(k) < Len(tagNames[TagOf(k)])
          /\ tagNames[TagOf(k)][WantedIndex(k) + 1] = ParseTagIndexName(decl[k]).name
      BY <2>1 DEF ReadRight
    <3>4. count[TagOrder[i]] = Len(tagNames[TagOrder[i]])
      BY <2>1 DEF LaidRight
    <3> DEFINE w == WantedIndex(k)
               u == SlotsUpto(i - 1)
    <3>5. /\ FindByTagIndex(TagOf(k), w) = u + w /\ u \in Nat /\ u + count[TagOrder[i]] <= Len(decl)
          /\ count[TagOrder[i]] \in Nat /\ w < count[TagOrder[i]]
      BY <2>1, <3>1, <3>2, <3>3, <3>4, PlaceOf
    <3>6. u + w < Len(names) /\ u + w >= 0 /\ (u + w) + 1 = u + (w + 1) /\ w + 1 \in 1 .. Len(tagNames[TagOrder[i]])
      <4> HIDE DEF u, w
      <4>1. w \in Nat
        BY <3>1 DEF w
      <4> QED BY <2>2, <3>4, <3>5, <4>1, SMTT(30)
    <3>7. names[u + (w + 1)] = tagNames[TagOrder[i]][w + 1]
      BY <2>1, <3>6 DEF InsertedRight
    <3>8. Get(TagOf(k), w) = names[(u + w) + 1]
      <4> HIDE DEF u, w
      <4>1. ~ (u + w < 0)
        BY <3>1, <3>5, <3>6 DEF w
      <4> QED BY <3>5, <4>1 DEF Get
    <3> HIDE DEF u
    <3> QED BY <3>2, <3>3, <3>5, <3>6, <3>7, <3>8 DEF OwnSlot
  <2> QED BY <2>2, <2>3
<1>2. InfosDistinct
  <2> SUFFICES ASSUME tagPhase = "done"
               PROVE  /\ \A i, j \in 1 .. Len(infos) : i # j => InfoSlot(infos[i]) # InfoSlot(infos[j])
                      /\ \A i \in 1 .. Len(infos) :
                           /\ InfoSlot(infos[i]) \in base[infos[i][1]] .. (base[infos[i][1]] + count[infos[i][1]] - 1)
                           /\ Len(infos[i]) > 1 => InfoSlot(infos[i]) = base[infos[i][1]] + IndexOf[infos[i][2]]
    BY DEF InfosDistinct
  <2>1. TagData /\ ReadRight(Len(decl)) /\ LaidRight(Len(TagOrder)) /\ InfosRight(Len(infos))
    BY DEF TagInv
  <2>2. \A i, j \in 1 .. Len(infos) : i # j => InfoSlot(infos[i]) # InfoSlot(infos[j])
    BY <2>1 DEF InfosRight
  <2>3. ASSUME NEW i \in 1 .. Len(infos)
        PROVE  /\ InfoSlot(infos[i]) \in base[infos[i][1]] .. (base[infos[i][1]] + count[infos[i][1]] - 1)
               /\ Len(infos[i]) > 1 => InfoSlot(infos[i]) = base[infos[i][1]] + IndexOf[infos[i][2]]
    <3> DEFINE s == infos[i]
               g == ParseTagIndex(s)
    <3>1. s \in Infos /\ ~ NotANumber(s) /\ InfoSlot(s) >= 0
      BY <2>1 DEF InfosRight, TagData
    <3>2. s \in Seq(STRING) /\ s # << >>
      BY <3>1, TagAssumption, Zenon DEF TagsFit
    <3>3. Len(s) \in Nat /\ Len(s) >= 1
      BY <3>2, ShortSeq
    <3>4. InfoSlot(s) = FindByTagIndex(g[1], g[2])
      BY DEF InfoSlot
    <3>5. g[1] \in Tag /\ count[g[1]] # 0 /\ ~ (g[2] >= count[g[1]]) /\ InfoSlot(s) = base[g[1]] + g[2]
      BY <3>1, <3>4 DEF FindByTagIndex
    <3>6. count[g[1]] \in Nat /\ base[g[1]] \in Int
      BY <2>1, <3>5 DEF TagData
    <3>7. CASE s = NoName
      <4>1. g[1] = Blank /\ g[2] = -1
        BY <3>7 DEF ParseTagIndex
      <4>2. 1 \in 1 .. Len(TagOrder) /\ TagOrder[1] = Blank /\ 1 - 1 = 0
        BY TagFacts
      <4>3. base[TagOrder[1]] = 0
        <5>1. 0 < count[TagOrder[1]]
          BY <3>5, <3>6, <4>1, <4>2
        <5>2. base[TagOrder[1]] = SlotsUpto(1 - 1)
          BY <2>1, <4>2, <5>1, PlaceOf
        <5> QED BY <2>1, <4>2, <5>2, SlotsUptoFacts
      <4> QED BY <3>1, <3>5, <4>1, <4>2, <4>3
    <3>8. CASE s # NoName
      <4>1. g[1] = s[1] /\ g[2] = (IF Len(s) = 1 THEN 0 ELSE IndexOf[s[2]])
        BY <3>8 DEF ParseTagIndex
      <4>2. Len(s) # 1 => IndexOf[s[2]] \in Nat
        <5>1. Len(s) # 1 => Len(s) > 1
          BY <3>2, ShortSeq
        <5> HIDE DEF s, g
        <5>2. Len(s) # 1 => s[2] \in DOMAIN IndexOf
          BY ONLY <3>1, <5>1, Zenon DEF NotANumber
        <5> QED BY <5>2, TagFacts
      <4>3. g[2] \in Nat
        BY <4>1, <4>2
      <4> HIDE DEF g, s
      <4> QED BY <3>3, <3>5, <3>6, <4>1, <4>3 DEF s
    <3> QED BY <3>7, <3>8
  <2> QED BY <2>2, <2>3
<1> QED BY <1>1, <1>2 DEF SlotsExact

(***************************************************************************)
(* TagMap::Initialize, for any strings and tags: a declaration that is     *)
(* accepted and repeats no index has each stream in the slot its tag and   *)
(* index say, and the InputStreamInfos of NodeInfo::Initialize have slots  *)
(* of their own under the tags they give.                                  *)
(***************************************************************************)
THEOREM Slots == TagSpec => []SlotsExact
<1>1. TagInit => TagInv
  <2> SUFFICES ASSUME TagInit PROVE TagInv
    OBVIOUS
  <2>1. decl \in Seq(Strings)
    BY TagAssumption DEF TagInit, BoundedSeq, SeqOf, TagsFit
  <2>2. TagData
    BY <2>1 DEF TagInit, TagData
  <2>3. ReadRight(0)
    <3>1. \A t \in Tag : {k \in 1 .. 0 : TagOf(k) = t} = {} /\ count[t] = 0
      BY DEF TagInit
    <3> QED BY <3>1, FS_EmptySet DEF ReadRight
  <2>4. 0 <= Len(decl)
    BY <2>1
  <2> QED BY <2>2, <2>3, <2>4 DEF TagInit, TagInv
<1>2. TagInv /\ [TagNext]_tagVars => TagInv'
  BY ParseReads, LayoutRight, InsertRight, CheckInfoRight, PassesRight DEF TagNext
<1> QED BY <1>1, <1>2, TagInvExact, PTL DEF TagSpec
-----------------------------------------------------------------------------
(* The packets of a slot *)

\* A 16-bit number of bytes.
LEMMA UintFacts == UINT16 \in Nat /\ UINT16 > 1000
BY DEF UINT16

\* The fields of a packet.
LEMMA PacketType ==
  ASSUME NEW p, IsPacket(p)
  PROVE  /\ p.tags \in Seq(VLAN) /\ p.type \notin VLAN /\ Len(p.tags) \in Nat
         /\ p.ihl \in Nat /\ p.ihl <= 15 /\ p.doff \in Nat /\ p.doff <= 15
         /\ p.ip_len \in Nat /\ p.size \in Nat /\ p.size < UINT16
<1>1. p.tags \in Seq(VLAN) /\ p.type \in STRING \ VLAN
  BY Zenon DEF IsPacket
<1>2. p.ihl \in 0 .. 15 /\ p.doff \in 0 .. 15 /\ p.ip_len \in 0 .. UINT16 - 1 /\ p.size \in 0 .. UINT16 - 1
  BY Zenon DEF IsPacket
<1>3. p.type \notin VLAN
  BY <1>1, Zenon
<1>4. Len(p.tags) \in Nat
  BY <1>1
<1>5. \A x : x \in 0 .. 15 => x \in Nat /\ x <= 15
  OBVIOUS
<1>6. \A x : x \in 0 .. UINT16 - 1 => x \in Nat /\ x < UINT16
  BY UintFacts
<1> QED BY <1>1, <1>2, <1>3, <1>4, <1>5, <1>6, Zenon

\* The length of a packet is a natural number.
LEMMA SizeType ==
  ASSUME NEW p, IsPacket(p)
  PROVE  Size(p) \in Nat /\ L3(p) \in Nat /\ L4Len(p) \in Nat /\ L4(p) \in Nat
<1>1. Len(p.tags) \in Nat /\ p.ihl \in Nat /\ p.doff \in Nat /\ p.size \in Nat
  BY PacketType, Zenon
<1>2. L3(p) \in Nat
  BY <1>1 DEF L3, ETH_HLEN, VLAN_HLEN
<1>3. L4Len(p) \in Nat
  BY <1>1 DEF L4Len
<1>4. L4(p) \in Nat
  BY <1>1, <1>2 DEF L4
<1> QED BY <1>1, <1>2, <1>3, <1>4 DEF Size

\* Where the packets of a list begin.
LEMMA StartFacts ==
  ASSUME NEW T, \A p \in T : IsPacket(p), NEW s \in Seq(T)
  PROVE  /\ Start(s, 1) = 0
         /\ \A k \in 1 .. Len(s) + 1 : Start(s, k) \in Nat
         /\ \A k \in 1 .. Len(s) : Start(s, k + 1) = Start(s, k) + 2 + Size(s[k])
<1> DEFINE f == [j \in DOMAIN s |-> 2 + Size(s[j])]
<1>1. DOMAIN s = 1 .. Len(s) /\ Len(s) \in Nat /\ \A k \in 1 .. Len(s) : s[k] \in T
  OBVIOUS
<1>2. \A k \in 1 .. Len(s) : f[k] = 2 + Size(s[k]) /\ Size(s[k]) \in Nat /\ f[k] \in Nat /\ f[k] \in Int
  BY <1>1, SizeType
<1>3. \A k : Start(s, k) = SumTo(f, k - 1)
  BY DEF Start
<1> HIDE DEF f
<1>4. Start(s, 1) = 0
  <2>1. 1 - 1 = 0
    OBVIOUS
  <2> QED BY <1>3, <2>1, SumEmpty
<1>5. ASSUME NEW k \in 1 .. Len(s)
      PROVE  Start(s, k + 1) = Start(s, k) + f[k] /\ Start(s, k) \in Int
  <2>1. k - 1 \in Nat /\ (k - 1) + 1 = k /\ (k + 1) - 1 = k /\ \A j \in 1 .. k : j \in 1 .. Len(s)
    BY <1>1
  <2>2. \A j \in 1 .. (k - 1) + 1 : f[j] \in Int
    BY <1>2, <2>1
  <2>3. SumTo(f, k - 1) \in Int /\ SumTo(f, (k - 1) + 1) = SumTo(f, k - 1) + f[(k - 1) + 1]
    BY <2>1, <2>2, SumNext
  <2>4. Start(s, k + 1) = SumTo(f, k) /\ Start(s, k) = SumTo(f, k - 1)
    BY <1>3, <2>1
  <2> QED BY <2>1, <2>3, <2>4
<1>6. \A k \in 1 .. Len(s) + 1 : Start(s, k) \in Nat
  <2> DEFINE Bad == {k \in 1 .. Len(s) + 1 : Start(s, k) \notin Nat}
  <2> SUFFICES ASSUME Bad # {} PROVE FALSE
    OBVIOUS
  <2>1. PICK k \in Bad : \A y \in Bad : k <= y
    BY Bad \subseteq Nat, LeastOf
  <2>2. k \in 1 .. Len(s) + 1 /\ Start(s, k) \notin Nat /\ k # 1
    BY <1>4, <2>1
  <2>3. k - 1 \in 1 .. Len(s) /\ k - 1 \in 1 .. Len(s) + 1 /\ ~ (k <= k - 1) /\ (k - 1) + 1 = k
    BY <1>1, <2>2
  <2>4. Start(s, k - 1) \in Nat
    BY <2>1, <2>3
  <2>5. Start(s, k) = Start(s, k - 1) + f[k - 1] /\ f[k - 1] \in Nat
    BY <1>2, <1>5, <2>3
  <2> QED BY <2>2, <2>4, <2>5
<1>7. ASSUME NEW k \in 1 .. Len(s) PROVE Start(s, k + 1) = Start(s, k) + 2 + Size(s[k])
  <2>1. Start(s, k + 1) = Start(s, k) + f[k] /\ f[k] = 2 + Size(s[k]) /\ Size(s[k]) \in Nat /\ Start(s, k) \in Int
    BY <1>2, <1>5
  <2> QED BY <2>1
<1> QED BY <1>4, <1>6, <1>7

\* Later packets begin later.
LEMMA StartGrows ==
  ASSUME NEW T, \A p \in T : IsPacket(p), NEW s \in Seq(T), NEW j \in 1 .. Len(s) + 1, NEW k \in 1 .. Len(s) + 1, j < k
  PROVE  Start(s, j) < Start(s, k)
<1> DEFINE Bad == {m \in 1 .. Len(s) + 1 : j < m /\ ~ (Start(s, j) < Start(s, m))}
<1>0. Len(s) \in Nat /\ \A m \in 1 .. Len(s) : s[m] \in T
  OBVIOUS
<1> SUFFICES ASSUME Bad # {} PROVE FALSE
  OBVIOUS
<1>1. PICK m \in Bad : \A y \in Bad : m <= y
  BY Bad \subseteq Nat, LeastOf
<1>2. m \in 1 .. Len(s) + 1 /\ j < m /\ ~ (Start(s, j) < Start(s, m))
  BY <1>1
<1>3. m - 1 \in 1 .. Len(s) /\ m - 1 \in 1 .. Len(s) + 1 /\ ~ (m <= m - 1) /\ (m - 1) + 1 = m /\ (j = m - 1 \/ j < m - 1)
  BY <1>0, <1>2
<1>4. Start(s, m) = Start(s, m - 1) + 2 + Size(s[m - 1]) /\ Size(s[m - 1]) \in Nat
  BY <1>0, <1>3, StartFacts, SizeType
<1>5. Start(s, j) \in Nat /\ Start(s, m - 1) \in Nat /\ Start(s, m) \in Nat
  BY <1>2, <1>3, StartFacts
<1>6. j = m - 1 \/ Start(s, j) < Start(s, m - 1)
  BY <1>1, <1>3
<1> QED BY <1>2, <1>4, <1>5, <1>6

\* What is read where the k-th packet begins.
LEMMA ReadAtStart ==
  ASSUME NEW T, \A p \in T : IsPacket(p), NEW s \in Seq(T), NEW k \in 1 .. Len(s)
  PROVE  PktLenAt(s, Start(s, k)) = Size(s[k]) /\ BodyAt(s, Start(s, k) + 2) = s[k]
<1>1. DOMAIN s = 1 .. Len(s) /\ Len(s) \in Nat /\ \A m \in 1 .. Len(s) : m \in 1 .. Len(s) + 1
  OBVIOUS
<1>2. \A m \in 1 .. Len(s) : Start(s, m) \in Nat
  BY <1>1, StartFacts
<1>3. \A j, m \in 1 .. Len(s) : j < m => Start(s, j) < Start(s, m)
  BY <1>1, StartGrows
<1>4. \A m \in 1 .. Len(s) : Start(s, m) = Start(s, k) => m = k
  <2> SUFFICES ASSUME NEW m \in 1 .. Len(s), Start(s, m) = Start(s, k) PROVE m = k
    OBVIOUS
  <2>1. ~ (m < k) /\ ~ (k < m)
    BY <1>2, <1>3
  <2> QED BY <2>1
<1>5. Aligned(s, Start(s, k)) = {k}
  BY <1>1, <1>4 DEF Aligned
<1>6. (Start(s, k) + 2) - 2 = Start(s, k)
  BY <1>2
<1>7. (CHOOSE m \in {k} : TRUE) = k
  OBVIOUS
<1> QED BY <1>5, <1>6, <1>7 DEF PktLenAt, BodyAt

\* Up to two VLAN tags are skipped, so an IP header is found where it is.
LEMMA EthFacts ==
  ASSUME NEW p, IsPacket(p)
  PROVE  LET e == parse_ethtype_vlan(p) IN
         /\ e.ret = 0 /\ e.h_proto = "IP" <=> p.type = "IP" /\ Len(p.tags) <= 2
         /\ p.type = "IP" /\ Len(p.tags) <= 2 => e.l3_off = L3(p)
<1> DEFINE at0 == EtherTypeAt(p, 0)
           at1 == EtherTypeAt(p, 1)
           n == IF at0 \notin VLAN THEN 0 ELSE IF at1 \notin VLAN THEN 1 ELSE 2
           e == parse_ethtype_vlan(p)
<1>a. p.tags \in Seq(VLAN) /\ p.type \notin VLAN
  BY PacketType, Zenon
<1>b. PICK c \in Nat : c = Len(p.tags)
  BY <1>a
<1>1. p.type \notin VLAN /\ \A k \in 1 .. c : p.tags[k] \in VLAN
  BY <1>a, <1>b
<1>2. "other" \notin VLAN /\ "IP" \notin VLAN /\ "802.3" \notin VLAN
  BY DEF VLAN
<1>3. e.ret = (IF at0 = "802.3" THEN -1 ELSE 0) /\ e.h_proto = EtherTypeAt(p, n) /\ e.l3_off = ETH_HLEN + n * VLAN_HLEN
  BY DEF parse_ethtype_vlan
<1>4. at0 = IF 0 < c THEN p.tags[1] ELSE p.type
  BY <1>b, <1>1 DEF EtherTypeAt
<1>5. at1 = IF 1 < c THEN p.tags[2] ELSE IF 1 = c THEN p.type ELSE "other"
  BY <1>b, <1>1 DEF EtherTypeAt
<1> HIDE DEF e, at0, at1
<1>6. CASE c = 0
  <2>1. at0 = p.type /\ n = 0
    BY <1>1, <1>4, <1>6
  <2>2. EtherTypeAt(p, 0) = p.type
    BY <1>b, <1>6 DEF EtherTypeAt
  <2>3. L3(p) = ETH_HLEN + 0 * VLAN_HLEN
    BY <1>b, <1>6 DEF L3, ETH_HLEN, VLAN_HLEN
  <2>4. e.ret = (IF p.type = "802.3" THEN -1 ELSE 0) /\ e.h_proto = p.type /\ e.l3_off = L3(p)
    BY <1>3, <2>1, <2>2, <2>3
  <2> QED BY <1>b, <1>6, <2>4 DEF e
<1>7. CASE c = 1
  <2>1. at0 = p.tags[1] /\ at0 \in VLAN /\ at1 = p.type /\ n = 1
    BY <1>1, <1>4, <1>5, <1>7
  <2>2. EtherTypeAt(p, 1) = p.type
    BY <1>b, <1>7 DEF EtherTypeAt
  <2>3. L3(p) = ETH_HLEN + 1 * VLAN_HLEN
    BY <1>b, <1>7 DEF L3, ETH_HLEN, VLAN_HLEN
  <2>4. e.ret = 0 /\ e.h_proto = p.type /\ e.l3_off = L3(p)
    BY <1>2, <1>3, <2>1, <2>2, <2>3
  <2> QED BY <1>b, <1>7, <2>4 DEF e
<1>8. CASE c >= 2
  <2>1. at0 = p.tags[1] /\ at0 \in VLAN /\ at1 = p.tags[2] /\ at1 \in VLAN /\ n = 2
    BY <1>1, <1>4, <1>5, <1>8
  <2>2. EtherTypeAt(p, 2) = IF c = 2 THEN p.type ELSE p.tags[3]
    <3>1. EtherTypeAt(p, 2) = IF 2 < c THEN p.tags[3] ELSE IF 2 = c THEN p.type ELSE "other"
      BY <1>b DEF EtherTypeAt
    <3>2. c = 2 \/ 2 < c
      BY <1>8
    <3> QED BY <3>1, <3>2
  <2>3. c = 2 => L3(p) = ETH_HLEN + 2 * VLAN_HLEN
    BY <1>b DEF L3, ETH_HLEN, VLAN_HLEN
  <2>4. c # 2 => p.tags[3] # "IP" /\ ~ (c <= 2)
    BY <1>1, <1>2, <1>8
  <2>5. e.ret = 0 /\ e.h_proto = (IF c = 2 THEN p.type ELSE p.tags[3]) /\ e.l3_off = ETH_HLEN + 2 * VLAN_HLEN
    BY <1>2, <1>3, <2>1, <2>2
  <2>6. c = 2 => c <= 2
    OBVIOUS
  <2>7. c <= 2 => c = 2
    BY <1>1, <1>8
  <2> QED BY <1>b, <2>3, <2>4, <2>5, <2>6, <2>7 DEF e
<1>9. c = 0 \/ c = 1 \/ c >= 2
  OBVIOUS
<1> QED BY <1>6, <1>7, <1>8, <1>9
-----------------------------------------------------------------------------
(* The parsers of packets *)

\* A protocol without ports is handled one way by each parser.
LEMMA KeepsFacts ==
  ASSUME parser \in Parsers, NEW pr, pr \in UNION {Keeps[parser].l4, Keeps[parser].absent, Keeps[parser].zero}
  PROVE  pr \notin Keeps[parser].l4 => (pr \in Keeps[parser].zero <=> parser \in {"A100", "grpc"})
<1>1. parser \in {"SndPcapParseTask", "RBDataParseTask", "sccm", "A100", "grpc"}
  BY DEF Parsers, Keeps
<1> QED BY <1>1 DEF Keeps, SndPcapParseTask, RBDataParseTask, sccm, A100, grpc

LEMMA KeepsApart ==
  ASSUME parser \in Parsers
  PROVE  Keeps[parser].l4 \cap Keeps[parser].zero = {}
<1>1. parser \in {"SndPcapParseTask", "RBDataParseTask", "sccm", "A100", "grpc"}
  BY DEF Parsers, Keeps
<1> QED BY <1>1 DEF Keeps, SndPcapParseTask, RBDataParseTask, sccm, A100, grpc

\* What parse_snd_features returns of a packet.
LEMMA ParsedRight ==
  ASSUME parser \in Parsers, NEW p \in Packets
  PROVE  LET fs == parse_snd_features(Keeps[parser], p) IN
         /\ fs \in Seq(Feature)
         /\ Kept(p) => Len(fs) = 1 /\ TrueFeatures(fs[1], p)
         /\ ~ Kept(p) => fs = << >>
<1> DEFINE e == parse_ethtype_vlan(p)
           keep == Keeps[parser]
           fs == parse_snd_features(keep, p)
           found == p.type = "IP" /\ Len(p.tags) <= 2
           all == keep.l4 \cup keep.absent \cup keep.zero
           f == [SIP |-> Ip(p, e.l3_off, p.sip), SPort |-> PortsOf(keep, p, e.l3_off),
                 Protocol |-> p.proto, Length |-> Ip(p, e.l3_off, p.ip_len)]
<1>1. IsPacket(p)
  BY PacketsAssumption
<1>2. (e.ret = 0 /\ e.h_proto = "IP" <=> found) /\ (found => e.l3_off = L3(p))
  BY <1>1, EthFacts
<1>3. fs = IF e.ret # 0 \/ e.h_proto # "IP" \/ Ip(p, e.l3_off, p.proto) \notin all THEN << >> ELSE <<f>>
  BY DEF parse_snd_features
<1>4. Kept(p) <=> found /\ p.proto \in all
  BY DEF Kept
<1>5. found => /\ Ip(p, e.l3_off, p.proto) = p.proto /\ Ip(p, e.l3_off, p.sip) = p.sip
               /\ Ip(p, e.l3_off, p.ip_len) = p.ip_len
  BY <1>2 DEF Ip
<1> HIDE DEF e, found
<1>6. CASE ~ Kept(p)
  <2>1. fs = << >>
    BY <1>2, <1>3, <1>4, <1>5, <1>6, Zenon
  <2> QED BY <1>6, <2>1
<1>7. CASE Kept(p)
  <2>1. found /\ p.proto \in all
    BY <1>4, <1>7, Zenon
  <2>2. fs = <<f>>
    BY <1>2, <1>3, <1>5, <2>1, Zenon
  <2>3. f.SIP = p.sip /\ f.Protocol = p.proto /\ f.Length = p.ip_len /\ f.SPort = PortsOf(keep, p, L3(p))
    BY <1>2, <1>5, <2>1
  <2>4. Port(p, L3(p) + 4 * p.ihl, p.sport) = p.sport
    BY DEF Port, L4
  <2>5. f.SPort = IF p.proto \in keep.l4 THEN p.sport ELSE IF parser \in {"A100", "grpc"} THEN "0" ELSE "absent"
    <3>1. p.proto \notin keep.l4 => (p.proto \in keep.zero <=> parser \in {"A100", "grpc"})
      BY <2>1, KeepsFacts
    <3>2. PortsOf(keep, p, L3(p)) = CASE p.proto \in keep.l4 -> p.sport [] p.proto \in keep.zero -> "0" [] OTHER -> "absent"
      BY <2>4 DEF PortsOf
    <3>3. p.proto \in keep.l4 => p.proto \notin keep.zero
      BY KeepsApart
    <3> HIDE DEF f, keep
    <3> QED BY <2>3, <3>1, <3>2, <3>3
  <2>6. TrueFeatures(f, p)
    <3> HIDE DEF f
    <3> QED BY <2>3, <2>5 DEF TrueFeatures
  <2>7. f \in Feature
    <3>1. {p.sip, p.sport, p.proto} \subseteq Field /\ "0" \in Field /\ "absent" \in Field
      BY DEF Field
    <3>a. p.ip_len \in Nat
      BY <1>1, PacketType, Zenon
    <3>2. f.SPort \in Field /\ p.ip_len \in Int
      BY <2>5, <3>1, <3>a
    <3>3. f = [SIP |-> f.SIP, SPort |-> f.SPort, Protocol |-> f.Protocol, Length |-> f.Length]
      OBVIOUS
    <3> HIDE DEF f
    <3>4. f.SIP \in Field /\ f.Protocol \in Field /\ f.Length \in Int
      BY <2>3, <3>1, <3>2
    <3> QED BY <3>2, <3>3, <3>4 DEF Feature
  <2> HIDE DEF f, fs
  <2>8. fs \in Seq(Feature) /\ Len(fs) = 1 /\ fs[1] = f
    BY <2>2, <2>7
  <2> QED BY <1>7, <2>6, <2>8 DEF fs
<1> QED BY <1>6, <1>7

\* How the packets kept are counted.
LEMMA PlaceFacts ==
  ASSUME NEW n \in 0 .. Len(slot) - 1, slot \in Seq(Packets)
  PROVE  /\ Place(0) = 0 /\ Place(n) \in Nat
         /\ Place(n + 1) = IF Kept(slot[n + 1]) THEN Place(n) + 1 ELSE Place(n)
         /\ \A k \in 1 .. n : Kept(slot[k]) => Place(k) \in 1 .. Place(n)
<1> DEFINE Upto(k) == {j \in 1 .. k : Kept(slot[j])}
<1>1. Len(slot) \in Nat /\ n \in Nat
  OBVIOUS
<1>2. Place(0) = 0
  <2>1. Upto(0) = {}
    OBVIOUS
  <2> QED BY <2>1, FS_EmptySet DEF Place
<1>3. \A k \in Nat : IsFiniteSet(Upto(k)) /\ Place(k) \in Nat /\ Place(k) = Cardinality(Upto(k))
  BY Counting DEF Place
<1>4. Place(n + 1) = IF Kept(slot[n + 1]) THEN Place(n) + 1 ELSE Place(n)
  <2>1. CASE Kept(slot[n + 1])
    <3>1. Upto(n + 1) = Upto(n) \cup {n + 1}
      BY <1>1, <2>1
    <3>2. Upto(n) \subseteq 1 .. n
      OBVIOUS
    <3>a. n \in Nat /\ n + 1 \in Nat
      BY <1>1
    <3> HIDE DEF Upto
    <3>3. Cardinality(Upto(n) \cup {n + 1}) = Cardinality(Upto(n)) + 1
      BY <3>a, <3>2, CountNext
    <3>4. Place(n + 1) = Cardinality(Upto(n + 1)) /\ Place(n) = Cardinality(Upto(n))
      BY <1>3, <3>a
    <3>5. Place(n + 1) = Place(n) + 1
      BY <3>1, <3>3, <3>4, Zenon
    <3> QED BY <2>1, <3>5
  <2>2. CASE ~ Kept(slot[n + 1])
    <3>1. Upto(n + 1) = Upto(n)
      BY <1>1, <2>2
    <3> HIDE DEF Upto
    <3> QED BY <1>1, <1>3, <2>2, <3>1
  <2> QED BY <2>1, <2>2
<1>5. ASSUME NEW k \in 1 .. n, Kept(slot[k])
      PROVE  Place(k) \in 1 .. Place(n)
  <2>1. k \in Nat /\ Upto(k) \subseteq Upto(n) /\ k \in Upto(k)
    BY <1>1, <1>5
  <2> HIDE DEF Upto
  <2>2. Place(k) <= Place(n)
    BY <1>1, <1>3, <2>1, FS_Subset
  <2>3. Place(k) # 0
    BY <1>3, <2>1, FS_EmptySet
  <2> QED BY <1>1, <1>3, <2>1, <2>2, <2>3
<1> QED BY <1>1, <1>2, <1>3, <1>4, <1>5

\* One more packet is parsed.
LEMMA HandedOnNext ==
  ASSUME ParseInv, NEW n \in 0 .. Len(slot) - 1, HandedOn(n), UNCHANGED <<parser, slot>>,
         packets' = packets \o parse_snd_features(Keeps[parser], slot[n + 1])
  PROVE  HandedOn(n + 1)' /\ packets' \in Seq(Feature)
<1> DEFINE p == slot[n + 1]
           fs == parse_snd_features(Keeps[parser], p)
<1>1. /\ slot \in Seq(Packets) /\ packets \in Seq(Feature) /\ parser \in Parsers /\ Len(slot) \in Nat
      /\ n + 1 \in 1 .. Len(slot) /\ n \in Nat /\ p \in Packets /\ Len(packets) = Place(n)
  BY DEF ParseInv, HandedOn
<1>2. fs \in Seq(Feature) /\ (Kept(p) => Len(fs) = 1 /\ TrueFeatures(fs[1], p)) /\ (~ Kept(p) => fs = << >>)
  BY <1>1, ParsedRight
<1>3. /\ Place(n) \in Nat /\ Place(n + 1) = (IF Kept(p) THEN Place(n) + 1 ELSE Place(n))
      /\ \A k \in 1 .. n : Kept(slot[k]) => Place(k) \in 1 .. Place(n)
  BY <1>1, PlaceFacts
<1>4. /\ \A k : Place(k)' = Place(k) /\ (Kept(slot[k])' <=> Kept(slot[k]))
      /\ \A f, q : TrueFeatures(f, q)' <=> TrueFeatures(f, q)
  BY DEF Place, Kept, TrueFeatures
<1>5. packets' = packets \o fs
  OBVIOUS
<1> HIDE DEF fs
<1>6. /\ packets' \in Seq(Feature) /\ Len(packets') = Len(packets) + Len(fs)
      /\ \A k \in 1 .. Len(packets) : packets'[k] = packets[k]
      /\ \A k \in 1 .. Len(fs) : packets'[Len(packets) + k] = fs[k]
  <2>1. packets \in Seq(Feature) /\ fs \in Seq(Feature)
    BY <1>1, <1>2
  <2>2. /\ packets \o fs \in Seq(Feature) /\ Len(packets \o fs) = Len(packets) + Len(fs)
        /\ \A k \in 1 .. Len(packets) : (packets \o fs)[k] = packets[k]
        /\ \A k \in 1 .. Len(fs) : (packets \o fs)[Len(packets) + k] = fs[k]
    BY ONLY <2>1, Concat
  <2> QED BY <1>5, <2>2, Zenon
<1>7. Len(packets') = Place(n + 1)
  <2>1. Len(<< >>) = 0
    OBVIOUS
  <2>2. CASE Kept(p)
    <3>1. Len(fs) = 1 /\ Place(n + 1) = Place(n) + 1
      BY <1>2, <1>3, <2>2
    <3> QED BY <1>1, <1>6, <3>1, Zenon
  <2>3. CASE ~ Kept(p)
    <3>1. Len(fs) = 0 /\ Place(n + 1) = Place(n)
      BY <1>2, <1>3, <2>1, <2>3
    <3>2. Len(packets') = Place(n) + 0
      BY <1>1, <1>6, <3>1, Zenon
    <3> QED BY <1>3, <3>1, <3>2
  <2> QED BY <2>2, <2>3
<1>8. ASSUME NEW k \in 1 .. n + 1, Kept(slot[k])
      PROVE  TrueFeatures(packets'[Place(k)], slot[k])
  <2>1. CASE k = n + 1
    <3>1. Len(fs) = 1 /\ TrueFeatures(fs[1], p) /\ Place(k) = Len(packets) + 1
      BY <1>1, <1>2, <1>3, <1>8, <2>1
    <3>2. packets'[Len(packets) + 1] = fs[1]
      BY <1>6, <3>1
    <3> QED BY <2>1, <3>1, <3>2
  <2>2. CASE k # n + 1
    <3>1. k \in 1 .. n
      BY <1>1, <2>2
    <3>2. Place(k) \in 1 .. Len(packets)
      BY <1>1, <1>3, <1>8, <3>1
    <3>3. TrueFeatures(packets[Place(k)], slot[k])
      BY <1>8, <3>1 DEF HandedOn
    <3> QED BY <1>6, <3>2, <3>3
  <2> QED BY <2>1, <2>2
<1>9. HandedOn(n + 1)' <=> /\ Len(packets') = Place(n + 1)'
                           /\ \A k \in 1 .. n + 1 : Kept(slot[k])' => TrueFeatures(packets[Place(k)], slot[k])'
  BY DEF HandedOn
<1>10. ASSUME NEW k \in 1 .. n + 1, Kept(slot[k])' PROVE TrueFeatures(packets[Place(k)], slot[k])'
  <2>1. TrueFeatures(packets'[Place(k)], slot[k])
    BY <1>4, <1>8, <1>10
  <2> QED BY <1>4, <2>1
<1> QED BY <1>4, <1>6, <1>7, <1>9, <1>10

\* The invariant of the parsers.
LEMMA ParseInvInit == ParseInit => ParseInv
<1> SUFFICES ASSUME ParseInit PROVE ParseInv
  OBVIOUS
<1>1. /\ parser \in Parsers /\ slot \in Captured /\ packets = << >> /\ pktIndex = 0 /\ data = 0 /\ ret = 0
      /\ reach = 0 /\ parsePhase = "open"
      /\ countTotal \in IF Len(slot) = MaxApplied THEN {MaxApplied, MaxApplied + 1} ELSE {Len(slot)}
      /\ parser # "SndPcapParseTask" => Len(slot) <= MaxApplied
  BY DEF ParseInit
<1>2. slot \in Seq(Packets)
  <2>1. slot \in UNION {[1 .. m -> Packets] : m \in 0 .. MaxPackets}
    BY <1>1 DEF Captured, SeqOf
  <2>2. PICK m \in 0 .. MaxPackets : slot \in [1 .. m -> Packets]
    BY <2>1
  <2> QED BY <2>2, PacketsAssumption, FunctionIsSeq
<1>3. PICK c \in Nat : c = Len(slot)
  BY <1>2
<1>4. parser # "SndPcapParseTask" => Applied = Len(slot)
  BY <1>1, <1>3, PacketsAssumption DEF Applied
<1>5. packets \in Seq(Feature) /\ Len(packets) = 0
  BY <1>1
<1>6. pktIndex \in 0 .. Len(slot)
  BY <1>1, <1>3
<1>7. Place(0) = 0
  <2>1. {j \in 1 .. 0 : Kept(slot[j])} = {}
    OBVIOUS
  <2> QED BY <2>1, FS_EmptySet DEF Place
<1>8. HandedOn(pktIndex)
  <2>1. \A k \in 1 .. 0 : FALSE
    OBVIOUS
  <2> QED BY <1>1, <1>5, <1>7, <2>1 DEF HandedOn
<1>9. ReadsWhatWasWritten
  BY <1>1 DEF ReadsWhatWasWritten
<1>10. parsePhase # "packets" /\ parsePhase # "done"
  BY <1>1
<1> QED BY <1>1, <1>2, <1>4, <1>5, <1>6, <1>8, <1>9, <1>10 DEF ParseInv

\* The definitions of the invariant read no more than what a step keeps.
LEMMA HandedOnSame ==
  ASSUME NEW n, HandedOn(n), UNCHANGED <<parser, slot, packets>>
  PROVE  HandedOn(n)'
<1>1. /\ \A k : Place(k)' = Place(k) /\ (Kept(slot[k])' <=> Kept(slot[k]))
      /\ \A f, q : TrueFeatures(f, q)' <=> TrueFeatures(f, q)
  BY DEF Place, Kept, TrueFeatures
<1> QED BY <1>1 DEF HandedOn

LEMMA ParseInvStep == ParseInv /\ [ParseNext]_parseVars => ParseInv'
<1> SUFFICES ASSUME ParseInv, [ParseNext]_parseVars PROVE ParseInv'
  OBVIOUS
<1>1. /\ parser \in Parsers /\ slot \in Seq(Packets) /\ pktIndex \in 0 .. Len(slot) /\ packets \in Seq(Feature)
      /\ parser # "SndPcapParseTask" => Applied = Len(slot)
      /\ parsePhase = "open" => pktIndex = 0 /\ data = 0 /\ ret = 0 /\ reach = 0
      /\ parsePhase = "packets" => ret = 0
      /\ parsePhase = "packets" /\ parser # "SndPcapParseTask" =>
           data = Start(slot, pktIndex + 1) /\ pkt_len = PktLenAt(slot, data)
      /\ parsePhase = "done" /\ ret = 0 => pktIndex = Len(slot)
      /\ HandedOn(pktIndex) /\ ReadsWhatWasWritten
  BY DEF ParseInv
<1>2. \A p \in Packets : IsPacket(p)
  BY PacketsAssumption
<1>3. UNCHANGED <<parser, slot, countTotal>>
  BY DEF ParseNext, Refuse, OpenSlot, ParsePacket, PcapPacket, Finish, parseVars
<1>4. parser' # "SndPcapParseTask" => Applied' = Len(slot')
  BY <1>1, <1>3 DEF Applied
<1>5. PICK c \in Nat : c = Len(slot)
  BY <1>1
<1>6. /\ \A k \in 1 .. c + 1 : Start(slot, k) \in Nat
      /\ \A k \in 1 .. c : Start(slot, k + 1) = Start(slot, k) + 2 + Size(slot[k])
      /\ Start(slot, 1) = 0
  BY <1>1, <1>2, <1>5, StartFacts
<1>7. \A a, k : Start(slot, k)' = Start(slot, k) /\ PktLenAt(slot, a)' = PktLenAt(slot, a)
  BY <1>3 DEF Start, PktLenAt, Aligned
<1>8. ReadsWhatWasWritten' <=> (parsePhase' # "open" => reach' <= Start(slot, c + 1) + 2)
  BY <1>3, <1>5, <1>7 DEF ReadsWhatWasWritten
<1>9. pktIndex \in Nat /\ pktIndex <= c
  BY <1>1, <1>5
<1>10. CASE Refuse
  <2>1. /\ parsePhase' = "done" /\ parsePhase = "open" /\ ret' \in {-1, -100}
        /\ UNCHANGED <<pktIndex, packets, data, pkt_len, reach>>
    BY <1>10 DEF Refuse
  <2>2. HandedOn(pktIndex)'
    BY <1>1, <1>3, <2>1, HandedOnSame
  <2>3. ret' # 0 /\ parsePhase' # "open" /\ parsePhase' # "packets"
    BY <2>1
  <2>4. ReadsWhatWasWritten'
    <3>1. Start(slot, c + 1) \in Nat /\ reach' = 0
      BY <1>1, <1>6, <2>1
    <3> QED BY <1>8, <3>1
  <2> QED BY <1>1, <1>3, <1>4, <2>1, <2>2, <2>3, <2>4 DEF ParseInv
<1>11. CASE OpenSlot
  <2>1. /\ parsePhase' = "packets" /\ parsePhase = "open" /\ pkt_len' = PktLenAt(slot, 0) /\ reach' = 2
        /\ UNCHANGED <<pktIndex, packets, data, ret>>
    BY <1>11 DEF OpenSlot
  <2>2. HandedOn(pktIndex)'
    BY <1>1, <1>3, <2>1, HandedOnSame
  <2>3. parsePhase' # "open" /\ parsePhase' # "done" /\ ret' = 0
    BY <1>1, <2>1
  <2>4. ReadsWhatWasWritten'
    <3>1. Start(slot, c + 1) \in Nat
      BY <1>6
    <3> QED BY <1>8, <2>1, <3>1
  <2>5. data' = Start(slot, pktIndex + 1)' /\ pkt_len' = PktLenAt(slot, data)'
    <3>1. data = 0 /\ pktIndex + 1 = 1
      BY <1>1, <2>1
    <3>2. Start(slot, pktIndex + 1)' = Start(slot, 1)
      BY <1>7, <2>1, <3>1
    <3>3. PktLenAt(slot, data)' = PktLenAt(slot, 0)
      <4>1. data' = 0
        BY <2>1, <3>1
      <4> QED BY <1>3, <4>1 DEF PktLenAt, Aligned, Start
    <3> QED BY <1>6, <2>1, <3>1, <3>2, <3>3
  <2> QED BY <1>1, <1>3, <1>4, <2>1, <2>2, <2>3, <2>4, <2>5 DEF ParseInv
<1>12. CASE ParsePacket
  <2>1. /\ parsePhase' = "packets" /\ parsePhase = "packets" /\ parser # "SndPcapParseTask" /\ pktIndex < Applied
        /\ packets' = packets \o parse_snd_features(Keeps[parser], BodyAt(slot, data + 2))
        /\ data' = data + 2 + pkt_len /\ pkt_len' = PktLenAt(slot, data') /\ reach' = data' + 2
        /\ pktIndex' = pktIndex + 1 /\ UNCHANGED ret
    BY <1>12 DEF ParsePacket
  <2>2. PICK n \in 0 .. c - 1 : n = pktIndex
    BY <1>1, <1>5, <1>9, <2>1
  <2>3. n + 1 \in 1 .. c /\ n \in Nat
    BY <2>2
  <2>4. data = Start(slot, n + 1) /\ pkt_len = PktLenAt(slot, Start(slot, n + 1))
    BY <1>1, <2>1, <2>2
  <2>5. PktLenAt(slot, Start(slot, n + 1)) = Size(slot[n + 1]) /\ BodyAt(slot, Start(slot, n + 1) + 2) = slot[n + 1]
    BY <1>1, <1>2, <1>5, <2>3, ReadAtStart
  <2>6. data' = Start(slot, (n + 1) + 1)
    <3>1. data' = Start(slot, n + 1) + 2 + Size(slot[n + 1])
      BY <2>1, <2>4, <2>5
    <3> QED BY <1>6, <2>3, <3>1
  <2>7. packets' = packets \o parse_snd_features(Keeps[parser], slot[n + 1])
    BY <2>1, <2>4, <2>5
  <2>8. HandedOn(n + 1)' /\ packets' \in Seq(Feature)
    BY <1>1, <1>3, <1>5, <2>2, <2>7, HandedOnNext
  <2>9. HandedOn(pktIndex)'
    <3>1. pktIndex' = n + 1
      BY <2>1, <2>2
    <3> QED BY <2>8, <3>1 DEF HandedOn
  <2>10. pktIndex' \in 0 .. Len(slot')
    BY <1>3, <1>5, <2>1, <2>2
  <2>11. data' = Start(slot, pktIndex + 1)'
    <3>1. pktIndex' + 1 = (n + 1) + 1
      BY <2>1, <2>2
    <3> QED BY <1>3, <2>6, <3>1 DEF Start
  <2>12. pkt_len' = PktLenAt(slot, data)'
    BY <1>3, <2>1 DEF PktLenAt, Aligned, Start
  <2>13. ReadsWhatWasWritten'
    <3>1. (n + 1) + 1 \in 1 .. c + 1 /\ c + 1 \in 1 .. c + 1
      BY <2>3
    <3>2. Start(slot, (n + 1) + 1) <= Start(slot, c + 1)
      <4>1. CASE (n + 1) + 1 = c + 1
        BY <1>6, <3>1, <4>1
      <4>2. CASE (n + 1) + 1 < c + 1
        <5>1. Start(slot, (n + 1) + 1) < Start(slot, c + 1)
          BY <1>1, <1>2, <1>5, <3>1, <4>2, StartGrows
        <5> QED BY <1>6, <3>1, <5>1
      <4> QED BY <2>3, <3>1, <4>1, <4>2
    <3> QED BY <1>6, <1>8, <2>1, <2>6, <3>1, <3>2
  <2>14. parsePhase' # "open" /\ parsePhase' # "done" /\ ret' = 0
    BY <1>1, <2>1
  <2> QED BY <1>1, <1>3, <1>4, <2>8, <2>9, <2>10, <2>11, <2>12, <2>13, <2>14 DEF ParseInv
<1>13. CASE PcapPacket
  <2>1. /\ parsePhase' = "packets" /\ parsePhase = "packets" /\ parser = "SndPcapParseTask" /\ pktIndex < Len(slot)
        /\ packets' = packets \o parse_snd_features(Keeps[parser], slot[pktIndex + 1])
        /\ pktIndex' = pktIndex + 1 /\ UNCHANGED <<ret, reach>>
    BY <1>13 DEF PcapPacket
  <2>2. PICK n \in 0 .. c - 1 : n = pktIndex
    BY <1>5, <1>9, <2>1
  <2>3. packets' = packets \o parse_snd_features(Keeps[parser], slot[n + 1])
    BY <2>1, <2>2
  <2>4. HandedOn(n + 1)' /\ packets' \in Seq(Feature)
    BY <1>1, <1>3, <1>5, <2>2, <2>3, HandedOnNext
  <2>5. HandedOn(pktIndex)'
    <3>1. pktIndex' = n + 1
      BY <2>1, <2>2
    <3> QED BY <2>4, <3>1 DEF HandedOn
  <2>6. pktIndex' \in 0 .. Len(slot')
    BY <1>3, <1>5, <2>1, <2>2
  <2>7. ReadsWhatWasWritten'
    BY <1>1, <1>5, <1>8, <2>1 DEF ReadsWhatWasWritten
  <2>8. parsePhase' # "open" /\ parsePhase' # "done" /\ ret' = 0 /\ parser' = "SndPcapParseTask"
    BY <1>1, <1>3, <2>1
  <2> QED BY <1>1, <1>3, <2>4, <2>5, <2>6, <2>7, <2>8 DEF ParseInv
<1>14. CASE Finish
  <2>1. /\ parsePhase' = "done" /\ parsePhase = "packets" /\ UNCHANGED <<ret, reach, pktIndex, packets>>
        /\ pktIndex = IF parser = "SndPcapParseTask" THEN Len(slot) ELSE Applied
    BY <1>14 DEF Finish
  <2>2. HandedOn(pktIndex)'
    BY <1>1, <1>3, <2>1, HandedOnSame
  <2>3. pktIndex' = Len(slot') /\ ret' = 0 /\ parsePhase' # "open" /\ parsePhase' # "packets"
    BY <1>1, <1>3, <2>1
  <2>4. ReadsWhatWasWritten'
    BY <1>1, <1>5, <1>8, <2>1 DEF ReadsWhatWasWritten
  <2> QED BY <1>1, <1>3, <1>4, <2>1, <2>2, <2>3, <2>4 DEF ParseInv
<1>15. CASE UNCHANGED parseVars
  <2>1. UNCHANGED <<parser, slot, countTotal, parsePhase, data, pkt_len, pktIndex, reach, packets, ret>>
    BY <1>15 DEF parseVars
  <2>2. HandedOn(pktIndex)'
    BY <1>1, <2>1, HandedOnSame
  <2>3. ReadsWhatWasWritten'
    BY <1>1, <1>5, <1>8, <2>1 DEF ReadsWhatWasWritten
  <2>4. parsePhase' = "packets" /\ parser' # "SndPcapParseTask" =>
           data' = Start(slot, pktIndex + 1)' /\ pkt_len' = PktLenAt(slot, data)'
    BY <1>1, <2>1 DEF PktLenAt, Aligned, Start
  <2> QED BY <1>1, <1>3, <1>4, <2>1, <2>2, <2>3, <2>4 DEF ParseInv
<1> QED BY <1>10, <1>11, <1>12, <1>13, <1>14, <1>15 DEF ParseNext

LEMMA ParseInvariant == ParseSpec => []ParseInv
BY ParseInvInit, ParseInvStep, PTL DEF ParseSpec

(***************************************************************************)
(* The cursor of parse_packets reads no byte after the length word behind  *)
(* the last packet written, however many packets sccm counted, for every   *)
(* list of packets, every number of them and every bound on those written. *)
(***************************************************************************)
THEOREM ParserReadsWhatWasWritten == ParseSpec => []ReadsWhatWasWritten
<1>1. ParseInv => ReadsWhatWasWritten
  BY DEF ParseInv
<1> QED BY <1>1, ParseInvariant, PTL

(***************************************************************************)
(* Each of the five parsers hands on one record for each packet it keeps,  *)
(* in order, with the fields of that packet's own headers.                 *)
(***************************************************************************)
THEOREM ParserFeaturesTrue == ParseSpec => []FeaturesTrue
<1>1. ParseInv => FeaturesTrue
  BY DEF ParseInv, FeaturesTrue
<1> QED BY <1>1, ParseInvariant, PTL
-----------------------------------------------------------------------------
(* The input of the MFR model *)

\* An unsigned difference is the difference, or wraps once below zero.
LEMMA Unsigned ==
  ASSUME NEW m \in Nat, NEW v \in Int, v < m, 0 - m <= v, m > 0
  PROVE  v % m = (IF v >= 0 THEN v ELSE v + m)
<1>1. /\ v % m \in 0 .. m - 1 /\ v \div m \in Int /\ v = m * (v \div m) + (v % m)
  OBVIOUS
<1>2. PICK q \in Int, r \in Int : q = v \div m /\ r = v % m
  BY <1>1
<1>3. v = m * q + r /\ 0 <= r /\ r < m
  BY <1>1, <1>2
<1>4. q >= 1 => m * q >= m
  OBVIOUS
<1>5. q <= -2 => m * q <= m * (-2)
  OBVIOUS
<1>6. m * q \in Int /\ m * (-2) = 0 - 2 * m /\ (q = 0 => m * q = 0) /\ (q = -1 => m * q = 0 - m)
  OBVIOUS
<1>7. q \in {-1, 0}
  BY <1>3, <1>4, <1>5, <1>6
<1> QED BY <1>2, <1>3, <1>6, <1>7

\* A record of a packet: 640 characters and at most 240 bytes of payload.
ItemOf(it, p, h, st, len) ==
  /\ it \in MfrRecord /\ it.pkt = p /\ it.header = h /\ it.from = st
  /\ \E n \in Nat : it.upto = st + n /\ n = (IF len >= 240 THEN 240 ELSE len)

LEMMA ItemRight ==
  ASSUME NEW p \in CapturedPackets, NEW h \in Int, NEW st \in Nat, NEW len \in Nat, NEW it, it = Item(p, h, st, len)
  PROVE  ItemOf(it, p, h, st, len)
<1> DEFINE n == IF len >= PAYLOAD \div 2 THEN PAYLOAD \div 2 ELSE len
<1>1. Fit(h, HEADER) = HEADER
  BY DEF Fit, HEADER
<1>2. n \in Nat /\ n = (IF len >= 240 THEN 240 ELSE len)
  BY DEF PAYLOAD
<1>3. it = [pkt |-> p, chars |-> Fit(h, HEADER) + 2 * n + (PAYLOAD - 2 * n), header |-> h, from |-> st, upto |-> st + n]
  BY DEF Item
<1> HIDE DEF n
<1>4. Fit(h, HEADER) + 2 * n + (PAYLOAD - 2 * n) = HEADER + PAYLOAD
  BY <1>1, <1>2 DEF HEADER, PAYLOAD
<1>5. it = [pkt |-> p, chars |-> HEADER + PAYLOAD, header |-> h, from |-> st, upto |-> st + n]
  BY <1>3, <1>4
<1>6. st + n \in Int
  BY <1>2
<1>7. it \in MfrRecord /\ it.pkt = p /\ it.header = h /\ it.from = st /\ it.upto = st + n
  BY <1>5, <1>6 DEF MfrRecord
<1> QED BY <1>2, <1>7 DEF ItemOf

\* What is made of a packet: 640 characters, and payload after the headers.
LEMMA ItemFacts ==
  ASSUME NEW p \in CapturedPackets, ~ Unending(p)
  PROVE  LET d == parse_mfr_features(p, Size(p)) IN
         d \in MfrRecord /\ d.pkt = p /\ RecordRight(d)
<1> DEFINE e == parse_ethtype_vlan(p)
           found == p.type = "IP" /\ Len(p.tags) <= 2
           d == parse_mfr_features(p, Size(p))
<1>1. IsPacket(p)
  BY CapturesAssumption
<1>2. (e.ret = 0 /\ e.h_proto = "IP" <=> found) /\ (found => e.l3_off = L3(p))
  BY <1>1, EthFacts
<1>a. PICK sz \in Nat, l3 \in Nat, l4 \in Nat, ll \in Nat : sz = Size(p) /\ l3 = L3(p) /\ l4 = L4(p) /\ ll = L4Len(p)
  BY <1>1, SizeType
<1>b. /\ p.ihl \in Nat /\ p.ihl <= 15 /\ p.doff \in Nat /\ p.doff <= 15 /\ Len(p.tags) \in Nat
      /\ Size(p) < UINT16
  BY <1>1, PacketType, Zenon DEF Size
<1>c. PICK hl \in Nat, df \in Nat, tg \in Nat : hl = p.ihl /\ df = p.doff /\ tg = Len(p.tags)
  BY <1>b, Zenon
<1>3. /\ sz = Size(p) /\ l3 = L3(p) /\ l4 = L4(p) /\ ll = L4Len(p) /\ hl = p.ihl /\ df = p.doff /\ tg = Len(p.tags)
      /\ sz < UINT16 /\ hl <= 15 /\ df <= 15
  BY <1>a, <1>b, <1>c
<1>5. PAYLOAD \div 2 = 240
  BY DEF PAYLOAD
<1>7. d = IF e.ret # 0 \/ e.h_proto # "IP" THEN RawItem(p, Size(p)) ELSE IpItem(p, Size(p), e.l3_off)
  BY DEF parse_mfr_features
<1>u. found => hl >= 5
  BY <1>2, <1>3 DEF Unending
<1> HIDE DEF e, d
<1>8. CASE ~ found
  <2>1. d = Item(p, 0, 0, sz)
    BY <1>2, <1>3, <1>7, <1>8 DEF RawItem
  <2>2. /\ d \in MfrRecord /\ d.pkt = p /\ d.from = 0
        /\ \E n \in Nat : d.upto = 0 + n /\ n = (IF sz >= 240 THEN 240 ELSE sz)
    <3>1. 0 \in Int /\ 0 \in Nat
      OBVIOUS
    <3>2. ItemOf(d, p, 0, 0, sz)
      BY <2>1, <3>1, ItemRight, Zenon
    <3> QED BY <3>2 DEF ItemOf
  <2>3. d.upto <= sz
    BY <1>5, <2>2
  <2>4. RawRecordRight(d)
    BY <1>3, <2>2, <2>3 DEF RawRecordRight
  <2>5. RecordRight(d)
    <3>1. d.pkt = p
      BY <2>2
    <3> QED BY <1>8, <2>4, <3>1, Zenon DEF RecordRight
  <2> QED BY <2>2, <2>5 DEF d
<1>9. CASE found
  <2>1. d = IpItem(p, Size(p), L3(p))
    BY <1>2, <1>7, <1>9
  <2>2. l4 = l3 + 4 * hl /\ l3 = 14 + 4 * tg
    BY <1>3 DEF L4, L3, ETH_HLEN, VLAN_HLEN
  <2>3. ll <= 60 /\ (p.proto = "TCP" => ll = 4 * df)
    <3>1. CASE p.proto = "TCP"
      <4>1. ll = 4 * df
        BY <1>3, <3>1 DEF L4Len
      <4> QED BY <1>3, <4>1
    <3>2. CASE p.proto \in {"UDP", "ICMP"}
      BY <1>3, <3>2 DEF L4Len
    <3>3. CASE p.proto \notin {"TCP", "UDP", "ICMP"}
      BY <1>3, <3>3 DEF L4Len
    <3> QED BY <3>1, <3>2, <3>3
  <2>u. ULONG \in Nat /\ ULONG >= 2 * UINT16 /\ UINT16 \in Nat /\ UINT16 > 1000
    BY CapturesAssumption, UintFacts
  <2>4. IpChars(p) = 8 * hl
    <3>1. 4 * p.ihl - IP_HLEN = 4 * hl - 20 /\ 2 * IP_HLEN = 40
      BY <1>3 DEF IP_HLEN
    <3>2. PICK x \in Int : x = 4 * hl - 20 /\ x >= 0 /\ x < ULONG /\ 0 - ULONG <= x
      <4>1. hl >= 5 /\ hl <= 15
        BY <1>3, <1>u, <1>9
      <4> QED BY <2>u, <4>1
    <3>3. x % ULONG = x
      BY <2>u, <3>2, Unsigned
    <3>4. IpOptLen(p) = x
      BY <3>1, <3>2, <3>3 DEF IpOptLen
    <3>5. IpChars(p) = 40 + 2 * x
      BY <3>1, <3>4 DEF IpChars
    <3> QED BY <3>2, <3>5
  <2>5. L4Chars(p) \in Int /\ ((p.proto = "TCP" => df >= 5) => L4Chars(p) = 2 * ll)
    <3>1. PICK t \in Int : t = TcpOptLen(p) /\ (df >= 5 => t = 4 * df - 20)
      <4>1. TcpOptLen(p) = (4 * df - 20) % UINT16
        BY <1>3 DEF TcpOptLen
      <4>2. PICK v \in Int : v = 4 * df - 20 /\ v < UINT16 /\ 0 - UINT16 <= v
        BY <1>3, <2>u
      <4>3. v % UINT16 = IF v >= 0 THEN v ELSE v + UINT16
        BY <2>u, <4>2, Unsigned
      <4> QED BY <2>u, <4>1, <4>2, <4>3
    <3>2. TcpChars(p) = 40 + 2 * t
      BY <3>1 DEF TcpChars
    <3>3. UdpChars = 16 /\ IcmpChars = 16
      BY DEF UdpChars, IcmpChars
    <3>4. CASE p.proto = "TCP"
      <4>1. L4Chars(p) = 40 + 2 * t
        BY <3>2, <3>4 DEF L4Chars
      <4> QED BY <2>3, <3>1, <3>4, <4>1
    <3>5. CASE p.proto \in {"UDP", "ICMP"}
      <4>1. L4Chars(p) = 16 /\ ll = 8 /\ p.proto # "TCP"
        BY <1>3, <3>3, <3>5 DEF L4Chars, L4Len
      <4> QED BY <4>1
    <3>6. CASE p.proto \notin {"TCP", "UDP", "ICMP"}
      <4>1. L4Chars(p) = 0 /\ ll = 0
        BY <1>3, <3>6 DEF L4Chars, L4Len
      <4> QED BY <4>1
    <3> QED BY <3>4, <3>5, <3>6
  <2>6. PICK h \in Int : /\ h = IpChars(p) + L4Chars(p)
                        /\ ((p.proto = "TCP" => df >= 5) => h = 2 * (4 * hl + ll))
    BY <2>4, <2>5
  <2>7. PICK x \in Int : x = sz - 14 - 4 * hl - ll /\ x = (sz + 4 * tg) - (l4 + ll) /\ x < ULONG /\ 0 - ULONG <= x
                         /\ x + ULONG >= 240
    <3>1. sz < UINT16 /\ hl <= 15
      BY <1>3
    <3> QED BY <2>2, <2>3, <2>u, <3>1
  <2>8. PICK len \in Nat : len = DataLen(p, Size(p)) /\ len = (IF x >= 0 THEN x ELSE x + ULONG)
    <3>1. DataLen(p, Size(p)) = x % ULONG
      BY <1>3, <2>7 DEF DataLen, ETH_HLEN
    <3>2. x % ULONG = (IF x >= 0 THEN x ELSE x + ULONG)
      BY <2>7, <2>u, Unsigned
    <3>3. (IF x >= 0 THEN x ELSE x + ULONG) \in Nat
      BY <2>7, <2>u
    <3> QED BY <3>1, <3>2, <3>3
  <2>9. L3(p) + 4 * p.ihl + L4Len(p) = l4 + ll /\ l4 + ll \in Nat
    <3>1. L3(p) + 4 * p.ihl + L4Len(p) = l3 + 4 * hl + ll
      BY <1>3
    <3> QED BY <2>2, <3>1
  <2>10. d = Item(p, h, l4 + ll, len)
    <3>1. d = Item(p, IpChars(p) + L4Chars(p), L3(p) + 4 * p.ihl + L4Len(p), DataLen(p, Size(p)))
      BY <2>1, Zenon DEF IpItem
    <3>2. h = IpChars(p) + L4Chars(p) /\ len = DataLen(p, Size(p)) /\ L3(p) + 4 * p.ihl + L4Len(p) = l4 + ll
      BY <2>6, <2>8, <2>9, Zenon
    <3> QED BY <3>1, <3>2, Zenon
  <2>11. /\ d \in MfrRecord /\ d.pkt = p /\ d.header = h /\ d.from = l4 + ll
         /\ \E n \in Nat : d.upto = (l4 + ll) + n /\ n = (IF len >= 240 THEN 240 ELSE len)
    <3>1. l4 + ll \in Nat
      OBVIOUS
    <3>2. ItemOf(d, p, h, l4 + ll, len)
      BY <2>10, <3>1, ItemRight, Zenon
    <3> QED BY <3>2 DEF ItemOf
  <2>12. IF l4 + ll <= sz + 4 * tg THEN d.upto <= sz + 4 * tg ELSE d.upto = l4 + ll + 240
    <3>1. PICK ends \in Nat, last \in Nat : ends = l4 + ll /\ last = sz + 4 * tg
      OBVIOUS
    <3>2. PICK u \in Nat : u = d.upto /\ u = ends + (IF len >= 240 THEN 240 ELSE len)
      BY <1>5, <2>11, <3>1
    <3>3. x = last - ends
      BY <2>7, <3>1
    <3>4. CASE ends <= last
      <4>1. len = last - ends
        BY <2>8, <3>3, <3>4
      <4>2. u <= last
        BY <3>2, <4>1
      <4> QED BY <3>1, <3>2, <3>4, <4>2
    <3>5. CASE ~ (ends <= last)
      <4>1. len >= 240
        BY <2>7, <2>8, <2>u, <3>3, <3>5
      <4>2. u = ends + 240
        BY <3>2, <4>1
      <4> QED BY <3>1, <3>2, <3>5, <4>2
    <3> QED BY <3>4, <3>5
  <2>13. HoldsHeaders(p) => d.header = 2 * (4 * hl + ll)
    <3>1. HoldsHeaders(p) => (p.proto = "TCP" => p.doff >= 5)
      BY <1>9, Zenon DEF HoldsHeaders
    <3>2. HoldsHeaders(p) => (p.proto = "TCP" => df >= 5)
      BY <1>3, <3>1, Zenon
    <3>3. HoldsHeaders(p) => h = 2 * (4 * hl + ll)
      BY <2>6, <3>2, Zenon
    <3> QED BY <2>11, <3>3
  <2>14. VLAN_HLEN * Len(p.tags) = 4 * tg /\ 4 * p.ihl = 4 * hl
    BY <1>3 DEF VLAN_HLEN
  <2>15. IpRecordRight(d)
    <3>1. L4(d.pkt) + L4Len(d.pkt) = l4 + ll /\ Size(d.pkt) + VLAN_HLEN * Len(d.pkt.tags) = sz + 4 * tg
      BY <1>3, <2>11, <2>14
    <3>2. HoldsHeaders(d.pkt) => d.header = 2 * (4 * d.pkt.ihl + L4Len(d.pkt))
      BY <1>3, <2>11, <2>13, <2>14
    <3>3. d.from = l4 + ll
      BY <2>11
    <3>4. IF l4 + ll <= sz + 4 * tg THEN d.upto <= sz + 4 * tg ELSE d.upto = l4 + ll + PAYLOAD \div 2
      BY <1>5, <2>12
    <3> QED BY <3>1, <3>2, <3>3, <3>4, Zenon DEF IpRecordRight
  <2>16. RecordRight(d)
    <3>1. d.pkt = p
      BY <2>11
    <3> QED BY <1>9, <2>15, <3>1, Zenon DEF RecordRight
  <2> QED BY <2>11, <2>16 DEF d
<1> QED BY <1>8, <1>9

\* How much is parsed.
LEMMA NeedFacts ==
  ASSUME mfrSlot \in Captures
  PROVE  /\ mfrSlot \in Seq(CapturedPackets) /\ Len(mfrSlot) \in Nat /\ batch_size * Group \in Nat
         /\ need_parse_cnt \in Nat /\ need_parse_cnt <= Len(mfrSlot) /\ need_parse_cnt <= Group * batch_size
         /\ need_parse_cnt = Group * batch_size \/ need_parse_cnt = Len(mfrSlot)
<1>1. mfrSlot \in Seq(CapturedPackets)
  BY CapturesAssumption
<1>2. PICK c \in Nat : c = Len(mfrSlot)
  BY <1>1
<1>3. PICK m \in Nat : m = batch_size * Group /\ m = Group * batch_size
  BY CapturesAssumption
<1> QED BY <1>1, <1>2, <1>3 DEF need_parse_cnt

\* The items of a batch: as many groups as there are, then zero items.
LEMMA BatchFacts ==
  ASSUME NEW ds \in Seq(MfrRecord), Len(ds) <= Group * batch_size
  PROVE  LET q == Len(ds) \div Group
             l == Groups(ds) \o Padding(Len(Groups(ds))) IN
         /\ q \in 0 .. batch_size /\ Len(l) = batch_size /\ DOMAIN l = 1 .. batch_size
         /\ \A k \in 1 .. batch_size : Chars(l[k]) = Group * (HEADER + PAYLOAD)
         /\ \A k \in 1 .. batch_size : l[k] = Zeros <=> k > q
<1> DEFINE q == Len(ds) \div Group
           gs == Groups(ds)
           ps == Padding(Len(gs))
           l == gs \o ps
           Zero == [chars |-> HEADER + PAYLOAD]
           Items == Seq(MfrRecord \cup {Zero})
<1>1. Group \in Nat \ {0} /\ batch_size \in Nat \ {0} /\ HEADER + PAYLOAD = 640
  BY CapturesAssumption DEF HEADER, PAYLOAD
<1>2. PICK c \in Nat : c = Len(ds)
  OBVIOUS
<1>3. q \in Nat /\ q <= batch_size /\ Group * q <= c
  <2>1. c \div Group \in Nat /\ Group * (c \div Group) <= c
    BY <1>1, <1>2, DivFacts
  <2>2. c \div Group <= batch_size
    BY <1>1, <1>2, DivBound
  <2> QED BY <1>2, <2>1, <2>2
<1>4. Zero \notin MfrRecord
  <2>1. DOMAIN Zero = {"chars"} /\ \A r \in MfrRecord : "pkt" \in DOMAIN r
    BY DEF MfrRecord
  <2>2. "pkt" \notin {"chars"}
    OBVIOUS
  <2> QED BY <2>1, <2>2, Zenon
<1>5. gs = [k \in 1 .. q |-> SubSeq(ds, Group * (k - 1) + 1, Group * k)]
  BY DEF Groups
<1>6. Zeros = [j \in 1 .. Group |-> Zero]
  BY DEF Zeros
<1> HIDE DEF q, gs, Zero
<1>7. ASSUME NEW k \in 1 .. q
      PROVE  /\ gs[k] \in Seq(MfrRecord) /\ Len(gs[k]) = Group
  <2>1. PICK a \in Nat : a = Group * (k - 1)
    BY <1>1, <1>3
  <2>2. Group * k = a + Group
    BY <1>1, <1>3, <2>1
  <2>3. Group * k <= c
    <3>1. Group * k <= Group * q
      BY <1>1, <1>3, MulGrows
    <3>2. Group * k \in Nat /\ Group * q \in Nat
      BY <1>1, <1>3
    <3> QED BY <1>3, <3>1, <3>2
  <2>4. gs[k] = SubSeq(ds, a + 1, a + Group)
    BY <1>5, <2>1, <2>2
  <2>5. a + Group <= Len(ds) /\ a + 1 \in 1 .. Len(ds) + 1 /\ a + Group \in a .. Len(ds) /\ a + Group \in Nat
    BY <1>1, <1>2, <2>2, <2>3
  <2>6. SubSeq(ds, a + 1, a + Group) = [j \in 1 .. (1 + (a + Group) - (a + 1)) |-> ds[(a + 1) + j - 1]]
    BY <2>5
  <2>7. 1 + (a + Group) - (a + 1) = Group /\ \A j \in 1 .. Group : (a + 1) + j - 1 = a + j /\ a + j \in 1 .. Len(ds)
    BY <1>1, <2>5
  <2>8. gs[k] = [j \in 1 .. Group |-> ds[(a + 1) + j - 1]] /\ \A j \in 1 .. Group : ds[(a + 1) + j - 1] \in MfrRecord
    <3>1. \A j \in 1 .. Group : ds[(a + 1) + j - 1] \in MfrRecord
      BY <2>7
    <3> QED BY <2>4, <2>6, <2>7, <3>1
  <2>9. gs[k] \in [1 .. Group -> MfrRecord]
    BY <2>8
  <2>10. Group \in Nat
    BY <1>1
  <2> QED BY <2>9, <2>10, FunctionIsSeq, Zenon
<1>8. /\ Zeros \in Seq({Zero}) /\ Len(Zeros) = Group /\ \A j \in 1 .. Group : Zeros[j] = Zero
  <2>1. Zeros \in [1 .. Group -> {Zero}]
    BY <1>6
  <2> QED BY <1>1, <1>6, <2>1, FunctionIsSeq
<1>9. gs \in Seq(Items) /\ Len(gs) = q
  <2>1. \A k \in 1 .. q : gs[k] \in Items
    BY <1>7
  <2> HIDE DEF Items
  <2>2. gs \in [1 .. q -> Items]
    BY <1>5, <2>1
  <2> QED BY <1>3, <2>2, FunctionIsSeq
<1>10. ps \in Seq(Items) /\ Len(ps) = batch_size - q /\ \A k \in 1 .. batch_size - q : ps[k] = Zeros
  <2>1. Zeros \in Items
    BY <1>8
  <2>2. ps = [k \in 1 .. batch_size - q |-> Zeros]
    BY <1>9 DEF Padding
  <2> HIDE DEF Items
  <2>3. ps \in [1 .. batch_size - q -> Items] /\ batch_size - q \in Nat
    BY <1>1, <1>3, <2>1, <2>2
  <2> QED BY <2>2, <2>3, FunctionIsSeq
<1> HIDE DEF ps, Items
<1>11. /\ l \in Seq(Items) /\ Len(l) = Len(gs) + Len(ps)
       /\ \A k \in 1 .. Len(gs) : l[k] = gs[k]
       /\ \A k \in 1 .. Len(ps) : l[Len(gs) + k] = ps[k]
  BY <1>9, <1>10, Concat
<1> HIDE DEF l
<1>12. Len(l) = batch_size /\ DOMAIN l = 1 .. batch_size
  BY <1>1, <1>3, <1>9, <1>10, <1>11
<1>13. ASSUME NEW k \in 1 .. batch_size
       PROVE  /\ k <= q => l[k] \in Seq(MfrRecord) /\ Len(l[k]) = Group
              /\ k > q => l[k] = Zeros
  <2>1. CASE k <= q
    <3>1. k \in 1 .. q
      BY <1>3, <2>1
    <3>2. l[k] = gs[k]
      BY <1>9, <1>11, <3>1
    <3> QED BY <1>3, <1>7, <2>1, <3>1, <3>2
  <2>2. CASE k > q
    <3>1. k - q \in 1 .. batch_size - q /\ q + (k - q) = k /\ ~ (k <= q)
      BY <1>1, <1>3, <2>2
    <3>2. l[q + (k - q)] = ps[k - q]
      BY <1>9, <1>10, <1>11, <3>1
    <3> QED BY <1>10, <3>1, <3>2
  <2> QED BY <1>1, <1>3, <2>1, <2>2
<1>14. ASSUME NEW x, NEW T, x \in Seq(T), Len(x) = Group, \A r \in T : r.chars = HEADER + PAYLOAD
       PROVE  Chars(x) = Group * (HEADER + PAYLOAD)
  <2> DEFINE f == [j \in DOMAIN x |-> x[j].chars]
  <2>1. \A j \in 1 .. Group : f[j] = 640
    BY <1>1, <1>14
  <2>2. SumTo(f, Group) = Group * 640
    <3> HIDE DEF f
    <3> QED BY <1>1, <2>1, SumConst
  <2> QED BY <1>1, <1>14, <2>2 DEF Chars
<1>15. ASSUME NEW k \in 1 .. batch_size PROVE Chars(l[k]) = Group * (HEADER + PAYLOAD)
  <2>1. CASE k <= q
    <3>1. \A r \in MfrRecord : r.chars = HEADER + PAYLOAD
      BY DEF MfrRecord
    <3> QED BY <1>13, <1>14, <2>1, <3>1
  <2>2. CASE k > q
    <3>1. \A r \in {Zero} : r.chars = HEADER + PAYLOAD
      BY DEF Zero
    <3> QED BY <1>8, <1>13, <1>14, <2>2, <3>1
  <2> QED BY <1>1, <1>3, <2>1, <2>2
<1>16. ASSUME NEW k \in 1 .. batch_size PROVE l[k] = Zeros <=> k > q
  <2>1. CASE k <= q
    <3>1. l[k] \in Seq(MfrRecord) /\ Len(l[k]) = Group /\ 1 \in 1 .. Group
      BY <1>1, <1>13, <2>1
    <3>2. l[k][1] \in MfrRecord /\ Zeros[1] = Zero
      BY <1>8, <3>1
    <3>3. l[k] # Zeros
      BY <1>4, <3>2
    <3> QED BY <1>1, <1>3, <2>1, <3>3
  <2>2. CASE k > q
    BY <1>13, <2>2
  <2> QED BY <1>1, <1>3, <2>1, <2>2
<1>17. q \in 0 .. batch_size
  BY <1>1, <1>3
<1> QED BY <1>12, <1>15, <1>16, <1>17 DEF q, l, gs, ps

\* max_element finds the first of the labels given most often.
LEMMA FirstMost ==
  ASSUME NEW n \in Nat \ {0}, NEW B \in Nat, NEW V, \A m \in 0 .. n - 1 : V[m] \in 0 .. B
  PROVE  \E l \in 0 .. n - 1 : \A m \in 0 .. n - 1 : IF m < l THEN V[m] < V[l] ELSE V[m] <= V[l]
<1> DEFINE S == {V[m] : m \in 0 .. n - 1}
<1>1. S \subseteq 0 .. B /\ S # {}
  <2>1. 0 \in 0 .. n - 1
    OBVIOUS
  <2> QED BY <2>1
<1>2. PICK x \in S : \A y \in S : y <= x
  BY <1>1, LargestOf
<1> DEFINE T == {m \in 0 .. n - 1 : V[m] = x}
<1>3. T \subseteq Nat /\ T # {}
  BY <1>2
<1>4. PICK l \in T : \A y \in T : l <= y
  BY <1>3, LeastOf
<1>5. ASSUME NEW m \in 0 .. n - 1
      PROVE  IF m < l THEN V[m] < V[l] ELSE V[m] <= V[l]
  <2>1. V[l] = x /\ V[m] <= x /\ V[m] \in Nat /\ x \in Nat
    BY <1>1, <1>2, <1>4
  <2>2. m < l => V[m] # x
    BY <1>4
  <2> QED BY <2>1, <2>2
<1> QED BY <1>4, <1>5

\* A label that more than half of the items have wins.
LEMMA MajorityWins ==
  ASSUME model_output \in [1 .. batch_size -> 0 .. Labels - 1]
  PROVE  LET won == CHOOSE l \in 0 .. Labels - 1 :
                      \A m \in 0 .. Labels - 1 : IF m < l THEN Votes(m) < Votes(l) ELSE Votes(m) <= Votes(l)
         IN  \A l \in 0 .. Labels - 1 : 2 * Cardinality({k \in 1 .. batch_size : model_output[k] = l}) > batch_size => won = l
<1> DEFINE First(l) == \A m \in 0 .. Labels - 1 : IF m < l THEN Votes(m) < Votes(l) ELSE Votes(m) <= Votes(l)
           won == CHOOSE l \in 0 .. Labels - 1 : First(l)
           Of(l) == {k \in 1 .. batch_size : model_output[k] = l}
           V == [m \in 0 .. Labels - 1 |-> Votes(m)]
<1>1. batch_size \in Nat /\ Labels \in Nat \ {0}
  BY CapturesAssumption
<1>2. \A l : Votes(l) = Cardinality(Of(l)) /\ Of(l) \subseteq 1 .. batch_size
  BY DEF Votes
<1>3. IsFiniteSet(1 .. batch_size) /\ Cardinality(1 .. batch_size) = batch_size
  BY <1>1, FS_Interval
<1> HIDE DEF Of
<1>4. \A l : IsFiniteSet(Of(l)) /\ Votes(l) \in Nat /\ Votes(l) <= batch_size
  BY <1>1, <1>2, <1>3, FS_Subset, Counting
<1>5. \E l \in 0 .. Labels - 1 : First(l)
  <2>1. \A m \in 0 .. Labels - 1 : V[m] = Votes(m) /\ V[m] \in 0 .. batch_size
    BY <1>1, <1>4
  <2> HIDE DEF V
  <2>2. PICK l \in 0 .. Labels - 1 : \A m \in 0 .. Labels - 1 : IF m < l THEN V[m] < V[l] ELSE V[m] <= V[l]
    BY <1>1, <2>1, FirstMost
  <2>3. First(l)
    BY <2>1, <2>2
  <2> QED BY <2>3
<1>6. won \in 0 .. Labels - 1 /\ First(won)
  <2> HIDE DEF First
  <2> QED BY <1>5
<1> HIDE DEF won
<1>7. ASSUME NEW l \in 0 .. Labels - 1, 2 * Cardinality(Of(l)) > batch_size
      PROVE  won = l
  <2> SUFFICES ASSUME won # l PROVE FALSE
    OBVIOUS
  <2>1. Votes(l) <= Votes(won)
    BY <1>4, <1>6
  <2>2. Of(l) \cap Of(won) = {}
    BY DEF Of
  <2>3. Cardinality(Of(l) \cup Of(won)) = Cardinality(Of(l)) + Cardinality(Of(won)) - Cardinality({})
    BY <1>4, <2>2, FS_Union
  <2>4. Cardinality({}) = 0
    BY FS_EmptySet
  <2>5. Cardinality(Of(l) \cup Of(won)) <= batch_size
    <3>1. Of(l) \cup Of(won) \subseteq 1 .. batch_size
      BY <1>2
    <3> QED BY <1>3, <3>1, FS_Subset
  <2>6. PICK a \in Nat, b \in Nat : a = Cardinality(Of(l)) /\ b = Cardinality(Of(won))
    BY <1>2, <1>4
  <2>7. a <= b /\ 2 * a > batch_size /\ a + b <= batch_size
    BY <1>2, <1>7, <2>1, <2>3, <2>4, <2>5, <2>6
  <2> QED BY <1>1, <2>7
<1> QED BY <1>7 DEF Of, won

\* The invariant gives the properties.
LEMMA MfrInvGives == MfrInv => BatchRight
<1> SUFFICES ASSUME MfrInv PROVE BatchRight
  OBVIOUS
<1>1. PayloadAfterHeaders /\ MajorityDecides
  BY DEF MfrInv
<1>2. /\ mfrSlot \in Captures /\ mfr_data \in Seq(MfrRecord) /\ Len(mfr_data) = mfrIndex
      /\ mfrIndex \in 0 .. need_parse_cnt
  BY DEF MfrInv
<1>3. /\ need_parse_cnt \in Nat /\ need_parse_cnt <= Group * batch_size /\ Len(mfrSlot) \in Nat
      /\ need_parse_cnt = Group * batch_size \/ need_parse_cnt = Len(mfrSlot)
  BY <1>2, NeedFacts
<1>4. batch_size \in Nat \ {0} /\ Group \in Nat \ {0}
  BY CapturesAssumption
<1>5. Len(mfr_data) <= Group * batch_size /\ Group * batch_size \in Nat
  BY <1>2, <1>3, <1>4
<1> DEFINE q == Len(mfr_data) \div Group
           l == Groups(mfr_data) \o Padding(Len(Groups(mfr_data)))
<1>6. /\ q \in 0 .. batch_size /\ Len(l) = batch_size /\ DOMAIN l = 1 .. batch_size
      /\ \A k \in 1 .. batch_size : Chars(l[k]) = Group * (HEADER + PAYLOAD)
      /\ \A k \in 1 .. batch_size : l[k] = Zeros <=> k > q
  BY <1>2, <1>5, BatchFacts
<1>7. mfrPhase \in {"infer", "vote", "done"} =>
                            \/ source = "pcap" /\ mfr_bytes_list = << >>
                            \/ mfrIndex = need_parse_cnt /\ mfr_bytes_list = l
  BY DEF MfrInv
<1> HIDE DEF l
<1>8. BatchFitsBuffer
  <2> SUFFICES ASSUME mfrPhase \in {"infer", "vote", "done"}
               PROVE  /\ Len(mfr_bytes_list) = batch_size \/ (source = "pcap" /\ mfr_bytes_list = << >>)
                      /\ \A k \in DOMAIN mfr_bytes_list : Chars(mfr_bytes_list[k]) = Group * (HEADER + PAYLOAD)
    BY DEF BatchFitsBuffer
  <2>1. CASE source = "pcap" /\ mfr_bytes_list = << >>
    BY <2>1
  <2>2. CASE mfr_bytes_list = l
    BY <1>6, <2>2
  <2> QED BY <1>7, <2>1, <2>2
<1>9. FewLeftOut
  <2> SUFFICES ASSUME mfrPhase = "infer", mfr_bytes_list # << >>
               PROVE  LET real == Cardinality({k \in DOMAIN mfr_bytes_list : mfr_bytes_list[k] # Zeros}) IN
                      real = batch_size \/ Len(mfrSlot) - Group * real \in 0 .. Group - 1
    BY DEF FewLeftOut
  <2>1. mfrIndex = need_parse_cnt /\ mfr_bytes_list = l
    <3>1. mfrPhase \in {"infer", "vote", "done"}
      OBVIOUS
    <3> QED BY <1>7, <3>1
  <2>2. PICK n \in Nat : n = q
    BY <1>6
  <2>3. {k \in DOMAIN mfr_bytes_list : mfr_bytes_list[k] # Zeros} = 1 .. n
    <3>1. \A k \in 1 .. batch_size : k > n <=> ~ (k <= n)
      BY <1>4
    <3>2. n <= batch_size
      BY <1>6, <2>2
    <3> QED BY <1>4, <1>6, <2>1, <2>2, <3>1, <3>2
  <2>4. Cardinality(1 .. n) = n
    BY FS_Interval
  <2>5. n = batch_size \/ Len(mfrSlot) - Group * n \in 0 .. Group - 1
    <3>1. CASE need_parse_cnt = Group * batch_size
      <4>1. n = (Group * batch_size) \div Group
        BY <1>2, <2>1, <2>2, <3>1
      <4> QED BY <1>4, <4>1, DivExact
    <3>2. CASE need_parse_cnt = Len(mfrSlot)
      <4>1. PICK c \in Nat : c = Len(mfrSlot)
        BY <1>3
      <4>2. n = c \div Group
        BY <1>2, <2>1, <2>2, <3>2, <4>1
      <4>3. Group * n <= c /\ c < Group * n + Group
        BY <1>4, <4>2, DivFacts
      <4>4. Group * n \in Nat
        BY <1>4
      <4>5. c - Group * n \in 0 .. Group - 1
        BY <1>4, <4>3, <4>4
      <4> QED BY <4>1, <4>5
    <3> QED BY <1>3, <3>1, <3>2
  <2> QED BY <2>3, <2>4, <2>5
<1> QED BY <1>1, <1>8, <1>9 DEF BatchRight

\* One more packet.
LEMMA RecordNext ==
  ASSUME MfrInv, NEW n \in Nat, n = mfrIndex, n < need_parse_cnt, UNCHANGED <<source, mfrSlot, mfrPhase, mfr_bytes_list, model_output, label>>,
         mfr_data' = Append(mfr_data, parse_mfr_features(mfrSlot[n + 1], Size(mfrSlot[n + 1]))), mfrIndex' = n + 1,
         ~ Unending(mfrSlot[n + 1])
  PROVE  /\ mfr_data' \in Seq(MfrRecord) /\ Len(mfr_data') = mfrIndex' /\ mfrIndex' \in 0 .. need_parse_cnt'
         /\ PayloadAfterHeaders'
<1> DEFINE p == mfrSlot[n + 1]
           d == parse_mfr_features(p, Size(p))
<1>1. mfrSlot \in Captures /\ mfr_data \in Seq(MfrRecord) /\ Len(mfr_data) = n /\ PayloadAfterHeaders
  BY DEF MfrInv
<1>2. mfrSlot \in Seq(CapturedPackets) /\ Len(mfrSlot) \in Nat /\ need_parse_cnt \in Nat /\ need_parse_cnt <= Len(mfrSlot)
  BY <1>1, NeedFacts
<1>3. n + 1 \in 1 .. Len(mfrSlot)
  BY <1>2
<1>4. p \in CapturedPackets
  BY <1>2, <1>3
<1>5. d \in MfrRecord /\ RecordRight(d)
  BY <1>4, ItemFacts
<1>6. mfr_data' = Append(mfr_data, d)
  OBVIOUS
<1>7. need_parse_cnt' = need_parse_cnt
  BY DEF need_parse_cnt
<1> HIDE DEF d
<1>8. /\ mfr_data' \in Seq(MfrRecord) /\ Len(mfr_data') = n + 1 /\ DOMAIN mfr_data' = 1 .. n + 1
      /\ mfr_data'[n + 1] = d /\ \A k \in 1 .. n : mfr_data'[k] = mfr_data[k]
  BY <1>1, <1>5, <1>6
<1>9. ASSUME NEW k \in 1 .. n + 1 PROVE RecordRight(mfr_data'[k])
  <2>1. CASE k = n + 1
    BY <1>5, <1>8, <2>1
  <2>2. CASE k # n + 1
    <3>1. k \in 1 .. n /\ k \in DOMAIN mfr_data
      BY <1>1, <2>2
    <3>2. mfr_data'[k] = mfr_data[k]
      BY <1>8, <3>1
    <3> QED BY <1>1, <3>1, <3>2 DEF PayloadAfterHeaders
  <2> QED BY <2>1, <2>2
<1>10. PayloadAfterHeaders'
  <2>1. \A k : RecordRight(mfr_data[k])' <=> RecordRight(mfr_data'[k])
    BY DEF RecordRight, RawRecordRight, IpRecordRight, HoldsHeaders, Size, L3, L4, L4Len
  <2> QED BY <1>8, <1>9, <2>1 DEF PayloadAfterHeaders
<1> QED BY <1>2, <1>7, <1>8, <1>10

LEMMA MfrInvInit == MfrInit => MfrInv
<1> SUFFICES ASSUME MfrInit PROVE MfrInv
  OBVIOUS
<1>1. /\ source \in {"slot", "pcap"} /\ mfrSlot \in Captures /\ mfrPhase = "parse" /\ mfrIndex = 0 /\ mfrOffset = 0
      /\ mfrLen = PktLenAt(mfrSlot, 0) /\ mfr_data = << >> /\ mfr_bytes_list = << >>
  BY DEF MfrInit
<1>2. mfrSlot \in Seq(CapturedPackets) /\ need_parse_cnt \in Nat
  BY <1>1, NeedFacts
<1>3. Start(mfrSlot, 1) = 0
  BY <1>2, StartFacts, CapturesAssumption
<1>4. mfr_data \in Seq(MfrRecord) /\ Len(mfr_data) = 0 /\ DOMAIN mfr_data = {}
  BY <1>1
<1>5. PayloadAfterHeaders /\ MajorityDecides
  <2>1. mfrPhase # "done"
    BY <1>1
  <2> QED BY <1>4, <2>1 DEF PayloadAfterHeaders, MajorityDecides
<1>6. mfrIndex + 1 = 1 /\ mfrIndex \in 0 .. need_parse_cnt
  BY <1>1, <1>2
<1>7. mfrOffset = Start(mfrSlot, mfrIndex + 1) /\ mfrLen = PktLenAt(mfrSlot, mfrOffset)
  BY <1>1, <1>3, <1>6
<1>8. mfrPhase \in {"parse", "fault", "infer", "vote", "done"} /\ mfrPhase \notin {"vote", "done"}
  BY <1>1
<1> QED BY <1>1, <1>4, <1>5, <1>6, <1>7, <1>8 DEF MfrInv

LEMMA MfrInvStep == MfrInv /\ [MfrNext]_mfrVars => MfrInv'
<1> SUFFICES ASSUME MfrInv, [MfrNext]_mfrVars PROVE MfrInv'
  OBVIOUS
<1>1. /\ source \in {"slot", "pcap"} /\ mfrSlot \in Captures /\ mfrIndex \in 0 .. need_parse_cnt
      /\ mfr_data \in Seq(MfrRecord) /\ Len(mfr_data) = mfrIndex /\ PayloadAfterHeaders
      /\ mfrPhase \in {"parse", "fault", "infer", "vote", "done"}
      /\ mfrPhase = "parse" => mfr_bytes_list = << >>
      /\ mfrPhase = "parse" /\ source = "slot" =>
           mfrOffset = Start(mfrSlot, mfrIndex + 1) /\ mfrLen = PktLenAt(mfrSlot, mfrOffset)
      /\ mfrPhase \in {"infer", "vote", "done"} =>
           \/ source = "pcap" /\ mfr_bytes_list = << >>
           \/ /\ mfrIndex = need_parse_cnt
              /\ mfr_bytes_list = Groups(mfr_data) \o Padding(Len(Groups(mfr_data)))
      /\ mfrPhase \in {"vote", "done"} => model_output \in [1 .. batch_size -> 0 .. Labels - 1]
      /\ MajorityDecides
  BY DEF MfrInv
<1>2. UNCHANGED <<source, mfrSlot>>
  BY DEF MfrNext, MfrSlotPacket, MfrPcapPacket, MfrFault, PcapOpenFails, get_mfr_bytes, Infer, get_label_from_infer_ret, mfrVars
<1>3. /\ mfrSlot \in Seq(CapturedPackets) /\ Len(mfrSlot) \in Nat /\ need_parse_cnt \in Nat
      /\ need_parse_cnt <= Len(mfrSlot) /\ \A p \in CapturedPackets : IsPacket(p)
  BY <1>1, NeedFacts, CapturesAssumption
<1>4. need_parse_cnt' = need_parse_cnt
  BY <1>2 DEF need_parse_cnt
<1>5. mfrIndex \in Nat
  BY <1>1, <1>3
<1>6. UNCHANGED mfr_data => PayloadAfterHeaders'
  BY <1>1 DEF PayloadAfterHeaders, RecordRight, RawRecordRight, IpRecordRight, HoldsHeaders, Size, L3, L4, L4Len
<1>7. UNCHANGED mfr_data => /\ (Groups(mfr_data) \o Padding(Len(Groups(mfr_data))))' = Groups(mfr_data) \o Padding(Len(Groups(mfr_data)))
  BY DEF Groups, Padding, Zeros
<1>8. CASE MfrSlotPacket
  <2>1. /\ mfrPhase = "parse" /\ source = "slot" /\ mfrIndex < need_parse_cnt
        /\ mfr_data' = Append(mfr_data, parse_mfr_features(BodyAt(mfrSlot, mfrOffset + 2), mfrLen))
        /\ ~ Unending(BodyAt(mfrSlot, mfrOffset + 2))
        /\ mfrOffset' = mfrOffset + 2 + mfrLen /\ mfrLen' = PktLenAt(mfrSlot, mfrOffset') /\ mfrIndex' = mfrIndex + 1
        /\ UNCHANGED <<source, mfrSlot, mfrPhase, mfr_bytes_list, model_output, label>>
    BY <1>8 DEF MfrSlotPacket
  <2>2. PICK n \in Nat : n = mfrIndex
    BY <1>5
  <2>3. n + 1 \in 1 .. Len(mfrSlot) /\ n < need_parse_cnt
    BY <1>3, <2>1, <2>2
  <2>4. mfrOffset = Start(mfrSlot, n + 1) /\ mfrLen = PktLenAt(mfrSlot, Start(mfrSlot, n + 1))
    BY <1>1, <2>1, <2>2
  <2>5. PktLenAt(mfrSlot, Start(mfrSlot, n + 1)) = Size(mfrSlot[n + 1]) /\ BodyAt(mfrSlot, Start(mfrSlot, n + 1) + 2) = mfrSlot[n + 1]
    BY <1>3, <2>3, ReadAtStart
  <2>6. /\ mfr_data' = Append(mfr_data, parse_mfr_features(mfrSlot[n + 1], Size(mfrSlot[n + 1])))
        /\ ~ Unending(mfrSlot[n + 1])
    BY <2>1, <2>4, <2>5
  <2>7. mfrOffset' = Start(mfrSlot, (n + 1) + 1)
    <3>1. Start(mfrSlot, (n + 1) + 1) = Start(mfrSlot, n + 1) + 2 + Size(mfrSlot[n + 1])
      BY <1>3, <2>3, StartFacts
    <3> QED BY <2>1, <2>4, <2>5, <3>1
  <2>8. /\ mfr_data' \in Seq(MfrRecord) /\ Len(mfr_data') = mfrIndex' /\ mfrIndex' \in 0 .. need_parse_cnt'
        /\ PayloadAfterHeaders'
    <3>1. mfrIndex' = n + 1
      BY <2>1, <2>2
    <3> QED BY <2>1, <2>2, <2>3, <2>6, <3>1, RecordNext
  <2>9. mfrOffset' = Start(mfrSlot, mfrIndex + 1)' /\ mfrLen' = PktLenAt(mfrSlot, mfrOffset)'
    <3>1. mfrIndex' + 1 = (n + 1) + 1
      BY <2>1, <2>2
    <3>2. mfrOffset' = Start(mfrSlot, mfrIndex + 1)'
      BY <1>2, <2>7, <3>1 DEF Start
    <3>3. mfrLen' = PktLenAt(mfrSlot, mfrOffset)'
      BY <1>2, <2>1 DEF PktLenAt, Aligned, Start
    <3> QED BY <3>2, <3>3
  <2>10. mfrPhase' = "parse" /\ mfrPhase' \notin {"vote", "done"} /\ mfrPhase' \in {"parse", "fault", "infer", "vote", "done"}
    BY <2>1
  <2>11. MajorityDecides'
    BY <2>10 DEF MajorityDecides
  <2>12. source' \in {"slot", "pcap"} /\ mfrSlot' \in Captures /\ mfr_bytes_list' = << >>
    BY <1>1, <1>2, <2>1
  <2> QED BY <2>8, <2>9, <2>10, <2>11, <2>12 DEF MfrInv
<1>9. CASE MfrPcapPacket
  <2>1. /\ mfrPhase = "parse" /\ source = "pcap" /\ mfrIndex < need_parse_cnt
        /\ mfr_data' = Append(mfr_data, parse_mfr_features(mfrSlot[mfrIndex + 1], Size(mfrSlot[mfrIndex + 1])))
        /\ mfrIndex' = mfrIndex + 1 /\ ~ Unending(mfrSlot[mfrIndex + 1])
        /\ UNCHANGED <<source, mfrSlot, mfrPhase, mfr_bytes_list, model_output, label>>
    BY <1>9 DEF MfrPcapPacket, parse_mfr_features_pcap
  <2>2. PICK n \in Nat : n = mfrIndex
    BY <1>5
  <2>3. /\ mfr_data' \in Seq(MfrRecord) /\ Len(mfr_data') = mfrIndex' /\ mfrIndex' \in 0 .. need_parse_cnt'
        /\ PayloadAfterHeaders'
    <3>1. mfrIndex' = n + 1 /\ mfr_data' = Append(mfr_data, parse_mfr_features(mfrSlot[n + 1], Size(mfrSlot[n + 1]))) /\ n < need_parse_cnt
          /\ ~ Unending(mfrSlot[n + 1])
      BY <2>1, <2>2
    <3> QED BY <2>1, <2>2, <3>1, RecordNext
  <2>4. mfrPhase' = "parse" /\ mfrPhase' \notin {"vote", "done"} /\ mfrPhase' \in {"parse", "fault", "infer", "vote", "done"} /\ source' # "slot"
    BY <2>1
  <2>5. MajorityDecides'
    BY <2>4 DEF MajorityDecides
  <2>6. source' \in {"slot", "pcap"} /\ mfrSlot' \in Captures /\ mfr_bytes_list' = << >>
    BY <1>1, <1>2, <2>1
  <2> QED BY <2>3, <2>4, <2>5, <2>6 DEF MfrInv
<1>10. CASE PcapOpenFails
  <2>1. mfrPhase = "parse" /\ source = "pcap" /\ mfrPhase' = "infer" /\ UNCHANGED <<mfrIndex, mfr_data, mfr_bytes_list>>
    BY <1>10 DEF PcapOpenFails
  <2>2. MajorityDecides'
    BY <2>1 DEF MajorityDecides
  <2>3. mfr_bytes_list' = << >> /\ source' = "pcap" /\ mfrPhase' # "parse" /\ mfrPhase' \notin {"vote", "done"}
    BY <1>1, <1>2, <2>1
  <2> QED BY <1>1, <1>2, <1>4, <1>6, <2>1, <2>2, <2>3 DEF MfrInv
<1>11. CASE get_mfr_bytes
  <2>1. /\ mfrPhase = "parse" /\ mfrIndex = need_parse_cnt /\ mfrPhase' = "infer" /\ UNCHANGED <<mfrIndex, mfr_data>>
        /\ mfr_bytes_list' = Groups(mfr_data) \o Padding(Len(Groups(mfr_data)))
    BY <1>11 DEF get_mfr_bytes
  <2>2. MajorityDecides'
    BY <2>1 DEF MajorityDecides
  <2>3. mfr_bytes_list' = (Groups(mfr_data) \o Padding(Len(Groups(mfr_data))))' /\ mfrIndex' = need_parse_cnt'
    BY <1>4, <1>7, <2>1
  <2>4. mfrPhase' # "parse" /\ mfrPhase' \notin {"vote", "done"}
    BY <2>1
  <2> QED BY <1>1, <1>2, <1>4, <1>6, <2>1, <2>2, <2>3, <2>4 DEF MfrInv
<1>12. CASE Infer
  <2>1. /\ mfrPhase = "infer" /\ mfrPhase' = "vote" /\ UNCHANGED <<mfrIndex, mfr_data, mfr_bytes_list>>
        /\ model_output' \in [1 .. batch_size -> 0 .. Labels - 1]
    BY <1>12 DEF Infer
  <2>2. MajorityDecides'
    BY <2>1 DEF MajorityDecides
  <2>3. mfrPhase # "parse" /\ mfrPhase' # "parse"
    BY <2>1
  <2> QED BY <1>1, <1>2, <1>4, <1>6, <1>7, <2>1, <2>2, <2>3 DEF MfrInv
<1>13. CASE get_label_from_infer_ret
  <2>1. /\ mfrPhase = "vote" /\ mfrPhase' = "done" /\ UNCHANGED <<mfrIndex, mfr_data, mfr_bytes_list, model_output>>
        /\ label' = CHOOSE l \in 0 .. Labels - 1 :
             \A m \in 0 .. Labels - 1 : IF m < l THEN Votes(m) < Votes(l) ELSE Votes(m) <= Votes(l)
    BY <1>13 DEF get_label_from_infer_ret
  <2>2. model_output \in [1 .. batch_size -> 0 .. Labels - 1]
    BY <1>1, <2>1
  <2>3. \A l \in 0 .. Labels - 1 : 2 * Cardinality({k \in 1 .. batch_size : model_output[k] = l}) > batch_size => label' = l
    BY <2>1, <2>2, MajorityWins
  <2>4. MajorityDecides'
    BY <2>1, <2>3 DEF MajorityDecides
  <2>5. mfrPhase # "parse" /\ mfrPhase' # "parse"
    BY <2>1
  <2> QED BY <1>1, <1>2, <1>4, <1>6, <1>7, <2>1, <2>2, <2>4, <2>5 DEF MfrInv
<1>15. CASE MfrFault
  <2>1. mfrPhase = "parse" /\ mfrPhase' = "fault" /\ UNCHANGED <<mfrIndex, mfr_data, mfr_bytes_list>>
    BY <1>15 DEF MfrFault
  <2>2. MajorityDecides'
    BY <2>1 DEF MajorityDecides
  <2>3. mfrPhase' # "parse" /\ mfrPhase' \notin {"infer", "vote", "done"} /\ mfrPhase' \in {"parse", "fault", "infer", "vote", "done"}
    BY <2>1
  <2> QED BY <1>1, <1>2, <1>4, <1>6, <2>1, <2>2, <2>3 DEF MfrInv
<1>14. CASE UNCHANGED mfrVars
  <2>1. UNCHANGED <<source, mfrSlot, mfrPhase, mfrIndex, mfrOffset, mfrLen, mfr_data, mfr_bytes_list, model_output, label>>
    BY <1>14 DEF mfrVars
  <2>2. MajorityDecides'
    BY <1>1, <2>1 DEF MajorityDecides
  <2>3. mfrPhase' = "parse" /\ source' = "slot" =>
           mfrOffset' = Start(mfrSlot, mfrIndex + 1)' /\ mfrLen' = PktLenAt(mfrSlot, mfrOffset)'
    BY <1>1, <2>1 DEF PktLenAt, Aligned, Start
  <2> QED BY <1>1, <1>2, <1>4, <1>6, <1>7, <2>1, <2>2, <2>3 DEF MfrInv
<1> QED BY <1>8, <1>9, <1>10, <1>11, <1>12, <1>13, <1>14, <1>15 DEF MfrNext

(***************************************************************************)
(* get_mfr_bytes and get_model_input, for every capture, batch size, item  *)
(* size and number of labels: the buffer is filled and never overrun,      *)
(* fewer packets than an item takes are left out of a batch with room, a   *)
(* payload begins where the packet's own headers end and goes beyond the   *)
(* packet by its tags only, unless the capture ended within the headers,   *)
(* and a label that more than half of the items have is the answer. Header *)
(* lengths and captures are any; lengths wrap at any ULONG above 2^17.     *)
(***************************************************************************)
THEOREM MfrBatchRight == MfrSpec => []BatchRight
<1>1. MfrInit => MfrInv
  BY MfrInvInit
<1>2. MfrInv /\ [MfrNext]_mfrVars => MfrInv'
  BY MfrInvStep
<1>3. MfrInv => BatchRight
  BY MfrInvGives
<1> QED BY <1>1, <1>2, <1>3, PTL DEF MfrSpec
-----------------------------------------------------------------------------
(* The ONNX tasks *)

\* The shapes of a model.
LEMMA ShapeFacts ==
  ASSUME shapes \in Models, NEW k \in DOMAIN shapes
  PROVE  /\ shapes \in Seq(Seq(Dim)) /\ shapes[k] \in Seq(Dim) /\ Len(shapes) \in Nat /\ k \in 1 .. Len(shapes)
         /\ Len(shapes[k]) \in Nat /\ DOMAIN shapes[k] = 1 .. Len(shapes[k])
         /\ \A j \in DOMAIN shapes[k] : shapes[k][j] \in Int /\ (shapes[k][j] # -1 => shapes[k][j] \in Nat \ {0})
<1>1. shapes \in Seq(Seq(Dim))
  BY ModelsAssumption
<1> DEFINE T == Seq(Dim)
<1>2. shapes \in Seq(T)
  BY <1>1
<1> HIDE DEF T
<1>3. shapes[k] \in T /\ Len(shapes) \in Nat /\ k \in 1 .. Len(shapes)
  BY <1>2
<1>4. shapes[k] \in Seq(Dim)
  BY <1>3 DEF T
<1>5. \A d \in Dim : d \in Int /\ (d # -1 => d \in Nat \ {0})
  BY DEF Dim
<1>6. Len(shapes[k]) \in Nat /\ DOMAIN shapes[k] = 1 .. Len(shapes[k]) /\ \A j \in DOMAIN shapes[k] : shapes[k][j] \in Dim
  BY <1>4
<1> QED BY <1>1, <1>3, <1>4, <1>5, <1>6

\* An input has at most one dynamic dimension, and its index is known.
LEMMA IndexFacts ==
  ASSUME shapes \in Models, ~ TooManyDynamic, NEW k \in DOMAIN shapes
  PROVE  /\ Dynamic(shapes[k]) = {} => DynamicIndex(shapes[k]) = 0
         /\ Dynamic(shapes[k]) # {} => DynamicIndex(shapes[k]) \in DOMAIN shapes[k]
         /\ \A j \in DOMAIN shapes[k] : shapes[k][j] = -1 <=> j = DynamicIndex(shapes[k])
<1> DEFINE D == Dynamic(shapes[k])
           x == DynamicIndex(shapes[k])
<1>1. D \subseteq 1 .. Len(shapes[k]) /\ Len(shapes[k]) \in Nat /\ DOMAIN shapes[k] = 1 .. Len(shapes[k])
  BY ShapeFacts DEF Dynamic
<1>2. IsFiniteSet(D) /\ Cardinality(D) \in Nat
  BY <1>1, Counting
<1>3. ~ (Cardinality(D) > 1)
  BY DEF TooManyDynamic
<1>4. \A j \in DOMAIN shapes[k] : j \in D <=> shapes[k][j] = -1
  BY DEF Dynamic
<1>5. x = IF D = {} THEN 0 ELSE CHOOSE j \in D : TRUE
  BY DEF DynamicIndex
<1> HIDE DEF D, x
<1>6. ASSUME NEW a \in D, NEW b \in D, a # b PROVE FALSE
  <2>1. {a, b} \subseteq D /\ IsFiniteSet({a}) /\ Cardinality({a}) = 1 /\ b \notin {a} /\ {a} \cup {b} = {a, b}
    BY <1>6, FS_Singleton
  <2>2. Cardinality({a} \cup {b}) = Cardinality({a}) + 1
    BY <2>1, FS_AddElement
  <2>3. Cardinality({a, b}) = 2
    BY <2>1, <2>2
  <2>4. Cardinality({a, b}) <= Cardinality(D)
    BY <1>2, <2>1, FS_Subset
  <2> QED BY <1>2, <1>3, <2>3, <2>4
<1>7. CASE D = {}
  <2>1. x = 0 /\ 0 \notin DOMAIN shapes[k]
    BY <1>1, <1>5, <1>7
  <2> QED BY <1>4, <1>7, <2>1 DEF D, x
<1>8. CASE D # {}
  <2>1. x \in D
    BY <1>5, <1>8
  <2>2. \A j \in D : j = x
    BY <1>6, <2>1
  <2> QED BY <1>1, <1>4, <1>8, <2>1, <2>2 DEF D, x
<1> QED BY <1>7, <1>8

\* What one row of an input takes; its fixed dimensions.
LEMMA RowFacts ==
  ASSUME shapes \in Models, NEW k \in DOMAIN shapes
  PROVE  /\ RowSize(shapes[k]) \in Nat \ {0}
         /\ Dynamic(shapes[k]) = DOMAIN shapes[k] => RowSize(shapes[k]) = 1
<1> DEFINE s == shapes[k]
           u == [j \in DOMAIN s |-> IF s[j] = -1 THEN 1 ELSE s[j]]
<1>1. PICK n \in Nat : n = Len(s) /\ DOMAIN s = 1 .. n
  BY ShapeFacts
<1>2. \A j \in 1 .. n : u[j] \in Nat \ {0}
  BY <1>1, ShapeFacts
<1>3. RowSize(s) = ProductTo(u, n)
  BY <1>1 DEF RowSize
<1>4. RowSize(s) \in Nat \ {0}
  <2> HIDE DEF u
  <2> QED BY <1>2, <1>3, ProductPositive
<1>5. ASSUME Dynamic(s) = DOMAIN s PROVE RowSize(s) = 1
  <2>1. \A j \in 1 .. n : u[j] = 1
    BY <1>1, <1>5 DEF Dynamic
  <2> DEFINE Bad == {m \in 0 .. n : ProductTo(u, m) # 1}
  <2> HIDE DEF u
  <2>2. Bad = {}
    <3> SUFFICES ASSUME Bad # {} PROVE FALSE
      OBVIOUS
    <3>1. PICK m \in Bad : \A y \in Bad : m <= y
      BY Bad \subseteq Nat, LeastOf
    <3>2. m \in 0 .. n /\ ProductTo(u, m) # 1 /\ m # 0
      BY <3>1, ProductEmpty
    <3>3. m - 1 \in 0 .. n /\ m - 1 \in Nat /\ ~ (m <= m - 1) /\ m \in 1 .. n /\ (m - 1) + 1 = m
      BY <3>2
    <3>4. ProductTo(u, m - 1) = 1 /\ \A j \in 1 .. (m - 1) + 1 : u[j] \in Int
      BY <2>1, <3>1, <3>3
    <3>5. ProductTo(u, (m - 1) + 1) = ProductTo(u, m - 1) * u[(m - 1) + 1]
      BY <3>3, <3>4, ProductNext
    <3> QED BY <2>1, <3>2, <3>3, <3>4, <3>5
  <2>3. n \in 0 .. n
    OBVIOUS
  <2> QED BY <1>3, <2>2, <2>3
<1> QED BY <1>4, <1>5

\* What a value is divided by is a row of the input, or more.
LEMMA SizeFacts ==
  ASSUME shapes \in Models, NEW k \in DOMAIN shapes
  PROVE  /\ SizeIn1D(k) \in Nat
         /\ SizeIn1D(k) = 0 => RowSize(shapes[k]) = 1
         /\ SizeIn1D(k) # 0 => RowSize(shapes[k]) <= SizeIn1D(k)
         /\ k = 1 /\ SizeIn1D(k) # 0 => SizeIn1D(k) = RowSize(shapes[1])
<1> DEFINE f == [j \in DOMAIN shapes |-> RowSize(shapes[j])]
<1>1. k \in 1 .. Len(shapes) /\ Len(shapes) \in Nat /\ DOMAIN shapes = 1 .. Len(shapes)
  BY ShapeFacts
<1>2. k \in Nat /\ k # 0 /\ \A j \in 1 .. k : j \in DOMAIN shapes
  BY <1>1
<1>3. \A j \in 1 .. k : f[j] = RowSize(shapes[j]) /\ f[j] \in Nat \ {0}
  BY <1>2, RowFacts
<1>4. SizeIn1D(k) = IF \A j \in 1 .. k : Dynamic(shapes[j]) = DOMAIN shapes[j] THEN 0 ELSE ProductTo(f, k)
  BY DEF SizeIn1D
<1> HIDE DEF f
<1>5. ProductTo(f, k) \in Nat \ {0} /\ f[k] <= ProductTo(f, k)
  BY <1>2, <1>3, ProductPositive
<1>6. k \in 1 .. k
  BY <1>2
<1>7. k = 1 => ProductTo(f, k) = f[1]
  <2> SUFFICES ASSUME k = 1 PROVE ProductTo(f, 1) = f[1]
    OBVIOUS
  <2>1. 0 \in Nat /\ 0 + 1 = 1 /\ \A j \in 1 .. 0 + 1 : f[j] \in Int
    BY <1>3
  <2>2. ProductTo(f, 0 + 1) = ProductTo(f, 0) * f[0 + 1]
    BY <2>1, ProductNext
  <2>3. ProductTo(f, 0) = 1 /\ f[1] \in Int
    BY <2>1, ProductEmpty
  <2> QED BY <2>1, <2>2, <2>3
<1>8. CASE \A j \in 1 .. k : Dynamic(shapes[j]) = DOMAIN shapes[j]
  <2>1. RowSize(shapes[k]) = 1 /\ SizeIn1D(k) = 0
    BY <1>4, <1>6, <1>8, RowFacts
  <2> QED BY <2>1
<1>9. CASE ~ \A j \in 1 .. k : Dynamic(shapes[j]) = DOMAIN shapes[j]
  <2>1. SizeIn1D(k) = ProductTo(f, k)
    BY <1>4, <1>9
  <2>2. k = 1 => SizeIn1D(k) = RowSize(shapes[1])
    BY <1>3, <1>6, <1>7, <2>1
  <2> QED BY <1>3, <1>5, <1>6, <2>1, <2>2
<1> QED BY <1>8, <1>9

\* The value set for the dynamic dimension never asks for more than was given.
LEMMA FixDimFacts ==
  ASSUME shapes \in Models, NEW k \in DOMAIN shapes, inputs_size_in_1D_[k] = SizeIn1D(k), NEW size \in Nat
  PROVE  /\ FixDim(k, size) \in Nat /\ FixDim(k, size) * RowSize(shapes[k]) <= size
         /\ k = 1 => size - FixDim(k, size) * RowSize(shapes[k]) < RowSize(shapes[k])
<1>1. PICK c \in Nat : c = SizeIn1D(k)
  BY SizeFacts
<1>2. PICK r \in Nat \ {0} : r = RowSize(shapes[k])
  BY RowFacts
<1>3. FixDim(k, size) = IF c = 0 THEN size ELSE size \div c
  BY <1>1 DEF FixDim
<1>4. (c = 0 => r = 1) /\ (c # 0 => r <= c) /\ (k = 1 /\ c # 0 => c = r)
  BY <1>1, <1>2, SizeFacts
<1>5. CASE c = 0
  <2>1. FixDim(k, size) = size /\ r = 1
    BY <1>3, <1>4, <1>5
  <2>2. size * 1 = size /\ size - size * 1 < 1
    OBVIOUS
  <2> QED BY <1>2, <2>1, <2>2
<1>6. CASE c # 0
  <2>1. PICK q \in Nat : q = size \div c
    BY <1>6, DivFacts
  <2>2. c * q <= size /\ size < c * q + c
    BY <1>6, <2>1, DivFacts
  <2>3. q * r <= q * c
    BY <1>4, <1>6, MulGrows
  <2>4. q * c = c * q /\ q * r \in Nat /\ q * c \in Nat
    OBVIOUS
  <2>5. q * r <= size
    BY <2>2, <2>3, <2>4
  <2>6. k = 1 => size - q * r < r
    <3> SUFFICES ASSUME k = 1 PROVE size - q * r < r
      OBVIOUS
    <3>1. c = r
      BY <1>4, <1>6
    <3> QED BY <2>2, <2>4, <3>1
  <2> QED BY <1>2, <1>3, <1>6, <2>1, <2>5, <2>6
<1> QED BY <1>5, <1>6

\* The shape of an input for a run.
LEMMA DimsFacts ==
  ASSUME OnnxInv, onnxPhase = "ready", model_type_ = 1, NEW sizes \in [DOMAIN shapes -> Sizes], NEW k \in DOMAIN shapes
  PROVE  LET d == DynamicDims(sizes)[k] IN
         /\ d \in Seq(Int) /\ Len(d) = Len(shapes[k])
         /\ \A j \in DOMAIN shapes[k] : j # inputs_dynamic_index_[k] => d[j] = shapes[k][j]
         /\ Dynamic(shapes[k]) = {} => d = shapes[k]
         /\ Dynamic(shapes[k]) # {} => Product(d) = FixDim(k, sizes[k]) * RowSize(shapes[k])
         /\ \A j \in DOMAIN shapes[k] : d[j] \in Nat
<1> DEFINE d == DynamicDims(sizes)[k]
           s == shapes[k]
           o == input_node_dims_[k]
           i == inputs_dynamic_index_[k]
           v == FixDim(k, sizes[k])
<1>1. shapes \in Models /\ ~ TooManyDynamic /\ DimsOfModel
  BY DEF OnnxInv
<1>2. i = DynamicIndex(s) /\ inputs_size_in_1D_[k] = SizeIn1D(k)
  BY DEF OnnxInv
<1>3. PICK n \in Nat : n = Len(s) /\ DOMAIN s = 1 .. n
  BY <1>1, ShapeFacts
<1>4. s \in Seq(Dim) /\ \A j \in 1 .. n : s[j] \in Int /\ (s[j] # -1 => s[j] \in Nat \ {0})
  BY <1>1, <1>3, ShapeFacts
<1>5. o \in Seq(Int) /\ Len(o) = n /\ \A j \in 1 .. n : j # i => o[j] = s[j]
  BY <1>1, <1>3 DEF DimsOfModel
<1>6. /\ Dynamic(s) = {} => i = 0
      /\ Dynamic(s) # {} => i \in 1 .. n
      /\ \A j \in 1 .. n : s[j] = -1 <=> j = i
  BY <1>1, <1>2, <1>3, IndexFacts
<1>7. d = IF i = 0 THEN o ELSE [o EXCEPT ![i] = v]
  BY DEF DynamicDims
<1>8. v \in Nat
  <2>1. sizes[k] \in Nat
    BY ModelsAssumption
  <2> QED BY <1>1, <1>2, <2>1, FixDimFacts
<1>9. RowSize(s) = ProductTo([j \in DOMAIN s |-> IF s[j] = -1 THEN 1 ELSE s[j]], n)
  BY <1>3 DEF RowSize
<1> HIDE DEF d, o, i, v, s
<1>10. CASE Dynamic(s) = {}
  <2>1. i = 0 /\ d = o /\ \A j \in 1 .. n : j # i
    BY <1>6, <1>7, <1>10
  <2>2. \A j \in 1 .. n : o[j] = s[j] /\ s[j] \in Nat
    BY <1>4, <1>5, <1>6, <2>1
  <2>3. o = s
    <3>1. o = [j \in 1 .. n |-> o[j]]
      BY <1>5
    <3>2. s = [j \in 1 .. n |-> s[j]]
      BY <1>3, <1>4
    <3>3. [j \in 1 .. n |-> o[j]] = [j \in 1 .. n |-> s[j]]
      BY <2>2
    <3> QED BY <3>1, <3>2, <3>3, Zenon
  <2> QED BY <1>3, <1>5, <1>10, <2>1, <2>2, <2>3 DEF d, s, i
<1>11. CASE Dynamic(s) # {}
  <2>1. i \in 1 .. n /\ d = [o EXCEPT ![i] = v]
    BY <1>6, <1>7, <1>11
  <2>2. d \in Seq(Int) /\ Len(d) = n /\ DOMAIN d = 1 .. n /\ d[i] = v /\ \A j \in 1 .. n : j # i => d[j] = s[j]
    BY <1>5, <1>8, <2>1
  <2>3. \A j \in 1 .. n : d[j] \in Nat /\ d[j] \in Int
    <3> SUFFICES ASSUME NEW j \in 1 .. n PROVE d[j] \in Nat
      OBVIOUS
    <3>1. CASE j = i
      BY <1>8, <2>2, <3>1
    <3>2. CASE j # i
      <4>1. d[j] = s[j] /\ s[j] # -1
        BY <1>6, <2>2, <3>2
      <4> QED BY <1>4, <4>1
    <3> QED BY <3>1, <3>2
  <2> DEFINE u == [j \in DOMAIN s |-> IF s[j] = -1 THEN 1 ELSE s[j]]
  <2>4. u[i] = 1 /\ \A j \in 1 .. n : u[j] \in Int /\ (j # i => u[j] = d[j])
    BY <1>3, <1>4, <1>6, <2>1, <2>2
  <2>5. RowSize(s) = ProductTo(u, n)
    BY <1>9
  <2> HIDE DEF u
  <2>6. ProductTo(d, n) = d[i] * ProductTo(u, n)
    <3>1. /\ \A j \in 1 .. n : d[j] \in Int /\ u[j] \in Int
          /\ u[i] = 1 /\ \A j \in 1 .. n : j # i => u[j] = d[j]
      BY <2>3, <2>4
    <3> QED BY ONLY n \in Nat, <2>1, <3>1, ProductFactor, ZenonT(60)
  <2>7. Product(d) = v * RowSize(s)
    BY <2>2, <2>5, <2>6 DEF Product
  <2> QED BY <1>3, <1>11, <2>2, <2>3, <2>7 DEF d, s, i, v
<1> QED BY <1>10, <1>11 DEF s

LEMMA OnnxInvInit == OnnxInit => OnnxInv
<1> SUFFICES ASSUME OnnxInit PROVE OnnxInv
  OBVIOUS
<1>1. /\ shapes \in Models /\ task \in {"TwoDimesion", "SNDingMFR", "LogReg"} /\ onnxPhase = "closed" /\ model_type_ = 0
      /\ given = << >> /\ result.kind = "none"
  BY DEF OnnxInit, NoRows
<1>2. RowsRight
  BY <1>1 DEF RowsRight, FirstInputRows, OnlyFixedShapesThrow, OneRowPerRow
<1>3. onnxPhase # "ready" /\ result.kind # "rows"
  BY <1>1
<1> QED BY <1>1, <1>2, <1>3 DEF OnnxInv

\* One row for each row given.
LEMMA ResultRows ==
  ASSUME NEW dims, dims[1][1] \in Nat, task \in {"TwoDimesion", "SNDingMFR"}
  PROVE  LET res == ParseInferenceResult(SessionOutput(dims)) IN
         /\ Len(res.rows) = dims[1][1] /\ DOMAIN res.rows = 1 .. dims[1][1]
         /\ \A m \in DOMAIN res.rows : res.rows[m] = <<(m - 1) * Columns, m * Columns>>
<1>1. PICK n \in Nat : n = dims[1][1]
  OBVIOUS
<1>2. SessionOutput(dims) = <<n, Columns>>
  BY <1>1 DEF SessionOutput
<1>3. ParseInferenceResult(<<n, Columns>>) = TwoDimesion(<<n, Columns>>)
  BY DEF ParseInferenceResult, SNDingMFR
<1>4. TwoDimesion(<<n, Columns>>) = Rows(n, Columns)
  <2>1. Len(<<n, Columns>>) = 2 /\ <<n, Columns>>[1] = n /\ <<n, Columns>>[2] = Columns
    OBVIOUS
  <2> QED BY <2>1 DEF TwoDimesion
<1> DEFINE f == [m \in 1 .. n |-> <<(m - 1) * Columns, m * Columns>>]
<1>5. Rows(n, Columns).rows = f
  BY DEF Rows
<1>6. Len(f) = n /\ DOMAIN f = 1 .. n /\ \A m \in 1 .. n : f[m] = <<(m - 1) * Columns, m * Columns>>
  OBVIOUS
<1> HIDE DEF f
<1>7. ParseInferenceResult(SessionOutput(dims)).rows = f
  BY <1>2, <1>3, <1>4, <1>5
<1> QED BY <1>1, <1>6, <1>7

\* What a call of Process leaves.
LEMMA ProcessRight ==
  ASSUME OnnxInv, OnnxProcess
  PROVE  OnnxInv'
<1>1. /\ shapes \in Models /\ task \in {"TwoDimesion", "SNDingMFR", "LogReg"} /\ model_type_ \in {0, 1}
      /\ onnxPhase = "ready" /\ (model_type_ = 0 => parse_for_model_type = 0 /\ input_node_dims_ = shapes)
  BY DEF OnnxInv, OnnxProcess
<1>2. model_type_ = 1 => /\ ~ TooManyDynamic /\ DimsOfModel
                         /\ inputs_dynamic_index_ = [k \in DOMAIN shapes |-> DynamicIndex(shapes[k])]
                         /\ inputs_size_in_1D_ = [k \in DOMAIN shapes |-> SizeIn1D(k)]
  BY <1>1 DEF OnnxInv
<1>3. UNCHANGED <<shapes, task, model_type_, inputs_dynamic_index_, inputs_size_in_1D_>>
  BY DEF OnnxProcess
<1>4. PICK sizes \in [DOMAIN shapes -> Sizes] :
        LET dims == IF model_type_ = 1 THEN DynamicDims(sizes) ELSE FixedDims(sizes) IN
        /\ given' = sizes /\ input_node_dims_' = dims
        /\ IF CreateTensorThrows(sizes, dims)
           THEN onnxPhase' = "threw" /\ result' = NoRows("none")
           ELSE /\ UNCHANGED onnxPhase
                /\ result' \in {ParseInferenceResult(SessionOutput(dims)), NoRows("fail")}
  BY DEF OnnxProcess
<1> DEFINE dims == IF model_type_ = 1 THEN DynamicDims(sizes) ELSE FixedDims(sizes)
<1>5. given' = sizes /\ input_node_dims_' = dims /\ sizes \in [DOMAIN shapes -> Nat]
  BY <1>4, ModelsAssumption
<1>6. \/ CreateTensorThrows(sizes, dims) /\ onnxPhase' = "threw"
      \/ onnxPhase' = "ready" /\ result' \in {ParseInferenceResult(SessionOutput(dims)), NoRows("fail")}
  BY <1>1, <1>4
<1>7. /\ model_type_ = 0 => dims = shapes /\ \A k \in DOMAIN shapes : Dynamic(shapes[k]) = {}
      /\ model_type_ = 1 => dims = DynamicDims(sizes) /\ DOMAIN dims = DOMAIN shapes
  <2>1. model_type_ = 0 => dims = shapes
    BY <1>1 DEF FixedDims
  <2>2. parse_for_model_type = 0 => \A k \in DOMAIN shapes : Dynamic(shapes[k]) = {}
    BY DEF parse_for_model_type
  <2>3. model_type_ = 1 => dims = DynamicDims(sizes) /\ DOMAIN dims = DOMAIN shapes
    BY DEF DynamicDims
  <2> QED BY <1>1, <2>1, <2>2, <2>3
<1>8. DOMAIN dims = DOMAIN shapes
  BY <1>1, <1>7
<1> HIDE DEF dims
<1>9. ASSUME NEW k \in DOMAIN shapes, model_type_ = 1
      PROVE  /\ dims[k] \in Seq(Int) /\ Len(dims[k]) = Len(shapes[k])
             /\ \A j \in DOMAIN shapes[k] : j # inputs_dynamic_index_[k] => dims[k][j] = shapes[k][j]
             /\ Dynamic(shapes[k]) = {} => dims[k] = shapes[k]
             /\ Dynamic(shapes[k]) # {} => Product(dims[k]) = FixDim(k, sizes[k]) * RowSize(shapes[k])
             /\ \A j \in DOMAIN shapes[k] : dims[k][j] \in Nat
  BY <1>1, <1>4, <1>7, <1>9, DimsFacts
<1>10. ASSUME NEW k \in DOMAIN shapes, model_type_ = 1
       PROVE  /\ FixDim(k, sizes[k]) \in Nat /\ FixDim(k, sizes[k]) * RowSize(shapes[k]) <= sizes[k]
              /\ k = 1 => sizes[k] - FixDim(k, sizes[k]) * RowSize(shapes[k]) < RowSize(shapes[k])
  <2>1. inputs_size_in_1D_[k] = SizeIn1D(k) /\ sizes[k] \in Nat
    BY <1>2, <1>5, <1>10
  <2> QED BY <1>1, <2>1, FixDimFacts
<1>11. 1 \in DOMAIN shapes /\ 1 \in DOMAIN shapes[1]
  <2>1. shapes \in Seq(Seq(Dim)) /\ shapes # << >> /\ shapes[1] # << >>
    BY <1>1, ModelsAssumption
  <2> DEFINE T == Seq(Dim)
  <2>2. shapes \in Seq(T)
    BY <2>1
  <2> HIDE DEF T
  <2>3. 1 \in DOMAIN shapes /\ shapes[1] \in T
    BY <2>1, <2>2
  <2>4. shapes[1] \in Seq(Dim)
    BY <2>3 DEF T
  <2> QED BY <2>1, <2>3, <2>4
<1>12. FirstInputRows'
  <2> SUFFICES ASSUME model_type_ = 1, Dynamic(shapes[1]) # {}
               PROVE  Product(dims[1]) <= sizes[1] /\ sizes[1] - Product(dims[1]) < RowSize(shapes[1])
    BY <1>3, <1>5 DEF FirstInputRows, Product, Dynamic, RowSize
  <2>1. Product(dims[1]) = FixDim(1, sizes[1]) * RowSize(shapes[1])
    BY <1>9, <1>11
  <2> QED BY <1>10, <1>11, <2>1
<1>13. OnlyFixedShapesThrow'
  <2> SUFFICES ASSUME CreateTensorThrows(sizes, dims)
               PROVE  \E k \in DOMAIN shapes : Dynamic(shapes[k]) = {} /\ Product(shapes[k]) > sizes[k]
    BY <1>3, <1>5, <1>6 DEF OnlyFixedShapesThrow, Dynamic, Product
  <2>1. PICK k \in DOMAIN shapes : Product(dims[k]) > sizes[k]
    BY <1>8 DEF CreateTensorThrows
  <2>2. CASE model_type_ = 0
    BY <1>7, <2>1, <2>2
  <2>3. CASE model_type_ = 1
    <3>1. Dynamic(shapes[k]) # {} => FALSE
      <4> SUFFICES ASSUME Dynamic(shapes[k]) # {} PROVE FALSE
        OBVIOUS
      <4>1. PICK a \in Nat : a = FixDim(k, sizes[k]) * RowSize(shapes[k])
        <5>1. FixDim(k, sizes[k]) \in Nat /\ RowSize(shapes[k]) \in Nat
          BY <1>1, <1>10, <2>3, RowFacts
        <5> QED BY <5>1
      <4>2. Product(dims[k]) = a /\ a <= sizes[k] /\ sizes[k] \in Nat
        BY <1>5, <1>9, <1>10, <2>3, <4>1
      <4> QED BY <2>1, <4>2
    <3>2. dims[k] = shapes[k]
      BY <1>9, <2>3, <3>1
    <3> QED BY <2>1, <3>1, <3>2
  <2> QED BY <1>1, <2>2, <2>3
<1>14. dims[1][1] \in Nat
  <2>1. CASE model_type_ = 0
    <3>1. dims = shapes /\ shapes[1][1] # -1
      BY <1>7, <1>11, <2>1 DEF Dynamic
    <3> QED BY <1>1, <1>11, <3>1, ShapeFacts
  <2>2. CASE model_type_ = 1
    BY <1>9, <1>11, <2>2
  <2> QED BY <1>1, <2>1, <2>2
<1>15. OneRowPerRow'
  <2> SUFFICES ASSUME onnxPhase' = "ready", result'.kind = "rows", task # "LogReg"
               PROVE  /\ Len(result'.rows) = dims[1][1]
                      /\ \A m \in DOMAIN result'.rows : result'.rows[m] = <<(m - 1) * Columns, m * Columns>>
    BY <1>3, <1>5 DEF OneRowPerRow, Columns
  <2>1. NoRows("fail").kind = "fail"
    BY DEF NoRows
  <2>2. onnxPhase' # "threw"
    OBVIOUS
  <2>3. result' = ParseInferenceResult(SessionOutput(dims))
    BY <1>6, <2>1, <2>2
  <2>4. task \in {"TwoDimesion", "SNDingMFR"}
    BY <1>1
  <2> QED BY <1>14, <2>3, <2>4, ResultRows
<1>16. onnxPhase' # "closed"
  BY <1>6
<1>17. model_type_' = 0 => parse_for_model_type' = 0 /\ input_node_dims_' = shapes'
  <2>1. parse_for_model_type' = parse_for_model_type
    BY <1>3 DEF parse_for_model_type, Dynamic
  <2> QED BY <1>1, <1>3, <1>5, <1>7, <2>1
<1>18. ASSUME model_type_' = 1
       PROVE  /\ ~ TooManyDynamic' /\ DimsOfModel'
              /\ inputs_dynamic_index_' = [k \in DOMAIN shapes |-> DynamicIndex(shapes[k])]'
              /\ inputs_size_in_1D_' = [k \in DOMAIN shapes |-> SizeIn1D(k)]'
  <2>1. model_type_ = 1
    BY <1>3, <1>18
  <2>2. TooManyDynamic' <=> TooManyDynamic
    BY <1>3 DEF TooManyDynamic, Dynamic
  <2>3. [k \in DOMAIN shapes |-> DynamicIndex(shapes[k])]' = [k \in DOMAIN shapes |-> DynamicIndex(shapes[k])]
    BY <1>3 DEF DynamicIndex, Dynamic
  <2>4. [k \in DOMAIN shapes |-> SizeIn1D(k)]' = [k \in DOMAIN shapes |-> SizeIn1D(k)]
    BY <1>3 DEF SizeIn1D, Dynamic, RowSize
  <2>5. DimsOfModel'
    BY <1>3, <1>5, <1>9, <2>1 DEF DimsOfModel
  <2> QED BY <1>2, <1>3, <2>1, <2>2, <2>3, <2>4, <2>5
<1> QED BY <1>1, <1>3, <1>12, <1>13, <1>15, <1>16, <1>17, <1>18 DEF OnnxInv, RowsRight

LEMMA OnnxInvStep == OnnxInv /\ [OnnxNext]_onnxVars => OnnxInv'
<1> SUFFICES ASSUME OnnxInv, [OnnxNext]_onnxVars PROVE OnnxInv'
  OBVIOUS
<1>1. /\ shapes \in Models /\ task \in {"TwoDimesion", "SNDingMFR", "LogReg"} /\ model_type_ \in {0, 1}
      /\ onnxPhase = "closed" => given = << >> /\ result.kind # "rows"
      /\ onnxPhase = "ready" /\ model_type_ = 0 => parse_for_model_type = 0 /\ input_node_dims_ = shapes
      /\ onnxPhase = "ready" /\ model_type_ = 1 =>
           /\ ~ TooManyDynamic /\ DimsOfModel
           /\ inputs_dynamic_index_ = [k \in DOMAIN shapes |-> DynamicIndex(shapes[k])]
           /\ inputs_size_in_1D_ = [k \in DOMAIN shapes |-> SizeIn1D(k)]
      /\ RowsRight
  BY DEF OnnxInv
<1>2. UNCHANGED <<shapes, task>>
  BY DEF OnnxNext, OnnxOpen, LoadFixed, LoadDynamic, WrongDatum, OnnxProcess, onnxVars
<1>3. /\ parse_for_model_type' = parse_for_model_type /\ (TooManyDynamic' <=> TooManyDynamic)
      /\ [k \in DOMAIN shapes |-> DynamicIndex(shapes[k])]' = [k \in DOMAIN shapes |-> DynamicIndex(shapes[k])]
      /\ [k \in DOMAIN shapes |-> SizeIn1D(k)]' = [k \in DOMAIN shapes |-> SizeIn1D(k)]
  <2>1. parse_for_model_type' = parse_for_model_type /\ (TooManyDynamic' <=> TooManyDynamic)
    BY <1>2 DEF parse_for_model_type, TooManyDynamic, Dynamic
  <2>2. [k \in DOMAIN shapes |-> DynamicIndex(shapes[k])]' = [k \in DOMAIN shapes |-> DynamicIndex(shapes[k])]
    BY <1>2 DEF DynamicIndex, Dynamic
  <2>3. [k \in DOMAIN shapes |-> SizeIn1D(k)]' = [k \in DOMAIN shapes |-> SizeIn1D(k)]
    BY <1>2 DEF SizeIn1D, Dynamic, RowSize
  <2> QED BY <2>1, <2>2, <2>3
<1>4. (given' = << >> /\ onnxPhase' # "threw" /\ result'.kind # "rows") => RowsRight'
  BY DEF RowsRight, FirstInputRows, OnlyFixedShapesThrow, OneRowPerRow
<1>5. CASE onnxPhase = "closed" /\ LoadFixed
  <2>1. /\ parse_for_model_type = 0 /\ model_type_' = 0 /\ input_node_dims_' = shapes /\ onnxPhase' = "ready"
        /\ UNCHANGED <<given, result>>
    BY <1>5 DEF LoadFixed
  <2>2. given' = << >> /\ onnxPhase' # "threw" /\ onnxPhase' # "closed" /\ result'.kind # "rows" /\ model_type_' # 1
    BY <1>1, <1>5, <2>1
  <2>3. RowsRight'
    BY <1>4, <2>2
  <2> QED BY <1>1, <1>2, <1>3, <2>1, <2>2, <2>3 DEF OnnxInv
<1>6. CASE onnxPhase = "closed" /\ LoadDynamic
  <2>1. model_type_' = 1 /\ UNCHANGED <<given, result>> /\ onnxPhase' \in {"failed", "ready"}
    BY <1>6 DEF LoadDynamic
  <2>2. given' = << >> /\ onnxPhase' # "threw" /\ onnxPhase' # "closed" /\ result'.kind # "rows" /\ model_type_' # 0
    BY <1>1, <1>6, <2>1
  <2>3. RowsRight'
    BY <1>4, <2>2
  <2>4. ASSUME onnxPhase' = "ready"
        PROVE  /\ ~ TooManyDynamic /\ input_node_dims_' = shapes
               /\ inputs_dynamic_index_' = [k \in DOMAIN shapes |-> DynamicIndex(shapes[k])]
               /\ inputs_size_in_1D_' = [k \in DOMAIN shapes |-> SizeIn1D(k)]
    BY <1>6, <2>4 DEF LoadDynamic
  <2>5. ASSUME onnxPhase' = "ready" PROVE DimsOfModel'
    <3> SUFFICES ASSUME NEW k \in DOMAIN shapes PROVE shapes[k] \in Seq(Int)
      BY <1>2, <2>4, <2>5 DEF DimsOfModel
    <3>1. shapes[k] \in Seq(Dim) /\ Len(shapes[k]) \in Nat
      BY <1>1, ShapeFacts
    <3>2. shapes[k] \in [1 .. Len(shapes[k]) -> Int]
      <4>1. Dim \subseteq Int
        BY DEF Dim
      <4>2. \A j \in 1 .. Len(shapes[k]) : shapes[k][j] \in Dim
        BY <3>1
      <4>3. shapes[k] = [j \in 1 .. Len(shapes[k]) |-> shapes[k][j]]
        BY <3>1
      <4> QED BY <4>1, <4>2, <4>3
    <3> QED BY <3>1, <3>2, FunctionIsSeq
  <2> QED BY <1>1, <1>2, <1>3, <2>1, <2>2, <2>3, <2>4, <2>5 DEF OnnxInv
<1>7. CASE WrongDatum
  <2>1. onnxPhase = "ready" /\ result' = NoRows("fail") /\ given' = << >> /\ UNCHANGED <<onnxPhase, model_type_, input_node_dims_, inputs_dynamic_index_, inputs_size_in_1D_>>
    BY <1>7 DEF WrongDatum, loader
  <2>2. onnxPhase' # "threw" /\ onnxPhase' # "closed" /\ result'.kind # "rows"
    BY <2>1 DEF NoRows
  <2>3. RowsRight'
    BY <1>4, <2>1, <2>2
  <2>4. DimsOfModel => DimsOfModel'
    BY <1>2, <2>1 DEF DimsOfModel
  <2> QED BY <1>1, <1>2, <1>3, <2>1, <2>2, <2>3, <2>4 DEF OnnxInv
<1>8. CASE OnnxProcess
  BY <1>8, ProcessRight
<1>9. CASE UNCHANGED onnxVars
  <2>1. UNCHANGED <<shapes, task, onnxPhase, model_type_, input_node_dims_, inputs_dynamic_index_, inputs_size_in_1D_, given, result, runs>>
    BY <1>9 DEF onnxVars, loader
  <2>2. DimsOfModel => DimsOfModel'
    BY <2>1 DEF DimsOfModel
  <2>3. RowsRight'
    <3>1. FirstInputRows'
      BY <1>1, <2>1 DEF RowsRight, FirstInputRows, Product, Dynamic, RowSize
    <3>2. OnlyFixedShapesThrow'
      BY <1>1, <2>1 DEF RowsRight, OnlyFixedShapesThrow, Product, Dynamic
    <3>3. OneRowPerRow'
      BY <1>1, <2>1 DEF RowsRight, OneRowPerRow, Columns
    <3> QED BY <3>1, <3>2, <3>3 DEF RowsRight
  <2> QED BY <1>1, <1>2, <1>3, <2>1, <2>2, <2>3 DEF OnnxInv
<1> QED BY <1>5, <1>6, <1>7, <1>8, <1>9 DEF OnnxNext, OnnxOpen

(***************************************************************************)
(* The ONNX tasks, for every model of fixed and dynamic dimensions, any    *)
(* number of inputs and all sizes of the data, however often Process is    *)
(* called: the first input of a dynamic model has as many rows as its data *)
(* of this run fill, only inputs of fixed shape can throw out of Process,  *)
(* and the result has one row for each row given.                          *)
(***************************************************************************)
THEOREM OnnxRowsRight == OnnxSpec => []RowsRight
<1>1. OnnxInv => RowsRight
  BY DEF OnnxInv
<1> QED BY <1>1, OnnxInvInit, OnnxInvStep, PTL DEF OnnxSpec
-----------------------------------------------------------------------------
(* Blocks of addresses *)

Addr == 0 .. PowerOf2(W) - 1

LEMMA NetSizes ==
  ASSUME WidthAssumption
  PROVE  /\ \A len \in 0 .. W : NetSize(len) \in Nat \ {0}
         /\ NetSize(W) = 1
         /\ \A k, l \in 0 .. W : k < l => NetSize(l) < NetSize(k)
<1>1. ASSUME NEW len \in 0 .. W PROVE NetSize(len) \in Nat \ {0}
  <2>1. W - len \in Nat
    BY DEF WidthAssumption
  <2> QED BY <2>1, PowerNext DEF NetSize
<1>2. NetSize(W) = 1
  <2>1. W - W = 0 /\ 0 \in Nat
    BY DEF WidthAssumption
  <2> QED BY <2>1, PowerNext DEF NetSize
<1>3. ASSUME NEW k \in 0 .. W, NEW l \in 0 .. W, k < l PROVE NetSize(l) < NetSize(k)
  <2>1. W - k \in Nat /\ W - l \in Nat /\ W - l < W - k /\ W - l <= W - k
    BY <1>3 DEF WidthAssumption
  <2> QED BY <2>1, PowerGrows DEF NetSize
<1> QED BY <1>1, <1>2, <1>3

\* The block of an address: where it begins and ends, and that every address
\* in it has the same one.
LEMMA NetFacts ==
  ASSUME WidthAssumption, NEW x \in Nat, NEW len \in 0 .. W
  PROVE  /\ network(x, len) \in Nat /\ network(x, len) <= x
         /\ broadcast(x, len) = network(x, len) + NetSize(len) - 1 /\ x <= broadcast(x, len)
         /\ network(x, len) <= broadcast(x, len)
         /\ \A y \in network(x, len) .. broadcast(x, len) : y \in Nat /\ network(y, len) = network(x, len)
<1>1. PICK g \in Nat \ {0} : g = NetSize(len)
  BY NetSizes
<1>2. PICK r \in 0 .. g - 1, q \in Nat : r = x % g /\ x - r = g * q /\ x = g * q + r
  BY Rounding
<1>3. g * q \in Nat
  OBVIOUS
<1>4. network(x, len) = g * q /\ broadcast(x, len) = g * q + g - 1
  BY <1>1, <1>2, <1>3 DEF network, broadcast
<1>5. ASSUME NEW y \in g * q .. g * q + g - 1 PROVE y \in Nat /\ y - (y % g) = g * q
  <2>1. y \in Nat /\ g * q <= y /\ y < g * q + g
    BY <1>3, <1>5
  <2> QED BY <2>1, RoundingUnique
<1>6. \A y \in network(x, len) .. broadcast(x, len) : y \in Nat /\ network(y, len) = network(x, len)
  <2>1. \A y : network(y, len) = y - (y % g)
    BY <1>1 DEF network
  <2> QED BY <1>4, <1>5, <2>1
<1>7. PICK z \in Nat : z = g * q
  BY <1>3
<1>8. z <= x /\ x <= z + g - 1 /\ z <= z + g - 1
  BY <1>2, <1>7
<1> QED BY <1>1, <1>3, <1>4, <1>6, <1>7, <1>8

LEMMA Host ==
  ASSUME WidthAssumption, NEW x \in Nat
  PROVE  network(x, W) = x /\ broadcast(x, W) = x
<1>1. x % 1 = 0 /\ x - 0 = x /\ x + 1 - 1 = x
  OBVIOUS
<1> QED BY <1>1, NetSizes DEF network, broadcast

LEMMA BlockFacts ==
  ASSUME WidthAssumption, NEW c, IsBlock(c)
  PROVE  /\ c.ip \in Nat /\ c.len \in 0 .. W /\ NetSize(c.len) \in Nat \ {0}
         /\ Block(c) = c.ip .. c.ip + NetSize(c.len) - 1
         /\ c.ip \in Block(c)
         /\ \A x \in Block(c) : x \in Nat /\ network(x, c.len) = c.ip
<1>1. c.len \in 0 .. W /\ c.ip = network(c.ip, c.len)
  BY DEF IsBlock
<1>2. c.ip \in Nat
  <2>1. PICK p \in Nat : p = PowerOf2(W)
    BY PowerNext DEF WidthAssumption
  <2> QED BY <2>1 DEF IsBlock
<1>3. broadcast(c.ip, c.len) = c.ip + NetSize(c.len) - 1 /\ NetSize(c.len) \in Nat \ {0}
  BY <1>1, <1>2, NetFacts, NetSizes
<1>4. \A x \in c.ip .. broadcast(c.ip, c.len) : x \in Nat /\ network(x, c.len) = c.ip
  BY <1>1, <1>2, NetFacts
<1>5. c.ip \in c.ip .. c.ip + NetSize(c.len) - 1
  BY <1>2, <1>3
<1> QED BY <1>1, <1>2, <1>3, <1>4, <1>5 DEF Block

\* The block of that length around an address is a block.
LEMMA Around ==
  ASSUME WidthAssumption, NEW x \in Addr, NEW len \in 0 .. W, NEW c, c = [ip |-> network(x, len), len |-> len]
  PROVE  IsBlock(c) /\ x \in Block(c) /\ Block(c) = network(x, len) .. broadcast(x, len)
<1>1. PICK p \in Nat : p = PowerOf2(W)
  BY PowerNext DEF WidthAssumption
<1>2. x \in Nat /\ x <= p - 1
  BY <1>1 DEF Addr
<1>3. PICK m \in Nat : m = network(x, len)
  BY <1>2, NetFacts
<1>4. m <= x /\ x <= broadcast(x, len) /\ broadcast(x, len) = m + NetSize(len) - 1 /\ m <= broadcast(x, len)
  BY <1>2, <1>3, NetFacts
<1>5. NetSize(len) \in Nat
  BY NetSizes
<1>6. m \in m .. broadcast(x, len) /\ x \in m .. broadcast(x, len)
  BY <1>2, <1>4, <1>5
<1>7. network(m, len) = m
  BY <1>2, <1>3, <1>6, NetFacts
<1>8. broadcast(m, len) = m + NetSize(len) - 1
  BY <1>7 DEF broadcast
<1>9. c.ip = m /\ c.len = len
  BY <1>3
<1>10. m \in 0 .. PowerOf2(W) - 1
  BY <1>1, <1>2, <1>4
<1>11. IsBlock(c)
  BY <1>7, <1>9, <1>10 DEF IsBlock
<1>12. Block(c) = m .. broadcast(x, len)
  BY <1>4, <1>8, <1>9 DEF Block
<1> QED BY <1>3, <1>6, <1>11, <1>12

\* Of two blocks one of which holds the other, the larger has the shorter
\* mask.
LEMMA Nested ==
  ASSUME WidthAssumption, NEW c, NEW d, IsBlock(c), IsBlock(d), Block(c) \subseteq Block(d)
  PROVE  d.len <= c.len
<1>1. PICK m \in Nat, n \in Nat, g \in Nat \ {0}, h \in Nat \ {0} :
        m = c.ip /\ n = d.ip /\ g = NetSize(c.len) /\ h = NetSize(d.len)
  BY BlockFacts
<1>2. Block(c) = m .. m + g - 1 /\ Block(d) = n .. n + h - 1 /\ c.len \in 0 .. W /\ d.len \in 0 .. W
  BY <1>1, BlockFacts
<1>3. m \in m .. m + g - 1 /\ m + g - 1 \in m .. m + g - 1
  OBVIOUS
<1>4. m \in n .. n + h - 1 /\ m + g - 1 \in n .. n + h - 1
  BY <1>2, <1>3
<1>5. g <= h
  BY <1>4
<1>6. d.len \in Int /\ c.len \in Int /\ (c.len < d.len => h < g)
  BY <1>1, <1>2, NetSizes, SMTT(30) DEF WidthAssumption
<1> QED BY <1>1, <1>5, <1>6

Inside(S) == {c \in [ip : S, len : 0 .. W] : IsBlock(c) /\ Block(c) \subseteq S}

LEMMA LargestIs ==
  ASSUME NEW S
  PROVE  Largest(S) = {c \in Inside(S) : ~ \E d \in Inside(S) : d # c /\ Block(c) \subseteq Block(d)}
<1> QED BY DEF Largest, Inside

\* The largest blocks of a set of addresses cover it.
LEMMA LargestCovers ==
  ASSUME WidthAssumption, NEW S \in SUBSET Addr, NEW x \in S
  PROVE  \E c \in Largest(S) : x \in Block(c)
<1> DEFINE B(len) == [ip |-> network(x, len), len |-> len]
           Lens == {len \in 0 .. W : Block(B(len)) \subseteq S}
<1>1. x \in Nat /\ x \in Addr /\ W \in Nat /\ W \in 0 .. W
  <2>1. PICK p \in Nat : p = PowerOf2(W)
    BY PowerNext DEF WidthAssumption
  <2> QED BY <2>1 DEF Addr, WidthAssumption
<1>2. \A len \in 0 .. W : IsBlock(B(len)) /\ x \in Block(B(len)) /\ B(len).len = len /\ B(len).ip = network(x, len)
  BY <1>1, Around
<1>3. W \in Lens
  <2>1. Block(B(W)) = network(x, W) .. broadcast(x, W)
    BY <1>1, Around
  <2>2. Block(B(W)) = x .. x
    BY <1>1, <2>1, Host
  <2>3. x .. x = {x}
    BY <1>1
  <2> QED BY <1>1, <2>2, <2>3
<1>4. PICK len \in Lens : \A l \in Lens : len <= l
  <2>1. Lens \subseteq Nat /\ Lens # {}
    BY <1>1, <1>3
  <2> QED BY <2>1, LeastOf
<1>5. len \in 0 .. W /\ Block(B(len)) \subseteq S
  BY <1>4
<1> DEFINE c == B(len)
<1>6. IsBlock(c) /\ x \in Block(c) /\ c.len = len /\ c.ip = network(x, len) /\ Block(c) \subseteq S
  BY <1>2, <1>5
<1>7. c \in Inside(S)
  <2>1. c.ip \in Block(c)
    BY <1>6, BlockFacts
  <2>2. network(x, len) \in S
    BY <1>6, <2>1
  <2>3. c \in [ip : S, len : 0 .. W]
    BY <1>5, <2>2
  <2> QED BY <1>6, <2>3 DEF Inside
<1>8. ASSUME NEW d \in Inside(S), d # c, Block(c) \subseteq Block(d) PROVE FALSE
  <2>1. IsBlock(d) /\ Block(d) \subseteq S /\ d \in [ip : S, len : 0 .. W] /\ d.len \in 0 .. W
    BY DEF Inside
  <2>2. x \in Block(d)
    BY <1>6, <1>8
  <2>3. d.ip = network(x, d.len)
    BY <2>1, <2>2, BlockFacts
  <2>4. d = B(d.len)
    BY <2>1, <2>3
  <2>5. d.len \in Lens
    BY <2>1, <2>4
  <2>6. len <= d.len
    BY <1>4, <2>5
  <2>7. d.len <= len
    BY <1>6, <1>8, <2>1, Nested
  <2>8. d.len = len
    BY <1>5, <2>1, <2>6, <2>7
  <2> QED BY <1>8, <2>4, <2>8
<1> HIDE DEF c
<1>9. c \in Largest(S)
  BY <1>7, <1>8, LargestIs
<1> QED BY <1>6, <1>9

\* ... and a block is the largest in itself.
LEMMA LargestOfBlock ==
  ASSUME WidthAssumption, NEW x, NEW len, NEW c, c = [ip |-> x, len |-> len], IsBlock(c)
  PROVE  c \in Largest(Block(c))
<1>1. c.ip = x /\ c.len = len /\ c.ip \in Block(c) /\ len \in 0 .. W /\ x \in Nat
  BY BlockFacts
<1>2. c \in [ip : Block(c), len : 0 .. W]
  BY <1>1
<1>3. c \in Inside(Block(c))
  BY <1>2 DEF Inside
<1>4. ASSUME NEW d \in Inside(Block(c)), d # c, Block(c) \subseteq Block(d) PROVE FALSE
  <2>1. IsBlock(d) /\ Block(d) \subseteq Block(c) /\ d \in [ip : Block(c), len : 0 .. W]
    BY DEF Inside
  <2>2. d.len <= c.len /\ c.len <= d.len /\ d.len \in 0 .. W
    BY <1>4, <2>1, Nested
  <2>3. d.len = len
    BY <1>1, <2>2
  <2>4. c.ip \in Block(d)
    BY <1>1, <1>4
  <2>5. network(c.ip, d.len) = d.ip /\ network(c.ip, c.len) = c.ip
    BY <2>1, <2>4, BlockFacts DEF IsBlock
  <2>6. d.ip = x
    BY <1>1, <2>3, <2>5
  <2>7. d = [ip |-> d.ip, len |-> d.len]
    BY <2>1
  <2> QED BY <1>4, <2>3, <2>6, <2>7
<1> QED BY <1>3, <1>4, LargestIs

LEMMA LargestWithin ==
  ASSUME NEW S, NEW c \in Largest(S)
  PROVE  IsBlock(c) /\ Block(c) \subseteq S
<1> QED BY LargestIs DEF Inside
-----------------------------------------------------------------------------
(* std::set_difference on sorted lists *)

\* The walk stands behind all of b that is below the next of a.
WalkOk(T, a, b, w) ==
  /\ w.i \in 1 .. Len(a) + 1 /\ w.j \in 1 .. Len(b) + 1
  /\ \A ip \in w.out : ip \in T /\ \A m \in 1 .. Len(b) : b[m] # ip
  /\ w.i <= Len(a) => \A m \in 1 .. Len(b) : m < w.j => b[m] < a[w.i]

LEMMA WalkKeeps ==
  ASSUME NEW T \in SUBSET Int, NEW a \in Seq(T), NEW b \in Seq(Int),
         \A i, j \in 1 .. Len(a) : i < j => a[i] < a[j],
         \A i, j \in 1 .. Len(b) : i < j => b[i] <= b[j],
         NEW w, WalkOk(T, a, b, w)
  PROVE  WalkOk(T, a, b, Walk(a, b, w))
<1>0. PICK n \in Nat, l \in Nat : n = Len(a) /\ l = Len(b)
  OBVIOUS
<1>1. PICK i \in 1 .. n + 1, j \in 1 .. l + 1 : n = Len(a) /\ l = Len(b) /\ i = w.i /\ j = w.j
  BY <1>0 DEF WalkOk
<1>2. /\ \A m \in 1 .. n : a[m] \in T /\ a[m] \in Int
      /\ \A m \in 1 .. l : b[m] \in Int
  <2>1. a \in [1 .. n -> T] /\ b \in [1 .. l -> Int]
    BY <1>0
  <2> QED BY <2>1
<1>3. \A k, m \in 1 .. n : k < m => a[k] < a[m]
  BY <1>1
<1>4. \A k, m \in 1 .. l : k < m => b[k] <= b[m]
  BY <1>1
<1>5. /\ \A ip \in w.out : ip \in T /\ \A m \in 1 .. l : b[m] # ip
      /\ i <= n => \A m \in 1 .. l : m < j => b[m] < a[i]
  BY <1>1 DEF WalkOk
<1>6. CASE i > n
  <2>1. Walk(a, b, w) = w
    BY <1>1, <1>6 DEF Walk
  <2> QED BY <2>1
<1>7. CASE i <= n /\ (j > l \/ a[i] < b[j])
  <2>1. Walk(a, b, w) = [i |-> i + 1, j |-> j, out |-> w.out \cup {a[i]}]
    BY <1>1, <1>7 DEF Walk
  <2>2. a[i] \in T /\ a[i] \in Int
    BY <1>2, <1>7
  <2>3. ASSUME NEW m \in 1 .. l PROVE b[m] # a[i]
    <3>1. CASE m < j
      BY <1>2, <1>5, <1>7, <2>2, <3>1
    <3>2. CASE j <= m
      <4>1. j \in 1 .. l /\ a[i] < b[j] /\ b[j] <= b[m] /\ b[j] \in Int /\ b[m] \in Int
        BY <1>2, <1>4, <1>7, <3>2
      <4> QED BY <2>2, <4>1
    <3> QED BY <3>1, <3>2
  <2>4. ASSUME i + 1 <= n, NEW m \in 1 .. l, m < j PROVE b[m] < a[i + 1]
    <3>1. b[m] < a[i] /\ a[i] < a[i + 1] /\ b[m] \in Int /\ a[i + 1] \in Int
      BY <1>2, <1>3, <1>5, <1>7, <2>4
    <3> QED BY <2>2, <3>1
  <2>5. i + 1 \in 1 .. n + 1
    BY <1>7
  <2>6. PICK v : v = Walk(a, b, w)
    OBVIOUS
  <2>7. v.i = i + 1 /\ v.j = j /\ v.out = w.out \cup {a[i]}
    BY <2>1, <2>6
  <2>8. WalkOk(T, a, b, v)
    BY <1>1, <1>5, <2>2, <2>3, <2>4, <2>5, <2>7 DEF WalkOk
  <2> QED BY <2>6, <2>8
<1>8. CASE i <= n /\ j <= l /\ a[i] = b[j]
  <2>1. Walk(a, b, w) = [i |-> i + 1, j |-> j + 1, out |-> w.out]
    <3>1. ~ (i > n) /\ ~ (j > l) /\ ~ (a[i] < b[j])
      BY <1>2, <1>8
    <3> QED BY <1>1, <1>8, <3>1 DEF Walk
  <2>4. ASSUME i + 1 <= n, NEW m \in 1 .. l, m < j + 1 PROVE b[m] < a[i + 1]
    <3>1. a[i] < a[i + 1] /\ b[m] \in Int /\ a[i + 1] \in Int /\ a[i] \in Int
      BY <1>2, <1>3, <1>8, <2>4
    <3>2. b[m] <= b[j]
      <4>1. m = j \/ m < j
        BY <2>4
      <4> QED BY <1>2, <1>4, <1>8, <4>1
    <3> QED BY <1>8, <3>1, <3>2
  <2>5. i + 1 \in 1 .. n + 1 /\ j + 1 \in 1 .. l + 1
    BY <1>8
  <2>6. PICK v : v = Walk(a, b, w)
    OBVIOUS
  <2>7. v.i = i + 1 /\ v.j = j + 1 /\ v.out = w.out
    BY <2>1, <2>6
  <2>8. WalkOk(T, a, b, v)
    BY <1>1, <1>5, <2>4, <2>5, <2>7 DEF WalkOk
  <2> QED BY <2>6, <2>8
<1>9. CASE i <= n /\ j <= l /\ b[j] < a[i]
  <2>1. Walk(a, b, w) = [i |-> i, j |-> j + 1, out |-> w.out]
    <3>1. ~ (i > n) /\ ~ (j > l) /\ ~ (a[i] < b[j]) /\ a[i] # b[j]
      BY <1>2, <1>9
    <3> QED BY <1>1, <1>9, <3>1 DEF Walk
  <2>4. ASSUME NEW m \in 1 .. l, m < j + 1 PROVE b[m] < a[i]
    <3>1. m = j \/ m < j
      BY <2>4
    <3> QED BY <1>5, <1>9, <3>1
  <2>5. i \in 1 .. n + 1 /\ j + 1 \in 1 .. l + 1
    BY <1>9
  <2>6. PICK v : v = Walk(a, b, w)
    OBVIOUS
  <2>7. v.i = i /\ v.j = j + 1 /\ v.out = w.out
    BY <2>1, <2>6
  <2>8. WalkOk(T, a, b, v)
    BY <1>1, <1>5, <2>4, <2>5, <2>7 DEF WalkOk
  <2> QED BY <2>6, <2>8
<1> QED BY <1>2, <1>6, <1>7, <1>8, <1>9

Walker == [i |-> 1, j |-> 1, out |-> {}]

IsWalk(a, b, n, s) == s = [k \in 0 .. n |-> IF k = 0 THEN Walker ELSE Walk(a, b, s[k - 1])]

LEMMA WalkExists ==
  ASSUME NEW a, NEW b, NEW n \in Nat
  PROVE  \E s : IsWalk(a, b, n, s)
<1> USE DEF IsWalk
<1> DEFINE Is(m, s) == IsWalk(a, b, m, s)
           Bad == {m \in 0 .. n : ~ \E s : Is(m, s)}
<1> SUFFICES ASSUME Bad # {} PROVE FALSE
  BY n \in 0 .. n
<1>1. PICK m \in Bad : \A y \in Bad : m <= y
  BY Bad \subseteq Nat, LeastOf
<1>2. m \in 0 .. n /\ ~ \E s : Is(m, s)
  BY <1>1
<1>3. CASE m = 0
  <2> DEFINE z == [k \in 0 .. 0 |-> Walker]
  <2>1. Is(0, z)
    OBVIOUS
  <2> QED BY <1>2, <1>3, <2>1
<1>4. CASE m # 0
  <2>1. m - 1 \in 0 .. n /\ ~ (m <= m - 1) /\ m \in 0 .. m /\ m - 1 \in 0 .. m - 1
    BY <1>2, <1>4
  <2>2. m - 1 \notin Bad
    BY <1>1, <2>1
  <2>3. PICK s : Is(m - 1, s)
    BY <2>1, <2>2
  <2> DEFINE z == [k \in 0 .. m |-> IF k = m THEN Walk(a, b, s[m - 1]) ELSE s[k]]
  <2>4. ASSUME NEW k \in 0 .. m PROVE z[k] = IF k = 0 THEN Walker ELSE Walk(a, b, z[k - 1])
    <3>1. CASE k = m
      BY <1>2, <1>4, <3>1
    <3>2. CASE k # m
      <4>1. k \in 0 .. m - 1 /\ (k # 0 => k - 1 \in 0 .. m /\ k - 1 # m)
        BY <1>2, <3>2
      <4>2. s[k] = IF k = 0 THEN Walker ELSE Walk(a, b, s[k - 1])
        BY <2>3, <4>1
      <4> QED BY <3>2, <4>1, <4>2
    <3> QED BY <3>1, <3>2
  <2>5. z = [k \in 0 .. m |-> z[k]]
    OBVIOUS
  <2> HIDE DEF z
  <2>6. Is(m, z)
    BY <2>4, <2>5
  <2> QED BY <1>2, <2>6
<1> QED BY <1>3, <1>4

\* The states of the walk that set_difference takes.
TakesWalk(a, b, n, c) ==
  /\ set_difference(a, b) = c[n].out /\ c[0] = Walker
  /\ \A k \in 0 .. n : k # 0 => c[k] = Walk(a, b, c[k - 1])

LEMMA DifferenceWalk ==
  ASSUME NEW a, NEW b, NEW n \in Nat, n = Len(a) + Len(b)
  PROVE  \E c : TakesWalk(a, b, n, c)
<1> DEFINE E(s) == s = [k \in 0 .. n |-> IF k = 0 THEN Walker ELSE Walk(a, b, s[k - 1])]
           c == CHOOSE s : E(s)
<1>2. \E s : E(s)
  <2>1. PICK s : IsWalk(a, b, n, s)
    BY WalkExists
  <2>2. E(s)
    BY <2>1 DEF IsWalk
  <2> QED BY <2>2
<1>3. E(c)
  BY <1>2
<1>4. set_difference(a, b) = c[n].out
  BY DEF set_difference, Walker
<1> HIDE DEF c
<1>5. c[0] = Walker /\ \A k \in 0 .. n : k # 0 => c[k] = Walk(a, b, c[k - 1])
  BY <1>3
<1>6. TakesWalk(a, b, n, c)
  BY <1>4, <1>5 DEF TakesWalk
<1> QED BY <1>6

\* The walk in its k-th state, whatever the order of b: what it has passed of
\* a is in its result, or in b, and it moves on until all of a is passed.
WalkAll(T, a, b, k, w) ==
  /\ w.i \in 1 .. Len(a) + 1 /\ w.j \in 1 .. Len(b) + 1
  /\ w.i <= Len(a) => w.i + w.j >= k + 2
  /\ \A ip \in w.out : ip \in T
  /\ \A m \in 1 .. Len(a) : m < w.i => a[m] \in w.out \/ \E q \in 1 .. Len(b) : b[q] = a[m]

LEMMA WalkAllKeeps ==
  ASSUME NEW T \in SUBSET Int, NEW a \in Seq(T), NEW b \in Seq(Int), NEW k \in Nat,
         NEW w, WalkAll(T, a, b, k, w)
  PROVE  WalkAll(T, a, b, k + 1, Walk(a, b, w))
<1>1. PICK n \in Nat, l \in Nat : n = Len(a) /\ l = Len(b)
  OBVIOUS
<1>2. PICK i \in 1 .. n + 1, j \in 1 .. l + 1 : i = w.i /\ j = w.j
  BY <1>1 DEF WalkAll
<1>3. /\ i <= n => i + j >= k + 2
      /\ \A ip \in w.out : ip \in T
      /\ \A m \in 1 .. n : m < i => a[m] \in w.out \/ \E q \in 1 .. l : b[q] = a[m]
  BY <1>1, <1>2 DEF WalkAll
<1>4. (\A m \in 1 .. n : a[m] \in T /\ a[m] \in Int) /\ (\A m \in 1 .. l : b[m] \in Int)
  <2>1. a \in [1 .. n -> T] /\ b \in [1 .. l -> Int]
    BY <1>1
  <2> QED BY <2>1
<1>5. PICK v : v = Walk(a, b, w)
  OBVIOUS
<1>6. CASE i > n
  <2>1. v = w
    BY <1>1, <1>2, <1>5, <1>6 DEF Walk
  <2> QED BY <1>1, <1>2, <1>3, <1>5, <1>6, <2>1 DEF WalkAll
<1>7. CASE i <= n /\ (j > l \/ a[i] < b[j])
  <2>1. v = [i |-> i + 1, j |-> j, out |-> w.out \cup {a[i]}]
    <3>1. ~ (i > n) /\ ~ (j <= l /\ a[i] = b[j])
      BY <1>4, <1>7
    <3> QED BY <1>1, <1>2, <1>5, <1>7, <3>1 DEF Walk
  <2>2. v.i = i + 1 /\ v.j = j /\ v.out = w.out \cup {a[i]}
    BY <2>1
  <2>3. i + 1 \in 1 .. n + 1 /\ i + 1 + j >= k + 1 + 2 /\ a[i] \in T
    BY <1>3, <1>4, <1>7, SMTT(30)
  <2>4. \A m \in 1 .. n : m < i + 1 => m < i \/ m = i
    OBVIOUS
  <2>5. \A m \in 1 .. n : m < i + 1 => a[m] \in v.out \/ \E q \in 1 .. l : b[q] = a[m]
    BY <1>3, <2>2, <2>4
  <2>6. \A ip \in v.out : ip \in T
    BY <1>3, <2>2, <2>3
  <2>7. WalkAll(T, a, b, k + 1, v)
    BY <1>1, <2>2, <2>3, <2>5, <2>6 DEF WalkAll
  <2> QED BY <1>5, <2>7
<1>8. CASE i <= n /\ j <= l /\ a[i] = b[j]
  <2>1. v = [i |-> i + 1, j |-> j + 1, out |-> w.out]
    <3>1. ~ (i > n) /\ ~ (j > l) /\ ~ (a[i] < b[j])
      BY <1>4, <1>8
    <3> QED BY <1>1, <1>2, <1>5, <1>8, <3>1 DEF Walk
  <2>2. v.i = i + 1 /\ v.j = j + 1 /\ v.out = w.out
    BY <2>1
  <2>3. i + 1 \in 1 .. n + 1 /\ j + 1 \in 1 .. l + 1 /\ i + 1 + j + 1 >= k + 1 + 2 /\ j \in 1 .. l
    BY <1>3, <1>8
  <2>4. \A m \in 1 .. n : m < i + 1 => m < i \/ m = i
    OBVIOUS
  <2>5. \A m \in 1 .. n : m < i + 1 => a[m] \in v.out \/ \E q \in 1 .. l : b[q] = a[m]
    BY <1>3, <1>8, <2>2, <2>3, <2>4
  <2>7. WalkAll(T, a, b, k + 1, v)
    BY <1>1, <1>3, <2>2, <2>3, <2>5 DEF WalkAll
  <2> QED BY <1>5, <2>7
<1>9. CASE i <= n /\ j <= l /\ b[j] < a[i]
  <2>1. v = [i |-> i, j |-> j + 1, out |-> w.out]
    <3>1. ~ (i > n) /\ ~ (j > l) /\ ~ (a[i] < b[j]) /\ a[i] # b[j]
      BY <1>4, <1>9
    <3> QED BY <1>1, <1>2, <1>5, <1>9, <3>1 DEF Walk
  <2>2. v.i = i /\ v.j = j + 1 /\ v.out = w.out
    BY <2>1
  <2>0. i <= n /\ j <= l
    BY <1>9
  <2>4. i + j >= k + 2
    BY <1>3, <2>0
  <2>3. j + 1 \in 1 .. l + 1 /\ i + (j + 1) >= k + 1 + 2
    BY <2>0, <2>4
  <2>7. WalkAll(T, a, b, k + 1, v)
    BY <1>1, <1>3, <2>2, <2>3 DEF WalkAll
  <2> QED BY <1>5, <2>7
<1> QED BY <1>4, <1>6, <1>7, <1>8, <1>9

\* What it gives are elements of a, and all of them that are not in b,
\* whatever the order of b.
LEMMA DifferenceWhole ==
  ASSUME NEW T \in SUBSET Int, NEW a \in Seq(T), NEW b \in Seq(Int)
  PROVE  /\ \A ip \in set_difference(a, b) : ip \in T
         /\ \A m \in 1 .. Len(a) : a[m] \in set_difference(a, b) \/ a[m] \in ToSet(b)
<1>1. PICK n \in Nat : n = Len(a) + Len(b)
  OBVIOUS
<1>2. PICK c : TakesWalk(a, b, n, c)
  BY <1>1, DifferenceWalk
<1>3. /\ set_difference(a, b) = c[n].out /\ c[0] = Walker
      /\ \A k \in 0 .. n : k # 0 => c[k] = Walk(a, b, c[k - 1])
  BY <1>2 DEF TakesWalk
<1> DEFINE Bad == {k \in 0 .. n : ~ WalkAll(T, a, b, k, c[k])}
<1>6. WalkAll(T, a, b, 0, Walker)
  BY DEF WalkAll, Walker
<1>7. Bad = {}
  <2> SUFFICES ASSUME Bad # {} PROVE FALSE
    OBVIOUS
  <2>1. PICK k \in Bad : \A y \in Bad : k <= y
    BY Bad \subseteq Nat, LeastOf
  <2>2. k \in 0 .. n /\ ~ WalkAll(T, a, b, k, c[k]) /\ k # 0
    BY <1>3, <1>6, <2>1
  <2>3. k - 1 \in 0 .. n /\ ~ (k <= k - 1) /\ k - 1 \in Nat /\ (k - 1) + 1 = k
    BY <2>2
  <2>4. WalkAll(T, a, b, k - 1, c[k - 1])
    BY <2>1, <2>3
  <2>5. WalkAll(T, a, b, (k - 1) + 1, Walk(a, b, c[k - 1]))
    BY <2>3, <2>4, WalkAllKeeps
  <2> QED BY <1>3, <2>2, <2>3, <2>5
<1>8. WalkAll(T, a, b, n, c[n])
  BY <1>7, n \in 0 .. n
<1>9. DOMAIN b = 1 .. Len(b)
  OBVIOUS
<1>10. PICK d \in Nat, l \in Nat : d = Len(a) /\ l = Len(b)
  OBVIOUS
<1>11. PICK i \in 1 .. d + 1, j \in 1 .. l + 1 : i = c[n].i /\ j = c[n].j
  BY <1>8, <1>10 DEF WalkAll
<1>12. i <= d => i + j >= n + 2
  BY <1>8, <1>10, <1>11 DEF WalkAll
<1>13. i = d + 1
  BY <1>1, <1>10, <1>11, <1>12
<1>14. \A m \in 1 .. Len(a) : m < c[n].i
  BY <1>10, <1>11, <1>13
<1> QED BY <1>3, <1>8, <1>9, <1>14 DEF WalkAll, ToSet

\* What it gives is not in b, if b ascends.
LEMMA DifferenceRight ==
  ASSUME NEW T \in SUBSET Int, NEW a \in Seq(T), NEW b \in Seq(Int),
         \A i, j \in 1 .. Len(a) : i < j => a[i] < a[j],
         \A i, j \in 1 .. Len(b) : i < j => b[i] <= b[j]
  PROVE  \A ip \in set_difference(a, b) : ip \in T /\ ip \notin ToSet(b)
<1>1. PICK n \in Nat : n = Len(a) + Len(b)
  OBVIOUS
<1>2. PICK c : TakesWalk(a, b, n, c)
  BY <1>1, DifferenceWalk
<1>3. /\ set_difference(a, b) = c[n].out /\ c[0] = Walker
      /\ \A k \in 0 .. n : k # 0 => c[k] = Walk(a, b, c[k - 1])
  BY <1>2 DEF TakesWalk
<1> DEFINE Bad == {k \in 0 .. n : ~ WalkOk(T, a, b, c[k])}
<1>6. WalkOk(T, a, b, Walker)
  BY DEF WalkOk, Walker
<1>7. Bad = {}
  <2> SUFFICES ASSUME Bad # {} PROVE FALSE
    OBVIOUS
  <2>1. PICK k \in Bad : \A y \in Bad : k <= y
    BY Bad \subseteq Nat, LeastOf
  <2>2. k \in 0 .. n /\ ~ WalkOk(T, a, b, c[k]) /\ k # 0
    BY <1>3, <1>6, <2>1
  <2>3. k - 1 \in 0 .. n /\ ~ (k <= k - 1)
    BY <2>2
  <2>4. WalkOk(T, a, b, c[k - 1])
    BY <2>1, <2>3
  <2>5. WalkOk(T, a, b, Walk(a, b, c[k - 1]))
    BY <2>4, WalkKeeps
  <2> QED BY <1>3, <2>2, <2>5
<1>8. WalkOk(T, a, b, c[n])
  BY <1>7, n \in 0 .. n
<1>9. DOMAIN b = 1 .. Len(b)
  OBVIOUS
<1> QED BY <1>3, <1>8, <1>9 DEF WalkOk, ToSet
-----------------------------------------------------------------------------
(* The programs of SndAttackerIPMergeTask *)

Segments(bytes) == {Segment(ip, bytes) : ip \in Left}

LEMMA SegmentFacts ==
  ASSUME WidthAssumption, ByteAssumption, NEW bytes \in {1, 2}
  PROVE  /\ W - bytes * Byte \in 0 .. W /\ NetSize(W - bytes * Byte) = PowerOf2(bytes * Byte)
         /\ bytes * Byte \in Nat
         /\ 1 * Byte = Byte /\ 2 * Byte \in Nat /\ PowerOf2(Byte) \in Nat \ {0} /\ PowerOf2(2 * Byte) \in Nat \ {0}
         /\ PowerOf2(Byte) <= PowerOf2(2 * Byte)
         /\ \E q \in Nat : PowerOf2(2 * Byte) = PowerOf2(Byte) * q
<1>1. W \in Nat /\ Byte \in Nat /\ W > 2 * Byte /\ 1 * Byte = Byte /\ 2 * Byte \in Nat /\ Byte <= 2 * Byte
  BY DEF WidthAssumption, ByteAssumption
<1>2. bytes * Byte \in Nat /\ bytes * Byte <= W
  <2>1. CASE bytes = 1
    BY <1>1, <2>1
  <2>2. CASE bytes = 2
    BY <1>1, <2>2
  <2> QED BY <2>1, <2>2
<1>3. W - bytes * Byte \in 0 .. W /\ W - (W - bytes * Byte) = bytes * Byte
  BY <1>1, <1>2
<1>4. NetSize(W - bytes * Byte) = PowerOf2(bytes * Byte)
  BY <1>3 DEF NetSize
<1>5. PowerOf2(Byte) \in Nat \ {0} /\ PowerOf2(2 * Byte) \in Nat \ {0}
  BY <1>1, PowerNext
<1>6. PowerOf2(Byte) <= PowerOf2(2 * Byte) /\ \E q \in Nat : PowerOf2(2 * Byte) = PowerOf2(Byte) * q
  BY <1>1, PowerGrows
<1> QED BY <1>1, <1>2, <1>3, <1>4, <1>5, <1>6

\* A segment is a block, and what is left in it are its members.
LEMMA SegmentBlock ==
  ASSUME WidthAssumption, ByteAssumption, NEW bytes \in {1, 2}, Left \subseteq Addr,
         NEW s \in Segments(bytes), NEW c, c = [ip |-> s, len |-> W - bytes * Byte]
  PROVE  /\ s \in Nat /\ IsBlock(c) /\ Block(c) = s .. s + PowerOf2(bytes * Byte) - 1
         /\ Members(s, bytes) = Left \cap Block(c) /\ Members(s, bytes) # {} /\ Block(c) \subseteq Addr
<1>1. PICK ip \in Left : s = Segment(ip, bytes)
  BY DEF Segments
<1>2. s = network(ip, W - bytes * Byte) /\ ip \in Addr
  BY <1>1 DEF Segment
<1>3. W - bytes * Byte \in 0 .. W /\ NetSize(W - bytes * Byte) = PowerOf2(bytes * Byte)
  BY SegmentFacts
<1>4. IsBlock(c) /\ ip \in Block(c)
  BY <1>2, <1>3, Around
<1>5. c.ip = s /\ c.len = W - bytes * Byte
  OBVIOUS
<1>6. s \in Nat /\ Block(c) = s .. s + PowerOf2(bytes * Byte) - 1 /\ \A x \in Block(c) : network(x, W - bytes * Byte) = s
  BY <1>3, <1>4, <1>5, BlockFacts
<1>7. ASSUME NEW x \in Left, Segment(x, bytes) = s PROVE x \in Block(c)
  <2>1. network(x, W - bytes * Byte) = s /\ x \in Addr
    BY <1>7 DEF Segment
  <2> QED BY <1>3, <2>1, Around
<1>8. Members(s, bytes) = Left \cap Block(c)
  BY <1>6, <1>7 DEF Members, Segment
<1>9. Block(c) \subseteq Addr
  <2>1. W \in Nat /\ bytes * Byte \in Nat /\ bytes * Byte <= W
    BY <1>3, SegmentFacts DEF WidthAssumption
  <2>2. PICK g \in Nat \ {0}, q \in Nat \ {0}, p \in Nat \ {0} : g = PowerOf2(bytes * Byte) /\ p = PowerOf2(W) /\ p = g * q
    <3>1. PICK k \in Nat : k = bytes * Byte
      BY <2>1
    <3>2. PowerOf2(k) \in Nat \ {0} /\ PowerOf2(W) \in Nat \ {0}
      BY <2>1, PowerNext
    <3>3. \E q \in Nat \ {0} : PowerOf2(W) = PowerOf2(k) * q
      BY <2>1, <3>1, PowerGrows
    <3> QED BY <3>1, <3>2, <3>3
  <2>3. ip \in Nat /\ ip < p /\ ip <= g * q
    BY <1>2, <2>2 DEF Addr
  <2>4. PICK r \in 0 .. g - 1, t \in Nat : r = ip % g /\ ip - r = g * t /\ ip = g * t + r
    <3>1. ip % g \in 0 .. g - 1 /\ \E t \in Nat : ip - (ip % g) = g * t /\ ip = g * t + (ip % g)
      BY <2>3, Rounding
    <3> QED BY <3>1
  <2>5. s = g * t
    BY <1>2, <1>3, <2>2, <2>4 DEF network
  <2>6. t + 1 <= q
    <3>1. CASE q <= t
      <4>1. g * q <= g * t /\ g * t \in Nat /\ g * q \in Nat
        BY <3>1, MulGrows
      <4> QED BY <2>2, <2>3, <2>4, <4>1
    <3> QED BY <3>1
  <2>7. g * (t + 1) <= g * q /\ g * (t + 1) = g * t + g
    BY <2>6, MulGrows
  <2>8. s + g - 1 <= p - 1
    <3>1. PICK z \in Nat : z = g * t
      OBVIOUS
    <3>2. z + g <= p
      BY <2>2, <2>7, <3>1
    <3> QED BY <2>5, <3>1, <3>2
  <2>9. \A x \in s .. s + g - 1 : x \in 0 .. p - 1
    BY <1>6, <2>8
  <2> QED BY <1>6, <2>2, <2>9 DEF Addr
<1> QED BY <1>4, <1>6, <1>8, <1>9

\* A range of addresses within Addr is covered by its blocks, and by no more.
LEMMA RangeBlocks ==
  ASSUME WidthAssumption, NEW lo \in Nat, NEW hi \in Nat, lo .. hi \subseteq Addr,
         NEW from, NEW to, network(from.ip, from.len) = lo, broadcast(to.ip, to.len) = hi
  PROVE  /\ \A c \in iprange_to_cidrs(from, to) : Block(c) \subseteq lo .. hi
         /\ \A x \in lo .. hi : \E c \in iprange_to_cidrs(from, to) : x \in Block(c)
<1>1. iprange_to_cidrs(from, to) = Largest(lo .. hi)
  BY DEF iprange_to_cidrs
<1>2. \A x \in lo .. hi : \E c \in Largest(lo .. hi) : x \in Block(c)
  BY LargestCovers
<1>3. \A c \in Largest(lo .. hi) : Block(c) \subseteq lo .. hi
  BY LargestWithin
<1> QED BY <1>1, <1>2, <1>3

\* Program2: the blocks of a /24 lie in it and hold its members.
LEMMA Fw3Right ==
  ASSUME WidthAssumption, ByteAssumption, Left \subseteq Addr, NEW s \in Segments(1)
  PROVE  /\ \A c \in Fw3Blocks(s) : Block(c) \cap Left \subseteq Members(s, 1)
         /\ \A ip \in Members(s, 1) : \E c \in Fw3Blocks(s) : ip \in Block(c)
<1> DEFINE whole == [ip |-> s, len |-> W - 1 * Byte]
           P4List == {uint8(ip) : ip \in Members(s, 1)}
<1>1. PICK g \in Nat \ {0} : g = PowerOf2(Byte) /\ 1 * Byte = Byte
  BY SegmentFacts
<1>2. /\ s \in Nat /\ Block(whole) = s .. s + g - 1 /\ Members(s, 1) = Left \cap Block(whole)
      /\ Members(s, 1) # {} /\ Block(whole) \subseteq Addr
  BY <1>1, SegmentBlock
<1>3. ASSUME NEW ip \in Members(s, 1) PROVE uint8(ip) \in 0 .. g - 1 /\ ip = s + uint8(ip) /\ ip \in s .. s + g - 1
  <2>1. ip \in Left /\ network(ip, W - 1 * Byte) = s /\ ip \in s .. s + g - 1
    BY <1>2 DEF Members, Segment
  <2>2. NetSize(W - 1 * Byte) = g
    BY <1>1, SegmentFacts
  <2>3. ip - (ip % g) = s /\ uint8(ip) = ip % g
    BY <1>1, <2>1, <2>2 DEF network, uint8
  <2>4. ip \in Nat
    BY <1>2, <2>1
  <2>5. ip % g \in 0 .. g - 1
    BY <2>4
  <2> QED BY <2>1, <2>3, <2>4, <2>5
<1>4. P4List \subseteq 0 .. g - 1 /\ P4List # {}
  BY <1>2, <1>3
<1>5. PICK lo \in P4List, hi \in P4List : lo = Min(P4List) /\ hi = Max(P4List) /\ \A y \in P4List : lo <= y /\ y <= hi
  <2>1. P4List \subseteq Nat /\ \A y \in P4List : y <= g
    BY <1>4
  <2>2. \E x \in P4List : \A y \in P4List : x <= y
    BY <1>4, <2>1, LeastOf
  <2>3. \E x \in P4List : \A y \in P4List : x >= y
    <3>1. \E x \in P4List : \A y \in P4List : y <= x
      BY <1>4, g - 1 \in Nat, LargestOf
    <3>2. PICK x \in P4List : \A y \in P4List : y <= x
      BY <3>1
    <3>3. \A y \in P4List : x >= y
      BY <2>1, <3>2
    <3> QED BY <3>3
  <2>4. Min(P4List) \in P4List /\ \A y \in P4List : Min(P4List) <= y
    BY <2>2 DEF Min
  <2>5. Max(P4List) \in P4List /\ \A y \in P4List : Max(P4List) >= y
    BY <2>3 DEF Max
  <2>6. \A y \in P4List : y <= Max(P4List)
    BY <2>1, <2>5
  <2> QED BY <2>4, <2>5, <2>6
<1>6. CASE hi - lo >= RangeMin \/ Cardinality(P4List) >= opts.ipSegCoverThreshold
  <2>1. Fw3Blocks(s) = {whole}
    BY <1>1, <1>5, <1>6 DEF Fw3Blocks
  <2> QED BY <1>2, <2>1
<1>7. CASE ~ (hi - lo >= RangeMin \/ Cardinality(P4List) >= opts.ipSegCoverThreshold)
  <2> DEFINE from == [ip |-> s + lo, len |-> W]
             to == [ip |-> s + hi, len |-> W]
  <2>1. Fw3Blocks(s) = iprange_to_cidrs(from, to)
    BY <1>5, <1>7 DEF Fw3Blocks
  <2>2. lo \in 0 .. g - 1 /\ hi \in 0 .. g - 1
    BY <1>4
  <2>3. s + lo \in Nat /\ s + hi \in Nat /\ s + lo .. s + hi \subseteq s .. s + g - 1
    BY <1>2, <2>2
  <2>4. network(from.ip, from.len) = s + lo /\ broadcast(to.ip, to.len) = s + hi
    BY <2>3, Host
  <2>5. s + lo .. s + hi \subseteq Addr
    BY <1>2, <2>3
  <2> HIDE DEF from, to
  <2>6. /\ \A c \in Fw3Blocks(s) : Block(c) \subseteq s + lo .. s + hi
        /\ \A x \in s + lo .. s + hi : \E c \in Fw3Blocks(s) : x \in Block(c)
    BY <2>1, <2>3, <2>4, <2>5, RangeBlocks
  <2>7. \A ip \in Members(s, 1) : ip \in s + lo .. s + hi
    <3> SUFFICES ASSUME NEW ip \in Members(s, 1) PROVE ip \in s + lo .. s + hi
      OBVIOUS
    <3>1. PICK u \in 0 .. g - 1 : u = uint8(ip) /\ ip = s + u
      BY <1>3
    <3>2. lo <= u /\ u <= hi
      BY <1>5, <3>1
    <3> QED BY <1>2, <2>2, <3>1, <3>2, SMTT(30)
  <2> QED BY <1>2, <2>3, <2>6, <2>7
<1> QED BY <1>6, <1>7

\* Program3: the blocks of a /16 lie in it; they hold its members, or are
\* its first /24, for P3List holds nothing but zeros.
LEMMA Fw2Right ==
  ASSUME WidthAssumption, ByteAssumption, Left \subseteq Addr, NEW s \in Segments(2)
  PROVE  /\ \A c \in Fw2Blocks(s) : Block(c) \cap Left \subseteq Members(s, 2)
         /\ \/ \A ip \in Members(s, 2) : \E c \in Fw2Blocks(s) : ip \in Block(c)
            \/ [ip |-> s, len |-> W - Byte] \in Fw2Blocks(s)
<1> DEFINE whole == [ip |-> s, len |-> W - 2 * Byte]
           first == [ip |-> s, len |-> W - Byte]
           P3List == {uint8((ip % PowerOf2(2 * Byte)) - uint8(ip)) : ip \in Members(s, 2)}
<1>1. PICK g \in Nat \ {0}, h \in Nat \ {0}, q \in Nat : g = PowerOf2(Byte) /\ h = PowerOf2(2 * Byte) /\ h = g * q /\ g <= h
  BY SegmentFacts
<1>2. /\ s \in Nat /\ Block(whole) = s .. s + h - 1 /\ Members(s, 2) = Left \cap Block(whole)
      /\ Members(s, 2) # {} /\ Block(whole) \subseteq Addr /\ IsBlock(whole)
  BY <1>1, SegmentBlock
<1>3. ASSUME NEW ip \in Members(s, 2) PROVE uint8((ip % PowerOf2(2 * Byte)) - uint8(ip)) = 0
  <2>1. ip \in Nat
    BY <1>2
  <2>2. PICK r \in 0 .. h - 1 : r = ip % h
    BY <2>1
  <2>3. PICK t \in Nat, a \in Nat : ip = h * t + r /\ r = g * a + (r % g) /\ r - (r % g) = g * a
    <3>1. PICK t \in Nat : ip = h * t + r
      BY <2>1, <2>2, Rounding
    <3>2. r \in Nat
      BY <2>2
    <3>3. PICK a \in Nat : r = g * a + (r % g) /\ r - (r % g) = g * a
      BY <3>2, Rounding
    <3> QED BY <3>1, <3>3
  <2>4. PICK b \in 0 .. g - 1 : b = r % g
    BY <2>2
  <2>5. ip - (ip % g) = g * (q * t + a)
    <3>1. h * t = g * (q * t)
      BY <1>1
    <3>2. g * (q * t + a) = g * (q * t) + g * a /\ q * t + a \in Nat
      OBVIOUS
    <3>3. PICK x \in Nat, y \in Nat : x = g * (q * t) /\ y = g * a
      OBVIOUS
    <3>4. ip = x + y + b /\ g * (q * t + a) = x + y
      BY <2>3, <2>4, <3>1, <3>2, <3>3
    <3>5. g * (q * t + a) <= ip /\ ip < g * (q * t + a) + g
      BY <2>4, <3>3, <3>4
    <3>6. q * t + a \in Nat
      OBVIOUS
    <3> QED BY <2>1, <3>5, <3>6, RoundingUnique
  <2>6. ip % g = b
    <3>1. PICK x \in Nat, y \in Nat : x = h * t /\ y = g * a
      OBVIOUS
    <3>2. g * (q * t + a) = x + y
      <4>1. h * t = g * (q * t)
        BY <1>1
      <4>2. g * (q * t + a) = g * (q * t) + g * a
        OBVIOUS
      <4> QED BY <3>1, <4>1, <4>2
    <3>3. ip = x + y + b
      BY <2>3, <2>4, <3>1
    <3>4. ip % g \in Int
      BY <2>1
    <3> QED BY <2>5, <3>1, <3>2, <3>3, <3>4
  <2>7. (ip % h) - uint8(ip) = g * a
    BY <1>1, <2>2, <2>3, <2>4, <2>6 DEF uint8
  <2>8. (g * a) - ((g * a) % g) = g * a /\ g * a \in Nat
    <3>1. PICK y \in Nat : y = g * a
      OBVIOUS
    <3>2. g * a <= y /\ y < g * a + g
      BY <3>1
    <3>3. y - (y % g) = g * a
      BY <3>2, RoundingUnique
    <3> QED BY <3>1, <3>3
  <2>9. (g * a) % g = 0
    <3>1. PICK y \in Nat : y = g * a
      OBVIOUS
    <3>2. y % g \in Int /\ y - (y % g) = y
      BY <2>8, <3>1
    <3> QED BY <3>1, <3>2
  <2> QED BY <1>1, <2>7, <2>9 DEF uint8
<1>4. P3List = {0}
  BY <1>2, <1>3
<1>5. Min({0}) = 0 /\ Max({0}) = 0
  BY DEF Min, Max
<1>6. CASE Cardinality(Members(s, 2)) >= opts.ipSegCoverThreshold
  <2>1. Fw2Blocks(s) = {whole}
    BY <1>6 DEF Fw2Blocks
  <2> QED BY <1>2, <2>1
<1>7. CASE ~ (Cardinality(Members(s, 2)) >= opts.ipSegCoverThreshold)
  <2>1. s + 0 * PowerOf2(Byte) = s
    BY <1>1, <1>2
  <2>2. Fw2Blocks(s) = iprange_to_cidrs(first, first)
    BY <1>4, <1>5, <1>7, <2>1 DEF Fw2Blocks
  <2>3. W - Byte \in 0 .. W /\ NetSize(W - Byte) = g
    BY <1>1, SegmentFacts
  <2>4. \E t \in Nat : s = g * t
    <3>1. PICK ip \in Left : s = network(ip, W - 2 * Byte)
      BY DEF Segments, Segment
    <3>2. ip \in Nat
      <4>1. PICK p \in Nat : p = PowerOf2(W)
        BY PowerNext DEF WidthAssumption
      <4> QED BY <4>1 DEF Addr
    <3>3. NetSize(W - 2 * Byte) = h
      BY <1>1, SegmentFacts
    <3>4. PICK t \in Nat : s = h * t
      BY <3>1, <3>2, <3>3, Rounding DEF network
    <3>5. h * t = g * (q * t) /\ q * t \in Nat
      BY <1>1
    <3> QED BY <3>4, <3>5
  <2>5. network(s, W - Byte) = s
    <3>1. PICK t \in Nat : s = g * t
      BY <2>4
    <3>2. g * t <= s /\ s < g * t + g
      BY <1>2, <3>1
    <3>3. s - (s % g) = g * t
      BY <1>2, <3>2, RoundingUnique
    <3> QED BY <2>3, <3>1, <3>3 DEF network
  <2>6. broadcast(s, W - Byte) = s + g - 1
    BY <2>3, <2>5 DEF broadcast
  <2>7. s \in Addr
    <3>1. s \in s .. s + h - 1
      BY <1>2
    <3> QED BY <1>2, <3>1
  <2>8. first.ip = s /\ first.len = W - Byte
    OBVIOUS
  <2>9. IsBlock(first)
    BY <2>3, <2>5, <2>7, <2>8 DEF IsBlock, Addr
  <2>10. Block(first) = s .. s + g - 1
    BY <2>6, <2>8 DEF Block
  <2>11. Fw2Blocks(s) = Largest(Block(first))
    BY <2>2, <2>5, <2>6, <2>8, <2>10 DEF iprange_to_cidrs
  <2>12. first \in Fw2Blocks(s)
    BY <2>9, <2>11, LargestOfBlock
  <2>13. s .. s + g - 1 \subseteq s .. s + h - 1
    BY <1>1, <1>2, SMTT(30)
  <2>14. \A c \in Fw2Blocks(s) : Block(c) \subseteq Block(whole)
    <3>1. Block(first) \subseteq Block(whole)
      BY <1>2, <2>10, <2>13
    <3>2. \A c \in Largest(Block(first)) : Block(c) \subseteq Block(first)
      BY LargestWithin
    <3> HIDE DEF first, whole
    <3> QED BY <2>11, <3>1, <3>2
  <2> QED BY <1>2, <2>12, <2>14
<1> QED BY <1>6, <1>7

\* What a program reports and erases keeps the invariant, if its blocks hold
\* nothing that stays and what it erases is in them.
LEMMA ReportKeeps ==
  ASSUME MergeInv, NEW blocks, NEW gone \in SUBSET Left, Report(blocks, gone), prog \in 1 .. 3,
         \A c \in blocks : Block(c) \cap Left \subseteq gone,
         \A ip \in gone : \/ \E c \in blocks : ip \in Block(c)
                          \/ prog = 3 /\ [ip |-> Segment(ip, 2), len |-> W - Byte] \in blocks
  PROVE  MergeInv'
<1>1. /\ attackerIPs' = [attackerIPs EXCEPT ![prog] = blocks] /\ ipCountDF' = Restrict(ipCountDF, Left \ gone)
      /\ prog' \in {Sent, prog + 1} /\ opts' = opts /\ input' = input /\ all_known_ips' = all_known_ips
      /\ randomIPs' = randomIPs /\ containRandomAttack' = containRandomAttack
  BY DEF Report
<1>2. DOMAIN ipCountDF' = Left \ gone /\ \A ip \in Left \ gone : ipCountDF'[ip] = ipCountDF[ip]
  BY <1>1 DEF Restrict
<1>3. Left' = Left \ gone
  BY <1>2 DEF Left
<1>4. /\ DOMAIN attackerIPs = 1 .. 3 /\ attackerIPs[prog] = {} /\ attackerIPs'[prog] = blocks
      /\ \A i \in 1 .. 3 : i # prog => attackerIPs'[i] = attackerIPs[i]
      /\ DOMAIN attackerIPs' = 1 .. 3
  BY <1>1 DEF MergeInv
<1>5. \A c : c \in attackerIPs'[1] \cup attackerIPs'[2] \cup attackerIPs'[3] <=>
               c \in attackerIPs[1] \cup attackerIPs[2] \cup attackerIPs[3] \/ c \in blocks
  BY <1>4
<1>6. Reported = UNION {Block(c) : c \in attackerIPs[1] \cup attackerIPs[2] \cup attackerIPs[3]}
  BY DEF Reported
<1>7. Reported' = UNION {Block(c) : c \in attackerIPs'[1] \cup attackerIPs'[2] \cup attackerIPs'[3]}
  BY DEF Reported, Block, broadcast, network
<1>8. \A ip : ip \in Reported' <=> ip \in Reported \/ \E c \in blocks : ip \in Block(c)
  BY <1>5, <1>6, <1>7
<1>9. Reported \cap Left = {} /\ Lost = DOMAIN input \ (Reported \cup Left)
  BY DEF MergeInv, AttackersRight, NormalIsSpared, Lost
<1>10. NormalIsSpared'
  BY <1>3, <1>8, <1>9 DEF NormalIsSpared
<1>11. LostByProgram3'
  <2>1. Lost' = DOMAIN input \ (Reported' \cup (Left \ gone))
    BY <1>1, <1>3 DEF Lost
  <2>2. ASSUME NEW ip \in Lost' PROVE [ip |-> Segment(ip, 2), len |-> W - Byte] \in attackerIPs'[3]
    <3>1. CASE ip \in Lost
      <4>1. [ip |-> Segment(ip, 2), len |-> W - Byte] \in attackerIPs[3]
        BY <3>1 DEF MergeInv, AttackersRight, LostByProgram3
      <4>2. prog # 3
        BY <1>4, <4>1
      <4> QED BY <1>4, <4>1, <4>2
    <3>2. CASE ip \notin Lost
      <4>1. ip \in gone /\ ~ \E c \in blocks : ip \in Block(c)
        BY <1>8, <1>9, <2>1, <2>2, <3>2
      <4> QED BY <1>4, <4>1
    <3> QED BY <3>1, <3>2
  <2> QED BY <2>2 DEF LostByProgram3, Segment, network
<1>12. RandomIsRare'
  <2>1. randomIPs' = {} /\ ~ containRandomAttack'
    BY <1>1 DEF MergeInv, Sent
  <2> QED BY <2>1 DEF RandomIsRare, RandomIsUnknown
<1>13. AttackersRight'
  BY <1>10, <1>11, <1>12 DEF AttackersRight
<1>14. /\ input' \in Counts /\ prog' \in 1 .. Sent
       /\ Left' \subseteq DOMAIN input' /\ \A ip \in Left' : ipCountDF'[ip] = input'[ip]
  <2>1. input' \in Counts /\ prog' \in 1 .. Sent
    BY <1>1 DEF MergeInv, Sent
  <2>2. Left \subseteq DOMAIN input /\ \A ip \in Left : ipCountDF[ip] = input[ip]
    BY DEF MergeInv
  <2> QED BY <1>1, <1>2, <1>3, <2>1, <2>2
<1>15. \A i \in 1 .. 3 : i >= prog' => attackerIPs'[i] = {}
  BY <1>1, <1>4 DEF MergeInv, Sent
<1>16. /\ all_known_ips' \in Seq(0 .. PowerOf2(W) - 1)
       /\ prog' # Sent => randomIPs' = {} /\ ~ containRandomAttack'
  BY <1>1 DEF MergeInv, Sent
<1> QED BY <1>4, <1>13, <1>14, <1>15, <1>16 DEF MergeInv

LEMMA MergeInitInv ==
  ASSUME WidthAssumption, CountsAssumption, AloneInit
  PROVE  MergeInv
<1>1. /\ input \in Counts /\ ipCountDF = input /\ prog = 1 /\ attackerIPs = <<{}, {}, {}>>
      /\ randomIPs = {} /\ ~ containRandomAttack /\ \E r \in Requests : all_known_ips \in KnownIPs(r)
  BY DEF AloneInit, MergeInit
<1>2. PICK r \in Requests : all_known_ips \in KnownIPs(r)
  BY <1>1
<1>3. all_known_ips = r \/ all_known_ips \in [DOMAIN r -> ToSet(r)]
  BY <1>2 DEF KnownIPs
<1>4. all_known_ips \in Seq(0 .. PowerOf2(W) - 1)
  <2> DEFINE T == 0 .. PowerOf2(W) - 1
  <2>1. r \in Seq(T)
    BY DEF CountsAssumption
  <2> HIDE DEF T
  <2>2. DOMAIN r = 1 .. Len(r) /\ Len(r) \in Nat /\ ToSet(r) \subseteq T
    BY <2>1 DEF ToSet
  <2>3. ASSUME all_known_ips # r PROVE all_known_ips \in Seq(T)
    <3>1. all_known_ips \in [1 .. Len(r) -> T]
      BY <1>3, <2>2, <2>3
    <3> QED BY <2>2, <3>1, SeqDef
  <2>4. all_known_ips \in Seq(T)
    BY <2>1, <2>3
  <2> QED BY <2>4 DEF T
<1>5. Left = DOMAIN input
  BY <1>1 DEF Left
<1>6. Lost = {}
  BY <1>5 DEF Lost
<1>7. Reported = {}
  BY <1>1 DEF Reported
<1>8. AttackersRight
  BY <1>1, <1>6, <1>7 DEF AttackersRight, LostByProgram3, NormalIsSpared, RandomIsRare, RandomIsUnknown
<1>9. DOMAIN attackerIPs = 1 .. 3 /\ \A i \in 1 .. 3 : attackerIPs[i] = {}
  BY <1>1
<1>10. prog \in 1 .. Sent /\ prog # Sent
  BY <1>1 DEF Sent
<1> QED BY <1>1, <1>4, <1>5, <1>8, <1>9, <1>10 DEF MergeInv

LEMMA LeftIsAddr ==
  ASSUME CountsAssumption, MergeInv
  PROVE  Left \subseteq Addr
<1> QED BY DEF CountsAssumption, MergeInv, Addr

LEMMA Program1Keeps ==
  ASSUME WidthAssumption, ByteAssumption, CountsAssumption, MergeInv, Program1
  PROVE  MergeInv'
<1> DEFINE ipFw4 == {ip \in Left : ipCountDF[ip] >= Share(opts.ipFw4CountRatio, 1)}
           blocks == {[ip |-> ip, len |-> W] : ip \in ipFw4}
<1>1. prog = 1 /\ Report(blocks, ipFw4) /\ ipFw4 \in SUBSET Left
  BY DEF Program1
<1>2. \A ip \in ipFw4 : ip \in Nat
  <2>1. PICK p \in Nat : p = PowerOf2(W)
    BY PowerNext DEF WidthAssumption
  <2> QED BY <2>1, LeftIsAddr DEF Addr
<1> HIDE DEF ipFw4
<1>3. ASSUME NEW ip \in ipFw4 PROVE Block([ip |-> ip, len |-> W]) = {ip}
  <2>1. broadcast(ip, W) = ip /\ ip .. ip = {ip}
    BY <1>2, Host
  <2> QED BY <2>1 DEF Block
<1>4. \A c \in blocks : Block(c) \cap Left \subseteq ipFw4
  BY <1>3
<1>5. \A ip \in ipFw4 : \E c \in blocks : ip \in Block(c)
  BY <1>3
<1> HIDE DEF blocks
<1> QED BY <1>1, <1>4, <1>5, ReportKeeps

LEMMA Program2Keeps ==
  ASSUME WidthAssumption, ByteAssumption, CountsAssumption, MergeInv, Program2
  PROVE  MergeInv'
<1>1. PICK sus : sus = Suspects(1, opts.ipFw3CountRatio)
  OBVIOUS
<1> DEFINE blocks == UNION {Fw3Blocks(s) : s \in sus}
           gone == UNION {Members(s, 1) : s \in sus}
<1>2. prog = 2 /\ Report(blocks, gone)
  BY <1>1 DEF Program2
<1>3. sus \subseteq Segments(1)
  BY <1>1 DEF Suspects, Segments
<1>4. gone \in SUBSET Left
  BY DEF Members
<1>5. \A s \in sus : /\ \A c \in Fw3Blocks(s) : Block(c) \cap Left \subseteq Members(s, 1)
                     /\ \A ip \in Members(s, 1) : \E c \in Fw3Blocks(s) : ip \in Block(c)
  BY <1>3, LeftIsAddr, Fw3Right
<1>6. \A c \in blocks : Block(c) \cap Left \subseteq gone
  BY <1>5
<1>7. \A ip \in gone : \E c \in blocks : ip \in Block(c)
  BY <1>5
<1> HIDE DEF blocks, gone
<1> QED BY <1>2, <1>4, <1>6, <1>7, ReportKeeps

LEMMA Program3Keeps ==
  ASSUME WidthAssumption, ByteAssumption, CountsAssumption, MergeInv, Program3
  PROVE  MergeInv'
<1>1. PICK sus : sus = Suspects(2, opts.ipFw2CountRatio)
  OBVIOUS
<1> DEFINE blocks == UNION {Fw2Blocks(s) : s \in sus}
           gone == UNION {Members(s, 2) : s \in sus}
<1>2. prog = 3 /\ Report(blocks, gone)
  BY <1>1 DEF Program3
<1>3. sus \subseteq Segments(2)
  BY <1>1 DEF Suspects, Segments
<1>4. gone \in SUBSET Left
  BY DEF Members
<1>5. \A s \in sus : /\ \A c \in Fw2Blocks(s) : Block(c) \cap Left \subseteq Members(s, 2)
                     /\ \/ \A ip \in Members(s, 2) : \E c \in Fw2Blocks(s) : ip \in Block(c)
                        \/ [ip |-> s, len |-> W - Byte] \in Fw2Blocks(s)
  BY <1>3, LeftIsAddr, Fw2Right
<1>6. \A c \in blocks : Block(c) \cap Left \subseteq gone
  BY <1>5
<1>7. ASSUME NEW ip \in gone
      PROVE  \/ \E c \in blocks : ip \in Block(c)
             \/ [ip |-> Segment(ip, 2), len |-> W - Byte] \in blocks
  <2>1. PICK s \in sus : ip \in Members(s, 2)
    OBVIOUS
  <2>2. Segment(ip, 2) = s
    BY <2>1 DEF Members
  <2> QED BY <1>5, <2>1, <2>2
<1> HIDE DEF blocks, gone
<1> QED BY <1>2, <1>4, <1>6, <1>7, ReportKeeps

LEMMA Program4Keeps ==
  ASSUME WidthAssumption, ByteAssumption, CountsAssumption, MergeInv, Program4
  PROVE  MergeInv'
<1>1. /\ prog = 4 /\ prog' = Sent /\ opts' = opts /\ input' = input /\ all_known_ips' = all_known_ips
      /\ ipCountDF' = ipCountDF /\ attackerIPs' = attackerIPs
  BY DEF Program4
<1>2. PICK s \in all_DF3_ips :
         /\ randomIPs' \subseteq Rare(set_difference(s, all_known_ips))
         /\ containRandomAttack' => randomIPs' = Rare(set_difference(s, all_known_ips))
  BY DEF Program4
<1>3. PICK p \in Nat : p = PowerOf2(W)
  BY PowerNext DEF WidthAssumption
<1>4. Left \in SUBSET Int
  BY <1>3, LeftIsAddr DEF Addr
<1>5. PICK k \in Nat : k = Cardinality(Left) /\ IsFiniteSet(Left)
  <2>1. Left \subseteq 0 .. p - 1 /\ 0 \in Int /\ p - 1 \in Int
    BY <1>3, LeftIsAddr DEF Addr
  <2>2. IsFiniteSet(Left)
    BY <2>1, FS_Interval, FS_Subset
  <2> QED BY <2>2, FS_CardinalityType
<1>6. s \in [1 .. k -> Left] /\ \A i, j \in 1 .. k : i < j => s[i] < s[j]
  BY <1>2, <1>5 DEF all_DF3_ips
<1>7. PICK b : b = all_known_ips
  OBVIOUS
<1>8. b \in Seq(Int) /\ (Ascends(b) => \A i, j \in 1 .. Len(b) : i < j => b[i] <= b[j])
  <2> DEFINE T == 0 .. PowerOf2(W) - 1
  <2>1. b \in Seq(T)
    BY <1>7 DEF MergeInv
  <2>2. T \subseteq Int
    BY <1>3
  <2> HIDE DEF T
  <2>3. DOMAIN b = 1 .. Len(b) /\ b \in [1 .. Len(b) -> T] /\ Len(b) \in Nat
    BY <2>1
  <2>4. b \in [1 .. Len(b) -> Int]
    BY <2>2, <2>3
  <2>5. b \in Seq(Int)
    BY <2>3, <2>4, SeqDef
  <2> QED BY <2>3, <2>5 DEF Ascends
<1>9. s \in Seq(Left) /\ \A i, j \in 1 .. Len(s) : i < j => s[i] < s[j]
  <2>1. s \in Seq(Left)
    BY <1>6, SeqDef
  <2>2. Len(s) = k
    BY <1>6, <2>1
  <2> QED BY <1>6, <2>1, <2>2
<1>10. Ascends(b) => \A ip \in set_difference(s, b) : ip \notin ToSet(b)
  BY <1>4, <1>8, <1>9, DifferenceRight
<1>11. /\ \A ip \in set_difference(s, b) : ip \in Left
       /\ \A m \in 1 .. Len(s) : s[m] \in set_difference(s, b) \/ s[m] \in ToSet(b)
  BY <1>4, <1>8, <1>9, DifferenceWhole
<1>12. \A ip \in Left : \E m \in 1 .. Len(s) : s[m] = ip
  <2>1. Cardinality(1 .. k) = k
    BY <1>5, FS_Interval
  <2>2. \A i, j \in 1 .. k : s[i] = s[j] => i = j
    <3>1. \A i \in 1 .. k : s[i] \in Int
      BY <1>4, <1>6
    <3>2. ASSUME NEW i \in 1 .. k, NEW j \in 1 .. k, s[i] = s[j] PROVE i = j
      <4>1. ~ (i < j) /\ ~ (j < i)
        BY <1>6, <3>1, <3>2
      <4> QED BY <4>1
    <3> QED BY <3>2
  <2>3. s \in Injection(1 .. k, Left)
    BY <1>6, <2>2 DEF Injection, IsInjective
  <2>4. s \in Surjection(1 .. k, Left)
    BY <1>5, <2>1, <2>3, FS_Injection
  <2>5. Len(s) = k
    BY <1>6, <1>9
  <2> QED BY <2>4, <2>5 DEF Surjection
<1>13. \A ip \in Left : ipCountDF[ip] = input[ip]
  BY DEF MergeInv
<1>14. Left' = Left
  BY <1>1 DEF Left
<1>15. RandomIsRare'
  <2>1. \A ip \in randomIPs' : ip \in set_difference(s, b) /\ ip \in Left /\ input[ip] <= opts.ipRandCountThreshold
    BY <1>2, <1>7, <1>11, <1>13 DEF Rare
  <2>2. ASSUME containRandomAttack', NEW ip \in Left, ip \notin ToSet(b), input[ip] <= opts.ipRandCountThreshold
        PROVE  ip \in randomIPs'
    <3>1. ip \in set_difference(s, b)
      BY <1>11, <1>12, <2>2
    <3> QED BY <1>2, <1>7, <1>13, <2>2, <3>1 DEF Rare
  <2>3. ASSUME Ascends(b) PROVE randomIPs' \cap ToSet(b) = {}
    BY <1>10, <2>1, <2>3
  <2>4. all_known_ips' = b /\ (Ascends(all_known_ips)' <=> Ascends(b)) /\ ToSet(all_known_ips)' = ToSet(b)
    BY <1>1, <1>7 DEF Ascends, ToSet
  <2> QED BY <1>1, <1>14, <2>1, <2>2, <2>3, <2>4 DEF RandomIsRare, RandomIsUnknown
<1>16. LostByProgram3' /\ NormalIsSpared'
  BY <1>1 DEF MergeInv, AttackersRight, LostByProgram3, NormalIsSpared, Lost, Reported, Left, Block, broadcast, network, Segment
<1> QED BY <1>1, <1>14, <1>15, <1>16 DEF MergeInv, AttackersRight, Sent

\* AttackersRight (SndAttackerIPMergeTask), for addresses and bytes of any
\* width, any counts, requests and options: only Program3 loses what it
\* erases, no block holds what the programs leave, and the random addresses
\* are all the rare ones the request does not list, whatever its order.
THEOREM MergeRight ==
  ASSUME WidthAssumption, ByteAssumption, CountsAssumption
  PROVE  AloneSpec => []AttackersRight
<1>1. AloneInit => MergeInv
  BY MergeInitInv
<1>2. MergeInv /\ [Merge]_mergeVars => MergeInv'
  <2> SUFFICES ASSUME MergeInv, [Merge]_mergeVars PROVE MergeInv'
    OBVIOUS
  <2>1. CASE Program1
    BY <2>1, Program1Keeps
  <2>2. CASE Program2
    BY <2>2, Program2Keeps
  <2>3. CASE Program3
    BY <2>3, Program3Keeps
  <2>4. CASE Program4
    BY <2>4, Program4Keeps
  <2>5. CASE UNCHANGED mergeVars
    BY <2>5 DEF mergeVars, MergeInv, AttackersRight, LostByProgram3, NormalIsSpared, RandomIsRare, RandomIsUnknown, Lost,
                Reported, Left, Block, broadcast, network, Segment, ToSet, Ascends
  <2> QED BY <2>1, <2>2, <2>3, <2>4, <2>5 DEF Merge
<1>3. MergeInv => AttackersRight
  BY DEF MergeInv
<1> QED BY <1>1, <1>2, <1>3, PTL DEF AloneSpec
=============================================================================
