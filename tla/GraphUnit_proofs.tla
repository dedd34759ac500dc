-------------------------- MODULE GraphUnit_proofs --------------------------
(***************************************************************************)
(* For every configuration, of any number of nodes and names: what         *)
(* config.go accepts is wired as FlowGraph assumes, and it accepts exactly *)
(* the configurations that make sense.                                     *)
(***************************************************************************)
EXTENDS GraphUnit, SeqLemmas

\* The lists of a configuration are lists of names.
LEMMA ConfType ==
  ASSUME UnitTypeOK, NEW n \in UnitNode
  PROVE  /\ ins[n] \in Seq(Name) /\ outs[n] \in Seq(Name)
         /\ DOMAIN ins[n] = 1 .. Len(ins[n]) /\ Len(ins[n]) \in Nat
         /\ Range(ins[n]) \subseteq Name /\ Range(outs[n]) \subseteq Name
<1>1. ins[n] \in Seq(Name) /\ outs[n] \in Seq(Name)
  BY ConfAssumption DEF UnitTypeOK
<1> QED BY <1>1 DEF Range

\* The position of the loops, as a node.
LEMMA NidNode ==
  ASSUME UnitTypeOK, nid < UnitSize
  PROVE  nid \in UnitNode
BY ConfAssumption DEF UnitTypeOK, UnitNode

\* What one iteration of a loop over inputs adds to what was passed.
LEMMA PassedStep ==
  ASSUME UnitTypeOK, NEW s \in Name, Reading(s), pos' = pos + 1,
         UNCHANGED <<nid, stage, ins>>,
         NEW st, NEW later, NEW m \in UnitNode, NEW r \in Name
  PROVE  Passed(st, later, m, r)' <=>
           Passed(st, later, m, r) \/ (stage = st /\ m = nid /\ r = s)
                                  \/ (stage \in later /\ m = nid /\ r = s)
<1>1. nid \in UnitNode /\ pos \in DOMAIN ins[nid] /\ ins[nid][pos] = s /\ pos \in Nat
  BY NidNode DEF Reading, UnitTypeOK
<1>2. s \in Range(ins[nid])
  BY <1>1 DEF Range
<1>3. m \in Int /\ nid \in Int /\ \A j \in DOMAIN ins[m] : j \in Int
  BY <1>1, ConfType DEF UnitNode
<1>4. (\E j \in DOMAIN ins[nid] : j < pos + 1 /\ ins[nid][j] = r)
      <=> (\E j \in DOMAIN ins[nid] : j < pos /\ ins[nid][j] = r) \/ r = s
  <2>1. \A j \in DOMAIN ins[nid] : j < pos + 1 <=> j < pos \/ j = pos
    BY <1>1, ConfType
  <2> QED BY <1>1, <2>1
<1> QED BY <1>2, <1>3, <1>4 DEF Passed

\* The input a loop is at has not been passed yet: names do not repeat.
LEMMA NotPassed ==
  ASSUME UnitTypeOK, NEW s \in Name, Reading(s), IsInjective(ins[nid]), NEW st, NEW later,
         stage = st, stage \notin later
  PROVE  ~ Passed(st, later, nid, s)
<1>1. nid \in UnitNode /\ pos \in DOMAIN ins[nid] /\ ins[nid][pos] = s
  BY NidNode DEF Reading
<1>2. \A j \in DOMAIN ins[nid] : ins[nid][j] = s => j = pos
  BY <1>1 DEF IsInjective
<1>3. pos \in Int /\ nid \in Int
  BY <1>1, ConfType DEF UnitNode
<1> QED BY <1>2, <1>3 DEF Passed

\* Turning to the next node passes nothing.
LEMMA PassedNext ==
  ASSUME UnitTypeOK, PosInv, stage \in {"edge", "source"}, nid < UnitSize,
         pos \notin DOMAIN ins[nid], nid' = nid + 1, pos' = 1, UNCHANGED <<stage, ins>>,
         NEW st, NEW later, NEW m \in UnitNode, NEW r \in Name
  PROVE  Passed(st, later, m, r)' <=> Passed(st, later, m, r)
<1>1. nid \in UnitNode /\ pos = Len(ins[nid]) + 1
  BY NidNode, ConfType DEF PosInv
<1>2. \A j \in DOMAIN ins[nid] : j < pos
  BY <1>1, ConfType
<1>3. r \in Range(ins[nid]) => \E j \in DOMAIN ins[nid] : j < pos /\ ins[nid][j] = r
  BY <1>2 DEF Range
<1>4. \A j \in DOMAIN ins[m] : ~ (j < 1)
  BY ConfType
<1>5. m \in Int /\ nid \in Int /\ (m < nid + 1 <=> m < nid \/ m = nid)
  BY <1>1 DEF UnitNode
<1> QED BY <1>3, <1>4, <1>5 DEF Passed

LEMMA InitIInv == UnitInit => UnitInv
<1> SUFFICES ASSUME UnitInit PROVE UnitInv
  OBVIOUS
<1>0. /\ << >> \in Seq(UnitNode) /\ << >> \in Seq(Manager)
      /\ Range(<< >>) = {} /\ IsInjective(<< >>)
  BY DEF Range, IsInjective
<1>1. UnitTypeOK
  BY <1>0, ConfAssumption DEF UnitInit, UnitTypeOK, NoEdges, Stages, NoNode
<1>2. NamesInv
  BY ConfAssumption DEF UnitInit, NamesInv, Checked, UnitNode, NoNode
<1>3. EdgeInv
  BY <1>0 DEF UnitInit, EdgeInv, NoEdges, Edged, Sourced, Passed
<1>4. PosInv /\ SourcesInv /\ LinkInv
  BY DEF UnitInit, PosInv, SourcesInv, LinkInv, Edged, Passed
<1> QED BY <1>1, <1>2, <1>3, <1>4 DEF UnitInv

\* The parts of the invariant, of a configuration not yet rejected.
Good == UnitTypeOK /\ NamesInv /\ PosInv /\ EdgeInv /\ SourcesInv /\ LinkInv

\* Rejecting keeps the types, and nothing else is promised.
LEMMA RejectStep == UnitTypeOK /\ Reject => UnitInv'
<1> SUFFICES ASSUME UnitTypeOK, Reject PROVE UnitInv'
  OBVIOUS
<1>1. UnitTypeOK' /\ stage' = "rejected"
  BY DEF Reject, UnitTypeOK, conf, Stages
<1> QED BY <1>1 DEF UnitInv

\* Checking the names of a node: nodeOutputs stays the inverse of the outputs.
LEMMA CheckStep == Good /\ CheckNode => Good'
<1> SUFFICES ASSUME Good, CheckNode PROVE Good'
  OBVIOUS
<1> USE DEF Good, conf
<1>0. /\ stage = "check" /\ nid < UnitSize /\ nid \in UnitNode /\ nid \in Nat
      /\ IsInjective(ins[nid]) /\ IsInjective(outs[nid])
      /\ \A s \in Range(outs[nid]) : nodeOutputs[s] = NoNode
      /\ nodeOutputs' = [s \in Name |-> IF s \in Range(outs[nid]) THEN nid ELSE nodeOutputs[s]]
      /\ nid' = nid + 1
      /\ UNCHANGED <<gInputs, gOutputs, ins, outs, nodeEdge, preMap, sourceEdge, next,
                     pos, stage>>
  BY NidNode DEF CheckNode, InputTwice, OutputTaken, UnitTypeOK
<1>1. UnitTypeOK'
  BY <1>0, ConfAssumption DEF UnitTypeOK, Stages
<1>2. NamesInv'
  <2> SUFFICES ASSUME NEW n \in UnitNode
               PROVE  /\ n < nid + 1 => IsInjective(ins[n]) /\ IsInjective(outs[n])
                      /\ \A s \in Name : nodeOutputs'[s] = n
                                          <=> n < nid + 1 /\ s \in Range(outs[n])
    BY <1>0 DEF NamesInv, Checked
  <2>1. n \in Int /\ (n < nid + 1 <=> n < nid \/ n = nid)
    BY <1>0 DEF UnitNode
  <2>2. n < nid => IsInjective(ins[n]) /\ IsInjective(outs[n])
    BY <1>0 DEF NamesInv, Checked
  <2>3. ASSUME NEW s \in Name
        PROVE  nodeOutputs'[s] = n <=> n < nid + 1 /\ s \in Range(outs[n])
    <3>1. nodeOutputs[s] = n <=> n < nid /\ s \in Range(outs[n])
      BY <1>0 DEF NamesInv, Checked
    <3>2. n # NoNode
      BY DEF UnitNode, NoNode
    <3>3. CASE s \in Range(outs[nid])
      BY <1>0, <2>1, <3>1, <3>2, <3>3
    <3>4. CASE s \notin Range(outs[nid])
      BY <1>0, <2>1, <3>1, <3>4
    <3> QED BY <3>3, <3>4
  <2> QED BY <1>0, <2>1, <2>2, <2>3
<1>3. EdgeInv' /\ PosInv' /\ SourcesInv' /\ LinkInv'
  BY <1>0 DEF EdgeInv, PosInv, SourcesInv, LinkInv, Edged, Sourced, Passed
<1> QED BY <1>1, <1>2, <1>3

\* From one loop to the next.
LEMMA StageStep ==
  Good /\ (CheckDone \/ CheckOutputs \/ EdgeDone \/ CheckLoop \/ SourceDone) => Good'
<1> SUFFICES ASSUME Good,
                    CheckDone \/ CheckOutputs \/ EdgeDone \/ CheckLoop \/ SourceDone
             PROVE  Good'
  OBVIOUS
<1> USE DEF Good, conf
<1>0. /\ UNCHANGED <<gInputs, gOutputs, ins, outs, nodeOutputs, nodeEdge, preMap,
                     sourceEdge, next>>
      /\ \/ stage = "check" /\ nid = UnitSize /\ stage' = "outputs" /\ UNCHANGED <<nid, pos>>
         \/ /\ stage = "outputs" /\ stage' = "edge" /\ nid' = 0 /\ pos' = 1
            /\ \A s \in Range(gOutputs) : nodeOutputs[s] # NoNode
         \/ stage = "edge" /\ nid = UnitSize /\ stage' = "loop" /\ UNCHANGED <<nid, pos>>
         \/ stage = "loop" /\ stage' = "source" /\ nid' = 0 /\ pos' = 1
         \/ stage = "source" /\ nid = UnitSize /\ stage' = "link" /\ UNCHANGED <<nid, pos>>
  BY DEF CheckDone, CheckOutputs, EdgeDone, CheckLoop, SourceDone
<1>1. UnitTypeOK'
  BY <1>0, ConfAssumption DEF UnitTypeOK, Stages
<1>2. NamesInv'
  BY <1>0 DEF NamesInv, Checked
<1>3. PosInv'
  <2>1. 0 < UnitSize => Len(ins[0]) \in Nat
    BY ConfType, ConfAssumption DEF UnitNode
  <2> QED BY <1>0, <2>1 DEF PosInv
<1>4. ASSUME NEW m \in UnitNode, NEW s \in Name
      PROVE  (Edged(m, s)' <=> Edged(m, s)) /\ (Sourced(m, s)' <=> Sourced(m, s))
  <2>1. m < UnitSize /\ ~ (m < 0) /\ m \in Int /\ UnitSize \in Nat
    BY ConfAssumption DEF UnitNode
  <2>2. \A j \in DOMAIN ins[m] : ~ (j < 1)
    BY ConfType
  <2> QED BY <1>0, <2>1, <2>2 DEF Edged, Sourced, Passed
<1>5. EdgeInv'
  BY <1>0, <1>4 DEF EdgeInv
<1>6. SourcesInv'
  BY <1>0, <1>4 DEF SourcesInv
<1>7. LinkInv'
  BY <1>0 DEF LinkInv
<1> QED BY <1>1, <1>2, <1>3, <1>5, <1>6, <1>7

\* A graph input is no edge between nodes.
LEMMA GraphInputStep == ASSUME NEW s \in Name PROVE Good /\ GraphInput(s) => Good'
<1> SUFFICES ASSUME Good, GraphInput(s) PROVE Good'
  OBVIOUS
<1> USE DEF Good, conf
<1>0. /\ stage = "edge" /\ Reading(s) /\ s \in Range(gInputs) /\ pos' = pos + 1
      /\ UNCHANGED <<gInputs, gOutputs, ins, outs, nodeOutputs, nodeEdge, preMap,
                     sourceEdge, next, nid, stage>>
  BY DEF GraphInput, FromGraph
<1>1. UnitTypeOK'
  BY <1>0 DEF UnitTypeOK
<1>2. NamesInv' /\ LinkInv'
  BY <1>0 DEF NamesInv, Checked, LinkInv
<1>3. PosInv'
  BY <1>0, NidNode, ConfType DEF PosInv, Reading
<1>4. ASSUME NEW m \in UnitNode, NEW r \in Name
      PROVE  /\ Edged(m, r)' <=> Edged(m, r) \/ (m = nid /\ r = s)
             /\ ~ Sourced(m, r)' /\ ~ Sourced(m, r)
  <2>1. Edged(m, r)' <=> Edged(m, r) \/ (m = nid /\ r = s)
    BY <1>0, PassedStep DEF Edged
  <2>2. ~ Sourced(m, r)' /\ ~ Sourced(m, r)
    BY <1>0 DEF Sourced, Passed
  <2> QED BY <2>1, <2>2
<1>5. EdgeInv'
  BY <1>0, <1>4 DEF EdgeInv
<1>6. SourcesInv'
  BY <1>0, <1>4 DEF SourcesInv
<1> QED BY <1>1, <1>2, <1>3, <1>5, <1>6

\* An edge adds the reader to the list of its producer, where it is not yet.
LEMMA EdgeStep == ASSUME NEW s \in Name PROVE Good /\ Edge(s) => Good'
<1> SUFFICES ASSUME Good, Edge(s) PROVE Good'
  OBVIOUS
<1> USE DEF Good, conf
<1> DEFINE p == nodeOutputs[s]
           f == nodeEdge[p][s]
<1>0. /\ stage = "edge" /\ Reading(s) /\ s \notin Range(gInputs) /\ p # NoNode
      /\ nodeEdge' = [nodeEdge EXCEPT ![p][s] = Append(f, nid)]
      /\ preMap' = [preMap EXCEPT ![nid] = @ \cup {p}]
      /\ pos' = pos + 1
      /\ UNCHANGED <<gInputs, gOutputs, ins, outs, nodeOutputs, sourceEdge, next, nid,
                     stage>>
  BY DEF Edge, FromGraph
<1>1. p \in UnitNode /\ nid \in UnitNode /\ f \in Seq(UnitNode)
  BY <1>0, NidNode DEF UnitTypeOK, Reading
<1>2. nid \notin Range(f)
  <2>1. IsInjective(ins[nid])
    BY <1>0, <1>1, ConfAssumption DEF NamesInv, Checked, UnitNode
  <2>2. ~ Edged(nid, s)
    BY <1>0, <2>1, NotPassed DEF Edged
  <2> QED BY <1>1, <2>2 DEF EdgeInv
<1>3. /\ Append(f, nid) \in Seq(UnitNode) /\ IsInjective(Append(f, nid))
      /\ Range(Append(f, nid)) = Range(f) \cup {nid}
  BY <1>1, <1>2, AppendRange DEF EdgeInv
<1> HIDE DEF p, f
<1>4. /\ nodeEdge' \in [UnitNode -> [Name -> Seq(UnitNode)]]
      /\ nodeEdge'[p][s] = Append(f, nid)
      /\ \A n \in UnitNode, r \in Name : n # p \/ r # s => nodeEdge'[n][r] = nodeEdge[n][r]
  BY <1>0, <1>1, <1>3 DEF UnitTypeOK
<1>5. UnitTypeOK'
  BY <1>0, <1>1, <1>4 DEF UnitTypeOK
<1>6. NamesInv' /\ LinkInv'
  BY <1>0 DEF NamesInv, Checked, LinkInv
<1>7. PosInv'
  BY <1>0, NidNode, ConfType DEF PosInv, Reading
<1>8. ASSUME NEW m \in UnitNode, NEW r \in Name
      PROVE  /\ Edged(m, r)' <=> Edged(m, r) \/ (m = nid /\ r = s)
             /\ ~ Sourced(m, r)' /\ ~ Sourced(m, r)
  <2>1. Edged(m, r)' <=> Edged(m, r) \/ (m = nid /\ r = s)
    BY <1>0, PassedStep DEF Edged
  <2>2. ~ Sourced(m, r)' /\ ~ Sourced(m, r)
    BY <1>0 DEF Sourced, Passed
  <2> QED BY <2>1, <2>2
<1>9. EdgeInv'
  <2>1. ASSUME NEW n \in UnitNode, NEW r \in Name
        PROVE  /\ IsInjective(nodeEdge'[n][r])
               /\ \A m \in UnitNode :
                    m \in Range(nodeEdge'[n][r]) <=>
                      Edged(m, r)' /\ r \notin Range(gInputs) /\ nodeOutputs[r] = n
    <3>1. CASE n = p /\ r = s
      BY <1>0, <1>3, <1>4, <1>8, <3>1 DEF EdgeInv, p, f
    <3>2. CASE r = s /\ n # p
      BY <1>4, <1>8, <3>2 DEF EdgeInv, p
    <3>3. CASE r # s
      BY <1>4, <1>8, <3>3 DEF EdgeInv
    <3> QED BY <3>1, <3>2, <3>3
  <2>2. \A r \in Name : /\ IsInjective(sourceEdge'[r])
                        /\ \A m \in UnitNode : m \in Range(sourceEdge'[r]) <=>
                                          Sourced(m, r)' /\ r \in Range(gInputs)
    BY <1>0, <1>8 DEF EdgeInv
  <2> QED BY <1>0, <2>1, <2>2 DEF EdgeInv
<1>10. SourcesInv'
  BY <1>0, <1>8 DEF SourcesInv, p
<1> QED BY <1>5, <1>6, <1>7, <1>9, <1>10

\* Turning to the next node changes nothing but the position.
LEMMA NextStep == Good /\ EdgeNext => Good'
<1> SUFFICES ASSUME Good, EdgeNext PROVE Good'
  OBVIOUS
<1> USE DEF Good, conf
<1>0. /\ stage \in {"edge", "source"} /\ nid < UnitSize /\ pos \notin DOMAIN ins[nid]
      /\ nid' = nid + 1 /\ pos' = 1
      /\ UNCHANGED <<gInputs, gOutputs, ins, outs, nodeOutputs, nodeEdge, preMap,
                     sourceEdge, next, stage>>
  BY DEF EdgeNext
<1>1. UnitTypeOK'
  BY <1>0, ConfAssumption DEF UnitTypeOK
<1>2. NamesInv' /\ LinkInv'
  BY <1>0 DEF NamesInv, Checked, LinkInv
<1>3. PosInv'
  <2> SUFFICES ASSUME nid + 1 < UnitSize PROVE 1 \in 1 .. Len(ins[nid + 1]) + 1
    BY <1>0 DEF PosInv
  <2>1. nid + 1 \in UnitNode
    BY ConfAssumption DEF UnitTypeOK, UnitNode
  <2> QED BY <2>1, ConfType
<1>4. ASSUME NEW m \in UnitNode, NEW r \in Name
      PROVE  (Edged(m, r)' <=> Edged(m, r)) /\ (Sourced(m, r)' <=> Sourced(m, r))
  BY <1>0, PassedNext DEF Edged, Sourced
<1>5. EdgeInv'
  BY <1>0, <1>4 DEF EdgeInv
<1>6. SourcesInv'
  BY <1>0, <1>4 DEF SourcesInv
<1> QED BY <1>1, <1>2, <1>3, <1>5, <1>6

\* GetSourceEdge adds a reader of a graph input to its list.
LEMMA SourceStep == ASSUME NEW s \in Name PROVE Good /\ SourceEdge(s) => Good'
<1> SUFFICES ASSUME Good, SourceEdge(s) PROVE Good'
  OBVIOUS
<1> USE DEF Good, conf
<1> DEFINE f == sourceEdge[s]
<1>0. /\ stage = "source" /\ Reading(s) /\ pos' = pos + 1
      /\ sourceEdge' = IF s \in Range(gInputs)
                         THEN [sourceEdge EXCEPT ![s] = Append(f, nid)]
                         ELSE sourceEdge
      /\ UNCHANGED <<gInputs, gOutputs, ins, outs, nodeOutputs, nodeEdge, preMap, next,
                     nid, stage>>
  BY DEF SourceEdge
<1>1. nid \in UnitNode /\ f \in Seq(UnitNode)
  BY <1>0, NidNode DEF UnitTypeOK, Reading
<1>2. nid \notin Range(f)
  <2>1. IsInjective(ins[nid])
    BY <1>0, <1>1, ConfAssumption DEF NamesInv, Checked, UnitNode
  <2>2. ~ Sourced(nid, s)
    BY <1>0, <2>1, NotPassed DEF Sourced
  <2> QED BY <1>1, <2>2 DEF EdgeInv
<1>3. /\ Append(f, nid) \in Seq(UnitNode) /\ IsInjective(Append(f, nid))
      /\ Range(Append(f, nid)) = Range(f) \cup {nid}
  BY <1>1, <1>2, AppendRange DEF EdgeInv
<1> HIDE DEF f
<1>4. /\ sourceEdge' \in [Name -> Seq(UnitNode)]
      /\ s \in Range(gInputs) => sourceEdge'[s] = Append(f, nid)
      /\ s \notin Range(gInputs) => sourceEdge'[s] = sourceEdge[s]
      /\ \A r \in Name : r # s => sourceEdge'[r] = sourceEdge[r]
  BY <1>0, <1>3 DEF UnitTypeOK
<1>5. UnitTypeOK'
  BY <1>0, <1>1, <1>4 DEF UnitTypeOK
<1>6. NamesInv' /\ LinkInv'
  BY <1>0 DEF NamesInv, Checked, LinkInv
<1>7. PosInv'
  BY <1>0, NidNode, ConfType DEF PosInv, Reading
<1>8. ASSUME NEW m \in UnitNode, NEW r \in Name
      PROVE  /\ Sourced(m, r)' <=> Sourced(m, r) \/ (m = nid /\ r = s)
             /\ Edged(m, r)' <=> Edged(m, r)
  <2>1. Sourced(m, r)' <=> Sourced(m, r) \/ (m = nid /\ r = s)
    BY <1>0, PassedStep DEF Sourced
  <2>2. Edged(m, r)' <=> Edged(m, r)
    BY <1>0 DEF Edged, Passed
  <2> QED BY <2>1, <2>2
<1>9. EdgeInv'
  <2>1. \A n \in UnitNode, r \in Name :
          /\ IsInjective(nodeEdge'[n][r])
          /\ \A m \in UnitNode :
               m \in Range(nodeEdge'[n][r]) <=>
                 Edged(m, r)' /\ r \notin Range(gInputs) /\ nodeOutputs[r] = n
    BY <1>0, <1>8 DEF EdgeInv
  <2>2. ASSUME NEW r \in Name
        PROVE  /\ IsInjective(sourceEdge'[r])
               /\ \A m \in UnitNode : m \in Range(sourceEdge'[r]) <=>
                                 Sourced(m, r)' /\ r \in Range(gInputs)
    <3>1. CASE r = s /\ s \in Range(gInputs)
      <4>1. \A m \in UnitNode : m \in Range(f) <=> Sourced(m, s)
        BY <3>1 DEF EdgeInv, f
      <4>2. sourceEdge'[r] = Append(f, nid)
        BY <1>4, <3>1
      <4>3. ASSUME NEW m \in UnitNode
            PROVE  m \in Range(Append(f, nid)) <=> Sourced(m, s)'
        BY <1>3, <1>8, <4>1
      <4> QED BY <1>3, <3>1, <4>2, <4>3
    <3>2. CASE r = s /\ s \notin Range(gInputs)
      BY <1>4, <1>8, <3>2 DEF EdgeInv
    <3>3. CASE r # s
      BY <1>4, <1>8, <3>3 DEF EdgeInv
    <3> QED BY <3>1, <3>2, <3>3
  <2> QED BY <1>0, <2>1, <2>2 DEF EdgeInv
<1>10. SourcesInv'
  BY <1>0, <1>8 DEF SourcesInv
<1> QED BY <1>5, <1>6, <1>7, <1>9, <1>10

\* Linking copies the edges and adds the graph's output where it is due.
LEMMA LinkStep == Good /\ Link => Good'
<1> SUFFICES ASSUME Good, Link PROVE Good'
  OBVIOUS
<1> USE DEF Good, conf
<1>0. /\ stage = "link" /\ stage' = "linked"
      /\ next' = [p \in Port |-> IF p = Source THEN sourceEdge
                                  ELSE [s \in Name |-> LinkNodeEdge(p, s)]]
      /\ UNCHANGED <<gInputs, gOutputs, ins, outs, nodeOutputs, nodeEdge, preMap,
                     sourceEdge, nid, pos>>
  BY DEF Link
<1>1. ASSUME NEW n \in UnitNode, NEW s \in Name
      PROVE  LinkNodeEdge(n, s) \in Seq(Manager) /\ LinkNodeEdge(n, s)' = LinkNodeEdge(n, s)
  <2>1. nodeEdge[n][s] \in Seq(Manager)
    BY DEF UnitTypeOK, Manager
  <2>2. Sink \in Manager
    BY DEF Manager
  <2>3. Append(nodeEdge[n][s], Sink) \in Seq(Manager)
    BY <2>1, <2>2, AppendRange
  <2> QED BY <1>0, <2>1, <2>3 DEF LinkNodeEdge
<1>2. sourceEdge \in [Name -> Seq(Manager)]
  BY DEF UnitTypeOK, Manager
<1>3. UnitTypeOK'
  BY <1>0, <1>1, <1>2 DEF UnitTypeOK, Port, Stages
<1>4. LinkInv'
  BY <1>0, <1>1, ConfAssumption DEF LinkInv, Port, UnitTypeOK
<1>5. NamesInv' /\ PosInv'
  BY <1>0 DEF NamesInv, Checked, PosInv
<1>6. ASSUME NEW m \in UnitNode, NEW r \in Name
      PROVE  (Edged(m, r)' <=> Edged(m, r)) /\ (Sourced(m, r)' <=> Sourced(m, r))
  BY <1>0 DEF Edged, Sourced, Passed
<1>7. EdgeInv'
  BY <1>0, <1>6 DEF EdgeInv
<1>8. SourcesInv'
  BY <1>0, <1>6 DEF SourcesInv
<1> QED BY <1>3, <1>4, <1>5, <1>7, <1>8

(***************************************************************************)
(* The invariant holds throughout GetNodeEdge, GetSourceEdge and Link.     *)
(***************************************************************************)
THEOREM Invariance == UnitSpec => []UnitInv
<1>1. UnitInv /\ [UnitNext]_unitVars => UnitInv'
  <2> SUFFICES ASSUME UnitInv, [UnitNext]_unitVars PROVE UnitInv'
    OBVIOUS
  <2>0. UnitTypeOK /\ (stage # "rejected" => Good)
    BY DEF UnitInv, Good
  <2>1. CASE UnitNext /\ Reject
    BY <2>0, <2>1, RejectStep
  <2>2. CASE UNCHANGED unitVars
    BY <2>2 DEF unitVars, conf, UnitInv, UnitTypeOK, NamesInv, PosInv, EdgeInv, SourcesInv, LinkInv,
                Checked, Edged, Sourced, Passed, LinkNodeEdge
  <2>3. CASE UnitNext /\ ~ Reject
    <3>1. /\ \/ CheckNode \/ CheckDone \/ CheckOutputs \/ EdgeNext \/ EdgeDone
             \/ CheckLoop \/ SourceDone \/ Link
             \/ \E s \in Name : GraphInput(s) \/ Edge(s) \/ SourceEdge(s)
          /\ stage # "rejected"
      BY <2>3 DEF UnitNext, RejectNode, RejectOutputs, RejectInput, RejectLoop, CheckNode,
                  CheckDone, CheckOutputs, EdgeNext, EdgeDone, CheckLoop, SourceDone, Link,
                  GraphInput, Edge, SourceEdge
    <3>2. Good'
      BY <2>0, <3>1, CheckStep, StageStep, GraphInputStep, EdgeStep, NextStep, SourceStep,
         LinkStep
    <3> QED BY <3>2 DEF Good, UnitInv
  <2> QED BY <2>1, <2>2, <2>3
<1> QED BY <1>1, InitIInv, PTL DEF UnitSpec

(***************************************************************************)
(* Every configuration that is accepted is wired correctly: each channel   *)
(* has exactly one sender.  This is FlowGraph's WiringAssumption.          *)
(***************************************************************************)
THEOREM AcceptedIsWired == UnitSpec => []Wired
<1>1. UnitInv => Wired
  <2> SUFFICES ASSUME UnitInv, stage = "linked"
               PROVE  /\ WellWired(Port, Name, Chan, next)
                      /\ SingleWriter(UnitNode, outs)
                      /\ AllFed(Port, Chan, next,
                                [p \in Port |-> IF p \in UnitNode THEN Range(outs[p]) ELSE Range(gInputs)])
    BY DEF Wired
  <2>0. UnitTypeOK /\ NamesInv /\ EdgeInv /\ SourcesInv /\ LinkInv
    BY DEF UnitInv
  <2>1. \A n \in UnitNode : /\ n < UnitSize /\ n # Sink /\ n # Source
                            /\ IsInjective(ins[n]) /\ IsInjective(outs[n])
                            /\ \A s \in Name : nodeOutputs[s] = n <=> s \in Range(outs[n])
    BY <2>0, ConfAssumption DEF NamesInv, Checked, UnitNode
  <2>2. \A m \in UnitNode, s \in Name : /\ Edged(m, s) <=> s \in Range(ins[m])
                                        /\ Sourced(m, s) <=> s \in Range(ins[m])
    BY DEF Edged, Sourced, Passed
  <2>3. ASSUME NEW s \in Name, NEW m
        PROVE  m \in Range(next[Source][s]) <=>
                 m \in UnitNode /\ s \in Range(ins[m]) /\ s \in Range(gInputs)
    <3>1. next[Source][s] = sourceEdge[s] /\ sourceEdge[s] \in Seq(UnitNode)
      BY <2>0 DEF LinkInv, UnitTypeOK
    <3>2. m \in Range(sourceEdge[s]) => m \in UnitNode
      BY <3>1 DEF Range
    <3>3. \A k \in UnitNode : k \in Range(sourceEdge[s]) <=> Sourced(k, s) /\ s \in Range(gInputs)
      BY <2>0 DEF EdgeInv
    <3>4. \A k \in UnitNode : Sourced(k, s) <=> s \in Range(ins[k])
      BY <2>2
    <3> QED BY <3>1, <3>2, <3>3, <3>4
  <2>4. ASSUME NEW n \in UnitNode, NEW s \in Name, NEW m
        PROVE  /\ IsInjective(next[n][s])
               /\ m \in Range(next[n][s]) <=>
                    /\ s \in Range(outs[n])
                    /\ \/ m \in UnitNode /\ s \in Range(ins[m]) /\ s \notin Range(gInputs)
                       \/ m = Sink /\ s \in Range(gOutputs)
    <3> DEFINE f == nodeEdge[n][s]
    <3>1. next[n][s] = LinkNodeEdge(n, s) /\ f \in Seq(UnitNode)
      BY <2>0 DEF LinkInv, UnitTypeOK
    <3>2. m \in Range(f) => m \in UnitNode
      BY <3>1 DEF Range
    <3>3. m \in Range(f) <=> /\ m \in UnitNode /\ s \in Range(ins[m]) /\ s \notin Range(gInputs)
                             /\ s \in Range(outs[n])
      <4>1. \A k \in UnitNode : k \in Range(f) <=>
              Edged(k, s) /\ s \notin Range(gInputs) /\ nodeOutputs[s] = n
        BY <2>0 DEF EdgeInv
      <4>2. \A k \in UnitNode : Edged(k, s) <=> s \in Range(ins[k])
        BY <2>2
      <4>3. nodeOutputs[s] = n <=> s \in Range(outs[n])
        BY <2>1
      <4> HIDE DEF f
      <4> QED BY <3>2, <4>1, <4>2, <4>3
    <3>4. IsInjective(f) /\ Sink \notin Range(f)
      <4>1. IsInjective(f)
        BY <2>0 DEF EdgeInv
      <4>2. Range(f) \subseteq UnitNode
        BY <3>1 DEF Range
      <4> QED BY <4>1, <4>2, ConfAssumption
    <3>5. f \in Seq(Manager) /\ Sink \in Manager
      BY <3>1 DEF Manager
    <3> HIDE DEF f
    <3>6. Range(Append(f, Sink)) = Range(f) \cup {Sink} /\ IsInjective(Append(f, Sink))
      BY <3>4, <3>5, AppendRange
    <3>7. CASE s \in Range(outs[n]) /\ s \in Range(gOutputs)
      BY <3>1, <3>3, <3>6, <3>7 DEF LinkNodeEdge, f
    <3>8. CASE ~ (s \in Range(outs[n]) /\ s \in Range(gOutputs))
      BY <3>1, <3>3, <3>4, <3>8 DEF LinkNodeEdge, f
    <3> QED BY <3>7, <3>8
  <2>5. SingleWriter(UnitNode, outs)
    <3>1. ASSUME NEW n \in UnitNode, NEW m \in UnitNode, m # n, NEW s \in Range(outs[n])
          PROVE  s \notin Range(outs[m])
      <4>1. s \in Name
        BY <2>0, ConfType
      <4> QED BY <2>1, <3>1, <4>1
    <3> QED BY <2>1, <3>1 DEF SingleWriter
  <2>6. WellWired(Port, Name, Chan, next)
    <3> SUFFICES ASSUME NEW p \in Port, NEW s \in Name
                 PROVE  /\ IsInjective(next[p][s])
                        /\ \A m \in Range(next[p][s]) :
                             /\ <<m, s>> \in Chan
                             /\ \A r \in Port : m \in Range(next[r][s]) => r = p
      BY DEF WellWired
    <3>1. IsInjective(next[p][s])
      BY <2>0, <2>4 DEF Port, LinkInv, EdgeInv
    <3>2. ASSUME NEW m \in Range(next[p][s]) PROVE <<m, s>> \in Chan
      BY <2>1, <2>3, <2>4 DEF Port, Chan, Manager
    <3>3. ASSUME NEW m \in Range(next[p][s]), NEW r \in Port, m \in Range(next[r][s])
          PROVE  r = p
      <4>1. CASE r \in UnitNode /\ p \in UnitNode
        BY <2>1, <2>4, <3>3, <4>1
      <4>2. CASE r = Source /\ p \in UnitNode
        BY <2>1, <2>3, <2>4, <3>3, <4>2
      <4>3. CASE r \in UnitNode /\ p = Source
        BY <2>1, <2>3, <2>4, <3>3, <4>3
      <4> QED BY <4>1, <4>2, <4>3 DEF Port
    <3> QED BY <3>1, <3>2, <3>3
  <2>7. AllFed(Port, Chan, next,
               [p \in Port |-> IF p \in UnitNode THEN Range(outs[p]) ELSE Range(gInputs)])
    <3> SUFFICES ASSUME NEW m \in Manager, NEW s \in Name,
                        s \in IF m = Sink THEN Range(gOutputs) ELSE Range(ins[m])
                 PROVE  \E p \in Port : /\ m \in Range(next[p][s])
                                        /\ s \in IF p \in UnitNode THEN Range(outs[p]) ELSE Range(gInputs)
      BY DEF AllFed, Chan
    <3>1. CASE m = Sink
      <4>1. nodeOutputs[s] \in UnitNode
        BY <2>0, <3>1 DEF SourcesInv, UnitTypeOK
      <4>2. Sink \in Range(next[nodeOutputs[s]][s])
        BY <2>1, <2>4, <3>1, <4>1
      <4> QED BY <2>1, <3>1, <4>1, <4>2 DEF Port
    <3>2. CASE m # Sink /\ s \in Range(gInputs)
      BY <2>3, <3>2, ConfAssumption DEF Manager, Port
    <3>3. CASE m # Sink /\ s \notin Range(gInputs)
      <4>1. m \in UnitNode /\ Edged(m, s)
        BY <2>2, <3>3 DEF Manager
      <4>2. nodeOutputs[s] \in UnitNode
        BY <2>0, <3>3, <4>1 DEF SourcesInv, UnitTypeOK
      <4>3. m \in Range(next[nodeOutputs[s]][s])
        BY <2>1, <2>4, <3>3, <4>1, <4>2
      <4> QED BY <2>1, <4>2, <4>3 DEF Port
    <3> QED BY <3>1, <3>2, <3>3
  <2> QED BY <2>5, <2>6, <2>7
<1> QED BY <1>1, Invariance, PTL

-----------------------------------------------------------------------------
(* The verdict *)

\* preMap[n] holds the nodes that n was seen to read from.
PreInv ==
  \A n, p \in UnitNode :
    p \in preMap[n] <=>
      \E s \in Name : Edged(n, s) /\ s \notin Range(gInputs) /\ nodeOutputs[s] = p

\* What was found out so far: a rejected configuration makes no sense, and one
\* that is past the check for loops has none.
VerdictInv ==
  /\ stage # "rejected" => PreInv
  /\ stage \in {"source", "link", "linked"} => ~ IsExistLoop
  /\ stage = "rejected" => ~ WellFormed

\* After the check of the names nodeOutputs is the inverse of the outputs.
LEMMA WriterOf ==
  ASSUME Good, stage # "check", NEW s \in Name
  PROVE  /\ \A p \in UnitNode : nodeOutputs[s] = p <=> s \in Range(outs[p])
         /\ nodeOutputs[s] = NoNode <=> \A p \in UnitNode : s \notin Range(outs[p])
<1>1. \A p \in UnitNode : nodeOutputs[s] = p <=> s \in Range(outs[p])
  BY ConfAssumption DEF Good, NamesInv, Checked, UnitNode
<1>2. nodeOutputs[s] \in UnitNode \cup {NoNode} /\ NoNode \notin UnitNode
  BY DEF Good, UnitTypeOK, NoNode, UnitNode
<1> QED BY <1>1, <1>2

\* After GetNodeEdge preMap is what the names say.
LEMMA PreIsReads ==
  ASSUME Good, PreInv, stage \in {"loop", "source", "link", "linked"}, NEW n \in UnitNode
  PROVE  preMap[n] = ReadsFrom(n)
<1>1. preMap[n] \subseteq UnitNode
  BY DEF Good, UnitTypeOK
<1>2. ASSUME NEW p \in UnitNode PROVE p \in preMap[n] <=> p \in ReadsFrom(n)
  <2>1. \A s \in Name : Edged(n, s) <=> s \in Range(ins[n])
    BY DEF Edged, Passed
  <2>2. Range(ins[n]) \subseteq Name
    BY ConfType DEF Good
  <2>3. \A s \in Name : nodeOutputs[s] = p <=> s \in Range(outs[p])
    BY WriterOf
  <2> QED BY <2>1, <2>2, <2>3 DEF PreInv, ReadsFrom
<1> QED BY <1>1, <1>2 DEF ReadsFrom

\* There is a loop exactly when some nodes read from each other for ever.
LEMMA LoopIsLoop ==
  ASSUME Good, PreInv, stage \in {"loop", "source", "link", "linked"}
  PROVE  IsExistLoop <=> ~ \A S \in SUBSET UnitNode : S # {} => \E n \in S : ReadsFrom(n) \cap S = {}
<1>1. \A n \in UnitNode : preMap[n] = ReadsFrom(n)
  BY PreIsReads
<1> QED BY <1>1 DEF IsExistLoop

\* What is rejected makes no sense.
LEMMA RejectRight ==
  ASSUME Good, PreInv,
         RejectNode \/ RejectOutputs \/ RejectLoop \/ \E s \in Name : RejectInput(s)
  PROVE  ~ WellFormed
<1>1. CASE RejectNode
  <2>1. nid \in UnitNode /\ stage = "check" /\ nid < UnitSize
    BY <1>1, NidNode DEF RejectNode, Good
  <2>2. CASE InputTwice(nid)
    BY <2>1, <2>2 DEF InputTwice, WellFormed
  <2>3. CASE ~ IsInjective(outs[nid])
    BY <2>1, <2>3 DEF WellFormed, SingleWriter
  <2>4. CASE \E s \in Range(outs[nid]) : nodeOutputs[s] # NoNode
    <3>1. PICK s \in Range(outs[nid]) : nodeOutputs[s] # NoNode
      BY <2>4
    <3>2. s \in Name
      BY <2>1, ConfType DEF Good
    <3> DEFINE p == nodeOutputs[s]
    <3>3. p \in UnitNode
      BY <3>1, <3>2 DEF Good, UnitTypeOK
    <3>4. p < nid /\ s \in Range(outs[p])
      BY <2>1, <3>2, <3>3 DEF Good, NamesInv, Checked
    <3>5. p # nid
      BY <2>1, <3>3, <3>4 DEF UnitNode
    <3> QED BY <2>1, <3>1, <3>3, <3>4, <3>5 DEF WellFormed, SingleWriter
  <2> QED BY <1>1, <2>2, <2>3, <2>4 DEF RejectNode, OutputTaken
<1>2. CASE RejectOutputs
  <2>1. PICK s \in Range(gOutputs) : nodeOutputs[s] = NoNode
    BY <1>2 DEF RejectOutputs
  <2>2. s \in Name
    <3>1. gOutputs \in Seq(Name)
      BY ConfAssumption DEF Good, UnitTypeOK
    <3> QED BY <3>1 DEF Range
  <2>3. \A p \in UnitNode : s \notin Range(outs[p])
    BY <1>2, <2>1, <2>2, WriterOf DEF RejectOutputs
  <2> QED BY <2>1, <2>3 DEF WellFormed
<1>3. CASE \E s \in Name : RejectInput(s)
  <2>1. PICK s \in Name : RejectInput(s)
    BY <1>3
  <2>2. nid \in UnitNode /\ s \in Range(ins[nid]) /\ s \notin Range(gInputs)
    BY <2>1, NidNode DEF RejectInput, Reading, FromGraph, Range, Good
  <2>3. \A p \in UnitNode : s \notin Range(outs[p])
    BY <2>1, WriterOf DEF RejectInput
  <2> QED BY <2>2, <2>3 DEF WellFormed
<1>4. CASE RejectLoop
  BY <1>4, LoopIsLoop DEF RejectLoop, WellFormed
<1> QED BY <1>1, <1>2, <1>3, <1>4

\* What each step that goes on does to preMap.
LEMMA PreStep ==
  ASSUME Good, PreInv,
         \/ CheckNode \/ CheckDone \/ CheckOutputs \/ EdgeNext \/ EdgeDone
         \/ CheckLoop \/ SourceDone \/ Link
         \/ \E s \in Name : GraphInput(s) \/ Edge(s) \/ SourceEdge(s)
  PROVE  PreInv'
<1> USE DEF conf
<1>0. UnitTypeOK /\ PosInv
  BY DEF Good
<1>1. CASE CheckNode
  <2>1. stage = "check" /\ stage' = "check" /\ UNCHANGED <<ins, preMap, gInputs>>
    BY <1>1 DEF CheckNode
  <2>2. \A n \in UnitNode, s \in Name : ~ Edged(n, s) /\ ~ Edged(n, s)'
    BY <2>1 DEF Edged, Passed
  <2> QED BY <2>1, <2>2 DEF PreInv
<1>2. CASE CheckDone \/ CheckOutputs \/ EdgeDone \/ CheckLoop \/ SourceDone \/ Link
  <2>1. /\ UNCHANGED <<ins, preMap, gInputs, nodeOutputs>>
        /\ \/ stage = "check" /\ stage' = "outputs"
           \/ stage = "outputs" /\ stage' = "edge" /\ nid' = 0 /\ pos' = 1
           \/ stage = "edge" /\ nid = UnitSize /\ stage' = "loop"
           \/ stage \in {"loop", "source", "link"} /\ stage' \in {"source", "link", "linked"}
    BY <1>2 DEF CheckDone, CheckOutputs, EdgeDone, CheckLoop, SourceDone, Link
  <2>2. ASSUME NEW m \in UnitNode, NEW s \in Name PROVE Edged(m, s)' <=> Edged(m, s)
    <3>1. m < UnitSize /\ ~ (m < 0) /\ m \in Int /\ UnitSize \in Nat
      BY ConfAssumption DEF UnitNode
    <3>2. \A j \in DOMAIN ins[m] : ~ (j < 1)
      BY <1>0, ConfType
    <3> QED BY <2>1, <3>1, <3>2 DEF Edged, Passed
  <2> QED BY <2>1, <2>2 DEF PreInv
<1>3. CASE EdgeNext
  <2>1. /\ stage \in {"edge", "source"} /\ nid < UnitSize /\ pos \notin DOMAIN ins[nid]
        /\ nid' = nid + 1 /\ pos' = 1
        /\ UNCHANGED <<ins, preMap, gInputs, nodeOutputs, stage>>
    BY <1>3 DEF EdgeNext
  <2>2. \A m \in UnitNode, s \in Name : Edged(m, s)' <=> Edged(m, s)
    BY <1>0, <2>1, PassedNext DEF Edged
  <2> QED BY <2>1, <2>2 DEF PreInv
<1>4. ASSUME NEW s \in Name, GraphInput(s) \/ Edge(s) \/ SourceEdge(s) PROVE PreInv'
  <2>1. /\ Reading(s) /\ pos' = pos + 1 /\ stage \in {"edge", "source"}
        /\ UNCHANGED <<ins, gInputs, nodeOutputs, nid, stage>>
    BY <1>4 DEF GraphInput, Edge, SourceEdge
  <2>2. nid \in UnitNode
    BY <1>0, <2>1, NidNode DEF Reading
  <2>3. s \in Range(ins[nid])
    BY <2>1 DEF Reading, Range
  <2>4. ASSUME NEW m \in UnitNode, NEW r \in Name
        PROVE  Edged(m, r)' <=> Edged(m, r) \/ (m = nid /\ r = s)
    <3>1. stage = "source" /\ m = nid /\ r = s => Edged(m, r)
      BY <2>3 DEF Edged, Passed
    <3> QED BY <1>0, <2>1, <3>1, PassedStep DEF Edged
  <2>5. CASE GraphInput(s)
    <3>1. s \in Range(gInputs) /\ UNCHANGED preMap
      BY <2>5 DEF GraphInput, FromGraph
    <3> QED BY <2>1, <2>4, <3>1 DEF PreInv
  <2>6. CASE SourceEdge(s)
    <3>1. stage = "source" /\ UNCHANGED preMap
      BY <2>6 DEF SourceEdge
    <3>2. \A r \in Name : r = s => Edged(nid, r)
      BY <2>3, <3>1 DEF Edged, Passed
    <3> QED BY <2>1, <2>4, <3>1, <3>2 DEF PreInv
  <2>7. CASE Edge(s)
    <3>1. /\ s \notin Range(gInputs)
          /\ preMap' = [preMap EXCEPT ![nid] = @ \cup {nodeOutputs[s]}]
      BY <2>7 DEF Edge, FromGraph
    <3>2. \A m, p \in UnitNode : p \in preMap'[m] <=> p \in preMap[m] \/ (m = nid /\ p = nodeOutputs[s])
      BY <1>0, <2>2, <3>1 DEF UnitTypeOK
    <3> QED BY <2>1, <2>4, <3>1, <3>2 DEF PreInv
  <2> QED BY <1>4, <2>5, <2>6, <2>7
<1> QED BY <1>1, <1>2, <1>3, <1>4

LEMMA InitVerdict == UnitInit => VerdictInv
<1> SUFFICES ASSUME UnitInit PROVE VerdictInv
  OBVIOUS
<1>1. stage = "check" /\ \A n \in UnitNode : preMap[n] = {}
  BY DEF UnitInit
<1>2. \A n \in UnitNode, s \in Name : ~ Edged(n, s)
  BY <1>1 DEF Edged, Passed
<1> QED BY <1>1, <1>2 DEF VerdictInv, PreInv

\* Whatever the step, what was found out stays true.
LEMMA VerdictStep == UnitInv /\ VerdictInv /\ [UnitNext]_unitVars => VerdictInv'
<1> SUFFICES ASSUME UnitInv, VerdictInv, [UnitNext]_unitVars PROVE VerdictInv'
  OBVIOUS
<1> USE DEF conf
<1>0. stage # "rejected" => Good /\ PreInv
  BY DEF UnitInv, Good, VerdictInv
<1>1. CASE UNCHANGED unitVars
  <2>1. (PreInv' <=> PreInv) /\ UNCHANGED stage
    BY <1>1 DEF unitVars, PreInv, Edged, Passed
  <2>2. IsExistLoop' <=> IsExistLoop
    BY <1>1 DEF unitVars, IsExistLoop
  <2>3. WellFormed' <=> WellFormed
    BY <1>1 DEF unitVars, WellFormed, ReadsFrom
  <2> QED BY <2>1, <2>2, <2>3 DEF VerdictInv
<1>2. CASE RejectNode \/ RejectOutputs \/ RejectLoop \/ \E s \in Name : RejectInput(s)
  <2>1. stage # "rejected" /\ Reject
    BY <1>2 DEF RejectNode, RejectOutputs, RejectLoop, RejectInput
  <2>2. ~ WellFormed
    BY <1>0, <1>2, <2>1, RejectRight
  <2>3. stage' = "rejected" /\ UNCHANGED <<gInputs, gOutputs, ins, outs>>
    BY <2>1 DEF Reject
  <2>4. WellFormed' <=> WellFormed
    BY <2>3 DEF WellFormed, ReadsFrom
  <2> QED BY <2>2, <2>3, <2>4 DEF VerdictInv
<1>3. CASE \/ CheckNode \/ CheckDone \/ CheckOutputs \/ EdgeNext \/ EdgeDone
           \/ CheckLoop \/ SourceDone \/ Link
           \/ \E s \in Name : GraphInput(s) \/ Edge(s) \/ SourceEdge(s)
  <2>1. stage # "rejected" /\ stage' # "rejected"
    BY <1>3 DEF CheckNode, CheckDone, CheckOutputs, EdgeNext, EdgeDone, CheckLoop, SourceDone,
                Link, GraphInput, Edge, SourceEdge
  <2>2. PreInv'
    BY <1>0, <1>3, <2>1, PreStep
  <2>3. stage' \in {"source", "link", "linked"} => ~ IsExistLoop /\ UNCHANGED preMap
    BY <1>3 DEF CheckNode, CheckDone, CheckOutputs, EdgeNext, EdgeDone, CheckLoop, SourceDone,
                Link, GraphInput, Edge, SourceEdge, VerdictInv
  <2> QED BY <2>1, <2>2, <2>3 DEF VerdictInv, IsExistLoop
<1> QED BY <1>1, <1>2, <1>3 DEF UnitNext

(***************************************************************************)
(* The loader's verdict is right: what GetNodeEdge and GetSourceEdge reject*)
(* makes no sense - a repeated name, an output without a writer, an input  *)
(* without a source or a loop - and what they link has none of these.      *)
(***************************************************************************)
THEOREM Verdict == UnitSpec => []VerdictRight
<1>1. UnitInv /\ VerdictInv => VerdictRight
  <2> SUFFICES ASSUME UnitInv, VerdictInv, stage = "linked" PROVE WellFormed
    BY DEF VerdictRight, VerdictInv
  <2>0. Good /\ PreInv /\ ~ IsExistLoop
    BY DEF UnitInv, Good, VerdictInv
  <2>1. \A n \in UnitNode : /\ n < UnitSize /\ IsInjective(ins[n]) /\ IsInjective(outs[n])
                            /\ Range(ins[n]) \subseteq Name /\ Range(outs[n]) \subseteq Name
    BY <2>0, ConfType, ConfAssumption DEF Good, NamesInv, Checked, UnitNode
  <2>2. ASSUME NEW s \in Name
        PROVE  /\ \A p \in UnitNode : nodeOutputs[s] = p <=> s \in Range(outs[p])
               /\ nodeOutputs[s] = NoNode <=> \A p \in UnitNode : s \notin Range(outs[p])
    BY <2>0, WriterOf
  <2>3. SingleWriter(UnitNode, outs)
    BY <2>1, <2>2 DEF SingleWriter
  <2>4. \A s \in Range(gOutputs) : \E n \in UnitNode : s \in Range(outs[n])
    <3>1. gOutputs \in Seq(Name)
      BY <2>0, ConfAssumption DEF Good, UnitTypeOK
    <3>2. Range(gOutputs) \subseteq Name
      BY <3>1 DEF Range
    <3> QED BY <2>0, <2>2, <3>2 DEF Good, SourcesInv
  <2>5. \A n \in UnitNode : \A s \in Range(ins[n]) :
          s \in Range(gInputs) \/ \E m \in UnitNode : s \in Range(outs[m])
    <3>1. \A n \in UnitNode : \A s \in Range(ins[n]) : Edged(n, s)
      BY DEF Edged, Passed
    <3> QED BY <2>0, <2>1, <2>2, <3>1 DEF Good, SourcesInv
  <2> QED BY <2>0, <2>1, <2>3, <2>4, <2>5, LoopIsLoop DEF WellFormed
<1> QED BY <1>1, Invariance, InitVerdict, VerdictStep, PTL DEF UnitSpec
=============================================================================
