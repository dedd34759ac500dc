--------------------------- MODULE SideData_proofs ---------------------------
(***************************************************************************)
(* Side data reach a node before it is opened, for every accepted          *)
(* configuration of any size and any number of failed calls.               *)
(***************************************************************************)
EXTENDS SideData, TLAPS

\* What the assumptions say of the configuration at hand.
LEMMA ConfFacts ==
  ASSUME SideTypeOK
  PROVE  /\ SideSize \in Nat
         /\ sideConf.gin \in Seq(SideName) /\ sideConf.gout \in SUBSET SideName
         /\ sideConf.ins \in [SideNode -> SUBSET SideName] /\ sideConf.outs \in [SideNode -> Seq(SideName)]
         /\ sideConf.sorted \in [1 .. SideSize -> SideNode]
         /\ Range(sideConf.sorted) = SideNode
         /\ \A s \in sideConf.gout : \E n \in SideNode : s \in Range(sideConf.outs[n])
         /\ \A j \in 1 .. SideSize : \A s \in sideConf.ins[sideConf.sorted[j]] \ Range(sideConf.gin) :
              \E i \in 1 .. SideSize : i < j /\ s \in Range(sideConf.outs[sideConf.sorted[i]])
  BY SideAssumption DEF SideTypeOK, Accepted, TopologicalOrder

\* The node whose turn it is.
LEMMA NodeAtFacts ==
  ASSUME SideTypeOK, sidePos <= SideSize
  PROVE  sidePos \in 1 .. SideSize /\ NodeAt(sidePos) \in SideNode /\ sideConf.outs[NodeAt(sidePos)] \in Seq(SideName)
<1>1. sidePos \in 1 .. SideSize
  BY ConfFacts DEF SideTypeOK
<1>2. NodeAt(sidePos) \in SideNode
  BY <1>1, ConfFacts DEF NodeAt
<1> QED  BY <1>1, <1>2, ConfFacts

\* A delivery sets what it is for and leaves the rest alone.
LEMMA DeliveredFacts ==
  ASSUME SideTypeOK, NEW s \in SideName
  PROVE  /\ Delivered(s) \in [SideNode -> [SideName -> Nat]]
         /\ \A n \in SideNode : s \in sideConf.ins[n] => Delivered(s)[n][s] = attempt
         /\ \A n \in SideNode, t \in SideName :
              slot[n][t] = attempt => Delivered(s)[n][t] = attempt
  BY DEF SideTypeOK, Delivered

\* SideTypeOK is inductive.
LEMMA TypeStep ==
  ASSUME SideTypeOK, [SideNext]_sideVars
  PROVE  SideTypeOK'
<1> USE DEF SideTypeOK
<1>1. ASSUME NEW g \in SUBSET Range(sideConf.gin), PrepareForRun(g)
      PROVE  SideTypeOK'
  <2>1. Range(sideConf.gin) \subseteq SideName
    BY ConfFacts DEF Range
  <2> QED  BY <1>1, <2>1 DEF PrepareForRun
<1>2. CASE AddGraphInputSideData
  <2>1. sideConf.gin[sidePos] \in SideName
    BY <1>2, ConfFacts DEF AddGraphInputSideData
  <2> QED  BY <1>2, <2>1, DeliveredFacts DEF AddGraphInputSideData
<1>3. CASE MissingSideData  BY <1>3 DEF MissingSideData, Fail
<1>4. CASE InputsDone  BY <1>4 DEF InputsDone
<1>5. CASE Open  BY <1>5 DEF Open
<1>6. CASE OpenError  BY <1>6 DEF OpenError, Fail
<1>7. CASE AddData
  <2> DEFINE s == sideConf.outs[NodeAt(sidePos)][out]
  <2>1. sideConf.outs[NodeAt(sidePos)] \in Seq(SideName)
    BY <1>7, NodeAtFacts DEF AddData
  <2>2. s \in SideName
    BY <1>7, <2>1 DEF AddData
  <2>3. slot' \in [SideNode -> [SideName -> Nat]]
    BY <1>7, <2>2, DeliveredFacts DEF AddData
  <2>4. gSlot' \in [SideName -> Nat]
    BY <1>7, <2>2 DEF AddData
  <2> QED  BY <1>7, <2>3, <2>4 DEF AddData
<1>8. CASE AddAllDataDone  BY <1>8 DEF AddAllDataDone
<1>9. CASE SetStatusReady  BY <1>9 DEF SetStatusReady
<1>10. CASE UNCHANGED sideVars  BY <1>10 DEF sideVars
<1> QED
  BY <1>1, <1>2, <1>3, <1>4, <1>5, <1>6, <1>7, <1>8, <1>9, <1>10 DEF SideNext

\* A step that passes nothing on: what had been passed on before is unchanged.
LEMMA Quiet ==
  ASSUME DeliveredInv, UNCHANGED <<sideConf, slot, gSlot, attempt>>,
         \A s \in SideName : GivenDone(s)' => GivenDone(s),
         \A s \in SideName : SentDone(s)' => SentDone(s)
  PROVE  DeliveredInv'
  BY DEF DeliveredInv, GraphGives

\* DeliveredInv is inductive.
LEMMA DeliveredStep ==
  ASSUME SideTypeOK, DeliveredInv, [SideNext]_sideVars
  PROVE  DeliveredInv'
<1>1. ASSUME NEW g \in SUBSET Range(sideConf.gin), PrepareForRun(g)
      PROVE  DeliveredInv'
  <2>1. \A s \in SideName : ~ GivenDone(s)' /\ ~ SentDone(s)'
    BY <1>1, ConfFacts DEF PrepareForRun, GivenDone, SentDone, SideTypeOK
  <2> QED  BY <2>1 DEF DeliveredInv
<1>2. CASE AddGraphInputSideData
  <2> DEFINE r == sideConf.gin[sidePos]
  <2>1. r \in SideName
    BY <1>2, ConfFacts DEF AddGraphInputSideData
  <2>2. \A s \in SideName : ~ SentDone(s)'
    BY <1>2 DEF AddGraphInputSideData, SentDone
  <2>3. \A s \in SideName : GivenDone(s)' => GivenDone(s) \/ s = r
    BY <1>2, ConfFacts DEF AddGraphInputSideData, GivenDone, SideTypeOK, GraphGives
  <2>4. slot' = Delivered(r) /\ UNCHANGED <<sideConf, attempt, gSlot>>
    BY <1>2 DEF AddGraphInputSideData
  <2>5. ASSUME NEW s \in SideName, GivenDone(s)', NEW n \in SideNode, s \in sideConf.ins[n]
        PROVE  slot'[n][s] = attempt
    <3>1. CASE s = r
      BY <3>1, <2>1, <2>4, <2>5, DeliveredFacts
    <3>2. CASE GivenDone(s)
      <4>1. slot[n][s] = attempt
        BY <3>2, <2>5 DEF DeliveredInv
      <4> QED  BY <4>1, <2>1, <2>4, DeliveredFacts
    <3> QED  BY <3>1, <3>2, <2>3, <2>5
  <2> QED  BY <2>2, <2>4, <2>5 DEF DeliveredInv
<1>3. CASE MissingSideData
  BY <1>3, Quiet DEF MissingSideData, Fail, GivenDone, SentDone
<1>4. CASE InputsDone
  <2>1. ASSUME NEW s \in SideName, GivenDone(s)'  PROVE GivenDone(s)
    <3>1. PICK i \in DOMAIN sideConf.gin : sideConf.gin[i] = s
      BY <1>4, <2>1 DEF InputsDone, GivenDone, GraphGives, Range
    <3>2. i < sidePos
      BY <1>4, <3>1, ConfFacts DEF InputsDone, SideTypeOK
    <3> QED  BY <1>4, <3>1, <3>2 DEF InputsDone, GivenDone
  <2>2. \A s \in SideName : ~ SentDone(s)'
    <3>1. \A i \in 1 .. SideSize : ~ (i < 1)
      BY ConfFacts
    <3> QED  BY <1>4, <3>1 DEF InputsDone, SentDone
  <2> QED  BY <1>4, <2>1, <2>2, Quiet DEF InputsDone
<1>5. CASE Open
  <2>1. \A s \in SideName : GivenDone(s)' => GivenDone(s)
    BY <1>5 DEF Open, GivenDone, GraphGives
  <2>2. \A s \in SideName : SentDone(s)' => SentDone(s)
    <3>1. sideConf.outs[NodeAt(sidePos)] \in Seq(SideName)
      BY <1>5, NodeAtFacts DEF Open
    <3>2. \A o \in DOMAIN sideConf.outs[NodeAt(sidePos)] : ~ (o < 1)
      BY <3>1
    <3> QED  BY <1>5, <3>2 DEF Open, SentDone, NodeAt
  <2> QED  BY <1>5, <2>1, <2>2, Quiet DEF Open
<1>6. CASE OpenError
  BY <1>6, Quiet DEF OpenError, Fail, GivenDone, SentDone
<1>7. CASE AddData
  <2> DEFINE r == sideConf.outs[NodeAt(sidePos)][out]
  <2>1. NodeAt(sidePos) \in SideNode /\ r \in SideName
    <3>1. NodeAt(sidePos) \in SideNode
      BY <1>7, ConfFacts DEF AddData, NodeAt, SideTypeOK
    <3> QED  BY <1>7, <3>1, ConfFacts DEF AddData
  <2>2. UNCHANGED <<sideConf, attempt, sideStage, sidePos>> /\ sideStage = "send" /\ out' = out + 1
    BY <1>7 DEF AddData
  <2>3. \A s \in SideName : GivenDone(s)' => GivenDone(s)
    BY <2>2 DEF GivenDone, GraphGives
  <2>4. \A s \in SideName : SentDone(s)' => SentDone(s) \/ s = r
    <3>1. \A o \in DOMAIN sideConf.outs[NodeAt(sidePos)] : o < out + 1 => o < out \/ o = out
      BY <2>1, ConfFacts DEF SideTypeOK
    <3> QED  BY <2>2, <3>1 DEF SentDone, NodeAt
  <2>5. slot' = IF GraphGives(r) THEN slot ELSE Delivered(r)
    BY <1>7 DEF AddData
  <2>6. ASSUME NEW s \in SideName, GivenDone(s)' \/ (~ GraphGives(s) /\ SentDone(s)'),
               NEW n \in SideNode, s \in sideConf.ins[n]
        PROVE  slot'[n][s] = attempt
    <3>1. CASE s = r /\ ~ GraphGives(r)
      BY <3>1, <2>1, <2>5, <2>6, DeliveredFacts
    <3>2. CASE GivenDone(s) \/ (~ GraphGives(s) /\ SentDone(s))
      <4>1. slot[n][s] = attempt
        BY <3>2, <2>6 DEF DeliveredInv
      <4> QED  BY <4>1, <2>1, <2>5, DeliveredFacts
    <3> QED  BY <3>1, <3>2, <2>3, <2>4, <2>6
  <2>7. ASSUME NEW s \in SideName, SentDone(s)', s \in sideConf.gout
        PROVE  gSlot'[s] = attempt
    <3>1. gSlot' = IF r \in sideConf.gout THEN [gSlot EXCEPT ![r] = attempt] ELSE gSlot
      BY <1>7 DEF AddData
    <3>2. gSlot \in [SideName -> Nat]
      BY DEF SideTypeOK
    <3>3. s = r \/ gSlot[s] = attempt
      BY <2>4, <2>7 DEF DeliveredInv
    <3> QED  BY <3>1, <3>2, <3>3, <2>7
  <2> QED  BY <2>2, <2>6, <2>7 DEF DeliveredInv, GraphGives
<1>8. CASE AddAllDataDone
  <2>1. UNCHANGED <<sideConf, slot, gSlot, attempt>> /\ sideStage = "send" /\ sideStage' = "open"
        /\ sidePos' = sidePos + 1
    BY <1>8 DEF AddAllDataDone
  <2>2. \A s \in SideName : GivenDone(s)' => GivenDone(s)
    BY <2>1 DEF GivenDone, GraphGives
  <2>3. ASSUME NEW s \in SideName, SentDone(s)'  PROVE SentDone(s)
    <3>1. PICK i \in 1 .. SideSize : i < sidePos + 1 /\ s \in Range(sideConf.outs[NodeAt(i)])
      BY <2>1, <2>3 DEF SentDone, NodeAt
    <3>2. CASE i < sidePos
      BY <3>1, <3>2, <2>1 DEF SentDone
    <3>3. CASE i = sidePos
      <4>1. PICK o \in DOMAIN sideConf.outs[NodeAt(sidePos)] : sideConf.outs[NodeAt(sidePos)][o] = s
        BY <3>1, <3>3 DEF Range
      <4>2. o < out
        <5>1. NodeAt(sidePos) \in SideNode
          BY <3>3, ConfFacts DEF NodeAt
        <5> QED  BY <1>8, <4>1, <5>1, ConfFacts DEF AddAllDataDone, SideTypeOK
      <4> QED  BY <4>1, <4>2, <2>1 DEF SentDone
    <3> QED  BY <3>1, <3>2, <3>3, ConfFacts DEF SideTypeOK
  <2> QED  BY <2>1, <2>2, <2>3, Quiet
<1>9. CASE SetStatusReady
  BY <1>9, Quiet DEF SetStatusReady, GivenDone, SentDone, GraphGives, NodeAt
<1>10. CASE UNCHANGED sideVars
  BY <1>10, Quiet DEF sideVars, GivenDone, SentDone, GraphGives, NodeAt
<1> QED
  BY <1>1, <1>2, <1>3, <1>4, <1>5, <1>6, <1>7, <1>8, <1>9, <1>10 DEF SideNext

(***************************************************************************)
(* SideInv: what PrepareForRun has passed on is in place, of this call.       *)
(***************************************************************************)
THEOREM Invariance == SideSpec => []SideInv
<1>1. SideInit => SideInv
  <2> SUFFICES ASSUME SideInit PROVE SideInv
    OBVIOUS
  <2>1. SideTypeOK
    BY DEF SideInit, SideTypeOK
  <2>2. DeliveredInv
    BY DEF SideInit, DeliveredInv, GivenDone, SentDone
  <2> QED  BY <2>1, <2>2 DEF SideInv
<1>2. SideInv /\ [SideNext]_sideVars => SideInv'
  BY TypeStep, DeliveredStep DEF SideInv
<1> QED  BY <1>1, <1>2, PTL DEF SideSpec

(***************************************************************************)
(* Task.Open finds all of its input side data, of this call, because the   *)
(* nodes are opened in SideDataSortedNodes order.                          *)
(***************************************************************************)
THEOREM OpenInputs == SideSpec => []OpenSeesInputs
<1>1. SideInv => OpenSeesInputs
  <2> SUFFICES ASSUME SideInv, sideStage = "open", sidePos <= SideSize, NEW s \in sideConf.ins[NodeAt(sidePos)]
               PROVE  slot[NodeAt(sidePos)][s] = attempt
    BY DEF OpenSeesInputs
  <2>1. sidePos \in 1 .. SideSize /\ NodeAt(sidePos) \in SideNode /\ s \in SideName
    <3>1. sidePos \in 1 .. SideSize /\ NodeAt(sidePos) \in SideNode
      BY NodeAtFacts DEF SideInv
    <3> QED  BY <3>1, ConfFacts DEF SideInv
  <2>2. CASE GraphGives(s)
    BY <2>1, <2>2 DEF SideInv, DeliveredInv, GivenDone
  <2>3. CASE ~ GraphGives(s)
    <3>1. SentDone(s)
      BY <2>1, <2>3, ConfFacts DEF SideInv, NodeAt, GraphGives, SentDone
    <3> QED  BY <2>1, <2>3, <3>1 DEF SideInv, DeliveredInv
  <2> QED  BY <2>2, <2>3
<1> QED  BY <1>1, Invariance, PTL

(***************************************************************************)
(* When PrepareForRun has set the graph ready, every side datum of every   *)
(* node and of the graph's outputs is of that call.                        *)
(***************************************************************************)
THEOREM Ready == SideSpec => []ReadyIsComplete
<1>1. SideInv => ReadyIsComplete
  <2> SUFFICES ASSUME SideInv, sideStage = "ready"
               PROVE  /\ \A n \in SideNode : \A s \in sideConf.ins[n] : slot[n][s] = attempt
                      /\ \A s \in sideConf.gout : gSlot[s] = attempt
    BY DEF ReadyIsComplete
  <2>1. sidePos > SideSize
    BY DEF SideInv, SideTypeOK
  <2>0. ASSUME NEW n \in SideNode  PROVE \E i \in 1 .. SideSize : sideConf.sorted[i] = n
    <3>1. DOMAIN sideConf.sorted = 1 .. SideSize /\ n \in Range(sideConf.sorted)
      BY ConfFacts DEF SideInv
    <3> QED  BY <3>1 DEF Range
  <2>2. ASSUME NEW n \in SideNode, NEW s \in Range(sideConf.outs[n])  PROVE SentDone(s)
    <3>1. PICK i \in 1 .. SideSize : sideConf.sorted[i] = n
      BY <2>0
    <3>2. i < sidePos
      BY <3>1, <2>1, ConfFacts DEF SideInv, SideTypeOK
    <3> QED  BY <2>2, <3>1, <3>2 DEF SentDone, NodeAt
  <2>3. ASSUME NEW n \in SideNode, NEW s \in sideConf.ins[n]  PROVE slot[n][s] = attempt
    <3>1. s \in SideName
      <4>1. sideConf.ins[n] \in SUBSET SideName
        BY ConfFacts DEF SideInv
      <4> QED  BY <4>1
    <3>2. PICK j \in 1 .. SideSize : sideConf.sorted[j] = n
      BY <2>0
    <3>3. CASE GraphGives(s)
      BY <3>1, <3>3 DEF SideInv, DeliveredInv, GivenDone
    <3>4. CASE ~ GraphGives(s)
      <4>1. \E i \in 1 .. SideSize : s \in Range(sideConf.outs[sideConf.sorted[i]])
        BY <3>2, <3>4, ConfFacts DEF SideInv, GraphGives
      <4>2. SentDone(s)
        BY <4>1, <2>2, ConfFacts DEF SideInv
      <4> QED  BY <3>1, <3>4, <4>2 DEF SideInv, DeliveredInv
    <3> QED  BY <3>3, <3>4
  <2>4. ASSUME NEW s \in sideConf.gout  PROVE gSlot[s] = attempt
    <3>1. s \in SideName /\ SentDone(s)
      BY <2>2, ConfFacts DEF SideInv
    <3> QED  BY <3>1 DEF SideInv, DeliveredInv
  <2> QED  BY <2>3, <2>4
<1> QED  BY <1>1, Invariance, PTL
=============================================================================
