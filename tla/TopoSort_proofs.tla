--------------------------- MODULE TopoSort_proofs ---------------------------
(***************************************************************************)
(* For every number of nodes and every wiring, IsExistLoop keeps its list  *)
(* topologically sorted and its verdict is right.                          *)
(***************************************************************************)
EXTENDS TopoSort, SeqLemmas, FiniteSetTheorems, SequenceTheorems, TLAPS

\* Sets of nodes are finite.
LEMMA NodeFinite ==
  /\ IsFiniteSet(Node)
  /\ Cardinality(Node) = N
  /\ \A S \in SUBSET Node : IsFiniteSet(S)
<1>1. IsFiniteSet(0 .. N - 1) /\ Cardinality(0 .. N - 1) = N
  <2>1. 0 \in Int /\ N - 1 \in Int
    BY NAssumption
  <2>2. /\ IsFiniteSet(0 .. N - 1)
        /\ Cardinality(0 .. N - 1) = IF 0 > N - 1 THEN 0 ELSE (N - 1) - 0 + 1
    BY <2>1, FS_Interval
  <2> QED BY <2>2, NAssumption
<1>2. \A S \in SUBSET Node : IsFiniteSet(S)
  BY <1>1, FS_Subset DEF Node
<1> QED BY <1>1, <1>2 DEF Node

-----------------------------------------------------------------------------
(* The inductive invariant.                                                *)

\* IsExistLoop starts in the invariant.
LEMMA InitIInv == SortInit => SortInv
<1> SUFFICES ASSUME SortInit PROVE SortInv
  OBVIOUS
<1>1. Popped = {} /\ Queued = {}
  BY DEF SortInit, Popped, Queued, Range
<1>2. SortTypeOK
  <2>1. /\ preList \in [Node -> SUBSET Node] /\ nodeCount \in [Node -> Int]
        /\ zeroCount \in Nat /\ seed \in 0 .. N /\ node \in Nat
        /\ todo \in SUBSET Node
    BY NAssumption DEF SortInit
  <2>2. q \in Seq(Node) /\ sortedNodes \in Seq(Node)
    BY EmptySeq DEF SortInit
  <2>3. pc \in {"seed", "pop", "visit", "done"} /\ isExistLoop \in BOOLEAN
    BY DEF SortInit
  <2> QED BY <2>1, <2>2, <2>3 DEF SortTypeOK
<1>3. OnceInv
  BY <1>1 DEF SortInit, OnceInv, IsInjective
<1>4. PhaseInv
  BY DEF SortInit, PhaseInv
<1>5. CountInv
  <2>1. \A n \in Node : ~ (n < seed)
    BY NAssumption DEF SortInit, Node
  <2> QED BY <1>1, <2>1, FS_EmptySet DEF SortInit, CountInv
<1>6. SortedIsTopological
  BY DEF SortInit, SortedIsTopological
<1>7. AcyclicInv
  BY <1>1 DEF AcyclicInv, Cyclic
<1> QED BY <1>2, <1>3, <1>4, <1>5, <1>6, <1>7 DEF SortInv

\* The first loop keeps it: nothing is popped, so every predecessor counts.
LEMMA SeedStep == SortInv /\ Seed => SortInv'
<1> SUFFICES ASSUME SortInv, Seed PROVE SortInv'
  OBVIOUS
<1> USE DEF SortInv
<1>0. seed \in Node /\ seed \in 0 .. N /\ seed + 1 \in 0 .. N
  BY NAssumption DEF SortTypeOK, Seed, Node
<1>1. sortedNodes = << >> /\ todo = {} /\ Popped = {} /\ Popped' = {}
  BY DEF Seed, PhaseInv, Popped, Range
<1>2. \A n \in Node : Waiting(n) = preList[n] /\ Waiting(n)' = preList[n]
  BY <1>1 DEF Waiting, Seed
<1>3. \A n \in Node : n < seed + 1 <=> n < seed \/ n = seed
  BY <1>0 DEF Node
<1>4. seed \notin Queued
  BY <1>0 DEF CountInv
<1>5. IF preList[seed] = {}
        THEN q' \in Seq(Node) /\ IsInjective(q') /\ Queued' = Queued \cup {seed}
        ELSE q' = q /\ Queued' = Queued
  BY <1>0, <1>4, AppendRange DEF Seed, SortTypeOK, OnceInv, Queued
<1>6. SortTypeOK'
  <2>1. q' \in Seq(Node)
    BY <1>5 DEF SortTypeOK
  <2>2. IsFiniteSet(preList[seed])
    BY <1>0, NodeFinite DEF SortTypeOK
  <2>3. Cardinality(preList[seed]) \in Int
    BY <2>2, FS_CardinalityType
  <2> QED BY <1>0, <2>1, <2>3 DEF SortTypeOK, Seed
<1>7. OnceInv'
  BY <1>1, <1>5 DEF OnceInv, Seed
<1>8. PhaseInv'
  BY <1>1 DEF PhaseInv, Seed
<1>9. CountInv'
  <2>1. zeroCount' = Cardinality(Popped')
    BY <1>1 DEF CountInv, Seed
  <2>2. \A n \in Node : n < seed' => nodeCount'[n] = Cardinality(Waiting(n)')
    BY <1>0, <1>2, <1>3 DEF CountInv, Seed, SortTypeOK
  <2>3. \A n \in Node :
          n \in Queued' \cup Popped' <=> n < seed' /\ Waiting(n)' = {}
    BY <1>0, <1>1, <1>2, <1>3, <1>5 DEF CountInv, Seed
  <2> QED BY <2>1, <2>2, <2>3 DEF CountInv
<1>10. SortedIsTopological'
  BY DEF SortedIsTopological, Seed
<1>11. AcyclicInv'
  BY <1>1 DEF AcyclicInv, Cyclic, Seed
<1> QED BY <1>6, <1>7, <1>8, <1>9, <1>10, <1>11

\* Steps that move only the program counter and set the verdict keep it.
LEMMA ControlStep == SortInv /\ (EndSeed \/ Finish) => SortInv'
<1> SUFFICES ASSUME SortInv, EndSeed \/ Finish PROVE SortInv'
  OBVIOUS
<1>1. UNCHANGED <<preList, nodeCount, q, sortedNodes, zeroCount, seed, node, todo>>
  BY DEF EndSeed, Finish
<1>2. Popped' = Popped /\ Queued' = Queued /\ \A n \in Node : Waiting(n)' = Waiting(n)
  BY <1>1 DEF Popped, Queued, Waiting
<1>3. SortTypeOK'
  BY DEF SortInv, SortTypeOK, EndSeed, Finish, LoopFound
<1>4. OnceInv'
  BY <1>1, <1>2 DEF SortInv, OnceInv
<1>5. PhaseInv'
  BY <1>1, <1>2 DEF SortInv, PhaseInv, SortTypeOK, EndSeed, Finish, LoopFound
<1>6. CountInv'
  BY <1>1, <1>2 DEF SortInv, CountInv
<1>7. SortedIsTopological'
  BY <1>1 DEF SortInv, SortedIsTopological
<1>8. AcyclicInv'
  BY <1>1, <1>2 DEF SortInv, AcyclicInv, Cyclic
<1> QED BY <1>3, <1>4, <1>5, <1>6, <1>7, <1>8 DEF SortInv

\* Popping keeps it: the popped node has all its predecessors before it, and
\* what a successor waits for does not change until it is visited.
LEMMA PopStep == SortInv /\ Pop => SortInv'
<1> SUFFICES ASSUME SortInv, Pop PROVE SortInv'
  OBVIOUS
<1> DEFINE c == Head(q)
<1>0. /\ SortTypeOK /\ OnceInv /\ PhaseInv /\ CountInv
      /\ SortedIsTopological /\ AcyclicInv
  BY DEF SortInv
<1>1. /\ c \in Node /\ c \in Queued /\ q' \in Seq(Node) /\ IsInjective(q')
      /\ Queued' = Queued \ {c}
  BY <1>0, TailRange DEF Pop, SortTypeOK, OnceInv, Queued
<1>2. c \notin Popped
  BY <1>0, <1>1 DEF OnceInv
<1>3. /\ sortedNodes' \in Seq(Node) /\ IsInjective(sortedNodes')
      /\ Popped' = Popped \cup {c}
      /\ DOMAIN sortedNodes' = 1 .. Len(sortedNodes) + 1
      /\ DOMAIN sortedNodes = 1 .. Len(sortedNodes)
      /\ Len(sortedNodes) \in Nat
      /\ \A i \in 1 .. Len(sortedNodes) : sortedNodes'[i] = sortedNodes[i]
      /\ sortedNodes'[Len(sortedNodes) + 1] = c
  BY <1>0, <1>1, <1>2, AppendRange DEF Pop, SortTypeOK, OnceInv, Popped
<1>4. todo = {} /\ seed = N /\ seed' = N /\ preList' = preList
  BY <1>0 DEF PhaseInv, Pop
<1>5. todo' = {n \in Node : c \in preList[n]} /\ node' = c
  BY DEF Pop, NextOf
<1>6. \A n \in Node : Waiting(n) = preList[n] \ Popped
  BY <1>4 DEF Waiting
<1>7. \A n \in Node : Waiting(n)' = Waiting(n)
  <2> SUFFICES ASSUME NEW n \in Node
               PROVE  Waiting(n)' = Waiting(n)
    OBVIOUS
  <2>1. Waiting(n)' = {p \in preList[n] : p \notin Popped \cup {c}
                                          \/ (n \in todo' /\ p = c)}
    BY <1>3, <1>4, <1>5 DEF Waiting
  <2>2. CASE c \in preList[n]
    BY <2>1, <2>2, <1>2, <1>5, <1>6
  <2>3. CASE c \notin preList[n]
    BY <2>1, <2>3, <1>5, <1>6
  <2> QED BY <2>2, <2>3
<1>8. \A n \in Popped \cup {c} : n \in Node /\ preList[n] \subseteq Popped
  <2>1. Popped \cup {c} \subseteq Node
    BY <1>0, <1>1, ElementOfSeq, LenProperties DEF SortTypeOK, Popped, Range
  <2>2. \A n \in Popped \cup {c} : Waiting(n) = {}
    BY <1>0, <1>1, <2>1 DEF CountInv
  <2> QED BY <1>6, <2>1, <2>2
<1>9. SortTypeOK'
  BY <1>0, <1>1, <1>3, <1>5 DEF SortTypeOK, Pop, Node
<1>10. OnceInv'
  BY <1>0, <1>1, <1>2, <1>3 DEF OnceInv
<1>11. PhaseInv'
  BY <1>0, <1>3, <1>4, <1>5 DEF PhaseInv, Pop
<1>12. CountInv'
  <2>1. IsFiniteSet(Popped)
    BY <1>8, NodeFinite
  <2>2. Cardinality(Popped \cup {c}) = Cardinality(Popped) + 1
    BY <1>2, <2>1, FS_AddElement
  <2>3. zeroCount' = Cardinality(Popped')
    BY <1>0, <1>3, <2>2 DEF CountInv, Pop
  <2>4. Queued' \cup Popped' = Queued \cup Popped
    BY <1>1, <1>3
  <2>5. nodeCount' = nodeCount /\ seed' = seed
    BY DEF Pop
  <2>6. \A n \in Node : n < seed' => nodeCount'[n] = Cardinality(Waiting(n)')
    BY <1>0, <1>7, <2>5 DEF CountInv
  <2>7. \A n \in Node :
          n \in Queued' \cup Popped' <=> n < seed' /\ Waiting(n)' = {}
    BY <1>0, <1>7, <2>4, <2>5 DEF CountInv
  <2> QED BY <2>3, <2>6, <2>7 DEF CountInv
<1>13. SortedIsTopological'
  <2> SUFFICES ASSUME NEW j \in DOMAIN sortedNodes',
                      NEW p \in preList[sortedNodes'[j]]
               PROVE  \E i \in DOMAIN sortedNodes' : i < j /\ sortedNodes'[i] = p
    BY <1>4 DEF SortedIsTopological
  <2>1. CASE j \in 1 .. Len(sortedNodes)
    <3>1. PICK i \in DOMAIN sortedNodes : i < j /\ sortedNodes[i] = p
      BY <1>0, <1>3, <2>1 DEF SortedIsTopological
    <3> QED BY <1>3, <3>1
  <2>2. CASE j = Len(sortedNodes) + 1
    <3>1. p \in Popped
      BY <1>3, <1>8, <2>2
    <3>2. PICK i \in DOMAIN sortedNodes : sortedNodes[i] = p
      BY <3>1 DEF Popped, Range
    <3> QED BY <1>3, <2>2, <3>2
  <2> QED BY <1>3, <2>1, <2>2
<1>14. AcyclicInv'
  <2> SUFFICES ASSUME NEW S \in SUBSET (Popped \cup {c}), Cyclic(S)
               PROVE  FALSE
    BY <1>3, <1>4 DEF AcyclicInv, Cyclic
  <2>1. S # {} /\ \A n \in S : preList[n] \cap S # {}
    BY DEF Cyclic
  <2>2. \A n \in S : preList[n] \cap (S \ {c}) # {}
    BY <1>2, <1>8, <2>1
  <2>3. S \ {c} \in SUBSET Popped /\ Cyclic(S \ {c})
    BY <2>1, <2>2 DEF Cyclic
  <2> QED BY <1>0, <2>3 DEF AcyclicInv
<1> QED BY <1>9, <1>10, <1>11, <1>12, <1>13, <1>14 DEF SortInv

\* Visiting a successor keeps it: its count and what it waits for lose the
\* popped node together, and it is queued when both reach nothing.
LEMMA VisitStep == ASSUME NEW n \in Node PROVE SortInv /\ Visit(n) => SortInv'
<1> SUFFICES ASSUME SortInv, Visit(n) PROVE SortInv'
  OBVIOUS
<1>0. /\ SortTypeOK /\ OnceInv /\ PhaseInv /\ CountInv
      /\ SortedIsTopological /\ AcyclicInv
  BY DEF SortInv
<1>1. /\ n \in todo /\ node \in Popped /\ node \in preList[n] /\ seed = N
      /\ todo' = todo \ {n}
      /\ UNCHANGED <<preList, sortedNodes, zeroCount, seed, node>>
  BY <1>0 DEF PhaseInv, Visit
<1>2. Popped' = Popped
  BY <1>1 DEF Popped
<1>3. node \in Waiting(n) /\ Waiting(n)' = Waiting(n) \ {node}
  BY <1>1, <1>2 DEF Waiting
<1>4. \A m \in Node \ {n} : Waiting(m)' = Waiting(m)
  BY <1>1, <1>2 DEF Waiting
<1>5. Waiting(n) \in SUBSET Node /\ IsFiniteSet(Waiting(n))
  BY <1>0, NodeFinite DEF Waiting, SortTypeOK
<1>6. /\ Cardinality(Waiting(n)') = nodeCount[n] - 1
      /\ Waiting(n)' = {} <=> nodeCount[n] - 1 = 0
  <2>1. /\ IsFiniteSet(Waiting(n) \ {node})
        /\ Cardinality(Waiting(n) \ {node}) = Cardinality(Waiting(n)) - 1
    BY <1>3, <1>5, FS_RemoveElement
  <2>2. n < seed
    BY <1>1, NAssumption DEF Node
  <2>3. nodeCount[n] = Cardinality(Waiting(n))
    BY <1>0, <2>2 DEF CountInv
  <2> QED BY <1>3, <2>1, <2>3, FS_EmptySet
<1>7. n \notin Queued /\ n \notin Popped
  BY <1>0, <1>3 DEF CountInv
<1>8. IF Waiting(n)' = {}
        THEN q' \in Seq(Node) /\ IsInjective(q') /\ Queued' = Queued \cup {n}
        ELSE q' = q /\ Queued' = Queued
  <2>1. CASE Waiting(n)' = {}
    <3>1. q' = Append(q, n)
      BY <1>6, <2>1 DEF Visit, Ready
    <3> QED BY <1>0, <1>7, <2>1, <3>1, AppendRange DEF SortTypeOK, OnceInv, Queued
  <2>2. CASE Waiting(n)' # {}
    BY <1>6, <2>2 DEF Visit, Ready, Queued
  <2> QED BY <2>1, <2>2
<1>9. nodeCount' = [nodeCount EXCEPT ![n] = nodeCount[n] - 1]
  BY DEF Visit
<1>10. SortTypeOK'
  <2>1. q' \in Seq(Node)
    BY <1>0, <1>8 DEF SortTypeOK
  <2>2. nodeCount' \in [Node -> Int]
    BY <1>0, <1>9 DEF SortTypeOK
  <2> QED BY <1>0, <1>1, <2>1, <2>2 DEF SortTypeOK, Visit
<1>11. OnceInv'
  BY <1>0, <1>1, <1>2, <1>7, <1>8 DEF OnceInv
<1>12. PhaseInv'
  BY <1>0, <1>1, <1>2 DEF PhaseInv, Visit
<1>13. CountInv'
  <2>1. zeroCount' = Cardinality(Popped')
    BY <1>0, <1>1, <1>2 DEF CountInv
  <2>2. \A m \in Node : m < seed' => nodeCount'[m] = Cardinality(Waiting(m)')
    BY <1>0, <1>1, <1>4, <1>6, <1>9 DEF CountInv, SortTypeOK
  <2>3. n < seed
    BY <1>1, NAssumption DEF Node
  <2>4. \A m \in Node :
          m \in Queued' \cup Popped' <=> m < seed' /\ Waiting(m)' = {}
    BY <1>0, <1>1, <1>2, <1>4, <1>7, <1>8, <2>3 DEF CountInv
  <2> QED BY <2>1, <2>2, <2>4 DEF CountInv
<1>14. SortedIsTopological'
  BY <1>0, <1>1 DEF SortedIsTopological
<1>15. AcyclicInv'
  BY <1>0, <1>1, <1>2 DEF AcyclicInv, Cyclic
<1> QED BY <1>10, <1>11, <1>12, <1>13, <1>14, <1>15 DEF SortInv

\* The invariant holds throughout every execution of IsExistLoop.
THEOREM Invariance == SortSpec => []SortInv
<1>1. SortInit => SortInv
  BY InitIInv
<1>2. SortInv /\ [SortNext]_sortVars => SortInv'
  <2> SUFFICES ASSUME SortInv, [SortNext]_sortVars PROVE SortInv'
    OBVIOUS
  <2>1. CASE Seed
    BY <2>1, SeedStep
  <2>2. CASE EndSeed \/ Finish
    BY <2>2, ControlStep
  <2>3. CASE Pop
    BY <2>3, PopStep
  <2>4. CASE \E n \in Node : Visit(n)
    BY <2>4, VisitStep
  <2>5. CASE UNCHANGED sortVars
    <3>1. /\ Popped' = Popped /\ Queued' = Queued
          /\ \A n \in Node : Waiting(n)' = Waiting(n)
      BY <2>5 DEF sortVars, Popped, Queued, Waiting
    <3>2. SortTypeOK' /\ OnceInv' /\ PhaseInv'
      BY <2>5, <3>1 DEF sortVars, SortInv, SortTypeOK, OnceInv, PhaseInv, LoopFound
    <3>3. CountInv' /\ AcyclicInv' /\ SortedIsTopological'
      BY <2>5, <3>1 DEF sortVars, SortInv, CountInv, AcyclicInv, SortedIsTopological, Cyclic
    <3> QED BY <3>2, <3>3 DEF SortInv
  <2> QED BY <2>1, <2>2, <2>3, <2>4, <2>5 DEF SortNext
<1> QED BY <1>1, <1>2, PTL DEF SortSpec

\* The list IsExistLoop builds is topologically sorted at every moment.
THEOREM Topological == SortSpec => []SortedIsTopological
<1>1. SortInv => SortedIsTopological
  BY DEF SortInv
<1> QED BY <1>1, Invariance, PTL

\* A configuration is rejected exactly when its wiring has a loop.
THEOREM Verdict == SortSpec => []VerdictCorrect
<1>1. SortInv => VerdictCorrect
  <2> SUFFICES ASSUME SortInv, pc = "done"
               PROVE  /\ isExistLoop <=> HasCycle
                      /\ ~ isExistLoop => Len(sortedNodes) = N /\ Popped = Node
    BY DEF VerdictCorrect
  <2>0. /\ SortTypeOK /\ OnceInv /\ PhaseInv /\ CountInv
        /\ SortedIsTopological /\ AcyclicInv
    BY DEF SortInv
  <2>1. q = << >> /\ todo = {} /\ seed = N /\ isExistLoop = (zeroCount # N)
    BY <2>0 DEF PhaseInv, LoopFound
  <2>2. Queued = {}
    BY <2>1 DEF Queued, Range
  <2>3. Popped \in SUBSET Node /\ IsFiniteSet(Node) /\ Cardinality(Node) = N
    BY <2>0, ElementOfSeq, LenProperties, NodeFinite DEF SortTypeOK, Popped, Range
  <2>4. zeroCount = N <=> Popped = Node
    <3>1. Cardinality(Node) = Cardinality(Popped) => Node = Popped
      BY <2>3, FS_Subset
    <3> QED BY <2>0, <2>3, <3>1 DEF CountInv
  <2>5. ASSUME isExistLoop PROVE HasCycle
    <3> DEFINE S == Node \ Popped
    <3>1. S # {} /\ S \in SUBSET Node
      BY <2>1, <2>3, <2>4, <2>5
    <3>2. ASSUME NEW n \in S PROVE preList[n] \cap S # {}
      <4>1. n < seed
        BY <2>1, NAssumption DEF Node
      <4>2. Waiting(n) # {}
        BY <2>0, <2>2, <4>1 DEF CountInv
      <4>3. preList[n] \in SUBSET Node
        BY <2>0 DEF SortTypeOK
      <4> QED BY <2>1, <4>2, <4>3 DEF Waiting
    <3>3. Cyclic(S)
      BY <3>1, <3>2 DEF Cyclic
    <3> QED BY <3>1, <3>3 DEF HasCycle
  <2>6. ASSUME ~ isExistLoop PROVE ~ HasCycle /\ Popped = Node
    BY <2>0, <2>1, <2>4, <2>6 DEF HasCycle, AcyclicInv
  <2>7. ASSUME ~ isExistLoop PROVE Len(sortedNodes) = N
    <3>1. sortedNodes \in [1 .. Len(sortedNodes) -> Node] /\ Len(sortedNodes) \in Nat
      BY <2>0, LenProperties DEF SortTypeOK
    <3>2. sortedNodes \in Bijection(1 .. Len(sortedNodes), Node)
      <4>1. \A i, j \in 1 .. Len(sortedNodes) :
              sortedNodes[i] = sortedNodes[j] => i = j
        BY <2>0, <3>1 DEF OnceInv, IsInjective
      <4>2. \A n \in Node : \E i \in 1 .. Len(sortedNodes) : sortedNodes[i] = n
        BY <2>6, <2>7, <3>1 DEF Popped, Range
      <4>3. sortedNodes \in Surjection(1 .. Len(sortedNodes), Node)
        BY <3>1, <4>2 DEF Surjection
      <4>4. sortedNodes \in Injection(1 .. Len(sortedNodes), Node)
        BY <3>1, <4>1 DEF Injection, IsInjective
      <4> QED BY <4>3, <4>4 DEF Bijection
    <3>3. /\ IsFiniteSet(1 .. Len(sortedNodes))
          /\ Cardinality(1 .. Len(sortedNodes)) = Len(sortedNodes)
      <4>1. 1 \in Int /\ Len(sortedNodes) \in Int
        BY <3>1
      <4>2. /\ IsFiniteSet(1 .. Len(sortedNodes))
            /\ Cardinality(1 .. Len(sortedNodes)) =
                 IF 1 > Len(sortedNodes) THEN 0 ELSE Len(sortedNodes) - 1 + 1
        BY <4>1, FS_Interval
      <4> QED BY <3>1, <4>2
    <3> QED BY <2>3, <3>2, <3>3, FS_Bijection DEF ExistsBijection
  <2> QED BY <2>5, <2>6, <2>7
<1> QED BY <1>1, Invariance, PTL

=============================================================================
