--------------------------- MODULE CppGraph_proofs --------------------------
(***************************************************************************)
(* For every graph whose predecessors cover its streams: the nodes keep    *)
(* their order, a round that runs every node leaves nothing behind, and    *)
(* the answer to the next is made of that round's inputs.  Then, for any   *)
(* number of mirrors, times and data, the stream queues by themselves.     *)
(*                                                                         *)
(* A node that has run is fed no more within the round, because whoever    *)
(* writes one of its streams is a predecessor and has run before it.       *)
(***************************************************************************)
EXTENDS CppGraph, StreamQueue, SeqLemmas, TLAPS

Shape ==
  /\ active => caller \in {"starting", "running"}
  /\ ~ active => busy = {}

\* What runs or has run has nothing queued; what has run has no side data.
RanEmpty ==
  active => /\ \A n \in done \cup busy : \A s \in Stream : queue[n][s] = << >>
            /\ \A n \in done : \A d \in Side : side[n][d] = Nil

IInv == TypeOK /\ Shape /\ RanEmpty /\ FullRoundDrains

\* The invariant holds at the start.
LEMMA InitIInv == Init => IInv
<1> SUFFICES ASSUME Init PROVE IInv
  OBVIOUS
<1>1. round \in 0 .. MaxRounds
  BY GraphAssumption DEF Init
<1>2. /\ DOMAIN queue = Node /\ \A n \in Node : DOMAIN queue[n] = Stream
      /\ DOMAIN side = Node /\ \A n \in Node : DOMAIN side[n] = Side
  BY DEF Init
<1>3. TypeOK
  BY <1>1, <1>2 DEF Init, TypeOK
<1> QED
  BY <1>3 DEF Init, IInv, Shape, RanEmpty, FullRoundDrains

\* What a caller's step that starts nothing leaves alone.
LEMMA CallerStep ==
  ASSUME IInv, ~ active,
         UNCHANGED <<active, done, busy, cancelled>>, caller' \in {"idle", "finished"},
         fresh' \in BOOLEAN, complete' \in BOOLEAN, UNCHANGED round,
         inClosed' \subseteq GraphIn, fed' \subseteq GraphIn,
         DOMAIN queue' = Node, \A n \in Node : DOMAIN queue'[n] = Stream,
         DOMAIN side' = Node, \A n \in Node : DOMAIN side'[n] = Side
  PROVE  IInv'
BY DEF IInv, TypeOK, Shape, RanEmpty, FullRoundDrains

\* The caller is idle only between rounds.
LEMMA IdleInactive == IInv /\ caller \in {"new", "idle", "finished"} => ~ active
BY DEF IInv, Shape

\* Every step keeps the invariant.
LEMMA NextIInv == IInv /\ [Next]_vars => IInv'
<1> SUFFICES ASSUME IInv, [Next]_vars PROVE IInv'
  OBVIOUS
<1> USE GraphAssumption DEF callerVars, workVars
<1>1. CASE UNCHANGED vars
  BY <1>1 DEF vars, IInv, TypeOK, Shape, RanEmpty, FullRoundDrains, Drained
<1>2. CASE PrepareForRun
  BY <1>2, CallerStep, IdleInactive DEF PrepareForRun, Emptied, FreshSide, IInv, TypeOK
<1>3. CASE RunOnce
  <2>1. ~ active
    BY <1>3, IdleInactive DEF RunOnce
  <2>2. busy = {}
    BY <2>1 DEF IInv, Shape
  <2>3. round' \in 0 .. MaxRounds
    BY <1>3 DEF RunOnce, IInv, TypeOK
  <2>4. TypeOK'
    BY <1>3, <2>2, <2>3 DEF RunOnce, IInv, TypeOK
  <2> QED
    BY <1>3, <2>2, <2>4 DEF RunOnce, IInv, Shape, RanEmpty, FullRoundDrains
<1>4. CASE AssignFuture
  BY <1>4 DEF AssignFuture, IInv, TypeOK, Shape, RanEmpty, FullRoundDrains, Drained
<1>5. CASE Wait
  BY <1>5, CallerStep DEF Wait, IInv, TypeOK
<1>6. CASE Cancel
  BY <1>6 DEF Cancel, IInv, TypeOK, Shape, RanEmpty, FullRoundDrains, Drained
<1>7. CASE ClearResult \/ CloseAllInputStreams \/ Finish
  BY <1>7, CallerStep, IdleInactive DEF ClearResult, CloseAllInputStreams, Finish, IInv, TypeOK
<1>8. CASE TopologyEnd
  <2>1. done = Node => \A n \in Node : Drained(n)
    BY <1>8 DEF TopologyEnd, IInv, RanEmpty, Drained
  <2> QED
    BY <1>8, <2>1 DEF TopologyEnd, IInv, TypeOK, Shape, RanEmpty, FullRoundDrains, Drained
<1>9. ASSUME NEW s \in Stream, AddDatumToInputStream(s) PROVE IInv'
  <2>1. DOMAIN queue' = Node /\ \A n \in Node : DOMAIN queue'[n] = Stream
    BY <1>9 DEF AddDatumToInputStream, Put, IInv, TypeOK
  <2> QED
    BY <1>9, <2>1, CallerStep, IdleInactive DEF AddDatumToInputStream, IInv, TypeOK
<1>10. ASSUME NEW s \in Stream, GetResult(s) \/ CloseInputStream(s) PROVE IInv'
  BY <1>10, CallerStep, IdleInactive DEF GetResult, CloseInputStream, IInv, TypeOK
<1>11. ASSUME NEW d \in Side, AddDatumToInputSideData(d) PROVE IInv'
  <2>1. DOMAIN side' = Node /\ \A n \in Node : DOMAIN side'[n] = Side
    BY <1>11 DEF AddDatumToInputSideData, IInv, TypeOK
  <2> QED
    BY <1>11, <2>1, CallerStep, IdleInactive DEF AddDatumToInputSideData, IInv, TypeOK
<1>12. ASSUME NEW n \in Node, ProcessBegin(n) PROVE IInv'
  <2>1. DOMAIN queue' = Node /\ \A m \in Node : DOMAIN queue'[m] = Stream
    BY <1>12 DEF ProcessBegin, IInv, TypeOK
  <2>2. \A m \in Node : m # n => queue'[m] = queue[m]
    BY <1>12 DEF ProcessBegin, IInv, TypeOK
  <2>3. \A s \in Stream : queue'[n][s] = << >>
    BY <1>12 DEF ProcessBegin, IInv, TypeOK
  <2>4. TypeOK' /\ Shape'
    BY <1>12, <2>1 DEF ProcessBegin, Ready, IInv, TypeOK, Shape
  <2>5. RanEmpty'
    BY <1>12, <2>2, <2>3 DEF ProcessBegin, IInv, TypeOK, RanEmpty
  <2>6. FullRoundDrains'
    BY <1>12 DEF ProcessBegin, FullRoundDrains
  <2> QED
    BY <2>4, <2>5, <2>6 DEF IInv
<1>13. ASSUME NEW n \in Node, ProcessEmit(n) \/ ProcessSilent(n) \/ ProcessFail(n) PROVE IInv'
  <2>1. n \in busy /\ ProcessEnd(n) /\ cancelled' \in BOOLEAN
    BY <1>13 DEF ProcessEmit, ProcessSilent, ProcessFail, IInv, TypeOK
  <2>2. active /\ active'
    BY <2>1 DEF ProcessEnd, IInv, Shape
  <2>3. DOMAIN queue' = Node /\ \A m \in Node : DOMAIN queue'[m] = Stream
    BY <1>13 DEF ProcessEmit, ProcessSilent, ProcessFail, Emit, IInv, TypeOK
  <2>4. ASSUME NEW m \in done \cup busy, NEW s \in Stream PROVE queue'[m][s] = queue[m][s]
    <3>1. Outs[n] \cap Ins[m] = {}
      \* Otherwise n is a predecessor of m and has run already.
      BY <2>1 DEF IInv, TypeOK
    <3> QED
      BY <1>13, <3>1 DEF ProcessEmit, ProcessSilent, ProcessFail, Emit, IInv, TypeOK
  <2>5. DOMAIN side' = Node /\ \A m \in Node : DOMAIN side'[m] = Side
    BY <2>1 DEF ProcessEnd, SideReset, IInv, TypeOK
  <2>6. /\ \A d \in Side : side'[n][d] = Nil
        /\ \A m \in Node : m # n => side'[m] = side[m]
    BY <2>1 DEF ProcessEnd, SideReset, IInv, TypeOK
  <2>7. TypeOK' /\ Shape'
    BY <2>1, <2>2, <2>3, <2>5 DEF ProcessEnd, IInv, TypeOK, Shape
  <2>8. RanEmpty'
    BY <2>1, <2>2, <2>4, <2>6 DEF ProcessEnd, IInv, TypeOK, RanEmpty
  <2>9. FullRoundDrains'
    BY <2>2 DEF FullRoundDrains
  <2> QED
    BY <2>7, <2>8, <2>9 DEF IInv
<1> QED
  BY <1>1, <1>2, <1>3, <1>4, <1>5, <1>6, <1>7, <1>8, <1>9, <1>10, <1>11, <1>12, <1>13 DEF Next

\* Graph::Run keeps its types, and a node runs only after its predecessors.
THEOREM Types == Spec => []TypeOK
<1>1. IInv => TypeOK
  BY DEF IInv
<1> QED
  BY <1>1, InitIInv, NextIInv, PTL DEF Spec

\* A complete round of Node::Process leaves no datum and no side datum behind.
THEOREM Drains == Spec => []FullRoundDrains
<1>1. IInv => FullRoundDrains
  BY DEF IInv
<1> QED
  BY <1>1, InitIInv, NextIInv, PTL DEF Spec
-----------------------------------------------------------------------------
(* Answers.  What is queued, kept as side data or held belongs to the      *)
(* round that is fed or runs, from the end of one complete round on.       *)

QueueOf(r) == Seq(SUBSET {r})

DataOf(r) ==
  \A n \in Node :
    /\ \A s \in Stream : queue[n][s] \in QueueOf(r)
    /\ \A d \in Side : side[n][d] \in SUBSET {r}

HeldOf(r) == \A n \in busy : \A s \in Stream : held[n][s] \in QueueOf(r)

AnswersOf(r) == \A s \in Observed : answers[s] \in QueueOf(r)

AnswerInv ==
  /\ DOMAIN answers = Observed /\ DOMAIN held = Node
  /\ caller = "idle" /\ complete => DataOf(round + 1)
  /\ active /\ clean => DataOf(round) /\ HeldOf(round)
  /\ clean => AnswersOf(round)
  /\ AnswerOfRound

\* Queues of data of one round: empty, longer by one, and their first datum.
LEMMA QueuesOf ==
  \A r : << >> \in QueueOf(r) /\ \A q \in QueueOf(r) : q # << >> => Head(q) \in SUBSET {r}
BY DEF QueueOf

LEMMA AppendOf ==
  ASSUME NEW r, NEW q \in QueueOf(r), NEW d \in SUBSET {r}, NEW p, p = q \/ p = Append(q, d)
  PROVE  p \in QueueOf(r)
BY DEF QueueOf

\* The invariant holds at the start.
LEMMA InitAnswerInv == Init => AnswerInv
<1> SUFFICES ASSUME Init PROVE AnswerInv
  OBVIOUS
<1>1. AnswersOf(round)
  BY QueuesOf DEF Init, AnswersOf
<1>2. AnswerOfRound
  BY DEF Init, AnswerOfRound, NoResult
<1> QED
  BY <1>1, <1>2 DEF Init, AnswerInv

\* What a task makes of data of round r is of round r.
LEMMA MadeOf ==
  ASSUME IInv, NEW r, NEW n \in busy, DataOf(r), HeldOf(r), Complete(n)
  PROVE  Made(n) \in SUBSET {r}
<1>1. n \in Node
  BY DEF IInv, TypeOK
<1>2. \A s \in Ins[n] : Head(held[n][s]) \in SUBSET {r}
  <2> SUFFICES ASSUME NEW s \in Ins[n] PROVE Head(held[n][s]) \in SUBSET {r}
    OBVIOUS
  <2>1. held[n][s] \in QueueOf(r) /\ held[n][s] # << >>
    BY <1>1, GraphAssumption DEF HeldOf, Complete
  <2> QED
    BY <2>1, QueuesOf
<1>3. \A d \in SideIns[n] : side[n][d] \in SUBSET {r}
  BY <1>1, GraphAssumption DEF DataOf
<1> QED
  BY <1>2, <1>3 DEF Made

\* Every step keeps it, if no graph input is observed as an output.
LEMMA NextAnswerInv ==
  ASSUME Observed \cap GraphIn = {}
  PROVE  IInv /\ AnswerInv /\ [Next]_vars => AnswerInv'
<1> SUFFICES ASSUME IInv, AnswerInv, [Next]_vars PROVE AnswerInv'
  OBVIOUS
<1> USE GraphAssumption DEF callerVars, workVars
<1>1. CASE UNCHANGED vars
  BY <1>1 DEF vars, AnswerInv, DataOf, HeldOf, AnswersOf, AnswerOfRound
<1>2. CASE PrepareForRun
  <2>1. ~ active /\ ~ active'
    BY <1>2, IdleInactive DEF PrepareForRun
  <2>2. DataOf(round + 1)'
    BY <1>2, QueuesOf DEF PrepareForRun, Emptied, FreshSide, DataOf, Nil
  <2>3. AnswersOf(round)' /\ DOMAIN answers' = Observed /\ DOMAIN held' = Node
    BY <1>2, QueuesOf DEF PrepareForRun, AnswersOf, AnswerInv
  <2> QED
    BY <1>2, <2>1, <2>2, <2>3 DEF PrepareForRun, AnswerInv, AnswerOfRound
<1>3. CASE RunOnce
  <2>1. busy = {}
    BY <1>3, IdleInactive DEF RunOnce, IInv, Shape
  <2>2. clean' => DataOf(round)' /\ HeldOf(round)'
    BY <1>3, <2>1 DEF RunOnce, AnswerInv, DataOf, HeldOf
  <2>3. clean' => AnswersOf(round)'
    <3> SUFFICES ASSUME clean', NEW s \in Observed PROVE answers'[s] \in QueueOf(round')
      BY DEF AnswersOf
    <3>1. answers'[s] = << >>
      BY <1>3 DEF RunOnce
    <3> QED
      BY <3>1, QueuesOf
  <2> QED
    BY <1>3, <2>2, <2>3 DEF RunOnce, AnswerInv, AnswerOfRound
<1>4. CASE AssignFuture \/ Cancel
  BY <1>4 DEF AssignFuture, Cancel, AnswerInv, DataOf, HeldOf, AnswersOf, AnswerOfRound
<1>5. CASE Wait
  <2>1. complete => DataOf(round + 1)'
    <3> SUFFICES ASSUME complete PROVE DataOf(round + 1)'
      OBVIOUS
    <3>1. \A n \in Node : Drained(n)
      BY <1>5 DEF Wait, IInv, FullRoundDrains
    <3> QED
      BY <1>5, <3>1, QueuesOf DEF Wait, Drained, DataOf, Nil
  <2> QED
    BY <1>5, <2>1 DEF Wait, AnswerInv, AnswersOf, AnswerOfRound
<1>6. CASE ClearResult
  <2>1. ~ active
    BY <1>6, IdleInactive DEF ClearResult
  <2>2. AnswersOf(round)' /\ DOMAIN answers' = Observed
    BY <1>6, QueuesOf DEF ClearResult, AnswersOf
  <2> QED
    BY <1>6, <2>1, <2>2 DEF ClearResult, AnswerInv, DataOf, AnswerOfRound
<1>7. ASSUME CloseAllInputStreams \/ Finish \/ \E s \in Stream : CloseInputStream(s) PROVE AnswerInv'
  <2>1. ~ active
    BY <1>7, IdleInactive DEF CloseAllInputStreams, Finish, CloseInputStream
  <2> QED
    BY <1>7, <2>1 DEF CloseAllInputStreams, Finish, CloseInputStream, AnswerInv, DataOf, AnswersOf, AnswerOfRound
<1>8. CASE TopologyEnd
  BY <1>8 DEF TopologyEnd, IInv, Shape, AnswerInv, AnswersOf, AnswerOfRound
<1>9. ASSUME NEW s \in Stream, AddDatumToInputStream(s) PROVE AnswerInv'
  <2>1. ~ active
    BY <1>9, IdleInactive DEF AddDatumToInputStream
  <2>2. DOMAIN answers' = Observed /\ \A o \in Observed : answers'[o] = answers[o]
    BY <1>9 DEF AddDatumToInputStream, AnswerInv
  <2>3. complete => DataOf(round + 1)'
    <3> SUFFICES ASSUME complete, NEW n \in Node, NEW t \in Stream
                 PROVE  queue'[n][t] \in QueueOf(round + 1)
      BY <1>9 DEF AddDatumToInputStream, AnswerInv, DataOf
    <3>1. queue[n][t] \in QueueOf(round + 1)
      BY <1>9 DEF AddDatumToInputStream, AnswerInv, DataOf
    <3>2. queue'[n][t] = queue[n][t] \/ queue'[n][t] = Append(queue[n][t], {round + 1})
      BY <1>9 DEF AddDatumToInputStream, Put, IInv, TypeOK
    <3>3. {round + 1} \in SUBSET {round + 1}
      OBVIOUS
    <3> QED
      BY <3>1, <3>2, <3>3, AppendOf
  <2> QED
    BY <1>9, <2>1, <2>2, <2>3 DEF AddDatumToInputStream, AnswerInv, AnswersOf, AnswerOfRound, DataOf
<1>10. ASSUME NEW s \in Stream, GetResult(s) PROVE AnswerInv'
  <2>1. ~ active /\ s \in Observed
    BY <1>10, IdleInactive DEF GetResult
  <2>2. DOMAIN answers' = Observed /\ (clean => AnswersOf(round)')
    BY <1>10, QueuesOf DEF GetResult, AnswerInv, AnswersOf
  <2>3. AnswerOfRound'
    <3> SUFFICES ASSUME clean, answers[s] # << >>, Head(answers[s]) # Nil
                 PROVE  Head(answers[s]) = {round}
      BY <1>10 DEF GetResult, Answer, AnswerOfRound
    <3>1. answers[s] \in QueueOf(round)
      BY <2>1 DEF AnswerInv, AnswersOf
    <3>2. Head(answers[s]) \in SUBSET {round}
      BY <3>1, QueuesOf
    <3> QED
      BY <3>2 DEF Nil
  <2> QED
    BY <1>10, <2>1, <2>2, <2>3 DEF GetResult, AnswerInv, DataOf
<1>11. ASSUME NEW d \in Side, AddDatumToInputSideData(d) PROVE AnswerInv'
  <2>1. ~ active
    BY <1>11, IdleInactive DEF AddDatumToInputSideData
  <2>2. complete => DataOf(round + 1)'
    <3> SUFFICES ASSUME complete, NEW n \in Node, NEW e \in Side
                 PROVE  side'[n][e] \in SUBSET {round + 1}
      BY <1>11 DEF AddDatumToInputSideData, AnswerInv, DataOf
    <3>1. side[n][e] \in SUBSET {round + 1}
      BY <1>11 DEF AddDatumToInputSideData, AnswerInv, DataOf
    <3>2. side'[n][e] = side[n][e] \/ side'[n][e] = {round + 1}
      BY <1>11 DEF AddDatumToInputSideData, SideSlot, IInv, TypeOK
    <3> QED
      BY <3>1, <3>2
  <2> QED
    BY <1>11, <2>1, <2>2 DEF AddDatumToInputSideData, AnswerInv, AnswersOf, AnswerOfRound
<1>12. ASSUME NEW n \in Node, ProcessBegin(n) PROVE AnswerInv'
  <2>1. active /\ caller # "idle"
    BY <1>12 DEF ProcessBegin, IInv, Shape
  <2>2. clean => DataOf(round)'
    <3> SUFFICES ASSUME clean, NEW m \in Node, NEW s \in Stream
                 PROVE  queue'[m][s] \in QueueOf(round)
      BY <1>12 DEF ProcessBegin, AnswerInv, DataOf
    <3>1. queue'[m][s] = queue[m][s] \/ queue'[m][s] = << >>
      BY <1>12 DEF ProcessBegin, IInv, TypeOK
    <3> QED
      BY <2>1, <3>1, QueuesOf DEF AnswerInv, DataOf
  <2>3. clean => HeldOf(round)'
    BY <1>12, <2>1 DEF ProcessBegin, AnswerInv, DataOf, HeldOf
  <2> QED
    BY <1>12, <2>1, <2>2, <2>3 DEF ProcessBegin, AnswerInv, AnswersOf, AnswerOfRound
<1>13. ASSUME NEW n \in Node, ProcessEmit(n) \/ ProcessSilent(n) \/ ProcessFail(n) PROVE AnswerInv'
  <2>1. n \in busy /\ ProcessEnd(n)
    BY <1>13 DEF ProcessEmit, ProcessSilent, ProcessFail
  <2>2. active /\ caller # "idle"
    BY <2>1 DEF IInv, Shape
  <2>3. UNCHANGED <<caller, round, clean, result, active, complete>> /\ DOMAIN held' = Node
    BY <2>1 DEF ProcessEnd, AnswerInv
  <2>4. DOMAIN answers' = Observed
    BY <1>13 DEF ProcessEmit, ProcessSilent, ProcessFail, Emit, AnswerInv
  <2>5. ASSUME clean PROVE DataOf(round)' /\ HeldOf(round)' /\ AnswersOf(round)'
    <3>1. DataOf(round) /\ HeldOf(round) /\ AnswersOf(round)
      BY <2>2, <2>5 DEF AnswerInv
    <3>2. HeldOf(round)'
      BY <2>1, <3>1 DEF ProcessEnd, HeldOf, AnswerInv
    <3>3. ASSUME NEW m \in Node, NEW d \in Side PROVE side'[m][d] \in SUBSET {round}
      <4>1. side'[m][d] = side[m][d] \/ side'[m][d] = Nil
        BY <2>1 DEF ProcessEnd, SideReset, IInv, TypeOK
      <4> QED
        BY <3>1, <4>1 DEF DataOf, Nil
    <3>4. CASE UNCHANGED <<queue, answers>>
      BY <2>3, <3>1, <3>2, <3>3, <3>4 DEF DataOf, AnswersOf
    <3>5. CASE Complete(n) /\ Emit(n, Made(n))
      <4>1. Made(n) \in SUBSET {round}
        BY <2>1, <3>1, <3>5, MadeOf
      <4>2. ASSUME NEW m \in Node, NEW s \in Stream PROVE queue'[m][s] \in QueueOf(round)
        <5>1. queue'[m][s] = queue[m][s] \/ queue'[m][s] = Append(queue[m][s], Made(n))
          BY <3>5 DEF Emit
        <5>2. queue[m][s] \in QueueOf(round)
          BY <3>1 DEF DataOf
        <5> QED
          BY <4>1, <5>1, <5>2, AppendOf
      <4>3. ASSUME NEW s \in Observed PROVE answers'[s] \in QueueOf(round)
        <5>1. answers'[s] = answers[s] \/ answers'[s] = Append(answers[s], Made(n))
          BY <3>5 DEF Emit
        <5>2. answers[s] \in QueueOf(round)
          BY <3>1 DEF AnswersOf
        <5> QED
          BY <4>1, <5>1, <5>2, AppendOf
      <4> QED
        BY <2>3, <3>2, <3>3, <4>2, <4>3 DEF DataOf, AnswersOf
    <3> QED
      BY <1>13, <3>4, <3>5 DEF ProcessEmit, ProcessSilent, ProcessFail
  <2> QED
    BY <2>2, <2>3, <2>4, <2>5 DEF AnswerInv, AnswerOfRound
<1> QED
  BY <1>1, <1>2, <1>3, <1>4, <1>5, <1>6, <1>7, <1>8, <1>9, <1>10, <1>11, <1>12, <1>13 DEF Next

(***************************************************************************)
(* Graph::GetResult: an answer of a round that followed a complete one,    *)
(* read out, is made of that round's input alone, for every graph, any     *)
(* number of rounds, and whatever fails or is cancelled.  A graph input    *)
(* that is observed too is read back as soon as it is fed, and is left     *)
(* aside.                                                                  *)
(***************************************************************************)
THEOREM Answers ==
  ASSUME Observed \cap GraphIn = {}
  PROVE  Spec => []AnswerOfRound
<1>1. AnswerInv => AnswerOfRound
  BY DEF AnswerInv
<1> QED
  BY <1>1, InitIInv, NextIInv, InitAnswerInv, NextAnswerInv, PTL DEF Spec

-----------------------------------------------------------------------------
(* input_stream_manager.cc and output_stream_handler.cc *)

\* AllInOrder of one slot, of what was given, the inputs, the queue, what is
\* to come, what was lost and how many data there were.
Fine(g, i, q, c, l, m) ==
  /\ Rising(i) /\ Rising(q) /\ Rising(c)
  /\ Before(g, Numbers(i) \cup Numbers(q) \cup Numbers(c))
  /\ Before(Numbers(i), Numbers(q) \cup Numbers(c))
  /\ Before(Numbers(q), Numbers(c))
  /\ (g \cup Numbers(i) \cup Numbers(q) \cup Numbers(c)) \cup l = 1 .. m
  /\ (g \cup Numbers(i) \cup Numbers(q) \cup Numbers(c)) \cap l = {}

\* The numbers of data, when sequences of them are put together or taken apart.
LEMMA NumbersAppend ==
  ASSUME NEW D, NEW s \in Seq(D), NEW d \in D
  PROVE  Numbers(Append(s, d)) = Numbers(s) \cup ({d.id} \ {0})
<1> DEFINE t == Append(s, d)
<1>1. /\ Len(s) \in Nat /\ DOMAIN s = 1 .. Len(s) /\ DOMAIN t = 1 .. Len(s) + 1
      /\ t[Len(s) + 1] = d /\ \A i \in 1 .. Len(s) : t[i] = s[i]
  OBVIOUS
<1> HIDE DEF t
<1>2. \A i \in DOMAIN t : i \in DOMAIN s \/ i = Len(s) + 1
  BY <1>1
<1>3. DOMAIN s \subseteq DOMAIN t /\ Len(s) + 1 \in DOMAIN t
  BY <1>1
<1>4. {t[i].id : i \in DOMAIN t} = {s[i].id : i \in DOMAIN s} \cup {d.id}
  BY <1>1, <1>2, <1>3
<1> QED BY <1>4 DEF Numbers, t

LEMMA NumbersConcat ==
  ASSUME NEW D, NEW s \in Seq(D), NEW c \in Seq(D)
  PROVE  Numbers(s \o c) = Numbers(s) \cup Numbers(c)
<1> DEFINE t == s \o c
<1>1. /\ Len(s) \in Nat /\ DOMAIN s = 1 .. Len(s) /\ Len(c) \in Nat /\ DOMAIN c = 1 .. Len(c)
      /\ DOMAIN t = 1 .. Len(s) + Len(c)
      /\ \A i \in 1 .. Len(s) : t[i] = s[i]
      /\ \A i \in 1 .. Len(c) : t[Len(s) + i] = c[i]
  OBVIOUS
<1> HIDE DEF t
<1>2. \A i \in DOMAIN t : i \in DOMAIN s \/ (i - Len(s) \in DOMAIN c /\ i = Len(s) + (i - Len(s)))
  BY <1>1
<1>3. DOMAIN s \subseteq DOMAIN t /\ \A i \in DOMAIN c : Len(s) + i \in DOMAIN t
  BY <1>1
<1>4. {t[i].id : i \in DOMAIN t} = {s[i].id : i \in DOMAIN s} \cup {c[i].id : i \in DOMAIN c}
  <2>1. ASSUME NEW i \in DOMAIN t PROVE t[i].id \in {s[j].id : j \in DOMAIN s} \cup {c[j].id : j \in DOMAIN c}
    BY <1>1, <1>2
  <2>2. ASSUME NEW i \in DOMAIN s PROVE s[i].id \in {t[j].id : j \in DOMAIN t}
    BY <1>1, <1>3
  <2>3. ASSUME NEW i \in DOMAIN c PROVE c[i].id \in {t[j].id : j \in DOMAIN t}
    BY <1>1, <1>3
  <2> QED BY <2>1, <2>2, <2>3
<1> QED BY <1>4 DEF Numbers, t

\* The numbers that have been given out.
LEMMA FineNumbers ==
  ASSUME NEW g, NEW i, NEW q, NEW c, NEW l, NEW m \in Nat, Fine(g, i, q, c, l, m)
  PROVE  \A x \in g \cup Numbers(i) \cup Numbers(q) \cup Numbers(c) \cup l : x \in Nat /\ 0 < x /\ x <= m
BY DEF Fine

\* addDatum.
LEMMA FineAdd ==
  ASSUME QueueBounds,
         NEW g, NEW i, NEW q, NEW c \in Seq(Sent), NEW l, NEW m \in Nat, Fine(g, i, q, c, l, m),
         NEW d \in Sent, d.id = m + 1
  PROVE  Fine(g, i, q, Append(c, d), l, m + 1)
<1>1. Numbers(Append(c, d)) = Numbers(c) \cup {m + 1}
  BY NumbersAppend
<1>2. \A x \in g \cup Numbers(i) \cup Numbers(q) \cup Numbers(c) \cup l : x \in Nat /\ x < m + 1
  BY FineNumbers
<1>3. Rising(Append(c, d))
  <2> DEFINE t == Append(c, d)
  <2>1. /\ Len(c) \in Nat /\ DOMAIN c = 1 .. Len(c) /\ DOMAIN t = 1 .. Len(c) + 1
        /\ t[Len(c) + 1] = d /\ \A j \in 1 .. Len(c) : t[j] = c[j]
    OBVIOUS
  <2> HIDE DEF t
  <2> SUFFICES ASSUME NEW j \in DOMAIN t, NEW k \in DOMAIN t, j < k, ~ IsEmpty(t[j]), ~ IsEmpty(t[k])
               PROVE  t[j].id < t[k].id
    BY DEF Rising, t
  <2>2. j \in 1 .. Len(c) /\ (k \in 1 .. Len(c) \/ k = Len(c) + 1)
    BY <2>1
  <2>3. CASE k \in 1 .. Len(c)
    <3>1. t[j] = c[j] /\ t[k] = c[k]
      BY <2>1, <2>2, <2>3
    <3> QED BY <2>1, <2>2, <2>3, <3>1 DEF Fine, Rising
  <2>4. CASE k = Len(c) + 1
    <3>1. t[j] = c[j] /\ c[j].id # 0 /\ t[k] = d
      BY <2>1, <2>2, <2>4 DEF IsEmpty
    <3>2. c[j].id \in Numbers(c)
      BY <2>1, <2>2, <3>1 DEF Numbers
    <3> QED BY <1>2, <3>1, <3>2
  <2> QED BY <2>2, <2>3, <2>4
<1>5. /\ Before(g, Numbers(i) \cup Numbers(q) \cup Numbers(Append(c, d)))
      /\ Before(Numbers(i), Numbers(q) \cup Numbers(Append(c, d)))
      /\ Before(Numbers(q), Numbers(Append(c, d)))
  BY <1>1, <1>2 DEF Fine, Before
<1>6. 1 .. m + 1 = 1 .. m \cup {m + 1} /\ m + 1 \notin l
  BY <1>2
<1>7. /\ (g \cup Numbers(i) \cup Numbers(q) \cup Numbers(Append(c, d))) \cup l = 1 .. m + 1
      /\ (g \cup Numbers(i) \cup Numbers(q) \cup Numbers(Append(c, d))) \cap l = {}
  BY <1>1, <1>6 DEF Fine
<1> QED BY <1>3, <1>5, <1>7 DEF Fine

\* Propagation to one mirror.
LEMMA FineMove ==
  ASSUME NEW g, NEW i, NEW q \in Seq(Sent), NEW c \in Seq(Sent), NEW l, NEW m \in Nat,
         Fine(g, i, q, c, l, m)
  PROVE  Fine(g, i, q \o c, << >>, l, m)
<1>1. Numbers(q \o c) = Numbers(q) \cup Numbers(c)
  BY NumbersConcat
<1>2. Numbers(<< >>) = {} /\ Rising(<< >>)
  BY DEF Numbers, Rising
<1>3. Rising(q \o c)
  <2> DEFINE t == q \o c
  <2>1. /\ Len(q) \in Nat /\ DOMAIN q = 1 .. Len(q) /\ Len(c) \in Nat /\ DOMAIN c = 1 .. Len(c)
        /\ DOMAIN t = 1 .. Len(q) + Len(c)
        /\ \A j \in 1 .. Len(q) : t[j] = q[j]
        /\ \A j \in 1 .. Len(q) + Len(c) : j > Len(q) => t[j] = c[j - Len(q)]
    OBVIOUS
  <2> HIDE DEF t
  <2> SUFFICES ASSUME NEW j \in DOMAIN t, NEW k \in DOMAIN t, j < k, ~ IsEmpty(t[j]), ~ IsEmpty(t[k])
               PROVE  t[j].id < t[k].id
    BY DEF Rising, t
  <2>2. CASE k \in 1 .. Len(q)
    <3>1. j \in 1 .. Len(q) /\ t[j] = q[j] /\ t[k] = q[k]
      BY <2>1, <2>2
    <3> QED BY <2>1, <2>2, <3>1 DEF Fine, Rising
  <2>3. CASE k \notin 1 .. Len(q) /\ j \in 1 .. Len(q)
    <3>1. k - Len(q) \in DOMAIN c /\ t[j] = q[j] /\ t[k] = c[k - Len(q)]
      BY <2>1, <2>3
    <3>2. t[j].id \in Numbers(q) /\ t[k].id \in Numbers(c)
      BY <2>1, <2>3, <3>1 DEF Numbers, IsEmpty
    <3> QED BY <3>2 DEF Fine, Before
  <2>4. CASE k \notin 1 .. Len(q) /\ j \notin 1 .. Len(q)
    <3>1. /\ k - Len(q) \in DOMAIN c /\ t[k] = c[k - Len(q)] /\ j - Len(q) < k - Len(q)
          /\ j - Len(q) \in DOMAIN c /\ t[j] = c[j - Len(q)]
      BY <2>1, <2>4
    <3> QED BY <3>1 DEF Fine, Rising
  <2> QED BY <2>2, <2>3, <2>4
<1>4. /\ Before(g, Numbers(i) \cup Numbers(q \o c) \cup Numbers(<< >>))
      /\ Before(Numbers(i), Numbers(q \o c) \cup Numbers(<< >>))
      /\ Before(Numbers(q \o c), Numbers(<< >>))
  BY <1>1, <1>2 DEF Fine, Before
<1>5. Numbers(q \o c) \cup Numbers(<< >>) = Numbers(q) \cup Numbers(c)
  BY <1>1, <1>2
<1>6. Rising(i)
  BY DEF Fine
<1>7. /\ (g \cup Numbers(i) \cup Numbers(q \o c) \cup Numbers(<< >>)) \cup l = 1 .. m
      /\ (g \cup Numbers(i) \cup Numbers(q \o c) \cup Numbers(<< >>)) \cap l = {}
  BY <1>5 DEF Fine
<1> QED BY <1>2, <1>3, <1>4, <1>6, <1>7 DEF Fine

\* The first n data leave the queue: at most the last of them is given to the
\* task, as d, and the others are lost.
LEMMA FineTake ==
  ASSUME NEW g, NEW i \in Seq(Given), NEW q \in Seq(Sent), NEW c, NEW l, NEW m \in Nat,
         Fine(g, i, q, c, l, m),
         NEW n \in 0 .. Len(q), NEW d \in Given, d.id = 0 \/ (n > 0 /\ d.id = q[n].id),
         NEW h, h = Append(i, d) \/ (h = i /\ d.id = 0)
  PROVE  Fine(g, h, SubSeq(q, n + 1, Len(q)), c, l \cup ({q[j].id : j \in 1 .. n} \ {d.id}), m)
<1> DEFINE A == {q[j].id : j \in 1 .. n}
           t == SubSeq(q, n + 1, Len(q))
           B == Numbers(t)
           I == Numbers(i)
           C == Numbers(c)
           Q == Numbers(q)
           e == {d.id} \ {0}
<1>1. /\ Len(q) \in Nat /\ DOMAIN q = 1 .. Len(q) /\ n \in Nat /\ n <= Len(q)
      /\ DOMAIN t = 1 .. Len(q) - n
      /\ \A j \in 1 .. Len(q) - n : t[j] = q[n + j]
  OBVIOUS
<1>2. \A j \in 1 .. Len(q) : q[j].id \in Nat \ {0}
  <2>1. \A j \in 1 .. Len(q) : q[j] \in Sent
    BY <1>1
  <2> QED BY <2>1 DEF Sent
<1>3. \A j \in 1 .. Len(q) : \A k \in 1 .. Len(q) : j < k => q[j].id < q[k].id
  BY <1>1, <1>2 DEF Fine, Rising, IsEmpty
<1>4. \A x \in B : \E k \in 1 .. Len(q) : k > n /\ x = q[k].id
  <2> SUFFICES ASSUME NEW j \in DOMAIN t PROVE \E k \in 1 .. Len(q) : k > n /\ t[j].id = q[k].id
    BY DEF Numbers
  <2>1. n + j \in 1 .. Len(q) /\ n + j > n /\ t[j] = q[n + j]
    BY <1>1
  <2> HIDE DEF t
  <2> QED BY <2>1
<1>5. \A k \in 1 .. Len(q) : k > n => q[k].id \in B
  <2> SUFFICES ASSUME NEW k \in 1 .. Len(q), k > n PROVE q[k].id \in B
    OBVIOUS
  <2>1. k - n \in DOMAIN t /\ t[k - n] = q[n + (k - n)] /\ n + (k - n) = k
    BY <1>1
  <2> HIDE DEF t
  <2> QED BY <1>2, <2>1 DEF Numbers
<1>6. A \cup B = Q
  <2>1. Q = {q[j].id : j \in 1 .. Len(q)}
    BY <1>1, <1>2 DEF Numbers
  <2>2. A \subseteq Q
    BY <1>1, <2>1
  <2>3. B \subseteq Q
    BY <1>4, <2>1
  <2>4. ASSUME NEW k \in 1 .. Len(q) PROVE q[k].id \in A \cup B
    <3>1. CASE k > n
      BY <1>5, <3>1
    <3>2. CASE ~ (k > n)
      <4>1. k \in 1 .. n
        BY <1>1, <3>2
      <4> QED BY <4>1
    <3> QED BY <3>1, <3>2
  <2> QED BY <2>1, <2>2, <2>3, <2>4
<1>7. ASSUME NEW x \in A, NEW y \in B PROVE x < y
  <2>1. PICK j \in 1 .. n : x = q[j].id
    OBVIOUS
  <2>2. PICK k \in 1 .. Len(q) : k > n /\ y = q[k].id
    BY <1>4
  <2>3. j \in 1 .. Len(q) /\ j < k
    BY <1>1, <2>2
  <2> QED BY <1>3, <2>1, <2>2, <2>3
<1>8. Rising(t)
  <2> SUFFICES ASSUME NEW j \in DOMAIN t, NEW k \in DOMAIN t, j < k PROVE t[j].id < t[k].id
    BY DEF Rising
  <2>1. n + j \in 1 .. Len(q) /\ n + k \in 1 .. Len(q) /\ n + j < n + k /\ t[j] = q[n + j] /\ t[k] = q[n + k]
    BY <1>1
  <2> HIDE DEF t
  <2> QED BY <1>3, <2>1
<1>9. e \subseteq A
  <2>1. CASE d.id = 0
    BY <2>1
  <2>2. CASE n > 0 /\ d.id = q[n].id
    BY <1>1, <2>2
  <2> QED BY <2>1, <2>2
<1>10. Numbers(h) = I \cup e
  <2>1. CASE h = Append(i, d)
    BY <2>1, NumbersAppend
  <2>2. CASE h = i /\ d.id = 0
    BY <2>2
  <2> QED BY <2>1, <2>2
<1>11. /\ Rising(i) /\ Rising(c)
       /\ Before(g, I \cup Q \cup C) /\ Before(I, Q \cup C) /\ Before(Q, C)
       /\ (g \cup I \cup Q \cup C) \cup l = 1 .. m /\ (g \cup I \cup Q \cup C) \cap l = {}
  BY DEF Fine
<1>12. Rising(h)
  <2>1. CASE h = i
    BY <1>11, <2>1
  <2>2. CASE h = Append(i, d)
    <3>1. /\ Len(i) \in Nat /\ DOMAIN i = 1 .. Len(i) /\ DOMAIN h = 1 .. Len(i) + 1
          /\ h[Len(i) + 1] = d /\ \A j \in 1 .. Len(i) : h[j] = i[j]
      BY <2>2
    <3> SUFFICES ASSUME NEW j \in DOMAIN h, NEW k \in DOMAIN h, j < k, ~ IsEmpty(h[j]), ~ IsEmpty(h[k])
                 PROVE  h[j].id < h[k].id
      BY DEF Rising
    <3>2. j \in 1 .. Len(i) /\ (k \in 1 .. Len(i) \/ k = Len(i) + 1)
      BY <3>1
    <3>3. CASE k \in 1 .. Len(i)
      BY <1>11, <3>1, <3>2, <3>3 DEF Rising
    <3>4. CASE k = Len(i) + 1
      <4>1. h[k] = d /\ d.id \in e /\ h[j] = i[j] /\ i[j].id \in I
        BY <3>1, <3>2, <3>4 DEF IsEmpty, Numbers
      <4>2. d.id \in Q
        BY <1>6, <1>9, <4>1
      <4> QED BY <1>11, <4>1, <4>2 DEF Before
    <3> QED BY <3>2, <3>3, <3>4
  <2> QED BY <2>1, <2>2
<1>13. \A x \in g \cup I \cup Q \cup C : ~ (x < x)
  BY FineNumbers
<1> HIDE DEF A, B, I, C, Q, t
<1>14. /\ Before(g, (I \cup e) \cup B \cup C) /\ Before(I \cup e, B \cup C) /\ Before(B, C)
  <2>1. Before(g, (I \cup e) \cup B \cup C) /\ Before(B, C)
    BY <1>6, <1>9, <1>11 DEF Before
  <2>2. Before(I \cup e, B \cup C)
    BY <1>6, <1>7, <1>9, <1>11 DEF Before
  <2> QED BY <2>1, <2>2
<1>15. (g \cup (I \cup e) \cup B \cup C) \cup (l \cup (A \ {d.id})) = 1 .. m
  <2>1. A \ {d.id} = A \ e
    <3>1. 0 \notin A
      BY <1>1, <1>2 DEF A
    <3> QED BY <3>1
  <2>2. (g \cup (I \cup e) \cup B \cup C) \cup (l \cup (A \ e)) = (g \cup I \cup (A \cup B) \cup C) \cup l
    BY <1>9
  <2> QED BY <1>6, <1>11, <2>1, <2>2
<1>16. (g \cup (I \cup e) \cup B \cup C) \cap (l \cup (A \ {d.id})) = {}
  <2>1. ASSUME NEW x \in A, x # d.id PROVE x \notin g /\ x \notin I /\ x \notin B /\ x \notin C
    <3>1. x \in Q /\ ~ (x < x)
      BY <1>6, <1>13, <2>1
    <3> QED BY <1>7, <1>11, <2>1, <3>1 DEF Before
  <2>2. (g \cup (I \cup e) \cup B \cup C) \subseteq g \cup I \cup Q \cup C
    BY <1>6, <1>9
  <2>3. \A x \in A \ {d.id} : x \notin e
    OBVIOUS
  <2> QED BY <1>11, <2>1, <2>2, <2>3
<1> QED BY <1>8, <1>10, <1>11, <1>12, <1>14, <1>15, <1>16 DEF Fine, A, B, C, t

\* PrepareForRun, with nothing to come.
LEMMA FineClear ==
  ASSUME NEW g, NEW i, NEW q, NEW l, NEW m \in Nat, Fine(g, i, q, << >>, l, m)
  PROVE  Fine(g, i, << >>, << >>, l \cup Numbers(q), m)
<1>1. Numbers(<< >>) = {} /\ Rising(<< >>)
  BY DEF Numbers, Rising
<1> DEFINE I == Numbers(i)
           Q == Numbers(q)
           E == Numbers(<< >>)
<1>2. \A x \in g \cup I \cup Q : ~ (x < x)
  BY FineNumbers
<1>3. /\ Rising(i) /\ Before(g, I \cup Q \cup E) /\ Before(I, Q \cup E)
      /\ (g \cup I \cup Q \cup E) \cup l = 1 .. m /\ (g \cup I \cup Q \cup E) \cap l = {}
  BY DEF Fine
<1> HIDE DEF I, Q, E
<1>4. E = {}
  BY <1>1 DEF E
<1>5. Before(g, I \cup E \cup E) /\ Before(I, E \cup E) /\ Before(E, E)
  BY <1>3, <1>4 DEF Before
<1>6. \A x \in Q : x \notin g /\ x \notin I
  BY <1>2, <1>3 DEF Before
<1>7. (g \cup I \cup E \cup E) \cup (l \cup Q) = 1 .. m
  <2>1. (g \cup I \cup E \cup E) \cup (l \cup Q) = (g \cup I \cup Q \cup E) \cup l
    OBVIOUS
  <2> QED BY <1>3, <2>1
<1>8. (g \cup I \cup E \cup E) \cap (l \cup Q) = {}
  BY <1>3, <1>4, <1>6
<1> QED BY <1>1, <1>3, <1>5, <1>7, <1>8 DEF Fine, I, Q, E

\* PostProcess.
LEMMA FineGiven ==
  ASSUME NEW g, NEW i, NEW q, NEW c, NEW l, NEW m \in Nat, Fine(g, i, q, c, l, m)
  PROVE  Fine(g \cup Numbers(i), << >>, q, c, l, m)
<1>1. Numbers(<< >>) = {} /\ Rising(<< >>)
  BY DEF Numbers, Rising
<1> DEFINE I == Numbers(i)
           Q == Numbers(q)
           C == Numbers(c)
           E == Numbers(<< >>)
<1>2. /\ Rising(q) /\ Rising(c)
      /\ Before(g, I \cup Q \cup C) /\ Before(I, Q \cup C) /\ Before(Q, C)
      /\ (g \cup I \cup Q \cup C) \cup l = 1 .. m /\ (g \cup I \cup Q \cup C) \cap l = {}
  BY DEF Fine
<1> HIDE DEF I, Q, C, E
<1>3. E = {}
  BY <1>1 DEF E
<1>4. Before(g \cup I, E \cup Q \cup C) /\ Before(E, Q \cup C)
  BY <1>2, <1>3 DEF Before
<1>5. (g \cup I) \cup E \cup Q \cup C = g \cup I \cup Q \cup C
  BY <1>3
<1>6. ((g \cup I) \cup E \cup Q \cup C) \cup l = 1 .. m /\ ((g \cup I) \cup E \cup Q \cup C) \cap l = {}
  BY <1>2, <1>5
<1> QED BY <1>1, <1>2, <1>4, <1>6 DEF Fine, I, Q, C, E

\* The invariant of a slot, now and in the next state.
LEMMA FineIs ==
  ASSUME NEW k \in Slot
  PROVE  /\ (InOrder(k) /\ EachOnce(k)) <=> Fine(given[k], inputs[k], squeue[k], Coming(k), lost[k], made)
         /\ (InOrder(k)' /\ EachOnce(k)') <=>
              Fine(given'[k], inputs'[k], squeue'[k], Coming(k)', lost'[k], made')
<1>1. (InOrder(k) /\ EachOnce(k)) <=> Fine(given[k], inputs[k], squeue[k], Coming(k), lost[k], made)
  BY DEF InOrder, EachOnce, Fine
<1>2. (InOrder(k)' /\ EachOnce(k)') <=>
        Fine(given'[k], inputs'[k], squeue'[k], Coming(k)', lost'[k], made')
  BY DEF InOrder, EachOnce, Fine, Rising, Before, Numbers, IsEmpty
<1> QED BY <1>1, <1>2

\* A slot that a step does not touch.
LEMMA SlotFrame ==
  ASSUME NEW k \in Slot, InOrder(k), EachOnce(k), Coming(k)' = Coming(k),
         UNCHANGED <<given[k], inputs[k], squeue[k], lost[k], made>>
  PROVE  InOrder(k)' /\ EachOnce(k)'
BY FineIs

\* Types of the constants.
LEMMA QueueConstants ==
  ASSUME QueueBounds
  PROVE  /\ M \in Nat \ {0} /\ TMax \in Nat /\ TMax >= 3 /\ MaxData \in Nat /\ Slot = 1 .. M
         /\ TimestampBegin = 1 /\ TimestampEnd = TMax - 1 /\ Time = 0 .. TMax
BY DEF QueueBounds, Slot, TimestampBegin, kCtimeMin, TimestampEnd, Time

\* What PopAt takes off the queue is a part of it, all stale, and up to the first that is not.
LEMMA PoppedIs ==
  ASSUME NEW q \in Seq(Sent), NEW ts
  PROVE  LET n == Popped(q, ts) IN
         /\ n \in 0 .. Len(q) /\ \A i \in 1 .. n : Stale(q[i], ts)
         /\ n < Len(q) => ~ Stale(q[n + 1], ts)
<1> DEFINE P(n) == (\A i \in 1 .. n : Stale(q[i], ts)) /\ (n < Len(q) => ~ Stale(q[n + 1], ts))
           S == {n \in 0 .. Len(q) : \A i \in 1 .. n : Stale(q[i], ts)}
<1>1. Len(q) \in Nat /\ 0 \in S /\ S \subseteq 0 .. Len(q)
  OBVIOUS
<1>2. PICK n \in S : \A y \in S : y <= n
  BY <1>1, LargestOf
<1>3. n < Len(q) => ~ Stale(q[n + 1], ts)
  <2> SUFFICES ASSUME n < Len(q), Stale(q[n + 1], ts) PROVE FALSE
    OBVIOUS
  <2>1. n + 1 \in 0 .. Len(q) /\ n \in Int
    BY <1>1, <1>2
  <2>2. \A i \in 1 .. n + 1 : i \in 1 .. n \/ i = n + 1
    BY <2>1
  <2>3. n + 1 \in S
    BY <1>2, <2>1, <2>2
  <2> QED BY <1>2, <2>1, <2>3
<1>4. n \in 0 .. Len(q) /\ P(n)
  BY <1>2, <1>3
<1>5. \E x \in 0 .. Len(q) : P(x)
  BY <1>4
<1>6. Popped(q, ts) \in 0 .. Len(q) /\ P(Popped(q, ts))
  <2>1. Popped(q, ts) = CHOOSE x \in 0 .. Len(q) : P(x)
    BY DEF Popped
  <2> HIDE DEF P
  <2> QED BY <1>5, <2>1
<1> QED BY <1>6

\* The producer: a datum comes to the list, which goes to the mirrors in turn.
LEMMA ProducerStep ==
  ASSUME QueueBounds, StreamInv,
         AddDatum \/ CloseOutput \/ PropagateStart \/ Propagate
  PROVE  StreamInv'
<1>0. /\ StreamTypes /\ EndIsClose /\ \A k \in Slot : InOrder(k) /\ EachOnce(k)
  BY DEF StreamInv, AllInOrder
<1> USE DEF consumer
<1>1. CASE AddDatum
  <2>1. /\ prop = 0 /\ tries < MaxData /\ tries' = tries + 1
        /\ UNCHANGED <<outOpen, prop, squeue, bound, closed, at, mode, syncTs, inputs, given, lost>>
    BY <1>1 DEF AddDatum
  <2>2. CASE UNCHANGED <<outq, made>>
    <3>1. StreamTypes'
      BY <1>0, <2>1, <2>2, QueueConstants DEF StreamTypes
    <3>2. \A k \in Slot : Coming(k)' = Coming(k)
      BY <2>1, <2>2 DEF Coming
    <3>3. \A k \in Slot : InOrder(k)' /\ EachOnce(k)'
      BY <1>0, <2>1, <2>2, <3>2, SlotFrame
    <3>4. EndIsClose'
      BY <1>0, <2>1 DEF EndIsClose, TimestampDone
    <3> QED BY <3>1, <3>3, <3>4 DEF StreamInv, AllInOrder
  <2>3. ASSUME NEW ts \in Time, NEW empty \in BOOLEAN, Sendable(ts, empty),
               outq' = Append(outq, [id |-> made + 1, ts |-> ts]), made' = made + 1
        PROVE  StreamInv'
    <3>1. PICK d : d = [id |-> made + 1, ts |-> ts]
      OBVIOUS
    <3>2. made \in Nat /\ tries \in Nat /\ made <= tries /\ outq \in Seq(Sent)
      BY <1>0 DEF StreamTypes
    <3>3. d \in Sent /\ d.id = made + 1
      <4>1. made + 1 \in 1 .. MaxData
        BY <2>1, <3>2, QueueConstants
      <4>2. ts \in (TimestampBegin + 1) .. (TimestampEnd - 1)
        BY <2>3, QueueConstants DEF Sendable
      <4> QED BY <3>1, <4>1, <4>2 DEF Sent
    <3>4. outq' = Append(outq, d) /\ outq' \in Seq(Sent)
      BY <2>3, <3>1, <3>2, <3>3
    <3>5. StreamTypes'
      <4>1. tries' \in Nat /\ tries' <= MaxData /\ made' \in Nat /\ made' <= tries'
        BY <2>1, <2>3, <3>2, QueueConstants
      <4> QED BY <1>0, <2>1, <3>4, <4>1 DEF StreamTypes
    <3>6. \A k \in Slot : Coming(k) = outq /\ Coming(k)' = outq'
      BY <2>1 DEF Coming
    <3>7. ASSUME NEW k \in Slot PROVE InOrder(k)' /\ EachOnce(k)'
      <4>1. Fine(given[k], inputs[k], squeue[k], outq, lost[k], made)
        BY <1>0, <3>6, FineIs
      <4>2. Fine(given[k], inputs[k], squeue[k], outq', lost[k], made')
        BY <2>3, <3>2, <3>3, <3>4, <4>1, FineAdd
      <4> QED BY <2>1, <3>6, <4>2, FineIs
    <3>8. EndIsClose'
      BY <1>0, <2>1 DEF EndIsClose, TimestampDone
    <3> QED BY <3>5, <3>7, <3>8 DEF StreamInv, AllInOrder
  <2> QED BY <1>1, <2>2, <2>3 DEF AddDatum
<1>2. CASE CloseOutput \/ PropagateStart
  <2>1. /\ UNCHANGED <<outq, made, tries, squeue, bound, closed, at, mode, syncTs, inputs, given, lost>>
        /\ outOpen' \in BOOLEAN /\ (prop' = prop \/ (prop = 0 /\ prop' = 1))
    BY <1>0, <1>2 DEF CloseOutput, PropagateStart, StreamTypes
  <2>2. StreamTypes'
    <3>1. prop' \in 0 .. M
      BY <1>0, <2>1, QueueConstants DEF StreamTypes
    <3> QED BY <1>0, <2>1, <3>1 DEF StreamTypes
  <2>3. \A k \in Slot : Coming(k)' = Coming(k)
    BY <2>1, QueueConstants DEF Coming
  <2>4. \A k \in Slot : InOrder(k)' /\ EachOnce(k)'
    BY <1>0, <2>1, <2>3, SlotFrame
  <2>5. EndIsClose'
    BY <1>0, <2>1 DEF EndIsClose, TimestampDone
  <2> QED BY <2>2, <2>4, <2>5 DEF StreamInv, AllInOrder
<1>3. CASE Propagate
  <2>0. PICK p \in Slot : p = prop
    BY <1>3 DEF Propagate
  <2> DEFINE b == IF outq = << >> THEN bound[p] ELSE outq[Len(outq)].ts + 1
  <2>1. /\ squeue' = [squeue EXCEPT ![p] = squeue[p] \o outq] /\ bound' = [bound EXCEPT ![p] = b]
        /\ IF p = M THEN outq' = << >> /\ prop' = 0 ELSE prop' = p + 1 /\ outq' = outq
        /\ UNCHANGED <<outOpen, made, tries, closed, at, mode, syncTs, inputs, given, lost>>
    BY <1>3, <2>0 DEF Propagate, LastMirror, Last
  <2>2. /\ outq \in Seq(Sent) /\ squeue \in [Slot -> Seq(Sent)] /\ bound \in [Slot -> Time]
        /\ made \in Nat
    BY <1>0 DEF StreamTypes
  <2>3. b \in Time /\ (b = TMax => bound[p] = TMax)
    <3>1. CASE outq = << >>
      BY <2>2, <3>1
    <3>2. CASE outq # << >>
      <4>1. outq[Len(outq)] \in Sent
        BY <2>2, <3>2
      <4>2. outq[Len(outq)].ts \in (TimestampBegin + 1) .. (TimestampEnd - 1)
        BY <4>1 DEF Sent
      <4> QED BY <3>2, <4>2, QueueConstants
    <3> QED BY <3>1, <3>2
  <2> HIDE DEF b
  <2>4. /\ squeue' \in [Slot -> Seq(Sent)] /\ squeue'[p] = squeue[p] \o outq
        /\ \A k \in Slot : k # p => squeue'[k] = squeue[k]
    <3>1. squeue[p] \o outq \in Seq(Sent)
      BY <2>2
    <3> QED BY <2>1, <2>2, <3>1
  <2>5. StreamTypes'
    <3>1. outq' \in Seq(Sent) /\ prop' \in 0 .. M
      <4>1. << >> \in Seq(Sent)
        OBVIOUS
      <4>2. outq' \in Seq(Sent)
        BY <2>1, <2>2, <4>1, Zenon
      <4>3. p \in 1 .. M /\ M \in Nat
        BY QueueConstants
      <4>4. prop' = 0 \/ (prop' = p + 1 /\ p # M)
        BY <2>1
      <4>5. prop' \in 0 .. M
        BY <4>3, <4>4
      <4> QED BY <4>2, <4>5
    <3>2. bound' \in [Slot -> Time]
      BY <2>1, <2>2, <2>3
    <3> QED BY <1>0, <2>1, <2>4, <3>1, <3>2 DEF StreamTypes
  <2>6. EndIsClose'
    BY <1>0, <2>1, <2>2, <2>3 DEF EndIsClose, TimestampDone
  <2>7. Coming(p) = outq /\ Coming(p)' = << >>
    BY <2>0, <2>1, QueueConstants DEF Coming
  <2>8. \A k \in Slot : k # p => Coming(k)' = Coming(k)
    BY <2>0, <2>1, QueueConstants DEF Coming
  <2>9. InOrder(p)' /\ EachOnce(p)'
    <3>1. Fine(given[p], inputs[p], squeue[p], outq, lost[p], made)
      BY <1>0, <2>7, FineIs
    <3>2. Fine(given[p], inputs[p], squeue'[p], << >>, lost[p], made)
      BY <2>2, <2>4, <3>1, FineMove
    <3> QED BY <2>1, <2>7, <3>2, FineIs
  <2>10. \A k \in Slot : k # p => InOrder(k)' /\ EachOnce(k)'
    BY <1>0, <2>1, <2>4, <2>8, SlotFrame
  <2> QED BY <2>5, <2>6, <2>9, <2>10 DEF StreamInv, AllInOrder
<1> QED BY <1>1, <1>2, <1>3

\* The managers: a bound, the end of a stream, another run.
LEMMA ManagerStep ==
  ASSUME QueueBounds, StreamInv,
         \/ PrepareManagers
         \/ \E k \in Slot : Close(k) \/ \E ts \in Bounds : SetNextTimestampBound(k, ts)
  PROVE  StreamInv'
<1>0. /\ StreamTypes /\ EndIsClose /\ \A k \in Slot : InOrder(k) /\ EachOnce(k)
  BY DEF StreamInv, AllInOrder
<1> USE DEF consumer, producer
<1>1. CASE PrepareManagers
  <2>1. /\ outq = << >> /\ lost' = [k \in Slot |-> lost[k] \cup Numbers(squeue[k])]
        /\ squeue' = [k \in Slot |-> << >>] /\ bound' = [k \in Slot |-> TimestampBegin]
        /\ UNCHANGED <<outq, outOpen, prop, made, tries, closed, inputs, given, at, mode, syncTs>>
    BY <1>1 DEF PrepareManagers
  <2>2. made \in Nat /\ lost \in [Slot -> SUBSET Nat] /\ squeue \in [Slot -> Seq(Sent)]
    BY <1>0 DEF StreamTypes
  <2>3. \A k \in Slot : Coming(k) = << >> /\ Coming(k)' = << >>
    BY <2>1 DEF Coming
  <2>4. ASSUME NEW k \in Slot
        PROVE  /\ InOrder(k)' /\ EachOnce(k)' /\ lost'[k] \in SUBSET Nat
    <3>1. Fine(given[k], inputs[k], squeue[k], << >>, lost[k], made)
      BY <1>0, <2>3, FineIs
    <3>2. Fine(given[k], inputs[k], << >>, << >>, lost[k] \cup Numbers(squeue[k]), made)
      BY <2>2, <3>1, FineClear
    <3>3. \A x \in Numbers(squeue[k]) : x \in Nat
      BY <2>2, <3>1, FineNumbers
    <3> QED BY <2>1, <2>2, <2>3, <3>2, <3>3, FineIs
  <2>5. StreamTypes'
    <3>1. lost' \in [Slot -> SUBSET Nat]
      BY <2>1, <2>4
    <3>2. squeue' \in [Slot -> Seq(Sent)] /\ bound' \in [Slot -> Time]
      BY <2>1, QueueConstants
    <3> QED BY <1>0, <2>1, <3>1, <3>2 DEF StreamTypes
  <2>6. EndIsClose'
    BY <2>1, QueueConstants DEF EndIsClose, TimestampDone
  <2> QED BY <2>4, <2>5, <2>6 DEF StreamInv, AllInOrder
<1>2. ASSUME NEW k \in Slot, Close(k) \/ \E ts \in Bounds : SetNextTimestampBound(k, ts)
      PROVE  StreamInv'
  <2>1. /\ UNCHANGED <<outq, outOpen, prop, made, tries, squeue, inputs, given, lost, at, mode, syncTs>>
        /\ \E b \in Time : /\ bound' = [bound EXCEPT ![k] = b]
                              /\ \/ closed' = [closed EXCEPT ![k] = TRUE]
                                 \/ closed' = closed /\ b # TMax
    <3>1. CASE Close(k)
      <4>1. TMax \in Time
        BY QueueConstants
      <4> QED BY <3>1, <4>1 DEF Close
    <3>2. CASE \E ts \in Bounds : SetNextTimestampBound(k, ts)
      <4>1. PICK ts \in Bounds : SetNextTimestampBound(k, ts)
        BY <3>2
      <4>2. ts \in Time /\ ts # TMax
        BY QueueConstants DEF Bounds
      <4> QED BY <4>1, <4>2 DEF SetNextTimestampBound
    <3> QED BY <1>2, <3>1, <3>2
  <2>2. bound \in [Slot -> Time] /\ closed \in [Slot -> BOOLEAN]
    BY <1>0 DEF StreamTypes
  <2>3. bound' \in [Slot -> Time] /\ closed' \in [Slot -> BOOLEAN]
    BY <2>1, <2>2
  <2>4. StreamTypes'
    BY <1>0, <2>1, <2>3 DEF StreamTypes
  <2>5. EndIsClose'
    BY <1>0, <2>1, <2>2 DEF EndIsClose, TimestampDone
  <2>6. \A f \in Slot : Coming(f)' = Coming(f)
    BY <2>1 DEF Coming
  <2>7. \A f \in Slot : InOrder(f)' /\ EachOnce(f)'
    BY <1>0, <2>1, <2>6, SlotFrame
  <2> QED BY <2>4, <2>5, <2>7 DEF StreamInv, AllInOrder
<1> QED BY <1>1, <1>2

\* SyncAt or Sync goes on to the next slot.
LEMMA NextSlotTypes ==
  ASSUME QueueBounds, StreamTypes, NextSlot, at \in Slot
  PROVE  /\ at' \in 0 .. M /\ syncTs' \in Time
         /\ mode' \in {0} \cup (TimestampBegin + 1) .. (TimestampEnd - 1)
<1>1. at \in 1 .. M /\ M \in Nat /\ Slot = 1 .. M
  BY QueueConstants
<1>2. CASE at = M
  <2>1. at' = 0 /\ syncTs' = 0 /\ mode' = 0
    BY <1>2 DEF NextSlot
  <2> QED BY <1>1, <2>1, QueueConstants
<1>3. CASE at # M
  <2>1. at' = at + 1 /\ syncTs' = NextTimestampOrBound(at + 1) /\ mode' = mode
    BY <1>3 DEF NextSlot
  <2>2. at + 1 \in Slot /\ at + 1 \in 0 .. M
    BY <1>1, <1>3
  <2>3. NextTimestampOrBound(at + 1) \in Time
    <3>1. squeue[at + 1] \in Seq(Sent) /\ bound[at + 1] \in Time
      BY <2>2 DEF StreamTypes
    <3>2. squeue[at + 1] # << >> => Head(squeue[at + 1]) \in Sent
      BY <3>1
    <3>3. \A d \in Sent : d.ts \in Time
      BY QueueConstants DEF Sent
    <3> QED BY <3>1, <3>2, <3>3 DEF NextTimestampOrBound
  <2> QED BY <2>1, <2>2, <2>3 DEF StreamTypes
<1> QED BY <1>2, <1>3

\* The slot at which the consumer works, when the first n data leave its queue.
LEMMA TakeStep ==
  ASSUME QueueBounds, StreamInv, NEW k \in Slot, NEW n \in 0 .. Len(squeue[k]),
         NEW d \in Given, d.id = 0 \/ (n > 0 /\ d.id = squeue[k][n].id),
         UNCHANGED <<outq, outOpen, prop, made, tries, closed, given>>,
         squeue' = [squeue EXCEPT ![k] = SubSeq(squeue[k], n + 1, Len(squeue[k]))],
         \/ inputs' = [inputs EXCEPT ![k] = Append(inputs[k], d)]
         \/ inputs' = inputs /\ d.id = 0,
         lost' = [lost EXCEPT ![k] = lost[k] \cup ({squeue[k][j].id : j \in 1 .. n} \ {d.id})],
         bound' \in [Slot -> Time], EndIsClose',
         at' \in 0 .. M, syncTs' \in Time,
         mode' \in {0} \cup (TimestampBegin + 1) .. (TimestampEnd - 1)
  PROVE  StreamInv'
<1>0. /\ StreamTypes /\ \A f \in Slot : InOrder(f) /\ EachOnce(f)
  BY DEF StreamInv, AllInOrder
<1>1. /\ squeue \in [Slot -> Seq(Sent)] /\ inputs \in [Slot -> Seq(Given)]
      /\ lost \in [Slot -> SUBSET Nat] /\ made \in Nat
  BY <1>0 DEF StreamTypes
<1>2. squeue[k] \in Seq(Sent) /\ inputs[k] \in Seq(Given) /\ lost[k] \in SUBSET Nat
  BY <1>1
<1>3. /\ squeue'[k] = SubSeq(squeue[k], n + 1, Len(squeue[k]))
      /\ inputs'[k] = Append(inputs[k], d) \/ (inputs'[k] = inputs[k] /\ d.id = 0)
      /\ lost'[k] = lost[k] \cup ({squeue[k][j].id : j \in 1 .. n} \ {d.id})
      /\ \A f \in Slot : f # k => UNCHANGED <<squeue[f], inputs[f], lost[f]>>
  BY <1>1
<1>4. \A f \in Slot : Coming(f)' = Coming(f)
  BY DEF Coming
<1>5. Fine(given[k], inputs'[k], squeue'[k], Coming(k), lost'[k], made)
  <2>1. Fine(given[k], inputs[k], squeue[k], Coming(k), lost[k], made)
    BY <1>0, FineIs
  <2> QED BY <1>1, <1>2, <1>3, <2>1, FineTake
<1>6. InOrder(k)' /\ EachOnce(k)'
  BY <1>4, <1>5, FineIs
<1>7. \A f \in Slot : f # k => InOrder(f)' /\ EachOnce(f)'
  BY <1>0, <1>3, <1>4, SlotFrame
<1>8. StreamTypes'
  <2>1. squeue' \in [Slot -> Seq(Sent)]
    <3>1. SubSeq(squeue[k], n + 1, Len(squeue[k])) \in Seq(Sent)
      BY <1>2, SubSeqProperties
    <3> QED BY <1>1, <3>1
  <2>2. inputs' \in [Slot -> Seq(Given)]
    <3>1. Append(inputs[k], d) \in Seq(Given)
      BY <1>2
    <3> QED BY <1>1, <3>1
  <2>3. lost' \in [Slot -> SUBSET Nat]
    <3>1. lost'[k] \in SUBSET Nat
      BY <1>1, <1>5, FineNumbers
    <3> QED BY <1>1, <1>3, <3>1
  <2> QED BY <1>0, <2>1, <2>2, <2>3 DEF StreamTypes
<1> QED BY <1>6, <1>7, <1>8 DEF StreamInv, AllInOrder

\* The consumer starts, goes on past an empty queue, or has read its inputs.
LEMMA ConsumerStep ==
  ASSUME QueueBounds, StreamInv, SyncStart \/ SyncNext \/ PostProcess
  PROVE  StreamInv'
<1>0. /\ StreamTypes /\ EndIsClose /\ \A k \in Slot : InOrder(k) /\ EachOnce(k)
  BY DEF StreamInv, AllInOrder
<1> USE DEF producer
<1>1. CASE SyncStart \/ SyncNext
  <2>1. UNCHANGED <<outq, outOpen, prop, made, tries, squeue, bound, closed, inputs, given, lost>>
    BY <1>1 DEF SyncStart, SyncNext
  <2>2. /\ at' \in 0 .. M /\ syncTs' \in Time
        /\ mode' \in {0} \cup (TimestampBegin + 1) .. (TimestampEnd - 1)
    <3>1. CASE SyncStart
      <4>1. /\ at' = 1 /\ syncTs' = NextTimestampOrBound(1)
            /\ mode' \in {0} \cup (TimestampBegin + 1) .. (TimestampEnd - 1)
        BY <3>1 DEF SyncStart
      <4>2. 1 \in Slot /\ 1 \in 0 .. M
        BY QueueConstants
      <4>3. squeue[1] \in Seq(Sent) /\ bound[1] \in Time
        BY <1>0, <4>2 DEF StreamTypes
      <4>4. squeue[1] # << >> => Head(squeue[1]) \in Sent
        BY <4>3
      <4>5. \A d \in Sent : d.ts \in Time
        BY QueueConstants DEF Sent
      <4>6. NextTimestampOrBound(1) \in Time
        BY <4>3, <4>4, <4>5 DEF NextTimestampOrBound
      <4> QED BY <4>1, <4>2, <4>6
    <3>2. CASE SyncNext
      BY <1>0, <3>2, NextSlotTypes DEF SyncNext
    <3> QED BY <1>1, <3>1, <3>2
  <2>3. StreamTypes'
    BY <1>0, <2>1, <2>2 DEF StreamTypes
  <2>4. \A k \in Slot : Coming(k)' = Coming(k)
    BY <2>1 DEF Coming
  <2>5. \A k \in Slot : InOrder(k)' /\ EachOnce(k)'
    BY <1>0, <2>1, <2>4, SlotFrame
  <2>6. EndIsClose'
    BY <1>0, <2>1 DEF EndIsClose, TimestampDone
  <2> QED BY <2>3, <2>5, <2>6 DEF StreamInv, AllInOrder
<1>2. CASE PostProcess
  <2>1. /\ given' = [k \in Slot |-> given[k] \cup Numbers(inputs[k])]
        /\ inputs' = [k \in Slot |-> << >>]
        /\ UNCHANGED <<outq, outOpen, prop, made, tries, squeue, bound, closed, at, mode, syncTs, lost>>
    BY <1>2 DEF PostProcess
  <2>2. made \in Nat /\ given \in [Slot -> SUBSET Nat]
    BY <1>0 DEF StreamTypes
  <2>3. ASSUME NEW k \in Slot PROVE InOrder(k)' /\ EachOnce(k)' /\ given'[k] \in SUBSET Nat
    <3>1. Fine(given[k], inputs[k], squeue[k], Coming(k), lost[k], made)
      BY <1>0, FineIs
    <3>2. Fine(given[k] \cup Numbers(inputs[k]), << >>, squeue[k], Coming(k), lost[k], made)
      BY <2>2, <3>1, FineGiven
    <3>3. Coming(k)' = Coming(k)
      BY <2>1 DEF Coming
    <3>4. \A x \in given[k] \cup Numbers(inputs[k]) : x \in Nat
      BY <2>2, <3>1, FineNumbers
    <3> QED BY <2>1, <3>2, <3>3, <3>4, FineIs
  <2>4. StreamTypes'
    <3>1. given' \in [Slot -> SUBSET Nat] /\ inputs' \in [Slot -> Seq(Given)]
      BY <2>1, <2>3
    <3> QED BY <1>0, <2>1, <3>1 DEF StreamTypes
  <2>5. EndIsClose'
    BY <1>0, <2>1 DEF EndIsClose, TimestampDone
  <2> QED BY <2>3, <2>4, <2>5 DEF StreamInv, AllInOrder
<1> QED BY <1>1, <1>2

\* Sync takes the head of the queue.
LEMMA SyncPopStep ==
  ASSUME QueueBounds, StreamInv, SyncPop
  PROVE  StreamInv'
<1>0. StreamTypes /\ EndIsClose
  BY DEF StreamInv
<1>k. PICK k \in Slot : k = at
  BY DEF SyncPop
<1> DEFINE q == squeue[k]
           h == Head(squeue[k])
           D == [h EXCEPT !.ts = syncTs - 1]
<1>1. /\ q # << >> /\ squeue' = [squeue EXCEPT ![k] = Tail(q)]
      /\ IF IsDone(k, Tail(q))
         THEN lost' = [lost EXCEPT ![k] = lost[k] \cup {h.id}] /\ NextSlot /\ UNCHANGED inputs
         ELSE inputs' = [inputs EXCEPT ![k] = Append(inputs[k], D)] /\ UNCHANGED <<lost, at, syncTs, mode>>
      /\ UNCHANGED <<outq, outOpen, prop, made, tries, bound, closed, given>>
  BY <1>k DEF SyncPop, producer
<1>2. q \in Seq(Sent) /\ syncTs \in Int /\ lost \in [Slot -> SUBSET Nat] /\ bound \in [Slot -> Time]
  <2>1. syncTs \in Time
    BY <1>0 DEF StreamTypes
  <2> QED BY <1>0, <2>1, QueueConstants DEF StreamTypes
<1>3. /\ Len(q) \in Nat \ {0} /\ h = q[1] /\ h \in Sent /\ Tail(q) = SubSeq(q, 1 + 1, Len(q))
      /\ 1 \in 0 .. Len(q)
  BY <1>1, <1>2
<1>4. h.id \in 1 .. MaxData /\ MaxData \in Nat
  BY <1>3, QueueConstants DEF Sent
<1>5. EndIsClose' /\ bound' \in [Slot -> Time]
  BY <1>0, <1>1, <1>2 DEF EndIsClose, TimestampDone
<1>6. {q[j].id : j \in 1 .. 1} = {h.id}
  BY <1>3
<1>7. CASE IsDone(k, Tail(q))
  <2> DEFINE d == [id |-> 0, ts |-> 0]
  <2>1. d \in Given /\ d.id = 0
    BY <1>4 DEF Given
  <2>2. {h.id} \ {0} = {h.id}
    BY <1>4
  <2> HIDE DEF d
  <2>3. lost' = [lost EXCEPT ![k] = lost[k] \cup ({q[j].id : j \in 1 .. 1} \ {d.id})]
    BY <1>1, <1>6, <1>7, <2>1, <2>2
  <2>4. /\ at' \in 0 .. M /\ syncTs' \in Time
        /\ mode' \in {0} \cup (TimestampBegin + 1) .. (TimestampEnd - 1)
    BY <1>0, <1>1, <1>k, <1>7, NextSlotTypes
  <2> QED BY <1>1, <1>3, <1>5, <1>7, <2>1, <2>3, <2>4, TakeStep
<1>8. CASE ~ IsDone(k, Tail(q))
  <2>1. D \in Given /\ D.id = q[1].id
    <3>1. h \in [id : 1 .. MaxData, ts : (TimestampBegin + 1) .. (TimestampEnd - 1)]
      BY <1>3 DEF Sent
    <3>2. h.id \in 0 .. MaxData /\ syncTs - 1 \in Int
      BY <1>2, <1>4
    <3> QED BY <1>3, <3>1, <3>2 DEF Given
  <2> HIDE DEF D
  <2>2. lost' = [lost EXCEPT ![k] = lost[k] \cup ({q[j].id : j \in 1 .. 1} \ {D.id})]
    <3>1. lost[k] \cup ({q[j].id : j \in 1 .. 1} \ {D.id}) = lost[k]
      BY <1>3, <1>6, <2>1
    <3>2. lost' = lost /\ lost = [lost EXCEPT ![k] = lost[k]]
      BY <1>1, <1>2, <1>8
    <3> QED BY <3>1, <3>2
  <2>3. /\ at' \in 0 .. M /\ syncTs' \in Time
        /\ mode' \in {0} \cup (TimestampBegin + 1) .. (TimestampEnd - 1)
    BY <1>0, <1>1, <1>8 DEF StreamTypes
  <2>4. /\ inputs' = [inputs EXCEPT ![k] = Append(inputs[k], D)]
        /\ squeue' = [squeue EXCEPT ![k] = SubSeq(squeue[k], 1 + 1, Len(squeue[k]))]
        /\ UNCHANGED <<outq, outOpen, prop, made, tries, closed, given>>
    BY <1>1, <1>3, <1>8
  <2>5. 1 > 0 /\ D.id = squeue[k][1].id /\ 1 \in 0 .. Len(squeue[k])
    BY <1>3, <2>1
  <2> QED BY <1>5, <2>1, <2>2, <2>3, <2>4, <2>5, TakeStep
<1> QED BY <1>7, <1>8

\* SyncAt takes what is due at a time.
LEMMA SyncAtStep ==
  ASSUME QueueBounds, StreamInv, SyncAt
  PROVE  StreamInv'
<1>0. StreamTypes /\ EndIsClose
  BY DEF StreamInv
<1>k. PICK k \in Slot : k = at
  BY DEF SyncAt
<1> DEFINE q == squeue[k]
           b == IF bound[k] <= mode THEN mode + 1 ELSE bound[k]
           n == Popped(q, mode)
           d == PopAt(q, b, mode)
<1>1. /\ mode # 0 /\ bound' = [bound EXCEPT ![k] = b] /\ squeue' = [squeue EXCEPT ![k] = SubSeq(q, n + 1, Len(q))]
      /\ inputs' = [inputs EXCEPT ![k] = Append(inputs[k], d)]
      /\ lost' = [lost EXCEPT ![k] = lost[k] \cup ({q[j].id : j \in 1 .. n} \ {d.id})]
      /\ NextSlot /\ UNCHANGED <<outq, outOpen, prop, made, tries, closed, given>>
  BY <1>k DEF SyncAt, producer
<1>2. /\ q \in Seq(Sent) /\ bound \in [Slot -> Time] /\ closed \in [Slot -> BOOLEAN]
      /\ mode \in {0} \cup (TimestampBegin + 1) .. (TimestampEnd - 1)
  BY <1>0 DEF StreamTypes
<1>3. b \in Time /\ b \in Int /\ (b = TMax => bound[k] = TMax)
  <2>1. bound[k] \in 0 .. TMax /\ mode \in 2 .. TMax - 2 /\ TMax \in Nat
    BY <1>1, <1>2, QueueConstants
  <2> QED BY <2>1, QueueConstants
<1>4. n \in 0 .. Len(q) /\ Len(q) \in Nat
  BY <1>2, PoppedIs
<1>5. d \in Given /\ (d.id = 0 \/ (n > 0 /\ d.id = q[n].id))
  <2> HIDE DEF n, b
  <2> DEFINE x == IF n = Len(q) THEN b ELSE q[n + 1].ts
  <2>1. d = IF n > 0 /\ q[n].ts = mode THEN q[n] ELSE [id |-> 0, ts |-> x - 1]
    BY DEF PopAt, n
  <2>2. \A j \in 1 .. Len(q) : q[j] \in Sent
    BY <1>2
  <2>3. \A e \in Sent : e \in Given /\ e.ts \in Int
    <3>1. TMax \in Nat /\ MaxData \in Nat /\ TimestampBegin \in Int /\ TimestampEnd \in Int
      BY QueueConstants
    <3> SUFFICES ASSUME NEW e \in Sent PROVE e \in Given /\ e.ts \in Int
      OBVIOUS
    <3>2. /\ e \in [id : 1 .. MaxData, ts : (TimestampBegin + 1) .. (TimestampEnd - 1)]
          /\ e.id \in 0 .. MaxData /\ e.ts \in Int
      BY <3>1 DEF Sent
    <3> QED BY <3>2 DEF Given
  <2>4. x \in Int
    <3>1. n # Len(q) => n + 1 \in 1 .. Len(q)
      BY <1>4
    <3> QED BY <1>3, <2>2, <2>3, <3>1
  <2>5. [id |-> 0, ts |-> x - 1] \in Given
    <3>1. 0 \in 0 .. MaxData /\ x - 1 \in Int
      BY <2>4, QueueConstants
    <3> HIDE DEF x
    <3> QED BY <3>1 DEF Given
  <2> HIDE DEF d, x
  <2>6. CASE n > 0 /\ q[n].ts = mode
    <3>1. n \in 1 .. Len(q)
      BY <1>4, <2>6
    <3> QED BY <2>1, <2>2, <2>3, <2>6, <3>1
  <2>7. CASE ~ (n > 0 /\ q[n].ts = mode)
    BY <2>1, <2>5, <2>7
  <2> QED BY <2>6, <2>7
<1>6. /\ at' \in 0 .. M /\ syncTs' \in Time
      /\ mode' \in {0} \cup (TimestampBegin + 1) .. (TimestampEnd - 1)
  BY <1>0, <1>1, <1>k, NextSlotTypes
<1> HIDE DEF b, n, d
<1>7. EndIsClose' /\ bound' \in [Slot -> Time]
  BY <1>0, <1>1, <1>2, <1>3 DEF EndIsClose, TimestampDone
<1> QED BY <1>1, <1>4, <1>5, <1>6, <1>7, TakeStep

LEMMA StreamBegins ==
  ASSUME QueueBounds, StreamInit
  PROVE  StreamInv
<1>1. /\ outq = << >> /\ prop = 0 /\ squeue = [k \in Slot |-> << >>] /\ inputs = [k \in Slot |-> << >>]
      /\ bound = [k \in Slot |-> 1] /\ made = 0 /\ tries = 0 /\ at = 0 /\ mode = 0 /\ syncTs = 0
      /\ given = [k \in Slot |-> {}] /\ lost = [k \in Slot |-> {}]
      /\ outOpen = TRUE /\ closed = [k \in Slot |-> FALSE]
  BY QueueConstants DEF StreamInit
<1>2. StreamTypes
  <2>1. prop \in 0 .. M /\ at \in 0 .. M /\ syncTs \in Time /\ made \in Nat /\ tries \in Nat
        /\ made <= tries /\ tries <= MaxData /\ 1 \in Time
    BY <1>1, QueueConstants
  <2>2. /\ squeue \in [Slot -> Seq(Sent)] /\ inputs \in [Slot -> Seq(Given)]
        /\ outq \in Seq(Sent) /\ bound \in [Slot -> Time]
    BY <1>1, <2>1
  <2>3. /\ given \in [Slot -> SUBSET Nat] /\ lost \in [Slot -> SUBSET Nat]
        /\ closed \in [Slot -> BOOLEAN] /\ outOpen \in BOOLEAN
    BY <1>1
  <2> QED BY <1>1, <2>1, <2>2, <2>3 DEF StreamTypes
<1>3. EndIsClose
  BY <1>1, QueueConstants DEF EndIsClose, TimestampDone
<1>4. ASSUME NEW k \in Slot PROVE InOrder(k) /\ EachOnce(k)
  <2>1. Numbers(<< >>) = {} /\ Rising(<< >>) /\ 1 .. 0 = {}
    BY DEF Numbers, Rising
  <2>2. Fine({}, << >>, << >>, << >>, {}, 0)
    BY <2>1 DEF Fine, Before
  <2>3. Coming(k) = << >>
    BY <1>1 DEF Coming
  <2> QED BY <1>1, <2>2, <2>3, FineIs
<1> QED BY <1>2, <1>3, <1>4 DEF StreamInv, AllInOrder

LEMMA StreamStep ==
  ASSUME QueueBounds, StreamInv, [StreamNext]_streamVars
  PROVE  StreamInv'
<1>1. CASE UNCHANGED streamVars
  <2>1. /\ UNCHANGED <<outq, outOpen, prop, squeue, bound, closed, inputs>>
        /\ UNCHANGED <<at, mode, syncTs, made, given, lost, tries>>
    BY <1>1 DEF streamVars
  <2>2. StreamTypes /\ EndIsClose /\ \A k \in Slot : InOrder(k) /\ EachOnce(k)
    BY DEF StreamInv, AllInOrder
  <2>3. \A k \in Slot : Coming(k)' = Coming(k)
    BY <2>1 DEF Coming
  <2>4. \A k \in Slot : InOrder(k)' /\ EachOnce(k)'
    BY <2>1, <2>2, <2>3, SlotFrame
  <2>5. StreamTypes' /\ EndIsClose'
    BY <2>1, <2>2 DEF StreamTypes, EndIsClose, TimestampDone
  <2> QED BY <2>4, <2>5 DEF StreamInv, AllInOrder
<1> QED BY <1>1, ProducerStep, ManagerStep, ConsumerStep, SyncPopStep, SyncAtStep DEF StreamNext

(***************************************************************************)
(* input_stream_manager.cc, output_stream_handler.cc: for any number of    *)
(* mirrors, any times and any number of data, whoever closes, pops or      *)
(* produces meanwhile, every slot gets every datum that addDatum accepted  *)
(* once and in order, and only times strictly between the ends of time_t   *)
(* are queued.                                                             *)
(***************************************************************************)
THEOREM StreamOrder ==
  StreamSpec => []EachOnceInOrder
<1> USE QueueAssumption
<1>1. StreamInv => EachOnceInOrder
  <2> SUFFICES ASSUME StreamInv PROVE StreamTypeOK
    BY DEF StreamInv, EachOnceInOrder
  <2>1. StreamTypes
    BY DEF StreamInv
  <2>2. /\ outq \in Seq(Sent) /\ squeue \in [Slot -> Seq(Sent)] /\ bound \in [Slot -> Time]
        /\ prop \in 0 .. M /\ at \in 0 .. M /\ made \in Nat /\ made <= tries /\ tries <= MaxData /\ tries \in Nat
    BY <2>1 DEF StreamTypes
  <2>3. made \in 0 .. MaxData
    BY <2>2, QueueConstants
  <2>4. \A d \in Sent : /\ d \in Datum
                           /\ d.ts \in (TimestampBegin + 1) .. (TimestampEnd - 1)
    BY QueueConstants DEF Sent, Datum
  <2>5. outq \in Seq(Datum)
    <3>1. \A i \in 1 .. Len(outq) : outq[i] \in Datum
      BY <2>2, <2>4
    <3> QED BY <2>2, <3>1, SeqDef
  <2>6. \A k \in Slot : \A i \in DOMAIN squeue[k] :
          squeue[k][i].ts \in (TimestampBegin + 1) .. (TimestampEnd - 1)
    <3>1. \A k \in Slot : \A i \in DOMAIN squeue[k] : squeue[k][i] \in Sent
      BY <2>2
    <3> QED BY <2>4, <3>1
  <2> QED BY <2>2, <2>3, <2>5, <2>6 DEF StreamTypeOK
<1>2. StreamInit => StreamInv
  BY StreamBegins
<1>3. StreamInv /\ [StreamNext]_streamVars => StreamInv'
  BY StreamStep
<1> QED BY <1>1, <1>2, <1>3, PTL DEF StreamSpec

\* SyncAt on a queue in order.
LEMMA SyncAtIsExact ==
  ASSUME QueueBounds, StreamInv, NEW k \in Slot, at = k, SyncAt, Ordered(squeue[k])
  PROVE  LET d == Last(inputs'[k]) IN
         /\ \A i \in DOMAIN squeue'[k] : squeue'[k][i].ts > mode
         /\ IsEmpty(d) <=> \A i \in DOMAIN squeue[k] : squeue[k][i].ts # mode
         /\ IsEmpty(d) => d.ts >= mode
<1> DEFINE q == squeue[k]
           b == IF bound[k] <= mode THEN mode + 1 ELSE bound[k]
           n == Popped(q, mode)
           d == PopAt(q, b, mode)
           r == SubSeq(q, n + 1, Len(q))
           x == IF n = Len(q) THEN b ELSE q[n + 1].ts
<1>0. StreamTypes
  BY DEF StreamInv
<1>1. /\ squeue' = [squeue EXCEPT ![k] = r] /\ inputs' = [inputs EXCEPT ![k] = Append(inputs[k], d)] /\ mode # 0
  BY DEF SyncAt
<1>2. /\ squeue \in [Slot -> Seq(Sent)] /\ inputs \in [Slot -> Seq(Given)]
      /\ bound[k] \in Time /\ mode \in {0} \cup (TimestampBegin + 1) .. (TimestampEnd - 1)
  BY <1>0 DEF StreamTypes
<1>3. bound[k] \in Int /\ mode \in Int /\ b \in Int /\ b > mode
  <2>1. bound[k] \in 0 .. TMax /\ mode \in 2 .. TMax - 2 /\ TMax \in Nat
    BY <1>1, <1>2, QueueConstants
  <2> QED BY <2>1
<1>4. Last(inputs'[k]) = d /\ squeue'[k] = r
  <2>1. inputs[k] \in Seq(Given) /\ inputs'[k] = Append(inputs[k], d) /\ squeue'[k] = r
    BY <1>1, <1>2
  <2> HIDE DEF d, r
  <2>2. Len(inputs[k]) \in Nat /\ Len(inputs'[k]) = Len(inputs[k]) + 1 /\ inputs'[k][Len(inputs[k]) + 1] = d
    BY <2>1
  <2> QED BY <2>1, <2>2 DEF Last
<1>5. /\ n \in 0 .. Len(q) /\ Len(q) \in Nat /\ DOMAIN q = 1 .. Len(q)
      /\ \A i \in 1 .. n : q[i].ts <= mode
      /\ n < Len(q) => ~ (q[n + 1].ts <= mode)
  BY <1>2, PoppedIs DEF Stale
<1>6. \A i \in 1 .. Len(q) : q[i].ts \in Int /\ q[i].id # 0
  <2>1. \A i \in 1 .. Len(q) : q[i] \in Sent
    BY <1>2
  <2>2. \A e \in Sent : e.ts \in Int /\ e.id # 0
    BY QueueConstants DEF Sent
  <2> QED BY <2>1, <2>2
<1>7. \A i \in 1 .. Len(q) : \A j \in 1 .. Len(q) : i < j => q[i].ts <= q[j].ts
  BY <1>5 DEF Ordered
<1>8. d = IF n > 0 /\ q[n].ts = mode THEN q[n] ELSE [id |-> 0, ts |-> x - 1]
  BY DEF PopAt
<1>9. DOMAIN r = 1 .. Len(q) - n /\ \A i \in 1 .. Len(q) - n : r[i] = q[n + i]
  BY <1>2, <1>5
<1> HIDE DEF q, b, n, d, r, x
<1>10. \A i \in 1 .. Len(q) : i > n => q[i].ts > mode
  <2> SUFFICES ASSUME NEW i \in 1 .. Len(q), i > n PROVE q[i].ts > mode
    OBVIOUS
  <2>1. n + 1 \in 1 .. Len(q) /\ n < Len(q) /\ (i = n + 1 \/ n + 1 < i)
    BY <1>5
  <2>2. q[n + 1].ts > mode /\ q[n + 1].ts \in Int /\ q[i].ts \in Int
    BY <1>3, <1>5, <1>6, <2>1
  <2>3. i = n + 1 \/ q[n + 1].ts <= q[i].ts
    BY <1>7, <2>1
  <2> QED BY <1>3, <2>2, <2>3
<1>11. \A i \in DOMAIN r : r[i].ts > mode
  <2> SUFFICES ASSUME NEW i \in DOMAIN r PROVE r[i].ts > mode
    OBVIOUS
  <2>1. n + i \in 1 .. Len(q) /\ n + i > n /\ r[i] = q[n + i]
    BY <1>5, <1>9
  <2> QED BY <1>10, <2>1
<1>12. CASE n > 0 /\ q[n].ts = mode
  <2>1. n \in DOMAIN q /\ d = q[n] /\ d.id # 0
    BY <1>5, <1>6, <1>8, <1>12
  <2>2. ~ IsEmpty(d) /\ ~ (\A i \in DOMAIN q : q[i].ts # mode)
    BY <1>12, <2>1 DEF IsEmpty
  <2> QED BY <1>4, <1>11, <2>2 DEF q
<1>13. CASE ~ (n > 0 /\ q[n].ts = mode)
  <2>1. d = [id |-> 0, ts |-> x - 1]
    BY <1>8, <1>13
  <2>2. IsEmpty(d) /\ d.ts = x - 1
    BY <2>1 DEF IsEmpty
  <2>3. x \in Int /\ x > mode
    <3>1. CASE n = Len(q)
      BY <1>3, <3>1 DEF x
    <3>2. CASE n # Len(q)
      <4>1. n \in 0 .. Len(q) /\ Len(q) \in Nat /\ n # Len(q)
        BY <1>5, <3>2
      <4>2. n + 1 \in 1 .. Len(q) /\ n + 1 > n
        BY ONLY <4>1
      <4>3. x = q[n + 1].ts
        BY <3>2 DEF x
      <4> QED BY <1>6, <1>10, <4>2, <4>3
    <3> QED BY <3>1, <3>2
  <2>4. ASSUME NEW i \in DOMAIN q, q[i].ts = mode PROVE FALSE
    <3>1. i \in 1 .. Len(q) /\ ~ (i > n)
      BY <1>3, <1>5, <1>10, <2>4
    <3>2. n \in 1 .. Len(q) /\ n \in 1 .. n /\ (i = n \/ i < n)
      BY <1>5, <3>1
    <3>3. q[n].ts <= mode /\ q[n].ts \in Int /\ (i = n \/ mode <= q[n].ts)
      BY <1>5, <1>6, <1>7, <2>4, <3>1, <3>2
    <3>4. q[n].ts = mode /\ n > 0
      BY <1>3, <2>4, <3>2, <3>3
    <3> QED BY <1>13, <3>4
  <2>5. d.ts >= mode
    BY <1>3, <2>2, <2>3
  <2> QED BY <1>4, <1>11, <2>2, <2>4, <2>5 DEF q
<1> QED BY <1>12, <1>13

(***************************************************************************)
(* input_stream_handler.cc: Sync loses a datum only of a stream that was   *)
(* closed before it was drained, and then one, the last; SyncAt gives the  *)
(* newest datum of that very time if there is one, else an empty one that  *)
(* is not before it, and leaves nothing of that time or older behind.      *)
(***************************************************************************)
THEOREM StreamSync ==
  StreamSpec => SyncExact
<1> USE QueueAssumption
<1>1. StreamInv /\ [StreamNext]_streamVars =>
        [\A k \in Slot : mode = 0 /\ at = k /\ lost'[k] # lost[k] =>
           /\ closed[k] /\ squeue[k] = <<Head(squeue[k])>>
           /\ lost'[k] = lost[k] \cup {Head(squeue[k]).id}]_streamVars
  <2> SUFFICES ASSUME StreamInv, StreamNext, NEW k \in Slot, mode = 0, at = k, lost'[k] # lost[k]
               PROVE  /\ closed[k] /\ squeue[k] = <<Head(squeue[k])>>
                      /\ lost'[k] = lost[k] \cup {Head(squeue[k]).id}
    OBVIOUS
  <2>1. at # 0
    BY QueueConstants
  <2>2. SyncPop
    BY <2>1 DEF StreamNext, AddDatum, CloseOutput, PropagateStart, Propagate, PrepareManagers,
                Close, SetNextTimestampBound, SyncStart, SyncNext, SyncAt, PostProcess, consumer
  <2>3. lost \in [Slot -> SUBSET Nat] /\ squeue[k] \in Seq(Sent)
    BY DEF StreamInv, StreamTypes
  <2>4. /\ squeue[k] # << >> /\ IsDone(k, Tail(squeue[k]))
        /\ lost' = [lost EXCEPT ![k] = lost[k] \cup {Head(squeue[k]).id}]
    BY <2>2 DEF SyncPop
  <2>5. closed[k]
    BY <2>4 DEF StreamInv, EndIsClose, IsDone
  <2>6. squeue[k] = <<Head(squeue[k])>>
    <3>1. Tail(squeue[k]) = << >>
      BY <2>4 DEF IsDone
    <3>2. Len(Tail(squeue[k])) = Len(squeue[k]) - 1 /\ Len(squeue[k]) \in Nat
      BY <2>3, <2>4
    <3>3. Len(Tail(squeue[k])) = Len(<< >>)
      BY <3>1, Zenon
    <3>4. Len(<< >>) = 0
      OBVIOUS
    <3>5. Len(squeue[k]) = 1
      BY ONLY <3>2, <3>3, <3>4
    <3> QED BY <2>3, <3>5
  <2> QED BY <2>3, <2>4, <2>5, <2>6
<1>2. StreamInv /\ [StreamNext]_streamVars =>
        [\A k \in Slot : mode # 0 /\ at = k /\ Ordered(squeue[k]) /\ inputs'[k] # inputs[k] =>
           LET d == Last(inputs'[k]) IN
           /\ \A i \in DOMAIN squeue'[k] : squeue'[k][i].ts > mode
           /\ IsEmpty(d) <=> \A i \in DOMAIN squeue[k] : squeue[k][i].ts # mode
           /\ IsEmpty(d) => d.ts >= mode]_streamVars
  <2> SUFFICES ASSUME StreamInv, StreamNext, NEW k \in Slot, mode # 0, at = k, Ordered(squeue[k]),
                      inputs'[k] # inputs[k]
               PROVE  LET d == Last(inputs'[k]) IN
                      /\ \A i \in DOMAIN squeue'[k] : squeue'[k][i].ts > mode
                      /\ IsEmpty(d) <=> \A i \in DOMAIN squeue[k] : squeue[k][i].ts # mode
                      /\ IsEmpty(d) => d.ts >= mode
    OBVIOUS
  <2>1. at # 0
    BY QueueConstants
  <2>2. SyncAt
    BY <2>1 DEF StreamNext, AddDatum, CloseOutput, PropagateStart, Propagate, PrepareManagers,
                Close, SetNextTimestampBound, SyncStart, SyncNext, SyncPop, PostProcess, consumer
  <2> QED BY <2>2, SyncAtIsExact
<1>3. StreamInit => StreamInv
  BY StreamBegins
<1>4. StreamInv /\ [StreamNext]_streamVars => StreamInv'
  BY StreamStep
<1> QED BY <1>1, <1>2, <1>3, <1>4, PTL DEF StreamSpec, SyncExact, LossOnlyAtClose, SyncAtExact
=============================================================================
