-------------------------- MODULE Services_proofs ---------------------------
(***************************************************************************)
(* The programs around the graphs, for every number of callers, slots,     *)
(* graphs and threads: the Go graph manager, whose callers keep to their   *)
(* own names; the ring in shared memory, whose writer never waits; and the *)
(* detection servers, whose threads share a ring and a queue each.         *)
(***************************************************************************)
EXTENDS GraphManager, ShmRing, SeqLemmas, TLAPS
-----------------------------------------------------------------------------
(* manager.go *)

\* A call goes on without touching the map or a graph; at most it keeps the
\* mutex that it just got.
LEMMA QuietStep ==
  ASSUME ManagerInv, OwnNames, CallersAssumption, NEW c \in Callers, NEW r \in Calls,
         call' = [call EXCEPT ![c] = r], UNCHANGED <<GraphMap, made, alive, has>>,
         lock' = lock \/ (lock = Nobody /\ lock' = c),
         call[c].at \notin {"enter", "destroying"},
         r.at \notin {"enter", "destroying", "panic"},
         r.at # "idle" => r.name \in NamesOf[c],
         r.at = "build" => r.name \notin has[c],
         r.at \in {"look", "found", "destroy"} => r.name \in has[c],
         r.at = "found" => r.g = GraphMap[r.name]
  PROVE  ManagerInv'
<1> USE DEF At
<1>1. /\ call' \in [Callers -> Calls] /\ call'[c] = r
      /\ \A d \in Callers : d # c => call'[d] = call[d]
      /\ \A d \in Callers : /\ call'[d].at = "enter" <=> call[d].at = "enter"
                            /\ call'[d].at = "destroying" <=> call[d].at = "destroying"
                            /\ call[d].at \in {"enter", "destroying"} => call'[d] = call[d]
  BY DEF ManagerInv, ManagerTypeOK
<1>a. lock' \in Callers \cup {Nobody} /\ \A d \in Callers : call[d].at = "destroying" => lock = d /\ lock' = d
  BY DEF ManagerInv, ManagerTypeOK, CallInv, CallersAssumption
<1>2. ManagerTypeOK'
  BY <1>1, <1>a DEF ManagerInv, ManagerTypeOK
<1>3. MapHoldsRunning'
  BY <1>1, <1>a DEF ManagerInv, MapHoldsRunning
<1>4. NoOrphan'
  BY <1>1 DEF ManagerInv, NoOrphan
<1>5. Distinct'
  BY <1>1 DEF ManagerInv, Distinct
<1>6. ASSUME NEW d \in Callers PROVE MapInv(d)' /\ CallInv(d)'
  <2>1. MapInv(d) /\ CallInv(d)
    BY DEF ManagerInv
  <2>2. MapInv(d)'
    BY <1>1, <2>1 DEF MapInv
  <2>3. CASE d # c
    BY <1>1, <1>a, <2>1, <2>2, <2>3 DEF CallInv
  <2>4. CASE d = c
    BY <1>1, <2>1, <2>2, <2>4 DEF CallInv
  <2> QED BY <2>2, <2>3, <2>4
<1> QED BY <1>2, <1>3, <1>4, <1>5, <1>6 DEF ManagerInv

\* A name is not in two callers' sets.
LEMMA OneOwner ==
  ASSUME OwnNames, NEW c \in Callers, NEW d \in Callers, NEW n \in NamesOf[c],
         n \in NamesOf[d]
  PROVE  c = d
BY DEF OwnNames

LEMMA NameOf ==
  ASSUME NEW c \in Callers, NEW n \in NamesOf[c]
  PROVE  n \in Names
BY DEF Names

\* The steps that only the caller notices, and the refusal that keeps the mutex.
LEMMA QuietSteps ==
  ASSUME ManagerInv, OwnNames, CallersAssumption, NEW c \in Callers,
         \/ Check(c) \/ Refuse(c) \/ BuildFails(c) \/ Look(c)
         \/ GetGraphInputStreams(c) \/ AddInputsToGraph(c) \/ GetGraphOutputs(c)
         \/ \E n \in Names : Call(c, n)
  PROVE  ManagerInv'
<1> USE DEF At, Returns
<1> DEFINE n == call[c].name
           op == call[c].op
<1>0. /\ MapInv(c) /\ CallInv(c) /\ ManagerTypeOK
      /\ MapHoldsRunning /\ call[c] \in Calls /\ call \in [Callers -> Calls]
  BY DEF ManagerInv, ManagerTypeOK
<1>a. op \in {"", "run", "destroy"} \cup Uses
  BY <1>0 DEF Calls
<1>b. \A w, g : Goes(c, w, g) => call' = [call EXCEPT ![c] = [op |-> op, at |-> w, name |-> n, g |-> g]]
  BY DEF Goes
<1>1. /\ Idle \in Calls /\ Idle.at = "idle"
      /\ \A m \in Names, g \in 0 .. MaxGraphs, o \in {"", "run", "destroy"} \cup Uses,
            a \in {"check", "build", "look", "found", "destroy"} :
           [op |-> o, at |-> a, name |-> m, g |-> g] \in Calls
      /\ NoGraph \in 0 .. MaxGraphs
  <2>1. NoGraph \in 0 .. MaxGraphs
    BY DEF NoGraph, CallersAssumption
  <2>2. Idle \in Calls /\ Idle.at = "idle"
    BY <2>1 DEF Idle, Calls
  <2>3. ASSUME NEW m \in Names, NEW g \in 0 .. MaxGraphs, NEW o \in {"", "run", "destroy"} \cup Uses,
               NEW a \in {"check", "build", "look", "found", "destroy"}
        PROVE  [op |-> o, at |-> a, name |-> m, g |-> g] \in Calls
    BY DEF Calls
  <2> QED BY <2>1, <2>2, <2>3
<1>2. CASE Check(c)
  <2>1. /\ call[c].at = "check" /\ lock = Nobody /\ n \in NamesOf[c] /\ n \in Names /\ GraphMap[n] = NoGraph
    BY <1>0, <1>2, NameOf DEF Check, CallInv
  <2>2. n \notin has[c]
    BY <1>0, <2>1 DEF MapInv
  <2>3. /\ call' = [call EXCEPT ![c] = [op |-> op, at |-> "build", name |-> n, g |-> NoGraph]]
        /\ lock' = lock /\ UNCHANGED <<GraphMap, made, alive, has>>
    BY <1>b, <1>2, <2>1 DEF Check, Free
  <2> HIDE DEF n, op
  <2> QED BY <1>a, <1>1, <2>1, <2>2, <2>3, QuietStep
<1>r. CASE Refuse(c)
  <2>1. /\ call[c].at = "check" /\ call' = [call EXCEPT ![c] = Idle]
        /\ lock = Nobody /\ lock' = c /\ UNCHANGED <<GraphMap, made, alive, has>>
    BY <1>r DEF Refuse
  <2> QED BY <1>1, <2>1, QuietStep
<1>3. CASE BuildFails(c)
  <2>1. /\ call[c].at = "build" /\ call' = [call EXCEPT ![c] = Idle]
        /\ lock' = lock /\ UNCHANGED <<GraphMap, made, alive, has>>
    BY <1>3 DEF BuildFails
  <2> QED BY <1>1, <2>1, QuietStep
<1>4. CASE Look(c)
  <2>1. /\ call[c].at = "look" /\ n \in has[c] /\ n \in NamesOf[c] /\ n \in Names
        /\ call' = [call EXCEPT ![c] = [op |-> op, at |-> "found", name |-> n, g |-> GraphMap[n]]]
        /\ lock' = lock /\ UNCHANGED <<GraphMap, made, alive, has>>
    BY <1>0, <1>b, <1>4, NameOf DEF Look, CallInv
  <2>2. GraphMap[n] \in 0 .. MaxGraphs
    BY <1>0, <2>1 DEF ManagerTypeOK, CallersAssumption
  <2> HIDE DEF n, op
  <2> QED BY <1>a, <1>1, <2>1, <2>2, QuietStep
<1>5. CASE GetGraphInputStreams(c) \/ AddInputsToGraph(c) \/ GetGraphOutputs(c)
  <2>1. /\ call[c].at = "found" /\ n \in has[c] /\ n \in NamesOf[c] /\ n \in Names
        /\ call[c].g = GraphMap[n]
    BY <1>0, <1>5, NameOf DEF GetGraphInputStreams, AddInputsToGraph, GetGraphOutputs, CallInv
  <2>2. GraphMap[n] # NoGraph
    BY <1>0, <2>1 DEF MapInv
  <2>3. call[c].g \in alive
    <3> SUFFICES ASSUME NEW d \in Callers, call[d].at = "destroying", call[d].g = GraphMap[n]
                 PROVE  FALSE
      BY <1>0, <2>1, <2>2 DEF MapHoldsRunning
    <3>1. /\ call[d].name \in NamesOf[d] /\ call[d].name \notin has[d]
          /\ GraphMap[call[d].name] = GraphMap[n]
      BY DEF ManagerInv, CallInv
    <3>2. call[d].name = n
      BY <2>1, <2>2, <3>1, NameOf DEF ManagerInv, Distinct
    <3> QED BY <2>1, <3>1, <3>2, OneOwner
  <2>4. /\ call' = [call EXCEPT ![c] = Idle]
        /\ lock' = lock /\ UNCHANGED <<GraphMap, made, alive, has>>
    BY <1>5, <2>3, Zenon DEF GetGraphInputStreams, AddInputsToGraph, GetGraphOutputs
  <2> QED BY <1>1, <2>1, <2>4, QuietStep
<1>6. ASSUME NEW m \in Names, Call(c, m)
      PROVE  ManagerInv'
  <2>1. PICK o \in {"", "run", "destroy"} \cup Uses, a \in {"check", "look", "destroy"} :
          /\ IF a = "check" THEN m \in NamesOf[c] ELSE m \in has[c]
          /\ call' = [call EXCEPT ![c] = [op |-> o, at |-> a, name |-> m, g |-> NoGraph]]
          /\ call[c].at = "idle" /\ lock' = lock /\ UNCHANGED <<GraphMap, made, alive, has>>
    <3>1. CASE RunGraph(c, m)
      BY <3>1 DEF RunGraph, Begins
    <3>2. ASSUME NEW o \in Uses, UseGraph(c, o, m)
          PROVE  /\ m \in has[c] /\ call' = [call EXCEPT ![c] = [op |-> o, at |-> "look", name |-> m, g |-> NoGraph]]
                 /\ call[c].at = "idle" /\ lock' = lock /\ UNCHANGED <<GraphMap, made, alive, has>>
      BY <3>2 DEF UseGraph, Begins
    <3>3. CASE DestroyGraph(c, m)
      BY <3>3 DEF DestroyGraph, Begins
    <3> QED BY <1>6, <3>1, <3>2, <3>3 DEF Call
  <2>2. m \in NamesOf[c]
    BY <1>0, <2>1 DEF MapInv
  <2> QED BY <1>1, <2>1, <2>2, QuietStep
<1> QED BY <1>2, <1>r, <1>3, <1>4, <1>5, <1>6

\* A graph that was just built is a new one, and it runs.
LEMMA BuildStep ==
  ASSUME ManagerInv, CallersAssumption, NEW c \in Callers, Build(c)
  PROVE  ManagerInv'
<1> USE DEF At, Goes
<1> DEFINE n == call[c].name
           g == made + 1
<1>0. /\ ManagerTypeOK /\ made \in 0 .. MaxGraphs /\ made < MaxGraphs /\ made \in Nat
      /\ \A d \in Callers : MapInv(d) /\ CallInv(d)
      /\ call[c].at = "build" /\ n \in NamesOf[c] /\ n \notin has[c]
  BY DEF ManagerInv, ManagerTypeOK, Build, CallInv, CallersAssumption
<1>1. /\ made' = g /\ alive' = alive \cup {g} /\ UNCHANGED <<lock, GraphMap, has>>
      /\ call' = [call EXCEPT ![c] = [op |-> call[c].op, at |-> "enter", name |-> n, g |-> g]]
  BY <1>0 DEF Build, ManagerTypeOK
<1>2. [op |-> call[c].op, at |-> "enter", name |-> n, g |-> g] \in Calls
  <2>1. n \in Names /\ g \in 0 .. MaxGraphs
    BY <1>0, NameOf DEF CallersAssumption
  <2>2. call[c].op \in {"", "run", "destroy"} \cup Uses
    BY <1>0 DEF ManagerTypeOK, Calls
  <2> QED BY <2>1, <2>2 DEF Calls
<1>3. /\ call' \in [Callers -> Calls] /\ call'[c] = [op |-> call[c].op, at |-> "enter", name |-> n, g |-> g]
      /\ \A d \in Callers : d # c => call'[d] = call[d]
  BY <1>0, <1>1, <1>2 DEF ManagerTypeOK
<1>4. g \notin alive /\ \A m \in Names : GraphMap[m] # g
  BY <1>0 DEF ManagerTypeOK
<1>5. ManagerTypeOK'
  <2>1. g \in 0 .. MaxGraphs /\ 1 .. made \subseteq 1 .. g /\ g \in 1 .. g /\ 0 .. made \subseteq 0 .. g
    BY <1>0 DEF CallersAssumption
  <2>2. GraphMap \in [Names -> 0 .. g]
    BY <1>0, <2>1 DEF ManagerTypeOK
  <2> HIDE DEF g
  <2> QED BY <1>0, <1>1, <1>3, <2>1, <2>2 DEF ManagerTypeOK
<1>6. MapHoldsRunning'
  BY <1>0, <1>1, <1>3 DEF ManagerInv, MapHoldsRunning
<1>7. NoOrphan'
  BY <1>0, <1>1, <1>3 DEF ManagerInv, NoOrphan
<1>8. Distinct'
  <2>1. \A d \in Callers : d # c /\ call'[d].at = "enter" => call'[d].g # g
    BY <1>0, <1>3, <1>4 DEF CallInv
  <2> QED BY <1>0, <1>1, <1>3, <1>4, <2>1 DEF ManagerInv, Distinct
<1>9. ASSUME NEW d \in Callers PROVE MapInv(d)' /\ CallInv(d)'
  <2>1. MapInv(d)'
    BY <1>0, <1>1, <1>3 DEF MapInv
  <2>2. CASE d = c
    BY <1>0, <1>1, <1>3, <2>1, <2>2 DEF CallInv
  <2>3. CASE d # c
    <3>1. call[d].at = "destroying" => call[d].g # g
      <4>1. call[d].at = "destroying" => GraphMap[call[d].name] = call[d].g /\ call[d].name \in Names
        BY <1>0, NameOf DEF CallInv
      <4> QED BY <1>4, <4>1
    <3> QED BY <1>0, <1>1, <1>3, <2>1, <2>3, <3>1 DEF CallInv
  <2> QED BY <2>1, <2>2, <2>3
<1> QED BY <1>5, <1>6, <1>7, <1>8, <1>9 DEF ManagerInv

\* The graph gets the name that was found free, which is free still.
LEMMA EnterStep ==
  ASSUME ManagerInv, OwnNames, CallersAssumption, NEW c \in Callers,
         Enter(c)
  PROVE  ManagerInv'
<1> USE DEF At, Returns, Entered
<1> DEFINE n == call[c].name
           g == call[c].g
<1>0. /\ ManagerTypeOK /\ lock = Nobody /\ Nobody \notin Callers
      /\ \A d \in Callers : MapInv(d) /\ CallInv(d)
      /\ call[c].at = "enter" /\ n \in NamesOf[c] /\ n \in Names /\ n \notin has[c] /\ g \in alive
  BY NameOf DEF ManagerInv, Enter, CallInv, CallersAssumption
<1>1. /\ GraphMap' = [GraphMap EXCEPT ![n] = g] /\ has' = [has EXCEPT ![c] = @ \cup {n}]
      /\ call' = [call EXCEPT ![c] = Idle] /\ UNCHANGED <<lock, made, alive>>
  BY DEF Enter
<1>2. /\ GraphMap[n] = NoGraph /\ g # NoGraph /\ g \in 0 .. made
      /\ \A d \in Callers : call[d].at # "destroying"
  <2>1. \A d \in Callers : call[d].at # "destroying"
    BY <1>0 DEF CallInv
  <2>2. GraphMap[n] = NoGraph
    BY <1>0, <2>1 DEF MapInv
  <2>3. g \in 1 .. made
    BY <1>0, Zenon DEF ManagerTypeOK
  <2> QED BY <2>1, <2>2, <2>3 DEF NoGraph
<1>3. Idle \in Calls /\ Idle.at = "idle"
  <2>1. NoGraph \in 0 .. MaxGraphs
    BY DEF NoGraph, CallersAssumption
  <2> QED BY <2>1 DEF Idle, Calls
<1>4. /\ call' \in [Callers -> Calls] /\ call'[c].at = "idle"
      /\ \A d \in Callers : d # c => call'[d] = call[d] /\ has'[d] = has[d]
      /\ has'[c] = has[c] \cup {n} /\ has' \in [Callers -> SUBSET Names]
      /\ GraphMap'[n] = g /\ GraphMap' \in [Names -> 0 .. made]
      /\ \A m \in Names : m # n => GraphMap'[m] = GraphMap[m]
  BY <1>0, <1>1, <1>2, <1>3 DEF ManagerTypeOK
<1>5. ManagerTypeOK'
  BY <1>0, <1>1, <1>4 DEF ManagerTypeOK
<1>6. MapHoldsRunning'
  <2>1. \A m \in Names : GraphMap[m] # NoGraph => GraphMap[m] \in alive
    BY <1>2 DEF ManagerInv, MapHoldsRunning
  <2> QED BY <1>0, <1>1, <1>4, <2>1 DEF MapHoldsRunning
<1>7. NoOrphan'
  <2> SUFFICES ASSUME NEW h \in alive
               PROVE  \/ \E m \in Names : GraphMap'[m] = h
                      \/ \E d \in Callers : call'[d].at = "enter" /\ call'[d].g = h
    BY <1>1 DEF NoOrphan
  <2>1. h \in Nat \ {0}
    BY <1>0 DEF ManagerTypeOK
  <2>2. CASE \E m \in Names : GraphMap[m] = h
    BY <1>2, <1>4, <2>1, <2>2 DEF NoGraph
  <2>3. CASE \E d \in Callers : call[d].at = "enter" /\ call[d].g = h
    BY <1>0, <1>4, <2>3
  <2> QED BY <2>2, <2>3 DEF ManagerInv, NoOrphan
<1>8. Distinct'
  <2>1. Distinct
    BY DEF ManagerInv
  <2>2. \A d \in Callers : call'[d].at = "enter" => d # c /\ call'[d] = call[d]
    BY <1>4
  <2> QED BY <1>0, <1>4, <2>1, <2>2 DEF Distinct
<1>9. ASSUME NEW d \in Callers PROVE MapInv(d)' /\ CallInv(d)'
  <2>0. \A m \in NamesOf[d] : m \in Names
    BY NameOf
  <2>1. CASE d = c
    <3>1. MapInv(d)'
      BY <1>0, <1>2, <1>4, <2>0, <2>1 DEF MapInv
    <3>2. CallInv(d)'
      BY <1>0, <1>1, <1>4, <2>1 DEF CallInv
    <3> QED BY <3>1, <3>2
  <2>2. CASE d # c
    <3>1. n \notin NamesOf[d]
      BY <1>0, <2>2, OneOwner
    <3>2. MapInv(d)'
      BY <1>0, <1>4, <2>0, <2>2, <3>1 DEF MapInv
    <3>3. call[d].at # "idle" => call[d].name # n /\ call[d].name \in Names
      BY <1>0, <2>0, <3>1 DEF CallInv
    <3>4. CallInv(d)'
      BY <1>0, <1>1, <1>4, <2>2, <3>3 DEF CallInv
    <3> QED BY <3>2, <3>4
  <2> QED BY <2>1, <2>2
<1> QED BY <1>5, <1>6, <1>7, <1>8, <1>9 DEF ManagerInv

\* Destroy closes the graph's channels and keeps the mutex.
LEMMA DestroyStep ==
  ASSUME ManagerInv, OwnNames, CallersAssumption, NEW c \in Callers,
         Destroy(c)
  PROVE  ManagerInv'
<1> USE DEF At, Goes, Closed
<1> DEFINE n == call[c].name
           g == GraphMap[n]
           r == [op |-> call[c].op, at |-> "destroying", name |-> n, g |-> g]
<1>0. /\ ManagerTypeOK /\ lock = Nobody /\ Nobody \notin Callers
      /\ \A d \in Callers : MapInv(d) /\ CallInv(d)
      /\ call[c].at = "destroy" /\ n \in NamesOf[c] /\ n \in Names /\ n \in has[c]
  BY NameOf DEF ManagerInv, Destroy, CallInv, CallersAssumption
<1>1. g # NoGraph /\ \A d \in Callers : call[d].at # "destroying"
  BY <1>0 DEF MapInv, CallInv
<1>2. /\ lock' = c /\ alive' = alive \ {g} /\ call' = [call EXCEPT ![c] = r]
      /\ has' = [has EXCEPT ![c] = @ \ {n}] /\ UNCHANGED <<GraphMap, made>>
  BY <1>0, <1>1 DEF Destroy, ManagerTypeOK
<1>3. r \in Calls
  <2>1. g \in 0 .. MaxGraphs
    BY <1>0 DEF ManagerTypeOK, CallersAssumption
  <2>2. call[c].op \in {"", "run", "destroy"} \cup Uses
    BY <1>0 DEF ManagerTypeOK, Calls
  <2> QED BY <1>0, <2>1, <2>2 DEF Calls
<1>4. /\ call' \in [Callers -> Calls] /\ call'[c] = r
      /\ \A d \in Callers : d # c => call'[d] = call[d] /\ has'[d] = has[d]
      /\ has'[c] = has[c] \ {n} /\ has' \in [Callers -> SUBSET Names]
  BY <1>0, <1>2, <1>3 DEF ManagerTypeOK
<1>5. ManagerTypeOK'
  BY <1>0, <1>2, <1>4 DEF ManagerTypeOK
<1>6. MapHoldsRunning'
  <2>1. \A m \in Names : GraphMap[m] # NoGraph => GraphMap[m] \in alive
    BY <1>1 DEF ManagerInv, MapHoldsRunning
  <2> QED BY <1>2, <1>4, <2>1 DEF MapHoldsRunning
<1>7. NoOrphan'
  <2> SUFFICES ASSUME NEW h \in alive
               PROVE  \/ \E m \in Names : GraphMap[m] = h
                      \/ \E d \in Callers : call'[d].at = "enter" /\ call'[d].g = h
    BY <1>2 DEF NoOrphan
  <2>1. \A d \in Callers : call[d].at = "enter" => d # c
    BY <1>0
  <2> QED BY <1>4, <2>1 DEF ManagerInv, NoOrphan
<1>8. Distinct'
  <2>1. Distinct
    BY DEF ManagerInv
  <2>2. \A d \in Callers : call'[d].at = "enter" => d # c /\ call'[d] = call[d]
    BY <1>4
  <2> QED BY <1>2, <2>1, <2>2 DEF Distinct
<1>9. ASSUME NEW d \in Callers PROVE MapInv(d)' /\ CallInv(d)'
  <2>1. CASE d = c
    <3>1. MapInv(d)'
      BY <1>0, <1>1, <1>2, <1>4, <2>1 DEF MapInv
    <3>2. CallInv(d)'
      BY <1>0, <1>2, <1>4, <2>1 DEF CallInv
    <3> QED BY <3>1, <3>2
  <2>2. CASE d # c
    <3>1. MapInv(d)'
      BY <1>0, <1>2, <1>4, <2>2 DEF MapInv
    <3>2. call[d].at = "enter" => call[d].g # g
      BY <1>0 DEF ManagerInv, Distinct
    <3>3. CallInv(d)'
      BY <1>0, <1>1, <1>2, <1>4, <2>2, <3>2 DEF CallInv
    <3> QED BY <3>1, <3>3
  <2> QED BY <2>1, <2>2
<1> QED BY <1>5, <1>6, <1>7, <1>8, <1>9 DEF ManagerInv

\* The goroutines of the graph have ended: its name is free, and the mutex.
LEMMA DestroyedStep ==
  ASSUME ManagerInv, OwnNames, CallersAssumption, NEW c \in Callers,
         Destroyed(c)
  PROVE  ManagerInv'
<1> USE DEF At, Returns, Deleted
<1> DEFINE n == call[c].name
           g == GraphMap[n]
<1>0. /\ ManagerTypeOK /\ lock = c /\ Nobody \notin Callers
      /\ \A d \in Callers : MapInv(d) /\ CallInv(d)
      /\ call[c].at = "destroying" /\ n \in NamesOf[c] /\ n \in Names /\ n \notin has[c]
      /\ call[c].g = g /\ g \notin alive
  BY NameOf DEF ManagerInv, Destroyed, CallInv, CallersAssumption
<1>1. /\ g # NoGraph /\ \A d \in Callers : call[d].at = "destroying" => d = c
  BY <1>0 DEF MapInv, CallInv
<1>2. /\ lock' = Nobody /\ GraphMap' = [GraphMap EXCEPT ![n] = NoGraph]
      /\ call' = [call EXCEPT ![c] = Idle] /\ UNCHANGED <<made, alive, has>>
  BY DEF Destroyed
<1>3. Idle \in Calls /\ Idle.at = "idle"
  <2>1. NoGraph \in 0 .. MaxGraphs
    BY DEF NoGraph, CallersAssumption
  <2> QED BY <2>1 DEF Idle, Calls
<1>4. /\ call' \in [Callers -> Calls] /\ call'[c].at = "idle"
      /\ \A d \in Callers : d # c => call'[d] = call[d]
      /\ GraphMap'[n] = NoGraph /\ GraphMap' \in [Names -> 0 .. made]
      /\ \A m \in Names : m # n => GraphMap'[m] = GraphMap[m]
  BY <1>0, <1>2, <1>3 DEF ManagerTypeOK, NoGraph
<1>5. ManagerTypeOK'
  BY <1>0, <1>2, <1>4 DEF ManagerTypeOK
<1>6. MapHoldsRunning'
  <2> SUFFICES ASSUME NEW m \in Names, m # n, GraphMap[m] # NoGraph
               PROVE  GraphMap[m] \in alive
    BY <1>2, <1>4 DEF MapHoldsRunning
  <2>1. GraphMap[m] # g
    BY <1>0 DEF ManagerInv, Distinct
  <2> QED BY <1>0, <1>1, <2>1 DEF ManagerInv, MapHoldsRunning
<1>7. NoOrphan'
  <2> SUFFICES ASSUME NEW h \in alive
               PROVE  \/ \E m \in Names : GraphMap'[m] = h
                      \/ \E d \in Callers : call'[d].at = "enter" /\ call'[d].g = h
    BY <1>2 DEF NoOrphan
  <2>1. h # g
    BY <1>0
  <2>2. CASE \E m \in Names : GraphMap[m] = h
    BY <1>4, <2>1, <2>2
  <2>3. CASE \E d \in Callers : call[d].at = "enter" /\ call[d].g = h
    BY <1>0, <1>4, <2>3
  <2> QED BY <2>2, <2>3 DEF ManagerInv, NoOrphan
<1>8. Distinct'
  <2>1. Distinct
    BY DEF ManagerInv
  <2>2. \A d \in Callers : call'[d].at = "enter" => d # c /\ call'[d] = call[d]
    BY <1>4
  <2>3. \A d \in Callers : call[d].at = "enter" => call[d].g # NoGraph
    BY <1>0 DEF CallInv, ManagerTypeOK, NoGraph
  <2> QED BY <1>0, <1>4, <2>1, <2>2, <2>3 DEF Distinct
<1>9. ASSUME NEW d \in Callers PROVE MapInv(d)' /\ CallInv(d)'
  <2>0. \A m \in NamesOf[d] : m \in Names
    BY NameOf
  <2>1. CASE d = c
    <3>1. MapInv(d)'
      BY <1>0, <1>2, <1>4, <2>0, <2>1 DEF MapInv
    <3>2. CallInv(d)'
      BY <1>0, <1>2, <1>4, <2>1 DEF CallInv
    <3> QED BY <3>1, <3>2
  <2>2. CASE d # c
    <3>1. n \notin NamesOf[d]
      BY <1>0, <2>2, OneOwner
    <3>2. MapInv(d)'
      BY <1>0, <1>2, <1>4, <2>0, <2>2, <3>1 DEF MapInv
    <3>3. call[d].at # "idle" => call[d].name # n /\ call[d].name \in Names
      BY <1>0, <2>0, <3>1 DEF CallInv
    <3>4. CallInv(d)'
      BY <1>0, <1>1, <1>2, <1>4, <2>2, <3>3 DEF CallInv
    <3> QED BY <3>2, <3>4
  <2> QED BY <2>1, <2>2
<1> QED BY <1>5, <1>6, <1>7, <1>8, <1>9 DEF ManagerInv

LEMMA ManagerBegins ==
  ASSUME CallersAssumption, ManagerInit
  PROVE  ManagerInv
<1> USE DEF At, ManagerInit
<1>0. NoGraph \in 0 .. MaxGraphs /\ NoGraph = 0
  BY DEF NoGraph, CallersAssumption
<1>1. Idle \in Calls /\ Idle.at = "idle"
  BY <1>0 DEF Idle, Calls
<1>2. ManagerTypeOK
  BY <1>0, <1>1 DEF ManagerTypeOK, CallersAssumption
<1>3. MapHoldsRunning /\ NoOrphan /\ Distinct
  BY <1>1 DEF MapHoldsRunning, NoOrphan, Distinct
<1>4. ASSUME NEW c \in Callers PROVE MapInv(c) /\ CallInv(c)
  <2>1. \A n \in NamesOf[c] : n \in Names
    BY NameOf
  <2> QED BY <1>1, <2>1 DEF MapInv, CallInv, CallersAssumption
<1> QED BY <1>2, <1>3, <1>4 DEF ManagerInv

(***************************************************************************)
(* manager.go, for any number of callers that use names of their own:      *)
(* every graph in the map runs, except the one whose DestroyGraph holds    *)
(* the mutex, every graph that runs can be reached, and no call meets a    *)
(* nil or closed graph, though the map is read under the mutex and the     *)
(* graph used after it was given back.                                     *)
(***************************************************************************)
THEOREM ManagerSafe ==
  ASSUME CallersAssumption, OwnNames
  PROVE  ManagerSpec => []MapIsRunning
<1>1. ManagerInv /\ [ManagerNext]_managerVars => ManagerInv'
  <2> SUFFICES ASSUME ManagerInv, [ManagerNext]_managerVars PROVE ManagerInv'
    OBVIOUS
  <2>1. CASE UNCHANGED <<lock, GraphMap, made, alive, call, has>>
    BY <2>1 DEF ManagerInv, ManagerTypeOK, MapHoldsRunning,
                NoOrphan, Distinct, MapInv, CallInv, At
  <2>2. ASSUME NEW c \in Callers, Step(c) \/ \E n \in Names : Call(c, n) PROVE ManagerInv'
    BY <2>2, QuietSteps, BuildStep, EnterStep, DestroyStep, DestroyedStep DEF Step
  <2>3. CASE UNCHANGED managerVars
    BY <2>1, <2>3 DEF managerVars
  <2>4. ASSUME NEW g \in Graphs, Compute(g) PROVE ManagerInv'
    BY <2>1, <2>4 DEF Compute
  <2> QED BY <2>2, <2>3, <2>4 DEF ManagerNext
<1>2. ManagerInv => MapIsRunning
  BY DEF ManagerInv, MapIsRunning, NeverPanics, CallInv
<1>3. ManagerInit => ManagerInv
  BY ManagerBegins
<1> QED BY <1>1, <1>2, <1>3, PTL DEF ManagerSpec

-----------------------------------------------------------------------------
(* ringbuffer.go *)

\* Multiples are at least one step apart.
LEMMA StepApart ==
  ASSUME NEW S \in Nat \ {0}, NEW a \in Int, NEW b \in Int, a < b
  PROVE  a * S + S <= b * S
<1>1. b - a - 1 \in Nat
  OBVIOUS
<1>2. PICK d \in Nat : b = a + 1 + d
  BY <1>1
<1>3. b * S = a * S + S + d * S
  BY <1>2
<1>4. d * S >= 0
  BY <1>2
<1> QED BY <1>3, <1>4

LEMMA DivMultiple ==
  ASSUME NEW S \in Nat \ {0}, NEW k \in Nat
  PROVE  (k * S) \div S = k /\ (k * S) % S = 0
<1>1. PICK q \in Int, r \in 0 .. (S - 1) :
        k * S = S * q + r /\ (k * S) \div S = q /\ (k * S) % S = r
  OBVIOUS
<1>2. ~ (q < k)
  BY <1>1, StepApart
<1>3. ~ (k < q)
  BY <1>1, StepApart
<1> QED BY <1>1, <1>2, <1>3

LEMMA ModSmall ==
  ASSUME NEW n \in Nat \ {0}, NEW a \in 0 .. (n - 1)
  PROVE  a % n = a
OBVIOUS

LEMMA ModWrap ==
  ASSUME NEW n \in Nat \ {0}, NEW a \in n .. (2 * n - 1)
  PROVE  a % n = a - n
OBVIOUS

\* The slot after h in a ring of n.
Turn(n, h) == IF h + 1 = n THEN 0 ELSE h + 1

\* Offsets are slots, and Advance goes from one to the next.
LEMMA OffsetOfSlot ==
  ASSUME RingFits, NEW h \in 0 .. (Count - 1)
  PROVE  /\ size \in Nat \ {0}
         /\ h * SlotSize \in 0 .. (size - 1) /\ (h * SlotSize) % SlotSize = 0
         /\ SlotOf(h * SlotSize) = h
         /\ Advance(h * SlotSize) = Turn(Count, h) * SlotSize
         /\ Turn(Count, h) \in 0 .. (Count - 1)
<1>0. SlotSize \in Nat \ {0} /\ Count \in Nat \ {0, 1} /\ h \in Nat /\ h < Count
  BY DEF RingFits
<1>1. /\ h * SlotSize + SlotSize <= Count * SlotSize
      /\ h * SlotSize \in Nat /\ Count * SlotSize \in Nat
  BY <1>0, StepApart
<1>2. size = Count * SlotSize
  BY <1>0 DEF size
<1>3. size \in Nat \ {0} /\ h * SlotSize \in 0 .. (size - 1)
  BY <1>0, <1>1, <1>2
<1>4. (h * SlotSize) % SlotSize = 0 /\ SlotOf(h * SlotSize) = h
  BY <1>0, DivMultiple DEF SlotOf
<1>5. Advance(h * SlotSize) = Turn(Count, h) * SlotSize
  <2>1. CASE h + 1 = Count
    <3>1. h * SlotSize + SlotSize = size
      BY <1>0, <1>2, <2>1
    <3>2. size % size = 0
      BY <1>3, ModWrap
    <3> QED BY <1>0, <2>1, <3>1, <3>2 DEF Advance, Turn
  <2>2. CASE h + 1 # Count
    <3>1. (h + 1) * SlotSize + SlotSize <= Count * SlotSize
      BY <1>0, <2>2, StepApart
    <3>2. (h + 1) * SlotSize = h * SlotSize + SlotSize
      BY <1>0
    <3>3. h * SlotSize + SlotSize \in 0 .. (size - 1)
      BY <1>0, <1>1, <1>2, <3>1, <3>2
    <3>4. (h * SlotSize + SlotSize) % size = h * SlotSize + SlotSize
      BY <1>3, <3>3, ModSmall
    <3> QED BY <2>2, <3>2, <3>4 DEF Advance, Turn
  <2> QED BY <2>1, <2>2
<1>6. Turn(Count, h) \in 0 .. (Count - 1)
  BY <1>0 DEF Turn
<1> QED BY <1>3, <1>4, <1>5, <1>6

\* The uint32 arithmetic of Used does not wrap: it tells a ring with something
\* to read from one without, wherever head and tail are.
LEMMA UnreadIsGap ==
  ASSUME RingFits, NEW h \in 0 .. (Count - 1), NEW t \in 0 .. (Count - 1),
         head = h * SlotSize, tail = t * SlotSize
  PROVE  Unread <=> h # t
<1>0. /\ SlotSize \in Nat \ {0} /\ Count \in Nat \ {0, 1} /\ h \in Nat /\ t \in Nat
      /\ Word \in Nat /\ 2 * size - SlotSize < Word
  BY DEF RingFits
<1>1. /\ size \in Nat \ {0} /\ head \in 0 .. (size - 1) /\ tail \in 0 .. (size - 1)
      /\ size = Count * SlotSize
  BY <1>0, OffsetOfSlot DEF size
<1>2. tail + SlotSize <= size
  BY <1>0, <1>1, StepApart
<1>3. tail - head + size \in 1 .. (2 * size - SlotSize)
  BY <1>0, <1>1, <1>2
<1>4. h < t => head + SlotSize <= tail
  BY <1>0, StepApart
<1>5. t < h => tail + SlotSize <= head
  BY <1>0, StepApart
<1>6. (tail - head + size) % Word = tail - head + size
  <2>1. tail - head + size \in 0 .. (Word - 1) /\ Word \in Nat \ {0}
    BY <1>0, <1>1, <1>3
  <2> QED BY <2>1, ModSmall
<1>7. CASE h <= t
  <2>1. head <= tail
    BY <1>0, <1>1, <1>4, <1>7
  <2>2. tail - head + size \in size .. (2 * size - 1)
    BY <1>1, <2>1
  <2>3. Used = tail - head
    BY <1>1, <1>6, <2>2, ModWrap DEF Used
  <2> QED BY <1>0, <1>1, <1>4, <1>7, <2>3 DEF Unread
<1>8. CASE t < h
  <2>1. tail - head + size \in 0 .. (size - 1)
    BY <1>0, <1>1, <1>3, <1>5, <1>8
  <2>2. Used = tail - head + size
    BY <1>1, <1>6, <2>1, ModSmall DEF Used
  <2>3. head + SlotSize <= size
    BY <1>0, <1>1, StepApart
  <2> QED BY <1>0, <1>1, <1>8, <2>2, <2>3 DEF Unread
<1> QED BY <1>0, <1>7, <1>8

\* What the parts say of the slots h and t.
RingAt(h, t) ==
  /\ head = h * SlotSize /\ tail = t * SlotSize
  /\ SlotsInv(t) /\ UnreadInv(h, t) /\ SlackInv(t)

\* The writer fills the slot at tail, which nobody may read.
LEMMA CopyStep ==
  ASSUME RingFits, TypeOK, NEW h \in 0 .. (Count - 1), NEW t \in 0 .. (Count - 1),
         RingAt(h, t), Copy
  PROVE  TypeOK' /\ RingAt(h, t)'
<1> DEFINE new == [seq |-> written + 1, torn |-> TRUE]
<1>0. /\ ~ copying /\ copying' = TRUE /\ since' = since + 1
      /\ UNCHANGED <<head, tail, written, busy, at, seq, restarts>>
      /\ slots' = [slots EXCEPT ![t] = new]
  BY OffsetOfSlot DEF Copy, reader, RingAt
<1>1. /\ written \in Nat /\ since \in Nat /\ at \in 0 .. (Count - 1) /\ new.torn /\ new.seq = written + 1
      /\ new \in [seq : Nat, torn : BOOLEAN]
  BY DEF TypeOK
<1> HIDE DEF new
<1>2. /\ slots' \in [0 .. (Count - 1) -> [seq : Nat, torn : BOOLEAN]] /\ slots'[t] = new
      /\ \A k \in 0 .. (Count - 1) : k # t => slots'[k] = slots[k]
  BY <1>0, <1>1 DEF TypeOK
<1>3. TypeOK'
  BY <1>0, <1>1, <1>2 DEF TypeOK
<1>4. SlotsInv(t)'
  BY <1>0, <1>1, <1>2 DEF RingAt, SlotsInv, Age
<1>5. UnreadInv(h, t)'
  BY <1>0 DEF RingAt, UnreadInv, Gap
<1>6. SlackInv(t)'
  <2>1. CASE since = 0 /\ busy
    BY <1>0, <1>1, <1>2, <2>1 DEF RingAt, SlackInv
  <2>2. CASE since >= 1
    <3>1. since' >= 2
      BY <1>0, <1>1, <2>2
    <3> QED BY <3>1 DEF SlackInv
  <2>3. CASE ~ busy
    BY <1>0, <2>3 DEF SlackInv
  <2> QED BY <1>1, <2>1, <2>2, <2>3
<1> QED BY <1>0, <1>3, <1>4, <1>5, <1>6 DEF RingAt

\* The slot becomes readable; a full ring becomes an empty one.
LEMMA PublishStep ==
  ASSUME RingFits, TypeOK, NEW h \in 0 .. (Count - 1), NEW t \in 0 .. (Count - 1),
         RingAt(h, t), Publish
  PROVE  TypeOK' /\ RingAt(h, Turn(Count, t))'
<1> DEFINE u == Turn(Count, t)
           new == [slots[t] EXCEPT !.torn = FALSE]
<1>0. /\ copying /\ copying' = FALSE /\ written' = written + 1
      /\ UNCHANGED <<head, busy, at, seq, since, restarts>>
      /\ slots' = [slots EXCEPT ![t] = new] /\ tail' = u * SlotSize
  BY OffsetOfSlot DEF Publish, reader, RingAt
<1>1. /\ written \in Nat /\ since \in Nat /\ at \in 0 .. (Count - 1) /\ seq \in Nat
      /\ Count \in Nat \ {0, 1} /\ u \in 0 .. (Count - 1)
      /\ slots[t] \in [seq : Nat, torn : BOOLEAN]
  BY OffsetOfSlot DEF TypeOK, RingFits
<1>2. new \in [seq : Nat, torn : BOOLEAN] /\ new.torn = FALSE /\ new.seq = slots[t].seq
  BY <1>1
<1> HIDE DEF new
<1>3. /\ slots' \in [0 .. (Count - 1) -> [seq : Nat, torn : BOOLEAN]] /\ slots'[t] = new
      /\ \A k \in 0 .. (Count - 1) : k # t => slots'[k] = slots[k]
  BY <1>0, <1>2 DEF TypeOK
<1>4. TypeOK'
  <2>1. tail' \in 0 .. (size - 1) /\ tail' % SlotSize = 0
    BY <1>0, <1>1, OffsetOfSlot
  <2>2. copying' \in BOOLEAN /\ written' \in Nat /\ UNCHANGED <<head, busy, at, seq, since, restarts>>
    <3>1. copying' = FALSE /\ written' = written + 1 /\ written \in Nat
      BY <1>0, <1>1, Zenon
    <3>2. UNCHANGED <<head, busy, at, seq, since, restarts>>
      BY <1>0, Zenon
    <3>3. written' \in Nat
      BY <3>1
    <3>4. copying' \in BOOLEAN
      BY <3>1, Zenon
    <3> QED BY <3>2, <3>3, <3>4, Zenon
  <2> QED BY <1>3, <2>1, <2>2 DEF TypeOK
<1>5. \A k \in 0 .. (Count - 1) : Age(u, k) = IF k = t THEN 1 ELSE Age(t, k) + 1
  BY <1>1 DEF Age, Turn
<1>6. SlotsInv(u)'
  <2> SUFFICES ASSUME NEW k \in 0 .. (Count - 1)
               PROVE  /\ ~ slots'[k].torn
                      /\ slots'[k].seq = IF Age(u, k) <= written + 1
                                           THEN written + 1 + 1 - Age(u, k) ELSE 0
    <3>1. \A k \in 0 .. (Count - 1) : Age(u, k)' = Age(u, k)
      BY DEF Age, Turn
    <3> HIDE DEF u
    <3> QED BY <1>0, <3>1 DEF SlotsInv
  <2>1. CASE k = t
    <3>1. slots[t].torn /\ slots[t].seq = written + 1
      BY <1>0 DEF RingAt, SlotsInv
    <3> QED BY <1>1, <1>2, <1>3, <1>5, <2>1, <3>1
  <2>2. CASE k # t
    <3>1. Age(t, k) \in Int
      BY <1>1 DEF Age
    <3>2. ~ slots[k].torn /\ slots[k].seq = IF Age(t, k) <= written
                                              THEN written + 1 - Age(t, k) ELSE 0
      BY <2>2 DEF RingAt, SlotsInv
    <3>3. Age(u, k) = Age(t, k) + 1 /\ slots'[k] = slots[k] /\ written \in Nat
      BY <1>1, <1>3, <1>5, <2>2
    <3> QED BY ONLY <3>1, <3>2, <3>3
  <2> QED BY <2>1, <2>2
<1>7. UnreadInv(h, u)'
  BY <1>0, <1>1 DEF RingAt, UnreadInv, Gap, Turn
<1>8. SlackInv(u)'
  BY <1>0, <1>1, <1>3 DEF RingAt, SlackInv
<1> QED BY <1>0, <1>4, <1>6, <1>7, <1>8 DEF RingAt

\* The oldest unread slot is whole, newer than the last one, and not the one
\* the writer writes next but one.
LEMMA ReadStep ==
  ASSUME RingFits, TypeOK, NEW h \in 0 .. (Count - 1), NEW t \in 0 .. (Count - 1),
         RingAt(h, t), Read
  PROVE  /\ TypeOK' /\ RingAt(Turn(Count, h), t)'
         /\ ~ slots[SlotOf(head)].torn /\ slots[SlotOf(head)].seq > seq
<1> DEFINE g == Turn(Count, h)
<1>0. /\ h # t /\ busy' = TRUE /\ at' = h /\ seq' = slots[h].seq
      /\ since' = (IF copying THEN 1 ELSE 0) /\ head' = g * SlotSize
      /\ UNCHANGED <<slots, tail, written, copying, restarts>> /\ SlotOf(head) = h
  BY OffsetOfSlot, UnreadIsGap DEF Read, writer, RingAt
<1>1. /\ written \in Nat /\ seq \in Nat /\ copying \in BOOLEAN
      /\ Count \in Nat \ {0, 1} /\ g \in 0 .. (Count - 1)
      /\ slots[h] \in [seq : Nat, torn : BOOLEAN]
  BY OffsetOfSlot DEF TypeOK, RingFits
<1>2. Age(t, h) = Gap(h, t) /\ Gap(h, t) \in Nat \ {0} /\ Gap(g, t) = Gap(h, t) - 1
  BY <1>0, <1>1 DEF Age, Gap, Turn
<1>3. ~ slots[h].torn /\ slots[h].seq = written + 1 - Gap(h, t) /\ slots[h].seq > seq
  BY <1>0, <1>1, <1>2 DEF RingAt, SlotsInv, UnreadInv
<1>4. TypeOK'
  BY <1>0, <1>1, OffsetOfSlot DEF TypeOK
<1>5. SlotsInv(t)'
  BY <1>0 DEF RingAt, SlotsInv, Age
<1>6. UnreadInv(g, t)'
  <2>1. slots[h].seq + Gap(g, t) <= written
    BY <1>1, <1>2, <1>3
  <2> QED BY <1>0, <2>1 DEF UnreadInv, Gap
<1>7. SlackInv(t)'
  <2>1. slots[h] = [seq |-> slots[h].seq, torn |-> FALSE]
    BY <1>1, <1>3
  <2> QED BY <1>0, <2>1 DEF SlackInv
<1> QED BY <1>0, <1>3, <1>4, <1>5, <1>6, <1>7 DEF RingAt

\* The end of an analysis, and a restart of the reader, which skips to tail.
LEMMA RestStep ==
  ASSUME RingFits, TypeOK, NEW h \in 0 .. (Count - 1), NEW t \in 0 .. (Count - 1),
         RingAt(h, t), Analysed \/ NewShareMemomry
  PROVE  TypeOK' /\ (RingAt(h, t)' \/ RingAt(t, t)')
<1>0. /\ busy' = FALSE /\ UNCHANGED <<slots, tail, written, copying, at, seq, since>>
      /\ head' = head \/ head' = tail
      /\ restarts' = restarts \/ restarts' = restarts + 1
  BY DEF Analysed, NewShareMemomry, writer
<1>1. TypeOK'
  <2>1. head' \in 0 .. (size - 1) /\ head' % SlotSize = 0 /\ restarts' \in Nat
    BY <1>0 DEF TypeOK
  <2> QED BY <1>0, <2>1 DEF TypeOK
<1>2. SlotsInv(t)' /\ SlackInv(t)'
  BY <1>0 DEF RingAt, SlotsInv, SlackInv, Age
<1>3. UnreadInv(h, t)' /\ UnreadInv(t, t)'
  <2>1. written \in Nat /\ seq \in Nat /\ Count \in Nat
    BY DEF TypeOK, RingFits
  <2> QED BY <1>0, <2>1 DEF RingAt, UnreadInv, Gap
<1> QED BY <1>0, <1>1, <1>2, <1>3 DEF RingAt

\* RingInv says so of some h and t.
LEMMA RingInvAt == RingInv <=> TypeOK /\ \E h, t \in 0 .. (Count - 1) : RingAt(h, t)
BY DEF RingInv, RingAt

LEMMA RingInit ==
  ASSUME RingFits, Init
  PROVE  RingInv
<1> USE DEF Init
<1>0. Count \in Nat \ {0, 1} /\ SlotSize \in Nat \ {0} /\ 0 \in 0 .. (Count - 1) /\ 0 * SlotSize = 0
  BY DEF RingFits
<1>1. TypeOK
  BY <1>0, OffsetOfSlot DEF TypeOK
<1>2. RingAt(0, 0)
  <2>1. \A k \in 0 .. (Count - 1) : Age(0, k) > 0 /\ Age(0, k) \in Int
    BY <1>0 DEF Age
  <2>2. SlotsInv(0)
    BY <2>1 DEF SlotsInv
  <2>3. UnreadInv(0, 0) /\ SlackInv(0)
    BY <1>0 DEF UnreadInv, Gap, SlackInv
  <2> QED BY <1>0, <2>2, <2>3 DEF RingAt
<1> QED BY <1>0, <1>1, <1>2, RingInvAt

LEMMA RingStep ==
  ASSUME RingFits, RingInv, [Next]_vars
  PROVE  RingInv'
<1>1. PICK h \in 0 .. (Count - 1), t \in 0 .. (Count - 1) : RingAt(h, t)
  BY RingInvAt
<1>2. TypeOK /\ Turn(Count, h) \in 0 .. (Count - 1) /\ Turn(Count, t) \in 0 .. (Count - 1)
  BY RingInvAt, OffsetOfSlot
<1>3. ASSUME TypeOK', \E a, b \in 0 .. (Count - 1) : RingAt(a, b)' PROVE RingInv'
  BY <1>3 DEF RingInv, RingAt
<1>4. CASE Copy
  BY <1>1, <1>2, <1>3, <1>4, CopyStep
<1>5. CASE Publish
  BY <1>1, <1>2, <1>3, <1>5, PublishStep
<1>6. CASE Read
  BY <1>1, <1>2, <1>3, <1>6, ReadStep
<1>7. CASE Analysed \/ NewShareMemomry
  BY <1>1, <1>2, <1>3, <1>7, RestStep
<1>8. CASE UNCHANGED vars
  BY <1>8 DEF vars, writer, reader, RingInv, TypeOK, SlotsInv,
              UnreadInv, SlackInv, Age, Gap
<1> QED BY <1>4, <1>5, <1>6, <1>7, <1>8 DEF Next

(***************************************************************************)
(* ringbuffer.go, for rings of every size that a uint32 can address: the   *)
(* slot that is analysed is overwritten by the second write since it was   *)
(* read at the earliest.                                                   *)
(***************************************************************************)
THEOREM RingSlack ==
  Spec => []OneWriteOfSlack
<1> USE RingAssumption
<1>1. RingInv => OneWriteOfSlack
  BY DEF RingInv, OneWriteOfSlack, SlackInv
<1>2. Init => RingInv
  BY RingInit
<1>3. RingInv /\ [Next]_vars => RingInv'
  BY RingStep
<1> QED BY <1>1, <1>2, <1>3, PTL DEF Spec

(***************************************************************************)
(* ringbuffer.go: Read finds a whole slot, newer than all that were read   *)
(* before, however far the writer has overrun the reader, and whenever the *)
(* reader was restarted.                                                   *)
(***************************************************************************)
THEOREM RingOrder ==
  Spec => ReadsInOrder
<1> USE RingAssumption
<1>1. RingInv /\ [Next]_vars =>
        [Read => /\ ~ slots[SlotOf(head)].torn
                 /\ slots[SlotOf(head)].seq > seq]_vars
  <2> SUFFICES ASSUME RingInv, Read
               PROVE  ~ slots[SlotOf(head)].torn /\ slots[SlotOf(head)].seq > seq
    OBVIOUS
  <2>1. PICK h \in 0 .. (Count - 1), t \in 0 .. (Count - 1) : RingAt(h, t)
    BY RingInvAt
  <2> QED BY <2>1, ReadStep, RingInvAt
<1>2. Init => RingInv
  BY RingInit
<1>3. RingInv /\ [Next]_vars => RingInv'
  BY RingStep
<1> QED BY <1>1, <1>2, <1>3, PTL DEF Spec, ReadsInOrder

-----------------------------------------------------------------------------
(* dni_server.cc *)

CONSTANTS Variant, all_nic_number, concur_cnt, slot_count, QueueCap, MaxSlots
VARIABLES swritten, cell, shead, stail, sreader, queue, owed, overrun, worker, mutex, stream,
          responses, main, graphs

Server == INSTANCE DniServer
            WITH Cap <- QueueCap, written <- swritten, head <- shead, tail <- stail, reader <- sreader

svars == <<swritten, cell, shead, stail, sreader, queue, owed, overrun, worker, mutex, stream,
           responses, main, graphs>>

WorkerRec ==
  [pc : Server!Busy \cup {"off", "pop", "stopped"}, ptr : 0 .. slot_count - 1, took : Nat,
   hdr : Nat, pkts : Nat, resp : [result : Server!Results, rules : Nat, mfr : Nat]]
QueueRec == [data : [0 .. QueueCap - 1 -> Server!Pointer], head : 0 .. QueueCap - 1, tail : 0 .. QueueCap - 1]
ReaderRec ==
  [pc : {"off", "started", "run", "push", "ended"}, ptr : 0 .. slot_count - 1,
   took : Nat, graph_index : Server!G]
ResponseRec ==
  [g : Server!G, took : Nat, hdr : Nat, pkts : Nat,
   resp : [result : Server!Results, rules : Nat, mfr : Nat]]

\* The types, by the names just given.
LEMMA TypesAre ==
  Server!Types <=>
    /\ swritten \in Nat /\ cell \in [0 .. slot_count - 1 -> Nat]
    /\ shead \in 0 .. slot_count - 1 /\ stail \in 0 .. slot_count - 1
    /\ sreader \in ReaderRec /\ queue \in [Server!G -> QueueRec]
    /\ owed \in [Server!G -> Seq(Server!Pointer)] /\ overrun \in [Server!G -> BOOLEAN]
    /\ worker \in [Server!G -> WorkerRec]
    /\ mutex \in Server!G \cup {0} /\ stream \in {"open", "closed"}
    /\ responses \in Seq(ResponseRec)
    /\ main \in {"start", "reader", "join", "cancel", "joinrb", "exit"} /\ graphs \subseteq Server!G
BY DEF Server!Types, WorkerRec, QueueRec, ReaderRec, ResponseRec

\* There is a graph, whichever the server.
LEMMA SomeG ==
  ASSUME Server!SomeGraph
  PROVE  /\ Server!graph_cnt \in Nat \ {0} /\ Server!G = 1 .. Server!graph_cnt
         /\ slot_count \in Nat \ {0} /\ QueueCap \in Nat \ {0}
BY DEF Server!SomeGraph, Server!graph_cnt, Server!graph_cnt_grpc, Server!graph_cnt_A100, Server!G

\* The index after t.
LEMMA TurnMod ==
  ASSUME NEW n \in Nat \ {0}, NEW t \in 0 .. n - 1
  PROVE  (t + 1) % n = Turn(n, t) /\ Turn(n, t) \in 0 .. n - 1
<1>1. CASE t + 1 = n
  BY <1>1, ModWrap DEF Turn
<1>2. CASE t + 1 # n
  BY <1>2, ModSmall DEF Turn
<1> QED BY <1>1, <1>2

\* What is held stays held: the slots that were taken are not lost sight of.
HeldStays ==
  \A p \in 0 .. slot_count - 1, took \in Nat : Server!Held(p, took) => Server!Held(p, took)'

LEMMA HeldSame ==
  ASSUME UNCHANGED <<swritten, cell, stail>>
  PROVE  HeldStays
BY DEF HeldStays, Server!Held, Server!Age

\* A queue that nobody touches.
LEMMA QueueFrame ==
  ASSUME Server!SomeGraph, Server!Types, HeldStays, NEW g \in Server!G, Server!QueueInv(g),
         UNCHANGED <<queue, owed, overrun>>
  PROVE  Server!QueueInv(g)'
<1>1. queue[g] \in QueueRec /\ QueueCap \in Nat \ {0}
  BY TypesAre, SomeG
<1>2. ASSUME NEW i \in 1 .. Server!Waiting(g)
      PROVE  queue[g].data[Server!Cell(queue[g].head, i)] \in Server!Pointer
  <2>1. queue[g].head \in 0 .. QueueCap - 1 /\ queue[g].tail \in 0 .. QueueCap - 1
    BY <1>1 DEF QueueRec
  <2>2. Server!Cell(queue[g].head, i) \in 0 .. QueueCap - 1
    BY <1>1, <2>1 DEF Server!Waiting, Server!Cell, Server!Dist
  <2> QED BY <1>1, <2>2 DEF QueueRec
<1>3. \A i \in 1 .. Server!Waiting(g) :
        LET d == queue[g].data[Server!Cell(queue[g].head, i)] IN Server!Held(d[1], d[2])'
  BY <1>2 DEF HeldStays, Server!QueueInv, Server!Pointer
<1> QED BY <1>3 DEF Server!QueueInv, Server!Waiting, Server!Cell, Server!Dist

\* What a thread has to do with is not touched.
LEMMA OrderFrame ==
  ASSUME NEW g \in Server!G, Server!OrderInv(g), Server!Types,
         UNCHANGED <<owed, overrun, responses>>, worker'[g].took = worker[g].took,
         Server!Answered(g)' \in Int, Server!HandedOn' \in Int,
         Server!Answered(g) <= Server!Answered(g)', Server!HandedOn <= Server!HandedOn'
  PROVE  Server!OrderInv(g)'
<1>1. /\ worker[g].took \in Int /\ Server!HandedOn \in Int /\ Server!Answered(g) \in Int
      /\ \A i \in DOMAIN owed[g] : owed[g][i][2] \in Int
      /\ \A i \in DOMAIN responses : responses[i].took \in Int
  <2>1. worker[g] \in WorkerRec /\ sreader \in ReaderRec /\ owed[g] \in Seq(Server!Pointer) /\ responses \in Seq(ResponseRec)
    BY TypesAre
  <2>2. worker[g].took \in Int /\ sreader.took \in Int
    BY <2>1 DEF WorkerRec, ReaderRec
  <2>3. \A i \in DOMAIN owed[g] : owed[g][i][2] \in Int
    BY <2>1 DEF Server!Pointer
  <2>4. \A i \in DOMAIN responses : responses[i].took \in Int
    <3>1. \A i \in DOMAIN responses : responses[i] \in ResponseRec
      BY <2>1
    <3> QED BY <3>1 DEF ResponseRec
  <2> QED BY <2>2, <2>3, <2>4 DEF Server!HandedOn, Server!Answered
<1> DEFINE a == Server!Answered(g)
           b == Server!Answered(g)'
           x == Server!HandedOn
           y == Server!HandedOn'
<1>2. a \in Int /\ b \in Int /\ x \in Int /\ y \in Int /\ a <= b /\ x <= y
  BY <1>1
<1>3. ~ overrun[g] =>
        /\ worker[g].took <= x
        /\ \A i \in DOMAIN owed[g] : worker[g].took < owed[g][i][2] /\ owed[g][i][2] <= x
        /\ \A i, j \in DOMAIN owed[g] : i < j => owed[g][i][2] < owed[g][j][2]
        /\ \A i \in DOMAIN responses : responses[i].g = g => responses[i].took <= a
        /\ \A i, j \in DOMAIN responses :
             i < j /\ responses[i].g = g /\ responses[j].g = g => responses[i].took < responses[j].took
  BY DEF Server!OrderInv
<1> HIDE DEF a, b, x, y
<1>4. ~ overrun[g] =>
        /\ worker[g].took <= y
        /\ \A i \in DOMAIN owed[g] : worker[g].took < owed[g][i][2] /\ owed[g][i][2] <= y
        /\ \A i, j \in DOMAIN owed[g] : i < j => owed[g][i][2] < owed[g][j][2]
        /\ \A i \in DOMAIN responses : responses[i].g = g => responses[i].took <= b
        /\ \A i, j \in DOMAIN responses :
             i < j /\ responses[i].g = g /\ responses[j].g = g => responses[i].took < responses[j].took
  BY <1>1, <1>2, <1>3
<1> QED BY <1>4 DEF Server!OrderInv, b, y

\* What HandedOn and Answered are.
LEMMA OrderTypes ==
  ASSUME Server!Types, NEW g \in Server!G
  PROVE  /\ worker[g] \in WorkerRec /\ worker[g].took \in Nat /\ sreader.took \in Nat
         /\ Server!HandedOn \in Int /\ Server!Answered(g) \in Int
<1>1. worker[g] \in WorkerRec /\ sreader \in ReaderRec
  BY TypesAre
<1>2. worker[g].took \in Nat /\ sreader.took \in Nat
  BY <1>1 DEF WorkerRec, ReaderRec
<1> QED BY <1>1, <1>2 DEF Server!HandedOn, Server!Answered

\* Only threads that stop, pop or go on in their work matter to the rest.
LEMMA ThreadsSame ==
  ASSUME Server!ServerInv, Server!SomeGraph, HeldStays, UNCHANGED <<worker, queue, owed, overrun, responses>>,
         Server!HandedOn' \in Int, Server!HandedOn <= Server!HandedOn'
  PROVE  \A g \in Server!G : Server!QueueInv(g)' /\ Server!OrderInv(g)'
<1> SUFFICES ASSUME NEW g \in Server!G PROVE Server!QueueInv(g)' /\ Server!OrderInv(g)'
  OBVIOUS
<1>1. Server!Types /\ Server!QueueInv(g) /\ Server!OrderInv(g)
  BY DEF Server!ServerInv
<1>2. Server!Answered(g)' = Server!Answered(g) /\ Server!Answered(g) \in Int
  BY <1>1, OrderTypes DEF Server!Answered
<1> QED BY <1>1, <1>2, QueueFrame, OrderFrame

\* sccm writes a slot: the one it overwrites was written a whole ring ago.
LEMMA SccmStep ==
  ASSUME Server!ServerInv, Server!SomeGraph, Server!SccmWrites
  PROVE  Server!ServerInv'
<1> DEFINE n == slot_count
           t == stail
           u == Turn(slot_count, stail)
<1>0. /\ Server!Types /\ swritten \in Nat /\ cell \in [0 .. n - 1 -> Nat]
      /\ shead \in 0 .. n - 1 /\ t \in 0 .. n - 1 /\ n \in Nat \ {0} /\ u \in 0 .. n - 1
      /\ sreader \in ReaderRec
  BY TypesAre, SomeG, TurnMod DEF Server!ServerInv
<1>1. /\ Server!used < n - 1 /\ swritten' = swritten + 1
      /\ cell' = [cell EXCEPT ![t] = swritten + 1] /\ stail' = u
      /\ UNCHANGED <<shead, sreader, queue, owed, overrun, worker, mutex, stream, responses, main, graphs>>
  BY <1>0, TurnMod DEF Server!SccmWrites, Server!queuevars, Server!outvars
<1>2. /\ cell' \in [0 .. n - 1 -> Nat] /\ cell'[t] = swritten + 1
      /\ \A k \in 0 .. n - 1 : k # t => cell'[k] = cell[k]
  BY <1>0, <1>1
<1>3. Server!Types'
  <2>1. swritten' \in Nat /\ stail' \in 0 .. n - 1
    BY <1>0, <1>1
  <2> QED BY <1>0, <1>1, <1>2, <2>1 DEF Server!Types
<1>4. \A k \in 0 .. n - 1 : /\ Server!Age(t, k) \in 1 .. n
                            /\ Server!Age(t, t) = n
                            /\ Server!Age(u, k) = IF k = t THEN 1 ELSE Server!Age(t, k) + 1
  BY <1>0 DEF Server!Age, Turn
<1>5. HeldStays
  <2> SUFFICES ASSUME NEW p \in 0 .. n - 1, NEW took \in Nat, Server!Held(p, took)
               PROVE  Server!Held(p, took)'
    BY DEF HeldStays
  <2>1. took > 0 /\ (took + n <= swritten \/ (cell[p] = took /\ took + Server!Age(t, p) = swritten + 1))
    BY DEF Server!Held
  <2>2. took + n <= swritten + 1 \/ (cell'[p] = took /\ took + Server!Age(u, p) = swritten + 1 + 1)
    <3>1. CASE p = t
      BY <1>0, <1>4, <2>1, <3>1
    <3>2. CASE p # t
      <4>1. Server!Age(t, p) \in 1 .. n /\ Server!Age(u, p) = Server!Age(t, p) + 1
        BY <1>4, <3>2, Zenon
      <4>2. cell'[p] = cell[p] /\ swritten \in Nat /\ n \in Nat
        BY <1>0, <1>2, <3>2
      <4> HIDE DEF n, t, u
      <4> QED BY <2>1, <4>1, <4>2
    <3> QED BY <3>1, <3>2
  <2>3. Server!Age(stail, p)' = Server!Age(u, p)
    BY <1>1 DEF Server!Age
  <2> QED BY <1>1, <2>1, <2>2, <2>3 DEF Server!Held
<1>6. Server!UnreadInv'
  <2> SUFFICES ASSUME sreader.pc \in {"run", "push", "ended"}
               PROVE  /\ sreader.took + Server!Dist(n, shead, u) <= swritten + 1
                      /\ \A k \in 0 .. n - 1 : Server!Age(u, k) <= Server!Dist(n, shead, u)
                           => cell'[k] + Server!Age(u, k) = swritten + 1 + 1
    <3>1. /\ Server!Dist(n, shead, stail)' = Server!Dist(n, shead, u)
          /\ \A k \in 0 .. n - 1 : Server!Age(stail, k)' = Server!Age(u, k)
      BY <1>1 DEF Server!Age, Server!Dist
    <3> HIDE DEF u
    <3> QED BY <1>1, <3>1 DEF Server!UnreadInv
  <2>1. Server!Dist(n, shead, u) = Server!Dist(n, shead, t) + 1 /\ Server!Dist(n, shead, t) \in Nat
    BY <1>0, <1>1 DEF Server!Dist, Server!used, Turn
  <2>2. sreader.took \in Nat
    BY <1>0 DEF ReaderRec
  <2>3. /\ sreader.took + Server!Dist(n, shead, t) <= swritten
        /\ \A k \in 0 .. n - 1 : Server!Age(t, k) <= Server!Dist(n, shead, t)
             => cell[k] + Server!Age(t, k) = swritten + 1
    BY DEF Server!ServerInv, Server!UnreadInv
  <2>4. sreader.took + Server!Dist(n, shead, u) <= swritten + 1
    <3>1. PICK a \in Nat, b \in Nat, c \in Nat : a = sreader.took /\ b = Server!Dist(n, shead, t) /\ c = swritten
      BY <1>0, <2>1, <2>2
    <3>2. a + b <= c /\ Server!Dist(n, shead, u) = b + 1
      BY <2>1, <2>3, <3>1
    <3>3. a + (b + 1) <= c + 1
      BY ONLY <3>1, <3>2
    <3> HIDE DEF u, t, n
    <3> QED BY <3>1, <3>2, <3>3
  <2>5. ASSUME NEW k \in 0 .. n - 1, Server!Age(u, k) <= Server!Dist(n, shead, u)
        PROVE  cell'[k] + Server!Age(u, k) = swritten + 1 + 1
    <3>1. CASE k = t
      BY <1>0, <1>2, <1>4, <3>1
    <3>2. CASE k # t
      <4>0. Server!Age(t, k) \in 1 .. n /\ Server!Age(u, k) = Server!Age(t, k) + 1
        BY <1>4, <3>2, Zenon
      <4>1. /\ Server!Age(t, k) \in Int /\ cell[k] \in Nat /\ cell'[k] = cell[k]
            /\ Server!Age(u, k) = Server!Age(t, k) + 1
        BY <1>0, <1>2, <3>2, <4>0
      <4>2. Server!Age(t, k) <= Server!Dist(n, shead, t)
        BY <2>1, <2>5, <4>1
      <4>3. cell[k] + Server!Age(t, k) = swritten + 1
        BY <2>3, <4>2
      <4> QED BY <1>0, <4>1, <4>3
    <3> QED BY <3>1, <3>2
  <2> QED BY <2>4, <2>5
<1>7. Server!HeldInv'
  <2>1. sreader.ptr \in 0 .. n - 1 /\ sreader.took \in Nat
    BY <1>0 DEF ReaderRec
  <2>2. ASSUME NEW g \in Server!G PROVE worker[g].ptr \in 0 .. n - 1 /\ worker[g].took \in Nat
    BY <1>0, OrderTypes DEF WorkerRec
  <2> QED BY <1>1, <1>5, <2>1, <2>2 DEF Server!ServerInv, Server!HeldInv, HeldStays
<1>8. Server!HeaderInv'
  BY <1>0, <1>1 DEF Server!ServerInv, Server!HeaderInv
<1>9. Server!StartedInv' /\ Server!NothingTaken'
  BY <1>1 DEF Server!ServerInv, Server!StartedInv, Server!NothingTaken, Server!AllStopped,
              Server!GraphOutlivesThread
<1>10. \A g \in Server!G : Server!QueueInv(g)' /\ Server!OrderInv(g)'
  <2>1. Server!HandedOn' = Server!HandedOn /\ Server!HandedOn \in Int
    <3>1. sreader.took \in Nat
      BY <1>0 DEF ReaderRec
    <3> QED BY <1>1, <3>1 DEF Server!HandedOn
  <2> QED BY <1>1, <1>5, <2>1, ThreadsSame
<1> QED BY <1>3, <1>6, <1>7, <1>8, <1>9, <1>10 DEF Server!ServerInv

\* The sreader resets the ring, before it has taken anything.
LEMMA StartReadingStep ==
  ASSUME Server!ServerInv, Server!SomeGraph, Server!StartReading
  PROVE  Server!ServerInv'
<1>0. /\ Server!Types /\ sreader \in ReaderRec /\ sreader.pc = "started" /\ slot_count \in Nat \ {0}
      /\ swritten \in Nat
  BY TypesAre, SomeG DEF Server!ServerInv, Server!StartReading
<1>1. /\ sreader' = [sreader EXCEPT !.pc = "run"] /\ shead' = 0 /\ stail' = 0
      /\ UNCHANGED <<swritten, cell, queue, owed, overrun, worker, mutex, stream, responses, main, graphs>>
  BY DEF Server!StartReading, Server!queuevars, Server!outvars
<1>2. sreader' \in ReaderRec /\ sreader'.pc = "run" /\ sreader'.took = sreader.took
  BY <1>0, <1>1 DEF ReaderRec
<1>3. /\ sreader.took = 0
      /\ \A g \in Server!G : /\ owed[g] = << >> /\ queue[g].head = queue[g].tail
                             /\ worker[g].pc \in {"off", "pop"}
  BY <1>0 DEF Server!ServerInv, Server!NothingTaken
<1>4. Server!Types'
  <2>1. shead' \in 0 .. slot_count - 1 /\ stail' \in 0 .. slot_count - 1
    BY <1>0, <1>1
  <2> QED BY <1>0, <1>1, <1>2, <2>1 DEF Server!Types, ReaderRec
<1>5. Server!UnreadInv'
  <2>1. Server!Dist(slot_count, shead, stail)' = 0
    BY <1>1 DEF Server!Dist
  <2>2. \A k \in 0 .. slot_count - 1 : Server!Age(stail, k)' > 0
    BY <1>0, <1>1 DEF Server!Age
  <2>3. \A k \in 0 .. slot_count - 1 : Server!Age(stail, k)' \in Int
    BY <1>0, <1>1 DEF Server!Age
  <2> QED BY <1>0, <1>1, <1>2, <1>3, <2>1, <2>2, <2>3 DEF Server!UnreadInv
<1>6. Server!HeldInv'
  BY <1>1, <1>2, <1>3 DEF Server!HeldInv, Server!Reading
<1>7. Server!HeaderInv' /\ Server!NothingTaken'
  BY <1>1, <1>2 DEF Server!ServerInv, Server!HeaderInv, Server!NothingTaken
<1>8. Server!StartedInv'
  BY <1>0, <1>1 DEF Server!ServerInv, Server!StartedInv, Server!AllStopped, Server!GraphOutlivesThread
<1>9. ASSUME NEW g \in Server!G PROVE Server!QueueInv(g)' /\ Server!OrderInv(g)'
  <2>1. Server!QueueInv(g)'
    <3>1. queue[g] \in QueueRec /\ QueueCap \in Nat \ {0}
      BY <1>0, TypesAre, SomeG
    <3>2. queue[g].head \in Int /\ queue[g].tail \in Int
      BY <3>1 DEF QueueRec
    <3>3. Server!Waiting(g) = 0 /\ Server!Waiting(g)' = 0
      BY <1>1, <1>3, <3>2 DEF Server!Waiting, Server!Dist
    <3>4. owed'[g] = << >>
      BY <1>1, <1>3
    <3> QED BY <3>3, <3>4 DEF Server!QueueInv
  <2>2. Server!Answered(g)' = Server!Answered(g) /\ Server!HandedOn' = Server!HandedOn
    BY <1>0, <1>1, <1>2 DEF Server!Answered, Server!HandedOn
  <2> QED BY <1>0, <1>1, <2>1, <2>2, OrderTypes, OrderFrame DEF Server!ServerInv
<1> QED BY <1>4, <1>5, <1>6, <1>7, <1>8, <1>9 DEF Server!ServerInv

\* The sreader takes the oldest slot that was not read.
LEMMA ReadSlotStep ==
  ASSUME Server!ServerInv, Server!SomeGraph, Server!ReadSlot
  PROVE  Server!ServerInv'
<1> DEFINE n == slot_count
           h == shead
           t == stail
           u == Turn(slot_count, shead)
<1>0. /\ Server!Types /\ swritten \in Nat /\ cell \in [0 .. n - 1 -> Nat]
      /\ h \in 0 .. n - 1 /\ t \in 0 .. n - 1 /\ n \in Nat \ {0} /\ u \in 0 .. n - 1
      /\ sreader \in ReaderRec /\ sreader.pc = "run" /\ sreader.took \in Nat
  <2>1. sreader \in ReaderRec
    BY TypesAre DEF Server!ServerInv
  <2>2. sreader.took \in Nat
    BY <2>1 DEF ReaderRec
  <2> QED BY <2>1, <2>2, TypesAre, SomeG, TurnMod DEF Server!ServerInv, Server!ReadSlot
<1>1. /\ Server!used >= 1 /\ shead' = u
      /\ sreader' = [sreader EXCEPT !.pc = "push", !.ptr = h, !.took = cell[h]]
      /\ UNCHANGED <<swritten, cell, stail, queue, owed, overrun, worker, mutex, stream, responses, main, graphs>>
  BY <1>0, TurnMod DEF Server!ReadSlot, Server!queuevars, Server!outvars, Server!NicData
<1>2. /\ sreader' \in ReaderRec /\ sreader'.pc = "push" /\ sreader'.took = cell[h] /\ sreader'.ptr = h
      /\ cell[h] \in Nat
  BY <1>0, <1>1 DEF ReaderRec
<1>3. /\ Server!Dist(n, h, t) \in Nat \ {0} /\ Server!Dist(n, u, t) = Server!Dist(n, h, t) - 1
      /\ Server!Age(t, h) = Server!Dist(n, h, t)
  <2>1. h # t /\ h \in Int /\ t \in Int
    BY <1>0, <1>1 DEF Server!used
  <2>2. Server!Dist(n, h, t) \in Nat \ {0} /\ Server!Age(t, h) = Server!Dist(n, h, t)
    BY <1>0, <2>1 DEF Server!Dist, Server!Age
  <2>3. Server!Dist(n, u, t) = Server!Dist(n, h, t) - 1
    BY <1>0, <2>1 DEF Server!Dist, Turn
  <2> QED BY <2>2, <2>3
<1>4. /\ sreader.took + Server!Dist(n, h, t) <= swritten
      /\ \A k \in 0 .. n - 1 : Server!Age(t, k) <= Server!Dist(n, h, t)
           => cell[k] + Server!Age(t, k) = swritten + 1
  BY <1>0 DEF Server!ServerInv, Server!UnreadInv
<1>5. cell[h] + Server!Dist(n, h, t) = swritten + 1 /\ cell[h] > sreader.took
  <2>1. Server!Age(t, h) <= Server!Dist(n, h, t)
    BY <1>3
  <2>2. cell[h] + Server!Dist(n, h, t) = swritten + 1
    BY <1>0, <1>3, <1>4, <2>1
  <2>3. /\ Server!Dist(n, h, t) \in Nat /\ cell[h] \in Nat /\ swritten \in Nat /\ sreader.took \in Nat
        /\ sreader.took + Server!Dist(n, h, t) <= swritten
    BY <1>0, <1>2, <1>3, <1>4
  <2> QED BY ONLY <2>2, <2>3
<1>6. Server!Types'
  BY <1>0, <1>1, <1>2 DEF Server!Types, ReaderRec
<1>7. HeldStays
  BY <1>1, HeldSame
<1>8. Server!UnreadInv'
  <2>1. Server!Dist(n, shead, stail)' = Server!Dist(n, u, t) /\ UNCHANGED <<cell, swritten, stail>>
    BY <1>1 DEF Server!Dist
  <2>2. cell[h] + Server!Dist(n, u, t) <= swritten
    BY <1>0, <1>2, <1>3, <1>5
  <2>3. ASSUME NEW k \in 0 .. n - 1, Server!Age(t, k) <= Server!Dist(n, u, t)
        PROVE  cell[k] + Server!Age(t, k) = swritten + 1
    <3>1. Server!Age(t, k) \in Int
      BY <1>0 DEF Server!Age
    <3>2. Server!Age(t, k) <= Server!Dist(n, h, t)
      BY <1>3, <2>3, <3>1
    <3> QED BY <1>4, <3>2
  <2>4. \A k \in 0 .. n - 1 : Server!Age(stail, k)' = Server!Age(t, k)
    BY <1>1 DEF Server!Age
  <2> HIDE DEF u
  <2> QED BY <1>2, <2>1, <2>2, <2>3, <2>4 DEF Server!UnreadInv
<1>9. Server!HeldInv'
  <2>1. Server!Held(h, cell[h])
    BY <1>0, <1>2, <1>3, <1>5 DEF Server!Held
  <2>2. Server!Held(sreader'.ptr, sreader'.took)
    BY <1>2, <2>1
  <2>3. Server!Held(sreader.ptr, sreader.took)'
    BY <1>0, <1>1, <1>2, <2>2 DEF Server!Held, Server!Age
  <2>4. ASSUME NEW g \in Server!G PROVE worker[g].ptr \in 0 .. n - 1 /\ worker[g].took \in Nat
    BY <1>0, OrderTypes DEF WorkerRec
  <2>5. \A g \in Server!G : worker[g].pc \in Server!Reading => Server!Held(worker[g].ptr, worker[g].took)'
    BY <1>1, <1>7, <2>4 DEF Server!ServerInv, Server!HeldInv, HeldStays
  <2> QED BY <1>1, <2>3, <2>5 DEF Server!HeldInv
<1>10. Server!HeaderInv' /\ Server!NothingTaken'
  BY <1>1, <1>2 DEF Server!ServerInv, Server!HeaderInv, Server!NothingTaken
<1>11. Server!StartedInv'
  BY <1>0, <1>1 DEF Server!ServerInv, Server!StartedInv, Server!AllStopped, Server!GraphOutlivesThread
<1>12. \A g \in Server!G : Server!QueueInv(g)' /\ Server!OrderInv(g)'
  <2>1. Server!HandedOn = sreader.took /\ Server!HandedOn' = cell[h] - 1
    BY <1>0, <1>2 DEF Server!HandedOn
  <2>2. Server!HandedOn' \in Int /\ Server!HandedOn <= Server!HandedOn'
    BY <1>0, <1>2, <1>5, <2>1
  <2> QED BY <1>1, <1>7, <2>2, ThreadsSame
<1> QED BY <1>6, <1>8, <1>9, <1>10, <1>11, <1>12 DEF Server!ServerInv

\* Where the pointers of a queue are, when one comes and when one goes.
CellFacts(h, t) ==
  LET m == Server!Dist(QueueCap, h, t) IN
  /\ m \in 0 .. QueueCap - 1 /\ (m = 0 <=> h = t)
  /\ \A i \in 1 .. m : Server!Cell(h, i) \in 0 .. QueueCap - 1 /\ Server!Cell(h, i) # t
  /\ Server!Cell(h, m + 1) = t
  /\ Turn(QueueCap, t) = h => m = QueueCap - 1 /\ Server!Dist(QueueCap, h, Turn(QueueCap, t)) = 0
  /\ Turn(QueueCap, t) # h => Server!Dist(QueueCap, h, Turn(QueueCap, t)) = m + 1
  /\ h # t => /\ Server!Cell(h, 1) = h /\ Server!Dist(QueueCap, Turn(QueueCap, h), t) = m - 1
              /\ \A i \in 1 .. m - 1 : Server!Cell(Turn(QueueCap, h), i) = Server!Cell(h, i + 1)

LEMMA CellArith ==
  ASSUME QueueCap \in Nat \ {0}, NEW h \in 0 .. QueueCap - 1, NEW t \in 0 .. QueueCap - 1
  PROVE  CellFacts(h, t)
<1> DEFINE m == Server!Dist(QueueCap, h, t)
<1>1. m \in 0 .. QueueCap - 1 /\ (m = 0 <=> h = t)
  BY DEF Server!Dist
<1>2. ASSUME NEW i \in 1 .. m PROVE Server!Cell(h, i) \in 0 .. QueueCap - 1 /\ Server!Cell(h, i) # t
  BY DEF Server!Dist, Server!Cell
<1>3. Server!Cell(h, m + 1) = t
  BY DEF Server!Dist, Server!Cell
<1>4. /\ Turn(QueueCap, t) = h => m = QueueCap - 1 /\ Server!Dist(QueueCap, h, Turn(QueueCap, t)) = 0
      /\ Turn(QueueCap, t) # h => Server!Dist(QueueCap, h, Turn(QueueCap, t)) = m + 1
  BY DEF Server!Dist, Turn
<1>5. h # t => Server!Cell(h, 1) = h /\ Server!Dist(QueueCap, Turn(QueueCap, h), t) = m - 1
  BY DEF Server!Dist, Turn, Server!Cell
<1>6. ASSUME NEW i \in 1 .. m - 1 PROVE Server!Cell(Turn(QueueCap, h), i) = Server!Cell(h, i + 1)
  BY DEF Server!Dist, Turn, Server!Cell
<1> QED BY <1>1, <1>2, <1>3, <1>4, <1>5, <1>6 DEF CellFacts

\* Held in the next state, of a slot and a number of any state.
HeldNext(p, took) ==
  /\ took > 0
  /\ \/ took + slot_count <= swritten'
     \/ cell'[p] = took /\ took + Server!Age(stail', p) = swritten' + 1

LEMMA HeldIsNext ==
  ASSUME HeldStays, NEW d \in Server!Pointer, Server!Held(d[1], d[2])
  PROVE  HeldNext(d[1], d[2])
<1>1. PICK p \in 0 .. slot_count - 1, took \in Nat : p = d[1] /\ took = d[2]
  BY DEF Server!Pointer
<1>2. Server!Held(p, took)'
  BY <1>1 DEF HeldStays
<1>3. HeldNext(p, took)
  BY <1>2 DEF Server!Held, Server!Age, HeldNext
<1> QED BY <1>1, <1>3

\* QueueInv in the next state.
LEMMA QueueNext ==
  ASSUME NEW g \in Server!G, NEW h, NEW m, queue'[g].head = h, Server!Waiting(g)' = m,
         \A i \in 1 .. m : HeldNext(queue'[g].data[Server!Cell(h, i)][1],
                                    queue'[g].data[Server!Cell(h, i)][2]),
         ~ overrun'[g] => /\ Len(owed'[g]) = m
                          /\ \A i \in 1 .. m : owed'[g][i] = queue'[g].data[Server!Cell(h, i)]
  PROVE  Server!QueueInv(g)'
BY DEF Server!QueueInv, HeldNext, Server!Held, Server!Age, Server!Cell

\* A pointer comes to the end of the queue; if it was full, it looks empty.
LEMMA PushQueue ==
  ASSUME Server!SomeGraph, Server!Types, HeldStays, NEW g \in Server!G, Server!QueueInv(g),
         NEW d \in Server!Pointer, HeldNext(d[1], d[2]),
         queue'[g] = Server!push(queue[g], d), owed'[g] = Append(owed[g], d),
         overrun'[g] = (overrun[g] \/ Len(owed[g]) + 1 >= QueueCap)
  PROVE  Server!QueueInv(g)' /\ queue'[g] \in QueueRec /\ owed'[g] \in Seq(Server!Pointer)
<1> DEFINE q == queue[g]
           h == queue[g].head
           t == queue[g].tail
           u == Turn(QueueCap, queue[g].tail)
           m == Server!Dist(QueueCap, h, t)
<1>0. QueueCap \in Nat \ {0} /\ q \in QueueRec /\ owed[g] \in Seq(Server!Pointer) /\ overrun[g] \in BOOLEAN
  BY TypesAre, SomeG
<1>1. h \in 0 .. QueueCap - 1 /\ t \in 0 .. QueueCap - 1 /\ q.data \in [0 .. QueueCap - 1 -> Server!Pointer]
  BY <1>0 DEF QueueRec
<1>2. (t + 1) % QueueCap = u /\ u \in 0 .. QueueCap - 1
  BY <1>0, <1>1, TurnMod
<1>3. /\ queue'[g].head = h /\ queue'[g].tail = u /\ queue'[g].data[t] = d
      /\ \A i \in 0 .. QueueCap - 1 : i # t => queue'[g].data[i] = q.data[i]
      /\ queue'[g] \in QueueRec
  <2>1. queue'[g] = [q EXCEPT !.data = [q.data EXCEPT ![t] = d], !.tail = u]
    BY <1>0, <1>2 DEF Server!push, QueueRec
  <2>2. [q.data EXCEPT ![t] = d] \in [0 .. QueueCap - 1 -> Server!Pointer]
    BY <1>1
  <2>3. /\ queue'[g].head = h /\ queue'[g].tail = u /\ queue'[g].data = [q.data EXCEPT ![t] = d]
        /\ queue'[g] \in QueueRec
    BY <1>0, <1>2, <2>1, <2>2 DEF QueueRec
  <2> QED BY <1>1, <2>3
<1>4. /\ Len(owed'[g]) = Len(owed[g]) + 1 /\ owed'[g][Len(owed[g]) + 1] = d /\ Len(owed[g]) \in Nat
      /\ \A i \in 1 .. Len(owed[g]) : owed'[g][i] = owed[g][i]
      /\ owed'[g] \in Seq(Server!Pointer)
  BY <1>0
<1>5. /\ m \in 0 .. QueueCap - 1
      /\ \A i \in 1 .. m : Server!Cell(h, i) \in 0 .. QueueCap - 1 /\ Server!Cell(h, i) # t
      /\ Server!Cell(h, m + 1) = t
      /\ u = h => m = QueueCap - 1 /\ Server!Dist(QueueCap, h, u) = 0
      /\ u # h => Server!Dist(QueueCap, h, u) = m + 1
  <2>1. CellFacts(h, t)
    BY <1>0, <1>1, CellArith
  <2> HIDE DEF h, t
  <2> QED BY <2>1 DEF CellFacts, u, t
<1>6. Server!Waiting(g) = m /\ Server!Waiting(g)' = Server!Dist(QueueCap, h, u)
  BY <1>3 DEF Server!Waiting, Server!Dist
<1>7. /\ \A i \in 1 .. m : Server!Held(q.data[Server!Cell(h, i)][1], q.data[Server!Cell(h, i)][2])
      /\ ~ overrun[g] => /\ Len(owed[g]) = m
                         /\ \A i \in 1 .. m : owed[g][i] = q.data[Server!Cell(h, i)]
  BY <1>6 DEF Server!QueueInv
<1> HIDE DEF q, h, t, u, m
<1>8. CASE u = h
  <2>1. Server!Waiting(g)' = 0
    BY <1>5, <1>6, <1>8
  <2>2. overrun'[g]
    <3>1. ~ overrun[g] => Len(owed[g]) + 1 >= QueueCap
      BY <1>0, <1>5, <1>7, <1>8
    <3> QED BY <3>1
  <2> QED BY <1>3, <1>4, <2>1, <2>2, QueueNext
<1>9. CASE u # h
  <2>1. Server!Waiting(g)' = m + 1
    BY <1>5, <1>6, <1>9
  <2>2. ASSUME NEW i \in 1 .. m + 1
        PROVE  /\ HeldNext(queue'[g].data[Server!Cell(h, i)][1], queue'[g].data[Server!Cell(h, i)][2])
               /\ ~ overrun[g] => owed'[g][i] = queue'[g].data[Server!Cell(h, i)]
    <3>1. CASE i = m + 1
      <4>1. queue'[g].data[Server!Cell(h, i)] = d
        BY <1>3, <1>5, <3>1
      <4>2. ~ overrun[g] => owed'[g][i] = d
        BY <1>4, <1>7, <3>1
      <4> QED BY <4>1, <4>2
    <3>2. CASE i # m + 1
      <4>1. i \in 1 .. m
        BY <1>5, <3>2
      <4>2. /\ queue'[g].data[Server!Cell(h, i)] = q.data[Server!Cell(h, i)]
            /\ q.data[Server!Cell(h, i)] \in Server!Pointer
        BY <1>1, <1>3, <1>5, <4>1
      <4>3. HeldNext(q.data[Server!Cell(h, i)][1], q.data[Server!Cell(h, i)][2])
        BY <1>7, <4>1, <4>2, HeldIsNext
      <4>4. ~ overrun[g] => owed'[g][i] = q.data[Server!Cell(h, i)]
        BY <1>4, <1>7, <4>1
      <4> QED BY <4>2, <4>3, <4>4
    <3> QED BY <3>1, <3>2
  <2>3. ~ overrun'[g] => ~ overrun[g]
    OBVIOUS
  <2>4. ~ overrun'[g] => Len(owed'[g]) = m + 1
    BY <1>4, <1>7, <2>3
  <2> QED BY <1>3, <1>4, <2>1, <2>2, <2>3, <2>4, QueueNext
<1> QED BY <1>8, <1>9

\* The order of the pointers when one comes to the end of the queue.
LEMMA PushOrder ==
  ASSUME Server!Types, NEW g \in Server!G, Server!OrderInv(g), NEW d \in Server!Pointer,
         owed'[g] = Append(owed[g], d), ~ overrun'[g] => ~ overrun[g],
         UNCHANGED <<worker, responses>>,
         Server!HandedOn = d[2] - 1, Server!HandedOn' = d[2]
  PROVE  Server!OrderInv(g)'
<1> DEFINE o == owed[g]
           w == worker[g].took
           k == d[2]
<1>1. w \in Nat /\ o \in Seq(Server!Pointer) /\ Len(o) \in Nat /\ DOMAIN o = 1 .. Len(o)
  BY OrderTypes, TypesAre
<1>2. k \in Nat
  BY DEF Server!Pointer
<1>3. \A i \in 1 .. Len(o) : o[i][2] \in Nat
  <2>1. \A i \in 1 .. Len(o) : o[i] \in Server!Pointer
    BY <1>1
  <2> QED BY <2>1 DEF Server!Pointer
<1>4. /\ DOMAIN owed'[g] = 1 .. Len(o) + 1 /\ owed'[g][Len(o) + 1] = d
      /\ \A i \in 1 .. Len(o) : owed'[g][i] = o[i]
  BY <1>1
<1>5. ~ overrun[g] =>
        /\ w <= k - 1
        /\ \A i \in 1 .. Len(o) : w < o[i][2] /\ o[i][2] <= k - 1
        /\ \A i, j \in 1 .. Len(o) : i < j => o[i][2] < o[j][2]
        /\ \A i \in DOMAIN responses : responses[i].g = g => responses[i].took <= Server!Answered(g)
        /\ \A i, j \in DOMAIN responses :
             i < j /\ responses[i].g = g /\ responses[j].g = g => responses[i].took < responses[j].took
  BY <1>1 DEF Server!OrderInv
<1>6. Server!Answered(g)' = Server!Answered(g) /\ worker'[g].took = w
  BY DEF Server!Answered
<1> DEFINE v == owed'[g]
<1> HIDE DEF o, w, k, v
<1>7. ~ overrun[g] =>
        /\ w <= k
        /\ \A i \in 1 .. Len(o) + 1 : w < v[i][2] /\ v[i][2] <= k
        /\ \A i, j \in 1 .. Len(o) + 1 : i < j => v[i][2] < v[j][2]
  <2> SUFFICES ASSUME ~ overrun[g]
               PROVE  /\ w <= k
                      /\ \A i \in 1 .. Len(o) + 1 : w < v[i][2] /\ v[i][2] <= k
                      /\ \A i, j \in 1 .. Len(o) + 1 : i < j => v[i][2] < v[j][2]
    OBVIOUS
  <2>1. v[Len(o) + 1][2] = k /\ \A i \in 1 .. Len(o) : v[i][2] = o[i][2]
    BY <1>4 DEF v, k
  <2>2. ASSUME NEW i \in 1 .. Len(o) + 1 PROVE i \in 1 .. Len(o) \/ i = Len(o) + 1
    BY <1>1
  <2>3. ASSUME NEW i \in 1 .. Len(o) + 1 PROVE w < v[i][2] /\ v[i][2] <= k
    BY <1>1, <1>2, <1>3, <1>5, <2>1, <2>2
  <2>4. ASSUME NEW i \in 1 .. Len(o) + 1, NEW j \in 1 .. Len(o) + 1, i < j PROVE v[i][2] < v[j][2]
    <3>1. i \in 1 .. Len(o)
      BY <1>1, <2>4
    <3> QED BY <1>1, <1>2, <1>3, <1>5, <2>1, <2>2, <2>4, <3>1
  <2> QED BY <1>1, <1>2, <1>5, <2>3, <2>4
<1> QED BY <1>4, <1>5, <1>6, <1>7 DEF Server!OrderInv, v, k

\* The sreader hands the pointer on, round robin.
LEMMA PushStep ==
  ASSUME Server!ServerInv, Server!SomeGraph, Server!Push
  PROVE  Server!ServerInv'
<1>0. /\ Server!Types /\ sreader \in ReaderRec /\ sreader.pc = "push" /\ sreader.graph_index \in Server!G
      /\ sreader.ptr \in 0 .. slot_count - 1 /\ sreader.took \in Nat
      /\ <<sreader.ptr, sreader.took>> \in Server!Pointer
      /\ Server!Held(sreader.ptr, sreader.took)
  <2>1. Server!Types /\ sreader \in ReaderRec /\ sreader.pc = "push"
    BY TypesAre DEF Server!ServerInv, Server!Push
  <2>2. sreader.graph_index \in Server!G /\ sreader.ptr \in 0 .. slot_count - 1 /\ sreader.took \in Nat
    BY <2>1 DEF ReaderRec
  <2> QED BY <2>1, <2>2 DEF Server!ServerInv, Server!HeldInv, Server!Pointer
<1>g. PICK g \in Server!G : g = sreader.graph_index
  BY <1>0
<1>d. PICK d \in Server!Pointer : d = <<sreader.ptr, sreader.took>>
  BY <1>0
<1> DEFINE n == Server!graph_cnt
<1>1. /\ sreader' = [sreader EXCEPT !.pc = "run", !.graph_index = (g % n) + 1]
      /\ UNCHANGED <<swritten, cell, shead, stail, worker, mutex, stream, responses, main, graphs>>
      /\ IF g \in graphs
           THEN /\ queue' = [queue EXCEPT ![g] = Server!push(queue[g], d)]
                /\ owed' = [owed EXCEPT ![g] = Append(owed[g], d)]
                /\ overrun' = [overrun EXCEPT ![g] = (overrun[g] \/ Len(owed[g]) + 1 >= QueueCap)]
           ELSE UNCHANGED <<queue, owed, overrun>>
  BY <1>g, <1>d DEF Server!Push, Server!ringvars, Server!outvars, Server!queuevars
<1>2. sreader' \in ReaderRec /\ sreader'.pc = "run" /\ sreader'.took = sreader.took
  <2>1. (g % n) + 1 \in Server!G
    <3>1. n \in Nat \ {0} /\ Server!G = 1 .. n /\ g \in Nat
      BY SomeG
    <3>2. g % n \in 0 .. n - 1
      BY <3>1
    <3> HIDE DEF n
    <3> QED BY <3>1, <3>2
  <2> QED BY <1>0, <1>1, <2>1 DEF ReaderRec
<1>3. HeldStays
  BY <1>1, HeldSame
<1>4. HeldNext(d[1], d[2])
  <2>1. Server!Held(d[1], d[2])
    BY <1>0, <1>d
  <2> QED BY <1>3, <2>1, HeldIsNext
<1>5. Server!HandedOn = d[2] - 1 /\ Server!HandedOn' = d[2] /\ d[2] \in Nat
  BY <1>0, <1>2, <1>d DEF Server!HandedOn
<1>6. ASSUME NEW f \in Server!G, UNCHANGED <<queue[f], owed[f], overrun[f]>>
      PROVE  Server!QueueInv(f)' /\ Server!OrderInv(f)'
  <2>1. Server!QueueInv(f) /\ Server!OrderInv(f)
    BY DEF Server!ServerInv
  <2>2. Server!QueueInv(f)'
    BY <1>1, <1>6, <2>1 DEF Server!QueueInv, Server!Waiting, Server!Held, Server!Age
  <2>3. Server!OrderInv(f)'
    <3>1. Server!Answered(f)' = Server!Answered(f)
      BY <1>1 DEF Server!Answered
    <3>2. /\ worker[f].took \in Nat /\ owed[f] \in Seq(Server!Pointer)
      BY <1>0, OrderTypes, TypesAre
    <3>3. \A i \in DOMAIN owed[f] : owed[f][i][2] \in Nat
      BY <3>2 DEF Server!Pointer
    <3> QED BY <1>0, <1>1, <1>5, <1>6, <2>1, <3>1, <3>2, <3>3 DEF Server!OrderInv
  <2> QED BY <2>2, <2>3
<1>7. /\ \A f \in Server!G : Server!QueueInv(f)' /\ Server!OrderInv(f)'
      /\ queue' \in [Server!G -> QueueRec] /\ owed' \in [Server!G -> Seq(Server!Pointer)]
      /\ overrun' \in [Server!G -> BOOLEAN]
  <2>0. /\ queue \in [Server!G -> QueueRec] /\ owed \in [Server!G -> Seq(Server!Pointer)]
        /\ overrun \in [Server!G -> BOOLEAN]
    BY <1>0, TypesAre
  <2>1. CASE g \in graphs
    <3>1. /\ queue'[g] = Server!push(queue[g], d) /\ owed'[g] = Append(owed[g], d)
          /\ overrun'[g] = (overrun[g] \/ Len(owed[g]) + 1 >= QueueCap)
          /\ \A f \in Server!G : f # g => UNCHANGED <<queue[f], owed[f], overrun[f]>>
      BY <1>1, <2>0, <2>1
    <3>2. Server!QueueInv(g) /\ Server!OrderInv(g)
      BY DEF Server!ServerInv
    <3>3. Server!QueueInv(g)' /\ queue'[g] \in QueueRec /\ owed'[g] \in Seq(Server!Pointer)
      BY <1>0, <1>3, <1>4, <3>1, <3>2, PushQueue
    <3>4. Server!OrderInv(g)'
      BY <1>0, <1>1, <1>5, <3>1, <3>2, PushOrder
    <3>5. queue' \in [Server!G -> QueueRec]
      BY <1>1, <2>0, <2>1, <3>1, <3>3
    <3>6. owed' \in [Server!G -> Seq(Server!Pointer)]
      BY <1>1, <2>0, <2>1, <3>1, <3>3
    <3>7. overrun' \in [Server!G -> BOOLEAN]
      BY <1>1, <2>0, <2>1
    <3> QED BY <1>6, <3>1, <3>3, <3>4, <3>5, <3>6, <3>7
  <2>2. CASE g \notin graphs
    <3>1. UNCHANGED <<queue, owed, overrun>>
      BY <1>1, <2>2
    <3> QED BY <1>6, <2>0, <3>1
  <2> QED BY <2>1, <2>2
<1>8. Server!Types'
  <2>1. /\ swritten' \in Nat /\ cell' \in [0 .. slot_count - 1 -> Nat]
        /\ shead' \in 0 .. slot_count - 1 /\ stail' \in 0 .. slot_count - 1
        /\ worker' \in [Server!G -> WorkerRec]
        /\ mutex' \in Server!G \cup {0} /\ stream' \in {"open", "closed"}
        /\ responses' \in Seq(ResponseRec)
        /\ main' \in {"start", "reader", "join", "cancel", "joinrb", "exit"} /\ graphs' \subseteq Server!G
    BY <1>0, <1>1, TypesAre
  <2> QED BY <1>2, <1>7, <2>1 DEF Server!Types, WorkerRec, QueueRec, ReaderRec, ResponseRec
<1>9. Server!UnreadInv'
  <2>1. /\ Server!Dist(slot_count, shead, stail)' = Server!Dist(slot_count, shead, stail)
        /\ \A k \in 0 .. slot_count - 1 : Server!Age(stail, k)' = Server!Age(stail, k)
    BY <1>1 DEF Server!Dist, Server!Age
  <2>2. Server!UnreadInv
    BY DEF Server!ServerInv
  <2> QED BY <1>0, <1>1, <1>2, <2>1, <2>2 DEF Server!UnreadInv
<1>10. Server!HeldInv'
  <2>1. ASSUME NEW f \in Server!G PROVE worker[f].ptr \in 0 .. slot_count - 1 /\ worker[f].took \in Nat
    BY <1>0, OrderTypes DEF WorkerRec
  <2>2. \A f \in Server!G : worker[f].pc \in Server!Reading => Server!Held(worker[f].ptr, worker[f].took)'
    BY <1>1, <1>3, <2>1 DEF Server!ServerInv, Server!HeldInv, HeldStays
  <2> QED BY <1>1, <1>2, <2>2 DEF Server!HeldInv
<1>11. Server!HeaderInv' /\ Server!NothingTaken'
  BY <1>1, <1>2 DEF Server!ServerInv, Server!HeaderInv, Server!NothingTaken
<1>12. Server!StartedInv'
  BY <1>0, <1>1 DEF Server!ServerInv, Server!StartedInv, Server!AllStopped, Server!GraphOutlivesThread
<1> QED BY <1>7, <1>8, <1>9, <1>10, <1>11, <1>12 DEF Server!ServerInv

\* The sreader ends, or the client closes its stream: no pointer is touched.
LEMMA EndStep ==
  ASSUME Server!ServerInv, Server!SomeGraph, Server!ReaderCancelled \/ Server!ClientCloses
  PROVE  Server!ServerInv'
<1>0. Server!Types /\ sreader \in ReaderRec /\ sreader.took \in Nat
  <2>1. Server!Types /\ sreader \in ReaderRec
    BY TypesAre DEF Server!ServerInv
  <2> QED BY <2>1 DEF ReaderRec
<1>1. /\ UNCHANGED <<swritten, cell, shead, stail, queue, owed, overrun, worker, mutex, responses, main, graphs>>
      /\ stream' \in {"open", "closed"}
      /\ \/ sreader' = sreader
         \/ sreader.pc = "run" /\ sreader' = [sreader EXCEPT !.pc = "ended"] /\ main = "joinrb"
  BY <1>0 DEF Server!ReaderCancelled, Server!ClientCloses, Server!Sleeps, Server!ringvars,
              Server!queuevars, Server!outvars, Server!Types
<1>2. /\ sreader' \in ReaderRec /\ sreader'.took = sreader.took
      /\ \/ sreader' = sreader
         \/ sreader.pc = "run" /\ sreader'.pc = "ended" /\ main = "joinrb"
  BY <1>0, <1>1 DEF ReaderRec
<1>3. HeldStays
  BY <1>1, HeldSame
<1>4. Server!HandedOn' = Server!HandedOn /\ Server!HandedOn \in Int
  BY <1>0, <1>2 DEF Server!HandedOn
<1>5. \A g \in Server!G : Server!QueueInv(g)' /\ Server!OrderInv(g)'
  BY <1>1, <1>3, <1>4, ThreadsSame
<1>6. Server!Types'
  BY <1>0, <1>1, <1>2 DEF Server!Types, ReaderRec
<1>7. Server!UnreadInv'
  <2>1. /\ Server!Dist(slot_count, shead, stail)' = Server!Dist(slot_count, shead, stail)
        /\ \A k \in 0 .. slot_count - 1 : Server!Age(stail, k)' = Server!Age(stail, k)
    BY <1>1 DEF Server!Dist, Server!Age
  <2>2. Server!UnreadInv
    BY DEF Server!ServerInv
  <2> QED BY <1>1, <1>2, <2>1, <2>2 DEF Server!UnreadInv
<1>8. Server!HeldInv'
  <2>1. ASSUME NEW f \in Server!G PROVE worker[f].ptr \in 0 .. slot_count - 1 /\ worker[f].took \in Nat
    BY <1>0, OrderTypes DEF WorkerRec
  <2>2. \A f \in Server!G : worker[f].pc \in Server!Reading => Server!Held(worker[f].ptr, worker[f].took)'
    BY <1>1, <1>3, <2>1 DEF Server!ServerInv, Server!HeldInv, HeldStays
  <2>3. sreader'.pc = "push" => Server!Held(sreader.ptr, sreader.took)'
    <3> SUFFICES ASSUME sreader'.pc = "push" PROVE Server!Held(sreader.ptr, sreader.took)'
      OBVIOUS
    <3>1. sreader' = sreader
      BY <1>2
    <3>2. Server!Held(sreader.ptr, sreader.took)
      BY <3>1 DEF Server!ServerInv, Server!HeldInv
    <3> QED BY <1>1, <3>1, <3>2 DEF Server!Held, Server!Age
  <2> QED BY <1>1, <2>2, <2>3 DEF Server!HeldInv
<1>9. Server!HeaderInv' /\ Server!NothingTaken'
  BY <1>1, <1>2 DEF Server!ServerInv, Server!HeaderInv, Server!NothingTaken
<1>10. Server!StartedInv'
  BY <1>0, <1>1, <1>2 DEF Server!ServerInv, Server!StartedInv, Server!AllStopped, Server!GraphOutlivesThread
<1> QED BY <1>5, <1>6, <1>7, <1>8, <1>9, <1>10 DEF Server!ServerInv

\* A step of a thread that is at work: the parts every such step leaves alone.
LEMMA WorkerCore ==
  ASSUME Server!ServerInv, Server!SomeGraph, NEW g \in Server!G, NEW w \in WorkerRec,
         worker' = [worker EXCEPT ![g] = w],
         UNCHANGED <<swritten, cell, shead, stail, sreader, main, graphs, overrun, stream>>,
         queue' \in [Server!G -> QueueRec], owed' \in [Server!G -> Seq(Server!Pointer)],
         mutex' \in Server!G \cup {0}, responses' \in Seq(ResponseRec),
         worker[g].pc \notin {"off", "stopped"}, sreader.pc \notin {"off", "started"},
         w.pc \in Server!Reading => Server!Held(w.ptr, w.took)
  PROVE  /\ Server!Types' /\ Server!StartedInv' /\ Server!NothingTaken' /\ Server!UnreadInv'
         /\ Server!HeldInv' /\ HeldStays
         /\ worker'[g] = w /\ \A f \in Server!G : f # g => worker'[f] = worker[f]
<1>0. Server!Types /\ worker \in [Server!G -> WorkerRec] /\ sreader \in ReaderRec
  BY TypesAre DEF Server!ServerInv
<1>1. /\ worker'[g] = w /\ \A f \in Server!G : f # g => worker'[f] = worker[f]
      /\ worker' \in [Server!G -> WorkerRec]
  BY <1>0
<1>2. HeldStays
  BY HeldSame
<1>3. Server!Types'
  BY <1>0, <1>1 DEF Server!Types, WorkerRec, QueueRec, ResponseRec
<1>4. Server!StartedInv'
  <2>1. g \in graphs /\ ~ Server!AllStopped
    BY DEF Server!ServerInv, Server!StartedInv, Server!GraphOutlivesThread, Server!AllStopped
  <2>2. Server!GraphOutlivesThread'
    BY <1>1, <2>1 DEF Server!ServerInv, Server!StartedInv, Server!GraphOutlivesThread
  <2> QED BY <2>1, <2>2 DEF Server!ServerInv, Server!StartedInv
<1>5. Server!NothingTaken'
  BY DEF Server!NothingTaken
<1>6. Server!UnreadInv'
  <2>1. /\ Server!Dist(slot_count, shead, stail)' = Server!Dist(slot_count, shead, stail)
        /\ \A k \in 0 .. slot_count - 1 : Server!Age(stail, k)' = Server!Age(stail, k)
    BY DEF Server!Dist, Server!Age
  <2>2. Server!UnreadInv
    BY DEF Server!ServerInv
  <2> QED BY <2>1, <2>2 DEF Server!UnreadInv
<1>7. Server!HeldInv'
  <2>1. sreader.pc = "push" => Server!Held(sreader.ptr, sreader.took)'
    BY DEF Server!ServerInv, Server!HeldInv, Server!Held, Server!Age
  <2>2. ASSUME NEW f \in Server!G, worker'[f].pc \in Server!Reading
        PROVE  Server!Held(worker[f].ptr, worker[f].took)'
    <3>1. CASE f = g
      BY <1>1, <2>2, <3>1 DEF Server!Held, Server!Age
    <3>2. CASE f # g
      BY <1>1, <2>2, <3>2 DEF Server!ServerInv, Server!HeldInv, Server!Held, Server!Age
    <3> QED BY <3>1, <3>2
  <2> QED BY <2>1, <2>2 DEF Server!HeldInv, Server!Reading
<1> QED BY <1>1, <1>2, <1>3, <1>4, <1>5, <1>6, <1>7

\* A graph that a step does not touch.
LEMMA OtherGraph ==
  ASSUME Server!ServerInv, NEW f \in Server!G,
         UNCHANGED <<swritten, cell, stail, sreader, queue[f], owed[f], overrun[f], worker[f]>>,
         \/ UNCHANGED responses
         \/ \E r \in ResponseRec : responses' = Append(responses, r) /\ r.g # f
  PROVE  Server!QueueInv(f)' /\ Server!OrderInv(f)'
<1>0. Server!QueueInv(f) /\ Server!OrderInv(f) /\ responses \in Seq(ResponseRec)
  BY TypesAre DEF Server!ServerInv
<1>1. Server!QueueInv(f)'
  BY <1>0 DEF Server!QueueInv, Server!Waiting, Server!Held, Server!Age
<1>2. Server!HandedOn' = Server!HandedOn /\ Server!Answered(f)' = Server!Answered(f)
  BY DEF Server!HandedOn, Server!Answered
<1>3. CASE UNCHANGED responses
  BY <1>0, <1>1, <1>2, <1>3 DEF Server!OrderInv
<1>4. ASSUME NEW r \in ResponseRec, responses' = Append(responses, r), r.g # f
      PROVE  Server!OrderInv(f)'
  <2>1. /\ Len(responses) \in Nat /\ DOMAIN responses = 1 .. Len(responses)
        /\ DOMAIN responses' = 1 .. Len(responses) + 1 /\ responses'[Len(responses) + 1] = r
        /\ \A i \in 1 .. Len(responses) : responses'[i] = responses[i]
    BY <1>0, <1>4
  <2>2. ASSUME NEW i \in DOMAIN responses', responses'[i].g = f
        PROVE  i \in DOMAIN responses /\ responses'[i] = responses[i]
    <3>1. i # Len(responses) + 1
      BY <1>4, <2>1, <2>2
    <3>2. i \in 1 .. Len(responses)
      BY <2>1, <3>1
    <3> QED BY <2>1, <3>2
  <2> QED BY <1>0, <1>2, <2>2 DEF Server!OrderInv
<1> QED BY <1>1, <1>3, <1>4

\* A thread goes on in its work with the slot it has.
LEMMA WorkStep ==
  ASSUME Server!ServerInv, Server!SomeGraph, NEW g \in Server!G, NEW w \in WorkerRec,
         worker' = [worker EXCEPT ![g] = w],
         UNCHANGED <<swritten, cell, shead, stail, sreader, main, graphs, queue, owed, overrun, stream, responses>>,
         mutex' \in Server!G \cup {0},
         worker[g].pc \in Server!Busy, w.took = worker[g].took, w.ptr = worker[g].ptr,
         w.pc \in Server!Reading => worker[g].pc \in Server!Reading,
         swritten <= slot_count => w.hdr = w.took
  PROVE  Server!ServerInv'
<1>0. Server!Types /\ worker[g] \in WorkerRec /\ worker[g].took \in Nat
  BY OrderTypes DEF Server!ServerInv
<1>1. worker[g].pc \notin {"off", "stopped", "pop"}
  BY DEF Server!Busy, Server!Reading
<1>2. sreader.pc \notin {"off", "started"}
  BY <1>1 DEF Server!ServerInv, Server!NothingTaken
<1>3. w.pc \in Server!Reading => Server!Held(w.ptr, w.took)
  BY DEF Server!ServerInv, Server!HeldInv
<1>4. /\ queue' \in [Server!G -> QueueRec] /\ owed' \in [Server!G -> Seq(Server!Pointer)]
      /\ responses' \in Seq(ResponseRec)
  BY <1>0, TypesAre
<1>5. /\ Server!Types' /\ Server!StartedInv' /\ Server!NothingTaken' /\ Server!UnreadInv'
      /\ Server!HeldInv' /\ HeldStays
      /\ worker'[g] = w /\ \A f \in Server!G : f # g => worker'[f] = worker[f]
  BY <1>1, <1>2, <1>3, <1>4, WorkerCore
<1>6. Server!HeaderInv'
  <2>1. Server!HeaderInv
    BY DEF Server!ServerInv
  <2> QED BY <1>5, <2>1 DEF Server!HeaderInv
<1>7. \A f \in Server!G : f # g => Server!QueueInv(f)' /\ Server!OrderInv(f)'
  BY <1>5, OtherGraph
<1>8. Server!QueueInv(g) /\ Server!OrderInv(g)
  BY DEF Server!ServerInv
<1>9. Server!QueueInv(g)'
  BY <1>0, <1>5, <1>8, QueueFrame
<1>10. Server!OrderInv(g)'
  <2>1. Server!HandedOn' = Server!HandedOn /\ Server!HandedOn \in Int
    BY <1>0, OrderTypes DEF Server!HandedOn
  <2>2. Server!Answered(g) = worker[g].took - 1
    BY DEF Server!Answered
  <2>3. Server!Answered(g)' = (IF w.pc \in Server!Busy THEN w.took - 1 ELSE w.took)
    BY <1>5 DEF Server!Answered, Server!Busy, Server!Reading
  <2>4. Server!Answered(g)' \in Int /\ Server!Answered(g) <= Server!Answered(g)'
    BY <1>0, <2>2, <2>3
  <2> QED BY <1>0, <1>5, <1>8, <2>1, <2>4, OrderFrame
<1> QED BY <1>5, <1>6, <1>7, <1>9, <1>10 DEF Server!ServerInv

\* Before the ring has gone round, what a thread reads is what was taken.
LEMMA SlotIsTaken ==
  ASSUME Server!ServerInv, Server!SomeGraph, NEW g \in Server!G, worker[g].pc \in Server!Reading,
         swritten <= slot_count
  PROVE  Server!Slot(g) = worker[g].took
<1>1. worker[g].took \in Nat /\ swritten \in Nat /\ slot_count \in Nat \ {0}
  BY OrderTypes, TypesAre, SomeG DEF Server!ServerInv
<1>2. Server!Held(worker[g].ptr, worker[g].took)
  BY DEF Server!ServerInv, Server!HeldInv
<1> QED BY <1>1, <1>2 DEF Server!Held, Server!Slot

\* What a thread's record becomes when it answers.
LEMMA AnswerRec ==
  ASSUME NEW g \in Server!G, worker[g] \in WorkerRec,
         NEW result \in Server!Results, NEW rules \in Nat, NEW mfr \in Nat
  PROVE  LET w == Server!Answer(g, result, rules, mfr) IN
         /\ w \in WorkerRec /\ w.took = worker[g].took /\ w.ptr = worker[g].ptr /\ w.hdr = worker[g].hdr
         /\ w.pc = "lock"
BY DEF WorkerRec, Server!Answer, Server!Busy, Server!Reading

\* The steps of calc_graph between the queue and the stream.
LEMMA CalcSteps ==
  ASSUME Server!ServerInv, Server!SomeGraph, NEW g \in Server!G,
         \/ Server!ParseHeader(g) \/ Server!NoAnomaly(g) \/ Server!Anomaly(g) \/ Server!ParsePackets(g)
         \/ Server!NoAttack(g) \/ Server!Possible(g) \/ Server!PossibleModel(g)
         \/ Server!Confirmed(g, "counts*") \/ Server!Confirmed(g, "counts") \/ Server!Lock(g)
         \/ (Server!Write(g) /\ stream # "open")
  PROVE  Server!ServerInv'
<1> DEFINE v == worker[g]
           s == Server!Slot(g)
<1>0. /\ v \in WorkerRec /\ mutex \in Server!G \cup {0} /\ cell \in [0 .. slot_count - 1 -> Nat]
  BY TypesAre DEF Server!ServerInv
<1>1. v.ptr \in 0 .. slot_count - 1 /\ s \in Nat
  <2>1. v.ptr \in 0 .. slot_count - 1
    BY <1>0 DEF WorkerRec
  <2> QED BY <1>0, <2>1 DEF Server!Slot
<1>2. v.pc \in Server!Reading /\ swritten <= slot_count => s = v.took
  BY SlotIsTaken
<1>3. v.pc \in Server!Busy \ {"header"} /\ swritten <= slot_count => v.hdr = v.took
  BY DEF Server!ServerInv, Server!HeaderInv
<1>4. {"header", "g1", "packets", "g2"} = Server!Reading /\ Server!Busy = Server!Reading \cup {"lock", "write"}
  BY DEF Server!Reading, Server!Busy
<1>5. ASSUME NEW w \in WorkerRec, v.pc = "header", w.took = v.took, w.ptr = v.ptr, w.hdr = s,
             Server!Becomes(g, w), UNCHANGED <<Server!queuevars, Server!outvars>>
      PROVE  Server!ServerInv'
  <2>1. /\ worker' = [worker EXCEPT ![g] = w]
        /\ UNCHANGED <<swritten, cell, shead, stail, sreader, main, graphs, queue, owed, overrun, stream, responses>>
        /\ mutex' \in Server!G \cup {0}
    BY <1>0, <1>5 DEF Server!Becomes, Server!ringvars, Server!queuevars, Server!outvars
  <2>2. v.pc \in Server!Reading /\ v.pc \in Server!Busy
    BY <1>4, <1>5
  <2>3. swritten <= slot_count => w.hdr = w.took
    BY <1>2, <1>5, <2>2
  <2> QED BY <1>5, <2>1, <2>2, <2>3, WorkStep
<1>6. ASSUME NEW w \in WorkerRec, v.pc \in Server!Busy \ {"header"}, w.took = v.took, w.ptr = v.ptr,
             w.hdr = v.hdr, w.pc \in Server!Reading => v.pc \in Server!Reading,
             Server!Becomes(g, w), UNCHANGED <<Server!queuevars, stream, responses>>,
             mutex' \in Server!G \cup {0}
      PROVE  Server!ServerInv'
  <2>1. /\ worker' = [worker EXCEPT ![g] = w]
        /\ UNCHANGED <<swritten, cell, shead, stail, sreader, main, graphs, queue, owed, overrun, stream, responses>>
    BY <1>6 DEF Server!Becomes, Server!ringvars, Server!queuevars
  <2>2. swritten <= slot_count => w.hdr = w.took
    BY <1>3, <1>6
  <2> QED BY <1>6, <2>1, <2>2, WorkStep
<1>7. ASSUME NEW result \in Server!Results, NEW rules \in Nat, NEW mfr \in Nat, v.pc \in Server!Busy \ {"header"},
             Server!Becomes(g, Server!Answer(g, result, rules, mfr)),
             UNCHANGED <<Server!queuevars, Server!outvars>>
      PROVE  Server!ServerInv'
  <2> DEFINE w == Server!Answer(g, result, rules, mfr)
  <2>1. /\ w \in WorkerRec /\ w.took = worker[g].took /\ w.ptr = worker[g].ptr /\ w.hdr = worker[g].hdr
        /\ w.pc = "lock"
    BY <1>0, AnswerRec
  <2>2. w.pc \notin Server!Reading
    BY <1>4, <2>1
  <2>3. UNCHANGED <<Server!queuevars, stream, responses>> /\ mutex' \in Server!G \cup {0} /\ Server!Becomes(g, w)
    BY <1>0, <1>7 DEF Server!outvars
  <2> HIDE DEF w
  <2> QED BY <1>6, <1>7, <2>1, <2>2, <2>3
<1>9. ASSUME NEW pc \in {"packets", "g2", "pop", "write", "stopped"}, NEW w, w = Server!Go(g, pc)
      PROVE  w \in WorkerRec /\ w.took = v.took /\ w.ptr = v.ptr /\ w.pc = pc /\ w.hdr = v.hdr
  BY <1>0, <1>9 DEF WorkerRec, Server!Go, Server!Busy, Server!Reading
<1>10. CASE Server!ParseHeader(g)
  <2>1. v.pc = "header" /\ UNCHANGED <<Server!queuevars, Server!outvars>>
    BY <1>10 DEF Server!ParseHeader, Server!At
  <2>2. CASE Server!Becomes(g, [Server!Go(g, "g1") EXCEPT !.hdr = s])
    <3> DEFINE w == [Server!Go(g, "g1") EXCEPT !.hdr = s]
    <3>1. w \in WorkerRec /\ w.took = v.took /\ w.ptr = v.ptr /\ w.hdr = s
      BY <1>0, <1>1 DEF WorkerRec, Server!Go, Server!Busy, Server!Reading
    <3>2. Server!Becomes(g, w)
      BY <2>2
    <3> HIDE DEF w
    <3> QED BY <1>5, <2>1, <3>1, <3>2
  <2>3. CASE Server!Becomes(g, [Server!Answer(g, "Less", 1, 0) EXCEPT !.hdr = s])
    <3> DEFINE a == Server!Answer(g, "Less", 1, 0)
               w == [a EXCEPT !.hdr = s]
    <3>0. "Less" \in Server!Results
      BY DEF Server!Results
    <3>1. a \in WorkerRec /\ a.took = v.took /\ a.ptr = v.ptr
      BY <1>0, <3>0, AnswerRec
    <3> HIDE DEF a
    <3>2. w \in WorkerRec /\ w.took = v.took /\ w.ptr = v.ptr /\ w.hdr = s
      BY <1>1, <3>1 DEF WorkerRec
    <3>3. Server!Becomes(g, w)
      BY <2>3 DEF a
    <3> HIDE DEF w
    <3> QED BY <1>5, <2>1, <3>2, <3>3
  <2> QED BY <1>10, <2>2, <2>3 DEF Server!ParseHeader
<1>11. CASE Server!NoAnomaly(g)
  <2>1. /\ v.pc = "g1" /\ Server!Becomes(g, Server!Answer(g, "No Anomaly", 1, 0))
        /\ UNCHANGED <<Server!queuevars, Server!outvars>>
    BY <1>11 DEF Server!NoAnomaly, Server!At
  <2>2. v.pc \in Server!Busy \ {"header"} /\ "No Anomaly" \in Server!Results
    BY <1>4, <2>1 DEF Server!Results
  <2> QED BY <1>7, <2>1, <2>2
<1>12. CASE Server!Anomaly(g)
  <2>1. v.pc = "g1" /\ Server!Becomes(g, Server!Go(g, "packets")) /\ UNCHANGED <<Server!queuevars, Server!outvars>>
    BY <1>12 DEF Server!Anomaly, Server!At
  <2> QED BY <1>0, <1>4, <1>6, <1>9, <2>1 DEF Server!outvars
<1>13. CASE Server!ParsePackets(g)
  <2>1. /\ v.pc = "packets" /\ UNCHANGED <<Server!queuevars, Server!outvars>>
        /\ \E pc \in {"g2", "pop"} : Server!Becomes(g, [Server!Go(g, pc) EXCEPT !.pkts = s])
    BY <1>13 DEF Server!ParsePackets, Server!At
  <2>2. PICK pc \in {"g2", "pop"} : Server!Becomes(g, [Server!Go(g, pc) EXCEPT !.pkts = s])
    BY <2>1
  <2> DEFINE w == [Server!Go(g, pc) EXCEPT !.pkts = s]
  <2>3. w \in WorkerRec /\ w.took = v.took /\ w.ptr = v.ptr /\ w.hdr = v.hdr
    BY <1>0, <1>1 DEF WorkerRec, Server!Go, Server!Busy, Server!Reading
  <2>4. Server!Becomes(g, w) /\ mutex' \in Server!G \cup {0}
    BY <1>0, <2>1, <2>2 DEF Server!outvars
  <2> HIDE DEF w
  <2> QED BY <1>4, <1>6, <2>1, <2>3, <2>4 DEF Server!outvars
<1>14. CASE \/ Server!NoAttack(g) \/ Server!Possible(g) \/ Server!PossibleModel(g)
            \/ Server!Confirmed(g, "counts*") \/ Server!Confirmed(g, "counts")
  <2>1. v.pc = "g2" /\ UNCHANGED <<Server!queuevars, Server!outvars>>
    BY <1>14 DEF Server!NoAttack, Server!Possible, Server!PossibleModel, Server!Confirmed, Server!At
  <2>2. \E result \in Server!Results, rules \in Nat, mfr \in Nat :
          Server!Becomes(g, Server!Answer(g, result, rules, mfr))
    <3>1. CASE Server!NoAttack(g) \/ Server!Possible(g)
      BY <3>1 DEF Server!NoAttack, Server!Possible, Server!Results
    <3>2. CASE Server!PossibleModel(g)
      <4>1. "Possible Attack" \in Server!Results /\ Server!Becomes(g, Server!Answer(g, "Possible Attack", 1, s))
        BY <3>2 DEF Server!PossibleModel, Server!Results
      <4> QED BY <1>1, <4>1
    <3>3. CASE Server!Confirmed(g, "counts*") \/ Server!Confirmed(g, "counts")
      BY <3>3 DEF Server!Confirmed, Server!Results
    <3> QED BY <1>14, <3>1, <3>2, <3>3
  <2> QED BY <1>4, <1>7, <2>1, <2>2
<1>15. CASE Server!Lock(g)
  <2>1. /\ v.pc = "lock" /\ Server!Becomes(g, Server!Go(g, "write")) /\ mutex' \in Server!G \cup {0}
        /\ UNCHANGED <<Server!queuevars, stream, responses>>
    BY <1>15 DEF Server!Lock, Server!At
  <2> DEFINE w == Server!Go(g, "write")
  <2>2. w \in WorkerRec /\ w.took = v.took /\ w.ptr = v.ptr /\ w.hdr = v.hdr /\ w.pc = "write"
    BY <1>9
  <2> HIDE DEF w
  <2> QED BY <1>4, <1>6, <2>1, <2>2 DEF w
<1>16. CASE Server!Write(g) /\ stream # "open"
  <2>1. /\ v.pc = "write" /\ Server!Becomes(g, Server!Go(g, "stopped")) /\ mutex' \in Server!G \cup {0}
        /\ UNCHANGED <<Server!queuevars, stream, responses>>
    BY <1>16 DEF Server!Write, Server!At, Server!Unlocked
  <2> DEFINE w == Server!Go(g, "stopped")
  <2>2. w \in WorkerRec /\ w.took = v.took /\ w.ptr = v.ptr /\ w.hdr = v.hdr /\ w.pc = "stopped"
    BY <1>9
  <2> HIDE DEF w
  <2> QED BY <1>4, <1>6, <2>1, <2>2 DEF w
<1> QED BY <1>10, <1>11, <1>12, <1>13, <1>14, <1>15, <1>16

\* A thread writes its answer to the stream.
LEMMA WriteStep ==
  ASSUME Server!ServerInv, Server!SomeGraph, NEW g \in Server!G, Server!Write(g), stream = "open"
  PROVE  Server!ServerInv'
<1> DEFINE v == worker[g]
           w == Server!Go(g, "pop")
           r == [g |-> g, took |-> worker[g].took, hdr |-> worker[g].hdr,
                 pkts |-> worker[g].pkts, resp |-> worker[g].resp]
<1>0. Server!Types /\ v \in WorkerRec /\ v.took \in Nat /\ responses \in Seq(ResponseRec)
  BY OrderTypes, TypesAre DEF Server!ServerInv
<1>1. /\ v.pc = "write" /\ worker' = [worker EXCEPT ![g] = w] /\ mutex' \in Server!G \cup {0}
      /\ responses' = Append(responses, r)
      /\ UNCHANGED <<swritten, cell, shead, stail, sreader, main, graphs, queue, owed, overrun, stream>>
  BY DEF Server!Write, Server!At, Server!Unlocked, Server!Becomes, Server!ringvars, Server!queuevars
<1>2. w \in WorkerRec /\ w.took = v.took /\ w.pc = "pop"
  BY <1>0 DEF WorkerRec, Server!Go
<1>3. r \in ResponseRec /\ r.g = g /\ r.took = v.took /\ r.hdr = v.hdr
  BY <1>0 DEF WorkerRec, ResponseRec
<1> HIDE DEF w, r
<1>4. /\ queue' \in [Server!G -> QueueRec] /\ owed' \in [Server!G -> Seq(Server!Pointer)]
      /\ responses' \in Seq(ResponseRec)
  BY <1>0, <1>1, <1>3, TypesAre
<1>5. v.pc \notin {"off", "stopped", "pop"} /\ sreader.pc \notin {"off", "started"}
  BY <1>1 DEF Server!ServerInv, Server!NothingTaken
<1>6. w.pc \notin Server!Reading /\ w.pc \notin Server!Busy /\ v.pc \in Server!Busy \ {"header"}
  BY <1>1, <1>2 DEF Server!Reading, Server!Busy
<1>7. /\ Server!Types' /\ Server!StartedInv' /\ Server!NothingTaken' /\ Server!UnreadInv'
      /\ Server!HeldInv' /\ HeldStays
      /\ worker'[g] = w /\ \A f \in Server!G : f # g => worker'[f] = worker[f]
  BY <1>1, <1>2, <1>4, <1>5, <1>6, WorkerCore
<1>8. \A f \in Server!G : f # g => Server!QueueInv(f)' /\ Server!OrderInv(f)'
  BY <1>1, <1>3, <1>7, OtherGraph
<1>9. Server!QueueInv(g) /\ Server!OrderInv(g)
  BY DEF Server!ServerInv
<1>10. Server!QueueInv(g)'
  BY <1>0, <1>1, <1>7, <1>9, QueueFrame
<1>11. /\ Len(responses) \in Nat /\ DOMAIN responses = 1 .. Len(responses)
       /\ DOMAIN responses' = 1 .. Len(responses) + 1 /\ responses'[Len(responses) + 1] = r
       /\ \A i \in 1 .. Len(responses) : responses'[i] = responses[i]
  BY <1>0, <1>1
<1>12. \A i \in 1 .. Len(responses) : responses[i].took \in Nat
  <2>1. \A i \in 1 .. Len(responses) : responses[i] \in ResponseRec
    BY <1>0, <1>11
  <2> QED BY <2>1 DEF ResponseRec
<1>13. Server!OrderInv(g)'
  <2>1. Server!HandedOn' = Server!HandedOn /\ worker'[g].took = v.took
    BY <1>1, <1>2, <1>7 DEF Server!HandedOn
  <2>2. Server!Answered(g) = v.took - 1
    BY <1>6 DEF Server!Answered
  <2>3. Server!Answered(g)' = v.took
    BY <1>2, <1>6, <1>7 DEF Server!Answered, Server!Busy, Server!Reading
  <2> SUFFICES ASSUME ~ overrun[g]
               PROVE  /\ \A i \in DOMAIN responses' : responses'[i].g = g => responses'[i].took <= v.took
                      /\ \A i, j \in DOMAIN responses' :
                           i < j /\ responses'[i].g = g /\ responses'[j].g = g
                             => responses'[i].took < responses'[j].took
    BY <1>1, <1>9, <2>1, <2>3 DEF Server!OrderInv
  <2>4. /\ \A i \in 1 .. Len(responses) : responses[i].g = g => responses[i].took <= v.took - 1
        /\ \A i, j \in 1 .. Len(responses) :
             i < j /\ responses[i].g = g /\ responses[j].g = g => responses[i].took < responses[j].took
    BY <1>9, <1>11, <2>2 DEF Server!OrderInv
  <2>5. ASSUME NEW i \in DOMAIN responses', responses'[i].g = g PROVE responses'[i].took <= v.took
    <3>1. CASE i = Len(responses) + 1
      BY <1>0, <1>3, <1>11, <3>1
    <3>2. CASE i # Len(responses) + 1
      <4>1. i \in 1 .. Len(responses)
        BY <1>11, <3>2
      <4>2. responses'[i] = responses[i] /\ responses[i].took \in Nat /\ responses[i].took <= v.took - 1
        BY <1>11, <1>12, <2>4, <2>5, <4>1
      <4> QED BY <1>0, <4>2
    <3> QED BY <3>1, <3>2
  <2>6. ASSUME NEW i \in DOMAIN responses', NEW j \in DOMAIN responses', i < j,
               responses'[i].g = g, responses'[j].g = g
        PROVE  responses'[i].took < responses'[j].took
    <3>1. i \in 1 .. Len(responses)
      BY <1>11, <2>6
    <3>2. responses'[i] = responses[i] /\ responses[i].took \in Nat /\ responses[i].took <= v.took - 1
      BY <1>11, <1>12, <2>4, <2>6, <3>1
    <3>3. CASE j = Len(responses) + 1
      <4>1. responses'[j].took = v.took
        BY <1>3, <1>11, <3>3
      <4> QED BY <1>0, <3>2, <4>1
    <3>4. CASE j # Len(responses) + 1
      <4>1. j \in 1 .. Len(responses)
        BY <1>11, <3>4
      <4> QED BY <1>11, <2>4, <2>6, <3>1, <4>1
    <3> QED BY <3>3, <3>4
  <2> QED BY <2>5, <2>6
<1>14. Server!HeaderInv'
  <2>1. Server!HeaderInv
    BY DEF Server!ServerInv
  <2> SUFFICES ASSUME swritten <= slot_count
               PROVE  /\ \A f \in Server!G : worker'[f].pc \in Server!Busy \ {"header"} => worker'[f].hdr = worker'[f].took
                      /\ \A i \in DOMAIN responses' : responses'[i].hdr = responses'[i].took
    BY <1>1 DEF Server!HeaderInv, Server!Busy, Server!Reading
  <2>2. /\ \A f \in Server!G : worker[f].pc \in Server!Busy \ {"header"} => worker[f].hdr = worker[f].took
        /\ \A i \in DOMAIN responses : responses[i].hdr = responses[i].took
    BY <2>1 DEF Server!HeaderInv
  <2>3. \A f \in Server!G : worker'[f].pc \in Server!Busy \ {"header"} => worker'[f].hdr = worker'[f].took
    BY <1>6, <1>7, <2>2
  <2>4. v.hdr = v.took
    BY <1>6, <2>2
  <2>5. ASSUME NEW i \in DOMAIN responses' PROVE responses'[i].hdr = responses'[i].took
    <3>1. CASE i = Len(responses) + 1
      BY <1>3, <1>11, <2>4, <3>1
    <3>2. CASE i # Len(responses) + 1
      <4>1. i \in 1 .. Len(responses)
        BY <1>11, <3>2
      <4> QED BY <1>11, <2>2, <4>1
    <3> QED BY <3>1, <3>2
  <2> QED BY <2>3, <2>5
<1> QED BY <1>7, <1>8, <1>10, <1>13, <1>14 DEF Server!ServerInv

\* A pointer goes from the head of the queue.
LEMMA PopQueue ==
  ASSUME Server!SomeGraph, Server!Types, HeldStays, NEW g \in Server!G, Server!QueueInv(g),
         queue[g].head # queue[g].tail, NEW u, u = Turn(QueueCap, queue[g].head),
         queue'[g] = [queue[g] EXCEPT !.head = u],
         owed'[g] = IF owed[g] = << >> THEN owed[g] ELSE Tail(owed[g]),
         overrun'[g] = overrun[g]
  PROVE  LET d == queue[g].data[queue[g].head] IN
         /\ Server!QueueInv(g)' /\ queue'[g] \in QueueRec /\ owed'[g] \in Seq(Server!Pointer)
         /\ d \in Server!Pointer /\ Server!Held(d[1], d[2])
         /\ ~ overrun[g] => owed[g] # << >> /\ owed[g][1] = d
<1> DEFINE q == queue[g]
           h == queue[g].head
           t == queue[g].tail
           m == Server!Dist(QueueCap, h, t)
<1>0. QueueCap \in Nat \ {0} /\ q \in QueueRec /\ owed[g] \in Seq(Server!Pointer)
  BY TypesAre, SomeG
<1>1. h \in 0 .. QueueCap - 1 /\ t \in 0 .. QueueCap - 1 /\ q.data \in [0 .. QueueCap - 1 -> Server!Pointer]
  BY <1>0 DEF QueueRec
<1>2. u \in 0 .. QueueCap - 1
  BY <1>0, <1>1, TurnMod
<1>3. queue'[g] \in QueueRec /\ queue'[g].head = u /\ queue'[g].tail = t /\ queue'[g].data = q.data
  BY <1>0, <1>2 DEF QueueRec
<1>4. /\ m \in Nat \ {0} /\ Server!Cell(h, 1) = h /\ Server!Dist(QueueCap, u, t) = m - 1
      /\ \A i \in 1 .. m : Server!Cell(h, i) \in 0 .. QueueCap - 1
      /\ \A i \in 1 .. m - 1 : Server!Cell(u, i) = Server!Cell(h, i + 1)
  <2>1. CellFacts(h, t)
    BY <1>0, <1>1, CellArith
  <2> HIDE DEF h, t
  <2> QED BY <1>0, <2>1 DEF CellFacts, h, t
<1>5. Server!Waiting(g) = m /\ Server!Waiting(g)' = m - 1
  BY <1>3, <1>4 DEF Server!Waiting, Server!Dist
<1>6. /\ \A i \in 1 .. m : Server!Held(q.data[Server!Cell(h, i)][1], q.data[Server!Cell(h, i)][2])
      /\ ~ overrun[g] => /\ Len(owed[g]) = m
                         /\ \A i \in 1 .. m : owed[g][i] = q.data[Server!Cell(h, i)]
  BY <1>5 DEF Server!QueueInv
<1> HIDE DEF m
<1>7. q.data[h] \in Server!Pointer /\ Server!Held(q.data[h][1], q.data[h][2])
  <2>1. 1 \in 1 .. m
    BY <1>4
  <2> QED BY <1>1, <1>4, <1>6, <2>1
<1>8. owed'[g] \in Seq(Server!Pointer)
  BY <1>0
<1>9. ~ overrun[g] =>
        /\ owed[g] # << >> /\ owed[g][1] = q.data[h]
        /\ Len(owed'[g]) = m - 1 /\ \A i \in 1 .. m - 1 : owed'[g][i] = owed[g][i + 1]
  <2> SUFFICES ASSUME ~ overrun[g]
               PROVE  /\ owed[g] # << >> /\ owed[g][1] = q.data[h]
                      /\ Len(owed'[g]) = m - 1 /\ \A i \in 1 .. m - 1 : owed'[g][i] = owed[g][i + 1]
    OBVIOUS
  <2>1. Len(owed[g]) = m /\ 1 \in 1 .. m /\ owed[g][1] = q.data[Server!Cell(h, 1)]
    BY <1>4, <1>6
  <2>2. owed[g] # << >>
    BY <1>0, <1>4, <2>1
  <2>3. owed'[g] = Tail(owed[g])
    BY <2>2
  <2>4. Len(owed'[g]) = m - 1 /\ \A i \in 1 .. m - 1 : owed'[g][i] = owed[g][i + 1]
    BY <1>0, <1>4, <2>1, <2>2, <2>3
  <2> QED BY <1>4, <2>1, <2>2, <2>4
<1> HIDE DEF q, h, t
<1>10. ASSUME NEW i \in 1 .. m - 1
       PROVE  /\ HeldNext(queue'[g].data[Server!Cell(u, i)][1], queue'[g].data[Server!Cell(u, i)][2])
              /\ ~ overrun[g] => owed'[g][i] = queue'[g].data[Server!Cell(u, i)]
  <2>1. i + 1 \in 1 .. m /\ i \in 1 .. m - 1
    BY <1>4
  <2>2. queue'[g].data[Server!Cell(u, i)] = q.data[Server!Cell(h, i + 1)]
    BY <1>3, <1>4
  <2>3. q.data[Server!Cell(h, i + 1)] \in Server!Pointer
    BY <1>1, <1>4, <2>1
  <2>4. HeldNext(q.data[Server!Cell(h, i + 1)][1], q.data[Server!Cell(h, i + 1)][2])
    BY <1>6, <2>1, <2>3, HeldIsNext
  <2>5. ~ overrun[g] => owed'[g][i] = q.data[Server!Cell(h, i + 1)]
    BY <1>6, <1>9, <2>1
  <2> QED BY <2>2, <2>4, <2>5
<1>11. Server!QueueInv(g)'
  BY <1>3, <1>5, <1>9, <1>10, QueueNext
<1> QED BY <1>3, <1>7, <1>8, <1>9, <1>11 DEF q, h

\* A thread takes the next pointer of its queue.
LEMMA PopStep ==
  ASSUME Server!ServerInv, Server!SomeGraph, NEW g \in Server!G, Server!Pop(g)
  PROVE  Server!ServerInv'
<1>0. /\ Server!Types /\ worker[g] \in WorkerRec /\ worker[g].took \in Nat
      /\ queue \in [Server!G -> QueueRec] /\ owed \in [Server!G -> Seq(Server!Pointer)]
      /\ responses \in Seq(ResponseRec) /\ mutex \in Server!G \cup {0}
  BY OrderTypes, TypesAre DEF Server!ServerInv
<1>1. PICK d : d = queue[g].data[queue[g].head]
  OBVIOUS
<1> DEFINE v == worker[g]
           w == [Server!Go(g, "header") EXCEPT !.ptr = d[1], !.took = d[2], !.hdr = 0, !.pkts = 0]
           u == Turn(QueueCap, queue[g].head)
<1>2. /\ v.pc = "pop" /\ queue[g].head # queue[g].tail /\ worker' = [worker EXCEPT ![g] = w]
      /\ queue' = [queue EXCEPT ![g].head = u]
      /\ owed' = [owed EXCEPT ![g] = IF owed[g] = << >> THEN owed[g] ELSE Tail(owed[g])]
      /\ UNCHANGED <<swritten, cell, shead, stail, sreader, main, graphs, overrun, mutex, stream, responses>>
  <2>1. (queue[g].head + 1) % QueueCap = u
    <3>1. queue[g].head \in 0 .. QueueCap - 1
      BY <1>0 DEF QueueRec
    <3> QED BY <3>1, SomeG, TurnMod
  <2> QED BY <1>1, <2>1 DEF Server!Pop, Server!At, Server!pop, Server!Becomes, Server!ringvars, Server!outvars
<1>3. /\ queue'[g] = [queue[g] EXCEPT !.head = u]
      /\ owed'[g] = IF owed[g] = << >> THEN owed[g] ELSE Tail(owed[g])
      /\ \A f \in Server!G : f # g => UNCHANGED <<queue[f], owed[f]>>
  BY <1>0, <1>2
<1>4. HeldStays /\ Server!QueueInv(g) /\ Server!OrderInv(g)
  BY <1>2, HeldSame DEF Server!ServerInv
<1>5. /\ Server!QueueInv(g)' /\ queue'[g] \in QueueRec /\ owed'[g] \in Seq(Server!Pointer)
      /\ d \in Server!Pointer /\ Server!Held(d[1], d[2])
      /\ ~ overrun[g] => owed[g] # << >> /\ owed[g][1] = d
  <2>1. overrun'[g] = overrun[g]
    BY <1>2
  <2> HIDE DEF u
  <2>2. u = Turn(QueueCap, queue[g].head)
    BY DEF u
  <2> QED BY <1>0, <1>1, <1>2, <1>3, <1>4, <2>1, <2>2, PopQueue
<1>6. d[1] \in 0 .. slot_count - 1 /\ d[2] \in Nat
  BY <1>5 DEF Server!Pointer
<1>7. w \in WorkerRec /\ w.pc = "header" /\ w.ptr = d[1] /\ w.took = d[2]
  BY <1>0, <1>6 DEF WorkerRec, Server!Go, Server!Busy, Server!Reading
<1> HIDE DEF w, u
<1>8. queue' \in [Server!G -> QueueRec] /\ owed' \in [Server!G -> Seq(Server!Pointer)]
  <2>1. queue' \in [Server!G -> QueueRec]
    BY <1>0, <1>2, <1>3, <1>5
  <2>2. owed' \in [Server!G -> Seq(Server!Pointer)]
    BY <1>0, <1>2, <1>3, <1>5
  <2> QED BY <2>1, <2>2
<1>9. v.pc \notin {"off", "stopped"} /\ sreader.pc \notin {"off", "started"}
  BY <1>2 DEF Server!ServerInv, Server!NothingTaken
<1>10. responses' \in Seq(ResponseRec) /\ mutex' \in Server!G \cup {0} /\ Server!Held(w.ptr, w.took)
  BY <1>0, <1>2, <1>5, <1>7
<1>11. /\ Server!Types' /\ Server!StartedInv' /\ Server!NothingTaken' /\ Server!UnreadInv'
       /\ Server!HeldInv' /\ HeldStays
       /\ worker'[g] = w /\ \A f \in Server!G : f # g => worker'[f] = worker[f]
  BY <1>2, <1>7, <1>8, <1>9, <1>10, WorkerCore
<1>12. \A f \in Server!G : f # g => Server!QueueInv(f)' /\ Server!OrderInv(f)'
  BY <1>2, <1>3, <1>11, OtherGraph
<1>13. Server!HeaderInv'
  <2>1. Server!HeaderInv
    BY DEF Server!ServerInv
  <2> QED BY <1>2, <1>7, <1>11, <2>1 DEF Server!HeaderInv
<1>14. Server!OrderInv(g)'
  <2> DEFINE o == owed[g]
             k == d[2]
             a == Server!Answered(g)
             x == Server!HandedOn
  <2>1. Server!HandedOn' = x /\ worker'[g].took = k
    BY <1>2, <1>7, <1>11 DEF Server!HandedOn
  <2>2. a = v.took
    BY <1>2 DEF Server!Answered, Server!Busy, Server!Reading
  <2>3. Server!Answered(g)' = k - 1
    BY <1>7, <1>11 DEF Server!Answered, Server!Busy, Server!Reading
  <2>4. o \in Seq(Server!Pointer) /\ Len(o) \in Nat /\ DOMAIN o = 1 .. Len(o)
    BY <1>0
  <2>5. \A i \in DOMAIN responses : responses[i].took \in Nat
    <3>1. \A i \in DOMAIN responses : responses[i] \in ResponseRec
      BY <1>0
    <3> QED BY <3>1 DEF ResponseRec
  <2> SUFFICES ASSUME ~ overrun[g]
               PROVE  /\ k <= x
                      /\ \A i \in DOMAIN owed'[g] : k < owed'[g][i][2] /\ owed'[g][i][2] <= x
                      /\ \A i, j \in DOMAIN owed'[g] : i < j => owed'[g][i][2] < owed'[g][j][2]
                      /\ \A i \in DOMAIN responses : responses[i].g = g => responses[i].took <= k - 1
                      /\ \A i, j \in DOMAIN responses :
                           i < j /\ responses[i].g = g /\ responses[j].g = g
                             => responses[i].took < responses[j].took
    BY <1>2, <2>1, <2>3 DEF Server!OrderInv
  <2>6. /\ \A i \in 1 .. Len(o) : v.took < o[i][2] /\ o[i][2] <= x
        /\ \A i, j \in 1 .. Len(o) : i < j => o[i][2] < o[j][2]
        /\ \A i \in DOMAIN responses : responses[i].g = g => responses[i].took <= v.took
        /\ \A i, j \in DOMAIN responses :
             i < j /\ responses[i].g = g /\ responses[j].g = g => responses[i].took < responses[j].took
    BY <1>4, <2>2, <2>4 DEF Server!OrderInv
  <2>7. o # << >> /\ o[1] = d /\ owed'[g] = Tail(o) /\ 1 \in 1 .. Len(o)
    BY <1>3, <1>5, <2>4
  <2>8. DOMAIN owed'[g] = 1 .. Len(o) - 1 /\ \A i \in 1 .. Len(o) - 1 : owed'[g][i] = o[i + 1]
    BY <2>4, <2>7
  <2>9. \A i \in 1 .. Len(o) - 1 : i + 1 \in 1 .. Len(o) /\ 1 < i + 1 /\ i \in Int
    BY <2>4
  <2>10. o[1][2] = k /\ v.took < k /\ k <= x
    BY <2>6, <2>7
  <2>11. \A i \in DOMAIN owed'[g] : k < owed'[g][i][2] /\ owed'[g][i][2] <= x
    BY <2>6, <2>7, <2>8, <2>9, <2>10
  <2>12. ASSUME NEW i \in DOMAIN owed'[g], NEW j \in DOMAIN owed'[g], i < j
         PROVE  owed'[g][i][2] < owed'[g][j][2]
    <3>1. i + 1 \in 1 .. Len(o) /\ j + 1 \in 1 .. Len(o) /\ i + 1 < j + 1
      BY <2>4, <2>8, <2>9, <2>12
    <3> QED BY <2>6, <2>8, <3>1
  <2>13. \A i \in DOMAIN responses : responses[i].g = g => responses[i].took <= k - 1
    <3>1. v.took <= k - 1 /\ v.took \in Nat /\ k \in Nat
      BY <1>0, <1>6, <2>10
    <3> HIDE DEF k
    <3> QED BY <2>5, <2>6, <3>1
  <2> QED BY <2>6, <2>10, <2>11, <2>12, <2>13
<1> QED BY <1>5, <1>11, <1>12, <1>13, <1>14 DEF Server!ServerInv

\* The steps of CalculateGraph do not touch the pointers.
LEMMA MainFrame ==
  ASSUME Server!ServerInv, Server!SomeGraph,
         UNCHANGED <<swritten, cell, shead, stail, queue, owed, overrun, mutex, stream, responses>>,
         worker' \in [Server!G -> WorkerRec], sreader' \in ReaderRec,
         main' \in {"start", "reader", "join", "cancel", "joinrb", "exit"}, graphs' \subseteq Server!G,
         Server!StartedInv',
         sreader'.took = sreader.took, sreader.pc = "push" <=> sreader'.pc = "push",
         sreader'.pc \in {"run", "push", "ended"} => sreader' = sreader,
         sreader'.pc \in {"off", "started"} => sreader.pc \in {"off", "started"},
         \A g \in Server!G : \/ worker'[g] = worker[g]
                             \/ /\ worker[g].pc = "off" /\ worker'[g] = [worker[g] EXCEPT !.pc = "pop"]
  PROVE  Server!ServerInv'
<1>0. Server!Types /\ sreader \in ReaderRec /\ sreader.took \in Nat
  <2>1. Server!Types /\ sreader \in ReaderRec
    BY TypesAre DEF Server!ServerInv
  <2> QED BY <2>1 DEF ReaderRec
<1>1. \A g \in Server!G : /\ worker'[g].took = worker[g].took
                          /\ \/ worker'[g] = worker[g]
                             \/ worker[g].pc = "off" /\ worker'[g].pc = "pop"
  <2> SUFFICES ASSUME NEW g \in Server!G
               PROVE  /\ worker'[g].took = worker[g].took
                      /\ \/ worker'[g] = worker[g]
                         \/ worker[g].pc = "off" /\ worker'[g].pc = "pop"
    OBVIOUS
  <2>1. worker[g] \in WorkerRec
    BY <1>0, TypesAre
  <2> QED BY <2>1 DEF WorkerRec
<1>2. HeldStays
  BY HeldSame
<1>3. Server!Types'
  BY <1>0 DEF Server!Types, ReaderRec, WorkerRec
<1>4. Server!HandedOn' = Server!HandedOn /\ Server!HandedOn \in Int
  BY <1>0 DEF Server!HandedOn
<1>5. ASSUME NEW g \in Server!G PROVE Server!QueueInv(g)' /\ Server!OrderInv(g)'
  <2>1. Server!QueueInv(g) /\ Server!OrderInv(g) /\ Server!Answered(g) \in Int
    BY <1>0, OrderTypes DEF Server!ServerInv
  <2>2. Server!QueueInv(g)'
    BY <1>0, <1>2, <2>1, QueueFrame
  <2>3. Server!Answered(g)' = Server!Answered(g)
    BY <1>1 DEF Server!Answered, Server!Busy, Server!Reading
  <2> QED BY <1>0, <1>1, <1>4, <2>1, <2>2, <2>3, OrderFrame
<1>6. Server!UnreadInv'
  <2>1. /\ Server!Dist(slot_count, shead, stail)' = Server!Dist(slot_count, shead, stail)
        /\ \A k \in 0 .. slot_count - 1 : Server!Age(stail, k)' = Server!Age(stail, k)
    BY DEF Server!Dist, Server!Age
  <2>2. Server!UnreadInv
    BY DEF Server!ServerInv
  <2> QED BY <2>1, <2>2 DEF Server!UnreadInv
<1>7. Server!HeldInv'
  <2>1. sreader'.pc = "push" => Server!Held(sreader.ptr, sreader.took)'
    <3>1. sreader'.pc = "push" => sreader' = sreader
      OBVIOUS
    <3> QED BY <3>1 DEF Server!ServerInv, Server!HeldInv, Server!Held, Server!Age
  <2>2. ASSUME NEW f \in Server!G, worker'[f].pc \in Server!Reading
        PROVE  Server!Held(worker[f].ptr, worker[f].took)'
    <3>1. worker'[f] = worker[f]
      BY <1>1, <2>2 DEF Server!Reading
    <3> QED BY <2>2, <3>1 DEF Server!ServerInv, Server!HeldInv, Server!Held, Server!Age
  <2> QED BY <2>1, <2>2 DEF Server!HeldInv, Server!Reading
<1>8. Server!NothingTaken'
  <2>1. Server!NothingTaken
    BY DEF Server!ServerInv
  <2> QED BY <1>1, <2>1 DEF Server!NothingTaken
<1>9. Server!HeaderInv'
  <2>1. Server!HeaderInv
    BY DEF Server!ServerInv
  <2> QED BY <1>1, <2>1 DEF Server!HeaderInv, Server!Busy, Server!Reading
<1> QED BY <1>3, <1>5, <1>6, <1>7, <1>8, <1>9 DEF Server!ServerInv

\* CalculateGraph starts the threads one by one, then the sreader; it deletes
\* the graphs once the threads have stopped, and ends when the sreader has.
LEMMA MainStep ==
  ASSUME Server!ServerInv, Server!SomeGraph, Server!CalculateGraph
  PROVE  Server!ServerInv'
<1>0. /\ Server!Types /\ sreader \in ReaderRec /\ worker \in [Server!G -> WorkerRec]
      /\ graphs \subseteq Server!G /\ Server!StartedInv
      /\ main \in {"start", "reader", "join", "cancel", "joinrb", "exit"}
  BY TypesAre DEF Server!ServerInv
<1> USE DEF Server!ringvars, Server!queuevars, Server!outvars
<1>1. CASE Server!start_graph
  <2>1. PICK k \in 0 .. Server!graph_cnt - 1 : graphs = 1 .. k
    BY <1>0, <1>1 DEF Server!start_graph, Server!StartedInv
  <2>2. Server!graph_cnt \in Nat /\ Server!G = 1 .. Server!graph_cnt /\ k \in Nat
    BY SomeG
  <2>3. PICK g \in Server!G : /\ graphs = 1 .. g - 1 /\ graphs' = graphs \cup {g}
                              /\ worker' = [worker EXCEPT ![g].pc = "pop"]
                              /\ main' = IF g = Server!graph_cnt THEN "reader" ELSE "start"
    BY <1>1 DEF Server!start_graph
  <2>4. g = k + 1
    <3>1. g - 1 \in 0 .. Server!graph_cnt - 1 /\ 1 .. g - 1 = 1 .. k /\ g \in Int
      BY <2>1, <2>2, <2>3
    <3>2. (g - 1 > k => g - 1 \in 1 .. g - 1) /\ (k > g - 1 => k \in 1 .. k)
      BY <2>2, <3>1
    <3> QED BY <2>2, <3>1, <3>2
  <2>5. /\ main = "start" /\ graphs' = graphs \cup {k + 1} /\ worker' = [worker EXCEPT ![k + 1].pc = "pop"]
        /\ main' = IF k + 1 = Server!graph_cnt THEN "reader" ELSE "start"
        /\ UNCHANGED <<swritten, cell, shead, stail, sreader, queue, owed, overrun, mutex, stream, responses>>
    BY <1>1, <2>3, <2>4 DEF Server!start_graph
  <2>6. k + 1 \in Server!G /\ graphs' = 1 .. k + 1 /\ k + 1 \notin graphs /\ graphs' \subseteq Server!G
    BY <2>1, <2>2, <2>5
  <2>7. worker[k + 1].pc \in {"off", "stopped"}
    BY <1>0, <2>6 DEF Server!StartedInv, Server!GraphOutlivesThread
  <2>8. sreader.pc = "off" /\ worker[k + 1].pc \in {"off", "pop"}
    BY <1>0, <2>5, <2>6 DEF Server!StartedInv, Server!ServerInv, Server!NothingTaken
  <2>9. /\ worker' \in [Server!G -> WorkerRec] /\ worker'[k + 1] = [worker[k + 1] EXCEPT !.pc = "pop"]
        /\ \A h \in Server!G : h # k + 1 => worker'[h] = worker[h]
    <3>1. [worker[k + 1] EXCEPT !.pc = "pop"] \in WorkerRec
      <4>1. worker[k + 1] \in WorkerRec
        BY <1>0, <2>6
      <4> QED BY <4>1 DEF WorkerRec
    <3>2. worker' = [worker EXCEPT ![k + 1] = [worker[k + 1] EXCEPT !.pc = "pop"]]
      BY <2>5
    <3> HIDE DEF WorkerRec
    <3> QED BY <1>0, <2>6, <3>1, <3>2
  <2>10. Server!StartedInv'
    <3>1. main' \in {"start", "reader"} /\ sreader'.pc = "off"
      BY <2>5, <2>8
    <3>2. main' = "start" => \E j \in 0 .. Server!graph_cnt - 1 : graphs' = 1 .. j
      BY <2>2, <2>5, <2>6
    <3>3. main' = "reader" => graphs' = Server!G
      BY <2>2, <2>5, <2>6
    <3>4. Server!GraphOutlivesThread'
      BY <1>0, <2>5, <2>6, <2>9 DEF Server!StartedInv, Server!GraphOutlivesThread
    <3> QED BY <3>1, <3>2, <3>3, <3>4 DEF Server!StartedInv
  <2>11. main' \in {"start", "reader", "join", "cancel", "joinrb", "exit"} /\ sreader' \in ReaderRec
    BY <1>0, <2>5
  <2> QED BY <2>5, <2>6, <2>7, <2>8, <2>9, <2>10, <2>11, MainFrame
<1>2. CASE Server!StartReader
  <2>1. /\ main = "reader" /\ main' = "join" /\ sreader' = [sreader EXCEPT !.pc = "started"]
        /\ UNCHANGED <<swritten, cell, shead, stail, queue, owed, overrun, worker, mutex, stream, responses, graphs>>
    BY <1>2 DEF Server!StartReader
  <2>2. sreader' \in ReaderRec /\ sreader'.pc = "started" /\ sreader'.took = sreader.took
    BY <1>0, <2>1 DEF ReaderRec
  <2>3. sreader.pc = "off" /\ graphs = Server!G
    BY <1>0, <2>1 DEF Server!StartedInv
  <2>4. Server!StartedInv'
    BY <1>0, <2>1, <2>3 DEF Server!StartedInv, Server!GraphOutlivesThread
  <2> QED BY <1>0, <2>1, <2>2, <2>3, <2>4, MainFrame
<1>3. CASE Server!JoinAndDelete
  <2>1. /\ main = "join" /\ main' = "cancel" /\ graphs' = {} /\ Server!AllStopped
        /\ UNCHANGED <<swritten, cell, shead, stail, sreader, queue, owed, overrun, worker, mutex, stream, responses>>
    BY <1>3 DEF Server!JoinAndDelete
  <2>2. Server!StartedInv'
    BY <1>0, <2>1 DEF Server!StartedInv, Server!GraphOutlivesThread, Server!AllStopped
  <2> QED BY <1>0, <2>1, <2>2, MainFrame
<1>4. CASE Server!Cancel \/ Server!JoinReader
  <2>1. /\ main \in {"cancel", "joinrb"} /\ main' \in {"joinrb", "exit"}
        /\ UNCHANGED <<swritten, cell, shead, stail, sreader, queue, owed, overrun, worker, mutex, stream, responses, graphs>>
    BY <1>4 DEF Server!Cancel, Server!JoinReader
  <2>2. Server!StartedInv'
    BY <1>0, <2>1 DEF Server!StartedInv, Server!GraphOutlivesThread, Server!AllStopped
  <2> QED BY <1>0, <2>1, <2>2, MainFrame
<1> QED BY <1>1, <1>2, <1>3, <1>4 DEF Server!CalculateGraph

LEMMA ServerInit ==
  ASSUME Server!SomeGraph, Server!Init
  PROVE  Server!ServerInv
<1>0. /\ Server!graph_cnt \in Nat \ {0} /\ Server!G = 1 .. Server!graph_cnt
      /\ slot_count \in Nat \ {0} /\ QueueCap \in Nat \ {0}
  BY SomeG
<1>1. 0 \in 0 .. slot_count - 1 /\ 0 \in 0 .. QueueCap - 1 /\ 1 \in Server!G
  BY <1>0
<1>2. sreader \in ReaderRec /\ sreader.pc = "off" /\ sreader.took = 0
  BY <1>1 DEF Server!Init, ReaderRec
<1>3. Server!Empty \in QueueRec /\ Server!Empty.head = 0 /\ Server!Empty.tail = 0
  <2>1. <<0, 0>> \in Server!Pointer
    BY <1>1 DEF Server!Pointer
  <2>2. [i \in 0 .. QueueCap - 1 |-> <<0, 0>>] \in [0 .. QueueCap - 1 -> Server!Pointer]
    BY <2>1
  <2> QED BY <1>1, <2>2 DEF Server!Empty, QueueRec
<1>4. /\ queue \in [Server!G -> QueueRec] /\ \A g \in Server!G : queue[g].head = 0 /\ queue[g].tail = 0
  BY <1>3 DEF Server!Init
<1>5. /\ owed \in [Server!G -> Seq(Server!Pointer)] /\ overrun \in [Server!G -> BOOLEAN]
      /\ \A g \in Server!G : owed[g] = << >>
  BY DEF Server!Init
<1>6. /\ worker \in [Server!G -> WorkerRec]
      /\ \A g \in Server!G : worker[g].pc = "off" /\ worker[g].took = 0
  <2> DEFINE w == [pc |-> "off", ptr |-> 0, took |-> 0, hdr |-> 0, pkts |-> 0, resp |-> Server!NoResponse]
  <2>1. w \in WorkerRec /\ w.pc = "off" /\ w.took = 0
    BY <1>1 DEF WorkerRec, Server!NoResponse, Server!Results
  <2>2. worker = [g \in Server!G |-> w]
    BY DEF Server!Init
  <2> HIDE DEF w
  <2> QED BY <2>1, <2>2
<1>7. /\ swritten = 0 /\ shead = 0 /\ stail = 0 /\ mutex = 0 /\ stream = "open" /\ responses = << >>
      /\ main = "start" /\ graphs = {} /\ cell = [i \in 0 .. slot_count - 1 |-> 0]
  BY DEF Server!Init
<1>8. Server!Types
  <2>1. cell \in [0 .. slot_count - 1 -> Nat] /\ responses \in Seq(ResponseRec) /\ swritten \in Nat
    BY <1>7
  <2> QED BY <1>1, <1>2, <1>4, <1>5, <1>6, <1>7, <2>1, TypesAre
<1>9. Server!StartedInv
  <2>1. 0 \in 0 .. Server!graph_cnt - 1 /\ graphs = 1 .. 0
    BY <1>0, <1>7
  <2> QED BY <1>2, <1>6, <1>7, <2>1 DEF Server!StartedInv, Server!GraphOutlivesThread
<1>10. Server!NothingTaken /\ Server!UnreadInv
  BY <1>2, <1>4, <1>5, <1>6 DEF Server!NothingTaken, Server!UnreadInv
<1>11. Server!HeldInv /\ Server!HeaderInv
  BY <1>2, <1>6, <1>7 DEF Server!HeldInv, Server!HeaderInv, Server!Reading, Server!Busy
<1>12. ASSUME NEW g \in Server!G PROVE Server!QueueInv(g) /\ Server!OrderInv(g)
  <2>1. Server!Waiting(g) = 0 /\ Len(owed[g]) = 0 /\ DOMAIN owed[g] = {} /\ DOMAIN responses = {}
    BY <1>0, <1>4, <1>5, <1>7 DEF Server!Waiting, Server!Dist
  <2>2. Server!QueueInv(g)
    BY <2>1 DEF Server!QueueInv
  <2>3. worker[g].took <= Server!HandedOn
    BY <1>2, <1>6 DEF Server!HandedOn
  <2> QED BY <2>1, <2>2, <2>3 DEF Server!OrderInv
<1> QED BY <1>8, <1>9, <1>10, <1>11, <1>12 DEF Server!ServerInv

LEMMA ServerStep ==
  ASSUME Server!SomeGraph, Server!ServerInv, [Server!Next]_Server!vars
  PROVE  Server!ServerInv'
<1>1. ASSUME NEW g \in Server!G, Server!calc_graph(g) \/ Server!calc_graph_A100(g)
      PROVE  Server!ServerInv'
  <2>1. CASE Server!Pop(g)
    BY <2>1, PopStep
  <2>2. CASE Server!Write(g)
    BY <2>2, WriteStep, CalcSteps
  <2>3. CASE \/ Server!ParseHeader(g) \/ Server!NoAnomaly(g) \/ Server!Anomaly(g) \/ Server!ParsePackets(g)
             \/ Server!NoAttack(g) \/ Server!Possible(g) \/ Server!PossibleModel(g)
             \/ Server!Confirmed(g, "counts*") \/ Server!Confirmed(g, "counts") \/ Server!Lock(g)
    BY <2>3, CalcSteps
  <2> QED BY <1>1, <2>1, <2>2, <2>3 DEF Server!calc_graph, Server!calc_graph_A100, Server!Common
<1>2. CASE Server!read_rb
  BY <1>2, StartReadingStep, ReadSlotStep, PushStep, EndStep DEF Server!read_rb
<1>3. CASE UNCHANGED Server!vars
  <2>1. /\ UNCHANGED <<swritten, cell, shead, stail, sreader, queue, owed, overrun>>
        /\ UNCHANGED <<worker, mutex, stream, responses, main, graphs>>
    BY <1>3 DEF Server!vars, Server!ringvars, Server!queuevars, Server!outvars
  <2>2. Server!StartedInv'
    BY <2>1 DEF Server!ServerInv, Server!StartedInv, Server!GraphOutlivesThread, Server!AllStopped
  <2>3. /\ worker' \in [Server!G -> WorkerRec] /\ sreader' \in ReaderRec /\ graphs' \subseteq Server!G
        /\ main' \in {"start", "reader", "join", "cancel", "joinrb", "exit"}
    BY <2>1, TypesAre DEF Server!ServerInv
  <2> QED BY <2>1, <2>2, <2>3, MainFrame
<1>4. Server!read_rb_A100 => Server!read_rb
  BY DEF Server!read_rb_A100, Server!read_rb
<1>5. Server!CalculateGraph_A100 => Server!CalculateGraph
  BY DEF Server!CalculateGraph_A100, Server!CalculateGraph
<1> QED BY <1>1, <1>2, <1>3, <1>4, <1>5, SccmStep, EndStep, MainStep DEF Server!Next

\* What a queue holds, as DniServer computes it from its head and tail.
LEMMA InQueueIs ==
  ASSUME Server!SomeGraph, Server!ServerInv, NEW g \in Server!G, ~ overrun[g]
  PROVE  Server!InQueue(g) = owed[g]
<1> DEFINE q == queue[g]
           m == Server!Waiting(g)
<1>0. /\ QueueCap \in Nat \ {0} /\ q \in QueueRec /\ owed[g] \in Seq(Server!Pointer) /\ Server!QueueInv(g)
  BY TypesAre, SomeG DEF Server!ServerInv
<1>1. q.head \in 0 .. QueueCap - 1 /\ q.tail \in 0 .. QueueCap - 1
  BY <1>0 DEF QueueRec
<1>2. (q.tail - q.head + QueueCap) % QueueCap = m /\ m \in 0 .. QueueCap - 1
  <2>1. CASE q.head <= q.tail
    <3>1. m = q.tail - q.head /\ m \in 0 .. QueueCap - 1
      BY <1>0, <1>1, <2>1 DEF Server!Waiting, Server!Dist
    <3>2. q.tail - q.head + QueueCap = m + QueueCap
      BY <3>1
    <3>3. (m + QueueCap) % QueueCap = m
      <4>1. PICK k \in 0 .. QueueCap - 1 : k = m
        BY <3>1
      <4>2. (k + QueueCap) % QueueCap = k
        BY ONLY <1>0
      <4> QED BY <4>1, <4>2
    <3> QED BY <3>1, <3>2, <3>3
  <2>2. CASE ~ (q.head <= q.tail)
    <3>1. m = q.tail - q.head + QueueCap /\ m \in 0 .. QueueCap - 1
      BY <1>0, <1>1, <2>2 DEF Server!Waiting, Server!Dist
    <3>2. m % QueueCap = m
      BY <1>0, <3>1, ModSmall
    <3> QED BY <3>1, <3>2
  <2> QED BY <2>1, <2>2
<1>3. ASSUME NEW i \in 1 .. m PROVE (q.head + i - 1) % QueueCap = Server!Cell(q.head, i)
  <2>1. i \in Int /\ 1 <= i /\ i <= QueueCap - 1
    <3> HIDE DEF m
    <3> QED BY <1>0, <1>2
  <2>2. PICK k \in Int : k = q.head + i - 1
    BY <1>1, <2>1
  <2>3. k >= 0 /\ k < QueueCap + QueueCap
    BY <1>0, <1>1, <2>1, <2>2
  <2>4. k < QueueCap => k % QueueCap = k
    BY <1>0, <2>3
  <2>5. k >= QueueCap => k % QueueCap = k - QueueCap
    BY <1>0, <2>3
  <2> QED BY <1>0, <1>1, <2>2, <2>4, <2>5 DEF Server!Cell
<1>4. Len(owed[g]) = m /\ \A i \in 1 .. m : owed[g][i] = q.data[Server!Cell(q.head, i)]
  BY <1>0 DEF Server!QueueInv
<1>5. Server!InQueue(g) = [i \in 1 .. m |-> q.data[(q.head + i - 1) % QueueCap]]
  BY <1>2 DEF Server!InQueue
<1>6. owed[g] = [i \in 1 .. m |-> owed[g][i]]
  BY <1>0, <1>4
<1> HIDE DEF m
<1> QED BY <1>3, <1>4, <1>5, <1>6

\* What the invariant says of the properties.
LEMMA ServerSays ==
  ASSUME Server!SomeGraph, Server!ServerInv
  PROVE  Server!SlotsInOrder /\ Server!UsedIsValid
<1>0. Server!Types /\ responses \in Seq(ResponseRec) /\ queue \in [Server!G -> QueueRec]
  BY TypesAre DEF Server!ServerInv
<1>1. Server!TypeOK
  <2>1. \A g \in Server!G : queue[g].head \in 0 .. QueueCap - 1 /\ queue[g].tail \in 0 .. QueueCap - 1
    BY <1>0 DEF QueueRec
  <2> QED BY <1>0, <2>1, TypesAre DEF Server!TypeOK
<1>2. Server!QueueKeepsAll
  BY InQueueIs DEF Server!QueueKeepsAll
<1>3. Server!AnswersInOrder
  <2> SUFFICES ASSUME NEW i \in DOMAIN responses, NEW j \in DOMAIN responses, i < j,
                      responses[i].g = responses[j].g, ~ overrun[responses[i].g], swritten <= slot_count
               PROVE  responses[i].hdr < responses[j].hdr
    BY DEF Server!AnswersInOrder
  <2>1. PICK g \in Server!G : g = responses[i].g
    <3>1. responses[i] \in ResponseRec
      BY <1>0
    <3> QED BY <3>1 DEF ResponseRec
  <2>2. responses[i].took < responses[j].took
    BY <2>1 DEF Server!ServerInv, Server!OrderInv
  <2>3. responses[i].hdr = responses[i].took /\ responses[j].hdr = responses[j].took
    BY DEF Server!ServerInv, Server!HeaderInv
  <2> QED BY <2>2, <2>3
<1>4. Server!ValidForOneLap
  <2> SUFFICES ASSUME NEW g \in Server!G, worker[g].pc \in {"header", "g1", "packets", "g2"}
               PROVE  Server!Slot(g) = worker[g].took \/ swritten >= worker[g].took + slot_count
    BY DEF Server!ValidForOneLap
  <2>1. Server!Held(worker[g].ptr, worker[g].took)
    BY DEF Server!ServerInv, Server!HeldInv, Server!Reading
  <2>2. worker[g].took \in Nat /\ swritten \in Nat /\ slot_count \in Nat
    BY <1>0, OrderTypes, TypesAre, SomeG
  <2> QED BY <2>1, <2>2 DEF Server!Held, Server!Slot
<1>5. Server!GraphOutlivesThread
  BY DEF Server!ServerInv, Server!StartedInv
<1> QED BY <1>1, <1>2, <1>3, <1>4, <1>5 DEF Server!SlotsInOrder, Server!UsedIsValid

(***************************************************************************)
(* The detection servers (dni_server.cc, both variants), for any number of *)
(* NICs and cores, any ring and any queues: the indices of the ring and of *)
(* the queues stay in range, a queue that was never full holds exactly the *)
(* slots handed on and not yet taken, in order, and each calc_graph thread *)
(* answers the slots in the order sccm wrote them.                         *)
(***************************************************************************)
THEOREM ServerOrder ==
  ASSUME Server!SomeGraph
  PROVE  Server!Spec => []Server!SlotsInOrder
<1>1. Server!Init => Server!ServerInv
  BY ServerInit
<1>2. Server!ServerInv /\ [Server!Next]_Server!vars => Server!ServerInv'
  BY ServerStep
<1>3. Server!ServerInv => Server!SlotsInOrder
  BY ServerSays
<1> QED BY <1>1, <1>2, <1>3, PTL DEF Server!Spec

(***************************************************************************)
(* The slot a calc_graph thread reads through the pointer it was given is  *)
(* the one taken from the ring, until sccm has gone once round the ring;   *)
(* and no graph is deleted while its thread may use it.                    *)
(***************************************************************************)
THEOREM ServerValid ==
  ASSUME Server!SomeGraph
  PROVE  Server!Spec => []Server!UsedIsValid
<1>1. Server!Init => Server!ServerInv
  BY ServerInit
<1>2. Server!ServerInv /\ [Server!Next]_Server!vars => Server!ServerInv'
  BY ServerStep
<1>3. Server!ServerInv => Server!UsedIsValid
  BY ServerSays
<1> QED BY <1>1, <1>2, <1>3, PTL DEF Server!Spec
=============================================================================
