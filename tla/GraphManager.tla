---------------------------- MODULE GraphManager ----------------------------
(***************************************************************************)
(* The manager of the Go service (service/manager/manager.go): a map from  *)
(* names to graphs under one mutex, called from several goroutines.  A     *)
(* graph is a number, with the rounds it was given and those it has        *)
(* answered; what it computes is FlowGraph's business.                     *)
(***************************************************************************)
EXTENDS Integers

CONSTANTS
  Callers,      \* goroutines that call the manager
  NamesOf,      \* NamesOf[c]: the graph names that caller c uses
  MaxGraphs,    \* bound: graphs built
  Cap           \* rounds that a graph's channels hold (1000 data each in the code)

Names == UNION {NamesOf[c] : c \in Callers}
Nobody == "nobody"
NoGraph == 0

CallersAssumption == Nobody \notin Callers /\ MaxGraphs \in Nat \ {0} /\ Cap \in Nat \ {0}

VARIABLES
  lock,         \* who holds gm.mutex
  GraphMap,     \* gm.GraphMap
  made,         \* graphs built so far
  alive,        \* graphs that run
  inq, outq,    \* per graph: rounds on their way, rounds answered and not taken
  surplus,      \* per graph: data that no data of the other streams came with
  hung,         \* graphs one of whose nodes kept its mutex: Graph.Destroy never ends
  refused,      \* RunGraph has refused a name
  call,         \* call[c]: the call that c is in, and its step
  has           \* has[c]: the names that RunGraph returned to c

queueVars == <<inq, outq, surplus>>
managerVars == <<lock, GraphMap, made, alive, queueVars, hung, refused, call, has>>

Graphs == 1 .. MaxGraphs
Idle == [op |-> "", at |-> "idle", name |-> "", g |-> NoGraph]
Uses == {"streams", "add", "get"}
Calls == [op : {"", "run", "destroy"} \cup Uses,
          at : {"idle", "check", "build", "enter", "look", "found", "destroy", "destroying", "panic"},
          name : Names \cup {""}, g : 0 .. MaxGraphs]

ManagerInit ==
  /\ lock = Nobody /\ GraphMap = [n \in Names |-> NoGraph] /\ made = 0 /\ alive = {}
  /\ inq = [g \in Graphs |-> 0] /\ outq = [g \in Graphs |-> 0] /\ surplus = [g \in Graphs |-> 0]
  /\ hung = {} /\ refused = FALSE /\ call = [c \in Callers |-> Idle] /\ has = [c \in Callers |-> {}]

At(c, at) == call[c].at = at
Begins(c, op, at, n) == call' = [call EXCEPT ![c] = [op |-> op, at |-> at, name |-> n, g |-> NoGraph]]
Goes(c, at, g) == call' = [call EXCEPT ![c] = [op |-> @.op, at |-> at, name |-> @.name, g |-> g]]
Returns(c) == call' = [call EXCEPT ![c] = Idle]
-----------------------------------------------------------------------------
(* RunGraph: two critical sections with the building of the graph between *)

RunGraph(c, n) ==
  /\ At(c, "idle") /\ n \in NamesOf[c] /\ made < MaxGraphs /\ Begins(c, "run", "check", n)
  /\ UNCHANGED <<lock, GraphMap, made, alive, queueVars, hung, refused, has>>

\* Mutant of Free: the mutex is not given back when the name is free.
Kept(c) == lock' = c

Free(c) == lock' = Nobody

Check(c) ==
  /\ At(c, "check") /\ lock = Nobody /\ GraphMap[call[c].name] = NoGraph /\ Free(c) /\ Goes(c, "build", NoGraph)
  /\ UNCHANGED <<GraphMap, made, alive, queueVars, hung, refused, has>>

\* The return of the error skips the Unlock.
Refuse(c) ==
  /\ At(c, "check") /\ lock = Nobody /\ GraphMap[call[c].name] # NoGraph
  /\ lock' = c /\ refused' = TRUE /\ Returns(c)
  /\ UNCHANGED <<GraphMap, made, alive, queueVars, hung, has>>

\* InitialGraph, PrepareForRun and Run; any of them may fail.
Build(c) ==
  /\ At(c, "build") /\ made < MaxGraphs
  /\ made' = made + 1 /\ alive' = alive \cup {made + 1} /\ Goes(c, "enter", made + 1)
  /\ UNCHANGED <<lock, GraphMap, queueVars, hung, refused, has>>

BuildFails(c) ==
  /\ At(c, "build") /\ Returns(c)
  /\ UNCHANGED <<lock, GraphMap, made, alive, queueVars, hung, refused, has>>

Entered(n, g) == [GraphMap EXCEPT ![n] = g]

Enter(c) ==
  /\ At(c, "enter") /\ lock = Nobody
  /\ GraphMap' = Entered(call[c].name, call[c].g)
  /\ has' = [has EXCEPT ![c] = @ \cup {call[c].name}] /\ Returns(c)
  /\ UNCHANGED <<lock, made, alive, queueVars, hung, refused>>
-----------------------------------------------------------------------------
(* GetGraphInputStreams, AddInputsToGraph and GetGraphOutputs, of a name   *)
(* that RunGraph returned: the graph is looked up under the mutex and used *)
(* after it was given back                                                 *)

UseGraph(c, op, n) ==
  /\ At(c, "idle") /\ n \in has[c] /\ Begins(c, op, "look", n)
  /\ UNCHANGED <<lock, GraphMap, made, alive, queueVars, hung, refused, has>>

Look(c) ==
  /\ At(c, "look") /\ lock = Nobody /\ Goes(c, "found", GraphMap[call[c].name])
  /\ UNCHANGED <<lock, GraphMap, made, alive, queueVars, hung, refused, has>>

GetGraphInputStreams(c) ==
  /\ At(c, "found") /\ call[c].op = "streams" /\ Returns(c)
  /\ UNCHANGED <<lock, GraphMap, made, alive, queueVars, hung, refused, has>>

Room(g) == inq[g] + surplus[g] < Cap

\* A nil graph is dereferenced; a graph that is being destroyed has closed
\* channels, and a send on one panics.
Panics(c) == Goes(c, "panic", call[c].g)

\* A send waits while the channel is full. The error about a stream that is
\* missing is dropped, and the data of the streams before it stay.
AddInputsToGraph(c) ==
  LET g == call[c].g IN
  /\ At(c, "found") /\ call[c].op = "add"
  /\ IF g \in alive
     THEN /\ Room(g) /\ Returns(c)
          /\ \/ inq' = [inq EXCEPT ![g] = @ + 1] /\ UNCHANGED surplus
             \/ surplus' = [surplus EXCEPT ![g] = @ + 1] /\ UNCHANGED inq
     ELSE Panics(c) /\ UNCHANGED <<inq, surplus>>
  /\ UNCHANGED <<lock, GraphMap, made, alive, outq, hung, refused, has>>

\* A receive waits while the channel is empty, and gives nil once it is closed.
GetGraphOutputs(c) ==
  LET g == call[c].g IN
  /\ At(c, "found") /\ call[c].op = "get"
  /\ IF g \in alive
     THEN outq[g] > 0 /\ outq' = [outq EXCEPT ![g] = @ - 1] /\ Returns(c)
     ELSE IF g = NoGraph THEN Panics(c) /\ UNCHANGED outq
     ELSE g \notin hung /\ Returns(c) /\ UNCHANGED outq
  /\ UNCHANGED <<lock, GraphMap, made, alive, inq, surplus, hung, refused, has>>

\* The nodes of a graph take a round from its inputs to its outputs.
Compute(g) ==
  /\ g \in alive /\ inq[g] > 0 /\ outq[g] < Cap
  /\ inq' = [inq EXCEPT ![g] = @ - 1] /\ outq' = [outq EXCEPT ![g] = @ + 1]
  /\ UNCHANGED <<lock, GraphMap, made, alive, surplus, hung, refused, call, has>>
-----------------------------------------------------------------------------
(* DestroyGraph: the mutex is held until every goroutine of the graph ended *)

DestroyGraph(c, n) ==
  /\ At(c, "idle") /\ n \in has[c] /\ Begins(c, "destroy", "destroy", n)
  /\ UNCHANGED <<lock, GraphMap, made, alive, queueVars, hung, refused, has>>

\* Mutant of Closed: the graph is not destroyed.
ClosedNot(g) == alive

Closed(g) == alive \ {g}

\* A node that meets a datum while its other inputs are closed, or after it was
\* stopped, goes on without unlocking its mutex (node.go), and Graph.Destroy
\* waits for it for ever.
Hangs(g) ==
  \/ UNCHANGED hung
  \/ inq[g] + surplus[g] > 0 /\ hung' = hung \cup {g}

Emptied(q, g) == [q EXCEPT ![g] = 0]

\* g.Destroy closes and drains the channels first; a name that does not exist
\* is an error.
Destroy(c) ==
  LET g == GraphMap[call[c].name] IN
  /\ At(c, "destroy") /\ lock = Nobody
  /\ IF g = NoGraph
     THEN Returns(c) /\ UNCHANGED <<lock, alive, queueVars, hung>>
     ELSE /\ lock' = c /\ alive' = Closed(g) /\ Hangs(g) /\ Goes(c, "destroying", g)
          /\ inq' = Emptied(inq, g) /\ outq' = Emptied(outq, g) /\ surplus' = Emptied(surplus, g)
  /\ has' = [has EXCEPT ![c] = @ \ {call[c].name}]
  /\ UNCHANGED <<GraphMap, made, refused>>

Deleted(n) == [GraphMap EXCEPT ![n] = NoGraph]

Destroyed(c) ==
  /\ At(c, "destroying") /\ call[c].g \notin hung
  /\ lock' = Nobody /\ GraphMap' = Deleted(call[c].name) /\ Returns(c)
  /\ UNCHANGED <<made, alive, queueVars, hung, refused, has>>
-----------------------------------------------------------------------------
Step(c) ==
  \/ Check(c) \/ Refuse(c) \/ Build(c) \/ BuildFails(c) \/ Enter(c)
  \/ Look(c) \/ GetGraphInputStreams(c) \/ AddInputsToGraph(c) \/ GetGraphOutputs(c)
  \/ Destroy(c) \/ Destroyed(c)

Call(c, n) == RunGraph(c, n) \/ (\E op \in Uses : UseGraph(c, op, n)) \/ DestroyGraph(c, n)

ManagerNext ==
  \/ \E c \in Callers : Step(c) \/ \E n \in Names : Call(c, n)
  \/ \E g \in Graphs : Compute(g)

\* A call in progress goes on whenever it can; a caller that waits for the
\* mutex gets it in the end if others give it back, which sync.RWMutex
\* promises; the goroutines of a graph run.
ManagerSpec ==
  /\ ManagerInit /\ [][ManagerNext]_managerVars
  /\ \A c \in Callers : SF_managerVars(Step(c))
  /\ \A g \in Graphs : WF_managerVars(Compute(g))
-----------------------------------------------------------------------------
(* Properties *)

(***************************************************************************)
(* Types: the map names graphs that were built.                            *)
(***************************************************************************)
ManagerTypeOK ==
  /\ lock \in Callers \cup {Nobody} /\ made \in 0 .. MaxGraphs /\ alive \subseteq 1 .. made
  /\ GraphMap \in [Names -> 0 .. made] /\ call \in [Callers -> Calls] /\ has \in [Callers -> SUBSET Names]

(***************************************************************************)
(* Every graph in the map runs, except the one whose DestroyGraph holds    *)
(* the mutex: no later call finds a graph with closed channels.            *)
(***************************************************************************)
MapHoldsRunning ==
  \A n \in Names : GraphMap[n] # NoGraph =>
    GraphMap[n] \in alive \/ \E c \in Callers : lock = c /\ At(c, "destroying") /\ call[c].g = GraphMap[n]

(***************************************************************************)
(* A caller that uses the names it was given by RunGraph, and nobody       *)
(* else's, never meets a nil or closed graph, whatever the others do.      *)
(***************************************************************************)
NeverPanics == \A c \in Callers : ~ At(c, "panic")

(***************************************************************************)
(* Every graph that runs can be reached: it is in the map, or RunGraph is  *)
(* about to enter it. A graph that is not can never be destroyed. For      *)
(* callers that share a name this fails: the name is checked in one        *)
(* critical section and entered in another.                                *)
(***************************************************************************)
NoOrphan ==
  \A g \in alive : \/ \E n \in Names : GraphMap[n] = g
                   \/ \E c \in Callers : At(c, "enter") /\ call[c].g = g

(***************************************************************************)
(* manager.go: every graph that runs is in the map or about to be entered, *)
(* every graph in the map runs, except the one whose DestroyGraph holds    *)
(* the mutex, and so a caller that uses the names RunGraph gave it never   *)
(* meets a nil or closed graph, though it is used after the mutex is given *)
(* back.                                                                   *)
(***************************************************************************)
MapIsRunning == ManagerTypeOK /\ MapHoldsRunning /\ NoOrphan /\ NeverPanics

(***************************************************************************)
(* A caller that waits for the manager's mutex gets it, as long as no      *)
(* Graph.Destroy hangs under it: RunGraph's refusal of a name is an error  *)
(* like any other. It is not: the refusal returns with the mutex held.     *)
(***************************************************************************)
AwaitsMutex(c) == call[c].at \in {"check", "enter", "look", "destroy"}

MutexComesBack == \A c \in Callers : AwaitsMutex(c) ~> (~ AwaitsMutex(c) \/ hung # {})

(***************************************************************************)
(* Every call of the manager returns, with the exceptions the code has.    *)
(* The mutex is got unless RunGraph has refused a name or Graph.Destroy    *)
(* hangs under it; DestroyGraph of a graph with nothing on its way ends,   *)
(* unless it waits for the mutex behind one of these; and a call that uses *)
(* a graph returns, though the mutex be lost, once there is room for what  *)
(* it adds, or a round for it to take or to come.                          *)
(***************************************************************************)
Quiet(g) == g = NoGraph \/ inq[g] + surplus[g] = 0

CanReturn(c) ==
  LET g == call[c].g IN
  /\ At(c, "found") /\ g \in alive
  /\ \/ call[c].op = "streams"
     \/ call[c].op = "add" /\ (Room(g) \/ (inq[g] > 0 /\ outq[g] < Cap))
     \/ call[c].op = "get" /\ inq[g] + outq[g] > 0

EachCallReturns ==
  \A c \in Callers :
    /\ AwaitsMutex(c) ~> (~ AwaitsMutex(c) \/ refused \/ hung # {})
    /\ (At(c, "destroy") /\ Quiet(GraphMap[call[c].name])) ~> (At(c, "idle") \/ refused \/ hung \ {call[c].g} # {})
    /\ At(c, "build") ~> ~ At(c, "build")
    /\ CanReturn(c) ~> At(c, "idle")
-----------------------------------------------------------------------------
(* The inductive invariant of Services_proofs, for callers that share no   *)
(* name: two that did could both find it free, and one graph would be lost *)

OwnNames == \A c, d \in Callers : c # d => NamesOf[c] \cap NamesOf[d] = {}

\* The map has a graph for exactly the names that RunGraph gave out, and for
\* the one that is being destroyed.
MapInv(c) ==
  /\ has[c] \subseteq NamesOf[c]
  /\ \A n \in NamesOf[c] :
       GraphMap[n] # NoGraph <=> n \in has[c] \/ (At(c, "destroying") /\ call[c].name = n)

\* What a call knows between its critical sections is still true.
CallInv(c) ==
  /\ ~ At(c, "panic")
  /\ ~ At(c, "idle") => call[c].name \in NamesOf[c]
  /\ call[c].at \in {"build", "enter", "destroying"} => call[c].name \notin has[c]
  /\ call[c].at \in {"look", "found", "destroy"} => call[c].name \in has[c]
  /\ call[c].at \in {"found", "destroying"} => call[c].g = GraphMap[call[c].name]
  /\ At(c, "enter") => call[c].g \in alive
  /\ At(c, "destroying") => call[c].g \notin alive /\ lock = c

\* No graph has two names, or is named before it is entered.
Distinct ==
  /\ \A n, m \in Names : GraphMap[n] = GraphMap[m] /\ GraphMap[n] # NoGraph => n = m
  /\ \A c \in Callers, n \in Names : At(c, "enter") => call[c].g # GraphMap[n]
  /\ \A c, d \in Callers : At(c, "enter") /\ At(d, "enter") /\ call[c].g = call[d].g => c = d

ManagerInv ==
  /\ ManagerTypeOK /\ MapHoldsRunning /\ NoOrphan /\ Distinct
  /\ \A c \in Callers : MapInv(c) /\ CallInv(c)
=============================================================================
