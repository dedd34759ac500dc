---------------------------- MODULE MC_FlowGraph ----------------------------
(***************************************************************************)
(* Instances of FlowGraph.  The wiring is that of test/config/02-graph.yaml *)
(* (A, B -> n1 -> C; A, C -> n2 -> D; the graph's outputs are C and D), and *)
(* a chain of one or two nodes where the driving is less orderly.          *)
(***************************************************************************)
EXTENDS FlowGraph, TLC

CONSTANTS n1, n2, main, reader

Add(s) == [op |-> "add", s |-> s]
Take(s) == [op |-> "get", s |-> s]
DoRun == [op |-> "run"]
DoDestroy == [op |-> "destroy"]


-----------------------------------------------------------------------------
(* test/config/02-graph.yaml.                                              *)

G2_Node == {n1, n2}
G2_Stream == {"A", "B", "C", "D"}
G2_Ins == n1 :> <<"A", "B">> @@ n2 :> <<"A", "C">>
G2_Outs == n1 :> <<"C">> @@ n2 :> <<"D">>
G2_GIn == {"A", "B"}
G2_GOut == {"C", "D"}
G2_Port == G2_Node \cup {Source}
G2_Next == [p \in G2_Port |-> [s \in G2_Stream |->
              CASE p = Source /\ s = "A" -> <<n1, n2>>
                [] p = Source /\ s = "B" -> <<n1>>
                [] p = n1 /\ s = "C" -> <<n2, Sink>>
                [] p = n2 /\ s = "D" -> <<Sink>>
                [] OTHER -> << >>]]
G2_Sorted == <<n1, n2>>

G2_Feeds == [s \in G2_GOut |-> G2_GIn]

One(calls) == main :> calls

\* One client: one datum per input, one answer per output, round by round, as
\* service/dms/dms.go and TestGraphAPI1 drive a graph.
LockStepRound == <<Add("A"), Add("B"), Take("C"), Take("D")>>
LockStep == {One(<<DoRun>> \o LockStepRound \o LockStepRound
                   \o <<DoDestroy, Take("C")>>)}

\* TestGraphAPI2: one datum for A, two for B, all added before Run.
API2 == One(<<Add("A"), Add("B"), Add("B"), DoRun, Take("C"), Take("D"), DoDestroy>>)

\* TestDestroyAPI1 and 2 destroy a graph that never ran; the others destroy it
\* while data are on their way, or read what Destroy left of them.
BusyDestroy ==
  {API2,
   One(<<DoDestroy>>),
   One(<<Add("A"), Add("B"), DoDestroy>>),
   One(<<DoRun, Add("A"), Add("B"), Add("A"), Add("B"), DoDestroy, Take("C"), Take("D")>>)}

TestGraphAPI2 == {API2}

\* A feeder that does not wait for answers, and a reader.
Pipelined ==
  {main :> <<DoRun, Add("A"), Add("B"), Add("A"), Add("B"), Add("A"), Add("B")>>
     @@ reader :> <<Take("C"), Take("D"), Take("C"), Take("D"), Take("C"), Take("D")>>}

\* Clients that do not wait for answers: those two, or one that destroys.
NoWaiting == Pipelined \cup {f @@ reader :> << >> : f \in BusyDestroy}

(***************************************************************************)
(* Node.Execute, AddData and GetGraphOutputData: a feeder that does not    *)
(* wait for the answers and a reader both return from all their calls,     *)
(* though channels fill up and tasks fail.                                 *)
(***************************************************************************)
PipelinedReturn == script \in Pipelined => AllReturn
-----------------------------------------------------------------------------
\* The hypotheses of the theorems about FlowGraph are met by these instances.
ASSUME Driven == (\A f \in Scripts : Orderly(f) /\ OneReader(f) /\ RunFirst(f)) /\ Fed

ASSUME InLockStep == FeedsRight /\ (Scripts = LockStep => \A f \in Scripts : RoundByRound(f))
=============================================================================
