---------------------------- MODULE MC_Services -----------------------------
(***************************************************************************)
(* The programs around the graphs, each on its own: a behaviour is one of  *)
(* the gRPC server, of the A100 server, of a sample program, of the Go     *)
(* graph manager or of the ring of the Go service, and the variables of    *)
(* the others rest in a first state.                                       *)
(***************************************************************************)
EXTENDS GraphManager, ShmRing

CONSTANT Parts          \* which of them run

VARIABLES
  part,                                                   \* the one that runs
  sccm, cell, rb_head, rb_tail, rb, queue, owed, overrun,
  worker, mutex, stream, responses, main, graphs,         \* a server
  program, stage, pc, node, round, cancelled, streams,
  answers, got, reason                                    \* a sample program

serverVars == <<sccm, cell, rb_head, rb_tail, rb, queue, owed, overrun, worker, mutex, stream, responses, main, graphs>>
programVars == <<program, stage, pc, node, round, cancelled, streams, answers, got, reason>>
managerAndRing == <<managerVars, vars>>
runVars == <<part, serverVars, programVars, managerAndRing>>
-----------------------------------------------------------------------------
(* The instances *)

\* The gRPC server has one graph; the writes of sccm go round the ring.
Grpc == INSTANCE DniServer
          WITH Variant <- "grpc", all_nic_number <- 1, concur_cnt <- 4, slot_count <- 3, Cap <- 3, MaxSlots <- 4,
               written <- sccm, head <- rb_head, tail <- rb_tail, reader <- rb

\* Two graphs of the A100 server: one queue can fill up.
A100 == INSTANCE DniServer
          WITH Variant <- "A100", all_nic_number <- 2, concur_cnt <- 4, slot_count <- 4, Cap <- 2, MaxSlots <- 3,
               written <- sccm, head <- rb_head, tail <- rb_tail, reader <- rb

\* Programs whose types agree, and those in which a task fails.
SoundPrograms == {"grpc", "realtime_anomaly_detect", "graph1", "graph1_a", "graph1_b", "graph1_c"}
FailingPrograms == {"A100", "all_net", "single", "realtime_attack_detect", "single_detect_defense", "graph2", "graph3",
                    "attack_tracing"}
Samples == INSTANCE GraphPrograms
             WITH Programs <- SoundPrograms \cup FailingPrograms, MaxRounds <- 3, queue <- streams

\* Two callers of the manager with a name each; they may ask for it again.
EachItsOwn == [c \in Callers |-> {c}]

ASSUME Instances == Grpc!SomeGraph /\ A100!SomeGraph /\ CallersAssumption /\ OwnNames
-----------------------------------------------------------------------------
RunInit ==
  /\ part \in Parts
  /\ IF part = "A100" THEN A100!Init ELSE Grpc!Init
  /\ (part # "program" => program = "graph2") /\ Samples!Init
  /\ ManagerInit /\ Init

GrpcStep == part = "grpc" /\ Grpc!Next /\ UNCHANGED <<part, programVars, managerAndRing>>
A100Step == part = "A100" /\ A100!Next /\ UNCHANGED <<part, programVars, managerAndRing>>
ProgramStep == part = "program" /\ Samples!Next /\ UNCHANGED <<part, serverVars, managerAndRing>>
ManagerStep == part = "manager" /\ ManagerNext /\ UNCHANGED <<part, serverVars, programVars, vars>>
RingStep == part = "ring" /\ Next /\ UNCHANGED <<part, serverVars, programVars, managerVars>>

RunNext == GrpcStep \/ A100Step \/ ProgramStep \/ ManagerStep \/ RingStep

\* The threads of a server run; the manager and the ring have the fairness of
\* their own specifications.
RunSpec ==
  /\ RunInit /\ [][RunNext]_runVars
  /\ WF_serverVars(part = "grpc" /\ Grpc!read_rb) /\ WF_serverVars(part = "grpc" /\ Grpc!CalculateGraph)
  /\ WF_serverVars(part = "grpc" /\ Grpc!calc_graph(1))
  /\ WF_serverVars(part = "A100" /\ A100!read_rb_A100) /\ WF_serverVars(part = "A100" /\ A100!CalculateGraph_A100)
  /\ \A g \in 1 .. 2 : WF_serverVars(part = "A100" /\ A100!calc_graph_A100(g))
  /\ \A c \in Callers : SF_managerVars(part = "manager" /\ Step(c))
  /\ \A g \in Graphs : WF_managerVars(part = "manager" /\ Compute(g))
  /\ WF_vars(part = "ring" /\ Publish) /\ WF_vars(part = "ring" /\ Read) /\ WF_vars(part = "ring" /\ Analysed)
-----------------------------------------------------------------------------
(* Properties of the part that runs *)

(***************************************************************************)
(* spsc of dni_server.cc: as long as fewer than Cap pointers were waiting  *)
(* a queue holds exactly those pushed and not popped, in order, although   *)
(* push never asks whether there is room; and each thread then answers the *)
(* slots in the order sccm wrote them, as long as the ring has not gone    *)
(* round.                                                                  *)
(***************************************************************************)
SlotsInOrder == (part = "grpc" => Grpc!SlotsInOrder) /\ (part = "A100" => A100!SlotsInOrder)

(***************************************************************************)
(* What a calc_graph thread uses is there. read_rb moves the head on       *)
(* before the slot is read: what a thread parses stays as it was taken     *)
(* until sccm has written as many further slots as the ring has. A graph   *)
(* is deleted only after its thread has left calc_graph.                   *)
(***************************************************************************)
UsedIsValid == (part = "grpc" => Grpc!UsedIsValid) /\ (part = "A100" => A100!UsedIsValid)

(***************************************************************************)
(* The sample programs: a cascade starts its next graph only on an answer  *)
(* made of this round's data, whatever task failed and whether the cancel  *)
(* came in time. Where the types agree, a graph is started with one datum  *)
(* of this round in every stream from outside, and every stream that       *)
(* GetResult is asked for gives an answer of this round, never T().        *)
(***************************************************************************)
ResultsReal ==
  /\ Samples!TypeOK /\ Samples!NoFalseAlarm
  /\ program \in SoundPrograms => Samples!FedForRound /\ Samples!EveryResultReal

(***************************************************************************)
(* The servers end: once every thread of the gRPC server has found the     *)
(* stream closed, CalculateGraph returns, as the reader reaches a point    *)
(* where pthread_cancel takes effect; and no thread of the A100 server     *)
(* waits for writer_mutex for ever.                                        *)
(***************************************************************************)
Waits(g) == part = "A100" /\ A100!At(g, "lock")

ShutsDown ==
  /\ (part = "grpc" /\ main # "start" /\ Grpc!AllStopped) ~> main = "exit"
  /\ \A g \in 1 .. 2 : Waits(g) ~> ~ Waits(g)
=============================================================================
