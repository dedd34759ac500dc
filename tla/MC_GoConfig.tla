---------------------------- MODULE MC_GoConfig -----------------------------
(***************************************************************************)
(* How a Go graph comes to be ready, each part on its own:                 *)
(*   sort  every predecessor map over four nodes, self loops included;     *)
(*   unit  every configuration of two nodes over three names, with at most *)
(*         two inputs and two outputs per node: self loops, loops of two,  *)
(*         repeated names, missing sources, and node outputs named like    *)
(*         graph inputs;                                                   *)
(*   side  every accepted configuration of three nodes over three names in *)
(*         every topological order, and two calls of PrepareForRun; a is a *)
(*         graph input, b may be one as well as the output of a node, and  *)
(*         a graph output.                                                 *)
(* The variables of the other parts rest in a first state.                 *)
(***************************************************************************)
EXTENDS TopoSort, GraphUnit, SideData, SequencesExt

CONSTANTS a, b, c

VARIABLE part      \* the part that runs

Names == {a, b, c}
UpToOne == SeqOf(Names, 1)
UpToTwo == SeqOf(Names, 2)
Outputs == UpToOne \cup {<<a, b>>, <<a, a>>}

Orders == {f \in [1 .. SideSize -> SideNode] : IsInjective(f)}
SideOutputs == {<< >>, <<b>>, <<c>>, <<b, c>>}

OneWriter(o) ==
  \A m, n \in SideNode : m # n => Range(o[m]) \cap Range(o[n]) = {}

AllConfigs ==
  {f \in [gin : {<<a>>, <<a, b>>}, gout : {{}, {b}}, ins : [SideNode -> SUBSET Names],
          outs : {o \in [SideNode -> SideOutputs] : OneWriter(o)}, sorted : Orders] :
     Accepted(f) /\ TopologicalOrder(f)}
-----------------------------------------------------------------------------
SortRests == preList = [n \in Node |-> {}] /\ SortInit
UnitRests ==
  /\ gInputs = << >> /\ gOutputs = << >>
  /\ ins = [n \in UnitNode |-> << >>] /\ outs = [n \in UnitNode |-> << >>]
  /\ UnitInit
SideRests ==
  /\ sideConf = [gin |-> <<a>>, gout |-> {}, ins |-> [n \in SideNode |-> {}],
                 outs |-> [n \in SideNode |-> << >>], sorted |-> [k \in 1 .. SideSize |-> k - 1]]
  /\ SideInit

RunInit ==
  \/ part = "sort" /\ UnitRests /\ SideRests /\ SortInit
  \/ part = "unit" /\ SortRests /\ SideRests /\ UnitInit
  \/ part = "side" /\ SortRests /\ UnitRests /\ SideInit

SortStep == part = "sort" /\ SortNext /\ UNCHANGED <<part, unitVars, sideVars>>
UnitStep == part = "unit" /\ UnitNext /\ UNCHANGED <<part, sortVars, sideVars>>
SideStep == part = "side" /\ SideNext /\ UNCHANGED <<part, sortVars, unitVars>>

RunNext == SortStep \/ UnitStep \/ SideStep

\* IsExistLoop is a sequential function: its caller runs it to its return.
RunSpec == RunInit /\ [][RunNext]_<<part, sortVars, unitVars, sideVars>> /\ WF_sortVars(SortStep)

(***************************************************************************)
(* IsExistLoop returns, whatever the wiring, a cyclic one included, and    *)
(* the order in which the maps are walked.                                 *)
(***************************************************************************)
SortReturns == part = "sort" => Termination
=============================================================================
