-------------------------- MODULE MC_CppComponents --------------------------
(***************************************************************************)
(* The sequential C++ components, each on its own: a behaviour is one of   *)
(* the reading of a configuration (CppConfig) or a declaration (TagMap), of*)
(* graph 3 (AttackTracing), of a parser (PacketParse), of the input of the *)
(* MFR model (MfrInput), of an ONNX task (OnnxTask), or of one of the      *)
(* instances below, and the variables of all others rest in a first state. *)
(***************************************************************************)
EXTENDS CppConfig, TagMap, AttackTracing, PacketParse, MfrInput, OnnxTask, CppInputs

CONSTANT Parts    \* the components that are checked

VARIABLES
  part,                                                                           \* the one that runs
  job, ips, list, at, step, from, to, calls, out, made,                           \* Cidr
  slotPhase, streams, ran, failed, slotPackets, abnormal_number, attack_number, detect_result   \* Detection

cidrVars == <<job, ips, list, at, step, from, to, calls, out, made>>
slotVars == <<slotPhase, streams, ran, failed, slotPackets, abnormal_number, attack_number, detect_result>>
runVars == <<part, vars, tagVars, cidrVars, mergeVars, traceVars, slotVars, parseVars, mfrVars, onnxVars>>
-----------------------------------------------------------------------------
(* The instances *)

CI == INSTANCE Cidr WITH W <- 3, Jobs <- {"merge", "range"}
\* The merge on its own, on inputs of its own.
AM == INSTANCE AttackerMerge WITH Options <- MergeOptions, Counts <- MergeCounts, Requests <- MergeRequests
DT == INSTANCE Detection
        WITH Graph1 <- AnomalyGraph, Graph2 <- AttackGraph, Headers <- SlotHeaders, PacketLists <- DetectLists,
             count_total_threshold <- 1000, phase <- slotPhase, packets <- slotPackets

ASSUME Instances == CI!WidthAssumption /\ CI!JobsAssumption /\ AM!CountsAssumption
-----------------------------------------------------------------------------
(* Configurations: two nodes with every wiring of two names, and three     *)
(* nodes whose names meet the numbered ones.                               *)

Plain == [name |-> <<"A">>, ins |-> << >>, outs |-> << >>, sins |-> << >>,
          souts |-> << >>, tags |-> TRUE, info |-> TRUE]

Upto(n) == BoundedSeq(Name, n)
G(gin, gside, nodes) == [gin |-> gin, gside |-> gside, gout |-> << >>, nodes |-> nodes]

\* Streams: two nodes, up to two inputs and outputs each.
StreamConfigs ==
  {G(g, << >>, <<[Plain EXCEPT !.ins = a, !.outs = b],
                 [Plain EXCEPT !.ins = c, !.outs = d, !.name = nm]>>) :
     g \in Upto(2), a \in Upto(1), b \in Upto(2), c \in Upto(2), d \in Upto(1),
     nm \in {<<"A">>, <<"B">>}}

\* Side data and streams together.
SideConfigs ==
  {G(<<"x">>, g, <<[Plain EXCEPT !.sins = a, !.souts = b, !.outs = <<"y">>],
                   [Plain EXCEPT !.sins = c, !.souts = b, !.ins = <<"y", "x">>]>>) :
     g \in Upto(2), a \in Upto(1), b \in Upto(1), c \in Upto(2)}

\* Three nodes that pass a stream on, under names that may collide.
NameConfigs ==
  {G(<<"x">>, << >>, <<[Plain EXCEPT !.name = a, !.ins = <<"x">>, !.outs = <<"y">>],
                       [Plain EXCEPT !.name = b, !.ins = <<"y">>, !.outs = <<"y">>],
                       [Plain EXCEPT !.name = c, !.ins = <<"y", "x">>]>>) :
     a \in {<<"A">>, <<"B">>}, b \in {<<"A">>, <<"B">>},
     c \in {<<"A">>, <<"A", 0>>, <<"B", 0>>}}

BadConfigs ==
  {[G(<<"x">>, << >>, <<[Plain EXCEPT !.tags = t, !.info = i]>>)
      EXCEPT !.gin = a, !.gside = b, !.gout = c] :
     t \in BOOLEAN, i \in BOOLEAN, a \in {<<"x">>, Malformed}, b \in {<<"x">>, Malformed},
     c \in {<<"x">>, Malformed}}

NodeNames == {<<"A">>, <<"B">>} \cup {<<a, k>> : a \in {"A", "B"}, k \in 0 .. 2}
           \cup {<<a, k, l>> : a \in {"A", "B"}, k \in 0 .. 2, l \in 0 .. 2}
AllConfigs == StreamConfigs \cup SideConfigs \cup NameConfigs \cup BadConfigs
-----------------------------------------------------------------------------
\* Everything but the part that runs has one first state.
Resting ==
  /\ (part # "config" => cfg = CHOOSE c \in Configs : Len(c.nodes) = 2)
  /\ (part # "tags" => decl = << >>)
  /\ (part # "cidr" => job = "merge" /\ ips = {0})
  /\ (part # "parse" => parser = "grpc" /\ slot = << >>)
  /\ (part # "mfr" => source = "slot" /\ mfrSlot = << >>)
  /\ (part # "onnx" => shapes = <<<<1, 4>>>> /\ task = "LogReg")
  /\ (part \notin {"merge", "trace"} =>
        opts = CHOOSE o \in Options : TRUE)
  /\ (part # "trace" => DeDup = TRUE /\ nicPackets = [k \in 1 .. 2 |-> CHOOSE l \in PacketLists : TRUE])

\* A merge on its own starts from any counts, and there is nothing to trace.
MergeAlone ==
  /\ AM!AloneInit
  /\ nic = 1 /\ results = << >> /\ all_stat = << >> /\ prepared = << >>
  /\ hosts_in_attack_link = {} /\ nic_rules = << >> /\ stage = "merge"

RunInit ==
  /\ part \in Parts
  /\ Resting
  /\ Init /\ TagInit /\ CI!Init /\ DT!Init /\ ParseInit /\ MfrInit /\ OnnxInit
  /\ IF part = "merge" THEN MergeAlone ELSE TraceInit

CfgStep == part = "config" /\ Next /\ UNCHANGED <<part, tagVars, cidrVars, mergeVars, traceVars, slotVars, parseVars, mfrVars, onnxVars>>
TagStep == part = "tags" /\ TagNext /\ UNCHANGED <<part, vars, cidrVars, mergeVars, traceVars, slotVars, parseVars, mfrVars, onnxVars>>
CidrStep == part = "cidr" /\ CI!Next /\ UNCHANGED <<part, vars, tagVars, mergeVars, traceVars, slotVars, parseVars, mfrVars, onnxVars>>
AloneStep == part = "merge" /\ AM!Merge /\ UNCHANGED <<part, vars, tagVars, cidrVars, traceVars, slotVars, parseVars, mfrVars, onnxVars>>
TraceStep == part = "trace" /\ TraceNext /\ UNCHANGED <<part, vars, tagVars, cidrVars, slotVars, parseVars, mfrVars, onnxVars>>
SlotStep == part = "slot" /\ DT!Next /\ UNCHANGED <<part, vars, tagVars, cidrVars, mergeVars, traceVars, parseVars, mfrVars, onnxVars>>
ParseStep == part = "parse" /\ ParseNext /\ UNCHANGED <<part, vars, tagVars, cidrVars, mergeVars, traceVars, slotVars, mfrVars, onnxVars>>
MfrStep == part = "mfr" /\ MfrNext /\ UNCHANGED <<part, vars, tagVars, cidrVars, mergeVars, traceVars, slotVars, parseVars, onnxVars>>
OnnxStep == part = "onnx" /\ OnnxNext /\ UNCHANGED <<part, vars, tagVars, cidrVars, mergeVars, traceVars, slotVars, parseVars, mfrVars>>

RunNext ==
  \/ CfgStep \/ TagStep \/ CidrStep \/ AloneStep \/ TraceStep
  \/ SlotStep \/ ParseStep \/ MfrStep \/ OnnxStep

RunSpec == RunInit /\ [][RunNext]_runVars
-----------------------------------------------------------------------------
(* Properties of the part that runs; the others are of the components      *)

(***************************************************************************)
(* Types of the part that runs: tables fit the declared nodes, a loaded    *)
(* declaration has a name in every slot, lists hold blocks on their        *)
(* boundary, what a merge leaves is part of its input, data have C++ types *)
(* the response can carry, every packet of a batch gives 640 characters,   *)
(* and a loaded model has no dynamic dimension after a run.                *)
(***************************************************************************)
PartTypeOK ==
  CASE part = "config" -> TypeOK [] part = "tags" -> TagTypeOK [] part = "cidr" -> CI!TypeOK
    [] part = "merge" -> AM!MergeTypeOK [] part = "trace" -> TraceTypeOK
    [] part = "slot" -> DT!TypeOK [] part = "parse" -> ParseTypeOK [] part = "mfr" -> MfrTypeOK
    [] part = "onnx" -> OnnxTypeOK

(***************************************************************************)
(* cidr_merge and iprange_to_cidrs: the blocks hold exactly the addresses, *)
(* in as few blocks as they allow, however the iterators went back and     *)
(* forth over a list that shrinks under them, and whether or not the       *)
(* shifts are at the width of the word; split_range keeps to the worst     *)
(* case its comment gives, 62 blocks and 125 calls for 32 bits: 2W - 2 and *)
(* 4W - 3.                                                                 *)
(***************************************************************************)
BlocksExact == part = "cidr" => CI!MergeExact /\ CI!RangeExact /\ CI!SplitBounded

(***************************************************************************)
(* Graphs 1 and 2 on a slot, in any order of the nodes: no task is handed  *)
(* a type it does not consume; a threshold task scores the highest         *)
(* threshold reached, whatever the order of the options; the slot is       *)
(* abnormal exactly when two of packets, netdev and resource are; and      *)
(* fewer sources than the lower limit always confirm an attack.            *)
(***************************************************************************)
DetectionRight ==
  part = "slot" => DT!NothingFails /\ DT!ThresholdHighest /\ DT!AbnormalMeansTwo /\ DT!FewSourcesConfirm
=============================================================================
