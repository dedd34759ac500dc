--------------------------- MODULE GraphPrograms ----------------------------
(***************************************************************************)
(* The programs under samples/ddos that run the detection graphs: which    *)
(* streams they observe, feed and read, with the C++ type of each datum,   *)
(* against the graphs of their pbtxt files and the types the tasks consume *)
(* and send.  A datum is its type and the rounds it was made from.  A task *)
(* that is handed another type fails, a missing answer reads as T(), which *)
(* is 0 or empty, and the cascade from graph 1 to graph 3 depends on what  *)
(* is read.                                                                *)
(*                                                                         *)
(* Types: "counts" is unordered_map<uint32_t, int>, "packets"              *)
(* vector<vector<uint32_t>>, "rows" vector<unordered_map<string,           *)
(* uint32_t>>, "doubles" vector<double>; a star marks a pointer.           *)
(***************************************************************************)
EXTENDS Integers, Sequences, FiniteSets, TLC

CONSTANTS
  Programs,    \* the programs of the run
  MaxRounds    \* bound: slots, or calls of RunOnce of graph 1

VARIABLES program, stage, pc, node, round, cancelled, queue, answers, got, reason
vars == <<program, stage, pc, node, round, cancelled, queue, answers, got, reason>>
-----------------------------------------------------------------------------
(* What the tasks consume and send *)

Task(in, out) == [in |-> in, out |-> out, optional |-> FALSE]
All(S, t) == [s \in S |-> t]

ThresholdTask(i, o) == Task(i :> "double", o :> "double")
ConditionThresholdTask(i, c, o) == Task(i :> "double" @@ c :> "doubles", o :> "double")
SumTask(S, o) == Task(All(S, "double"), o :> "double")
MaxTask(S, o) == Task(All(S, "double"), o :> "double")
SndAdTask(S, o) == Task(All(S, "double"), o :> "int")

Features == {"sip_count", "sport_count", "dport_count", "protocol_count", "length_count"}
\* Mutant of FeatureCounterTask: it consumes the packets themselves.
FeatureCounterTaskValue == Task("parsed_packets" :> "packets", All(Features, "counts"))

FeatureCounterTask == Task("parsed_packets" :> "packets*", All(Features, "counts"))
SndNumberStatsTask(i, o) == Task(i :> "counts", o :> "double")
SndProtocolStatsTask(i, o) == Task(i :> "counts", o :> "double")
SndPcapParseTask == Task("pcapPath" :> "string", "parsed_packets" :> "rows")
SndAttackerIPMergeTask ==
  Task("sip_count" :> "counts*" @@ "all_known_ips" :> "ips", "attackerip_merge_result" :> "merge")
SndSIPBaseMergeDeDupTask ==
  Task("parsed_packets" :> "packets*" @@ "attackerip_merge_result" :> "merge" @@ "host_nic_name" :> "string",
       "sip_cidr_based_packets_merge" :> "stats" @@ "sip_dms_rules_prepare" :> "prepared")
\* It goes on without its datum, and bad_optional_access ends the program.
SndNetRecordMergeTask ==
  [Task("sip_cidr_based_packets_merge" :> "stats", "attack_link" :> "links") EXCEPT !.optional = TRUE]
SndGenDeDupDMSRulesTask ==
  Task("sip_dms_rules_prepare" :> "prepared" @@ "netdevs_1" :> "doubles", "dms_rules" :> "rules")
OnnxSNDingMFRTask == Task("data" :> "floats", "ret" :> "labels")
-----------------------------------------------------------------------------
(* The pbtxt files: nodes in an order the executor may run them in *)

CountTypes == <<"countType_length", "countType_srcIP", "countType_dstIP", "countType_protocol",
                "countType_srcPortTcp", "countType_dstPortTcp", "countType_srcPortUdp", "countType_dstPortUdp">>
Netdev == <<"inMbps", "inKpps", "outMbps", "outKpps">>
Resource == <<"cur_cpu", "incr_mem_swap", "incr_mem_virtual", "incr_tcpconn_full", "incr_tcpconn_semi",
              "incr_tcpconn_total">>
ResourceMem == [Resource EXCEPT ![4] = "incr_mem_full"]

Cond(c) == "cond_" \o c
Elems(s) == {s[i] : i \in DOMAIN s}

\* A score per statistic, their sum, and a judge.
Scored(stats, kind) ==
  [i \in DOMAIN stats |-> ThresholdTask(stats[i], kind \o "_" \o stats[i])]
  \o <<SumTask({kind \o "_" \o c : c \in Elems(stats)}, kind \o "_scores_sum"),
       ThresholdTask(kind \o "_scores_sum", kind \o "_abnormal")>>

graph1_a == <<ThresholdTask("countTotal", "packet_countTotal")>>
CondNodes(types) == [i \in DOMAIN types |->
  ConditionThresholdTask(types[i], Cond(types[i]), "packet_" \o types[i])]
graph1_b == graph1_a \o CondNodes(<<"countType_length">>)
graph1_packets ==
  graph1_a \o CondNodes(CountTypes)
  \o <<SumTask({"packet_countTotal"} \cup {"packet_" \o c : c \in Elems(CountTypes)}, "packet_scores_sum"),
       ThresholdTask("packet_scores_sum", "packet_abnormal")>>
graph1_of(resource) ==
  graph1_packets \o Scored(Netdev, "netdev") \o Scored(resource, "resource")
  \o <<SndAdTask({"packet_abnormal", "netdev_abnormal", "resource_abnormal"}, "abnormal_res")>>
graph1 == graph1_of(Resource)
graph1_c == graph1_of(ResourceMem)

graph2 ==
  <<FeatureCounterTask,
    SndNumberStatsTask("sip_count", "sip_count_score"), SndNumberStatsTask("sport_count", "sport_count_score"),
    SndNumberStatsTask("dport_count", "dport_count_score"),
    SndNumberStatsTask("length_count", "length_count_score"),
    SndProtocolStatsTask("protocol_count", "protocol_count_score"),
    MaxTask({"sport_count_score", "dport_count_score", "length_count_score"}, "number_count_score"),
    SumTask({"sip_count_score", "number_count_score", "protocol_count_score"}, "attack_scores_sum"),
    ThresholdTask("attack_scores_sum", "attack_res")>>
graph3 ==
  <<SndAttackerIPMergeTask, SndSIPBaseMergeDeDupTask, SndNetRecordMergeTask, SndGenDeDupDMSRulesTask>>
graph4 == <<OnnxSNDingMFRTask>>
graph2_pcap == <<SndPcapParseTask>> \o graph2
tracing_pcap == <<SndPcapParseTask, FeatureCounterTask, SndAttackerIPMergeTask>>
graph3_pcap == tracing_pcap \o Tail(graph3)
-----------------------------------------------------------------------------
(* The programs: a session is one graph with what is observed, fed and     *)
(* read of it, the stream whose value decides on the next sessions, and    *)
(* these                                                                   *)

Session(nodes, observes, injects, reads, decides, next) ==
  [nodes |-> nodes, observes |-> observes, injects |-> injects, reads |-> reads, decides |-> decides, next |-> next]
OnlySession(nodes, injects, reads) == Session(nodes, DOMAIN reads, injects, reads, "", {})

PacketStats == "countTotal" :> "double" @@ All(Elems(CountTypes), "double")
               @@ All({Cond(c) : c \in Elems(CountTypes)}, "doubles")

grpc_inject1 == PacketStats @@ All(Elems(Netdev), "double") @@ All(Elems(Resource), "double")
grpc_observe1 ==
  {"packet_abnormal", "netdev_abnormal", "resource_abnormal", "abnormal_res", "netdev_inMbps", "netdev_inKpps"}
grpc_read1 == "abnormal_res" :> "int" @@ All(grpc_observe1 \ {"abnormal_res"}, "double")
grpc_read2 == "attack_res" :> "double" @@ "sip_count" :> "counts"
grpc_inject3 ==
  "parsed_packets" :> "packets*" @@ "all_known_ips" :> "ips" @@ "host_nic_name" :> "string"
  @@ "netdevs_1" :> "doubles" @@ "sip_count" :> "counts*"
grpc_session3 == OnlySession(graph3, grpc_inject3, "dms_rules" :> "rules")
grpc_session4 == OnlySession(graph4, "data" :> "floats", "ret" :> "labels")
grpc_session1 == Session(graph1, grpc_observe1, grpc_inject1, grpc_read1, "abnormal_res", {2})
grpc_session2 ==
  Session(graph2, {"attack_res", "sip_count"}, "parsed_packets" :> "packets*", grpc_read2, "attack_res", {3, 4})
grpc == <<grpc_session1, grpc_session2, grpc_session3, grpc_session4>>

\* The A100 server has no statistics of the NIC, and hands on the counts
\* themselves.
A100_session1 ==
  Session(graph1_packets, {"packet_abnormal"}, PacketStats, "packet_abnormal" :> "double", "packet_abnormal", {2})
A100_session2 ==
  Session(graph2, {"attack_res", "sip_count"}, "parsed_packets" :> "packets*", grpc_read2, "attack_res", {3})
A100_inject3 == ("sip_count" :> "counts") @@ grpc_inject3
A100 == <<A100_session1, A100_session2, OnlySession(graph3, A100_inject3, "dms_rules" :> "rules")>>

\* The programs without gRPC parse packets to rows and hand on the rows.
all_net_start == <<grpc_observe1, {"attack_res", "sip_count"}, {"dms_rules"}>>
all_net_inject1 == grpc_inject1
all_net_session1 == Session(graph1, all_net_start[1], all_net_inject1, grpc_read1, "abnormal_res", {2})
all_net_session2 == Session(graph2, all_net_start[2], "parsed_packets" :> "rows", grpc_read2, "attack_res", {3})
all_net_inject3 == ("parsed_packets" :> "rows" @@ "sip_count" :> "counts") @@ grpc_inject3
all_net == <<all_net_session1, all_net_session2, OnlySession(graph3, all_net_inject3, "dms_rules" :> "rules")>>

single_start == all_net_start
single_inject1 == grpc_inject1
single_session1 == Session(graph1, single_start[1], single_inject1, grpc_read1, "abnormal_res", {2})
single_session2 == Session(graph2, single_start[2], "parsed_packets" :> "rows", grpc_read2, "attack_res", {3})
single == <<single_session1, single_session2, OnlySession(graph3, all_net_inject3, "dms_rules" :> "rules")>>

\* The programs that ask a database for the statistics, and read pcap files.
\* A row the database does not have reads as zeros.
influx_inject == grpc_inject1
abnormal_read == "abnormal_res" :> "int" @@ All({"packet_abnormal", "netdev_abnormal", "resource_abnormal"}, "double")
realtime_anomaly_detect == <<OnlySession(graph1, influx_inject, abnormal_read)>>
attack_inject == influx_inject
attack_anomaly == Session(graph1, DOMAIN abnormal_read, attack_inject, abnormal_read, "abnormal_res", {2})
realtime_attack_detect ==
  <<attack_anomaly, OnlySession(graph2_pcap, "pcapPath" :> "string", "attack_res" :> "double")>>
defense_inject == influx_inject
defense_anomaly == Session(graph1, grpc_observe1, defense_inject, grpc_read1, "abnormal_res", {2})
defense_attack ==
  Session(graph2_pcap, {"attack_res"}, "pcapPath" :> "string", "attack_res" :> "double", "attack_res", {3})
pcap_inject3 ==
  "pcapPath" :> "string" @@ "all_known_ips" :> "ips" @@ "host_nic_name" :> "string" @@ "netdevs_1" :> "doubles"
single_detect_defense ==
  <<defense_anomaly, defense_attack, OnlySession(graph3_pcap, pcap_inject3, "dms_rules" :> "rules")>>

\* The samples of single graphs.
graph1_inject == PacketStats @@ All(Elems(Netdev), "double") @@ All(Elems(ResourceMem), "double")
graph1_main == <<OnlySession(graph1_c, graph1_inject, abnormal_read)>>
graph1_c_inject == graph1_inject
graph1_c_main ==
  <<OnlySession(graph1_c, graph1_c_inject,
      abnormal_read @@ All({"packet_scores_sum", "netdev_scores_sum", "resource_scores_sum"}, "double"))>>
graph1_a_main == <<OnlySession(graph1_a, "countTotal" :> "double", "packet_countTotal" :> "double")>>
graph1_b_main ==
  <<OnlySession(graph1_b, "countTotal" :> "double" @@ "countType_length" :> "double" @@ "cond_countType_length" :> "doubles",
      All({"packet_countTotal", "packet_countType_length"}, "double"))>>
graph2_main == <<OnlySession(graph2_pcap, "pcapPath" :> "string", "attack_res" :> "double")>>
graph3_main == <<OnlySession(graph3_pcap, pcap_inject3, "dms_rules" :> "rules")>>
attack_tracing_main ==
  <<OnlySession(tracing_pcap, "pcapPath" :> "string" @@ "all_known_ips" :> "ips", "attackerip_merge_result" :> "merge")>>

Sessions(p) ==
  CASE p = "grpc" -> grpc [] p = "A100" -> A100 [] p = "all_net" -> all_net [] p = "single" -> single
    [] p = "realtime_anomaly_detect" -> realtime_anomaly_detect
    [] p = "realtime_attack_detect" -> realtime_attack_detect
    [] p = "single_detect_defense" -> single_detect_defense
    [] p = "graph1" -> graph1_main [] p = "graph1_a" -> graph1_a_main [] p = "graph1_b" -> graph1_b_main
    [] p = "graph1_c" -> graph1_c_main [] p = "graph2" -> graph2_main [] p = "graph3" -> graph3_main
    [] p = "attack_tracing" -> attack_tracing_main

\* These take slot after slot, or case after case; the others end.
Loops(p) == p \in {"grpc", "A100", "all_net", "single", "graph3"}
-----------------------------------------------------------------------------
(* A round *)

Here == Sessions(program)[stage]
NoAnswer == [type |-> "T()", rounds |-> {}]

Init ==
  /\ program \in Programs /\ stage = 1 /\ pc = "inject" /\ node = 1 /\ round = 1 /\ cancelled = FALSE
  /\ queue = [k \in DOMAIN Sessions(program) |->
                LET nodes == Sessions(program)[k].nodes IN
                [n \in DOMAIN nodes |-> [s \in DOMAIN nodes[n].in |-> << >>]]]
  /\ answers = [k \in DOMAIN Sessions(program) |-> [s \in Sessions(program)[k].observes |-> << >>]]
  /\ got = << >> /\ reason = NoAnswer

\* A datum for each stream of made goes to every node that reads it.
Sent(made, rounds) ==
  /\ queue' = [queue EXCEPT ![stage] = [n \in DOMAIN @ |-> [s \in DOMAIN @[n] |->
                 IF s \in DOMAIN made THEN Append(@[n][s], [type |-> made[s], rounds |-> rounds]) ELSE @[n][s]]]]
  /\ answers' = [answers EXCEPT ![stage] = [s \in DOMAIN @ |->
                 IF s \in DOMAIN made THEN Append(@[s], [type |-> made[s], rounds |-> rounds]) ELSE @[s]]]

GraphInputs == UNION {DOMAIN Here.nodes[n].in : n \in DOMAIN Here.nodes}
               \ UNION {DOMAIN Here.nodes[n].out : n \in DOMAIN Here.nodes}

\* AddDatumToInputStream for every stream of the session; a stream the graph
\* does not have is a null pointer.
Inject ==
  /\ pc = "inject"
  /\ IF DOMAIN Here.injects \subseteq GraphInputs
     THEN Sent(Here.injects, {round}) /\ pc' = "run"
     ELSE pc' = "dead" /\ UNCHANGED <<queue, answers>>
  /\ node' = 1 /\ cancelled' = FALSE
  /\ UNCHANGED <<program, stage, round, got, reason>>

Current == Here.nodes[node]
Front(s) == queue[stage][node][s]
Consumes(s) == Front(s) # << >> /\ Head(Front(s)).type = Current.in[s]
Drained(q) == [q EXCEPT ![stage][node] = [s \in DOMAIN @ |-> << >>]]
RunsNode == pc = "run" /\ ~ cancelled /\ node <= Len(Here.nodes)

Process ==
  /\ RunsNode /\ \A s \in DOMAIN Current.in : Consumes(s)
  /\ LET rounds == UNION {Head(Front(s)).rounds : s \in DOMAIN Current.in}
         sent == Current.out IN
     /\ queue' = [Drained(queue) EXCEPT ![stage] = [n \in DOMAIN @ |-> [s \in DOMAIN @[n] |->
          IF s \in DOMAIN sent THEN Append(@[n][s], [type |-> sent[s], rounds |-> rounds]) ELSE @[n][s]]]]
     /\ answers' = [answers EXCEPT ![stage] = [s \in DOMAIN @ |->
          IF s \in DOMAIN sent THEN Append(@[s], [type |-> sent[s], rounds |-> rounds]) ELSE @[s]]]
  /\ node' = node + 1
  /\ UNCHANGED <<program, stage, pc, round, cancelled, got, reason>>

\* Process returns -1; the cancel may come before RunOnce has stored the
\* future, and is lost then.
ProcessFails ==
  /\ RunsNode
  /\ \E s \in DOMAIN Current.in : ~ Consumes(s)
  /\ queue' = Drained(queue) /\ node' = node + 1
  /\ IF Current.optional THEN pc' = "dead" /\ UNCHANGED cancelled ELSE cancelled' \in BOOLEAN /\ UNCHANGED pc
  /\ UNCHANGED <<program, stage, round, answers, got, reason>>

\* pcap_open_offline of a file that cannot be opened.
PcapFails ==
  /\ RunsNode /\ Current = SndPcapParseTask
  /\ queue' = Drained(queue) /\ node' = node + 1 /\ cancelled' \in BOOLEAN
  /\ UNCHANGED <<program, stage, pc, round, answers, got, reason>>

Wait ==
  /\ pc = "run" /\ (cancelled \/ node > Len(Here.nodes)) /\ pc' = "read"
  /\ UNCHANGED <<program, stage, node, round, cancelled, queue, answers, got, reason>>

\* GetResult of one stream: T() if it was not observed, is empty or of
\* another type.
Result(s, type) ==
  IF s \in Here.observes /\ answers[stage][s] # << >> /\ Head(answers[stage][s]).type = type
  THEN Head(answers[stage][s]) ELSE NoAnswer

\* GetResult of every stream that is read, then ClearResult (or the stream is
\* the only one).
Read ==
  /\ pc = "read" /\ pc' = "decide"
  /\ got' = [s \in DOMAIN Here.reads |-> Result(s, Here.reads[s])]
  /\ answers' = [answers EXCEPT ![stage] = [s \in DOMAIN @ |-> << >>]]
  /\ UNCHANGED <<program, stage, node, round, cancelled, queue, reason>>

\* The value of an answer is not modelled; T() is 0, which is no anomaly and
\* no attack.
Positive(d) == d # NoAnswer

GoOn(k) ==
  /\ pc = "decide" /\ k \in Here.next /\ Positive(got[Here.decides])
  /\ stage' = k /\ pc' = "inject" /\ reason' = got[Here.decides]
  /\ UNCHANGED <<program, node, round, cancelled, queue, answers, got>>

NextRound ==
  /\ pc = "decide" /\ Loops(program) /\ round < MaxRounds
  /\ round' = round + 1 /\ stage' = 1 /\ pc' = "inject" /\ reason' = NoAnswer
  /\ UNCHANGED <<program, node, cancelled, queue, answers, got>>

Next ==
  \/ Inject \/ Process \/ ProcessFails \/ PcapFails \/ Wait \/ Read \/ NextRound
  \/ \E k \in 2 .. 4 : GoOn(k)

Spec == Init /\ [][Next]_vars
-----------------------------------------------------------------------------
(* Properties *)

(***************************************************************************)
(* Types: a cascade goes on to graphs that were built, and what is read    *)
(* are answers of rounds that were started.                                *)
(***************************************************************************)
TypeOK ==
  /\ stage \in DOMAIN Sessions(program) /\ round \in 1 .. MaxRounds /\ cancelled \in BOOLEAN
  /\ pc \in {"inject", "run", "read", "decide", "dead"}
  /\ \A s \in DOMAIN got : got[s].rounds \subseteq 1 .. round

(***************************************************************************)
(* When a graph is started every stream it takes from outside holds one    *)
(* datum of this round and nothing older: the inject functions feed all    *)
(* that the pbtxt file asks for, and the round before left nothing.        *)
(***************************************************************************)
FedForRound ==
  pc = "run" /\ node = 1 =>
    \A n \in DOMAIN Here.nodes : \A s \in DOMAIN Here.nodes[n].in :
      IF s \in GraphInputs
      THEN Len(queue[stage][n][s]) = 1 /\ queue[stage][n][s][1].rounds = {round}
      ELSE queue[stage][n][s] = << >>

(***************************************************************************)
(* Every stream that is read gives an answer of this round, of the type    *)
(* that is asked for, never the default: the stream is observed, exists in *)
(* the graph, and no task on the way to it is handed a wrong type.         *)
(***************************************************************************)
EveryResultReal == pc = "decide" => \A s \in DOMAIN got : got[s].rounds = {round}

(***************************************************************************)
(* A graph that fails raises no alarm: the next graph of a cascade is      *)
(* started only on an answer made of this round's data alone, whatever     *)
(* task failed and whether the cancel was in time.                         *)
(***************************************************************************)
NoFalseAlarm == stage > 1 => reason.rounds = {round}
=============================================================================
