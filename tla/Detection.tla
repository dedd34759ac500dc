----------------------------- MODULE Detection ------------------------------
(***************************************************************************)
(* One slot of the ring through the two detection graphs of the servers    *)
(* (calc_graph of samples/ddos/.../dni_server.cc): graph 1 scores the      *)
(* statistics of a NIC, and when they are abnormal graph 2 scores its      *)
(* packets.  Nodes run in any order the streams allow.                     *)
(***************************************************************************)
EXTENDS DetectTasks

CONSTANTS
  Graph1, Graph2,        \* nodes: [task, o, in, out]
  Headers,               \* statistics a slot may carry, by input stream
  PacketLists,           \* what parse_packets may return
  count_total_threshold  \* of the request

VARIABLES
  phase,     \* "slot", "g1", "g2", "done"
  streams,   \* the datum on each stream of the graph that runs
  ran, failed, packets, abnormal_number, attack_number, detect_result

vars == <<phase, streams, ran, failed, packets, abnormal_number, attack_number, detect_result>>

Nodes == IF phase = "g1" THEN Graph1 ELSE Graph2

Init ==
  /\ phase = "slot" /\ streams = << >> /\ ran = {} /\ failed = {}
  /\ packets = << >> /\ abnormal_number = 0 /\ attack_number = 0 /\ detect_result = ""

Respond(result) == phase' = "done" /\ detect_result' = result

\* Too few packets are answered at once; else the statistics go in, each
\* count with countTotal as its condition.
TakeSlot ==
  /\ phase = "slot"
  /\ \E h \in Headers :
       IF h["countTotal"] <= count_total_threshold
       THEN Respond("Less packets") /\ UNCHANGED streams
       ELSE /\ phase' = "g1" /\ UNCHANGED detect_result
            /\ streams' = [s \in DOMAIN h |-> double(h[s])] @@ [cond |-> <<"doubles", <<h["countTotal"]>>>>]
  /\ UNCHANGED <<ran, failed, packets, abnormal_number, attack_number>>

Ready(nd) == nd \in Nodes \ ran /\ ToSet(nd.in) \subseteq DOMAIN streams

RunNode(nd) ==
  /\ phase \in {"g1", "g2"} /\ Ready(nd)
  /\ ran' = ran \cup {nd}
  /\ \E out \in Process(nd.task, nd.o, [i \in DOMAIN nd.in |-> streams[nd.in[i]]]) :
       IF \E i \in DOMAIN out : out[i] = Fail
       THEN failed' = failed \cup {nd} /\ UNCHANGED streams
       ELSE /\ streams' = streams @@ [s \in {nd.out[i] : i \in DOMAIN out} |->
                                        out[CHOOSE i \in DOMAIN out : nd.out[i] = s]]
            /\ UNCHANGED failed
  /\ UNCHANGED <<phase, packets, abnormal_number, attack_number, detect_result>>

\* Wait returns when no node can run; GetResult of a stream without a
\* datum is T().
Finished == ~ \E nd \in Nodes : Ready(nd)
GetResult(s) == IF s \in DOMAIN streams THEN streams[s][2] ELSE 0

\* Without a packet that could be parsed there is no answer at all.
JudgeAnomaly ==
  /\ phase = "g1" /\ Finished
  /\ abnormal_number' = GetResult("abnormal_res")
  /\ IF abnormal_number' > 0
     THEN \E pkts \in PacketLists :
            /\ packets' = pkts /\ ran' = {}
            /\ IF pkts = << >>
               THEN Respond("none") /\ UNCHANGED streams
               ELSE /\ phase' = "g2" /\ UNCHANGED detect_result
                    /\ streams' = [parsed_packets |-> <<"packets", pkts>>]
     ELSE Respond("No Anomaly") /\ UNCHANGED <<packets, streams, ran>>
  /\ UNCHANGED <<failed, attack_number>>

\* A double assigned to an int.
ToInt(score) == score \div 100

JudgeAttack ==
  /\ phase = "g2" /\ Finished
  /\ attack_number' = ToInt(GetResult("attack_res"))
  /\ Respond(CASE attack_number' = 2 -> "Confirmed Attack"
               [] attack_number' = 1 -> "Possible Attack"
               [] OTHER -> "No Attack")
  /\ UNCHANGED <<streams, ran, failed, packets, abnormal_number>>

Next ==
  \/ TakeSlot
  \/ \E nd \in Graph1 \cup Graph2 : RunNode(nd)
  \/ JudgeAnomaly
  \/ JudgeAttack

Spec == Init /\ [][Next]_vars
-----------------------------------------------------------------------------
(* Properties *)

(***************************************************************************)
(* Types: a datum has one of the C++ types, the judged numbers are those   *)
(* the response can carry.                                                 *)
(***************************************************************************)
TypeOK ==
  /\ \A s \in DOMAIN streams :
       streams[s][1] \in {"double", "doubles", "int", "uint64", "counts", "packets"}
  /\ abnormal_number \in 0 .. 4 /\ attack_number \in 0 .. 2 /\ failed \subseteq ran

(***************************************************************************)
(* No task of the two graphs fails: every stream carries the type its      *)
(* readers consume, and graph 2 is never run on nothing.                   *)
(***************************************************************************)
NothingFails == failed = {}

(***************************************************************************)
(* A threshold task sends the score of the highest threshold its input     *)
(* has reached, whatever the order of the options.                         *)
(***************************************************************************)
ThresholdHighest ==
  \A nd \in ran :
    (nd.task = "ThresholdTask" /\ nd.out[1] \in DOMAIN streams) =>
      LET met == {i \in DOMAIN nd.o.thresh_scores : nd.o.thresh_scores[i][1] <= streams[nd.in[1]][2]} IN
      streams[nd.out[1]][2] =
        IF met = {} THEN nd.o.default
        ELSE (CHOOSE t \in {nd.o.thresh_scores[i] : i \in met} :
                \A i \in met : nd.o.thresh_scores[i][1] <= t[1])[2]

(***************************************************************************)
(* A slot is abnormal exactly when two of packets, netdev and resource     *)
(* are, and the number says which.                                         *)
(***************************************************************************)
AbnormalMeansTwo ==
  (phase = "g1" /\ "abnormal_res" \in DOMAIN streams) =>
    LET bad == {s \in {"packet_abnormal", "netdev_abnormal", "resource_abnormal"} : streams[s][2] = 100} IN
    streams["abnormal_res"][2] =
      CASE bad = {"packet_abnormal", "netdev_abnormal", "resource_abnormal"} -> 1
        [] bad = {"packet_abnormal", "netdev_abnormal"} -> 2
        [] bad = {"packet_abnormal", "resource_abnormal"} -> 3
        [] bad = {"netdev_abnormal", "resource_abnormal"} -> 4
        [] OTHER -> 0

(***************************************************************************)
(* Graph 2 measures against numValueSum, not against the packets it got:   *)
(* fewer sources than the lower limit always confirm an attack.            *)
(***************************************************************************)
FewSourcesConfirm ==
  (phase = "done" /\ packets # << >>) =>
    \A nd \in Graph2 :
      (/\ nd.task = "SndNumberStatsTask" /\ nd.in = <<"sip_count">>
       /\ Cardinality({packets[i][SIP] : i \in DOMAIN packets}) * 100 < nd.o.numValueSum * nd.o.ratioMin)
      => attack_number = 2
=============================================================================
