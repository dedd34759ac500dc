----------------------------- MODULE CppInputs ------------------------------
(***************************************************************************)
(* The inputs on which the sequential C++ components are checked: small    *)
(* versions of what the pbtxt files, the requests and the captures hold.   *)
(***************************************************************************)
EXTENDS Integers, Sequences, FiniteSets, SequencesExt

-----------------------------------------------------------------------------
(* TagMap: up to three streams with two tags and the indexes 0 to 2: gaps, *)
(* repeats and every form of string the parser tells apart.                *)

Tags == {"A", "B", "0", "1", "2"}
TagIndex == [f \in {"0", "1", "2"} |-> CASE f = "0" -> 0 [] f = "1" -> 1 [] OTHER -> 2]
TagsInOrder == <<"", "0", "1", "2", "A", "B">>

TagStrings ==
  {<<"x">>, <<"">>, <<"A", "x">>, <<"B", "y">>, <<"A", "0", "w">>, <<"A", "1", "y">>,
   <<"A", "2", "z">>, <<"B", "1", "x", "y">>, <<"", "0", "x">>, <<"a-", "x">>,
   <<"A", "01", "x">>}
TagInfos == {<<"">>, <<"A">>, <<"A", "1">>, <<"B", "0">>, <<"", "1">>, <<"A", "x">>}
-----------------------------------------------------------------------------
(* AttackerMerge and AttackTracing: addresses of one bit and two bytes of  *)
(* two bits each, so that there are two /16 of four /24.                   *)

Opt(a, b, c, cover, rare) ==
  [ipFw4CountRatio |-> a, ipFw3CountRatio |-> b, ipFw2CountRatio |-> c,
   ipSegCoverThreshold |-> cover, ipRandCountThreshold |-> rare, ipRandCountRatio |-> <<1, 2>>]

MergeOptions ==
  {Opt(<<1, 2>>, <<1, 2>>, <<1, 2>>, 3, 2), Opt(<<3, 4>>, <<3, 4>>, <<1, 2>>, 2, 2), Opt(<<3, 4>>, <<1, 1>>, <<1, 1>>, 4, 2)}

\* At most MaxIPs sources of Pool with 1 .. MaxCount packets each: three in
\* one /24, four in one /16, and a far one.
Pool == {0, 1, 3, 6, 12, 17, 23}
MaxIPs == 3
MaxCount == 4
MergeCounts == UNION {[S -> 1 .. MaxCount] : S \in {T \in SUBSET Pool : Cardinality(T) \in 1 .. MaxIPs}}

\* Known addresses in no order, as dni_client.cc lists them.
MergeRequests == {<<12, 3>>, << >>}

TraceOptions == {Opt(<<1, 2>>, <<3, 4>>, <<1, 1>>, 3, 1), Opt(<<1, 1>>, <<1, 1>>, <<1, 1>>, 3, 1)}
TraceRequests == {<<6, 0>>}

\* Two NICs, ListLen packets each of sources in one /24 and far apart; their
\* order does not matter, so each list comes once.
Flows == << <<0, 1, 80, 6, 10, 4>>, <<0, 1, 80, 17, 10, 4>>, <<1, 2, 80, 6, 10, 5>>,
            <<17, 9, 90, 6, 12, 4>>, <<23, 7, 300, 6, 12, 5>> >>
ListLen == 3
FlowLists ==
  {[k \in 1 .. ListLen |-> Flows[f[k]]]
     : f \in {g \in [1 .. ListLen -> 1 .. Len(Flows)] : \A k \in 1 .. ListLen - 1 : g[k] <= g[k + 1]}}

TwoNICs == <<"h1#eth0", "h2#eth0">>
TraceNumStat == [ratioMin |-> <<1, 4>>, ratioMax |-> <<3, 5>>, keyLenThresh |-> 2,
                 label |-> <<"centralize", "regular", "random", "void">>]
TraceProtoStat == [ratioMin |-> <<1, 4>>, ratioMax |-> <<3, 5>>, label |-> <<"flood", "rapid", "void">>]
TraceNetDevs == <<<<100, 1, 50, 0>>, <<100, 0, 50, 1>>>>
-----------------------------------------------------------------------------
(* Detection: graph1.pbtxt with two packet counts, one rate and one        *)
(* resource, the node of counter.pbtxt, and all of graph2.pbtxt for ten    *)
(* packets instead of ten thousand.                                        *)

Thresh(in, out, ts) ==
  [task |-> "ThresholdTask", in |-> <<in>>, out |-> <<out>>, o |-> [thresh_scores |-> ts, default |-> 0]]
NoOptions == [default |-> 0]

AnomalyGraph == {
  Thresh("countTotal", "packet_countTotal", <<<<10000, 60>>, <<4000, 40>>>>),
  [task |-> "ConditionThresholdTask", in |-> <<"countType_length", "cond">>, out |-> <<"packet_length">>,
   o |-> [thresh_scores |-> <<<<6, 20>>, <<500, 10>>>>, conditions |-> <<2000>>, default |-> 0]],
  [task |-> "SumTask", in |-> <<"packet_countTotal", "packet_length">>, out |-> <<"packet_sum">>, o |-> NoOptions],
  Thresh("packet_sum", "packet_abnormal", <<<<30, 100>>>>),
  Thresh("inMbps", "netdev_inMbps", <<<<100, 20>>, <<500, 40>>>>),
  Thresh("netdev_inMbps", "netdev_abnormal", <<<<5, 100>>>>),
  Thresh("cur_cpu", "resource_cur_cpu", <<<<30, 40>>>>),
  Thresh("resource_cur_cpu", "resource_abnormal", <<<<12, 100>>>>),
  [task |-> "SndAdTask", in |-> <<"packet_abnormal", "netdev_abnormal", "resource_abnormal">>,
   out |-> <<"abnormal_res">>, o |-> NoOptions],
  [task |-> "CounterTask", in |-> <<"packet_abnormal", "netdev_abnormal", "resource_abnormal">>,
   out |-> <<"count">>, o |-> [feature |-> 100]] }

Number(in, out, max, scores) ==
  [task |-> "SndNumberStatsTask", in |-> <<in>>, out |-> <<out>>,
   o |-> [numValueSum |-> 10, ratioMin |-> 30, ratioMax |-> max, score_thresholds |-> scores]]

AttackGraph == {
  [task |-> "FeatureCounterTask", in |-> <<"parsed_packets">>,
   out |-> <<"sip_count", "sport_count", "dport_count", "protocol_count", "length_count">>,
   o |-> [feature |-> <<"SIP", "SPort", "DPort", "Protocol", "Length">>]],
  Number("sip_count", "sip_score", 50, <<60, 100, 80, 0>>),
  Number("sport_count", "sport_score", 60, <<40, 100, 60, 0>>),
  Number("dport_count", "dport_score", 60, <<40, 100, 60, 0>>),
  Number("length_count", "length_score", 60, <<40, 100, 60, 0>>),
  [task |-> "SndProtocolStatsTask", in |-> <<"protocol_count">>, out |-> <<"protocol_score">>,
   o |-> [protoCountSum |-> 10, ratioMin |-> 30, ratioMax |-> 50, score_thresholds |-> <<80, 60, 0>>]],
  [task |-> "MaxTask", in |-> <<"sport_score", "dport_score", "length_score">>, out |-> <<"number_score">>, o |-> NoOptions],
  [task |-> "SumTask", in |-> <<"sip_score", "number_score", "protocol_score">>, out |-> <<"scores_sum">>, o |-> NoOptions],
  Thresh("scores_sum", "attack_res", <<<<57, 200>>, <<22, 100>>>>) }

\* Both sides of each threshold.
SlotHeaders ==
  {[countTotal |-> t, countType_length |-> l, inMbps |-> m, cur_cpu |-> c]
     : t \in {100, 2000, 4000, 10000}, l \in {5, 6, 500}, m \in {50, 100}, c \in {10, 30}}

\* Sources at distances that all differ, few ports and lengths.
Mixed == << <<0, 1, 80, 6, 10, 4>>, <<1, 2, 81, 6, 10, 4>>, <<3, 1, 80, 17, 11, 5>>,
            <<7, 2, 80, 17, 11, 4>>, <<15, 1, 80, 1, 10, 5>>, <<31, 2, 80, 6, 10, 4>> >>
\* All features spread like the sources.
Diverse == [k \in 1 .. 5 |-> LET v == 2 ^ k - 1 IN <<v, v, v, IF k < 3 THEN 6 ELSE IF k < 5 THEN 17 ELSE 1, v, 4>>]
DetectLists ==
  {SetToSeq({Mixed[k] : k \in S}) : S \in SUBSET (1 .. Len(Mixed))}
    \cup {[k \in 1 .. 8 |-> Mixed[IF k <= 5 THEN u ELSE v]] : u, v \in {1, 3}}
    \cup {Diverse}
-----------------------------------------------------------------------------
(* PacketParse and MfrInput: zero to three tags, IP options, every kind of *)
(* protocol, frames that are not IP, payloads around 240 bytes.            *)

\* A packet with n bytes after its headers.
Pkt(tags, type, ihl, doff, proto, n) ==
  LET l3 == 14 + 4 * Len(tags)
      l4 == CASE proto = "TCP" -> 4 * doff [] proto \in {"UDP", "ICMP"} -> 8 [] OTHER -> 0
      ip_len == IF type = "IP" THEN 4 * ihl + l4 + n ELSE n
  IN  [tags |-> tags, type |-> type, ihl |-> ihl, ip_len |-> ip_len, proto |-> proto, doff |-> doff,
       sip |-> "sip", sport |-> "port", size |-> l3 + ip_len]

ParsedPackets ==
  {Pkt(<< >>, "IP", ihl, ihl, p, 10) : ihl \in {5, 6}, p \in {"TCP", "DCCP", "GRE", "OTHER"}}
    \cup {Pkt(t, "IP", 6, 6, p, 0) : t \in {<<"8021Q">>, <<"8021AD", "8021Q">>, <<"8021AD", "8021Q", "8021Q">>}, p \in {"UDP", "ICMP"}}
    \cup {[Pkt(<< >>, "IP", 5, 5, "TCP", 6) EXCEPT !.ip_len = 40]}      \* padded to 60 bytes
    \cup {Pkt(<< >>, "802.3", 5, 5, "TCP", 30), Pkt(<<"8021Q">>, "802.3", 5, 5, "TCP", 30), Pkt(<< >>, "ARP", 5, 5, "TCP", 28)}

MfrPackets == {
  Pkt(<< >>, "IP", 5, 5, "TCP", 0), Pkt(<< >>, "IP", 15, 15, "TCP", 239), Pkt(<< >>, "IP", 6, 5, "UDP", 240),
  Pkt(<< >>, "IP", 5, 5, "ICMP", 241), Pkt(<<"8021Q">>, "IP", 5, 5, "UDP", 3), Pkt(<<"8021AD", "8021Q">>, "IP", 5, 5, "OTHER", 30),
  Pkt(<< >>, "802.3", 5, 5, "TCP", 300), Pkt(<<"8021Q">>, "ARP", 5, 5, "TCP", 28) }

\* Captures that end within the headers, and header lengths below the least.
CutPackets == {
  [Pkt(<< >>, "IP", 5, 5, "TCP", 0) EXCEPT !.size = 40], [Pkt(<<"8021Q">>, "IP", 6, 5, "UDP", 0) EXCEPT !.size = 41],
  [Pkt(<< >>, "ARP", 5, 5, "TCP", 0) EXCEPT !.size = 6], Pkt(<< >>, "IP", 5, 3, "TCP", 20), Pkt(<< >>, "IP", 4, 5, "UDP", 10) }

\* Any few packets, and enough of one kind to fill a batch.
MfrBatch == 3
MfrGroup == 2
MfrCaptures ==
  SeqOf(MfrPackets, 3) \cup SeqOf(MfrPackets \cup CutPackets, 2) \cup {[k \in 1 .. n |-> p] : n \in 4 .. MfrBatch * MfrGroup + 1, p \in MfrPackets \cup CutPackets}
-----------------------------------------------------------------------------
(* OnnxTask: fixed and dynamic models with one and two inputs, as in the   *)
(* samples.                                                                *)

OnnxModels == { <<<<1, 4>>>>, <<<<-1, 4>>>>, <<<<-1>>>>, <<<<2, 5>>, <<5, 3>>>>, <<<<-1, 3>>, <<-1, 3>>>>,
                <<<<-1, 2>>, <<2, 2>>>>, <<<<-1, -1>>>>, <<<<-1, 1, 2, 2>>>> }
OnnxSizes == {0, 1, 3, 4, 5, 6, 9, 10, 16}
=============================================================================
