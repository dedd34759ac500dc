--------------------------- MODULE AttackTracing ----------------------------
(***************************************************************************)
(* Graph 3, "Attack Tracing and Defense": the packets of each NIC are      *)
(* counted by source, merged to blocks (AttackerMerge), grouped by block   *)
(* (SndSIPBaseMergeDeDupTask, or SndSIPBaseMergeTask), and then joined     *)
(* over the net (SndNetRecordMergeTask) and turned into rules              *)
(* (SndGenDeDupDMSRulesTask, or SndGenDMSRulesTask).                       *)
(***************************************************************************)
EXTENDS AttackerMerge, Features

CONSTANTS
  NICs,         \* the host-nic names, in the order of the graph's inputs
  PacketLists,  \* the packets a NIC may have seen
  NumStat,      \* ratioMin, ratioMax, keyLenThresh and labels of num_stat
  ProtoStat,    \* ratioMin, ratioMax and labels of proto_stat
  NetDevs       \* bps, its score, pps, its score, of each NIC

ASSUME TraceAssumption == WidthAssumption /\ ByteAssumption /\ NICs \in Seq(STRING) /\ NICs # << >>

VARIABLES
  DeDup,        \* which of the two pairs of tasks the graph names
  nicPackets,   \* what each NIC saw
  nic,          \* the NIC whose packets are being merged
  results,      \* AttackerIPMergeResult of the NICs done
  all_stat,     \* per NIC: SIPBaseMergeStats by block
  prepared,     \* per NIC: sip_dms_rules_prepare
  hosts_in_attack_link, nic_rules, stage

outVars == <<hosts_in_attack_link, nic_rules>>
traceVars == <<DeDup, nicPackets, nic, results, all_stat, prepared, outVars, stage>>

\* The key of random sources, and the block its rules carry.
RANDOM == [ip |-> 0, len |-> -1]
-----------------------------------------------------------------------------
(* Grouping *)

belongs(cidr, ip) == cidr.len \in 0 .. W /\ Prefix(cidr.ip, cidr.len) = Prefix(ip, cidr.len)

\* The first block in the list that an address belongs to, if any.  The
\* blocks of one program are disjoint.
Owners(ret, ip) ==
  LET first == {i \in 1 .. 3 : \E c \in ret.attackerIPs[i] : belongs(c, ip)} IN
  IF first = {} THEN {} ELSE {c \in ret.attackerIPs[Min(first)] : belongs(c, ip)}

\* The positions merged under a key.
Merged(ret, pkts, key) ==
  {i \in DOMAIN pkts : IF key = RANDOM THEN pkts[i][SIP] \in ret.randomIPs
                                       ELSE key \in Owners(ret, pkts[i][SIP])}

\* cidr_include_positions: the packets whose elements become rules.
cidr_include_positions(ret, pkts, key) ==
  {i \in DOMAIN pkts : IF key = RANDOM THEN Owners(ret, pkts[i][SIP]) = {}
                                       ELSE key \in Owners(ret, pkts[i][SIP])}

Keys(ret, pkts) ==
  (UNION {Owners(ret, pkts[i][SIP]) : i \in DOMAIN pkts})
    \cup (IF ret.containRandomAttack THEN {RANDOM} ELSE {})

keyDiffs(uset) ==
  LET keys == SetToSortSeq(uset, <) IN {keys[i + 1] - keys[i] : i \in 1 .. Len(keys) - 1}

\* a <= b * ratio, and a >= b * ratio.
AtMost(a, b, ratio) == a * ratio[2] <= b * ratio[1]
AtLeast(a, b, ratio) == a * ratio[2] >= b * ratio[1]

\* One of the four labels, by how many values there are and how regular.
NumberLabel(few, diffs, base) ==
  NumStat.label[CASE few -> 1
                  [] ~ few /\ AtMost(diffs, base, NumStat.ratioMin) -> 2
                  [] OTHER -> IF AtLeast(diffs, base, NumStat.ratioMax) THEN 3 ELSE 4]

\* SndSIPBaseMergeDeDupTask: all is measured by the number of values.
calc_number_stat_type_dedup(uset) ==
  NumberLabel(Cardinality(uset) < NumStat.keyLenThresh, Cardinality(keyDiffs(uset)), Cardinality(uset))

\* SndSIPBaseMergeTask: by the number of packets.
calc_number_stat_type(uset, numValueSum) ==
  NumberLabel(~ AtLeast(Cardinality(uset), numValueSum, NumStat.ratioMin),
              Cardinality(keyDiffs(uset)), numValueSum)

calc_proto_stat_type(pkts, at) ==
  [proto \in {pkts[i][Protocol] : i \in at} |->
     LET count == Cardinality({i \in at : pkts[i][Protocol] = proto}) IN
     ProtoStat.label[CASE AtLeast(count, Cardinality(at), ProtoStat.ratioMax) -> 1
                       [] AtLeast(count, Cardinality(at), ProtoStat.ratioMin)
                            /\ ~ AtLeast(count, Cardinality(at), ProtoStat.ratioMax) -> 2
                       [] OTHER -> 3]]

\* The values are kept only when they are few.
NumberStats(uset, numValueSum) ==
  LET type == IF DeDup THEN calc_number_stat_type_dedup(uset)
                       ELSE calc_number_stat_type(uset, numValueSum) IN
  [stat_type |-> type, value |-> IF type = NumStat.label[1] THEN uset ELSE {}]

SIPBaseMergeStats(pkts, at) ==
  LET field(f) == {pkts[i][f] : i \in at} IN
  [hostNicSign |-> NICs[nic], dstIP |-> field(DIP), protocol |-> calc_proto_stat_type(pkts, at),
   srcPort |-> NumberStats(field(SPort), Cardinality(at)),
   dstPort |-> NumberStats(field(DPort), Cardinality(at)),
   length |-> NumberStats(field(Length), Cardinality(at))]

\* A field of a rule: the number of a packet, or the name of the stat type.
Element(stats, number) ==
  IF stats.stat_type = "centralize" THEN <<"is", number>> ELSE <<"type", stats.stat_type>>

rule_stat(key, stat, p) ==
  [SIP |-> key, DIP |-> p[DIP], Protocol |-> p[Protocol], hostNicSign |-> stat.hostNicSign,
   SPort |-> Element(stat.srcPort, p[SPort]), DPort |-> Element(stat.dstPort, p[DPort]),
   Length |-> Element(stat.length, p[Length])]

\* Mutant of rule_elements: the protocol is left out of the key.
rule_elementsNoProto(r) == <<r.SIP, r.DIP, r.SPort, r.DPort, r.Length>>

\* Rules with the same elements are one.
rule_elements(r) == <<r.SIP, r.DIP, r.SPort, r.DPort, r.Protocol, r.Length>>

Prepare(ret, pkts, stats) ==
  LET all == UNION {{rule_stat(key, stats[key], pkts[i]) : i \in cidr_include_positions(ret, pkts, key)}
                     : key \in DOMAIN stats} IN
  {CHOOSE r \in all : rule_elements(r) = e : e \in {rule_elements(r) : r \in all}}
-----------------------------------------------------------------------------
(* Rules *)

calc_limit_rule(netdev) ==
  IF netdev[2] > netdev[4] THEN [mode |-> "bps", maxValue |-> netdev[1] \div 2]
                           ELSE [mode |-> "pps", maxValue |-> netdev[3] \div 2]

Action(drop, netdev) ==
  IF drop THEN [verb |-> "drop", limit |-> [mode |-> "", maxValue |-> 0]]
          ELSE [verb |-> "limit", limit |-> calc_limit_rule(netdev)]

\* SndGenDeDupDMSRulesTask: the ports are compared with "-1".
generate_dms_rule(r, netdev) ==
  [srcIP |-> r.SIP, dstIP |-> [ip |-> r.DIP, len |-> W], sPort |-> r.SPort, dPort |-> r.DPort,
   length |-> r.Length, protocol |-> r.Protocol,
   action |-> Action(r.SIP # RANDOM \/ r.SPort # <<"is", -1>> \/ r.DPort # <<"is", -1>>, netdev)]

\* SndGenDMSRulesTask: a number is assigned to the string dPort, as one
\* character; without a key the source is a default CIDR.
generate_dms_rules(key, stat, netdev) ==
  LET orAny(S) == IF S = {} THEN {-1} ELSE S
      drop == key # RANDOM \/ "centralize" \in {stat.srcPort.stat_type, stat.dstPort.stat_type} IN
  {[srcIP |-> IF key = RANDOM THEN [ip |-> 0, len |-> W] ELSE key, dPort |-> <<"char", port % 256>>,
    protocol |-> proto, action |-> Action(drop, netdev)]
     : port \in orAny(stat.dstPort.value), proto \in orAny(DOMAIN stat.protocol)}
-----------------------------------------------------------------------------
\* Open fails unless all labels are there.
Open == Len(NumStat.label) = 4 /\ Len(ProtoStat.label) = 3

TraceInit ==
  /\ Open /\ DeDup \in BOOLEAN
  /\ nicPackets \in [1 .. Len(NICs) -> PacketLists]
  /\ nic = 1 /\ input = FeatureCounter(nicPackets[1], <<"SIP">>)["SIP"] /\ MergeInit
  /\ results = << >> /\ all_stat = << >> /\ prepared = << >>
  /\ hosts_in_attack_link = {} /\ nic_rules = << >> /\ stage = "merge"

MergeStep == Merge /\ UNCHANGED traceVars

\* The next NIC's packets, through a graph of its own.
NextNIC ==
  /\ nic' = nic + 1
  /\ input' = FeatureCounter(nicPackets[nic + 1], <<"SIP">>)["SIP"] /\ ipCountDF' = input'
  /\ prog' = 1 /\ attackerIPs' = <<{}, {}, {}>>
  /\ randomIPs' = {} /\ containRandomAttack' = FALSE
  /\ UNCHANGED <<opts, all_known_ips, stage>>

MergeResult == [attackerIPs |-> attackerIPs, randomIPs |-> randomIPs,
                containRandomAttack |-> containRandomAttack]

GroupedStats ==
  [key \in Keys(MergeResult, nicPackets[nic]) |->
     SIPBaseMergeStats(nicPackets[nic], Merged(MergeResult, nicPackets[nic], key))]

Output(stats, prepare) ==
  /\ stage = "merge" /\ prog = Sent
  /\ results' = Append(results, MergeResult)
  /\ all_stat' = Append(all_stat, stats)
  /\ prepared' = Append(prepared, prepare)
  /\ IF nic < Len(NICs) THEN NextNIC ELSE stage' = "net" /\ UNCHANGED <<mergeVars, nic>>
  /\ UNCHANGED <<DeDup, nicPackets, outVars>>

SIPBaseMerge == ~ DeDup /\ Output(GroupedStats, {})

SIPBaseMergeDeDup == DeDup /\ Output(GroupedStats, Prepare(MergeResult, nicPackets[nic], GroupedStats))

LinkKey(key, dip) == <<key, dip>>

\* SndNetRecordMergeTask: the NICs on each link.
NetRecordMerge ==
  /\ stage = "net"
  /\ hosts_in_attack_link' =
       UNION {UNION {{<<LinkKey(key, dip), all_stat[m][key].hostNicSign>> : dip \in all_stat[m][key].dstIP}
                       : key \in DOMAIN all_stat[m]} : m \in 1 .. Len(NICs)}
  /\ stage' = "rules"
  /\ UNCHANGED <<mergeVars, DeDup, nicPackets, nic, results, all_stat, prepared, nic_rules>>

SendRules(rules) ==
  /\ stage = "rules"
  /\ nic_rules' = rules /\ stage' = "done"
  /\ UNCHANGED <<mergeVars, DeDup, nicPackets, nic, results, all_stat, prepared, hosts_in_attack_link>>

GenDMSRules ==
  /\ ~ DeDup
  /\ SendRules([m \in 1 .. Len(NICs) |->
                  UNION {generate_dms_rules(key, all_stat[m][key], NetDevs[m]) : key \in DOMAIN all_stat[m]}])

GenDeDupDMSRules ==
  /\ DeDup
  /\ SendRules([m \in 1 .. Len(NICs) |-> {generate_dms_rule(r, NetDevs[m]) : r \in prepared[m]}])

TraceNext == MergeStep \/ SIPBaseMerge \/ SIPBaseMergeDeDup \/ NetRecordMerge \/ GenDMSRules \/ GenDeDupDMSRules

TraceSpec == TraceInit /\ [][TraceNext]_<<mergeVars, traceVars>>
-----------------------------------------------------------------------------
(* Properties *)

NICIndex == 1 .. Len(NICs)
Fits(element, number) == element[1] = "type" \/ element[2] = number
Matches(r, p) ==
  /\ r.dstIP.ip = p[DIP] /\ r.protocol = p[Protocol]
  /\ r.srcIP = RANDOM \/ belongs(r.srcIP, p[SIP])
  /\ Fits(r.sPort, p[SPort]) /\ Fits(r.dPort, p[DPort]) /\ Fits(r.length, p[Length])

(***************************************************************************)
(* Types: a group has packets, and a NIC is merged after the one before.   *)
(***************************************************************************)
TraceTypeOK ==
  /\ Len(results) = Len(all_stat) /\ Len(all_stat) = Len(prepared) /\ Len(results) \in {nic - 1, nic}
  /\ \A m \in DOMAIN all_stat : \A key \in DOMAIN all_stat[m] :
       (key = RANDOM \/ IsBlock(key)) /\ all_stat[m][key].dstIP # {}

(***************************************************************************)
(* Every packet from a reported block is dropped by a rule of its NIC.     *)
(***************************************************************************)
EachIsDropped ==
  stage = "done" =>
    \A m \in NICIndex : \A i \in DOMAIN nicPackets[m] :
      Owners(results[m], nicPackets[m][i][SIP]) # {} =>
        \E r \in nic_rules[m] : r.action.verb = "drop" /\ r.srcIP # RANDOM /\ Matches(r, nicPackets[m][i])

(***************************************************************************)
(* A NIC is on the link of exactly those pairs of a block (or RANDOM) and  *)
(* a destination that its packets show.                                    *)
(***************************************************************************)
LinksComplete ==
  stage \in {"rules", "done"} =>
    hosts_in_attack_link =
      UNION {UNION {{<<<<key, nicPackets[m][i][DIP]>>, NICs[m]>>
                       : key \in Owners(results[m], nicPackets[m][i][SIP])
                                   \cup (IF nicPackets[m][i][SIP] \in results[m].randomIPs THEN {RANDOM} ELSE {})}
                      : i \in DOMAIN nicPackets[m]} : m \in NICIndex}

(***************************************************************************)
(* The action judge: sources at random with no port to tell them by are    *)
(* limited, since a drop would take all traffic to the destination.        *)
(***************************************************************************)
RandomIsLimited ==
  stage = "done" =>
    \A m \in NICIndex :
      (/\ RANDOM \in DOMAIN all_stat[m]
       /\ "centralize" \notin {all_stat[m][RANDOM].srcPort.stat_type, all_stat[m][RANDOM].dstPort.stat_type})
      => \E r \in nic_rules[m] : r.action.verb = "limit"

(***************************************************************************)
(* Graph 3: every packet from a reported block is dropped by a rule of the *)
(* NIC that saw it, and that NIC is on the link of exactly those pairs of  *)
(* a block (or RANDOM) and a destination that its packets show. The older  *)
(* tasks limit sources at random with no port to tell them by, since a     *)
(* drop would take all traffic to the destination.                         *)
(***************************************************************************)
RulesCoverAttack ==
  /\ DeDup => EachIsDropped
  /\ LinksComplete
  /\ ~ DeDup => RandomIsLimited
-----------------------------------------------------------------------------
(* The inductive invariant of CppComponents_proofs *)

Listed(s) == s \in Seq({s[i] : i \in DOMAIN s})

\* What the merge found of NIC m was grouped by its blocks, and prepared.
GroupedRight(m) ==
  /\ DOMAIN all_stat[m] = Keys(results[m], nicPackets[m])
  /\ \A key \in DOMAIN all_stat[m] :
       /\ all_stat[m][key].hostNicSign = NICs[m]
       /\ all_stat[m][key].dstIP = {nicPackets[m][i][DIP] : i \in Merged(results[m], nicPackets[m], key)}
  /\ DeDup => prepared[m] = Prepare(results[m], nicPackets[m], all_stat[m])
  /\ results[m].randomIPs # {} => results[m].containRandomAttack

TraceInv ==
  /\ Listed(results) /\ Listed(all_stat) /\ Listed(prepared)
  /\ Len(all_stat) = Len(results) /\ Len(prepared) = Len(results)
  /\ stage \in {"merge", "net", "rules", "done"}
  /\ IF stage = "merge" THEN nic = Len(results) + 1 /\ nic <= Len(NICs) ELSE Len(results) = Len(NICs)
  /\ randomIPs # {} => containRandomAttack
  /\ \A m \in 1 .. Len(results) : GroupedRight(m)
  /\ RulesCoverAttack
=============================================================================
