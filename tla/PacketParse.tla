---------------------------- MODULE PacketParse -----------------------------
(***************************************************************************)
(* From the bytes of a ring slot, or of a capture file, to the packets'    *)
(* features: the header is skipped field by field, then a cursor walks the *)
(* packets.  The five parsers of the repository differ in the protocols    *)
(* they keep, in the ports of a protocol without ports and in the header.  *)
(***************************************************************************)
EXTENDS PacketBytes

CONSTANTS
  Packets,      \* the packets a capture may hold
  MaxPackets,   \* bound: packets of a capture
  MaxApplied,   \* most packets sccm writes to a slot (10000)
  NameLens      \* lengths of NIC names

ASSUME PacketsAssumption ==
  /\ \A p \in Packets : IsPacket(p) /\ HoldsHeaders(p) /\ (p.type = "IP" => L4(p) + 4 <= Size(p))
  /\ MaxPackets \in Nat /\ MaxApplied \in Nat

VARIABLES
  parser,       \* which of the parsers runs
  slot,         \* the packets written
  name_len, countTotal,
  parsePhase,        \* "open", "packets", "done"
  offset, data, pkt_len, pktIndex,
  reach,        \* end of the bytes read, after the header
  packets, ret

parseVars == <<parser, slot, name_len, countTotal, parsePhase, offset, data, pkt_len, pktIndex, reach, packets, ret>>
-----------------------------------------------------------------------------
\* Protocols kept, by where their ports come from.
SndPcapParseTask == [l4 |-> {"TCP", "UDP"}, absent |-> {"ICMP"}, zero |-> {}]
RBDataParseTask == [l4 |-> {"TCP", "UDP"}, absent |-> {"ICMP"}, zero |-> {}]
sccm == [l4 |-> {"TCP", "UDP"}, absent |-> {"ICMP"}, zero |-> {}]
A100 == [l4 |-> {"TCP", "UDP"}, absent |-> {}, zero |-> {"ICMP"}]
grpc == [l4 |-> {"TCP", "UDP", "DCCP"}, absent |-> {},
         zero |-> {"ICMP", "IGMP", "EGP", "GRE", "RSVP", "AH", "EIGRP", "OSPF"}]

Keeps == [SndPcapParseTask |-> SndPcapParseTask, RBDataParseTask |-> RBDataParseTask,
          sccm |-> sccm, A100 |-> A100, grpc |-> grpc]
Parsers == DOMAIN Keeps

\* Bytes of the header: name length, name, time, nine counts; the servers'
\* also has four rates and the speed, six resources, two addresses and
\* thirteen more.
TaskHeader(n) == 2 + n + 8 + 9 * 4
SccmHeader(n) == TaskHeader(n) + (4 + 1) * 8 + (1 + 5) * 8 + 4 + 4 + 13 * 8
A100Header(n) == SccmHeader(n)
GrpcHeader(n) == SccmHeader(n)

parse_header(n) ==
  CASE parser = "RBDataParseTask" -> TaskHeader(n)
    [] parser = "sccm" -> SccmHeader(n)
    [] parser = "A100" -> A100Header(n)
    [] parser = "grpc" -> GrpcHeader(n)

\* Mutant of PortsOf: the first parsers' branch, which leaves the ports out.
PortsOfAbsent(keep, body, l3_off) ==
  IF body.proto \in keep.l4 THEN Port(body, l3_off + 4 * body.ihl, body.sport) ELSE "absent"

PortsOf(keep, body, l3_off) ==
  CASE body.proto \in keep.l4 -> Port(body, l3_off + 4 * body.ihl, body.sport)
    [] body.proto \in keep.zero -> "0"
    [] OTHER -> "absent"

\* The packet's features, or none.
parse_snd_features(keep, body) ==
  LET eth == parse_ethtype_vlan(body) IN
  IF \/ eth.ret # 0
     \/ eth.h_proto # "IP"
     \/ Ip(body, eth.l3_off, body.proto) \notin keep.l4 \cup keep.absent \cup keep.zero
  THEN << >>
  ELSE << [SIP |-> Ip(body, eth.l3_off, body.sip), SPort |-> PortsOf(keep, body, eth.l3_off),
           Protocol |-> body.proto, Length |-> Ip(body, eth.l3_off, body.ip_len)] >>
-----------------------------------------------------------------------------
Captured == SeqOf(Packets, MaxPackets)

\* sccm writes as many packets as it counted, but at most MaxApplied.
ParseInit ==
  /\ parser \in Parsers
  /\ slot \in Captured /\ name_len \in NameLens
  /\ countTotal \in IF Len(slot) = MaxApplied THEN {MaxApplied, MaxApplied + 1} ELSE {Len(slot)}
  /\ (parser # "SndPcapParseTask" => Len(slot) <= MaxApplied)
  /\ parsePhase = "open" /\ offset = 0 /\ data = 0 /\ pkt_len = 0 /\ pktIndex = 0 /\ reach = 0
  /\ packets = << >> /\ ret = 0

\* A file that cannot be opened; the wrong type of datum; no packets.
Refuse ==
  /\ parsePhase = "open" /\ parsePhase' = "done"
  /\ \/ parser \in {"SndPcapParseTask", "RBDataParseTask"} /\ ret' = -1
     \/ parser # "SndPcapParseTask" /\ countTotal = 0 /\ ret' = -100
  /\ UNCHANGED <<parser, slot, name_len, countTotal, offset, data, pkt_len, pktIndex, reach, packets>>

OpenSlot ==
  /\ parsePhase = "open" /\ parsePhase' = "packets"
  /\ parser # "SndPcapParseTask" => countTotal > 0
  /\ offset' = IF parser = "SndPcapParseTask" THEN 0 ELSE parse_header(name_len)
  /\ pkt_len' = PktLenAt(slot, 0) /\ reach' = 2
  /\ UNCHANGED <<parser, slot, name_len, countTotal, data, pktIndex, packets, ret>>

\* Mutant of Applied: as many as were counted.
AppliedAll == countTotal

Applied == IF countTotal > MaxApplied THEN MaxApplied ELSE countTotal

\* One turn of the loop of parse_packets: also after the last packet the
\* next length is read.
ParsePacket ==
  /\ parsePhase = "packets" /\ parser # "SndPcapParseTask" /\ pktIndex < Applied
  /\ packets' = packets \o parse_snd_features(Keeps[parser], BodyAt(slot, data + 2))
  /\ data' = data + 2 + pkt_len
  /\ pkt_len' = PktLenAt(slot, data')
  /\ reach' = data' + 2
  /\ pktIndex' = pktIndex + 1
  /\ UNCHANGED <<parser, slot, name_len, countTotal, parsePhase, offset, ret>>

\* pcap_loop calls parse_snd_features for each packet of the file.
PcapPacket ==
  /\ parsePhase = "packets" /\ parser = "SndPcapParseTask" /\ pktIndex < Len(slot)
  /\ packets' = packets \o parse_snd_features(Keeps[parser], slot[pktIndex + 1])
  /\ pktIndex' = pktIndex + 1
  /\ UNCHANGED <<parser, slot, name_len, countTotal, parsePhase, offset, data, pkt_len, reach, ret>>

Finish ==
  /\ parsePhase = "packets" /\ parsePhase' = "done"
  /\ pktIndex = IF parser = "SndPcapParseTask" THEN Len(slot) ELSE Applied
  /\ UNCHANGED <<parser, slot, name_len, countTotal, offset, data, pkt_len, pktIndex, reach, packets, ret>>

ParseNext == Refuse \/ OpenSlot \/ ParsePacket \/ PcapPacket \/ Finish

ParseSpec == ParseInit /\ [][ParseNext]_parseVars
-----------------------------------------------------------------------------
(* Properties *)

(***************************************************************************)
(* Types: the result codes of Process, and only fields of the packets'     *)
(* own headers.                                                            *)
(***************************************************************************)
ParseTypeOK ==
  /\ ret \in {-100, -1, 0} /\ parsePhase \in {"open", "packets", "done"}
  /\ pktIndex \in 0 .. MaxPackets /\ Len(packets) <= pktIndex /\ data \in Nat
  /\ \A k \in DOMAIN packets : packets[k].SPort \in {"port", "0", "absent"}

(***************************************************************************)
(* The cursor stays on packet boundaries and reads no further than the     *)
(* one length word after the last packet written, whatever sccm counted.   *)
(***************************************************************************)
ReadsWhatWasWritten ==
  parsePhase # "open" => reach <= Start(slot, Len(slot) + 1) + 2

(***************************************************************************)
(* What is handed on are the IPv4 packets of the kept protocols under at   *)
(* most two VLAN tags, in order, with the fields of their own headers.     *)
(***************************************************************************)
Kept(pkt) ==
  /\ pkt.type = "IP" /\ Len(pkt.tags) <= 2
  /\ pkt.proto \in UNION {Keeps[parser].l4, Keeps[parser].absent, Keeps[parser].zero}

\* The place of the k-th packet among those kept.
Place(k) == Cardinality({j \in 1 .. k : Kept(slot[j])})

TrueFeatures(f, pkt) ==
  /\ f.SIP = pkt.sip /\ f.Protocol = pkt.proto
  /\ f.SPort = IF pkt.proto \in Keeps[parser].l4 THEN pkt.sport
               ELSE IF parser \in {"A100", "grpc"} THEN "0" ELSE "absent"
  /\ f.Length = pkt.ip_len

HandedOn(n) ==
  /\ Len(packets) = Place(n)
  /\ \A k \in 1 .. n : Kept(slot[k]) => TrueFeatures(packets[Place(k)], slot[k])

FeaturesTrue == parsePhase = "done" /\ ret = 0 => HandedOn(Len(slot))
-----------------------------------------------------------------------------
(* The inductive invariant of CppComponents_proofs *)

Field == (UNION {{p.sip, p.sport, p.proto} : p \in Packets}) \cup {"other", "0", "absent"}
Feature == [SIP : Field, SPort : Field, Protocol : Field, Length : Int]

ParseInv ==
  /\ parser \in Parsers /\ slot \in Seq(Packets) /\ pktIndex \in 0 .. Len(slot) /\ packets \in Seq(Feature)
  /\ parser # "SndPcapParseTask" => Applied = Len(slot)
  /\ parsePhase = "open" => pktIndex = 0 /\ data = 0 /\ ret = 0 /\ reach = 0
  /\ parsePhase = "packets" => ret = 0
  /\ parsePhase = "packets" /\ parser # "SndPcapParseTask" =>
       data = Start(slot, pktIndex + 1) /\ pkt_len = PktLenAt(slot, data)
  /\ parsePhase = "done" /\ ret = 0 => pktIndex = Len(slot)
  /\ HandedOn(pktIndex) /\ ReadsWhatWasWritten
=============================================================================
