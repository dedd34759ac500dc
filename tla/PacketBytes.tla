----------------------------- MODULE PacketBytes ----------------------------
(***************************************************************************)
(* A captured packet as the parsers see it: an Ethernet header with VLAN   *)
(* tags, an IPv4 header with options, a TCP, UDP or ICMP header, data.  A  *)
(* field is known by its true offset; read anywhere else it is other       *)
(* bytes.  A capture may end within the headers: a field is then what      *)
(* lies at its place after the capture.  Shared by the feature parsers and *)
(* the MFR preprocessing.                                                  *)
(***************************************************************************)
EXTENDS Sums, Sequences, FiniteSets, SequencesExt

ETH_HLEN == 14
VLAN_HLEN == 4
IP_HLEN == 20                        \* sizeof(struct ip)
UINT16 == 65536                      \* values of a uint16_t
VLAN == {"8021Q", "8021AD"}

\* A packet is [tags, type, ihl, ip_len, proto, doff, sip, sport, size]: types
\* of its VLAN tags, the type after them, header lengths in 4-byte words and
\* the total length as the headers give them, and the bytes captured.
IsPacket(pkt) ==
  /\ pkt.tags \in Seq(VLAN) /\ pkt.type \in STRING \ VLAN
  /\ pkt.ihl \in 0 .. 15 /\ pkt.doff \in 0 .. 15
  /\ pkt.ip_len \in 0 .. UINT16 - 1 /\ pkt.size \in 0 .. UINT16 - 1

L4Len(pkt) ==
  CASE pkt.proto = "TCP" -> 4 * pkt.doff [] pkt.proto \in {"UDP", "ICMP"} -> 8 [] OTHER -> 0
L3(pkt) == ETH_HLEN + VLAN_HLEN * Len(pkt.tags)
L4(pkt) == L3(pkt) + 4 * pkt.ihl
Size(pkt) == pkt.size

\* The capture holds the headers, and their lengths are not below the least.
HoldsHeaders(pkt) ==
  /\ L3(pkt) <= Size(pkt)
  /\ pkt.type = "IP" =>
       pkt.ihl >= 5 /\ (pkt.proto = "TCP" => pkt.doff >= 5) /\ L4(pkt) + L4Len(pkt) <= Size(pkt)

EtherTypeAt(pkt, k) ==
  IF k < Len(pkt.tags) THEN pkt.tags[k + 1] ELSE IF k = Len(pkt.tags) THEN pkt.type ELSE "other"

\* Up to two tags are skipped; only the outer type is compared with
\* ETH_P_802_3_MIN.
parse_ethtype_vlan(pkt) ==
  LET n == IF EtherTypeAt(pkt, 0) \notin VLAN THEN 0 ELSE IF EtherTypeAt(pkt, 1) \notin VLAN THEN 1 ELSE 2
  IN  [ret |-> IF EtherTypeAt(pkt, 0) = "802.3" THEN -1 ELSE 0,
       h_proto |-> EtherTypeAt(pkt, n), l3_off |-> ETH_HLEN + n * VLAN_HLEN]

\* What is read at an offset where a header, or a port, truly is, or is not.
Ip(pkt, off, v) == IF off = L3(pkt) THEN v ELSE "other"
Port(pkt, off, v) == IF off = L4(pkt) THEN v ELSE "other"

\* Packets lie one after the other, each after its 2-byte length.
Start(pkts, k) == SumTo([j \in DOMAIN pkts |-> 2 + Size(pkts[j])], k - 1)
Aligned(pkts, a) == {k \in DOMAIN pkts : Start(pkts, k) = a}
PktLenAt(pkts, a) ==
  IF Aligned(pkts, a) = {} THEN 0 ELSE Size(pkts[CHOOSE k \in Aligned(pkts, a) : TRUE])
BodyAt(pkts, a) ==
  IF Aligned(pkts, a - 2) = {} THEN [tags |-> << >>, type |-> "802.3", ihl |-> 5, ip_len |-> 0, proto |-> "TCP",
                                     doff |-> 5, sip |-> "other", sport |-> "other", size |-> 0]
  ELSE pkts[CHOOSE k \in Aligned(pkts, a - 2) : TRUE]
=============================================================================
