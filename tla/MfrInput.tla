------------------------------ MODULE MfrInput ------------------------------
(***************************************************************************)
(* Preprocessing for the MFR traffic model (rb_data_mfr.cc and the sample  *)
(* that reads a pcap file): each packet becomes 160 hex characters of      *)
(* headers and 480 of payload, five packets make an item, a batch is       *)
(* filled up with zero items, and the model's labels are put to the vote.  *)
(* Lengths are unsigned: those of a packet cut within its headers, or with *)
(* a header length below the least, wrap.                                  *)
(***************************************************************************)
EXTENDS PacketBytes

CONSTANTS
  Captures,      \* sequences of them
  batch_size,    \* items of a batch (64)
  Group,         \* packets of an item (5)
  Labels,        \* how many labels the model knows
  ULONG          \* values of unsigned long and size_t: 2^64 in the code

CapturedPackets == UNION {Range(c) : c \in Captures}
ASSUME CapturesAssumption ==
  /\ \A c \in Captures : c \in Seq(CapturedPackets)
  /\ \A p \in CapturedPackets : IsPacket(p)
  /\ batch_size \in Nat \ {0} /\ Group \in Nat \ {0} /\ Labels \in Nat \ {0}
  /\ ULONG \in Nat /\ ULONG >= 2 * UINT16

VARIABLES
  source,        \* "slot" of the server or "pcap" of the sample
  mfrSlot, mfrIndex, mfrOffset, mfrLen,
  mfrPhase,      \* parse, infer, vote, done, or "fault" once a read has ended the process
  mfr_data,      \* one record per packet parsed
  mfr_bytes_list,\* the items, each a sequence of such records
  model_output,  \* the label the model gives each item
  label

mfrVars == <<source, mfrSlot, mfrPhase, mfrIndex, mfrOffset, mfrLen, mfr_data, mfr_bytes_list, model_output, label>>

HEADER == 160
PAYLOAD == 480
-----------------------------------------------------------------------------
\* Bytes of IP options: an int, compared as a size_t.
IpOptLen(pkt) == (4 * pkt.ihl - IP_HLEN) % ULONG

\* Characters the IP header gives: twenty bytes and the options.
IpChars(pkt) == 2 * IP_HLEN + 2 * IpOptLen(pkt)

\* ... and the TCP, UDP or ICMP header; opt_len of TCP is a uint16_t.
TcpOptLen(pkt) == (4 * pkt.doff - 20) % UINT16
TcpChars(pkt) == 4 + 4 + 8 + 8 + 4 + 4 + 4 + 4 + 2 * TcpOptLen(pkt)
UdpChars == 4 + 4 + 4 + 4
IcmpChars == 2 + 2 + 4 + 4 + 4
L4Chars(pkt) ==
  CASE pkt.proto = "TCP" -> TcpChars(pkt) [] pkt.proto = "UDP" -> UdpChars
    [] pkt.proto = "ICMP" -> IcmpChars [] OTHER -> 0

\* Cut, or filled up with '0'.
Fit(n, width) == IF n > width THEN width ELSE n + (width - n)

\* header: the characters that the headers gave; from, upto: the bytes read
\* as payload, at most 240.
Item(pkt, header, start, data_len) ==
  LET n == IF data_len >= PAYLOAD \div 2 THEN PAYLOAD \div 2 ELSE data_len
  IN  [pkt |-> pkt, chars |-> Fit(header, HEADER) + 2 * n + (PAYLOAD - 2 * n), header |-> header,
       from |-> start, upto |-> start + n]

\* Not Ethernet II, or not IP: zeros for headers, and all of the packet is
\* payload.
RawItem(pkt, len) == Item(pkt, 0, 0, len)

\* Mutant of DataLen: the IP options are not taken off.
DataLenNoOptions(pkt, len) == (len - ETH_HLEN - IP_HLEN - L4Len(pkt)) % ULONG

\* The VLAN tags are not taken off; the difference is an unsigned long.
DataLen(pkt, len) == (len - ETH_HLEN - 4 * pkt.ihl - L4Len(pkt)) % ULONG

IpItem(pkt, len, l3_off) ==
  Item(pkt, IpChars(pkt) + L4Chars(pkt), l3_off + 4 * pkt.ihl + L4Len(pkt), DataLen(pkt, len))

parse_mfr_features(pkt, len) ==
  LET eth == parse_ethtype_vlan(pkt)
  IN  IF eth.ret # 0 \/ eth.h_proto # "IP" THEN RawItem(pkt, len) ELSE IpItem(pkt, len, eth.l3_off)

parse_mfr_features_pcap(pkt, caplen) == parse_mfr_features(pkt, caplen)

\* IP options of less than no bytes: the loop over them runs through memory.
Unending(pkt) == parse_ethtype_vlan(pkt).h_proto = "IP" /\ pkt.ihl < 5

\* Headers or payload are read beyond the packet.
Overread(pkt, len) ==
  LET d == parse_mfr_features(pkt, len)
  IN  parse_ethtype_vlan(pkt).l3_off + (d.header \div 2) > len \/ d.upto > len
-----------------------------------------------------------------------------
MfrInit ==
  /\ source \in {"slot", "pcap"} /\ mfrSlot \in Captures
  /\ mfrPhase = "parse" /\ mfrIndex = 0 /\ mfrOffset = 0 /\ mfrLen = PktLenAt(mfrSlot, 0)
  /\ mfr_data = << >> /\ mfr_bytes_list = << >> /\ model_output = << >> /\ label = 0

need_parse_cnt == IF Len(mfrSlot) >= batch_size * Group THEN batch_size * Group ELSE Len(mfrSlot)

MfrSlotPacket ==
  /\ mfrPhase = "parse" /\ source = "slot" /\ mfrIndex < need_parse_cnt
  /\ ~ Unending(BodyAt(mfrSlot, mfrOffset + 2))
  /\ mfr_data' = Append(mfr_data, parse_mfr_features(BodyAt(mfrSlot, mfrOffset + 2), mfrLen))
  /\ mfrOffset' = mfrOffset + 2 + mfrLen /\ mfrLen' = PktLenAt(mfrSlot, mfrOffset') /\ mfrIndex' = mfrIndex + 1
  /\ UNCHANGED <<source, mfrSlot, mfrPhase, mfr_bytes_list, model_output, label>>

\* pcap_loop ends after batch_size * 5 packets, or with the file.
MfrPcapPacket ==
  /\ mfrPhase = "parse" /\ source = "pcap" /\ mfrIndex < need_parse_cnt
  /\ ~ Unending(mfrSlot[mfrIndex + 1])
  /\ mfr_data' = Append(mfr_data, parse_mfr_features_pcap(mfrSlot[mfrIndex + 1], Size(mfrSlot[mfrIndex + 1])))
  /\ mfrIndex' = mfrIndex + 1
  /\ UNCHANGED <<source, mfrSlot, mfrPhase, mfrOffset, mfrLen, mfr_bytes_list, model_output, label>>

\* What lies beyond a packet may not be mapped; a loop through memory comes
\* to the end of it.
MfrFault ==
  /\ mfrPhase = "parse" /\ mfrIndex < need_parse_cnt /\ mfrPhase' = "fault"
  /\ IF source = "slot" THEN Overread(BodyAt(mfrSlot, mfrOffset + 2), mfrLen)
     ELSE Overread(mfrSlot[mfrIndex + 1], Size(mfrSlot[mfrIndex + 1]))
  /\ UNCHANGED <<source, mfrSlot, mfrIndex, mfrOffset, mfrLen, mfr_data, mfr_bytes_list, model_output, label>>

\* A file that cannot be opened leaves the list empty, and the model is run
\* on the zeros of its buffer all the same.
PcapOpenFails ==
  /\ mfrPhase = "parse" /\ source = "pcap" /\ mfrIndex = 0 /\ mfrPhase' = "infer"
  /\ UNCHANGED <<source, mfrSlot, mfrIndex, mfrOffset, mfrLen, mfr_data, mfr_bytes_list, model_output, label>>

Zeros == [j \in 1 .. Group |-> [chars |-> HEADER + PAYLOAD]]

Groups(ds) == [k \in 1 .. Len(ds) \div Group |-> SubSeq(ds, Group * (k - 1) + 1, Group * k)]

Padding(n) == [k \in 1 .. batch_size - n |-> Zeros]

get_mfr_bytes ==
  /\ mfrPhase = "parse" /\ mfrIndex = need_parse_cnt /\ mfrPhase' = "infer"
  /\ mfr_bytes_list' = Groups(mfr_data) \o Padding(Len(Groups(mfr_data)))
  /\ UNCHANGED <<source, mfrSlot, mfrIndex, mfrOffset, mfrLen, mfr_data, model_output, label>>

\* The session gives every item of the buffer some label, all zero items
\* the same one.
IsPadding(k) == k > Len(mfr_bytes_list) \/ mfr_bytes_list[k] = Zeros
Infer ==
  /\ mfrPhase = "infer" /\ mfrPhase' = "vote"
  /\ model_output' \in {f \in [1 .. batch_size -> 0 .. Labels - 1] :
                          \A j, k \in 1 .. batch_size : IsPadding(j) /\ IsPadding(k) => f[j] = f[k]}
  /\ UNCHANGED <<source, mfrSlot, mfrIndex, mfrOffset, mfrLen, mfr_data, mfr_bytes_list, label>>

Votes(l) == Cardinality({k \in DOMAIN model_output : model_output[k] = l})

\* max_element: the first of the labels given most often.
get_label_from_infer_ret ==
  /\ mfrPhase = "vote" /\ mfrPhase' = "done"
  /\ label' = CHOOSE l \in 0 .. Labels - 1 :
       \A m \in 0 .. Labels - 1 : IF m < l THEN Votes(m) < Votes(l) ELSE Votes(m) <= Votes(l)
  /\ UNCHANGED <<source, mfrSlot, mfrIndex, mfrOffset, mfrLen, mfr_data, mfr_bytes_list, model_output>>

MfrNext == MfrSlotPacket \/ MfrPcapPacket \/ MfrFault \/ PcapOpenFails \/ get_mfr_bytes \/ Infer \/ get_label_from_infer_ret

MfrSpec == MfrInit /\ [][MfrNext]_mfrVars
-----------------------------------------------------------------------------
(* Properties *)

(***************************************************************************)
(* Types: every packet gives exactly 640 characters, whatever its headers  *)
(* and however short it is.                                                *)
(***************************************************************************)
MfrTypeOK ==
  /\ mfrPhase \in {"parse", "fault", "infer", "vote", "done"} /\ label \in 0 .. Labels - 1
  /\ \A k \in DOMAIN mfr_data : mfr_data[k].chars = HEADER + PAYLOAD

(***************************************************************************)
(* get_model_input writes 1600 numbers for each item to a buffer for       *)
(* batch_size items: the list never has more items, only a file that       *)
(* cannot be opened gives fewer, and each has all its characters.          *)
(***************************************************************************)
Chars(item) == SumTo([j \in DOMAIN item |-> item[j].chars], Len(item))
BatchFitsBuffer ==
  mfrPhase \in {"infer", "vote", "done"} =>
    /\ Len(mfr_bytes_list) = batch_size \/ (source = "pcap" /\ mfr_bytes_list = << >>)
    /\ \A k \in DOMAIN mfr_bytes_list : Chars(mfr_bytes_list[k]) = Group * (HEADER + PAYLOAD)

(***************************************************************************)
(* Unless the batch is full, fewer than five packets are left out of it.   *)
(***************************************************************************)
FewLeftOut ==
  (mfrPhase = "infer" /\ mfr_bytes_list # << >>) =>
    LET real == Cardinality({k \in DOMAIN mfr_bytes_list : mfr_bytes_list[k] # Zeros}) IN
    real = batch_size \/ Len(mfrSlot) - Group * real \in 0 .. Group - 1

(***************************************************************************)
(* The payload of an IP packet begins where its headers say they end. A    *)
(* capture that holds the headers gives two characters for each byte of    *)
(* them, and the payload ends with the capture or beyond it by no more     *)
(* than the VLAN tags, although lengths are taken off an unsigned one;     *)
(* only a capture that ends before the headers do makes the length wrap,   *)
(* and then 240 bytes are read that are not the packet's. Of other packets *)
(* nothing is read beyond the capture.                                     *)
(***************************************************************************)
IpRecordRight(d) ==
  LET ends == L4(d.pkt) + L4Len(d.pkt)
      last == Size(d.pkt) + VLAN_HLEN * Len(d.pkt.tags) IN
  /\ d.from = ends
  /\ IF ends <= last THEN d.upto <= last ELSE d.upto = ends + PAYLOAD \div 2
  /\ HoldsHeaders(d.pkt) => d.header = 2 * (4 * d.pkt.ihl + L4Len(d.pkt))
RawRecordRight(d) == d.from = 0 /\ d.upto <= Size(d.pkt)
RecordRight(d) ==
  IF d.pkt.type = "IP" /\ Len(d.pkt.tags) <= 2 THEN IpRecordRight(d) ELSE RawRecordRight(d)

PayloadAfterHeaders == \A k \in DOMAIN mfr_data : RecordRight(mfr_data[k])

(***************************************************************************)
(* The payload part of an IP packet without tags is part of the packet, as *)
(* the comments of the protocols' branches have it. data_len wraps when    *)
(* the capture ends within the headers: a run shows bytes after the packet *)
(* that are handed to the model.                                           *)
(***************************************************************************)
PayloadInPacket ==
  \A k \in DOMAIN mfr_data :
    mfr_data[k].pkt.type = "IP" /\ mfr_data[k].pkt.tags = << >> => mfr_data[k].upto <= Size(mfr_data[k].pkt)

(***************************************************************************)
(* When the traffic's items agree and outnumber the zero items, theirs is  *)
(* the label; when the zero items are the majority, it is the zero item's. *)
(***************************************************************************)
MajorityDecides ==
  mfrPhase = "done" =>
    \A l \in 0 .. Labels - 1 : 2 * Cardinality({k \in 1 .. batch_size : model_output[k] = l}) > batch_size => label = l

(***************************************************************************)
(* The input of the MFR model and its answer: the four above.              *)
(***************************************************************************)
BatchRight == BatchFitsBuffer /\ FewLeftOut /\ PayloadAfterHeaders /\ MajorityDecides
-----------------------------------------------------------------------------
(* The inductive invariant of CppComponents_proofs *)

MfrRecord == [pkt : CapturedPackets, chars : {HEADER + PAYLOAD}, header : Int, from : Int, upto : Int]

MfrInv ==
  /\ source \in {"slot", "pcap"} /\ mfrSlot \in Captures /\ mfrIndex \in 0 .. need_parse_cnt
  /\ mfr_data \in Seq(MfrRecord) /\ Len(mfr_data) = mfrIndex /\ PayloadAfterHeaders
  /\ mfrPhase \in {"parse", "fault", "infer", "vote", "done"}
  /\ mfrPhase = "parse" => mfr_bytes_list = << >>
  /\ mfrPhase = "parse" /\ source = "slot" =>
       mfrOffset = Start(mfrSlot, mfrIndex + 1) /\ mfrLen = PktLenAt(mfrSlot, mfrOffset)
  /\ mfrPhase \in {"infer", "vote", "done"} =>
       \/ source = "pcap" /\ mfr_bytes_list = << >>
       \/ /\ mfrIndex = need_parse_cnt
          /\ mfr_bytes_list = Groups(mfr_data) \o Padding(Len(Groups(mfr_data)))
  /\ mfrPhase \in {"vote", "done"} => model_output \in [1 .. batch_size -> 0 .. Labels - 1]
  /\ MajorityDecides
=============================================================================
