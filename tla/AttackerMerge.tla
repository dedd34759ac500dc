--------------------------- MODULE AttackerMerge ----------------------------
(***************************************************************************)
(* SndAttackerIPMergeTask (dni/tasks/snding/attacker_ip_merge_task.cc):    *)
(* from packets per source address to attacking blocks and random          *)
(* addresses.  Four programs each take addresses out of ipCountDF; the     *)
(* task ends early when none is left.                                      *)
(***************************************************************************)
EXTENDS CidrBlocks, Sequences, SequencesExt, FiniteSetsExt

CONSTANTS
  Byte,      \* bits of a byte of an address: 8 in the code
  RangeMin,  \* a segment spread this far is taken whole: 200
  Options,   \* the options a configuration may give
  Counts,    \* the maps sip_count may hold: sources to packet counts
  Requests   \* the known addresses, as the request lists them
ByteAssumption == Byte \in Nat \ {0} /\ W > 2 * Byte /\ RangeMin \in Nat

\* A source is an address, and so is every address of a request.
CountsAssumption ==
  /\ \A c \in Counts : DOMAIN c \subseteq 0 .. PowerOf2(W) - 1
  /\ \A r \in Requests : r \in Seq(0 .. PowerOf2(W) - 1)

VARIABLES
  opts,         \* the options of the node
  input,        \* sip_count as it came in
  all_known_ips,\* input KNOWN_IPS
  ipCountDF,    \* what is left of it: the task erases in place
  prog,         \* the program that runs next, Sent once the datum is out
  attackerIPs,  \* the blocks each program appended, in order of program
  randomIPs, containRandomAttack

mergeVars == <<opts, input, all_known_ips, ipCountDF, prog, attackerIPs, randomIPs,
               containRandomAttack>>

Sent == 5

\* A byte holds the low bits only.
uint8(v) == v % PowerOf2(Byte)

\* (int) (ipCountSum * ratio / over), with ratios as fractions.
ipCountSum == SumFunctionOnSet(input, DOMAIN input)
Share(ratio, over) == (ipCountSum * ratio[1]) \div (ratio[2] * over)

Left == DOMAIN ipCountDF
Segment(ip, bytes) == network(ip, W - bytes * Byte)
Members(s, bytes) == {ip \in Left : Segment(ip, bytes) = s}

\* ipSusFw3IPs and ipSusFw2IPs: with many segments half the share is enough.
Suspects(bytes, ratio) ==
  LET segments == {Segment(ip, bytes) : ip \in Left}
      enough == IF Cardinality(segments) >= Share(ratio, 1)
                THEN Share(ratio, 2) ELSE Share(ratio, 1) IN
  {s \in segments : SumFunctionOnSet(ipCountDF, Members(s, bytes)) >= enough}

\* iprange_to_cidrs of formats/cidr.cc, as its own runs establish it.
iprange_to_cidrs(from, to) == Largest(network(from.ip, from.len) .. broadcast(to.ip, to.len))

\* What Program2 reports of a suspected /24.
Fw3Blocks(s) ==
  LET P4List == {uint8(ip) : ip \in Members(s, 1)}
      range == Max(P4List) - Min(P4List) IN
  IF range >= RangeMin \/ Cardinality(P4List) >= opts.ipSegCoverThreshold
  THEN {[ip |-> s, len |-> W - Byte]}
  ELSE iprange_to_cidrs([ip |-> s + Min(P4List), len |-> W],
                        [ip |-> s + Max(P4List), len |-> W])

\* Mutant of Fw2Blocks: the whole /8 above.
Fw2BlocksWide(s) == {[ip |-> network(s, W - 2 * Byte - 1), len |-> W - 2 * Byte - 1]}

\* What Program3 reports of a suspected /16.  ip & 0xFF00 is stored in a
\* list of bytes.  Both lists have an entry for each address.
Fw2Blocks(s) ==
  LET P3List == {uint8((ip % PowerOf2(2 * Byte)) - uint8(ip)) : ip \in Members(s, 2)} IN
  IF Cardinality(Members(s, 2)) >= opts.ipSegCoverThreshold
  THEN {[ip |-> s, len |-> W - 2 * Byte]}
  ELSE iprange_to_cidrs([ip |-> s + Min(P3List) * PowerOf2(Byte), len |-> W - Byte],
                        [ip |-> s + Max(P3List) * PowerOf2(Byte), len |-> W - Byte])

\* The gRPC server sorts the addresses of the request, so that an arrangement
\* of them arrives that ascends; the A100 server and the programs with sccm
\* hand them on as they are listed, and the sort in the task is commented out.
Times(s, ip) == Cardinality({i \in DOMAIN s : s[i] = ip})
Ascends(s) == \A i, j \in DOMAIN s : i < j => s[i] <= s[j]
KnownIPs(request) ==
  {request} \cup {s \in [DOMAIN request -> ToSet(request)] :
                   /\ Ascends(s)
                   /\ \A ip \in ToSet(request) : Times(s, ip) = Times(request, ip)}

MergeInit ==
  /\ opts \in Options
  /\ all_known_ips \in UNION {KnownIPs(r) : r \in Requests}
  /\ ipCountDF = input
  /\ prog = 1 /\ attackerIPs = <<{}, {}, {}>>
  /\ randomIPs = {} /\ containRandomAttack = FALSE

AloneInit == input \in Counts /\ MergeInit

\* The blocks are appended and the addresses erased; with none left the
\* datum is sent.
Report(blocks, gone) ==
  /\ attackerIPs' = [attackerIPs EXCEPT ![prog] = blocks]
  /\ ipCountDF' = Restrict(ipCountDF, Left \ gone)
  /\ prog' = IF Left \ gone = {} THEN Sent ELSE prog + 1
  /\ UNCHANGED <<opts, input, all_known_ips, randomIPs, containRandomAttack>>

\* ip_suspect_fw4: single addresses.
Program1 ==
  /\ prog = 1
  /\ LET ipFw4 == {ip \in Left : ipCountDF[ip] >= Share(opts.ipFw4CountRatio, 1)} IN
       Report({[ip |-> ip, len |-> W] : ip \in ipFw4}, ipFw4)

\* ip_suspect_fw3: within a /24.
Program2 ==
  /\ prog = 2
  /\ LET sus == Suspects(1, opts.ipFw3CountRatio) IN
       Report(UNION {Fw3Blocks(s) : s \in sus}, UNION {Members(s, 1) : s \in sus})

\* ip_suspect_fw2: within a /16.
Program3 ==
  /\ prog = 3
  /\ LET sus == Suspects(2, opts.ipFw2CountRatio) IN
       Report(UNION {Fw2Blocks(s) : s \in sus}, UNION {Members(s, 2) : s \in sus})

\* all_DF3_ips: the keys that are left, sorted.
all_DF3_ips == {s \in [1 .. Cardinality(Left) -> Left] : \A i, j \in DOMAIN s : i < j => s[i] < s[j]}

\* std::set_difference walks both lists once, from w.i and w.j, and trusts
\* that they are sorted.
Walk(a, b, w) ==
  CASE w.i > Len(a) -> w
    [] w.i <= Len(a) /\ (w.j > Len(b) \/ a[w.i] < b[w.j]) -> [i |-> w.i + 1, j |-> w.j, out |-> w.out \cup {a[w.i]}]
    [] w.i <= Len(a) /\ w.j <= Len(b) /\ a[w.i] = b[w.j] -> [i |-> w.i + 1, j |-> w.j + 1, out |-> w.out]
    [] OTHER -> [i |-> w.i, j |-> w.j + 1, out |-> w.out]
set_difference(a, b) ==
  LET walk[k \in 0 .. Len(a) + Len(b)] ==
        IF k = 0 THEN [i |-> 1, j |-> 1, out |-> {}] ELSE Walk(a, b, walk[k - 1])
  IN  walk[Len(a) + Len(b)].out

Rare(unknown) == {ip \in unknown : ipCountDF[ip] <= opts.ipRandCountThreshold}

\* ip_suspect_rand.
Program4 ==
  /\ prog = 4
  /\ \E s \in all_DF3_ips :
       LET rare == Rare(set_difference(s, all_known_ips))
           isRandom == SumFunctionOnSet(ipCountDF, rare) * opts.ipRandCountRatio[2]
                         >= ipCountSum * opts.ipRandCountRatio[1] IN
       /\ containRandomAttack' = isRandom
       /\ randomIPs' = IF isRandom THEN rare ELSE {}
  /\ prog' = Sent
  /\ UNCHANGED <<opts, input, all_known_ips, ipCountDF, attackerIPs>>

Merge == Program1 \/ Program2 \/ Program3 \/ Program4

AloneSpec == AloneInit /\ [][Merge]_mergeVars
-----------------------------------------------------------------------------
(* Properties *)

Reported == UNION {Block(c) : c \in attackerIPs[1] \cup attackerIPs[2] \cup attackerIPs[3]}
Lost == DOMAIN input \ (Reported \cup Left)

(***************************************************************************)
(* Types: what is left is part of the input, and blocks lie on their       *)
(* boundary.                                                               *)
(***************************************************************************)
MergeTypeOK ==
  /\ Left \subseteq DOMAIN input /\ \A ip \in Left : ipCountDF[ip] = input[ip]
  /\ \A i \in 1 .. 3 : \A c \in attackerIPs[i] : IsBlock(c)
  /\ prog \in 1 .. Sent /\ randomIPs \subseteq Left

(***************************************************************************)
(* An address that a program erases is in a block it reports. The comments *)
(* of Program3 promise blocks of 16 to 24 bits that hold all attacking     *)
(* addresses of a /16. Its list of third bytes holds zeros, so that it     *)
(* reports the first /24 whatever the addresses are: a run shows one that  *)
(* is erased and in no block.                                              *)
(***************************************************************************)
ErasedIsReported == Lost = {}

(***************************************************************************)
(* Nothing else is lost: an address that is erased and in no block was     *)
(* erased by Program3, which reported the first /24 of its /16.            *)
(***************************************************************************)
LostByProgram3 ==
  \A ip \in Lost : [ip |-> Segment(ip, 2), len |-> W - Byte] \in attackerIPs[3]

(***************************************************************************)
(* A block never holds an address that stays in ipCountDF as normal, nor   *)
(* one that Program4 calls random.                                         *)
(***************************************************************************)
NormalIsSpared == Reported \cap Left = {}

(***************************************************************************)
(* A random address is unknown: the comment of Program4 takes the known    *)
(* addresses from all addresses. std::set_difference does so only for a    *)
(* list that ascends, and not every program sorts it: a run shows a known  *)
(* address that is called random.                                          *)
(***************************************************************************)
RandomIsUnknown == randomIPs \cap ToSet(all_known_ips) = {}

(***************************************************************************)
(* Program4, whatever the order of the known addresses: a random address   *)
(* is rare, and in an attack every address left that is rare and unknown   *)
(* is random. With a list that ascends no known address is.                *)
(***************************************************************************)
RandomIsRare ==
  /\ \A ip \in randomIPs : input[ip] <= opts.ipRandCountThreshold
  /\ containRandomAttack =>
       \A ip \in Left \ ToSet(all_known_ips) : input[ip] <= opts.ipRandCountThreshold => ip \in randomIPs
  /\ Ascends(all_known_ips) => RandomIsUnknown

(***************************************************************************)
(* SndAttackerIPMergeTask, whose programs judge counts, members and the    *)
(* map they erase from separately: nothing but Program3's first /24 loses  *)
(* an address that is erased; no block holds an address that stays as      *)
(* normal or that Program4 calls random; and the random ones are all the   *)
(* rare ones that the request does not list, and no others if it lists     *)
(* them in ascending order.                                                *)
(***************************************************************************)
AttackersRight == LostByProgram3 /\ NormalIsSpared /\ RandomIsRare
-----------------------------------------------------------------------------
(* The inductive invariant of CppComponents_proofs *)

MergeInv ==
  /\ input \in Counts /\ prog \in 1 .. Sent
  /\ Left \subseteq DOMAIN input /\ \A ip \in Left : ipCountDF[ip] = input[ip]
  /\ DOMAIN attackerIPs = 1 .. 3 /\ \A i \in 1 .. 3 : i >= prog => attackerIPs[i] = {}
  /\ all_known_ips \in Seq(0 .. PowerOf2(W) - 1)
  /\ prog # Sent => randomIPs = {} /\ ~ containRandomAttack
  /\ AttackersRight
=============================================================================
