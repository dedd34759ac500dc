----------------------------- MODULE CidrBlocks -----------------------------
(***************************************************************************)
(* Addresses and blocks of dni/framework/formats/cidr.h.  Addresses have W *)
(* bits, 32 in the code.                                                   *)
(***************************************************************************)
EXTENDS Sums, FiniteSets

CONSTANT W
WidthAssumption == W \in Nat \ {0}

\* The addresses a netmask of that length leaves open.
NetSize(len) == PowerOf2(W - len)
network(ip, len) == ip - (ip % NetSize(len))
broadcast(ip, len) == network(ip, len) + NetSize(len) - 1

\* The bits of ip above the last W - len.
Prefix(ip, len) == ip \div NetSize(len)

Block(c) == c.ip .. broadcast(c.ip, c.len)
IsBlock(c) == c.len \in 0 .. W /\ c.ip \in 0 .. PowerOf2(W) - 1 /\ c.ip = network(c.ip, c.len)

\* The largest blocks within S: what cidr_merge and iprange_to_cidrs promise.
Largest(S) ==
  LET inside == {c \in [ip : S, len : 0 .. W] : IsBlock(c) /\ Block(c) \subseteq S} IN
  {c \in inside : ~ \E d \in inside : d # c /\ Block(c) \subseteq Block(d)}
=============================================================================
