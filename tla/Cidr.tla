-------------------------------- MODULE Cidr --------------------------------
(***************************************************************************)
(* dni/framework/formats/cidr.cc: cidr_merge joins single addresses into   *)
(* blocks, iprange_to_cidrs splits a range into blocks.                    *)
(***************************************************************************)
EXTENDS CidrBlocks, Sequences, SequencesExt

CONSTANT Jobs    \* what is computed: "merge", "range"
JobsAssumption == Jobs \subseteq {"merge", "range"}

VARIABLES
  job,        \* what is computed
  ips,        \* the keys of ip_map
  list, at,   \* ipl, and the place of the iterator i in it; j is the next
  step,       \* "first" or "second" merge, "split", "done"
  from, to,   \* the arguments of iprange_to_cidrs
  calls,      \* the calls of split_range that are still to be made, next one first
  out,        \* CIDRs
  made        \* calls made so far

vars == <<job, ips, list, at, step, from, to, calls, out, made>>

isChildCollection(a, b) == a.len <= b.len /\ Prefix(a.ip, a.len) = Prefix(b.ip, a.len)

\* The prefixes differ in their last bit only.
unionCollection(a, b) ==
  /\ a.len = b.len /\ a.len > 0
  /\ Prefix(a.ip, a.len) # Prefix(b.ip, a.len)
  /\ Prefix(a.ip, a.len - 1) = Prefix(b.ip, a.len - 1)

\* One block per address, in order of address.
Sorted(S) ==
  [i \in 1 .. Cardinality(S) |->
     [ip |-> CHOOSE a \in S : Cardinality({b \in S : b < a}) = i - 1, len |-> W]]

\* iprange_to_cidrs checks the lengths before it uses them.
Address == 0 .. PowerOf2(W) - 1
Asked == [ip : Address, len : 0 .. W + 1]
lo == network(from.ip, from.len)
hi == broadcast(to.ip, to.len)

Init ==
  /\ job \in Jobs
  /\ IF job = "merge"
     THEN /\ ips \in SUBSET Address \ {{}}
          /\ list = Sorted(ips) /\ step = "first"
          /\ from = [ip |-> 0, len |-> 0] /\ to = from /\ calls = << >>
     ELSE /\ ips = {} /\ list = << >> /\ step = "split"
          /\ from \in Asked /\ to \in Asked
          /\ calls = IF from.len > W \/ to.len > W THEN << >>
                     ELSE <<[ip |-> 0, len |-> 0, lo |-> lo, hi |-> hi]>>
  /\ at = 1 /\ out = << >> /\ made = 0
-----------------------------------------------------------------------------
(* cidr_merge *)

Erase(s, k) == RemoveAt(s, k)

first_step_merge ==
  /\ step = "first" /\ at < Len(list)
  /\ IF isChildCollection(list[at], list[at + 1])
     THEN list' = Erase(list, at + 1) /\ UNCHANGED at
     ELSE at' = at + 1 /\ UNCHANGED list
  /\ UNCHANGED <<job, ips, step, from, to, calls, out, made>>

FirstDone ==
  /\ step = "first" /\ at >= Len(list)
  /\ step' = "second" /\ at' = 1
  /\ UNCHANGED <<job, ips, list, from, to, calls, out, made>>

\* Mutant of StepBack: the joined block is not compared with the one before.
StepBackNot(k) == k

\* After a join the block before is looked at again.
StepBack(k) == IF k > 1 THEN k - 1 ELSE k

second_step_merge ==
  /\ step = "second" /\ at < Len(list)
  /\ IF unionCollection(list[at], list[at + 1])
     THEN /\ list' = [Erase(list, at + 1) EXCEPT ![at].len = @ - 1]
          /\ at' = StepBack(at)
     ELSE at' = at + 1 /\ UNCHANGED list
  /\ UNCHANGED <<job, ips, step, from, to, calls, out, made>>

cidr_merge ==
  /\ step = "second" /\ at >= Len(list)
  /\ step' = "done" /\ out' = list
  /\ UNCHANGED <<job, ips, list, at, from, to, calls, made>>
-----------------------------------------------------------------------------
(* iprange_to_cidrs *)

\* The upper half of a network; len is at most W when it matters.
set_bit(ip, len) == ip + NetSize(len)

\* The calls split_range makes, in order.
halves(c) ==
  LET len == c.len + 1
      upper == set_bit(c.ip, len) IN
  IF c.hi < upper THEN <<[c EXCEPT !.len = len]>>
  ELSE IF c.lo >= upper THEN <<[c EXCEPT !.len = len, !.ip = upper]>>
  ELSE <<[c EXCEPT !.len = len, !.hi = broadcast(c.ip, len)],
         [c EXCEPT !.len = len, !.ip = upper, !.lo = upper]>>

Outside(c) == c.lo < c.ip \/ c.hi > broadcast(c.ip, c.len)

Whole(c) == c.lo = c.ip /\ c.hi = broadcast(c.ip, c.len)

\* A whole network is a block, another one is halved.  A call below single
\* addresses, which only a range that is empty gets to, is an error.
split_range ==
  /\ step = "split" /\ calls # << >>
  /\ LET c == Head(calls) IN
       /\ ~ Outside(c)
       /\ Whole(c) \/ c.len < W
       /\ IF Whole(c)
          THEN out' = Append(out, [ip |-> c.ip, len |-> c.len]) /\ calls' = Tail(calls)
          ELSE calls' = halves(c) \o Tail(calls) /\ UNCHANGED out
  /\ made' = made + 1
  /\ UNCHANGED <<job, ips, list, at, step, from, to>>

\* -1 goes all the way up, and the result is cleared.
OutOfRange ==
  /\ step = "split" /\ calls # << >>
  /\ Outside(Head(calls)) \/ (~ Whole(Head(calls)) /\ Head(calls).len = W)
  /\ calls' = << >> /\ out' = << >>
  /\ made' = made + 1
  /\ UNCHANGED <<job, ips, list, at, step, from, to>>

iprange_to_cidrs ==
  /\ step = "split" /\ calls = << >>
  /\ step' = "done"
  /\ UNCHANGED <<job, ips, list, at, from, to, calls, out, made>>

Next ==
  \/ first_step_merge \/ FirstDone \/ second_step_merge \/ cidr_merge
  \/ split_range \/ OutOfRange \/ iprange_to_cidrs

Spec == Init /\ [][Next]_vars
-----------------------------------------------------------------------------
(* Properties *)

(***************************************************************************)
(* Types: what is in a list is a block on its boundary.                    *)
(***************************************************************************)
TypeOK ==
  /\ at \in Nat \ {0} /\ step \in {"first", "second", "split", "done"}
  /\ \A i \in DOMAIN list : IsBlock(list[i])
  /\ \A i \in DOMAIN out : IsBlock(out[i])

(***************************************************************************)
(* cidr_merge: however the iterators went back and forth, the result holds *)
(* exactly the addresses, in as few blocks as they allow.                  *)
(***************************************************************************)
MergeExact == job = "merge" /\ step = "done" => ToSet(out) = Largest(ips)

(***************************************************************************)
(* iprange_to_cidrs: the blocks cover lo .. hi and nothing else, each      *)
(* address once and in order; there are none for a range upside down or a  *)
(* length out of range.                                                    *)
(***************************************************************************)
RangeExact ==
  job = "range" /\ step = "done" =>
    /\ UNION {Block(out[i]) : i \in DOMAIN out}
         = IF from.len > W \/ to.len > W THEN {} ELSE lo .. hi
    /\ \A i, j \in DOMAIN out : i < j => broadcast(out[i].ip, out[i].len) < out[j].ip

(***************************************************************************)
(* split_range never cuts a block in two, and keeps to the worst case its  *)
(* comment gives, 62 blocks and 125 calls for 32 bits: 2W - 2 and 4W - 3.  *)
(***************************************************************************)
SplitBounded ==
  job = "range" /\ W > 1 /\ from.len <= W /\ to.len <= W /\ lo <= hi =>
    /\ ToSet(out) \subseteq Largest(lo .. hi)
    /\ Len(out) <= 2 * W - 2 /\ made <= 4 * W - 3
=============================================================================
