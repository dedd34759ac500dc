------------------------------- MODULE TagMap -------------------------------
(***************************************************************************)
(* TagMap::Initialize of dni/framework/utils/tags.cc: the streams a node   *)
(* or a graph declares as strings NAME, TAG:NAME or TAG:INDEX:NAME become  *)
(* slots 0, 1, ...; the collections of a task (collection.h, dtype.h) are  *)
(* arrays over these slots.  NodeInfo::Initialize (graph_config.cc) then   *)
(* looks the streams up that have an InputStreamInfo.                      *)
(*                                                                         *)
(* A string is the sequence of its fields between colons.                  *)
(***************************************************************************)
EXTENDS Integers, Sequences, FiniteSets, SequencesExt

CONSTANTS
  Blank,         \* the empty field
  ValidTag,      \* the fields of letters, digits and '_' behind any first character
  IndexOf,       \* a function: the fields that are numbers |-> their values
  TagOrder,      \* Blank and the tags, in the order of std::map
  Strings,       \* what a declaration may hold
  Infos,         \* what an InputStreamInfo may hold as its tag
  MaxStreams,    \* bound on the length of a declaration
  MaxInfos       \* bound on the number of InputStreamInfos

\* The map's order of strings begins with the empty one.
TagsFit ==
  /\ TagOrder \in Seq(ValidTag \cup {Blank}) /\ Range(TagOrder) = ValidTag \cup {Blank}
  /\ IsInjective(TagOrder) /\ TagOrder[1] = Blank /\ Blank \in STRING /\ Blank \notin ValidTag
  /\ DOMAIN IndexOf \subseteq ValidTag /\ \A f \in DOMAIN IndexOf : IndexOf[f] \in Nat
  /\ \A s \in Strings \cup Infos : s \in Seq(STRING) /\ s # << >>
  /\ MaxStreams \in Nat /\ MaxInfos \in Nat

ASSUME TagAssumption == TagsFit

VARIABLES
  decl,       \* the declaration: a list of strings
  tagPos,     \* strings read, tags laid out, or infos checked so far
  tagPhase,   \* "parse", "layout", "insert", "info", "done" or "failed"
  count,      \* data_[tag].count
  base,       \* data_[tag].base, -1 before it is laid out
  tagNames,   \* tag_to_names[tag]: the names by index
  curr,       \* the number of slots laid out
  names,      \* names_
  infos,      \* the InputStreamInfos
  used        \* id_used: the slots that have one

tagVars == <<decl, tagPos, tagPhase, count, base, tagNames, curr, names, infos, used>>

Tag == Range(TagOrder)
NoName == <<Blank>>

TagInit ==
  /\ decl \in BoundedSeq(Strings, MaxStreams)
  /\ tagPos = 0 /\ tagPhase = "parse"
  /\ count = [t \in Tag |-> 0] /\ base = [t \in Tag |-> -1]
  /\ tagNames = [t \in Tag |-> << >>]
  /\ curr = 0 /\ names = << >>
  /\ infos = << >> /\ used = {}

validateTag(f) == f \in ValidTag
validateIndex(f) == f \in DOMAIN IndexOf

\* A failed parse.  A name may be anything, colons included.
Invalid == [ok |-> FALSE, tag |-> Blank, index |-> 0, name |-> NoName]

ParseTagIndexName(s) ==
  IF Len(s) = 1
  THEN [ok |-> TRUE, tag |-> Blank, index |-> -1, name |-> s]
  ELSE IF Len(s) = 2
  THEN IF validateTag(s[1])
       THEN [ok |-> TRUE, tag |-> s[1], index |-> 0, name |-> Tail(s)] ELSE Invalid
  ELSE IF validateTag(s[1]) /\ validateIndex(s[2])
       THEN [ok |-> TRUE, tag |-> s[1], index |-> IndexOf[s[2]],
             name |-> SubSeq(s, 3, Len(s))]
       ELSE Invalid

\* names.resize(idx + 1) if it is shorter, then names[idx] = name.
PutAt(list, idx, name) ==
  [i \in 1 .. (IF Len(list) <= idx THEN idx + 1 ELSE Len(list)) |->
     IF i = idx + 1 THEN name ELSE IF i <= Len(list) THEN list[i] ELSE NoName]

\* The index within its tag a parsed string gets.
Slotted(p) == IF p.index = -1 THEN count[p.tag] ELSE p.index

Parse ==
  /\ tagPhase = "parse" /\ tagPos < Len(decl)
  /\ LET p == ParseTagIndexName(decl[tagPos + 1]) IN
       /\ p.ok
       /\ tagNames' = [tagNames EXCEPT ![p.tag] = PutAt(@, Slotted(p), p.name)]
       /\ count' = [count EXCEPT ![p.tag] = @ + 1]
  /\ tagPos' = tagPos + 1
  /\ UNCHANGED <<decl, tagPhase, base, curr, names, infos, used>>

RejectString ==
  /\ tagPhase = "parse" /\ tagPos < Len(decl)
  /\ ~ ParseTagIndexName(decl[tagPos + 1]).ok
  /\ tagPhase' = "failed"
  /\ UNCHANGED <<decl, tagPos, count, base, tagNames, curr, names, infos, used>>

Parsed ==
  /\ tagPhase = "parse" /\ tagPos = Len(decl)
  /\ tagPhase' = "layout" /\ tagPos' = 0
  /\ UNCHANGED <<decl, count, base, tagNames, curr, names, infos, used>>

\* Mutant of Complete: the sizes are not compared.
CompleteAlways(t) == TRUE

Complete(t) == count[t] = Len(tagNames[t])

\* The tags in the order of the map; one nobody used is not in the map.
Layout ==
  /\ tagPhase = "layout" /\ tagPos < Len(TagOrder)
  /\ LET t == TagOrder[tagPos + 1] IN
       /\ Complete(t)
       /\ base' = IF count[t] > 0 THEN [base EXCEPT ![t] = curr] ELSE base
       /\ curr' = curr + count[t]
  /\ tagPos' = tagPos + 1
  /\ UNCHANGED <<decl, tagPhase, count, tagNames, names, infos, used>>

RejectGap ==
  /\ tagPhase = "layout" /\ tagPos < Len(TagOrder)
  /\ ~ Complete(TagOrder[tagPos + 1])
  /\ tagPhase' = "failed"
  /\ UNCHANGED <<decl, tagPos, count, base, tagNames, curr, names, infos, used>>

LaidOut ==
  /\ tagPhase = "layout" /\ tagPos = Len(TagOrder)
  /\ tagPhase' = "insert" /\ tagPos' = 0
  /\ UNCHANGED <<decl, count, base, tagNames, curr, names, infos, used>>

\* names_.insert(names_.begin() + base, ...)
Insert ==
  /\ tagPhase = "insert" /\ tagPos < Len(TagOrder)
  /\ LET t == TagOrder[tagPos + 1]
         b == IF count[t] > 0 THEN base[t] ELSE 0 IN
       names' = SubSeq(names, 1, b) \o tagNames[t] \o SubSeq(names, b + 1, Len(names))
  /\ tagPos' = tagPos + 1
  /\ UNCHANGED <<decl, tagPhase, count, base, tagNames, curr, infos, used>>

\* NodeInfo::Initialize goes on with the InputStreamInfos of the node.
Inserted ==
  /\ tagPhase = "insert" /\ tagPos = Len(TagOrder)
  /\ \E l \in BoundedSeq(Infos, MaxInfos) : infos' = l
  /\ tagPhase' = "info" /\ tagPos' = 0
  /\ UNCHANGED <<decl, count, base, tagNames, curr, names, used>>

\* Mutant of FindByTagIndex: the index is off by one.
FindByTagIndexNext(tag, index) ==
  IF tag \notin Tag \/ count[tag] = 0 \/ index > count[tag]
  THEN -1 ELSE base[tag] + index + 1

\* FindByTagIndex: the slot, -1 if there is none.  Only too large an index is
\* refused.
FindByTagIndex(tag, index) ==
  IF tag \notin Tag \/ count[tag] = 0 \/ index >= count[tag]
  THEN -1 ELSE base[tag] + index

\* The element of a collection; std::abort without a slot.
Aborted == << >>
Get(tag, index) ==
  LET id == FindByTagIndex(tag, index) IN IF id < 0 THEN Aborted ELSE names[id + 1]

\* ParseTagIndex of the tag of an InputStreamInfo: tag and index; stoi ends
\* the program if there is no number.
NotANumber(s) == Len(s) > 1 /\ s[2] \notin DOMAIN IndexOf
ParseTagIndex(s) ==
  IF s = NoName THEN <<Blank, -1>>
  ELSE IF Len(s) = 1 THEN <<s[1], 0>> ELSE <<s[1], IndexOf[s[2]]>>

InfoSlot(s) == FindByTagIndex(ParseTagIndex(s)[1], ParseTagIndex(s)[2])

CheckInfo ==
  /\ tagPhase = "info" /\ tagPos < Len(infos)
  /\ ~ NotANumber(infos[tagPos + 1])
  /\ LET id == InfoSlot(infos[tagPos + 1]) IN
       /\ id >= 0 /\ id \notin used
       /\ used' = used \cup {id}
  /\ tagPos' = tagPos + 1
  /\ UNCHANGED <<decl, tagPhase, count, base, tagNames, curr, names, infos>>

RejectInfo ==
  /\ tagPhase = "info" /\ tagPos < Len(infos)
  /\ ~ NotANumber(infos[tagPos + 1]) => InfoSlot(infos[tagPos + 1]) \in used \cup {-1}
  /\ tagPhase' = "failed"
  /\ UNCHANGED <<decl, tagPos, count, base, tagNames, curr, names, infos, used>>

Checked ==
  /\ tagPhase = "info" /\ tagPos = Len(infos)
  /\ tagPhase' = "done"
  /\ UNCHANGED <<decl, tagPos, count, base, tagNames, curr, names, infos, used>>

TagNext ==
  \/ Parse \/ RejectString \/ Parsed \/ Layout \/ RejectGap \/ LaidOut
  \/ Insert \/ Inserted \/ CheckInfo \/ RejectInfo \/ Checked

TagSpec == TagInit /\ [][TagNext]_tagVars
-----------------------------------------------------------------------------
Built == tagPhase \in {"info", "done"}

\* The tag and the index a string asks for; a bare name takes the next index.
TagOf(k) == ParseTagIndexName(decl[k]).tag
WantedIndex(k) ==
  LET p == ParseTagIndexName(decl[k]) IN
  IF p.index >= 0 THEN p.index
  ELSE Cardinality({j \in 1 .. k - 1 : Len(decl[j]) = 1})

NoRepeats ==
  \A k, l \in 1 .. Len(decl) :
    k # l => <<TagOf(k), WantedIndex(k)>> # <<TagOf(l), WantedIndex(l)>>

OwnSlot(k) ==
  /\ FindByTagIndex(TagOf(k), WantedIndex(k)) < Len(names)
  /\ Get(TagOf(k), WantedIndex(k)) = ParseTagIndexName(decl[k]).name

(***************************************************************************)
(* Types.  While the slots are laid out, curr is what the tags passed need *)
(* and names grows towards it.                                             *)
(***************************************************************************)
TagTypeOK ==
  /\ tagPhase \in {"parse", "layout", "insert", "info", "done", "failed"}
  /\ tagPos \in Nat /\ curr \in 0 .. Len(decl)
  /\ count \in [Tag -> 0 .. Len(decl)] /\ base \in [Tag -> -1 .. Len(decl)]
  /\ Len(names) <= curr /\ used \subseteq 0 .. (curr - 1)

(***************************************************************************)
(* A declaration that is accepted and asks for no index twice gives every  *)
(* stream the slot its tag and index say, and there are no other slots.    *)
(* This is what Get, Tag and Index of a collection rely on: they address   *)
(* the array of NStreams elements with what FindByTagIndex returns.        *)
(***************************************************************************)
EachInItsSlot ==
  Built /\ NoRepeats =>
    /\ Len(names) = Len(decl) /\ curr = Len(decl)
    /\ \A k \in 1 .. Len(decl) : OwnSlot(k)

(***************************************************************************)
(* An InputStreamInfo that was accepted names a stream of its own: no two  *)
(* of them stand for one slot, and each slot lies under the tag it gives.  *)
(***************************************************************************)
InfosDistinct ==
  tagPhase = "done" =>
    /\ \A i, j \in 1 .. Len(infos) : i # j => InfoSlot(infos[i]) # InfoSlot(infos[j])
    /\ \A i \in 1 .. Len(infos) :
         LET t == infos[i][1] IN
         /\ InfoSlot(infos[i]) \in base[t] .. (base[t] + count[t] - 1)
         /\ Len(infos[i]) > 1 => InfoSlot(infos[i]) = base[t] + IndexOf[infos[i][2]]

(***************************************************************************)
(* TagMap: what is accepted without a repeated index has exactly its       *)
(* streams in its slots, tag by tag and index by index, although only the  *)
(* number of streams of a tag is compared; and InputStreamInfos name       *)
(* distinct slots, each within its tag.                                    *)
(***************************************************************************)
SlotsExact == EachInItsSlot /\ InfosDistinct
-----------------------------------------------------------------------------
(* The inductive invariant of CppComponents_proofs *)

Under(tags) == {k \in 1 .. Len(decl) : TagOf(k) \in tags}
SlotsUpto(p) == Cardinality(Under({TagOrder[i] : i \in 1 .. p}))

\* The first n strings are counted and stored.
ReadRight(n) ==
  /\ \A t \in Tag : count[t] = Cardinality({k \in 1 .. n : TagOf(k) = t})
  /\ \A k \in 1 .. n :
       /\ ParseTagIndexName(decl[k]).ok
       /\ WantedIndex(k) < Len(tagNames[TagOf(k)])
       /\ NoRepeats => tagNames[TagOf(k)][WantedIndex(k) + 1] = ParseTagIndexName(decl[k]).name

\* The first p tags have their places.
LaidRight(p) ==
  /\ curr = SlotsUpto(p)
  /\ \A i \in 1 .. p :
       /\ count[TagOrder[i]] = Len(tagNames[TagOrder[i]])
       /\ count[TagOrder[i]] > 0 => base[TagOrder[i]] = SlotsUpto(i - 1)

\* The names of the first p tags are in their places.
InsertedRight(p) ==
  /\ Len(names) = SlotsUpto(p)
  /\ \A i \in 1 .. p : \A j \in 1 .. Len(tagNames[TagOrder[i]]) :
       names[SlotsUpto(i - 1) + j] = tagNames[TagOrder[i]][j]

\* The first p infos have slots of their own.
InfosRight(p) ==
  /\ \A i \in 1 .. p : ~ NotANumber(infos[i]) /\ InfoSlot(infos[i]) >= 0 /\ InfoSlot(infos[i]) \in used
  /\ \A i, j \in 1 .. p : i # j => InfoSlot(infos[i]) # InfoSlot(infos[j])

TagData ==
  /\ decl \in Seq(Strings) /\ infos \in Seq(Infos) /\ tagPos \in Nat
  /\ count \in [Tag -> Nat] /\ base \in [Tag -> Int] /\ tagNames \in [Tag -> Seq(Seq(STRING))]
  /\ names \in Seq(Seq(STRING))

TagInv ==
  /\ TagData
  /\ tagPhase = "parse" => tagPos <= Len(decl) /\ ReadRight(tagPos) /\ curr = 0 /\ names = << >>
  /\ tagPhase \in {"layout", "insert", "info", "done"} => ReadRight(Len(decl))
  /\ tagPhase = "layout" => tagPos <= Len(TagOrder) /\ LaidRight(tagPos) /\ names = << >>
  /\ tagPhase \in {"insert", "info", "done"} => LaidRight(Len(TagOrder))
  /\ tagPhase = "insert" => tagPos <= Len(TagOrder) /\ InsertedRight(tagPos)
  /\ tagPhase \in {"info", "done"} => InsertedRight(Len(TagOrder))
  /\ tagPhase = "info" => tagPos <= Len(infos) /\ InfosRight(tagPos)
  /\ tagPhase = "done" => InfosRight(Len(infos))
=============================================================================
