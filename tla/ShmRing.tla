------------------------------- MODULE ShmRing -------------------------------
(***************************************************************************)
(* The shared memory ring of dni/go/service/generator/ringbuffer.go, and   *)
(* the loop of service/dms/dms.go that reads it.  The writer is another    *)
(* process; it never looks at head, so a full ring becomes an empty one.   *)
(* The reader gives a slot back before it has analysed it: the packets it  *)
(* parses point into the slot.                                             *)
(*                                                                         *)
(* head and tail are uint32 byte offsets.  What is written is numbered 1,  *)
(* 2, ...; a slot holds the number last written to it, or is torn while it *)
(* is being written.                                                       *)
(***************************************************************************)
EXTENDS Integers

CONSTANTS
  SlotSize,      \* bytes of a slot: 20 MiB in the code
  Count,         \* number of slots: 100 in dms.conf
  Word,          \* 2^32 in the code
  MaxWrites,     \* bound on what the writer writes
  MaxRestarts    \* bound on the restarts of the reader

size == SlotSize * Count

\* A uint32 holds tail - head + size: true up to 102 slots of 20 MiB.
RingFits ==
  /\ SlotSize \in Nat \ {0}
  /\ Count \in Nat \ {0, 1}
  /\ Word \in Nat /\ 2 * size - SlotSize < Word

ASSUME RingAssumption == RingFits

VARIABLES
  slots,      \* slots[k]: [seq, torn], the content of slot k
  head, tail, \* the shared Pointer
  written,    \* the writer: completed writes
  copying,    \* it is between the copy and the new tail
  busy,       \* the reader is analysing
  at,         \* the slot it reads from
  seq,        \* the number it found there
  since,      \* writes begun since then (history)
  restarts

writer == <<written, copying>>
reader == <<busy, at, seq>>
vars == <<slots, head, tail, writer, reader, since, restarts>>

Init ==
  /\ slots = [k \in 0 .. (Count - 1) |-> [seq |-> 0, torn |-> FALSE]]
  /\ head = 0 /\ tail = 0
  /\ written = 0 /\ copying = FALSE
  /\ busy = FALSE /\ at = 0 /\ seq = 0 /\ since = 0
  /\ restarts = 0

SlotOf(offset) == offset \div SlotSize

Advance(offset) == (offset + SlotSize) % size

\* Mutant of Copy: the slot is published before it is filled.
CopyLate ==
  /\ ~ copying
  /\ written < MaxWrites
  /\ slots' = [slots EXCEPT ![SlotOf(tail)] = [seq |-> written + 1, torn |-> TRUE]]
  /\ tail' = Advance(tail)
  /\ copying' = TRUE
  /\ since' = since + 1
  /\ UNCHANGED <<head, written, reader, restarts>>

\* Write: the data are copied to the slot at tail,
Copy ==
  /\ ~ copying
  /\ written < MaxWrites
  /\ slots' = [slots EXCEPT ![SlotOf(tail)] = [seq |-> written + 1, torn |-> TRUE]]
  /\ copying' = TRUE
  /\ since' = since + 1
  /\ UNCHANGED <<head, tail, written, reader, restarts>>

\* then tail moves on.
Publish ==
  /\ copying
  /\ slots' = [slots EXCEPT ![SlotOf(tail)].torn = FALSE]
  /\ tail' = Advance(tail)
  /\ written' = written + 1
  /\ copying' = FALSE
  /\ UNCHANGED <<head, reader, since, restarts>>

\* Mutant of Used: size is not added before the remainder is taken.
UsedWrapped == ((tail - head) % Word) % size

\* The bytes between head and tail, in uint32 arithmetic.
Used == ((tail - head + size) % Word) % size

\* Mutant of Unread: an empty ring is read from.
UnreadAlways == TRUE

Unread == Used >= SlotSize

\* Read, called by the loop of dms.go: the slot is free for the writer again;
\* the analysis that follows still points into it.
Read ==
  /\ ~ busy
  /\ Unread
  /\ busy' = TRUE
  /\ at' = SlotOf(head)
  /\ seq' = slots[SlotOf(head)].seq
  /\ since' = IF copying THEN 1 ELSE 0
  /\ head' = Advance(head)
  /\ UNCHANGED <<slots, tail, writer, restarts>>

\* The graph has answered: the next round.
Analysed ==
  /\ busy
  /\ busy' = FALSE
  /\ UNCHANGED <<slots, head, tail, writer, at, seq, since, restarts>>

\* The service is started again: NewShareMemomry drops what was not read.
NewShareMemomry ==
  /\ restarts < MaxRestarts
  /\ restarts' = restarts + 1
  /\ head' = tail
  /\ busy' = FALSE
  /\ UNCHANGED <<slots, tail, writer, at, seq, since>>

Next == Copy \/ Publish \/ Read \/ Analysed \/ NewShareMemomry

\* The service polls for ever and its graph answers; a write once begun ends.
Spec ==
  /\ Init /\ [][Next]_vars
  /\ WF_vars(Publish) /\ WF_vars(Read) /\ WF_vars(Analysed)
-----------------------------------------------------------------------------
\* Types; head and tail stay inside the memory segment, on slots.
TypeOK ==
  /\ slots \in [0 .. (Count - 1) -> [seq : Nat, torn : BOOLEAN]]
  /\ head \in 0 .. (size - 1) /\ head % SlotSize = 0
  /\ tail \in 0 .. (size - 1) /\ tail % SlotSize = 0
  /\ written \in Nat /\ copying \in BOOLEAN
  /\ busy \in BOOLEAN /\ at \in 0 .. (Count - 1) /\ seq \in Nat
  /\ since \in Nat /\ restarts \in Nat

(***************************************************************************)
(* Whatever the writer overruns, a Read finds a slot that is whole, and    *)
(* newer than all that was read before, by this reader or before a restart.*)
(***************************************************************************)
ReadsInOrder ==
  [][Read => /\ ~ slots[SlotOf(head)].torn
             /\ slots[SlotOf(head)].seq > seq]_vars

(***************************************************************************)
(* While a slot is analysed the writer may complete one write and no more: *)
(* the slot is only overwritten by the second write since it was read,     *)
(* because a ring never holds more than Count - 1 unread slots.            *)
(***************************************************************************)
OneWriteOfSlack ==
  busy /\ slots[at] # [seq |-> seq, torn |-> FALSE] => since >= 2

(***************************************************************************)
(* Once the writer pauses, the reader catches up with it: no slot stays    *)
(* unread because of where in the ring head and tail are.                  *)
(***************************************************************************)
CatchesUp == <>[](head = tail /\ ~ busy)
-----------------------------------------------------------------------------
(* The inductive invariant of Services_proofs; h and t are the slots that  *)
(* head and tail point to                                                  *)

\* The slots to read, and the writes since slot k was written.
Gap(h, t) == IF h <= t THEN t - h ELSE t - h + Count
Age(t, k) == IF k < t THEN t - k ELSE t - k + Count

\* The slots hold the last writes, in order, and one may be torn.
SlotsInv(t) ==
  \A k \in 0 .. (Count - 1) :
    /\ slots[k].torn <=> copying /\ k = t
    /\ slots[k].torn => slots[k].seq = written + 1
    /\ ~ slots[k].torn =>
         slots[k].seq = IF Age(t, k) <= written THEN written + 1 - Age(t, k) ELSE 0

\* What is unread is newer than what was read.
UnreadInv(h, t) == seq + Gap(h, t) <= written

\* The slot that is analysed is whole until the second write begins.
SlackInv(t) ==
  busy =>
    \/ since >= 2
    \/ /\ slots[at] = [seq |-> seq, torn |-> FALSE]
       /\ since = 0 => ~ copying /\ at # t
       /\ copying => at # t

RingInv ==
  /\ TypeOK
  /\ \E h, t \in 0 .. (Count - 1) :
       /\ head = h * SlotSize /\ tail = t * SlotSize
       /\ SlotsInv(t) /\ UnreadInv(h, t) /\ SlackInv(t)
=============================================================================
