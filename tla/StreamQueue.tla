----------------------------- MODULE StreamQueue ----------------------------
(***************************************************************************)
(* The way of a datum in the C++ framework, from the output stream of one  *)
(* node to the inputs of another: OutputStreamImpl (output_stream.cc), the *)
(* propagation to every mirror (output_stream_handler.cc), the locked      *)
(* queue of each InputStreamManager, and the InputStreamImpl a task reads, *)
(* filled by SyncSet (input_stream_handler.cc).                            *)
(*                                                                         *)
(* One thread produces, one consumes, and any thread may close a stream;   *)
(* each takes the lock of a manager for one operation at a time.  A datum  *)
(* carries a number that is not in the code, to follow it.                 *)
(***************************************************************************)
EXTENDS Integers, Sequences, SequencesExt

CONSTANTS
  M,          \* mirrors of the output stream: the slots of the consumer
  TMax,       \* kCtimeMax; kCtimeMin is 0
  MaxData     \* bound on the number of data produced

QueueBounds == M \in Nat \ {0} /\ TMax \in Nat /\ TMax >= 3 /\ MaxData \in Nat

ASSUME QueueAssumption == QueueBounds

VARIABLES
  outq,      \* queue_ of the OutputStreamImpl
  outOpen,   \* ~ closed_ of it
  prop,      \* the mirror that is fed next while propagating, else 0
  squeue,     \* queue_ of each InputStreamManager
  bound,     \* next_ts_bound_
  closed,    \* closed_
  inputs,    \* queue_ of each InputStreamImpl
  at,        \* the slot SyncSet works on, else 0
  mode,      \* the time of SyncAt; 0 is Sync
  syncTs,    \* the ts Sync read for this slot
  made,      \* data accepted so far, numbered 1 .. made
  given,     \* per slot the numbers of the data the task was given so far
  lost,      \* per slot the numbers of the data that were dropped
  tries      \* calls of AddDatum, bounded by MaxData

streamVars == <<outq, outOpen, prop, squeue, bound, closed, inputs, at, mode, syncTs,
          made, given, lost, tries>>
producer == <<outq, outOpen, prop, made, tries>>
consumer == <<at, mode, syncTs, inputs, given, lost>>

Slot == 1 .. M
kCtimeMin == 0
TimestampBegin == kCtimeMin + 1
TimestampEnd == TMax - 1
TimestampDone(ts) == ts = TMax
Time == kCtimeMin .. TMax

\* A datum; number 0 is Datum(), without a value.
Datum == [id : 0 .. MaxData, ts : Time]
IsEmpty(d) == d.id = 0
Numbers(s) == {s[i].id : i \in DOMAIN s} \ {0}

StreamInit ==
  /\ outq = << >> /\ outOpen = TRUE /\ prop = 0
  /\ squeue = [k \in Slot |-> << >>] /\ bound = [k \in Slot |-> TimestampBegin]
  /\ closed = [k \in Slot |-> FALSE] /\ inputs = [k \in Slot |-> << >>]
  /\ at = 0 /\ mode = 0 /\ syncTs = 0
  /\ made = 0 /\ given = [k \in Slot |-> {}] /\ lost = [k \in Slot |-> {}]
  /\ tries = 0
-----------------------------------------------------------------------------
(* The producer *)

\* What addDatum does not drop.
Sendable(ts, empty) == outOpen /\ ts > TimestampBegin /\ ts < TimestampEnd /\ ~ empty

\* OutputStreamImpl::addDatum, by the task or by Graph::AddDatumToInputStream.
AddDatum ==
  /\ prop = 0 /\ tries < MaxData
  /\ tries' = tries + 1
  /\ \E ts \in Time, empty \in BOOLEAN :
       IF Sendable(ts, empty)
       THEN outq' = Append(outq, [id |-> made + 1, ts |-> ts]) /\ made' = made + 1
       ELSE UNCHANGED <<outq, made>>
  /\ UNCHANGED <<outOpen, prop, squeue, bound, closed, consumer>>

CloseOutput ==
  /\ outOpen /\ outOpen' = FALSE
  /\ UNCHANGED <<outq, prop, made, tries, squeue, bound, closed, consumer>>

PropagateStart ==
  /\ prop = 0 /\ outq # << >>
  /\ prop' = 1
  /\ UNCHANGED <<outq, outOpen, made, tries, squeue, bound, closed, consumer>>

\* Mutant of LastMirror: the data go after the first one.
LastMirrorFirst(k) == TRUE

\* The last mirror takes the data, and the list is cleared.
LastMirror(k) == k = M

\* AddData, or MoveData for the last mirror, under its lock.
Propagate ==
  /\ prop \in Slot
  /\ squeue' = [squeue EXCEPT ![prop] = @ \o outq]
  /\ bound' = [bound EXCEPT ![prop] = IF outq = << >> THEN @ ELSE Last(outq).ts + 1]
  /\ IF LastMirror(prop) THEN outq' = << >> /\ prop' = 0
     ELSE prop' = prop + 1 /\ UNCHANGED outq
  /\ UNCHANGED <<outOpen, made, tries, closed, consumer>>
-----------------------------------------------------------------------------
(* The manager, called by any thread *)

Close(k) ==
  /\ ~ closed[k]
  /\ bound' = [bound EXCEPT ![k] = TMax]
  /\ closed' = [closed EXCEPT ![k] = TRUE]
  /\ UNCHANGED <<producer, squeue, consumer>>

\* A bound that does not end the stream.
Bounds == (TimestampBegin + 1) .. TimestampEnd

SetNextTimestampBound(k, ts) ==
  /\ ~ closed[k] /\ ts > bound[k]
  /\ bound' = [bound EXCEPT ![k] = ts]
  /\ UNCHANGED <<producer, squeue, closed, consumer>>

\* For another run: closed_ stays as it is.
PrepareManagers ==
  /\ at = 0 /\ prop = 0 /\ outq = << >> /\ \E k \in Slot : squeue[k] # << >>
  /\ lost' = [k \in Slot |-> lost[k] \cup Numbers(squeue[k])]
  /\ squeue' = [k \in Slot |-> << >>]
  /\ bound' = [k \in Slot |-> TimestampBegin]
  /\ UNCHANGED <<producer, closed, inputs, given, at, mode, syncTs>>

NextTimestampOrBound(k) == IF squeue[k] = << >> THEN bound[k] ELSE Head(squeue[k]).ts

\* Whether the stream is done once its squeue is q.
IsDone(k, q) == q = << >> /\ TimestampDone(bound[k])

\* Mutant of Stale: a datum of the time itself is left.
StaleBefore(d, ts) == d.ts < ts

\* What PopAt takes off the squeue.
Stale(d, ts) == d.ts <= ts

\* How many data in front PopAt takes off, and the one it returns: the last of
\* them if its time is ts, else an empty one just before what comes next.
Popped(q, ts) ==
  CHOOSE n \in 0 .. Len(q) :
    (\A i \in 1 .. n : Stale(q[i], ts)) /\ (n < Len(q) => ~ Stale(q[n + 1], ts))
PopAt(q, b, ts) ==
  LET n == Popped(q, ts)
      next == IF n = Len(q) THEN b ELSE q[n + 1].ts IN
  IF n > 0 /\ q[n].ts = ts THEN q[n] ELSE [id |-> 0, ts |-> next - 1]
-----------------------------------------------------------------------------
(* The consumer: Marshal, Process of the task, PostProcess *)

\* Sync drains every slot in turn; SyncAt takes what is due at a time.
SyncStart ==
  /\ at = 0 /\ \A k \in Slot : inputs[k] = << >>
  /\ at' = 1 /\ syncTs' = NextTimestampOrBound(1)
  /\ mode' \in {0} \cup (TimestampBegin + 1) .. (TimestampEnd - 1)
  /\ UNCHANGED <<producer, squeue, bound, closed, inputs, given, lost>>

NextSlot ==
  IF at = M THEN at' = 0 /\ syncTs' = 0 /\ mode' = 0
  ELSE at' = at + 1 /\ syncTs' = NextTimestampOrBound(at + 1) /\ UNCHANGED mode

\* Pop, then marshal unless the stream is done: then the datum is gone.
SyncPop ==
  /\ at \in Slot /\ mode = 0 /\ squeue[at] # << >>
  /\ LET d == Head(squeue[at])
         rest == Tail(squeue[at]) IN
       /\ squeue' = [squeue EXCEPT ![at] = rest]
       /\ IF IsDone(at, rest)
          THEN /\ lost' = [lost EXCEPT ![at] = @ \cup {d.id}]
               /\ NextSlot /\ UNCHANGED inputs
          ELSE /\ inputs' = [inputs EXCEPT ![at] = Append(@, [d EXCEPT !.ts = syncTs - 1])]
               /\ UNCHANGED <<lost, at, syncTs, mode>>
  /\ UNCHANGED <<producer, bound, closed, given>>

SyncNext ==
  /\ at \in Slot /\ mode = 0 /\ squeue[at] = << >>
  /\ NextSlot
  /\ UNCHANGED <<producer, squeue, bound, closed, inputs, given, lost>>

SyncAt ==
  /\ at \in Slot /\ mode # 0
  /\ LET b == IF bound[at] <= mode THEN mode + 1 ELSE bound[at]
         n == Popped(squeue[at], mode)
         d == PopAt(squeue[at], b, mode) IN
       /\ bound' = [bound EXCEPT ![at] = b]
       /\ squeue' = [squeue EXCEPT ![at] = SubSeq(@, n + 1, Len(@))]
       /\ inputs' = [inputs EXCEPT ![at] = Append(@, d)]
       /\ lost' = [lost EXCEPT ![at] = @ \cup ({squeue[at][i].id : i \in 1 .. n} \ {d.id})]
  /\ NextSlot
  /\ UNCHANGED <<producer, closed, given>>

\* The task has read its inputs; PostProcess clears them.
PostProcess ==
  /\ at = 0 /\ \E k \in Slot : inputs[k] # << >>
  /\ given' = [k \in Slot |-> given[k] \cup Numbers(inputs[k])]
  /\ inputs' = [k \in Slot |-> << >>]
  /\ UNCHANGED <<producer, squeue, bound, closed, at, mode, syncTs, lost>>

StreamNext ==
  \/ AddDatum \/ CloseOutput \/ PropagateStart \/ Propagate \/ PrepareManagers
  \/ \E k \in Slot : Close(k) \/ \E ts \in Bounds : SetNextTimestampBound(k, ts)
  \/ SyncStart \/ SyncPop \/ SyncNext \/ SyncAt \/ PostProcess

StreamSpec == StreamInit /\ [][StreamNext]_streamVars
-----------------------------------------------------------------------------
(* Properties *)

\* The data that slot k is still to be fed with.
Coming(k) == IF prop = 0 \/ k >= prop THEN outq ELSE << >>

\* All of A come before all of B; the data of s have rising numbers.
Before(A, B) == \A a \in A, b \in B : a < b
Rising(s) == \A i, j \in DOMAIN s : i < j /\ ~ IsEmpty(s[i]) /\ ~ IsEmpty(s[j]) => s[i].id < s[j].id

(***************************************************************************)
(* StreamTypes, and only times strictly between begin and end are in a squeue.    *)
(***************************************************************************)
StreamTypeOK ==
  /\ prop \in 0 .. M /\ at \in 0 .. M /\ made \in 0 .. MaxData
  /\ outq \in Seq(Datum) /\ bound \in [Slot -> Time]
  /\ \A k \in Slot : \A i \in DOMAIN squeue[k] :
       squeue[k][i].ts \in (TimestampBegin + 1) .. (TimestampEnd - 1)

(***************************************************************************)
(* Every slot gets every datum that addDatum accepted once and in order,   *)
(* whoever closes, pops or produces meanwhile: what was given came before  *)
(* what the task is given now, that before what is queued, and that before *)
(* what is still to come; with what was dropped, it is all that was        *)
(* accepted, and no datum is at two places. The mirrors are fed one lock   *)
(* at a time from a list that the last one takes over.                     *)
(***************************************************************************)
InOrder(k) ==
  /\ Rising(inputs[k]) /\ Rising(squeue[k]) /\ Rising(Coming(k))
  /\ Before(given[k], Numbers(inputs[k]) \cup Numbers(squeue[k]) \cup Numbers(Coming(k)))
  /\ Before(Numbers(inputs[k]), Numbers(squeue[k]) \cup Numbers(Coming(k)))
  /\ Before(Numbers(squeue[k]), Numbers(Coming(k)))

EachOnce(k) ==
  LET path == given[k] \cup Numbers(inputs[k]) \cup Numbers(squeue[k]) \cup Numbers(Coming(k)) IN
  path \cup lost[k] = 1 .. made /\ path \cap lost[k] = {}

AllInOrder == \A k \in Slot : InOrder(k) /\ EachOnce(k)

EachOnceInOrder == StreamTypeOK /\ AllInOrder

(***************************************************************************)
(* Sync loses nothing of a stream that is open: only closing one before it *)
(* was drained costs a datum, and then one, the last.                      *)
(***************************************************************************)
LossOnlyAtClose ==
  [][\A k \in Slot : mode = 0 /\ at = k /\ lost'[k] # lost[k] =>
       /\ closed[k] /\ squeue[k] = <<Head(squeue[k])>>
       /\ lost'[k] = lost[k] \cup {Head(squeue[k]).id}]_streamVars

(***************************************************************************)
(* SyncAt gives each slot one datum: the newest with exactly that time if  *)
(* the stream is in order and has one, otherwise an empty one that is not  *)
(* before that time; and nothing of that time or older stays queued.       *)
(***************************************************************************)
Ordered(q) == \A i, j \in DOMAIN q : i < j => q[i].ts <= q[j].ts

SyncAtExact ==
  [][\A k \in Slot : mode # 0 /\ at = k /\ Ordered(squeue[k]) /\ inputs'[k] # inputs[k] =>
       LET d == Last(inputs'[k]) IN
       /\ \A i \in DOMAIN squeue'[k] : squeue'[k][i].ts > mode
       /\ IsEmpty(d) <=> \A i \in DOMAIN squeue[k] : squeue[k][i].ts # mode
       /\ IsEmpty(d) => d.ts >= mode]_streamVars

(***************************************************************************)
(* What the two ways to fill the inputs promise: Sync loses at most the    *)
(* last datum of a closed stream, SyncAt gives the datum of its time.      *)
(***************************************************************************)
SyncExact == LossOnlyAtClose /\ SyncAtExact
-----------------------------------------------------------------------------
(* The inductive invariant of CppGraph_proofs *)

\* What was accepted, and what a task may be given.
Sent == [id : 1 .. MaxData, ts : (TimestampBegin + 1) .. (TimestampEnd - 1)]
Given == [id : 0 .. MaxData, ts : Int]

StreamTypes ==
  /\ outq \in Seq(Sent) /\ outOpen \in BOOLEAN /\ prop \in 0 .. M
  /\ squeue \in [Slot -> Seq(Sent)] /\ bound \in [Slot -> Time] /\ closed \in [Slot -> BOOLEAN]
  /\ inputs \in [Slot -> Seq(Given)] /\ at \in 0 .. M /\ syncTs \in Time
  /\ mode \in {0} \cup (TimestampBegin + 1) .. (TimestampEnd - 1)
  /\ made \in Nat /\ tries \in Nat /\ made <= tries /\ tries <= MaxData
  /\ given \in [Slot -> SUBSET Nat] /\ lost \in [Slot -> SUBSET Nat]

\* Only Close ends a stream.
EndIsClose == \A k \in Slot : TimestampDone(bound[k]) => closed[k]

StreamInv == StreamTypes /\ EndIsClose /\ AllInOrder
=============================================================================
