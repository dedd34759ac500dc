----------------------------- MODULE DniServer ------------------------------
(***************************************************************************)
(* The detection servers (dni_server.cc with sccm and gRPC, and its A100   *)
(* variant) during one CalculateGraph call: sccm writes slots to a ring in *)
(* shared memory, the read_rb thread hands pointers to them, without       *)
(* copying, to the queues of the calc_graph threads, and these write their *)
(* responses to the client's stream.  What the graphs compute is left open *)
(* here; module Detection has it.                                          *)
(***************************************************************************)
EXTENDS Integers, Sequences

CONSTANTS
  Variant,               \* "grpc" or "A100"
  all_nic_number, concur_cnt,
  slot_count,            \* slots of the ring (100)
  Cap,                   \* cells of a queue (100)
  MaxSlots               \* bound: slots sccm writes

\* Without a NIC or a second core there would be no graph to hand slots to.
SomeGraph ==
  /\ all_nic_number \in Nat \ {0} /\ concur_cnt \in Nat \ {0, 1}
  /\ slot_count \in Nat \ {0} /\ Cap \in Nat \ {0}

VARIABLES
  written, cell, head, tail,      \* sccm and the ring; a cell holds the number of its slot
  reader,                         \* [pc, ptr, took, graph_index] of read_rb
  queue,                          \* the spsc of each graph: [data, head, tail]
  owed, overrun,                  \* history: pointers pushed and not popped; whether ever Cap of them
  worker,                         \* [pc, ptr, took, hdr, pkts, resp] of each calc_graph thread
  mutex, stream, responses,       \* writer_mutex, the client's stream and what was written to it
  main, graphs                    \* CalculateGraph, and the graphs that exist

ringvars == <<written, cell, head, tail>>
queuevars == <<queue, owed, overrun>>
outvars == <<mutex, stream, responses>>
vars == <<ringvars, reader, queuevars, worker, outvars, main, graphs>>

graph_cnt_grpc == 1
graph_cnt_A100 == IF all_nic_number > concur_cnt \div 2 THEN concur_cnt \div 2 ELSE all_nic_number
graph_cnt == IF Variant = "grpc" THEN graph_cnt_grpc ELSE graph_cnt_A100
G == 1 .. graph_cnt

Empty == [data |-> [i \in 0 .. Cap - 1 |-> <<0, 0>>], head |-> 0, tail |-> 0]
NoResponse == [result |-> "none", rules |-> 0, mfr |-> 0]

Init ==
  /\ written = 0 /\ cell = [i \in 0 .. slot_count - 1 |-> 0] /\ head = 0 /\ tail = 0
  /\ reader = [pc |-> "off", ptr |-> 0, took |-> 0, graph_index |-> 1]
  /\ queue = [g \in G |-> Empty] /\ owed = [g \in G |-> << >>] /\ overrun = [g \in G |-> FALSE]
  /\ worker = [g \in G |-> [pc |-> "off", ptr |-> 0, took |-> 0, hdr |-> 0, pkts |-> 0, resp |-> NoResponse]]
  /\ mutex = 0 /\ stream = "open" /\ responses = << >> /\ main = "start" /\ graphs = {}
-----------------------------------------------------------------------------
(* sccm and the client *)

used == IF head <= tail THEN tail - head ELSE slot_count - (head - tail)

SccmWrites ==
  /\ written < MaxSlots /\ used < slot_count - 1
  /\ written' = written + 1 /\ cell' = [cell EXCEPT ![tail] = written + 1]
  /\ tail' = (tail + 1) % slot_count
  /\ UNCHANGED <<head, reader, queuevars, worker, outvars, main, graphs>>

ClientCloses ==
  /\ stream = "open" /\ stream' = "closed"
  /\ UNCHANGED <<ringvars, reader, queuevars, worker, mutex, responses, main, graphs>>
-----------------------------------------------------------------------------
(* read_rb *)

\* The ring is reset: what sccm has written before is lost.
StartReading ==
  /\ reader.pc = "started" /\ reader' = [reader EXCEPT !.pc = "run"]
  /\ head' = 0 /\ tail' = 0
  /\ UNCHANGED <<written, cell, queuevars, worker, outvars, main, graphs>>

NicData == head

\* The head moves on before the slot has been looked at.
ReadSlot ==
  /\ reader.pc = "run" /\ used >= 1
  /\ reader' = [reader EXCEPT !.pc = "push", !.ptr = NicData, !.took = cell[head]]
  /\ head' = (head + 1) % slot_count
  /\ UNCHANGED <<written, cell, tail, queuevars, worker, outvars, main, graphs>>

\* Mutant of push: the tail is moved before the pointer is stored.
pushLate(q, d) == LET t == (q.tail + 1) % Cap IN [q EXCEPT !.data[t] = d, !.tail = t]

push(q, d) == [q EXCEPT !.data[q.tail] = d, !.tail = (q.tail + 1) % Cap]

\* Round robin; the queue is not asked whether it is full.  A graph that has
\* been deleted is pushed to as well: the memory is no longer its queue.
Push ==
  /\ reader.pc = "push"
  /\ LET g == reader.graph_index
         d == <<reader.ptr, reader.took>> IN
     IF g \in graphs
     THEN /\ queue' = [queue EXCEPT ![g] = push(@, d)]
          /\ owed' = [owed EXCEPT ![g] = Append(@, d)]
          /\ overrun' = [overrun EXCEPT ![g] = @ \/ Len(owed[g]) + 1 >= Cap]
     ELSE UNCHANGED queuevars
  /\ reader' = [reader EXCEPT !.pc = "run", !.graph_index = (@ % graph_cnt) + 1]
  /\ UNCHANGED <<ringvars, worker, outvars, main, graphs>>

\* Mutant of Sleeps: the loop spins on an empty ring.
SleepsNever == FALSE

Sleeps == reader.pc = "run" /\ used = 0

\* pthread_cancel takes effect where the thread sleeps.
ReaderCancelled ==
  /\ Sleeps /\ main = "joinrb"
  /\ reader' = [reader EXCEPT !.pc = "ended"]
  /\ UNCHANGED <<ringvars, queuevars, worker, outvars, main, graphs>>

read_rb == StartReading \/ ReadSlot \/ Push \/ ReaderCancelled
read_rb_A100 == StartReading \/ ReadSlot \/ Push \/ ReaderCancelled
-----------------------------------------------------------------------------
(* calc_graph *)

At(g, pc) == worker[g].pc = pc
Becomes(g, w) == worker' = [worker EXCEPT ![g] = w] /\ UNCHANGED <<ringvars, reader, main, graphs>>
Go(g, pc) == [worker[g] EXCEPT !.pc = pc]
Answer(g, result, rules, mfr) ==
  [worker[g] EXCEPT !.pc = "lock", !.resp = [result |-> result, rules |-> rules, mfr |-> mfr]]
Slot(g) == cell[worker[g].ptr]

pop(q) == q.data[q.head]

Pop(g) ==
  /\ At(g, "pop") /\ queue[g].head # queue[g].tail
  /\ LET d == pop(queue[g]) IN
     Becomes(g, [Go(g, "header") EXCEPT !.ptr = d[1], !.took = d[2], !.hdr = 0, !.pkts = 0])
  /\ queue' = [queue EXCEPT ![g].head = (@ + 1) % Cap]
  /\ owed' = [owed EXCEPT ![g] = IF @ = << >> THEN @ ELSE Tail(@)]
  /\ UNCHANGED <<overrun, outvars>>

\* parse_header; few packets are answered at once.
ParseHeader(g) ==
  /\ At(g, "header")
  /\ \/ Becomes(g, [Go(g, "g1") EXCEPT !.hdr = Slot(g)])
     \/ Becomes(g, [Answer(g, "Less", 1, 0) EXCEPT !.hdr = Slot(g)])
  /\ UNCHANGED <<queuevars, outvars>>

NoAnomaly(g) == At(g, "g1") /\ Becomes(g, Answer(g, "No Anomaly", 1, 0)) /\ UNCHANGED <<queuevars, outvars>>
Anomaly(g) == At(g, "g1") /\ Becomes(g, Go(g, "packets")) /\ UNCHANGED <<queuevars, outvars>>

\* parse_packets reads the slot again; without a packet there is no answer.
ParsePackets(g) ==
  /\ At(g, "packets")
  /\ \/ Becomes(g, [Go(g, "g2") EXCEPT !.pkts = Slot(g)])
     \/ Becomes(g, [Go(g, "pop") EXCEPT !.pkts = Slot(g)])
  /\ UNCHANGED <<queuevars, outvars>>

\* The first task of graph 3 consumes a pointer to the counts and fails on
\* any other datum; there are no rules then.
Confirmed(g, sip_count) ==
  /\ At(g, "g2")
  /\ Becomes(g, Answer(g, "Confirmed Attack", IF sip_count = "counts*" THEN 1 ELSE 0, 0))
  /\ UNCHANGED <<queuevars, outvars>>

\* get_mfr_bytes reads the slot a third time, for the model of graph 4.
PossibleModel(g) ==
  At(g, "g2") /\ Becomes(g, Answer(g, "Possible Attack", 1, Slot(g))) /\ UNCHANGED <<queuevars, outvars>>
Possible(g) ==
  At(g, "g2") /\ Becomes(g, Answer(g, "Possible Attack", 1, 0)) /\ UNCHANGED <<queuevars, outvars>>
NoAttack(g) ==
  At(g, "g2") /\ Becomes(g, Answer(g, "No Attack", 1, 0)) /\ UNCHANGED <<queuevars, outvars>>

Lock(g) ==
  /\ At(g, "lock") /\ mutex = 0 /\ mutex' = g /\ Becomes(g, Go(g, "write"))
  /\ UNCHANGED <<queuevars, stream, responses>>

\* Both ways out unlock.
Unlocked(g) == 0

\* A stream that was closed ends the thread, which finishes its graphs.
Write(g) ==
  /\ At(g, "write") /\ mutex' = Unlocked(g)
  /\ IF stream = "open"
     THEN /\ responses' = Append(responses, [g |-> g, took |-> worker[g].took, hdr |-> worker[g].hdr,
                                             pkts |-> worker[g].pkts, resp |-> worker[g].resp])
          /\ Becomes(g, Go(g, "pop"))
     ELSE Becomes(g, Go(g, "stopped")) /\ UNCHANGED responses
  /\ UNCHANGED <<queuevars, stream>>

Common(g) ==
  Pop(g) \/ ParseHeader(g) \/ NoAnomaly(g) \/ Anomaly(g) \/ ParsePackets(g) \/ NoAttack(g) \/ Lock(g) \/ Write(g)

calc_graph(g) == Common(g) \/ Confirmed(g, "counts*") \/ PossibleModel(g)

calc_graph_A100(g) == Common(g) \/ Confirmed(g, "counts") \/ Possible(g)
-----------------------------------------------------------------------------
(* CalculateGraph *)

\* Each graph is set up and its thread started within the 200 ms of the
\* loop.
start_graph ==
  /\ main = "start"
  /\ \E g \in G :
     /\ graphs = 1 .. g - 1
     /\ graphs' = graphs \cup {g} /\ worker' = [worker EXCEPT ![g].pc = "pop"]
     /\ main' = IF g = graph_cnt THEN "reader" ELSE "start"
  /\ UNCHANGED <<ringvars, reader, queuevars, outvars>>

StartReader ==
  /\ main = "reader" /\ main' = "join" /\ reader' = [reader EXCEPT !.pc = "started"]
  /\ UNCHANGED <<ringvars, queuevars, worker, outvars, graphs>>

\* Mutant of AllStopped: only the first thread is waited for.
AllStoppedFirst == worker[1].pc = "stopped"

AllStopped == \A g \in G : worker[g].pc = "stopped"

\* join of every thread, then delete of every graph.
JoinAndDelete ==
  /\ main = "join" /\ AllStopped /\ main' = "cancel" /\ graphs' = {}
  /\ UNCHANGED <<ringvars, reader, queuevars, worker, outvars>>

Cancel ==
  /\ main = "cancel" /\ main' = "joinrb"
  /\ UNCHANGED <<ringvars, reader, queuevars, worker, outvars, graphs>>

JoinReader ==
  /\ main = "joinrb" /\ reader.pc = "ended" /\ main' = "exit"
  /\ UNCHANGED <<ringvars, reader, queuevars, worker, outvars, graphs>>

CalculateGraph == start_graph \/ StartReader \/ JoinAndDelete \/ Cancel \/ JoinReader
CalculateGraph_A100 == start_graph \/ StartReader \/ JoinAndDelete \/ Cancel \/ JoinReader

Next ==
  \/ SccmWrites \/ ClientCloses
  \/ Variant = "grpc" /\ (read_rb \/ CalculateGraph \/ \E g \in G : calc_graph(g))
  \/ Variant = "A100" /\ (read_rb_A100 \/ CalculateGraph_A100 \/ \E g \in G : calc_graph_A100(g))

\* Threads run; sccm and the client owe nothing.
Fairness ==
  /\ WF_vars(read_rb) /\ WF_vars(CalculateGraph)
  /\ \A g \in G : WF_vars(IF Variant = "grpc" THEN calc_graph(g) ELSE calc_graph_A100(g))

Spec == Init /\ [][Next]_vars /\ Fairness
-----------------------------------------------------------------------------
(* Properties *)

(***************************************************************************)
(* Types: every index of the ring and of the queues is in its range.       *)
(***************************************************************************)
TypeOK ==
  /\ head \in 0 .. slot_count - 1 /\ tail \in 0 .. slot_count - 1 /\ graphs \subseteq G
  /\ \A g \in G : queue[g].head \in 0 .. Cap - 1 /\ queue[g].tail \in 0 .. Cap - 1
  /\ mutex \in G \cup {0} /\ stream \in {"open", "closed"} /\ overrun \in [G -> BOOLEAN]

(***************************************************************************)
(* As long as fewer than Cap pointers were waiting, a queue holds exactly  *)
(* those pushed and not popped, in order: spsc loses nothing before it is  *)
(* full, which nobody checks.                                              *)
(***************************************************************************)
InQueue(g) ==
  LET q == queue[g] IN [i \in 1 .. (q.tail - q.head + Cap) % Cap |-> q.data[(q.head + i - 1) % Cap]]
QueueKeepsAll == \A g \in G : ~ overrun[g] => InQueue(g) = owed[g]

(***************************************************************************)
(* What a thread is given to read stays as it was taken from the ring      *)
(* until sccm has written as many further slots as the ring has: that is   *)
(* all the time the missing copy leaves.                                   *)
(***************************************************************************)
ValidForOneLap ==
  \A g \in G :
    worker[g].pc \in {"header", "g1", "packets", "g2"} =>
      Slot(g) = worker[g].took \/ written >= worker[g].took + slot_count

(***************************************************************************)
(* A graph is deleted only after its thread has left calc_graph.           *)
(***************************************************************************)
GraphOutlivesThread == \A g \in G : worker[g].pc \notin {"off", "stopped"} => g \in graphs

(***************************************************************************)
(* Each thread answers the slots in the order sccm wrote them, as long as  *)
(* the ring has not gone round and no queue was full.                      *)
(***************************************************************************)
AnswersInOrder ==
  \A i, j \in DOMAIN responses :
    (i < j /\ responses[i].g = responses[j].g /\ ~ overrun[responses[i].g] /\ written <= slot_count)
      => responses[i].hdr < responses[j].hdr

(***************************************************************************)
(* What the threads promise together.                                      *)
(***************************************************************************)
SlotsInOrder == TypeOK /\ QueueKeepsAll /\ AnswersInOrder
UsedIsValid == ValidForOneLap /\ GraphOutlivesThread
-----------------------------------------------------------------------------
(* The inductive invariant of Services_proofs *)

Reading == {"header", "g1", "packets", "g2"}
Busy == Reading \cup {"lock", "write"}
Pointer == (0 .. slot_count - 1) \X Nat
Results == {"none", "Less", "No Anomaly", "No Attack", "Possible Attack", "Confirmed Attack"}

Types ==
  /\ written \in Nat /\ cell \in [0 .. slot_count - 1 -> Nat]
  /\ head \in 0 .. slot_count - 1 /\ tail \in 0 .. slot_count - 1
  /\ reader \in [pc : {"off", "started", "run", "push", "ended"}, ptr : 0 .. slot_count - 1,
                 took : Nat, graph_index : G]
  /\ queue \in [G -> [data : [0 .. Cap - 1 -> Pointer], head : 0 .. Cap - 1, tail : 0 .. Cap - 1]]
  /\ owed \in [G -> Seq(Pointer)] /\ overrun \in [G -> BOOLEAN]
  /\ worker \in [G -> [pc : Busy \cup {"off", "pop", "stopped"}, ptr : 0 .. slot_count - 1, took : Nat,
                       hdr : Nat, pkts : Nat, resp : [result : Results, rules : Nat, mfr : Nat]]]
  /\ mutex \in G \cup {0} /\ stream \in {"open", "closed"}
  /\ responses \in Seq([g : G, took : Nat, hdr : Nat, pkts : Nat,
                        resp : [result : Results, rules : Nat, mfr : Nat]])
  /\ main \in {"start", "reader", "join", "cancel", "joinrb", "exit"} /\ graphs \subseteq G

\* Threads are started one by one, the reader last; graphs go when all threads
\* have stopped.
StartedInv ==
  /\ main \in {"start", "reader"} => reader.pc = "off"
  /\ main = "start" => \E k \in 0 .. graph_cnt - 1 : graphs = 1 .. k
  /\ main \in {"reader", "join"} => graphs = G
  /\ main \in {"cancel", "joinrb", "exit"} => AllStopped
  /\ GraphOutlivesThread

\* Until the ring is reset no pointer was taken.
NothingTaken ==
  reader.pc \in {"off", "started"} =>
    /\ reader.took = 0
    /\ \A g \in G : /\ owed[g] = << >> /\ queue[g].head = queue[g].tail
                    /\ worker[g].pc \in {"off", "pop"}

\* From h to t in a ring of n; how many writes ago, counted from t, k was written.
Dist(n, h, t) == IF h <= t THEN t - h ELSE t - h + n
Age(t, k) == IF k < t THEN t - k ELSE t - k + slot_count

\* The slots from head to tail hold the last writes.
UnreadInv ==
  reader.pc \in {"run", "push", "ended"} =>
    /\ reader.took + Dist(slot_count, head, tail) <= written
    /\ \A k \in 0 .. slot_count - 1 :
         Age(tail, k) <= Dist(slot_count, head, tail) => cell[k] + Age(tail, k) = written + 1

\* A slot that was taken is as it was, and sccm writes it after all the others,
\* or it has been written again.
Held(p, took) ==
  /\ took > 0
  /\ \/ took + slot_count <= written
     \/ cell[p] = took /\ took + Age(tail, p) = written + 1

\* Where the i-th waiting pointer is.
Cell(h, i) == IF h + i - 1 < Cap THEN h + i - 1 ELSE h + i - 1 - Cap
Waiting(g) == Dist(Cap, queue[g].head, queue[g].tail)

QueueInv(g) ==
  /\ \A i \in 1 .. Waiting(g) :
       LET d == queue[g].data[Cell(queue[g].head, i)] IN Held(d[1], d[2])
  /\ ~ overrun[g] =>
       /\ Len(owed[g]) = Waiting(g)
       /\ \A i \in 1 .. Waiting(g) : owed[g][i] = queue[g].data[Cell(queue[g].head, i)]

HeldInv ==
  /\ reader.pc = "push" => Held(reader.ptr, reader.took)
  /\ \A g \in G : worker[g].pc \in Reading => Held(worker[g].ptr, worker[g].took)

\* The numbers answered, at work, waiting and being handed on by the reader
\* go up.
Answered(g) == IF worker[g].pc \in Busy THEN worker[g].took - 1 ELSE worker[g].took
HandedOn == IF reader.pc = "push" THEN reader.took - 1 ELSE reader.took

OrderInv(g) ==
  ~ overrun[g] =>
    /\ worker[g].took <= HandedOn
    /\ \A i \in DOMAIN owed[g] : worker[g].took < owed[g][i][2] /\ owed[g][i][2] <= HandedOn
    /\ \A i, j \in DOMAIN owed[g] : i < j => owed[g][i][2] < owed[g][j][2]
    /\ \A i \in DOMAIN responses : responses[i].g = g => responses[i].took <= Answered(g)
    /\ \A i, j \in DOMAIN responses :
         i < j /\ responses[i].g = g /\ responses[j].g = g => responses[i].took < responses[j].took

\* Before the ring has gone round a header is that of the slot taken.
HeaderInv ==
  written <= slot_count =>
    /\ \A g \in G : worker[g].pc \in Busy \ {"header"} => worker[g].hdr = worker[g].took
    /\ \A i \in DOMAIN responses : responses[i].hdr = responses[i].took

ServerInv ==
  /\ Types /\ StartedInv /\ NothingTaken /\ UnreadInv /\ HeldInv /\ HeaderInv
  /\ \A g \in G : QueueInv(g) /\ OrderInv(g)
=============================================================================
