------------------------------ MODULE CppGraph ------------------------------
(***************************************************************************)
(* A C++ graph in use: dni::Graph (graph.cc), its nodes (node.cc) and the  *)
(* side data (input_side_data.cc, output_side_data.cc), wired as module    *)
(* CppConfig describes.  The caller feeds a datum per graph input, starts  *)
(* a round, waits and reads the answers; the workers of the executor run   *)
(* the nodes, each after its predecessors.  A task that fails cancels the  *)
(* round through fu_, which RunOnce assigns only after the round started.  *)
(*                                                                         *)
(* A datum is the set of the rounds whose input it was made from.          *)
(***************************************************************************)
EXTENDS Integers, Sequences, FiniteSets

CONSTANTS
  Node, Stream, Side,
  Preds,      \* Predecessors() of each node
  Ins, Outs,  \* the streams each node reads and writes
  SideIns,    \* the side data each node reads
  GraphIn,    \* the graph input streams
  Observed,   \* the streams given to ObserveOutputStream
  MaxRounds   \* bound on the number of RunOnce

ASSUME GraphAssumption ==
  /\ Preds \in [Node -> SUBSET Node]
  /\ Ins \in [Node -> SUBSET Stream] /\ Outs \in [Node -> SUBSET Stream]
  /\ SideIns \in [Node -> SUBSET Side]
  /\ GraphIn \subseteq Stream /\ Observed \subseteq Stream
  /\ \A m, n \in Node : Outs[m] \cap Ins[n] # {} => m \in Preds[n] /\ m # n
  /\ \A n \in Node : Outs[n] \cap GraphIn = {}
  /\ MaxRounds \in Nat

VARIABLES
  caller,     \* "new", "idle", "starting", "running" or "finished"
  round,      \* RunOnce calls so far
  queue,      \* the queue of the InputStreamManager of each node and stream
  side,       \* the InputSideDatum of each node and name
  held,       \* the InputStreamSet of a node that runs: what Marshal moved there
  answers,    \* the queue of each GraphOutputStream
  active,     \* a topology runs
  done, busy, \* the nodes of it that have run, that run
  cancelled,  \* it is cancelled
  fresh,      \* fu_ is the future of this round
  status,     \* status_ of each node
  inClosed,   \* the graph inputs closed with CloseInputStream
  fed,        \* graph inputs fed for the next round
  complete,   \* the last round ran every node
  clean,      \* when it was started the one before was complete and read
  result      \* what the last GetResult gave, with the round it was called after

vars == <<caller, round, queue, side, held, answers, active, done, busy, cancelled,
          fresh, status, inClosed, fed, complete, clean, result>>
callerVars == <<caller, round, fed, inClosed, clean, result>>
workVars == <<active, done, busy, cancelled, held, complete>>

Nil == {}
NoResult == [value |-> Nil, round |-> 0, clean |-> TRUE]

Init ==
  /\ caller = "new" /\ round = 0
  /\ queue = [n \in Node |-> [s \in Stream |-> << >>]]
  /\ side = [n \in Node |-> [d \in Side |-> Nil]]
  /\ held = [n \in Node |-> [s \in Stream |-> << >>]]
  /\ answers = [s \in Observed |-> << >>]
  /\ active = FALSE /\ done = {} /\ busy = {} /\ cancelled = FALSE /\ fresh = FALSE
  /\ status = [n \in Node |-> "uninitialized"]
  /\ inClosed = {} /\ fed = {} /\ complete = TRUE /\ clean = TRUE
  /\ result = NoResult
-----------------------------------------------------------------------------
(* The caller *)

\* Mutant of Emptied: what is queued stays.
EmptiedNot(q) == q

\* InputStreamManager::PrepareForRun clears every queue.
Emptied(q) == [n \in Node |-> [s \in Stream |-> << >>]]

\* prepareInputSideData copies values nobody has set.
FreshSide == [n \in Node |-> [d \in Side |-> Nil]]

\* Node::PrepareForRun and Node::Open, and Node::Finish.
Opened == [n \in Node |-> "opened"]
Finished == [n \in Node |-> "uninitialized"]

\* The nodes are prepared, then opened by a run of their own, which is waited
\* for; what their tasks' Open return is not looked at.
PrepareForRun ==
  /\ caller \in {"new", "finished"}
  /\ caller' = "idle"
  /\ queue' = Emptied(queue)
  /\ side' = FreshSide
  /\ answers' = [s \in Observed |-> << >>]
  /\ status' = Opened
  /\ fed' = {} /\ complete' = TRUE
  /\ UNCHANGED <<clean, round, held, active, done, busy, cancelled, fresh, inClosed, result>>

\* Propagate: the datum reaches every mirror of the stream.
Put(q, s, d) == [n \in Node |-> IF s \in Ins[n] THEN [q[n] EXCEPT ![s] = Append(@, d)] ELSE q[n]]

\* A closed input is fed all the same.
AddDatumToInputStream(s) ==
  /\ caller = "idle" /\ round < MaxRounds /\ s \in GraphIn \ fed
  /\ queue' = Put(queue, s, {round + 1})
  /\ answers' = [o \in Observed |-> IF o = s THEN Append(answers[o], {round + 1}) ELSE answers[o]]
  /\ fed' = fed \cup {s}
  /\ UNCHANGED <<clean, caller, round, side, workVars, fresh, status, inClosed, result>>

\* InputSideDataHandler::Set refuses a place that holds something.
SideSlot(old, new) == IF old = Nil THEN new ELSE old

AddDatumToInputSideData(d) ==
  /\ caller = "idle" /\ round < MaxRounds
  /\ side' = [n \in Node |-> IF d \in SideIns[n]
                             THEN [side[n] EXCEPT ![d] = SideSlot(@, {round + 1})]
                             ELSE side[n]]
  /\ UNCHANGED <<clean, caller, round, queue, answers, workVars, fresh, status, inClosed, fed, result>>

\* executor_.run: from here on the workers run.
RunOnce ==
  /\ caller = "idle" /\ round < MaxRounds
  /\ caller' = "starting" /\ round' = round + 1 /\ fed' = {}
  /\ active' = TRUE /\ done' = {} /\ cancelled' = FALSE /\ complete' = FALSE
  /\ clean' = (complete /\ \A s \in Observed : answers[s] = << >>)
  /\ UNCHANGED <<queue, side, held, answers, busy, fresh, status, inClosed, result>>

\* fu_ = ... takes the future executor_.run returned.
AssignFuture ==
  /\ caller = "starting"
  /\ caller' = "running" /\ fresh' = TRUE
  /\ UNCHANGED <<clean, round, queue, side, answers, workVars, status, inClosed, fed, result>>

Wait ==
  /\ caller = "running" /\ ~ active
  /\ caller' = "idle" /\ fresh' = FALSE
  /\ UNCHANGED <<clean, round, queue, side, answers, workVars, status, inClosed, fed, result>>

\* fu_.cancel(), then fu_.get() waits like Wait.
Cancel ==
  /\ caller = "running" /\ active
  /\ cancelled' = TRUE
  /\ UNCHANGED <<callerVars, queue, side, answers, active, done, busy, held, complete,
                 fresh, status>>

\* Head of the queue: the oldest, or T() if there is none.
Answer(q) == IF q = << >> THEN Nil ELSE Head(q)

GetResult(s) ==
  /\ caller = "idle" /\ s \in Observed
  /\ result' = [value |-> Answer(answers[s]), round |-> round, clean |-> clean]
  /\ answers' = [answers EXCEPT ![s] = << >>]
  /\ UNCHANGED <<clean, caller, round, queue, side, workVars, fresh, status, inClosed, fed>>

ClearResult ==
  /\ caller = "idle" /\ \E s \in Observed : answers[s] # << >>
  /\ answers' = [s \in Observed |-> << >>]
  /\ UNCHANGED <<callerVars, queue, side, workVars, fresh, status>>

CloseInputStream(s) ==
  /\ caller = "idle" /\ s \in GraphIn \ inClosed
  /\ inClosed' = inClosed \cup {s}
  /\ UNCHANGED <<clean, caller, round, queue, side, answers, workVars, fresh, status, fed, result>>

CloseAllInputStreams ==
  /\ caller = "idle" /\ inClosed # GraphIn
  /\ inClosed' = GraphIn
  /\ UNCHANGED <<clean, caller, round, queue, side, answers, workVars, fresh, status, fed, result>>

Finish ==
  /\ caller = "idle" /\ round > 0
  /\ caller' = "finished" /\ inClosed' = GraphIn
  /\ status' = Finished
  /\ UNCHANGED <<clean, round, queue, side, answers, workVars, fresh, fed, result>>
-----------------------------------------------------------------------------
(* The workers *)

\* Mutant of Ready: one predecessor is enough.
ReadyAny(n) == Preds[n] = {} \/ Preds[n] \cap done # {}

\* The executor runs a task when all it succeeds have run.
Ready(n) == Preds[n] \subseteq done

\* The time of the context is never pushed, so the branch that closes the node
\* is not taken.  Marshal drains the queues into the InputStreamSet.
ProcessBegin(n) ==
  /\ active /\ ~ cancelled /\ n \notin done \cup busy /\ Ready(n)
  /\ busy' = busy \cup {n}
  /\ held' = [held EXCEPT ![n] = queue[n]]
  /\ queue' = [queue EXCEPT ![n] = [s \in Stream |-> << >>]]
  /\ UNCHANGED <<callerVars, side, answers, active, done, cancelled, complete, fresh, status>>

\* Value() of each input is the front; a task that emits makes one datum of them.
Complete(n) ==
  (\A s \in Ins[n] : held[n][s] # << >>) /\ (\A d \in SideIns[n] : side[n][d] # Nil)
Made(n) ==
  UNION ({Head(held[n][s]) : s \in Ins[n]} \cup {side[n][d] : d \in SideIns[n]})

Emit(n, d) ==
  /\ queue' = [m \in Node |-> [s \in Stream |->
                 IF s \in Ins[m] \cap Outs[n] THEN Append(queue[m][s], d) ELSE queue[m][s]]]
  /\ answers' = [s \in Observed |-> IF s \in Outs[n] THEN Append(answers[s], d) ELSE answers[s]]

\* Mutant of SideReset: the side data stay.
SideResetNot(n) == side[n]

\* InputSideDataHandler::PostProcess
SideReset(n) == [d \in Side |-> Nil]

\* PostProcess clears the inputs and resets the side data, whatever the task
\* returned.
ProcessEnd(n) ==
  /\ busy' = busy \ {n} /\ done' = done \cup {n}
  /\ held' = [held EXCEPT ![n] = [s \in Stream |-> << >>]]
  /\ side' = [side EXCEPT ![n] = SideReset(n)]
  /\ UNCHANGED <<callerVars, active, complete, fresh, status>>

ProcessEmit(n) ==
  /\ n \in busy /\ Complete(n)
  /\ Emit(n, Made(n)) /\ ProcessEnd(n)
  /\ UNCHANGED cancelled

ProcessSilent(n) ==
  /\ n \in busy
  /\ ProcessEnd(n)
  /\ UNCHANGED <<queue, answers, cancelled>>

\* A task that fails cancels the round fu_ stands for: this one, or, if fu_ is
\* not assigned yet, one that is over.  What it had emitted before it failed is
\* sent on all the same.
ProcessFail(n) ==
  /\ n \in busy
  /\ (Complete(n) /\ Emit(n, Made(n))) \/ UNCHANGED <<queue, answers>>
  /\ ProcessEnd(n)
  /\ cancelled' = (cancelled \/ fresh)

\* Mutant of RoundOver: a cancelled round waits for its other nodes.
RoundOverAll == done = Node

\* No node is left to run.
RoundOver == done = Node \/ cancelled

TopologyEnd ==
  /\ active /\ busy = {} /\ RoundOver
  /\ active' = FALSE /\ complete' = (done = Node)
  /\ UNCHANGED <<callerVars, queue, side, held, answers, done, busy, cancelled, fresh, status>>

Next ==
  \/ PrepareForRun \/ RunOnce \/ AssignFuture \/ Wait \/ Cancel \/ ClearResult
  \/ CloseAllInputStreams \/ Finish \/ TopologyEnd
  \/ \E s \in Stream : AddDatumToInputStream(s) \/ GetResult(s) \/ CloseInputStream(s)
  \/ \E d \in Side : AddDatumToInputSideData(d)
  \/ \E n \in Node : ProcessBegin(n) \/ ProcessEmit(n) \/ ProcessSilent(n) \/ ProcessFail(n)

\* The workers do not stop, a task returns, and the caller gets on in RunOnce.
Fairness ==
  /\ WF_vars(TopologyEnd) /\ WF_vars(AssignFuture) /\ WF_vars(Wait)
  /\ \A n \in Node : WF_vars(ProcessBegin(n))
                  /\ WF_vars(ProcessEmit(n) \/ ProcessSilent(n) \/ ProcessFail(n))

Spec == Init /\ [][Next]_vars /\ Fairness
-----------------------------------------------------------------------------
(* Properties *)

(***************************************************************************)
(* Types, and a node runs or has run only after its predecessors.          *)
(***************************************************************************)
TypeOK ==
  /\ caller \in {"new", "idle", "starting", "running", "finished"}
  /\ round \in 0 .. MaxRounds /\ inClosed \subseteq GraphIn /\ fed \subseteq GraphIn
  /\ done \subseteq Node /\ busy \subseteq Node /\ done \cap busy = {}
  /\ \A n \in done \cup busy : Preds[n] \subseteq done
  /\ active \in BOOLEAN /\ cancelled \in BOOLEAN /\ fresh \in BOOLEAN /\ complete \in BOOLEAN
  /\ DOMAIN queue = Node /\ \A n \in Node : DOMAIN queue[n] = Stream
  /\ DOMAIN side = Node /\ \A n \in Node : DOMAIN side[n] = Side

\* Nothing is queued for n, nor kept as its side data.
Drained(n) ==
  (\A s \in Stream : queue[n][s] = << >>) /\ (\A d \in Side : side[n][d] = Nil)

(***************************************************************************)
(* A round that runs every node leaves nothing behind: no datum queued at  *)
(* any input and no side datum set.  So whatever an earlier round that was *)
(* cancelled left is gone after one complete round.                        *)
(***************************************************************************)
FullRoundDrains ==
  ~ active /\ complete /\ caller \in {"starting", "running"} => \A n \in Node : Drained(n)

(***************************************************************************)
(* An answer is made of the input of its own round and of nothing else,    *)
(* whatever tasks failed in it and whether or not the cancel hit, if the   *)
(* round before was complete and its answers were read.                    *)
(***************************************************************************)
AnswerOfRound ==
  result.clean /\ result.value # Nil => result.value = {result.round}

(***************************************************************************)
(* A round ends and Wait returns: no node waits for one that cannot run.   *)
(***************************************************************************)
RoundEnds == caller = "starting" ~> caller = "idle"
=============================================================================
