----------------------------- MODULE FlowGraph -----------------------------
(***************************************************************************)
(* The Go graph runtime of dni/go/sdk: node.Execute, Graph.Run, Destroy,   *)
(* AddGraphInputData and GetGraphOutputData, over the channels of          *)
(* flowmanager.InputManager and OutputManager.                             *)
(*                                                                         *)
(* A node is a goroutine that receives one datum from each of its input    *)
(* channels, runs its task and sends the outputs on.  Clients are the      *)
(* goroutines that call the graph's API; each follows a script of calls.   *)
(*                                                                         *)
(* A datum is the set of input rounds it was computed from: the k-th datum *)
(* added to a graph input is {k}, a task's output is the union of what it  *)
(* read, and {} is the nil that Outputs.Reset leaves after a task error.   *)
(* The DataSpec a task writes its output into is one object, reused in     *)
(* every round and sent by pointer to the first consumer of the stream:    *)
(* a channel therefore holds either a value or an alias of that object.    *)
(***************************************************************************)
EXTENDS Wiring, FiniteSets

CONSTANTS
  Node,               \* the nodes of the graph
  Client,             \* goroutines calling the graph's API
  Sink,               \* the InputManager of the graph's OutputHandler
  Stream,             \* stream names
  Ins,                \* Ins[n]: n's InputStreams, in the order of Subscribe
  Outs,               \* Outs[n]: n's OutputStreams
  GIn, GOut,          \* the graph's input and output streams
  Source,             \* the OutputManager of the graph's InputHandler
  NextInputManagers,  \* NextInputManagers[p][s]: where p sends s, in order
  StreamSortedNodes,  \* the order in which Destroy stops the nodes
  Cap,                \* the capacity of a channel: 1000 in the code
  Scripts,            \* the scripts of API calls the clients may follow
  MayFail             \* the nodes whose task may return an error

Agent == Node \cup Client
Manager == Node \cup {Sink}
Datum == SUBSET Nat
Entry == [alias : BOOLEAN, d : Datum]

\* The channels: one for each stream of each InputManager.
Chan == {x \in Manager \X Stream :
           x[2] \in IF x[1] = Sink THEN GOut ELSE Range(Ins[x[1]])}

\* The calls: AddGraphInputData, GetGraphOutputData, Run and Destroy.
Op ==
  [op : {"add"}, s : GIn] \cup [op : {"get"}, s : GOut] \cup [op : {"run", "destroy"}]

ASSUME GraphAssumption ==
  /\ Node \cap Client = {} /\ Sink \notin Agent /\ Source \notin Node
  /\ IsFiniteSet(Node)
  /\ Ins \in [Node -> Seq(Stream)] /\ Outs \in [Node -> Seq(Stream)]
  /\ Stream # {} /\ GIn \subseteq Stream /\ GOut \subseteq Stream
  /\ Cap \in Nat \ {0}
  /\ StreamSortedNodes \in Seq(Node)
  /\ Scripts \subseteq [Client -> Seq(Op)]
  /\ MayFail \subseteq Node

\* The OutputManager an agent uses: its own, or the one of the InputHandler.
Port == Node \cup {Source}
PortOf(a) == IF a \in Node THEN a ELSE Source

Consumers(a, s) == NextInputManagers[PortOf(a)][s]

\* What config.go and LinkNodeEdge guarantee of a graph they accept (GraphUnit):
\* a channel is fed by one OutputManager, a stream is written by one node.
ASSUME WiringAssumption ==
  /\ NextInputManagers \in [Port -> [Stream -> Seq(Manager)]]
  /\ WellWired(Port, Stream, Chan, NextInputManagers)
  /\ SingleWriter(Node, Outs)

VARIABLES
  ch,        \* ch[<<m, s>>]: what is buffered in the channel
  closed,    \* whether it was closed
  slot,      \* slot[s]: the Data of the producer's DataSpec for s
  held,      \* held[a][s]: what a last received from s: a node's Inputs.Values
  pc,        \* where each agent is
  item,      \* position in a list of streams, or in a script
  dest,      \* position in a list of consumers, or in StreamSortedNodes
  cur,       \* the stream an agent is closing
  todo,      \* the streams it has still to close
  allok, allclosed,   \* the results of Subscribe
  acc,       \* what the task has read so far
  mutex,     \* whether n.mutex is locked
  stopinfo,  \* n.stopinfo
  ready,     \* g.Status is GRAPH_STATUS_READY
  script,    \* script[c]: the calls client c makes, in order (never changes)
  added,     \* added[s]: data handed to AddGraphInputData for s
  got        \* got[s]: the answers of GetGraphOutputData for s

chans == <<ch, closed>>
local == <<item, dest, cur, todo>>
task  == <<slot, held, allok, allclosed, acc>>
ctl   == <<mutex, stopinfo, ready>>
api   == <<added, got, script>>
vars  == <<chans, local, task, ctl, api, pc>>

NilEntry == [alias |-> FALSE, d |-> {}]

Deref(e, s) == IF e.alias THEN slot[s] ELSE e.d

Init ==
  /\ ch = [x \in Chan |-> << >>]
  /\ closed = [x \in Chan |-> FALSE]
  /\ slot = [s \in Stream |-> {}]
  /\ held = [a \in Agent |-> [s \in Stream |-> NilEntry]]
  /\ pc = [a \in Agent |-> IF a \in Node THEN "idle" ELSE "call"]
  /\ item = [a \in Agent |-> 1]
  /\ dest = [a \in Agent |-> 1]
  /\ cur = [a \in Agent |-> CHOOSE s \in Stream : TRUE]
  /\ todo = [a \in Agent |-> {}]
  /\ allok = [n \in Node |-> TRUE]
  /\ allclosed = [n \in Node |-> TRUE]
  /\ acc = [n \in Node |-> {}]
  /\ mutex = [n \in Node |-> FALSE]
  /\ stopinfo = [n \in Node |-> FALSE]
  /\ ready = TRUE
  /\ script \in Scripts
  /\ added = [s \in GIn |-> 0]
  /\ got = [s \in GOut |-> << >>]

Goto(a, l) == pc' = [pc EXCEPT ![a] = l]

\* Sending on or closing a closed channel panics: the program is over.
Panic == pc' = [a \in Agent |-> "dead"]
-----------------------------------------------------------------------------
(* OutputManager, used by the nodes and by the graph's InputHandler.       *)

\* OutputManager.AddData, one iteration: send entry e of stream s to its next
\* consumer; a full channel blocks, a closed one panics.
SendTo(a, s, e) ==
  LET x == <<Consumers(a, s)[dest[a]], s>>
  IN  /\ dest[a] \in DOMAIN Consumers(a, s)
      /\ IF closed[x]
           THEN Panic /\ UNCHANGED <<ch, dest>>
           ELSE /\ Len(ch[x]) < Cap
                /\ ch' = [ch EXCEPT ![x] = Append(@, e)]
                /\ dest' = [dest EXCEPT ![a] = @ + 1]
                /\ UNCHANGED pc
      /\ UNCHANGED <<closed, item, cur, todo, task, ctl, api>>

\* OutputManager.Close ranges over a map: the streams come in any order.
PickStream(a) ==
  /\ pc[a] = "close"
  /\ \E s \in todo[a] :
       /\ cur' = [cur EXCEPT ![a] = s]
       /\ todo' = [todo EXCEPT ![a] = @ \ {s}]
  /\ dest' = [dest EXCEPT ![a] = 1]
  /\ Goto(a, "closing")
  /\ UNCHANGED <<chans, item, task, ctl, api>>

\* InputManager.CloseInputChannel: close the channel, then drain it.
CloseChannel(a) ==
  LET x == <<Consumers(a, cur[a])[dest[a]], cur[a]>>
  IN  /\ pc[a] = "closing"
      /\ dest[a] \in DOMAIN Consumers(a, cur[a])
      /\ IF closed[x]
           THEN Panic /\ UNCHANGED closed
           ELSE /\ closed' = [closed EXCEPT ![x] = TRUE]
                /\ Goto(a, "drain")
      /\ UNCHANGED <<ch, local, task, ctl, api>>

\* Mutant of Drain: the channel is closed only.
DrainNot(a) ==
  /\ pc[a] = "drain"
  /\ dest' = [dest EXCEPT ![a] = @ + 1]
  /\ Goto(a, "closing")
  /\ UNCHANGED <<chans, item, cur, todo, task, ctl, api>>

\* One iteration of "for range ch": it competes with the channel's reader.
Drain(a) ==
  LET x == <<Consumers(a, cur[a])[dest[a]], cur[a]>>
  IN  /\ pc[a] = "drain"
      /\ IF ch[x] = << >>
           THEN /\ dest' = [dest EXCEPT ![a] = @ + 1]
                /\ Goto(a, "closing")
                /\ UNCHANGED ch
           ELSE /\ ch' = [ch EXCEPT ![x] = Tail(@)]
                /\ UNCHANGED <<pc, dest>>
      /\ UNCHANGED <<closed, item, cur, todo, task, ctl, api>>

NextStream(a) ==
  /\ pc[a] = "closing"
  /\ dest[a] \notin DOMAIN Consumers(a, cur[a])
  /\ Goto(a, "close")
  /\ UNCHANGED <<chans, local, task, ctl, api>>
-----------------------------------------------------------------------------
(* node.Execute.                                                           *)

\* InputManager.Subscribe, from its first stream.
Subscribe(n) ==
  /\ Goto(n, "recv")
  /\ item' = [item EXCEPT ![n] = 1]
  /\ allok' = [allok EXCEPT ![n] = TRUE]
  /\ allclosed' = [allclosed EXCEPT ![n] = TRUE]

Start(n) ==
  /\ pc[n] = "start"
  /\ Subscribe(n)
  /\ UNCHANGED <<chans, dest, cur, todo, slot, held, acc, ctl, api>>

\* One receive of Subscribe: a closed and empty channel yields nil.
Receive(n) ==
  /\ pc[n] = "recv"
  /\ item[n] \in DOMAIN Ins[n]
  /\ LET s == Ins[n][item[n]]
         x == <<n, s>>
         ok == ch[x] # << >>
     IN  /\ ok \/ closed[x]
         /\ ch' = [ch EXCEPT ![x] = IF ok THEN Tail(@) ELSE @]
         /\ held' = [held EXCEPT ![n][s] = IF ok THEN Head(ch[x]) ELSE NilEntry]
         /\ allok' = [allok EXCEPT ![n] = @ /\ ok]
         /\ allclosed' = [allclosed EXCEPT ![n] = @ /\ ~ ok]
  /\ item' = [item EXCEPT ![n] = @ + 1]
  /\ UNCHANGED <<closed, pc, dest, cur, todo, slot, acc, ctl, api>>

Subscribed(n) == pc[n] = "recv" /\ item[n] \notin DOMAIN Ins[n]

\* Mutant of Break: the outputs are not closed.
BreakWithoutClose(n) ==
  /\ Subscribed(n)
  /\ allclosed[n]
  /\ Goto(n, "exit")
  /\ UNCHANGED <<chans, local, task, ctl, api>>

\* All inputs are closed (or there are none): Task.Close, OutputManager.Close.
Break(n) ==
  /\ Subscribed(n)
  /\ allclosed[n]
  /\ Goto(n, "close")
  /\ todo' = [todo EXCEPT ![n] = Range(Outs[n])]
  /\ UNCHANGED <<chans, item, dest, cur, task, ctl, api>>

\* Mutant of SkipRound: the test of allok is inverted.
SkipRoundInverted(n) == stopinfo[n] \/ allok[n]

\* Under the mutex: is the round to be skipped?
SkipRound(n) == stopinfo[n] \/ ~ allok[n]

\* The early "continue" keeps n.mutex locked: no one unlocks it any more.
Continue(n) ==
  /\ Subscribed(n)
  /\ ~ allclosed[n]
  /\ ~ mutex[n]
  /\ SkipRound(n)
  /\ mutex' = [mutex EXCEPT ![n] = TRUE]
  /\ Subscribe(n)
  /\ UNCHANGED <<chans, dest, cur, todo, slot, held, acc, stopinfo, ready, api>>

\* What a task starts from: its sum, maximum or result is a local variable.
Accumulator(n) == {}

\* Lock, read stopinfo, Unlock, and call Task.Process.
Proceed(n) ==
  /\ Subscribed(n)
  /\ ~ allclosed[n]
  /\ ~ mutex[n]
  /\ ~ SkipRound(n)
  /\ Goto(n, "read")
  /\ item' = [item EXCEPT ![n] = 1]
  /\ acc' = [acc EXCEPT ![n] = Accumulator(n)]
  /\ UNCHANGED <<chans, dest, cur, todo, slot, held, allok, allclosed, ctl, api>>

\* Outputs.Reset: new objects for the next writes; whoever still holds the old
\* one keeps what it last contained.
Freeze(e, s) == [alias |-> FALSE, d |-> Deref(e, s)]

\* Mutant of Reset: the outputs keep the values of the round before.
ResetNot(n) == UNCHANGED <<slot, ch, held>>

Reset(n) ==
  LET mine == Range(Outs[n])
  IN  /\ slot' = [s \in Stream |-> IF s \in mine THEN {} ELSE slot[s]]
      /\ ch' = [x \in Chan |-> IF x[2] \in mine
                                 THEN [k \in DOMAIN ch[x] |-> Freeze(ch[x][k], x[2])]
                                 ELSE ch[x]]
      /\ held' = [a \in Agent |-> [s \in Stream |->
                                     IF s \in mine THEN Freeze(held[a][s], s)
                                                   ELSE held[a][s]]]

\* AddAllData begins.
StartSend(n) ==
  /\ Goto(n, "send")
  /\ item' = [item EXCEPT ![n] = 1]
  /\ dest' = [dest EXCEPT ![n] = 1]

\* Process reads one input; its type assertion fails on nil.
Read(n) ==
  /\ pc[n] = "read"
  /\ item[n] \in DOMAIN Ins[n]
  /\ LET s == Ins[n][item[n]]
         v == Deref(held[n][s], s)
     IN  /\ v # {}
         /\ acc' = [acc EXCEPT ![n] = @ \cup v]
  /\ item' = [item EXCEPT ![n] = @ + 1]
  /\ UNCHANGED <<chans, pc, dest, cur, todo, slot, held, allok, allclosed, ctl, api>>

\* Process returns an error: all outputs become nil and are sent all the same.
TaskError(n) ==
  /\ pc[n] = "read"
  /\ IF item[n] \in DOMAIN Ins[n]
       THEN Deref(held[n][Ins[n][item[n]]], Ins[n][item[n]]) = {}
       ELSE n \in MayFail
  /\ Reset(n)
  /\ StartSend(n)
  /\ UNCHANGED <<closed, cur, todo, allok, allclosed, acc, ctl, api>>

\* Process succeeds: from here on it assigns its outputs.
Compute(n) ==
  /\ pc[n] = "read"
  /\ item[n] \notin DOMAIN Ins[n]
  /\ Goto(n, "write")
  /\ item' = [item EXCEPT ![n] = 1]
  /\ UNCHANGED <<chans, dest, cur, todo, task, ctl, api>>

\* ctx.Outputs.Values[..].Data = ...: the object is overwritten in place.
Write(n) ==
  /\ pc[n] = "write"
  /\ IF item[n] \in DOMAIN Outs[n]
       THEN /\ slot' = [slot EXCEPT ![Outs[n][item[n]]] = acc[n]]
            /\ item' = [item EXCEPT ![n] = @ + 1]
            /\ UNCHANGED <<pc, dest>>
       ELSE StartSend(n) /\ UNCHANGED slot
  /\ UNCHANGED <<chans, cur, todo, held, allok, allclosed, acc, ctl, api>>

\* The first consumer gets the object itself, the others a clone of it.
Send(n) ==
  /\ pc[n] = "send"
  /\ item[n] \in DOMAIN Outs[n]
  /\ LET s == Outs[n][item[n]]
     IN  SendTo(n, s, IF dest[n] = 1 THEN [alias |-> TRUE, d |-> {}]
                                  ELSE [alias |-> FALSE, d |-> slot[s]])

\* The next output stream, or the next round.
SendNext(n) ==
  /\ pc[n] = "send"
  /\ IF item[n] \in DOMAIN Outs[n]
       THEN /\ dest[n] \notin DOMAIN Consumers(n, Outs[n][item[n]])
            /\ item' = [item EXCEPT ![n] = @ + 1]
            /\ dest' = [dest EXCEPT ![n] = 1]
            /\ UNCHANGED <<pc, allok, allclosed>>
       ELSE Subscribe(n) /\ UNCHANGED dest
  /\ UNCHANGED <<chans, cur, todo, slot, held, acc, ctl, api>>

\* Mutant of Exit: the loop goes on once the outputs are closed.
ExitNot(n) ==
  /\ pc[n] = "close"
  /\ todo[n] = {}
  /\ Subscribe(n)
  /\ UNCHANGED <<chans, dest, cur, todo, slot, held, acc, ctl, api>>

\* The outputs are closed: the goroutine calls wg.Done and ends.
Exit(n) ==
  /\ pc[n] = "close"
  /\ todo[n] = {}
  /\ Goto(n, "exit")
  /\ UNCHANGED <<chans, local, task, ctl, api>>

Execute(n) ==
  \/ Start(n) \/ Receive(n) \/ Break(n) \/ Continue(n) \/ Proceed(n)
  \/ Read(n) \/ TaskError(n) \/ Compute(n) \/ Write(n) \/ Send(n) \/ SendNext(n)
  \/ PickStream(n) \/ CloseChannel(n) \/ Drain(n) \/ NextStream(n) \/ Exit(n)
-----------------------------------------------------------------------------
(* The graph's API, called by the clients.                                 *)

Calls(c, o) ==
  /\ pc[c] = "call"
  /\ item[c] \in DOMAIN script[c]
  /\ script[c][item[c]].op = o

Return(c) ==
  /\ Goto(c, "call")
  /\ item' = [item EXCEPT ![c] = @ + 1]

\* Graph.Run: one goroutine per node; an error if the graph is not ready.
Run(c) ==
  /\ Calls(c, "run")
  /\ ready' = FALSE
  /\ pc' = [a \in Agent |-> IF ready /\ a \in Node THEN "start" ELSE pc[a]]
  /\ item' = [item EXCEPT ![c] = @ + 1]
  /\ UNCHANGED <<chans, dest, cur, todo, task, mutex, stopinfo, api>>

\* AddGraphInputData: a new DataSpec for the next round of the stream.
AddCall(c) ==
  /\ Calls(c, "add")
  /\ added' = [added EXCEPT ![script[c][item[c]].s] = @ + 1]
  /\ dest' = [dest EXCEPT ![c] = 1]
  /\ Goto(c, "add")
  /\ UNCHANGED <<chans, item, cur, todo, task, ctl, got, script>>

AddSend(c) ==
  /\ pc[c] = "add"
  /\ LET s == script[c][item[c]].s
     IN  SendTo(c, s, [alias |-> FALSE, d |-> {added[s]}])

AddReturn(c) ==
  /\ pc[c] = "add"
  /\ dest[c] \notin DOMAIN Consumers(c, script[c][item[c]].s)
  /\ Return(c)
  /\ UNCHANGED <<chans, dest, cur, todo, task, ctl, api>>

\* GetGraphOutputData: blocks for a datum, then reads the object it points to;
Get(c) ==
  /\ Calls(c, "get")
  /\ LET s == script[c][item[c]].s
         x == <<Sink, s>>
     IN  /\ ch[x] # << >>
         /\ ch' = [ch EXCEPT ![x] = Tail(@)]
         /\ held' = [held EXCEPT ![c][s] = Head(ch[x])]
  /\ Goto(c, "got")
  /\ UNCHANGED <<closed, local, slot, allok, allclosed, acc, ctl, api>>

Answer(c, ok, d) ==
  /\ got' = [got EXCEPT ![script[c][item[c]].s] = Append(@, [ok |-> ok, d |-> d])]
  /\ Return(c)

GetReturn(c) ==
  /\ pc[c] = "got"
  /\ LET s == script[c][item[c]].s
     IN  /\ Answer(c, TRUE, Deref(held[c][s], s))
         /\ held' = [held EXCEPT ![c][s] = NilEntry]
  /\ UNCHANGED <<chans, dest, cur, todo, slot, allok, allclosed, acc, ctl, added, script>>

\* Mutant of GetClosed: the second result of the receive is ignored.
GetClosedIgnored(c) ==
  /\ Calls(c, "get")
  /\ LET x == <<Sink, script[c][item[c]].s>> IN ch[x] = << >> /\ closed[x]
  /\ Answer(c, TRUE, {})
  /\ UNCHANGED <<chans, dest, cur, todo, task, ctl, added, script>>

\* an error once the channel is closed and empty.
GetClosed(c) ==
  /\ Calls(c, "get")
  /\ LET x == <<Sink, script[c][item[c]].s>> IN ch[x] = << >> /\ closed[x]
  /\ Answer(c, FALSE, {})
  /\ UNCHANGED <<chans, dest, cur, todo, task, ctl, added, script>>

\* Graph.Destroy: close the graph's inputs (OutputHandler.Close does nothing),
Destroy(c) ==
  /\ Calls(c, "destroy")
  /\ Goto(c, "close")
  /\ todo' = [todo EXCEPT ![c] = GIn]
  /\ UNCHANGED <<chans, item, dest, cur, task, ctl, api>>

InputsClosed(c) ==
  /\ pc[c] = "close"
  /\ todo[c] = {}
  /\ Goto(c, "stop")
  /\ dest' = [dest EXCEPT ![c] = 1]
  /\ UNCHANGED <<chans, item, cur, todo, task, ctl, api>>

\* n.status is running from Execute's first step to its last.
Running(n) == pc[n] \notin {"idle", "start", "exit"}

\* then stop the nodes in topological order: Node.Destroy reads the status
StopNode(c) ==
  /\ pc[c] = "stop"
  /\ dest[c] \in DOMAIN StreamSortedNodes
  /\ IF Running(StreamSortedNodes[dest[c]])
       THEN Goto(c, "lock") /\ UNCHANGED dest
       ELSE dest' = [dest EXCEPT ![c] = @ + 1] /\ UNCHANGED pc
  /\ UNCHANGED <<chans, item, cur, todo, task, ctl, api>>

\* and, if it was running, sets stopinfo under the node's mutex,
SetStop(c) ==
  /\ pc[c] = "lock"
  /\ ~ mutex[StreamSortedNodes[dest[c]]]
  /\ stopinfo' = [stopinfo EXCEPT ![StreamSortedNodes[dest[c]]] = TRUE]
  /\ dest' = [dest EXCEPT ![c] = @ + 1]
  /\ Goto(c, "stop")
  /\ UNCHANGED <<chans, item, cur, todo, task, mutex, ready, api>>

\* and wait for all goroutines (wg.Wait).
WaitAll(c) ==
  /\ pc[c] = "stop"
  /\ dest[c] \notin DOMAIN StreamSortedNodes
  /\ \A n \in Node : pc[n] \in {"idle", "exit"}
  /\ Return(c)
  /\ UNCHANGED <<chans, dest, cur, todo, task, ctl, api>>

Call(c) ==
  \/ Run(c) \/ AddCall(c) \/ AddSend(c) \/ AddReturn(c)
  \/ Get(c) \/ GetReturn(c) \/ GetClosed(c)
  \/ Destroy(c) \/ PickStream(c) \/ CloseChannel(c) \/ Drain(c) \/ NextStream(c)
  \/ InputsClosed(c) \/ StopNode(c) \/ SetStop(c) \/ WaitAll(c)
-----------------------------------------------------------------------------
Next ==
  \/ \E n \in Node : Execute(n)
  \/ \E c \in Client : Call(c)

\* Every goroutine that can run is scheduled.
Fairness ==
  /\ \A n \in Node : WF_vars(Execute(n))
  /\ \A c \in Client : WF_vars(Call(c))

Spec == Init /\ [][Next]_vars /\ Fairness
-----------------------------------------------------------------------------
Result == [ok : BOOLEAN, d : Datum]

NodePc == {"idle", "start", "recv", "read", "write", "send", "close", "closing", "drain",
           "exit", "dead"}
ClientPc == {"call", "add", "got", "close", "closing", "drain", "stop", "lock", "dead"}

ControlType ==
  /\ closed \in [Chan -> BOOLEAN]
  /\ pc \in [Agent -> NodePc \cup ClientPc]
  /\ item \in [Agent -> Nat] /\ dest \in [Agent -> Nat]
  /\ cur \in [Agent -> Stream] /\ todo \in [Agent -> SUBSET Stream]
  /\ mutex \in [Node -> BOOLEAN] /\ stopinfo \in [Node -> BOOLEAN]
  /\ ready \in BOOLEAN
  /\ script \in Scripts

DataType ==
  /\ ch \in [Chan -> Seq(Entry)]
  /\ slot \in [Stream -> Datum]
  /\ held \in [Agent -> [Stream -> Entry]]
  /\ allok \in [Node -> BOOLEAN] /\ allclosed \in [Node -> BOOLEAN]
  /\ acc \in [Node -> Datum]
  /\ added \in [GIn -> Nat]
  /\ got \in [GOut -> Seq(Result)]

TypeOK == ControlType /\ DataType

InDestroy(c) == pc[c] \in {"close", "closing", "drain", "stop", "lock"}

AfterDestroy(c) == \E k \in DOMAIN script[c] : k < item[c] /\ script[c][k].op = "destroy"

(***************************************************************************)
(* No goroutine sends on or closes a closed channel, which would end the   *)
(* program: a channel has one producer, which closes it after its last     *)
(* send.                                                                   *)
(***************************************************************************)
NoPanic == \A a \in Agent : pc[a] # "dead"

\* Clients that make it so: one of them feeds and destroys the graph, and does
\* neither after Destroy.
Writes(f, c) == \E k \in DOMAIN f[c] : f[c][k].op \in {"add", "destroy"}

Orderly(f) ==
  /\ \A c, e \in Client : Writes(f, c) /\ Writes(f, e) => c = e
  /\ \A c \in Client : \A k, l \in DOMAIN f[c] :
       k < l /\ f[c][k].op = "destroy" => f[c][l].op \notin {"add", "destroy"}

\* One goroutine reads an output: two of them may record their answers in
\* another order than that in which they received them.
OneReader(f) ==
  \A c, e \in Client : \A k \in DOMAIN f[c] : \A l \in DOMAIN f[e] :
    f[c][k].op = "get" /\ f[e][l].op = "get" /\ f[c][k].s = f[e][l].s => c = e

\* Nobody runs the graph but the client that destroys it, and it does so first.
RunFirst(f) ==
  \A c, e \in Client : \A k \in DOMAIN f[c] : \A l \in DOMAIN f[e] :
    f[c][k].op = "run" /\ f[e][l].op = "destroy" => c = e /\ k < l

\* Every channel is fed with a stream its sender writes (GraphUnit!Wired).
Fed ==
  AllFed(Port, Chan, NextInputManagers,
         [p \in Port |-> IF p \in Node THEN Range(Outs[p]) ELSE GIn])

\* The streams an agent's OutputManager closes.
StreamsOf(a) == IF a \in Node THEN Range(Outs[a]) ELSE GIn

Closing(a) == pc[a] \in {"close", "closing", "drain"}

PcInv ==
  /\ \A n \in Node : pc[n] \in NodePc \ {"dead"}
  /\ ready => \A n \in Node : pc[n] = "idle"
  /\ \A c \in Client :
       /\ pc[c] \in ClientPc \ {"dead"}
       /\ pc[c] = "add" => /\ item[c] \in DOMAIN script[c]
                           /\ script[c][item[c]].op = "add"
       /\ pc[c] = "got" => /\ item[c] \in DOMAIN script[c]
                           /\ script[c][item[c]].op = "get"
       /\ InDestroy(c) => /\ item[c] \in DOMAIN script[c]
                          /\ script[c][item[c]].op = "destroy"
  /\ \A a \in Agent :
       /\ Closing(a) => todo[a] \subseteq StreamsOf(a)
       /\ pc[a] \in {"closing", "drain"} => cur[a] \in StreamsOf(a) \ todo[a]
       /\ pc[a] = "drain" => dest[a] \in DOMAIN Consumers(a, cur[a])

\* Agent a has already closed the channel of s to its k-th consumer.
HasClosed(a, s, k) ==
  /\ IF a \in Node THEN Closing(a) \/ pc[a] = "exit"
                   ELSE InDestroy(a) \/ AfterDestroy(a)
  /\ Closing(a) => s \notin todo[a]
  /\ cur[a] = s => /\ pc[a] = "closing" => k < dest[a]
                   /\ pc[a] = "drain" => k <= dest[a]

Producer(a) == a \in Node \/ Writes(script, a)

ClosedInv ==
  \A a \in Agent : Producer(a) =>
    \A s \in StreamsOf(a) : \A k \in DOMAIN Consumers(a, s) :
      closed[<<Consumers(a, s)[k], s>>] => HasClosed(a, s, k)

\* Whoever sends on a channel is the only one to close it, and closes it once,
\* after its last send.
ControlInv == ControlType /\ PcInv /\ ClosedInv

(***************************************************************************)
(* Why no goroutine panics, and the types that OutputManager.AddData,      *)
(* Outputs.Reset and Subscribe keep: inductive for orderly clients, proved *)
(* in FlowGraph_proofs.                                                    *)
(***************************************************************************)
IInv == ControlInv /\ DataType

(***************************************************************************)
(* However the goroutines interleave, an answer never contains data older  *)
(* than its round: overtaking a reader can only make its data newer.       *)
(***************************************************************************)
NeverOlder ==
  \A s \in GOut : \A k \in DOMAIN got[s] : \A r \in got[s][k].d : r >= k

\* Every client's calls return: Destroy included.
AllReturn == \A c \in Client : <>(item[c] \notin DOMAIN script[c])

\* Destroy, once called, returns: all node goroutines have ended by then.
DestroyCompletes == \A c \in Client : InDestroy(c) ~> AfterDestroy(c)

(***************************************************************************)
(* When Destroy has returned, no goroutine is left, every channel of a     *)
(* node that ran is closed, and no datum is left in any channel.           *)
(***************************************************************************)
DestroyLeavesNothing ==
  (\E c \in Client : AfterDestroy(c)) =>
    /\ \A n \in Node : pc[n] \in {"idle", "exit"}
    /\ \A x \in Chan : ch[x] = << >>
    /\ \A x \in Chan : (\E n \in Node : pc[n] = "exit") => closed[x]
-----------------------------------------------------------------------------
\* What the graph promises its clients; Feeds[s] are the inputs s depends on.
CONSTANT Feeds

\* Destroy has not been called.
Open == \A c \in Client : ~ InDestroy(c) /\ ~ AfterDestroy(c)

Service == INSTANCE GraphService WITH open <- Open

\* What lock step is: one client makes all calls, and when it asks for its k-th
\* answer on an output it has added no more than k data to any input.
CallsBefore(f, c, o, s, i) ==
  Cardinality({j \in 1 .. i - 1 : f[c][j].op = o /\ f[c][j].s = s})

RoundByRound(f) ==
  \A c \in Client : f[c] # << >> =>
    /\ Writes(f, c) /\ \A e \in Client : f[e] # << >> => e = c
    /\ \A i \in DOMAIN f[c] : f[c][i].op = "get" =>
         \A s \in GIn :
           CallsBefore(f, c, "add", s, i) <= CallsBefore(f, c, "get", f[c][i].s, i) + 1

\* Output s depends on input a: whatever set of nodes holds the writer of s and
\* whoever feeds a node of it, one of them reads a.
SendsTo(n, m) == \E s \in Range(Outs[n]) : m \in Range(NextInputManagers[n][s])
DependsOn(s, a) ==
  \A U \in SUBSET Node :
    /\ \A n \in Node : s \in Range(Outs[n]) /\ Sink \in Range(NextInputManagers[n][s]) => n \in U
    /\ \A m \in U : \A n \in Node : SendsTo(n, m) => n \in U
    => \E n \in U : n \in Range(NextInputManagers[Source][a])

\* Feeds says no more than that; and no node is without inputs, for Subscribe of
\* such a node finds all its inputs closed, and it closes its outputs at once.
FeedsRight ==
  /\ Feeds \in [GOut -> SUBSET GIn]
  /\ \A s \in GOut : \A a \in Feeds[s] : DependsOn(s, a)
  /\ \A n \in Node : Ins[n] # << >>

(***************************************************************************)
(* Driven in lock step the runtime is a request/response service: see      *)
(* GraphService.                                                           *)
(***************************************************************************)
ImplementsService == Service!Spec
=============================================================================
