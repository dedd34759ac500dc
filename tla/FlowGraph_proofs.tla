-------------------------- MODULE FlowGraph_proofs --------------------------
(***************************************************************************)
(* For every wiring that GetNodeEdge accepts, every channel capacity and   *)
(* every set of orderly clients: the runtime never sends on or closes a    *)
(* closed channel, its state keeps its types, no answer is made of rounds  *)
(* before its own, and Destroy leaves no goroutine and no datum.           *)
(***************************************************************************)
EXTENDS FlowGraph, SequenceTheorems, FiniteSetTheorems, TLAPS

Quiet == {"start", "recv", "read", "write", "send"}

\* The steps of node.Execute up to its last send, and what they leave alone.
QuietStep(n) ==
  \/ Start(n) \/ Receive(n) \/ Continue(n) \/ Proceed(n) \/ Read(n) \/ TaskError(n)
  \/ Compute(n) \/ Write(n) \/ Send(n) \/ SendNext(n)

\* No two producers share a channel.
LEMMA ChannelsDisjoint ==
  ASSUME NEW a \in Agent, NEW b \in Agent, NEW s \in Stream,
         NEW k \in DOMAIN Consumers(a, s), NEW l \in DOMAIN Consumers(b, s),
         \A f \in Scripts : Orderly(f), ControlType, Producer(a), Producer(b),
         Consumers(a, s)[k] = Consumers(b, s)[l]
  PROVE  a = b
<1>1. script \in Scripts /\ Orderly(script)
  BY DEF ControlType
<1>2. PortOf(a) \in Port /\ PortOf(b) \in Port
  BY DEF PortOf, Port
<1>3. PortOf(a) = PortOf(b)
  <2> DEFINE p == PortOf(a)
             r == PortOf(b)
             m == Consumers(a, s)[k]
  <2>1. /\ m \in Range(NextInputManagers[p][s])
        /\ m \in Range(NextInputManagers[r][s])
    BY DEF Consumers, Range
  <2> HIDE DEF p, r, m
  <2>2. p \in Port /\ r \in Port
    BY <1>2 DEF p, r
  <2>3. r = p
    BY <2>1, <2>2, WiringAssumption DEF WellWired
  <2> QED BY <2>3 DEF p, r
<1>4. CASE a \in Node \/ b \in Node
  BY <1>3, <1>4, GraphAssumption DEF PortOf
<1>5. CASE a \notin Node /\ b \notin Node
  BY <1>1, <1>5 DEF Agent, Producer, Orderly
<1> QED BY <1>4, <1>5

\* The channels an agent sends on are channels.
LEMMA Channels ==
  ASSUME NEW a \in Agent, NEW s \in Stream, NEW k \in DOMAIN Consumers(a, s)
  PROVE  /\ <<Consumers(a, s)[k], s>> \in Chan
         /\ k \in Nat
         /\ \A l \in DOMAIN Consumers(a, s) :
              Consumers(a, s)[l] = Consumers(a, s)[k] => l = k
<1>0. PortOf(a) \in Port
  BY DEF PortOf, Port
<1>1. /\ Consumers(a, s) \in Seq(Manager)
      /\ IsInjective(Consumers(a, s))
      /\ <<Consumers(a, s)[k], s>> \in Chan
  BY <1>0, WiringAssumption DEF WellWired, Consumers, Range
<1>2. DOMAIN Consumers(a, s) = 1 .. Len(Consumers(a, s))
  BY <1>1
<1> QED BY <1>1, <1>2 DEF IsInjective

\* Every agent's streams are streams.
LEMMA StreamsType == \A a \in Agent : StreamsOf(a) \subseteq Stream
<1> SUFFICES ASSUME NEW a \in Agent PROVE StreamsOf(a) \subseteq Stream
  OBVIOUS
<1>1. CASE a \in Node
  <2>1. Outs[a] \in Seq(Stream)
    BY <1>1, GraphAssumption
  <2> QED BY <1>1, <2>1 DEF StreamsOf, Range
<1>2. CASE a \notin Node
  BY <1>2, GraphAssumption DEF StreamsOf
<1> QED BY <1>1, <1>2

\* A node that has not begun to close has no closed output; a client neither.
LEMMA NotYetClosed ==
  ASSUME ControlInv, NEW a \in Agent, Producer(a),
         IF a \in Node THEN pc[a] \notin {"close", "closing", "drain", "exit"}
                       ELSE ~ InDestroy(a) /\ ~ AfterDestroy(a),
         NEW s \in StreamsOf(a), NEW k \in DOMAIN Consumers(a, s)
  PROVE  ~ closed[<<Consumers(a, s)[k], s>>]
BY DEF ControlInv, ClosedInv, HasClosed, Closing

\* A step of another kind cannot disturb what an agent has closed.
LEMMA Frame ==
  ASSUME ControlInv, NEW a \in Agent, NEW s \in StreamsOf(a),
         NEW k \in DOMAIN Consumers(a, s), HasClosed(a, s, k),
         pc'[a] = pc[a], item'[a] = item[a], dest'[a] = dest[a],
         cur'[a] = cur[a], todo'[a] = todo[a], script' = script
  PROVE  HasClosed(a, s, k)'
BY DEF HasClosed, Closing, InDestroy, AfterDestroy

\* Execute's quiet steps change nothing that closing depends on.
LEMMA QuietFacts ==
  ASSUME ControlInv, NEW n \in Node, QuietStep(n)
  PROVE  /\ closed' = closed /\ script' = script /\ cur' = cur /\ todo' = todo
         /\ ready' = ready /\ stopinfo' = stopinfo
         /\ mutex' \in [Node -> BOOLEAN]
         /\ pc' \in [Agent -> NodePc \cup ClientPc]
         /\ item' \in [Agent -> Nat] /\ dest' \in [Agent -> Nat]
         /\ \A a \in Agent \ {n} :
              pc'[a] = pc[a] /\ item'[a] = item[a] /\ dest'[a] = dest[a]
         /\ pc[n] \in Quiet /\ pc'[n] \in Quiet
<1>0. /\ n \in Agent /\ pc \in [Agent -> NodePc \cup ClientPc]
      /\ item \in [Agent -> Nat] /\ dest \in [Agent -> Nat]
      /\ mutex \in [Node -> BOOLEAN]
  BY DEF ControlInv, ControlType, Agent
<1> USE DEF chans, local, task, ctl, api, Goto, Quiet, NodePc, ClientPc
<1>1. CASE Start(n)
  BY <1>0, <1>1 DEF Start, Subscribe
<1>2. CASE Receive(n)
  BY <1>0, <1>2 DEF Receive
<1>3. CASE Continue(n)
  BY <1>0, <1>3 DEF Continue, Subscribe, Subscribed
<1>4. CASE Proceed(n)
  BY <1>0, <1>4 DEF Proceed, Subscribed
<1>5. CASE Read(n)
  BY <1>0, <1>5 DEF Read
<1>6. CASE TaskError(n)
  BY <1>0, <1>6 DEF TaskError, StartSend
<1>7. CASE Compute(n)
  BY <1>0, <1>7 DEF Compute
<1>8. CASE Write(n)
  BY <1>0, <1>8 DEF Write, StartSend
<1>9. CASE Send(n)
  <2> DEFINE s == Outs[n][item[n]]
             x == <<Consumers(n, s)[dest[n]], s>>
  <2>1. pc[n] = "send" /\ s \in StreamsOf(n) /\ dest[n] \in DOMAIN Consumers(n, s)
    BY <1>9 DEF Send, SendTo, StreamsOf, Range
  <2>2. ~ closed[x]
    BY <1>0, <2>1, NotYetClosed DEF Producer
  <2>3. /\ dest' = [dest EXCEPT ![n] = @ + 1]
        /\ UNCHANGED <<closed, pc, item, cur, todo, ctl, script>>
    BY <1>9, <2>2 DEF Send, SendTo
  <2> QED BY <1>0, <2>1, <2>3
<1>10. CASE SendNext(n)
  BY <1>0, <1>10 DEF SendNext, Subscribe
<1> QED BY <1>1, <1>2, <1>3, <1>4, <1>5, <1>6, <1>7, <1>8, <1>9, <1>10 DEF QuietStep

\* Node.Execute's quiet steps keep the invariant.
LEMMA QuietKeeps ==
  ASSUME ControlInv, NEW n \in Node, QuietStep(n)
  PROVE  ControlInv'
<1>0. n \in Agent /\ n \notin Client /\ Producer(n)
  BY GraphAssumption DEF Agent, Producer
<1>1. /\ closed' = closed /\ script' = script /\ cur' = cur /\ todo' = todo
      /\ ready' = ready /\ stopinfo' = stopinfo
      /\ mutex' \in [Node -> BOOLEAN]
      /\ pc' \in [Agent -> NodePc \cup ClientPc]
      /\ item' \in [Agent -> Nat] /\ dest' \in [Agent -> Nat]
      /\ \A a \in Agent \ {n} :
           pc'[a] = pc[a] /\ item'[a] = item[a] /\ dest'[a] = dest[a]
      /\ pc[n] \in Quiet /\ pc'[n] \in Quiet
  BY QuietFacts
<1>2. ControlType'
  BY <1>1 DEF ControlInv, ControlType
<1>3. PcInv'
  BY <1>0, <1>1 DEF ControlInv, PcInv, Quiet, InDestroy, Closing, StreamsOf, NodePc, Agent
<1>4. ClosedInv'
  <2> SUFFICES ASSUME NEW a \in Agent, Producer(a)', NEW s \in StreamsOf(a),
                      NEW k \in DOMAIN Consumers(a, s),
                      closed'[<<Consumers(a, s)[k], s>>]
               PROVE  HasClosed(a, s, k)'
    BY DEF ClosedInv, StreamsOf
  <2>1. Producer(a) /\ closed[<<Consumers(a, s)[k], s>>]
    BY <1>1 DEF Producer, Writes
  <2>2. HasClosed(a, s, k)
    BY <2>1 DEF ControlInv, ClosedInv
  <2>3. CASE a = n
    BY <1>0, <1>1, <2>1, <2>3, NotYetClosed DEF Quiet
  <2>4. CASE a # n
    BY <1>1, <2>2, <2>4, Frame
  <2> QED BY <2>3, <2>4
<1> QED BY <1>2, <1>3, <1>4 DEF ControlInv

-----------------------------------------------------------------------------
(* The steps that close, and the steps of the clients.                     *)

\* Only agent b moves.
OnlyMoves(b) ==
  /\ script' = script
  /\ \A a \in Agent \ {b} : /\ pc'[a] = pc[a] /\ item'[a] = item[a]
                            /\ dest'[a] = dest[a]
                            /\ cur'[a] = cur[a] /\ todo'[a] = todo[a]

\* A step that closes nothing keeps ClosedInv if the one who moves does not
\* forget what it closed.
LEMMA ClosesNothing ==
  ASSUME ControlInv, NEW b \in Agent, OnlyMoves(b), closed' = closed,
         Producer(b) => \A s \in StreamsOf(b) : \A k \in DOMAIN Consumers(b, s) :
                          HasClosed(b, s, k) => HasClosed(b, s, k)'
  PROVE  ClosedInv'
<1> SUFFICES ASSUME NEW a \in Agent, Producer(a)', NEW s \in StreamsOf(a),
                    NEW k \in DOMAIN Consumers(a, s),
                    closed'[<<Consumers(a, s)[k], s>>]
             PROVE  HasClosed(a, s, k)'
  BY DEF ClosedInv, StreamsOf
<1>1. Producer(a) /\ closed[<<Consumers(a, s)[k], s>>]
  BY DEF OnlyMoves, Producer, Writes
<1>2. HasClosed(a, s, k)
  BY <1>1 DEF ControlInv, ClosedInv
<1>3. CASE a = b
  BY <1>1, <1>2, <1>3
<1>4. CASE a # b
  BY <1>2, <1>4, Frame DEF OnlyMoves
<1> QED BY <1>3, <1>4

\* PcInv is kept if what it says of the agent that moves is.
LEMMA PcOf ==
  ASSUME ControlInv, NEW b \in Agent, OnlyMoves(b), ready' = ready,
         b \in Node => pc'[b] \in NodePc \ {"dead"} /\ pc'[b] # "idle" /\ pc[b] # "idle",
         b \in Client =>
           /\ pc'[b] \in ClientPc \ {"dead"}
           /\ pc'[b] = "add" => /\ item'[b] \in DOMAIN script[b]
                                /\ script[b][item'[b]].op = "add"
           /\ pc'[b] = "got" => /\ item'[b] \in DOMAIN script[b]
                                /\ script[b][item'[b]].op = "get"
           /\ InDestroy(b)' => /\ item'[b] \in DOMAIN script[b]
                               /\ script[b][item'[b]].op = "destroy",
         Closing(b)' => todo'[b] \subseteq StreamsOf(b),
         pc'[b] \in {"closing", "drain"} => cur'[b] \in StreamsOf(b) \ todo'[b],
         pc'[b] = "drain" => dest'[b] \in DOMAIN Consumers(b, cur'[b])
  PROVE  PcInv'
<1>0. PcInv /\ script' = script /\ Node \subseteq Agent /\ Client \subseteq Agent
  BY DEF ControlInv, OnlyMoves, Agent
<1>1. \A n \in Node : pc'[n] \in NodePc \ {"dead"}
  BY <1>0 DEF PcInv, OnlyMoves
<1>2. ready' => \A n \in Node : pc'[n] = "idle"
  BY <1>0 DEF PcInv, OnlyMoves
<1>3. ASSUME NEW c \in Client
      PROVE  /\ pc'[c] \in ClientPc \ {"dead"}
             /\ pc'[c] = "add" => /\ item'[c] \in DOMAIN script'[c]
                                  /\ script'[c][item'[c]].op = "add"
             /\ pc'[c] = "got" => /\ item'[c] \in DOMAIN script'[c]
                                  /\ script'[c][item'[c]].op = "get"
             /\ InDestroy(c)' => /\ item'[c] \in DOMAIN script'[c]
                                 /\ script'[c][item'[c]].op = "destroy"
  <2>1. CASE c = b
    BY <1>0, <2>1
  <2>2. CASE c # b
    BY <1>0, <2>2 DEF PcInv, OnlyMoves, InDestroy
  <2> QED BY <2>1, <2>2
<1>4. ASSUME NEW a \in Agent
      PROVE  /\ Closing(a)' => todo'[a] \subseteq StreamsOf(a)
             /\ pc'[a] \in {"closing", "drain"} => cur'[a] \in StreamsOf(a) \ todo'[a]
             /\ pc'[a] = "drain" => dest'[a] \in DOMAIN Consumers(a, cur'[a])
  <2>1. CASE a = b
    BY <2>1
  <2>2. CASE a # b
    BY <1>0, <2>2 DEF PcInv, OnlyMoves, Closing
  <2> QED BY <2>1, <2>2
<1> QED BY <1>1, <1>2, <1>3, <1>4 DEF PcInv, StreamsOf

\* What is known of an agent that closes.
LEMMA CloserFacts ==
  ASSUME ControlInv, NEW a \in Agent, Closing(a)
  PROVE  /\ Producer(a)
         /\ todo[a] \subseteq StreamsOf(a) /\ todo[a] \subseteq Stream
         /\ a \in Client => /\ item[a] \in DOMAIN script[a]
                            /\ script[a][item[a]].op = "destroy"
<1>1. a \in Client => /\ item[a] \in DOMAIN script[a]
                      /\ script[a][item[a]].op = "destroy"
  BY DEF ControlInv, PcInv, Closing, InDestroy
<1>2. Producer(a)
  BY <1>1 DEF Producer, Writes, Agent
<1> QED BY <1>1, <1>2, StreamsType DEF ControlInv, PcInv

\* OutputManager.Close turns to its next stream.
LEMMA PickKeeps == ASSUME ControlInv, NEW a \in Agent, PickStream(a) PROVE ControlInv'
<1> USE DEF chans, local, task, ctl, api, Goto
<1>1. PICK s \in todo[a] : /\ cur' = [cur EXCEPT ![a] = s]
                           /\ todo' = [todo EXCEPT ![a] = @ \ {s}]
  BY DEF PickStream
<1>2. /\ pc[a] = "close" /\ pc' = [pc EXCEPT ![a] = "closing"]
      /\ dest' = [dest EXCEPT ![a] = 1]
      /\ UNCHANGED <<closed, item, mutex, stopinfo, ready, script>>
  BY DEF PickStream
<1>3. /\ Producer(a) /\ todo[a] \subseteq StreamsOf(a) /\ todo[a] \subseteq Stream
      /\ a \in Client => /\ item[a] \in DOMAIN script[a]
                         /\ script[a][item[a]].op = "destroy"
  BY <1>2, CloserFacts DEF Closing
<1>4. ControlType'
  BY <1>1, <1>2, <1>3 DEF ControlInv, ControlType, NodePc, ClientPc
<1>5. /\ OnlyMoves(a) /\ pc'[a] = "closing" /\ cur'[a] = s
      /\ todo'[a] = todo[a] \ {s} /\ dest'[a] = 1 /\ item'[a] = item[a]
  BY <1>1, <1>2 DEF OnlyMoves, ControlInv, ControlType
<1>6. PcInv'
  BY <1>2, <1>3, <1>5, PcOf DEF NodePc, ClientPc, InDestroy, Closing
<1>7. ClosedInv'
  <2>1. ASSUME NEW r \in StreamsOf(a), NEW k \in DOMAIN Consumers(a, r),
               HasClosed(a, r, k)
        PROVE  HasClosed(a, r, k)'
    BY <1>2, <1>5, <2>1 DEF HasClosed, Closing, InDestroy, AfterDestroy
  <2> QED BY <1>2, <1>5, <2>1, ClosesNothing
<1> QED BY <1>4, <1>6, <1>7 DEF ControlInv

\* CloseInputChannel closes a channel that was open, and its own.
LEMMA CloseKeeps ==
  ASSUME ControlInv, \A f \in Scripts : Orderly(f), NEW a \in Agent, CloseChannel(a)
  PROVE  ControlInv'
<1> USE DEF chans, local, task, ctl, api, Goto
<1> DEFINE s == cur[a]
           x == <<Consumers(a, s)[dest[a]], s>>
<1>1. pc[a] = "closing" /\ dest[a] \in DOMAIN Consumers(a, s)
  BY DEF CloseChannel
<1>2. /\ Producer(a) /\ todo[a] \subseteq StreamsOf(a) /\ s \in StreamsOf(a) \ todo[a]
      /\ s \in Stream
      /\ a \in Client => /\ item[a] \in DOMAIN script[a]
                         /\ script[a][item[a]].op = "destroy"
  BY <1>1, CloserFacts DEF Closing, ControlInv, PcInv, ControlType
<1>3. x \in Chan /\ dest[a] \in Nat
  BY <1>1, <1>2, Channels
<1>4. ~ closed[x]
  BY <1>1, <1>2, <1>3 DEF ControlInv, ClosedInv, HasClosed
<1>5. /\ closed' = [closed EXCEPT ![x] = TRUE] /\ pc' = [pc EXCEPT ![a] = "drain"]
      /\ UNCHANGED <<item, dest, cur, todo, mutex, stopinfo, ready, script>>
  BY <1>4 DEF CloseChannel
<1>6. ControlType'
  BY <1>3, <1>5 DEF ControlInv, ControlType, NodePc, ClientPc
<1>7. OnlyMoves(a) /\ pc'[a] = "drain"
  BY <1>5 DEF OnlyMoves, ControlInv, ControlType
<1>8. PcInv'
  BY <1>1, <1>2, <1>5, <1>7, PcOf DEF NodePc, ClientPc, InDestroy, Closing
<1>9. ClosedInv'
  <2> SUFFICES ASSUME NEW b \in Agent, Producer(b)', NEW r \in StreamsOf(b),
                      NEW k \in DOMAIN Consumers(b, r),
                      closed'[<<Consumers(b, r)[k], r>>]
               PROVE  HasClosed(b, r, k)'
    BY DEF ClosedInv, StreamsOf
  <2>0. Producer(b) /\ r \in Stream
    BY <1>5, StreamsType DEF Producer, Writes
  <2>1. <<Consumers(b, r)[k], r>> \in Chan /\ k \in Nat
    BY <2>0, Channels
  <2>2. CASE <<Consumers(b, r)[k], r>> = x
    <3>1. r = s /\ Consumers(b, r)[k] = Consumers(a, s)[dest[a]]
      BY <2>2
    <3>2. b = a
      BY <1>1, <1>2, <2>0, <3>1, ChannelsDisjoint DEF ControlInv
    <3>3. k = dest[a]
      BY <1>1, <1>2, <3>1, <3>2, Channels
    <3> QED BY <1>1, <1>2, <1>3, <1>5, <1>7, <3>1, <3>2, <3>3
            DEF HasClosed, Closing, InDestroy
  <2>3. CASE <<Consumers(b, r)[k], r>> # x
    <3>1. closed[<<Consumers(b, r)[k], r>>]
      BY <1>5, <2>1, <2>3 DEF ControlInv, ControlType
    <3>2. HasClosed(b, r, k)
      BY <2>0, <3>1 DEF ControlInv, ClosedInv
    <3>3. CASE b = a
      BY <1>1, <1>3, <1>5, <1>7, <2>1, <3>2, <3>3
         DEF HasClosed, Closing, InDestroy, AfterDestroy
    <3>4. CASE b # a
      BY <1>7, <3>2, <3>4, Frame DEF OnlyMoves
    <3> QED BY <3>3, <3>4
  <2> QED BY <2>2, <2>3
<1> QED BY <1>6, <1>8, <1>9 DEF ControlInv

\* Draining, and turning to the next channel or stream.
LEMMA DrainKeeps ==
  ASSUME ControlInv, NEW a \in Agent, Drain(a) \/ NextStream(a)
  PROVE  ControlInv'
<1> USE DEF chans, local, task, ctl, api, Goto
<1>1. /\ pc[a] \in {"drain", "closing"} /\ pc'[a] \in {"drain", "closing", "close"}
      /\ pc' = [pc EXCEPT ![a] = pc'[a]]
      /\ dest' = [dest EXCEPT ![a] = dest'[a]]
      /\ UNCHANGED <<closed, item, cur, todo, mutex, stopinfo, ready, script>>
      /\ \/ pc'[a] = "drain" /\ pc[a] = "drain" /\ dest'[a] = dest[a]
         \/ pc'[a] = "closing" /\ pc[a] = "drain" /\ dest'[a] = dest[a] + 1
         \/ pc'[a] = "close" /\ pc[a] = "closing" /\ dest'[a] = dest[a]
  BY DEF Drain, NextStream, ControlInv, ControlType
<1>2. /\ Producer(a) /\ todo[a] \subseteq StreamsOf(a)
      /\ cur[a] \in StreamsOf(a) \ todo[a]
      /\ pc[a] = "drain" => dest[a] \in DOMAIN Consumers(a, cur[a])
      /\ a \in Client => /\ item[a] \in DOMAIN script[a]
                         /\ script[a][item[a]].op = "destroy"
  BY <1>1, CloserFacts DEF Closing, ControlInv, PcInv
<1>3. dest[a] \in Nat /\ dest'[a] \in Nat
  BY <1>1 DEF ControlInv, ControlType
<1>4. ControlType'
  BY <1>1, <1>3 DEF ControlInv, ControlType, NodePc, ClientPc
<1>5. OnlyMoves(a) /\ cur'[a] = cur[a] /\ todo'[a] = todo[a] /\ item'[a] = item[a]
  BY <1>1 DEF OnlyMoves, ControlInv, ControlType
<1>6. PcInv'
  BY <1>1, <1>2, <1>5, PcOf DEF NodePc, ClientPc, InDestroy, Closing
<1>7. ClosedInv'
  <2>1. ASSUME NEW r \in StreamsOf(a), NEW k \in DOMAIN Consumers(a, r),
               HasClosed(a, r, k)
        PROVE  HasClosed(a, r, k)'
    <3>1. r \in Stream
      BY StreamsType
    <3>2. k \in Nat
      BY <3>1, Channels
    <3> QED BY <1>1, <1>3, <1>5, <2>1, <3>2
            DEF HasClosed, Closing, InDestroy, AfterDestroy
  <2> QED BY <1>1, <1>5, <2>1, ClosesNothing
<1> QED BY <1>4, <1>6, <1>7 DEF ControlInv

\* Execute's loop ends, or the goroutine does.
LEMMA BreakExitKeeps ==
  ASSUME ControlInv, NEW n \in Node, Break(n) \/ Exit(n)
  PROVE  ControlInv'
<1> USE DEF chans, local, task, ctl, api, Goto
<1>0. n \in Agent /\ n \notin Client /\ StreamsOf(n) = Range(Outs[n])
  BY GraphAssumption DEF Agent, StreamsOf
<1>1. /\ \/ pc[n] = "recv" /\ pc'[n] = "close" /\ todo'[n] = StreamsOf(n)
         \/ pc[n] = "close" /\ pc'[n] = "exit" /\ todo'[n] = todo[n]
      /\ pc' = [pc EXCEPT ![n] = pc'[n]]
      /\ todo' = [todo EXCEPT ![n] = todo'[n]]
      /\ UNCHANGED <<closed, item, dest, cur, mutex, stopinfo, ready, script>>
  BY <1>0 DEF Break, Exit, Subscribed, ControlInv, ControlType
<1>2. todo'[n] \subseteq Stream
  BY <1>0, <1>1, StreamsType DEF ControlInv, ControlType
<1>3. ControlType'
  BY <1>0, <1>1, <1>2 DEF ControlInv, ControlType, NodePc, ClientPc
<1>4. OnlyMoves(n)
  BY <1>0, <1>1 DEF OnlyMoves, ControlInv, ControlType
<1>5. PcInv'
  BY <1>0, <1>1, <1>4, PcOf DEF NodePc, Closing
<1>6. ClosedInv'
  <2>1. ASSUME NEW r \in StreamsOf(n), NEW k \in DOMAIN Consumers(n, r),
               HasClosed(n, r, k)
        PROVE  HasClosed(n, r, k)'
    BY <1>0, <1>1, <2>1 DEF HasClosed, Closing
  <2> QED BY <1>0, <1>1, <1>4, <2>1, ClosesNothing
<1> QED BY <1>3, <1>5, <1>6 DEF ControlInv

\* The steps of a client that neither close a channel nor start the nodes.
CallStep(c) ==
  \/ AddCall(c) \/ AddSend(c) \/ AddReturn(c) \/ Get(c) \/ GetReturn(c) \/ GetClosed(c)
  \/ Destroy(c) \/ InputsClosed(c) \/ StopNode(c) \/ SetStop(c) \/ WaitAll(c)

\* What those steps do to the client.
LEMMA CallFacts ==
  ASSUME ControlInv, \A f \in Scripts : Orderly(f), NEW c \in Client, CallStep(c)
  PROVE  /\ closed' = closed /\ script' = script /\ cur' = cur
         /\ ready' = ready /\ mutex' = mutex /\ stopinfo' \in [Node -> BOOLEAN]
         /\ pc' = [pc EXCEPT ![c] = pc'[c]]
         /\ item' = [item EXCEPT ![c] = item'[c]]
         /\ dest' = [dest EXCEPT ![c] = dest'[c]] /\ dest'[c] \in Nat
         /\ todo' = [todo EXCEPT ![c] = todo'[c]]
         /\ \/ /\ pc[c] = "call" /\ pc'[c] = "add" /\ item'[c] = item[c]
               /\ item[c] \in DOMAIN script[c] /\ script[c][item[c]].op = "add"
               /\ todo'[c] = todo[c]
            \/ pc[c] = "add" /\ pc'[c] = "add" /\ item'[c] = item[c] /\ todo'[c] = todo[c]
            \/ /\ pc[c] = "call" /\ pc'[c] = "got" /\ item'[c] = item[c]
               /\ item[c] \in DOMAIN script[c] /\ script[c][item[c]].op = "get"
               /\ todo'[c] = todo[c]
            \/ /\ pc[c] \in {"add", "got", "call", "stop"} /\ pc'[c] = "call"
               /\ item'[c] = item[c] + 1 /\ todo'[c] = todo[c]
            \/ /\ pc[c] = "call" /\ pc'[c] = "close" /\ item'[c] = item[c]
               /\ item[c] \in DOMAIN script[c] /\ script[c][item[c]].op = "destroy"
               /\ todo'[c] = GIn
            \/ /\ pc[c] = "close" /\ pc'[c] = "stop" /\ item'[c] = item[c]
               /\ todo'[c] = todo[c]
            \/ /\ pc[c] \in {"stop", "lock"} /\ pc'[c] \in {"stop", "lock"}
               /\ item'[c] = item[c] /\ todo'[c] = todo[c]
<1>0. /\ c \in Agent /\ pc \in [Agent -> NodePc \cup ClientPc]
      /\ item \in [Agent -> Nat] /\ dest \in [Agent -> Nat]
      /\ todo \in [Agent -> SUBSET Stream] /\ stopinfo \in [Node -> BOOLEAN]
  BY DEF ControlInv, ControlType, Agent
<1> USE DEF chans, local, task, ctl, api, Goto, Calls, Return
<1>1. CASE AddCall(c)
  BY <1>0, <1>1 DEF AddCall
<1>2. CASE AddSend(c)
  <2> DEFINE s == script[c][item[c]].s
             x == <<Consumers(c, s)[dest[c]], s>>
  <2>1. /\ pc[c] = "add" /\ dest[c] \in DOMAIN Consumers(c, s)
        /\ item[c] \in DOMAIN script[c] /\ script[c][item[c]].op = "add"
    BY <1>2 DEF AddSend, SendTo, ControlInv, PcInv
  <2>2. c \notin Node /\ script \in Scripts /\ Orderly(script)
    BY GraphAssumption DEF ControlInv, ControlType
  <2>3. Producer(c) /\ ~ InDestroy(c) /\ ~ AfterDestroy(c)
    <3>1. Writes(script, c)
      BY <2>1 DEF Writes
    <3>2. ~ AfterDestroy(c)
      BY <2>1, <2>2 DEF AfterDestroy, Orderly
    <3> QED BY <2>1, <3>1, <3>2 DEF Producer, InDestroy
  <2>4. s \in StreamsOf(c)
    <3>1. script[c] \in Seq(Op)
      BY <2>2, GraphAssumption
    <3>2. script[c][item[c]] \in Op
      BY <2>1, <3>1
    <3> QED BY <2>1, <2>2, <3>2 DEF Op, StreamsOf
  <2>5. ~ closed[x]
    BY <1>0, <2>1, <2>2, <2>3, <2>4, NotYetClosed
  <2>6. /\ dest' = [dest EXCEPT ![c] = @ + 1]
        /\ UNCHANGED <<closed, pc, item, cur, todo, ctl, script>>
    BY <1>2, <2>5 DEF AddSend, SendTo
  <2> QED BY <1>0, <2>1, <2>6
<1>3. CASE AddReturn(c)
  BY <1>0, <1>3 DEF AddReturn
<1>4. CASE Get(c)
  <2>1. /\ pc[c] = "call" /\ pc' = [pc EXCEPT ![c] = "got"]
        /\ item[c] \in DOMAIN script[c] /\ script[c][item[c]].op = "get"
        /\ UNCHANGED <<closed, item, dest, cur, todo, ctl, script>>
    BY <1>4 DEF Get
  <2> QED BY <1>0, <2>1
<1>4a. CASE GetReturn(c) \/ GetClosed(c)
  <2>1. /\ pc[c] \in {"got", "call"} /\ pc' = [pc EXCEPT ![c] = "call"]
        /\ item' = [item EXCEPT ![c] = @ + 1]
        /\ UNCHANGED <<closed, dest, cur, todo, ctl, script>>
    BY <1>4a DEF GetReturn, GetClosed, Answer
  <2> QED BY <1>0, <2>1
<1>5. CASE Destroy(c)
  BY <1>0, <1>5 DEF Destroy
<1>6. CASE InputsClosed(c)
  BY <1>0, <1>6 DEF InputsClosed
<1>7. CASE StopNode(c)
  BY <1>0, <1>7 DEF StopNode
<1>8. CASE SetStop(c)
  <2>1. /\ pc[c] = "lock" /\ pc' = [pc EXCEPT ![c] = "stop"]
        /\ dest' = [dest EXCEPT ![c] = @ + 1]
        /\ stopinfo' = [stopinfo EXCEPT ![StreamSortedNodes[dest[c]]] = TRUE]
        /\ UNCHANGED <<closed, item, cur, todo, mutex, ready, script>>
    BY <1>8 DEF SetStop
  <2>2. stopinfo' \in [Node -> BOOLEAN]
    BY <1>0, <2>1
  <2> QED BY <1>0, <2>1, <2>2
<1>9. CASE WaitAll(c)
  BY <1>0, <1>9 DEF WaitAll
<1> QED BY <1>1, <1>2, <1>3, <1>4, <1>4a, <1>5, <1>6, <1>7, <1>8, <1>9 DEF CallStep

\* They keep the invariant: what Destroy closed stays closed, and no orderly
\* client adds or destroys after it.
LEMMA CallKeeps ==
  ASSUME ControlInv, \A f \in Scripts : Orderly(f), NEW c \in Client, CallStep(c)
  PROVE  ControlInv'
<1> DEFINE Moves ==
         \/ /\ pc[c] = "call" /\ pc'[c] = "add" /\ item'[c] = item[c]
            /\ item[c] \in DOMAIN script[c] /\ script[c][item[c]].op = "add"
            /\ todo'[c] = todo[c]
         \/ pc[c] = "add" /\ pc'[c] = "add" /\ item'[c] = item[c] /\ todo'[c] = todo[c]
         \/ /\ pc[c] = "call" /\ pc'[c] = "got" /\ item'[c] = item[c]
            /\ item[c] \in DOMAIN script[c] /\ script[c][item[c]].op = "get"
            /\ todo'[c] = todo[c]
         \/ /\ pc[c] \in {"add", "got", "call", "stop"} /\ pc'[c] = "call"
            /\ item'[c] = item[c] + 1 /\ todo'[c] = todo[c]
         \/ /\ pc[c] = "call" /\ pc'[c] = "close" /\ item'[c] = item[c]
            /\ item[c] \in DOMAIN script[c] /\ script[c][item[c]].op = "destroy"
            /\ todo'[c] = GIn
         \/ /\ pc[c] = "close" /\ pc'[c] = "stop" /\ item'[c] = item[c]
            /\ todo'[c] = todo[c]
         \/ /\ pc[c] \in {"stop", "lock"} /\ pc'[c] \in {"stop", "lock"}
            /\ item'[c] = item[c] /\ todo'[c] = todo[c]
<1>0. c \in Agent /\ c \notin Node /\ StreamsOf(c) = GIn /\ GIn \subseteq Stream
  BY GraphAssumption DEF Agent, StreamsOf
<1>1. /\ closed' = closed /\ script' = script /\ cur' = cur
      /\ ready' = ready /\ mutex' = mutex /\ stopinfo' \in [Node -> BOOLEAN]
      /\ pc' = [pc EXCEPT ![c] = pc'[c]]
      /\ item' = [item EXCEPT ![c] = item'[c]]
      /\ dest' = [dest EXCEPT ![c] = dest'[c]] /\ dest'[c] \in Nat
      /\ todo' = [todo EXCEPT ![c] = todo'[c]]
      /\ Moves
  BY CallFacts
<1>2. item[c] \in Nat /\ item'[c] \in Nat /\ todo'[c] \subseteq Stream
  BY <1>0, <1>1 DEF ControlInv, ControlType
<1>3. ControlType'
  <2>1. pc'[c] \in ClientPc
    BY <1>1 DEF ClientPc
  <2> QED BY <1>0, <1>1, <1>2, <2>1 DEF ControlInv, ControlType
<1>4. OnlyMoves(c)
  BY <1>0, <1>1 DEF OnlyMoves, ControlInv, ControlType
<1>5. PcInv'
  <2>1. /\ pc[c] = "add" => /\ item[c] \in DOMAIN script[c]
                            /\ script[c][item[c]].op = "add"
        /\ pc[c] = "got" => /\ item[c] \in DOMAIN script[c]
                            /\ script[c][item[c]].op = "get"
        /\ InDestroy(c) => /\ item[c] \in DOMAIN script[c]
                           /\ script[c][item[c]].op = "destroy"
    BY DEF ControlInv, PcInv
  <2>2. pc'[c] \in ClientPc \ {"dead"}
    BY <1>1 DEF ClientPc
  <2>3. /\ pc'[c] = "add" => /\ item'[c] \in DOMAIN script[c]
                             /\ script[c][item'[c]].op = "add"
        /\ pc'[c] = "got" => /\ item'[c] \in DOMAIN script[c]
                             /\ script[c][item'[c]].op = "get"
    BY <1>1, <2>1
  <2>4. InDestroy(c)' => /\ item'[c] \in DOMAIN script[c]
                         /\ script[c][item'[c]].op = "destroy"
    BY <1>1, <2>1 DEF InDestroy
  <2>5. /\ Closing(c)' => todo'[c] \subseteq StreamsOf(c)
        /\ pc'[c] \notin {"closing", "drain"}
    BY <1>0, <1>1 DEF Closing
  <2> QED BY <1>0, <1>1, <1>4, <2>2, <2>3, <2>4, <2>5, PcOf
<1>6. ClosedInv'
  <2>1. ASSUME NEW r \in StreamsOf(c), NEW k \in DOMAIN Consumers(c, r),
               HasClosed(c, r, k)
        PROVE  HasClosed(c, r, k)'
    <3>1. script \in Scripts /\ Orderly(script)
      BY DEF ControlInv, ControlType
    <3>2. script[c] \in Seq(Op) /\ DOMAIN script[c] \subseteq Nat
      <4>1. script[c] \in Seq(Op)
        BY <3>1, GraphAssumption
      <4> QED BY <4>1
    <3>3. InDestroy(c) \/ AfterDestroy(c)
      BY <1>0, <2>1 DEF HasClosed
    <3>4. InDestroy(c) => /\ item[c] \in DOMAIN script[c]
                          /\ script[c][item[c]].op = "destroy"
      BY DEF ControlInv, PcInv
    <3>5. AfterDestroy(c) => AfterDestroy(c)'
      BY <1>1, <1>2, <3>2 DEF AfterDestroy
    <3>6. pc'[c] = "close" => pc[c] = "call"
      BY <1>1
    <3>7. pc'[c] # "close"
      <4> SUFFICES ASSUME pc'[c] = "close" PROVE FALSE
        OBVIOUS
      <4>1. /\ item[c] \in DOMAIN script[c] /\ script[c][item[c]].op = "destroy"
            /\ pc[c] = "call"
        BY <1>1
      <4>2. AfterDestroy(c)
        BY <3>3, <4>1 DEF InDestroy
      <4> QED BY <3>1, <4>1, <4>2 DEF AfterDestroy, Orderly
    <3>8. InDestroy(c)' \/ AfterDestroy(c)'
      <4>1. CASE AfterDestroy(c)
        BY <3>5, <4>1
      <4>2. CASE InDestroy(c) /\ pc[c] = "stop" /\ pc'[c] = "call"
        BY <1>1, <1>2, <3>2, <3>4, <4>2 DEF AfterDestroy
      <4>3. CASE InDestroy(c) /\ ~ (pc[c] = "stop" /\ pc'[c] = "call")
        BY <1>1, <4>3 DEF InDestroy
      <4> QED BY <3>3, <4>1, <4>2, <4>3
    <3>9. pc'[c] \notin {"close", "closing", "drain"}
      BY <1>1, <3>7
    <3> QED BY <1>0, <3>8, <3>9 DEF HasClosed, Closing
  <2> QED BY <1>0, <1>1, <1>4, <2>1, ClosesNothing
<1> QED BY <1>3, <1>5, <1>6 DEF ControlInv

\* Graph.Run starts the nodes only while none has started.
LEMMA RunKeeps == ASSUME ControlInv, NEW c \in Client, Run(c) PROVE ControlInv'
<1> USE DEF chans, local, task, ctl, api, Calls
<1>0. c \in Agent /\ c \notin Node /\ pc[c] = "call" /\ item[c] \in DOMAIN script[c]
  BY GraphAssumption DEF Agent, Run
<1>1. /\ ready' = FALSE /\ item' = [item EXCEPT ![c] = @ + 1]
      /\ pc' = [a \in Agent |-> IF ready /\ a \in Node THEN "start" ELSE pc[a]]
      /\ UNCHANGED <<closed, dest, cur, todo, mutex, stopinfo, script>>
  BY DEF Run
<1>2. \A a \in Agent : pc'[a] = pc[a] \/ (a \in Node /\ pc[a] = "idle" /\ pc'[a] = "start")
  BY <1>1 DEF ControlInv, PcInv
<1>3. ControlType'
  <2>1. pc' \in [Agent -> NodePc \cup ClientPc]
    BY <1>1 DEF ControlInv, ControlType, NodePc
  <2>2. item' \in [Agent -> Nat]
    BY <1>0, <1>1 DEF ControlInv, ControlType
  <2> QED BY <1>1, <2>1, <2>2 DEF ControlInv, ControlType
<1>4. PcInv'
  <2>1. \A a \in Client : pc'[a] = pc[a] /\ (a # c => item'[a] = item[a])
    BY <1>0, <1>1, GraphAssumption DEF Agent, ControlInv, ControlType
  <2>2. \A n \in Node : pc'[n] \in NodePc \ {"dead"}
    BY <1>1 DEF ControlInv, PcInv, NodePc, Agent
  <2>3. ASSUME NEW e \in Client
        PROVE  /\ pc'[e] \in ClientPc \ {"dead"}
               /\ pc'[e] = "add" => /\ item'[e] \in DOMAIN script'[e]
                                    /\ script'[e][item'[e]].op = "add"
               /\ pc'[e] = "got" => /\ item'[e] \in DOMAIN script'[e]
                                    /\ script'[e][item'[e]].op = "get"
               /\ InDestroy(e)' => /\ item'[e] \in DOMAIN script'[e]
                                   /\ script'[e][item'[e]].op = "destroy"
    BY <1>0, <1>1, <2>1 DEF ControlInv, PcInv, InDestroy
  <2>4. \A a \in Agent :
          /\ Closing(a)' => todo'[a] \subseteq StreamsOf(a)
          /\ pc'[a] \in {"closing", "drain"} => cur'[a] \in StreamsOf(a) \ todo'[a]
          /\ pc'[a] = "drain" => dest'[a] \in DOMAIN Consumers(a, cur'[a])
    BY <1>1, <1>2 DEF ControlInv, PcInv, Closing
  <2> QED BY <1>1, <2>2, <2>3, <2>4 DEF PcInv, StreamsOf
<1>5. ClosedInv'
  <2> SUFFICES ASSUME NEW a \in Agent, Producer(a)', NEW s \in StreamsOf(a),
                      NEW k \in DOMAIN Consumers(a, s),
                      closed'[<<Consumers(a, s)[k], s>>]
               PROVE  HasClosed(a, s, k)'
    BY DEF ClosedInv, StreamsOf
  <2>1. HasClosed(a, s, k)
    BY <1>1 DEF ControlInv, ClosedInv, Producer, Writes
  <2>2. pc'[a] = pc[a]
    BY <1>2, <2>1 DEF HasClosed, Closing
  <2>3. AfterDestroy(a) => AfterDestroy(a)'
    <3>1. \A k1 \in DOMAIN script[a] : k1 < item[a] => k1 < item'[a]
      <4>1. CASE a = c
        <5>1. script[c] \in Seq(Op)
          BY GraphAssumption DEF ControlInv, ControlType
        <5>2. DOMAIN script[c] \subseteq Nat /\ item[c] \in Nat /\ item'[c] = item[c] + 1
          BY <1>0, <1>1, <5>1 DEF ControlInv, ControlType
        <5> QED BY <4>1, <5>2
      <4>2. CASE a # c
        BY <1>1, <4>2 DEF ControlInv, ControlType
      <4> QED BY <4>1, <4>2
    <3> QED BY <1>1, <3>1 DEF AfterDestroy
  <2> QED BY <1>1, <2>1, <2>2, <2>3 DEF HasClosed, Closing, InDestroy
<1> QED BY <1>3, <1>4, <1>5 DEF ControlInv

-----------------------------------------------------------------------------
\* The graph starts in the invariant.
LEMMA InitControl == Init => ControlInv
<1> SUFFICES ASSUME Init PROVE ControlInv
  OBVIOUS
<1>1. ControlType
  <2>1. (CHOOSE s \in Stream : TRUE) \in Stream
    BY GraphAssumption
  <2> QED BY <2>1 DEF Init, ControlType, NodePc, ClientPc
<1>2. PcInv
  BY GraphAssumption DEF Init, PcInv, NodePc, ClientPc, Agent, InDestroy, Closing
<1>3. ClosedInv
  <2> SUFFICES ASSUME NEW a \in Agent, NEW s \in StreamsOf(a),
                      NEW k \in DOMAIN Consumers(a, s)
               PROVE  ~ closed[<<Consumers(a, s)[k], s>>]
    BY DEF ClosedInv
  <2>1. <<Consumers(a, s)[k], s>> \in Chan
    BY StreamsType, Channels
  <2> QED BY <2>1 DEF Init
<1> QED BY <1>1, <1>2, <1>3 DEF ControlInv

\* With orderly clients, whoever sends on a stream is the only one to close
\* it, and closes each channel once, after its last send.
THEOREM Control ==
  ASSUME \A f \in Scripts : Orderly(f)
  PROVE  Spec => []ControlInv
<1>1. Init => ControlInv
  BY InitControl
<1>2. ControlInv /\ [Next]_vars => ControlInv'
  <2> SUFFICES ASSUME ControlInv, [Next]_vars PROVE ControlInv'
    OBVIOUS
  <2>1. ASSUME NEW n \in Node, Execute(n) PROVE ControlInv'
    <3>0. n \in Agent
      BY DEF Agent
    <3>1. CASE QuietStep(n)
      BY <3>1, QuietKeeps
    <3>2. CASE Break(n) \/ Exit(n)
      BY <3>2, BreakExitKeeps
    <3>3. CASE PickStream(n)
      BY <3>0, <3>3, PickKeeps
    <3>4. CASE CloseChannel(n)
      BY <3>0, <3>4, CloseKeeps
    <3>5. CASE Drain(n) \/ NextStream(n)
      BY <3>0, <3>5, DrainKeeps
    <3> QED BY <2>1, <3>1, <3>2, <3>3, <3>4, <3>5 DEF Execute, QuietStep
  <2>2. ASSUME NEW c \in Client, Call(c) PROVE ControlInv'
    <3>0. c \in Agent
      BY DEF Agent
    <3>1. CASE CallStep(c)
      BY <3>1, CallKeeps
    <3>2. CASE Run(c)
      BY <3>2, RunKeeps
    <3>3. CASE PickStream(c)
      BY <3>0, <3>3, PickKeeps
    <3>4. CASE CloseChannel(c)
      BY <3>0, <3>4, CloseKeeps
    <3>5. CASE Drain(c) \/ NextStream(c)
      BY <3>0, <3>5, DrainKeeps
    <3> QED BY <2>2, <3>1, <3>2, <3>3, <3>4, <3>5 DEF Call, CallStep
  <2>3. CASE UNCHANGED vars
    <3>1. /\ UNCHANGED <<closed, pc, item, dest, cur, todo, mutex, stopinfo, ready>>
          /\ script' = script
      BY <2>3 DEF vars, chans, local, ctl, api
    <3>2. ControlType' /\ PcInv'
      BY <3>1 DEF ControlInv, ControlType, PcInv, InDestroy, Closing, StreamsOf
    <3>3. ClosedInv'
      BY <3>1 DEF ControlInv, ClosedInv, Producer, Writes, HasClosed, StreamsOf,
                  InDestroy, AfterDestroy, Closing
    <3> QED BY <3>2, <3>3 DEF ControlInv
  <2> QED BY <2>1, <2>2, <2>3 DEF Next
<1> QED BY <1>1, <1>2, PTL DEF Spec

\* With orderly clients the runtime never sends on, or closes, a closed channel.
THEOREM NeverPanics ==
  ASSUME \A f \in Scripts : Orderly(f)
  PROVE  Spec => []NoPanic
<1>1. ControlInv => NoPanic
  BY DEF ControlInv, PcInv, NoPanic, Agent
<1>2. Spec => []ControlInv
  BY Control
<1> QED BY <1>1, <1>2, PTL

-----------------------------------------------------------------------------
(* Data.                                                                   *)

\* What a channel entry or a held input stands for is a datum.
LEMMA DerefType ==
  ASSUME DataType, NEW e \in Entry, NEW s \in Stream
  PROVE  Deref(e, s) \in Datum /\ Freeze(e, s) \in Entry
BY DEF DataType, Deref, Freeze, Entry

\* The input channels of a node.
LEMMA InputChannel ==
  ASSUME NEW n \in Node, NEW k \in DOMAIN Ins[n]
  PROVE  /\ Ins[n][k] \in Stream /\ Ins[n][k] \in Range(Ins[n])
         /\ <<n, Ins[n][k]>> \in Chan
<1>1. Ins[n] \in Seq(Stream) /\ n # Sink
  BY GraphAssumption DEF Agent
<1>2. Ins[n][k] \in Stream /\ Ins[n][k] \in Range(Ins[n])
  BY <1>1 DEF Range
<1> QED BY <1>1, <1>2 DEF Chan, Manager

\* Sending keeps the channels well typed.
LEMMA SendType ==
  ASSUME DataType, NEW a, NEW s, NEW e \in Entry, SendTo(a, s, e)
  PROVE  DataType'
<1>1. /\ \/ ch' = ch
         \/ ch' = [ch EXCEPT ![<<Consumers(a, s)[dest[a]], s>>] = Append(@, e)]
      /\ UNCHANGED <<slot, held, allok, allclosed, acc, added, got>>
  BY DEF SendTo, task, api
<1>2. ch' \in [Chan -> Seq(Entry)]
  <2> DEFINE x == <<Consumers(a, s)[dest[a]], s>>
  <2>1. x \in Chan => Append(ch[x], e) \in Seq(Entry)
    BY AppendProperties DEF DataType
  <2> HIDE DEF x
  <2> QED BY <1>1, <2>1 DEF DataType, x
<1> QED BY <1>1, <1>2 DEF DataType

\* So does draining: only an entry that is there is taken.
LEMMA DrainType ==
  ASSUME DataType, NEW a, Drain(a)
  PROVE  DataType'
<1> DEFINE x == <<Consumers(a, cur[a])[dest[a]], cur[a]>>
<1>1. /\ \/ ch' = ch
         \/ ch[x] # << >> /\ ch' = [ch EXCEPT ![x] = Tail(ch[x])]
      /\ UNCHANGED <<slot, held, allok, allclosed, acc, added, got>>
  BY DEF Drain, task, api
<1> HIDE DEF x
<1>2. ch' \in [Chan -> Seq(Entry)]
  <2>1. x \in Chan /\ ch[x] # << >> => Tail(ch[x]) \in Seq(Entry)
    BY HeadTailProperties DEF DataType
  <2> QED BY <1>1, <2>1 DEF DataType
<1> QED BY <1>1, <1>2 DEF DataType

\* Outputs.Reset keeps the data well typed: what is frozen is a datum.
LEMMA ResetType ==
  ASSUME DataType, NEW n \in Node, Reset(n)
  PROVE  /\ slot' \in [Stream -> Datum]
         /\ ch' \in [Chan -> Seq(Entry)]
         /\ held' \in [Agent -> [Stream -> Entry]]
<1>1. slot' \in [Stream -> Datum]
  BY DEF Reset, DataType, Datum
<1>2. ch' \in [Chan -> Seq(Entry)]
  <2> SUFFICES ASSUME NEW x \in Chan
               PROVE  [k \in DOMAIN ch[x] |-> Freeze(ch[x][k], x[2])] \in Seq(Entry)
    BY DEF Reset, DataType
  <2>1. ch[x] \in Seq(Entry) /\ x[2] \in Stream
    BY DEF DataType, Chan
  <2>2. /\ Len(ch[x]) \in Nat /\ DOMAIN ch[x] = 1 .. Len(ch[x])
        /\ \A k \in 1 .. Len(ch[x]) : ch[x][k] \in Entry
    BY <2>1
  <2>3. [k \in DOMAIN ch[x] |-> Freeze(ch[x][k], x[2])] \in [1 .. Len(ch[x]) -> Entry]
    BY <2>1, <2>2, DerefType
  <2> QED BY <2>2, <2>3, SeqDef
<1>3. held' \in [Agent -> [Stream -> Entry]]
  <2>1. ASSUME NEW a \in Agent, NEW s \in Stream
        PROVE  held[a][s] \in Entry /\ Freeze(held[a][s], s) \in Entry
    <3>1. held[a][s] \in Entry
      BY DEF DataType
    <3> QED BY <3>1, DerefType
  <2> QED BY <2>1 DEF Reset
<1> QED BY <1>1, <1>2, <1>3

\* Every step keeps the data well typed.
LEMMA DataKeeps ==
  ASSUME ControlInv, DataType, [Next]_vars
  PROVE  DataType'
<1> USE DEF chans, local, ctl
<1>1. ASSUME NEW n \in Node, Execute(n) PROVE DataType'
  <2>1. CASE Start(n) \/ Continue(n) \/ SendNext(n)
    BY <2>1 DEF Start, Continue, SendNext, Subscribe, api, task, DataType
  <2>2. CASE Receive(n)
    <3> DEFINE s == Ins[n][item[n]]
               x == <<n, s>>
    <3>1. s \in Stream /\ s \in Range(Ins[n]) /\ x \in Chan
      BY <2>2, InputChannel DEF Receive
    <3>2. /\ ch' = [ch EXCEPT ![x] = IF ch[x] # << >> THEN Tail(@) ELSE @]
          /\ held' = [held EXCEPT ![n][s] = IF ch[x] # << >> THEN Head(ch[x])
                                                             ELSE NilEntry]
          /\ allok' = [allok EXCEPT ![n] = @ /\ ch[x] # << >>]
          /\ allclosed' = [allclosed EXCEPT ![n] = @ /\ ~ (ch[x] # << >>)]
          /\ UNCHANGED <<slot, acc, added, got>>
      BY <2>2 DEF Receive, api
    <3>3. ch[x] \in Seq(Entry)
      BY <3>1 DEF DataType
    <3>4. ch[x] # << >> => Head(ch[x]) \in Entry /\ Tail(ch[x]) \in Seq(Entry)
      BY <3>3, HeadTailProperties
    <3>5. NilEntry \in Entry
      BY DEF NilEntry, Entry, Datum
    <3>6. ch' \in [Chan -> Seq(Entry)]
      BY <3>1, <3>2, <3>3, <3>4 DEF DataType
    <3>7. held' \in [Agent -> [Stream -> Entry]]
      BY <3>1, <3>2, <3>4, <3>5 DEF DataType, Agent
    <3>8. allok' \in [Node -> BOOLEAN] /\ allclosed' \in [Node -> BOOLEAN]
      BY <3>2 DEF DataType
    <3> QED BY <3>2, <3>6, <3>7, <3>8 DEF DataType
  <2>3. CASE Proceed(n)
    BY <2>3 DEF Proceed, api, DataType, Accumulator, Datum
  <2>4. CASE Read(n)
    <3> DEFINE s == Ins[n][item[n]]
    <3>1. s \in Stream /\ s \in Range(Ins[n])
      BY <2>4, InputChannel DEF Read
    <3>2. Deref(held[n][s], s) \in Datum
      BY <3>1, DerefType DEF DataType, Agent
    <3>3. /\ acc' = [acc EXCEPT ![n] = @ \cup Deref(held[n][s], s)]
          /\ UNCHANGED <<ch, slot, held, allok, allclosed, added, got>>
      BY <2>4 DEF Read, api
    <3>4. acc' \in [Node -> Datum]
      BY <3>2, <3>3 DEF DataType, Datum
    <3> QED BY <3>3, <3>4 DEF DataType
  <2>5. CASE TaskError(n)
    BY <2>5, ResetType DEF TaskError, api, DataType
  <2>6. CASE Write(n)
    BY <2>6 DEF Write, api, DataType
  <2>7. CASE Send(n)
    <3> DEFINE s == Outs[n][item[n]]
    <3>1. s \in Stream
      BY <2>7, GraphAssumption DEF Send
    <3>2. [alias |-> TRUE, d |-> {}] \in Entry /\ [alias |-> FALSE, d |-> slot[s]] \in Entry
      BY <3>1 DEF DataType, Entry, Datum
    <3> QED BY <2>7, <3>2, SendType DEF Send
  <2>8. CASE Drain(n)
    BY <2>8, DrainType
  <2>9. CASE Break(n) \/ Compute(n) \/ PickStream(n) \/ CloseChannel(n) \/ NextStream(n)
             \/ Exit(n)
    BY <2>9 DEF Break, Compute, PickStream, CloseChannel, NextStream, Exit, task, api,
                DataType
  <2> QED BY <1>1, <2>1, <2>2, <2>3, <2>4, <2>5, <2>6, <2>7, <2>8, <2>9 DEF Execute
<1>2. ASSUME NEW c \in Client, Call(c) PROVE DataType'
  <2>0. ASSUME item[c] \in DOMAIN script[c]
        PROVE  /\ script[c][item[c]].op = "add" => script[c][item[c]].s \in GIn
               /\ script[c][item[c]].op = "get" => script[c][item[c]].s \in GOut
    <3>1. script[c] \in Seq(Op)
      BY GraphAssumption DEF ControlInv, ControlType
    <3>2. script[c][item[c]] \in Op
      BY <2>0, <3>1
    <3> QED BY <3>2 DEF Op
  <2>1. CASE AddCall(c)
    BY <2>0, <2>1 DEF AddCall, Calls, task, DataType
  <2>2. CASE AddSend(c)
    <3> DEFINE s == script[c][item[c]].s
    <3>1. s \in GIn
      BY <2>0, <2>2 DEF AddSend, ControlInv, PcInv
    <3>2. [alias |-> FALSE, d |-> {added[s]}] \in Entry
      BY <3>1 DEF DataType, Entry, Datum
    <3> QED BY <2>2, <3>2, SendType DEF AddSend
  <2>3. CASE Get(c)
    <3> DEFINE s == script[c][item[c]].s
               x == <<Sink, s>>
    <3>1. s \in GOut /\ s \in Stream /\ x \in Chan
      <4>1. s \in GOut
        BY <2>0, <2>3 DEF Get, Calls
      <4> QED BY <4>1, GraphAssumption DEF Chan, Manager
    <3>2. /\ ch[x] # << >>
          /\ ch' = [ch EXCEPT ![x] = Tail(@)]
          /\ held' = [held EXCEPT ![c][s] = Head(ch[x])]
          /\ UNCHANGED <<slot, allok, allclosed, acc, added, got>>
      BY <2>3 DEF Get, api
    <3>3. ch[x] \in Seq(Entry)
      BY <3>1 DEF DataType
    <3>4. Head(ch[x]) \in Entry /\ Tail(ch[x]) \in Seq(Entry)
      BY <3>2, <3>3, HeadTailProperties
    <3>5. ch' \in [Chan -> Seq(Entry)]
      BY <3>1, <3>2, <3>4 DEF DataType
    <3>6. held' \in [Agent -> [Stream -> Entry]]
      BY <3>1, <3>2, <3>4 DEF DataType
    <3> QED BY <3>2, <3>5, <3>6 DEF DataType
  <2>3a. ASSUME NEW ok \in BOOLEAN, NEW d \in Datum, Answer(c, ok, d),
                script[c][item[c]].s \in GOut
         PROVE  got' \in [GOut -> Seq(Result)]
    <3> DEFINE s == script[c][item[c]].s
               e == [ok |-> ok, d |-> d]
    <3>1. e \in Result
      BY DEF Result
    <3>2. Append(got[s], e) \in Seq(Result)
      BY <2>3a, <3>1, AppendProperties DEF DataType
    <3> QED BY <2>3a, <3>2 DEF Answer, DataType
  <2>3b. CASE GetReturn(c)
    <3> DEFINE s == script[c][item[c]].s
               d == Deref(held[c][s], s)
    <3>1. s \in GOut /\ s \in Stream
      BY <2>0, <2>3b, GraphAssumption DEF GetReturn, ControlInv, PcInv
    <3>2. NilEntry \in Entry
      BY DEF NilEntry, Entry, Datum
    <3>3. d \in Datum
      BY <3>1, DerefType DEF DataType, Agent
    <3>4. /\ Answer(c, TRUE, d)
          /\ held' = [held EXCEPT ![c][s] = NilEntry]
          /\ UNCHANGED <<ch, slot, allok, allclosed, acc, added>>
      BY <2>3b DEF GetReturn
    <3>5. got' \in [GOut -> Seq(Result)]
      <4> HIDE DEF d
      <4> QED BY <2>3a, <3>1, <3>3, <3>4
    <3>6. held' \in [Agent -> [Stream -> Entry]]
      BY <3>1, <3>2, <3>4 DEF DataType
    <3> QED BY <3>4, <3>5, <3>6 DEF DataType
  <2>3c. CASE GetClosed(c)
    <3>1. script[c][item[c]].s \in GOut
      BY <2>0, <2>3c DEF GetClosed, Calls
    <3>2. Answer(c, FALSE, {}) /\ UNCHANGED <<ch, slot, held, allok, allclosed, acc, added>>
      BY <2>3c DEF GetClosed, task
    <3>3. {} \in Datum
      BY DEF Datum
    <3>4. got' \in [GOut -> Seq(Result)]
      BY <2>3a, <3>1, <3>2, <3>3
    <3> QED BY <3>2, <3>4 DEF DataType
  <2>4. CASE Drain(c)
    BY <2>4, DrainType
  <2>5. CASE Run(c) \/ AddReturn(c) \/ Destroy(c) \/ PickStream(c) \/ CloseChannel(c)
             \/ NextStream(c) \/ InputsClosed(c) \/ StopNode(c) \/ SetStop(c)
             \/ WaitAll(c)
    BY <2>5 DEF Run, AddReturn, Destroy, PickStream, CloseChannel, NextStream,
                InputsClosed, StopNode, SetStop, WaitAll, task, api, DataType
  <2> QED BY <1>2, <2>1, <2>2, <2>3, <2>3b, <2>3c, <2>4, <2>5 DEF Call
<1>3. CASE UNCHANGED vars
  BY <1>3 DEF vars, task, api, DataType
<1> QED BY <1>1, <1>2, <1>3 DEF Next

\* The inductive invariant: whatever orderly clients do, the runtime's channels
\* are closed by their senders alone, and hold data.
THEOREM Invariance ==
  ASSUME \A f \in Scripts : Orderly(f)
  PROVE  Spec => []IInv
<1>1. Init => DataType
  <2> SUFFICES ASSUME Init PROVE DataType
    OBVIOUS
  <2>1. NilEntry \in Entry
    BY DEF NilEntry, Entry, Datum
  <2>2. << >> \in Seq(Entry) /\ << >> \in Seq(Result)
    BY EmptySeq
  <2> QED BY <2>1, <2>2 DEF Init, DataType, Datum
<1>2. ControlInv /\ DataType /\ [Next]_vars => DataType'
  BY DataKeeps
<1>3. ControlInv /\ DataType => IInv
  BY DEF IInv
<1>4. Spec => []ControlInv
  BY Control
<1> QED BY <1>1, <1>2, <1>3, <1>4, PTL DEF Spec

\* Type correctness.
THEOREM TypeCorrect ==
  ASSUME \A f \in Scripts : Orderly(f)
  PROVE  Spec => []TypeOK
<1>1. IInv => TypeOK
  BY DEF IInv, ControlInv, TypeOK
<1>2. Spec => []IInv
  BY Invariance
<1> QED BY <1>1, <1>2, PTL

-----------------------------------------------------------------------------
(***************************************************************************)
(* No answer is older than its round.  The argument counts: rd[n] rounds   *)
(* have been begun by node n, taken[x] entries have left channel x.  The   *)
(* counters are no state of the program: the invariant says they exist.    *)
(***************************************************************************)

\* Entry e of stream s holds no round before b, and while it is an alias its
\* writer has begun round b, so that whatever it writes next is no older.
AtLeast(sl, rd, e, s, b) ==
  /\ \A r \in IF e.alias THEN sl[s] ELSE e.d : r >= b
  /\ e.alias => \A n \in Node : s \in Range(Outs[n]) => b <= rd[n]

\* Agent a has still to send its datum of this round on s to consumer j.
Owes(a, s, j) ==
  IF a \in Node
    THEN \/ pc[a] \in {"read", "write"}
         \/ /\ pc[a] = "send"
            /\ \E i \in DOMAIN Outs[a] :
                 /\ Outs[a][i] = s
                 /\ item[a] < i \/ (item[a] = i /\ dest[a] <= j)
    ELSE pc[a] = "add" /\ script[a][item[a]].s = s /\ dest[a] <= j

\* The rounds agent a has begun on stream s, and what was sent on channel x.
Made(rd, a, s) == IF a \in Node THEN rd[a] ELSE added[s]
Sent(taken, x) == taken[x] + Len(ch[x])

\* Nobody sends more than once in a round.
PaceOf(rd, taken, a, s, j) ==
  /\ Sent(taken, <<Consumers(a, s)[j], s>>) <= Made(rd, a, s)
  /\ Owes(a, s, j) => Sent(taken, <<Consumers(a, s)[j], s>>) < Made(rd, a, s)

Pace(rd, taken) ==
  \A a \in Agent : Producer(a) =>
    \A s \in StreamsOf(a) : \A j \in DOMAIN Consumers(a, s) : PaceOf(rd, taken, a, s, j)

\* The k-th entry of a channel is of round taken + k or later.
Queued(rd, taken) ==
  \A x \in Chan : \A k \in DOMAIN ch[x] : AtLeast(slot, rd, ch[x][k], x[2], taken[x] + k)

\* What a node has received for its next round, or works on in this one.
NodeIn(rd, taken, n) ==
  \A j \in DOMAIN Ins[n] :
    /\ taken[<<n, Ins[n][j]>>] >= rd[n]
    /\ pc[n] = "recv" /\ allok[n] /\ j < item[n] =>
         /\ taken[<<n, Ins[n][j]>>] > rd[n]
         /\ AtLeast(slot, rd, held[n][Ins[n][j]], Ins[n][j], rd[n] + 1)
    /\ pc[n] = "read" => AtLeast(slot, rd, held[n][Ins[n][j]], Ins[n][j], rd[n])

\* What a node has computed in this round.
NodeOut(rd, n) ==
  /\ pc[n] \in {"read", "write"} => \A r \in acc[n] : r >= rd[n]
  /\ \A i \in DOMAIN Outs[n] :
       pc[n] = "send" \/ (pc[n] = "write" /\ i < item[n]) =>
         \A r \in slot[Outs[n][i]] : r >= rd[n]

Works(rd, taken) ==
  \A n \in Node : item[n] >= 1 /\ NodeIn(rd, taken, n) /\ NodeOut(rd, n)

\* The answers for an output, and the one a client is about to return.
Drained(s) == closed[<<Sink, s>>] /\ ch[<<Sink, s>>] = << >>

AnswerOf(rd, taken, s) ==
  /\ \A k \in DOMAIN got[s] : \A r \in got[s][k].d : r >= k
  /\ Drained(s) \/ taken[<<Sink, s>>] >= Len(got[s])
  /\ \A c \in Client : pc[c] = "got" /\ script[c][item[c]].s = s =>
       /\ AtLeast(slot, rd, held[c][s], s, Len(got[s]) + 1)
       /\ Drained(s) \/ taken[<<Sink, s>>] > Len(got[s])

Answered(rd, taken) == \A s \in GOut : AnswerOf(rd, taken, s)

Fresh(rd, taken) ==
  Pace(rd, taken) /\ Queued(rd, taken) /\ Works(rd, taken) /\ Answered(rd, taken)

FreshInv == \E rd \in [Node -> Nat] : \E taken \in [Chan -> Nat] : Fresh(rd, taken)

-----------------------------------------------------------------------------
\* A bound may be lowered.
LEMMA AtLeastLess ==
  ASSUME DataType, NEW rd \in [Node -> Nat], NEW e \in Entry, NEW s \in Stream,
         NEW b \in Nat, NEW c \in Nat, c <= b, AtLeast(slot, rd, e, s, b)
  PROVE  AtLeast(slot, rd, e, s, c)
<1>1. (IF e.alias THEN slot[s] ELSE e.d) \subseteq Nat
  BY DEF DataType, Entry, Datum
<1>2. \A r \in (IF e.alias THEN slot[s] ELSE e.d) : r >= c
  BY <1>1 DEF AtLeast
<1>3. ASSUME e.alias, NEW n \in Node, s \in Range(Outs[n]) PROVE c <= rd[n]
  <2>1. b <= rd[n] /\ rd[n] \in Nat
    BY <1>3 DEF AtLeast
  <2> QED BY <2>1
<1> QED BY <1>2, <1>3 DEF AtLeast

\* Beginning a round outdates nothing.
LEMMA AtLeastRound ==
  ASSUME NEW rd \in [Node -> Nat], NEW q \in [Node -> Nat], NEW sl, NEW e, NEW s,
         NEW b \in Nat, \A n \in Node : rd[n] <= q[n], AtLeast(sl, rd, e, s, b)
  PROVE  AtLeast(sl, q, e, s, b)
<1>1. ASSUME e.alias, NEW n \in Node, s \in Range(Outs[n]) PROVE b <= q[n]
  <2>1. b <= rd[n] /\ rd[n] \in Nat /\ q[n] \in Nat /\ rd[n] <= q[n]
    BY <1>1 DEF AtLeast
  <2> QED BY <2>1
<1> QED BY <1>1 DEF AtLeast

\* Nor does writing an output in place: its readers only see newer data.
LEMMA AtLeastWrite ==
  ASSUME DataType, NEW rd \in [Node -> Nat], NEW n \in Node, NEW t \in Range(Outs[n]),
         t \in Stream, NEW v \in Datum, \A r \in v : r >= rd[n],
         NEW sl, sl = [slot EXCEPT ![t] = v],
         NEW e \in Entry, NEW s \in Stream, NEW b \in Nat, AtLeast(slot, rd, e, s, b)
  PROVE  AtLeast(sl, rd, e, s, b)
<1>1. CASE s = t /\ e.alias
  <2>1. b <= rd[n] /\ rd[n] \in Nat /\ v \subseteq Nat
    BY <1>1 DEF AtLeast, Datum
  <2>2. \A r \in v : r >= b
    BY <2>1
  <2>3. sl[s] = v
    BY <1>1 DEF DataType
  <2> QED BY <1>1, <2>2, <2>3 DEF AtLeast
<1>2. CASE s # t \/ ~ e.alias
  <2>1. e.alias => sl[s] = slot[s]
    BY <1>2 DEF DataType
  <2> QED BY <2>1 DEF AtLeast
<1> QED BY <1>1, <1>2

\* Nor does Outputs.Reset: what is frozen is what was there.
LEMMA AtLeastFreeze ==
  ASSUME NEW rd, NEW e, NEW s, NEW b, NEW sl, AtLeast(slot, rd, e, s, b)
  PROVE  AtLeast(sl, rd, Freeze(e, s), s, b)
<1>1. Freeze(e, s).alias = FALSE /\ Freeze(e, s).d = Deref(e, s)
  BY DEF Freeze
<1> HIDE DEF Freeze
<1> QED BY <1>1 DEF AtLeast, Deref

\* What agent a holds, and what is queued, is no older after the step.
HeldKept(a, rd, q) ==
  \A s \in Stream : \A b \in Nat :
    AtLeast(slot, rd, held[a][s], s, b) => AtLeast(slot', q, held'[a][s], s, b)

QueueKept(rd, q) ==
  \A x \in Chan :
    /\ DOMAIN ch'[x] = DOMAIN ch[x] /\ Len(ch'[x]) = Len(ch[x])
    /\ \A k \in DOMAIN ch[x] : \A b \in Nat :
         AtLeast(slot, rd, ch[x][k], x[2], b) => AtLeast(slot', q, ch'[x][k], x[2], b)

\* A node that does not move keeps its part of the invariant,
LEMMA NodeFrame ==
  ASSUME NEW n \in Node, NEW rd \in [Node -> Nat], NEW q \in [Node -> Nat], q[n] = rd[n],
         NEW taken \in [Chan -> Nat], NEW t \in [Chan -> Nat],
         \A x \in Chan : taken[x] <= t[x],
         pc'[n] = pc[n], item'[n] = item[n], allok'[n] = allok[n], acc'[n] = acc[n],
         HeldKept(n, rd, q), \A s \in Range(Outs[n]) : slot'[s] = slot[s],
         NodeIn(rd, taken, n), NodeOut(rd, n)
  PROVE  NodeIn(q, t, n)' /\ NodeOut(q, n)'
<1>1. ASSUME NEW j \in DOMAIN Ins[n]
      PROVE  /\ t[<<n, Ins[n][j]>>] >= q[n]
             /\ pc'[n] = "recv" /\ allok'[n] /\ j < item'[n] =>
                  /\ t[<<n, Ins[n][j]>>] > q[n]
                  /\ AtLeast(slot', q, held'[n][Ins[n][j]], Ins[n][j], q[n] + 1)
             /\ pc'[n] = "read" => AtLeast(slot', q, held'[n][Ins[n][j]], Ins[n][j], q[n])
  <2> DEFINE s == Ins[n][j]
             x == <<n, s>>
  <2>1. s \in Stream /\ x \in Chan
    BY InputChannel
  <2>2. /\ taken[x] >= rd[n]
        /\ pc[n] = "recv" /\ allok[n] /\ j < item[n] =>
             /\ taken[x] > rd[n]
             /\ AtLeast(slot, rd, held[n][s], s, rd[n] + 1)
        /\ pc[n] = "read" => AtLeast(slot, rd, held[n][s], s, rd[n])
    BY DEF NodeIn
  <2>3. /\ taken[x] \in Nat /\ t[x] \in Nat /\ taken[x] <= t[x]
        /\ rd[n] \in Nat /\ rd[n] + 1 \in Nat
    BY <2>1
  <2>4. /\ AtLeast(slot, rd, held[n][s], s, rd[n] + 1) =>
             AtLeast(slot', q, held'[n][s], s, rd[n] + 1)
        /\ AtLeast(slot, rd, held[n][s], s, rd[n]) =>
             AtLeast(slot', q, held'[n][s], s, rd[n])
    BY <2>1, <2>3 DEF HeldKept
  <2> HIDE DEF s, x
  <2>5. t[x] >= q[n] /\ (taken[x] > rd[n] => t[x] > q[n])
    BY <2>2, <2>3
  <2>6. /\ pc'[n] = "recv" /\ allok'[n] /\ j < item'[n] =>
             t[x] > q[n] /\ AtLeast(slot', q, held'[n][s], s, q[n] + 1)
        /\ pc'[n] = "read" => AtLeast(slot', q, held'[n][s], s, q[n])
    BY <2>2, <2>4, <2>5
  <2> QED BY <2>5, <2>6 DEF s, x
<1>2. NodeIn(q, t, n)'
  BY <1>1 DEF NodeIn
<1>3. NodeOut(q, n)'
  <2>1. \A i \in DOMAIN Outs[n] : slot'[Outs[n][i]] = slot[Outs[n][i]]
    BY DEF Range
  <2> QED BY <2>1 DEF NodeOut
<1> QED BY <1>2, <1>3

\* so do the answers of an output nobody takes up,
LEMMA AnswerFrame ==
  ASSUME DataType, NEW s \in GOut, NEW rd \in [Node -> Nat], NEW q \in [Node -> Nat],
         NEW taken \in [Chan -> Nat], NEW t \in [Chan -> Nat],
         \A x \in Chan : taken[x] <= t[x],
         script' = script, got'[s] = got[s], Drained(s) => Drained(s)',
         \A c \in Client : pc'[c] = "got" /\ script[c][item'[c]].s = s =>
           pc[c] = "got" /\ item'[c] = item[c] /\ HeldKept(c, rd, q),
         AnswerOf(rd, taken, s)
  PROVE  AnswerOf(q, t, s)'
<1> DEFINE x == <<Sink, s>>
<1>1. x \in Chan /\ s \in Stream /\ Len(got[s]) \in Nat
  BY GraphAssumption DEF Chan, Manager, DataType
<1>2. taken[x] \in Nat /\ t[x] \in Nat /\ taken[x] <= t[x]
  BY <1>1
<1>3. Drained(s)' \/ t[x] >= Len(got[s])
  <2>1. Drained(s) \/ taken[x] >= Len(got[s])
    BY DEF AnswerOf
  <2> QED BY <1>1, <1>2, <2>1
<1>4. ASSUME NEW c \in Client, pc'[c] = "got", script[c][item'[c]].s = s
      PROVE  /\ AtLeast(slot', q, held'[c][s], s, Len(got[s]) + 1)
             /\ Drained(s)' \/ t[x] > Len(got[s])
  <2>1. pc[c] = "got" /\ item'[c] = item[c] /\ HeldKept(c, rd, q)
    BY <1>4
  <2>2. /\ AtLeast(slot, rd, held[c][s], s, Len(got[s]) + 1)
        /\ Drained(s) \/ taken[x] > Len(got[s])
    BY <1>4, <2>1 DEF AnswerOf
  <2>3. Len(got[s]) + 1 \in Nat
    BY <1>1
  <2>4. AtLeast(slot', q, held'[c][s], s, Len(got[s]) + 1)
    BY <1>1, <2>1, <2>2, <2>3 DEF HeldKept
  <2> QED BY <1>1, <1>2, <2>2, <2>4
<1> QED BY <1>3, <1>4 DEF AnswerOf

\* so does whoever sends nothing and begins no round,
LEMMA PaceFrame ==
  ASSUME NEW a \in Agent, NEW s \in StreamsOf(a), NEW j \in DOMAIN Consumers(a, s),
         NEW rd \in [Node -> Nat], NEW q \in [Node -> Nat],
         NEW taken \in [Chan -> Nat], NEW t \in [Chan -> Nat],
         \A x \in Chan : Sent(t, x)' = Sent(taken, x),
         a \in Node => q[a] = rd[a], added' = added, Owes(a, s, j)' => Owes(a, s, j),
         PaceOf(rd, taken, a, s, j)
  PROVE  PaceOf(q, t, a, s, j)'
<1>1. <<Consumers(a, s)[j], s>> \in Chan
  BY StreamsType, Channels
<1>2. Sent(t, <<Consumers(a, s)[j], s>>)' = Sent(taken, <<Consumers(a, s)[j], s>>)
  BY <1>1
<1>3. Made(q, a, s)' = Made(rd, a, s)
  BY DEF Made
<1> QED BY <1>2, <1>3 DEF PaceOf

\* and what is queued, unless entries are added or taken.
LEMMA QueuedFrame ==
  ASSUME DataType, NEW rd, NEW q, NEW taken \in [Chan -> Nat],
         QueueKept(rd, q), Queued(rd, taken)
  PROVE  Queued(q, taken)'
<1> SUFFICES ASSUME NEW x \in Chan, NEW k \in DOMAIN ch'[x]
             PROVE  AtLeast(slot', q, ch'[x][k], x[2], taken[x] + k)
  BY DEF Queued
<1>1. k \in DOMAIN ch[x]
  BY DEF QueueKept
<1>2. ch[x] \in Seq(Entry)
  BY DEF DataType
<1>3. taken[x] + k \in Nat
  <2>1. k \in Nat
    BY <1>1, <1>2
  <2> QED BY <2>1
<1>4. AtLeast(slot, rd, ch[x][k], x[2], taken[x] + k)
  BY <1>1 DEF Queued
<1> QED BY <1>1, <1>3, <1>4 DEF QueueKept

\* Whether an agent owes depends on the agent alone.
LEMMA OwesFrame ==
  ASSUME NEW a \in Agent, NEW s, NEW j, script' = script,
         pc'[a] = pc[a], item'[a] = item[a], dest'[a] = dest[a]
  PROVE  Owes(a, s, j)' => Owes(a, s, j)
BY DEF Owes

\* Node n moves: the clients' data and the other nodes stay as they are.
OnlyNode(n) ==
  /\ script' = script /\ added' = added /\ got' = got
  /\ \A a \in Agent \ {n} : pc'[a] = pc[a] /\ item'[a] = item[a] /\ dest'[a] = dest[a]
  /\ \A m \in Node \ {n} :
       /\ allok'[m] = allok[m] /\ acc'[m] = acc[m]
       /\ \A s \in Range(Outs[m]) : slot'[s] = slot[s]

\* A closed and empty channel stays so if its length does.
LEMMA DrainedFrame ==
  ASSUME DataType, DataType', NEW s \in GOut, Len(ch'[<<Sink, s>>]) = Len(ch[<<Sink, s>>]),
         \A x \in Chan : closed[x] => closed'[x], Drained(s)
  PROVE  Drained(s)'
<1> DEFINE x == <<Sink, s>>
<1>1. x \in Chan
  BY GraphAssumption DEF Chan, Manager
<1>2. ch'[x] \in Seq(Entry) /\ ch[x] = << >>
  BY <1>1 DEF DataType, Drained
<1>3. Len(ch'[x]) = 0
  BY <1>2
<1>4. ch'[x] = << >>
  BY <1>2, <1>3, EmptySeq
<1> QED BY <1>1, <1>4 DEF Drained

\* A step of a node that neither sends nor takes an entry: what is left to show
\* is about the node itself.
LEMMA LocalKeeps ==
  ASSUME DataType, DataType', NEW n \in Node,
         NEW rd \in [Node -> Nat], NEW q \in [Node -> Nat], NEW taken \in [Chan -> Nat],
         Fresh(rd, taken), \A m \in Node \ {n} : q[m] = rd[m],
         OnlyNode(n), \A x \in Chan : closed[x] => closed'[x],
         \A a \in Agent : HeldKept(a, rd, q), QueueKept(rd, q),
         item'[n] >= 1, NodeIn(q, taken, n)', NodeOut(q, n)',
         \A s \in StreamsOf(n) : \A j \in DOMAIN Consumers(n, s) : PaceOf(q, taken, n, s, j)'
  PROVE  Fresh(q, taken)'
<1>0. /\ Pace(rd, taken) /\ Queued(rd, taken) /\ Works(rd, taken) /\ Answered(rd, taken)
      /\ n \in Agent /\ n \notin Client /\ Node \subseteq Agent /\ Client \subseteq Agent
      /\ \A x \in Chan : taken[x] <= taken[x]
  BY GraphAssumption DEF Fresh, Agent
<1>1. Queued(q, taken)'
  BY <1>0, QueuedFrame
<1>2. Pace(q, taken)'
  <2> SUFFICES ASSUME NEW a \in Agent, Producer(a)', NEW s \in StreamsOf(a),
                      NEW j \in DOMAIN Consumers(a, s)
               PROVE  PaceOf(q, taken, a, s, j)'
    BY DEF Pace, StreamsOf
  <2>1. CASE a = n
    BY <2>1
  <2>2. CASE a # n
    <3>1. Producer(a) /\ script' = script /\ added' = added
      BY DEF OnlyNode, Producer, Writes
    <3>2. PaceOf(rd, taken, a, s, j)
      BY <1>0, <3>1 DEF Pace
    <3>3. \A x \in Chan : Sent(taken, x)' = Sent(taken, x)
      BY DEF QueueKept, Sent
    <3>4. Owes(a, s, j)' => Owes(a, s, j)
      BY <2>2, <3>1, OwesFrame DEF OnlyNode
    <3>5. a \in Node => q[a] = rd[a]
      BY <2>2
    <3> QED BY <3>1, <3>2, <3>3, <3>4, <3>5, PaceFrame
  <2> QED BY <2>1, <2>2
<1>3. Works(q, taken)'
  <2> SUFFICES ASSUME NEW m \in Node
               PROVE  item'[m] >= 1 /\ NodeIn(q, taken, m)' /\ NodeOut(q, m)'
    BY DEF Works
  <2>1. CASE m = n
    BY <2>1
  <2>2. CASE m # n
    <3>1. item[m] >= 1 /\ NodeIn(rd, taken, m) /\ NodeOut(rd, m)
      BY <1>0 DEF Works
    <3>2. /\ pc'[m] = pc[m] /\ item'[m] = item[m] /\ allok'[m] = allok[m]
          /\ acc'[m] = acc[m] /\ q[m] = rd[m] /\ HeldKept(m, rd, q)
          /\ \A s \in Range(Outs[m]) : slot'[s] = slot[s]
      BY <1>0, <2>2 DEF OnlyNode
    <3>3. NodeIn(q, taken, m)' /\ NodeOut(q, m)'
      BY <1>0, <3>1, <3>2, NodeFrame
    <3> QED BY <3>1, <3>2, <3>3
  <2> QED BY <2>1, <2>2
<1>4. Answered(q, taken)'
  <2> SUFFICES ASSUME NEW s \in GOut PROVE AnswerOf(q, taken, s)'
    BY DEF Answered
  <2>1. AnswerOf(rd, taken, s) /\ script' = script /\ got'[s] = got[s]
    BY <1>0 DEF Answered, OnlyNode
  <2>2. Drained(s) => Drained(s)'
    <3>1. <<Sink, s>> \in Chan
      BY GraphAssumption DEF Chan, Manager
    <3>2. Len(ch'[<<Sink, s>>]) = Len(ch[<<Sink, s>>])
      BY <3>1 DEF QueueKept
    <3> QED BY <3>2, DrainedFrame
  <2>3. \A c \in Client : pc'[c] = "got" /\ script[c][item'[c]].s = s =>
          pc[c] = "got" /\ item'[c] = item[c] /\ HeldKept(c, rd, q)
    BY <1>0 DEF OnlyNode
  <2> QED BY <1>0, <2>1, <2>2, <2>3, AnswerFrame
<1> QED BY <1>1, <1>2, <1>3, <1>4 DEF Fresh

\* What was sent on a channel is the same after the step.
SameSent(taken, t) == \A y \in Chan : Sent(t, y)' = Sent(taken, y) /\ taken[y] <= t[y]

\* One entry more has left a channel.
LEMMA CountUp ==
  ASSUME NEW taken \in [Chan -> Nat], NEW x \in Chan
  PROVE  [taken EXCEPT ![x] = @ + 1] \in [Chan -> Nat]
OBVIOUS

\* Taking the first entry of a channel.
LEMMA TakeKeeps ==
  ASSUME DataType, NEW x \in Chan, ch[x] # << >>, ch' = [ch EXCEPT ![x] = Tail(@)],
         slot' = slot, NEW rd \in [Node -> Nat], NEW taken \in [Chan -> Nat],
         NEW t \in [Chan -> Nat], t = [taken EXCEPT ![x] = @ + 1], Queued(rd, taken)
  PROVE  /\ Queued(rd, t)'
         /\ SameSent(taken, t)
         /\ AtLeast(slot, rd, Head(ch[x]), x[2], taken[x] + 1)
<1>1. ch[x] \in Seq(Entry) /\ taken[x] \in Nat
  BY DEF DataType
<1>2. /\ Len(ch[x]) \in Nat \ {0} /\ DOMAIN ch[x] = 1 .. Len(ch[x])
      /\ Tail(ch[x]) \in Seq(Entry) /\ Len(Tail(ch[x])) = Len(ch[x]) - 1
      /\ \A i \in 1 .. Len(Tail(ch[x])) : Tail(ch[x])[i] = ch[x][i + 1]
      /\ Head(ch[x]) = ch[x][1]
  BY <1>1, HeadTailProperties
<1>3. ch'[x] = Tail(ch[x]) /\ t[x] = taken[x] + 1
  BY DEF DataType
<1>4. \A y \in Chan \ {x} : ch'[y] = ch[y] /\ t[y] = taken[y]
  BY DEF DataType
<1>5. ASSUME NEW y \in Chan PROVE Sent(t, y)' = Sent(taken, y) /\ taken[y] <= t[y]
  <2>1. CASE y = x
    <3>1. Len(ch'[x]) = Len(ch[x]) - 1 /\ Len(ch[x]) \in Nat
      BY <1>2, <1>3
    <3>2. (taken[x] + 1) + (Len(ch[x]) - 1) = taken[x] + Len(ch[x])
      BY ONLY <1>1, <3>1
    <3>3. taken[x] <= taken[x] + 1
      BY <1>1
    <3> QED BY <1>3, <2>1, <3>1, <3>2, <3>3 DEF Sent
  <2>2. CASE y # x
    BY <1>4, <2>2 DEF Sent
  <2> QED BY <2>1, <2>2
<1>6. ASSUME NEW y \in Chan, NEW k \in DOMAIN ch'[y]
      PROVE  AtLeast(slot', rd, ch'[y][k], y[2], t[y] + k)
  <2>1. CASE y = x
    <3>1. DOMAIN Tail(ch[x]) = 1 .. Len(Tail(ch[x]))
      BY <1>2
    <3>2. k \in 1 .. Len(Tail(ch[x])) /\ ch'[x][k] = ch[x][k + 1]
      BY <1>2, <1>3, <2>1, <3>1
    <3>3. k + 1 \in DOMAIN ch[x] /\ taken[x] + (k + 1) = t[x] + k
      <4>1. k \in 1 .. Len(ch[x]) - 1 /\ Len(ch[x]) \in Nat
        BY <1>2, <3>2
      <4>2. k + 1 \in 1 .. Len(ch[x]) /\ taken[x] + (k + 1) = (taken[x] + 1) + k
        BY ONLY <1>1, <4>1
      <4> QED BY <1>2, <1>3, <4>2
    <3>4. AtLeast(slot, rd, ch[x][k + 1], x[2], taken[x] + (k + 1))
      BY <3>3 DEF Queued
    <3> QED BY <2>1, <3>2, <3>3, <3>4
  <2>2. CASE y # x
    BY <1>4, <2>2 DEF Queued
  <2> QED BY <2>1, <2>2
<1>7. AtLeast(slot, rd, Head(ch[x]), x[2], taken[x] + 1)
  <2>1. 1 \in DOMAIN ch[x]
    BY <1>2
  <2> QED BY <1>2, <2>1 DEF Queued
<1> QED BY <1>5, <1>6, <1>7 DEF Queued, SameSent

\* OutputManager.AddData sends the datum of this round, once.
LEMMA SendKeeps ==
  ASSUME ControlInv, DataType, \A f \in Scripts : Orderly(f),
         NEW a \in Agent, Producer(a), NEW s \in StreamsOf(a),
         NEW d \in DOMAIN Consumers(a, s), dest[a] = d, Owes(a, s, d), ~ Owes(a, s, d)',
         NEW e \in Entry, ch' = [ch EXCEPT ![<<Consumers(a, s)[d], s>>] = Append(@, e)],
         dest' = [dest EXCEPT ![a] = @ + 1], UNCHANGED <<pc, item, script, slot, added>>,
         NEW rd \in [Node -> Nat], NEW taken \in [Chan -> Nat],
         Made(rd, a, s) \in Nat, AtLeast(slot, rd, e, s, Made(rd, a, s)),
         Pace(rd, taken), Queued(rd, taken)
  PROVE  Pace(rd, taken)' /\ Queued(rd, taken)'
<1> DEFINE x == <<Consumers(a, s)[d], s>>
<1>1. x \in Chan /\ s \in Stream /\ d \in Nat
  BY StreamsType, Channels
<1>2. ch[x] \in Seq(Entry) /\ taken[x] \in Nat
  BY <1>1 DEF DataType
<1>3. /\ Len(ch[x]) \in Nat /\ DOMAIN ch[x] = 1 .. Len(ch[x])
      /\ Append(ch[x], e) \in Seq(Entry) /\ Len(Append(ch[x], e)) = Len(ch[x]) + 1
      /\ \A i \in 1 .. Len(ch[x]) : Append(ch[x], e)[i] = ch[x][i]
      /\ Append(ch[x], e)[Len(ch[x]) + 1] = e
  BY <1>2, AppendProperties
<1>4. ch'[x] = Append(ch[x], e)
  BY <1>1 DEF DataType
<1>5. \A y \in Chan \ {x} : ch'[y] = ch[y]
  BY <1>1 DEF DataType
<1>6. Sent(taken, x) < Made(rd, a, s)
  BY DEF Pace, PaceOf
<1>7. Queued(rd, taken)'
  <2> SUFFICES ASSUME NEW y \in Chan, NEW k \in DOMAIN ch'[y]
               PROVE  AtLeast(slot, rd, ch'[y][k], y[2], taken[y] + k)
    BY DEF Queued
  <2>1. CASE y = x
    <3>0. DOMAIN Append(ch[x], e) = 1 .. Len(ch[x]) + 1
      BY <1>3
    <3>1. k \in 1 .. Len(ch[x]) + 1
      BY <1>4, <2>1, <3>0
    <3>2. CASE k \in 1 .. Len(ch[x])
      BY <1>3, <1>4, <2>1, <3>2 DEF Queued
    <3>3. CASE k = Len(ch[x]) + 1
      <4>1. taken[x] + k \in Nat /\ taken[x] + k <= Made(rd, a, s)
        <5>1. Len(ch[x]) \in Nat /\ taken[x] + Len(ch[x]) < Made(rd, a, s)
          BY <1>3, <1>6 DEF Sent
        <5> HIDE DEF x
        <5> QED BY ONLY <1>2, <3>3, <5>1, Made(rd, a, s) \in Nat
      <4>2. AtLeast(slot, rd, e, s, taken[x] + k)
        BY <1>1, <4>1, AtLeastLess
      <4> QED BY <1>3, <1>4, <2>1, <3>3, <4>2
    <3> QED BY <1>3, <3>1, <3>2, <3>3
  <2>2. CASE y # x
    BY <1>5, <2>2 DEF Queued
  <2> QED BY <2>1, <2>2
<1>8. Pace(rd, taken)'
  <2> SUFFICES ASSUME NEW b \in Agent, Producer(b)', NEW r \in StreamsOf(b),
                      NEW k \in DOMAIN Consumers(b, r)
               PROVE  PaceOf(rd, taken, b, r, k)'
    BY DEF Pace, StreamsOf
  <2> DEFINE y == <<Consumers(b, r)[k], r>>
  <2>1. Producer(b) /\ y \in Chan /\ k \in Nat /\ r \in Stream
    BY StreamsType, Channels DEF Producer, Writes
  <2>2. PaceOf(rd, taken, b, r, k)
    BY <2>1 DEF Pace
  <2>3. Made(rd, b, r)' = Made(rd, b, r)
    BY DEF Made
  <2>4. CASE y = x
    <3>1. r = s /\ Consumers(b, r)[k] = Consumers(a, s)[d]
      BY <2>4
    <3>2. b = a
      BY <1>1, <2>1, <3>1, ChannelsDisjoint DEF ControlInv
    <3>3. k = d
      BY <1>1, <3>1, <3>2, Channels
    <3>4. ~ Owes(b, r, k)'
      BY <3>1, <3>2, <3>3
    <3>5. Sent(taken, x)' = Sent(taken, x) + 1
      <4>1. Len(ch'[x]) = Len(ch[x]) + 1 /\ Len(ch[x]) \in Nat
        BY <1>3, <1>4
      <4>2. taken[x] + (Len(ch[x]) + 1) = (taken[x] + Len(ch[x])) + 1
        <5> HIDE DEF x
        <5>1. taken[x] \in Nat /\ Len(ch[x]) \in Nat
          BY <1>2, <4>1
        <5> QED BY ONLY <5>1
      <4> QED BY <4>1, <4>2 DEF Sent
    <3>6. Sent(taken, x) \in Nat
      BY <1>2, <1>3 DEF Sent
    <3>7. Sent(taken, x) + 1 <= Made(rd, a, s)
      BY ONLY <1>6, <3>6, Made(rd, a, s) \in Nat
    <3> QED BY <2>3, <2>4, <3>1, <3>2, <3>4, <3>5, <3>7 DEF PaceOf
  <2>5. CASE y # x
    <3>1. Sent(taken, y)' = Sent(taken, y)
      BY <1>5, <2>1, <2>5 DEF Sent
    <3>2. Owes(b, r, k)' => Owes(b, r, k)
      <4>1. dest[b] \in Nat /\ (dest'[b] = dest[b] \/ dest'[b] = dest[b] + 1)
        BY DEF ControlInv, ControlType
      <4> QED BY <2>1, <4>1 DEF Owes
    <3> QED BY <2>2, <2>3, <3>1, <3>2 DEF PaceOf
  <2> QED BY <2>4, <2>5
<1> QED BY <1>7, <1>8

-----------------------------------------------------------------------------
(* The steps of the nodes.                                                 *)

\* A step that changes no data.
LEMMA CalmKeeps ==
  ASSUME DataType, DataType', NEW n \in Node,
         NEW rd \in [Node -> Nat], NEW taken \in [Chan -> Nat], Fresh(rd, taken),
         OnlyNode(n), \A x \in Chan : closed[x] => closed'[x],
         UNCHANGED <<ch, slot, held>>, acc'[n] = acc[n], item'[n] >= 1,
         \A j \in DOMAIN Ins[n] : pc'[n] = "recv" /\ allok'[n] /\ j < item'[n] =>
           pc[n] = "recv" /\ allok[n] /\ j < item[n],
         pc'[n] = "read" => pc[n] = "read",
         pc'[n] \in {"read", "write"} => pc[n] \in {"read", "write"},
         \A i \in DOMAIN Outs[n] :
           pc'[n] = "send" \/ (pc'[n] = "write" /\ i < item'[n]) =>
             pc[n] = "send" \/ (pc[n] = "write" /\ i < item[n]),
         \A s \in StreamsOf(n) : \A j \in DOMAIN Consumers(n, s) :
           Owes(n, s, j)' => Owes(n, s, j)
  PROVE  Fresh(rd, taken)'
<1>0. n \in Agent /\ Pace(rd, taken) /\ NodeIn(rd, taken, n) /\ NodeOut(rd, n)
  BY DEF Agent, Fresh, Works
<1>1. NodeIn(rd, taken, n)'
  BY <1>0 DEF NodeIn
<1>2. NodeOut(rd, n)'
  BY <1>0 DEF NodeOut
<1>3. ASSUME NEW s \in StreamsOf(n), NEW j \in DOMAIN Consumers(n, s)
      PROVE  PaceOf(rd, taken, n, s, j)'
  <2>1. PaceOf(rd, taken, n, s, j)
    BY <1>0 DEF Pace, Producer
  <2>2. \A x \in Chan : Sent(taken, x)' = Sent(taken, x)
    BY DEF Sent
  <2> QED BY <1>0, <2>1, <2>2, PaceFrame DEF OnlyNode
<1>4. (\A a \in Agent : HeldKept(a, rd, rd)) /\ QueueKept(rd, rd)
  BY DEF HeldKept, QueueKept
<1> QED BY <1>1, <1>2, <1>3, <1>4, LocalKeeps

\* The steps between two communications.
LEMMA CalmNode ==
  ASSUME ControlInv, DataType, DataType', NEW n \in Node,
         NEW rd \in [Node -> Nat], NEW taken \in [Chan -> Nat], Fresh(rd, taken),
         \/ Start(n) \/ Continue(n) \/ Compute(n) \/ SendNext(n)
         \/ Write(n) /\ item[n] \notin DOMAIN Outs[n]
  PROVE  Fresh(rd, taken)'
<1>0. /\ n \in Agent /\ item[n] \in Nat /\ item[n] >= 1
      /\ item \in [Agent -> Nat] /\ pc \in [Agent -> NodePc \cup ClientPc]
      /\ dest \in [Agent -> Nat] /\ allok \in [Node -> BOOLEAN]
      /\ DOMAIN Ins[n] = 1 .. Len(Ins[n]) /\ DOMAIN Outs[n] = 1 .. Len(Outs[n])
      /\ Len(Ins[n]) \in Nat /\ Len(Outs[n]) \in Nat
  <2>1. Ins[n] \in Seq(Stream) /\ Outs[n] \in Seq(Stream)
    BY GraphAssumption
  <2> QED BY <2>1 DEF ControlInv, ControlType, DataType, Agent, Fresh, Works
<1>1. QuietStep(n)
  BY DEF QuietStep
<1>2. /\ closed' = closed /\ script' = script
      /\ \A a \in Agent \ {n} :
           pc'[a] = pc[a] /\ item'[a] = item[a] /\ dest'[a] = dest[a]
  BY <1>1, QuietFacts
<1>3. /\ UNCHANGED <<ch, slot, held, acc, added, got>>
      /\ \A m \in Node \ {n} : allok'[m] = allok[m]
  BY <1>0 DEF Start, Continue, Compute, SendNext, Write, StartSend, Subscribe, chans, task, api
<1>4. OnlyNode(n)
  BY <1>2, <1>3 DEF OnlyNode
<1>5. \/ pc'[n] = "recv" /\ item'[n] = 1
      \/ pc[n] = "read" /\ pc'[n] = "write" /\ item'[n] = 1
      \/ pc[n] = "write" /\ pc'[n] = "send" /\ item'[n] = 1 /\ item[n] \notin DOMAIN Outs[n]
      \/ /\ pc[n] = "send" /\ pc'[n] = "send" /\ item'[n] = item[n] + 1
         /\ dest[n] \notin DOMAIN Consumers(n, Outs[n][item[n]])
  BY <1>0 DEF Start, Continue, Compute, SendNext, Write, StartSend, Subscribe, Goto
<1>6. ASSUME NEW s \in StreamsOf(n), NEW j \in DOMAIN Consumers(n, s), Owes(n, s, j)'
      PROVE  Owes(n, s, j)
  BY <1>0, <1>5, <1>6 DEF Owes
<1>7. \A j \in DOMAIN Ins[n] : pc'[n] = "recv" /\ allok'[n] /\ j < item'[n] =>
           pc[n] = "recv" /\ allok[n] /\ j < item[n]
  BY <1>0, <1>5
<1>8. \A i \in DOMAIN Outs[n] :
           pc'[n] = "send" \/ (pc'[n] = "write" /\ i < item'[n]) =>
             pc[n] = "send" \/ (pc[n] = "write" /\ i < item[n])
  BY <1>0, <1>5
<1>9. /\ item'[n] >= 1 /\ (pc'[n] = "read" => pc[n] = "read")
      /\ pc'[n] \in {"read", "write"} => pc[n] \in {"read", "write"}
  BY <1>0, <1>5
<1> QED BY <1>2, <1>3, <1>4, <1>6, <1>7, <1>8, <1>9, CalmKeeps

\* A node that closes its outputs has begun no other round.
LEMMA CloseNode ==
  ASSUME ControlInv, ControlInv', DataType, DataType', NEW n \in Node,
         NEW rd \in [Node -> Nat], NEW taken \in [Chan -> Nat], Fresh(rd, taken),
         \/ Break(n) \/ PickStream(n) \/ CloseChannel(n) \/ NextStream(n) \/ Exit(n)
         \/ Drain(n) /\ ch' = ch
  PROVE  Fresh(rd, taken)'
<1>0. /\ n \in Agent /\ item[n] >= 1
      /\ item \in [Agent -> Nat] /\ pc \in [Agent -> NodePc \cup ClientPc]
      /\ dest \in [Agent -> Nat] /\ closed \in [Chan -> BOOLEAN]
      /\ pc'[n] # "dead"
  BY DEF ControlInv, ControlType, PcInv, DataType, Agent, Fresh, Works
<1>1. ~ Panic
  BY <1>0 DEF Panic
<1>2. /\ UNCHANGED <<ch, slot, held, acc, allok, added, got, item, script>>
      /\ \A x \in Chan : closed[x] => closed'[x]
      /\ \A a \in Agent \ {n} : pc'[a] = pc[a] /\ dest'[a] = dest[a]
      /\ pc'[n] \in {"close", "closing", "drain", "exit"}
  BY <1>0, <1>1 DEF Break, PickStream, CloseChannel, NextStream, Exit, Drain, Goto,
                    chans, local, task, api
<1>3. OnlyNode(n)
  BY <1>2 DEF OnlyNode
<1>4. \A s \in StreamsOf(n) : \A j \in DOMAIN Consumers(n, s) : ~ Owes(n, s, j)'
  BY <1>2 DEF Owes
<1> QED BY <1>0, <1>2, <1>3, <1>4, CalmKeeps

\* What an agent that closes or receives takes leaves everybody else's part:
\* x is the channel, n the only agent that moves.
LEMMA TakenKeeps ==
  ASSUME ControlInv, DataType, DataType', NEW n \in Node, NEW x \in Chan,
         ch[x] # << >>, ch' = [ch EXCEPT ![x] = Tail(@)],
         NEW rd \in [Node -> Nat], NEW taken \in [Chan -> Nat], Fresh(rd, taken),
         NEW t \in [Chan -> Nat], t = [taken EXCEPT ![x] = @ + 1],
         OnlyNode(n), slot' = slot, closed' = closed,
         \A a \in Agent \ {n} : held'[a] = held[a],
         item'[n] >= 1, NodeIn(rd, t, n)', NodeOut(rd, n)',
         \A s \in StreamsOf(n) : \A j \in DOMAIN Consumers(n, s) :
           Owes(n, s, j)' => Owes(n, s, j)
  PROVE  Fresh(rd, t)'
<1>0. /\ Pace(rd, taken) /\ Queued(rd, taken) /\ Works(rd, taken) /\ Answered(rd, taken)
      /\ Node \subseteq Agent /\ Client \subseteq Agent /\ n \notin Client
  BY GraphAssumption DEF Fresh, Agent
<1>1. Queued(rd, t)' /\ SameSent(taken, t)
  BY <1>0, TakeKeeps
<1>2. \A a \in Agent \ {n} : HeldKept(a, rd, rd)
  BY DEF HeldKept
<1>3. Pace(rd, t)'
  <2> SUFFICES ASSUME NEW a \in Agent, Producer(a)', NEW s \in StreamsOf(a),
                      NEW j \in DOMAIN Consumers(a, s)
               PROVE  PaceOf(rd, t, a, s, j)'
    BY DEF Pace, StreamsOf
  <2>1. Producer(a) /\ script' = script /\ added' = added
    BY DEF OnlyNode, Producer, Writes
  <2>2. PaceOf(rd, taken, a, s, j)
    BY <1>0, <2>1 DEF Pace
  <2>3. Owes(a, s, j)' => Owes(a, s, j)
    <3>1. CASE a = n
      BY <3>1
    <3>2. CASE a # n
      BY <2>1, <3>2, OwesFrame DEF OnlyNode
    <3> QED BY <3>1, <3>2
  <2> QED BY <1>1, <2>1, <2>2, <2>3, PaceFrame DEF SameSent
<1>4. Works(rd, t)'
  <2> SUFFICES ASSUME NEW m \in Node
               PROVE  item'[m] >= 1 /\ NodeIn(rd, t, m)' /\ NodeOut(rd, m)'
    BY DEF Works
  <2>1. CASE m = n
    BY <2>1
  <2>2. CASE m # n
    <3>1. item[m] >= 1 /\ NodeIn(rd, taken, m) /\ NodeOut(rd, m)
      BY <1>0 DEF Works
    <3>2. /\ pc'[m] = pc[m] /\ item'[m] = item[m] /\ allok'[m] = allok[m]
          /\ acc'[m] = acc[m] /\ HeldKept(m, rd, rd)
          /\ \A s \in Range(Outs[m]) : slot'[s] = slot[s]
      BY <1>0, <1>2, <2>2 DEF OnlyNode
    <3>3. NodeIn(rd, t, m)' /\ NodeOut(rd, m)'
      BY <1>1, <3>1, <3>2, NodeFrame DEF SameSent
    <3> QED BY <3>1, <3>2, <3>3
  <2> QED BY <2>1, <2>2
<1>5. Answered(rd, t)'
  <2> SUFFICES ASSUME NEW s \in GOut PROVE AnswerOf(rd, t, s)'
    BY DEF Answered
  <2>1. AnswerOf(rd, taken, s) /\ script' = script /\ got'[s] = got[s]
    BY <1>0 DEF Answered, OnlyNode
  <2>2. Drained(s) => Drained(s)'
    <3>1. <<Sink, s>> \in Chan
      BY GraphAssumption DEF Chan, Manager
    <3> QED BY <3>1 DEF Drained, DataType
  <2>3. \A c \in Client : pc'[c] = "got" /\ script[c][item'[c]].s = s =>
          pc[c] = "got" /\ item'[c] = item[c] /\ HeldKept(c, rd, rd)
    BY <1>0, <1>2 DEF OnlyNode
  <2> QED BY <1>1, <2>1, <2>2, <2>3, AnswerFrame DEF SameSent
<1> QED BY <1>1, <1>3, <1>4, <1>5 DEF Fresh

\* Draining an output channel.
LEMMA DrainNode ==
  ASSUME ControlInv, DataType, DataType', NEW n \in Node, Drain(n), ch' # ch,
         NEW rd \in [Node -> Nat], NEW taken \in [Chan -> Nat], Fresh(rd, taken)
  PROVE  \E t \in [Chan -> Nat] : Fresh(rd, t)'
<1>0. n \in Agent /\ pc[n] = "drain" /\ cur[n] \in StreamsOf(n)
      /\ dest[n] \in DOMAIN Consumers(n, cur[n])
  BY DEF Agent, Drain, ControlInv, PcInv
<1>1. <<Consumers(n, cur[n])[dest[n]], cur[n]>> \in Chan
  BY <1>0, StreamsType, Channels
<1>2. PICK x \in Chan : x = <<Consumers(n, cur[n])[dest[n]], cur[n]>>
  BY <1>1
<1>3. /\ ch[x] # << >> /\ ch' = [ch EXCEPT ![x] = Tail(@)]
      /\ UNCHANGED <<pc, dest, closed, item, slot, held, allok, acc, added, got, script>>
  BY <1>2 DEF Drain, task, api
<1>4. PICK t \in [Chan -> Nat] : t = [taken EXCEPT ![x] = @ + 1]
  BY CountUp
<1>5. OnlyNode(n)
  BY <1>3 DEF OnlyNode
<1>6. /\ item'[n] >= 1 /\ NodeOut(rd, n)'
      /\ NodeIn(rd, taken, n)
  BY <1>3 DEF Fresh, Works, NodeOut
<1>7. \A y \in Chan : taken[y] \in Nat /\ t[y] \in Nat /\ taken[y] <= t[y]
  BY <1>4
<1>8. HeldKept(n, rd, rd) /\ NodeOut(rd, n)
  BY <1>3 DEF HeldKept, Fresh, Works
<1>9. NodeIn(rd, t, n)'
  BY <1>3, <1>6, <1>7, <1>8, NodeFrame
<1>10. \A s \in StreamsOf(n) : \A j \in DOMAIN Consumers(n, s) :
         Owes(n, s, j)' => Owes(n, s, j)
  BY <1>0, <1>3, OwesFrame
<1>11. Fresh(rd, t)'
  BY <1>3, <1>4, <1>5, <1>6, <1>9, <1>10, TakenKeeps
<1> QED BY <1>11

\* InputManager.Subscribe: an entry of the next round, or nil from a closed channel.
LEMMA ReceiveNode ==
  ASSUME ControlInv, DataType, DataType', NEW n \in Node, Receive(n),
         NEW rd \in [Node -> Nat], NEW taken \in [Chan -> Nat], Fresh(rd, taken)
  PROVE  \E t \in [Chan -> Nat] : Fresh(rd, t)'
<1>0. /\ n \in Agent /\ item[n] \in Nat /\ item[n] >= 1
      /\ item \in [Agent -> Nat] /\ allok \in [Node -> BOOLEAN]
      /\ allok[n] \in BOOLEAN /\ rd[n] \in Nat
      /\ NodeIn(rd, taken, n) /\ Queued(rd, taken) /\ held \in [Agent -> [Stream -> Entry]]
  BY DEF ControlInv, ControlType, DataType, Agent, Fresh, Works
<1>1. /\ item[n] \in DOMAIN Ins[n] /\ pc[n] = "recv" /\ pc' = pc /\ dest' = dest
      /\ item' = [item EXCEPT ![n] = @ + 1]
      /\ UNCHANGED <<closed, slot, acc, added, got, script>>
  BY DEF Receive, api
<1>2. PICK i \in DOMAIN Ins[n] : i = item[n]
  BY <1>1
<1> DEFINE s == Ins[n][i]
           x == <<n, s>>
<1>3. s \in Stream /\ x \in Chan
  BY InputChannel
<1>4. /\ ch' = [ch EXCEPT ![x] = IF ch[x] # << >> THEN Tail(@) ELSE @]
      /\ held' = [held EXCEPT ![n][s] = IF ch[x] # << >> THEN Head(ch[x]) ELSE NilEntry]
      /\ allok' = [allok EXCEPT ![n] = @ /\ ch[x] # << >>]
  BY <1>2 DEF Receive
<1>5. /\ OnlyNode(n) /\ \A a \in Agent \ {n} : held'[a] = held[a]
      /\ \A r \in Stream \ {s} : held'[n][r] = held[n][r]
  BY <1>0, <1>1, <1>3, <1>4 DEF OnlyNode
<1>6. item'[n] = item[n] + 1 /\ item'[n] >= 1
  BY <1>0, <1>1
<1>7. NodeOut(rd, n)' /\ \A r \in StreamsOf(n) : \A j \in DOMAIN Consumers(n, r) : ~ Owes(n, r, j)'
  BY <1>1 DEF NodeOut, Owes
<1>8. CASE ch[x] # << >>
  <2>1. ch' = [ch EXCEPT ![x] = Tail(@)] /\ held'[n][s] = Head(ch[x])
    BY <1>0, <1>3, <1>4, <1>8
  <2>2. PICK t \in [Chan -> Nat] : t = [taken EXCEPT ![x] = @ + 1]
    BY <1>3, CountUp
  <2>3. AtLeast(slot, rd, Head(ch[x]), s, taken[x] + 1)
    <3>1. x[2] = s
      OBVIOUS
    <3>2. AtLeast(slot, rd, Head(ch[x]), x[2], taken[x] + 1)
      BY <1>0, <1>1, <1>3, <1>8, <2>1, <2>2, TakeKeeps
    <3> QED BY <3>1, <3>2
  <2>4. taken[x] \in Nat /\ taken[x] >= rd[n] /\ t[x] = taken[x] + 1
    BY <1>0, <1>3, <2>2 DEF NodeIn
  <2>5. AtLeast(slot', rd, held'[n][s], s, rd[n] + 1)
    <3>1. Head(ch[x]) \in Entry
      BY <1>3, <1>8, HeadTailProperties DEF DataType
    <3>2. rd[n] + 1 \in Nat /\ taken[x] + 1 \in Nat /\ rd[n] + 1 <= taken[x] + 1
      BY <1>0, <2>4
    <3>3. AtLeast(slot, rd, Head(ch[x]), s, rd[n] + 1)
      BY <1>3, <2>3, <3>1, <3>2, AtLeastLess
    <3> QED BY <1>1, <2>1, <3>3
  <2>6. \A y \in Chan : taken[y] \in Nat /\ t[y] \in Nat /\ taken[y] <= t[y]
    BY <1>3, <2>2
  <2>7. NodeIn(rd, t, n)'
    <3> SUFFICES ASSUME NEW j \in DOMAIN Ins[n]
                 PROVE  /\ t[<<n, Ins[n][j]>>] >= rd[n]
                        /\ allok'[n] /\ j < item'[n] =>
                             /\ t[<<n, Ins[n][j]>>] > rd[n]
                             /\ AtLeast(slot', rd, held'[n][Ins[n][j]], Ins[n][j], rd[n] + 1)
      BY <1>1 DEF NodeIn
    <3>1. Ins[n][j] \in Stream /\ <<n, Ins[n][j]>> \in Chan /\ j \in Nat
      <4>1. Ins[n] \in Seq(Stream)
        BY GraphAssumption
      <4>2. j \in Nat
        BY <4>1
      <4> QED BY <4>2, InputChannel
    <3>2. CASE Ins[n][j] = s
      <4>1. t[x] > rd[n] /\ t[x] >= rd[n]
        BY <1>0, <2>4
      <4> QED BY <2>5, <3>2, <4>1
    <3>3. CASE Ins[n][j] # s
      <4>1. t[<<n, Ins[n][j]>>] = taken[<<n, Ins[n][j]>>]
        BY <2>2, <3>1, <3>3
      <4>2. j # i
        BY <3>3
      <4>3. j < item'[n] => j < item[n]
        <5>1. j \in Nat /\ item[n] \in Nat /\ item'[n] = item[n] + 1 /\ j # item[n]
          BY <1>0, <1>2, <1>6, <3>1, <4>2
        <5> QED BY ONLY <5>1
      <4>4. allok'[n] => allok[n]
        BY <1>0, <1>4
      <4>5. held'[n][Ins[n][j]] = held[n][Ins[n][j]]
        BY <1>5, <3>1, <3>3
      <4> QED BY <1>0, <1>1, <4>1, <4>3, <4>4, <4>5 DEF NodeIn
    <3> QED BY <3>2, <3>3
  <2>8. Fresh(rd, t)'
    <3> HIDE DEF x, s
    <3> QED BY <1>1, <1>3, <1>5, <1>6, <1>7, <1>8, <2>1, <2>2, <2>7, TakenKeeps
  <2> QED BY <2>8
<1>9. CASE ch[x] = << >>
  <2>1. ch' = ch /\ held'[n][s] = NilEntry /\ ~ allok'[n]
    BY <1>0, <1>3, <1>4, <1>9 DEF DataType
  <2>2. NodeIn(rd, taken, n)'
    BY <1>0, <1>1, <2>1 DEF NodeIn
  <2>3. ASSUME NEW a \in Agent PROVE HeldKept(a, rd, rd)
    <3> SUFFICES ASSUME NEW r \in Stream, NEW b \in Nat, AtLeast(slot, rd, held[a][r], r, b)
                 PROVE  AtLeast(slot', rd, held'[a][r], r, b)
      BY DEF HeldKept
    <3>1. CASE a = n /\ r = s
      BY <2>1, <3>1 DEF AtLeast, NilEntry
    <3>2. CASE ~ (a = n /\ r = s)
      <4>1. held'[a][r] = held[a][r]
        BY <1>5, <3>2
      <4> QED BY <1>1, <4>1
    <3> QED BY <3>1, <3>2
  <2>4. QueueKept(rd, rd)
    BY <1>1, <2>1 DEF QueueKept
  <2>5. ASSUME NEW r \in StreamsOf(n), NEW j \in DOMAIN Consumers(n, r)
        PROVE  PaceOf(rd, taken, n, r, j)'
    <3>1. PaceOf(rd, taken, n, r, j)
      BY <1>0 DEF Fresh, Pace, Producer
    <3>2. \A y \in Chan : Sent(taken, y)' = Sent(taken, y)
      BY <2>1 DEF Sent
    <3> QED BY <1>0, <1>1, <1>7, <3>1, <3>2, PaceFrame
  <2>6. Fresh(rd, taken)'
    BY <1>1, <1>5, <1>6, <1>7, <2>2, <2>3, <2>4, <2>5, LocalKeeps
  <2> QED BY <2>6
<1> QED BY <1>8, <1>9

\* What is known of a node's position and of its lists of streams.
LEMMA NodeFacts ==
  ASSUME ControlInv, DataType, NEW n \in Node,
         NEW rd \in [Node -> Nat], NEW taken \in [Chan -> Nat], Fresh(rd, taken)
  PROVE  /\ n \in Agent /\ n \notin Client /\ Producer(n) /\ StreamsOf(n) = Range(Outs[n])
         /\ item[n] \in Nat /\ item[n] >= 1 /\ dest[n] \in Nat /\ rd[n] \in Nat
         /\ NodeIn(rd, taken, n) /\ NodeOut(rd, n)
         /\ DOMAIN Ins[n] = 1 .. Len(Ins[n]) /\ Len(Ins[n]) \in Nat
         /\ DOMAIN Outs[n] = 1 .. Len(Outs[n]) /\ Len(Outs[n]) \in Nat
         /\ \A i \in DOMAIN Outs[n] : Outs[n][i] \in Stream /\ Outs[n][i] \in Range(Outs[n])
<1>1. Ins[n] \in Seq(Stream) /\ Outs[n] \in Seq(Stream)
  BY GraphAssumption
<1>2. \A i \in DOMAIN Outs[n] : Outs[n][i] \in Stream /\ Outs[n][i] \in Range(Outs[n])
  BY <1>1 DEF Range
<1> QED BY <1>1, <1>2, GraphAssumption
        DEF ControlInv, ControlType, Agent, Producer, StreamsOf, Fresh, Works

\* A round begins once the node has an entry of it from every input.
LEMMA ProceedNode ==
  ASSUME ControlInv, DataType, DataType', NEW n \in Node, Proceed(n),
         NEW rd \in [Node -> Nat], NEW taken \in [Chan -> Nat], Fresh(rd, taken)
  PROVE  Fresh([rd EXCEPT ![n] = @ + 1], taken)'
<1> DEFINE q == [rd EXCEPT ![n] = @ + 1]
<1>0. /\ n \in Agent /\ n \notin Client /\ Producer(n) /\ StreamsOf(n) = Range(Outs[n])
      /\ item[n] \in Nat /\ item[n] >= 1 /\ dest[n] \in Nat /\ rd[n] \in Nat
      /\ NodeIn(rd, taken, n) /\ NodeOut(rd, n)
      /\ DOMAIN Ins[n] = 1 .. Len(Ins[n]) /\ Len(Ins[n]) \in Nat
  BY NodeFacts
<1>1. /\ q \in [Node -> Nat] /\ q[n] = rd[n] + 1 /\ \A m \in Node \ {n} : q[m] = rd[m]
      /\ \A m \in Node : rd[m] <= q[m]
  OBVIOUS
<1>2. /\ closed' = closed /\ script' = script
      /\ \A a \in Agent \ {n} :
           pc'[a] = pc[a] /\ item'[a] = item[a] /\ dest'[a] = dest[a]
  BY QuietFacts DEF QuietStep
<1>3. /\ pc[n] = "recv" /\ item[n] \notin DOMAIN Ins[n] /\ allok[n] /\ pc'[n] = "read"
      /\ item'[n] = 1 /\ acc'[n] = {} /\ \A m \in Node \ {n} : acc'[m] = acc[m]
      /\ UNCHANGED <<ch, slot, held, allok, added, got>>
  BY <1>0 DEF Proceed, Subscribed, SkipRound, Goto, Accumulator, chans, api,
              ControlInv, ControlType, DataType
<1>4. OnlyNode(n)
  BY <1>2, <1>3 DEF OnlyNode
<1> HIDE DEF q
<1>5. ASSUME NEW a \in Agent PROVE HeldKept(a, rd, q)
  BY <1>1, <1>3, AtLeastRound DEF HeldKept
<1>6. QueueKept(rd, q)
  BY <1>1, <1>3, AtLeastRound DEF QueueKept
<1>7. NodeOut(q, n)'
  BY <1>0, <1>3 DEF NodeOut
<1>8. NodeIn(q, taken, n)'
  <2> SUFFICES ASSUME NEW j \in DOMAIN Ins[n]
               PROVE  /\ taken[<<n, Ins[n][j]>>] >= q[n]
                      /\ AtLeast(slot', q, held'[n][Ins[n][j]], Ins[n][j], q[n])
    BY <1>3 DEF NodeIn
  <2>1. j < item[n]
    BY <1>0, <1>3
  <2>2. /\ taken[<<n, Ins[n][j]>>] > rd[n]
        /\ AtLeast(slot, rd, held[n][Ins[n][j]], Ins[n][j], rd[n] + 1)
    BY <1>0, <1>3, <2>1 DEF NodeIn
  <2>3. Ins[n][j] \in Stream /\ taken[<<n, Ins[n][j]>>] \in Nat
    BY InputChannel
  <2>4. taken[<<n, Ins[n][j]>>] >= q[n] /\ rd[n] + 1 \in Nat
    BY <1>0, <1>1, <2>2, <2>3
  <2> QED BY <1>0, <1>1, <1>5, <2>2, <2>3, <2>4 DEF HeldKept
<1>9. ASSUME NEW s \in StreamsOf(n), NEW j \in DOMAIN Consumers(n, s)
      PROVE  PaceOf(q, taken, n, s, j)'
  <2>1. PaceOf(rd, taken, n, s, j)
    BY <1>0 DEF Fresh, Pace
  <2>2. <<Consumers(n, s)[j], s>> \in Chan
    BY <1>0, StreamsType, Channels
  <2>3. Sent(taken, <<Consumers(n, s)[j], s>>) <= rd[n]
    BY <2>1 DEF PaceOf, Made
  <2>4. Sent(taken, <<Consumers(n, s)[j], s>>) \in Nat
    <3>1. ch[<<Consumers(n, s)[j], s>>] \in Seq(Entry)
      BY <2>2 DEF DataType
    <3>2. Len(ch[<<Consumers(n, s)[j], s>>]) \in Nat
      BY <3>1
    <3> QED BY <2>2, <3>2 DEF Sent
  <2>5. /\ Sent(taken, <<Consumers(n, s)[j], s>>)' = Sent(taken, <<Consumers(n, s)[j], s>>)
        /\ Made(q, n, s)' = rd[n] + 1
    BY <1>1, <1>3 DEF Sent, Made
  <2>6. /\ Sent(taken, <<Consumers(n, s)[j], s>>) <= rd[n] + 1
        /\ Sent(taken, <<Consumers(n, s)[j], s>>) < rd[n] + 1
    BY ONLY <1>0, <2>3, <2>4
  <2> QED BY <2>5, <2>6 DEF PaceOf
<1>10. Fresh(q, taken)'
  BY <1>1, <1>2, <1>3, <1>4, <1>5, <1>6, <1>7, <1>8, <1>9, LocalKeeps
<1> QED BY <1>10 DEF q

\* A task reads an input: it is of this round or later.
LEMMA ReadNode ==
  ASSUME ControlInv, DataType, DataType', NEW n \in Node, Read(n),
         NEW rd \in [Node -> Nat], NEW taken \in [Chan -> Nat], Fresh(rd, taken)
  PROVE  Fresh(rd, taken)'
<1>0. /\ n \in Agent /\ n \notin Client /\ Producer(n)
      /\ item[n] \in Nat /\ item[n] >= 1 /\ rd[n] \in Nat
      /\ NodeIn(rd, taken, n) /\ NodeOut(rd, n)
  BY NodeFacts
<1>1. /\ closed' = closed /\ script' = script
      /\ \A a \in Agent \ {n} :
           pc'[a] = pc[a] /\ item'[a] = item[a] /\ dest'[a] = dest[a]
  BY QuietFacts DEF QuietStep
<1>2. PICK s \in Stream : /\ s = Ins[n][item[n]]
                          /\ acc' = [acc EXCEPT ![n] = @ \cup Deref(held[n][s], s)]
                          /\ AtLeast(slot, rd, held[n][s], s, rd[n])
  <2>1. /\ item[n] \in DOMAIN Ins[n] /\ pc[n] = "read"
        /\ acc' = [acc EXCEPT ![n] = @ \cup Deref(held[n][Ins[n][item[n]]], Ins[n][item[n]])]
    BY DEF Read
  <2>2. Ins[n][item[n]] \in Stream
    BY <2>1, InputChannel
  <2> QED BY <1>0, <2>1, <2>2 DEF NodeIn
<1>3. /\ pc[n] = "read" /\ pc' = pc /\ dest' = dest /\ item'[n] = item[n] + 1
      /\ UNCHANGED <<ch, slot, held, allok, added, got>>
      /\ \A m \in Node \ {n} : acc'[m] = acc[m]
  BY <1>0, <1>2 DEF Read, chans, api, ControlInv, ControlType, DataType
<1>4. OnlyNode(n)
  BY <1>1, <1>3 DEF OnlyNode
<1>5. (\A a \in Agent : HeldKept(a, rd, rd)) /\ QueueKept(rd, rd)
  BY <1>3 DEF HeldKept, QueueKept
<1>6. NodeIn(rd, taken, n)'
  BY <1>0, <1>3 DEF NodeIn
<1>7. NodeOut(rd, n)'
  <2>1. \A r \in Deref(held[n][s], s) : r >= rd[n]
    BY <1>2 DEF AtLeast, Deref
  <2>2. acc'[n] = acc[n] \cup Deref(held[n][s], s)
    BY <1>2 DEF DataType
  <2>3. \A r \in acc'[n] : r >= rd[n]
    BY <1>0, <1>3, <2>1, <2>2 DEF NodeOut
  <2> QED BY <1>3, <2>3 DEF NodeOut
<1>8. ASSUME NEW r \in StreamsOf(n), NEW j \in DOMAIN Consumers(n, r)
      PROVE  PaceOf(rd, taken, n, r, j)'
  <2>1. PaceOf(rd, taken, n, r, j)
    BY <1>0 DEF Fresh, Pace
  <2>2. \A y \in Chan : Sent(taken, y)' = Sent(taken, y)
    BY <1>3 DEF Sent
  <2>3. Owes(n, r, j)' => Owes(n, r, j)
    BY <1>3 DEF Owes
  <2> QED BY <1>0, <1>3, <2>1, <2>2, <2>3, PaceFrame
<1>9. item'[n] >= 1
  BY <1>0, <1>3
<1> QED BY <1>1, <1>3, <1>4, <1>5, <1>6, <1>7, <1>8, <1>9, LocalKeeps

\* The outputs of two nodes are different streams.
LEMMA OwnOutputs ==
  ASSUME NEW n \in Node, NEW m \in Node, NEW s, s \in Range(Outs[n]), s \in Range(Outs[m])
  PROVE  m = n
BY WiringAssumption DEF SingleWriter

\* A task assigns an output, in place: those who still hold the object of an
\* earlier round see newer data, never older.
LEMMA WriteNode ==
  ASSUME ControlInv, DataType, DataType', NEW n \in Node, Write(n),
         item[n] \in DOMAIN Outs[n],
         NEW rd \in [Node -> Nat], NEW taken \in [Chan -> Nat], Fresh(rd, taken)
  PROVE  Fresh(rd, taken)'
<1>0. /\ n \in Agent /\ n \notin Client /\ Producer(n)
      /\ item[n] \in Nat /\ item[n] >= 1 /\ rd[n] \in Nat
      /\ NodeIn(rd, taken, n) /\ NodeOut(rd, n)
      /\ \A i \in DOMAIN Outs[n] : Outs[n][i] \in Stream /\ Outs[n][i] \in Range(Outs[n])
      /\ DOMAIN Outs[n] = 1 .. Len(Outs[n]) /\ Len(Outs[n]) \in Nat
  BY NodeFacts
<1>1. /\ closed' = closed /\ script' = script
      /\ \A a \in Agent \ {n} :
           pc'[a] = pc[a] /\ item'[a] = item[a] /\ dest'[a] = dest[a]
  BY QuietFacts DEF QuietStep
<1>2. PICK i \in DOMAIN Outs[n] : i = item[n]
  OBVIOUS
<1>3. PICK s \in Stream : s = Outs[n][i]
  BY <1>0
<1>4. /\ pc[n] = "write" /\ pc' = pc /\ dest' = dest /\ item'[n] = item[n] + 1
      /\ slot' = [slot EXCEPT ![s] = acc[n]]
      /\ UNCHANGED <<ch, held, acc, allok, added, got>>
  BY <1>0, <1>2, <1>3 DEF Write, chans, api, ControlInv, ControlType
<1>5. /\ acc[n] \in Datum /\ s \in Range(Outs[n]) /\ \A r \in acc[n] : r >= rd[n]
  BY <1>0, <1>3, <1>4 DEF DataType, NodeOut
<1>6. ASSUME NEW e \in Entry, NEW r \in Stream, NEW b \in Nat, AtLeast(slot, rd, e, r, b)
      PROVE  AtLeast(slot', rd, e, r, b)
  BY <1>4, <1>5, <1>6, AtLeastWrite
<1>7. \A a \in Agent : HeldKept(a, rd, rd)
  <2>1. \A a \in Agent, r \in Stream : held[a][r] \in Entry
    BY DEF DataType
  <2> QED BY <1>4, <1>6, <2>1 DEF HeldKept
<1>8. QueueKept(rd, rd)
  <2> SUFFICES ASSUME NEW x \in Chan, NEW k \in DOMAIN ch[x], NEW b \in Nat,
                      AtLeast(slot, rd, ch[x][k], x[2], b)
               PROVE  AtLeast(slot', rd, ch[x][k], x[2], b)
    BY <1>4 DEF QueueKept
  <2>1. ch[x] \in Seq(Entry) /\ x[2] \in Stream
    BY DEF DataType, Chan
  <2>2. ch[x][k] \in Entry
    BY <2>1
  <2> QED BY <1>6, <2>1, <2>2
<1>9. OnlyNode(n)
  <2>1. ASSUME NEW m \in Node \ {n}, NEW r \in Range(Outs[m]) PROVE slot'[r] = slot[r]
    <3>1. r # s
      BY <1>5, <2>1, OwnOutputs
    <3>2. r \in Stream
      BY GraphAssumption DEF Range
    <3> QED BY <1>4, <3>1, <3>2 DEF DataType
  <2> QED BY <1>1, <1>4, <2>1 DEF OnlyNode
<1>10. NodeIn(rd, taken, n)'
  BY <1>0, <1>4 DEF NodeIn
<1>11. NodeOut(rd, n)'
  <2>1. slot'[s] = acc[n] /\ \A r \in Stream \ {s} : slot'[r] = slot[r]
    BY <1>4 DEF DataType
  <2>2. ASSUME NEW j \in DOMAIN Outs[n], j < item'[n]
        PROVE  \A r \in slot'[Outs[n][j]] : r >= rd[n]
    <3>1. CASE Outs[n][j] = s
      BY <1>5, <2>1, <3>1
    <3>2. CASE Outs[n][j] # s
      <4>1. j \in Nat /\ j # item[n]
        BY <1>0, <1>2, <1>3, <3>2
      <4>2. j < item[n]
        BY <1>0, <1>4, <2>2, <4>1
      <4>3. slot'[Outs[n][j]] = slot[Outs[n][j]]
        BY <1>0, <2>1, <3>2
      <4> QED BY <1>0, <1>4, <4>2, <4>3 DEF NodeOut
    <3> QED BY <3>1, <3>2
  <2> QED BY <1>4, <1>5, <2>2 DEF NodeOut
<1>12. ASSUME NEW r \in StreamsOf(n), NEW j \in DOMAIN Consumers(n, r)
       PROVE  PaceOf(rd, taken, n, r, j)'
  <2>1. PaceOf(rd, taken, n, r, j)
    BY <1>0 DEF Fresh, Pace
  <2>2. \A y \in Chan : Sent(taken, y)' = Sent(taken, y)
    BY <1>4 DEF Sent
  <2>3. Owes(n, r, j)' => Owes(n, r, j)
    BY <1>4 DEF Owes
  <2> QED BY <1>0, <1>4, <2>1, <2>2, <2>3, PaceFrame
<1>13. item'[n] >= 1
  BY <1>0, <1>4
<1> QED BY <1>1, <1>4, <1>7, <1>8, <1>9, <1>10, <1>11, <1>12, <1>13, LocalKeeps

\* The task fails: nil is sent, and what was sent before is left as it was.
LEMMA ErrorNode ==
  ASSUME ControlInv, DataType, DataType', NEW n \in Node, TaskError(n),
         NEW rd \in [Node -> Nat], NEW taken \in [Chan -> Nat], Fresh(rd, taken)
  PROVE  Fresh(rd, taken)'
<1>0. /\ n \in Agent /\ n \notin Client /\ Producer(n) /\ rd[n] \in Nat
      /\ NodeIn(rd, taken, n) /\ NodeOut(rd, n)
      /\ \A i \in DOMAIN Outs[n] : Outs[n][i] \in Stream /\ Outs[n][i] \in Range(Outs[n])
  BY NodeFacts
<1>1. /\ closed' = closed /\ script' = script
      /\ \A a \in Agent \ {n} :
           pc'[a] = pc[a] /\ item'[a] = item[a] /\ dest'[a] = dest[a]
  BY QuietFacts DEF QuietStep
<1>2. /\ pc[n] = "read" /\ pc'[n] = "send" /\ item'[n] = 1 /\ Reset(n)
      /\ UNCHANGED <<acc, allok, added, got>>
  BY <1>0 DEF TaskError, StartSend, Goto, api, ControlInv, ControlType
<1>3. ASSUME NEW a \in Agent PROVE HeldKept(a, rd, rd)
  <2> SUFFICES ASSUME NEW s \in Stream, NEW b \in Nat, AtLeast(slot, rd, held[a][s], s, b)
               PROVE  AtLeast(slot', rd, held'[a][s], s, b)
    BY DEF HeldKept
  <2>1. CASE s \in Range(Outs[n])
    <3>1. held'[a][s] = Freeze(held[a][s], s)
      BY <1>2, <2>1 DEF Reset
    <3> QED BY <3>1, AtLeastFreeze
  <2>2. CASE s \notin Range(Outs[n])
    <3>1. held'[a][s] = held[a][s] /\ slot'[s] = slot[s]
      BY <1>2, <2>2 DEF Reset
    <3> QED BY <3>1 DEF AtLeast
  <2> QED BY <2>1, <2>2
<1>4. QueueKept(rd, rd)
  <2> SUFFICES ASSUME NEW x \in Chan
               PROVE  /\ DOMAIN ch'[x] = DOMAIN ch[x] /\ Len(ch'[x]) = Len(ch[x])
                      /\ \A k \in DOMAIN ch[x] : \A b \in Nat :
                           AtLeast(slot, rd, ch[x][k], x[2], b)
                             => AtLeast(slot', rd, ch'[x][k], x[2], b)
    BY DEF QueueKept
  <2>0. x[2] \in Stream /\ ch[x] \in Seq(Entry) /\ ch'[x] \in Seq(Entry)
    BY DEF Chan, DataType
  <2>1. CASE x[2] \in Range(Outs[n])
    <3>1. ch'[x] = [k \in DOMAIN ch[x] |-> Freeze(ch[x][k], x[2])]
      BY <1>2, <2>1 DEF Reset
    <3>2. DOMAIN ch'[x] = DOMAIN ch[x] /\ \A k \in DOMAIN ch[x] : ch'[x][k] = Freeze(ch[x][k], x[2])
      BY <3>1
    <3>3. Len(ch'[x]) = Len(ch[x])
      BY <2>0, <3>2
    <3> QED BY <3>2, <3>3, AtLeastFreeze
  <2>2. CASE x[2] \notin Range(Outs[n])
    <3>1. ch'[x] = ch[x] /\ slot'[x[2]] = slot[x[2]]
      BY <1>2, <2>0, <2>2 DEF Reset
    <3> QED BY <3>1 DEF AtLeast
  <2> QED BY <2>1, <2>2
<1>5. OnlyNode(n)
  <2>1. ASSUME NEW m \in Node \ {n}, NEW r \in Range(Outs[m]) PROVE slot'[r] = slot[r]
    <3>1. r \notin Range(Outs[n])
      BY <2>1, OwnOutputs
    <3>2. r \in Stream
      BY GraphAssumption DEF Range
    <3> QED BY <1>2, <3>1, <3>2 DEF Reset
  <2> QED BY <1>1, <1>2, <2>1 DEF OnlyNode
<1>6. NodeIn(rd, taken, n)'
  BY <1>0, <1>2 DEF NodeIn
<1>7. NodeOut(rd, n)'
  <2>1. \A i \in DOMAIN Outs[n] : slot'[Outs[n][i]] = {}
    BY <1>0, <1>2 DEF Reset
  <2> QED BY <1>2, <2>1 DEF NodeOut
<1>8. ASSUME NEW r \in StreamsOf(n), NEW j \in DOMAIN Consumers(n, r)
      PROVE  PaceOf(rd, taken, n, r, j)'
  <2>1. PaceOf(rd, taken, n, r, j)
    BY <1>0 DEF Fresh, Pace
  <2>2. \A y \in Chan : Sent(taken, y)' = Sent(taken, y)
    BY <1>4 DEF Sent, QueueKept
  <2>3. Owes(n, r, j)' => Owes(n, r, j)
    BY <1>2 DEF Owes
  <2> QED BY <1>0, <1>2, <2>1, <2>2, <2>3, PaceFrame
<1>9. item'[n] >= 1
  BY <1>2
<1> QED BY <1>1, <1>3, <1>4, <1>5, <1>6, <1>7, <1>8, <1>9, LocalKeeps

\* The datum of the round is sent, by a node or by AddGraphInputData.
LEMMA SentKeeps ==
  ASSUME ControlInv, DataType, \A f \in Scripts : Orderly(f),
         NEW a \in Agent, Producer(a), NEW s \in StreamsOf(a), NEW e \in Entry,
         SendTo(a, s, e), ~ closed[<<Consumers(a, s)[dest[a]], s>>],
         NEW rd \in [Node -> Nat], NEW taken \in [Chan -> Nat], Fresh(rd, taken),
         \A d \in DOMAIN Consumers(a, s) :
           dest[a] = d /\ dest'[a] = d + 1 /\ pc' = pc /\ item' = item /\ script' = script
             => Owes(a, s, d) /\ ~ Owes(a, s, d)',
         Made(rd, a, s) \in Nat, AtLeast(slot, rd, e, s, Made(rd, a, s))
  PROVE  Fresh(rd, taken)'
<1> DEFINE x == <<Consumers(a, s)[dest[a]], s>>
<1>0. /\ Pace(rd, taken) /\ Queued(rd, taken) /\ Works(rd, taken) /\ Answered(rd, taken)
      /\ \A y \in Chan : taken[y] <= taken[y]
  BY DEF Fresh
<1>1. /\ dest[a] \in DOMAIN Consumers(a, s)
      /\ ch' = [ch EXCEPT ![x] = Append(@, e)] /\ dest' = [dest EXCEPT ![a] = @ + 1]
      /\ UNCHANGED <<pc, item, script, slot, held, allok, acc, added, got, closed>>
  BY DEF SendTo, task, api
<1>2. PICK d \in DOMAIN Consumers(a, s) : d = dest[a]
  BY <1>1
<1>3. dest'[a] = d + 1
  BY <1>1, <1>2 DEF ControlInv, ControlType
<1>4. Owes(a, s, d) /\ ~ Owes(a, s, d)'
  BY <1>1, <1>2, <1>3
<1>5. Pace(rd, taken)' /\ Queued(rd, taken)'
  BY <1>0, <1>1, <1>2, <1>4, SendKeeps
<1>6. \A b \in Agent : HeldKept(b, rd, rd)
  BY <1>1 DEF HeldKept
<1>7. Works(rd, taken)'
  <2> SUFFICES ASSUME NEW m \in Node
               PROVE  item'[m] >= 1 /\ NodeIn(rd, taken, m)' /\ NodeOut(rd, m)'
    BY DEF Works
  <2>1. item[m] >= 1 /\ NodeIn(rd, taken, m) /\ NodeOut(rd, m) /\ HeldKept(m, rd, rd)
    BY <1>0, <1>6 DEF Works, Agent
  <2>2. NodeIn(rd, taken, m)' /\ NodeOut(rd, m)'
    BY <1>0, <1>1, <2>1, NodeFrame
  <2> QED BY <1>1, <2>1, <2>2
<1>8. Answered(rd, taken)'
  <2> SUFFICES ASSUME NEW r \in GOut PROVE AnswerOf(rd, taken, r)'
    BY DEF Answered
  <2>1. AnswerOf(rd, taken, r) /\ <<Sink, r>> \in Chan
    BY <1>0, GraphAssumption DEF Answered, Chan, Manager
  <2>2. Drained(r) => Drained(r)'
    BY <1>1, <2>1 DEF Drained, DataType
  <2>3. \A c \in Client : pc'[c] = "got" /\ script[c][item'[c]].s = r =>
          pc[c] = "got" /\ item'[c] = item[c] /\ HeldKept(c, rd, rd)
    BY <1>1, <1>6 DEF Agent
  <2> QED BY <1>0, <1>1, <2>1, <2>2, <2>3, AnswerFrame
<1> QED BY <1>5, <1>7, <1>8 DEF Fresh

\* A node sends what it computed: by pointer to the first consumer.
LEMMA SendNode ==
  ASSUME ControlInv, DataType, \A f \in Scripts : Orderly(f), NEW n \in Node, Send(n),
         NEW rd \in [Node -> Nat], NEW taken \in [Chan -> Nat], Fresh(rd, taken)
  PROVE  Fresh(rd, taken)'
<1>0. /\ n \in Agent /\ Producer(n) /\ StreamsOf(n) = Range(Outs[n])
      /\ item[n] \in Nat /\ dest[n] \in Nat /\ rd[n] \in Nat /\ NodeOut(rd, n)
      /\ DOMAIN Outs[n] = 1 .. Len(Outs[n]) /\ Len(Outs[n]) \in Nat
      /\ \A i \in DOMAIN Outs[n] : Outs[n][i] \in Stream /\ Outs[n][i] \in Range(Outs[n])
  BY NodeFacts
<1>1. PICK i \in DOMAIN Outs[n] : i = item[n]
  BY DEF Send
<1>2. PICK s \in Range(Outs[n]) : s = Outs[n][i]
  BY <1>0
<1>3. PICK e : e = IF dest[n] = 1 THEN [alias |-> TRUE, d |-> {}]
                                  ELSE [alias |-> FALSE, d |-> slot[s]]
  OBVIOUS
<1>4. pc[n] = "send" /\ SendTo(n, s, e)
  BY <1>1, <1>2, <1>3 DEF Send
<1>5. s \in Stream /\ e \in Entry
  BY <1>0, <1>2, <1>3 DEF DataType, Entry, Datum
<1>6. \A r \in slot[s] : r >= rd[n]
  BY <1>0, <1>2, <1>4 DEF NodeOut
<1>7. AtLeast(slot, rd, e, s, rd[n])
  <2>1. ASSUME NEW m \in Node, s \in Range(Outs[m]) PROVE rd[n] <= rd[m]
    <3>1. m = n
      BY <2>1, OwnOutputs
    <3> QED BY <1>0, <3>1
  <2>2. CASE dest[n] = 1
    BY <1>3, <1>6, <2>1, <2>2 DEF AtLeast
  <2>3. CASE dest[n] # 1
    BY <1>3, <1>6, <2>3 DEF AtLeast
  <2> QED BY <2>2, <2>3
<1>8. dest[n] \in DOMAIN Consumers(n, s)
  BY <1>4 DEF SendTo
<1>9. ~ closed[<<Consumers(n, s)[dest[n]], s>>]
  BY <1>0, <1>4, <1>8, NotYetClosed
<1>10. ASSUME NEW d \in DOMAIN Consumers(n, s), dest[n] = d, dest'[n] = d + 1,
              pc' = pc, item' = item
       PROVE  Owes(n, s, d) /\ ~ Owes(n, s, d)'
  <2>1. d \in Nat /\ IsInjective(Outs[n])
    BY <1>0, <1>10, WiringAssumption DEF SingleWriter
  <2>2. Owes(n, s, d)
    BY <1>0, <1>1, <1>2, <1>4, <1>10, <2>1 DEF Owes
  <2>3. \A k \in DOMAIN Outs[n] : Outs[n][k] = s => k = i
    BY <1>2, <2>1 DEF IsInjective
  <2>4. ~ (item[n] < i) /\ ~ (d + 1 <= d)
    BY <1>0, <1>1, <2>1
  <2>5. ~ Owes(n, s, d)'
    BY <1>4, <1>10, <2>3, <2>4 DEF Owes
  <2> QED BY <2>2, <2>5
<1>11. Made(rd, n, s) = rd[n]
  BY DEF Made
<1> QED BY <1>0, <1>4, <1>5, <1>7, <1>9, <1>10, <1>11, SentKeeps

-----------------------------------------------------------------------------
(* The steps of the clients.                                               *)

\* Client c moves, and no task does; Run starts the nodes.
OnlyClient(c) ==
  /\ script' = script /\ UNCHANGED <<slot, allok, acc>>
  /\ \A a \in Agent \ {c} :
       /\ pc'[a] = pc[a] \/ (a \in Node /\ pc[a] = "idle" /\ pc'[a] = "start")
       /\ item'[a] = item[a] /\ dest'[a] = dest[a] /\ held'[a] = held[a]

\* The nodes' part of the invariant is kept by every call,
LEMMA ClientWorks ==
  ASSUME NEW c \in Client, OnlyClient(c),
         NEW rd \in [Node -> Nat], NEW taken \in [Chan -> Nat], NEW t \in [Chan -> Nat],
         \A x \in Chan : taken[x] <= t[x], Works(rd, taken)
  PROVE  Works(rd, t)'
<1> SUFFICES ASSUME NEW m \in Node
             PROVE  item'[m] >= 1 /\ NodeIn(rd, t, m)' /\ NodeOut(rd, m)'
  BY DEF Works
<1>1. item[m] >= 1 /\ NodeIn(rd, taken, m) /\ NodeOut(rd, m)
  BY DEF Works
<1>2. /\ pc'[m] = pc[m] \/ (pc[m] = "idle" /\ pc'[m] = "start")
      /\ item'[m] = item[m] /\ held'[m] = held[m] /\ slot' = slot
      /\ allok' = allok /\ acc' = acc
  BY GraphAssumption DEF OnlyClient, Agent
<1>3. CASE pc'[m] = pc[m]
  <2>1. HeldKept(m, rd, rd)
    BY <1>2 DEF HeldKept
  <2> QED BY <1>1, <1>2, <1>3, <2>1, NodeFrame
<1>4. CASE pc'[m] = "start"
  <2>1. ASSUME NEW j \in DOMAIN Ins[m] PROVE t[<<m, Ins[m][j]>>] >= rd[m]
    <3>1. <<m, Ins[m][j]>> \in Chan
      BY InputChannel
    <3>2. taken[<<m, Ins[m][j]>>] >= rd[m] /\ taken[<<m, Ins[m][j]>>] \in Nat
          /\ t[<<m, Ins[m][j]>>] \in Nat /\ rd[m] \in Nat
          /\ taken[<<m, Ins[m][j]>>] <= t[<<m, Ins[m][j]>>]
      BY <1>1, <3>1 DEF NodeIn
    <3> QED BY ONLY <3>2
  <2> QED BY <1>1, <1>2, <1>4, <2>1 DEF NodeIn, NodeOut
<1> QED BY <1>2, <1>3, <1>4

\* and the pace by every call that sends nothing,
LEMMA ClientPace ==
  ASSUME NEW c \in Client, OnlyClient(c), added' = added,
         NEW rd \in [Node -> Nat], NEW taken \in [Chan -> Nat], NEW t \in [Chan -> Nat],
         SameSent(taken, t), Pace(rd, taken),
         pc'[c] # "add" \/ (pc'[c] = pc[c] /\ item'[c] = item[c] /\ dest'[c] = dest[c])
  PROVE  Pace(rd, t)'
<1> SUFFICES ASSUME NEW a \in Agent, Producer(a)', NEW s \in StreamsOf(a),
                    NEW j \in DOMAIN Consumers(a, s)
             PROVE  PaceOf(rd, t, a, s, j)'
  BY DEF Pace, StreamsOf
<1>1. Producer(a) /\ script' = script
  BY DEF OnlyClient, Producer, Writes
<1>2. PaceOf(rd, taken, a, s, j)
  BY <1>1 DEF Pace
<1>3. Owes(a, s, j)' => Owes(a, s, j)
  <2>1. CASE a = c
    BY <1>1, <2>1, OwesFrame, GraphAssumption DEF Owes
  <2>2. CASE a # c /\ pc'[a] = pc[a]
    BY <1>1, <2>2, OwesFrame DEF OnlyClient
  <2>3. CASE a # c /\ pc'[a] = "start"
    BY <2>3 DEF Owes
  <2> QED BY <2>1, <2>2, <2>3 DEF OnlyClient
<1> QED BY <1>1, <1>2, <1>3, PaceFrame DEF SameSent

\* and the answers by every call that is not GetGraphOutputData.
LEMMA ClientAnswers ==
  ASSUME DataType, NEW c \in Client, OnlyClient(c), got' = got, pc'[c] # "got",
         NEW rd \in [Node -> Nat], NEW taken \in [Chan -> Nat], NEW t \in [Chan -> Nat],
         \A x \in Chan : taken[x] <= t[x],
         \A s \in GOut : Drained(s) => Drained(s)', Answered(rd, taken)
  PROVE  Answered(rd, t)'
<1> SUFFICES ASSUME NEW s \in GOut PROVE AnswerOf(rd, t, s)'
  BY DEF Answered
<1>1. AnswerOf(rd, taken, s) /\ script' = script
  BY DEF Answered, OnlyClient
<1>2. \A e \in Client : pc'[e] = "got" /\ script[e][item'[e]].s = s =>
        pc[e] = "got" /\ item'[e] = item[e] /\ HeldKept(e, rd, rd)
  BY GraphAssumption DEF OnlyClient, HeldKept, Agent
<1> QED BY <1>1, <1>2, AnswerFrame

\* The calls that move no datum.
LEMMA CalmClient ==
  ASSUME ControlInv, ControlInv', DataType, DataType', NEW c \in Client,
         NEW rd \in [Node -> Nat], NEW taken \in [Chan -> Nat], Fresh(rd, taken),
         \/ Run(c) \/ AddReturn(c) \/ Destroy(c) \/ InputsClosed(c) \/ StopNode(c)
         \/ SetStop(c) \/ WaitAll(c) \/ PickStream(c) \/ CloseChannel(c) \/ NextStream(c)
         \/ Drain(c) /\ ch' = ch
  PROVE  Fresh(rd, taken)'
<1>0. /\ c \in Agent /\ c \notin Node /\ pc'[c] # "dead"
      /\ item \in [Agent -> Nat] /\ pc \in [Agent -> NodePc \cup ClientPc]
      /\ dest \in [Agent -> Nat] /\ closed \in [Chan -> BOOLEAN]
      /\ ready => \A n \in Node : pc[n] = "idle"
  BY GraphAssumption DEF ControlInv, ControlType, PcInv, Agent
<1>1. ~ Panic
  BY <1>0 DEF Panic
<1>2. /\ UNCHANGED <<ch, slot, held, acc, allok, added, got, script>>
      /\ \A x \in Chan : closed[x] => closed'[x]
      /\ \A a \in Agent \ {c} : item'[a] = item[a] /\ dest'[a] = dest[a]
  BY <1>0, <1>1 DEF Run, AddReturn, Destroy, InputsClosed, StopNode, SetStop, WaitAll,
                    PickStream, CloseChannel, NextStream, Drain, Return, Goto,
                    chans, local, task, api, ctl
<1>3. \A a \in Agent \ {c} :
        pc'[a] = pc[a] \/ (a \in Node /\ pc[a] = "idle" /\ pc'[a] = "start")
  BY <1>0, <1>1 DEF Run, AddReturn, Destroy, InputsClosed, StopNode, SetStop, WaitAll,
                    PickStream, CloseChannel, NextStream, Drain, Return, Goto
<1>4. pc'[c] # "add" /\ pc'[c] # "got"
  BY <1>0, <1>1 DEF Run, AddReturn, Destroy, InputsClosed, StopNode, SetStop, WaitAll,
                    PickStream, CloseChannel, NextStream, Drain, Return, Goto, Calls
<1>5. OnlyClient(c) /\ SameSent(taken, taken) /\ \A x \in Chan : taken[x] <= taken[x]
  BY <1>2, <1>3 DEF OnlyClient, SameSent, Sent
<1>6. \A s \in GOut : Drained(s) => Drained(s)'
  BY <1>2, DrainedFrame
<1>7. Queued(rd, taken)'
  BY <1>2 DEF Fresh, Queued
<1>8. Works(rd, taken)'
  BY <1>5, ClientWorks DEF Fresh
<1>9. Pace(rd, taken)'
  BY <1>2, <1>4, <1>5, ClientPace DEF Fresh
<1>10. Answered(rd, taken)'
  BY <1>2, <1>4, <1>5, <1>6, ClientAnswers DEF Fresh
<1> QED BY <1>7, <1>8, <1>9, <1>10 DEF Fresh

\* The stream of a client's call.
LEMMA CallStream ==
  ASSUME ControlInv, NEW c \in Client, item[c] \in DOMAIN script[c]
  PROVE  /\ script[c][item[c]].op = "add" => script[c][item[c]].s \in GIn
         /\ script[c][item[c]].op = "get" => script[c][item[c]].s \in GOut
<1>1. script[c] \in Seq(Op)
  BY GraphAssumption DEF ControlInv, ControlType
<1>2. script[c][item[c]] \in Op
  BY <1>1
<1> QED BY <1>2 DEF Op

\* AddGraphInputData begins a round of its stream,
LEMMA AddCallKeeps ==
  ASSUME ControlInv, DataType, NEW c \in Client, AddCall(c),
         NEW rd \in [Node -> Nat], NEW taken \in [Chan -> Nat], Fresh(rd, taken)
  PROVE  Fresh(rd, taken)'
<1>0. /\ c \in Agent /\ c \notin Node /\ item[c] \in DOMAIN script[c]
      /\ pc \in [Agent -> NodePc \cup ClientPc] /\ dest \in [Agent -> Nat]
      /\ script[c][item[c]].op = "add"
  BY GraphAssumption DEF ControlInv, ControlType, Agent, AddCall, Calls
<1>1. PICK s \in GIn : s = script[c][item[c]].s
  BY <1>0, CallStream
<1>2. /\ added' = [added EXCEPT ![s] = @ + 1] /\ added[s] \in Nat
      /\ added'[s] = added[s] + 1 /\ \A r \in GIn \ {s} : added'[r] = added[r]
      /\ UNCHANGED <<ch, closed, slot, held, allok, acc, got, script, item>>
      /\ pc'[c] = "add"
      /\ \A a \in Agent \ {c} : pc'[a] = pc[a] /\ dest'[a] = dest[a]
  BY <1>0, <1>1 DEF AddCall, Goto, chans, task, DataType
<1>3. OnlyClient(c) /\ \A x \in Chan : taken[x] <= taken[x]
  BY <1>2 DEF OnlyClient
<1>4. Queued(rd, taken)'
  BY <1>2 DEF Fresh, Queued
<1>5. Works(rd, taken)'
  BY <1>3, ClientWorks DEF Fresh
<1>6. \A r \in GOut : Drained(r) => Drained(r)'
  BY <1>2 DEF Drained
<1>7. Answered(rd, taken)'
  BY <1>2, <1>3, <1>6, ClientAnswers DEF Fresh
<1>8. Pace(rd, taken)'
  <2> SUFFICES ASSUME NEW a \in Agent, Producer(a)', NEW r \in StreamsOf(a),
                      NEW j \in DOMAIN Consumers(a, r)
               PROVE  PaceOf(rd, taken, a, r, j)'
    BY DEF Pace, StreamsOf
  <2> DEFINE y == <<Consumers(a, r)[j], r>>
  <2>1. Producer(a)
    BY <1>2 DEF Producer, Writes
  <2>2. PaceOf(rd, taken, a, r, j) /\ Sent(taken, y)' = Sent(taken, y)
    BY <1>2, <2>1 DEF Fresh, Pace, Sent
  <2>3. CASE a \notin Node /\ r = s
    <3>1. y \in Chan
      BY StreamsType, Channels
    <3>2. ch[y] \in Seq(Entry) /\ taken[y] \in Nat
      BY <3>1 DEF DataType
    <3>3. Sent(taken, y) \in Nat
      BY <3>2 DEF Sent
    <3>4. Sent(taken, y) <= added[s] /\ Made(rd, a, r)' = added[s] + 1
      BY <1>2, <2>2, <2>3 DEF PaceOf, Made
    <3>5. Sent(taken, y) <= added[s] + 1 /\ Sent(taken, y) < added[s] + 1
      BY ONLY <1>2, <3>3, <3>4
    <3> QED BY <2>2, <3>4, <3>5 DEF PaceOf
  <2>4. CASE a \in Node \/ r # s
    <3>1. Made(rd, a, r)' = Made(rd, a, r)
      BY <1>2, <2>4 DEF Made, StreamsOf
    <3>2. Owes(a, r, j)' => Owes(a, r, j)
      <4>1. CASE a = c
        BY <1>0, <1>1, <1>2, <2>4, <4>1 DEF Owes
      <4>2. CASE a # c
        BY <1>2, <4>2, OwesFrame
      <4> QED BY <4>1, <4>2
    <3> QED BY <2>2, <3>1, <3>2 DEF PaceOf
  <2> QED BY <2>3, <2>4
<1> QED BY <1>4, <1>5, <1>7, <1>8 DEF Fresh

\* and sends its datum to the consumers, once each.
LEMMA AddSendKeeps ==
  ASSUME ControlInv, DataType, \A f \in Scripts : Orderly(f), NEW c \in Client, AddSend(c),
         NEW rd \in [Node -> Nat], NEW taken \in [Chan -> Nat], Fresh(rd, taken)
  PROVE  Fresh(rd, taken)'
<1>0. /\ c \in Agent /\ c \notin Node /\ script \in Scripts /\ Orderly(script)
      /\ pc[c] = "add" /\ item[c] \in DOMAIN script[c] /\ script[c][item[c]].op = "add"
  BY GraphAssumption DEF ControlInv, ControlType, PcInv, Agent, AddSend
<1>1. PICK s \in GIn : s = script[c][item[c]].s
  BY <1>0, CallStream
<1>2. s \in StreamsOf(c) /\ s \in Stream /\ added[s] \in Nat
  BY <1>0, GraphAssumption DEF StreamsOf, DataType
<1>3. PICK e : e = [alias |-> FALSE, d |-> {added[s]}]
  OBVIOUS
<1>4. SendTo(c, s, e) /\ e \in Entry
  BY <1>1, <1>2, <1>3 DEF AddSend, Entry, Datum
<1>5. Producer(c) /\ ~ InDestroy(c) /\ ~ AfterDestroy(c)
  <2>1. Writes(script, c)
    BY <1>0 DEF Writes
  <2>2. ~ AfterDestroy(c)
    BY <1>0 DEF AfterDestroy, Orderly
  <2> QED BY <1>0, <2>1, <2>2 DEF Producer, InDestroy
<1>6. dest[c] \in DOMAIN Consumers(c, s)
  BY <1>4 DEF SendTo
<1>7. ~ closed[<<Consumers(c, s)[dest[c]], s>>]
  BY <1>0, <1>2, <1>5, <1>6, NotYetClosed
<1>8. ASSUME NEW d \in DOMAIN Consumers(c, s), dest[c] = d, dest'[c] = d + 1,
             pc' = pc, item' = item, script' = script
      PROVE  Owes(c, s, d) /\ ~ Owes(c, s, d)'
  <2>1. d \in Nat
    BY <1>0, <1>8 DEF ControlInv, ControlType
  <2>2. d <= d /\ ~ (d + 1 <= d)
    BY <2>1
  <2> QED BY <1>0, <1>1, <1>8, <2>2 DEF Owes
<1>9. Made(rd, c, s) = added[s] /\ AtLeast(slot, rd, e, s, added[s])
  BY <1>0, <1>2, <1>3 DEF Made, AtLeast
<1> QED BY <1>0, <1>2, <1>4, <1>5, <1>7, <1>8, <1>9, SentKeeps

\* Destroy drains the graph's input channels.
LEMMA DrainClient ==
  ASSUME ControlInv, DataType, DataType', NEW c \in Client, Drain(c), ch' # ch,
         NEW rd \in [Node -> Nat], NEW taken \in [Chan -> Nat], Fresh(rd, taken)
  PROVE  \E t \in [Chan -> Nat] : Fresh(rd, t)'
<1>0. /\ c \in Agent /\ pc[c] = "drain" /\ cur[c] \in StreamsOf(c)
      /\ dest[c] \in DOMAIN Consumers(c, cur[c])
  BY DEF Agent, Drain, ControlInv, PcInv
<1>1. <<Consumers(c, cur[c])[dest[c]], cur[c]>> \in Chan
  BY <1>0, StreamsType, Channels
<1>2. PICK x \in Chan : x = <<Consumers(c, cur[c])[dest[c]], cur[c]>>
  BY <1>1
<1>3. /\ ch[x] # << >> /\ ch' = [ch EXCEPT ![x] = Tail(@)]
      /\ UNCHANGED <<pc, dest, closed, item, slot, held, allok, acc, added, got, script>>
  BY <1>2 DEF Drain, task, api
<1>4. PICK t \in [Chan -> Nat] : t = [taken EXCEPT ![x] = @ + 1]
  BY CountUp
<1>5. OnlyClient(c)
  BY <1>3 DEF OnlyClient
<1>6. Queued(rd, t)' /\ SameSent(taken, t)
  BY <1>3, <1>4, TakeKeeps DEF Fresh
<1>7. \A y \in Chan : taken[y] <= t[y]
  BY <1>6 DEF SameSent
<1>8. Works(rd, t)'
  BY <1>5, <1>7, ClientWorks DEF Fresh
<1>9. Pace(rd, t)'
  BY <1>0, <1>3, <1>5, <1>6, ClientPace DEF Fresh
<1>10. \A s \in GOut : Drained(s) => Drained(s)'
  <2> SUFFICES ASSUME NEW s \in GOut, Drained(s) PROVE Drained(s)'
    OBVIOUS
  <2>1. <<Sink, s>> \in Chan
    BY GraphAssumption DEF Chan, Manager
  <2> QED BY <1>3, <2>1 DEF Drained, DataType
<1>11. Answered(rd, t)'
  BY <1>0, <1>3, <1>5, <1>7, <1>10, ClientAnswers DEF Fresh
<1>12. Fresh(rd, t)'
  BY <1>6, <1>8, <1>9, <1>11 DEF Fresh
<1> QED BY <1>12

\* Two clients do not wait for answers of one output.
LEMMA Reader ==
  ASSUME ControlInv, \A f \in Scripts : OneReader(f), NEW c \in Client, NEW e \in Client,
         item[c] \in DOMAIN script[c], script[c][item[c]].op = "get",
         item[e] \in DOMAIN script[e], script[e][item[e]].op = "get",
         script[c][item[c]].s = script[e][item[e]].s
  PROVE  e = c
<1>1. OneReader(script)
  BY DEF ControlInv, ControlType
<1> QED BY <1>1 DEF OneReader

\* GetGraphOutputData takes the entry of the round of its answer,
LEMMA GetKeeps ==
  ASSUME ControlInv, DataType, DataType', \A f \in Scripts : OneReader(f),
         NEW c \in Client, Get(c),
         NEW rd \in [Node -> Nat], NEW taken \in [Chan -> Nat], Fresh(rd, taken)
  PROVE  \E t \in [Chan -> Nat] : Fresh(rd, t)'
<1>0. /\ c \in Agent /\ item[c] \in DOMAIN script[c] /\ script[c][item[c]].op = "get"
      /\ pc[c] = "call" /\ pc \in [Agent -> NodePc \cup ClientPc]
      /\ held \in [Agent -> [Stream -> Entry]]
  BY DEF ControlInv, ControlType, DataType, Agent, Get, Calls
<1>1. PICK s \in GOut : s = script[c][item[c]].s
  BY <1>0, CallStream
<1>2. s \in Stream /\ <<Sink, s>> \in Chan
  BY GraphAssumption DEF Chan, Manager
<1>3. PICK x \in Chan : x = <<Sink, s>>
  BY <1>2
<1>4. /\ ch[x] # << >> /\ ch' = [ch EXCEPT ![x] = Tail(@)]
      /\ held' = [held EXCEPT ![c][s] = Head(ch[x])]
      /\ pc' = [pc EXCEPT ![c] = "got"]
      /\ UNCHANGED <<closed, item, dest, slot, allok, acc, added, got, script>>
  BY <1>1, <1>3 DEF Get, Goto, local, api
<1>5. PICK t \in [Chan -> Nat] : t = [taken EXCEPT ![x] = @ + 1]
  BY CountUp
<1>6. OnlyClient(c) /\ held'[c][s] = Head(ch[x]) /\ pc'[c] = "got"
  BY <1>0, <1>2, <1>4 DEF OnlyClient
<1>7. /\ Queued(rd, t)' /\ SameSent(taken, t)
      /\ AtLeast(slot, rd, Head(ch[x]), x[2], taken[x] + 1)
  BY <1>4, <1>5, TakeKeeps DEF Fresh
<1>8. \A y \in Chan : taken[y] <= t[y]
  BY <1>7 DEF SameSent
<1>9. Works(rd, t)'
  BY <1>6, <1>8, ClientWorks DEF Fresh
<1>10. Pace(rd, t)'
  BY <1>4, <1>6, <1>7, ClientPace DEF Fresh
<1>11. ASSUME NEW r \in GOut, r # s PROVE AnswerOf(rd, t, r)'
  <2>1. AnswerOf(rd, taken, r) /\ <<Sink, r>> \in Chan /\ <<Sink, r>> # x
    BY <1>3, <1>11, GraphAssumption DEF Fresh, Answered, Chan, Manager
  <2>2. Drained(r) => Drained(r)'
    BY <1>4, <2>1 DEF Drained, DataType
  <2>3. \A e \in Client : pc'[e] = "got" /\ script[e][item'[e]].s = r =>
          pc[e] = "got" /\ item'[e] = item[e] /\ HeldKept(e, rd, rd)
    BY <1>1, <1>4, <1>6, <1>11 DEF OnlyClient, HeldKept, Agent
  <2> QED BY <1>4, <1>8, <2>1, <2>2, <2>3, AnswerFrame
<1>12. AnswerOf(rd, t, s)'
  <2>1. /\ ~ Drained(s) /\ AnswerOf(rd, taken, s)
    BY <1>3, <1>4 DEF Drained, Fresh, Answered
  <2>2. /\ \A k \in DOMAIN got[s] : \A r \in got[s][k].d : r >= k
        /\ taken[x] >= Len(got[s]) /\ Len(got[s]) \in Nat /\ taken[x] \in Nat
        /\ t[x] = taken[x] + 1
    BY <1>3, <1>5, <2>1 DEF AnswerOf, DataType
  <2>3. /\ t[x] > Len(got[s]) /\ t[x] >= Len(got[s])
        /\ Len(got[s]) + 1 \in Nat /\ taken[x] + 1 \in Nat /\ Len(got[s]) + 1 <= taken[x] + 1
    BY <2>2
  <2>4. Head(ch[x]) \in Entry
    BY <1>4, HeadTailProperties DEF DataType
  <2>5. AtLeast(slot, rd, Head(ch[x]), s, Len(got[s]) + 1)
    BY <1>2, <1>3, <1>7, <2>3, <2>4, AtLeastLess
  <2>6. ASSUME NEW e \in Client, pc'[e] = "got", script[e][item[e]].s = s PROVE e = c
    <3>1. CASE e # c
      <4>1. pc[e] = "got"
        BY <1>4, <2>6, <3>1 DEF ControlInv, ControlType
      <4>2. item[e] \in DOMAIN script[e] /\ script[e][item[e]].op = "get"
        BY <4>1 DEF ControlInv, PcInv
      <4> QED BY <1>0, <1>1, <2>6, <4>2, Reader
    <3> QED BY <3>1
  <2>7. \A e \in Client : pc'[e] = "got" /\ script[e][item[e]].s = s =>
          AtLeast(slot, rd, held'[e][s], s, Len(got[s]) + 1)
    BY <1>6, <2>5, <2>6
  <2> QED BY <1>3, <1>4, <2>2, <2>3, <2>7 DEF AnswerOf
<1>13. Answered(rd, t)'
  BY <1>11, <1>12 DEF Answered
<1>14. Fresh(rd, t)'
  BY <1>7, <1>9, <1>10, <1>13 DEF Fresh
<1> QED BY <1>14

\* and answers with what the object holds by then, or with an error.
LEMMA AnswerKeeps ==
  ASSUME ControlInv, DataType, \A f \in Scripts : OneReader(f),
         NEW c \in Client, GetReturn(c) \/ GetClosed(c),
         NEW rd \in [Node -> Nat], NEW taken \in [Chan -> Nat], Fresh(rd, taken)
  PROVE  Fresh(rd, taken)'
<1>0. /\ c \in Agent /\ item[c] \in DOMAIN script[c] /\ script[c][item[c]].op = "get"
      /\ pc \in [Agent -> NodePc \cup ClientPc] /\ item \in [Agent -> Nat]
      /\ held \in [Agent -> [Stream -> Entry]]
  BY DEF ControlInv, ControlType, PcInv, DataType, Agent, GetReturn, GetClosed, Calls
<1>1. PICK s \in GOut : s = script[c][item[c]].s
  BY <1>0, CallStream
<1>2. s \in Stream /\ <<Sink, s>> \in Chan
  BY GraphAssumption DEF Chan, Manager
<1>3. PICK a : /\ a.d = IF pc[c] = "got" THEN Deref(held[c][s], s) ELSE {}
               /\ got' = [got EXCEPT ![s] = Append(@, a)] /\ a \in Result
  <2>1. CASE GetReturn(c)
    <3>1. Deref(held[c][s], s) \in Datum
      BY <1>0, <1>2, DerefType
    <3>2. [ok |-> TRUE, d |-> Deref(held[c][s], s)] \in Result
      BY <3>1 DEF Result
    <3>3. /\ pc[c] = "got"
          /\ got' = [got EXCEPT ![s] = Append(@, [ok |-> TRUE, d |-> Deref(held[c][s], s)])]
      BY <1>1, <2>1 DEF GetReturn, Answer
    <3> QED BY <3>2, <3>3
  <2>2. CASE GetClosed(c)
    <3>1. [ok |-> FALSE, d |-> {}] \in Result
      BY DEF Result, Datum
    <3>2. /\ pc[c] = "call" /\ got' = [got EXCEPT ![s] = Append(@, [ok |-> FALSE, d |-> {}])]
      BY <1>1, <2>2 DEF GetClosed, Answer, Calls
    <3> QED BY <3>1, <3>2
  <2> QED BY <2>1, <2>2
<1>4. /\ UNCHANGED <<ch, closed, slot, allok, acc, added, script, dest>>
      /\ pc' = [pc EXCEPT ![c] = "call"] /\ item' = [item EXCEPT ![c] = @ + 1]
      /\ \A e \in Agent \ {c} : held'[e] = held[e]
  BY <1>0 DEF GetReturn, GetClosed, Answer, Return, Goto, chans, task
<1>5. OnlyClient(c) /\ SameSent(taken, taken) /\ \A x \in Chan : taken[x] <= taken[x]
  BY <1>0, <1>4 DEF OnlyClient, SameSent, Sent
<1>6. Queued(rd, taken)'
  BY <1>4 DEF Fresh, Queued
<1>7. Works(rd, taken)'
  BY <1>5, ClientWorks DEF Fresh
<1>8. pc'[c] = "call"
  BY <1>0, <1>4
<1>9. Pace(rd, taken)'
  BY <1>4, <1>5, <1>8, ClientPace DEF Fresh
<1>10. ASSUME NEW r \in GOut, r # s PROVE AnswerOf(rd, taken, r)'
  <2>1. AnswerOf(rd, taken, r) /\ got'[r] = got[r] /\ (Drained(r) => Drained(r)')
    BY <1>3, <1>4, <1>10 DEF Fresh, Answered, DataType, Drained
  <2>2. \A e \in Client : pc'[e] = "got" /\ script[e][item'[e]].s = r =>
          pc[e] = "got" /\ item'[e] = item[e] /\ HeldKept(e, rd, rd)
    BY <1>4, <1>5, <1>8, GraphAssumption DEF OnlyClient, HeldKept, Agent
  <2> QED BY <1>4, <1>5, <2>1, <2>2, AnswerFrame
<1>11. AnswerOf(rd, taken, s)'
  <2>1. AnswerOf(rd, taken, s) /\ got[s] \in Seq(Result)
    BY DEF Fresh, Answered, DataType
  <2>2. /\ got'[s] = Append(got[s], a) /\ Len(got[s]) \in Nat
        /\ Len(got'[s]) = Len(got[s]) + 1 /\ DOMAIN got'[s] = 1 .. Len(got[s]) + 1
        /\ \A k \in 1 .. Len(got[s]) : got'[s][k] = got[s][k]
        /\ got'[s][Len(got[s]) + 1] = a /\ DOMAIN got[s] = 1 .. Len(got[s])
    <3>1. got'[s] = Append(got[s], a)
      BY <1>3 DEF DataType
    <3>2. /\ Append(got[s], a) \in Seq(Result) /\ Len(Append(got[s], a)) = Len(got[s]) + 1
          /\ \A k \in 1 .. Len(got[s]) : Append(got[s], a)[k] = got[s][k]
          /\ Append(got[s], a)[Len(got[s]) + 1] = a
      BY <1>3, <2>1, AppendProperties
    <3> QED BY <2>1, <3>1, <3>2
  <2>3. pc[c] = "got" =>
          /\ AtLeast(slot, rd, held[c][s], s, Len(got[s]) + 1)
          /\ Drained(s) \/ taken[<<Sink, s>>] > Len(got[s])
    BY <1>1, <2>1 DEF AnswerOf
  <2>4. \A r \in a.d : r >= Len(got[s]) + 1
    BY <1>3, <2>3 DEF AtLeast, Deref
  <2>5. ASSUME NEW k \in DOMAIN got'[s], NEW r \in got'[s][k].d PROVE r >= k
    <3>1. CASE k = Len(got[s]) + 1
      BY <2>2, <2>4, <2>5, <3>1
    <3>2. CASE k \in 1 .. Len(got[s])
      BY <2>1, <2>2, <2>5, <3>2 DEF AnswerOf
    <3> QED BY <2>2, <2>5, <3>1, <3>2
  <2>6. pc[c] # "got" => Drained(s)
    BY <1>1 DEF GetReturn, GetClosed, Drained
  <2>7. Drained(s)' \/ taken[<<Sink, s>>] >= Len(got'[s])
    <3>1. taken[<<Sink, s>>] \in Nat
      BY <1>2
    <3>2. Drained(s) \/ taken[<<Sink, s>>] > Len(got[s])
      BY <2>3, <2>6
    <3> QED BY <1>4, <2>2, <3>1, <3>2 DEF Drained
  <2>8. ASSUME NEW e \in Client, pc'[e] = "got", script[e][item'[e]].s = s PROVE FALSE
    <3>1. e # c
      BY <1>8, <2>8
    <3>2. pc[e] = "got" /\ item'[e] = item[e]
      BY <1>0, <1>4, <2>8, <3>1
    <3>3. item[e] \in DOMAIN script[e] /\ script[e][item[e]].op = "get"
      BY <3>2 DEF ControlInv, PcInv
    <3> QED BY <1>0, <1>1, <2>8, <3>1, <3>2, <3>3, Reader
  <2> QED BY <1>4, <2>5, <2>7, <2>8 DEF AnswerOf
<1>12. Answered(rd, taken)'
  BY <1>10, <1>11 DEF Answered
<1> QED BY <1>6, <1>7, <1>9, <1>12 DEF Fresh

\* Every step keeps the counters within their bounds.
LEMMA FreshKeeps ==
  ASSUME ControlInv, ControlInv', DataType, DataType', [Next]_vars, FreshInv,
         \A f \in Scripts : Orderly(f) /\ OneReader(f)
  PROVE  FreshInv'
<1>1. PICK rd \in [Node -> Nat] : \E taken \in [Chan -> Nat] : Fresh(rd, taken)
  BY DEF FreshInv
<1>2. PICK taken \in [Chan -> Nat] : Fresh(rd, taken)
  BY <1>1
<1>3. (\E t \in [Chan -> Nat] : Fresh(rd, t)') => FreshInv'
  BY DEF FreshInv
<1>4. Fresh(rd, taken)' => FreshInv'
  BY <1>3
<1>5. ASSUME NEW n \in Node, Execute(n) PROVE FreshInv'
  <2>1. CASE \/ Start(n) \/ Continue(n) \/ Compute(n) \/ SendNext(n)
             \/ Write(n) /\ item[n] \notin DOMAIN Outs[n]
    BY <1>2, <1>4, <2>1, CalmNode
  <2>2. CASE \/ Break(n) \/ PickStream(n) \/ CloseChannel(n) \/ NextStream(n) \/ Exit(n)
             \/ Drain(n) /\ ch' = ch
    BY <1>2, <1>4, <2>2, CloseNode
  <2>3. CASE Drain(n) /\ ch' # ch
    BY <1>2, <1>3, <2>3, DrainNode
  <2>4. CASE Receive(n)
    BY <1>2, <1>3, <2>4, ReceiveNode
  <2>5. CASE Proceed(n)
    <3>1. Fresh([rd EXCEPT ![n] = @ + 1], taken)'
      BY <1>2, <2>5, ProceedNode
    <3>2. [rd EXCEPT ![n] = @ + 1] \in [Node -> Nat]
      OBVIOUS
    <3> QED BY <3>1, <3>2 DEF FreshInv
  <2>6. CASE Read(n)
    BY <1>2, <1>4, <2>6, ReadNode
  <2>7. CASE TaskError(n)
    BY <1>2, <1>4, <2>7, ErrorNode
  <2>8. CASE Write(n) /\ item[n] \in DOMAIN Outs[n]
    BY <1>2, <1>4, <2>8, WriteNode
  <2>9. CASE Send(n)
    BY <1>2, <1>4, <2>9, SendNode
  <2> QED BY <1>5, <2>1, <2>2, <2>3, <2>4, <2>5, <2>6, <2>7, <2>8, <2>9 DEF Execute
<1>6. ASSUME NEW c \in Client, Call(c) PROVE FreshInv'
  <2>1. CASE \/ Run(c) \/ AddReturn(c) \/ Destroy(c) \/ InputsClosed(c) \/ StopNode(c)
             \/ SetStop(c) \/ WaitAll(c) \/ PickStream(c) \/ CloseChannel(c)
             \/ NextStream(c)
             \/ Drain(c) /\ ch' = ch
    BY <1>2, <1>4, <2>1, CalmClient
  <2>2. CASE AddCall(c)
    BY <1>2, <1>4, <2>2, AddCallKeeps
  <2>3. CASE AddSend(c)
    BY <1>2, <1>4, <2>3, AddSendKeeps
  <2>4. CASE Drain(c) /\ ch' # ch
    BY <1>2, <1>3, <2>4, DrainClient
  <2>5. CASE Get(c)
    BY <1>2, <1>3, <2>5, GetKeeps
  <2>6. CASE GetReturn(c) \/ GetClosed(c)
    BY <1>2, <1>4, <2>6, AnswerKeeps
  <2> QED BY <1>6, <2>1, <2>2, <2>3, <2>4, <2>5, <2>6 DEF Call
<1>7. CASE UNCHANGED vars
  <2>1. UNCHANGED <<ch, closed, item, dest, slot, held, allok, acc, added, got, script, pc>>
    BY <1>7 DEF vars, chans, local, task, api
  <2>2. Fresh(rd, taken)'
    BY <1>2, <2>1 DEF Fresh, Pace, PaceOf, Sent, Made, Owes, Producer, StreamsOf, Writes,
       Queued, Works, NodeIn, NodeOut, Answered, AnswerOf, Drained
  <2> QED BY <1>4, <2>2
<1> QED BY <1>5, <1>6, <1>7 DEF Next

\* Nothing has been sent, taken or answered at first.
LEMMA InitFresh == Init => FreshInv
<1> SUFFICES ASSUME Init PROVE FreshInv
  OBVIOUS
<1> DEFINE rd == [n \in Node |-> 0]
           taken == [x \in Chan |-> 0]
<1>1. /\ rd \in [Node -> Nat] /\ taken \in [Chan -> Nat] /\ Node \cap Client = {}
      /\ \A n \in Node : rd[n] = 0 /\ n \in Agent /\ pc[n] = "idle" /\ item[n] = 1
      /\ \A c \in Client : pc[c] = "call"
  BY GraphAssumption DEF Init, Agent
<1>2. \A x \in Chan : taken[x] = 0 /\ ch[x] = << >>
  BY DEF Init
<1> HIDE DEF rd, taken
<1>3. Queued(rd, taken)
  BY <1>2 DEF Queued
<1>4. Works(rd, taken)
  <2> SUFFICES ASSUME NEW n \in Node PROVE NodeIn(rd, taken, n) /\ NodeOut(rd, n)
    BY <1>1 DEF Works
  <2>1. \A j \in DOMAIN Ins[n] : taken[<<n, Ins[n][j]>>] = 0
    BY <1>2, InputChannel
  <2> QED BY <1>1, <2>1 DEF NodeIn, NodeOut
<1>5. Answered(rd, taken)
  <2> SUFFICES ASSUME NEW s \in GOut PROVE AnswerOf(rd, taken, s)
    BY DEF Answered
  <2>1. got[s] = << >> /\ <<Sink, s>> \in Chan
    BY GraphAssumption DEF Init, Chan, Manager
  <2>2. taken[<<Sink, s>>] >= Len(got[s]) /\ DOMAIN got[s] = {}
    BY <1>2, <2>1
  <2> QED BY <1>1, <2>1, <2>2 DEF AnswerOf
<1>6. Pace(rd, taken)
  <2> SUFFICES ASSUME NEW a \in Agent, NEW s \in StreamsOf(a), NEW j \in DOMAIN Consumers(a, s)
               PROVE  PaceOf(rd, taken, a, s, j)
    BY DEF Pace
  <2>0. <<Consumers(a, s)[j], s>> \in Chan
    BY StreamsType, Channels
  <2>1. Sent(taken, <<Consumers(a, s)[j], s>>) = 0
    BY <1>2, <2>0 DEF Sent
  <2>2. Made(rd, a, s) = 0
    BY <1>1 DEF Made, Init, StreamsOf
  <2>3. ~ Owes(a, s, j)
    BY <1>1 DEF Owes, Agent
  <2> QED BY <2>1, <2>2, <2>3 DEF PaceOf
<1> QED BY <1>1, <1>3, <1>4, <1>5, <1>6 DEF Fresh, FreshInv

\* However the goroutines interleave, and although a node overwrites the object
\* its first consumer may still hold, no answer contains data of a round before
\* its own: for every wiring, capacity and number of rounds, for clients that
\* feed the graph from one goroutine and read each output from one.
THEOREM Fresher ==
  ASSUME \A f \in Scripts : Orderly(f) /\ OneReader(f)
  PROVE  Spec => []NeverOlder
<1>1. FreshInv => NeverOlder
  BY DEF FreshInv, Fresh, Answered, AnswerOf, NeverOlder
<1>2. Spec => []IInv
  BY Invariance
<1>3. IInv /\ IInv' /\ [Next]_vars /\ FreshInv => FreshInv'
  BY FreshKeeps DEF IInv
<1>4. Init => FreshInv
  BY InitFresh
<1> QED BY <1>1, <1>2, <1>3, <1>4, PTL DEF Spec

-----------------------------------------------------------------------------
(***************************************************************************)
(* Destroy leaves nothing behind.                                          *)
(***************************************************************************)

\* Agent a is through with the channel of s to its k-th consumer.
Past(a, s, k) ==
  /\ IF a \in Node THEN Closing(a) \/ pc[a] = "exit"
                   ELSE InDestroy(a) \/ AfterDestroy(a)
  /\ Closing(a) => s \notin todo[a]
  /\ pc[a] \in {"closing", "drain"} /\ cur[a] = s => k < dest[a]

Emptied(x) == closed[x] /\ ch[x] = << >>

LeftOf(a, s, k) ==
  /\ Past(a, s, k) => Emptied(<<Consumers(a, s)[k], s>>)
  /\ pc[a] = "drain" /\ cur[a] = s /\ k = dest[a] => closed[<<Consumers(a, s)[k], s>>]
  /\ a \in Node /\ pc[a] = "idle" => ch[<<Consumers(a, s)[k], s>>] = << >>

\* A channel its sender is through with is closed and empty; no node is left
\* behind by Run, and none outlives Destroy.
LeftInv ==
  /\ \A a \in Agent : Producer(a) =>
       \A s \in StreamsOf(a) : \A k \in DOMAIN Consumers(a, s) : LeftOf(a, s, k)
  /\ \A a \in Agent : pc[a] \in {"closing", "drain"} => dest[a] >= 1
  /\ ~ ready => \A n \in Node : pc[n] # "idle"
  /\ \A c \in Client : AfterDestroy(c) => \A n \in Node : pc[n] \in {"idle", "exit"}

\* No channel is reopened, and nothing is sent on a closed one.
ChannelsKept ==
  \A x \in Chan : (closed[x] => closed'[x]) /\ (Emptied(x) => Emptied(x)')

\* An agent that does not move keeps its part.
LEMMA LeftFrame ==
  ASSUME NEW a \in Agent, NEW s \in StreamsOf(a), NEW k \in DOMAIN Consumers(a, s),
         ChannelsKept, script' = script, pc'[a] = pc[a], item'[a] = item[a],
         dest'[a] = dest[a], cur'[a] = cur[a], todo'[a] = todo[a],
         a \in Node /\ pc[a] = "idle" /\ ch[<<Consumers(a, s)[k], s>>] = << >> =>
           ch'[<<Consumers(a, s)[k], s>>] = << >>,
         LeftOf(a, s, k)
  PROVE  LeftOf(a, s, k)'
<1>1. <<Consumers(a, s)[k], s>> \in Chan
  BY StreamsType, Channels
<1>2. Past(a, s, k)' => Past(a, s, k)
  BY DEF Past, Closing, InDestroy, AfterDestroy
<1> QED BY <1>1, <1>2 DEF LeftOf, ChannelsKept

\* So what is left to show of a step is about the agent that moves.
LEMMA LeftMoves ==
  ASSUME LeftInv, NEW b \in Agent, OnlyMoves(b), ChannelsKept, ready' = ready,
         \A n \in Node \ {b} : pc[n] = "idle" =>
           \A s \in StreamsOf(n) : \A k \in DOMAIN Consumers(n, s) :
             ch[<<Consumers(n, s)[k], s>>] = << >> => ch'[<<Consumers(n, s)[k], s>>] = << >>,
         Producer(b) =>
           \A s \in StreamsOf(b) : \A k \in DOMAIN Consumers(b, s) : LeftOf(b, s, k)',
         pc'[b] \in {"closing", "drain"} => dest'[b] >= 1,
         b \in Node => pc[b] \notin {"idle", "exit"} /\ pc'[b] # "idle",
         b \in Client /\ AfterDestroy(b)' =>
           AfterDestroy(b) \/ \A n \in Node : pc[n] \in {"idle", "exit"}
  PROVE  LeftInv'
<1>0. script' = script /\ Node \subseteq Agent /\ Client \subseteq Agent
      /\ Node \cap Client = {}
  BY GraphAssumption DEF OnlyMoves, Agent
<1>1. ASSUME NEW a \in Agent, Producer(a)', NEW s \in StreamsOf(a),
             NEW k \in DOMAIN Consumers(a, s)
      PROVE  LeftOf(a, s, k)'
  <2>1. Producer(a)
    BY <1>0, <1>1 DEF Producer, Writes
  <2>2. CASE a = b
    BY <2>1, <2>2
  <2>3. CASE a # b
    <3>1. LeftOf(a, s, k)
      BY <2>1 DEF LeftInv
    <3>2. /\ pc'[a] = pc[a] /\ item'[a] = item[a] /\ dest'[a] = dest[a]
          /\ cur'[a] = cur[a] /\ todo'[a] = todo[a]
      BY <2>3 DEF OnlyMoves
    <3> QED BY <1>0, <2>3, <3>1, <3>2, LeftFrame
  <2> QED BY <2>2, <2>3
<1>2. \A a \in Agent : pc'[a] \in {"closing", "drain"} => dest'[a] >= 1
  BY DEF LeftInv, OnlyMoves
<1>3. ~ ready' => \A n \in Node : pc'[n] # "idle"
  BY <1>0 DEF LeftInv, OnlyMoves
<1>4. ASSUME NEW c \in Client, AfterDestroy(c)' PROVE \A n \in Node : pc'[n] \in {"idle", "exit"}
  <2>1. \A n \in Node : pc[n] \in {"idle", "exit"}
    <3>1. CASE c = b
      BY <1>4, <3>1 DEF LeftInv
    <3>2. CASE c # b
      <4>1. item'[c] = item[c]
        BY <1>0, <3>2 DEF OnlyMoves
      <4>2. AfterDestroy(c)
        BY <1>0, <1>4, <4>1 DEF AfterDestroy
      <4> QED BY <4>2 DEF LeftInv
    <3> QED BY <3>1, <3>2
  <2>2. b \notin Node
    BY <2>1
  <2> QED BY <1>0, <2>1, <2>2 DEF OnlyMoves
<1> QED BY <1>1, <1>2, <1>3, <1>4 DEF LeftInv, StreamsOf

\* An empty channel is empty after every step that is no send.
NothingSent == \A x \in Chan : (closed[x] => closed'[x]) /\ (ch[x] = << >> => ch'[x] = << >>)

LEMMA NothingKeeps ==
  ASSUME NothingSent
  PROVE  /\ ChannelsKept
         /\ \A n \in Node : \A s \in StreamsOf(n) : \A k \in DOMAIN Consumers(n, s) :
              ch[<<Consumers(n, s)[k], s>>] = << >> => ch'[<<Consumers(n, s)[k], s>>] = << >>
<1>1. ChannelsKept
  BY DEF NothingSent, ChannelsKept, Emptied
<1>2. ASSUME NEW n \in Node, NEW s \in StreamsOf(n), NEW k \in DOMAIN Consumers(n, s)
      PROVE  <<Consumers(n, s)[k], s>> \in Chan
  BY StreamsType, Channels DEF Agent
<1> QED BY <1>1, <1>2 DEF NothingSent

\* A send leaves the closed channels, and those of the other senders, alone.
LEMMA SendLeaves ==
  ASSUME ControlInv, DataType, \A f \in Scripts : Orderly(f),
         NEW a \in Agent, Producer(a), NEW s \in StreamsOf(a), NEW e, SendTo(a, s, e),
         ~ closed[<<Consumers(a, s)[dest[a]], s>>]
  PROVE  /\ ChannelsKept
         /\ \A n \in Node \ {a} : \A r \in StreamsOf(n) : \A k \in DOMAIN Consumers(n, r) :
              ch[<<Consumers(n, r)[k], r>>] = << >> => ch'[<<Consumers(n, r)[k], r>>] = << >>
<1> DEFINE x == <<Consumers(a, s)[dest[a]], s>>
<1>1. /\ dest[a] \in DOMAIN Consumers(a, s) /\ closed' = closed
      /\ ch' = [ch EXCEPT ![x] = Append(@, e)]
  BY DEF SendTo
<1>2. x \in Chan /\ s \in Stream
  BY <1>1, StreamsType, Channels
<1>3. \A y \in Chan : y # x => ch'[y] = ch[y]
  BY <1>1, <1>2 DEF DataType
<1>4. ChannelsKept
  BY <1>1, <1>3 DEF ChannelsKept, Emptied
<1>5. ASSUME NEW n \in Node \ {a}, NEW r \in StreamsOf(n), NEW k \in DOMAIN Consumers(n, r)
      PROVE  ch'[<<Consumers(n, r)[k], r>>] = ch[<<Consumers(n, r)[k], r>>]
  <2>1. n \in Agent /\ Producer(n)
    BY DEF Agent, Producer
  <2>2. <<Consumers(n, r)[k], r>> \in Chan
    BY <2>1, StreamsType, Channels
  <2>3. <<Consumers(n, r)[k], r>> # x
    <3> SUFFICES ASSUME <<Consumers(n, r)[k], r>> = x PROVE FALSE
      OBVIOUS
    <3>1. r = s /\ Consumers(n, r)[k] = Consumers(a, s)[dest[a]]
      OBVIOUS
    <3>2. n = a
      BY <1>1, <1>2, <2>1, <3>1, ChannelsDisjoint DEF ControlInv
    <3> QED BY <3>2
  <2> QED BY <1>3, <2>2, <2>3
<1> QED BY <1>4, <1>5

\* A node at work has not begun to close.
LEMMA QuietLeaves ==
  ASSUME ControlInv, DataType, \A f \in Scripts : Orderly(f), LeftInv,
         NEW n \in Node, QuietStep(n)
  PROVE  LeftInv'
<1>0. n \in Agent /\ n \notin Client /\ Producer(n) /\ StreamsOf(n) = Range(Outs[n])
  BY GraphAssumption DEF Agent, Producer, StreamsOf
<1>1. /\ closed' = closed /\ script' = script /\ cur' = cur /\ todo' = todo
      /\ ready' = ready
      /\ \A a \in Agent \ {n} :
           pc'[a] = pc[a] /\ item'[a] = item[a] /\ dest'[a] = dest[a]
      /\ pc[n] \in Quiet /\ pc'[n] \in Quiet
  BY QuietFacts
<1>2. OnlyMoves(n)
  BY <1>1 DEF OnlyMoves
<1>3. \A s \in StreamsOf(n) : \A k \in DOMAIN Consumers(n, s) : LeftOf(n, s, k)'
  BY <1>0, <1>1 DEF LeftOf, Past, Closing, Quiet
<1>4. /\ ChannelsKept
      /\ \A m \in Node \ {n} : \A s \in StreamsOf(m) : \A k \in DOMAIN Consumers(m, s) :
           ch[<<Consumers(m, s)[k], s>>] = << >> => ch'[<<Consumers(m, s)[k], s>>] = << >>
  <2>1. CASE Send(n)
    <3> DEFINE s == Outs[n][item[n]]
    <3>1. /\ pc[n] = "send" /\ s \in StreamsOf(n)
          /\ SendTo(n, s, IF dest[n] = 1 THEN [alias |-> TRUE, d |-> {}]
                                        ELSE [alias |-> FALSE, d |-> slot[s]])
      BY <1>0, <2>1 DEF Send, Range
    <3>2. dest[n] \in DOMAIN Consumers(n, s)
      BY <3>1 DEF SendTo
    <3>3. ~ closed[<<Consumers(n, s)[dest[n]], s>>]
      BY <1>0, <3>1, <3>2, NotYetClosed
    <3> HIDE DEF s
    <3> QED BY <1>0, <3>1, <3>3, SendLeaves
  <2>2. CASE ~ Send(n)
    <3>1. NothingSent
      <4>1. CASE Receive(n)
        BY <1>1, <4>1 DEF Receive, NothingSent, DataType
      <4>2. CASE TaskError(n)
        <5> SUFFICES ASSUME NEW x \in Chan, ch[x] = << >> PROVE ch'[x] = << >>
          BY <1>1 DEF NothingSent
        <5>1. DOMAIN ch[x] = {}
          OBVIOUS
        <5>2. \/ ch'[x] = ch[x]
              \/ ch'[x] = [k \in DOMAIN ch[x] |-> Freeze(ch[x][k], x[2])]
          BY <4>2 DEF TaskError, Reset
        <5>3. DOMAIN ch'[x] = {}
          BY <5>1, <5>2
        <5>4. ch'[x] \in Seq(Entry)
          BY <4>2, ResetType DEF TaskError
        <5>5. Len(ch'[x]) = 0
          <6>1. Len(ch'[x]) \in Nat /\ DOMAIN ch'[x] = 1 .. Len(ch'[x])
            BY <5>4
          <6>2. 1 \notin 1 .. Len(ch'[x])
            BY <5>3, <6>1
          <6> QED BY <6>1, <6>2
        <5> QED BY <5>4, <5>5, EmptySeq
      <4>3. CASE ~ Receive(n) /\ ~ TaskError(n)
        <5>1. ch' = ch
          BY <2>2, <4>3 DEF QuietStep, Start, Continue, Proceed, Read, Compute, Write,
                            SendNext, chans
        <5> QED BY <1>1, <5>1 DEF NothingSent
      <4> QED BY <4>1, <4>2, <4>3
    <3> QED BY <3>1, NothingKeeps
  <2> QED BY <2>1, <2>2
<1>5. /\ pc'[n] \notin {"closing", "drain", "idle"} /\ pc[n] \notin {"idle", "exit"}
  BY <1>1 DEF Quiet
<1> QED BY <1>0, <1>1, <1>2, <1>3, <1>4, <1>5, LeftMoves

\* OutputManager.Close leaves every channel it is through with closed and empty.
LEMMA CloseLeaves ==
  ASSUME ControlInv, ControlInv', DataType, LeftInv, NEW a \in Agent,
         \/ a \in Node /\ (Break(a) \/ Exit(a))
         \/ PickStream(a) \/ CloseChannel(a) \/ Drain(a) \/ NextStream(a)
  PROVE  LeftInv'
<1>0. /\ a \in Node \/ (a \in Client /\ a \notin Node)
      /\ pc'[a] # "dead" /\ pc \in [Agent -> NodePc \cup ClientPc]
      /\ dest \in [Agent -> Nat] /\ todo \in [Agent -> SUBSET Stream]
      /\ cur \in [Agent -> Stream] /\ closed \in [Chan -> BOOLEAN]
      /\ dest[a] \in Nat
  BY GraphAssumption DEF ControlInv, ControlType, PcInv, Agent
<1>1. ~ Panic
  BY <1>0 DEF Panic
<1> USE DEF chans, local, task, ctl, api, Goto
<1>2. OnlyMoves(a) /\ ready' = ready /\ item' = item /\ script' = script
  BY <1>0, <1>1 DEF OnlyMoves, Break, Exit, PickStream, CloseChannel, Drain, NextStream
<1>3. pc[a] \notin {"idle", "exit"} /\ pc'[a] # "idle"
  BY <1>0, <1>1 DEF Break, Exit, PickStream, CloseChannel, Drain, NextStream, Subscribed
<1>4. NothingSent
  BY <1>0, <1>1 DEF Break, Exit, PickStream, CloseChannel, Drain, NextStream, NothingSent,
                    DataType
<1>5. /\ ChannelsKept
      /\ \A n \in Node : \A s \in StreamsOf(n) : \A k \in DOMAIN Consumers(n, s) :
           ch[<<Consumers(n, s)[k], s>>] = << >> => ch'[<<Consumers(n, s)[k], s>>] = << >>
  BY <1>4, NothingKeeps
<1>6. a \in Client /\ AfterDestroy(a)' => AfterDestroy(a)
  BY <1>2 DEF AfterDestroy
<1>7. pc'[a] \in {"closing", "drain"} => dest'[a] >= 1
  <2>1. pc[a] \in {"closing", "drain"} => dest[a] >= 1
    BY DEF LeftInv
  <2> QED BY <1>0, <1>1, <2>1 DEF Break, Exit, PickStream, CloseChannel, Drain, NextStream
<1>8. ASSUME Producer(a), NEW s \in StreamsOf(a), NEW k \in DOMAIN Consumers(a, s)
      PROVE  LeftOf(a, s, k)'
  <2> DEFINE x == <<Consumers(a, s)[k], s>>
  <2>0. LeftOf(a, s, k) /\ x \in Chan /\ k \in Nat /\ s \in Stream
    BY <1>8, StreamsType, Channels DEF LeftInv
  <2>1. Emptied(x) => Emptied(x)'
    BY <1>5, <2>0 DEF ChannelsKept
  <2>2. CASE a \in Node /\ (Break(a) \/ Exit(a))
    <3>1. \/ pc'[a] = "close" /\ s \in todo'[a]
          \/ /\ pc[a] = "close" /\ pc'[a] = "exit" /\ todo[a] = {}
      BY <1>0, <2>2 DEF Break, Exit, StreamsOf
    <3>2. Past(a, s, k)' => Past(a, s, k)
      BY <2>2, <3>1 DEF Past, Closing
    <3> QED BY <2>0, <2>1, <3>1, <3>2 DEF LeftOf
  <2>3. CASE PickStream(a)
    <3>1. PICK r \in todo[a] : /\ cur' = [cur EXCEPT ![a] = r]
                               /\ todo' = [todo EXCEPT ![a] = @ \ {r}]
      BY <2>3 DEF PickStream
    <3>2. /\ pc[a] = "close" /\ pc'[a] = "closing" /\ dest'[a] = 1 /\ cur'[a] = r
          /\ todo'[a] = todo[a] \ {r}
      BY <1>0, <2>3, <3>1 DEF PickStream
    <3>3. 1 <= k
      <4>1. PortOf(a) \in Port
        BY DEF PortOf, Port
      <4>2. Consumers(a, s) \in Seq(Manager)
        BY <2>0, <4>1, WiringAssumption DEF Consumers
      <4> QED BY <4>2
    <3>4. Past(a, s, k)' => Past(a, s, k)
      BY <1>2, <2>0, <3>2, <3>3 DEF Past, Closing, InDestroy, AfterDestroy
    <3> QED BY <2>0, <2>1, <3>2, <3>4 DEF LeftOf
  <2>4. CASE CloseChannel(a)
    <3>1. /\ pc[a] = "closing" /\ pc'[a] = "drain" /\ dest'[a] = dest[a] /\ cur'[a] = cur[a]
          /\ todo'[a] = todo[a]
          /\ closed' = [closed EXCEPT ![<<Consumers(a, cur[a])[dest[a]], cur[a]>>] = TRUE]
      BY <1>0, <1>1, <2>4 DEF CloseChannel
    <3>2. Past(a, s, k)' => Past(a, s, k)
      BY <1>2, <3>1 DEF Past, Closing, InDestroy, AfterDestroy
    <3>3. cur[a] = s /\ k = dest[a] => closed'[x]
      BY <1>0, <2>0, <3>1
    <3> QED BY <2>0, <2>1, <3>1, <3>2, <3>3 DEF LeftOf
  <2>5. CASE Drain(a)
    <3>1. /\ pc[a] = "drain" /\ cur'[a] = cur[a] /\ todo'[a] = todo[a] /\ closed' = closed
          /\ \/ pc'[a] = "drain" /\ dest'[a] = dest[a]
             \/ /\ pc'[a] = "closing" /\ dest'[a] = dest[a] + 1 /\ ch' = ch
                /\ ch[<<Consumers(a, cur[a])[dest[a]], cur[a]>>] = << >>
      BY <1>0, <2>5 DEF Drain
    <3>2. Past(a, s, k)' => Past(a, s, k) \/ (cur[a] = s /\ k = dest[a] /\ pc'[a] = "closing")
      BY <1>0, <1>2, <2>0, <3>1 DEF Past, Closing, InDestroy, AfterDestroy
    <3>3. cur[a] = s /\ k = dest[a] /\ pc'[a] = "closing" => Emptied(x)'
      BY <2>0, <3>1 DEF LeftOf, Emptied
    <3> QED BY <2>0, <2>1, <3>1, <3>2, <3>3 DEF LeftOf
  <2>6. CASE NextStream(a)
    <3>1. /\ pc[a] = "closing" /\ pc'[a] = "close" /\ dest[a] \notin DOMAIN Consumers(a, cur[a])
          /\ todo'[a] = todo[a] /\ dest[a] >= 1
      BY <1>0, <2>6 DEF NextStream, LeftInv
    <3>2. cur[a] = s => k < dest[a]
      <4>1. PortOf(a) \in Port
        BY DEF PortOf, Port
      <4>2. Consumers(a, s) \in Seq(Manager)
        BY <2>0, <4>1, WiringAssumption DEF Consumers
      <4>3. DOMAIN Consumers(a, s) = 1 .. Len(Consumers(a, s)) /\ Len(Consumers(a, s)) \in Nat
        BY <4>2
      <4> QED BY <1>0, <3>1, <4>3
    <3>3. Past(a, s, k)' => Past(a, s, k)
      BY <1>2, <3>1, <3>2 DEF Past, Closing, InDestroy, AfterDestroy
    <3> QED BY <2>0, <2>1, <3>1, <3>3 DEF LeftOf
  <2> QED BY <2>2, <2>3, <2>4, <2>5, <2>6
<1> QED BY <1>2, <1>3, <1>5, <1>6, <1>7, <1>8, LeftMoves

\* A call ends after Destroy if Destroy had ended before it, or is the call.
LEMMA CallAfter ==
  ASSUME ControlInv, NEW c \in Client, CallStep(c), script' = script
  PROVE  AfterDestroy(c)' => AfterDestroy(c) \/ WaitAll(c)
<1>0. /\ c \in Agent /\ item[c] \in Nat /\ item \in [Agent -> Nat]
      /\ pc[c] = "add" => script[c][item[c]].op = "add"
      /\ pc[c] = "got" => script[c][item[c]].op = "get"
  BY DEF ControlInv, ControlType, PcInv, Agent
<1> USE DEF chans, local, task, ctl, api, Calls, Return
<1>1. CASE item'[c] = item[c]
  BY <1>1 DEF AfterDestroy
<1>2. CASE item'[c] # item[c] /\ ~ WaitAll(c)
  <2>1. AddReturn(c) \/ GetReturn(c) \/ GetClosed(c)
    BY <1>2 DEF CallStep, AddCall, AddSend, SendTo, Get, Destroy, InputsClosed, StopNode,
                SetStop
  <2>2. item'[c] = item[c] + 1 /\ script[c][item[c]].op # "destroy"
    BY <1>0, <2>1 DEF AddReturn, GetReturn, GetClosed, Answer
  <2>3. script[c] \in Seq(Op)
    BY GraphAssumption DEF ControlInv, ControlType
  <2>4. \A k \in DOMAIN script[c] : k \in Nat
    BY <2>3
  <2>5. \A k \in DOMAIN script[c] : k < item'[c] => k < item[c] \/ k = item[c]
    BY <1>0, <2>2, <2>4
  <2> QED BY <2>2, <2>5 DEF AfterDestroy
<1> QED BY <1>1, <1>2

\* The clients' calls.
LEMMA CallLeaves ==
  ASSUME ControlInv, DataType, \A f \in Scripts : Orderly(f), LeftInv,
         NEW c \in Client, CallStep(c)
  PROVE  LeftInv'
<1>0. c \in Agent /\ c \notin Node /\ StreamsOf(c) = GIn
  BY GraphAssumption DEF Agent, StreamsOf
<1>1. /\ closed' = closed /\ script' = script /\ cur' = cur /\ ready' = ready
      /\ pc' = [pc EXCEPT ![c] = pc'[c]] /\ item' = [item EXCEPT ![c] = item'[c]]
      /\ dest' = [dest EXCEPT ![c] = dest'[c]] /\ todo' = [todo EXCEPT ![c] = todo'[c]]
  BY CallFacts
<1>2. /\ pc[c] \in {"call", "add", "got", "stop", "lock"}
         \/ (pc[c] = "close" /\ pc'[c] = "stop" /\ todo[c] = {})
      /\ pc'[c] \in {"call", "add", "got", "stop", "lock"}
         \/ (pc'[c] = "close" /\ todo'[c] = GIn)
      /\ pc[c] \in {"call", "add", "got"} /\ pc'[c] \in {"stop", "lock"} => FALSE
      /\ WaitAll(c) => pc[c] = "stop"
  <2>1. /\ c \in Agent /\ pc \in [Agent -> NodePc \cup ClientPc]
        /\ todo \in [Agent -> SUBSET Stream]
    BY <1>0 DEF ControlInv, ControlType
  <2>2. CASE AddSend(c)
    <3>1. pc[c] = "add" /\ pc'[c] = "add"
      <4>1. /\ pc[c] = "add" /\ (pc'[c] = "add" \/ pc'[c] = "dead")
        BY <2>1, <2>2 DEF AddSend, SendTo, Panic
      <4>2. pc'[c] # "dead"
        BY CallKeeps DEF ControlInv, PcInv
      <4> QED BY <4>1, <4>2
    <3> QED BY <3>1 DEF WaitAll
  <2>3. CASE ~ AddSend(c)
    BY <2>1, <2>3 DEF CallStep, AddCall, AddReturn, Get, GetReturn, GetClosed, Answer, Destroy,
                      InputsClosed, StopNode, SetStop, WaitAll, Return, Goto, Calls
  <2> QED BY <2>2, <2>3
<1>3. OnlyMoves(c)
  BY <1>1 DEF OnlyMoves, ControlInv, ControlType
<1>4. AfterDestroy(c)' => AfterDestroy(c) \/ WaitAll(c)
  BY <1>1, CallAfter
<1>5. WaitAll(c) => \A n \in Node : pc[n] \in {"idle", "exit"}
  BY DEF WaitAll
<1>6. /\ ChannelsKept
      /\ \A n \in Node \ {c} : \A s \in StreamsOf(n) : \A k \in DOMAIN Consumers(n, s) :
           ch[<<Consumers(n, s)[k], s>>] = << >> => ch'[<<Consumers(n, s)[k], s>>] = << >>
  <2>1. CASE AddSend(c)
    <3> DEFINE s == script[c][item[c]].s
    <3>1. /\ pc[c] = "add" /\ SendTo(c, s, [alias |-> FALSE, d |-> {added[s]}])
          /\ item[c] \in DOMAIN script[c] /\ script[c][item[c]].op = "add"
      BY <2>1 DEF AddSend, ControlInv, PcInv
    <3>2. s \in StreamsOf(c) /\ Orderly(script)
      BY <1>0, <3>1, CallStream DEF ControlInv, ControlType
    <3>3. Producer(c) /\ ~ InDestroy(c) /\ ~ AfterDestroy(c)
      <4>1. Writes(script, c)
        BY <3>1 DEF Writes
      <4>2. ~ AfterDestroy(c)
        BY <3>1, <3>2 DEF AfterDestroy, Orderly
      <4> QED BY <3>1, <4>1, <4>2 DEF Producer, InDestroy
    <3>4. dest[c] \in DOMAIN Consumers(c, s)
      BY <3>1 DEF SendTo
    <3>5. ~ closed[<<Consumers(c, s)[dest[c]], s>>]
      BY <1>0, <3>2, <3>3, <3>4, NotYetClosed
    <3> HIDE DEF s
    <3> QED BY <1>0, <3>1, <3>2, <3>3, <3>5, SendLeaves
  <2>2. CASE ~ AddSend(c)
    <3>1. ch' = ch \/ Get(c)
      BY <2>2 DEF CallStep, AddCall, AddReturn, GetReturn, GetClosed, Destroy, InputsClosed,
                  StopNode, SetStop, WaitAll, chans
    <3>2. NothingSent
      BY <1>1, <3>1 DEF Get, NothingSent, DataType
    <3> QED BY <3>2, NothingKeeps
  <2> QED BY <2>1, <2>2
<1>7. ASSUME Producer(c), NEW s \in StreamsOf(c), NEW k \in DOMAIN Consumers(c, s)
      PROVE  LeftOf(c, s, k)'
  <2>1. LeftOf(c, s, k) /\ <<Consumers(c, s)[k], s>> \in Chan
    BY <1>0, <1>7, StreamsType, Channels DEF LeftInv
  <2>2. Past(c, s, k)' => Past(c, s, k)
    BY <1>0, <1>2, <1>4 DEF Past, Closing, InDestroy
  <2>3. pc'[c] # "drain"
    BY <1>2
  <2> QED BY <1>0, <1>6, <2>1, <2>2, <2>3 DEF LeftOf, ChannelsKept
<1>8. pc'[c] \notin {"closing", "drain"}
  BY <1>2
<1> QED BY <1>0, <1>1, <1>3, <1>4, <1>5, <1>6, <1>7, <1>8, LeftMoves

\* Graph.Run starts all nodes or none, and none once the graph is destroyed.
LEMMA RunLeaves ==
  ASSUME ControlInv, DataType, \A f \in Scripts : RunFirst(f), LeftInv,
         NEW c \in Client, Run(c)
  PROVE  LeftInv'
<1>0. /\ c \in Agent /\ c \notin Node /\ pc[c] = "call" /\ item[c] \in DOMAIN script[c]
      /\ script[c][item[c]].op = "run" /\ RunFirst(script) /\ item[c] \in Nat
      /\ item \in [Agent -> Nat] /\ pc \in [Agent -> NodePc \cup ClientPc]
      /\ ready \in BOOLEAN /\ (ready => \A n \in Node : pc[n] = "idle")
      /\ Node \subseteq Agent /\ Client \subseteq Agent /\ Node \cap Client = {}
  BY GraphAssumption DEF Run, Calls, Agent, ControlInv, ControlType, PcInv
<1>1. /\ ready' = FALSE /\ item' = [item EXCEPT ![c] = @ + 1]
      /\ pc' = [a \in Agent |-> IF ready /\ a \in Node THEN "start" ELSE pc[a]]
      /\ UNCHANGED <<ch, closed, dest, cur, todo, script>>
  BY DEF Run, chans, api
<1>2. \A e \in Client : \A l \in DOMAIN script[e] :
        script[e][l].op = "destroy" => e = c /\ item[c] < l
  BY <1>0 DEF RunFirst
<1>3. ASSUME NEW e \in Client PROVE ~ AfterDestroy(e) /\ ~ AfterDestroy(e)'
  <2>1. script[e] \in Seq(Op)
    BY GraphAssumption DEF ControlInv, ControlType
  <2>2. \A l \in DOMAIN script[e] : l \in Nat
    BY <2>1
  <2>3. ASSUME NEW l \in DOMAIN script[e], script[e][l].op = "destroy"
        PROVE  ~ (l < item[e]) /\ ~ (l < item'[e])
    <3>1. e = c /\ item[c] < l /\ l \in Nat
      BY <1>2, <2>2, <2>3
    <3>2. item'[c] = item[c] + 1
      BY <1>0, <1>1
    <3>3. ~ (l < item[c]) /\ ~ (l < item[c] + 1)
      BY <1>0, <3>1
    <3> QED BY <3>1, <3>2, <3>3
  <2> QED BY <1>1, <2>3 DEF AfterDestroy
<1>4. ASSUME NEW a \in Agent, Producer(a)', NEW s \in StreamsOf(a),
             NEW k \in DOMAIN Consumers(a, s)
      PROVE  LeftOf(a, s, k)'
  <2>1. Producer(a) /\ LeftOf(a, s, k)
    BY <1>1, <1>4 DEF Producer, Writes, LeftInv
  <2>2. CASE a \in Node /\ ready
    BY <1>1, <2>2 DEF LeftOf, Past, Closing
  <2>3. CASE a \notin Node \/ ~ ready
    <3>1. pc'[a] = pc[a]
      BY <1>1, <2>3
    <3>2. a \notin Node => ~ AfterDestroy(a)'
      BY <1>3 DEF Agent
    <3>3. Past(a, s, k)' => Past(a, s, k)
      BY <1>1, <3>1, <3>2 DEF Past, Closing, InDestroy
    <3> QED BY <1>1, <2>1, <3>1, <3>3 DEF LeftOf, Emptied
  <2> QED BY <2>2, <2>3
<1>5. \A a \in Agent : pc'[a] \in {"closing", "drain"} => dest'[a] >= 1
  BY <1>1 DEF LeftInv
<1>6. \A n \in Node : pc'[n] # "idle"
  BY <1>0, <1>1 DEF LeftInv
<1> QED BY <1>1, <1>3, <1>4, <1>5, <1>6 DEF LeftInv, StreamsOf

\* The invariant holds at first and is kept.
LEMMA LeftInit == Init => LeftInv
<1> SUFFICES ASSUME Init PROVE LeftInv
  OBVIOUS
<1>1. /\ \A n \in Node : pc[n] = "idle"
      /\ \A c \in Client : pc[c] = "call" /\ item[c] = 1
      /\ ready /\ Node \cap Client = {} /\ script \in Scripts
      /\ \A x \in Chan : ch[x] = << >>
  BY GraphAssumption DEF Init, Agent
<1>2. ASSUME NEW c \in Client PROVE ~ AfterDestroy(c)
  <2>1. script[c] \in Seq(Op)
    BY <1>1, GraphAssumption
  <2>2. \A k \in DOMAIN script[c] : k >= 1 /\ k \in Nat
    BY <2>1
  <2> QED BY <1>1, <2>2 DEF AfterDestroy
<1>3. ASSUME NEW a \in Agent, NEW s \in StreamsOf(a), NEW k \in DOMAIN Consumers(a, s)
      PROVE  LeftOf(a, s, k)
  <2>1. <<Consumers(a, s)[k], s>> \in Chan
    BY StreamsType, Channels
  <2>2. ~ Past(a, s, k)
    BY <1>1, <1>2 DEF Past, Closing, InDestroy, Agent
  <2> QED BY <1>1, <2>1, <2>2 DEF LeftOf, Agent
<1> QED BY <1>1, <1>2, <1>3 DEF LeftInv, Agent

LEMMA LeftKeeps ==
  ASSUME ControlInv, ControlInv', DataType, LeftInv, [Next]_vars,
         \A f \in Scripts : Orderly(f) /\ RunFirst(f)
  PROVE  LeftInv'
<1>1. ASSUME NEW n \in Node, Execute(n) PROVE LeftInv'
  <2>0. n \in Agent
    BY DEF Agent
  <2>1. CASE QuietStep(n)
    BY <2>1, QuietLeaves
  <2>2. CASE Break(n) \/ Exit(n) \/ PickStream(n) \/ CloseChannel(n) \/ Drain(n) \/ NextStream(n)
    BY <2>0, <2>2, CloseLeaves
  <2> QED BY <1>1, <2>1, <2>2 DEF Execute, QuietStep
<1>2. ASSUME NEW c \in Client, Call(c) PROVE LeftInv'
  <2>0. c \in Agent
    BY DEF Agent
  <2>1. CASE CallStep(c)
    BY <2>1, CallLeaves
  <2>2. CASE Run(c)
    BY <2>2, RunLeaves
  <2>3. CASE PickStream(c) \/ CloseChannel(c) \/ Drain(c) \/ NextStream(c)
    BY <2>0, <2>3, CloseLeaves
  <2> QED BY <1>2, <2>1, <2>2, <2>3 DEF Call, CallStep
<1>3. CASE UNCHANGED vars
  <2>1. /\ UNCHANGED <<ch, closed, pc, item, dest, cur, todo, ready, script>>
    BY <1>3 DEF vars, chans, local, ctl, api
  <2> QED BY <2>1 DEF LeftInv, LeftOf, Past, Emptied, Closing, InDestroy, AfterDestroy,
                      Producer, Writes, StreamsOf
<1> QED BY <1>1, <1>2, <1>3 DEF Next

\* When Destroy has returned, no goroutine is left and nothing is in any channel,
\* and all channels are closed if the graph ran: for every wiring in which each
\* channel has a sender, any capacity, any failures, and clients that feed, run
\* and destroy the graph from one goroutine, in that order.
THEOREM LeavesNothing ==
  ASSUME \A f \in Scripts : Orderly(f) /\ RunFirst(f), Fed
  PROVE  Spec => []DestroyLeavesNothing
<1>1. ASSUME ControlInv, LeftInv PROVE DestroyLeavesNothing
  <2> SUFFICES ASSUME NEW c \in Client, AfterDestroy(c)
               PROVE  /\ \A n \in Node : pc[n] \in {"idle", "exit"}
                      /\ \A x \in Chan : /\ ch[x] = << >>
                                         /\ (\E n \in Node : pc[n] = "exit") => closed[x]
    BY DEF DestroyLeavesNothing
  <2>1. \A n \in Node : pc[n] \in {"idle", "exit"}
    BY <1>1 DEF LeftInv
  <2>2. (\E n \in Node : pc[n] = "exit") => \A n \in Node : pc[n] = "exit"
    BY <1>1, <2>1 DEF LeftInv, ControlInv, PcInv
  <2>3. /\ c \in Agent /\ c \notin Node /\ PortOf(c) = Source /\ StreamsOf(c) = GIn
        /\ Orderly(script)
    BY <1>1, GraphAssumption DEF Agent, PortOf, StreamsOf, ControlInv, ControlType
  <2>4. Producer(c)
    BY DEF Producer, Writes, AfterDestroy
  <2>5. ~ InDestroy(c)
    BY <1>1, <2>3 DEF ControlInv, PcInv, AfterDestroy, Orderly
  <2>6. ASSUME NEW x \in Chan
        PROVE  ch[x] = << >> /\ ((\E n \in Node : pc[n] = "exit") => closed[x])
    <3>1. PICK p \in Port : /\ x[1] \in Range(NextInputManagers[p][x[2]])
                            /\ x[2] \in IF p \in Node THEN Range(Outs[p]) ELSE GIn
      BY DEF Fed, AllFed
    <3>2. PICK k \in DOMAIN NextInputManagers[p][x[2]] : x[1] = NextInputManagers[p][x[2]][k]
      BY <3>1 DEF Range
    <3>3. x = <<x[1], x[2]>>
      BY DEF Chan
    <3>4. CASE p \in Node
      <4>1. /\ p \in Agent /\ Producer(p) /\ Consumers(p, x[2]) = NextInputManagers[p][x[2]]
            /\ x[2] \in StreamsOf(p)
        BY <3>1, <3>4 DEF Agent, Producer, Consumers, PortOf, StreamsOf
      <4>2. LeftOf(p, x[2], k) /\ x = <<Consumers(p, x[2])[k], x[2]>>
        BY <1>1, <3>2, <3>3, <4>1 DEF LeftInv
      <4>3. CASE pc[p] = "idle"
        BY <2>2, <3>4, <4>2, <4>3 DEF LeftOf
      <4>4. CASE pc[p] = "exit"
        <5>1. Past(p, x[2], k)
          BY <3>4, <4>4 DEF Past, Closing
        <5> QED BY <4>2, <5>1 DEF LeftOf, Emptied
      <4> QED BY <2>1, <3>4, <4>3, <4>4
    <3>5. CASE p \notin Node
      <4>1. p = Source /\ Consumers(c, x[2]) = NextInputManagers[p][x[2]] /\ x[2] \in StreamsOf(c)
        BY <2>3, <3>1, <3>5 DEF Port, Consumers
      <4>2. LeftOf(c, x[2], k) /\ x = <<Consumers(c, x[2])[k], x[2]>>
        BY <1>1, <2>3, <2>4, <3>2, <3>3, <4>1 DEF LeftInv
      <4>3. Past(c, x[2], k)
        BY <2>3, <2>5 DEF Past, Closing, InDestroy
      <4> QED BY <4>2, <4>3 DEF LeftOf, Emptied
    <3> QED BY <3>4, <3>5
  <2> QED BY <2>1, <2>6
<1>2. Spec => []IInv
  BY Invariance
<1>3. IInv /\ IInv' /\ [Next]_vars /\ LeftInv => LeftInv'
  BY LeftKeeps DEF IInv
<1>4. Init => LeftInv
  BY LeftInit
<1>5. IInv /\ LeftInv => DestroyLeavesNothing
  BY <1>1 DEF IInv
<1> QED BY <1>2, <1>3, <1>4, <1>5, PTL DEF Spec

-----------------------------------------------------------------------------
(***************************************************************************)
(* In lock step the runtime implements GraphService.                       *)
(***************************************************************************)

\* Destroy is under way or has returned.
Down(c) == InDestroy(c) \/ AfterDestroy(c)

\* A call returns: that was Destroy, or Destroy had returned before.
LEMMA AfterReturn ==
  ASSUME ControlInv, NEW c \in Client, script' = script, item'[c] = item[c] + 1
  PROVE  AfterDestroy(c)' <=>
           AfterDestroy(c) \/ (item[c] \in DOMAIN script[c] /\ script[c][item[c]].op = "destroy")
<1>1. script[c] \in Seq(Op) /\ item[c] \in Nat
  BY GraphAssumption DEF ControlInv, ControlType, Agent
<1>2. \A k \in DOMAIN script[c] : k \in Nat
  BY <1>1
<1>3. \A k \in DOMAIN script[c] : k < item'[c] <=> k < item[c] \/ k = item[c]
  BY <1>1, <1>2
<1> QED BY <1>3 DEF AfterDestroy

\* A node's step is nothing the clients notice.
LEMMA NodeSilent ==
  ASSUME ControlInv, ControlInv', DataType, NEW n \in Node, Execute(n)
  PROVE  /\ added' = added /\ got' = got /\ script' = script
         /\ \A a \in Agent \ {n} : pc'[a] = pc[a] /\ item'[a] = item[a]
         /\ \A m \in Node \ {n} : allclosed'[m] = allclosed[m]
<1>0. /\ n \in Agent /\ pc \in [Agent -> NodePc \cup ClientPc] /\ item \in [Agent -> Nat]
      /\ pc'[n] # "dead" /\ allclosed \in [Node -> BOOLEAN]
  BY DEF ControlInv, ControlType, PcInv, DataType, Agent
<1> USE DEF chans, local, task, ctl, api, Goto, Subscribe
<1>1. CASE Start(n) \/ Continue(n) \/ Proceed(n) \/ Read(n)
  BY <1>0, <1>1 DEF Start, Continue, Proceed, Read
<1>1a. CASE Receive(n)
  BY <1>0, <1>1a DEF Receive
<1>2. CASE TaskError(n) \/ Compute(n)
  BY <1>0, <1>2 DEF TaskError, Compute, StartSend
<1>2a. CASE Write(n)
  BY <1>0, <1>2a DEF Write, StartSend
<1>2b. CASE SendNext(n)
  BY <1>0, <1>2b DEF SendNext
<1>3. CASE Send(n)
  BY <1>0, <1>3 DEF Send, SendTo, Panic
<1>4. CASE Break(n) \/ Exit(n) \/ PickStream(n) \/ Drain(n) \/ NextStream(n)
  BY <1>0, <1>4 DEF Break, Exit, PickStream, Drain, NextStream
<1>5. CASE CloseChannel(n)
  BY <1>0, <1>5 DEF CloseChannel, Panic
<1> QED BY <1>1, <1>1a, <1>2, <1>2a, <1>2b, <1>3, <1>4, <1>5 DEF Execute

\* Most steps of a client neither.
LEMMA ClientSilent ==
  ASSUME ControlInv, ControlInv', NEW c \in Client, Call(c),
         ~ AddCall(c), ~ GetReturn(c), ~ GetClosed(c), ~ Destroy(c)
  PROVE  /\ added' = added /\ got' = got /\ script' = script
         /\ \A a \in Client \ {c} : pc'[a] = pc[a] /\ item'[a] = item[a]
         /\ Down(c)' <=> Down(c)
<1>0. /\ c \in Agent /\ c \notin Node /\ pc \in [Agent -> NodePc \cup ClientPc]
      /\ item \in [Agent -> Nat] /\ pc'[c] # "dead"
      /\ pc[c] = "add" => script[c][item[c]].op = "add"
      /\ InDestroy(c) => item[c] \in DOMAIN script[c] /\ script[c][item[c]].op = "destroy"
      /\ \A a \in Client : a \in Agent /\ a \notin Node
  BY GraphAssumption DEF ControlInv, ControlType, PcInv, Agent
<1> USE DEF chans, local, task, ctl, api, Goto, Calls, Return
<1>1. CASE Run(c)
  <2>1. /\ added' = added /\ got' = got /\ script' = script /\ item'[c] = item[c] + 1
        /\ pc[c] = "call" /\ script[c][item[c]].op = "run"
        /\ \A a \in Client : pc'[a] = pc[a] /\ (a # c => item'[a] = item[a])
    BY <1>0, <1>1 DEF Run
  <2> QED BY <2>1, AfterReturn DEF Down, InDestroy
<1>2. CASE AddSend(c)
  BY <1>0, <1>2 DEF AddSend, SendTo, Panic, Down, InDestroy, AfterDestroy
<1>3. CASE AddReturn(c)
  <2>1. /\ added' = added /\ got' = got /\ script' = script /\ item'[c] = item[c] + 1
        /\ pc[c] = "add" /\ pc'[c] = "call"
        /\ \A a \in Client \ {c} : pc'[a] = pc[a] /\ item'[a] = item[a]
    BY <1>0, <1>3 DEF AddReturn
  <2> QED BY <1>0, <2>1, AfterReturn DEF Down, InDestroy
<1>4. CASE Get(c)
  BY <1>0, <1>4 DEF Get, Down, InDestroy, AfterDestroy
<1>5. CASE PickStream(c) \/ Drain(c) \/ NextStream(c) \/ InputsClosed(c)
  BY <1>0, <1>5 DEF PickStream, Drain, NextStream, InputsClosed, Down, InDestroy
<1>6. CASE CloseChannel(c)
  BY <1>0, <1>6 DEF CloseChannel, Panic, Down, InDestroy
<1>7. CASE StopNode(c) \/ SetStop(c)
  BY <1>0, <1>7 DEF StopNode, SetStop, Down, InDestroy
<1>8. CASE WaitAll(c)
  <2>1. /\ added' = added /\ got' = got /\ script' = script /\ item'[c] = item[c] + 1
        /\ pc[c] = "stop"
        /\ \A a \in Client \ {c} : pc'[a] = pc[a] /\ item'[a] = item[a]
    BY <1>0, <1>8 DEF WaitAll
  <2> QED BY <1>0, <2>1, AfterReturn DEF Down, InDestroy
<1> QED BY <1>1, <1>2, <1>3, <1>4, <1>5, <1>6, <1>7, <1>8 DEF Call

\* The four steps that a client does notice.
LEMMA ClientSpeaks ==
  ASSUME ControlInv, NEW c \in Client, AddCall(c) \/ GetReturn(c) \/ GetClosed(c) \/ Destroy(c)
  PROVE  /\ script' = script /\ item[c] \in DOMAIN script[c]
         /\ \A a \in Agent \ {c} : pc'[a] = pc[a] /\ item'[a] = item[a]
         /\ AddCall(c) => script[c][item[c]].op = "add" /\ ~ InDestroy(c)
         /\ GetReturn(c) \/ GetClosed(c) => script[c][item[c]].op = "get" /\ ~ InDestroy(c)
         /\ ~ Destroy(c) => (Down(c)' <=> Down(c))
         /\ Destroy(c) => /\ script[c][item[c]].op = "destroy" /\ Down(c)'
                          /\ added' = added /\ got' = got /\ ~ InDestroy(c)
<1>0. /\ c \in Agent /\ pc \in [Agent -> NodePc \cup ClientPc] /\ item \in [Agent -> Nat]
      /\ pc[c] = "got" => item[c] \in DOMAIN script[c] /\ script[c][item[c]].op = "get"
  BY DEF ControlInv, ControlType, PcInv, Agent
<1> USE DEF chans, local, task, ctl, api, Goto, Calls, Return
<1>1. CASE AddCall(c)
  BY <1>0, <1>1 DEF AddCall, Destroy, GetReturn, GetClosed, Down, InDestroy, AfterDestroy
<1>2. CASE GetReturn(c) \/ GetClosed(c)
  <2>1. /\ script' = script /\ item'[c] = item[c] + 1 /\ pc[c] \in {"got", "call"} /\ pc'[c] = "call"
        /\ item[c] \in DOMAIN script[c] /\ script[c][item[c]].op = "get"
        /\ \A a \in Agent \ {c} : pc'[a] = pc[a] /\ item'[a] = item[a]
    BY <1>0, <1>2 DEF GetReturn, GetClosed, Answer
  <2>2. ~ AddCall(c) /\ ~ Destroy(c)
    BY <2>1 DEF AddCall, Destroy
  <2>3. Down(c)' <=> Down(c)
    BY <2>1, AfterReturn DEF Down, InDestroy
  <2> QED BY <2>1, <2>2, <2>3 DEF InDestroy
<1>3. CASE Destroy(c)
  BY <1>0, <1>3 DEF Destroy, AddCall, GetReturn, GetClosed, Down, InDestroy
<1> QED BY <1>1, <1>2, <1>3

\* A graph that was shut stays shut.
LEMMA StaysShut ==
  ASSUME ControlInv, ControlInv', DataType, [Next]_vars
  PROVE  Open' => Open
<1> SUFFICES ASSUME NEW c \in Client, Down(c) PROVE \E d \in Client : Down(d)'
  BY DEF Open, Down
<1>1. ASSUME NEW n \in Node, Execute(n) PROVE Down(c)'
  <2>1. script' = script /\ pc'[c] = pc[c] /\ item'[c] = item[c]
    BY <1>1, NodeSilent, GraphAssumption DEF Agent
  <2> QED BY <2>1 DEF Down, InDestroy, AfterDestroy
<1>2. ASSUME NEW d \in Client, Call(d) PROVE Down(c)'
  <2>1. /\ script' = script
        /\ c # d => pc'[c] = pc[c] /\ item'[c] = item[c]
        /\ c = d => (Down(c) => Down(c)')
    <3>1. CASE AddCall(d) \/ GetReturn(d) \/ GetClosed(d) \/ Destroy(d)
      <4>1. /\ script' = script /\ (c # d => pc'[c] = pc[c] /\ item'[c] = item[c])
            /\ ~ Destroy(d) => (Down(d)' <=> Down(d))
            /\ Destroy(d) => Down(d)'
        BY <3>1, ClientSpeaks DEF Agent
      <4> QED BY <4>1
    <3>2. CASE ~ (AddCall(d) \/ GetReturn(d) \/ GetClosed(d) \/ Destroy(d))
      BY <1>2, <3>2, ClientSilent
    <3> QED BY <3>1, <3>2
  <2> QED BY <2>1 DEF Down, InDestroy, AfterDestroy
<1>3. CASE UNCHANGED vars
  BY <1>3 DEF vars, local, api, Down, InDestroy, AfterDestroy
<1> QED BY <1>1, <1>2, <1>3 DEF Next

\* Until then no channel is closed, no node ends, and Subscribe finds its
\* channels open.
OpenInv ==
  Open => /\ \A x \in Chan : ~ closed[x]
          /\ \A n \in Node : pc[n] \in Quiet \cup {"idle"}
          /\ \A n \in Node : pc[n] = "recv" /\ allclosed[n] => item[n] = 1

LEMMA OpenNode ==
  ASSUME ControlInv, ControlInv', DataType, OpenInv, FeedsRight, Open, NEW n \in Node, Execute(n)
  PROVE  /\ closed' = closed /\ pc'[n] \in Quiet
         /\ pc'[n] = "recv" /\ allclosed'[n] => item'[n] = 1
<1>0. /\ n \in Agent /\ pc \in [Agent -> NodePc \cup ClientPc] /\ item \in [Agent -> Nat]
      /\ pc'[n] # "dead" /\ allclosed \in [Node -> BOOLEAN]
      /\ pc[n] \in Quiet \cup {"idle"}
      /\ pc[n] = "recv" /\ allclosed[n] => item[n] = 1
      /\ \A x \in Chan : ~ closed[x]
  BY DEF ControlInv, ControlType, PcInv, DataType, Agent, OpenInv
<1> USE DEF chans, local, task, ctl, api, Goto, Subscribe, Quiet
<1>1. CASE Start(n) \/ Continue(n)
  BY <1>0, <1>1 DEF Start, Continue
<1>2. CASE Receive(n)
  <2>1. <<n, Ins[n][item[n]]>> \in Chan
    BY <1>2, InputChannel DEF Receive
  <2>2. ~ closed[<<n, Ins[n][item[n]]>>]
    BY <1>0, <2>1
  <2>3. /\ ch[<<n, Ins[n][item[n]]>>] # << >> /\ pc[n] = "recv" /\ UNCHANGED <<closed, pc>>
        /\ allclosed' = [allclosed EXCEPT ![n] = @ /\ ~ (ch[<<n, Ins[n][item[n]]>>] # << >>)]
    BY <1>2, <2>2 DEF Receive
  <2>4. ~ allclosed'[n]
    BY <1>0, <2>3
  <2> QED BY <1>0, <2>3, <2>4
<1>3. CASE Proceed(n) \/ Read(n) \/ TaskError(n) \/ Compute(n)
  BY <1>0, <1>3 DEF Proceed, Read, TaskError, Compute, StartSend
<1>4. CASE Write(n)
  BY <1>0, <1>4 DEF Write, StartSend
<1>5. CASE Send(n)
  BY <1>0, <1>5 DEF Send, SendTo, Panic
<1>6. CASE SendNext(n)
  BY <1>0, <1>6 DEF SendNext
<1>7. CASE Break(n)
  <2>1. item[n] = 1 /\ item[n] \notin DOMAIN Ins[n]
    BY <1>0, <1>7 DEF Break, Subscribed
  <2>2. Ins[n] \in Seq(Stream) /\ Ins[n] # << >>
    BY GraphAssumption DEF FeedsRight
  <2>3. 1 \in DOMAIN Ins[n]
    BY <2>2
  <2> QED BY <2>1, <2>3
<1>8. CASE Exit(n) \/ PickStream(n) \/ CloseChannel(n) \/ Drain(n) \/ NextStream(n)
  BY <1>0, <1>8 DEF Exit, PickStream, CloseChannel, Drain, NextStream
<1> QED BY <1>1, <1>2, <1>3, <1>4, <1>5, <1>6, <1>7, <1>8 DEF Execute

LEMMA OpenClient ==
  ASSUME ControlInv, ControlInv', Open, NEW c \in Client, Call(c)
  PROVE  /\ closed' = closed /\ allclosed' = allclosed
         /\ \A n \in Node : /\ item'[n] = item[n]
                            /\ pc'[n] = pc[n] \/ pc'[n] = "start"
<1>0. /\ c \in Agent /\ c \notin Node /\ pc \in [Agent -> NodePc \cup ClientPc]
      /\ item \in [Agent -> Nat] /\ pc'[c] # "dead" /\ ~ InDestroy(c)
      /\ \A n \in Node : n \in Agent
  BY GraphAssumption DEF ControlInv, ControlType, PcInv, Agent, Open
<1> USE DEF chans, local, task, ctl, api, Goto, Calls, Return
<1>1. CASE Run(c)
  BY <1>0, <1>1 DEF Run
<1>2. CASE AddCall(c) \/ AddReturn(c) \/ Get(c) \/ Destroy(c)
  BY <1>0, <1>2 DEF AddCall, AddReturn, Get, Destroy
<1>3. CASE AddSend(c)
  BY <1>0, <1>3 DEF AddSend, SendTo, Panic
<1>4. CASE GetReturn(c) \/ GetClosed(c)
  BY <1>0, <1>4 DEF GetReturn, GetClosed, Answer
<1>5. CASE PickStream(c) \/ CloseChannel(c) \/ Drain(c) \/ NextStream(c) \/ InputsClosed(c)
           \/ StopNode(c) \/ SetStop(c) \/ WaitAll(c)
  BY <1>0, <1>5 DEF PickStream, CloseChannel, Drain, NextStream, InputsClosed, StopNode, SetStop,
                    WaitAll, InDestroy
<1> QED BY <1>1, <1>2, <1>3, <1>4, <1>5 DEF Call

LEMMA OpenKeeps ==
  ASSUME ControlInv, ControlInv', DataType, OpenInv, FeedsRight, [Next]_vars
  PROVE  OpenInv'
<1> SUFFICES ASSUME Open' PROVE /\ \A x \in Chan : ~ closed'[x]
                                /\ \A n \in Node : pc'[n] \in Quiet \cup {"idle"}
                                /\ \A n \in Node : pc'[n] = "recv" /\ allclosed'[n] => item'[n] = 1
  BY DEF OpenInv
<1>1. Open
  BY StaysShut
<1>2. /\ \A x \in Chan : ~ closed[x]
      /\ \A n \in Node : pc[n] \in Quiet \cup {"idle"}
      /\ \A n \in Node : pc[n] = "recv" /\ allclosed[n] => item[n] = 1
  BY <1>1 DEF OpenInv
<1>3. ASSUME NEW n \in Node, Execute(n) PROVE OpenInv'
  <2>1. \A m \in Node \ {n} : pc'[m] = pc[m] /\ item'[m] = item[m] /\ allclosed'[m] = allclosed[m]
    BY <1>3, NodeSilent DEF Agent
  <2>2. closed' = closed /\ pc'[n] \in Quiet /\ (pc'[n] = "recv" /\ allclosed'[n] => item'[n] = 1)
    BY <1>1, <1>3, OpenNode
  <2> QED BY <1>2, <2>1, <2>2 DEF OpenInv
<1>4. ASSUME NEW c \in Client, Call(c) PROVE OpenInv'
  <2>1. /\ closed' = closed /\ allclosed' = allclosed
        /\ \A n \in Node : item'[n] = item[n] /\ (pc'[n] = pc[n] \/ pc'[n] = "start")
    BY <1>1, <1>4, OpenClient
  <2> QED BY <1>2, <2>1 DEF OpenInv, Quiet
<1>5. CASE UNCHANGED vars
  BY <1>2, <1>5 DEF vars, chans, local, task
<1> QED BY <1>3, <1>4, <1>5 DEF Next, OpenInv

\* All data there are were made of the rounds in K.
Within(K) ==
  /\ \A s \in Stream : slot[s] \subseteq K
  /\ \A n \in Node : acc[n] \subseteq K
  /\ \A x \in Chan : \A k \in DOMAIN ch[x] : ch[x][k].d \subseteq K
  /\ \A a \in Agent : \A s \in Stream : held[a][s].d \subseteq K

\* What an entry stands for is such a datum,
LEMMA WithinDeref ==
  ASSUME NEW K, Within(K), NEW e, e.d \subseteq K, NEW s \in Stream
  PROVE  Deref(e, s) \subseteq K /\ Freeze(e, s).d \subseteq K
<1>1. Deref(e, s) \subseteq K
  BY DEF Deref, Within
<1>2. Freeze(e, s).d = Deref(e, s)
  BY DEF Freeze
<1> QED BY <1>1, <1>2

\* and it stays one when channels are filled or emptied.
LEMMA WithinSend ==
  ASSUME DataType, NEW K, Within(K), NEW a, NEW s, NEW e \in Entry, e.d \subseteq K, SendTo(a, s, e)
  PROVE  Within(K)'
<1> DEFINE x == <<Consumers(a, s)[dest[a]], s>>
<1>1. /\ ch' = ch \/ ch' = [ch EXCEPT ![x] = Append(ch[x], e)]
      /\ UNCHANGED <<slot, held, acc>>
  BY DEF SendTo, task
<1> HIDE DEF x
<1>2. ASSUME NEW y \in Chan, NEW k \in DOMAIN ch'[y] PROVE ch'[y][k].d \subseteq K
  <2>1. CASE ch'[y] = ch[y]
    BY <1>2, <2>1 DEF Within
  <2>2. CASE y = x /\ ch'[y] = Append(ch[x], e)
    <3>1. ch[y] \in Seq(Entry)
      BY DEF DataType
    <3>2. Len(ch[y]) \in Nat /\ DOMAIN ch[y] = 1 .. Len(ch[y]) /\ k \in 1 .. Len(ch[y]) + 1
      BY <1>2, <2>2, <3>1
    <3>3. CASE k = Len(ch[y]) + 1
      <4>1. ch'[y][k] = e
        BY <2>2, <3>1, <3>3
      <4> QED BY <4>1
    <3>4. CASE k # Len(ch[y]) + 1
      <4>1. k \in 1 .. Len(ch[y])
        BY <3>2, <3>4
      <4>2. ch'[y][k] = ch[y][k] /\ k \in DOMAIN ch[y]
        BY <2>2, <3>1, <3>2, <4>1
      <4> QED BY <4>2 DEF Within
    <3> QED BY <3>3, <3>4
  <2>3. ch'[y] = ch[y] \/ (y = x /\ ch'[y] = Append(ch[x], e))
    BY <1>1 DEF DataType
  <2> QED BY <2>1, <2>2, <2>3
<1> QED BY <1>1, <1>2 DEF Within

LEMMA WithinTake ==
  ASSUME DataType, NEW K, Within(K), NEW x \in Chan,
         ch' = ch \/ (ch[x] # << >> /\ ch' = [ch EXCEPT ![x] = Tail(ch[x])])
  PROVE  /\ \A y \in Chan : \A k \in DOMAIN ch'[y] : ch'[y][k].d \subseteq K
         /\ ch[x] # << >> => Head(ch[x]).d \subseteq K
<1>1. ch \in [Chan -> Seq(Entry)]
  BY DEF DataType
<1>2. ASSUME NEW y \in Chan, NEW k \in DOMAIN ch'[y] PROVE ch'[y][k].d \subseteq K
  <2>1. CASE ch'[y] = ch[y]
    BY <1>2, <2>1 DEF Within
  <2>2. CASE y = x /\ ch[x] # << >> /\ ch'[y] = Tail(ch[x])
    <3>1. ch[y] \in Seq(Entry) /\ ch[y] # << >> /\ ch'[y] = Tail(ch[y])
      BY <1>1, <2>2
    <3>2. /\ Len(ch[y]) \in Nat /\ DOMAIN ch[y] = 1 .. Len(ch[y])
          /\ k \in 1 .. Len(ch[y]) - 1 /\ ch'[y][k] = ch[y][k + 1]
      BY <1>2, <3>1
    <3>3. k + 1 \in DOMAIN ch[y]
      BY <3>2
    <3> QED BY <3>2, <3>3 DEF Within
  <2>3. ch'[y] = ch[y] \/ (y = x /\ ch[x] # << >> /\ ch'[y] = Tail(ch[x]))
    BY <1>1
  <2> QED BY <2>1, <2>2, <2>3
<1>3. ASSUME ch[x] # << >> PROVE Head(ch[x]).d \subseteq K
  <2>1. ch[x] \in Seq(Entry)
    BY <1>1
  <2>2. Head(ch[x]) = ch[x][1] /\ 1 \in DOMAIN ch[x]
    BY <1>3, <2>1
  <2> QED BY <2>2 DEF Within
<1> QED BY <1>2, <1>3

LEMMA WithinDrain ==
  ASSUME DataType, ControlInv, NEW K, Within(K), NEW a \in Agent, Drain(a)
  PROVE  Within(K)'
<1> DEFINE x == <<Consumers(a, cur[a])[dest[a]], cur[a]>>
<1>1. /\ ch' = ch \/ (ch[x] # << >> /\ ch' = [ch EXCEPT ![x] = Tail(ch[x])])
      /\ UNCHANGED <<slot, held, acc>> /\ pc[a] = "drain"
  BY DEF Drain, task
<1>2. x \in Chan
  BY <1>1, StreamsType, Channels DEF ControlInv, PcInv
<1> HIDE DEF x
<1>3. \A y \in Chan : \A k \in DOMAIN ch'[y] : ch'[y][k].d \subseteq K
  BY <1>1, <1>2, WithinTake
<1> QED BY <1>1, <1>3 DEF Within

\* A node makes data of data.
LEMMA WithinNode ==
  ASSUME ControlInv, DataType, NEW K, Within(K), NEW n \in Node, Execute(n)
  PROVE  Within(K)'
<1>0. n \in Agent
  BY DEF Agent
<1> USE DEF chans, task
<1>1. CASE Start(n) \/ Continue(n) \/ SendNext(n)
  BY <1>1 DEF Start, Continue, SendNext, Within
<1>2. CASE Receive(n)
  <2> DEFINE s == Ins[n][item[n]]
             x == <<n, s>>
             h == IF ch[x] # << >> THEN Head(ch[x]) ELSE NilEntry
  <2>1. x \in Chan /\ s \in Stream
    BY <1>2, InputChannel DEF Receive
  <2>2. /\ ch' = [ch EXCEPT ![x] = IF ch[x] # << >> THEN Tail(@) ELSE @]
        /\ held' = [held EXCEPT ![n][s] = h]
        /\ UNCHANGED <<slot, acc>>
    BY <1>2 DEF Receive
  <2>3. ch' = ch \/ (ch[x] # << >> /\ ch' = [ch EXCEPT ![x] = Tail(ch[x])])
    BY <2>2 DEF DataType
  <2>4. /\ \A y \in Chan : \A k \in DOMAIN ch'[y] : ch'[y][k].d \subseteq K
        /\ ch[x] # << >> => Head(ch[x]).d \subseteq K
    BY <2>1, <2>3, WithinTake
  <2>5. h.d \subseteq K
    BY <2>4 DEF NilEntry
  <2> HIDE DEF s, x, h
  <2>6. ASSUME NEW a \in Agent, NEW r \in Stream PROVE held'[a][r].d \subseteq K
    <3>1. held'[a][r] = IF a = n /\ r = s THEN h ELSE held[a][r]
      BY <1>0, <2>1, <2>2 DEF DataType
    <3> QED BY <2>5, <3>1 DEF Within
  <2> QED BY <2>2, <2>4, <2>6 DEF Within
<1>3. CASE Proceed(n)
  BY <1>3 DEF Proceed, Accumulator, Within, DataType
<1>4. CASE Read(n)
  <2> DEFINE s == Ins[n][item[n]]
  <2>1. /\ acc' = [acc EXCEPT ![n] = @ \cup Deref(held[n][s], s)]
        /\ UNCHANGED <<ch, slot, held>> /\ item[n] \in DOMAIN Ins[n]
    BY <1>4 DEF Read
  <2>2. s \in Stream
    BY <2>1, InputChannel
  <2>3. held[n][s].d \subseteq K
    BY <1>0, <2>2 DEF Within
  <2>4. Deref(held[n][s], s) \subseteq K
    BY <2>2, <2>3, WithinDeref
  <2> HIDE DEF s
  <2> QED BY <2>1, <2>4 DEF Within, DataType
<1>5. CASE TaskError(n)
  <2>1. Reset(n) /\ acc' = acc
    BY <1>5 DEF TaskError
  <2>2. \A s \in Stream : slot'[s] \subseteq K
    BY <2>1 DEF Reset, Within
  <2>3. ASSUME NEW a \in Agent, NEW s \in Stream PROVE held'[a][s].d \subseteq K
    <3>1. held[a][s].d \subseteq K
      BY DEF Within
    <3>2. held'[a][s] = Freeze(held[a][s], s) \/ held'[a][s] = held[a][s]
      BY <2>1 DEF Reset
    <3> QED BY <3>1, <3>2, WithinDeref
  <2>4. ASSUME NEW x \in Chan, NEW k \in DOMAIN ch'[x] PROVE ch'[x][k].d \subseteq K
    <3>1. /\ ch'[x] = IF x[2] \in Range(Outs[n]) THEN [i \in DOMAIN ch[x] |-> Freeze(ch[x][i], x[2])]
                                                  ELSE ch[x]
          /\ x[2] \in Stream
      BY <2>1 DEF Reset, Chan
    <3>2. k \in DOMAIN ch[x]
      BY <2>4, <3>1
    <3>3. ch[x][k].d \subseteq K
      BY <3>2 DEF Within
    <3>4. ch'[x][k] = Freeze(ch[x][k], x[2]) \/ ch'[x][k] = ch[x][k]
      BY <3>1, <3>2
    <3> QED BY <3>1, <3>3, <3>4, WithinDeref
  <2> QED BY <2>1, <2>2, <2>3, <2>4 DEF Within
<1>6. CASE Compute(n)
  BY <1>6 DEF Compute, Within
<1>7. CASE Write(n)
  <2>1. /\ slot' = slot \/ slot' = [slot EXCEPT ![Outs[n][item[n]]] = acc[n]]
        /\ UNCHANGED <<ch, held, acc>>
    BY <1>7 DEF Write
  <2>2. \A s \in Stream : slot'[s] \subseteq K
    BY <2>1 DEF Within, DataType
  <2> QED BY <2>1, <2>2 DEF Within
<1>8. CASE Send(n)
  <2> DEFINE s == Outs[n][item[n]]
             e == IF dest[n] = 1 THEN [alias |-> TRUE, d |-> {}] ELSE [alias |-> FALSE, d |-> slot[s]]
  <2>1. item[n] \in DOMAIN Outs[n] /\ SendTo(n, s, e)
    BY <1>8 DEF Send
  <2>2. s \in Stream
    BY <2>1, GraphAssumption
  <2>3. slot[s] \in Datum /\ slot[s] \subseteq K /\ {} \in Datum
    BY <2>2 DEF DataType, Within, Datum
  <2>4. e \in Entry /\ e.d \subseteq K
    BY <2>3 DEF Entry
  <2> HIDE DEF s, e
  <2> QED BY <2>1, <2>4, WithinSend
<1>9. CASE Drain(n)
  BY <1>0, <1>9, WithinDrain
<1>10. CASE Break(n) \/ Exit(n) \/ PickStream(n) \/ CloseChannel(n) \/ NextStream(n)
  BY <1>10 DEF Break, Exit, PickStream, CloseChannel, NextStream, Within
<1> QED BY <1>1, <1>2, <1>3, <1>4, <1>5, <1>6, <1>7, <1>8, <1>9, <1>10 DEF Execute

\* The rounds for which some input was added: no datum is of another.
Known == {r \in Nat : \E a \in GIn : r <= added[a]}

LEMMA KnownClient ==
  ASSUME ControlInv, DataType, Within(Known), NEW c \in Client, Call(c)
  PROVE  Within(Known)'
<1>0. c \in Agent /\ added \in [GIn -> Nat]
  BY DEF Agent, DataType
<1> USE DEF chans, task, api
<1>1. CASE AddCall(c)
  <2> DEFINE s == script[c][item[c]].s
  <2>1. s \in GIn
    BY <1>1, CallStream DEF AddCall, Calls
  <2>2. added' = [added EXCEPT ![s] = @ + 1] /\ UNCHANGED <<ch, slot, held, acc>>
    BY <1>1 DEF AddCall
  <2> HIDE DEF s
  <2>3. ASSUME NEW r \in Known PROVE r \in Known'
    <3>1. PICK a \in GIn : r <= added[a] /\ r \in Nat
      BY DEF Known
    <3>2. r <= added'[a]
      BY <1>0, <2>1, <2>2, <3>1
    <3> QED BY <3>1, <3>2 DEF Known
  <2> QED BY <2>2, <2>3 DEF Within
<1>2. ASSUME added' = added PROVE Known' = Known
  BY <1>2 DEF Known
<1>3. CASE AddSend(c)
  <2> DEFINE s == script[c][item[c]].s
             e == [alias |-> FALSE, d |-> {added[s]}]
  <2>1. s \in GIn
    BY <1>3, CallStream DEF AddSend, ControlInv, PcInv
  <2>2. SendTo(c, s, e) /\ added' = added
    BY <1>3 DEF AddSend, SendTo
  <2>3. added[s] \in Nat /\ added[s] <= added[s]
    BY <1>0, <2>1
  <2>4. added[s] \in Known
    BY <2>1, <2>3 DEF Known
  <2>5. e \in Entry /\ e.d \subseteq Known
    BY <2>3, <2>4 DEF Entry, Datum
  <2> HIDE DEF s, e
  <2>6. ASSUME NEW K, K = Known PROVE Within(K)'
    BY <2>2, <2>5, <2>6, WithinSend
  <2> QED BY <1>2, <2>2, <2>6 DEF Within
<1>4. CASE Get(c)
  <2> DEFINE s == script[c][item[c]].s
             x == <<Sink, s>>
  <2>1. s \in GOut
    BY <1>4, CallStream DEF Get, Calls
  <2>2. x \in Chan /\ s \in Stream
    BY <2>1, GraphAssumption DEF Chan, Manager
  <2>3. /\ ch[x] # << >> /\ ch' = [ch EXCEPT ![x] = Tail(ch[x])]
        /\ held' = [held EXCEPT ![c][s] = Head(ch[x])]
        /\ UNCHANGED <<slot, acc, added>>
    BY <1>4 DEF Get
  <2>4. /\ \A y \in Chan : \A k \in DOMAIN ch'[y] : ch'[y][k].d \subseteq Known
        /\ Head(ch[x]).d \subseteq Known
    <3>1. ASSUME NEW K, K = Known
          PROVE  /\ \A y \in Chan : \A k \in DOMAIN ch'[y] : ch'[y][k].d \subseteq K
                 /\ Head(ch[x]).d \subseteq K
      <4>1. Within(K)
        BY <3>1
      <4>2. ch' = ch \/ (ch[x] # << >> /\ ch' = [ch EXCEPT ![x] = Tail(ch[x])])
        BY <2>3
      <4> HIDE DEF x
      <4> QED BY <2>2, <2>3, <4>1, <4>2, WithinTake
    <3> QED BY <3>1
  <2> HIDE DEF s, x
  <2>5. ASSUME NEW a \in Agent, NEW r \in Stream PROVE held'[a][r].d \subseteq Known
    <3>1. held'[a][r] = IF a = c /\ r = s THEN Head(ch[x]) ELSE held[a][r]
      BY <1>0, <2>2, <2>3 DEF DataType
    <3> QED BY <2>4, <3>1 DEF Within
  <2> QED BY <1>2, <2>3, <2>4, <2>5 DEF Within
<1>5. CASE GetReturn(c)
  <2> DEFINE s == script[c][item[c]].s
  <2>1. s \in Stream
    BY <1>5, CallStream, GraphAssumption DEF GetReturn, ControlInv, PcInv
  <2>2. held' = [held EXCEPT ![c][s] = NilEntry] /\ UNCHANGED <<ch, slot, acc, added>>
    BY <1>5 DEF GetReturn
  <2> HIDE DEF s
  <2>3. ASSUME NEW a \in Agent, NEW r \in Stream PROVE held'[a][r].d \subseteq Known
    <3>1. held'[a][r] = NilEntry \/ held'[a][r] = held[a][r]
      BY <1>0, <2>1, <2>2 DEF DataType
    <3> QED BY <3>1 DEF Within, NilEntry
  <2> QED BY <1>2, <2>2, <2>3 DEF Within
<1>6. CASE Drain(c)
  <2>1. added' = added
    BY <1>6 DEF Drain
  <2>2. ASSUME NEW K, K = Known PROVE Within(K)'
    BY <1>0, <1>6, <2>2, WithinDrain
  <2> QED BY <1>2, <2>1, <2>2 DEF Within
<1>7. CASE Run(c) \/ AddReturn(c) \/ GetClosed(c) \/ Destroy(c) \/ PickStream(c) \/ CloseChannel(c)
           \/ NextStream(c) \/ InputsClosed(c) \/ StopNode(c) \/ SetStop(c) \/ WaitAll(c)
  <2>1. UNCHANGED <<ch, slot, held, acc, added>>
    BY <1>7 DEF Run, AddReturn, GetClosed, Destroy, PickStream, CloseChannel, NextStream,
                InputsClosed, StopNode, SetStop, WaitAll
  <2> QED BY <1>2, <2>1 DEF Within
<1> QED BY <1>1, <1>3, <1>4, <1>5, <1>6, <1>7 DEF Call

LEMMA KnownKeeps ==
  ASSUME ControlInv, ControlInv', DataType, Within(Known), [Next]_vars
  PROVE  Within(Known)'
<1>1. ASSUME NEW n \in Node, Execute(n) PROVE Within(Known)'
  <2>1. Known' = Known
    BY <1>1, NodeSilent DEF Known
  <2>2. ASSUME NEW K, K = Known PROVE Within(K)'
    BY <1>1, <2>2, WithinNode
  <2> QED BY <2>1, <2>2 DEF Within
<1>2. CASE UNCHANGED vars
  BY <1>2 DEF vars, chans, task, api, Within, Known
<1> QED BY <1>1, <1>2, KnownClient DEF Next

-----------------------------------------------------------------------------
\* One call more.
LEMMA CountNext ==
  ASSUME NEW f, NEW c, NEW o, NEW s, NEW i \in Nat, i >= 1
  PROVE  /\ CallsBefore(f, c, o, s, i) \in Nat
         /\ CallsBefore(f, c, o, s, i + 1) =
              CallsBefore(f, c, o, s, i) + (IF f[c][i].op = o /\ f[c][i].s = s THEN 1 ELSE 0)
<1> DEFINE P(j) == f[c][j].op = o /\ f[c][j].s = s
           S == {j \in 1 .. i - 1 : P(j)}
           T == {j \in 1 .. (i + 1) - 1 : P(j)}
<1>1. IsFiniteSet(1 .. i - 1)
  BY FS_Interval
<1>2. IsFiniteSet(S)
  BY <1>1, FS_Subset
<1>3. Cardinality(S) \in Nat
  BY <1>2, FS_CardinalityType
<1>4. i \notin S
  OBVIOUS
<1>5. T = IF P(i) THEN S \cup {i} ELSE S
  <2>1. \A j \in Int : j \in 1 .. (i + 1) - 1 <=> j \in 1 .. i - 1 \/ j = i
    OBVIOUS
  <2> HIDE DEF P
  <2> QED BY <2>1
<1>6. P(i) => Cardinality(T) = Cardinality(S) + 1
  BY <1>2, <1>4, <1>5, FS_AddElement
<1>7. CallsBefore(f, c, o, s, i) = Cardinality(S) /\ CallsBefore(f, c, o, s, i + 1) = Cardinality(T)
  BY DEF CallsBefore
<1>8. CASE P(i)
  BY <1>3, <1>6, <1>7, <1>8
<1>9. CASE ~ P(i)
  <2>1. T = S
    BY <1>5, <1>9
  <2> HIDE DEF S, T
  <2> QED BY <1>3, <1>7, <1>9, <2>1
<1> QED BY <1>8, <1>9

\* What the client that drives the graph has added and been answered.
CountOf(c) ==
  /\ item[c] >= 1
  /\ \A a \in GIn : added[a] = CallsBefore(script, c, "add", a, item[c])
                               + (IF pc[c] = "add" /\ script[c][item[c]].s = a THEN 1 ELSE 0)
  /\ \A s \in GOut : Len(got[s]) = CallsBefore(script, c, "get", s, item[c])

CountInv == \A c \in Client : script[c] # << >> => CountOf(c)

\* A step that adds nothing, answers nothing and ends no call to add or get.
LEMMA CountSame ==
  ASSUME ControlInv, NEW c \in Client, CountOf(c),
         added' = added, got' = got, script' = script, pc[c] # "add", pc'[c] # "add",
         \/ item'[c] = item[c]
         \/ item'[c] = item[c] + 1 /\ script[c][item[c]].op \notin {"add", "get"}
  PROVE  CountOf(c)'
<1>1. item[c] \in Nat /\ item[c] >= 1
  BY DEF ControlInv, ControlType, CountOf, Agent
<1>2. ASSUME NEW o \in {"add", "get"}, NEW s
      PROVE  /\ CallsBefore(script, c, o, s, item[c]) \in Nat
             /\ CallsBefore(script, c, o, s, item[c] + 1) =
                  CallsBefore(script, c, o, s, item[c])
                  + (IF script[c][item[c]].op = o /\ script[c][item[c]].s = s THEN 1 ELSE 0)
  <2>1. PICK i \in Nat : i = item[c]
    BY <1>1
  <2>2. PICK f : f = script
    OBVIOUS
  <2>3. /\ CallsBefore(f, c, o, s, i) \in Nat
        /\ CallsBefore(f, c, o, s, i + 1) =
             CallsBefore(f, c, o, s, i) + (IF f[c][i].op = o /\ f[c][i].s = s THEN 1 ELSE 0)
    BY <1>1, <2>1, CountNext
  <2> QED BY <2>1, <2>2, <2>3
<1>3. ASSUME NEW o \in {"add", "get"}, NEW s
      PROVE  CallsBefore(script', c, o, s, item'[c]) = CallsBefore(script, c, o, s, item[c])
  <2>1. CASE item'[c] = item[c]
    BY <2>1
  <2>2. CASE item'[c] = item[c] + 1 /\ script[c][item[c]].op \notin {"add", "get"}
    BY <1>2, <2>2
  <2> QED BY <2>1, <2>2
<1>4. item'[c] >= 1
  BY <1>1
<1> QED BY <1>3, <1>4 DEF CountOf

\* The counts before the next call, of the calls that matter.
LEMMA CountStep ==
  ASSUME ControlInv, NEW c \in Client, CountOf(c), script' = script
  PROVE  /\ item'[c] = item[c] =>
              \A o \in {"add", "get"} : \A s :
                CallsBefore(script', c, o, s, item'[c]) = CallsBefore(script, c, o, s, item[c])
         /\ item'[c] = item[c] + 1 =>
              \A o \in {"add", "get"} : \A s :
                CallsBefore(script', c, o, s, item'[c]) =
                  CallsBefore(script, c, o, s, item[c])
                  + (IF script[c][item[c]].op = o /\ script[c][item[c]].s = s THEN 1 ELSE 0)
         /\ \A o \in {"add", "get"} : \A s : CallsBefore(script, c, o, s, item[c]) \in Nat
<1>1. item[c] \in Nat /\ item[c] >= 1
  BY DEF ControlInv, ControlType, CountOf, Agent
<1>2. ASSUME NEW o \in {"add", "get"}, NEW s
      PROVE  /\ CallsBefore(script, c, o, s, item[c]) \in Nat
             /\ CallsBefore(script, c, o, s, item[c] + 1) =
                  CallsBefore(script, c, o, s, item[c])
                  + (IF script[c][item[c]].op = o /\ script[c][item[c]].s = s THEN 1 ELSE 0)
  <2>1. PICK i \in Nat : i = item[c]
    BY <1>1
  <2>2. PICK f : f = script
    OBVIOUS
  <2>3. /\ CallsBefore(f, c, o, s, i) \in Nat
        /\ CallsBefore(f, c, o, s, i + 1) =
             CallsBefore(f, c, o, s, i) + (IF f[c][i].op = o /\ f[c][i].s = s THEN 1 ELSE 0)
    BY <1>1, <2>1, CountNext
  <2> QED BY <2>1, <2>2, <2>3
<1> QED BY <1>2

LEMMA CountClient ==
  ASSUME ControlInv, ControlInv', DataType, NEW c \in Client, CountOf(c), Call(c)
  PROVE  CountOf(c)'
<1>0. /\ c \in Agent /\ c \notin Node /\ pc \in [Agent -> NodePc \cup ClientPc]
      /\ item \in [Agent -> Nat] /\ pc'[c] # "dead" /\ item[c] >= 1
      /\ added \in [GIn -> Nat] /\ got \in [GOut -> Seq(Result)]
      /\ pc[c] = "add" => item[c] \in DOMAIN script[c] /\ script[c][item[c]].op = "add"
      /\ pc[c] = "got" => item[c] \in DOMAIN script[c] /\ script[c][item[c]].op = "get"
      /\ InDestroy(c) => script[c][item[c]].op = "destroy"
  BY GraphAssumption DEF ControlInv, ControlType, PcInv, DataType, Agent, CountOf
<1>1. CASE Run(c)
  <2>1. /\ added' = added /\ got' = got /\ script' = script /\ item'[c] = item[c] + 1
        /\ pc[c] = "call" /\ pc'[c] = "call" /\ script[c][item[c]].op = "run"
    BY <1>0, <1>1 DEF Run, Calls, api
  <2> QED BY <2>1, CountSame
<1>2. CASE AddCall(c)
  <2> DEFINE s == script[c][item[c]].s
  <2>1. /\ added' = [added EXCEPT ![s] = @ + 1] /\ got' = got /\ script' = script
        /\ item'[c] = item[c] /\ pc[c] = "call" /\ pc'[c] = "add"
    BY <1>0, <1>2 DEF AddCall, Calls, Goto
  <2>2. ASSUME NEW a \in GIn
        PROVE  added'[a] = CallsBefore(script', c, "add", a, item'[c])
                           + (IF pc'[c] = "add" /\ script'[c][item'[c]].s = a THEN 1 ELSE 0)
    <3>0. added[a] = CallsBefore(script, c, "add", a, item[c]) + 0
      BY <2>1 DEF CountOf
    <3>9. CallsBefore(script, c, "add", a, item[c]) \in Nat
      BY <2>1, CountStep
    <3>1. added[a] = CallsBefore(script, c, "add", a, item[c]) /\ added[a] \in Nat
      BY <3>0, <3>9
    <3>2. CallsBefore(script', c, "add", a, item'[c]) = CallsBefore(script, c, "add", a, item[c])
      BY <2>1
    <3>3. added'[a] = IF s = a THEN added[a] + 1 ELSE added[a]
      BY <1>0, <2>1
    <3> QED BY <2>1, <3>1, <3>2, <3>3
  <2> QED BY <1>0, <2>1, <2>2 DEF CountOf
<1>3. CASE AddSend(c)
  <2>1. /\ added' = added /\ got' = got /\ script' = script /\ item'[c] = item[c]
        /\ pc[c] = "add" /\ pc'[c] = "add"
    BY <1>0, <1>3 DEF AddSend, SendTo, Panic, api
  <2> QED BY <2>1 DEF CountOf
<1>4. CASE AddReturn(c)
  <2>1. /\ added' = added /\ got' = got /\ script' = script /\ item'[c] = item[c] + 1
        /\ pc[c] = "add" /\ pc'[c] = "call" /\ script[c][item[c]].op = "add"
    BY <1>0, <1>4 DEF AddReturn, Return, Goto, api
  <2>2. ASSUME NEW a \in GIn
        PROVE  added'[a] = CallsBefore(script', c, "add", a, item'[c])
    BY <2>1, CountStep DEF CountOf
  <2>3. ASSUME NEW s \in GOut
        PROVE  Len(got'[s]) = CallsBefore(script', c, "get", s, item'[c])
    <3>1. CallsBefore(script', c, "get", s, item'[c]) =
            CallsBefore(script, c, "get", s, item[c]) + 0
      BY <2>1, CountStep
    <3> QED BY <2>1, <3>1, CountStep DEF CountOf
  <2>4. \A a \in GIn : CallsBefore(script', c, "add", a, item'[c]) \in Nat
    BY <1>0, <2>1, <2>2
  <2> QED BY <1>0, <2>1, <2>2, <2>3, <2>4 DEF CountOf
<1>5. CASE Get(c)
  <2>1. /\ added' = added /\ got' = got /\ script' = script /\ item'[c] = item[c]
        /\ pc[c] = "call" /\ pc'[c] = "got"
    BY <1>0, <1>5 DEF Get, Calls, Goto, local, api
  <2> QED BY <2>1, CountSame
<1>6. CASE GetReturn(c) \/ GetClosed(c)
  <2> DEFINE s == script[c][item[c]].s
  <2>0. s \in GOut
    BY <1>0, <1>6, CallStream DEF GetReturn, GetClosed, Calls
  <2>1. \E e \in Result : got' = [got EXCEPT ![s] = Append(@, e)]
    <3>1. CASE GetClosed(c)
      <4>1. got' = [got EXCEPT ![s] = Append(@, [ok |-> FALSE, d |-> {}])]
        BY <3>1 DEF GetClosed, Answer
      <4>2. [ok |-> FALSE, d |-> {}] \in Result
        BY DEF Result, Datum
      <4> QED BY <4>1, <4>2
    <3>2. CASE GetReturn(c)
      <4> DEFINE d == Deref(held[c][s], s)
      <4>1. held[c][s] \in Entry
        BY <1>0, <2>0, GraphAssumption DEF DataType
      <4>2. d \in Datum
        BY <2>0, <4>1, DerefType, GraphAssumption
      <4>3. got' = [got EXCEPT ![s] = Append(@, [ok |-> TRUE, d |-> d])]
        BY <3>2 DEF GetReturn, Answer
      <4> HIDE DEF d, s
      <4>4. [ok |-> TRUE, d |-> d] \in Result
        BY <4>2 DEF Result
      <4> QED BY <4>3, <4>4
    <3> QED BY <1>6, <3>1, <3>2
  <2>2. /\ added' = added /\ script' = script /\ item'[c] = item[c] + 1
        /\ pc[c] # "add" /\ pc'[c] # "add" /\ script[c][item[c]].op = "get"
    BY <1>0, <1>6 DEF GetReturn, GetClosed, Answer, Return, Goto, Calls
  <2> HIDE DEF s
  <2>9. PICK e \in Result : got' = [got EXCEPT ![s] = Append(@, e)]
    BY <2>1
  <2>3. ASSUME NEW r \in GOut
        PROVE  Len(got'[r]) = CallsBefore(script', c, "get", r, item'[c])
    <3>1. CallsBefore(script', c, "get", r, item'[c]) =
            CallsBefore(script, c, "get", r, item[c]) + (IF s = r THEN 1 ELSE 0)
      BY <2>2, CountStep DEF s
    <3>2. got[r] \in Seq(Result) /\ Len(got[r]) = CallsBefore(script, c, "get", r, item[c])
      BY <1>0 DEF CountOf
    <3>3. got'[r] = IF s = r THEN Append(got[r], e) ELSE got[r]
      BY <1>0, <2>0, <2>9
    <3>4. Len(got[r]) \in Nat /\ Len(Append(got[r], e)) = Len(got[r]) + 1
      BY <2>9, <3>2
    <3>5. CASE s = r
      BY <3>1, <3>2, <3>3, <3>4, <3>5
    <3>6. CASE s # r
      BY <3>1, <3>2, <3>3, <3>4, <3>6
    <3> QED BY <3>5, <3>6
  <2>4. ASSUME NEW a \in GIn
        PROVE  added'[a] = CallsBefore(script', c, "add", a, item'[c])
    <3>1. CallsBefore(script', c, "add", a, item'[c]) =
            CallsBefore(script, c, "add", a, item[c]) + 0
      BY <2>2, CountStep
    <3>2. CallsBefore(script, c, "add", a, item[c]) \in Nat
      BY CountStep, <2>2
    <3>3. added[a] = CallsBefore(script, c, "add", a, item[c]) + 0
      BY <2>2 DEF CountOf
    <3> QED BY <2>2, <3>1, <3>2, <3>3
  <2>5. \A a \in GIn : added'[a] \in Nat
    BY <1>0, <2>2
  <2> QED BY <1>0, <2>2, <2>3, <2>4, <2>5 DEF CountOf
<1>7. CASE Destroy(c) \/ PickStream(c) \/ CloseChannel(c) \/ Drain(c) \/ NextStream(c)
           \/ InputsClosed(c) \/ StopNode(c) \/ SetStop(c)
  <2>1. /\ added' = added /\ got' = got /\ script' = script /\ item'[c] = item[c]
        /\ pc[c] # "add" /\ pc'[c] # "add"
    <3>1. CASE Destroy(c) \/ InputsClosed(c) \/ StopNode(c) \/ SetStop(c)
      BY <1>0, <3>1 DEF Destroy, InputsClosed, StopNode, SetStop, Calls, Goto, api
    <3>2. CASE PickStream(c) \/ Drain(c) \/ NextStream(c)
      BY <1>0, <3>2 DEF PickStream, Drain, NextStream, Goto, api, local
    <3>3. CASE CloseChannel(c)
      BY <1>0, <3>3 DEF CloseChannel, Panic, Goto, api, local
    <3> QED BY <1>7, <3>1, <3>2, <3>3
  <2> QED BY <2>1, CountSame
<1>8. CASE WaitAll(c)
  <2>1. /\ added' = added /\ got' = got /\ script' = script /\ item'[c] = item[c] + 1
        /\ pc[c] = "stop" /\ pc'[c] = "call" /\ script[c][item[c]].op = "destroy"
    BY <1>0, <1>8 DEF WaitAll, Return, Goto, api, InDestroy
  <2> QED BY <2>1, CountSame
<1> QED BY <1>1, <1>2, <1>3, <1>4, <1>5, <1>6, <1>7, <1>8 DEF Call

\* In lock step one client makes all calls.
LEMMA OneCaller ==
  ASSUME ControlInv, \A f \in Scripts : RoundByRound(f), NEW c \in Client, Call(c)
  PROVE  /\ item[c] \in DOMAIN script[c] /\ script[c] # << >> /\ Writes(script, c)
         /\ \A e \in Client \ {c} : script[e] = << >> /\ ~ Down(e)
<1>1. /\ script \in Scripts /\ script \in [Client -> Seq(Op)]
      /\ RoundByRound(script)
  BY GraphAssumption DEF ControlInv, ControlType
<1>2. item[c] \in DOMAIN script[c]
  <2>1. /\ pc[c] \in {"add", "got"} \/ InDestroy(c) => item[c] \in DOMAIN script[c]
        /\ c \in Agent
    BY DEF ControlInv, PcInv, Agent
  <2>2. CASE Run(c) \/ AddCall(c) \/ Get(c) \/ GetClosed(c) \/ Destroy(c)
    BY <2>2 DEF Run, AddCall, Get, GetClosed, Destroy, Calls
  <2>3. CASE AddSend(c) \/ AddReturn(c) \/ GetReturn(c)
    BY <2>1, <2>3 DEF AddSend, AddReturn, GetReturn
  <2>4. CASE PickStream(c) \/ CloseChannel(c) \/ Drain(c) \/ NextStream(c) \/ InputsClosed(c)
             \/ StopNode(c) \/ SetStop(c) \/ WaitAll(c)
    BY <2>1, <2>4 DEF PickStream, CloseChannel, Drain, NextStream, InputsClosed, StopNode, SetStop,
                      WaitAll, InDestroy
  <2> QED BY <2>2, <2>3, <2>4 DEF Call
<1>3. script[c] # << >>
  BY <1>2
<1>4. Writes(script, c) /\ \A e \in Client \ {c} : script[e] = << >>
  BY <1>1, <1>3 DEF RoundByRound
<1>5. ASSUME NEW e \in Client \ {c} PROVE ~ Down(e)
  <2>1. DOMAIN script[e] = {}
    BY <1>4
  <2> QED BY <2>1 DEF Down, AfterDestroy, ControlInv, PcInv
<1> QED BY <1>2, <1>3, <1>4, <1>5

LEMMA CountKeeps ==
  ASSUME ControlInv, ControlInv', DataType, CountInv, [Next]_vars,
         \A f \in Scripts : RoundByRound(f)
  PROVE  CountInv'
<1>1. ASSUME NEW n \in Node, Execute(n) PROVE CountInv'
  <2>1. /\ added' = added /\ got' = got /\ script' = script
        /\ \A c \in Client : pc'[c] = pc[c] /\ item'[c] = item[c]
    BY <1>1, NodeSilent, GraphAssumption DEF Agent
  <2> QED BY <2>1 DEF CountInv, CountOf
<1>2. ASSUME NEW c \in Client, Call(c) PROVE CountInv'
  <2>1. script[c] # << >> /\ \A e \in Client \ {c} : script[e] = << >>
    BY <1>2, OneCaller
  <2>2. CountOf(c)'
    BY <1>2, <2>1, CountClient DEF CountInv
  <2>3. script' = script
    BY <1>2, ClientSilent, ClientSpeaks
  <2> QED BY <2>1, <2>2, <2>3 DEF CountInv
<1>3. CASE UNCHANGED vars
  BY <1>3 DEF vars, local, api, CountInv, CountOf
<1> QED BY <1>1, <1>2, <1>3 DEF Next

\* A client that has taken a datum took it before Destroy had returned.
GotInv == \A c \in Client : pc[c] = "got" => ~ AfterDestroy(c)

LEMMA GotKeeps ==
  ASSUME ControlInv, ControlInv', DataType, DestroyLeavesNothing, GotInv, [Next]_vars
  PROVE  GotInv'
<1>1. ASSUME NEW n \in Node, Execute(n) PROVE GotInv'
  <2>1. script' = script /\ \A c \in Client : pc'[c] = pc[c] /\ item'[c] = item[c]
    BY <1>1, NodeSilent, GraphAssumption DEF Agent
  <2> QED BY <2>1 DEF GotInv, AfterDestroy
<1>2. ASSUME NEW c \in Client, Call(c) PROVE GotInv'
  <2>0. c \in Agent /\ c \notin Node /\ pc \in [Agent -> NodePc \cup ClientPc] /\ pc'[c] # "dead"
    BY GraphAssumption DEF ControlInv, ControlType, PcInv, Agent
  <2>1. script' = script /\ \A e \in Client \ {c} : pc'[e] = pc[e] /\ item'[e] = item[e]
    BY <1>2, ClientSilent, ClientSpeaks DEF Agent
  <2>2. CASE Get(c)
    <3> DEFINE x == <<Sink, script[c][item[c]].s>>
    <3>1. ch[x] # << >> /\ item' = item /\ x \in Chan
      <4>1. script[c][item[c]].s \in GOut
        BY <2>2, CallStream DEF Get, Calls
      <4> QED BY <2>2, <4>1, GraphAssumption DEF Get, local, Chan, Manager
    <3>2. ~ AfterDestroy(c)
      BY <3>1 DEF DestroyLeavesNothing
    <3> HIDE DEF x
    <3> QED BY <2>1, <3>1, <3>2 DEF GotInv, AfterDestroy
  <2>3. CASE ~ Get(c)
    <3>1. pc'[c] # "got"
      <4> USE DEF Goto, Return, Calls
      <4>1. CASE Run(c) \/ AddCall(c) \/ AddReturn(c) \/ GetReturn(c) \/ GetClosed(c) \/ Destroy(c)
        BY <2>0, <4>1 DEF Run, AddCall, AddReturn, GetReturn, GetClosed, Answer, Destroy
      <4>2. CASE AddSend(c)
        BY <2>0, <4>2 DEF AddSend, SendTo, Panic
      <4>3. CASE PickStream(c) \/ Drain(c) \/ NextStream(c)
        BY <2>0, <4>3 DEF PickStream, Drain, NextStream
      <4>4. CASE CloseChannel(c)
        BY <2>0, <4>4 DEF CloseChannel, Panic
      <4>5. CASE InputsClosed(c) \/ StopNode(c) \/ SetStop(c) \/ WaitAll(c)
        BY <2>0, <4>5 DEF InputsClosed, StopNode, SetStop, WaitAll
      <4> QED BY <1>2, <2>3, <4>1, <4>2, <4>3, <4>4, <4>5 DEF Call
    <3> QED BY <2>1, <3>1 DEF GotInv, AfterDestroy
  <2> QED BY <2>2, <2>3
<1>3. CASE UNCHANGED vars
  BY <1>3 DEF vars, local, api, GotInv, AfterDestroy
<1> QED BY <1>1, <1>2, <1>3 DEF Next

\* An answer's inputs have been added: whoever has sent k data on the way from
\* input a to output s has taken k before.
LEMMA FedBefore ==
  ASSUME ControlInv, DataType, NEW rd \in [Node -> Nat], NEW taken \in [Chan -> Nat],
         Fresh(rd, taken), NEW k \in Nat, NEW s \in GOut, NEW a \in GIn, DependsOn(s, a),
         taken[<<Sink, s>>] >= k, NEW c \in Client, Writes(script, c)
  PROVE  added[a] >= k
<1>0. /\ ch \in [Chan -> Seq(Entry)] /\ added \in [GIn -> Nat]
      /\ c \in Agent /\ c \notin Node /\ PortOf(c) = Source /\ \A n \in Node : n \in Agent
      /\ GIn \subseteq Stream /\ GOut \subseteq Stream
      /\ \A n \in Node : Range(Outs[n]) \subseteq Stream
  BY GraphAssumption, StreamsType DEF DataType, Agent, PortOf, StreamsOf
<1> DEFINE U == {n \in Node : rd[n] >= k}
\* Who fills a channel from which k were taken has begun k rounds.
<1>1. ASSUME NEW p \in Agent, Producer(p), NEW t \in StreamsOf(p), NEW j \in DOMAIN Consumers(p, t),
             taken[<<Consumers(p, t)[j], t>>] >= k
      PROVE  Made(rd, p, t) >= k
  <2> DEFINE x == <<Consumers(p, t)[j], t>>
  <2>1. x \in Chan
    BY StreamsType, Channels
  <2>2. Sent(taken, x) <= Made(rd, p, t)
    BY <1>1 DEF Fresh, Pace, PaceOf
  <2>3. taken[x] \in Nat /\ Len(ch[x]) \in Nat /\ taken[x] >= k
    BY <1>0, <1>1, <2>1
  <2>4. Made(rd, p, t) \in Nat
    BY <1>0 DEF Made, StreamsOf
  <2> HIDE DEF x
  <2> QED BY <2>2, <2>3, <2>4 DEF Sent
<1>2. ASSUME NEW n \in Node, NEW t \in Range(Outs[n]), NEW m \in Range(NextInputManagers[n][t]),
             taken[<<m, t>>] >= k
      PROVE  n \in U
  <2>1. PICK j \in DOMAIN Consumers(n, t) : Consumers(n, t)[j] = m
    BY DEF Consumers, PortOf, Range
  <2>2. Producer(n) /\ t \in StreamsOf(n) /\ Made(rd, n, t) = rd[n]
    BY DEF Producer, StreamsOf, Made
  <2> QED BY <1>0, <1>1, <1>2, <2>1, <2>2
<1>3. ASSUME NEW m \in U, NEW t \in Stream, <<m, t>> \in Chan PROVE taken[<<m, t>>] >= k
  <2>1. t \in Range(Ins[m]) /\ m \in Node
    BY <1>3, GraphAssumption DEF Chan, Agent
  <2>2. PICK j \in DOMAIN Ins[m] : Ins[m][j] = t
    BY <2>1 DEF Range
  <2>3. taken[<<m, t>>] >= rd[m] /\ rd[m] >= k
    BY <2>1, <2>2 DEF Fresh, Works, NodeIn
  <2>4. taken[<<m, t>>] \in Nat /\ rd[m] \in Nat
    BY <1>3, <2>1
  <2> HIDE DEF U
  <2> QED BY <2>3, <2>4
<1>4. ASSUME NEW n \in Node, s \in Range(Outs[n]) /\ Sink \in Range(NextInputManagers[n][s])
      PROVE  n \in U
  BY <1>2, <1>4
<1>5. ASSUME NEW m \in U, NEW n \in Node, SendsTo(n, m) PROVE n \in U
  <2>1. PICK t \in Range(Outs[n]) : m \in Range(NextInputManagers[n][t])
    BY <1>5 DEF SendsTo
  <2>2. <<m, t>> \in Chan /\ t \in Stream
    BY <1>0, <2>1, WiringAssumption DEF WellWired, Port
  <2> HIDE DEF U
  <2> QED BY <1>2, <1>3, <2>1, <2>2
<1>6. U \in SUBSET Node
  OBVIOUS
<1> HIDE DEF U
<1>7. PICK n \in U : n \in Range(NextInputManagers[Source][a])
  BY <1>4, <1>5, <1>6 DEF DependsOn
<1>8. PICK j \in DOMAIN Consumers(c, a) : Consumers(c, a)[j] = n
  BY <1>0, <1>7 DEF Consumers, Range
<1>9. /\ Producer(c) /\ a \in StreamsOf(c) /\ Made(rd, c, a) = added[a]
      /\ <<n, a>> \in Chan
  BY <1>0, <1>8, Channels DEF Producer, StreamsOf, Made
<1>10. taken[<<n, a>>] >= k
  BY <1>0, <1>3, <1>9
<1> QED BY <1>0, <1>1, <1>8, <1>9, <1>10

\* What GetGraphOutputData returns in lock step: the datum of its round, or nil.
LEMMA AnswerRight ==
  ASSUME ControlInv, DataType, OpenInv, Within(Known), CountInv, GotInv, FreshInv, FeedsRight,
         \A f \in Scripts : RoundByRound(f),
         NEW c \in Client, GetReturn(c), NEW s \in GOut, s = script[c][item[c]].s
  PROVE  /\ Open
         /\ \A a \in Feeds[s] : added[a] >= Len(got[s]) + 1
         /\ Deref(held[c][s], s) \in {{}, {Len(got[s]) + 1}}
<1> DEFINE k == Len(got[s]) + 1
<1>0. /\ c \in Agent /\ s \in Stream /\ got[s] \in Seq(Result) /\ <<Sink, s>> \in Chan
      /\ pc[c] = "got" /\ item[c] \in DOMAIN script[c] /\ script[c][item[c]].op = "get"
      /\ held \in [Agent -> [Stream -> Entry]] /\ added \in [GIn -> Nat]
      /\ script \in Scripts
  BY GraphAssumption DEF Agent, DataType, GetReturn, ControlInv, PcInv, ControlType, Chan, Manager
<1>1. Call(c)
  BY DEF Call
<1>2. /\ script[c] # << >> /\ Writes(script, c) /\ CountOf(c)
      /\ \A e \in Client \ {c} : ~ Down(e)
  BY <1>1, OneCaller DEF CountInv
<1>3. Open
  BY <1>0, <1>2 DEF Open, Down, GotInv, InDestroy
<1>4. k \in Nat /\ Len(got[s]) \in Nat
  BY <1>0
<1>5. PICK rd \in [Node -> Nat] : \E t \in [Chan -> Nat] : Fresh(rd, t)
  BY DEF FreshInv
<1>6. PICK taken \in [Chan -> Nat] : Fresh(rd, taken)
  BY <1>5
<1>7. ~ Drained(s)
  BY <1>0, <1>3 DEF OpenInv, Drained
<1>8. taken[<<Sink, s>>] > Len(got[s]) /\ AtLeast(slot, rd, held[c][s], s, Len(got[s]) + 1)
  BY <1>0, <1>6, <1>7 DEF Fresh, Answered, AnswerOf
<1>9. taken[<<Sink, s>>] >= k
  <2>1. taken[<<Sink, s>>] \in Nat
    BY <1>0
  <2> QED BY <1>4, <1>8, <2>1
<1>10. ASSUME NEW a \in Feeds[s] PROVE added[a] >= k
  <2>1. a \in GIn /\ DependsOn(s, a)
    BY DEF FeedsRight
  <2> HIDE DEF k
  <2> QED BY <1>2, <1>4, <1>6, <1>9, <2>1, FedBefore
<1>11. \A r \in Deref(held[c][s], s) : r >= k
  BY <1>8 DEF AtLeast, Deref
<1>12. \A a \in GIn : added[a] <= k
  <2> SUFFICES ASSUME NEW a \in GIn PROVE added[a] <= k
    OBVIOUS
  <2>1. CallsBefore(script, c, "add", a, item[c]) <= CallsBefore(script, c, "get", s, item[c]) + 1
    BY <1>0, <1>2 DEF RoundByRound
  <2>2. added[a] = CallsBefore(script, c, "add", a, item[c]) + 0
    BY <1>0, <1>2 DEF CountOf
  <2>3. Len(got[s]) = CallsBefore(script, c, "get", s, item[c])
    BY <1>2 DEF CountOf
  <2>4. added[a] \in Nat
    BY <1>0
  <2>5. CallsBefore(script, c, "add", a, item[c]) \in Nat
    <3>1. PICK i \in Nat : i = item[c] /\ i >= 1
      BY <1>0, <1>2 DEF CountOf, ControlInv, ControlType
    <3>2. PICK f : f = script
      OBVIOUS
    <3>3. CallsBefore(f, c, "add", a, i) \in Nat
      BY <3>1, CountNext
    <3> QED BY <3>1, <3>2, <3>3
  <2> QED BY <1>4, <2>1, <2>2, <2>3, <2>4, <2>5
<1>13. Deref(held[c][s], s) \subseteq Known
  <2>1. held[c][s].d \subseteq Known
    BY <1>0 DEF Within
  <2>2. ASSUME NEW K, K = Known PROVE Deref(held[c][s], s) \subseteq K
    <3>1. PICK e : e = held[c][s]
      OBVIOUS
    <3>2. Within(K) /\ e.d \subseteq K
      BY <2>1, <2>2, <3>1
    <3>3. Deref(e, s) \subseteq K
      BY <1>0, <3>2, WithinDeref
    <3> QED BY <3>1, <3>3
  <2> QED BY <2>2
<1>14. \A r \in Deref(held[c][s], s) : r = k
  <2> SUFFICES ASSUME NEW r \in Deref(held[c][s], s) PROVE r = k
    OBVIOUS
  <2>1. PICK a \in GIn : r <= added[a] /\ r \in Nat
    BY <1>13 DEF Known
  <2>2. r >= k /\ added[a] <= k /\ added[a] \in Nat
    BY <1>0, <1>11, <1>12
  <2> HIDE DEF k
  <2> QED BY <1>4, <2>1, <2>2
<1> HIDE DEF k
<1>15. Deref(held[c][s], s) \in {{}, {k}}
  BY <1>14
<1> QED BY <1>3, <1>10, <1>15 DEF k

\* The steps of the runtime are steps of the service, or none.
LEMMA ServiceStep ==
  ASSUME ControlInv, ControlInv', DataType, OpenInv, Within(Known), CountInv, GotInv, FreshInv,
         FeedsRight, \A f \in Scripts : Orderly(f) /\ RoundByRound(f), [Next]_vars
  PROVE  [Service!Next]_(Service!vars)
<1>0. ASSUME added' = added, got' = got, Open' <=> Open PROVE UNCHANGED Service!vars
  <2>1. Open' = Open
    BY <1>0, Zenon DEF Open
  <2> QED BY <1>0, <2>1 DEF Service!vars
<1>1. ASSUME NEW n \in Node, Execute(n) PROVE UNCHANGED Service!vars
  <2>1. /\ added' = added /\ got' = got /\ script' = script
        /\ \A c \in Client : pc'[c] = pc[c] /\ item'[c] = item[c]
    BY <1>1, NodeSilent, GraphAssumption DEF Agent
  <2>2. Open' <=> Open
    BY <2>1 DEF Open, InDestroy, AfterDestroy
  <2> QED BY <1>0, <2>1, <2>2
<1>2. ASSUME NEW c \in Client, Call(c) PROVE Service!Next \/ UNCHANGED Service!vars
  <2> DEFINE s == script[c][item[c]].s
  <2>1. /\ \A e \in Client \ {c} : ~ Down(e)
        /\ script' = script /\ \A e \in Client \ {c} : pc'[e] = pc[e] /\ item'[e] = item[e]
        /\ item[c] \in DOMAIN script[c]
    BY <1>2, OneCaller, ClientSilent, ClientSpeaks DEF Agent
  <2>2. Open <=> ~ Down(c)
    BY <2>1 DEF Open, Down
  <2>3. Open' <=> ~ Down(c)'
    <3>1. \A e \in Client \ {c} : ~ Down(e)'
      BY <2>1 DEF Down, InDestroy, AfterDestroy
    <3> QED BY <3>1 DEF Open, Down
  <2>4. Orderly(script) /\ script[c] \in Seq(Op) /\ item[c] \in Nat
    BY GraphAssumption DEF ControlInv, ControlType, Agent
  <2>5. ~ Destroy(c) => Open' = Open
    <3>1. ~ Destroy(c) => (Down(c)' <=> Down(c))
      BY <1>2, ClientSilent, ClientSpeaks
    <3>2. ~ Destroy(c) => (Open' <=> Open)
      BY <2>2, <2>3, <3>1
    <3> QED BY <3>2, Zenon DEF Open
  \* No client adds to a graph it has destroyed, nor destroys it again.
  <2>6. AddCall(c) \/ Destroy(c) => Open
    <3> SUFFICES ASSUME AddCall(c) \/ Destroy(c) PROVE ~ Down(c)
      BY <2>2
    <3>1. script[c][item[c]].op \in {"add", "destroy"} /\ ~ InDestroy(c)
      BY ClientSpeaks
    <3>2. ~ AfterDestroy(c)
      BY <2>1, <2>4, <3>1 DEF Orderly, AfterDestroy
    <3> QED BY <3>1, <3>2 DEF Down
  <2>7. CASE AddCall(c)
    <3>1. s \in GIn /\ ~ Destroy(c)
      BY <2>1, <2>7, CallStream, ClientSpeaks DEF AddCall, Destroy, Calls
    <3>2. added' = [added EXCEPT ![s] = @ + 1] /\ got' = got
      BY <2>7 DEF AddCall
    <3> HIDE DEF s
    <3>3. Service!Submit(s)
      BY <2>5, <2>6, <2>7, <3>1, <3>2 DEF Service!Submit
    <3> QED BY <3>1, <3>3 DEF Service!Next
  <2>8. CASE GetReturn(c)
    <3>1. s \in GOut /\ ~ Destroy(c) /\ added' = added
      BY <2>1, <2>8, CallStream, ClientSpeaks DEF GetReturn, Destroy, Calls
    <3>2. PICK r \in GOut : r = s
      BY <3>1
    <3>3. PICK d : d = Deref(held[c][r], r)
      OBVIOUS
    <3>4. got' = [got EXCEPT ![r] = Append(@, [ok |-> TRUE, d |-> d])]
      BY <2>8, <3>2, <3>3 DEF GetReturn, Answer
    <3>5. /\ Open /\ \A a \in Feeds[r] : added[a] >= Len(got[r]) + 1
          /\ d \in {{}, {Len(got[r]) + 1}}
      BY <2>8, <3>2, <3>3, AnswerRight
    <3> HIDE DEF s
    <3>6. Service!Answer(r)
      BY <2>5, <3>1, <3>4, <3>5 DEF Service!Answer
    <3> QED BY <3>6 DEF Service!Next
  <2>9. CASE GetClosed(c)
    <3>1. s \in GOut /\ ~ Destroy(c) /\ added' = added
      BY <2>1, <2>9, CallStream, ClientSpeaks DEF GetClosed, Destroy, Calls
    <3>2. got' = [got EXCEPT ![s] = Append(@, [ok |-> FALSE, d |-> {}])] /\ closed[<<Sink, s>>]
      BY <2>9 DEF GetClosed, Answer
    <3>3. ~ Open
      BY <3>1, <3>2, GraphAssumption DEF OpenInv, Chan, Manager
    <3> HIDE DEF s
    <3>4. Service!Refuse(s)
      BY <2>5, <3>1, <3>2, <3>3 DEF Service!Refuse
    <3> QED BY <3>1, <3>4 DEF Service!Next
  <2>10. CASE Destroy(c)
    <3>1. added' = added /\ got' = got /\ Open /\ ~ Open'
      BY <2>3, <2>6, <2>10, ClientSpeaks
    <3>2. Open' = FALSE
      BY <3>1, Zenon DEF Open
    <3>3. Service!Shutdown
      BY <3>1, <3>2 DEF Service!Shutdown
    <3> QED BY <3>3 DEF Service!Next
  <2>11. CASE ~ (AddCall(c) \/ GetReturn(c) \/ GetClosed(c) \/ Destroy(c))
    <3>1. added' = added /\ got' = got
      BY <1>2, <2>11, ClientSilent
    <3> QED BY <2>5, <2>11, <3>1, <1>0
  <2> QED BY <2>7, <2>8, <2>9, <2>10, <2>11
<1>3. CASE UNCHANGED vars
  BY <1>3 DEF vars, local, api, Service!vars, Open, InDestroy, AfterDestroy
<1> QED BY <1>1, <1>2, <1>3 DEF Next

\* The service has not been asked for anything at first.
LEMMA ServiceInit ==
  ASSUME Init, \A f \in Scripts : RoundByRound(f)
  PROVE  Service!Init /\ OpenInv /\ Within(Known) /\ CountInv /\ GotInv
<1>0. /\ \A a \in Agent : item[a] = 1
      /\ \A c \in Client : pc[c] = "call" /\ c \in Agent
      /\ \A n \in Node : pc[n] = "idle"
      /\ script \in [Client -> Seq(Op)]
  BY GraphAssumption DEF Init, Agent
<1>1. \A c \in Client : ~ InDestroy(c) /\ ~ AfterDestroy(c)
  <2> SUFFICES ASSUME NEW c \in Client PROVE ~ InDestroy(c) /\ ~ AfterDestroy(c)
    OBVIOUS
  <2>1. item[c] = 1 /\ \A k \in DOMAIN script[c] : k \in 1 .. Len(script[c])
    BY <1>0
  <2> QED BY <1>0, <2>1 DEF InDestroy, AfterDestroy
<1>2. Open /\ Open = TRUE
  BY <1>1, Zenon DEF Open
<1>3. Service!Init
  BY <1>2 DEF Init, Service!Init
<1>4. OpenInv
  BY <1>0 DEF Init, OpenInv
<1>5. Within(Known)
  BY DEF Init, Within, NilEntry
<1>6. \A f, c, o, s : CallsBefore(f, c, o, s, 1) = 0
  <2> SUFFICES ASSUME NEW f, NEW c, NEW o, NEW s PROVE CallsBefore(f, c, o, s, 1) = 0
    OBVIOUS
  <2>1. {j \in 1 .. 1 - 1 : f[c][j].op = o /\ f[c][j].s = s} = {}
    OBVIOUS
  <2> QED BY <2>1, FS_EmptySet DEF CallsBefore
<1>7. CountInv
  <2> SUFFICES ASSUME NEW c \in Client PROVE CountOf(c)
    BY DEF CountInv
  <2>1. \A a \in GIn : added[a] = 0
    BY DEF Init
  <2>2. \A s \in GOut : Len(got[s]) = 0
    BY DEF Init
  <2>3. item[c] = 1 /\ pc[c] = "call"
    BY <1>0
  <2> QED BY <1>6, <2>1, <2>2, <2>3 DEF CountOf
<1>8. GotInv
  BY <1>0 DEF GotInv
<1> QED BY <1>3, <1>4, <1>5, <1>7, <1>8

\* Driven in lock step, the runtime is the service the graph's users rely on:
\* the k-th answer of an output is made of the k-th inputs alone, or is nil; it
\* comes after every input the output depends on; and reads fail only once
\* Destroy has been called.  A node without inputs is excluded: Subscribe finds
\* all of its inputs closed, and the node closes its outputs at once.
THEOREM LockStepService ==
  ASSUME \A f \in Scripts : Orderly(f) /\ RunFirst(f) /\ RoundByRound(f), Fed, FeedsRight
  PROVE  Spec => ImplementsService
<1> DEFINE LInv == OpenInv /\ Within(Known) /\ CountInv /\ GotInv /\ FreshInv
<1>0. \A f \in Scripts : OneReader(f)
  <2> SUFFICES ASSUME NEW f \in Scripts, NEW c \in Client, NEW e \in Client,
                      NEW k \in DOMAIN f[c], NEW l \in DOMAIN f[e]
               PROVE  c = e
    BY DEF OneReader
  <2>1. f[c] # << >> /\ f[e] # << >> /\ RoundByRound(f)
    OBVIOUS
  <2> QED BY <2>1 DEF RoundByRound
<1>1. Spec => []IInv
  BY Invariance
<1>2. Spec => []DestroyLeavesNothing
  BY LeavesNothing
<1>3. Init => LInv
  BY ServiceInit, InitFresh
<1>4. IInv /\ IInv' /\ DestroyLeavesNothing /\ LInv /\ [Next]_vars => LInv'
  <2> SUFFICES ASSUME IInv, IInv', DestroyLeavesNothing, LInv, [Next]_vars PROVE LInv'
    OBVIOUS
  <2>1. ControlInv /\ ControlInv' /\ DataType /\ DataType'
    BY DEF IInv
  <2>2. OpenInv'
    BY <2>1, OpenKeeps
  <2>3. Within(Known)'
    BY <2>1, KnownKeeps
  <2>4. CountInv' /\ GotInv'
    BY <2>1, CountKeeps, GotKeeps
  <2>5. FreshInv'
    BY <1>0, <2>1, FreshKeeps
  <2> QED BY <2>2, <2>3, <2>4, <2>5
<1>5. IInv /\ IInv' /\ LInv /\ [Next]_vars => [Service!Next]_(Service!vars)
  BY ServiceStep DEF IInv
<1>6. Init => Service!Init
  BY ServiceInit
<1> HIDE DEF LInv
<1> QED BY <1>1, <1>2, <1>3, <1>4, <1>5, <1>6, PTL DEF Spec, ImplementsService, Service!Spec
=============================================================================
