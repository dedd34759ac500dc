# DNI: a TLA+ development of the graph runtime

DNI (`dni/`) runs *graphs*: nodes that each hold a task, connected by named
streams. A graph is written down in a configuration file; the framework checks
it, wires the nodes, opens their tasks and moves data through them. There are
two implementations, in Go (`dni/go`) and in C++ (`dni/framework`), a small
Python scheduler (`dni/python`), tasks for each of them, and a service
(`dni/go/service`) that detects attacks with a Go graph.

This directory specifies both runtimes from the configuration to the end of a
graph, and the C++ program that is built on the framework: the detection and
tracing tasks, the packet parsers, the servers that read a ring in shared memory
and the programs under `samples/ddos` that drive the graphs. It is checked with
TLC and, where a property should hold for graphs of any size, proved with TLAPS.

## 1. Inventory

| Component | State | Operations | Interacts with |
|---|---|---|---|
| topological sort, `config.go` `IsExistLoop` | counters, queue, sorted list | one pass over a predecessor map | called for streams and for side data |
| wiring, `config.go` `GetNodeEdge`, `GetSourceEdge`, `graph.go` `Link*` | name maps, lists of readers | checks, edges, linking | gives the runtime its channels |
| flow managers, `inputmanager.go`, `outputmanager.go` | one Go channel (capacity 1000) per input stream | send, receive, close and drain | nodes and the graph's handlers |
| node, `node.go` | status, mutex, `stopinfo`, task context | `Execute` (a goroutine), `Destroy` | receives, runs a task, sends |
| graph API, `graph.go` | status, wait group | `PrepareForRun`, `Run`, `AddGraphInputData`, `GetGraphOutputData`, `Destroy` | clients' goroutines |
| side data, `graph.go`, `output_sidedata_manager.go` | one slot per name and reader | set before the run | tasks' `Open` |
| stream names, `NewStreamUnit`, `DataSlice` | tag/index and name maps | parse, lookup | tasks' `Process` |
| graph manager, `service/manager/manager.go` | a map of graphs under one mutex | run, feed, read, destroy by name | the DMS service |
| shared memory ring, `service/generator/ringbuffer.go` | head, tail, slots | `Write`, `Read` | a producer in another process |
| DMS loop and tasks, `service/dms`, `sdk/task/dms` | thresholds, counters, rules | assess, arbitrate, analyse | a graph driven round by round |
| C++ tags, `utils/tags.cc`, `utils/names.cc` | slots by tag and index, names | parse `TAG:INDEX:NAME`, number repeated names | every declaration of streams |
| C++ configuration, `graph_config.cc`, `node_config.cc` | owners of streams, upstream ids, predecessors | `ParsedGraphConfig::Initialize`, `Graph::Initialize`, `Node::Initialize` | gives the run its order and mirrors |
| C++ stream queues, `input_stream_manager.cc`, `*_stream_handler.cc` | a locked queue per mirror, time bounds, closed flags | add, propagate, sync, close | producer, consumer and closing threads |
| C++ graph, `graph.cc`, `node.cc` | a task flow, its future `fu_`, observed outputs, side data | `PrepareForRun`, `RunOnce`, `Wait`, `Cancel`, `GetResult`, `Finish` | tasks on worker threads; a client thread |
| C++ tasks, `dni/tasks`, `formats/cidr.cc` | options; data of one call | `Process` | typed data, checked when consumed |
| packet parsers and MFR preprocessing, `rb_data_parse*.cc`, `rb_data_mfr.cc`, `pcap_parse_task.cc` | a cursor over raw bytes, batches | parse, pad, vote | fill the graphs' inputs |
| ONNX tasks, `dni/tasks/onnx` | shapes of a model, sizes | load, shape, run, copy | external runtime |
| detection servers, `realtime_with_sccm_with_grpc`, `realtime_A100` | ring, a queue of pointers and graphs per thread, a stream to the client | `read_rb`, `calc_graph`, `CalculateGraph` | sccm (another process), a gRPC client |
| sample programs, `samples/ddos` | a cascade of graphs | observe, inject, run, read | the graphs of their pbtxt files |
| Python scheduler, remaining samples, third party | sequential data | transformations | - |

What is hard here, and what makes each part correct:

* Node goroutines, the drain of a closed channel and the clients all compete
  for the same channels; a send on a closed channel ends the program. Correct:
  each channel has one sender, which closes it once, after its last send.
* A task writes its output into one object per stream, round after round, and
  the first consumer gets a pointer to it. Correct: an answer belongs to its
  round, as long as the graph is driven in lock step.
* `Destroy` waits for all node goroutines. Correct: it returns, and leaves no
  goroutine, no open channel and no datum.
* A configuration may repeat names, miss sources, or loop. Correct: exactly the
  sensible ones are accepted, and what is accepted is wired as the runtime needs.
* `PrepareForRun` may fail half way and be called again. Correct: every task
  is opened with all its side data, and with those of this call.
* The ring's writer never looks at the reader. Correct: what is read is whole
  and in order whatever was overrun, and the reader catches up.
* The manager looks names up under its mutex and uses the graph after unlocking.
  Correct: with names of their own, callers never meet a nil or closed graph,
  and a call returns unless it waits for a round nobody gave it.
* A C++ task that fails cancels the round through a future that may not be
  assigned yet. Correct: the round ends, a complete round leaves nothing queued,
  and an answer is of its round.
* A C++ datum is only compared with the type a task wants when it is consumed,
  and a failure is read as a default. Correct: programs, pbtxt files and tasks
  agree on names and types, and a default never raises an alarm.
* The servers hand out pointers into a ring that another process writes.
  Correct: what is answered is of one slot, and a graph outlives the
  `calc_graph` thread that runs it. `read_rb`, which pushes to the queues of the
  graphs, is cancelled only after they were deleted.
* The tasks are long loops over maps and lists that are changed while they are
  read. Correct: what is taken out is reported, what is reported becomes a rule.
* Counter differences on unsigned integers (Go assessor): a hazard, not modelled.

`PROJECT.json` lists every component with its status, every hazard at its line,
and the source lines each definition models.

## 2. Modules

| Module | Models | Notes |
|---|---|---|
| `TopoSort` | `IsExistLoop` | one step per loop iteration; successors in any (map) order |
| `Wiring` | - | what correct wiring is (`WellWired`, `SingleWriter`, `AllFed`); shared by the next module and `FlowGraph` |
| `GraphUnit` | `GetNodeEdge`, `GetSourceEdge`, `LinkNodeEdge`, `LinkSourceEdge` | one step per loop iteration, rejections included |
| `SideData` | `Graph.PrepareForRun`, `Node.PrepareForRun`, `OutputSideDataManager` | one call after the other, each may fail |
| `FlowGraph`, `MC_FlowGraph` | `Node.Execute`, `Node.Destroy`, the flow managers, `Run`, `Destroy`, `AddGraphInputData`, `GetGraphOutputData` | one action per step of a goroutine |
| `ShmRing` | `ShareMemomry.Write`, `Read`, `NewShareMemomry`, the loop of `dms.go` | two processes; offsets in bytes, `uint32` arithmetic |
| `GraphManager` | `service/manager/manager.go` | callers, one mutex, two critical sections in `RunGraph`; a graph is the rounds in its channels |
| `GraphService` | the promise to the code that drives a graph | refined by `FlowGraph`, checked and proved |
| `Sums` | - | sums, products and powers as recursive functions |
| `SeqLemmas`, `*_proofs` | - | lemmas and proofs |
| `TagMap` | `TagMap::Initialize`, `ParseTagIndexName` | a string is the sequence of its fields |
| `CppConfig` | `ParsedGraphConfig`, `Graph::Initialize`, `Node::Initialize` | one step per node and pass, one per input where mirrors are entered, rejections and the crash on a malformed node included |
| `StreamQueue` | output streams, mirrors, queues, `SyncSet` | producer, consumer and closers; a lock per operation |
| `CppGraph`, `MC_CppGraph` | `Graph`, `Node`, side data | workers, a caller, cancels before and after `fu_` is assigned |
| `CidrBlocks`, `Cidr` | `formats/cidr.cc` | against the set of addresses they stand for |
| `AttackerMerge` | `SndAttackerIPMergeTask` | its four programs; known addresses sorted or as the request has them |
| `Features`, `AttackTracing` | the tasks of graph 3 | extends `AttackerMerge`; both variants of grouping and of rules |
| `DetectTasks`, `Detection` | the tasks of graphs 1 and 2, and the cascade | nodes in any order the streams allow |
| `PacketBytes`, `PacketParse` | the five packet parsers | a field is known by its true offset; a packet has the size of its capture |
| `MfrInput` | preprocessing and vote of the MFR model | characters by number and origin, lengths unsigned |
| `OnnxTask` | loaders and `Process` of the ONNX tasks | a tensor is its number of values |
| `DniServer` | one `CalculateGraph` call of both servers | sccm, `read_rb`, a thread per graph, the main thread |
| `GraphPrograms` | the programs of `samples/ddos`, their pbtxt files, the types of the tasks | one node per step |
| `CppInputs`, `MC_CppComponents` | - | inputs of the sequential C++ components, and the run of all of them |
| `MC_GoConfig` | - | the run of `TopoSort`, `GraphUnit` and `SideData` |
| `MC_Services` | - | the run of both servers, the sample programs, the Go manager and its ring |

Four MC modules check several components in one run: `MC_GoConfig`
(`TopoSort`, `GraphUnit`, `SideData`), `MC_CppComponents`
(`CppConfig`, `TagMap`, `Cidr`, `AttackerMerge`, `AttackTracing`,
`Detection`, `PacketParse`, `MfrInput`, `OnnxTask`), `MC_CppGraph` (`CppGraph`,
`StreamQueue`) and `MC_Services` (`DniServer` twice, `GraphPrograms`,
`GraphManager`, `ShmRing`).
They do not compose them: a variable `part` says which one a
behaviour is of, and the variables of the others keep one of their first states.
A component with a theorem about a property of its own is extended, with its
constants in the cfg (the three of `MC_GoConfig`; `CppConfig`, `TagMap`, `AttackTracing`, `PacketParse`,
`MfrInput`, `OnnxTask`; `CppGraph`, `StreamQueue`; `GraphManager`, `ShmRing`), so that TLC and TLAPS speak of the same
definition, which holds trivially while the component rests. The others are
instances with their constants given in the `INSTANCE`.

The Go modules form a chain. `TopoSort` shows what the verdict and the order of
`IsExistLoop` are; `GraphUnit` uses the verdict and establishes `Wired`;
`FlowGraph` assumes exactly that (`WiringAssumption`, with the operators of
`Wiring`), and `SideData` assumes the order (`TopologicalOrder`).

**Data.** In `FlowGraph` a datum is the set of input rounds it was computed
from: the k-th datum of an input is `{k}`, a task outputs the union of what it
read, `{}` is the nil a failed task leaves. That is all the properties tell
apart. A channel entry is either a value or an alias of the producer's object,
so that the in-place write of the next round is visible through it, as in Go.
`SumTask` is the task that is modelled: it reads its inputs one by one, fails on
nil, and writes its outputs. In `SideData` a value is the number of the call that
made it.

**State and actions of `FlowGraph`.** `ch` and `closed` are the channels,
`slot` the producers' objects, `held` a node's `Inputs.Values`, `mutex`,
`stopinfo` and `ready` the variables of the same name, `pc` and the positions the
control state of each goroutine, `added` and `got` what clients did and got.
`Receive`, `Break`, `Continue`, `Proceed`, `Read`, `TaskError`, `Compute`,
`Write`, `Send`, `SendNext`, `Exit` follow `Execute`; `PickStream`,
`CloseChannel`, `Drain`, `NextStream` follow `OutputManager.Close`;
`StopNode`, `SetStop`, `WaitAll` follow `Destroy`. `Panic` is the Go runtime's
reaction to a send on, or a close of, a closed channel.

**State and actions of `GraphManager`.** `lock` and `GraphMap` are the fields of
`gm`; `call` says in which function a caller is and how far. Of a graph the model
keeps what decides whether a call waits: `inq` and `outq`, the rounds in its
input and output channels, and `surplus`, data that came without those of the
other streams (the error about a missing stream is dropped in
`AddInputsToGraph`). A channel holds `Cap` of them. `AddInputsToGraph` waits for
room and `GetGraphOutputs` for a round; both panic on a nil graph, a send also on
a closed one. `Destroy` and `Destroyed` are the two ends of `DestroyGraph`, which
holds the mutex meanwhile: with data on their way a node may keep its own mutex
(`node.go:85-88`, see `flow_destroy_hangs`), and then the graph is in `hung` and
`Destroyed` never comes. `Refuse` is the return that skips the `Unlock`.

**The C++ side.** `TagMap` gives `CppConfig` its names, `CppConfig` gives
`CppGraph` its predecessors (`PredsEarlier` is why rounds end), `StreamQueue` is
the detail of the queues that `CppGraph` keeps as sequences. In `CppGraph` and
`GraphPrograms` a datum is the set of rounds it was made from, in `GraphPrograms`
with its C++ type; in `DetectTasks` it is a type and a value, scores in
hundredths. Hash maps are walked in any order. `DniServer` leaves open what the
graphs compute, `Detection` and `AttackTracing` compute it, and `GraphPrograms`
says which streams the programs feed and read. A node whose task fails sends on
what it had emitted before (`ProcessFail`, `node.cc:317-321`). In `MfrInput` a
length is computed as the code does, modulo `ULONG`, and the length of TCP options
modulo 2^16; a read beyond the packet gives bytes that are not the packet's or,
where they are not mapped, ends the process (`MfrFault`). The stand-ins for what is not in
the repository (task flow, ONNX runtime, sccm, gRPC) are marked external in
`PROJECT.json`.

Definitions named as "Mutant of ..." are not part of a specification. They are
variants of the definition that follows, each a bug one could have made in that
place; replacing the definition by it must violate the property listed with it
in `PROJECT.json`.

## 3. Runs

| Run | Instance | Shows |
|---|---|---|
| `go_config` | the steps to a graph that is ready, one at a time, see below | 6 invariants and a liveness property, see below |
| `flow_lock_step` | the graph of `test/config/02-graph.yaml`; two rounds, `Destroy`, a late read; channels of 1; every task may fail | `NoPanic`, `AllReturn`, `ImplementsService` |
| `flow_no_waiting` | same graph, channels of 2, a task that may fail: a feeder and a reader, three rounds; or `Destroy` before `Run`, with data on their way, and after the calls of `TestGraphAPI2` | `NeverOlder`, `DestroyLeavesNothing`; `PipelinedReturn` for the feeder and the reader |
| `flow_destroy_hangs` | the calls of `TestGraphAPI2` | **violation** of `DestroyCompletes` |
| `cpp_components` | one component at a time, see below | `PartTypeOK` and 11 invariants, see below |
| `cpp_config_unsorted` | the configurations of `cpp_components` | **violation** of `WrittenIsConnected` |
| `cpp_merge_third_byte`, `cpp_known_unsorted` | the inputs of `AttackerMerge` in `cpp_components` | **violation** of `ErasedIsReported`, of `RandomIsUnknown` |
| `cpp_mfr_cut_packet` | the captures of `MfrInput` in `cpp_components` | **violation** of `PayloadInPacket` |
| `cpp_graph` | 3 nodes, side data, 3 rounds, failing tasks; or a stream with 2 mirrors and 2 data | `FullRoundDrains`, `AnswerOfRound`, `RoundEnds`; `EachOnceInOrder`, `SyncExact` |
| `services` | one service at a time, see below | 5 invariants, 3 liveness properties and an action property, see below |
| `manager_refused` | the manager of `services`, 2 graphs | **violation** of `MutexComesBack` |

A component that was checked by several properties has them joined in one,
named first below; the parts after it are definitions of the
component's own module. The inductive invariants of section 4 are proved and not
checked again by TLC.

| Part | Instance | Shows |
|---|---|---|
| sort (`TopoSort`) | all predecessor maps over 4 nodes, self loops included | `SortedIsTopological`, `VerdictCorrect`, `SortReturns` |
| wiring (`GraphUnit`) | all configurations of 2 nodes over 3 names, at most 2 inputs and 2 outputs per node | `Wired`, `VerdictRight` |
| side data (`SideData`) | all accepted configurations of 3 nodes over 3 names, all topological orders, 2 calls | `OpenSeesInputs`, `ReadyIsComplete` |
| configuration (`CppConfig`) | every wiring of 2 nodes over 2 names, malformed declarations, side data, 3 nodes whose names meet numbered ones | `WiredAsNamed` (`WiredOnce`, `PredecessorsFeed`, `GraphInputsOwn`), `PredsEarlier` |
| declarations (`TagMap`) | up to 3 streams of every form, 2 infos | `SlotsExact` (`EachInItsSlot`, `InfosDistinct`) |
| CIDR functions (`Cidr`) | all sets and ranges of 3-bit addresses | `BlocksExact` (`MergeExact`, `RangeExact`, `SplitBounded`) |
| attackers (`AttackerMerge`) | 5-bit addresses, bytes of 2 bits, up to 3 sources, requests in any order | `AttackersRight` (`LostByProgram3`, `NormalIsSpared`, `RandomIsRare`) |
| graph 3 (`AttackTracing`) | 2 NICs with 3 packets each; dedup tasks, or the older pair | `RulesCoverAttack` (`EachIsDropped`, `LinksComplete`, `RandomIsLimited`) |
| graphs 1 and 2 (`Detection`) | one slot, both sides of each threshold | `DetectionRight` (`NothingFails`, `ThresholdHighest`, `AbnormalMeansTwo`, `FewSourcesConfirm`) |
| parsers (`PacketParse`) | up to 3 packets: tags, options, other protocols | `ReadsWhatWasWritten`, `FeaturesTrue` |
| model input (`MfrInput`) | batches of 3 items of 2 packets; packets cut within each header, header lengths below the least | `BatchRight` (`BatchFitsBuffer`, `FewLeftOut`, `PayloadAfterHeaders`, `MajorityDecides`) |
| ONNX tasks (`OnnxTask`) | fixed and dynamic models, 3 runs | `RowsRight` (`FirstInputRows`, `OnlyFixedShapesThrow`, `OneRowPerRow`) |
| rounds (`CppGraph`) | a and b read x, b reads side datum w, c reads both | `FullRoundDrains`, `AnswerOfRound`, `RoundEnds` |
| stream (`StreamQueue`) | 2 mirrors, 2 data, all times between and at the ends | `EachOnceInOrder`, `SyncExact` (`LossOnlyAtClose`, `SyncAtExact`) |
| gRPC server (`DniServer`) | 3 slots in the ring, 4 written, queue of 3 | `SlotsInOrder` (`QueueKeepsAll`, `AnswersInOrder`), `UsedIsValid` (`ValidForOneLap`, `GraphOutlivesThread`), `ShutsDown` |
| A100 server (`DniServer`) | 2 graphs, 4 slots, queues of 2 | the same |
| programs (`GraphPrograms`) | all 14, 3 rounds | `ResultsReal` (`NoFalseAlarm`; for the 6 in which no task fails also `FedForRound`, `EveryResultReal`) |
| manager (`GraphManager`) | two callers with a name each, which they may ask for again, 3 graphs, channels of one round | `MapIsRunning` (`MapHoldsRunning`, `NoOrphan`, `NeverPanics`), `EachCallReturns` |
| ring (`ShmRing`) | 4 slots, 10 writes, a restart of the reader | `ReadsInOrder`, `OneWriteOfSlack`, `CatchesUp` |

*Bounds.* Four nodes give every shape of cycle and join the counters of
`IsExistLoop` can meet (self loop, two- and three-cycles, diamonds, disconnected
parts). Two nodes and three names give repeated names within and across nodes,
self loops, two-cycles, missing sources, and node outputs hidden by graph
inputs. The 02 graph has a stream with two readers, one of them the graph's
output, a node that reads both a graph input and another node, and two outputs:
every branch of `AddData` and `Subscribe`. Ten writes are two and a half laps of
four slots; `Word` is not a multiple of the ring's size, as 2^32 is not of 2000
MiB. Channels of one or two let senders block where 1000 would need a thousand
rounds; they also let a producer run ahead of a reader, which is what aliasing
needs. On the C++ side, two nodes over two names give a node that reads itself,
a reader declared before its writer and names taken twice; three rounds let a
datum that a cancelled round left meet the next two. Bytes of two bits keep the
four address levels of `SndAttackerIPMergeTask` (W > 2 * Byte); 3-bit addresses
give every alignment of a range. Three packets per capture are enough for a
cursor that goes wrong in the first to show in the next two. A ring of three
slots with four written is more than one lap, the least at which a slot is
overwritten; of two graphs one can be behind the other. The programs of
`GraphPrograms` are finite, and three rounds show what one leaves to the next.
In `GraphManager` three graphs let a name be used again after it was given up
while another caller waits, and channels of one round make callers wait for room
that 1000 data would only take longer to fill; two callers are enough for one to
keep the mutex from the other. `ULONG` is 2^20 instead of 2^64: all lengths are
below 2^16, so it is only reached by wrapping, and `MfrBatchRight` is proved for
every value from 2^17 on.
The scripts of calls are finite, so these runs may stop: deadlock is not an
error there, and `AllReturn`, or `PipelinedReturn`, says what must have happened
by then.

*Fairness.* Weak fairness for each node goroutine and each client: the Go
scheduler runs every goroutine that can run. Nothing is assumed of the choice
between a drain and a reader that compete for a datum. `TopoSort` is one
sequential function: weak fairness of its next step. In `ShmRing` the service
polls for ever and its graph answers (`AllReturn` in lock step), and a write
once begun ends; the writer may stop writing, and need not restart anyone.
In `CppGraph` the executor runs every task that is ready and ends a topology
that is done, and a task's `Process` returns; the caller may stop between
rounds. In `DniServer` each thread runs on, sccm and the client need do nothing.
In `GraphManager` a call in progress has strong fairness: `sync.RWMutex` does
not let a waiting goroutine starve while the others lock and unlock, and a Go
channel serves those who wait for it in turn. The goroutines of a graph have weak
fairness (`Compute`); callers need not call.

*What `flow_destroy_hangs` shows.* `Execute` locks `n.mutex` and, when the round
is to be skipped, continues without unlocking it (`node.go:85-88`). It is skipped
when one input was closed and another still delivered. In `TestGraphAPI2`
(`test/sdk_test.go:38`) B gets one datum more than A; when `Destroy` closes A and
n1 takes that datum before the drain does, n1 keeps its mutex, its own next pass
or `Node.Destroy` blocks on it, and `Destroy` never returns. It is the only way
found in which a call of a graph does not return: in lock step the run
`flow_lock_step` shows `AllReturn`.

*What `cpp_config_unsorted` shows.* The comment on `ParsedGraphConfig::Initialize`
(`graph_config.cc:303-304`) speaks of a topological sort; the code resolves each
input against the outputs of the nodes declared so far, so a reader declared
before its writer stays unconnected, and nothing says so.

*What the runs of the manager show.* `EachCallReturns` in `services` says when a
call returns.
The mutex is got unless a refusal has kept it or a `Destroy` hangs under it; a
`DestroyGraph` of a graph with nothing on its way ends; and a call that found its
graph needs room, or a round that is there or on its way, and then returns even
when the mutex is lost. `manager_refused`: a caller that has a graph asks for its
name again, `RunGraph` says that it exists and returns without the `Unlock`
(`manager.go:25`), and all later calls wait for ever. Names of
their own (`OwnNames`) are needed for `MapIsRunning`, in the run and in the
theorem: two callers that ask for one name both find it free, build a graph and
enter it (`manager.go:40`), and the first graph runs on with no name by which it
could be destroyed (`NoOrphan` fails). Refusals are part of both.

*What `cpp_merge_third_byte` shows.* `Program3` pushes third bytes unshifted to a
list of `uint8_t` (`attacker_ip_merge_task.cc:407`), which stores zeros. The range
it reports is the first /24 of the /16 whatever the addresses are, though the
comments (`:331`, `:394`, `:441`) speak of all segments with masks from 16 to 24;
addresses of other /24s are erased and reported nowhere. `LostByProgram3` says
that nothing else is lost.

*What `cpp_known_unsorted` shows.* `std::set_difference` (`:503`) needs the known
addresses in order; the sort is commented out (`:502`), and only the gRPC server
sorts them itself. With a request that does not ascend a known address is called
random, though the comment (`:486`) says that the known ones are taken off.
`RandomIsRare` says what holds in any order, and that an ascending list is enough.

*What `cpp_mfr_cut_packet` shows.* `data_len` is an unsigned difference of the
packet's length and the header lengths the packet gives (`rb_data_mfr.cc:298`,
`:325`, `:354`, `:364`). A TCP packet cut to 40 bytes has its payload read from
byte 54 on, 240 bytes of it, where the comment (`:363`) has a part of the packet
in mind. `PayloadAfterHeaders` says for which captures this happens: those that
end before their headers do, by more than their VLAN tags hide. An IP header
length below 5 makes the loop over the options (`:226`) run through memory, and
the process ends.

*Other disagreements met while modelling.* The models contain them, and the
properties are stated so as to say what does hold. In the framework: an index
given twice hides a missing one (`tags.cc:57`; `SlotsExact` is about declarations
without repeats), and the parser's table of valid strings differs from it
(`tags.cc:165`); numbering repeated names can make a new one collide with a given
one (`names.cc:34`); the default input handler computes readiness over no stream
(`default_input_stream_handler.cc:5`), and closing a graph input closes no node
(`node.cc:303`). A malformed declaration of a node gives a null
`TagMap` that is dereferenced at once (`node_config.cc:31`, `dtype.h:24`;
`CrashOnNode`), while one of the graph is rejected. In the tasks: with the dedup tasks random sources are
always dropped (`dms_rules_dedup_task.cc:111`; `RandomIsLimited` is of the older
pair), and their rules are also made of normal packets
(`sip_base_merge_dedup_task.cc:206`); the protocol score sent is that of the last
protocol of a hash map (`protocol_stats_task.cc:91`); a VLAN tag makes the payload
of the MFR input four bytes too long (`rb_data_mfr.cc:325`; `PayloadAfterHeaders`
allows just that); the size of a second ONNX input includes the first
(`onnx_dynamic_model_loader.cc:30`). In the programs: a thread one lap behind
mixes two slots in one answer (`dni_server.cc:863`; `ValidForOneLap` says how long
it is safe); the A100 server and the programs without gRPC inject data of types
that the tasks do not consume, so graph 3, or graph 2, never answers
(`all_net_detect_defense_with_sccm.cc:277`; `EveryResultReal` is of the programs
whose types agree); `CalculateGraph` deletes the graphs (`dni_server.cc:966`)
before it cancels `read_rb` (`:977`), which may meanwhile push to the queue of one
(`:896`; `Push` has the case, and `GraphOutlivesThread` is about the `calc_graph`
threads only).

*Limits found on the way.* The ring's assumption `2 * size - SlotSize < Word`
(`RingFits`) holds for up to 102 slots of 20 MiB (`dms.conf` has 100); with
more, `Used` in `ringbuffer.go:74` overflows. A writer that gets exactly one lap ahead makes the
ring look empty; what is lost is lost without notice. That the k-th
answer is of the k-th inputs (`ImplementsService`) is a property of lock step only: in `flow_no_waiting` an answer may mix rounds (`{1,
2}`), because the producer overwrites the object its first reader still points
to. What remains true there is `NeverOlder`. Clients must be `Orderly`: one
goroutine feeds and destroys the graph, and does neither after `Destroy`; the
code panics otherwise and has no guard. `dms.go` is such a client.

## 4. Proofs

| Theorem | States | For |
|---|---|---|
| `TopoSort_proofs`: `Invariance`, `Topological`, `Verdict` | `SortTypeOK`, `SortedIsTopological`, `VerdictCorrect` | any number of nodes, any wiring |
| `GraphUnit_proofs`: `Invariance`, `AcceptedIsWired`, `Verdict` | `UnitTypeOK`, `Wired`, `VerdictRight` | any configuration over any names |
| `SideData_proofs`: `Invariance`, `OpenInputs`, `Ready` | `OpenSeesInputs`, `ReadyIsComplete` | any accepted configuration, any failures |
| `FlowGraph_proofs`: `Control`, `NeverPanics`, `Invariance`, `TypeCorrect` | `NoPanic`, `TypeOK` | any wiring that is `WellWired`, any capacity, any scripts of orderly clients |
| `FlowGraph_proofs`: `Fresher` | `NeverOlder` | the same, with one reader for each output (`OneReader`) |
| `FlowGraph_proofs`: `LeavesNothing` | `DestroyLeavesNothing` | the same wirings with every channel fed (`Fed`), clients that run the graph before they destroy it (`RunFirst`) |
| `FlowGraph_proofs`: `LockStepService` | `ImplementsService`, the refinement of `GraphService` | the same, one client in lock step (`RoundByRound`), no node without inputs (`FeedsRight`) |
| `CppComponents_proofs`: `Predecessors`, `ConfigWired` | `PredsEarlier`, `WiredAsNamed` | any configuration |
| `CppComponents_proofs`: `Slots` | `SlotsExact` | any tags, any strings, any declaration and infos |
| `CppComponents_proofs`: `RulesCover` | `RulesCoverAttack` | addresses of any width, any number of NICs and packets, any options |
| `CppComponents_proofs`: `MergeRight` | `AttackersRight` | addresses and bytes of any width, any counts and options, requests in any order |
| `CppComponents_proofs`: `ParserReadsWhatWasWritten`, `ParserFeaturesTrue` | `ReadsWhatWasWritten`, `FeaturesTrue` | slots of any number of packets that hold their headers, with any tags, options and protocols, all five parsers |
| `CppComponents_proofs`: `MfrBatchRight` | `BatchRight` | captures of any length, packets of any 16-bit size and any header lengths, any batch and group size, any number of labels |
| `CppComponents_proofs`: `OnnxRowsRight` | `RowsRight` | models with any inputs of any rank, data of any size, any number of runs |
| `CppGraph_proofs`: `Types`, `Drains`, `Answers` | `TypeOK`, `FullRoundDrains`, `AnswerOfRound` | any graph, any number of rounds, any failures and cancels; `Answers` for outputs that are not inputs too |
| `CppGraph_proofs`: `StreamOrder`, `StreamSync` | `EachOnceInOrder`, `SyncExact` | any number of mirrors, any times and data |
| `Services_proofs`: `ManagerSafe` | `MapIsRunning` | any number of callers with names of their own, any channels, refusals and hanging graphs included |
| `Services_proofs`: `RingSlack`, `RingOrder` | `OneWriteOfSlack`, `ReadsInOrder` | any ring that fits (`RingAssumption`), any number of overruns and restarts |
| `Services_proofs`: `ServerOrder`, `ServerValid` | `SlotsInOrder`, `UsedIsValid` | any number of graphs, any ring, any queues; the definitions of `DniServer`, which the run checks for both servers |

The arguments:

* *TopoSort.* `nodeCount[n]` is the number of predecessors of n not yet sorted,
  the popped node's own edges counting until they are visited (`Waiting`); a
  node is queued or sorted exactly when it was counted and waits for nobody.
  Neither the order nor the verdict is inductive without this: it is what makes
  counters reach zero once. A set of nodes each fed by a node of the set
  (`Cyclic`) can never be entered by the sorted list, and the nodes left over at
  the end are such a set.
* *GraphUnit.* `NamesInv` (the output map is the inverse of the lists checked so
  far), `EdgeInv` (each reader passed by the loops is in exactly one list, once),
  `SourcesInv` and `LinkInv` carry `Wired` from the loops to the linked graph.
  For the verdict, `preMap` and `sourceEdge` hold what the loops have passed, so
  each rejection is due to a name that is really repeated or missing, and at the
  end all that could be wrong was looked at.
* *SideData.* `DeliveredInv`: what this call has passed on is in every slot that
  reads it. With `TopologicalOrder` the inputs of the next node to be opened are
  among it.
* *FlowGraph, no panic.* `ClosedInv`: a closed channel was closed by its one
  sender, and that sender is past it in its `Close`. A sender is never in `Close`
  when it sends, and a channel it is about to close is one it has not passed.
  This needs `WellWired` (one sender per channel), `SingleWriter`, and `Orderly`
  for the graph's inputs.
* *FlowGraph, nothing older.* A ghost count is introduced in the invariant
  itself: `FreshInv` says that there are functions `rd` (rounds begun by a node)
  and `taken` (entries that left a channel) with which the state is consistent.
  Nobody sends more often than it began rounds (`Pace`), the k-th entry of a
  channel is of round `taken + k` or later (`Queued`), and so is what a node
  holds and makes of it (`NodeIn`, `NodeOut`). The delicate step is `Write`: the
  object is overwritten under readers that still point to it, and since its
  writer has begun their round, what they see can only become newer. Two readers
  of one output would record their answers in another order than they took them,
  hence `OneReader`.
* *FlowGraph, nothing left.* `LeftInv`: whatever an agent is past in its `Close`
  is closed and empty, and stays so because its only sender has stopped; `Destroy`
  returns after every goroutine that was started is past all its channels. With
  two clients, one of which runs the graph while the other destroys it, nodes
  could start after the wait: hence `RunFirst`.
* *FlowGraph, the service.* The refinement mapping is `open <- Open`, no call of
  `Destroy` yet. While it is open no channel is closed (`OpenInv`), so a read
  fails only after a shutdown. The k-th answer is no older than k by `FreshInv`,
  and no newer, because all data there are were made of rounds that were added
  (`Within(Known)`) and in lock step at most k were (`CountInv` ties `added` and
  `got` to the calls made). That all inputs the output depends on were added
  before is `FedBefore`: the nodes that have begun k rounds are closed under
  "feeds a node of the set", because a node that begins a round has taken a datum
  from each input. `DependsOn` says that such a set meets every input in
  `Feeds[s]`, without a path or an induction. `FeedsRight` excludes nodes without
  inputs: `Subscribe` finds all of their inputs closed, and they close their
  outputs at once, so the promise is not kept downstream of one.
* *CppConfig.* The owner of a registered stream is a node declared no later than
  the one in work, and an upstream id is the owner at the time of the lookup;
  the passes only ever add to both. For the wiring, an id resolves to the last
  output of that name declared before it, and mirrors are entered where it does.
* *TagMap.* Once n strings are read, the count of a tag is the number of them
  under it, and each is stored at its index (`ReadRight`); a tag is laid out
  where the strings under the tags before it end (`LaidRight`), which is also
  how long the list of names is when its turn comes, so `insert` appends
  (`InsertedRight`). All of this is stated with cardinalities. That each index
  is below the count comes from the code's comparison of the two, not from
  counting. The infos (`InfosRight`) rely on the empty string being the first
  in the map's order: an info without a tag has the index -1, which is only
  refused because the slots of the empty tag begin at 0; behind another tag it
  would stand for the last stream of that tag.
* *AttackTracing.* The groups of a NIC that is done are those of its own result
  and packets (`GroupedRight`), and stay so while the next one is merged. A packet
  of a block is among the elements of that block's group, so the set of elements
  has its own; of the rules with these elements one is kept, and since the
  elements hold everything the rule is matched by, that one drops the packet.
  `GroupedRight` also has to say that random sources are found only when the flag
  for them is set, without which their links would be lost.
* *AttackerMerge.* A program appends blocks and erases addresses; the invariant
  (`MergeInv`) survives if its blocks hold nothing that stays and what it erases
  is in them (`ReportKeeps`). For Program2 and Program3 a segment is a block, so
  what is left in it are its members; the largest blocks in a range cover it, for
  the block with the shortest mask that still fits around an address is one of
  them (`LargestCovers`). That `iprange_to_cidrs` gives these blocks is
  `BlocksExact`, which TLC checks. In Program3 the third byte, stored in a list of
  bytes, is a multiple of 256 there, hence zero: so the first /24 is reported
  and no other (`Fw2Right`), and what is lost was in such a /16
  (`LostByProgram3`). For Program4, an unknown address equals no known one, so the
  walk of `set_difference` keeps it in whatever order they come; that it drops
  every known one, because it stands behind all of them that are below the next
  address (`WalkOk`), needs both lists to be sorted.
* *PacketParse.* After i packets the cursor stands where packet i + 1 begins
  (`ParseInv`). A parser knows that place only as the sum of the lengths it read,
  the slot as the sum of what was written; the two are equal because each read at
  that place finds the length of that packet (`HandedOn` says the same of what
  was handed on). Within a packet, the offset of a field is a sum over the tags
  before it, of which the parsers skip up to two and refuse the rest.
* *MfrInput.* The same cursor (`MfrInv`); the items are consecutive groups of the
  records, so they leave out the remainder of the division and no more, and each
  has the characters of a packet as often as it has packets. Within a packet
  (`ItemRight`), the difference of lengths lies between -`ULONG` and `ULONG`, so
  the unsigned one is it, or it plus `ULONG`; in the second case it is above 240,
  all lengths being below 2^16. The claims on a record are made for both cases:
  no capture is excluded. That two labels
  cannot both have a majority is counting: their positions are disjoint.
* *OnnxTask.* Only the dynamic dimension of an input differs from the model, and
  it is set anew in each run from the data of that run (`OnnxInv`, `DimsOfModel`),
  so the product of the dimensions is that dimension times the row. `DynamicDims`
  divides by `size_in_1D`, which goes on growing from input to input
  (`SizeIn1D`): for the first input this is the row itself, for a later one a
  multiple of it, so a tensor is never too large for its data, but may hold fewer
  rows than they fill. That is why `FirstInputRows` is about the first.
* *CppGraph.* A node runs after its predecessors, so within a round whatever is
  queued on a stream was put there before its reader ran; a reader that has run
  has drained its queues, and its feeders are done and put no more. A round that
  runs every node therefore leaves nothing. The invariant has to say this for
  every point of a round (`IInv`), and that nothing is active while the caller
  is idle. What a round that is cut short leaves in the queues stays there for the next
  one, unless `Finish` and `PrepareForRun` come between, and may turn up in its
  answers. `AnswerOfRound` is therefore about a round that began `clean`: the one
  before it was complete, so that it left nothing, and its answers were read.
* *StreamQueue.* What a queue holds, what was taken from it and what is recorded
  as lost make up, in order, what was accepted for it. This is inductive per
  mirror. Nothing compares the time of a datum with the bound: the times in a
  queue increase only if the producer's do, and what `SyncExact` says of `SyncAt`
  is about a queue in order.
* *GraphManager.* A name in the map is a running graph's, and a caller between
  its two critical sections holds a graph that nobody else can name (`MapInv`,
  `CallInv`). Without names of their own (`OwnNames`) two callers orphan a graph.
  A refusal changes the mutex alone and a hanging `Destroy` keeps its name in the
  map as one that is being destroyed, so neither disturbs this.
* *ShmRing.* With distances counted modulo `Word`, the reader is at most one lap
  behind what it believes of the writer; the invariant relates the three offsets
  and says which slot may be torn. The attempt with `<=` in `RingFits` failed
  for a reason: a ring that is exactly as large as half the words has full and
  empty alike.
* *DniServer.* A queue that never was full holds the slots between two counters;
  the graph of a `calc_graph` thread is deleted only after the thread was joined.

The library's induction theorems take an operator as a parameter, which the
provers cannot instantiate. Where an argument needs induction, `SeqLemmas` has the
fact that a bounded set of integers has a least and a largest element
(`LeastOf`, `LargestOf`), proved from finite sets: a fact holds of all naturals if
no number is the least for which it fails. In this way `SeqLemmas` proves what the
recursive functions of `Sums` compute, and the proofs above use it for sums over
packets and products over dimensions.

Assumptions: `NAssumption`, `ConfAssumption`, `SideAssumption`,
`GraphAssumption` are types of the constants; `WiringAssumption` is what
`AcceptedIsWired` proves of an accepted configuration, `TopologicalOrder` what
`Topological` and `Verdict` prove of the order. Hypotheses about clients and
wirings stand in the theorems, and TLC evaluates all of them on the instances it
runs: `Driven` and `InLockStep` in `MC_FlowGraph` (`Orderly`, `OneReader`,
`RunFirst`, `Fed`, `FeedsRight`, `RoundByRound`), `Instances` in `MC_Services`
(`SomeGraph`, `CallersAssumption`, `OwnNames`), `Instances` in `MC_CppComponents`
(`CountsAssumption`: sources and known addresses are addresses), `RingAssumption` in `ShmRing`,
`QueueAssumption` in `StreamQueue`, `TraceAssumption` in `AttackTracing`,
`TagAssumption` in `TagMap` (the tags and indices a string may hold, and the order
of `std::map`), `PacketsAssumption` in `PacketParse` and `CapturesAssumption` in
`MfrInput` (sizes are those of a `uint16_t`, the tags of a frame are VLAN types and
its own type is not; for the parsers also that a packet holds its headers,
`HoldsHeaders`, as those of sccm do; for `MfrInput` that `ULONG` is at least 2^17),
`ModelsAssumption` in `OnnxTask` (a dimension is positive or
-1; a model has an input with a dimension). `Fed` and `WellWired` are conjuncts of `Wired`.

Only model-checked: everything temporal (`SortReturns`, `AllReturn`, `PipelinedReturn`,
`DestroyCompletes`, `CatchesUp`, `RoundEnds`, `ShutsDown`, `EachCallReturns`,
`MutexComesBack`),
for liveness under fairness is out of the prover's reach; `BlocksExact`, which is
about loops over sorted lists of blocks (that `cidr_merge` never leaves two blocks
to be joined needs an order on all of them); `DetectionRight` and `ResultsReal`, which are about given graphs and 14 given
programs, and which TLC therefore settles; and `PartTypeOK`.

## 5. Not modelled, and the plan

External: `gqueue`, whose `Len` counts what a background goroutine has moved
and may be behind `Push`, is taken as the FIFO queue the code uses it as; Go's
channels, mutexes and maps are modelled by their semantics.

Left out for good: reading files, `/proc` and packets; ONNX inference; InfluxDB
queries; formatting and logs; `GetNodeErrorList`, which copies into a slice of
length zero.

Of the C++ side: the trace dump of the framework, `TransparentTask` and the
datagram tasks (no graph uses them), the debug dumps of the ONNX tasks, the
queries to InfluxDB in `samples/ddos/realtime` (a row that is not found reads as
zeros), the connection of a server to another (`setChannel`), the threads and
the ring of `all_net_detect_defense_with_sccm` (those of the servers are
modelled), and the remaining samples, which are examples of libraries and
writers of test data. Memory errors after a deletion and the undefined end of a
function without a return are listed as hazards; nothing can be said of what
follows them.

The Python part is a loop over nodes in file order and data-frame arithmetic.

Next, in this order:

1. Proofs: `RangeExact`, then `MergeExact` of `Cidr`.
2. `StreamUnit` (Go): `NewStreamUnit`, `GetTagIndexName`, `NewDataSlice`.
3. `DmsService`: `GraphManager`, `ShmRing` and `GraphService` together.
4. The Go assessor's indicators with unsigned arithmetic, and the arbitrator's
   crossbar.
