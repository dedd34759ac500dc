SPECIFICATION RunSpec
CONSTANTS
  Name = {"x", "y"}
  NodeName <- NodeNames
  Malformed = Malformed
  NoNode = NoNode
  Configs <- AllConfigs
  Blank = ""
  ValidTag <- Tags
  IndexOf <- TagIndex
  TagOrder <- TagsInOrder
  Strings <- TagStrings
  Infos <- TagInfos
  MaxStreams = 3
  MaxInfos = 2
  W = 5
  Byte = 2
  RangeMin = 3
  Options <- TraceOptions
  Counts = {}
  Requests <- TraceRequests
  NICs <- TwoNICs
  PacketLists <- FlowLists
  NumStat <- TraceNumStat
  ProtoStat <- TraceProtoStat
  NetDevs <- TraceNetDevs
  Packets <- ParsedPackets
  MaxPackets = 3
  MaxApplied = 2
  NameLens = {4}
  Captures <- MfrCaptures
  batch_size <- MfrBatch
  Group <- MfrGroup
  Labels = 3
  ULONG = 1048576
  Models <- OnnxModels
  Sizes <- OnnxSizes
  MaxRuns = 3
  Parts = {"config", "tags", "cidr", "merge", "trace", "slot", "parse", "mfr", "onnx"}
INVARIANTS
  PartTypeOK WiredAsNamed PredsEarlier SlotsExact BlocksExact AttackersRight
  RulesCoverAttack DetectionRight ReadsWhatWasWritten FeaturesTrue BatchRight
  RowsRight
\* One configuration, declaration, slot, file or call, then nothing happens.
CHECK_DEADLOCK FALSE
