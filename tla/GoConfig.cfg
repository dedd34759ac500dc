SPECIFICATION RunSpec
CONSTANTS
  a = a
  b = b
  c = c
  N = 4
  UnitSize = 2
  Name <- Names
  Source = Source
  Sink = Sink
  GraphLists <- UpToOne
  InLists <- UpToTwo
  OutLists <- Outputs
  SideSize = 3
  SideName <- Names
  Configs <- AllConfigs
  MaxAttempts = 2
INVARIANTS SortedIsTopological VerdictCorrect Wired VerdictRight OpenSeesInputs ReadyIsComplete
PROPERTY SortReturns
\* Functions return, and the calls of PrepareForRun are bounded.
CHECK_DEADLOCK FALSE
