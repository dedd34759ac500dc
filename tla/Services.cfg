SPECIFICATION RunSpec
CONSTANTS
  Parts = {"grpc", "A100", "program", "manager", "ring"}
  Callers = {"a", "b"}
  NamesOf <- EachItsOwn
  MaxGraphs = 3
  Cap = 1
  SlotSize = 3
  Count = 4
  Word = 32
  MaxWrites = 10
  MaxRestarts = 1
INVARIANTS SlotsInOrder UsedIsValid ResultsReal MapIsRunning OneWriteOfSlack
PROPERTIES ShutsDown EachCallReturns ReadsInOrder CatchesUp
\* Calls return, programs end, and what is bounded stops.
CHECK_DEADLOCK FALSE
