SPECIFICATION RunSpec
CONSTANTS
  Node <- Nodes
  Stream = {"x", "y", "z", "o"}
  Side = {"w"}
  Preds <- MCPreds
  Ins <- MCIns
  Outs <- MCOuts
  SideIns <- MCSideIns
  GraphIn = {"x"}
  Observed = {"o"}
  MaxRounds = 3
  M = 2
  TMax = 5
  MaxData = 2
INVARIANTS TypeOK FullRoundDrains AnswerOfRound EachOnceInOrder
PROPERTIES RoundEnds SyncExact
\* After Finish, and when all data are read, nothing is left to do.
CHECK_DEADLOCK FALSE
