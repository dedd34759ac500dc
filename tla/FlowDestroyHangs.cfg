SPECIFICATION Spec
CONSTANTS
  n1 = n1
  n2 = n2
  main = main
  reader = reader
  Sink = Sink
  Source = Source
  Node <- G2_Node
  Client = {main}
  Stream <- G2_Stream
  Ins <- G2_Ins
  Outs <- G2_Outs
  GIn <- G2_GIn
  GOut <- G2_GOut
  NextInputManagers <- G2_Next
  StreamSortedNodes <- G2_Sorted
  Feeds <- G2_Feeds
  Cap = 2
  Scripts <- TestGraphAPI2
  MayFail = {}
PROPERTIES DestroyCompletes
\* The scripts of API calls end, and the graph with them.
CHECK_DEADLOCK FALSE
