SPECIFICATION RunSpec
CONSTANTS
  Parts = {"manager"}
  Callers = {"a", "b"}
  NamesOf <- EachItsOwn
  MaxGraphs = 2
  Cap = 1
  SlotSize = 3
  Count = 4
  Word = 32
  MaxWrites = 10
  MaxRestarts = 1
PROPERTY MutexComesBack
\* Calls return, programs end, and what is bounded stops.
CHECK_DEADLOCK FALSE
