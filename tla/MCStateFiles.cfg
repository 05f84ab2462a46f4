SPECIFICATION Spec
CONSTANTS
  Callers = {p1, p2}
  Keys = {k1}
  NoId = noid
  MaxCalls = 4
  MaxFaults = 2
  RingSize = 2
  DefaultLimit = 2
SYMMETRY Symmetry
CHECK_DEADLOCK FALSE
INVARIANTS MemoriesAreRight FilesAreRight
PROPERTY LedgerSpec
