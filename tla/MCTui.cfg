SPECIFICATION Spec
CONSTANTS
  a = a
  b = b
  Order <- OrderValue
  LastPart <- LastPartValue
  Trees <- TreesValue
  Worlds <- WorldsValue
  NoTree = NoTree
  Header = Header
  NoName = NoName
  NoTask = NoTask
  None = None
  TaskIds = {1, 2}
  Buffer = 2
  MaxUsage = 2
  MaxChanges = 2
  MaxAsks = 2
INVARIANT ActsOnTheShown
PROPERTIES PlaceIsKept EveryRequestSettles
