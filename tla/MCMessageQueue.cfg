SPECIFICATION Spec
CONSTANTS
  Workspaces = {wa}
  Senders = {sa, sb}
  Tasks = {t1}
  NoTask = none
  Anyone = anyone
  MaxSize = 2
  MaxMessages = 3
  MaxFaults = 1
CHECK_DEADLOCK FALSE
INVARIANTS OrderIsKept Conservation CleanIsSaved
PROPERTY EventuallySaved
