SPECIFICATION ToolsSpec
CONSTANTS
  TaskIds = {t1, t2}
  Workspaces = {wa}
  Operator = cli
  NoTask = none
  Requests <- FewRequests
  MaxVersion = 4
  MaxWriteFaults = 1
  MaxTotal = 5
SYMMETRY Symmetry
CHECK_DEADLOCK FALSE
INVARIANTS DiskIsConsistent AckedIsDurable PutAsideNeedsARace ShownIsCurrent ReportedStaysClosed
