SPECIFICATION DSpec
CONSTANTS
  TaskIds = {t1}
  Workspaces = {lead, dev}
  Operator = cli
  NoTask = none
  Requests <- FewRequests
  MaxVersion = 9
  Waker = waker
  Reconciler = reconciler
  NudgeCap = 2
  MaxRequests = 3
  MaxFaults = 1
  QueueCap = 2
  Assignees = {dev}
  Senders = {lead}
CHECK_DEADLOCK FALSE
INVARIANTS HandedOutIsDelivered QueuedIsWanted CreatorIsTold
