SPECIFICATION LSpec
CONSTANTS
  lead = lead
  dev = dev
  ops = ops
  m1 = m1
  m2 = m2
  s1 = s1
  Connections = {m1, m2, s1}
  Workspaces = {lead, dev, ops}
  Unnamed = unnamed
  Nobody = nobody
  MaxId = 5
  Name <- Names
  Present = {m1, m2}
  Mcp = {m1, m2}
  Uses <- Use
  Waiting <- Earlier
  NoReply = noreply
  Push = push
  Capacity = 1
  QueueCap = 2
  MaxCalls = 3
  MaxRunning = 2
  MaxAsking = 1
  MaxPolls = 1
  MaxFaults = 1
CHECK_DEADLOCK FALSE
INVARIANTS NamesAreHeld AnswersAreKept
PROPERTY EveryCallEnds
