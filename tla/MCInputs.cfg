SPECIFICATION Spec
CONSTANTS
  a = a
  b = b
  d1 = d1
  d2 = d2
  d3 = d3
  p1 = p1
  p2 = p2
  r = r
  lib = lib
  q = q
  kidA = kidA
  kidB = kidB
  w = w
  orch = orch
  f1 = f1
  f2 = f2
  f3 = f3
  s1 = s1
  s2 = s2
  main = main
  sub = sub
  Workspaces = {a, b}
  Worlds <- WorldsValue
  ProjectKey <- FolderOfValue
  TopLevel = TopLevel
  None = None
  MaxKills = 1
  Projects = {r, lib, q}
  Root = r
  Parts = {kidA, kidB, w, orch}
  ChildOrder <- ChildOrderValue
  Orchestrator = orch
  Setups <- SetupsValue
  Versions <- VersionsValue
  Gone = Gone
  MaxPath = 4
  MaxEdits = 2
  Files <- FilesValue
  Session <- SessionValue
  Agent <- AgentValue
  DirOf <- DirOfValue
  Folder <- FolderValue
  FolderOf <- FolderOfValue
  Keys = {k1}
  NoKey = NoKey
  NoHint = NoHint
  Models = {m1, m2}
  BucketSize = 2
  MaxClock = 2
  Scenes <- ScenesValue
  Askers = {a, b}
  Histories <- HistoriesValue
  TTL = 1
  MaxGit = 1
  MaxTime = 3
INVARIANTS LaunchesAreSafe LoadsAreRight UsageIsExact GitIsRight
CHECK_DEADLOCK FALSE
