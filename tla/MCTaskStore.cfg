SPECIFICATION Spec
CONSTANTS
  TaskIds = {t1, t2}
  Workspaces = {wa, wb}
  Operator = cli
  NoTask = none
  Requests <- AllRequests
  MaxVersion = 4
SYMMETRY Symmetry
CHECK_DEADLOCK FALSE
INVARIANTS LinksInv RollupInv ClaimInv
PROPERTIES TerminalIsFinal VersionTellsChange
