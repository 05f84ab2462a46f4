SPECIFICATION Spec
CONSTANTS
  Clients = {c1, c2}
  Nobody = nobody
  Names = {wa, wb}
  Base = {wa}
  Root = root
  Requests <- FewRequests
  MaxTickets = 3
  MaxFaults = 1
SYMMETRY Symmetry
INVARIANTS OneAtATime EffectiveIsCurrent
PROPERTY ChangesTakeEffect
CHECK_DEADLOCK FALSE
