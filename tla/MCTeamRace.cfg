SPECIFICATION Spec
CONSTANTS
  Clients = {c1, c2}
  Nobody = nobody
  Names = {wa, wb}
  Base = {wa}
  Root = root
  Requests <- FewRequests
  MaxTickets = 2
  MaxFaults = 0
SYMMETRY Symmetry
PROPERTY RevisionTellsOverlay
CHECK_DEADLOCK FALSE
