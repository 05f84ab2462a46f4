SPECIFICATION Spec
CONSTANTS
  wa = wa
  wb = wb
  oa = oa
  root = root
  da = da
  db = db
  do = do
  dr = dr
  NoOne = noone
  Absent = absent
  Targets = {wa, oa, root}
  Dirs = {da, db, do, dr}
  Root = root
  Orchestrators = {oa, root}
  Order <- InOrder
  SpecsOf <- OwnDirs
  FirstConfig <- StartsConfigured
  Sockets = {s1, s2}
  Reconciler = rec
  Procs = {p1, p2}
  Cap = 1
  MaxCalls = 2
  MaxUpsets = 1
SYMMETRY Symmetry
CHECK_DEADLOCK FALSE
INVARIANTS PassConverges SessionsAreSafe UserLinesKept
