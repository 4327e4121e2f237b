SPECIFICATION MCSpec
CONSTANTS
  t1 = t1
  t2 = t2
  b1 = b1
  b2 = b2
  c1 = c1
  c2 = c2
  p1 = p1
  p2 = p2
  h1 = h1
  h2 = h2
  local = local
  Server = Server
  Tasks = {t1, t2}
  Branches = {b1, b2}
  Commits = {c1, c2}
  Prs = {p1, p2}
  BranchOf <- SmallBranchOf
  CodingHosts = {h1, h2}
  DbOf <- SmallDbOf
  Writers = {w1}
  Checkers = {k1}
  Unset = Unset
  Budgets <- SmallBudgets
SYMMETRY Symmetry
INVARIANTS
  FreshWriteKeepsPr
  RecordedWasPushed
  ReadyWasVerified
CHECK_DEADLOCK FALSE
