SPECIFICATION MCSpec
CONSTANTS
  Shells = {s1, s2}
  Callers = {k1, k2}
  Scopes = {impl, design}
  Plans = {v1, v2}
  Budgets <- MCBudgets
  a1 = a1
  a2 = a2
  Agents = {a1, a2}
  Requests <- MCRequests
  InitialItems <- MCItems
  None = None
  Loads <- MCLoads
SYMMETRY Symmetry
INVARIANTS
  HandoffWasAllowed
  ApprovedRevisionIsRecognised
PROPERTIES
  DecisionHolds
  ClosedFromReview
CHECK_DEADLOCK FALSE
