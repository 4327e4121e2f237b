SPECIFICATION Spec
CONSTANTS
  Jobs = {1}
  Agents = {a1}
  Claimers = {p1, p2}
  Operators = {op}
  None = None
  MaxClaims = 4
INVARIANTS
  StaleResultOverlapped
PROPERTIES
  ResultImmutable
