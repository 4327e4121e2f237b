SPECIFICATION Spec
SYMMETRY HostSymmetry
CONSTANTS
  a1 = a1
  Jobs = {1, 2}
  Agents = {a1}
  Hosts = {h1, h2}
  Paths = {p1}
  ClaimKeys = {k1}
  Operators = {op}
  Capacity <- MCCapacityOne
  Ttls = {2}
  ReapBatch = 1
  ScanLimit = 2
  None = None
  MaxAttempts = 2
  MaxDeactivations = 0
INVARIANTS
  ActiveLeaseIsCurrent
  CapacityHeld
  ClaimKeyOnce
PROPERTIES
  LeaseNeverRevived
  ImplementsLock
