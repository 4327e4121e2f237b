SPECIFICATION LiveSpec
CONSTANTS
  a1 = a1
  Jobs = {1, 2}
  Agents = {a1, a2}
  Hosts = {h1}
  Paths = {p1}
  ClaimKeys = {}
  Operators = {}
  Capacity <- MCCapacity
  Ttls = {2}
  ReapBatch = 1
  ScanLimit = 2
  None = None
  MaxAttempts = 2
  MaxDeactivations = 1
INVARIANTS
  OfflineAgentIdle
PROPERTIES
  PendingIsClaimed
  LeaseCloses
