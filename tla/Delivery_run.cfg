CHECK_DEADLOCK FALSE
SPECIFICATION MCSpec
CONSTANTS
  Threads = {loop, cmd}
  Loop = loop
  Workspaces = {1, 2}
  Limit = 2
  Null = Null
  MaxEvents = 2
  MaxFaults = 1
  Outbox = {1, 2}
  Keys = {k1}
  Contents = {x1, x2}
  Senders = {s1}
  Callers = {c1, c2}
  MaxAttempts = 2
  None = None
  MaxCrashes = 2
  Jobs = {1, 2, 3}
  Runners = {r1, r2}
  Operators = {op}
  Batch = 2
  NoJob = NoJob
  MaxKills = 1
  MaxChanges = 1
  Alone = r1
  LastJob = 3
  LastRow = 2
INVARIANTS
  PassedIsDelivered
  OneShot
  ReceiptIsTrue
  RunsOnceEach
PROPERTIES
  EventIsDelivered
  DeliveryEnds
  PendingIsRun
