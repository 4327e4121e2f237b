SPECIFICATION LiveSpec
CONSTANTS
  w1 = w1
  w2 = w2
  Workspaces = {w1, w2}
  Channels = {c1, c2}
  Manual = {}
  Requests = {1}
  RequestWs <- OneWorkspace
  Loops = {l1}
  Commands = {m1}
  Operators = {o1, o2}
  None = None
  Failed = Failed
  Budgets <- SmallBudgets
INVARIANTS
  RowsMatchEvents
  ChannelOnce
PROPERTY RequestAnswered
CHECK_DEADLOCK FALSE
