CONSTANTS
  Ops = {o1, o2}
  Hosts = {h1, h2}
  Shells = {s1, s2}
  Bodies = {b1, b2}
  NewBody = b1
  Plans = {p1, p2}
  MaxDisturbances = 3
  None = None
SPECIFICATION Spec
SYMMETRY Symmetric
INVARIANTS RecordedOnce RecordedWasDeployed AdoptionIsRecorded
PROPERTIES FindingsAreExplained
