SPECIFICATION RigSpec
CONSTANTS
  Cranes = {k1}
  Cells = Cells
  Capturers = {p1, p2}
  Refreshers = {r1}
  Swappers = {s1}
  Nobody = Nobody
  MaxVersion = 2
  MaxRevision = 4
INVARIANTS
  RigTypeOK
  NotStaleMeansCurrent
PROPERTIES
  SwapLosesNothing
  CapturesInOrder
