SPECIFICATION DwellSpec
CONSTANTS
  Advancers = {p1}
  Operators = {o1}
  Resetters = {}
  Free = Free
  MaxAdded = 7
  Steps <- MCSteps
  Cranes = {k1, k2}
  DwellWindowTicks = 3
  None = None
INVARIANTS
  DwellTypeOK
  DwellExact
PROPERTIES
  ImplementsAtomicClock
