SPECIFICATION ProcessSpec
CONSTANTS
  Advancers = {p1, p2, p3}
  Operators = {o1}
  Resetters = {r1}
  Free = Free
  MaxAdded = 5
  Steps <- MCSteps
INVARIANTS
  ProcessTypeOK
  NoTickInvented
