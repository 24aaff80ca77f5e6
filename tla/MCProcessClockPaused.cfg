SPECIFICATION ProcessSpec
CONSTANTS
  Advancers = {p1, p2}
  Operators = {o1}
  Resetters = {}
  Free = Free
  MaxAdded = 4
  Steps <- MCSteps
PROPERTIES
  PausedClockStands
