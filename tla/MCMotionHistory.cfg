SPECIFICATION FairHistorySpec
CONSTANTS
  Cranes = {k1}
  Callers = {c1, c2}
  Cancellers = {x1}
  NoCall = NoCall
  Returned = Returned
  Positions <- MCPositions
  Routes <- MCRoutes
  ClientPhases <- MCClientPhases
INVARIANTS
  ServiceTypeOK
  CancelFnLive
  HoistLockOwned
  PhaseMatchesProgress
  StopContainment
  DoneContainment
  InterruptedEnds
PROPERTIES
  StopDrains
