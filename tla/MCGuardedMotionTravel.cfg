SPECIFICATION GuardedSpec
CONSTANTS
  Cranes = {k1}
  Callers = {c1}
  Cancellers = {}
  NoCall = NoCall
  Returned = Returned
  NoPlan = NoPlan
  Positions <- MCPositions
  Locations <- MCLocations
  Aisles = 2
  BaysPerAisle = 2
  Levels = 2
  Depths = 1
  BayPitch = 3
  LevelPitch = 2
  DepthPitch = 2
  MaxMM <- MCMaxMM
  MinHoistClear = 1
  Routes <- MCRoutes
  ClientPhases = {}
PROPERTIES
  TravelForkRetracted
