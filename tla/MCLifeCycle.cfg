SPECIFICATION FairLifeSpec
CONSTANTS
  Ids <- MCIds
  Generations = 2
  Cranes <- MCCranes
  Callers = {c1}
  Cancellers = {x1}
  Closer = x1
  NoCall = NoCall
  Returned = Returned
  NoAisle = NoAisle
  MaxWork = 4
  Positions <- MCPositions
  Routes <- MCRoutes
  ClientPhases = {}
  Aisles = 2
  BaysPerAisle = 2
  Levels = 2
  Depths = 0
  BayPitch = 1
  LevelPitch = 1
  DepthPitch = 1
  MaxMM <- MCMaxMM
INVARIANTS
  LifeTypeOK
  StopComplete
  ReleaseComplete
  AisleCranePlaced
PROPERTIES
  ControllerDrains
