SPECIFICATION FairMachineSpec
CONSTANTS
  Cranes = {k1}
  MachineIds = {k1, u1}
  Callers = {c1}
  Cancellers = {f1}
  Firers = {f1}
  ForcedTargets = {"dwell", "idle"}
  NoCall = NoCall
  Returned = Returned
  Positions <- MCPositions
  Routes <- MCRoutes
  ClientPhases = {}
INVARIANTS
  MachineTypeOK
  StopAgrees
  PhaseAgrees
PROPERTIES
  EmergencyDrains
