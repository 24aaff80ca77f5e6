SPECIFICATION MachineSpec
CONSTANTS
  Cranes = {k1}
  MachineIds = {k1}
  Callers = {}
  Cancellers = {f1, f2}
  Firers = {f1, f2}
  ForcedTargets = {}
  NoCall = NoCall
  Returned = Returned
  Positions <- MCPositions
  Routes <- MCRoutes
  ClientPhases = {}
INVARIANTS
  EmergencyStopsCrane
