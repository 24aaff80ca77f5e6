SPECIFICATION TransferSpec
CONSTANTS
  Aisles = 1
  BaysPerAisle = 2
  Levels = 1
  Depths = 1
  BayPitch = 1
  LevelPitch = 1
  DepthPitch = 1
  MaxMM <- MCMaxMM
  Cranes = {k1}
  AisleOf <- MCAisleOf
  Retrievers = {r1, r2}
  Pallets = {p1, p2}
  Locations <- MCLocations
  None = None
SYMMETRY Symmetry
INVARIANTS
  PalletTypeOK
  CarrierExclusive
  OnePlace
  LoadsWhereStored
PROPERTIES
  ReservationHolds
  ImplementsLedger
