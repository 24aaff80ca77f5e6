SPECIFICATION FairTelescopeSpec
CONSTANTS
  Handlers = {h1, h2}
  Operators = {o1}
  Depths <- MCDepths
  MaxMM = 2
  Free = Free
INVARIANTS
  TelescopeTypeOK
  MovingOwned
  SkewOnlyAfterFailure
  PickupStartsRetracted
PROPERTIES
  CallsReturn
