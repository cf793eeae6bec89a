SPECIFICATION EntitlementSpec
CONSTANTS
  User = {u1, u2}
  Plan = {free, admin}
  Free = free
  Admin = admin
  Limit = {some, unlimited}
  FreeLimit = some
  AdminLimit = unlimited
  None = None
SYMMETRY EntitlementSymmetry
INVARIANTS
  EveryAccountResolves
  ProjectionIsCurrent
