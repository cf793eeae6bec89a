\* Both databases: two users, two organizations to move between, two sessions.
CONSTANTS
  User = {u1, u2}
  Org = {o1, o2}
  NoOrg = NoOrg
  Session = {s1, s2}
  Node = {n1}
  Exchange = {x1}
  Databases = {"postgres", "sqlite"}
SPECIFICATION DevicesSpec
SYMMETRY DeviceSymmetry
VIEW DeviceTables
INVARIANTS
  DevicesTypeOK
  LiveNodesAreGrounded
  NoTokenForUnusableNode
  SQLiteAgentsBelongToMembers
PROPERTIES
  UnusableStaysUnusable
  TombstonesHold
  LossIsAnnounced
