CONSTANTS
  User = {u1, u2}
  Org = {o1}
  NoOrg = NoOrg
  Session = {s1, s2}
  Node = {n1}
  Exchange = {x1}
  Databases = {"sqlite"}
SPECIFICATION DevicesSpec
PROPERTY
  RestoreRevivesNoSession
