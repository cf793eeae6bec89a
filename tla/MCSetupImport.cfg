\* Both imports beside setup; the founder's organization cannot be imported.
SPECIFICATION ImportSpec
CHECK_DEADLOCK FALSE
CONSTANTS
  Accounts = 2
  Org = {o1, o2}
  Home = o1
  Own = o2
  Jobs = {"nexus", "control"}
CONSTRAINT OneLargeSource
INVARIANTS
  SingleDeployment
  FirstOwnerKeepsOrganization
  ControlImportKeepsRoles
