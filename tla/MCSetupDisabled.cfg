SPECIFICATION ImportSpec
CHECK_DEADLOCK FALSE
CONSTANTS
  Accounts = 1
  Org = {o1, o2}
  Home = o1
  Own = o2
  Jobs = {"nexus"}
INVARIANTS
  OneDeploymentAtMost
