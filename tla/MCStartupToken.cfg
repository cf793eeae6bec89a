SPECIFICATION StartupSpec
CONSTANTS
  Server = {s1}
  Importer = {}
  Environments <- OnlyFiles
  s1 = s1
  Latest = 2
  MaxSecret = 8
  MaxCrash = 1
PROPERTIES
  EmptyTokenIsNoObstacle
