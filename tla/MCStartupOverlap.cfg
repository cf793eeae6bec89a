SPECIFICATION StartupSpec
CONSTANTS
  Server = {s1}
  Importer = {i1}
  Environments <- OnlyTogether
  s1 = s1
  Latest = 2
  MaxSecret = 8
  MaxCrash = 0
INVARIANTS
  SharedSigningKey
