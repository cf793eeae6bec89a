SPECIFICATION StartupSpec
CONSTANTS
  Server = {s1, s2}
  Importer = {i1}
  Environments <- Mixed
  s1 = s1
  Latest = 2
  MaxSecret = 10
  MaxCrash = 3
INVARIANTS
  SigningKeyIsPersisted
  ServingIsReady
PROPERTIES
  EveryServerComesUp
