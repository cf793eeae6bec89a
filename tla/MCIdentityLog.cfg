\* Two writers, two consumers with responses of at most two events; up to two
\* imported ids and five ids in all.
CONSTANTS
  Writer = {w1, w2}
  Consumer = {c1, c2}
  NotSubscribed = NotSubscribed
  Limit = 2
  Imported = 2
  MaxId = 5
SPECIFICATION LogSpec
INVARIANTS
  NothingSkipped
  DrawnIdsAreNew
PROPERTIES
  ImplementsFeed
  EventuallySeen
