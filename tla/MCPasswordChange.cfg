\* Three calls on two request ids, two passwords: a change away and back is
\* possible while a third call holds the hash it read.
CONSTANTS
  Call = {c1, c2, c3}
  RequestId = {r1, r2}
  Password = {p1, p2}
  InitialPassword = p1
  NoCall = NoCall
SPECIFICATION PasswordSpec
CHECK_DEADLOCK FALSE
INVARIANTS
  ReceiptNeverMissing
  AnswersAgree
PROPERTIES
  ImplementsOutcome
  EveryRequestDecided
