\* No symmetry: one property is temporal.
SPECIFICATION RowLocksSpec
CHECK_DEADLOCK FALSE
CONSTANTS
  Txn = {t1, t2}
  Session = {s1, s2}
  u1 = u1
  User = {u1}
  Owner <- OneOwner
  Kinds = {"login", "suspend", "remove", "logout", "register", "publish", "leave", "password"}
  None = None
INVARIANTS
  OnlyLoginsDeadlock
PROPERTIES
  SettledNodesSurvive
  EveryTransactionEnds
