CONSTANTS
  Tab = {a, b}
  User = {u1}
  Call = {c1, c2}
  MaxToken = 3
  NoUser = NoUser
SPECIFICATION FairSpec
INVARIANTS TypeOK NoFalseReuse KeepsCredential TabsConverge
PROPERTY CallsSettle
CHECK_DEADLOCK FALSE
