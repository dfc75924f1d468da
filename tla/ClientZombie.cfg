CONSTANTS
  Tab = {a}
  User = {u1}
  Call = {c1}
  MaxToken = 3
  NoUser = NoUser
SPECIFICATION Spec
PROPERTY SignOutHolds
CHECK_DEADLOCK FALSE
