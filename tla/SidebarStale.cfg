CONSTANTS
  File = {f1, f2}
  User = {u1, u2}
  Chain = {c1, c2}
  MaxOps = 2
  MaxPolls = 1
  NoFile = NoFile
SPECIFICATION Spec
INVARIANT SidebarIsSwapped
CHECK_DEADLOCK FALSE
