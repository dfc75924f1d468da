CONSTANTS
  User = {u1}
  File = {f1, f2}
  Page = {p1}
  Starter = {f1}
  MaxUpload = 1
  MaxCopy = 2
  MaxCrash = 1
  MaxFault = 0
  NoUser = NoUser
  NoFile = NoFile
SPECIFICATION Spec
INVARIANT AckedIsFound
CHECK_DEADLOCK FALSE
