CONSTANTS
  User = {u1, u2}
  File = {f1, f2}
  Page = {p1, p2}
  Starter = {f1}
  MaxUpload = 2
  MaxCopy = 3
  MaxCrash = 1
  MaxFault = 1
  NoUser = NoUser
  NoFile = NoFile
SPECIFICATION Spec
SYMMETRY Symmetry
INVARIANTS TypeOK RetrievalIsIsolated AckedIsDurable CitationsAreBacked CitesNothingOlder NoDuplicateVectors
PROPERTY SyncIndexesAll
CHECK_DEADLOCK FALSE
