CONSTANTS
  Tab = {a, b}
  User = {u1, u2}
  Conv = {c1, c2, c3, c4}
  MaxEdit = 1
  NoUser = NoUser
SPECIFICATION Spec
SYMMETRY Symmetry
INVARIANTS KeptApart SavedOrDue
CHECK_DEADLOCK FALSE
