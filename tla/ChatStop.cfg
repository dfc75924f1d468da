CONSTANTS
  Conv = {c1}
  Query = {q1, q2}
  MaxToken = 1
  NoQuery = NoQuery
SPECIFICATION Spec
INVARIANT StopShown
CHECK_DEADLOCK FALSE
