CONSTANTS
  Conv = {c1, c2, c3}
  Query = {q1, q2}
  MaxToken = 1
  NoQuery = NoQuery
SPECIFICATION FairSpec
INVARIANTS AnswersInPlace DeletedStaysDeleted EndsExplained
PROPERTIES StopHolds ComposerReturns
CHECK_DEADLOCK FALSE
