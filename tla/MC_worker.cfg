SPECIFICATION FairSpec
CONSTANTS
  Polls = {p1, p2}
  MaxRecords = 2
  MaxRetries = 1
  MaxFaults = 1
INVARIANTS
  RetryBound
  GivenUpAfterRetries
  DuplicatesBounded
PROPERTIES
  SettledIsFinal
  EveryNoticeSettles
CHECK_DEADLOCK FALSE
