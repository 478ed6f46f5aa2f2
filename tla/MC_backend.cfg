SPECIFICATION FairSpec
CONSTANTS
  Handlers = {h1, h2}
  MaxBatch = 2
  MaxReplies = 1
  MaxTime = 2
  Users = {ann}
  Polls = {p1}
  MaxRetries = 1
  MaxFaults = 1
  TokenExpiry = 1
  NumFiles = 3
  MaxStops = 1
  Environments <- MCEnvironments
INVARIANTS
  ServesFullSchema
  QueuedHaveTokens
PROPERTIES
  DeletedIsFinal
  ComesUp
  ConfirmationsSettle
