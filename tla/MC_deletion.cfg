SPECIFICATION Spec
CONSTANTS
  Handlers = {h1, h2}
  MaxBatch = 1
  MaxReplies = 1
  MaxTime = 3
  MaxSessions = 2
  MaxTokens = 0
  MaxDeletions = 2
  MaxNotices = 2
  MaxOtps = 0
  InitialStatus = "active"
  InitialSessions = 1
  InitialExpiry = 4
  Threshold = 2
  LockTTL = 1
  SessionTTL = 2
  RecoveryTTL = 1
  DeletionTTL = 1
  OtpTTL = 1
  MaxAttempts = 1
  RateWindow = 1
  Ops = {"login", "profile", "deletion.request", "deletion.confirm", "deletion.cancel"}
  MaxFaults = 1
SYMMETRY Symmetry
INVARIANTS
  OnePendingDeletion
  OneNotice
  DeletionIsAtomic
  AcceptedIsCurrent
