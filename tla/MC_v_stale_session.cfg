SPECIFICATION Spec
CONSTANTS
  Handlers = {h1, h2}
  MaxBatch = 1
  MaxReplies = 1
  MaxTime = 1
  MaxSessions = 1
  MaxTokens = 1
  MaxDeletions = 0
  MaxNotices = 0
  MaxOtps = 0
  InitialStatus = "active"
  InitialSessions = 0
  InitialExpiry = 3
  Threshold = 2
  LockTTL = 1
  SessionTTL = 2
  RecoveryTTL = 1
  DeletionTTL = 1
  OtpTTL = 1
  MaxAttempts = 1
  RateWindow = 1
  Ops = {"recovery", "reset", "login"}
  MaxFaults = 0
SYMMETRY Symmetry
INVARIANTS
  LiveSessionsMatchPassword
