SPECIFICATION Spec
CONSTANTS
  Handlers = {h1, h2}
  MaxBatch = 1
  MaxReplies = 1
  MaxTime = 2
  MaxSessions = 2
  MaxTokens = 1
  MaxDeletions = 0
  MaxNotices = 0
  MaxOtps = 0
  InitialStatus = "active"
  InitialSessions = 0
  InitialExpiry = 3
  Threshold = 2
  LockTTL = 1
  SessionTTL = 1
  RecoveryTTL = 1
  DeletionTTL = 1
  OtpTTL = 1
  MaxAttempts = 1
  RateWindow = 1
  Ops = {"login", "recovery", "reset", "profile", "suspend"}
  MaxFaults = 1
SYMMETRY Symmetry
INVARIANTS
  LiveSessionsPostdateReset
  TokenUseBound
  FailureOverrun
PROPERTIES
  ImplementsLifecycle
