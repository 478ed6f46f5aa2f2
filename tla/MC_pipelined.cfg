SPECIFICATION Spec
CONSTANTS
  Handlers = {h1, h2}
  MaxBatch = 2
  MaxReplies = 2
  MaxTime = 1
  MaxSessions = 2
  MaxTokens = 0
  MaxDeletions = 1
  MaxNotices = 2
  MaxOtps = 1
  InitialStatus = "active"
  InitialSessions = 1
  InitialExpiry = 2
  Threshold = 2
  LockTTL = 1
  SessionTTL = 1
  RecoveryTTL = 1
  DeletionTTL = 1
  OtpTTL = 1
  MaxAttempts = 1
  RateWindow = 1
  Ops = {"login", "logout", "profile", "deletion.request", "deletion.confirm", "otp.issue", "otp.verify"}
  MaxFaults = 0
SYMMETRY Symmetry
INVARIANTS
  TypeOK
  NoticesReachTheOwner
PROPERTIES
  DeletedIsFinal
  ImplementsLifecycle
