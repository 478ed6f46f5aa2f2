SPECIFICATION FairSpec
CONSTANTS
  Handlers = {h1, h2}
  MaxBatch = 1
  MaxReplies = 2
  MaxTime = 3
  MaxSessions = 0
  MaxTokens = 0
  MaxDeletions = 0
  MaxNotices = 0
  MaxOtps = 3
  InitialStatus = "pending"
  InitialSessions = 0
  InitialExpiry = 3
  Threshold = 2
  LockTTL = 1
  SessionTTL = 2
  RecoveryTTL = 1
  DeletionTTL = 1
  OtpTTL = 1
  MaxAttempts = 2
  RateWindow = 1
  Ops = {"otp.issue", "otp.verify"}
  MaxFaults = 1
INVARIANTS
  OneActiveOtp
PROPERTIES
  WindowOpensByFault
  VerifiesActiveOtp
  RequestsAnswered
