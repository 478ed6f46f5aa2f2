-------------------------------- MODULE Otp --------------------------------
(***************************************************************************)
(* POST /api/v1/otp/send, /resend and /verify: OtpService.issueOtp and     *)
(* verifyOtp, with RateLimitGuard in Redis between the users row and the   *)
(* otp_requests rows.                                                      *)
(***************************************************************************)
EXTENDS EventLoop, Database

CONSTANTS
    OtpTTL,        \* OTP_TTL_MINUTES, in ticks
    MaxAttempts,   \* OTP_MAX_ATTEMPTS_PER_WINDOW
    RateWindow     \* OTP_RATE_LIMIT_WINDOW_MINUTES, in ticks

ASSUME OtpAssumption ==
    /\ OtpTTL \in Nat \ {0}
    /\ MaxAttempts \in Nat
    /\ RateWindow \in Nat \ {0}

VARIABLE limiter   \* the Redis key otp:rl:<userId>; expires 0 is "no TTL"

LimiterOK == limiter \in [count : 0..(MaxAttempts + 2), expires : Nat]

LimiterInit == limiter = [count |-> 0, expires |-> 0]

OtpIds == 1..MaxOtps

OtpRequests == [op : {"otp.issue", "otp.verify"}]

\* The labels at which a handler waits for a Redis reply.
RedisLabels == {"otp.counted", "otp.windowed"}

OtpFrame(label, locals) ==
    \/ label \in {"otp.issue", "otp.verify"} /\ locals \in OtpRequests
    \/ label \in {"otp.issue.user", "otp.verify.user"}
         /\ locals \in [status : Statuses]
    \/ label \in {"otp.counted", "otp.windowed", "otp.allowed"}
         /\ locals \in [count : 0..(MaxAttempts + 2)]
    \/ label \in {"otp.sequence", "otp.create", "otp.dispatched"}
         /\ locals = NoLocals
    \/ label = "otp.verify.row" /\ locals \in [active : SUBSET OtpIds]

-----------------------------------------------------------------------------
\* Redis INCR and EXPIRE.  The count saturates above the limit and above the first.
Expired(key) == key.expires # 0 /\ clock >= key.expires

Incr(key) ==
    LET old == IF Expired(key) THEN [count |-> 0, expires |-> 0] ELSE key
    IN  [old EXCEPT !.count = IF @ > MaxAttempts /\ @ > 1 THEN @ ELSE @ + 1]

\* Variant: starts the window only once the limit is passed.
ExpireAtLimit(key) ==
    IF key.count > MaxAttempts THEN [key EXCEPT !.expires = clock + RateWindow]
    ELSE key

Expire(key) ==
    IF Expired(key) THEN key ELSE [key EXCEPT !.expires = clock + RateWindow]

-----------------------------------------------------------------------------
\* userRepository.findById
Issue_FindUser(h) ==
    /\ Runs(h, "otp.issue")
    /\ Await(h, "otp.issue.user", [status |-> user.status])
    /\ UNCHANGED <<tables, limiter>>

\* Variant: any account that is not suspended.
CanVerifyDeleted(status) == status # "suspended"

CanVerify(status) == status \in {"pending", "active"}

\* 403
Issue_Forbidden(h) ==
    /\ Runs(h, "otp.issue.user")
    /\ ~CanVerify(loc[h].status)
    /\ Respond(h)
    /\ UNCHANGED <<tables, limiter>>

\* redis.incr(key); the reply carries the new count
Issue_Incr(h) ==
    /\ Runs(h, "otp.issue.user")
    /\ CanVerify(loc[h].status)
    /\ limiter' = Incr(limiter)
    /\ Park(h, "otp.counted", [count |-> limiter'.count])
    /\ UNCHANGED tables

\* The first attempt of a window: redis.expire(key, windowSeconds)
Issue_Expire(h) ==
    /\ Runs(h, "otp.counted")
    /\ loc[h].count = 1
    /\ limiter' = Expire(limiter)
    /\ Park(h, "otp.windowed", loc[h])
    /\ UNCHANGED tables

\* allow() returns to issueOtp
Issue_Allow(h) ==
    /\ \/ Runs(h, "otp.counted") /\ loc[h].count # 1
       \/ Runs(h, "otp.windowed")
    /\ Await(h, "otp.allowed", loc[h])
    /\ UNCHANGED <<tables, limiter>>

\* 429
Issue_Limited(h) ==
    /\ Runs(h, "otp.allowed")
    /\ loc[h].count > MaxAttempts
    /\ Respond(h)
    /\ UNCHANGED <<tables, limiter>>

\* invalidateActiveByUserId
Issue_Invalidate(h) ==
    /\ Runs(h, "otp.allowed")
    /\ loc[h].count <= MaxAttempts
    /\ otps' = [o \in OtpIds |-> IF otps[o].st = "active"
                                   THEN [otps[o] EXCEPT !.st = "invalidated"]
                                   ELSE otps[o]]
    /\ Await(h, "otp.sequence", NoLocals)
    /\ UNCHANGED <<user, sessions, recoveries, deletions, notices, limiter>>

\* getNextAttemptSequence: only read
Issue_Sequence(h) ==
    /\ Runs(h, "otp.sequence")
    /\ Await(h, "otp.create", NoLocals)
    /\ UNCHANGED <<tables, limiter>>

\* Variant: no unique index.
ManyActivePerUser == TRUE

\* uidx_otp_requests_active_per_user: the INSERT fails while one is active
OneActivePerUser == \A o \in OtpIds : otps[o].st # "active"

\* otpRequestRepository.create, then the email, one microtask later
Issue_Create(h) ==
    /\ Runs(h, "otp.create")
    /\ OneActivePerUser
    /\ \E o \in OtpIds :
         /\ NextRow(otps, o)
         /\ otps' = [otps EXCEPT ![o] = [st |-> "active", expires |-> clock + OtpTTL]]
    /\ Park(h, "otp.dispatched", NoLocals)
    /\ UNCHANGED <<user, sessions, recoveries, deletions, notices, limiter>>

\* Variant: tries the INSERT again instead of answering.
Issue_ConflictRetried(h) ==
    /\ Runs(h, "otp.create")
    /\ ~OneActivePerUser
    /\ Await(h, "otp.sequence", NoLocals)
    /\ UNCHANGED <<tables, limiter>>

\* The unique index rejects the row: 500
Issue_Conflict(h) ==
    /\ Runs(h, "otp.create")
    /\ ~OneActivePerUser
    /\ Respond(h)
    /\ UNCHANGED <<tables, limiter>>

\* markDelivered or markFailed: a column nothing compares; 202
Issue_Answer(h) ==
    /\ Runs(h, "otp.dispatched")
    /\ Respond(h)
    /\ UNCHANGED <<tables, limiter>>

-----------------------------------------------------------------------------
\* verifyOtp: userRepository.findById
Verify_FindUser(h) ==
    /\ Runs(h, "otp.verify")
    /\ Await(h, "otp.verify.user", [status |-> user.status])
    /\ UNCHANGED <<tables, limiter>>

\* 404 for an account that is neither pending nor active
Verify_NoUser(h) ==
    /\ Runs(h, "otp.verify.user")
    /\ ~CanVerify(loc[h].status)
    /\ Respond(h)
    /\ UNCHANGED <<tables, limiter>>

\* Variant: the passcode is compared off the event loop, as passwords are.
Verify_FindActiveSlowly(h) ==
    /\ Runs(h, "otp.verify.user")
    /\ CanVerify(loc[h].status)
    /\ Park(h, "otp.verify.row", [active |-> Selected(otps, "active")])
    /\ UNCHANGED <<tables, limiter>>

\* findActiveByUserId
Verify_FindActive(h) ==
    /\ Runs(h, "otp.verify.user")
    /\ CanVerify(loc[h].status)
    /\ Await(h, "otp.verify.row", [active |-> Selected(otps, "active")])
    /\ UNCHANGED <<tables, limiter>>

\* 404 none active, 410 expired, 422 wrong passcode
Verify_Refuse(h) ==
    /\ Runs(h, "otp.verify.row")
    /\ Respond(h)
    /\ UNCHANGED <<tables, limiter>>

\* The transaction: the account is active, the passcode spent; 200.
Verify_Commit(h) ==
    /\ Runs(h, "otp.verify.row")
    /\ \E o \in loc[h].active :
         /\ clock <= otps[o].expires
         /\ otps' = [otps EXCEPT ![o].st = "invalidated"]
    /\ user' = [user EXCEPT !.status = "active"]
    /\ Respond(h)
    /\ UNCHANGED <<sessions, recoveries, deletions, notices, limiter>>

OtpStep(h) ==
    \/ Issue_FindUser(h)
    \/ Issue_Forbidden(h)
    \/ Issue_Incr(h)
    \/ Issue_Expire(h)
    \/ Issue_Allow(h)
    \/ Issue_Limited(h)
    \/ Issue_Invalidate(h)
    \/ Issue_Sequence(h)
    \/ Issue_Create(h)
    \/ Issue_Conflict(h)
    \/ Issue_Answer(h)
    \/ Verify_FindUser(h)
    \/ Verify_NoUser(h)
    \/ Verify_FindActive(h)
    \/ Verify_Refuse(h)
    \/ Verify_Commit(h)

OtpStatements ==
    {"otp.issue", "otp.issue.user", "otp.counted", "otp.windowed", "otp.allowed",
     "otp.sequence", "otp.create", "otp.dispatched",
     "otp.verify", "otp.verify.user", "otp.verify.row"}

-----------------------------------------------------------------------------
\* At most one passcode of the user can be verified at any time.
OneActiveOtp == Cardinality({o \in OtpIds : otps[o].st = "active"}) <= 1

\* A passcode activates the account only while it is active: neither a spent nor
\* a superseded one does.
VerifiesActiveOtp ==
    [][\A h \in Handlers :
         Verify_Commit(h) => \E o \in loc[h].active : otps[o].st = "active"]_<<user, otps>>

\* "so the counter resets automatically once the window elapses"
\* (rate-limit.guard.ts:6): a counting key has a TTL, or a request in flight is
\* about to set it.
WindowCloses ==
    limiter.count > 0 /\ limiter.expires = 0 =>
      \E h \in Handlers : pc[h] = "otp.counted" /\ loc[h].count = 1
=============================================================================
