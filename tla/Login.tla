------------------------------- MODULE Login -------------------------------
(***************************************************************************)
(* POST /api/v1/auth/login: AuthController.login, AuthService.login and    *)
(* LoginGuard.  The users row is read once, before the bcrypt comparison;  *)
(* every decision after it uses that snapshot.                             *)
(***************************************************************************)
EXTENDS EventLoop, Database

CONSTANTS
    Threshold,   \* LOGIN_LOCKOUT_THRESHOLD
    LockTTL,     \* LOGIN_LOCKOUT_DURATION_MINUTES, in ticks
    SessionTTL   \* SESSION_EXPIRY_SECONDS, in ticks

ASSUME LoginAssumption ==
    /\ Threshold \in Nat \ {0}
    /\ LockTTL \in Nat \ {0}
    /\ SessionTTL \in Nat \ {0}

LoginRequests == [op : {"login"}, email : Emails]

\* The resume points of the handler, each with the locals it holds there.
LoginFrame(label, locals) ==
    \/ label = "login" /\ locals \in LoginRequests
    \/ label = "login.row" /\ locals \in [found : BOOLEAN, row : UserRow]
    \/ label = "login.compared" /\ locals \in [failed : Nat, hash : Nat]
    \/ label = "login.failed" /\ locals \in [failed : Nat]
    \/ label = "login.locked" /\ locals = NoLocals
    \/ label \in {"login.matched", "login.session"} /\ locals \in [hash : Nat]

-----------------------------------------------------------------------------
\* checkLockout: locked only while lockedUntil is strictly in the future.
Locked(row) == row.lockedUntil > clock

\* Variant: the test forgets the attempt that is being counted.
ReachesThresholdLate(failed) == failed >= Threshold

\* registerFailure: the threshold test, on the count of the snapshot.
ReachesThreshold(failed) == failed + 1 >= Threshold

\* userRepository.findByEmail(email)
Login_FindByEmail(h) ==
    /\ Runs(h, "login")
    /\ Await(h, "login.row", [found |-> FindByEmail(loc[h].email), row |-> user])
    /\ UNCHANGED tables

\* 401 unknown email, 423 locked, 403 not active
Login_Refuse(h) ==
    /\ Runs(h, "login.row")
    /\ \/ ~loc[h].found
       \/ Locked(loc[h].row)
       \/ loc[h].row.status # "active"
    /\ Respond(h)
    /\ UNCHANGED tables

\* passwordHasher.compare(password, user.passwordHash), on the thread pool
Login_Compare(h) ==
    /\ Runs(h, "login.row")
    /\ loc[h].found
    /\ ~Locked(loc[h].row)
    /\ loc[h].row.status = "active"
    /\ Park(h, "login.compared", [failed |-> loc[h].row.failed,
                                  hash |-> loc[h].row.hash])
    /\ UNCHANGED tables

\* Wrong password: registerFailure, incrementFailedLoginCount
Login_CountFailure(h) ==
    /\ Runs(h, "login.compared")
    /\ IncrementFailedLoginCount
    /\ Await(h, "login.failed", [failed |-> loc[h].failed])
    /\ UNCHANGED <<sessions, recoveries, deletions, notices, otps>>

\* 401, the count stays
Login_Reject(h) ==
    /\ Runs(h, "login.failed")
    /\ ~ReachesThreshold(loc[h].failed)
    /\ Respond(h)
    /\ UNCHANGED tables

Login_Lock(h) ==
    /\ Runs(h, "login.failed")
    /\ ReachesThreshold(loc[h].failed)
    /\ LockAccount(clock + LockTTL)
    /\ Await(h, "login.locked", NoLocals)
    /\ UNCHANGED <<sessions, recoveries, deletions, notices, otps>>

\* resetFailedLoginCount after the lock, then 401
Login_CleanWindow(h) ==
    /\ Runs(h, "login.locked")
    /\ ResetFailedLoginCount
    /\ Respond(h)
    /\ UNCHANGED <<sessions, recoveries, deletions, notices, otps>>

\* Right password: resetFailedLoginCount
Login_Match(h) ==
    /\ Runs(h, "login.compared")
    /\ ResetFailedLoginCount
    /\ Await(h, "login.matched", [hash |-> loc[h].hash])
    /\ UNCHANGED <<sessions, recoveries, deletions, notices, otps>>

\* updateLastLoginAt: writes last_login_at, which nothing compares
Login_Stamp(h) ==
    /\ Runs(h, "login.matched")
    /\ Await(h, "login.session", loc[h])
    /\ UNCHANGED tables

\* sessionService.createSession, then 200
Login_CreateSession(h) ==
    /\ Runs(h, "login.session")
    /\ InsertSession(loc[h].hash, clock + SessionTTL)
    /\ Respond(h)
    /\ UNCHANGED <<user, recoveries, deletions, notices, otps>>

LoginStep(h) ==
    \/ Login_FindByEmail(h)
    \/ Login_Refuse(h)
    \/ Login_Compare(h)
    \/ Login_CountFailure(h)
    \/ Login_Reject(h)
    \/ Login_Lock(h)
    \/ Login_CleanWindow(h)
    \/ Login_Match(h)
    \/ Login_Stamp(h)
    \/ Login_CreateSession(h)

\* Where a statement of this handler can fail (disk full, SQLITE_BUSY, ...): the
\* controller answers 500 and nothing written before is undone.
LoginStatements == {"login", "login.compared", "login.failed", "login.locked",
                    "login.matched", "login.session"}

=============================================================================
