-------------------------- MODULE PasswordRecovery --------------------------
(***************************************************************************)
(* POST /api/v1/auth/password-recovery and /password-reset:                *)
(* PasswordRecoveryService.requestRecovery and resetPassword.  The reset   *)
(* reads the token row, spends a bcrypt hash off the event loop, and then  *)
(* commits one transaction that does not look at the token row again.      *)
(***************************************************************************)
EXTENDS EventLoop, Database

CONSTANT RecoveryTTL   \* PASSWORD_RECOVERY_TOKEN_EXPIRY_HOURS, in ticks

ASSUME RecoveryAssumption == RecoveryTTL \in Nat \ {0}

RecoveryTokens == 1..MaxTokens

RecoveryRequests == [op : {"recovery"}, email : Emails]
ResetRequests == [op : {"reset"}, token : RecoveryTokens]

RecoveryFrame(label, locals) ==
    \/ label = "recovery" /\ locals \in RecoveryRequests
    \/ label = "recovery.row" /\ locals \in [found : BOOLEAN]
    \/ label = "recovery.sent" /\ locals = NoLocals
    \/ label = "reset" /\ locals \in ResetRequests
    \/ label = "reset.row" /\ locals \in [token : RecoveryTokens, row : RecoveryRow]
    \/ label = "reset.hashed" /\ locals \in [token : RecoveryTokens]

-----------------------------------------------------------------------------
\* userRepository.findByEmail
Recovery_FindByEmail(h) ==
    /\ Runs(h, "recovery")
    /\ Await(h, "recovery.row", [found |-> FindByEmail(loc[h].email)])
    /\ UNCHANGED tables

\* Unknown email: 202 all the same
Recovery_Unknown(h) ==
    /\ Runs(h, "recovery.row")
    /\ ~loc[h].found
    /\ Respond(h)
    /\ UNCHANGED tables

\* Insert the token row; the email goes out one microtask later
Recovery_Insert(h) ==
    /\ Runs(h, "recovery.row")
    /\ loc[h].found
    /\ \E t \in RecoveryTokens :
         /\ NextRow(recoveries, t)
         /\ recoveries' = [recoveries EXCEPT ![t] =
              [st |-> "open", expires |-> clock + RecoveryTTL, uses |-> 0]]
    /\ Park(h, "recovery.sent", NoLocals)
    /\ UNCHANGED <<user, sessions, deletions, notices, otps>>

\* 202 whatever the delivery result is
Recovery_Answer(h) ==
    /\ Runs(h, "recovery.sent")
    /\ Respond(h)
    /\ UNCHANGED tables

-----------------------------------------------------------------------------
\* recoveryRequestRepository.findByToken
Reset_FindToken(h) ==
    /\ Runs(h, "reset")
    /\ Await(h, "reset.row", [token |-> loc[h].token,
                              row |-> recoveries[loc[h].token]])
    /\ UNCHANGED tables

\* Variant: does not look at `consumed`.
UnusableByExpiry(row) == row.st = "absent" \/ clock > row.expires

\* Unknown (404), consumed or past its expiry (410)
Unusable(row) == row.st # "open" \/ clock > row.expires

\* 404, 410, or 422 for a new password the policy rejects
Reset_Refuse(h) ==
    /\ Runs(h, "reset.row")
    /\ Respond(h)
    /\ UNCHANGED tables

\* passwordHasher.hash(newPassword), on the thread pool
Reset_Hash(h) ==
    /\ Runs(h, "reset.row")
    /\ ~Unusable(loc[h].row)
    /\ Park(h, "reset.hashed", [token |-> loc[h].token])
    /\ UNCHANGED tables

\* UPDATE password_recovery_requests SET consumed = 1 WHERE id = ?
ConsumeToken(t) ==
    recoveries' = [recoveries EXCEPT ![t].st = "consumed", ![t].uses = @ + 1]

\* The transaction: new hash, token consumed, every live session revoked; 200.
\* A hash is numbered by the reset that stored it.
Reset_Commit(h) ==
    /\ Runs(h, "reset.hashed")
    /\ user' = [user EXCEPT !.hash = @ + 1]
    /\ ConsumeToken(loc[h].token)
    /\ InvalidateAllForUser
    /\ Respond(h)
    /\ UNCHANGED <<deletions, notices, otps>>

RecoveryStep(h) ==
    \/ Recovery_FindByEmail(h)
    \/ Recovery_Unknown(h)
    \/ Recovery_Insert(h)
    \/ Recovery_Answer(h)
    \/ Reset_FindToken(h)
    \/ Reset_Refuse(h)
    \/ Reset_Hash(h)
    \/ Reset_Commit(h)

-----------------------------------------------------------------------------
\* However many requests race on it, a token changes the password at most once
\* per request that can be in flight, and it has been used exactly when it is
\* consumed: consumption is final, and only a request that read the row before
\* the first commit can still commit.
TokenUseBound ==
    \A t \in RecoveryTokens :
      /\ recoveries[t].uses <= Cardinality(Handlers)
      /\ recoveries[t].uses > 0 <=> recoveries[t].st = "consumed"

\* After a reset no session issued before it can be used (FR-018): a live session
\* was inserted while the current password hash was stored.
LiveSessionsPostdateReset ==
    \A s \in DOMAIN sessions :
      sessions[s].st = "live" => sessions[s].stored = user.hash

\* A live session was obtained with the current password.
LiveSessionsMatchPassword ==
    \A s \in DOMAIN sessions :
      sessions[s].st = "live" => sessions[s].checked = user.hash

RecoveryStatements == {"recovery", "recovery.row", "reset", "reset.hashed"}
=============================================================================
