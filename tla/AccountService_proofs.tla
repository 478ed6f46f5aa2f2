----------------------- MODULE AccountService_proofs -----------------------
(***************************************************************************)
(* Type correctness of the API.  Every operation ends in Await, Park or    *)
(* Respond, so one lemma for each says that a handler which moves to a     *)
(* resume point with the locals of that point keeps HandlersOK; a lemma    *)
(* per service then has one case per action.                               *)
(***************************************************************************)
EXTENDS AccountService, TLAPS

\* A handler that awaits a resolved promise keeps the queue and the locals typed.
LEMMA AwaitTyped ==
    ASSUME HandlersOK, NEW h \in Handlers, ready # <<>>,
           NEW label, NEW locals, Frame(label, locals),
           Await(h, label, locals)
    PROVE  HandlersOK'
  <1>1. ready' \in Seq(Handlers)
    BY DEF HandlersOK, Await
  <1>2. QED
    BY <1>1 DEF HandlersOK, Await, Goto

\* So does one that leaves the queue for real I/O.
LEMMA ParkTyped ==
    ASSUME HandlersOK, NEW h \in Handlers, ready # <<>>,
           NEW label, NEW locals, Frame(label, locals),
           Park(h, label, locals)
    PROVE  HandlersOK'
  <1>1. ready' \in Seq(Handlers)
    BY DEF HandlersOK, Park
  <1>2. QED
    BY <1>1 DEF HandlersOK, Park, Goto

\* So does one that sends its response and frees its slot.
LEMMA RespondTyped ==
    ASSUME HandlersOK, NEW h \in Handlers, ready # <<>>, Respond(h)
    PROVE  HandlersOK'
  <1>1. ready' \in Seq(Handlers)
    BY DEF HandlersOK, Respond
  <1>2. Frame("idle", NoLocals)
    BY DEF Frame
  <1>3. QED
    BY <1>1, <1>2 DEF HandlersOK, Respond, Goto

-----------------------------------------------------------------------------
(* Login *)

\* What a login handler holds where it resumes.
LEMMA LoginFrames ==
    ASSUME NEW label, NEW locals, Frame(label, locals)
    PROVE  /\ label = "login" => locals \in LoginRequests
           /\ label = "login.row" => locals \in [found : BOOLEAN, row : UserRow]
           /\ label = "login.compared" => locals \in [failed : Nat, hash : Nat]
           /\ label = "login.failed" => locals \in [failed : Nat]
           /\ label \in {"login.matched", "login.session"} => locals \in [hash : Nat]
  BY DEF Frame, LoginFrame, GuardFrame, RecoveryFrame, DeletionFrame, OtpFrame,
         DeletionRoutes

\* A new live row keeps the sessions table typed.
LEMMA InsertSessionTyped ==
    ASSUME TablesOK, NEW checked \in Nat, NEW expires \in Nat,
           InsertSession(checked, expires)
    PROVE  sessions' \in [1..MaxSessions -> SessionRow]
  BY DEF TablesOK, InsertSession, SessionRow, UserRow

\* Every step of the login handler keeps the types.
LEMMA LoginTyped ==
    ASSUME TypeOK, NEW h \in Handlers, LoginStep(h),
           UNCHANGED <<limiter, clock, faults>>
    PROVE  TypeOK'
  <1> USE DEF TypeOK, Runs
  <1> DEFINE Here == Frame(pc[h], loc[h])
  <1>0. HandlersOK /\ TablesOK /\ Here
    BY DEF HandlersOK
  <1>1. CASE Login_FindByEmail(h)
    <2> DEFINE l == [found |-> FindByEmail(loc[h].email), row |-> user]
    <2>1. l \in [found : BOOLEAN, row : UserRow]
      BY <1>0 DEF FindByEmail, TablesOK
    <2>2. Frame("login.row", l)
      BY <2>1 DEF Frame, LoginFrame
    <2>3. HandlersOK'
      BY <1>0, <1>1, <2>2, AwaitTyped DEF Login_FindByEmail
    <2> QED
      BY <2>3, <1>1 DEF Login_FindByEmail, tables, TablesOK, LimiterOK
  <1>2. CASE Login_Refuse(h)
    BY <1>0, <1>2, RespondTyped DEF Login_Refuse, tables, TablesOK, LimiterOK
  <1>3. CASE Login_Compare(h)
    <2> DEFINE l == [failed |-> loc[h].row.failed, hash |-> loc[h].row.hash]
    <2>1. loc[h].row \in UserRow
      BY <1>0, <1>3, LoginFrames DEF Login_Compare
    <2>2. Frame("login.compared", l)
      BY <2>1 DEF Frame, LoginFrame, UserRow
    <2>3. HandlersOK'
      BY <1>0, <1>3, <2>2, ParkTyped DEF Login_Compare
    <2> QED
      BY <2>3, <1>3 DEF Login_Compare, tables, TablesOK, LimiterOK
  <1>4. CASE Login_CountFailure(h)
    <2> DEFINE l == [failed |-> loc[h].failed]
    <2>1. Frame("login.failed", l)
      BY <1>0, <1>4, LoginFrames DEF Login_CountFailure, Frame, LoginFrame
    <2>2. HandlersOK'
      BY <1>0, <1>4, <2>1, AwaitTyped DEF Login_CountFailure
    <2>3. TablesOK'
      BY <1>0, <1>4 DEF Login_CountFailure, IncrementFailedLoginCount, TablesOK, UserRow
    <2> QED
      BY <2>2, <2>3, <1>4 DEF Login_CountFailure, LimiterOK
  <1>5. CASE Login_Reject(h)
    BY <1>0, <1>5, RespondTyped DEF Login_Reject, tables, TablesOK, LimiterOK
  <1>6. CASE Login_Lock(h)
    <2>1. Frame("login.locked", NoLocals)
      BY DEF Frame, LoginFrame
    <2>2. HandlersOK'
      BY <1>0, <1>6, <2>1, AwaitTyped DEF Login_Lock
    <2>3. TablesOK'
      BY <1>0, <1>6, LoginAssumption DEF Login_Lock, LockAccount, TablesOK, UserRow
    <2> QED
      BY <2>2, <2>3, <1>6 DEF Login_Lock, LimiterOK
  <1>7. CASE Login_CleanWindow(h)
    <2>1. TablesOK'
      BY <1>0, <1>7 DEF Login_CleanWindow, ResetFailedLoginCount, TablesOK, UserRow
    <2> QED
      BY <1>0, <2>1, <1>7, RespondTyped DEF Login_CleanWindow, LimiterOK
  <1>8. CASE Login_Match(h)
    <2> DEFINE l == [hash |-> loc[h].hash]
    <2>1. Frame("login.matched", l)
      BY <1>0, <1>8, LoginFrames DEF Login_Match, Frame, LoginFrame
    <2>2. HandlersOK'
      BY <1>0, <1>8, <2>1, AwaitTyped DEF Login_Match
    <2>3. TablesOK'
      BY <1>0, <1>8 DEF Login_Match, ResetFailedLoginCount, TablesOK, UserRow
    <2> QED
      BY <2>2, <2>3, <1>8 DEF Login_Match, LimiterOK
  <1>9. CASE Login_Stamp(h)
    <2>1. Frame("login.session", loc[h])
      BY <1>0, <1>9, LoginFrames DEF Login_Stamp, Frame, LoginFrame
    <2>2. HandlersOK'
      BY <1>0, <1>9, <2>1, AwaitTyped DEF Login_Stamp
    <2> QED
      BY <2>2, <1>9 DEF Login_Stamp, tables, TablesOK, LimiterOK
  <1>10. CASE Login_CreateSession(h)
    <2>1. loc[h].hash \in Nat /\ clock + SessionTTL \in Nat
      BY <1>0, <1>10, LoginFrames, LoginAssumption DEF Login_CreateSession
    <2>2. sessions' \in [1..MaxSessions -> SessionRow]
      BY <1>0, <1>10, <2>1, InsertSessionTyped DEF Login_CreateSession
    <2> QED
      BY <1>0, <2>2, <1>10, RespondTyped DEF Login_CreateSession, TablesOK, LimiterOK
  <1> QED
    BY <1>1, <1>2, <1>3, <1>4, <1>5, <1>6, <1>7, <1>8, <1>9, <1>10 DEF LoginStep

-----------------------------------------------------------------------------
(* SessionGuard *)

\* What a handler of the middleware, logout or profile holds where it resumes.
LEMMA GuardFrames ==
    ASSUME NEW label, NEW locals, Frame(label, locals)
    PROVE  /\ label = "guard" => locals \in GuardedRequests(Routes)
           /\ label = "guard.session" =>
                locals \in [token : Tokens, route : Routes, row : SessionRow]
           /\ label = "guard.user" =>
                locals \in [token : Tokens, route : Routes, status : Statuses]
           /\ label = "logout" => locals \in LogoutRequests
           /\ label = "logout.session" =>
                locals \in [token : Tokens, row : SessionRow]
           /\ label = "profile" => locals \in Authenticated
  BY DEF Frame, LoginFrame, GuardFrame, RecoveryFrame, DeletionFrame, OtpFrame,
         DeletionRoutes

\* Revoking all sessions keeps the sessions table typed.
LEMMA InvalidateAllTyped ==
    ASSUME TablesOK, InvalidateAllForUser
    PROVE  sessions' \in [1..MaxSessions -> SessionRow]
  BY DEF TablesOK, InvalidateAllForUser, Revoked, SessionRow

\* Every step of the middleware, logout and profile keeps the types.
LEMMA GuardTyped ==
    ASSUME TypeOK, NEW h \in Handlers, GuardStep(h),
           UNCHANGED <<limiter, clock, faults>>
    PROVE  TypeOK'
  <1> USE DEF TypeOK, Runs
  <1> DEFINE Here == Frame(pc[h], loc[h])
  <1>0. HandlersOK /\ TablesOK /\ Here
    BY DEF HandlersOK
  <1>1. CASE Guard_FindSession(h)
    <2> DEFINE l == [token |-> loc[h].token, route |-> loc[h].route,
                     row |-> sessions[loc[h].token]]
    <2>1. loc[h] \in GuardedRequests(Routes)
      BY <1>0, <1>1, GuardFrames DEF Guard_FindSession
    <2>2. sessions[loc[h].token] \in SessionRow
      BY <1>0, <2>1 DEF GuardedRequests, TablesOK, Tokens
    <2>3. Frame("guard.session", l)
      BY <2>1, <2>2 DEF Frame, GuardFrame, GuardedRequests
    <2>4. HandlersOK'
      BY <1>0, <1>1, <2>3, AwaitTyped DEF Guard_FindSession
    <2> QED
      BY <2>4, <1>1 DEF Guard_FindSession, tables, TablesOK, LimiterOK
  <1>2. CASE Guard_Refuse(h)
    BY <1>0, <1>2, RespondTyped DEF Guard_Refuse, tables, TablesOK, LimiterOK
  <1>3. CASE Guard_FindUser(h)
    <2> DEFINE l == [token |-> loc[h].token, route |-> loc[h].route,
                     status |-> user.status]
    <2>1. loc[h] \in [token : Tokens, route : Routes, row : SessionRow]
      BY <1>0, <1>3, GuardFrames DEF Guard_FindUser
    <2>2. user.status \in Statuses
      BY <1>0 DEF TablesOK, UserRow
    <2>3. Frame("guard.user", l)
      BY <2>1, <2>2 DEF Frame, GuardFrame
    <2>4. HandlersOK'
      BY <1>0, <1>3, <2>3, AwaitTyped DEF Guard_FindUser
    <2> QED
      BY <2>4, <1>3 DEF Guard_FindUser, tables, TablesOK, LimiterOK
  <1>4. CASE Guard_Expel(h)
    <2>1. sessions' \in [1..MaxSessions -> SessionRow]
      BY <1>0, <1>4, InvalidateAllTyped DEF Guard_Expel
    <2> QED
      BY <1>0, <2>1, <1>4, RespondTyped DEF Guard_Expel, TablesOK, LimiterOK
  <1>5. CASE Guard_Pass(h)
    <2> DEFINE l == [token |-> loc[h].token]
    <2>1. loc[h] \in [token : Tokens, route : Routes, status : Statuses]
      BY <1>0, <1>5, GuardFrames DEF Guard_Pass
    <2>2. Frame(loc[h].route, l)
      BY <2>1 DEF Frame, GuardFrame, DeletionFrame, Routes, Authenticated, Tokens
    <2>3. HandlersOK'
      BY <1>0, <1>5, <2>2, AwaitTyped DEF Guard_Pass
    <2> QED
      BY <2>3, <1>5 DEF Guard_Pass, tables, TablesOK, LimiterOK
  <1>6. CASE Logout_FindSession(h)
    <2> DEFINE l == [token |-> loc[h].token, row |-> sessions[loc[h].token]]
    <2>1. loc[h].token \in Tokens
      BY <1>0, <1>6, GuardFrames DEF Logout_FindSession, LogoutRequests
    <2>2. sessions[loc[h].token] \in SessionRow
      BY <1>0, <2>1 DEF TablesOK, Tokens
    <2>3. Frame("logout.session", l)
      BY <2>1, <2>2 DEF Frame, GuardFrame
    <2>4. HandlersOK'
      BY <1>0, <1>6, <2>3, AwaitTyped DEF Logout_FindSession
    <2> QED
      BY <2>4, <1>6 DEF Logout_FindSession, tables, TablesOK, LimiterOK
  <1>7. CASE Logout_Nothing(h)
    BY <1>0, <1>7, RespondTyped DEF Logout_Nothing, tables, TablesOK, LimiterOK
  <1>8. CASE Logout_Invalidate(h)
    <2>1. sessions' \in [1..MaxSessions -> SessionRow]
      BY <1>0, <1>8 DEF Logout_Invalidate, MarkInvalidated, TablesOK, SessionRow
    <2> QED
      BY <1>0, <2>1, <1>8, RespondTyped DEF Logout_Invalidate, TablesOK, LimiterOK
  <1>9. CASE Profile_FindUser(h)
    <2>1. Frame("profile.user", loc[h])
      BY <1>0, <1>9, GuardFrames DEF Profile_FindUser, Frame, GuardFrame
    <2>2. HandlersOK'
      BY <1>0, <1>9, <2>1, AwaitTyped DEF Profile_FindUser
    <2> QED
      BY <2>2, <1>9 DEF Profile_FindUser, tables, TablesOK, LimiterOK
  <1>10. CASE Profile_Answer(h)
    BY <1>0, <1>10, RespondTyped DEF Profile_Answer, tables, TablesOK, LimiterOK
  <1> QED
    BY <1>1, <1>2, <1>3, <1>4, <1>5, <1>6, <1>7, <1>8, <1>9, <1>10 DEF GuardStep

-----------------------------------------------------------------------------
(* PasswordRecovery *)

\* What a handler of recovery or reset holds where it resumes.
LEMMA RecoveryFrames ==
    ASSUME NEW label, NEW locals, Frame(label, locals)
    PROVE  /\ label = "recovery.row" => locals \in [found : BOOLEAN]
           /\ label = "reset" => locals \in ResetRequests
           /\ label = "reset.row" =>
                locals \in [token : RecoveryTokens, row : RecoveryRow]
           /\ label = "reset.hashed" => locals \in [token : RecoveryTokens]
  BY DEF Frame, LoginFrame, GuardFrame, RecoveryFrame, DeletionFrame, OtpFrame,
         DeletionRoutes

\* Every step of recovery and reset keeps the types.
LEMMA RecoveryTyped ==
    ASSUME TypeOK, NEW h \in Handlers, RecoveryStep(h),
           UNCHANGED <<limiter, clock, faults>>
    PROVE  TypeOK'
  <1> USE DEF TypeOK, Runs
  <1> DEFINE Here == Frame(pc[h], loc[h])
  <1>0. HandlersOK /\ TablesOK /\ Here
    BY DEF HandlersOK
  <1>1. CASE Recovery_FindByEmail(h)
    <2> DEFINE l == [found |-> FindByEmail(loc[h].email)]
    <2>1. Frame("recovery.row", l)
      BY DEF Frame, RecoveryFrame, FindByEmail
    <2>2. HandlersOK'
      BY <1>0, <1>1, <2>1, AwaitTyped DEF Recovery_FindByEmail
    <2> QED
      BY <2>2, <1>1 DEF Recovery_FindByEmail, tables, TablesOK, LimiterOK
  <1>2. CASE Recovery_Unknown(h)
    BY <1>0, <1>2, RespondTyped DEF Recovery_Unknown, tables, TablesOK, LimiterOK
  <1>3. CASE Recovery_Insert(h)
    <2>1. Frame("recovery.sent", NoLocals)
      BY DEF Frame, RecoveryFrame
    <2>2. HandlersOK'
      BY <1>0, <1>3, <2>1, ParkTyped DEF Recovery_Insert
    <2>3. recoveries' \in [1..MaxTokens -> RecoveryRow]
      BY <1>0, <1>3, RecoveryAssumption
         DEF Recovery_Insert, TablesOK, RecoveryRow, RecoveryTokens
    <2> QED
      BY <1>0, <2>2, <2>3, <1>3 DEF Recovery_Insert, TablesOK, LimiterOK
  <1>4. CASE Recovery_Answer(h)
    BY <1>0, <1>4, RespondTyped DEF Recovery_Answer, tables, TablesOK, LimiterOK
  <1>5. CASE Reset_FindToken(h)
    <2> DEFINE l == [token |-> loc[h].token, row |-> recoveries[loc[h].token]]
    <2>1. loc[h].token \in RecoveryTokens
      BY <1>0, <1>5, RecoveryFrames DEF Reset_FindToken, ResetRequests
    <2>2. recoveries[loc[h].token] \in RecoveryRow
      BY <1>0, <2>1 DEF TablesOK, RecoveryTokens
    <2>3. Frame("reset.row", l)
      BY <2>1, <2>2 DEF Frame, RecoveryFrame
    <2>4. HandlersOK'
      BY <1>0, <1>5, <2>3, AwaitTyped DEF Reset_FindToken
    <2> QED
      BY <2>4, <1>5 DEF Reset_FindToken, tables, TablesOK, LimiterOK
  <1>6. CASE Reset_Refuse(h)
    BY <1>0, <1>6, RespondTyped DEF Reset_Refuse, tables, TablesOK, LimiterOK
  <1>7. CASE Reset_Hash(h)
    <2> DEFINE l == [token |-> loc[h].token]
    <2>1. loc[h].token \in RecoveryTokens
      BY <1>0, <1>7, RecoveryFrames DEF Reset_Hash
    <2>2. Frame("reset.hashed", l)
      BY <2>1 DEF Frame, RecoveryFrame
    <2>3. HandlersOK'
      BY <1>0, <1>7, <2>2, ParkTyped DEF Reset_Hash
    <2> QED
      BY <2>3, <1>7 DEF Reset_Hash, tables, TablesOK, LimiterOK
  <1>8. CASE Reset_Commit(h)
    <2>1. loc[h].token \in RecoveryTokens
      BY <1>0, <1>8, RecoveryFrames DEF Reset_Commit
    <2>2. sessions' \in [1..MaxSessions -> SessionRow]
      BY <1>0, <1>8, InvalidateAllTyped DEF Reset_Commit
    <2>3. recoveries' \in [1..MaxTokens -> RecoveryRow]
      BY <1>0, <1>8, <2>1
         DEF Reset_Commit, ConsumeToken, TablesOK, RecoveryRow, RecoveryTokens
    <2>4. user' \in UserRow
      BY <1>0, <1>8 DEF Reset_Commit, TablesOK, UserRow
    <2> QED
      BY <1>0, <2>2, <2>3, <2>4, <1>8, RespondTyped
         DEF Reset_Commit, TablesOK, LimiterOK
  <1> QED
    BY <1>1, <1>2, <1>3, <1>4, <1>5, <1>6, <1>7, <1>8 DEF RecoveryStep

-----------------------------------------------------------------------------
(* AccountDeletion *)

\* What a handler of the deletion routes holds where it resumes.
LEMMA DeletionFrames ==
    ASSUME NEW label, NEW locals, Frame(label, locals)
    PROVE  /\ label \in {"deletion.request.pending", "deletion.confirm.pending",
                         "deletion.cancel.pending"}
                => locals \in [pending : SUBSET DeletionIds]
           /\ label = "deletion.confirm.user"
                => locals \in [request : DeletionIds, email : Emails]
  BY DEF Frame, LoginFrame, GuardFrame, RecoveryFrame, DeletionFrame, OtpFrame,
         DeletionRoutes

\* The result of findPendingByUserId has the type its callers expect.
LEMMA FindPendingTyped ==
    ASSUME TablesOK
    PROVE  FindPending \in [pending : SUBSET DeletionIds]
  BY DEF FindPending, Selected, TablesOK, DeletionIds

\* Changing the status of one request keeps the table typed.
LEMMA DeletionStatusTyped ==
    ASSUME TablesOK, NEW d \in DeletionIds,
           NEW status \in {"pending", "confirmed", "cancelled"},
           deletions' = [deletions EXCEPT ![d].st = status]
    PROVE  deletions' \in [1..MaxDeletions -> DeletionRow]
  BY DEF TablesOK, DeletionRow, DeletionIds

\* Every step of the deletion routes keeps the types.
LEMMA DeletionTyped ==
    ASSUME TypeOK, NEW h \in Handlers, DeletionStep(h),
           UNCHANGED <<limiter, clock, faults>>
    PROVE  TypeOK'
  <1> USE DEF TypeOK, Runs
  <1> DEFINE Here == Frame(pc[h], loc[h])
  <1>0. HandlersOK /\ TablesOK /\ Here
    BY DEF HandlersOK
  <1>1. CASE Request_FindUser(h)
    <2> DEFINE l == [status |-> user.status]
    <2>1. l \in [status : Statuses]
      BY <1>0 DEF TablesOK, UserRow
    <2>2. Frame("deletion.request.user", l)
      BY <2>1 DEF Frame, DeletionFrame
    <2>3. HandlersOK'
      BY <1>0, <1>1, <2>2, AwaitTyped DEF Request_FindUser
    <2> QED
      BY <2>3, <1>1 DEF Request_FindUser, tables, TablesOK, LimiterOK
  <1>2. CASE Request_NotActive(h)
    BY <1>0, <1>2, RespondTyped DEF Request_NotActive, tables, TablesOK, LimiterOK
  <1>3. CASE Request_FindPending(h)
    <2>1. Frame("deletion.request.pending", FindPending)
      BY <1>0, FindPendingTyped DEF Frame, DeletionFrame
    <2>2. HandlersOK'
      BY <1>0, <1>3, <2>1, AwaitTyped DEF Request_FindPending
    <2> QED
      BY <2>2, <1>3 DEF Request_FindPending, tables, TablesOK, LimiterOK
  <1>4. CASE Request_AlreadyPending(h)
    BY <1>0, <1>4, RespondTyped DEF Request_AlreadyPending, tables, TablesOK, LimiterOK
  <1>5. CASE Request_Insert(h)
    <2>1. Frame("deletion.request.sent", NoLocals)
      BY DEF Frame, DeletionFrame
    <2>2. HandlersOK'
      BY <1>0, <1>5, <2>1, ParkTyped DEF Request_Insert
    <2>3. deletions' \in [1..MaxDeletions -> DeletionRow]
      BY <1>0, <1>5, DeletionAssumption
         DEF Request_Insert, TablesOK, DeletionRow, DeletionIds
    <2> QED
      BY <1>0, <2>2, <2>3, <1>5 DEF Request_Insert, TablesOK, LimiterOK
  <1>6. CASE Request_Answer(h)
    BY <1>0, <1>6, RespondTyped DEF Request_Answer, tables, TablesOK, LimiterOK
  <1>7. CASE Confirm_FindPending(h)
    <2>1. Frame("deletion.confirm.pending", FindPending)
      BY <1>0, FindPendingTyped DEF Frame, DeletionFrame
    <2>2. HandlersOK'
      BY <1>0, <1>7, <2>1, AwaitTyped DEF Confirm_FindPending
    <2> QED
      BY <2>2, <1>7 DEF Confirm_FindPending, tables, TablesOK, LimiterOK
  <1>8. CASE Confirm_Refuse(h)
    BY <1>0, <1>8, RespondTyped DEF Confirm_Refuse, tables, TablesOK, LimiterOK
  <1>9. CASE Confirm_FindUser(h)
    <2>1. PICK d \in loc[h].pending :
                 Await(h, "deletion.confirm.user", [request |-> d, email |-> user.email])
      BY <1>9 DEF Confirm_FindUser
    <2>2. d \in DeletionIds /\ user.email \in Emails
      BY <1>0, <1>9, DeletionFrames DEF Confirm_FindUser, TablesOK, UserRow
    <2>3. Frame("deletion.confirm.user", [request |-> d, email |-> user.email])
      BY <2>2 DEF Frame, DeletionFrame
    <2>4. HandlersOK'
      BY <1>0, <1>9, <2>1, <2>3, AwaitTyped DEF Confirm_FindUser
    <2> QED
      BY <2>4, <1>9 DEF Confirm_FindUser, tables, TablesOK, LimiterOK
  <1>10. CASE Confirm_Commit(h)
    <2>1. loc[h].request \in DeletionIds
      BY <1>0, <1>10, DeletionFrames DEF Confirm_Commit
    <2>2. user' \in UserRow
      BY <1>0, <1>10 DEF Confirm_Commit, Anonymise, TablesOK, UserRow, Statuses, Emails
    <2>3. deletions' \in [1..MaxDeletions -> DeletionRow]
      BY <1>0, <1>10, <2>1, DeletionStatusTyped DEF Confirm_Commit
    <2>4. sessions' \in [1..MaxSessions -> SessionRow]
      BY <1>0, <1>10, InvalidateAllTyped DEF Confirm_Commit
    <2>5. notices' \in [1..MaxNotices -> NoticeRow]
      BY <1>0, <1>10 DEF Confirm_Commit, QueueNotice, TablesOK, NoticeRow
    <2> QED
      BY <1>0, <2>2, <2>3, <2>4, <2>5, <1>10, RespondTyped
         DEF Confirm_Commit, TablesOK, LimiterOK
  <1>11. CASE Cancel_FindPending(h)
    <2>1. Frame("deletion.cancel.pending", FindPending)
      BY <1>0, FindPendingTyped DEF Frame, DeletionFrame
    <2>2. HandlersOK'
      BY <1>0, <1>11, <2>1, AwaitTyped DEF Cancel_FindPending
    <2> QED
      BY <2>2, <1>11 DEF Cancel_FindPending, tables, TablesOK, LimiterOK
  <1>12. CASE Cancel_NotFound(h)
    BY <1>0, <1>12, RespondTyped DEF Cancel_NotFound, tables, TablesOK, LimiterOK
  <1>13. CASE Cancel_Update(h)
    <2>1. PICK d \in loc[h].pending :
                 deletions' = [deletions EXCEPT ![d].st = "cancelled"]
      BY <1>13 DEF Cancel_Update
    <2>2. d \in DeletionIds
      BY <1>0, <1>13, DeletionFrames DEF Cancel_Update
    <2>3. deletions' \in [1..MaxDeletions -> DeletionRow]
      BY <1>0, <2>1, <2>2, DeletionStatusTyped
    <2> QED
      BY <1>0, <2>3, <1>13, RespondTyped DEF Cancel_Update, TablesOK, LimiterOK
  <1> QED
    BY <1>1, <1>2, <1>3, <1>4, <1>5, <1>6, <1>7, <1>8, <1>9, <1>10, <1>11, <1>12,
       <1>13 DEF DeletionStep

-----------------------------------------------------------------------------
(* Otp *)

\* What a handler of the OTP routes holds where it resumes.
LEMMA OtpFrames ==
    ASSUME NEW label, NEW locals, Frame(label, locals)
    PROVE  /\ label \in {"otp.counted", "otp.windowed", "otp.allowed"}
                => locals \in [count : 0..(MaxAttempts + 2)]
           /\ label = "otp.verify.row" => locals \in [active : SUBSET OtpIds]
  BY DEF Frame, LoginFrame, GuardFrame, RecoveryFrame, DeletionFrame, OtpFrame,
         DeletionRoutes

\* INCR and EXPIRE keep the limiter key typed: the modelled count saturates.
LEMMA LimiterTyped ==
    ASSUME LimiterOK, clock \in Nat
    PROVE  /\ Incr(limiter) \in [count : 0..(MaxAttempts + 2), expires : Nat]
           /\ Expire(limiter) \in [count : 0..(MaxAttempts + 2), expires : Nat]
  BY OtpAssumption DEF LimiterOK, Incr, Expire

\* Every step of the OTP routes keeps the types.
LEMMA OtpTyped ==
    ASSUME TypeOK, NEW h \in Handlers, OtpStep(h), UNCHANGED <<clock, faults>>
    PROVE  TypeOK'
  <1> USE DEF TypeOK, Runs
  <1> DEFINE Here == Frame(pc[h], loc[h])
  <1>0. HandlersOK /\ TablesOK /\ LimiterOK /\ Here
    BY DEF HandlersOK
  <1>1. CASE Issue_FindUser(h)
    <2> DEFINE l == [status |-> user.status]
    <2>1. l \in [status : Statuses]
      BY <1>0 DEF TablesOK, UserRow
    <2>2. Frame("otp.issue.user", l)
      BY <2>1 DEF Frame, OtpFrame
    <2>3. HandlersOK'
      BY <1>0, <1>1, <2>2, AwaitTyped DEF Issue_FindUser
    <2> QED
      BY <2>3, <1>1 DEF Issue_FindUser, tables, TablesOK, LimiterOK
  <1>2. CASE Issue_Forbidden(h)
    BY <1>0, <1>2, RespondTyped DEF Issue_Forbidden, tables, TablesOK, LimiterOK
  <1>3. CASE Issue_Incr(h)
    <2>1. limiter' \in [count : 0..(MaxAttempts + 2), expires : Nat]
      BY <1>0, <1>3, LimiterTyped DEF Issue_Incr
    <2>2. Frame("otp.counted", [count |-> limiter'.count])
      BY <2>1 DEF Frame, OtpFrame
    <2>3. HandlersOK'
      BY <1>0, <1>3, <2>2, ParkTyped DEF Issue_Incr
    <2> QED
      BY <2>1, <2>3, <1>3 DEF Issue_Incr, tables, TablesOK, LimiterOK
  <1>4. CASE Issue_Expire(h)
    <2>1. limiter' \in [count : 0..(MaxAttempts + 2), expires : Nat]
      BY <1>0, <1>4, LimiterTyped DEF Issue_Expire
    <2>2. Frame("otp.windowed", loc[h])
      BY <1>0, <1>4, OtpFrames DEF Issue_Expire, Frame, OtpFrame
    <2>3. HandlersOK'
      BY <1>0, <1>4, <2>2, ParkTyped DEF Issue_Expire
    <2> QED
      BY <2>1, <2>3, <1>4 DEF Issue_Expire, tables, TablesOK, LimiterOK
  <1>5. CASE Issue_Allow(h)
    <2>1. Frame("otp.allowed", loc[h])
      BY <1>0, <1>5, OtpFrames DEF Issue_Allow, Frame, OtpFrame
    <2>2. HandlersOK'
      BY <1>0, <1>5, <2>1, AwaitTyped DEF Issue_Allow
    <2> QED
      BY <2>2, <1>5 DEF Issue_Allow, tables, TablesOK, LimiterOK
  <1>6. CASE Issue_Limited(h)
    BY <1>0, <1>6, RespondTyped DEF Issue_Limited, tables, TablesOK, LimiterOK
  <1>7. CASE Issue_Invalidate(h)
    <2>1. Frame("otp.sequence", NoLocals)
      BY DEF Frame, OtpFrame
    <2>2. HandlersOK'
      BY <1>0, <1>7, <2>1, AwaitTyped DEF Issue_Invalidate
    <2>3. otps' \in [1..MaxOtps -> OtpRow]
      BY <1>0, <1>7 DEF Issue_Invalidate, TablesOK, OtpRow, OtpIds
    <2> QED
      BY <1>0, <2>2, <2>3, <1>7 DEF Issue_Invalidate, TablesOK, LimiterOK
  <1>8. CASE Issue_Sequence(h)
    <2>1. Frame("otp.create", NoLocals)
      BY DEF Frame, OtpFrame
    <2>2. HandlersOK'
      BY <1>0, <1>8, <2>1, AwaitTyped DEF Issue_Sequence
    <2> QED
      BY <2>2, <1>8 DEF Issue_Sequence, tables, TablesOK, LimiterOK
  <1>9. CASE Issue_Create(h)
    <2>1. Frame("otp.dispatched", NoLocals)
      BY DEF Frame, OtpFrame
    <2>2. HandlersOK'
      BY <1>0, <1>9, <2>1, ParkTyped DEF Issue_Create
    <2>3. otps' \in [1..MaxOtps -> OtpRow]
      BY <1>0, <1>9, OtpAssumption DEF Issue_Create, TablesOK, OtpRow, OtpIds
    <2> QED
      BY <1>0, <2>2, <2>3, <1>9 DEF Issue_Create, TablesOK, LimiterOK
  <1>10. CASE Issue_Conflict(h)
    BY <1>0, <1>10, RespondTyped DEF Issue_Conflict, tables, TablesOK, LimiterOK
  <1>11. CASE Issue_Answer(h)
    BY <1>0, <1>11, RespondTyped DEF Issue_Answer, tables, TablesOK, LimiterOK
  <1>12. CASE Verify_FindUser(h)
    <2> DEFINE l == [status |-> user.status]
    <2>1. l \in [status : Statuses]
      BY <1>0 DEF TablesOK, UserRow
    <2>2. Frame("otp.verify.user", l)
      BY <2>1 DEF Frame, OtpFrame
    <2>3. HandlersOK'
      BY <1>0, <1>12, <2>2, AwaitTyped DEF Verify_FindUser
    <2> QED
      BY <2>3, <1>12 DEF Verify_FindUser, tables, TablesOK, LimiterOK
  <1>13. CASE Verify_NoUser(h)
    BY <1>0, <1>13, RespondTyped DEF Verify_NoUser, tables, TablesOK, LimiterOK
  <1>14. CASE Verify_FindActive(h)
    <2> DEFINE l == [active |-> Selected(otps, "active")]
    <2>1. l \in [active : SUBSET OtpIds]
      BY <1>0 DEF Selected, TablesOK, OtpIds
    <2>2. Frame("otp.verify.row", l)
      BY <2>1 DEF Frame, OtpFrame
    <2>3. HandlersOK'
      BY <1>0, <1>14, <2>2, AwaitTyped DEF Verify_FindActive
    <2> QED
      BY <2>3, <1>14 DEF Verify_FindActive, tables, TablesOK, LimiterOK
  <1>15. CASE Verify_Refuse(h)
    BY <1>0, <1>15, RespondTyped DEF Verify_Refuse, tables, TablesOK, LimiterOK
  <1>16. CASE Verify_Commit(h)
    <2>1. PICK o \in loc[h].active : otps' = [otps EXCEPT ![o].st = "invalidated"]
      BY <1>16 DEF Verify_Commit
    <2>2. o \in OtpIds
      BY <1>0, <1>16, OtpFrames DEF Verify_Commit
    <2>3. otps' \in [1..MaxOtps -> OtpRow]
      BY <1>0, <2>1, <2>2 DEF TablesOK, OtpRow, OtpIds
    <2>4. user' \in UserRow
      BY <1>0, <1>16 DEF Verify_Commit, TablesOK, UserRow, Statuses
    <2> QED
      BY <1>0, <2>3, <2>4, <1>16, RespondTyped DEF Verify_Commit, TablesOK, LimiterOK
  <1> QED
    BY <1>1, <1>2, <1>3, <1>4, <1>5, <1>6, <1>7, <1>8, <1>9, <1>10, <1>11, <1>12,
       <1>13, <1>14, <1>15, <1>16 DEF OtpStep

-----------------------------------------------------------------------------
(* The event loop, failures, and the theorem *)

\* The process starts with every handler idle and well-typed rows.
LEMMA InitTyped == Init => TypeOK
  <1> SUFFICES ASSUME Init PROVE TypeOK
    OBVIOUS
  <1>1. HandlersOK
    BY DEF Init, LoopInit, HandlersOK, Frame
  <1>2. TablesOK
    BY TablesAssumption, StatusAssumption
       DEF Init, TablesInit, TablesOK, UserRow, SessionRow, RecoveryRow, DeletionRow,
           NoticeRow, OtpRow, Statuses, Emails
  <1>3. LimiterOK
    BY OtpAssumption DEF Init, LimiterInit, LimiterOK
  <1> QED
    BY <1>1, <1>2, <1>3, FaultAssumption DEF TypeOK, Init, LoopInit

\* Every batch is a sequence of distinct handlers.
LEMMA BatchTyped ==
    ASSUME NEW size \in Nat, NEW batch \in Batches(size)
    PROVE  /\ batch \in Seq(Handlers)
           /\ \E n \in 1..size : batch \in [1..n -> Handlers] /\ Len(batch) = n
           /\ \A i, j \in DOMAIN batch : batch[i] = batch[j] => i = j
  <1>1. PICK n \in 1..size : batch \in Injection(1..n, Handlers)
    BY DEF Batches
  <1>2. batch \in [1..n -> Handlers]
    BY <1>1 DEF Injection
  <1>3. \A i, j \in 1..n : batch[i] = batch[j] => i = j
    BY <1>1 DEF Injection, IsInjective
  <1>4. batch \in Seq(Handlers) /\ Len(batch) = n
    BY <1>2
  <1> QED
    BY <1>2, <1>3, <1>4

\* Requests arrive with the locals their first resume point reads.
LEMMA ReceiveTyped ==
    ASSUME TypeOK, Receive
    PROVE  TypeOK'
  <1>0. PICK batch \in Batches(MaxBatch) :
          /\ ready' = batch
          /\ \E request \in [Range(batch) -> Requests] :
               /\ pc' = [h \in Handlers |->
                           IF h \in Range(batch) THEN request[h].op ELSE pc[h]]
               /\ loc' = [h \in Handlers |->
                           IF h \in Range(batch) THEN request[h] ELSE loc[h]]
    BY DEF Receive, Arrive
  <1>1. PICK request \in [Range(batch) -> Requests] :
          /\ ready' = batch
          /\ pc' = [h \in Handlers |->
                      IF h \in Range(batch) THEN request[h].op ELSE pc[h]]
          /\ loc' = [h \in Handlers |->
                      IF h \in Range(batch) THEN request[h] ELSE loc[h]]
    BY <1>0
  <1>2. ready' \in Seq(Handlers)
    BY <1>1, BatchTyped, LoopAssumption
  <1>3. ASSUME NEW r \in Requests PROVE Frame(r.op, r)
    BY DEF Requests, Frame, LoginFrame, GuardFrame, RecoveryFrame, OtpFrame,
           LoginRequests, LogoutRequests, RecoveryRequests, ResetRequests,
           OtpRequests, GuardedRequests
  <1>4. HandlersOK'
    BY <1>1, <1>2, <1>3 DEF TypeOK, HandlersOK
  <1> QED
    BY <1>4 DEF TypeOK, Receive, tables, TablesOK, LimiterOK

\* Waking handlers changes only the queue.
LEMMA ResumeTyped ==
    ASSUME TypeOK, Resume
    PROVE  TypeOK'
  <1>1. ready' \in Seq(Handlers)
    BY BatchTyped, LoopAssumption DEF Resume, Wake
  <1>2. HandlersOK'
    BY <1>1 DEF Resume, Wake, TypeOK, HandlersOK
  <1> QED
    BY <1>2 DEF TypeOK, Resume, tables, TablesOK, LimiterOK

\* Every step of the system keeps the types.
LEMMA NextTyped == TypeOK /\ [Next]_vars => TypeOK'
  <1> SUFFICES ASSUME TypeOK, [Next]_vars PROVE TypeOK'
    OBVIOUS
  <1>0. HandlersOK /\ TablesOK /\ LimiterOK /\ clock \in Nat /\ faults \in 0..MaxFaults
    BY DEF TypeOK
  <1>1. CASE Receive
    BY <1>1, ReceiveTyped
  <1>2. CASE Resume
    BY <1>2, ResumeTyped
  <1>3. ASSUME NEW h \in Handlers, Step(h) PROVE TypeOK'
    BY <1>3, LoginTyped, GuardTyped, RecoveryTyped, DeletionTyped, OtpTyped DEF Step
  <1>4. ASSUME NEW h \in Handlers, StatementFails(h) PROVE TypeOK'
    <2>1. HandlersOK'
      BY <1>0, <1>4, RespondTyped DEF StatementFails, Runs
    <2> QED
      BY <1>0, <1>4, <2>1, FaultAssumption
         DEF StatementFails, TypeOK, tables, TablesOK, LimiterOK
  <1>5. ASSUME NEW h \in Handlers, TableFull(h) PROVE TypeOK'
    <2>1. HandlersOK'
      BY <1>0, <1>5, RespondTyped DEF TableFull, Runs
    <2> QED
      BY <1>0, <1>5, <2>1 DEF TableFull, TypeOK, tables, TablesOK, LimiterOK
  <1>6. CASE Pass
    BY <1>0, <1>6 DEF Pass, Tick, loopVars, TypeOK, HandlersOK, tables, TablesOK, LimiterOK
  <1>7. CASE Crash
    <2>1. HandlersOK'
      BY <1>7 DEF Crash, Restart, HandlersOK, Frame
    <2> QED
      BY <1>0, <1>7, <2>1, FaultAssumption DEF Crash, TypeOK, tables, TablesOK, LimiterOK
  <1>8. CASE Suspend
    <2>1. user' \in UserRow
      BY <1>0, <1>8 DEF Suspend, TablesOK, UserRow, Statuses
    <2> QED
      BY <1>0, <1>8, <2>1 DEF Suspend, loopVars, TypeOK, HandlersOK, TablesOK, LimiterOK
  <1>9. CASE UNCHANGED vars
    BY <1>0, <1>9 DEF vars, loopVars, TypeOK, HandlersOK, tables, TablesOK, LimiterOK
  <1> QED
    BY <1>1, <1>2, <1>3, <1>4, <1>5, <1>6, <1>7, <1>8, <1>9 DEF Next

\* The types hold always, whatever requests arrive, in whatever order, for any
\* number of handlers and rows.
THEOREM TypeCorrect == Spec => []TypeOK
  <1>1. Init => TypeOK
    BY InitTyped
  <1>2. TypeOK /\ [Next]_vars => TypeOK'
    BY NextTyped
  <1> QED
    BY <1>1, <1>2, PTL DEF Spec
=============================================================================
