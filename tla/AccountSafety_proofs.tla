------------------------ MODULE AccountSafety_proofs ------------------------
(***************************************************************************)
(* Safety of the API for any number of handlers, rows and faults: no       *)
(* session survives a password reset, a recovery token is used at most     *)
(* once per request in flight, and the count of failed logins overruns the *)
(* threshold by less than that.  The last two are not inductive: each      *)
(* counts the handlers that still hold a stale row, in a stronger          *)
(* invariant, and needs to know which resume points a step can lead to.    *)
(***************************************************************************)
EXTENDS AccountService_proofs, FiniteSetTheorems

-----------------------------------------------------------------------------
(* The shape of a step *)

\* Handler h goes on at this label, from the head of the queue, and no other
\* handler does anything.
Moves(h, label) ==
    /\ pc' = [pc EXCEPT ![h] = label]
    /\ \A g \in Handlers \ {h} : loc'[g] = loc[g]
    /\ ready' \in {Tail(ready), Append(Tail(ready), h)}

AccountLabels == {"login.compared", "login.failed", "login.locked",
                  "login.matched", "login.session"}
ResetLabels == {"reset.row", "reset.hashed"}

\* Labels that none of the invariants below counts.
Neutral(label) ==
    label \notin AccountLabels \cup ResetLabels \cup {"login.row"}

\* Awaiting, parking and responding are moves.
LEMMA MovesShape ==
    ASSUME HandlersOK, NEW h \in Handlers, NEW label, NEW locals
    PROVE  /\ Await(h, label, locals) => Moves(h, label)
           /\ Park(h, label, locals) => Moves(h, label)
           /\ Respond(h) => Moves(h, "idle")
  BY DEF Await, Park, Respond, Goto, Moves, HandlersOK

\* The middleware, logout and profile never reach a counted label, and change
\* neither a users row nor a recovery row.
LEMMA GuardMoves ==
    ASSUME TypeOK, NEW h \in Handlers, GuardStep(h)
    PROVE  /\ \E label : Neutral(label) /\ Moves(h, label)
           /\ UNCHANGED <<user, recoveries>>
  <1> USE MovesShape DEF TypeOK, Neutral, AccountLabels, ResetLabels, tables
  <1>1. CASE Guard_FindSession(h)
    BY <1>1 DEF Guard_FindSession
  <1>2. CASE Guard_Refuse(h)
    BY <1>2 DEF Guard_Refuse
  <1>3. CASE Guard_FindUser(h)
    BY <1>3 DEF Guard_FindUser
  <1>4. CASE Guard_Expel(h)
    BY <1>4 DEF Guard_Expel
  <1>5. CASE Guard_Pass(h)
    <2>1. loc[h].route \in Routes
      BY <1>5, GuardFrames DEF Guard_Pass, Runs, HandlersOK
    <2>2. Neutral(loc[h].route)
      BY <2>1 DEF Routes, DeletionRoutes
    <2> QED
      BY <1>5, <2>2 DEF Guard_Pass
  <1>6. CASE Logout_FindSession(h)
    BY <1>6 DEF Logout_FindSession
  <1>7. CASE Logout_Nothing(h)
    BY <1>7 DEF Logout_Nothing
  <1>8. CASE Logout_Invalidate(h)
    BY <1>8 DEF Logout_Invalidate
  <1>9. CASE Profile_FindUser(h)
    BY <1>9 DEF Profile_FindUser
  <1>10. CASE Profile_Answer(h)
    BY <1>10 DEF Profile_Answer
  <1> QED
    BY <1>1, <1>2, <1>3, <1>4, <1>5, <1>6, <1>7, <1>8, <1>9, <1>10 DEF GuardStep

\* Nor do the deletion routes, except that a confirmation changes what the users
\* row says of the person, not its hash and not its count.
LEMMA DeletionMoves ==
    ASSUME TypeOK, NEW h \in Handlers, DeletionStep(h)
    PROVE  /\ \E label : Neutral(label) /\ Moves(h, label)
           /\ UNCHANGED <<user.hash, user.failed, recoveries>>
  <1> USE MovesShape DEF TypeOK, Neutral, AccountLabels, ResetLabels, tables
  <1>1. CASE Request_FindUser(h)
    BY <1>1 DEF Request_FindUser
  <1>2. CASE Request_NotActive(h)
    BY <1>2 DEF Request_NotActive
  <1>3. CASE Request_FindPending(h)
    BY <1>3 DEF Request_FindPending
  <1>4. CASE Request_AlreadyPending(h)
    BY <1>4 DEF Request_AlreadyPending
  <1>5. CASE Request_Insert(h)
    BY <1>5 DEF Request_Insert
  <1>6. CASE Request_Answer(h)
    BY <1>6 DEF Request_Answer
  <1>7. CASE Confirm_FindPending(h)
    BY <1>7 DEF Confirm_FindPending
  <1>8. CASE Confirm_Refuse(h)
    BY <1>8 DEF Confirm_Refuse
  <1>9. CASE Confirm_FindUser(h)
    BY <1>9 DEF Confirm_FindUser
  <1>10. CASE Confirm_Commit(h)
    <2>1. UNCHANGED <<user.hash, user.failed>>
      BY <1>10 DEF Confirm_Commit, Anonymise, TablesOK, UserRow
    <2> QED
      BY <1>10, <2>1 DEF Confirm_Commit
  <1>11. CASE Cancel_FindPending(h)
    BY <1>11 DEF Cancel_FindPending
  <1>12. CASE Cancel_NotFound(h)
    BY <1>12 DEF Cancel_NotFound
  <1>13. CASE Cancel_Update(h)
    BY <1>13 DEF Cancel_Update
  <1> QED
    BY <1>1, <1>2, <1>3, <1>4, <1>5, <1>6, <1>7, <1>8, <1>9, <1>10, <1>11, <1>12,
       <1>13 DEF DeletionStep

\* Nor do the OTP routes, except that a verification changes the status.
LEMMA OtpMoves ==
    ASSUME TypeOK, NEW h \in Handlers, OtpStep(h)
    PROVE  /\ \E label : Neutral(label) /\ Moves(h, label)
           /\ UNCHANGED <<user.hash, user.failed, recoveries>>
  <1> USE MovesShape DEF TypeOK, Neutral, AccountLabels, ResetLabels, tables
  <1>1. CASE Issue_FindUser(h)
    BY <1>1 DEF Issue_FindUser
  <1>2. CASE Issue_Forbidden(h)
    BY <1>2 DEF Issue_Forbidden
  <1>3. CASE Issue_Incr(h)
    BY <1>3 DEF Issue_Incr
  <1>4. CASE Issue_Expire(h)
    BY <1>4 DEF Issue_Expire
  <1>5. CASE Issue_Allow(h)
    BY <1>5 DEF Issue_Allow
  <1>6. CASE Issue_Limited(h)
    BY <1>6 DEF Issue_Limited
  <1>7. CASE Issue_Invalidate(h)
    BY <1>7 DEF Issue_Invalidate
  <1>8. CASE Issue_Sequence(h)
    BY <1>8 DEF Issue_Sequence
  <1>9. CASE Issue_Create(h)
    BY <1>9 DEF Issue_Create
  <1>10. CASE Issue_Conflict(h)
    BY <1>10 DEF Issue_Conflict
  <1>11. CASE Issue_Answer(h)
    BY <1>11 DEF Issue_Answer
  <1>12. CASE Verify_FindUser(h)
    BY <1>12 DEF Verify_FindUser
  <1>13. CASE Verify_NoUser(h)
    BY <1>13 DEF Verify_NoUser
  <1>14. CASE Verify_FindActive(h)
    BY <1>14 DEF Verify_FindActive
  <1>15. CASE Verify_Refuse(h)
    BY <1>15 DEF Verify_Refuse
  <1>16. CASE Verify_Commit(h)
    <2>1. UNCHANGED <<user.hash, user.failed>>
      BY <1>16 DEF Verify_Commit, TablesOK, UserRow
    <2> QED
      BY <1>16, <2>1 DEF Verify_Commit
  <1> QED
    BY <1>1, <1>2, <1>3, <1>4, <1>5, <1>6, <1>7, <1>8, <1>9, <1>10, <1>11,
       <1>12, <1>13, <1>14, <1>15, <1>16 DEF OtpStep

\* Recovery and reset reach no label of the login, and leave the count alone.
LEMMA RecoveryMoves ==
    ASSUME TypeOK, NEW h \in Handlers, RecoveryStep(h)
    PROVE  /\ \E label : /\ label \notin AccountLabels \cup {"login.row"}
                        /\ Moves(h, label)
           /\ UNCHANGED user.failed
  <1> USE MovesShape DEF TypeOK, AccountLabels, tables
  <1>1. CASE Recovery_FindByEmail(h)
    BY <1>1 DEF Recovery_FindByEmail
  <1>2. CASE Recovery_Unknown(h)
    BY <1>2 DEF Recovery_Unknown
  <1>3. CASE Recovery_Insert(h)
    BY <1>3 DEF Recovery_Insert
  <1>4. CASE Recovery_Answer(h)
    BY <1>4 DEF Recovery_Answer
  <1>5. CASE Reset_FindToken(h)
    BY <1>5 DEF Reset_FindToken
  <1>6. CASE Reset_Refuse(h)
    BY <1>6 DEF Reset_Refuse
  <1>7. CASE Reset_Hash(h)
    BY <1>7 DEF Reset_Hash
  <1>8. CASE Reset_Commit(h)
    <2>1. UNCHANGED user.failed
      BY <1>8 DEF Reset_Commit, TablesOK, UserRow
    <2> QED
      BY <1>8, <2>1 DEF Reset_Commit
  <1> QED
    BY <1>1, <1>2, <1>3, <1>4, <1>5, <1>6, <1>7, <1>8 DEF RecoveryStep

\* The login reaches no label of the reset, and leaves the recovery rows and the
\* password alone.
LEMMA LoginMoves ==
    ASSUME TypeOK, NEW h \in Handlers, LoginStep(h)
    PROVE  /\ \E label : label \notin ResetLabels /\ Moves(h, label)
           /\ UNCHANGED <<user.hash, recoveries>>
  <1> USE MovesShape DEF TypeOK, ResetLabels, tables
  <1>1. CASE Login_FindByEmail(h)
    BY <1>1 DEF Login_FindByEmail
  <1>2. CASE Login_Refuse(h)
    BY <1>2 DEF Login_Refuse
  <1>3. CASE Login_Compare(h)
    BY <1>3 DEF Login_Compare
  <1>4. CASE Login_CountFailure(h)
    <2>1. UNCHANGED user.hash
      BY <1>4 DEF Login_CountFailure, IncrementFailedLoginCount, TablesOK, UserRow
    <2> QED
      BY <1>4, <2>1 DEF Login_CountFailure
  <1>5. CASE Login_Reject(h)
    BY <1>5 DEF Login_Reject
  <1>6. CASE Login_Lock(h)
    <2>1. UNCHANGED user.hash
      BY <1>6 DEF Login_Lock, LockAccount, TablesOK, UserRow
    <2> QED
      BY <1>6, <2>1 DEF Login_Lock
  <1>7. CASE Login_CleanWindow(h)
    <2>1. UNCHANGED user.hash
      BY <1>7 DEF Login_CleanWindow, ResetFailedLoginCount, TablesOK, UserRow
    <2> QED
      BY <1>7, <2>1 DEF Login_CleanWindow
  <1>8. CASE Login_Match(h)
    <2>1. UNCHANGED user.hash
      BY <1>8 DEF Login_Match, ResetFailedLoginCount, TablesOK, UserRow
    <2> QED
      BY <1>8, <2>1 DEF Login_Match
  <1>9. CASE Login_Stamp(h)
    BY <1>9 DEF Login_Stamp
  <1>10. CASE Login_CreateSession(h)
    BY <1>10 DEF Login_CreateSession
  <1> QED
    BY <1>1, <1>2, <1>3, <1>4, <1>5, <1>6, <1>7, <1>8, <1>9, <1>10 DEF LoginStep

-----------------------------------------------------------------------------
(* No session survives a password reset *)

\* No session becomes live, and none that stays live changes.
NoneRevived ==
    \A s \in Tokens :
      sessions'[s].st = "live" =>
        sessions[s].st = "live" /\ sessions'[s].stored = sessions[s].stored

\* Revoking every session leaves none live.
LEMMA AllRevoked ==
    ASSUME TablesOK, InvalidateAllForUser
    PROVE  \A s \in Tokens : sessions'[s].st # "live"
  BY DEF TablesOK, InvalidateAllForUser, Revoked, SessionRow, Tokens

\* Behind the guard, and in logout, sessions only end.
LEMMA GuardRevivesNone ==
    ASSUME TypeOK, NEW h \in Handlers, GuardStep(h)
    PROVE  NoneRevived
  <1>1. CASE UNCHANGED sessions
    BY <1>1 DEF NoneRevived
  <1>2. CASE Guard_Expel(h)
    BY <1>2, AllRevoked DEF Guard_Expel, NoneRevived, TypeOK
  <1>3. CASE Logout_Invalidate(h)
    BY <1>3 DEF Logout_Invalidate, MarkInvalidated, NoneRevived, TypeOK, TablesOK,
                SessionRow, Tokens
  <1> QED
    BY <1>1, <1>2, <1>3
       DEF GuardStep, Guard_FindSession, Guard_Refuse, Guard_FindUser, Guard_Pass,
           Logout_FindSession, Logout_Nothing, Profile_FindUser, Profile_Answer, tables

\* A deletion only ends sessions.
LEMMA DeletionRevivesNone ==
    ASSUME TypeOK, NEW h \in Handlers, DeletionStep(h)
    PROVE  NoneRevived
  <1>1. CASE UNCHANGED sessions
    BY <1>1 DEF NoneRevived
  <1>2. CASE Confirm_Commit(h)
    BY <1>2, AllRevoked DEF Confirm_Commit, NoneRevived, TypeOK
  <1> QED
    BY <1>1, <1>2
       DEF DeletionStep, Request_FindUser, Request_NotActive, Request_FindPending,
           Request_AlreadyPending, Request_Insert, Request_Answer,
           Confirm_FindPending, Confirm_Refuse, Confirm_FindUser,
           Cancel_FindPending, Cancel_NotFound, Cancel_Update, tables

\* The OTP routes do not touch sessions.
LEMMA OtpKeepsSessions ==
    ASSUME NEW h \in Handlers, OtpStep(h)
    PROVE  UNCHANGED sessions
  BY DEF OtpStep, Issue_FindUser, Issue_Forbidden, Issue_Incr, Issue_Expire,
         Issue_Allow, Issue_Limited, Issue_Invalidate, Issue_Sequence, Issue_Create,
         Issue_Conflict, Issue_Answer, Verify_FindUser, Verify_NoUser,
         Verify_FindActive, Verify_Refuse, Verify_Commit, tables

\* A login inserts its session under the hash that is stored at that moment.
LEMMA LoginPostdates ==
    ASSUME TypeOK, LiveSessionsPostdateReset, NEW h \in Handlers, LoginStep(h)
    PROVE  LiveSessionsPostdateReset'
  <1>0. UNCHANGED user.hash
    BY LoginMoves
  <1>1. CASE UNCHANGED sessions
    BY <1>0, <1>1 DEF LiveSessionsPostdateReset
  <1>2. CASE Login_CreateSession(h)
    BY <1>0, <1>2 DEF Login_CreateSession, InsertSession, LiveSessionsPostdateReset,
                      TypeOK, TablesOK, SessionRow
  <1> QED
    BY <1>1, <1>2
       DEF LoginStep, Login_FindByEmail, Login_Refuse, Login_Compare,
           Login_CountFailure, Login_Reject, Login_Lock, Login_CleanWindow,
           Login_Match, Login_Stamp, tables

\* A reset changes the hash and revokes every session in one transaction.
LEMMA RecoveryPostdates ==
    ASSUME TypeOK, LiveSessionsPostdateReset, NEW h \in Handlers, RecoveryStep(h)
    PROVE  LiveSessionsPostdateReset'
  <1>1. CASE UNCHANGED <<sessions, user>>
    BY <1>1 DEF LiveSessionsPostdateReset
  <1>2. CASE Reset_Commit(h)
    <2>1. \A s \in Tokens : sessions'[s].st # "live"
      BY <1>2, AllRevoked DEF Reset_Commit, TypeOK
    <2>2. DOMAIN sessions' = Tokens
      BY <1>2 DEF Reset_Commit, InvalidateAllForUser, TypeOK, TablesOK, Tokens
    <2> QED
      BY <2>1, <2>2 DEF LiveSessionsPostdateReset
  <1> QED
    BY <1>1, <1>2
       DEF RecoveryStep, Recovery_FindByEmail, Recovery_Unknown, Recovery_Insert,
           Recovery_Answer, Reset_FindToken, Reset_Refuse, Reset_Hash, tables

\* Ending sessions under an unchanged hash keeps the property.
LEMMA NoneRevivedPostdates ==
    ASSUME TypeOK, TypeOK', LiveSessionsPostdateReset, NoneRevived,
           UNCHANGED user.hash
    PROVE  LiveSessionsPostdateReset'
  BY DEF LiveSessionsPostdateReset, NoneRevived, TypeOK, TablesOK, Tokens

\* Every step of the system keeps the property.
LEMMA NextPostdates ==
    TypeOK /\ TypeOK' /\ LiveSessionsPostdateReset /\ [Next]_vars
      => LiveSessionsPostdateReset'
  <1> SUFFICES ASSUME TypeOK, TypeOK', LiveSessionsPostdateReset, [Next]_vars
               PROVE  LiveSessionsPostdateReset'
    OBVIOUS
  <1>1. CASE UNCHANGED <<user, sessions>>
    BY <1>1 DEF LiveSessionsPostdateReset
  <1>2. ASSUME NEW h \in Handlers, Step(h) PROVE LiveSessionsPostdateReset'
    <2>1. CASE GuardStep(h)
      BY <2>1, GuardMoves, GuardRevivesNone, NoneRevivedPostdates
    <2>2. CASE DeletionStep(h)
      BY <2>2, DeletionMoves, DeletionRevivesNone, NoneRevivedPostdates
    <2>3. CASE OtpStep(h)
      BY <2>3, OtpMoves, OtpKeepsSessions DEF LiveSessionsPostdateReset
    <2> QED
      BY <1>2, <2>1, <2>2, <2>3, LoginPostdates, RecoveryPostdates DEF Step
  <1>3. CASE Suspend
    <2>1. UNCHANGED user.hash
      BY <1>3 DEF Suspend, TypeOK, TablesOK, UserRow
    <2> QED
      BY <1>3, <2>1 DEF Suspend, LiveSessionsPostdateReset
  <1> QED
    BY <1>1, <1>2, <1>3
       DEF Next, Receive, Resume, StatementFails, TableFull, Pass, Crash, tables, vars

\* Always, every live session was issued since the last password reset (FR-018).
THEOREM SessionsPostdateReset == Spec => []LiveSessionsPostdateReset
  <1>1. Init => LiveSessionsPostdateReset
    BY DEF Init, TablesInit, LiveSessionsPostdateReset
  <1>2. TypeOK /\ TypeOK' /\ LiveSessionsPostdateReset /\ [Next]_vars
          => LiveSessionsPostdateReset'
    BY NextPostdates
  <1> QED
    BY <1>1, <1>2, TypeCorrect, PTL DEF Spec

-----------------------------------------------------------------------------
(* A recovery token is used at most once per request in flight *)

\* The handlers that can still commit a reset with token t: those that read its
\* row while it was open.
Holds(h, t) ==
    \/ pc[h] = "reset.row" /\ loc[h].token = t /\ loc[h].row.st = "open"
    \/ pc[h] = "reset.hashed" /\ loc[h].token = t

Holders(t) == {h \in Handlers : Holds(h, t)}

\* Every use of a token frees a handler that held it, and once it is consumed no
\* handler can begin to.
TokenInv ==
    \A t \in RecoveryTokens :
      /\ recoveries[t].uses > 0 <=> recoveries[t].st = "consumed"
      /\ recoveries[t].uses + Cardinality(Holders(t)) <= Cardinality(Handlers)

\* Holders are finitely many, at most all handlers.
LEMMA HoldersFinite ==
    ASSUME NEW t
    PROVE  /\ IsFiniteSet(Handlers) /\ Cardinality(Handlers) \in Nat
           /\ IsFiniteSet(Holders(t)) /\ Cardinality(Holders(t)) \in Nat
           /\ Cardinality(Holders(t)) <= Cardinality(Handlers)
  <1>1. Holders(t) \in SUBSET Handlers
    BY DEF Holders
  <1> QED
    BY <1>1, LoopAssumption, FS_Subset, FS_CardinalityType

\* A step that leaves the rows alone and adds no holder keeps the invariant.
LEMMA FewerHolders ==
    ASSUME TokenInv, TypeOK, UNCHANGED recoveries,
           \A t \in RecoveryTokens : Holders(t)' \subseteq Holders(t)
    PROVE  TokenInv'
  <1> SUFFICES ASSUME NEW t \in RecoveryTokens
               PROVE  recoveries[t].uses + Cardinality(Holders(t)')
                        <= Cardinality(Handlers)
    BY DEF TokenInv
  <1>1. Holders(t)' \in SUBSET Holders(t)
    OBVIOUS
  <1>2. /\ Cardinality(Holders(t)') \in Nat
        /\ Cardinality(Holders(t)') <= Cardinality(Holders(t))
    BY <1>1, HoldersFinite, FS_Subset, FS_CardinalityType
  <1>3. recoveries[t].uses \in Nat
    BY DEF TypeOK, TablesOK, RecoveryRow, RecoveryTokens
  <1> QED
    BY <1>2, <1>3, HoldersFinite DEF TokenInv

\* Moving to a label that is not one of the reset's adds no holder.
LEMMA MovesAddNoHolder ==
    ASSUME HandlersOK, NEW h \in Handlers, NEW label, label \notin ResetLabels,
           Moves(h, label), NEW t
    PROVE  Holders(t)' \subseteq Holders(t) \ {h}
  BY DEF Holders, Holds, Moves, ResetLabels, HandlersOK

\* Recovery and reset keep the invariant.
LEMMA RecoveryKeepsTokens ==
    ASSUME TypeOK, TokenInv, NEW h \in Handlers, RecoveryStep(h)
    PROVE  TokenInv'
  <1>0. HandlersOK /\ TablesOK /\ Frame(pc[h], loc[h])
    BY DEF TypeOK, HandlersOK
  <1>1. ASSUME Moves(h, "idle") \/ Moves(h, "recovery.row"), UNCHANGED recoveries
        PROVE  TokenInv'
    BY <1>0, <1>1, MovesAddNoHolder, FewerHolders DEF ResetLabels
  <1>2. CASE Recovery_Insert(h)
    <2>1. PICK i \in RecoveryTokens :
            /\ NextRow(recoveries, i)
            /\ recoveries' = [recoveries EXCEPT ![i] =
                 [st |-> "open", expires |-> clock + RecoveryTTL, uses |-> 0]]
      BY <1>2 DEF Recovery_Insert
    <2>2. \A t \in RecoveryTokens : Holders(t)' \subseteq Holders(t)
      BY <1>0, <1>2, MovesShape, MovesAddNoHolder DEF Recovery_Insert, ResetLabels
    <2> SUFFICES ASSUME NEW t \in RecoveryTokens
                 PROVE  /\ recoveries'[t].uses > 0 <=> recoveries'[t].st = "consumed"
                        /\ recoveries'[t].uses + Cardinality(Holders(t)')
                             <= Cardinality(Handlers)
      BY DEF TokenInv
    <2>3. Holders(t)' \in SUBSET Holders(t)
      BY <2>2
    <2>4. /\ Cardinality(Holders(t)') \in Nat
          /\ Cardinality(Holders(t)') <= Cardinality(Holders(t))
      BY <2>3, HoldersFinite, FS_Subset, FS_CardinalityType
    <2>5. DOMAIN recoveries = RecoveryTokens /\ recoveries[t].uses \in Nat
      BY <1>0 DEF TablesOK, RecoveryRow, RecoveryTokens
    <2>6. CASE t = i
      BY <2>1, <2>4, <2>5, <2>6, HoldersFinite
    <2>7. CASE t # i
      BY <2>1, <2>4, <2>5, <2>7, HoldersFinite DEF TokenInv
    <2> QED
      BY <2>6, <2>7
  <1>3. CASE Reset_FindToken(h)
    <2> DEFINE k == loc[h].token
    <2>1. k \in RecoveryTokens
      BY <1>0, <1>3, RecoveryFrames DEF Reset_FindToken, Runs, ResetRequests
    <2>2. /\ pc' = [pc EXCEPT ![h] = "reset.row"]
          /\ loc' = [loc EXCEPT ![h] = [token |-> k, row |-> recoveries[k]]]
          /\ UNCHANGED recoveries
      BY <1>3 DEF Reset_FindToken, Await, Goto, tables
    <2> SUFFICES ASSUME NEW t \in RecoveryTokens
                 PROVE  recoveries[t].uses + Cardinality(Holders(t)')
                          <= Cardinality(Handlers)
      BY <2>2 DEF TokenInv
    <2>3. recoveries[t].uses \in Nat
      BY <1>0 DEF TablesOK, RecoveryRow, RecoveryTokens
    <2>4. Cardinality(Holders(t)') \in Nat
          /\ Cardinality(Holders(t)') <= Cardinality(Handlers)
      <3>1. Holders(t)' \in SUBSET Handlers
        BY DEF Holders
      <3> QED
        BY <3>1, LoopAssumption, FS_Subset, FS_CardinalityType
    <2>5. CASE recoveries[t].st = "consumed"
      <3>1. Holders(t)' \in SUBSET Holders(t)
        BY <1>0, <2>2, <2>5 DEF Holders, Holds, HandlersOK
      <3>2. Cardinality(Holders(t)') <= Cardinality(Holders(t))
        BY <3>1, HoldersFinite, FS_Subset
      <3> QED
        BY <2>3, <2>4, <3>2, HoldersFinite DEF TokenInv
    <2>6. CASE recoveries[t].st # "consumed"
      BY <2>3, <2>4, <2>6, HoldersFinite DEF TokenInv
    <2> QED
      BY <2>5, <2>6
  <1>4. CASE Reset_Hash(h)
    <2>1. /\ pc[h] = "reset.row" /\ loc[h].row.st = "open"
          /\ pc' = [pc EXCEPT ![h] = "reset.hashed"]
          /\ loc' = [loc EXCEPT ![h] = [token |-> loc[h].token]]
          /\ UNCHANGED recoveries
      BY <1>4 DEF Reset_Hash, Runs, Unusable, Park, Goto, tables
    <2>2. \A t \in RecoveryTokens : Holders(t)' \subseteq Holders(t)
      BY <1>0, <2>1 DEF Holders, Holds, HandlersOK
    <2> QED
      BY <2>1, <2>2, FewerHolders
  <1>5. CASE Reset_Commit(h)
    <2> DEFINE k == loc[h].token
    <2>1. k \in RecoveryTokens /\ pc[h] = "reset.hashed"
      BY <1>0, <1>5, RecoveryFrames DEF Reset_Commit, Runs
    <2>2. recoveries' = [recoveries EXCEPT ![k].st = "consumed", ![k].uses = @ + 1]
      BY <1>5 DEF Reset_Commit, ConsumeToken
    <2> SUFFICES ASSUME NEW t \in RecoveryTokens
                 PROVE  /\ recoveries'[t].uses > 0 <=> recoveries'[t].st = "consumed"
                        /\ recoveries'[t].uses + Cardinality(Holders(t)')
                             <= Cardinality(Handlers)
      BY DEF TokenInv
    <2>3. recoveries \in [RecoveryTokens -> RecoveryRow] /\ recoveries[t].uses \in Nat
      BY <1>0 DEF TablesOK, RecoveryRow, RecoveryTokens
    <2>4. Holders(t)' \in SUBSET (Holders(t) \ {h})
      BY <1>0, <1>5, MovesShape, MovesAddNoHolder DEF Reset_Commit, ResetLabels
    <2>5. /\ IsFiniteSet(Holders(t) \ {h})
          /\ Cardinality(Holders(t) \ {h}) =
               IF h \in Holders(t) THEN Cardinality(Holders(t)) - 1
                                   ELSE Cardinality(Holders(t))
      BY HoldersFinite, FS_RemoveElement
    <2>6. /\ Cardinality(Holders(t)') \in Nat
          /\ Cardinality(Holders(t)') <= Cardinality(Holders(t) \ {h})
      BY <2>4, <2>5, FS_Subset, FS_CardinalityType
    <2>7. CASE t = k
      <3>1. h \in Holders(t)
        BY <2>1, <2>7 DEF Holders, Holds
      <3>2. Cardinality(Holders(t)') <= Cardinality(Holders(t)) - 1
        BY <2>5, <2>6, <3>1
      <3>3. /\ recoveries'[t].uses = recoveries[t].uses + 1
            /\ recoveries'[t].st = "consumed"
        BY <2>2, <2>3, <2>7 DEF RecoveryRow
      <3> QED
        BY <2>3, <2>6, <3>2, <3>3, HoldersFinite DEF TokenInv
    <2>8. CASE t # k
      <3>1. recoveries'[t] = recoveries[t]
        BY <2>2, <2>3, <2>8
      <3>2. Cardinality(Holders(t)') <= Cardinality(Holders(t))
        BY <2>5, <2>6, HoldersFinite
      <3> QED
        BY <2>3, <2>6, <3>1, <3>2, HoldersFinite DEF TokenInv
    <2> QED
      BY <2>7, <2>8
  <1>6. CASE Recovery_FindByEmail(h)
    BY <1>0, <1>1, <1>6, MovesShape DEF Recovery_FindByEmail, tables
  <1>7. CASE Recovery_Unknown(h) \/ Recovery_Answer(h) \/ Reset_Refuse(h)
    BY <1>0, <1>1, <1>7, MovesShape
       DEF Recovery_Unknown, Recovery_Answer, Reset_Refuse, tables
  <1> QED
    BY <1>2, <1>3, <1>4, <1>5, <1>6, <1>7 DEF RecoveryStep

\* Every step of the system keeps the invariant.
LEMMA NextKeepsTokens ==
    TypeOK /\ TypeOK' /\ TokenInv /\ [Next]_vars => TokenInv'
  <1> SUFFICES ASSUME TypeOK, TypeOK', TokenInv, [Next]_vars PROVE TokenInv'
    OBVIOUS
  <1>0. HandlersOK
    BY DEF TypeOK
  <1>1. ASSUME NEW h \in Handlers, NEW label, label \notin ResetLabels,
               Moves(h, label), UNCHANGED recoveries
        PROVE  TokenInv'
    BY <1>0, <1>1, MovesAddNoHolder, FewerHolders
  <1>2. ASSUME NEW h \in Handlers, Step(h) PROVE TokenInv'
    BY <1>1, <1>2, LoginMoves, GuardMoves, DeletionMoves, OtpMoves, RecoveryKeepsTokens
       DEF Step, Neutral
  <1>3. ASSUME NEW h \in Handlers, StatementFails(h) \/ TableFull(h) PROVE TokenInv'
    BY <1>0, <1>1, <1>3, MovesShape DEF StatementFails, TableFull, ResetLabels, tables
  <1>4. CASE Receive
    <2>1. PICK batch \in Batches(MaxBatch) :
            \E request \in [Range(batch) -> Requests] :
              /\ pc' = [h \in Handlers |->
                          IF h \in Range(batch) THEN request[h].op ELSE pc[h]]
              /\ loc' = [h \in Handlers |->
                          IF h \in Range(batch) THEN request[h] ELSE loc[h]]
      BY <1>4 DEF Receive, Arrive
    <2>2. \A r \in Requests : r.op \notin ResetLabels
      BY DEF Requests, LoginRequests, LogoutRequests, RecoveryRequests, ResetRequests,
             OtpRequests, GuardedRequests, ResetLabels
    <2>3. \A t \in RecoveryTokens : Holders(t)' \subseteq Holders(t)
      BY <2>1, <2>2 DEF Holders, Holds, ResetLabels
    <2> QED
      BY <1>4, <2>3, FewerHolders DEF Receive, tables
  <1>5. CASE Crash
    <2>1. \A t \in RecoveryTokens : Holders(t)' \subseteq Holders(t)
      BY <1>5 DEF Crash, Restart, Holders, Holds
    <2> QED
      BY <1>5, <2>1, FewerHolders DEF Crash, tables
  <1>6. CASE UNCHANGED <<pc, loc, recoveries>>
    <2>1. \A t \in RecoveryTokens : Holders(t)' \subseteq Holders(t)
      BY <1>6 DEF Holders, Holds
    <2> QED
      BY <1>6, <2>1, FewerHolders
  <1> QED
    BY <1>2, <1>3, <1>4, <1>5, <1>6
       DEF Next, Resume, Wake, Pass, Tick, Suspend, loopVars, tables, vars

\* Always, a recovery token has changed the password at most once per request that
\* can be in flight, and it is consumed exactly when it has been used.
THEOREM TokensUsedBoundedly == Spec => []TokenUseBound
  <1>1. Init => TokenInv
    <2>1. ASSUME Init, NEW t \in RecoveryTokens
          PROVE  recoveries[t].uses = 0 /\ recoveries[t].st = "absent"
      BY <2>1 DEF Init, TablesInit, RecoveryTokens
    <2> QED
      BY <2>1, HoldersFinite DEF TokenInv
  <1>2. TypeOK /\ TypeOK' /\ TokenInv /\ [Next]_vars => TokenInv'
    BY NextKeepsTokens
  <1>3. TypeOK /\ TokenInv => TokenUseBound
    <2> SUFFICES ASSUME TypeOK, TokenInv, NEW t \in RecoveryTokens
                 PROVE  /\ recoveries[t].uses <= Cardinality(Handlers)
                        /\ recoveries[t].uses > 0 <=> recoveries[t].st = "consumed"
      BY DEF TokenUseBound
    <2>1. recoveries[t].uses \in Nat
      BY DEF TypeOK, TablesOK, RecoveryRow, RecoveryTokens
    <2> QED
      BY <2>1, HoldersFinite DEF TokenInv
  <1> QED
    BY <1>1, <1>2, <1>3, TypeCorrect, PTL DEF Spec

-----------------------------------------------------------------------------
(* The failed-login count overruns the threshold by a bounded amount *)

CountingLabels == AccountLabels \ {"login.compared"}

\* A handler is in the queue once.
QueueInv == \A i, j \in DOMAIN ready : ready[i] = ready[j] => i = j

\* Handler h is past its bcrypt comparison.
Compared(h) ==
    \/ pc[h] \in CountingLabels
    \/ pc[h] = "login.compared" /\ h \in Range(ready)

\* Such a login has the event loop to itself: the thread pool wakes one handler at
\* a time, and no request arrives before it is done.
SoloInv == \A h \in Handlers : Compared(h) => ready = <<h>>

\* So the count of a row that was just read is still the stored one.
RowInv ==
    \A h \in Handlers :
      pc[h] = "login.row" =>
        h \in Range(ready) /\ loc[h].row.failed = user.failed

\* Comparisons under way that would count a failure without locking.
Low == {h \in Handlers : /\ pc[h] = "login.compared"
                         /\ loc[h].failed + 2 <= Threshold}

\* Handler h has counted a failure and is about to lock and reset the count.
Owes(h) ==
    \/ pc[h] = "login.locked"
    \/ pc[h] = "login.failed" /\ ReachesThreshold(loc[h].failed)

Owed == IF \E h \in Handlers : Owes(h) THEN 1 ELSE 0

CountInv ==
    user.failed + Cardinality(Low) + 2
      <= Threshold + Cardinality(Handlers) + faults + Owed

OverrunInv == QueueInv /\ SoloInv /\ RowInv /\ CountInv

\* What the head of a queue without duplicates leaves behind.
LEMMA QueueFacts ==
    ASSUME HandlersOK, QueueInv, NEW h \in Handlers, ready # <<>>, Head(ready) = h
    PROVE  /\ h \in Range(ready)
           /\ h \notin Range(Tail(ready))
           /\ \A g \in Handlers \ {h} :
                /\ g \in Range(ready) <=> g \in Range(Tail(ready))
                /\ g \in Range(Append(Tail(ready), h)) <=> g \in Range(Tail(ready))
           /\ h \in Range(Append(Tail(ready), h))
           /\ \A q \in {Tail(ready), Append(Tail(ready), h)} :
                \A i, j \in DOMAIN q : q[i] = q[j] => i = j
  <1>0. /\ ready \in Seq(Handlers) /\ Len(ready) \in Nat \ {0} /\ ready[1] = h
        /\ \A i, j \in 1..Len(ready) : ready[i] = ready[j] => i = j
    BY DEF HandlersOK, QueueInv
  <1> DEFINE t == Tail(ready)
             a == Append(t, h)
             n == Len(ready)
  <1>1. t \in Seq(Handlers) /\ Len(t) = n - 1 /\ \A i \in 1..(n - 1) : t[i] = ready[i + 1]
    BY <1>0
  <1>2. /\ a \in Seq(Handlers) /\ Len(a) = n /\ a[n] = h
        /\ \A i \in 1..(n - 1) : a[i] = ready[i + 1]
    BY <1>0, <1>1
  <1>3. /\ DOMAIN ready = 1..n /\ DOMAIN t = 1..(n - 1) /\ DOMAIN a = 1..n
        /\ n \in Nat \ {0} /\ ready[1] = h
        /\ \A i, j \in 1..n : ready[i] = ready[j] => i = j
    BY <1>0, <1>1, <1>2
  <1> HIDE DEF t, a, n
  <1>4. \A x : x \in Range(ready) <=> \E i \in 1..n : x = ready[i]
    BY <1>3 DEF Range
  <1>5. \A x : x \in Range(t) <=> \E i \in 1..(n - 1) : x = ready[i + 1]
    <2>1. \A x : x \in Range(t) <=> \E i \in 1..(n - 1) : x = t[i]
      BY <1>3 DEF Range
    <2>2. ASSUME NEW x
          PROVE  (\E i \in 1..(n - 1) : x = t[i])
                   <=> \E i \in 1..(n - 1) : x = ready[i + 1]
      BY <1>1
    <2> QED
      BY <2>1, <2>2, Zenon
  <1>6. \A x : x \in Range(a) <=> x = h \/ \E i \in 1..(n - 1) : x = ready[i + 1]
    <2>1. \A x : x \in Range(a) <=> \E i \in 1..n : x = a[i]
      BY <1>3 DEF Range
    <2>2. n \in 1..n /\ \A i \in 1..n : i = n \/ i \in 1..(n - 1)
      BY <1>3
    <2>3. \A i \in 1..(n - 1) : i \in 1..n
      BY <1>3
    <2>4. ASSUME NEW x
          PROVE  (\E i \in 1..n : x = a[i])
                   <=> x = h \/ \E i \in 1..(n - 1) : x = ready[i + 1]
      BY <1>2, <2>2, <2>3
    <2> QED
      BY <2>1, <2>4, Zenon
  <1>7. \A g \in Handlers \ {h} : g \in Range(ready) <=> g \in Range(t)
    <2> SUFFICES ASSUME NEW g \in Handlers \ {h}
                 PROVE  g \in Range(ready) <=> g \in Range(t)
      OBVIOUS
    <2>1. ASSUME NEW i \in 1..n, g = ready[i] PROVE \E k \in 1..(n - 1) : g = ready[k + 1]
      <3>1. i # 1
        BY <1>3, <2>1
      <3>2. i - 1 \in 1..(n - 1) /\ ready[(i - 1) + 1] = g
        BY <1>3, <2>1, <3>1
      <3> QED
        BY <3>2
    <2>2. ASSUME NEW i \in 1..(n - 1), g = ready[i + 1] PROVE \E k \in 1..n : g = ready[k]
      <3>1. i + 1 \in 1..n
        BY <1>3
      <3> QED
        BY <2>2, <3>1
    <2> QED
      BY <1>4, <1>5, <2>1, <2>2
  <1>8. h \notin Range(t)
    <2> SUFFICES ASSUME NEW i \in 1..(n - 1), h = ready[i + 1] PROVE FALSE
      BY <1>5
    <2>1. i + 1 \in 1..n /\ 1 \in 1..n /\ i + 1 # 1
      BY <1>3
    <2> QED
      BY <1>3, <2>1
  <1>9. \A i, j \in 1..(n - 1) : t[i] = t[j] => i = j
    <2> SUFFICES ASSUME NEW i \in 1..(n - 1), NEW j \in 1..(n - 1), t[i] = t[j]
                 PROVE  i = j
      OBVIOUS
    <2>1. i + 1 \in 1..n /\ j + 1 \in 1..n /\ ready[i + 1] = ready[j + 1]
      BY <1>3, <1>1
    <2>2. i + 1 = j + 1
      BY <1>3, <2>1
    <2> QED
      BY <2>2
  <1>10. \A i, j \in 1..n : a[i] = a[j] => i = j
    <2>1. \A i \in 1..n : i = n \/ (i \in 1..(n - 1) /\ a[i] = t[i] /\ a[i] # h)
      <3>1. \A i \in 1..(n - 1) : t[i] = ready[i + 1] /\ a[i] = t[i]
        BY <1>1, <1>2
      <3>2. \A i \in 1..(n - 1) : ready[i + 1] # h
        BY <1>5, <1>8
      <3>3. \A i \in 1..n : i = n \/ i \in 1..(n - 1)
        BY <1>3
      <3> QED
        BY <3>1, <3>2, <3>3
    <2> SUFFICES ASSUME NEW i \in 1..n, NEW j \in 1..n, a[i] = a[j] PROVE i = j
      OBVIOUS
    <2>2. CASE i = n \/ j = n
      BY <1>2, <2>1, <2>2
    <2>3. CASE i # n /\ j # n
      <3>1. /\ i \in 1..(n - 1) /\ a[i] = t[i]
            /\ j \in 1..(n - 1) /\ a[j] = t[j]
        BY <2>1, <2>3
      <3>2. t[i] = t[j]
        BY <3>1
      <3> QED
        BY <1>9, <3>1, <3>2
    <2> QED
      BY <2>2, <2>3
  <1>11. h \in Range(ready) /\ h \in Range(a)
    <2>1. 1 \in 1..n
      BY <1>3
    <2> QED
      BY <1>3, <1>4, <1>6, <2>1
  <1>12. \A g \in Handlers \ {h} : g \in Range(a) <=> g \in Range(t)
    BY <1>5, <1>6
  <1>13. ASSUME NEW q \in {t, a} PROVE \A i, j \in DOMAIN q : q[i] = q[j] => i = j
    <2>1. CASE q = t
      BY <1>3, <1>9, <2>1
    <2>2. CASE q = a
      BY <1>3, <1>10, <2>2
    <2> QED
      BY <2>1, <2>2
  <1> QED
    BY <1>7, <1>8, <1>11, <1>12, <1>13 DEF t, a

\* Low is finite, and misses a handler that is not in it.
LEMMA LowFinite ==
    /\ IsFiniteSet(Low) /\ Cardinality(Low) \in Nat
    /\ Cardinality(Handlers) \in Nat \ {0}
    /\ Cardinality(Low) <= Cardinality(Handlers)
    /\ \A h \in Handlers :
         h \notin Low => Cardinality(Low) <= Cardinality(Handlers) - 1
  <1>1. Low \in SUBSET Handlers
    BY DEF Low
  <1>2. /\ IsFiniteSet(Low) /\ Cardinality(Low) \in Nat
        /\ Cardinality(Handlers) \in Nat
        /\ Cardinality(Low) <= Cardinality(Handlers)
        /\ Cardinality(Handlers) = Cardinality(Low) => Handlers = Low
    BY <1>1, LoopAssumption, FS_Subset, FS_CardinalityType
  <1>3. Cardinality(Handlers) # 0
    BY LoopAssumption, FS_EmptySet
  <1> QED
    BY <1>1, <1>2, <1>3

\* While handler h runs, no other login is past its comparison.
LEMMA NoOtherLogin ==
    ASSUME OverrunInv, NEW h \in Handlers, ready # <<>>, Head(ready) = h,
           NEW g \in Handlers \ {h}
    PROVE  ~Compared(g) /\ ~Owes(g)
  <1>1. ready # <<g>>
    OBVIOUS
  <1> QED
    BY <1>1 DEF OverrunInv, SoloInv, Compared, Owes, CountingLabels, AccountLabels

\* So the debt, if there is one, is that of h.
LEMMA OwedByHead ==
    ASSUME OverrunInv, NEW h \in Handlers, ready # <<>>, Head(ready) = h, ~Owes(h)
    PROVE  Owed = 0
  BY NoOtherLogin DEF Owed

\* A move keeps the queue free of duplicates, and keeps the logins past their
\* comparison alone if h, when it becomes one, is.
LEMMA MoveKeepsSolo ==
    ASSUME HandlersOK, OverrunInv, NEW h \in Handlers, ready # <<>>, Head(ready) = h,
           NEW label, Moves(h, label),
           label \in CountingLabels => ready' = <<h>>,
           label = "login.compared" => ready' = Tail(ready)
    PROVE  QueueInv' /\ SoloInv'
  <1>0. QueueInv
    BY DEF OverrunInv
  <1>1. ready' \in {Tail(ready), Append(Tail(ready), h)}
    BY DEF Moves
  <1>2. QueueInv'
    BY <1>0, <1>1, QueueFacts DEF QueueInv
  <1>3. ASSUME NEW g \in Handlers \ {h}
        PROVE  ~Compared(g)'
    BY <1>0, <1>1, NoOtherLogin, QueueFacts DEF Moves, HandlersOK, Compared
  <1>4. pc'[h] = label
    BY DEF Moves, HandlersOK
  <1>5. ASSUME Compared(h)' PROVE ready' = <<h>>
    <2>1. label # "login.compared"
      BY <1>0, <1>4, <1>5, QueueFacts DEF Compared, CountingLabels
    <2> QED
      BY <1>4, <1>5, <2>1 DEF Compared
  <1>6. ASSUME NEW g \in Handlers, Compared(g)' PROVE ready' = <<g>>
    BY <1>3, <1>5, <1>6
  <1> QED
    BY <1>2, <1>6 DEF SoloInv

\* A move keeps every row that was just read current, if it leaves the count alone
\* or no other handler is in the queue.
LEMMA MoveKeepsRows ==
    ASSUME HandlersOK, OverrunInv, NEW h \in Handlers, ready # <<>>, Head(ready) = h,
           NEW label, Moves(h, label),
           label = "login.row" => /\ ready' = Append(Tail(ready), h)
                                  /\ loc'[h].row.failed = user'.failed,
           UNCHANGED user.failed \/ ready = <<h>>
    PROVE  RowInv'
  <1> SUFFICES ASSUME NEW g \in Handlers, pc'[g] = "login.row"
               PROVE  g \in Range(ready') /\ loc'[g].row.failed = user'.failed
    BY DEF RowInv
  <1>0. QueueInv /\ RowInv
    BY DEF OverrunInv
  <1>1. CASE g = h
    BY <1>0, <1>1, QueueFacts DEF Moves, HandlersOK
  <1>2. CASE g # h
    <2>1. pc[g] = "login.row" /\ loc'[g] = loc[g]
      BY <1>2 DEF Moves, HandlersOK
    <2>2. g \in Range(ready) /\ loc[g].row.failed = user.failed
      BY <1>0, <2>1 DEF RowInv
    <2>3. ready # <<h>>
      BY <1>2, <2>2 DEF Range
    <2>4. g \in Range(ready')
      BY <1>0, <1>2, <2>2, QueueFacts DEF Moves
    <2> QED
      BY <2>1, <2>2, <2>3, <2>4
  <1> QED
    BY <1>1, <1>2

\* The types the arithmetic below needs.
LEMMA CountTypes ==
    ASSUME TypeOK
    PROVE  /\ user.failed \in Nat /\ faults \in Nat /\ Threshold \in Nat \ {0}
           /\ Owed \in {0, 1}
  BY LoginAssumption, FaultAssumption DEF TypeOK, TablesOK, UserRow, Owed

\* A step that adds no stale comparison, does not count, and pays every debt or
\* is a fault keeps the bound.
LEMMA CountKept ==
    ASSUME TypeOK, TypeOK', CountInv, Low' \subseteq Low, UNCHANGED user.failed,
           \/ faults' = faults /\ Owed = 0
           \/ faults' = faults /\ Owed' = 1
           \/ faults' = faults + 1
    PROVE  CountInv'
  <1>1. Low' \in SUBSET Low
    OBVIOUS
  <1>2. Cardinality(Low') \in Nat /\ Cardinality(Low') <= Cardinality(Low)
    BY <1>1, LowFinite, FS_Subset, FS_CardinalityType
  <1>3. Owed' \in {0, 1}
    BY DEF Owed
  <1> QED
    BY <1>2, <1>3, LowFinite, CountTypes DEF CountInv

\* A move to a label that is not one of the login's adds no stale comparison.
LEMMA MoveKeepsLow ==
    ASSUME HandlersOK, NEW h \in Handlers, NEW label, Moves(h, label),
           label # "login.compared"
    PROVE  Low' \subseteq Low \ {h}
  BY DEF Low, Moves, HandlersOK

\* A step of h that is not one of its login's counting steps keeps the invariant.
LEMMA NeutralKeepsOverrun ==
    ASSUME TypeOK, TypeOK', OverrunInv,
           NEW h \in Handlers, ready # <<>>, Head(ready) = h,
           NEW label, label \notin AccountLabels \cup {"login.row"}, Moves(h, label),
           UNCHANGED user.failed,
           \/ faults' = faults /\ ~Owes(h)
           \/ faults' = faults + 1
    PROVE  OverrunInv'
  <1>1. HandlersOK /\ CountInv
    BY DEF TypeOK, OverrunInv
  <1>2. label \notin CountingLabels /\ label # "login.compared" /\ label # "login.row"
    BY DEF CountingLabels, AccountLabels
  <1>3. QueueInv' /\ SoloInv'
    BY <1>1, <1>2, MoveKeepsSolo
  <1>4. RowInv'
    BY <1>1, <1>2, MoveKeepsRows
  <1>5. CountInv'
    BY <1>1, <1>2, MoveKeepsLow, CountKept, OwedByHead
  <1> QED
    BY <1>3, <1>4, <1>5 DEF OverrunInv

\* A login past its comparison runs from a queue that holds it alone.
LEMMA ComparedAlone ==
    ASSUME OverrunInv, NEW h \in Handlers, HandlersOK, ready # <<>>, Head(ready) = h,
           pc[h] \in AccountLabels
    PROVE  /\ ready = <<h>> /\ Tail(ready) = <<>>
           /\ Append(Tail(ready), h) = <<h>>
  <1>1. h \in Range(ready)
    BY QueueFacts DEF OverrunInv
  <1>2. ready = <<h>>
    BY <1>1 DEF OverrunInv, SoloInv, Compared, CountingLabels
  <1> QED
    BY <1>2

\* Every step of the login keeps the invariant.
LEMMA LoginKeepsOverrun ==
    ASSUME TypeOK, TypeOK', OverrunInv, NEW h \in Handlers, LoginStep(h),
           UNCHANGED faults
    PROVE  OverrunInv'
  <1> USE DEF Runs
  <1>0. HandlersOK /\ Frame(pc[h], loc[h]) /\ CountInv
    BY DEF TypeOK, HandlersOK, OverrunInv
  <1>1. CASE Login_FindByEmail(h)
    <2> DEFINE l == [found |-> FindByEmail(loc[h].email), row |-> user]
    <2>1. Await(h, "login.row", l) /\ ~Owes(h) /\ UNCHANGED user
      BY <1>1 DEF Login_FindByEmail, Owes, tables
    <2>2. Moves(h, "login.row")
      BY <1>0, <2>1, MovesShape
    <2>3. QueueInv' /\ SoloInv'
      BY <1>0, <1>1, <2>2, MoveKeepsSolo
         DEF Login_FindByEmail, CountingLabels, AccountLabels
    <2>4. ready' = Append(Tail(ready), h) /\ loc'[h].row.failed = user'.failed
      BY <1>0, <2>1 DEF Await, Goto, HandlersOK
    <2>5. RowInv'
      BY <1>0, <1>1, <2>1, <2>2, <2>4, MoveKeepsRows DEF Login_FindByEmail
    <2>6. Low' \subseteq Low /\ Owed = 0
      BY <1>0, <1>1, <2>1, <2>2, MoveKeepsLow, OwedByHead DEF Login_FindByEmail
    <2> QED
      BY <1>0, <2>1, <2>3, <2>5, <2>6, CountKept DEF OverrunInv
  <1>2. CASE Login_Refuse(h)
    <2>1. Moves(h, "idle") /\ ~Owes(h) /\ UNCHANGED user
      BY <1>0, <1>2, MovesShape DEF Login_Refuse, Owes, tables
    <2> QED
      BY <1>2, <2>1, NeutralKeepsOverrun DEF Login_Refuse, AccountLabels
  <1>3. CASE Login_Compare(h)
    <2> DEFINE l == [failed |-> loc[h].row.failed, hash |-> loc[h].row.hash]
    <2>1. Park(h, "login.compared", l) /\ ~Owes(h) /\ UNCHANGED user
      BY <1>3 DEF Login_Compare, Owes, tables
    <2>2. Moves(h, "login.compared") /\ ready' = Tail(ready)
      BY <1>0, <2>1, MovesShape DEF Park
    <2>3. QueueInv' /\ SoloInv'
      BY <1>0, <1>3, <2>2, MoveKeepsSolo DEF Login_Compare, CountingLabels
    <2>4. RowInv'
      BY <1>0, <1>3, <2>1, <2>2, MoveKeepsRows DEF Login_Compare
    <2>5. Owed = 0 /\ Owed' \in {0, 1}
      BY <1>3, <2>1, OwedByHead DEF Login_Compare, Owed
    <2>6. loc[h].row.failed = user.failed
      BY <1>3 DEF Login_Compare, OverrunInv, RowInv
    <2>7. /\ pc' = [pc EXCEPT ![h] = "login.compared"]
          /\ loc' = [loc EXCEPT ![h] = l]
      BY <2>1 DEF Park, Goto
    <2>8. CASE user.failed + 2 <= Threshold
      <3>1. Low' \in SUBSET Handlers
        BY DEF Low
      <3>2. Cardinality(Low') \in Nat /\ Cardinality(Low') <= Cardinality(Handlers)
        BY <3>1, LoopAssumption, FS_Subset, FS_CardinalityType
      <3>3. CountInv'
        BY <2>1, <2>5, <2>8, <3>2, CountTypes, LowFinite DEF CountInv
      <3> QED
        BY <2>3, <2>4, <3>3 DEF OverrunInv
    <2>9. CASE ~(user.failed + 2 <= Threshold)
      <3>1. Low' \subseteq Low
        BY <1>0, <2>6, <2>7, <2>9 DEF Low, HandlersOK
      <3> QED
        BY <1>0, <2>1, <2>3, <2>4, <2>5, <3>1, CountKept DEF OverrunInv
    <2> QED
      BY <2>8, <2>9
  <1>4. CASE Login_CountFailure(h)
    <2> DEFINE l == [failed |-> loc[h].failed]
    <2>1. Await(h, "login.failed", l) /\ pc[h] = "login.compared"
      BY <1>4 DEF Login_CountFailure
    <2>2. Moves(h, "login.failed") /\ ready = <<h>> /\ ready' = <<h>>
      BY <1>0, <1>4, <2>1, MovesShape, ComparedAlone
         DEF Login_CountFailure, Await, AccountLabels
    <2>3. QueueInv' /\ SoloInv'
      BY <1>0, <1>4, <2>2, MoveKeepsSolo DEF Login_CountFailure
    <2>4. RowInv'
      BY <1>0, <1>4, <2>2, MoveKeepsRows DEF Login_CountFailure
    <2>5. Owed = 0
      BY <1>4, <2>1, OwedByHead DEF Login_CountFailure, Owes
    <2>6. Low' \in SUBSET (Low \ {h})
      BY <1>0, <2>2, MoveKeepsLow
    <2>7. user'.failed = user.failed + 1
      BY <1>4 DEF Login_CountFailure, IncrementFailedLoginCount, TypeOK, TablesOK, UserRow
    <2>8. /\ Cardinality(Low') \in Nat
          /\ Cardinality(Low') <= IF h \in Low THEN Cardinality(Low) - 1
                                              ELSE Cardinality(Low)
      BY <2>6, LowFinite, FS_RemoveElement, FS_Subset, FS_CardinalityType
    <2>9. CASE h \in Low
      <3>1. Owed' \in {0, 1}
        BY DEF Owed
      <3>2. CountInv'
        BY <1>0, <2>5, <2>7, <2>8, <2>9, <3>1, CountTypes, LowFinite DEF CountInv
      <3> QED
        BY <2>3, <2>4, <3>2 DEF OverrunInv
    <2>10. CASE h \notin Low
      <3>1. /\ pc' = [pc EXCEPT ![h] = "login.failed"]
            /\ loc' = [loc EXCEPT ![h] = l]
        BY <2>1 DEF Await, Goto
      <3>2. loc[h].failed \in Nat
        BY <1>0, <2>1, LoginFrames
      <3>3. ReachesThreshold(loc[h].failed)
        BY <2>1, <2>10, <3>2, CountTypes DEF Low, ReachesThreshold
      <3>4. Owes(h)'
        BY <1>0, <3>1, <3>3 DEF Owes, HandlersOK, ReachesThreshold
      <3>5. Owed' = 1
        BY <3>4 DEF Owed
      <3>6. CountInv'
        BY <1>0, <2>5, <2>7, <2>8, <2>10, <3>5, CountTypes, LowFinite DEF CountInv
      <3> QED
        BY <2>3, <2>4, <3>6 DEF OverrunInv
    <2> QED
      BY <2>9, <2>10
  <1>5. CASE Login_Reject(h)
    <2>1. Moves(h, "idle") /\ ~Owes(h) /\ UNCHANGED user
      BY <1>0, <1>5, MovesShape DEF Login_Reject, Owes, tables
    <2> QED
      BY <1>5, <2>1, NeutralKeepsOverrun DEF Login_Reject, AccountLabels
  <1>6. CASE Login_Lock(h)
    <2>1. Moves(h, "login.locked") /\ ready = <<h>> /\ ready' = <<h>>
      BY <1>0, <1>6, MovesShape, ComparedAlone DEF Login_Lock, Await, AccountLabels
    <2>2. QueueInv' /\ SoloInv'
      BY <1>0, <1>6, <2>1, MoveKeepsSolo DEF Login_Lock
    <2>3. RowInv'
      BY <1>0, <1>6, <2>1, MoveKeepsRows DEF Login_Lock
    <2>4. UNCHANGED user.failed
      BY <1>6 DEF Login_Lock, LockAccount, TypeOK, TablesOK, UserRow
    <2>5. Owes(h)'
      BY <1>0, <2>1 DEF Owes, Moves, HandlersOK
    <2>6. Owed' = 1
      BY <2>5 DEF Owed
    <2>7. Low' \subseteq Low
      BY <1>0, <2>1, MoveKeepsLow
    <2> QED
      BY <1>0, <2>2, <2>3, <2>4, <2>6, <2>7, CountKept DEF OverrunInv
  <1>7. CASE Login_CleanWindow(h) \/ Login_Match(h)
    <2>1. PICK label \in {"idle", "login.matched"} : Moves(h, label)
      BY <1>0, <1>7, MovesShape DEF Login_CleanWindow, Login_Match
    <2>2. /\ pc[h] \in AccountLabels /\ ready # <<>> /\ Head(ready) = h
          /\ ResetFailedLoginCount
          /\ label = "login.matched" => ready' = Append(Tail(ready), h)
      BY <1>0, <1>7, <2>1
         DEF Login_CleanWindow, Login_Match, AccountLabels, Await, Respond, Goto, Moves,
             HandlersOK
    <2>3. ready = <<h>> /\ (label = "login.matched" => ready' = <<h>>)
      BY <1>0, <2>2, ComparedAlone
    <2>4. QueueInv' /\ SoloInv'
      BY <1>0, <2>1, <2>2, <2>3, MoveKeepsSolo DEF CountingLabels, AccountLabels
    <2>5. RowInv'
      BY <1>0, <2>1, <2>2, <2>3, MoveKeepsRows
    <2>6. user'.failed = 0
      BY <2>2 DEF ResetFailedLoginCount, TypeOK, TablesOK, UserRow
    <2>7. Low' \in SUBSET (Handlers \ {h})
      BY <1>0, <2>1, MoveKeepsLow DEF Low
    <2>8. /\ Cardinality(Low') \in Nat
          /\ Cardinality(Low') <= Cardinality(Handlers) - 1
      BY <2>7, LoopAssumption, FS_RemoveElement, FS_Subset, FS_CardinalityType
    <2>9. Owed' \in {0, 1}
      BY DEF Owed
    <2>10. CountInv'
      BY <2>6, <2>8, <2>9, CountTypes, LowFinite DEF CountInv
    <2> QED
      BY <2>4, <2>5, <2>10 DEF OverrunInv
  <1>8. CASE Login_Stamp(h)
    <2>1. Moves(h, "login.session") /\ ready = <<h>> /\ ready' = <<h>>
      BY <1>0, <1>8, MovesShape, ComparedAlone DEF Login_Stamp, Await, AccountLabels
    <2>2. QueueInv' /\ SoloInv'
      BY <1>0, <1>8, <2>1, MoveKeepsSolo DEF Login_Stamp
    <2>3. RowInv'
      BY <1>0, <1>8, <2>1, MoveKeepsRows DEF Login_Stamp
    <2>4. Owed = 0 /\ UNCHANGED user
      BY <1>8, OwedByHead DEF Login_Stamp, Owes, tables
    <2>5. Low' \subseteq Low
      BY <1>0, <2>1, MoveKeepsLow
    <2> QED
      BY <1>0, <2>2, <2>3, <2>4, <2>5, CountKept DEF OverrunInv
  <1>9. CASE Login_CreateSession(h)
    <2>1. Moves(h, "idle") /\ ~Owes(h) /\ UNCHANGED user
      BY <1>0, <1>9, MovesShape DEF Login_CreateSession, Owes
    <2> QED
      BY <1>9, <2>1, NeutralKeepsOverrun DEF Login_CreateSession, AccountLabels
  <1> QED
    BY <1>1, <1>2, <1>3, <1>4, <1>5, <1>6, <1>7, <1>8, <1>9 DEF LoginStep

\* Only the login owes a lock; the other services run at labels of their own.
LEMMA OthersOweNothing ==
    ASSUME NEW h \in Handlers,
           GuardStep(h) \/ RecoveryStep(h) \/ DeletionStep(h) \/ OtpStep(h)
    PROVE  ~Owes(h) /\ ready # <<>> /\ Head(ready) = h
  <1>1. CASE GuardStep(h)
    BY <1>1 DEF GuardStep, Guard_FindSession, Guard_Refuse, Guard_FindUser, Guard_Expel,
                Guard_Pass, Logout_FindSession, Logout_Nothing, Logout_Invalidate,
                Profile_FindUser, Profile_Answer, Runs, Owes
  <1>2. CASE RecoveryStep(h)
    BY <1>2 DEF RecoveryStep, Recovery_FindByEmail, Recovery_Unknown, Recovery_Insert,
                Recovery_Answer, Reset_FindToken, Reset_Refuse, Reset_Hash,
                Reset_Commit, Runs, Owes
  <1>3. CASE DeletionStep(h)
    BY <1>3 DEF DeletionStep, Request_FindUser, Request_NotActive, Request_FindPending,
                Request_AlreadyPending, Request_Insert, Request_Answer,
                Confirm_FindPending, Confirm_Refuse, Confirm_FindUser, Confirm_Commit,
                Cancel_FindPending, Cancel_NotFound, Cancel_Update, Runs, Owes
  <1>4. CASE OtpStep(h)
    BY <1>4 DEF OtpStep, Issue_FindUser, Issue_Forbidden, Issue_Incr, Issue_Expire,
                Issue_Allow, Issue_Limited, Issue_Invalidate, Issue_Sequence,
                Issue_Create, Issue_Conflict, Issue_Answer, Verify_FindUser,
                Verify_NoUser, Verify_FindActive, Verify_Refuse, Verify_Commit, Runs, Owes
  <1> QED
    BY <1>1, <1>2, <1>3, <1>4

\* With an empty queue no login is past its comparison, and none has just read.
LEMMA QuietLogin ==
    ASSUME OverrunInv, ready = <<>>
    PROVE  /\ Owed = 0
           /\ \A h \in Handlers : pc[h] \notin CountingLabels \cup {"login.row"}
  <1>1. \A h \in Handlers : ready # <<h>> /\ h \notin Range(ready)
    BY DEF Range
  <1>2. \A h \in Handlers : pc[h] \notin CountingLabels \cup {"login.row"}
    BY <1>1 DEF OverrunInv, SoloInv, Compared, RowInv
  <1> QED
    BY <1>2 DEF Owed, Owes, CountingLabels, AccountLabels

\* Arrivals keep the invariant: requests start before every counted label.
LEMMA ReceiveKeepsOverrun ==
    ASSUME TypeOK, TypeOK', OverrunInv, Receive
    PROVE  OverrunInv'
  <1>1. PICK batch \in Batches(MaxBatch) :
          /\ ready' = batch
          /\ \E request \in [Range(batch) -> Requests] :
               /\ pc' = [h \in Handlers |->
                           IF h \in Range(batch) THEN request[h].op ELSE pc[h]]
               /\ loc' = [h \in Handlers |->
                           IF h \in Range(batch) THEN request[h] ELSE loc[h]]
    BY DEF Receive, Arrive
  <1>2. ready = <<>> /\ UNCHANGED <<user, faults>>
    BY DEF Receive, Arrive, tables
  <1>3. ASSUME NEW r \in Requests
        PROVE  r.op \notin AccountLabels \cup {"login.row"}
    BY DEF Requests, LoginRequests, LogoutRequests, RecoveryRequests, ResetRequests,
           OtpRequests, GuardedRequests, AccountLabels
  <1>4. ASSUME NEW h \in Handlers
        PROVE  \/ /\ pc'[h] \notin AccountLabels \cup {"login.row"}
                  /\ h \in Range(batch)
               \/ pc'[h] = pc[h] /\ loc'[h] = loc[h] /\ h \notin Range(batch)
    BY <1>1, <1>3
  <1>5. \A h \in Handlers : pc[h] \notin CountingLabels \cup {"login.row"}
    BY <1>2, QuietLogin
  <1>6. QueueInv'
    BY <1>1, BatchTyped, LoopAssumption DEF QueueInv
  <1>7. SoloInv'
    BY <1>1, <1>4, <1>5 DEF SoloInv, Compared, CountingLabels, AccountLabels
  <1>8. RowInv'
    BY <1>4, <1>5 DEF RowInv
  <1>9. Low' \subseteq Low
    BY <1>4 DEF Low, AccountLabels
  <1>10. CountInv'
    BY <1>2, <1>9, QuietLogin, CountKept DEF OverrunInv
  <1> QED
    BY <1>6, <1>7, <1>8, <1>10 DEF OverrunInv

\* Completions keep the invariant: a bcrypt comparison is woken alone.
LEMMA ResumeKeepsOverrun ==
    ASSUME TypeOK, TypeOK', OverrunInv, Resume
    PROVE  OverrunInv'
  <1>1. PICK batch \in Batches(MaxReplies) :
          /\ \A i \in DOMAIN batch : Waiting(batch[i])
          /\ Len(batch) > 1 => \A i \in DOMAIN batch : pc[batch[i]] \in RedisLabels
          /\ ready' = batch
    BY DEF Resume, Wake
  <1>2. ready = <<>> /\ UNCHANGED <<pc, loc, user, faults>>
    BY DEF Resume, Wake, tables
  <1>3. PICK n \in 1..MaxReplies : batch \in [1..n -> Handlers] /\ Len(batch) = n
    BY BatchTyped, LoopAssumption
  <1>4. \A h \in Handlers : pc[h] \notin CountingLabels \cup {"login.row"}
    BY <1>2, QuietLogin
  <1>5. QueueInv'
    BY <1>1, BatchTyped, LoopAssumption DEF QueueInv
  <1>6. ASSUME NEW h \in Handlers, Compared(h)' PROVE ready' = <<h>>
    <2>1. pc[h] = "login.compared" /\ h \in Range(batch)
      BY <1>1, <1>2, <1>4, <1>6 DEF Compared
    <2>2. PICK i \in 1..n : batch[i] = h
      BY <1>3, <2>1 DEF Range
    <2>3. ~(n > 1)
      BY <1>1, <1>3, <2>1, <2>2 DEF RedisLabels
    <2>4. n = 1 /\ i = 1
      BY <1>3, <2>2, <2>3, LoopAssumption
    <2>5. batch = <<h>>
      BY <1>3, <2>2, <2>4
    <2> QED
      BY <1>1, <2>5
  <1>7. SoloInv'
    BY <1>6 DEF SoloInv
  <1>8. RowInv'
    BY <1>2, <1>4 DEF RowInv
  <1>9. Low' \subseteq Low
    BY <1>2 DEF Low
  <1>10. CountInv'
    BY <1>2, <1>9, QuietLogin, CountKept DEF OverrunInv
  <1> QED
    BY <1>5, <1>7, <1>8, <1>10 DEF OverrunInv

\* Every step of the system keeps the invariant.
LEMMA NextKeepsOverrun ==
    TypeOK /\ TypeOK' /\ OverrunInv /\ [Next]_vars => OverrunInv'
  <1> SUFFICES ASSUME TypeOK, TypeOK', OverrunInv, [Next]_vars PROVE OverrunInv'
    OBVIOUS
  <1>0. HandlersOK
    BY DEF TypeOK
  <1>1. ASSUME NEW h \in Handlers, Step(h) PROVE OverrunInv'
    <2>1. CASE LoginStep(h)
      BY <1>1, <2>1, LoginKeepsOverrun DEF Step
    <2>2. CASE GuardStep(h) \/ DeletionStep(h) \/ OtpStep(h)
      <3>1. \E label : Neutral(label) /\ Moves(h, label)
        BY <2>2, GuardMoves, DeletionMoves, OtpMoves
      <3>2. UNCHANGED user.failed
        BY <2>2, GuardMoves, DeletionMoves, OtpMoves
      <3> QED
        BY <1>1, <2>2, <3>1, <3>2, OthersOweNothing, NeutralKeepsOverrun
           DEF Step, Neutral
    <2>3. CASE RecoveryStep(h)
      BY <1>1, <2>3, RecoveryMoves, OthersOweNothing, NeutralKeepsOverrun DEF Step
    <2> QED
      BY <1>1, <2>1, <2>2, <2>3 DEF Step
  <1>2. ASSUME NEW h \in Handlers, StatementFails(h) PROVE OverrunInv'
    <2>1. /\ Moves(h, "idle") /\ ready # <<>> /\ Head(ready) = h
          /\ UNCHANGED user /\ faults' = faults + 1
      BY <1>0, <1>2, MovesShape DEF StatementFails, Runs, tables
    <2> QED
      BY <2>1, NeutralKeepsOverrun DEF AccountLabels
  <1>3. ASSUME NEW h \in Handlers, TableFull(h) PROVE OverrunInv'
    <2>1. /\ Moves(h, "idle") /\ ready # <<>> /\ Head(ready) = h
          /\ UNCHANGED user /\ faults' = faults /\ ~Owes(h)
      BY <1>0, <1>3, MovesShape DEF TableFull, Runs, Owes, tables
    <2> QED
      BY <2>1, NeutralKeepsOverrun DEF AccountLabels
  <1>4. CASE Receive
    BY <1>4, ReceiveKeepsOverrun
  <1>5. CASE Resume
    BY <1>5, ResumeKeepsOverrun
  <1>6. CASE Crash
    <2>1. /\ ready' = <<>> /\ pc' = [h \in Handlers |-> "idle"]
          /\ UNCHANGED user /\ faults' = faults + 1
      BY <1>6 DEF Crash, Restart, tables
    <2>2. QueueInv' /\ SoloInv' /\ RowInv'
      BY <2>1 DEF QueueInv, SoloInv, Compared, RowInv, CountingLabels, AccountLabels
    <2>3. Low' \subseteq Low
      BY <2>1 DEF Low
    <2> QED
      BY <2>1, <2>2, <2>3, CountKept DEF OverrunInv
  <1>7. CASE UNCHANGED <<loopVars, user.failed, faults>>
    <2>1. Low' = Low /\ Owed' = Owed
      BY <1>7 DEF Low, Owed, Owes, loopVars, ReachesThreshold
    <2> QED
      BY <1>7, <2>1
         DEF loopVars, OverrunInv, QueueInv, SoloInv, Compared, RowInv, CountInv
  <1>8. CASE Suspend
    <2>1. UNCHANGED user.failed
      BY <1>8 DEF Suspend, TypeOK, TablesOK, UserRow
    <2> QED
      BY <1>7, <1>8, <2>1 DEF Suspend
  <1> QED
    BY <1>1, <1>2, <1>3, <1>4, <1>5, <1>6, <1>7, <1>8
       DEF Next, Pass, Tick, tables, vars

\* Always, between events, the count of failed logins is below the threshold plus
\* the requests in flight and the faults: wrong passwords that race are counted that
\* far past the threshold, and no further.
THEOREM OverrunBounded == Spec => []FailureOverrun
  <1>1. Init => OverrunInv
    <2> SUFFICES ASSUME Init PROVE OverrunInv
      OBVIOUS
    <2>1. /\ ready = <<>> /\ pc = [h \in Handlers |-> "idle"]
          /\ user.failed = 0 /\ faults = 0
      BY DEF Init, LoopInit, TablesInit
    <2>2. QueueInv /\ SoloInv /\ RowInv
      BY <2>1 DEF QueueInv, SoloInv, Compared, RowInv, CountingLabels, AccountLabels
    <2>3. Low = {}
      BY <2>1 DEF Low
    <2>4. Cardinality(Low) = 0 /\ Owed \in {0, 1}
      BY <2>3, FS_EmptySet DEF Owed
    <2>5. CountInv
      BY <2>1, <2>4, LowFinite, LoginAssumption DEF CountInv
    <2> QED
      BY <2>2, <2>5 DEF OverrunInv
  <1>2. TypeOK /\ TypeOK' /\ OverrunInv /\ [Next]_vars => OverrunInv'
    BY NextKeepsOverrun
  <1>3. TypeOK /\ OverrunInv => FailureOverrun
    <2> SUFFICES ASSUME TypeOK, OverrunInv, ready = <<>>
                 PROVE  user.failed + 2 <= Threshold + Cardinality(Handlers) + faults
      BY DEF FailureOverrun
    <2> QED
      BY QuietLogin, LowFinite, CountTypes DEF OverrunInv, CountInv
  <1> QED
    BY <1>1, <1>2, <1>3, TypeCorrect, PTL DEF Spec
=============================================================================
