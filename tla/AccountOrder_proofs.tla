------------------------- MODULE AccountOrder_proofs -------------------------
(***************************************************************************)
(* What the order of the microtask queue guarantees.  Every handler in the *)
(* queue gets one turn before any gets two, and whatever starts together   *)
(* starts at turn 0: so the number of awaits before a statement decides    *)
(* what can come between two statements.  From this follow the promises of *)
(* account deletion and that sessions have the life cycle promised for     *)
(* them, however requests are pipelined; and, when none are, that the      *)
(* checks before a statement still hold when it runs.                      *)
(***************************************************************************)
EXTENDS AccountSafety_proofs, WellFoundedInduction

-----------------------------------------------------------------------------
(* Turns *)

\* Where a handler waits for real I/O, out of the queue until it is woken.
Parked == {"login.compared", "recovery.sent", "reset.hashed",
           "deletion.request.sent", "otp.counted", "otp.windowed", "otp.dispatched"}

Turn1 == {"login.row", "guard.session", "logout.session", "recovery.row", "reset.row",
          "otp.issue.user", "otp.verify.user", "login.failed", "login.matched",
          "otp.allowed"}
Turn2 == {"guard.user", "otp.verify.row", "login.locked", "login.session",
          "otp.sequence"}
Turn3 == Routes \cup {"otp.create"}
Turn4 == {"profile.user", "deletion.request.user", "deletion.confirm.pending",
          "deletion.cancel.pending"}
Turn5 == {"deletion.request.pending", "deletion.confirm.user"}

\* How many turns a handler at this label has had since it arrived or was woken.
Turn(label) ==
    IF label \in Turn1 THEN 1
    ELSE IF label \in Turn2 THEN 2
    ELSE IF label \in Turn3 THEN 3
    ELSE IF label \in Turn4 THEN 4
    ELSE IF label \in Turn5 THEN 5
    ELSE 0

LEMMA TurnValues ==
    /\ \A label : Turn(label) \in 0..5
    /\ \A label \in Turn1 : Turn(label) = 1
    /\ \A label \in Turn2 : Turn(label) = 2
    /\ \A label \in Turn3 : Turn(label) = 3
    /\ \A label \in Turn4 : Turn(label) = 4
    /\ \A label \in Turn5 : Turn(label) = 5
    /\ \A label \in Parked : Turn(label) = 0
    /\ \A label \in {"login", "guard", "logout", "recovery", "reset", "otp.issue",
                     "otp.verify", "idle"} : Turn(label) = 0
  BY DEF Turn, Turn1, Turn2, Turn3, Turn4, Turn5, Parked, Routes, DeletionRoutes

\* Handler h, the first of the queue, goes on to this label, out of the queue or, a
\* turn later, at its end.
TakesTurn(h, label) ==
    /\ ready # <<>> /\ Head(ready) = h
    /\ pc' = [pc EXCEPT ![h] = label]
    /\ \A g \in Handlers \ {h} : loc'[g] = loc[g]
    /\ \/ label \in Parked \cup {"idle"} /\ ready' = Tail(ready)
       \/ Turn(label) = Turn(pc[h]) + 1 /\ ready' = Append(Tail(ready), h)

\* Awaiting, parking and responding are turns.
LEMMA Turns ==
    ASSUME HandlersOK, NEW h \in Handlers, ready # <<>>, Head(ready) = h,
           NEW label, NEW locals
    PROVE  /\ Turn(label) = Turn(pc[h]) + 1 /\ Await(h, label, locals)
                => /\ TakesTurn(h, label)
                   /\ pc'[h] = label /\ loc'[h] = locals
           /\ label \in Parked /\ Park(h, label, locals)
                => /\ TakesTurn(h, label)
                   /\ pc'[h] = label /\ loc'[h] = locals
           /\ Respond(h) => TakesTurn(h, "idle") /\ pc'[h] = "idle"
  BY DEF Await, Park, Respond, Goto, TakesTurn, HandlersOK

-----------------------------------------------------------------------------
(* One lemma per service: its steps are turns, which of them leads to the labels the *)
(* invariants below speak of, and what it leaves alone.                              *)

\* The middleware, logout and profile.
LEMMA GuardTurns ==
    ASSUME HandlersOK, NEW h \in Handlers, GuardStep(h)
    PROVE  /\ TakesTurn(h, pc'[h])
           /\ pc'[h] \in {"idle", "guard.session", "guard.user", "logout.session",
                          "profile.user"} \cup Routes
           /\ pc'[h] = "guard.session" => Guard_FindSession(h)
           /\ pc'[h] = "guard.user" => Guard_FindUser(h)
           /\ pc'[h] \in Routes => Guard_Pass(h)
           /\ pc'[h] = "logout.session" => Logout_FindSession(h)
           /\ pc'[h] = "profile.user" => pc[h] = "profile"
           /\ UNCHANGED <<user, recoveries, deletions, notices, otps>>
           /\ UNCHANGED sessions \/ Guard_Expel(h) \/ Logout_Invalidate(h)
  <1> USE Turns, TurnValues DEF Runs, tables, Turn1, Turn2, Turn3, Turn4, Routes,
                                DeletionRoutes
  <1>1. CASE Guard_FindSession(h)
    BY <1>1 DEF Guard_FindSession
  <1>2. CASE Guard_Refuse(h)
    BY <1>2 DEF Guard_Refuse
  <1>3. CASE Guard_FindUser(h)
    BY <1>3 DEF Guard_FindUser
  <1>4. CASE Guard_Expel(h)
    BY <1>4 DEF Guard_Expel
  <1>5. CASE Guard_Pass(h)
    <2>1. loc[h].route \in Routes
      BY <1>5, GuardFrames DEF Guard_Pass, HandlersOK
    <2>2. Turn(loc[h].route) = Turn(pc[h]) + 1
      BY <1>5, <2>1 DEF Guard_Pass
    <2>3. TakesTurn(h, loc[h].route) /\ pc'[h] = loc[h].route
      BY <1>5, <2>2 DEF Guard_Pass
    <2> QED
      BY <1>5, <2>1, <2>3 DEF Guard_Pass
  <1>6. CASE Logout_FindSession(h)
    BY <1>6 DEF Logout_FindSession
  <1>7. CASE Logout_Nothing(h)
    BY <1>7 DEF Logout_Nothing
  <1>8. CASE Logout_Invalidate(h)
    BY <1>8 DEF Logout_Invalidate
  <1>9. CASE Profile_FindUser(h)
    BY <1>9 DEF Profile_FindUser
  <1>10. CASE Profile_Answer(h)
    BY <1>10 DEF Profile_Answer
  <1> QED
    BY <1>1, <1>2, <1>3, <1>4, <1>5, <1>6, <1>7, <1>8, <1>9, <1>10 DEF GuardStep

\* The login: it changes no status, and adds rows to `sessions` only.
LEMMA LoginTurns ==
    ASSUME TypeOK, NEW h \in Handlers, LoginStep(h)
    PROVE  /\ TakesTurn(h, pc'[h])
           /\ pc'[h] \in {"idle", "login.row"} \cup AccountLabels
           /\ pc'[h] = "login.row" => Login_FindByEmail(h)
           /\ pc'[h] = "login.compared" => Login_Compare(h)
           /\ pc'[h] \in AccountLabels \ {"login.compared"} => pc[h] \in AccountLabels
           /\ UNCHANGED <<user.status, user.email, recoveries, deletions, notices, otps>>
           /\ UNCHANGED sessions \/ Login_CreateSession(h)
  <1> USE Turns, TurnValues DEF Runs, tables, Turn1, Turn2, AccountLabels, Parked, TypeOK
  <1>1. CASE Login_FindByEmail(h)
    BY <1>1 DEF Login_FindByEmail
  <1>2. CASE Login_Refuse(h)
    BY <1>2 DEF Login_Refuse
  <1>3. CASE Login_Compare(h)
    BY <1>3 DEF Login_Compare
  <1>4. CASE Login_CountFailure(h)
    <2>1. UNCHANGED <<user.status, user.email>>
      BY <1>4 DEF Login_CountFailure, IncrementFailedLoginCount, TablesOK, UserRow
    <2> QED
      BY <1>4, <2>1 DEF Login_CountFailure
  <1>5. CASE Login_Reject(h)
    BY <1>5 DEF Login_Reject
  <1>6. CASE Login_Lock(h)
    <2>1. UNCHANGED <<user.status, user.email>>
      BY <1>6 DEF Login_Lock, LockAccount, TablesOK, UserRow
    <2> QED
      BY <1>6, <2>1 DEF Login_Lock
  <1>7. CASE Login_CleanWindow(h)
    <2>1. UNCHANGED <<user.status, user.email>>
      BY <1>7 DEF Login_CleanWindow, ResetFailedLoginCount, TablesOK, UserRow
    <2> QED
      BY <1>7, <2>1 DEF Login_CleanWindow
  <1>8. CASE Login_Match(h)
    <2>1. UNCHANGED <<user.status, user.email>>
      BY <1>8 DEF Login_Match, ResetFailedLoginCount, TablesOK, UserRow
    <2> QED
      BY <1>8, <2>1 DEF Login_Match
  <1>9. CASE Login_Stamp(h)
    BY <1>9 DEF Login_Stamp
  <1>10. CASE Login_CreateSession(h)
    BY <1>10 DEF Login_CreateSession
  <1> QED
    BY <1>1, <1>2, <1>3, <1>4, <1>5, <1>6, <1>7, <1>8, <1>9, <1>10 DEF LoginStep

\* Recovery and reset.
LEMMA RecoveryTurns ==
    ASSUME TypeOK, NEW h \in Handlers, RecoveryStep(h)
    PROVE  /\ TakesTurn(h, pc'[h])
           /\ pc'[h] \in {"idle", "recovery.row", "recovery.sent", "reset.row",
                          "reset.hashed"}
           /\ UNCHANGED <<user.status, user.email, deletions, notices, otps>>
           /\ UNCHANGED sessions \/ Reset_Commit(h)
  <1> USE Turns, TurnValues DEF Runs, tables, Turn1, Parked, TypeOK
  <1>1. CASE Recovery_FindByEmail(h)
    BY <1>1 DEF Recovery_FindByEmail
  <1>2. CASE Recovery_Unknown(h)
    BY <1>2 DEF Recovery_Unknown
  <1>3. CASE Recovery_Insert(h)
    BY <1>3 DEF Recovery_Insert
  <1>4. CASE Recovery_Answer(h)
    BY <1>4 DEF Recovery_Answer
  <1>5. CASE Reset_FindToken(h)
    BY <1>5 DEF Reset_FindToken
  <1>6. CASE Reset_Refuse(h)
    BY <1>6 DEF Reset_Refuse
  <1>7. CASE Reset_Hash(h)
    BY <1>7 DEF Reset_Hash
  <1>8. CASE Reset_Commit(h)
    <2>1. UNCHANGED <<user.status, user.email>>
      BY <1>8 DEF Reset_Commit, TablesOK, UserRow
    <2> QED
      BY <1>8, <2>1 DEF Reset_Commit
  <1> QED
    BY <1>1, <1>2, <1>3, <1>4, <1>5, <1>6, <1>7, <1>8 DEF RecoveryStep

\* The deletion routes: only the commit touches the account, its sessions and notices.
LEMMA DeletionTurns ==
    ASSUME HandlersOK, NEW h \in Handlers, DeletionStep(h)
    PROVE  /\ TakesTurn(h, pc'[h])
           /\ pc'[h] \in {"idle", "deletion.request.user", "deletion.request.pending",
                          "deletion.request.sent", "deletion.confirm.pending",
                          "deletion.confirm.user", "deletion.cancel.pending"}
           /\ pc'[h] = "deletion.request.user" => Request_FindUser(h)
           /\ pc'[h] = "deletion.request.pending" => Request_FindPending(h)
           /\ pc'[h] = "deletion.confirm.pending" => Confirm_FindPending(h)
           /\ pc'[h] = "deletion.confirm.user" => Confirm_FindUser(h)
           /\ pc'[h] = "deletion.cancel.pending" => Cancel_FindPending(h)
           /\ UNCHANGED <<recoveries, otps>>
           /\ UNCHANGED <<user, sessions, notices>> \/ Confirm_Commit(h)
           /\ \/ UNCHANGED deletions
              \/ Request_Insert(h) \/ Confirm_Commit(h) \/ Cancel_Update(h)
  <1> USE Turns, TurnValues DEF Runs, tables, Turn3, Turn4, Turn5, Parked, Routes,
                                DeletionRoutes
  <1>1. CASE Request_FindUser(h)
    BY <1>1 DEF Request_FindUser
  <1>2. CASE Request_NotActive(h)
    BY <1>2 DEF Request_NotActive
  <1>3. CASE Request_FindPending(h)
    BY <1>3 DEF Request_FindPending
  <1>4. CASE Request_AlreadyPending(h)
    BY <1>4 DEF Request_AlreadyPending
  <1>5. CASE Request_Insert(h)
    BY <1>5 DEF Request_Insert
  <1>6. CASE Request_Answer(h)
    BY <1>6 DEF Request_Answer
  <1>7. CASE Confirm_FindPending(h)
    BY <1>7 DEF Confirm_FindPending
  <1>8. CASE Confirm_Refuse(h)
    BY <1>8 DEF Confirm_Refuse
  <1>9. CASE Confirm_FindUser(h)
    BY <1>9 DEF Confirm_FindUser
  <1>10. CASE Confirm_Commit(h)
    BY <1>10 DEF Confirm_Commit
  <1>11. CASE Cancel_FindPending(h)
    BY <1>11 DEF Cancel_FindPending
  <1>12. CASE Cancel_NotFound(h)
    BY <1>12 DEF Cancel_NotFound
  <1>13. CASE Cancel_Update(h)
    BY <1>13 DEF Cancel_Update
  <1> QED
    BY <1>1, <1>2, <1>3, <1>4, <1>5, <1>6, <1>7, <1>8, <1>9, <1>10, <1>11, <1>12,
       <1>13 DEF DeletionStep

\* The passcode routes: only a verification touches the account.
LEMMA OtpTurns ==
    ASSUME HandlersOK, NEW h \in Handlers, OtpStep(h)
    PROVE  /\ TakesTurn(h, pc'[h])
           /\ pc'[h] \in {"idle", "otp.issue.user", "otp.counted", "otp.windowed",
                          "otp.allowed", "otp.sequence", "otp.create",
                          "otp.dispatched", "otp.verify.user", "otp.verify.row"}
           /\ pc'[h] = "otp.issue.user" => Issue_FindUser(h)
           /\ pc'[h] = "otp.verify.user" => Verify_FindUser(h)
           /\ pc'[h] = "otp.verify.row" => Verify_FindActive(h)
           /\ UNCHANGED <<sessions, recoveries, deletions, notices>>
           /\ UNCHANGED user \/ Verify_Commit(h)
           /\ \/ UNCHANGED otps
              \/ Issue_Invalidate(h) \/ Issue_Create(h) \/ Verify_Commit(h)
           /\ UNCHANGED limiter \/ Issue_Incr(h) \/ Issue_Expire(h)
  <1> USE Turns, TurnValues DEF Runs, tables, Turn1, Turn2, Turn3, Parked
  <1>1. CASE Issue_FindUser(h)
    BY <1>1 DEF Issue_FindUser
  <1>2. CASE Issue_Forbidden(h)
    BY <1>2 DEF Issue_Forbidden
  <1>3. CASE Issue_Incr(h)
    BY <1>3 DEF Issue_Incr
  <1>4. CASE Issue_Expire(h)
    BY <1>4 DEF Issue_Expire
  <1>5. CASE Issue_Allow(h)
    BY <1>5 DEF Issue_Allow
  <1>6. CASE Issue_Limited(h)
    BY <1>6 DEF Issue_Limited
  <1>7. CASE Issue_Invalidate(h)
    BY <1>7 DEF Issue_Invalidate
  <1>8. CASE Issue_Sequence(h)
    BY <1>8 DEF Issue_Sequence
  <1>9. CASE Issue_Create(h)
    BY <1>9 DEF Issue_Create
  <1>10. CASE Issue_Conflict(h)
    BY <1>10 DEF Issue_Conflict
  <1>11. CASE Issue_Answer(h)
    BY <1>11 DEF Issue_Answer
  <1>12. CASE Verify_FindUser(h)
    BY <1>12 DEF Verify_FindUser
  <1>13. CASE Verify_NoUser(h)
    BY <1>13 DEF Verify_NoUser
  <1>14. CASE Verify_FindActive(h)
    BY <1>14 DEF Verify_FindActive
  <1>15. CASE Verify_Refuse(h)
    BY <1>15 DEF Verify_Refuse
  <1>16. CASE Verify_Commit(h)
    BY <1>16 DEF Verify_Commit
  <1> QED
    BY <1>1, <1>2, <1>3, <1>4, <1>5, <1>6, <1>7, <1>8, <1>9, <1>10, <1>11,
       <1>12, <1>13, <1>14, <1>15, <1>16 DEF OtpStep

\* So is every step of a handler.
LEMMA StepTurns ==
    ASSUME TypeOK, NEW h \in Handlers, Step(h)
    PROVE  TakesTurn(h, pc'[h])
  BY LoginTurns, GuardTurns, RecoveryTurns, DeletionTurns, OtpTurns DEF Step, TypeOK

\* What is left when no handler takes a step: requests arrive, handlers end, and the
\* tables stay as they are unless the account is suspended.
LEMMA OtherSteps ==
    ASSUME HandlersOK, [Next]_vars, \A h \in Handlers : ~Step(h)
    PROVE  /\ \A h \in Handlers :
                \/ pc'[h] = pc[h] /\ loc'[h] = loc[h]
                \/ pc'[h] = "idle"
                \/ \E r \in Requests : pc'[h] = r.op /\ pc[h] = "idle"
           /\ UNCHANGED <<sessions, recoveries, deletions, notices, otps, limiter>>
           /\ UNCHANGED user \/ Suspend
           /\ UNCHANGED clock \/ Pass
  <1> DEFINE Other(h) == \/ pc'[h] = pc[h] /\ loc'[h] = loc[h]
                         \/ pc'[h] = "idle"
                         \/ \E r \in Requests : pc'[h] = r.op /\ pc[h] = "idle"
  <1>1. ASSUME Receive, NEW h \in Handlers PROVE Other(h)
    <2>1. PICK batch \in Batches(MaxBatch) :
            /\ \A i \in DOMAIN batch : Idle(batch[i])
            /\ \E request \in [Range(batch) -> Requests] :
                 /\ pc' = [g \in Handlers |->
                             IF g \in Range(batch) THEN request[g].op ELSE pc[g]]
                 /\ loc' = [g \in Handlers |->
                              IF g \in Range(batch) THEN request[g] ELSE loc[g]]
      BY <1>1 DEF Receive, Arrive
    <2>2. h \in Range(batch) => pc[h] = "idle"
      BY <2>1 DEF Range, Idle
    <2>3. CASE h \in Range(batch)
      <3>1. \E r \in Requests : pc'[h] = r.op
        BY <2>1, <2>3
      <3> QED
        BY <2>2, <2>3, <3>1
    <2> QED
      BY <2>1, <2>3
  <1>2. ASSUME NEW g \in Handlers, StatementFails(g) \/ TableFull(g),
               NEW h \in Handlers
        PROVE  Other(h)
    <2>1. Respond(g)
      BY <1>2 DEF StatementFails, TableFull
    <2> QED
      BY <2>1 DEF Respond, Goto, HandlersOK
  <1>3. ASSUME Crash, NEW h \in Handlers PROVE Other(h)
    BY <1>3 DEF Crash, Restart
  <1>4. ASSUME Resume \/ Pass \/ Suspend \/ UNCHANGED vars, NEW h \in Handlers
        PROVE  Other(h)
    BY <1>4 DEF Resume, Wake, Pass, Tick, Suspend, vars, loopVars
  <1>5. \A h \in Handlers : Other(h)
    <2> HIDE DEF Other
    <2> QED
      BY <1>1, <1>2, <1>3, <1>4 DEF Next
  <1>6. /\ UNCHANGED <<sessions, recoveries, deletions, notices, otps, limiter>>
        /\ UNCHANGED user \/ Suspend
        /\ UNCHANGED clock \/ Pass
    BY DEF Next, Receive, Resume, StatementFails, TableFull, Pass, Crash, Suspend,
           vars, tables
  <1> QED
    BY <1>5, <1>6

\* Where requests arrive.
LEMMA Arrivals ==
    /\ \A r \in Requests : r.op \in {"login", "guard", "logout", "recovery", "reset",
                                      "otp.issue", "otp.verify"}
    /\ \A r \in Requests : r.op = "otp.verify" => "otp.verify" \in Ops
  BY DEF Requests, LoginRequests, LogoutRequests, RecoveryRequests, ResetRequests,
         OtpRequests, GuardedRequests

-----------------------------------------------------------------------------
(* The order of the queue *)

\* A handler that is neither free nor waiting for I/O is in the queue.
Present ==
    \A h \in Handlers : h \in Range(ready) \/ pc[h] \in Parked \cup {"idle"}

\* No handler in the queue is more than one turn ahead of another, and those that
\* are ahead are behind in the queue.
Lockstep ==
    \A i, j \in DOMAIN ready :
      i < j => /\ Turn(pc[ready[i]]) <= Turn(pc[ready[j]])
               /\ Turn(pc[ready[j]]) <= Turn(pc[ready[i]]) + 1

OrderInv == QueueInv /\ Present /\ Lockstep

\* While a handler runs, every other one in the queue has had as many turns, or one
\* more.
LEMMA OthersKeepPace ==
    ASSUME HandlersOK, OrderInv, NEW h \in Handlers, ready # <<>>, Head(ready) = h,
           NEW g \in Handlers, pc[g] \notin Parked \cup {"idle"}
    PROVE  Turn(pc[h]) <= Turn(pc[g]) /\ Turn(pc[g]) <= Turn(pc[h]) + 1
  <1>1. g \in Range(ready)
    BY DEF OrderInv, Present
  <1>2. PICK i \in DOMAIN ready : ready[i] = g
    BY <1>1 DEF Range
  <1>3. DOMAIN ready = 1..Len(ready) /\ Len(ready) \in Nat /\ ready[1] = h /\ i >= 1
    BY DEF HandlersOK
  <1>4. CASE i = 1
    BY <1>2, <1>3, <1>4, TurnValues
  <1>5. CASE i # 1
    <2>1. 1 \in DOMAIN ready /\ 1 < i
      BY <1>3, <1>5
    <2> QED
      BY <1>2, <1>3, <2>1 DEF OrderInv, Lockstep
  <1> QED
    BY <1>4, <1>5

\* A turn keeps the order.
LEMMA TurnKeepsOrder ==
    ASSUME HandlersOK, OrderInv, NEW h \in Handlers, NEW label, TakesTurn(h, label)
    PROVE  OrderInv'
  <1>0. /\ ready # <<>> /\ Head(ready) = h /\ QueueInv
        /\ ready \in Seq(Handlers) /\ Len(ready) \in Nat /\ Len(ready) # 0 /\ ready[1] = h
        /\ pc'[h] = label
        /\ \A g \in Handlers \ {h} : pc'[g] = pc[g]
        /\ ready' \in {Tail(ready), Append(Tail(ready), h)}
    BY DEF TakesTurn, OrderInv, HandlersOK
  <1>1. QueueInv'
    BY <1>0, QueueFacts DEF QueueInv
  <1>2. Present'
    <2> SUFFICES ASSUME NEW g \in Handlers
                 PROVE  g \in Range(ready') \/ pc'[g] \in Parked \cup {"idle"}
      BY DEF Present
    <2>1. CASE g = h
      BY <1>0, <2>1, QueueFacts DEF TakesTurn
    <2>2. CASE g # h
      <3>1. g \in Range(ready) \/ pc'[g] \in Parked \cup {"idle"}
        BY <1>0, <2>2 DEF OrderInv, Present
      <3> QED
        BY <1>0, <2>2, <3>1, QueueFacts
    <2> QED
      BY <2>1, <2>2
  <1>3. Lockstep'
    <2> DEFINE t == Tail(ready)
               n == Len(ready)
    <2>1. /\ DOMAIN ready = 1..n /\ DOMAIN t = 1..(n - 1) /\ n \in Nat
          /\ \A i \in 1..(n - 1) : /\ t[i] = ready[i + 1] /\ ready[i + 1] \in Handlers
                                   /\ i + 1 \in 1..n
      BY <1>0
    <2>2. ASSUME NEW i \in 1..(n - 1)
          PROVE  /\ pc'[t[i]] = pc[ready[i + 1]]
                 /\ Turn(pc[h]) <= Turn(pc[ready[i + 1]])
                 /\ Turn(pc[ready[i + 1]]) <= Turn(pc[h]) + 1
      <3>1. ready[i + 1] # h
        <4>1. i + 1 \in DOMAIN ready /\ 1 \in DOMAIN ready /\ i + 1 # 1
          BY <2>1
        <4> QED
          BY <1>0, <4>1 DEF QueueInv
      <3>2. 1 \in DOMAIN ready /\ i + 1 \in DOMAIN ready /\ 1 < i + 1
        BY <2>1
      <3> QED
        BY <1>0, <2>1, <3>1, <3>2 DEF OrderInv, Lockstep
    <2>3. ASSUME NEW i \in 1..(n - 1), NEW j \in 1..(n - 1), i < j
          PROVE  /\ Turn(pc'[t[i]]) <= Turn(pc'[t[j]])
                 /\ Turn(pc'[t[j]]) <= Turn(pc'[t[i]]) + 1
      <3>1. i + 1 \in DOMAIN ready /\ j + 1 \in DOMAIN ready /\ i + 1 < j + 1
        BY <2>1, <2>3
      <3> QED
        BY <2>2, <3>1 DEF OrderInv, Lockstep
    <2>4. CASE ready' = t
      BY <2>1, <2>3, <2>4 DEF Lockstep
    <2>5. CASE ready' = Append(t, h) /\ Turn(label) = Turn(pc[h]) + 1
      <3> DEFINE a == Append(t, h)
      <3>1. /\ DOMAIN a = 1..n /\ a[n] = h
            /\ \A i \in 1..(n - 1) : a[i] = t[i]
        BY <1>0, <2>1
      <3>2. ASSUME NEW i \in 1..n, i # n
            PROVE  i \in 1..(n - 1)
        BY <1>0, <3>2
      <3>0. ASSUME NEW i \in 1..n, NEW j \in 1..n, i < j
            PROVE  i # n
        BY <1>0, <3>0
      <3> HIDE DEF a, t
      <3> SUFFICES ASSUME NEW i \in 1..n, NEW j \in 1..n, i < j
                   PROVE  /\ Turn(pc'[a[i]]) <= Turn(pc'[a[j]])
                          /\ Turn(pc'[a[j]]) <= Turn(pc'[a[i]]) + 1
        BY <2>5, <3>1 DEF Lockstep, a
      <3>3. i \in 1..(n - 1) /\ a[i] = t[i]
        BY <3>0, <3>1, <3>2
      <3>4. CASE j = n
        <4>1. Turn(pc'[a[j]]) = Turn(pc[h]) + 1
          BY <1>0, <2>5, <3>1, <3>4
        <4>2. Turn(pc'[a[i]]) = Turn(pc[ready[i + 1]])
          BY <2>2, <3>3
        <4>3. Turn(pc[h]) \in Nat /\ Turn(pc[ready[i + 1]]) \in Nat
          BY TurnValues
        <4> QED
          BY <2>2, <3>3, <4>1, <4>2, <4>3
      <3>5. CASE j # n
        BY <2>3, <3>1, <3>2, <3>3, <3>5
      <3> QED
        BY <3>4, <3>5
    <2> QED
      BY <2>4, <2>5 DEF TakesTurn
  <1> QED
    BY <1>1, <1>2, <1>3 DEF OrderInv

\* What an event brings starts at turn 0.
LEMMA EventKeepsOrder ==
    ASSUME TypeOK, OrderInv, Receive \/ Resume
    PROVE  OrderInv'
  <1>0. ready = <<>> /\ \A h \in Handlers : pc[h] \in Parked \cup {"idle"}
    <2>1. ready = <<>>
      BY DEF Receive, Resume, Arrive, Wake
    <2> QED
      BY <2>1 DEF OrderInv, Present, Range
  <1>1. ASSUME NEW size \in Nat, NEW b \in Batches(size), ready' = b,
               \A h \in Range(b) : Turn(pc'[h]) = 0,
               \A h \in Handlers \ Range(b) : pc'[h] = pc[h]
        PROVE  OrderInv'
    <2>1. QueueInv'
      BY <1>1, BatchTyped DEF QueueInv
    <2>2. Present'
      BY <1>0, <1>1 DEF Present
    <2>3. \A i \in DOMAIN b : b[i] \in Range(b)
      BY DEF Range
    <2>4. Lockstep'
      BY <1>1, <2>3 DEF Lockstep
    <2> QED
      BY <2>1, <2>2, <2>4 DEF OrderInv
  <1>2. CASE Receive
    <2>1. PICK batch \in Batches(MaxBatch) :
            /\ ready' = batch
            /\ \E request \in [Range(batch) -> Requests] :
                 pc' = [h \in Handlers |->
                          IF h \in Range(batch) THEN request[h].op ELSE pc[h]]
      BY <1>2 DEF Receive, Arrive
    <2>2. \A r \in Requests : Turn(r.op) = 0
      BY TurnValues, Arrivals
    <2>3. Range(batch) \subseteq Handlers
      BY BatchTyped, LoopAssumption DEF Range
    <2> QED
      BY <1>1, <2>1, <2>2, <2>3, LoopAssumption
  <1>3. CASE Resume
    <2>1. PICK batch \in Batches(MaxReplies) :
            /\ \A i \in DOMAIN batch : Waiting(batch[i])
            /\ ready' = batch
      BY <1>3 DEF Resume, Wake
    <2>2. UNCHANGED pc
      BY <1>3 DEF Resume, Wake
    <2>3. Range(batch) \subseteq Handlers
      BY BatchTyped, LoopAssumption DEF Range
    <2>4. \A h \in Range(batch) : Turn(pc'[h]) = 0
      BY <1>0, <2>1, <2>2, <2>3, TurnValues DEF Range, Waiting, Idle
    <2> QED
      BY <1>1, <2>1, <2>2, <2>4, LoopAssumption
  <1> QED
    BY <1>2, <1>3

\* Every step of the system keeps the order.
LEMMA NextKeepsOrder == TypeOK /\ OrderInv /\ [Next]_vars => OrderInv'
  <1> SUFFICES ASSUME TypeOK, OrderInv, [Next]_vars PROVE OrderInv'
    OBVIOUS
  <1>0. HandlersOK
    BY DEF TypeOK
  <1>1. ASSUME NEW h \in Handlers, Step(h) PROVE OrderInv'
    BY <1>0, <1>1, StepTurns, TurnKeepsOrder
  <1>2. ASSUME NEW h \in Handlers, StatementFails(h) \/ TableFull(h) PROVE OrderInv'
    <2>1. Respond(h) /\ ready # <<>> /\ Head(ready) = h
      BY <1>2 DEF StatementFails, TableFull, Runs
    <2> QED
      BY <1>0, <2>1, Turns, TurnKeepsOrder
  <1>3. CASE Crash
    BY <1>3 DEF Crash, Restart, OrderInv, QueueInv, Present, Lockstep
  <1>4. CASE UNCHANGED loopVars
    BY <1>4 DEF loopVars, OrderInv, QueueInv, Present, Lockstep
  <1> QED
    BY <1>1, <1>2, <1>3, <1>4, EventKeepsOrder DEF Next, Pass, Tick, Suspend, vars

LEMMA InitOrder == Init => OrderInv
  BY DEF Init, LoopInit, OrderInv, QueueInv, Present, Lockstep

\* Always, requests that run together run in lockstep: those that one event delivered,
\* or woke, are never more than one await apart.
THEOREM HandlersInLockstep == Spec => []Lockstep
  <1>1. OrderInv => Lockstep
    BY DEF OrderInv
  <1> QED
    BY <1>1, InitOrder, NextKeepsOrder, TypeCorrect, PTL DEF Spec


-----------------------------------------------------------------------------
(* Account deletion *)

\* A handler that has seen the account not deleted, and acts on that.
Undeleted(h) ==
    \/ pc[h] = "guard.user" /\ loc[h].status = "active"
    \/ pc[h] \in Routes \cup {"deletion.confirm.pending", "deletion.cancel.pending"}
    \/ pc[h] = "otp.verify.user" /\ CanVerify(loc[h].status)
    \/ pc[h] = "otp.verify.row"

\* What it has seen is still so: a commit is at turn 5, and these labels are at turn
\* 4 or before.
StillUndeleted(h) ==
    /\ Undeleted(h) => user.status # "deleted"
    /\ pc[h] = "deletion.confirm.user" => loc[h].email = "own"
    /\ pc[h] = "deletion.cancel.pending" =>
         \A d \in loc[h].pending : deletions[d].st # "confirmed"

DeletionInv ==
    /\ DeletionIsAtomic
    /\ NoticesReachTheOwner
    /\ \A h \in Handlers : StillUndeleted(h)

\* A step that neither deletes nor revives the account, confirms or unconfirms a
\* request, or queues a notice.
DeletesNothing ==
    /\ user'.status = "deleted" <=> user.status = "deleted"
    /\ user'.email = user.email
    /\ Confirmed' = Confirmed
    /\ UNCHANGED notices

\* Every step but the commit is one: a verification could revive the account, a
\* cancellation unconfirm a request, if what they have seen were not still so.
LEMMA OnlyCommitDeletes ==
    ASSUME TypeOK, DeletionInv, NEW h \in Handlers, Step(h)
    PROVE  DeletesNothing \/ Confirm_Commit(h)
  <1>0. /\ user \in UserRow /\ DOMAIN deletions = DeletionIds
        /\ \A d \in DeletionIds : deletions[d] \in DeletionRow
    BY DEF TypeOK, TablesOK, DeletionIds
  <1>1. CASE LoginStep(h)
    BY <1>1, LoginTurns DEF DeletesNothing, Confirmed
  <1>2. CASE GuardStep(h)
    BY <1>2, GuardTurns DEF DeletesNothing, Confirmed, TypeOK
  <1>3. CASE RecoveryStep(h)
    BY <1>3, RecoveryTurns DEF DeletesNothing, Confirmed
  <1>4. CASE DeletionStep(h)
    <2>1. CASE UNCHANGED deletions
      BY <1>4, <2>1, DeletionTurns DEF DeletesNothing, Confirmed, TypeOK
    <2>2. CASE Request_Insert(h)
      BY <1>0, <2>2 DEF Request_Insert, NextRow, DeletesNothing, Confirmed, DeletionRow
    <2>3. CASE Cancel_Update(h)
      <3>1. /\ loc[h].pending \subseteq DeletionIds
            /\ \A d \in loc[h].pending : deletions[d].st # "confirmed"
        BY <2>3, DeletionFrames
           DEF Cancel_Update, Runs, DeletionInv, StillUndeleted, TypeOK, HandlersOK
      <3> QED
        BY <1>0, <2>3, <3>1 DEF Cancel_Update, DeletesNothing, Confirmed, DeletionRow
    <2> QED
      BY <1>4, <2>1, <2>2, <2>3, DeletionTurns DEF TypeOK
  <1>5. CASE OtpStep(h)
    <2>1. CASE UNCHANGED user
      BY <1>5, <2>1, OtpTurns DEF DeletesNothing, Confirmed, TypeOK
    <2>2. CASE Verify_Commit(h)
      <3>1. user.status # "deleted"
        BY <2>2 DEF Verify_Commit, Runs, DeletionInv, StillUndeleted, Undeleted
      <3> QED
        BY <1>0, <2>2, <3>1 DEF Verify_Commit, DeletesNothing, Confirmed, UserRow
    <2> QED
      BY <1>5, <2>1, <2>2, OtpTurns DEF TypeOK
  <1> QED
    BY <1>1, <1>2, <1>3, <1>4, <1>5 DEF Step

\* What a handler has just seen is so.
LEMMA JustSeen ==
    ASSUME TypeOK, DeletionInv, NEW h \in Handlers, Step(h)
    PROVE  StillUndeleted(h)'
  <1>0. /\ HandlersOK /\ StillUndeleted(h)
        /\ user.status \in Statuses /\ user.email \in Emails
        /\ user.status # "deleted" => user.email = "own"
    BY DEF TypeOK, TablesOK, UserRow, DeletionInv, DeletionIsAtomic, Emails
  <1> USE DEF Runs, StillUndeleted, Undeleted, Routes, DeletionRoutes
  <1>1. CASE LoginStep(h)
    BY <1>1, LoginTurns DEF AccountLabels
  <1>2. CASE GuardStep(h)
    <2>1. CASE pc'[h] = "guard.user"
      BY <1>0, <1>2, <2>1, GuardTurns DEF Guard_FindUser, Await, Goto, HandlersOK
    <2>2. CASE pc'[h] \in Routes
      BY <1>0, <1>2, <2>2, GuardTurns DEF Guard_Pass
    <2> QED
      BY <1>0, <1>2, <2>1, <2>2, GuardTurns
  <1>3. CASE RecoveryStep(h)
    BY <1>3, RecoveryTurns
  <1>4. CASE DeletionStep(h)
    <2>1. CASE pc'[h] = "deletion.confirm.pending"
      BY <1>0, <1>4, <2>1, DeletionTurns DEF Confirm_FindPending, tables
    <2>2. CASE pc'[h] = "deletion.confirm.user"
      <3>1. Confirm_FindUser(h) /\ user.status # "deleted"
        BY <1>0, <1>4, <2>2, DeletionTurns DEF Confirm_FindUser
      <3> QED
        BY <1>0, <2>2, <3>1 DEF Confirm_FindUser, Await, Goto, HandlersOK
    <2>3. CASE pc'[h] = "deletion.cancel.pending"
      <3>1. Cancel_FindPending(h) /\ user.status # "deleted" /\ UNCHANGED tables
        BY <1>0, <1>4, <2>3, DeletionTurns DEF Cancel_FindPending
      <3>2. loc'[h].pending = Selected(deletions, "pending")
        BY <1>0, <3>1 DEF Cancel_FindPending, FindPending, Await, Goto, HandlersOK
      <3>3. \A d \in loc'[h].pending : deletions'[d].st # "confirmed"
        BY <3>1, <3>2 DEF Selected, tables
      <3> QED
        BY <2>3, <3>1, <3>3 DEF tables
    <2> QED
      BY <1>0, <1>4, <2>1, <2>2, <2>3, DeletionTurns
  <1>5. CASE OtpStep(h)
    <2>1. CASE pc'[h] = "otp.verify.user"
      BY <1>0, <1>5, <2>1, OtpTurns
         DEF Verify_FindUser, Await, Goto, HandlersOK, CanVerify, tables
    <2>2. CASE pc'[h] = "otp.verify.row"
      BY <1>0, <1>5, <2>2, OtpTurns DEF Verify_FindActive, tables
    <2> QED
      BY <1>0, <1>5, <2>1, <2>2, OtpTurns
  <1> QED
    BY <1>1, <1>2, <1>3, <1>4, <1>5 DEF Step

\* When an account is deleted no other handler relies on its not being so.
LEMMA NobodyElseRelies ==
    ASSUME HandlersOK, OrderInv, NEW h \in Handlers, Confirm_Commit(h),
           NEW g \in Handlers, g # h
    PROVE  ~Undeleted(g)
  <1> SUFFICES ASSUME Undeleted(g) PROVE FALSE
    OBVIOUS
  <1>1. ready # <<>> /\ Head(ready) = h /\ pc[h] \in Turn5
    BY DEF Confirm_Commit, Runs, Turn5
  <1>2. pc[g] \in Turn1 \cup Turn2 \cup Turn3 \cup Turn4
    BY DEF Undeleted, Turn1, Turn2, Turn3, Turn4
  <1>3. pc[g] \notin Parked \cup {"idle"}
    BY DEF Undeleted, Parked, Routes, DeletionRoutes
  <1>4. Turn(pc[h]) = 5 /\ Turn(pc[g]) \in {1, 2, 3, 4}
    BY <1>1, <1>2, TurnValues
  <1> QED
    BY <1>1, <1>3, <1>4, OthersKeepPace

\* The commit: status, request and notice change together, whoever did it before.
LEMMA CommitDeletes ==
    ASSUME TypeOK, DeletionInv, NEW h \in Handlers, Confirm_Commit(h)
    PROVE  /\ user'.status = "deleted" /\ user'.email = "anonymised"
           /\ DeletionIsAtomic' /\ NoticesReachTheOwner'
  <1>1. user'.status = "deleted" /\ user'.email = "anonymised"
    BY DEF Confirm_Commit, Anonymise, TypeOK, TablesOK, UserRow
  <1>2. Confirmed' # {}
    <2>1. loc[h].request \in DeletionIds
      BY DeletionFrames DEF Confirm_Commit, Runs, TypeOK, HandlersOK
    <2>2. deletions'[loc[h].request].st = "confirmed"
      BY <2>1 DEF Confirm_Commit, TypeOK, TablesOK, DeletionRow, DeletionIds
    <2> QED
      BY <2>1, <2>2 DEF Confirmed
  <1>3. PICK n \in DOMAIN notices :
          notices' = [notices EXCEPT ![n] = [st |-> "queued",
                                             owner |-> loc[h].email = "own"]]
    BY DEF Confirm_Commit, QueueNotice
  <1>4. loc[h].email = "own"
    BY DEF Confirm_Commit, Runs, DeletionInv, StillUndeleted
  <1>5. Queued' # {}
    <2>1. n \in DOMAIN notices' /\ notices'[n].st = "queued"
      BY <1>3
    <2> QED
      BY <2>1 DEF Queued
  <1>6. NoticesReachTheOwner'
    BY <1>3, <1>4 DEF NoticesReachTheOwner, DeletionInv, Queued
  <1> QED
    BY <1>1, <1>2, <1>5, <1>6 DEF DeletionIsAtomic

\* A step that deletes nothing, and what it leaves of the other handlers.
LEMMA NothingDeletedKeeps ==
    ASSUME TypeOK, TypeOK', DeletionInv, DeletesNothing
    PROVE  /\ DeletionIsAtomic' /\ NoticesReachTheOwner'
           /\ \A g \in Handlers :
                pc'[g] = pc[g] /\ loc'[g] = loc[g] => StillUndeleted(g)'
  <1>1. DeletionIsAtomic' /\ NoticesReachTheOwner'
    BY DEF DeletionInv, DeletionIsAtomic, NoticesReachTheOwner, Queued, DeletesNothing
  <1>2. ASSUME NEW g \in Handlers, pc'[g] = pc[g], loc'[g] = loc[g]
        PROVE  StillUndeleted(g)'
    <2>1. StillUndeleted(g)
      BY DEF DeletionInv
    <2>2. pc[g] = "deletion.cancel.pending" => loc[g].pending \subseteq DeletionIds
      BY DeletionFrames DEF TypeOK, HandlersOK
    <2>3. \A d \in DeletionIds :
            deletions'[d].st = "confirmed" <=> deletions[d].st = "confirmed"
      BY DEF DeletesNothing, Confirmed
    <2> QED
      BY <1>2, <2>1, <2>2, <2>3 DEF StillUndeleted, Undeleted, DeletesNothing
  <1> QED
    BY <1>1, <1>2

\* Every step of the system keeps the invariant.
LEMMA NextKeepsDeletion ==
    TypeOK /\ TypeOK' /\ OrderInv /\ DeletionInv /\ [Next]_vars => DeletionInv'
  <1> SUFFICES ASSUME TypeOK, TypeOK', OrderInv, DeletionInv, [Next]_vars
               PROVE  DeletionInv'
    OBVIOUS
  <1>0. HandlersOK
    BY DEF TypeOK
  <1>1. ASSUME NEW h \in Handlers, Step(h) PROVE DeletionInv'
    <2>1. \A g \in Handlers \ {h} : pc'[g] = pc[g] /\ loc'[g] = loc[g]
      BY <1>0, <1>1, StepTurns DEF TakesTurn, HandlersOK
    <2>2. StillUndeleted(h)'
      BY <1>1, JustSeen
    <2>3. CASE DeletesNothing
      BY <2>1, <2>2, <2>3, NothingDeletedKeeps DEF DeletionInv
    <2>4. CASE Confirm_Commit(h)
      <3>1. ASSUME NEW g \in Handlers \ {h} PROVE StillUndeleted(g)'
        BY <1>0, <2>1, <2>4, NobodyElseRelies
           DEF StillUndeleted, Undeleted, DeletionInv
      <3> QED
        BY <2>2, <2>4, <3>1, CommitDeletes DEF DeletionInv
    <2> QED
      BY <1>1, <2>3, <2>4, OnlyCommitDeletes
  <1>2. ASSUME \A h \in Handlers : ~Step(h) PROVE DeletionInv'
    <2>1. DeletesNothing
      BY <1>0, <1>2, OtherSteps
         DEF DeletesNothing, Confirmed, Suspend, TypeOK, TablesOK, UserRow
    <2>2. ASSUME NEW g \in Handlers PROVE StillUndeleted(g)'
      <3>1. CASE pc'[g] = pc[g] /\ loc'[g] = loc[g]
        BY <2>1, <3>1, NothingDeletedKeeps
      <3>2. CASE pc'[g] = "idle" \/ \E r \in Requests : pc'[g] = r.op
        BY <3>2, Arrivals DEF StillUndeleted, Undeleted, Routes, DeletionRoutes
      <3> QED
        BY <1>0, <1>2, <3>1, <3>2, OtherSteps
    <2> QED
      BY <2>1, <2>2, NothingDeletedKeeps DEF DeletionInv
  <1> QED
    BY <1>1, <1>2

LEMMA InitDeletion == Init => DeletionInv
  BY StatusAssumption
     DEF Init, LoopInit, TablesInit, DeletionInv, DeletionIsAtomic,
         NoticesReachTheOwner, Confirmed, Queued, DeletionIds, StillUndeleted,
         Undeleted, Routes, DeletionRoutes

LEMMA DeletionAlways == Spec => [](TypeOK /\ OrderInv /\ DeletionInv)
  BY InitOrder, NextKeepsOrder, InitDeletion, NextKeepsDeletion, TypeCorrect, PTL
     DEF Spec

\* Always, the account is deleted exactly when a request of it is confirmed, a notice
\* queued and its identity gone: no cancellation that raced with the confirmation
\* takes the confirmed request back, whatever is pipelined and whatever fails.
THEOREM DeletionAtomic == Spec => []DeletionIsAtomic
  <1>1. DeletionInv => DeletionIsAtomic
    BY DEF DeletionInv
  <1> QED
    BY <1>1, DeletionAlways, PTL

\* Always, a queued notice is addressed to the owner: the address is read before the
\* transaction that erases it, and no other deletion comes between.
THEOREM NoticesAddressed == Spec => []NoticesReachTheOwner
  <1>1. DeletionInv => NoticesReachTheOwner
    BY DEF DeletionInv
  <1> QED
    BY <1>1, DeletionAlways, PTL

\* No step takes a deleted account back.  A passcode verification in flight would; but
\* it commits at its turn 2, and a deletion only at its turn 5.
THEOREM DeletionFinal == Spec => DeletedIsFinal
  <1>1. TypeOK /\ DeletionInv /\ [Next]_vars =>
          [user.status = "deleted" =>
             user'.status = "deleted" /\ user'.email = user.email]_<<user>>
    <2> SUFFICES ASSUME TypeOK, DeletionInv, [Next]_vars, user.status = "deleted",
                        user' # user
                 PROVE  user'.status = "deleted" /\ user'.email = user.email
      OBVIOUS
    <2>1. ASSUME NEW h \in Handlers, Step(h)
          PROVE  user'.status = "deleted" /\ user'.email = user.email
      <3>1. CASE DeletesNothing
        BY <3>1 DEF DeletesNothing
      <3>2. CASE Confirm_Commit(h)
        BY <3>2, CommitDeletes DEF DeletionInv, DeletionIsAtomic
      <3> QED
        BY <2>1, <3>1, <3>2, OnlyCommitDeletes
    <2> QED
      BY <2>1 DEF Next, Receive, Resume, StatementFails, TableFull, Pass, Crash,
                  Suspend, vars, tables
  <1> QED
    BY <1>1, DeletionAlways, PTL DEF Spec, DeletedIsFinal

-----------------------------------------------------------------------------
(* Passcodes and their window *)

LEMMA AtMostOne ==
    ASSUME NEW S, \A a, b \in S : a = b
    PROVE  Cardinality(S) <= 1
  <1>1. CASE S = {}
    BY <1>1, FS_EmptySet
  <1>2. CASE S # {}
    <2>1. PICK a : S = {a}
      BY <1>2
    <2> QED
      BY <2>1, FS_Singleton
  <1> QED
    BY <1>1, <1>2

ActiveInv == \A o, p \in OtpIds : otps[o].st = "active" /\ otps[p].st = "active" => o = p

\* Every step of the system keeps one passcode active at most: creating one needs none.
LEMMA NextKeepsActive == TypeOK /\ ActiveInv /\ [Next]_vars => ActiveInv'
  <1> SUFFICES ASSUME TypeOK, ActiveInv, [Next]_vars PROVE ActiveInv'
    OBVIOUS
  <1>0. HandlersOK /\ DOMAIN otps = OtpIds /\ \A o \in OtpIds : otps[o] \in OtpRow
    BY DEF TypeOK, TablesOK, OtpIds
  <1>1. CASE UNCHANGED otps
    BY <1>1 DEF ActiveInv
  <1>2. ASSUME NEW h \in Handlers, Step(h) PROVE ActiveInv'
    <2>1. CASE Issue_Invalidate(h)
      BY <1>0, <2>1 DEF Issue_Invalidate, ActiveInv, OtpRow
    <2>2. CASE Issue_Create(h)
      BY <1>0, <2>2 DEF Issue_Create, OneActivePerUser, ActiveInv
    <2>3. CASE Verify_Commit(h)
      <3>1. loc[h].active \subseteq OtpIds
        BY <1>0, <2>3, OtpFrames DEF Verify_Commit, Runs, HandlersOK
      <3> QED
        BY <1>0, <2>3, <3>1 DEF Verify_Commit, ActiveInv, OtpRow
    <2>4. UNCHANGED otps \/ Issue_Invalidate(h) \/ Issue_Create(h) \/ Verify_Commit(h)
      BY <1>0, <1>2, LoginTurns, GuardTurns, RecoveryTurns, DeletionTurns, OtpTurns
         DEF Step
    <2> QED
      BY <1>1, <2>1, <2>2, <2>3, <2>4
  <1> QED
    BY <1>1, <1>2
       DEF Next, Receive, Resume, StatementFails, TableFull, Pass, Crash, Suspend,
           vars, tables

\* Always, at most one passcode of the user can be verified, however many requests to
\* send one race: what holds it is the unique index, not the invalidation before it.
THEOREM OneActivePasscode == Spec => []OneActiveOtp
  <1>1. Init => ActiveInv
    BY DEF Init, TablesInit, ActiveInv, OtpIds
  <1>2. ActiveInv => OneActiveOtp
    <2> SUFFICES ASSUME ActiveInv PROVE OneActiveOtp
      OBVIOUS
    <2> QED
      BY AtMostOne DEF ActiveInv, OneActiveOtp
  <1> QED
    BY <1>1, <1>2, NextKeepsActive, TypeCorrect, PTL DEF Spec

\* From the reply of Redis to the new passcode: where several handlers can run together
\* even if no request is pipelined.
Replied == {"otp.counted", "otp.windowed", "otp.allowed", "otp.sequence", "otp.create"}

LEMMA RepliedSteps ==
    ASSUME NEW h \in Handlers, Step(h), pc[h] \in Replied
    PROVE  OtpStep(h)
  <1> USE DEF Runs, Replied
  <1>1. ~LoginStep(h)
    BY DEF LoginStep, Login_FindByEmail, Login_Refuse, Login_Compare,
           Login_CountFailure, Login_Reject, Login_Lock, Login_CleanWindow,
           Login_Match, Login_Stamp, Login_CreateSession
  <1>2. ~GuardStep(h)
    BY DEF GuardStep, Guard_FindSession, Guard_Refuse, Guard_FindUser, Guard_Expel,
           Guard_Pass, Logout_FindSession, Logout_Nothing, Logout_Invalidate,
           Profile_FindUser, Profile_Answer
  <1>3. ~RecoveryStep(h)
    BY DEF RecoveryStep, Recovery_FindByEmail, Recovery_Unknown, Recovery_Insert,
           Recovery_Answer, Reset_FindToken, Reset_Refuse, Reset_Hash, Reset_Commit
  <1>4. ~DeletionStep(h)
    BY DEF DeletionStep, Request_FindUser, Request_NotActive, Request_FindPending,
           Request_AlreadyPending, Request_Insert, Request_Answer,
           Confirm_FindPending, Confirm_Refuse, Confirm_FindUser, Confirm_Commit,
           Cancel_FindPending, Cancel_NotFound, Cancel_Update
  <1> QED
    BY <1>1, <1>2, <1>3, <1>4 DEF Step

\* A handler that was told it counted the first attempt of a window can only go on to
\* set its TTL.
LEMMA FirstAttempt ==
    ASSUME NEW h \in Handlers, Step(h), pc[h] = "otp.counted", loc[h].count = 1
    PROVE  Issue_Expire(h)
  <1>1. OtpStep(h)
    BY RepliedSteps DEF Replied
  <1> QED
    BY <1>1
       DEF OtpStep, Issue_FindUser, Issue_Forbidden, Issue_Incr, Issue_Allow,
           Issue_Limited, Issue_Invalidate, Issue_Sequence, Issue_Create,
           Issue_Conflict, Issue_Answer, Verify_FindUser, Verify_NoUser,
           Verify_FindActive, Verify_Refuse, Verify_Commit, Runs

\* A step that is no fault keeps the promise that an open window is closed.
LEMMA NextKeepsWindow ==
    TypeOK /\ WindowCloses /\ [Next]_vars /\ ~(faults' > faults) => WindowCloses'
  <1> SUFFICES ASSUME TypeOK, WindowCloses, [Next]_vars, ~(faults' > faults),
                      limiter'.count > 0, limiter'.expires = 0
               PROVE  \E h \in Handlers : pc'[h] = "otp.counted" /\ loc'[h].count = 1
    BY DEF WindowCloses
  <1> DEFINE First(h) == pc[h] = "otp.counted" /\ loc[h].count = 1
  <1>0. /\ HandlersOK /\ faults' # faults + 1
        /\ limiter \in [count : 0..(MaxAttempts + 2), expires : Nat]
        /\ clock \in Nat /\ RateWindow \in Nat \ {0} /\ MaxAttempts \in Nat
    BY OtpAssumption, FaultAssumption DEF TypeOK, LimiterOK
  <1>1. ASSUME UNCHANGED limiter PROVE \E h \in Handlers : First(h)
    BY <1>1 DEF WindowCloses
  <1>2. ASSUME NEW h \in Handlers, Step(h)
        PROVE  \E g \in Handlers : pc'[g] = "otp.counted" /\ loc'[g].count = 1
    <2>0. \A g \in Handlers \ {h} : pc'[g] = pc[g] /\ loc'[g] = loc[g]
      BY <1>0, <1>2, StepTurns DEF TakesTurn, HandlersOK
    <2>1. CASE Issue_Expire(h)
      BY <1>0, <2>1 DEF Issue_Expire, Expire, Expired
    <2>2. CASE Issue_Incr(h)
      <3>1. pc'[h] = "otp.counted" /\ loc'[h] = [count |-> limiter'.count]
        BY <1>0, <2>2 DEF Issue_Incr, Park, Goto, HandlersOK
      <3>2. CASE limiter.count > 0 /\ limiter.expires = 0
        <4>1. PICK g \in Handlers : First(g)
          BY <3>2 DEF WindowCloses
        <4>2. g # h
          BY <2>2, <4>1 DEF Issue_Incr, Runs
        <4> QED
          BY <2>0, <4>1, <4>2
      <3>3. CASE ~(limiter.count > 0 /\ limiter.expires = 0)
        <4>1. CASE Expired(limiter)
          <5>1. limiter' = [count |-> 1, expires |-> 0]
            BY <1>0, <2>2, <4>1 DEF Issue_Incr, Incr
          <5> QED
            BY <3>1, <5>1
        <4>2. CASE ~Expired(limiter)
          <5>1. limiter'.expires = limiter.expires
            BY <1>0, <2>2, <4>2 DEF Issue_Incr, Incr
          <5>2. limiter.count = 0
            BY <1>0, <3>3, <5>1
          <5>3. limiter'.count = 1
            BY <1>0, <2>2, <4>2, <5>2 DEF Issue_Incr, Incr
          <5> QED
            BY <3>1, <5>3
        <4> QED
          BY <4>1, <4>2
      <3> QED
        BY <3>2, <3>3
    <2>3. CASE UNCHANGED limiter
      <3>1. PICK g \in Handlers : First(g)
        BY <1>1, <2>3
      <3>2. CASE g = h
        BY <1>2, <2>1, <3>1, <3>2, FirstAttempt
      <3>3. CASE g # h
        BY <2>0, <3>1, <3>3
      <3> QED
        BY <3>2, <3>3
    <2> QED
      BY <1>0, <1>2, <2>1, <2>2, <2>3, OtpTurns DEF Step
  <1>3. ASSUME NEW h \in Handlers, TableFull(h)
        PROVE  \A g \in Handlers : First(g) => pc'[g] = pc[g] /\ loc'[g] = loc[g]
    <2>1. pc[h] # "otp.counted"
      BY <1>3 DEF TableFull, Runs
    <2> QED
      BY <1>0, <1>3, <2>1 DEF TableFull, Respond, Goto, HandlersOK
  <1>4. ASSUME \A h \in Handlers : ~Step(h)
        PROVE  \E g \in Handlers : pc'[g] = "otp.counted" /\ loc'[g].count = 1
    <2>1. \A h \in Handlers : First(h) => pc'[h] = pc[h] /\ loc'[h] = loc[h]
      <3>1. CASE \E h \in Handlers : TableFull(h)
        BY <1>3, <3>1
      <3>2. CASE Receive
        BY <1>0, <1>4, <3>2, OtherSteps, Arrivals DEF Receive, Arrive
      <3> QED
        BY <1>0, <1>4, <3>1, <3>2
           DEF Next, StatementFails, Crash, Resume, Wake, Pass, Tick, Suspend, vars,
               loopVars
    <2> QED
      BY <1>0, <1>1, <1>4, <2>1, OtherSteps
  <1> QED
    BY <1>2, <1>4

\* Only a fault leaves a counting key without a TTL: unless the command fails or the
\* process dies, the request that started the window sets it, however the replies of
\* Redis are read.
THEOREM WindowsOpenByFault == Spec => WindowOpensByFault
  <1>1. TypeOK /\ [Next]_vars => [WindowCloses /\ ~WindowCloses' => faults' > faults]_vars
    BY NextKeepsWindow
  <1> QED
    BY <1>1, TypeCorrect, PTL DEF Spec, WindowOpensByFault

-----------------------------------------------------------------------------
(* The life cycle of sessions *)

VerifyLabels == {"otp.verify", "otp.verify.user", "otp.verify.row"}

\* A login that goes on has found the account past activation; a logout, its session.
Found(h) ==
    /\ \/ pc[h] = "login.row" /\ loc[h].row.status = "active"
       \/ pc[h] \in AccountLabels
       => user.status # "pending"
    /\ pc[h] = "logout.session" /\ loc[h].row.st = "live" =>
         sessions[loc[h].token].st # "absent"
    /\ pc[h] \in VerifyLabels => "otp.verify" \in Ops

\* A pending account has no session, and what it has found a handler finds again.
LifeInv ==
    /\ \A h \in Handlers : Found(h)
    /\ user.status = "pending" => \A s \in Tokens : sessions[s].st = "absent"
    /\ user.status = "suspended" => "suspend" \in Ops

\* No account becomes pending, and no row of a session goes away.
Onward ==
    /\ user'.status = "pending" => user.status = "pending"
    /\ user'.status = "suspended" => user.status = "suspended"
    /\ \A s \in Tokens : sessions'[s].st = "absent" => sessions[s].st = "absent"

\* What a step does to the sessions: it revokes live ones, or inserts one.
Revokes ==
    /\ DOMAIN sessions' = Tokens
    /\ \A s \in Tokens :
         \/ sessions'[s] = sessions[s]
         \/ sessions[s].st = "live" /\ sessions'[s].st = "revoked"

LEMMA StepSessions ==
    ASSUME TypeOK, LifeInv, NEW h \in Handlers, Step(h)
    PROVE  Revokes \/ Login_CreateSession(h)
  <1>0. /\ HandlersOK /\ DOMAIN sessions = Tokens
        /\ \A s \in Tokens : sessions[s] \in SessionRow
    BY DEF TypeOK, TablesOK, Tokens
  <1>1. CASE UNCHANGED sessions
    BY <1>0, <1>1 DEF Revokes
  <1>2. CASE InvalidateAllForUser
    BY <1>0, <1>2 DEF InvalidateAllForUser, Revokes, Revoked, SessionRow
  <1>3. CASE Logout_Invalidate(h)
    <2>1. /\ loc[h].token \in Tokens /\ sessions[loc[h].token].st # "absent"
          /\ MarkInvalidated(loc[h].token)
      BY <1>0, <1>3, GuardFrames
         DEF Logout_Invalidate, Runs, Dead, LifeInv, Found, HandlersOK
    <2> QED
      BY <1>0, <2>1 DEF MarkInvalidated, Revokes, SessionRow
  <1> QED
    BY <1>0, <1>1, <1>2, <1>3, LoginTurns, GuardTurns, RecoveryTurns, DeletionTurns,
       OtpTurns DEF Step, Guard_Expel, Reset_Commit, Confirm_Commit

\* What a step does to the status: it activates or deletes the account, or nothing.
LEMMA StepStatus ==
    ASSUME TypeOK, NEW h \in Handlers, Step(h)
    PROVE  \/ UNCHANGED user.status
           \/ Verify_Commit(h) /\ user'.status = "active"
           \/ Confirm_Commit(h) /\ user'.status = "deleted"
  <1>0. HandlersOK /\ user \in UserRow
    BY DEF TypeOK, TablesOK
  <1>1. CASE Verify_Commit(h)
    BY <1>0, <1>1 DEF Verify_Commit, UserRow
  <1>2. CASE Confirm_Commit(h)
    BY <1>0, <1>2 DEF Confirm_Commit, Anonymise, UserRow
  <1> QED
    BY <1>0, <1>1, <1>2, LoginTurns, GuardTurns, RecoveryTurns, DeletionTurns,
       OtpTurns DEF Step

LEMMA StepOnward ==
    ASSUME TypeOK, LifeInv, NEW h \in Handlers, Step(h)
    PROVE  Onward
  <1>1. ASSUME NEW s \in Tokens, sessions'[s].st = "absent"
        PROVE  sessions[s].st = "absent"
    <2>1. CASE Revokes
      BY <1>1, <2>1 DEF Revokes
    <2>2. CASE Login_CreateSession(h)
      BY <1>1, <2>2 DEF Login_CreateSession, InsertSession, TypeOK, TablesOK, Tokens
    <2> QED
      BY <2>1, <2>2, StepSessions
  <1> QED
    BY <1>1, StepStatus DEF Onward

\* What a handler has just found is so.
LEMMA JustFound ==
    ASSUME TypeOK, LifeInv, NEW h \in Handlers, Step(h)
    PROVE  Found(h)'
  <1>0. HandlersOK /\ Found(h) /\ user \in UserRow /\ DOMAIN sessions = Tokens
    BY DEF TypeOK, TablesOK, Tokens, LifeInv
  <1> USE DEF Runs, Found, AccountLabels, VerifyLabels
  <1>1. CASE LoginStep(h)
    <2>0. UNCHANGED user.status
      BY <1>1, LoginTurns
    <2>1. CASE pc'[h] = "login.row"
      BY <1>0, <1>1, <2>1, LoginTurns
         DEF Login_FindByEmail, Await, Goto, HandlersOK, tables
    <2>2. CASE pc'[h] = "login.compared"
      BY <1>0, <1>1, <2>0, <2>2, LoginTurns DEF Login_Compare
    <2>3. CASE pc'[h] \in AccountLabels \ {"login.compared"}
      BY <1>0, <1>1, <2>0, <2>3, LoginTurns
    <2> QED
      BY <1>1, <2>1, <2>2, <2>3, LoginTurns
  <1>2. CASE GuardStep(h)
    <2>1. CASE pc'[h] = "logout.session"
      BY <1>0, <1>2, <2>1, GuardTurns
         DEF Logout_FindSession, Await, Goto, HandlersOK, tables
    <2> QED
      BY <1>0, <1>2, <2>1, GuardTurns DEF Routes, DeletionRoutes
  <1>3. CASE RecoveryStep(h)
    BY <1>3, RecoveryTurns
  <1>4. CASE DeletionStep(h)
    BY <1>0, <1>4, DeletionTurns
  <1>5. CASE OtpStep(h)
    <2>1. CASE pc'[h] = "otp.verify.user"
      BY <1>0, <1>5, <2>1, OtpTurns DEF Verify_FindUser
    <2>2. CASE pc'[h] = "otp.verify.row"
      BY <1>0, <1>5, <2>2, OtpTurns DEF Verify_FindActive
    <2> QED
      BY <1>0, <1>5, <2>1, <2>2, OtpTurns
  <1> QED
    BY <1>1, <1>2, <1>3, <1>4, <1>5 DEF Step

\* A handler that a step leaves alone finds what it found.
LEMMA StillFound ==
    ASSUME TypeOK, Onward, NEW g \in Handlers, Found(g),
           pc'[g] = pc[g], loc'[g] = loc[g]
    PROVE  Found(g)'
  <1>1. pc[g] = "logout.session" => loc[g].token \in Tokens
    BY GuardFrames DEF TypeOK, HandlersOK
  <1> QED
    BY <1>1 DEF Found, Onward

\* Every step of the system keeps the invariant.
LEMMA NextKeepsLife == TypeOK /\ LifeInv /\ [Next]_vars => LifeInv'
  <1> SUFFICES ASSUME TypeOK, LifeInv, [Next]_vars PROVE LifeInv'
    OBVIOUS
  <1>0. HandlersOK /\ user \in UserRow
    BY DEF TypeOK, TablesOK
  <1>1. ASSUME NEW h \in Handlers, Step(h) PROVE LifeInv'
    <2>1. \A g \in Handlers \ {h} : pc'[g] = pc[g] /\ loc'[g] = loc[g]
      BY <1>0, <1>1, StepTurns DEF TakesTurn, HandlersOK
    <2>2. \A g \in Handlers : Found(g)'
      BY <1>1, <2>1, JustFound, StepOnward, StillFound DEF LifeInv
    <2>3. ASSUME user'.status = "pending", NEW s \in Tokens
          PROVE  sessions'[s].st = "absent"
      <3>1. user.status = "pending"
        BY <1>1, <2>3, StepOnward DEF Onward
      <3>2. ~Login_CreateSession(h)
        BY <3>1 DEF Login_CreateSession, Runs, LifeInv, Found, AccountLabels
      <3> QED
        BY <1>1, <3>1, <3>2, StepSessions DEF Revokes, LifeInv
    <2> QED
      BY <1>1, <2>2, <2>3, StepOnward DEF LifeInv, Onward
  <1>2. ASSUME \A h \in Handlers : ~Step(h) PROVE LifeInv'
    <2>1. /\ UNCHANGED sessions
          /\ user'.status = "pending" => user.status = "pending"
          /\ user'.status = "suspended" =>
               user.status = "suspended" \/ "suspend" \in Ops
      BY <1>0, <1>2, OtherSteps DEF Suspend, UserRow
    <2>2. ASSUME NEW g \in Handlers PROVE Found(g)'
      <3>1. CASE pc'[g] = pc[g] /\ loc'[g] = loc[g]
        <4>1. Found(g)
          BY DEF LifeInv
        <4> QED
          BY <2>1, <3>1, <4>1 DEF Found
      <3>2. CASE pc'[g] = "idle" \/ \E r \in Requests : pc'[g] = r.op
        BY <3>2, Arrivals DEF Found, AccountLabels, VerifyLabels
      <3> QED
        BY <1>0, <1>2, <3>1, <3>2, OtherSteps
    <2> QED
      BY <2>1, <2>2 DEF LifeInv
  <1> QED
    BY <1>1, <1>2

LEMMA InitLife == Init => LifeInv
  BY StatusAssumption, TablesAssumption
     DEF Init, LoopInit, TablesInit, LifeInv, Found, AccountLabels, VerifyLabels,
         Tokens

-----------------------------------------------------------------------------
(* The refinement *)

\* The refinement mapping of Lifecycle.
Open == user.status \in {"pending", "active"}
Phase == [s \in Tokens |-> IF sessions[s].st = "absent" THEN "unissued"
                           ELSE IF Usable(s) THEN "usable" ELSE "over"]

\* A step that ends sessions, or none, implements End.
LEMMA ImplementsEnd ==
    ASSUME Open' = Open,
           \A s \in Tokens : \/ Phase'[s] = Phase[s]
                             \/ Phase[s] = "usable" /\ Phase'[s] = "over"
    PROVE  Lifecycle!Next
  <1>1. PICK ended : ended = {s \in Tokens : Phase'[s] # Phase[s]}
    OBVIOUS
  <1>2. Phase' = [s \in Tokens |-> IF s \in ended THEN "over" ELSE Phase[s]]
    <2>1. \A s \in Tokens : Phase'[s] = IF s \in ended THEN "over" ELSE Phase[s]
      BY <1>1
    <2> QED
      BY <2>1 DEF Phase
  <1>3. Lifecycle!End(ended)
    BY <1>2 DEF Lifecycle!End, Open, Phase
  <1>4. ended \in SUBSET Lifecycle!Usable
    BY <1>1 DEF Lifecycle!Usable, Phase
  <1> QED
    BY <1>3, <1>4 DEF Lifecycle!Next

\* A step that closes the account and ends every usable session implements Close.
LEMMA ImplementsClose ==
    ASSUME Open, ~Open',
           \A s \in Tokens :
             Phase'[s] = IF Phase[s] = "usable" THEN "over" ELSE Phase[s]
    PROVE  Lifecycle!Next
  <1> DEFINE usable == {s \in Tokens : Phase[s] = "usable"}
  <1>1. Phase' = [s \in Tokens |-> IF s \in usable THEN "over" ELSE Phase[s]]
    BY DEF Phase
  <1>2. Lifecycle!Close
    BY <1>1 DEF Lifecycle!Close, Lifecycle!Usable, Open, Phase
  <1> QED
    BY <1>2 DEF Lifecycle!Next

\* A step that inserts a session implements Issue.
LEMMA ImplementsIssue ==
    ASSUME NEW s \in Tokens, Open' = Open, Phase[s] = "unissued",
           Phase'[s] = IF Open THEN "usable" ELSE "over",
           \A t \in Tokens \ {s} : Phase'[t] = Phase[t]
    PROVE  Lifecycle!Next
  <1>1. Phase' = [Phase EXCEPT ![s] = IF Open THEN "usable" ELSE "over"]
    BY DEF Phase
  <1>2. Lifecycle!Issue(s)
    BY <1>1 DEF Lifecycle!Issue, Open, Phase
  <1> QED
    BY <1>2 DEF Lifecycle!Next

\* The sessions go on in every step that no handler takes: the clock can end them, a
\* suspension closes the account.
LEMMA OtherStepsImplement ==
    ASSUME TypeOK, [Next]_vars, \A h \in Handlers : ~Step(h)
    PROVE  Lifecycle!Next
  <1>0. HandlersOK /\ UNCHANGED sessions /\ clock \in Nat /\ user \in UserRow
    BY OtherSteps DEF TypeOK, TablesOK
  <1>1. CASE UNCHANGED user
    <2>1. UNCHANGED clock \/ clock' = clock + 1
      BY <1>0, OtherSteps DEF Pass, Tick
    <2>2. ASSUME NEW s \in Tokens
          PROVE  Usable(s)' => Usable(s)
      <3>1. sessions[s].expires \in Nat
        BY DEF TypeOK, TablesOK, Tokens, SessionRow
      <3> QED
        BY <1>0, <1>1, <2>1, <3>1 DEF Usable
    <2> QED
      BY <1>0, <1>1, <2>2, ImplementsEnd DEF Phase, Open
  <1>2. CASE Suspend
    <2>1. user.status = "active" /\ user'.status = "suspended"
      BY <1>0, <1>2 DEF Suspend, UserRow
    <2> QED
      BY <1>0, <2>1, ImplementsClose DEF Phase, Open, Usable
  <1> QED
    BY <1>0, <1>1, <1>2, OtherSteps

\* A commit of a deletion closes the account, if it is open.
LEMMA CommitImplements ==
    ASSUME TypeOK, LifeInv, NEW h \in Handlers, Confirm_Commit(h)
    PROVE  Lifecycle!Next
  <1>0. /\ user \in UserRow
        /\ \A s \in Tokens : sessions[s] \in SessionRow
    BY DEF TypeOK, TablesOK, Tokens
  <1>1. user'.status = "deleted"
    BY <1>0 DEF Confirm_Commit, Anonymise, UserRow
  <1>2. \A s \in Tokens : sessions'[s] = Revoked(sessions[s])
    BY DEF Confirm_Commit, InvalidateAllForUser, TypeOK, TablesOK, Tokens
  <1>3. \A s \in Tokens : /\ ~Usable(s)'
                          /\ sessions'[s].st = "absent" <=> sessions[s].st = "absent"
    BY <1>0, <1>1, <1>2 DEF Usable, Revoked, SessionRow
  <1>4. \A s \in Tokens : Phase'[s] = IF Phase[s] = "usable" THEN "over" ELSE Phase[s]
    BY <1>3 DEF Phase
  <1>5. CASE Open
    BY <1>1, <1>4, <1>5, ImplementsClose DEF Open
  <1>6. CASE ~Open
    <2>1. \A s \in Tokens : Phase[s] # "usable"
      BY <1>6 DEF Open, Usable, Phase
    <2> QED
      BY <1>1, <1>4, <1>6, <2>1, ImplementsEnd DEF Open
  <1> QED
    BY <1>5, <1>6

\* A login issues its session.
LEMMA LoginImplements ==
    ASSUME TypeOK, LifeInv, NEW h \in Handlers, Login_CreateSession(h),
           UNCHANGED <<user, clock>>
    PROVE  Lifecycle!Next
  <1>0. clock \in Nat /\ user.status \in Statuses /\ DOMAIN sessions = Tokens
    BY DEF TypeOK, TablesOK, Tokens, UserRow
  <1>1. user.status # "pending"
    BY DEF Login_CreateSession, Runs, LifeInv, Found, AccountLabels
  <1>2. PICK s \in Tokens :
          /\ NextRow(sessions, s)
          /\ sessions' = [sessions EXCEPT ![s] =
                            [st |-> "live", expires |-> clock + SessionTTL,
                             checked |-> loc[h].hash, stored |-> user.hash]]
    BY <1>0 DEF Login_CreateSession, InsertSession
  <1>3. Phase[s] = "unissued" /\ Open' = Open
    BY <1>2 DEF Phase, NextRow, Open
  <1>4. /\ sessions'[s].st = "live" /\ clock' < sessions'[s].expires
        /\ \A t \in Tokens \ {s} : sessions'[t] = sessions[t]
    BY <1>0, <1>2, LoginAssumption
  <1>5. Phase'[s] = IF Open THEN "usable" ELSE "over"
    BY <1>0, <1>1, <1>4 DEF Phase, Open, Usable
  <1>6. \A t \in Tokens \ {s} : Phase'[t] = Phase[t]
    BY <1>4 DEF Phase, Usable
  <1> QED
    BY <1>3, <1>5, <1>6, ImplementsIssue

\* So does every step of a handler, if a verification finds the account open.
LEMMA StepImplements ==
    ASSUME TypeOK, LifeInv, NEW h \in Handlers, Step(h),
           Verify_Commit(h) => Open
    PROVE  Lifecycle!Next
  <1>0. UNCHANGED clock
    BY DEF Step
  <1>1. ASSUME Revokes, UNCHANGED user.status
        PROVE  Lifecycle!Next
    <2>1. \A s \in Tokens : \/ Phase'[s] = Phase[s]
                            \/ Phase[s] = "usable" /\ Phase'[s] = "over"
      BY <1>0, <1>1 DEF Revokes, Phase, Usable
    <2> QED
      BY <1>1, <2>1, ImplementsEnd DEF Open
  <1>2. CASE Confirm_Commit(h)
    BY <1>2, CommitImplements
  <1>3. CASE Login_CreateSession(h)
    BY <1>0, <1>3, LoginImplements DEF Login_CreateSession
  <1>4. CASE Verify_Commit(h)
    <2>1. UNCHANGED sessions /\ user'.status = "active"
      BY <1>4 DEF Verify_Commit, TypeOK, TablesOK, UserRow
    <2>2. user.status = "pending" => \A s \in Tokens : sessions[s].st = "absent"
      BY DEF LifeInv
    <2>3. Open' = Open /\ \A s \in Tokens : Phase'[s] = Phase[s]
      BY <1>0, <1>4, <2>1, <2>2 DEF Open, Phase, Usable
    <2> QED
      BY <2>3, ImplementsEnd
  <1> QED
    BY <1>1, <1>2, <1>3, <1>4, StepSessions, StepStatus

\* If no account is ever suspended, or none verified by passcode, a verification that
\* goes on finds the account open.
LEMMA VerifiesOpen ==
    ASSUME "suspend" \notin Ops \/ "otp.verify" \notin Ops,
           TypeOK, DeletionInv, LifeInv, NEW h \in Handlers, Verify_Commit(h)
    PROVE  Open
  <1>1. "otp.verify" \in Ops /\ user.status # "deleted"
    BY DEF Verify_Commit, Runs, LifeInv, Found, VerifyLabels, DeletionInv,
           StillUndeleted, Undeleted
  <1> QED
    BY <1>1 DEF LifeInv, Open, TypeOK, TablesOK, UserRow, Statuses

\* The API implements the life cycle of sessions: one that was logged out, expired,
\* reset away or deleted with its account is never usable again, and a closed account
\* never opens, whatever is pipelined and whatever fails.  Nothing in the repository
\* suspends an account; if an operator did, a verification already past its check would
\* activate it again.
THEOREM LifecycleImplemented ==
    ASSUME "suspend" \notin Ops \/ "otp.verify" \notin Ops
    PROVE  Spec => ImplementsLifecycle
  <1>1. Init => Lifecycle!Init
    BY StatusAssumption, TablesAssumption
       DEF Init, LoopInit, TablesInit, Lifecycle!Init, Usable, Tokens
  <1>2. TypeOK /\ DeletionInv /\ LifeInv /\ [Next]_vars
          => Lifecycle!Next \/ UNCHANGED Lifecycle!vars
    BY OtherStepsImplement, StepImplements, VerifiesOpen
  <1>3. Spec => []LifeInv
    BY InitLife, NextKeepsLife, TypeCorrect, PTL DEF Spec
  <1> QED
    BY <1>1, <1>2, <1>3, DeletionAlways, PTL
       DEF Spec, ImplementsLifecycle, Lifecycle!Spec

-----------------------------------------------------------------------------
(* When no request is pipelined *)

LEMMA Least ==
    ASSUME NEW S, S \subseteq Nat, S # {}
    PROVE  \E x \in S : \A y \in S : ~(y < x)
  <1> DEFINE R == {pair \in Nat \X Nat : pair[1] < pair[2]}
  <1>1. IsWellFoundedOn(R, Nat)
    BY NatLessThanWellFounded DEF OpToRel
  <1>2. PICK x \in S : \A y \in S : ~(<<y, x>> \in R)
    <2> HIDE DEF R
    <2> QED
      BY <1>1, WFMin
  <1> QED
    BY <1>2

\* The first row with a status is selected, if there is one.
LEMMA Selects ==
    ASSUME NEW table, NEW n \in Nat, DOMAIN table = 1..n, NEW st,
           Selected(table, st) = {}
    PROVE  \A i \in 1..n : table[i].st # st
  <1> DEFINE T == {i \in 1..n : table[i].st = st}
  <1> SUFFICES ASSUME T # {} PROVE FALSE
    OBVIOUS
  <1>1. T \subseteq Nat
    OBVIOUS
  <1>2. PICK i \in T : \A j \in T : ~(j < i)
    <2> HIDE DEF T
    <2> QED
      BY <1>1, Least
  <1>3. i \in Selected(table, st)
    BY <1>2 DEF Selected
  <1> QED
    BY <1>3

\* A handler that stays in the queue stays on its side of the reply of Redis.
LEMMA KeepsSide ==
    ASSUME TypeOK, NEW h \in Handlers, Step(h), pc'[h] \notin Parked \cup {"idle"}
    PROVE  pc'[h] \in Replied <=> pc[h] \in Replied
  <1>0. HandlersOK
    BY DEF TypeOK
  <1>1. ASSUME pc[h] \in Replied PROVE pc'[h] \in Replied
    <2>1. OtpStep(h)
      BY <1>1, RepliedSteps
    <2>2. ~Issue_FindUser(h) /\ ~Verify_FindUser(h) /\ ~Verify_FindActive(h)
      BY <1>1 DEF Replied, Issue_FindUser, Verify_FindUser, Verify_FindActive, Runs
    <2>3. pc'[h] \in {"idle", "otp.counted", "otp.windowed", "otp.allowed",
                      "otp.sequence", "otp.create", "otp.dispatched"}
      BY <1>0, <2>1, <2>2, OtpTurns
    <2> QED
      BY <2>3 DEF Replied, Parked
  <1>2. ASSUME pc'[h] \in Replied PROVE pc[h] \in Replied
    <2>1. OtpStep(h)
      BY <1>0, <1>2, LoginTurns, GuardTurns, RecoveryTurns, DeletionTurns
         DEF Step, Replied, AccountLabels, Routes, DeletionRoutes
    <2> USE Turns DEF Replied, Parked, Runs
    <2>2. CASE Issue_FindUser(h) \/ Verify_FindUser(h) \/ Verify_FindActive(h)
      BY <1>0, <1>2, <2>2
         DEF Issue_FindUser, Verify_FindUser, Verify_FindActive, Await, Goto, HandlersOK
    <2>3. CASE Issue_Forbidden(h) \/ Verify_NoUser(h) \/ Verify_Refuse(h)
                 \/ Verify_Commit(h) \/ Issue_Answer(h)
      BY <1>0, <1>2, <2>3
         DEF Issue_Forbidden, Verify_NoUser, Verify_Refuse, Verify_Commit, Issue_Answer,
             Respond, Goto, HandlersOK
    <2>4. CASE Issue_Incr(h)
      BY <1>0, <2>4 DEF Issue_Incr, Park, Goto, HandlersOK
    <2> QED
      BY <2>1, <2>2, <2>3, <2>4
         DEF OtpStep, Issue_Expire, Issue_Allow, Issue_Limited, Issue_Invalidate,
             Issue_Sequence, Issue_Create, Issue_Conflict
  <1> QED
    BY <1>1, <1>2

\* Several handlers run together only after replies that Redis sent together.
Alone == Len(ready) > 1 => \A h \in Range(ready) : pc[h] \in Replied

LEMMA StepKeepsAlone ==
    ASSUME TypeOK, OrderInv, Alone, NEW h \in Handlers, Step(h)
    PROVE  Alone'
  <1> SUFFICES ASSUME Len(ready') > 1, NEW g \in Range(ready')
               PROVE  pc'[g] \in Replied
    BY DEF Alone
  <1>0. HandlersOK /\ TakesTurn(h, pc'[h]) /\ QueueInv
    BY StepTurns DEF TypeOK, OrderInv
  <1>1. /\ ready \in Seq(Handlers) /\ ready # <<>> /\ Head(ready) = h
        /\ ready' \in {Tail(ready), Append(Tail(ready), h)}
        /\ h \in Range(ready)
    BY <1>0, QueueFacts DEF TakesTurn, HandlersOK
  <1>2. Len(ready) > 1
    BY <1>1
  <1>3. g \in Range(ready) /\ g \in Handlers
    <2>0. ready' \in Seq(Handlers)
      BY <1>1
    <2>1. Range(ready') \subseteq Handlers
      BY <2>0 DEF Range
    <2>2. CASE g = h
      BY <1>1, <2>2
    <2>3. CASE g # h
      BY <1>0, <1>1, <2>1, <2>3, QueueFacts
    <2> QED
      BY <2>2, <2>3
  <1>4. pc[g] \in Replied /\ pc[h] \in Replied
    BY <1>1, <1>2, <1>3 DEF Alone
  <1>5. CASE g # h
    BY <1>0, <1>3, <1>4, <1>5 DEF TakesTurn, HandlersOK
  <1>6. CASE g = h
    <2>1. pc'[h] \notin Parked \cup {"idle"}
      <3>1. ready' # Tail(ready)
        BY <1>0, <1>1, <1>6, QueueFacts
      <3>2. Turn(pc'[h]) = Turn(pc[h]) + 1 /\ Turn(pc[h]) \in 0..5
        BY <1>0, <3>1, TurnValues DEF TakesTurn
      <3> QED
        BY <3>2, TurnValues
    <2> QED
      BY <1>4, <1>6, <2>1, KeepsSide
  <1> QED
    BY <1>5, <1>6

LEMMA NextKeepsAlone ==
    ASSUME MaxBatch = 1
    PROVE  TypeOK /\ OrderInv /\ Alone /\ [Next]_vars => Alone'
  <1> SUFFICES ASSUME TypeOK, OrderInv, Alone, [Next]_vars PROVE Alone'
    OBVIOUS
  <1>0. HandlersOK /\ QueueInv
    BY DEF TypeOK, OrderInv
  <1>1. ASSUME NEW h \in Handlers, StatementFails(h) \/ TableFull(h) PROVE Alone'
    <2>1. /\ Respond(h) /\ ready # <<>> /\ Head(ready) = h
          /\ ready' = Tail(ready) /\ ready \in Seq(Handlers)
      BY <1>0, <1>1 DEF StatementFails, TableFull, Runs, Respond, HandlersOK
    <2> SUFFICES ASSUME Len(ready') > 1, NEW g \in Range(ready')
                 PROVE  pc'[g] \in Replied
      BY DEF Alone
    <2>2. Len(ready) > 1 /\ ready' \in Seq(Handlers)
      BY <2>1
    <2>3. g \in Handlers
      BY <2>2 DEF Range
    <2>4. g \in Range(ready) /\ g # h
      BY <1>0, <2>1, <2>3, QueueFacts
    <2> QED
      BY <1>0, <2>1, <2>2, <2>3, <2>4 DEF Alone, Respond, Goto, HandlersOK
  <1>2. CASE Receive
    <2>1. PICK batch \in Batches(MaxBatch) : ready' = batch
      BY <1>2 DEF Receive, Arrive
    <2>2. PICK n \in 1..MaxBatch : Len(batch) = n
      BY <2>1, BatchTyped, LoopAssumption
    <2>3. Len(ready') = 1
      BY <2>1, <2>2
    <2> QED
      BY <2>3 DEF Alone
  <1>3. CASE Resume
    <2>1. PICK batch \in Batches(MaxReplies) :
            /\ Len(batch) > 1 => \A i \in DOMAIN batch : pc[batch[i]] \in RedisLabels
            /\ ready' = batch
      BY <1>3 DEF Resume, Wake
    <2>2. UNCHANGED pc
      BY <1>3 DEF Resume, Wake
    <2> QED
      BY <2>1, <2>2 DEF Alone, Range, RedisLabels, Replied
  <1>4. CASE Crash
    BY <1>4 DEF Crash, Restart, Alone, Range
  <1>5. CASE Pass \/ Suspend \/ UNCHANGED vars
    BY <1>5 DEF Pass, Tick, Suspend, vars, loopVars, Alone
  <1> QED
    BY <1>1, <1>2, <1>3, <1>4, <1>5, StepKeepsAlone DEF Next

\* A handler at one of these labels is about to act on what it has just read.
Acting == {"guard.session", "guard.user", "deletion.request.pending",
           "deletion.confirm.pending", "deletion.cancel.pending",
           "deletion.confirm.user", "otp.verify.row"} \cup Routes

\* What it has read is what is stored.
Fresh(h) ==
    /\ pc[h] = "guard.session" => loc[h].row = sessions[loc[h].token]
    /\ pc[h] \in {"guard.user"} \cup Routes => sessions[loc[h].token].st = "live"
    /\ pc[h] = "guard.user" /\ "suspend" \notin Ops => loc[h].status = user.status
    /\ pc[h] \in Routes /\ "suspend" \notin Ops => user.status = "active"
    /\ pc[h] \in {"deletion.request.pending", "deletion.confirm.pending",
                  "deletion.cancel.pending"}
         => loc[h].pending = Selected(deletions, "pending")
    /\ pc[h] = "deletion.confirm.user" => user.status # "deleted"
    /\ pc[h] = "otp.verify.row" => loc[h].active = Selected(otps, "active")

\* While a handler runs that is not woken by Redis, no other is about to act.
LEMMA ActsAlone ==
    ASSUME TypeOK, OrderInv, Alone, NEW h \in Handlers, ready # <<>>, Head(ready) = h,
           NEW g \in Handlers, g # h
    PROVE  pc[g] \notin Acting
  <1> SUFFICES ASSUME pc[g] \in Acting PROVE FALSE
    OBVIOUS
  <1>1. pc[g] \notin Parked \cup {"idle"} /\ pc[g] \notin Replied
    BY DEF Acting, Parked, Replied, Routes, DeletionRoutes
  <1>2. g \in Range(ready) /\ h \in Range(ready) /\ ready \in Seq(Handlers)
    BY <1>1, QueueFacts DEF OrderInv, Present, TypeOK, HandlersOK
  <1>3. Len(ready) > 1
    <2>1. PICK i \in 1..Len(ready) : ready[i] = g
      BY <1>2 DEF Range
    <2>2. i # 1
      BY <1>2, <2>1
    <2> QED
      BY <1>2, <2>1, <2>2
  <1> QED
    BY <1>1, <1>2, <1>3 DEF Alone

\* What a handler has just read is stored.
LEMMA JustRead ==
    ASSUME TypeOK, DeletionInv, NEW h \in Handlers, Step(h), Fresh(h)
    PROVE  Fresh(h)'
  <1>0. HandlersOK
    BY DEF TypeOK
  <1> USE DEF Runs, Fresh, Routes, DeletionRoutes
  <1>1. CASE LoginStep(h)
    BY <1>1, LoginTurns DEF AccountLabels
  <1>2. CASE GuardStep(h)
    <2>1. CASE pc'[h] = "guard.session"
      BY <1>0, <1>2, <2>1, GuardTurns
         DEF Guard_FindSession, Await, Goto, HandlersOK, tables
    <2>2. CASE pc'[h] = "guard.user"
      BY <1>0, <1>2, <2>2, GuardTurns
         DEF Guard_FindUser, Await, Goto, HandlersOK, Dead, tables
    <2>3. CASE pc'[h] \in Routes
      BY <1>0, <1>2, <2>3, GuardTurns
         DEF Guard_Pass, Await, Goto, HandlersOK, tables
    <2> QED
      BY <1>0, <1>2, <2>1, <2>2, <2>3, GuardTurns
  <1>3. CASE RecoveryStep(h)
    BY <1>3, RecoveryTurns
  <1>4. CASE DeletionStep(h)
    <2>1. CASE pc'[h] = "deletion.request.pending"
      BY <1>0, <1>4, <2>1, DeletionTurns
         DEF Request_FindPending, FindPending, Await, Goto, HandlersOK, tables
    <2>2. CASE pc'[h] = "deletion.confirm.pending"
      BY <1>0, <1>4, <2>2, DeletionTurns
         DEF Confirm_FindPending, FindPending, Await, Goto, HandlersOK, tables
    <2>3. CASE pc'[h] = "deletion.cancel.pending"
      BY <1>0, <1>4, <2>3, DeletionTurns
         DEF Cancel_FindPending, FindPending, Await, Goto, HandlersOK, tables
    <2>4. CASE pc'[h] = "deletion.confirm.user"
      BY <1>0, <1>4, <2>4, DeletionTurns
         DEF Confirm_FindUser, DeletionInv, StillUndeleted, Undeleted, tables
    <2> QED
      BY <1>0, <1>4, <2>1, <2>2, <2>3, <2>4, DeletionTurns
  <1>5. CASE OtpStep(h)
    <2>1. CASE pc'[h] = "otp.verify.row"
      BY <1>0, <1>5, <2>1, OtpTurns
         DEF Verify_FindActive, Await, Goto, HandlersOK, tables
    <2> QED
      BY <1>0, <1>5, <2>1, OtpTurns
  <1> QED
    BY <1>1, <1>2, <1>3, <1>4, <1>5 DEF Step

FreshInv == \A h \in Handlers : Fresh(h)

LEMMA NextKeepsFresh ==
    TypeOK /\ OrderInv /\ DeletionInv /\ Alone /\ FreshInv /\ [Next]_vars => FreshInv'
  <1> SUFFICES ASSUME TypeOK, OrderInv, DeletionInv, Alone, FreshInv, [Next]_vars,
                      NEW g \in Handlers
               PROVE  Fresh(g)'
    BY DEF FreshInv
  <1>0. HandlersOK /\ Fresh(g) /\ user \in UserRow
    BY DEF TypeOK, TablesOK, FreshInv
  <1>1. ASSUME pc'[g] \notin Acting PROVE Fresh(g)'
    BY <1>1 DEF Acting, Fresh
  <1>2. ASSUME NEW h \in Handlers, Step(h) PROVE Fresh(g)'
    <2>1. CASE g = h
      BY <1>0, <1>2, <2>1, JustRead
    <2>2. CASE g # h
      <3>1. ready # <<>> /\ Head(ready) = h /\ pc'[g] = pc[g]
        BY <1>0, <1>2, <2>2, StepTurns DEF TakesTurn, HandlersOK
      <3> QED
        BY <1>1, <2>2, <3>1, ActsAlone
    <2> QED
      BY <2>1, <2>2
  <1>3. ASSUME \A h \in Handlers : ~Step(h) PROVE Fresh(g)'
    <2>1. CASE pc'[g] = "idle" \/ \E r \in Requests : pc'[g] = r.op
      BY <1>1, <2>1, Arrivals DEF Acting, Routes, DeletionRoutes
    <2>2. CASE pc'[g] = pc[g] /\ loc'[g] = loc[g]
      <3>1. /\ UNCHANGED <<sessions, deletions, otps>>
            /\ "suspend" \notin Ops => UNCHANGED user
            /\ user.status # "deleted" => user'.status # "deleted"
        BY <1>0, <1>3, OtherSteps DEF Suspend, UserRow
      <3> QED
        BY <1>0, <2>2, <3>1 DEF Fresh, Selected
    <2> QED
      BY <1>0, <1>3, <2>1, <2>2, OtherSteps
  <1> QED
    BY <1>2, <1>3

LEMMA InitFresh == Init => Alone /\ FreshInv
  BY DEF Init, LoopInit, Alone, Range, FreshInv, Fresh, Routes, DeletionRoutes

LEMMA FreshAlways ==
    ASSUME MaxBatch = 1
    PROVE  Spec => []FreshInv
  BY InitFresh, NextKeepsAlone, NextKeepsFresh, DeletionAlways, PTL DEF Spec

\* When no request is pipelined and no operator suspends the account, the session a
\* request was let in with is live and the account active when its route starts: there
\* is nothing between the middleware and the route but awaits of the queue.
THEOREM AcceptedCurrent ==
    ASSUME MaxBatch = 1, "suspend" \notin Ops
    PROVE  Spec => []AcceptedIsCurrent
  <1>1. FreshInv => AcceptedIsCurrent
    BY DEF FreshInv, Fresh, AcceptedIsCurrent
  <1> QED
    BY <1>1, FreshAlways, PTL

\* The queue never mixes handlers that Redis answered with handlers it did not.
OneSide == \A g, h \in Range(ready) : pc[g] \in Replied => pc[h] \in Replied

LEMMA NextKeepsSide == TypeOK /\ OrderInv /\ OneSide /\ [Next]_vars => OneSide'
  <1> SUFFICES ASSUME TypeOK, OrderInv, OneSide, [Next]_vars PROVE OneSide'
    OBVIOUS
  <1>0. HandlersOK /\ QueueInv /\ ready \in Seq(Handlers)
    BY DEF TypeOK, OrderInv, HandlersOK
  <1>1. ASSUME NEW h \in Handlers, NEW label, TakesTurn(h, label),
               label \notin Parked \cup {"idle"} =>
                 (label \in Replied <=> pc[h] \in Replied)
        PROVE  OneSide'
    <2>0. /\ ready # <<>> /\ Head(ready) = h
          /\ ready' \in {Tail(ready), Append(Tail(ready), h)}
      BY <1>1 DEF TakesTurn
    <2>1. h \in Range(ready) /\ ready' \in Seq(Handlers)
      <3>1. h \in Range(ready)
        BY <1>0, <2>0, QueueFacts
      <3>2. Tail(ready) \in Seq(Handlers) /\ Append(Tail(ready), h) \in Seq(Handlers)
        BY <1>0, <2>0
      <3> QED
        BY <2>0, <3>1, <3>2
    <2>2. ASSUME NEW g \in Range(ready')
          PROVE  g \in Range(ready) /\ (pc'[g] \in Replied <=> pc[g] \in Replied)
      <3>1. g \in Handlers
        BY <2>1 DEF Range
      <3>2. CASE g # h
        BY <1>0, <1>1, <2>0, <2>1, <3>1, <3>2, QueueFacts DEF TakesTurn, HandlersOK
      <3>3. CASE g = h
        <4>1. ready' # Tail(ready)
          BY <1>0, <2>0, <2>1, <3>3, QueueFacts
        <4>2. Turn(label) = Turn(pc[h]) + 1 /\ Turn(pc[h]) \in 0..5
          BY <1>1, <4>1, TurnValues DEF TakesTurn
        <4>3. label \notin Parked \cup {"idle"}
          BY <4>2, TurnValues
        <4> QED
          BY <1>0, <1>1, <2>0, <2>1, <3>3, <4>3 DEF TakesTurn, HandlersOK
      <3> QED
        BY <3>2, <3>3
    <2> QED
      BY <2>2 DEF OneSide
  <1>2. ASSUME NEW h \in Handlers, Step(h) PROVE OneSide'
    BY <1>1, <1>2, StepTurns, KeepsSide
  <1>3. ASSUME NEW h \in Handlers, StatementFails(h) \/ TableFull(h) PROVE OneSide'
    <2>1. Respond(h) /\ ready # <<>> /\ Head(ready) = h
      BY <1>3 DEF StatementFails, TableFull, Runs
    <2> QED
      BY <1>0, <1>1, <2>1, Turns
  <1>4. CASE Receive
    <2>1. PICK batch \in Batches(MaxBatch) :
            /\ ready' = batch
            /\ \E request \in [Range(batch) -> Requests] :
                 pc' = [h \in Handlers |->
                          IF h \in Range(batch) THEN request[h].op ELSE pc[h]]
      BY <1>4 DEF Receive, Arrive
    <2>2. Range(batch) \subseteq Handlers
      BY BatchTyped, LoopAssumption DEF Range
    <2>3. \A g \in Range(batch) : pc'[g] \notin Replied
      BY <2>1, <2>2, Arrivals DEF Replied
    <2> QED
      BY <2>1, <2>3 DEF OneSide
  <1>5. CASE Resume
    <2>1. PICK batch \in Batches(MaxReplies) :
            /\ Len(batch) > 1 => \A i \in DOMAIN batch : pc[batch[i]] \in RedisLabels
            /\ ready' = batch
      BY <1>5 DEF Resume, Wake
    <2>2. UNCHANGED pc
      BY <1>5 DEF Resume, Wake
    <2>3. PICK n \in 1..MaxReplies : Len(batch) = n /\ DOMAIN batch = 1..n
      BY <2>1, BatchTyped, LoopAssumption
    <2>4. CASE n = 1
      BY <2>1, <2>2, <2>3, <2>4 DEF OneSide, Range
    <2>5. CASE n # 1
      BY <2>1, <2>2, <2>3, <2>5 DEF OneSide, Range, RedisLabels, Replied
    <2> QED
      BY <2>4, <2>5
  <1>6. CASE Crash
    BY <1>6 DEF Crash, Restart, OneSide, Range
  <1>7. CASE Pass \/ Suspend \/ UNCHANGED vars
    BY <1>7 DEF Pass, Tick, Suspend, vars, loopVars, OneSide
  <1> QED
    BY <1>2, <1>3, <1>4, <1>5, <1>6, <1>7 DEF Next

\* A passcode that a verification has found is active, or was spent by another that
\* arrived with it; then the account is active already.
FoundActive(h) ==
    pc[h] = "otp.verify.row" =>
      \A o \in loc[h].active :
        \/ otps[o].st = "active"
        \/ otps[o].st = "invalidated" /\ user.status = "active"

SpentInv == OneSide /\ \A h \in Handlers : FoundActive(h)

\* No other handler supersedes it meanwhile, and none deletes the account: the one runs
\* only after a reply of Redis, the other two turns later.
LEMMA NobodySupersedes ==
    ASSUME TypeOK, OrderInv, OneSide, NEW h \in Handlers,
           NEW g \in Handlers, g # h, pc[g] = "otp.verify.row"
    PROVE  ~Issue_Invalidate(h) /\ ~Confirm_Commit(h)
  <1>0. HandlersOK /\ g \in Range(ready)
    BY DEF TypeOK, OrderInv, Present, Parked
  <1>1. ASSUME Issue_Invalidate(h) PROVE FALSE
    <2>1. ready # <<>> /\ Head(ready) = h /\ pc[h] \in Replied
      BY <1>1 DEF Issue_Invalidate, Runs, Replied
    <2>2. h \in Range(ready)
      BY <1>0, <2>1, QueueFacts DEF HandlersOK, OrderInv
    <2> QED
      BY <1>0, <2>1, <2>2 DEF OneSide, Replied
  <1>2. ASSUME Confirm_Commit(h) PROVE FALSE
    BY <1>0, <1>2, NobodyElseRelies DEF Undeleted
  <1> QED
    BY <1>1, <1>2

LEMMA NextKeepsSpent ==
    ASSUME "suspend" \notin Ops
    PROVE  TypeOK /\ OrderInv /\ SpentInv /\ [Next]_vars => SpentInv'
  <1> SUFFICES ASSUME TypeOK, OrderInv, SpentInv, [Next]_vars, NEW g \in Handlers,
                      pc'[g] = "otp.verify.row"
               PROVE  FoundActive(g)'
    BY NextKeepsSide DEF SpentInv, FoundActive
  <1>0. /\ HandlersOK /\ FoundActive(g) /\ OneSide
        /\ DOMAIN otps = OtpIds /\ \A o \in OtpIds : otps[o] \in OtpRow
        /\ user \in UserRow
    BY DEF TypeOK, TablesOK, OtpIds, SpentInv
  <1>1. ASSUME NEW h \in Handlers, Step(h) PROVE FoundActive(g)'
    <2>1. CASE g = h
      <3>1. Verify_FindActive(h)
        BY <1>0, <1>1, <2>1, LoginTurns, GuardTurns, RecoveryTurns, DeletionTurns,
           OtpTurns
           DEF Step, AccountLabels, Routes, DeletionRoutes
      <3>2. loc'[h].active = Selected(otps, "active") /\ UNCHANGED otps
        BY <1>0, <3>1 DEF Verify_FindActive, Await, Goto, HandlersOK, tables
      <3> QED
        BY <2>1, <3>2 DEF FoundActive, Selected
    <2>2. CASE g # h
      <3>1. pc[g] = "otp.verify.row" /\ loc'[g] = loc[g]
        BY <1>0, <1>1, <2>2, StepTurns DEF TakesTurn, HandlersOK
      <3>2. loc[g].active \subseteq OtpIds
        BY <1>0, <3>1, OtpFrames DEF HandlersOK
      <3>3. ~Issue_Invalidate(h) /\ ~Confirm_Commit(h)
        BY <1>0, <2>2, <3>1, NobodySupersedes
      <3>4. CASE Verify_Commit(h)
        BY <1>0, <3>1, <3>2, <3>4 DEF Verify_Commit, FoundActive, OtpRow, UserRow
      <3>5. CASE Issue_Create(h)
        BY <1>0, <3>1, <3>2, <3>5 DEF Issue_Create, FoundActive, OtpRow
      <3>6. CASE UNCHANGED <<user.status, otps>>
        BY <1>0, <3>1, <3>6 DEF FoundActive
      <3> QED
        <4>1. CASE LoginStep(h)
          BY <3>6, <4>1, LoginTurns
        <4>2. CASE GuardStep(h)
          BY <1>0, <3>6, <4>2, GuardTurns
        <4>3. CASE RecoveryStep(h)
          BY <3>6, <4>3, RecoveryTurns
        <4>4. CASE DeletionStep(h)
          BY <1>0, <3>3, <3>6, <4>4, DeletionTurns
        <4>5. CASE OtpStep(h)
          BY <1>0, <3>3, <3>4, <3>5, <3>6, <4>5, OtpTurns
        <4> QED
          BY <1>1, <4>1, <4>2, <4>3, <4>4, <4>5 DEF Step
    <2> QED
      BY <2>1, <2>2
  <1>2. ASSUME \A h \in Handlers : ~Step(h) PROVE FoundActive(g)'
    <2>1. pc'[g] = pc[g] /\ loc'[g] = loc[g]
      BY <1>0, <1>2, OtherSteps, Arrivals
    <2>2. UNCHANGED <<user, otps>>
      BY <1>0, <1>2, OtherSteps DEF Suspend
    <2> QED
      BY <1>0, <2>1, <2>2 DEF FoundActive
  <1> QED
    BY <1>1, <1>2

\* A passcode activates the account only while it is active: nothing supersedes it
\* between the read and the transaction.  Of two verifications that arrive together the
\* second finds it spent and changes nothing, unless an operator suspends the account
\* between the two: then it would activate it again.
THEOREM ActivePasscodeVerifies ==
    ASSUME MaxBatch = 1 \/ "suspend" \notin Ops
    PROVE  Spec => VerifiesActiveOtp
  <1> DEFINE OnlyActive == \A h \in Handlers : Verify_Commit(h) =>
                             \E o \in loc[h].active : otps[o].st = "active"
  <1>1. CASE MaxBatch = 1
    <2>1. FreshInv => [OnlyActive]_<<user, otps>>
      <3> SUFFICES ASSUME FreshInv, NEW h \in Handlers, Verify_Commit(h)
                   PROVE  \E o \in loc[h].active : otps[o].st = "active"
        OBVIOUS
      <3>1. loc[h].active = Selected(otps, "active")
        BY DEF Verify_Commit, Runs, FreshInv, Fresh
      <3>2. PICK o \in loc[h].active : clock <= otps[o].expires
        BY DEF Verify_Commit
      <3> QED
        BY <3>1, <3>2 DEF Selected
    <2> QED
      BY <1>1, <2>1, FreshAlways, PTL DEF VerifiesActiveOtp
  <1>2. CASE "suspend" \notin Ops
    <2>1. Init => SpentInv
      BY DEF Init, LoopInit, SpentInv, OneSide, FoundActive, Range
    <2>2. Spec => [](TypeOK /\ SpentInv)
      BY <1>2, <2>1, InitOrder, NextKeepsOrder, NextKeepsSpent, TypeCorrect, PTL
         DEF Spec
    <2>3. TypeOK /\ SpentInv => [OnlyActive]_<<user, otps>>
      <3> SUFFICES ASSUME TypeOK, SpentInv, NEW h \in Handlers, Verify_Commit(h),
                          \A o \in loc[h].active : otps[o].st # "active"
                   PROVE  UNCHANGED <<user, otps>>
        OBVIOUS
      <3>0. otps \in [OtpIds -> OtpRow] /\ user \in UserRow
        BY DEF TypeOK, TablesOK, OtpIds
      <3>1. PICK o \in loc[h].active : otps' = [otps EXCEPT ![o].st = "invalidated"]
        BY DEF Verify_Commit
      <3>2. o \in OtpIds
        BY OtpFrames DEF Verify_Commit, Runs, TypeOK, HandlersOK
      <3>3. otps[o].st = "invalidated" /\ user.status = "active"
        BY <3>1 DEF Verify_Commit, Runs, SpentInv, FoundActive
      <3>4. otps' = otps
        BY <3>0, <3>1, <3>2, <3>3 DEF OtpRow
      <3>5. user' = user
        BY <3>0, <3>3 DEF Verify_Commit, UserRow
      <3> QED
        BY <3>4, <3>5
    <2> QED
      BY <2>2, <2>3, PTL DEF VerifiesActiveOtp
  <1> QED
    BY <1>1, <1>2

\* At most one request is pending, and one notice queued.
SingleInv ==
    /\ \A d, e \in Pending : d = e
    /\ \A m, n \in Queued : m = n

LEMMA NextKeepsSingle ==
    TypeOK /\ DeletionInv /\ FreshInv /\ SingleInv /\ [Next]_vars => SingleInv'
  <1> SUFFICES ASSUME TypeOK, DeletionInv, FreshInv, SingleInv, [Next]_vars
               PROVE  SingleInv'
    OBVIOUS
  <1>0. /\ HandlersOK /\ MaxDeletions \in Nat
        /\ DOMAIN deletions = DeletionIds
        /\ \A d \in DeletionIds : deletions[d] \in DeletionRow
    BY TablesAssumption DEF TypeOK, TablesOK, DeletionIds
  <1>1. CASE UNCHANGED <<deletions, notices>>
    BY <1>1 DEF SingleInv, Pending, Queued
  <1>2. ASSUME NEW h \in Handlers, Step(h) PROVE SingleInv'
    <2>1. CASE Request_Insert(h)
      <3>1. Selected(deletions, "pending") = {}
        BY <2>1 DEF Request_Insert, Runs, FreshInv, Fresh
      <3>2. \A d \in DeletionIds : deletions[d].st # "pending"
        BY <1>0, <3>1, Selects DEF DeletionIds
      <3>3. \A d, e \in Pending' : d = e
        BY <1>0, <2>1, <3>2 DEF Request_Insert, Pending
      <3> QED
        BY <2>1, <3>3 DEF Request_Insert, SingleInv, Queued
    <2>2. CASE Cancel_Update(h)
      <3>1. loc[h].pending \subseteq DeletionIds
        BY <1>0, <2>2, DeletionFrames DEF Cancel_Update, Runs, HandlersOK
      <3>2. \A d \in Pending' : d \in Pending
        BY <1>0, <2>2, <3>1 DEF Cancel_Update, Pending, DeletionRow
      <3> QED
        BY <2>2, <3>2 DEF Cancel_Update, SingleInv, Queued
    <2>3. CASE Confirm_Commit(h)
      <3>1. loc[h].request \in DeletionIds
        BY <1>0, <2>3, DeletionFrames DEF Confirm_Commit, Runs, HandlersOK
      <3>2. \A d \in Pending' : d \in Pending
        BY <1>0, <2>3, <3>1 DEF Confirm_Commit, Pending, DeletionRow
      <3>3. Queued = {}
        BY <2>3 DEF Confirm_Commit, Runs, FreshInv, Fresh, DeletionInv,
                    DeletionIsAtomic
      <3>4. PICK n \in DOMAIN notices :
              notices' = [notices EXCEPT ![n] = [st |-> "queued",
                                                 owner |-> loc[h].email = "own"]]
        BY <2>3 DEF Confirm_Commit, QueueNotice
      <3>5. \A m \in Queued' : m = n
        BY <3>3, <3>4 DEF Queued
      <3> QED
        BY <3>2, <3>5 DEF SingleInv
    <2>4. \/ UNCHANGED <<deletions, notices>>
          \/ Request_Insert(h) \/ Cancel_Update(h) \/ Confirm_Commit(h)
      BY <1>0, <1>2, LoginTurns, GuardTurns, OtpTurns, DeletionTurns, RecoveryTurns
         DEF Step
    <2> QED
      BY <1>1, <2>1, <2>2, <2>3, <2>4
  <1> QED
    BY <1>0, <1>1, <1>2, OtherSteps

LEMMA SingleAlways ==
    ASSUME MaxBatch = 1
    PROVE  Spec => []SingleInv
  <1>1. Init => SingleInv
    BY DEF Init, TablesInit, SingleInv, Pending, Queued, DeletionIds
  <1> QED
    BY <1>1, NextKeepsSingle, DeletionAlways, FreshAlways, PTL DEF Spec

\* When no request is pipelined, a user has at most one pending request for deletion,
\* although the check for one and the insert are two statements and no index guards
\* them.
THEOREM OnePending ==
    ASSUME MaxBatch = 1
    PROVE  Spec => []OnePendingDeletion
  <1>1. SingleInv => OnePendingDeletion
    BY AtMostOne DEF SingleInv, OnePendingDeletion
  <1> QED
    BY <1>1, SingleAlways, PTL

\* When no request is pipelined, a deletion is finalised once: one notice is queued.
THEOREM OneNoticeQueued ==
    ASSUME MaxBatch = 1
    PROVE  Spec => []OneNotice
  <1>1. SingleInv => OneNotice
    BY AtMostOne DEF SingleInv, OneNotice
  <1> QED
    BY <1>1, SingleAlways, PTL
=============================================================================
