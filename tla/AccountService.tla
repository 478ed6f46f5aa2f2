--------------------------- MODULE AccountService ---------------------------
(***************************************************************************)
(* The API as one system: every route of app.ts that touches an existing   *)
(* account, interleaved on one event loop over one database and one Redis. *)
(***************************************************************************)
EXTENDS Login, SessionGuard, PasswordRecovery, AccountDeletion, Otp

CONSTANTS
    Ops,        \* the routes clients call, and "suspend"
    MaxFaults   \* bound on failed statements and process crashes

ASSUME FaultAssumption == MaxFaults \in Nat

VARIABLE faults   \* failed statements and crashes so far

vars == <<loopVars, clock, tables, limiter, faults>>

Routes == DeletionRoutes \cup {"profile"}

Frame(label, locals) ==
    \/ label = "idle" /\ locals = NoLocals
    \/ LoginFrame(label, locals)
    \/ GuardFrame(label, locals, Routes)
    \/ RecoveryFrame(label, locals)
    \/ DeletionFrame(label, locals)
    \/ OtpFrame(label, locals)

Requests ==
    {r \in LoginRequests \cup LogoutRequests \cup RecoveryRequests
             \cup ResetRequests \cup OtpRequests : r.op \in Ops}
      \cup GuardedRequests(Routes \cap Ops)

Init ==
    /\ LoopInit
    /\ TablesInit
    /\ LimiterInit
    /\ faults = 0

-----------------------------------------------------------------------------
Receive ==
    /\ Arrive(Requests)
    /\ UNCHANGED <<clock, tables, limiter, faults>>

Resume ==
    /\ Wake(RedisLabels)
    /\ UNCHANGED <<clock, tables, limiter, faults>>

Step(h) ==
    /\ \/ LoginStep(h) /\ UNCHANGED limiter
       \/ GuardStep(h) /\ UNCHANGED limiter
       \/ RecoveryStep(h) /\ UNCHANGED limiter
       \/ DeletionStep(h) /\ UNCHANGED limiter
       \/ OtpStep(h)
    /\ UNCHANGED <<clock, faults>>

Pass == Tick /\ UNCHANGED <<tables, limiter, faults>>

Statements == LoginStatements \cup GuardStatements \cup RecoveryStatements
                \cup DeletionStatements \cup OtpStatements

\* Variant: the deletion is written without a transaction, and a failure leaves what
\* came before it.
StatementFailsHalfway(h) ==
    /\ faults < MaxFaults
    /\ \E label \in Statements : Runs(h, label)
    /\ \/ /\ pc[h] = "deletion.confirm.user"
          /\ Anonymise
          /\ UNCHANGED <<sessions, recoveries, deletions, notices, otps>>
       \/ pc[h] # "deletion.confirm.user" /\ UNCHANGED tables
    /\ Respond(h)
    /\ faults' = faults + 1
    /\ UNCHANGED <<clock, limiter>>

\* A statement (or Redis command) throws; the controller catches it and answers.
\* What the transaction of a deletion has written by then is rolled back.
StatementFails(h) ==
    /\ faults < MaxFaults
    /\ \E label \in Statements : Runs(h, label)
    /\ Respond(h)
    /\ faults' = faults + 1
    /\ UNCHANGED <<clock, tables, limiter>>

\* The bound on the rows of a table: an INSERT beyond it fails like a full disk.
TableFull(h) ==
    /\ \/ Runs(h, "login.session") /\ Full(sessions)
       \/ Runs(h, "recovery.row") /\ loc[h].found /\ Full(recoveries)
       \/ Runs(h, "deletion.request.pending") /\ Full(deletions)
       \/ Runs(h, "deletion.confirm.user") /\ Full(notices)
       \/ Runs(h, "otp.create") /\ Full(otps)
    /\ Respond(h)
    /\ UNCHANGED <<clock, tables, limiter, faults>>

\* The process ends (killed, or an unhandled rejection of UncaughtStatements) and
\* the container restarts it: SQLite and Redis keep what they have.
Crash ==
    /\ faults < MaxFaults
    /\ Restart
    /\ faults' = faults + 1
    /\ UNCHANGED <<clock, tables, limiter>>

\* No code sets 'suspended'; the services treat it as set in the database.
Suspend ==
    /\ "suspend" \in Ops
    /\ user.status = "active"
    /\ user' = [user EXCEPT !.status = "suspended"]
    /\ UNCHANGED <<loopVars, clock, sessions, recoveries, deletions, notices,
                   otps, limiter, faults>>

Next ==
    \/ Receive
    \/ Resume
    \/ \E h \in Handlers : Step(h) \/ StatementFails(h) \/ TableFull(h)
    \/ Pass
    \/ Crash
    \/ Suspend

Spec == Init /\ [][Next]_vars

-----------------------------------------------------------------------------
HandlersOK ==
    /\ ready \in Seq(Handlers)
    /\ DOMAIN pc = Handlers
    /\ DOMAIN loc = Handlers
    /\ \A h \in Handlers : Frame(pc[h], loc[h])

\* Every handler holds the locals its resume point reads, and every row is one
\* the schema allows.
TypeOK ==
    /\ HandlersOK
    /\ clock \in Nat
    /\ TablesOK
    /\ LimiterOK
    /\ faults \in 0..MaxFaults

\* However many wrong passwords race past the threshold, the stored count exceeds
\* it by less than the requests in flight, plus one for every fault that hit a
\* handler between counting and locking.
FailureOverrun ==
    ready = <<>> =>
      user.failed + 2 <= Threshold + Cardinality(Handlers) + faults

\* "The first increment in a window sets the key's TTL" (rate-limit.guard.ts:38)
\* unless a fault hits the request that counted it: nothing else, in whatever order
\* Redis answers, leaves a counter that never ends (RateLimitGuard.allow).
WindowOpensByFault == [][WindowCloses /\ ~WindowCloses' => faults' > faults]_vars

\* The session a request was let in with is still live, and the account active,
\* when the route's first statement runs.
AcceptedIsCurrent ==
    \A h \in Handlers :
      pc[h] \in Routes =>
        sessions[loc[h].token].st = "live" /\ user.status = "active"

\* The middleware accepts the session now.
Usable(s) ==
    /\ sessions[s].st = "live"
    /\ clock < sessions[s].expires
    /\ user.status = "active"

Lifecycle == INSTANCE SessionLifecycle WITH
    Sessions <- Tokens,
    open <- user.status \in {"pending", "active"},
    phase <- [s \in Tokens |-> IF sessions[s].st = "absent" THEN "unissued"
                               ELSE IF Usable(s) THEN "usable" ELSE "over"]

\* The routes, tables and clock implement the session life cycle: a session that
\* was logged out, expired, reset away or deleted is never usable again.
ImplementsLifecycle == Lifecycle!Spec

-----------------------------------------------------------------------------
\* The event loop runs what is ready, and I/O completes: libuv polls it again and
\* again, so a completion that is possible infinitely often is delivered.
Fairness ==
    \A h \in Handlers :
      /\ WF_vars(Step(h) \/ TableFull(h))
      /\ SF_vars(Resume /\ h \in Range(ready'))

FairSpec == Spec /\ Fairness

\* Every request is answered (or lost with the process).
RequestsAnswered == \A h \in Handlers : ~Idle(h) ~> Idle(h)
=============================================================================
