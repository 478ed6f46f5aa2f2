---------------------------- MODULE SessionGuard ----------------------------
(***************************************************************************)
(* The session-validation middleware in front of every /users route, and   *)
(* POST /api/v1/auth/logout: SessionService.validateSession and            *)
(* invalidateSession.  GET /api/v1/users/me is the read-only route behind  *)
(* the guard.                                                              *)
(*                                                                         *)
(* validateSession reads the sessions row and the users row in two         *)
(* statements with a microtask between them, and the route's own first     *)
(* statement runs one microtask after the verdict.                         *)
(***************************************************************************)
EXTENDS EventLoop, Database

Tokens == 1..MaxSessions   \* a raw token stands for the row with its hash

\* A request names the route behind the guard that is to handle it.
GuardedRequests(routes) == [op : {"guard"}, token : Tokens, route : routes]

LogoutRequests == [op : {"logout"}, token : Tokens]

Authenticated == [token : Tokens]   \* the locals of a route behind the guard

GuardFrame(label, locals, routes) ==
    \/ label = "guard" /\ locals \in GuardedRequests(routes)
    \/ label = "guard.session" /\ locals \in [token : Tokens, route : routes,
                                               row : SessionRow]
    \/ label = "guard.user" /\ locals \in [token : Tokens, route : routes,
                                            status : Statuses]
    \/ label = "logout" /\ locals \in LogoutRequests
    \/ label = "logout.session" /\ locals \in [token : Tokens, row : SessionRow]
    \/ label \in {"profile", "profile.user"} /\ locals \in Authenticated

-----------------------------------------------------------------------------
\* Not found, expired or invalidated.
Dead(row) == row.st # "live" \/ clock >= row.expires

\* sessionRepository.findByTokenHash
Guard_FindSession(h) ==
    /\ Runs(h, "guard")
    /\ Await(h, "guard.session", [token |-> loc[h].token, route |-> loc[h].route,
                                  row |-> sessions[loc[h].token]])
    /\ UNCHANGED tables

\* 401 NOT_FOUND, EXPIRED or INVALIDATED
Guard_Refuse(h) ==
    /\ Runs(h, "guard.session")
    /\ Dead(loc[h].row)
    /\ Respond(h)
    /\ UNCHANGED tables

\* Variant: the account's status comes over the network.
Guard_FindUserRemotely(h) ==
    /\ Runs(h, "guard.session")
    /\ ~Dead(loc[h].row)
    /\ Park(h, "guard.user", [token |-> loc[h].token, route |-> loc[h].route,
                              status |-> user.status])
    /\ UNCHANGED tables

\* userRepository.findById(session.userId)
Guard_FindUser(h) ==
    /\ Runs(h, "guard.session")
    /\ ~Dead(loc[h].row)
    /\ Await(h, "guard.user", [token |-> loc[h].token, route |-> loc[h].route,
                               status |-> user.status])
    /\ UNCHANGED tables

\* The account is suspended or deleted: every session of it goes, 403
Guard_Expel(h) ==
    /\ Runs(h, "guard.user")
    /\ loc[h].status # "active"
    /\ InvalidateAllForUser
    /\ Respond(h)
    /\ UNCHANGED <<user, recoveries, deletions, notices, otps>>

\* The middleware resumes, sets req.userId and calls next().
Guard_Pass(h) ==
    /\ Runs(h, "guard.user")
    /\ loc[h].status = "active"
    /\ Await(h, loc[h].route, [token |-> loc[h].token])
    /\ UNCHANGED tables

-----------------------------------------------------------------------------
\* logout: findByTokenHash
Logout_FindSession(h) ==
    /\ Runs(h, "logout")
    /\ Await(h, "logout.session", [token |-> loc[h].token,
                                   row |-> sessions[loc[h].token]])
    /\ UNCHANGED tables

\* 200, already terminated
Logout_Nothing(h) ==
    /\ Runs(h, "logout.session")
    /\ Dead(loc[h].row)
    /\ Respond(h)
    /\ UNCHANGED tables

\* 200, markInvalidated
Logout_Invalidate(h) ==
    /\ Runs(h, "logout.session")
    /\ ~Dead(loc[h].row)
    /\ MarkInvalidated(loc[h].token)
    /\ Respond(h)
    /\ UNCHANGED <<user, recoveries, deletions, notices, otps>>

-----------------------------------------------------------------------------
\* getProfile: findById, then countActiveForUser; both only read
Profile_FindUser(h) ==
    /\ Runs(h, "profile")
    /\ Await(h, "profile.user", loc[h])
    /\ UNCHANGED tables

Profile_Answer(h) ==
    /\ Runs(h, "profile.user")
    /\ Respond(h)
    /\ UNCHANGED tables

GuardStep(h) ==
    \/ Guard_FindSession(h)
    \/ Guard_Refuse(h)
    \/ Guard_FindUser(h)
    \/ Guard_Expel(h)
    \/ Guard_Pass(h)
    \/ Logout_FindSession(h)
    \/ Logout_Nothing(h)
    \/ Logout_Invalidate(h)
    \/ Profile_FindUser(h)
    \/ Profile_Answer(h)

\* The middleware and the logout handler have no try/catch: a statement that
\* fails there is an unhandled rejection and ends the process.
UncaughtStatements == {"guard", "guard.session", "guard.user",
                       "logout", "logout.session"}

GuardStatements == {"profile", "profile.user"}
=============================================================================
