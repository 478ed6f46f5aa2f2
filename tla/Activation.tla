----------------------------- MODULE Activation -----------------------------
(***************************************************************************)
(* Activation by emailed link: POST /users/activate                        *)
(* (ActivationController, DefaultActivationService) and the administrator's *)
(* POST /admin/users/:id/resend-confirmation (AdminController,             *)
(* DefaultEmailDispatchService), which queues an outbox record that        *)
(* OutboxWorker sends.  Beside them two requests of the other modules that *)
(* change an account on what they read some turns earlier: the check of a  *)
(* passcode (Otp) and the confirmation of a deletion, behind the session   *)
(* guard (AccountDeletion).  They are kept here with their turns of the    *)
(* event loop and the status they read; whether the session, the passcode  *)
(* or the code is right is left open.                                      *)
(*                                                                         *)
(* OutboxWorker is the loop of the notification worker over another table, *)
(* so its actions are those of NotificationWorker.  The running system     *)
(* registers accounts without a token (it sends passcodes): tokens and     *)
(* records to start with are those of a volume that an earlier release     *)
(* wrote.                                                                  *)
(***************************************************************************)
EXTENDS EventLoop

CONSTANTS
    Users,
    Polls,        \* polls of OutboxWorker that can be under way at once
    MaxRetries,   \* OUTBOX_MAX_RETRIES
    MaxFaults,    \* bound on lost answers, failed updates and ends of the process
    TokenExpiry   \* expires_at of the tokens, on the clock

ASSUME ActivationAssumption ==
    /\ IsFiniteSet(Users)
    /\ IsFiniteSet(Polls) /\ Polls # {}
    /\ {MaxRetries, MaxFaults, TokenExpiry} \subseteq Nat

VARIABLES
    account,   \* users.status; "absent" when there is no row
    token,     \* the user's row of activation_tokens
    outbox,    \* registration_email_records: the user of each, in order
    records, todo, seen, inbox, misses, faults    \* of the worker

accountVars == <<account, token, outbox>>
workerVars == <<records, todo, seen, inbox, misses, faults>>

Worker == INSTANCE NotificationWorker WITH MaxRecords <- Cardinality(Users)

Requests == [op : {"activate", "resend", "verify", "delete"}, user : Users]

\* A volume of an earlier release holds pending accounts with a token each.  It
\* queued the confirmation once the account was committed, so that the record of
\* some may be missing; the others are queued, sent or given up.
EarlierRecords ==
    \E n \in 0..Cardinality(Users) :
      /\ outbox \in Injection(1..n, {u \in Users : token[u] # "none"})
      /\ \E rows \in [1..n -> [st : {"queued", "sent"}, retries : 0..MaxRetries]
                                \cup [st : {"failed"}, retries : {MaxRetries}]] :
           records = [m \in Worker!Records |->
                        IF m \in 1..n THEN rows[m] ELSE [st |-> "absent", retries |-> 0]]

ActivationInit(earlier) ==
    /\ LoopInit
    /\ account \in [Users -> IF earlier THEN {"absent", "pending"} ELSE {"absent"}]
    /\ token = [u \in Users |-> IF account[u] = "pending" THEN "fresh" ELSE "none"]
    /\ EarlierRecords
    /\ Worker!NothingSent

-----------------------------------------------------------------------------
(* Rows *)

TokenRow == {"none", "fresh", "consumed"}

\* The row of the user's token, or null.  A user without a token stands for a value
\* that no row has.
FindByTokenValue(u) == token[u]

\* Whether there is a row, by the owner.
FindByUserId(u) == token[u] # "none"

FindById(u) == account[u]

\* A queued record is inserted, the last by its time.
InsertRecord(u) ==
    /\ outbox' = Append(outbox, u)
    /\ Worker!Queue(Len(outbox'))

-----------------------------------------------------------------------------
(* activate *)

\* The token row is read, and `await` yields.
Activate_FindToken(h) ==
    /\ Runs(h, "activate")
    /\ Await(h, "activate.token", [user |-> loc[h].user,
                                   token |-> FindByTokenValue(loc[h].user)])
    /\ UNCHANGED <<accountVars, workerVars>>

\* 404 TOKEN_NOT_FOUND, 410 TOKEN_EXPIRED or TOKEN_CONSUMED
Activate_RefuseToken(h) ==
    /\ Runs(h, "activate.token")
    /\ loc[h].token # "fresh" \/ clock > TokenExpiry
    /\ Respond(h)
    /\ UNCHANGED <<accountVars, workerVars>>

IsPending(u) == FindById(u) = "pending"

\* findById
Activate_FindUser(h) ==
    /\ Runs(h, "activate.token")
    /\ loc[h].token = "fresh"
    /\ clock <= TokenExpiry
    /\ Await(h, "activate.user", [user |-> loc[h].user,
                                  pending |-> IsPending(loc[h].user)])
    /\ UNCHANGED <<accountVars, workerVars>>

\* 409 ACCOUNT_NOT_PENDING
Activate_RefuseUser(h) ==
    /\ Runs(h, "activate.user")
    /\ ~loc[h].pending
    /\ Respond(h)
    /\ UNCHANGED <<accountVars, workerVars>>

\* Both rows are updated in one transaction, which looks at neither again: 200.
Activate_Commit(h) ==
    /\ Runs(h, "activate.user")
    /\ loc[h].pending
    /\ account' = [account EXCEPT ![loc[h].user] = "active"]
    /\ token' = [token EXCEPT ![loc[h].user] = "consumed"]
    /\ Respond(h)
    /\ UNCHANGED <<outbox, workerVars>>

-----------------------------------------------------------------------------
(* resendConfirmation, once requireAdminBearerToken has let the request pass *)

Resend_FindUser(h) ==
    /\ Runs(h, "resend")
    /\ Await(h, "resend.user", [user |-> loc[h].user,
                                status |-> FindById(loc[h].user)])
    /\ UNCHANGED <<accountVars, workerVars>>

\* 404, or 409 for an account that is not pending
Resend_Refuse(h) ==
    /\ Runs(h, "resend.user")
    /\ loc[h].status # "pending"
    /\ Respond(h)
    /\ UNCHANGED <<accountVars, workerVars>>

\* findByUserId: without a token the record will hold '' in its place.
Resend_FindToken(h) ==
    /\ Runs(h, "resend.user")
    /\ loc[h].status = "pending"
    /\ Await(h, "resend.token", [user |-> loc[h].user,
                                 tokenId |-> FindByUserId(loc[h].user)])
    /\ UNCHANGED <<accountVars, workerVars>>

\* Variant: foreign keys are not enforced (the default of SQLite).
InsertableLoosely(user, tokenId) == user \notin Range(outbox)

\* UNIQUE (user_id), and activation_token_id must refer to a row.
Insertable(user, tokenId) == user \notin Range(outbox) /\ tokenId

\* A constraint refuses the row: 500
Resend_Conflict(h) ==
    /\ Runs(h, "resend.token")
    /\ ~Insertable(loc[h].user, loc[h].tokenId)
    /\ Respond(h)
    /\ UNCHANGED <<accountVars, workerVars>>

\* The record is queued: 202
Resend_Insert(h) ==
    /\ Runs(h, "resend.token")
    /\ Insertable(loc[h].user, loc[h].tokenId)
    /\ InsertRecord(loc[h].user)
    /\ Respond(h)
    /\ UNCHANGED <<account, token>>

ActivateStep(h) ==
    \/ Activate_FindToken(h)
    \/ Activate_RefuseToken(h)
    \/ Activate_FindUser(h)
    \/ Activate_RefuseUser(h)
    \/ Activate_Commit(h)

ResendStep(h) ==
    \/ Resend_FindUser(h)
    \/ Resend_Refuse(h)
    \/ Resend_FindToken(h)
    \/ Resend_Conflict(h)
    \/ Resend_Insert(h)

-----------------------------------------------------------------------------
(* verifyOtp *)

Verify_FindUser(h) ==
    /\ Runs(h, "verify")
    /\ Await(h, "verify.user", [user |-> loc[h].user, status |-> FindById(loc[h].user)])
    /\ UNCHANGED <<accountVars, workerVars>>

\* findActiveByUserId, for an account that is pending or active
Verify_FindActive(h) ==
    /\ Runs(h, "verify.user")
    /\ loc[h].status \in {"pending", "active"}
    /\ Await(h, "verify.row", loc[h])
    /\ UNCHANGED <<accountVars, workerVars>>

\* The passcode is right: the account is active, also one that was, 200.
Verify_Commit(h) ==
    /\ Runs(h, "verify.row")
    /\ account' = [account EXCEPT ![loc[h].user] = "active"]
    /\ Respond(h)
    /\ UNCHANGED <<token, outbox, workerVars>>

-----------------------------------------------------------------------------
(* confirmDeletion, behind the session guard *)

\* The guard looks up the session.
Delete_FindSession(h) ==
    /\ Runs(h, "delete")
    /\ Await(h, "delete.session", [user |-> loc[h].user])
    /\ UNCHANGED <<accountVars, workerVars>>

\* The session is live: the guard looks up its account.
Delete_FindUser(h) ==
    /\ Runs(h, "delete.session")
    /\ Await(h, "delete.status", [user |-> loc[h].user, status |-> FindById(loc[h].user)])
    /\ UNCHANGED <<accountVars, workerVars>>

\* Variant: a session is enough to delete, the guard's route asks for no code.
Delete_PassAtOnce(h) ==
    /\ Runs(h, "delete.status")
    /\ loc[h].status = "active"
    /\ account' = [account EXCEPT ![loc[h].user] = "deleted"]
    /\ Respond(h)
    /\ UNCHANGED <<token, outbox, workerVars>>

\* The account is active: the guard passes the request on.
Delete_Pass(h) ==
    /\ Runs(h, "delete.status")
    /\ loc[h].status = "active"
    /\ Await(h, "delete.route", [user |-> loc[h].user])
    /\ UNCHANGED <<accountVars, workerVars>>

\* findPendingByUserId
Delete_FindPending(h) ==
    /\ Runs(h, "delete.route")
    /\ Await(h, "delete.pending", loc[h])
    /\ UNCHANGED <<accountVars, workerVars>>

\* The code is right: findById, for the address.
Delete_FindAddress(h) ==
    /\ Runs(h, "delete.pending")
    /\ Await(h, "delete.user", loc[h])
    /\ UNCHANGED <<accountVars, workerVars>>

\* The transaction: 200.
Delete_Commit(h) ==
    /\ Runs(h, "delete.user")
    /\ account' = [account EXCEPT ![loc[h].user] = "deleted"]
    /\ Respond(h)
    /\ UNCHANGED <<token, outbox, workerVars>>

VerifyStep(h) == Verify_FindUser(h) \/ Verify_FindActive(h) \/ Verify_Commit(h)

DeleteStep(h) ==
    \/ Delete_FindSession(h)
    \/ Delete_FindUser(h)
    \/ Delete_Pass(h)
    \/ Delete_FindPending(h)
    \/ Delete_FindAddress(h)
    \/ Delete_Commit(h)

\* The body is malformed (400), the administrator's token is missing or wrong
\* (401, 403), the session, the account, the passcode or the code is refused, or a
\* statement throws (500): nothing is written.
Failed(h) ==
    /\ ready # <<>> /\ Head(ready) = h
    /\ ~Idle(h)
    /\ Respond(h)
    /\ UNCHANGED <<accountVars, workerVars>>

-----------------------------------------------------------------------------
\* A registration commits (module Registration): no token.
RegisterUser(u) ==
    /\ account[u] = "absent"
    /\ account' = [account EXCEPT ![u] = "pending"]
    /\ UNCHANGED <<token, outbox, workerVars>>

AccountStatus == {"absent", "pending", "active", "deleted"}

ActivationFrame(label, locals) ==
    \/ label = "idle" /\ locals = NoLocals
    \/ /\ label \in {"activate", "resend", "verify", "delete"}
       /\ locals \in Requests
    \/ label = "activate.token" /\ locals \in [user : Users, token : TokenRow]
    \/ label = "activate.user" /\ locals \in [user : Users, pending : BOOLEAN]
    \/ /\ label \in {"resend.user", "verify.user", "verify.row", "delete.status"}
       /\ locals \in [user : Users, status : AccountStatus]
    \/ label = "resend.token" /\ locals \in [user : Users, tokenId : BOOLEAN]
    \/ /\ label \in {"delete.session", "delete.route", "delete.pending", "delete.user"}
       /\ locals \in [user : Users]

ActivationOK ==
    /\ ready \in Seq(Handlers)
    /\ DOMAIN pc = Handlers
    /\ DOMAIN loc = Handlers
    /\ \A h \in Handlers : ActivationFrame(pc[h], loc[h])
    /\ clock \in Nat
    /\ account \in [Users -> AccountStatus]
    /\ token \in [Users -> TokenRow]
    /\ outbox \in Seq(Users)
    /\ Worker!TypeOK
=============================================================================
