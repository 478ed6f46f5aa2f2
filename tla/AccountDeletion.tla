-------------------------- MODULE AccountDeletion --------------------------
(***************************************************************************)
(* The /api/v1/users/deletion-requests routes, all behind the session      *)
(* guard: AccountDeletionService.requestDeletion, confirmDeletion and      *)
(* cancelDeletion.  Nothing in the schema keeps a user to one pending      *)
(* request; the service checks before it inserts, in another statement.    *)
(***************************************************************************)
EXTENDS EventLoop, Database

CONSTANT DeletionTTL   \* ACCOUNT_DELETION_OTP_EXPIRY_MINUTES, in ticks

ASSUME DeletionAssumption == DeletionTTL \in Nat \ {0}

DeletionIds == 1..MaxDeletions

DeletionRoutes == {"deletion.request", "deletion.confirm", "deletion.cancel"}

\* `pending` is what findPendingByUserId returned: one row's number, or none.
DeletionFrame(label, locals) ==
    \/ label \in DeletionRoutes /\ locals \in [token : 1..MaxSessions]
    \/ label = "deletion.request.user" /\ locals \in [status : Statuses]
    \/ /\ label \in {"deletion.request.pending", "deletion.confirm.pending",
                     "deletion.cancel.pending"}
       /\ locals \in [pending : SUBSET DeletionIds]
    \/ label = "deletion.request.sent" /\ locals = NoLocals
    \/ label = "deletion.confirm.user" /\ locals \in [request : DeletionIds,
                                                       email : Emails]

FindPending == [pending |-> Selected(deletions, "pending")]

-----------------------------------------------------------------------------
\* userRepository.findById
Request_FindUser(h) ==
    /\ Runs(h, "deletion.request")
    /\ Await(h, "deletion.request.user", [status |-> user.status])
    /\ UNCHANGED tables

\* 403 the account is not active
Request_NotActive(h) ==
    /\ Runs(h, "deletion.request.user")
    /\ loc[h].status # "active"
    /\ Respond(h)
    /\ UNCHANGED tables

\* Variant: real I/O between the check for a pending request and the insert.
Request_FindPendingSlowly(h) ==
    /\ Runs(h, "deletion.request.user")
    /\ loc[h].status = "active"
    /\ Park(h, "deletion.request.pending", FindPending)
    /\ UNCHANGED tables

Request_FindPending(h) ==
    /\ Runs(h, "deletion.request.user")
    /\ loc[h].status = "active"
    /\ Await(h, "deletion.request.pending", FindPending)
    /\ UNCHANGED tables

\* 409, whether or not the pending request has expired
Request_AlreadyPending(h) ==
    /\ Runs(h, "deletion.request.pending")
    /\ loc[h].pending # {}
    /\ Respond(h)
    /\ UNCHANGED tables

\* Insert the pending row; the code is emailed one microtask later
Request_Insert(h) ==
    /\ Runs(h, "deletion.request.pending")
    /\ loc[h].pending = {}
    /\ \E d \in DeletionIds :
         /\ NextRow(deletions, d)
         /\ deletions' = [deletions EXCEPT ![d] =
              [st |-> "pending", expires |-> clock + DeletionTTL]]
    /\ Park(h, "deletion.request.sent", NoLocals)
    /\ UNCHANGED <<user, sessions, recoveries, notices, otps>>

\* 202 whatever the delivery result is
Request_Answer(h) ==
    /\ Runs(h, "deletion.request.sent")
    /\ Respond(h)
    /\ UNCHANGED tables

-----------------------------------------------------------------------------
Confirm_FindPending(h) ==
    /\ Runs(h, "deletion.confirm")
    /\ Await(h, "deletion.confirm.pending", FindPending)
    /\ UNCHANGED tables

\* 404 nothing pending, 410 expired, 422 wrong code
Confirm_Refuse(h) ==
    /\ Runs(h, "deletion.confirm.pending")
    /\ Respond(h)
    /\ UNCHANGED tables

\* Variant: real I/O between the check of the code and the transaction.
Confirm_FindUserSlowly(h) ==
    /\ Runs(h, "deletion.confirm.pending")
    /\ \E d \in loc[h].pending :
         /\ clock <= deletions[d].expires
         /\ Park(h, "deletion.confirm.user", [request |-> d, email |-> user.email])
    /\ UNCHANGED tables

\* The code matches: findById, to keep the email that is about to go
Confirm_FindUser(h) ==
    /\ Runs(h, "deletion.confirm.pending")
    /\ \E d \in loc[h].pending :
         /\ clock <= deletions[d].expires
         /\ Await(h, "deletion.confirm.user", [request |-> d, email |-> user.email])
    /\ UNCHANGED tables

\* Variant: the row is marked deleted and keeps the address.
MarkDeleted == user' = [user EXCEPT !.status = "deleted"]

\* The users row keeps its id and loses its identity.
Anonymise ==
    user' = [user EXCEPT !.status = "deleted", !.email = "anonymised"]

\* Variant: addresses the notice from the row just anonymised.
QueueNoticeFromRow(recipient) ==
    \E n \in DOMAIN notices :
      /\ NextRow(notices, n)
      /\ notices' = [notices EXCEPT ![n] =
                       [st |-> "queued", owner |-> user'.email = "own"]]

QueueNotice(recipient) ==
    \E n \in DOMAIN notices :
      /\ NextRow(notices, n)
      /\ notices' = [notices EXCEPT ![n] =
                       [st |-> "queued", owner |-> recipient = "own"]]

\* The transaction; 200.
Confirm_Commit(h) ==
    /\ Runs(h, "deletion.confirm.user")
    /\ Anonymise
    /\ deletions' = [deletions EXCEPT ![loc[h].request].st = "confirmed"]
    /\ InvalidateAllForUser
    /\ QueueNotice(loc[h].email)
    /\ Respond(h)
    /\ UNCHANGED <<recoveries, otps>>

-----------------------------------------------------------------------------
Cancel_FindPending(h) ==
    /\ Runs(h, "deletion.cancel")
    /\ Await(h, "deletion.cancel.pending", FindPending)
    /\ UNCHANGED tables

\* 404 nothing pending
Cancel_NotFound(h) ==
    /\ Runs(h, "deletion.cancel.pending")
    /\ loc[h].pending = {}
    /\ Respond(h)
    /\ UNCHANGED tables

\* updateStatus(request.id, 'cancelled'): by id, whatever the status is now; 200
Cancel_Update(h) ==
    /\ Runs(h, "deletion.cancel.pending")
    /\ \E d \in loc[h].pending :
         deletions' = [deletions EXCEPT ![d].st = "cancelled"]
    /\ Respond(h)
    /\ UNCHANGED <<user, sessions, recoveries, notices, otps>>

DeletionStep(h) ==
    \/ Request_FindUser(h)
    \/ Request_NotActive(h)
    \/ Request_FindPending(h)
    \/ Request_AlreadyPending(h)
    \/ Request_Insert(h)
    \/ Request_Answer(h)
    \/ Confirm_FindPending(h)
    \/ Confirm_Refuse(h)
    \/ Confirm_FindUser(h)
    \/ Confirm_Commit(h)
    \/ Cancel_FindPending(h)
    \/ Cancel_NotFound(h)
    \/ Cancel_Update(h)

DeletionStatements == DeletionRoutes \cup
    {"deletion.request.user", "deletion.request.pending",
     "deletion.confirm.pending", "deletion.confirm.user", "deletion.cancel.pending"}

-----------------------------------------------------------------------------
Pending == {d \in DeletionIds : deletions[d].st = "pending"}
Confirmed == {d \in DeletionIds : deletions[d].st = "confirmed"}
Queued == {n \in DOMAIN notices : notices[n].st = "queued"}

\* A user has at most one pending deletion request.
OnePendingDeletion == Cardinality(Pending) <= 1

\* A confirmation code finalises a deletion at most once: the account is deleted
\* once, so one notice of it is queued.
OneNotice == Cardinality(Queued) <= 1

\* The deletion transaction is all or nothing: the account is deleted exactly when
\* a request of it is confirmed and a notice is queued, and the identity goes with
\* the status.
DeletionIsAtomic ==
    /\ user.status = "deleted" <=> Confirmed # {}
    /\ user.status = "deleted" <=> Queued # {}
    /\ user.status = "deleted" <=> user.email = "anonymised"

\* A deleted account is never anything else again, whatever was in flight.
DeletedIsFinal ==
    [][user.status = "deleted" =>
         user'.status = "deleted" /\ user'.email = user.email]_<<user>>

\* Every notice of a deletion goes to the address the account had before it.
NoticesReachTheOwner == \A n \in Queued : notices[n].owner
=============================================================================
