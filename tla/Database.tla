------------------------------ MODULE Database ------------------------------
(***************************************************************************)
(* The SQLite tables, seen from one account: every query of the services   *)
(* is keyed by the account's id or email, so accounts share nothing but    *)
(* the event loop.  One operator per repository statement; better-sqlite3  *)
(* is synchronous, so a statement, or a whole `withTransaction`, is atomic.*)
(*                                                                         *)
(* Rows of a table are numbered in insertion order (rowid).  `st` is       *)
(* "absent" until the row is inserted; no code deletes a row.  A timestamp *)
(* nothing compares (created_at, last_login_at, ...) is left out.          *)
(*                                                                         *)
(* History fields, which no guard reads: sessions[s].checked is the        *)
(* password hash that the login of s compared, sessions[s].stored the one  *)
(* in the users row when s was inserted, recoveries[t].uses the number of  *)
(* resets committed with token t, notices[n].owner whether the notice is   *)
(* addressed to the person who owned the account.                          *)
(***************************************************************************)
EXTENDS Naturals, FiniteSets

CONSTANTS
    MaxSessions, MaxTokens, MaxDeletions, MaxNotices, MaxOtps,  \* rows
    InitialStatus,    \* status of the account when the process starts
    InitialSessions,  \* live sessions it has then, of earlier logins
    InitialExpiry     \* their expires_at

ASSUME TablesAssumption ==
    /\ {MaxSessions, MaxTokens, MaxDeletions, MaxNotices, MaxOtps} \subseteq Nat
    /\ InitialSessions \in 0..MaxSessions
    /\ InitialExpiry \in Nat \ {0, 1}

VARIABLES
    user,        \* the users row
    sessions,    \* sessions
    recoveries,  \* password_recovery_requests
    deletions,   \* account_deletion_requests
    notices,     \* account_deletion_notification_records
    otps         \* otp_requests

tables == <<user, sessions, recoveries, deletions, notices, otps>>

Statuses == {"pending", "active", "suspended", "deleted"}

ASSUME StatusAssumption ==
    /\ InitialStatus \in {"pending", "active"}
    /\ InitialSessions > 0 => InitialStatus = "active"

\* users.email: the owner's address, or `deleted-<id>@deleted.invalid`.
Emails == {"own", "anonymised"}

UserRow == [status : Statuses, email : Emails, hash : Nat, failed : Nat,
            lockedUntil : Nat]
SessionRow == [st : {"absent", "live", "revoked"}, expires : Nat,
               checked : Nat, stored : Nat]
RecoveryRow == [st : {"absent", "open", "consumed"}, expires : Nat, uses : Nat]
DeletionRow == [st : {"absent", "pending", "confirmed", "cancelled"},
                expires : Nat]
NoticeRow == [st : {"absent", "queued"}, owner : BOOLEAN]
OtpRow == [st : {"absent", "active", "invalidated"}, expires : Nat]

TablesOK ==
    /\ user \in UserRow
    /\ sessions \in [1..MaxSessions -> SessionRow]
    /\ recoveries \in [1..MaxTokens -> RecoveryRow]
    /\ deletions \in [1..MaxDeletions -> DeletionRow]
    /\ notices \in [1..MaxNotices -> NoticeRow]
    /\ otps \in [1..MaxOtps -> OtpRow]

\* locked_until NULL is 0: the clock starts at 1, so it is never in the future.
TablesInit ==
    /\ user = [status |-> InitialStatus, email |-> "own", hash |-> 0,
               failed |-> 0, lockedUntil |-> 0]
    /\ sessions = [s \in 1..MaxSessions |->
                     IF s <= InitialSessions
                       THEN [st |-> "live", expires |-> InitialExpiry,
                             checked |-> 0, stored |-> 0]
                       ELSE [st |-> "absent", expires |-> 0,
                             checked |-> 0, stored |-> 0]]
    /\ recoveries = [t \in 1..MaxTokens |->
                       [st |-> "absent", expires |-> 0, uses |-> 0]]
    /\ deletions = [d \in 1..MaxDeletions |-> [st |-> "absent", expires |-> 0]]
    /\ notices = [n \in 1..MaxNotices |-> [st |-> "absent", owner |-> FALSE]]
    /\ otps = [o \in 1..MaxOtps |-> [st |-> "absent", expires |-> 0]]

Full(table) == \A i \in DOMAIN table : table[i].st # "absent"

-----------------------------------------------------------------------------
\* The row the next INSERT into a table fills.
NextRow(table, i) ==
    /\ table[i].st = "absent"
    /\ \A j \in DOMAIN table : j < i => table[j].st # "absent"

\* SELECT ... WHERE status = ? LIMIT 1: the first such row, if there is one.
Selected(table, st) ==
    {i \in DOMAIN table : /\ table[i].st = st
                          /\ \A j \in DOMAIN table : j < i => table[j].st # st}

-----------------------------------------------------------------------------
(* UserRepository *)

FindByEmail(address) == user.email = address

IncrementFailedLoginCount == user' = [user EXCEPT !.failed = @ + 1]

\* Variant: takes one failure back instead of clearing them.
ForgiveOneFailure == user' = [user EXCEPT !.failed = @ - 1]

ResetFailedLoginCount == user' = [user EXCEPT !.failed = 0]

LockAccount(until) == user' = [user EXCEPT !.lockedUntil = until]

-----------------------------------------------------------------------------
(* SessionRepository *)

\* Variant: a login also renews the sessions the user already has.
InsertSessionRenewing(checked, expires) ==
    \E s \in DOMAIN sessions :
      /\ NextRow(sessions, s)
      /\ sessions' = [k \in DOMAIN sessions |->
                        IF k = s THEN [st |-> "live", expires |-> expires,
                                       checked |-> checked, stored |-> user.hash]
                        ELSE [sessions[k] EXCEPT !.expires = expires]]

InsertSession(checked, expires) ==
    \E s \in DOMAIN sessions :
      /\ NextRow(sessions, s)
      /\ sessions' = [sessions EXCEPT ![s] =
                        [st |-> "live", expires |-> expires,
                         checked |-> checked, stored |-> user.hash]]

MarkInvalidated(s) == sessions' = [sessions EXCEPT ![s].st = "revoked"]

Revoked(row) == IF row.st = "live" THEN [row EXCEPT !.st = "revoked"] ELSE row

\* Variant: only the first live session is found.
InvalidateOneForUser ==
    sessions' = [s \in DOMAIN sessions |->
                   IF s \in Selected(sessions, "live") THEN Revoked(sessions[s])
                   ELSE sessions[s]]

\* UPDATE sessions SET invalidated = 1 WHERE user_id = ? AND invalidated = 0
InvalidateAllForUser ==
    sessions' = [s \in DOMAIN sessions |-> Revoked(sessions[s])]
=============================================================================
