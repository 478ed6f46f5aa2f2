# Formal model of the User Management System

TLA+ modules of the API in `src/BACKEND` and of the pages in `src/FRONTEND`, the
TLC runs that check them and the TLAPS proofs about them. Everything here is read
from the source; paths without a prefix are under `src/BACKEND/src/`, or under
`src/FRONTEND/src/app/` for `.tsx` files and `lib/`.

Contents: [what the system is](#1-the-system), [how the modules mirror
it](#2-the-modules), [runs](#3-the-runs), [what the code does not
keep](#4-what-the-code-does-not-keep), [proofs](#5-the-proofs), [what is left
out](#6-what-is-left-out), [plan](#7-plan).

## 1. The system

A Node.js/Express API over one SQLite file (better-sqlite3), one Redis and
SendGrid, deployed as one replica (`k8s/base/backend-deployment.yaml`); a React
front end calls it. It registers accounts, confirms them by a one-time passcode,
logs them in, lets them recover a password and delete themselves.

| component | state it keeps | operations | must be true of it |
|---|---|---|---|
| event loop (`server.ts`, `app.ts`) | microtask queue, suspended handlers | a request arrives, I/O completes, a handler runs to its next `await`, the process dies | every request is answered |
| database (`repositories/`, `db/`, migrations) | users, sessions, otp_requests, password_recovery_requests, account_deletion_requests, two email queues | one synchronous statement, or one transaction | the constraints of the migrations |
| login and lockout (`auth.service.ts`, `login-guard.ts`) | `failed_login_count`, `locked_until` | login | locked at the threshold; a deleted or suspended account gets no usable session |
| sessions (`session.service.ts`, the validation middleware) | sessions | create, validate (ending the session of an account that is not active), invalidate | a session that is over stays over; a request runs on a session that is valid |
| profile (`user-profile.service.ts`) | none | read | runs behind the guard |
| password recovery (`password-recovery.service.ts`) | recovery requests, password hash | request, reset | a token changes the password once; a reset ends all older sessions |
| account deletion (`account-deletion.service.ts`) | deletion requests, status, email | request, confirm, cancel | one pending request, one notice to the right address, all or nothing, final |
| passcodes (`otp.service.ts`, `rate-limit.guard.ts`) | otp_requests, a Redis counter with a TTL | send and resend, verify | one active passcode, only it verifies; a rate limit ends |
| deletion notices (`workers/account-deletion-notification.worker.ts`) | notification records | poll: send, mark, retry or give up | every notice settles, none is given up early, few are sent twice |
| registration (`registration.controller.ts`, `registration.service.ts`, `username-uniqueness.validator.ts`) | users, as new rows | validate, check the username, hash, insert, send the passcode, answer | one account per username and address; the owner learns the id |
| activation by link (`activation.service.ts`) | activation_tokens, status | activate | once, and never after a deletion |
| admin resend and outbox (`email-dispatch.service.ts`, `workers/outbox.worker.ts`) | registration_email_records | resend; poll: send, mark, retry or give up | a record has a token; what is queued settles |
| start and shutdown (`server.ts`, `db/migrate.ts`, `config/`) | schema_migrations, the schema, the phase of the process | load the configuration, migrate, listen, stop, exit | only the whole schema is served; every start gets through |
| input checks (`validators/`, the forms' own) | none; they decide what enters `users` | check, trim, compare | what was typed gets in as typed, and out again at a login |
| API client and session storage (`lib/api-client.ts`, `lib/session.ts`, `RequireAuth.tsx`) | localStorage, the route, calls in flight | call, store, clear, navigate | signed-in pages need a session |
| pages (`LoginForm`, `RegistrationForm`, `OtpVerificationForm`, `AccountDeletionTemplate`, headers) | the state of the form shown | submit, answer, leave, resend, redirect | one call per form, none stuck; no deletion without its proof |
| health check, the ui kit and other presentation, error and type files | none that is shared | | not modelled, see [below](#6-what-is-left-out) |

**Interactions.** The HTTP handlers share the process, the database rows of the
account and the Redis key. Login reads the users row that reset, deletion and
verification write; the guard reads sessions that login inserts and that logout,
reset and deletion revoke; deletion and the administrator's resend queue records
that timer-driven workers send; activation, verification and deletion all write
the status. All tabs of a browser share one localStorage, and a page reads the
token when it sends a call, not when it was shown. Nothing takes a lock; atomicity comes only from the event loop and from
SQLite transactions.

**What is hard here.** Each service checks something, awaits, and acts on what it
checked. Whether another request can run in between depends on what it awaits:

* `await` on a repository call is an `await` on a promise that is already
  resolved, because better-sqlite3 is synchronous. The handler goes to the back
  of the microtask queue, and Node drains that queue before it takes the next
  event. A request on another connection therefore cannot get in between.
* `await bcrypt.compare/hash` (thread pool), a Redis command or a SendGrid call
  leaves the queue, and any other request can run until it completes.
* Requests pipelined in one TCP segment of one connection are parsed by one read
  event, and Redis replies that arrive in one chunk resolve several promises at
  once: their microtasks do alternate.

The rest is crashes and failing statements between two statements of a handler
(not in a transaction), retries whose count was read before the send, timers
that fire again before the last tick is done, two processes that migrate one
file, and, in the browser, continuations that run after their page was left. The
list, each at its line, is
`hazards` in `PROJECT.json`.

## 2. The modules

```
EventLoop   Database
     \       /
      Login -- SessionGuard -- PasswordRecovery, AccountDeletion, Otp
                       \        |        /
                        AccountService  --implements-->  SessionLifecycle
                        /       \
       MCAccountService          AccountService_proofs -- AccountSafety_proofs
                                                                  |
                                                        AccountOrder_proofs

EventLoop -- Registration  --implements-->  Directory
                  |
       MCRegistration, Registration_proofs

NotificationWorker -- MCNotificationWorker, NotificationWorker_proofs
        ^
        | implements
EventLoop -- Activation     Config -- Startup
                  \             /  \
                      Backend      FormData -- MCFormData, FormData_proofs
                     /       \
             MCBackend       Backend_proofs

WebClient -- SignInPages -- SignUpPages, DeletionPage
                                   \      /
                                    WebApp -- MCWebApp, WebApp_proofs
```

* **EventLoop** is the Node process. A handler is one of `Handlers` slots with a
  resume label `pc[h]` and closure locals `loc[h]`; `ready` is the microtask
  queue. `Runs(h, label)` is the guard of every step: only the head of the queue
  runs. `Await` is an await on a resolved promise (to the back of the queue),
  `Park` an await on real I/O (out of the queue until `Wake`), `Respond` the end.
  `Arrive` and `Wake` need an empty queue. `MaxBatch` is the number of requests
  one read event can dispatch (1: no pipelining), `MaxReplies` the number of
  Redis replies one event can carry. `Restart` empties everything but what is
  stored.
* **Database** has one operator per repository statement and one variable per
  table. It holds the rows of *one account*: every statement of the modelled
  services is keyed by the account's id, email or one of its tokens, so two
  accounts meet only in the queue, which the other slots stand for. Rows are
  numbered in insertion order. Columns nothing compares are left out. Four
  history fields, read by no guard, let properties speak of the past:
  `sessions[s].checked` and `.stored` (the password hash that the login compared,
  and the one stored when the row was inserted), `recoveries[t].uses` and
  `notices[n].owner`.
* **Login, SessionGuard, PasswordRecovery, AccountDeletion, Otp** have one action
  per stretch of a handler between two awaits, named after the service and what
  the stretch does; the label a handler waits at is `"route.statement"`. A whole
  `withTransaction` is one action. Whether a typed password, passcode or
  deletion code is the right one, and whether a new password passes the policy,
  is a nondeterministic choice: `Login_Match` and `Login_CountFailure` are both
  enabled after the comparison. Expiry uses the clock and the same comparison
  (`<` or `<=`) as the code. Otp also holds the Redis key, as a counter that may
  have no TTL.
* **SessionGuard** is the middleware in front of profile and deletion routes. It
  includes the side effect of `validateSession`: a live session of an account
  that is not active is revoked. After it, the route's handler is entered in the
  same step, as `next()` does.
* **AccountService** composes the routes and adds what can happen to all of them:
  `StatementFails` (a statement or Redis command throws and the controller
  answers 500), `Crash`, `TableFull` (the model's bound on rows is reported to
  the handler as a failing INSERT, so that no handler gets stuck), the clock, and
  `Suspend`. No code writes 'suspended', but every service tests it, so it is a
  change made outside the program.
* **SessionLifecycle** is the abstract specification: a session is unissued,
  usable or over, and an account is open or closed. `AccountService` implements
  it under the mapping *usable = what the middleware would accept now*, so
  expiry, which no code executes, is a step of it.
* **Registration** is the one route that makes accounts meet, so it has the table
  of `users` with several rows and no other table. Its handler is
  `registerUser` from the first validation to the 201. `Register_CheckName` is
  the uniqueness validator's SELECT, `Register_Hash` leaves the queue for bcrypt,
  and after it `Register_Insert` or `Register_Conflict` is decided by the two
  unique indexes, as SQLite does. `Register_CountAttempt` to `Register_Mark` are
  the `sendOtp` of a new account: its Redis key and passcode rows do not exist,
  so it supersedes nothing and is over the limit only if that is 0, which the
  configuration accepts (`limit`, `Register_Limited`). A failed statement is
  answered 500 only inside the controller's `try`. `Verify` and `Delete` are the
  commits of Otp and AccountDeletion, the other two changes of a row that matter
  here: a verification needs the account's id, which only the 201 tells
  (`told`, a history field), and a deletion frees username and address. A username is a
  normal form and whether it was typed in it. `'suspended'` is left out: the
  indexes do not tell it from `'active'`.
* **Directory** is the abstract specification: a set of claims on a username and
  an address; a claim needs both free and ends only by release.
* **NotificationWorker** is the worker on its own: it shares with the API only
  the records that `Queue` inserts. `setInterval` does not wait for the poll it
  started, so several polls run at once, each with the snapshot (`todo`, `seen`)
  that it read. `Miscount` is an email that went out and was counted as a
  failure, `Crash(out)` a crash after the email of the polls in `out` left.

* **Config** evaluates `src/config` on an environment: `Loads(env)` is that no
  module throws. A raw value is kept as far as the parsers tell it apart (unset,
  blank, `true`, `false`, other text, a number), with every key, default and range.
* **Startup** is `server.ts` around it and the migration loop, run by the server
  and by `npm run db:migrate` on one file. Each `Runner` reads the applied files
  once (`missing`) and applies the rest one transaction each; a table that the
  other runner has created meanwhile ends it (`Clash`). `tables` and `applied` are
  kept apart because a runner that committed them apart could not start again.
* **Activation** is `activate` and `resendConfirmation` by the statements of their
  services, with the two constraints of `registration_email_records`. No code of
  the running system issues an activation token: registration sends a passcode.
  What there is to start with is a volume of an earlier release: its pending accounts
  have a token each and, unless it was lost, a record that is queued, sent or given
  up (`EarlierRecords`). `Verify_*` and `Delete_*` are the passcode check and the
  confirmation of a deletion with the turns and the account status of Otp and of
  SessionGuard and AccountDeletion; their sessions, passcodes and codes are a
  choice (`Failed` refuses at any turn). Of a registration only the commit is kept
  (`RegisterUser`), which no await precedes in its event. The outbox worker is the loop of the notification worker over another
  table, so its actions are `NotificationWorker`'s.
* **Backend** puts the two together: requests arrive and polls start while the
  server is up, answers are taken while the database is open, the end of the
  process ends requests and polls and keeps the file. The updates of a poll that
  `stop()` did not wait for still arrive until the database closes.
* **WebClient** is what the pages share: localStorage (`stored`), the route of
  each tab, `RequireAuth`, links, and `job`, the calls and timers that are pending.
  A continuation is tied to its *form* while the component is mounted, to the
  *tab* after the router has left it (`setState` shows nothing, `setSession` and
  `navigate` still work), and to *none* after the document was replaced. Timers
  have no length: a timer that is pending can fire at any time.
  The server is one step per request here and may always refuse, which covers what
  the other modules say of it. `Back` allows any route but the passcode page,
  whose history entry with its id counts as lost.
* **SignInPages, SignUpPages, DeletionPage** have one action per handler and one
  per continuation of a page; **WebApp** composes them. The deletion page takes its
  account from the session when it mounts, and again at any render as long as it has
  no profile (`Renew`); a profile that arrives after such a render shows
  the account of the token it was asked for with, which is the one at the mount.
* **FormData** follows what is typed through four checks that trim differently:
  the form's, `DefaultRegistrationValidator`, `DefaultEmailValidator` with the
  password policy, and those of a login. A text is a core and the spaces after it.
  Passwords that differ do so within the 72 bytes that bcrypt reads. A
  500 may follow the commit and then the row stays (`Insert_Fails`). Registrations
  come one at a time here; `Registration` overlaps them.

The operators whose comment begins with *Variant* are plausible mistakes (a
dropped guard, an inclusive limit, a check moved after an await). No run uses
them; they show for every property a change of the code that would break it,
and `mutants` in `PROJECT.json` pairs them.

## 3. The runs

All runs are `MC<module>` with `MC_<run>.cfg`. Two slots suffice for a race
between two requests, and slots are reused, so sequences of requests are longer
than two. A tick is the unit of every TTL; bounds on rows are bounds on how often
something happens before the table reports full.

| run | bounds | what it shows |
|---|---|---|
| `credentials` | 2 requests, login/recovery/reset/profile and a suspension, 2 sessions, 1 token, clock to 2, 1 fault | `LiveSessionsPostdateReset`: after a reset no session inserted before it is live. `TokenUseBound`: a token is used at most once per request in flight, and consumed iff used. `FailureOverrun`: the failure count passes the threshold by no more than the overlap and the faults. `ImplementsLifecycle`. |
| `deletion` | 2 requests on separate connections, login/profile/request/confirm/cancel, 2 sessions, 2 requests, 2 notices, clock to 3, 1 fault | `OnePendingDeletion`, `OneNotice`: check-then-act is safe because only microtasks lie between. `AcceptedIsCurrent`: when a guarded route starts, its session is live and the account active. `DeletionIsAtomic`: a statement that throws, also within the transaction, or a crash leaves a deletion done or not done. |
| `pipelined` | 2 requests that may be pipelined, and Redis replies together; login/logout/profile/deletion/passcodes | `NoticesReachTheOwner`, `DeletedIsFinal` (no verification in flight revives the account), `ImplementsLifecycle`, all without the protection of `deletion`. |
| `otp` | 2 requests, account pending, 3 passcodes, clock to 3, 1 fault, `FairSpec` | `OneActiveOtp`, `VerifiesActiveOtp` (a superseded passcode never verifies), `WindowOpensByFault`: no order of requests and replies, but only a failure or crash of the request that counted it, leaves a counter without an expiry. `RequestsAnswered`: no path of the handlers forgets to answer. |
| `worker` | 2 polls, 2 records, 1 retry, 1 fault, `FairSpec` | `RetryBound`, `GivenUpAfterRetries`, `DuplicatesBounded`, `SettledIsFinal`, `EveryNoticeSettles`. |
| `registration` | 2 requests, that may be pipelined, 2 usernames in 2 spellings, 2 addresses, 3 rows, 1 fault, a limit of 0 or 1 passcodes | `ImplementsDirectory`: whatever passed the uniqueness check meanwhile, two accounts never share a username or an address. `StrandedBounded`: an account that exists and whose owner was never told its id is the work of a fault that hit its request, unless the limit is 0. |
| `backend` | 2 requests, that may be pipelined, 1 account, clock to 2, 1 poll, 1 retry, 1 worker fault, 3 migrations, 1 end of the process, 6 environments (the default and one of each refused kind), `FairSpec` | `ServesFullSchema`: with two runners on one file and a kill anywhere. `DeletedIsFinal`: activation, passcode check and deletion read together, each acting on a status read turns before. `QueuedHaveTokens`: the resend and the outbox. `ComesUp`, `ConfirmationsSettle`: the process gets through every start and a queued confirmation through every restart. |
| `webapp` | 1 tab, 2 accounts, 2 pending calls or timers, 2 sessions, 1 lost answer | `OneCallPerForm`, `BusyFormsAwait`: each form's own guard. `ProtectedNeedsSession`. `DeletesOnlyProven`: no late answer of an earlier visit makes the page delete an account whose password it did not verify. `StrandedOnlyByLeaving`: no handler loses the id of a new account. |
| `forms` | 1 username, 1 mailbox in 3 shapes, 5 passwords around the lengths 0, 8, 72 and 128, each with or without a space after it, 1 row, 2 policies | `RegisteredCanSignIn`, `PasswordsMeetPolicy`, and `RefusalsShow`: the form shows every refusal, at a field that is wrong. |

Why these are enough: a fault budget of 1 puts one failure or crash at every
point of every interleaving; a threshold of 2 makes the second failure the one
that races; TTLs of 1 and a clock of 2 or 3 give every token a time before, at
and after its expiry; two rows of a table are the least that can be *two of* what
there must be one of; the third user row is one that takes a name or an address
again after a deletion. In `backend` one poll is enough because `worker` has two,
and two of activation, passcode and deletion at a time because the theorem
`DeletionIsFinal` has any number; a third migration is one that is left when the
second is lost to the other runner. In `webapp` two calls are one that was issued before the page was left and
one after; two tabs share only localStorage, and the run that needs them is
`v_wrong_account`. The theorems below remove the bounds for the properties
they cover. The handlers are interchangeable in every formula but the fair ones,
so the safety runs use symmetry and the fair runs do not.

`worker` has `CHECK_DEADLOCK FALSE`: when all records are settled the worker has
nothing to do. So has `webapp`, whose bound on pending calls can leave a page that only
sends nothing to do. All other passing runs check deadlock,
since a request or a new start can always come.

**Fairness.** `FairSpec` of `AccountService` is weak fairness of each handler's
step (the loop runs what is in the queue) and strong fairness of its I/O
completion: a completion can be delayed each time by another event that fills
the queue, but epoll, the Redis connection and the thread pool report a
completion again until it is taken, and none of them starves one forever. No
fairness is assumed of arrivals, of the clock, or of faults. bcrypt always
completes; a Redis or SendGrid call ends with an answer or an error, which the
client libraries' timeouts give. `FairSpec` of the worker is weak fairness of the
interval tick and of the answer to a send, for the same reason. `FairSpec` of
`Backend` has weak fairness of what the server does by itself when it is not up
(`Progress`: the deployment restarts a container that ended, and the loop over the
files is synchronous) and of the microtasks, and strong fairness of the poll and its
answer, which the loop takes between requests however many there are. It assumes nothing of
`db:migrate`, which may hang half-way for ever. `webapp` and `forms` check safety
only.

## 4. What the code does not keep

Each of these runs checks one property that a comment of the repository states,
and TLC answers with a run of the code that breaks it.

| run | statement | what happens |
|---|---|---|
| `v_stale_session` | "password_hash + token consumed + all sessions invalidated" (`services/password-recovery.service.ts:23`) | a login that compared the old hash inserts its session after the reset |
| `v_wrong_account` | "Re-verify the current password against the real login endpoint before allowing a destructive action." (`IdentityVerificationCard.tsx:38`) | the request and the confirmation read the token when they are sent; a login in another tab has replaced it, and they act for an account whose password this page did not ask for |
| `v_shutdown` | "Stop the polling interval — allows clean shutdown." (`workers/outbox.worker.ts:54`) | `stop()` does not wait for the poll under way: its email goes out after the database closed, the update throws, and the record is sent again after the restart |

The other statements the code does not keep are recorded here, beside the
property or theorem that says what remains of them:

* "locks the account once the threshold is reached" (`services/login-guard.ts:26`):
  the test uses the count read before bcrypt, so two wrong passwords that overlap
  can bring the stored count to the threshold with no lock. `FailureOverrun` bounds
  by how much.
* "a recovery request can be consumed at most once"
  (`services/password-recovery.service.property.test.ts:189`): two resets read the
  token before either has hashed, and both commit. `TokenUseBound`.
* "Please request a new one" (`errors/account-deletion.errors.ts:57`): the expired
  request is still pending, so a new one is refused with 409
  (`services/account-deletion.service.ts:122`) until it is cancelled.
* "so the counter resets automatically once the window elapses"
  (`services/rate-limit.guard.ts:6`): when INCR succeeds and EXPIRE fails, or the
  process dies between them, the counter has no expiry, and no later request sets
  one (with `WindowCloses` as an invariant `otp` fails). `WindowOpensByFault` is what
  remains, and a theorem.
* "On success: delivery_status -> 'sent'"
  (`workers/account-deletion-notification.worker.ts:15`): two polls send one
  notice and the failure of the second overwrites 'sent'. `SettledIsFinal` is what
  remains.
* "password === passwordConfirmation" (`validators/registration.validator.ts:47`):
  the server compares both trimmed and stores the first as it was sent. Only the form
  compares them as typed.
* The deletion page catches no rejection: after a call that got no answer it stays
  disabled (`AccountDeletionTemplate.tsx:114`, the exception in `BusyFormsAwait`).
* The passcode page has the id of the account only in the state of its route. An
  anchor (`#`) of the page's own footer or skip link drops it, and the account then
  cannot be verified from the browser (the exceptions in `StrandedOnlyByLeaving`).
  So does the redirect after a verification, when a late registration answer has
  put another account on the same page in the meantime: this takes three calls and
  timers at once, one more than the run `webapp` has.
* In `deletion` with `MaxBatch = 2` (requests pipelined on one connection),
  `OnePendingDeletion` and `OneNotice` fail: the transaction of `confirmDeletion`
  does not test the request's status again, and no unique index backs "at most one
  pending request per user". `OnePending` and `OneNoticeQueued` prove them for
  `MaxBatch = 1`.
* In `pipelined` with `AcceptedIsCurrent` added, that fails too: a logout read
  together with a guarded request revokes the session after the middleware has read
  it and before the route starts. So does a suspension, at any time. `AcceptedCurrent` proves it for `MaxBatch = 1` and no suspension.
* In `pipelined` with `"suspend"` among the operations, `ImplementsLifecycle`
  fails: `verifyOtp` writes status 'active' without looking at the row again, so
  a verification in flight undoes a suspension made from outside; of two that were
  pipelined the second even does so with the passcode that the first has spent
  (`VerifiesActiveOtp` in `otp` with `MaxBatch = 2` and `"suspend"`). It cannot undo
  a deletion, though it does not look for that either: of requests that were
  read together the verification commits at its third turn of the queue and the
  deletion at its sixth (`DeletionFinal`).
* "registration always returns 201 once the user row is committed"
  (`controllers/registration.controller.ts:101`): when Redis or a passcode statement
  throws, `sendOtp` throws, the answer is 500, and username and address stay
  taken by an account that its owner cannot verify for want of the id. With an
  `OTP_MAX_ATTEMPTS_PER_WINDOW` of 0 that is so of every registration.
  `StrandedBounded` is what remains: for any other limit only faults do it.
* "concurrent duplicate activations are serialised by the DB transaction + the
  consumed flag" (`services/activation.service.ts:14`): two activations read together
  both found the token fresh, the transaction looks at no flag, and both answer 200.
  `DeletedIsFinal` is what remains: what they write twice is the same, and no
  deletion is undone.
* "admin resend always creates a fresh record"
  (`services/email-dispatch.service.ts:94`): an account registered now has no token,
  so the insert violates the foreign key; one with a record violates
  `UNIQUE (user_id)` (`Resend_Conflict`). `QueuedHaveTokens` is what remains.
* An address already in use is answered 500: `isUsernameConflictError` knows only
  the username index (`Register_Conflict`), while
  `src/specs/spec-US-056/technical.md:44` and `src/specs/spec-US-057/technical.md:102`
  expect 409.

## 5. The proofs

All are checked by TLAPS for every value of the constants allowed by the
assumptions `LoopAssumption`, `TablesAssumption`, `StatusAssumption`,
`FaultAssumption`, `WorkerAssumption`, `RegistrationAssumption`,
`StartupAssumption`, `ActivationAssumption`, `FormDataAssumption`, `WebAssumption`
and those of the route modules, which say only that handlers and polls are finite non-empty sets,
that bounds are natural numbers, that the threshold, the lock and the session last
at least 1 (as the loader requires) and so do the other TTLs (the loader checks only
that they are numbers; with 0 or less what is issued is expired when it is issued),
that environments have the keys of `src/config` and, in `FormData`,
are ones with which the process starts. So they
hold with any number of requests in flight, pipelined or not. Some theorems say in
an `ASSUME` of their own that they need more: no pipelining, no suspension or one
tab. For each such hypothesis TLC, run without it, has a
counterexample (section 4; for the tabs, `v_wrong_account` and a logout in the
other one).

* **`AccountService_proofs!TypeCorrect`**: `Spec => []TypeOK`. One lemma per
  route family; what makes it more than bookkeeping is `Frame`: at every resume
  point the handler holds exactly the locals it is about to read.
* **`AccountSafety_proofs!SessionsPostdateReset`**: `Spec =>
  []LiveSessionsPostdateReset`. Inductive with `TypeOK`: a reset changes the hash
  and revokes every live session in one transaction, an insertion records the
  hash stored at that time, and nothing else does either.
* **`TokensUsedBoundedly`**: `Spec => []TokenUseBound`. The bound alone is not
  inductive: a second use is possible only for a request that already holds the
  token. `TokenInv` adds these: uses plus the requests that hold the token past
  its check never exceed the number of handlers. A use takes its request out of
  the holders, and once the token is consumed no request can join them.
* **`OverrunBounded`**: `Spec => []FailureOverrun`. The strengthening
  `OverrunInv` has four parts. `QueueInv`: a handler is in the queue once.
  `SoloInv`: a login past its comparison is alone in the queue, so nothing
  separates the count, the threshold test and the lock. `RowInv`: a row that was
  just read holds the stored count. `CountInv`: the stored count plus the
  comparisons in flight that would count a failure without locking (`Low`) stays
  within the threshold, the handlers, the faults and one failure that is counted
  and about to be cleared (`Owed`). With an empty queue nothing is owed, which is
  the property.
* **`AccountOrder_proofs`** makes an argument of the order of the microtask queue.
  `Turn(label)` is the number of turns a handler at that label has had since its
  request or its I/O arrived. `HandlersInLockstep` proves that handlers which run
  together are at most one turn apart, the ones ahead further back (`Lockstep`, with
  `Present`: who neither is free nor waits for I/O is in the queue). The other
  results count turns.
  - `DeletionAtomic`, `NoticesAddressed`, `DeletionFinal`, unconditionally. Alone they
    are not inductive: a verification could revive a deleted account, a cancellation
    take back a confirmed request. `DeletionInv` adds that whoever saw the account
    undeleted and is about to act on it (`Undeleted`) still sees it so. The commit of
    a deletion comes later than all of these labels, so nobody is at one of them then.
  - `OneActivePasscode`, unconditionally: the unique index is enough, whatever the
    invalidation before it did.
  - `ActivePasscodeVerifies`, unless requests are pipelined and accounts suspended.
    `OneSide`: the queue never mixes handlers that Redis answered with others, so no
    resend supersedes a passcode between a verification's read and its transaction.
    `FoundActive`: what a verification has read is active, or spent by another that
    came with it, and then there is nothing left for it to change.
  - `LifecycleImplemented`, the refinement `Spec => ImplementsLifecycle`, unless both
    suspensions and passcodes are among the operations. `LifeInv` says what a handler
    about to insert or use a session has found; every step of a route family is then
    mapped to an `Issue`, an `End`, a `Close` or a stutter of `SessionLifecycle`, the
    clock to the `End` of all sessions that expire at once.
  - `WindowsOpenByFault`, unconditionally: who was told it counted the first attempt
    goes on to set the TTL unless a fault hits it, and a step that leaves a counter
    without one for the first time is that fault.
  - `AcceptedCurrent`, `OnePending`, `OneNoticeQueued`, for `MaxBatch = 1`. `Alone`:
    several handlers are in the queue only after Redis answered them together.
    `FreshInv`: so what any other handler has read, and is about to act on, is what
    is stored. `SingleInv`: at most one request is pending and one notice queued.
* **`NotificationWorker_proofs`**: `TypeCorrect`; `GivenUpOnlyAfterRetries` with
  `MissInv` (a snapshot's retry count is at most its row's, and that at most
  the number of sends seen to fail); `RetriesBounded` with `RetryInv` (the retry count plus the
  polls whose snapshot still allows a retry stays within the bound);
  `DuplicatesAreBounded` with `DuplicateInv` (while a record is queued only
  faults have sent it; once it is settled no poll joins those that still hold
  it); `SettledForGood`, which needs no strengthening.
* **`Registration_proofs`**: `TypeCorrect`; `DirectoryImplemented`, the refinement
  `Spec => ImplementsDirectory`, with `UniqueInv` (no two live rows share a
  username or an address), which is what makes the deletion of one account free
  exactly one claim; `StrandedIsBounded`, where a step without a fault adds no stranded
  account and a fault adds at most `Served`, the accounts of the handlers in
  `sendOtp`, of which there are no more than handlers.
* **`Backend_proofs`**: `FullSchemaServed`, with `SchemaInv` (a file is applied with
  its row, and a runner that migrates has no other files to apply than those it
  still holds for missing) and `QuietInv` (nothing is in flight while the server is
  down). `DeletionIsFinal`, by the turns of the queue as in `AccountOrder_proofs`
  (`Lockstep`): an activation and a passcode check commit at their turn 2 and a
  deletion at its turn 5, so that of the requests read together none still trusts the
  status it found (`Trusts`) when the deletion commits. `TokensOfQueued`, with
  `OutboxInv`: a record in the outbox has its token, as has the user of a request
  that found one.
* **`FormData_proofs`**: `TypeCorrect`; `PolicyHolds` and `RegisteredSignsIn`,
  for every configuration that loads and every set of names,
  addresses and passwords. They share an invariant on the rows, which registration
  and reset establish each by its own checks. `RefusalsAreShown` says of both sides
  of a refusal that it is at a field which is at fault: the fields that the form
  checks itself (`ClientFindsFaults`) and those the server names
  (`ServerFindsFaults`), which the form has under the same names.
* **`WebApp_proofs`**: `TypeCorrect`, `OneCall`, `BusyAwait` and `StrandingIsLeaving`,
  for any number of tabs, accounts, calls and timers. `TypeOK` is more
  than types: the deletion page and every call that is not a timer have an account.
  `CallInv`
  says where the call of a form comes from: the page that shows it and the step that
  sends it. So an answer that continues its form continues it where it was sent, and a
  form without a call is enabled, or is the deletion page's after a call that got no
  answer. `StrandingIsLeaving` follows an account from the answer that shows it
  to the step by which the last page that shows it is left (`LostTrack`).
  `SessionNeeded` and `DeletionsProven` assume one tab (`OneTab`), since all tabs share
  the stored session: `LogoutAtHome` (who has no session is on the landing page, the
  login or a public page) gives the first; the second needs `AnswerInv` (an answer to
  a password check is about the account that was asked for) and `ProofInv` (past the
  password, the account stored is the one that proved it, and the calls
  to delete that are under way are for it).

Only model-checked is liveness: `RequestsAnswered`, `EveryNoticeSettles`, `ComesUp`
and `ConfirmationsSettle` rest on fairness, and with it on `ENABLED`, which the prover
cannot reason about. Every other property of a passing run has a theorem.

## 6. What is left out

* **Cross-account behaviour** beyond registration and activation. Everything the
  other routes on an existing account do is keyed by that account.
* **Header and body parsing**: it answers 4xx without touching state. In the
  modules other than `FormData` the cases that validators and the policy
  distinguish are nondeterministic refusals.
* **Hashing and random tokens**: a hash is a number that grows with each reset; a
  token is its row; two random tokens never collide.
* **Email content, logging, `delivery_status` of passcodes, timestamps** that
  nothing compares.
* **Several replicas.** The deployment has one and SQLite is a local file; with
  two, every statement of this project about the microtask queue is void.
* **Presentation**: `components/ui` (a vendored kit the pages hardly use), the
  sections of the landing page and what the dashboards show of a profile have no
  state that a call depends on. Their links and buttons to routes are in
  `WebClient` and `SignInPages`.
* **Lengths of timers** in the browser, the user's full name, which is not sent, and
  the text of messages.
* **The health check** is one SELECT; **error and type files** are declarations, and
  appear as the refusals that throw them.
* **SQLite errors inside a transaction** roll it back (`withTransaction`), so a
  transaction is one step that may fail as a whole.

## 7. Plan

1. *Done*: the event loop, the database, and every route on an existing account;
   the deletion notification worker; type correctness and the first invariants.
2. *Done*: `Registration`, several users against the two unique indexes, its
   refinement of `Directory` and what a fault after the commit leaves behind.
3. *Done*: `Config`, `Startup`, `Activation`, `Backend`: the process, its
   migrations, activation by link, the resend and the outbox.
4. *Done*: `WebClient` and the pages, composed in `WebApp`; `FormData`.
5. *Done*: proofs of every invariant, action property and refinement of the runs.
6. *Open*: bounds in place of the hypotheses, as `TokenUseBound` is one, each to be
   checked before it is proved: with pipelining, as many pending requests and notices
   as requests read together; a session that is over when its route starts was ended
   by a request of the same batch.
