---------------------------- MODULE Registration ----------------------------
(***************************************************************************)
(* POST /api/v1/users/register: RegistrationController, the uniqueness     *)
(* validator, RegistrationService and the sendOtp that follows the commit. *)
(* Between the uniqueness check and the INSERT lies a bcrypt hash on the   *)
(* thread pool, so any number of registrations can pass the check for one  *)
(* name; only the unique indexes of the users table decide.                *)
(*                                                                         *)
(* What Otp models for one account is here the path of a new account only: *)
(* its Redis key and its passcode rows do not exist yet, so the first send *)
(* is over the limit only if the limit is 0, and nothing is superseded.    *)
(***************************************************************************)
EXTENDS EventLoop

CONSTANTS
    Names,       \* normalised usernames
    Addresses,
    Limits,      \* values of OTP_MAX_ATTEMPTS_PER_WINDOW; the loader accepts 0
    MaxUsers,    \* bound on rows of users
    MaxFaults    \* bound on failed statements and process crashes

ASSUME RegistrationAssumption == {MaxUsers, MaxFaults} \cup Limits \subseteq Nat

VARIABLES
    users,    \* rows of users, in order; `told`: history, 201 answered its id
    limit,    \* OTP_MAX_ATTEMPTS_PER_WINDOW of this deployment
    faults

vars == <<loopVars, clock, users, limit, faults>>

Users == DOMAIN users

\* A username as typed: in its normal form, or with capitals or outer spaces.
Spellings == [key : Names, plain : BOOLEAN]

RegisterRequests == [op : {"register"}, name : Spellings, address : Addresses]

UserRow == [st : {"pending", "active", "deleted"},
            name : Spellings, address : Addresses, told : BOOLEAN]

\* Where sendOtp runs for the row that was just committed.
OtpLabels == {"register.otp", "register.counted", "register.window",
              "register.create", "register.sent", "register.marked"}

\* The resume points of the handler, each with the locals it holds there.
RegisterFrame(label, locals, ids) ==
    \/ label = "idle" /\ locals = NoLocals
    \/ label = "register" /\ locals \in RegisterRequests
    \/ label = "register.unique" /\ locals \in [name : Spellings,
                                                address : Addresses,
                                                taken : BOOLEAN]
    \/ label = "register.hashed" /\ locals \in [name : Spellings,
                                                address : Addresses]
    \/ label \in OtpLabels /\ locals \in [user : ids]

Init ==
    /\ LoopInit
    /\ users = <<>>
    /\ limit \in Limits
    /\ faults = 0

-----------------------------------------------------------------------------
\* Rows that a username or an address of a request can collide with.  A deleted
\* row holds values derived from its own id, which collide with nothing.
Live == {u \in Users : users[u].st \in {"pending", "active"}}

\* Variant: compares usernames as they were typed.
NameTakenAsTyped(name) == \E u \in Live : users[u].name = name

\* username_normalised = ?
NameTaken(name) == \E u \in Live : users[u].name.key = name.key

AddressTaken(address) == \E u \in Live : users[u].address = address

InsertUser(name, address) ==
    /\ Len(users) < MaxUsers
    /\ users' = Append(users, [st |-> "pending", name |-> name, address |-> address,
                               told |-> FALSE])

\* 422: a field is missing, the address is malformed, the password too weak
Register_Invalid(h) ==
    /\ Runs(h, "register")
    /\ Respond(h)
    /\ UNCHANGED users

\* checkUniqueness: findByNormalisedUsername
Register_CheckName(h) ==
    /\ Runs(h, "register")
    /\ Await(h, "register.unique", [name |-> loc[h].name,
                                    address |-> loc[h].address,
                                    taken |-> NameTaken(loc[h].name)])
    /\ UNCHANGED users

\* 409 USERNAME_UNAVAILABLE
Register_NameUnavailable(h) ==
    /\ Runs(h, "register.unique")
    /\ loc[h].taken
    /\ Respond(h)
    /\ UNCHANGED users

\* register: bcrypt.hash on the thread pool
Register_Hash(h) ==
    /\ Runs(h, "register.unique")
    /\ ~loc[h].taken
    /\ Park(h, "register.hashed", [name |-> loc[h].name,
                                   address |-> loc[h].address])
    /\ UNCHANGED users

\* A unique index refuses the row: 409 for the username, 500 for the address
Register_Conflict(h) ==
    /\ Runs(h, "register.hashed")
    /\ NameTaken(loc[h].name) \/ AddressTaken(loc[h].address)
    /\ Respond(h)
    /\ UNCHANGED users

\* The INSERT commits the pending account.
Register_Insert(h) ==
    /\ Runs(h, "register.hashed")
    /\ ~NameTaken(loc[h].name)
    /\ ~AddressTaken(loc[h].address)
    /\ InsertUser(loc[h].name, loc[h].address)
    /\ Await(h, "register.otp", [user |-> Len(users')])

-----------------------------------------------------------------------------
(* sendOtp(result.userId) *)

\* findById, then INCR of a key that did not exist
Register_CountAttempt(h) ==
    /\ Runs(h, "register.otp")
    /\ Park(h, "register.counted", loc[h])
    /\ UNCHANGED users

\* It was the first: EXPIRE
Register_OpenWindow(h) ==
    /\ Runs(h, "register.counted")
    /\ Park(h, "register.window", loc[h])
    /\ UNCHANGED users

\* This attempt, the first, is over the limit: 500, the row stays.
Register_Limited(h) ==
    /\ Runs(h, "register.window")
    /\ limit < 1
    /\ Respond(h)
    /\ UNCHANGED users

\* invalidateActiveByUserId and getNextAttemptSequence, of no rows
Register_Sequence(h) ==
    /\ Runs(h, "register.window")
    /\ limit >= 1
    /\ Await(h, "register.create", loc[h])
    /\ UNCHANGED users

\* The passcode row is inserted and the email sent.
Register_Dispatch(h) ==
    /\ Runs(h, "register.create")
    /\ Park(h, "register.sent", loc[h])
    /\ UNCHANGED users

\* markDelivered or markFailed: a failed email is not an error here
Register_Mark(h) ==
    /\ Runs(h, "register.sent")
    /\ Await(h, "register.marked", loc[h])
    /\ UNCHANGED users

\* Variant: an email that SendGrid refuses is an error of the registration.
Register_AnswerDelivered(h) ==
    /\ Runs(h, "register.marked")
    /\ Respond(h)
    /\ \/ users' = [users EXCEPT ![loc[h].user].told = TRUE]
       \/ UNCHANGED users

\* 201 with the id
Register_Answer(h) ==
    /\ Runs(h, "register.marked")
    /\ Respond(h)
    /\ users' = [users EXCEPT ![loc[h].user].told = TRUE]

RegisterStep(h) ==
    \/ Register_Invalid(h)
    \/ Register_CheckName(h)
    \/ Register_NameUnavailable(h)
    \/ Register_Hash(h)
    \/ Register_Conflict(h)
    \/ Register_Insert(h)
    \/ Register_CountAttempt(h)
    \/ Register_OpenWindow(h)
    \/ Register_Limited(h)
    \/ Register_Sequence(h)
    \/ Register_Dispatch(h)
    \/ Register_Mark(h)
    \/ Register_Answer(h)

\* Where a statement or a Redis command can fail and the controller answers 500.
\* The statement of "register" is outside its try block: there the rejection is
\* unhandled and ends the process.
RegisterStatements == {"register.hashed"} \cup (OtpLabels \ {"register.marked"})

-----------------------------------------------------------------------------
Receive ==
    /\ Arrive(RegisterRequests)
    /\ UNCHANGED <<clock, users, faults>>

Resume ==
    /\ Wake({"register.counted", "register.window"})
    /\ UNCHANGED <<clock, users, faults>>

Step(h) == RegisterStep(h) /\ UNCHANGED <<clock, faults>>

StatementFails(h) ==
    /\ faults < MaxFaults
    /\ \E label \in RegisterStatements : Runs(h, label)
    /\ Respond(h)
    /\ faults' = faults + 1
    /\ UNCHANGED <<clock, users>>

\* The bound on rows: an INSERT beyond it fails like a full disk.
TableFull(h) ==
    /\ Runs(h, "register.hashed")
    /\ Len(users) = MaxUsers
    /\ Respond(h)
    /\ UNCHANGED <<clock, users, faults>>

Crash ==
    /\ faults < MaxFaults
    /\ Restart
    /\ faults' = faults + 1
    /\ UNCHANGED <<clock, users>>

\* verifyOtp commits (module Otp); the client needs the id, which only 201 tells.
Verify(u) ==
    /\ ready = <<>>
    /\ users[u].st = "pending"
    /\ users[u].told
    /\ users' = [users EXCEPT ![u].st = "active"]
    /\ UNCHANGED <<loopVars, clock, faults>>

\* confirmDeletion commits (module AccountDeletion): the name and the address go.
Delete(u) ==
    /\ ready = <<>>
    /\ users[u].st = "active"
    /\ users' = [users EXCEPT ![u].st = "deleted"]
    /\ UNCHANGED <<loopVars, clock, faults>>

Next ==
    /\ \/ Receive
       \/ Resume
       \/ \E h \in Handlers : Step(h) \/ StatementFails(h) \/ TableFull(h)
       \/ Crash
       \/ \E u \in Users : Verify(u) \/ Delete(u)
    /\ UNCHANGED limit

Spec == Init /\ [][Next]_vars

-----------------------------------------------------------------------------
HandlersOK ==
    /\ ready \in Seq(Handlers)
    /\ DOMAIN pc = Handlers
    /\ DOMAIN loc = Handlers
    /\ \A h \in Handlers : RegisterFrame(pc[h], loc[h], Users)

\* Every handler holds the locals its resume point reads, and rows keep the types
\* of the schema.
TypeOK ==
    /\ HandlersOK
    /\ users \in Seq(UserRow)
    /\ Len(users) <= MaxUsers
    /\ limit \in Limits
    /\ faults \in 0..MaxFaults

\* What the accounts that are not deleted occupy.
Claims == {[name |-> users[u].name.key, address |-> users[u].address] :
                      u \in Live}

AccountDirectory == INSTANCE Directory WITH accounts <- Claims

\* Registration implements the directory: whatever passed the uniqueness check
\* meanwhile, an account is created only with a username and an address that no
\* other account has, and loses them only by deletion.
ImplementsDirectory == AccountDirectory!Spec

\* Handler h is sending the passcode of account u.
Serves(h, u) == pc[h] \in OtpLabels /\ loc[h].user = u

\* Accounts that exist and whose owner was never told: the id is lost, so they can
\* be neither verified nor registered again.
Stranded == {u \in Users : /\ users[u].st = "pending"
                           /\ ~users[u].told
                           /\ \A h \in Handlers : ~Serves(h, u)}

\* "registration always returns 201 once the user row is committed"
\* (registration.controller.ts:101) but for faults, each of which strands at most the
\* accounts of the requests in flight, and for a limit of 0, which strands them all.
StrandedBounded ==
    limit > 0 => Cardinality(Stranded) <= faults * Cardinality(Handlers)
=============================================================================
