--------------------------- MODULE Backend_proofs ---------------------------
(***************************************************************************)
(* What holds of the process around its requests for any number of         *)
(* migrations, requests, users and polls: it serves only the whole schema, *)
(* nothing in flight revives a deleted account, and every queued record    *)
(* has its token.                                                          *)
(***************************************************************************)
EXTENDS Backend, FiniteSetTheorems, TLAPS

-----------------------------------------------------------------------------
(* The schema *)

\* What the runners have done so far is what they rely on: a file is applied with
\* its row, and a runner that migrates has no other files to apply than those it
\* still knows to be missing.
SchemaInv ==
    /\ tables = applied
    /\ applied \subseteq MIGRATION_FILES
    /\ phase \in [Runners -> Phases]
    /\ missing \in [Runners -> SUBSET MIGRATION_FILES]
    /\ \A r \in Runners :
         phase[r] = "migrating" => MIGRATION_FILES \ missing[r] \subseteq applied
    /\ phase["server"] # "down" => Loads(environment)
    /\ Running => applied = MIGRATION_FILES

\* A step of a runner keeps it.
LEMMA MigrationKeepsSchema ==
    ASSUME SchemaInv, StartupNext
    PROVE  SchemaInv'
  <1> USE DEF SchemaInv, Running, Phases, Runners, SetPhase
  <1>1. ASSUME NEW r \in Runners, Start(r) PROVE SchemaInv'
    BY <1>1 DEF Start, CanLoad
  <1>2. ASSUME NEW r \in Runners, Apply(r) PROVE SchemaInv'
    BY <1>2 DEF Apply, NextFile, Commit
  <1>3. ASSUME NEW r \in Runners, Clash(r) PROVE SchemaInv'
    BY <1>3 DEF Clash, GiveUp
  <1>4. ASSUME NEW r \in Runners, BreakOff(r) PROVE SchemaInv'
    BY <1>4 DEF BreakOff, GiveUp
  <1>5. CASE Listen
    BY <1>5 DEF Listen
  <1>6. CASE Finish
    BY <1>6 DEF Finish
  <1> QED
    BY <1>1, <1>2, <1>3, <1>4, <1>5, <1>6 DEF StartupNext, Migrate

\* So does the way down.
LEMMA DownKeepsSchema ==
    ASSUME SchemaInv, Kill \/ Shutdown \/ Close \/ Exit
    PROVE  SchemaInv'
  BY DEF SchemaInv, Running, Phases, Runners, SetPhase, Kill, Shutdown, Close, Exit

\* Every step keeps it.
LEMMA NextKeepsSchema == SchemaInv /\ [Next]_vars => SchemaInv'
  <1> SUFFICES ASSUME SchemaInv, [Next]_vars PROVE SchemaInv'
    OBVIOUS
  <1>1. CASE MigrationStep
    BY <1>1, MigrationKeepsSchema DEF MigrationStep
  <1>2. CASE ProcessEnds \/ ShutdownBegins \/ DatabaseCloses
    BY <1>2, DownKeepsSchema DEF ProcessEnds, ShutdownBegins, DatabaseCloses
  <1>3. CASE UNCHANGED startupVars
    BY <1>3 DEF startupVars, SchemaInv, Running
  <1> QED
    BY <1>1, <1>2, <1>3
       DEF Next, Receive, Step, Register, Time, OutboxPoll, OutboxAnswer,
           OutboxMiscount, vars

-----------------------------------------------------------------------------
(* Requests and polls end with the process *)

\* While the server does not run, no request and no poll is under way.
QuietInv ==
    ~Running => /\ \A h \in Handlers : Idle(h)
                /\ \A p \in Polls : todo[p] = {}

\* Only a handler with a request takes a step.
LEMMA StepsAreBusy ==
    ASSUME NEW h \in Handlers, Step(h)
    PROVE  ~Idle(h)
  BY DEF Step, Failed, ActivateStep, Activate_FindToken, Activate_RefuseToken,
         Activate_FindUser, Activate_RefuseUser, Activate_Commit, ResendStep,
         Resend_FindUser, Resend_Refuse, Resend_FindToken, Resend_Conflict,
         Resend_Insert, VerifyStep, Verify_FindUser, Verify_FindActive, Verify_Commit,
         DeleteStep, Delete_FindSession, Delete_FindUser, Delete_Pass,
         Delete_FindPending, Delete_FindAddress, Delete_Commit, Runs, Idle

\* Nothing but the end of the process stops the server.
LEMMA RunningLasts ==
    ASSUME SchemaInv, Running, [Next]_vars, ~ProcessEnds
    PROVE  Running'
  <1> USE DEF SchemaInv, Running, Phases, Runners, SetPhase
  <1>1. CASE MigrationStep
    BY <1>1 DEF MigrationStep, StartupNext, Migrate, Start, Apply, Clash, BreakOff, GiveUp,
                Listen, Finish
  <1>2. CASE ShutdownBegins \/ DatabaseCloses
    BY <1>2 DEF ShutdownBegins, Shutdown, DatabaseCloses, Close
  <1>3. CASE UNCHANGED startupVars
    BY <1>3 DEF startupVars
  <1> QED
    BY <1>1, <1>2, <1>3
       DEF Next, Receive, Step, Register, Time, OutboxPoll, OutboxAnswer,
           OutboxMiscount, vars

\* A step from a server that does not run changes no request and no poll, and the
\* end of the process leaves none.
LEMMA NextKeepsQuiet == SchemaInv /\ QuietInv /\ [Next]_vars => QuietInv'
  <1> SUFFICES ASSUME SchemaInv, QuietInv, [Next]_vars, ~Running'
               PROVE  /\ \A h \in Handlers : Idle(h)'
                      /\ \A p \in Polls : todo'[p] = {}
    BY DEF QuietInv
  <1>1. CASE ProcessEnds
    <2>1. \A h \in Handlers : Idle(h)'
      BY <1>1 DEF ProcessEnds, RequestsEnd, Idle
    <2>2. \A p \in Polls : todo'[p] = {}
      BY <1>1 DEF ProcessEnds, PollsEnd, Worker!Crash, workerVars
    <2> QED
      BY <2>1, <2>2
  <1>2. CASE ~ProcessEnds
    <2>1. ~Running /\ (\A h \in Handlers : Idle(h)) /\ \A p \in Polls : todo[p] = {}
      BY <1>2, RunningLasts DEF QuietInv
    <2>2. phase["server"] # "up" /\ ~DatabaseOpen
      BY <2>1 DEF Running, DatabaseOpen
    <2>3. UNCHANGED <<pc, todo>>
      BY <1>2, <2>1, <2>2, StepsAreBusy
         DEF Next, MigrationStep, ShutdownBegins, Shutdown, DatabaseCloses, Quiet,
             Receive, Register, Time, Tick, OutboxPoll, OutboxAnswer, OutboxMiscount,
             vars, loopVars, workerVars
    <2> QED
      BY <2>1, <2>3 DEF Idle
  <1> QED
    BY <1>1, <1>2

\* However the two runners overlap and whatever ends them, requests are served and
\* polls run only on the whole schema, with a configuration that was checked.
THEOREM FullSchemaServed == Spec => []ServesFullSchema
  <1>1. Init => SchemaInv /\ QuietInv
    <2> SUFFICES ASSUME Init PROVE SchemaInv /\ QuietInv
      OBVIOUS
    <2>1. SchemaInv
      BY StartupAssumption
         DEF Init, StartupInit, SchemaInv, Running, MIGRATION_FILES, Runners, Phases
    <2>2. QuietInv
      BY DEF Init, ActivationInit, LoopInit, Worker!NothingSent, QuietInv, Idle
    <2> QED
      BY <2>1, <2>2
  <1>2. SchemaInv /\ QuietInv /\ [Next]_vars => SchemaInv' /\ QuietInv'
    BY NextKeepsSchema, NextKeepsQuiet
  <1>3. SchemaInv /\ QuietInv => ServesFullSchema
    BY DEF SchemaInv, QuietInv, ServesFullSchema, Running
  <1> QED
    BY <1>1, <1>2, <1>3, PTL DEF Spec

-----------------------------------------------------------------------------
(* Handlers and rows *)

HandlersOK ==
    /\ ready \in Seq(Handlers)
    /\ DOMAIN pc = Handlers
    /\ DOMAIN loc = Handlers
    /\ \A h \in Handlers : ActivationFrame(pc[h], loc[h])

RowsOK ==
    /\ account \in [Users -> AccountStatus]
    /\ token \in [Users -> TokenRow]
    /\ outbox \in Seq(Users)

\* The await of a microtask that gives a label: how many of them came before it.
Turn1 == {"activate.token", "resend.user", "verify.user", "delete.session"}
Turn2 == {"activate.user", "resend.token", "verify.row", "delete.status"}

Turn(label) ==
    IF label \in Turn1 THEN 1
    ELSE IF label \in Turn2 THEN 2
    ELSE IF label = "delete.route" THEN 3
    ELSE IF label = "delete.pending" THEN 4
    ELSE IF label = "delete.user" THEN 5
    ELSE 0

LEMMA TurnValues ==
    /\ \A label : Turn(label) \in 0..5
    /\ \A label \in Turn1 : Turn(label) = 1
    /\ \A label \in Turn2 : Turn(label) = 2
    /\ Turn("delete.route") = 3 /\ Turn("delete.pending") = 4 /\ Turn("delete.user") = 5
    /\ \A label \in {"activate", "resend", "verify", "delete", "idle"} : Turn(label) = 0
  BY DEF Turn, Turn1, Turn2

\* What a handler holds where it resumes.
LEMMA Frames ==
    ASSUME NEW label, NEW locals, ActivationFrame(label, locals), label # "idle"
    PROVE  /\ locals.user \in Users
           /\ label \in {"activate", "resend", "verify", "delete"} => locals \in Requests
           /\ label = "activate.token" => locals \in [user : Users, token : TokenRow]
           /\ label = "activate.user" => locals \in [user : Users, pending : BOOLEAN]
           /\ label \in {"resend.user", "verify.user", "verify.row", "delete.status"}
                => locals \in [user : Users, status : AccountStatus]
           /\ label = "resend.token" => locals \in [user : Users, tokenId : BOOLEAN]
           /\ label \in {"delete.session", "delete.route", "delete.pending", "delete.user"}
                => locals \in [user : Users]
  BY DEF ActivationFrame, Requests

\* The account was pending or active when the handler read it, and the UPDATE that is
\* to follow makes it active.
Trusts(label, locals) ==
    \/ label = "activate.user" /\ locals.pending
    \/ label = "verify.user" /\ locals.status \in {"pending", "active"}
    \/ label = "verify.row"

\* Handler h, the first of the queue, goes to a resume point, one turn further or at
\* its end; what it holds there it has just read, or held before.
Moves(h, label, locals) ==
    /\ ready # <<>> /\ Head(ready) = h
    /\ Goto(h, label, locals)
    /\ ActivationFrame(label, locals)
    /\ \/ ready' = Append(Tail(ready), h) /\ Turn(label) = Turn(pc[h]) + 1
       \/ ready' = Tail(ready) /\ label = "idle"
    /\ Trusts(label, locals) =>
         /\ locals.user = loc[h].user
         /\ account[loc[h].user] \in {"pending", "active"} \/ Trusts(pc[h], loc[h])
    /\ label = "resend.token" =>
         /\ locals.user = loc[h].user
         /\ locals.tokenId = (token[loc[h].user] # "none")

\* A step of a request, and the rows it changes.
Does(h) ==
    /\ \E label, locals : Moves(h, label, locals)
    /\ loc[h].user \in Users
    /\ \/ UNCHANGED account
       \/ /\ Trusts(pc[h], loc[h])
          /\ account' = [account EXCEPT ![loc[h].user] = "active"]
       \/ /\ pc[h] = "delete.user"
          /\ account' = [account EXCEPT ![loc[h].user] = "deleted"]
    /\ UNCHANGED token \/ token' = [token EXCEPT ![loc[h].user] = "consumed"]
    /\ \/ UNCHANGED outbox
       \/ /\ pc[h] = "resend.token" /\ loc[h].tokenId
          /\ outbox' = Append(outbox, loc[h].user)

\* A handler that goes on, or ends, does so.
LEMMA Awaits ==
    ASSUME NEW h \in Handlers, NEW label, NEW locals, Runs(h, pc[h]),
           Await(h, label, locals), Turn(label) = Turn(pc[h]) + 1,
           ActivationFrame(label, locals),
           Trusts(label, locals) =>
             /\ locals.user = loc[h].user
             /\ account[loc[h].user] \in {"pending", "active"} \/ Trusts(pc[h], loc[h]),
           label = "resend.token" =>
             /\ locals.user = loc[h].user
             /\ locals.tokenId = (token[loc[h].user] # "none")
    PROVE  \E l, v : Moves(h, l, v)
  BY DEF Runs, Await, Moves

LEMMA Ends ==
    ASSUME NEW h \in Handlers, Runs(h, pc[h]), Respond(h)
    PROVE  \E l, v : Moves(h, l, v)
  BY DEF Runs, Respond, Moves, ActivationFrame, Trusts

\* Every step of an activation is of this kind.
LEMMA ActivateDoes ==
    ASSUME HandlersOK, RowsOK, NEW h \in Handlers, ActivateStep(h)
    PROVE  Does(h)
  <1> USE TurnValues DEF Runs, accountVars, Turn1, Turn2
  <1>0. ActivationFrame(pc[h], loc[h])
    BY DEF HandlersOK
  <1>1. CASE Activate_FindToken(h)
    <2> DEFINE l == [user |-> loc[h].user, token |-> FindByTokenValue(loc[h].user)]
    <2>1. loc[h].user \in Users /\ pc[h] = "activate"
      BY <1>0, <1>1, Frames DEF Activate_FindToken
    <2>2. ActivationFrame("activate.token", l)
      BY <2>1 DEF ActivationFrame, RowsOK, FindByTokenValue
    <2>3. \E label, v : Moves(h, label, v)
      BY <1>1, <2>1, <2>2, Awaits DEF Activate_FindToken, Trusts
    <2> QED
      BY <1>1, <2>1, <2>3 DEF Activate_FindToken, Does
  <1>2. CASE Activate_RefuseToken(h) \/ Activate_RefuseUser(h)
    <2>1. loc[h].user \in Users
      BY <1>0, <1>2, Frames DEF Activate_RefuseToken, Activate_RefuseUser
    <2> QED
      BY <1>2, <2>1, Ends DEF Activate_RefuseToken, Activate_RefuseUser, Does
  <1>3. CASE Activate_FindUser(h)
    <2> DEFINE l == [user |-> loc[h].user, pending |-> IsPending(loc[h].user)]
    <2>1. loc[h].user \in Users /\ pc[h] = "activate.token"
      BY <1>0, <1>3, Frames DEF Activate_FindUser
    <2>2. ActivationFrame("activate.user", l)
      BY <2>1 DEF ActivationFrame, IsPending
    <2>3. Trusts("activate.user", l) => account[loc[h].user] = "pending"
      BY DEF Trusts, IsPending, FindById
    <2>4. \E label, v : Moves(h, label, v)
      BY <1>3, <2>1, <2>2, <2>3, Awaits DEF Activate_FindUser
    <2> QED
      BY <1>3, <2>1, <2>4 DEF Activate_FindUser, Does
  <1>4. CASE Activate_Commit(h)
    <2>1. loc[h].user \in Users /\ Trusts(pc[h], loc[h])
      BY <1>0, <1>4, Frames DEF Activate_Commit, Trusts
    <2> QED
      BY <1>4, <2>1, Ends DEF Activate_Commit, Does
  <1> QED
    BY <1>1, <1>2, <1>3, <1>4 DEF ActivateStep

\* So is every step of a resend.
LEMMA ResendDoes ==
    ASSUME HandlersOK, RowsOK, NEW h \in Handlers, ResendStep(h)
    PROVE  Does(h)
  <1> USE TurnValues DEF Runs, accountVars, Turn1, Turn2
  <1>0. ActivationFrame(pc[h], loc[h])
    BY DEF HandlersOK
  <1>1. CASE Resend_FindUser(h)
    <2> DEFINE l == [user |-> loc[h].user, status |-> FindById(loc[h].user)]
    <2>1. loc[h].user \in Users /\ pc[h] = "resend"
      BY <1>0, <1>1, Frames DEF Resend_FindUser
    <2>2. ActivationFrame("resend.user", l)
      BY <2>1 DEF ActivationFrame, RowsOK, FindById
    <2>3. \E label, v : Moves(h, label, v)
      BY <1>1, <2>1, <2>2, Awaits DEF Resend_FindUser, Trusts
    <2> QED
      BY <1>1, <2>1, <2>3 DEF Resend_FindUser, Does
  <1>2. CASE Resend_Refuse(h) \/ Resend_Conflict(h)
    <2>1. loc[h].user \in Users
      BY <1>0, <1>2, Frames DEF Resend_Refuse, Resend_Conflict
    <2> QED
      BY <1>2, <2>1, Ends DEF Resend_Refuse, Resend_Conflict, Does
  <1>3. CASE Resend_FindToken(h)
    <2> DEFINE l == [user |-> loc[h].user, tokenId |-> FindByUserId(loc[h].user)]
    <2>1. loc[h].user \in Users /\ pc[h] = "resend.user"
      BY <1>0, <1>3, Frames DEF Resend_FindToken
    <2>2. ActivationFrame("resend.token", l)
      BY <2>1 DEF ActivationFrame, FindByUserId
    <2>3. \E label, v : Moves(h, label, v)
      BY <1>3, <2>1, <2>2, Awaits DEF Resend_FindToken, Trusts, FindByUserId
    <2> QED
      BY <1>3, <2>1, <2>3 DEF Resend_FindToken, Does
  <1>4. CASE Resend_Insert(h)
    <2>1. loc[h].user \in Users
      BY <1>0, <1>4, Frames DEF Resend_Insert
    <2>2. \E label, v : Moves(h, label, v)
      BY <1>4, Ends DEF Resend_Insert
    <2> QED
      BY <1>4, <2>1, <2>2 DEF Resend_Insert, Insertable, InsertRecord, Does
  <1> QED
    BY <1>1, <1>2, <1>3, <1>4 DEF ResendStep

\* So is every step of the check of a passcode.
LEMMA VerifyDoes ==
    ASSUME HandlersOK, RowsOK, NEW h \in Handlers, VerifyStep(h)
    PROVE  Does(h)
  <1> USE TurnValues DEF Runs, accountVars, Turn1, Turn2
  <1>0. ActivationFrame(pc[h], loc[h])
    BY DEF HandlersOK
  <1>1. CASE Verify_FindUser(h)
    <2> DEFINE l == [user |-> loc[h].user, status |-> FindById(loc[h].user)]
    <2>1. loc[h].user \in Users /\ pc[h] = "verify"
      BY <1>0, <1>1, Frames DEF Verify_FindUser
    <2>2. ActivationFrame("verify.user", l)
      BY <2>1 DEF ActivationFrame, RowsOK, FindById
    <2>3. Trusts("verify.user", l) => account[loc[h].user] \in {"pending", "active"}
      BY DEF Trusts, FindById
    <2>4. \E label, v : Moves(h, label, v)
      BY <1>1, <2>1, <2>2, <2>3, Awaits DEF Verify_FindUser
    <2> QED
      BY <1>1, <2>1, <2>4 DEF Verify_FindUser, Does
  <1>2. CASE Verify_FindActive(h)
    <2>1. /\ loc[h].user \in Users /\ pc[h] = "verify.user"
          /\ loc[h] \in [user : Users, status : AccountStatus]
      BY <1>0, <1>2, Frames DEF Verify_FindActive
    <2>2. ActivationFrame("verify.row", loc[h]) /\ Trusts(pc[h], loc[h])
      BY <1>2, <2>1 DEF ActivationFrame, Verify_FindActive, Trusts
    <2>3. \E label, v : Moves(h, label, v)
      BY <1>2, <2>1, <2>2, Awaits DEF Verify_FindActive
    <2> QED
      BY <1>2, <2>1, <2>3 DEF Verify_FindActive, Does
  <1>3. CASE Verify_Commit(h)
    <2>1. loc[h].user \in Users /\ Trusts(pc[h], loc[h])
      BY <1>0, <1>3, Frames DEF Verify_Commit, Trusts
    <2> QED
      BY <1>3, <2>1, Ends DEF Verify_Commit, Does
  <1> QED
    BY <1>1, <1>2, <1>3 DEF VerifyStep

\* So is every step of the confirmation of a deletion.
LEMMA DeleteDoes ==
    ASSUME HandlersOK, RowsOK, NEW h \in Handlers, DeleteStep(h)
    PROVE  Does(h)
  <1> USE TurnValues DEF Runs, accountVars, Turn1, Turn2
  <1>0. ActivationFrame(pc[h], loc[h])
    BY DEF HandlersOK
  <1>1. CASE Delete_FindSession(h) \/ Delete_Pass(h)
    <2> DEFINE l == [user |-> loc[h].user]
    <2>1. loc[h].user \in Users
      BY <1>0, <1>1, Frames DEF Delete_FindSession, Delete_Pass
    <2>2. ActivationFrame("delete.session", l) /\ ActivationFrame("delete.route", l)
      BY <2>1 DEF ActivationFrame
    <2>3. \E label, v : Moves(h, label, v)
      BY <1>1, <2>1, <2>2, Awaits DEF Delete_FindSession, Delete_Pass, Trusts
    <2> QED
      BY <1>1, <2>1, <2>3 DEF Delete_FindSession, Delete_Pass, Does
  <1>2. CASE Delete_FindUser(h)
    <2> DEFINE l == [user |-> loc[h].user, status |-> FindById(loc[h].user)]
    <2>1. loc[h].user \in Users /\ pc[h] = "delete.session"
      BY <1>0, <1>2, Frames DEF Delete_FindUser
    <2>2. ActivationFrame("delete.status", l)
      BY <2>1 DEF ActivationFrame, RowsOK, FindById
    <2>3. \E label, v : Moves(h, label, v)
      BY <1>2, <2>1, <2>2, Awaits DEF Delete_FindUser, Trusts
    <2> QED
      BY <1>2, <2>1, <2>3 DEF Delete_FindUser, Does
  <1>3. CASE Delete_FindPending(h) \/ Delete_FindAddress(h)
    <2>1. loc[h] \in [user : Users]
      BY <1>0, <1>3, Frames DEF Delete_FindPending, Delete_FindAddress
    <2>2. ActivationFrame("delete.pending", loc[h]) /\ ActivationFrame("delete.user", loc[h])
      BY <2>1 DEF ActivationFrame
    <2>3. \E label, v : Moves(h, label, v)
      BY <1>3, <2>1, <2>2, Awaits DEF Delete_FindPending, Delete_FindAddress, Trusts
    <2> QED
      BY <1>3, <2>1, <2>3 DEF Delete_FindPending, Delete_FindAddress, Does
  <1>4. CASE Delete_Commit(h)
    <2>1. loc[h].user \in Users
      BY <1>0, <1>4, Frames DEF Delete_Commit
    <2> QED
      BY <1>4, <2>1, Ends DEF Delete_Commit, Does
  <1> QED
    BY <1>1, <1>2, <1>3, <1>4 DEF DeleteStep

\* So is every step of a request.
LEMMA StepDoes ==
    ASSUME HandlersOK, RowsOK, NEW h \in Handlers, Step(h)
    PROVE  Does(h)
  <1>1. CASE Failed(h)
    <2>1. loc[h].user \in Users
      BY <1>1, Frames DEF Failed, Idle, HandlersOK
    <2> QED
      BY <1>1, <2>1, Ends DEF Failed, Runs, Does, accountVars
  <1> QED
    BY <1>1, ActivateDoes, ResendDoes, VerifyDoes, DeleteDoes DEF Step

\* The other steps leave handlers, accounts, tokens and outbox alone, or end all
\* handlers, or happen while the queue is empty.
LEMMA OtherSteps ==
    ASSUME [Next]_vars
    PROVE  \/ Receive /\ UNCHANGED accountVars
           \/ \E h \in Handlers : Step(h)
           \/ \E u \in Users : Register(u)
           \/ ProcessEnds /\ UNCHANGED accountVars
           \/ UNCHANGED <<loopVars, accountVars>>
  BY DEF Next, Receive, MigrationStep, ShutdownBegins, DatabaseCloses, Quiet, Time, Tick,
         OutboxPoll, OutboxAnswer, OutboxMiscount, ProcessEnds, vars

\* What one read event makes runnable: distinct handlers.
LEMMA BatchTyped ==
    ASSUME NEW batch \in Batches(MaxBatch)
    PROVE  /\ batch \in Seq(Handlers)
           /\ \A i, j \in DOMAIN batch : batch[i] = batch[j] => i = j
  <1>1. PICK n \in 1..MaxBatch : batch \in Injection(1..n, Handlers)
    BY DEF Batches
  <1>2. batch \in [1..n -> Handlers] /\ n \in Nat
    BY <1>1, LoopAssumption DEF Injection
  <1>3. \A i, j \in 1..n : batch[i] = batch[j] => i = j
    BY <1>1 DEF Injection, IsInjective
  <1> QED
    BY <1>2, <1>3

\* Requests arrive with the locals their first resume point reads.
LEMMA Arrivals ==
    ASSUME HandlersOK, Receive
    PROVE  /\ ready = <<>> /\ ready' \in Batches(MaxBatch)
           /\ DOMAIN pc' = Handlers /\ DOMAIN loc' = Handlers
           /\ \A h \in Handlers :
                IF h \in Range(ready')
                  THEN /\ pc'[h] \in {"activate", "resend", "verify", "delete"}
                       /\ ActivationFrame(pc'[h], loc'[h])
                  ELSE pc'[h] = pc[h] /\ loc'[h] = loc[h]
  <1>1. PICK batch \in Batches(MaxBatch) :
          /\ ready' = batch
          /\ \E request \in [Range(batch) -> Requests] :
               /\ pc' = [h \in Handlers |->
                           IF h \in Range(batch) THEN request[h].op ELSE pc[h]]
               /\ loc' = [h \in Handlers |->
                           IF h \in Range(batch) THEN request[h] ELSE loc[h]]
    BY DEF Receive, Arrive
  <1>2. PICK request \in [Range(batch) -> Requests] :
          /\ pc' = [h \in Handlers |->
                      IF h \in Range(batch) THEN request[h].op ELSE pc[h]]
          /\ loc' = [h \in Handlers |->
                      IF h \in Range(batch) THEN request[h] ELSE loc[h]]
    BY <1>1
  <1>3. ASSUME NEW r \in Requests
        PROVE  /\ r.op \in {"activate", "resend", "verify", "delete"}
               /\ ActivationFrame(r.op, r)
    BY DEF ActivationFrame, Requests
  <1>4. ready = <<>>
    BY DEF Receive, Arrive
  <1> HIDE DEF Requests
  <1> QED
    BY <1>1, <1>2, <1>3, <1>4

\* Every step of the system keeps handlers and rows typed.
LEMMA NextTyped == HandlersOK /\ RowsOK /\ [Next]_vars => HandlersOK' /\ RowsOK'
  <1> SUFFICES ASSUME HandlersOK, RowsOK, [Next]_vars PROVE HandlersOK' /\ RowsOK'
    OBVIOUS
  <1>1. CASE Receive /\ UNCHANGED accountVars
    <2>1. HandlersOK'
      BY <1>1, Arrivals, BatchTyped DEF HandlersOK
    <2> QED
      BY <1>1, <2>1 DEF accountVars, RowsOK
  <1>2. ASSUME NEW h \in Handlers, Step(h) PROVE HandlersOK' /\ RowsOK'
    <2>1. Does(h)
      BY <1>2, StepDoes
    <2>2. PICK label, locals : Moves(h, label, locals)
      BY <2>1 DEF Does
    <2>3. Tail(ready) \in Seq(Handlers) /\ Append(Tail(ready), h) \in Seq(Handlers)
      BY <2>2 DEF Moves, HandlersOK
    <2>4. HandlersOK'
      BY <2>2, <2>3 DEF Moves, Goto, HandlersOK
    <2>5. RowsOK'
      <3>1. account' \in [Users -> AccountStatus]
        BY <2>1 DEF Does, RowsOK, AccountStatus
      <3>2. token' \in [Users -> TokenRow]
        BY <2>1 DEF Does, RowsOK, TokenRow
      <3>3. outbox' \in Seq(Users)
        BY <2>1 DEF Does, RowsOK
      <3> QED
        BY <3>1, <3>2, <3>3 DEF RowsOK
    <2> QED
      BY <2>4, <2>5
  <1>3. ASSUME NEW u \in Users, Register(u) PROVE HandlersOK' /\ RowsOK'
    BY <1>3 DEF Register, RegisterUser, loopVars, HandlersOK, RowsOK, AccountStatus
  <1>4. CASE ProcessEnds /\ UNCHANGED accountVars
    BY <1>4 DEF ProcessEnds, RequestsEnd, HandlersOK, ActivationFrame, accountVars, RowsOK
  <1>5. CASE UNCHANGED <<loopVars, accountVars>>
    BY <1>5 DEF loopVars, accountVars, HandlersOK, RowsOK
  <1> QED
    BY <1>1, <1>2, <1>3, <1>4, <1>5, OtherSteps

\* Handlers and rows are typed at the start, and the records have their tokens.
LEMMA InitTyped ==
    Init => /\ HandlersOK /\ RowsOK /\ QueuedHaveTokens
            /\ ready = <<>> /\ \A h \in Handlers : pc[h] = "idle"
  <1> SUFFICES ASSUME Init
               PROVE  /\ HandlersOK /\ RowsOK /\ QueuedHaveTokens
                      /\ ready = <<>> /\ \A h \in Handlers : pc[h] = "idle"
    OBVIOUS
  <1>1. PICK earlier \in BOOLEAN : ActivationInit(earlier)
    BY DEF Init
  <1>2. /\ ready = <<>> /\ pc = [h \in Handlers |-> "idle"]
        /\ loc = [h \in Handlers |-> NoLocals]
    BY <1>1 DEF ActivationInit, LoopInit
  <1>3. /\ account \in [Users -> {"absent", "pending"}]
        /\ token = [u \in Users |-> IF account[u] = "pending" THEN "fresh" ELSE "none"]
    BY <1>1 DEF ActivationInit
  <1>4. PICK n \in Nat : outbox \in [1..n -> {u \in Users : token[u] # "none"}]
    <2>1. Cardinality(Users) \in Nat
      BY ActivationAssumption, FS_CardinalityType
    <2>2. PICK n \in 0..Cardinality(Users) :
            outbox \in Injection(1..n, {u \in Users : token[u] # "none"})
      BY <1>1 DEF ActivationInit, EarlierRecords
    <2> QED
      BY <2>1, <2>2 DEF Injection
  <1>5. HandlersOK
    BY <1>2 DEF HandlersOK, ActivationFrame
  <1>6. RowsOK
    <2>1. outbox \in Seq(Users)
      BY <1>4
    <2> QED
      BY <1>3, <2>1 DEF RowsOK, AccountStatus, TokenRow
  <1>7. QueuedHaveTokens
    BY <1>4 DEF QueuedHaveTokens
  <1> QED
    BY <1>2, <1>5, <1>6, <1>7

-----------------------------------------------------------------------------
(* The order of the queue *)

\* No handler is in the queue twice, and every one with a request is in it, since all
\* awaits of these requests are microtasks.
QueueInv == \A i, j \in DOMAIN ready : ready[i] = ready[j] => i = j

BusyQueued == \A h \in Handlers : ~Idle(h) => h \in Range(ready)

\* No handler in the queue is more than one turn ahead of another, and those that are
\* ahead are behind in the queue.
Lockstep ==
    \A i, j \in DOMAIN ready :
      i < j => /\ Turn(pc[ready[i]]) <= Turn(pc[ready[j]])
               /\ Turn(pc[ready[j]]) <= Turn(pc[ready[i]]) + 1

OrderInv == QueueInv /\ BusyQueued /\ Lockstep

\* What the head of the queue leaves behind.
LEMMA QueueFacts ==
    ASSUME HandlersOK, QueueInv, NEW h \in Handlers, ready # <<>>, Head(ready) = h
    PROVE  /\ h \in Range(ready)
           /\ h \notin Range(Tail(ready))
           /\ \A g \in Handlers \ {h} :
                /\ g \in Range(ready) <=> g \in Range(Tail(ready))
                /\ g \in Range(Append(Tail(ready), h)) <=> g \in Range(Tail(ready))
           /\ h \in Range(Append(Tail(ready), h))
           /\ \A q \in {Tail(ready), Append(Tail(ready), h)} :
                \A i, j \in DOMAIN q : q[i] = q[j] => i = j
  <1>0. /\ ready \in Seq(Handlers) /\ Len(ready) \in Nat \ {0} /\ ready[1] = h
        /\ \A i, j \in 1..Len(ready) : ready[i] = ready[j] => i = j
    BY DEF HandlersOK, QueueInv
  <1> DEFINE t == Tail(ready)
             a == Append(t, h)
             n == Len(ready)
  <1>1. t \in Seq(Handlers) /\ Len(t) = n - 1 /\ \A i \in 1..(n - 1) : t[i] = ready[i + 1]
    BY <1>0
  <1>2. /\ a \in Seq(Handlers) /\ Len(a) = n /\ a[n] = h
        /\ \A i \in 1..(n - 1) : a[i] = ready[i + 1]
    BY <1>0, <1>1
  <1>3. /\ DOMAIN ready = 1..n /\ DOMAIN t = 1..(n - 1) /\ DOMAIN a = 1..n
        /\ n \in Nat \ {0} /\ ready[1] = h
        /\ \A i, j \in 1..n : ready[i] = ready[j] => i = j
    BY <1>0, <1>1, <1>2
  <1> HIDE DEF t, a, n
  <1>4. \A x : x \in Range(ready) <=> \E i \in 1..n : x = ready[i]
    BY <1>3 DEF Range
  <1>5. \A x : x \in Range(t) <=> \E i \in 1..(n - 1) : x = ready[i + 1]
    <2>1. \A x : x \in Range(t) <=> \E i \in 1..(n - 1) : x = t[i]
      BY <1>3 DEF Range
    <2>2. ASSUME NEW x
          PROVE  (\E i \in 1..(n - 1) : x = t[i])
                   <=> \E i \in 1..(n - 1) : x = ready[i + 1]
      BY <1>1
    <2> QED
      BY <2>1, <2>2, Zenon
  <1>6. \A x : x \in Range(a) <=> x = h \/ \E i \in 1..(n - 1) : x = ready[i + 1]
    <2>1. \A x : x \in Range(a) <=> \E i \in 1..n : x = a[i]
      BY <1>3 DEF Range
    <2>2. n \in 1..n /\ \A i \in 1..n : i = n \/ i \in 1..(n - 1)
      BY <1>3
    <2>3. \A i \in 1..(n - 1) : i \in 1..n
      BY <1>3
    <2>4. ASSUME NEW x
          PROVE  (\E i \in 1..n : x = a[i])
                   <=> x = h \/ \E i \in 1..(n - 1) : x = ready[i + 1]
      BY <1>2, <2>2, <2>3
    <2> QED
      BY <2>1, <2>4, Zenon
  <1>7. \A g \in Handlers \ {h} : g \in Range(ready) <=> g \in Range(t)
    <2> SUFFICES ASSUME NEW g \in Handlers \ {h}
                 PROVE  g \in Range(ready) <=> g \in Range(t)
      OBVIOUS
    <2>1. ASSUME NEW i \in 1..n, g = ready[i] PROVE \E k \in 1..(n - 1) : g = ready[k + 1]
      <3>1. i # 1
        BY <1>3, <2>1
      <3>2. i - 1 \in 1..(n - 1) /\ ready[(i - 1) + 1] = g
        BY <1>3, <2>1, <3>1
      <3> QED
        BY <3>2
    <2>2. ASSUME NEW i \in 1..(n - 1), g = ready[i + 1] PROVE \E k \in 1..n : g = ready[k]
      <3>1. i + 1 \in 1..n
        BY <1>3
      <3> QED
        BY <2>2, <3>1
    <2> QED
      BY <1>4, <1>5, <2>1, <2>2
  <1>8. h \notin Range(t)
    <2> SUFFICES ASSUME NEW i \in 1..(n - 1), h = ready[i + 1] PROVE FALSE
      BY <1>5
    <2>1. i + 1 \in 1..n /\ 1 \in 1..n /\ i + 1 # 1
      BY <1>3
    <2> QED
      BY <1>3, <2>1
  <1>9. \A i, j \in 1..(n - 1) : t[i] = t[j] => i = j
    <2> SUFFICES ASSUME NEW i \in 1..(n - 1), NEW j \in 1..(n - 1), t[i] = t[j]
                 PROVE  i = j
      OBVIOUS
    <2>1. i + 1 \in 1..n /\ j + 1 \in 1..n /\ ready[i + 1] = ready[j + 1]
      BY <1>3, <1>1
    <2>2. i + 1 = j + 1
      BY <1>3, <2>1
    <2> QED
      BY <2>2
  <1>10. \A i, j \in 1..n : a[i] = a[j] => i = j
    <2>1. \A i \in 1..n : i = n \/ (i \in 1..(n - 1) /\ a[i] = t[i] /\ a[i] # h)
      <3>1. \A i \in 1..(n - 1) : t[i] = ready[i + 1] /\ a[i] = t[i]
        BY <1>1, <1>2
      <3>2. \A i \in 1..(n - 1) : ready[i + 1] # h
        BY <1>5, <1>8
      <3>3. \A i \in 1..n : i = n \/ i \in 1..(n - 1)
        BY <1>3
      <3> QED
        BY <3>1, <3>2, <3>3
    <2> SUFFICES ASSUME NEW i \in 1..n, NEW j \in 1..n, a[i] = a[j] PROVE i = j
      OBVIOUS
    <2>2. CASE i = n \/ j = n
      BY <1>2, <2>1, <2>2
    <2>3. CASE i # n /\ j # n
      <3>1. /\ i \in 1..(n - 1) /\ a[i] = t[i]
            /\ j \in 1..(n - 1) /\ a[j] = t[j]
        BY <2>1, <2>3
      <3>2. t[i] = t[j]
        BY <3>1
      <3> QED
        BY <1>9, <3>1, <3>2
    <2> QED
      BY <2>2, <2>3
  <1>11. h \in Range(ready) /\ h \in Range(a)
    <2>1. 1 \in 1..n
      BY <1>3
    <2> QED
      BY <1>3, <1>4, <1>6, <2>1
  <1>12. \A g \in Handlers \ {h} : g \in Range(a) <=> g \in Range(t)
    BY <1>5, <1>6
  <1>13. ASSUME NEW q \in {t, a} PROVE \A i, j \in DOMAIN q : q[i] = q[j] => i = j
    <2>1. CASE q = t
      BY <1>3, <1>9, <2>1
    <2>2. CASE q = a
      BY <1>3, <1>10, <2>2
    <2> QED
      BY <2>1, <2>2
  <1> QED
    BY <1>7, <1>8, <1>11, <1>12, <1>13 DEF t, a

\* With an empty queue no request is under way.
LEMMA AllIdle ==
    ASSUME OrderInv, ready = <<>>
    PROVE  \A h \in Handlers : pc[h] = "idle"
  <1>1. Range(ready) = {}
    BY DEF Range
  <1> QED
    BY <1>1 DEF OrderInv, BusyQueued, Idle

\* While a handler runs, no other one with a request has had fewer turns.
LEMMA OthersKeepPace ==
    ASSUME HandlersOK, OrderInv, NEW h \in Handlers, ready # <<>>, Head(ready) = h,
           NEW g \in Handlers, pc[g] # "idle"
    PROVE  Turn(pc[h]) <= Turn(pc[g])
  <1>1. PICK i \in DOMAIN ready : ready[i] = g
    BY DEF OrderInv, BusyQueued, Idle, Range
  <1>2. DOMAIN ready = 1..Len(ready) /\ Len(ready) \in Nat /\ ready[1] = h /\ i >= 1
    BY DEF HandlersOK
  <1>3. CASE i = 1
    BY <1>1, <1>2, <1>3, TurnValues
  <1>4. CASE i # 1
    <2>1. 1 \in DOMAIN ready /\ 1 < i
      BY <1>2, <1>4
    <2> QED
      BY <1>1, <1>2, <2>1 DEF OrderInv, Lockstep
  <1> QED
    BY <1>3, <1>4

\* A turn keeps the order.
LEMMA MoveKeepsOrder ==
    ASSUME HandlersOK, OrderInv, NEW h \in Handlers, NEW label, NEW locals,
           Moves(h, label, locals)
    PROVE  OrderInv'
  <1>0. /\ ready # <<>> /\ Head(ready) = h /\ QueueInv
        /\ ready \in Seq(Handlers) /\ Len(ready) \in Nat /\ Len(ready) # 0 /\ ready[1] = h
        /\ pc'[h] = label
        /\ \A g \in Handlers \ {h} : pc'[g] = pc[g]
        /\ \/ ready' = Append(Tail(ready), h) /\ Turn(label) = Turn(pc[h]) + 1
           \/ ready' = Tail(ready) /\ label = "idle"
    BY DEF Moves, Goto, OrderInv, HandlersOK
  <1>1. QueueInv'
    BY <1>0, QueueFacts DEF QueueInv
  <1>2. BusyQueued'
    <2> SUFFICES ASSUME NEW g \in Handlers, pc'[g] # "idle"
                 PROVE  g \in Range(ready')
      BY DEF BusyQueued, Idle
    <2>1. CASE g = h
      BY <1>0, <2>1, QueueFacts
    <2>2. CASE g # h
      <3>1. g \in Range(ready)
        BY <1>0, <2>2 DEF OrderInv, BusyQueued, Idle
      <3> QED
        BY <1>0, <2>2, <3>1, QueueFacts
    <2> QED
      BY <2>1, <2>2
  <1>3. Lockstep'
    <2> DEFINE t == Tail(ready)
               n == Len(ready)
    <2>1. /\ DOMAIN ready = 1..n /\ DOMAIN t = 1..(n - 1) /\ n \in Nat
          /\ \A i \in 1..(n - 1) : /\ t[i] = ready[i + 1] /\ ready[i + 1] \in Handlers
                                   /\ i + 1 \in 1..n
      BY <1>0
    <2>2. ASSUME NEW i \in 1..(n - 1)
          PROVE  /\ pc'[t[i]] = pc[ready[i + 1]]
                 /\ Turn(pc[h]) <= Turn(pc[ready[i + 1]])
                 /\ Turn(pc[ready[i + 1]]) <= Turn(pc[h]) + 1
      <3>1. 1 \in DOMAIN ready /\ i + 1 \in DOMAIN ready /\ 1 < i + 1 /\ i + 1 # 1
        BY <2>1
      <3>2. ready[i + 1] # h
        BY <1>0, <3>1 DEF QueueInv
      <3> QED
        BY <1>0, <2>1, <3>1, <3>2 DEF OrderInv, Lockstep
    <2>3. ASSUME NEW i \in 1..(n - 1), NEW j \in 1..(n - 1), i < j
          PROVE  /\ Turn(pc'[t[i]]) <= Turn(pc'[t[j]])
                 /\ Turn(pc'[t[j]]) <= Turn(pc'[t[i]]) + 1
      <3>1. i + 1 \in DOMAIN ready /\ j + 1 \in DOMAIN ready /\ i + 1 < j + 1
        BY <2>1, <2>3
      <3> QED
        BY <2>2, <3>1 DEF OrderInv, Lockstep
    <2>4. CASE ready' = t
      BY <2>1, <2>3, <2>4 DEF Lockstep
    <2>5. CASE ready' = Append(t, h) /\ Turn(label) = Turn(pc[h]) + 1
      <3> DEFINE a == Append(t, h)
      <3>1. /\ DOMAIN a = 1..n /\ a[n] = h
            /\ \A i \in 1..(n - 1) : a[i] = t[i]
        BY <1>0, <2>1
      <3>2. ASSUME NEW i \in 1..n, i # n PROVE i \in 1..(n - 1)
        BY <1>0, <3>2
      <3>3. ASSUME NEW i \in 1..n, NEW j \in 1..n, i < j PROVE i # n
        BY <1>0, <3>3
      <3> HIDE DEF a, t
      <3> SUFFICES ASSUME NEW i \in 1..n, NEW j \in 1..n, i < j
                   PROVE  /\ Turn(pc'[a[i]]) <= Turn(pc'[a[j]])
                          /\ Turn(pc'[a[j]]) <= Turn(pc'[a[i]]) + 1
        BY <2>5, <3>1 DEF Lockstep, a
      <3>4. i \in 1..(n - 1) /\ a[i] = t[i]
        BY <3>1, <3>2, <3>3
      <3>5. CASE j = n
        <4>1. Turn(pc'[a[j]]) = Turn(pc[h]) + 1
          BY <1>0, <2>5, <3>1, <3>5
        <4>2. Turn(pc'[a[i]]) = Turn(pc[ready[i + 1]])
          BY <2>2, <3>4
        <4>3. Turn(pc[h]) \in Nat /\ Turn(pc[ready[i + 1]]) \in Nat
          BY TurnValues
        <4> QED
          BY <2>2, <3>4, <4>1, <4>2, <4>3
      <3>6. CASE j # n
        BY <2>3, <3>1, <3>2, <3>4, <3>6
      <3> QED
        BY <3>5, <3>6
    <2> QED
      BY <1>0, <2>4, <2>5
  <1> QED
    BY <1>1, <1>2, <1>3 DEF OrderInv

\* Every step of the system keeps the order.
LEMMA NextKeepsOrder == HandlersOK /\ RowsOK /\ OrderInv /\ [Next]_vars => OrderInv'
  <1> SUFFICES ASSUME HandlersOK, RowsOK, OrderInv, [Next]_vars PROVE OrderInv'
    OBVIOUS
  <1>1. CASE Receive /\ UNCHANGED accountVars
    <2>1. /\ ready' \in Batches(MaxBatch)
          /\ \A h \in Handlers :
               /\ h \in Range(ready') => Turn(pc'[h]) = 0
               /\ h \notin Range(ready') => pc'[h] = "idle"
      BY <1>1, Arrivals, AllIdle, TurnValues
    <2>2. QueueInv'
      BY <2>1, BatchTyped DEF QueueInv
    <2>3. BusyQueued'
      BY <2>1 DEF BusyQueued, Idle
    <2>4. \A i \in DOMAIN ready' : ready'[i] \in Range(ready') /\ ready'[i] \in Handlers
      BY <2>1, BatchTyped DEF Range
    <2>5. Lockstep'
      BY <2>1, <2>4 DEF Lockstep
    <2> QED
      BY <2>2, <2>3, <2>5 DEF OrderInv
  <1>2. ASSUME NEW h \in Handlers, Step(h) PROVE OrderInv'
    BY <1>2, StepDoes, MoveKeepsOrder DEF Does
  <1>3. CASE ProcessEnds
    BY <1>3 DEF ProcessEnds, RequestsEnd, OrderInv, QueueInv, BusyQueued, Lockstep, Idle
  <1>4. CASE UNCHANGED loopVars
    BY <1>4 DEF loopVars, OrderInv, QueueInv, BusyQueued, Lockstep, Idle
  <1> QED
    BY <1>1, <1>2, <1>3, <1>4, OtherSteps DEF Register

-----------------------------------------------------------------------------
(* A deletion is final *)

\* Whoever is about to make an account active may: it is pending or active still.
TrustInv ==
    \A h \in Handlers :
      Trusts(pc[h], loc[h]) => account[loc[h].user] \in {"pending", "active"}

\* No request trusts while another commits a deletion: it is turns behind its own
\* UPDATE by then.
LEMMA NoneTrusts ==
    ASSUME HandlersOK, OrderInv, NEW h \in Handlers, ready # <<>>, Head(ready) = h,
           pc[h] = "delete.user", NEW g \in Handlers
    PROVE  ~Trusts(pc[g], loc[g])
  <1>1. pc[g] # "idle" => 5 <= Turn(pc[g])
    BY OthersKeepPace, TurnValues
  <1>2. \A label \in {"activate.user", "verify.user", "verify.row"} : Turn(label) < 5
    BY TurnValues DEF Turn1, Turn2
  <1>3. Turn(pc[g]) \in Nat
    BY TurnValues
  <1> QED
    BY <1>1, <1>2, <1>3 DEF Trusts

\* Every step keeps the trust.
LEMMA NextKeepsTrust ==
    HandlersOK /\ RowsOK /\ OrderInv /\ TrustInv /\ [Next]_vars => TrustInv'
  <1> SUFFICES ASSUME HandlersOK, RowsOK, OrderInv, TrustInv, [Next]_vars PROVE TrustInv'
    OBVIOUS
  <1>0. DOMAIN pc = Handlers /\ DOMAIN loc = Handlers
    BY DEF HandlersOK
  <1>1. CASE Receive /\ UNCHANGED accountVars
    <2>1. \A h \in Handlers :
            pc'[h] \in {"activate", "resend", "verify", "delete", "idle"}
      BY <1>1, Arrivals, AllIdle
    <2> QED
      BY <2>1 DEF TrustInv, Trusts
  <1>2. ASSUME NEW h \in Handlers, Step(h) PROVE TrustInv'
    <2>1. Does(h)
      BY <1>2, StepDoes
    <2>2. PICK label, locals : Moves(h, label, locals)
      BY <2>1 DEF Does
    <2>3. /\ ready # <<>> /\ Head(ready) = h
          /\ pc' = [pc EXCEPT ![h] = label] /\ loc' = [loc EXCEPT ![h] = locals]
          /\ Trusts(label, locals) =>
               /\ locals.user = loc[h].user
               /\ account[loc[h].user] \in {"pending", "active"} \/ Trusts(pc[h], loc[h])
          /\ loc[h].user \in Users
      BY <2>1, <2>2 DEF Moves, Goto, Does
    <2>4. ASSUME NEW g \in Handlers, Trusts(pc'[g], loc'[g])
          PROVE  account[loc'[g].user] \in {"pending", "active"} /\ loc'[g].user \in Users
      <3>1. CASE g = h
        BY <1>0, <2>3, <2>4, <3>1 DEF TrustInv
      <3>2. CASE g # h
        <4>1. pc'[g] = pc[g] /\ loc'[g] = loc[g] /\ pc[g] # "idle"
          BY <1>0, <2>3, <2>4, <3>2 DEF Trusts
        <4>2. loc[g].user \in Users
          BY <4>1, Frames DEF HandlersOK
        <4> QED
          BY <2>4, <4>1, <4>2 DEF TrustInv
      <3> QED
        BY <3>1, <3>2
    <2>5. CASE pc[h] = "delete.user"
      <3>1. ASSUME NEW g \in Handlers PROVE ~Trusts(pc[g], loc[g])
        BY <2>3, <2>5, NoneTrusts
      <3>2. Turn(label) = 6 \/ label = "idle"
        BY <2>2, <2>5, TurnValues DEF Moves
      <3>3. ~Trusts(label, locals)
        BY <3>2, TurnValues DEF Trusts, Turn1, Turn2
      <3> QED
        BY <1>0, <2>3, <3>1, <3>3 DEF TrustInv
    <2>6. CASE pc[h] # "delete.user"
      <3>1. \A u \in Users :
              account[u] \in {"pending", "active"} => account'[u] \in {"pending", "active"}
        BY <2>1, <2>6 DEF Does, RowsOK
      <3> QED
        BY <2>4, <3>1 DEF TrustInv
    <2> QED
      BY <2>5, <2>6
  <1>3. ASSUME NEW u \in Users, Register(u) PROVE TrustInv'
    <2>1. \A h \in Handlers : pc'[h] = "idle"
      BY <1>3, AllIdle DEF Register, loopVars
    <2> QED
      BY <2>1 DEF TrustInv, Trusts
  <1>4. CASE ProcessEnds
    BY <1>4 DEF ProcessEnds, RequestsEnd, TrustInv, Trusts
  <1>5. CASE UNCHANGED <<loopVars, accountVars>>
    BY <1>5 DEF loopVars, accountVars, TrustInv
  <1> QED
    BY <1>1, <1>2, <1>3, <1>4, <1>5, OtherSteps

\* A step with the invariant leaves deleted accounts deleted.
LEMMA NextKeepsDeleted ==
    HandlersOK /\ RowsOK /\ TrustInv /\ [Next]_vars =>
      \A u \in Users : account[u] = "deleted" => account'[u] = "deleted"
  <1> SUFFICES ASSUME HandlersOK, RowsOK, TrustInv, [Next]_vars,
                      NEW u \in Users, account[u] = "deleted"
               PROVE  account'[u] = "deleted"
    OBVIOUS
  <1>1. ASSUME NEW h \in Handlers, Step(h) PROVE account'[u] = "deleted"
    BY <1>1, StepDoes DEF Does, TrustInv, RowsOK
  <1>2. ASSUME NEW v \in Users, Register(v) PROVE account'[u] = "deleted"
    BY <1>2 DEF Register, RegisterUser, RowsOK
  <1>3. CASE UNCHANGED account
    BY <1>3
  <1> QED
    BY <1>1, <1>2, <1>3, OtherSteps DEF accountVars

\* Neither an activation nor the check of a passcode in flight revives an account that
\* is deleted meanwhile, however many requests one event brings.
THEOREM DeletionIsFinal == Spec => DeletedIsFinal
  <1> DEFINE Inv == HandlersOK /\ RowsOK /\ OrderInv /\ TrustInv
  <1>1. Init => Inv
    <2> SUFFICES ASSUME Init PROVE OrderInv /\ TrustInv
      BY InitTyped
    <2>1. ready = <<>> /\ \A h \in Handlers : pc[h] = "idle"
      BY InitTyped
    <2> QED
      BY <2>1 DEF OrderInv, QueueInv, BusyQueued, Lockstep, TrustInv, Trusts, Idle
  <1>2. Inv /\ [Next]_vars => Inv'
    BY NextTyped, NextKeepsOrder, NextKeepsTrust
  <1>3. Inv /\ [Next]_vars =>
          [\A u \in Users : account[u] = "deleted" => account'[u] = "deleted"]_vars
    BY NextKeepsDeleted
  <1> QED
    BY <1>1, <1>2, <1>3, PTL DEF Spec, DeletedIsFinal

-----------------------------------------------------------------------------
(* The outbox *)

\* Each record has its token, as has the user of a request that found one: no token
\* is ever removed.
OutboxInv ==
    /\ QueuedHaveTokens
    /\ \A h \in Handlers :
         pc[h] = "resend.token" /\ loc[h].tokenId => token[loc[h].user] # "none"

\* No step takes a token away.
LEMMA TokensStay ==
    ASSUME HandlersOK, RowsOK, [Next]_vars, NEW u \in Users, token[u] # "none"
    PROVE  token'[u] # "none"
  <1>1. ASSUME NEW h \in Handlers, Step(h) PROVE token'[u] # "none"
    BY <1>1, StepDoes DEF Does, RowsOK
  <1>2. CASE UNCHANGED token
    BY <1>2
  <1> QED
    BY <1>1, <1>2, OtherSteps DEF accountVars, Register, RegisterUser

\* Every step keeps the invariant.
LEMMA NextKeepsOutbox ==
    HandlersOK /\ RowsOK /\ OutboxInv /\ [Next]_vars => OutboxInv'
  <1> SUFFICES ASSUME HandlersOK, RowsOK, OutboxInv, [Next]_vars PROVE OutboxInv'
    OBVIOUS
  <1>0. DOMAIN pc = Handlers /\ DOMAIN loc = Handlers
    BY DEF HandlersOK
  <1>1. /\ outbox' \in Seq(Users) /\ outbox \in Seq(Users)
        /\ \A h \in Handlers : pc'[h] = "resend.token" => loc'[h].user \in Users
    <2>1. HandlersOK' /\ RowsOK'
      BY NextTyped
    <2>2. ASSUME NEW h \in Handlers, pc'[h] = "resend.token" PROVE loc'[h].user \in Users
      <3>1. ActivationFrame(pc'[h], loc'[h])
        BY <2>1 DEF HandlersOK
      <3> QED
        BY <2>2, <3>1, Frames
    <2> QED
      BY <2>1, <2>2 DEF RowsOK
  <1>2. \A n \in DOMAIN outbox' : token[outbox'[n]] # "none"
    <2>1. CASE UNCHANGED outbox
      BY <2>1 DEF OutboxInv, QueuedHaveTokens
    <2>2. ASSUME NEW h \in Handlers, pc[h] = "resend.token", loc[h].tokenId,
                 outbox' = Append(outbox, loc[h].user)
          PROVE  \A n \in DOMAIN outbox' : token[outbox'[n]] # "none"
      <3> DEFINE user == loc[h].user
      <3>0. user \in Users
        BY <2>2, Frames DEF HandlersOK
      <3>1. \A n \in DOMAIN outbox' :
              outbox'[n] = user \/ (n \in DOMAIN outbox /\ outbox'[n] = outbox[n])
        BY <1>1, <2>2, <3>0
      <3> QED
        BY <2>2, <3>1 DEF OutboxInv, QueuedHaveTokens
    <2>3. UNCHANGED outbox \/ \E h \in Handlers : Does(h)
      BY StepDoes, OtherSteps DEF accountVars, Register, RegisterUser
    <2> QED
      BY <2>1, <2>2, <2>3 DEF Does
  <1>3. QueuedHaveTokens'
    <2>1. \A n \in DOMAIN outbox' : outbox'[n] \in Users
      BY <1>1
    <2> QED
      BY <1>2, <2>1, TokensStay DEF QueuedHaveTokens
  <1>4. ASSUME NEW g \in Handlers, pc'[g] = "resend.token", loc'[g].tokenId
        PROVE  token[loc'[g].user] # "none"
    <2>1. ASSUME NEW h \in Handlers, Step(h) PROVE token[loc'[g].user] # "none"
      <3>1. PICK label, locals : Moves(h, label, locals)
        BY <2>1, StepDoes DEF Does
      <3>2. CASE g = h
        BY <1>0, <1>4, <3>1, <3>2 DEF Moves, Goto
      <3>3. CASE g # h
        BY <1>0, <1>4, <3>1, <3>3 DEF Moves, Goto, OutboxInv
      <3> QED
        BY <3>2, <3>3
    <2>2. CASE Receive
      <3>1. pc'[g] = pc[g] /\ loc'[g] = loc[g]
        BY <1>4, <2>2, Arrivals
      <3> QED
        BY <1>4, <3>1 DEF OutboxInv
    <2>3. CASE ProcessEnds
      BY <1>4, <2>3 DEF ProcessEnds, RequestsEnd
    <2>4. CASE UNCHANGED loopVars
      BY <1>4, <2>4 DEF loopVars, OutboxInv
    <2> QED
      BY <2>1, <2>2, <2>3, <2>4, OtherSteps DEF Register
  <1>5. \A h \in Handlers :
          pc'[h] = "resend.token" /\ loc'[h].tokenId => token'[loc'[h].user] # "none"
    BY <1>1, <1>4, TokensStay
  <1> QED
    BY <1>3, <1>5 DEF OutboxInv

\* Every record the outbox worker reads has its token.
THEOREM TokensOfQueued == Spec => []QueuedHaveTokens
  <1> DEFINE Inv == HandlersOK /\ RowsOK /\ OutboxInv
  <1>1. Init => Inv
    BY InitTyped DEF OutboxInv
  <1>2. Inv /\ [Next]_vars => Inv'
    BY NextTyped, NextKeepsOutbox
  <1>3. Inv => QueuedHaveTokens
    BY DEF OutboxInv
  <1> QED
    BY <1>1, <1>2, <1>3, PTL DEF Spec
=============================================================================
