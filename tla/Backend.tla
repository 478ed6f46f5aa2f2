------------------------------ MODULE Backend ------------------------------
(***************************************************************************)
(* The process around its requests: Startup brings the schema and the      *)
(* process up and down, Activation serves requests and sends the outbox    *)
(* while it is up.  Requests and polls end with the process; the file      *)
(* keeps what was committed.                                               *)
(***************************************************************************)
EXTENDS Startup, Activation

vars == <<startupVars, loopVars, clock, accountVars, workerVars>>

Init ==
    /\ StartupInit
    /\ ActivationInit(applied = MIGRATION_FILES)

Quiet == UNCHANGED <<loopVars, clock, accountVars, workerVars>>

-----------------------------------------------------------------------------
\* The migrations run, by the server before it listens or by db:migrate.
MigrationStep == StartupNext /\ Quiet

\* Requests arrive while the server listens.
Receive ==
    /\ phase["server"] = "up"
    /\ Arrive(Requests)
    /\ UNCHANGED <<startupVars, clock, accountVars, workerVars>>

Step(h) ==
    /\ \/ ActivateStep(h)
       \/ ResendStep(h)
       \/ VerifyStep(h)
       \/ DeleteStep(h)
       \/ Failed(h)
    /\ UNCHANGED <<startupVars, clock>>

\* The insert of a registration follows the end of a bcrypt hash, an event of its
\* own, without yielding before.
Register(u) ==
    /\ phase["server"] = "up"
    /\ ready = <<>>
    /\ RegisterUser(u)
    /\ UNCHANGED <<startupVars, loopVars, clock>>

Time == Tick /\ UNCHANGED <<startupVars, accountVars, workerVars>>

\* The interval of OutboxWorker fires: only between start() and stop().
OutboxPoll(p) ==
    /\ phase["server"] = "up"
    /\ ready = <<>>
    /\ Worker!Poll(p)
    /\ UNCHANGED <<startupVars, loopVars, clock, accountVars>>

\* An answer of SendGrid; the update needs the open database.
OutboxAnswer(p) ==
    /\ DatabaseOpen
    /\ ready = <<>>
    /\ \E n \in Worker!Records : Worker!Succeed(p, n) \/ Worker!Fail(p, n)
    /\ UNCHANGED <<startupVars, loopVars, clock, accountVars>>

\* Of the bound on faults one is kept for each end of the process to come.
EndsToCome == MaxStops - stops + IF phase["server"] \in {"stopping", "closed"} THEN 1 ELSE 0

OutboxMiscount(p) ==
    /\ DatabaseOpen
    /\ ready = <<>>
    /\ faults + EndsToCome < MaxFaults
    /\ \E n \in Worker!Records : Worker!Miscount(p, n)
    /\ UNCHANGED <<startupVars, loopVars, clock, accountVars>>

\* What the process held is gone; the email of some polls may be out.
RequestsEnd ==
    /\ ready' = <<>>
    /\ pc' = [h \in Handlers |-> "idle"]
    /\ loc' = [h \in Handlers |-> NoLocals]

\* stop() clears the interval and waits for no poll: an answer that comes once the
\* database is closed makes updateStatus throw, and _handleFailure in the catch block
\* as well, an unhandled rejection that ends the process.  So does the exit.
PollsEnd ==
    IF \E p \in Polls : todo[p] # {}
      THEN \E out \in SUBSET {p \in Polls : todo[p] # {}} : Worker!Crash(out)
      ELSE UNCHANGED workerVars

ProcessEnds ==
    /\ Kill \/ Exit
    /\ RequestsEnd
    /\ PollsEnd
    /\ UNCHANGED <<clock, accountVars>>

ShutdownBegins == Shutdown /\ Quiet

\* server.close calls back when no request is open.
DatabaseCloses ==
    /\ Close
    /\ \A h \in Handlers : Idle(h)
    /\ Quiet

Next ==
    \/ MigrationStep
    \/ Receive
    \/ \E h \in Handlers : Step(h)
    \/ \E u \in Users : Register(u)
    \/ Time
    \/ \E p \in Polls : OutboxPoll(p) \/ OutboxAnswer(p) \/ OutboxMiscount(p)
    \/ ProcessEnds
    \/ ShutdownBegins
    \/ DatabaseCloses

Spec == Init /\ [][Next]_vars

\* What the server does by itself when it is not up: it starts, migrates and listens, or
\* closes and exits.
Progress ==
    \/ (Migrate("server") \/ Listen) /\ Quiet
    \/ DatabaseCloses
    \/ ProcessEnds /\ Exit

\* The server is restarted when it ends (backend-deployment.yaml), and its start and
\* its shutdown run to the end; microtasks run; the event loop comes round to the
\* interval between requests however many there are, and to an answer of SendGrid.
FairSpec ==
    /\ Spec
    /\ WF_vars(Progress)
    /\ WF_vars(\E h \in Handlers : Step(h))
    /\ \A p \in Polls : SF_vars(OutboxPoll(p) \/ OutboxAnswer(p))

-----------------------------------------------------------------------------
\* Runners, requests, rows and polls have the types of the code.
TypeOK == StartupOK /\ ActivationOK

\* Whatever the other runner was doing meanwhile, requests are served and polls
\* run only on the whole schema and with a configuration that was checked
\* (server.ts runs the migrations before it listens).
ServesFullSchema ==
    (Running \/ \E h \in Handlers : ~Idle(h) \/ \E p \in Polls : todo[p] # {})
        => applied = MIGRATION_FILES /\ tables = MIGRATION_FILES /\ Loads(environment)

\* An activation or the check of a passcode that is in flight never revives an
\* account that is deleted meanwhile: their UPDATE looks at nothing, the status they
\* rely on was read some turns before (activation.service.ts:78, otp.service.ts:109).
DeletedIsFinal ==
    [][\A u \in Users : account[u] = "deleted" => account'[u] = "deleted"]_vars

\* The worker finds the token of every record it reads, so that the branch of
\* processQueuedRecords for a missing one (outbox.worker.ts:76) is never taken.
QueuedHaveTokens == \A n \in DOMAIN outbox : token[outbox[n]] # "none"

\* "Stop the polling interval -- allows clean shutdown" (outbox.worker.ts:54): once
\* the database is closed, no email goes out whose record stays queued, to be sent
\* once more after the restart.
CleanShutdown ==
    [][phase["server"] = "closed" =>
         \A n \in Worker!Records :
           inbox'[n] > inbox[n] => records'[n].st = "sent"]_vars

\* The server comes up again after every end, also one in the middle of the
\* migrations or of those of the other runner.
ComesUp == Loads(environment) => (phase["server"] = "down" ~> phase["server"] = "up")

\* A confirmation that the administrator asked for (202) is sent or given up.
ConfirmationsSettle ==
    \A n \in Worker!Records :
        (Loads(environment) /\ records[n].st = "queued")
            ~> records[n].st \in {"sent", "failed"}
=============================================================================
