------------------------- MODULE NotificationWorker -------------------------
(***************************************************************************)
(* AccountDeletionNotificationWorker over the notification records that    *)
(* confirmDeletion queues.  setInterval starts a poll whether or not the   *)
(* one before has finished, so several polls can be under way, each with   *)
(* the snapshot of queued records it took when it began.  Between two      *)
(* sends a poll runs without interruption: the update that follows a       *)
(* SendGrid answer and the next send are one step.                         *)
(*                                                                         *)
(* OutboxWorker (outbox.worker.ts) is the same loop over another table.    *)
(***************************************************************************)
EXTENDS Naturals, FiniteSets

CONSTANTS
    Polls,        \* polls that can be under way at once
    MaxRecords,   \* records confirmDeletion queues
    MaxRetries,   \* OUTBOX_MAX_RETRIES
    MaxFaults     \* bound on lost answers, failed statements and crashes

ASSUME WorkerAssumption ==
    /\ IsFiniteSet(Polls) /\ Polls # {}
    /\ {MaxRecords, MaxRetries, MaxFaults} \subseteq Nat

Records == 1..MaxRecords   \* in the order of dispatch_timestamp

VARIABLES
    records,   \* rows: delivery status and retry_count
    todo,      \* of each poll: records of its snapshot still to be sent
    seen,      \* of each poll: retry_count of each record in its snapshot
    inbox,     \* history: emails the recipient of each record got
    misses,    \* history: sends of each record that the worker saw fail
    faults

vars == <<records, todo, seen, inbox, misses, faults>>

RecordRow == [st : {"absent", "queued", "sent", "failed"}, retries : Nat]

\* Rows, snapshots and counters have the types of the schema.
TypeOK ==
    /\ records \in [Records -> RecordRow]
    /\ todo \in [Polls -> SUBSET Records]
    /\ seen \in [Polls -> [Records -> Nat]]
    /\ inbox \in [Records -> Nat]
    /\ misses \in [Records -> Nat]
    /\ faults \in 0..MaxFaults

\* No poll has begun, and no email is out.
NothingSent ==
    /\ todo = [p \in Polls |-> {}]
    /\ seen = [p \in Polls |-> [n \in Records |-> 0]]
    /\ inbox = [n \in Records |-> 0]
    /\ misses = [n \in Records |-> 0]
    /\ faults = 0

Init ==
    /\ records = [n \in Records |-> [st |-> "absent", retries |-> 0]]
    /\ NothingSent

-----------------------------------------------------------------------------
\* confirmDeletion commits a queued record.
Queue(n) ==
    /\ records[n].st = "absent"
    /\ \A m \in Records : m < n => records[m].st # "absent"
    /\ records' = [records EXCEPT ![n].st = "queued"]
    /\ UNCHANGED <<todo, seen, inbox, misses, faults>>

\* Variant: also takes what was already sent.
FindUnfinished == {n \in Records : records[n].st \in {"queued", "sent"}}

\* Variant: takes only what was never tried.
FindFresh == {n \in Records : records[n].st = "queued" /\ records[n].retries = 0}

FindQueued == {n \in Records : records[n].st = "queued"}

\* An interval tick: processQueuedRecords reads the queued records and sends the
\* first.
Poll(p) ==
    /\ todo[p] = {}
    /\ FindQueued # {}
    /\ todo' = [todo EXCEPT ![p] = FindQueued]
    /\ seen' = [seen EXCEPT ![p] = [n \in Records |-> records[n].retries]]
    /\ UNCHANGED <<records, inbox, misses, faults>>

\* The record poll p has sent and awaits the answer of.
Sending(p, n) == n \in todo[p] /\ \A m \in todo[p] : n <= m

Advance(p, n) ==
    /\ todo' = [todo EXCEPT ![p] = @ \ {n}]
    /\ UNCHANGED seen

UpdateStatus(n, status) == records' = [records EXCEPT ![n].st = status]

\* Variant: one retry too many.
HandleFailureInclusive(p, n) ==
    IF seen[p][n] <= MaxRetries
      THEN records' = [records EXCEPT ![n].retries = @ + 1]
      ELSE UpdateStatus(n, "failed")

\* Variant: gives up one retry early.
HandleFailureEarly(p, n) ==
    IF seen[p][n] + 1 < MaxRetries
      THEN records' = [records EXCEPT ![n].retries = @ + 1]
      ELSE UpdateStatus(n, "failed")

\* _handleFailure, with the retry count of the snapshot.
HandleFailure(p, n) ==
    IF seen[p][n] < MaxRetries
      THEN records' = [records EXCEPT ![n].retries = @ + 1]
      ELSE UpdateStatus(n, "failed")

\* SendGrid answers 202.
Succeed(p, n) ==
    /\ Sending(p, n)
    /\ inbox' = [inbox EXCEPT ![n] = @ + 1]
    /\ UpdateStatus(n, "sent")
    /\ Advance(p, n)
    /\ UNCHANGED <<misses, faults>>

\* SendGrid refuses, or is not reached.
Fail(p, n) ==
    /\ Sending(p, n)
    /\ HandleFailure(p, n)
    /\ misses' = [misses EXCEPT ![n] = @ + 1]
    /\ Advance(p, n)
    /\ UNCHANGED <<inbox, faults>>

\* The email went out, and the answer was lost or the UPDATE to 'sent' threw: the
\* catch block handles it as a failure.
Miscount(p, n) ==
    /\ faults < MaxFaults
    /\ Sending(p, n)
    /\ inbox' = [inbox EXCEPT ![n] = @ + 1]
    /\ HandleFailure(p, n)
    /\ misses' = [misses EXCEPT ![n] = @ + 1]
    /\ Advance(p, n)
    /\ faults' = faults + 1

\* The process ends, the email of some polls already out; the records keep what
\* was committed.
Crash(out) ==
    /\ faults < MaxFaults
    /\ \E p \in Polls : todo[p] # {}
    /\ inbox' = [n \in Records |->
                   inbox[n] + Cardinality({p \in out : Sending(p, n)})]
    /\ todo' = [p \in Polls |-> {}]
    /\ faults' = faults + 1
    /\ UNCHANGED <<records, seen, misses>>

Answer(p) == \E n \in Records : Succeed(p, n) \/ Fail(p, n) \/ Miscount(p, n)

Next ==
    \/ \E n \in Records : Queue(n)
    \/ \E p \in Polls : Poll(p) \/ Answer(p)
    \/ \E out \in SUBSET Polls : Crash(out)

Spec == Init /\ [][Next]_vars

\* The interval ticks for ever, and SendGrid answers or the client times out.
FairSpec ==
    /\ Spec
    /\ \A p \in Polls : WF_vars(Poll(p)) /\ WF_vars(Answer(p))

-----------------------------------------------------------------------------
\* retry_count exceeds the configured maximum by less than the number of polls:
\* one increment by every poll whose snapshot is older than the last.
RetryBound ==
    \A n \in Records : records[n].retries + 1 <= MaxRetries + Cardinality(Polls)

\* A notice is given up only after MaxRetries + 1 sends of it were seen to fail.
GivenUpAfterRetries ==
    \A n \in Records : records[n].st = "failed" => misses[n] > MaxRetries

\* One deletion is announced at most once by each poll, and once more by each for
\* every fault: with one poll at a time and no fault, no one is told twice.
DuplicatesBounded ==
    \A n \in Records : inbox[n] <= Cardinality(Polls) * (1 + faults)

\* A notice sent or given up, and in no poll's snapshot, is never sent again and
\* keeps its status.
SettledIsFinal ==
    [][\A n \in Records :
         /\ records[n].st \in {"sent", "failed"}
         /\ \A p \in Polls : n \notin todo[p]
         => /\ records'[n].st = records[n].st
            /\ \A p \in Polls : n \notin todo'[p]]_vars

\* No notice is lost: a queued one is sent or, after its retries, given up.
EveryNoticeSettles ==
    \A n \in Records : records[n].st = "queued" ~> records[n].st \in {"sent", "failed"}
=============================================================================
