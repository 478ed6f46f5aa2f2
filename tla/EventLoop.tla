----------------------------- MODULE EventLoop -----------------------------
(***************************************************************************)
(* The single Node.js process that runs the API (server.ts, app.ts; one    *)
(* replica, k8s/base/backend-deployment.yaml).  A handler is one           *)
(* invocation slot of an Express route.  What it does between two `await`s *)
(* is one atomic step.                                                     *)
(*                                                                         *)
(*  - `await` on a promise that is already resolved (every repository call *)
(*    is one: better-sqlite3 is synchronous) puts the handler at the end   *)
(*    of the microtask queue, which is first in, first out: `ready`.       *)
(*  - `await` on real I/O (the bcrypt thread pool, Redis, SendGrid) takes  *)
(*    the handler out of the queue until the I/O wakes it.                 *)
(*  - the queue is drained before the loop takes the next event, so        *)
(*    requests arrive and I/O completes only while `ready` is empty.       *)
(*                                                                         *)
(* One event can make several handlers runnable before any microtask runs: *)
(* requests pipelined in one TCP segment (at most MaxBatch; with           *)
(* MaxBatch = 1 nothing is pipelined), and Redis replies read in one chunk *)
(* (at most MaxReplies).  Every other I/O wakes one handler at a time.     *)
(***************************************************************************)
EXTENDS Naturals, Sequences, FiniteSets, Functions

CONSTANTS
    Handlers,   \* invocation slots: how many requests can be in flight
    MaxBatch,   \* most requests of one client dispatched by one event
    MaxReplies, \* most Redis replies read by one event
    MaxTime     \* bound on the clock

ASSUME LoopAssumption ==
    /\ IsFiniteSet(Handlers) /\ Handlers # {}
    /\ MaxBatch \in Nat \ {0}
    /\ MaxReplies \in Nat \ {0}
    /\ MaxTime \in Nat

VARIABLES
    ready,      \* the microtask queue: handlers that can run, in order
    pc,         \* where each handler resumes; "idle" when the slot is free
    loc,        \* the local variables of each handler's closure
    clock       \* Date.now()

loopVars == <<ready, pc, loc>>

NoLocals == [op |-> "none"]

LoopInit ==
    /\ ready = <<>>
    /\ pc = [h \in Handlers |-> "idle"]
    /\ loc = [h \in Handlers |-> NoLocals]
    /\ clock = 1

Idle(h) == pc[h] = "idle"

\* The handler at the head of the microtask queue resumes at this label.
Runs(h, label) ==
    /\ ready # <<>>
    /\ Head(ready) = h
    /\ pc[h] = label

Goto(h, label, locals) ==
    /\ pc' = [pc EXCEPT ![h] = label]
    /\ loc' = [loc EXCEPT ![h] = locals]

\* await on a resolved promise: to the back of the microtask queue.
Await(h, label, locals) ==
    /\ ready' = Append(Tail(ready), h)
    /\ Goto(h, label, locals)

\* await on real I/O: out of the queue until Wake.
Park(h, label, locals) ==
    /\ ready' = Tail(ready)
    /\ Goto(h, label, locals)

\* The last step of a handler: the response is sent, the slot is free.
Respond(h) ==
    /\ ready' = Tail(ready)
    /\ Goto(h, "idle", NoLocals)

Waiting(h) == ~Idle(h) /\ h \notin Range(ready)

\* The handlers one event makes runnable, in the order it does so.
Batches(size) == UNION {Injection(1..n, Handlers) : n \in 1..size}

\* The I/O of a parked handler completes.  Only handlers waiting at one of the
\* Shared labels (the Redis replies) can be woken by the same event.
Wake(Shared) ==
    /\ ready = <<>>
    /\ \E batch \in Batches(MaxReplies) :
         /\ \A i \in DOMAIN batch : Waiting(batch[i])
         /\ Len(batch) > 1 => \A i \in DOMAIN batch : pc[batch[i]] \in Shared
         /\ ready' = batch
    /\ UNCHANGED <<pc, loc>>

\* One read event of a socket delivers the requests of a batch.
Arrive(Requests) ==
    /\ ready = <<>>
    /\ \E batch \in Batches(MaxBatch) :
         /\ \A i \in DOMAIN batch : Idle(batch[i])
         /\ ready' = batch
         /\ \E request \in [Range(batch) -> Requests] :
              /\ pc' = [h \in Handlers |->
                          IF h \in Range(batch) THEN request[h].op ELSE pc[h]]
              /\ loc' = [h \in Handlers |->
                          IF h \in Range(batch) THEN request[h] ELSE loc[h]]

Tick == clock < MaxTime /\ clock' = clock + 1 /\ UNCHANGED loopVars

\* The process dies and is restarted; only what is stored survives.
Restart ==
    /\ \E h \in Handlers : ~Idle(h)
    /\ ready' = <<>>
    /\ pc' = [h \in Handlers |-> "idle"]
    /\ loc' = [h \in Handlers |-> NoLocals]
=============================================================================
