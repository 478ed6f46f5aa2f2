--------------------- MODULE NotificationWorker_proofs ---------------------
(***************************************************************************)
(* The retry accounting of the worker, for any number of records, retries  *)
(* and overlapping polls.  A poll decides with the retry count of its      *)
(* snapshot, so the invariants speak of the polls whose snapshot still     *)
(* lets them retry.                                                        *)
(***************************************************************************)
EXTENDS NotificationWorker, FiniteSetTheorems, TLAPS

\* The polls that had an email of record n out when the process ended.
LEMMA SentByFinite ==
    ASSUME NEW n, NEW out \in SUBSET Polls
    PROVE  /\ Cardinality({p \in out : Sending(p, n)}) \in Nat
           /\ Cardinality({p \in out : Sending(p, n)}) <= Cardinality(Polls)
           /\ Cardinality(Polls) \in Nat
  <1>1. {p \in out : Sending(p, n)} \in SUBSET Polls
    OBVIOUS
  <1> QED
    BY <1>1, WorkerAssumption, FS_Subset, FS_CardinalityType

\* Only the failure path and Succeed change rows, and they keep the types.
LEMMA HandleFailureTyped ==
    ASSUME TypeOK, NEW p \in Polls, NEW n \in Records, HandleFailure(p, n)
    PROVE  records' \in [Records -> RecordRow]
  <1>0. records \in [Records -> RecordRow]
    BY DEF TypeOK
  <1>1. CASE records' = [records EXCEPT ![n].retries = @ + 1]
    BY <1>0, <1>1 DEF RecordRow
  <1>2. CASE UpdateStatus(n, "failed")
    BY <1>0, <1>2 DEF UpdateStatus, RecordRow
  <1> QED
    BY <1>1, <1>2 DEF HandleFailure

\* Every step keeps the types.
LEMMA NextTyped == TypeOK /\ [Next]_vars => TypeOK'
  <1> SUFFICES ASSUME TypeOK, [Next]_vars PROVE TypeOK'
    OBVIOUS
  <1> USE DEF TypeOK
  <1>1. ASSUME NEW n \in Records, Queue(n) PROVE TypeOK'
    BY <1>1 DEF Queue, RecordRow
  <1>2. ASSUME NEW p \in Polls, Poll(p) PROVE TypeOK'
    <2>1. \A n \in Records : records[n].retries \in Nat
      BY DEF RecordRow
    <2> QED
      BY <1>2, <2>1 DEF Poll, FindQueued
  <1>3. ASSUME NEW p \in Polls, NEW n \in Records, Succeed(p, n) PROVE TypeOK'
    BY <1>3 DEF Succeed, UpdateStatus, Advance, RecordRow
  <1>4. ASSUME NEW p \in Polls, NEW n \in Records, Fail(p, n) PROVE TypeOK'
    BY <1>4, HandleFailureTyped DEF Fail, Advance
  <1>5. ASSUME NEW p \in Polls, NEW n \in Records, Miscount(p, n) PROVE TypeOK'
    BY <1>5, HandleFailureTyped, WorkerAssumption DEF Miscount, Advance
  <1>6. ASSUME NEW out \in SUBSET Polls, Crash(out) PROVE TypeOK'
    <2>1. \A n \in Records : Cardinality({p \in out : Sending(p, n)}) \in Nat
      BY SentByFinite
    <2> QED
      BY <1>6, <2>1, WorkerAssumption DEF Crash
  <1>7. CASE UNCHANGED vars
    BY <1>7 DEF vars
  <1> QED
    BY <1>1, <1>2, <1>3, <1>4, <1>5, <1>6, <1>7 DEF Next, Answer

\* The types hold always.
THEOREM TypeCorrect == Spec => []TypeOK
  <1>1. Init => TypeOK
    BY WorkerAssumption DEF Init, NothingSent, TypeOK, RecordRow
  <1>2. TypeOK /\ [Next]_vars => TypeOK'
    BY NextTyped
  <1> QED
    BY <1>1, <1>2, PTL DEF Spec

-----------------------------------------------------------------------------
(* A notice is given up only after its retries *)

\* Every retry follows a failed send, and a snapshot is never ahead of its row.
MissInv ==
    \A n \in Records :
      /\ misses[n] >= records[n].retries
      /\ \A p \in Polls : n \in todo[p] => seen[p][n] <= records[n].retries
      /\ records[n].st = "failed" => misses[n] > MaxRetries

\* A failed send keeps the invariant: the snapshot that makes the poll give up
\* counts MaxRetries retries, each after a failed send, and this is one more.
LEMMA FailureKeepsMisses ==
    ASSUME TypeOK, MissInv, NEW p \in Polls, NEW n \in Records,
           Sending(p, n), HandleFailure(p, n),
           misses' = [misses EXCEPT ![n] = @ + 1], Advance(p, n)
    PROVE  MissInv'
  <1>0. /\ records \in [Records -> RecordRow] /\ misses \in [Records -> Nat]
        /\ MaxRetries \in Nat /\ todo' = [todo EXCEPT ![p] = @ \ {n}] /\ seen' = seen
        /\ todo \in [Polls -> SUBSET Records] /\ seen \in [Polls -> [Records -> Nat]]
    BY WorkerAssumption DEF TypeOK, Advance
  <1>1. ASSUME NEW q \in Polls, NEW m \in Records, m \in todo'[q] PROVE m \in todo[q]
    BY <1>0, <1>1
  <1>2. ASSUME NEW m \in Records, m # n
        PROVE  records'[m] = records[m] /\ misses'[m] = misses[m]
    BY <1>0, <1>2 DEF HandleFailure, UpdateStatus
  <1>3. CASE seen[p][n] < MaxRetries
    <2>1. /\ records'[n].retries = records[n].retries + 1
          /\ records'[n].st = records[n].st /\ misses'[n] = misses[n] + 1
      BY <1>0, <1>3 DEF HandleFailure, RecordRow
    <2>2. /\ records[n].retries \in Nat /\ misses[n] \in Nat
          /\ \A q \in Polls : seen[q][n] \in Nat
      BY <1>0 DEF RecordRow
    <2> QED
      BY <1>0, <1>1, <1>2, <2>1, <2>2 DEF MissInv
  <1>4. CASE ~(seen[p][n] < MaxRetries)
    <2>1. /\ records'[n].retries = records[n].retries /\ misses'[n] = misses[n] + 1
      BY <1>0, <1>4 DEF HandleFailure, UpdateStatus, RecordRow
    <2>2. /\ records[n].retries \in Nat /\ misses[n] \in Nat /\ seen[p][n] \in Nat
      BY <1>0 DEF RecordRow
    <2>3. misses'[n] > MaxRetries
      BY <1>0, <1>4, <2>1, <2>2 DEF MissInv, Sending
    <2> QED
      BY <1>0, <1>1, <1>2, <2>1, <2>2, <2>3 DEF MissInv
  <1> QED
    BY <1>3, <1>4

\* Every step keeps the invariant.
LEMMA NextKeepsMisses == TypeOK /\ MissInv /\ [Next]_vars => MissInv'
  <1> SUFFICES ASSUME TypeOK, MissInv, [Next]_vars PROVE MissInv'
    OBVIOUS
  <1> USE DEF TypeOK, MissInv
  <1>1. ASSUME NEW n \in Records, Queue(n) PROVE MissInv'
    BY <1>1 DEF Queue, RecordRow
  <1>2. ASSUME NEW p \in Polls, Poll(p) PROVE MissInv'
    <2>1. \A n \in Records : records[n].retries \in Nat
      BY DEF RecordRow
    <2> QED
      BY <1>2, <2>1 DEF Poll
  <1>3. ASSUME NEW p \in Polls, NEW n \in Records, Succeed(p, n) PROVE MissInv'
    BY <1>3 DEF Succeed, UpdateStatus, Advance, RecordRow
  <1>4. ASSUME NEW p \in Polls, NEW n \in Records, Fail(p, n) \/ Miscount(p, n)
        PROVE  MissInv'
    BY <1>4, FailureKeepsMisses DEF Fail, Miscount
  <1>5. ASSUME NEW out \in SUBSET Polls, Crash(out) PROVE MissInv'
    BY <1>5 DEF Crash
  <1>6. CASE UNCHANGED vars
    BY <1>6 DEF vars
  <1> QED
    BY <1>1, <1>2, <1>3, <1>4, <1>5, <1>6 DEF Next, Answer

\* Always, a record is 'failed' only after more than MaxRetries sends of it failed.
THEOREM GivenUpOnlyAfterRetries == Spec => []GivenUpAfterRetries
  <1>1. Init => MissInv
    BY DEF Init, NothingSent, MissInv
  <1>2. TypeOK /\ MissInv /\ [Next]_vars => MissInv'
    BY NextKeepsMisses
  <1>3. MissInv => GivenUpAfterRetries
    BY DEF MissInv, GivenUpAfterRetries
  <1> QED
    BY <1>1, <1>2, <1>3, TypeCorrect, PTL DEF Spec

-----------------------------------------------------------------------------
(* Overlapping polls overrun the retries by a bounded amount *)

\* The polls that will count a retry of record n if its send fails.
Retrying(n) == {p \in Polls : n \in todo[p] /\ seen[p][n] < MaxRetries}

\* The first poll to reach MaxRetries is one of them and leaves them; no poll that
\* reads the row after it joins.
RetryInv ==
    \A n \in Records :
      records[n].retries + Cardinality(Retrying(n)) + 1
        <= MaxRetries + Cardinality(Polls)

\* Retrying polls are finitely many, at most all polls.
LEMMA RetryingFinite ==
    ASSUME NEW n
    PROVE  /\ IsFiniteSet(Retrying(n)) /\ Cardinality(Retrying(n)) \in Nat
           /\ Cardinality(Polls) \in Nat \ {0} /\ MaxRetries \in Nat
           /\ Cardinality(Retrying(n)) <= Cardinality(Polls)
  <1>1. Retrying(n) \in SUBSET Polls
    BY DEF Retrying
  <1>2. Cardinality(Polls) # 0
    BY WorkerAssumption, FS_EmptySet
  <1> QED
    BY <1>1, <1>2, WorkerAssumption, FS_Subset, FS_CardinalityType

\* The bound for one record, from how a step changes its count and its polls.
LEMMA RetryKept ==
    ASSUME TypeOK, TypeOK', RetryInv, NEW n \in Records,
           \/ /\ records'[n].retries = records[n].retries
              /\ Retrying(n)' \subseteq Retrying(n)
           \/ /\ records'[n].retries = records[n].retries
              /\ records[n].retries < MaxRetries
           \/ \E p \in Retrying(n) :
                /\ records'[n].retries = records[n].retries + 1
                /\ Retrying(n)' \subseteq Retrying(n) \ {p}
    PROVE  records'[n].retries + Cardinality(Retrying(n)') + 1
             <= MaxRetries + Cardinality(Polls)
  <1>0. records[n].retries \in Nat /\ records'[n].retries \in Nat
    BY DEF TypeOK, RecordRow
  <1>1. Retrying(n)' \in SUBSET Polls
    BY DEF Retrying
  <1>2. /\ Cardinality(Retrying(n)') \in Nat
        /\ Cardinality(Retrying(n)') <= Cardinality(Polls)
    BY <1>1, WorkerAssumption, FS_Subset, FS_CardinalityType
  <1>3. CASE Retrying(n)' \subseteq Retrying(n)
             /\ records'[n].retries = records[n].retries
    <2>1. Retrying(n)' \in SUBSET Retrying(n)
      BY <1>3
    <2>2. Cardinality(Retrying(n)') <= Cardinality(Retrying(n))
      BY <2>1, RetryingFinite, FS_Subset
    <2> QED
      BY <1>0, <1>2, <1>3, <2>2, RetryingFinite DEF RetryInv
  <1>4. CASE /\ records'[n].retries = records[n].retries
             /\ records[n].retries < MaxRetries
    BY <1>0, <1>2, <1>4, RetryingFinite
  <1>5. ASSUME NEW p \in Retrying(n), records'[n].retries = records[n].retries + 1,
               Retrying(n)' \subseteq Retrying(n) \ {p}
        PROVE  records'[n].retries + Cardinality(Retrying(n)') + 1
                 <= MaxRetries + Cardinality(Polls)
    <2>1. Retrying(n)' \in SUBSET (Retrying(n) \ {p})
      BY <1>5
    <2>2. /\ IsFiniteSet(Retrying(n) \ {p})
          /\ Cardinality(Retrying(n) \ {p}) = Cardinality(Retrying(n)) - 1
      BY RetryingFinite, FS_RemoveElement
    <2>3. Cardinality(Retrying(n)') <= Cardinality(Retrying(n)) - 1
      BY <2>1, <2>2, FS_Subset
    <2> QED
      BY <1>0, <1>2, <1>5, <2>3, RetryingFinite DEF RetryInv
  <1> QED
    BY <1>3, <1>4, <1>5

\* A failed send counts a retry and takes its poll out, or counts nothing.
LEMMA FailureKeepsRetries ==
    ASSUME TypeOK, TypeOK', RetryInv, NEW p \in Polls, NEW m \in Records,
           Sending(p, m), HandleFailure(p, m), Advance(p, m)
    PROVE  RetryInv'
  <1> SUFFICES ASSUME NEW n \in Records
               PROVE  records'[n].retries + Cardinality(Retrying(n)') + 1
                        <= MaxRetries + Cardinality(Polls)
    BY DEF RetryInv
  <1>0. /\ records \in [Records -> RecordRow] /\ todo \in [Polls -> SUBSET Records]
        /\ todo' = [todo EXCEPT ![p] = @ \ {m}] /\ seen' = seen
    BY DEF TypeOK, Advance
  <1>1. /\ Retrying(n)' \subseteq Retrying(n)
        /\ n = m => Retrying(n)' \subseteq Retrying(n) \ {p}
    BY <1>0 DEF Retrying
  <1>2. CASE n # m \/ ~(seen[p][m] < MaxRetries)
    <2>1. records'[n].retries = records[n].retries
      BY <1>0, <1>2 DEF HandleFailure, UpdateStatus, RecordRow
    <2> QED
      BY <1>1, <2>1, RetryKept
  <1>3. CASE n = m /\ seen[p][m] < MaxRetries
    <2>1. records'[n].retries = records[n].retries + 1 /\ p \in Retrying(n)
      BY <1>0, <1>3 DEF HandleFailure, RecordRow, Sending, Retrying
    <2> QED
      BY <1>1, <1>3, <2>1, RetryKept
  <1> QED
    BY <1>2, <1>3

\* Every step keeps the invariant.
LEMMA NextKeepsRetries == TypeOK /\ TypeOK' /\ RetryInv /\ [Next]_vars => RetryInv'
  <1> SUFFICES ASSUME TypeOK, TypeOK', RetryInv, [Next]_vars PROVE RetryInv'
    OBVIOUS
  <1>0. /\ records \in [Records -> RecordRow] /\ todo \in [Polls -> SUBSET Records]
        /\ seen \in [Polls -> [Records -> Nat]]
    BY DEF TypeOK
  <1>1. ASSUME \A n \in Records : /\ records'[n].retries = records[n].retries
                                  /\ Retrying(n)' \subseteq Retrying(n)
        PROVE  RetryInv'
    BY <1>1, RetryKept DEF RetryInv
  <1>2. ASSUME NEW m \in Records, Queue(m) PROVE RetryInv'
    BY <1>0, <1>1, <1>2 DEF Queue, Retrying, RecordRow
  <1>3. ASSUME NEW p \in Polls, Poll(p) PROVE RetryInv'
    <2> SUFFICES ASSUME NEW n \in Records
                 PROVE  records'[n].retries + Cardinality(Retrying(n)') + 1
                          <= MaxRetries + Cardinality(Polls)
      BY DEF RetryInv
    <2>1. /\ records' = records
          /\ todo' = [todo EXCEPT ![p] = FindQueued]
          /\ seen' = [seen EXCEPT ![p] = [i \in Records |-> records[i].retries]]
      BY <1>3 DEF Poll
    <2>2. CASE records[n].retries < MaxRetries
      BY <2>1, <2>2, RetryKept
    <2>3. CASE ~(records[n].retries < MaxRetries)
      <3>1. Retrying(n)' \subseteq Retrying(n)
        BY <1>0, <2>1, <2>3 DEF Retrying
      <3> QED
        BY <2>1, <3>1, RetryKept
    <2> QED
      BY <2>2, <2>3
  <1>4. ASSUME NEW p \in Polls, NEW n \in Records, Succeed(p, n) PROVE RetryInv'
    BY <1>0, <1>1, <1>4 DEF Succeed, UpdateStatus, Advance, Retrying, RecordRow
  <1>5. ASSUME NEW p \in Polls, NEW n \in Records, Fail(p, n) \/ Miscount(p, n)
        PROVE  RetryInv'
    BY <1>5, FailureKeepsRetries DEF Fail, Miscount
  <1>6. ASSUME NEW out \in SUBSET Polls, Crash(out) PROVE RetryInv'
    BY <1>1, <1>6 DEF Crash, Retrying
  <1>7. CASE UNCHANGED vars
    BY <1>1, <1>7 DEF vars, Retrying
  <1> QED
    BY <1>2, <1>3, <1>4, <1>5, <1>6, <1>7 DEF Next, Answer

\* Always, retry_count is below the configured maximum plus the number of polls
\* that overlap, and at most the maximum when polls never do.
THEOREM RetriesBounded == Spec => []RetryBound
  <1>1. Init => RetryInv
    <2> SUFFICES ASSUME Init, NEW n \in Records
                 PROVE  records[n].retries + Cardinality(Retrying(n)) + 1
                          <= MaxRetries + Cardinality(Polls)
      BY DEF RetryInv
    <2>1. Retrying(n) = {} /\ records[n].retries = 0
      BY DEF Init, NothingSent, Retrying
    <2> QED
      BY <2>1, RetryingFinite, FS_EmptySet
  <1>2. TypeOK /\ TypeOK' /\ RetryInv /\ [Next]_vars => RetryInv'
    BY NextKeepsRetries
  <1>3. TypeOK /\ RetryInv => RetryBound
    <2> SUFFICES ASSUME TypeOK, RetryInv, NEW n \in Records
                 PROVE  records[n].retries + 1 <= MaxRetries + Cardinality(Polls)
      BY DEF RetryBound
    <2>1. records[n].retries \in Nat
      BY DEF TypeOK, RecordRow
    <2> QED
      BY <2>1, RetryingFinite DEF RetryInv
  <1> QED
    BY <1>1, <1>2, <1>3, TypeCorrect, PTL DEF Spec
-----------------------------------------------------------------------------
(* What is settled stays settled *)

\* A poll takes only queued records and changes only records it holds, so no step
\* sends again, or changes, a settled record that no poll holds.
THEOREM SettledForGood == Spec => SettledIsFinal
  <1> DEFINE Out(n) == /\ records[n].st \in {"sent", "failed"}
                       /\ \A p \in Polls : n \notin todo[p]
             Kept(n) == /\ records'[n].st = records[n].st
                        /\ \A p \in Polls : n \notin todo'[p]
             Final == \A n \in Records : Out(n) => Kept(n)
  <1>1. TypeOK /\ [Next]_vars => Final
    <2> SUFFICES ASSUME TypeOK, [Next]_vars, NEW n \in Records, Out(n) PROVE Kept(n)
      OBVIOUS
    <2>0. records \in [Records -> RecordRow] /\ todo \in [Polls -> SUBSET Records]
      BY DEF TypeOK
    <2>1. ASSUME NEW m \in Records, Queue(m) PROVE Kept(n)
      BY <2>0, <2>1 DEF Queue, RecordRow
    <2>2. ASSUME NEW p \in Polls, Poll(p) PROVE Kept(n)
      BY <2>0, <2>2 DEF Poll, FindQueued
    <2>3. ASSUME NEW p \in Polls, NEW m \in Records, Succeed(p, m) PROVE Kept(n)
      BY <2>0, <2>3 DEF Succeed, Sending, UpdateStatus, Advance, RecordRow
    <2>4. ASSUME NEW p \in Polls, NEW m \in Records, Fail(p, m) \/ Miscount(p, m)
          PROVE  Kept(n)
      BY <2>0, <2>4
         DEF Fail, Miscount, Sending, HandleFailure, UpdateStatus, Advance, RecordRow
    <2>5. ASSUME NEW out \in SUBSET Polls, Crash(out) PROVE Kept(n)
      BY <2>5 DEF Crash
    <2>6. CASE UNCHANGED vars
      BY <2>6 DEF vars
    <2> QED
      BY <2>1, <2>2, <2>3, <2>4, <2>5, <2>6 DEF Next, Answer
  <1> QED
    BY <1>1, TypeCorrect, PTL DEF Spec, SettledIsFinal

-----------------------------------------------------------------------------
(* Overlapping polls and faults repeat a notice a bounded number of times *)

\* The polls that may still send record n.
Holders(n) == {p \in Polls : n \in todo[p]}

Unsettled(n) == records[n].st \in {"absent", "queued"}

\* While a record is queued only faults have sent it; once it is settled no poll
\* joins its holders, and each of them sends it at most once more.
DuplicateInv ==
    \A n \in Records :
      IF Unsettled(n) THEN inbox[n] <= Cardinality(Polls) * faults
      ELSE inbox[n] + Cardinality(Holders(n)) <= Cardinality(Polls) * (1 + faults)

\* Holders are at most all polls, and the bound grows by them with every fault.
LEMMA HoldersFinite ==
    ASSUME NEW n
    PROVE  /\ IsFiniteSet(Holders(n)) /\ Cardinality(Holders(n)) \in Nat
           /\ Cardinality(Polls) \in Nat \ {0}
           /\ Cardinality(Holders(n)) <= Cardinality(Polls)
  <1>1. Holders(n) \in SUBSET Polls
    BY DEF Holders
  <1>2. Cardinality(Polls) # 0
    BY WorkerAssumption, FS_EmptySet
  <1> QED
    BY <1>1, <1>2, WorkerAssumption, FS_Subset, FS_CardinalityType

LEMMA FaultBudget ==
    ASSUME NEW f \in Nat
    PROVE  /\ Cardinality(Polls) * f \in Nat
           /\ Cardinality(Polls) * (1 + f) = Cardinality(Polls) * f + Cardinality(Polls)
           /\ Cardinality(Polls) * (1 + f) \in Nat
           /\ Cardinality(Polls) * (f + 1) = Cardinality(Polls) * (1 + f)
           /\ Cardinality(Polls) * (1 + (f + 1)) =
                Cardinality(Polls) * (1 + f) + Cardinality(Polls)
  <1>1. Cardinality(Polls) \in Nat
    BY HoldersFinite
  <1> QED
    BY <1>1

\* The bound for one record, from how a step changes its emails and its holders.
LEMMA DuplicatesKept ==
    ASSUME TypeOK, TypeOK', DuplicateInv, NEW n \in Records,
           Unsettled(n)' => Unsettled(n),
           \/ /\ faults' = faults /\ inbox'[n] = inbox[n]
              /\ Unsettled(n) \/ Holders(n)' \subseteq Holders(n)
           \/ /\ faults' = faults /\ inbox'[n] = inbox[n] + 1 /\ ~Unsettled(n)'
              /\ \E p \in Holders(n) : Holders(n)' \subseteq Holders(n) \ {p}
           \/ /\ faults' = faults + 1 /\ inbox'[n] <= inbox[n] + 1
              /\ Holders(n)' \subseteq Holders(n)
           \/ /\ faults' = faults + 1 /\ inbox'[n] <= inbox[n] + Cardinality(Polls)
              /\ Holders(n)' = {}
    PROVE  IF Unsettled(n)' THEN inbox'[n] <= Cardinality(Polls) * faults'
           ELSE inbox'[n] + Cardinality(Holders(n)')
                  <= Cardinality(Polls) * (1 + faults')
  <1> DEFINE P == Cardinality(Polls)
             Before == Cardinality(Holders(n))
             After == Cardinality(Holders(n)')
  <1>0. /\ inbox[n] \in Nat /\ inbox'[n] \in Nat /\ faults \in Nat /\ faults' \in Nat
        /\ P \in Nat \ {0} /\ Before \in Nat /\ Before <= P /\ IsFiniteSet(Holders(n))
    BY HoldersFinite, WorkerAssumption DEF TypeOK
  <1>1. Holders(n)' \in SUBSET Polls
    BY DEF Holders
  <1>2. After \in Nat /\ After <= P
    BY <1>1, WorkerAssumption, FS_Subset, FS_CardinalityType
  <1>3. Holders(n)' \subseteq Holders(n) => After <= Before
    BY <1>0, FS_Subset
  <1>4. ASSUME NEW p \in Holders(n), Holders(n)' \subseteq Holders(n) \ {p}
        PROVE  After <= Before - 1
    <2>1. /\ IsFiniteSet(Holders(n) \ {p})
          /\ Cardinality(Holders(n) \ {p}) = Before - 1
      BY <1>0, FS_RemoveElement
    <2> QED
      BY <1>4, <2>1, FS_Subset
  <1>5. Holders(n)' = {} => After = 0
    BY FS_EmptySet
  <1>6. /\ Unsettled(n) => inbox[n] <= P * faults
        /\ ~Unsettled(n) => inbox[n] + Before <= P * (1 + faults)
    BY DEF DuplicateInv
  <1> DEFINE B == P * faults
             C == P * (1 + faults)
             D == P * (1 + (faults + 1))
  <1>7. /\ B \in Nat /\ C = B + P /\ D = C + P /\ P * (faults + 1) = C
    BY <1>0, FaultBudget
  <1> HIDE DEF P, Before, After
  <1>8. CASE /\ faults' = faults /\ inbox'[n] = inbox[n]
             /\ Unsettled(n) \/ Holders(n)' \subseteq Holders(n)
    <2>1. P * faults' = B /\ P * (1 + faults') = C
      BY <1>8
    <2> HIDE DEF B, C, D
    <2>2. IF Unsettled(n)' THEN inbox'[n] <= B ELSE inbox'[n] + After <= C
      BY <1>0, <1>2, <1>3, <1>6, <1>7, <1>8 DEF B, C
    <2> QED
      BY <2>1, <2>2 DEF P, After
  <1>9. CASE /\ faults' = faults /\ inbox'[n] = inbox[n] + 1 /\ ~Unsettled(n)'
             /\ \E p \in Holders(n) : Holders(n)' \subseteq Holders(n) \ {p}
    <2>1. P * (1 + faults') = C
      BY <1>9
    <2>2. After <= Before - 1
      BY <1>4, <1>9
    <2>3. inbox'[n] + After <= C
      BY <1>0, <1>2, <1>6, <1>7, <1>9, <2>2
    <2> QED
      BY <1>9, <2>1, <2>3 DEF P, After
  <1>10. CASE /\ faults' = faults + 1
              /\ \/ inbox'[n] <= inbox[n] + 1 /\ Holders(n)' \subseteq Holders(n)
                 \/ inbox'[n] <= inbox[n] + P /\ Holders(n)' = {}
    <2>1. P * faults' = C /\ P * (1 + faults') = D
      BY <1>7, <1>10
    <2>2. inbox'[n] <= inbox[n] + P /\ inbox'[n] + After <= inbox[n] + Before + P
      BY <1>0, <1>2, <1>3, <1>5, <1>10
    <2>3. IF Unsettled(n)' THEN inbox'[n] <= C ELSE inbox'[n] + After <= D
      BY <1>0, <1>2, <1>6, <1>7, <2>2
    <2> QED
      BY <2>1, <2>3 DEF P, After
  <1> QED
    BY <1>8, <1>9, <1>10 DEF P

\* A failed send leaves a settled record settled and lets its poll go.
LEMMA FailureSettles ==
    ASSUME TypeOK, NEW p \in Polls, NEW m \in Records, HandleFailure(p, m),
           Advance(p, m), NEW n \in Records
    PROVE  /\ Unsettled(n)' => Unsettled(n)
           /\ Holders(n)' \subseteq Holders(n)
  BY DEF TypeOK, HandleFailure, UpdateStatus, Advance, Unsettled, Holders, RecordRow

\* Every step keeps the invariant.
LEMMA NextKeepsDuplicates ==
    TypeOK /\ TypeOK' /\ DuplicateInv /\ [Next]_vars => DuplicateInv'
  <1> SUFFICES ASSUME TypeOK, TypeOK', DuplicateInv, [Next]_vars, NEW n \in Records
               PROVE  IF Unsettled(n)' THEN inbox'[n] <= Cardinality(Polls) * faults'
                      ELSE inbox'[n] + Cardinality(Holders(n)')
                             <= Cardinality(Polls) * (1 + faults')
    BY DEF DuplicateInv
  <1> DEFINE Goal == IF Unsettled(n)' THEN inbox'[n] <= Cardinality(Polls) * faults'
                     ELSE inbox'[n] + Cardinality(Holders(n)')
                            <= Cardinality(Polls) * (1 + faults')
  <1>0. /\ records \in [Records -> RecordRow] /\ todo \in [Polls -> SUBSET Records]
        /\ inbox \in [Records -> Nat] /\ faults \in Nat
    BY WorkerAssumption DEF TypeOK
  <1>1. ASSUME NEW m \in Records, Queue(m) PROVE Goal
    <2>1. /\ Unsettled(n)' => Unsettled(n)
          /\ faults' = faults /\ inbox'[n] = inbox[n] /\ Holders(n)' = Holders(n)
      BY <1>0, <1>1 DEF Queue, Unsettled, Holders, RecordRow
    <2> QED
      BY <2>1, DuplicatesKept
  <1>2. ASSUME NEW p \in Polls, Poll(p) PROVE Goal
    <2>1. /\ Unsettled(n)' => Unsettled(n)
          /\ faults' = faults /\ inbox'[n] = inbox[n]
      BY <1>2 DEF Poll, Unsettled
    <2>2. Unsettled(n) \/ Holders(n)' \subseteq Holders(n)
      BY <1>0, <1>2 DEF Poll, FindQueued, Unsettled, Holders
    <2> QED
      BY <2>1, <2>2, DuplicatesKept
  <1>3. ASSUME NEW p \in Polls, NEW m \in Records, Succeed(p, m) PROVE Goal
    <2>1. CASE n = m
      <3>1. /\ faults' = faults /\ inbox'[n] = inbox[n] + 1 /\ ~Unsettled(n)'
            /\ p \in Holders(n) /\ Holders(n)' \subseteq Holders(n) \ {p}
        BY <1>0, <1>3, <2>1
           DEF Succeed, Sending, UpdateStatus, Advance, Unsettled, Holders, RecordRow
      <3> QED
        BY <3>1, DuplicatesKept
    <2>2. CASE n # m
      <3>1. /\ Unsettled(n)' => Unsettled(n)
            /\ faults' = faults /\ inbox'[n] = inbox[n] /\ Holders(n)' \subseteq Holders(n)
        BY <1>0, <1>3, <2>2 DEF Succeed, UpdateStatus, Advance, Unsettled, Holders
      <3> QED
        BY <3>1, DuplicatesKept
    <2> QED
      BY <2>1, <2>2
  <1>4. ASSUME NEW p \in Polls, NEW m \in Records, Fail(p, m) PROVE Goal
    <2>1. faults' = faults /\ inbox'[n] = inbox[n] /\ HandleFailure(p, m) /\ Advance(p, m)
      BY <1>4 DEF Fail
    <2> QED
      BY <2>1, FailureSettles, DuplicatesKept
  <1>5. ASSUME NEW p \in Polls, NEW m \in Records, Miscount(p, m) PROVE Goal
    <2>1. /\ faults' = faults + 1 /\ inbox'[n] <= inbox[n] + 1
          /\ HandleFailure(p, m) /\ Advance(p, m)
      BY <1>0, <1>5 DEF Miscount
    <2> QED
      BY <2>1, FailureSettles, DuplicatesKept
  <1>6. ASSUME NEW out \in SUBSET Polls, Crash(out) PROVE Goal
    <2>1. /\ Unsettled(n)' => Unsettled(n)
          /\ faults' = faults + 1 /\ Holders(n)' = {}
      BY <1>6 DEF Crash, Unsettled, Holders
    <2>2. inbox'[n] <= inbox[n] + Cardinality(Polls)
      <3> DEFINE sent == Cardinality({p \in out : Sending(p, n)})
      <3>1. inbox'[n] = inbox[n] + sent
        BY <1>6 DEF Crash
      <3>2. sent \in Nat /\ sent <= Cardinality(Polls) /\ Cardinality(Polls) \in Nat
        BY SentByFinite
      <3> HIDE DEF sent
      <3> QED
        BY <1>0, <3>1, <3>2
    <2> QED
      BY <2>1, <2>2, DuplicatesKept
  <1>7. CASE UNCHANGED vars
    <2>1. /\ Unsettled(n)' = Unsettled(n) /\ faults' = faults /\ inbox'[n] = inbox[n]
          /\ Holders(n)' = Holders(n)
      BY <1>7 DEF vars, Unsettled, Holders
    <2> QED
      BY <2>1, DuplicatesKept
  <1> QED
    BY <1>1, <1>2, <1>3, <1>4, <1>5, <1>6, <1>7 DEF Next, Answer

\* Always, the emails of one notice are at most one per poll that overlaps, and as
\* many again for every fault: exactly one email when polls never overlap and
\* nothing fails.
THEOREM DuplicatesAreBounded == Spec => []DuplicatesBounded
  <1>1. Init => DuplicateInv
    <2> SUFFICES ASSUME Init, NEW n \in Records
                 PROVE  inbox[n] <= Cardinality(Polls) * faults /\ Unsettled(n)
      BY DEF DuplicateInv
    <2> QED
      BY HoldersFinite DEF Init, NothingSent, Unsettled
  <1>2. TypeOK /\ TypeOK' /\ DuplicateInv /\ [Next]_vars => DuplicateInv'
    BY NextKeepsDuplicates
  <1>3. TypeOK /\ DuplicateInv => DuplicatesBounded
    <2> SUFFICES ASSUME TypeOK, DuplicateInv, NEW n \in Records
                 PROVE  inbox[n] <= Cardinality(Polls) * (1 + faults)
      BY DEF DuplicatesBounded
    <2>1. inbox[n] \in Nat /\ faults \in Nat
      BY WorkerAssumption DEF TypeOK
    <2>2. /\ Unsettled(n) => inbox[n] <= Cardinality(Polls) * faults
          /\ ~Unsettled(n) => inbox[n] + Cardinality(Holders(n))
                                <= Cardinality(Polls) * (1 + faults)
      BY DEF DuplicateInv
    <2>3. /\ Cardinality(Polls) * faults \in Nat /\ Cardinality(Polls) \in Nat
          /\ Cardinality(Polls) * (1 + faults) =
               Cardinality(Polls) * faults + Cardinality(Polls)
      BY <2>1, HoldersFinite, FaultBudget
    <2>4. Cardinality(Holders(n)) \in Nat
      BY HoldersFinite
    <2> DEFINE B == Cardinality(Polls) * faults
               C == Cardinality(Polls) * (1 + faults)
    <2> HIDE DEF B, C
    <2> QED
      BY <2>1, <2>2, <2>3, <2>4 DEF B, C
  <1> QED
    BY <1>1, <1>2, <1>3, TypeCorrect, PTL DEF Spec
=============================================================================
