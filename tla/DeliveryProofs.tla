--------------------------- MODULE DeliveryProofs ---------------------------
(***************************************************************************)
(* Proofs about the delivery core, for every set of tasks and workers and  *)
(* every value of the bounds.                                              *)
(*                                                                         *)
(* IInv is inductive.  Its conjuncts need each other: that a result is     *)
(* written to the right attempt row follows from LeaseInv and HoldersInv,  *)
(* that recovery closes exactly the open row from AttemptsInv, and so on.  *)
(* Each lemma below takes IInv before the step and proves one conjunct     *)
(* after it.                                                               *)
(***************************************************************************)
EXTENDS Delivery, FiniteSetTheorems, TLAPS

rowVars == <<status, token, lease, attemptCount, attempts, dlq, stats>>

\* Only five actions write the rows of tasks, attempts, DLQ and statistics.
RowStep ==
  \/ \E w \in Workers, t \in Tasks : AcquireLease(w, t)
  \/ \E w \in Workers : ExtendLease(w)
  \/ \E w \in Workers : FinalizeCommits(w)
  \/ \E t \in Tasks : LeaseExpires(t)
  \/ \E row \in expiredScan : RecoverLease(row)

LEMMA RowSteps == [Next]_vars => RowStep \/ UNCHANGED rowVars
<1> USE DEF RowStep, rowVars, taskVars, tableVars
<1>1. ASSUME NEW w \in Workers, WorkerNext(w)
      PROVE  RowStep \/ UNCHANGED rowVars
  <2>1. ASSUME NEW t \in Tasks, SkipMessage(w, t) \/ NackMessage(w, t)
        PROVE  UNCHANGED rowVars
    BY <2>1 DEF SkipMessage, NackMessage
  <2>2. ASSUME NEW reply \in Replies, ProviderReturns(w, reply)
        PROVE  UNCHANGED rowVars
    BY <2>2 DEF ProviderReturns
  <2>3. ASSUME \/ ProviderAccepts(w)
               \/ CheckCancellation(w)
               \/ FinalizeRejected(w)
               \/ Ack(w)
               \/ NackResult(w)
               \/ LoseConnection(w)
               \/ Crash(w)
        PROVE  UNCHANGED rowVars
    BY <2>3 DEF ProviderAccepts, CheckCancellation, FinalizeRejected, Ack,
                NackResult, LoseConnection, Crash
  <2>4. QED
    BY <1>1, <2>1, <2>2, <2>3 DEF WorkerNext
<1>2. ASSUME NEW t \in Tasks, TaskNext(t)
      PROVE  RowStep \/ UNCHANGED rowVars
  BY <1>2 DEF TaskNext, BecomesAvailable
<1>3. CASE RecoverNext
  BY <1>3 DEF RecoverNext, FetchExpired, SkipRecovery, FetchRetryReady,
              EnqueueRepush, RecoverRowFails, RecoverCrash
<1>4. CASE PublisherNext
  BY <1>4 DEF PublisherNext, Publish, PublishNotDeleted
<1>5. CASE RequestCancel \/ UNCHANGED vars
  BY <1>5 DEF RequestCancel, vars
<1>6. QED
  BY <1>1, <1>2, <1>3, <1>4, <1>5 DEF Next

LEMMA InitIInv == Init => IInv
<1> SUFFICES ASSUME Init PROVE IInv
  OBVIOUS
<1> USE DeliveryAssumption
<1>1. Cardinality(Tasks) \in Nat
  BY FS_CardinalityType
<1>2. TypeOK
  BY <1>1 DEF Init, TypeOK, Status, Lease, CampaignStatus, OutboxRow, Created,
              Idle, Worker, ScanRow
<1>3. LeaseInv /\ AttemptsInv /\ HoldersInv /\ OutcomeInv /\ SuccessInv
  BY DEF Init, LeaseInv, AttemptsInv, HoldersInv, OutcomeInv, SuccessInv,
         Holding, Idle
<1>4. InStatus("queued") = Tasks
  BY DEF Init, InStatus
<1>5. \A c \in Status \ {"queued"} : InStatus(c) = {}
  BY DEF Init, InStatus, Status
<1>6. DlqInv
  BY <1>5 DEF Init, DlqInv, Status
<1>7. StatsInv
  BY <1>1, <1>4, <1>5, FS_EmptySet DEF Init, StatsInv, Status, Claimable
<1>8. QED
  BY <1>2, <1>3, <1>6, <1>7 DEF IInv

-----------------------------------------------------------------------------
(* Every step preserves TypeOK: each variable a step changes has its type, *)
(* and the rest is unchanged.                                              *)

LEMMA RequeueType ==
  ASSUME TypeOK, NEW w \in Workers, Requeue(w)
  PROVE  mq' \in [Tasks -> Nat]
<1>1. \A t \in Tasks : mq[t] \in Nat /\ mq[t] + 1 \in Nat
  BY DEF TypeOK
<1>2. CASE worker[w].unacked
  <2>1. mq' = [mq EXCEPT ![worker[w].task] = @ + 1]
    BY <1>2 DEF Requeue
  <2>2. QED
    BY <1>1, <2>1 DEF TypeOK
<1>3. CASE ~worker[w].unacked
  <2>1. mq' = [mq EXCEPT ![worker[w].task] = @]
    BY <1>3 DEF Requeue
  <2>2. QED
    BY <1>1, <2>1 DEF TypeOK
<1>4. QED
  BY <1>2, <1>3

LEMMA WorkerType ==
  ASSUME IInv, NEW w \in Workers, WorkerNext(w)
  PROVE  TypeOK'
<1> USE DEF IInv, TypeOK, scanVars, faultVars, tableVars, taskVars
<1>a. Idle \in Worker
  BY DEF Idle, Worker
<1>b. worker[w] \in Worker
  OBVIOUS
<1>c. Acking(w) \in Worker
  BY <1>b DEF Acking, Idle, Worker
<1>1. ASSUME NEW t \in Tasks, AcquireLease(w, t)
      PROVE  TypeOK'
  <2>1. mq' \in [Tasks -> Nat]
    BY <1>1 DEF AcquireLease, AttemptNo
  <2>2. /\ status' \in [Tasks -> Status]
        /\ lease' \in [Tasks -> Lease]
    BY <1>1 DEF AcquireLease, AttemptNo, Status, Lease
  <2>3. /\ attemptCount' \in [Tasks -> Nat]
        /\ token' \in [Tasks -> Nat]
    BY <1>1 DEF AcquireLease, AttemptNo
  <2>4. attempts' \in [Tasks -> Seq(AttemptStatus)]
    <3>1. Append(attempts[t], "started") \in Seq(AttemptStatus)
      BY DEF AttemptStatus
    <3>2. QED
      BY <1>1, <3>1 DEF AcquireLease, AttemptNo
  <2>5. stats' \in [Status -> Int]
    <3>1. stats' = [stats EXCEPT !["queued"] = @ - 1, !["sending"] = @ + 1]
      BY <1>1 DEF AcquireLease, AttemptNo, Move
    <3>2. QED
      BY <3>1 DEF Status
  <2>6. worker' \in [Workers -> Worker]
    <3>1. attemptCount[t] + 1 \in Nat
      OBVIOUS
    <3>2. [Idle EXCEPT !.pc = "sending", !.task = t,
                       !.token = attemptCount[t] + 1,
                       !.unacked = TRUE] \in Worker
      BY <3>1 DEF Idle, Worker
    <3>3. QED
      BY <1>1, <3>2 DEF AcquireLease, AttemptNo
  <2>7. QED
    BY <1>1, <2>1, <2>2, <2>3, <2>4, <2>5, <2>6 DEF AcquireLease, AttemptNo
<1>2. ASSUME NEW t \in Tasks, SkipMessage(w, t)
      PROVE  TypeOK'
  <2>1. mq' \in [Tasks -> Nat]
    BY <1>2 DEF SkipMessage
  <2>2. QED
    BY <1>2, <2>1 DEF SkipMessage
<1>3. ASSUME NEW t \in Tasks, NackMessage(w, t)
      PROVE  TypeOK'
  <2>1. mq' \in [Tasks -> Nat] /\ dbErrors' \in Nat
    BY <1>3 DEF NackMessage
  <2>2. QED
    BY <1>3, <2>1 DEF NackMessage
<1>4. CASE ExtendLease(w)
  BY <1>4 DEF ExtendLease, Lease
<1>5. CASE ProviderAccepts(w)
  BY <1>5, <1>b DEF ProviderAccepts, Worker
<1>6. ASSUME NEW reply \in Replies, ProviderReturns(w, reply)
      PROVE  TypeOK'
  <2>1. TaskOutcome(reply, worker[w].token) \in Outcomes
    BY DEF TaskOutcome, Outcomes, Terminal
  <2>2. AttemptOutcome(reply) \in AttemptStatus
    BY DEF AttemptOutcome, AttemptStatus
  <2>3. worker' \in [Workers -> Worker]
    BY <1>6, <1>b, <2>1, <2>2 DEF ProviderReturns, Worker
  <2>4. QED
    BY <1>6, <2>3 DEF ProviderReturns
<1>7. CASE CheckCancellation(w)
  <2>1. worker' \in [Workers -> Worker]
    BY <1>7, <1>b DEF CheckCancellation, Worker, Outcomes, Terminal
  <2>2. QED
    BY <1>7, <2>1 DEF CheckCancellation
<1>8. CASE FinalizeCommits(w)
  <2> DEFINE t == worker[w].task
             n == worker[w].token
  <2>1. t \in Tasks /\ n \in Nat
    BY <1>8, <1>b DEF FinalizeCommits, WithDlqItem, HoldersInv, Holding, Worker
  <2>2. /\ worker[w].outcome \in Outcomes
        /\ worker[w].row \in AttemptStatus
    BY <1>8 DEF FinalizeCommits, WithDlqItem, OutcomeInv, AttemptStatus
  <2>3. /\ status' \in [Tasks -> Status]
        /\ token' \in [Tasks -> Nat]
        /\ lease' \in [Tasks -> Lease]
        /\ available' \in [Tasks -> BOOLEAN]
    BY <1>8, <2>2 DEF FinalizeCommits, WithDlqItem, Outcomes, Terminal, Status, Lease
  <2>4. attempts' \in [Tasks -> Seq(AttemptStatus)]
    <3>1. [attempts[t] EXCEPT ![n] = worker[w].row] \in Seq(AttemptStatus)
      <4>1. attempts[t] \in Seq(AttemptStatus)
        BY <2>1
      <4>2. /\ DOMAIN attempts[t] = 1..Len(attempts[t])
            /\ Len(attempts[t]) \in Nat
            /\ attempts[t] \in [1..Len(attempts[t]) -> AttemptStatus]
        BY <4>1
      <4>3. [attempts[t] EXCEPT ![n] = worker[w].row]
              \in [1..Len(attempts[t]) -> AttemptStatus]
        BY <4>2, <2>2
      <4> DEFINE written == [attempts[t] EXCEPT ![n] = worker[w].row]
      <4>4. \E k \in Nat : written \in [1..k -> AttemptStatus]
        BY <4>2, <4>3
      <4> HIDE DEF written
      <4>5. written \in Seq(AttemptStatus)
        BY <4>4
      <4>6. QED
        BY <4>5 DEF written
    <3>2. attempts' = [attempts EXCEPT
                         ![t] = [attempts[t] EXCEPT ![n] = worker[w].row]]
      BY <1>8 DEF FinalizeCommits, WithDlqItem
    <3>3. QED
      BY <3>1, <3>2
  <2>5. stats' \in [Status -> Int]
    BY <1>8, <2>2 DEF FinalizeCommits, WithDlqItem, Move, Outcomes, Terminal, Status
  <2>6. dlq' \in SUBSET Tasks
    BY <1>8, <2>1 DEF FinalizeCommits, WithDlqItem
  <2>7. worker' \in [Workers -> Worker]
    BY <1>8, <1>c DEF FinalizeCommits, WithDlqItem
  <2>8. QED
    BY <1>8, <2>3, <2>4, <2>5, <2>6, <2>7 DEF FinalizeCommits, WithDlqItem
<1>9. CASE FinalizeRejected(w)
  BY <1>9, <1>c DEF FinalizeRejected
<1>10. CASE Ack(w)
  BY <1>10, <1>a DEF Ack
<1>11. CASE NackResult(w)
  BY <1>11, <1>a DEF NackResult
<1>12. CASE LoseConnection(w)
  <2>1. mq' \in [Tasks -> Nat] /\ crashes' \in Nat
    BY <1>12, RequeueType DEF LoseConnection
  <2>2. worker' \in [Workers -> Worker]
    BY <1>12, <1>b DEF LoseConnection, Worker
  <2>3. QED
    BY <1>12, <2>1, <2>2 DEF LoseConnection
<1>13. CASE Crash(w)
  <2>1. mq' \in [Tasks -> Nat] /\ crashes' \in Nat
    BY <1>13, RequeueType DEF Crash
  <2>2. QED
    BY <1>13, <1>a, <2>1 DEF Crash
<1>14. QED
  BY <1>1, <1>2, <1>3, <1>4, <1>5, <1>6, <1>7, <1>8, <1>9, <1>10, <1>11,
     <1>12, <1>13 DEF WorkerNext

LEMMA EnvironmentType ==
  ASSUME IInv,
         \/ \E t \in Tasks : TaskNext(t)
         \/ RecoverNext
         \/ PublisherNext
         \/ RequestCancel
         \/ UNCHANGED vars
  PROVE  TypeOK'
<1> USE DEF IInv, TypeOK, scanVars, faultVars, tableVars, taskVars
<1>1. ASSUME NEW t \in Tasks, TaskNext(t)
      PROVE  TypeOK'
  <2>1. CASE LeaseExpires(t)
    BY <2>1 DEF LeaseExpires, Lease
  <2>2. CASE BecomesAvailable(t)
    BY <2>2 DEF BecomesAvailable
  <2>3. QED
    BY <1>1, <2>1, <2>2 DEF TaskNext
<1>2. ASSUME NEW row \in expiredScan, RecoverLease(row)
      PROVE  TypeOK'
  <2> DEFINE t == row.task
  <2>1. t \in Tasks /\ row.no \in Nat
    BY DEF ScanRow
  <2>2. /\ status' \in [Tasks -> Status]
        /\ token' \in [Tasks -> Nat]
        /\ lease' \in [Tasks -> Lease]
        /\ available' \in [Tasks -> BOOLEAN]
    BY <1>2 DEF RecoverLease, StillExpired, WithDlqItem, Status, Lease
  <2>3. attempts' \in [Tasks -> Seq(AttemptStatus)]
    <3> DEFINE closed == [n \in DOMAIN attempts[t] |->
                            IF attempts[t][n] = "started" THEN "stale"
                            ELSE attempts[t][n]]
    <3>1. attempts[t] \in Seq(AttemptStatus)
      BY <2>1
    <3>2. \A n \in 1..Len(attempts[t]) : attempts[t][n] \in AttemptStatus
      BY <3>1
    <3>3. DOMAIN attempts[t] = 1..Len(attempts[t]) /\ Len(attempts[t]) \in Nat
      BY <3>1
    <3>4. closed \in [1..Len(attempts[t]) -> AttemptStatus]
      BY <3>2, <3>3 DEF AttemptStatus
    <3>5. closed \in Seq(AttemptStatus)
      BY <3>3, <3>4
    <3>6. attempts' = [attempts EXCEPT ![t] = closed]
      BY <1>2 DEF RecoverLease, StillExpired, WithDlqItem, MarkStale
    <3>7. QED
      BY <3>5, <3>6
  <2>4. stats' \in [Status -> Int]
    BY <1>2 DEF RecoverLease, StillExpired, WithDlqItem, MoveClamped, Status
  <2>5. dlq' \in SUBSET Tasks
    BY <1>2, <2>1 DEF RecoverLease, StillExpired, WithDlqItem
  <2>6. outbox' \in SUBSET OutboxRow
    BY <1>2, <2>1 DEF RecoverLease, StillExpired, WithDlqItem, LeaseRetry, OutboxRow
  <2>7. expiredScan' \in SUBSET ScanRow
    BY <1>2 DEF RecoverLease, StillExpired, WithDlqItem
  <2>8. QED
    BY <1>2, <2>2, <2>3, <2>4, <2>5, <2>6, <2>7 DEF RecoverLease, StillExpired, WithDlqItem
<1>3. ASSUME NEW row \in expiredScan, SkipRecovery(row)
      PROVE  TypeOK'
  BY <1>3 DEF SkipRecovery
<1>4. ASSUME NEW row \in retryScan, EnqueueRepush(row)
      PROVE  TypeOK'
  <2>1. Repush(row.task, row.no) \in OutboxRow
    BY DEF Repush, OutboxRow, ScanRow
  <2>2. QED
    BY <1>4, <2>1 DEF EnqueueRepush
<1>5. ASSUME NEW row \in outbox, Publish(row) \/ PublishNotDeleted(row)
      PROVE  TypeOK'
  <2>1. mq' = [mq EXCEPT ![row.task] = @ + 1]
    BY <1>5 DEF Publish, PublishNotDeleted
  <2>2. mq' \in [Tasks -> Nat]
    <3>1. \A t \in Tasks : mq[t] \in Nat /\ mq[t] + 1 \in Nat
      OBVIOUS
    <3>2. QED
      BY <2>1, <3>1
  <2>3. crashes' \in Nat
    BY <1>5 DEF Publish, PublishNotDeleted
  <2>4. QED
    BY <1>5, <2>2, <2>3 DEF Publish, PublishNotDeleted
<1>6. CASE RequestCancel
  BY <1>6 DEF RequestCancel, CampaignStatus
<1>7. CASE UNCHANGED vars
  BY <1>7 DEF vars
<1>8. CASE FetchExpired \/ FetchRetryReady
  <2>1. \A rows \in SUBSET Tasks : ScanOf(rows) \in SUBSET ScanRow
    BY DEF ScanOf, ScanRow
  <2>2. Abandoned \in SUBSET Tasks /\ RetryReady \in SUBSET Tasks
    BY DEF Abandoned, RetryReady
  <2>3. QED
    BY <1>8, <2>1, <2>2 DEF FetchExpired, FetchRetryReady
<1>9. ASSUME NEW row \in expiredScan \cup retryScan, RecoverRowFails(row)
      PROVE  TypeOK'
  BY <1>9 DEF RecoverRowFails
<1>10. CASE RecoverCrash
  BY <1>10 DEF RecoverCrash
<1>11. QED
  BY <1>1, <1>2, <1>3, <1>4, <1>5, <1>6, <1>7, <1>8, <1>9, <1>10
     DEF RecoverNext, PublisherNext

LEMMA NextType == IInv /\ [Next]_vars => TypeOK'
BY WorkerType, EnvironmentType DEF Next

-----------------------------------------------------------------------------
(* The rows of tasks and attempts. *)

\* What HoldersInv says of the worker that commits.
LEMMA CommitHolder ==
  ASSUME IInv, NEW w \in Workers, FinalizeCommits(w)
  PROVE  /\ worker[w].task \in Tasks
         /\ status[worker[w].task] = "sending"
         /\ token[worker[w].task] = worker[w].token
         /\ worker[w].token = attemptCount[worker[w].task]
         /\ worker[w].outcome \in Outcomes
         /\ worker[w].row \in {"succeeded", "failed", "timed_out"}
         /\ worker[w].outcome = "succeeded" <=> worker[w].row = "succeeded"
<1>1. worker[w].task \in Tasks /\ worker[w].token > 0
  BY DEF FinalizeCommits, WithDlqItem, IInv, TypeOK, HoldersInv, Holding
<1>2. token[worker[w].task] = worker[w].token
  BY DEF FinalizeCommits, WithDlqItem
<1>3. /\ status[worker[w].task] = "sending"
      /\ worker[w].token = attemptCount[worker[w].task]
  BY <1>1, <1>2 DEF IInv, LeaseInv
<1>4. /\ worker[w].outcome \in Outcomes
      /\ worker[w].row \in {"succeeded", "failed", "timed_out"}
      /\ worker[w].outcome = "succeeded" <=> worker[w].row = "succeeded"
  BY DEF FinalizeCommits, WithDlqItem, IInv, OutcomeInv
<1>5. QED
  BY <1>1, <1>2, <1>3, <1>4

\* The attempt rows after each of the three writes.
LEMMA AcquireRows ==
  ASSUME IInv, NEW w \in Workers, NEW t \in Tasks, AcquireLease(w, t)
  PROVE  /\ attemptCount'[t] = attemptCount[t] + 1
         /\ Len(attempts'[t]) = Len(attempts[t]) + 1
         /\ \A n \in 1..Len(attempts[t]) : attempts'[t][n] = attempts[t][n]
         /\ attempts'[t][attemptCount'[t]] = "started"
         /\ \A u \in Tasks \ {t} : attempts'[u] = attempts[u]
<1> USE DEF IInv, TypeOK
<1>1. attempts[t] \in Seq(AttemptStatus) /\ Len(attempts[t]) = attemptCount[t]
  BY DEF AttemptsInv
<1>2. /\ attempts'[t] = Append(attempts[t], "started")
      /\ attemptCount'[t] = attemptCount[t] + 1
      /\ \A u \in Tasks \ {t} : attempts'[u] = attempts[u]
  BY DEF AcquireLease, AttemptNo
<1>3. QED
  BY <1>1, <1>2

LEMMA CommitRows ==
  ASSUME IInv, NEW w \in Workers, FinalizeCommits(w)
  PROVE  LET t == worker[w].task IN
         /\ Len(attempts'[t]) = Len(attempts[t])
         /\ \A n \in 1..Len(attempts[t]) :
              attempts'[t][n] = IF n = attemptCount[t] THEN worker[w].row
                                ELSE attempts[t][n]
         /\ \A u \in Tasks \ {t} : attempts'[u] = attempts[u]
<1> DEFINE t == worker[w].task
<1>1. t \in Tasks /\ worker[w].token = attemptCount[t]
  BY CommitHolder
<1>2. attempts[t] \in Seq(AttemptStatus)
  BY <1>1 DEF IInv, TypeOK
<1>3. attempts' = [attempts EXCEPT
                     ![t] = [attempts[t] EXCEPT ![attemptCount[t]] = worker[w].row]]
  BY <1>1 DEF FinalizeCommits, WithDlqItem
<1>4. /\ attempts'[t] = [attempts[t] EXCEPT ![attemptCount[t]] = worker[w].row]
      /\ \A u \in Tasks \ {t} : attempts'[u] = attempts[u]
  BY <1>1, <1>3 DEF IInv, TypeOK
<1>5. DOMAIN attempts'[t] = 1..Len(attempts[t]) /\ Len(attempts[t]) \in Nat
  BY <1>2, <1>4
<1>6. attempts'[t] \in Seq(AttemptStatus)
  BY <1>1, NextType DEF TypeOK, Next, WorkerNext
<1>7. Len(attempts'[t]) = Len(attempts[t])
  BY <1>5, <1>6
<1>8. \A n \in 1..Len(attempts[t]) :
         attempts'[t][n] = IF n = attemptCount[t] THEN worker[w].row
                           ELSE attempts[t][n]
  BY <1>2, <1>4
<1>9. QED
  BY <1>4, <1>7, <1>8

LEMMA RecoverRows ==
  ASSUME IInv, NEW row \in expiredScan, RecoverLease(row)
  PROVE  LET t == row.task IN
         /\ t \in Tasks
         /\ Len(attempts'[t]) = Len(attempts[t])
         /\ \A n \in 1..Len(attempts[t]) :
              attempts'[t][n] = IF n = attemptCount[t] THEN "stale"
                                ELSE attempts[t][n]
         /\ \A u \in Tasks \ {t} : attempts'[u] = attempts[u]
<1> DEFINE t == row.task
           closed == [n \in DOMAIN attempts[t] |->
                        IF attempts[t][n] = "started" THEN "stale"
                        ELSE attempts[t][n]]
<1>1. t \in Tasks /\ status[t] = "sending"
  BY DEF IInv, TypeOK, ScanRow, RecoverLease, StillExpired,
     StillExpired
<1>2. attempts[t] \in Seq(AttemptStatus)
  BY <1>1 DEF IInv, TypeOK
<1>3. attempts' = [attempts EXCEPT ![t] = closed]
  BY DEF RecoverLease, StillExpired, WithDlqItem, MarkStale
<1>4. attempts'[t] = closed /\ \A u \in Tasks \ {t} : attempts'[u] = attempts[u]
  BY <1>1, <1>3 DEF IInv, TypeOK
<1>5. DOMAIN attempts'[t] = 1..Len(attempts[t]) /\ Len(attempts[t]) \in Nat
  BY <1>2, <1>4
<1>6. attempts'[t] \in Seq(AttemptStatus)
  BY <1>1, NextType DEF TypeOK, Next, RecoverNext
<1>7. Len(attempts'[t]) = Len(attempts[t])
  BY <1>5, <1>6
<1>8. \A n \in 1..Len(attempts[t]) :
        attempts[t][n] = "started" <=> n = attemptCount[t]
  BY <1>1 DEF IInv, AttemptsInv
<1>9. \A n \in 1..Len(attempts[t]) :
         attempts'[t][n] = IF n = attemptCount[t] THEN "stale"
                           ELSE attempts[t][n]
  BY <1>2, <1>4, <1>8
<1>10. QED
  BY <1>1, <1>4, <1>7, <1>9

LEMMA NextLease == IInv /\ [Next]_vars => LeaseInv'
<1> SUFFICES ASSUME IInv, [Next]_vars
             PROVE  LeaseInv'
  OBVIOUS
<1> USE DEF IInv, TypeOK, LeaseInv
<1>1. ASSUME NEW w \in Workers, NEW t \in Tasks, AcquireLease(w, t)
      PROVE  LeaseInv'
  BY <1>1 DEF AcquireLease, AttemptNo
<1>2. ASSUME NEW w \in Workers, ExtendLease(w)
      PROVE  LeaseInv'
  BY <1>2 DEF ExtendLease, HoldersInv, Holding
<1>3. ASSUME NEW w \in Workers, FinalizeCommits(w)
      PROVE  LeaseInv'
  BY <1>3, CommitHolder DEF FinalizeCommits, WithDlqItem, Outcomes, Terminal
<1>4. ASSUME NEW t \in Tasks, LeaseExpires(t)
      PROVE  LeaseInv'
  BY <1>4 DEF LeaseExpires
<1>5. ASSUME NEW row \in expiredScan, RecoverLease(row)
      PROVE  LeaseInv'
  BY <1>5 DEF RecoverLease, StillExpired, WithDlqItem, ScanRow
<1>6. CASE UNCHANGED rowVars
  BY <1>6 DEF rowVars
<1>7. QED
  BY <1>1, <1>2, <1>3, <1>4, <1>5, <1>6, RowSteps DEF RowStep

\* AttemptsInv of one task.
AttemptsOf(t) ==
  /\ Len(attempts[t]) = attemptCount[t]
  /\ \A n \in 1..Len(attempts[t]) :
       attempts[t][n] = "started" <=> status[t] = "sending"
                                      /\ n = attemptCount[t]

LEMMA NextAttempts == IInv /\ [Next]_vars => AttemptsInv'
<1> SUFFICES ASSUME IInv, [Next]_vars
             PROVE  AttemptsInv'
  OBVIOUS
<1>a. \A u \in Tasks : AttemptsOf(u)
  BY DEF IInv, AttemptsInv, AttemptsOf
<1>b. /\ attempts \in [Tasks -> Seq(AttemptStatus)]
      /\ status \in [Tasks -> Status]
      /\ attemptCount \in [Tasks -> Nat]
  BY DEF IInv, TypeOK
<1>c. (\A u \in Tasks : AttemptsOf(u)') => AttemptsInv'
  BY DEF AttemptsInv, AttemptsOf
<1>1. ASSUME NEW w \in Workers, NEW t \in Tasks, AcquireLease(w, t)
      PROVE  AttemptsInv'
  <2>1. /\ status[t] # "sending" /\ status'[t] = "sending"
        /\ \A u \in Tasks \ {t} : /\ status'[u] = status[u]
                                  /\ attemptCount'[u] = attemptCount[u]
    BY <1>1, <1>b DEF AcquireLease, AttemptNo, CanLease, Claimable
  <2>2. Len(attempts[t]) = attemptCount[t] /\ attemptCount[t] \in Nat
    BY <1>a, <1>b DEF AttemptsOf
  <2>3. \A n \in 1..Len(attempts[t]) : attempts[t][n] # "started"
    BY <1>a, <2>1 DEF AttemptsOf
  <2>a. /\ attemptCount'[t] = attemptCount[t] + 1
        /\ Len(attempts'[t]) = Len(attempts[t]) + 1
        /\ \A n \in 1..Len(attempts[t]) : attempts'[t][n] = attempts[t][n]
        /\ attempts'[t][attemptCount'[t]] = "started"
    BY <1>1, AcquireRows
  <2>b. ASSUME NEW n \in 1..Len(attempts'[t])
        PROVE  n \in 1..Len(attempts[t]) \/ n = attemptCount'[t]
    BY <2>2, <2>a
  <2>4. AttemptsOf(t)'
    BY <2>1, <2>2, <2>3, <2>a, <2>b DEF AttemptsOf
  <2>5. ASSUME NEW u \in Tasks \ {t} PROVE AttemptsOf(u)'
    BY <1>1, <1>a, <2>1, AcquireRows DEF AttemptsOf
  <2>6. QED
    BY <1>c, <2>4, <2>5
<1>2. ASSUME NEW w \in Workers, ExtendLease(w)
      PROVE  AttemptsInv'
  BY <1>2 DEF ExtendLease, tableVars, IInv, AttemptsInv
<1>3. ASSUME NEW w \in Workers, FinalizeCommits(w)
      PROVE  AttemptsInv'
  <2>0. PICK t \in Tasks : t = worker[w].task
    BY <1>3, CommitHolder
  <2>1. status[t] = "sending" /\ worker[w].row # "started"
    BY <1>3, <2>0, CommitHolder
  <2>2. worker[w].outcome # "sending"
    BY <1>3, CommitHolder DEF Outcomes, Terminal
  <2>3. /\ status'[t] # "sending" /\ attemptCount' = attemptCount
        /\ \A u \in Tasks \ {t} : status'[u] = status[u]
    BY <1>3, <1>b, <2>0, <2>1, <2>2 DEF FinalizeCommits, WithDlqItem
  <2>4. AttemptsOf(t)'
    BY <1>3, <1>a, <2>0, <2>1, <2>3, CommitRows DEF AttemptsOf
  <2>5. ASSUME NEW u \in Tasks \ {t} PROVE AttemptsOf(u)'
    BY <1>3, <1>a, <2>0, <2>1, <2>3, CommitRows DEF AttemptsOf
  <2>6. QED
    BY <1>c, <2>4, <2>5
<1>4. ASSUME NEW t \in Tasks, LeaseExpires(t)
      PROVE  AttemptsInv'
  BY <1>4 DEF LeaseExpires, tableVars, IInv, AttemptsInv
<1>5. ASSUME NEW row \in expiredScan, RecoverLease(row)
      PROVE  AttemptsInv'
  <2> DEFINE t == row.task
  <2>1. t \in Tasks /\ status[t] = "sending"
    BY <1>5, RecoverRows DEF RecoverLease, StillExpired, WithDlqItem
  <2>2. /\ status'[t] # "sending" /\ attemptCount' = attemptCount
        /\ \A u \in Tasks \ {t} : status'[u] = status[u]
    BY <1>5, <1>b, <2>1 DEF RecoverLease, StillExpired, WithDlqItem
  <2>3. AttemptsOf(t)'
    BY <1>5, <1>a, <2>1, <2>2, RecoverRows DEF AttemptsOf
  <2>4. ASSUME NEW u \in Tasks \ {t} PROVE AttemptsOf(u)'
    BY <1>5, <1>a, <2>1, <2>2, RecoverRows DEF AttemptsOf
  <2>5. QED
    BY <1>c, <2>3, <2>4
<1>6. CASE UNCHANGED rowVars
  BY <1>6 DEF rowVars, IInv, AttemptsInv
<1>7. QED
  BY <1>1, <1>2, <1>3, <1>4, <1>5, <1>6, RowSteps DEF RowStep

LEMMA NextDlq == IInv /\ [Next]_vars => DlqInv'
<1> SUFFICES ASSUME IInv, [Next]_vars
             PROVE  DlqInv'
  OBVIOUS
<1> USE DEF IInv, TypeOK, DlqInv, InStatus
<1>1. ASSUME NEW w \in Workers, NEW t \in Tasks, AcquireLease(w, t)
      PROVE  DlqInv'
  BY <1>1 DEF AcquireLease, AttemptNo, CanLease, Claimable
<1>2. ASSUME NEW w \in Workers, ExtendLease(w)
      PROVE  DlqInv'
  BY <1>2 DEF ExtendLease, tableVars
<1>3. ASSUME NEW w \in Workers, FinalizeCommits(w)
      PROVE  DlqInv'
  BY <1>3, CommitHolder DEF FinalizeCommits, WithDlqItem
<1>4. ASSUME NEW t \in Tasks, LeaseExpires(t)
      PROVE  DlqInv'
  BY <1>4 DEF LeaseExpires, tableVars
<1>5. ASSUME NEW row \in expiredScan, RecoverLease(row)
      PROVE  DlqInv'
  BY <1>5 DEF RecoverLease, StillExpired, WithDlqItem, ScanRow
<1>6. CASE UNCHANGED rowVars
  BY <1>6 DEF rowVars
<1>7. QED
  BY <1>1, <1>2, <1>3, <1>4, <1>5, <1>6, RowSteps DEF RowStep

-----------------------------------------------------------------------------
(* What the workers hold. *)

LEMMA AttemptCountGrows ==
  ASSUME IInv, [Next]_vars, NEW t \in Tasks
  PROVE  attemptCount[t] \in Nat /\ attemptCount'[t] >= attemptCount[t]
<1>1. attemptCount \in [Tasks -> Nat]
  BY DEF IInv, TypeOK
<1>2. ASSUME NEW w \in Workers, NEW u \in Tasks, AcquireLease(w, u)
      PROVE  attemptCount'[t] >= attemptCount[t]
  BY <1>1, <1>2 DEF AcquireLease, AttemptNo
<1>3. ASSUME RowStep, ~\E w \in Workers, u \in Tasks : AcquireLease(w, u)
      PROVE  attemptCount' = attemptCount
  BY <1>3 DEF RowStep, ExtendLease, FinalizeCommits, LeaseExpires, RecoverLease,
     StillExpired
<1>4. QED
  BY <1>1, <1>2, <1>3, RowSteps DEF rowVars

\* A step changes one worker only.
LEMMA OtherWorkers ==
  ASSUME IInv, NEW w \in Workers, WorkerNext(w), NEW v \in Workers, v # w
  PROVE  worker'[v] = worker[v]
<1>1. worker \in [Workers -> Worker]
  BY DEF IInv, TypeOK
<1>2. ASSUME NEW t \in Tasks,
             AcquireLease(w, t) \/ SkipMessage(w, t) \/ NackMessage(w, t)
      PROVE  worker'[v] = worker[v]
  BY <1>1, <1>2 DEF AcquireLease, AttemptNo, SkipMessage, NackMessage
<1>3. ASSUME NEW reply \in Replies, ProviderReturns(w, reply)
      PROVE  worker'[v] = worker[v]
  BY <1>1, <1>3 DEF ProviderReturns
<1>4. ASSUME \/ ExtendLease(w)
             \/ ProviderAccepts(w)
             \/ CheckCancellation(w)
             \/ FinalizeCommits(w)
             \/ FinalizeRejected(w)
             \/ Ack(w)
             \/ NackResult(w)
             \/ LoseConnection(w)
             \/ Crash(w)
      PROVE  worker'[v] = worker[v]
  BY <1>1, <1>4 DEF ExtendLease, ProviderAccepts, CheckCancellation,
     FinalizeCommits, FinalizeRejected, Ack, NackResult, LoseConnection, Crash
<1>5. QED
  BY <1>2, <1>3, <1>4 DEF WorkerNext

LEMMA WorkersOnly ==
  ASSUME [Next]_vars, ~\E w \in Workers : WorkerNext(w)
  PROVE  worker' = worker /\ accepted' = accepted
<1>1. ASSUME NEW t \in Tasks, TaskNext(t)
      PROVE  worker' = worker /\ accepted' = accepted
  BY <1>1 DEF TaskNext, LeaseExpires, BecomesAvailable
<1>2. RecoverNext => worker' = worker /\ accepted' = accepted
  BY DEF RecoverNext, FetchExpired, RecoverLease, SkipRecovery,
         FetchRetryReady, EnqueueRepush, RecoverRowFails, RecoverCrash
<1>3. PublisherNext => worker' = worker /\ accepted' = accepted
  BY DEF PublisherNext, Publish, PublishNotDeleted
<1>4. RequestCancel \/ UNCHANGED vars => worker' = worker /\ accepted' = accepted
  BY DEF RequestCancel, vars
<1>5. QED
  BY <1>1, <1>2, <1>3, <1>4 DEF Next

\* A worker that holds a lease acquired it in this step or held it before.
LEMMA Held ==
  ASSUME IInv, [Next]_vars, NEW v \in Workers, Holding(v)'
  PROVE  \/ \E t \in Tasks : AcquireLease(v, t)
         \/ /\ Holding(v)
            /\ worker'[v].task = worker[v].task
            /\ worker'[v].token = worker[v].token
<1>1. worker[v] \in Worker /\ worker \in [Workers -> Worker]
  BY DEF IInv, TypeOK
<1>2. CASE worker'[v] = worker[v]
  BY <1>2 DEF Holding
<1>3. CASE WorkerNext(v)
  <2>1. ASSUME NEW t \in Tasks, SkipMessage(v, t) \/ NackMessage(v, t)
        PROVE  worker'[v] = worker[v]
    BY <2>1 DEF SkipMessage, NackMessage
  <2>2. ASSUME ExtendLease(v) \/ ProviderAccepts(v)
        PROVE  worker'[v] = worker[v]
    BY <2>2 DEF ExtendLease, ProviderAccepts
  <2>3. ASSUME NEW reply \in Replies, ProviderReturns(v, reply)
        PROVE  /\ Holding(v)
               /\ worker'[v].task = worker[v].task
               /\ worker'[v].token = worker[v].token
    BY <1>1, <2>3 DEF ProviderReturns, Holding, Worker
  <2>4. ASSUME CheckCancellation(v)
        PROVE  /\ Holding(v)
               /\ worker'[v].task = worker[v].task
               /\ worker'[v].token = worker[v].token
    BY <1>1, <2>4 DEF CheckCancellation, Holding, Worker
  <2>5. ASSUME FinalizeCommits(v) \/ FinalizeRejected(v)
        PROVE  FALSE
    BY <1>1, <2>5 DEF FinalizeCommits, WithDlqItem, FinalizeRejected, Acking, Idle, Holding
  <2>6. ASSUME Ack(v) \/ NackResult(v) \/ Crash(v)
        PROVE  FALSE
    BY <1>1, <2>6 DEF Ack, NackResult, Crash, Idle, Holding
  <2>7. ASSUME LoseConnection(v)
        PROVE  /\ Holding(v)
               /\ worker'[v].task = worker[v].task
               /\ worker'[v].token = worker[v].token
    BY <1>1, <2>7 DEF LoseConnection, Holding, Worker
  <2>8. QED
    BY <1>2, <1>3, <2>1, <2>2, <2>3, <2>4, <2>5, <2>6, <2>7 DEF WorkerNext
<1>4. QED
  BY <1>2, <1>3, OtherWorkers, WorkersOnly

LEMMA NextHolders == IInv /\ [Next]_vars => HoldersInv'
<1> SUFFICES ASSUME IInv, [Next]_vars
             PROVE  HoldersInv'
  OBVIOUS
<1>1. ASSUME NEW v \in Workers, NEW t \in Tasks, AcquireLease(v, t)
      PROVE  /\ worker'[v].task = t
             /\ worker'[v].token = attemptCount[t] + 1
             /\ attemptCount'[t] = attemptCount[t] + 1
             /\ attemptCount[t] \in Nat
  BY <1>1 DEF AcquireLease, AttemptNo, IInv, TypeOK, Idle
<1>2. ASSUME NEW v \in Workers, Holding(v)'
      PROVE  /\ worker'[v].task \in Tasks
             /\ worker'[v].token \in 1..attemptCount'[worker'[v].task]
  <2>1. CASE \E t \in Tasks : AcquireLease(v, t)
    BY <1>1, <2>1
  <2>2. CASE /\ Holding(v)
             /\ worker'[v].task = worker[v].task
             /\ worker'[v].token = worker[v].token
    <3>1. /\ worker[v].task \in Tasks
          /\ worker[v].token \in 1..attemptCount[worker[v].task]
      BY <2>2 DEF IInv, HoldersInv
    <3>2. attemptCount'[worker[v].task] \in Nat
      BY <3>1, NextType DEF TypeOK
    <3>3. QED
      BY <2>2, <3>1, <3>2, AttemptCountGrows
  <2>3. QED
    BY <1>2, <2>1, <2>2, Held
<1>3. ASSUME NEW w1 \in Workers, NEW w2 \in Workers,
             Holding(w1)', Holding(w2)',
             worker'[w1].task = worker'[w2].task,
             worker'[w1].token = worker'[w2].token
      PROVE  w1 = w2
  <2> SUFFICES ASSUME w1 # w2 PROVE FALSE
    OBVIOUS
  <2>1. ASSUME NEW v \in Workers, NEW u \in Workers, u # v, Holding(u)',
               NEW t \in Tasks, AcquireLease(v, t),
               worker'[u].task = t
        PROVE  worker'[u].token # attemptCount[t] + 1
    <3>1. WorkerNext(v)
      BY <2>1 DEF WorkerNext
    <3>2. worker'[u] = worker[u]
      BY <2>1, <3>1, OtherWorkers
    <3>3. worker[u].token \in 1..attemptCount[t] /\ attemptCount[t] \in Nat
      BY <2>1, <3>2 DEF IInv, HoldersInv, Holding, TypeOK
    <3>4. QED
      BY <3>2, <3>3
  <2>2. CASE \E t \in Tasks : AcquireLease(w1, t)
    BY <1>1, <1>3, <2>1, <2>2
  <2>3. CASE \E t \in Tasks : AcquireLease(w2, t)
    BY <1>1, <1>3, <2>1, <2>3
  <2>4. CASE /\ ~\E t \in Tasks : AcquireLease(w1, t)
             /\ ~\E t \in Tasks : AcquireLease(w2, t)
    <3>1. /\ Holding(w1) /\ Holding(w2)
          /\ worker[w1].task = worker[w2].task
          /\ worker[w1].token = worker[w2].token
      BY <1>3, <2>4, Held
    <3>2. QED
      BY <3>1 DEF IInv, HoldersInv
  <2>5. QED
    BY <2>2, <2>3, <2>4
<1>4. QED
  BY <1>2, <1>3 DEF HoldersInv, Holding

LEMMA AcceptedGrows ==
  ASSUME IInv, [Next]_vars, NEW t \in Tasks
  PROVE  accepted[t] \subseteq accepted'[t]
<1>1. accepted \in [Tasks -> SUBSET Nat]
  BY DEF IInv, TypeOK
<1>2. ASSUME NEW w \in Workers, WorkerNext(w)
      PROVE  accepted[t] \subseteq accepted'[t]
  <2>1. ASSUME NEW u \in Tasks,
               AcquireLease(w, u) \/ SkipMessage(w, u) \/ NackMessage(w, u)
        PROVE  accepted' = accepted
    BY <2>1 DEF AcquireLease, AttemptNo, SkipMessage, NackMessage
  <2>2. ASSUME NEW reply \in Replies, ProviderReturns(w, reply)
        PROVE  accepted' = accepted
    BY <2>2 DEF ProviderReturns
  <2>3. ASSUME \/ ExtendLease(w)
               \/ CheckCancellation(w)
               \/ FinalizeCommits(w)
               \/ FinalizeRejected(w)
               \/ Ack(w)
               \/ NackResult(w)
               \/ LoseConnection(w)
               \/ Crash(w)
        PROVE  accepted' = accepted
    BY <2>3 DEF ExtendLease, CheckCancellation, FinalizeCommits,
       FinalizeRejected, Ack, NackResult, LoseConnection, Crash
  <2>4. ProviderAccepts(w) => accepted[t] \subseteq accepted'[t]
    BY <1>1 DEF ProviderAccepts
  <2>5. QED
    BY <1>2, <2>1, <2>2, <2>3, <2>4 DEF WorkerNext
<1>3. QED
  BY <1>2, WorkersOnly

LEMMA NextOutcome == IInv /\ [Next]_vars => OutcomeInv'
<1> SUFFICES ASSUME IInv, [Next]_vars,
                    NEW v \in Workers,
                    worker'[v].pc \in {"decided", "finalizing"}
             PROVE  /\ worker'[v].outcome \in Outcomes
                    /\ worker'[v].pc = "decided" =>
                         worker'[v].outcome = "retry_scheduled"
                    /\ worker'[v].row \in {"succeeded", "failed", "timed_out"}
                    /\ worker'[v].outcome = "succeeded"
                         <=> worker'[v].row = "succeeded"
                    /\ worker'[v].row = "succeeded" =>
                         worker'[v].token \in accepted'[worker'[v].task]
  BY DEF OutcomeInv
<1> DEFINE Goal == /\ worker'[v].outcome \in Outcomes
                   /\ worker'[v].pc = "decided" =>
                        worker'[v].outcome = "retry_scheduled"
                   /\ worker'[v].row \in {"succeeded", "failed", "timed_out"}
                   /\ worker'[v].outcome = "succeeded"
                        <=> worker'[v].row = "succeeded"
                   /\ worker'[v].row = "succeeded" =>
                        worker'[v].token \in accepted'[worker'[v].task]
<1>1. worker[v] \in Worker /\ worker \in [Workers -> Worker]
  BY DEF IInv, TypeOK
<1>2. ASSUME \/ worker'[v] = worker[v]
             \/ CheckCancellation(v)
             \/ LoseConnection(v)
      PROVE  Goal
  <2>1. worker[v].pc \in {"decided", "finalizing"}
    BY <1>1, <1>2 DEF CheckCancellation, LoseConnection, Worker
  <2>2. /\ worker[v].outcome \in Outcomes
        /\ worker[v].pc = "decided" => worker[v].outcome = "retry_scheduled"
        /\ worker[v].row \in {"succeeded", "failed", "timed_out"}
        /\ worker[v].outcome = "succeeded" <=> worker[v].row = "succeeded"
        /\ worker[v].row = "succeeded" =>
             worker[v].token \in accepted[worker[v].task]
    BY <2>1 DEF IInv, OutcomeInv
  <2>3. worker[v].task \in Tasks
    BY <2>1 DEF IInv, HoldersInv, Holding
  <2>4. accepted[worker[v].task] \subseteq accepted'[worker[v].task]
    BY <2>3, AcceptedGrows
  <2>5. CASE worker'[v] = worker[v]
    BY <2>2, <2>4, <2>5
  <2>6. CASE CheckCancellation(v)
    <3>1. worker[v].outcome = "retry_scheduled"
      BY <2>6 DEF CheckCancellation, IInv, OutcomeInv
    <3>2. QED
      BY <1>1, <2>2, <2>4, <2>6, <3>1
         DEF CheckCancellation, Worker, Outcomes, Terminal
  <2>7. CASE LoseConnection(v)
    BY <1>1, <2>2, <2>4, <2>7 DEF LoseConnection, Worker
  <2>8. QED
    BY <1>2, <2>5, <2>6, <2>7
<1>3. ASSUME NEW reply \in Replies, ProviderReturns(v, reply)
      PROVE  Goal
  <2>1. /\ worker'[v].outcome = TaskOutcome(reply, worker[v].token)
        /\ worker'[v].pc = "decided" =>
             worker'[v].outcome = "retry_scheduled"
        /\ worker'[v].row = AttemptOutcome(reply)
        /\ worker'[v].token = worker[v].token
        /\ worker'[v].task = worker[v].task
        /\ accepted' = accepted
    BY <1>1, <1>3 DEF ProviderReturns, Worker
  <2>2. reply = "ok" => worker[v].token \in accepted[worker[v].task]
    BY <1>3 DEF ProviderReturns, ReplyPossible
  <2>3. QED
    BY <2>1, <2>2 DEF TaskOutcome, AttemptOutcome, Outcomes, Terminal
<1>4. CASE WorkerNext(v)
  <2>1. ASSUME NEW t \in Tasks, AcquireLease(v, t)
        PROVE  FALSE
    BY <1>1, <2>1 DEF AcquireLease, AttemptNo, Idle
  <2>2. ASSUME NEW t \in Tasks, SkipMessage(v, t) \/ NackMessage(v, t)
        PROVE  worker'[v] = worker[v]
    BY <2>2 DEF SkipMessage, NackMessage
  <2>3. ASSUME ExtendLease(v) \/ ProviderAccepts(v)
        PROVE  worker'[v] = worker[v]
    BY <2>3 DEF ExtendLease, ProviderAccepts
  <2>4. ASSUME FinalizeCommits(v) \/ FinalizeRejected(v)
        PROVE  FALSE
    BY <1>1, <2>4 DEF FinalizeCommits, WithDlqItem, FinalizeRejected, Acking, Idle
  <2>5. ASSUME Ack(v) \/ NackResult(v) \/ Crash(v)
        PROVE  FALSE
    BY <1>1, <2>5 DEF Ack, NackResult, Crash, Idle
  <2>6. QED
    BY <1>2, <1>3, <1>4, <2>1, <2>2, <2>3, <2>4, <2>5 DEF WorkerNext
<1>5. QED
  BY <1>2, <1>4, OtherWorkers, WorkersOnly

-----------------------------------------------------------------------------
(* What is recorded about a task: success and statistics. *)

\* SuccessInv of one task.
SuccessOf(t) ==
  /\ \A n \in 1..Len(attempts[t]) :
       attempts[t][n] = "succeeded" =>
         status[t] = "succeeded" /\ n = attemptCount[t]
  /\ status[t] = "succeeded" =>
       /\ attemptCount[t] > 0
       /\ attempts[t][attemptCount[t]] = "succeeded"
       /\ attemptCount[t] \in accepted[t]

LEMMA NextSuccess == IInv /\ [Next]_vars => SuccessInv'
<1> SUFFICES ASSUME IInv, [Next]_vars
             PROVE  SuccessInv'
  OBVIOUS
<1>a. \A u \in Tasks : SuccessOf(u) /\ accepted[u] \subseteq accepted'[u]
  BY AcceptedGrows DEF IInv, SuccessInv, SuccessOf
<1>b. /\ attempts \in [Tasks -> Seq(AttemptStatus)]
      /\ status \in [Tasks -> Status]
      /\ attemptCount \in [Tasks -> Nat]
      /\ \A u \in Tasks : Len(attempts[u]) = attemptCount[u]
  BY DEF IInv, TypeOK, AttemptsInv
<1>c. (\A u \in Tasks : SuccessOf(u)') => SuccessInv'
  BY DEF SuccessInv, SuccessOf
<1>1. ASSUME NEW w \in Workers, NEW t \in Tasks, AcquireLease(w, t)
      PROVE  SuccessInv'
  <2>1. /\ status[t] # "succeeded" /\ status'[t] = "sending"
        /\ \A u \in Tasks \ {t} : /\ status'[u] = status[u]
                                  /\ attemptCount'[u] = attemptCount[u]
    BY <1>1, <1>b DEF AcquireLease, AttemptNo, CanLease, Claimable
  <2>2. Len(attempts[t]) = attemptCount[t] /\ attemptCount[t] \in Nat
    BY <1>b
  <2>3. \A n \in 1..Len(attempts[t]) : attempts[t][n] # "succeeded"
    BY <1>a, <2>1 DEF SuccessOf
  <2>4. /\ attemptCount'[t] = attemptCount[t] + 1
        /\ Len(attempts'[t]) = Len(attempts[t]) + 1
        /\ \A n \in 1..Len(attempts[t]) : attempts'[t][n] = attempts[t][n]
        /\ attempts'[t][attemptCount'[t]] = "started"
    BY <1>1, AcquireRows
  <2>5. ASSUME NEW n \in 1..Len(attempts'[t])
        PROVE  n \in 1..Len(attempts[t]) \/ n = attemptCount'[t]
    BY <2>2, <2>4
  <2>6. SuccessOf(t)'
    BY <2>1, <2>3, <2>4, <2>5 DEF SuccessOf
  <2>7. ASSUME NEW u \in Tasks \ {t} PROVE SuccessOf(u)'
    BY <1>1, <1>a, <2>1, AcquireRows DEF SuccessOf
  <2>8. QED
    BY <1>c, <2>6, <2>7
<1>2. ASSUME NEW w \in Workers, FinalizeCommits(w)
      PROVE  SuccessInv'
  <2>1. PICK t \in Tasks : t = worker[w].task
    BY <1>2, CommitHolder
  <2>2. /\ status[t] = "sending" /\ attemptCount[t] > 0
        /\ worker[w].token = attemptCount[t]
        /\ worker[w].outcome = "succeeded" <=> worker[w].row = "succeeded"
    BY <1>2, <2>1, CommitHolder DEF IInv, LeaseInv
  <2>3. worker[w].row = "succeeded" => attemptCount[t] \in accepted'[t]
    BY <1>2, <1>a, <2>1, <2>2 DEF FinalizeCommits, WithDlqItem, IInv, OutcomeInv
  <2>4. /\ status'[t] = worker[w].outcome /\ attemptCount' = attemptCount
        /\ \A u \in Tasks \ {t} : status'[u] = status[u]
    BY <1>2, <1>b, <2>1 DEF FinalizeCommits, WithDlqItem
  <2>5. \A n \in 1..Len(attempts[t]) : attempts[t][n] # "succeeded"
    BY <1>a, <2>2 DEF SuccessOf
  <2>6. /\ Len(attempts'[t]) = Len(attempts[t])
        /\ \A n \in 1..Len(attempts[t]) :
             attempts'[t][n] = IF n = attemptCount[t] THEN worker[w].row
                               ELSE attempts[t][n]
    BY <1>2, <2>1, CommitRows
  <2>7. attemptCount[t] \in 1..Len(attempts[t])
    BY <1>b, <2>2
  <2>8. SuccessOf(t)'
    BY <2>2, <2>3, <2>4, <2>5, <2>6, <2>7 DEF SuccessOf
  <2>9. ASSUME NEW u \in Tasks \ {t} PROVE SuccessOf(u)'
    BY <1>2, <1>a, <2>1, <2>4, CommitRows DEF SuccessOf
  <2>10. QED
    BY <1>c, <2>8, <2>9
<1>3. ASSUME NEW row \in expiredScan, RecoverLease(row)
      PROVE  SuccessInv'
  <2> DEFINE t == row.task
  <2>1. t \in Tasks /\ status[t] = "sending"
    BY <1>3, RecoverRows DEF RecoverLease, StillExpired, WithDlqItem
  <2>2. /\ status'[t] # "succeeded" /\ attemptCount' = attemptCount
        /\ \A u \in Tasks \ {t} : status'[u] = status[u]
    BY <1>3, <1>b, <2>1 DEF RecoverLease, StillExpired, WithDlqItem
  <2>3. SuccessOf(t)'
    BY <1>3, <1>a, <2>1, <2>2, RecoverRows DEF SuccessOf
  <2>4. ASSUME NEW u \in Tasks \ {t} PROVE SuccessOf(u)'
    BY <1>3, <1>a, <2>1, <2>2, RecoverRows DEF SuccessOf
  <2>5. QED
    BY <1>c, <2>3, <2>4
<1>4. ASSUME UNCHANGED <<status, attempts, attemptCount>>
      PROVE  SuccessInv'
  BY <1>4, <1>a, <1>c DEF SuccessOf
<1>5. ASSUME \/ \E w \in Workers : ExtendLease(w)
             \/ \E t \in Tasks : LeaseExpires(t)
             \/ UNCHANGED rowVars
      PROVE  UNCHANGED <<status, attempts, attemptCount>>
  BY <1>5 DEF ExtendLease, LeaseExpires, tableVars, rowVars
<1>6. QED
  BY <1>1, <1>2, <1>3, <1>4, <1>5, RowSteps DEF RowStep

\* When one task changes its status, one counter goes up and one down.
LEMMA CountMoves ==
  ASSUME status \in [Tasks -> Status], NEW t \in Tasks, NEW new \in Status,
         new # status[t], status' = [status EXCEPT ![t] = new],
         NEW c \in Status
  PROVE  /\ Cardinality(InStatus(c)) \in Nat
         /\ c = status[t] => Cardinality(InStatus(c)) > 0
         /\ Cardinality(InStatus(c)') =
              IF c = new THEN Cardinality(InStatus(c)) + 1
              ELSE IF c = status[t] THEN Cardinality(InStatus(c)) - 1
              ELSE Cardinality(InStatus(c))
<1> USE DEF InStatus
<1>1. IsFiniteSet(InStatus(c))
  BY DeliveryAssumption, FS_Subset
<1>2. Cardinality(InStatus(c)) \in Nat
  BY <1>1, FS_CardinalityType
<1>3. CASE c = new
  <2>1. InStatus(c)' = InStatus(c) \cup {t} /\ t \notin InStatus(c)
    BY <1>3
  <2>2. QED
    BY <1>1, <1>2, <1>3, <2>1, FS_AddElement
<1>4. CASE c = status[t]
  <2>1. InStatus(c)' = InStatus(c) \ {t} /\ t \in InStatus(c)
    BY <1>4
  <2>2. Cardinality(InStatus(c)') = Cardinality(InStatus(c)) - 1
    BY <1>1, <2>1, FS_RemoveElement
  <2>3. Cardinality(InStatus(c)) # 0
    BY <1>1, <2>1, FS_EmptySet
  <2>4. QED
    BY <1>2, <1>4, <2>2, <2>3
<1>5. CASE c # new /\ c # status[t]
  <2>1. InStatus(c)' = InStatus(c)
    BY <1>5
  <2>2. QED
    BY <1>2, <1>5, <2>1
<1>6. QED
  BY <1>3, <1>4, <1>5

\* StatsInv after a task went from one status to another and a counter went
\* with it, where "queued" stands for both statuses a lease starts from.
LEMMA StatsMove ==
  ASSUME TypeOK, StatsInv, NEW t \in Tasks, NEW from \in Status, NEW new \in Status,
         status' = [status EXCEPT ![t] = new],
         new # status[t],
         \/ from = status[t]
         \/ from = "queued" /\ status[t] = "retry_scheduled" /\ new = "sending",
         stats' = [stats EXCEPT ![from] = @ - 1, ![new] = @ + 1],
         from # new
  PROVE  StatsInv'
<1>1. /\ status \in [Tasks -> Status]
      /\ stats \in [Status -> Int]
  BY DEF TypeOK
<1>2. \A c \in Status :
        /\ Cardinality(InStatus(c)) \in Nat
        /\ Cardinality(InStatus(c)') =
             IF c = new THEN Cardinality(InStatus(c)) + 1
             ELSE IF c = status[t] THEN Cardinality(InStatus(c)) - 1
             ELSE Cardinality(InStatus(c))
  BY <1>1, CountMoves
<1>3. \A c \in Status :
        stats'[c] = IF c = from THEN stats[c] - 1
                    ELSE IF c = new THEN stats[c] + 1 ELSE stats[c]
  BY <1>1
<1>4. \A c \in Status \ Claimable :
        stats'[c] = Cardinality(InStatus(c)')
  BY <1>1, <1>2, <1>3 DEF StatsInv, Claimable
<1>5. stats'["queued"] + stats'["retry_scheduled"]
        = Cardinality(InStatus("queued")') + Cardinality(InStatus("retry_scheduled")')
  <2>1. /\ "queued" \in Status /\ "retry_scheduled" \in Status
        /\ "queued" # "retry_scheduled"
    BY DEF Status
  <2>2. stats["queued"] + stats["retry_scheduled"]
          = Cardinality(InStatus("queued")) + Cardinality(InStatus("retry_scheduled"))
    BY DEF StatsInv
  <2>3. status[t] \in Status
    BY <1>1
  <2>4. QED
    BY <1>1, <1>2, <1>3, <2>1, <2>2, <2>3
<1>6. QED
  BY <1>4, <1>5 DEF StatsInv, InStatus

LEMMA NextStats == IInv /\ [Next]_vars => StatsInv'
<1> SUFFICES ASSUME IInv, [Next]_vars
             PROVE  StatsInv'
  OBVIOUS
<1>a. TypeOK /\ StatsInv /\ status \in [Tasks -> Status] /\ stats \in [Status -> Int]
  BY DEF IInv, TypeOK
<1>1. ASSUME NEW w \in Workers, NEW t \in Tasks, AcquireLease(w, t)
      PROVE  StatsInv'
  <2>1. /\ status' = [status EXCEPT ![t] = "sending"]
        /\ status[t] \in {"queued", "retry_scheduled"}
        /\ stats' = [stats EXCEPT !["queued"] = @ - 1, !["sending"] = @ + 1]
    BY <1>1 DEF AcquireLease, AttemptNo, CanLease, Claimable, Move
  <2>2. "queued" \in Status /\ "sending" \in Status
    BY DEF Status
  <2>3. QED
    BY <1>a, <2>1, <2>2, StatsMove
<1>2. ASSUME NEW w \in Workers, FinalizeCommits(w)
      PROVE  StatsInv'
  <2>1. PICK t \in Tasks : t = worker[w].task
    BY <1>2, CommitHolder
  <2>2. /\ status[t] = "sending"
        /\ worker[w].outcome \in Outcomes
        /\ worker[w].outcome \in Status
        /\ worker[w].outcome # "sending"
        /\ "sending" \in Status
    BY <1>2, <2>1, CommitHolder DEF Outcomes, Terminal, Status
  <2>3. /\ status' = [status EXCEPT ![t] = worker[w].outcome]
        /\ stats' = [stats EXCEPT !["sending"] = @ - 1,
                                  ![worker[w].outcome] = @ + 1]
    BY <1>2, <2>1, <2>2 DEF FinalizeCommits, WithDlqItem, Move
  <2>4. QED
    BY <1>a, <2>2, <2>3, StatsMove
<1>3. ASSUME NEW row \in expiredScan, RecoverLease(row)
      PROVE  StatsInv'
  <2>1. PICK t \in Tasks : t = row.task
    BY <1>3, RecoverRows
  <2>2. PICK new \in {"dead_lettered", "retry_scheduled"} :
          new = IF row.no >= MaxAttempts THEN "dead_lettered"
                ELSE "retry_scheduled"
    OBVIOUS
  <2>3. /\ status[t] = "sending"
        /\ status' = [status EXCEPT ![t] = new]
        /\ stats' = [stats EXCEPT
              !["sending"] = IF @ > 0 THEN @ - 1 ELSE 0, ![new] = @ + 1]
    BY <1>3, <2>1, <2>2 DEF RecoverLease, StillExpired, WithDlqItem, MoveClamped
  <2>4. /\ new \in Status /\ new # "sending" /\ "sending" \in Status
        /\ "sending" \in Status \ Claimable
    BY DEF Status, Claimable
  <2>5. stats["sending"] > 0
    BY <1>a, <2>3, <2>4, CountMoves DEF StatsInv
  <2>6. stats' = [stats EXCEPT !["sending"] = @ - 1, ![new] = @ + 1]
    BY <2>3, <2>5
  <2>7. QED
    BY <1>a, <2>3, <2>4, <2>6, StatsMove
<1>4. ASSUME UNCHANGED <<status, stats>>
      PROVE  StatsInv'
  BY <1>4, <1>a DEF StatsInv, InStatus
<1>5. ASSUME \/ \E w \in Workers : ExtendLease(w)
             \/ \E t \in Tasks : LeaseExpires(t)
             \/ UNCHANGED rowVars
      PROVE  UNCHANGED <<status, stats>>
  BY <1>5 DEF ExtendLease, LeaseExpires, tableVars, rowVars
<1>6. QED
  BY <1>1, <1>2, <1>3, <1>4, <1>5, RowSteps DEF RowStep

-----------------------------------------------------------------------------
(* The theorems. *)

\* IInv holds in every reachable state: no interleaving of workers,
\* redeliveries, crashes, expiries and recovery leaves the rows inconsistent.
THEOREM Invariance == Spec => []IInv
<1>1. IInv /\ [Next]_vars => IInv'
  BY NextType, NextLease, NextAttempts, NextHolders, NextOutcome, NextSuccess,
     NextDlq, NextStats DEF IInv
<1>2. QED
  BY InitIInv, <1>1, PTL DEF Spec

\* Every variable keeps its type; attempt_no, tokens and counters included.
THEOREM TypeCorrect == Spec => []TypeOK
<1>1. IInv => TypeOK
  BY DEF IInv
<1>2. QED
  BY Invariance, <1>1, PTL

\* delivery_attempts is a faithful audit of the leases: one row per lease, and
\* only the newest row, of a task being sent, is open.
THEOREM AuditIsComplete == Spec => []AttemptsInv
<1>1. IInv => AttemptsInv
  BY DEF IInv
<1>2. QED
  BY Invariance, <1>1, PTL

\* No two workers hold the same lease, whatever each of them believes.
THEOREM LeasesAreExclusive == Spec => []HoldersInv
<1>1. IInv => HoldersInv
  BY DEF IInv
<1>2. QED
  BY Invariance, <1>1, PTL

\* A task is recorded as succeeded only by its newest attempt, at most once,
\* and only if the provider accepted that attempt.
THEOREM SuccessIsReal == Spec => []SuccessInv
<1>1. IInv => SuccessInv
  BY DEF IInv
<1>2. QED
  BY Invariance, <1>1, PTL

\* The dead letter queue holds the dead-lettered tasks and no other.
THEOREM DlqIsExact == Spec => []DlqInv
<1>1. IInv => DlqInv
  BY DEF IInv
<1>2. QED
  BY Invariance, <1>1, PTL

\* The statistics account for every task exactly once.
THEOREM StatsAreExact == Spec => []StatsInv
<1>1. IInv => StatsInv
  BY DEF IInv
<1>2. QED
  BY Invariance, <1>1, PTL

\* A settled task and a completed attempt row are final: redelivered messages,
\* late workers and stale recovery rows never touch them again.
THEOREM SettledIsFinal == Spec => SettledForever
<1> DEFINE Final ==
      \A t \in Tasks :
        /\ status[t] \in Terminal =>
             /\ status'[t] = status[t]
             /\ attemptCount'[t] = attemptCount[t]
        /\ \A n \in 1..Len(attempts[t]) :
             attempts[t][n] # "started" => attempts'[t][n] = attempts[t][n]
<1>1. ASSUME IInv, [Next]_vars
      PROVE  Final
  <2>a. /\ status \in [Tasks -> Status]
        /\ attemptCount \in [Tasks -> Nat]
        /\ \A u \in Tasks : status[u] = "sending" =>
             attemptCount[u] \in 1..Len(attempts[u])
             /\ attempts[u][attemptCount[u]] = "started"
    <3>1. \A u \in Tasks : status[u] = "sending" =>
            attemptCount[u] > 0 /\ Len(attempts[u]) = attemptCount[u]
            /\ attemptCount[u] \in Nat
      BY <1>1 DEF IInv, TypeOK, LeaseInv, AttemptsInv
    <3>2. \A u \in Tasks : \A n \in 1..Len(attempts[u]) :
            status[u] = "sending" /\ n = attemptCount[u] =>
              attempts[u][n] = "started"
      BY <1>1 DEF IInv, AttemptsInv
    <3>3. QED
      BY <1>1, <3>1, <3>2 DEF IInv, TypeOK
  <2>1. ASSUME NEW w \in Workers, NEW t \in Tasks, AcquireLease(w, t)
        PROVE  Final
    <3>1. /\ status[t] \notin Terminal
          /\ \A u \in Tasks \ {t} : /\ status'[u] = status[u]
                                    /\ attemptCount'[u] = attemptCount[u]
      BY <2>1, <2>a DEF AcquireLease, AttemptNo, CanLease, Claimable, Terminal
    <3>2. QED
      BY <1>1, <2>1, <3>1, AcquireRows
  <2>2. ASSUME NEW w \in Workers, FinalizeCommits(w)
        PROVE  Final
    <3>1. PICK t \in Tasks : t = worker[w].task
      BY <1>1, <2>2, CommitHolder
    <3>2. /\ status[t] = "sending" /\ status[t] \notin Terminal
          /\ attemptCount' = attemptCount
          /\ \A u \in Tasks \ {t} : status'[u] = status[u]
      BY <1>1, <2>2, <2>a, <3>1, CommitHolder DEF FinalizeCommits, WithDlqItem, Terminal
    <3>3. QED
      BY <1>1, <2>2, <2>a, <3>1, <3>2, CommitRows
  <2>3. ASSUME NEW row \in expiredScan, RecoverLease(row)
        PROVE  Final
    <3>1. PICK t \in Tasks : t = row.task
      BY <1>1, <2>3, RecoverRows
    <3>2. /\ status[t] = "sending" /\ status[t] \notin Terminal
          /\ attemptCount' = attemptCount
          /\ \A u \in Tasks \ {t} : status'[u] = status[u]
      BY <2>3, <2>a, <3>1 DEF RecoverLease, StillExpired, WithDlqItem, Terminal
    <3>3. QED
      BY <1>1, <2>3, <2>a, <3>1, <3>2, RecoverRows
  <2>4. ASSUME \/ \E w \in Workers : ExtendLease(w)
               \/ \E t \in Tasks : LeaseExpires(t)
               \/ UNCHANGED rowVars
        PROVE  Final
    BY <2>4 DEF ExtendLease, LeaseExpires, tableVars, rowVars
  <2>5. QED
    BY <1>1, <2>1, <2>2, <2>3, <2>4, RowSteps DEF RowStep
<1> HIDE DEF Final
<1>2. IInv /\ [Next]_vars => [Final]_vars
  BY <1>1
<1>3. Spec => [][Final]_vars
  BY Invariance, <1>2, PTL DEF Spec
<1>4. QED
  BY <1>3 DEF Final, SettledForever

\* Until its lease expires, a task being sent is ended only by the worker that
\* holds the lease, with the outcome of its own provider call.
THEOREM LeaseProtects == Spec => LiveLeaseRespected
<1> DEFINE Protected ==
      \A t \in Tasks :
        status[t] = "sending" /\ lease[t] = "live" /\ status'[t] # "sending" =>
          \E w \in Workers :
            /\ worker[w].pc = "finalizing"
            /\ worker[w].task = t
            /\ worker[w].token = attemptCount[t]
            /\ status'[t] = worker[w].outcome
<1>1. ASSUME IInv, [Next]_vars
      PROVE  Protected
  <2>a. status \in [Tasks -> Status]
    BY <1>1 DEF IInv, TypeOK
  <2>1. ASSUME NEW w \in Workers, NEW u \in Tasks, AcquireLease(w, u)
        PROVE  Protected
    BY <2>1, <2>a DEF AcquireLease, AttemptNo
  <2>2. ASSUME NEW v \in Workers, FinalizeCommits(v)
        PROVE  Protected
    <3>1. PICK u \in Tasks : u = worker[v].task
      BY <1>1, <2>2, CommitHolder
    <3>2. worker[v].token = attemptCount[u]
      BY <1>1, <2>2, <3>1, CommitHolder
    <3>3. /\ worker[v].pc = "finalizing"
          /\ status' = [status EXCEPT ![u] = worker[v].outcome]
      BY <2>2, <3>1 DEF FinalizeCommits, WithDlqItem
    <3>4. QED
      BY <2>a, <3>1, <3>2, <3>3
  <2>3. ASSUME NEW row \in expiredScan, RecoverLease(row)
        PROVE  Protected
    BY <2>3, <2>a DEF RecoverLease, StillExpired, WithDlqItem
  <2>4. ASSUME \/ \E w \in Workers : ExtendLease(w)
               \/ \E t \in Tasks : LeaseExpires(t)
               \/ UNCHANGED rowVars
        PROVE  Protected
    BY <2>4 DEF ExtendLease, LeaseExpires, rowVars
  <2>5. QED
    BY <1>1, <2>1, <2>2, <2>3, <2>4, RowSteps DEF RowStep
<1> HIDE DEF Protected
<1>2. IInv /\ [Next]_vars => [Protected]_vars
  BY <1>1
<1>3. Spec => [][Protected]_vars
  BY Invariance, <1>2, PTL DEF Spec
<1>4. QED
  BY <1>3 DEF Protected, LiveLeaseRespected

-----------------------------------------------------------------------------
(* The delivery core implements the ledger of TaskLedger.                  *)

phase == [t \in Tasks |-> Phase(t)]

\* The steps that leave the ledger alone.
LEMMA LedgerStutter ==
  ASSUME UNCHANGED <<status, attemptCount, accepted>>
  PROVE  UNCHANGED Ledger!vars
<1>1. phase' = phase
  BY DEF phase, Phase
<1>2. QED
  BY <1>1 DEF Ledger!vars, phase

LEMMA LedgerInit == Init => Ledger!Init
BY DEF Init, Ledger!Init, Phase, Claimable

\* A change of one task's status is a change of its phase only.
LEMMA PhaseMoves ==
  ASSUME status \in [Tasks -> Status], NEW t \in Tasks, NEW new \in Status,
         status' = [status EXCEPT ![t] = new]
  PROVE  phase' = [phase EXCEPT ![t] =
                     IF new \in Claimable THEN "waiting"
                     ELSE IF new = "sending" THEN "leased" ELSE new]
BY DEF phase, Phase

LEMMA LedgerStep ==
  ASSUME IInv, [Next]_vars
  PROVE  Ledger!Next \/ UNCHANGED Ledger!vars
<1>a. /\ status \in [Tasks -> Status]
      /\ attemptCount \in [Tasks -> Nat]
      /\ accepted \in [Tasks -> SUBSET Nat]
  BY DEF IInv, TypeOK
<1>1. ASSUME NEW w \in Workers, NEW t \in Tasks, AcquireLease(w, t)
      PROVE  Ledger!Next
  <2>1. phase' = [phase EXCEPT ![t] = "leased"]
    BY <1>1, <1>a, PhaseMoves DEF AcquireLease, Claimable, Status
  <2>2. phase[t] = "waiting"
    BY <1>1 DEF AcquireLease, CanLease, phase, Phase
  <2>3. attemptCount' = [attemptCount EXCEPT ![t] = @ + 1] /\ accepted' = accepted
    BY <1>1 DEF AcquireLease, AttemptNo
  <2>4. Ledger!Grant(t)
    BY <2>1, <2>2, <2>3 DEF Ledger!Grant, phase
  <2>5. QED
    BY <2>4 DEF Ledger!Next
<1>2. ASSUME NEW w \in Workers, FinalizeCommits(w)
      PROVE  Ledger!Next
  <2>1. PICK t \in Tasks : t = worker[w].task
    BY <1>2, CommitHolder
  <2>2. /\ status[t] = "sending" /\ worker[w].token = attemptCount[t]
        /\ worker[w].outcome \in Outcomes
        /\ worker[w].outcome = "succeeded" => attemptCount[t] \in accepted[t]
    BY <1>2, <2>1, CommitHolder DEF IInv, OutcomeInv, FinalizeCommits
  <2>3. phase[t] = "leased"
    BY <2>2 DEF phase, Phase, Claimable
  <2>4. /\ status' = [status EXCEPT ![t] = worker[w].outcome]
        /\ UNCHANGED <<attemptCount, accepted>>
    BY <1>2, <2>1 DEF FinalizeCommits
  <2>5. CASE worker[w].outcome = "retry_scheduled"
    <3>1. phase' = [phase EXCEPT ![t] = "waiting"]
      BY <1>a, <2>4, <2>5, PhaseMoves DEF Claimable, Status
    <3>2. Ledger!Release(t)
      BY <2>3, <2>4, <3>1 DEF Ledger!Release, phase
    <3>3. QED
      BY <3>2 DEF Ledger!Next
  <2>6. CASE worker[w].outcome \in Terminal
    <3>1. phase' = [phase EXCEPT ![t] = worker[w].outcome]
      BY <1>a, <2>4, <2>6, PhaseMoves DEF Claimable, Status, Terminal
    <3>2. Ledger!Settle(t, worker[w].outcome)
      BY <2>2, <2>3, <2>4, <3>1 DEF Ledger!Settle, phase
    <3>3. worker[w].outcome \in Ledger!Verdict
      BY <2>6 DEF Terminal, Ledger!Verdict
    <3>4. QED
      BY <3>2, <3>3 DEF Ledger!Next
  <2>7. QED
    BY <2>2, <2>5, <2>6 DEF Outcomes
<1>3. ASSUME NEW row \in expiredScan, RecoverLease(row)
      PROVE  Ledger!Next
  <2>1. PICK t \in Tasks : t = row.task
    BY <1>3, RecoverRows
  <2>2. phase[t] = "leased"
    BY <1>3, <2>1 DEF RecoverLease, StillExpired, phase, Phase, Claimable
  <2>3. UNCHANGED <<attemptCount, accepted>>
    BY <1>3 DEF RecoverLease
  <2>4. CASE row.no >= MaxAttempts
    <3>1. status' = [status EXCEPT ![t] = "dead_lettered"]
      BY <1>3, <2>1, <2>4 DEF RecoverLease
    <3>2. phase' = [phase EXCEPT ![t] = "dead_lettered"]
      BY <1>a, <3>1, PhaseMoves DEF Claimable, Status
    <3>3. Ledger!Settle(t, "dead_lettered")
      BY <2>2, <2>3, <3>2 DEF Ledger!Settle, phase
    <3>4. QED
      BY <3>3 DEF Ledger!Next, Ledger!Verdict
  <2>5. CASE ~(row.no >= MaxAttempts)
    <3>1. status' = [status EXCEPT ![t] = "retry_scheduled"]
      BY <1>3, <2>1, <2>5 DEF RecoverLease
    <3>2. phase' = [phase EXCEPT ![t] = "waiting"]
      BY <1>a, <3>1, PhaseMoves DEF Claimable, Status
    <3>3. Ledger!Release(t)
      BY <2>2, <2>3, <3>2 DEF Ledger!Release, phase
    <3>4. QED
      BY <3>3 DEF Ledger!Next
  <2>6. QED
    BY <2>4, <2>5
<1>4. ASSUME NEW w \in Workers, ProviderAccepts(w)
      PROVE  Ledger!Next
  <2>1. /\ worker[w].task \in Tasks
        /\ worker[w].token \in 1..attemptCount[worker[w].task]
    BY <1>4 DEF ProviderAccepts, IInv, HoldersInv, Holding
  <2>2. phase' = phase
    BY <1>4 DEF ProviderAccepts, taskVars, phase, Phase
  <2>3. Ledger!Deliver(worker[w].task, worker[w].token)
    BY <1>4, <2>2 DEF Ledger!Deliver, ProviderAccepts, taskVars, phase
  <2>4. QED
    BY <2>1, <2>3 DEF Ledger!Next
<1>5. ASSUME UNCHANGED rowVars
      PROVE  (\E w \in Workers : ProviderAccepts(w)) \/ UNCHANGED accepted
  <2>1. ASSUME NEW w \in Workers, WorkerNext(w), ~ProviderAccepts(w)
        PROVE  UNCHANGED accepted
    BY <2>1 DEF WorkerNext, AcquireLease, SkipMessage, NackMessage,
       ExtendLease, ProviderReturns, CheckCancellation, FinalizeCommits,
       FinalizeRejected, Ack, NackResult, LoseConnection, Crash
  <2>2. QED
    BY <2>1, WorkersOnly
<1>6. ASSUME \/ \E w \in Workers : ExtendLease(w)
             \/ \E t \in Tasks : LeaseExpires(t)
      PROVE  UNCHANGED <<status, attemptCount, accepted>>
  BY <1>6 DEF ExtendLease, LeaseExpires
<1>7. QED
  BY <1>1, <1>2, <1>3, <1>4, <1>5, <1>6, RowSteps, LedgerStutter
     DEF RowStep, rowVars

\* Leases, results, redeliveries, crashes and recovery refine a ledger in which
\* each task is leased to one attempt at a time and settled once.
THEOREM ImplementsLedger == Spec => LedgerSpec
<1>1. IInv /\ [Next]_vars => [Ledger!Next]_(Ledger!vars)
  BY LedgerStep
<1>2. QED
  BY Invariance, LedgerInit, <1>1, PTL DEF Spec, LedgerSpec, Ledger!Spec

=============================================================================
