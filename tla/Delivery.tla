------------------------------ MODULE Delivery ------------------------------
(***************************************************************************)
(* The delivery core of the notification service: the Go delivery workers  *)
(* (src/delivery), the two background jobs of the recover service that     *)
(* repair their failures (src/recover: lease recovery, retry scanner), the *)
(* PostgreSQL rows they share, and the RabbitMQ queue between them.        *)
(*                                                                         *)
(* One campaign, whose tasks have just been inserted by the fan-out worker *)
(* in one transaction: every task is queued and owns a DeliveryTaskCreated *)
(* outbox row.                                                             *)
(*                                                                         *)
(* Every action below is one database transaction, or one message          *)
(* operation, or one provider reply.  Between two actions of a worker      *)
(* anything may happen: that is where the hazards are.                     *)
(*                                                                         *)
(* Time is abstracted to what the code asks of it: whether available_at is *)
(* past (available) and whether lease_until is past (lease).  A lease      *)
(* token is gen_random_uuid(), a value never used before; each acquisition *)
(* also increments attempt_count in the same UPDATE, so the attempt number *)
(* stands for the token.                                                   *)
(***************************************************************************)
EXTENDS Integers, Sequences, FiniteSets

CONSTANTS
  Tasks,        \* the delivery_tasks of the campaign
  Workers,      \* the goroutines that handle one message at a time
  NoTask,       \* the task of an idle worker
  MaxAttempts,  \* max_attempts of every task
  MaxCopies,    \* bound: copies of a task's message waiting in RabbitMQ
  MaxCrashes,   \* bound: crashes, lost connections, repeated publications
  MaxDbErrors   \* bound: transactions that fail, or are cancelled by a shutdown

ASSUME DeliveryAssumption ==
  /\ IsFiniteSet(Tasks)
  /\ NoTask \notin Tasks
  /\ MaxAttempts \in Nat \ {0}
  /\ MaxCopies \in Nat
  /\ MaxCrashes \in Nat
  /\ MaxDbErrors \in Nat

VARIABLES
  status,       \* delivery_tasks.status
  token,        \* delivery_tasks.lease_token; 0 is NULL
  lease,        \* delivery_tasks.lease_until: NULL, in the future or past
  available,    \* delivery_tasks.available_at <= NOW()
  attemptCount, \* delivery_tasks.attempt_count
  attempts,     \* delivery_attempts: the status of row attempt_no
  dlq,          \* the tasks with an open dlq_items row
  stats,        \* the campaign_stats row
  campaign,     \* campaigns.status
  outbox,       \* unpublished outbox_events rows that signal a task
  mq,           \* messages waiting in the delivery queues, per task
  worker,       \* what each worker goroutine holds in memory
  accepted,     \* the attempts the provider accepted (sent to the user)
  expiredScan,  \* rows read by fetch_expired_leases, not yet handled
  retryScan,    \* rows read by fetch_retry_ready, not yet handled
  crashes,      \* crashes, lost connections and repeated publications so far
  dbErrors      \* failed transactions so far

taskVars == <<status, token, lease, available, attemptCount>>
tableVars == <<attempts, dlq, stats>>
scanVars == <<expiredScan, retryScan>>
faultVars == <<crashes, dbErrors>>
vars == <<taskVars, tableVars, campaign, outbox, mq, worker, accepted,
          scanVars, faultVars>>

(***************************************************************************)
(* Values.  "failed" is a legal task status that no code path assigns.     *)
(***************************************************************************)
Status == {"queued", "sending", "retry_scheduled", "succeeded",
           "dead_lettered", "cancelled"}
Claimable == {"queued", "retry_scheduled"}
Terminal == {"succeeded", "dead_lettered", "cancelled"}
Lease == {"none", "live", "expired"}
AttemptStatus == {"started", "succeeded", "failed", "timed_out", "stale"}
CampaignStatus == {"running", "cancelling", "cancelled", "completed",
                   "failed", "partially_failed"}
Outcomes == Terminal \cup {"retry_scheduled"}
Replies == {"ok", "permanent", "transient", "timeout"}

\* The three dedupe keys a delivery signal is inserted under.
Created(t) == [kind |-> "delivery_task_created", task |-> t, no |-> 0]
LeaseRetry(t, n) == [kind |-> "lease_recovery_retry", task |-> t, no |-> n]
Repush(t, n) == [kind |-> "retry_repush", task |-> t, no |-> n]
OutboxRow ==
  [kind : {"delivery_task_created", "lease_recovery_retry", "retry_repush"},
   task : Tasks, no : Nat]

ScanRow == [task : Tasks, no : Nat]

\* pc: idle -> sending (provider call) -> decided (a retry, before the
\* campaign is looked at) -> finalizing -> acking -> idle.
Idle == [pc |-> "idle", task |-> NoTask, token |-> 0, outcome |-> "none",
         row |-> "none", unacked |-> FALSE]
Worker ==
  [pc : {"idle", "sending", "decided", "finalizing", "acking"},
   task : Tasks \cup {NoTask}, token : Nat,
   outcome : Outcomes \cup {"none"}, row : AttemptStatus \cup {"none"},
   unacked : BOOLEAN]

\* The delivery is over, its message is not acked yet.
Acking(w) == [Idle EXCEPT !.pc = "acking", !.task = worker[w].task,
                          !.unacked = worker[w].unacked]

Holding(w) == worker[w].pc \in {"sending", "decided", "finalizing"}

\* campaign_stats: one counter moved from a column to another.
Move(from, to) ==
  IF from = to THEN stats
  ELSE [stats EXCEPT ![from] = @ - 1, ![to] = @ + 1]

-----------------------------------------------------------------------------
(* Faulty variants of definitions below, one for each property: what the   *)
(* properties would catch.  No specification uses them.                    *)

Faulty_CanLease_AnyStatus(t) == available[t] /\ lease[t] # "live"
Faulty_CanLease_QueuedOnly(t) == status[t] = "queued" /\ available[t]
Faulty_AttemptNo_Reused(t) ==
  IF attemptCount[t] = 0 THEN 1 ELSE attemptCount[t]
Faulty_MarkStale_EveryTask(t) ==
  attempts' = [u \in Tasks |-> [n \in DOMAIN attempts[u] |->
    IF attempts[u][n] = "started" THEN "stale" ELSE attempts[u][n]]]
Faulty_StillExpired_StatusOnly(t) == status[t] = "sending"
Faulty_MoveClamped_Forgotten(from, to) == stats
Faulty_WithDlqItem_Forgotten(t, new) == dlq
Faulty_Abandoned_NotExhausted ==
  {t \in Tasks : /\ status[t] = "sending"
                 /\ lease[t] = "expired"
                 /\ attemptCount[t] < MaxAttempts}

\* The same move by the recover service: GREATEST(from - 1, 0).
MoveClamped(from, to) ==
  [stats EXCEPT ![from] = IF @ > 0 THEN @ - 1 ELSE 0, ![to] = @ + 1]

\* insertDLQItem and _INSERT_DLQ_ITEM_SQL, in the transaction that gives up.
WithDlqItem(t, new) == IF new = "dead_lettered" THEN dlq \cup {t} ELSE dlq

-----------------------------------------------------------------------------
(* What fan-out commits for the campaign. *)
Init ==
  /\ status = [t \in Tasks |-> "queued"]
  /\ token = [t \in Tasks |-> 0]
  /\ lease = [t \in Tasks |-> "none"]
  /\ available = [t \in Tasks |-> TRUE]
  /\ attemptCount = [t \in Tasks |-> 0]
  /\ attempts = [t \in Tasks |-> <<>>]
  /\ dlq = {}
  /\ stats = [c \in Status |-> IF c = "queued" THEN Cardinality(Tasks) ELSE 0]
  /\ campaign = "running"
  /\ outbox = {Created(t) : t \in Tasks}
  /\ mq = [t \in Tasks |-> 0]
  /\ worker = [w \in Workers |-> Idle]
  /\ accepted = [t \in Tasks |-> {}]
  /\ expiredScan = {}
  /\ retryScan = {}
  /\ crashes = 0
  /\ dbErrors = 0

-----------------------------------------------------------------------------
(* The delivery worker. *)

\* The WHERE clause of acquireLeaseOnTask.
CanLease(t) ==
  /\ status[t] \in Claimable
  /\ available[t]
  /\ lease[t] # "live"

\* attempt_count + 1, RETURNING.
AttemptNo(t) == attemptCount[t] + 1

\* Process, up to the committed lease transaction: the task row, the started
\* attempt and the counters change together.
AcquireLease(w, t) ==
  /\ worker[w].pc = "idle"
  /\ mq[t] > 0
  /\ CanLease(t)
  /\ mq' = [mq EXCEPT ![t] = @ - 1]
  /\ status' = [status EXCEPT ![t] = "sending"]
  /\ attemptCount' = [attemptCount EXCEPT ![t] = AttemptNo(t)]
  /\ token' = [token EXCEPT ![t] = AttemptNo(t)]
  /\ lease' = [lease EXCEPT ![t] = "live"]
  /\ attempts' = [attempts EXCEPT ![t] = Append(@, "started")]
  /\ stats' = Move("queued", "sending")
  /\ worker' = [worker EXCEPT ![w] =
        [Idle EXCEPT !.pc = "sending", !.task = t,
                     !.token = AttemptNo(t),
                     !.unacked = TRUE]]
  /\ UNCHANGED <<available, dlq, campaign, outbox, accepted, scanVars,
                 faultVars>>

\* ErrAlreadyLeased, ErrNotAvailable: the message is acked and is gone.
SkipMessage(w, t) ==
  /\ worker[w].pc = "idle"
  /\ mq[t] > 0
  /\ ~CanLease(t)
  /\ mq' = [mq EXCEPT ![t] = @ - 1]
  /\ UNCHANGED <<taskVars, tableVars, campaign, outbox, worker, accepted,
                 scanVars, faultVars>>

\* The lease transaction fails, on a database error or because the worker is
\* being shut down and its context is cancelled: Nack without requeue moves
\* the message to the dead queue, which nothing consumes.
NackMessage(w, t) ==
  /\ worker[w].pc = "idle"
  /\ mq[t] > 0
  /\ dbErrors < MaxDbErrors
  /\ dbErrors' = dbErrors + 1
  /\ mq' = [mq EXCEPT ![t] = @ - 1]
  /\ UNCHANGED <<taskVars, tableVars, campaign, outbox, worker, accepted,
                 scanVars, crashes>>

\* A heartbeat tick while the provider call runs: ExtendLease finds its token
\* and the lease is live again, even when it had already expired.  A tick
\* that finds another token or fails ends the heartbeat goroutine and changes
\* nothing else: it is the behaviour in which this action is not taken again.
ExtendLease(w) ==
  LET t == worker[w].task IN
  /\ worker[w].pc = "sending"
  /\ token[t] = worker[w].token
  /\ lease' = [lease EXCEPT ![t] = "live"]
  /\ UNCHANGED <<status, token, available, attemptCount, tableVars, campaign,
                 outbox, mq, worker, accepted, scanVars, faultVars>>

\* External: the provider hands the notification to the recipient.
ProviderAccepts(w) ==
  /\ worker[w].pc = "sending"
  /\ accepted' = [accepted EXCEPT ![worker[w].task] =
                    @ \cup {worker[w].token}]
  /\ UNCHANGED <<taskVars, tableVars, campaign, outbox, mq, worker,
                 scanVars, faultVars>>

\* What adapter.Send may return: 200 only when the provider accepted, 400
\* only when it did not, any other failure in both cases.
ReplyPossible(w, reply) ==
  LET sent == worker[w].token \in accepted[worker[w].task] IN
  /\ reply = "ok" => sent
  /\ reply = "permanent" => ~sent

\* buildFinalizeParams: the task's next status and the attempt's.
TaskOutcome(reply, no) ==
  IF reply = "ok" THEN "succeeded"
  ELSE IF reply = "permanent" \/ no >= MaxAttempts THEN "dead_lettered"
  ELSE "retry_scheduled"
AttemptOutcome(reply) ==
  IF reply = "ok" THEN "succeeded"
  ELSE IF reply = "timeout" THEN "timed_out"
  ELSE "failed"

\* Send returns, the heartbeat is stopped and waited for, the outcome chosen.
ProviderReturns(w, reply) ==
  LET outcome == TaskOutcome(reply, worker[w].token) IN
  /\ worker[w].pc = "sending"
  /\ ReplyPossible(w, reply)
  /\ worker' = [worker EXCEPT
        ![w].pc = IF outcome = "retry_scheduled" THEN "decided"
                  ELSE "finalizing",
        ![w].outcome = outcome,
        ![w].row = AttemptOutcome(reply)]
  /\ UNCHANGED <<taskVars, tableVars, campaign, outbox, mq, accepted,
                 scanVars, faultVars>>

\* IsCampaignCancellationRequested: read before Finalize's transaction.
CheckCancellation(w) ==
  /\ worker[w].pc = "decided"
  /\ worker' = [worker EXCEPT
        ![w].pc = "finalizing",
        ![w].outcome = IF campaign \in {"cancelling", "cancelled"}
                       THEN "cancelled" ELSE "retry_scheduled"]
  /\ UNCHANGED <<taskVars, tableVars, campaign, outbox, mq, accepted,
                 scanVars, faultVars>>

\* Finalize, when the CAS on lease_token finds the worker's token.
FinalizeCommits(w) ==
  LET t == worker[w].task
      new == worker[w].outcome
  IN
  /\ worker[w].pc = "finalizing"
  /\ token[t] = worker[w].token
  /\ status' = [status EXCEPT ![t] = new]
  /\ token' = [token EXCEPT ![t] = 0]
  /\ lease' = [lease EXCEPT ![t] = "none"]
  /\ available' = [available EXCEPT ![t] =
                     IF new = "retry_scheduled" THEN FALSE ELSE @]
  /\ attempts' = [attempts EXCEPT ![t][worker[w].token] = worker[w].row]
  /\ stats' = Move("sending", new)
  /\ dlq' = WithDlqItem(t, new)
  /\ worker' = [worker EXCEPT ![w] = Acking(w)]
  /\ UNCHANGED <<attemptCount, campaign, outbox, mq, accepted, scanVars,
                 faultVars>>

\* ErrLeaseExpired: recovery reclaimed the task, the result is dropped.
FinalizeRejected(w) ==
  /\ worker[w].pc = "finalizing"
  /\ token[worker[w].task] # worker[w].token
  /\ worker' = [worker EXCEPT ![w] = Acking(w)]
  /\ UNCHANGED <<taskVars, tableVars, campaign, outbox, mq, accepted,
                 scanVars, faultVars>>

Ack(w) ==
  /\ worker[w].pc = "acking"
  /\ worker' = [worker EXCEPT ![w] = Idle]
  /\ UNCHANGED <<taskVars, tableVars, campaign, outbox, mq, accepted,
                 scanVars, faultVars>>

\* The campaign lookup or Finalize fails, on a database error or because the
\* worker is being shut down: Nack without requeue, and the task keeps its
\* lease until it expires.
NackResult(w) ==
  /\ worker[w].pc \in {"decided", "finalizing"}
  /\ dbErrors < MaxDbErrors
  /\ dbErrors' = dbErrors + 1
  /\ worker' = [worker EXCEPT ![w] = Idle]
  /\ UNCHANGED <<taskVars, tableVars, campaign, outbox, mq, accepted,
                 scanVars, crashes>>

\* The broker requeues what a closed channel had not acked.
Requeue(w) ==
  mq' = [mq EXCEPT ![worker[w].task] = IF worker[w].unacked THEN @ + 1 ELSE @]

\* The connection is lost; the goroutine goes on with its delivery.
LoseConnection(w) ==
  /\ worker[w].pc # "idle"
  /\ worker[w].unacked
  /\ crashes < MaxCrashes
  /\ crashes' = crashes + 1
  /\ Requeue(w)
  /\ worker' = [worker EXCEPT ![w].unacked = FALSE]
  /\ UNCHANGED <<taskVars, tableVars, campaign, outbox, accepted, scanVars,
                 dbErrors>>

\* The process dies, wherever it is, and is restarted.
Crash(w) ==
  /\ worker[w].pc # "idle"
  /\ crashes < MaxCrashes
  /\ crashes' = crashes + 1
  /\ Requeue(w)
  /\ worker' = [worker EXCEPT ![w] = Idle]
  /\ UNCHANGED <<taskVars, tableVars, campaign, outbox, accepted, scanVars,
                 dbErrors>>

-----------------------------------------------------------------------------
(* Time. *)

LeaseExpires(t) ==
  /\ lease[t] = "live"
  /\ lease' = [lease EXCEPT ![t] = "expired"]
  /\ UNCHANGED <<status, token, available, attemptCount, tableVars, campaign,
                 outbox, mq, worker, accepted, scanVars, faultVars>>

BecomesAvailable(t) ==
  /\ ~available[t]
  /\ available' = [available EXCEPT ![t] = TRUE]
  /\ UNCHANGED <<status, token, lease, attemptCount, tableVars, campaign,
                 outbox, mq, worker, accepted, scanVars, faultVars>>

-----------------------------------------------------------------------------
(* The recover service: lease recovery and the retry scanner.  A tick of a *)
(* job reads its rows in one transaction and acts on each of them in a     *)
(* transaction of its own; the next tick waits for all of them.            *)

ScanOf(rows) == {[task |-> t, no |-> attemptCount[t]] : t \in rows}

\* The WHERE clause of fetch_expired_leases.
Abandoned == {t \in Tasks : status[t] = "sending" /\ lease[t] = "expired"}

FetchExpired ==
  /\ expiredScan = {}
  /\ Abandoned # {}
  /\ expiredScan' = ScanOf(Abandoned)
  /\ UNCHANGED <<taskVars, tableVars, campaign, outbox, mq, worker, accepted,
                 retryScan, faultVars>>

\* _MARK_ATTEMPT_STALE_SQL: every started attempt of the task.
MarkStale(t) ==
  attempts' = [attempts EXCEPT ![t] =
    [n \in DOMAIN @ |-> IF @[n] = "started" THEN "stale" ELSE @[n]]]

\* The UPDATEs' WHERE clause: it re-reads the status and the lease, but not
\* the attempt number the decision was made on.
StillExpired(t) == status[t] = "sending" /\ lease[t] = "expired"

\* recover_expired_lease on a row as it was read.
RecoverLease(row) ==
  LET t == row.task
      new == IF row.no >= MaxAttempts THEN "dead_lettered"
             ELSE "retry_scheduled"
  IN
  /\ row \in expiredScan
  /\ StillExpired(t)
  /\ expiredScan' = expiredScan \ {row}
  /\ status' = [status EXCEPT ![t] = new]
  /\ token' = [token EXCEPT ![t] = 0]
  /\ lease' = [lease EXCEPT ![t] = "none"]
  /\ available' = [available EXCEPT ![t] =
                     IF new = "retry_scheduled" THEN FALSE ELSE @]
  /\ MarkStale(t)
  /\ stats' = MoveClamped("sending", new)
  /\ dlq' = WithDlqItem(t, new)
  /\ outbox' = IF new = "retry_scheduled"
               THEN outbox \cup {LeaseRetry(t, row.no)} ELSE outbox
  /\ UNCHANGED <<attemptCount, campaign, mq, worker, accepted, retryScan,
                 faultVars>>

\* LeaseRecoveryOutcome.SKIPPED: zero rows updated.
SkipRecovery(row) ==
  /\ row \in expiredScan
  /\ ~StillExpired(row.task)
  /\ expiredScan' = expiredScan \ {row}
  /\ UNCHANGED <<taskVars, tableVars, campaign, outbox, mq, worker, accepted,
                 retryScan, faultVars>>

\* The WHERE clause of fetch_retry_ready: due, and no signal is on its way.
RetryReady ==
  {t \in Tasks :
     /\ status[t] = "retry_scheduled"
     /\ available[t]
     /\ LeaseRetry(t, attemptCount[t]) \notin outbox
     /\ Repush(t, attemptCount[t]) \notin outbox}

FetchRetryReady ==
  /\ retryScan = {}
  /\ RetryReady # {}
  /\ retryScan' = ScanOf(RetryReady)
  /\ UNCHANGED <<taskVars, tableVars, campaign, outbox, mq, worker, accepted,
                 expiredScan, faultVars>>

\* enqueue_retry_repush: INSERT ... ON CONFLICT DO NOTHING.
EnqueueRepush(row) ==
  /\ row \in retryScan
  /\ retryScan' = retryScan \ {row}
  /\ outbox' = outbox \cup {Repush(row.task, row.no)}
  /\ UNCHANGED <<taskVars, tableVars, campaign, mq, worker, accepted,
                 expiredScan, faultVars>>

\* A row's transaction fails: it is logged and left to a later tick.
RecoverRowFails(row) ==
  /\ row \in expiredScan \cup retryScan
  /\ dbErrors < MaxDbErrors
  /\ dbErrors' = dbErrors + 1
  /\ expiredScan' = expiredScan \ {row}
  /\ retryScan' = retryScan \ {row}
  /\ UNCHANGED <<taskVars, tableVars, campaign, outbox, mq, worker, accepted,
                 crashes>>

\* The recover service dies between two transactions and is restarted.
RecoverCrash ==
  /\ expiredScan \cup retryScan # {}
  /\ crashes < MaxCrashes
  /\ crashes' = crashes + 1
  /\ expiredScan' = {}
  /\ retryScan' = {}
  /\ UNCHANGED <<taskVars, tableVars, campaign, outbox, mq, worker, accepted,
                 dbErrors>>

-----------------------------------------------------------------------------
(* The publisher: a row reaches the queue and is deleted.  When it dies or *)
(* times out between the two, the row is published again.                  *)

Publish(row) ==
  /\ row \in outbox
  /\ mq[row.task] < MaxCopies
  /\ mq' = [mq EXCEPT ![row.task] = @ + 1]
  /\ outbox' = outbox \ {row}
  /\ UNCHANGED <<taskVars, tableVars, campaign, worker, accepted, scanVars,
                 faultVars>>

PublishNotDeleted(row) ==
  /\ row \in outbox
  /\ mq[row.task] < MaxCopies
  /\ crashes < MaxCrashes
  /\ crashes' = crashes + 1
  /\ mq' = [mq EXCEPT ![row.task] = @ + 1]
  /\ UNCHANGED <<taskVars, tableVars, campaign, outbox, worker, accepted,
                 scanVars, dbErrors>>

\* POST /campaigns/{id}/cancel.
RequestCancel ==
  /\ campaign = "running"
  /\ campaign' = "cancelling"
  /\ UNCHANGED <<taskVars, tableVars, outbox, mq, worker, accepted, scanVars,
                 faultVars>>

-----------------------------------------------------------------------------
WorkerNext(w) ==
  \/ \E t \in Tasks : AcquireLease(w, t)
  \/ \E t \in Tasks : SkipMessage(w, t)
  \/ \E t \in Tasks : NackMessage(w, t)
  \/ ExtendLease(w)
  \/ ProviderAccepts(w)
  \/ \E reply \in Replies : ProviderReturns(w, reply)
  \/ CheckCancellation(w)
  \/ FinalizeCommits(w)
  \/ FinalizeRejected(w)
  \/ Ack(w)
  \/ NackResult(w)
  \/ LoseConnection(w)
  \/ Crash(w)

TaskNext(t) ==
  \/ LeaseExpires(t)
  \/ BecomesAvailable(t)

RecoverNext ==
  \/ FetchExpired
  \/ \E row \in expiredScan : RecoverLease(row)
  \/ \E row \in expiredScan : SkipRecovery(row)
  \/ FetchRetryReady
  \/ \E row \in retryScan : EnqueueRepush(row)
  \/ \E row \in expiredScan \cup retryScan : RecoverRowFails(row)
  \/ RecoverCrash

PublisherNext ==
  \/ \E row \in outbox : Publish(row)
  \/ \E row \in outbox : PublishNotDeleted(row)

Next ==
  \/ \E w \in Workers : WorkerNext(w)
  \/ \E t \in Tasks : TaskNext(t)
  \/ RecoverNext
  \/ PublisherNext
  \/ RequestCancel

Spec == Init /\ [][Next]_vars

(***************************************************************************)
(* Fairness.  The workers consume as long as there are messages and every  *)
(* provider call ends within its 320 s deadline; the jobs of the recover   *)
(* service and the publisher poll in a loop; time passes.  Nothing is      *)
(* assumed of heartbeats, acceptances, faults or the user.                 *)
(***************************************************************************)
Consume(w, t) == AcquireLease(w, t) \/ SkipMessage(w, t)
Progress(w) ==
  \/ \E reply \in Replies : ProviderReturns(w, reply)
  \/ CheckCancellation(w)
  \/ FinalizeCommits(w)
  \/ FinalizeRejected(w)
  \/ Ack(w)
Fairness ==
  /\ \A t \in Tasks : SF_vars(\E w \in Workers : Consume(w, t))
  /\ \A w \in Workers : WF_vars(Progress(w))
  /\ \A t \in Tasks :
       /\ WF_vars(LeaseExpires(t))
       /\ WF_vars(BecomesAvailable(t))
       /\ WF_vars(\E row \in expiredScan :
            row.task = t /\ (RecoverLease(row) \/ SkipRecovery(row)))
       /\ WF_vars(\E row \in retryScan : row.task = t /\ EnqueueRepush(row))
       /\ SF_vars(\E row \in outbox : row.task = t /\ Publish(row))
  /\ WF_vars(FetchExpired)
  /\ WF_vars(FetchRetryReady)
FairSpec == Spec /\ Fairness

-----------------------------------------------------------------------------
(* Properties *)

TypeOK ==
  /\ status \in [Tasks -> Status]
  /\ token \in [Tasks -> Nat]
  /\ lease \in [Tasks -> Lease]
  /\ available \in [Tasks -> BOOLEAN]
  /\ attemptCount \in [Tasks -> Nat]
  /\ attempts \in [Tasks -> Seq(AttemptStatus)]
  /\ dlq \in SUBSET Tasks
  /\ stats \in [Status -> Int]
  /\ campaign \in CampaignStatus
  /\ outbox \in SUBSET OutboxRow
  /\ mq \in [Tasks -> Nat]
  /\ worker \in [Workers -> Worker]
  /\ accepted \in [Tasks -> SUBSET Nat]
  /\ expiredScan \in SUBSET ScanRow
  /\ retryScan \in SUBSET ScanRow
  /\ crashes \in Nat
  /\ dbErrors \in Nat

InStatus(c) == {t \in Tasks : status[t] = c}

\* A task is sending exactly while its row carries a token, and the token is
\* the one of its newest attempt: acquireLeaseOnTask, finalizeTask and both
\* recovery UPDATEs keep the four columns together.
LeaseInv ==
  \A t \in Tasks :
    /\ status[t] = "sending" => token[t] = attemptCount[t] /\ token[t] > 0
    /\ status[t] # "sending" => token[t] = 0
    /\ lease[t] = "none" <=> token[t] = 0

\* Audit (delivery_attempts): one row per lease, and only the newest one, of
\* a task being sent, is still started.  Crashed workers, workers that lost
\* their lease and recovery never leave a row open or open two.
AttemptsInv ==
  \A t \in Tasks :
    /\ Len(attempts[t]) = attemptCount[t]
    /\ \A n \in 1..Len(attempts[t]) :
         attempts[t][n] = "started" <=> status[t] = "sending"
                                        /\ n = attemptCount[t]

\* What a worker believes it holds was leased to it, and no two workers hold
\* the same lease; so two workers that both called the provider for a task
\* cannot both pass the CAS of Finalize.
HoldersInv ==
  /\ \A w \in Workers : Holding(w) =>
       /\ worker[w].task \in Tasks
       /\ worker[w].token \in 1..attemptCount[worker[w].task]
  /\ \A w1, w2 \in Workers :
       /\ Holding(w1)
       /\ Holding(w2)
       /\ worker[w1].task = worker[w2].task
       /\ worker[w1].token = worker[w2].token
       => w1 = w2

\* A worker that is about to record success was told so by the provider, and
\* an attempt is written with the result that goes with the task's status.
OutcomeInv ==
  \A w \in Workers : worker[w].pc \in {"decided", "finalizing"} =>
    /\ worker[w].outcome \in Outcomes
    /\ worker[w].pc = "decided" => worker[w].outcome = "retry_scheduled"
    /\ worker[w].row \in {"succeeded", "failed", "timed_out"}
    /\ worker[w].outcome = "succeeded" <=> worker[w].row = "succeeded"
    /\ worker[w].row = "succeeded" =>
         worker[w].token \in accepted[worker[w].task]

\* A task succeeds at most once, by its newest attempt, and only if the
\* provider accepted that attempt, however many workers sent it.
SuccessInv ==
  \A t \in Tasks :
    /\ \A n \in 1..Len(attempts[t]) :
         attempts[t][n] = "succeeded" =>
           status[t] = "succeeded" /\ n = attemptCount[t]
    /\ status[t] = "succeeded" =>
         /\ attemptCount[t] > 0
         /\ attempts[t][attemptCount[t]] = "succeeded"
         /\ attemptCount[t] \in accepted[t]

\* The open dlq_items rows are those of the dead-lettered tasks, whether a
\* worker or lease recovery gave up.
DlqInv == dlq = InStatus("dead_lettered")

\* campaign_stats: no task is lost or counted twice in the columns the
\* finalizer and the API add up.  queued and retry_scheduled are exact only
\* together, see StatsPerStatus.
StatsInv ==
  /\ \A c \in Status \ Claimable : stats[c] = Cardinality(InStatus(c))
  /\ stats["queued"] + stats["retry_scheduled"]
       = Cardinality(InStatus("queued")) + Cardinality(InStatus("retry_scheduled"))

\* The inductive invariant.
IInv == TypeOK /\ LeaseInv /\ AttemptsInv /\ HoldersInv /\ OutcomeInv
        /\ SuccessInv /\ DlqInv /\ StatsInv

\* A terminal task is never touched again by a redelivered message, a late
\* worker, a stale recovery row or a repeated publication; and an attempt row
\* is completed once.
SettledForever ==
  [][\A t \in Tasks :
       /\ status[t] \in Terminal =>
            /\ status'[t] = status[t]
            /\ attemptCount'[t] = attemptCount[t]
       /\ \A n \in 1..Len(attempts[t]) :
            attempts[t][n] # "started" => attempts'[t][n] = attempts[t][n]]_vars

\* Before its lease expires, only the worker that holds it ends a sending
\* task: recovery and redelivered messages leave it alone.
LiveLeaseRespected ==
  [][\A t \in Tasks :
       status[t] = "sending" /\ lease[t] = "live" /\ status'[t] # "sending" =>
         \E w \in Workers :
           /\ worker[w].pc = "finalizing"
           /\ worker[w].task = t
           /\ worker[w].token = attemptCount[t]
           /\ status'[t] = worker[w].outcome]_vars

\* A scheduled retry is eventually taken up, although its signal may come too
\* early and be dropped, or be lost: the retry scanner sends another.
RetryEventuallyRuns ==
  \A t \in Tasks : status[t] = "retry_scheduled" ~> status[t] # "retry_scheduled"

\* A task does not stay in sending after its worker died or lost its lease.
SendingEventuallyEnds ==
  \A t \in Tasks : status[t] = "sending" ~> status[t] # "sending"

\* Crashes, lost connections and repeated publications are not enough to
\* lose a task: as long as no transaction fails, it is settled.
SettledUnlessNacked ==
  [](dbErrors = 0) => \A t \in Tasks : <>(status[t] \in Terminal)

\* The delivery core implements the ledger.
Phase(t) ==
  IF status[t] \in Claimable THEN "waiting"
  ELSE IF status[t] = "sending" THEN "leased"
  ELSE status[t]
Ledger == INSTANCE TaskLedger
            WITH phase <- [t \in Tasks |-> Phase(t)],
                 epoch <- attemptCount,
                 delivered <- accepted

\* Every step of workers, recovery, scanner and publisher is a step of the
\* abstract ledger or does not touch it.
LedgerSpec == Ledger!Spec

-----------------------------------------------------------------------------
(* Claims of the documentation and of comments that the code does not keep *)

\* README: at-least-once delivery, every task reaches a terminal status.
EventuallySettled == \A t \in Tasks : <>(status[t] \in Terminal)

\* service.go: no new retries once cancellation was requested.
NoRetryAfterCancel ==
  [][\A t \in Tasks :
       campaign \in {"cancelling", "cancelled"} /\ status'[t] = "retry_scheduled"
         => status[t] = "retry_scheduled"]_vars

\* README: statistics without drift.
StatsPerStatus == \A c \in Status : stats[c] = Cardinality(InStatus(c))

\* docs: transient failures retry until max_attempts.
AttemptsBound == \A t \in Tasks : attemptCount[t] <= MaxAttempts
=============================================================================
