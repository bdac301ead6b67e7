------------------------------- MODULE Outbox -------------------------------
(***************************************************************************)
(* The transactional outbox: the relay of the publisher service            *)
(* (src/publisher) and the two jobs of the recover service that look after *)
(* it, reset_stuck_outbox and the failed-outbox scanner (src/recover).     *)
(*                                                                         *)
(* A row signals a delivery task, or a campaign's region run: then its     *)
(* payload has no task_id.  Every row has been inserted together with what *)
(* it signals.  Delivery is LeaseTask, EndAttempt and SignalRetry, see      *)
(* module Delivery.  Every action is one transaction or one publication.   *)
(***************************************************************************)
EXTENDS Integers, FiniteSets

CONSTANTS
  TaskRows,     \* rows that signal a task; the task is named by its row
  RunRows,      \* rows that signal a region run
  Unroutable,   \* rows whose routing key matches no queue
  Publishers,   \* the publisher processes, named by their worker_id
  Nobody,       \* locked_by IS NULL
  BatchSize,    \* batch_size of the relay
  MaxAttempts,  \* max_attempts of the relay
  TaskAttempts, \* delivery_tasks.max_attempts
  Starts,       \* how far the rows have come, some of them earlier than others
  MaxFaults     \* bound: crashes, failed transactions, overslept locks

Rows == TaskRows \cup RunRows

ASSUME OutboxAssumption ==
  /\ IsFiniteSet(TaskRows) /\ IsFiniteSet(RunRows)
  /\ TaskRows \cap RunRows = {}
  /\ Unroutable \subseteq Rows
  /\ Nobody \notin Publishers
  /\ BatchSize \in Nat \ {0}
  /\ MaxAttempts \in Nat \ {0}
  /\ TaskAttempts \in Nat \ {0}
  /\ Starts \subseteq [Rows -> {"stored", "sent", "ended"}]
  /\ MaxFaults \in Nat

VARIABLES
  rowStatus,    \* outbox_events.status; "gone" when the row is deleted
  due,          \* outbox_events.next_attempt_at <= now()
  lockedBy,     \* outbox_events.locked_by
  lock,         \* outbox_events.locked_until: NULL, in the future or past
  attemptCount, \* outbox_events.attempt_count
  sent,         \* rows whose message the broker accepted
  signals,      \* task rows whose message waits in RabbitMQ
  task,         \* delivery_tasks.status
  taskAttempts, \* delivery_tasks.attempt_count
  dlq,          \* tasks with an open dlq_items row
  stats,        \* the campaign_stats row
  publisher,    \* what each relay holds in memory
  failedScan,   \* rows read by fetch_failed_outbox, not yet handled
  faults,
  \* history
  claims        \* how often a relay claimed the row

rowVars == <<rowStatus, due, lockedBy, lock, attemptCount>>
taskVars == <<task, taskAttempts, dlq, stats>>
vars == <<rowVars, sent, signals, taskVars, publisher, failedScan, faults,
          claims>>

-----------------------------------------------------------------------------
RowStatus == {"pending", "publishing", "failed", "gone"}
Lock == {"none", "live", "expired"}
TaskStatus == {"queued", "sending", "retry_scheduled", "succeeded",
               "dead_lettered"}
Terminal == {"succeeded", "dead_lettered"}

\* todo is the attempt_count a row still to be published was claimed with,
\* 0 for the other rows; row is the one whose publication just failed.
Idle == [pc |-> "idle", todo |-> [r \in Rows |-> 0], done |-> {},
         row |-> Nobody]
Todo(p) == {r \in Rows : publisher[p].todo[r] > 0}
Claimed(p) == Todo(p) \cup publisher[p].done

Having(s) == {r \in TaskRows : task[r] = s}
Waiting == Having("queued") \cup Having("retry_scheduled")

-----------------------------------------------------------------------------
(* Faulty variants of definitions below, one for each property: what the   *)
(* properties would catch.  No specification uses them.                    *)

Faulty_Claimable_Publishing(r) ==
  rowStatus[r] \in {"pending", "publishing"} /\ due[r]
Faulty_Stuck_NotExhausted(r) ==
  /\ rowStatus[r] = "publishing" /\ lock[r] = "expired"
  /\ attemptCount[r] < MaxAttempts
Faulty_AfterFailure_Early(r, n) ==
  IF n >= MaxAttempts - 1 THEN "failed" ELSE "pending"
Faulty_AfterFailure_Dropped(r, n) == "gone"
Faulty_CanGiveUp_Any(r) == TRUE
Faulty_Rebalance_Queued(s) == [stats EXCEPT !["queued"] = @ - 1,
                                            !["dead_lettered"] = @ + 1]

-----------------------------------------------------------------------------
(* What the statements ask of a row.                                       *)

Claimable(r) == rowStatus[r] = "pending" /\ due[r]
Stuck(r) == rowStatus[r] = "publishing" /\ lock[r] = "expired"
Exhausted(n) == n >= MaxAttempts
AfterFailure(r, n) == IF Exhausted(n) THEN "failed" ELSE "pending"

\* The broker confirms what it could route.
Confirmed(r) == r \notin Unroutable

\* A task that has not ended is given up with its signal.
CanGiveUp(r) == task[r] \notin Terminal

\* _rebalance_stats, by the status read under FOR UPDATE.
Rebalance(s) ==
  [stats EXCEPT ![s] = IF @ > 0 THEN @ - 1 ELSE 0,
                !["dead_lettered"] = @ + 1]

-----------------------------------------------------------------------------
\* Some rows were sent and deleted before, and wait in RabbitMQ or led to a
\* success.
Init ==
  /\ \E start \in Starts :
       /\ rowStatus = [r \in Rows |-> IF start[r] = "stored" THEN "pending"
                                     ELSE "gone"]
       /\ sent = {r \in Rows : start[r] # "stored"}
       /\ signals = {r \in TaskRows : start[r] = "sent"}
       /\ task = [r \in TaskRows |-> IF start[r] = "ended" THEN "succeeded"
                                     ELSE "queued"]
       /\ taskAttempts = [r \in TaskRows |-> IF start[r] = "ended" THEN 1 ELSE 0]
  /\ due = [r \in Rows |-> TRUE]
  /\ lockedBy = [r \in Rows |-> Nobody]
  /\ lock = [r \in Rows |-> "none"]
  /\ attemptCount = [r \in Rows |-> 0]
  /\ dlq = {}
  /\ stats = [s \in TaskStatus |-> Cardinality(Having(s))]
  /\ publisher = [p \in Publishers |-> Idle]
  /\ failedScan = {}
  /\ faults = 0
  /\ claims = [r \in Rows |-> 0]

-----------------------------------------------------------------------------
(* The relay.                                                              *)

\* recover_stale_own, every few ticks: rows of this worker_id, left by an
\* earlier life of the process or by a batch that was abandoned.
RecoverStaleOwn(p) ==
  LET own == {r \in Rows : Stuck(r) /\ lockedBy[r] = p} IN
  /\ publisher[p].pc = "idle" /\ own # {}
  /\ rowStatus' = [r \in Rows |-> IF r \in own THEN "pending" ELSE rowStatus[r]]
  /\ lockedBy' = [r \in Rows |-> IF r \in own THEN Nobody ELSE lockedBy[r]]
  /\ lock' = [r \in Rows |-> IF r \in own THEN "none" ELSE lock[r]]
  /\ UNCHANGED <<due, attemptCount, sent, signals, taskVars, publisher,
                 failedScan, faults, claims>>

\* claim_batch: at most BatchSize rows, fewer when others are row-locked
\* (SKIP LOCKED).
Claim(p) ==
  /\ publisher[p].pc = "idle"
  /\ \E batch \in SUBSET {r \in Rows : Claimable(r)} :
       /\ batch # {} /\ Cardinality(batch) <= BatchSize
       /\ rowStatus' = [r \in Rows |-> IF r \in batch THEN "publishing"
                                       ELSE rowStatus[r]]
       /\ lockedBy' = [r \in Rows |-> IF r \in batch THEN p ELSE lockedBy[r]]
       /\ lock' = [r \in Rows |-> IF r \in batch THEN "live" ELSE lock[r]]
       /\ attemptCount' = [r \in Rows |-> IF r \in batch THEN attemptCount[r] + 1
                                          ELSE attemptCount[r]]
       /\ publisher' = [publisher EXCEPT ![p] =
            [pc |-> "publishing",
             todo |-> [r \in Rows |-> IF r \in batch THEN attemptCount[r] + 1
                                      ELSE 0],
             done |-> {}, row |-> Nobody]]
       /\ claims' = [r \in Rows |-> IF r \in batch THEN claims[r] + 1
                                    ELSE claims[r]]
  /\ UNCHANGED <<due, sent, signals, taskVars, failedScan, faults>>

\* The broker takes the message.
Accept(r) ==
  /\ sent' = sent \cup {r}
  /\ signals' = signals \cup ({r} \cap TaskRows)

\* publish returns: the message is confirmed.
PublishConfirmed(p, r) ==
  /\ publisher[p].pc = "publishing" /\ r \in Todo(p) /\ Confirmed(r)
  /\ Accept(r)
  /\ publisher' = [publisher EXCEPT ![p] =
       [pc |-> "publishing", todo |-> [@.todo EXCEPT ![r] = 0],
        done |-> @.done \cup {r}, row |-> Nobody]]
  /\ UNCHANGED <<rowVars, taskVars, failedScan, faults, claims>>

\* publish raises: the message was returned as unroutable, or the connection
\* failed, or the confirm timed out; then the broker may have taken it.
PublishFails(p, r) ==
  /\ publisher[p].pc = "publishing" /\ r \in Todo(p)
  /\ \/ Confirmed(r) /\ Accept(r)
     \/ UNCHANGED <<sent, signals>>
  /\ publisher' = [publisher EXCEPT ![p] =
       [pc |-> "marking", todo |-> @.todo, done |-> @.done, row |-> r]]
  /\ UNCHANGED <<rowVars, taskVars, failedScan, faults, claims>>

\* mark_retry with a backoff, or mark_failed: by id only, whoever owns the
\* row now and whatever its status.
MarkFailure(p) ==
  LET r == publisher[p].row
      new == AfterFailure(r, publisher[p].todo[r])
  IN
  /\ publisher[p].pc = "marking"
  /\ IF rowStatus[r] # "gone"
     THEN /\ rowStatus' = [rowStatus EXCEPT ![r] = new]
          /\ lockedBy' = [lockedBy EXCEPT ![r] = Nobody]
          /\ lock' = [lock EXCEPT ![r] = "none"]
          /\ due' = [due EXCEPT ![r] = IF new = "pending" THEN FALSE ELSE @]
     ELSE UNCHANGED <<rowStatus, lockedBy, lock, due>>
  /\ publisher' = [publisher EXCEPT ![p] =
       [pc |-> "publishing", todo |-> [@.todo EXCEPT ![r] = 0],
        done |-> @.done, row |-> Nobody]]
  /\ UNCHANGED <<attemptCount, sent, signals, taskVars, failedScan, faults,
                 claims>>

\* delete_by_ids for all that was published in the batch, by id only.
DeleteBatch(p) ==
  /\ publisher[p].pc = "publishing" /\ Todo(p) = {}
  /\ rowStatus' = [r \in Rows |-> IF r \in publisher[p].done THEN "gone"
                                  ELSE rowStatus[r]]
  /\ publisher' = [publisher EXCEPT ![p] = Idle]
  /\ UNCHANGED <<due, lockedBy, lock, attemptCount, sent, signals, taskVars,
                 failedScan, faults, claims>>

\* The process dies, or a mark or delete transaction fails: the loop drops
\* the batch, the published part of it included.
AbandonBatch(p) ==
  /\ publisher[p].pc # "idle" /\ faults < MaxFaults
  /\ faults' = faults + 1
  /\ publisher' = [publisher EXCEPT ![p] = Idle]
  /\ UNCHANGED <<rowVars, sent, signals, taskVars, failedScan, claims>>

-----------------------------------------------------------------------------
(* Time.                                                                   *)

BecomesDue(r) ==
  /\ ~due[r]
  /\ due' = [due EXCEPT ![r] = TRUE]
  /\ UNCHANGED <<rowStatus, lockedBy, lock, attemptCount, sent, signals,
                 taskVars, publisher, failedScan, faults, claims>>

\* The lock (60 s) outlives a batch unless its holder is gone or too slow.
LockExpires(r) ==
  /\ lock[r] = "live"
  /\ lock' = [lock EXCEPT ![r] = "expired"]
  /\ IF lockedBy[r] \in Publishers /\ r \in Claimed(lockedBy[r])
     THEN faults < MaxFaults /\ faults' = faults + 1
     ELSE faults' = faults
  /\ UNCHANGED <<rowStatus, due, lockedBy, attemptCount, sent, signals,
                 taskVars, publisher, failedScan, claims>>

-----------------------------------------------------------------------------
(* The recover service.                                                    *)

\* reset_stuck_outbox: any batch of the stuck rows, whoever locked them.
\* attempt_count is incremented here as well as by the claim.
ResetStuck ==
  \E stuck \in SUBSET {r \in Rows : Stuck(r)} :
    /\ stuck # {}
    /\ rowStatus' = [r \in Rows |-> IF r \in stuck THEN "pending"
                                    ELSE rowStatus[r]]
    /\ lockedBy' = [r \in Rows |-> IF r \in stuck THEN Nobody ELSE lockedBy[r]]
    /\ lock' = [r \in Rows |-> IF r \in stuck THEN "none" ELSE lock[r]]
    /\ due' = [r \in Rows |-> due[r] \/ r \in stuck]
    /\ attemptCount' = [r \in Rows |-> IF r \in stuck THEN attemptCount[r] + 1
                                       ELSE attemptCount[r]]
    /\ UNCHANGED <<sent, signals, taskVars, publisher, failedScan, faults,
                   claims>>

FetchFailed ==
  /\ failedScan = {}
  /\ failedScan' = {r \in Rows : rowStatus[r] = "failed"}
  /\ failedScan' # {}
  /\ UNCHANGED <<rowVars, sent, signals, taskVars, publisher, faults, claims>>

\* dead_letter_failed_outbox without a task_id: the row is deleted by id.
DropFailedRun(r) ==
  /\ r \in failedScan \cap RunRows
  /\ failedScan' = failedScan \ {r}
  /\ rowStatus' = [rowStatus EXCEPT ![r] = "gone"]
  /\ UNCHANGED <<due, lockedBy, lock, attemptCount, sent, signals, taskVars,
                 publisher, faults, claims>>

\* With one: the task is given up unless it has ended, an open DLQ item is
\* written in any case, and the row is deleted if it is still failed;
\* otherwise everything is rolled back.
DeadLetter(r) ==
  /\ r \in failedScan \cap TaskRows
  /\ failedScan' = failedScan \ {r}
  /\ IF rowStatus[r] = "failed"
     THEN /\ rowStatus' = [rowStatus EXCEPT ![r] = "gone"]
          /\ dlq' = dlq \cup {r}
          /\ IF CanGiveUp(r)
             THEN /\ task' = [task EXCEPT ![r] = "dead_lettered"]
                  /\ stats' = Rebalance(task[r])
             ELSE UNCHANGED <<task, stats>>
     ELSE UNCHANGED <<rowStatus, task, dlq, stats>>
  /\ UNCHANGED <<taskAttempts, due, lockedBy, lock, attemptCount, sent, signals, publisher,
                 faults, claims>>

\* A row's transaction fails and it is left for a later scan, or the recover
\* service dies and all are.
ScanFails ==
  /\ faults < MaxFaults
  /\ faults' = faults + 1
  /\ \E r \in failedScan : failedScan' \in {failedScan \ {r}, {}}
  /\ UNCHANGED <<rowVars, sent, signals, taskVars, publisher, claims>>

-----------------------------------------------------------------------------
(* Delivery, seen from the outbox.                                         *)

\* A lease always takes one from queued, whether the task was queued or waited
\* for a retry.
LeaseTask(r) ==
  /\ r \in signals
  /\ signals' = signals \ {r}
  /\ IF r \in Waiting
     THEN /\ task' = [task EXCEPT ![r] = "sending"]
          /\ taskAttempts' = [taskAttempts EXCEPT ![r] = @ + 1]
          /\ stats' = [stats EXCEPT !["queued"] = @ - 1, !["sending"] = @ + 1]
     ELSE UNCHANGED <<task, taskAttempts, stats>>
  /\ UNCHANGED <<rowVars, sent, dlq, publisher, failedScan, faults, claims>>

\* The worker's result, or the recovery of its lease.
Outcomes(r) ==
  Terminal \cup (IF taskAttempts[r] < TaskAttempts THEN {"retry_scheduled"}
                 ELSE {})

EndAttempt(r) ==
  /\ task[r] = "sending"
  /\ \E s \in Outcomes(r) :
       /\ task' = [task EXCEPT ![r] = s]
       /\ dlq' = IF s = "dead_lettered" THEN dlq \cup {r} ELSE dlq
       /\ stats' = [stats EXCEPT !["sending"] = @ - 1, ![s] = @ + 1]
  /\ UNCHANGED <<rowVars, sent, signals, taskAttempts, publisher, failedScan,
                 faults, claims>>

\* The signal of a retry, from the retry queue or the retry scanner.
SignalRetry(r) ==
  /\ task[r] = "retry_scheduled"
  /\ signals' = signals \cup {r}
  /\ UNCHANGED <<rowVars, sent, taskVars, publisher, failedScan, faults, claims>>

-----------------------------------------------------------------------------
Relay(p) ==
  \/ RecoverStaleOwn(p) \/ Claim(p) \/ MarkFailure(p) \/ DeleteBatch(p)
  \/ \E r \in Rows : PublishConfirmed(p, r) \/ PublishFails(p, r)

Next ==
  \/ \E p \in Publishers : Relay(p) \/ AbandonBatch(p)
  \/ \E r \in Rows : BecomesDue(r) \/ LockExpires(r)
  \/ ResetStuck \/ FetchFailed \/ ScanFails
  \/ \E r \in RunRows : DropFailedRun(r)
  \/ \E r \in TaskRows : \/ DeadLetter(r)
                        \/ LeaseTask(r) \/ EndAttempt(r) \/ SignalRetry(r)

Spec == Init /\ [][Next]_vars

\* The relay and the jobs poll in loops, a publication ends (10 s timeout),
\* clocks advance.  Nothing is assumed of the broker's answers or of faults.
Fairness ==
  /\ \A p \in Publishers : WF_vars(Relay(p))
  /\ \A r \in Rows : WF_vars(BecomesDue(r)) /\ WF_vars(LockExpires(r))
  /\ WF_vars(ResetStuck) /\ WF_vars(FetchFailed)
  /\ \A r \in RunRows : WF_vars(DropFailedRun(r))
  /\ \A r \in TaskRows : WF_vars(DeadLetter(r))

FairSpec == Spec /\ Fairness

-----------------------------------------------------------------------------
(* Properties *)

Publisher ==
  [pc : {"idle", "publishing", "marking"}, todo : [Rows -> Nat],
   done : SUBSET Rows, row : Rows \cup {Nobody}]

TypeOK ==
  /\ rowStatus \in [Rows -> RowStatus]
  /\ due \in [Rows -> BOOLEAN]
  /\ lockedBy \in [Rows -> Publishers \cup {Nobody}]
  /\ lock \in [Rows -> Lock]
  /\ attemptCount \in [Rows -> Nat]
  /\ sent \in SUBSET Rows
  /\ signals \in SUBSET TaskRows
  /\ task \in [TaskRows -> TaskStatus]
  /\ taskAttempts \in [TaskRows -> Nat]
  /\ dlq \in SUBSET TaskRows
  /\ stats \in [TaskStatus -> Int]
  /\ publisher \in [Publishers -> Publisher]
  /\ failedScan \in SUBSET Rows
  /\ faults \in 0 .. MaxFaults
  /\ claims \in [Rows -> Nat]

\* No task's signal is lost: its row disappears only when the broker has it,
\* or the task is in the DLQ, whatever crashes, marks late or deletes twice.
NoSignalLost ==
  \A r \in TaskRows : rowStatus[r] = "gone" => r \in sent \cup dlq

\* A failed row was claimed max_attempts times, less one for each relay that
\* died or overslept while it held the row, since reset_stuck_outbox counts
\* such a claim twice; and never after half of the claims or fewer.
FailsByClaims ==
  \A r \in Rows : rowStatus[r] = "failed" =>
    claims[r] + faults >= MaxAttempts /\ 2 * claims[r] > MaxAttempts

\* Two relays work on one row only if one of them overslept its lock.
ClaimsAreExclusive ==
  \A r \in Rows :
    Cardinality({p \in Publishers : r \in Claimed(p)}) <= faults + 1

\* What the finalizer adds up, queued + sending + retry_scheduled = 0, is true
\* only when no task waits or is being sent, whoever ended the tasks: sending
\* and the results are exact, and what waits is never counted short, although
\* a lease takes one from queued for a retried task too and giving up stops at
\* zero.  The waiting tasks are exact too until one that was never leased is
\* given up, which is where it may stop at zero.
CountedExactly ==
  \A s \in {"sending", "succeeded", "dead_lettered"} :
    stats[s] = Cardinality(Having(s))
NoneCountedShort ==
  /\ stats["queued"] + stats["retry_scheduled"] >= Cardinality(Waiting)
  /\ stats["retry_scheduled"] >= Cardinality(Having("retry_scheduled"))
GivenUpUnleased == \E r \in dlq : task[r] = "dead_lettered" /\ taskAttempts[r] = 0
WaitingExact ==
  GivenUpUnleased
    \/ stats["queued"] + stats["retry_scheduled"] = Cardinality(Waiting)
StatsInv == CountedExactly /\ NoneCountedShort /\ WaitingExact

\* A task that ended stays as it ended: giving up a signal that was in fact
\* delivered does not undo the result.
EndedTaskStays ==
  [][\A r \in TaskRows : task[r] \in Terminal => task'[r] = task[r]]_vars

\* No row stays: a lock left behind is released, an unroutable row is given
\* up.
RowsLeave == <>(\A r \in Rows : rowStatus[r] = "gone")

Contract == INSTANCE AtLeastOnce
              WITH Signals <- TaskRows,
                   stored <- {r \in TaskRows : rowStatus[r] # "gone"},
                   sent <- sent \cap TaskRows,
                   reported <- dlq

\* For the signals of tasks, relay and recovery together keep the contract.
ContractSpec == Contract!Spec

-----------------------------------------------------------------------------
(* Claims of the documentation that the code does not keep *)

\* docs/03: the outbox prevents a lost publish after the commit.
NoRunLost == \A r \in RunRows : rowStatus[r] = "gone" => r \in sent

\* README: a dlq_items row if the task is dead_lettered.
DlqIsDeadLettered == \A r \in dlq : task[r] = "dead_lettered"

\* docs/03:868: a campaign eventually reaches its final status.  Given up at
\* zero, a queued task stays counted, and the finalizer waits for it.
SettledIsCounted ==
  Waiting = {} => stats["queued"] + stats["retry_scheduled"] = 0

\* docs/01, 8.5: outbox recovery does not count as an attempt.
ResetIsNoAttempt ==
  [][\A r \in Rows : rowStatus[r] = "publishing" /\ rowStatus'[r] = "pending"
       => attemptCount'[r] = attemptCount[r]]_vars
=============================================================================
