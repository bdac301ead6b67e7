------------------------------- MODULE Fanout -------------------------------
(***************************************************************************)
(* The life of one campaign around its delivery: the fan-out workers       *)
(* (src/funout) that turn its region run into delivery tasks, the API's    *)
(* cancel request and cancel processor (src/api), and the recover          *)
(* service's campaign finalizer and recover_run (src/recover).             *)
(*                                                                         *)
(* They meet in four kinds of rows: the run with its lock, the tasks with  *)
(* their outbox signals, campaign_stats, and the campaign itself.  Every   *)
(* action is one transaction, or a step of an executor's memory.           *)
(*                                                                         *)
(* Delivery is seen from here as LeaseTask and EndTask only: the module    *)
(* Delivery has its detail, the module Outbox that of rows given up.       *)
(* A task is named by the user channel it is sent to (its idempotency key  *)
(* is made of the campaign and that channel): a user may have several.     *)
(***************************************************************************)
EXTENDS Integers, Sequences, FiniteSets

CONSTANTS
  NumUsers,     \* the users the selector matches are 1 .. NumUsers
  Targets,      \* their channels that are active, verified and enabled
  UserOf,       \* UserOf[c]: the user of channel c
  PageTasks,    \* the most channels that the users of a page have
  Executors,    \* the goroutines of all fan-out replicas
  WorkerId,     \* WorkerId[e]: the WORKER_ID of e's replica
  Processors,   \* the cancel processors, one per API replica
  NoOwner,      \* fanout_lock_owner or locked_by IS NULL
  BatchSize,    \* users per page
  ChannelSize,  \* capacity of the pipeline's two channels
  MaxFaults,    \* bound: crashes, lost connections, repeated publications
  MaxDbErrors,  \* bound: transactions that fail, or are cut by a shutdown
  MaxRecovers,  \* bound: recover_run requests of an operator
  MaxRetries    \* bound: retries of all tasks together

Users == 1 .. NumUsers

\* A faulty variant (see below): the page begins with the cursor again.
Faulty_Page_FromCursor(cursor) ==
  {u \in Users : /\ u >= cursor
                 /\ u < BatchSize + IF cursor = 0 THEN 1 ELSE cursor}

\* FetchBatch: the next page of active users after the cursor.
Page(cursor) == {u \in Users : u > cursor /\ u <= cursor + BatchSize}

\* FindActiveByUsers: every active channel of these users, not one for each.
ChannelsOf(ids) == {c \in Targets : UserOf[c] \in ids}

ASSUME FanoutAssumption ==
  /\ NumUsers \in Nat /\ BatchSize \in Nat \ {0}
  /\ IsFiniteSet(Targets)
  /\ UserOf \in [Targets -> Users]
  /\ PageTasks \in Nat
  /\ \A cursor \in 0 .. NumUsers :
       Cardinality(ChannelsOf(Page(cursor))) <= PageTasks
  /\ IsFiniteSet(Executors)
  /\ \A e \in Executors : WorkerId[e] # NoOwner
  /\ NoOwner \notin Processors
  /\ ChannelSize \in Nat \ {0}
  /\ MaxFaults \in Nat
  /\ MaxDbErrors \in Nat
  /\ MaxRecovers \in Nat
  /\ MaxRetries \in Nat

VARIABLES
  runStatus,    \* campaign_region_runs.status
  owner,        \* campaign_region_runs.fanout_lock_owner
  lock,         \* fanout_lock_until: NULL, in the future or past
  task,         \* delivery_tasks.status of each channel's task, or "absent"
  outbox,       \* tasks whose DeliveryTaskCreated row waits in the outbox
  signals,      \* tasks with a message in RabbitMQ
  stats,        \* the campaign_stats row
  campaign,     \* campaigns.status
  cancelEvent,  \* the CampaignCancelRequested outbox row
  eventOwner,   \* its locked_by
  processing,   \* the processors that have claimed it and not finished
  mq,           \* copies of CampaignRegionRunRequested waiting in RabbitMQ
  exec,         \* what each executor holds in memory
  scan,         \* the campaign read by fetch_completable, or NoScan
  faults, dbErrors, recovers,
  nacked        \* history: tasks whose message was lost to a failed lease

runVars == <<runStatus, owner, lock>>
taskVars == <<task, outbox, signals, stats, nacked>>
cancelVars == <<campaign, cancelEvent, eventOwner, processing>>
boundVars == <<faults, dbErrors, recovers>>
vars == <<runVars, taskVars, cancelVars, mq, exec, scan, boundVars>>

-----------------------------------------------------------------------------
RunStatus == {"fanout_pending", "fanout_running", "fanout_completed",
              "fanout_failed", "cancelled"}
Lock == {"none", "live", "expired"}
Waiting == {"queued", "retry_scheduled"}
TaskStatus == Waiting \cup {"sending", "succeeded", "dead_lettered",
                            "cancelled"}
Final == {"succeeded", "dead_lettered", "cancelled"}
CampaignStatus == {"running", "cancelling", "cancelled", "completed",
                   "failed", "partially_failed"}
CancelEvent == {"absent", "pending", "publishing", "archived"}

Having(s) == {c \in Targets : task[c] = s}

\* An executor.  stage is that of the insert stage: it waits for a batch,
\* has passed the cancellation check, or has committed the batch.  Outside of
\* the pipeline there are no channels and stages.
Outside(pc, result, unacked) ==
  [pc |-> pc, result |-> result, cursor |-> 0, scanned |-> FALSE,
   users |-> <<>>, hand |-> {}, tasks |-> <<>>, batch |-> {},
   stage |-> "waiting", unacked |-> unacked]
Idle == Outside("idle", "none", FALSE)
Executor ==
  [pc : {"idle", "loading", "running", "closing", "acking"},
   result : {"none", "ok", "failed", "cancelled"},
   cursor : 0 .. NumUsers, scanned : BOOLEAN,
   users : Seq(SUBSET Users), hand : SUBSET Targets,
   tasks : Seq(SUBSET Targets), batch : SUBSET Targets,
   stage : {"waiting", "checked", "inserted"}, unacked : BOOLEAN]

Executing(e) == exec[e].pc \in {"loading", "running", "closing"}

Closing(e, r) == Outside("closing", r, exec[e].unacked)
\* The handler returned: "ok" is acked, anything else is nacked.
Acking(e, r) == Outside("acking", r, exec[e].unacked)

NoScan == [status |-> "none", total |-> 0, succeeded |-> 0,
           dead_lettered |-> 0, cancelled |-> 0]

\* campaign_stats: one task moved from a column to another.
Move(from, to) == [stats EXCEPT ![from] = @ - 1, ![to] = @ + 1]

-----------------------------------------------------------------------------
(* Faulty variants of definitions below, one for each property: what the   *)
(* properties would catch.  No specification uses them.                    *)

Faulty_Owns_Anyone(e) == TRUE
Faulty_LastPage_Full(page) == Cardinality(page) <= BatchSize
Faulty_CancelRequested_Cancelling == campaign = "cancelling"
Faulty_Drained_Channels(e) ==
  exec[e].scanned /\ exec[e].users = <<>> /\ exec[e].tasks = <<>>
Faulty_PublishSignal_DeletesFirst(c) ==
  /\ c \in outbox
  /\ outbox' = outbox \ {c}
  /\ UNCHANGED <<runVars, task, signals, stats, nacked, cancelVars, mq, exec,
                 scan, boundVars>>
Faulty_CanCancel_Running == campaign = "running"
Faulty_Verdict_NeverFailed(c) ==
  IF c.status = "cancelling" \/ c.cancelled = c.total THEN "cancelled"
  ELSE IF c.dead_lettered = 0 /\ c.cancelled = 0 THEN "completed"
  ELSE "partially_failed"
Faulty_CanFinalize_Any == TRUE

-----------------------------------------------------------------------------
(* What the statements ask of the rows, and what they read.                *)

CanLock == runStatus = "fanout_pending" /\ lock # "live"

\* The owner guard of ExtendLock and of the three Mark statements.
Owns(e) == owner = WorkerId[e]

\* stageCursor stops at an empty page and after a short one.
LastPage(page) == Cardinality(page) < BatchSize

\* upsertCampaignStats counts only the rows the INSERT added.
Counted(batch) == Cardinality({c \in batch : task[c] = "absent"})

\* IsCancellationRequested.
CancelRequested == campaign \in {"cancelling", "cancelled"}

-----------------------------------------------------------------------------
Init ==
  /\ runStatus = "fanout_pending" /\ owner = NoOwner /\ lock = "none"
  /\ task = [c \in Targets |-> "absent"]
  /\ outbox = {} /\ signals = {}
  /\ stats = [c \in TaskStatus \cup {"total"} |-> 0]
  /\ campaign = "running" /\ cancelEvent = "absent"
  /\ eventOwner = NoOwner /\ processing = {}
  /\ mq = 1
  /\ exec = [e \in Executors |-> Idle]
  /\ scan = NoScan
  /\ faults = 0 /\ dbErrors = 0 /\ recovers = 0
  /\ nacked = {}

-----------------------------------------------------------------------------
(* Fan-out: one message, one execution.                                    *)

\* handle, Execute: the message is taken and the run is locked.
AcquireLock(e) ==
  /\ exec[e].pc = "idle" /\ mq > 0 /\ CanLock
  /\ mq' = mq - 1
  /\ runStatus' = "fanout_running"
  /\ owner' = WorkerId[e]
  /\ lock' = "live"
  /\ exec' = [exec EXCEPT ![e] = Outside("loading", "none", TRUE)]
  /\ UNCHANGED <<taskVars, cancelVars, scan, boundVars>>

\* ErrAlreadyLocked: the message is acked, nothing was done for it.
SkipRun(e) ==
  /\ exec[e].pc = "idle" /\ mq > 0 /\ ~CanLock
  /\ mq' = mq - 1
  /\ exec' = [exec EXCEPT ![e] = Outside("acking", "ok", TRUE)]
  /\ UNCHANGED <<runVars, taskVars, cancelVars, scan, boundVars>>

\* campaigns.FindByID, then the three stages start.
LoadCampaign(e) ==
  /\ exec[e].pc = "loading"
  /\ exec' = [exec EXCEPT ![e].pc = "running"]
  /\ UNCHANGED <<runVars, taskVars, cancelVars, mq, scan, boundVars>>

\* stageCursor: one page is read and sent down, or the stage returns.
ReadPage(e) ==
  LET x == exec[e]
      page == Page(x.cursor)
  IN
  /\ x.pc = "running" /\ ~x.scanned
  /\ IF page = {}
     THEN exec' = [exec EXCEPT ![e].scanned = TRUE]
     ELSE /\ Len(x.users) < ChannelSize
          /\ exec' = [exec EXCEPT
               ![e].users = Append(@, page),
               ![e].cursor = CHOOSE u \in page : \A v \in page : v <= u,
               ![e].scanned = LastPage(page)]
  /\ UNCHANGED <<runVars, taskVars, cancelVars, mq, scan, boundVars>>

\* stageEnrich: a page becomes the tasks of its users' channels; a page
\* without any is dropped.
Enrich(e) ==
  LET x == exec[e] IN
  /\ x.pc = "running" /\ x.hand = {} /\ x.users # <<>>
  /\ exec' = [exec EXCEPT ![e].users = Tail(@),
                          ![e].hand = ChannelsOf(Head(x.users))]
  /\ UNCHANGED <<runVars, taskVars, cancelVars, mq, scan, boundVars>>

SendTasks(e) ==
  LET x == exec[e] IN
  /\ x.pc = "running" /\ x.hand # {} /\ Len(x.tasks) < ChannelSize
  /\ exec' = [exec EXCEPT ![e].tasks = Append(@, x.hand), ![e].hand = {}]
  /\ UNCHANGED <<runVars, taskVars, cancelVars, mq, scan, boundVars>>

\* stageInsert, first transaction: IsCancellationRequested.
CheckCancelled(e) ==
  LET x == exec[e] IN
  /\ x.pc = "running" /\ x.stage = "waiting" /\ x.tasks # <<>>
  /\ exec' = IF CancelRequested
             THEN [exec EXCEPT ![e] = Closing(e, "cancelled")]
             ELSE [exec EXCEPT ![e].tasks = Tail(@),
                               ![e].batch = Head(x.tasks),
                               ![e].stage = "checked"]
  /\ UNCHANGED <<runVars, taskVars, cancelVars, mq, scan, boundVars>>

\* Second transaction: InsertBatch.  The outbox INSERT is for the whole
\* batch, so a signal already published and deleted is written again.
InsertBatch(e) ==
  LET x == exec[e]
      n == Counted(x.batch)
  IN
  /\ x.pc = "running" /\ x.stage = "checked"
  /\ task' = [c \in Targets |-> IF c \in x.batch /\ task[c] = "absent"
                                THEN "queued" ELSE task[c]]
  /\ outbox' = outbox \cup x.batch
  /\ stats' = [stats EXCEPT !["total"] = @ + n, !["queued"] = @ + n]
  /\ exec' = [exec EXCEPT ![e].stage = "inserted"]
  /\ UNCHANGED <<runVars, signals, nacked, cancelVars, mq, scan, boundVars>>

\* Third transaction: ExtendLock.  No row means ErrLockLost.
ExtendLock(e) ==
  /\ exec[e].pc = "running" /\ exec[e].stage = "inserted"
  /\ IF Owns(e)
     THEN /\ lock' = "live"
          /\ exec' = [exec EXCEPT ![e].stage = "waiting", ![e].batch = {}]
     ELSE /\ lock' = lock
          /\ exec' = [exec EXCEPT ![e] = Closing(e, "failed")]
  /\ UNCHANGED <<runStatus, owner, taskVars, cancelVars, mq, scan, boundVars>>

Drained(e) ==
  LET x == exec[e] IN
  /\ x.scanned /\ x.users = <<>> /\ x.hand = {}
  /\ x.tasks = <<>> /\ x.stage = "waiting"

\* g.Wait returns nil: every channel was closed and drained.
FinishPipeline(e) ==
  /\ exec[e].pc = "running" /\ Drained(e)
  /\ exec' = [exec EXCEPT ![e] = Closing(e, "ok")]
  /\ UNCHANGED <<runVars, taskVars, cancelVars, mq, scan, boundVars>>

\* MarkCompleted, MarkFailed, MarkCancelled.  Only the first one's ErrLockLost
\* makes the handler fail; a failed pipeline does so in any case.
MarkCompleted(e) ==
  /\ exec[e].pc = "closing" /\ exec[e].result = "ok"
  /\ runStatus' = IF Owns(e) THEN "fanout_completed" ELSE runStatus
  /\ exec' = [exec EXCEPT ![e] = Acking(e, IF Owns(e) THEN "ok"
                                           ELSE "failed")]
  /\ UNCHANGED <<owner, lock, taskVars, cancelVars, mq, scan, boundVars>>

MarkFailed(e) ==
  /\ exec[e].pc = "closing" /\ exec[e].result = "failed"
  /\ runStatus' = IF Owns(e) THEN "fanout_failed" ELSE runStatus
  /\ exec' = [exec EXCEPT ![e] = Acking(e, "failed")]
  /\ UNCHANGED <<owner, lock, taskVars, cancelVars, mq, scan, boundVars>>

MarkCancelled(e) ==
  /\ exec[e].pc = "closing" /\ exec[e].result = "cancelled"
  /\ IF Owns(e)
     THEN runStatus' = "cancelled" /\ owner' = NoOwner /\ lock' = "none"
     ELSE UNCHANGED runVars
  /\ exec' = [exec EXCEPT ![e] = Acking(e, "ok")]
  /\ UNCHANGED <<taskVars, cancelVars, mq, scan, boundVars>>

\* Ack, or Nack without requeue: the message leaves the queue either way.
Respond(e) ==
  /\ exec[e].pc = "acking"
  /\ exec' = [exec EXCEPT ![e] = Idle]
  /\ UNCHANGED <<runVars, taskVars, cancelVars, mq, scan, boundVars>>

\* A transaction fails (or its context is cancelled by a shutdown): loading
\* the campaign, any stage, or the closing UPDATE.
DbError(e) ==
  LET x == exec[e] IN
  /\ dbErrors < MaxDbErrors
  /\ dbErrors' = dbErrors + 1
  /\ \/ /\ x.pc \in {"loading", "closing"}
        /\ exec' = [exec EXCEPT ![e] =
             Acking(e, IF x.result = "cancelled" THEN "ok" ELSE "failed")]
     \/ /\ x.pc = "running"
        /\ exec' = [exec EXCEPT ![e] = Closing(e, "failed")]
  /\ UNCHANGED <<runVars, taskVars, cancelVars, mq, scan, faults, recovers>>

\* The lock query itself fails: the message is nacked, nothing is locked.
LockError(e) ==
  /\ exec[e].pc = "idle" /\ mq > 0
  /\ dbErrors < MaxDbErrors
  /\ dbErrors' = dbErrors + 1
  /\ mq' = mq - 1
  /\ exec' = [exec EXCEPT ![e] = Outside("acking", "failed", TRUE)]
  /\ UNCHANGED <<runVars, taskVars, cancelVars, scan, faults, recovers>>

\* The process dies; RabbitMQ requeues what it had not answered.
Crash(e) ==
  /\ exec[e].pc # "idle" /\ faults < MaxFaults
  /\ faults' = faults + 1
  /\ mq' = IF exec[e].unacked THEN mq + 1 ELSE mq
  /\ exec' = [exec EXCEPT ![e] = Idle]
  /\ UNCHANGED <<runVars, taskVars, cancelVars, scan, dbErrors, recovers>>

\* The connection is lost: the handler goes on, its message is requeued.
LoseConnection(e) ==
  /\ exec[e].unacked /\ faults < MaxFaults
  /\ faults' = faults + 1
  /\ mq' = mq + 1
  /\ exec' = [exec EXCEPT ![e].unacked = FALSE]
  /\ UNCHANGED <<runVars, taskVars, cancelVars, scan, dbErrors, recovers>>

\* The publisher's at-least-once delivery of the run's signal.
PublishAgain ==
  /\ faults < MaxFaults
  /\ faults' = faults + 1
  /\ mq' = mq + 1
  /\ UNCHANGED <<runVars, taskVars, cancelVars, exec, scan, dbErrors,
                 recovers>>

LockExpires ==
  /\ lock = "live"
  /\ lock' = "expired"
  /\ UNCHANGED <<runStatus, owner, taskVars, cancelVars, mq, exec, scan,
                 boundVars>>

\* POST /runs/{id}/recover: the owner is kept and nothing is sent.
RecoverRun ==
  /\ recovers < MaxRecovers
  /\ runStatus \in {"fanout_running", "fanout_failed"}
  /\ recovers' = recovers + 1
  /\ runStatus' = "fanout_pending"
  /\ lock' = "none"
  /\ UNCHANGED <<owner, taskVars, cancelVars, mq, exec, scan, faults,
                 dbErrors>>

-----------------------------------------------------------------------------
(* Delivery, seen from the campaign.                                       *)

PublishSignal(c) ==
  /\ c \in outbox
  /\ outbox' = outbox \ {c}
  /\ signals' = signals \cup {c}
  /\ UNCHANGED <<runVars, task, stats, nacked, cancelVars, mq, exec, scan,
                 boundVars>>

\* A worker takes the message: it leases a waiting task, or drops the message.
\* incrementSending counts the task as queued, whichever it was.
LeaseTask(c) ==
  /\ c \in signals
  /\ signals' = signals \ {c}
  /\ IF task[c] \in Waiting
     THEN /\ task' = [task EXCEPT ![c] = "sending"]
          /\ stats' = Move("queued", "sending")
     ELSE UNCHANGED <<task, stats>>
  /\ UNCHANGED <<runVars, outbox, nacked, cancelVars, mq, exec, scan,
                 boundVars>>

\* The lease's transaction fails: the message is nacked and not requeued, and
\* the retry scanner looks for retry_scheduled tasks only.
LeaseFails(c) ==
  /\ c \in signals /\ dbErrors < MaxDbErrors
  /\ dbErrors' = dbErrors + 1
  /\ signals' = signals \ {c}
  /\ nacked' = nacked \cup {c}
  /\ UNCHANGED <<runVars, task, outbox, stats, cancelVars, mq, exec, scan,
                 faults, recovers>>

\* The outcome of an attempt: a retry becomes a cancellation once the
\* campaign is being cancelled.
EndTask(c, s) ==
  /\ task[c] = "sending"
  /\ s = "cancelled" => campaign \in {"cancelling", "cancelled"}
  /\ task' = [task EXCEPT ![c] = s]
  /\ stats' = Move("sending", s)
  /\ UNCHANGED <<runVars, outbox, signals, nacked, cancelVars, mq, exec,
                 scan, boundVars>>

FinishTask(c) == \E s \in Final : EndTask(c, s)

\* No step takes from the column retry_scheduled again: it counts the retries.
RetryTask(c) ==
  /\ stats.retry_scheduled < MaxRetries
  /\ EndTask(c, "retry_scheduled")

\* The retry scanner's signal for a task that is due.
RepushSignal(c) ==
  /\ task[c] = "retry_scheduled" /\ c \notin outbox
  /\ outbox' = outbox \cup {c}
  /\ UNCHANGED <<runVars, task, signals, stats, nacked, cancelVars, mq, exec,
                 scan, boundVars>>

-----------------------------------------------------------------------------
(* Cancellation.                                                           *)

\* POST /campaigns/{id}/cancel.  The status and the event are one
\* transaction; the event's dedupe key is the campaign.
RequestCancel ==
  /\ campaign = "running"
  /\ campaign' = "cancelling"
  /\ cancelEvent' = "pending"
  /\ UNCHANGED <<eventOwner, processing, runVars, taskVars, mq, exec, scan,
                 boundVars>>

ClaimCancel(p) ==
  /\ p \notin processing /\ cancelEvent = "pending"
  /\ cancelEvent' = "publishing"
  /\ eventOwner' = p
  /\ processing' = processing \cup {p}
  /\ UNCHANGED <<campaign, runVars, taskVars, mq, exec, scan, boundVars>>

\* Both UPDATEs of the event ask for its owner; what a processor does to the
\* campaign does not.
CloseEvent(p, s) ==
  /\ processing' = processing \ {p}
  /\ IF cancelEvent = "publishing" /\ eventOwner = p
     THEN cancelEvent' = s /\ eventOwner' = NoOwner
     ELSE UNCHANGED <<cancelEvent, eventOwner>>

CanCancel == campaign \in {"running", "cancelling"}

\* The tasks, the run, the campaign and the event in one transaction.  The
\* counts come from RETURNING, which shows the new status: they are zero, and
\* apply_cancel_stats_delta returns without touching campaign_stats.
ProcessCancel(p) ==
  /\ p \in processing
  /\ CloseEvent(p, "archived")
  /\ IF CanCancel
     THEN /\ task' = [c \in Targets |-> IF task[c] \in Waiting
                                        THEN "cancelled" ELSE task[c]]
          /\ IF runStatus \in {"fanout_pending", "fanout_running"}
             THEN /\ runStatus' = "cancelled"
                  /\ owner' = NoOwner
                  /\ lock' = "none"
             ELSE UNCHANGED runVars
          /\ campaign' = "cancelled"
     ELSE UNCHANGED <<task, runVars, campaign>>
  /\ UNCHANGED <<outbox, signals, stats, nacked, mq, exec, scan, boundVars>>

\* _mark_retry after an exception.
RetryCancel(p) ==
  /\ p \in processing /\ dbErrors < MaxDbErrors
  /\ dbErrors' = dbErrors + 1
  /\ CloseEvent(p, "pending")
  /\ UNCHANGED <<campaign, runVars, taskVars, mq, exec, scan, faults,
                 recovers>>

CrashProcessor(p) ==
  /\ p \in processing /\ faults < MaxFaults
  /\ faults' = faults + 1
  /\ processing' = processing \ {p}
  /\ UNCHANGED <<campaign, cancelEvent, eventOwner, runVars, taskVars, mq,
                 exec, scan, dbErrors, recovers>>

\* The recover service's reset of a stuck outbox row: its owner is gone, or
\* slower than the 30 s lock.
ResetCancel ==
  /\ cancelEvent = "publishing"
  /\ \/ eventOwner \notin processing /\ faults' = faults
     \/ /\ eventOwner \in processing /\ faults < MaxFaults
        /\ faults' = faults + 1
  /\ cancelEvent' = "pending"
  /\ eventOwner' = NoOwner
  /\ UNCHANGED <<campaign, processing, runVars, taskVars, mq, exec, scan,
                 dbErrors, recovers>>

-----------------------------------------------------------------------------
(* The campaign finalizer.                                                 *)

Completable ==
  /\ stats.total > 0
  /\ stats.queued + stats.sending + stats.retry_scheduled = 0
  /\ campaign \in {"running", "cancelling"}

FetchCompletable ==
  /\ scan = NoScan /\ Completable
  /\ scan' = [status |-> campaign, total |-> stats.total,
              succeeded |-> stats.succeeded,
              dead_lettered |-> stats.dead_lettered,
              cancelled |-> stats.cancelled]
  /\ UNCHANGED <<runVars, taskVars, cancelVars, mq, exec, boundVars>>

Verdict(c) ==
  IF c.status = "cancelling" \/ c.cancelled = c.total THEN "cancelled"
  ELSE IF c.dead_lettered = 0 /\ c.cancelled = 0 THEN "completed"
  ELSE IF c.succeeded = 0 THEN "failed"
  ELSE "partially_failed"

\* finalize_campaign: a compare-and-swap on the status that was read.
CanFinalize == campaign = scan.status

FinalizeCampaign ==
  /\ scan # NoScan
  /\ scan' = NoScan
  /\ campaign' = IF CanFinalize THEN Verdict(scan) ELSE campaign
  /\ UNCHANGED <<cancelEvent, eventOwner, processing, runVars, taskVars, mq,
                 exec, boundVars>>

\* The transaction fails, or the recover service dies.
FinalizeFails ==
  /\ scan # NoScan /\ dbErrors < MaxDbErrors
  /\ scan' = NoScan
  /\ dbErrors' = dbErrors + 1
  /\ UNCHANGED <<runVars, taskVars, cancelVars, mq, exec, faults, recovers>>

-----------------------------------------------------------------------------
Consume(e) == AcquireLock(e) \/ SkipRun(e)
Pipeline(e) ==
  \/ ReadPage(e) \/ Enrich(e) \/ SendTasks(e)
  \/ CheckCancelled(e) \/ InsertBatch(e) \/ ExtendLock(e)
Close(e) ==
  \/ FinishPipeline(e) \/ MarkCompleted(e) \/ MarkFailed(e)
  \/ MarkCancelled(e) \/ Respond(e)
Progress(e) == LoadCampaign(e) \/ Pipeline(e) \/ Close(e)
Fault(e) == DbError(e) \/ LockError(e) \/ Crash(e) \/ LoseConnection(e)

Next ==
  \/ \E e \in Executors : Consume(e) \/ Progress(e) \/ Fault(e)
  \/ PublishAgain \/ LockExpires \/ RecoverRun
  \/ \E c \in Targets : \/ PublishSignal(c) \/ LeaseTask(c) \/ LeaseFails(c)
                         \/ FinishTask(c) \/ RetryTask(c) \/ RepushSignal(c)
  \/ RequestCancel
  \/ \E p \in Processors : \/ ClaimCancel(p) \/ ProcessCancel(p)
                            \/ RetryCancel(p) \/ CrashProcessor(p)
  \/ ResetCancel
  \/ FetchCompletable \/ FinalizeCampaign \/ FinalizeFails

Spec == Init /\ [][Next]_vars

\* Consumers receive, handlers run, loops poll.  Nothing is assumed of
\* faults, of users and operators, or of the lock's expiry.  A task is not
\* retried for ever: attempts are bounded by max_attempts (module Delivery).
Fairness ==
  /\ WF_vars(\E e \in Executors : Consume(e))
  /\ \A e \in Executors : WF_vars(Progress(e))
  /\ \A c \in Targets :
       /\ WF_vars(PublishSignal(c)) /\ WF_vars(LeaseTask(c))
       /\ SF_vars(FinishTask(c)) /\ WF_vars(RepushSignal(c))
  /\ \A p \in Processors : WF_vars(ProcessCancel(p))
  /\ WF_vars(\E p \in Processors : ClaimCancel(p)) /\ WF_vars(ResetCancel)
  /\ WF_vars(FetchCompletable) /\ WF_vars(FinalizeCampaign)

FairSpec == Spec /\ Fairness

-----------------------------------------------------------------------------
(* Properties *)

TypeOK ==
  /\ runStatus \in RunStatus
  /\ owner \in {WorkerId[e] : e \in Executors} \cup {NoOwner}
  /\ lock \in Lock
  /\ task \in [Targets -> TaskStatus \cup {"absent"}]
  /\ outbox \in SUBSET Targets
  /\ signals \in SUBSET Targets
  /\ stats \in [TaskStatus \cup {"total"} -> Int]
  /\ campaign \in CampaignStatus
  /\ cancelEvent \in CancelEvent
  /\ eventOwner \in Processors \cup {NoOwner}
  /\ processing \in SUBSET Processors
  /\ mq \in Nat
  /\ exec \in [Executors -> Executor]
  /\ scan \in [status : CampaignStatus \cup {"none"}, total : Int,
                succeeded : Int, dead_lettered : Int, cancelled : Int]
  /\ faults \in 0 .. MaxFaults
  /\ dbErrors \in 0 .. MaxDbErrors
  /\ recovers \in 0 .. MaxRecovers
  /\ nacked \in SUBSET Targets

Inserted == {c \in Targets : task[c] # "absent"}
InFlight(q) == UNION {q[i] : i \in DOMAIN q}

\* No recipient is lost or added twice to total_tasks, however often the
\* fan-out is repeated, interrupted or run by two executors at once.
TotalInv == stats.total = Cardinality(Inserted)

\* A task that waits for its first attempt has a signal on its way, however
\* executions, cancellations and workers overlap: the only ones without are
\* those whose lease transaction failed.
SignalInv == Having("queued") \subseteq outbox \cup signals \cup nacked

\* Whatever an executor has read past is inserted or still in its pipeline.
PipelineInv ==
  \A e \in Executors : LET x == exec[e] IN
    /\ x.pc = "running" =>
         /\ \A c \in Targets : UserOf[c] <= x.cursor =>
              \/ c \in Inserted \cup x.hand \cup InFlight(x.tasks)
              \/ UserOf[c] \in InFlight(x.users)
              \/ x.stage = "checked" /\ c \in x.batch
         /\ x.scanned => x.cursor = NumUsers
    /\ x.pc = "closing" /\ x.result = "ok" => Targets \subseteq Inserted

\* fanout_completed is true: every channel of the selected users has its task,
\* although two executions, of one WORKER_ID too, close the run for each other.
CompletedRunIsWhole ==
  runStatus = "fanout_completed" => Targets \subseteq Inserted

\* The lock gives the run to one execution per time it became pending:
\* duplicated and redelivered messages start no second one.
ExecutionsAreGranted ==
  Cardinality({e \in Executors : Executing(e)}) <= recovers + 1

\* Inserting after a cancellation is bounded: an executor that passed its
\* check commits that one batch, the tasks of one page, and no more.
LateTasksAreBounded ==
  campaign = "cancelled" =>
    Cardinality(Having("queued")) <= PageTasks * Cardinality(Executors)

\* What the finalizer wrote was earned: its row may be stale, the tasks that
\* justify the verdict are there.
VerdictIsEarned ==
  /\ campaign \in {"completed", "partially_failed"} => Having("succeeded") # {}
  /\ campaign \in {"failed", "partially_failed"} =>
       Having("dead_lettered") \cup Having("cancelled") # {}

\* A cancelled run stays so: the executor that was expanding it can neither
\* complete nor fail it afterwards, and recover_run refuses it.
CancelledRunStays ==
  [][runStatus = "cancelled" => runStatus' = "cancelled"]_vars

\* A decided campaign is not decided again by a stale finalizer row or by a
\* cancel event processed twice.
VerdictIsFinal ==
  [][campaign \notin {"running", "cancelling"} => campaign' = campaign]_vars

\* An accepted cancel request ends, although the processor may die with the
\* event, or two processors may hold it.
CancelEnds == campaign = "cancelling" ~> campaign = "cancelled"

\* A run whose executors and transactions survive is closed: the stages of
\* the pipeline never wait for each other on their bounded channels.
RunCloses ==
  [](faults + dbErrors = 0) =>
    <>(runStatus \in {"fanout_completed", "fanout_failed", "cancelled"})

-----------------------------------------------------------------------------
(* Claims of the documentation that the code does not keep *)

\* README 237-248: a fan-out that died is reset and its signal sent again.
RunNotAbandoned == runStatus = "fanout_running" ~> runStatus # "fanout_running"

\* docs/01, 8.7: a campaign is completed when its fan-out is.
CompletedMeansAllTasksEnded ==
  campaign = "completed" => \A c \in Inserted : task[c] \in Final

\* docs/01, 8.7: a completed fan-out without tasks completes the campaign.
EmptyCampaignEnds ==
  runStatus = "fanout_completed" ~> campaign \notin {"running", "cancelling"}

\* docs/03: cancelling stops the tasks that were not started.
CancelStopsWaitingTasks ==
  [][campaign = "cancelled" /\ campaign' = "cancelled" =>
       \A c \in Targets : task[c] # "sending" => task'[c] # "sending"]_vars

\* README: statistics without drift.
StatsMatchTasks ==
  \A c \in TaskStatus : stats[c] = Cardinality(Having(c))
=============================================================================
