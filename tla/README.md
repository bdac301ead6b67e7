# Formal model of the notification service

TLA+ specifications of the notification service in this repository, TLC
configurations that check them on small instances, and TLAPS proofs of the
safety of its five concurrent parts for every instance. The modules are
translated from the code. Where the documentation or a comment says something
else the code wins, and the difference is written down in section 6.

Run a check with `tlc -config <run>.cfg <MC module>`, a proof with `tlapm
<module>Proofs.tla`. `PROJECT.json` lists the components, runs, hazards,
theorems, findings, and the source lines of every definition.

## 1. The system

A manager creates a *campaign* for a *selector* of users. A fan-out worker
expands it into one *delivery task* per channel of each recipient. A delivery
worker sends each task to a provider, retries it, or gives it up. The recover
service repairs what crashes leave behind and decides how the campaign ended.

```
 API --INSERT--> campaign, run, outbox row --publisher--> RabbitMQ (runs)
                                                              |
                 delivery_tasks, outbox rows, stats <-- fan-out worker
                              |
                          publisher --> RabbitMQ (tasks) --> delivery worker
                              ^                                   |
   recover service -- retries, leases, stuck and failed rows      v
                   -- finalizer: campaign verdict             provider
```

The processes share no memory. They meet in PostgreSQL rows, each changed in
short transactions, and in RabbitMQ messages, which carry only identifiers. All
of the difficulty lies between two transactions: a worker calls the provider
between its lease and its result, recovery acts on rows that it read earlier,
the publisher publishes before it deletes, and every process may die in
between, be slow, or receive its message twice.

### Inventory

**Delivery worker** (`delivery`). State: in `delivery_tasks` the status,
`lease_token`, `lease_until`, `available_at`, `attempt_count`; one
`delivery_attempts` row per lease; `dlq_items`; `campaign_stats`. Per
goroutine: the task and token it holds, the outcome it decided, the unacked
message. Operations: lease (task, attempt and counters in one transaction),
heartbeat, provider call, cancellation check before a retry, finalize by
compare-and-swap on the token, ack or nack. Hard: lease expiry during a
provider call, redelivered and repeated messages, death at any point. Correct
when leases are exclusive, one attempt row exists per lease, a success was
accepted by the provider, settled tasks stay settled, every task is settled.

**Fan-out worker** (`funout`). State: in `campaign_region_runs` the status and
the lock (`fanout_lock_owner`, `fanout_lock_until`); it inserts tasks, outbox
rows and statistics. Per execution: a pipeline of three goroutines over two
bounded channels, and a keyset cursor. Operations: lock the run, read a page,
enrich it, check for cancellation, insert a batch, extend the lock, complete,
fail or cancel the run. Hard: two executions at once, cancellation between the
check and the insert, a stage that fails while another waits on a full channel,
the last page. Correct when no recipient is lost or counted twice, a completed
run is whole, a cancelled run stays cancelled.

**Outbox publisher** (`publisher`). State: `outbox_events` (status,
`next_attempt_at`, `locked_by`, `locked_until`, `attempt_count`). In memory:
the claimed batch. Operations: claim with SKIP LOCKED, publish with confirms,
mark for retry or as failed, delete the batch, release its own stale rows.
Hard: it dies between publication and deletion, a confirm is lost, rows are
marked and deleted by id only, by a relay that overslept its lock too. Correct
when a row leaves the outbox only if it was sent or somebody was told.

**Recover service** (`recover`). Keeps no state. Jobs: lease recovery, retry
scanner, reset of stuck outbox rows, failed-outbox scanner, campaign finalizer.
Operator endpoints: `recover_run`, `force_retry`, `replay_dlq`. Hard: each job
and each endpoint reads rows in one transaction or statement and acts on them
in others. Correct when what it does still fits the rows when it does it: a
replayed task is one nobody sends, an open DLQ item is a dead-lettered task's,
the statistics miss nothing.

**API** (`api/notifications_api`). State: campaigns, runs, users, templates,
idempotency keys, outbox rows. Operations: create and cancel a campaign, DLQ
replay, idempotent requests, and a loop that processes cancel requests. Hard:
the cancel processor races fan-out, delivery and finalizer; its event may be
processed twice; a request dies while its idempotency key is being processed.
Correct when a decided campaign stays decided, an accepted cancel ends, and a
request that is sent again does not repeat what it did.

**RabbitMQ and the provider** are external. RabbitMQ requeues what was not
acked, loses what was nacked without requeue (a dead queue nothing consumes),
and may accept a message whose confirm is lost. The provider may have accepted
a notification although the reply was a failure or a timeout.

**Frontend** (`frontend`). State: the session token, in React and in
`localStorage`; one flag `busy` for all operations; the list of campaigns, the
selected one and whose rows are shown; the form of a new campaign and the
estimate of its recipients. Operations: login, refresh, create, import, cancel,
toggle, replay, each a chain of requests inside `setBusyMessage`; effects that
start requests by timers. Hard: operations that overlap because a timer or an
unguarded button starts one beside another, closures that see the state of the
render that started them, answers that come late or after a logout, a refusal
of an old token. Correct when what is shown is what was asked for last, no good
session is dropped, no button stays disabled, and no task is left out of a bar.

**Load tests, deployment, migrations** keep no state that races and are not
modelled.

## 2. The modules

| Module | What it models | Proofs |
|---|---|---|
| `Delivery` | delivery workers, lease recovery, retry scanner, signals, time | `DeliveryProofs` |
| `TaskLedger` | what delivery promises about a task (abstract) | refined by `Delivery` |
| `Fanout` | fan-out workers, cancel request and processor, finalizer, `recover_run` | `FanoutProofs`, `CampaignProofs` |
| `Outbox` | relays, stuck and failed outbox jobs | `OutboxProofs` |
| `Replay` | API replay under an idempotency key, `force_retry`, `replay_dlq`, against a worker and the outbox | `ReplayProofs` |
| `Frontend` | the console: session, busy flag, lists, operations, timers | `FrontendProofs`, `ConsoleProofs` |
| `CreateScreen` | the form of a new campaign and its estimate; used by `Frontend` | in `FrontendProofs` |
| `Adapters` | the frontend's conversions of the API's answers; used by `Frontend` | |
| `AtLeastOnce` | what the outbox promises about a signal (abstract) | refined by `Outbox` |
| `MCDelivery`, `MCFanout`, `MCOutbox`, `MCReplay`, `MCFrontend` | constants and symmetry for TLC | |

The modules cut the system at its rows. `Delivery` has the detail of a task and
sees the outbox as a set of rows that are published; `Outbox` has the detail of
those rows and sees a task as queued, sending or ended; `Fanout` has the detail
of a run and a campaign and sees both others as single steps; `Replay` has the
detail of the operators' transactions and their row locks, and sees worker and
outbox as single steps. `Frontend` composes the screens and sees the API as
what it may say of a campaign, a status and eight counters, and how that
advances.

Every action is one transaction, one message operation, one provider reply or
one step of a pipeline goroutine.

### Delivery

The columns of `delivery_tasks` are the functions `status`, `token`, `lease`,
`available`, `attemptCount`; `attempts`, `dlq`, `stats` are the other tables.
`worker[w]` is what a goroutine holds: `pc` is where it is between its
transactions. Two abstractions: time is what the code asks of it, so `lease`
says whether `lease_until` is past and `available` whether `available_at` is;
and the lease token, a fresh UUID drawn in the UPDATE that also increments
`attempt_count`, is represented by the attempt number.

| Code | Action |
|---|---|
| `AcquireLease`, `classifyLeaseFailure`, nack on error | `AcquireLease`, `SkipMessage`, `NackMessage` |
| `runHeartbeat` | `ExtendLease` |
| `HTTPAdapter.Send`, `buildFinalizeParams` | `ProviderAccepts`, `ProviderReturns` |
| `IsCampaignCancellationRequested` | `CheckCancellation` |
| `Finalize`, `ErrLeaseExpired` | `FinalizeCommits`, `FinalizeRejected` |
| ack, nack, lost connection, death | `Ack`, `NackResult`, `LoseConnection`, `Crash` |
| `fetch_expired_leases`, `recover_expired_lease` | `FetchExpired`, `RecoverLease`, `SkipRecovery` |
| `fetch_retry_ready`, `enqueue_retry_repush` | `FetchRetryReady`, `EnqueueRepush` |
| job errors and restart | `RecoverRowFails`, `RecoverCrash` |
| publisher | `Publish`, `PublishNotDeleted` |

`TaskLedger` is the abstract specification: a task is granted to one attempt
at a time, attempts are numbered without gaps, the attempt that holds the task
settles it once, and success needs that very attempt to have reached the
provider. Any attempt ever granted may still reach the provider: delivery is
at least once, and the ledger does not hide it.

### Fanout

`runStatus`, `owner`, `lock` are the run's row; `task`, `outbox`, `stats` what
fan-out inserts; `campaign`, `cancelEvent`, `eventOwner` the campaign and its
cancel event; `scan` the row the finalizer read. `exec[e]` is an execution:
`cursor` and `scanned` of the cursor stage, the two channels `users` and
`tasks` as sequences of batches, `hand` of the enrich stage, `batch` and
`stage` of the insert stage. A task is named by the user channel it is sent to
(its idempotency key is made of the campaign and that channel). A user may have
several: `Targets` are the channels, `UserOf` says whose they are, and a page
of users becomes the tasks of all their channels (`FindActiveByUsers`), at most
`PageTasks`.

| Code | Action |
|---|---|
| `AcquireLock`, `ErrAlreadyLocked` | `AcquireLock`, `SkipRun` |
| `stageCursor`, `stageEnrich` | `ReadPage`, `Enrich`, `SendTasks` |
| `stageInsert`: three transactions | `CheckCancelled`, `InsertBatch`, `ExtendLock` |
| `g.Wait`, `MarkCompleted/Failed/Cancelled`, ack or nack | `FinishPipeline`, `MarkCompleted`, `MarkFailed`, `MarkCancelled`, `Respond` |
| errors, death, lost connection | `DbError`, `LockError`, `Crash`, `LoseConnection` |
| `recover_run` | `RecoverRun` |
| cancel endpoint and processor | `RequestCancel`, `ClaimCancel`, `ProcessCancel`, `RetryCancel`, `CrashProcessor`, `ResetCancel` |
| finalizer job | `FetchCompletable`, `FinalizeCampaign`, `FinalizeFails` |
| publisher, delivery worker, retry scanner | `PublishSignal`, `LeaseTask`, `LeaseFails`, `FinishTask`, `RetryTask`, `RepushSignal` |

Delivery is seen as these single steps, and its statistics are the code's: a
lease takes one from `queued` whether the task was queued or waited for a
retry. A failed lease loses the message, and `nacked` is the history of that.

### Outbox

`rowStatus`, `due`, `lockedBy`, `lock`, `attemptCount` are the columns of
`outbox_events`; "gone" is a deleted row. A row signals a task, or a region run
(its payload has no `task_id`). `publisher[p]` is a relay's batch: rows still
to publish with the attempt number they were claimed with, rows published, the
row whose publication just failed. `claims` is history: how often relays
claimed the row, which `attempt_count` is not, since `reset_stuck_outbox`
increments it as well.

| Code | Action |
|---|---|
| `recover_stale_own`, `claim_batch` | `RecoverStaleOwn`, `Claim` |
| `Broker.publish` | `PublishConfirmed`, `PublishFails` |
| `mark_retry`, `mark_failed`, `delete_by_ids` | `MarkFailure`, `DeleteBatch` |
| an exception in the loop, death | `AbandonBatch` |
| `reset_stuck_outbox` | `ResetStuck` |
| `fetch_failed_outbox`, `dead_letter_failed_outbox` | `FetchFailed`, `DropFailedRun`, `DeadLetter`, `ScanFails` |
| delivery worker, its retries | `LeaseTask`, `EndAttempt`, `SignalRetry` |

A task has its five states here, `retry_scheduled` among them, since both sides
of the statistics ask for it: a lease takes one from `queued` for a retried
task too, and giving up takes one from the column of the status, `GREATEST(x -
1, 0)`.

`AtLeastOnce` is the abstract specification: a signal may be sent any number
of times and is forgotten only once it was sent or reported.

### Replay

`task`, `attemptCount`, `maxAttempts`, `lease` are the columns of
`delivery_tasks`, `expired` says whose `lease_until` is past, `sending[t]` are
the attempts workers are making, `scan` the rows lease recovery read, `items`
and `open` the `dlq_items` of a task, `dead` the counter in `campaign_stats`,
`key` the row in `idempotency_keys`. A request of the API takes its locks one
by one (`apiItems`, then `apiTasks`), a call of the recover service in the
other order (`updated`: the task is locked, the item not yet), so the two can
deadlock and PostgreSQL ends one of them. Writes appear with the commit.

| Code | Action |
|---|---|
| `start_idempotent_request` | `FindsNoKey`, `InsertKey`, `StartAgain` |
| `replay_dlq` (API): select, lock, write, commit | `SelectItems`, `LockTask`, `CommitReplay` |
| rollback, `fail_idempotent_request`, death | `AbortReplay`, `FailReplay`, `FailKey`, `ApiCrash` |
| `force_retry_task`, `replay_dlq` (recover) | `ReadItem`, `ReadTask`, `UpdateTask`, `CommitRetry`, `AbortRetry` |
| publisher, failed scanner, retry scanner, worker | `Publish`, `GiveUp`, `DropApiRow`, `RetryRepush`, `LeaseTask`, `EndAttempt` |
| heartbeat, lease recovery | `LeaseExpires`, `ExtendLease`, `FetchExpired`, `RecoverLease` |

`overtaken`, `givenUp` and `recovered` are history: the recover calls that
wrote over a state other than the one they read, the tasks whose outbox row was
given up, and the attempts still under way whose expired lease recovery took.
The last are how the code has two senders without any operator
(docs/01:1664-1668); `OneSendAtATime` excepts these attempts and no other. A
task is `Disturbed` by either. Several properties hold for tasks that were not
disturbed and are false for those that were; the exception is part of what the
code promises, since `replay_dlq` of the recover service updates the task
without asking for its status.

### Frontend

An operation is a slot `op[o]`: the request its main line awaits, the token it
was sent with, and its closure. Between two awaits everything else may happen.
A read of statistics or details is answered in two steps, `ServeRead` and the
arrival, so what arrives may be old. Each answer of the API is one of
`Snapshots`: a status and eight counters that add up, every one of which
occurs. A write to `localStorage` may be refused (`Store`, session.js:11-20):
then React has the new session and the next request carries the old token, or
none. A read that is refused is the same as nothing stored.

| Code | Action |
|---|---|
| `setBusyMessage`: start, finally, catch | `Begin`, `Finally`, `GoesOn`, `Rejected`, `SessionEnds` |
| buttons | `Login`, `Refresh`, `Create`, `Import`, `Cancel`, `Toggle`, `Replay`, `Open`, `GoToCreate`, `LeaveCreate`, `Logout`, `Reload` |
| effects and their timers | `SelectionEffect`, `FireRefresh`, `FireDetails` |
| `refreshAll`, `loadCampaigns`, `loadChannels`, `loadCampaignDetails`, `waitCampaignCancelFinalized` | `HealthAnswered`, `ListAnswered`, `StatsAnswered`, `ChannelsAnswered`, `DetailsAnswered`, `PollAnswered`, `PollClock` |
| `request` that fails, `.catch(() => null)` | `MainRejected`, `ChannelsRejected`, `PostRejected`, `Lose` |
| estimate effect of `CampaignCreateScreen` | `EditForm`, `FireEstimate`, `Estimate` (`CreateScreen`) |
| `session.js` | `Store` |
| `adapters.js`: the list | `AdaptCampaignStatus`, `AdaptStats`, `AdaptCampaign` (`Adapters`) |
| `App.jsx`'s own copies: details and polls | `MapCampaignStatus`, `NormalizeCampaignStats` (`Adapters`) |

`clashes` is history: what on the screen is not to be relied on ("busy", the
list, the rows), until an operation that writes it runs alone. Three things
clash: what two operations that overlap both write, since the code has no order
for their answers; the rows after a cancel that strays (`Stray`: the campaign
chosen is not in the list, the first one is shown in its place and cancelled,
and its rows are loaded); and the list when statistics were lost, since
`.catch(() => null)` shows their campaigns with zeros. The properties say what
holds without a clash; with one, nothing does.

Each module contains definitions `Faulty_...`, plausible bugs of single
definitions. No specification uses them; replacing the definition by its faulty
form makes TLC report the property it is kept for.

## 3. The runs

Bounds on faults are budgets: `MaxCrashes` or `MaxFaults` crashes, lost
connections and repeated publications (in `Replay` also rows given up and lost
commit answers), `MaxDbErrors` failed transactions (in `Fanout` failed leases
too), `MaxRecovers` operator requests, `MaxRetries` retries of all tasks,
`MaxClicks` what the manager does, `MaxFailures` the requests that fail and the
writes to `localStorage` that are refused. One fault, at any point, already
combines with every interleaving and with every expiry of a lock or a lease,
which costs no budget in `Delivery` and `Fanout`; in `Replay` an expiry costs a
fault.

| Run | Instance | Asks |
|---|---|---|
| `delivery_one_task` | 1 task, 2 workers, 2 attempts, 1 crash | safety of leases, DLQ and statistics; refinement of `TaskLedger` |
| `delivery_two_tasks` | 2 tasks, 2 workers, 1 attempt, 1 crash, 1 error | the inductive invariant where tasks share statistics, scans and workers |
| `delivery_db_errors` | 1 task, 1 worker, 2 attempts, 1 crash, 1 error | liveness: retries run, tasks are settled |
| `fanout_shared_id` | 2 users, one with 2 channels and one with none, 2 executors of one WORKER_ID, 1 fault, 1 error, 1 `recover_run` | recipients and signals when two executions overlap |
| `fanout_cancel` | 3 users, one with 2 channels, 1 executor, 2 processors, 1 fault, 1 error | cancel processors, finalizer and fan-out race |
| `fanout_ends` | 2 users, 1 channel, 1 executor, 2 processors, 1 retry, 1 fault, 1 error | liveness: the run closes, a cancel ends |
| `outbox` | 2 task rows, 1 unroutable run row, 2 relays, batches of 2, 3 attempts of a row, 2 of a task, 1 fault | signals are kept, claims overlap only after an overslept lock, who is given up and how it is counted, rows leave; refinement of `AtLeastOnce` |
| `replay` | 1 task, 2 API requests with one key, 1 recover call, 2 faults | DLQ, statistics, one sender, one effect per key, and that no call waits for ever |
| `frontend` | 2 campaigns, 6 answers of the API, 2 operations in flight, 2 clicks, 1 failure, 2 sessions | what is shown, when buttons are enabled, which session survives |
| `frontend_live` | the same, 1 click | liveness: buttons are enabled again, chosen rows appear |
| `delivery_attempts_bound`, `replay_unsent` | as small as the counterexample allows | claims the code does not keep (section 6) |

Invariants that a refinement or another proved invariant implies are not
checked a second time: `TypeOK` of `Fanout`, `Outbox` and `Replay`, which is
proved, and of `Delivery`, a conjunct of its `IInv`; that of `Frontend`,
proved; `AttemptsInv` and `SuccessInv`, conjuncts of the `IInv` that
`delivery_two_tasks` checks; `NoSignalLost`, which `ContractSpec` contains;
`TotalInv` and `ExecutionsAreGranted`, which follow from the `IInv` of
`FanoutProofs`. They are stated in the modules and proved.

Why these bounds are enough to meet the interesting cases:

* Two workers and two attempts are what it takes for a worker that lost its
  lease to finalize against the next holder. A third attempt repeats the same
  step; a third worker can only hold an older token.
* Two tasks matter only for what tasks share: the counters, the rows of one
  scan, and the workers. One attempt each is enough for that.
* In `Fanout` the batch size and the channel size are 1: every full channel,
  every last, short and empty page occurs with two or three users. In
  `fanout_shared_id` and `fanout_ends` the second user has no channel, so a page
  can also be dropped; in `fanout_cancel` the last one has two, so a late batch
  has more tasks than users. Three users let the cancellation and the finalizer
  fall between two batches that are both not the last. Retries change none of
  what the first two runs ask; `fanout_ends` has one.
* `Unroutable` contains the run's row, so the path to `failed` needs no fault;
  a lost confirm, which leads a task's row there, costs none either. `outbox`
  has two starts of three rows, two of which have a life in each: a task's and
  the run's, which relays claim in one batch, or two tasks', which share the
  statistics, one of them already in RabbitMQ. A task with two attempts is what
  it takes for a lease out of `retry_scheduled` to take `queued` to zero before
  the other task is given up; with three attempts of a row, two claims and
  one reset make it `failed`, which is fewer than `max_attempts` claims and more
  than what a limit that is one too low would allow.
* In `Replay` two faults are what it takes to lose the answer of a commit and
  to crash, to give up a row, or to have a lease expire besides; one recover
  call and one request in progress are what a deadlock needs, a second request
  what the key is for.
  The task has one attempt of its own, so that it gets to the DLQ at once, and
  `Ceiling = 3` leaves room for the further ones the calls grant.
* In `Frontend` two slots let any two operations overlap, and two clicks let
  the manager start one besides those the timers start. `MaxSessions = 2` is
  an old and a new session. Campaign 2 may be created on the way, so that the
  default selection changes. In `frontend_live` one click is enough, since the
  timers overlap with it. The six snapshots are a campaign without tasks, one
  whose three tasks are queued, sent and waiting, both also being cancelled, one
  that ended with a success, a failure and a dead letter, and one that was
  cancelled: each of the seven counters of tasks is somewhere not zero, and so
  a bar that leaves one out is short.
* `MaxCopies = 1` holds back publication while a copy waits, it loses none.
  Repeated deliveries still happen: a requeue is not held back.

`frontend` (3.2 million states), `fanout_shared_id` (1.9 million) and
`fanout_cancel` (1.7 million) are the largest, then `delivery_one_task` (0.77
million); of those that check liveness `outbox` (0.64 million), `replay` (0.45
million), `delivery_db_errors` (0.25 million), `fanout_ends` (0.12 million) and
`frontend_live` (0.09 million). Symmetry is used only in runs without liveness,
on model values that no definition orders. Deadlock is not checked: a campaign
whose tasks are all settled is at rest, operators need not send requests, and
the manager may stop clicking.

## 4. Fairness

Liveness is checked under `FairSpec` (`Spec` in `Frontend`). What it assumes
and why the code justifies it:

* Consumers receive and handlers run: the workers are goroutines in a receive
  loop that reconnects, a provider call ends by its 320 s deadline.
  `Consume` in `Delivery` is strongly fair, because a message a busy
  worker cannot take is offered again when it is idle.
* The jobs, the relay and the cancel processor are loops that sleep and poll;
  each of their steps is weakly fair. Publication in `Delivery` is strongly
  fair only because of the bound `MaxCopies`, which disables it in between.
* Clocks advance: `LeaseExpires`, `BecomesAvailable`, `BecomesDue`, and in
  `Outbox` `LockExpires`, are weakly fair. A heartbeat may revive a lease for
  ever only while its worker is sending, and that ends.
* In `Fanout` a task ends after finitely many retries (`FinishTask` is strongly
  fair, `RetryTask` is not assumed): `attempt_count` is bounded, which
  `Delivery` has in detail. Of leases that fail nothing is assumed.
* In `Replay` publisher, retry scanner and workers are loops as above, and a
  request or call that has begun goes on: each statement returns, or PostgreSQL
  ends the transaction because of a deadlock (`deadlock_timeout`). Nobody has to
  send a request, and nothing is assumed of lease recovery.
* In `Frontend` every request ends and the event loop runs the timers that
  are due. `client.js` sets no timeout of its own; that a request ends is the
  browser's and the proxy's promise and the one thing assumed of the network.
* Nothing is assumed of heartbeats, of the provider's or the broker's answers,
  of faults, of users and of operators.

The liveness properties say under which faults they hold.
`RetryEventuallyRuns`, `CancelEnds`, `RowsLeave`, `RetryRuns`, `CallsEnd` and
`Unlocks` hold with all of them; `SettledUnlessNacked` needs that no
transaction fails, `RunCloses` that no executor or transaction does,
`RowsFollow` that no request fails and no two loads of rows overlap. Without
these conditions they are false, see section 6.

## 5. The proofs

Every theorem is proved for all values of the constants, which are restricted
only by the named assumptions `DeliveryAssumption`, `FanoutAssumption`,
`OutboxAssumption`, `ReplayAssumption`, `FrontendAssumption`,
`SnapshotsAssumption`, `InitialAssumption`, `CreateScreenAssumption`:
finiteness of the sets that are counted and of the list that has a newest
entry, null values outside of the sets they complete, bounds that are naturals,
initial states that have a type, `PageTasks` that is what its name says, and
answers of the API whose counters add up. `DeliveryProofs`, `OutboxProofs` and
`FanoutProofs` have one inductive invariant `IInv` each, proved conjunct by
conjunct, one step per group of actions, and derive the theorems from it;
`CampaignProofs` adds to that of `FanoutProofs`. In `ReplayProofs`,
`FrontendProofs` and `ConsoleProofs` the properties are independent and each
has a strengthening of its own.

Every invariant and every action property of a passing run is stated by a
theorem. A run shows it where TLC can look at each state, the theorem for every
number of workers, tasks, campaigns, faults and clicks.

**DeliveryProofs.** `IInv` joins `TypeOK`, `LeaseInv`, `AttemptsInv`,
`HoldersInv`, `OutcomeInv`, `SuccessInv`, `DlqInv` and `StatsInv`. None of the
others is inductive alone. That Finalize writes the right attempt row needs
`LeaseInv` (the token in the row is the newest attempt) and `HoldersInv` (the
worker's token was granted to it alone); that recovery closes exactly the open
row needs `AttemptsInv`; that a success is real needs `OutcomeInv` (what the
worker decided came from the provider); that the counters stay exact through
`GREATEST(x - 1, 0)` needs `StatsInv` itself: the counter it decrements is at
least one. Proved: `TypeCorrect`, `AuditIsComplete`, `LeasesAreExclusive`,
`SuccessIsReal`, `DlqIsExact`, `StatsAreExact`, `SettledIsFinal`,
`LeaseProtects`, and `ImplementsLedger`, the refinement of `TaskLedger`.

**OutboxProofs.** `IInv` joins `TypeOK`, `BatchInv`, `NoSignalLost`,
`QueuedIsFresh` and `StatsInv`. The statements that mark and delete a row do
not ask who owns it, so nothing can be said of a row from its own columns;
`BatchInv` says what a relay's memory guarantees: what it counts as published
was accepted by the broker, and the attempt number it holds for a row was
reached by that row. No step takes from the column `retry_scheduled` but giving
up a task that waits for its retry, so it is never short, and that step never
meets the zero of `GREATEST`; `QueuedIsFresh` (a queued task was never leased)
says that only giving up a task without a lease can. Proved: `TypeCorrect`,
`SignalsAreKept`, `StatsAreExact`, `EndedIsFinal`, and `ImplementsContract`,
the refinement of `AtLeastOnce`. `StatsAreExact` says what is exact in spite of
the leases that count a retried task as queued and of `GREATEST`: `sending` and
the results always, the sum of what waits until a task that was never leased is
given up; and from then on that sum is too great, never too small, so that the
finalizer closes nothing early. `ClaimsApart` is proved beside it: two relays
work on one row only if one of them overslept its lock. The statement counts
relays, so its strengthening `ClaimsInv` does too: of the relays that work on a
row at most one holds its live lock, each other one used a fault. It needs
`WorkInv` (an idle relay works on nothing, and a row is published once per
batch) and `PendingIsUnlocked` (a row that waits has no lock). `FailedByClaims`
says how many claims a row had when it is given up: `max_attempts`, less one
for each fault, and more than half in any case. Its strengthening `CountInv`
charges every increment of `reset_stuck_outbox` to the fault that left the row
to nobody, and each to a claim of its own.

**FanoutProofs.** `IInv` joins `TypeOK`, `TotalInv`, `SignalInv`, `LoadInv`,
`PipelineInv`, `CompletedRunIsWhole`, `OwnerInv`, `ScanInv` and `GrantInv`. The
lock protects nothing in this argument: executions may overlap and close the
run for each other, so a completed run is whole only because every execution
keeps `PipelineInv` for itself. Lemmas about channels (`InFlightAppend`,
`InFlightTail`) and pages (`Pages`: keyset pagination skips nobody, and a short
page is the last) carry it. `SignalInv` excepts the tasks whose lease failed
(`nacked`), and no others. `OwnerInv` (nobody owns a cancelled run) is why no
late executor reopens one, `ScanInv` why a decided campaign stays decided,
`GrantInv` counts executions against the times the run became pending. Proved:
`TypeCorrect`, `TotalsAreExact`, `QueuedIsSignalled`, `PipelineLosesNobody`,
`CompletedIsWhole`, `GrantedOnce`, `CancelledIsFinal`, `VerdictsAreFinal`.

**ReplayProofs.** `TypesHold` is the type invariant. `OneEffectHolds` needs
`KeyInv`: a request past its start is the only one and the key is processing,
and a key that is free to run again has an effect only for each commit whose
answer was lost. `ItemsMatchTasksHolds` and `OneSendHolds` need `CallInv` (a
call that is not answered read a status it may retry), `SendInv` (whoever sends
has the lease, unless recovery took it or the task was disturbed) and each
other: that a call does not take a task from its worker unless it was overtaken
is `RetryTakesNoLiveTask`. `DeliveredStaysHolds` follows from the same.
`DeadLettersCountedHolds` counts: each step that adds a dead letter adds one to
the counter, and a call that takes too many away is overtaken; its lemmas are
about the cardinality of the dead letters after one step.

**FrontendProofs.** `EstimatesAreCurrent` needs `ScreenInv`, the types of the
screen's state and that nothing is asked from a screen that is gone.
`BusyIsTrue` needs `BusyInv`: an operation whose `finally` has not run is in
flight, and without a clash at most one has not. It is the argument for why one
flag suffices when only one operation runs, and why `Begin` must record a clash
as soon as two do.

**ConsoleProofs.** Everything rests on what an operation may await: `OpsInv`
says which requests each kind of operation makes (`Awaited`), that only
`refreshAll` and the channel toggle have a second part in flight, and that only
they outlive their own `finally`. `BeginShape`, `GoesOnShape`, `MainAnswered`
and `PartRejected` say once what a step does to an operation and to the others;
the invariants cite them instead of the actions. `Newest` is a choice, which
exists because campaigns are finitely many (`Greatest`: the sets of greater
elements are well-founded under inclusion). On that:

* `ConsoleTyped` is the type invariant: every entry of the list is
  `AdaptCampaign` of the status of one answer of the API and the counters of
  another, which need not be equal. `Alike` shows that the two copies of the
  conversion agree, without which an entry that details or a poll wrote would
  have no such form. `BarsAlwaysAddUp` follows with `Adapted`, which is about
  any eight counters that add up.
* `GoodSessionsStay` needs `CurrentInv`: without a clash of "busy", and while
  the stored token is React's, every operation that runs was sent with that
  token. It holds by `BusyInv` of `FrontendProofs`: an operation alone meets no
  login beside it. That the two copies of the token agree is a condition and
  no lemma, since a refused write leaves them apart.
* `RowsAreOfSelected` needs `RowsInv`: while the effect's timer does not run,
  every load of rows in flight is for the selection, and the rows are there or
  a load is to come. That a timer and a click never load different campaigns is
  what `Begin` records as a clash; a cancel for a campaign that is not selected
  breaks it alone, which is why `Stray` is there.
* `CampaignsNeverGoBack` orders what the API says of a campaign, by its status
  and the number delivered (`After`), and shows
  that the API follows the order (`ServerMoves`), so that whatever was heard
  (`HeardInv`) and shown (`ShownInv`) was true once. `HolderInv` says that
  without a clash one operation at most is going to write the list, and
  that what it has read is not older than what is shown (`Fresh`). The
  status and the counters of one entry have different ages; each is compared
  with its own source.

Proving these showed two exceptions that hold of the code for some long
histories, and that `clashes` therefore records: the stray cancel and the lost
statistics (section 2).

**CampaignProofs.** Both properties of the finalizer's side are about counters
that agree with the tasks only for a while: the cancel processor's zero counts
leave them behind, for good. `StatsFollow` says what is exact until then:
`sending`, every result, and the sum of `queued` and `retry_scheduled`, but not
these two apart, since a lease takes from `queued` for a retried task too.
`Balance` says that total is the sum of the columns in any case. A verdict is
then earned because the row the finalizer read was (`ScanEarned`), and because
tasks that ended stay ended while the campaign is one that the finalizer may
still decide. `LateInv` bounds what arrives after a cancellation: of the
executors that passed their check before it, each holds at most the tasks of
one page (`HeldInv`, `PageTasks`), and whoever inserts them has left the set.
Proved: `CampaignInvariance`, `VerdictsAreEarned`, `LateTasksBounded`,
`StatsFollowTasks`.

**Only model-checked.** The liveness properties, which are out of the prover's
reach: `RetryEventuallyRuns`, `SettledUnlessNacked`, `RowsLeave`, `RunCloses`,
`CancelEnds`, `RetryRuns`, `CallsEnd`, `Unlocks`, `RowsFollow`.

## 6. Where the code and its documentation disagree

Kept as runs in which TLC finds a counterexample:

| Claim | What the code does | Run |
|---|---|---|
| Transient failures retry until `max_attempts` (docs/03:808) | lease recovery decides by the attempt count it read before; a task leased and expired in between is scheduled once more | `delivery_attempts_bound` |
| `POST /dlq/replay` can retry selected tasks (docs/03:838, 1190) | the signal it stores has a routing key no queue is bound to, the task is queued, and no scanner signals a queued task: it waits for ever | `replay_unsent` |

Stated in the modules, found violated by TLC, and not kept as runs:

* `StatsPerStatus` (`Delivery`), against README.md:558-562: every lease
  decrements `queued`, a retried task's too, so `queued` sinks and
  `retry_scheduled` rises by one per retry.
* `EventuallySettled` (`Delivery`), against README.md:3-4: a failed lease
  transaction nacks without requeue, and nothing signals a queued task again.
* `RunNotAbandoned` (`Fanout`), against README.md:244-246: only an operator's
  request resets a run whose executor died, and nothing signals it.
* `CompletedMeansAllTasksEnded` (`Fanout`), against docs/01:1787-1802: the
  finalizer looks at the counters only, so a campaign can be completed while
  its fan-out goes on.
* `NoRetryAfterCancel` (`Delivery`): a retry can be scheduled after the cancel
  request, since the campaign is read before Finalize's transaction, and lease
  recovery does not read it at all.
* `EmptyCampaignEnds` (`Fanout`): a campaign whose selector matches nobody
  stays running, since the finalizer asks for `total_tasks > 0`.
* `CancelStopsWaitingTasks` (`Fanout`): a batch inserted between the executor's
  check and the cancellation is sent although the campaign is cancelled.
* `StatsMatchTasks` (`Fanout`): the cancel processor takes its counts from
  `RETURNING status`, which shows the new status; they are zero and the
  statistics keep the cancelled tasks as queued.
* `NoRunLost` (`Outbox`): the row of a run that could not be published is
  deleted; the run stays `fanout_pending`.
* `DlqIsDeadLettered` (`Outbox`): giving up a row whose message was in fact
  delivered writes a DLQ item for a task that succeeded.
* `ResetIsNoAttempt` (`Outbox`), against docs/01:1767-1777:
  `reset_stuck_outbox` increments `attempt_count`, and the claim does so again,
  so a row is given up after fewer than `max_attempts` claims. `FailsByClaims`
  bounds by how many.
* `SettledIsCounted` (`Outbox`), against docs/03:868, by which a campaign
  eventually reaches a final status: leases of retried tasks take
  `queued` to zero or below while another task waits there; giving that one up
  stops at zero, it stays counted, and the campaign is never closed.

## 7. What is not modelled

* Campaign creation is one transaction and is the initial state of `Fanout`;
  users, templates, groups and imports of the API are edits of single rows.
* Of the frontend: texts, layout, the health badge, the result of an import,
  the states of channels and the contents of rows. Their requests are in the
  model where an operation awaits them.
* The wall clock is one for all processes. That `available_at` comes from the
  worker's clock and is compared with the database's is a hazard without a
  property.
* A failed outbox row keeps its dedupe key, which hides a later signal of the
  same attempt (`recover/repo.py:543`). It needs a publisher that gives up and
  a task that is retried in one module; in `Replay` a failed row is handled at
  once. A hazard without a property.
* The counters a given-up signal leaves wrong (section 6) are modelled in
  `Outbox` and not in `Frontend`, which takes each answer to add up: without
  that no bar could.
* Backoff lengths and jitter, metrics, configuration, templates, users, groups,
  password checks, reporting queries, migrations, load tests.
* Message payloads: they carry identifiers, and the rows are read again.

## 8. Plan

Done: `Delivery`, `TaskLedger`, `Fanout`, `Outbox`, `AtLeastOnce`, `Replay`,
`Frontend` with `CreateScreen` and `Adapters`, their runs and proofs. Left, in
this order:

1. The composition of `Outbox` with the retry scanner's dedupe key.
2. A skewed clock of the workers in `Delivery` and `Fanout`.
3. The claims of section 6 that no run keeps, as theorems of what does hold in
   their place, as `StatsFollowTasks` is for `StatsMatchTasks`.
4. Pure algorithms as operators, against a reference over bounded inputs: the
   retry delay of the Go worker and of the Python recovery, the publisher's
   backoff, the finalizer's verdict.
