------------------------------- MODULE Replay -------------------------------
(***************************************************************************)
(* Giving a task another chance: POST /dlq/replay of the API, which works  *)
(* under an Idempotency-Key (src/api), and the endpoints force_retry and   *)
(* replay_dlq of the recover service (src/recover), against the workers,   *)
(* the recovery of their leases, the outbox and its failed scanner.        *)
(*                                                                         *)
(* Transactions that wait for a row another one has locked take several    *)
(* actions here: the API locks the dlq_items rows first and then their     *)
(* tasks, the recover service the task first, so they can deadlock and     *)
(* PostgreSQL ends one of them.  Their writes are visible when they        *)
(* commit.  Workers and jobs are as in Delivery and Outbox, one step each. *)
(* status failed stands for cancelled too: all of this treats them alike.  *)
(***************************************************************************)
EXTENDS Integers, FiniteSets

CONSTANTS
  Tasks,
  ApiCalls,     \* requests POST /dlq/replay with one key and one body
  OpCalls,      \* calls of force_retry or replay_dlq
  MaxAttempts,  \* max_attempts of a new task
  Ceiling,      \* the most max_attempts the recover service sets
  Additional,   \* additionalAttempts of the requests
  MaxFaults     \* bound: rows given up, leases that run out, crashes and
                \* lost commit answers

ASSUME ReplayAssumption ==
  /\ IsFiniteSet(Tasks) /\ IsFiniteSet(ApiCalls) /\ IsFiniteSet(OpCalls)
  /\ MaxAttempts \in Nat \ {0} /\ Ceiling \in Nat
  /\ Additional \in Nat
  /\ MaxFaults \in Nat

VARIABLES
  task,         \* delivery_tasks.status
  attemptCount, \* delivery_tasks.attempt_count
  maxAttempts,  \* delivery_tasks.max_attempts
  lease,        \* lease_token, named by its attempt; 0 when NULL
  expired,      \* tasks with lease_until < NOW()
  sending,      \* the attempts some worker is making
  items,        \* number of dlq_items rows of the task, the last one's id
  open,         \* tasks whose last dlq_items row is open
  dead,         \* campaign_stats.dead_lettered
  outbox,       \* outbox_events: the task and the dedupe key
  mail,         \* tasks with a message in RabbitMQ
  scan,         \* rows read by fetch_expired_leases, not yet handled
  key,          \* idempotency_keys.status, "none" without the row
  apiPc,
  apiItems,     \* the items the request has locked, by their tasks
  apiTasks,     \* the tasks it has locked
  opPc,
  opTask,       \* the task a call is about, {} before it has read it
  opItem,       \* the item replay_dlq read, 0 for force_retry
  opSeen,       \* the status it read
  opMax,        \* the max_attempts it computed from what it read
  faults,
  \* history
  effects,      \* committed replays under the key
  doubts,       \* those whose commit was not answered
  overtaken,    \* recover calls that wrote what had changed since they read
  givenUp,      \* tasks with a row the failed scanner handled
  recovered     \* expired leases that recovery took from an attempt under way

taskVars == <<task, attemptCount, maxAttempts, lease, expired, sending>>
dlqVars == <<items, open, dead>>
jobVars == <<scan, recovered>>
apiVars == <<key, apiPc, apiItems, apiTasks>>
opVars == <<opPc, opTask, opItem, opSeen, opMax>>
apiHistory == <<effects, doubts>>
vars == <<taskVars, dlqVars, outbox, mail, jobVars, apiVars, opVars, faults,
          apiHistory, overtaken, givenUp>>

-----------------------------------------------------------------------------
TaskStatus == {"queued", "sending", "retry_scheduled", "succeeded", "failed",
               "dead_lettered"}
Terminal == {"succeeded", "failed", "dead_lettered"}

\* What a row is for; the outbox is unique in task, kind and number.
RowKinds == {"fanout", "repush", "lease", "manual", "api"}
Row(t, kind, n) == [task |-> t, kind |-> kind, n |-> n]

Init ==
  /\ task = [t \in Tasks |-> "queued"]
  /\ attemptCount = [t \in Tasks |-> 0]
  /\ maxAttempts = [t \in Tasks |-> MaxAttempts]
  /\ lease = [t \in Tasks |-> 0]
  /\ expired = {}
  /\ sending = [t \in Tasks |-> {}]
  /\ items = [t \in Tasks |-> 0]
  /\ open = {}
  /\ dead = 0
  /\ outbox = {Row(t, "fanout", 0) : t \in Tasks}
  /\ mail = {}
  /\ scan = {}
  /\ key = "none"
  /\ apiPc = [a \in ApiCalls |-> "idle"]
  /\ apiItems = [a \in ApiCalls |-> {}]
  /\ apiTasks = [a \in ApiCalls |-> {}]
  /\ opPc = [o \in OpCalls |-> "idle"]
  /\ opTask = [o \in OpCalls |-> {}]
  /\ opItem = [o \in OpCalls |-> 0]
  /\ opSeen = [o \in OpCalls |-> "queued"]
  /\ opMax = [o \in OpCalls |-> 0]
  /\ faults = 0
  /\ effects = 0
  /\ doubts = 0
  /\ overtaken = {}
  /\ givenUp = {}
  /\ recovered = {}

Fault == faults < MaxFaults /\ faults' = faults + 1

\* Row locks: of the API's requests, and of a recover call that has updated
\* the task and not yet committed.
ItemLocked(t) == \E a \in ApiCalls : t \in apiItems[a]
TaskLocked(t) ==
  \/ \E a \in ApiCalls : t \in apiTasks[a]
  \/ \E o \in OpCalls : opPc[o] = "updated" /\ t \in opTask[o]

\* INSERT INTO dlq_items ... ON CONFLICT (task_id) WHERE status = 'open':
\* with an open row there, no second one.
Faulty_OpenItem_OnePerTask(t) ==
  IF items[t] > 0
    THEN UNCHANGED <<items, open>>
    ELSE /\ items' = [items EXCEPT ![t] = @ + 1]
         /\ open' = open \cup {t}

OpenItem(t) ==
  IF t \in open
    THEN UNCHANGED <<items, open>>
    ELSE /\ items' = [items EXCEPT ![t] = @ + 1]
         /\ open' = open \cup {t}

\* lease_token and lease_until = NULL, wherever a task leaves its worker.
Free(S) ==
  /\ lease' = [t \in Tasks |-> IF t \in S THEN 0 ELSE lease[t]]
  /\ expired' = expired \ S

-----------------------------------------------------------------------------
(* Outbox and worker *)

\* The publisher: the broker takes the message and the row is deleted.
Publish(t) ==
  /\ \E r \in outbox :
       /\ r.task = t /\ r.kind # "api"
       /\ outbox' = outbox \ {r}
  /\ mail' = mail \cup {t}
  /\ UNCHANGED <<taskVars, dlqVars, jobVars, apiVars, opVars, faults, apiHistory,
                 overtaken, givenUp>>

\* A row used all its attempts, though its message may be in the queue: the
\* failed scanner gives up a task that has not ended, and opens an item.
GiveUp(t) ==
  /\ Fault
  /\ ~TaskLocked(t) /\ ~ItemLocked(t)
  /\ \E r \in outbox :
       /\ r.task = t /\ r.kind # "api"
       /\ outbox' = outbox \ {r}
  /\ mail' \in {mail, mail \cup {t}}
  /\ IF task[t] \in Terminal
       THEN UNCHANGED <<task, lease, expired, dead>>
       ELSE /\ task' = [task EXCEPT ![t] = "dead_lettered"]
            /\ Free({t})
            /\ dead' = dead + 1
  /\ OpenItem(t)
  /\ givenUp' = givenUp \cup {t}
  /\ UNCHANGED <<attemptCount, maxAttempts, sending, jobVars, apiVars, opVars,
                 apiHistory, overtaken>>

\* The API's row: no queue is bound to its routing key, and the failed
\* scanner finds no task_id in its payload, where the task is taskId.
DropApiRow(t) ==
  /\ \E r \in outbox :
       /\ r.task = t /\ r.kind = "api"
       /\ outbox' = outbox \ {r}
  /\ UNCHANGED <<taskVars, dlqVars, mail, jobVars, apiVars, opVars, faults, apiHistory,
                 overtaken, givenUp>>

\* The retry scanner signals a task that waits for its retry again.
Faulty_NeedsRepush_Queued(t) ==
  /\ task[t] = "queued"
  /\ Row(t, "repush", attemptCount[t]) \notin outbox

NeedsRepush(t) ==
  /\ task[t] = "retry_scheduled"
  /\ Row(t, "repush", attemptCount[t]) \notin outbox

RetryRepush(t) ==
  /\ NeedsRepush(t)
  /\ outbox' = outbox \cup {Row(t, "repush", attemptCount[t])}
  /\ UNCHANGED <<taskVars, dlqVars, mail, jobVars, apiVars, opVars, faults, apiHistory,
                 overtaken, givenUp>>

\* A worker takes a message: it leases the task, or drops the message of a
\* task that is not to be sent.
LeaseTask(t) ==
  /\ t \in mail
  /\ mail' = mail \ {t}
  /\ ~TaskLocked(t)
  /\ IF task[t] \in {"queued", "retry_scheduled"}
       THEN /\ task' = [task EXCEPT ![t] = "sending"]
            /\ attemptCount' = [attemptCount EXCEPT ![t] = @ + 1]
            /\ lease' = [lease EXCEPT ![t] = attemptCount[t] + 1]
            /\ sending' = [sending EXCEPT ![t] = @ \cup {attemptCount[t] + 1}]
       ELSE UNCHANGED <<task, attemptCount, lease, sending>>
  /\ UNCHANGED <<maxAttempts, expired, dlqVars, outbox, jobVars, apiVars, opVars, faults,
                 apiHistory, overtaken, givenUp>>

\* How an attempt ends: a transient error is retried while attempts are left.
Outcomes(t, n) ==
  {"succeeded", "failed",
   IF n < maxAttempts[t] THEN "retry_scheduled" ELSE "dead_lettered"}

\* The column of campaign_stats an ended attempt is counted in.
Faulty_Counted_NoColumn(s) == dead
Counted(s) == IF s = "dead_lettered" THEN dead + 1 ELSE dead

\* Finalize: only with the lease token it was given; else it changes nothing.
EndAttempt(t, n) ==
  /\ n \in sending[t]
  /\ sending' = [sending EXCEPT ![t] = @ \ {n}]
  /\ recovered' = recovered \ {<<t, n>>}
  /\ ~TaskLocked(t)
  /\ IF lease[t] = n
       THEN \E s \in Outcomes(t, n) :
              /\ task' = [task EXCEPT ![t] = s]
              /\ Free({t})
              /\ dead' = Counted(s)
              /\ IF s = "dead_lettered"
                   THEN OpenItem(t) ELSE UNCHANGED <<items, open>>
       ELSE UNCHANGED <<task, lease, expired, dlqVars>>
  /\ UNCHANGED <<attemptCount, maxAttempts, outbox, mail, scan, apiVars, opVars,
                 faults, apiHistory, overtaken, givenUp>>

-----------------------------------------------------------------------------
(* Leases that run out *)

\* The worker is gone, or its provider slow and its heartbeats lost; while it
\* is still there, a heartbeat may come after all.
LeaseExpires(t) ==
  /\ Fault
  /\ task[t] = "sending" /\ t \notin expired
  /\ expired' = expired \cup {t}
  /\ UNCHANGED <<task, attemptCount, maxAttempts, lease, sending, dlqVars,
                 outbox, mail, jobVars, apiVars, opVars, apiHistory, overtaken,
                 givenUp>>

ExtendLease(t) ==
  /\ t \in expired /\ lease[t] \in sending[t]
  /\ ~TaskLocked(t)
  /\ expired' = expired \ {t}
  /\ UNCHANGED <<task, attemptCount, maxAttempts, lease, sending, dlqVars,
                 outbox, mail, jobVars, apiVars, opVars, faults, apiHistory,
                 overtaken, givenUp>>

\* fetch_expired_leases; the attempts are judged by what it reads.
ScanRow(t) ==
  [task |-> t, n |-> attemptCount[t],
   last |-> attemptCount[t] >= maxAttempts[t]]

FetchExpired ==
  /\ scan = {} /\ expired # {}
  /\ scan' = {ScanRow(t) : t \in expired}
  /\ UNCHANGED <<taskVars, dlqVars, outbox, mail, recovered, apiVars, opVars,
                 faults, apiHistory, overtaken, givenUp>>

\* recover_expired_lease: its UPDATE asks again for the lease to be expired.
Faulty_StillExpired_AnyLease(t) == task[t] = "sending"
StillExpired(t) == task[t] = "sending" /\ t \in expired

RecoverLease(row) ==
  LET t == row.task IN
  /\ scan' = scan \ {row}
  /\ ~TaskLocked(t)
  /\ IF StillExpired(t)
       THEN /\ task' = [task EXCEPT ![t] = IF row.last THEN "dead_lettered"
                                           ELSE "retry_scheduled"]
            /\ Free({t})
            /\ recovered' = recovered \cup
                 (IF t \in expired THEN {<<t, lease[t]>>} ELSE {})
            /\ IF row.last
                 THEN OpenItem(t) /\ dead' = dead + 1 /\ UNCHANGED outbox
                 ELSE /\ outbox' = outbox \cup {Row(t, "lease", row.n)}
                      /\ UNCHANGED dlqVars
       ELSE UNCHANGED <<task, lease, expired, recovered, dlqVars, outbox>>
  /\ UNCHANGED <<attemptCount, maxAttempts, sending, mail, apiVars, opVars,
                 faults, apiHistory, overtaken, givenUp>>

-----------------------------------------------------------------------------
(* POST /dlq/replay *)

\* start_idempotent_request finds no row ...
FindsNoKey(a) ==
  /\ apiPc[a] = "idle" /\ key = "none"
  /\ apiPc' = [apiPc EXCEPT ![a] = "inserting"]
  /\ UNCHANGED <<taskVars, dlqVars, outbox, mail, jobVars, key, apiItems, apiTasks,
                 opVars, faults, apiHistory, overtaken, givenUp>>

\* ... and inserts one, unless another request has: 409 CONFLICT.
InsertKey(a) ==
  /\ apiPc[a] = "inserting"
  /\ IF key = "none"
       THEN /\ key' = "processing"
            /\ apiPc' = [apiPc EXCEPT ![a] = "started"]
       ELSE /\ apiPc' = [apiPc EXCEPT ![a] = "refused"]
            /\ UNCHANGED key
  /\ UNCHANGED <<taskVars, dlqVars, outbox, mail, jobVars, apiItems, apiTasks, opVars,
                 faults, apiHistory, overtaken, givenUp>>

\* The key's row, locked by FOR UPDATE: the saved answer of a completed
\* request, 409 of one that is processing, another try of a failed one.
Faulty_StartsWith_NoSavedAnswer(status) ==
  IF status = "processing" THEN "refused" ELSE "started"

StartsWith(status) ==
  CASE status = "completed" -> "answered"
    [] status = "processing" -> "refused"
    [] status = "failed" -> "started"

StartAgain(a) ==
  /\ apiPc[a] = "idle" /\ key # "none"
  /\ apiPc' = [apiPc EXCEPT ![a] = StartsWith(key)]
  /\ key' = IF StartsWith(key) = "started" THEN "processing" ELSE key
  /\ UNCHANGED <<taskVars, dlqVars, outbox, mail, jobVars, apiItems, apiTasks, opVars,
                 faults, apiHistory, overtaken, givenUp>>

\* SELECT ... FOR UPDATE SKIP LOCKED: some open items that no other request
\* has locked, by the filters and the limit of the request.
SelectItems(a) ==
  /\ apiPc[a] = "started"
  /\ \E S \in SUBSET {t \in open : ~ItemLocked(t)} :
       apiItems' = [apiItems EXCEPT ![a] = S]
  /\ apiPc' = [apiPc EXCEPT ![a] = "replaying"]
  /\ UNCHANGED <<taskVars, dlqVars, outbox, mail, jobVars, key, apiTasks, opVars,
                 faults, apiHistory, overtaken, givenUp>>

\* The task of the next item, FOR UPDATE.
LockTask(a, t) ==
  /\ apiPc[a] = "replaying"
  /\ t \in apiItems[a] \ apiTasks[a]
  /\ ~TaskLocked(t)
  /\ apiTasks' = [apiTasks EXCEPT ![a] = @ \cup {t}]
  /\ UNCHANGED <<taskVars, dlqVars, outbox, mail, jobVars, key, apiPc, apiItems,
                 opVars, faults, apiHistory, overtaken, givenUp>>

\* Only tasks that are dead_lettered are replayed, the others are skipped.
Replayed(a) == {t \in apiItems[a] : task[t] = "dead_lettered"}
ApiRow(t) == Row(t, "api", attemptCount[t])
Conflicts(a) == \E t \in Replayed(a) : ApiRow(t) \in outbox

Unlock(a) ==
  /\ apiItems' = [apiItems EXCEPT ![a] = {}]
  /\ apiTasks' = [apiTasks EXCEPT ![a] = {}]

\* The tasks are queued, their items closed, their signals in the outbox and
\* the key completed in one commit, the answer to which may be lost.
CommitReplay(a) ==
  /\ apiPc[a] = "replaying" /\ apiTasks[a] = apiItems[a]
  /\ ~Conflicts(a)
  /\ task' = [t \in Tasks |-> IF t \in Replayed(a) THEN "queued" ELSE task[t]]
  /\ Free(Replayed(a))
  /\ maxAttempts' = [t \in Tasks |-> IF t \in Replayed(a)
                       THEN maxAttempts[t] + Additional ELSE maxAttempts[t]]
  /\ outbox' = outbox \cup {ApiRow(t) : t \in Replayed(a)}
  /\ open' = open \ Replayed(a)
  /\ key' = "completed"
  /\ effects' = effects + 1
  /\ \/ /\ apiPc' = [apiPc EXCEPT ![a] = "answered"]
        /\ UNCHANGED <<faults, doubts>>
     \/ /\ Fault
        /\ apiPc' = [apiPc EXCEPT ![a] = "failing"]
        /\ doubts' = doubts + 1
  /\ Unlock(a)
  /\ UNCHANGED <<attemptCount, sending, items, dead, mail, jobVars, opVars, overtaken,
                 givenUp>>

\* The item a recover call closes is the open one: of the task
\* (force_retry_task), or the one it read (replay_dlq).
Faulty_ClosesOpen_OnlyReplayDlq(o, t) == t \in open /\ opItem[o] = items[t]

ClosesOpen(o, t) == t \in open /\ opItem[o] \in {0, items[t]}

\* The recover call waits for an item that the request has locked, and the
\* request for its task.
Deadlock(a, o) ==
  \E t \in apiItems[a] \ apiTasks[a] :
    opPc[o] = "updated" /\ t \in opTask[o] /\ ClosesOpen(o, t)

\* await session.rollback()
Faulty_RollBack_KeepsLocks(a) ==
  /\ apiPc' = [apiPc EXCEPT ![a] = "failing"]
  /\ UNCHANGED <<apiItems, apiTasks>>

RollBack(a) ==
  /\ apiPc' = [apiPc EXCEPT ![a] = "failing"]
  /\ Unlock(a)

\* A duplicate dedupe key, or a deadlock ...
AbortReplay(a) ==
  /\ apiPc[a] = "replaying"
  /\ \/ apiTasks[a] = apiItems[a] /\ Conflicts(a)
     \/ \E o \in OpCalls : Deadlock(a, o)
  /\ RollBack(a)
  /\ UNCHANGED <<taskVars, dlqVars, outbox, mail, jobVars, key, opVars, faults,
                 apiHistory, overtaken, givenUp>>

\* ... or any other failure of a statement.
FailReplay(a) ==
  /\ Fault
  /\ apiPc[a] \in {"started", "replaying"}
  /\ RollBack(a)
  /\ UNCHANGED <<taskVars, dlqVars, outbox, mail, jobVars, key, opVars, apiHistory,
                 overtaken, givenUp>>

\* fail_idempotent_request, in a transaction of its own.
FailKey(a) ==
  /\ apiPc[a] = "failing"
  /\ key' = "failed"
  /\ apiPc' = [apiPc EXCEPT ![a] = "refused"]
  /\ UNCHANGED <<taskVars, dlqVars, outbox, mail, jobVars, apiItems, apiTasks, opVars,
                 faults, apiHistory, overtaken, givenUp>>

\* The process dies: the transaction is rolled back, the key stays.
ApiCrash(a) ==
  /\ Fault
  /\ apiPc[a] \in {"started", "replaying", "failing"}
  /\ apiPc' = [apiPc EXCEPT ![a] = "crashed"]
  /\ Unlock(a)
  /\ UNCHANGED <<taskVars, dlqVars, outbox, mail, jobVars, key, opVars, apiHistory,
                 overtaken, givenUp>>

Start(a) == FindsNoKey(a) \/ InsertKey(a) \/ StartAgain(a)
Handle(a) ==
  \/ SelectItems(a) \/ (\E t \in Tasks : LockTask(a, t)) \/ CommitReplay(a)
  \/ AbortReplay(a) \/ FailKey(a)

-----------------------------------------------------------------------------
(* The recover service: force_retry_task and replay_dlq *)

\* The call answers and forgets what it read.
Answer(o) ==
  /\ opPc' = [opPc EXCEPT ![o] = "done"]
  /\ opItem' = [opItem EXCEPT ![o] = 0]
  /\ opSeen' = [opSeen EXCEPT ![o] = "queued"]
  /\ opMax' = [opMax EXCEPT ![o] = 0]

Faulty_Retryable_Ended == Terminal \cup {"retry_scheduled"}
Retryable == {"failed", "dead_lettered", "retry_scheduled"}

NewMax(t) ==
  LET enough == IF attemptCount[t] + 1 > maxAttempts[t]
                  THEN attemptCount[t] + 1 ELSE maxAttempts[t]
  IN  IF enough > Ceiling THEN Ceiling ELSE enough

\* replay_dlq reads an item that is open ...
ReadItem(o, t) ==
  /\ opPc[o] = "idle" /\ t \in open
  /\ opPc' = [opPc EXCEPT ![o] = "item_read"]
  /\ opTask' = [opTask EXCEPT ![o] = {t}]
  /\ opItem' = [opItem EXCEPT ![o] = items[t]]
  /\ UNCHANGED <<taskVars, dlqVars, outbox, mail, jobVars, apiVars, opSeen, opMax,
                 faults, apiHistory, overtaken, givenUp>>

\* ... and then its task; force_retry only reads the task.
ReadTask(o, t) ==
  /\ \/ opPc[o] = "item_read" /\ opTask[o] = {t}
     \/ opPc[o] = "idle" /\ task[t] \in Retryable
  /\ opPc' = [opPc EXCEPT ![o] = "read"]
  /\ opTask' = [opTask EXCEPT ![o] = {t}]
  /\ opSeen' = [opSeen EXCEPT ![o] = task[t]]
  /\ opMax' = [opMax EXCEPT ![o] = NewMax(t)]
  /\ UNCHANGED <<taskVars, dlqVars, outbox, mail, jobVars, apiVars, opItem, faults,
                 apiHistory, overtaken, givenUp>>

\* UPDATE delivery_tasks: force_retry_task repeats its condition,
\* replay_dlq has none.
UpdateTask(o, t) ==
  /\ opPc[o] = "read" /\ opTask[o] = {t}
  /\ ~TaskLocked(t)
  /\ IF opItem[o] = 0 /\ task[t] \notin Retryable
       THEN Answer(o)
       ELSE /\ opPc' = [opPc EXCEPT ![o] = "updated"]
            /\ UNCHANGED <<opItem, opSeen, opMax>>
  /\ UNCHANGED <<taskVars, dlqVars, outbox, mail, jobVars, apiVars, opTask, faults,
                 apiHistory, overtaken, givenUp>>

\* What it read is not what it overwrites.
Overtakes(o, t) ==
  \/ task[t] # opSeen[o]
  \/ opItem[o] # 0 /\ ~ClosesOpen(o, t)

\* GREATEST(dead_lettered - 1, 0) when the task was read as dead-lettered.
Rebalanced(o) ==
  IF opSeen[o] = "dead_lettered" /\ dead > 0 THEN dead - 1 ELSE dead

\* Statistics, item and signal follow, and the transaction commits.
CommitRetry(o, t) ==
  /\ opPc[o] = "updated" /\ opTask[o] = {t}
  /\ ClosesOpen(o, t) => ~ItemLocked(t)
  /\ task' = [task EXCEPT ![t] = "retry_scheduled"]
  /\ Free({t})
  /\ maxAttempts' = [maxAttempts EXCEPT ![t] = opMax[o]]
  /\ dead' = Rebalanced(o)
  /\ open' = IF ClosesOpen(o, t) THEN open \ {t} ELSE open
  /\ outbox' = outbox \cup {Row(t, "manual", o)}
  /\ overtaken' = IF Overtakes(o, t) THEN overtaken \cup {o} ELSE overtaken
  /\ Answer(o)
  /\ UNCHANGED <<attemptCount, sending, items, mail, jobVars, apiVars, opTask, faults,
                 apiHistory, givenUp>>

\* PostgreSQL may also choose the recover call to break a deadlock.
AbortRetry(o) ==
  /\ \E a \in ApiCalls : Deadlock(a, o)
  /\ Answer(o)
  /\ UNCHANGED <<taskVars, dlqVars, outbox, mail, jobVars, apiVars, opTask, faults,
                 apiHistory, overtaken, givenUp>>

Retry(o) ==
  \/ \E t \in Tasks : ReadTask(o, t) /\ opPc[o] = "item_read"
  \/ \E t \in Tasks : UpdateTask(o, t) \/ CommitRetry(o, t)
  \/ AbortRetry(o)

-----------------------------------------------------------------------------
Worker(t) == LeaseTask(t) \/ \E n \in sending[t] : EndAttempt(t, n)

Next ==
  \/ \E t \in Tasks : \/ Publish(t) \/ GiveUp(t) \/ DropApiRow(t)
                      \/ RetryRepush(t) \/ Worker(t)
                      \/ LeaseExpires(t) \/ ExtendLease(t)
  \/ FetchExpired \/ \E row \in scan : RecoverLease(row)
  \/ \E a \in ApiCalls : Start(a) \/ Handle(a) \/ FailReplay(a) \/ ApiCrash(a)
  \/ \E o \in OpCalls :
       \/ \E t \in Tasks : \/ ReadItem(o, t) \/ ReadTask(o, t)
                           \/ UpdateTask(o, t) \/ CommitRetry(o, t)
       \/ AbortRetry(o)

Spec == Init /\ [][Next]_vars

\* The publisher and the scanners poll, workers consume, and a request that
\* has begun goes on until it ends.  Nobody has to send one.
Fairness ==
  /\ \A t \in Tasks :
       /\ WF_vars(Publish(t))
       /\ WF_vars(RetryRepush(t)) /\ WF_vars(Worker(t))
  /\ \A a \in ApiCalls : WF_vars(InsertKey(a) \/ Handle(a))
  /\ \A o \in OpCalls : WF_vars(Retry(o))

FairSpec == Spec /\ Fairness

-----------------------------------------------------------------------------
(* Properties *)

ApiPc == {"idle", "inserting", "started", "replaying", "failing", "answered",
          "refused", "crashed"}
OpPc == {"idle", "item_read", "read", "updated", "done"}

TypeOK ==
  /\ task \in [Tasks -> TaskStatus]
  /\ attemptCount \in [Tasks -> Nat]
  /\ maxAttempts \in [Tasks -> Nat]
  /\ lease \in [Tasks -> Nat]
  /\ \A t \in Tasks : lease[t] # 0 <=> task[t] = "sending"
  /\ expired \in SUBSET {t \in Tasks : lease[t] # 0}
  /\ sending \in [Tasks -> SUBSET Nat]
  /\ items \in [Tasks -> Nat]
  /\ open \in SUBSET Tasks
  /\ dead \in Nat
  /\ \A r \in outbox : r.task \in Tasks /\ r.kind \in RowKinds
  /\ mail \in SUBSET Tasks
  /\ scan \in SUBSET [task : Tasks, n : Nat, last : BOOLEAN]
  /\ key \in {"none", "processing", "completed", "failed"}
  /\ apiPc \in [ApiCalls -> ApiPc]
  /\ apiItems \in [ApiCalls -> SUBSET Tasks]
  /\ apiTasks \in [ApiCalls -> SUBSET Tasks]
  /\ opPc \in [OpCalls -> OpPc]
  /\ opTask \in [OpCalls -> SUBSET Tasks]
  /\ opItem \in [OpCalls -> Nat]
  /\ opSeen \in [OpCalls -> TaskStatus]
  /\ opMax \in [OpCalls -> Nat]
  /\ faults \in 0 .. MaxFaults
  /\ effects \in Nat /\ doubts \in Nat
  /\ overtaken \in SUBSET OpCalls
  /\ givenUp \in SUBSET Tasks
  /\ recovered \in SUBSET (Tasks \X Nat)

\* A task whose outbox row was given up, or that changed between the reads
\* and the writes of a recover call.
Disturbed(t) == t \in givenUp \/ \E o \in overtaken : t \in opTask[o]

DeadLetteredHasItem == \A t \in Tasks : task[t] = "dead_lettered" => t \in open
OpenItemIsDead ==
  \A t \in open : task[t] = "dead_lettered" \/ Disturbed(t)

\* What an operator is offered for a replay is what can be replayed: every
\* task in the dead letters has an open dlq_items row, however often it was
\* replayed and whoever did; and an open row is a dead-lettered task's, not
\* one's that is under way, unless it was disturbed.
ItemsMatchTasks == DeadLetteredHasItem /\ OpenItemIsDead

\* campaign_stats misses no dead letter, but one for each recover call that
\* was overtaken: the finalizer waits for the missing ones for ever.
DeadLettersCounted ==
  Cardinality({t \in Tasks : task[t] = "dead_lettered"})
    <= dead + Cardinality(overtaken)

\* No two workers send one task at a time, but for those whose expired lease
\* recovery has taken, unless the task was disturbed: replaying takes no lease
\* from a worker, nor does recovery take one that is live again.
OneSendAtATime ==
  \A t \in Tasks :
    Cardinality({n \in sending[t] : <<t, n>> \notin recovered}) <= 1
      \/ Disturbed(t)

OneRequestRuns ==
  Cardinality({a \in ApiCalls :
    apiPc[a] \in {"started", "replaying"}}) <= 1
EffectsAreCounted == effects <= 1 + doubts

\* Under one Idempotency-Key one request runs at a time, and retrying it does
\* not repeat what it did, unless the answer to the commit was lost and the
\* key marked failed after it.
OneEffectPerKey == OneRequestRuns /\ EffectsAreCounted

\* A delivered message is not sent again by operators, unless the task was
\* disturbed.
DeliveredStays ==
  [][\A t \in Tasks : task[t] = "succeeded" =>
       task'[t] = "succeeded" \/ Disturbed(t)']_vars

\* A task that an operator of the recover service, or a worker, schedules for
\* a retry is taken up, though its signal may be lost.
RetryRuns ==
  \A t \in Tasks : (task[t] = "retry_scheduled") ~> (task[t] # "retry_scheduled")

\* No call waits for ever for the rows another one has locked: in the end,
\* none is under way.
CallsEnd ==
  <>[](/\ \A a \in ApiCalls :
             apiPc[a] \in {"idle", "answered", "refused", "crashed"}
       /\ \A o \in OpCalls : opPc[o] \in {"idle", "done"})

-----------------------------------------------------------------------------
(* Claims of the documentation that the code does not keep *)

\* docs/03: POST /dlq/replay can retry selected tasks.  A queued task is
\* taken up.
QueuedRuns == \A t \in Tasks : (task[t] = "queued") ~> (task[t] # "queued")
=============================================================================
