--------------------------- MODULE CampaignProofs ---------------------------
(***************************************************************************)
(* Proofs about how a campaign ends: what its verdict says of the tasks,   *)
(* and how many tasks a fan-out may still add after its cancellation.      *)
(*                                                                         *)
(* Both need to know when campaign_stats can be believed.  It follows the  *)
(* tasks until a cancel processor has run: its cancellations leave the     *)
(* columns as they were, and it makes the campaign one that the finalizer  *)
(* never counts again.                                                     *)
(***************************************************************************)
EXTENDS FanoutProofs

\* Until the cancel processor has run, whose zero counts leave the statistics
\* behind, the columns of the tasks being sent and of the ended ones are exact.
\* A lease takes a retried task from the column queued, so that the two waiting
\* columns are exact only together.
WaitingSum ==
  stats["queued"] + stats["retry_scheduled"]
    = Cardinality(Having("queued")) + Cardinality(Having("retry_scheduled"))
Exact == {"sending"} \cup Final
StatsFollow ==
  campaign # "cancelled" =>
    WaitingSum /\ \A s \in Exact : stats[s] = Cardinality(Having(s))

\* Moves keep the sum, so that total_tasks is the sum of the columns in any
\* case.
Balance ==
  stats["total"] = stats["queued"] + stats["retry_scheduled"]
                   + stats["sending"] + stats["succeeded"]
                   + stats["dead_lettered"] + stats["cancelled"]

\* Only a cancelled campaign has cancelled tasks: before the request no task
\* ends so.
RunningInv == campaign = "running" => Having("cancelled") = {}

\* What the finalizer counted when it read its row is still there.
ScanEarned ==
  scan # NoScan =>
    /\ scan.succeeded \in Nat /\ scan.dead_lettered \in Nat
    /\ scan.cancelled \in Nat
    /\ scan.total > 0
    /\ scan.total = scan.succeeded + scan.dead_lettered + scan.cancelled
    /\ scan.succeeded > 0 => Having("succeeded") # {}
    /\ scan.dead_lettered > 0 => Having("dead_lettered") # {}
    /\ scan.cancelled > 0 => Having("cancelled") # {}
    /\ scan.status = "running" => scan.cancelled = 0
    /\ scan.status = "cancelling" => campaign # "running"

\* What an executor holds: pages of users and batches of no more tasks than a
\* page's channels, and a checked one only while its pipeline runs.
Pages0 == {Page(c) : c \in 0 .. NumUsers}
Small == {b \in SUBSET Targets : Cardinality(b) <= PageTasks}
HeldOK(x) ==
  /\ x.users \in Seq(Pages0) /\ x.hand \in Small
  /\ x.tasks \in Seq(Small) /\ x.batch \in Small
  /\ x.pc # "running" => x.stage = "waiting"
HeldInv == \A e \in Executors : HeldOK(exec[e])

\* The executors past their cancellation check, each with one batch to add.
Checked ==
  {e \in Executors : exec[e].pc = "running" /\ exec[e].stage = "checked"}

\* The campaign is cancelled, or the finalizer holds a row that cancels it.
CancelDecided ==
  campaign = "cancelled" \/ (campaign = "cancelling"
                             /\ scan.status = "cancelling")
LateInv ==
  CancelDecided =>
    Cardinality(Having("queued"))
      <= PageTasks * Cardinality(Executors \ Checked)

CampaignInv ==
  IInv /\ StatsFollow /\ Balance /\ RunningInv /\ ScanEarned /\ HeldInv
  /\ LateInv /\ VerdictIsEarned

-----------------------------------------------------------------------------
(* Counting tasks.                                                         *)

LEMMA CountsAreFinite ==
  /\ IsFiniteSet(Targets)
  /\ \A s : /\ IsFiniteSet(Having(s))
            /\ Cardinality(Having(s)) \in Nat
            /\ Cardinality(Having(s)) = 0 <=> Having(s) = {}
            /\ Cardinality(Having(s)') \in Nat
<1>1. IsFiniteSet(Targets)
  BY FanoutAssumption
<1>2. ASSUME NEW s
      PROVE  /\ IsFiniteSet(Having(s))
             /\ Cardinality(Having(s)) \in Nat
             /\ Cardinality(Having(s)) = 0 <=> Having(s) = {}
             /\ Cardinality(Having(s)') \in Nat
  <2>1. IsFiniteSet(Having(s)) /\ IsFiniteSet(Having(s)')
    BY <1>1, FS_Subset DEF Having
  <2>2. QED
    BY <2>1, FS_CardinalityType, FS_EmptySet
<1>3. QED
  BY <1>1, <1>2

\* The six statuses, and so the columns of campaign_stats.
LEMMA Columns ==
  /\ TaskStatus = {"queued", "retry_scheduled", "sending", "succeeded",
                   "dead_lettered", "cancelled"}
  /\ Final \subseteq TaskStatus /\ Waiting \subseteq TaskStatus
  /\ Final \cap Waiting = {} /\ "sending" \notin Final \cup Waiting
  /\ "absent" \notin TaskStatus /\ "total" \notin TaskStatus
  BY DEF TaskStatus, Waiting, Final

\* One task moves: one column's tasks lose it, another's get it.
LEMMA HavingMove ==
  ASSUME task \in [Targets -> TaskStatus \cup {"absent"}],
         NEW u \in Targets, NEW from \in TaskStatus, NEW to \in TaskStatus,
         task[u] = from, from # to,
         task' = [task EXCEPT ![u] = to]
  PROVE  /\ Cardinality(Having(from)') = Cardinality(Having(from)) - 1
         /\ Cardinality(Having(to)') = Cardinality(Having(to)) + 1
<1>1. Having(from)' = Having(from) \ {u} /\ u \in Having(from)
  BY DEF Having
<1>2. Having(to)' = Having(to) \cup {u} /\ u \notin Having(to)
  BY DEF Having
<1>3. Cardinality(Having(from)') = Cardinality(Having(from)) - 1
  BY <1>1, CountsAreFinite, FS_RemoveElement
<1>4. Cardinality(Having(to)') = Cardinality(Having(to)) + 1
  BY <1>2, CountsAreFinite, FS_AddElement
<1>5. QED
  BY <1>3, <1>4

\* A batch: its new tasks are queued, every other column is as it was.
LEMMA HavingInsert ==
  ASSUME task \in [Targets -> TaskStatus \cup {"absent"}],
         NEW b \in SUBSET Targets,
         task' = [u \in Targets |-> IF u \in b /\ task[u] = "absent"
                                  THEN "queued" ELSE task[u]]
  PROVE  /\ Cardinality(Having("queued")')
              = Cardinality(Having("queued")) + Counted(b)
         /\ Counted(b) \in Nat
         /\ Counted(b) <= Cardinality(b)
         /\ \A s \in TaskStatus : s # "queued" => Having(s)' = Having(s)
<1>1. PICK new \in SUBSET b : new = {u \in b : task[u] = "absent"}
  OBVIOUS
<1>2. IsFiniteSet(b) /\ IsFiniteSet(new) /\ Cardinality(new) <= Cardinality(b)
  <2>1. IsFiniteSet(b)
    BY CountsAreFinite, FS_Subset
  <2>2. QED
    BY <2>1, FS_Subset
<1>3. Counted(b) = Cardinality(new) /\ Cardinality(new) \in Nat
  BY <1>1, <1>2, FS_CardinalityType DEF Counted
<1>4. Having("queued")' = Having("queued") \cup new
  BY <1>1 DEF Having
<1>5. Having("queued") \cap new = {}
  BY <1>1 DEF Having
<1>6. Cardinality(Having("queued")')
        = Cardinality(Having("queued")) + Cardinality(new)
  <2>1. /\ IsFiniteSet(Having("queued"))
        /\ Cardinality(Having("queued")) \in Nat
    BY CountsAreFinite
  <2>2. Cardinality(Having("queued") \cup new)
          = Cardinality(Having("queued")) + Cardinality(new)
            - Cardinality(Having("queued") \cap new)
    BY <1>2, <2>1, FS_Union
  <2>3. Cardinality(Having("queued") \cap new) = 0
    BY <1>5, FS_EmptySet
  <2>4. Cardinality(Having("queued")') = Cardinality(Having("queued") \cup new)
    BY <1>4, Zenon
  <2>5. QED
    BY <1>3, <2>1, <2>2, <2>3, <2>4
<1>7. \A s \in TaskStatus : s # "queued" => Having(s)' = Having(s)
  BY Columns DEF Having
<1>8. QED
  BY <1>2, <1>3, <1>6, <1>7

-----------------------------------------------------------------------------
(* What a step can change.                                                 *)

LEMMA CampaignSteps ==
  ASSUME [Next]_vars
  PROVE  \/ /\ \/ RequestCancel \/ FetchCompletable \/ FinalizeCampaign
               \/ FinalizeFails
            /\ UNCHANGED <<taskVars, exec>>
         \/ \E p \in Processors : ProcessCancel(p)
         \/ UNCHANGED <<campaign, scan>>
<1> USE DEF cancelVars
<1>1. ASSUME NEW e \in Executors, Consume(e) \/ Progress(e) \/ Fault(e)
      PROVE  UNCHANGED <<campaign, scan>>
  BY <1>1 DEF Consume, AcquireLock, SkipRun, Progress, LoadCampaign,
       Pipeline, ReadPage, Enrich, SendTasks, CheckCancelled, InsertBatch,
       ExtendLock, Close, FinishPipeline, MarkCompleted, MarkFailed,
       MarkCancelled, Respond, Fault, DbError, LockError, Crash,
       LoseConnection
<1>2. ASSUME NEW u \in Targets,
             \/ PublishSignal(u) \/ LeaseTask(u) \/ FinishTask(u)
             \/ RetryTask(u) \/ RepushSignal(u) \/ LeaseFails(u)
      PROVE  UNCHANGED <<campaign, scan>>
  BY <1>2 DEF PublishSignal, LeaseTask, LeaseFails, FinishTask, RetryTask,
              EndTask, RepushSignal
<1>3. ASSUME NEW p \in Processors,
             ClaimCancel(p) \/ RetryCancel(p) \/ CrashProcessor(p)
      PROVE  UNCHANGED <<campaign, scan>>
  BY <1>3 DEF ClaimCancel, RetryCancel, CrashProcessor
<1>4. CASE \/ PublishAgain \/ LockExpires \/ RecoverRun \/ ResetCancel
           \/ UNCHANGED vars
  BY <1>4 DEF PublishAgain, LockExpires, RecoverRun, ResetCancel, vars
<1>5. CASE \/ RequestCancel \/ FetchCompletable \/ FinalizeCampaign
           \/ FinalizeFails
  BY <1>5 DEF RequestCancel, FetchCompletable, FinalizeCampaign, FinalizeFails
<1>6. QED
  BY <1>1, <1>2, <1>3, <1>4, <1>5 DEF Next

LEMMA ExecSteps ==
  ASSUME [Next]_vars
  PROVE  \/ \E e \in Executors : Consume(e) \/ Progress(e) \/ Fault(e)
         \/ exec' = exec
  BY DEF Next, PublishAgain, LockExpires, RecoverRun, PublishSignal,
         LeaseTask, LeaseFails, FinishTask, RetryTask, EndTask, RepushSignal,
         RequestCancel, ClaimCancel, ProcessCancel, RetryCancel,
         CrashProcessor, ResetCancel, FetchCompletable, FinalizeCampaign,
         FinalizeFails, vars

\* A move of one task, as the delivery's steps make it.
MoveTask(u, to) ==
  /\ task[u] \in Waiting \cup {"sending"}
  /\ task[u] # to
  /\ task[u] \in Waiting => to = "sending"
  /\ to \in TaskStatus \ {"queued"}
  /\ to = "cancelled" => CancelRequested
  /\ task' = [task EXCEPT ![u] = to]
  /\ stats' = Move(IF task[u] \in Waiting THEN "queued" ELSE "sending", to)

LEMMA TaskChanges ==
  ASSUME [Next]_vars
  PROVE  \/ \E e \in Executors : InsertBatch(e)
         \/ \E u \in Targets, to \in TaskStatus : MoveTask(u, to)
         \/ \E p \in Processors : ProcessCancel(p)
         \/ UNCHANGED <<task, stats>>
<1> USE Columns DEF MoveTask
<1>1. ASSUME NEW u \in Targets, LeaseTask(u)
      PROVE  MoveTask(u, "sending") \/ UNCHANGED <<task, stats>>
  BY <1>1 DEF LeaseTask, Waiting
<1>2. ASSUME NEW u \in Targets, NEW s \in Final, EndTask(u, s)
      PROVE  MoveTask(u, s)
  <2>1. s \in TaskStatus \ {"queued"} /\ s # "sending"
    BY Columns DEF Final
  <2>2. QED
    BY <1>2, <2>1 DEF EndTask, CancelRequested, Waiting
<1>3. ASSUME NEW u \in Targets, RetryTask(u)
      PROVE  MoveTask(u, "retry_scheduled")
  BY <1>3 DEF RetryTask, EndTask, Waiting
<1>4. ASSUME NEW u \in Targets,
             PublishSignal(u) \/ RepushSignal(u) \/ LeaseFails(u)
      PROVE  UNCHANGED <<task, stats>>
  BY <1>4 DEF PublishSignal, RepushSignal, LeaseFails
<1>5. QED
  BY <1>1, <1>2, <1>3, <1>4, TaskSteps DEF TaskStep, FinishTask, taskVars

\* One column loses a task, another gets it.
LEMMA StatsMove ==
  ASSUME stats \in [TaskStatus \cup {"total"} -> Int],
         NEW from \in TaskStatus, NEW to \in TaskStatus, from # to,
         stats' = Move(from, to)
  PROVE  /\ stats'[from] = stats[from] - 1
         /\ stats'[to] = stats[to] + 1
         /\ \A c \in TaskStatus \cup {"total"} :
              c # from /\ c # to => stats'[c] = stats[c]
  BY DEF Move

\* What has ended has ended: no step takes a task out of a final status.
LEMMA FinalGrows ==
  ASSUME IInv, [Next]_vars, NEW s \in Final
  PROVE  Having(s) \subseteq Having(s)'
<1>a. task \in [Targets -> TaskStatus \cup {"absent"}]
  BY DEF IInv, TypeOK
<1>b. s # "absent" /\ s \notin Waiting \cup {"sending"}
  BY DEF Final, Waiting
<1>1. ASSUME NEW e \in Executors, InsertBatch(e)
      PROVE  Having(s) \subseteq Having(s)'
  BY <1>a, <1>b, <1>1 DEF InsertBatch, Having
<1>2. ASSUME NEW u \in Targets, NEW to \in TaskStatus, MoveTask(u, to)
      PROVE  Having(s) \subseteq Having(s)'
  BY <1>a, <1>b, <1>2 DEF MoveTask, Having
<1>3. ASSUME NEW p \in Processors, ProcessCancel(p)
      PROVE  Having(s) \subseteq Having(s)'
  BY <1>a, <1>b, <1>3 DEF ProcessCancel, Having
<1>4. CASE UNCHANGED <<task, stats>>
  BY <1>4 DEF Having
<1>5. QED
  BY <1>1, <1>2, <1>3, <1>4, TaskChanges

-----------------------------------------------------------------------------
(* campaign_stats.                                                         *)

\* Only an open campaign's statistics are followed, and it was open before.
LEMMA StillOpen ==
  ASSUME CampaignInv, [Next]_vars, campaign' # "cancelled"
  PROVE  /\ campaign # "cancelled"
         /\ WaitingSum
         /\ \A s \in Exact : stats[s] = Cardinality(Having(s))
<1>a. scan # NoScan => scan.status \in {"running", "cancelling"}
  BY DEF CampaignInv, IInv, ScanInv
<1>1. campaign # "cancelled"
  <2>1. CASE \/ RequestCancel \/ FetchCompletable \/ FinalizeCampaign
             \/ FinalizeFails
    BY <1>a, <2>1 DEF RequestCancel, FetchCompletable, FinalizeCampaign,
                      FinalizeFails, CanFinalize, cancelVars
  <2>2. ASSUME NEW p \in Processors, ProcessCancel(p)
        PROVE  campaign # "cancelled"
    BY <2>2 DEF ProcessCancel, CanCancel
  <2>3. QED
    BY <2>1, <2>2, CampaignSteps
<1>2. QED
  BY <1>1 DEF CampaignInv, StatsFollow

LEMMA ExactColumns ==
  /\ Exact \subseteq TaskStatus
  /\ Exact = TaskStatus \ Waiting
  BY DEF Exact, Final, TaskStatus, Waiting

LEMMA NextExact ==
  ASSUME CampaignInv, [Next]_vars, campaign' # "cancelled", NEW s \in Exact
  PROVE  stats'[s] = Cardinality(Having(s)')
<1>a. /\ task \in [Targets -> TaskStatus \cup {"absent"}]
      /\ stats \in [TaskStatus \cup {"total"} -> Int]
      /\ exec \in [Executors -> Executor]
  BY DEF CampaignInv, IInv, TypeOK
<1>b. s \in TaskStatus /\ s \notin Waiting /\ s # "queued"
  BY ExactColumns DEF Waiting
<1>c. stats[s] = Cardinality(Having(s))
  BY StillOpen
<1>1. ASSUME NEW e \in Executors, InsertBatch(e)
      PROVE  stats'[s] = Cardinality(Having(s)')
  <2>1. Having(s)' = Having(s)
    BY <1>a, <1>b, <1>1, Columns DEF InsertBatch, Having
  <2>2. stats'[s] = stats[s]
    BY <1>a, <1>b, <1>1, Columns DEF InsertBatch
  <2>3. QED
    BY <1>c, <2>1, <2>2
<1>2. ASSUME NEW u \in Targets, NEW to \in TaskStatus, MoveTask(u, to)
      PROVE  stats'[s] = Cardinality(Having(s)')
  <2>1. PICK was \in TaskStatus, from \in TaskStatus :
          /\ task[u] = was /\ was # to /\ from # to
          /\ stats' = Move(from, to)
          /\ s = was <=> s = from
    BY <1>2, <1>b, Columns DEF MoveTask, Waiting
  <2>2. /\ stats'[from] = stats[from] - 1
        /\ stats'[to] = stats[to] + 1
        /\ s # from /\ s # to => stats'[s] = stats[s]
    BY <1>a, <1>b, <2>1, StatsMove
  <2>3. task' = [task EXCEPT ![u] = to]
    BY <1>2 DEF MoveTask
  <2>4. /\ Cardinality(Having(was)') = Cardinality(Having(was)) - 1
        /\ Cardinality(Having(to)') = Cardinality(Having(to)) + 1
    BY <1>a, <2>1, <2>3, HavingMove
  <2>5. s # was /\ s # to => Having(s)' = Having(s)
    BY <1>a, <2>1, <2>3 DEF Having
  <2>6. CASE s = from
    BY <1>c, <2>1, <2>2, <2>4, <2>6
  <2>7. CASE s = to
    BY <1>c, <2>2, <2>4, <2>7
  <2>8. CASE s # from /\ s # to
    BY <1>c, <2>1, <2>2, <2>5, <2>8
  <2>9. QED
    BY <2>6, <2>7, <2>8
<1>3. ASSUME NEW p \in Processors, ProcessCancel(p)
      PROVE  stats'[s] = Cardinality(Having(s)')
  <2>1. Having(s)' = Having(s)
    <3>1. CanCancel => campaign' = "cancelled"
      BY <1>3 DEF ProcessCancel
    <3>2. UNCHANGED task
      BY <1>3, <3>1 DEF ProcessCancel
    <3>3. QED
      BY <3>2 DEF Having
  <2>2. QED
    BY <1>c, <1>3, <2>1 DEF ProcessCancel
<1>4. CASE UNCHANGED <<task, stats>>
  BY <1>c, <1>4 DEF Having
<1>5. QED
  BY <1>1, <1>2, <1>3, <1>4, TaskChanges

LEMMA NextWaiting ==
  ASSUME CampaignInv, [Next]_vars, campaign' # "cancelled"
  PROVE  WaitingSum'
<1> DEFINE Queued == Cardinality(Having("queued"))
           Retried == Cardinality(Having("retry_scheduled"))
<1>a. /\ task \in [Targets -> TaskStatus \cup {"absent"}]
      /\ stats \in [TaskStatus \cup {"total"} -> Int]
      /\ exec \in [Executors -> Executor]
  BY DEF CampaignInv, IInv, TypeOK
<1>b. stats["queued"] + stats["retry_scheduled"] = Queued + Retried
  BY StillOpen DEF WaitingSum
<1>c. /\ Queued \in Nat /\ Retried \in Nat
      /\ stats["queued"] \in Int /\ stats["retry_scheduled"] \in Int
  BY <1>a, CountsAreFinite, Columns
<1>d. "queued" # "retry_scheduled" /\ "queued" \in TaskStatus
      /\ "retry_scheduled" \in TaskStatus /\ "sending" \in TaskStatus
  BY Columns
<1>e. WaitingSum' <=> stats'["queued"] + stats'["retry_scheduled"]
                        = Queued' + Retried'
  BY DEF WaitingSum
<1> HIDE DEF Queued, Retried
<1>1. ASSUME NEW e \in Executors, InsertBatch(e)
      PROVE  WaitingSum'
  <2>1. exec[e].batch \in SUBSET Targets
    BY <1>a DEF Executor
  <2>2. task' = [u \in Targets |->
                   IF u \in exec[e].batch /\ task[u] = "absent"
                   THEN "queued" ELSE task[u]]
    BY <1>1 DEF InsertBatch
  <2>3. /\ Cardinality(Having("queued")')
             = Cardinality(Having("queued")) + Counted(exec[e].batch)
        /\ Counted(exec[e].batch) \in Nat
        /\ Having("retry_scheduled")' = Having("retry_scheduled")
    BY <1>a, <1>d, <2>1, <2>2, HavingInsert
  <2>4. Queued' = Queued + Counted(exec[e].batch) /\ Retried' = Retried
    BY <2>3 DEF Queued, Retried
  <2>5. /\ stats'["queued"] = stats["queued"] + Counted(exec[e].batch)
        /\ \A c \in TaskStatus : c # "queued" => stats'[c] = stats[c]
    BY <1>a, <1>1, <2>3, Columns DEF InsertBatch
  <2>6. stats'["retry_scheduled"] = stats["retry_scheduled"]
    BY <1>d, <2>5
  <2>7. Queued + Counted(exec[e].batch) + Retried
          = stats["queued"] + Counted(exec[e].batch) + stats["retry_scheduled"]
    BY <1>b, <1>c, <2>3
  <2>8. QED
    BY <1>c, <1>e, <2>3, <2>4, <2>5, <2>6, <2>7
<1>2. ASSUME NEW u \in Targets, NEW to \in TaskStatus, MoveTask(u, to)
      PROVE  WaitingSum'
  <2>1. task' = [task EXCEPT ![u] = to]
    BY <1>2 DEF MoveTask
  <2>2. ASSUME NEW was \in TaskStatus, task[u] = was, was # to
        PROVE  /\ Cardinality(Having(was)') = Cardinality(Having(was)) - 1
               /\ Cardinality(Having(to)') = Cardinality(Having(to)) + 1
    BY <1>a, <2>1, <2>2, HavingMove
  <2>3. ASSUME NEW s, s # task[u], s # to
        PROVE  Having(s)' = Having(s)
    BY <1>a, <2>1, <2>3 DEF Having
  <2>4. ASSUME NEW from \in TaskStatus, from # to, stats' = Move(from, to)
        PROVE  /\ stats'[from] = stats[from] - 1
               /\ stats'[to] = stats[to] + 1
               /\ \A c \in TaskStatus \cup {"total"} :
                    c # from /\ c # to => stats'[c] = stats[c]
    BY <1>a, <2>4, StatsMove
  <2>5. CASE task[u] \in Waiting
    <3>1. to = "sending" /\ stats' = Move("queued", "sending")
      BY <1>2, <2>5 DEF MoveTask
    <3>2. /\ stats'["queued"] = stats["queued"] - 1
          /\ stats'["retry_scheduled"] = stats["retry_scheduled"]
      BY <1>d, <2>4, <3>1
    <3>3. CASE task[u] = "queued"
      <4>1. Queued' = Queued - 1
        BY <1>d, <2>2, <3>1, <3>3 DEF Queued
      <4>2. Retried' = Retried
        BY <1>d, <2>3, <3>1, <3>3 DEF Retried
      <4>3. QED
        BY <1>b, <1>c, <1>e, <3>2, <4>1, <4>2
    <3>4. CASE task[u] = "retry_scheduled"
      <4>1. Retried' = Retried - 1
        BY <1>d, <2>2, <3>1, <3>4 DEF Retried
      <4>2. Queued' = Queued
        BY <1>d, <2>3, <3>1, <3>4 DEF Queued
      <4>3. QED
        BY <1>b, <1>c, <1>e, <3>2, <4>1, <4>2
    <3>5. QED
      BY <2>5, <3>3, <3>4 DEF Waiting
  <2>6. CASE task[u] = "sending"
    <3>1. /\ stats' = Move("sending", to)
          /\ to # "sending" /\ to # "queued"
      BY <1>2, <2>6 DEF MoveTask, Waiting
    <3>2. stats'["queued"] = stats["queued"] /\ Queued' = Queued
      <4>1. Queued' = Queued
        BY <2>3, <2>6, <3>1 DEF Queued
      <4>2. stats'["queued"] = stats["queued"]
        BY <1>d, <2>4, <3>1
      <4>3. QED
        BY <4>1, <4>2
    <3>3. CASE to = "retry_scheduled"
      <4>1. Retried' = Retried + 1
        BY <1>d, <2>2, <2>6, <3>1, <3>3 DEF Retried
      <4>2. stats'["retry_scheduled"] = stats["retry_scheduled"] + 1
        BY <1>d, <2>4, <3>1, <3>3
      <4>3. QED
        BY <1>b, <1>c, <1>e, <3>2, <4>1, <4>2
    <3>4. CASE to # "retry_scheduled"
      <4>1. Retried' = Retried
        BY <2>3, <2>6, <3>4 DEF Retried
      <4>2. stats'["retry_scheduled"] = stats["retry_scheduled"]
        BY <1>d, <2>4, <3>1, <3>4
      <4>3. QED
        BY <1>b, <1>c, <1>e, <3>2, <4>1, <4>2
    <3>5. QED
      BY <3>3, <3>4
  <2>7. QED
    BY <1>2, <2>5, <2>6 DEF MoveTask
<1>3. CASE UNCHANGED <<task, stats>>
  <2>1. Queued' = Queued /\ Retried' = Retried
    BY <1>3 DEF Queued, Retried, Having
  <2>2. QED
    BY <1>b, <1>e, <1>3, <2>1
<1>4. ASSUME NEW p \in Processors, ProcessCancel(p)
      PROVE  UNCHANGED <<task, stats>>
  BY <1>4 DEF ProcessCancel
<1>5. QED
  BY <1>1, <1>2, <1>3, <1>4, TaskChanges

LEMMA NextFollow == CampaignInv /\ [Next]_vars => StatsFollow'
<1>1. ASSUME CampaignInv, [Next]_vars, campaign' # "cancelled"
      PROVE  WaitingSum'
  BY <1>1, NextWaiting
<1>2. ASSUME CampaignInv, [Next]_vars, campaign' # "cancelled",
             NEW s \in Exact
      PROVE  stats'[s] = Cardinality(Having(s)')
  BY <1>2, NextExact
<1>3. QED
  BY <1>1, <1>2 DEF StatsFollow, Exact

\* A row that fetch_completable may return has no task left to wait for.
LEMMA NothingWaits ==
  ASSUME CampaignInv, campaign # "cancelled",
         stats["queued"] + stats["sending"] + stats["retry_scheduled"] = 0
  PROVE  /\ Having("queued") = {}
         /\ \A s \in Final :
              stats[s] \in Nat /\ (stats[s] = 0 <=> Having(s) = {})
         /\ stats["total"] = stats["succeeded"] + stats["dead_lettered"]
                             + stats["cancelled"]
<1>1. /\ WaitingSum
      /\ \A s \in Exact : stats[s] = Cardinality(Having(s))
  BY DEF CampaignInv, StatsFollow
<1>2. \A s : /\ Cardinality(Having(s)) \in Nat
             /\ Cardinality(Having(s)) = 0 <=> Having(s) = {}
  BY CountsAreFinite
<1>3. \A s \in Final : stats[s] \in Nat /\ (stats[s] = 0 <=> Having(s) = {})
  BY <1>1, <1>2 DEF Exact
<1>4. /\ stats["sending"] = Cardinality(Having("sending"))
      /\ \A c \in TaskStatus \cup {"total"} : stats[c] \in Int
  BY <1>1 DEF Exact, CampaignInv, IInv, TypeOK
<1>5. /\ stats["queued"] \in Int /\ stats["retry_scheduled"] \in Int
      /\ stats["sending"] \in Nat /\ stats["total"] \in Int
  BY <1>2, <1>4, Columns
<1>6. stats["sending"] = 0 /\ Cardinality(Having("queued")) = 0
  BY <1>1, <1>2, <1>4, <1>5 DEF WaitingSum
<1>7. Having("queued") = {}
  BY <1>2, <1>6
<1>8. stats["queued"] + stats["retry_scheduled"] = 0
  BY <1>5, <1>6
<1>9. stats["total"] = stats["succeeded"] + stats["dead_lettered"]
                       + stats["cancelled"]
  <2>1. /\ stats["succeeded"] \in Int /\ stats["dead_lettered"] \in Int
        /\ stats["cancelled"] \in Int
    BY <1>4, Columns
  <2>2. QED
    BY <1>5, <1>6, <1>8, <2>1 DEF CampaignInv, Balance
<1>10. QED
  BY <1>3, <1>7, <1>9

LEMMA NextBalance == CampaignInv /\ [Next]_vars => Balance'
<1> SUFFICES ASSUME CampaignInv, [Next]_vars PROVE Balance'
  OBVIOUS
<1>a. /\ task \in [Targets -> TaskStatus \cup {"absent"}]
      /\ stats \in [TaskStatus \cup {"total"} -> Int]
      /\ exec \in [Executors -> Executor]
  BY DEF CampaignInv, IInv, TypeOK
<1>b. \A c \in TaskStatus \cup {"total"} : stats[c] \in Int
  BY <1>a
<1>c. Balance
  BY DEF CampaignInv
<1>1. ASSUME NEW e \in Executors, InsertBatch(e)
      PROVE  Balance'
  <2>1. Counted(exec[e].batch) \in Nat
    BY <1>a, <1>1, HavingInsert DEF InsertBatch, Executor
  <2>2. /\ stats'["total"] = stats["total"] + Counted(exec[e].batch)
        /\ stats'["queued"] = stats["queued"] + Counted(exec[e].batch)
        /\ \A c \in TaskStatus : c # "queued" => stats'[c] = stats[c]
    BY <1>a, <1>1, <2>1, Columns DEF InsertBatch
  <2>3. QED
    BY <1>b, <1>c, <2>1, <2>2, Columns DEF Balance
<1>2. ASSUME NEW u \in Targets, NEW to \in TaskStatus, MoveTask(u, to)
      PROVE  Balance'
  <2>1. PICK from \in TaskStatus :
          from # to /\ stats' = Move(from, to)
    BY <1>2, Columns DEF MoveTask
  <2>2. /\ stats'[from] = stats[from] - 1
        /\ stats'[to] = stats[to] + 1
        /\ \A c \in TaskStatus \cup {"total"} :
             c # from /\ c # to => stats'[c] = stats[c]
    BY <1>a, <2>1, StatsMove
  <2>3. \A c \in TaskStatus \cup {"total"} :
          stats'[c] = stats[c] - (IF c = from THEN 1 ELSE 0)
                               + (IF c = to THEN 1 ELSE 0)
    BY <1>b, <2>1, <2>2
  <2>4. from \in TaskStatus /\ to \in TaskStatus
    OBVIOUS
  <2>5. stats'["total"] = stats["total"]
    BY <2>2, Columns
  <2>6. stats'["queued"] + stats'["retry_scheduled"] + stats'["sending"]
        + stats'["succeeded"] + stats'["dead_lettered"] + stats'["cancelled"]
          = stats["queued"] + stats["retry_scheduled"] + stats["sending"]
            + stats["succeeded"] + stats["dead_lettered"] + stats["cancelled"]
    <3> DEFINE D(c) == (IF c = to THEN 1 ELSE 0) - (IF c = from THEN 1 ELSE 0)
    <3>1. \A c \in TaskStatus :
            stats'[c] = stats[c] + D(c) /\ stats[c] \in Int /\ D(c) \in Int
      BY <1>b, <2>3
    <3>2. /\ from \in {"queued", "retry_scheduled", "sending", "succeeded",
                       "dead_lettered", "cancelled"}
          /\ to \in {"queued", "retry_scheduled", "sending", "succeeded",
                     "dead_lettered", "cancelled"}
      BY <2>4, Columns
    <3>3. D("queued") + D("retry_scheduled") + D("sending") + D("succeeded")
            + D("dead_lettered") + D("cancelled") = 0
      BY <2>1, <3>2
    <3> HIDE DEF D
    <3>4. QED
      BY <3>1, <3>3, Columns
  <2>7. QED
    BY <1>b, <1>c, <2>1, <2>5, <2>6 DEF Balance
<1>3. CASE UNCHANGED stats
  BY <1>c, <1>3 DEF Balance
<1>4. QED
  BY <1>1, <1>2, <1>3, TaskChanges DEF ProcessCancel

-----------------------------------------------------------------------------
(* The verdict.                                                            *)

LEMMA NextRunning == CampaignInv /\ [Next]_vars => RunningInv'
<1> SUFFICES ASSUME CampaignInv, [Next]_vars, campaign' = "running"
             PROVE  Having("cancelled")' = {}
  BY DEF RunningInv
<1>a. task \in [Targets -> TaskStatus \cup {"absent"}]
  BY DEF CampaignInv, IInv, TypeOK
<1>b. campaign = "running"
  <2>1. ASSUME NEW p \in Processors, ProcessCancel(p)
        PROVE  campaign = "running"
    BY <2>1 DEF ProcessCancel
  <2>2. CASE RequestCancel \/ FetchCompletable \/ FinalizeFails
    BY <2>2 DEF RequestCancel, FetchCompletable, FinalizeFails, cancelVars
  <2>3. CASE FinalizeCampaign
    BY <2>3 DEF FinalizeCampaign, Verdict
  <2>4. QED
    BY <2>1, <2>2, <2>3, CampaignSteps
<1>c. Having("cancelled") = {}
  BY <1>b DEF CampaignInv, RunningInv
<1>1. ASSUME NEW e \in Executors, InsertBatch(e)
      PROVE  Having("cancelled")' = {}
  BY <1>a, <1>c, <1>1 DEF InsertBatch, Having
<1>2. ASSUME NEW u \in Targets, NEW to \in TaskStatus, MoveTask(u, to)
      PROVE  Having("cancelled")' = {}
  BY <1>a, <1>b, <1>c, <1>2 DEF MoveTask, CancelRequested, Having
<1>3. ASSUME NEW p \in Processors, ProcessCancel(p)
      PROVE  Having("cancelled")' = {}
  BY <1>b, <1>3 DEF ProcessCancel, CanCancel
<1>4. CASE UNCHANGED <<task, stats>>
  BY <1>c, <1>4 DEF Having
<1>5. QED
  BY <1>1, <1>2, <1>3, <1>4, TaskChanges

LEMMA NextScanEarned == CampaignInv /\ [Next]_vars => ScanEarned'
<1> SUFFICES ASSUME CampaignInv, [Next]_vars PROVE ScanEarned'
  OBVIOUS
<1>1. CASE FetchCompletable
  <2>1. /\ campaign \in {"running", "cancelling"}
        /\ stats["total"] > 0
        /\ stats["queued"] + stats["sending"] + stats["retry_scheduled"] = 0
        /\ scan'.status = campaign /\ scan'.total = stats["total"]
        /\ scan'.succeeded = stats["succeeded"]
        /\ scan'.dead_lettered = stats["dead_lettered"]
        /\ scan'.cancelled = stats["cancelled"]
        /\ UNCHANGED <<campaign, task>>
    BY <1>1 DEF FetchCompletable, Completable, taskVars, cancelVars
  <2>2. /\ \A s \in Final : /\ stats[s] \in Nat
                            /\ stats[s] = 0 <=> Having(s) = {}
        /\ stats["total"] = stats["succeeded"] + stats["dead_lettered"]
                             + stats["cancelled"]
    BY <2>1, NothingWaits
  <2>3. {"succeeded", "dead_lettered", "cancelled"} = Final
    BY DEF Final
  <2>4. \A s : Having(s)' = Having(s)
    BY <2>1 DEF Having
  <2>5. campaign = "running" => stats["cancelled"] = 0
    BY <2>2, <2>3 DEF CampaignInv, RunningInv
  <2>6. /\ scan'.succeeded \in Nat /\ scan'.dead_lettered \in Nat
        /\ scan'.cancelled \in Nat
    BY <2>1, <2>2, <2>3
  <2>7. /\ scan'.succeeded > 0 => Having("succeeded")' # {}
        /\ scan'.dead_lettered > 0 => Having("dead_lettered")' # {}
        /\ scan'.cancelled > 0 => Having("cancelled")' # {}
    BY <2>1, <2>2, <2>3, <2>4
  <2>8. QED
    BY <2>1, <2>2, <2>5, <2>6, <2>7 DEF ScanEarned
<1>2. CASE FinalizeCampaign \/ FinalizeFails
  BY <1>2 DEF FinalizeCampaign, FinalizeFails, ScanEarned
<1>3. CASE ~(FetchCompletable \/ FinalizeCampaign \/ FinalizeFails)
  <2>1. scan' = scan /\ (campaign' = "running" => campaign = "running")
    BY <1>3, CampaignSteps DEF RequestCancel, ProcessCancel
  <2>2. ASSUME NEW s \in {"succeeded", "dead_lettered", "cancelled"},
               Having(s) # {}
        PROVE  Having(s)' # {}
    <3>1. Having(s) \subseteq Having(s)'
      BY FinalGrows DEF CampaignInv, Final
    <3>2. QED
      BY <2>2, <3>1
  <2>3. ScanEarned
    BY DEF CampaignInv
  <2>4. QED
    BY <2>1, <2>2, <2>3 DEF ScanEarned
<1>4. QED
  BY <1>1, <1>2, <1>3

LEMMA NextEarned == CampaignInv /\ [Next]_vars => VerdictIsEarned'
<1> SUFFICES ASSUME CampaignInv, [Next]_vars PROVE VerdictIsEarned'
  OBVIOUS
<1>1. CASE FinalizeCampaign /\ CanFinalize
  <2>1. scan # NoScan /\ campaign' = Verdict(scan) /\ UNCHANGED task
    BY <1>1 DEF FinalizeCampaign, taskVars
  <2>2. /\ scan.succeeded \in Nat /\ scan.dead_lettered \in Nat
        /\ scan.cancelled \in Nat
        /\ scan.total > 0
        /\ scan.total = scan.succeeded + scan.dead_lettered + scan.cancelled
        /\ scan.succeeded > 0 => Having("succeeded") # {}
        /\ scan.dead_lettered > 0 => Having("dead_lettered") # {}
        /\ scan.cancelled > 0 => Having("cancelled") # {}
    BY <2>1 DEF CampaignInv, ScanEarned
  <2>3. Verdict(scan) \in {"completed", "partially_failed"} =>
          Having("succeeded") # {}
    BY <2>2 DEF Verdict
  <2>4. Verdict(scan) \in {"failed", "partially_failed"} =>
          Having("dead_lettered") \cup Having("cancelled") # {}
    BY <2>2 DEF Verdict
  <2>5. \A s : Having(s)' = Having(s)
    BY <2>1 DEF Having
  <2>6. QED
    BY <2>1, <2>3, <2>4, <2>5 DEF VerdictIsEarned
<1>2. CASE ~(FinalizeCampaign /\ CanFinalize)
  <2>1. campaign' \in {campaign, "cancelling", "cancelled"}
    BY <1>2, CampaignSteps
       DEF RequestCancel, FetchCompletable, FinalizeCampaign, FinalizeFails,
           ProcessCancel, cancelVars
  <2>2. \A s \in {"succeeded", "dead_lettered", "cancelled"} :
          Having(s) \subseteq Having(s)'
    BY FinalGrows DEF CampaignInv, Final
  <2>3. VerdictIsEarned
    BY DEF CampaignInv
  <2>4. QED
    BY <2>1, <2>2, <2>3 DEF VerdictIsEarned
<1>3. QED
  BY <1>1, <1>2

-----------------------------------------------------------------------------
(* The tasks added after a cancellation.                                   *)

\* A page's channels are a batch.
LEMMA PagesAreSmall ==
  ASSUME NEW page \in Pages0
  PROVE  ChannelsOf(page) \in Small
<1>1. PICK c \in 0 .. NumUsers : page = Page(c)
  BY DEF Pages0
<1>2. Cardinality(ChannelsOf(page)) <= PageTasks
  BY <1>1, FanoutAssumption
<1>3. QED
  BY <1>2 DEF Small, ChannelsOf

LEMMA NothingIsSmall == {} \in Small
  BY FS_EmptySet, FanoutAssumption DEF Small

\* A page that is not empty is sent down whole.
LEMMA PageRead ==
  ASSUME exec \in [Executors -> Executor], NEW e \in Executors, ReadPage(e),
         Page(exec[e].cursor) # {}
  PROVE  /\ exec'[e].users = Append(exec[e].users, Page(exec[e].cursor))
         /\ exec'[e].hand = exec[e].hand /\ exec'[e].tasks = exec[e].tasks
         /\ exec'[e].batch = exec[e].batch
         /\ exec[e].pc = "running" /\ exec'[e].pc = "running"
         /\ exec'[e].stage = exec[e].stage
<1>1. PICK page : page = Page(exec[e].cursor)
  OBVIOUS
<1>2. PICK top : top = CHOOSE u \in page : \A v \in page : v <= u
  OBVIOUS
<1>3. PICK last : last = LastPage(page)
  OBVIOUS
<1>4. exec' = [exec EXCEPT ![e] = [exec[e] EXCEPT
                 !.users = Append(exec[e].users, page), !.cursor = top,
                 !.scanned = last]]
  BY <1>1, <1>2, <1>3 DEF ReadPage
<1>5. exec'[e] = [exec[e] EXCEPT !.users = Append(exec[e].users, page),
                                 !.cursor = top, !.scanned = last]
  BY <1>4
<1>6. exec[e].pc = "running"
  BY DEF ReadPage
<1>7. QED
  BY <1>1, <1>5, <1>6 DEF Executor

LEMMA HeldStep ==
  ASSUME CampaignInv, NEW e \in Executors,
         Consume(e) \/ Progress(e) \/ Fault(e)
  PROVE  HeldOK(exec'[e])
<1>a. /\ exec \in [Executors -> Executor]
      /\ exec[e] \in Executor
      /\ HeldOK(exec[e])
  BY DEF CampaignInv, IInv, TypeOK, HeldInv
<1>b. \A pc, r, unacked : HeldOK(Outside(pc, r, unacked))
  BY NothingIsSmall DEF HeldOK, Outside
<1>1. CASE \/ AcquireLock(e) \/ SkipRun(e) \/ FinishPipeline(e)
           \/ MarkCompleted(e) \/ MarkFailed(e) \/ MarkCancelled(e)
           \/ Respond(e) \/ DbError(e) \/ LockError(e) \/ Crash(e)
  <2>1. CASE AcquireLock(e) \/ SkipRun(e) \/ LockError(e)
    <3>1. \E pc, r \in {"loading", "acking", "none", "ok", "failed"} :
            exec'[e] = Outside(pc, r, TRUE)
      BY <1>a, <2>1 DEF AcquireLock, SkipRun, LockError
    <3>2. QED
      BY <1>b, <3>1
  <2>2. CASE Respond(e) \/ Crash(e)
    <3>1. exec'[e] = Outside("idle", "none", FALSE)
      BY <1>a, <2>2 DEF Respond, Crash, Idle
    <3>2. QED
      BY <1>b, <3>1
  <2>3. CASE \/ FinishPipeline(e) \/ MarkCompleted(e) \/ MarkFailed(e)
             \/ MarkCancelled(e) \/ DbError(e)
    <3>1. \E r \in {"ok", "failed", "cancelled"} :
            exec'[e] = Acking(e, r) \/ exec'[e] = Closing(e, r)
      BY <1>a, <2>3 DEF FinishPipeline, MarkCompleted, MarkFailed,
                        MarkCancelled, DbError
    <3>2. QED
      BY <1>b, <3>1 DEF Acking, Closing
  <2>4. QED
    BY <1>1, <2>1, <2>2, <2>3
<1>2. CASE LoadCampaign(e) \/ InsertBatch(e) \/ LoseConnection(e)
  <2>1. /\ exec'[e].users = exec[e].users /\ exec'[e].hand = exec[e].hand
        /\ exec'[e].tasks = exec[e].tasks /\ exec'[e].batch = exec[e].batch
    BY <1>a, <1>2 DEF LoadCampaign, InsertBatch, LoseConnection, Executor
  <2>2. exec'[e].pc # "running" => exec'[e].stage = "waiting"
    BY <1>a, <1>2 DEF LoadCampaign, InsertBatch, LoseConnection, Executor,
                      HeldOK
  <2>3. QED
    BY <1>a, <2>1, <2>2 DEF HeldOK
<1>3. CASE ReadPage(e)
  <2>1. CASE Page(exec[e].cursor) = {}
    <3>1. exec'[e] = [exec[e] EXCEPT !.scanned = TRUE]
      BY <1>a, <1>3, <2>1 DEF ReadPage
    <3>2. QED
      BY <1>a, <3>1 DEF HeldOK, Executor
  <2>2. CASE Page(exec[e].cursor) # {}
    <3>1. /\ exec'[e].users = Append(exec[e].users, Page(exec[e].cursor))
          /\ exec'[e].hand = exec[e].hand /\ exec'[e].pc = "running"
          /\ exec'[e].tasks = exec[e].tasks
          /\ exec'[e].batch = exec[e].batch
      BY <1>a, <1>3, <2>2, PageRead
    <3>2. Page(exec[e].cursor) \in Pages0
      BY <1>a DEF Executor, Pages0
    <3>3. exec[e].users \in Seq(Pages0)
      BY <1>a DEF HeldOK
    <3>4. exec'[e].users \in Seq(Pages0)
      BY <3>1, <3>2, <3>3
    <3>5. QED
      BY <1>a, <3>1, <3>4 DEF HeldOK
  <2>3. QED
    BY <2>1, <2>2
<1>4. CASE Enrich(e)
  <2>1. /\ exec'[e].users = Tail(exec[e].users) /\ exec[e].users # <<>>
        /\ exec'[e].hand = ChannelsOf(Head(exec[e].users))
        /\ exec'[e].tasks = exec[e].tasks /\ exec'[e].batch = exec[e].batch
        /\ exec'[e].pc = "running"
    BY <1>a, <1>4 DEF Enrich, Executor
  <2>2. exec[e].users \in Seq(Pages0)
    BY <1>a DEF HeldOK
  <2>3. Tail(exec[e].users) \in Seq(Pages0) /\ Head(exec[e].users) \in Pages0
    BY <2>1, <2>2
  <2>4. ChannelsOf(Head(exec[e].users)) \in Small
    BY <2>3, PagesAreSmall
  <2>5. QED
    BY <1>a, <2>1, <2>3, <2>4 DEF HeldOK
<1>5. CASE SendTasks(e)
  <2>1. /\ exec'[e].users = exec[e].users
        /\ exec'[e].hand = {} /\ exec'[e].pc = "running"
        /\ exec'[e].tasks = Append(exec[e].tasks, exec[e].hand)
        /\ exec'[e].batch = exec[e].batch
    BY <1>a, <1>5 DEF SendTasks, Executor
  <2>2. QED
    BY <1>a, <2>1, NothingIsSmall DEF HeldOK
<1>6. CASE CheckCancelled(e)
  <2>1. CASE CancelRequested
    <3>1. exec'[e] = Closing(e, "cancelled")
      BY <1>a, <1>6, <2>1 DEF CheckCancelled
    <3>2. QED
      BY <1>b, <3>1 DEF Closing
  <2>2. CASE ~CancelRequested
    <3>1. /\ exec'[e].users = exec[e].users
          /\ exec'[e].hand = exec[e].hand
          /\ exec'[e].tasks = Tail(exec[e].tasks) /\ exec[e].tasks # <<>>
          /\ exec'[e].batch = Head(exec[e].tasks)
          /\ exec'[e].pc = "running"
      BY <1>a, <1>6, <2>2 DEF CheckCancelled, Executor
    <3>2. exec[e].tasks \in Seq(Small)
      BY <1>a DEF HeldOK
    <3>3. Tail(exec[e].tasks) \in Seq(Small) /\ Head(exec[e].tasks) \in Small
      BY <3>1, <3>2
    <3>4. QED
      BY <1>a, <3>1, <3>3 DEF HeldOK
  <2>3. QED
    BY <2>1, <2>2
<1>7. CASE ExtendLock(e)
  <2>1. CASE Owns(e)
    <3>1. /\ exec'[e].users = exec[e].users /\ exec'[e].hand = exec[e].hand
          /\ exec'[e].tasks = exec[e].tasks /\ exec'[e].batch = {}
          /\ exec'[e].pc = "running"
      BY <1>a, <1>7, <2>1 DEF ExtendLock, Executor
    <3>2. QED
      BY <1>a, <3>1, NothingIsSmall DEF HeldOK
  <2>2. CASE ~Owns(e)
    <3>1. exec'[e] = Closing(e, "failed")
      BY <1>a, <1>7, <2>2 DEF ExtendLock
    <3>2. QED
      BY <1>b, <3>1 DEF Closing
  <2>3. QED
    BY <2>1, <2>2
<1>8. QED
  BY <1>1, <1>2, <1>3, <1>4, <1>5, <1>6, <1>7
     DEF Consume, Progress, Pipeline, Close, Fault

\* A step of one executor leaves the others' records alone.
LEMMA OthersStay ==
  ASSUME IInv, NEW e \in Executors, Consume(e) \/ Progress(e) \/ Fault(e),
         NEW f \in Executors, f # e
  PROVE  exec'[f] = exec[f]
<1>1. PICK x \in Executor : exec' = [exec EXCEPT ![e] = x]
  BY ExecutorStep
<1>2. QED
  BY <1>1 DEF IInv, TypeOK

LEMMA NextHeld == CampaignInv /\ [Next]_vars => HeldInv'
<1> SUFFICES ASSUME CampaignInv, [Next]_vars, NEW f \in Executors
             PROVE  HeldOK(exec'[f])
  BY DEF HeldInv, HeldOK
<1>a. IInv /\ HeldOK(exec[f])
  BY DEF CampaignInv, HeldInv
<1>1. ASSUME NEW e \in Executors, Consume(e) \/ Progress(e) \/ Fault(e)
      PROVE  HeldOK(exec'[f])
  <2>1. CASE f = e
    BY <1>1, <2>1, HeldStep
  <2>2. CASE f # e
    BY <1>1, <1>a, <2>2, OthersStay
  <2>3. QED
    BY <2>1, <2>2
<1>2. CASE exec' = exec
  BY <1>a, <1>2
<1>3. QED
  BY <1>1, <1>2, ExecSteps

\* After a cancel request nobody passes the check any more.
LEMMA CheckedShrinks ==
  ASSUME CampaignInv, [Next]_vars, CancelRequested
  PROVE  Checked' \subseteq Checked
<1> SUFFICES ASSUME NEW f \in Executors, f \in Checked' PROVE f \in Checked
  BY DEF Checked
<1>a. /\ exec \in [Executors -> Executor] /\ exec[f] \in Executor /\ IInv
      /\ exec[f].pc # "running" => exec[f].stage = "waiting"
      /\ exec'[f].pc = "running" /\ exec'[f].stage = "checked"
  BY DEF CampaignInv, IInv, TypeOK, HeldInv, HeldOK, Checked
<1>1. CASE exec'[f] = exec[f]
  BY <1>a, <1>1 DEF Checked
<1>2. CASE Consume(f) \/ Progress(f) \/ Fault(f)
  <2>1. CASE \/ AcquireLock(f) \/ SkipRun(f) \/ FinishPipeline(f)
             \/ MarkCompleted(f) \/ MarkFailed(f) \/ MarkCancelled(f)
             \/ Respond(f) \/ DbError(f) \/ LockError(f) \/ Crash(f)
    BY <1>a, <2>1 DEF AcquireLock, SkipRun, FinishPipeline, MarkCompleted,
         MarkFailed, MarkCancelled, Respond, DbError, LockError, Crash,
         Closing, Acking, Idle, Outside
  <2>2. CASE \/ LoadCampaign(f) \/ ReadPage(f) \/ Enrich(f) \/ SendTasks(f)
             \/ LoseConnection(f)
    <3>1. CASE LoadCampaign(f) \/ LoseConnection(f)
      BY <1>a, <3>1 DEF LoadCampaign, LoseConnection, Executor, Checked
    <3>2. CASE ReadPage(f)
      <4>1. CASE Page(exec[f].cursor) = {}
        BY <1>a, <3>2, <4>1 DEF ReadPage, Executor, Checked
      <4>2. CASE Page(exec[f].cursor) # {}
        BY <1>a, <3>2, <4>2, PageRead DEF Checked
      <4>3. QED
        BY <4>1, <4>2
    <3>3. CASE Enrich(f)
      BY <1>a, <3>3 DEF Enrich, Executor, Checked
    <3>4. CASE SendTasks(f)
      BY <1>a, <3>4 DEF SendTasks, Executor, Checked
    <3>5. QED
      BY <2>2, <3>1, <3>2, <3>3, <3>4
  <2>3. CASE CheckCancelled(f) \/ InsertBatch(f) \/ ExtendLock(f)
    BY <1>a, <2>3 DEF CheckCancelled, InsertBatch, ExtendLock, Closing,
                      Outside, Executor
  <2>4. QED
    BY <1>2, <2>1, <2>2, <2>3 DEF Consume, Progress, Pipeline, Close, Fault
<1>3. ASSUME NEW e \in Executors, Consume(e) \/ Progress(e) \/ Fault(e),
             e # f
      PROVE  exec'[f] = exec[f]
  BY <1>a, <1>3, OthersStay
<1>4. QED
  BY <1>1, <1>2, <1>3, ExecSteps

\* When the cancellation is decided no task is queued.
LEMMA DecidedEmpty ==
  ASSUME CampaignInv, [Next]_vars, ~CancelDecided, CancelDecided'
  PROVE  Having("queued")' = {}
<1>a. /\ task \in [Targets -> TaskStatus \cup {"absent"}]
      /\ scan # NoScan => scan.status \in {"running", "cancelling"}
      /\ ScanEarned /\ StatsFollow
  BY DEF CampaignInv, IInv, TypeOK, ScanInv
<1>1. ASSUME NEW p \in Processors, ProcessCancel(p)
      PROVE  Having("queued")' = {}
  <2>1. CASE CanCancel
    BY <1>a, <1>1, <2>1 DEF ProcessCancel, Having, Waiting
  <2>2. CASE ~CanCancel
    BY <1>1, <2>2 DEF ProcessCancel, CancelDecided
  <2>3. QED
    BY <2>1, <2>2
<1>2. ASSUME FetchCompletable
      PROVE  Having("queued")' = {}
  <2>1. /\ campaign # "cancelled" /\ UNCHANGED task
        /\ stats["queued"] + stats["sending"] + stats["retry_scheduled"] = 0
    BY <1>2 DEF FetchCompletable, Completable, taskVars
  <2>3. Having("queued") = {}
    BY <2>1, NothingWaits
  <2>4. QED
    BY <2>1, <2>3 DEF Having
<1>3. CASE RequestCancel
  <2>1. campaign' = "cancelling" /\ campaign = "running" /\ scan' = scan
    BY <1>3 DEF RequestCancel
  <2>2. scan.status = "cancelling"
    BY <2>1 DEF CancelDecided
  <2>3. scan # NoScan
    BY <2>2 DEF NoScan
  <2>4. QED
    BY <1>a, <2>1, <2>2, <2>3 DEF ScanEarned
<1>4. CASE FinalizeCampaign
  <2>1. scan # NoScan /\ scan'.status = "none"
    BY <1>4 DEF FinalizeCampaign, NoScan
  <2>2. campaign' = "cancelled" /\ campaign # "cancelled"
    BY <2>1 DEF CancelDecided
  <2>3. campaign = scan.status /\ Verdict(scan) = "cancelled"
    BY <1>4, <2>2 DEF FinalizeCampaign, CanFinalize
  <2>4. scan.status = "running"
    BY <1>a, <2>1, <2>3 DEF CancelDecided
  <2>5. scan.cancelled = 0 /\ scan.total > 0
    BY <1>a, <2>1, <2>4 DEF ScanEarned
  <2>6. Verdict(scan) # "cancelled"
    BY <2>4, <2>5 DEF Verdict
  <2>7. QED
    BY <2>3, <2>6
<1>5. CASE FinalizeFails
  BY <1>5 DEF FinalizeFails, CancelDecided, NoScan, cancelVars
<1>6. CASE UNCHANGED <<campaign, scan>>
  BY <1>6 DEF CancelDecided
<1>7. QED
  BY <1>1, <1>2, <1>3, <1>4, <1>5, <1>6, CampaignSteps

\* A batch is paid for by the executor that is no longer past its check.
LEMMA InsertPays ==
  ASSUME CampaignInv, [Next]_vars, CancelRequested
  PROVE  \/ Cardinality(Having("queued")') <= Cardinality(Having("queued"))
         \/ /\ Cardinality(Having("queued")')
                 <= Cardinality(Having("queued")) + PageTasks
            /\ \E e \in Checked : e \notin Checked'
<1>a. /\ task \in [Targets -> TaskStatus \cup {"absent"}]
      /\ exec \in [Executors -> Executor]
      /\ HeldInv
  BY DEF CampaignInv, IInv, TypeOK
<1>1. ASSUME Having("queued")' \subseteq Having("queued")
      PROVE  Cardinality(Having("queued")') <= Cardinality(Having("queued"))
  BY <1>1, CountsAreFinite, FS_Subset
<1>2. ASSUME NEW e \in Executors, InsertBatch(e)
      PROVE  /\ Cardinality(Having("queued")')
                  <= Cardinality(Having("queued")) + PageTasks
             /\ e \in Checked /\ e \notin Checked'
  <2>1. exec[e].batch \in SUBSET Targets
        /\ Cardinality(exec[e].batch) <= PageTasks
    BY <1>a DEF HeldInv, HeldOK, Small
  <2>2. task' = [u \in Targets |->
                   IF u \in exec[e].batch /\ task[u] = "absent"
                   THEN "queued" ELSE task[u]]
    BY <1>2 DEF InsertBatch
  <2>3. /\ Cardinality(Having("queued")')
             = Cardinality(Having("queued")) + Counted(exec[e].batch)
        /\ Counted(exec[e].batch) \in Nat
        /\ Counted(exec[e].batch) <= Cardinality(exec[e].batch)
    BY <1>a, <2>1, <2>2, HavingInsert
  <2>4. Cardinality(exec[e].batch) \in Nat
        /\ Cardinality(Having("queued")) \in Nat
    <3>1. IsFiniteSet(exec[e].batch)
      BY <2>1, CountsAreFinite, FS_Subset
    <3>2. QED
      BY <3>1, CountsAreFinite, FS_CardinalityType
  <2>5. e \in Checked
    BY <1>2 DEF InsertBatch, Checked
  <2>6. exec'[e].stage = "inserted"
    BY <1>a, <1>2 DEF InsertBatch, Executor
  <2>7. Cardinality(Having("queued")')
          <= Cardinality(Having("queued")) + PageTasks
    BY <2>1, <2>3, <2>4, FanoutAssumption
  <2>8. QED
    BY <2>5, <2>6, <2>7 DEF Checked
<1>3. ASSUME NEW u \in Targets, NEW to \in TaskStatus, MoveTask(u, to)
      PROVE  Having("queued")' \subseteq Having("queued")
  BY <1>a, <1>3 DEF MoveTask, Having
<1>4. ASSUME NEW p \in Processors, ProcessCancel(p)
      PROVE  Having("queued")' \subseteq Having("queued")
  BY <1>a, <1>4 DEF ProcessCancel, Having
<1>5. CASE UNCHANGED <<task, stats>>
  BY <1>1, <1>5 DEF Having
<1>6. QED
  BY <1>1, <1>2, <1>3, <1>4, <1>5, TaskChanges

LEMMA NextLate == CampaignInv /\ [Next]_vars => LateInv'
<1> SUFFICES ASSUME CampaignInv, [Next]_vars, CancelDecided'
             PROVE  Cardinality(Having("queued")')
                      <= PageTasks * Cardinality(Executors \ Checked')
  BY DEF LateInv
<1> DEFINE Rest == Executors \ Checked
<1>a. /\ IsFiniteSet(Rest) /\ Cardinality(Rest) \in Nat
      /\ IsFiniteSet(Rest') /\ Cardinality(Rest') \in Nat
  <2>1. IsFiniteSet(Rest) /\ IsFiniteSet(Rest')
    BY FanoutAssumption, FS_Difference
  <2>2. QED
    BY <2>1, FS_CardinalityType
<1>b. PageTasks \in Nat
  BY FanoutAssumption
<1>c. \A m, n \in Nat : m <= n => PageTasks * m <= PageTasks * n
  BY <1>b
<1>d. \A n \in Nat : PageTasks * (n + 1) = PageTasks * n + PageTasks
  BY <1>b
<1>1. CASE ~CancelDecided
  <2>1. Cardinality(Having("queued")') = 0
    BY <1>1, DecidedEmpty, FS_EmptySet
  <2>2. PageTasks * Cardinality(Rest') >= 0
    BY <1>a, <1>b
  <2>3. QED
    BY <2>1, <2>2
<1>2. CASE CancelDecided
  <2>1. Cardinality(Having("queued")) <= PageTasks * Cardinality(Rest)
    BY <1>2 DEF CampaignInv, LateInv
  <2>2. CancelRequested
    BY <1>2 DEF CancelDecided, CancelRequested
  <2>3. Rest \subseteq Rest'
    BY <2>2, CheckedShrinks
  <2>4. Cardinality(Rest) <= Cardinality(Rest')
    BY <1>a, <2>3, FS_Subset
  <2>5. CASE Cardinality(Having("queued")') <= Cardinality(Having("queued"))
    <3>1. PageTasks * Cardinality(Rest) <= PageTasks * Cardinality(Rest')
      BY <1>a, <1>c, <2>4
    <3>2. /\ Cardinality(Having("queued")) \in Nat
          /\ Cardinality(Having("queued")') \in Nat
      BY CountsAreFinite
    <3>3. QED
      BY <1>a, <1>b, <2>1, <2>5, <3>1, <3>2
  <2>6. ASSUME Cardinality(Having("queued")')
                 <= Cardinality(Having("queued")) + PageTasks,
               NEW e \in Checked, e \notin Checked'
        PROVE  Cardinality(Having("queued")') <= PageTasks * Cardinality(Rest')
    <3>1. e \in Rest' /\ e \notin Rest
      BY <2>6 DEF Checked
    <3>2. Cardinality(Rest \cup {e}) = Cardinality(Rest) + 1
          /\ IsFiniteSet(Rest \cup {e})
      BY <1>a, <3>1, FS_AddElement
    <3>3. Cardinality(Rest) + 1 <= Cardinality(Rest')
      BY <1>a, <2>3, <3>1, <3>2, FS_Subset
    <3>4. PageTasks * (Cardinality(Rest) + 1) <= PageTasks * Cardinality(Rest')
      BY <1>a, <1>c, <3>3
    <3>5. PageTasks * (Cardinality(Rest) + 1)
            = PageTasks * Cardinality(Rest) + PageTasks
      BY <1>a, <1>d
    <3>6. /\ Cardinality(Having("queued")) \in Nat
          /\ Cardinality(Having("queued")') \in Nat
      BY CountsAreFinite
    <3>7. QED
      BY <1>a, <1>b, <2>1, <2>6, <3>4, <3>5, <3>6
  <2>7. QED
    BY <2>2, <2>5, <2>6, InsertPays
<1>3. QED
  BY <1>1, <1>2

-----------------------------------------------------------------------------
(* Theorems.                                                               *)

LEMMA InitCampaign == Init => CampaignInv
<1> SUFFICES ASSUME Init PROVE CampaignInv
  OBVIOUS
<1>1. \A s \in TaskStatus : Having(s) = {} /\ stats[s] = 0
  BY Columns DEF Init, Having
<1>2. StatsFollow /\ RunningInv
  BY <1>1, FS_EmptySet, Columns
     DEF StatsFollow, WaitingSum, Exact, RunningInv
<1>3. Balance
  BY <1>1, Columns DEF Init, Balance
<1>4. ScanEarned /\ VerdictIsEarned
  BY DEF Init, ScanEarned, VerdictIsEarned
<1>5. HeldInv
  <2>1. HeldOK(Idle)
    BY NothingIsSmall DEF HeldOK, Idle, Outside
  <2>2. QED
    BY <2>1 DEF Init, HeldInv
<1>6. LateInv
  BY DEF Init, LateInv, CancelDecided
<1>7. QED
  BY InitIInv, <1>2, <1>3, <1>4, <1>5, <1>6 DEF CampaignInv

\* The inductive invariant holds in every reachable state.
THEOREM CampaignInvariance == Spec => []CampaignInv
<1>1. CampaignInv /\ [Next]_vars => CampaignInv'
  <2>1. CampaignInv /\ [Next]_vars => IInv'
    BY NextType, NextTotal, NextSignal, NextExec, NextWhole, NextOwner,
       NextScan, NextGrant DEF IInv, CampaignInv
  <2>2. QED
    BY <2>1, NextFollow, NextBalance, NextRunning, NextScanEarned, NextHeld,
       NextLate, NextEarned DEF CampaignInv
<1>2. QED
  BY InitCampaign, <1>1, PTL DEF Spec

\* A completed campaign delivered something, a failed one has a task that
\* failed or was cancelled: the counts that the finalizer read are earned by
\* tasks that are still there when it writes.
THEOREM VerdictsAreEarned == Spec => []VerdictIsEarned
<1>1. CampaignInv => VerdictIsEarned
  BY DEF CampaignInv
<1>2. QED
  BY CampaignInvariance, <1>1, PTL

\* Once the campaign is cancelled, at most one batch per executor is added, and
\* a batch has no more tasks than the users of one page have channels.
THEOREM LateTasksBounded == Spec => []LateTasksAreBounded
<1>1. CampaignInv => LateTasksAreBounded
  <2> SUFFICES ASSUME CampaignInv, campaign = "cancelled"
               PROVE  Cardinality(Having("queued"))
                        <= PageTasks * Cardinality(Executors)
    BY DEF LateTasksAreBounded, Having
  <2>1. Cardinality(Having("queued"))
          <= PageTasks * Cardinality(Executors \ Checked)
    BY DEF CampaignInv, LateInv, CancelDecided
  <2>2. /\ IsFiniteSet(Executors \ Checked)
        /\ Cardinality(Executors \ Checked) \in Nat
        /\ Cardinality(Executors) \in Nat
        /\ Cardinality(Executors \ Checked) <= Cardinality(Executors)
    BY FanoutAssumption, FS_Subset, FS_CardinalityType
  <2>3. PageTasks \in Nat
    BY FanoutAssumption
  <2>4. PageTasks * Cardinality(Executors \ Checked)
          <= PageTasks * Cardinality(Executors)
    BY <2>2, <2>3
  <2>5. Cardinality(Having("queued")) \in Nat
    BY CountsAreFinite
  <2>6. QED
    BY <2>1, <2>2, <2>3, <2>4, <2>5
<1>2. QED
  BY CampaignInvariance, <1>1, PTL

\* Before a cancel processor has run, campaign_stats counts exactly the tasks
\* that are being sent or have ended, and those that wait in two columns
\* together: a lease takes a retried task from the wrong one of them.
THEOREM StatsFollowTasks == Spec => []StatsFollow
<1>1. CampaignInv => StatsFollow
  BY DEF CampaignInv
<1>2. QED
  BY CampaignInvariance, <1>1, PTL
=============================================================================
