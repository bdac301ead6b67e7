---------------------------- MODULE FanoutProofs ----------------------------
(***************************************************************************)
(* Proofs about the fan-out and its neighbours, for every number of users, *)
(* executors and processors, every assignment of WORKER_IDs and every      *)
(* value of the bounds.                                                    *)
(*                                                                         *)
(* The run's lock protects nothing in these proofs: executions may overlap *)
(* and close the run for each other.  What makes a completed run whole is  *)
(* PipelineInv, which every executor keeps for itself.                     *)
(***************************************************************************)
EXTENDS Fanout, FiniteSetTheorems, TLAPS

\* An executor that loads the campaign has not read any page.
LoadInv ==
  \A e \in Executors : exec[e].pc = "loading" =>
    exec[e].cursor = 0 /\ ~exec[e].scanned

\* Nobody owns a cancelled run: WorkerId has no NoOwner.
OwnerInv == runStatus = "cancelled" => owner = NoOwner

\* The finalizer read an undecided campaign.
ScanInv == scan # NoScan => scan.status \in {"running", "cancelling"}

\* Each execution consumed one time that the run was pending.
Running == {e \in Executors : Executing(e)}
GrantInv ==
  Cardinality(Running) <= IF runStatus = "fanout_pending" THEN recovers
                          ELSE recovers + 1

IInv == TypeOK /\ TotalInv /\ SignalInv /\ LoadInv /\ PipelineInv
        /\ CompletedRunIsWhole /\ OwnerInv /\ ScanInv /\ GrantInv

\* An executor's part of LoadInv and PipelineInv: x is its record, done are
\* the inserted tasks.
RecordOK(x, done) ==
  /\ x.pc = "loading" => x.cursor = 0 /\ ~x.scanned
  /\ x.pc = "running" =>
       /\ \A u \in Targets : UserOf[u] <= x.cursor =>
            \/ u \in done \cup x.hand \cup InFlight(x.tasks)
            \/ UserOf[u] \in InFlight(x.users)
            \/ x.stage = "checked" /\ u \in x.batch
       /\ x.scanned => x.cursor = NumUsers
  /\ x.pc = "closing" /\ x.result = "ok" => Targets \subseteq done

LEMMA Records ==
  LoadInv /\ PipelineInv <=> \A e \in Executors : RecordOK(exec[e], Inserted)
  BY DEF LoadInv, PipelineInv, RecordOK

LEMMA InitIInv == Init => IInv
<1> SUFFICES ASSUME Init PROVE IInv
  OBVIOUS
<1> USE FanoutAssumption
<1>1. Idle \in Executor
  BY DEF Idle, Outside, Executor
<1>2. NoScan \in [status : CampaignStatus \cup {"none"}, total : Int,
                  succeeded : Int, dead_lettered : Int, cancelled : Int]
  BY DEF NoScan
<1>3. TypeOK
  BY <1>1, <1>2 DEF Init, TypeOK, RunStatus, Lock, CampaignStatus, CancelEvent
<1>4. Inserted = {} /\ Having("queued") = {} /\ Running = {}
  BY DEF Init, Inserted, Having, Running, Executing, Idle, Outside
<1>5. TotalInv /\ SignalInv
  BY <1>4, FS_EmptySet DEF Init, TotalInv, SignalInv, TaskStatus
<1>6. \A e \in Executors : RecordOK(exec[e], Inserted)
  BY FanoutAssumption DEF Init, RecordOK, Idle, Outside, Users
<1>7. CompletedRunIsWhole /\ OwnerInv /\ ScanInv
  BY DEF Init, CompletedRunIsWhole, OwnerInv, ScanInv
<1>8. GrantInv
  BY <1>4, FS_EmptySet DEF Init, GrantInv
<1>9. QED
  BY <1>3, <1>5, <1>6, <1>7, <1>8, Records DEF IInv

-----------------------------------------------------------------------------
(* Sequences of sets: what waits in a channel.                             *)

LEMMA InFlightAppend ==
  ASSUME NEW S, NEW q \in Seq(S), NEW s \in S
  PROVE  InFlight(Append(q, s)) = InFlight(q) \cup s
<1>1. /\ Len(Append(q, s)) = Len(q) + 1
      /\ Append(q, s)[Len(q) + 1] = s
      /\ \A i \in 1 .. Len(q) : Append(q, s)[i] = q[i]
      /\ Len(q) \in Nat
  OBVIOUS
<1>2. DOMAIN Append(q, s) = 1 .. Len(q) + 1 /\ DOMAIN q = 1 .. Len(q)
  OBVIOUS
<1>3. ASSUME NEW u, u \in InFlight(Append(q, s))
      PROVE  u \in InFlight(q) \cup s
  <2>1. PICK i \in 1 .. Len(q) + 1 : u \in Append(q, s)[i]
    BY <1>2, <1>3 DEF InFlight
  <2>2. CASE i = Len(q) + 1
    BY <1>1, <2>1, <2>2
  <2>3. CASE i \in 1 .. Len(q)
    BY <1>1, <1>2, <2>1, <2>3 DEF InFlight
  <2>4. QED
    BY <1>1, <2>2, <2>3
<1>4. ASSUME NEW u \in InFlight(q)
      PROVE  u \in InFlight(Append(q, s))
  <2>1. PICK i \in 1 .. Len(q) : u \in q[i]
    BY <1>2 DEF InFlight
  <2>2. i \in DOMAIN Append(q, s) /\ u \in Append(q, s)[i]
    BY <1>1, <1>2, <2>1
  <2>3. QED
    BY <2>2 DEF InFlight
<1>5. ASSUME NEW u \in s
      PROVE  u \in InFlight(Append(q, s))
  <2>1. Len(q) + 1 \in DOMAIN Append(q, s) /\ u \in Append(q, s)[Len(q) + 1]
    BY <1>1, <1>2
  <2>2. QED
    BY <2>1 DEF InFlight
<1>6. QED
  BY <1>3, <1>4, <1>5

LEMMA InFlightTail ==
  ASSUME NEW S, NEW q \in Seq(S), q # <<>>
  PROVE  InFlight(q) \subseteq Head(q) \cup InFlight(Tail(q))
<1>1. /\ Len(q) \in Nat \ {0}
      /\ Len(Tail(q)) = Len(q) - 1
      /\ Head(q) = q[1]
      /\ \A i \in 1 .. Len(q) - 1 : Tail(q)[i] = q[i + 1]
      /\ DOMAIN q = 1 .. Len(q)
      /\ DOMAIN Tail(q) = 1 .. Len(q) - 1
  OBVIOUS
<1> SUFFICES ASSUME NEW u \in InFlight(q)
             PROVE  u \in Head(q) \cup InFlight(Tail(q))
  OBVIOUS
<1>2. PICK i \in 1 .. Len(q) : u \in q[i]
  BY <1>1 DEF InFlight
<1>3. CASE i = 1
  BY <1>1, <1>2, <1>3
<1>4. CASE i # 1
  <2>1. i - 1 \in DOMAIN Tail(q) /\ u \in Tail(q)[i - 1]
    BY <1>1, <1>2, <1>4
  <2>2. QED
    BY <2>1 DEF InFlight
<1>5. QED
  BY <1>3, <1>4

\* Keyset pagination: a page is what follows the cursor, an empty or short
\* page is the last.
LEMMA Pages ==
  ASSUME NEW c \in 0 .. NumUsers
  PROVE  /\ Page(c) \subseteq Users
         /\ Page(c) = {} => c = NumUsers
         /\ Page(c) # {} =>
              \E top \in Page(c) :
                /\ \A v \in Page(c) : v <= top
                /\ \A u \in Users : u <= top => u <= c \/ u \in Page(c)
                /\ LastPage(Page(c)) => top = NumUsers
<1> USE FanoutAssumption DEF Users
<1>1. Page(c) \subseteq Users
  BY DEF Page
<1>2. Page(c) = {} => c = NumUsers
  <2>1. c < NumUsers => c + 1 \in Page(c)
    BY DEF Page
  <2>2. QED
    BY <2>1
<1>3. ASSUME c < NumUsers, c + BatchSize <= NumUsers
      PROVE  /\ c + BatchSize \in Page(c)
             /\ \A v \in Page(c) : v <= c + BatchSize
             /\ \A u \in Users : u <= c + BatchSize => u <= c \/ u \in Page(c)
             /\ ~LastPage(Page(c))
  <2>1. Page(c) = (c + 1) .. (c + BatchSize)
    BY <1>3 DEF Page
  <2>2. Cardinality((c + 1) .. (c + BatchSize)) = BatchSize
    BY FS_Interval
  <2>3. ~LastPage(Page(c))
    BY <2>1, <2>2 DEF LastPage
  <2>4. QED
    BY <1>3, <2>1, <2>3
<1>4. ASSUME c < NumUsers, c + BatchSize > NumUsers
      PROVE  /\ NumUsers \in Page(c)
             /\ \A v \in Page(c) : v <= NumUsers
             /\ \A u \in Users : u <= NumUsers => u <= c \/ u \in Page(c)
  BY <1>4 DEF Page
<1>5. Page(c) # {} => c < NumUsers
  BY DEF Page
<1>6. QED
  BY <1>1, <1>2, <1>3, <1>4, <1>5

-----------------------------------------------------------------------------
(* An executor's step.                                                     *)

LEMMA InsertedGrows ==
  ASSUME IInv, [Next]_vars
  PROVE  Inserted \subseteq Inserted'
<1> USE DEF taskVars
<1>a. task \in [Targets -> TaskStatus \cup {"absent"}]
  BY DEF IInv, TypeOK
<1>1. UNCHANGED task => Inserted \subseteq Inserted'
  BY DEF Inserted
<1>2. ASSUME NEW e \in Executors, Consume(e) \/ Progress(e) \/ Fault(e),
             ~InsertBatch(e)
      PROVE  UNCHANGED task
  BY <1>2 DEF Consume, AcquireLock, SkipRun, Progress, LoadCampaign, Pipeline,
              ReadPage, Enrich, SendTasks, CheckCancelled, ExtendLock, Close,
              FinishPipeline, MarkCompleted, MarkFailed, MarkCancelled,
              Respond, Fault, DbError, LockError, Crash, LoseConnection
<1>3. ASSUME NEW e \in Executors, InsertBatch(e)
      PROVE  Inserted \subseteq Inserted'
  BY <1>a, <1>3 DEF InsertBatch, Inserted
<1>4. CASE PublishAgain \/ LockExpires \/ RecoverRun \/ UNCHANGED vars
  BY <1>1, <1>4 DEF PublishAgain, LockExpires, RecoverRun, vars
<1>5. ASSUME NEW u \in Targets,
             \/ PublishSignal(u) \/ RepushSignal(u) \/ LeaseTask(u)
             \/ FinishTask(u) \/ RetryTask(u) \/ LeaseFails(u)
      PROVE  Inserted \subseteq Inserted'
  <2>1. CASE PublishSignal(u) \/ RepushSignal(u) \/ LeaseFails(u)
    BY <1>1, <2>1 DEF PublishSignal, RepushSignal, LeaseFails
  <2>2. CASE LeaseTask(u)
    BY <1>a, <2>2 DEF LeaseTask, Inserted
  <2>3. CASE FinishTask(u)
    BY <1>a, <2>3 DEF FinishTask, EndTask, Final, Inserted
  <2>4. CASE RetryTask(u)
    BY <1>a, <2>4 DEF RetryTask, EndTask, Inserted
  <2>5. QED
    BY <1>5, <2>1, <2>2, <2>3, <2>4
<1>6. CASE RequestCancel \/ ResetCancel \/ FetchCompletable
           \/ FinalizeCampaign \/ FinalizeFails
  BY <1>1, <1>6 DEF RequestCancel, ResetCancel, FetchCompletable,
                    FinalizeCampaign, FinalizeFails
<1>7. ASSUME NEW p \in Processors,
             \/ ClaimCancel(p) \/ ProcessCancel(p)
             \/ RetryCancel(p) \/ CrashProcessor(p)
      PROVE  Inserted \subseteq Inserted'
  <2>1. CASE ProcessCancel(p)
    BY <1>a, <2>1 DEF ProcessCancel, Inserted
  <2>2. CASE ~ProcessCancel(p)
    BY <1>1, <1>7, <2>2 DEF ClaimCancel, RetryCancel, CrashProcessor
  <2>3. QED
    BY <2>1, <2>2
<1>8. QED
  BY <1>1, <1>2, <1>3, <1>4, <1>5, <1>6, <1>7 DEF Next

LEMMA RecordGrows ==
  ASSUME NEW x, NEW A, NEW B, A \subseteq B, RecordOK(x, A)
  PROVE  RecordOK(x, B)
  BY DEF RecordOK

\* The record an executor has after its step.
LEMMA ExecutorStep ==
  ASSUME IInv, NEW e \in Executors, Consume(e) \/ Progress(e) \/ Fault(e)
  PROVE  \E x \in Executor :
           /\ exec' = [exec EXCEPT ![e] = x]
           /\ RecordOK(x, Inserted')
<1> USE DEF taskVars
<1>a. /\ exec \in [Executors -> Executor]
      /\ exec[e] \in Executor
      /\ task \in [Targets -> TaskStatus \cup {"absent"}]
      /\ NumUsers \in Nat
  BY FanoutAssumption DEF IInv, TypeOK
<1>b. RecordOK(exec[e], Inserted)
  BY Records DEF IInv
<1>c. Inserted \subseteq Inserted'
  <2>1. Next
    BY DEF Next
  <2>2. QED
    BY <2>1, InsertedGrows
<1>d. RecordOK(exec[e], Inserted')
  BY <1>b, <1>c, RecordGrows
<1>e. ASSUME NEW r \in {"none", "ok", "failed", "cancelled"},
             r = "ok" => Targets \subseteq Inserted'
      PROVE  Closing(e, r) \in Executor /\ RecordOK(Closing(e, r), Inserted')
  BY <1>a, <1>e DEF Closing, Outside, Executor, RecordOK
<1>f. ASSUME NEW r \in {"none", "ok", "failed", "cancelled"}
      PROVE  Acking(e, r) \in Executor /\ RecordOK(Acking(e, r), Inserted')
  BY <1>a DEF Acking, Outside, Executor, RecordOK
<1>g. Idle \in Executor /\ RecordOK(Idle, Inserted')
  BY <1>a DEF Idle, Outside, Executor, RecordOK
<1>1. CASE AcquireLock(e) \/ SkipRun(e) \/ LockError(e)
  <2>1. Outside("loading", "none", TRUE) \in Executor
    BY <1>a DEF Outside, Executor
  <2>2. RecordOK(Outside("loading", "none", TRUE), Inserted')
    BY DEF Outside, RecordOK
  <2>3. ASSUME NEW r \in {"ok", "failed"}
        PROVE  /\ Outside("acking", r, TRUE) \in Executor
               /\ RecordOK(Outside("acking", r, TRUE), Inserted')
    BY <1>a DEF Outside, Executor, RecordOK
  <2>4. QED
    BY <1>1, <2>1, <2>2, <2>3 DEF AcquireLock, SkipRun, LockError
<1>3. CASE LoadCampaign(e)
  <2>1. exec' = [exec EXCEPT ![e] = [exec[e] EXCEPT !.pc = "running"]]
    BY <1>a, <1>3 DEF LoadCampaign
  <2>2. [exec[e] EXCEPT !.pc = "running"] \in Executor
    BY <1>a DEF Executor
  <2>3. RecordOK([exec[e] EXCEPT !.pc = "running"], Inserted')
    <3>1. exec[e].cursor = 0 /\ ~exec[e].scanned
      BY <1>b, <1>3 DEF LoadCampaign, RecordOK
    <3>2. \A u \in Targets : ~(UserOf[u] <= 0)
      BY FanoutAssumption DEF Users
    <3>3. QED
      BY <1>a, <3>1, <3>2 DEF RecordOK, Executor
  <2>4. QED
    BY <2>1, <2>2, <2>3
<1>4. CASE ReadPage(e)
  <2>1. CASE Page(exec[e].cursor) = {}
    <3>1. exec' = [exec EXCEPT ![e] = [exec[e] EXCEPT !.scanned = TRUE]]
      BY <1>a, <1>4, <2>1 DEF ReadPage
    <3>2. [exec[e] EXCEPT !.scanned = TRUE] \in Executor
      BY <1>a DEF Executor
    <3>3. exec[e].cursor = NumUsers
      BY <1>a, <2>1, Pages DEF Executor
    <3>4. RecordOK([exec[e] EXCEPT !.scanned = TRUE], Inserted')
      BY <1>a, <1>d, <1>4, <3>3 DEF ReadPage, RecordOK, Executor
    <3>5. QED
      BY <3>1, <3>2, <3>4
  <2>2. CASE Page(exec[e].cursor) # {}
    <3>1. PICK page \in SUBSET Users, top \in Users :
            /\ page = Page(exec[e].cursor) /\ top \in page
            /\ \A v \in page : v <= top
            /\ \A u \in Users : u <= top => u <= exec[e].cursor \/ u \in page
            /\ LastPage(page) => top = NumUsers
      BY <1>a, <2>2, Pages DEF Executor
    <3>2. top = CHOOSE u \in page : \A v \in page : v <= u
      BY <3>1 DEF Users
    <3>3. exec' = [exec EXCEPT ![e] =
                     [exec[e] EXCEPT !.users = Append(exec[e].users, page),
                                     !.cursor = top,
                                     !.scanned = LastPage(page)]]
      BY <1>a, <1>4, <2>2, <3>1, <3>2 DEF ReadPage
    <3>4. PICK x : x = [exec[e] EXCEPT !.users = Append(exec[e].users, page),
                                       !.cursor = top,
                                       !.scanned = LastPage(page)]
      OBVIOUS
    <3>5. /\ Append(exec[e].users, page) \in Seq(SUBSET Users)
          /\ top \in 0 .. NumUsers
          /\ LastPage(page) \in BOOLEAN
      BY <1>a DEF Executor, Users, LastPage
    <3>6. x \in Executor
      BY <1>a, <3>4, <3>5 DEF Executor
    <3>7. /\ x.pc = "running" /\ x.cursor = top /\ x.hand = exec[e].hand
          /\ x.users = Append(exec[e].users, page) /\ x.tasks = exec[e].tasks
          /\ x.stage = exec[e].stage /\ x.batch = exec[e].batch
          /\ x.scanned = LastPage(page)
      BY <1>a, <1>4, <3>4 DEF ReadPage, Executor
    <3>8. InFlight(x.users) = InFlight(exec[e].users) \cup page
      <4>1. exec[e].users \in Seq(SUBSET Users)
        BY <1>a DEF Executor
      <4>2. QED
        BY <3>7, <4>1, InFlightAppend
    <3>9. RecordOK(x, Inserted')
      <4>1. ASSUME NEW u \in Targets, UserOf[u] <= x.cursor
            PROVE  \/ u \in Inserted' \cup x.hand \cup InFlight(x.tasks)
                   \/ UserOf[u] \in InFlight(x.users)
                   \/ x.stage = "checked" /\ u \in x.batch
        <5>1. UserOf[u] <= exec[e].cursor \/ UserOf[u] \in page
          BY <3>1, <3>7, <4>1, FanoutAssumption
        <5>2. QED
          BY <1>4, <1>d, <3>7, <3>8, <5>1 DEF ReadPage, RecordOK
      <4>2. x.scanned => x.cursor = NumUsers
        BY <3>1, <3>7
      <4>3. QED
        BY <3>7, <4>1, <4>2 DEF RecordOK
    <3>10. QED
      BY <3>3, <3>4, <3>6, <3>9
  <2>3. QED
    BY <2>1, <2>2
<1>5. CASE Enrich(e)
  <2>1. PICK x : x = [exec[e] EXCEPT !.users = Tail(exec[e].users),
                                     !.hand = ChannelsOf(Head(exec[e].users))]
    OBVIOUS
  <2>2. exec' = [exec EXCEPT ![e] = x]
    BY <1>a, <1>5, <2>1 DEF Enrich
  <2>3. /\ exec[e].users \in Seq(SUBSET Users) /\ exec[e].users # <<>>
        /\ exec[e].hand = {} /\ exec[e].pc = "running"
    BY <1>a, <1>5 DEF Enrich, Executor
  <2>4. Tail(exec[e].users) \in Seq(SUBSET Users)
        /\ Head(exec[e].users) \in SUBSET Users
    BY <2>3
  <2>5. ChannelsOf(Head(exec[e].users)) \in SUBSET Targets
    BY DEF ChannelsOf
  <2>6. x \in Executor
    BY <1>a, <2>1, <2>4, <2>5 DEF Executor
  <2>7. /\ x.pc = "running" /\ x.cursor = exec[e].cursor
        /\ x.scanned = exec[e].scanned /\ x.tasks = exec[e].tasks
        /\ x.users = Tail(exec[e].users) /\ x.stage = exec[e].stage
        /\ x.hand = ChannelsOf(Head(exec[e].users))
        /\ x.batch = exec[e].batch
    BY <1>a, <2>1, <2>3 DEF Executor
  <2>8. \A u \in Targets : UserOf[u] \in InFlight(exec[e].users)
                            => UserOf[u] \in InFlight(x.users) \/ u \in x.hand
    <3>1. InFlight(exec[e].users) \subseteq Head(exec[e].users) \cup InFlight(x.users)
      BY <2>3, <2>7, InFlightTail
    <3>2. QED
      BY <2>7, <3>1 DEF ChannelsOf
  <2>9. RecordOK(x, Inserted')
    BY <1>d, <2>3, <2>7, <2>8 DEF RecordOK
  <2>10. QED
    BY <2>2, <2>6, <2>9
<1>6. CASE SendTasks(e)
  <2>1. PICK x : x = [exec[e] EXCEPT !.tasks = Append(exec[e].tasks, exec[e].hand),
                                     !.hand = {}]
    OBVIOUS
  <2>2. exec' = [exec EXCEPT ![e] = x]
    BY <1>a, <1>6, <2>1 DEF SendTasks
  <2>3. /\ exec[e].tasks \in Seq(SUBSET Targets)
        /\ exec[e].hand \in SUBSET Targets
        /\ exec[e].pc = "running"
    BY <1>a, <1>6 DEF SendTasks, Executor
  <2>4. Append(exec[e].tasks, exec[e].hand) \in Seq(SUBSET Targets)
    BY <2>3
  <2>5. x \in Executor
    BY <1>a, <2>1, <2>4 DEF Executor
  <2>6. /\ x.pc = "running" /\ x.cursor = exec[e].cursor
        /\ x.scanned = exec[e].scanned /\ x.users = exec[e].users
        /\ x.tasks = Append(exec[e].tasks, exec[e].hand)
        /\ x.stage = exec[e].stage /\ x.batch = exec[e].batch
    BY <1>a, <2>1, <2>3 DEF Executor
  <2>7. InFlight(x.tasks) = InFlight(exec[e].tasks) \cup exec[e].hand
    BY <2>3, <2>6, InFlightAppend
  <2>8. RecordOK(x, Inserted')
    BY <1>d, <2>3, <2>6, <2>7 DEF RecordOK
  <2>9. QED
    BY <2>2, <2>5, <2>8
<1>7. CASE CheckCancelled(e)
  <2>1. CASE CancelRequested
    BY <1>7, <1>e, <2>1 DEF CheckCancelled
  <2>2. CASE ~CancelRequested
    <3>1. PICK x : x = [exec[e] EXCEPT !.tasks = Tail(exec[e].tasks),
                                       !.batch = Head(exec[e].tasks),
                                       !.stage = "checked"]
      OBVIOUS
    <3>2. exec' = [exec EXCEPT ![e] = x]
      BY <1>a, <1>7, <2>2, <3>1 DEF CheckCancelled
    <3>3. /\ exec[e].tasks \in Seq(SUBSET Targets) /\ exec[e].tasks # <<>>
          /\ exec[e].stage = "waiting" /\ exec[e].pc = "running"
      BY <1>a, <1>7 DEF CheckCancelled, Executor
    <3>4. Tail(exec[e].tasks) \in Seq(SUBSET Targets)
          /\ Head(exec[e].tasks) \in SUBSET Targets
      BY <3>3
    <3>5. x \in Executor
      BY <1>a, <3>1, <3>4 DEF Executor
    <3>6. /\ x.pc = "running" /\ x.cursor = exec[e].cursor
          /\ x.scanned = exec[e].scanned /\ x.users = exec[e].users
          /\ x.hand = exec[e].hand /\ x.tasks = Tail(exec[e].tasks)
          /\ x.batch = Head(exec[e].tasks) /\ x.stage = "checked"
      BY <1>a, <3>1, <3>3 DEF Executor
    <3>7. InFlight(exec[e].tasks) \subseteq InFlight(x.tasks) \cup x.batch
      BY <3>3, <3>6, InFlightTail
    <3>8. RecordOK(x, Inserted')
      BY <1>d, <3>3, <3>6, <3>7 DEF RecordOK
    <3>9. QED
      BY <3>2, <3>5, <3>8
  <2>3. QED
    BY <2>1, <2>2
<1>8. CASE InsertBatch(e)
  <2>1. PICK x : x = [exec[e] EXCEPT !.stage = "inserted"]
    OBVIOUS
  <2>2. exec' = [exec EXCEPT ![e] = x]
    BY <1>a, <1>8, <2>1 DEF InsertBatch
  <2>3. x \in Executor
    BY <1>a, <2>1 DEF Executor
  <2>4. /\ x.pc = "running" /\ x.cursor = exec[e].cursor
        /\ x.scanned = exec[e].scanned /\ x.users = exec[e].users
        /\ x.hand = exec[e].hand /\ x.tasks = exec[e].tasks
        /\ exec[e].pc = "running"
    BY <1>a, <1>8, <2>1 DEF InsertBatch, Executor
  <2>5. exec[e].batch \subseteq Inserted'
    <3>1. exec[e].batch \subseteq Targets
      BY <1>a DEF Executor
    <3>2. task' = [u \in Targets |-> IF u \in exec[e].batch /\ task[u] = "absent"
                                     THEN "queued" ELSE task[u]]
      BY <1>8 DEF InsertBatch
    <3>3. QED
      BY <3>1, <3>2 DEF Inserted
  <2>6. RecordOK(x, Inserted')
    BY <1>d, <2>4, <2>5 DEF RecordOK
  <2>7. QED
    BY <2>2, <2>3, <2>6
<1>9. CASE ExtendLock(e)
  <2>1. CASE ~Owns(e)
    BY <1>9, <1>e, <2>1 DEF ExtendLock
  <2>2. CASE Owns(e)
    <3>1. PICK x : x = [exec[e] EXCEPT !.stage = "waiting", !.batch = {}]
      OBVIOUS
    <3>2. exec' = [exec EXCEPT ![e] = x]
      BY <1>a, <1>9, <2>2, <3>1 DEF ExtendLock
    <3>3. x \in Executor
      BY <1>a, <3>1 DEF Executor
    <3>4. /\ x.pc = "running" /\ x.cursor = exec[e].cursor
          /\ x.scanned = exec[e].scanned /\ x.users = exec[e].users
          /\ x.hand = exec[e].hand /\ x.tasks = exec[e].tasks
          /\ exec[e].stage = "inserted" /\ exec[e].pc = "running"
      BY <1>a, <1>9, <3>1 DEF ExtendLock, Executor
    <3>5. RecordOK(x, Inserted')
      BY <1>d, <3>4 DEF RecordOK
    <3>6. QED
      BY <3>2, <3>3, <3>5
  <2>3. QED
    BY <2>1, <2>2
<1>10. CASE FinishPipeline(e)
  <2>1. /\ exec[e].pc = "running" /\ exec[e].scanned
        /\ exec[e].users = <<>> /\ exec[e].tasks = <<>>
        /\ exec[e].hand = {} /\ exec[e].stage = "waiting"
        /\ exec' = [exec EXCEPT ![e] = Closing(e, "ok")]
    BY <1>10 DEF FinishPipeline, Drained
  <2>2. InFlight(<<>>) = {}
    BY DEF InFlight
  <2>3. \A u \in Targets : UserOf[u] <= NumUsers
    BY FanoutAssumption DEF Users
  <2>4. Targets \subseteq Inserted'
    BY <1>d, <2>1, <2>2, <2>3 DEF RecordOK
  <2>5. QED
    BY <1>e, <2>1, <2>4
<1>11. CASE MarkCompleted(e) \/ MarkFailed(e) \/ MarkCancelled(e)
  BY <1>f, <1>11 DEF MarkCompleted, MarkFailed, MarkCancelled
<1>12. CASE Respond(e) \/ Crash(e)
  BY <1>g, <1>12 DEF Respond, Crash
<1>13. CASE DbError(e)
  BY <1>e, <1>f, <1>13 DEF DbError
<1>14. CASE LoseConnection(e)
  <2>1. exec' = [exec EXCEPT ![e] = [exec[e] EXCEPT !.unacked = FALSE]]
    BY <1>a, <1>14 DEF LoseConnection
  <2>2. [exec[e] EXCEPT !.unacked = FALSE] \in Executor
    BY <1>a DEF Executor
  <2>3. RecordOK([exec[e] EXCEPT !.unacked = FALSE], Inserted')
    BY <1>a, <1>d DEF RecordOK, Executor
  <2>4. QED
    BY <2>1, <2>2, <2>3
<1>15. QED
  BY <1>1, <1>3, <1>4, <1>5, <1>6, <1>7, <1>8, <1>9, <1>10, <1>11,
     <1>12, <1>13, <1>14
     DEF Consume, Progress, Pipeline, Close, Fault

\* The same for all executors.
LEMMA NextExec ==
  ASSUME IInv, [Next]_vars
  PROVE  /\ exec' \in [Executors -> Executor]
         /\ LoadInv'
         /\ PipelineInv'
<1>a. exec \in [Executors -> Executor]
  BY DEF IInv, TypeOK
<1>b. \A e \in Executors : RecordOK(exec[e], Inserted')
  BY InsertedGrows, RecordGrows, Records DEF IInv
<1>1. ASSUME NEW e \in Executors, Consume(e) \/ Progress(e) \/ Fault(e)
      PROVE  /\ exec' \in [Executors -> Executor]
             /\ \A f \in Executors : RecordOK(exec'[f], Inserted')
  <2>1. PICK x \in Executor :
          exec' = [exec EXCEPT ![e] = x] /\ RecordOK(x, Inserted')
    BY <1>1, ExecutorStep
  <2>2. exec'[e] = x /\ \A f \in Executors \ {e} : exec'[f] = exec[f]
    BY <1>a, <2>1
  <2>3. ASSUME NEW f \in Executors
        PROVE  RecordOK(exec'[f], Inserted')
    <3>1. CASE f = e
      BY <2>1, <2>2, <3>1
    <3>2. CASE f # e
      <4>1. exec'[f] = exec[f]
        BY <2>2, <3>2
      <4>2. QED
        BY <1>b, <4>1
    <3>3. QED
      BY <3>1, <3>2
  <2>4. exec' \in [Executors -> Executor]
    BY <1>a, <2>1
  <2>5. QED
    BY <2>3, <2>4
<1>2. ASSUME ~\E e \in Executors : Consume(e) \/ Progress(e) \/ Fault(e)
      PROVE  /\ exec' \in [Executors -> Executor]
             /\ \A f \in Executors : RecordOK(exec'[f], Inserted')
  <2>1. exec' = exec
    BY <1>2 DEF Next, PublishAgain, LockExpires, RecoverRun, PublishSignal,
                LeaseTask, LeaseFails, FinishTask, RetryTask, EndTask, RepushSignal,
                RequestCancel, ClaimCancel, ProcessCancel, RetryCancel,
                CrashProcessor, ResetCancel, FetchCompletable,
                FinalizeCampaign, FinalizeFails, vars
  <2>2. QED
    BY <1>a, <1>b, <2>1
<1>3. /\ exec' \in [Executors -> Executor]
      /\ \A f \in Executors : RecordOK(exec'[f], Inserted')
  <2>1. CASE \E e \in Executors : Consume(e) \/ Progress(e) \/ Fault(e)
    BY <1>1, <2>1
  <2>2. CASE ~\E e \in Executors : Consume(e) \/ Progress(e) \/ Fault(e)
    BY <1>2, <2>2
  <2>3. QED
    BY <2>1, <2>2
<1>4. QED
  BY <1>3 DEF LoadInv, PipelineInv, RecordOK

-----------------------------------------------------------------------------
(* Types.                                                                  *)

LEMMA ExecutorType ==
  ASSUME IInv, NEW e \in Executors, Consume(e) \/ Progress(e) \/ Fault(e)
  PROVE  TypeOK'
<1> USE FanoutAssumption DEF runVars, taskVars, cancelVars, boundVars
<1>a. TypeOK
  BY DEF IInv
<1>b. exec' \in [Executors -> Executor]
  BY NextExec DEF Next
<1>c. exec[e] \in Executor
  BY <1>a DEF TypeOK
<1>1. CASE AcquireLock(e) \/ SkipRun(e)
  <2>1. mq' \in Nat
    <3>1. mq \in Nat
      BY <1>a DEF TypeOK
    <3>2. mq > 0 /\ mq' = mq - 1
      BY <1>1 DEF AcquireLock, SkipRun
    <3>3. QED
      BY <3>1, <3>2
  <2>2. /\ runStatus' \in RunStatus /\ lock' \in Lock
        /\ owner' \in {WorkerId[f] : f \in Executors} \cup {NoOwner}
    BY <1>a, <1>1 DEF AcquireLock, SkipRun, TypeOK, RunStatus, Lock
  <2>3. QED
    BY <1>a, <1>b, <1>1, <2>1, <2>2 DEF AcquireLock, SkipRun, TypeOK
<1>2. CASE \/ LoadCampaign(e) \/ ReadPage(e) \/ Enrich(e) \/ SendTasks(e)
           \/ CheckCancelled(e) \/ FinishPipeline(e) \/ Respond(e)
  BY <1>a, <1>b, <1>2 DEF LoadCampaign, ReadPage, Enrich, SendTasks,
       CheckCancelled, FinishPipeline, Respond, TypeOK
<1>3. CASE InsertBatch(e)
  <2>1. task' \in [Targets -> TaskStatus \cup {"absent"}]
    BY <1>a, <1>3 DEF InsertBatch, TypeOK, TaskStatus, Waiting
  <2>2. Counted(exec[e].batch) \in Int
    <3>1. IsFiniteSet(Targets)
      BY FanoutAssumption
    <3>2. IsFiniteSet({u \in exec[e].batch : task[u] = "absent"})
      BY <1>c, <3>1, FS_Subset DEF Executor
    <3>3. QED
      BY <3>2, FS_CardinalityType DEF Counted
  <2>3. stats' \in [TaskStatus \cup {"total"} -> Int]
    BY <1>a, <1>3, <2>2 DEF InsertBatch, TypeOK, TaskStatus, Waiting
  <2>4. outbox' \in SUBSET Targets
    BY <1>a, <1>c, <1>3 DEF InsertBatch, TypeOK, Executor
  <2>5. QED
    BY <1>a, <1>b, <1>3, <2>1, <2>3, <2>4 DEF InsertBatch, TypeOK
<1>4. CASE ExtendLock(e)
  BY <1>a, <1>b, <1>4 DEF ExtendLock, TypeOK, Lock
<1>5. CASE MarkCompleted(e) \/ MarkFailed(e) \/ MarkCancelled(e)
  BY <1>a, <1>b, <1>5 DEF MarkCompleted, MarkFailed, MarkCancelled, TypeOK,
       RunStatus, Lock
<1>6. CASE DbError(e) \/ LockError(e)
  <2>1. mq' \in Nat
    <3>1. mq \in Nat
      BY <1>a DEF TypeOK
    <3>2. mq' = mq \/ (mq > 0 /\ mq' = mq - 1)
      BY <1>6 DEF DbError, LockError
    <3>3. QED
      BY <3>1, <3>2
  <2>2. dbErrors' \in 0 .. MaxDbErrors
    <3>1. dbErrors \in 0 .. MaxDbErrors
      BY <1>a DEF TypeOK
    <3>2. dbErrors < MaxDbErrors /\ dbErrors' = dbErrors + 1
      BY <1>6 DEF DbError, LockError
    <3>3. QED
      BY <3>1, <3>2
  <2>3. UNCHANGED <<runVars, taskVars, cancelVars, scan, faults, recovers>>
    BY <1>6 DEF DbError, LockError
  <2>4. QED
    BY <1>a, <1>b, <2>1, <2>2, <2>3 DEF TypeOK
<1>7. CASE Crash(e) \/ LoseConnection(e)
  BY <1>a, <1>b, <1>7 DEF Crash, LoseConnection, TypeOK
<1>8. QED
  BY <1>1, <1>2, <1>3, <1>4, <1>5, <1>6, <1>7
     DEF Consume, Progress, Pipeline, Close, Fault

LEMMA TaskType ==
  ASSUME IInv, NEW u \in Targets,
         \/ PublishSignal(u) \/ LeaseTask(u) \/ FinishTask(u)
         \/ RetryTask(u) \/ RepushSignal(u) \/ LeaseFails(u)
  PROVE  TypeOK'
<1> USE DEF runVars, taskVars, cancelVars, boundVars
<1>a. TypeOK
  BY DEF IInv
<1>1. CASE PublishSignal(u) \/ RepushSignal(u)
  BY <1>a, <1>1 DEF PublishSignal, RepushSignal, TypeOK
<1>7. CASE LeaseFails(u)
  <2>1. dbErrors' \in 0 .. MaxDbErrors
    BY <1>a, <1>7, FanoutAssumption DEF LeaseFails, TypeOK
  <2>2. QED
    BY <1>a, <1>7, <2>1 DEF LeaseFails, TypeOK
<1>2. ASSUME NEW from \in TaskStatus, NEW to \in TaskStatus
      PROVE  /\ [task EXCEPT ![u] = to] \in [Targets -> TaskStatus \cup {"absent"}]
             /\ Move(from, to) \in [TaskStatus \cup {"total"} -> Int]
  BY <1>a DEF TypeOK, Move
<1>3. CASE LeaseTask(u)
  <2>1. CASE task[u] \in Waiting
    <3>1. "queued" \in TaskStatus /\ "sending" \in TaskStatus
      BY DEF TaskStatus, Waiting
    <3>2. task' = [task EXCEPT ![u] = "sending"] /\ stats' = Move("queued", "sending")
      BY <1>3, <2>1 DEF LeaseTask
    <3>3. /\ task' \in [Targets -> TaskStatus \cup {"absent"}]
          /\ stats' \in [TaskStatus \cup {"total"} -> Int]
      BY <1>2, <3>1, <3>2
    <3>4. QED
      BY <1>a, <1>3, <3>3 DEF LeaseTask, TypeOK
  <2>2. CASE task[u] \notin Waiting
    BY <1>a, <1>3, <2>2 DEF LeaseTask, TypeOK
  <2>3. QED
    BY <2>1, <2>2
<1>4. ASSUME NEW s \in TaskStatus, EndTask(u, s)
      PROVE  TypeOK'
  <2>1. "sending" \in TaskStatus
    BY DEF TaskStatus
  <2>2. task' = [task EXCEPT ![u] = s] /\ stats' = Move("sending", s)
    BY <1>4 DEF EndTask
  <2>3. /\ task' \in [Targets -> TaskStatus \cup {"absent"}]
        /\ stats' \in [TaskStatus \cup {"total"} -> Int]
    BY <1>2, <2>1, <2>2
  <2>4. QED
    BY <1>a, <1>4, <2>3 DEF EndTask, TypeOK
<1>5. CASE FinishTask(u) \/ RetryTask(u)
  <2>1. Final \subseteq TaskStatus /\ "retry_scheduled" \in TaskStatus
    BY DEF Final, TaskStatus, Waiting
  <2>2. QED
    BY <1>4, <1>5, <2>1 DEF FinishTask, RetryTask
<1>6. QED
  BY <1>1, <1>3, <1>5, <1>7

LEMMA CampaignType ==
  ASSUME IInv,
         \/ PublishAgain \/ LockExpires \/ RecoverRun
         \/ RequestCancel \/ ResetCancel
         \/ \E p \in Processors : \/ ClaimCancel(p) \/ ProcessCancel(p)
                                  \/ RetryCancel(p) \/ CrashProcessor(p)
         \/ FetchCompletable \/ FinalizeCampaign \/ FinalizeFails
  PROVE  TypeOK'
<1> USE FanoutAssumption DEF runVars, taskVars, cancelVars, boundVars
<1>a. TypeOK
  BY DEF IInv
<1>1. CASE PublishAgain \/ LockExpires \/ RecoverRun
  BY <1>a, <1>1 DEF PublishAgain, LockExpires, RecoverRun, TypeOK, Lock, RunStatus
<1>2. CASE RequestCancel \/ ResetCancel
  BY <1>a, <1>2 DEF RequestCancel, ResetCancel, TypeOK, CampaignStatus, CancelEvent
<1>3. ASSUME NEW p \in Processors, ClaimCancel(p) \/ CrashProcessor(p)
      PROVE  TypeOK'
  BY <1>a, <1>3 DEF ClaimCancel, CrashProcessor, TypeOK, CancelEvent
<1>4. ASSUME NEW p \in Processors, RetryCancel(p)
      PROVE  TypeOK'
  BY <1>a, <1>4 DEF RetryCancel, CloseEvent, TypeOK, CancelEvent
<1>5. ASSUME NEW p \in Processors, ProcessCancel(p)
      PROVE  TypeOK'
  <2>1. task' \in [Targets -> TaskStatus \cup {"absent"}]
    BY <1>a, <1>5 DEF ProcessCancel, TypeOK, TaskStatus
  <2>2. /\ runStatus' \in RunStatus
        /\ owner' \in {WorkerId[e] : e \in Executors} \cup {NoOwner}
        /\ lock' \in Lock
        /\ campaign' \in CampaignStatus
    BY <1>a, <1>5 DEF ProcessCancel, TypeOK, RunStatus, Lock, CampaignStatus
  <2>3. /\ processing' \in SUBSET Processors
        /\ cancelEvent' \in CancelEvent
        /\ eventOwner' \in Processors \cup {NoOwner}
    BY <1>a, <1>5 DEF ProcessCancel, CloseEvent, TypeOK, CancelEvent
  <2>4. QED
    BY <1>a, <1>5, <2>1, <2>2, <2>3 DEF ProcessCancel, TypeOK
<1>6. CASE FetchCompletable
  <2>1. {"total", "succeeded", "dead_lettered", "cancelled"}
          \subseteq TaskStatus \cup {"total"}
    BY DEF TaskStatus
  <2>2. scan' \in [status : CampaignStatus \cup {"none"}, total : Int,
                   succeeded : Int, dead_lettered : Int, cancelled : Int]
    BY <1>a, <1>6, <2>1 DEF FetchCompletable, TypeOK
  <2>3. QED
    BY <1>a, <1>6, <2>2 DEF FetchCompletable, TypeOK
<1>7. CASE FinalizeCampaign \/ FinalizeFails
  <2>1. NoScan \in [status : CampaignStatus \cup {"none"}, total : Int,
                    succeeded : Int, dead_lettered : Int, cancelled : Int]
    BY DEF NoScan
  <2>2. campaign' \in CampaignStatus
    BY <1>a, <1>7 DEF FinalizeCampaign, FinalizeFails, Verdict, TypeOK, CampaignStatus
  <2>3. QED
    BY <1>a, <1>7, <2>1, <2>2 DEF FinalizeCampaign, FinalizeFails, TypeOK
<1>8. QED
  BY <1>1, <1>2, <1>3, <1>4, <1>5, <1>6, <1>7

LEMMA NextType == IInv /\ [Next]_vars => TypeOK'
<1>1. IInv /\ UNCHANGED vars => TypeOK'
  BY DEF IInv, TypeOK, vars, runVars, taskVars, cancelVars, boundVars
<1>2. QED
  BY <1>1, ExecutorType, TaskType, CampaignType DEF Next

-----------------------------------------------------------------------------
(* The run.                                                                *)

\* The steps that write the run's status or owner.
RunStep ==
  \/ \E e \in Executors : \/ AcquireLock(e) \/ MarkCompleted(e)
                          \/ MarkFailed(e) \/ MarkCancelled(e)
  \/ RecoverRun
  \/ \E p \in Processors : ProcessCancel(p)

LEMMA RunSteps ==
  ASSUME [Next]_vars
  PROVE  RunStep \/ UNCHANGED <<runStatus, owner>>
<1> USE DEF RunStep, runVars
<1>1. ASSUME NEW e \in Executors, Consume(e) \/ Progress(e) \/ Fault(e)
      PROVE  RunStep \/ UNCHANGED <<runStatus, owner>>
  <2>1. CASE Consume(e)
    BY <2>1 DEF Consume, SkipRun
  <2>2. CASE Progress(e)
    BY <2>2 DEF Progress, LoadCampaign, Pipeline, ReadPage, Enrich, SendTasks,
                CheckCancelled, InsertBatch, ExtendLock, Close,
                FinishPipeline, Respond
  <2>3. CASE Fault(e)
    BY <2>3 DEF Fault, DbError, LockError, Crash, LoseConnection
  <2>4. QED
    BY <1>1, <2>1, <2>2, <2>3
<1>2. ASSUME NEW u \in Targets,
             \/ PublishSignal(u) \/ LeaseTask(u) \/ FinishTask(u)
             \/ RetryTask(u) \/ RepushSignal(u) \/ LeaseFails(u)
      PROVE  UNCHANGED <<runStatus, owner>>
  BY <1>2 DEF PublishSignal, LeaseTask, LeaseFails, FinishTask, RetryTask, EndTask,
              RepushSignal
<1>3. CASE \/ PublishAgain \/ LockExpires \/ RequestCancel \/ ResetCancel
           \/ FetchCompletable \/ FinalizeCampaign \/ FinalizeFails
           \/ UNCHANGED vars
  BY <1>3 DEF PublishAgain, LockExpires, RequestCancel, ResetCancel,
              FetchCompletable, FinalizeCampaign, FinalizeFails, vars
<1>4. ASSUME NEW p \in Processors,
             ClaimCancel(p) \/ RetryCancel(p) \/ CrashProcessor(p)
      PROVE  UNCHANGED <<runStatus, owner>>
  BY <1>4 DEF ClaimCancel, RetryCancel, CrashProcessor
<1>5. QED
  BY <1>1, <1>2, <1>3, <1>4 DEF Next

LEMMA NextWhole == IInv /\ [Next]_vars => CompletedRunIsWhole'
<1> SUFFICES ASSUME IInv, [Next]_vars, runStatus' = "fanout_completed"
             PROVE  Targets \subseteq Inserted'
  BY DEF CompletedRunIsWhole
<1>1. CASE runStatus = "fanout_completed"
  BY <1>1, InsertedGrows DEF IInv, CompletedRunIsWhole
<1>2. ASSUME NEW e \in Executors, MarkCompleted(e)
      PROVE  Targets \subseteq Inserted'
  <2>1. exec[e].pc = "closing" /\ exec[e].result = "ok"
    BY <1>2 DEF MarkCompleted
  <2>2. Targets \subseteq Inserted
    BY <2>1 DEF IInv, PipelineInv
  <2>3. QED
    BY <2>2, InsertedGrows
<1>3. CASE runStatus # "fanout_completed"
  <2>1. PICK e \in Executors : MarkCompleted(e)
    BY <1>3, RunSteps DEF RunStep, AcquireLock, MarkFailed, MarkCancelled,
                          RecoverRun, ProcessCancel, runVars
  <2>2. QED
    BY <1>2, <2>1
<1>4. QED
  BY <1>1, <1>3

LEMMA NextOwner == IInv /\ [Next]_vars => OwnerInv'
<1> SUFFICES ASSUME IInv, [Next]_vars, runStatus' = "cancelled"
             PROVE  owner' = NoOwner
  BY DEF OwnerInv
<1>1. CASE UNCHANGED <<runStatus, owner>>
  BY <1>1 DEF IInv, OwnerInv
<1>2. CASE RunStep
  BY <1>2 DEF RunStep, AcquireLock, MarkCompleted, MarkFailed, MarkCancelled,
              RecoverRun, ProcessCancel, runVars, IInv, OwnerInv
<1>3. QED
  BY <1>1, <1>2, RunSteps

-----------------------------------------------------------------------------
(* Executions and the times the run was pending.                           *)

LEMMA NextGrant == IInv /\ [Next]_vars => GrantInv'
<1> SUFFICES ASSUME IInv, [Next]_vars PROVE GrantInv'
  OBVIOUS
<1> USE FanoutAssumption
<1>a. /\ exec \in [Executors -> Executor]
      /\ recovers \in Nat
      /\ IsFiniteSet(Running)
      /\ IsFiniteSet(Running')
  <2>1. IsFiniteSet(Running) /\ IsFiniteSet(Running')
    BY FS_Subset DEF Running
  <2>2. QED
    BY <2>1 DEF IInv, TypeOK
<1>b. Cardinality(Running) \in Nat /\ Cardinality(Running') \in Nat
  BY <1>a, FS_CardinalityType
<1>c. Cardinality(Running) <= IF runStatus = "fanout_pending" THEN recovers
                              ELSE recovers + 1
  BY DEF IInv, GrantInv
<1>1. ASSUME NEW e \in Executors, AcquireLock(e)
      PROVE  GrantInv'
  <2>1. /\ exec' = [exec EXCEPT ![e] = Outside("loading", "none", TRUE)]
        /\ runStatus = "fanout_pending"
        /\ runStatus' = "fanout_running"
        /\ recovers' = recovers
    BY <1>1 DEF AcquireLock, CanLock, boundVars
  <2>2. Running' \subseteq Running \cup {e}
    BY <1>a, <2>1 DEF Running, Executing
  <2>3. Cardinality(Running') <= Cardinality(Running \cup {e})
    BY <1>a, <2>2, FS_AddElement, FS_Subset
  <2>4. Cardinality(Running \cup {e}) <= Cardinality(Running) + 1
    <3>1. Cardinality(Running \cup {e}) =
            IF e \in Running THEN Cardinality(Running)
            ELSE Cardinality(Running) + 1
      BY <1>a, FS_AddElement
    <3>2. QED
      BY <1>b, <3>1
  <2>5. Cardinality(Running \cup {e}) \in Nat
    BY <1>a, FS_AddElement, FS_CardinalityType
  <2>6. QED
    BY <1>a, <1>b, <1>c, <2>1, <2>3, <2>4, <2>5 DEF GrantInv
<1>2. CASE RecoverRun
  <2>1. /\ exec' = exec /\ recovers' = recovers + 1
        /\ runStatus' = "fanout_pending" /\ runStatus # "fanout_pending"
    BY <1>2 DEF RecoverRun
  <2>2. Running' = Running
    BY <2>1 DEF Running, Executing
  <2>3. QED
    BY <1>a, <1>b, <1>c, <2>1, <2>2 DEF GrantInv
<1>3. ASSUME Running' \subseteq Running, recovers' = recovers,
             runStatus' = "fanout_pending" => runStatus = "fanout_pending"
      PROVE  GrantInv'
  <2>1. Cardinality(Running') <= Cardinality(Running)
    BY <1>a, <1>3, FS_Subset
  <2>2. QED
    BY <1>a, <1>b, <1>c, <1>3, <2>1 DEF GrantInv
<1>4. ASSUME \A e \in Executors : ~AcquireLock(e), ~RecoverRun
      PROVE  /\ recovers' = recovers
             /\ runStatus' = "fanout_pending" => runStatus = "fanout_pending"
  <2>1. runStatus' = "fanout_pending" => runStatus = "fanout_pending"
    BY <1>4, RunSteps DEF RunStep, MarkCompleted, MarkFailed, MarkCancelled,
                          ProcessCancel, runVars
  <2>2. ASSUME NEW e \in Executors, Consume(e) \/ Progress(e) \/ Fault(e)
        PROVE  recovers' = recovers
    BY <1>4, <2>2 DEF Consume, SkipRun, Progress, LoadCampaign, Pipeline,
         ReadPage, Enrich, SendTasks, CheckCancelled, InsertBatch, ExtendLock,
         Close, FinishPipeline, MarkCompleted, MarkFailed, MarkCancelled,
         Respond, Fault, DbError, LockError, Crash, LoseConnection, boundVars
  <2>3. ASSUME ~\E e \in Executors : Consume(e) \/ Progress(e) \/ Fault(e)
        PROVE  recovers' = recovers
    <3>1. ASSUME NEW u \in Targets,
                 \/ PublishSignal(u) \/ LeaseTask(u) \/ FinishTask(u)
                 \/ RetryTask(u) \/ RepushSignal(u) \/ LeaseFails(u)
          PROVE  recovers' = recovers
      BY <3>1 DEF PublishSignal, LeaseTask, LeaseFails, FinishTask, RetryTask, EndTask,
                  RepushSignal, boundVars
    <3>2. ASSUME NEW p \in Processors,
                 \/ ClaimCancel(p) \/ ProcessCancel(p)
                 \/ RetryCancel(p) \/ CrashProcessor(p)
          PROVE  recovers' = recovers
      BY <3>2 DEF ClaimCancel, ProcessCancel, RetryCancel, CrashProcessor,
                  boundVars
    <3>3. ASSUME \/ PublishAgain \/ LockExpires \/ RequestCancel \/ ResetCancel
                 \/ FetchCompletable \/ FinalizeCampaign \/ FinalizeFails
                 \/ UNCHANGED vars
          PROVE  recovers' = recovers
      BY <3>3 DEF PublishAgain, LockExpires, RequestCancel, ResetCancel,
                  FetchCompletable, FinalizeCampaign, FinalizeFails, vars,
                  boundVars
    <3>4. QED
      BY <1>4, <2>3, <3>1, <3>2, <3>3 DEF Next
  <2>4. recovers' = recovers
    BY <2>2, <2>3
  <2>5. QED
    BY <2>1, <2>4
<1>5. ASSUME NEW e \in Executors, Consume(e) \/ Progress(e) \/ Fault(e),
             ~AcquireLock(e)
      PROVE  Running' \subseteq Running
  <2>1. PICK x \in Executor : exec' = [exec EXCEPT ![e] = x]
    BY <1>5, ExecutorStep
  <2>2. x.pc \in {"loading", "running", "closing"} => Executing(e)
    <3>1. x = exec'[e]
      BY <1>a, <2>1
    <3>2. CASE SkipRun(e) \/ LockError(e) \/ Respond(e) \/ Crash(e)
      BY <1>a, <3>1, <3>2 DEF SkipRun, LockError, Respond, Crash, Idle, Outside
    <3>3. CASE MarkCompleted(e) \/ MarkFailed(e) \/ MarkCancelled(e)
      BY <3>3 DEF MarkCompleted, MarkFailed, MarkCancelled, Executing
    <3>4. CASE \/ LoadCampaign(e) \/ ReadPage(e) \/ Enrich(e) \/ SendTasks(e)
               \/ CheckCancelled(e) \/ InsertBatch(e) \/ ExtendLock(e)
               \/ FinishPipeline(e) \/ DbError(e)
      BY <3>4 DEF LoadCampaign, ReadPage, Enrich, SendTasks, CheckCancelled,
                  InsertBatch, ExtendLock, FinishPipeline, DbError, Executing
    <3>5. CASE LoseConnection(e)
      <4>1. x.pc = exec[e].pc
        BY <1>a, <3>1, <3>5 DEF LoseConnection, Executor
      <4>2. QED
        BY <4>1 DEF Executing
    <3>6. QED
      BY <1>5, <3>2, <3>3, <3>4, <3>5
         DEF Consume, Progress, Pipeline, Close, Fault
  <2>3. QED
    BY <1>a, <2>1, <2>2 DEF Running, Executing
<1>6. ASSUME ~\E e \in Executors : Consume(e) \/ Progress(e) \/ Fault(e)
      PROVE  Running' = Running
  BY <1>6 DEF Next, PublishAgain, LockExpires, RecoverRun, PublishSignal,
       LeaseTask, LeaseFails, FinishTask, RetryTask, EndTask, RepushSignal, RequestCancel,
       ClaimCancel, ProcessCancel, RetryCancel, CrashProcessor, ResetCancel,
       FetchCompletable, FinalizeCampaign, FinalizeFails, vars, Running,
       Executing
<1>7. CASE RecoverRun \/ \E e \in Executors : AcquireLock(e)
  BY <1>1, <1>2, <1>7
<1>8. CASE ~RecoverRun /\ \A e \in Executors : ~AcquireLock(e)
  <2>1. Running' \subseteq Running
    BY <1>5, <1>6, <1>8
  <2>2. QED
    BY <1>3, <1>4, <1>8, <2>1
<1>9. QED
  BY <1>7, <1>8

LEMMA NextScan == IInv /\ [Next]_vars => ScanInv'
<1> SUFFICES ASSUME IInv, [Next]_vars PROVE ScanInv'
  OBVIOUS
<1>1. ASSUME NEW e \in Executors, Consume(e) \/ Progress(e) \/ Fault(e)
      PROVE  scan' = scan
  BY <1>1 DEF Consume, AcquireLock, SkipRun, Progress, LoadCampaign, Pipeline,
       ReadPage, Enrich, SendTasks, CheckCancelled, InsertBatch, ExtendLock,
       Close, FinishPipeline, MarkCompleted, MarkFailed, MarkCancelled,
       Respond, Fault, DbError, LockError, Crash, LoseConnection
<1>2. CASE FetchCompletable
  BY <1>2 DEF FetchCompletable, Completable, ScanInv
<1>3. CASE FinalizeCampaign \/ FinalizeFails
  BY <1>3 DEF FinalizeCampaign, FinalizeFails, ScanInv
<1>4. CASE ~(FetchCompletable \/ FinalizeCampaign \/ FinalizeFails)
  <2>1. scan' = scan
    BY <1>1, <1>4 DEF Next, PublishAgain, LockExpires, RecoverRun,
         PublishSignal, LeaseTask, LeaseFails, FinishTask, RetryTask, EndTask,
         RepushSignal, RequestCancel, ClaimCancel, ProcessCancel, RetryCancel,
         CrashProcessor, ResetCancel, vars
  <2>2. QED
    BY <2>1 DEF IInv, ScanInv
<1>5. QED
  BY <1>2, <1>3, <1>4

-----------------------------------------------------------------------------
(* Tasks, their signals and their number.                                  *)

\* The steps that write tasks or statistics.
TaskStep ==
  \/ \E e \in Executors : InsertBatch(e)
  \/ \E u \in Targets : LeaseTask(u) \/ FinishTask(u) \/ RetryTask(u)
  \/ \E p \in Processors : ProcessCancel(p)

LEMMA TaskSteps ==
  ASSUME [Next]_vars
  PROVE  \/ TaskStep
         \/ \E u \in Targets : PublishSignal(u) \/ LeaseFails(u) \/ RepushSignal(u)
         \/ UNCHANGED taskVars
<1> USE DEF TaskStep, taskVars
<1>1. ASSUME NEW e \in Executors, Consume(e) \/ Progress(e) \/ Fault(e)
      PROVE  TaskStep \/ UNCHANGED taskVars
  <2>1. CASE Consume(e)
    BY <2>1 DEF Consume, AcquireLock, SkipRun
  <2>2. CASE Progress(e)
    BY <2>2 DEF Progress, LoadCampaign, Pipeline, ReadPage, Enrich, SendTasks,
                CheckCancelled, ExtendLock, Close, FinishPipeline,
                MarkCompleted, MarkFailed, MarkCancelled, Respond
  <2>3. CASE Fault(e)
    BY <2>3 DEF Fault, DbError, LockError, Crash, LoseConnection
  <2>4. QED
    BY <1>1, <2>1, <2>2, <2>3
<1>2. CASE \/ PublishAgain \/ LockExpires \/ RecoverRun \/ RequestCancel
           \/ ResetCancel \/ FetchCompletable \/ FinalizeCampaign
           \/ FinalizeFails \/ UNCHANGED vars
  BY <1>2 DEF PublishAgain, LockExpires, RecoverRun, RequestCancel, ResetCancel,
              FetchCompletable, FinalizeCampaign, FinalizeFails, vars
<1>3. ASSUME NEW p \in Processors,
             ClaimCancel(p) \/ RetryCancel(p) \/ CrashProcessor(p)
      PROVE  UNCHANGED taskVars
  BY <1>3 DEF ClaimCancel, RetryCancel, CrashProcessor
<1>4. QED
  BY <1>1, <1>2, <1>3 DEF Next

LEMMA NextSignal == IInv /\ [Next]_vars => SignalInv'
<1> SUFFICES ASSUME IInv, [Next]_vars,
                    NEW u \in Targets, task'[u] = "queued"
             PROVE  u \in outbox' \cup signals' \cup nacked'
  BY DEF SignalInv, Having
<1>a. /\ task \in [Targets -> TaskStatus \cup {"absent"}]
      /\ task[u] = "queued" => u \in outbox \cup signals \cup nacked
  BY DEF IInv, TypeOK, SignalInv, Having
<1>1. CASE UNCHANGED taskVars
  BY <1>a, <1>1 DEF taskVars
<1>2. ASSUME NEW v \in Targets, PublishSignal(v) \/ RepushSignal(v) \/ LeaseFails(v)
      PROVE  u \in outbox' \cup signals' \cup nacked'
  BY <1>a, <1>2 DEF PublishSignal, RepushSignal, LeaseFails
<1>3. ASSUME NEW e \in Executors, InsertBatch(e)
      PROVE  u \in outbox' \cup signals' \cup nacked'
  BY <1>a, <1>3 DEF InsertBatch
<1>4. ASSUME NEW v \in Targets, LeaseTask(v)
      PROVE  u \in outbox' \cup signals' \cup nacked'
  <2>1. task[u] = "queued" /\ u # v
    BY <1>a, <1>4 DEF LeaseTask, Waiting
  <2>2. QED
    BY <1>a, <1>4, <2>1 DEF LeaseTask
<1>5. ASSUME NEW v \in Targets, FinishTask(v) \/ RetryTask(v)
      PROVE  u \in outbox' \cup signals' \cup nacked'
  BY <1>a, <1>5 DEF FinishTask, RetryTask, EndTask, Final
<1>6. ASSUME NEW p \in Processors, ProcessCancel(p)
      PROVE  u \in outbox' \cup signals' \cup nacked'
  BY <1>a, <1>6 DEF ProcessCancel
<1>7. QED
  BY <1>1, <1>2, <1>3, <1>4, <1>5, <1>6, TaskSteps DEF TaskStep

LEMMA NextTotal == IInv /\ [Next]_vars => TotalInv'
<1> SUFFICES ASSUME IInv, [Next]_vars PROVE TotalInv'
  OBVIOUS
<1> USE FanoutAssumption
<1>a. /\ task \in [Targets -> TaskStatus \cup {"absent"}]
      /\ stats \in [TaskStatus \cup {"total"} -> Int]
      /\ exec \in [Executors -> Executor]
      /\ stats["total"] = Cardinality(Inserted)
  BY DEF IInv, TypeOK, TotalInv
<1>b. "absent" \notin TaskStatus /\ "total" \notin TaskStatus
  BY DEF TaskStatus, Waiting
<1>c. IsFiniteSet(Targets)
  BY FanoutAssumption
<1>1. ASSUME Inserted' = Inserted, stats'["total"] = stats["total"]
      PROVE  TotalInv'
  BY <1>a, <1>1 DEF TotalInv
<1>2. ASSUME NEW e \in Executors, InsertBatch(e)
      PROVE  TotalInv'
  <2>1. PICK new \in SUBSET Targets :
          new = {u \in exec[e].batch : task[u] = "absent"}
    BY <1>a DEF Executor
  <2>2. Inserted' = Inserted \cup new /\ Inserted \cap new = {}
    BY <1>a, <1>b, <1>2, <2>1 DEF InsertBatch, Inserted, Executor
  <2>3. stats'["total"] = stats["total"] + Cardinality(new)
    BY <1>a, <1>b, <1>2, <2>1 DEF InsertBatch, Counted
  <2>4. IsFiniteSet(Inserted) /\ IsFiniteSet(new)
    BY <1>c, FS_Subset DEF Inserted
  <2>5. Cardinality(Inserted) \in Nat /\ Cardinality(new) \in Nat
    BY <2>4, FS_CardinalityType
  <2>6. Cardinality(Inserted \cup new) =
          Cardinality(Inserted) + Cardinality(new) - Cardinality(Inserted \cap new)
    BY <2>4, FS_Union
  <2>7. Cardinality(Inserted \cap new) = 0
    BY <2>2, FS_EmptySet
  <2>8. QED
    BY <1>a, <2>2, <2>3, <2>5, <2>6, <2>7 DEF TotalInv
<1>3. ASSUME NEW from \in TaskStatus, NEW to \in TaskStatus,
             stats' = Move(from, to)
      PROVE  stats'["total"] = stats["total"]
  BY <1>a, <1>b, <1>3 DEF Move
<1>4. ASSUME NEW u \in Targets, NEW to \in TaskStatus,
             task[u] # "absent", task' = [task EXCEPT ![u] = to]
      PROVE  Inserted' = Inserted
  BY <1>a, <1>b, <1>4 DEF Inserted
<1>5. ASSUME NEW u \in Targets, LeaseTask(u)
      PROVE  TotalInv'
  <2>1. CASE task[u] \in Waiting
    <3>1. "queued" \in TaskStatus /\ "sending" \in TaskStatus /\ task[u] # "absent"
      BY <2>1, <1>b DEF TaskStatus, Waiting
    <3>2. /\ task' = [task EXCEPT ![u] = "sending"]
          /\ stats' = Move("queued", "sending")
      BY <1>5, <2>1 DEF LeaseTask
    <3>3. QED
      BY <1>1, <1>3, <1>4, <3>1, <3>2
  <2>2. CASE task[u] \notin Waiting
    BY <1>1, <1>5, <2>2 DEF LeaseTask, Inserted
  <2>3. QED
    BY <2>1, <2>2
<1>6. ASSUME NEW u \in Targets, NEW s \in TaskStatus, EndTask(u, s)
      PROVE  TotalInv'
  <2>1. /\ task[u] = "sending" /\ "sending" \in TaskStatus
        /\ task' = [task EXCEPT ![u] = s]
        /\ stats' = Move("sending", s)
    BY <1>6 DEF EndTask, TaskStatus
  <2>2. QED
    BY <1>1, <1>3, <1>4, <2>1
<1>7. ASSUME NEW u \in Targets, FinishTask(u) \/ RetryTask(u)
      PROVE  TotalInv'
  <2>1. Final \subseteq TaskStatus /\ "retry_scheduled" \in TaskStatus
    BY DEF Final, TaskStatus, Waiting
  <2>2. QED
    BY <1>6, <1>7, <2>1 DEF FinishTask, RetryTask
<1>8. ASSUME NEW p \in Processors, ProcessCancel(p)
      PROVE  TotalInv'
  <2>1. Inserted' = Inserted
    BY <1>a, <1>8 DEF ProcessCancel, Inserted, Waiting
  <2>2. QED
    BY <1>1, <1>8, <2>1 DEF ProcessCancel
<1>9. ASSUME UNCHANGED <<task, stats>>
      PROVE  TotalInv'
  BY <1>1, <1>9 DEF Inserted
<1>10. QED
  BY <1>2, <1>5, <1>7, <1>8, <1>9, TaskSteps
     DEF TaskStep, taskVars, PublishSignal, RepushSignal, LeaseFails

-----------------------------------------------------------------------------
(* Theorems.                                                               *)

\* The inductive invariant holds in every reachable state.
THEOREM Invariance == Spec => []IInv
<1>1. IInv /\ [Next]_vars => IInv'
  BY NextType, NextTotal, NextSignal, NextExec, NextWhole, NextOwner, NextScan,
     NextGrant DEF IInv
<1>2. QED
  BY InitIInv, <1>1, PTL DEF Spec

\* Every variable keeps its type.
THEOREM TypeCorrect == Spec => []TypeOK
<1>1. IInv => TypeOK
  BY DEF IInv
<1>2. QED
  BY Invariance, <1>1, PTL

\* total_tasks counts every recipient's task once, however executions of the
\* run overlap or are repeated.
THEOREM TotalsAreExact == Spec => []TotalInv
<1>1. IInv => TotalInv
  BY DEF IInv
<1>2. QED
  BY Invariance, <1>1, PTL

\* A queued task has a signal in the outbox or in RabbitMQ, but for those whose
\* message a failed lease transaction took away.
THEOREM QueuedIsSignalled == Spec => []SignalInv
<1>1. IInv => SignalInv
  BY DEF IInv
<1>2. QED
  BY Invariance, <1>1, PTL

\* No recipient falls out of an executor's pipeline.
THEOREM PipelineLosesNobody == Spec => []PipelineInv
<1>1. IInv => PipelineInv
  BY DEF IInv
<1>2. QED
  BY Invariance, <1>1, PTL

\* A completed run has a task for every recipient.
THEOREM CompletedIsWhole == Spec => []CompletedRunIsWhole
<1>1. IInv => CompletedRunIsWhole
  BY DEF IInv
<1>2. QED
  BY Invariance, <1>1, PTL

\* The run is executed at most once for each time it became pending.
THEOREM GrantedOnce == Spec => []ExecutionsAreGranted
<1>1. IInv => ExecutionsAreGranted
  <2>1. ASSUME IInv
        PROVE  Cardinality(Running) \in Nat /\ recovers \in Nat
    BY <2>1, FanoutAssumption, FS_Subset, FS_CardinalityType
       DEF Running, IInv, TypeOK
  <2>2. QED
    BY <2>1 DEF IInv, GrantInv, ExecutionsAreGranted, Running
<1>2. QED
  BY Invariance, <1>1, PTL

\* A cancelled run is never started, completed or failed again.
THEOREM CancelledIsFinal == Spec => CancelledRunStays
<1>1. ASSUME IInv, [Next]_vars, runStatus = "cancelled"
      PROVE  runStatus' = "cancelled"
  <2>1. \A e \in Executors : ~Owns(e)
    BY <1>1, FanoutAssumption DEF IInv, OwnerInv, Owns
  <2>2. QED
    BY <1>1, <2>1, RunSteps
       DEF RunStep, AcquireLock, CanLock, MarkCompleted, MarkFailed,
           MarkCancelled, RecoverRun, ProcessCancel, runVars
<1>2. IInv /\ [Next]_vars =>
        [runStatus = "cancelled" => runStatus' = "cancelled"]_vars
  BY <1>1
<1>3. QED
  BY Invariance, <1>2, PTL DEF Spec, CancelledRunStays

\* A campaign that was completed, failed or cancelled stays so, whatever the
\* finalizer or a cancel processor still holds.
THEOREM VerdictsAreFinal == Spec => VerdictIsFinal
<1>1. ASSUME IInv, [Next]_vars, campaign \notin {"running", "cancelling"}
      PROVE  campaign' = campaign
  <2>1. ASSUME NEW e \in Executors, Consume(e) \/ Progress(e) \/ Fault(e)
        PROVE  campaign' = campaign
    BY <2>1 DEF Consume, AcquireLock, SkipRun, Progress, LoadCampaign,
         Pipeline, ReadPage, Enrich, SendTasks, CheckCancelled, InsertBatch,
         ExtendLock, Close, FinishPipeline, MarkCompleted, MarkFailed,
         MarkCancelled, Respond, Fault, DbError, LockError, Crash,
         LoseConnection, cancelVars
  <2>2. ASSUME NEW u \in Targets,
               \/ PublishSignal(u) \/ LeaseTask(u) \/ FinishTask(u)
               \/ RetryTask(u) \/ RepushSignal(u) \/ LeaseFails(u)
        PROVE  campaign' = campaign
    BY <2>2 DEF PublishSignal, LeaseTask, LeaseFails, FinishTask, RetryTask, EndTask,
                RepushSignal, cancelVars
  <2>3. CASE RequestCancel \/ \E p \in Processors : ProcessCancel(p)
    BY <1>1, <2>3 DEF RequestCancel, ProcessCancel, CanCancel
  <2>4. CASE FinalizeCampaign
    <3>1. scan.status \in {"running", "cancelling"}
      BY <1>1, <2>4 DEF FinalizeCampaign, IInv, ScanInv
    <3>2. ~CanFinalize
      BY <1>1, <3>1 DEF CanFinalize
    <3>3. QED
      BY <2>4, <3>2 DEF FinalizeCampaign
  <2>5. CASE \/ PublishAgain \/ LockExpires \/ RecoverRun \/ ResetCancel
             \/ FetchCompletable \/ FinalizeFails \/ UNCHANGED vars
    BY <2>5 DEF PublishAgain, LockExpires, RecoverRun, ResetCancel,
                FetchCompletable, FinalizeFails, vars, cancelVars
  <2>6. ASSUME NEW p \in Processors,
               ClaimCancel(p) \/ RetryCancel(p) \/ CrashProcessor(p)
        PROVE  campaign' = campaign
    BY <2>6 DEF ClaimCancel, RetryCancel, CrashProcessor
  <2>7. QED
    BY <1>1, <2>1, <2>2, <2>3, <2>4, <2>5, <2>6 DEF Next
<1>2. IInv /\ [Next]_vars =>
        [campaign \notin {"running", "cancelling"} => campaign' = campaign]_vars
  BY <1>1
<1>3. QED
  BY Invariance, <1>2, PTL DEF Spec, VerdictIsFinal
=============================================================================
