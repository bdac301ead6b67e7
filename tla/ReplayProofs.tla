---------------------------- MODULE ReplayProofs ----------------------------
(***************************************************************************)
(* Proofs that the safety properties of module Replay hold for any number  *)
(* of tasks, requests, recover calls and faults.                           *)
(***************************************************************************)
EXTENDS Replay, FiniteSetTheorems, TLAPS

-----------------------------------------------------------------------------
(* Types *)

\* The initial database is well typed.
LEMMA InitTypeOK == Init => TypeOK
  BY ReplayAssumption
     DEF Init, TypeOK, ReplayAssumption, TaskStatus, ApiPc, OpPc, RowKinds, Row

LEMMA OpenItemType ==
  ASSUME NEW t \in Tasks, TypeOK, OpenItem(t)
  PROVE  items' \in [Tasks -> Nat] /\ open' \in SUBSET Tasks
  BY DEF OpenItem, TypeOK

LEMMA NewMaxType ==
  ASSUME NEW t \in Tasks, TypeOK
  PROVE  NewMax(t) \in Nat
  BY ReplayAssumption DEF NewMax, TypeOK, ReplayAssumption

\* What recover_expired_lease writes, if the lease is still expired.
Recovers(t) ==
  /\ t \in Tasks /\ task[t] = "sending" /\ t \in expired
  /\ Free({t})
  /\ recovered' = recovered \cup {<<t, lease[t]>>}
  /\ \/ /\ task' = [task EXCEPT ![t] = "dead_lettered"]
        /\ OpenItem(t) /\ dead' = dead + 1
     \/ /\ task' = [task EXCEPT ![t] = "retry_scheduled"]
        /\ UNCHANGED <<items, open, dead>>

LEMMA RecoverWrites ==
  ASSUME TypeOK, NEW row \in scan, RecoverLease(row)
  PROVE  /\ \/ Recovers(row.task)
            \/ UNCHANGED <<task, lease, expired, recovered, items, open, dead>>
         /\ UNCHANGED <<attemptCount, maxAttempts, sending, mail, apiVars, opVars,
                        faults, apiHistory, overtaken, givenUp>>
<1> DEFINE t == row.task
<1>1. t \in Tasks
  BY DEF TypeOK
<1>2. CASE StillExpired(t)
  BY <1>1, <1>2 DEF RecoverLease, Recovers, StillExpired, dlqVars
<1>3. CASE ~StillExpired(t)
  BY <1>3 DEF RecoverLease, dlqVars
<1> QED BY <1>2, <1>3 DEF RecoverLease

\* Freeing leases keeps their types.
LEMMA FreeType ==
  ASSUME NEW S \in SUBSET Tasks, TypeOK, Free(S)
  PROVE  /\ lease' \in [Tasks -> Nat]
         /\ \A t \in Tasks : lease'[t] = IF t \in S THEN 0 ELSE lease[t]
         /\ expired' \in SUBSET {t \in Tasks : lease'[t] # 0}
  BY DEF Free, TypeOK

LEMMA NextTypeOK == TypeOK /\ [Next]_vars => TypeOK'
<1> SUFFICES ASSUME TypeOK, [Next]_vars PROVE TypeOK'
  OBVIOUS
<1> USE ReplayAssumption DEF ReplayAssumption, TypeOK, TaskStatus, ApiPc, OpPc,
        RowKinds, taskVars, dlqVars, jobVars, apiVars, opVars, apiHistory
<1>1. ASSUME NEW t \in Tasks, Publish(t) PROVE TypeOK'
  BY <1>1 DEF Publish
<1>2. ASSUME NEW t \in Tasks, GiveUp(t) PROVE TypeOK'
  <2>1. items' \in [Tasks -> Nat] /\ open' \in SUBSET Tasks
    BY <1>2, OpenItemType DEF GiveUp
  <2>2. CASE task[t] \in Terminal
    BY <1>2, <2>1, <2>2 DEF GiveUp, Fault
  <2>3. CASE task[t] \notin Terminal
    <3>1. Free({t}) /\ task' = [task EXCEPT ![t] = "dead_lettered"]
      BY <1>2, <2>3 DEF GiveUp
    <3> QED BY <1>2, <2>1, <2>3, <3>1, FreeType DEF GiveUp, Fault
  <2> QED BY <2>2, <2>3
<1>3. ASSUME NEW t \in Tasks, DropApiRow(t) PROVE TypeOK'
  BY <1>3 DEF DropApiRow
<1>4. ASSUME NEW t \in Tasks, RetryRepush(t) PROVE TypeOK'
  BY <1>4 DEF RetryRepush, Row
<1>5. ASSUME NEW t \in Tasks, LeaseTask(t) PROVE TypeOK'
  <2>1. CASE task[t] \in {"queued", "retry_scheduled"}
    <3>1. /\ task' = [task EXCEPT ![t] = "sending"]
          /\ attemptCount' = [attemptCount EXCEPT ![t] = @ + 1]
          /\ lease' = [lease EXCEPT ![t] = attemptCount[t] + 1]
          /\ sending' = [sending EXCEPT ![t] = @ \cup {attemptCount[t] + 1}]
      BY <1>5, <2>1 DEF LeaseTask
    <3>2. attemptCount[t] \in Nat /\ attemptCount[t] + 1 # 0
      OBVIOUS
    <3>3. \A u \in Tasks : lease'[u] # 0 <=> task'[u] = "sending"
      BY <3>1, <3>2
    <3>4. sending' \in [Tasks -> SUBSET Nat]
      BY <3>1, <3>2
    <3> QED BY <1>5, <3>1, <3>2, <3>3, <3>4 DEF LeaseTask
  <2>2. CASE task[t] \notin {"queued", "retry_scheduled"}
    BY <1>5, <2>2 DEF LeaseTask
  <2> QED BY <2>1, <2>2
<1>6. ASSUME NEW t \in Tasks, NEW n \in sending[t], EndAttempt(t, n)
      PROVE  TypeOK'
  <2>1. items' \in [Tasks -> Nat] /\ open' \in SUBSET Tasks
    BY <1>6, OpenItemType DEF EndAttempt
  <2>2. CASE lease[t] # n
    BY <1>6, <2>1, <2>2 DEF EndAttempt
  <2>3. CASE lease[t] = n
    <3>1. PICK s \in Outcomes(t, n) :
            /\ task' = [task EXCEPT ![t] = s]
            /\ Free({t})
            /\ dead' = Counted(s)
      BY <1>6, <2>3 DEF EndAttempt
    <3>2. s \in TaskStatus /\ s # "sending"
      BY <3>1 DEF Outcomes
    <3>3. dead' \in Nat
      BY <3>1 DEF Counted
    <3>4. /\ lease' \in [Tasks -> Nat]
          /\ \A u \in Tasks : lease'[u] = IF u \in {t} THEN 0 ELSE lease[u]
          /\ expired' \in SUBSET {u \in Tasks : lease'[u] # 0}
      BY <3>1, FreeType
    <3>5. \A u \in Tasks : lease'[u] # 0 <=> task'[u] = "sending"
      BY <3>1, <3>2, <3>4
    <3> QED BY <1>6, <2>1, <3>1, <3>2, <3>3, <3>4, <3>5 DEF EndAttempt
  <2> QED BY <2>2, <2>3
<1>7. ASSUME NEW a \in ApiCalls, Start(a) PROVE TypeOK'
  BY <1>7 DEF Start, FindsNoKey, InsertKey, StartAgain, StartsWith
<1>8. ASSUME NEW a \in ApiCalls, SelectItems(a) PROVE TypeOK'
  BY <1>8 DEF SelectItems
<1>9. ASSUME NEW a \in ApiCalls, NEW t \in Tasks, LockTask(a, t) PROVE TypeOK'
  BY <1>9 DEF LockTask
<1>10. ASSUME NEW a \in ApiCalls, CommitReplay(a) PROVE TypeOK'
  <2>1. Free(Replayed(a)) /\ Replayed(a) \in SUBSET Tasks
    BY <1>10 DEF CommitReplay, Replayed
  <2>2. /\ lease' \in [Tasks -> Nat]
        /\ \A u \in Tasks : lease'[u] = IF u \in Replayed(a) THEN 0 ELSE lease[u]
        /\ expired' \in SUBSET {u \in Tasks : lease'[u] # 0}
    BY <2>1, FreeType
  <2>3. \A u \in Tasks : lease'[u] # 0 <=> task'[u] = "sending"
    BY <1>10, <2>2 DEF CommitReplay, Replayed
  <2>4. /\ task' \in [Tasks -> TaskStatus] /\ maxAttempts' \in [Tasks -> Nat]
        /\ \A r \in outbox' : r.task \in Tasks /\ r.kind \in RowKinds
        /\ open' \in SUBSET Tasks
    BY <1>10, <2>1 DEF CommitReplay, ApiRow, Row
  <2>5. /\ apiPc' \in [ApiCalls -> ApiPc]
        /\ apiItems' \in [ApiCalls -> SUBSET Tasks]
        /\ apiTasks' \in [ApiCalls -> SUBSET Tasks]
        /\ faults' \in 0 .. MaxFaults /\ effects' \in Nat /\ doubts' \in Nat
        /\ key' \in {"none", "processing", "completed", "failed"}
    BY <1>10 DEF CommitReplay, Unlock, Fault
  <2> QED BY <1>10, <2>2, <2>3, <2>4, <2>5 DEF CommitReplay
<1>11. ASSUME NEW a \in ApiCalls, AbortReplay(a) PROVE TypeOK'
  BY <1>11 DEF AbortReplay, RollBack, Unlock
<1>12. ASSUME NEW a \in ApiCalls, FailReplay(a) PROVE TypeOK'
  BY <1>12 DEF FailReplay, RollBack, Unlock, Fault
<1>13. ASSUME NEW a \in ApiCalls, FailKey(a) PROVE TypeOK'
  BY <1>13 DEF FailKey
<1>14. ASSUME NEW a \in ApiCalls, ApiCrash(a) PROVE TypeOK'
  BY <1>14 DEF ApiCrash, Unlock, Fault
<1>15. ASSUME NEW o \in OpCalls, NEW t \in Tasks, ReadItem(o, t) PROVE TypeOK'
  BY <1>15 DEF ReadItem
<1>16. ASSUME NEW o \in OpCalls, NEW t \in Tasks, ReadTask(o, t) PROVE TypeOK'
  BY <1>16, NewMaxType DEF ReadTask
<1>17. ASSUME NEW o \in OpCalls, NEW t \in Tasks, UpdateTask(o, t) PROVE TypeOK'
  BY <1>17 DEF UpdateTask, Answer
<1>18. ASSUME NEW o \in OpCalls, NEW t \in Tasks, CommitRetry(o, t)
       PROVE  TypeOK'
  <2>1. Free({t})
    BY <1>18 DEF CommitRetry
  <2> QED BY <1>18, <2>1, FreeType DEF CommitRetry, Rebalanced, Row, Answer
<1>19. ASSUME NEW o \in OpCalls, AbortRetry(o) PROVE TypeOK'
  BY <1>19 DEF AbortRetry, Answer
<1>20. CASE UNCHANGED vars
  BY <1>20 DEF vars
<1>21. CASE FetchExpired
  <2>1. \A t \in expired : ScanRow(t) \in [task : Tasks, n : Nat, last : BOOLEAN]
    <3> TAKE t \in expired
    <3>1. t \in Tasks /\ attemptCount[t] \in Nat
      OBVIOUS
    <3>2. (attemptCount[t] >= maxAttempts[t]) \in BOOLEAN
      OBVIOUS
    <3> QED BY <3>1, <3>2 DEF ScanRow
  <2>2. scan' \in SUBSET [task : Tasks, n : Nat, last : BOOLEAN]
    BY <1>21, <2>1 DEF FetchExpired
  <2> QED BY <1>21, <2>2 DEF FetchExpired
<1>22. ASSUME NEW t \in Tasks, LeaseExpires(t) \/ ExtendLease(t) PROVE TypeOK'
  BY <1>22 DEF LeaseExpires, ExtendLease, Fault
<1>23. ASSUME NEW row \in scan, RecoverLease(row) PROVE TypeOK'
  <2>1. scan' \in SUBSET [task : Tasks, n : Nat, last : BOOLEAN]
    BY <1>23 DEF RecoverLease
  <2>2. row.task \in Tasks /\ row.n \in Nat
    OBVIOUS
  <2>3. \A r \in outbox' : r.task \in Tasks /\ r.kind \in RowKinds
    BY <1>23, <2>2 DEF RecoverLease, Row
  <2>4. CASE UNCHANGED <<task, lease, expired, recovered, items, open, dead>>
    BY <1>23, <2>1, <2>3, <2>4, RecoverWrites
  <2>5. CASE Recovers(row.task)
    <3>1. Free({row.task})
      BY <2>5 DEF Recovers
    <3>2. /\ lease' \in [Tasks -> Nat]
          /\ \A u \in Tasks : lease'[u] = IF u \in {row.task} THEN 0 ELSE lease[u]
          /\ expired' \in SUBSET {u \in Tasks : lease'[u] # 0}
      BY <2>2, <3>1, FreeType
    <3>3. items' \in [Tasks -> Nat] /\ open' \in SUBSET Tasks /\ dead' \in Nat
      BY <2>2, <2>5, OpenItemType DEF Recovers
    <3>4. /\ task' \in [Tasks -> TaskStatus]
          /\ \A u \in Tasks : lease'[u] # 0 <=> task'[u] = "sending"
      BY <2>5, <3>2 DEF Recovers
    <3>5. recovered' \in SUBSET (Tasks \X Nat)
      BY <2>2, <2>5 DEF Recovers
    <3> QED
      BY <1>23, <2>1, <2>3, <3>2, <3>3, <3>4, <3>5, RecoverWrites
  <2> QED BY <1>23, <2>4, <2>5, RecoverWrites
<1> QED
  BY <1>1, <1>2, <1>3, <1>4, <1>5, <1>6, <1>7, <1>8, <1>9, <1>10, <1>11, <1>12,
     <1>13, <1>14, <1>15, <1>16, <1>17, <1>18, <1>19, <1>20, <1>21, <1>22, <1>23
     DEF Next, Worker, Handle

\* Types: the statuses, locks and counters of all rows and calls.
THEOREM TypesHold == Spec => []TypeOK
<1> QED BY InitTypeOK, NextTypeOK, PTL DEF Spec

-----------------------------------------------------------------------------
(* The idempotency key *)

\* A request is active from the commit of its key's row until it has answered.
Active == {a \in ApiCalls : apiPc[a] \in {"started", "replaying", "failing"}}

\* The key's row tells of its one active request, and how many replays were
\* committed.
KeyInv ==
  /\ \A a, b \in Active : a = b
  /\ \A a \in Active : key \in {"processing", "completed"}
  /\ \A a \in Active : apiPc[a] \in {"started", "replaying"} =>
       key = "processing"
  /\ key # "completed" => effects = doubts
  /\ Active # {} => effects = doubts
  /\ effects = doubts \/ effects = doubts + 1

LEMMA NextKeyInv == TypeOK /\ KeyInv /\ [Next]_vars => KeyInv'
<1> SUFFICES ASSUME TypeOK, KeyInv, [Next]_vars PROVE KeyInv'
  OBVIOUS
<1> USE DEF TypeOK, KeyInv, Active, taskVars, dlqVars, jobVars, apiVars, opVars,
        apiHistory
<1>1. ASSUME UNCHANGED <<key, apiPc, effects, doubts>> PROVE KeyInv'
  BY <1>1
<1>2. ASSUME NEW t \in Tasks,
             Publish(t) \/ GiveUp(t) \/ DropApiRow(t) \/ RetryRepush(t)
               \/ Worker(t)
      PROVE  KeyInv'
  BY <1>1, <1>2
     DEF Publish, GiveUp, DropApiRow, RetryRepush, Worker, LeaseTask, EndAttempt
<1>3. ASSUME NEW a \in ApiCalls, Start(a) PROVE KeyInv'
  BY <1>3 DEF Start, FindsNoKey, InsertKey, StartAgain, StartsWith
<1>4. ASSUME NEW a \in ApiCalls, SelectItems(a) PROVE KeyInv'
  BY <1>4 DEF SelectItems
<1>5. ASSUME NEW a \in ApiCalls, NEW t \in Tasks, LockTask(a, t) PROVE KeyInv'
  BY <1>1, <1>5 DEF LockTask
<1>6. ASSUME NEW a \in ApiCalls, CommitReplay(a) PROVE KeyInv'
  BY <1>6 DEF CommitReplay, Fault
<1>7. ASSUME NEW a \in ApiCalls, AbortReplay(a) \/ FailReplay(a) PROVE KeyInv'
  BY <1>7 DEF AbortReplay, FailReplay, RollBack
<1>8. ASSUME NEW a \in ApiCalls, FailKey(a) PROVE KeyInv'
  BY <1>8 DEF FailKey
<1>9. ASSUME NEW a \in ApiCalls, ApiCrash(a) PROVE KeyInv'
  BY <1>9 DEF ApiCrash
<1>10. ASSUME NEW o \in OpCalls,
              \/ \E t \in Tasks : \/ ReadItem(o, t) \/ ReadTask(o, t)
                                  \/ UpdateTask(o, t) \/ CommitRetry(o, t)
              \/ AbortRetry(o)
       PROVE  KeyInv'
  BY <1>1, <1>10 DEF ReadItem, ReadTask, UpdateTask, CommitRetry, AbortRetry
<1>11. CASE FetchExpired \/ UNCHANGED vars
  BY <1>1, <1>11 DEF FetchExpired, vars
<1>12. ASSUME NEW t \in Tasks, LeaseExpires(t) \/ ExtendLease(t) PROVE KeyInv'
  BY <1>1, <1>12 DEF LeaseExpires, ExtendLease
<1>13. ASSUME NEW row \in scan, RecoverLease(row) PROVE KeyInv'
  BY <1>1, <1>13, RecoverWrites
<1> QED
  BY <1>2, <1>3, <1>4, <1>5, <1>6, <1>7, <1>8, <1>9, <1>10, <1>11, <1>12, <1>13
     DEF Next, Handle

LEMMA KeyInvHolds == Spec => [](TypeOK /\ KeyInv)
<1>1. Init => TypeOK /\ KeyInv
  BY InitTypeOK DEF Init, KeyInv, Active
<1>2. TypeOK /\ KeyInv /\ [Next]_vars => TypeOK' /\ KeyInv'
  BY NextTypeOK, NextKeyInv
<1> QED BY <1>1, <1>2, PTL DEF Spec

LEMMA OneActive == TypeOK /\ KeyInv => OneRequestRuns
<1>1. ASSUME TypeOK, KeyInv PROVE OneRequestRuns
  <2> DEFINE R == {a \in ApiCalls : apiPc[a] \in {"started", "replaying"}}
  <2>1. \A a, b \in R : a = b
    BY <1>1 DEF KeyInv, Active
  <2>2. CASE R = {}
    BY <2>2, FS_EmptySet DEF OneRequestRuns
  <2>3. CASE R # {}
    <3>1. PICK a \in R : R = {a}
      BY <2>1, <2>3
    <3>2. Cardinality(R) = 1
      BY <3>1, FS_Singleton
    <3> QED BY <3>2 DEF OneRequestRuns
  <2> QED BY <2>2, <2>3
<1> QED BY <1>1

\* start_idempotent_request lets one request at a time through, and a retried
\* one repeats its effect only after a lost commit answer.
THEOREM OneEffectHolds == Spec => []OneEffectPerKey
<1>1. TypeOK /\ KeyInv => EffectsAreCounted
  BY DEF TypeOK, KeyInv, EffectsAreCounted
<1>2. TypeOK /\ KeyInv => OneEffectPerKey
  BY <1>1, OneActive DEF OneEffectPerKey
<1> QED BY <1>2, KeyInvHolds, PTL

-----------------------------------------------------------------------------
(* Tasks, items and recover calls *)

\* Every dead letter has an open item: whoever writes the one status writes
\* the other in the same transaction.
LEMMA NextHasItem ==
  TypeOK /\ DeadLetteredHasItem /\ [Next]_vars => DeadLetteredHasItem'
<1> SUFFICES ASSUME TypeOK, DeadLetteredHasItem, [Next]_vars
             PROVE  DeadLetteredHasItem'
  OBVIOUS
<1> USE DEF TypeOK, DeadLetteredHasItem, taskVars, dlqVars, jobVars, apiVars, opVars
<1>1. ASSUME UNCHANGED <<task, open>> PROVE DeadLetteredHasItem'
  BY <1>1
<1>2. ASSUME NEW t \in Tasks, GiveUp(t) PROVE DeadLetteredHasItem'
  BY <1>2 DEF GiveUp, OpenItem
<1>3. ASSUME NEW t \in Tasks, LeaseTask(t) PROVE DeadLetteredHasItem'
  BY <1>3 DEF LeaseTask
<1>4. ASSUME NEW t \in Tasks, NEW n \in sending[t], EndAttempt(t, n)
      PROVE  DeadLetteredHasItem'
  <2>1. CASE lease[t] # n
    BY <1>4, <2>1 DEF EndAttempt
  <2>2. CASE lease[t] = n
    <3>1. PICK s \in Outcomes(t, n) :
            /\ task' = [task EXCEPT ![t] = s]
            /\ IF s = "dead_lettered"
                 THEN OpenItem(t) ELSE UNCHANGED <<items, open>>
      BY <1>4, <2>2 DEF EndAttempt
    <3>2. CASE s = "dead_lettered"
      BY <3>1, <3>2 DEF OpenItem
    <3>3. CASE s # "dead_lettered"
      BY <3>1, <3>3
    <3> QED BY <3>2, <3>3
  <2> QED BY <2>1, <2>2
<1>5. ASSUME NEW a \in ApiCalls, CommitReplay(a) PROVE DeadLetteredHasItem'
  BY <1>5 DEF CommitReplay, Replayed
<1>6. ASSUME NEW o \in OpCalls, NEW t \in Tasks, CommitRetry(o, t)
      PROVE  DeadLetteredHasItem'
  BY <1>6 DEF CommitRetry
<1>7. ASSUME NEW t \in Tasks, Publish(t) \/ DropApiRow(t) \/ RetryRepush(t)
               \/ LeaseExpires(t) \/ ExtendLease(t)
      PROVE  DeadLetteredHasItem'
  BY <1>1, <1>7 DEF Publish, DropApiRow, RetryRepush, LeaseExpires, ExtendLease
<1>8. ASSUME NEW a \in ApiCalls,
             \/ Start(a) \/ SelectItems(a) \/ (\E t \in Tasks : LockTask(a, t))
             \/ AbortReplay(a) \/ FailReplay(a) \/ FailKey(a) \/ ApiCrash(a)
      PROVE  DeadLetteredHasItem'
  BY <1>1, <1>8
     DEF Start, FindsNoKey, InsertKey, StartAgain, SelectItems, LockTask,
         AbortReplay, FailReplay, FailKey, ApiCrash
<1>9. ASSUME NEW o \in OpCalls,
             \/ \E t \in Tasks : ReadItem(o, t) \/ ReadTask(o, t) \/ UpdateTask(o, t)
             \/ AbortRetry(o)
      PROVE  DeadLetteredHasItem'
  BY <1>1, <1>9 DEF ReadItem, ReadTask, UpdateTask, AbortRetry
<1>10. CASE FetchExpired \/ UNCHANGED vars
  BY <1>1, <1>10 DEF FetchExpired, vars
<1>11. ASSUME NEW row \in scan, RecoverLease(row) PROVE DeadLetteredHasItem'
  <2>1. CASE UNCHANGED <<task, lease, expired, recovered, items, open, dead>>
    BY <1>1, <2>1
  <2>2. CASE Recovers(row.task)
    <3>1. row.task \in Tasks
      BY <2>2 DEF Recovers
    <3>2. CASE /\ task' = [task EXCEPT ![row.task] = "dead_lettered"]
               /\ OpenItem(row.task)
      BY <3>1, <3>2 DEF OpenItem
    <3>3. CASE /\ task' = [task EXCEPT ![row.task] = "retry_scheduled"]
               /\ UNCHANGED <<items, open>>
      BY <3>1, <3>3
    <3> QED BY <2>2, <3>2, <3>3 DEF Recovers
  <2> QED BY <1>11, <2>1, <2>2, RecoverWrites
<1> QED
  BY <1>2, <1>3, <1>4, <1>5, <1>6, <1>7, <1>8, <1>9, <1>10, <1>11
     DEF Next, Handle, Worker

LEMMA DeadLetteredHasItemHolds == Spec => []DeadLetteredHasItem
<1>1. Init => TypeOK /\ DeadLetteredHasItem
  BY InitTypeOK DEF Init, DeadLetteredHasItem
<1>2. TypeOK /\ DeadLetteredHasItem /\ [Next]_vars
        => TypeOK' /\ DeadLetteredHasItem'
  BY NextTypeOK, NextHasItem
<1> QED BY <1>1, <1>2, PTL DEF Spec

\* What a recover call remembers: it is about an item or it is not, and a call
\* without one has read a status it may retry.
CallInv ==
  /\ \A t \in open : items[t] # 0
  /\ \A o \in OpCalls :
       /\ o \in overtaken => opPc[o] = "done"
       /\ opPc[o] = "idle" => opItem[o] = 0
       /\ opPc[o] = "item_read" => opItem[o] # 0
       /\ opPc[o] \in {"read", "updated"} =>
            opItem[o] # 0 \/ opSeen[o] \in Retryable

LEMMA NextCallInv == TypeOK /\ CallInv /\ [Next]_vars => CallInv'
<1> SUFFICES ASSUME TypeOK, CallInv, [Next]_vars PROVE CallInv'
  OBVIOUS
<1> USE DEF TypeOK, CallInv, taskVars, dlqVars, jobVars, apiVars, opVars, apiHistory,
        OpPc
<1>1. ASSUME UNCHANGED <<items, open, opVars, overtaken>> PROVE CallInv'
  BY <1>1
<1>2. ASSUME NEW t \in Tasks, OpenItem(t) PROVE \A u \in open' : items'[u] # 0
  BY <1>2 DEF OpenItem
<1>3. ASSUME NEW t \in Tasks, GiveUp(t) PROVE CallInv'
  BY <1>2, <1>3 DEF GiveUp
<1>4. ASSUME NEW t \in Tasks, NEW n \in sending[t], EndAttempt(t, n)
      PROVE  CallInv'
  <2>1. UNCHANGED <<items, open>> \/ OpenItem(t)
    BY <1>4 DEF EndAttempt
  <2>2. UNCHANGED <<opVars, overtaken>>
    BY <1>4 DEF EndAttempt
  <2> QED BY <1>2, <2>1, <2>2
<1>5. ASSUME NEW a \in ApiCalls, CommitReplay(a) PROVE CallInv'
  BY <1>5 DEF CommitReplay
<1>6. ASSUME NEW o \in OpCalls, NEW t \in Tasks, CommitRetry(o, t)
      PROVE  CallInv'
  BY <1>6 DEF CommitRetry, Answer
<1>7. ASSUME NEW t \in Tasks,
             \/ Publish(t) \/ DropApiRow(t) \/ RetryRepush(t) \/ LeaseTask(t)
             \/ LeaseExpires(t) \/ ExtendLease(t)
      PROVE  CallInv'
  BY <1>1, <1>7 DEF Publish, DropApiRow, RetryRepush, LeaseTask, LeaseExpires,
                    ExtendLease
<1>8. ASSUME NEW a \in ApiCalls,
             \/ Start(a) \/ SelectItems(a) \/ (\E t \in Tasks : LockTask(a, t))
             \/ AbortReplay(a) \/ FailReplay(a) \/ FailKey(a) \/ ApiCrash(a)
      PROVE  CallInv'
  BY <1>1, <1>8
     DEF Start, FindsNoKey, InsertKey, StartAgain, SelectItems, LockTask,
         AbortReplay, FailReplay, FailKey, ApiCrash
<1>9. ASSUME NEW o \in OpCalls, NEW t \in Tasks, ReadItem(o, t) PROVE CallInv'
  BY <1>9 DEF ReadItem
<1>10. ASSUME NEW o \in OpCalls, NEW t \in Tasks, ReadTask(o, t) PROVE CallInv'
  BY <1>10 DEF ReadTask
<1>11. ASSUME NEW o \in OpCalls, NEW t \in Tasks, UpdateTask(o, t)
       PROVE  CallInv'
  BY <1>11 DEF UpdateTask, Answer
<1>12. ASSUME NEW o \in OpCalls, AbortRetry(o) PROVE CallInv'
  BY <1>12 DEF AbortRetry, Answer
<1>13. CASE FetchExpired \/ UNCHANGED vars
  BY <1>1, <1>13 DEF FetchExpired, vars
<1>14. ASSUME NEW row \in scan, RecoverLease(row) PROVE CallInv'
  <2>1. UNCHANGED <<opVars, overtaken>>
    BY <1>14, RecoverWrites
  <2>2. UNCHANGED <<items, open>> \/ (row.task \in Tasks /\ OpenItem(row.task))
    BY <1>14, RecoverWrites DEF Recovers
  <2> QED BY <1>2, <2>1, <2>2
<1> QED
  BY <1>3, <1>4, <1>5, <1>6, <1>7, <1>8, <1>9, <1>10, <1>11, <1>12, <1>13, <1>14
     DEF Next, Handle, Worker

\* A task once disturbed stays so: the calls that overtook have ended.
LEMMA DisturbedStays ==
  ASSUME TypeOK, CallInv, [Next]_vars, NEW t \in Tasks, Disturbed(t)
  PROVE  Disturbed(t)'
<1> USE DEF TypeOK, CallInv, Disturbed, apiHistory, opVars
<1>1. ASSUME givenUp \subseteq givenUp', overtaken \subseteq overtaken',
             \A o \in overtaken : opTask'[o] = opTask[o]
      PROVE  Disturbed(t)'
  BY <1>1
<1>2. ASSUME NEW u \in Tasks, \/ Publish(u) \/ GiveUp(u) \/ DropApiRow(u)
                                \/ RetryRepush(u) \/ Worker(u)
                                \/ LeaseExpires(u) \/ ExtendLease(u)
      PROVE  Disturbed(t)'
  BY <1>1, <1>2
     DEF Publish, GiveUp, DropApiRow, RetryRepush, Worker, LeaseTask, EndAttempt,
         LeaseExpires, ExtendLease
<1>3. ASSUME NEW a \in ApiCalls, Start(a) \/ Handle(a) \/ FailReplay(a)
                                   \/ ApiCrash(a)
      PROVE  Disturbed(t)'
  BY <1>1, <1>3
     DEF Start, Handle, FindsNoKey, InsertKey, StartAgain, SelectItems,
         LockTask, CommitReplay, AbortReplay, FailReplay, FailKey, ApiCrash
<1>4. ASSUME NEW o \in OpCalls, NEW u \in Tasks,
             \/ ReadItem(o, u) \/ ReadTask(o, u) \/ UpdateTask(o, u)
             \/ CommitRetry(o, u)
      PROVE  Disturbed(t)'
  BY <1>1, <1>4 DEF ReadItem, ReadTask, UpdateTask, CommitRetry
<1>5. ASSUME NEW o \in OpCalls, AbortRetry(o) PROVE Disturbed(t)'
  BY <1>1, <1>5 DEF AbortRetry
<1>6. CASE FetchExpired \/ UNCHANGED vars
  BY <1>1, <1>6 DEF FetchExpired, vars
<1>7. ASSUME NEW row \in scan, RecoverLease(row) PROVE Disturbed(t)'
  BY <1>1, <1>7, RecoverWrites
<1> QED BY <1>2, <1>3, <1>4, <1>5, <1>6, <1>7 DEF Next

\* The worker that sends an undisturbed task holds its lease, or recovery has
\* taken it.
SendInv ==
  \A t \in Tasks :
    /\ 0 \notin sending[t]
    /\ ~Disturbed(t) => \A n \in sending[t] :
         n = lease[t] \/ <<t, n>> \in recovered

TaskInv == TypeOK /\ CallInv /\ SendInv /\ OpenItemIsDead

\* A recover call that writes over a live task, and that nothing overtook,
\* was about an item that is open for it.
LEMMA RetryTakesNoLiveTask ==
  ASSUME TaskInv, NEW o \in OpCalls, NEW t \in Tasks, CommitRetry(o, t),
         ~Disturbed(t)'
  PROVE  /\ task[t] \in Retryable
         /\ t \in open => t \notin open'
<1> USE DEF TaskInv, TypeOK, CallInv, OpenItemIsDead, CommitRetry
<1>1. ~Overtakes(o, t)
  BY DEF Disturbed, opVars
<1>2. opPc[o] = "updated" /\ o \notin overtaken
  OBVIOUS
<1>3. ~Disturbed(t)
  BY <1>1 DEF Disturbed
<1>4. CASE opItem[o] = 0
  BY <1>1, <1>2, <1>4 DEF Overtakes, ClosesOpen
<1>5. CASE opItem[o] # 0
  BY <1>1, <1>3, <1>5 DEF Overtakes, ClosesOpen, Retryable
<1> QED BY <1>4, <1>5

LEMMA NextTaskInv == TaskInv /\ [Next]_vars => TaskInv'
<1> SUFFICES ASSUME TaskInv, [Next]_vars PROVE SendInv' /\ OpenItemIsDead'
  BY NextTypeOK, NextCallInv DEF TaskInv
<1>a. TypeOK /\ CallInv
  BY DEF TaskInv
<1>b. \A t \in Tasks : ~Disturbed(t)' => ~Disturbed(t)
  BY <1>a, DisturbedStays
<1> USE DEF TypeOK, SendInv, OpenItemIsDead, TaskInv, taskVars, dlqVars, jobVars,
        apiVars, opVars
<1>1. ASSUME UNCHANGED <<task, lease, sending, open, recovered>>
      PROVE  SendInv' /\ OpenItemIsDead'
  BY <1>1, <1>b
<1>2. ASSUME NEW t \in Tasks, GiveUp(t) PROVE SendInv' /\ OpenItemIsDead'
  <2>1. Disturbed(t)'
    BY <1>2 DEF GiveUp, Disturbed
  <2>2. \A u \in Tasks \ {t} :
          task'[u] = task[u] /\ lease'[u] = lease[u] /\ (u \in open' => u \in open)
    BY <1>2 DEF GiveUp, Free, OpenItem
  <2>3. sending' = sending /\ recovered' = recovered
    BY <1>2 DEF GiveUp
  <2>4. SendInv'
    BY <1>b, <2>1, <2>2, <2>3
  <2>5. OpenItemIsDead'
    <3> SUFFICES ASSUME NEW u \in open', ~Disturbed(u)'
                 PROVE  task'[u] = "dead_lettered"
      OBVIOUS
    <3>1. u \in Tasks
      BY <1>2 DEF GiveUp, OpenItem
    <3>2. u # t
      BY <2>1
    <3> QED BY <1>b, <2>2, <3>1, <3>2
  <2> QED BY <2>4, <2>5
<1>3. ASSUME NEW t \in Tasks, LeaseTask(t) PROVE SendInv' /\ OpenItemIsDead'
  BY <1>3, <1>b DEF LeaseTask
<1>4. ASSUME NEW t \in Tasks, NEW n \in sending[t], EndAttempt(t, n)
      PROVE  SendInv' /\ OpenItemIsDead'
  <2>a. /\ sending' = [sending EXCEPT ![t] = @ \ {n}]
        /\ recovered' = recovered \ {<<t, n>>}
    BY <1>4 DEF EndAttempt
  <2>1. CASE lease[t] # n
    <3>1. UNCHANGED <<task, lease, open>>
      BY <1>4, <2>1 DEF EndAttempt, dlqVars
    <3>2. \A u \in Tasks : \A k \in sending'[u] :
            k \in sending[u] /\ <<u, k>> # <<t, n>>
      BY <2>a
    <3> QED BY <1>b, <2>a, <3>1, <3>2
  <2>2. CASE lease[t] = n
    <3>1. task[t] = "sending"
      BY <2>2
    <3>2. PICK s \in Outcomes(t, n) :
            /\ task' = [task EXCEPT ![t] = s]
            /\ Free({t})
            /\ IF s = "dead_lettered"
                 THEN OpenItem(t) ELSE UNCHANGED <<items, open>>
      BY <1>4, <2>2 DEF EndAttempt
    <3>3. \A u \in Tasks : \A k \in sending'[u] :
            k \in sending[u] /\ <<u, k>> # <<t, n>> /\ (u = t => k # lease[t])
      BY <2>2, <2>a
    <3>a. \A u \in Tasks \ {t} : lease'[u] = lease[u]
      BY <3>2 DEF Free
    <3>4. SendInv'
      BY <1>b, <2>2, <2>a, <3>2, <3>3, <3>a
    <3>5. CASE s = "dead_lettered"
      BY <1>b, <3>2, <3>4, <3>5 DEF OpenItem
    <3>6. CASE s # "dead_lettered"
      BY <1>b, <3>1, <3>2, <3>4, <3>6
    <3> QED BY <3>5, <3>6
  <2> QED BY <2>1, <2>2
<1>5. ASSUME NEW a \in ApiCalls, CommitReplay(a)
      PROVE  SendInv' /\ OpenItemIsDead'
  <2>1. \A t \in Replayed(a) : task[t] = "dead_lettered" /\ lease[t] = 0
    BY DEF Replayed
  <2>2. /\ \A t \in Tasks : lease'[t] = IF t \in Replayed(a) THEN 0 ELSE lease[t]
        /\ UNCHANGED <<sending, recovered>>
    BY <1>5 DEF CommitReplay, Free, jobVars
  <2>3. SendInv'
    BY <1>b, <2>1, <2>2
  <2> QED BY <1>5, <1>b, <2>1, <2>3 DEF CommitReplay
<1>6. ASSUME NEW o \in OpCalls, NEW t \in Tasks, CommitRetry(o, t)
      PROVE  SendInv' /\ OpenItemIsDead'
  <2>1. ~Disturbed(t)' => lease[t] = 0 /\ t \notin open'
    BY <1>6, RetryTakesNoLiveTask DEF Retryable, CommitRetry
  <2>2. /\ task' = [task EXCEPT ![t] = "retry_scheduled"]
        /\ lease' = [lease EXCEPT ![t] = 0]
        /\ open' \in {open, open \ {t}}
        /\ sending' = sending /\ recovered' = recovered
    BY <1>6 DEF CommitRetry, Free
  <2> QED BY <1>b, <2>1, <2>2
<1>7. ASSUME NEW t \in Tasks, Publish(t) \/ DropApiRow(t) \/ RetryRepush(t)
               \/ LeaseExpires(t) \/ ExtendLease(t)
      PROVE  SendInv' /\ OpenItemIsDead'
  BY <1>1, <1>7 DEF Publish, DropApiRow, RetryRepush, LeaseExpires, ExtendLease
<1>8. ASSUME NEW a \in ApiCalls,
             \/ Start(a) \/ SelectItems(a) \/ (\E t \in Tasks : LockTask(a, t))
             \/ AbortReplay(a) \/ FailReplay(a) \/ FailKey(a) \/ ApiCrash(a)
      PROVE  SendInv' /\ OpenItemIsDead'
  BY <1>1, <1>8
     DEF Start, FindsNoKey, InsertKey, StartAgain, SelectItems, LockTask,
         AbortReplay, FailReplay, FailKey, ApiCrash
<1>9. ASSUME NEW o \in OpCalls,
             \/ \E t \in Tasks : ReadItem(o, t) \/ ReadTask(o, t) \/ UpdateTask(o, t)
             \/ AbortRetry(o)
      PROVE  SendInv' /\ OpenItemIsDead'
  BY <1>1, <1>9 DEF ReadItem, ReadTask, UpdateTask, AbortRetry
<1>10. CASE FetchExpired \/ UNCHANGED vars
  BY <1>1, <1>10 DEF FetchExpired, vars
<1>11. ASSUME NEW row \in scan, RecoverLease(row)
       PROVE  SendInv' /\ OpenItemIsDead'
  <2>1. sending' = sending
    BY <1>11, RecoverWrites
  <2>2. CASE UNCHANGED <<task, lease, expired, recovered, items, open, dead>>
    BY <1>1, <2>1, <2>2
  <2>3. CASE Recovers(row.task)
    <3> DEFINE t == row.task
    <3>1. /\ t \in Tasks /\ task[t] = "sending"
          /\ recovered' = recovered \cup {<<t, lease[t]>>}
          /\ \A u \in Tasks \ {t} : lease'[u] = lease[u]
      BY <2>3 DEF Recovers, Free
    <3>2. SendInv'
      BY <1>b, <2>1, <3>1
    <3>3. OpenItemIsDead'
      BY <1>b, <2>3 DEF Recovers, OpenItem
    <3> QED BY <3>2, <3>3
  <2> QED BY <1>11, <2>2, <2>3, RecoverWrites
<1> QED
  BY <1>2, <1>3, <1>4, <1>5, <1>6, <1>7, <1>8, <1>9, <1>10, <1>11
     DEF Next, Handle, Worker

LEMMA TaskInvHolds == Spec => []TaskInv
<1>1. Init => TaskInv
  BY InitTypeOK
     DEF Init, TaskInv, CallInv, SendInv, OpenItemIsDead, Disturbed
<1> QED BY <1>1, NextTaskInv, PTL DEF Spec

\* The open items and the tasks that wait for an operator are the same, but
\* for what was disturbed.
THEOREM ItemsMatchTasksHolds == Spec => []ItemsMatchTasks
<1>1. TaskInv /\ DeadLetteredHasItem => ItemsMatchTasks
  BY DEF TaskInv, ItemsMatchTasks
<1> QED BY <1>1, TaskInvHolds, DeadLetteredHasItemHolds, PTL

\* Replaying takes no lease from a worker that is sending, and recovery only
\* one that has run out.
THEOREM OneSendHolds == Spec => []OneSendAtATime
<1>1. ASSUME TaskInv PROVE OneSendAtATime
  <2> SUFFICES ASSUME NEW t \in Tasks, ~Disturbed(t)
               PROVE  Cardinality({n \in sending[t] : <<t, n>> \notin recovered})
                        <= 1
    BY DEF OneSendAtATime
  <2> DEFINE holders == {n \in sending[t] : <<t, n>> \notin recovered}
  <2>1. \A n \in holders : n = lease[t]
    BY <1>1 DEF TaskInv, SendInv
  <2>2. holders = {} \/ holders = {lease[t]}
    BY <2>1
  <2> SUFFICES Cardinality(holders) <= 1
    OBVIOUS
  <2> HIDE DEF holders
  <2>3. Cardinality(holders) = 0 \/ Cardinality(holders) = 1
    BY <2>2, FS_EmptySet, FS_Singleton
  <2> QED BY <2>3
<1> QED BY <1>1, TaskInvHolds, PTL

\* Operators have no delivered message sent again.
THEOREM DeliveredStaysHolds == Spec => DeliveredStays
<1>1. ASSUME TaskInv, [Next]_vars
      PROVE  \A t \in Tasks : task[t] = "succeeded" =>
               task'[t] = "succeeded" \/ Disturbed(t)'
  <2> SUFFICES ASSUME NEW t \in Tasks, task[t] = "succeeded",
                      task'[t] # "succeeded"
               PROVE  Disturbed(t)'
    OBVIOUS
  <2> USE DEF TaskInv, TypeOK, taskVars
  <2>1. ASSUME task' = task PROVE FALSE
    BY <2>1
  <2>2. ASSUME NEW u \in Tasks, \/ Publish(u) \/ DropApiRow(u) \/ RetryRepush(u)
                                  \/ LeaseExpires(u) \/ ExtendLease(u)
        PROVE  FALSE
    BY <2>1, <2>2 DEF Publish, DropApiRow, RetryRepush, LeaseExpires, ExtendLease
  <2>3. ASSUME NEW u \in Tasks, GiveUp(u) \/ LeaseTask(u) PROVE FALSE
    <3>1. CASE LeaseTask(u)
      <4>1. \/ task' = task
            \/ /\ task' = [task EXCEPT ![u] = "sending"]
               /\ task[u] \in {"queued", "retry_scheduled"}
        BY <3>1 DEF LeaseTask
      <4> QED BY <1>1, <2>1, <4>1
    <3>2. CASE GiveUp(u) /\ task[u] \in Terminal
      BY <2>1, <3>2 DEF GiveUp
    <3>3. CASE GiveUp(u) /\ task[u] \notin Terminal
      <4>1. task' = [task EXCEPT ![u] = "dead_lettered"]
        BY <3>3 DEF GiveUp
      <4>2. u # t
        BY <3>3 DEF Terminal
      <4> QED BY <4>1, <4>2
    <3> QED BY <2>3, <3>1, <3>2, <3>3
  <2>4. ASSUME NEW u \in Tasks, NEW n \in sending[u], EndAttempt(u, n)
        PROVE  FALSE
    <3>1. lease[u] = n => task[u] = "sending"
      BY <1>1 DEF SendInv
    <3> QED BY <1>1, <2>4, <3>1 DEF EndAttempt
  <2>5. ASSUME NEW a \in ApiCalls, CommitReplay(a) PROVE FALSE
    BY <2>5 DEF CommitReplay, Replayed
  <2>6. ASSUME NEW o \in OpCalls, NEW u \in Tasks, CommitRetry(o, u)
        PROVE  Disturbed(t)'
    <3>1. u = t
      BY <1>1, <2>6 DEF CommitRetry
    <3>2. task[t] \notin Retryable
      BY DEF Retryable
    <3> QED BY <1>1, <2>6, <3>1, <3>2, RetryTakesNoLiveTask
  <2>7. ASSUME NEW a \in ApiCalls,
               \/ Start(a) \/ SelectItems(a)
               \/ (\E u \in Tasks : LockTask(a, u))
               \/ AbortReplay(a) \/ FailReplay(a) \/ FailKey(a) \/ ApiCrash(a)
        PROVE  FALSE
    BY <2>1, <2>7
       DEF Start, FindsNoKey, InsertKey, StartAgain, SelectItems, LockTask,
           AbortReplay, FailReplay, FailKey, ApiCrash
  <2>8. ASSUME NEW o \in OpCalls,
               \/ \E u \in Tasks : ReadItem(o, u) \/ ReadTask(o, u) \/ UpdateTask(o, u)
               \/ AbortRetry(o)
        PROVE  FALSE
    BY <2>1, <2>8 DEF ReadItem, ReadTask, UpdateTask, AbortRetry
  <2>9. CASE FetchExpired \/ UNCHANGED vars
    BY <2>1, <2>9 DEF FetchExpired, vars
  <2>10. ASSUME NEW row \in scan, RecoverLease(row) PROVE FALSE
    BY <1>1, <2>1, <2>10, RecoverWrites DEF Recovers
  <2> QED
    BY <1>1, <2>2, <2>3, <2>4, <2>5, <2>6, <2>7, <2>8, <2>9, <2>10
       DEF Next, Handle, Worker
<1>2. TaskInv /\ [Next]_vars
        => [\A t \in Tasks : task[t] = "succeeded" =>
              task'[t] = "succeeded" \/ Disturbed(t)']_vars
  BY <1>1
<1> QED BY <1>2, TaskInvHolds, PTL DEF Spec, DeliveredStays

-----------------------------------------------------------------------------
(* Counting dead letters *)

DeadLetters == {t \in Tasks : task[t] = "dead_lettered"}

LEMMA DeadLettersFinite ==
  TypeOK => IsFiniteSet(DeadLetters) /\ IsFiniteSet(overtaken)
              /\ Cardinality(DeadLetters) \in Nat
              /\ Cardinality(overtaken) \in Nat
<1> SUFFICES ASSUME TypeOK
             PROVE  IsFiniteSet(DeadLetters) /\ IsFiniteSet(overtaken)
  BY FS_CardinalityType
<1>1. DeadLetters \subseteq Tasks /\ overtaken \subseteq OpCalls
  BY DEF DeadLetters, TypeOK
<1> QED BY <1>1, ReplayAssumption, FS_Subset DEF ReplayAssumption

\* Fewer dead letters, and no less counted.
LEMMA FewerDeadLetters ==
  ASSUME TypeOK, TypeOK', DeadLettersCounted,
         DeadLetters' \subseteq DeadLetters, dead' >= dead,
         overtaken' = overtaken
  PROVE  DeadLettersCounted'
<1>1. Cardinality(DeadLetters') <= Cardinality(DeadLetters)
  BY DeadLettersFinite, FS_Subset
<1>2. Cardinality(DeadLetters') \in Nat
  BY DeadLettersFinite, FS_Subset, FS_CardinalityType
<1> QED
  BY <1>1, <1>2, DeadLettersFinite DEF DeadLettersCounted, DeadLetters, TypeOK

\* One more, and one more counted.
LEMMA OneMoreDeadLetter ==
  ASSUME TypeOK, TypeOK', DeadLettersCounted, NEW t \in Tasks,
         DeadLetters' \subseteq DeadLetters \cup {t}, dead' = dead + 1,
         overtaken' = overtaken
  PROVE  DeadLettersCounted'
<1>1. /\ IsFiniteSet(DeadLetters \cup {t})
      /\ Cardinality(DeadLetters \cup {t}) <= Cardinality(DeadLetters) + 1
  BY DeadLettersFinite, FS_AddElement
<1>2. Cardinality(DeadLetters') <= Cardinality(DeadLetters \cup {t})
  BY <1>1, FS_Subset
<1>3. /\ Cardinality(DeadLetters') \in Nat
      /\ Cardinality(DeadLetters \cup {t}) \in Nat
  BY <1>1, FS_Subset, FS_CardinalityType
<1> QED
  BY <1>1, <1>2, <1>3, DeadLettersFinite
     DEF DeadLettersCounted, DeadLetters, TypeOK

LEMMA BoundMoves ==
  ASSUME NEW c \in Nat, NEW d \in Nat, NEW k \in Nat,
         NEW cc \in Nat, NEW dd \in Nat, NEW kk \in Nat,
         c <= d + k, cc <= c, dd + 1 >= d, kk = k + 1
  PROVE  cc <= dd + kk
  OBVIOUS

LEMMA NextDeadLettersCounted ==
  TaskInv /\ DeadLettersCounted /\ [Next]_vars => DeadLettersCounted'
<1> SUFFICES ASSUME TaskInv, DeadLettersCounted, [Next]_vars
             PROVE  DeadLettersCounted'
  OBVIOUS
<1>a. TypeOK /\ TypeOK'
  BY NextTypeOK DEF TaskInv
<1> USE DEF TaskInv, TypeOK, taskVars, dlqVars, jobVars, apiHistory
<1>1. ASSUME DeadLetters' \subseteq DeadLetters, dead' = dead,
             overtaken' = overtaken
      PROVE  DeadLettersCounted'
  <2>1. dead' >= dead
    BY <1>a, <1>1
  <2> QED BY <1>a, <1>1, <2>1, FewerDeadLetters
<1>2. ASSUME UNCHANGED <<task, dead, overtaken>> PROVE DeadLettersCounted'
  BY <1>1, <1>2 DEF DeadLetters
<1>3. ASSUME NEW t \in Tasks, GiveUp(t) PROVE DeadLettersCounted'
  <2>1. CASE task[t] \in Terminal
    BY <1>2, <1>3, <2>1 DEF GiveUp
  <2>2. CASE task[t] \notin Terminal
    <3>1. /\ task' = [task EXCEPT ![t] = "dead_lettered"]
          /\ dead' = dead + 1 /\ overtaken' = overtaken
      BY <1>3, <2>2 DEF GiveUp
    <3>2. DeadLetters' \subseteq DeadLetters \cup {t}
      BY <1>a, <3>1 DEF DeadLetters
    <3> QED BY <1>a, <3>1, <3>2, OneMoreDeadLetter
  <2> QED BY <2>1, <2>2
<1>4. ASSUME NEW t \in Tasks, LeaseTask(t) PROVE DeadLettersCounted'
  <2>1. DeadLetters' \subseteq DeadLetters
    <3>1. \/ task' = task
          \/ task' = [task EXCEPT ![t] = "sending"]
      BY <1>4 DEF LeaseTask
    <3> QED BY <1>a, <3>1 DEF DeadLetters
  <2> QED BY <1>1, <1>4, <2>1 DEF LeaseTask
<1>5. ASSUME NEW t \in Tasks, NEW n \in sending[t], EndAttempt(t, n)
      PROVE  DeadLettersCounted'
  <2>1. overtaken' = overtaken
    BY <1>5 DEF EndAttempt
  <2>2. CASE lease[t] # n
    BY <1>2, <1>5, <2>2 DEF EndAttempt
  <2>3. CASE lease[t] = n
    <3>1. PICK s \in Outcomes(t, n) :
            task' = [task EXCEPT ![t] = s] /\ dead' = Counted(s)
      BY <1>5, <2>3 DEF EndAttempt
    <3>2. CASE s = "dead_lettered"
      <4>1. dead' = dead + 1
        BY <3>1, <3>2 DEF Counted
      <4>2. DeadLetters' \subseteq DeadLetters \cup {t}
        BY <1>a, <3>1 DEF DeadLetters
      <4> QED BY <1>a, <2>1, <4>1, <4>2, OneMoreDeadLetter
    <3>3. CASE s # "dead_lettered"
      <4>1. dead' = dead
        BY <3>1, <3>3 DEF Counted
      <4>2. DeadLetters' \subseteq DeadLetters
        BY <1>a, <3>1, <3>3 DEF DeadLetters
      <4> QED BY <1>1, <2>1, <4>1, <4>2
    <3> QED BY <3>2, <3>3
  <2> QED BY <2>2, <2>3
<1>6. ASSUME NEW a \in ApiCalls, CommitReplay(a) PROVE DeadLettersCounted'
  <2>1. DeadLetters' \subseteq DeadLetters
    <3>1. task' = [t \in Tasks |-> IF t \in Replayed(a) THEN "queued" ELSE task[t]]
      BY <1>6 DEF CommitReplay
    <3> QED BY <1>a, <3>1 DEF DeadLetters
  <2> QED BY <1>1, <1>6, <2>1 DEF CommitReplay
<1>7. ASSUME NEW o \in OpCalls, NEW t \in Tasks, CommitRetry(o, t)
      PROVE  DeadLettersCounted'
  <2>1. /\ task' = [task EXCEPT ![t] = "retry_scheduled"]
        /\ dead' = Rebalanced(o)
        /\ overtaken' = IF Overtakes(o, t) THEN overtaken \cup {o} ELSE overtaken
        /\ opPc[o] = "updated"
    BY <1>7 DEF CommitRetry
  <2>2. DeadLetters' = DeadLetters \ {t}
    BY <1>a, <2>1 DEF DeadLetters
  <2>3. o \notin overtaken
    BY <2>1 DEF CallInv
  <2>4. dead' \in Nat /\ dead' + 1 >= dead
    BY <1>a, <2>1 DEF Rebalanced
  <2>5. /\ IsFiniteSet(DeadLetters) /\ IsFiniteSet(overtaken)
        /\ Cardinality(DeadLetters) \in Nat /\ Cardinality(overtaken) \in Nat
        /\ Cardinality(DeadLetters') \in Nat
    BY <1>a, <2>2, DeadLettersFinite, FS_RemoveElement, FS_CardinalityType
  <2>6. Cardinality(DeadLetters') <= Cardinality(DeadLetters)
    BY <2>2, <2>5, FS_Subset
  <2>7. CASE Overtakes(o, t)
    <3>1. Cardinality(overtaken') = Cardinality(overtaken) + 1
      BY <2>1, <2>3, <2>5, <2>7, FS_AddElement
    <3>2. Cardinality(DeadLetters) <= dead + Cardinality(overtaken)
      BY DEF DeadLettersCounted, DeadLetters
    <3>3. dead \in Nat
      BY <1>a
    <3>4. Cardinality(overtaken') \in Nat
      BY <2>5, <3>1
    <3>5. Cardinality(DeadLetters') <= dead' + Cardinality(overtaken')
      BY <2>4, <2>5, <2>6, <3>1, <3>2, <3>3, <3>4, BoundMoves
    <3> QED BY <3>5 DEF DeadLettersCounted, DeadLetters
  <2>8. CASE ~Overtakes(o, t) /\ opSeen[o] = "dead_lettered"
    <3>1. t \in DeadLetters
      BY <2>8 DEF Overtakes, DeadLetters
    <3>2. Cardinality(DeadLetters') = Cardinality(DeadLetters) - 1
      BY <2>2, <2>5, <3>1, FS_RemoveElement
    <3>3. overtaken' = overtaken
      BY <2>1, <2>8
    <3> QED
      BY <1>a, <2>4, <2>5, <3>2, <3>3 DEF DeadLettersCounted, DeadLetters
  <2>9. CASE ~Overtakes(o, t) /\ opSeen[o] # "dead_lettered"
    BY <1>1, <2>1, <2>2, <2>9 DEF Rebalanced
  <2> QED BY <2>7, <2>8, <2>9
<1>8. ASSUME NEW t \in Tasks, Publish(t) \/ DropApiRow(t) \/ RetryRepush(t)
               \/ LeaseExpires(t) \/ ExtendLease(t)
      PROVE  DeadLettersCounted'
  BY <1>2, <1>8 DEF Publish, DropApiRow, RetryRepush, LeaseExpires, ExtendLease
<1>9. ASSUME NEW a \in ApiCalls,
             \/ Start(a) \/ SelectItems(a) \/ (\E t \in Tasks : LockTask(a, t))
             \/ AbortReplay(a) \/ FailReplay(a) \/ FailKey(a) \/ ApiCrash(a)
      PROVE  DeadLettersCounted'
  BY <1>2, <1>9
     DEF Start, FindsNoKey, InsertKey, StartAgain, SelectItems, LockTask,
         AbortReplay, FailReplay, FailKey, ApiCrash
<1>10. ASSUME NEW o \in OpCalls,
              \/ \E t \in Tasks : ReadItem(o, t) \/ ReadTask(o, t) \/ UpdateTask(o, t)
              \/ AbortRetry(o)
       PROVE  DeadLettersCounted'
  BY <1>2, <1>10 DEF ReadItem, ReadTask, UpdateTask, AbortRetry
<1>11. CASE FetchExpired \/ UNCHANGED vars
  BY <1>2, <1>11 DEF FetchExpired, vars
<1>12. ASSUME NEW row \in scan, RecoverLease(row) PROVE DeadLettersCounted'
  <2>1. overtaken' = overtaken
    BY <1>12, RecoverWrites
  <2>2. CASE UNCHANGED <<task, lease, expired, recovered, items, open, dead>>
    BY <1>2, <2>1, <2>2
  <2>3. CASE Recovers(row.task)
    <3> DEFINE t == row.task
    <3>1. t \in Tasks
      BY <2>3 DEF Recovers
    <3>2. CASE task' = [task EXCEPT ![t] = "dead_lettered"] /\ dead' = dead + 1
      <4>1. DeadLetters' \subseteq DeadLetters \cup {t}
        BY <1>a, <3>2 DEF DeadLetters
      <4> QED BY <1>a, <2>1, <3>1, <3>2, <4>1, OneMoreDeadLetter
    <3>3. CASE task' = [task EXCEPT ![t] = "retry_scheduled"] /\ dead' = dead
      <4>1. DeadLetters' \subseteq DeadLetters
        BY <1>a, <3>3 DEF DeadLetters
      <4> QED BY <1>1, <2>1, <3>3, <4>1
    <3> QED BY <2>3, <3>2, <3>3 DEF Recovers
  <2> QED BY <1>12, <2>2, <2>3, RecoverWrites
<1> QED
  BY <1>3, <1>4, <1>5, <1>6, <1>7, <1>8, <1>9, <1>10, <1>11, <1>12
     DEF Next, Handle, Worker

\* campaign_stats misses at most one dead letter per overtaken recover call.
THEOREM DeadLettersCountedHolds == Spec => []DeadLettersCounted
<1>1. Init => DeadLettersCounted
  <2> SUFFICES ASSUME Init PROVE DeadLettersCounted
    OBVIOUS
  <2>1. {t \in Tasks : task[t] = "dead_lettered"} = {} /\ dead = 0 /\ overtaken = {}
    BY DEF Init
  <2> QED BY <2>1, FS_EmptySet DEF DeadLettersCounted
<1>2. TaskInv /\ TaskInv' /\ DeadLettersCounted /\ [Next]_vars
        => DeadLettersCounted'
  BY NextDeadLettersCounted
<1> QED BY <1>1, <1>2, TaskInvHolds, PTL DEF Spec
=============================================================================
