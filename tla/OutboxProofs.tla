---------------------------- MODULE OutboxProofs ----------------------------
(***************************************************************************)
(* Proofs about the outbox, for every set of rows and relays and every     *)
(* value of the bounds.                                                    *)
(*                                                                         *)
(* What a relay does to a row depends on what it remembers of its batch,   *)
(* not on the row: BatchInv says that its memory is never wrong about the  *)
(* past, although it may be wrong about the present.                       *)
(***************************************************************************)
EXTENDS Outbox, FiniteSetTheorems, TLAPS

\* What a relay counts as published was accepted by the broker, and no claim
\* it remembers is newer than the row.
BatchInv ==
  \A p \in Publishers :
    /\ publisher[p].pc = "marking" => publisher[p].row \in Rows
    /\ publisher[p].done \subseteq sent
    /\ \A r \in Rows : publisher[p].todo[r] <= attemptCount[r]

\* A task that is queued has not been leased.
QueuedIsFresh == \A r \in TaskRows : task[r] = "queued" => taskAttempts[r] = 0

IInv == TypeOK /\ BatchInv /\ NoSignalLost /\ QueuedIsFresh /\ StatsInv

\* The tasks that wait are those that are queued and those to be retried.
LEMMA WaitingCounted ==
  ASSUME IsFiniteSet(Having("queued")), IsFiniteSet(Having("retry_scheduled"))
  PROVE  Cardinality(Waiting)
           = Cardinality(Having("queued")) + Cardinality(Having("retry_scheduled"))
<1>1. Cardinality(Having("queued") \cap Having("retry_scheduled")) = 0
  <2>1. Having("queued") \cap Having("retry_scheduled") = {}
    BY DEF Having
  <2>2. QED
    BY <2>1, FS_EmptySet
<1>2. Cardinality(Waiting)
        = Cardinality(Having("queued")) + Cardinality(Having("retry_scheduled"))
            - Cardinality(Having("queued") \cap Having("retry_scheduled"))
  BY FS_Union DEF Waiting
<1>3. QED
  BY <1>1, <1>2, FS_CardinalityType

LEMMA InitIInv == Init => IInv
<1> SUFFICES ASSUME Init PROVE IInv
  OBVIOUS
<1> USE OutboxAssumption
<1>1. \A q \in TaskStatus : /\ IsFiniteSet(Having(q))
                            /\ Cardinality(Having(q)) \in Nat
  BY FS_Subset, FS_CardinalityType DEF Having
<1>2. Idle \in Publisher
  BY DEF Idle, Publisher
<1>3. TypeOK
  <2>1. PICK start \in Starts :
          /\ rowStatus = [r \in Rows |-> IF start[r] = "stored" THEN "pending"
                                        ELSE "gone"]
          /\ sent = {r \in Rows : start[r] # "stored"}
          /\ signals = {r \in TaskRows : start[r] = "sent"}
          /\ task = [r \in TaskRows |-> IF start[r] = "ended" THEN "succeeded"
                                        ELSE "queued"]
          /\ taskAttempts = [r \in TaskRows |-> IF start[r] = "ended" THEN 1
                                                ELSE 0]
    BY DEF Init
  <2>2. rowStatus \in [Rows -> RowStatus]
    BY <2>1 DEF RowStatus
  <2>3. task \in [TaskRows -> TaskStatus] /\ taskAttempts \in [TaskRows -> Nat]
    BY <2>1 DEF TaskStatus
  <2>4. sent \in SUBSET Rows /\ signals \in SUBSET TaskRows
    BY <2>1
  <2>5. stats \in [TaskStatus -> Int]
    BY <1>1 DEF Init
  <2>6. QED
    BY <1>2, <2>2, <2>3, <2>4, <2>5 DEF Init, TypeOK, Lock
<1>4. BatchInv
  BY DEF Init, BatchInv, Idle
<1>5. NoSignalLost
  BY DEF Init, NoSignalLost, Rows
<1>6. QueuedIsFresh
  BY DEF Init, QueuedIsFresh
<1>7. \A q \in TaskStatus : stats[q] = Cardinality(Having(q))
  BY DEF Init
<1>8. StatsInv
  <2>1. Cardinality(Waiting)
          = Cardinality(Having("queued")) + Cardinality(Having("retry_scheduled"))
    BY <1>1, WaitingCounted DEF TaskStatus
  <2>2. QED
    BY <1>1, <1>7, <2>1
       DEF StatsInv, CountedExactly, NoneCountedShort, WaitingExact, TaskStatus
<1>9. QED
  BY <1>3, <1>4, <1>5, <1>6, <1>8 DEF IInv

-----------------------------------------------------------------------------
(* Every step preserves TypeOK.                                            *)

LEMMA RelayType ==
  ASSUME IInv, NEW p \in Publishers, Relay(p) \/ AbandonBatch(p)
  PROVE  TypeOK'
<1> USE DEF IInv, TypeOK, rowVars, taskVars
<1>a. Idle \in Publisher
  BY DEF Idle, Publisher
<1>b. publisher[p] \in Publisher
  OBVIOUS
<1>1. CASE RecoverStaleOwn(p)
  <2>1. /\ rowStatus' \in [Rows -> RowStatus]
        /\ lockedBy' \in [Rows -> Publishers \cup {Nobody}]
        /\ lock' \in [Rows -> Lock]
    BY <1>1 DEF RecoverStaleOwn, RowStatus, Lock
  <2>2. QED
    BY <1>1, <2>1 DEF RecoverStaleOwn
<1>2. CASE Claim(p)
  <2>1. /\ rowStatus' \in [Rows -> RowStatus]
        /\ lockedBy' \in [Rows -> Publishers \cup {Nobody}]
        /\ lock' \in [Rows -> Lock]
        /\ attemptCount' \in [Rows -> Nat]
    BY <1>2 DEF Claim, RowStatus, Lock
  <2>2. PICK todo \in [Rows -> Nat] :
          publisher' = [publisher EXCEPT ![p] =
                          [pc |-> "publishing", todo |-> todo,
                           done |-> {}, row |-> Nobody]]
    <3>1. PICK batch \in SUBSET Rows :
            publisher' = [publisher EXCEPT ![p] =
              [pc |-> "publishing",
               todo |-> [r \in Rows |-> IF r \in batch THEN attemptCount[r] + 1
                                        ELSE 0],
               done |-> {}, row |-> Nobody]]
      BY <1>2 DEF Claim
    <3>2. [r \in Rows |-> IF r \in batch THEN attemptCount[r] + 1 ELSE 0]
            \in [Rows -> Nat]
      OBVIOUS
    <3>3. QED
      BY <3>1, <3>2
  <2>3. [pc |-> "publishing", todo |-> todo, done |-> {}, row |-> Nobody]
          \in Publisher
    BY DEF Publisher
  <2>4. publisher' \in [Publishers -> Publisher]
    BY <2>2, <2>3
  <2>5. QED
    BY <1>2, <2>1, <2>4 DEF Claim
<1>3. CASE MarkFailure(p)
  <2>1. publisher[p].row \in Rows
    BY <1>3 DEF MarkFailure, BatchInv
  <2>2. PICK r \in Rows : r = publisher[p].row
    BY <2>1
  <2>3. AfterFailure(r, publisher[p].todo[r]) \in RowStatus
    BY DEF AfterFailure, RowStatus
  <2>4. rowStatus' \in [Rows -> RowStatus]
    BY <1>3, <2>2, <2>3 DEF MarkFailure
  <2>5. /\ lockedBy' \in [Rows -> Publishers \cup {Nobody}]
        /\ lock' \in [Rows -> Lock]
        /\ due' \in [Rows -> BOOLEAN]
    BY <1>3, <2>2 DEF MarkFailure, Lock
  <2>6. publisher' = [publisher EXCEPT ![p] =
                        [pc |-> "publishing",
                         todo |-> [publisher[p].todo EXCEPT ![r] = 0],
                         done |-> publisher[p].done, row |-> Nobody]]
    BY <1>3, <2>2 DEF MarkFailure
  <2>7. [pc |-> "publishing", todo |-> [publisher[p].todo EXCEPT ![r] = 0],
         done |-> publisher[p].done, row |-> Nobody] \in Publisher
    BY <1>b DEF Publisher
  <2>8. publisher' \in [Publishers -> Publisher]
    BY <2>6, <2>7
  <2>9. QED
    BY <1>3, <2>4, <2>5, <2>8 DEF MarkFailure
<1>4. CASE DeleteBatch(p)
  <2>1. rowStatus' \in [Rows -> RowStatus]
    BY <1>4 DEF DeleteBatch, RowStatus
  <2>2. publisher' \in [Publishers -> Publisher]
    BY <1>a, <1>4 DEF DeleteBatch
  <2>3. QED
    BY <1>4, <2>1, <2>2 DEF DeleteBatch
<1>5. ASSUME NEW r \in Rows, PublishConfirmed(p, r)
      PROVE  TypeOK'
  <2>1. publisher' = [publisher EXCEPT ![p] =
                        [pc |-> "publishing",
                         todo |-> [publisher[p].todo EXCEPT ![r] = 0],
                         done |-> publisher[p].done \cup {r},
                         row |-> Nobody]]
    BY <1>5 DEF PublishConfirmed
  <2>2. [pc |-> "publishing", todo |-> [publisher[p].todo EXCEPT ![r] = 0],
         done |-> publisher[p].done \cup {r}, row |-> Nobody] \in Publisher
    BY <1>b DEF Publisher
  <2>3. publisher' \in [Publishers -> Publisher]
    BY <2>1, <2>2
  <2>4. QED
    BY <1>5, <2>3 DEF PublishConfirmed, Accept
<1>6. ASSUME NEW r \in Rows, PublishFails(p, r)
      PROVE  TypeOK'
  <2>1. publisher' = [publisher EXCEPT ![p] =
                        [pc |-> "marking", todo |-> publisher[p].todo,
                         done |-> publisher[p].done, row |-> r]]
    BY <1>6 DEF PublishFails
  <2>2. [pc |-> "marking", todo |-> publisher[p].todo,
         done |-> publisher[p].done, row |-> r] \in Publisher
    BY <1>b DEF Publisher
  <2>3. publisher' \in [Publishers -> Publisher]
    BY <2>1, <2>2
  <2>4. QED
    BY <1>6, <2>3 DEF PublishFails, Accept
<1>7. CASE AbandonBatch(p)
  <2>1. publisher' \in [Publishers -> Publisher]
    BY <1>a, <1>7 DEF AbandonBatch
  <2>2. QED
    BY <1>7, <2>1, OutboxAssumption DEF AbandonBatch
<1>8. QED
  BY <1>1, <1>2, <1>3, <1>4, <1>5, <1>6, <1>7 DEF Relay

LEMMA JobType ==
  ASSUME IInv,
         \/ ResetStuck
         \/ FetchFailed
         \/ ScanFails
         \/ \E r \in Rows : BecomesDue(r) \/ LockExpires(r)
         \/ \E r \in RunRows : DropFailedRun(r)
  PROVE  TypeOK'
<1> USE DEF IInv, TypeOK, rowVars, taskVars
<1>1. CASE ResetStuck
  <2>1. /\ rowStatus' \in [Rows -> RowStatus]
        /\ lockedBy' \in [Rows -> Publishers \cup {Nobody}]
        /\ lock' \in [Rows -> Lock]
    BY <1>1 DEF ResetStuck, RowStatus, Lock
  <2>2. attemptCount' \in [Rows -> Nat]
    BY <1>1 DEF ResetStuck
  <2>3. due' \in [Rows -> BOOLEAN]
    BY <1>1, Zenon DEF ResetStuck
  <2>4. QED
    BY <1>1, <2>1, <2>2, <2>3 DEF ResetStuck
<1>2. CASE FetchFailed
  BY <1>2 DEF FetchFailed
<1>3. CASE ScanFails
  BY <1>3, OutboxAssumption DEF ScanFails
<1>4. ASSUME NEW r \in Rows, BecomesDue(r)
      PROVE  TypeOK'
  BY <1>4 DEF BecomesDue
<1>5. ASSUME NEW r \in Rows, LockExpires(r)
      PROVE  TypeOK'
  BY <1>5, OutboxAssumption DEF LockExpires, Lock
<1>6. ASSUME NEW r \in RunRows, DropFailedRun(r)
      PROVE  TypeOK'
  BY <1>6 DEF DropFailedRun, RowStatus
<1>7. QED
  BY <1>1, <1>2, <1>3, <1>4, <1>5, <1>6

LEMMA TaskType ==
  ASSUME IInv, NEW r \in TaskRows,
         DeadLetter(r) \/ LeaseTask(r) \/ EndAttempt(r) \/ SignalRetry(r)
  PROVE  TypeOK'
<1> USE DEF IInv, TypeOK, rowVars, taskVars
<1>1. CASE DeadLetter(r)
  <2>1. rowStatus' \in [Rows -> RowStatus]
    BY <1>1 DEF DeadLetter, RowStatus, Rows
  <2>2. task' \in [TaskRows -> TaskStatus]
    BY <1>1 DEF DeadLetter, TaskStatus
  <2>3. stats' \in [TaskStatus -> Int]
    <3>1. Rebalance(task[r]) \in [TaskStatus -> Int]
      BY DEF Rebalance, TaskStatus
    <3>2. QED
      BY <1>1, <3>1 DEF DeadLetter
  <2>4. QED
    BY <1>1, <2>1, <2>2, <2>3 DEF DeadLetter
<1>2. CASE LeaseTask(r)
  <2>1. /\ task' \in [TaskRows -> TaskStatus]
        /\ taskAttempts' \in [TaskRows -> Nat]
    BY <1>2 DEF LeaseTask, TaskStatus
  <2>2. stats' \in [TaskStatus -> Int]
    BY <1>2 DEF LeaseTask, TaskStatus
  <2>3. QED
    BY <1>2, <2>1, <2>2 DEF LeaseTask
<1>3. CASE EndAttempt(r)
  <2>1. PICK s \in Outcomes(r) :
          /\ task' = [task EXCEPT ![r] = s]
          /\ dlq' = IF s = "dead_lettered" THEN dlq \cup {r} ELSE dlq
          /\ stats' = [stats EXCEPT !["sending"] = @ - 1, ![s] = @ + 1]
    BY <1>3 DEF EndAttempt
  <2>2. task' \in [TaskRows -> TaskStatus]
    BY <2>1 DEF Outcomes, Terminal, TaskStatus
  <2>3. stats' \in [TaskStatus -> Int]
    BY <2>1 DEF Outcomes, Terminal, TaskStatus
  <2>4. QED
    BY <1>3, <2>1, <2>2, <2>3 DEF EndAttempt
<1>4. CASE SignalRetry(r)
  BY <1>4 DEF SignalRetry
<1>5. QED
  BY <1>1, <1>2, <1>3, <1>4

LEMMA NextType == IInv /\ [Next]_vars => TypeOK'
<1>1. IInv /\ UNCHANGED vars => TypeOK'
  BY DEF IInv, TypeOK, vars, rowVars, taskVars
<1>2. QED
  BY <1>1, RelayType, JobType, TaskType DEF Next

-----------------------------------------------------------------------------
(* What only grows: the broker's knowledge, the DLQ, attempt counts.       *)

LEMMA Grows ==
  ASSUME IInv, [Next]_vars
  PROVE  /\ sent \subseteq sent'
         /\ dlq \subseteq dlq'
         /\ \A r \in Rows : attemptCount[r] <= attemptCount'[r]
<1> USE DEF rowVars, taskVars
<1>a. attemptCount \in [Rows -> Nat]
  BY DEF IInv, TypeOK
<1>1. ASSUME NEW p \in Publishers, Claim(p)
      PROVE  \A r \in Rows : attemptCount[r] <= attemptCount'[r]
  BY <1>a, <1>1 DEF Claim
<1>2. ASSUME NEW p \in Publishers, Relay(p) \/ AbandonBatch(p)
      PROVE  /\ sent \subseteq sent'
             /\ dlq' = dlq
             /\ Claim(p) \/ attemptCount' = attemptCount
  BY <1>2 DEF Relay, RecoverStaleOwn, Claim, MarkFailure, DeleteBatch,
              PublishConfirmed, PublishFails, Accept, AbandonBatch
<1>3. CASE ResetStuck
  BY <1>a, <1>3 DEF ResetStuck
<1>4. CASE \/ FetchFailed
           \/ ScanFails
           \/ \E r \in Rows : BecomesDue(r) \/ LockExpires(r)
           \/ \E r \in RunRows : DropFailedRun(r)
           \/ \E r \in TaskRows : LeaseTask(r) \/ SignalRetry(r)
           \/ UNCHANGED vars
  BY <1>a, <1>4 DEF FetchFailed, ScanFails, BecomesDue, LockExpires,
                    DropFailedRun, LeaseTask, SignalRetry, vars
<1>5. ASSUME NEW r \in TaskRows, DeadLetter(r)
      PROVE  dlq \subseteq dlq' /\ UNCHANGED <<sent, attemptCount>>
  BY <1>5 DEF DeadLetter
<1>6. ASSUME NEW r \in TaskRows, EndAttempt(r)
      PROVE  dlq \subseteq dlq' /\ UNCHANGED <<sent, attemptCount>>
  BY <1>6 DEF EndAttempt
<1>7. UNCHANGED attemptCount => \A r \in Rows : attemptCount[r] <= attemptCount'[r]
  BY <1>a
<1>8. QED
  BY <1>1, <1>2, <1>3, <1>4, <1>5, <1>6, <1>7 DEF Next

-----------------------------------------------------------------------------
(* What a relay remembers.                                                 *)

BatchOK(p) ==
  /\ publisher[p].pc = "marking" => publisher[p].row \in Rows
  /\ publisher[p].done \subseteq sent
  /\ \A r \in Rows : publisher[p].todo[r] <= attemptCount[r]

\* The relay that takes a step.
LEMMA OwnBatch ==
  ASSUME IInv, NEW p \in Publishers, Relay(p) \/ AbandonBatch(p)
  PROVE  BatchOK(p)'
<1> USE DEF rowVars, taskVars
<1>a. /\ attemptCount \in [Rows -> Nat]
      /\ publisher \in [Publishers -> Publisher]
      /\ publisher[p].todo \in [Rows -> Nat]
  BY DEF IInv, TypeOK, Publisher
<1>b. BatchOK(p)
  BY DEF IInv, BatchInv, BatchOK
<1>1. CASE RecoverStaleOwn(p)
  BY <1>b, <1>1 DEF RecoverStaleOwn, BatchOK
<1>2. CASE Claim(p)
  <2>1. PICK batch \in SUBSET Rows :
          /\ attemptCount' = [r \in Rows |-> IF r \in batch
                                 THEN attemptCount[r] + 1 ELSE attemptCount[r]]
          /\ publisher' = [publisher EXCEPT ![p] =
               [pc |-> "publishing",
                todo |-> [r \in Rows |-> IF r \in batch THEN attemptCount[r] + 1
                                         ELSE 0],
                done |-> {}, row |-> Nobody]]
    BY <1>2 DEF Claim
  <2>2. publisher'[p] =
          [pc |-> "publishing",
           todo |-> [r \in Rows |-> IF r \in batch THEN attemptCount[r] + 1 ELSE 0],
           done |-> {}, row |-> Nobody]
    BY <1>a, <2>1
  <2>3. \A r \in Rows : publisher'[p].todo[r] <= attemptCount'[r]
    BY <1>a, <2>1, <2>2
  <2>4. QED
    BY <2>2, <2>3 DEF BatchOK
<1>3. CASE MarkFailure(p)
  <2>1. /\ publisher'[p] = [pc |-> "publishing",
             todo |-> [publisher[p].todo EXCEPT ![publisher[p].row] = 0],
             done |-> publisher[p].done, row |-> Nobody]
        /\ UNCHANGED <<sent, attemptCount>>
    BY <1>a, <1>3 DEF MarkFailure
  <2>2. \A r \in Rows : publisher'[p].todo[r] <= publisher[p].todo[r]
    BY <1>a, <2>1
  <2>3. QED
    BY <1>a, <1>b, <2>1, <2>2 DEF BatchOK
<1>4. CASE DeleteBatch(p) \/ AbandonBatch(p)
  <2>1. publisher'[p] = Idle /\ UNCHANGED <<sent, attemptCount>>
    BY <1>a, <1>4 DEF DeleteBatch, AbandonBatch
  <2>2. QED
    BY <1>a, <2>1 DEF BatchOK, Idle
<1>5. ASSUME NEW r \in Rows, PublishConfirmed(p, r)
      PROVE  BatchOK(p)'
  <2>1. /\ publisher'[p] = [pc |-> "publishing",
             todo |-> [publisher[p].todo EXCEPT ![r] = 0],
             done |-> publisher[p].done \cup {r}, row |-> Nobody]
        /\ sent' = sent \cup {r}
        /\ attemptCount' = attemptCount
    BY <1>a, <1>5 DEF PublishConfirmed, Accept
  <2>2. \A q \in Rows : publisher'[p].todo[q] <= publisher[p].todo[q]
    BY <1>a, <2>1
  <2>3. QED
    BY <1>a, <1>b, <2>1, <2>2 DEF BatchOK
<1>6. ASSUME NEW r \in Rows, PublishFails(p, r)
      PROVE  BatchOK(p)'
  <2>1. /\ publisher'[p] = [pc |-> "marking", todo |-> publisher[p].todo,
             done |-> publisher[p].done, row |-> r]
        /\ sent \subseteq sent'
        /\ attemptCount' = attemptCount
    BY <1>a, <1>6 DEF PublishFails, Accept
  <2>2. QED
    BY <1>b, <2>1 DEF BatchOK
<1>7. QED
  BY <1>1, <1>2, <1>3, <1>4, <1>5, <1>6 DEF Relay

LEMMA OtherRelays ==
  ASSUME IInv, [Next]_vars, NEW q \in Publishers,
         \A p \in Publishers : Relay(p) \/ AbandonBatch(p) => p # q
  PROVE  publisher'[q] = publisher[q]
<1>a. publisher \in [Publishers -> Publisher]
  BY DEF IInv, TypeOK
<1>1. ASSUME NEW p \in Publishers, Relay(p) \/ AbandonBatch(p)
      PROVE  publisher'[q] = publisher[q]
  <2>1. p # q
    BY <1>1
  <2>2. CASE RecoverStaleOwn(p)
    BY <2>2 DEF RecoverStaleOwn
  <2>3. CASE Claim(p)
    BY <1>a, <2>1, <2>3 DEF Claim
  <2>4. CASE MarkFailure(p)
    BY <1>a, <2>1, <2>4 DEF MarkFailure
  <2>5. CASE DeleteBatch(p) \/ AbandonBatch(p)
    BY <1>a, <2>1, <2>5 DEF DeleteBatch, AbandonBatch
  <2>6. ASSUME NEW r \in Rows, PublishConfirmed(p, r) \/ PublishFails(p, r)
        PROVE  publisher'[q] = publisher[q]
    BY <1>a, <2>1, <2>6 DEF PublishConfirmed, PublishFails
  <2>7. QED
    BY <1>1, <2>2, <2>3, <2>4, <2>5, <2>6 DEF Relay
<1>2. QED
  BY <1>1 DEF Next, BecomesDue, LockExpires, ResetStuck, FetchFailed, ScanFails,
              DropFailedRun, DeadLetter, LeaseTask, EndAttempt, SignalRetry, vars

LEMMA NextBatch == IInv /\ [Next]_vars => BatchInv'
<1> SUFFICES ASSUME IInv, [Next]_vars, NEW q \in Publishers
             PROVE  BatchOK(q)'
  BY DEF BatchInv, BatchOK
<1>1. CASE Relay(q) \/ AbandonBatch(q)
  BY <1>1, OwnBatch
<1>2. CASE ~(Relay(q) \/ AbandonBatch(q))
  <2>1. publisher'[q] = publisher[q]
    BY <1>2, OtherRelays
  <2>2. BatchOK(q)
    BY DEF IInv, BatchInv, BatchOK
  <2>3. /\ attemptCount \in [Rows -> Nat]
        /\ attemptCount' \in [Rows -> Nat]
        /\ publisher[q].todo \in [Rows -> Nat]
    BY NextType DEF IInv, TypeOK, Publisher
  <2>4. sent \subseteq sent' /\ \A r \in Rows : attemptCount[r] <= attemptCount'[r]
    BY Grows
  <2>5. \A r \in Rows : publisher[q].todo[r] <= attemptCount'[r]
    BY <2>2, <2>3, <2>4 DEF BatchOK
  <2>6. QED
    BY <2>1, <2>2, <2>4, <2>5 DEF BatchOK
<1>3. QED
  BY <1>1, <1>2

-----------------------------------------------------------------------------
(* What a step may do to a row.                                            *)

\* A row is removed with its batch once it was published, or by the scanner.
LEMMA RowsGone ==
  ASSUME IInv, [Next]_vars, NEW r \in TaskRows, rowStatus'[r] = "gone"
  PROVE  \/ rowStatus[r] = "gone"
         \/ \E p \in Publishers : r \in publisher[p].done
         \/ r \in dlq'
<1> USE DEF rowVars
<1>a. /\ rowStatus \in [Rows -> RowStatus]
      /\ r \in Rows
  BY DEF IInv, TypeOK, Rows
<1>1. ASSUME NEW p \in Publishers, Relay(p) \/ AbandonBatch(p)
      PROVE  rowStatus[r] = "gone" \/ r \in publisher[p].done
  <2>1. CASE RecoverStaleOwn(p)
    BY <1>a, <2>1 DEF RecoverStaleOwn
  <2>2. CASE Claim(p)
    BY <1>a, <2>2 DEF Claim
  <2>3. CASE MarkFailure(p)
    BY <1>a, <2>3 DEF MarkFailure, AfterFailure
  <2>4. CASE DeleteBatch(p)
    BY <1>a, <2>4 DEF DeleteBatch
  <2>5. CASE AbandonBatch(p)
    BY <2>5 DEF AbandonBatch
  <2>6. ASSUME NEW q \in Rows, PublishConfirmed(p, q) \/ PublishFails(p, q)
        PROVE  rowStatus' = rowStatus
    BY <2>6 DEF PublishConfirmed, PublishFails
  <2>7. QED
    BY <1>1, <2>1, <2>2, <2>3, <2>4, <2>5, <2>6 DEF Relay
<1>2. CASE ResetStuck
  BY <1>a, <1>2 DEF ResetStuck
<1>3. ASSUME NEW q \in RunRows, DropFailedRun(q)
      PROVE  rowStatus'[r] = rowStatus[r]
  BY <1>a, <1>3, OutboxAssumption DEF DropFailedRun
<1>4. ASSUME NEW q \in TaskRows, DeadLetter(q)
      PROVE  rowStatus[r] = "gone" \/ r \in dlq'
  BY <1>a, <1>4 DEF DeadLetter
<1>5. CASE \/ FetchFailed
           \/ ScanFails
           \/ \E q \in Rows : BecomesDue(q) \/ LockExpires(q)
           \/ \E q \in TaskRows : LeaseTask(q) \/ EndAttempt(q) \/ SignalRetry(q)
           \/ UNCHANGED vars
  BY <1>5 DEF FetchFailed, ScanFails, BecomesDue, LockExpires, LeaseTask,
              EndAttempt, SignalRetry, vars
<1>6. QED
  BY <1>1, <1>2, <1>3, <1>4, <1>5 DEF Next

\* Only a relay that has used all attempts fails a row.
LEMMA RowsFail ==
  ASSUME IInv, [Next]_vars, NEW r \in Rows, rowStatus'[r] = "failed"
  PROVE  \/ rowStatus[r] = "failed"
         \/ \E p \in Publishers : Exhausted(publisher[p].todo[r])
<1> USE DEF rowVars
<1>a. rowStatus \in [Rows -> RowStatus]
  BY DEF IInv, TypeOK
<1>1. ASSUME NEW p \in Publishers, Relay(p) \/ AbandonBatch(p)
      PROVE  rowStatus[r] = "failed" \/ Exhausted(publisher[p].todo[r])
  <2>1. CASE RecoverStaleOwn(p)
    BY <1>a, <2>1 DEF RecoverStaleOwn
  <2>2. CASE Claim(p)
    BY <1>a, <2>2 DEF Claim
  <2>3. CASE MarkFailure(p)
    BY <1>a, <2>3 DEF MarkFailure, AfterFailure
  <2>4. CASE DeleteBatch(p)
    BY <1>a, <2>4 DEF DeleteBatch
  <2>5. CASE AbandonBatch(p)
    BY <2>5 DEF AbandonBatch
  <2>6. ASSUME NEW q \in Rows, PublishConfirmed(p, q) \/ PublishFails(p, q)
        PROVE  rowStatus' = rowStatus
    BY <2>6 DEF PublishConfirmed, PublishFails
  <2>7. QED
    BY <1>1, <2>1, <2>2, <2>3, <2>4, <2>5, <2>6 DEF Relay
<1>2. CASE ResetStuck
  BY <1>a, <1>2 DEF ResetStuck
<1>3. ASSUME NEW q \in RunRows, DropFailedRun(q)
      PROVE  rowStatus[r] = "failed"
  BY <1>a, <1>3 DEF DropFailedRun
<1>4. ASSUME NEW q \in TaskRows, DeadLetter(q)
      PROVE  rowStatus[r] = "failed"
  BY <1>a, <1>4 DEF DeadLetter
<1>5. CASE \/ FetchFailed
           \/ ScanFails
           \/ \E q \in Rows : BecomesDue(q) \/ LockExpires(q)
           \/ \E q \in TaskRows : LeaseTask(q) \/ EndAttempt(q) \/ SignalRetry(q)
           \/ UNCHANGED vars
  BY <1>5 DEF FetchFailed, ScanFails, BecomesDue, LockExpires, LeaseTask,
              EndAttempt, SignalRetry, vars
<1>6. QED
  BY <1>1, <1>2, <1>3, <1>4, <1>5 DEF Next

LEMMA NextNoSignalLost == IInv /\ [Next]_vars => NoSignalLost'
<1> SUFFICES ASSUME IInv, [Next]_vars,
                    NEW r \in TaskRows, rowStatus'[r] = "gone"
             PROVE  r \in sent' \cup dlq'
  BY DEF NoSignalLost
<1>1. CASE rowStatus[r] = "gone"
  BY <1>1, Grows DEF IInv, NoSignalLost
<1>2. ASSUME NEW p \in Publishers, r \in publisher[p].done
      PROVE  r \in sent'
  BY <1>2, Grows DEF IInv, BatchInv
<1>3. QED
  BY <1>1, <1>2, RowsGone

-----------------------------------------------------------------------------
(* Tasks and statistics.                                                   *)

\* Moving one task changes two counts by one.
CountsMove(r, new) ==
  \A s \in TaskStatus :
    /\ Cardinality(Having(s)) \in Nat
    /\ s = task[r] => Cardinality(Having(s)) > 0
    /\ Cardinality(Having(s)') =
         IF s = new THEN Cardinality(Having(s)) + 1
         ELSE IF s = task[r] THEN Cardinality(Having(s)) - 1
         ELSE Cardinality(Having(s))

LEMMA CountMoves ==
  ASSUME IInv, NEW r \in TaskRows, NEW new \in TaskStatus, new # task[r],
         task' = [task EXCEPT ![r] = new]
  PROVE  CountsMove(r, new)
<1> SUFFICES ASSUME NEW s \in TaskStatus
             PROVE  /\ Cardinality(Having(s)) \in Nat
                    /\ s = task[r] => Cardinality(Having(s)) > 0
                    /\ Cardinality(Having(s)') =
                         IF s = new THEN Cardinality(Having(s)) + 1
                         ELSE IF s = task[r] THEN Cardinality(Having(s)) - 1
                         ELSE Cardinality(Having(s))
  BY DEF CountsMove
<1>a. task \in [TaskRows -> TaskStatus]
  BY DEF IInv, TypeOK
<1>1. IsFiniteSet(Having(s))
  BY OutboxAssumption, FS_Subset DEF Having
<1>2. Cardinality(Having(s)) \in Nat
  BY <1>1, FS_CardinalityType
<1>3. CASE s = new
  <2>1. Having(s)' = Having(s) \cup {r} /\ r \notin Having(s)
    BY <1>a, <1>3 DEF Having
  <2>2. QED
    BY <1>1, <1>2, <1>3, <2>1, FS_AddElement
<1>4. CASE s = task[r]
  <2>1. Having(s)' = Having(s) \ {r} /\ r \in Having(s)
    BY <1>a, <1>4 DEF Having
  <2>2. Cardinality(Having(s)') = Cardinality(Having(s)) - 1
    BY <1>1, <2>1, FS_RemoveElement
  <2>3. Cardinality(Having(s)) # 0
    BY <1>1, <2>1, FS_EmptySet
  <2>4. QED
    BY <1>2, <1>4, <2>2, <2>3
<1>5. CASE s # new /\ s # task[r]
  <2>1. Having(s)' = Having(s)
    BY <1>a, <1>5 DEF Having
  <2>2. QED
    BY <1>2, <1>5, <2>1
<1>6. QED
  BY <1>3, <1>4, <1>5

\* A task moves and so do the columns: of the two that say what waits only the
\* sum is looked at, and it may be left as it was, or raised, when a task that
\* was never leased is given up.
WaitMove(r, new) ==
  IF new = "retry_scheduled" THEN 1 ELSE IF task[r] = "sending" THEN 0 ELSE -1

LEMMA StatsMove ==
  ASSUME IInv, NEW r \in TaskRows, NEW new \in TaskStatus, new # task[r],
         task[r] \notin Terminal, new # "queued",
         task[r] = "sending" \/ new # "retry_scheduled",
         task' = [task EXCEPT ![r] = new], stats' \in [TaskStatus -> Int],
         \A s \in {"sending", "succeeded", "dead_lettered"} :
           stats'[s] = IF s = new THEN stats[s] + 1
                       ELSE IF s = task[r] THEN stats[s] - 1
                       ELSE stats[s],
         stats'["retry_scheduled"] =
           IF new = "retry_scheduled" THEN stats["retry_scheduled"] + 1
           ELSE IF task[r] = "retry_scheduled" /\ new # "sending"
                THEN stats["retry_scheduled"] - 1
           ELSE stats["retry_scheduled"],
         stats'["queued"] + stats'["retry_scheduled"]
           >= stats["queued"] + stats["retry_scheduled"] + WaitMove(r, new),
         \/ GivenUpUnleased'
         \/ stats'["queued"] + stats'["retry_scheduled"]
              = stats["queued"] + stats["retry_scheduled"] + WaitMove(r, new),
         GivenUpUnleased => GivenUpUnleased'
  PROVE  StatsInv'
<1> DEFINE n(s) == Cardinality(Having(s))
           after(s) == Cardinality(Having(s)')
<1>a. /\ task \in [TaskRows -> TaskStatus]
      /\ stats \in [TaskStatus -> Int]
      /\ task[r] \in TaskStatus
  BY DEF IInv, TypeOK
<1>1. \A s \in TaskStatus :
        /\ n(s) \in Nat
        /\ after(s) = IF s = new THEN n(s) + 1
                      ELSE IF s = task[r] THEN n(s) - 1
                      ELSE n(s)
  <2>1. CountsMove(r, new)
    BY CountMoves
  <2>2. QED
    BY <2>1 DEF CountsMove
<1>2. \A s \in {"sending", "succeeded", "dead_lettered"} : stats[s] = n(s)
  BY DEF IInv, StatsInv, CountedExactly
<1>3. \A s \in {"sending", "succeeded", "dead_lettered"} : stats'[s] = after(s)
  <2>1. {"sending", "succeeded", "dead_lettered"} \subseteq TaskStatus
    BY DEF TaskStatus
  <2> HIDE DEF n, after
  <2>2. QED
    BY <1>1, <1>2, <2>1
<1>4. /\ Cardinality(Waiting) = n("queued") + n("retry_scheduled")
      /\ Cardinality(Waiting') = after("queued") + after("retry_scheduled")
  <2>1. \A s \in TaskStatus : IsFiniteSet(Having(s)) /\ IsFiniteSet(Having(s)')
    BY OutboxAssumption, FS_Subset DEF Having
  <2>2. Cardinality(Waiting) = n("queued") + n("retry_scheduled")
    BY <2>1, WaitingCounted DEF TaskStatus
  <2>3. Cardinality(Waiting') = after("queued") + after("retry_scheduled")
    <3>1. Cardinality(Having("queued")' \cap Having("retry_scheduled")') = 0
      <4>1. Having("queued")' \cap Having("retry_scheduled")' = {}
        BY DEF Having
      <4>2. QED
        BY <4>1, FS_EmptySet
    <3>2. IsFiniteSet(Having("queued")') /\ IsFiniteSet(Having("retry_scheduled")')
      BY <2>1 DEF TaskStatus
    <3>3. Cardinality(Waiting')
            = Cardinality(Having("queued")') + Cardinality(Having("retry_scheduled")')
                - Cardinality(Having("queued")' \cap Having("retry_scheduled")')
      BY <3>2, FS_Union DEF Waiting
    <3>4. QED
      BY <3>1, <3>2, <3>3, FS_CardinalityType
  <2>4. QED
    BY <2>2, <2>3
<1>5. /\ stats["queued"] + stats["retry_scheduled"] >= Cardinality(Waiting)
      /\ stats["retry_scheduled"] >= n("retry_scheduled")
      /\ \/ GivenUpUnleased
         \/ stats["queued"] + stats["retry_scheduled"] = Cardinality(Waiting)
  BY DEF IInv, StatsInv, NoneCountedShort, WaitingExact
<1>6. /\ "queued" \in TaskStatus /\ "retry_scheduled" \in TaskStatus
      /\ task[r] \in {"queued", "sending", "retry_scheduled"}
  BY <1>a DEF TaskStatus, Terminal
<1> HIDE DEF n, after
<1>7. /\ n("queued") \in Nat /\ n("retry_scheduled") \in Nat
      /\ after("queued") = IF task[r] = "queued" THEN n("queued") - 1
                           ELSE n("queued")
      /\ after("retry_scheduled") =
           IF new = "retry_scheduled" THEN n("retry_scheduled") + 1
           ELSE IF task[r] = "retry_scheduled" THEN n("retry_scheduled") - 1
           ELSE n("retry_scheduled")
  BY <1>1, <1>6
<1>8. /\ stats["queued"] \in Int /\ stats["retry_scheduled"] \in Int
      /\ stats'["queued"] \in Int /\ stats'["retry_scheduled"] \in Int
  BY <1>a, <1>6
<1>9. stats'["retry_scheduled"] >= after("retry_scheduled")
  BY <1>5, <1>7, <1>8
<1>10. stats'["queued"] + stats'["retry_scheduled"] >= Cardinality(Waiting')
  BY <1>4, <1>5, <1>6, <1>7, <1>8 DEF WaitMove
<1>11. \/ GivenUpUnleased'
       \/ stats'["queued"] + stats'["retry_scheduled"] = Cardinality(Waiting')
  <2>1. CASE GivenUpUnleased'
    BY <2>1
  <2>2. CASE ~GivenUpUnleased'
    BY <1>4, <1>5, <1>6, <1>7, <1>8, <2>2 DEF WaitMove
  <2>3. QED
    BY <2>1, <2>2
<1>12. CountedExactly'
  BY <1>3 DEF CountedExactly, after
<1>13. QED
  BY <1>9, <1>10, <1>11, <1>12
     DEF StatsInv, NoneCountedShort, WaitingExact, after

\* The steps that change tasks.
LEMMA TaskSteps ==
  ASSUME IInv, [Next]_vars
  PROVE  \/ UNCHANGED taskVars
         \/ \E r \in TaskRows : DeadLetter(r) \/ LeaseTask(r) \/ EndAttempt(r)
<1>1. ASSUME NEW p \in Publishers, Relay(p) \/ AbandonBatch(p)
      PROVE  UNCHANGED taskVars
  BY <1>1 DEF Relay, RecoverStaleOwn, Claim, MarkFailure, DeleteBatch,
              PublishConfirmed, PublishFails, AbandonBatch
<1>2. QED
  BY <1>1 DEF Next, ResetStuck, FetchFailed, ScanFails, BecomesDue, LockExpires,
              DropFailedRun, SignalRetry, vars

LEMMA NextFresh == IInv /\ [Next]_vars => QueuedIsFresh'
<1> SUFFICES ASSUME IInv, [Next]_vars PROVE QueuedIsFresh'
  OBVIOUS
<1>a. /\ task \in [TaskRows -> TaskStatus] /\ taskAttempts \in [TaskRows -> Nat]
      /\ QueuedIsFresh
  BY DEF IInv, TypeOK
<1>1. CASE UNCHANGED taskVars
  BY <1>a, <1>1 DEF taskVars, QueuedIsFresh
<1>2. ASSUME NEW r \in TaskRows, DeadLetter(r)
      PROVE  QueuedIsFresh'
  BY <1>a, <1>2 DEF DeadLetter, QueuedIsFresh
<1>3. ASSUME NEW r \in TaskRows, LeaseTask(r)
      PROVE  QueuedIsFresh'
  BY <1>a, <1>3 DEF LeaseTask, QueuedIsFresh
<1>4. ASSUME NEW r \in TaskRows, EndAttempt(r)
      PROVE  QueuedIsFresh'
  BY <1>a, <1>4 DEF EndAttempt, Outcomes, Terminal, QueuedIsFresh
<1>5. QED
  BY <1>1, <1>2, <1>3, <1>4, TaskSteps

LEMMA NextStats == IInv /\ [Next]_vars => StatsInv'
<1> SUFFICES ASSUME IInv, [Next]_vars PROVE StatsInv'
  OBVIOUS
<1>a. /\ task \in [TaskRows -> TaskStatus]
      /\ taskAttempts \in [TaskRows -> Nat]
      /\ stats \in [TaskStatus -> Int]
      /\ stats' \in [TaskStatus -> Int]
      /\ dlq \in SUBSET TaskRows
  BY NextType DEF IInv, TypeOK
<1>b. ASSUME UNCHANGED <<task, stats, taskAttempts>>, dlq \subseteq dlq'
      PROVE  StatsInv'
  <2>1. GivenUpUnleased => GivenUpUnleased'
    BY <1>b DEF GivenUpUnleased
  <2>2. QED
    BY <1>b, <2>1 DEF IInv, StatsInv, CountedExactly, NoneCountedShort,
                      WaitingExact, Waiting, Having
<1>1. CASE UNCHANGED taskVars
  BY <1>1, <1>b DEF taskVars
<1>2. ASSUME NEW r \in TaskRows, DeadLetter(r)
      PROVE  StatsInv'
  <2>0. CASE UNCHANGED <<task, stats>>
    BY <1>2, <1>b, <2>0 DEF DeadLetter
  <2> SUFFICES ASSUME ~UNCHANGED <<task, stats>> PROVE StatsInv'
    BY <2>0
  <2>1. /\ task[r] \notin Terminal
        /\ task' = [task EXCEPT ![r] = "dead_lettered"]
        /\ stats' = Rebalance(task[r])
        /\ dlq' = dlq \cup {r}
        /\ taskAttempts' = taskAttempts
    BY <1>2 DEF DeadLetter, CanGiveUp, taskVars
  <2>2. /\ task[r] \in {"queued", "sending", "retry_scheduled"}
        /\ "dead_lettered" \in TaskStatus
        /\ {"queued", "sending", "retry_scheduled", "succeeded"} \subseteq TaskStatus
    BY <1>a, <2>1 DEF Terminal, TaskStatus
  <2>3. /\ stats'["dead_lettered"] = stats["dead_lettered"] + 1
        /\ \A s \in TaskStatus \ {task[r], "dead_lettered"} : stats'[s] = stats[s]
        /\ stats'[task[r]] = IF stats[task[r]] > 0 THEN stats[task[r]] - 1 ELSE 0
    BY <1>a, <2>1, <2>2 DEF Rebalance
  <2>4. task[r] # "queued" => stats[task[r]] > 0
    <3>1. task[r] \in TaskStatus /\ Cardinality(Having(task[r])) \in Nat
          /\ Cardinality(Having(task[r])) > 0
      <4>1. "dead_lettered" \in TaskStatus /\ "dead_lettered" # task[r]
        BY <2>2
      <4>2. CountsMove(r, "dead_lettered")
        BY <2>1, <4>1, CountMoves
      <4>3. QED
        BY <2>2, <4>2 DEF CountsMove
    <3>2. QED
      BY <1>a, <2>2, <3>1 DEF IInv, StatsInv, CountedExactly, NoneCountedShort
  <2>5. GivenUpUnleased => GivenUpUnleased'
    BY <1>a, <2>1, <2>2 DEF GivenUpUnleased
  <2>6. task[r] = "queued" => GivenUpUnleased'
    BY <1>a, <2>1 DEF IInv, QueuedIsFresh, GivenUpUnleased
  <2>7. /\ stats["queued"] \in Int /\ stats["retry_scheduled"] \in Int
        /\ stats["sending"] \in Int
        /\ stats'["queued"] \in Int /\ stats'["retry_scheduled"] \in Int
    BY <1>a, <2>2
  <2>8. CASE task[r] = "queued"
    <3>1. \A s \in {"sending", "succeeded", "dead_lettered"} :
            stats'[s] = IF s = "dead_lettered" THEN stats[s] + 1
                        ELSE IF s = task[r] THEN stats[s] - 1
                        ELSE stats[s]
      BY <2>2, <2>3, <2>4, <2>7, <2>8
    <3>2. stats'["retry_scheduled"] = stats["retry_scheduled"]
      BY <2>2, <2>3, <2>4, <2>7, <2>8
    <3>3. stats'["queued"] >= stats["queued"] - 1
      BY <2>2, <2>3, <2>4, <2>7, <2>8
    <3>4. WaitMove(r, "dead_lettered") = -1
      BY <2>8 DEF WaitMove
    <3>5. stats'["retry_scheduled"] =
            IF "dead_lettered" = "retry_scheduled" THEN stats["retry_scheduled"] + 1
            ELSE IF task[r] = "retry_scheduled" /\ "dead_lettered" # "sending"
                 THEN stats["retry_scheduled"] - 1
            ELSE stats["retry_scheduled"]
      BY <2>8, <3>2
    <3>6. stats'["queued"] + stats'["retry_scheduled"] >=
            stats["queued"] + stats["retry_scheduled"] + WaitMove(r, "dead_lettered")
      BY <2>7, <3>2, <3>3, <3>4
    <3>7. \/ GivenUpUnleased'
          \/ stats'["queued"] + stats'["retry_scheduled"] =
               stats["queued"] + stats["retry_scheduled"]
                 + WaitMove(r, "dead_lettered")
      BY <2>6, <2>7, <2>8, <3>2, <3>3, <3>4
    <3>8. QED
      BY <1>a, <2>1, <2>2, <2>5, <2>8, <3>1, <3>5, <3>6, <3>7, StatsMove
  <2>9. CASE task[r] = "sending"
    <3>1. \A s \in {"sending", "succeeded", "dead_lettered"} :
            stats'[s] = IF s = "dead_lettered" THEN stats[s] + 1
                        ELSE IF s = task[r] THEN stats[s] - 1
                        ELSE stats[s]
      BY <2>2, <2>3, <2>4, <2>7, <2>9
    <3>2. stats'["retry_scheduled"] = stats["retry_scheduled"]
      BY <2>2, <2>3, <2>4, <2>7, <2>9
    <3>3. stats'["queued"] = stats["queued"]
      BY <2>2, <2>3, <2>4, <2>7, <2>9
    <3>4. WaitMove(r, "dead_lettered") = 0
      BY <2>9 DEF WaitMove
    <3>5. stats'["retry_scheduled"] =
            IF "dead_lettered" = "retry_scheduled" THEN stats["retry_scheduled"] + 1
            ELSE IF task[r] = "retry_scheduled" /\ "dead_lettered" # "sending"
                 THEN stats["retry_scheduled"] - 1
            ELSE stats["retry_scheduled"]
      BY <2>9, <3>2
    <3>6. stats'["queued"] + stats'["retry_scheduled"] >=
            stats["queued"] + stats["retry_scheduled"] + WaitMove(r, "dead_lettered")
      BY <2>7, <3>2, <3>3, <3>4
    <3>7. \/ GivenUpUnleased'
          \/ stats'["queued"] + stats'["retry_scheduled"] =
               stats["queued"] + stats["retry_scheduled"]
                 + WaitMove(r, "dead_lettered")
      BY <2>6, <2>7, <2>9, <3>2, <3>3, <3>4
    <3>8. QED
      BY <1>a, <2>1, <2>2, <2>5, <2>9, <3>1, <3>5, <3>6, <3>7, StatsMove
  <2>10. CASE task[r] = "retry_scheduled"
    <3>1. \A s \in {"sending", "succeeded", "dead_lettered"} :
            stats'[s] = IF s = "dead_lettered" THEN stats[s] + 1
                        ELSE IF s = task[r] THEN stats[s] - 1
                        ELSE stats[s]
      BY <2>2, <2>3, <2>4, <2>7, <2>10
    <3>2. stats'["retry_scheduled"] = stats["retry_scheduled"] - 1
      BY <2>2, <2>3, <2>4, <2>7, <2>10
    <3>3. stats'["queued"] = stats["queued"]
      BY <2>2, <2>3, <2>4, <2>7, <2>10
    <3>4. WaitMove(r, "dead_lettered") = -1
      BY <2>10 DEF WaitMove
    <3>5. stats'["retry_scheduled"] =
            IF "dead_lettered" = "retry_scheduled" THEN stats["retry_scheduled"] + 1
            ELSE IF task[r] = "retry_scheduled" /\ "dead_lettered" # "sending"
                 THEN stats["retry_scheduled"] - 1
            ELSE stats["retry_scheduled"]
      BY <2>10, <3>2
    <3>6. stats'["queued"] + stats'["retry_scheduled"] >=
            stats["queued"] + stats["retry_scheduled"] + WaitMove(r, "dead_lettered")
      BY <2>7, <3>2, <3>3, <3>4
    <3>7. \/ GivenUpUnleased'
          \/ stats'["queued"] + stats'["retry_scheduled"] =
               stats["queued"] + stats["retry_scheduled"]
                 + WaitMove(r, "dead_lettered")
      BY <2>6, <2>7, <2>10, <3>2, <3>3, <3>4
    <3>8. QED
      BY <1>a, <2>1, <2>2, <2>5, <2>10, <3>1, <3>5, <3>6, <3>7, StatsMove
  <2>11. QED
    BY <2>2, <2>8, <2>9, <2>10
<1>3. ASSUME NEW r \in TaskRows, LeaseTask(r)
      PROVE  StatsInv'
  <2>0. CASE r \notin Waiting
    BY <1>3, <1>b, <2>0 DEF LeaseTask
  <2>1. CASE r \in Waiting
    <3>1. /\ task[r] = "queued" \/ task[r] = "retry_scheduled"
          /\ task' = [task EXCEPT ![r] = "sending"]
          /\ taskAttempts' = [taskAttempts EXCEPT ![r] = @ + 1]
          /\ stats' = [stats EXCEPT !["queued"] = @ - 1, !["sending"] = @ + 1]
          /\ dlq' = dlq
      BY <1>3, <2>1 DEF LeaseTask, Waiting, Having
    <3>2. /\ stats'["queued"] = stats["queued"] - 1
          /\ stats'["sending"] = stats["sending"] + 1
          /\ stats'["retry_scheduled"] = stats["retry_scheduled"]
          /\ stats'["succeeded"] = stats["succeeded"]
          /\ stats'["dead_lettered"] = stats["dead_lettered"]
          /\ stats["queued"] \in Int /\ stats["retry_scheduled"] \in Int
      BY <1>a, <3>1 DEF TaskStatus
    <3>3. GivenUpUnleased => GivenUpUnleased'
      BY <1>a, <3>1 DEF GivenUpUnleased
    <3>4. "sending" \in TaskStatus /\ task[r] \notin Terminal
      BY <3>1 DEF TaskStatus, Terminal
    <3>5. WaitMove(r, "sending") = -1
      BY <3>1 DEF WaitMove
    <3>6. \A s \in {"sending", "succeeded", "dead_lettered"} :
            stats'[s] = IF s = "sending" THEN stats[s] + 1
                        ELSE IF s = task[r] THEN stats[s] - 1
                        ELSE stats[s]
      BY <3>1, <3>2
    <3>7. stats'["queued"] + stats'["retry_scheduled"] =
            stats["queued"] + stats["retry_scheduled"] + WaitMove(r, "sending")
      BY <3>2, <3>5
    <3>8. stats'["queued"] + stats'["retry_scheduled"] >=
            stats["queued"] + stats["retry_scheduled"] + WaitMove(r, "sending")
      BY <3>2, <3>5
    <3>9. QED
      BY <1>a, <3>1, <3>2, <3>3, <3>4, <3>6, <3>7, <3>8, StatsMove
  <2>2. QED
    BY <2>0, <2>1
<1>4. ASSUME NEW r \in TaskRows, EndAttempt(r)
      PROVE  StatsInv'
  <2>1. task[r] = "sending" /\ taskAttempts' = taskAttempts
    BY <1>4 DEF EndAttempt
  <2>2. PICK new \in Outcomes(r) :
          /\ task' = [task EXCEPT ![r] = new]
          /\ dlq' = IF new = "dead_lettered" THEN dlq \cup {r} ELSE dlq
          /\ stats' = [stats EXCEPT !["sending"] = @ - 1, ![new] = @ + 1]
    BY <1>4 DEF EndAttempt
  <2>3. /\ new \in {"succeeded", "dead_lettered", "retry_scheduled"}
        /\ new \in TaskStatus
    BY DEF Outcomes, Terminal, TaskStatus
  <2>4. /\ stats'["queued"] = stats["queued"]
        /\ stats'["sending"] = stats["sending"] - 1
        /\ \A s \in {"succeeded", "dead_lettered", "retry_scheduled"} :
              stats'[s] = IF s = new THEN stats[s] + 1 ELSE stats[s]
        /\ stats["queued"] \in Int /\ stats["retry_scheduled"] \in Int
    BY <1>a, <2>2, <2>3 DEF TaskStatus
  <2>5. GivenUpUnleased => GivenUpUnleased'
    BY <1>a, <2>1, <2>2 DEF GivenUpUnleased
  <2>6. task[r] \notin Terminal
    BY <2>1 DEF Terminal
  <2>7. WaitMove(r, new) = IF new = "retry_scheduled" THEN 1 ELSE 0
    BY <2>1 DEF WaitMove
  <2>8. \A s \in {"sending", "succeeded", "dead_lettered"} :
          stats'[s] = IF s = new THEN stats[s] + 1
                      ELSE IF s = task[r] THEN stats[s] - 1
                      ELSE stats[s]
    BY <2>1, <2>3, <2>4
  <2>9. stats'["retry_scheduled"] =
          IF new = "retry_scheduled" THEN stats["retry_scheduled"] + 1
          ELSE IF task[r] = "retry_scheduled" /\ new # "sending"
               THEN stats["retry_scheduled"] - 1
          ELSE stats["retry_scheduled"]
    BY <2>1, <2>4
  <2>10. stats'["queued"] + stats'["retry_scheduled"] =
           stats["queued"] + stats["retry_scheduled"] + WaitMove(r, new)
    BY <2>4, <2>7
  <2>11. stats'["queued"] + stats'["retry_scheduled"] >=
           stats["queued"] + stats["retry_scheduled"] + WaitMove(r, new)
    BY <2>4, <2>7
  <2>12. new # task[r] /\ new # "queued" /\ task[r] = "sending"
    BY <2>1, <2>3
  <2>13. QED
    BY <1>a, <2>2, <2>3, <2>5, <2>6, <2>8, <2>9, <2>10, <2>11, <2>12, StatsMove
<1>5. QED
  BY <1>1, <1>2, <1>3, <1>4, TaskSteps

-----------------------------------------------------------------------------
(* Theorems.                                                               *)

\* The inductive invariant holds in every reachable state.
THEOREM Invariance == Spec => []IInv
<1>1. IInv /\ [Next]_vars => IInv'
  BY NextType, NextBatch, NextNoSignalLost, NextFresh, NextStats DEF IInv
<1>2. QED
  BY InitIInv, <1>1, PTL DEF Spec

\* Every variable keeps its type.
THEOREM TypeCorrect == Spec => []TypeOK
<1>1. IInv => TypeOK
  BY DEF IInv
<1>2. QED
  BY Invariance, <1>1, PTL

\* The row of a task's signal leaves the outbox only when the broker has the
\* message or the task is in the DLQ, however relays, outbox jobs and faults
\* interleave.
THEOREM SignalsAreKept == Spec => []NoSignalLost
<1>1. IInv => NoSignalLost
  BY DEF IInv
<1>2. QED
  BY Invariance, <1>1, PTL

\* What the finalizer adds up does not reach zero while a task waits or is being
\* sent, and the results are exact, for any number of tasks, retries and
\* given-up rows.
THEOREM StatsAreExact == Spec => []StatsInv
<1>1. IInv => StatsInv
  BY DEF IInv
<1>2. QED
  BY Invariance, <1>1, PTL

\* A signal that was delivered after all and then given up does not change how
\* its task ended.
THEOREM EndedIsFinal == Spec => EndedTaskStays
<1>1. ASSUME IInv, [Next]_vars, NEW r \in TaskRows, task[r] \in Terminal
      PROVE  task'[r] = task[r]
  <2>a. task \in [TaskRows -> TaskStatus]
    BY <1>1 DEF IInv, TypeOK
  <2>1. ASSUME NEW q \in TaskRows, DeadLetter(q)
        PROVE  task'[r] = task[r]
    BY <1>1, <2>a, <2>1 DEF DeadLetter, CanGiveUp, taskVars
  <2>2. ASSUME NEW q \in TaskRows, LeaseTask(q)
        PROVE  task'[r] = task[r]
    BY <1>1, <2>a, <2>2 DEF LeaseTask, Terminal, Waiting, Having
  <2>3. ASSUME NEW q \in TaskRows, EndAttempt(q)
        PROVE  task'[r] = task[r]
    BY <1>1, <2>a, <2>3 DEF EndAttempt, Terminal
  <2>4. QED
    BY <1>1, <2>1, <2>2, <2>3, TaskSteps DEF taskVars
<1>2. IInv /\ [Next]_vars =>
        [\A r \in TaskRows : task[r] \in Terminal => task'[r] = task[r]]_vars
  BY <1>1
<1>3. QED
  BY Invariance, <1>2, PTL DEF Spec, EndedTaskStays

-----------------------------------------------------------------------------
(* The outbox implements its contract.                                     *)

kept == {r \in TaskRows : rowStatus[r] # "gone"}
published == sent \cap TaskRows

LEMMA ContractInit == Init => Contract!Init
  BY DEF Init, Contract!Init, Rows

LEMMA ContractStep ==
  ASSUME IInv, [Next]_vars
  PROVE  Contract!Next \/ UNCHANGED <<kept, published, dlq>>
<1> USE DEF rowVars, taskVars
<1>a. /\ rowStatus \in [Rows -> RowStatus]
      /\ dlq \in SUBSET TaskRows
      /\ sent \in SUBSET Rows
  BY DEF IInv, TypeOK
<1>b. ASSUME NEW p \in Publishers, DeleteBatch(p)
      PROVE  Contract!Next
  <2>1. /\ publisher[p].done \subseteq sent
        /\ UNCHANGED <<sent, dlq>>
        /\ rowStatus' = [r \in Rows |-> IF r \in publisher[p].done THEN "gone"
                                        ELSE rowStatus[r]]
    BY <1>b DEF DeleteBatch, IInv, BatchInv
  <2>2. PICK S \in SUBSET TaskRows : S = publisher[p].done \cap TaskRows
    OBVIOUS
  <2>3. kept' = kept \ S
    BY <2>1, <2>2 DEF kept, Rows
  <2>4. S \subseteq published \cup dlq
    BY <2>1, <2>2 DEF published
  <2>5. Contract!Forget(S)
    BY <2>1, <2>3, <2>4 DEF Contract!Forget, kept, published
  <2>6. QED
    BY <2>5 DEF Contract!Next
<1>c. ASSUME NEW r \in Rows, Accept(r), UNCHANGED <<rowStatus, dlq>>
      PROVE  Contract!Next \/ UNCHANGED <<kept, published, dlq>>
  <2>1. CASE r \in TaskRows
    <3>1. published' = published \cup {r} /\ kept' = kept
      BY <1>c, <2>1 DEF Accept, published, kept
    <3>2. Contract!Send(r)
      BY <1>c, <3>1 DEF Contract!Send, published, kept
    <3>3. QED
      BY <2>1, <3>2 DEF Contract!Next
  <2>2. CASE r \notin TaskRows
    BY <1>c, <2>2 DEF Accept, published, kept
  <2>3. QED
    BY <2>1, <2>2
<1>1. ASSUME NEW p \in Publishers, Relay(p) \/ AbandonBatch(p)
      PROVE  Contract!Next \/ UNCHANGED <<kept, published, dlq>>
  <2>1. CASE RecoverStaleOwn(p) \/ Claim(p) \/ MarkFailure(p)
    <3>1. UNCHANGED <<sent, dlq>>
      BY <2>1 DEF RecoverStaleOwn, Claim, MarkFailure
    <3>2. ASSUME NEW r \in TaskRows
          PROVE  rowStatus'[r] = "gone" <=> rowStatus[r] = "gone"
      <4>1. r \in Rows
        BY DEF Rows
      <4>2. CASE RecoverStaleOwn(p)
        BY <1>a, <4>1, <4>2 DEF RecoverStaleOwn, Stuck
      <4>3. CASE Claim(p)
        BY <1>a, <4>1, <4>3 DEF Claim, Claimable
      <4>4. CASE MarkFailure(p)
        BY <1>a, <4>1, <4>4 DEF MarkFailure, AfterFailure
      <4>5. QED
        BY <2>1, <4>2, <4>3, <4>4
    <3>3. QED
      BY <3>1, <3>2 DEF kept, published
  <2>2. CASE AbandonBatch(p)
    BY <2>2 DEF AbandonBatch, kept, published
  <2>3. ASSUME NEW r \in Rows, PublishConfirmed(p, r)
        PROVE  Contract!Next \/ UNCHANGED <<kept, published, dlq>>
    BY <1>c, <2>3 DEF PublishConfirmed
  <2>4. ASSUME NEW r \in Rows, PublishFails(p, r)
        PROVE  Contract!Next \/ UNCHANGED <<kept, published, dlq>>
    <3>1. CASE Accept(r)
      BY <1>c, <2>4, <3>1 DEF PublishFails
    <3>2. CASE UNCHANGED sent
      BY <2>4, <3>2 DEF PublishFails, kept, published
    <3>3. QED
      BY <2>4, <3>1, <3>2 DEF PublishFails
  <2>5. QED
    BY <1>1, <1>b, <2>1, <2>2, <2>3, <2>4 DEF Relay
<1>2. ASSUME ResetStuck \/ \E q \in RunRows : DropFailedRun(q)
      PROVE  UNCHANGED <<kept, published, dlq>>
  <2>1. UNCHANGED <<sent, dlq>>
    BY <1>2 DEF ResetStuck, DropFailedRun
  <2>2. ASSUME NEW r \in TaskRows
        PROVE  rowStatus'[r] = "gone" <=> rowStatus[r] = "gone"
    <3>1. r \in Rows /\ r \notin RunRows
      BY OutboxAssumption DEF Rows
    <3>2. QED
      BY <1>a, <1>2, <3>1 DEF ResetStuck, Stuck, DropFailedRun
  <2>3. QED
    BY <2>1, <2>2 DEF kept, published
<1>3. ASSUME NEW r \in TaskRows, DeadLetter(r)
      PROVE  Contract!Next \/ UNCHANGED <<kept, published, dlq>>
  <2>1. CASE rowStatus[r] = "failed"
    <3>1. /\ rowStatus' = [rowStatus EXCEPT ![r] = "gone"]
          /\ dlq' = dlq \cup {r}
          /\ sent' = sent
      BY <1>3, <2>1 DEF DeadLetter
    <3>2. r \in kept /\ kept' = kept \ {r} /\ published' = published
      BY <1>a, <2>1, <3>1 DEF kept, published, Rows
    <3>3. Contract!GiveUp(r)
      BY <3>1, <3>2 DEF Contract!GiveUp, kept, published
    <3>4. QED
      BY <3>3 DEF Contract!Next
  <2>2. CASE rowStatus[r] # "failed"
    BY <1>3, <2>2 DEF DeadLetter, kept, published
  <2>3. QED
    BY <2>1, <2>2
<1>4. ASSUME NEW r \in TaskRows, EndAttempt(r)
      PROVE  Contract!Next \/ UNCHANGED <<kept, published, dlq>>
  <2>1. kept' = kept /\ published' = published
    BY <1>4 DEF EndAttempt, kept, published
  <2>2. dlq' = dlq \/ dlq' = dlq \cup {r}
    BY <1>4 DEF EndAttempt
  <2>3. dlq' = dlq \cup {r} => Contract!Report(r)
    BY <2>1 DEF Contract!Report, kept, published
  <2>4. QED
    BY <2>1, <2>2, <2>3 DEF Contract!Next
<1>5. CASE \/ FetchFailed
           \/ ScanFails
           \/ \E q \in Rows : BecomesDue(q) \/ LockExpires(q)
           \/ \E q \in TaskRows : LeaseTask(q) \/ SignalRetry(q)
           \/ UNCHANGED vars
  BY <1>5 DEF FetchFailed, ScanFails, BecomesDue, LockExpires, LeaseTask,
              SignalRetry, vars, kept, published
<1>6. QED
  BY <1>1, <1>2, <1>3, <1>4, <1>5 DEF Next

\* Relays and recovery together implement the at-least-once contract of the
\* tasks' signals.
THEOREM ImplementsContract == Spec => ContractSpec
<1>1. IInv /\ [Next]_vars => [Contract!Next]_<<kept, published, dlq>>
  BY ContractStep
<1>2. QED
  BY Invariance, ContractInit, <1>1, PTL
     DEF Spec, ContractSpec, Contract!Spec, kept, published
-----------------------------------------------------------------------------
(* Claims.  A row is worked on by the relay that holds its lock, and by     *)
(* those that overslept theirs: each of them used a fault.                  *)

Claimants(r) == {p \in Publishers : r \in Claimed(p)}
Held(r) == lock[r] = "live" /\ lockedBy[r] \in Claimants(r)

\* What a relay works on: nothing while it is idle, a row it is marking is not
\* yet counted as published.
WorkInv ==
  \A p \in Publishers :
    /\ publisher[p].pc = "idle" => Claimed(p) = {}
    /\ publisher[p].pc = "marking" => publisher[p].row \in Todo(p)
    /\ Todo(p) \cap publisher[p].done = {}

PendingIsUnlocked == \A r \in Rows : rowStatus[r] = "pending" => lock[r] = "none"

ClaimsInv ==
  \A r \in Rows :
    /\ IsFiniteSet(Claimants(r))
    /\ Cardinality(Claimants(r)) <= IF Held(r) THEN faults + 1 ELSE faults

LEMMA NextPending ==
  TypeOK /\ PendingIsUnlocked /\ [Next]_vars => PendingIsUnlocked'
<1> SUFFICES ASSUME TypeOK, PendingIsUnlocked, [Next]_vars
             PROVE  PendingIsUnlocked'
  OBVIOUS
<1> USE DEF PendingIsUnlocked, rowVars, taskVars
<1>a. rowStatus \in [Rows -> RowStatus] /\ lock \in [Rows -> Lock]
  BY DEF TypeOK
<1>1. ASSUME NEW p \in Publishers, RecoverStaleOwn(p) \/ DeleteBatch(p)
      PROVE  PendingIsUnlocked'
  BY <1>a, <1>1 DEF RecoverStaleOwn, DeleteBatch
<1>2. ASSUME NEW p \in Publishers, Claim(p)
      PROVE  PendingIsUnlocked'
  <2>1. PICK batch \in SUBSET Rows :
          /\ rowStatus' = [r \in Rows |-> IF r \in batch THEN "publishing"
                                          ELSE rowStatus[r]]
          /\ lock' = [r \in Rows |-> IF r \in batch THEN "live" ELSE lock[r]]
    BY <1>2 DEF Claim
  <2>2. QED
    BY <1>a, <2>1
<1>3. ASSUME NEW p \in Publishers, MarkFailure(p)
      PROVE  PendingIsUnlocked'
  BY <1>a, <1>3 DEF MarkFailure
<1>4. CASE ResetStuck
  <2>1. PICK stuck \in SUBSET Rows :
          /\ rowStatus' = [r \in Rows |-> IF r \in stuck THEN "pending"
                                          ELSE rowStatus[r]]
          /\ lock' = [r \in Rows |-> IF r \in stuck THEN "none" ELSE lock[r]]
    BY <1>4 DEF ResetStuck
  <2>2. QED
    BY <1>a, <2>1
<1>5. ASSUME NEW r \in Rows, LockExpires(r)
      PROVE  PendingIsUnlocked'
  BY <1>a, <1>5 DEF LockExpires
<1>6. ASSUME NEW r \in Rows, DropFailedRun(r) \/ DeadLetter(r)
      PROVE  PendingIsUnlocked'
  BY <1>a, <1>6 DEF DropFailedRun, DeadLetter
<1>7. ASSUME UNCHANGED rowVars \/ \E r \in Rows : BecomesDue(r)
      PROVE  PendingIsUnlocked'
  BY <1>7 DEF BecomesDue
<1>8. ASSUME NEW p \in Publishers,
             AbandonBatch(p)
               \/ \E r \in Rows : PublishConfirmed(p, r) \/ PublishFails(p, r)
      PROVE  UNCHANGED rowVars
  BY <1>8 DEF AbandonBatch, PublishConfirmed, PublishFails
<1>9. CASE \/ FetchFailed \/ ScanFails
           \/ \E r \in TaskRows : LeaseTask(r) \/ EndAttempt(r) \/ SignalRetry(r)
           \/ UNCHANGED vars
  <2>1. UNCHANGED rowVars
    BY <1>9 DEF FetchFailed, ScanFails, LeaseTask, EndAttempt, SignalRetry, vars
  <2>2. QED
    BY <1>7, <2>1
<1>10. QED
  BY <1>1, <1>2, <1>3, <1>4, <1>5, <1>6, <1>7, <1>8, <1>9
     DEF Next, Relay, Rows

\* The record of a relay after a step of its own.
Working(x) == {r \in Rows : x.todo[r] > 0} \cup x.done

LEMMA OwnWork ==
  ASSUME TypeOK, WorkInv, NEW p \in Publishers, Relay(p) \/ AbandonBatch(p)
  PROVE  /\ publisher'[p].pc = "idle" => Claimed(p)' = {}
         /\ publisher'[p].pc = "marking" => publisher'[p].row \in Todo(p)'
         /\ Todo(p)' \cap publisher'[p].done = {}
<1> DEFINE P == /\ publisher'[p].pc = "idle" => Claimed(p)' = {}
                /\ publisher'[p].pc = "marking" => publisher'[p].row \in Todo(p)'
                /\ Todo(p)' \cap publisher'[p].done = {}
<1>a. /\ publisher \in [Publishers -> Publisher]
      /\ publisher[p].todo \in [Rows -> Nat]
      /\ publisher[p].done \subseteq Rows
      /\ attemptCount \in [Rows -> Nat]
  BY DEF TypeOK, Publisher
<1>b. /\ publisher[p].pc = "marking" => publisher[p].row \in Todo(p)
      /\ Todo(p) \cap publisher[p].done = {}
  BY DEF WorkInv
<1>1. CASE RecoverStaleOwn(p)
  BY <1>1 DEF RecoverStaleOwn, WorkInv, Claimed, Todo
<1>2. CASE Claim(p)
  <2>1. PICK batch \in SUBSET Rows :
          publisher' = [publisher EXCEPT ![p] =
               [pc |-> "publishing",
                todo |-> [r \in Rows |-> IF r \in batch THEN attemptCount[r] + 1
                                         ELSE 0],
                done |-> {}, row |-> Nobody]]
    BY <1>2 DEF Claim
  <2>2. publisher'[p].pc = "publishing" /\ publisher'[p].done = {}
    BY <1>a, <2>1
  <2>3. QED
    BY <2>2
<1>3. CASE MarkFailure(p)
  <2>1. publisher'[p] = [pc |-> "publishing",
             todo |-> [publisher[p].todo EXCEPT ![publisher[p].row] = 0],
             done |-> publisher[p].done, row |-> Nobody]
    BY <1>a, <1>3 DEF MarkFailure
  <2>2. QED
    BY <1>a, <1>b, <2>1 DEF Todo
<1>4. CASE DeleteBatch(p) \/ AbandonBatch(p)
  <2>1. publisher'[p] = Idle
    BY <1>a, <1>4 DEF DeleteBatch, AbandonBatch
  <2>2. QED
    BY <2>1 DEF Idle, Claimed, Todo
<1>5. ASSUME NEW r \in Rows, PublishConfirmed(p, r)
      PROVE  P
  <2>1. publisher'[p] = [pc |-> "publishing",
             todo |-> [publisher[p].todo EXCEPT ![r] = 0],
             done |-> publisher[p].done \cup {r}, row |-> Nobody]
    BY <1>a, <1>5 DEF PublishConfirmed
  <2>2. QED
    BY <1>a, <1>b, <2>1 DEF Todo
<1>6. ASSUME NEW r \in Rows, PublishFails(p, r)
      PROVE  P
  <2>1. publisher'[p] = [pc |-> "marking", todo |-> publisher[p].todo,
             done |-> publisher[p].done, row |-> r]
    BY <1>a, <1>6 DEF PublishFails
  <2>2. r \in Todo(p)
    BY <1>6 DEF PublishFails
  <2>3. QED
    BY <1>b, <2>1, <2>2 DEF Todo
<1>7. QED
  BY <1>1, <1>2, <1>3, <1>4, <1>5, <1>6 DEF Relay

LEMMA NextWork == IInv /\ WorkInv /\ [Next]_vars => WorkInv'
<1> SUFFICES ASSUME IInv, WorkInv, [Next]_vars, NEW q \in Publishers
             PROVE  /\ publisher'[q].pc = "idle" => Claimed(q)' = {}
                    /\ publisher'[q].pc = "marking"
                         => publisher'[q].row \in Todo(q)'
                    /\ Todo(q)' \cap publisher'[q].done = {}
  BY DEF WorkInv
<1>1. CASE Relay(q) \/ AbandonBatch(q)
  BY <1>1, OwnWork DEF IInv
<1>2. CASE ~(Relay(q) \/ AbandonBatch(q))
  <2>1. publisher'[q] = publisher[q]
    BY <1>2, OtherRelays
  <2>2. QED
    BY <2>1 DEF WorkInv, Claimed, Todo
<1>3. QED
  BY <1>1, <1>2

\* A relay's step adds it to those that work on a row, or removes it.
LEMMA ClaimantsMove ==
  ASSUME TypeOK, NEW p \in Publishers, NEW r \in Rows, NEW x \in Publisher,
         publisher' = [publisher EXCEPT ![p] = x]
  PROVE  Claimants(r)' = IF r \in Working(x) THEN Claimants(r) \cup {p}
                         ELSE Claimants(r) \ {p}
<1>a. publisher \in [Publishers -> Publisher]
  BY DEF TypeOK
<1>1. \A q \in Publishers : publisher'[q] = IF q = p THEN x ELSE publisher[q]
  BY <1>a
<1>2. \A q \in Publishers :
        r \in Claimed(q)' <=> IF q = p THEN r \in Working(x) ELSE r \in Claimed(q)
  BY <1>1 DEF Claimed, Todo, Working
<1>3. QED
  BY <1>2 DEF Claimants

\* What a step may do to the claims of a row.
ClaimsKept(r) ==
  /\ Claimants(r)' = Claimants(r)
  /\ Held(r) => Held(r)'
  /\ faults' >= faults
ClaimDropped(r) ==
  /\ \E p \in Claimants(r) : Claimants(r)' = Claimants(r) \ {p}
  /\ faults' >= faults
  /\ rowStatus'[r] # "publishing" \/ faults' = faults + 1
ClaimTaken(r) ==
  /\ \E p \in Publishers \ Claimants(r) : Claimants(r)' = Claimants(r) \cup {p}
  /\ ~Held(r) /\ Held(r)'
  /\ faults' = faults
ClaimFault(r) ==
  /\ Claimants(r)' \subseteq Claimants(r)
  /\ faults' = faults + 1

LEMMA StepInv ==
  ASSUME TypeOK, ClaimsInv, NEW r \in Rows,
         ClaimsKept(r) \/ ClaimDropped(r) \/ ClaimTaken(r) \/ ClaimFault(r),
         faults' \in Nat
  PROVE  /\ IsFiniteSet(Claimants(r)')
         /\ Cardinality(Claimants(r)')
              <= IF Held(r)' THEN faults' + 1 ELSE faults'
<1>a. /\ IsFiniteSet(Claimants(r))
      /\ Cardinality(Claimants(r)) <= IF Held(r) THEN faults + 1 ELSE faults
      /\ Cardinality(Claimants(r)) \in Nat
      /\ faults \in Nat
  BY FS_CardinalityType, OutboxAssumption DEF ClaimsInv, TypeOK
<1>1. CASE ClaimsKept(r)
  BY <1>a, <1>1 DEF ClaimsKept
<1>2. CASE ClaimDropped(r)
  <2>1. PICK p \in Claimants(r) : Claimants(r)' = Claimants(r) \ {p}
    BY <1>2 DEF ClaimDropped
  <2>2. /\ IsFiniteSet(Claimants(r)')
        /\ Cardinality(Claimants(r)') = Cardinality(Claimants(r)) - 1
    BY <1>a, <2>1, FS_RemoveElement
  <2>3. faults' >= faults
    BY <1>2 DEF ClaimDropped
  <2>4. QED
    BY <1>a, <2>2, <2>3
<1>3. CASE ClaimTaken(r)
  <2>1. PICK p \in Publishers \ Claimants(r) :
          Claimants(r)' = Claimants(r) \cup {p}
    BY <1>3 DEF ClaimTaken
  <2>2. /\ IsFiniteSet(Claimants(r)')
        /\ Cardinality(Claimants(r)') = Cardinality(Claimants(r)) + 1
    BY <1>a, <2>1, FS_AddElement
  <2>3. ~Held(r) /\ Held(r)' /\ faults' = faults
    BY <1>3 DEF ClaimTaken
  <2>4. QED
    BY <1>a, <2>2, <2>3
<1>4. CASE ClaimFault(r)
  <2>1. /\ IsFiniteSet(Claimants(r)')
        /\ Cardinality(Claimants(r)') <= Cardinality(Claimants(r))
        /\ Cardinality(Claimants(r)') \in Nat
    BY <1>a, <1>4, FS_Subset, FS_CardinalityType DEF ClaimFault
  <2>2. QED
    BY <1>a, <1>4, <2>1 DEF ClaimFault
<1>5. QED
  BY <1>1, <1>2, <1>3, <1>4

LEMMA RelayClaims ==
  ASSUME IInv, WorkInv, PendingIsUnlocked, NEW r \in Rows,
         NEW p \in Publishers, Relay(p) \/ AbandonBatch(p)
  PROVE  ClaimsKept(r) \/ ClaimDropped(r) \/ ClaimTaken(r) \/ ClaimFault(r)
<1> DEFINE P == ClaimsKept(r) \/ ClaimDropped(r) \/ ClaimTaken(r) \/ ClaimFault(r)
<1>a. /\ publisher \in [Publishers -> Publisher]
      /\ publisher[p].todo \in [Rows -> Nat]
      /\ publisher[p].done \subseteq Rows
      /\ attemptCount \in [Rows -> Nat]
      /\ lock \in [Rows -> Lock]
      /\ lockedBy \in [Rows -> Publishers \cup {Nobody}]
      /\ rowStatus \in [Rows -> RowStatus]
      /\ faults \in Nat
      /\ TypeOK
  BY OutboxAssumption DEF IInv, TypeOK, Publisher
<1>b. p \in Claimants(r) <=> r \in Claimed(p)
  BY DEF Claimants
<1>1. CASE RecoverStaleOwn(p)
  <2>1. publisher' = publisher /\ faults' = faults
    BY <1>1 DEF RecoverStaleOwn
  <2>2. Claimants(r)' = Claimants(r)
    BY <2>1 DEF Claimants, Claimed, Todo
  <2>3. Held(r) => UNCHANGED <<lock[r], lockedBy[r]>>
    BY <1>a, <1>1 DEF RecoverStaleOwn, Stuck, Held
  <2>4. QED
    BY <1>a, <2>1, <2>2, <2>3 DEF ClaimsKept, Held
<1>2. CASE Claim(p)
  <2>1. PICK batch \in SUBSET {q \in Rows : Claimable(q)} :
          /\ lockedBy' = [q \in Rows |-> IF q \in batch THEN p ELSE lockedBy[q]]
          /\ lock' = [q \in Rows |-> IF q \in batch THEN "live" ELSE lock[q]]
          /\ publisher' = [publisher EXCEPT ![p] =
               [pc |-> "publishing",
                todo |-> [q \in Rows |-> IF q \in batch THEN attemptCount[q] + 1
                                         ELSE 0],
                done |-> {}, row |-> Nobody]]
          /\ faults' = faults
    BY <1>2 DEF Claim
  <2> DEFINE x == [pc |-> "publishing",
                   todo |-> [q \in Rows |-> IF q \in batch
                               THEN attemptCount[q] + 1 ELSE 0],
                   done |-> {}, row |-> Nobody]
  <2>2. x \in Publisher
    BY <1>a DEF Publisher
  <2>3. r \in Working(x) <=> r \in batch
    BY <1>a DEF Working
  <2>4. Claimants(r)' = IF r \in batch THEN Claimants(r) \cup {p}
                        ELSE Claimants(r) \ {p}
    BY <1>a, <2>1, <2>2, <2>3, ClaimantsMove
  <2>5. p \notin Claimants(r)
    BY <1>2, <1>b DEF Claim, WorkInv
  <2>6. CASE r \in batch
    <3>1. lock[r] = "none"
      BY <2>1, <2>6 DEF Claimable, PendingIsUnlocked
    <3>2. lock'[r] = "live" /\ lockedBy'[r] = p
      BY <2>1, <2>6
    <3>3. Claimants(r)' = Claimants(r) \cup {p}
      BY <2>4, <2>6
    <3>4. ~Held(r) /\ Held(r)'
      BY <3>1, <3>2, <3>3 DEF Held
    <3>5. QED
      BY <2>1, <2>5, <3>3, <3>4 DEF ClaimTaken
  <2>7. CASE r \notin batch
    <3>1. lock'[r] = lock[r] /\ lockedBy'[r] = lockedBy[r]
      BY <2>1, <2>7
    <3>2. Claimants(r)' = Claimants(r)
      BY <2>4, <2>5, <2>7
    <3>3. QED
      BY <1>a, <2>1, <3>1, <3>2 DEF ClaimsKept, Held
  <2>8. QED
    BY <2>6, <2>7
<1>3. CASE MarkFailure(p)
  <2> DEFINE x == [pc |-> "publishing",
                   todo |-> [publisher[p].todo EXCEPT ![publisher[p].row] = 0],
                   done |-> publisher[p].done, row |-> Nobody]
  <2>1. publisher' = [publisher EXCEPT ![p] = x] /\ faults' = faults
    BY <1>3 DEF MarkFailure
  <2>2. x \in Publisher
    BY <1>a DEF Publisher
  <2>3. publisher[p].row \in Todo(p) /\ Todo(p) \cap publisher[p].done = {}
    BY <1>3 DEF MarkFailure, WorkInv
  <2>4. r \in Working(x) <=> r \in Claimed(p) \ {publisher[p].row}
    BY <1>a, <2>3 DEF Working, Claimed, Todo
  <2>5. CASE r = publisher[p].row
    <3>1. Claimants(r)' = Claimants(r) \ {p}
      BY <1>a, <2>1, <2>2, <2>4, <2>5, ClaimantsMove
    <3>2. p \in Claimants(r)
      BY <1>b, <2>3, <2>5 DEF Claimed
    <3>3. rowStatus'[r] # "publishing"
      BY <1>a, <1>3, <2>5 DEF MarkFailure, AfterFailure
    <3>4. QED
      BY <1>a, <2>1, <3>1, <3>2, <3>3 DEF ClaimDropped
  <2>6. CASE r # publisher[p].row
    <3>a. Claimants(r)' = IF r \in Working(x) THEN Claimants(r) \cup {p}
                          ELSE Claimants(r) \ {p}
      BY <1>a, <2>1, <2>2, ClaimantsMove
    <3>b. r \in Working(x) <=> p \in Claimants(r)
      BY <1>b, <2>4, <2>6
    <3>1. Claimants(r)' = Claimants(r)
      BY <3>a, <3>b
    <3>2. lock'[r] = lock[r] /\ lockedBy'[r] = lockedBy[r]
      BY <1>a, <1>3, <2>6 DEF MarkFailure
    <3>3. QED
      BY <1>a, <2>1, <3>1, <3>2 DEF ClaimsKept, Held
  <2>7. QED
    BY <2>5, <2>6
<1>4. CASE DeleteBatch(p) \/ AbandonBatch(p)
  <2>1. publisher' = [publisher EXCEPT ![p] = Idle]
    BY <1>4 DEF DeleteBatch, AbandonBatch
  <2>2. /\ UNCHANGED <<lock, lockedBy>>
        /\ faults' = faults \/ faults' = faults + 1
    BY <1>4 DEF DeleteBatch, AbandonBatch, rowVars
  <2>3. Idle \in Publisher /\ r \notin Working(Idle)
    BY DEF Idle, Publisher, Working
  <2>4. Claimants(r)' = Claimants(r) \ {p}
    BY <1>a, <2>1, <2>3, ClaimantsMove
  <2>5. CASE p \in Claimants(r)
    <3>1. rowStatus'[r] # "publishing" \/ faults' = faults + 1
      BY <1>a, <1>b, <1>4, <2>5 DEF DeleteBatch, AbandonBatch, Claimed
    <3>2. QED
      BY <1>a, <2>2, <2>4, <2>5, <3>1 DEF ClaimDropped
  <2>6. CASE p \notin Claimants(r)
    BY <1>a, <2>2, <2>4, <2>6 DEF ClaimsKept, Held
  <2>7. QED
    BY <2>5, <2>6
<1>5. ASSUME NEW q \in Rows, PublishConfirmed(p, q) \/ PublishFails(p, q)
      PROVE  P
  <2> DEFINE x == [pc |-> "publishing",
                   todo |-> [publisher[p].todo EXCEPT ![q] = 0],
                   done |-> publisher[p].done \cup {q}, row |-> Nobody]
             y == [pc |-> "marking", todo |-> publisher[p].todo,
                   done |-> publisher[p].done, row |-> q]
  <2>1. /\ \/ publisher' = [publisher EXCEPT ![p] = x]
           \/ publisher' = [publisher EXCEPT ![p] = y]
        /\ UNCHANGED <<lock, lockedBy, faults>>
        /\ q \in Todo(p)
    BY <1>5 DEF PublishConfirmed, PublishFails, rowVars
  <2>2. x \in Publisher /\ y \in Publisher
    BY <1>a DEF Publisher
  <2>3. /\ r \in Working(x) <=> r \in Claimed(p)
        /\ r \in Working(y) <=> r \in Claimed(p)
    BY <1>a, <2>1 DEF Working, Claimed, Todo
  <2>4. Claimants(r)' = Claimants(r)
    <3>1. CASE publisher' = [publisher EXCEPT ![p] = x]
      <4>1. Claimants(r)' = IF r \in Working(x) THEN Claimants(r) \cup {p}
                            ELSE Claimants(r) \ {p}
        BY <1>a, <2>2, <3>1, ClaimantsMove
      <4>2. r \in Working(x) <=> p \in Claimants(r)
        BY <1>b, <2>3
      <4>3. QED
        BY <4>1, <4>2
    <3>2. CASE publisher' = [publisher EXCEPT ![p] = y]
      <4>1. Claimants(r)' = IF r \in Working(y) THEN Claimants(r) \cup {p}
                            ELSE Claimants(r) \ {p}
        BY <1>a, <2>2, <3>2, ClaimantsMove
      <4>2. r \in Working(y) <=> p \in Claimants(r)
        BY <1>b, <2>3
      <4>3. QED
        BY <4>1, <4>2
    <3>3. QED
      BY <2>1, <3>1, <3>2
  <2>5. QED
    BY <1>a, <2>1, <2>4 DEF ClaimsKept, Held
<1>6. QED
  BY <1>1, <1>2, <1>3, <1>4, <1>5 DEF Relay

LEMMA StepClaims ==
  ASSUME IInv, WorkInv, PendingIsUnlocked, [Next]_vars, NEW r \in Rows
  PROVE  ClaimsKept(r) \/ ClaimDropped(r) \/ ClaimTaken(r) \/ ClaimFault(r)
<1>a. /\ lock \in [Rows -> Lock] /\ faults \in Nat
      /\ lockedBy \in [Rows -> Publishers \cup {Nobody}]
  BY OutboxAssumption DEF IInv, TypeOK
<1>b. publisher' = publisher => Claimants(r)' = Claimants(r)
  BY DEF Claimants, Claimed, Todo
<1>1. ASSUME NEW p \in Publishers, Relay(p) \/ AbandonBatch(p)
      PROVE  ClaimsKept(r) \/ ClaimDropped(r) \/ ClaimTaken(r) \/ ClaimFault(r)
  BY <1>1, RelayClaims
<1>2. CASE ResetStuck
  <2>1. PICK stuck \in SUBSET {q \in Rows : Stuck(q)} :
          /\ lockedBy' = [q \in Rows |-> IF q \in stuck THEN Nobody
                                         ELSE lockedBy[q]]
          /\ lock' = [q \in Rows |-> IF q \in stuck THEN "none" ELSE lock[q]]
          /\ UNCHANGED <<publisher, faults>>
    BY <1>2 DEF ResetStuck
  <2>2. Held(r) => UNCHANGED <<lock[r], lockedBy[r]>>
    BY <2>1 DEF Stuck, Held
  <2>3. QED
    BY <1>a, <1>b, <2>1, <2>2 DEF ClaimsKept, Held
<1>3. ASSUME NEW q \in Rows, LockExpires(q)
      PROVE  ClaimsKept(r) \/ ClaimFault(r)
  <2>1. publisher' = publisher /\ lockedBy' = lockedBy
    BY <1>3 DEF LockExpires
  <2>2. CASE q # r
    <3>1. lock'[r] = lock[r] /\ faults' >= faults
      BY <1>a, <1>3, <2>2 DEF LockExpires
    <3>2. QED
      BY <1>b, <2>1, <3>1 DEF ClaimsKept, Held
  <2>3. CASE q = r /\ Held(r)
    <3>1. lockedBy[r] \in Publishers /\ r \in Claimed(lockedBy[r])
      BY <2>3 DEF Held, Claimants
    <3>2. faults' = faults + 1
      BY <1>3, <2>3, <3>1 DEF LockExpires
    <3>3. QED
      BY <1>b, <2>1, <3>2 DEF ClaimFault
  <2>4. CASE q = r /\ ~Held(r)
    <3>1. faults' >= faults
      BY <1>a, <1>3 DEF LockExpires
    <3>2. QED
      BY <1>b, <2>1, <2>4, <3>1 DEF ClaimsKept
  <2>5. QED
    BY <2>2, <2>3, <2>4
<1>4. CASE \/ FetchFailed \/ ScanFails
           \/ \E q \in Rows : BecomesDue(q)
           \/ \E q \in RunRows : DropFailedRun(q)
           \/ \E q \in TaskRows : DeadLetter(q) \/ LeaseTask(q) \/ EndAttempt(q) \/ SignalRetry(q)
           \/ UNCHANGED vars
  <2>1. UNCHANGED <<publisher, lock, lockedBy>> /\ faults' >= faults
    BY <1>a, <1>4 DEF FetchFailed, ScanFails, BecomesDue, DropFailedRun,
                DeadLetter, LeaseTask, EndAttempt, SignalRetry, vars, rowVars
  <2>2. QED
    BY <1>b, <2>1 DEF ClaimsKept, Held
<1>5. QED
  BY <1>1, <1>2, <1>3, <1>4 DEF Next

LEMMA NextClaims ==
  IInv /\ WorkInv /\ PendingIsUnlocked /\ ClaimsInv /\ [Next]_vars => ClaimsInv'
<1> SUFFICES ASSUME IInv, WorkInv, PendingIsUnlocked, ClaimsInv, [Next]_vars
             PROVE  ClaimsInv'
  OBVIOUS
<1>1. TypeOK /\ TypeOK'
  BY NextType DEF IInv
<1>2. faults' \in Nat
  BY <1>1, OutboxAssumption DEF TypeOK
<1>3. ASSUME NEW r \in Rows
      PROVE  /\ IsFiniteSet(Claimants(r)')
             /\ Cardinality(Claimants(r)')
                  <= IF Held(r)' THEN faults' + 1 ELSE faults'
  BY <1>1, <1>2, StepClaims, StepInv
<1>4. QED
  BY <1>3 DEF ClaimsInv

\* Two relays publish one row at a time only when one of them overslept its
\* lock: claim_batch, the marks, the deletion and both recoveries keep the
\* claims apart, although the marks and the deletion ask for no owner.
THEOREM ClaimsApart == Spec => []ClaimsAreExclusive
<1> DEFINE J == WorkInv /\ PendingIsUnlocked /\ ClaimsInv
<1>1. Init => J
  <2> SUFFICES ASSUME Init PROVE J
    OBVIOUS
  <2>1. \A p \in Publishers : Claimed(p) = {} /\ Todo(p) = {}
                              /\ publisher[p].pc = "idle"
    BY DEF Init, Idle, Claimed, Todo
  <2>2. \A r \in Rows : Claimants(r) = {}
    BY <2>1 DEF Claimants
  <2>3. ClaimsInv
    <3>1. faults = 0 /\ \A r \in Rows : lock[r] = "none"
      BY DEF Init
    <3>2. \A r \in Rows : IsFiniteSet(Claimants(r)) /\ Cardinality(Claimants(r)) = 0
      BY <2>2, FS_EmptySet
    <3>3. QED
      BY <3>1, <3>2 DEF ClaimsInv, Held
  <2>4. PendingIsUnlocked
    BY DEF Init, PendingIsUnlocked
  <2>5. QED
    BY <2>1, <2>3, <2>4 DEF WorkInv
<1>2. IInv /\ J /\ [Next]_vars => J'
  BY NextWork, NextPending, NextClaims DEF IInv
<1>3. IInv /\ J => ClaimsAreExclusive
  <2> SUFFICES ASSUME IInv, J, NEW r \in Rows
               PROVE  Cardinality(Claimants(r)) <= faults + 1
    BY DEF ClaimsAreExclusive, Claimants
  <2>1. faults \in Nat /\ Cardinality(Claimants(r)) \in Nat
    BY FS_CardinalityType, OutboxAssumption DEF IInv, TypeOK, ClaimsInv
  <2>2. QED
    BY <2>1 DEF ClaimsInv
<1>4. QED
  BY Invariance, <1>1, <1>2, <1>3, PTL DEF Spec


-----------------------------------------------------------------------------
(* Attempts.  attempt_count is raised by a claim and by reset_stuck_outbox: *)
(* a reset is paid for by the fault that left the row to nobody.            *)

\* A row under publication that no live lock protects.
Orphan(r) == IF rowStatus[r] = "publishing" /\ ~Held(r) THEN 1 ELSE 0

CountOK(r) ==
  /\ attemptCount[r] + Orphan(r) <= claims[r] + faults
  /\ attemptCount[r] <= 2 * claims[r]
  /\ rowStatus[r] = "publishing" => attemptCount[r] < 2 * claims[r]
  /\ \A p \in Publishers :
       publisher[p].todo[r] > 0 => publisher[p].todo[r] < 2 * claims[r]

CountInv == \A r \in Rows : CountOK(r)

\* What a step may do to the counts of a row.
CountKept(r) ==
  /\ attemptCount'[r] = attemptCount[r] /\ claims'[r] = claims[r]
  /\ rowStatus'[r] = "publishing" => rowStatus[r] = "publishing"
  /\ \A p \in Publishers : publisher'[p].todo[r] \in {0, publisher[p].todo[r]}
CountClaimed(r) ==
  /\ attemptCount'[r] = attemptCount[r] + 1 /\ claims'[r] = claims[r] + 1
  /\ faults' = faults
  /\ Held(r)'
  /\ \A p \in Publishers :
       publisher'[p].todo[r] \in {publisher[p].todo[r], attemptCount[r] + 1}
CountReset(r) ==
  /\ attemptCount'[r] = attemptCount[r] + 1 /\ claims'[r] = claims[r]
  /\ faults' = faults
  /\ rowStatus[r] = "publishing" /\ ~Held(r) /\ rowStatus'[r] = "pending"
  /\ publisher' = publisher

LEMMA RelayCounts ==
  ASSUME IInv, WorkInv, NEW r \in Rows,
         NEW p \in Publishers, Relay(p) \/ AbandonBatch(p)
  PROVE  CountKept(r) \/ CountClaimed(r)
<1>a. /\ publisher \in [Publishers -> Publisher]
      /\ \A q \in Publishers : publisher[q].todo \in [Rows -> Nat]
      /\ attemptCount \in [Rows -> Nat]
      /\ claims \in [Rows -> Nat]
      /\ rowStatus \in [Rows -> RowStatus]
  BY DEF IInv, TypeOK, Publisher
<1>1. CASE RecoverStaleOwn(p)
  BY <1>a, <1>1 DEF RecoverStaleOwn, CountKept
<1>2. CASE Claim(p)
  <2>1. PICK batch \in SUBSET Rows :
          /\ rowStatus' = [q \in Rows |-> IF q \in batch THEN "publishing"
                                          ELSE rowStatus[q]]
          /\ lockedBy' = [q \in Rows |-> IF q \in batch THEN p ELSE lockedBy[q]]
          /\ lock' = [q \in Rows |-> IF q \in batch THEN "live" ELSE lock[q]]
          /\ attemptCount' = [q \in Rows |-> IF q \in batch THEN attemptCount[q] + 1
                                             ELSE attemptCount[q]]
          /\ publisher' = [publisher EXCEPT ![p] =
               [pc |-> "publishing",
                todo |-> [q \in Rows |-> IF q \in batch THEN attemptCount[q] + 1
                                         ELSE 0],
                done |-> {}, row |-> Nobody]]
          /\ claims' = [q \in Rows |-> IF q \in batch THEN claims[q] + 1
                                       ELSE claims[q]]
          /\ faults' = faults
    BY <1>2 DEF Claim
  <2>2. /\ publisher'[p].todo[r] = IF r \in batch THEN attemptCount[r] + 1 ELSE 0
        /\ \A q \in Publishers \ {p} : publisher'[q] = publisher[q]
    BY <1>a, <2>1
  <2>3. CASE r \in batch
    <3>1. lock'[r] = "live" /\ lockedBy'[r] = p
      BY <2>1, <2>3
    <3>2. p \in Claimants(r)'
      BY <1>a, <2>2, <2>3 DEF Claimants, Claimed, Todo
    <3>3. attemptCount'[r] = attemptCount[r] + 1 /\ claims'[r] = claims[r] + 1
      BY <2>1, <2>3
    <3>4. QED
      BY <1>a, <2>1, <2>2, <2>3, <3>1, <3>2, <3>3 DEF CountClaimed, Held
  <2>4. CASE r \notin batch
    BY <1>a, <2>1, <2>2, <2>4 DEF CountKept
  <2>5. QED
    BY <2>3, <2>4
<1>3. CASE MarkFailure(p)
  <2>1. /\ publisher' = [publisher EXCEPT ![p] = [pc |-> "publishing",
             todo |-> [publisher[p].todo EXCEPT ![publisher[p].row] = 0],
             done |-> publisher[p].done, row |-> Nobody]]
        /\ UNCHANGED <<attemptCount, claims>>
    BY <1>3 DEF MarkFailure
  <2>2. rowStatus'[r] = "publishing" => rowStatus[r] = "publishing"
    BY <1>a, <1>3 DEF MarkFailure, AfterFailure
  <2>3. QED
    BY <1>a, <2>1, <2>2 DEF CountKept
<1>4. CASE DeleteBatch(p) \/ AbandonBatch(p)
  <2>1. /\ publisher' = [publisher EXCEPT ![p] = Idle]
        /\ UNCHANGED <<attemptCount, claims>>
    BY <1>4 DEF DeleteBatch, AbandonBatch, rowVars
  <2>2. rowStatus'[r] = "publishing" => rowStatus[r] = "publishing"
    BY <1>a, <1>4 DEF DeleteBatch, AbandonBatch, rowVars
  <2>3. QED
    BY <1>a, <2>1, <2>2 DEF CountKept, Idle
<1>5. ASSUME NEW q \in Rows, PublishConfirmed(p, q) \/ PublishFails(p, q)
      PROVE  CountKept(r)
  <2>1. /\ \/ publisher' = [publisher EXCEPT ![p] = [pc |-> "publishing",
                   todo |-> [publisher[p].todo EXCEPT ![q] = 0],
                   done |-> publisher[p].done \cup {q}, row |-> Nobody]]
           \/ publisher' = [publisher EXCEPT ![p] =
                   [pc |-> "marking", todo |-> publisher[p].todo,
                    done |-> publisher[p].done, row |-> q]]
        /\ UNCHANGED <<rowStatus, attemptCount, claims>>
    BY <1>5 DEF PublishConfirmed, PublishFails, rowVars
  <2>2. QED
    BY <1>a, <2>1 DEF CountKept
<1>6. QED
  BY <1>1, <1>2, <1>3, <1>4, <1>5 DEF Relay

LEMMA StepCounts ==
  ASSUME IInv, WorkInv, PendingIsUnlocked, [Next]_vars, NEW r \in Rows
  PROVE  CountKept(r) \/ CountClaimed(r) \/ CountReset(r)
<1>a. /\ attemptCount \in [Rows -> Nat]
      /\ rowStatus \in [Rows -> RowStatus]
  BY DEF IInv, TypeOK
<1>1. ASSUME NEW p \in Publishers, Relay(p) \/ AbandonBatch(p)
      PROVE  CountKept(r) \/ CountClaimed(r)
  BY <1>1, RelayCounts
<1>2. CASE ResetStuck
  <2>1. PICK stuck \in SUBSET {q \in Rows : Stuck(q)} :
          /\ rowStatus' = [q \in Rows |-> IF q \in stuck THEN "pending"
                                          ELSE rowStatus[q]]
          /\ attemptCount' = [q \in Rows |-> IF q \in stuck THEN attemptCount[q] + 1
                                             ELSE attemptCount[q]]
          /\ UNCHANGED <<publisher, faults, claims>>
    BY <1>2 DEF ResetStuck
  <2>2. CASE r \in stuck
    <3>1. rowStatus[r] = "publishing" /\ ~Held(r)
      BY <2>1, <2>2 DEF Stuck, Held
    <3>2. QED
      BY <1>a, <2>1, <2>2, <3>1 DEF CountReset
  <2>3. CASE r \notin stuck
    BY <1>a, <2>1, <2>3 DEF CountKept
  <2>4. QED
    BY <2>2, <2>3
<1>3. ASSUME NEW q \in Rows, DropFailedRun(q) \/ DeadLetter(q)
      PROVE  CountKept(r)
  BY <1>a, <1>3 DEF DropFailedRun, DeadLetter, CountKept
<1>4. CASE \/ FetchFailed \/ ScanFails
           \/ \E q \in Rows : BecomesDue(q) \/ LockExpires(q)
           \/ \E q \in TaskRows : LeaseTask(q) \/ EndAttempt(q) \/ SignalRetry(q)
           \/ UNCHANGED vars
  <2>1. UNCHANGED <<rowStatus, attemptCount, claims, publisher>>
    BY <1>4 DEF FetchFailed, ScanFails, BecomesDue, LockExpires, LeaseTask,
                EndAttempt, SignalRetry, vars, rowVars
  <2>2. QED
    BY <2>1 DEF CountKept
<1>5. QED
  BY <1>1, <1>2, <1>3, <1>4 DEF Next, Rows

LEMMA NextCounts ==
  ASSUME IInv, WorkInv, PendingIsUnlocked, CountInv, [Next]_vars
  PROVE  CountInv'
<1> SUFFICES ASSUME NEW r \in Rows PROVE CountOK(r)'
  BY DEF CountInv
<1>a. TypeOK /\ TypeOK'
  BY NextType DEF IInv
<1>b. /\ attemptCount[r] \in Nat /\ claims[r] \in Nat
      /\ \A p \in Publishers : publisher[p].todo[r] \in Nat
      /\ faults \in Nat /\ faults' \in Nat
      /\ attemptCount'[r] \in Nat /\ claims'[r] \in Nat
  BY <1>a, OutboxAssumption DEF TypeOK, Publisher
<1>c. CountOK(r)
  BY DEF CountInv
<1>d. faults' >= faults
      /\ (Held(r) /\ rowStatus'[r] = "publishing" => Held(r)' \/ faults' = faults + 1)
  BY <1>b, StepClaims DEF ClaimsKept, ClaimDropped, ClaimTaken, ClaimFault
<1>1. CASE CountKept(r)
  <2>1. attemptCount'[r] + Orphan(r)' <= claims'[r] + faults'
    BY <1>b, <1>c, <1>d, <1>1 DEF CountKept, CountOK, Orphan
  <2>2. \A p \in Publishers :
          publisher'[p].todo[r] > 0 => publisher'[p].todo[r] < 2 * claims'[r]
    BY <1>b, <1>c, <1>1 DEF CountKept, CountOK
  <2>3. QED
    BY <1>b, <1>c, <1>1, <2>1, <2>2 DEF CountKept, CountOK
<1>2. CASE CountClaimed(r)
  <2>1. attemptCount'[r] + Orphan(r)' <= claims'[r] + faults'
    BY <1>b, <1>c, <1>2 DEF CountClaimed, CountOK, Orphan
  <2>2. \A p \in Publishers :
          publisher'[p].todo[r] > 0 => publisher'[p].todo[r] < 2 * claims'[r]
    BY <1>b, <1>c, <1>2 DEF CountClaimed, CountOK
  <2>3. QED
    BY <1>b, <1>c, <1>2, <2>1, <2>2 DEF CountClaimed, CountOK
<1>3. CASE CountReset(r)
  BY <1>b, <1>c, <1>3 DEF CountReset, CountOK, Orphan
<1>4. QED
  BY <1>1, <1>2, <1>3, StepCounts

LEMMA NextFails ==
  ASSUME IInv, WorkInv, PendingIsUnlocked, CountInv, FailsByClaims, [Next]_vars
  PROVE  FailsByClaims'
<1> SUFFICES ASSUME NEW r \in Rows, rowStatus'[r] = "failed"
             PROVE  claims'[r] + faults' >= MaxAttempts
                      /\ 2 * claims'[r] > MaxAttempts
  BY DEF FailsByClaims
<1>a. TypeOK /\ TypeOK'
  BY NextType DEF IInv
<1>b. /\ attemptCount[r] \in Nat /\ claims[r] \in Nat
      /\ \A p \in Publishers : publisher[p].todo[r] \in Nat
      /\ faults \in Nat /\ faults' \in Nat
      /\ claims'[r] \in Nat /\ MaxAttempts \in Nat \ {0}
  BY <1>a, OutboxAssumption DEF TypeOK, Publisher
<1>c. claims'[r] >= claims[r] /\ faults' >= faults
  BY <1>b, StepCounts, StepClaims
     DEF CountKept, CountClaimed, CountReset,
         ClaimsKept, ClaimDropped, ClaimTaken, ClaimFault
<1>1. CASE rowStatus[r] = "failed"
  BY <1>b, <1>c, <1>1 DEF FailsByClaims
<1>2. ASSUME NEW p \in Publishers, Exhausted(publisher[p].todo[r])
      PROVE  claims[r] + faults >= MaxAttempts /\ 2 * claims[r] > MaxAttempts
  <2>1. /\ publisher[p].todo[r] <= attemptCount[r]
        /\ publisher[p].todo[r] >= MaxAttempts
    BY <1>2 DEF IInv, BatchInv, Exhausted
  <2>2. /\ attemptCount[r] + Orphan(r) <= claims[r] + faults
        /\ publisher[p].todo[r] > 0 => publisher[p].todo[r] < 2 * claims[r]
    BY DEF CountInv, CountOK
  <2>3. Orphan(r) \in {0, 1}
    BY DEF Orphan
  <2>4. QED
    BY <1>b, <2>1, <2>2, <2>3
<1>3. QED
  BY <1>b, <1>c, <1>1, <1>2, RowsFail

\* A row that relays, crashes, late marks and reset_stuck_outbox brought to
\* failed was claimed max_attempts times, less one for each fault, and more
\* than half as often: reset_stuck_outbox counts a claim a second time only
\* after a fault, and never a third time.
THEOREM FailedByClaims == Spec => []FailsByClaims
<1> DEFINE J == WorkInv /\ PendingIsUnlocked /\ CountInv /\ FailsByClaims
<1>1. Init => J
  <2> SUFFICES ASSUME Init PROVE J
    OBVIOUS
  <2>1. /\ \A p \in Publishers : publisher[p] = Idle
        /\ \A r \in Rows : /\ lock[r] = "none" /\ attemptCount[r] = 0
                           /\ claims[r] = 0 /\ rowStatus[r] \in {"pending", "gone"}
        /\ faults = 0
    BY DEF Init
  <2>2. WorkInv
    BY <2>1 DEF WorkInv, Idle, Claimed, Todo
  <2>3. PendingIsUnlocked /\ FailsByClaims
    BY <2>1 DEF PendingIsUnlocked, FailsByClaims
  <2>4. CountInv
    BY <2>1 DEF CountInv, CountOK, Orphan, Idle
  <2>5. QED
    BY <2>2, <2>3, <2>4
<1>2. IInv /\ J /\ [Next]_vars => J'
  BY NextWork, NextPending, NextCounts, NextFails DEF IInv
<1>3. J => FailsByClaims
  OBVIOUS
<1>4. QED
  BY Invariance, <1>1, <1>2, <1>3, PTL DEF Spec
=============================================================================
