----------------------------- MODULE EngineProofs -----------------------------
(* More of OpportunityExecution: the queue's pause and its length, that the     *)
(* engine implements OpportunityLedger, whose message a dedup key belongs to,   *)
(* that pending entries are tracked, and that acknowledgements are earned.      *)
EXTENDS OpportunityExecution_proofs, FiniteSetTheorems

\* Instances that never started have an untouched queue.
OffIsIdle ==
  \A i \in Instances :
    inst[i] = "off" => ~paused[i] /\ \A m \in Msgs : phase[i][m] = "none"

\* Nobody holds a message that nobody has read.
UnreadIsUntouched ==
  \A i \in Instances, m \in Msgs : status[m] = "new" => phase[i][m] = "none"

QueueInv == OffIsIdle /\ UnreadIsUntouched /\ PausedHasBacklog

QueueSet(i) == In(i, {"queued"})

\* Queues are finite, before and after a step.
LEMMA QueueIsFinite ==
  ASSUME NEW i \in Instances
  PROVE  IsFiniteSet(QueueSet(i)) /\ QueueLen(i) \in Nat /\ IsFiniteSet(QueueSet(i))'
<1>1. QueueSet(i) \subseteq Msgs /\ QueueSet(i)' \subseteq Msgs
  BY DEF QueueSet, In
<1>2. IsFiniteSet(Msgs)
  BY RolesAssumption
<1>3. IsFiniteSet(QueueSet(i)) /\ IsFiniteSet(QueueSet(i)')
  BY <1>1, <1>2, FS_Subset
<1>4. QueueLen(i) \in Nat
  BY <1>3, FS_CardinalityType DEF QueueLen, QueueSet
<1> QED BY <1>3, <1>4

\* A step that moves one message of one instance between phases outside the queue.
LEMMA OutsideQueue ==
  ASSUME TypeOK, NEW i \in Instances, NEW m \in Msgs, NEW p,
         SetPhase(i, m, p), phase[i][m] # "queued", p # "queued"
  PROVE  \A j \in Instances : QueueLen(j)' = QueueLen(j)
<1> SUFFICES ASSUME NEW j \in Instances PROVE QueueSet(j)' = QueueSet(j)
  BY DEF QueueLen, QueueSet
<1> QED BY DEF SetPhase, QueueSet, In, TypeOK, ServiceTypes

\* A message that enters the queue makes it longer by one.
LEMMA Enqueued ==
  ASSUME TypeOK, NEW i \in Instances, NEW m \in Msgs,
         SetPhase(i, m, "queued"), phase[i][m] # "queued"
  PROVE  /\ QueueLen(i)' = QueueLen(i) + 1
         /\ \A j \in Instances \ {i} : QueueLen(j)' = QueueLen(j)
<1>1. QueueSet(i)' = QueueSet(i) \cup {m} /\ m \notin QueueSet(i)
  BY DEF SetPhase, QueueSet, In, TypeOK, ServiceTypes
<1>2. QueueLen(i)' = QueueLen(i) + 1
  BY <1>1, QueueIsFinite, FS_AddElement DEF QueueLen, QueueSet
<1>3. ASSUME NEW j \in Instances \ {i} PROVE QueueSet(j)' = QueueSet(j)
  BY DEF SetPhase, QueueSet, In, TypeOK, ServiceTypes
<1> QED BY <1>2, <1>3 DEF QueueLen, QueueSet

\* A message that leaves the queue makes it shorter by one.
LEMMA Dequeued ==
  ASSUME TypeOK, NEW i \in Instances, NEW m \in Msgs, NEW p,
         SetPhase(i, m, p), phase[i][m] = "queued", p # "queued"
  PROVE  /\ QueueLen(i)' = QueueLen(i) - 1
         /\ \A j \in Instances \ {i} : QueueLen(j)' = QueueLen(j)
<1>1. QueueSet(i)' = QueueSet(i) \ {m} /\ m \in QueueSet(i)
  BY DEF SetPhase, QueueSet, In, TypeOK, ServiceTypes
<1>2. QueueLen(i)' = QueueLen(i) - 1
  BY <1>1, QueueIsFinite, FS_RemoveElement DEF QueueLen, QueueSet
<1>3. ASSUME NEW j \in Instances \ {i} PROVE QueueSet(j)' = QueueSet(j)
  BY DEF SetPhase, QueueSet, In, TypeOK, ServiceTypes
<1> QED BY <1>2, <1>3 DEF QueueLen, QueueSet

\* Reading is for good.
StaysRead == \A m \in Msgs : status'[m] = "new" => status[m] = "new"

\* Settling a message does not make it unread.
LEMMA SettleStaysRead ==
  ASSUME TypeOK, NEW ms, NEW why \in Settled, Settle(ms, why)
  PROVE  StaysRead
BY DEF TypeOK, RedisTypes, Settle, Settled, StaysRead

\* An XACK, sent or failed, makes no message unread.
LEMMA AckStaysRead ==
  ASSUME TypeOK, NEW i \in Instances, NEW m \in Msgs, NEW why \in Settled,
         AckNow(i, m, why)
  PROVE  StaysRead
BY SettleStaysRead DEF AckNow, StaysRead

\* One message moves between phases outside the queue.
LEMMA MoveOutside ==
  ASSUME TypeOK, QueueInv, NEW i \in Instances, NEW m \in Msgs, NEW p,
         SetPhase(i, m, p), phase[i][m] \notin {"none", "queued"}, p # "queued",
         StaysRead, UNCHANGED <<paused, inst>>
  PROVE  QueueInv'
<1>1. PausedHasBacklog'
  BY OutsideQueue DEF QueueInv, PausedHasBacklog
<1>2. OffIsIdle' /\ UnreadIsUntouched'
  BY DEF QueueInv, OffIsIdle, UnreadIsUntouched, StaysRead, SetPhase, TypeOK, ServiceTypes
<1> QED BY <1>1, <1>2 DEF QueueInv

\* No message moves.
LEMMA StandStill ==
  ASSUME QueueInv, StaysRead, UNCHANGED <<paused, phase>>,
         \A j \in Instances : inst'[j] = "off" => inst[j] = "off"
  PROVE  QueueInv'
BY DEF QueueInv, OffIsIdle, UnreadIsUntouched, PausedHasBacklog, StaysRead, QueueLen, In

\* A queued message is taken out, and the water marks are looked at.
LEMMA TakenOut ==
  ASSUME LowWater < HighWater, TypeOK, QueueInv, NEW i \in Instances, NEW m \in Msgs, NEW p,
         phase[i][m] = "queued", SetPhase(i, m, p), p # "queued",
         paused' = [paused EXCEPT ![i] = PausedAfterDequeue(i)],
         StaysRead, UNCHANGED inst
  PROVE  QueueInv'
<1>1. QueueLen(i)' = QueueLen(i) - 1 /\ \A j \in Instances \ {i} : QueueLen(j)' = QueueLen(j)
  BY Dequeued
<1>2. paused'[i] => QueueLen(i)' > LowWater
  BY <1>1, QueueIsFinite, LimitsAssumption
  DEF PausedAfterDequeue, Backpressure, TypeOK, PipelineTypes
<1>3. PausedHasBacklog'
  BY <1>1, <1>2 DEF QueueInv, PausedHasBacklog, TypeOK, PipelineTypes
<1>4. OffIsIdle' /\ UnreadIsUntouched'
  BY DEF QueueInv, OffIsIdle, UnreadIsUntouched, StaysRead, SetPhase, TypeOK, ServiceTypes,
         PipelineTypes
<1> QED BY <1>3, <1>4 DEF QueueInv

\* A queued message is taken out and put back, or dropped by a paused queue.
LEMMA PutBackQueue ==
  ASSUME LowWater < HighWater, TypeOK, QueueInv, NEW i \in Instances, NEW m \in Msgs,
         phase[i][m] = "queued", PutBack(i, m), StaysRead, UNCHANGED inst
  PROVE  QueueInv'
<1>1. CASE CanEnqueue(PausedAfterDequeue(i), QueueLen(i) - 1)
  <2>1. UNCHANGED phase /\ inst[i] # "off"
    BY <1>1 DEF PutBack, QueueInv, OffIsIdle
  <2>2. \A j \in Instances : QueueLen(j)' = QueueLen(j)
    BY <2>1 DEF QueueLen, In
  <2>3. /\ paused' = [paused EXCEPT ![i] = Backpressure(PausedAfterDequeue(i), QueueLen(i))]
        /\ ~PausedAfterDequeue(i)
    BY <1>1 DEF PutBack, CanEnqueue
  <2>4. paused'[i] => QueueLen(i) > LowWater
    BY <2>3, QueueIsFinite, LimitsAssumption DEF Backpressure, TypeOK, PipelineTypes
  <2>5. PausedHasBacklog'
    BY <2>2, <2>3, <2>4 DEF QueueInv, PausedHasBacklog, TypeOK, PipelineTypes
  <2>6. OffIsIdle' /\ UnreadIsUntouched'
    BY <2>1, <2>3
    DEF QueueInv, OffIsIdle, UnreadIsUntouched, StaysRead, TypeOK, PipelineTypes
  <2> QED BY <2>5, <2>6 DEF QueueInv
<1>2. CASE ~CanEnqueue(PausedAfterDequeue(i), QueueLen(i) - 1)
  BY <1>2, TakenOut DEF PutBack
<1> QED BY <1>1, <1>2

\* Reading a message leaves the queues alone: nobody held it before.
LEMMA FetchQueue ==
  ASSUME TypeOK, QueueInv, NEW i \in Instances, NEW m \in Msgs, Fetch(i, m)
  PROVE  QueueInv'
<1>1. phase[i][m] = "none" /\ SetPhase(i, m, "fetched") /\ UNCHANGED <<paused, inst>>
  BY DEF Fetch, QueueInv, UnreadIsUntouched, queueVars
<1>2. PausedHasBacklog'
  BY <1>1, OutsideQueue DEF QueueInv, PausedHasBacklog
<1>3. OffIsIdle' /\ UnreadIsUntouched'
  BY <1>1
  DEF Fetch, QueueInv, OffIsIdle, UnreadIsUntouched, SetPhase, TypeOK, ServiceTypes,
      RedisTypes
<1> QED BY <1>2, <1>3 DEF QueueInv

\* Handling a message preserves the queue invariant; only Accept changes a queue.
LEMMA HandlerQueue ==
  ASSUME TypeOK, QueueInv, NEW i \in Instances, NEW m \in Msgs, LowWater < HighWater, Handler(i, m)
  PROVE  QueueInv'
<1>1. CASE RefuseUnfit(i, m)
  <2>1. StaysRead
    BY <1>1, AckStaysRead DEF RefuseUnfit, Settled
  <2> QED BY <1>1, <2>1, MoveOutside DEF RefuseUnfit, Handling, queueVars
<1>2. CASE RefuseClaimed(i, m)
  <2>1. StaysRead
    BY <1>2, AckStaysRead DEF RefuseClaimed, Settled
  <2> QED BY <1>2, <2>1, MoveOutside DEF RefuseClaimed, Handling, queueVars
<1>3. CASE Refuse(i, m)
  <2>1. PICK p \in {"rejecting", "repeating", "bouncing"} : SetPhase(i, m, p)
    BY <1>3 DEF Refuse
  <2> QED BY <1>3, <2>1, MoveOutside DEF Refuse, Handling, queueVars, StaysRead
<1>4. CASE FinishRefuse(i, m)
  <2>1. StaysRead
    BY <1>4, AckStaysRead DEF FinishRefuse, Settled
  <2> QED BY <1>4, <2>1, MoveOutside DEF FinishRefuse, queueVars
<1>5. CASE Unclaim(i, m)
  <2>1. PICK p \in {"bounced", "none"} : SetPhase(i, m, p)
    BY <1>5 DEF Unclaim
  <2> QED BY <1>5, <2>1, MoveOutside DEF Unclaim, queueVars, StaysRead
<1>6. CASE Accept(i, m)
  <2>1. StaysRead
    BY <1>6, SettleStaysRead DEF Accept, Settled, StaysRead
  <2>2. /\ SetPhase(i, m, "queued") /\ phase[i][m] = "fetched"
        /\ paused' = [paused EXCEPT ![i] = Backpressure(paused[i], QueueLen(i) + 1)]
        /\ ~paused[i] /\ UNCHANGED inst
    BY <1>6 DEF Accept, Handling, CanEnqueue
  <2>3. PausedHasBacklog'
    <3>1. QueueLen(i)' = QueueLen(i) + 1 /\ \A j \in Instances \ {i} : QueueLen(j)' = QueueLen(j)
      BY <2>2, Enqueued
    <3>2. paused'[i] => QueueLen(i)' > LowWater
      BY <2>2, <3>1, QueueIsFinite, LimitsAssumption DEF Backpressure, TypeOK, PipelineTypes
    <3> QED BY <2>2, <3>1, <3>2 DEF QueueInv, PausedHasBacklog, TypeOK, PipelineTypes
  <2>4. OffIsIdle' /\ UnreadIsUntouched'
    BY <2>1, <2>2
    DEF QueueInv, OffIsIdle, UnreadIsUntouched, StaysRead, SetPhase, TypeOK, ServiceTypes,
        PipelineTypes
  <2> QED BY <2>3, <2>4 DEF QueueInv
<1>7. CASE AcceptAndSkip(i, m)
  <2>1. StaysRead
    BY <1>7, SettleStaysRead DEF AcceptAndSkip, Settled
  <2>2. PICK p \in {"none", "acking"} : SetPhase(i, m, p)
    BY <1>7 DEF AcceptAndSkip
  <2> QED BY <1>7, <2>1, <2>2, MoveOutside DEF AcceptAndSkip, Handling
<1>8. CASE SetAside(i, m)
  BY <1>8, MoveOutside DEF SetAside, Handling, redisVars, queueVars, StaysRead
<1> QED BY <1>1, <1>2, <1>3, <1>4, <1>5, <1>6, <1>7, <1>8 DEF Handler

\* Messages put aside are in no queue.
LEMMA AckExpiredQueue ==
  ASSUME TypeOK, QueueInv, NEW i \in Instances, AckExpired(i)
  PROVE  QueueInv'
<1>1. StaysRead
  BY SettleStaysRead DEF AckExpired, Settled
<1>2. \A j \in Instances, n \in Msgs :
        \/ phase'[j][n] = phase[j][n]
        \/ phase[j][n] = "expired" /\ phase'[j][n] = "none"
  BY DEF AckExpired, In, TypeOK, ServiceTypes
<1>3. UNCHANGED <<paused, inst>>
  BY DEF AckExpired, queueVars
<1>4. \A j \in Instances : QueueSet(j)' = QueueSet(j)
  BY <1>2 DEF QueueSet, In
<1>5. PausedHasBacklog'
  BY <1>3, <1>4 DEF QueueInv, PausedHasBacklog, QueueLen, QueueSet
<1>6. OffIsIdle' /\ UnreadIsUntouched'
  BY <1>1, <1>2, <1>3 DEF QueueInv, OffIsIdle, UnreadIsUntouched, StaysRead
<1> QED BY <1>5, <1>6 DEF QueueInv

\* The pipeline preserves the queue invariant: whatever it takes out, it looks at the marks.
LEMMA PipelineQueue ==
  ASSUME TypeOK, QueueInv, NEW i \in Instances, NEW m \in Msgs, LowWater < HighWater, Pipeline(i, m)
  PROVE  QueueInv'
<1>1. CASE BlockedByBreaker(i, m)
  <2>1. \/ /\ SetPhase(i, m, "none")
           /\ paused' = [paused EXCEPT ![i] = PausedAfterDequeue(i)]
        \/ PutBack(i, m)
    BY <1>1 DEF BlockedByBreaker
  <2> QED BY <1>1, <2>1, TakenOut, PutBackQueue
      DEF BlockedByBreaker, Dequeues, redisVars, StaysRead
<1>2. CASE BlockedByChain(i, m)
  BY <1>2, PutBackQueue DEF BlockedByChain, Dequeues, redisVars, StaysRead
<1>3. CASE Dispatch(i, m)
  BY <1>3, TakenOut DEF Dispatch, Leaves, Dequeues, redisVars, StaysRead
<1>4. CASE SkipExecuted(i, m)
  <2>1. StaysRead
    BY <1>4, SettleStaysRead DEF SkipExecuted, AckAfterExecution, Settled, StaysRead
  <2>2. PICK p \in {"none", "acking"} : SetPhase(i, m, p)
    BY <1>4 DEF SkipExecuted, AckAfterExecution
  <2> QED BY <1>4, <2>1, <2>2, TakenOut DEF SkipExecuted, Leaves, Dequeues
<1>5. CASE AcquireLock(i, m)
  BY <1>5, MoveOutside DEF AcquireLock, queueVars, StaysRead
<1>6. CASE LockConflict(i, m)
  <2>1. PICK p \in {"none", "forcing"} : SetPhase(i, m, p)
    BY <1>6 DEF LockConflict
  <2> QED BY <1>6, <2>1, MoveOutside DEF LockConflict, redisVars, queueVars, StaysRead
<1>7. CASE ForceRelease(i, m)
  <2>1. PICK p \in {"none", "locking"} : SetPhase(i, m, p)
    BY <1>7 DEF ForceRelease
  <2> QED BY <1>7, <2>1, MoveOutside DEF ForceRelease, queueVars, StaysRead
<1>8. CASE LockUnavailable(i, m)
  BY <1>8, MoveOutside DEF LockUnavailable, redisVars, queueVars, StaysRead
<1> QED BY <1>1, <1>2, <1>3, <1>4, <1>5, <1>6, <1>7, <1>8 DEF Pipeline

\* An execution moves its message outside the queue.
LEMMA ExecutionQueue ==
  ASSUME TypeOK, QueueInv, NEW i \in Instances, NEW m \in Msgs, Execution(i, m)
  PROVE  QueueInv'
<1>1. CASE Finish(i, m)
  BY <1>1, MoveOutside DEF Finish, queueVars, StaysRead
<1>2. CASE FinishStale(i, m)
  BY <1>2, MoveOutside DEF FinishStale, redisVars, queueVars, StaysRead
<1>3. CASE TimeOut(i, m)
  BY <1>3, MoveOutside DEF TimeOut, TimedOut, redisVars, queueVars, StaysRead
<1>4. CASE FinishLate(i, m)
  BY <1>4, StandStill DEF FinishLate, queueVars, StaysRead
<1>5. CASE ReleaseLock(i, m)
  BY <1>5, MoveOutside DEF ReleaseLock, queueVars, StaysRead
<1>6. CASE RecordExecuted(i, m)
  <2>1. StaysRead
    BY <1>6, SettleStaysRead DEF RecordExecuted, AckAfterExecution, Settled, StaysRead
  <2>2. PICK p \in {"none", "acking"} : SetPhase(i, m, p)
    BY <1>6 DEF RecordExecuted, AckAfterExecution
  <2> QED BY <1>6, <2>1, <2>2, MoveOutside DEF RecordExecuted, queueVars
<1>7. CASE AckReply(i, m)
  BY <1>7, MoveOutside DEF AckReply, redisVars, queueVars, StaysRead
<1> QED BY <1>1, <1>2, <1>3, <1>4, <1>5, <1>6, <1>7 DEF Execution, Replied

\* Starting and ending an instance preserve the queue invariant.
LEMMA LifecycleQueue ==
  ASSUME TypeOK, QueueInv, NEW i \in Instances, Lifecycle(i)
  PROVE  QueueInv'
<1>1. CASE Start(i)
  <2> DEFINE Taken(orphans) ==
        phase' = [phase EXCEPT ![i] =
                    [m \in Msgs |-> IF m \in orphans THEN "fetched" ELSE "none"]]
  <2>1. PICK orphans \in SUBSET PendingMsgs : Taken(orphans)
    <3>1. ASSUME NEW scanned \in SUBSET PendingMsgs, Recover(i, scanned)
          PROVE  Taken(Orphans(scanned))
      BY <3>1 DEF Recover
    <3>2. CASE UNCHANGED phase
      <4>1. phase[i] = [m \in Msgs |-> "none"]
        BY <1>1 DEF Start, QueueInv, OffIsIdle, TypeOK, ServiceTypes
      <4>2. Taken({})
        BY <3>2, <4>1 DEF TypeOK, ServiceTypes
      <4> HIDE DEF Taken
      <4> QED BY <4>2
    <3>3. \A scanned \in SUBSET PendingMsgs : Orphans(scanned) \subseteq PendingMsgs
      BY DEF Orphans
    <3>4. CASE \E scanned \in SUBSET PendingMsgs : Recover(i, scanned)
      BY <3>1, <3>3, <3>4
    <3> QED BY <1>1, <3>2, <3>4 DEF Start
  <2>2. /\ inst[i] = "off" /\ inst'[i] # "off" /\ UNCHANGED <<status, paused>>
        /\ \A j \in Instances \ {i} : inst'[j] = inst[j]
    BY <1>1 DEF Start, Recover, TypeOK, ServiceTypes, queueVars
  <2>3. PausedHasBacklog'
    <3>1. ~paused[i]
      BY <2>2 DEF QueueInv, OffIsIdle
    <3>2. \A j \in Instances \ {i} : QueueLen(j)' = QueueLen(j)
      BY <2>1 DEF QueueLen, In, TypeOK, ServiceTypes
    <3> QED BY <2>2, <3>1, <3>2 DEF QueueInv, PausedHasBacklog
  <2>4. OffIsIdle'
    BY <2>1, <2>2 DEF QueueInv, OffIsIdle, TypeOK, ServiceTypes
  <2>5. UnreadIsUntouched'
    BY <2>1, <2>2 DEF QueueInv, UnreadIsUntouched, PendingMsgs, TypeOK, ServiceTypes
  <2> QED BY <2>3, <2>4, <2>5 DEF QueueInv
<1>2. CASE EndRecovery(i)
  <2>1. StaysRead
    BY <1>2, SettleStaysRead DEF EndRecovery, Settled, StaysRead
  <2> QED BY <1>2, <2>1, StandStill DEF EndRecovery, queueVars, TypeOK, ServiceTypes
<1>3. CASE BeginStop(i)
  BY <1>3, StandStill DEF BeginStop, queueVars, redisVars, StaysRead, TypeOK, ServiceTypes
<1>4. CASE Forget(i) /\ StaysRead
  <2>1. ~paused'[i] /\ inst'[i] # "off" /\ \A m \in Msgs : phase'[i][m] = "none"
    BY <1>4 DEF Forget, TypeOK, ServiceTypes, PipelineTypes
  <2>2. ASSUME NEW j \in Instances \ {i}
        PROVE  paused'[j] = paused[j] /\ inst'[j] = inst[j] /\ phase'[j] = phase[j]
    BY <1>4 DEF Forget, TypeOK, ServiceTypes, PipelineTypes
  <2>3. PausedHasBacklog'
    BY <2>1, <2>2 DEF QueueInv, PausedHasBacklog, QueueLen, In
  <2>4. OffIsIdle' /\ UnreadIsUntouched'
    BY <1>4, <2>1, <2>2 DEF QueueInv, OffIsIdle, UnreadIsUntouched, StaysRead
  <2> QED BY <2>3, <2>4 DEF QueueInv
<1>5. CASE Crash(i)
  BY <1>4, <1>5 DEF Crash, StaysRead
<1>6. CASE FinishStop(i)
  <2>1. StaysRead
    BY <1>6, SettleStaysRead DEF FinishStop, Settled, StaysRead
  <2>2. /\ ~paused'[i] /\ inst'[i] # "off"
        /\ \A m \in Msgs : phase[i][m] = "none" => phase'[i][m] = "none"
    BY <1>6 DEF FinishStop, TypeOK, ServiceTypes, PipelineTypes
  <2>3. ASSUME NEW j \in Instances \ {i}
        PROVE  paused'[j] = paused[j] /\ inst'[j] = inst[j] /\ phase'[j] = phase[j]
    BY <1>6 DEF FinishStop, TypeOK, ServiceTypes, PipelineTypes
  <2>4. PausedHasBacklog'
    BY <2>2, <2>3 DEF QueueInv, PausedHasBacklog, QueueLen, In
  <2>5. OffIsIdle' /\ UnreadIsUntouched'
    BY <2>1, <2>2, <2>3 DEF QueueInv, OffIsIdle, UnreadIsUntouched, StaysRead
  <2> QED BY <2>4, <2>5 DEF QueueInv
<1>7. CASE ShutDownLocks(i)
  BY <1>7, StandStill DEF ShutDownLocks, queueVars, StaysRead, TypeOK, ServiceTypes
<1>8. CASE Exit(i)
  BY <1>4, <1>8 DEF Exit, StaysRead
<1> QED BY <1>1, <1>2, <1>3, <1>5, <1>6, <1>7, <1>8 DEF Lifecycle

\* If the low water mark is below the high one, a paused queue always holds more
\* than the low mark, so the dequeue that resumes the consumer is still to come.
THEOREM Backlog ==
  ASSUME LowWater < HighWater
  PROVE  Spec => []PausedHasBacklog
<1>1. Init => QueueInv
  BY DEF Init, InitAfter, QueueInv, OffIsIdle, UnreadIsUntouched, PausedHasBacklog
<1>2. TypeOK /\ QueueInv /\ [Next]_vars => QueueInv'
  <2> SUFFICES ASSUME TypeOK, QueueInv, [Next]_vars PROVE QueueInv'
    OBVIOUS
  <2>1. ASSUME NEW i \in Instances, NEW m \in Msgs,
               Fetch(i, m) \/ Handler(i, m) \/ Pipeline(i, m) \/ Execution(i, m)
        PROVE  QueueInv'
    BY <2>1, FetchQueue, HandlerQueue, PipelineQueue, ExecutionQueue
  <2>2. ASSUME NEW i \in Instances, NEW o \in Opps, CleanupStale(i, o) PROVE QueueInv'
    <3>1. StaysRead
      BY <2>2, SettleStaysRead DEF CleanupStale, Settled
    <3> QED BY <2>2, <3>1, StandStill DEF CleanupStale, queueVars
  <2>3. ASSUME NEW i \in Instances, AckExpired(i) \/ Lifecycle(i) PROVE QueueInv'
    BY <2>3, AckExpiredQueue, LifecycleQueue
  <2>4. CASE Tick
    BY <2>4, StandStill DEF Tick, queueVars, StaysRead
  <2>5. CASE UNCHANGED vars
    BY <2>5, StandStill DEF vars, redisVars, queueVars, StaysRead
  <2> QED BY <2>1, <2>2, <2>3, <2>4, <2>5 DEF Next
<1>3. QueueInv => PausedHasBacklog
  BY DEF QueueInv
<1> QED BY <1>1, <1>2, <1>3, TypeCorrect, PTL DEF Spec

-----------------------------------------------------------------------------
(* OpportunityExecution implements OpportunityLedger. *)

Entry == [m \in Msgs |-> IF status[m] = "new" THEN "waiting"
                         ELSE IF status[m] = "pending" THEN "delivered"
                         ELSE "settled"]
Executing == {s \in Running : inst[s[1]] # "exiting"}

LedgerStep == [Ledger!LedgerNext]_(Ledger!ledgerVars)

\* What a step may do to the pending list without reading from the stream.
Acknowledges ==
  \A m \in Msgs : \/ status'[m] = status[m]
                  \/ status[m] = "pending" /\ status'[m] \in Settled

\* Whatever is held afterwards was held before, or has been read.
HoldsOn ==
  \A i \in Instances, m \in Msgs :
    phase'[i][m] # "none" => phase[i][m] # "none" \/ status'[m] # "new"

\* A step that leaves executions and revocations alone.
Bookkeeping ==
  /\ Acknowledges /\ HoldsOn
  /\ Executing' = Executing
  /\ UNCHANGED staleLockRecoveries

\* A step that only ends executions.
Ending ==
  /\ UNCHANGED <<status, staleLockRecoveries>>
  /\ HoldsOn
  /\ Executing' \subseteq Executing

\* Acknowledging settles requests of the ledger, or changes nothing there.
LEMMA BookkeepingSettles == TypeOK /\ Bookkeeping => LedgerStep
<1> SUFFICES ASSUME TypeOK, Bookkeeping PROVE LedgerStep
  OBVIOUS
<1> DEFINE gone == {m \in Msgs : status'[m] # status[m]}
<1>1. \A m \in gone : Entry[m] = "delivered"
  BY DEF Bookkeeping, Acknowledges, Entry
<1>2. Entry' = [m \in Msgs |-> IF m \in gone THEN "settled" ELSE Entry[m]]
  BY DEF Bookkeeping, Acknowledges, Entry, Settled
<1>3. gone \in SUBSET Msgs
  OBVIOUS
<1>4. Ledger!SettleAll(gone)
  BY <1>1, <1>2 DEF Ledger!SettleAll, Entry, Executing, Bookkeeping
<1> HIDE DEF gone
<1>5. \E ms \in SUBSET Msgs : Ledger!SettleAll(ms)
  BY <1>3, <1>4 DEF Ledger!SettleAll
<1> QED BY <1>5 DEF LedgerStep, Ledger!LedgerNext

\* Executions that end without any other effect end in the ledger.
LEMMA EndingEnds == Ending => LedgerStep
<1> SUFFICES ASSUME Ending PROVE LedgerStep
  OBVIOUS
<1> DEFINE over == Executing \ Executing'
<1>1. over \in SUBSET Executing /\ Executing' = Executing \ over
  BY DEF Ending
<1>2. Entry' = Entry
  BY DEF Ending, Entry
<1>3. Ledger!EndAll(over)
  BY <1>1, <1>2 DEF Ledger!EndAll, Entry, Executing, Ending
<1> HIDE DEF over
<1>4. \E slots \in SUBSET Executing : Ledger!EndAll(slots)
  BY <1>1, <1>3 DEF Ledger!EndAll
<1> QED BY <1>4 DEF LedgerStep, Ledger!LedgerNext, Executing

\* None of these steps makes a message unread, or has an unread one held.
LEMMA NothingUnreadHeld ==
  TypeOK /\ UnreadIsUntouched /\ (Bookkeeping \/ Ending) => UnreadIsUntouched'
BY DEF UnreadIsUntouched, Bookkeeping, Ending, Acknowledges, HoldsOn, Settled

\* XACK, sent or failed, and DELCONSUMER only take messages off the pending list.
LEMMA SettleAcknowledges ==
  ASSUME TypeOK, NEW ms, NEW why \in Settled, Settle(ms, why)
  PROVE  Acknowledges
BY DEF Settle, Acknowledges, TypeOK, RedisTypes

\* Nor does the acknowledgement of a message that is refused.
LEMMA AckAcknowledges ==
  ASSUME TypeOK, NEW i \in Instances, NEW m \in Msgs, NEW why \in Settled,
         AckNow(i, m, why)
  PROVE  Acknowledges
BY SettleAcknowledges DEF AckNow, Acknowledges

\* A message that moves between phases of which neither is an execution.
LEMMA MoveIsBookkeeping ==
  ASSUME TypeOK, NEW i \in Instances, NEW m \in Msgs, NEW p, p # "running",
         SetPhase(i, m, p), phase[i][m] \notin {"none", "running"},
         Acknowledges, UNCHANGED <<inst, staleLockRecoveries>>
  PROVE  Bookkeeping
<1>1. HoldsOn
  BY DEF HoldsOn, SetPhase, TypeOK, ServiceTypes
<1>2. Executing' = Executing
  BY DEF Executing, Running, SetPhase, TypeOK, ServiceTypes
<1> QED BY <1>1, <1>2 DEF Bookkeeping

\* Phases and lives that stay as they are.
LEMMA RestIsBookkeeping ==
  ASSUME TypeOK, Acknowledges, UNCHANGED <<inst, phase, staleLockRecoveries>>
  PROVE  Bookkeeping
BY DEF Bookkeeping, HoldsOn, Executing, Running

\* Handling a message is bookkeeping.
LEMMA HandlerBooks ==
  ASSUME TypeOK, NEW i \in Instances, NEW m \in Msgs, Handler(i, m)
  PROVE  Bookkeeping
<1>1. CASE RefuseUnfit(i, m)
  BY <1>1, AckAcknowledges, MoveIsBookkeeping
  DEF RefuseUnfit, Handling, execVars, Settled
<1>2. CASE RefuseClaimed(i, m)
  BY <1>2, AckAcknowledges, MoveIsBookkeeping
  DEF RefuseClaimed, Handling, execVars, Settled
<1>3. CASE Refuse(i, m)
  <2>1. Acknowledges /\ UNCHANGED <<inst, staleLockRecoveries>>
    BY <1>3 DEF Refuse, Acknowledges, execVars
  <2> QED BY <1>3, <2>1, MoveIsBookkeeping DEF Refuse, Handling
<1>4. CASE FinishRefuse(i, m)
  <2>1. Acknowledges
    BY <1>4, AckAcknowledges DEF FinishRefuse, Settled
  <2> QED BY <1>4, <2>1, MoveIsBookkeeping DEF FinishRefuse, execVars
<1>5. CASE Unclaim(i, m)
  <2>1. Acknowledges /\ UNCHANGED <<inst, staleLockRecoveries>>
    BY <1>5 DEF Unclaim, Acknowledges, execVars
  <2> QED BY <1>5, <2>1, MoveIsBookkeeping DEF Unclaim
<1>6. CASE Accept(i, m)
  <2>1. Acknowledges
    BY <1>6, SettleAcknowledges DEF Accept, Acknowledges, Settled
  <2> QED BY <1>6, <2>1, MoveIsBookkeeping DEF Accept, Handling, execVars
<1>7. CASE AcceptAndSkip(i, m)
  <2>1. Acknowledges
    BY <1>7, SettleAcknowledges DEF AcceptAndSkip, Settled
  <2>2. UNCHANGED <<inst, staleLockRecoveries>> /\ phase[i][m] = "fetched"
    BY <1>7 DEF AcceptAndSkip, Handling, execVars
  <2>3. \E p \in {"none", "acking"} : SetPhase(i, m, p)
    BY <1>7 DEF AcceptAndSkip
  <2> QED BY <2>1, <2>2, <2>3, MoveIsBookkeeping
<1>8. CASE SetAside(i, m)
  <2>1. Acknowledges /\ UNCHANGED <<inst, staleLockRecoveries>>
    BY <1>8 DEF SetAside, Acknowledges, redisVars, execVars
  <2> QED BY <1>8, <2>1, MoveIsBookkeeping DEF SetAside, Handling
<1> QED BY <1>1, <1>2, <1>3, <1>4, <1>5, <1>6, <1>7, <1>8 DEF Handler

\* And the acknowledgement of the messages put aside.
LEMMA AckExpiredBooks ==
  ASSUME TypeOK, NEW i \in Instances, AckExpired(i)
  PROVE  Bookkeeping
<1>1. Acknowledges
  BY SettleAcknowledges DEF AckExpired, Settled
<1>2. \A j \in Instances, n \in Msgs :
        \/ phase'[j][n] = phase[j][n]
        \/ phase[j][n] = "expired" /\ phase'[j][n] = "none"
  BY DEF AckExpired, In, TypeOK, ServiceTypes
<1>3. UNCHANGED <<inst, staleLockRecoveries>>
  BY DEF AckExpired, execVars
<1>4. HoldsOn /\ Executing' = Executing
  BY <1>2, <1>3 DEF HoldsOn, Executing, Running
<1> QED BY <1>1, <1>3, <1>4 DEF Bookkeeping

\* So is what the pipeline does around its lock.
LEMMA PipelineBooks ==
  ASSUME TypeOK, NEW i \in Instances, NEW m \in Msgs,
         \/ BlockedByBreaker(i, m) \/ BlockedByChain(i, m) \/ Dispatch(i, m)
         \/ SkipExecuted(i, m) \/ LockConflict(i, m) \/ LockUnavailable(i, m)
  PROVE  Bookkeeping
<1>1. CASE BlockedByBreaker(i, m) \/ BlockedByChain(i, m)
  <2>1. Acknowledges /\ UNCHANGED <<inst, staleLockRecoveries>>
    BY <1>1 DEF BlockedByBreaker, BlockedByChain, Acknowledges, redisVars, execVars
  <2>2. phase[i][m] = "queued"
    BY <1>1 DEF BlockedByBreaker, BlockedByChain, Dequeues
  <2>3. SetPhase(i, m, "none") \/ UNCHANGED phase
    BY <1>1 DEF BlockedByBreaker, BlockedByChain, PutBack
  <2> QED BY <2>1, <2>2, <2>3, MoveIsBookkeeping, RestIsBookkeeping
<1>2. CASE Dispatch(i, m)
  <2>1. Acknowledges
    BY <1>2 DEF Dispatch, Acknowledges, redisVars
  <2> QED BY <1>2, <2>1, MoveIsBookkeeping DEF Dispatch, Leaves, Dequeues, execVars
<1>3. CASE SkipExecuted(i, m)
  <2>1. Acknowledges
    BY <1>3, SettleAcknowledges
    DEF SkipExecuted, AckAfterExecution, Acknowledges, Settled
  <2>2. UNCHANGED <<inst, staleLockRecoveries>> /\ phase[i][m] = "queued"
    BY <1>3 DEF SkipExecuted, Leaves, Dequeues, execVars
  <2>3. \E p \in {"none", "acking"} : SetPhase(i, m, p)
    BY <1>3 DEF SkipExecuted, AckAfterExecution
  <2> QED BY <2>1, <2>2, <2>3, MoveIsBookkeeping
<1>4. CASE LockConflict(i, m)
  <2>1. Acknowledges /\ UNCHANGED <<inst, staleLockRecoveries>>
    BY <1>4 DEF LockConflict, Acknowledges, redisVars
  <2>2. phase[i][m] = "locking"
    BY <1>4 DEF LockConflict
  <2>3. \E p \in {"none", "forcing"} : SetPhase(i, m, p)
    BY <1>4 DEF LockConflict
  <2> QED BY <2>1, <2>2, <2>3, MoveIsBookkeeping
<1>5. CASE LockUnavailable(i, m)
  <2>1. Acknowledges
    BY <1>5 DEF LockUnavailable, Acknowledges, redisVars
  <2> QED BY <1>5, <2>1, MoveIsBookkeeping DEF LockUnavailable
<1> QED BY <1>1, <1>2, <1>3, <1>4, <1>5

\* An execution that ends, in time or not.
LEMMA RunEnds ==
  ASSUME TypeOK, NEW i \in Instances, NEW m \in Msgs, phase[i][m] = "running",
         SetPhase(i, m, "completed"), UNCHANGED <<status, inst, staleLockRecoveries>>
  PROVE  Ending
<1>1. HoldsOn
  BY DEF HoldsOn, SetPhase, TypeOK, ServiceTypes
<1>2. Executing' \subseteq Executing
  BY DEF Executing, Running, SetPhase, TypeOK, ServiceTypes
<1> QED BY <1>1, <1>2 DEF Ending

\* An execution ends, or its message goes on to be acknowledged.
LEMMA ExecutionBooks ==
  ASSUME TypeOK, NEW i \in Instances, NEW m \in Msgs, Execution(i, m)
  PROVE  Bookkeeping \/ Ending
<1>1. CASE Finish(i, m) \/ FinishStale(i, m) \/ TimeOut(i, m)
  <2>1. /\ phase[i][m] = "running" /\ SetPhase(i, m, "completed")
        /\ UNCHANGED <<status, inst, staleLockRecoveries>>
    BY <1>1 DEF Finish, FinishStale, TimeOut, TimedOut, redisVars, execVars
  <2> QED BY <2>1, RunEnds
<1>2. CASE FinishLate(i, m)
  BY <1>2, RestIsBookkeeping DEF FinishLate, Acknowledges
<1>3. CASE ReleaseLock(i, m)
  <2>1. Acknowledges
    BY <1>3 DEF ReleaseLock, Acknowledges
  <2> QED BY <1>3, <2>1, MoveIsBookkeeping DEF ReleaseLock, execVars
<1>4. CASE RecordExecuted(i, m)
  <2>1. Acknowledges
    BY <1>4, SettleAcknowledges
    DEF RecordExecuted, AckAfterExecution, Acknowledges, Settled
  <2>2. UNCHANGED <<inst, staleLockRecoveries>> /\ phase[i][m] = "unlocked"
    BY <1>4 DEF RecordExecuted
  <2>3. \E p \in {"none", "acking"} : SetPhase(i, m, p)
    BY <1>4 DEF RecordExecuted, AckAfterExecution
  <2> QED BY <2>1, <2>2, <2>3, MoveIsBookkeeping
<1>5. CASE AckReply(i, m)
  <2>1. Acknowledges
    BY <1>5 DEF AckReply, Acknowledges, redisVars
  <2> QED BY <1>5, <2>1, MoveIsBookkeeping DEF AckReply, execVars
<1> QED BY <1>1, <1>2, <1>3, <1>4, <1>5 DEF Execution, Replied

\* A life that begins, recovers, ends or comes near its end.
LEMMA LifecycleBooks ==
  ASSUME TypeOK, NEW i \in Instances, Lifecycle(i)
  PROVE  Bookkeeping \/ Ending
<1>1. CASE Start(i)
  <2>1. UNCHANGED <<status, staleLockRecoveries>>
    BY <1>1 DEF Start, execVars
  <2>2. CASE \E scanned \in SUBSET PendingMsgs : Recover(i, scanned)
    <3>1. PICK scanned \in SUBSET PendingMsgs : Recover(i, scanned)
      BY <2>2
    <3>2. HoldsOn
      BY <2>1, <3>1 DEF HoldsOn, Recover, Orphans, PendingMsgs, TypeOK, ServiceTypes
    <3>3. Executing' \subseteq Executing
      BY <3>1, <1>1 DEF Executing, Running, Recover, Start, TypeOK, ServiceTypes
    <3> QED BY <2>1, <3>2, <3>3 DEF Ending
  <2>3. CASE inst' = [inst EXCEPT ![i] = "running"] /\ UNCHANGED phase
    BY <1>1, <2>1, <2>3 DEF Ending, HoldsOn, Executing, Running, Start, TypeOK, ServiceTypes
  <2> QED BY <1>1, <2>2, <2>3 DEF Start
<1>2. CASE EndRecovery(i)
  <2>1. Acknowledges
    BY <1>2, SettleAcknowledges DEF EndRecovery, Acknowledges, Settled
  <2>2. Executing' = Executing /\ HoldsOn
    BY <1>2 DEF Executing, Running, HoldsOn, EndRecovery, TypeOK, ServiceTypes
  <2> QED BY <1>2, <2>1, <2>2 DEF Bookkeeping, EndRecovery, execVars
<1>3. CASE Crash(i) \/ Exit(i)
  <2>1. Forget(i) /\ UNCHANGED status
    BY <1>3 DEF Crash, Exit
  <2>2. Executing' \subseteq Executing /\ HoldsOn
    BY <2>1 DEF Executing, Running, HoldsOn, Forget, TypeOK, ServiceTypes
  <2> QED BY <2>1, <2>2 DEF Ending, Forget
<1>4. CASE BeginStop(i)
  <2>1. Executing' = Executing /\ HoldsOn
    BY <1>4 DEF Executing, Running, HoldsOn, BeginStop, TypeOK, ServiceTypes
  <2> QED BY <1>4, <2>1 DEF Bookkeeping, Acknowledges, BeginStop, redisVars, execVars
<1>5. CASE FinishStop(i)
  <2>1. Acknowledges
    BY <1>5, SettleAcknowledges DEF FinishStop, Acknowledges, Settled
  <2>2. HoldsOn
    BY <1>5 DEF HoldsOn, FinishStop, TypeOK, ServiceTypes
  <2>3. \A j \in Instances, m \in Msgs :
          (phase'[j][m] = "running" /\ inst'[j] # "exiting")
            <=> (phase[j][m] = "running" /\ inst[j] # "exiting")
    BY <1>5 DEF FinishStop, TypeOK, ServiceTypes
  <2>4. Executing' = Executing
    BY <2>3 DEF Executing, Running
  <2> QED BY <1>5, <2>1, <2>2, <2>4 DEF Bookkeeping, FinishStop, execVars
<1>6. CASE ShutDownLocks(i)
  <2>1. Executing' \subseteq Executing /\ HoldsOn
    BY <1>6 DEF Executing, Running, HoldsOn, ShutDownLocks, TypeOK, ServiceTypes
  <2> QED BY <1>6, <2>1 DEF Ending, ShutDownLocks, execVars
<1> QED BY <1>1, <1>2, <1>3, <1>4, <1>5, <1>6 DEF Lifecycle

\* Reading from the group delivers one request.
LEMMA FetchDelivers ==
  ASSUME TypeOK, UnreadIsUntouched, NEW i \in Instances, NEW m \in Msgs, Fetch(i, m)
  PROVE  LedgerStep /\ UnreadIsUntouched'
<1>1. status[m] = "new" /\ status' = [status EXCEPT ![m] = "pending"]
  BY DEF Fetch
<1>2. phase[i][m] = "none"
  BY <1>1 DEF UnreadIsUntouched
<1>3. Executing' = Executing
  BY <1>2 DEF Executing, Running, Fetch, SetPhase, TypeOK, ServiceTypes
<1>4. Entry[m] = "waiting" /\ Entry' = [Entry EXCEPT ![m] = "delivered"]
  BY <1>1 DEF Entry, TypeOK, RedisTypes
<1>5. Ledger!Deliver(m)
  BY <1>3, <1>4 DEF Ledger!Deliver, Entry, Executing, Fetch, execVars
<1>6. UnreadIsUntouched'
  BY <1>1 DEF UnreadIsUntouched, Fetch, SetPhase, TypeOK, ServiceTypes, RedisTypes
<1> QED BY <1>5, <1>6 DEF LedgerStep, Ledger!LedgerNext

\* Whoever takes the lock begins an execution.  A lock nobody has taken by force
\* is held by every execution that runs: there is none of this opportunity.
LEMMA AcquireBegins ==
  ASSUME TypeOK, UnreadIsUntouched, RunningHolds,
         NEW i \in Instances, NEW m \in Msgs, AcquireLock(i, m)
  PROVE  LedgerStep /\ UnreadIsUntouched'
<1>1. /\ phase[i][m] = "locking" /\ SetPhase(i, m, "running")
      /\ UNCHANGED <<status, inst, staleLockRecoveries>>
  BY DEF AcquireLock
<1>2. UnreadIsUntouched'
  BY <1>1 DEF UnreadIsUntouched, SetPhase, TypeOK, ServiceTypes
<1>3. CASE inst[i] = "exiting"
  <2>1. Executing' = Executing
    BY <1>1, <1>3 DEF Executing, Running, SetPhase, TypeOK, ServiceTypes
  <2> QED BY <1>1, <1>2, <2>1 DEF LedgerStep, Ledger!ledgerVars, Executing
<1>4. CASE inst[i] # "exiting"
  <2>1. Executing' = Executing \cup {<<i, m>>}
    BY <1>1, <1>4 DEF Executing, Running, SetPhase, TypeOK, ServiceTypes
  <2>2. Entry' = Entry /\ Entry[m] # "waiting"
    BY <1>1 DEF Entry, UnreadIsUntouched
  <2>3. staleLockRecoveries = 0 \/ staleLockRecoveries > 0
    BY DEF TypeOK, PipelineTypes
  <2>4. ASSUME staleLockRecoveries = 0, NEW s \in Executing
        PROVE  OppOf[s[2]] # OppOf[m]
    <3>1. PICK j \in Instances, n \in Msgs : s = <<j, n>> /\ Runs(j, n)
      BY DEF Executing, Running, Runs
    <3>2. lock[OppOf[n]] = <<j, n>>
      BY <2>4, <3>1 DEF RunningHolds, Holds, Slot
    <3>3. <<j, n>> # None
      BY RolesAssumption
    <3> QED BY <3>1, <3>2, <3>3 DEF AcquireLock
  <2>5. Ledger!Begin(i, m)
    BY <1>1, <2>1, <2>2, <2>3, <2>4
    DEF Ledger!Begin, Ledger!Alone, Entry, Executing
  <2> QED BY <1>2, <2>5 DEF LedgerStep, Ledger!LedgerNext
<1> QED BY <1>3, <1>4

\* A force release revokes, or gives up.
LEMMA ForceRevokes ==
  ASSUME TypeOK, UnreadIsUntouched, NEW i \in Instances, NEW m \in Msgs, ForceRelease(i, m)
  PROVE  LedgerStep /\ UnreadIsUntouched'
<1>1. /\ phase[i][m] = "forcing" /\ UNCHANGED <<status, inst>>
      /\ \E p \in {"locking", "none"} : SetPhase(i, m, p)
  BY DEF ForceRelease
<1>2. Executing' = Executing /\ Entry' = Entry
  BY <1>1 DEF Executing, Running, Entry, SetPhase, TypeOK, ServiceTypes
<1>3. UnreadIsUntouched'
  BY <1>1 DEF UnreadIsUntouched, SetPhase, TypeOK, ServiceTypes
<1>4. CASE UNCHANGED staleLockRecoveries
  BY <1>2, <1>3, <1>4 DEF LedgerStep, Ledger!ledgerVars, Executing, Entry
<1>5. CASE staleLockRecoveries' = staleLockRecoveries + 1
  <2>1. Ledger!Revoke
    BY <1>2, <1>5 DEF Ledger!Revoke, Executing, Entry
  <2> QED BY <1>3, <2>1 DEF LedgerStep, Ledger!LedgerNext
<1> QED BY <1>4, <1>5 DEF ForceRelease

\* Every step of the engines is a step of the ledger, or none.
LEMMA StepKeepsLedger ==
  ASSUME TypeOK, RunningHolds, UnreadIsUntouched, [Next]_vars
  PROVE  LedgerStep /\ UnreadIsUntouched'
<1>1. CASE Bookkeeping \/ Ending
  BY <1>1, BookkeepingSettles, EndingEnds, NothingUnreadHeld
<1>2. ASSUME NEW i \in Instances, NEW m \in Msgs, Fetch(i, m)
      PROVE  LedgerStep /\ UnreadIsUntouched'
  BY <1>2, FetchDelivers
<1>3. ASSUME NEW i \in Instances, NEW m \in Msgs, Handler(i, m)
      PROVE  LedgerStep /\ UnreadIsUntouched'
  BY <1>1, <1>3, HandlerBooks
<1>4. ASSUME NEW i \in Instances, NEW m \in Msgs, Pipeline(i, m)
      PROVE  LedgerStep /\ UnreadIsUntouched'
  BY <1>1, <1>4, PipelineBooks, AcquireBegins, ForceRevokes DEF Pipeline
<1>5. ASSUME NEW i \in Instances, NEW m \in Msgs, Execution(i, m)
      PROVE  LedgerStep /\ UnreadIsUntouched'
  BY <1>1, <1>5, ExecutionBooks
<1>6. ASSUME NEW i \in Instances, NEW o \in Opps, CleanupStale(i, o)
      PROVE  LedgerStep /\ UnreadIsUntouched'
  <2>1. Acknowledges
    BY <1>6, SettleAcknowledges DEF CleanupStale, Settled
  <2> QED BY <1>1, <1>6, <2>1, RestIsBookkeeping DEF CleanupStale, execVars
<1>7. ASSUME NEW i \in Instances, AckExpired(i) \/ Lifecycle(i)
      PROVE  LedgerStep /\ UnreadIsUntouched'
  BY <1>1, <1>7, AckExpiredBooks, LifecycleBooks
<1>8. CASE Tick
  BY <1>1, <1>8, RestIsBookkeeping DEF Tick, Acknowledges
<1>9. CASE UNCHANGED vars
  BY <1>1, <1>9, RestIsBookkeeping DEF Acknowledges, vars, redisVars, execVars
<1> QED BY <1>2, <1>3, <1>4, <1>5, <1>6, <1>7, <1>8, <1>9 DEF Next

\* The engines implement the ledger: however messages are duplicated, instances
\* crash and commands fail, a request is delivered once and settled once, only
\* what was delivered is executed, and executions of one trade exclude each other
\* until a lock is revoked.
THEOREM Refinement == Spec => KeepsLedger
<1>1. Init => Ledger!LedgerInit
  BY DEF Init, InitAfter, Ledger!LedgerInit, Running
<1>2. Init => UnreadIsUntouched
  BY DEF Init, InitAfter, UnreadIsUntouched
<1>3. TypeOK /\ RunningHolds /\ UnreadIsUntouched /\ [Next]_vars => UnreadIsUntouched'
  BY StepKeepsLedger
<1>4. TypeOK /\ RunningHolds /\ UnreadIsUntouched /\ [Next]_vars
        => [Ledger!LedgerNext]_(Ledger!ledgerVars)
  BY StepKeepsLedger DEF LedgerStep
<1> QED BY <1>1, <1>2, <1>3, <1>4, TypeCorrect, HoldsAlways, PTL
        DEF Spec, KeepsLedger, Ledger!LedgerSpec

-----------------------------------------------------------------------------
(* The dedup key.  A key that is set has a claimant: a message of its          *)
(* opportunity that was decided otherwise than by the key, or is pending and   *)
(* past its handler, and too young to be taken over before the key expires.    *)
(* Were the key to outlive the idle time that recovery waits for, its claimant *)
(* could itself be taken over, and then refused as a duplicate of itself.      *)

\* An instance that has not started holds nothing and has no message to its name.
OffIsBlank ==
  \A i \in Instances : inst[i] = "off" =>
    /\ \A m \in Msgs : owner[m] # i /\ age[i][m] = 0 /\ phase[i][m] = "none"
    /\ \A o \in Opps : pending[i][o] = None /\ conflicts[i][o].count = 0

\* A message whose handler has not looked at the key has just been delivered.
FetchedIsFresh ==
  \A i \in Instances, m \in Msgs : phase[i][m] = "fetched" =>
    /\ status[m] \notin {"new", "duplicate"}
    /\ status[m] = "pending" => owner[m] = i /\ age[i][m] = 0

Claimant(n, o) ==
  /\ OppOf[n] = o
  /\ status[n] \notin {"new", "duplicate"}
  /\ status[n] = "pending" =>
       \E i \in Instances :
         owner[n] = i /\ phase[i][n] # "fetched" /\ age[i][n] + dedup[o] <= DedupTtl

KeyHasClaimant == \A o \in Opps : dedup[o] > 0 => \E n \in Msgs : Claimant(n, o)

\* The effect of a step on the messages: some leave the pending list, for a reason in W.
Releases(W) ==
  \A n \in Msgs :
    \/ status'[n] = status[n] /\ owner'[n] = owner[n]
    \/ status[n] = "pending" /\ status'[n] \in W /\ owner'[n] = None

\* The effect of SetPhase, message by message.
OneMoves(i, m, p) ==
  /\ phase'[i][m] = p
  /\ \A j \in Instances, n \in Msgs : <<j, n>> # <<i, m>> => phase'[j][n] = phase[j][n]

\* What Settle does, message by message.
LEMMA SettleEffect ==
  ASSUME NEW ms, NEW why, Settle(ms, why)
  PROVE  \A n \in Msgs :
           \/ /\ status'[n] = status[n] /\ owner'[n] = owner[n]
              /\ n \in ms => status[n] # "pending"
           \/ n \in ms /\ status[n] = "pending" /\ status'[n] = why /\ owner'[n] = None
BY DEF Settle

\* Settling releases messages for its reason only.
LEMMA SettleReleases ==
  ASSUME NEW W, NEW ms, NEW why \in W, Settle(ms, why)
  PROVE  Releases(W)
BY SettleEffect DEF Releases

\* So does an acknowledgement, which may fail.
LEMMA AckReleases ==
  ASSUME NEW W, NEW i \in Instances, NEW m \in Msgs, NEW why \in W, AckNow(i, m, why)
  PROVE  Releases(W)
BY SettleReleases DEF AckNow, Releases

\* What becomes of the messages put aside: each is acknowledged, or its XACK has failed.
LEMMA AsideEffect ==
  ASSUME TypeOK, NEW i \in Instances, AckExpired(i)
  PROVE  /\ Releases({"unfit"})
         /\ \A j \in Instances, n \in Msgs :
              \/ phase'[j][n] = phase[j][n]
              \/ j = i /\ phase[j][n] = "expired" /\ phase'[j][n] = "none"
         /\ \A n \in Msgs : phase[i][n] = "expired" =>
              status'[n] # "pending" \/ Slot(i, n) \in unacked'
         /\ unacked \subseteq unacked'
         /\ Live(i)
         /\ UNCHANGED <<dedup, inst, age, bookVars, execVars>>
<1> DEFINE aside == In(i, {"expired"})
<1>1. \A n \in Msgs : n \in aside <=> phase[i][n] = "expired"
  BY DEF In
<1>2. \A j \in Instances, n \in Msgs :
        \/ phase'[j][n] = phase[j][n]
        \/ j = i /\ phase[j][n] = "expired" /\ phase'[j][n] = "none"
  BY <1>1 DEF AckExpired, TypeOK, ServiceTypes
<1>3. Releases({"unfit"})
  BY SettleReleases DEF AckExpired
<1>4. /\ \A n \in aside : status'[n] # "pending" \/ Slot(i, n) \in unacked'
      /\ unacked \subseteq unacked'
  <2>1. CASE Settle(aside, "unfit") /\ UNCHANGED faultVars
    <3>1. \A n \in Msgs : n \in aside => status'[n] # "pending"
      BY <2>1, SettleEffect
    <3> QED BY <2>1, <3>1 DEF faultVars, In
  <2>2. ASSUME NEW left \in SUBSET aside, FaultAbout(i, left), Settle(aside \ left, "unfit")
        PROVE  /\ \A n \in aside : status'[n] # "pending" \/ Slot(i, n) \in unacked'
               /\ unacked \subseteq unacked'
    <3>1. \A n \in Msgs : n \in aside \ left => status'[n] # "pending"
      BY <2>2, SettleEffect
    <3>2. unacked' = unacked \cup {Slot(i, n) : n \in left}
      BY <2>2 DEF FaultAbout
    <3> QED BY <3>1, <3>2 DEF In
  <2> QED BY <2>1, <2>2 DEF AckExpired
<1>5. Live(i) /\ UNCHANGED <<dedup, inst, age, bookVars, execVars>>
  BY DEF AckExpired
<1> QED BY <1>1, <1>2, <1>3, <1>4, <1>5

\* Nothing is released where nothing changes.
LEMMA NothingReleased ==
  ASSUME NEW W, UNCHANGED <<status, owner>>
  PROVE  Releases(W)
BY DEF Releases

\* What SetPhase does, message by message.
LEMMA PhaseEffect ==
  ASSUME TypeOK, NEW i \in Instances, NEW m \in Msgs, NEW p, SetPhase(i, m, p)
  PROVE  OneMoves(i, m, p)
BY DEF SetPhase, OneMoves, TypeOK, ServiceTypes

\* What a message was refused for, if not because of the key.
OtherReasons == Settled \ {"duplicate"}

\* A step that refuses nothing for the key and hands no message to a handler.
CalmForMessages ==
  /\ UNCHANGED age
  /\ Releases(OtherReasons)
  /\ \A i \in Instances, m \in Msgs : phase'[i][m] = "fetched" => phase[i][m] = "fetched"

\* Nor does it set the key.
Calm ==
  /\ CalmForMessages
  /\ \A o \in Opps : dedup'[o] = dedup[o] \/ dedup'[o] = 0

ClaimInv == FetchedIsFresh /\ KeyHasClaimant /\ KeyNeverRefusesAll

\* A claimant that is not handed over stays one while its key is not renewed.
LEMMA ClaimantStays ==
  ASSUME TypeOK, CalmForMessages, NEW o \in Opps, NEW n \in Msgs, Claimant(n, o),
         dedup'[o] = dedup[o]
  PROVE  Claimant(n, o)'
<1>1. CASE status'[n] = status[n] /\ owner'[n] = owner[n]
  BY <1>1 DEF Claimant, CalmForMessages
<1>2. CASE status'[n] \in OtherReasons
  BY <1>2 DEF Claimant, OtherReasons, Settled
<1> QED BY <1>1, <1>2 DEF CalmForMessages, Releases

\* Handlers keep fresh messages, and refusals their siblings, through such a step.
LEMMA CalmKeepsMessages ==
  ASSUME TypeOK, ClaimInv, CalmForMessages
  PROVE  FetchedIsFresh' /\ KeyNeverRefusesAll'
<1>1. ASSUME NEW m \in Msgs
      PROVE  /\ status'[m] = "duplicate" => status[m] = "duplicate"
             /\ status[m] \notin {"new", "duplicate"} => status'[m] \notin {"new", "duplicate"}
             /\ status'[m] = "pending" => status[m] = "pending" /\ owner'[m] = owner[m]
  BY DEF CalmForMessages, Releases, OtherReasons, Settled
<1>2. FetchedIsFresh'
  BY <1>1 DEF ClaimInv, FetchedIsFresh, CalmForMessages
<1>3. KeyNeverRefusesAll'
  BY <1>1 DEF ClaimInv, KeyNeverRefusesAll
<1> QED BY <1>2, <1>3

\* A calm step preserves the invariant.
LEMMA CalmKeepsClaims ==
  ASSUME TypeOK, ClaimInv, Calm
  PROVE  ClaimInv'
<1>1. FetchedIsFresh' /\ KeyNeverRefusesAll'
  BY CalmKeepsMessages DEF Calm
<1>2. ASSUME NEW o \in Opps, dedup'[o] > 0
      PROVE  \E n \in Msgs : Claimant(n, o)'
  <2>1. dedup'[o] = dedup[o] /\ dedup[o] > 0
    BY <1>2 DEF Calm
  <2>2. PICK n \in Msgs : Claimant(n, o)
    BY <2>1 DEF ClaimInv, KeyHasClaimant
  <2> QED BY <2>1, <2>2, ClaimantStays DEF Calm
<1> QED BY <1>1, <1>2 DEF ClaimInv, KeyHasClaimant

\* The handler that wins the key makes its message the claimant.
LEMMA WinKeepsClaims ==
  ASSUME TypeOK, ClaimInv, NEW i \in Instances, NEW m \in Msgs, NEW p, p # "fetched",
         phase[i][m] = "fetched", OneMoves(i, m, p), WinDedup(OppOf[m]),
         UNCHANGED age, Releases(OtherReasons)
  PROVE  ClaimInv'
<1> DEFINE w == OppOf[m]
<1>0. w \in Opps
  BY RolesAssumption
<1>1. CalmForMessages
  BY DEF CalmForMessages, OneMoves
<1>2. FetchedIsFresh' /\ KeyNeverRefusesAll'
  BY <1>1, CalmKeepsMessages
<1>3. dedup'[w] = DedupTtl /\ \A o \in Opps \ {w} : dedup'[o] = dedup[o]
  BY <1>0 DEF WinDedup, TypeOK, RedisTypes
<1>4. Claimant(m, w)'
  <2>1. status[m] \notin {"new", "duplicate"} /\ (status[m] = "pending" => owner[m] = i /\ age[i][m] = 0)
    BY DEF ClaimInv, FetchedIsFresh
  <2>2. CASE status'[m] = status[m] /\ owner'[m] = owner[m]
    BY <2>1, <2>2, <1>3, TimersAssumption DEF Claimant, OneMoves
  <2>3. CASE status'[m] \in OtherReasons
    BY <2>3 DEF Claimant, OtherReasons, Settled
  <2> QED BY <2>2, <2>3 DEF Releases
<1>5. ASSUME NEW o \in Opps, dedup'[o] > 0
      PROVE  \E n \in Msgs : Claimant(n, o)'
  <2>1. CASE o = w
    BY <1>4, <2>1
  <2>2. CASE o # w
    <3>1. dedup'[o] = dedup[o] /\ dedup[o] > 0
      BY <1>3, <1>5, <2>2
    <3>2. PICK n \in Msgs : Claimant(n, o)
      BY <3>1 DEF ClaimInv, KeyHasClaimant
    <3> QED BY <1>1, <3>1, <3>2, ClaimantStays
  <2> QED BY <2>1, <2>2
<1> QED BY <1>2, <1>5 DEF ClaimInv, KeyHasClaimant

\* A handler that is through with the key, won or not: it goes on to phase p.
LEMMA ClaimKeepsClaims ==
  ASSUME TypeOK, ClaimInv, NEW i \in Instances, NEW m \in Msgs, NEW p, p # "fetched",
         phase[i][m] = "fetched", SetPhase(i, m, p),
         ClaimDedup(OppOf[m]) \/ WinDedup(OppOf[m]),
         UNCHANGED age, Releases(OtherReasons)
  PROVE  ClaimInv'
<1>1. OneMoves(i, m, p)
  BY PhaseEffect
<1>2. CASE WinDedup(OppOf[m])
  BY <1>1, <1>2, WinKeepsClaims
<1>3. CASE UNCHANGED dedup
  <2>1. Calm
    BY <1>1, <1>3 DEF Calm, CalmForMessages, OneMoves
  <2> QED BY <2>1, CalmKeepsClaims
<1> QED BY <1>2, <1>3 DEF ClaimDedup

\* The message that is refused for the key is not the claimant: it was fetched.
LEMMA RefusalKeepsClaims ==
  ASSUME TypeOK, ClaimInv, NEW i \in Instances, NEW m \in Msgs, RefuseClaimed(i, m)
  PROVE  ClaimInv'
<1>1. /\ phase[i][m] = "fetched" /\ OneMoves(i, m, "none")
      /\ UNCHANGED <<age, dedup>> /\ dedup[OppOf[m]] > 0
  BY PhaseEffect DEF RefuseClaimed, Handling
<1>2. CASE UNCHANGED <<status, owner>>
  <2>1. Calm
    BY <1>1, <1>2, NothingReleased DEF Calm, CalmForMessages, OneMoves
  <2> QED BY <2>1, CalmKeepsClaims
<1>3. CASE Settle({m}, "duplicate") /\ status[m] = "pending"
  <2>1. /\ status'[m] = "duplicate"
        /\ \A n \in Msgs \ {m} : status'[n] = status[n] /\ owner'[n] = owner[n]
    BY <1>3, SettleEffect
  <2>2. owner[m] = i
    BY <1>1, <1>3 DEF ClaimInv, FetchedIsFresh
  <2>3. ~(\E o \in Opps : Claimant(m, o))
    BY <1>1, <1>3, <2>2 DEF Claimant
  <2>4. ASSUME NEW o \in Opps, dedup[o] > 0
        PROVE  \E n \in Msgs \ {m} : Claimant(n, o) /\ Claimant(n, o)'
    <3>1. PICK n \in Msgs : Claimant(n, o)
      BY <2>4 DEF ClaimInv, KeyHasClaimant
    <3>2. n # m
      BY <2>3, <3>1
    <3>3. \A j \in Instances : phase'[j][n] = phase[j][n]
      BY <1>1, <3>2 DEF OneMoves
    <3>4. Claimant(n, o)'
      BY <1>1, <2>1, <3>1, <3>2, <3>3 DEF Claimant
    <3> QED BY <3>1, <3>2, <3>4
  <2>5. KeyHasClaimant'
    BY <1>1, <2>4 DEF KeyHasClaimant
  <2>6. FetchedIsFresh'
    <3> SUFFICES ASSUME NEW j \in Instances, NEW n \in Msgs, phase'[j][n] = "fetched"
                 PROVE  /\ status'[n] \notin {"new", "duplicate"}
                        /\ status'[n] = "pending" => owner'[n] = j /\ age'[j][n] = 0
      BY DEF FetchedIsFresh
    <3>1. phase[j][n] = "fetched" /\ <<j, n>> # <<i, m>>
      BY <1>1 DEF OneMoves
    <3>2. n # m
      BY <1>3, <2>2, <3>1 DEF ClaimInv, FetchedIsFresh
    <3> QED BY <1>1, <2>1, <3>1, <3>2 DEF ClaimInv, FetchedIsFresh
  <2>7. PICK c \in Msgs \ {m} : Claimant(c, OppOf[m])
    BY <1>1, <2>4, RolesAssumption
  <2>8. OppOf[c] = OppOf[m] /\ status'[c] \notin {"new", "duplicate"}
    BY <2>1, <2>7 DEF Claimant
  <2>9. ASSUME NEW n \in Msgs, status'[n] = "duplicate"
        PROVE  \E k \in Msgs : OppOf[k] = OppOf[n] /\ status'[k] \notin {"new", "duplicate"}
    <3>1. CASE n = m
      BY <2>8, <3>1
    <3>2. CASE n # m
      <4>1. PICK k \in Msgs : OppOf[k] = OppOf[n] /\ status[k] \notin {"new", "duplicate"}
        BY <2>1, <2>9, <3>2 DEF ClaimInv, KeyNeverRefusesAll
      <4>2. CASE k = m
        BY <2>8, <4>1, <4>2
      <4>3. CASE k # m
        BY <2>1, <4>1, <4>3
      <4> QED BY <4>2, <4>3
    <3> QED BY <3>1, <3>2
  <2>10. KeyNeverRefusesAll'
    BY <2>9 DEF KeyNeverRefusesAll
  <2> QED BY <2>5, <2>6, <2>10 DEF ClaimInv
<1>4. CASE Settle({m}, "duplicate") /\ status[m] # "pending"
  <2>1. Releases(OtherReasons)
    BY <1>4, SettleEffect DEF Releases
  <2>2. Calm
    BY <1>1, <2>1 DEF Calm, CalmForMessages, OneMoves
  <2> QED BY <2>2, CalmKeepsClaims
<1> QED BY <1>2, <1>3, <1>4 DEF RefuseClaimed, AckNow

\* Handling a message preserves the invariant.
LEMMA HandlerKeepsClaims ==
  ASSUME TypeOK, ClaimInv, NEW i \in Instances, NEW m \in Msgs, Handler(i, m)
  PROVE  ClaimInv'
<1>1. CASE RefuseUnfit(i, m)
  <2>1. OneMoves(i, m, "none")
    BY <1>1, PhaseEffect DEF RefuseUnfit
  <2>2. Releases(OtherReasons)
    BY <1>1, AckReleases DEF RefuseUnfit, OtherReasons, Settled
  <2>3. Calm
    BY <1>1, <2>1, <2>2 DEF Calm, CalmForMessages, OneMoves, RefuseUnfit
  <2> QED BY <2>3, CalmKeepsClaims
<1>2. CASE RefuseClaimed(i, m)
  BY <1>2, RefusalKeepsClaims
<1>3. CASE Refuse(i, m)
  <2>1. PICK p \in {"rejecting", "repeating", "bouncing"} : SetPhase(i, m, p)
    BY <1>3 DEF Refuse
  <2>2. Releases(OtherReasons)
    BY <1>3, NothingReleased DEF Refuse
  <2>3. ClaimDedup(OppOf[m]) /\ UNCHANGED age /\ phase[i][m] = "fetched"
    BY <1>3 DEF Refuse, Handling
  <2> QED BY <2>1, <2>2, <2>3, ClaimKeepsClaims
<1>4. CASE FinishRefuse(i, m)
  <2>1. OneMoves(i, m, "unclaiming")
    BY <1>4, PhaseEffect DEF FinishRefuse
  <2>2. Releases(OtherReasons)
    BY <1>4, AckReleases DEF FinishRefuse, OtherReasons, Settled
  <2>3. Calm
    BY <1>4, <2>1, <2>2 DEF Calm, CalmForMessages, OneMoves, FinishRefuse
  <2> QED BY <2>3, CalmKeepsClaims
<1>5. CASE Unclaim(i, m)
  <2>1. PICK p \in {"bounced", "none"} : SetPhase(i, m, p)
    BY <1>5 DEF Unclaim
  <2>2. OneMoves(i, m, p)
    BY <2>1, PhaseEffect
  <2>3. Releases(OtherReasons)
    BY <1>5, NothingReleased DEF Unclaim
  <2>4. \A o \in Opps : dedup'[o] = dedup[o] \/ dedup'[o] = 0
    BY <1>5, RolesAssumption DEF Unclaim, DeleteDedup, TypeOK, RedisTypes
  <2>5. Calm
    BY <1>5, <2>2, <2>3, <2>4 DEF Calm, CalmForMessages, OneMoves, Unclaim
  <2> QED BY <2>5, CalmKeepsClaims
<1>6. CASE Accept(i, m)
  <2>1. Releases(OtherReasons)
    BY <1>6, SettleReleases, NothingReleased DEF Accept, OtherReasons, Settled
  <2>2. /\ ClaimDedup(OppOf[m]) \/ WinDedup(OppOf[m])
        /\ UNCHANGED age /\ phase[i][m] = "fetched" /\ SetPhase(i, m, "queued")
    BY <1>6 DEF Accept, Handling
  <2> QED BY <2>1, <2>2, ClaimKeepsClaims
<1>7. CASE AcceptAndSkip(i, m)
  <2>1. Releases(OtherReasons)
    BY <1>7, SettleReleases DEF AcceptAndSkip, OtherReasons, Settled
  <2>2. /\ ClaimDedup(OppOf[m]) \/ WinDedup(OppOf[m])
        /\ UNCHANGED age /\ phase[i][m] = "fetched"
    BY <1>7 DEF AcceptAndSkip, Handling
  <2>3. PICK p \in {"none", "acking"} : SetPhase(i, m, p)
    BY <1>7 DEF AcceptAndSkip
  <2> QED BY <2>1, <2>2, <2>3, ClaimKeepsClaims
<1>8. CASE SetAside(i, m)
  <2>1. OneMoves(i, m, "expired") /\ UNCHANGED <<age, dedup>>
    BY <1>8, PhaseEffect DEF SetAside, redisVars
  <2>2. Releases(OtherReasons)
    BY <1>8, NothingReleased DEF SetAside, redisVars
  <2>3. Calm
    BY <2>1, <2>2 DEF Calm, CalmForMessages, OneMoves
  <2> QED BY <2>3, CalmKeepsClaims
<1> QED BY <1>1, <1>2, <1>3, <1>4, <1>5, <1>6, <1>7, <1>8 DEF Handler

\* The messages put aside are acknowledged for another reason than the key.
LEMMA AckExpiredCalm ==
  ASSUME TypeOK, NEW i \in Instances, AckExpired(i)
  PROVE  Calm
<1>1. Releases({"unfit"}) /\ UNCHANGED <<age, dedup>>
  BY AsideEffect
<1>2. Releases(OtherReasons)
  BY <1>1 DEF Releases, OtherReasons, Settled
<1>3. \A j \in Instances, n \in Msgs : phase'[j][n] = "fetched" => phase[j][n] = "fetched"
  BY AsideEffect
<1> QED BY <1>1, <1>2, <1>3 DEF Calm, CalmForMessages

\* The pipeline neither hands over messages nor touches keys.
LEMMA PipelineCalm ==
  ASSUME TypeOK, NEW i \in Instances, NEW m \in Msgs, Pipeline(i, m)
  PROVE  Calm
<1>1. Releases(OtherReasons)
  <2>1. CASE SkipExecuted(i, m)
    BY <2>1, SettleReleases, NothingReleased
    DEF SkipExecuted, AckAfterExecution, OtherReasons, Settled
  <2>2. CASE ~SkipExecuted(i, m)
    BY <2>2, NothingReleased
    DEF Pipeline, BlockedByBreaker, BlockedByChain, Dispatch, AcquireLock, LockConflict,
        ForceRelease, LockUnavailable, redisVars
  <2> QED BY <2>1, <2>2
<1>2. UNCHANGED <<age, dedup>>
  BY DEF Pipeline, BlockedByBreaker, BlockedByChain, Dispatch, SkipExecuted, AcquireLock,
         LockConflict, ForceRelease, LockUnavailable, redisVars
<1>3. UNCHANGED phase \/ \E p \in Phases \ {"fetched"} : SetPhase(i, m, p)
  BY DEF Pipeline, BlockedByBreaker, BlockedByChain, PutBack, Dispatch, SkipExecuted,
         AckAfterExecution, AcquireLock, LockConflict, ForceRelease, LockUnavailable,
         Phases, InFlightPhases
<1>4. \A j \in Instances, n \in Msgs : phase'[j][n] = "fetched" => phase[j][n] = "fetched"
  BY <1>3, PhaseEffect DEF OneMoves
<1> QED BY <1>1, <1>2, <1>4 DEF Calm, CalmForMessages

\* An execution may delete the key, but sets none.
LEMMA ExecutionCalm ==
  ASSUME TypeOK, NEW i \in Instances, NEW m \in Msgs, Execution(i, m)
  PROVE  Calm
<1>1. Releases(OtherReasons)
  <2>1. CASE RecordExecuted(i, m)
    BY <2>1, SettleReleases, NothingReleased
    DEF RecordExecuted, AckAfterExecution, OtherReasons, Settled
  <2>2. CASE ~RecordExecuted(i, m)
    BY <2>2, NothingReleased
    DEF Execution, Replied, Finish, FinishStale, TimeOut, FinishLate, ReleaseLock, AckReply,
        redisVars
  <2> QED BY <2>1, <2>2
<1>2. UNCHANGED age /\ (UNCHANGED dedup \/ DeleteDedup(OppOf[m]))
  BY DEF Execution, Replied, Finish, FinishStale, TimeOut, FinishLate, ReleaseLock, RecordExecuted,
         AckReply, MarkComplete, redisVars
<1>3. \A o \in Opps : dedup'[o] = dedup[o] \/ dedup'[o] = 0
  BY <1>2, RolesAssumption DEF DeleteDedup, TypeOK, RedisTypes
<1>4. UNCHANGED phase \/ \E p \in Phases \ {"fetched"} : SetPhase(i, m, p)
  BY DEF Execution, Replied, Finish, FinishStale, TimeOut, FinishLate, ReleaseLock, RecordExecuted,
         AckAfterExecution, AckReply, Phases, InFlightPhases
<1>5. \A j \in Instances, n \in Msgs : phase'[j][n] = "fetched" => phase[j][n] = "fetched"
  BY <1>4, PhaseEffect DEF OneMoves
<1> QED BY <1>1, <1>2, <1>3, <1>5 DEF Calm, CalmForMessages

\* So is the end of a life, the end of a recovery, and the cleanup.
LEMMA LifecycleCalm ==
  ASSUME TypeOK, NEW i \in Instances,
         \/ EndRecovery(i) \/ Crash(i) \/ BeginStop(i) \/ FinishStop(i)
         \/ ShutDownLocks(i) \/ Exit(i) \/ \E o \in Opps : CleanupStale(i, o)
  PROVE  Calm
<1>1. Releases(OtherReasons)
  <2>1. CASE EndRecovery(i)
    BY <2>1, SettleReleases, NothingReleased DEF EndRecovery, OtherReasons, Settled
  <2>2. CASE FinishStop(i)
    BY <2>2, SettleReleases, NothingReleased DEF FinishStop, OtherReasons, Settled
  <2>3. CASE \E o \in Opps : CleanupStale(i, o)
    BY <2>3, SettleReleases DEF CleanupStale, OtherReasons, Settled
  <2>4. CASE Crash(i) \/ BeginStop(i) \/ ShutDownLocks(i) \/ Exit(i)
    BY <2>4, NothingReleased DEF Crash, BeginStop, ShutDownLocks, Exit, redisVars
  <2> QED BY <2>1, <2>2, <2>3, <2>4
<1>2. UNCHANGED <<age, dedup>>
  BY DEF EndRecovery, Crash, BeginStop, FinishStop, ShutDownLocks, Exit, CleanupStale,
         Forget, redisVars
<1>3. \A j \in Instances, n \in Msgs : phase'[j][n] = "fetched" => phase[j][n] = "fetched"
  <2>1. CASE UNCHANGED phase
    BY <2>1
  <2>2. CASE Forget(i)
    BY <2>2 DEF Forget, TypeOK, ServiceTypes
  <2>3. CASE FinishStop(i)
    BY <2>3 DEF FinishStop, TypeOK, ServiceTypes
  <2> QED BY <2>1, <2>2, <2>3
      DEF EndRecovery, Crash, BeginStop, ShutDownLocks, Exit, CleanupStale
<1> QED BY <1>1, <1>2, <1>3 DEF Calm, CalmForMessages

\* A message that is read was nobody's before: no claimant, and in no handler.
LEMMA FetchKeepsClaims ==
  ASSUME TypeOK, ClaimInv, NEW i \in Instances, NEW m \in Msgs, Fetch(i, m)
  PROVE  ClaimInv'
<1>1. /\ status[m] = "new" /\ status'[m] = "pending" /\ owner'[m] = i /\ age'[i][m] = 0
      /\ \A n \in Msgs \ {m} :
           /\ status'[n] = status[n] /\ owner'[n] = owner[n]
           /\ \A j \in Instances : age'[j][n] = age[j][n]
      /\ OneMoves(i, m, "fetched") /\ UNCHANGED dedup
  BY PhaseEffect DEF Fetch, TypeOK, RedisTypes, ServiceTypes
<1>2. FetchedIsFresh'
  <2> SUFFICES ASSUME NEW j \in Instances, NEW n \in Msgs, phase'[j][n] = "fetched"
               PROVE  /\ status'[n] \notin {"new", "duplicate"}
                      /\ status'[n] = "pending" => owner'[n] = j /\ age'[j][n] = 0
    BY DEF FetchedIsFresh
  <2>1. CASE n = m
    <3>1. j = i
      BY <1>1, <2>1 DEF OneMoves, ClaimInv, FetchedIsFresh
    <3> QED BY <1>1, <2>1, <3>1
  <2>2. CASE n # m
    BY <1>1, <2>2 DEF OneMoves, ClaimInv, FetchedIsFresh
  <2> QED BY <2>1, <2>2
<1>3. ASSUME NEW o \in Opps, dedup'[o] > 0
      PROVE  \E n \in Msgs : Claimant(n, o)'
  <2>1. PICK n \in Msgs : Claimant(n, o)
    BY <1>1, <1>3 DEF ClaimInv, KeyHasClaimant
  <2>2. n # m
    BY <1>1, <2>1 DEF Claimant
  <2>3. \A j \in Instances : phase'[j][n] = phase[j][n]
    BY <1>1, <2>2 DEF OneMoves
  <2> QED BY <1>1, <2>1, <2>2, <2>3 DEF Claimant
<1>4. KeyNeverRefusesAll'
  <2>1. \A n \in Msgs : /\ status'[n] = "duplicate" => status[n] = "duplicate"
                        /\ status[n] \notin {"new", "duplicate"} => status'[n] = status[n]
    BY <1>1
  <2> QED BY <2>1 DEF ClaimInv, KeyNeverRefusesAll
<1> QED BY <1>2, <1>3, <1>4 DEF ClaimInv, KeyHasClaimant

\* What recovery does to a message: it is taken over after PendingMaxAge, or left alone.
LEMMA RecoverEffect ==
  ASSUME TypeOK, OffIsBlank, NEW i \in Instances, Start(i)
  PROVE  /\ UNCHANGED <<status, dedup, age>>
         /\ \A n \in Msgs :
              \/ /\ status[n] = "pending" /\ owner[n] \in Instances
                 /\ age[owner[n]][n] >= PendingMaxAge
                 /\ owner'[n] = i /\ age[i][n] = 0 /\ phase'[i][n] = "fetched"
              \/ owner'[n] = owner[n] /\ phase'[i][n] = "none"
         /\ \A j \in Instances \ {i} : phase'[j] = phase[j]
<1>1. UNCHANGED <<status, dedup, age>> /\ inst[i] = "off"
  BY DEF Start
<1>2. \A n \in Msgs : age[i][n] = 0 /\ phase[i][n] = "none"
  BY <1>1 DEF OffIsBlank
<1>3. CASE \E scanned \in SUBSET PendingMsgs : Recover(i, scanned)
  <2>1. PICK scanned \in SUBSET PendingMsgs : Recover(i, scanned)
    BY <1>3
  <2> DEFINE orphans == Orphans(scanned)
  <2>2. \A n \in Msgs : /\ n \in orphans => status[n] = "pending" /\ IdleIn(n) >= PendingMaxAge
                        /\ owner'[n] = IF n \in orphans THEN i ELSE owner[n]
                        /\ phase'[i][n] = IF n \in orphans THEN "fetched" ELSE "none"
    BY <2>1 DEF Recover, Orphans, PendingMsgs, TypeOK, ServiceTypes
  <2>3. \A n \in orphans \cap Msgs :
          owner[n] \in Instances /\ age[owner[n]][n] >= PendingMaxAge
    BY <2>2, TimersAssumption DEF IdleIn, TypeOK, RedisTypes
  <2>4. \A j \in Instances \ {i} : phase'[j] = phase[j]
    BY <2>1 DEF Recover, TypeOK, ServiceTypes
  <2> QED BY <1>1, <1>2, <2>2, <2>3, <2>4
<1>4. CASE UNCHANGED <<owner, phase>>
  BY <1>1, <1>2, <1>4
<1> QED BY <1>1, <1>3, <1>4 DEF Start

\* Recovery takes no claimant over while its key is set: the claimant is too young.
LEMMA StartKeepsClaims ==
  ASSUME DedupTtl <= PendingMaxAge, TypeOK, OffIsBlank, ClaimInv,
         NEW i \in Instances, Start(i)
  PROVE  ClaimInv'
<1>1. /\ UNCHANGED <<status, dedup, age>>
      /\ \A n \in Msgs :
           \/ /\ status[n] = "pending" /\ owner[n] \in Instances
              /\ age[owner[n]][n] >= PendingMaxAge
              /\ owner'[n] = i /\ age[i][n] = 0 /\ phase'[i][n] = "fetched"
           \/ owner'[n] = owner[n] /\ phase'[i][n] = "none"
      /\ \A j \in Instances \ {i} : phase'[j] = phase[j]
  BY RecoverEffect
<1>2. FetchedIsFresh'
  <2> SUFFICES ASSUME NEW j \in Instances, NEW n \in Msgs, phase'[j][n] = "fetched"
               PROVE  /\ status[n] \notin {"new", "duplicate"}
                      /\ status[n] = "pending" => owner'[n] = j /\ age[j][n] = 0
    BY <1>1 DEF FetchedIsFresh
  <2>1. CASE j = i
    BY <1>1, <2>1
  <2>2. CASE j # i
    <3>1. phase[j][n] = "fetched"
      BY <1>1, <2>2
    <3>2. status[n] = "pending" => owner[n] = j /\ age[j][n] = 0
      BY <3>1 DEF ClaimInv, FetchedIsFresh
    <3>3. owner'[n] = owner[n] \/ status[n] # "pending"
      BY <1>1, <3>2, TimersAssumption
    <3> QED BY <3>1, <3>2, <3>3 DEF ClaimInv, FetchedIsFresh
  <2> QED BY <2>1, <2>2
<1>3. ASSUME NEW o \in Opps, dedup'[o] > 0
      PROVE  \E n \in Msgs : Claimant(n, o)'
  <2>1. PICK n \in Msgs : Claimant(n, o)
    BY <1>1, <1>3 DEF ClaimInv, KeyHasClaimant
  <2>2. CASE status[n] # "pending"
    BY <1>1, <2>1, <2>2 DEF Claimant
  <2>3. CASE status[n] = "pending"
    <3>1. PICK j \in Instances :
            owner[n] = j /\ phase[j][n] # "fetched" /\ age[j][n] + dedup[o] <= DedupTtl
      BY <2>1, <2>3 DEF Claimant
    <3>2. age[j][n] \in Nat /\ dedup[o] \in Nat
      BY DEF TypeOK, RedisTypes, ServiceTypes
    <3>3. ~(age[j][n] >= PendingMaxAge)
      BY <1>1, <1>3, <3>1, <3>2, TimersAssumption
    <3>4. owner'[n] = j /\ phase'[j][n] # "fetched"
      BY <1>1, <3>1, <3>3
    <3> QED BY <1>1, <2>1, <3>1, <3>4 DEF Claimant
  <2> QED BY <2>2, <2>3
<1>4. KeyNeverRefusesAll'
  BY <1>1 DEF ClaimInv, KeyNeverRefusesAll
<1> QED BY <1>2, <1>3, <1>4 DEF ClaimInv, KeyHasClaimant

\* A claimant grows older no faster than its key runs down, and time waits for handlers.
LEMMA TickKeepsClaims ==
  ASSUME TypeOK, ClaimInv, Tick
  PROVE  ClaimInv'
<1>1. UNCHANGED <<status, owner, phase>>
      /\ \A j \in Instances, n \in Msgs : phase[j][n] # "fetched"
  BY DEF Tick
<1>2. FetchedIsFresh' /\ KeyNeverRefusesAll'
  BY <1>1 DEF ClaimInv, FetchedIsFresh, KeyNeverRefusesAll
<1>3. ASSUME NEW o \in Opps, dedup'[o] > 0
      PROVE  \E n \in Msgs : Claimant(n, o)'
  <2>1. dedup[o] \in Nat /\ dedup[o] > 0 /\ dedup'[o] = dedup[o] - 1
    BY <1>3 DEF Tick, Countdown, TypeOK, RedisTypes
  <2>2. PICK n \in Msgs : Claimant(n, o)
    BY <2>1 DEF ClaimInv, KeyHasClaimant
  <2>3. ASSUME NEW j \in Instances, age[j][n] + dedup[o] <= DedupTtl
        PROVE  age'[j][n] + dedup'[o] <= DedupTtl
    <3>1. age[j][n] \in 0..PendingMaxAge
      BY DEF TypeOK, ServiceTypes
    <3>2. age'[j][n] <= age[j][n] + 1 /\ age'[j][n] \in Nat
      BY <3>1, TimersAssumption DEF Tick, Older
    <3> QED BY <2>1, <2>3, <3>1, <3>2, TimersAssumption
  <2> QED BY <1>1, <2>2, <2>3 DEF Claimant
<1> QED BY <1>2, <1>3 DEF ClaimInv, KeyHasClaimant

\* A step of one instance that is up, seen from the others.
OwnDoing(i) ==
  /\ inst'[i] # "off"
  /\ \A j \in Instances \ {i} :
       /\ inst'[j] = inst[j] /\ age'[j] = age[j] /\ phase'[j] = phase[j]
       /\ pending'[j] = pending[j] /\ conflicts'[j] = conflicts[j]
  /\ \A m \in Msgs : owner'[m] \in {owner[m], None, i}

\* It touches nothing of an instance that has not started.
LEMMA OwnDoingKeepsBlank ==
  ASSUME OffIsBlank, NEW i \in Instances, OwnDoing(i)
  PROVE  OffIsBlank'
BY RolesAssumption DEF OffIsBlank, OwnDoing

\* Reading and handling messages is an instance's own doing.
LEMMA HandlerIsOwn ==
  ASSUME TypeOK, NEW i \in Instances, NEW m \in Msgs, Fetch(i, m) \/ Handler(i, m)
  PROVE  OwnDoing(i)
<1>1. inst[i] # "off" /\ UNCHANGED <<inst, conflicts>>
  BY DEF Fetch, Handler, SetAside, RefuseUnfit, RefuseClaimed, Refuse, FinishRefuse, Unclaim, Accept,
         AcceptAndSkip, Handling, Live, bookVars
<1>2. \A n \in Msgs : owner'[n] \in {owner[n], None, i}
  <2>1. CASE Fetch(i, m)
    BY <2>1 DEF Fetch, TypeOK, RedisTypes
  <2>2. CASE RefuseUnfit(i, m) \/ RefuseClaimed(i, m) \/ FinishRefuse(i, m)
    <3>1. Releases(Settled)
      BY <2>2, AckReleases DEF RefuseUnfit, RefuseClaimed, FinishRefuse, Settled
    <3> QED BY <3>1 DEF Releases
  <2>3. CASE Refuse(i, m) \/ Unclaim(i, m) \/ SetAside(i, m)
    BY <2>3 DEF Refuse, Unclaim, SetAside, redisVars
  <2>4. CASE Accept(i, m) \/ AcceptAndSkip(i, m)
    <3>1. Releases(Settled)
      BY <2>4, SettleReleases, NothingReleased DEF Accept, AcceptAndSkip, Settled
    <3> QED BY <3>1 DEF Releases
  <2> QED BY <2>1, <2>2, <2>3, <2>4 DEF Handler
<1>3. \A j \in Instances \ {i} :
        age'[j] = age[j] /\ phase'[j] = phase[j] /\ pending'[j] = pending[j]
  BY DEF Fetch, Handler, SetAside, RefuseUnfit, RefuseClaimed, Refuse, FinishRefuse, Unclaim, Accept,
         AcceptAndSkip, SetPhase, bookVars, TypeOK, ServiceTypes
<1> QED BY <1>1, <1>2, <1>3 DEF OwnDoing

\* So is what it does with a message it holds.
LEMMA PipelineIsOwn ==
  ASSUME TypeOK, OffIsBlank, NEW i \in Instances, NEW m \in Msgs,
         Pipeline(i, m) \/ (Execution(i, m) /\ ~FinishLate(i, m))
  PROVE  OwnDoing(i)
<1>1. phase[i][m] # "none" /\ UNCHANGED inst
  BY DEF Pipeline, BlockedByBreaker, BlockedByChain, Dispatch, SkipExecuted, Leaves,
         Dequeues, AcquireLock, LockConflict, ForceRelease, LockUnavailable, Execution, Replied,
         Finish, FinishStale, TimeOut, TimedOut, ReleaseLock, RecordExecuted, AckReply
<1>2. \A n \in Msgs : owner'[n] \in {owner[n], None}
  <2>1. CASE SkipExecuted(i, m) \/ RecordExecuted(i, m)
    <3>1. Releases(Settled)
      BY <2>1, SettleReleases, NothingReleased
      DEF SkipExecuted, RecordExecuted, AckAfterExecution, Settled
    <3> QED BY <3>1 DEF Releases
  <2>2. CASE UNCHANGED owner
    BY <2>2
  <2> QED BY <2>1, <2>2
      DEF Pipeline, BlockedByBreaker, BlockedByChain, Dispatch, AcquireLock, LockConflict,
          ForceRelease, LockUnavailable, Execution, Replied, Finish, FinishStale, TimeOut,
          ReleaseLock, AckReply, redisVars
<1>3. UNCHANGED age /\ \A j \in Instances \ {i} : phase'[j] = phase[j]
  BY DEF Pipeline, BlockedByBreaker, BlockedByChain, PutBack, Dispatch, SkipExecuted,
         AcquireLock, LockConflict, ForceRelease, LockUnavailable, Execution, Replied, Finish,
         FinishStale, TimeOut, ReleaseLock, RecordExecuted, AckAfterExecution, AckReply,
         SetPhase, TypeOK, ServiceTypes
<1>4. \A j \in Instances \ {i} : pending'[j] = pending[j] /\ conflicts'[j] = conflicts[j]
  BY DEF Pipeline, BlockedByBreaker, BlockedByChain, Dispatch, SkipExecuted, AcquireLock,
         LockConflict, ForceRelease, LockUnavailable, Execution, Replied, Finish, FinishStale,
         TimeOut, ReleaseLock, RecordExecuted, AckReply, bookVars, TypeOK, ServiceTypes,
         PipelineTypes
<1> QED BY <1>1, <1>2, <1>3, <1>4 DEF OwnDoing, OffIsBlank

\* And every step of its life.
LEMMA LifecycleIsOwn ==
  ASSUME TypeOK, OffIsBlank, NEW i \in Instances,
         AckExpired(i) \/ Lifecycle(i) \/ \E o \in Opps : CleanupStale(i, o)
  PROVE  OwnDoing(i)
<1>1. CASE Start(i)
  <2>1. /\ \A n \in Msgs : owner'[n] \in {owner[n], None, i}
        /\ UNCHANGED age /\ \A j \in Instances \ {i} : phase'[j] = phase[j]
    BY <1>1, RecoverEffect
  <2>2. inst'[i] # "off" /\ \A j \in Instances \ {i} : inst'[j] = inst[j]
    BY <1>1 DEF Start, Recover, TypeOK, ServiceTypes
  <2> QED BY <1>1, <2>1, <2>2 DEF Start, OwnDoing
<1>2. CASE EndRecovery(i) \/ FinishStop(i) \/ \E o \in Opps : CleanupStale(i, o)
  <2>1. Releases(Settled)
    BY <1>2, SettleReleases, NothingReleased DEF EndRecovery, FinishStop, CleanupStale, Settled
  <2> QED BY <1>2, <2>1
      DEF EndRecovery, FinishStop, CleanupStale, OwnDoing, Releases, TypeOK, ServiceTypes
<1>3. CASE Crash(i) \/ Exit(i)
  BY <1>3 DEF Crash, Exit, Forget, OwnDoing, TypeOK, ServiceTypes, PipelineTypes
<1>4. CASE BeginStop(i) \/ ShutDownLocks(i)
  BY <1>4 DEF BeginStop, ShutDownLocks, OwnDoing, redisVars, bookVars, TypeOK, ServiceTypes
<1>5. CASE AckExpired(i)
  <2>1. /\ Releases({"unfit"}) /\ Live(i)
        /\ UNCHANGED <<inst, age, pending, conflicts>>
    BY <1>5, AsideEffect DEF bookVars
  <2>2. \A j \in Instances \ {i} : phase'[j] = phase[j]
    BY <1>5 DEF AckExpired, TypeOK, ServiceTypes
  <2> QED BY <2>1, <2>2 DEF OwnDoing, Releases, Live
<1> QED BY <1>1, <1>2, <1>3, <1>4, <1>5 DEF Lifecycle

\* Time does not start an instance, nor age a message it does not have.
LEMMA TickKeepsBlank ==
  ASSUME TypeOK, OffIsBlank, Tick
  PROVE  OffIsBlank'
<1> SUFFICES ASSUME NEW i \in Instances, inst[i] = "off"
             PROVE  /\ \A m \in Msgs : owner[m] # i /\ age'[i][m] = 0 /\ phase[i][m] = "none"
                    /\ \A o \in Opps : pending[i][o] = None /\ conflicts'[i][o].count = 0
  BY DEF OffIsBlank, Tick
<1>1. \A m \in Msgs : owner[m] # i /\ phase[i][m] = "none"
  BY DEF OffIsBlank
<1>2. \A o \in Opps : pending[i][o] = None /\ conflicts[i][o].count = 0
  BY DEF OffIsBlank
<1>3. \A m \in Msgs : age'[i][m] = 0
  BY <1>1, <1>2, RolesAssumption DEF Tick, Tracked
<1>4. \A o \in Opps : conflicts'[i][o].count = 0
  BY <1>2 DEF Tick, Aged, NoConflict
<1> QED BY <1>1, <1>2, <1>3, <1>4

\* Instances that have not started stay blank, whatever the others do.
LEMMA BlankStays == TypeOK /\ OffIsBlank /\ [Next]_vars => OffIsBlank'
<1> SUFFICES ASSUME TypeOK, OffIsBlank, [Next]_vars PROVE OffIsBlank'
  OBVIOUS
<1>1. ASSUME NEW i \in Instances, OwnDoing(i) PROVE OffIsBlank'
  BY <1>1, OwnDoingKeepsBlank
<1>2. CASE UNCHANGED <<inst, owner, age, phase, pending, conflicts>>
  BY <1>2 DEF OffIsBlank
<1>3. ASSUME NEW i \in Instances, NEW m \in Msgs, FinishLate(i, m)
      PROVE  UNCHANGED <<inst, owner, age, phase, pending, conflicts>>
  BY <1>3 DEF FinishLate
<1>4. UNCHANGED vars => UNCHANGED <<inst, owner, age, phase, pending, conflicts>>
  BY DEF vars, redisVars, bookVars
<1> QED BY <1>1, <1>2, <1>3, <1>4, HandlerIsOwn, PipelineIsOwn, LifecycleIsOwn,
           TickKeepsBlank DEF Next

\* Nothing is held by an instance that has not started.
THEOREM BlankAlways == Spec => []OffIsBlank
<1>1. Init => OffIsBlank
  BY RolesAssumption DEF Init, InitAfter, OffIsBlank, NoConflict
<1> QED BY <1>1, BlankStays, TypeCorrect, PTL DEF Spec

\* Every step preserves the invariant of the key.
LEMMA ClaimsStay ==
  ASSUME DedupTtl <= PendingMaxAge, TypeOK, OffIsBlank, ClaimInv, [Next]_vars
  PROVE  ClaimInv'
<1>1. CASE Calm
  BY <1>1, CalmKeepsClaims
<1>2. ASSUME NEW i \in Instances, NEW m \in Msgs,
             Fetch(i, m) \/ Handler(i, m) \/ Pipeline(i, m) \/ Execution(i, m)
      PROVE  ClaimInv'
  BY <1>1, <1>2, FetchKeepsClaims, HandlerKeepsClaims, PipelineCalm, ExecutionCalm
<1>3. ASSUME NEW i \in Instances,
             AckExpired(i) \/ Lifecycle(i) \/ \E o \in Opps : CleanupStale(i, o)
      PROVE  ClaimInv'
  BY <1>1, <1>3, AckExpiredCalm, LifecycleCalm, StartKeepsClaims DEF Lifecycle
<1>4. CASE Tick
  BY <1>4, TickKeepsClaims
<1>5. CASE UNCHANGED vars
  <2>1. Calm
    BY <1>5, NothingReleased DEF Calm, CalmForMessages, vars, redisVars
  <2> QED BY <1>1, <2>1
<1> QED BY <1>2, <1>3, <1>4, <1>5 DEF Next

\* Unless a key outlives the idle time that recovery waits for, the keys alone never
\* refuse every message of an opportunity, however many instances deduplicate it,
\* crash, recover each other's messages, or miss the reply of Redis.
THEOREM KeysLeaveOne ==
  ASSUME DedupTtl <= PendingMaxAge
  PROVE  Spec => []KeyNeverRefusesAll
<1>1. Init => ClaimInv
  BY DEF Init, InitAfter, ClaimInv, FetchedIsFresh, KeyHasClaimant, KeyNeverRefusesAll
<1>2. TypeOK /\ OffIsBlank /\ ClaimInv /\ [Next]_vars => ClaimInv'
  BY ClaimsStay
<1>3. ClaimInv => KeyNeverRefusesAll
  BY DEF ClaimInv
<1> QED BY <1>1, <1>2, <1>3, TypeCorrect, BlankAlways, PTL DEF Spec

-----------------------------------------------------------------------------
(* Pending entries are tracked.  Where every message carries an opportunity of  *)
(* its own, what an instance holds past its handler it also has in its map of   *)
(* pending messages, and an entry gets lost only by an XACK that failed.  (With *)
(* duplicates it is not so: the reply to the XACK of one message deletes the    *)
(* map's entry of another.)                                                     *)

OneMessageEach == \A m, n \in Msgs : OppOf[m] = OppOf[n] => m = n

\* The map of pending messages is keyed by their opportunities.
PendingMatches ==
  \A i \in Instances, o \in Opps : pending[i][o] # None => OppOf[pending[i][o]] = o

\* From the queue to the XACK a message is in the map, unless its entry is gone.
TrackedPhases == {"queued"} \cup (InFlightPhases \ {"acking"})
HeldIsTracked ==
  \A i \in Instances, m \in Msgs :
    /\ Live(i) /\ phase[i][m] \in TrackedPhases /\ status[m] = "pending" /\ owner[m] = i
         => pending[i][OppOf[m]] = m
    /\ phase[i][m] = "acking" => status[m] # "pending"

\* An entry counts as lost from the moment its instance dismisses it.
IsLost(i, m) ==
  /\ status[m] = "pending" /\ owner[m] = i /\ Live(i)
  /\ phase[i][m] \in {"none", "unclaiming"} /\ pending[i][OppOf[m]] # m
Lost == {s \in Instances \X Msgs : IsLost(s[1], s[2])}

TrackInv == PendingMatches /\ HeldIsTracked /\ Lost \subseteq unacked

\* The phases a message takes at an instance without getting out of its hands.
InHand(i, m, p) ==
  \/ p \in {"fetched", "expired", "rejecting", "repeating", "bouncing", "bounced"}
  \/ p \in TrackedPhases /\ phase[i][m] \in TrackedPhases
  \/ p \in {"none", "unclaiming"} /\ phase[i][m] \in TrackedPhases \cup {"unclaiming", "acking"}
  \/ p \in {"none", "unclaiming", "acking"} /\ status'[m] # "pending"

\* No instance starts.
NobodyStarts == \A j \in Instances : Live(j)' => Live(j)

\* A message that moves so, while the map stays as it is, is not lost; another one,
\* whose XACK failed, is.
LEMMA MoveKeepsTrack ==
  ASSUME TypeOK, TrackInv, NEW i \in Instances, NEW m \in Msgs, NEW p, OneMoves(i, m, p),
         Releases(Settled), NobodyStarts, UNCHANGED pending,
         InHand(i, m, p) \/ p \in {"none", "unclaiming"}
  PROVE  /\ PendingMatches' /\ HeldIsTracked'
         /\ Lost' \subseteq Lost \cup {Slot(i, m)}
         /\ InHand(i, m, p) => Lost' \subseteq Lost
<1>1. ASSUME NEW n \in Msgs
      PROVE  status'[n] = "pending" => status[n] = "pending" /\ owner'[n] = owner[n]
  BY DEF Releases, Settled
<1>2. PendingMatches'
  BY DEF TrackInv, PendingMatches
<1>3. ASSUME NEW j \in Instances, NEW n \in Msgs
      PROVE  /\ Live(j)' /\ phase'[j][n] \in TrackedPhases /\ status'[n] = "pending"
                /\ owner'[n] = j => pending'[j][OppOf[n]] = n
             /\ phase'[j][n] = "acking" => status'[n] # "pending"
  <2>1. CASE <<j, n>> = <<i, m>>
    BY <1>1, <2>1
    DEF TrackInv, HeldIsTracked, OneMoves, NobodyStarts, InHand, TrackedPhases, InFlightPhases
  <2>2. CASE <<j, n>> # <<i, m>>
    BY <1>1, <2>2 DEF TrackInv, HeldIsTracked, OneMoves, NobodyStarts
  <2> QED BY <2>1, <2>2
<1>4. ASSUME NEW j \in Instances, NEW n \in Msgs, IsLost(j, n)', <<j, n>> # <<i, m>>
      PROVE  IsLost(j, n)
  BY <1>1, <1>4 DEF IsLost, OneMoves, NobodyStarts
<1>5. ASSUME IsLost(i, m)', InHand(i, m, p) PROVE IsLost(i, m)
  <2>1. /\ status[m] = "pending" /\ owner[m] = i /\ Live(i) /\ pending[i][OppOf[m]] # m
        /\ p \in {"none", "unclaiming"} /\ status'[m] = "pending"
    BY <1>1, <1>5 DEF IsLost, OneMoves, NobodyStarts
  <2>2. phase[i][m] = "unclaiming"
    BY <1>5, <2>1 DEF InHand, TrackInv, HeldIsTracked, TrackedPhases, InFlightPhases
  <2> QED BY <2>1, <2>2 DEF IsLost
<1>6. Lost' \subseteq Lost \cup {Slot(i, m)}
  BY <1>4 DEF Lost, Slot
<1>7. InHand(i, m, p) => Lost' \subseteq Lost
  BY <1>4, <1>5 DEF Lost
<1> QED BY <1>2, <1>3, <1>6, <1>7 DEF HeldIsTracked

\* A failing command that dismisses nothing adds nothing to what is dismissed.
LEMMA FaultsGrow ==
  ASSUME Fault \/ UNCHANGED faultVars
  PROVE  unacked \subseteq unacked'
BY DEF Fault, faultVars

\* A step that keeps all messages in hand.
LEMMA InHandKeepsTrack ==
  ASSUME TypeOK, TrackInv, NEW i \in Instances, NEW m \in Msgs, NEW p, OneMoves(i, m, p),
         Releases(Settled), UNCHANGED <<pending, inst>>, InHand(i, m, p),
         unacked \subseteq unacked'
  PROVE  TrackInv'
<1>1. NobodyStarts
  BY DEF NobodyStarts, Live
<1>2. PendingMatches' /\ HeldIsTracked' /\ Lost' \subseteq Lost
  BY <1>1, MoveKeepsTrack
<1> QED BY <1>2 DEF TrackInv

\* A step that leaves phases, or shrinks them, and takes from the map what it settles.
ForgetsSettled ==
  /\ Releases(Settled)
  /\ NobodyStarts
  /\ \A j \in Instances : Live(j)' =>
       /\ phase'[j] = phase[j]
       /\ \A o \in Opps : \/ pending'[j][o] = pending[j][o]
                          \/ pending'[j][o] = None /\ status'[pending[j][o]] # "pending"
  /\ \A j \in Instances, o \in Opps : pending'[j][o] \in {pending[j][o], None}
  /\ \A j \in Instances, n \in Msgs : phase'[j][n] = "acking" => phase[j][n] = "acking"

\* It loses nothing.
LEMMA ForgettingKeepsTrack ==
  ASSUME TypeOK, TrackInv, ForgetsSettled, unacked \subseteq unacked'
  PROVE  TrackInv'
<1>1. ASSUME NEW n \in Msgs
      PROVE  status'[n] = "pending" => status[n] = "pending" /\ owner'[n] = owner[n]
  BY DEF ForgetsSettled, Releases, Settled
<1>2. PendingMatches'
  BY DEF TrackInv, PendingMatches, ForgetsSettled
<1>3. ASSUME NEW j \in Instances, NEW n \in Msgs, Live(j)', status'[n] = "pending"
      PROVE  pending[j][OppOf[n]] = n => pending'[j][OppOf[n]] = n
  BY <1>3, RolesAssumption DEF ForgetsSettled
<1>4. HeldIsTracked'
  BY <1>1, <1>3 DEF TrackInv, HeldIsTracked, ForgetsSettled, NobodyStarts
<1>5. ASSUME NEW j \in Instances, NEW n \in Msgs, IsLost(j, n)'
      PROVE  IsLost(j, n)
  BY <1>1, <1>3, <1>5 DEF IsLost, ForgetsSettled, NobodyStarts
<1>6. Lost' \subseteq Lost
  BY <1>5 DEF Lost
<1> QED BY <1>2, <1>4, <1>6 DEF TrackInv

\* An XACK that fails loses its message, and is remembered.
LEMMA AckKeepsTrack ==
  ASSUME TypeOK, TrackInv, NEW i \in Instances, NEW m \in Msgs,
         NEW p \in {"none", "unclaiming"}, SetPhase(i, m, p),
         NEW why \in Settled, AckNow(i, m, why), UNCHANGED <<pending, inst>>
  PROVE  TrackInv'
<1>1. OneMoves(i, m, p) /\ NobodyStarts /\ Releases(Settled)
  BY PhaseEffect, AckReleases DEF NobodyStarts, Live
<1>2. CASE Settle({m}, why) /\ UNCHANGED faultVars
  <2>1. status'[m] # "pending"
    BY <1>2, SettleEffect DEF Settled
  <2> QED BY <1>1, <1>2, <2>1, InHandKeepsTrack DEF InHand, faultVars
<1>3. CASE FaultAbout(i, {m})
  <2>1. PendingMatches' /\ HeldIsTracked' /\ Lost' \subseteq Lost \cup {Slot(i, m)}
    BY <1>1, MoveKeepsTrack
  <2>2. unacked' = unacked \cup {Slot(i, m)}
    BY <1>3 DEF FaultAbout
  <2> QED BY <2>1, <2>2 DEF TrackInv
<1> QED BY <1>2, <1>3 DEF AckNow

\* A message that is accepted is in the map, in place of itself at most.
LEMMA AcceptKeepsTrack ==
  ASSUME OneMessageEach, TypeOK, TrackInv, NEW i \in Instances, NEW m \in Msgs, NEW p,
         OneMoves(i, m, p), p \in {"queued", "none"} \/ status'[m] # "pending",
         pending' = [pending EXCEPT ![i][OppOf[m]] = m],
         Releases(Settled), UNCHANGED inst, unacked \subseteq unacked'
  PROVE  TrackInv'
<1>1. ASSUME NEW n \in Msgs
      PROVE  status'[n] = "pending" => status[n] = "pending" /\ owner'[n] = owner[n]
  BY DEF Releases, Settled
<1>2. OppOf[m] \in Opps
  BY RolesAssumption
<1>3. /\ pending'[i][OppOf[m]] = m
      /\ \A j \in Instances, o \in Opps : <<j, o>> # <<i, OppOf[m]>> => pending'[j][o] = pending[j][o]
  BY <1>2 DEF TypeOK, ServiceTypes
<1>4. ASSUME NEW j \in Instances, NEW n \in Msgs, <<j, n>> # <<i, m>>
      PROVE  pending'[j][OppOf[n]] = pending[j][OppOf[n]] /\ phase'[j][n] = phase[j][n]
  <2>1. <<j, OppOf[n]>> # <<i, OppOf[m]>> /\ OppOf[n] \in Opps
    BY <1>4, RolesAssumption DEF OneMessageEach
  <2> QED BY <1>3, <1>4, <2>1 DEF OneMoves
<1>5. PendingMatches'
  BY <1>3 DEF TrackInv, PendingMatches
<1>6. ASSUME NEW j \in Instances, NEW n \in Msgs
      PROVE  /\ Live(j)' /\ phase'[j][n] \in TrackedPhases /\ status'[n] = "pending"
                /\ owner'[n] = j => pending'[j][OppOf[n]] = n
             /\ phase'[j][n] = "acking" => status'[n] # "pending"
  <2>1. CASE <<j, n>> = <<i, m>>
    BY <1>3, <2>1 DEF OneMoves
  <2>2. CASE <<j, n>> # <<i, m>>
    BY <1>1, <1>4, <2>2 DEF TrackInv, HeldIsTracked, Live
  <2> QED BY <2>1, <2>2
<1>7. ASSUME NEW j \in Instances, NEW n \in Msgs, IsLost(j, n)'
      PROVE  IsLost(j, n)
  <2>1. <<j, n>> # <<i, m>>
    BY <1>3, <1>7 DEF IsLost
  <2> QED BY <1>1, <1>4, <1>7, <2>1 DEF IsLost, Live
<1>8. Lost' \subseteq Lost
  BY <1>7 DEF Lost
<1> QED BY <1>5, <1>6, <1>8 DEF TrackInv, HeldIsTracked

\* The map knows no other message of the opportunity.
LEMMA PendingIsOwn ==
  ASSUME OneMessageEach, TypeOK, PendingMatches, NEW i \in Instances, NEW m \in Msgs,
         pending[i][OppOf[m]] # None
  PROVE  pending[i][OppOf[m]] = m
BY RolesAssumption DEF OneMessageEach, PendingMatches, TypeOK, ServiceTypes

\* The XACK after the execution settles the message, or leaves it in the map.
LEMMA AckAfterKeepsTrack ==
  ASSUME OneMessageEach, TypeOK, TrackInv, NEW i \in Instances, NEW m \in Msgs,
         phase[i][m] \in TrackedPhases, AckAfterExecution(i, m), UNCHANGED <<pending, inst>>
  PROVE  TrackInv'
<1>1. CASE SetPhase(i, m, "none") /\ UNCHANGED <<status, owner>>
  <2>1. OneMoves(i, m, "none") /\ Releases(Settled) /\ InHand(i, m, "none")
    BY <1>1, PhaseEffect, NothingReleased DEF InHand
  <2>2. unacked \subseteq unacked'
    BY FaultsGrow DEF AckAfterExecution, faultVars
  <2> QED BY <2>1, <2>2, InHandKeepsTrack
<1>2. CASE /\ pending[i][OppOf[m]] # None /\ SetPhase(i, m, "acking")
           /\ Settle({pending[i][OppOf[m]]}, "executed") /\ UNCHANGED faultVars
  <2>1. pending[i][OppOf[m]] = m
    BY <1>2, PendingIsOwn DEF TrackInv
  <2>2. status'[m] # "pending" /\ Releases(Settled)
    BY <1>2, <2>1, SettleEffect, SettleReleases DEF Settled
  <2>3. OneMoves(i, m, "acking") /\ InHand(i, m, "acking")
    BY <1>2, <2>2, PhaseEffect DEF InHand
  <2> QED BY <1>2, <2>2, <2>3, InHandKeepsTrack DEF faultVars
<1> QED BY <1>1, <1>2 DEF AckAfterExecution

\* Reading and handling messages loses one entry for every XACK that fails.
LEMMA HandlerKeepsTrack ==
  ASSUME OneMessageEach, TypeOK, TrackInv, NEW i \in Instances, NEW m \in Msgs, Handler(i, m)
  PROVE  TrackInv'
<1>1. CASE RefuseUnfit(i, m)
  BY <1>1, AckKeepsTrack DEF RefuseUnfit, Settled, bookVars
<1>2. CASE RefuseClaimed(i, m)
  BY <1>2, AckKeepsTrack DEF RefuseClaimed, Settled, bookVars
<1>3. CASE Refuse(i, m)
  <2>1. PICK p \in {"rejecting", "repeating", "bouncing"} : SetPhase(i, m, p)
    BY <1>3 DEF Refuse
  <2>2. OneMoves(i, m, p) /\ InHand(i, m, p) /\ Releases(Settled)
    BY <1>3, <2>1, PhaseEffect, NothingReleased DEF Refuse, InHand
  <2> QED BY <1>3, <2>2, FaultsGrow, InHandKeepsTrack DEF Refuse, ClaimDedup, bookVars
<1>4. CASE FinishRefuse(i, m)
  BY <1>4, AckKeepsTrack DEF FinishRefuse, Settled, bookVars
<1>5. CASE Unclaim(i, m)
  <2>1. PICK p \in {"bounced", "none"} : SetPhase(i, m, p) /\ InHand(i, m, p)
    BY <1>5 DEF Unclaim, InHand
  <2>2. OneMoves(i, m, p) /\ Releases(Settled)
    BY <1>5, <2>1, PhaseEffect, NothingReleased DEF Unclaim
  <2> QED BY <1>5, <2>1, <2>2, FaultsGrow, InHandKeepsTrack
      DEF Unclaim, DeleteDedup, bookVars
<1>6. CASE Accept(i, m)
  <2>1. OneMoves(i, m, "queued") /\ UNCHANGED inst /\ unacked \subseteq unacked'
    BY <1>6, PhaseEffect, FaultsGrow DEF Accept, ClaimDedup, FaultAbout
  <2>2. Releases(Settled)
    BY <1>6, SettleReleases, NothingReleased DEF Accept, Settled
  <2> QED BY <1>6, <2>1, <2>2, AcceptKeepsTrack DEF Accept
<1>7. CASE AcceptAndSkip(i, m)
  <2>1. PICK p \in {"none", "acking"} :
          SetPhase(i, m, p) /\ (p = "acking" => pending[i][OppOf[m]] # None)
    BY <1>7 DEF AcceptAndSkip
  <2>2. p = "acking" => status'[m] # "pending"
    <3>1. p = "acking" => pending[i][OppOf[m]] = m
      BY <2>1, PendingIsOwn DEF TrackInv
    <3> QED BY <1>7, <3>1, SettleEffect DEF AcceptAndSkip, Settled
  <2>3. OneMoves(i, m, p) /\ UNCHANGED inst /\ unacked \subseteq unacked'
    BY <1>7, <2>1, PhaseEffect, FaultsGrow DEF AcceptAndSkip, ClaimDedup
  <2>4. Releases(Settled)
    BY <1>7, SettleReleases DEF AcceptAndSkip, Settled
  <2>5. p \in {"queued", "none"} \/ status'[m] # "pending"
    BY <2>2
  <2> QED BY <1>7, <2>3, <2>4, <2>5, AcceptKeepsTrack DEF AcceptAndSkip
<1>8. CASE SetAside(i, m)
  <2>1. OneMoves(i, m, "expired") /\ Releases(Settled) /\ InHand(i, m, "expired")
    BY <1>8, PhaseEffect, NothingReleased DEF SetAside, redisVars, InHand
  <2> QED BY <1>8, <2>1, InHandKeepsTrack DEF SetAside, bookVars, faultVars
<1> QED BY <1>1, <1>2, <1>3, <1>4, <1>5, <1>6, <1>7, <1>8 DEF Handler

\* One XACK for all the messages put aside may lose many, and all of them are remembered.
LEMMA AckExpiredKeepsTrack ==
  ASSUME TypeOK, TrackInv, NEW i \in Instances, AckExpired(i)
  PROVE  TrackInv'
<1>1. /\ Releases(Settled) /\ unacked \subseteq unacked' /\ UNCHANGED <<pending, inst>>
      /\ \A j \in Instances, n \in Msgs :
           \/ phase'[j][n] = phase[j][n]
           \/ j = i /\ phase[j][n] = "expired" /\ phase'[j][n] = "none"
      /\ \A n \in Msgs : phase[i][n] = "expired" =>
           status'[n] # "pending" \/ Slot(i, n) \in unacked'
  BY AsideEffect DEF Releases, Settled, bookVars
<1>2. ASSUME NEW n \in Msgs
      PROVE  status'[n] = "pending" => status[n] = "pending" /\ owner'[n] = owner[n]
  BY <1>1 DEF Releases, Settled
<1>3. PendingMatches'
  BY <1>1 DEF TrackInv, PendingMatches
<1>4. HeldIsTracked'
  BY <1>1, <1>2 DEF TrackInv, HeldIsTracked, TrackedPhases, InFlightPhases, Live
<1>5. ASSUME NEW j \in Instances, NEW n \in Msgs, IsLost(j, n)'
      PROVE  IsLost(j, n) \/ Slot(j, n) \in unacked'
  BY <1>1, <1>2, <1>5 DEF IsLost, Live
<1>6. Lost' \subseteq Lost \cup unacked'
  BY <1>5 DEF Lost, Slot
<1> QED BY <1>1, <1>3, <1>4, <1>6 DEF TrackInv

\* The pipeline loses nothing: what it drops stays in the map for the cleanup.
LEMMA PipelineKeepsTrack ==
  ASSUME OneMessageEach, TypeOK, TrackInv, NEW i \in Instances, NEW m \in Msgs,
         Pipeline(i, m)
  PROVE  TrackInv'
<1>1. CASE SkipExecuted(i, m)
  BY <1>1, AckAfterKeepsTrack DEF SkipExecuted, Leaves, Dequeues, TrackedPhases, bookVars
<1>2. CASE ~SkipExecuted(i, m)
  <2>1. /\ phase[i][m] \in TrackedPhases
        /\ UNCHANGED phase \/ \E p \in {"none"} \cup TrackedPhases : SetPhase(i, m, p)
    BY <1>2
    DEF Pipeline, BlockedByBreaker, BlockedByChain, PutBack, Dispatch, Leaves, Dequeues,
        AcquireLock, LockConflict, ForceRelease, LockUnavailable, TrackedPhases,
        InFlightPhases
  <2>2. PICK p \in {"none"} \cup TrackedPhases : OneMoves(i, m, p)
    <3>1. CASE UNCHANGED phase
      BY <2>1, <3>1 DEF OneMoves
    <3>2. CASE \E p \in {"none"} \cup TrackedPhases : SetPhase(i, m, p)
      BY <3>2, PhaseEffect
    <3> QED BY <2>1, <3>1, <3>2
  <2>3. UNCHANGED <<status, owner, pending, inst>> /\ (Fault \/ UNCHANGED faultVars)
    BY <1>2
    DEF Pipeline, BlockedByBreaker, BlockedByChain, Dispatch, AcquireLock, LockConflict,
        ForceRelease, LockUnavailable, redisVars, bookVars
  <2>4. InHand(i, m, p) /\ Releases(Settled)
    BY <2>1, <2>3, NothingReleased DEF InHand
  <2> QED BY <2>2, <2>3, <2>4, FaultsGrow, InHandKeepsTrack
<1> QED BY <1>1, <1>2

\* The reply to the XACK deletes the entry of the message that was settled by it.
LEMMA ReplyKeepsTrack ==
  ASSUME OneMessageEach, TypeOK, TrackInv, NEW i \in Instances, NEW m \in Msgs,
         AckReply(i, m)
  PROVE  TrackInv'
<1>1. /\ OneMoves(i, m, "none") /\ phase[i][m] = "acking"
      /\ UNCHANGED <<status, owner, inst, faultVars>>
  BY PhaseEffect DEF AckReply, redisVars
<1>2. status[m] # "pending"
  BY <1>1 DEF TrackInv, HeldIsTracked
<1>3. /\ \A j \in Instances, o \in Opps : pending'[j][o] \in {pending[j][o], None}
      /\ \A j \in Instances, n \in Msgs :
           <<j, n>> # <<i, m>> => pending'[j][OppOf[n]] = pending[j][OppOf[n]]
  BY RolesAssumption DEF AckReply, TypeOK, ServiceTypes, OneMessageEach
<1>4. PendingMatches'
  BY <1>3 DEF TrackInv, PendingMatches
<1>5. HeldIsTracked'
  <2> SUFFICES ASSUME NEW j \in Instances, NEW n \in Msgs
               PROVE  /\ Live(j) /\ phase'[j][n] \in TrackedPhases /\ status[n] = "pending"
                         /\ owner[n] = j => pending'[j][OppOf[n]] = n
                      /\ phase'[j][n] = "acking" => status[n] # "pending"
    BY <1>1 DEF HeldIsTracked, Live
  <2>1. CASE n = m
    BY <1>2, <2>1
  <2>2. CASE n # m
    BY <1>1, <1>3, <2>2 DEF OneMoves, TrackInv, HeldIsTracked
  <2> QED BY <2>1, <2>2
<1>6. ASSUME NEW j \in Instances, NEW n \in Msgs, IsLost(j, n)'
      PROVE  IsLost(j, n)
  <2>1. n # m
    BY <1>1, <1>2, <1>6 DEF IsLost
  <2> QED BY <1>1, <1>3, <1>6, <2>1 DEF IsLost, OneMoves, Live
<1>7. Lost' \subseteq Lost
  BY <1>6 DEF Lost
<1> QED BY <1>1, <1>4, <1>5, <1>7 DEF TrackInv, faultVars

\* An execution leaves its message in the map until it is settled.
LEMMA ExecutionKeepsTrack ==
  ASSUME OneMessageEach, TypeOK, TrackInv, NEW i \in Instances, NEW m \in Msgs,
         Execution(i, m), ~FinishLate(i, m)
  PROVE  TrackInv'
<1>1. CASE RecordExecuted(i, m)
  BY <1>1, AckAfterKeepsTrack DEF RecordExecuted, TrackedPhases, InFlightPhases
<1>2. CASE AckReply(i, m)
  BY <1>2, ReplyKeepsTrack
<1>3. CASE Finish(i, m) \/ FinishStale(i, m) \/ TimeOut(i, m) \/ ReleaseLock(i, m)
  <2>1. PICK p \in TrackedPhases : SetPhase(i, m, p)
    BY <1>3
    DEF Finish, FinishStale, TimeOut, ReleaseLock, TrackedPhases, InFlightPhases
  <2>2. /\ phase[i][m] \in TrackedPhases
        /\ UNCHANGED <<status, owner, pending, inst>> /\ (Fault \/ UNCHANGED faultVars)
    BY <1>3
    DEF Finish, FinishStale, TimeOut, TimedOut, ReleaseLock, MarkComplete, DeleteDedup,
        TrackedPhases, InFlightPhases, redisVars, bookVars
  <2>3. OneMoves(i, m, p) /\ InHand(i, m, p) /\ Releases(Settled)
    BY <2>1, <2>2, PhaseEffect, NothingReleased DEF InHand
  <2> QED BY <2>2, <2>3, FaultsGrow, InHandKeepsTrack
<1> QED BY <1>1, <1>2, <1>3 DEF Execution, Replied

\* What the map gives up without a message of the pipeline, has been settled.
LEMMA TheRestForgetsSettled ==
  ASSUME TypeOK, NEW i \in Instances,
         \/ EndRecovery(i) \/ Crash(i) \/ BeginStop(i) \/ FinishStop(i)
         \/ ShutDownLocks(i) \/ Exit(i) \/ \E o \in Opps : CleanupStale(i, o)
         \/ \E m \in Msgs : FinishLate(i, m)
  PROVE  ForgetsSettled /\ (Fault \/ UNCHANGED faultVars)
<1>1. CASE EndRecovery(i)
  <2>1. Releases(Settled)
    BY <1>1, SettleReleases, NothingReleased DEF EndRecovery, Settled
  <2>2. NobodyStarts /\ UNCHANGED <<phase, pending>>
    BY <1>1 DEF EndRecovery, NobodyStarts, Live, TypeOK, ServiceTypes
  <2> QED BY <1>1, <2>1, <2>2 DEF ForgetsSettled, EndRecovery
<1>2. CASE Forget(i) /\ UNCHANGED <<status, owner>>
  <2>1. Releases(Settled)
    BY <1>2, NothingReleased
  <2>2. NobodyStarts /\ ~Live(i)'
    BY <1>2 DEF Forget, NobodyStarts, Live, TypeOK, ServiceTypes
  <2>3. /\ \A j \in Instances \ {i} : phase'[j] = phase[j] /\ pending'[j] = pending[j]
        /\ \A o \in Opps : pending'[i][o] = None
        /\ \A n \in Msgs : phase'[i][n] = "none"
    BY <1>2 DEF Forget, TypeOK, ServiceTypes
  <2> QED BY <1>2, <2>1, <2>2, <2>3 DEF ForgetsSettled, Forget
<1>3. CASE BeginStop(i) \/ ShutDownLocks(i)
  <2>1. Releases(Settled)
    BY <1>3, NothingReleased DEF BeginStop, ShutDownLocks, redisVars
  <2>2. NobodyStarts /\ UNCHANGED <<phase, pending>>
    BY <1>3 DEF BeginStop, ShutDownLocks, bookVars, NobodyStarts, Live, TypeOK, ServiceTypes
  <2> QED BY <1>3, <2>1, <2>2 DEF ForgetsSettled, BeginStop, ShutDownLocks
<1>4. CASE FinishStop(i)
  <2>1. Releases(Settled)
    BY <1>4, SettleReleases, NothingReleased DEF FinishStop, Settled
  <2>2. NobodyStarts /\ ~Live(i)'
    BY <1>4 DEF FinishStop, NobodyStarts, Live, TypeOK, ServiceTypes
  <2>3. /\ \A j \in Instances \ {i} : phase'[j] = phase[j] /\ pending'[j] = pending[j]
        /\ \A o \in Opps : pending'[i][o] = None
        /\ \A n \in Msgs : phase'[i][n] = "acking" => phase[i][n] = "acking"
    BY <1>4 DEF FinishStop, TypeOK, ServiceTypes
  <2> QED BY <1>4, <2>1, <2>2, <2>3 DEF ForgetsSettled, FinishStop
<1>5. ASSUME NEW o \in Opps, CleanupStale(i, o)
      PROVE  ForgetsSettled /\ (Fault \/ UNCHANGED faultVars)
  <2>1. Releases(Settled)
    BY <1>5, SettleReleases DEF CleanupStale, Settled
  <2>2. pending[i][o] \in Msgs
    BY <1>5 DEF CleanupStale, IsStale, TypeOK, ServiceTypes
  <2>3. status'[pending[i][o]] # "pending"
    BY <1>5, <2>2, SettleEffect DEF CleanupStale, Settled
  <2>4. /\ NobodyStarts /\ UNCHANGED <<phase, faultVars>> /\ pending'[i][o] = None
        /\ \A j \in Instances, q \in Opps :
             <<j, q>> # <<i, o>> => pending'[j][q] = pending[j][q]
    BY <1>5 DEF CleanupStale, NobodyStarts, Live, TypeOK, ServiceTypes
  <2> QED BY <2>1, <2>3, <2>4 DEF ForgetsSettled
<1>6. ASSUME NEW m \in Msgs, FinishLate(i, m)
      PROVE  ForgetsSettled /\ (Fault \/ UNCHANGED faultVars)
  BY <1>6, NothingReleased
  DEF FinishLate, MarkComplete, DeleteDedup, ForgetsSettled, NobodyStarts, Live
<1> QED BY <1>1, <1>2, <1>3, <1>4, <1>5, <1>6 DEF Crash, Exit

\* A message that is read was nobody's, and is now in a handler.
LEMMA FetchKeepsTrack ==
  ASSUME TypeOK, TrackInv, UnreadIsUntouched, NEW i \in Instances, NEW m \in Msgs, Fetch(i, m)
  PROVE  TrackInv'
<1>1. /\ status[m] = "new" /\ status'[m] = "pending" /\ owner'[m] = i
      /\ \A n \in Msgs \ {m} : status'[n] = status[n] /\ owner'[n] = owner[n]
      /\ OneMoves(i, m, "fetched") /\ UNCHANGED <<pending, inst, faultVars>>
  BY PhaseEffect DEF Fetch, bookVars, TypeOK, RedisTypes
<1>2. \A j \in Instances : phase[j][m] = "none"
  BY <1>1 DEF UnreadIsUntouched
<1>3. PendingMatches'
  BY <1>1 DEF TrackInv, PendingMatches
<1>4. HeldIsTracked'
  <2> SUFFICES ASSUME NEW j \in Instances, NEW n \in Msgs
               PROVE  /\ Live(j) /\ phase'[j][n] \in TrackedPhases /\ status'[n] = "pending"
                         /\ owner'[n] = j => pending[j][OppOf[n]] = n
                      /\ phase'[j][n] = "acking" => status'[n] # "pending"
    BY <1>1 DEF HeldIsTracked, Live
  <2>1. CASE n = m
    BY <1>1, <1>2, <2>1 DEF OneMoves, TrackedPhases, InFlightPhases
  <2>2. CASE n # m
    BY <1>1, <2>2 DEF OneMoves, TrackInv, HeldIsTracked
  <2> QED BY <2>1, <2>2
<1>5. ASSUME NEW j \in Instances, NEW n \in Msgs, IsLost(j, n)'
      PROVE  IsLost(j, n)
  <2>1. n # m
    BY <1>1, <1>5 DEF IsLost, OneMoves
  <2> QED BY <1>1, <1>5, <2>1 DEF IsLost, OneMoves, Live
<1>6. Lost' \subseteq Lost
  BY <1>5 DEF Lost
<1> QED BY <1>1, <1>3, <1>4, <1>6 DEF TrackInv, faultVars

\* An instance that starts has in its handler all that it takes over.
LEMMA StartKeepsTrack ==
  ASSUME TypeOK, OffIsBlank, TrackInv, NEW i \in Instances, Start(i)
  PROVE  TrackInv'
<1>1. /\ UNCHANGED <<status, pending>>
      /\ \A n \in Msgs :
           \/ owner'[n] = i /\ phase'[i][n] = "fetched"
           \/ owner'[n] = owner[n] /\ phase'[i][n] = "none"
      /\ \A j \in Instances \ {i} : phase'[j] = phase[j] /\ inst'[j] = inst[j]
      /\ inst[i] = "off"
  <2>1. inst[i] = "off" /\ \A j \in Instances \ {i} : inst'[j] = inst[j]
    BY DEF Start, Recover, TypeOK, ServiceTypes
  <2> QED BY <2>1, RecoverEffect DEF Start
<1>2. \A n \in Msgs : owner[n] # i
  BY <1>1 DEF OffIsBlank
<1>3. PendingMatches'
  BY <1>1 DEF TrackInv, PendingMatches
<1>4. HeldIsTracked'
  <2> SUFFICES ASSUME NEW j \in Instances, NEW n \in Msgs
               PROVE  /\ Live(j)' /\ phase'[j][n] \in TrackedPhases /\ status[n] = "pending"
                         /\ owner'[n] = j => pending[j][OppOf[n]] = n
                      /\ phase'[j][n] = "acking" => status[n] # "pending"
    BY <1>1 DEF HeldIsTracked
  <2>1. CASE j = i
    BY <1>1, <2>1 DEF TrackedPhases, InFlightPhases
  <2>2. CASE j # i
    BY <1>1, <2>2 DEF TrackInv, HeldIsTracked, Live
  <2> QED BY <2>1, <2>2
<1>5. ASSUME NEW j \in Instances, NEW n \in Msgs, IsLost(j, n)'
      PROVE  IsLost(j, n)
  <2>1. j # i
    BY <1>1, <1>2, <1>5 DEF IsLost
  <2> QED BY <1>1, <1>5, <2>1 DEF IsLost, Live
<1>6. Lost' \subseteq Lost /\ unacked \subseteq unacked'
  BY <1>5, FaultsGrow DEF Lost, Start
<1> QED BY <1>3, <1>4, <1>6 DEF TrackInv

\* Every step keeps track of the pending entries.
LEMMA TrackStays ==
  ASSUME OneMessageEach, TypeOK, OffIsBlank, UnreadIsUntouched, TrackInv, [Next]_vars
  PROVE  TrackInv'
<1>1. ASSUME NEW i \in Instances, NEW m \in Msgs,
             Fetch(i, m) \/ Handler(i, m) \/ Pipeline(i, m) \/ Execution(i, m)
      PROVE  TrackInv'
  BY <1>1, FetchKeepsTrack, HandlerKeepsTrack, PipelineKeepsTrack, ExecutionKeepsTrack,
     TheRestForgetsSettled, FaultsGrow, ForgettingKeepsTrack
<1>2. ASSUME NEW i \in Instances,
             AckExpired(i) \/ Lifecycle(i) \/ \E o \in Opps : CleanupStale(i, o)
      PROVE  TrackInv'
  BY <1>2, AckExpiredKeepsTrack, StartKeepsTrack, TheRestForgetsSettled, FaultsGrow,
     ForgettingKeepsTrack
  DEF Lifecycle
<1>3. CASE UNCHANGED <<status, owner, inst, phase, pending, faultVars>>
  <2>1. ForgetsSettled
    BY <1>3, NothingReleased DEF ForgetsSettled, NobodyStarts, Live
  <2> QED BY <1>3, <2>1, FaultsGrow, ForgettingKeepsTrack
<1>4. Tick \/ UNCHANGED vars => UNCHANGED <<status, owner, inst, phase, pending, faultVars>>
  BY DEF Tick, vars, redisVars, bookVars
<1> QED BY <1>1, <1>2, <1>3, <1>4 DEF Next

\* Nothing is held of a message that has not been read.
THEOREM UnreadAlways == Spec => []UnreadIsUntouched
<1>1. Init => UnreadIsUntouched
  BY DEF Init, InitAfter, UnreadIsUntouched
<1>2. TypeOK /\ RunningHolds /\ UnreadIsUntouched /\ [Next]_vars => UnreadIsUntouched'
  BY StepKeepsLedger
<1> QED BY <1>1, <1>2, TypeCorrect, HoldsAlways, PTL DEF Spec

\* Pending entries stay tracked, step after step.
THEOREM TrackAlways ==
  ASSUME OneMessageEach
  PROVE  Spec => []TrackInv
<1>1. Init => TrackInv
  <2> SUFFICES ASSUME Init PROVE TrackInv
    OBVIOUS
  <2>1. Lost = {}
    BY DEF Init, InitAfter, Lost, IsLost
  <2>2. PendingMatches
    BY DEF Init, InitAfter, PendingMatches
  <2>3. HeldIsTracked
    BY DEF Init, InitAfter, HeldIsTracked, TrackedPhases, InFlightPhases
  <2> QED BY <2>1, <2>2, <2>3 DEF TrackInv
<1>2. TypeOK /\ OffIsBlank /\ UnreadIsUntouched /\ TrackInv /\ [Next]_vars => TrackInv'
  BY TrackStays
<1> QED BY <1>1, <1>2, TypeCorrect, BlankAlways, UnreadAlways, PTL DEF Spec

\* Where every message carries an opportunity of its own, a live instance loses track
\* of a pending entry only by an XACK that failed, that of the message itself or the one
\* XACK for all the expired messages of a reply: no crash, recovery, timeout, cleanup or
\* stop makes it lose another one.
THEOREM NothingOrphaned ==
  ASSUME OneMessageEach
  PROVE  Spec => []NoOrphanedEntry
<1>1. TrackInv => NoOrphanedEntry
  <2>1. Untracked \subseteq Lost
    BY DEF Untracked, Lost, IsLost
  <2> QED BY <2>1 DEF TrackInv, NoOrphanedEntry
<1> QED BY <1>1, TrackAlways, PTL

-----------------------------------------------------------------------------
(* Acknowledged as executed means executed.  With a message to every opportunity *)
(* an instance tries each lock once, so that no lock is forced and no second     *)
(* attempt goes unrecorded; and an id leaves the active set only when its        *)
(* execution has ended, or with its entry.                                       *)

\* The phases up to the first attempt at the lock.
Early == {"fetched", "queued", "locking"} \cup HandlerPhases
FirstAttempt ==
  /\ retried = {}
  /\ \A i \in Instances, m \in Msgs :
       /\ phase[i][m] # "forcing"
       /\ status[m] = "new" \/ phase[i][m] \in Early => conflicts[i][OppOf[m]].count = 0

Ended(i, m) == phase[i][m] \in {"completed", "unlocked"} \/ OppOf[m] \in executed[i]
InactiveIsEnded ==
  /\ \A i \in Instances, m \in Msgs : Slot(i, m) \in overrun => Ended(i, m)
  /\ \A i \in Instances, o \in Opps :
       Live(i) /\ pending[i][o] # None /\ o \notin active[i] => Ended(i, pending[i][o])

EndInv == FirstAttempt /\ InactiveIsEnded

\* A step that makes no new attempt at a lock and no conflict.
NoNewAttempt ==
  /\ retried' \subseteq retried
  /\ Releases(Settled)
  /\ \A j \in Instances, n \in Msgs :
       \/ phase'[j][n] = phase[j][n]
       \/ phase'[j][n] # "forcing" /\ (phase'[j][n] \in Early => phase[j][n] \in Early)
  /\ \A j \in Instances, o \in Opps : conflicts'[j][o].count \in {conflicts[j][o].count, 0}

\* What has ended at j stays so.
StaysEnded(j) == \A n \in Msgs : Ended(j, n) => Ended(j, n)'

\* A step after which what is inactive has ended, if that was so before.
EndsFirst ==
  /\ NobodyStarts
  /\ \A j \in Instances, n \in Msgs :
       Slot(j, n) \in overrun' => Ended(j, n)' \/ (Slot(j, n) \in overrun /\ StaysEnded(j))
  /\ \A j \in Instances : Live(j)' =>
       /\ StaysEnded(j)
       /\ \A o \in Opps : pending'[j][o] # None /\ o \notin active'[j] =>
            \/ Ended(j, pending[j][o])'
            \/ pending'[j][o] = pending[j][o] /\ o \notin active[j]

\* Such steps preserve the invariant.
LEMMA AttemptsStay ==
  ASSUME FirstAttempt, NoNewAttempt
  PROVE  FirstAttempt'
<1>1. retried' = {}
  BY DEF FirstAttempt, NoNewAttempt
<1>2. ASSUME NEW i \in Instances, NEW m \in Msgs
      PROVE  /\ phase'[i][m] # "forcing"
             /\ status'[m] = "new" \/ phase'[i][m] \in Early => conflicts'[i][OppOf[m]].count = 0
  <2>1. status'[m] = "new" => status[m] = "new"
    BY DEF NoNewAttempt, Releases, Settled
  <2>2. /\ phase'[i][m] # "forcing"
        /\ phase'[i][m] \in Early => phase[i][m] \in Early
    BY DEF NoNewAttempt, FirstAttempt
  <2>3. conflicts'[i][OppOf[m]].count \in {conflicts[i][OppOf[m]].count, 0}
    BY RolesAssumption DEF NoNewAttempt
  <2> QED BY <2>1, <2>2, <2>3 DEF FirstAttempt
<1> QED BY <1>1, <1>2 DEF FirstAttempt

\* And so does the other half.
LEMMA EndsStay ==
  ASSUME TypeOK, InactiveIsEnded, EndsFirst
  PROVE  InactiveIsEnded'
<1>1. ASSUME NEW i \in Instances, NEW m \in Msgs, Slot(i, m) \in overrun'
      PROVE  Ended(i, m)'
  BY <1>1 DEF EndsFirst, InactiveIsEnded, StaysEnded
<1>2. ASSUME NEW i \in Instances, NEW o \in Opps, Live(i)', pending'[i][o] # None,
             o \notin active'[i]
      PROVE  Ended(i, pending[i][o])'
  <2>1. CASE pending'[i][o] = pending[i][o] /\ o \notin active[i]
    <3>1. PICK n \in Msgs : n = pending[i][o]
      BY <1>2, <2>1 DEF TypeOK, ServiceTypes
    <3>2. Live(i)
      BY <1>2 DEF EndsFirst, NobodyStarts
    <3>3. Ended(i, n)
      BY <1>2, <2>1, <3>1, <3>2 DEF InactiveIsEnded
    <3>4. Ended(i, n)'
      BY <1>2, <3>3 DEF EndsFirst, StaysEnded
    <3> QED BY <2>1, <3>1, <3>4 DEF Ended
  <2> QED BY <1>2, <2>1 DEF EndsFirst
<1> QED BY <1>1, <1>2 DEF InactiveIsEnded

\* A message moves and no set shrinks.
LEMMA MoveKeepsEnds ==
  ASSUME TypeOK, EndInv, NEW i \in Instances, NEW m \in Msgs, NEW p, OneMoves(i, m, p),
         p # "forcing", p \in Early => phase[i][m] \in Early,
         phase[i][m] \in {"completed", "unlocked"} => p \in {"completed", "unlocked"},
         \A j \in Instances : active[j] \subseteq active'[j],
         Releases(Settled), retried' \subseteq retried,
         UNCHANGED <<pending, conflicts, executed, overrun, inst>>
  PROVE  EndInv'
<1>1. NoNewAttempt
  BY DEF NoNewAttempt, OneMoves
<1>2. \A j \in Instances : StaysEnded(j)
  BY DEF StaysEnded, Ended, OneMoves
<1>3. EndsFirst
  BY <1>2 DEF EndsFirst, NobodyStarts, Live
<1> QED BY <1>1, <1>3, AttemptsStay, EndsStay DEF EndInv

\* Handling a message makes no attempt; what it accepts it marks active.
LEMMA HandlerKeepsEnds ==
  ASSUME TypeOK, EndInv, NEW i \in Instances, NEW m \in Msgs, Handler(i, m)
  PROVE  EndInv'
<1>1. CASE RefuseUnfit(i, m) \/ RefuseClaimed(i, m) \/ Refuse(i, m) \/ FinishRefuse(i, m)
           \/ Unclaim(i, m)
  <2>1. Releases(Settled)
    BY <1>1, AckReleases, NothingReleased
    DEF RefuseUnfit, RefuseClaimed, Refuse, FinishRefuse, Unclaim, Settled
  <2>2. PICK p \in HandlerPhases \cup {"none"} : SetPhase(i, m, p)
    BY <1>1 DEF RefuseUnfit, RefuseClaimed, Refuse, FinishRefuse, Unclaim, HandlerPhases
  <2>3. OneMoves(i, m, p)
    BY <2>2, PhaseEffect
  <2>4. phase[i][m] \in {"fetched"} \cup HandlerPhases
    BY <1>1
    DEF RefuseUnfit, RefuseClaimed, Refuse, FinishRefuse, Unclaim, Handling, HandlerPhases
  <2>5. UNCHANGED <<pending, active, conflicts, executed, overrun, retried, inst>>
    BY <1>1
    DEF RefuseUnfit, RefuseClaimed, Refuse, FinishRefuse, Unclaim, bookVars, execVars
  <2>6. /\ p # "forcing" /\ (p \in Early => phase[i][m] \in Early)
        /\ phase[i][m] \notin {"completed", "unlocked"}
    BY <2>2, <2>4 DEF Early, HandlerPhases
  <2> QED BY <2>1, <2>3, <2>5, <2>6, MoveKeepsEnds
<1>2. CASE Accept(i, m) \/ AcceptAndSkip(i, m)
  <2>1. Releases(Settled)
    BY <1>2, SettleReleases, NothingReleased DEF Accept, AcceptAndSkip, Settled
  <2>2. PICK p \in {"queued", "none", "acking"} : SetPhase(i, m, p)
    BY <1>2 DEF Accept, AcceptAndSkip
  <2>3. OneMoves(i, m, p) /\ phase[i][m] = "fetched"
    BY <1>2, <2>2, PhaseEffect DEF Accept, AcceptAndSkip, Handling
  <2>4. /\ active' = [active EXCEPT ![i] = @ \cup {OppOf[m]}]
        /\ pending' = [pending EXCEPT ![i][OppOf[m]] = m]
        /\ UNCHANGED <<conflicts, executed, overrun, retried, inst>>
    BY <1>2 DEF Accept, AcceptAndSkip, execVars
  <2>5. NoNewAttempt
    BY <2>1, <2>2, <2>3, <2>4 DEF NoNewAttempt, OneMoves, Early
  <2>6. \A j \in Instances : StaysEnded(j)
    BY <2>3, <2>4 DEF StaysEnded, Ended, OneMoves
  <2>7. ASSUME NEW j \in Instances, NEW o \in Opps, o \notin active'[j]
        PROVE  pending'[j][o] = pending[j][o] /\ o \notin active[j]
    BY <2>4, <2>7 DEF TypeOK, ServiceTypes
  <2>8. EndsFirst
    BY <2>4, <2>6, <2>7 DEF EndsFirst, NobodyStarts, Live
  <2> QED BY <2>5, <2>8, AttemptsStay, EndsStay DEF EndInv
<1>3. CASE SetAside(i, m)
  <2>1. OneMoves(i, m, "expired") /\ phase[i][m] = "fetched"
    BY <1>3, PhaseEffect DEF SetAside, Handling
  <2>2. /\ Releases(Settled)
        /\ UNCHANGED <<pending, active, conflicts, executed, overrun, retried, inst>>
    BY <1>3, NothingReleased DEF SetAside, redisVars, bookVars, execVars
  <2>3. "expired" \notin Early
    BY DEF Early, HandlerPhases
  <2> QED BY <2>1, <2>2, <2>3, MoveKeepsEnds
<1> QED BY <1>1, <1>2, <1>3 DEF Handler

\* Acknowledging the messages put aside makes no attempt and ends nothing.
LEMMA AckExpiredKeepsEnds ==
  ASSUME TypeOK, EndInv, NEW i \in Instances, AckExpired(i)
  PROVE  EndInv'
<1>1. /\ Releases(Settled)
      /\ \A j \in Instances, n \in Msgs :
           \/ phase'[j][n] = phase[j][n]
           \/ phase[j][n] = "expired" /\ phase'[j][n] = "none"
      /\ UNCHANGED <<pending, active, conflicts, executed, overrun, retried, inst>>
  BY AsideEffect DEF Releases, Settled, bookVars, execVars
<1>2. NoNewAttempt
  BY <1>1 DEF NoNewAttempt, Early, HandlerPhases
<1>3. \A j \in Instances : StaysEnded(j)
  BY <1>1 DEF StaysEnded, Ended
<1>4. EndsFirst
  BY <1>1, <1>3 DEF EndsFirst, NobodyStarts, Live
<1> QED BY <1>2, <1>4, AttemptsStay, EndsStay DEF EndInv

\* A conflict over a lock is an instance's first, so it forces nothing.
LEMMA ConflictKeepsEnds ==
  ASSUME OneMessageEach, TypeOK, UnreadIsUntouched, EndInv,
         NEW i \in Instances, NEW m \in Msgs, LockConflict(i, m)
  PROVE  EndInv'
<1>1. /\ phase[i][m] = "locking" /\ retried = {}
      /\ UNCHANGED <<status, owner, pending, active, executed, overrun, inst>>
  BY DEF LockConflict, EndInv, FirstAttempt, redisVars
<1>2. conflicts[i][OppOf[m]].count = 0 /\ status[m] # "new"
  BY <1>1 DEF EndInv, FirstAttempt, Early, UnreadIsUntouched
<1>3. /\ SetPhase(i, m, "none") /\ UNCHANGED retried
      /\ conflicts' = [conflicts EXCEPT ![i][OppOf[m]] = Counted(conflicts[i][OppOf[m]])]
  BY <1>1, <1>2 DEF LockConflict, ShouldForceRelease
<1>4. OneMoves(i, m, "none")
  BY <1>3, PhaseEffect
<1>5. ASSUME NEW j \in Instances, NEW n \in Msgs, <<j, n>> # <<i, m>>
      PROVE  conflicts'[j][OppOf[n]] = conflicts[j][OppOf[n]]
  <2>1. <<j, OppOf[n]>> # <<i, OppOf[m]>> /\ OppOf[n] \in Opps
    BY <1>5, RolesAssumption DEF OneMessageEach
  <2> QED BY <1>3, <2>1 DEF TypeOK, PipelineTypes
<1>6. FirstAttempt'
  <2> SUFFICES ASSUME NEW j \in Instances, NEW n \in Msgs
               PROVE  /\ phase'[j][n] # "forcing"
                      /\ status[n] = "new" \/ phase'[j][n] \in Early
                           => conflicts'[j][OppOf[n]].count = 0
    BY <1>1, <1>3 DEF FirstAttempt
  <2>1. CASE <<j, n>> = <<i, m>>
    BY <1>2, <1>4, <2>1 DEF OneMoves, Early, HandlerPhases
  <2>2. CASE <<j, n>> # <<i, m>>
    BY <1>4, <1>5, <2>2 DEF OneMoves, EndInv, FirstAttempt
  <2> QED BY <2>1, <2>2
<1>7. \A j \in Instances : StaysEnded(j)
  BY <1>1, <1>4 DEF StaysEnded, Ended, OneMoves
<1>8. EndsFirst
  BY <1>1, <1>7 DEF EndsFirst, NobodyStarts, Live
<1> QED BY <1>6, <1>8, EndsStay DEF EndInv

\* The rest of the pipeline moves a message and marks it active.
LEMMA PipelineKeepsEnds ==
  ASSUME OneMessageEach, TypeOK, UnreadIsUntouched, EndInv,
         NEW i \in Instances, NEW m \in Msgs, Pipeline(i, m)
  PROVE  EndInv'
<1>1. CASE LockConflict(i, m)
  BY <1>1, ConflictKeepsEnds
<1>2. CASE ForceRelease(i, m)
  BY <1>2 DEF ForceRelease, EndInv, FirstAttempt
<1>3. CASE ~LockConflict(i, m) /\ ~ForceRelease(i, m)
  <2>1. Releases(Settled)
    <3>1. CASE SkipExecuted(i, m)
      BY <3>1, SettleReleases, NothingReleased DEF SkipExecuted, AckAfterExecution, Settled
    <3>2. CASE UNCHANGED <<status, owner>>
      BY <3>2, NothingReleased
    <3> QED BY <1>3, <3>1, <3>2
        DEF Pipeline, BlockedByBreaker, BlockedByChain, Dispatch, AcquireLock,
            LockUnavailable, redisVars
  <2>2. /\ phase[i][m] \in {"queued", "locking"}
        /\ UNCHANGED phase \/ \E p \in {"none", "locking", "acking", "running"} : SetPhase(i, m, p)
    BY <1>3
    DEF Pipeline, BlockedByBreaker, BlockedByChain, PutBack, Dispatch, SkipExecuted, Leaves,
        Dequeues, AckAfterExecution, AcquireLock, LockUnavailable
  <2>3. PICK p \in {"none", "queued", "locking", "acking", "running"} : OneMoves(i, m, p)
    <3>1. CASE UNCHANGED phase
      BY <2>2, <3>1 DEF OneMoves
    <3>2. CASE \E p \in {"none", "locking", "acking", "running"} : SetPhase(i, m, p)
      BY <3>2, PhaseEffect
    <3> QED BY <2>2, <3>1, <3>2
  <2>4. /\ UNCHANGED <<pending, conflicts, executed, overrun, inst>>
        /\ retried' \subseteq retried
    BY <1>3
    DEF Pipeline, BlockedByBreaker, BlockedByChain, Dispatch, SkipExecuted, AcquireLock,
        LockUnavailable, bookVars, execVars
  <2>5. \A j \in Instances : active[j] \subseteq active'[j]
    <3>1. CASE AcquireLock(i, m)
      BY <3>1 DEF AcquireLock, TypeOK, ServiceTypes
    <3>2. CASE UNCHANGED active
      BY <3>2
    <3> QED BY <1>3, <3>1, <3>2
        DEF Pipeline, BlockedByBreaker, BlockedByChain, Dispatch, SkipExecuted,
            LockUnavailable, bookVars
  <2>6. /\ p # "forcing" /\ (p \in Early => phase[i][m] \in Early)
        /\ phase[i][m] \notin {"completed", "unlocked"}
    BY <2>2, <2>3 DEF Early
  <2> QED BY <2>1, <2>3, <2>4, <2>5, <2>6, MoveKeepsEnds
<1> QED BY <1>1, <1>2, <1>3

\* markComplete for a message that has ended.
LEMMA CompletedKeepsEnds ==
  ASSUME OneMessageEach, TypeOK, PendingMatches, EndInv, NEW i \in Instances, NEW m \in Msgs,
         NoNewAttempt, UNCHANGED <<pending, inst>>, \A j \in Instances : StaysEnded(j),
         overrun' \subseteq overrun,
         active' = [active EXCEPT ![i] = @ \ {OppOf[m]}], Ended(i, m)'
  PROVE  EndInv'
<1>1. ASSUME NEW j \in Instances, NEW o \in Opps, pending'[j][o] # None, o \notin active'[j]
      PROVE  Ended(j, pending[j][o])' \/ (pending'[j][o] = pending[j][o] /\ o \notin active[j])
  <2>1. CASE j = i /\ o = OppOf[m]
    <3>1. pending'[j][o] = m
      BY <1>1, <2>1, PendingIsOwn
    <3> QED BY <2>1, <3>1
  <2>2. CASE ~(j = i /\ o = OppOf[m])
    BY <1>1, <2>2 DEF TypeOK, ServiceTypes
  <2> QED BY <2>1, <2>2
<1>2. EndsFirst
  BY <1>1 DEF EndsFirst, NobodyStarts, Live
<1> QED BY <1>2, AttemptsStay, EndsStay DEF EndInv

\* An execution ends before its id is forgotten or remembered as executed.
LEMMA ExecutionKeepsEnds ==
  ASSUME OneMessageEach, TypeOK, PendingMatches, EndInv,
         NEW i \in Instances, NEW m \in Msgs, Execution(i, m)
  PROVE  EndInv'
<1>1. CASE Finish(i, m)
  <2>1. OneMoves(i, m, "completed") /\ Releases(Settled)
    BY <1>1, PhaseEffect, NothingReleased DEF Finish
  <2>2. /\ UNCHANGED <<pending, inst, conflicts, executed, overrun, retried>>
        /\ active' = [active EXCEPT ![i] = @ \ {OppOf[m]}]
    BY <1>1 DEF Finish, MarkComplete, execVars
  <2>3. NoNewAttempt
    BY <2>1, <2>2 DEF NoNewAttempt, OneMoves, Early, HandlerPhases
  <2>4. Ended(i, m)' /\ \A j \in Instances : StaysEnded(j)
    BY <2>1, <2>2 DEF StaysEnded, Ended, OneMoves
  <2> QED BY <2>2, <2>3, <2>4, CompletedKeepsEnds
<1>2. CASE FinishLate(i, m)
  <2>1. /\ UNCHANGED <<status, owner, phase, pending, inst, conflicts, executed, retried>>
        /\ active' = [active EXCEPT ![i] = @ \ {OppOf[m]}] /\ overrun' \subseteq overrun
    BY <1>2 DEF FinishLate, MarkComplete
  <2>2. NoNewAttempt
    BY <2>1, NothingReleased DEF NoNewAttempt
  <2>3. Ended(i, m)
    BY <1>2 DEF FinishLate, EndInv, InactiveIsEnded
  <2>4. Ended(i, m)' /\ \A j \in Instances : StaysEnded(j)
    BY <2>1, <2>3 DEF StaysEnded, Ended
  <2> QED BY <2>1, <2>2, <2>4, CompletedKeepsEnds
<1>3. CASE FinishStale(i, m) \/ ReleaseLock(i, m)
  <2>1. PICK p \in {"completed", "unlocked"} : SetPhase(i, m, p)
    BY <1>3 DEF FinishStale, ReleaseLock
  <2>2. OneMoves(i, m, p)
    BY <2>1, PhaseEffect
  <2>3. /\ UNCHANGED <<status, owner, pending, active, conflicts, executed, overrun, inst>>
        /\ retried' \subseteq retried
    BY <1>3 DEF FinishStale, ReleaseLock, redisVars, bookVars, execVars
  <2>4. p # "forcing" /\ p \notin Early
    BY <2>1 DEF Early, HandlerPhases
  <2> QED BY <2>2, <2>3, <2>4, NothingReleased, MoveKeepsEnds
<1>4. CASE TimeOut(i, m)
  <2>1. OneMoves(i, m, "completed") /\ Releases(Settled)
    BY <1>4, PhaseEffect, NothingReleased DEF TimeOut, redisVars
  <2>2. /\ UNCHANGED <<pending, active, inst, conflicts, executed, retried>>
        /\ \A j \in Instances, n \in Msgs :
             Slot(j, n) \in overrun' => Slot(j, n) \in overrun \/ (j = i /\ n = m)
    BY <1>4 DEF TimeOut, bookVars, Slot
  <2>3. NoNewAttempt
    BY <2>1, <2>2 DEF NoNewAttempt, OneMoves, Early, HandlerPhases
  <2>4. Ended(i, m)' /\ \A j \in Instances : StaysEnded(j)
    BY <2>1, <2>2 DEF StaysEnded, Ended, OneMoves
  <2>5. EndsFirst
    BY <2>2, <2>4 DEF EndsFirst, NobodyStarts, Live
  <2> QED BY <2>3, <2>5, AttemptsStay, EndsStay DEF EndInv
<1>5. CASE RecordExecuted(i, m)
  <2>1. PICK p \in {"none", "acking"} : SetPhase(i, m, p)
    BY <1>5 DEF RecordExecuted, AckAfterExecution
  <2>2. OneMoves(i, m, p)
    BY <2>1, PhaseEffect
  <2>3. Releases(Settled)
    BY <1>5, SettleReleases, NothingReleased DEF RecordExecuted, AckAfterExecution, Settled
  <2>4. /\ UNCHANGED <<pending, active, inst, overrun>> /\ retried' \subseteq retried
        /\ executed' = [executed EXCEPT ![i] = @ \cup {OppOf[m]}]
        /\ conflicts' \in {conflicts, [conflicts EXCEPT ![i][OppOf[m]] = NoConflict]}
    BY <1>5 DEF RecordExecuted, EndInv, FirstAttempt
  <2>5. \A j \in Instances, o \in Opps : conflicts'[j][o].count \in {conflicts[j][o].count, 0}
    <3>1. CASE UNCHANGED conflicts
      BY <3>1
    <3>2. CASE conflicts' = [conflicts EXCEPT ![i][OppOf[m]] = NoConflict]
      BY <3>2 DEF NoConflict, TypeOK, PipelineTypes
    <3> QED BY <2>4, <3>1, <3>2
  <2>6. NoNewAttempt
    BY <2>1, <2>2, <2>3, <2>4, <2>5 DEF NoNewAttempt, OneMoves, Early, HandlerPhases
  <2>7. \A j \in Instances : StaysEnded(j)
    BY <2>2, <2>4 DEF StaysEnded, Ended, OneMoves, TypeOK, ServiceTypes
  <2>8. EndsFirst
    BY <2>4, <2>7 DEF EndsFirst, NobodyStarts, Live
  <2> QED BY <2>6, <2>8, AttemptsStay, EndsStay DEF EndInv
<1>6. CASE AckReply(i, m)
  <2>1. OneMoves(i, m, "none") /\ Releases(Settled) /\ phase[i][m] = "acking"
    BY <1>6, PhaseEffect, NothingReleased DEF AckReply, redisVars
  <2>2. /\ UNCHANGED <<active, inst, conflicts, executed, overrun, retried>>
        /\ \A j \in Instances, o \in Opps : pending'[j][o] \in {pending[j][o], None}
    BY <1>6 DEF AckReply, execVars, TypeOK, ServiceTypes
  <2>3. NoNewAttempt
    BY <2>1, <2>2 DEF NoNewAttempt, OneMoves, Early, HandlerPhases
  <2>4. \A j \in Instances : StaysEnded(j)
    BY <2>1, <2>2 DEF StaysEnded, Ended, OneMoves
  <2>5. EndsFirst
    BY <2>2, <2>4 DEF EndsFirst, NobodyStarts, Live
  <2> QED BY <2>3, <2>5, AttemptsStay, EndsStay DEF EndInv
<1> QED BY <1>1, <1>2, <1>3, <1>4, <1>5, <1>6 DEF Execution, Replied

\* An instance that ends or stops leaves nothing inactive behind that is still live.
LEMMA LifecycleKeepsEnds ==
  ASSUME TypeOK, EndInv, NEW i \in Instances,
         \/ EndRecovery(i) \/ Crash(i) \/ BeginStop(i) \/ FinishStop(i)
         \/ ShutDownLocks(i) \/ Exit(i) \/ \E o \in Opps : CleanupStale(i, o)
  PROVE  EndInv'
<1>1. CASE EndRecovery(i) \/ BeginStop(i) \/ ShutDownLocks(i)
  <2>1. Releases(Settled)
    BY <1>1, SettleReleases, NothingReleased
    DEF EndRecovery, BeginStop, ShutDownLocks, redisVars, Settled
  <2>2. UNCHANGED <<phase, pending, active, conflicts, executed, overrun, retried>>
    BY <1>1 DEF EndRecovery, BeginStop, ShutDownLocks, bookVars, execVars
  <2>3. NobodyStarts
    BY <1>1 DEF EndRecovery, BeginStop, ShutDownLocks, NobodyStarts, Live, TypeOK,
                ServiceTypes
  <2>4. NoNewAttempt /\ EndsFirst
    BY <2>1, <2>2, <2>3 DEF NoNewAttempt, EndsFirst, StaysEnded, Ended
  <2> QED BY <2>4, AttemptsStay, EndsStay DEF EndInv
<1>2. CASE Forget(i) /\ UNCHANGED <<status, owner>>
  <2>1. /\ \A n \in Msgs : phase'[i][n] = "none"
        /\ \A o \in Opps : conflicts'[i][o].count = 0
        /\ \A j \in Instances \ {i} :
             /\ inst'[j] = inst[j] /\ phase'[j] = phase[j] /\ pending'[j] = pending[j]
             /\ active'[j] = active[j] /\ executed'[j] = executed[j]
             /\ conflicts'[j] = conflicts[j]
        /\ inst'[i] = "down"
    BY <1>2 DEF Forget, NoConflict, TypeOK, ServiceTypes, PipelineTypes
  <2>2. /\ retried' \subseteq retried
        /\ \A j \in Instances, n \in Msgs :
             Slot(j, n) \in overrun' => Slot(j, n) \in overrun /\ j # i
    BY <1>2 DEF Forget, Slot
  <2>3. NoNewAttempt
    <3>1. Releases(Settled)
      BY <1>2, NothingReleased
    <3>2. \A j \in Instances, n \in Msgs : phase'[j][n] \in {phase[j][n], "none"}
      BY <2>1
    <3>3. \A j \in Instances, o \in Opps : conflicts'[j][o].count \in {conflicts[j][o].count, 0}
      BY <2>1
    <3> QED BY <2>2, <3>1, <3>2, <3>3 DEF NoNewAttempt, Early, HandlerPhases
  <2>4. \A j \in Instances \ {i} : StaysEnded(j)
    BY <2>1 DEF StaysEnded, Ended
  <2>5. EndsFirst
    BY <2>1, <2>2, <2>4 DEF EndsFirst, NobodyStarts, Live
  <2> QED BY <2>3, <2>5, AttemptsStay, EndsStay DEF EndInv
<1>3. CASE FinishStop(i)
  <2>1. Releases(Settled)
    BY <1>3, SettleReleases, NothingReleased DEF FinishStop, Settled
  <2>2. /\ \A n \in Msgs : phase'[i][n] = IF phase[i][n] = "queued" THEN "none" ELSE phase[i][n]
        /\ \A j \in Instances \ {i} :
             /\ inst'[j] = inst[j] /\ phase'[j] = phase[j] /\ pending'[j] = pending[j]
             /\ active'[j] = active[j]
        /\ inst'[i] = "closing"
        /\ UNCHANGED <<conflicts, executed, overrun, retried>>
    BY <1>3 DEF FinishStop, execVars, TypeOK, ServiceTypes
  <2>3. NoNewAttempt
    BY <2>1, <2>2 DEF NoNewAttempt, Early, HandlerPhases
  <2>4. \A j \in Instances : StaysEnded(j)
    BY <2>2 DEF StaysEnded, Ended
  <2>5. EndsFirst
    BY <2>2, <2>4 DEF EndsFirst, NobodyStarts, Live
  <2> QED BY <2>3, <2>5, AttemptsStay, EndsStay DEF EndInv
<1>4. ASSUME NEW o \in Opps, CleanupStale(i, o) PROVE EndInv'
  <2>1. Releases(Settled)
    BY <1>4, SettleReleases DEF CleanupStale, Settled
  <2>2. /\ UNCHANGED <<phase, inst, conflicts, executed, overrun, retried>>
        /\ \A j \in Instances, q \in Opps :
             \/ pending'[j][q] = None
             \/ pending'[j][q] = pending[j][q] /\ (q \notin active'[j] => q \notin active[j])
    BY <1>4 DEF CleanupStale, execVars, TypeOK, ServiceTypes
  <2>3. NoNewAttempt /\ \A j \in Instances : StaysEnded(j)
    BY <2>1, <2>2 DEF NoNewAttempt, StaysEnded, Ended
  <2>4. EndsFirst
    BY <2>2, <2>3 DEF EndsFirst, NobodyStarts, Live
  <2> QED BY <2>3, <2>4, AttemptsStay, EndsStay DEF EndInv
<1> QED BY <1>1, <1>2, <1>3, <1>4 DEF Crash, Exit

\* A message that is read has met no lock yet, and nothing of it has ended.
LEMMA FetchKeepsEnds ==
  ASSUME TypeOK, UnreadIsUntouched, EndInv, NEW i \in Instances, NEW m \in Msgs, Fetch(i, m)
  PROVE  EndInv'
<1>1. /\ status[m] = "new" /\ OneMoves(i, m, "fetched")
      /\ \A n \in Msgs : status'[n] = "new" => status[n] = "new"
      /\ UNCHANGED <<pending, active, conflicts, executed, overrun, retried, inst>>
  BY PhaseEffect DEF Fetch, bookVars, execVars, TypeOK, RedisTypes
<1>2. FirstAttempt'
  <2> SUFFICES ASSUME NEW j \in Instances, NEW n \in Msgs
               PROVE  /\ phase'[j][n] # "forcing"
                      /\ status'[n] = "new" \/ phase'[j][n] \in Early
                           => conflicts[j][OppOf[n]].count = 0
    BY <1>1 DEF EndInv, FirstAttempt
  <2>1. CASE <<j, n>> = <<i, m>>
    BY <1>1, <2>1 DEF OneMoves, EndInv, FirstAttempt
  <2>2. CASE <<j, n>> # <<i, m>>
    BY <1>1, <2>2 DEF OneMoves, EndInv, FirstAttempt
  <2> QED BY <2>1, <2>2
<1>3. phase[i][m] = "none"
  BY <1>1 DEF UnreadIsUntouched
<1>4. \A j \in Instances : StaysEnded(j)
  BY <1>1, <1>3 DEF StaysEnded, Ended, OneMoves
<1>5. EndsFirst
  BY <1>1, <1>4 DEF EndsFirst, NobodyStarts, Live
<1> QED BY <1>2, <1>5, EndsStay DEF EndInv

\* An instance that starts has tried no lock.
LEMMA StartKeepsEnds ==
  ASSUME TypeOK, OffIsBlank, EndInv, NEW i \in Instances, Start(i)
  PROVE  EndInv'
<1>1. /\ UNCHANGED <<status, pending, active, conflicts, executed, overrun, retried>>
      /\ \A n \in Msgs : phase'[i][n] \in {"fetched", "none"}
      /\ \A j \in Instances \ {i} : phase'[j] = phase[j] /\ inst'[j] = inst[j]
      /\ inst[i] = "off"
  <2>1. inst[i] = "off" /\ \A j \in Instances \ {i} : inst'[j] = inst[j]
    BY DEF Start, Recover, TypeOK, ServiceTypes
  <2> QED BY <2>1, RecoverEffect DEF Start, execVars
<1>2. /\ \A n \in Msgs : phase[i][n] = "none"
      /\ \A o \in Opps : pending[i][o] = None /\ conflicts[i][o].count = 0
  BY <1>1 DEF OffIsBlank
<1>3. FirstAttempt'
  <2> SUFFICES ASSUME NEW j \in Instances, NEW n \in Msgs
               PROVE  /\ phase'[j][n] # "forcing"
                      /\ status[n] = "new" \/ phase'[j][n] \in Early
                           => conflicts[j][OppOf[n]].count = 0
    BY <1>1 DEF EndInv, FirstAttempt
  <2>1. CASE j = i
    BY <1>1, <1>2, <2>1, RolesAssumption
  <2>2. CASE j # i
    BY <1>1, <2>2 DEF EndInv, FirstAttempt
  <2> QED BY <2>1, <2>2
<1>4. \A j \in Instances : StaysEnded(j)
  BY <1>1, <1>2 DEF StaysEnded, Ended
<1>5. InactiveIsEnded'
  <2>1. ASSUME NEW j \in Instances, NEW n \in Msgs, Slot(j, n) \in overrun
        PROVE  Ended(j, n)'
    BY <1>4, <2>1 DEF EndInv, InactiveIsEnded, StaysEnded
  <2>2. ASSUME NEW j \in Instances, NEW o \in Opps, Live(j)', pending[j][o] # None,
               o \notin active[j]
        PROVE  Ended(j, pending[j][o])'
    <3>1. j # i /\ Live(j)
      BY <1>1, <1>2, <2>2 DEF Live
    <3>2. PICK n \in Msgs : n = pending[j][o]
      BY <2>2 DEF TypeOK, ServiceTypes
    <3>3. Ended(j, n)
      BY <2>2, <3>1, <3>2 DEF EndInv, InactiveIsEnded
    <3>4. Ended(j, n)'
      BY <1>4, <3>3 DEF StaysEnded
    <3> QED BY <1>1, <3>2, <3>4 DEF Ended
  <2> QED BY <1>1, <2>1, <2>2 DEF InactiveIsEnded
<1> QED BY <1>3, <1>5 DEF EndInv

\* Every step preserves the invariant.
LEMMA EndsAreKept ==
  ASSUME OneMessageEach, TypeOK, OffIsBlank, UnreadIsUntouched, PendingMatches, EndInv,
         [Next]_vars
  PROVE  EndInv'
<1>1. ASSUME NEW i \in Instances, NEW m \in Msgs,
             Fetch(i, m) \/ Handler(i, m) \/ Pipeline(i, m) \/ Execution(i, m)
      PROVE  EndInv'
  BY <1>1, FetchKeepsEnds, HandlerKeepsEnds, PipelineKeepsEnds, ExecutionKeepsEnds
<1>2. ASSUME NEW i \in Instances,
             AckExpired(i) \/ Lifecycle(i) \/ \E o \in Opps : CleanupStale(i, o)
      PROVE  EndInv'
  BY <1>2, AckExpiredKeepsEnds, StartKeepsEnds, LifecycleKeepsEnds DEF Lifecycle
<1>3. CASE /\ UNCHANGED <<status, owner, inst, phase, pending, active, executed, overrun,
                          retried>>
           /\ \A j \in Instances, o \in Opps :
                conflicts'[j][o].count \in {conflicts[j][o].count, 0}
  <2>1. NoNewAttempt /\ \A j \in Instances : StaysEnded(j)
    BY <1>3, NothingReleased DEF NoNewAttempt, StaysEnded, Ended
  <2>2. EndsFirst
    BY <1>3, <2>1 DEF EndsFirst, NobodyStarts, Live
  <2> QED BY <2>1, <2>2, AttemptsStay, EndsStay DEF EndInv
<1>4. CASE Tick
  <2>1. \A j \in Instances, o \in Opps : conflicts'[j][o].count \in {conflicts[j][o].count, 0}
    <3> SUFFICES ASSUME NEW j \in Instances, NEW o \in Opps
                 PROVE  conflicts'[j][o].count \in {conflicts[j][o].count, 0}
      OBVIOUS
    <3>1. conflicts[j][o] \in ConflictInfo
      BY DEF TypeOK, PipelineTypes, ConflictInfo
    <3>2. conflicts'[j][o] \in {[conflicts[j][o] EXCEPT !.age = @ + 1], NoConflict}
      BY <1>4 DEF Tick, Aged
    <3> QED BY <3>1, <3>2 DEF NoConflict, ConflictInfo
  <2> QED BY <1>3, <1>4, <2>1 DEF Tick
<1>5. CASE UNCHANGED vars
  BY <1>3, <1>5 DEF vars, redisVars, bookVars, execVars
<1> QED BY <1>1, <1>2, <1>4, <1>5 DEF Next

\* Reasons that do not speak of an execution.
Unexecuted == Settled \ {"executed", "shutdown"}

AckedAfterEnd ==
  \A m \in Msgs : status[m] = "pending" /\ status'[m] \in {"executed", "shutdown"} =>
    \E i \in Instances : \/ phase[i][m] \in {"completed", "unlocked"}
                         \/ OppOf[m] \in executed[i]

\* What releases for other reasons acknowledges no execution.
LEMMA UnexecutedIsFine == Releases(Unexecuted) => AckedAfterEnd
BY DEF Releases, Unexecuted, AckedAfterEnd

\* An XACK for the entry of the map acknowledges an opportunity that has ended here.
LEMMA OwnEntryIsFine ==
  ASSUME OneMessageEach, TypeOK, PendingMatches, NEW i \in Instances, NEW m \in Msgs,
         Ended(i, m), Settle({pending[i][OppOf[m]]}, "executed")
  PROVE  AckedAfterEnd
<1>1. ASSUME NEW n \in Msgs, status[n] = "pending", status'[n] \in {"executed", "shutdown"}
      PROVE  n = m
  <2>1. n = pending[i][OppOf[m]]
    BY <1>1, SettleEffect
  <2> QED BY <1>1, <2>1, PendingIsOwn, RolesAssumption
<1> QED BY <1>1 DEF AckedAfterEnd, Ended

\* Only the pipeline, and a stop, acknowledge executions, and they have ended by then.
LEMMA AcksFollowEnds ==
  ASSUME OneMessageEach, TypeOK, PendingMatches, EndInv, [Next]_vars
  PROVE  AckedAfterEnd
<1>1. CASE UNCHANGED <<status, owner>>
  BY <1>1, NothingReleased, UnexecutedIsFine
<1>2. ASSUME NEW i \in Instances, NEW m \in Msgs, Fetch(i, m)
      PROVE  AckedAfterEnd
  BY <1>2 DEF Fetch, AckedAfterEnd, TypeOK, RedisTypes
<1>3. ASSUME NEW i \in Instances, NEW m \in Msgs, Handler(i, m)
      PROVE  AckedAfterEnd
  <2>1. CASE RefuseUnfit(i, m) \/ RefuseClaimed(i, m) \/ FinishRefuse(i, m)
    <3>1. Releases(Unexecuted)
      BY <2>1, AckReleases DEF RefuseUnfit, RefuseClaimed, FinishRefuse, Unexecuted, Settled
    <3> QED BY <3>1, UnexecutedIsFine
  <2>2. CASE Refuse(i, m) \/ Unclaim(i, m) \/ SetAside(i, m)
    BY <1>1, <2>2 DEF Refuse, Unclaim, SetAside, redisVars
  <2>3. CASE Accept(i, m)
    <3>1. Releases(Unexecuted)
      BY <2>3, SettleReleases, NothingReleased DEF Accept, Unexecuted, Settled
    <3> QED BY <3>1, UnexecutedIsFine
  <2>4. CASE AcceptAndSkip(i, m)
    BY <2>4, OwnEntryIsFine DEF AcceptAndSkip, Ended
  <2> QED BY <1>3, <2>1, <2>2, <2>3, <2>4 DEF Handler
<1>4. ASSUME NEW i \in Instances, NEW m \in Msgs, Pipeline(i, m) \/ Execution(i, m)
      PROVE  AckedAfterEnd
  <2>1. CASE SkipExecuted(i, m)
    BY <1>1, <2>1, OwnEntryIsFine DEF SkipExecuted, Leaves, AckAfterExecution, Ended
  <2>2. CASE RecordExecuted(i, m)
    BY <1>1, <2>2, OwnEntryIsFine DEF RecordExecuted, AckAfterExecution, Ended
  <2>3. CASE UNCHANGED <<status, owner>>
    BY <1>1, <2>3
  <2> QED BY <1>4, <2>1, <2>2, <2>3
      DEF Pipeline, BlockedByBreaker, BlockedByChain, Dispatch, AcquireLock, LockConflict,
          ForceRelease, LockUnavailable, Execution, Replied, Finish, FinishStale, TimeOut,
          FinishLate, ReleaseLock, AckReply, redisVars
<1>5. ASSUME NEW i \in Instances, EndRecovery(i) \/ \E o \in Opps : CleanupStale(i, o)
      PROVE  AckedAfterEnd
  <2>1. Releases(Unexecuted)
    BY <1>5, SettleReleases, NothingReleased DEF EndRecovery, CleanupStale, Unexecuted, Settled
  <2> QED BY <2>1, UnexecutedIsFine
<1>6. ASSUME NEW i \in Instances, FinishStop(i), Settle(NotExecuting(i), "shutdown")
      PROVE  AckedAfterEnd
  <2> SUFFICES ASSUME NEW m \in Msgs, status[m] = "pending", status'[m] # "pending"
               PROVE  Ended(i, m)
    BY DEF AckedAfterEnd, Ended
  <2>1. m \in NotExecuting(i)
    BY <1>6, SettleEffect
  <2>2. PICK o \in Opps : pending[i][o] = m /\ o \notin active[i]
    BY <2>1 DEF NotExecuting
  <2> QED BY <1>6, <2>2, RolesAssumption DEF FinishStop, Live, EndInv, InactiveIsEnded
<1>7. ASSUME NEW i \in Instances, Lifecycle(i)
      PROVE  AckedAfterEnd
  <2>1. CASE Start(i)
    BY <2>1 DEF Start, AckedAfterEnd
  <2>2. CASE FinishStop(i)
    BY <1>1, <1>6, <2>2 DEF FinishStop
  <2>3. CASE Crash(i) \/ BeginStop(i) \/ ShutDownLocks(i) \/ Exit(i)
    BY <1>1, <2>3 DEF Crash, BeginStop, ShutDownLocks, Exit, redisVars
  <2> QED BY <1>5, <1>7, <2>1, <2>2, <2>3 DEF Lifecycle
<1>8. CASE Tick \/ UNCHANGED vars
  BY <1>1, <1>8 DEF Tick, vars, redisVars
<1>9. ASSUME NEW i \in Instances, AckExpired(i)
      PROVE  AckedAfterEnd
  <2>1. Releases(Unexecuted)
    BY <1>9, AsideEffect DEF Releases, Unexecuted, Settled
  <2> QED BY <2>1, UnexecutedIsFine
<1> QED BY <1>2, <1>3, <1>4, <1>5, <1>7, <1>8, <1>9 DEF Next

\* Where every message carries an opportunity of its own, no message is acknowledged
\* as executed, or by a stopping instance, before an instance has run it to its end,
\* be it taken over, timed out, skipped or abandoned by its strategy.
THEOREM AcksAreEarned ==
  ASSUME OneMessageEach
  PROVE  Spec => AckOnlyAfterExecution
<1>1. Init => EndInv
  <2>1. Init => FirstAttempt
    BY RolesAssumption DEF Init, InitAfter, FirstAttempt, NoConflict
  <2>2. Init => InactiveIsEnded
    BY RolesAssumption DEF Init, InitAfter, InactiveIsEnded
  <2> QED BY <2>1, <2>2 DEF EndInv
<1>2. TypeOK /\ OffIsBlank /\ UnreadIsUntouched /\ TrackInv /\ EndInv /\ [Next]_vars => EndInv'
  BY EndsAreKept DEF TrackInv
<1>3. TypeOK /\ TrackInv /\ EndInv /\ [Next]_vars =>
        [\A m \in Msgs :
           status[m] = "pending" /\ status[m]' \in {"executed", "shutdown"} =>
             \E i \in Instances : \/ phase[i][m] \in {"completed", "unlocked"}
                                  \/ OppOf[m] \in executed[i]]_vars
  BY AcksFollowEnds DEF TrackInv, AckedAfterEnd
<1> QED BY <1>1, <1>2, <1>3, TypeCorrect, BlankAlways, UnreadAlways, TrackAlways, PTL
        DEF Spec, AckOnlyAfterExecution
=============================================================================
