--------------------- MODULE OpportunityExecution_proofs ---------------------
(* What holds of OpportunityExecution for every value of its constants. *)
EXTENDS OpportunityExecution, TLAPS

\* The two variables that count failed commands, and what they range over.
FaultBooks ==
  /\ faults \in 0..MaxFaults
  /\ unacked \in SUBSET (Instances \X Msgs)

USE DEF Slot, FaultBooks, faultVars

\* Messages that leave the pending list keep a legal status and owner.
LEMMA SettleTypes ==
  ASSUME RedisTypes, NEW ms, NEW why \in Settled, Settle(ms, why)
  PROVE  /\ status' \in [Msgs -> {"new", "pending"} \cup Settled]
         /\ owner' \in [Msgs -> Instances \cup {None}]
BY DEF RedisTypes, Settle

\* A failing command stays within the bound on failures.
LEMMA FaultTypes == PipelineTypes /\ Fault => FaultBooks'
BY LimitsAssumption DEF PipelineTypes, Fault

\* So does an XACK that fails, which dismisses messages.
LEMMA FaultAboutTypes ==
  ASSUME PipelineTypes, NEW i \in Instances, NEW ms \in SUBSET Msgs, FaultAbout(i, ms)
  PROVE  FaultBooks'
BY LimitsAssumption DEF PipelineTypes, FaultAbout

\* An XACK, sent or failed, keeps the types of what it touches.
LEMMA AckTypes ==
  ASSUME RedisTypes, PipelineTypes, NEW i \in Instances, NEW m \in Msgs,
         NEW why \in Settled, AckNow(i, m, why)
  PROVE  /\ status' \in [Msgs -> {"new", "pending"} \cup Settled]
         /\ owner' \in [Msgs -> Instances \cup {None}]
         /\ FaultBooks'
<1>1. CASE Settle({m}, why) /\ UNCHANGED faultVars
  BY <1>1, SettleTypes DEF PipelineTypes
<1>2. CASE FaultAbout(i, {m}) /\ UNCHANGED <<status, owner>>
  <2>1. FaultBooks'
    BY <1>2, FaultAboutTypes
  <2> QED BY <1>2, <2>1 DEF RedisTypes
<1> QED BY <1>1, <1>2 DEF AckNow

\* Setting or deleting the dedup key keeps its type.
LEMMA DedupTypes ==
  ASSUME RedisTypes, PipelineTypes, NEW o \in Opps,
         ClaimDedup(o) \/ DeleteDedup(o) \/ (WinDedup(o) /\ FaultBooks')
  PROVE  dedup' \in [Opps -> 0..DedupTtl] /\ FaultBooks'
<1>1. dedup' \in [Opps -> 0..DedupTtl]
  BY TimersAssumption DEF RedisTypes, ClaimDedup, DeleteDedup, WinDedup
<1>2. FaultBooks'
  BY FaultTypes DEF PipelineTypes, ClaimDedup, DeleteDedup
<1> QED BY <1>1, <1>2

\* Moving one message to another phase keeps the type of phase.
LEMMA PhaseTypes ==
  ASSUME ServiceTypes, NEW i \in Instances, NEW m \in Msgs, NEW p \in Phases,
         SetPhase(i, m, p)
  PROVE  phase' \in [Instances -> [Msgs -> Phases]]
BY DEF ServiceTypes, SetPhase

\* The water marks give a Boolean.
LEMMA PausedTypes ==
  ASSUME PipelineTypes, NEW i \in Instances, NEW b, NEW n,
         paused' = [paused EXCEPT ![i] = Backpressure(b, n)]
  PROVE  paused' \in [Instances -> BOOLEAN]
<1>1. Backpressure(b, n) \in BOOLEAN
  BY DEF Backpressure
<1> QED BY <1>1 DEF PipelineTypes

ConflictInfo == [count : Nat, age : 0..ConflictWindow]

\* Replacing one entry of the conflict tracker keeps its type.
LEMMA ConflictTypes ==
  ASSUME PipelineTypes, NEW i \in Instances, NEW o \in Opps, NEW c \in ConflictInfo,
         conflicts' = [conflicts EXCEPT ![i][o] = c]
  PROVE  conflicts' \in [Instances -> [Opps -> ConflictInfo]]
<1>1. conflicts \in [Instances -> [Opps -> ConflictInfo]]
  BY DEF PipelineTypes, ConflictInfo
<1> QED BY <1>1

\* A counted conflict is an entry of the conflict tracker.
LEMMA CountedTypes ==
  ASSUME NEW c \in ConflictInfo
  PROVE  Counted(c) \in ConflictInfo
BY DEF Counted, ConflictInfo

\* Replacing one re-enqueue count keeps the type of the counts.
LEMMA CbCountTypes ==
  ASSUME PipelineTypes, NEW i \in Instances, NEW o \in Opps, NEW n \in Nat,
         cbCount' = [cbCount EXCEPT ![i][o] = n]
  PROVE  cbCount' \in [Instances -> [Opps -> Nat]]
BY DEF PipelineTypes

\* A system that has not started is well typed.
THEOREM TypeInit == Init => TypeOK
BY TimersAssumption, LimitsAssumption
DEF Init, InitAfter, TypeOK, RedisTypes, ServiceTypes, PipelineTypes, NoConflict, Phases, Stages

\* Reading from the group keeps the types.
LEMMA FetchTypes ==
  ASSUME TypeOK, NEW i \in Instances, NEW m \in Msgs, Fetch(i, m)
  PROVE  TypeOK'
<1> USE DEF TypeOK
<1>1. RedisTypes'
  BY DEF Fetch, RedisTypes
<1>2. ServiceTypes'
  BY TimersAssumption DEF Fetch, ServiceTypes, bookVars, SetPhase, Phases
<1>3. PipelineTypes'
  BY DEF Fetch, PipelineTypes, bookVars, queueVars, execVars
<1> QED BY <1>1, <1>2, <1>3

\* Every step of handleStreamMessage keeps the types.
LEMMA HandlerTypes ==
  ASSUME TypeOK, NEW i \in Instances, NEW m \in Msgs, Handler(i, m)
  PROVE  TypeOK'
<1> USE DEF TypeOK
<1>0. OppOf[m] \in Opps
  BY RolesAssumption
<1>1. CASE RefuseUnfit(i, m)
  <2>1. /\ status' \in [Msgs -> {"new", "pending"} \cup Settled]
        /\ owner' \in [Msgs -> Instances \cup {None}]
        /\ FaultBooks'
    BY <1>1, AckTypes DEF RefuseUnfit, Settled
  <2>2. phase' \in [Instances -> [Msgs -> Phases]]
    BY <1>1, PhaseTypes DEF RefuseUnfit, Phases
  <2>3. RedisTypes' /\ ServiceTypes' /\ PipelineTypes'
    BY <1>1, <2>1, <2>2
    DEF RefuseUnfit, RedisTypes, ServiceTypes, PipelineTypes, bookVars, queueVars, execVars
  <2> QED BY <2>3
<1>2. CASE RefuseClaimed(i, m)
  <2>1. /\ status' \in [Msgs -> {"new", "pending"} \cup Settled]
        /\ owner' \in [Msgs -> Instances \cup {None}]
        /\ FaultBooks'
    BY <1>2, AckTypes DEF RefuseClaimed, Settled
  <2>2. phase' \in [Instances -> [Msgs -> Phases]]
    BY <1>2, PhaseTypes DEF RefuseClaimed, Phases
  <2>3. RedisTypes' /\ ServiceTypes' /\ PipelineTypes'
    BY <1>2, <2>1, <2>2
    DEF RefuseClaimed, RedisTypes, ServiceTypes, PipelineTypes, bookVars, queueVars,
        execVars
  <2> QED BY <2>3
<1>3. CASE Refuse(i, m)
  <2>1. dedup' \in [Opps -> 0..DedupTtl] /\ FaultBooks'
    BY <1>0, <1>3, DedupTypes DEF Refuse
  <2>2. phase' \in [Instances -> [Msgs -> Phases]]
    BY <1>3, PhaseTypes DEF Refuse, Phases, HandlerPhases
  <2>3. RedisTypes' /\ ServiceTypes' /\ PipelineTypes'
    BY <1>3, <2>1, <2>2
    DEF Refuse, RedisTypes, ServiceTypes, PipelineTypes, bookVars, queueVars, execVars
  <2> QED BY <2>3
<1>4. CASE FinishRefuse(i, m)
  <2>1. /\ status' \in [Msgs -> {"new", "pending"} \cup Settled]
        /\ owner' \in [Msgs -> Instances \cup {None}]
        /\ FaultBooks'
    BY <1>4, AckTypes DEF FinishRefuse, Settled
  <2>2. phase' \in [Instances -> [Msgs -> Phases]]
    BY <1>4, PhaseTypes DEF FinishRefuse, Phases, HandlerPhases
  <2>3. RedisTypes' /\ ServiceTypes' /\ PipelineTypes'
    BY <1>4, <2>1, <2>2
    DEF FinishRefuse, RedisTypes, ServiceTypes, PipelineTypes, bookVars, queueVars, execVars
  <2> QED BY <2>3
<1>5. CASE Unclaim(i, m)
  <2>1. dedup' \in [Opps -> 0..DedupTtl] /\ FaultBooks'
    BY <1>0, <1>5, DedupTypes DEF Unclaim
  <2>2. phase' \in [Instances -> [Msgs -> Phases]]
    BY <1>5, PhaseTypes DEF Unclaim, Phases, HandlerPhases
  <2>3. RedisTypes' /\ ServiceTypes' /\ PipelineTypes'
    BY <1>5, <2>1, <2>2
    DEF Unclaim, RedisTypes, ServiceTypes, PipelineTypes, bookVars, queueVars, execVars
  <2> QED BY <2>3
<1>6. CASE Accept(i, m)
  <2>1. /\ status' \in [Msgs -> {"new", "pending"} \cup Settled]
        /\ owner' \in [Msgs -> Instances \cup {None}]
    BY <1>6, SettleTypes DEF Accept, Settled, RedisTypes
  <2>2. dedup' \in [Opps -> 0..DedupTtl] /\ FaultBooks'
    <3>1. CASE ClaimDedup(OppOf[m])
      BY <1>0, <3>1, DedupTypes
    <3>2. CASE /\ pending[i][OppOf[m]] # None /\ WinDedup(OppOf[m])
               /\ FaultAbout(i, {pending[i][OppOf[m]]})
      <4>1. {pending[i][OppOf[m]]} \in SUBSET Msgs
        BY <1>0, <3>2 DEF ServiceTypes
      <4>2. FaultBooks'
        BY <3>2, <4>1, FaultAboutTypes
      <4> QED BY <1>0, <3>2, <4>2, DedupTypes
    <3> QED BY <1>6, <3>1, <3>2 DEF Accept
  <2>3. phase' \in [Instances -> [Msgs -> Phases]]
    BY <1>6, PhaseTypes DEF Accept, Phases
  <2>4. RedisTypes' /\ ServiceTypes'
    BY <1>0, <1>6, <2>1, <2>2, <2>3 DEF Accept, RedisTypes, ServiceTypes
  <2>5. PipelineTypes'
    <3>1. paused' \in [Instances -> BOOLEAN]
      BY <1>6, PausedTypes DEF Accept
    <3> QED BY <1>6, <2>2, <3>1 DEF Accept, PipelineTypes, execVars
  <2> QED BY <2>4, <2>5
<1>7. CASE AcceptAndSkip(i, m)
  <2>1. /\ status' \in [Msgs -> {"new", "pending"} \cup Settled]
        /\ owner' \in [Msgs -> Instances \cup {None}]
    BY <1>7, SettleTypes DEF AcceptAndSkip, Settled, RedisTypes
  <2>2. dedup' \in [Opps -> 0..DedupTtl] /\ FaultBooks'
    BY <1>0, <1>7, DedupTypes, FaultTypes DEF AcceptAndSkip
  <2>3. phase' \in [Instances -> [Msgs -> Phases]]
    BY <1>7, PhaseTypes DEF AcceptAndSkip, Phases, InFlightPhases
  <2>4. RedisTypes' /\ ServiceTypes'
    BY <1>0, <1>7, <2>1, <2>2, <2>3 DEF AcceptAndSkip, RedisTypes, ServiceTypes
  <2>5. PipelineTypes'
    BY <1>0, <1>7, <2>2 DEF AcceptAndSkip, PipelineTypes, execVars
  <2> QED BY <2>4, <2>5
<1>8. CASE SetAside(i, m)
  <2>1. phase' \in [Instances -> [Msgs -> Phases]]
    BY <1>8, PhaseTypes DEF SetAside, Phases
  <2>2. RedisTypes' /\ ServiceTypes' /\ PipelineTypes'
    BY <1>8, <2>1
    DEF SetAside, RedisTypes, ServiceTypes, PipelineTypes, redisVars, bookVars, queueVars,
        execVars
  <2> QED BY <2>2
<1> QED BY <1>1, <1>2, <1>3, <1>4, <1>5, <1>6, <1>7, <1>8 DEF Handler

\* The acknowledgement of the messages put aside keeps the types, whichever part fails.
LEMMA AckExpiredTypes ==
  ASSUME TypeOK, NEW i \in Instances, AckExpired(i)
  PROVE  TypeOK'
<1> USE DEF TypeOK
<1> DEFINE aside == In(i, {"expired"})
<1>1. /\ status' \in [Msgs -> {"new", "pending"} \cup Settled]
      /\ owner' \in [Msgs -> Instances \cup {None}]
      /\ FaultBooks'
  <2>1. CASE Settle(aside, "unfit") /\ UNCHANGED faultVars
    BY <2>1, SettleTypes DEF Settled, PipelineTypes
  <2>2. ASSUME NEW left \in SUBSET aside, FaultAbout(i, left), Settle(aside \ left, "unfit")
        PROVE  /\ status' \in [Msgs -> {"new", "pending"} \cup Settled]
               /\ owner' \in [Msgs -> Instances \cup {None}]
               /\ FaultBooks'
    <3>1. left \in SUBSET Msgs
      BY DEF In
    <3>2. FaultBooks'
      BY <2>2, <3>1, FaultAboutTypes
    <3> QED BY <2>2, <3>2, SettleTypes DEF Settled
  <2> QED BY <2>1, <2>2 DEF AckExpired
<1>2. phase' \in [Instances -> [Msgs -> Phases]]
  BY DEF AckExpired, ServiceTypes, Phases
<1> QED BY <1>1, <1>2
    DEF AckExpired, RedisTypes, ServiceTypes, PipelineTypes, bookVars, queueVars, execVars

\* Every step of the pipeline up to the lock keeps the types.
LEMMA PipelineStepTypes ==
  ASSUME TypeOK, NEW i \in Instances, NEW m \in Msgs, Pipeline(i, m)
  PROVE  TypeOK'
<1> USE DEF TypeOK
<1>1. CASE BlockedByBreaker(i, m)
  <2>1. RedisTypes'
    BY <1>1 DEF BlockedByBreaker, RedisTypes, redisVars
  <2>2. ServiceTypes'
    <3>1. phase' \in [Instances -> [Msgs -> Phases]]
      BY <1>1, PhaseTypes DEF BlockedByBreaker, PutBack, Phases, ServiceTypes
    <3> QED BY <1>1, <3>1 DEF BlockedByBreaker, ServiceTypes, bookVars
  <2>3. PipelineTypes'
    <3>1. paused' \in [Instances -> BOOLEAN]
      BY <1>1, PausedTypes DEF BlockedByBreaker, PutBack, PausedAfterDequeue
    <3>2. cbCount[i][OppOf[m]] + 1 \in Nat
      BY RolesAssumption DEF PipelineTypes
    <3>3. cbCount' \in [Instances -> [Opps -> Nat]]
      BY <1>1, <3>2, CbCountTypes, RolesAssumption DEF BlockedByBreaker
    <3>4. UNCHANGED <<conflicts, execVars, faultVars>>
      BY <1>1 DEF BlockedByBreaker, bookVars
    <3> QED BY <3>1, <3>3, <3>4 DEF PipelineTypes, execVars
  <2> QED BY <2>1, <2>2, <2>3
<1>2. CASE BlockedByChain(i, m)
  <2>1. RedisTypes'
    BY <1>2 DEF BlockedByChain, RedisTypes, redisVars
  <2>2. ServiceTypes'
    <3>1. phase' \in [Instances -> [Msgs -> Phases]]
      BY <1>2, PhaseTypes DEF BlockedByChain, PutBack, Phases, ServiceTypes
    <3> QED BY <1>2, <3>1 DEF BlockedByChain, ServiceTypes, bookVars
  <2>3. PipelineTypes'
    <3>1. paused' \in [Instances -> BOOLEAN]
      BY <1>2, PausedTypes DEF BlockedByChain, PutBack, PausedAfterDequeue
    <3> QED BY <1>2, <3>1 DEF BlockedByChain, PipelineTypes, bookVars, execVars
  <2> QED BY <2>1, <2>2, <2>3
<1>3. CASE Dispatch(i, m)
  <2>1. RedisTypes'
    BY <1>3 DEF Dispatch, RedisTypes, redisVars
  <2>2. ServiceTypes'
    BY <1>3 DEF Dispatch, ServiceTypes, SetPhase, Phases, InFlightPhases, bookVars
  <2>3. PipelineTypes'
    <3>1. paused' \in [Instances -> BOOLEAN]
      BY <1>3, PausedTypes DEF Dispatch, Leaves, PausedAfterDequeue
    <3> QED BY <1>3, <3>1 DEF Dispatch, PipelineTypes, Leaves, bookVars, execVars
  <2> QED BY <2>1, <2>2, <2>3
<1>4. CASE SkipExecuted(i, m)
  <2>1. RedisTypes'
    BY <1>4, SettleTypes DEF SkipExecuted, RedisTypes, Settled, AckAfterExecution
  <2>2. ServiceTypes'
    <3>1. phase' \in [Instances -> [Msgs -> Phases]]
      BY <1>4, PhaseTypes
      DEF SkipExecuted, AckAfterExecution, Phases, InFlightPhases, ServiceTypes
    <3> QED BY <1>4, <3>1 DEF SkipExecuted, ServiceTypes, bookVars
  <2>3. PipelineTypes'
    <3>1. paused' \in [Instances -> BOOLEAN]
      BY <1>4, PausedTypes DEF SkipExecuted, Leaves, PausedAfterDequeue
    <3> QED BY <1>4, <3>1, RolesAssumption, LimitsAssumption
        DEF SkipExecuted, PipelineTypes, Leaves, bookVars, execVars, AckAfterExecution,
            Fault
  <2> QED BY <2>1, <2>2, <2>3
<1>5. CASE AcquireLock(i, m)
  <2>1. RedisTypes'
    BY <1>5, RolesAssumption, TimersAssumption DEF AcquireLock, RedisTypes, TtlOfLock
  <2>2. ServiceTypes'
    BY <1>5, RolesAssumption, TimersAssumption
    DEF AcquireLock, ServiceTypes, SetPhase, Phases, InFlightPhases
  <2>3. PipelineTypes'
    BY <1>5, RolesAssumption, TimersAssumption DEF AcquireLock, PipelineTypes, queueVars
  <2> QED BY <2>1, <2>2, <2>3
<1>6. CASE LockConflict(i, m)
  <2>1. RedisTypes'
    BY <1>6 DEF LockConflict, RedisTypes, redisVars
  <2>2. ServiceTypes'
    <3>1. phase' \in [Instances -> [Msgs -> Phases]]
      BY <1>6, PhaseTypes DEF LockConflict, Phases, InFlightPhases, ServiceTypes
    <3> QED BY <1>6, <3>1 DEF LockConflict, ServiceTypes
  <2>3. PipelineTypes'
    <3>1. Counted(conflicts[i][OppOf[m]]) \in ConflictInfo
      BY CountedTypes, RolesAssumption DEF PipelineTypes, ConflictInfo
    <3>2. conflicts' \in [Instances -> [Opps -> ConflictInfo]]
      <4>1. CASE UNCHANGED conflicts
        BY <4>1 DEF PipelineTypes, ConflictInfo
      <4>2. CASE conflicts' = [conflicts EXCEPT ![i][OppOf[m]] = Counted(conflicts[i][OppOf[m]])]
        BY <3>1, <4>2, ConflictTypes, RolesAssumption
      <4> QED BY <1>6, <4>1, <4>2 DEF LockConflict
    <3>3. retried' \in SUBSET (Instances \X Msgs)
      BY <1>6 DEF LockConflict, PipelineTypes
    <3>4. UNCHANGED <<queueVars, execAge, overrun, failed, staleLockRecoveries, faultVars>>
      BY <1>6 DEF LockConflict
    <3> QED BY <3>2, <3>3, <3>4 DEF PipelineTypes, ConflictInfo, queueVars
  <2> QED BY <2>1, <2>2, <2>3
<1>7. CASE ForceRelease(i, m)
  <2>1. RedisTypes'
    BY <1>7, TimersAssumption DEF ForceRelease, RedisTypes
  <2>2. ServiceTypes'
    <3>1. phase' \in [Instances -> [Msgs -> Phases]]
      BY <1>7, PhaseTypes DEF ForceRelease, Phases, InFlightPhases, ServiceTypes
    <3> QED BY <1>7, <3>1 DEF ForceRelease, ServiceTypes
  <2>3. PipelineTypes'
    <3>1. NoConflict \in ConflictInfo
      BY LimitsAssumption DEF NoConflict, ConflictInfo
    <3>2. conflicts' \in [Instances -> [Opps -> ConflictInfo]]
      <4>1. CASE UNCHANGED conflicts
        BY <4>1 DEF PipelineTypes, ConflictInfo
      <4>2. CASE conflicts' = [conflicts EXCEPT ![i][OppOf[m]] = NoConflict]
        BY <3>1, <4>2, ConflictTypes, RolesAssumption
      <4> QED BY <1>7, <4>1, <4>2 DEF ForceRelease
    <3>3. retried' \in SUBSET (Instances \X Msgs)
      BY <1>7 DEF ForceRelease, PipelineTypes
    <3>4. staleLockRecoveries' \in Nat
      BY <1>7 DEF ForceRelease, PipelineTypes
    <3>5. UNCHANGED <<queueVars, execAge, overrun, failed>>
      BY <1>7 DEF ForceRelease
    <3>6. FaultBooks'
      BY <1>7, FaultTypes DEF ForceRelease, PipelineTypes
    <3> QED BY <3>2, <3>3, <3>4, <3>5, <3>6 DEF PipelineTypes, ConflictInfo, queueVars
  <2> QED BY <2>1, <2>2, <2>3
<1>8. CASE LockUnavailable(i, m)
  <2>1. RedisTypes'
    BY <1>8 DEF LockUnavailable, RedisTypes, redisVars
  <2>2. ServiceTypes'
    BY <1>8 DEF LockUnavailable, ServiceTypes, SetPhase, Phases, bookVars
  <2>3. PipelineTypes'
    BY <1>8, LimitsAssumption DEF LockUnavailable, PipelineTypes, bookVars, queueVars, Fault
  <2> QED BY <2>1, <2>2, <2>3
<1> QED BY <1>1, <1>2, <1>3, <1>4, <1>5, <1>6, <1>7, <1>8 DEF Pipeline

\* Every step from the start of a strategy to the last XACK keeps the types.
LEMMA ExecutionTypes ==
  ASSUME TypeOK, NEW i \in Instances, NEW m \in Msgs, Execution(i, m)
  PROVE  TypeOK'
<1> USE DEF TypeOK
<1>1. CASE Finish(i, m)
  <2>1. RedisTypes'
    BY <1>1, DedupTypes, RolesAssumption DEF Finish, RedisTypes, MarkComplete
  <2>2. ServiceTypes'
    BY <1>1, RolesAssumption
    DEF Finish, ServiceTypes, SetPhase, Phases, InFlightPhases, MarkComplete
  <2>3. PipelineTypes'
    BY <1>1, DedupTypes, RolesAssumption
    DEF Finish, PipelineTypes, MarkComplete, queueVars, execVars
  <2> QED BY <2>1, <2>2, <2>3
<1>2. CASE FinishStale(i, m)
  <2>1. RedisTypes'
    BY <1>2 DEF FinishStale, RedisTypes, redisVars
  <2>2. ServiceTypes'
    BY <1>2 DEF FinishStale, ServiceTypes, SetPhase, Phases, InFlightPhases, bookVars
  <2>3. PipelineTypes'
    BY <1>2 DEF FinishStale, PipelineTypes, bookVars, queueVars, execVars
  <2> QED BY <2>1, <2>2, <2>3
<1>3. CASE TimeOut(i, m)
  <2>1. RedisTypes'
    BY <1>3 DEF TimeOut, RedisTypes, redisVars
  <2>2. ServiceTypes'
    BY <1>3 DEF TimeOut, ServiceTypes, SetPhase, Phases, InFlightPhases, bookVars
  <2>3. PipelineTypes'
    BY <1>3 DEF TimeOut, PipelineTypes, bookVars, queueVars
  <2> QED BY <2>1, <2>2, <2>3
<1>4. CASE FinishLate(i, m)
  <2>1. RedisTypes'
    BY <1>4, DedupTypes, RolesAssumption DEF FinishLate, RedisTypes, MarkComplete
  <2>2. ServiceTypes'
    BY <1>4, RolesAssumption DEF FinishLate, ServiceTypes, MarkComplete
  <2>3. PipelineTypes'
    BY <1>4, DedupTypes, RolesAssumption
    DEF FinishLate, PipelineTypes, MarkComplete, queueVars
  <2> QED BY <2>1, <2>2, <2>3
<1>5. CASE ReleaseLock(i, m)
  <2>1. RedisTypes'
    BY <1>5, TimersAssumption DEF ReleaseLock, RedisTypes
  <2>2. ServiceTypes'
    BY <1>5, TimersAssumption
    DEF ReleaseLock, ServiceTypes, SetPhase, Phases, InFlightPhases, bookVars
  <2>3. PipelineTypes'
    BY <1>5, LimitsAssumption
    DEF ReleaseLock, PipelineTypes, bookVars, queueVars, execVars, Fault
  <2> QED BY <2>1, <2>2, <2>3
<1>6. CASE RecordExecuted(i, m)
  <2>1. RedisTypes'
    BY <1>6, SettleTypes DEF RecordExecuted, RedisTypes, Settled, AckAfterExecution
  <2>2. ServiceTypes'
    <3>1. phase' \in [Instances -> [Msgs -> Phases]]
      BY <1>6, PhaseTypes
      DEF RecordExecuted, AckAfterExecution, ServiceTypes, Phases, InFlightPhases
    <3>2. executed' \in [Instances -> SUBSET Opps]
      <4>1. PICK e \in {executed[i], executed[i] \cup {OppOf[m]}} :
              executed' = [executed EXCEPT ![i] = e]
        BY <1>6 DEF RecordExecuted
      <4> QED BY <4>1, RolesAssumption DEF ServiceTypes
    <3>3. UNCHANGED <<inst, age, pending, active, stale>>
      BY <1>6 DEF RecordExecuted
    <3> QED BY <3>1, <3>2, <3>3 DEF ServiceTypes
  <2>3. PipelineTypes'
    BY <1>6, RolesAssumption, LimitsAssumption
    DEF RecordExecuted, PipelineTypes, AckAfterExecution, Fault, queueVars, NoConflict
  <2> QED BY <2>1, <2>2, <2>3
<1>7. CASE AckReply(i, m)
  <2>1. RedisTypes'
    BY <1>7 DEF AckReply, RedisTypes, redisVars
  <2>2. ServiceTypes'
    BY <1>7 DEF AckReply, ServiceTypes, SetPhase, Phases
  <2>3. PipelineTypes'
    BY <1>7 DEF AckReply, PipelineTypes, queueVars, execVars
  <2> QED BY <2>1, <2>2, <2>3
<1> QED BY <1>1, <1>2, <1>3, <1>4, <1>5, <1>6, <1>7 DEF Execution, Replied

\* The passing of time keeps the types: every timer saturates.
LEMMA TickTypes ==
  ASSUME TypeOK, Tick
  PROVE  TypeOK'
<1> USE DEF TypeOK
<1>1. RedisTypes'
  <2>1. dedup' \in [Opps -> 0..DedupTtl]
    BY TimersAssumption DEF Tick, RedisTypes, Countdown
  <2>2. lockTtl' \in [Opps -> 0..LockTtl]
    BY TimersAssumption DEF Tick, RedisTypes, Countdown
  <2>3. lock' \in [Opps -> (Instances \X Msgs) \cup {None}]
    BY DEF Tick, RedisTypes
  <2>4. UNCHANGED <<status, owner>>
    BY DEF Tick
  <2> QED BY <2>1, <2>2, <2>3, <2>4 DEF RedisTypes
<1>2. ServiceTypes'
  BY TimersAssumption DEF Tick, ServiceTypes, Older
<1>3. PipelineTypes'
  <2>1. execAge' \in [Instances -> [Msgs -> 0..ExecTimeout]]
    BY TimersAssumption DEF Tick, PipelineTypes
  <2>2. conflicts' \in [Instances -> [Opps -> [count : Nat, age : 0..ConflictWindow]]]
    <3> SUFFICES ASSUME NEW i \in Instances, NEW o \in Opps
                 PROVE  conflicts'[i][o] \in [count : Nat, age : 0..ConflictWindow]
      BY DEF Tick
    <3>1. conflicts[i][o] \in [count : Nat, age : 0..ConflictWindow]
      BY DEF PipelineTypes
    <3>2. conflicts'[i][o] = Aged(conflicts[i][o])
      BY DEF Tick
    <3> QED BY <3>1, <3>2, LimitsAssumption DEF Aged, NoConflict
  <2>3. UNCHANGED <<paused, cbCount, overrun, failed, retried, staleLockRecoveries, faultVars>>
    BY DEF Tick, queueVars
  <2> QED BY <2>1, <2>2, <2>3 DEF PipelineTypes
<1> QED BY <1>1, <1>2, <1>3

\* The cleanup of stale entries keeps the types.
LEMMA CleanupTypes ==
  ASSUME TypeOK, NEW i \in Instances, NEW o \in Opps, CleanupStale(i, o)
  PROVE  TypeOK'
<1> USE DEF TypeOK
<1>1. RedisTypes'
  BY SettleTypes DEF CleanupStale, RedisTypes, Settled
<1>2. ServiceTypes'
  BY DEF CleanupStale, ServiceTypes
<1>3. PipelineTypes'
  BY DEF CleanupStale, PipelineTypes, queueVars, execVars
<1> QED BY <1>1, <1>2, <1>3

\* The state of the process is reset, the one of Redis is not touched.
LEMMA ForgetTypes ==
  ASSUME TypeOK, NEW i \in Instances, Forget(i)
  PROVE  ServiceTypes' /\ PipelineTypes' /\ UNCHANGED <<dedup, lock, lockTtl>>
<1>1. ServiceTypes'
  BY DEF Forget, TypeOK, ServiceTypes, Phases, Stages
<1>2. PipelineTypes'
  <2>1. conflicts' \in [Instances -> [Opps -> [count : Nat, age : 0..ConflictWindow]]]
    <3>1. [o \in Opps |-> NoConflict] \in [Opps -> [count : Nat, age : 0..ConflictWindow]]
      BY LimitsAssumption DEF NoConflict
    <3> QED BY <3>1 DEF Forget, TypeOK, PipelineTypes
  <2>2. /\ paused' \in [Instances -> BOOLEAN]
        /\ cbCount' \in [Instances -> [Opps -> Nat]]
        /\ execAge' \in [Instances -> [Msgs -> 0..ExecTimeout]]
    BY TimersAssumption DEF Forget, TypeOK, PipelineTypes
  <2>3. /\ overrun' \in SUBSET (Instances \X Msgs)
        /\ failed' \in SUBSET (Instances \X Msgs)
        /\ retried' \in SUBSET (Instances \X Msgs)
    BY DEF Forget, TypeOK, PipelineTypes
  <2>4. UNCHANGED <<staleLockRecoveries, faultVars>>
    BY DEF Forget
  <2> QED BY <2>1, <2>2, <2>3, <2>4 DEF TypeOK, PipelineTypes
<1>3. UNCHANGED <<dedup, lock, lockTtl>>
  BY DEF Forget
<1> QED BY <1>1, <1>2, <1>3

\* Starting, recovering, crashing and stopping keep the types.
LEMMA LifecycleTypes ==
  ASSUME TypeOK, NEW i \in Instances, Lifecycle(i)
  PROVE  TypeOK'
<1> USE DEF TypeOK
<1>1. CASE Start(i)
  <2>1. ASSUME NEW scanned \in SUBSET PendingMsgs, Recover(i, scanned)
        PROVE  /\ owner' \in [Msgs -> Instances \cup {None}]
               /\ phase' \in [Instances -> [Msgs -> Phases]]
               /\ stale' \in [Instances -> SUBSET Instances]
               /\ inst' \in [Instances -> Stages]
    <3>1. \A m \in Orphans(scanned) : m \in Msgs /\ owner[m] \in Instances
      BY TimersAssumption DEF Orphans, IdleIn, PendingMsgs, RedisTypes
    <3>2. owner' \in [Msgs -> Instances \cup {None}]
      BY <2>1 DEF Recover, RedisTypes
    <3>3. phase' \in [Instances -> [Msgs -> Phases]]
      BY <2>1 DEF Recover, ServiceTypes, Phases
    <3>4. stale' \in [Instances -> SUBSET Instances]
      BY <2>1, <3>1 DEF Recover, ServiceTypes
    <3>5. inst' \in [Instances -> Stages]
      BY <2>1 DEF Recover, ServiceTypes, Stages
    <3> QED BY <3>2, <3>3, <3>4, <3>5
  <2>2. CASE /\ \E scanned \in SUBSET PendingMsgs : Recover(i, scanned)
             /\ UNCHANGED faultVars
    BY <1>1, <2>1, <2>2
    DEF Start, RedisTypes, ServiceTypes, PipelineTypes, queueVars, execVars
  <2>3. CASE /\ Fault
             /\ inst' = [inst EXCEPT ![i] = "running"]
             /\ UNCHANGED <<owner, phase, stale>>
    BY <1>1, <2>3, FaultTypes
    DEF Start, RedisTypes, ServiceTypes, Stages, PipelineTypes, queueVars, execVars
  <2> QED BY <1>1, <2>2, <2>3 DEF Start
<1>2. CASE EndRecovery(i)
  <2>1. RedisTypes'
    BY <1>2, SettleTypes DEF EndRecovery, RedisTypes, Settled
  <2>2. ServiceTypes'
    BY <1>2 DEF EndRecovery, ServiceTypes, Stages
  <2>3. PipelineTypes'
    BY <1>2, FaultTypes DEF EndRecovery, PipelineTypes, queueVars, execVars
  <2> QED BY <2>1, <2>2, <2>3
<1>3. CASE Crash(i)
  BY <1>3, ForgetTypes DEF Crash, RedisTypes
<1>4. CASE BeginStop(i)
  <2>1. RedisTypes'
    BY <1>4 DEF BeginStop, RedisTypes, redisVars
  <2>2. ServiceTypes'
    BY <1>4 DEF BeginStop, ServiceTypes, Stages, bookVars
  <2>3. PipelineTypes'
    BY <1>4 DEF BeginStop, PipelineTypes, bookVars, queueVars, execVars
  <2> QED BY <2>1, <2>2, <2>3
<1>5. CASE FinishStop(i)
  <2>1. RedisTypes'
    BY <1>5, SettleTypes DEF FinishStop, RedisTypes, Settled
  <2>2. phase' \in [Instances -> [Msgs -> Phases]]
    BY <1>5 DEF FinishStop, ServiceTypes, Phases
  <2>3. ServiceTypes'
    BY <1>5, <2>2 DEF FinishStop, ServiceTypes, Stages
  <2>4. PipelineTypes'
    BY <1>5, FaultTypes DEF FinishStop, PipelineTypes, execVars
  <2> QED BY <2>1, <2>3, <2>4
<1>6. CASE ShutDownLocks(i)
  <2>1. RedisTypes'
    BY <1>6, TimersAssumption DEF ShutDownLocks, RedisTypes
  <2>2. ServiceTypes'
    BY <1>6 DEF ShutDownLocks, ServiceTypes, Stages, bookVars
  <2>3. PipelineTypes'
    BY <1>6, FaultTypes DEF ShutDownLocks, PipelineTypes, bookVars, queueVars, execVars
  <2> QED BY <2>1, <2>2, <2>3
<1>7. CASE Exit(i)
  BY <1>7, ForgetTypes DEF Exit, RedisTypes
<1> QED BY <1>1, <1>2, <1>3, <1>4, <1>5, <1>6, <1>7 DEF Lifecycle

\* Nothing happens to the types when nothing happens.
LEMMA StutterTypes == TypeOK /\ UNCHANGED vars => TypeOK'
BY DEF TypeOK, RedisTypes, ServiceTypes, PipelineTypes, vars, redisVars, bookVars,
       queueVars, execVars

\* Every variable keeps its type, whatever the instances, messages and limits are.
THEOREM TypeCorrect == Spec => []TypeOK
<1>1. Init => TypeOK
  BY TypeInit
<1>2. TypeOK /\ [Next]_vars => TypeOK'
  BY FetchTypes, HandlerTypes, AckExpiredTypes, PipelineStepTypes, ExecutionTypes,
     CleanupTypes, LifecycleTypes, TickTypes, StutterTypes
  DEF Next
<1> QED BY <1>1, <1>2, PTL DEF Spec

-----------------------------------------------------------------------------
(* Executions of one opportunity exclude each other.  The lock alone would not *)
(* be inductive: it expires.  What the steps preserve is that a running        *)
(* execution holds the lock with enough of its time to live left to see the    *)
(* execution timer through.                                                    *)

Holds(i, m) ==
  /\ lock[OppOf[m]] = Slot(i, m)
  /\ lockTtl[OppOf[m]] + execAge[i][m] >= LockTtl

\* Executions of an instance that has not shut its lock manager down.
Runs(i, m) == phase[i][m] = "running" /\ inst[i] # "exiting"

RunningHolds ==
  staleLockRecoveries = 0 =>
    \A i \in Instances, m \in Msgs : Runs(i, m) => Holds(i, m)

\* A lock carries one slot, so only one execution can hold it.
LEMMA HoldsImpliesExclusive == TypeOK /\ RunningHolds => ExclusiveUnlessForced
BY DEF RunningHolds, Runs, Holds, ExclusiveUnlessForced, Exclusive, Running

StartsNothing ==
  \A i \in Instances, m \in Msgs : Runs(i, m)' => Runs(i, m)

\* Steps that touch neither the locks nor the execution timers, and start nothing.
Quiet ==
  /\ UNCHANGED <<lock, lockTtl, execAge>>
  /\ staleLockRecoveries' = 0 => staleLockRecoveries = 0
  /\ StartsNothing

\* A quiet step leaves running executions with the locks they hold.
LEMMA QuietKeepsHolds == RunningHolds /\ Quiet => RunningHolds'
BY DEF RunningHolds, Runs, Holds, Quiet, StartsNothing

\* Moving a message to a phase other than "running" starts nothing.
LEMMA SetPhaseIsQuiet ==
  ASSUME TypeOK, NEW i \in Instances, NEW m \in Msgs, NEW p, p # "running",
         SetPhase(i, m, p), UNCHANGED inst
  PROVE  StartsNothing
BY DEF TypeOK, ServiceTypes, SetPhase, StartsNothing, Runs

\* Handling a message touches no lock.
LEMMA HandlerQuiet ==
  ASSUME TypeOK, NEW i \in Instances, NEW m \in Msgs,
         Handler(i, m)
  PROVE  Quiet
<1>1. CASE RefuseUnfit(i, m)
  <2>1. StartsNothing
    BY <1>1, SetPhaseIsQuiet DEF RefuseUnfit
  <2> QED BY <1>1, <2>1 DEF Quiet, RefuseUnfit, execVars
<1>2. CASE RefuseClaimed(i, m)
  <2>1. StartsNothing
    BY <1>2, SetPhaseIsQuiet DEF RefuseClaimed
  <2> QED BY <1>2, <2>1 DEF Quiet, RefuseClaimed, execVars
<1>3. CASE Refuse(i, m)
  <2>1. StartsNothing
    BY <1>3, SetPhaseIsQuiet DEF Refuse
  <2> QED BY <1>3, <2>1 DEF Quiet, Refuse, execVars
<1>4. CASE FinishRefuse(i, m)
  <2>1. StartsNothing
    BY <1>4, SetPhaseIsQuiet DEF FinishRefuse
  <2> QED BY <1>4, <2>1 DEF Quiet, FinishRefuse, execVars
<1>5. CASE Unclaim(i, m)
  <2>1. StartsNothing
    BY <1>5, SetPhaseIsQuiet DEF Unclaim
  <2> QED BY <1>5, <2>1 DEF Quiet, Unclaim, execVars
<1>6. CASE Accept(i, m)
  <2>1. StartsNothing
    BY <1>6, SetPhaseIsQuiet DEF Accept
  <2> QED BY <1>6, <2>1 DEF Quiet, Accept, execVars
<1>7. CASE AcceptAndSkip(i, m)
  <2>1. StartsNothing
    BY <1>7, SetPhaseIsQuiet DEF AcceptAndSkip
  <2> QED BY <1>7, <2>1 DEF Quiet, AcceptAndSkip, execVars
<1>8. CASE SetAside(i, m)
  <2>1. StartsNothing
    BY <1>8, SetPhaseIsQuiet DEF SetAside
  <2> QED BY <1>8, <2>1 DEF Quiet, SetAside, redisVars, execVars
<1> QED BY <1>1, <1>2, <1>3, <1>4, <1>5, <1>6, <1>7, <1>8 DEF Handler

\* Nor does the acknowledgement of the messages put aside.
LEMMA AckExpiredQuiet ==
  ASSUME TypeOK, NEW i \in Instances, AckExpired(i)
  PROVE  Quiet
<1>1. StartsNothing
  BY DEF AckExpired, TypeOK, ServiceTypes, StartsNothing, Runs
<1> QED BY <1>1 DEF Quiet, AckExpired, execVars

\* In the pipeline only acquiring and forcing touch a lock or start an execution.
LEMMA PipelineQuiet ==
  ASSUME TypeOK, NEW i \in Instances, NEW m \in Msgs,
         Pipeline(i, m), ~AcquireLock(i, m), ~ForceRelease(i, m)
  PROVE  Quiet
<1>1. CASE BlockedByBreaker(i, m)
  <2>1. StartsNothing
    BY <1>1, SetPhaseIsQuiet DEF BlockedByBreaker, PutBack, StartsNothing, Runs
  <2> QED BY <1>1, <2>1 DEF Quiet, BlockedByBreaker, redisVars, execVars
<1>2. CASE BlockedByChain(i, m)
  <2>1. StartsNothing
    BY <1>2, SetPhaseIsQuiet DEF BlockedByChain, PutBack, StartsNothing, Runs
  <2> QED BY <1>2, <2>1 DEF Quiet, BlockedByChain, redisVars, execVars
<1>3. CASE Dispatch(i, m)
  <2>1. StartsNothing
    BY <1>3, SetPhaseIsQuiet DEF Dispatch
  <2> QED BY <1>3, <2>1 DEF Quiet, Dispatch, redisVars, execVars
<1>4. CASE SkipExecuted(i, m)
  <2>1. StartsNothing
    BY <1>4, SetPhaseIsQuiet DEF SkipExecuted, AckAfterExecution
  <2> QED BY <1>4, <2>1 DEF Quiet, SkipExecuted, execVars
<1>5. CASE LockConflict(i, m)
  <2>1. StartsNothing
    BY <1>5, SetPhaseIsQuiet DEF LockConflict
  <2> QED BY <1>5, <2>1 DEF Quiet, LockConflict, redisVars
<1>6. CASE LockUnavailable(i, m)
  <2>1. StartsNothing
    BY <1>6, SetPhaseIsQuiet DEF LockUnavailable
  <2> QED BY <1>6, <2>1 DEF Quiet, LockUnavailable, redisVars
<1> QED BY <1>1, <1>2, <1>3, <1>4, <1>5, <1>6 DEF Pipeline

\* Of the steps of an execution only the release touches a lock.
LEMMA ExecutionQuiet ==
  ASSUME TypeOK, NEW i \in Instances, NEW m \in Msgs,
         Execution(i, m), ~ReleaseLock(i, m)
  PROVE  Quiet
<1>1. CASE Finish(i, m)
  <2>1. StartsNothing
    BY <1>1, SetPhaseIsQuiet DEF Finish
  <2> QED BY <1>1, <2>1 DEF Quiet, Finish, execVars
<1>2. CASE FinishStale(i, m)
  <2>1. StartsNothing
    BY <1>2, SetPhaseIsQuiet DEF FinishStale
  <2> QED BY <1>2, <2>1 DEF Quiet, FinishStale, redisVars, execVars
<1>3. CASE TimeOut(i, m)
  <2>1. StartsNothing
    BY <1>3, SetPhaseIsQuiet DEF TimeOut
  <2> QED BY <1>3, <2>1 DEF Quiet, TimeOut, redisVars
<1>4. CASE FinishLate(i, m)
  <2>1. StartsNothing
    BY <1>4, SetPhaseIsQuiet DEF FinishLate, StartsNothing, Runs
  <2> QED BY <1>4, <2>1 DEF Quiet, FinishLate, execVars
<1>5. CASE RecordExecuted(i, m)
  <2>1. StartsNothing
    BY <1>5, SetPhaseIsQuiet DEF RecordExecuted, AckAfterExecution
  <2> QED BY <1>5, <2>1 DEF Quiet, RecordExecuted
<1>6. CASE AckReply(i, m)
  <2>1. StartsNothing
    BY <1>6, SetPhaseIsQuiet DEF AckReply
  <2> QED BY <1>6, <2>1 DEF Quiet, AckReply, redisVars, execVars
<1> QED BY <1>1, <1>2, <1>3, <1>4, <1>5, <1>6 DEF Execution, Replied

\* Starting, recovering and stopping the consumer touch no lock.
LEMMA LifecycleQuiet ==
  ASSUME TypeOK, NEW i \in Instances,
         Start(i) \/ EndRecovery(i) \/ BeginStop(i) \/ FinishStop(i)
  PROVE  Quiet
<1>1. CASE Start(i)
  <2>1. StartsNothing
    <3>1. CASE \E scanned \in SUBSET PendingMsgs : Recover(i, scanned)
      BY <1>1, <3>1 DEF Start, Recover, TypeOK, ServiceTypes, StartsNothing, Runs
    <3>2. CASE UNCHANGED phase /\ inst' = [inst EXCEPT ![i] = "running"]
      BY <1>1, <3>2 DEF Start, TypeOK, ServiceTypes, StartsNothing, Runs
    <3> QED BY <1>1, <3>1, <3>2 DEF Start
  <2> QED BY <1>1, <2>1 DEF Quiet, Start, execVars
<1>2. CASE EndRecovery(i)
  <2>1. StartsNothing
    BY <1>2 DEF EndRecovery, TypeOK, ServiceTypes, StartsNothing, Runs
  <2> QED BY <1>2, <2>1 DEF Quiet, EndRecovery, execVars
<1>3. CASE BeginStop(i)
  <2>1. StartsNothing
    BY <1>3 DEF BeginStop, TypeOK, ServiceTypes, StartsNothing, Runs
  <2> QED BY <1>3, <2>1 DEF Quiet, BeginStop, redisVars, execVars
<1>4. CASE FinishStop(i)
  <2>1. StartsNothing
    BY <1>4 DEF FinishStop, TypeOK, ServiceTypes, StartsNothing, Runs
  <2> QED BY <1>4, <2>1 DEF Quiet, FinishStop, execVars
<1> QED BY <1>1, <1>2, <1>3, <1>4

\* The holder found no lock, so no other execution of the opportunity runs.
LEMMA AcquireKeepsHolds ==
  ASSUME TypeOK, RunningHolds, NEW i \in Instances, NEW m \in Msgs, AcquireLock(i, m)
  PROVE  RunningHolds'
<1> SUFFICES ASSUME staleLockRecoveries' = 0,
                    NEW j \in Instances, NEW n \in Msgs, Runs(j, n)'
             PROVE  Holds(j, n)'
  BY DEF RunningHolds
<1>1. CASE j = i /\ n = m
  <2>1. lock'[OppOf[m]] = Slot(i, m) /\ lockTtl'[OppOf[m]] = LockTtl /\ execAge'[i][m] = 0
    BY RolesAssumption DEF AcquireLock, TtlOfLock, TypeOK, RedisTypes, PipelineTypes
  <2> QED BY <1>1, <2>1, TimersAssumption DEF Holds
<1>2. CASE ~(j = i /\ n = m)
  <2>1. Runs(j, n)
    BY <1>2 DEF AcquireLock, SetPhase, TypeOK, ServiceTypes, Runs
  <2>2. Holds(j, n)
    BY <2>1 DEF RunningHolds, AcquireLock
  <2>3. OppOf[n] # OppOf[m]
    <3>1. <<j, n>> \in Instances \X Msgs
      OBVIOUS
    <3>2. <<j, n>> # None
      BY <3>1, RolesAssumption
    <3> QED BY <2>2, <3>2 DEF Holds, AcquireLock
  <2>4. lock'[OppOf[n]] = lock[OppOf[n]] /\ lockTtl'[OppOf[n]] = lockTtl[OppOf[n]]
    BY <2>3 DEF AcquireLock, TypeOK, RedisTypes
  <2>5. execAge'[j][n] = execAge[j][n]
    BY <1>2 DEF AcquireLock, TypeOK, PipelineTypes
  <2> QED BY <2>2, <2>4, <2>5 DEF Holds
<1> QED BY <1>1, <1>2

\* A release deletes its own slot only, and a released execution has ended.
LEMMA ReleaseKeepsHolds ==
  ASSUME TypeOK, RunningHolds, NEW i \in Instances, NEW m \in Msgs, ReleaseLock(i, m)
  PROVE  RunningHolds'
<1> SUFFICES ASSUME staleLockRecoveries' = 0,
                    NEW j \in Instances, NEW n \in Msgs, Runs(j, n)'
             PROVE  Holds(j, n)'
  BY DEF RunningHolds
<1>1. Runs(j, n) /\ ~(j = i /\ n = m)
  BY DEF ReleaseLock, SetPhase, TypeOK, ServiceTypes, Runs
<1>2. Holds(j, n)
  BY <1>1 DEF RunningHolds, ReleaseLock, execVars
<1>3. lock'[OppOf[n]] = lock[OppOf[n]] /\ lockTtl'[OppOf[n]] = lockTtl[OppOf[n]]
  BY <1>1, <1>2, RolesAssumption DEF ReleaseLock, Holds, TypeOK, RedisTypes
<1> QED BY <1>2, <1>3 DEF Holds, ReleaseLock, execVars

\* A process that ends takes its executions with it and leaves the locks alone.
LEMMA ForgetKeepsHolds ==
  ASSUME TypeOK, RunningHolds, NEW i \in Instances, Forget(i)
  PROVE  RunningHolds'
<1> SUFFICES ASSUME staleLockRecoveries' = 0,
                    NEW j \in Instances, NEW n \in Msgs, Runs(j, n)'
             PROVE  Holds(j, n)'
  BY DEF RunningHolds
<1>1. j # i /\ Runs(j, n)
  BY DEF Forget, TypeOK, ServiceTypes, Runs
<1>2. Holds(j, n)
  BY <1>1 DEF RunningHolds, Forget
<1>3. execAge'[j][n] = execAge[j][n]
  BY <1>1 DEF Forget, TypeOK, PipelineTypes
<1> QED BY <1>2, <1>3 DEF Holds, Forget

\* A lock manager that shuts down releases the slots of its own instance only.
LEMMA ShutDownKeepsHolds ==
  ASSUME TypeOK, RunningHolds, NEW i \in Instances, ShutDownLocks(i)
  PROVE  RunningHolds'
<1> SUFFICES ASSUME staleLockRecoveries' = 0,
                    NEW j \in Instances, NEW n \in Msgs, Runs(j, n)'
             PROVE  Holds(j, n)'
  BY DEF RunningHolds
<1>1. j # i /\ Runs(j, n)
  BY DEF ShutDownLocks, TypeOK, ServiceTypes, Runs
<1>2. Holds(j, n)
  BY <1>1 DEF RunningHolds, ShutDownLocks, execVars
<1>3. OppOf[n] \in Opps /\ OppOf[n] \notin HeldLocks(i)
  BY <1>1, <1>2, RolesAssumption DEF HeldLocks, Holds
<1>4. lock'[OppOf[n]] = lock[OppOf[n]] /\ lockTtl'[OppOf[n]] = lockTtl[OppOf[n]]
  BY <1>3 DEF ShutDownLocks
<1> QED BY <1>2, <1>4 DEF Holds, ShutDownLocks, execVars

\* Time runs down the lock and winds up the execution timer by the same amount,
\* and it cannot pass a timer that is due, so the lock does not expire under it.
LEMMA TickKeepsHolds ==
  ASSUME TypeOK, RunningHolds, Tick
  PROVE  RunningHolds'
<1> SUFFICES ASSUME staleLockRecoveries' = 0,
                    NEW j \in Instances, NEW n \in Msgs, Runs(j, n)'
             PROVE  Holds(j, n)'
  BY DEF RunningHolds
<1> DEFINE o == OppOf[n]
<1>1. o \in Opps
  BY RolesAssumption
<1>2. Runs(j, n) /\ execAge[j][n] < ExecTimeout
  BY DEF Tick, Runs
<1>3. Holds(j, n)
  BY <1>2 DEF RunningHolds, Tick
<1>4. lockTtl[o] \in Nat /\ execAge[j][n] \in Nat
  BY <1>1 DEF TypeOK, RedisTypes, PipelineTypes
<1>5. lockTtl[o] > 1
  BY <1>2, <1>3, <1>4, TimersAssumption DEF Holds
<1>6. lock'[o] = lock[o] /\ lockTtl'[o] = lockTtl[o] - 1
  BY <1>1, <1>4, <1>5 DEF Tick, Countdown
<1>7. execAge'[j][n] = execAge[j][n] + 1
  BY <1>2 DEF Tick, Runs
<1> QED BY <1>3, <1>4, <1>6, <1>7 DEF Holds

\* A running execution always holds its lock, with enough of its time to live.
THEOREM HoldsAlways == Spec => []RunningHolds
<1>1. Init => RunningHolds
  BY DEF Init, InitAfter, RunningHolds, Runs
<1>2. TypeOK /\ RunningHolds /\ [Next]_vars => RunningHolds'
  <2> SUFFICES ASSUME TypeOK, RunningHolds, [Next]_vars PROVE RunningHolds'
    OBVIOUS
  <2>1. ASSUME NEW i \in Instances, NEW m \in Msgs, Fetch(i, m) PROVE RunningHolds'
    <3>1. StartsNothing
      BY <2>1, SetPhaseIsQuiet DEF Fetch
    <3>2. Quiet
      BY <2>1, <3>1 DEF Quiet, Fetch, execVars
    <3> QED BY <3>2, QuietKeepsHolds
  <2>2. ASSUME NEW i \in Instances, NEW m \in Msgs, Handler(i, m) PROVE RunningHolds'
    BY <2>2, HandlerQuiet, QuietKeepsHolds
  <2>3. ASSUME NEW i \in Instances, NEW m \in Msgs, Pipeline(i, m) PROVE RunningHolds'
    <3>1. CASE AcquireLock(i, m)
      BY <3>1, AcquireKeepsHolds
    <3>2. CASE ForceRelease(i, m) /\ staleLockRecoveries' # 0
      BY <3>2 DEF RunningHolds
    <3>3. CASE ForceRelease(i, m) /\ staleLockRecoveries' = 0
      <4>1. /\ UNCHANGED <<lock, lockTtl, execAge, staleLockRecoveries, inst>>
            /\ SetPhase(i, m, "none")
        BY <3>3 DEF ForceRelease, TypeOK, PipelineTypes
      <4>2. Quiet
        BY <4>1, SetPhaseIsQuiet DEF Quiet
      <4> QED BY <4>2, QuietKeepsHolds
    <3>4. CASE ~AcquireLock(i, m) /\ ~ForceRelease(i, m)
      BY <2>3, <3>4, PipelineQuiet, QuietKeepsHolds
    <3> QED BY <3>1, <3>2, <3>3, <3>4
  <2>4. ASSUME NEW i \in Instances, NEW m \in Msgs, Execution(i, m) PROVE RunningHolds'
    BY <2>4, ReleaseKeepsHolds, ExecutionQuiet, QuietKeepsHolds
  <2>5. ASSUME NEW i \in Instances, NEW o \in Opps, CleanupStale(i, o) PROVE RunningHolds'
    <3>1. Quiet
      BY <2>5 DEF Quiet, StartsNothing, Runs, CleanupStale, execVars
    <3> QED BY <3>1, QuietKeepsHolds
  <2>6. ASSUME NEW i \in Instances, Lifecycle(i) PROVE RunningHolds'
    BY <2>6, LifecycleQuiet, QuietKeepsHolds, ForgetKeepsHolds, ShutDownKeepsHolds
    DEF Lifecycle, Crash, Exit
  <2>7. CASE Tick
    BY <2>7, TickKeepsHolds
  <2>8. CASE UNCHANGED vars
    BY <2>8 DEF RunningHolds, Runs, Holds, vars, redisVars, execVars
  <2>9. ASSUME NEW i \in Instances, AckExpired(i) PROVE RunningHolds'
    BY <2>9, AckExpiredQuiet, QuietKeepsHolds
  <2> QED BY <2>1, <2>2, <2>3, <2>4, <2>5, <2>6, <2>7, <2>8, <2>9 DEF Next
<1> QED BY <1>1, <1>2, TypeCorrect, PTL DEF Spec

\* As long as no lock was taken by force, at most one execution of an opportunity
\* runs at a time, whatever the instances do, crash and restart included; only what
\* an instance still runs after its lock manager was shut down is not excluded.
THEOREM Exclusion == Spec => []ExclusiveUnlessForced
<1>1. TypeOK /\ RunningHolds => ExclusiveUnlessForced
  BY HoldsImpliesExclusive
<1> QED BY <1>1, TypeCorrect, HoldsAlways, PTL
=============================================================================
