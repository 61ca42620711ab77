------------------------- MODULE OpportunityExecution -------------------------
(***************************************************************************)
(* The execution side of the pipeline: engine instances read opportunities *)
(* from a Redis consumer group, deduplicate them with a Redis key, queue   *)
(* them under backpressure, run them under a distributed lock and only     *)
(* then acknowledge the message.                                           *)
(*                                                                         *)
(*   opportunity.consumer.ts   reading, dedup key, deferred XACK, recovery *)
(*   execution-pipeline.ts     dequeue gates, lock, timeout, bookkeeping   *)
(*   queue.service.ts          bounded queue with high/low water marks     *)
(*   distributed-lock.ts       lock with a TTL and an owner-checked release*)
(*   lock-conflict-tracker.ts  force release after repeated conflicts      *)
(*                                                                         *)
(* Every start of an engine uses a new consumer name (its start time is    *)
(* part of it), so an element of Instances is one incarnation: it starts   *)
(* at most once, and "restarting" is another incarnation starting.  Time   *)
(* is a set of saturating timers advanced by Tick.  Which opportunities    *)
(* are expired, malformed, unprofitable, stale or blocked by a chain's     *)
(* circuit breaker is chosen freely at the point where the code asks.      *)
(***************************************************************************)
EXTENDS Naturals, FiniteSets

CONSTANTS
  Instances,          \* incarnations of the execution engine
  Opps,               \* opportunity ids
  Msgs,               \* stream messages
  OppOf,              \* the opportunity a message carries: [Msgs -> Opps]
  ChainOf,            \* the chain an opportunity executes on
  None,               \* "no value": absent key, empty map entry
  MaxConcurrent,      \* maxConcurrentExecutions
  MaxPerChain,        \* maxConcurrentPerChain, 0 for no limit
  QueueMax, HighWater, LowWater,
  MaxCbAttempts,      \* MAX_CB_REENQUEUE_ATTEMPTS
  ConflictThreshold, ConflictWindow, ConflictMinAge,
  ExecTimeout,        \* EXECUTION_TIMEOUT_MS, in ticks
  LockTtl,            \* 2 * EXECUTION_TIMEOUT_MS
  DedupTtl,           \* REDIS_DEDUP_TTL_MS
  PendingMaxAge,      \* pendingMessageMaxAgeMs
  RecoverLimit,       \* entries XPENDING returns at startup
  Mortal, Stoppable,  \* bound: instances that may crash, or be stopped
  MaxFaults           \* bound: Redis commands that may fail in a behaviour

ASSUME RolesAssumption ==
  /\ OppOf \in [Msgs -> Opps]
  /\ None \notin Msgs \cup Opps \cup Instances \cup (Instances \X Msgs)
  /\ IsFiniteSet(Msgs)

ASSUME LimitsAssumption ==
  /\ {MaxConcurrent, MaxPerChain, QueueMax, HighWater, LowWater} \subseteq Nat
  /\ {MaxCbAttempts, ConflictThreshold, ConflictWindow, ConflictMinAge} \subseteq Nat
  /\ {RecoverLimit, MaxFaults} \subseteq Nat

\* EXECUTION_TIMEOUT_MS < 2 * EXECUTION_TIMEOUT_MS; 300 s and 600 s are longer.
ASSUME TimersAssumption ==
  /\ {ExecTimeout, LockTtl, DedupTtl, PendingMaxAge} \subseteq Nat \ {0}
  /\ ExecTimeout < LockTtl

VARIABLES
  \* Redis
  status,      \* status[m]: unread, pending in the group, or why it left it
  owner,       \* owner[m]: consumer whose PEL holds m
  dedup,       \* dedup[o]: time to live of key ee:dedup:<o>, 0 when it is absent
  lock,        \* lock[o]: value of key lock:execution:opportunity:<o>
  lockTtl,
  \* the instances
  inst,        \* lifecycle of the service
  age,         \* age[i][m]: time since m was delivered to i
  phase,       \* phase[i][m]: how far i has got with m
  pending,     \* pending[i][o]: message of o awaiting its deferred XACK
  active,      \* activeExecutions
  paused,      \* backpressure pause of the queue
  cbCount,     \* cbReenqueueCounts
  executed,    \* recentlyExecutedIds
  conflicts,   \* the lock conflict tracker
  stale,       \* consumers recovery is about to delete
  execAge,     \* execAge[i][m]: time since the execution timer was armed
  overrun,     \* strategies still running after their timeout fired
  failed,      \* executions that ended with the timeout's error
  retried,     \* lock attempts that follow a force release
  \* two counters
  staleLockRecoveries,
  faults,
  unacked      \* history: the messages an instance dismissed though their XACK failed

redisVars == <<status, owner, dedup, lock, lockTtl>>
bookVars  == <<pending, active, executed, conflicts, stale>>
queueVars == <<paused, cbCount>>
execVars  == <<execAge, overrun, failed, retried, staleLockRecoveries>>
faultVars == <<faults, unacked>>
vars == <<redisVars, inst, age, phase, bookVars, queueVars, execVars, faultVars>>

Slot(i, m) == <<i, m>>            \* a lock value: unique per acquisition

(* Phases of a message at an instance; "none" when the instance does not    *)
(* hold it, either because it never got it or because it is through with it. *)
InFlightPhases == {"locking", "forcing", "running", "completed", "unlocked", "acking"}
HandlerPhases  == {"rejecting", "repeating", "bouncing", "bounced", "unclaiming"}
Phases == {"none", "fetched", "expired", "queued"} \cup HandlerPhases \cup InFlightPhases

\* Why a message left the pending list; "dropped" is a deleted consumer's.
Settled == {"executed", "duplicate", "repeat", "rejected", "unfit", "dlq", "superseded",
            "stale", "shutdown", "dropped"}

(* Life of an instance: a stop drains ("stopping"), then shuts the consumer      *)
(* ("closing") and the lock manager ("exiting"), then the process ends ("down"). *)
Stages == {"off", "recovering", "running", "stopping", "closing", "exiting", "down"}

RedisTypes ==
  /\ status \in [Msgs -> {"new", "pending"} \cup Settled]
  /\ owner \in [Msgs -> Instances \cup {None}]
  /\ dedup \in [Opps -> 0..DedupTtl]
  /\ lock \in [Opps -> (Instances \X Msgs) \cup {None}]
  /\ lockTtl \in [Opps -> 0..LockTtl]

ServiceTypes ==
  /\ inst \in [Instances -> Stages]
  /\ age \in [Instances -> [Msgs -> 0..PendingMaxAge]]
  /\ phase \in [Instances -> [Msgs -> Phases]]
  /\ pending \in [Instances -> [Opps -> Msgs \cup {None}]]
  /\ active \in [Instances -> SUBSET Opps]
  /\ executed \in [Instances -> SUBSET Opps]
  /\ stale \in [Instances -> SUBSET Instances]

PipelineTypes ==
  /\ paused \in [Instances -> BOOLEAN]
  /\ cbCount \in [Instances -> [Opps -> Nat]]
  /\ conflicts \in [Instances -> [Opps -> [count : Nat, age : 0..ConflictWindow]]]
  /\ execAge \in [Instances -> [Msgs -> 0..ExecTimeout]]
  /\ overrun \in SUBSET (Instances \X Msgs)
  /\ failed \in SUBSET (Instances \X Msgs)
  /\ retried \in SUBSET (Instances \X Msgs)
  /\ staleLockRecoveries \in Nat
  /\ faults \in 0..MaxFaults
  /\ unacked \in SUBSET (Instances \X Msgs)

TypeOK == RedisTypes /\ ServiceTypes /\ PipelineTypes

NoConflict == [count |-> 0, age |-> 0]

\* The messages past have left the group long ago, the instances ended exist no more,
\* and spent commands have failed before anything here was read.
InitAfter(past, ended, spent) ==
  /\ status = [m \in Msgs |-> IF m \in past THEN "executed" ELSE "new"]
  /\ owner = [m \in Msgs |-> None]
  /\ dedup = [o \in Opps |-> 0]
  /\ lock = [o \in Opps |-> None]
  /\ lockTtl = [o \in Opps |-> 0]
  /\ inst = [i \in Instances |-> IF i \in ended THEN "down" ELSE "off"]
  /\ age = [i \in Instances |-> [m \in Msgs |-> 0]]
  /\ phase = [i \in Instances |-> [m \in Msgs |-> "none"]]
  /\ pending = [i \in Instances |-> [o \in Opps |-> None]]
  /\ active = [i \in Instances |-> {}]
  /\ paused = [i \in Instances |-> FALSE]
  /\ cbCount = [i \in Instances |-> [o \in Opps |-> 0]]
  /\ executed = [i \in Instances |-> {}]
  /\ conflicts = [i \in Instances |-> [o \in Opps |-> NoConflict]]
  /\ stale = [i \in Instances |-> {}]
  /\ execAge = [i \in Instances |-> [m \in Msgs |-> 0]]
  /\ overrun = {} /\ failed = {} /\ retried = {}
  /\ staleLockRecoveries = 0
  /\ faults = spent /\ unacked = {}

Init == InitAfter({}, {}, 0)

-----------------------------------------------------------------------------
(* Vocabulary *)

Live(i)  == inst[i] \in {"recovering", "running", "stopping"}
In(i, P) == {m \in Msgs : phase[i][m] \in P}
QueueLen(i) == Cardinality(In(i, {"queued"}))
InFlight(i) == Cardinality(In(i, InFlightPhases))
ChainLoad(i, c) == Cardinality({m \in In(i, InFlightPhases) : ChainOf[OppOf[m]] = c})

\* The handler of one instance awaits its messages one after another.
Handling(i, m) == Live(i) /\ phase[i][m] = "fetched" /\ In(i, HandlerPhases) = {}

\* Messages leave the pending list, with the reason; others are untouched.
Settle(ms, why) ==
  LET gone == {m \in ms \cap Msgs : status[m] = "pending"} IN
  /\ status' = [m \in Msgs |-> IF m \in gone THEN why ELSE status[m]]
  /\ owner' = [m \in Msgs |-> IF m \in gone THEN None ELSE owner[m]]

\* updateBackpressure: hysteresis between the water marks.
Backpressure(wasPaused, len) ==
  \/ wasPaused /\ len > LowWater
  \/ ~wasPaused /\ len >= HighWater
CanEnqueue(p, len) == ~p /\ len < QueueMax

SetPhase(i, m, p) == phase' = [phase EXCEPT ![i][m] = p]

\* A command that fails has had no effect, and the code goes on without it.  When it
\* is the XACK of messages that i has done with, nothing in i remembers them.
FaultAbout(i, ms) ==
  /\ faults < MaxFaults
  /\ faults' = faults + 1
  /\ unacked' = unacked \cup {Slot(i, m) : m \in ms}
Fault == faults < MaxFaults /\ faults' = faults + 1 /\ UNCHANGED unacked

\* setNx on the dedup key: won, or failed open because Redis did not answer.
WinDedup(o) == dedup[o] = 0 /\ dedup' = [dedup EXCEPT ![o] = DedupTtl]
ClaimDedup(o) ==
  \/ WinDedup(o) /\ UNCHANGED faultVars
  \/ Fault /\ UNCHANGED dedup

\* deleteKey on it, whoever set it; the call is not awaited.
DeleteDedup(o) ==
  \/ dedup' = [dedup EXCEPT ![o] = 0] /\ UNCHANGED faultVars
  \/ Fault /\ UNCHANGED dedup

\* ackMessage: when the XACK fails the message just stays in the pending list.
AckNow(i, m, why) ==
  \/ Settle({m}, why) /\ UNCHANGED faultVars
  \/ FaultAbout(i, {m}) /\ UNCHANGED <<status, owner>>

-----------------------------------------------------------------------------
(* Reading the stream: the consumer polls unless the queue has paused it or the  *)
(* handler is at a message.  The messages of one reply are fetched one by one.   *)

Fetch(i, m) ==
  /\ inst[i] \in {"running", "stopping"}
  /\ ~paused[i]
  /\ In(i, HandlerPhases \cup {"expired"}) = {}
  /\ status[m] = "new"
  /\ status' = [status EXCEPT ![m] = "pending"]
  /\ owner' = [owner EXCEPT ![m] = i]
  /\ age' = [age EXCEPT ![i][m] = 0]
  /\ SetPhase(i, m, "fetched")
  /\ UNCHANGED <<dedup, lock, lockTtl, inst, bookVars, queueVars, execVars, faultVars>>

\* The batch handler puts a message that has expired aside.
SetAside(i, m) ==
  /\ Handling(i, m)
  /\ inst[i] # "recovering"
  /\ SetPhase(i, m, "expired")
  /\ UNCHANGED <<redisVars, inst, age, bookVars, queueVars, execVars, faultVars>>

\* Behind the last message of the reply those put aside are acknowledged together,
\* by one XACK or, when they are many, by one pipeline, of which any part may fail.
AckExpired(i) ==
  LET aside == In(i, {"expired"}) IN
  /\ Live(i)
  /\ aside # {} /\ In(i, HandlerPhases \cup {"fetched"}) = {}
  /\ \/ Settle(aside, "unfit") /\ UNCHANGED faultVars
     \/ \E left \in SUBSET aside \ {{}} :
          FaultAbout(i, left) /\ Settle(aside \ left, "unfit")
  /\ phase' = [phase EXCEPT ![i] = [m \in Msgs |-> IF m \in aside THEN "none" ELSE @[m]]]
  /\ UNCHANGED <<dedup, lock, lockTtl, inst, age, bookVars, queueVars, execVars>>

\* Malformed, a system message, or expired when recovery or the handler of the single
\* message looks: acknowledged at once.
RefuseUnfit(i, m) ==
  /\ Handling(i, m)
  /\ AckNow(i, m, "unfit")
  /\ SetPhase(i, m, "none")
  /\ UNCHANGED <<dedup, lock, lockTtl, inst, age, bookVars, queueVars, execVars>>

\* The dedup key exists: another instance, or an earlier one, has claimed it.
RefuseClaimed(i, m) ==
  /\ Handling(i, m)
  /\ dedup[OppOf[m]] > 0
  /\ AckNow(i, m, "duplicate")
  /\ SetPhase(i, m, "none")
  /\ UNCHANGED <<dedup, lock, lockTtl, inst, age, bookVars, queueVars, execVars>>

\* The key is won but the opportunity is not taken: refused by the business rules
\* or the content hash ("rejecting"), already queued or executing in this instance
\* ("repeating"), or refused by the queue ("bouncing").
Refuse(i, m) ==
  /\ Handling(i, m)
  /\ ClaimDedup(OppOf[m])
  /\ \/ SetPhase(i, m, "rejecting")
     \/ OppOf[m] \in active[i] /\ SetPhase(i, m, "repeating")
     \/ /\ OppOf[m] \notin active[i]
        /\ ~CanEnqueue(paused[i], QueueLen(i))
        /\ SetPhase(i, m, "bouncing")
  /\ UNCHANGED <<status, owner, lock, lockTtl, inst, age, bookVars, queueVars, execVars>>

\* Variant: a refused message is not acknowledged.
FinishRefuseUnacked(i, m) ==
  /\ Live(i)
  /\ phase[i][m] \in {"rejecting", "repeating", "bounced"}
  /\ SetPhase(i, m, "unclaiming")
  /\ UNCHANGED <<redisVars, inst, age, bookVars, queueVars, execVars, faultVars>>

\* The message is acknowledged, a bounced one after its DLQ entry is written.
FinishRefuse(i, m) ==
  /\ Live(i)
  /\ \/ phase[i][m] = "rejecting" /\ AckNow(i, m, "rejected")
     \/ phase[i][m] = "repeating" /\ AckNow(i, m, "repeat")
     \/ phase[i][m] = "bounced" /\ AckNow(i, m, "dlq")
  /\ SetPhase(i, m, "unclaiming")
  /\ UNCHANGED <<dedup, lock, lockTtl, inst, age, bookVars, queueVars, execVars>>

\* The key is given back: after the XACK of a refused message, and for one the
\* queue refused a first time before its DLQ entry is written.
Unclaim(i, m) ==
  /\ Live(i)
  /\ \/ phase[i][m] = "bouncing" /\ SetPhase(i, m, "bounced")
     \/ phase[i][m] = "unclaiming" /\ SetPhase(i, m, "none")
  /\ DeleteDedup(OppOf[m])
  /\ UNCHANGED <<status, owner, lock, lockTtl, inst, age, bookVars, queueVars, execVars>>

\* Marked active and enqueued; the message of an earlier entry is acknowledged.
Accept(i, m) ==
  LET o == OppOf[m] IN
  /\ Handling(i, m)
  /\ o \notin active[i]
  /\ CanEnqueue(paused[i], QueueLen(i))
  /\ \/ ClaimDedup(o) /\ Settle({pending[i][o]}, "superseded")
     \/ /\ pending[i][o] # None /\ WinDedup(o)
        /\ FaultAbout(i, {pending[i][o]}) /\ UNCHANGED <<status, owner>>
  /\ active' = [active EXCEPT ![i] = @ \cup {o}]
  /\ paused' = [paused EXCEPT ![i] = Backpressure(@, QueueLen(i) + 1)]
  /\ SetPhase(i, m, "queued")
  /\ pending' = [pending EXCEPT ![i][o] = m]
  /\ UNCHANGED <<lock, lockTtl, inst, age, cbCount, executed, conflicts,
                 stale, execVars>>

\* The queue signals synchronously, so with a free slot the pipeline meets the
\* opportunity inside enqueue.  If this instance has executed it before, the
\* pipeline acknowledges the entry it finds, which is the one of an earlier
\* message or none: the entry of m is stored only when enqueue has returned.  (The
\* handler acknowledges that earlier message as well, so one XACK may fail.)
AcceptAndSkip(i, m) ==
  LET o == OppOf[m] IN
  /\ Handling(i, m)
  /\ inst[i] = "running"
  /\ o \notin active[i]
  /\ o \in executed[i]
  /\ QueueLen(i) = 0 /\ CanEnqueue(paused[i], 0)
  /\ ~Backpressure(paused[i], 1)
  /\ InFlight(i) < MaxConcurrent
  /\ MaxPerChain > 0 => ChainLoad(i, ChainOf[o]) < MaxPerChain
  /\ \/ ClaimDedup(o) /\ SetPhase(i, m, IF pending[i][o] = None THEN "none" ELSE "acking")
     \/ pending[i][o] # None /\ WinDedup(o) /\ Fault /\ SetPhase(i, m, "none")
  /\ active' = [active EXCEPT ![i] = @ \cup {o}]
  /\ cbCount' = [cbCount EXCEPT ![i][o] = 0]
  /\ Settle({pending[i][o]}, "executed")
  /\ pending' = [pending EXCEPT ![i][o] = m]
  /\ UNCHANGED <<lock, lockTtl, inst, age, paused, executed, conflicts,
                 stale, execVars>>

-----------------------------------------------------------------------------
(* processQueueItems: one iteration of its loop takes one opportunity out.  *)

Dequeues(i, m) ==
  /\ inst[i] = "running"
  /\ phase[i][m] = "queued"
  /\ InFlight(i) < MaxConcurrent

\* Variant: dequeue does not look at the water marks.
PausedAsBefore(i) == paused[i]
PausedAfterDequeue(i) == Backpressure(paused[i], QueueLen(i) - 1)
ChainIsFull(i, o) == MaxPerChain > 0 /\ ChainLoad(i, ChainOf[o]) >= MaxPerChain

\* enqueue again what was just taken out; its result is not looked at.
PutBack(i, m) ==
  IF CanEnqueue(PausedAfterDequeue(i), QueueLen(i) - 1)
  THEN /\ paused' = [paused EXCEPT ![i] = Backpressure(PausedAfterDequeue(i), QueueLen(i))]
       /\ UNCHANGED phase
  ELSE /\ paused' = [paused EXCEPT ![i] = PausedAfterDequeue(i)]
       /\ SetPhase(i, m, "none")

\* The breaker of the chain is open: back into the queue, or given up on.
BlockedByBreaker(i, m) ==
  LET attempts == cbCount[i][OppOf[m]] + 1 IN
  /\ Dequeues(i, m)
  /\ \/ /\ attempts >= MaxCbAttempts
        /\ cbCount' = [cbCount EXCEPT ![i][OppOf[m]] = 0]
        /\ SetPhase(i, m, "none")
        /\ paused' = [paused EXCEPT ![i] = PausedAfterDequeue(i)]
     \/ /\ attempts < MaxCbAttempts
        /\ cbCount' = [cbCount EXCEPT ![i][OppOf[m]] = attempts]
        /\ PutBack(i, m)
  /\ UNCHANGED <<redisVars, inst, age, bookVars, execVars, faultVars>>

\* The chain has all the executions it may have.
BlockedByChain(i, m) ==
  /\ Dequeues(i, m)
  /\ ChainIsFull(i, OppOf[m])
  /\ cbCount' = [cbCount EXCEPT ![i][OppOf[m]] = 0]
  /\ PutBack(i, m)
  /\ UNCHANGED <<redisVars, inst, age, bookVars, execVars, faultVars>>

\* ackMessageAfterExecution up to its XACK: the entry is deleted on the reply.
\* A failed XACK leaves the entry for the stale cleanup.
AckAfterExecution(i, m) ==
  LET p == pending[i][OppOf[m]] IN
  \/ p = None /\ SetPhase(i, m, "none") /\ UNCHANGED <<status, owner, faultVars>>
  \/ p # None /\ SetPhase(i, m, "acking") /\ Settle({p}, "executed") /\ UNCHANGED faultVars
  \/ p # None /\ SetPhase(i, m, "none") /\ Fault /\ UNCHANGED <<status, owner>>

Leaves(i, m) ==
  /\ Dequeues(i, m)
  /\ ~ChainIsFull(i, OppOf[m])
  /\ cbCount' = [cbCount EXCEPT ![i][OppOf[m]] = 0]
  /\ paused' = [paused EXCEPT ![i] = PausedAfterDequeue(i)]

Dispatch(i, m) ==
  /\ Leaves(i, m)
  /\ OppOf[m] \notin executed[i]
  /\ SetPhase(i, m, "locking")
  /\ UNCHANGED <<redisVars, inst, age, bookVars, execVars, faultVars>>

\* Executed before by this instance: acknowledge and forget, no markComplete.
SkipExecuted(i, m) ==
  /\ Leaves(i, m)
  /\ OppOf[m] \in executed[i]
  /\ AckAfterExecution(i, m)
  /\ UNCHANGED <<dedup, lock, lockTtl, inst, age, bookVars, execVars>>

-----------------------------------------------------------------------------
(* executeOpportunityWithLock *)

\* Variant: a lock that lasts no longer than the execution timeout.
ShortLockTtl == ExecTimeout
TtlOfLock == LockTtl

\* setNx on the lock key; the strategy and its timer start, markActive.
AcquireLock(i, m) ==
  LET o == OppOf[m] IN
  /\ phase[i][m] = "locking"
  /\ lock[o] = None
  /\ lock' = [lock EXCEPT ![o] = Slot(i, m)]
  /\ lockTtl' = [lockTtl EXCEPT ![o] = TtlOfLock]
  /\ execAge' = [execAge EXCEPT ![i][m] = 0]
  /\ active' = [active EXCEPT ![i] = @ \cup {o}]
  /\ SetPhase(i, m, "running")
  /\ UNCHANGED <<status, owner, dedup, inst, age, pending, executed, conflicts, stale,
                 queueVars, overrun, failed, retried, staleLockRecoveries, faultVars>>

\* Variant: a count that is kept however long ago its first conflict was.
KeptForEver(c) == IF c.count > 0 THEN [c EXCEPT !.age = @ + 1] ELSE NoConflict
\* recordConflict: conflicts within the window of the first one are counted, and the
\* count starts again when the window has passed.
Aged(c) == IF c.count > 0 /\ c.age < ConflictWindow
           THEN [c EXCEPT !.age = @ + 1] ELSE NoConflict
Counted(c) == [c EXCEPT !.count = @ + 1]
ShouldForceRelease(c) ==
  /\ c.count > 0
  /\ c.count + 1 >= ConflictThreshold
  /\ c.age >= ConflictMinAge

\* Somebody holds the lock.  The message is left pending, neither acknowledged
\* nor marked complete, unless the holder looks crashed.
LockConflict(i, m) ==
  LET c == conflicts[i][OppOf[m]] IN
  /\ phase[i][m] = "locking"
  /\ lock[OppOf[m]] # None
  /\ \/ /\ Slot(i, m) \notin retried
        /\ conflicts' = [conflicts EXCEPT ![i][OppOf[m]] = Counted(c)]
        /\ SetPhase(i, m, IF ShouldForceRelease(c) THEN "forcing" ELSE "none")
        /\ UNCHANGED retried
     \/ /\ Slot(i, m) \in retried
        /\ retried' = retried \ {Slot(i, m)}
        /\ SetPhase(i, m, "none")
        /\ UNCHANGED conflicts
  /\ UNCHANGED <<redisVars, inst, age, pending, active, executed, stale, queueVars,
                 execAge, overrun, failed, staleLockRecoveries, faultVars>>

\* forceRelease deletes the key, whoever owns it by now, and the lock is tried
\* once more.  If the key has gone meanwhile, or Redis fails, the message is skipped.
ForceRelease(i, m) ==
  LET o == OppOf[m] IN
  /\ phase[i][m] = "forcing"
  /\ \/ /\ lock[o] # None
        /\ lock' = [lock EXCEPT ![o] = None]
        /\ lockTtl' = [lockTtl EXCEPT ![o] = 0]
        /\ staleLockRecoveries' = staleLockRecoveries + 1
        /\ conflicts' = [conflicts EXCEPT ![i][o] = NoConflict]
        /\ retried' = retried \cup {Slot(i, m)}
        /\ SetPhase(i, m, "locking")
        /\ UNCHANGED faultVars
     \/ /\ \/ lock[o] = None /\ UNCHANGED faultVars
           \/ Fault
        /\ SetPhase(i, m, "none")
        /\ UNCHANGED <<lock, lockTtl, staleLockRecoveries, conflicts, retried>>
  /\ UNCHANGED <<status, owner, dedup, inst, age, pending, active, executed, stale,
                 queueVars, execAge, overrun, failed>>

\* redis_error: nothing is executed and nothing acknowledged.
LockUnavailable(i, m) ==
  /\ phase[i][m] = "locking"
  /\ Fault
  /\ SetPhase(i, m, "none")
  /\ retried' = retried \ {Slot(i, m)}
  /\ UNCHANGED <<redisVars, inst, age, bookVars, queueVars, execAge, overrun, failed,
                 staleLockRecoveries>>

\* markComplete: forget the id and delete the dedup key.
MarkComplete(i, o) ==
  /\ active' = [active EXCEPT ![i] = @ \ {o}]
  /\ DeleteDedup(o)

\* The strategy returns: it has traded, or risk management skipped the trade.
Finish(i, m) ==
  /\ phase[i][m] = "running"
  /\ MarkComplete(i, OppOf[m])
  /\ SetPhase(i, m, "completed")
  /\ UNCHANGED <<status, owner, lock, lockTtl, inst, age, pending, executed, conflicts,
                 stale, queueVars, execVars>>

\* A pre-simulated opportunity found stale: returns before the try that ends in
\* markComplete.
FinishStale(i, m) ==
  /\ phase[i][m] = "running"
  /\ SetPhase(i, m, "completed")
  /\ UNCHANGED <<redisVars, inst, age, bookVars, queueVars, execVars, faultVars>>

\* Variant: executions without a timer.
NeverTimedOut(i, m) == FALSE
TimedOut(i, m) == phase[i][m] = "running" /\ execAge[i][m] = ExecTimeout

\* The timeout wins the race; nothing cancels the strategy.
TimeOut(i, m) ==
  /\ TimedOut(i, m)
  /\ overrun' = overrun \cup {Slot(i, m)}
  /\ failed' = failed \cup {Slot(i, m)}
  /\ SetPhase(i, m, "completed")
  /\ UNCHANGED <<redisVars, inst, age, bookVars, queueVars, execAge, retried,
                 staleLockRecoveries, faultVars>>

\* A strategy that outlived its timeout returns at last.
FinishLate(i, m) ==
  /\ Slot(i, m) \in overrun
  /\ overrun' = overrun \ {Slot(i, m)}
  /\ MarkComplete(i, OppOf[m])
  /\ UNCHANGED <<status, owner, lock, lockTtl, inst, age, phase, pending, executed,
                 conflicts, stale, queueVars, execAge, failed, retried,
                 staleLockRecoveries>>

\* releaseLock: compare-and-delete.  On an error the key is left to its TTL.
ReleaseLock(i, m) ==
  /\ phase[i][m] = "completed"
  /\ \/ /\ IF lock[OppOf[m]] = Slot(i, m)
           THEN /\ lock' = [lock EXCEPT ![OppOf[m]] = None]
                /\ lockTtl' = [lockTtl EXCEPT ![OppOf[m]] = 0]
           ELSE UNCHANGED <<lock, lockTtl>>
        /\ UNCHANGED faultVars
     \/ Fault /\ UNCHANGED <<lock, lockTtl>>
  /\ SetPhase(i, m, "unlocked")
  /\ UNCHANGED <<status, owner, dedup, inst, age, bookVars, queueVars, execVars>>

\* The reply of the release: remember the id, send the deferred XACK.  Only a
\* first attempt that succeeded clears the conflicts, and a second attempt that
\* failed is not remembered.
RecordExecuted(i, m) ==
  LET o == OppOf[m]
      erred  == Slot(i, m) \in failed
      second == Slot(i, m) \in retried IN
  /\ phase[i][m] = "unlocked"
  /\ executed' = [executed EXCEPT ![i] = IF erred /\ second THEN @ ELSE @ \cup {o}]
  /\ conflicts' = IF erred \/ second THEN conflicts
                  ELSE [conflicts EXCEPT ![i][o] = NoConflict]
  /\ failed' = failed \ {Slot(i, m)}
  /\ retried' = retried \ {Slot(i, m)}
  /\ AckAfterExecution(i, m)
  /\ UNCHANGED <<dedup, lock, lockTtl, inst, age, pending, active, stale, queueVars,
                 execAge, overrun, staleLockRecoveries>>

\* The reply of the XACK: the entry of the opportunity is deleted, whichever
\* message it is for by now.
AckReply(i, m) ==
  /\ phase[i][m] = "acking"
  /\ pending' = [pending EXCEPT ![i][OppOf[m]] = None]
  /\ SetPhase(i, m, "none")
  /\ UNCHANGED <<redisVars, inst, age, active, executed, conflicts, stale, queueVars,
                 execVars, faultVars>>

\* Variant: the cleanup spares ids the instance believes to be executing.
IsStaleAndIdle(i, o) ==
  /\ pending[i][o] # None
  /\ age[i][pending[i][o]] = PendingMaxAge
  /\ o \notin active[i]
IsStale(i, o) ==
  /\ pending[i][o] # None
  /\ age[i][pending[i][o]] = PendingMaxAge

\* The interval of the health monitor gives up on entries that are too old.
CleanupStale(i, o) ==
  /\ inst[i] = "running"
  /\ IsStale(i, o)
  /\ Settle({pending[i][o]}, "stale")
  /\ pending' = [pending EXCEPT ![i][o] = None]
  /\ active' = [active EXCEPT ![i] = @ \ {o}]
  /\ UNCHANGED <<dedup, lock, lockTtl, inst, age, phase, executed,
                 conflicts, stale, queueVars, execVars, faultVars>>

-----------------------------------------------------------------------------
(* Lifecycle *)

IdleIn(m) == IF owner[m] = None THEN 0 ELSE age[owner[m]][m]
PendingMsgs == {m \in Msgs : status[m] = "pending"}

\* Variant: whatever XPENDING returns is taken over, however fresh.
AnyPending(scanned) == scanned
Orphans(scanned) == {m \in scanned : IdleIn(m) >= PendingMaxAge}

\* recoverOrphanedMessages up to XCLAIM: of the entries XPENDING returns, those
\* idle for long enough are taken over from the consumers that had them.
Recover(i, scanned) ==
  LET orphans == Orphans(scanned) IN
  /\ scanned = PendingMsgs \/ Cardinality(scanned) = RecoverLimit
  /\ Cardinality(scanned) <= RecoverLimit
  /\ owner' = [m \in Msgs |-> IF m \in orphans THEN i ELSE owner[m]]
  /\ phase' = [phase EXCEPT ![i] =
                 [m \in Msgs |-> IF m \in orphans THEN "fetched" ELSE "none"]]
  /\ stale' = [stale EXCEPT ![i] = {owner[m] : m \in orphans}]
  /\ inst' = [inst EXCEPT ![i] = IF orphans = {} THEN "running" ELSE "recovering"]

\* When the recovery fails the instance runs without it.
Start(i) ==
  /\ inst[i] = "off"
  /\ \/ /\ \E scanned \in SUBSET PendingMsgs : Recover(i, scanned)
        /\ UNCHANGED faultVars
     \/ /\ Fault
        /\ inst' = [inst EXCEPT ![i] = "running"]
        /\ UNCHANGED <<owner, phase, stale>>
  /\ UNCHANGED <<status, dedup, lock, lockTtl, age, pending, active,
                 executed, conflicts, queueVars, execVars>>

\* All claimed messages are handled: XGROUP DELCONSUMER removes each stale
\* consumer together with whatever its pending list still holds.
EndRecovery(i) ==
  /\ inst[i] = "recovering"
  /\ In(i, HandlerPhases \cup {"fetched"}) = {}
  /\ \/ Settle({m \in Msgs : owner[m] \in stale[i]}, "dropped") /\ UNCHANGED faultVars
     \/ Fault /\ UNCHANGED <<status, owner>>
  /\ stale' = [stale EXCEPT ![i] = {}]
  /\ inst' = [inst EXCEPT ![i] = "running"]
  /\ UNCHANGED <<dedup, lock, lockTtl, age, phase, pending, active,
                 executed, conflicts, queueVars, execVars>>

\* The memory of the process is gone; Redis and the chain remain.
Forget(i) ==
  /\ inst' = [inst EXCEPT ![i] = "down"]
  /\ phase' = [phase EXCEPT ![i] = [m \in Msgs |-> "none"]]
  /\ pending' = [pending EXCEPT ![i] = [o \in Opps |-> None]]
  /\ active' = [active EXCEPT ![i] = {}]
  /\ paused' = [paused EXCEPT ![i] = FALSE]
  /\ cbCount' = [cbCount EXCEPT ![i] = [o \in Opps |-> 0]]
  /\ executed' = [executed EXCEPT ![i] = {}]
  /\ conflicts' = [conflicts EXCEPT ![i] = [o \in Opps |-> NoConflict]]
  /\ stale' = [stale EXCEPT ![i] = {}]
  /\ execAge' = [execAge EXCEPT ![i] = [m \in Msgs |-> 0]]
  /\ overrun' = {s \in overrun : s[1] # i}
  /\ failed' = {s \in failed : s[1] # i}
  /\ retried' = {s \in retried : s[1] # i}
  /\ UNCHANGED <<dedup, lock, lockTtl, age,
                 staleLockRecoveries, faultVars>>

Crash(i) == i \in Mortal /\ Live(i) /\ Forget(i) /\ UNCHANGED <<status, owner>>

\* Nothing is dequeued any more, while executions drain.
BeginStop(i) ==
  /\ i \in Stoppable
  /\ inst[i] = "running"
  /\ inst' = [inst EXCEPT ![i] = "stopping"]
  /\ UNCHANGED <<redisVars, age, phase, bookVars, queueVars, execVars, faultVars>>

\* Variant: a stopping consumer acknowledges all it has.
AllPending(i) == {pending[i][o] : o \in Opps}
NotExecuting(i) == {pending[i][o] : o \in Opps \ active[i]}

\* Drained, or the drain timeout has passed: the consumer sees the batch it is at
\* through and acknowledges pending messages that are not active.  The queue is
\* not processed any more.  Executions that were not drained go on.
FinishStop(i) ==
  /\ inst[i] = "stopping"
  /\ In(i, HandlerPhases \cup {"fetched", "expired"}) = {}
  /\ \/ Settle(NotExecuting(i), "shutdown") /\ UNCHANGED faultVars
     \/ Fault /\ UNCHANGED <<status, owner>>
  /\ inst' = [inst EXCEPT ![i] = "closing"]
  /\ phase' = [phase EXCEPT ![i] =
                 [m \in Msgs |-> IF @[m] = "queued" THEN "none" ELSE @[m]]]
  /\ pending' = [pending EXCEPT ![i] = [o \in Opps |-> None]]
  /\ active' = [active EXCEPT ![i] = {}]
  /\ paused' = [paused EXCEPT ![i] = FALSE]
  /\ UNCHANGED <<dedup, lock, lockTtl, age, cbCount, executed, conflicts, stale, execVars>>

\* The lock manager releases every lock it holds, those of executions under way
\* included.
HeldLocks(i) ==
  {o \in Opps : \E m \in In(i, {"running", "completed"}) : lock[o] = Slot(i, m)}
ShutDownLocks(i) ==
  /\ inst[i] = "closing"
  /\ inst' = [inst EXCEPT ![i] = "exiting"]
  /\ \/ /\ lock' = [o \in Opps |-> IF o \in HeldLocks(i) THEN None ELSE lock[o]]
        /\ lockTtl' = [o \in Opps |-> IF o \in HeldLocks(i) THEN 0 ELSE lockTtl[o]]
        /\ UNCHANGED faultVars
     \/ Fault /\ UNCHANGED <<lock, lockTtl>>
  /\ UNCHANGED <<status, owner, dedup, age, phase, bookVars, queueVars, execVars>>

\* The stop is through, or has taken longer than the forced-exit timer allows.
Exit(i) ==
  /\ inst[i] \in {"stopping", "closing", "exiting"}
  /\ Forget(i)
  /\ UNCHANGED <<status, owner>>

Countdown(t) == IF t > 0 THEN t - 1 ELSE 0

Older(a, bound) == IF a < bound THEN a + 1 ELSE bound
Tracked(i, m) == (status[m] = "pending" /\ owner[m] = i) \/ pending[i][OppOf[m]] = m

\* One unit of time, some tens of seconds.  Redis round trips take none of it,
\* and the execution timer fires on time, so time cannot pass it.
Tick ==
  /\ \A i \in Instances, m \in Msgs :
       /\ phase[i][m] \in {"none", "queued", "running"}
       /\ phase[i][m] = "running" => execAge[i][m] < ExecTimeout
  /\ age' = [i \in Instances |-> [m \in Msgs |->
       IF Tracked(i, m) THEN Older(age[i][m], PendingMaxAge) ELSE 0]]
  /\ execAge' = [i \in Instances |-> [m \in Msgs |->
       IF phase[i][m] = "running" THEN execAge[i][m] + 1 ELSE 0]]
  /\ dedup' = [o \in Opps |-> Countdown(dedup[o])]
  /\ lockTtl' = [o \in Opps |-> Countdown(lockTtl[o])]
  /\ lock' = [o \in Opps |-> IF lockTtl[o] <= 1 THEN None ELSE lock[o]]
  /\ conflicts' = [i \in Instances |-> [o \in Opps |-> Aged(conflicts[i][o])]]
  /\ UNCHANGED <<status, owner, inst, phase, pending, active, executed, stale,
                 queueVars, overrun, failed, retried, staleLockRecoveries, faultVars>>

-----------------------------------------------------------------------------

Handler(i, m) ==
  \/ SetAside(i, m)     \/ RefuseUnfit(i, m)
  \/ RefuseClaimed(i, m) \/ Refuse(i, m)
  \/ FinishRefuse(i, m) \/ Unclaim(i, m)
  \/ Accept(i, m)       \/ AcceptAndSkip(i, m)

Pipeline(i, m) ==
  \/ BlockedByBreaker(i, m) \/ BlockedByChain(i, m)
  \/ Dispatch(i, m)         \/ SkipExecuted(i, m)
  \/ AcquireLock(i, m)      \/ LockConflict(i, m)
  \/ ForceRelease(i, m)     \/ LockUnavailable(i, m)

Replied(i, m) ==
  \/ TimeOut(i, m)        \/ ReleaseLock(i, m)
  \/ RecordExecuted(i, m) \/ AckReply(i, m)

Execution(i, m) ==
  \/ Finish(i, m)     \/ FinishStale(i, m)
  \/ FinishLate(i, m) \/ Replied(i, m)

Lifecycle(i) ==
  \/ Start(i) \/ EndRecovery(i) \/ Crash(i) \/ BeginStop(i)
  \/ FinishStop(i) \/ ShutDownLocks(i) \/ Exit(i)

Next ==
  \/ \E i \in Instances, m \in Msgs :
       Fetch(i, m) \/ Handler(i, m) \/ Pipeline(i, m) \/ Execution(i, m)
  \/ \E i \in Instances, o \in Opps : CleanupStale(i, o)
  \/ \E i \in Instances : AckExpired(i) \/ Lifecycle(i)
  \/ Tick

Spec == Init /\ [][Next]_vars

\* An instance that is up reads, handles, dispatches and gets its replies, and its
\* timers fire.  A strategy need not return: its timeout ends the execution.
Fairness ==
  /\ \A i \in Instances :
       /\ WF_vars(\E m \in Msgs : Fetch(i, m))
       /\ WF_vars(\E m \in Msgs : Handler(i, m))
       /\ WF_vars(AckExpired(i))
       /\ WF_vars(\E m \in Msgs : Replied(i, m))
       /\ WF_vars(EndRecovery(i))
  /\ \A i \in Instances, m \in Msgs : WF_vars(Pipeline(i, m))
  /\ \A i \in Instances, o \in Opps : WF_vars(CleanupStale(i, o))
  /\ WF_vars(Tick)

FairSpec == Spec /\ Fairness

-----------------------------------------------------------------------------
(* Properties *)

Running == {s \in Instances \X Msgs : phase[s[1]][s[2]] = "running"}
Exclusive(slots) == \A s, t \in slots : OppOf[s[2]] = OppOf[t[2]] => s = t

\* The lock keeps executions of one opportunity apart, across instances, while
\* their timers run, unless it was taken from a holder by force or the holder's
\* instance, about to exit, has shut its lock manager down.
ExclusiveUnlessForced ==
  staleLockRecoveries = 0 => Exclusive({s \in Running : inst[s[1]] # "exiting"})

\* The lock keeps executions of one opportunity apart, also while an instance stops.
ExclusiveWhileStopping == staleLockRecoveries = 0 => Exclusive(Running)

(* What all of this implements.  A request is settled however its message  *)
(* leaves the pending list; an execution counts while its timer runs, up   *)
(* to the moment its instance, about to exit, shuts its lock manager down. *)
Ledger == INSTANCE OpportunityLedger WITH
  Requests <- Msgs, TradeOf <- OppOf, Workers <- Instances,
  entry <- [m \in Msgs |-> IF status[m] = "new" THEN "waiting"
                           ELSE IF status[m] = "pending" THEN "delivered"
                           ELSE "settled"],
  executing <- {s \in Running : inst[s[1]] # "exiting"},
  revoked <- staleLockRecoveries

\* The engines together keep the promise of the ledger: no crash, recovery, expired
\* key or timeout settles a request twice, brings a settled one back, executes one
\* that was never delivered, or starts a trade beside its like.
KeepsLedger == Ledger!LedgerSpec

\* The dedup key alone never refuses every message of an opportunity: behind a
\* message it refused there is a sibling that was, or will be, decided otherwise.
KeyNeverRefusesAll ==
  \A m \in Msgs : status[m] = "duplicate" =>
    \E n \in Msgs : OppOf[n] = OppOf[m] /\ status[n] \notin {"new", "duplicate"}

\* A message acknowledged as executed, or by a stopping instance, was run to its
\* end by some instance.
AckOnlyAfterExecution ==
  [][\A m \in Msgs :
       status[m] = "pending" /\ status[m]' \in {"executed", "shutdown"} =>
         \E i \in Instances : \/ phase[i][m] \in {"completed", "unlocked"}
                              \/ OppOf[m] \in executed[i]]_vars

\* Where each message carries an opportunity of its own, a live instance loses track
\* of a pending entry only when the XACK by which it dismissed that entry failed:
\* neither a crash elsewhere, nor a takeover, the queue or a lock that is not to be
\* had makes it forget one that it has accepted.
Untracked == {s \in Instances \X Msgs :
  /\ Live(s[1]) /\ status[s[2]] = "pending" /\ owner[s[2]] = s[1]
  /\ phase[s[1]][s[2]] = "none" /\ pending[s[1]][OppOf[s[2]]] # s[2]}
NoOrphanedEntry == Untracked \subseteq unacked

\* The consumer is paused only while the queue holds more than the low water
\* mark, so that taking items out resumes it.
PausedHasBacklog ==
  \A i \in Instances : paused[i] => QueueLen(i) > LowWater

\* No entry is removed from the group without having been acknowledged.
NoEntryDropped == \A m \in Msgs : status[m] # "dropped"

\* No opportunity is started again once a message of it has been acknowledged as
\* executed.
NoReexecution ==
  [][\A i \in Instances, m \in Msgs :
       phase[i][m] # "running" /\ phase[i][m]' = "running" =>
         \A n \in Msgs : OppOf[n] = OppOf[m] => status[n] # "executed"]_vars

\* An id the instance holds as executing has a message it still works on.
ActiveIsAccountedFor ==
  \A i \in Instances : \A o \in active[i] :
    pending[i][o] # None \/ \E m \in Msgs :
      OppOf[m] = o /\ (phase[i][m] # "none" \/ Slot(i, m) \in overrun)

\* Progress, while an instance stays up.  A message it has read is not pending for
\* ever, at the latest the cleanup of stale entries settles it, whichever commands
\* fail and whoever holds the lock; unless a recovering instance takes it away or the
\* instance has lost track of it (NoOrphanedEntry says when it may).  Messages are
\* finite in number and each is read and queued by an instance once: here and below,
\* that none is left again and again says that none stays for ever.
EveryMessageSettles ==
  \A i \in Instances :
    []<>~\E m \in Msgs : /\ inst[i] = "running" /\ status[m] = "pending"
                         /\ owner[m] = i /\ Slot(i, m) \notin Untracked

\* What is queued is taken out: slots and water marks never block the queue for good.
QueueDrains ==
  \A i \in Instances :
    []<>~(inst[i] = "running" /\ In(i, {"queued"}) # {})

\* A consumer paused by backpressure reads again.
ReadingResumes ==
  \A i \in Instances : []<>~(inst[i] = "running" /\ paused[i])
=============================================================================
