# Arbitrage system: TLA+ specifications and proofs

This directory specifies the protocol core of the arbitrage system in TLA+: how
an opportunity that a detector has published is handed from stream to stream,
deduplicated, queued, locked, executed and acknowledged, and what is left when
processes crash, commands to Redis fail and timers fire. TLC checks the
specifications on small instances, TLAPS proves the theorems for every value of
the constants. `PROJECT.json` maps each definition to the lines it models.

| File | What it holds |
|---|---|
| `OpportunityExecution.tla` | the execution side: consumer, queue, pipeline, lock, recovery |
| `OpportunityLedger.tla` | what the execution side promises; `OpportunityExecution` implements it |
| `MCOpportunityExecution.tla`, `OE_*.cfg` | their small instances for TLC |
| `OpportunityExecution_proofs.tla`, `EngineProofs.tla` | type correctness and mutual exclusion; backpressure, the refinement, the dedup key, tracking and acknowledgement |
| `LeaderElection.tla` | the coordinator's lease, heartbeat and standby activation |
| `MCLeaderElection.tla`, `LE_*.cfg`, `LeaderElection_proofs.tla` | its small instances; one leader, and the timing it depends on |
| `CoordinatorForwarding.tla`, `ForwardingProofs.tla` | the coordinator between two streams: batches, retries, dead letters, drain |
| `StreamPolling.tla`, `IntakeProofs.tla` | the poll loop of a stream consumer |
| `ChainCircuit.tla`, `IntakeProofs.tla` | the circuit breaker of a chain and its client, the pipeline |
| `NonceManager.tla`, `NonceProofs.tla` | nonce allocation of one wallet on one chain |
| `PriceMatrix.tla`, `PriceProofs.tla` | the price matrix in shared memory |
| `PricePublishing.tla`, `PublishingProofs.tla` | chain instances, their watchdog and the batcher they share |
| `MCComponents.tla`, `Components.cfg` | liveness and safety of pipeline, breaker, poll loop and forwarding |
| `MCSideBySide.tla`, `SideBySide.cfg` | safety of nonces, price matrix and publishing |

## 1. The system

```
 detectors (partitions P1-P4, cross-chain, mempool)
        |  XADD stream:opportunities
        v
 coordinator (leader-elected; opportunity router)       standby coordinator
        |  XADD stream:execution-requests[-group]        (takes the lease over)
        v
 execution engine instances (consumer group)            fast lane (flag)
   consumer -> queue -> pipeline -> lock -> strategy -> chain
        |                                    |
        +---- Redis: PEL, ee:dedup:*, lock:execution:* ----+
```

Services are Node processes. Inside one there are no threads to speak of: code
between two `await`s is atomic, and every `await` of a Redis command, a strategy
or a timer lets any other callback run. Between processes there is only Redis
(streams with consumer groups, keys with a time to live) and the chains.

### Inventory

For each component: the state it keeps, its operations, what makes it hard, and
what makes it correct. Paths are below `src/`; EE is
`services/execution-engine/src`, CO `services/coordinator/src`, core
`shared/core/src`.

**Opportunity consumer** (EE/`consumers/opportunity.consumer.ts`).
*State*: `pendingMessages` (opportunity id to message awaiting its deferred
XACK), `activeExecutions`, recent content hashes; in Redis the group's pending
list and the keys `ee:dedup:<id>`. *Operations*: create group, recover orphaned
messages (XPENDING, XCLAIM, handle, XGROUP DELCONSUMER), handle a message
(validate, SET NX, business rules, enqueue, XACK or defer), acknowledge after
execution, markActive/markComplete, clean up stale entries, stop. *Hard*: every
Redis round trip lets the pipeline run; entries are keyed by opportunity and not
by message; a key outlives the process that set it; crash between any two
commands. *Correct when* nothing is acknowledged as executed that was not, no
pending entry is lost from sight, and an opportunity is not turned away by a key
whose owner never executed it.

**Execution queue** (EE/`services/queue.service.ts`). *State*: ring buffer,
`paused`, `manuallyPaused`. *Operations*: enqueue, dequeue, canEnqueue, manual
pause, clear. *Hard*: hysteresis between two water marks, a synchronous
callback into the pipeline from inside `enqueue`, items put back after a gate
has blocked them. *Correct when* it is bounded and a pause always ends.

**Execution pipeline** (EE/`execution-pipeline.ts`). *State*: active count,
count per chain, re-enqueue counts of the breaker, recently executed ids.
*Operations*: processQueueItems, executeOpportunityWithLock, executeWithTimeout,
executeOpportunity. *Hard*: a timeout that does not cancel what it timed out, a
retry after a force release, four bookkeeping maps that are cleaned up on
different paths. *Correct when* executions of an opportunity exclude each other,
slots are always given back, and ids do not leak.

**Distributed lock and conflict tracker** (core/`redis/distributed-lock.ts`,
EE/`services/lock-conflict-tracker.ts`). *State*: key with owner value and TTL,
local wait queues; conflict count and age per resource. *Operations*: acquire,
release (compare and delete), extend, force release, withLock; recordConflict.
*Hard*: expiry under a running holder, force release of a holder that is alive.

**Streams client and stream consumer** (core/`redis/streams.ts`,
core/`redis/stream-consumer.ts`). *State*: poll timer, `isPolling`, `paused`,
backoff. *Operations*: poll, pause, resume, batch handling with acknowledgement,
stuck-message cleanup, stop. *Hard*: resume while polling, a stop that waits for
a batch, replies lost after delivery.

**Engine lifecycle, standby, health monitoring** (EE/`engine.ts`,
`services/standby-manager.ts`, `services/health-monitoring-manager.ts`).
*State*: service state machine, timers. *Operations*: start (with recovery),
activate from standby, drain and stop, periodic cleanup and the interval that
runs the pipeline. *Hard*: stopping with executions under way.

**Leader election** (CO/`leadership/leadership-election-service.ts`). *State*:
`isLeader`, failure count, heartbeat timer, lease key. *Operations*: acquire,
renew, demote, release, stop. *Hard*: a lease that ends before its holder has
counted its failures, a stop racing an acquisition. *Correct when* at most one
instance acts as leader.

**Coordinator and router** (CO/`coordinator.ts`,
`opportunities/opportunity-router.ts`, `streaming/stream-consumer-manager.ts`).
*State*: opportunity cache, retry and DLQ state, per-stream breakers.
*Operations*: process opportunity, forward with retries, clean up, dead-letter.
*Hard*: forwarding that fails part of the way; a leader that changes between the
check and the publication. *Correct when* a message is acknowledged only after
it has been forwarded or dead-lettered.

**Nonce manager** (core/`nonce-manager.ts`). *State*: pending map, pool of
allocated nonces, next nonce, lock queue. *Operations*: get, submit, confirm,
fail, reset. *Correct when* no nonce is given out twice and none is skipped.

**Circuit breakers and drawdown breaker** (core/`resilience/circuit-breaker.ts`,
core/`risk/drawdown-circuit-breaker.ts`). Closed/open/half-open, and
NORMAL/CAUTION/HALT/RECOVERY. *Correct when* a bounded number of trial calls is
let through and a halt is left only after its cooldown.

**Async primitives, caches, shared memory** (core/`async`, core/`caching`):
mutexes with hand-over, worker pool, price matrix read by workers through
sequence counters. *Correct when* a read returns one price that was written.

**Contracts** (`contracts/src`): commit-reveal with block delays and expiry.

**Chain instances and price publication** (`services/unified-detector/src`,
`StreamBatcher` of core/`redis/streams.ts`). *State*: status of each chain,
restart counts of the watchdog; queue, flush lock and timer of a batcher.
*Operations*: start, stop and restart a chain, add an update, flush, destroy.
*Hard*: one batcher serves all chains of a process; a flush under way, a failed
flush, and a destroy that meets either. *Correct when* what was accepted is sent,
in order, or counted as dropped, and no chain loses its way to the stream.

**Detection, strategies, ML, dashboard, infrastructure**: numeric code, pure
I/O and presentation. They publish to and read from the streams above and keep
no protocol state of their own.

`PROJECT.json` lists all of them with their status, and under `hazards` what in
them is hard to test, each at its line.

## 2. OpportunityExecution

### What stands for what

| Model | Code |
|---|---|
| element of `Instances` | one *incarnation* of an engine process. Consumer names contain the start time, so a restarted engine is another consumer: restarting is another element starting |
| `status`, `owner`, `age` | the stream and the consumer group's pending list (PEL): not yet read, pending at a consumer, or the reason it left; `age` is the idle time XPENDING reports and the age of the local entry |
| `dedup` | remaining life of `ee:dedup:<id>` |
| `lock`, `lockTtl` | value and remaining life of `lock:execution:opportunity:<id>` |
| `phase[i][m]` | where in the code the handling of message `m` at instance `i` waits: the program counter of its chain of `await`s |
| `pending`, `active` | `pendingMessages`, `activeExecutions` of the consumer |
| `paused`, `cbCount`, `executed`, `conflicts` | `QueueService.paused`, `cbReenqueueCounts`, `recentlyExecutedIds`, the conflict tracker |
| `overrun` | strategies whose timer has fired and that still run |
| `faults`, `staleLockRecoveries` | failed commands so far; the statistic of the same name |
| `unacked` | history: the messages an instance has done with although their XACK failed |

A message goes through these phases (each arrow is an action):

```
 fetched --SetAside--> expired --AckExpired--> none       (one XACK for all of a reply)
         --RefuseUnfit, RefuseClaimed--> none             (XACK at once)
         --Refuse--> rejecting | repeating --FinishRefuse--> unclaiming --Unclaim--> none
         --Refuse--> bouncing --Unclaim--> bounced --FinishRefuse--> unclaiming ...
         --Accept--> queued
 queued  --BlockedByBreaker, BlockedByChain--> queued | none
         --SkipExecuted--> acking | none
         --Dispatch--> locking --AcquireLock--> running
                               --LockConflict--> none | forcing --ForceRelease--> locking | none
                               --LockUnavailable--> none
 running --Finish, FinishStale, TimeOut--> completed --ReleaseLock--> unlocked
         --RecordExecuted--> acking --AckReply--> none
```

Beside them: `Fetch`, `FinishLate` (a strategy that outlived its timeout
returns and clears id and key), `CleanupStale`, `Start`/`EndRecovery`, `Crash`,
`Tick`, and the stop of an instance, whose stages `inst[i]` keeps:

```
 running --BeginStop--> stopping --FinishStop--> closing --ShutDownLocks--> exiting --Exit--> down
          (nothing is    (drained, or 30 s      (the lock manager releases
           dequeued)      over; XACK of what     every lock it still holds)
                          is not executing)
```

Executions that were not drained go on through `closing` and `exiting`; `Exit` may
also come early, when the forced-exit timer of the service bootstrap fires.

### Atomicity and other abstractions

* An action is the code from one reply to the next command. A command and its
  effect on Redis are one action; what the code does with the reply is the next
  one. The messages of one reply are fetched one by one, none while the handler is at
  another; those that had expired wait in `expired` until the reply is worked off
  and are then acknowledged by one XACK, or by one pipeline of which any part may
  fail. (In the code up to five take one XACK, which fails as a whole; the model lets
  any part of them fail.) Two are merged where nothing can come between: SET NX that finds the key
  and the XACK that follows (`RefuseClaimed`), and XPENDING followed by XCLAIM
  (XCLAIM tests the idle time again).
* **Failing commands.** Any awaited command may fail without effect, at most
  `MaxFaults` times in a behaviour, and the code goes on as written: SET NX on
  the dedup key fails open, XACK is only logged, a failing lock acquisition is
  `redis_error`, a failing release leaves the key to its TTL, a failing recovery
  lets the engine run without it. A fire-and-forget DEL takes effect at once or
  never. *A command that is executed and whose reply is lost is not modelled.*
* **Time** is a set of saturating timers that `Tick` advances. The scale keeps
  the order of the real constants, `ExecTimeout` 55 s < `LockTtl` 110 s <=
  `DedupTtl` 300 s < `PendingMaxAge` 600 s, as 1 < 2 <= 2 < 3 (with 2 for `PendingMaxAge` in
  `redelivery` and `components`, where no property speaks of the dedup key). Round trips to
  Redis take no time (time does not pass while one is under way) and the
  execution timer fires on time. Messages may be unread, queued, or running
  across ticks.
* **Free choices.** Whether a message is malformed, expired, refused by business
  rules or the content hash, whether a chain's breaker is open, whether a
  pre-simulated opportunity has become stale, how long a strategy takes.
* **Queue.** The order is not kept: any queued message may be dequeued next. The
  loop of `processQueueItems` is one action per iteration; in the code a pass is
  synchronous, so this allows more interleavings than happen. Since `enqueue`
  signals synchronously, `AcceptAndSkip` is the one case where it matters that
  the pipeline runs *inside* the handler.
* **Scan limit.** XPENDING returns some `RecoverLimit` entries when there are
  more: any subset of that size.
* Left out: HMAC signatures, priorities, metrics, the contents of DLQ entries,
  the yield after 200 items per pass and the evictions at 10 000 ids (no bounded
  instance reaches them), manual pause in standby mode, and the fast lane.
* **Lock manager shutdown.** `HeldLocks` are the keys whose value is a slot of an
  execution of this instance. The code tracks them in a map by key and forgets a
  key it has released by force, so after a force release the model may release a
  slot that the code would leave to its TTL.
* Commands of an instance that is exiting fail only within `MaxFaults`, or not at
  all when the process ends first; in the code its connections are closed one
  after another before the process ends.

### Properties

| Property | Says |
|---|---|
| `TypeOK` | types |
| `ExclusiveUnlessForced` | before any force release, two executions of one opportunity never run (within their timers) at the same time, across instances; only what an instance still runs after its lock manager was shut down does not count |
| `KeyNeverRefusesAll` | the dedup key never turns away *every* copy of an opportunity |
| `AckOnlyAfterExecution` | what is acknowledged as executed, or acknowledged by a stopping instance, was run to its end |
| `NoOrphanedEntry` | a pending entry that its live instance neither holds nor tracks is one that this instance dismissed by an XACK that failed |
| `PausedHasBacklog` | a paused consumer has more than the low water mark queued |
| `EveryMessageSettles` | what a running instance has read leaves the pending list, or is taken over, unless the instance has lost track of it |
| `KeepsLedger` | every behaviour is one of the ledger, seen through the mapping below |
| `QueueDrains` | what is queued is dequeued |
| `ReadingResumes` | a backpressure pause ends |
| `ExclusiveWhileStopping` | `ExclusiveUnlessForced` without its exception for stopping instances: violated, see the findings |
| `NoReexecution`, `NoEntryDropped`, `ActiveIsAccountedFor` | stated by the repository and violated: see the findings |

`NoOrphanedEntry` and `AckOnlyAfterExecution` are checked with one message per
opportunity. With duplicates they do not hold of the code: pending entries are keyed
by opportunity id, so `AckReply` of one message deletes the entry a newer message has
put there meanwhile, and `AcceptAndSkip` leaves one behind. TLC shows this on the
constants of `duplicates`. The liveness properties are checked with duplicates and a
failing command as well: a lock conflict, a failed acquisition and a failed XACK leave
entries for the cleanup. `EveryMessageSettles` leaves out the entries that the instance
has lost track of (`Untracked`): nothing settles those while it stays up, neither the
refused message whose XACK failed (`opportunity.consumer.ts:546`, 967) nor the
duplicate above. How an entry gets among them is what `NoOrphanedEntry` says.

Liveness is stated as `[]<>~P`, P does not last, instead of `P ~> ~P`, which says the
same and is dearer to check; and, here and in the other modules, for all messages at
once: again and again none is pending, queued, new or under way. They are finite in
number and none comes back to such a state (an instance reads and queues a message
once), so this says of each that it does not stay.

### Runs

| Run | Instance | Shows |
|---|---|---|
| `duplicates` | 2 instances that may crash, 2 messages of 1 opportunity, conflict threshold 2 | exclusion, the dedup key and the ledger, with a crash, a takeover and a forced release at every point (467 000 states) |
| `redelivery` | 2 instances that crash or stop, with 1 message and 2 failing commands; or 1 of them with 2 messages and 1 failing command, 1 execution per chain, a queue of 2 | types, acknowledgement and tracking with every command failing and every stage of a stop at every point; backpressure (815 000) |
| `components`, focus `execution` | 1 instance that stays up, `PendingMaxAge` 2: 2 messages of 1 opportunity and 1 failing command; or 2 opportunities, 2 slots, 1 per chain | `EveryMessageSettles`, `QueueDrains`, `ReadingResumes` under fairness (31 000) |
| `reexecution`, `dropped_entry`, `leaked_id`, `stop_unlocks` | the smallest that show it | the findings |

*Why the bounds are enough.* The hazards are about two holders of the same
opportunity, so two instances and two messages; a third would repeat the role of
one of them. One crash and one takeover per instance cover a crash at every
phase, since every phase of the surviving instance meets every phase of the
crashed one. Two messages against a queue that pauses at two fill it, and with one
execution per chain fill the chain and leave one to be put back. Two messages are also the
least of which one XACK loses several. Two failing commands are the least that break a
recovery and what it was to repair. `InitAfter` lets a run begin where some messages,
instances and failures already belong to the past: `redelivery` (`NarrowInit`) and
`components` (`SmallExecution`) put two such halves into one run. Counters (`cbCount`, `conflicts`) are bounded by their own
thresholds. `Mortal` and `Stoppable` say which instances may crash or be
stopped; they and `MaxFaults` are the only bounds that are not in the code.
Deadlock checking stays on: `Tick` is always enabled when nothing else is.
Symmetry (instances, messages of one opportunity) is used for safety only.

*Fairness* (`components` only). Weak fairness for reading, for handling the messages
(the handler awaits them one after another) and the XACK of the expired ones, for the pipeline (a one-second
interval in `engine.ts` runs it whatever signals were missed), for timers and
replies, for the stale cleanup (an interval of the health monitor), for recovery
and for time. None for `Finish`/`FinishLate`: a strategy need never return; the
timeout ends its execution. None for starting, stopping or crashing.

### The ledger

`OpportunityLedger` knows requests and executions only: a request is delivered
once and settled once, only delivered requests are executed, and two executions
of one trade never run side by side until somebody has revoked a lock. There are
no consumers, queues, keys or crashes in it. `KeepsLedger` instantiates it with a
refinement mapping: `entry` is read off from `status` (not yet read: waiting;
pending: delivered; otherwise settled), `executing` is the set of running slots
of the instances that are not exiting, and `revoked` is `staleLockRecoveries`.
A crash is `EndAll` for the slots of the instance, an XACK of several messages
`SettleAll`, everything inside the pipeline a stutter.

### What is proved

For every number of instances, messages and opportunities, and all limits and
timers that meet the assumptions:

* `TypeCorrect`: `Spec => []TypeOK`.
* `Exclusion`: `Spec => []ExclusiveUnlessForced`. The property alone is not
  inductive: what keeps a second instance out is a key that may expire. The
  inductive invariant `RunningHolds` says that a running execution *holds* the
  lock (the key carries its own slot) and that the life left to the key and the
  time the execution has run add up to at least `LockTtl`. `Tick` takes one from
  the first and adds one to the second, and the execution timer bounds the
  second by `ExecTimeout < LockTtl`: the key cannot expire first. Every other
  action leaves locks of running executions alone (`Quiet` steps), releases only
  its own slot, or is a force release, after which the property claims nothing. The
  invariant speaks of the instances that are not `exiting` (`Runs`): an instance
  whose lock manager has been shut down runs on without its locks, which is
  finding 4.
* `Refinement` (`EngineProofs`): `Spec => KeepsLedger`. `Exclusion` gives the
  guard of `Begin`; that a slot in use belongs to a request that has been
  delivered, and that an entry changes its state only forward, is an invariant
  of its own.
* `Backlog` (`EngineProofs`): `LowWater < HighWater => (Spec => []PausedHasBacklog)`, through
  `QueueInv`: an instance that is off holds nothing, an unread message is held
  by nobody (so that fetching one leaves queue lengths alone), and paused
  queues are longer than the low mark. The hypothesis is needed and the code
  does not check it.

* `KeysLeaveOne` (`EngineProofs`): `DedupTtl <= PendingMaxAge => (Spec =>
  []KeyNeverRefusesAll)`. In `ClaimInv` a key that is set has a *claimant*: a message of
  the opportunity that was decided otherwise than by the key, or is pending past its
  handler with age and remaining life of the key together at most `DedupTtl`. `Tick`
  adds one to the first and takes one from the second, so a claimant cannot be taken
  over before its key is gone. The rest is that a message whose handler has not looked
  at the key has age zero, and that an instance that is off holds and owns nothing
  (`OffIsBlank`). The hypothesis is needed: with a key that lives longer, TLC
  finds a message that a successor takes over and refuses as a duplicate of itself.
  The defaults meet it (300 s, 600 s); see the notes for settings that do not.
* `NothingOrphaned` (`EngineProofs`): `OneMessageEach => (Spec => []NoOrphanedEntry)`,
  where `OneMessageEach` says that no two messages carry the same opportunity.
  `TrackInv` is stronger in two ways: what is past its handler *is* in the map of pending
  messages, under the id of its opportunity (`PendingMatches`, `HeldIsTracked`); and an
  entry whose refusal could not be acknowledged counts as lost from then on, also while
  the handler still deletes the key. Each step leaves the lost a subset of `unacked`: it
  adds none, or those whose XACK failed in it, which for expired messages are several.
* `AcksAreEarned` (`EngineProofs`): `OneMessageEach => (Spec => AckOnlyAfterExecution)`.
  In `EndInv` nobody tries a lock twice (there is no conflict to count, hence no force
  release and no retry), and an id that is in the map but no longer active, or overran
  its timer, has ended at its instance (`Ended`: completed or recorded as executed). An
  XACK by opportunity id then acknowledges the message whose execution has ended, since
  it is the only one.

Assumptions: `RolesAssumption` (messages are finite in number, `None` is no
value), `LimitsAssumption` (limits are naturals), `TimersAssumption` (timers are
positive and the lock outlives the execution timer: `ttlMs` is
`EXECUTION_TIMEOUT_MS * 2`). TLC evaluates all three.

Only model-checked: liveness.

### Findings

1. **`NoReexecution`** (`reexecution`). `docs/architecture/ARCHITECTURE_V2.md:756`
   promises "exactly-once delivery per opportunity". The dedup key is deleted when
   the strategy returns, and the memory of executed ids is private to a process:
   a duplicate read by another instance is executed again.
2. **`NoEntryDropped`** (`dropped_entry`). `ADR-002-redis-streams.md:259` says
   "Pending messages survive restart, processed on recovery". Recovery claims the
   entries that are old enough and then deletes the consumers they came from,
   with the entries that were not.
3. **`ActiveIsAccountedFor`** (`leaked_id`). `opportunity.consumer.ts:1070` says
   markComplete must be called after execution completes. The early return for a
   stale pre-simulated opportunity does not reach it: the id stays active, and
   later messages of it are refused for the life of the process.
4. **`ExclusiveWhileStopping`** (`stop_unlocks`). `execution-pipeline.ts:351` says
   "The distributed lock prevents concurrent execution". `stop()` waits 30 s by
   default (`engine.ts:928`) for executions that may last 55 s, then the lock
   manager releases every lock it holds (`distributed-lock.ts:614`); until the
   process exits another instance may execute a duplicate at the same time.

Met while modelling, and not the subject of a run: the overview of the ACK
strategy (`opportunity.consumer.ts:564`) says that a message refused by
backpressure is not acknowledged, while line 720 acknowledges it;
`opportunity.consumer.ts:390` says queued messages are acknowledged at stop, but
an id is active from the moment it is queued, so they stay in the pending list;
`execution-pipeline.ts:423` says a message skipped because Redis was unavailable
will be delivered again, while in a live instance the stale cleanup acknowledges
its entry after ten minutes.

## 3. LeaderElection

### What stands for what

| Model | Code |
|---|---|
| element of `Instances` | one incarnation of a coordinator that may become leader |
| `lock`, `ttl` | the lease key in Redis and its remaining life |
| `stage[i]` | `running` of the service, split where the first acquisition or the release is awaited |
| `leader`, `standby`, `failures` | `_isLeader`, `isStandby`, `consecutiveHeartbeatFailures` |
| `armed`, `timer` | the heartbeat's `setTimeout` |
| `call[i][t]`, `reply`, `waited` | the command a chain of awaits waits for, what it will be told, and since when |
| `missed` | history: the failed heartbeats in a row of the leadership that lasts |

An instance has three chains of awaits: its heartbeat (which the first acquisition
in `start()` belongs to), an activation, and `stop()`. `Activating` *is* an
activation's command under way: the flag is set and cleared around exactly that.

`Start` and `Heartbeat` send SET NX or, if the instance leads, the renewal;
`Execute` is Redis; `AskOwnership` sends the renewal that follows a refused SET NX;
`EndAttempt`, `EndActivation` and `EndRenewal` handle the replies. `Stop` sends the
release only if the instance leads *at that moment*, and `EndStop` ends leadership
whatever the reply is. `Exit` is a crash or the exit after a stop.

### Abstractions

* **Time** has a unit; heartbeats take `HeartbeatMin..HeartbeatMax` (interval and
  jitter), and a command is answered or has failed within `Latency`. The code has
  no such bound for the scripts (`client.ts:738`; SET has 5 s): the theorems say
  what follows for each value. A timer fires on time: a blocked event loop counts
  as latency only as far as it delays replies.
* **Failing commands** fail before or after they took effect, at most `MaxFaults`
  times. One that takes effect after its caller has given up on it (a SET that
  timed out in the client) is not modelled.
* Alerts, listeners, and instances with `canBecomeLeader = false` (they never send
  a command) are left out. `stop()` waits for the start to be over.
* `Leads` counts an instance that is running: the coordinator stops its consumers
  before it stops the election (`coordinator.ts:1032`).

### Properties

| Property | Says |
|---|---|
| `TypeOK` | types |
| `LeaderInTimeHoldsLock` | a leader holds the key while the heartbeats it missed, and the one under way, take less than the lease |
| `OneLeaderIfLeaseOutlasts` | there is one leader if `MaxFailures` heartbeats, in the worst case, take less than the lease |
| `LockLostOnlyByOwner` | the key leaves its owner by expiry, or when the owner stops |
| `SomebodyLeads` | while an instance that may acquire stays up, somebody leads and holds the key, again and again |
| `OneLeader`, `DemotedOnlyAfterFailures` | stated by the repository and violated: see below |

`Budget(k)`, the worst case of `k` missed heartbeats, is `k` times the longest
interval and the longest wait, and three waits more: an activation's reply may come
late, and find an attempt of the heartbeat under way that takes two commands and
fails. All three can add up: at the instance of `lease`, shortened to a lease of 7,
TLC finds two leaders.

### Runs

| Run | Instance | Shows |
|---|---|---|
| `lease` | a coordinator that may crash, a standby that may be activated and stopped, three failing commands; lease 8, interval 1, latency 1, two failures demote (`Budget` is 7) | everything that should hold, at the shortest lease for which it should (365 000 states) |
| `two_leaders` | two coordinators, the default timing in units of 2 s: lease 15, interval 4 to 6, three failures, no latency | finding 5 |
| `early_demotion` | the same with a standby and four failing commands | finding 6 |

*Why the bounds are enough.* The standby plays every part: it acquires by
activation and, once active, by heartbeat, leads, misses heartbeats, is demoted,
is stopped. The other instance is the one it can conflict with. Two failures
demote, a third one hits an attempt in between. Commands of the other instance do
not fail (`Unlucky`); it crashes instead.

*Fairness* (`lease`). Weak fairness of each chain of awaits (timers fire, Redis
answers, replies are handled) and of time. None for starting, stopping, crashing,
activating or failing.

### What is proved

For all instances and every lease, interval, latency and failure limit:

* `LeaderHoldsLock`: `Spec => []LeaderInTimeHoldsLock`;
* `OneLeaderInTime`: `Spec => []OneLeaderIfLeaseOutlasts`;
* `OnlyOwnerReleases`: `Spec => LockLostOnlyByOwner`;
* `TypeCorrect`.

The inductive invariant comes in two parts. `Order` says how threads, timer and
leadership of an instance fit together (a running instance has a timer set or a
heartbeat under way, never both; only a leader renews; a leader has missed fewer
heartbeats than would demote it). `Lease` bounds the age of a lease: `Fresh(i, n)`
says that `i` renewed the key at most `n` ago, or that the lease may be over. It
holds for a leader with `n = SinceRenewal(i)`, read off from what its heartbeat is
doing, and for a "yes" on its way with `n` the time its command has waited. `Tick`
adds one to both sides; each step of the service must not let the bound fall; and no
command touches the key of a running instance but its own renewal, which the
compare in the scripts is for. Assumptions: `InstancesAssumption`,
`LeaseAssumption` (numbers are naturals, the limit and the lease positive).
`SomebodyLeads` is liveness and only model-checked.

### Findings

5. **`OneLeader`** (`two_leaders`). `leadership-election-service.ts:87` says "Only one
   instance across all nodes can be leader at a time." With the defaults
   (`coordinator.ts:414`: lease 30 s, heartbeat 10 s, jitter 2 s either way) three
   failures take up to 36 s, and the key is gone after 30 s. `OneLeaderInTime` gives
   the condition that the defaults miss.
6. **`DemotedOnlyAfterFailures`** (`early_demotion`).
   `leadership-election-service.ts:77` calls the limit "Maximum consecutive heartbeat
   failures before demotion". The count is set back by a renewal and by `start()`
   only: an instance that leads again after a demotion is demoted by its first
   failure.

Met while modelling, and not the subject of a run: an acquisition under way when the
service stops makes a stopped instance leader until the process exits, and nobody
releases its key; a standby whose heartbeat acquires while its activation is under
way, and fails, leads and stays a standby, which does not try again once demoted.

## 4. Coordinator and streams

### CoordinatorForwarding

The coordinators as readers of one consumer group (`handleOpportunityBatch` and
`stop()` of `coordinator.ts`, `opportunity-router.ts`, `simple-circuit-breaker.ts`,
the recovery of `stream-consumer-manager.ts`).

| Model | Code |
|---|---|
| `message[m]`, `reader[m]` | the entry in the group, and the consumer it was delivered to; `leftover` when the acknowledgement of its batch failed, which no later one names; `skipped` when the group was set to the end of the stream, `abandoned` when a recovery acknowledged it unprocessed |
| `forward[m]`, `attempt[m]` | where `forwardToExecutionEngine` waits for `m` (XADD, backoff, DLQ), or its outcome: `kept` by the dead-letter stream or the fallback file, `writing` while that file is written, `lost` when it was full or the write failed |
| `failures[i]`, `circuitOpen[i]` | the router's circuit breaker; its cooldown may be over at any time |
| `batchStage[i]` | the batch of `i`: none, being forwarded, being acknowledged |
| `coordinator[i]`, `leader` | the stages of start and stop; the promise of `LeaderElection`, at most one leader that may change at any time |
| `copies[m]`, `lostReplies[m]` | entries of `m` in the execution stream; history: XADDs executed that the router saw fail |

The opportunities of a batch are forwarded in parallel and acknowledged together.
Which of them are refused before that (invalid, duplicate, expired, superseded,
shed, read in the grace period) is a free choice. `LeaderElection` is not composed
with this module: a leader that is assumed and lost at any moment is a weaker
assumption than what it guarantees.

`ForwardedAtMostOnce`: an opportunity enters the execution stream once, and once
more for every XADD that was executed although its reply was an error.
`AckedIsSettled`: a message is acknowledged only when its own forwarding has an
outcome. As in the code, where nobody awaits `writeLocalDlqFallback`
(`opportunity-router.ts:1359`), the write of the fallback file counts as an outcome when
it is begun: an acknowledged opportunity may be `lost` when DLQ and file both fail. `NoForwardAfterRelease`: nothing is forwarded by a coordinator that has
given up its leadership in `stop()`. `ForwardingEnds` and `StopGivesUpLeadership`
are liveness. The first three and the types are proved (`ForwardingProofs`) from
`Course` (a message moves on from "none" when it is read, a forwarding is under way
only while the batch of its reader is, a released coordinator has no batch) and
`CopiesKnown` (copies are those that were lost and, once forwarded, one more).

*Instance* (focus `forwarding`): two coordinators and one message, or one
coordinator and two messages, two attempts, a circuit that opens at the second
failure: an opportunity that backs off meets a circuit opened by its neighbour. The two
halves are separate since messages meet only in a batch or in the circuit of one
coordinator, and coordinators only over one message. *Fairness*: commands are
answered, timers fire, a stop goes on, an abandoned lease expires.

### StreamPolling

The poll loop of `stream-consumer.ts`, step by step between awaits, with pause,
resume and stop at any of them. `pollPhase[q]` says which await a `poll()` is at,
`timersDue` counts timers that have yet to fire, `entry[e]` follows an entry from
XADD to XACK. Reads may fail before or after Redis has marked entries as delivered;
Redis may restart without its data, and the group is then made anew at the end of
the stream. Lengths of timers, the error backoff among them, are left open. Batch
and single handler, with and without `autoAck`, are all explored.

`OnePollChain`: never two polls, nor a poll and a timer that will start another.
`NeverSilent`: a consumer that runs unpaused has a poll or a timer. `StopIsFinal`:
after `stop()` nothing is left of it. These and the types are proved (`IntakeProofs`)
from `LoopIsKnown` (the timer's handle says what is due, `isPolling` whether a poll
is under way) and `StoppedIsQuiet`. `NewIsRead` and `StopReturns` are liveness.

*Instance* (focus `polling`): two entries, so that a handler has a next one, and two
polls, the second of which must never be alive with the first. *Fairness*: weak for
timers and awaits; strong for a successful read and for making the group anew: Redis,
asked again and again, answers some time. Without it polling for ever in error is a
legal behaviour, and nothing is read.

## 5. Circuit breaker and nonces

### ChainCircuit

The breaker of one chain (EE/`services/circuit-breaker.ts`) together with its only
client, the dequeue loop. A trade is queued, admitted, overrun (its timer has fired,
the strategy goes on) or idle; it ends with a success, a failure, or without saying
anything to the breaker (skipped, locked, stale, refused for risk). The put-back of a
blocked trade always finds room. `probes` and `lostProbes` are history: the trades let
in by a HALF_OPEN circuit, and the attempts that ended without an answer.

`ProbesAccountedFor`: in HALF_OPEN the attempts used up are those under way plus those
that ended unanswered, and at most as many as allowed. `ClosedBelowThreshold`: a closed
circuit has fewer consecutive failures than its threshold, whatever late answers and
overrides do. Both are proved (`IntakeProofs`) for any threshold and any number of
trades. `HalfOpenDecides` (liveness): a chain under test is opened or closed, unless
*every* attempt ended unanswered. In that case the code has no way out: see the notes.

*Instance* (focus `circuit`): three trades, threshold 2, two attempts, two slots: two
probes fill the chain and a third trade is put back, or fails late. *Fairness*:
opportunities keep coming, what is queued is dequeued, executions end, time passes.
Nobody need use a manual override.

### NonceManager

One wallet on one chain (core/`nonce-manager.ts`) with the order in which
`submitTransaction` takes, uses, confirms and fails a nonce. Callers, replenishments of
the pool and the background sync meet at the hand-over lock (`isLocked`, `lockQueue`;
`lockOwners` are those whose acquisition has been resolved) and at
`getTransactionCount`, whose reply is any count the network has had since the request.
The network (external) takes a transaction when its nonce is next. A reset begins a
new `poolGeneration`; `bornIn` and `givenUp` are history.

`NonceLockExclusive`, `NoLostWakeup`: the lock excludes, and whoever waits for it is in
its queue while somebody holds it. `NoncesDistinct`: two transactions of one generation
never have the same nonce; across generations they may, which is what a reset is for.
`NoNonceLost`: a nonce below the next one has reached the network, is in the pool, is
tracked, or was given up. All are proved (`NonceProofs`): `LockInv` says that those at
work in a critical section or waiting for one are exactly the owner and the queue;
`DistinctInv` that what is held and what is in the pool are different numbers below
`pendingNonce`; `KeptInv` adds to `NoNonceLost` what is known of the network: a count that
somebody has been told of is not above the network's own, and confirmed nonces are below
it, so that forgetting them, or jumping to a count, loses none.

*Instance* (focus `nonces`): two callers, two replenishments and the sync, so that three
kinds of process queue behind a fourth; a pool of one, so that it runs dry at once;
nonces up to 2 and one reset, which is enough for one generation to end under a
transaction of another.

## 6. Prices

### PriceMatrix

The matrix in shared memory (core/`caching/price-matrix.ts`,
`shared-key-registry.ts`). Threads run in parallel, so a step is *one access* to shared
memory: the main thread writes a slot as sequence odd, price, timestamp, sequence even,
and then registers new keys as entry, bucket, count; a worker looks a key up and reads a
slot between two looks at its sequence. The price is a float written without Atomics and
has two halves that may be seen apart. The accesses of a thread take effect in program
order, which JavaScript's memory model promises of atomic accesses only: the non-atomic
price store between two atomic ones is taken to stay there.

`ReadsAreWhole`: a worker gets one price of the key it asked for, whole and with its own
timestamp. `PublishedIsComplete`: a bucket that workers can see leads to a complete entry,
and the entry to a slot that has been written. Both are proved (`PriceProofs`) for any
keys, workers, slots and hash function; `Whole` says that a slot that is not being written
has an even sequence, equal halves and the timestamp of its price, and `ReadingOK` what a
worker has in hand *if* the sequence is still the one it began with. Sequence counters
are natural numbers; the code's wrap at 2^32 needs as many writes within one read.

*Instance* (focus `prices`): two keys with one hash, one of which is registered and one
not (`RegistryMax` 1), two slots of which one is a reserve, one worker (workers do not
write what others read), up to two writes of a slot.

### PricePublishing

The chain instances of one detector process, the watchdog that restarts them, and the
`StreamBatcher` they publish through.

| Model | Code |
|---|---|
| `chain[c]`, `dead[c]` | the stage of a `ChainDetectorInstance`; status 'error' or 'disconnected' |
| `handle[c]`, `registered` | its `priceUpdateBatcher`; the client's batcher for the stream |
| `stage[b]` | unused, open, and `destroy()` waiting for the XADD under way, flushing the rest, over |
| `queue`, `arrived`, `batch`, `timer` | `queue`, `pendingDuringFlush`, the batch of the XADD, the flush timer |
| `watch[c]`, `restarts[c]` | the watchdog's stop-then-start; `chainRestartAttempts`, set back when the chain is connected again (every chain the watchdog finds dead has reported an error, so it counts as degraded) |
| `closedBy[b]` | history: the chain whose stop began the `destroy()` of `b` |
| `manager`, `asked` | the shutdown, and the chains it has told to stop |
| `stream`, `via`, `lost` | the stream; history: the batcher that took each update, what `destroy()` counted as dropped |

An XADD may fail before or after Redis has executed it, and always fails when the client
is gone. What a stop does after `destroy()` touches nothing but its instance and is part
of the same step. A start may time out, so the watchdog may find a dead chain at any time;
its cooldown excludes a second check during a restart. The order in which a pass visits the
chains is left open, and each chain counts as visited by itself: the model allows restarts to
overlap that one pass does one after another. The shutdown only clears the interval: a pass
that waits for a start goes on to the next dead chain (`passed`), also one that the shutdown
has just stopped, until the shutdown clears the list of chains before it disconnects.
(`chain-instance-manager.ts:386` says "Stop watchdog before stopping chains to prevent restart
attempts during shutdown".) `flush()` called from outside and
the direct publication before there is a batcher are left out (no production caller; no
shared state).

`NothingLost`: an update that was accepted is in the stream, is held, or is counted as
dropped. `SentInOrder`: the updates of one batcher reach the stream in the order in which it
accepted them, whichever XADDs fail. `StopHasFlush`: who waits for a `destroy()` waits for an
XADD that is under way, and a timer never fires into one. `SilencedByOthers`: a running
chain whose batcher is destroyed shared it with another chain, whose stop destroyed it; no
restart of a chain silences the chain itself. `ChainsKeepPublishing`, that a connected chain
has a batcher that takes its updates, is violated: finding 7.

The first four are proved (`PublishingProofs`) for any chains, batchers, batch and queue sizes,
through `PublishInv`. `ClosersKnown`: every batcher that is destroyed, or about to be, while
the process is up has a chain that closed it, and none that runs with it is the one.
`HandlesKnown`: a running chain has a batcher, and one that waits for
a `destroy()` waits for a batcher at that stage. `Shapes`: what a batcher holds, by its
stage: an XADD under way has taken the whole queue, only then updates arrive behind it, and
a timer means a waiting queue and no XADD. `BooksKept`: what a batcher holds (its batch, its
queue and what arrived, in this order: `Held`) it accepted, in rising order; only a destroyed
batcher has counted updates as dropped; `NothingLost` and `SentInOrder`. An XADD sends the
front of `Held`, a failed one puts its batch back there, so neither order changes; one that
failed after Redis executed it sends a batch twice, which `SentInOrder` allows.

*Instance* (focus `publishing`): two chains, two batchers, which bound the restarts that
succeed (one that needs a third never comes to an end, or fails); the second is the one that
a restarted chain gets while the other holds the first; batches of 2, a queue of 2 (3 updates fill a batch and leave one waiting),
one failing XADD. Deadlock is checked: only a process that has shut down stops.

*Finding* 7. **`ChainsKeepPublishing`** (`silenced_chain`, two chains, nothing
published). `ADR-043-bulkhead-isolation-health-watchdog.md:190` says "Our approach restarts only the
failed chain." `createBatcher` (core/`redis/streams.ts:1697`) gives all chains of a process one
batcher (UD/`chain-instance.ts:809`; UD is `services/unified-detector/src`), and the stop of the
failed chain destroys it (`chain-instance.ts:873`). The healthy chains keep the destroyed
batcher: `add()` returns false from then on, and the direct path is not taken since their handle
is not null. TLC: x1 starts, x2 starts, x1 loses its connection, the watchdog stops x1; x2 is
running and connected with a destroyed batcher, and stays so when x1 is back with a new one.

## 7. Composite runs

`MCComponents` and `MCSideBySide` each join components that share no state into one run. The
variable `focus`, fixed by the initial state, says which component moves; the others stay at
one initial state of theirs. The states of such a run are those of the components added up,
never multiplied, and every property of a component is checked on all of *its* behaviours.

| Run | Components | Shows |
|---|---|---|
| `components` | pipeline of one engine, ChainCircuit, StreamPolling, CoordinatorForwarding | their liveness, with the fairness each module states, and the safety of the last three (82 000 states) |
| `side_by_side` | NonceManager, PriceMatrix, PricePublishing | safety and freedom from deadlock (581 000 states) |

`components` turns deadlock checking off: consumers and coordinators stop and messages come
to an end. Symmetry is used in `side_by_side` (callers and chains are exchanged together,
batchers on their own); never with liveness.

## 8. Notes: met while modelling, not the subject of a run

Each was read in the code and, where a module covers it, is reachable in the model. None is
stated as violated by a run. Paths as in section 1; UD is
`services/unified-detector/src`.

**Publishing** (beside finding 7). Updates that arrive during a flush, and a failed
batch, wait for the next `add()` with no timer set (`streams.ts:192` speaks of a maximum wait
time); a failed flush that leaves the queue at `maxQueueSize` makes every `add()` refuse before
it could flush, for good; the queue can reach twice `maxQueueSize`; the configuration of the
first caller of `createBatcher` wins; a second `destroy()` returns while the first still
flushes; the watchdog's second half starts a chain although the manager has been stopped.

**Coordinator.** Standbys read the same group and acknowledge opportunities they do not forward;
so are opportunities read within the grace period, or during a drain (`dropped`, without a dead
letter). The router's breaker is documented to "allow one attempt"
(`simple-circuit-breaker.ts:89`), any number pass. `stream-consumer-manager.ts:377` says own pending
entries are redelivered with XREADGROUP '0', which nothing issues. Every start and reconnection
sets the group to the end of the stream. A recovery may delete the consumer of a peer that lives.

**Opportunity consumer.** `CONSUMER_PENDING_MAX_AGE_MS` may be set from 60 s
(EE/`types.ts:333`), below the 300 s that a dedup key lives (`opportunity.consumer.ts:152`):
an instance that takes over the entries of a crashed one then finds their own keys, and
acknowledges them as duplicates although nobody has executed them. `KeysLeaveOne` has the
condition as its hypothesis. `opportunity.consumer.ts:228` gives "2 * EXECUTION_TIMEOUT_MS" as
the idle time that recovery waits for; line 234 uses `pendingMessageMaxAgeMs`.

**Stream consumer.** An entry whose reading or handling failed is never read again by its
consumer, and no caller configures `maxDeliveryCount`.

**Circuit breaker.** An attempt of HALF_OPEN that finds the chain full, or whose trade is skipped,
locked or refused, is used up: when all are, the chain is blocked until a manual override. A late
success closes a HALF_OPEN circuit.

**Nonces.** -1 can be handed out as a nonce when a sync fails, or after the reset of timed-out
transactions; confirmed entries that the background sync overtook stay tracked until the timeout;
the pool hands out lower nonces after the direct path has handed out higher ones; the reset for
the lowest failed nonce gives nonces that others still hold out anew.
`NonceAllocationManager` locks per strategy instance.

**Price matrix.** `hierarchical-cache.ts:866` says the slot of a deleted price can be reused; the
mapper never frees an index. `clear()` clears the mapper and not the registry (no production
caller). A full registry is silent: workers never see further keys.

**Bridges.** Nobody calls `recoverPendingBridges`, and the state of a bridge is stored only after
it is complete, although `bridge-poll-manager.ts:39` says before.

**Worker pool** (core/`async/worker-pool.ts`, not modelled). After an elastic scale-down, which
leaves a hole in `workers`, scaling up is refused (`workers.length >= maxPoolSize`, 1167). The
slow retry of 300 s may fire while the last backoff of 310 s is pending: two threads under one id.
A task of a crashed worker settles by its timeout only.

**Commit-reveal** (not modelled). `computeCommitmentHash` (`commit-reveal.service.ts:599`) differs
from the hash that `reveal()` of the contract recomputes, so no commitment of the service can be
revealed; the contract's tests use a helper of their own.

## 9. What is proved and what is not

TLAPS proves every safety invariant and every action property of the passing runs, for all values
of the constants that meet the named assumptions; the refinement of the ledger step by step; and
the types of every module, on their own or as part of an inductive invariant. Four
theorems of the engine have a hypothesis, which section 2 explains and shows to be needed:
`LowWater < HighWater`, `DedupTtl <= PendingMaxAge`, and `OneMessageEach` twice; the timing
condition of the election is part of its property. The runs that check the same properties use
constants that meet them.

The arguments have a common form. A property is first strengthened until it is inductive, by what
each actor's program counter says of the shared state; the strengthening is checked by TLC before
it is proved. Steps are then sorted by their effect rather than one by one: a lemma states what an
action does to the parts the invariant speaks of (`SettleEffect`, `PhaseEffect`, `Calm`,
`AsideEffect`, `NoNewAttempt`), another that such an effect preserves it, and the
final lemma has a case for each action.

Only model-checked: liveness (with ENABLED and induction over data beyond the proof system), that is
`EveryMessageSettles`, `QueueDrains`, `ReadingResumes`, `SomebodyLeads`, `ForwardingEnds`,
`StopGivesUpLeadership`, `NewIsRead`, `StopReturns`, `HalfOpenDecides`.

Assumptions of the proofs, all evaluated by TLC: `RolesAssumption`, `LimitsAssumption`,
`TimersAssumption`, `InstancesAssumption`, `LeaseAssumption`, `ForwardingAssumption`,
`PollAssumption`, `CircuitAssumption`, `NonceAssumption`, `MatrixAssumption`, `PublishingAssumption` (no more than types,
positive limits, finite sets, a hash table larger than the registry; and the two timing relations
explained in sections 2 and 3).

### Not modelled

* *Fast lane, DLQ consumers, simulation worker*: behind flags, or operator tools.
* *Detection, strategies, sizing, ML, dashboard, infrastructure*, most of the source by volume:
  arithmetic, decoding of foreign formats, calls of external protocols. Their protocol state is what
  the modules above have; the rest would be restated rather than checked.
* *Drawdown breaker*: a state machine of one synchronous caller over floating-point totals.
* *Async primitives*: their lock is a hand-over queue like the one of NonceManager; the tasks of the
  worker pool are independent.
* *Commit-reveal, bridges*: not reached in production as they stand (see the notes).
* *Manual pause and the standby mode of the engine, `acquireLockWithQueue`, `resetChain`,
  `registerWallet`, resize and destroy of the price matrix, HMAC, trimming*: no caller in the
  protocols modelled, or no state the properties see.

## 10. Plan

Done: every module of the table. Left, in this order:

1. An abstract lease that `LeaderElection` implements, and CoordinatorForwarding over it.
2. Duplicates on `pendingMessages` (two hazards have no property: what holds of the code is weaker
   than what one would want); the fast lane beside the consumer.
3. The restarts of the worker pool; the drawdown breaker, if its totals can be abstracted.

## 11. Running

```
tlasany OpportunityExecution.tla
tlc -workers 2 -config OE_Duplicates.cfg MCOpportunityExecution
tlc -workers 2 -config LE_Lease.cfg MCLeaderElection
tlc -workers 2 -config Components.cfg MCComponents
tlc -workers 2 -config SideBySide.cfg MCSideBySide
tlapm OpportunityExecution_proofs.tla      # and the other seven proof modules
```
