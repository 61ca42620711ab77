--------------------------- MODULE PricePublishing ---------------------------
(***************************************************************************)
(* How the chains of a partition publish their price updates: the chain    *)
(* instances of one detector process, the watchdog that restarts them, and *)
(* the StreamBatcher they publish through (redis/streams.ts).              *)
(*                                                                         *)
(* The chains share one streams client, and createBatcher of the client    *)
(* gives every caller that names the same stream the same batcher until    *)
(* that batcher is destroyed.  A batcher collects updates and sends them   *)
(* with one XADD at a time, when the batch is full or its timer fires;     *)
(* what arrives while the XADD is under way waits in a list of its own,    *)
(* and a batch whose XADD failed goes back to the front of the queue.      *)
(***************************************************************************)
EXTENDS Integers, Sequences, FiniteSets, SequencesExt

CONSTANTS
    Chains,        \* the chain instances of the process
    Batchers,      \* the batchers that may be created, each once
    NoBatcher,
    MaxBatch,      \* maxBatchSize
    QueueCap,      \* maxQueueSize
    WatchdogLimit, \* WATCHDOG_MAX_RESTARTS
    MaxUpdates,    \* bound: updates that are accepted
    MaxXaddFaults  \* bound: XADDs that fail while the client is connected

ASSUME PublishingAssumption ==
    /\ MaxBatch \in Nat \ {0} /\ QueueCap \in Nat \ {0}
    /\ {WatchdogLimit, MaxUpdates, MaxXaddFaults} \subseteq Nat
    /\ NoBatcher \notin Batchers

VARIABLES
    chain,      \* the stage of each ChainDetectorInstance
    dead,       \* its status is 'error' or 'disconnected'
    handle,     \* its priceUpdateBatcher
    watch,      \* where the watchdog's restart of the chain waits
    restarts,   \* chainRestartAttempts
    closedBy,   \* history: the chain whose stop has begun the destroy() of each batcher
    manager,    \* the shutdown of the process
    asked,      \* the chains that the shutdown has told to stop
    registered, \* the client's batcher for the stream
    stage,      \* each batcher: unused, open, and the stages of destroy()
    queue, arrived, batch,  \* queue, pendingDuringFlush, the batch of the XADD under way
    timer,      \* the flush timer of the batcher is set
    stream,     \* the updates in the stream, in order
    via,        \* history: the batcher that accepted each update
    lost,       \* the updates that destroy() has counted as dropped
    xaddFaults

chainVars   == <<chain, dead, handle, watch, restarts, closedBy>>
processVars == <<manager, asked, registered>>
batcherVars == <<stage, queue, arrived, batch, timer>>
streamVars  == <<stream, via, lost, xaddFaults>>
publishVars == <<chainVars, processVars, batcherVars, streamVars>>

PublishInit ==
    /\ chain = [c \in Chains |-> "starting"] /\ dead = [c \in Chains |-> FALSE]
    /\ handle = [c \in Chains |-> NoBatcher]
    /\ watch = [c \in Chains |-> "idle"] /\ restarts = [c \in Chains |-> 0]
    /\ closedBy = [b \in Batchers |-> {}]
    /\ manager = "up" /\ asked = {} /\ registered = NoBatcher
    /\ stage = [b \in Batchers |-> "unused"]
    /\ queue = [b \in Batchers |-> <<>>] /\ arrived = [b \in Batchers |-> <<>>]
    /\ batch = [b \in Batchers |-> <<>>] /\ timer = [b \in Batchers |-> FALSE]
    /\ stream = <<>> /\ via = <<>> /\ lost = {} /\ xaddFaults = 0

\* An XADD of the batcher is under way: flushing, and flushLock is set.
Flushing(b) == batch[b] # <<>>

\* There is a batcher and it is not destroyed.
IsOpen(b) == b \in Batchers /\ stage[b] = "open"

-----------------------------------------------------------------------------
(* The batcher.                                                            *)

\* Variant: the timer is not cleared.
FlushKeepingTimer(b, q) ==
    /\ batch' = [batch EXCEPT ![b] = q]
    /\ queue' = [queue EXCEPT ![b] = <<>>]
    /\ UNCHANGED timer
\* flush() with the lock free: the whole queue q becomes the batch.
Flush(b, q) ==
    /\ batch' = [batch EXCEPT ![b] = q]
    /\ queue' = [queue EXCEPT ![b] = <<>>]
    /\ timer' = [timer EXCEPT ![b] = FALSE]

\* add() of an update that is not refused: it waits for the XADD under way, fills
\* the batch, or waits for the timer.
Add(b, u) ==
    LET q == Append(queue[b], u) IN
    \/ /\ Flushing(b)
       /\ arrived' = [arrived EXCEPT ![b] = Append(@, u)]
       /\ UNCHANGED <<queue, batch, timer>>
    \/ /\ ~Flushing(b) /\ Len(q) >= MaxBatch
       /\ Flush(b, q) /\ UNCHANGED arrived
    \/ /\ ~Flushing(b) /\ Len(q) < MaxBatch
       /\ queue' = [queue EXCEPT ![b] = q]
       /\ timer' = [timer EXCEPT ![b] = TRUE]
       /\ UNCHANGED <<arrived, batch>>

\* A running chain publishes; what is refused, or not offered because the stream
\* is too far behind, leaves no trace.
Publish(c) ==
    LET b == handle[c] IN
    /\ chain[c] = "running" /\ IsOpen(b)
    /\ Len(queue[b]) + Len(arrived[b]) < QueueCap
    /\ Len(via) < MaxUpdates
    /\ via' = Append(via, b)
    /\ Add(b, Len(via'))
    /\ UNCHANGED <<chainVars, processVars, stage, stream, lost, xaddFaults>>

FlushTimer(b) ==
    /\ timer[b]
    /\ Flush(b, queue[b])
    /\ UNCHANGED <<chainVars, processVars, stage, arrived, streamVars>>

\* The chains off stop: performStop() behind its destroy(), which touches nothing
\* but the instance.
Stopped(off) ==
    /\ chain'  = [c \in Chains |-> IF c \in off THEN "off" ELSE chain[c]]
    /\ handle' = [c \in Chains |-> IF c \in off THEN NoBatcher ELSE handle[c]]
    /\ dead'   = [c \in Chains |-> c \in off \/ dead[c]]

\* destroy() of b has ended: whoever waits for it goes on.
Released(b) ==
    /\ Stopped({c \in Chains : chain[c] = "destroying" /\ handle[c] = b})
    /\ manager' = IF manager = "disconnecting" /\ registered = b THEN "gone" ELSE manager
    /\ registered' = IF manager' = "gone" THEN NoBatcher ELSE registered

\* The reply of the XADD has been handled and left q in the queue.  A destroy()
\* that waited for the lock goes on at once and flushes what is left.
AfterFlush(b, q) ==
    /\ arrived' = [arrived EXCEPT ![b] = <<>>]
    /\ \/ /\ stage[b] = "waiting" /\ q # <<>>
          /\ Flush(b, q)
          /\ stage' = [stage EXCEPT ![b] = "flushing"]
          /\ UNCHANGED <<chain, dead, handle, manager, registered>>
       \/ /\ ~(stage[b] = "waiting" /\ q # <<>>)
          /\ batch' = [batch EXCEPT ![b] = <<>>]
          /\ queue' = [queue EXCEPT ![b] = q]
          /\ \/ /\ stage[b] = "open"
                /\ UNCHANGED <<stage, chain, dead, handle, manager, registered>>
             \/ /\ stage[b] # "open"
                /\ stage' = [stage EXCEPT ![b] = "destroyed"]
                /\ Released(b)
          /\ UNCHANGED timer

XaddSucceeds(b) ==
    /\ Flushing(b) /\ manager # "gone"
    /\ stream' = stream \o batch[b]
    /\ AfterFlush(b, arrived[b])
    /\ UNCHANGED <<watch, restarts, closedBy, asked, via, lost, xaddFaults>>

\* Variants: what has arrived meanwhile is forgotten, or goes first.
RequeuedAlone(b)  == batch[b]
RequeuedBehind(b) == arrived[b] \o batch[b]
\* What a batch that failed leaves in the queue.
Requeued(b)       == batch[b] \o arrived[b]

\* The XADD fails, before Redis has executed it or after: the batch returns to
\* the front of the queue.  The last flush of destroy() counts it as dropped.
XaddFails(b) ==
    /\ Flushing(b)
    /\ \/ manager = "gone" /\ UNCHANGED <<stream, xaddFaults>>
       \/ /\ manager # "gone" /\ xaddFaults < MaxXaddFaults
          /\ xaddFaults' = xaddFaults + 1
          /\ stream' \in {stream, stream \o batch[b]}
    /\ lost' = IF stage[b] = "flushing" THEN lost \cup ToSet(batch[b]) ELSE lost
    /\ AfterFlush(b, Requeued(b))
    /\ UNCHANGED <<watch, restarts, closedBy, asked, via>>

\* destroy() up to its first await; ended says that nothing is left to wait for.
Destroy(b, ended) ==
    /\ IsOpen(b)
    /\ \/ /\ Flushing(b) /\ ~ended
          /\ stage' = [stage EXCEPT ![b] = "waiting"]
          /\ timer' = [timer EXCEPT ![b] = FALSE]
          /\ UNCHANGED <<queue, batch>>
       \/ /\ ~Flushing(b) /\ queue[b] # <<>> /\ ~ended
          /\ stage' = [stage EXCEPT ![b] = "flushing"]
          /\ Flush(b, queue[b])
       \/ /\ ~Flushing(b) /\ queue[b] = <<>> /\ ended
          /\ stage' = [stage EXCEPT ![b] = "destroyed"]
          /\ UNCHANGED <<queue, batch, timer>>
    /\ UNCHANGED arrived

-----------------------------------------------------------------------------
(* The chain instances.                                                    *)

\* Variant: a destroyed batcher is returned like any other.
HasBatcher == registered # NoBatcher
\* createBatcher returns the client's batcher for the stream unless it is
\* destroyed, and a new one then.
MayShare   == IsOpen(registered)

\* The manager hears that chain c is connected again, which ends the count of its
\* restarts; the shutdown has taken the listeners of all chains away.
Recovered(c) == [restarts EXCEPT ![c] = IF manager = "up" THEN 0 ELSE @]

\* The start of c is over.  The shutdown does not end a pass of the watchdog that
\* waited for it: the pass goes on to the chains behind c.
WatchGoesOn(c) ==
    [watch EXCEPT ![c] = IF @ = "starting" /\ manager = "stopping" THEN "passed" ELSE "idle"]

\* performStart() succeeds.
StartSucceeds(c) ==
    /\ chain[c] = "starting"
    /\ \/ /\ MayShare
          /\ UNCHANGED <<registered, stage>>
       \/ /\ ~MayShare
          /\ registered' \in {b \in Batchers : stage[b] = "unused"}
          /\ stage' = [stage EXCEPT ![registered'] = "open"]
    /\ handle' = [handle EXCEPT ![c] = registered']
    /\ chain' = [chain EXCEPT ![c] = "running"]
    /\ watch' = WatchGoesOn(c) /\ restarts' = Recovered(c)
    /\ UNCHANGED <<dead, closedBy, manager, asked, queue, arrived, batch, timer, streamVars>>

\* performStart() throws before it creates the batcher.
StartFails(c) ==
    /\ chain[c] = "starting"
    /\ chain' = [chain EXCEPT ![c] = "off"]
    /\ dead' = [dead EXCEPT ![c] = TRUE]
    /\ watch' = WatchGoesOn(c)
    /\ UNCHANGED <<handle, restarts, closedBy, processVars, batcherVars, streamVars>>

\* Every reconnection attempt has failed; the instance stays running.
ConnectionLost(c) ==
    /\ chain[c] = "running" /\ ~dead[c]
    /\ dead' = [dead EXCEPT ![c] = TRUE]
    /\ UNCHANGED <<chain, handle, watch, restarts, closedBy, processVars, batcherVars, streamVars>>

Reconnected(c) ==
    /\ chain[c] = "running" /\ dead[c]
    /\ dead' = [dead EXCEPT ![c] = FALSE]
    /\ restarts' = Recovered(c)
    /\ UNCHANGED <<chain, handle, watch, closedBy, processVars, batcherVars, streamVars>>

\* stop() of a running instance: it destroys its batcher, and waits for that
\* unless somebody else has begun to.
StopChain(c) ==
    LET b == handle[c] IN
    /\ chain[c] = "running"
    /\ \/ /\ Destroy(b, FALSE)
          /\ chain' = [chain EXCEPT ![c] = "destroying"]
          /\ UNCHANGED <<handle, dead>>
       \/ /\ \/ Destroy(b, TRUE)
             \/ ~IsOpen(b) /\ UNCHANGED batcherVars
          /\ Stopped({c})
    /\ closedBy' = IF IsOpen(b) THEN [closedBy EXCEPT ![b] = {c}] ELSE closedBy

-----------------------------------------------------------------------------
(* The watchdog and the shutdown of the process.                           *)

\* runWatchdogCheck() stops a dead chain, in a pass that the timer starts or one
\* that goes on during the shutdown.  A chain that is off has nothing to stop, and
\* with one that the shutdown is stopping it waits for that stop.
WatchdogStops(c) ==
    /\ watch[c] = "idle" /\ dead[c] /\ restarts[c] < WatchdogLimit
    /\ \/ manager = "up" /\ watch' = [watch EXCEPT ![c] = "stopping"]
       \/ /\ manager = "stopping"
          /\ \E d \in Chains :
                watch[d] = "passed" /\ watch' = [watch EXCEPT ![d] = "idle", ![c] = "stopping"]
    /\ restarts' = [restarts EXCEPT ![c] = @ + 1]
    /\ \/ StopChain(c)
       \/ chain[c] # "running" /\ UNCHANGED <<chain, handle, dead, closedBy, batcherVars>>
    /\ UNCHANGED <<processVars, streamVars>>

\* When the stop has returned it starts the chain, whatever has happened since.
WatchdogStarts(c) ==
    /\ watch[c] = "stopping" /\ chain[c] = "off"
    /\ watch' = [watch EXCEPT ![c] = "starting"]
    /\ chain' = [chain EXCEPT ![c] = "starting"]
    /\ dead' = [dead EXCEPT ![c] = FALSE]
    /\ UNCHANGED <<handle, restarts, closedBy, processVars, batcherVars, streamVars>>

Shutdown ==
    /\ manager = "up"
    /\ manager' = "stopping"
    /\ UNCHANGED <<chainVars, asked, registered, batcherVars, streamVars>>

\* The shutdown stops each chain; a stop of one that is starting waits for that,
\* one of a chain that is being stopped joins in.
ManagerStops(c) ==
    /\ manager = "stopping" /\ c \notin asked /\ chain[c] # "starting"
    /\ asked' = asked \cup {c}
    /\ \/ StopChain(c)
       \/ chain[c] # "running" /\ UNCHANGED <<chain, handle, dead, closedBy, batcherVars>>
    /\ UNCHANGED <<watch, restarts, manager, registered, streamVars>>

\* When every stop has returned or timed out the client is disconnected, which
\* destroys its batcher first.
Disconnect ==
    /\ manager = "stopping"
    /\ LET b == registered IN
       \/ /\ Destroy(b, FALSE)
          /\ manager' = "disconnecting"
          /\ UNCHANGED registered
       \/ /\ \/ Destroy(b, TRUE)
             \/ ~IsOpen(b) /\ UNCHANGED batcherVars
          /\ manager' = "gone"
          /\ registered' = NoBatcher
    /\ UNCHANGED <<chainVars, asked, streamVars>>

-----------------------------------------------------------------------------
ChainStep(c) ==
    \/ Publish(c) \/ StartSucceeds(c) \/ StartFails(c)
    \/ ConnectionLost(c) \/ Reconnected(c)
    \/ WatchdogStops(c) \/ WatchdogStarts(c) \/ ManagerStops(c)

BatcherStep(b) == FlushTimer(b) \/ XaddSucceeds(b) \/ XaddFails(b)

PublishNext ==
    \/ \E c \in Chains : ChainStep(c)
    \/ \E b \in Batchers : BatcherStep(b)
    \/ Shutdown \/ Disconnect

PublishSpec == PublishInit /\ [][PublishNext]_publishVars

-----------------------------------------------------------------------------
(* Properties.                                                             *)

\* What a batcher holds.
Held(b) == batch[b] \o queue[b] \o arrived[b]

\* An update that a batcher has accepted is in the stream, is still held by it,
\* or has been counted as dropped; a destroyed batcher has sent or counted all.
NothingLost ==
    \A u \in DOMAIN via :
        \/ u \in ToSet(stream) \cup lost
        \/ u \in ToSet(Held(via[u])) /\ stage[via[u]] # "destroyed"

\* The updates of a batcher reach the stream in the order in which it accepted
\* them and none is passed over, whichever XADDs fail and whatever arrives
\* meanwhile; only repeated batches may come after later ones.
SentInOrder ==
    \A i \in DOMAIN stream : \A u \in DOMAIN via :
        u < stream[i] /\ via[u] = via[stream[i]] => \E j \in 1..(i - 1) : stream[j] = u

\* Who waits for a destroy() waits for an XADD that is under way, and a timer
\* never fires into one.
StopHasFlush ==
    /\ \A c \in Chains :
        chain[c] = "destroying" => stage[handle[c]] \in {"waiting", "flushing"}
    /\ \A b \in Batchers :
        /\ stage[b] \in {"waiting", "flushing"} => Flushing(b)
        /\ timer[b] => ~Flushing(b) /\ queue[b] # <<>> /\ stage[b] = "open"

\* A running chain that can publish no more shared its batcher with another one,
\* whose stop has destroyed it: that the watchdog restarts a chain never silences
\* the chain itself, however often it does and whatever happens meanwhile.
SilencedByOthers ==
    \A c \in Chains :
        manager = "up" /\ chain[c] = "running" /\ ~IsOpen(handle[c])
            => \E d \in Chains \ {c} : d \in closedBy[handle[c]]

\* ADR-043:190 says of the watchdog "Our approach restarts only the failed chain.":
\* a chain that is running and connected has a batcher that takes its updates.
ChainsKeepPublishing ==
    \A c \in Chains :
        manager = "up" /\ chain[c] = "running" /\ ~dead[c] => IsOpen(handle[c])
=============================================================================
