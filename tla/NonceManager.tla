---------------------------- MODULE NonceManager ----------------------------
(***************************************************************************)
(* Nonce allocation of one chain: shared/core/src/nonce-manager.ts, with   *)
(* the way submitTransaction of base.strategy.ts uses it.                  *)
(*                                                                         *)
(* JavaScript runs one piece of code at a time, so a step below is the     *)
(* code between two awaits.  What interleaves is the order of the pieces:  *)
(* the callers of getNextNonce, the replenishments of the pool and the     *)
(* background sync meet at the lock and at getTransactionCount, while      *)
(* confirmTransaction and failTransaction run at any time, without it.     *)
(***************************************************************************)
EXTENDS Integers, Sequences, FiniteSets

CONSTANTS
    Callers,        \* transaction submissions under way on the chain
    Fillers,        \* replenishNoncePool calls that may be under way at once
    Syncer,         \* the background sync (syncNonceWithLock)
    NoNonce,        \* a caller that holds no nonce
    MaxPending,     \* config.maxPendingPerChain
    PoolSize,       \* config.preAllocationPoolSize
    PoolThreshold,  \* config.poolReplenishThreshold
    MaxNonce,       \* bound: no getNextNonce starts from here on
    MaxGeneration   \* bound on the resets explored

ASSUME NonceAssumption ==
    /\ PoolSize \in Nat /\ PoolThreshold \in Nat /\ MaxPending \in Nat
    /\ PoolSize > 0 => Fillers # {}
    /\ MaxNonce \in Nat /\ MaxGeneration \in Nat
    /\ NoNonce \notin Int
    /\ Callers \cap Fillers = {} /\ Syncer \notin Callers \cup Fillers

VARIABLES
    confirmedNonce, pendingNonce, noncePool, poolGeneration, isReplenishing,
    pendingTxs,     \* tracked nonce |-> "pending" or "confirmed"
    isLocked, lockQueue,
    lockOwners,     \* those whose acquireLock resolved and who must release
    nonceStage,     \* where each caller, replenishment and the sync stand
    nonceOf,        \* the nonce a caller was given
    bornIn,         \* the generation that nonce was given in
    fillRequest,    \* needed and generationAtStart of a replenishment
    seenCount,      \* the network's count when getTransactionCount was asked
    netCount,       \* the network's transaction count, pending ones included
    mempool,        \* accepted nonces that wait for a lower one
    givenUp         \* history: nonces failed without a reset

nonceCounters == <<confirmedNonce, pendingNonce, noncePool, poolGeneration>>
lockVars == <<isLocked, lockQueue, lockOwners>>
netVars == <<netCount, mempool>>
nonceVars == <<nonceCounters, isReplenishing, pendingTxs, lockVars,
               nonceStage, nonceOf, bornIn, fillRequest, seenCount, netVars,
               givenUp>>

NonceProcs == Callers \cup Fillers \cup {Syncer}

NoFill == [needed |-> 0, generation |-> 0]

NonceInit ==
    /\ confirmedNonce = -1 /\ pendingNonce = -1 /\ noncePool = <<>>
    /\ poolGeneration = 0 /\ pendingTxs = <<>> /\ lockQueue = <<>>
    /\ nonceOf = [c \in Callers |-> NoNonce]
    /\ bornIn = [c \in Callers |-> 0]
    /\ seenCount = [p \in NonceProcs |-> 0]
    /\ netCount = 0 /\ mempool = {} /\ givenUp = {}
    \* registerSigner starts to fill the pool at once
    /\ LET filling == IF PoolSize > 0 THEN {CHOOSE f \in Fillers : TRUE} ELSE {}
       IN /\ fillRequest = [f \in Fillers |->
                 IF f \in filling THEN [needed |-> PoolSize, generation |-> 0]
                                  ELSE NoFill]
          /\ isReplenishing = (PoolSize > 0) /\ isLocked = (PoolSize > 0)
          /\ lockOwners = filling
          /\ nonceStage = [p \in NonceProcs |->
                               IF p \in filling THEN "fill" ELSE "idle"]

-----------------------------------------------------------------------------
(* The queue lock.  An acquirer that finds it free with no one waiting is  *)
(* resolved at once; releaseLock hands it to the next waiter, still locked.*)

NonceLock == [held |-> isLocked, queue |-> lockQueue, owners |-> lockOwners]

JoinLock(l, p) ==
    IF l.queue = <<>> /\ ~l.held
    THEN [l EXCEPT !.held = TRUE, !.owners = @ \cup {p}]
    ELSE [l EXCEPT !.queue = Append(@, p)]

\* Variant: the lock is marked free though it is handed over.
PassFreed(l, p) ==
    IF l.queue = <<>>
    THEN [l EXCEPT !.held = FALSE, !.owners = @ \ {p}]
    ELSE [l EXCEPT !.held = FALSE, !.queue = Tail(@),
                   !.owners = (@ \ {p}) \cup {Head(l.queue)}]
\* Variant: the next waiter is taken off the queue and not woken.
PassUnnoticed(l, p) ==
    [l EXCEPT !.held = FALSE, !.owners = @ \ {p},
              !.queue = IF @ = <<>> THEN @ ELSE Tail(@)]
PassLock(l, p) ==
    IF l.queue = <<>>
    THEN [l EXCEPT !.held = FALSE, !.owners = @ \ {p}]
    ELSE [l EXCEPT !.queue = Tail(@),
                   !.owners = (@ \ {p}) \cup {Head(l.queue)}]

SetLock(l) ==
    /\ isLocked' = l.held
    /\ lockQueue' = l.queue
    /\ lockOwners' = l.owners

(* A process goes on when its lock request has been resolved.              *)
HasTurn(p, stage) == nonceStage[p] = stage /\ p \in lockOwners

WaitsForLock == {"pool", "direct", "fill", "apply"}
UnderLock == {"sync", "fillsync"}      \* waits for the network, holding it

MoveTo(p, stage) == nonceStage' = [nonceStage EXCEPT ![p] = stage]

-----------------------------------------------------------------------------
(* syncNonce.  A reply carries a count the network had since the request;  *)
(* the error of a failed one is swallowed and changes nothing.             *)

AskCount(p) == seenCount' = [seenCount EXCEPT ![p] = netCount]

(* The network's count becomes confirmedNonce; pendingNonce never goes back*)
\* Variant: the network's count is taken over as it is.
PendingAsCounted(count) == count
SyncedPending(count) == IF pendingNonce < count THEN count ELSE pendingNonce

(* The counters <<confirmedNonce, pendingNonce>> a reply to p may leave.   *)
AfterReply(p) ==
    {<<confirmedNonce, pendingNonce>>} \cup
    {<<count, SyncedPending(count)>> : count \in seenCount[p]..netCount}

(* failTransaction and cleanupTimedOutTransactions drop the counters and   *)
(* the pool and start a new generation.                                    *)
ResetPool ==
    /\ poolGeneration < MaxGeneration
    /\ noncePool' = <<>>
    /\ isReplenishing' = FALSE
    /\ poolGeneration' = poolGeneration + 1
    /\ givenUp' = {}

TrackedBut(txs, ns) == [n \in DOMAIN txs \ ns |-> txs[n]]

-----------------------------------------------------------------------------
(* getNextNonce *)

(* A caller looks at the pool before it has the lock.                      *)
StartAllocation(c) ==
    /\ nonceStage[c] = "idle" /\ pendingNonce < MaxNonce
    /\ MoveTo(c, IF PoolSize > 0 /\ noncePool # <<>> THEN "pool" ELSE "direct")
    /\ SetLock(JoinLock(NonceLock, c))
    /\ UNCHANGED <<nonceCounters, isReplenishing, pendingTxs, nonceOf, bornIn,
                   fillRequest, seenCount, netVars, givenUp>>

(* The pool was drained while the caller waited: on to the standard path.  *)
PoolDrained(c) ==
    /\ HasTurn(c, "pool") /\ noncePool = <<>>
    /\ MoveTo(c, "direct")
    /\ SetLock(JoinLock(PassLock(NonceLock, c), c))
    /\ UNCHANGED <<nonceCounters, isReplenishing, pendingTxs, nonceOf, bornIn,
                   fillRequest, seenCount, netVars, givenUp>>

(* The pool after the nonce taken from it may not be used and is put back. *)
\* Variants: it is not put back; something else is put back.
PoolNotPutBack == Tail(noncePool)
PoolPutBackNothing == <<NoNonce>> \o Tail(noncePool)
PoolPutBack == <<Head(noncePool)>> \o Tail(noncePool)

PoolRefused(c) ==
    /\ HasTurn(c, "pool") /\ noncePool # <<>>
    /\ Cardinality(DOMAIN pendingTxs) >= MaxPending
    /\ noncePool' = PoolPutBack
    /\ MoveTo(c, "idle")
    /\ SetLock(PassLock(NonceLock, c))
    /\ UNCHANGED <<confirmedNonce, pendingNonce, poolGeneration,
                   isReplenishing, pendingTxs, nonceOf, bornIn, fillRequest,
                   seenCount, netVars, givenUp>>

GiveNonce(c, n, txs, generation) ==
    /\ nonceOf' = [nonceOf EXCEPT ![c] = n]
    /\ bornIn' = [bornIn EXCEPT ![c] = generation]
    /\ pendingTxs' = [k \in DOMAIN txs \cup {n} |->
                          IF k = n THEN "pending" ELSE txs[k]]

(* A low pool starts a replenishment, which queues for the lock at once.   *)
PoolLow == /\ Len(noncePool) - 1 <= PoolThreshold /\ ~isReplenishing
           /\ Len(noncePool) - 1 < PoolSize

TakeFromPool(c) ==
    /\ HasTurn(c, "pool") /\ noncePool # <<>>
    /\ Cardinality(DOMAIN pendingTxs) < MaxPending
    /\ noncePool' = Tail(noncePool)
    /\ GiveNonce(c, Head(noncePool), pendingTxs, poolGeneration)
    /\ \/ /\ ~PoolLow
          /\ MoveTo(c, "tx")
          /\ SetLock(PassLock(NonceLock, c))
          /\ UNCHANGED <<isReplenishing, fillRequest>>
       \/ /\ PoolLow
          /\ \E f \in Fillers :
               /\ nonceStage[f] = "idle"
               /\ nonceStage' = [nonceStage EXCEPT ![c] = "tx", ![f] = "fill"]
               /\ fillRequest' = [fillRequest EXCEPT ![f] =
                      [needed |-> PoolSize - (Len(noncePool) - 1),
                       generation |-> poolGeneration]]
               /\ SetLock(PassLock(JoinLock(NonceLock, f), c))
          /\ isReplenishing' = TRUE
    /\ UNCHANGED <<confirmedNonce, pendingNonce, poolGeneration, seenCount,
                   netVars, givenUp>>

(* The rest of the standard path, from the counters the sync left: timed   *)
(* out transactions are dropped, and then the nonce is taken.              *)
NonceAfter(c, txs, pending, generation) ==
    IF Cardinality(DOMAIN txs) >= MaxPending
    THEN /\ pendingNonce' = pending /\ pendingTxs' = txs
         /\ MoveTo(c, "idle")
         /\ UNCHANGED <<nonceOf, bornIn>>
    ELSE /\ pendingNonce' = pending + 1
         /\ GiveNonce(c, pending, txs, generation)
         /\ MoveTo(c, "tx")

AllocateFrom(c, counters) ==
    /\ \/ /\ NonceAfter(c, pendingTxs, counters[2], poolGeneration)
          /\ confirmedNonce' = counters[1]
          /\ UNCHANGED <<noncePool, poolGeneration, isReplenishing, givenUp>>
       \/ \E timedOut \in SUBSET DOMAIN pendingTxs \ {{}} :
            /\ NonceAfter(c, TrackedBut(pendingTxs, timedOut), -1,
                          poolGeneration + 1)
            /\ confirmedNonce' = -1
            /\ ResetPool
    /\ SetLock(PassLock(NonceLock, c))
    /\ seenCount' = [seenCount EXCEPT ![c] = 0]
    /\ UNCHANGED <<fillRequest, netVars>>

AllocateDirect(c) ==
    /\ HasTurn(c, "direct") /\ confirmedNonce # -1
    /\ AllocateFrom(c, <<confirmedNonce, pendingNonce>>)

(* Nothing known, or the last sync is older than syncIntervalMs.           *)
AskBeforeAllocation(c) ==
    /\ HasTurn(c, "direct")
    /\ MoveTo(c, "sync") /\ AskCount(c)
    /\ UNCHANGED <<nonceCounters, isReplenishing, pendingTxs, lockVars,
                   nonceOf, bornIn, fillRequest, netVars, givenUp>>

AllocateAfterReply(c) ==
    /\ nonceStage[c] = "sync"
    /\ \E counters \in AfterReply(c) : AllocateFrom(c, counters)

-----------------------------------------------------------------------------
(* replenishNoncePool under the lock *)

EndFill(f) ==
    /\ isReplenishing' = FALSE
    /\ fillRequest' = [fillRequest EXCEPT ![f] = NoFill]
    /\ MoveTo(f, "idle")
    /\ SetLock(PassLock(NonceLock, f))

FillAborted(f) ==
    /\ HasTurn(f, "fill")
    /\ fillRequest[f].generation # poolGeneration
    /\ EndFill(f)
    /\ UNCHANGED <<nonceCounters, pendingTxs, nonceOf, bornIn, seenCount,
                   netVars, givenUp>>

(* The generation is not looked at again after the wait for the network.   *)
FillFrom(f, counters) ==
    /\ confirmedNonce' = counters[1]
    /\ pendingNonce' = counters[2] + fillRequest[f].needed
    /\ noncePool' = noncePool \o
           [i \in 1..fillRequest[f].needed |-> counters[2] + i - 1]
    /\ EndFill(f)
    /\ seenCount' = [seenCount EXCEPT ![f] = 0]
    /\ UNCHANGED <<poolGeneration, pendingTxs, nonceOf, bornIn, netVars,
                   givenUp>>

FillNow(f) ==
    /\ HasTurn(f, "fill") /\ confirmedNonce # -1
    /\ fillRequest[f].generation = poolGeneration
    /\ FillFrom(f, <<confirmedNonce, pendingNonce>>)

AskBeforeFill(f) ==
    /\ HasTurn(f, "fill")
    /\ fillRequest[f].generation = poolGeneration
    /\ MoveTo(f, "fillsync") /\ AskCount(f)
    /\ UNCHANGED <<nonceCounters, isReplenishing, pendingTxs, lockVars,
                   nonceOf, bornIn, fillRequest, netVars, givenUp>>

FillAfterReply(f) ==
    /\ nonceStage[f] = "fillsync"
    /\ \E counters \in AfterReply(f) : FillFrom(f, counters)

-----------------------------------------------------------------------------
(* syncNonceWithLock: the count is read before the lock is asked for.      *)

StartSync ==
    /\ nonceStage[Syncer] = "idle"
    /\ MoveTo(Syncer, "ask") /\ AskCount(Syncer)
    /\ UNCHANGED <<nonceCounters, isReplenishing, pendingTxs, lockVars,
                   nonceOf, bornIn, fillRequest, netVars, givenUp>>

SyncAnswered ==
    /\ nonceStage[Syncer] = "ask"
    /\ \/ /\ MoveTo(Syncer, "idle")             \* the provider failed
          /\ seenCount' = [seenCount EXCEPT ![Syncer] = 0]
          /\ UNCHANGED lockVars
       \/ /\ MoveTo(Syncer, "apply")
          /\ \E count \in seenCount[Syncer]..netCount :
               seenCount' = [seenCount EXCEPT ![Syncer] = count]
          /\ SetLock(JoinLock(NonceLock, Syncer))
    /\ UNCHANGED <<nonceCounters, isReplenishing, pendingTxs, nonceOf, bornIn,
                   fillRequest, netVars, givenUp>>

SyncApplied ==
    /\ HasTurn(Syncer, "apply")
    /\ confirmedNonce' = seenCount[Syncer]
    /\ pendingNonce' = SyncedPending(seenCount[Syncer])
    /\ MoveTo(Syncer, "idle")
    /\ SetLock(PassLock(NonceLock, Syncer))
    /\ seenCount' = [seenCount EXCEPT ![Syncer] = 0]
    /\ UNCHANGED <<noncePool, poolGeneration, isReplenishing, pendingTxs,
                   nonceOf, bornIn, fillRequest, netVars, givenUp>>

-----------------------------------------------------------------------------
(* The transaction a nonce was given for, and the network it goes to.      *)

SendTx(c) ==
    /\ nonceStage[c] = "tx"
    /\ nonceOf[c] >= netCount /\ nonceOf[c] \notin mempool
    /\ mempool' = mempool \cup {nonceOf[c]}
    /\ MoveTo(c, "sent")
    /\ UNCHANGED <<nonceCounters, isReplenishing, pendingTxs, lockVars,
                   nonceOf, bornIn, fillRequest, seenCount, netCount, givenUp>>

NetworkAccepts ==
    /\ netCount \in mempool
    /\ netCount' = netCount + 1
    /\ mempool' = mempool \ {netCount}
    /\ UNCHANGED <<nonceCounters, isReplenishing, pendingTxs, lockVars,
                   nonceStage, nonceOf, bornIn, fillRequest, seenCount,
                   givenUp>>

EndTx(c) ==
    /\ MoveTo(c, "idle")
    /\ nonceOf' = [nonceOf EXCEPT ![c] = NoNonce]
    /\ bornIn' = [bornIn EXCEPT ![c] = 0]
    /\ UNCHANGED <<lockVars, fillRequest, seenCount, netVars>>

(* advanceConfirmedNonce: the first nonce from n on that is not confirmed. *)
AdvancedFrom(n, txs) ==
    CHOOSE m \in n..(n + Cardinality(DOMAIN txs)) :
        /\ \A k \in n..(m - 1) : k \in DOMAIN txs /\ txs[k] = "confirmed"
        /\ ~(m \in DOMAIN txs /\ txs[m] = "confirmed")

(* confirmTransaction.  A nonce other than confirmedNonce stays tracked.   *)
ConfirmTransaction(c) ==
    /\ nonceStage[c] = "sent" /\ nonceOf[c] < netCount
    /\ LET n == nonceOf[c] IN
       \/ /\ n \in DOMAIN pendingTxs /\ n = confirmedNonce
          /\ confirmedNonce' = AdvancedFrom(n + 1, pendingTxs)
          /\ pendingTxs' = TrackedBut(pendingTxs, n..(confirmedNonce' - 1))
       \/ /\ n \in DOMAIN pendingTxs /\ n # confirmedNonce
          /\ pendingTxs' = [pendingTxs EXCEPT ![n] = "confirmed"]
          /\ UNCHANGED confirmedNonce
       \/ /\ n \notin DOMAIN pendingTxs
          /\ UNCHANGED <<confirmedNonce, pendingTxs>>
    /\ EndTx(c)
    /\ UNCHANGED <<pendingNonce, noncePool, poolGeneration, isReplenishing,
                   givenUp>>

(* failTransaction: the network refused the transaction, it timed out, or  *)
(* its receipt did not come.                                               *)
FailTransaction(c) ==
    /\ nonceStage[c] \in {"tx", "sent"}
    /\ LET n == nonceOf[c]
           rest == TrackedBut(pendingTxs, {n})
           lowest == \A m \in DOMAIN rest : n < m
       IN \/ /\ n \in DOMAIN pendingTxs /\ lowest
             /\ pendingTxs' = rest
             /\ confirmedNonce' = -1 /\ pendingNonce' = -1
             /\ ResetPool
          \/ /\ n \in DOMAIN pendingTxs /\ ~lowest
             /\ pendingTxs' = rest
             /\ givenUp' = givenUp \cup {n}
             /\ UNCHANGED <<nonceCounters, isReplenishing>>
          \/ /\ n \notin DOMAIN pendingTxs
             /\ UNCHANGED <<nonceCounters, pendingTxs, isReplenishing, givenUp>>
    /\ EndTx(c)

(* A protected transaction whose receipt is not there yet: reported as     *)
(* sent, with neither confirmTransaction nor failTransaction.              *)
LeaveUnconfirmed(c) ==
    /\ nonceStage[c] = "sent"
    /\ EndTx(c)
    /\ UNCHANGED <<nonceCounters, pendingTxs, isReplenishing, givenUp>>

-----------------------------------------------------------------------------
AllocationStep(c) ==
    \/ PoolDrained(c) \/ PoolRefused(c) \/ TakeFromPool(c)
    \/ AllocateDirect(c) \/ AskBeforeAllocation(c) \/ AllocateAfterReply(c)

FillStep(f) ==
    FillAborted(f) \/ FillNow(f) \/ AskBeforeFill(f) \/ FillAfterReply(f)

TxStep(c) ==
    SendTx(c) \/ ConfirmTransaction(c) \/ FailTransaction(c)
        \/ LeaveUnconfirmed(c)

NonceNext ==
    \/ \E c \in Callers : StartAllocation(c) \/ AllocationStep(c) \/ TxStep(c)
    \/ \E f \in Fillers : FillStep(f)
    \/ StartSync \/ SyncAnswered \/ SyncApplied
    \/ NetworkAccepts

NonceSpec == NonceInit /\ [][NonceNext]_nonceVars

-----------------------------------------------------------------------------
NonceTypeOK ==
    /\ confirmedNonce \in Int /\ pendingNonce \in Int
    /\ noncePool \in Seq(Int)
    /\ poolGeneration \in Nat /\ isReplenishing \in BOOLEAN
    /\ DOMAIN pendingTxs \subseteq Int
    /\ isLocked \in BOOLEAN /\ lockQueue \in Seq(NonceProcs)
    /\ lockOwners \subseteq NonceProcs
    /\ nonceOf \in [Callers -> Int \cup {NoNonce}]
    /\ bornIn \in [Callers -> Nat]
    /\ fillRequest \in [Fillers -> [needed : Nat, generation : Nat]]
    /\ seenCount \in [NonceProcs -> Int] /\ netCount \in Int

(* Whoever's acquireLock has resolved is alone until it releases, through  *)
(* every hand-off: the lock is marked held exactly while someone has it.   *)
NonceLockExclusive ==
    /\ isLocked <=> lockOwners # {}
    /\ \A p, q \in lockOwners : p = q

(* Two transactions whose nonces were given in the same generation never   *)
(* have the same nonce, whatever the pool, the direct path, the background *)
(* sync and the replies of the network did in between.                     *)
NoncesDistinct ==
    \A c, d \in Callers :
        /\ c # d /\ bornIn[c] = bornIn[d]
        /\ nonceOf[c] # NoNonce /\ nonceOf[d] # NoNonce
        => nonceOf[c] # nonceOf[d]

(* No gap by accident: a nonce below pendingNonce has reached the network, *)
(* waits in the pool, is tracked, or was given up by failTransaction.      *)
NoNonceLost ==
    \A n \in 0..(pendingNonce - 1) :
        \/ n < netCount
        \/ n \in DOMAIN pendingTxs \cup givenUp
        \/ \E i \in DOMAIN noncePool : noncePool[i] = n

(* No acquirer is forgotten: whoever waits for the lock is in its queue,   *)
(* the queue moves because somebody holds the lock, and whoever holds it   *)
(* is inside a critical section that ends by releasing it.                 *)
NoLostWakeup ==
    /\ \A p \in NonceProcs :
         nonceStage[p] \in WaitsForLock /\ p \notin lockOwners
             => \E i \in DOMAIN lockQueue : lockQueue[i] = p
    /\ lockQueue # <<>> => lockOwners # {}
    /\ \A p \in lockOwners : nonceStage[p] \in WaitsForLock \cup UnderLock
=============================================================================
