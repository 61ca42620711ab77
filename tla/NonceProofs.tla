----------------------------- MODULE NonceProofs -----------------------------
(* Nonces and the lock of their allocation, in NonceManager: the types, that no  *)
(* two transactions share a nonce, that none is lost but by a reset or a chain    *)
(* that counts what it did not get, and that the lock excludes and forgets no one.*)
EXTENDS NonceManager, FiniteSetTheorems, WellFoundedInduction, TLAPS

Stages == {"idle", "pool", "direct", "sync", "tx", "sent", "fill", "fillsync",
           "ask", "apply"}

CounterTypes ==
  /\ confirmedNonce \in Int /\ pendingNonce \in Int /\ poolGeneration \in Nat
  /\ noncePool \in Seq(Int)

HolderTypes ==
  /\ nonceOf \in [Callers -> Int \cup {NoNonce}]
  /\ bornIn \in [Callers -> Nat]

RequestTypes ==
  /\ isReplenishing \in BOOLEAN
  /\ fillRequest \in [Fillers -> [needed : Nat, generation : Nat]]
  /\ seenCount \in [NonceProcs -> Int] /\ netCount \in Int
  /\ nonceStage \in [NonceProcs -> Stages]

TrackedTypes == DOMAIN pendingTxs \subseteq Int /\ IsFiniteSet(DOMAIN pendingTxs)

NumberTypes == CounterTypes /\ HolderTypes /\ RequestTypes /\ TrackedTypes

\* A set of numbers has a least element.
LEMMA LeastNumber ==
  ASSUME NEW T \in SUBSET Nat, T # {}
  PROVE  \E x \in T : \A y \in T : x <= y
<1> DEFINE less == OpToRel(<, Nat)
<1>1. \A a, b \in Nat : <<a, b>> \in less <=> a < b
  BY Zenon DEF OpToRel
<1>2. \E x \in T : \A y \in T : ~ (<<y, x>> \in less)
  BY WFMin, NatLessThanWellFounded
<1> HIDE DEF less
<1>3. \A a, b \in Nat : ~ (a < b) => b <= a
  OBVIOUS
<1>4. \A a, b \in T : ~ (<<a, b>> \in less) => b <= a
  BY Zenon, <1>1, <1>3
<1> QED BY Zenon, <1>2, <1>4

\* Among as many nonces as are tracked, and one more, one is not confirmed: the
\* walk of advanceConfirmedNonce comes to an end at the first of them.
LEMMA AdvanceEnds ==
  ASSUME NEW n \in Int, NEW txs, IsFiniteSet(DOMAIN txs)
  PROVE  /\ AdvancedFrom(n, txs) \in n..(n + Cardinality(DOMAIN txs))
         /\ \A k \in n..(AdvancedFrom(n, txs) - 1) : k \in DOMAIN txs /\ txs[k] = "confirmed"
<1> DEFINE size == Cardinality(DOMAIN txs)
           Confirmed(k) == k \in DOMAIN txs /\ txs[k] = "confirmed"
           open == {d \in Nat : d <= size /\ ~Confirmed(n + d)}
<1>1. size \in Nat
  BY FS_CardinalityType
<1>2. open # {}
  <2> SUFFICES ASSUME open = {} PROVE FALSE
    OBVIOUS
  <2>1. n..(n + size) \subseteq DOMAIN txs
    <3> SUFFICES ASSUME NEW k \in n..(n + size) PROVE k \in DOMAIN txs
      OBVIOUS
    <3>1. k - n \in Nat /\ k - n <= size /\ n + (k - n) = k
      BY <1>1
    <3> QED BY <3>1
  <2>2. Cardinality(n..(n + size)) <= size
    BY <2>1, FS_Subset
  <2>3. Cardinality(n..(n + size)) = size + 1
    BY <1>1, FS_Interval
  <2> QED BY <1>1, <2>2, <2>3
<1>3. PICK d \in open : \A e \in open : d <= e
  BY <1>2, LeastNumber
<1>4. \A k \in n..(n + d - 1) : Confirmed(k)
  <2> SUFFICES ASSUME NEW k \in n..(n + d - 1), ~Confirmed(k) PROVE FALSE
    OBVIOUS
  <2>1. k - n \in Nat /\ k - n < d /\ n + (k - n) = k /\ d <= size
    BY <1>1
  <2>2. k - n \in open
    BY <1>1, <2>1
  <2> QED BY <1>3, <2>1, <2>2
<1>5. n + d \in n..(n + size)
  BY <1>1
<1> HIDE DEF size
<1>6. \E m \in n..(n + size) :
        /\ \A k \in n..(m - 1) : k \in DOMAIN txs /\ txs[k] = "confirmed"
        /\ ~(m \in DOMAIN txs /\ txs[m] = "confirmed")
  BY <1>4, <1>5
<1> QED BY <1>6 DEF AdvancedFrom, size

-----------------------------------------------------------------------------
(* The types of the numbers. *)

\* A reply moves pendingNonce forward, or leaves it.
LEMMA RepliesGrow ==
  ASSUME NumberTypes, NEW p \in NonceProcs, NEW counters \in AfterReply(p)
  PROVE  counters[1] \in Int /\ counters[2] \in Int /\ counters[2] >= pendingNonce
<1>1. pendingNonce \in Int /\ confirmedNonce \in Int /\ seenCount[p] \in Int /\ netCount \in Int
  BY DEF NumberTypes, CounterTypes, RequestTypes
<1>2. CASE counters = <<confirmedNonce, pendingNonce>>
  BY <1>1, <1>2
<1>3. CASE \E count \in seenCount[p]..netCount : counters = <<count, SyncedPending(count)>>
  BY <1>1, <1>3 DEF SyncedPending
<1> QED BY <1>2, <1>3 DEF AfterReply

\* Tracked nonces that are dropped leave fewer of them.
LEMMA DropTracked ==
  ASSUME TrackedTypes, NEW ns
  PROVE  /\ DOMAIN TrackedBut(pendingTxs, ns) \subseteq Int
         /\ IsFiniteSet(DOMAIN TrackedBut(pendingTxs, ns))
<1>1. DOMAIN TrackedBut(pendingTxs, ns) \subseteq DOMAIN pendingTxs
  BY DEF TrackedBut
<1> QED BY <1>1, FS_Subset DEF TrackedTypes

\* A nonce that is given is held and tracked.
LEMMA GivenTyped ==
  ASSUME HolderTypes, NEW c \in Callers, NEW n \in Int, NEW txs, NEW generation \in Nat,
         DOMAIN txs \subseteq Int, IsFiniteSet(DOMAIN txs), GiveNonce(c, n, txs, generation)
  PROVE  HolderTypes' /\ TrackedTypes'
<1>1. DOMAIN pendingTxs' = DOMAIN txs \cup {n}
  BY DEF GiveNonce
<1>2. TrackedTypes'
  BY <1>1, FS_AddElement DEF TrackedTypes
<1> QED BY <1>2 DEF GiveNonce, HolderTypes

\* The standard path gives a nonce or refuses.
LEMMA NonceAfterTyped ==
  ASSUME NumberTypes, NEW c \in Callers, NEW txs, NEW pending \in Int, NEW generation \in Nat,
         DOMAIN txs \subseteq Int, IsFiniteSet(DOMAIN txs),
         NonceAfter(c, txs, pending, generation)
  PROVE  /\ pendingNonce' \in Int /\ HolderTypes' /\ TrackedTypes'
         /\ nonceStage' \in [NonceProcs -> Stages]
<1>1. c \in NonceProcs /\ nonceStage \in [NonceProcs -> Stages] /\ HolderTypes
  BY DEF NumberTypes, RequestTypes, NonceProcs
<1>2. CASE Cardinality(DOMAIN txs) >= MaxPending
  BY <1>1, <1>2 DEF NonceAfter, MoveTo, Stages, HolderTypes, TrackedTypes
<1>3. CASE ~ (Cardinality(DOMAIN txs) >= MaxPending)
  <2>1. HolderTypes' /\ TrackedTypes'
    BY <1>1, <1>3, GivenTyped DEF NonceAfter
  <2>2. nonceStage' \in [NonceProcs -> Stages]
    BY <1>1, <1>3 DEF NonceAfter, MoveTo, Stages
  <2> QED BY <1>3, <2>1, <2>2 DEF NonceAfter
<1> QED BY <1>2, <1>3

\* So does the whole of it, with the cleanup that may come before.
LEMMA AllocateTyped ==
  ASSUME NumberTypes, NEW c \in Callers, NEW counters, counters[1] \in Int,
         counters[2] \in Int, AllocateFrom(c, counters)
  PROVE  NumberTypes'
<1>0. /\ poolGeneration \in Nat /\ noncePool \in Seq(Int) /\ isReplenishing \in BOOLEAN
      /\ fillRequest \in [Fillers -> [needed : Nat, generation : Nat]]
      /\ seenCount \in [NonceProcs -> Int] /\ netCount \in Int
      /\ TrackedTypes /\ c \in NonceProcs
  BY DEF NumberTypes, CounterTypes, RequestTypes, NonceProcs
<1>1. seenCount' \in [NonceProcs -> Int] /\ fillRequest' = fillRequest /\ netCount' = netCount
  BY <1>0 DEF AllocateFrom, netVars
<1>2. CASE /\ NonceAfter(c, pendingTxs, counters[2], poolGeneration)
           /\ confirmedNonce' = counters[1]
           /\ UNCHANGED <<noncePool, poolGeneration, isReplenishing, givenUp>>
  <2>1. /\ pendingNonce' \in Int /\ HolderTypes' /\ TrackedTypes'
        /\ nonceStage' \in [NonceProcs -> Stages]
    BY <1>0, <1>2, NonceAfterTyped DEF TrackedTypes
  <2> QED BY <1>0, <1>1, <1>2, <2>1 DEF NumberTypes, CounterTypes, RequestTypes
<1>3. CASE \E timedOut \in SUBSET DOMAIN pendingTxs \ {{}} :
             /\ NonceAfter(c, TrackedBut(pendingTxs, timedOut), -1, poolGeneration + 1)
             /\ confirmedNonce' = -1
             /\ ResetPool
  <2>0. PICK timedOut \in SUBSET DOMAIN pendingTxs :
          NonceAfter(c, TrackedBut(pendingTxs, timedOut), -1, poolGeneration + 1)
    BY <1>3
  <2>1. /\ pendingNonce' \in Int /\ HolderTypes' /\ TrackedTypes'
        /\ nonceStage' \in [NonceProcs -> Stages]
    <3>1. poolGeneration + 1 \in Nat /\ -1 \in Int
      BY <1>0
    <3>2. /\ DOMAIN TrackedBut(pendingTxs, timedOut) \subseteq Int
          /\ IsFiniteSet(DOMAIN TrackedBut(pendingTxs, timedOut))
      BY <1>0, DropTracked
    <3> QED BY <2>0, <3>1, <3>2, NonceAfterTyped
  <2>2. /\ poolGeneration' \in Nat /\ noncePool' = <<>> /\ isReplenishing' = FALSE
        /\ confirmedNonce' = -1
    BY <1>0, <1>3 DEF ResetPool
  <2>3. CounterTypes'
    BY <2>1, <2>2 DEF CounterTypes
  <2>4. RequestTypes'
    BY <1>0, <1>1, <2>1, <2>2 DEF RequestTypes
  <2> QED BY <2>1, <2>3, <2>4 DEF NumberTypes
<1> QED BY <1>2, <1>3 DEF AllocateFrom

\* What a replenishment adds to the pool.
LEMMA NumbersInOrder ==
  ASSUME NEW b \in Int, NEW n \in Nat
  PROVE  [i \in 1..n |-> b + i - 1] \in Seq(Int)
OBVIOUS

\* The pool is filled with numbers.
LEMMA FillTyped ==
  ASSUME NumberTypes, NEW f \in Fillers, NEW counters, counters[1] \in Int,
         counters[2] \in Int, FillFrom(f, counters)
  PROVE  NumberTypes'
<1>1. /\ fillRequest[f].needed \in Nat /\ noncePool \in Seq(Int) /\ f \in NonceProcs
      /\ NoFill \in [needed : Nat, generation : Nat]
  BY DEF NumberTypes, CounterTypes, RequestTypes, NonceProcs, NoFill
<1>2. noncePool' \in Seq(Int)
  <2> DEFINE added == [i \in 1..fillRequest[f].needed |-> counters[2] + i - 1]
  <2>1. added \in Seq(Int)
    BY <1>1, NumbersInOrder
  <2> HIDE DEF added
  <2>2. noncePool \o added \in Seq(Int)
    BY <1>1, <2>1
  <2> QED BY <2>2 DEF FillFrom, added
<1>3. CounterTypes'
  BY <1>1, <1>2 DEF FillFrom, NumberTypes, CounterTypes
<1>4. RequestTypes'
  <2>0. /\ fillRequest \in [Fillers -> [needed : Nat, generation : Nat]]
        /\ seenCount \in [NonceProcs -> Int] /\ netCount \in Int
        /\ nonceStage \in [NonceProcs -> Stages]
    BY DEF NumberTypes, RequestTypes
  <2>1. fillRequest' \in [Fillers -> [needed : Nat, generation : Nat]]
    BY <1>1, <2>0 DEF FillFrom, EndFill
  <2>2. seenCount' \in [NonceProcs -> Int] /\ netCount' \in Int
    BY <1>1, <2>0 DEF FillFrom, netVars
  <2>3. nonceStage' \in [NonceProcs -> Stages]
    BY <1>1, <2>0 DEF FillFrom, EndFill, MoveTo, Stages
  <2> QED BY <2>1, <2>2, <2>3 DEF RequestTypes, FillFrom, EndFill
<1>5. HolderTypes' /\ TrackedTypes'
  BY DEF FillFrom, NumberTypes, HolderTypes, TrackedTypes
<1> QED BY <1>3, <1>4, <1>5 DEF NumberTypes

\* A transaction that comes to an end gives its nonce up.
LEMMA EndTxTyped ==
  ASSUME NumberTypes, NEW c \in Callers, EndTx(c), isReplenishing' \in BOOLEAN
  PROVE  HolderTypes' /\ RequestTypes'
<1>1. c \in NonceProcs
  BY DEF NonceProcs
<1> QED BY <1>1 DEF EndTx, MoveTo, NumberTypes, HolderTypes, RequestTypes, netVars, Stages

\* Confirming a transaction advances over what is confirmed.
LEMMA ConfirmTyped ==
  ASSUME NumberTypes, NEW c \in Callers, ConfirmTransaction(c)
  PROVE  NumberTypes'
<1>0. /\ TrackedTypes /\ pendingNonce \in Int /\ poolGeneration \in Nat
      /\ noncePool \in Seq(Int) /\ confirmedNonce \in Int
      /\ DOMAIN pendingTxs \subseteq Int /\ IsFiniteSet(DOMAIN pendingTxs)
  BY DEF NumberTypes, CounterTypes, TrackedTypes
<1>1. HolderTypes' /\ RequestTypes'
  BY EndTxTyped DEF ConfirmTransaction, NumberTypes, RequestTypes
<1>2. confirmedNonce' \in Int /\ TrackedTypes'
  <2> DEFINE n == nonceOf[c]
  <2>1. CASE /\ n \in DOMAIN pendingTxs
             /\ confirmedNonce' = AdvancedFrom(n + 1, pendingTxs)
             /\ pendingTxs' = TrackedBut(pendingTxs, n..(confirmedNonce' - 1))
    <3>1. n + 1 \in Int /\ Cardinality(DOMAIN pendingTxs) \in Nat
      BY <1>0, <2>1, FS_CardinalityType
    <3>2. AdvancedFrom(n + 1, pendingTxs) \in (n + 1)..(n + 1 + Cardinality(DOMAIN pendingTxs))
      BY <1>0, <3>1, AdvanceEnds
    <3>3. confirmedNonce' \in Int
      BY <2>1, <3>1, <3>2
    <3> QED BY <1>0, <2>1, <3>3, DropTracked DEF TrackedTypes
  <2>2. CASE /\ n \in DOMAIN pendingTxs
             /\ pendingTxs' = [pendingTxs EXCEPT ![n] = "confirmed"]
             /\ UNCHANGED confirmedNonce
    <3>1. DOMAIN pendingTxs' = DOMAIN pendingTxs
      BY <2>2
    <3> QED BY <1>0, <2>2, <3>1 DEF TrackedTypes
  <2>3. CASE UNCHANGED <<confirmedNonce, pendingTxs>>
    BY <1>0, <2>3 DEF TrackedTypes
  <2> QED BY <2>1, <2>2, <2>3 DEF ConfirmTransaction
<1>3. CounterTypes'
  BY <1>0, <1>2 DEF ConfirmTransaction, CounterTypes
<1> QED BY <1>1, <1>2, <1>3 DEF NumberTypes

\* Failing one drops it, and perhaps all that was known.
LEMMA FailTyped ==
  ASSUME NumberTypes, NEW c \in Callers, FailTransaction(c)
  PROVE  NumberTypes'
<1>0. TrackedTypes /\ CounterTypes /\ isReplenishing \in BOOLEAN
  BY DEF NumberTypes, RequestTypes
<1>1. CASE /\ pendingTxs' = TrackedBut(pendingTxs, {nonceOf[c]})
           /\ confirmedNonce' = -1 /\ pendingNonce' = -1
           /\ ResetPool
  <2>1. HolderTypes' /\ RequestTypes'
    BY <1>1, EndTxTyped DEF FailTransaction, ResetPool
  <2>2. CounterTypes' /\ TrackedTypes'
    BY <1>0, <1>1, DropTracked DEF CounterTypes, TrackedTypes, ResetPool
  <2> QED BY <2>1, <2>2 DEF NumberTypes
<1>2. CASE /\ pendingTxs' = TrackedBut(pendingTxs, {nonceOf[c]}) \/ UNCHANGED pendingTxs
           /\ UNCHANGED <<nonceCounters, isReplenishing>>
  <2>1. HolderTypes' /\ RequestTypes'
    BY <1>0, <1>2, EndTxTyped DEF FailTransaction
  <2>2. CounterTypes'
    BY <1>0, <1>2 DEF CounterTypes, nonceCounters
  <2>3. TrackedTypes'
    BY <1>0, <1>2, DropTracked DEF TrackedTypes
  <2> QED BY <2>1, <2>2, <2>3 DEF NumberTypes
<1> QED BY <1>1, <1>2 DEF FailTransaction

\* Taking a nonce from the pool, with the replenishment it may start.
LEMMA TakeTyped ==
  ASSUME NumberTypes, NEW c \in Callers, TakeFromPool(c)
  PROVE  NumberTypes'
<1>0. /\ noncePool \in Seq(Int) /\ noncePool # <<>> /\ poolGeneration \in Nat
      /\ TrackedTypes /\ HolderTypes /\ c \in NonceProcs
      /\ fillRequest \in [Fillers -> [needed : Nat, generation : Nat]]
      /\ nonceStage \in [NonceProcs -> Stages]
  BY DEF TakeFromPool, NumberTypes, CounterTypes, RequestTypes, NonceProcs
<1>1. Head(noncePool) \in Int /\ Tail(noncePool) \in Seq(Int) /\ Len(noncePool) \in Nat
  BY <1>0
<1>2. HolderTypes' /\ TrackedTypes'
  BY <1>0, <1>1, GivenTyped DEF TakeFromPool, TrackedTypes
<1>3. CounterTypes'
  BY <1>1 DEF TakeFromPool, NumberTypes, CounterTypes
<1>4. RequestTypes'
  <2>1. CASE ~PoolLow
    BY <1>0, <2>1 DEF TakeFromPool, MoveTo, NumberTypes, RequestTypes, netVars, Stages
  <2>2. CASE PoolLow
    <3>1. PoolSize - (Len(noncePool) - 1) \in Nat
      BY <1>1, <2>2, NonceAssumption DEF PoolLow
    <3>2. fillRequest' \in [Fillers -> [needed : Nat, generation : Nat]]
      <4>1. PICK f \in Fillers :
              fillRequest' = [fillRequest EXCEPT ![f] =
                  [needed |-> PoolSize - (Len(noncePool) - 1), generation |-> poolGeneration]]
        BY <2>2 DEF TakeFromPool
      <4>2. [needed |-> PoolSize - (Len(noncePool) - 1), generation |-> poolGeneration]
              \in [needed : Nat, generation : Nat]
        BY <1>0, <3>1
      <4> QED BY <1>0, <4>1, <4>2
    <3>3. nonceStage' \in [NonceProcs -> Stages]
      BY <1>0, <2>2 DEF TakeFromPool, NonceProcs, Stages
    <3> QED BY <2>2, <3>2, <3>3 DEF TakeFromPool, NumberTypes, RequestTypes, netVars
  <2> QED BY <2>1, <2>2
<1> QED BY <1>2, <1>3, <1>4 DEF NumberTypes

\* Nothing but the stage, and perhaps a count that was seen, changes.
LEMMA StageTyped ==
  ASSUME NumberTypes, nonceStage' \in [NonceProcs -> Stages],
         seenCount' \in [NonceProcs -> Int], netCount' \in Int, isReplenishing' \in BOOLEAN,
         fillRequest' \in [Fillers -> [needed : Nat, generation : Nat]],
         UNCHANGED <<nonceCounters, pendingTxs, nonceOf, bornIn>>
  PROVE  NumberTypes'
BY DEF NumberTypes, CounterTypes, HolderTypes, RequestTypes, TrackedTypes, nonceCounters

\* The other steps of a caller.
LEMMA CallerTyped ==
  ASSUME NumberTypes, NEW c \in Callers,
         \/ StartAllocation(c) \/ PoolDrained(c) \/ PoolRefused(c) \/ AskBeforeAllocation(c)
         \/ SendTx(c) \/ LeaveUnconfirmed(c)
  PROVE  NumberTypes'
<1>0. /\ c \in NonceProcs /\ nonceStage \in [NonceProcs -> Stages]
      /\ seenCount \in [NonceProcs -> Int] /\ netCount \in Int /\ isReplenishing \in BOOLEAN
      /\ fillRequest \in [Fillers -> [needed : Nat, generation : Nat]]
  BY DEF NumberTypes, RequestTypes, NonceProcs
<1> USE DEF MoveTo, Stages, AskCount, netVars
<1>1. CASE StartAllocation(c) \/ PoolDrained(c)
  BY <1>0, <1>1, StageTyped DEF StartAllocation, PoolDrained
<1>2. CASE PoolRefused(c)
  <2>1. PoolPutBack = noncePool
    BY <1>2 DEF PoolRefused, PoolPutBack, NumberTypes, CounterTypes
  <2> QED BY <1>0, <1>2, <2>1, StageTyped DEF PoolRefused, nonceCounters
<1>3. CASE AskBeforeAllocation(c)
  BY <1>0, <1>3, StageTyped DEF AskBeforeAllocation
<1>4. CASE SendTx(c)
  BY <1>0, <1>4, StageTyped DEF SendTx
<1>5. CASE LeaveUnconfirmed(c)
  <2>1. HolderTypes' /\ RequestTypes'
    BY <1>0, <1>5, EndTxTyped DEF LeaveUnconfirmed
  <2> QED BY <1>5, <2>1
          DEF LeaveUnconfirmed, NumberTypes, CounterTypes, TrackedTypes, nonceCounters
<1> QED BY <1>1, <1>2, <1>3, <1>4, <1>5

\* The other steps of a replenishment.
LEMMA FillerTyped ==
  ASSUME NumberTypes, NEW f \in Fillers, FillAborted(f) \/ AskBeforeFill(f)
  PROVE  NumberTypes'
<1>0. /\ f \in NonceProcs /\ nonceStage \in [NonceProcs -> Stages]
      /\ seenCount \in [NonceProcs -> Int] /\ netCount \in Int /\ isReplenishing \in BOOLEAN
      /\ fillRequest \in [Fillers -> [needed : Nat, generation : Nat]]
      /\ NoFill \in [needed : Nat, generation : Nat]
  BY DEF NumberTypes, RequestTypes, NonceProcs, NoFill
<1> USE DEF MoveTo, Stages, AskCount, netVars
<1>1. CASE AskBeforeFill(f)
  BY <1>0, <1>1, StageTyped DEF AskBeforeFill
<1>2. CASE FillAborted(f)
  BY <1>0, <1>2, StageTyped DEF FillAborted, EndFill
<1> QED BY <1>1, <1>2

\* The steps of the background sync and of the network.
LEMMA SyncTyped ==
  ASSUME NumberTypes, StartSync \/ SyncAnswered \/ SyncApplied \/ NetworkAccepts
  PROVE  NumberTypes'
<1>0. /\ Syncer \in NonceProcs /\ nonceStage \in [NonceProcs -> Stages]
      /\ seenCount \in [NonceProcs -> Int] /\ netCount \in Int /\ isReplenishing \in BOOLEAN
      /\ fillRequest \in [Fillers -> [needed : Nat, generation : Nat]]
  BY DEF NumberTypes, RequestTypes, NonceProcs
<1> USE DEF MoveTo, Stages, AskCount, netVars
<1>1. CASE StartSync
  BY <1>0, <1>1, StageTyped DEF StartSync
<1>2. CASE SyncAnswered
  <2>1. \A count \in seenCount[Syncer]..netCount : count \in Int
    BY <1>0
  <2>2. nonceStage' \in [NonceProcs -> Stages] /\ seenCount' \in [NonceProcs -> Int]
    BY <1>0, <1>2, <2>1 DEF SyncAnswered
  <2> QED BY <1>0, <1>2, <2>2, StageTyped DEF SyncAnswered
<1>3. CASE SyncApplied
  <2>1. seenCount[Syncer] \in Int /\ SyncedPending(seenCount[Syncer]) \in Int
    BY <1>0 DEF SyncedPending, NumberTypes, CounterTypes
  <2>2. CounterTypes'
    BY <1>3, <2>1 DEF SyncApplied, NumberTypes, CounterTypes
  <2>3. RequestTypes'
    BY <1>0, <1>3 DEF SyncApplied, RequestTypes
  <2> QED BY <1>3, <2>2, <2>3 DEF SyncApplied, NumberTypes, HolderTypes, TrackedTypes
<1>4. CASE NetworkAccepts
  BY <1>0, <1>4, StageTyped DEF NetworkAccepts
<1> QED BY <1>1, <1>2, <1>3, <1>4

\* An allocation under the lock.
LEMMA AllocationTyped ==
  ASSUME NumberTypes, NEW c \in Callers, AllocateDirect(c) \/ AllocateAfterReply(c)
  PROVE  NumberTypes'
<1>1. CASE AllocateDirect(c)
  <2> DEFINE counters == <<confirmedNonce, pendingNonce>>
  <2>1. counters[1] \in Int /\ counters[2] \in Int
    BY DEF NumberTypes, CounterTypes
  <2>2. AllocateFrom(c, counters)
    BY <1>1 DEF AllocateDirect
  <2> HIDE DEF counters
  <2> QED BY <2>1, <2>2, AllocateTyped
<1>2. CASE AllocateAfterReply(c)
  <2>1. PICK counters \in AfterReply(c) : AllocateFrom(c, counters)
    BY <1>2 DEF AllocateAfterReply
  <2> QED BY <2>1, RepliesGrow, AllocateTyped DEF NonceProcs
<1> QED BY <1>1, <1>2

\* A replenishment under the lock.
LEMMA RefillTyped ==
  ASSUME NumberTypes, NEW f \in Fillers, FillNow(f) \/ FillAfterReply(f)
  PROVE  NumberTypes'
<1>1. CASE FillNow(f)
  <2> DEFINE counters == <<confirmedNonce, pendingNonce>>
  <2>1. counters[1] \in Int /\ counters[2] \in Int
    BY DEF NumberTypes, CounterTypes
  <2>2. FillFrom(f, counters)
    BY <1>1 DEF FillNow
  <2> HIDE DEF counters
  <2> QED BY <2>1, <2>2, FillTyped
<1>2. CASE FillAfterReply(f)
  <2>1. PICK counters \in AfterReply(f) : FillFrom(f, counters)
    BY <1>2 DEF FillAfterReply
  <2> QED BY <2>1, RepliesGrow, FillTyped DEF NonceProcs
<1> QED BY <1>1, <1>2

\* The numbers have their types in the initial state.
LEMMA NumbersInit == NonceInit => NumberTypes
<1> SUFFICES ASSUME NonceInit PROVE NumberTypes
  OBVIOUS
<1>1. CounterTypes
  BY DEF NonceInit, CounterTypes
<1>2. HolderTypes
  BY DEF NonceInit, HolderTypes
<1>3. TrackedTypes
  <2>1. DOMAIN pendingTxs = {}
    BY DEF NonceInit
  <2> QED BY <2>1, FS_EmptySet DEF TrackedTypes
<1>4. RequestTypes
  <2>1. /\ [needed |-> PoolSize, generation |-> 0] \in [needed : Nat, generation : Nat]
        /\ NoFill \in [needed : Nat, generation : Nat]
    BY NonceAssumption DEF NoFill
  <2>2. fillRequest \in [Fillers -> [needed : Nat, generation : Nat]]
    BY <2>1 DEF NonceInit
  <2>3. seenCount \in [NonceProcs -> Int] /\ netCount \in Int
    BY DEF NonceInit
  <2>4. nonceStage \in [NonceProcs -> Stages]
    BY DEF NonceInit, Stages
  <2>5. isReplenishing \in BOOLEAN
    BY DEF NonceInit
  <2> QED BY <2>2, <2>3, <2>4, <2>5 DEF RequestTypes
<1> QED BY <1>1, <1>2, <1>3, <1>4 DEF NumberTypes

\* Every step keeps them.
LEMMA NumbersKept ==
  ASSUME NumberTypes, [NonceNext]_nonceVars
  PROVE  NumberTypes'
<1>1. CASE \E c \in Callers : StartAllocation(c) \/ AllocationStep(c) \/ TxStep(c)
  BY <1>1, CallerTyped, TakeTyped, AllocationTyped, ConfirmTyped, FailTyped
     DEF AllocationStep, TxStep
<1>2. CASE \E f \in Fillers : FillStep(f)
  BY <1>2, FillerTyped, RefillTyped DEF FillStep
<1>3. CASE StartSync \/ SyncAnswered \/ SyncApplied \/ NetworkAccepts
  BY <1>3, SyncTyped
<1>4. CASE UNCHANGED nonceVars
  BY <1>4 DEF nonceVars, nonceCounters, netVars, lockVars, NumberTypes, CounterTypes,
              HolderTypes, RequestTypes, TrackedTypes
<1> QED BY <1>1, <1>2, <1>3, <1>4 DEF NonceNext

-----------------------------------------------------------------------------
(* The lock. *)

\* Those who asked for the lock and have not released it.
Busy == {p \in NonceProcs : nonceStage[p] \in WaitsForLock \cup UnderLock}

\* The lock as those of P see it: each of them has it or is queued once, one at
\* most has it, and the queue waits for somebody.
LockWell(l, P) ==
  /\ l.held <=> l.owners # {}
  /\ l.owners \subseteq P
  /\ \A p, q \in l.owners : p = q
  /\ l.queue \in Seq(P)
  /\ l.queue # <<>> => l.owners # {}
  /\ \A i \in 1..Len(l.queue) : l.queue[i] \notin l.owners
  /\ \A i, j \in 1..Len(l.queue) : l.queue[i] = l.queue[j] => i = j
  /\ \A p \in P : p \in l.owners \/ \E i \in 1..Len(l.queue) : l.queue[i] = p

LockShape == [held : BOOLEAN, queue : Seq(NonceProcs), owners : SUBSET NonceProcs]

LockInv ==
  /\ NonceLock \in LockShape
  /\ LockWell(NonceLock, Busy)
  /\ \A p \in NonceProcs : nonceStage[p] \in UnderLock => p \in lockOwners

\* What becomes of the lock, field by field.
LEMMA LockSteps ==
  ASSUME NEW l \in LockShape, NEW p \in NonceProcs
  PROVE  /\ l.queue = <<>> /\ ~l.held /\ l.owners = {} =>
              JoinLock(l, p) = [held |-> TRUE, queue |-> <<>>, owners |-> {p}]
         /\ l.held =>
              JoinLock(l, p) = [held |-> TRUE, queue |-> Append(l.queue, p),
                                owners |-> l.owners]
         /\ l.owners = {p} /\ l.queue = <<>> =>
              PassLock(l, p) = [held |-> FALSE, queue |-> <<>>, owners |-> {}]
         /\ l.owners = {p} /\ l.held /\ l.queue # <<>> =>
              PassLock(l, p) = [held |-> TRUE, queue |-> Tail(l.queue),
                                owners |-> {Head(l.queue)}]
<1>1. ASSUME l.queue = <<>>, ~l.held, l.owners = {}
      PROVE  JoinLock(l, p) = [held |-> TRUE, queue |-> <<>>, owners |-> {p}]
  <2>1. JoinLock(l, p) = [l EXCEPT !.held = TRUE, !.owners = @ \cup {p}]
    BY <1>1 DEF JoinLock
  <2>2. l = [held |-> FALSE, queue |-> <<>>, owners |-> {}] /\ l.owners \cup {p} = {p}
    BY <1>1 DEF LockShape
  <2> QED BY <2>1, <2>2
<1>2. ASSUME l.held
      PROVE  JoinLock(l, p) =
               [held |-> TRUE, queue |-> Append(l.queue, p), owners |-> l.owners]
  <2>1. JoinLock(l, p) = [l EXCEPT !.queue = Append(@, p)]
    BY <1>2 DEF JoinLock
  <2>2. l.held = TRUE
    BY <1>2 DEF LockShape
  <2> QED BY <2>1, <2>2 DEF LockShape
<1>3. ASSUME l.owners = {p}, l.queue = <<>>
      PROVE  PassLock(l, p) = [held |-> FALSE, queue |-> <<>>, owners |-> {}]
  <2>1. PassLock(l, p) = [l EXCEPT !.held = FALSE, !.owners = @ \ {p}]
    BY <1>3 DEF PassLock
  <2> QED BY <1>3, <2>1 DEF LockShape
<1>4. ASSUME l.owners = {p}, l.held, l.queue # <<>>
      PROVE  PassLock(l, p) =
               [held |-> TRUE, queue |-> Tail(l.queue), owners |-> {Head(l.queue)}]
  <2>1. PassLock(l, p) = [l EXCEPT !.queue = Tail(@),
                                   !.owners = (@ \ {p}) \cup {Head(l.queue)}]
    BY <1>4 DEF PassLock
  <2>2. l.held = TRUE /\ (l.owners \ {p}) \cup {Head(l.queue)} = {Head(l.queue)}
    BY <1>4 DEF LockShape
  <2> QED BY <2>1, <2>2 DEF LockShape
<1> QED BY <1>1, <1>2, <1>3, <1>4

\* A function on 1..n is a sequence.
LEMMA FunctionIsSeq ==
  ASSUME NEW S, NEW n \in Nat, NEW F \in [1..n -> S]
  PROVE  F \in Seq(S)
OBVIOUS

\* One more asks for the lock.
LEMMA JoinWell ==
  ASSUME NEW l \in LockShape, NEW P \in SUBSET NonceProcs, LockWell(l, P),
         NEW p \in NonceProcs, p \notin P
  PROVE  JoinLock(l, p) \in LockShape /\ LockWell(JoinLock(l, p), P \cup {p})
<1>1. CASE l.queue = <<>> /\ ~l.held
  <2>1. JoinLock(l, p) = [held |-> TRUE, queue |-> <<>>, owners |-> {p}] /\ P = {}
    BY <1>1, LockSteps DEF LockWell
  <2> QED BY <2>1 DEF LockWell, LockShape
<1>2. CASE ~(l.queue = <<>> /\ ~l.held)
  <2>1. JoinLock(l, p) = [held |-> TRUE, queue |-> Append(l.queue, p), owners |-> l.owners]
    BY <1>2, LockSteps DEF LockWell
  <2>2. l.queue \in Seq(P) /\ Append(l.queue, p) \in Seq(P \cup {p})
    BY DEF LockWell
  <2>3. /\ Len(Append(l.queue, p)) = Len(l.queue) + 1 /\ Len(l.queue) \in Nat
        /\ \A i \in 1..Len(l.queue) : Append(l.queue, p)[i] = l.queue[i] /\ l.queue[i] \in P
        /\ Append(l.queue, p)[Len(l.queue) + 1] = p
    BY <2>2
  <2>4. \A i \in 1..(Len(l.queue) + 1) : i \in 1..Len(l.queue) \/ i = Len(l.queue) + 1
    BY <2>3
  <2>5. l.owners # {} /\ l.owners \subseteq P
    BY <1>2 DEF LockWell
  <2>6. \A i \in 1..Len(Append(l.queue, p)) : Append(l.queue, p)[i] \notin l.owners
    BY <2>3, <2>4, <2>5 DEF LockWell
  <2>7. \A i, j \in 1..Len(Append(l.queue, p)) :
           Append(l.queue, p)[i] = Append(l.queue, p)[j] => i = j
    BY <2>3, <2>4 DEF LockWell
  <2>8. \A q \in P \cup {p} :
           q \in l.owners \/ \E i \in 1..Len(Append(l.queue, p)) : Append(l.queue, p)[i] = q
    <3> SUFFICES ASSUME NEW q \in P \cup {p}, q \notin l.owners
                 PROVE  \E i \in 1..Len(Append(l.queue, p)) : Append(l.queue, p)[i] = q
      OBVIOUS
    <3>1. CASE q = p
      BY <2>3, <3>1
    <3>2. CASE q \in P
      BY <2>3, <3>2 DEF LockWell
    <3> QED BY <3>1, <3>2
  <2>9. JoinLock(l, p) \in LockShape
    BY <2>1 DEF LockShape
  <2> QED BY <2>1, <2>2, <2>5, <2>6, <2>7, <2>8, <2>9 DEF LockWell
<1> QED BY <1>1, <1>2

\* One who has the lock passes it on.
LEMMA PassWell ==
  ASSUME NEW l \in LockShape, NEW P \in SUBSET NonceProcs, LockWell(l, P), NEW p \in l.owners
  PROVE  PassLock(l, p) \in LockShape /\ LockWell(PassLock(l, p), P \ {p})
<1>0. l.owners = {p} /\ p \in P
  BY DEF LockWell
<1>1. CASE l.queue = <<>>
  <2>1. PassLock(l, p) = [held |-> FALSE, queue |-> <<>>, owners |-> {}]
    BY <1>0, <1>1, LockSteps
  <2>2. P = {p}
    BY <1>0, <1>1 DEF LockWell
  <2> QED BY <2>1, <2>2 DEF LockWell, LockShape
<1>2. CASE l.queue # <<>>
  <2>1. /\ l.queue \in Seq(P) /\ Head(l.queue) \in P /\ Len(l.queue) \in Nat
        /\ Len(l.queue) > 0 /\ Tail(l.queue) \in Seq(P) /\ Head(l.queue) = l.queue[1]
        /\ Len(Tail(l.queue)) = Len(l.queue) - 1
        /\ \A i \in 1..(Len(l.queue) - 1) : Tail(l.queue)[i] = l.queue[i + 1]
    BY <1>2 DEF LockWell
  <2>2. /\ PassLock(l, p) = [held |-> TRUE, queue |-> Tail(l.queue),
                             owners |-> {Head(l.queue)}]
        /\ PassLock(l, p) \in LockShape
    <3>1. l.held
      BY <1>2 DEF LockWell
    <3>2. PassLock(l, p) = [held |-> TRUE, queue |-> Tail(l.queue),
                            owners |-> {Head(l.queue)}]
      BY <1>0, <1>2, <3>1, LockSteps
    <3>3. Tail(l.queue) \in Seq(NonceProcs) /\ Head(l.queue) \in NonceProcs
      BY <1>2 DEF LockShape
    <3> QED BY <3>2, <3>3 DEF LockShape
  <2>3. \A i \in 1..Len(l.queue) : l.queue[i] # p /\ l.queue[i] \in P
    BY <1>0, <2>1 DEF LockWell
  <2>4. \A i \in 1..Len(Tail(l.queue)) :
           /\ i + 1 \in 1..Len(l.queue) /\ Tail(l.queue)[i] = l.queue[i + 1]
           /\ Tail(l.queue)[i] \in P \ {p} /\ Tail(l.queue)[i] # Head(l.queue)
    BY <2>1, <2>3 DEF LockWell
  <2>5. Tail(l.queue) \in Seq(P \ {p})
    <3> DEFINE rest == Tail(l.queue)
    <3>0. rest \in Seq(P)
      BY <2>1
    <3>2. \A i \in 1..Len(rest) : rest[i] \in P \ {p}
      BY <2>4
    <3> HIDE DEF rest
    <3>1. rest \in [1..Len(rest) -> P] /\ Len(rest) \in Nat
      BY <3>0
    <3>3. rest \in [1..Len(rest) -> P \ {p}]
      BY <3>1, <3>2
    <3>4. rest \in Seq(P \ {p})
      BY <3>1, <3>3, FunctionIsSeq
    <3> QED BY <3>4 DEF rest
  <2>6. \A i, j \in 1..Len(Tail(l.queue)) : Tail(l.queue)[i] = Tail(l.queue)[j] => i = j
    <3> SUFFICES ASSUME NEW i \in 1..Len(Tail(l.queue)), NEW j \in 1..Len(Tail(l.queue)),
                        Tail(l.queue)[i] = Tail(l.queue)[j]
                 PROVE  i = j
      OBVIOUS
    <3>1. i + 1 = j + 1
      BY <2>4 DEF LockWell
    <3> QED BY <3>1, <2>1
  <2>7. \A q \in P \ {p} :
           q = Head(l.queue) \/ \E i \in 1..Len(Tail(l.queue)) : Tail(l.queue)[i] = q
    <3> SUFFICES ASSUME NEW q \in P \ {p}, q # Head(l.queue)
                 PROVE  \E i \in 1..Len(Tail(l.queue)) : Tail(l.queue)[i] = q
      OBVIOUS
    <3>1. PICK k \in 1..Len(l.queue) : l.queue[k] = q
      BY <1>0 DEF LockWell
    <3>2. k # 1 /\ k - 1 \in 1..Len(Tail(l.queue)) /\ Tail(l.queue)[k - 1] = q
      BY <2>1, <3>1
    <3> QED BY <3>2
  <2>8. Head(l.queue) \in P \ {p}
    BY <1>0, <2>1, <2>3 DEF LockWell
  <2> QED BY <2>2, <2>4, <2>5, <2>6, <2>7, <2>8 DEF LockWell
<1> QED BY <1>1, <1>2

\* Where those of the lock stand after a process has moved.
LEMMA MovedBusy ==
  ASSUME NEW p \in NonceProcs, nonceStage \in [NonceProcs -> Stages], NEW to, MoveTo(p, to)
  PROVE  /\ to \in WaitsForLock \cup UnderLock => Busy' = Busy \cup {p}
         /\ to \notin WaitsForLock \cup UnderLock => Busy' = Busy \ {p}
         /\ \A q \in NonceProcs : nonceStage'[q] = IF q = p THEN to ELSE nonceStage[q]
BY DEF Busy, MoveTo

\* Asking for the lock from outside.
LEMMA AsksForLock ==
  ASSUME LockInv, nonceStage \in [NonceProcs -> Stages], NEW p \in NonceProcs,
         p \notin Busy, NEW to \in WaitsForLock, MoveTo(p, to),
         SetLock(JoinLock(NonceLock, p))
  PROVE  LockInv'
<1>1. Busy' = Busy \cup {p} /\ Busy \in SUBSET NonceProcs
  BY MovedBusy DEF Busy
<1> DEFINE l == JoinLock(NonceLock, p)
<1>2. l \in LockShape /\ LockWell(l, Busy \cup {p}) /\ NonceLock.owners \subseteq l.owners
  <2>1. l \in LockShape /\ LockWell(l, Busy \cup {p})
    BY <1>1, JoinWell DEF LockInv
  <2>2. NonceLock.held \/ NonceLock.owners = {}
    BY DEF LockInv, LockWell
  <2>3. NonceLock.owners \subseteq l.owners
    BY <2>2, LockSteps DEF LockInv
  <2> QED BY <2>1, <2>3
<1> HIDE DEF l
<1>3. l = [held |-> l.held, queue |-> l.queue, owners |-> l.owners]
  BY <1>2 DEF LockShape
<1>4. NonceLock' = l
  BY <1>3 DEF SetLock, NonceLock, l
<1>5. \A q \in NonceProcs : nonceStage'[q] \in UnderLock => q \in lockOwners'
  <2>1. lockOwners \subseteq lockOwners'
    BY <1>2 DEF NonceLock, SetLock, l
  <2>2. to \notin UnderLock
    BY DEF WaitsForLock, UnderLock
  <2> QED BY <2>1, <2>2, MovedBusy DEF LockInv
<1> QED BY <1>1, <1>2, <1>4, <1>5 DEF LockInv

\* Leaving with the lock passed on.
LEMMA ReleasesLock ==
  ASSUME LockInv, nonceStage \in [NonceProcs -> Stages], NEW p \in lockOwners,
         NEW to, to \notin WaitsForLock \cup UnderLock, MoveTo(p, to),
         SetLock(PassLock(NonceLock, p))
  PROVE  LockInv'
<1>0. NonceLock.owners = lockOwners /\ lockOwners = {p} /\ p \in NonceProcs
  BY DEF NonceLock, LockInv, LockWell, Busy
<1>1. Busy' = Busy \ {p} /\ Busy \in SUBSET NonceProcs
  BY <1>0, MovedBusy DEF Busy
<1> DEFINE l == PassLock(NonceLock, p)
<1>2. l \in LockShape /\ LockWell(l, Busy \ {p})
  BY <1>0, <1>1, PassWell DEF LockInv
<1> HIDE DEF l
<1>3. l = [held |-> l.held, queue |-> l.queue, owners |-> l.owners]
  BY <1>2 DEF LockShape
<1>4. NonceLock' = l
  BY <1>3 DEF SetLock, NonceLock, l
<1>5. \A q \in NonceProcs : nonceStage'[q] \notin UnderLock
  BY <1>0, MovedBusy DEF LockInv
<1> QED BY <1>1, <1>2, <1>4, <1>5 DEF LockInv

\* Steps that leave the lock and the places at it alone.
LEMMA LockUntouched ==
  ASSUME LockInv, UNCHANGED lockVars, Busy' = Busy,
         \A p \in NonceProcs : nonceStage'[p] \in UnderLock => p \in lockOwners
  PROVE  LockInv'
<1>1. NonceLock' = NonceLock
  BY DEF NonceLock, lockVars
<1> QED BY <1>1 DEF LockInv, lockVars

\* The lock is well formed when the pool is being filled for the first time.
LEMMA LockInit == NonceInit => LockInv
<1> SUFFICES ASSUME NonceInit PROVE LockInv
  OBVIOUS
<1>1. CASE PoolSize > 0
  <2> DEFINE f == CHOOSE f \in Fillers : TRUE
  <2>1. f \in Fillers
    BY <1>1, NonceAssumption
  <2>2. /\ NonceLock = [held |-> TRUE, queue |-> <<>>, owners |-> {f}]
        /\ nonceStage = [p \in NonceProcs |-> IF p = f THEN "fill" ELSE "idle"]
    <3>1. /\ lockQueue = <<>> /\ isLocked = (PoolSize > 0) /\ lockOwners = {f}
          /\ nonceStage = [p \in NonceProcs |-> IF p \in {f} THEN "fill" ELSE "idle"]
      BY <1>1 DEF NonceInit
    <3> HIDE DEF f
    <3>2. isLocked = TRUE
      BY <1>1, <3>1
    <3> QED BY <3>1, <3>2 DEF NonceLock
  <2> HIDE DEF f
  <2>3. f \in NonceProcs /\ Busy = {f}
    BY <2>1, <2>2 DEF NonceProcs, Busy, WaitsForLock, UnderLock
  <2>4. \A p \in NonceProcs : nonceStage[p] \notin UnderLock
    BY <2>2 DEF UnderLock
  <2> QED BY <2>2, <2>3, <2>4 DEF LockInv, LockWell, LockShape
<1>2. CASE ~(PoolSize > 0)
  <2>1. /\ NonceLock = [held |-> FALSE, queue |-> <<>>, owners |-> {}]
        /\ nonceStage = [p \in NonceProcs |-> "idle"]
    <3>1. /\ lockQueue = <<>> /\ isLocked = (PoolSize > 0) /\ lockOwners = {}
          /\ nonceStage = [p \in NonceProcs |-> IF p \in {} THEN "fill" ELSE "idle"]
      BY <1>2 DEF NonceInit
    <3>2. isLocked = FALSE
      <4>1. isLocked \in BOOLEAN
        BY <3>1
      <4>2. ~isLocked
        BY <1>2, <3>1
      <4> QED BY <4>1, <4>2
    <3>3. NonceLock = [held |-> FALSE, queue |-> <<>>, owners |-> {}]
      BY <3>1, <3>2 DEF NonceLock
    <3>4. nonceStage = [p \in NonceProcs |-> "idle"]
      BY <3>1
    <3> QED BY <3>3, <3>4
  <2>2. Busy = {} /\ \A p \in NonceProcs : nonceStage[p] \notin UnderLock
    BY <2>1 DEF Busy, WaitsForLock, UnderLock
  <2> QED BY <2>1, <2>2 DEF LockInv, LockWell, LockShape
<1> QED BY <1>1, <1>2

\* An allocation under the lock ends by releasing it.
LEMMA AllocationReleases ==
  ASSUME LockInv, nonceStage \in [NonceProcs -> Stages], NEW c \in Callers,
         c \in lockOwners, NEW counters, AllocateFrom(c, counters)
  PROVE  LockInv'
<1>1. \E to \in {"idle", "tx"} : MoveTo(c, to)
  <2>1. ASSUME NEW txs, NEW pending, NEW generation, NonceAfter(c, txs, pending, generation)
        PROVE  MoveTo(c, "idle") \/ MoveTo(c, "tx")
    BY <2>1 DEF NonceAfter
  <2> QED BY <2>1 DEF AllocateFrom
<1>2. \A to \in {"idle", "tx"} : to \notin WaitsForLock \cup UnderLock
  BY DEF WaitsForLock, UnderLock
<1> QED BY <1>1, <1>2, ReleasesLock DEF AllocateFrom

\* A caller keeps the lock well formed.
LEMMA CallerKeepsLock ==
  ASSUME LockInv, nonceStage \in [NonceProcs -> Stages], NEW c \in Callers,
         StartAllocation(c) \/ AllocationStep(c) \/ TxStep(c)
  PROVE  LockInv'
<1>0. c \in NonceProcs /\ lockOwners \subseteq NonceProcs /\ NonceLock.owners = lockOwners
  BY DEF NonceProcs, LockInv, LockWell, Busy, NonceLock
<1>1. CASE StartAllocation(c)
  <2>1. c \notin Busy
    BY <1>1 DEF StartAllocation, Busy, WaitsForLock, UnderLock
  <2>2. \E to \in WaitsForLock : MoveTo(c, to)
    BY <1>1 DEF StartAllocation, WaitsForLock
  <2> QED BY <1>0, <1>1, <2>1, <2>2, AsksForLock DEF StartAllocation
<1>2. CASE PoolDrained(c)
  <2> DEFINE l == PassLock(NonceLock, c)
             m == JoinLock(l, c)
  <2>1. c \in NonceLock.owners /\ c \in Busy /\ Busy \in SUBSET NonceProcs
    BY <1>0, <1>2 DEF PoolDrained, HasTurn, Busy, WaitsForLock
  <2>2. l \in LockShape /\ LockWell(l, Busy \ {c})
    BY <2>1, PassWell DEF LockInv
  <2> HIDE DEF l
  <2>3. m \in LockShape /\ LockWell(m, (Busy \ {c}) \cup {c})
    BY <1>0, <2>1, <2>2, JoinWell
  <2> HIDE DEF m
  <2>4. m = [held |-> m.held, queue |-> m.queue, owners |-> m.owners]
    BY <2>3 DEF LockShape
  <2>5. NonceLock' = m
    BY <1>2, <2>4 DEF PoolDrained, SetLock, NonceLock, l, m
  <2>6. Busy' = (Busy \ {c}) \cup {c}
    BY <1>0, <1>2, <2>1, MovedBusy DEF PoolDrained, WaitsForLock
  <2>7. \A p \in NonceProcs : nonceStage'[p] \notin UnderLock
    <3>1. \A p \in NonceProcs : p # c => nonceStage[p] \notin UnderLock
      BY <1>0, <2>1 DEF LockInv, LockWell
    <3> QED BY <1>0, <1>2, <3>1, MovedBusy DEF PoolDrained, UnderLock
  <2> QED BY <2>3, <2>5, <2>6, <2>7 DEF LockInv
<1>3. CASE PoolRefused(c)
  BY <1>3, ReleasesLock DEF PoolRefused, HasTurn, WaitsForLock, UnderLock
<1>4. CASE TakeFromPool(c)
  <2>1. CASE ~PoolLow
    BY <1>4, <2>1, ReleasesLock DEF TakeFromPool, HasTurn, WaitsForLock, UnderLock
  <2>2. CASE PoolLow
    <3>1. PICK f \in Fillers :
            /\ nonceStage[f] = "idle"
            /\ nonceStage' = [nonceStage EXCEPT ![c] = "tx", ![f] = "fill"]
            /\ SetLock(PassLock(JoinLock(NonceLock, f), c))
      BY <1>4, <2>2 DEF TakeFromPool
    <3>2. f \in NonceProcs /\ f # c /\ f \notin Busy /\ c \in Busy /\ Busy \in SUBSET NonceProcs
      BY <1>0, <1>4, <3>1, NonceAssumption
         DEF TakeFromPool, HasTurn, NonceProcs, Busy, WaitsForLock, UnderLock
    <3> DEFINE l == JoinLock(NonceLock, f)
               m == PassLock(l, c)
    <3>3. l \in LockShape /\ LockWell(l, Busy \cup {f})
      BY <3>2, JoinWell DEF LockInv
    <3>4. c \in l.owners
      <4>1. NonceLock.held /\ c \in NonceLock.owners
        BY <1>0, <1>4 DEF TakeFromPool, HasTurn, LockInv, LockWell
      <4> QED BY <3>2, <4>1, LockSteps DEF LockInv
    <3> HIDE DEF l
    <3>5. m \in LockShape /\ LockWell(m, (Busy \cup {f}) \ {c})
      BY <3>2, <3>3, <3>4, PassWell
    <3> HIDE DEF m
    <3>6. m = [held |-> m.held, queue |-> m.queue, owners |-> m.owners]
      BY <3>5 DEF LockShape
    <3>7. NonceLock' = m
      BY <3>1, <3>6 DEF SetLock, NonceLock, l, m
    <3>8. \A p \in NonceProcs :
            nonceStage'[p] = IF p = f THEN "fill" ELSE IF p = c THEN "tx" ELSE nonceStage[p]
      BY <1>0, <3>1, <3>2
    <3>9. Busy' = (Busy \cup {f}) \ {c}
      BY <3>2, <3>8 DEF Busy, WaitsForLock, UnderLock
    <3>10. \A p \in NonceProcs : nonceStage'[p] \notin UnderLock
      <4>1. \A p \in NonceProcs : p # c => nonceStage[p] \notin UnderLock
        BY <1>0, <1>4 DEF TakeFromPool, HasTurn, LockInv, LockWell
      <4> QED BY <3>8, <4>1 DEF UnderLock
    <3> QED BY <3>5, <3>7, <3>9, <3>10 DEF LockInv
  <2> QED BY <2>1, <2>2
<1>5. CASE AllocateDirect(c)
  BY <1>5, AllocationReleases DEF AllocateDirect, HasTurn
<1>6. CASE AllocateAfterReply(c)
  <2>1. c \in lockOwners
    BY <1>0, <1>6 DEF AllocateAfterReply, LockInv, UnderLock
  <2> QED BY <1>6, <2>1, AllocationReleases DEF AllocateAfterReply
<1>7. CASE AskBeforeAllocation(c)
  <2>1. /\ nonceStage[c] = "direct" /\ c \in lockOwners /\ MoveTo(c, "sync")
        /\ UNCHANGED lockVars
    BY <1>7 DEF AskBeforeAllocation, HasTurn
  <2>2. c \in Busy /\ Busy' = Busy
    BY <1>0, <2>1, MovedBusy DEF Busy, WaitsForLock, UnderLock
  <2>3. \A p \in NonceProcs : nonceStage'[p] \in UnderLock => p \in lockOwners
    BY <1>0, <2>1, MovedBusy DEF LockInv
  <2> QED BY <2>1, <2>2, <2>3, LockUntouched
<1>8. CASE TxStep(c)
  <2>1. /\ nonceStage[c] \in {"tx", "sent"} /\ UNCHANGED lockVars
        /\ MoveTo(c, "idle") \/ MoveTo(c, "sent")
    BY <1>8 DEF TxStep, SendTx, ConfirmTransaction, FailTransaction, LeaveUnconfirmed, EndTx
  <2>2. PICK to \in {"idle", "sent"} : MoveTo(c, to)
    BY <2>1
  <2>3. c \notin Busy /\ to \notin WaitsForLock \cup UnderLock
    BY <2>1 DEF Busy, WaitsForLock, UnderLock
  <2>4. Busy' = Busy
    BY <1>0, <2>2, <2>3, MovedBusy
  <2>5. \A p \in NonceProcs : nonceStage'[p] \in UnderLock => p \in lockOwners
    BY <1>0, <2>2, <2>3, MovedBusy DEF LockInv
  <2> QED BY <2>1, <2>4, <2>5, LockUntouched
<1> QED BY <1>1, <1>2, <1>3, <1>4, <1>5, <1>6, <1>7, <1>8 DEF AllocationStep

\* So does a replenishment.
LEMMA FillerKeepsLock ==
  ASSUME LockInv, nonceStage \in [NonceProcs -> Stages], NEW f \in Fillers, FillStep(f)
  PROVE  LockInv'
<1>0. f \in NonceProcs
  BY DEF NonceProcs
<1>1. ASSUME f \in lockOwners, EndFill(f) PROVE LockInv'
  BY <1>1, ReleasesLock DEF EndFill, WaitsForLock, UnderLock
<1>2. CASE FillAborted(f)
  BY <1>1, <1>2 DEF FillAborted, HasTurn
<1>3. CASE FillNow(f)
  BY <1>1, <1>3 DEF FillNow, FillFrom, HasTurn
<1>4. CASE FillAfterReply(f)
  <2>1. f \in lockOwners
    BY <1>0, <1>4 DEF FillAfterReply, LockInv, UnderLock
  <2> QED BY <1>1, <1>4, <2>1 DEF FillAfterReply, FillFrom
<1>5. CASE AskBeforeFill(f)
  <2>1. /\ nonceStage[f] = "fill" /\ f \in lockOwners /\ MoveTo(f, "fillsync")
        /\ UNCHANGED lockVars
    BY <1>5 DEF AskBeforeFill, HasTurn
  <2>2. f \in Busy /\ Busy' = Busy
    BY <1>0, <2>1, MovedBusy DEF Busy, WaitsForLock, UnderLock
  <2>3. \A p \in NonceProcs : nonceStage'[p] \in UnderLock => p \in lockOwners
    BY <1>0, <2>1, MovedBusy DEF LockInv
  <2> QED BY <2>1, <2>2, <2>3, LockUntouched
<1> QED BY <1>2, <1>3, <1>4, <1>5 DEF FillStep

\* And the background sync.
LEMMA SyncKeepsLock ==
  ASSUME LockInv, nonceStage \in [NonceProcs -> Stages],
         StartSync \/ SyncAnswered \/ SyncApplied
  PROVE  LockInv'
<1>0. Syncer \in NonceProcs
  BY DEF NonceProcs
<1>1. ASSUME nonceStage[Syncer] \notin WaitsForLock \cup UnderLock, NEW to \in {"ask", "idle"},
             MoveTo(Syncer, to), UNCHANGED lockVars
      PROVE  LockInv'
  <2>1. Syncer \notin Busy /\ to \notin WaitsForLock \cup UnderLock
    BY <1>1 DEF Busy, WaitsForLock, UnderLock
  <2>2. Busy' = Busy
    BY <1>0, <1>1, <2>1, MovedBusy
  <2>3. \A p \in NonceProcs : nonceStage'[p] \in UnderLock => p \in lockOwners
    BY <1>0, <1>1, <2>1, MovedBusy DEF LockInv
  <2> QED BY <1>1, <2>2, <2>3, LockUntouched
<1>2. CASE StartSync
  BY <1>1, <1>2 DEF StartSync, WaitsForLock, UnderLock
<1>3. CASE SyncAnswered
  <2>1. CASE MoveTo(Syncer, "idle") /\ UNCHANGED lockVars
    BY <1>1, <1>3, <2>1 DEF SyncAnswered, WaitsForLock, UnderLock
  <2>2. CASE MoveTo(Syncer, "apply") /\ SetLock(JoinLock(NonceLock, Syncer))
    BY <1>0, <1>3, <2>2, AsksForLock DEF SyncAnswered, Busy, WaitsForLock, UnderLock
  <2> QED BY <1>3, <2>1, <2>2 DEF SyncAnswered
<1>4. CASE SyncApplied
  BY <1>4, ReleasesLock DEF SyncApplied, HasTurn, WaitsForLock, UnderLock
<1> QED BY <1>2, <1>3, <1>4

\* Every step keeps the lock well formed.
LEMMA LockKept ==
  ASSUME LockInv, nonceStage \in [NonceProcs -> Stages], [NonceNext]_nonceVars
  PROVE  LockInv'
<1>1. CASE NetworkAccepts \/ UNCHANGED nonceVars
  <2>1. UNCHANGED <<nonceStage, lockVars>>
    BY <1>1 DEF NetworkAccepts, nonceVars
  <2> QED BY <2>1, LockUntouched DEF Busy, LockInv
<1> QED BY <1>1, CallerKeepsLock, FillerKeepsLock, SyncKeepsLock DEF NonceNext

-----------------------------------------------------------------------------
(* The nonces. *)

\* A transaction holds a nonce of the current generation.
Holds(c) == nonceOf[c] # NoNonce /\ bornIn[c] = poolGeneration

\* What is held and what is in the pool lies below pendingNonce, and no number
\* occurs twice among the two.
DistinctInv ==
  /\ \A c \in Callers : bornIn[c] <= poolGeneration
  /\ \A c \in Callers : Holds(c) => nonceOf[c] < pendingNonce
  /\ \A i \in 1..Len(noncePool) : noncePool[i] < pendingNonce
  /\ \A i, j \in 1..Len(noncePool) : noncePool[i] = noncePool[j] => i = j
  /\ \A c \in Callers, i \in 1..Len(noncePool) : Holds(c) => nonceOf[c] # noncePool[i]
  /\ NoncesDistinct

\* Each transaction but those of S keeps its nonce or is done with it.
HoldersLeave(S) ==
  \A c \in Callers \ S :
     \/ nonceOf'[c] = nonceOf[c] /\ bornIn'[c] = bornIn[c]
     \/ nonceOf'[c] = NoNonce /\ bornIn'[c] = 0

\* The pool is untouched and pendingNonce is b now, or it is lost with all of
\* its generation.
SamePool(b) == noncePool' = noncePool /\ poolGeneration' = poolGeneration /\ b >= pendingNonce
LostPool == noncePool' = <<>> /\ poolGeneration' = poolGeneration + 1

\* Steps that give no nonce.
LEMMA NoneGiven ==
  ASSUME NumberTypes, NumberTypes', DistinctInv, HoldersLeave({}),
         SamePool(pendingNonce') \/ LostPool
  PROVE  DistinctInv'
<1>0. /\ pendingNonce \in Int /\ pendingNonce' \in Int /\ poolGeneration \in Nat
      /\ poolGeneration' \in Nat /\ noncePool \in Seq(Int) /\ noncePool' \in Seq(Int)
      /\ \A c \in Callers : /\ nonceOf[c] \in Int \cup {NoNonce} /\ bornIn[c] \in Nat
                            /\ nonceOf'[c] \in Int \cup {NoNonce} /\ bornIn'[c] \in Nat
  BY DEF NumberTypes, CounterTypes, HolderTypes
<1>1. \A c \in Callers : nonceOf'[c] # NoNonce =>
                            nonceOf'[c] = nonceOf[c] /\ bornIn'[c] = bornIn[c]
  BY DEF HoldersLeave
<1>2. NoncesDistinct'
  BY <1>1 DEF DistinctInv, NoncesDistinct
<1>3. \A c \in Callers : bornIn'[c] <= poolGeneration'
  BY <1>0 DEF HoldersLeave, SamePool, LostPool, DistinctInv
<1>4. CASE SamePool(pendingNonce')
  <2>1. \A c \in Callers : Holds(c)' => Holds(c) /\ nonceOf'[c] = nonceOf[c]
    BY <1>1, <1>4 DEF Holds, SamePool
  <2>2. \A c \in Callers : Holds(c) => nonceOf[c] \in Int
    BY <1>0 DEF Holds
  <2>3. \A c \in Callers : Holds(c)' => nonceOf'[c] < pendingNonce'
    BY <1>0, <1>4, <2>1, <2>2 DEF SamePool, DistinctInv
  <2>4. \A i \in 1..Len(noncePool') : noncePool'[i] < pendingNonce'
    BY <1>0, <1>4 DEF SamePool, DistinctInv
  <2> QED BY <1>2, <1>3, <1>4, <2>1, <2>3, <2>4 DEF SamePool, DistinctInv
<1>5. CASE LostPool
  <2>1. \A c \in Callers : ~Holds(c)'
    BY <1>0, <1>1, <1>5 DEF Holds, LostPool, DistinctInv
  <2>2. Len(noncePool') = 0
    BY <1>5 DEF LostPool
  <2> QED BY <1>2, <1>3, <2>1, <2>2 DEF DistinctInv
<1> QED BY <1>4, <1>5

\* Steps that give the next nonce.
LEMMA NextGiven ==
  ASSUME NumberTypes, NumberTypes', DistinctInv, NEW c \in Callers, HoldersLeave({c}),
         NEW n \in Int, SamePool(n) \/ LostPool, pendingNonce' = n + 1,
         nonceOf'[c] = n, bornIn'[c] = poolGeneration'
  PROVE  DistinctInv'
<1>0. /\ pendingNonce \in Int /\ pendingNonce' \in Int /\ poolGeneration \in Nat
      /\ poolGeneration' \in Nat /\ noncePool \in Seq(Int) /\ noncePool' \in Seq(Int)
      /\ \A d \in Callers : /\ nonceOf[d] \in Int \cup {NoNonce} /\ bornIn[d] \in Nat
                            /\ nonceOf'[d] \in Int \cup {NoNonce} /\ bornIn'[d] \in Nat
  BY DEF NumberTypes, CounterTypes, HolderTypes
<1>1. \A d \in Callers : d # c /\ nonceOf'[d] # NoNonce =>
                            nonceOf'[d] = nonceOf[d] /\ bornIn'[d] = bornIn[d]
  BY DEF HoldersLeave
<1>2. \A d \in Callers : bornIn'[d] <= poolGeneration'
  <2> SUFFICES ASSUME NEW d \in Callers PROVE bornIn'[d] <= poolGeneration'
    OBVIOUS
  <2>1. CASE d = c
    BY <1>0, <2>1
  <2>2. CASE d # c
    <3>1. bornIn'[d] = bornIn[d] \/ bornIn'[d] = 0
      BY <2>2 DEF HoldersLeave
    <3>2. bornIn[d] <= poolGeneration /\ poolGeneration <= poolGeneration'
      BY <1>0 DEF DistinctInv, SamePool, LostPool
    <3> QED BY <1>0, <3>1, <3>2
  <2> QED BY <2>1, <2>2
<1>3. \A d \in Callers : d # c /\ Holds(d)' =>
                            SamePool(n) /\ Holds(d) /\ nonceOf'[d] = nonceOf[d]
  BY <1>0, <1>1 DEF Holds, SamePool, LostPool, DistinctInv
<1>4. \A d \in Callers : d # c /\ Holds(d)' => nonceOf'[d] \in Int /\ nonceOf'[d] < n
  BY <1>0, <1>3 DEF Holds, SamePool, DistinctInv
<1>5. \A i \in 1..Len(noncePool') :
        SamePool(n) /\ noncePool' = noncePool /\ i \in 1..Len(noncePool) /\ noncePool'[i] < n
  <2>1. CASE SamePool(n)
    BY <1>0, <2>1 DEF SamePool, DistinctInv
  <2>2. CASE LostPool
    BY <2>2 DEF LostPool
  <2> QED BY <2>1, <2>2
<1>6. NoncesDistinct'
  <2> SUFFICES ASSUME NEW d \in Callers, NEW e \in Callers, d # e, bornIn'[d] = bornIn'[e],
                      nonceOf'[d] # NoNonce, nonceOf'[e] # NoNonce
               PROVE  nonceOf'[d] # nonceOf'[e]
    BY DEF NoncesDistinct
  <2>1. CASE d # c /\ e # c
    BY <1>1, <2>1 DEF DistinctInv, NoncesDistinct
  <2>2. CASE d = c
    <3>1. nonceOf'[e] < n
      BY <1>4, <2>2 DEF Holds
    <3> QED BY <1>0, <1>4, <2>2, <3>1 DEF Holds
  <2>3. CASE e = c
    <3>1. nonceOf'[d] < n
      BY <1>4, <2>3 DEF Holds
    <3> QED BY <1>0, <1>4, <2>3, <3>1 DEF Holds
  <2> QED BY <2>1, <2>2, <2>3
<1>7. \A d \in Callers : Holds(d)' => nonceOf'[d] < pendingNonce'
  BY <1>0, <1>4
<1>8. \A i \in 1..Len(noncePool') : noncePool'[i] < pendingNonce'
  BY <1>0, <1>5
<1>9. \A i, j \in 1..Len(noncePool') : noncePool'[i] = noncePool'[j] => i = j
  BY <1>5 DEF DistinctInv
<1>10. \A d \in Callers, i \in 1..Len(noncePool') : Holds(d)' => nonceOf'[d] # noncePool'[i]
  <2> SUFFICES ASSUME NEW d \in Callers, NEW i \in 1..Len(noncePool'), Holds(d)'
               PROVE  nonceOf'[d] # noncePool'[i]
    OBVIOUS
  <2>1. CASE d = c
    BY <1>0, <1>5, <2>1
  <2>2. CASE d # c
    BY <1>3, <1>5, <2>2 DEF DistinctInv
  <2> QED BY <2>1, <2>2
<1> QED BY <1>2, <1>6, <1>7, <1>8, <1>9, <1>10 DEF DistinctInv

\* The first of the pool is given.
LEMMA PoolGiven ==
  ASSUME NumberTypes, NumberTypes', DistinctInv, NEW c \in Callers, HoldersLeave({c}),
         noncePool # <<>>, noncePool' = Tail(noncePool), pendingNonce' = pendingNonce,
         poolGeneration' = poolGeneration,
         nonceOf'[c] = Head(noncePool), bornIn'[c] = poolGeneration
  PROVE  DistinctInv'
<1>0. /\ pendingNonce \in Int /\ poolGeneration \in Nat /\ noncePool \in Seq(Int)
      /\ \A d \in Callers : /\ nonceOf[d] \in Int \cup {NoNonce} /\ bornIn[d] \in Nat
                            /\ nonceOf'[d] \in Int \cup {NoNonce} /\ bornIn'[d] \in Nat
  BY DEF NumberTypes, CounterTypes, HolderTypes
<1>1. \A d \in Callers : d # c /\ nonceOf'[d] # NoNonce =>
                            nonceOf'[d] = nonceOf[d] /\ bornIn'[d] = bornIn[d]
  BY DEF HoldersLeave
<1>2. /\ Head(noncePool) = noncePool[1] /\ 1 \in 1..Len(noncePool)
      /\ \A i \in 1..Len(noncePool') :
            i + 1 \in 1..Len(noncePool) /\ noncePool'[i] = noncePool[i + 1] /\ i + 1 # 1
  BY <1>0
<1>3. \A d \in Callers : bornIn'[d] <= poolGeneration'
  <2> SUFFICES ASSUME NEW d \in Callers PROVE bornIn'[d] <= poolGeneration'
    OBVIOUS
  <2>1. CASE d = c
    BY <1>0, <2>1
  <2>2. CASE d # c
    <3>1. bornIn'[d] = bornIn[d] \/ bornIn'[d] = 0
      BY <2>2 DEF HoldersLeave
    <3> QED BY <1>0, <3>1 DEF DistinctInv
  <2> QED BY <2>1, <2>2
<1>4. \A d \in Callers : d # c /\ Holds(d)' => Holds(d) /\ nonceOf'[d] = nonceOf[d]
  BY <1>1 DEF Holds
<1>5. NoncesDistinct'
  <2> SUFFICES ASSUME NEW d \in Callers, NEW e \in Callers, d # e, bornIn'[d] = bornIn'[e],
                      nonceOf'[d] # NoNonce, nonceOf'[e] # NoNonce
               PROVE  nonceOf'[d] # nonceOf'[e]
    BY DEF NoncesDistinct
  <2>1. CASE d # c /\ e # c
    BY <1>1, <2>1 DEF DistinctInv, NoncesDistinct
  <2>2. ASSUME NEW h \in Callers, h # c, bornIn'[h] = bornIn'[c], nonceOf'[h] # NoNonce
        PROVE  nonceOf'[h] # nonceOf'[c]
    <3>1. Holds(h) /\ nonceOf'[h] = nonceOf[h]
      BY <1>1, <2>2 DEF Holds
    <3> QED BY <1>2, <3>1 DEF DistinctInv
  <2> QED BY <2>1, <2>2
<1>6. \A d \in Callers : Holds(d)' => nonceOf'[d] < pendingNonce'
  BY <1>2, <1>4 DEF DistinctInv
<1>7. \A i \in 1..Len(noncePool') : noncePool'[i] < pendingNonce'
  BY <1>2 DEF DistinctInv
<1>8. \A i, j \in 1..Len(noncePool') : noncePool'[i] = noncePool'[j] => i = j
  <2> SUFFICES ASSUME NEW i \in 1..Len(noncePool'), NEW j \in 1..Len(noncePool'),
                      noncePool'[i] = noncePool'[j]
               PROVE  i = j
    OBVIOUS
  <2>1. i + 1 = j + 1
    BY <1>2 DEF DistinctInv
  <2> QED BY <2>1
<1>9. \A d \in Callers, i \in 1..Len(noncePool') : Holds(d)' => nonceOf'[d] # noncePool'[i]
  BY <1>2, <1>4 DEF DistinctInv
<1> QED BY <1>3, <1>5, <1>6, <1>7, <1>8, <1>9 DEF DistinctInv

\* The elements of a concatenation.
LEMMA ConcatParts ==
  ASSUME NEW s \in Seq(Int), NEW t \in Seq(Int)
  PROVE  /\ Len(s \o t) = Len(s) + Len(t) /\ Len(s) \in Nat
         /\ \A i \in 1..(Len(s) + Len(t)) :
               (s \o t)[i] = IF i <= Len(s) THEN s[i] ELSE t[i - Len(s)]
OBVIOUS

\* The pool is filled with the next nonces.
LEMMA PoolFilled ==
  ASSUME NumberTypes, NumberTypes', DistinctInv, HoldersLeave({}),
         NEW b \in Int, NEW n \in Nat, b >= pendingNonce, pendingNonce' = b + n,
         poolGeneration' = poolGeneration,
         noncePool' = noncePool \o [i \in 1..n |-> b + i - 1]
  PROVE  DistinctInv'
<1>0. /\ pendingNonce \in Int /\ poolGeneration \in Nat /\ noncePool \in Seq(Int)
      /\ \A d \in Callers : /\ nonceOf[d] \in Int \cup {NoNonce} /\ bornIn[d] \in Nat
                            /\ nonceOf'[d] \in Int \cup {NoNonce} /\ bornIn'[d] \in Nat
  BY DEF NumberTypes, CounterTypes, HolderTypes
<1>1. \A c \in Callers : nonceOf'[c] # NoNonce =>
                            nonceOf'[c] = nonceOf[c] /\ bornIn'[c] = bornIn[c]
  BY DEF HoldersLeave
<1>2. NoncesDistinct'
  BY <1>1 DEF DistinctInv, NoncesDistinct
<1>3. \A c \in Callers : bornIn'[c] <= poolGeneration'
  BY <1>0 DEF HoldersLeave, DistinctInv
<1>4. \A c \in Callers : Holds(c)' => Holds(c) /\ nonceOf'[c] = nonceOf[c] /\ nonceOf[c] \in Int
  BY <1>0, <1>1 DEF Holds
<1> DEFINE old == Len(noncePool)
           added == [i \in 1..n |-> b + i - 1]
<1>5. /\ old \in Nat /\ Len(noncePool') = old + n
      /\ \A i \in 1..old : noncePool'[i] = noncePool[i] /\ noncePool[i] \in Int
      /\ \A i \in (old + 1)..(old + n) : noncePool'[i] = b + (i - old) - 1
  <2>1. added \in Seq(Int) /\ Len(added) = n /\ \A i \in 1..n : added[i] = b + i - 1
    BY NumbersInOrder
  <2>2. /\ Len(noncePool \o added) = old + n /\ old \in Nat
        /\ \A i \in 1..(old + n) :
              (noncePool \o added)[i] = IF i <= old THEN noncePool[i] ELSE added[i - old]
    <3> HIDE DEF added
    <3> QED BY <1>0, <2>1, ConcatParts
  <2> HIDE DEF added
  <2>3. noncePool' = noncePool \o added
    BY DEF added
  <2> QED BY <1>0, <2>1, <2>2, <2>3
<1> HIDE DEF old, added
<1>6. \A i \in 1..Len(noncePool') :
         \/ i \in 1..old /\ noncePool'[i] = noncePool[i] /\ noncePool[i] < pendingNonce
         \/ i \in (old + 1)..(old + n) /\ noncePool'[i] = b + (i - old) - 1
  BY <1>5 DEF DistinctInv, old
<1>7. \A i \in 1..Len(noncePool') : noncePool'[i] < pendingNonce'
  BY <1>0, <1>5, <1>6
<1>8. \A i, j \in 1..Len(noncePool') : noncePool'[i] = noncePool'[j] => i = j
  <2> SUFFICES ASSUME NEW i \in 1..Len(noncePool'), NEW j \in 1..Len(noncePool'),
                      noncePool'[i] = noncePool'[j]
               PROVE  i = j
    OBVIOUS
  <2>1. CASE i \in 1..old /\ j \in 1..old
    BY <1>5, <2>1 DEF DistinctInv, old
  <2>2. CASE ~(i \in 1..old) /\ ~(j \in 1..old)
    BY <1>0, <1>5, <1>6, <2>2
  <2>3. ASSUME NEW k \in 1..old, NEW m \in (old + 1)..(old + n),
               noncePool'[k] = noncePool'[m]
        PROVE  FALSE
    <3>1. noncePool'[k] < pendingNonce /\ noncePool'[k] \in Int
      BY <1>5, <2>3 DEF DistinctInv, old
    <3>2. noncePool'[m] >= b /\ noncePool'[m] \in Int
      BY <1>5, <2>3
    <3> DEFINE below == noncePool'[k]
               above == noncePool'[m]
    <3>3. below = above
      BY <2>3
    <3>4. below < pendingNonce /\ below \in Int /\ above >= b /\ above \in Int
      BY <3>1, <3>2
    <3>5. pendingNonce \in Int
      BY <1>0
    <3> HIDE DEF below, above
    <3> QED BY ONLY <3>3, <3>4, <3>5, b \in Int, b >= pendingNonce
  <2>4. \A k \in 1..Len(noncePool') : k \in 1..old \/ k \in (old + 1)..(old + n)
    BY <1>6
  <2>5. CASE i \in 1..old /\ j \in (old + 1)..(old + n)
    BY <2>3, <2>5
  <2>6. CASE j \in 1..old /\ i \in (old + 1)..(old + n)
    BY <2>3, <2>6
  <2> QED BY <2>1, <2>2, <2>4, <2>5, <2>6
<1>9. \A c \in Callers, i \in 1..Len(noncePool') : Holds(c)' => nonceOf'[c] # noncePool'[i]
  <2> SUFFICES ASSUME NEW c \in Callers, NEW i \in 1..Len(noncePool'), Holds(c)'
               PROVE  nonceOf'[c] # noncePool'[i]
    OBVIOUS
  <2>1. nonceOf'[c] = nonceOf[c] /\ nonceOf[c] \in Int /\ nonceOf[c] < pendingNonce
    BY <1>4 DEF DistinctInv
  <2>2. CASE i \in 1..old
    BY <1>4, <1>5, <2>2 DEF DistinctInv, old
  <2>3. CASE i \in (old + 1)..(old + n)
    BY <1>0, <1>5, <2>1, <2>3
  <2> QED BY <1>6, <2>2, <2>3
<1>10. \A c \in Callers : Holds(c)' => nonceOf'[c] < pendingNonce'
  BY <1>0, <1>4 DEF DistinctInv
<1> QED BY <1>2, <1>3, <1>7, <1>8, <1>9, <1>10 DEF DistinctInv

\* An allocation on the standard path gives the next nonce, or none.
LEMMA AllocationDistinct ==
  ASSUME NumberTypes, NumberTypes', DistinctInv, NEW c \in Callers, NEW counters,
         counters[2] \in Int, counters[2] >= pendingNonce, AllocateFrom(c, counters)
  PROVE  DistinctInv'
<1>0. /\ nonceOf \in [Callers -> Int \cup {NoNonce}] /\ bornIn \in [Callers -> Nat]
      /\ poolGeneration \in Nat
  BY DEF NumberTypes, HolderTypes, CounterTypes
<1>1. ASSUME NEW txs, NEW b \in Int, NEW generation \in Nat,
             NonceAfter(c, txs, b, generation), poolGeneration' = generation,
             SamePool(b) \/ LostPool
      PROVE  DistinctInv'
  <2>1. CASE Cardinality(DOMAIN txs) >= MaxPending
    <3>1. pendingNonce' = b /\ UNCHANGED <<nonceOf, bornIn>>
      BY <1>1, <2>1 DEF NonceAfter
    <3> QED BY <1>1, <3>1, NoneGiven DEF HoldersLeave
  <2>2. CASE ~(Cardinality(DOMAIN txs) >= MaxPending)
    <3>1. pendingNonce' = b + 1 /\ GiveNonce(c, b, txs, generation)
      BY <1>1, <2>2 DEF NonceAfter
    <3>2. nonceOf'[c] = b /\ bornIn'[c] = poolGeneration' /\ HoldersLeave({c})
      BY <1>0, <1>1, <3>1 DEF GiveNonce, HoldersLeave
    <3> QED BY <1>1, <3>1, <3>2, NextGiven
  <2> QED BY <2>1, <2>2
<1>2. CASE /\ NonceAfter(c, pendingTxs, counters[2], poolGeneration)
           /\ confirmedNonce' = counters[1]
           /\ UNCHANGED <<noncePool, poolGeneration, isReplenishing, givenUp>>
  <2>1. SamePool(counters[2]) /\ poolGeneration' = poolGeneration
    BY <1>2 DEF SamePool
  <2> QED BY <1>0, <1>1, <1>2, <2>1
<1>3. CASE \E timedOut \in SUBSET DOMAIN pendingTxs \ {{}} :
             /\ NonceAfter(c, TrackedBut(pendingTxs, timedOut), -1, poolGeneration + 1)
             /\ confirmedNonce' = -1
             /\ ResetPool
  <2>1. LostPool /\ poolGeneration' = poolGeneration + 1
    BY <1>3 DEF LostPool, ResetPool
  <2>2. poolGeneration + 1 \in Nat /\ -1 \in Int
    BY <1>0
  <2> QED BY <1>1, <1>3, <2>1, <2>2
<1> QED BY <1>2, <1>3 DEF AllocateFrom

\* A replenishment adds the next nonces.
LEMMA FillDistinct ==
  ASSUME NumberTypes, NumberTypes', DistinctInv, NEW f \in Fillers, NEW counters,
         counters[2] \in Int, counters[2] >= pendingNonce, FillFrom(f, counters)
  PROVE  DistinctInv'
<1>1. fillRequest[f].needed \in Nat
  BY DEF NumberTypes, RequestTypes
<1>2. HoldersLeave({})
  BY DEF FillFrom, HoldersLeave
<1> QED BY <1>1, <1>2, PoolFilled DEF FillFrom

\* A transaction that ends gives up its nonce and no other.
LEMMA EndingLeaves ==
  ASSUME NumberTypes, NEW c \in Callers, EndTx(c)
  PROVE  HoldersLeave({})
BY DEF EndTx, HoldersLeave, NumberTypes, HolderTypes

\* No step of a caller gives a nonce that is in use.
LEMMA CallerDistinct ==
  ASSUME NumberTypes, NumberTypes', DistinctInv, NEW c \in Callers,
         StartAllocation(c) \/ AllocationStep(c) \/ TxStep(c)
  PROVE  DistinctInv'
<1>0. pendingNonce \in Int /\ pendingNonce' \in Int /\ noncePool \in Seq(Int)
  BY DEF NumberTypes, CounterTypes
<1>1. CASE \/ StartAllocation(c) \/ PoolDrained(c) \/ PoolRefused(c)
           \/ AskBeforeAllocation(c) \/ SendTx(c)
  <2>1. PoolRefused(c) => PoolPutBack = noncePool
    BY <1>0 DEF PoolRefused, PoolPutBack
  <2>2. UNCHANGED <<noncePool, poolGeneration, pendingNonce, nonceOf, bornIn>>
    BY <1>1, <2>1 DEF StartAllocation, PoolDrained, PoolRefused, AskBeforeAllocation, SendTx,
                      nonceCounters
  <2>3. SamePool(pendingNonce') /\ HoldersLeave({})
    BY <1>0, <2>2 DEF SamePool, HoldersLeave
  <2> QED BY <2>3, NoneGiven
<1>2. CASE TakeFromPool(c)
  <2>1. /\ nonceOf'[c] = Head(noncePool) /\ bornIn'[c] = poolGeneration /\ HoldersLeave({c})
        /\ noncePool # <<>> /\ noncePool' = Tail(noncePool)
        /\ poolGeneration' = poolGeneration /\ pendingNonce' = pendingNonce
    BY <1>2 DEF TakeFromPool, GiveNonce, HoldersLeave, NumberTypes, HolderTypes
  <2> QED BY <2>1, PoolGiven
<1>3. CASE AllocateDirect(c)
  <2> DEFINE counters == <<confirmedNonce, pendingNonce>>
  <2>1. counters[2] \in Int /\ counters[2] >= pendingNonce /\ AllocateFrom(c, counters)
    BY <1>0, <1>3 DEF AllocateDirect
  <2> HIDE DEF counters
  <2> QED BY <2>1, AllocationDistinct
<1>4. CASE AllocateAfterReply(c)
  <2>1. PICK counters \in AfterReply(c) : AllocateFrom(c, counters)
    BY <1>4 DEF AllocateAfterReply
  <2> QED BY <2>1, RepliesGrow, AllocationDistinct DEF NonceProcs
<1>5. CASE ConfirmTransaction(c) \/ LeaveUnconfirmed(c)
  <2>1. /\ SamePool(pendingNonce') /\ EndTx(c)
    BY <1>0, <1>5 DEF ConfirmTransaction, LeaveUnconfirmed, SamePool, nonceCounters
  <2> QED BY <2>1, EndingLeaves, NoneGiven
<1>6. CASE FailTransaction(c)
  <2>1. SamePool(pendingNonce') \/ LostPool
    BY <1>0, <1>6 DEF FailTransaction, ResetPool, SamePool, LostPool, nonceCounters
  <2>2. EndTx(c)
    BY <1>6 DEF FailTransaction
  <2> QED BY <2>1, <2>2, EndingLeaves, NoneGiven
<1> QED BY <1>1, <1>2, <1>3, <1>4, <1>5, <1>6 DEF AllocationStep, TxStep

\* Nor does any other step.
LEMMA DistinctKept ==
  ASSUME NumberTypes, NumberTypes', DistinctInv, [NonceNext]_nonceVars
  PROVE  DistinctInv'
<1>0. pendingNonce \in Int
  BY DEF NumberTypes, CounterTypes
<1>1. CASE \E f \in Fillers : FillStep(f)
  <2>1. PICK f \in Fillers : FillStep(f)
    BY <1>1
  <2>2. CASE FillAborted(f) \/ AskBeforeFill(f)
    <3>1. UNCHANGED <<noncePool, poolGeneration, pendingNonce, nonceOf, bornIn>>
      BY <2>2 DEF FillAborted, AskBeforeFill, nonceCounters
    <3>2. SamePool(pendingNonce') /\ HoldersLeave({})
      BY <1>0, <3>1 DEF SamePool, HoldersLeave
    <3> QED BY <3>2, NoneGiven
  <2>3. CASE FillNow(f)
    <3> DEFINE counters == <<confirmedNonce, pendingNonce>>
    <3>1. counters[2] \in Int /\ counters[2] >= pendingNonce /\ FillFrom(f, counters)
      BY <1>0, <2>3 DEF FillNow
    <3> HIDE DEF counters
    <3> QED BY <3>1, FillDistinct
  <2>4. CASE FillAfterReply(f)
    <3>1. PICK counters \in AfterReply(f) : FillFrom(f, counters)
      BY <2>4 DEF FillAfterReply
    <3> QED BY <3>1, RepliesGrow, FillDistinct DEF NonceProcs
  <2> QED BY <2>1, <2>2, <2>3, <2>4 DEF FillStep
<1>2. CASE SyncApplied
  <2>1. SyncedPending(seenCount[Syncer]) >= pendingNonce
    BY <1>0 DEF SyncedPending, NumberTypes, RequestTypes, NonceProcs
  <2>2. SamePool(pendingNonce') /\ HoldersLeave({})
    BY <1>2, <2>1 DEF SyncApplied, SamePool, HoldersLeave
  <2> QED BY <2>2, NoneGiven
<1>3. CASE StartSync \/ SyncAnswered \/ NetworkAccepts \/ UNCHANGED nonceVars
  <2>1. UNCHANGED <<noncePool, poolGeneration, pendingNonce, nonceOf, bornIn>>
    BY <1>3 DEF StartSync, SyncAnswered, NetworkAccepts, nonceVars, nonceCounters
  <2>2. SamePool(pendingNonce') /\ HoldersLeave({})
    BY <1>0, <2>1 DEF SamePool, HoldersLeave
  <2> QED BY <2>2, NoneGiven
<1> QED BY <1>1, <1>2, <1>3, CallerDistinct DEF NonceNext

\* No nonce has been given yet.
LEMMA DistinctInit == NonceInit => DistinctInv
<1> SUFFICES ASSUME NonceInit PROVE DistinctInv
  OBVIOUS
<1>1. /\ \A c \in Callers : nonceOf[c] = NoNonce /\ bornIn[c] = 0
      /\ poolGeneration = 0 /\ Len(noncePool) = 0
  BY DEF NonceInit
<1> QED BY <1>1 DEF DistinctInv, Holds, NoncesDistinct

-----------------------------------------------------------------------------
(* No nonce is lost. *)

\* The nonces that wait to be given, are tracked, or were given up.
Accounted ==
  {noncePool[i] : i \in 1..Len(noncePool)} \cup DOMAIN pendingTxs \cup givenUp

\* Whoever asked for the network's count asked a network that has not gone back, and
\* what is confirmed the network has.
CountsKnown ==
  /\ netCount >= 0
  /\ \A p \in NonceProcs : seenCount[p] <= netCount
  /\ \A n \in DOMAIN pendingTxs : pendingTxs[n] = "confirmed" => n < netCount

KeptInv == CountsKnown /\ NoNonceLost

\* The pool in NoNonceLost is indexed by its domain.
LEMMA LostMeans ==
  ASSUME NumberTypes
  PROVE  NoNonceLost <=> \A n \in 0..(pendingNonce - 1) : n < netCount \/ n \in Accounted
<1>1. DOMAIN noncePool = 1..Len(noncePool)
  BY DEF NumberTypes, CounterTypes
<1> QED BY <1>1 DEF NoNonceLost, Accounted

\* A step loses no nonce that keeps those in sight and reaches no further than the
\* network, the pool or the tracking.
LEMMA StillAccounted ==
  ASSUME NumberTypes, NumberTypes', NoNonceLost, netCount' >= netCount,
         \A n \in Accounted : n < netCount' \/ n \in Accounted',
         \A n \in 0..(pendingNonce' - 1) :
             n < pendingNonce \/ n < netCount' \/ n \in Accounted'
  PROVE  NoNonceLost'
<1>0. /\ pendingNonce \in Int /\ pendingNonce' \in Int /\ netCount \in Int /\ netCount' \in Int
  BY DEF NumberTypes, CounterTypes, RequestTypes
<1>1. \A n \in 0..(pendingNonce - 1) : n < netCount \/ n \in Accounted
  BY LostMeans
<1>2. ASSUME NEW n \in 0..(pendingNonce' - 1) PROVE n < netCount' \/ n \in Accounted'
  <2>1. CASE n < pendingNonce
    <3>1. n \in 0..(pendingNonce - 1)
      BY <1>0, <2>1
    <3> QED BY <1>0, <1>1, <3>1
  <2> QED BY <2>1
<1>3. DOMAIN noncePool' = 1..Len(noncePool')
  BY DEF NumberTypes, CounterTypes
<1> QED BY <1>2, <1>3 DEF NoNonceLost, Accounted

\* With the tracking and the counts left alone, what is known of them stays.
LEMMA SameCounts ==
  ASSUME CountsKnown, netCount' = netCount, \A p \in NonceProcs : seenCount'[p] <= netCount,
         \/ pendingTxs' = pendingTxs
         \/ \E ns : pendingTxs' = TrackedBut(pendingTxs, ns)
  PROVE  CountsKnown'
BY DEF CountsKnown, TrackedBut

\* A reply takes pendingNonce no further than the network's count.
LEMMA RepliesKnown ==
  ASSUME NumberTypes, NEW p \in NonceProcs, NEW counters \in AfterReply(p)
  PROVE  \A n \in Int : n < counters[2] => n < pendingNonce \/ n < netCount
<1>1. pendingNonce \in Int /\ seenCount[p] \in Int /\ netCount \in Int
  BY DEF NumberTypes, CounterTypes, RequestTypes
<1>2. CASE counters = <<confirmedNonce, pendingNonce>>
  BY <1>1, <1>2
<1>3. CASE \E count \in seenCount[p]..netCount : counters = <<count, SyncedPending(count)>>
  BY <1>1, <1>3 DEF SyncedPending
<1> QED BY <1>2, <1>3 DEF AfterReply

\* What is below a number is below every greater one.
LEMMA NumbersBelow ==
  ASSUME NEW x \in Int, NEW y \in Int, x <= y
  PROVE  \A n \in 0..(x - 1) : n < y
OBVIOUS

\* After a reset there is no nonce to be lost.
LEMMA NothingToLose ==
  ASSUME pendingNonce' \in {-1, 0}
  PROVE  NoNonceLost'
<1>1. \A n \in 0..(pendingNonce' - 1) : FALSE
  <2>1. CASE pendingNonce' = -1
    BY <2>1
  <2>2. CASE pendingNonce' = 0
    BY <2>2
  <2> QED BY <2>1, <2>2
<1> QED BY <1>1, Zenon DEF NoNonceLost

\* An allocation on the standard path tracks the nonce it gives.
LEMMA AllocationKept ==
  ASSUME NumberTypes, NumberTypes', KeptInv, NEW c \in Callers, NEW counters,
         counters[2] \in Int,
         \A n \in Int : n < counters[2] => n < pendingNonce \/ n < netCount,
         AllocateFrom(c, counters)
  PROVE  KeptInv'
<1>0. /\ netCount' = netCount /\ pendingNonce \in Int /\ netCount \in Int
      /\ seenCount' = [seenCount EXCEPT ![c] = 0] /\ seenCount \in [NonceProcs -> Int]
      /\ netCount >= 0
  BY DEF AllocateFrom, netVars, NumberTypes, CounterTypes, RequestTypes, KeptInv, CountsKnown
<1>1. \A p \in NonceProcs : seenCount'[p] <= netCount
  BY <1>0 DEF KeptInv, CountsKnown
<1>2. CASE /\ NonceAfter(c, pendingTxs, counters[2], poolGeneration)
           /\ UNCHANGED <<noncePool, givenUp>>
  <2>1. CASE pendingNonce' = counters[2] /\ pendingTxs' = pendingTxs
    <3>1. CountsKnown'
      BY <1>0, <1>1, <2>1, SameCounts DEF KeptInv
    <3>2. Accounted' = Accounted
      BY <1>2, <2>1 DEF Accounted
    <3>3. NoNonceLost'
      BY <1>0, <2>1, <3>2, StillAccounted DEF KeptInv
    <3> QED BY <3>1, <3>3 DEF KeptInv
  <2>2. CASE pendingNonce' = counters[2] + 1 /\ GiveNonce(c, counters[2], pendingTxs, poolGeneration)
    <3>1. /\ DOMAIN pendingTxs' = DOMAIN pendingTxs \cup {counters[2]}
          /\ \A k \in DOMAIN pendingTxs' :
                pendingTxs'[k] = IF k = counters[2] THEN "pending" ELSE pendingTxs[k]
      BY <2>2 DEF GiveNonce
    <3>2. CountsKnown'
      BY <1>0, <1>1, <3>1 DEF KeptInv, CountsKnown
    <3>3. Accounted' = Accounted \cup {counters[2]}
      BY <1>2, <3>1 DEF Accounted
    <3>4. NoNonceLost'
      BY <1>0, <2>2, <3>3, StillAccounted DEF KeptInv
    <3> QED BY <3>2, <3>4 DEF KeptInv
  <2> QED BY <1>2, <2>1, <2>2 DEF NonceAfter
<1>3. CASE \E timedOut \in SUBSET DOMAIN pendingTxs \ {{}} :
             /\ NonceAfter(c, TrackedBut(pendingTxs, timedOut), -1, poolGeneration + 1)
             /\ ResetPool
  <2>1. PICK timedOut \in SUBSET DOMAIN pendingTxs :
             NonceAfter(c, TrackedBut(pendingTxs, timedOut), -1, poolGeneration + 1)
    BY <1>3
  <2>2. pendingNonce' \in {-1, 0}
    BY <2>1 DEF NonceAfter
  <2>3. CASE pendingTxs' = TrackedBut(pendingTxs, timedOut)
    BY <1>0, <1>1, <2>2, <2>3, NothingToLose, SameCounts DEF KeptInv
  <2>4. CASE GiveNonce(c, -1, TrackedBut(pendingTxs, timedOut), poolGeneration + 1)
    <3>1. \A k \in DOMAIN pendingTxs' :
            \/ pendingTxs'[k] = "pending"
            \/ k \in DOMAIN pendingTxs /\ pendingTxs'[k] = pendingTxs[k]
      BY <2>4 DEF GiveNonce, TrackedBut
    <3>2. CountsKnown'
      BY <1>0, <1>1, <3>1 DEF KeptInv, CountsKnown
    <3> QED BY <2>2, <3>2, NothingToLose DEF KeptInv
  <2> QED BY <2>1, <2>3, <2>4 DEF NonceAfter
<1> QED BY <1>2, <1>3 DEF AllocateFrom

\* A replenishment puts into the pool what it takes of the numbers.
LEMMA FillKept ==
  ASSUME NumberTypes, NumberTypes', KeptInv, NEW f \in Fillers, NEW counters,
         counters[2] \in Int,
         \A n \in Int : n < counters[2] => n < pendingNonce \/ n < netCount,
         FillFrom(f, counters)
  PROVE  KeptInv'
<1> DEFINE k == fillRequest[f].needed
           added == [i \in 1..k |-> counters[2] + i - 1]
<1>0. /\ netCount' = netCount /\ pendingNonce \in Int /\ netCount \in Int
      /\ seenCount' = [seenCount EXCEPT ![f] = 0] /\ seenCount \in [NonceProcs -> Int]
      /\ netCount >= 0 /\ k \in Nat /\ UNCHANGED <<pendingTxs, givenUp>>
      /\ pendingNonce' = counters[2] + k /\ noncePool' = noncePool \o added
      /\ noncePool \in Seq(Int)
  BY DEF FillFrom, netVars, NumberTypes, CounterTypes, RequestTypes, KeptInv, CountsKnown
<1>1. CountsKnown'
  BY <1>0, SameCounts DEF KeptInv, CountsKnown
<1> HIDE DEF k
<1>2. added \in Seq(Int) /\ Len(added) = k /\ \A i \in 1..k : added[i] = counters[2] + i - 1
  BY <1>0, NumbersInOrder
<1>3. /\ Len(noncePool') = Len(noncePool) + k /\ Len(noncePool) \in Nat
      /\ \A i \in 1..Len(noncePool) : noncePool'[i] = noncePool[i]
      /\ \A i \in 1..k : noncePool'[Len(noncePool) + i] = added[i]
  <2> HIDE DEF added
  <2>1. /\ Len(noncePool \o added) = Len(noncePool) + Len(added) /\ Len(noncePool) \in Nat
        /\ \A i \in 1..(Len(noncePool) + Len(added)) :
             (noncePool \o added)[i] =
                IF i <= Len(noncePool) THEN noncePool[i] ELSE added[i - Len(noncePool)]
    BY <1>0, <1>2, ConcatParts
  <2>2. noncePool' = noncePool \o added /\ k \in Nat
    BY <1>0
  <2>3. \A i \in 1..k : Len(noncePool) + i \in 1..(Len(noncePool) + k)
                        /\ ~(Len(noncePool) + i <= Len(noncePool))
                        /\ (Len(noncePool) + i) - Len(noncePool) = i
    BY <2>1, <2>2
  <2>4. \A i \in 1..Len(noncePool) : i \in 1..(Len(noncePool) + k)
    BY <2>1, <2>2
  <2> QED BY <1>2, <2>1, <2>2, <2>3, <2>4
<1>4. Accounted \subseteq Accounted'
  BY <1>0, <1>3 DEF Accounted
<1>5. \A n \in counters[2]..(counters[2] + k - 1) : n \in Accounted'
  <2> SUFFICES ASSUME NEW n \in counters[2]..(counters[2] + k - 1) PROVE n \in Accounted'
    OBVIOUS
  <2>1. n - counters[2] + 1 \in 1..k /\ counters[2] + (n - counters[2] + 1) - 1 = n
    BY <1>0
  <2> HIDE DEF added
  <2>2. PICK i \in 1..k : added[i] = n
    BY <1>2, <2>1
  <2>3. Len(noncePool) + i \in 1..Len(noncePool')
    BY <1>0, <1>3
  <2> QED BY <1>3, <2>2, <2>3 DEF Accounted
<1>6. \A n \in 0..(pendingNonce' - 1) : n < pendingNonce \/ n < netCount' \/ n \in Accounted'
  BY <1>0, <1>5
<1>7. NoNonceLost'
  BY <1>0, <1>4, <1>6, StillAccounted DEF KeptInv
<1> QED BY <1>1, <1>7 DEF KeptInv

\* No step of a caller loses a nonce.
LEMMA CallerKept ==
  ASSUME NumberTypes, NumberTypes', KeptInv, NEW c \in Callers,
         StartAllocation(c) \/ AllocationStep(c) \/ TxStep(c)
  PROVE  KeptInv'
<1>0. /\ pendingNonce \in Int /\ netCount \in Int /\ noncePool \in Seq(Int)
      /\ seenCount \in [NonceProcs -> Int] /\ c \in NonceProcs
      /\ DOMAIN pendingTxs \subseteq Int /\ IsFiniteSet(DOMAIN pendingTxs)
      /\ CountsKnown /\ NoNonceLost /\ netCount >= 0
      /\ \A p \in NonceProcs : seenCount[p] <= netCount
  BY DEF NumberTypes, CounterTypes, RequestTypes, TrackedTypes, NonceProcs, KeptInv, CountsKnown
<1>1. ASSUME UNCHANGED <<noncePool, pendingNonce, pendingTxs, givenUp, netCount>>,
             \A p \in NonceProcs : seenCount'[p] <= netCount
      PROVE  KeptInv'
  <2>1. CountsKnown'
    BY <1>0, <1>1, SameCounts
  <2>2. Accounted' = Accounted
    BY <1>1 DEF Accounted
  <2>3. NoNonceLost'
    BY <1>0, <1>1, <2>2, StillAccounted
  <2> QED BY <2>1, <2>3 DEF KeptInv
<1>2. CASE \/ StartAllocation(c) \/ PoolDrained(c) \/ PoolRefused(c)
           \/ AskBeforeAllocation(c) \/ SendTx(c) \/ LeaveUnconfirmed(c)
  <2>1. PoolRefused(c) => PoolPutBack = noncePool
    BY <1>0 DEF PoolRefused, PoolPutBack
  <2>2. UNCHANGED <<noncePool, pendingNonce, pendingTxs, givenUp, netCount>>
    BY <1>2, <2>1 DEF StartAllocation, PoolDrained, PoolRefused, AskBeforeAllocation, SendTx,
                      LeaveUnconfirmed, EndTx, nonceCounters, netVars
  <2>3. seenCount' \in {seenCount, [seenCount EXCEPT ![c] = netCount]}
    BY <1>2 DEF StartAllocation, PoolDrained, PoolRefused, AskBeforeAllocation, SendTx,
                LeaveUnconfirmed, EndTx, AskCount
  <2>4. \A p \in NonceProcs : seenCount'[p] <= netCount
    BY <1>0, <2>3
  <2> QED BY <1>1, <2>2, <2>4
<1>3. CASE TakeFromPool(c)
  <2>1. /\ noncePool # <<>> /\ noncePool' = Tail(noncePool) /\ pendingNonce' = pendingNonce
        /\ UNCHANGED <<givenUp, netCount, seenCount>>
        /\ GiveNonce(c, Head(noncePool), pendingTxs, poolGeneration)
    BY <1>3 DEF TakeFromPool, netVars
  <2>2. /\ DOMAIN pendingTxs' = DOMAIN pendingTxs \cup {Head(noncePool)}
        /\ \A k \in DOMAIN pendingTxs' :
              pendingTxs'[k] = IF k = Head(noncePool) THEN "pending" ELSE pendingTxs[k]
    BY <2>1 DEF GiveNonce
  <2>3. CountsKnown'
    BY <1>0, <2>1, <2>2 DEF CountsKnown
  <2>4. /\ Len(noncePool) \in Nat /\ Head(noncePool) = noncePool[1]
        /\ \A i \in 2..Len(noncePool) :
              i - 1 \in 1..Len(noncePool') /\ noncePool'[i - 1] = noncePool[i]
    BY <1>0, <2>1
  <2>5. \A n \in Accounted : n \in Accounted'
    <3> SUFFICES ASSUME NEW n \in Accounted PROVE n \in Accounted'
      OBVIOUS
    <3>1. CASE n \in DOMAIN pendingTxs \cup givenUp
      BY <2>1, <2>2, <3>1 DEF Accounted
    <3>2. CASE \E i \in 1..Len(noncePool) : n = noncePool[i]
      <4>1. PICK i \in 1..Len(noncePool) : n = noncePool[i]
        BY <3>2
      <4>2. CASE i = 1
        BY <2>2, <2>4, <4>1, <4>2 DEF Accounted
      <4>3. CASE i # 1
        <5>1. i \in 2..Len(noncePool)
          BY <2>4, <4>3
        <5> QED BY <2>4, <4>1, <5>1 DEF Accounted
      <4> QED BY <4>2, <4>3
    <3> QED BY <3>1, <3>2 DEF Accounted
  <2>6. NoNonceLost'
    BY <1>0, <2>1, <2>5, StillAccounted
  <2> QED BY <2>3, <2>6 DEF KeptInv
<1>4. CASE AllocateDirect(c)
  <2> DEFINE counters == <<confirmedNonce, pendingNonce>>
  <2>1. counters[2] = pendingNonce /\ AllocateFrom(c, counters)
    BY <1>4 DEF AllocateDirect
  <2> HIDE DEF counters
  <2> QED BY <1>0, <2>1, AllocationKept
<1>5. CASE AllocateAfterReply(c)
  <2>1. PICK counters \in AfterReply(c) : AllocateFrom(c, counters)
    BY <1>5 DEF AllocateAfterReply
  <2> QED BY <1>0, <2>1, RepliesGrow, RepliesKnown, AllocationKept
<1>6. CASE ConfirmTransaction(c)
  <2> DEFINE n == nonceOf[c]
  <2>0. /\ n < netCount
        /\ UNCHANGED <<pendingNonce, noncePool, givenUp, netCount, seenCount>>
    BY <1>6 DEF ConfirmTransaction, EndTx, netVars
  <2>1. CASE /\ n \in DOMAIN pendingTxs
             /\ confirmedNonce' = AdvancedFrom(n + 1, pendingTxs)
             /\ pendingTxs' = TrackedBut(pendingTxs, n..(confirmedNonce' - 1))
    <3> DEFINE m == AdvancedFrom(n + 1, pendingTxs)
    <3>1. n \in Int /\ n + 1 \in Int /\ Cardinality(DOMAIN pendingTxs) \in Nat
      BY <1>0, <2>1, FS_CardinalityType
    <3>2. /\ m \in (n + 1)..(n + 1 + Cardinality(DOMAIN pendingTxs))
          /\ \A k \in (n + 1)..(m - 1) : k \in DOMAIN pendingTxs /\ pendingTxs[k] = "confirmed"
      BY <1>0, <3>1, AdvanceEnds
    <3> HIDE DEF m
    <3>3. \A k \in n..(m - 1) : k < netCount
      <4> SUFFICES ASSUME NEW k \in n..(m - 1) PROVE k < netCount
        OBVIOUS
      <4>1. CASE k = n
        BY <2>0, <4>1
      <4>2. CASE k # n
        <5>1. k \in (n + 1)..(m - 1)
          BY <3>1, <3>2, <4>2
        <5> QED BY <1>0, <3>2, <5>1 DEF CountsKnown
      <4> QED BY <4>1, <4>2
    <3>4. CountsKnown'
      BY <1>0, <2>0, <2>1, SameCounts
    <3>5. confirmedNonce' = m
      BY <2>1 DEF m
    <3>6. \A k \in Accounted : k < netCount' \/ k \in Accounted'
      BY <2>0, <2>1, <3>3, <3>5 DEF Accounted, TrackedBut
    <3>7. NoNonceLost'
      BY <1>0, <2>0, <3>6, StillAccounted
    <3> QED BY <3>4, <3>7 DEF KeptInv
  <2>2. CASE /\ n \in DOMAIN pendingTxs
             /\ pendingTxs' = [pendingTxs EXCEPT ![n] = "confirmed"]
    <3>1. DOMAIN pendingTxs' = DOMAIN pendingTxs
      BY <2>2
    <3>2. CountsKnown'
      BY <1>0, <2>0, <2>2 DEF CountsKnown
    <3>3. Accounted' = Accounted
      BY <2>0, <3>1 DEF Accounted
    <3>4. NoNonceLost'
      BY <1>0, <2>0, <3>3, StillAccounted
    <3> QED BY <3>2, <3>4 DEF KeptInv
  <2>3. CASE UNCHANGED pendingTxs
    BY <1>0, <1>1, <2>0, <2>3
  <2> QED BY <1>6, <2>1, <2>2, <2>3 DEF ConfirmTransaction
<1>7. CASE FailTransaction(c)
  <2> DEFINE n == nonceOf[c]
             rest == TrackedBut(pendingTxs, {n})
  <2>0. UNCHANGED <<netCount, seenCount>>
    BY <1>7 DEF FailTransaction, EndTx, netVars
  <2>1. CASE pendingTxs' = rest /\ pendingNonce' = -1
    BY <1>0, <2>0, <2>1, NothingToLose, SameCounts DEF KeptInv
  <2>2. CASE pendingTxs' = rest /\ givenUp' = givenUp \cup {n} /\ UNCHANGED nonceCounters
    <3>1. CountsKnown'
      BY <1>0, <2>0, <2>2, SameCounts
    <3>2. UNCHANGED <<pendingNonce, noncePool>>
      BY <2>2 DEF nonceCounters
    <3>3. DOMAIN pendingTxs' = DOMAIN pendingTxs \ {n}
      BY <2>2 DEF TrackedBut
    <3>4. Accounted \subseteq Accounted'
      BY <2>2, <3>2, <3>3 DEF Accounted
    <3>5. NoNonceLost'
      BY <1>0, <2>0, <3>2, <3>4, StillAccounted
    <3> QED BY <3>1, <3>5 DEF KeptInv
  <2>3. CASE UNCHANGED <<nonceCounters, pendingTxs, givenUp>>
    BY <1>0, <1>1, <2>0, <2>3 DEF nonceCounters
  <2> QED BY <1>7, <2>1, <2>2, <2>3 DEF FailTransaction
<1> QED BY <1>2, <1>3, <1>4, <1>5, <1>6, <1>7 DEF AllocationStep, TxStep

\* Nor does any other step.
LEMMA KeptStays ==
  ASSUME NumberTypes, NumberTypes', KeptInv, [NonceNext]_nonceVars
  PROVE  KeptInv'
<1>0. /\ pendingNonce \in Int /\ netCount \in Int
      /\ seenCount \in [NonceProcs -> Int]
      /\ CountsKnown /\ NoNonceLost /\ netCount >= 0
      /\ \A p \in NonceProcs : seenCount[p] <= netCount
  BY DEF NumberTypes, CounterTypes, RequestTypes, KeptInv, CountsKnown
<1>1. ASSUME UNCHANGED <<noncePool, pendingTxs, givenUp>>,
             netCount' >= netCount, \A p \in NonceProcs : seenCount'[p] <= netCount',
             \A n \in 0..(pendingNonce' - 1) : n < pendingNonce \/ n < netCount'
      PROVE  KeptInv'
  <2>1. netCount' \in Int /\ DOMAIN pendingTxs \subseteq Int
    BY DEF NumberTypes, RequestTypes, TrackedTypes
  <2>2. CountsKnown'
    BY <1>0, <1>1, <2>1 DEF CountsKnown
  <2>3. Accounted' = Accounted
    BY <1>1 DEF Accounted
  <2>4. NoNonceLost'
    BY <1>0, <1>1, <2>3, StillAccounted
  <2> QED BY <2>2, <2>4 DEF KeptInv
<1>2. CASE \E f \in Fillers : FillStep(f)
  <2>1. PICK f \in Fillers : FillStep(f)
    BY <1>2
  <2>2. CASE FillAborted(f) \/ AskBeforeFill(f)
    <3>1. /\ UNCHANGED <<noncePool, pendingNonce, pendingTxs, givenUp, netCount>>
          /\ seenCount' \in {seenCount, [seenCount EXCEPT ![f] = netCount]}
      BY <2>2 DEF FillAborted, AskBeforeFill, nonceCounters, netVars, AskCount
    <3>2. \A p \in NonceProcs : seenCount'[p] <= netCount'
      BY <1>0, <3>1
    <3> QED BY <1>0, <1>1, <3>1, <3>2
  <2>3. CASE FillNow(f)
    <3> DEFINE counters == <<confirmedNonce, pendingNonce>>
    <3>1. counters[2] = pendingNonce /\ FillFrom(f, counters)
      BY <2>3 DEF FillNow
    <3> HIDE DEF counters
    <3> QED BY <1>0, <3>1, FillKept
  <2>4. CASE FillAfterReply(f)
    <3>1. PICK counters \in AfterReply(f) : FillFrom(f, counters)
      BY <2>4 DEF FillAfterReply
    <3>2. f \in NonceProcs
      BY DEF NonceProcs
    <3> QED BY <3>1, <3>2, RepliesGrow, RepliesKnown, FillKept
  <2> QED BY <2>1, <2>2, <2>3, <2>4 DEF FillStep
<1>3. CASE StartSync \/ SyncAnswered \/ SyncApplied
  <2>0. Syncer \in NonceProcs
    BY DEF NonceProcs
  <2>1. UNCHANGED <<noncePool, pendingTxs, givenUp, netCount>>
    BY <1>3 DEF StartSync, SyncAnswered, SyncApplied, nonceCounters, netVars
  <2>2. \E k \in Int : k <= netCount /\ seenCount' = [seenCount EXCEPT ![Syncer] = k]
    BY <1>0, <1>3, <2>0 DEF StartSync, SyncAnswered, SyncApplied, AskCount
  <2>3. \A p \in NonceProcs : seenCount'[p] <= netCount'
    BY <1>0, <2>1, <2>2
  <2>4. pendingNonce' = pendingNonce \/ pendingNonce' <= netCount
    BY <1>0, <1>3, <2>0 DEF StartSync, SyncAnswered, SyncApplied, nonceCounters, SyncedPending
  <2>5. pendingNonce' \in Int
    BY DEF NumberTypes, CounterTypes
  <2>6. \A n \in 0..(pendingNonce' - 1) : n < pendingNonce \/ n < netCount'
    <3>1. netCount' = netCount
      BY <2>1
    <3>2. CASE pendingNonce' = pendingNonce
      BY <1>0, <3>2
    <3>3. CASE pendingNonce' <= netCount
      <4>1. netCount \in Int /\ pendingNonce' \in Int
        BY <1>0, <2>5
      <4>2. \A n \in 0..(pendingNonce' - 1) : n < netCount
        BY <3>3, <4>1, NumbersBelow
      <4> QED BY <3>1, <4>2
    <3> QED BY <2>4, <3>2, <3>3
  <2>7. netCount' >= netCount
    BY <1>0, <2>1
  <2> QED BY <1>1, <2>1, <2>3, <2>6, <2>7
<1>4. CASE NetworkAccepts
  <2>1. /\ UNCHANGED <<noncePool, pendingNonce, pendingTxs, givenUp, seenCount>>
        /\ netCount' = netCount + 1
    BY <1>4 DEF NetworkAccepts, nonceCounters
  <2>2. \A p \in NonceProcs : seenCount'[p] <= netCount'
    BY <1>0, <2>1
  <2> QED BY <1>0, <1>1, <2>1, <2>2
<1>5. CASE UNCHANGED nonceVars
  <2>1. UNCHANGED <<noncePool, pendingNonce, pendingTxs, givenUp, seenCount, netCount>>
    BY <1>5 DEF nonceVars, nonceCounters, netVars
  <2> QED BY <1>0, <1>1, <2>1
<1> QED BY <1>2, <1>3, <1>4, <1>5, CallerKept DEF NonceNext

\* There is no nonce to lose at first.
LEMMA KeptInit == NonceInit => KeptInv
<1> SUFFICES ASSUME NonceInit PROVE KeptInv
  OBVIOUS
<1>1. /\ netCount = 0 /\ seenCount = [p \in NonceProcs |-> 0] /\ DOMAIN pendingTxs = {}
      /\ pendingNonce = -1
  BY DEF NonceInit
<1>2. CountsKnown
  BY <1>1 DEF CountsKnown
<1>3. \A n \in 0..(pendingNonce - 1) : FALSE
  BY <1>1
<1> QED BY <1>2, <1>3, Zenon DEF NoNonceLost, KeptInv

-----------------------------------------------------------------------------
(* The theorems. *)

\* The inductive invariant: the types, the lock, the nonces that are held, and those
\* that are not.
NonceInv == NumberTypes /\ LockInv /\ DistinctInv /\ KeptInv

\* It holds of every behaviour of the allocation.
THEOREM NonceAlways == NonceSpec => []NonceInv
<1>1. NonceInit => NonceInv
  BY NumbersInit, LockInit, DistinctInit, KeptInit DEF NonceInv
<1>2. NonceInv /\ [NonceNext]_nonceVars => NonceInv'
  <2> SUFFICES ASSUME NonceInv, [NonceNext]_nonceVars PROVE NonceInv'
    OBVIOUS
  <2>1. NumberTypes'
    BY NumbersKept DEF NonceInv
  <2>2. LockInv'
    BY LockKept DEF NonceInv, NumberTypes, RequestTypes
  <2>3. DistinctInv'
    BY <2>1, DistinctKept DEF NonceInv
  <2>4. KeptInv'
    BY <2>1, KeptStays DEF NonceInv
  <2> QED BY <2>1, <2>2, <2>3, <2>4 DEF NonceInv
<1> QED BY <1>1, <1>2, PTL DEF NonceSpec

\* The variables of the nonce manager keep their types.
THEOREM NonceTypeCorrect == NonceSpec => []NonceTypeOK
<1>1. NonceInv => NonceTypeOK
  <2> SUFFICES ASSUME NonceInv PROVE NonceTypeOK
    OBVIOUS
  <2>1. isLocked \in BOOLEAN /\ lockQueue \in Seq(NonceProcs) /\ lockOwners \subseteq NonceProcs
    BY DEF NonceInv, LockInv, LockShape, NonceLock
  <2>2. isReplenishing \in BOOLEAN
    BY DEF NonceInv, NumberTypes, RequestTypes
  <2> QED BY <2>1, <2>2 DEF NonceTypeOK, NonceInv, NumberTypes, CounterTypes, HolderTypes,
                           RequestTypes, TrackedTypes
<1> QED BY <1>1, NonceAlways, PTL

\* Two transactions never hold the same nonce of a generation, however allocation,
\* replenishment, sync, failures and resets interleave.
THEOREM NoSharedNonce == NonceSpec => []NoncesDistinct
<1>1. NonceInv => NoncesDistinct
  BY DEF NonceInv, DistinctInv
<1> QED BY <1>1, NonceAlways, PTL

\* NoNonceLost: below pendingNonce no gap opens by accident.  Whatever the order of
\* pool, direct path, sync and replies, such a nonce has reached the network, waits in
\* the pool, is tracked, or was given up by failTransaction.
THEOREM NoGapByAccident == NonceSpec => []NoNonceLost
<1>1. NonceInv => NoNonceLost
  BY DEF NonceInv, KeptInv
<1> QED BY <1>1, NonceAlways, PTL

\* The chain lock is held by one at a time, through every hand-off.
THEOREM LockExcludes == NonceSpec => []NonceLockExclusive
<1>1. NonceInv => NonceLockExclusive
  BY DEF NonceInv, LockInv, LockWell, NonceLock, NonceLockExclusive
<1> QED BY <1>1, NonceAlways, PTL

\* Nobody who waits for the lock is forgotten, and nobody keeps it outside a
\* critical section.
THEOREM WaitersQueued == NonceSpec => []NoLostWakeup
<1>1. NonceInv => NoLostWakeup
  <2> SUFFICES ASSUME NonceInv PROVE NoLostWakeup
    OBVIOUS
  <2>1. LockWell(NonceLock, Busy) /\ NonceLock.owners = lockOwners /\ NonceLock.queue = lockQueue
    BY DEF NonceInv, LockInv, NonceLock
  <2>2. \A p \in NonceProcs :
           nonceStage[p] \in WaitsForLock /\ p \notin lockOwners
             => \E i \in DOMAIN lockQueue : lockQueue[i] = p
    BY <2>1 DEF LockWell, Busy
  <2>3. \A p \in lockOwners : nonceStage[p] \in WaitsForLock \cup UnderLock
    BY <2>1 DEF LockWell, Busy
  <2> QED BY <2>1, <2>2, <2>3 DEF LockWell, NoLostWakeup
<1> QED BY <1>1, NonceAlways, PTL
=============================================================================
