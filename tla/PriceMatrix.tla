----------------------------- MODULE PriceMatrix -----------------------------
(***************************************************************************)
(* The L1 price matrix that the main thread of a detector writes and its   *)
(* worker threads read in shared memory: shared/core/src/caching/          *)
(* price-matrix.ts, with the key registry of shared-key-registry.ts.       *)
(*                                                                         *)
(* The threads run in parallel, so a step is one access to shared memory.  *)
(* A price is a float of eight bytes written without Atomics: it is two    *)
(* halves here, which another thread may see apart.  The accesses of a     *)
(* thread take effect in the order of its program.                         *)
(***************************************************************************)
EXTENDS Naturals, Sequences, FiniteSets

CONSTANTS
    Keys, Tags,     \* a price is told apart by key, timestamp and a tag
    MaxStamp,       \* timestamps are 1..MaxStamp, 0 says "empty"
    TotalSlots,     \* maxPairs and reserveSlots together
    MaxPairs,       \* config.maxPairs
    RegistryMax,    \* maxKeys of the registry
    Buckets,        \* hashTableSize
    HomeBucket(_),  \* the hash of a key, masked
    Workers,
    MaxRetries,     \* MAX_SEQ_RETRIES
    MaxSequence     \* bound on the sequence counter of a slot

ASSUME MatrixAssumption ==
    /\ {TotalSlots, MaxPairs, RegistryMax, MaxRetries, MaxSequence} \subseteq Nat
    /\ MaxStamp \in Nat /\ Buckets \in Nat /\ Buckets > RegistryMax
    /\ \A k \in Keys : HomeBucket(k) \in 0..(Buckets - 1)

Slots == 1..TotalSlots
Prices == [key : Keys, stamp : 1..MaxStamp, tag : Tags]
Zero == [key |-> "none", stamp |-> 0, tag |-> "none"]
Empty == 0                      \* EMPTY_BUCKET, and "no index" of the mapper

VARIABLES
    mapper,         \* key |-> slot, kept by the main thread
    written,        \* writtenSlots
    priceLo, priceHi, stamps, sequences,    \* the shared arrays
    writerAt,       \* the next access of the main thread
    todo,           \* the writes of its call: [slot, price] in order
    newKeys,        \* keys its call has yet to register
    entries,        \* the registry's slots: [key, index] in order
    buckets,        \* bucket |-> position in entries
    entryCount,
    readAt,         \* the next access of each worker
    reading         \* what a worker has in hand

matrixVars == <<mapper, written, priceLo, priceHi, stamps, sequences>>
writerVars == <<writerAt, todo, newKeys>>
registryVars == <<entries, buckets, entryCount>>
readerVars == <<readAt, reading>>
priceVars == <<matrixVars, writerVars, registryVars, readerVars>>

NoRead == [key |-> "none", probe |-> 0, slot |-> 0, seq |-> 0,
           lo |-> Zero, hi |-> Zero, stamp |-> 0, retries |-> 0]

PriceInit ==
    /\ mapper = [k \in Keys |-> Empty] /\ written = {}
    /\ priceLo = [i \in Slots |-> Zero] /\ priceHi = [i \in Slots |-> Zero]
    /\ stamps = [i \in Slots |-> 0] /\ sequences = [i \in Slots |-> 0]
    /\ writerAt = "idle" /\ todo = <<>> /\ newKeys = <<>>
    /\ entries = <<>> /\ entryCount = 0
    /\ buckets = [b \in 0..(Buckets - 1) |-> Empty]
    /\ readAt = [r \in Workers |-> "idle"]
    /\ reading = [r \in Workers |-> NoRead]

-----------------------------------------------------------------------------
(* The main thread: setPrice, setBatch and deletePrice *)

Mapped == {k \in Keys : mapper[k] # Empty}

(* The keys of a batch that the mapper does not know, each once, in order. *)
NewKeysIn(updates) ==
    LET new == {i \in DOMAIN updates : mapper[updates[i].key] = Empty}
    IN IF new = {} THEN <<>>
       ELSE IF new = {1, 2} /\ updates[1].key # updates[2].key
            THEN <<updates[1].key, updates[2].key>>
       ELSE <<updates[CHOOSE i \in new : TRUE].key>>

(* A new key gets the next index.                                          *)
MapperWith(added) ==
    [k \in Keys |-> IF \E i \in DOMAIN added : added[i] = k
                    THEN Cardinality(Mapped) + (CHOOSE i \in DOMAIN added : added[i] = k)
                    ELSE mapper[k]]

Write(slot, price) == [slot |-> slot, price |-> price]

(* One price, or a batch of two: all keys are resolved first, and the new  *)
(* ones are registered when all prices are written.  A key beyond maxPairs,*)
(* or one the mapper has no index for, is refused, which changes nothing.  *)
SetPrices ==
    /\ writerAt = "idle"
    /\ \E updates \in {<<p>> : p \in Prices} \cup
                      {<<p, q>> : p \in Prices, q \in Prices} :
       LET added == NewKeysIn(updates) IN
         /\ added # <<>> => Cardinality(written) < MaxPairs
         /\ Cardinality(Mapped) + Len(added) <= TotalSlots
         /\ mapper' = MapperWith(added)
         /\ newKeys' = added
         /\ todo' = [i \in DOMAIN updates |->
                        Write(mapper'[updates[i].key], updates[i])]
         /\ \A i \in DOMAIN updates :
              sequences[mapper'[updates[i].key]] + 2 * Len(updates) <= MaxSequence
    /\ writerAt' = "check"
    /\ UNCHANGED <<written, priceLo, priceHi, stamps, sequences, registryVars,
                   readerVars>>

DeletePrice(k) ==
    /\ writerAt = "idle" /\ mapper[k] # Empty
    /\ sequences[mapper[k]] + 2 <= MaxSequence
    /\ todo' = <<Write(mapper[k], Zero)>>
    /\ writerAt' = "odd"
    /\ UNCHANGED <<matrixVars, newKeys, registryVars, readerVars>>

(* After the last write of a call come the registrations.                  *)
AfterWrites == IF newKeys # <<>> THEN "slot" ELSE "idle"
NextWrite == /\ todo' = Tail(todo)
             /\ writerAt' = IF Len(todo) > 1 THEN "check" ELSE AfterWrites

(* A price older than the one in the slot is dropped.                      *)
CheckStamp ==
    /\ writerAt = "check"
    /\ \/ /\ stamps[Head(todo).slot] > Head(todo).price.stamp
          /\ NextWrite
       \/ /\ stamps[Head(todo).slot] <= Head(todo).price.stamp
          /\ writerAt' = "odd"
          /\ UNCHANGED todo
    /\ UNCHANGED <<matrixVars, newKeys, registryVars, readerVars>>

WriterAccess(at, then) ==
    /\ writerAt = at /\ writerAt' = then
    /\ UNCHANGED <<mapper, todo, newKeys, registryVars, readerVars>>

BeginWrite ==
    /\ WriterAccess("odd", "lo")
    /\ sequences' = [sequences EXCEPT ![Head(todo).slot] = @ + 1]
    /\ UNCHANGED <<written, priceLo, priceHi, stamps>>

WriteLo ==
    /\ WriterAccess("lo", "hi")
    /\ priceLo' = [priceLo EXCEPT ![Head(todo).slot] = Head(todo).price]
    /\ UNCHANGED <<written, priceHi, stamps, sequences>>

WriteHi ==
    /\ WriterAccess("hi", "stamp")
    /\ priceHi' = [priceHi EXCEPT ![Head(todo).slot] = Head(todo).price]
    /\ UNCHANGED <<written, priceLo, stamps, sequences>>

WriteStamp ==
    /\ WriterAccess("stamp", "even")
    /\ stamps' = [stamps EXCEPT ![Head(todo).slot] = Head(todo).price.stamp]
    /\ UNCHANGED <<written, priceLo, priceHi, sequences>>

EndWrite ==
    /\ writerAt = "even"
    /\ sequences' = [sequences EXCEPT ![Head(todo).slot] = @ + 1]
    /\ written' = IF Head(todo).price = Zero THEN written \ {Head(todo).slot}
                                             ELSE written \cup {Head(todo).slot}
    /\ NextWrite
    /\ UNCHANGED <<mapper, priceLo, priceHi, stamps, newKeys, registryVars,
                   readerVars>>

(* register: the slot of the key first, then the bucket that leads to it.  *)
NextKey == /\ newKeys' = Tail(newKeys)
           /\ writerAt' = IF Len(newKeys) > 1 THEN "slot" ELSE "idle"

RegistryFull ==
    /\ writerAt = "slot" /\ entryCount >= RegistryMax
    /\ NextKey
    /\ UNCHANGED <<matrixVars, todo, registryVars, readerVars>>

\* Variant: a key is registered with the newest index of the batch.
WriteEntryNewest ==
    /\ writerAt = "slot" /\ entryCount < RegistryMax
    /\ entries' = Append(entries, [key |-> Head(newKeys),
                                   index |-> Cardinality(Mapped)])
    /\ writerAt' = "bucket"
    /\ UNCHANGED <<matrixVars, todo, newKeys, buckets, entryCount, readerVars>>
WriteEntry ==
    /\ writerAt = "slot" /\ entryCount < RegistryMax
    /\ entries' = Append(entries, [key |-> Head(newKeys),
                                   index |-> mapper[Head(newKeys)]])
    /\ writerAt' = "bucket"
    /\ UNCHANGED <<matrixVars, todo, newKeys, buckets, entryCount, readerVars>>

BucketAt(k, probe) == (HomeBucket(k) + probe) % Buckets

(* The first empty bucket from the hash of the key on.                     *)
PublishEntry ==
    /\ writerAt = "bucket"
    /\ \E probe \in 0..(Buckets - 1) :
         /\ buckets[BucketAt(Head(newKeys), probe)] = Empty
         /\ \A p \in 0..(probe - 1) : buckets[BucketAt(Head(newKeys), p)] # Empty
         /\ buckets' = [buckets EXCEPT ![BucketAt(Head(newKeys), probe)] =
                            entryCount + 1]
    /\ writerAt' = "count"
    /\ UNCHANGED <<matrixVars, todo, newKeys, entries, entryCount, readerVars>>

CountEntry ==
    /\ writerAt = "count"
    /\ entryCount' = entryCount + 1
    /\ NextKey
    /\ UNCHANGED <<matrixVars, todo, entries, buckets, readerVars>>

-----------------------------------------------------------------------------
(* A worker: getPrice *)

WorkerAccess(r, at, then, with) ==
    /\ readAt[r] = at
    /\ readAt' = [readAt EXCEPT ![r] = then]
    /\ reading' = [reading EXCEPT ![r] = with]
    /\ UNCHANGED <<matrixVars, writerVars, registryVars>>

StartRead(r) ==
    \E k \in Keys : WorkerAccess(r, "idle", "lookup", [NoRead EXCEPT !.key = k])

(* One probe.  An index once found is cached, which changes nothing since  *)
(* no entry is ever taken back.                                            *)
Lookup(r) ==
    LET h == reading[r]
        entry == buckets[BucketAt(h.key, h.probe)]
    IN \/ /\ entry = Empty \/ h.probe = Buckets
          /\ WorkerAccess(r, "lookup", "idle", NoRead)
       \/ /\ entry # Empty /\ h.probe < Buckets
          /\ \/ /\ entries[entry].key = h.key
                /\ WorkerAccess(r, "lookup", "seq",
                                [h EXCEPT !.slot = entries[entry].index])
             \/ /\ entries[entry].key # h.key
                /\ WorkerAccess(r, "lookup", "lookup", [h EXCEPT !.probe = @ + 1])

(* Again, or a miss after too many attempts.                               *)
Retry(r, at) ==
    LET h == reading[r] IN
    \/ /\ h.retries + 1 < MaxRetries
       /\ WorkerAccess(r, at, "seq", [h EXCEPT !.retries = @ + 1])
    \/ /\ h.retries + 1 >= MaxRetries
       /\ WorkerAccess(r, at, "idle", NoRead)

\* Variant: a write under way is not noticed.
ReadAnySequence(r) ==
    WorkerAccess(r, "seq", "lo",
                 [reading[r] EXCEPT !.seq = sequences[reading[r].slot]])
ReadSequence(r) ==
    LET h == reading[r] IN
    \/ /\ readAt[r] = "seq" /\ sequences[h.slot] % 2 = 1
       /\ Retry(r, "seq")
    \/ /\ readAt[r] = "seq" /\ sequences[h.slot] % 2 = 0
       /\ WorkerAccess(r, "seq", "lo", [h EXCEPT !.seq = sequences[h.slot]])

ReadLo(r) ==
    LET h == reading[r] IN
    readAt[r] = "lo" /\ WorkerAccess(r, "lo", "hi", [h EXCEPT !.lo = priceLo[h.slot]])

ReadHi(r) ==
    LET h == reading[r] IN
    readAt[r] = "hi" /\ WorkerAccess(r, "hi", "stamp", [h EXCEPT !.hi = priceHi[h.slot]])

ReadStamp(r) ==
    LET h == reading[r] IN
    readAt[r] = "stamp"
        /\ WorkerAccess(r, "stamp", "again", [h EXCEPT !.stamp = stamps[h.slot]])

(* The same sequence as before: the price is returned, unless its slot is  *)
(* empty.                                                                  *)
CompareSequence(r) ==
    LET h == reading[r] IN
    \/ /\ readAt[r] = "again" /\ sequences[h.slot] # h.seq
       /\ Retry(r, "again")
    \/ /\ readAt[r] = "again" /\ sequences[h.slot] = h.seq
       /\ \/ h.stamp = 0 /\ WorkerAccess(r, "again", "idle", NoRead)
          \/ h.stamp # 0 /\ WorkerAccess(r, "again", "hit", h)

EndRead(r) == WorkerAccess(r, "hit", "idle", NoRead)

WriterStep ==
    \/ CheckStamp \/ BeginWrite \/ WriteLo \/ WriteHi \/ WriteStamp \/ EndWrite
    \/ RegistryFull \/ WriteEntry \/ PublishEntry \/ CountEntry

ReadStep(r) ==
    \/ Lookup(r) \/ ReadSequence(r) \/ ReadLo(r) \/ ReadHi(r) \/ ReadStamp(r)
    \/ CompareSequence(r) \/ EndRead(r)

PriceNext ==
    \/ SetPrices \/ (\E k \in Keys : DeletePrice(k)) \/ WriterStep
    \/ \E r \in Workers : StartRead(r) \/ ReadStep(r)

PriceSpec == PriceInit /\ [][PriceNext]_priceVars

-----------------------------------------------------------------------------
(* What a worker is given is one price of the key it asked for, whole and  *)
(* with the timestamp it was written with, whatever the main thread did    *)
(* while it was read.                                                      *)
ReadsAreWhole ==
    \A r \in Workers :
        readAt[r] = "hit" =>
            /\ reading[r].lo = reading[r].hi
            /\ reading[r].lo.key = reading[r].key
            /\ reading[r].lo.stamp = reading[r].stamp

(* A bucket that workers can see leads to a complete entry of the registry,*)
(* and the entry to the slot of its key, which has been written to.        *)
PublishedIsComplete ==
    \A b \in DOMAIN buckets :
        buckets[b] # Empty =>
            /\ buckets[b] \in DOMAIN entries
            /\ entries[buckets[b]].index = mapper[entries[buckets[b]].key]
            /\ sequences[entries[buckets[b]].index] > 0
=============================================================================
