----------------------------- MODULE PriceProofs -----------------------------
(* The price matrix of PriceMatrix: what a worker reads is whole, and a bucket  *)
(* that workers can see leads to a complete entry, for every number of workers, *)
(* keys and slots.                                                              *)
EXTENDS PriceMatrix, Integers, FiniteSetTheorems, TLAPS

WriterStages == {"idle", "check", "odd", "lo", "hi", "stamp", "even", "slot",
                 "bucket", "count"}
ReadStages == {"idle", "lookup", "seq", "lo", "hi", "stamp", "again", "hit"}

Stored == Prices \cup {Zero}
WriteCalls == [slot : Slots, price : Stored]
Readings == [key : Keys \cup {"none"}, probe : Nat, slot : 0..TotalSlots, seq : Nat,
             lo : Stored, hi : Stored, stamp : Nat, retries : Nat]

MatrixTypes ==
  /\ mapper \in [Keys -> 0..TotalSlots]
  /\ priceLo \in [Slots -> Stored] /\ priceHi \in [Slots -> Stored]
  /\ stamps \in [Slots -> Nat] /\ sequences \in [Slots -> Nat]

WriterTypes ==
  /\ writerAt \in WriterStages /\ todo \in Seq(WriteCalls) /\ newKeys \in Seq(Keys)

RegistryTypes ==
  /\ entries \in Seq([key : Keys, index : Slots]) /\ entryCount \in Nat
  /\ buckets \in [0..(Buckets - 1) -> Nat]

ReaderTypes ==
  /\ readAt \in [Workers -> ReadStages] /\ reading \in [Workers -> Readings]

PriceTypes == MatrixTypes /\ WriterTypes /\ RegistryTypes /\ ReaderTypes

\* No two keys have the same slot, and the next index is free.
MapperOK ==
  /\ IsFiniteSet(Mapped)
  /\ \A k \in Keys : mapper[k] <= Cardinality(Mapped)
  /\ \A k, l \in Mapped : mapper[k] = mapper[l] => k = l

\* What a call has still to write and to register.
WriterOK ==
  /\ writerAt \in {"check", "odd", "lo", "hi", "stamp", "even"} => todo # <<>>
  /\ writerAt \in {"idle", "slot", "bucket", "count"} => todo = <<>>
  /\ writerAt \in {"slot", "bucket", "count"} => newKeys # <<>>
  /\ writerAt = "idle" => newKeys = <<>>
  /\ \A i \in 1..Len(todo) :
        todo[i].price \in Prices => mapper[todo[i].price.key] = todo[i].slot

Writing == writerAt \in {"lo", "hi", "stamp", "even"}
Target == Head(todo).slot

\* A slot is whole and its sequence even, but for the one that is being written.
Whole(i) ==
  sequences[i] % 2 = 0 /\ priceHi[i] = priceLo[i] /\ stamps[i] = priceLo[i].stamp

SlotsOK ==
  /\ \A i \in Slots : priceLo[i] \in Prices => mapper[priceLo[i].key] = i
  /\ \A i \in Slots : (Writing /\ i = Target) \/ Whole(i)
  /\ Writing => sequences[Target] % 2 = 1
  /\ writerAt \in {"hi", "stamp", "even"} => priceLo[Target] = Head(todo).price
  /\ writerAt \in {"stamp", "even"} => priceHi[Target] = Head(todo).price
  /\ writerAt = "even" => stamps[Target] = Head(todo).price.stamp
  /\ \A i \in Slots : stamps[i] > 0 => sequences[i] > 0

\* What is registered, and what is about to be, has been written or will be.
Written(k) ==
  \/ sequences[mapper[k]] > 0
  \/ \E j \in 1..Len(todo) : todo[j].slot = mapper[k] /\ todo[j].price \in Prices

RegistryOK ==
  /\ \A n \in 1..Len(entries) :
        mapper[entries[n].key] = entries[n].index /\ sequences[entries[n].index] > 0
  /\ Len(entries) = IF writerAt \in {"bucket", "count"} THEN entryCount + 1 ELSE entryCount
  /\ \A b \in 0..(Buckets - 1) : buckets[b] # 0 => buckets[b] \in 1..Len(entries)
  /\ \A i \in 1..Len(newKeys) : mapper[newKeys[i]] # 0 /\ Written(newKeys[i])

\* What a worker has read so far is of one write, if the sequence is still the
\* one it began with.
ReadingOK(h, at) ==
  /\ at = "lookup" => h.key \in Keys
  /\ at \in {"seq", "lo", "hi", "stamp", "again"} =>
        h.key \in Keys /\ h.slot \in Slots /\ mapper[h.key] = h.slot
  /\ at \in {"lo", "hi", "stamp", "again"} => h.seq % 2 = 0 /\ h.seq <= sequences[h.slot]
  /\ at \in {"hi", "stamp", "again"} /\ sequences[h.slot] = h.seq => h.lo = priceLo[h.slot]
  /\ at \in {"stamp", "again"} /\ sequences[h.slot] = h.seq => h.hi = priceHi[h.slot]
  /\ at = "again" /\ sequences[h.slot] = h.seq => h.stamp = stamps[h.slot]
  /\ at = "hit" => h.lo = h.hi /\ h.lo.key = h.key /\ h.lo.stamp = h.stamp

ReadersOK == \A r \in Workers : ReadingOK(reading[r], readAt[r])

PriceInv == PriceTypes /\ MapperOK /\ WriterOK /\ SlotsOK /\ RegistryOK /\ ReadersOK

-----------------------------------------------------------------------------
(* The workers. *)

\* A price that is stored has a timestamp unless it is the empty one.
LEMMA StoredStamp ==
  ASSUME NEW p \in Stored
  PROVE  p.stamp \in Nat /\ (p.stamp # 0 => p \in Prices)
BY MatrixAssumption DEF Stored, Prices, Zero

\* A probe stays in the table.
LEMMA ProbeInTable ==
  ASSUME NEW k \in Keys, NEW probe \in Nat
  PROVE  BucketAt(k, probe) \in 0..(Buckets - 1)
<1>1. HomeBucket(k) \in Nat /\ Buckets \in Nat /\ Buckets > 0
  BY MatrixAssumption
<1>2. HomeBucket(k) + probe \in Nat
  BY <1>1
<1> QED BY <1>1, <1>2 DEF BucketAt

\* One worker moves, and to a state that is right.
LEMMA WorkerMoves ==
  ASSUME PriceInv, NEW r \in Workers, NEW at, NEW then \in ReadStages, NEW with \in Readings,
         WorkerAccess(r, at, then, with), ReadingOK(with, then)
  PROVE  PriceInv'
<1>1. UNCHANGED <<matrixVars, writerVars, registryVars>>
  BY DEF WorkerAccess
<1>2. ReaderTypes'
  BY DEF WorkerAccess, PriceInv, PriceTypes, ReaderTypes
<1>3. ReadersOK'
  <2> SUFFICES ASSUME NEW q \in Workers PROVE ReadingOK(reading[q], readAt[q])'
    BY DEF ReadersOK
  <2>1. ReadingOK(reading'[q], readAt'[q])
    <3>1. CASE q = r
      BY <3>1 DEF WorkerAccess, PriceInv, PriceTypes, ReaderTypes
    <3>2. CASE q # r
      BY <3>2 DEF WorkerAccess, PriceInv, PriceTypes, ReaderTypes, ReadersOK
    <3> QED BY <3>1, <3>2
  <2> QED BY <1>1, <2>1 DEF ReadingOK, matrixVars
<1>4. MatrixTypes' /\ WriterTypes' /\ RegistryTypes'
  BY <1>1 DEF matrixVars, writerVars, registryVars, PriceInv, PriceTypes, MatrixTypes,
              WriterTypes, RegistryTypes
<1>5. MapperOK' /\ WriterOK' /\ SlotsOK' /\ RegistryOK'
  BY <1>1 DEF matrixVars, writerVars, registryVars, PriceInv, MapperOK, WriterOK, SlotsOK,
              RegistryOK, Mapped, Writing, Target, Whole, Written
<1> QED BY <1>2, <1>3, <1>4, <1>5 DEF PriceInv, PriceTypes

\* A worker that holds nothing.
LEMMA NothingHeld ==
  /\ NoRead \in Readings /\ ReadingOK(NoRead, "idle")
  /\ \A k \in Keys : [NoRead EXCEPT !.key = k] \in Readings
                     /\ ReadingOK([NoRead EXCEPT !.key = k], "lookup")
  /\ "idle" \in ReadStages /\ "lookup" \in ReadStages
BY MatrixAssumption DEF NoRead, Readings, ReadingOK, Stored, ReadStages

\* What a worker has in hand, by name.
LEMMA InHand ==
  ASSUME PriceInv, NEW r \in Workers
  PROVE  /\ reading[r] \in Readings /\ readAt[r] \in ReadStages
         /\ ReadingOK(reading[r], readAt[r])
BY DEF PriceInv, PriceTypes, ReaderTypes, ReadersOK

\* Starting again keeps the key and its slot.
LEMMA RetryKeeps ==
  ASSUME PriceInv, NEW r \in Workers, NEW at \in {"seq", "again"}, readAt[r] = at, Retry(r, at)
  PROVE  PriceInv'
<1> DEFINE h == reading[r]
<1>1. h \in Readings /\ ReadingOK(h, at)
  BY InHand
<1>2. CASE WorkerAccess(r, at, "seq", [h EXCEPT !.retries = @ + 1])
  <2> DEFINE next == [h EXCEPT !.retries = @ + 1]
  <2>1. next \in Readings /\ next.key = h.key /\ next.slot = h.slot
    BY <1>1 DEF Readings
  <2>2. ReadingOK(next, "seq") /\ "seq" \in ReadStages
    BY <1>1, <2>1 DEF ReadingOK, ReadStages
  <2> HIDE DEF next
  <2> QED BY <1>2, <2>1, <2>2, WorkerMoves DEF next
<1>3. CASE WorkerAccess(r, at, "idle", NoRead)
  BY <1>3, NothingHeld, WorkerMoves
<1> QED BY <1>2, <1>3 DEF Retry

\* An entry of the registry has a key and a slot.
LEMMA EntryTyped ==
  ASSUME PriceInv, NEW n \in 1..Len(entries)
  PROVE  entries[n] \in [key : Keys, index : Slots]
<1> DEFINE Entries == [key : Keys, index : Slots]
<1>1. entries \in Seq(Entries)
  BY DEF PriceInv, PriceTypes, RegistryTypes
<1> HIDE DEF Entries
<1>2. entries[n] \in Entries
  BY <1>1
<1> QED BY <1>2 DEF Entries

\* The index of a bucket that a worker finds is the one of its key.
LEMMA LookupKeeps ==
  ASSUME PriceInv, NEW r \in Workers, Lookup(r)
  PROVE  PriceInv'
<1> DEFINE h == reading[r]
           entry == buckets[BucketAt(h.key, h.probe)]
<1>1. h \in Readings /\ ReadingOK(h, readAt[r])
  BY InHand
<1>2. CASE WorkerAccess(r, "lookup", "idle", NoRead)
  BY <1>2, NothingHeld, WorkerMoves
<1>3. CASE /\ entry # Empty /\ entries[entry].key = h.key
           /\ WorkerAccess(r, "lookup", "seq", [h EXCEPT !.slot = entries[entry].index])
  <2>1. h.key \in Keys
    BY <1>1, <1>3 DEF ReadingOK, WorkerAccess
  <2>2. entry \in 1..Len(entries)
    <3>1. h.probe \in Nat
      BY <1>1 DEF Readings
    <3>2. BucketAt(h.key, h.probe) \in 0..(Buckets - 1)
      BY <2>1, <3>1, ProbeInTable
    <3> QED BY <1>3, <3>2 DEF PriceInv, RegistryOK, Empty
  <2>3. entries[entry].index \in Slots /\ mapper[h.key] = entries[entry].index
    <3> DEFINE e == entries[entry]
    <3>1. e.key = h.key
      BY <1>3
    <3> HIDE DEF entry
    <3>2. e \in [key : Keys, index : Slots]
      BY <2>2, EntryTyped
    <3>3. mapper[e.key] = e.index
      BY <2>2 DEF PriceInv, RegistryOK
    <3> HIDE DEF e
    <3>4. e.index \in Slots /\ mapper[h.key] = e.index
      BY <3>1, <3>2, <3>3
    <3> QED BY <3>4 DEF e
  <2> HIDE DEF entry
  <2> DEFINE i == entries[entry].index
             next == [h EXCEPT !.slot = i]
  <2>4. i \in 0..TotalSlots
    BY <2>3 DEF Slots
  <2>5. next \in Readings /\ next.key = h.key /\ next.slot = i
    <3> HIDE DEF i
    <3> QED BY <1>1, <2>4 DEF Readings
  <2>6. ReadingOK(next, "seq") /\ "seq" \in ReadStages
    BY <2>1, <2>3, <2>5 DEF ReadingOK, ReadStages
  <2>7. WorkerAccess(r, "lookup", "seq", next)
    BY <1>3
  <2> HIDE DEF next
  <2> QED BY <2>5, <2>6, <2>7, WorkerMoves
<1>4. CASE WorkerAccess(r, "lookup", "lookup", [h EXCEPT !.probe = @ + 1])
  <2> DEFINE next == [h EXCEPT !.probe = @ + 1]
  <2>1. next \in Readings /\ next.key = h.key
    BY <1>1 DEF Readings
  <2>2. ReadingOK(next, "lookup") /\ "lookup" \in ReadStages
    BY <1>1, <1>4, <2>1 DEF ReadingOK, ReadStages, WorkerAccess
  <2> HIDE DEF next
  <2> QED BY <1>4, <2>1, <2>2, WorkerMoves DEF next
<1> QED BY <1>2, <1>3, <1>4 DEF Lookup

\* The three accesses between the two of the sequence.
LEMMA AccessKeeps ==
  ASSUME PriceInv, NEW r \in Workers, ReadLo(r) \/ ReadHi(r) \/ ReadStamp(r)
  PROVE  PriceInv'
<1> DEFINE h == reading[r]
<1>1. h \in Readings /\ ReadingOK(h, readAt[r])
  BY InHand
<1>2. h.slot \in Slots
  BY <1>1 DEF ReadLo, ReadHi, ReadStamp, ReadingOK
<1>3. /\ priceLo[h.slot] \in Stored /\ priceHi[h.slot] \in Stored
      /\ stamps[h.slot] \in Nat
  BY <1>2 DEF PriceInv, PriceTypes, MatrixTypes
<1>4. CASE ReadLo(r)
  <2> DEFINE lo == priceLo[h.slot]
             next == [h EXCEPT !.lo = lo]
  <2>1. /\ next \in Readings /\ next.key = h.key /\ next.slot = h.slot
        /\ next.seq = h.seq /\ next.lo = lo
    BY <1>1, <1>3 DEF Readings
  <2>2. ReadingOK(next, "hi") /\ "hi" \in ReadStages
    BY <1>1, <1>4, <2>1 DEF ReadLo, ReadingOK, ReadStages
  <2>3. WorkerAccess(r, "lo", "hi", next)
    BY <1>4 DEF ReadLo
  <2> HIDE DEF next
  <2> QED BY <2>1, <2>2, <2>3, WorkerMoves
<1>5. CASE ReadHi(r)
  <2> DEFINE hi == priceHi[h.slot]
             next == [h EXCEPT !.hi = hi]
  <2>1. /\ next \in Readings /\ next.key = h.key /\ next.slot = h.slot
        /\ next.seq = h.seq /\ next.lo = h.lo /\ next.hi = hi
    BY <1>1, <1>3 DEF Readings
  <2>2. ReadingOK(next, "stamp") /\ "stamp" \in ReadStages
    BY <1>1, <1>5, <2>1 DEF ReadHi, ReadingOK, ReadStages
  <2>3. WorkerAccess(r, "hi", "stamp", next)
    BY <1>5 DEF ReadHi
  <2> HIDE DEF next
  <2> QED BY <2>1, <2>2, <2>3, WorkerMoves
<1>6. CASE ReadStamp(r)
  <2> DEFINE stamp == stamps[h.slot]
             next == [h EXCEPT !.stamp = stamp]
  <2>1. /\ next \in Readings /\ next.key = h.key /\ next.slot = h.slot
        /\ next.seq = h.seq /\ next.lo = h.lo /\ next.hi = h.hi /\ next.stamp = stamp
    BY <1>1, <1>3 DEF Readings
  <2>2. ReadingOK(next, "again") /\ "again" \in ReadStages
    BY <1>1, <1>6, <2>1 DEF ReadStamp, ReadingOK, ReadStages
  <2>3. WorkerAccess(r, "stamp", "again", next)
    BY <1>6 DEF ReadStamp
  <2> HIDE DEF next
  <2> QED BY <2>1, <2>2, <2>3, WorkerMoves
<1> QED BY <1>4, <1>5, <1>6

\* With the sequence it began with, a worker has the price that is there, and the
\* slot is not being written.
LEMMA CompareKeeps ==
  ASSUME PriceInv, NEW r \in Workers, CompareSequence(r)
  PROVE  PriceInv'
<1> DEFINE h == reading[r]
<1>1. h \in Readings /\ readAt[r] = "again" /\ ReadingOK(h, "again")
  BY InHand DEF CompareSequence
<1>2. CASE Retry(r, "again")
  BY <1>1, <1>2, RetryKeeps
<1>3. CASE WorkerAccess(r, "again", "idle", NoRead)
  BY <1>3, NothingHeld, WorkerMoves
<1>4. CASE /\ sequences[h.slot] = h.seq /\ h.stamp # 0
           /\ WorkerAccess(r, "again", "hit", h)
  <2>1. /\ h.slot \in Slots /\ h.key \in Keys /\ mapper[h.key] = h.slot /\ h.seq % 2 = 0
        /\ h.lo = priceLo[h.slot] /\ h.hi = priceHi[h.slot] /\ h.stamp = stamps[h.slot]
    BY <1>1, <1>4 DEF ReadingOK
  <2>2. Whole(h.slot)
    <3>1. CASE Writing /\ h.slot = Target
      <4>1. sequences[h.slot] % 2 = 1
        BY <3>1 DEF PriceInv, SlotsOK
      <4> QED BY <1>4, <2>1, <4>1
    <3> QED BY <2>1, <3>1 DEF PriceInv, SlotsOK
  <2>3. h.lo = h.hi /\ h.lo.stamp = h.stamp
    BY <2>1, <2>2 DEF Whole
  <2>4. h.lo \in Prices
    BY <1>1, <1>4, <2>3, StoredStamp DEF Readings
  <2>5. mapper[h.lo.key] = h.slot /\ h.lo.key \in Keys
    BY <2>1, <2>4 DEF PriceInv, SlotsOK, Prices
  <2>6. h.lo.key = h.key
    <3>1. h.lo.key \in Mapped /\ h.key \in Mapped
      BY <2>1, <2>5 DEF Mapped, Empty, Slots
    <3> QED BY <2>1, <2>5, <3>1 DEF PriceInv, MapperOK
  <2>7. ReadingOK(h, "hit") /\ "hit" \in ReadStages
    BY <2>3, <2>6 DEF ReadingOK, ReadStages
  <2> QED BY <1>1, <1>4, <2>7, WorkerMoves
<1> QED BY <1>2, <1>3, <1>4 DEF CompareSequence

\* Every step of a worker.
LEMMA WorkersKeep ==
  ASSUME PriceInv, NEW r \in Workers, StartRead(r) \/ ReadStep(r)
  PROVE  PriceInv'
<1> DEFINE h == reading[r]
<1>1. CASE StartRead(r)
  BY <1>1, NothingHeld, WorkerMoves DEF StartRead
<1>2. CASE EndRead(r)
  BY <1>2, NothingHeld, WorkerMoves DEF EndRead
<1>3. CASE ReadSequence(r)
  <2>1. CASE Retry(r, "seq")
    BY <1>3, <2>1, RetryKeeps DEF ReadSequence
  <2>2. CASE /\ sequences[h.slot] % 2 = 0
             /\ WorkerAccess(r, "seq", "lo", [h EXCEPT !.seq = sequences[h.slot]])
    <3>1. h \in Readings /\ readAt[r] = "seq" /\ ReadingOK(h, "seq")
      BY <1>3, InHand DEF ReadSequence
    <3>2. h.slot \in Slots /\ sequences[h.slot] \in Nat
      BY <3>1 DEF ReadingOK, PriceInv, PriceTypes, MatrixTypes
    <3> DEFINE n == sequences[h.slot]
               next == [h EXCEPT !.seq = n]
    <3>3. next \in Readings /\ next.key = h.key /\ next.slot = h.slot /\ next.seq = n
      BY <3>1, <3>2 DEF Readings
    <3>4. ReadingOK(next, "lo") /\ "lo" \in ReadStages
      BY <2>2, <3>1, <3>2, <3>3 DEF ReadingOK, ReadStages
    <3>5. WorkerAccess(r, "seq", "lo", next)
      BY <2>2
    <3> HIDE DEF next
    <3> QED BY <3>3, <3>4, <3>5, WorkerMoves
  <2> QED BY <1>3, <2>1, <2>2 DEF ReadSequence
<1> QED BY <1>1, <1>2, <1>3, LookupKeeps, AccessKeeps, CompareKeeps DEF ReadStep

-----------------------------------------------------------------------------
(* The main thread. *)

\* How a step of the main thread may change a slot that workers are reading.
Advances(i) ==
  \/ sequences'[i] = sequences[i] + 1
  \/ /\ sequences'[i] = sequences[i]
     /\ \/ sequences[i] % 2 = 1
        \/ /\ priceLo'[i] = priceLo[i] /\ priceHi'[i] = priceHi[i]
           /\ stamps'[i] = stamps[i]

\* No worker takes notice but by the sequence.
LEMMA ReadersUndisturbed ==
  ASSUME PriceInv, UNCHANGED readerVars, sequences' \in [Slots -> Nat],
         \A k \in Keys : mapper[k] # 0 => mapper'[k] = mapper[k],
         \A i \in Slots : Advances(i)
  PROVE  ReadersOK' /\ ReaderTypes'
<1>1. ReaderTypes'
  BY DEF readerVars, PriceInv, PriceTypes, ReaderTypes
<1>2. ASSUME NEW r \in Workers PROVE ReadingOK(reading[r], readAt[r])'
  <2> DEFINE h == reading[r]
             at == readAt[r]
  <2>1. h \in Readings /\ ReadingOK(h, at) /\ reading'[r] = h /\ readAt'[r] = at
    BY InHand DEF readerVars
  <2>2. CASE at \in {"seq", "lo", "hi", "stamp", "again"}
    <3> DEFINE i == h.slot
    <3>1. h.key \in Keys /\ i \in Slots /\ mapper[h.key] = i /\ mapper'[h.key] = i
      BY <2>1, <2>2 DEF ReadingOK, Slots
    <3>2. sequences[i] \in Nat /\ h.seq \in Nat /\ sequences'[i] \in Nat
      BY <2>1, <3>1 DEF PriceInv, PriceTypes, MatrixTypes, Readings
    <3>3. at # "seq" => /\ h.seq % 2 = 0 /\ h.seq <= sequences'[i]
                        /\ sequences'[i] = h.seq =>
                              /\ sequences[i] = h.seq /\ priceLo'[i] = priceLo[i]
                              /\ priceHi'[i] = priceHi[i] /\ stamps'[i] = stamps[i]
      BY <2>1, <2>2, <3>1, <3>2 DEF Advances, ReadingOK
    <3> QED BY <2>1, <2>2, <3>1, <3>3 DEF ReadingOK
  <2>3. CASE at \notin {"seq", "lo", "hi", "stamp", "again"}
    BY <2>1, <2>3 DEF ReadingOK
  <2> QED BY <2>2, <2>3
<1> QED BY <1>1, <1>2 DEF ReadersOK, readerVars

\* What a call has still to write.
LEMMA TodoTyped ==
  ASSUME PriceInv
  PROVE  /\ \A i \in 1..Len(todo) : todo[i] \in WriteCalls
         /\ todo # <<>> =>
              /\ Head(todo) \in WriteCalls /\ Head(todo) = todo[1] /\ 1 \in 1..Len(todo)
              /\ Target \in Slots
              /\ Tail(todo) \in Seq(WriteCalls) /\ Len(Tail(todo)) = Len(todo) - 1
              /\ Len(todo) \in Nat
              /\ \A i \in 1..Len(Tail(todo)) :
                    i + 1 \in 1..Len(todo) /\ Tail(todo)[i] = todo[i + 1]
<1>1. todo \in Seq(WriteCalls)
  BY DEF PriceInv, PriceTypes, WriterTypes
<1> DEFINE Calls == WriteCalls
<1> HIDE DEF Calls
<1>2. todo # <<>> =>
         /\ Head(todo) \in WriteCalls /\ Head(todo) = todo[1] /\ 1 \in 1..Len(todo)
         /\ Tail(todo) \in Seq(WriteCalls) /\ Len(Tail(todo)) = Len(todo) - 1
         /\ Len(todo) \in Nat
         /\ \A i \in 1..Len(Tail(todo)) :
               i + 1 \in 1..Len(todo) /\ Tail(todo)[i] = todo[i + 1]
  BY <1>1
<1>3. todo # <<>> => Target \in Slots
  BY <1>2 DEF Target, WriteCalls
<1> QED BY <1>1, <1>2, <1>3

\* The sequence changes between even and odd.
LEMMA Parity ==
  ASSUME NEW n \in Nat
  PROVE  /\ n % 2 = 0 => (n + 1) % 2 = 1
         /\ n % 2 = 1 => (n + 1) % 2 = 0
         /\ n % 2 = 1 => n > 0
OBVIOUS

\* A sequence without elements.
LEMMA EmptyIff ==
  ASSUME NEW S, NEW s \in Seq(S)
  PROVE  s = <<>> <=> Len(s) = 0
OBVIOUS

\* A write is done, or dropped: on to the next one, or to the registrations.
LEMMA NextWriteKeeps ==
  ASSUME PriceInv, NextWrite, todo # <<>>, UNCHANGED <<mapper, newKeys>>
  PROVE  /\ WriterTypes' /\ WriterOK' /\ ~Writing'
         /\ writerAt' \notin {"bucket", "count"}
         /\ \A j \in 1..Len(todo) :
               j = 1 \/ \E i \in 1..Len(todo') : todo'[i] = todo[j]
<1>1. /\ Tail(todo) \in Seq(WriteCalls) /\ Len(Tail(todo)) = Len(todo) - 1
      /\ Len(todo) \in Nat /\ todo' = Tail(todo)
      /\ \A i \in 1..Len(Tail(todo)) :
            i + 1 \in 1..Len(todo) /\ Tail(todo)[i] = todo[i + 1]
  <2>1. todo' = Tail(todo)
    BY DEF NextWrite
  <2> QED BY Zenon, <2>1, TodoTyped
<1>2. /\ Len(todo) > 1 => writerAt' = "check" /\ todo' # <<>>
      /\ ~(Len(todo) > 1) => /\ writerAt' = IF newKeys # <<>> THEN "slot" ELSE "idle"
                             /\ todo' = <<>>
  <2>1. todo' = <<>> <=> Len(todo') = 0
    BY <1>1, EmptyIff
  <2>2. Len(todo') = Len(todo) - 1 /\ Len(todo) # 0
    BY <1>1, EmptyIff DEF PriceInv, PriceTypes, WriterTypes
  <2>3. writerAt' = IF Len(todo) > 1 THEN "check"
                    ELSE IF newKeys # <<>> THEN "slot" ELSE "idle"
    BY DEF NextWrite, AfterWrites
  <2> QED BY <1>1, <2>1, <2>2, <2>3
<1>3. WriterTypes'
  BY <1>1, <1>2 DEF PriceInv, PriceTypes, WriterTypes, WriterStages
<1>4. \A i \in 1..Len(todo') :
         todo'[i].price \in Prices => mapper'[todo'[i].price.key] = todo'[i].slot
  BY <1>1 DEF PriceInv, WriterOK
<1>5. WriterOK'
  BY <1>2, <1>4 DEF WriterOK
<1>6. \A j \in 1..Len(todo) : j = 1 \/ \E i \in 1..Len(todo') : todo'[i] = todo[j]
  <2> SUFFICES ASSUME NEW j \in 1..Len(todo), j # 1
               PROVE  \E i \in 1..Len(todo') : todo'[i] = todo[j]
    OBVIOUS
  <2>1. j - 1 \in 1..Len(todo') /\ todo'[j - 1] = todo[j]
    BY <1>1
  <2> QED BY <2>1
<1> QED BY <1>2, <1>3, <1>5, <1>6 DEF Writing

\* What is registered, or will be, stays written when no sequence goes back.
LEMMA RegistryStays ==
  ASSUME PriceInv, UNCHANGED <<mapper, newKeys, registryVars>>,
         writerAt \notin {"bucket", "count"}, writerAt' \notin {"bucket", "count"},
         sequences' \in [Slots -> Nat],
         \A i \in Slots : sequences'[i] >= sequences[i],
         \A k \in Keys : mapper[k] # 0 /\ Written(k) => Written(k)'
  PROVE  RegistryTypes' /\ RegistryOK'
<1>1. RegistryTypes' /\ entries' = entries /\ entryCount' = entryCount /\ buckets' = buckets
  BY DEF registryVars, PriceInv, PriceTypes, RegistryTypes
<1>2. \A n \in 1..Len(entries) : sequences'[entries[n].index] > 0
  <2> SUFFICES ASSUME NEW n \in 1..Len(entries) PROVE sequences'[entries[n].index] > 0
    OBVIOUS
  <2>1. entries[n].index \in Slots /\ sequences[entries[n].index] > 0
    BY EntryTyped DEF PriceInv, RegistryOK
  <2>2. \A i \in Slots : sequences[i] \in Nat /\ sequences'[i] \in Nat
    BY DEF PriceInv, PriceTypes, MatrixTypes
  <2> DEFINE i == entries[n].index
  <2> HIDE DEF i
  <2> QED BY <2>1, <2>2 DEF i
<1>3. \A i \in 1..Len(newKeys) : mapper[newKeys[i]] # 0 /\ Written(newKeys[i])'
  <2> SUFFICES ASSUME NEW i \in 1..Len(newKeys)
               PROVE  mapper[newKeys[i]] # 0 /\ Written(newKeys[i])'
    OBVIOUS
  <2>1. newKeys[i] \in Keys
    BY DEF PriceInv, PriceTypes, WriterTypes
  <2>2. mapper[newKeys[i]] # 0 /\ Written(newKeys[i])
    BY DEF PriceInv, RegistryOK
  <2> DEFINE k == newKeys[i]
  <2> HIDE DEF k
  <2>3. mapper[k] # 0 /\ Written(k)'
    BY <2>1, <2>2 DEF k
  <2>4. k' = k
    BY DEF k
  <2> QED BY <2>3, <2>4 DEF k, Written
<1> QED BY <1>1, <1>2, <1>3 DEF PriceInv, RegistryOK

\* An access of the write that is under way.
LEMMA WritesKeep ==
  ASSUME PriceInv, BeginWrite \/ WriteLo \/ WriteHi \/ WriteStamp
  PROVE  PriceInv'
<1>1. /\ UNCHANGED <<mapper, todo, newKeys, registryVars, readerVars>>
      /\ writerAt \in {"odd", "lo", "hi", "stamp"}
      /\ writerAt' \in {"lo", "hi", "stamp", "even"}
  BY DEF BeginWrite, WriteLo, WriteHi, WriteStamp, WriterAccess
<1>2. todo # <<>> /\ Target \in Slots /\ Head(todo) \in WriteCalls
  BY <1>1, TodoTyped DEF PriceInv, WriterOK
<1>3. Head(todo).price \in Stored /\ Head(todo).price.stamp \in Nat
  BY <1>2, StoredStamp DEF WriteCalls
<1>4. \A i \in Slots : /\ sequences[i] \in Nat /\ stamps[i] \in Nat
                       /\ priceLo[i] \in Stored /\ priceHi[i] \in Stored
  BY DEF PriceInv, PriceTypes, MatrixTypes
<1>5. /\ \A i \in Slots : (Writing /\ i = Target) \/ Whole(i)
      /\ Writing => sequences[Target] % 2 = 1
      /\ \A i \in Slots : stamps[i] > 0 => sequences[i] > 0
      /\ \A i \in Slots : priceLo[i] \in Prices => mapper[priceLo[i].key] = i
  BY DEF PriceInv, SlotsOK
<1>6. Head(todo).price \in Prices => mapper[Head(todo).price.key] = Target
  BY <1>2, TodoTyped DEF PriceInv, WriterOK, Target
<1>7. Target' = Target /\ Head(todo)' = Head(todo) /\ Writing'
  BY <1>1 DEF Target, Writing
<1>8. /\ MatrixTypes' /\ SlotsOK'
      /\ \A i \in Slots : Advances(i) /\ sequences'[i] >= sequences[i]
  <2>1. CASE BeginWrite
    <3>1. writerAt = "odd" /\ ~Writing /\ writerAt' = "lo"
      BY <2>1 DEF BeginWrite, WriterAccess, Writing
    <3>2. /\ sequences' \in [Slots -> Nat]
          /\ \A i \in Slots : sequences'[i] = IF i = Target THEN sequences[i] + 1
                                                            ELSE sequences[i]
          /\ UNCHANGED <<priceLo, priceHi, stamps>>
      BY <1>2, <2>1 DEF BeginWrite, Target, PriceInv, PriceTypes, MatrixTypes
    <3>3. sequences'[Target] % 2 = 1
      BY <1>2, <1>4, <1>5, <3>1, <3>2, Parity DEF Whole
    <3>4. \A i \in Slots : i = Target \/ Whole(i)'
      BY <1>5, <3>1, <3>2 DEF Whole
    <3>5. \A i \in Slots : stamps'[i] > 0 => sequences'[i] > 0
      BY <1>4, <1>5, <3>2
    <3>6. SlotsOK'
      BY <1>1, <1>5, <1>7, <3>1, <3>2, <3>3, <3>4, <3>5 DEF SlotsOK
    <3>7. MatrixTypes'
      BY <1>1, <3>2 DEF PriceInv, PriceTypes, MatrixTypes
    <3>8. \A i \in Slots : Advances(i) /\ sequences'[i] >= sequences[i]
      BY <1>4, <3>2 DEF Advances
    <3> QED BY <3>6, <3>7, <3>8
  <2>2. ASSUME Writing, sequences' = sequences,
               \A i \in Slots : i # Target => /\ priceLo'[i] = priceLo[i]
                                              /\ priceHi'[i] = priceHi[i]
                                              /\ stamps'[i] = stamps[i]
        PROVE  /\ \A i \in Slots : Advances(i) /\ sequences'[i] >= sequences[i]
               /\ \A i \in Slots : i = Target \/ Whole(i)'
               /\ sequences'[Target] % 2 = 1 /\ sequences[Target] > 0
    <3>1. sequences[Target] % 2 = 1
      BY <1>5, <2>2
    <3>2. \A i \in Slots : i = Target \/ Whole(i)'
      BY <1>5, <2>2 DEF Whole
    <3>3. \A i \in Slots : Advances(i) /\ sequences'[i] >= sequences[i]
      BY <1>4, <2>2, <3>1 DEF Advances
    <3> QED BY <1>2, <1>4, <2>2, <3>1, <3>2, <3>3, Parity
  <2>3. CASE WriteLo
    <3>1. Writing /\ writerAt' = "hi" /\ UNCHANGED <<priceHi, stamps, sequences>>
      BY <2>3 DEF WriteLo, WriterAccess, Writing
    <3>2. /\ priceLo' \in [Slots -> Stored]
          /\ \A i \in Slots : priceLo'[i] = IF i = Target THEN Head(todo).price
                                                          ELSE priceLo[i]
      BY <1>2, <1>3, <2>3 DEF WriteLo, Target, PriceInv, PriceTypes, MatrixTypes
    <3>3. \A i \in Slots : priceLo'[i] \in Prices => mapper'[priceLo'[i].key] = i
      BY <1>1, <1>5, <1>6, <3>2
    <3>4. SlotsOK'
      BY <1>2, <1>5, <1>7, <2>2, <3>1, <3>2, <3>3 DEF SlotsOK
    <3> QED BY <1>1, <2>2, <3>1, <3>2, <3>4 DEF PriceInv, PriceTypes, MatrixTypes
  <2>4. CASE WriteHi
    <3>1. /\ Writing /\ writerAt = "hi" /\ writerAt' = "stamp"
          /\ UNCHANGED <<priceLo, stamps, sequences>>
      BY <2>4 DEF WriteHi, WriterAccess, Writing
    <3>2. /\ priceHi' \in [Slots -> Stored]
          /\ \A i \in Slots : priceHi'[i] = IF i = Target THEN Head(todo).price
                                                          ELSE priceHi[i]
      BY <1>2, <1>3, <2>4 DEF WriteHi, Target, PriceInv, PriceTypes, MatrixTypes
    <3>3. priceLo[Target] = Head(todo).price
      BY <3>1 DEF PriceInv, SlotsOK
    <3>4. SlotsOK'
      BY <1>1, <1>2, <1>5, <1>7, <2>2, <3>1, <3>2, <3>3 DEF SlotsOK
    <3> QED BY <1>1, <2>2, <3>1, <3>2, <3>4 DEF PriceInv, PriceTypes, MatrixTypes
  <2>5. CASE WriteStamp
    <3>1. /\ Writing /\ writerAt = "stamp" /\ writerAt' = "even"
          /\ UNCHANGED <<priceLo, priceHi, sequences>>
      BY <2>5 DEF WriteStamp, WriterAccess, Writing
    <3>2. /\ stamps' \in [Slots -> Nat]
          /\ \A i \in Slots : stamps'[i] = IF i = Target THEN Head(todo).price.stamp
                                                         ELSE stamps[i]
      BY <1>2, <1>3, <2>5 DEF WriteStamp, Target, PriceInv, PriceTypes, MatrixTypes
    <3>3. priceLo[Target] = Head(todo).price /\ priceHi[Target] = Head(todo).price
      BY <3>1 DEF PriceInv, SlotsOK
    <3>4. \A i \in Slots : stamps'[i] > 0 => sequences'[i] > 0
      BY <1>5, <2>2, <3>1, <3>2
    <3>5. SlotsOK'
      BY <1>1, <1>2, <1>5, <1>7, <2>2, <3>1, <3>2, <3>3, <3>4 DEF SlotsOK
    <3> QED BY <1>1, <2>2, <3>1, <3>2, <3>5 DEF PriceInv, PriceTypes, MatrixTypes
  <2> QED BY <2>1, <2>3, <2>4, <2>5
<1>9. WriterTypes' /\ WriterOK' /\ MapperOK'
  BY <1>1, <1>2 DEF PriceInv, PriceTypes, WriterTypes, WriterOK, WriterStages, MapperOK, Mapped
<1>10. RegistryTypes' /\ RegistryOK'
  <2>1. sequences' \in [Slots -> Nat]
    BY <1>8 DEF MatrixTypes
  <2>2. \A k \in Keys : mapper[k] # 0 => mapper[k] \in Slots
    BY DEF PriceInv, PriceTypes, MatrixTypes, Slots
  <2>3. \A k \in Keys : mapper[k] # 0 /\ Written(k) => Written(k)'
    BY <1>1, <1>4, <1>8, <2>1, <2>2 DEF Written
  <2> QED BY <1>1, <1>8, <2>1, <2>3, RegistryStays
<1>11. ReadersOK' /\ ReaderTypes'
  BY <1>1, <1>8, ReadersUndisturbed DEF MatrixTypes
<1> QED BY <1>8, <1>9, <1>10, <1>11 DEF PriceInv, PriceTypes

\* Steps that write nothing into the slots.
LEMMA SlotsUntouched ==
  ASSUME PriceInv, UNCHANGED <<matrixVars, readerVars>>, ~Writing, ~Writing'
  PROVE  MatrixTypes' /\ MapperOK' /\ SlotsOK' /\ ReaderTypes' /\ ReadersOK'
<1>1. UNCHANGED <<mapper, priceLo, priceHi, stamps, sequences>>
  BY DEF matrixVars
<1>2. MatrixTypes' /\ MapperOK'
  BY <1>1 DEF PriceInv, PriceTypes, MatrixTypes, MapperOK, Mapped
<1>3. SlotsOK'
  BY <1>1 DEF PriceInv, SlotsOK, Writing, Whole
<1>4. \A i \in Slots : Advances(i)
  BY <1>1 DEF Advances
<1> QED BY <1>1, <1>2, <1>3, <1>4, ReadersUndisturbed DEF MatrixTypes

\* A price that is dropped is older than the one that is there.
LEMMA CheckKeeps ==
  ASSUME PriceInv, CheckStamp
  PROVE  PriceInv'
<1>1. /\ writerAt = "check" /\ UNCHANGED <<matrixVars, newKeys, registryVars, readerVars>>
      /\ UNCHANGED <<mapper, sequences>>
  BY DEF CheckStamp, matrixVars
<1>2. todo # <<>> /\ Target \in Slots /\ Head(todo) = todo[1] /\ 1 \in 1..Len(todo)
      /\ Head(todo) \in WriteCalls
  BY <1>1, TodoTyped DEF PriceInv, WriterOK
<1>3. \A i \in Slots : sequences[i] \in Nat
  BY DEF PriceInv, PriceTypes, MatrixTypes
<1>4. /\ WriterTypes' /\ WriterOK' /\ ~Writing /\ ~Writing'
      /\ writerAt \notin {"bucket", "count"} /\ writerAt' \notin {"bucket", "count"}
      /\ \A k \in Keys : mapper[k] # 0 /\ Written(k) => Written(k)'
  <2>1. CASE stamps[Head(todo).slot] > Head(todo).price.stamp /\ NextWrite
    <3>1. /\ WriterTypes' /\ WriterOK' /\ ~Writing'
          /\ writerAt' \notin {"bucket", "count"}
          /\ \A j \in 1..Len(todo) : j = 1 \/ \E i \in 1..Len(todo') : todo'[i] = todo[j]
      BY <1>1, <1>2, <2>1, NextWriteKeeps
    <3>2. Head(todo).price.stamp \in Nat /\ stamps[Target] \in Nat
      BY <1>2, StoredStamp DEF WriteCalls, PriceInv, PriceTypes, MatrixTypes
    <3>3. sequences[Target] > 0
      BY <1>2, <2>1, <3>2 DEF Target, PriceInv, SlotsOK
    <3>4. \A k \in Keys : mapper[k] # 0 /\ Written(k) => Written(k)'
      BY <1>1, <1>2, <3>1, <3>3 DEF Written, Target
    <3> QED BY <1>1, <3>1, <3>4 DEF Writing
  <2>2. CASE writerAt' = "odd" /\ UNCHANGED todo
    BY <1>1, <1>2, <2>2 DEF PriceInv, PriceTypes, WriterTypes, WriterOK, WriterStages, Writing,
                            Written
  <2> QED BY <2>1, <2>2 DEF CheckStamp
<1>5. MatrixTypes' /\ MapperOK' /\ SlotsOK' /\ ReaderTypes' /\ ReadersOK'
  BY <1>1, <1>4, SlotsUntouched
<1>6. RegistryTypes' /\ RegistryOK'
  BY <1>1, <1>3, <1>4, <1>5, RegistryStays DEF MatrixTypes
<1> QED BY <1>4, <1>5, <1>6 DEF PriceInv, PriceTypes

\* The end of a write leaves its slot whole.
LEMMA EndWriteKeeps ==
  ASSUME PriceInv, EndWrite
  PROVE  PriceInv'
<1>1. /\ writerAt = "even" /\ Writing /\ NextWrite
      /\ UNCHANGED <<mapper, priceLo, priceHi, stamps, newKeys, registryVars, readerVars>>
  BY DEF EndWrite, Writing
<1>2. todo # <<>> /\ Target \in Slots /\ Head(todo) = todo[1] /\ 1 \in 1..Len(todo)
  BY <1>1, TodoTyped DEF PriceInv, WriterOK
<1>3. \A i \in Slots : sequences[i] \in Nat
  BY DEF PriceInv, PriceTypes, MatrixTypes
<1>4. /\ WriterTypes' /\ WriterOK' /\ ~Writing'
      /\ writerAt' \notin {"bucket", "count"}
      /\ \A j \in 1..Len(todo) : j = 1 \/ \E i \in 1..Len(todo') : todo'[i] = todo[j]
  BY <1>1, <1>2, NextWriteKeeps
<1>5. /\ sequences' \in [Slots -> Nat]
      /\ \A i \in Slots : sequences'[i] = IF i = Target THEN sequences[i] + 1 ELSE sequences[i]
  BY <1>2 DEF EndWrite, Target, PriceInv, PriceTypes, MatrixTypes
<1>6. MatrixTypes' /\ MapperOK'
  BY <1>1, <1>5 DEF PriceInv, PriceTypes, MatrixTypes, MapperOK, Mapped
<1>7. SlotsOK'
  <2>1. /\ sequences[Target] % 2 = 1 /\ priceLo[Target] = Head(todo).price
        /\ priceHi[Target] = Head(todo).price /\ stamps[Target] = Head(todo).price.stamp
    BY <1>1 DEF PriceInv, SlotsOK
  <2>2. sequences'[Target] % 2 = 0
    BY <1>2, <1>3, <1>5, <2>1, Parity
  <2>3. \A i \in Slots : Whole(i)'
    BY <1>1, <1>5, <2>1, <2>2 DEF PriceInv, SlotsOK, Whole
  <2>4. \A i \in Slots : stamps'[i] > 0 => sequences'[i] > 0
    BY <1>1, <1>3, <1>5 DEF PriceInv, SlotsOK
  <2>5. \A i \in Slots : priceLo'[i] \in Prices => mapper'[priceLo'[i].key] = i
    BY <1>1 DEF PriceInv, SlotsOK
  <2> QED BY <1>4, <2>3, <2>4, <2>5 DEF SlotsOK, Writing
<1>8. \A i \in Slots : Advances(i) /\ sequences'[i] >= sequences[i]
  BY <1>1, <1>3, <1>5 DEF Advances
<1>9. ReadersOK' /\ ReaderTypes'
  BY <1>1, <1>5, <1>8, ReadersUndisturbed
<1>10. RegistryTypes' /\ RegistryOK'
  <2>1. \A k \in Keys : mapper[k] # 0 => mapper[k] \in Slots
    BY DEF PriceInv, PriceTypes, MatrixTypes, Slots
  <2>2. \A k \in Keys : mapper[k] # 0 /\ Written(k) => Written(k)'
    <3> SUFFICES ASSUME NEW k \in Keys, mapper[k] # 0, Written(k) PROVE Written(k)'
      OBVIOUS
    <3>1. CASE mapper[k] = Target
      BY <1>1, <1>2, <1>3, <1>5, <3>1 DEF Written
    <3>2. CASE mapper[k] # Target /\ sequences[mapper[k]] > 0
      BY <1>1, <1>5, <2>1, <3>2 DEF Written
    <3>3. CASE mapper[k] # Target /\ ~(sequences[mapper[k]] > 0)
      <4>1. PICK j \in 1..Len(todo) : todo[j].slot = mapper[k] /\ todo[j].price \in Prices
        BY <3>3 DEF Written
      <4>2. j # 1
        BY <1>2, <3>3, <4>1 DEF Target
      <4> QED BY <1>1, <1>4, <4>1, <4>2 DEF Written
    <3> QED BY <3>1, <3>2, <3>3
  <2> QED BY <1>1, <1>4, <1>5, <1>8, <2>2, RegistryStays
<1> QED BY <1>4, <1>6, <1>7, <1>9, <1>10 DEF PriceInv, PriceTypes

\* A deletion is a write of the empty price.
LEMMA DeleteKeeps ==
  ASSUME PriceInv, NEW k \in Keys, DeletePrice(k)
  PROVE  PriceInv'
<1>1. /\ writerAt = "idle" /\ mapper[k] # 0 /\ writerAt' = "odd"
      /\ todo' = <<Write(mapper[k], Zero)>>
      /\ UNCHANGED <<matrixVars, newKeys, registryVars, readerVars>>
      /\ UNCHANGED <<mapper, sequences>>
  BY DEF DeletePrice, Empty, matrixVars
<1>2. newKeys = <<>>
  BY <1>1 DEF PriceInv, WriterOK
<1> DEFINE call == Write(mapper[k], Zero)
<1>3. /\ call.slot \in Slots /\ call.price = Zero /\ Zero \notin Prices
      /\ call \in WriteCalls
  BY <1>1, MatrixAssumption DEF Write, WriteCalls, Stored, Zero, Prices, PriceInv, PriceTypes,
                                MatrixTypes, Slots
<1>4. /\ todo' \in Seq(WriteCalls) /\ Len(todo') = 1 /\ todo' # <<>>
      /\ \A i \in 1..Len(todo') : todo'[i] = call
  <2> HIDE DEF call
  <2>1. todo' = <<call>>
    BY <1>1 DEF call
  <2> QED BY <1>3, <2>1
<1> HIDE DEF call
<1>5. WriterTypes' /\ WriterOK'
  BY <1>1, <1>3, <1>4 DEF PriceInv, PriceTypes, WriterTypes, WriterOK, WriterStages
<1>6. MatrixTypes' /\ MapperOK' /\ SlotsOK' /\ ReaderTypes' /\ ReadersOK'
  BY <1>1, SlotsUntouched DEF Writing
<1>7. RegistryTypes' /\ RegistryOK'
  <2>1. Len(newKeys) = 0 /\ entries' = entries /\ entryCount' = entryCount /\ buckets' = buckets
    BY <1>1, <1>2 DEF registryVars
  <2>2. /\ \A n \in 1..Len(entries') : mapper'[entries'[n].key] = entries'[n].index
                                       /\ sequences'[entries'[n].index] > 0
        /\ Len(entries') = entryCount'
        /\ \A b \in 0..(Buckets - 1) : buckets'[b] # 0 => buckets'[b] \in 1..Len(entries')
    BY <1>1, <2>1 DEF PriceInv, RegistryOK
  <2> QED BY <1>1, <2>1, <2>2 DEF RegistryOK, PriceInv, PriceTypes, RegistryTypes
<1> QED BY <1>5, <1>6, <1>7 DEF PriceInv, PriceTypes

\* The keys that a call has still to register.
LEMMA KeysTyped ==
  ASSUME PriceInv
  PROVE  /\ \A i \in 1..Len(newKeys) : newKeys[i] \in Keys
         /\ newKeys # <<>> =>
              /\ Head(newKeys) \in Keys /\ Head(newKeys) = newKeys[1]
              /\ 1 \in 1..Len(newKeys) /\ Len(newKeys) \in Nat
              /\ Tail(newKeys) \in Seq(Keys) /\ Len(Tail(newKeys)) = Len(newKeys) - 1
              /\ Tail(newKeys) = <<>> <=> ~(Len(newKeys) > 1)
              /\ \A i \in 1..Len(Tail(newKeys)) :
                    i + 1 \in 1..Len(newKeys) /\ Tail(newKeys)[i] = newKeys[i + 1]
<1>1. newKeys \in Seq(Keys)
  BY DEF PriceInv, PriceTypes, WriterTypes
<1>2. newKeys # <<>> =>
         /\ Head(newKeys) \in Keys /\ Head(newKeys) = newKeys[1]
         /\ 1 \in 1..Len(newKeys) /\ Len(newKeys) \in Nat
         /\ Tail(newKeys) \in Seq(Keys) /\ Len(Tail(newKeys)) = Len(newKeys) - 1
         /\ \A i \in 1..Len(Tail(newKeys)) :
               i + 1 \in 1..Len(newKeys) /\ Tail(newKeys)[i] = newKeys[i + 1]
  BY <1>1
<1>3. newKeys # <<>> => (Tail(newKeys) = <<>> <=> ~(Len(newKeys) > 1))
  BY <1>2, EmptyIff
<1> QED BY <1>1, <1>2, <1>3

\* The next key is due, or the call has come to its end.
LEMMA NextKeyKeeps ==
  ASSUME PriceInv, NextKey, newKeys # <<>>, todo = <<>>, UNCHANGED <<mapper, todo>>
  PROVE  /\ WriterTypes' /\ WriterOK' /\ ~Writing'
         /\ writerAt' \notin {"bucket", "count"}
         /\ \A i \in 1..Len(newKeys') : \E j \in 1..Len(newKeys) : newKeys'[i] = newKeys[j]
<1>1. /\ newKeys' = Tail(newKeys)
      /\ writerAt' = IF Len(newKeys) > 1 THEN "slot" ELSE "idle"
  BY DEF NextKey
<1>2. /\ Tail(newKeys) \in Seq(Keys) /\ Len(newKeys) \in Nat
      /\ Tail(newKeys) = <<>> <=> ~(Len(newKeys) > 1)
      /\ \A i \in 1..Len(Tail(newKeys)) :
            i + 1 \in 1..Len(newKeys) /\ Tail(newKeys)[i] = newKeys[i + 1]
  BY Zenon, KeysTyped
<1>3. WriterTypes'
  BY <1>1, <1>2 DEF PriceInv, PriceTypes, WriterTypes, WriterStages
<1>4. WriterOK'
  BY <1>1, <1>2 DEF PriceInv, WriterOK
<1>5. \A i \in 1..Len(newKeys') : \E j \in 1..Len(newKeys) : newKeys'[i] = newKeys[j]
  BY <1>1, <1>2
<1> QED BY <1>1, <1>3, <1>4, <1>5 DEF Writing

\* An entry is written with the slot of its key, which holds a price by then.
LEMMA EntryKeeps ==
  ASSUME PriceInv, WriteEntry
  PROVE  PriceInv'
<1>1. /\ writerAt = "slot" /\ writerAt' = "bucket"
      /\ UNCHANGED <<matrixVars, todo, newKeys, buckets, entryCount, readerVars>>
      /\ UNCHANGED <<mapper, sequences>>
  BY DEF WriteEntry, matrixVars
<1>2. todo = <<>> /\ newKeys # <<>> /\ ~Writing /\ ~Writing'
  BY <1>1 DEF PriceInv, WriterOK, Writing
<1> DEFINE k == Head(newKeys)
           entry == [key |-> k, index |-> mapper[k]]
           Entries == [key : Keys, index : Slots]
<1>3. k \in Keys /\ k = newKeys[1] /\ 1 \in 1..Len(newKeys)
  BY <1>2, KeysTyped
<1>4. mapper[k] \in Slots /\ sequences[mapper[k]] > 0
  <2>1. mapper[k] # 0 /\ Written(k)
    BY <1>3 DEF PriceInv, RegistryOK
  <2>2. Len(todo) = 0
    BY <1>2
  <2> QED BY <1>3, <2>1, <2>2 DEF Written, PriceInv, PriceTypes, MatrixTypes, Slots
<1>5. entries' = Append(entries, entry)
  BY DEF WriteEntry
<1>6. entry \in Entries /\ entry.key = k /\ entry.index = mapper[k]
  BY <1>3, <1>4
<1>7. entries \in Seq(Entries)
  BY DEF PriceInv, PriceTypes, RegistryTypes
<1> HIDE DEF entry, Entries
<1>8. /\ entries' \in Seq(Entries) /\ Len(entries') = Len(entries) + 1 /\ Len(entries) \in Nat
      /\ \A n \in 1..Len(entries) : entries'[n] = entries[n]
      /\ entries'[Len(entries) + 1] = entry
  BY <1>5, <1>6, <1>7
<1>9. RegistryTypes'
  BY <1>1, <1>8 DEF Entries, PriceInv, PriceTypes, RegistryTypes
<1>10. RegistryOK'
  <2>1. \A n \in 1..Len(entries') : mapper'[entries'[n].key] = entries'[n].index
                                    /\ sequences'[entries'[n].index] > 0
    <3> SUFFICES ASSUME NEW n \in 1..Len(entries')
                 PROVE  mapper[entries'[n].key] = entries'[n].index
                        /\ sequences[entries'[n].index] > 0
      BY <1>1
    <3>1. CASE n \in 1..Len(entries)
      BY <1>8, <3>1 DEF PriceInv, RegistryOK
    <3>2. CASE n = Len(entries) + 1
      BY <1>4, <1>6, <1>8, <3>2
    <3> QED BY <1>8, <3>1, <3>2
  <2>2. Len(entries') = entryCount' + 1
    BY <1>1, <1>8 DEF PriceInv, RegistryOK
  <2>3. \A b \in 0..(Buckets - 1) : buckets'[b] # 0 => buckets'[b] \in 1..Len(entries')
    BY <1>1, <1>8 DEF PriceInv, RegistryOK
  <2>4. \A i \in 1..Len(newKeys') : mapper'[newKeys'[i]] # 0 /\ Written(newKeys[i])'
    BY <1>1 DEF PriceInv, RegistryOK, Written
  <2> QED BY <1>1, <2>1, <2>2, <2>3, <2>4 DEF RegistryOK
<1>11. WriterTypes' /\ WriterOK'
  BY <1>1, <1>2 DEF PriceInv, PriceTypes, WriterTypes, WriterOK, WriterStages
<1> QED BY <1>1, <1>2, <1>9, <1>10, <1>11, SlotsUntouched DEF PriceInv, PriceTypes

\* The bucket leads to the entry that has just been written.
LEMMA PublishKeeps ==
  ASSUME PriceInv, PublishEntry
  PROVE  PriceInv'
<1>1. /\ writerAt = "bucket" /\ writerAt' = "count"
      /\ UNCHANGED <<matrixVars, todo, newKeys, entries, entryCount, readerVars>>
      /\ UNCHANGED <<mapper, sequences>>
  BY DEF PublishEntry, matrixVars
<1>2. todo = <<>> /\ newKeys # <<>> /\ ~Writing /\ ~Writing'
  BY <1>1 DEF PriceInv, WriterOK, Writing
<1>3. PICK probe \in 0..(Buckets - 1) :
         buckets' = [buckets EXCEPT ![BucketAt(Head(newKeys), probe)] = entryCount + 1]
  BY DEF PublishEntry
<1>4. Len(entries) = entryCount + 1 /\ entryCount \in Nat /\ buckets \in [0..(Buckets - 1) -> Nat]
  BY <1>1 DEF PriceInv, PriceTypes, RegistryTypes, RegistryOK
<1>5. /\ buckets' \in [0..(Buckets - 1) -> Nat]
      /\ \A b \in 0..(Buckets - 1) : buckets'[b] = buckets[b] \/ buckets'[b] = Len(entries)
  <2> DEFINE bucket == BucketAt(Head(newKeys), probe)
             n == entryCount + 1
  <2>1. buckets' = [buckets EXCEPT ![bucket] = n] /\ n \in Nat /\ n = Len(entries)
    BY <1>3, <1>4
  <2> HIDE DEF bucket, n
  <2> QED BY <1>4, <2>1
<1>6. RegistryTypes'
  BY <1>1, <1>5 DEF PriceInv, PriceTypes, RegistryTypes
<1>7. RegistryOK'
  <2>1. \A b \in 0..(Buckets - 1) : buckets'[b] # 0 => buckets'[b] \in 1..Len(entries')
    BY <1>1, <1>4, <1>5 DEF PriceInv, RegistryOK
  <2>2. \A i \in 1..Len(newKeys') : mapper'[newKeys'[i]] # 0 /\ Written(newKeys[i])'
    BY <1>1 DEF PriceInv, RegistryOK, Written
  <2> QED BY <1>1, <1>4, <2>1, <2>2 DEF PriceInv, RegistryOK
<1>8. WriterTypes' /\ WriterOK'
  BY <1>1, <1>2 DEF PriceInv, PriceTypes, WriterTypes, WriterOK, WriterStages
<1> QED BY <1>1, <1>2, <1>6, <1>7, <1>8, SlotsUntouched DEF PriceInv, PriceTypes

\* A key is done with, registered or refused.
LEMMA KeyDoneKeeps ==
  ASSUME PriceInv, CountEntry \/ RegistryFull
  PROVE  PriceInv'
<1>1. /\ writerAt \in {"slot", "count"} /\ NextKey
      /\ UNCHANGED <<matrixVars, todo, entries, buckets, readerVars>>
      /\ UNCHANGED <<mapper, sequences>>
      /\ writerAt = "count" => entryCount' = entryCount + 1
      /\ writerAt = "slot" => entryCount' = entryCount
  BY DEF CountEntry, RegistryFull, matrixVars, registryVars
<1>2. todo = <<>> /\ newKeys # <<>> /\ ~Writing
  BY <1>1 DEF PriceInv, WriterOK, Writing
<1>3. /\ WriterTypes' /\ WriterOK' /\ ~Writing' /\ writerAt' \notin {"bucket", "count"}
      /\ \A i \in 1..Len(newKeys') : \E j \in 1..Len(newKeys) : newKeys'[i] = newKeys[j]
  BY <1>1, <1>2, NextKeyKeeps
<1>4. entryCount \in Nat /\ Len(entries) = entryCount' /\ entryCount' \in Nat
  BY <1>1 DEF PriceInv, PriceTypes, RegistryTypes, RegistryOK
<1>5. RegistryTypes'
  BY <1>1, <1>4 DEF PriceInv, PriceTypes, RegistryTypes
<1>6. RegistryOK'
  <2>1. \A i \in 1..Len(newKeys') : mapper'[newKeys'[i]] # 0 /\ Written(newKeys[i])'
    <3> SUFFICES ASSUME NEW i \in 1..Len(newKeys')
                 PROVE  mapper'[newKeys'[i]] # 0 /\ Written(newKeys[i])'
      OBVIOUS
    <3>1. PICK j \in 1..Len(newKeys) : newKeys'[i] = newKeys[j]
      BY <1>3
    <3>2. mapper[newKeys[j]] # 0 /\ Written(newKeys[j])
      BY DEF PriceInv, RegistryOK
    <3> QED BY <1>1, <3>1, <3>2 DEF Written
  <2> QED BY <1>1, <1>3, <1>4, <2>1 DEF PriceInv, RegistryOK
<1> QED BY <1>1, <1>2, <1>3, <1>5, <1>6, SlotsUntouched DEF PriceInv, PriceTypes

-----------------------------------------------------------------------------
(* A call of setPrice or setBatch. *)

Batches == {<<p>> : p \in Prices} \cup {<<p, q>> : p \in Prices, q \in Prices}

\* A batch has one price or two.
LEMMA BatchTyped ==
  ASSUME NEW updates \in Batches
  PROVE  /\ updates \in Seq(Prices) /\ Len(updates) \in {1, 2}
         /\ DOMAIN updates = 1..Len(updates)
         /\ \A i \in 1..Len(updates) : updates[i] \in Prices /\ updates[i].key \in Keys
<1>1. updates \in Seq(Prices) /\ Len(updates) \in {1, 2}
  <2> DEFINE P == Prices
  <2>1. \/ \E p \in P : updates = <<p>>
        \/ \E p, q \in P : updates = <<p, q>>
    BY DEF Batches
  <2> HIDE DEF P
  <2>2. updates \in Seq(P) /\ Len(updates) \in {1, 2}
    <3>1. ASSUME NEW p \in P, updates = <<p>>
          PROVE  updates \in Seq(P) /\ Len(updates) \in {1, 2}
      BY <3>1
    <3>2. ASSUME NEW p \in P, NEW q \in P, updates = <<p, q>>
          PROVE  updates \in Seq(P) /\ Len(updates) \in {1, 2}
      BY <3>2
    <3> QED BY Zenon, <2>1, <3>1, <3>2
  <2> QED BY <2>2 DEF P
<1>2. \A i \in 1..Len(updates) : updates[i] \in Prices
  BY <1>1
<1>3. \A p \in Prices : p.key \in Keys
  BY DEF Prices
<1> QED BY <1>1, <1>2, <1>3

\* The new keys of a batch, each once.
LEMMA NewKeysTyped ==
  ASSUME NEW updates \in Batches, mapper \in [Keys -> 0..TotalSlots]
  PROVE  LET added == NewKeysIn(updates) IN
         /\ added \in Seq(Keys) /\ Len(added) \in {0, 1, 2}
         /\ added = <<>> <=> Len(added) = 0
         /\ Len(added) = 2 => added[1] # added[2]
         /\ \A i \in 1..Len(added) :
               mapper[added[i]] = 0 /\ \E j \in 1..Len(updates) : updates[j].key = added[i]
         /\ \A j \in 1..Len(updates) :
               mapper[updates[j].key] # 0 \/ \E i \in 1..Len(added) : added[i] = updates[j].key
<1> DEFINE new == {i \in DOMAIN updates : mapper[updates[i].key] = Empty}
           added == NewKeysIn(updates)
<1>1. /\ DOMAIN updates = 1..Len(updates) /\ Len(updates) \in {1, 2}
      /\ \A i \in 1..Len(updates) : updates[i].key \in Keys
  BY BatchTyped
<1>2. CASE new = {}
  <2>1. added = <<>>
    BY <1>2 DEF NewKeysIn
  <2>2. \A j \in 1..Len(updates) : mapper[updates[j].key] # 0
    BY <1>1, <1>2 DEF Empty
  <2> HIDE DEF added
  <2>3. added \in Seq(Keys) /\ Len(added) = 0
    BY <2>1
  <2> QED BY <2>1, <2>2, <2>3 DEF added
<1>3. CASE new = {1, 2} /\ updates[1].key # updates[2].key
  <2>1. added = <<updates[1].key, updates[2].key>>
    BY <1>3 DEF NewKeysIn
  <2>2. Len(updates) = 2 /\ mapper[updates[1].key] = 0 /\ mapper[updates[2].key] = 0
    BY <1>1, <1>3 DEF Empty
  <2> DEFINE k == updates[1].key
             l == updates[2].key
  <2>3. k \in Keys /\ l \in Keys /\ k # l
    BY <1>1, <1>3, <2>2
  <2>4. added = <<k, l>>
    BY <2>1
  <2> HIDE DEF added, k, l
  <2>5. added \in Seq(Keys) /\ Len(added) = 2 /\ added[1] = k /\ added[2] = l /\ added # <<>>
    BY <2>3, <2>4
  <2>6. \A i \in 1..Len(added) :
           mapper[added[i]] = 0 /\ \E j \in 1..Len(updates) : updates[j].key = added[i]
    BY <2>2, <2>5 DEF k, l
  <2>7. \A j \in 1..Len(updates) :
           mapper[updates[j].key] # 0 \/ \E i \in 1..Len(added) : added[i] = updates[j].key
    BY <2>2, <2>5 DEF k, l
  <2> QED BY <2>3, <2>5, <2>6, <2>7 DEF added
<1>4. CASE new # {} /\ ~(new = {1, 2} /\ updates[1].key # updates[2].key)
  <2> DEFINE c == CHOOSE i \in new : TRUE
             k == updates[c].key
  <2>1. c \in new
    BY <1>4
  <2>2. added = <<k>>
    BY <1>4 DEF NewKeysIn
  <2> HIDE DEF c
  <2>3. c \in 1..Len(updates) /\ k \in Keys /\ mapper[k] = 0
    BY <1>1, <2>1 DEF Empty
  <2>4. \A j \in 1..Len(updates) : mapper[updates[j].key] # 0 \/ updates[j].key = k
    <3> SUFFICES ASSUME NEW j \in 1..Len(updates), mapper[updates[j].key] = 0
                 PROVE  updates[j].key = k
      OBVIOUS
    <3>1. j \in new
      BY <1>1 DEF Empty
    <3>2. CASE j = c
      BY <3>2
    <3>3. CASE j # c
      <4>1. new = {1, 2}
        BY <1>1, <2>1, <3>1, <3>3
      <4>2. updates[1].key = updates[2].key
        BY <1>4, <4>1
      <4> QED BY <1>1, <2>3, <4>2
    <3> QED BY <3>2, <3>3
  <2> HIDE DEF added, k
  <2>5. added \in Seq(Keys) /\ Len(added) = 1 /\ added[1] = k /\ added # <<>>
    BY <2>2, <2>3
  <2> QED BY <2>3, <2>4, <2>5 DEF added, k
<1> QED BY <1>2, <1>3, <1>4

\* The mapper gives the new keys the next indices, and keeps the others.
LEMMA MapperGrows ==
  ASSUME PriceInv, NEW added \in Seq(Keys), Len(added) \in {0, 1, 2},
         Len(added) = 2 => added[1] # added[2],
         \A i \in 1..Len(added) : mapper[added[i]] = 0,
         Cardinality(Mapped) + Len(added) <= TotalSlots,
         mapper' = MapperWith(added)
  PROVE  /\ mapper' \in [Keys -> 0..TotalSlots] /\ MapperOK'
         /\ \A k \in Keys : mapper[k] # 0 => mapper'[k] = mapper[k]
         /\ \A i \in 1..Len(added) : mapper'[added[i]] \in Slots
<1> DEFINE size == Cardinality(Mapped)
           New == {added[i] : i \in 1..Len(added)}
<1>1. IsFiniteSet(Mapped) /\ size \in Nat /\ TotalSlots \in Nat
  BY MatrixAssumption, FS_CardinalityType DEF PriceInv, MapperOK
<1>2. DOMAIN added = 1..Len(added) /\ \A i \in 1..Len(added) : added[i] \in Keys
  OBVIOUS
<1>3. \A i, j \in 1..Len(added) : added[i] = added[j] => i = j
  OBVIOUS
<1>4. ASSUME NEW k \in Keys, k \notin New PROVE mapper'[k] = mapper[k]
  BY <1>2, <1>4 DEF MapperWith
<1>5. ASSUME NEW i \in 1..Len(added) PROVE mapper'[added[i]] = size + i
  <2> DEFINE c == CHOOSE j \in DOMAIN added : added[j] = added[i]
  <2>1. c \in DOMAIN added /\ added[c] = added[i]
    BY <1>2
  <2>2. mapper'[added[i]] = size + c
    BY <1>2 DEF MapperWith
  <2> HIDE DEF c
  <2> QED BY <1>2, <1>3, <2>1, <2>2
<1>6. \A k \in New : k \in Keys /\ k \notin Mapped
  BY <1>2 DEF Mapped, Empty
<1>7. \A k \in Keys : mapper[k] # 0 => k \notin New
  OBVIOUS
<1>8. \A k \in Keys : mapper[k] \in Nat /\ mapper[k] <= size /\ mapper[k] <= TotalSlots
  BY DEF PriceInv, PriceTypes, MatrixTypes, MapperOK
<1> HIDE DEF size
<1>9. \A k \in New : \E i \in 1..Len(added) : k = added[i] /\ mapper'[k] = size + i
  BY <1>5
<1>10. mapper' \in [Keys -> 0..TotalSlots]
  <2>1. \A k \in Keys : mapper'[k] \in 0..TotalSlots
    <3> SUFFICES ASSUME NEW k \in Keys PROVE mapper'[k] \in 0..TotalSlots
      OBVIOUS
    <3>1. CASE k \in New
      BY <1>1, <1>9, <3>1 DEF size
    <3>2. CASE k \notin New
      BY <1>1, <1>4, <1>8, <3>2
    <3> QED BY <3>1, <3>2
  <2>2. \E m : mapper' = [k \in Keys |-> m[k]]
    BY DEF MapperWith
  <2> QED BY <2>1, <2>2
<1>11. Mapped' = Mapped \cup New
  <2>1. \A k \in New : mapper'[k] # 0
    BY <1>1, <1>9
  <2> QED BY <1>2, <1>4, <1>6, <1>7, <2>1 DEF Mapped, Empty
<1>12. IsFiniteSet(Mapped') /\ Cardinality(Mapped') = size + Len(added)
  <2>1. CASE Len(added) = 0
    <3>1. New = {}
      BY <2>1
    <3>2. Mapped' = Mapped
      BY <1>11, <3>1
    <3> QED BY <1>1, <2>1, <3>2 DEF size
  <2>2. CASE Len(added) = 1
    <3>1. New = {added[1]} /\ added[1] \notin Mapped
      BY <1>6, <2>2
    <3>2. Mapped' = Mapped \cup {added[1]}
      BY <1>11, <3>1
    <3> QED BY <1>1, <2>2, <3>1, <3>2, FS_AddElement DEF size
  <2>3. CASE Len(added) = 2
    <3> DEFINE Half == Mapped \cup {added[1]}
    <3>1. New = {added[1], added[2]} /\ added[1] \notin Mapped /\ added[2] \notin Half
      BY <1>6, <2>3
    <3>2. Mapped' = Half \cup {added[2]}
      BY <1>11, <3>1
    <3>3. IsFiniteSet(Half) /\ Cardinality(Half) = size + 1
      BY <1>1, <3>1, FS_AddElement DEF size
    <3> HIDE DEF Half
    <3>4. IsFiniteSet(Mapped') /\ Cardinality(Mapped') = Cardinality(Half) + 1
      BY <3>1, <3>2, <3>3, FS_AddElement
    <3> QED BY <1>1, <2>3, <3>3, <3>4
  <2> QED BY <2>1, <2>2, <2>3
<1>13. \A k \in Keys : mapper'[k] <= Cardinality(Mapped')
  <2> SUFFICES ASSUME NEW k \in Keys PROVE mapper'[k] <= size + Len(added)
    BY <1>12
  <2>1. CASE k \in New
    BY <1>1, <1>9, <2>1
  <2>2. CASE k \notin New
    BY <1>1, <1>4, <1>8, <2>2
  <2> QED BY <2>1, <2>2
<1>14. \A k, l \in Mapped' : mapper'[k] = mapper'[l] => k = l
  <2> SUFFICES ASSUME NEW k \in Mapped', NEW l \in Mapped', mapper'[k] = mapper'[l]
               PROVE  k = l
    OBVIOUS
  <2>0. k \in Keys /\ l \in Keys
    BY DEF Mapped
  <2>1. CASE k \in New /\ l \in New
    <3>1. PICK i \in 1..Len(added) : k = added[i] /\ mapper'[k] = size + i
      BY <1>9, <2>1
    <3>2. PICK j \in 1..Len(added) : l = added[j] /\ mapper'[l] = size + j
      BY <1>9, <2>1
    <3> QED BY <1>1, <3>1, <3>2
  <2>2. CASE k \notin New /\ l \notin New
    <3>1. k \in Mapped /\ l \in Mapped
      BY <1>11, <2>2
    <3> QED BY <1>4, <2>0, <2>2, <3>1 DEF PriceInv, MapperOK
  <2>3. ASSUME NEW a \in New, NEW b \in Keys, b \notin New, mapper'[a] = mapper'[b]
        PROVE  FALSE
    <3>1. mapper'[a] > size /\ mapper'[b] <= size
      BY <1>1, <1>4, <1>8, <1>9, <2>3
    <3> QED BY <1>1, <1>8, <1>4, <2>3, <3>1
  <2> QED BY <2>0, <2>1, <2>2, <2>3
<1>15. \A i \in 1..Len(added) : mapper'[added[i]] \in Slots
  BY <1>1, <1>5 DEF Slots, size
<1>16. \A k \in Keys : mapper[k] # 0 => mapper'[k] = mapper[k]
  BY <1>4, <1>7
<1> QED BY <1>10, <1>12, <1>13, <1>14, <1>15, <1>16 DEF MapperOK

\* A call knows the slots of all its keys before it writes.
LEMMA SetPricesKeep ==
  ASSUME PriceInv, SetPrices
  PROVE  PriceInv'
<1>0. PICK updates \in Batches :
        /\ Cardinality(Mapped) + Len(NewKeysIn(updates)) <= TotalSlots
        /\ mapper' = MapperWith(NewKeysIn(updates))
        /\ newKeys' = NewKeysIn(updates)
        /\ todo' = [i \in DOMAIN updates |-> Write(mapper'[updates[i].key], updates[i])]
  BY DEF SetPrices, Batches
<1>1. /\ writerAt = "idle" /\ writerAt' = "check"
      /\ UNCHANGED <<priceLo, priceHi, stamps, sequences, registryVars, readerVars>>
  BY DEF SetPrices
<1>2. mapper \in [Keys -> 0..TotalSlots]
  BY DEF PriceInv, PriceTypes, MatrixTypes
<1> DEFINE added == NewKeysIn(updates)
<1>3. /\ added \in Seq(Keys) /\ Len(added) \in {0, 1, 2}
      /\ Len(added) = 2 => added[1] # added[2]
      /\ \A i \in 1..Len(added) :
            mapper[added[i]] = 0 /\ \E j \in 1..Len(updates) : updates[j].key = added[i]
      /\ \A j \in 1..Len(updates) :
            mapper[updates[j].key] # 0 \/ \E i \in 1..Len(added) : added[i] = updates[j].key
  BY <1>2, NewKeysTyped
<1> HIDE DEF added
<1>4. /\ mapper' \in [Keys -> 0..TotalSlots] /\ MapperOK'
      /\ \A k \in Keys : mapper[k] # 0 => mapper'[k] = mapper[k]
      /\ \A i \in 1..Len(added) : mapper'[added[i]] \in Slots
  <2>1. mapper' = MapperWith(added) /\ Cardinality(Mapped) + Len(added) <= TotalSlots
    BY <1>0 DEF added
  <2>2. \A i \in 1..Len(added) : mapper[added[i]] = 0
    BY <1>3
  <2> QED BY <1>3, <2>1, <2>2, MapperGrows
<1>5. /\ updates \in Seq(Prices) /\ Len(updates) \in {1, 2} /\ DOMAIN updates = 1..Len(updates)
      /\ \A j \in 1..Len(updates) : updates[j] \in Prices /\ updates[j].key \in Keys
  BY BatchTyped
<1>6. \A j \in 1..Len(updates) : mapper'[updates[j].key] \in Slots
  <2> SUFFICES ASSUME NEW j \in 1..Len(updates) PROVE mapper'[updates[j].key] \in Slots
    OBVIOUS
  <2>1. CASE mapper[updates[j].key] # 0
    BY <1>2, <1>4, <1>5, <2>1 DEF Slots
  <2>2. CASE mapper[updates[j].key] = 0
    BY <1>3, <1>4, <2>2
  <2> QED BY <2>1, <2>2
<1> DEFINE call(j) == Write(mapper'[updates[j].key], updates[j])
<1>7. /\ todo' = [j \in 1..Len(updates) |-> call(j)]
      /\ \A j \in 1..Len(updates) :
            /\ call(j) \in WriteCalls /\ call(j).price = updates[j]
            /\ call(j).slot = mapper'[updates[j].key]
  BY <1>0, <1>5, <1>6 DEF Write, WriteCalls, Stored
<1> HIDE DEF call
<1>8. /\ todo' \in Seq(WriteCalls) /\ Len(todo') = Len(updates) /\ todo' # <<>>
      /\ \A j \in 1..Len(updates) :
            todo'[j].price = updates[j] /\ todo'[j].slot = mapper'[updates[j].key]
  <2> DEFINE Calls == WriteCalls
  <2>1. todo' \in [1..Len(updates) -> Calls]
    BY <1>7
  <2> HIDE DEF Calls
  <2>2. todo' \in Seq(Calls) /\ Len(todo') = Len(updates)
    BY <1>5, <2>1
  <2>3. todo' # <<>>
    BY <1>5, <2>2
  <2> QED BY <1>7, <2>2, <2>3 DEF Calls
<1>9. WriterTypes' /\ WriterOK'
  <2>1. newKeys' = added
    BY <1>0 DEF added
  <2>2. WriterTypes'
    BY <1>1, <1>3, <1>8, <2>1 DEF WriterTypes, WriterStages
  <2>3. \A j \in 1..Len(todo') :
           todo'[j].price \in Prices => mapper'[todo'[j].price.key] = todo'[j].slot
    BY <1>8
  <2> QED BY <1>1, <1>8, <2>2, <2>3 DEF WriterOK
<1>10. MatrixTypes'
  BY <1>1, <1>4 DEF PriceInv, PriceTypes, MatrixTypes
<1>11. SlotsOK'
  <2>1. \A i \in Slots : priceLo'[i] \in Prices => mapper'[priceLo'[i].key] = i
    <3> SUFFICES ASSUME NEW i \in Slots, priceLo[i] \in Prices
                 PROVE  mapper'[priceLo[i].key] = i
      BY <1>1
    <3>1. priceLo[i].key \in Keys /\ mapper[priceLo[i].key] = i /\ i # 0
      BY DEF PriceInv, SlotsOK, Prices, Slots
    <3> QED BY <1>4, <3>1
  <2>2. \A i \in Slots : Whole(i)'
    BY <1>1 DEF PriceInv, SlotsOK, Writing, Whole
  <2> QED BY <1>1, <2>1, <2>2 DEF PriceInv, SlotsOK, Writing
<1>12. ReadersOK' /\ ReaderTypes'
  <2>1. \A i \in Slots : Advances(i)
    BY <1>1 DEF Advances
  <2> QED BY <1>1, <1>4, <1>10, <2>1, ReadersUndisturbed DEF MatrixTypes
<1>13. RegistryTypes'
  BY <1>1 DEF registryVars, PriceInv, PriceTypes, RegistryTypes
<1>14. RegistryOK'
  <2>1. UNCHANGED <<entries, entryCount, buckets, sequences>>
    BY <1>1 DEF registryVars
  <2>2. \A n \in 1..Len(entries) :
           mapper'[entries[n].key] = entries[n].index /\ sequences[entries[n].index] > 0
    <3> SUFFICES ASSUME NEW n \in 1..Len(entries)
                 PROVE  mapper'[entries[n].key] = entries[n].index
                        /\ sequences[entries[n].index] > 0
      OBVIOUS
    <3> DEFINE e == entries[n]
    <3>1. e \in [key : Keys, index : Slots]
      BY EntryTyped
    <3>2. mapper[e.key] = e.index /\ sequences[e.index] > 0
      BY DEF PriceInv, RegistryOK
    <3> HIDE DEF e
    <3>3. e.key \in Keys /\ e.index # 0
      BY <3>1 DEF Slots
    <3>4. mapper'[e.key] = e.index /\ sequences[e.index] > 0
      BY <1>4, <3>2, <3>3
    <3> QED BY <3>4 DEF e
  <2>3. Len(entries) = entryCount
    BY <1>1 DEF PriceInv, RegistryOK
  <2>4. \A i \in 1..Len(added) :
           /\ mapper'[added[i]] # 0
           /\ \E j \in 1..Len(todo') :
                 todo'[j].slot = mapper'[added[i]] /\ todo'[j].price \in Prices
    <3> SUFFICES ASSUME NEW i \in 1..Len(added)
                 PROVE  /\ mapper'[added[i]] # 0
                        /\ \E j \in 1..Len(todo') :
                              todo'[j].slot = mapper'[added[i]] /\ todo'[j].price \in Prices
      OBVIOUS
    <3>1. PICK j \in 1..Len(updates) : updates[j].key = added[i]
      BY <1>3
    <3>2. /\ j \in 1..Len(todo') /\ todo'[j].price \in Prices
          /\ todo'[j].slot = mapper'[added[i]]
      BY <1>5, <1>8, <3>1
    <3>3. mapper'[added[i]] # 0
      BY <1>4 DEF Slots
    <3> QED BY <3>2, <3>3
  <2>5. \A i \in 1..Len(newKeys') : mapper'[newKeys'[i]] # 0 /\ Written(newKeys[i])'
    <3>1. newKeys' = added
      BY <1>0 DEF added
    <3> QED BY <2>4, <3>1 DEF Written
  <2> QED BY <1>1, <2>1, <2>2, <2>3, <2>5 DEF PriceInv, RegistryOK
<1> QED BY <1>4, <1>9, <1>10, <1>11, <1>12, <1>13, <1>14 DEF PriceInv, PriceTypes

-----------------------------------------------------------------------------
(* The theorems. *)

\* The matrix is empty.
LEMMA PriceInitOK == PriceInit => PriceInv
<1> SUFFICES ASSUME PriceInit PROVE PriceInv
  OBVIOUS
<1>1. \A k \in Keys : mapper[k] = 0
  BY DEF PriceInit, Empty
<1>2. Mapped = {}
  BY <1>1 DEF Mapped, Empty
<1>3. MapperOK
  BY <1>1, <1>2, FS_EmptySet DEF MapperOK
<1>4. Zero \in Stored /\ Zero \notin Prices /\ Zero.stamp = 0
  BY MatrixAssumption DEF Stored, Zero, Prices
<1>5. MatrixTypes
  BY <1>4, MatrixAssumption DEF PriceInit, MatrixTypes, Empty
<1>6. WriterTypes /\ RegistryTypes
  BY DEF PriceInit, WriterTypes, RegistryTypes, WriterStages, Empty
<1>7. ReaderTypes
  BY NothingHeld DEF PriceInit, ReaderTypes
<1>8. WriterOK
  BY DEF PriceInit, WriterOK
<1>9. SlotsOK
  <2>1. \A i \in Slots : Whole(i) /\ priceLo[i] \notin Prices /\ ~(stamps[i] > 0)
    BY <1>4 DEF PriceInit, Whole
  <2> QED BY <2>1 DEF PriceInit, SlotsOK, Writing
<1>10. RegistryOK
  BY DEF PriceInit, RegistryOK, Empty
<1>11. ReadersOK
  BY NothingHeld DEF PriceInit, ReadersOK
<1> QED BY <1>3, <1>5, <1>6, <1>7, <1>8, <1>9, <1>10, <1>11 DEF PriceInv, PriceTypes

\* The inductive invariant: slots are whole but for the one being written, the
\* registry leads to written slots, and each worker's copy agrees with its sequence.
THEOREM PriceAlways == PriceSpec => []PriceInv
<1>1. PriceInv /\ [PriceNext]_priceVars => PriceInv'
  <2> SUFFICES ASSUME PriceInv, [PriceNext]_priceVars PROVE PriceInv'
    OBVIOUS
  <2>1. CASE UNCHANGED priceVars
    BY <2>1 DEF priceVars, matrixVars, writerVars, registryVars, readerVars, PriceInv,
                PriceTypes, MatrixTypes, WriterTypes, RegistryTypes, ReaderTypes, MapperOK,
                Mapped, WriterOK, SlotsOK, Writing, Target, Whole, RegistryOK, Written,
                ReadersOK, ReadingOK
  <2>2. CASE WriterStep
    BY <2>2, CheckKeeps, WritesKeep, EndWriteKeeps, KeyDoneKeeps, EntryKeeps, PublishKeeps
       DEF WriterStep
  <2> QED BY <2>1, <2>2, SetPricesKeep, DeleteKeeps, WorkersKeep DEF PriceNext
<1> QED BY <1>1, PriceInitOK, PTL DEF PriceSpec

\* A worker is given one price of the key it asked for, whole and with its own
\* timestamp, whatever the main thread did while it read.
THEOREM WholeReads == PriceSpec => []ReadsAreWhole
<1>1. PriceInv => ReadsAreWhole
  BY DEF PriceInv, ReadersOK, ReadingOK, ReadsAreWhole
<1> QED BY <1>1, PriceAlways, PTL

\* A bucket that workers can see leads to a complete entry, and to a slot that has
\* been written to.
THEOREM CompletePublication == PriceSpec => []PublishedIsComplete
<1>1. PriceInv => PublishedIsComplete
  <2> SUFFICES ASSUME PriceInv, NEW b \in DOMAIN buckets, buckets[b] # Empty
               PROVE  /\ buckets[b] \in DOMAIN entries
                      /\ entries[buckets[b]].index = mapper[entries[buckets[b]].key]
                      /\ sequences[entries[buckets[b]].index] > 0
    BY DEF PublishedIsComplete
  <2>1. b \in 0..(Buckets - 1) /\ buckets[b] # 0
    BY DEF PriceInv, PriceTypes, RegistryTypes, Empty
  <2>2. buckets[b] \in 1..Len(entries) /\ DOMAIN entries = 1..Len(entries)
    BY <2>1 DEF PriceInv, PriceTypes, RegistryTypes, RegistryOK
  <2> QED BY <2>2 DEF PriceInv, RegistryOK
<1> QED BY <1>1, PriceAlways, PTL
=============================================================================
