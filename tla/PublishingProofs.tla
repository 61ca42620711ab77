---------------------------- MODULE PublishingProofs ----------------------------
(* No update that a batcher accepts is lost or overtaken, for any number of     *)
(* chains and batchers, and every wait of a stop has an XADD to wait for.       *)
EXTENDS PricePublishing, SequenceTheorems, TLAPS

-----------------------------------------------------------------------------
(* The inductive invariant.                                                     *)

ChainTypes ==
  /\ chain \in [Chains -> {"starting", "running", "destroying", "off"}]
  /\ handle \in [Chains -> Batchers \cup {NoBatcher}]
  /\ restarts \in [Chains -> Nat]
  /\ closedBy \in [Batchers -> SUBSET Chains]
  /\ registered \in Batchers \cup {NoBatcher}

BatcherTypes ==
  /\ stage \in [Batchers -> {"unused", "open", "waiting", "flushing", "destroyed"}]
  /\ queue \in [Batchers -> Seq(Nat)]
  /\ arrived \in [Batchers -> Seq(Nat)]
  /\ batch \in [Batchers -> Seq(Nat)]
  /\ timer \in [Batchers -> BOOLEAN]

PublishTypeOK ==
  ChainTypes /\ BatcherTypes /\ stream \in Seq(Nat) /\ via \in Seq(Batchers)

\* A chain that runs has a batcher, and one that waits for a destroy() is waited for
\* by a batcher whose destroy() is under way.
HandlesKnown == \A c \in Chains :
  /\ chain[c] \in {"running", "destroying"} => handle[c] \in Batchers
  /\ chain[c] = "destroying" => stage[handle[c]] \in {"waiting", "flushing"}

\* Where the updates of a batcher are, by its stage: a batch under way empties the
\* queue, and only then something arrives behind it.
ShapeOf(b) ==
  /\ Flushing(b) => queue[b] = <<>> /\ stage[b] \in {"open", "waiting", "flushing"}
  /\ ~Flushing(b) => arrived[b] = <<>> /\ stage[b] \in {"unused", "open", "destroyed"}
  /\ stage[b] = "flushing" => arrived[b] = <<>>
  /\ timer[b] => queue[b] # <<>> /\ stage[b] = "open"

Shapes == \A b \in Batchers : ShapeOf(b)

\* What a batcher holds it has accepted, in this order.
Rising(s) == \A i, j \in DOMAIN s : i < j => s[i] < s[j]

HeldInOrder == \A b \in Batchers :
  /\ Rising(Held(b))
  /\ \A i \in DOMAIN Held(b) : Held(b)[i] \in DOMAIN via /\ via[Held(b)[i]] = b

\* Only a destroyed batcher has counted updates as dropped.
LostIsDestroyed == \A u \in lost : u \in DOMAIN via /\ stage[via[u]] = "destroyed"

StreamIsAccepted == \A i \in DOMAIN stream : stream[i] \in DOMAIN via

BooksKept == HeldInOrder /\ LostIsDestroyed /\ StreamIsAccepted /\ NothingLost /\ SentInOrder

\* While the process runs only the stop of a chain has destroyed a batcher, and it
\* was not the stop of a chain that runs with this batcher.
ClosersKnown ==
  /\ \A b \in Batchers :
      /\ stage[b] \in {"unused", "open"} => closedBy[b] = {}
      /\ manager = "up" /\ stage[b] \notin {"unused", "open"} => closedBy[b] # {}
  /\ \A c \in Chains : chain[c] = "running" =>
      stage[handle[c]] # "unused" /\ c \notin closedBy[handle[c]]

PublishInv == PublishTypeOK /\ HandlesKnown /\ Shapes /\ BooksKept /\ ClosersKnown
-----------------------------------------------------------------------------
(* Sequences.                                                                   *)

\* The values of a concatenation are those of its parts.
LEMMA RangeOfConcat ==
  ASSUME NEW s \in Seq(Nat), NEW t \in Seq(Nat)
  PROVE  ToSet(s \o t) = ToSet(s) \cup ToSet(t)
<1>1. ToSet(s \o t) \subseteq ToSet(s) \cup ToSet(t)
  <2> SUFFICES ASSUME NEW i \in DOMAIN (s \o t)
               PROVE  (s \o t)[i] \in ToSet(s) \cup ToSet(t)
    BY DEF ToSet
  <2> QED BY ConcatProperties, LenProperties DEF ToSet
<1>2. ToSet(s) \subseteq ToSet(s \o t)
  <2> SUFFICES ASSUME NEW i \in DOMAIN s PROVE s[i] \in ToSet(s \o t)
    BY DEF ToSet
  <2>1. i \in 1..Len(s) /\ i \in DOMAIN (s \o t) /\ (s \o t)[i] = s[i]
    BY ConcatProperties, LenProperties
  <2> QED BY <2>1 DEF ToSet
<1>3. ToSet(t) \subseteq ToSet(s \o t)
  <2> SUFFICES ASSUME NEW i \in DOMAIN t PROVE t[i] \in ToSet(s \o t)
    BY DEF ToSet
  <2>1. Len(s) + i \in DOMAIN (s \o t) /\ (s \o t)[Len(s) + i] = t[i]
    BY ConcatProperties, LenProperties
  <2> QED BY <2>1 DEF ToSet
<1> QED BY <1>1, <1>2, <1>3

\* A value is in the range when some index has it.
LEMMA InRange ==
  ASSUME NEW s, NEW u
  PROVE  u \in ToSet(s) <=> \E i \in DOMAIN s : s[i] = u
BY DEF ToSet

\* Both parts of a rising sequence rise, and each value of the first is below each
\* value of the second.
LEMMA RisingParts ==
  ASSUME NEW s \in Seq(Nat), NEW t \in Seq(Nat), Rising(s \o t)
  PROVE  /\ Rising(t)
         /\ \A i \in DOMAIN s, j \in DOMAIN t : s[i] < t[j]
<1>1. /\ DOMAIN s = 1..Len(s) /\ DOMAIN t = 1..Len(t)
      /\ Len(s) \in Nat /\ Len(t) \in Nat
      /\ DOMAIN (s \o t) = 1..(Len(s) + Len(t))
      /\ \A i \in DOMAIN s : (s \o t)[i] = s[i]
      /\ \A j \in DOMAIN t : (s \o t)[Len(s) + j] = t[j]
  BY ConcatProperties, LenProperties
<1>2. ASSUME NEW i \in DOMAIN s, NEW j \in DOMAIN t PROVE s[i] < t[j]
  <2>1. i \in DOMAIN (s \o t) /\ Len(s) + j \in DOMAIN (s \o t) /\ i < Len(s) + j
    BY <1>1
  <2>2. (s \o t)[i] < (s \o t)[Len(s) + j]
    BY <2>1 DEF Rising
  <2> QED BY <1>1, <2>2
<1>3. ASSUME NEW i \in DOMAIN t, NEW j \in DOMAIN t, i < j PROVE t[i] < t[j]
  <2>1. Len(s) + i \in DOMAIN (s \o t) /\ Len(s) + j \in DOMAIN (s \o t)
        /\ Len(s) + i < Len(s) + j
    BY <1>1, <1>3
  <2>2. (s \o t)[Len(s) + i] < (s \o t)[Len(s) + j]
    BY <2>1 DEF Rising
  <2> QED BY <1>1, <2>2
<1> QED BY <1>2, <1>3 DEF Rising

\* A rising sequence still rises with a greater value behind it.
LEMMA RisingAppend ==
  ASSUME NEW s \in Seq(Nat), NEW u \in Nat, Rising(s), \A i \in DOMAIN s : s[i] < u
  PROVE  Rising(Append(s, u))
BY AppendProperties, LenProperties DEF Rising

-----------------------------------------------------------------------------
(* The forms of the steps, and what each does to the books.                     *)

\* An accepted update is in one of these places.
Accounted(u) ==
  \/ u \in ToSet(stream) \cup lost
  \/ u \in ToSet(Held(via[u])) /\ stage[via[u]] # "destroyed"

\* The updates stay where they are, and a batcher is destroyed with none left.
Keeps ==
  /\ UNCHANGED <<stream, via, lost>>
  /\ \A b \in Batchers :
      /\ Held(b)' = Held(b)
      /\ stage[b] = "destroyed" => stage'[b] = "destroyed"
      /\ stage'[b] = "destroyed" => stage[b] = "destroyed" \/ Held(b) = <<>>

\* Batcher b accepts one more.
Accepts(b) ==
  /\ UNCHANGED <<stream, lost, stage>>
  /\ stage[b] # "destroyed"
  /\ via' = Append(via, b)
  /\ Held(b)' = Append(Held(b), Len(via) + 1)
  /\ \A d \in Batchers \ {b} : Held(d)' = Held(d)

\* What batcher b has been sending reaches the stream, ahead of what it holds
\* besides.
Sends(b) ==
  /\ stage[b] # "destroyed"
  /\ stream' = stream \o batch[b]
  /\ UNCHANGED <<via, lost>>
  /\ Held(b)' \in Seq(Nat) /\ Held(b) = batch[b] \o Held(b)'
  /\ stage'[b] = "destroyed" => Held(b)' = <<>>
  /\ \A d \in Batchers \ {b} : Held(d)' = Held(d) /\ stage'[d] = stage[d]

\* It may have reached the stream or not: b keeps it, or has been destroyed and
\* counts it, and then held nothing else.
Misses(b) ==
  /\ stage[b] # "destroyed"
  /\ stream' \in {stream, stream \o batch[b]}
  /\ UNCHANGED via
  /\ \E rest \in Seq(Nat) : Held(b) = batch[b] \o rest
  /\ \/ lost' = lost /\ stage'[b] # "destroyed" /\ Held(b)' = Held(b)
     \/ /\ lost' = lost \cup ToSet(batch[b]) /\ stage'[b] = "destroyed"
        /\ Held(b) = batch[b] /\ Held(b)' = Held(b)
  /\ \A d \in Batchers \ {b} : Held(d)' = Held(d) /\ stage'[d] = stage[d]

\* The types of what the forms speak of.
BookTypes ==
  /\ stream \in Seq(Nat) /\ via \in Seq(Batchers)
  /\ batch \in [Batchers -> Seq(Nat)]
  /\ \A b \in Batchers : Held(b) \in Seq(Nat)

\* What a step that keeps the updates where they are leaves of the books.
LEMMA KeepsKeepsBooks ==
  ASSUME BookTypes, BooksKept, Keeps
  PROVE  BooksKept'
<1>0. DOMAIN via = 1..Len(via) /\ \A u \in DOMAIN via : via[u] \in Batchers
  BY LenProperties, ElementOfSeq DEF BookTypes
<1>1. HeldInOrder'
  BY Zenon DEF HeldInOrder, Keeps, BooksKept, Rising
<1>2. LostIsDestroyed'
  BY <1>0, Zenon DEF LostIsDestroyed, Keeps, BooksKept
<1>3. StreamIsAccepted' /\ SentInOrder'
  BY Zenon DEF StreamIsAccepted, SentInOrder, Keeps, BooksKept
<1>4. NothingLost'
  <2> SUFFICES ASSUME NEW u \in DOMAIN via PROVE Accounted(u)'
    BY DEF NothingLost, Accounted, Keeps
  <2>1. Accounted(u) /\ via[u] \in Batchers
    BY <1>0 DEF NothingLost, Accounted, BooksKept
  <2>2. ToSet(<<>>) = {}
    BY DEF ToSet
  <2> QED BY <2>1, <2>2 DEF Accounted, Keeps
<1> QED BY <1>1, <1>2, <1>3, <1>4 DEF BooksKept

\* An update accepted last is greater than all before it, and is held.
LEMMA AcceptsKeepsBooks ==
  ASSUME BookTypes, BooksKept, NEW b \in Batchers, Accepts(b)
  PROVE  BooksKept'
<1> DEFINE n == Len(via) + 1
<1>0. /\ DOMAIN via = 1..Len(via) /\ Len(via) \in Nat
      /\ \A u \in DOMAIN via : via[u] \in Batchers
      /\ DOMAIN via' = 1..n /\ n \in Nat /\ via'[n] = b
      /\ \A u \in DOMAIN via : via'[u] = via[u]
  BY LenProperties, ElementOfSeq, AppendProperties DEF BookTypes, Accepts
<1>1. /\ Held(b) \in Seq(Nat)
      /\ DOMAIN Held(b)' = 1..(Len(Held(b)) + 1)
      /\ DOMAIN Held(b) = 1..Len(Held(b)) /\ Len(Held(b)) \in Nat
      /\ \A i \in DOMAIN Held(b) : Held(b)'[i] = Held(b)[i]
      /\ Held(b)'[Len(Held(b)) + 1] = n
  BY <1>0, LenProperties, AppendProperties DEF BookTypes, Accepts
<1>2. HeldInOrder'
  <2>1. Rising(Held(b)) /\ \A i \in DOMAIN Held(b) : Held(b)[i] < n
    BY <1>0 DEF HeldInOrder, BooksKept
  <2>2. Rising(Held(b)')
    BY <1>0, <1>1, <2>1, RisingAppend DEF Accepts
  <2>3. \A i \in DOMAIN Held(b)' : Held(b)'[i] \in DOMAIN via' /\ via'[Held(b)'[i]] = b
    <3> SUFFICES ASSUME NEW i \in DOMAIN Held(b)'
                 PROVE  Held(b)'[i] \in DOMAIN via' /\ via'[Held(b)'[i]] = b
      OBVIOUS
    <3>1. CASE i \in DOMAIN Held(b)
      <4>1. Held(b)[i] \in DOMAIN via /\ via[Held(b)[i]] = b
        BY <3>1 DEF HeldInOrder, BooksKept
      <4> QED BY <1>0, <1>1, <3>1, <4>1
    <3>2. CASE i = Len(Held(b)) + 1
      BY <1>0, <1>1, <3>2
    <3> QED BY <1>1, <3>1, <3>2
  <2>4. ASSUME NEW d \in Batchers \ {b}
        PROVE  /\ Rising(Held(d)')
               /\ \A i \in DOMAIN Held(d)' :
                    Held(d)'[i] \in DOMAIN via' /\ via'[Held(d)'[i]] = d
    <3>1. Held(d)' = Held(d)
      BY DEF Accepts
    <3>2. /\ Rising(Held(d))
          /\ \A i \in DOMAIN Held(d) : Held(d)[i] \in DOMAIN via /\ via[Held(d)[i]] = d
      BY DEF HeldInOrder, BooksKept
    <3>3. \A i \in DOMAIN Held(d) : Held(d)[i] \in DOMAIN via' /\ via'[Held(d)[i]] = d
      BY <1>0, <3>2
    <3> QED BY <3>1, <3>2, <3>3, Zenon
  <2>5. ASSUME NEW d \in Batchers
        PROVE  /\ Rising(Held(d)')
               /\ \A i \in DOMAIN Held(d)' :
                    Held(d)'[i] \in DOMAIN via' /\ via'[Held(d)'[i]] = d
    <3>1. CASE d = b
      BY <2>2, <2>3, <3>1
    <3>2. CASE d # b
      BY <2>4, <3>2
    <3> QED BY <3>1, <3>2
  <2> QED BY <2>5 DEF HeldInOrder, Rising
<1>3. LostIsDestroyed'
  BY <1>0 DEF LostIsDestroyed, Accepts, BooksKept
<1>4. StreamIsAccepted'
  BY <1>0 DEF StreamIsAccepted, Accepts, BooksKept
<1>5. SentInOrder'
  <2> SUFFICES ASSUME NEW i \in DOMAIN stream, NEW u \in DOMAIN via',
                      u < stream[i], via'[u] = via'[stream[i]]
               PROVE  \E j \in 1..(i - 1) : stream[j] = u
    BY DEF SentInOrder, Accepts
  <2>1. stream[i] \in DOMAIN via
    BY DEF StreamIsAccepted, BooksKept
  <2>2. u \in DOMAIN via
    BY <1>0, <2>1
  <2> QED BY <1>0, <2>1, <2>2 DEF SentInOrder, BooksKept
<1>6. NothingLost'
  <2> SUFFICES ASSUME NEW u \in DOMAIN via' PROVE Accounted(u)'
    BY DEF NothingLost, Accounted
  <2>1. CASE u \in DOMAIN via
    <3>1. Accounted(u) /\ via'[u] = via[u] /\ via[u] \in Batchers
      BY <1>0, <2>1 DEF NothingLost, Accounted, BooksKept
    <3>2. ASSUME u \in ToSet(Held(via[u])) PROVE u \in ToSet(Held(via[u])')
      <4>1. CASE via[u] = b
        <5>1. PICK i \in DOMAIN Held(b) : Held(b)[i] = u
          BY <3>2, <4>1, InRange
        <5>2. i \in DOMAIN Held(b)' /\ Held(b)'[i] = u
          BY <1>1, <5>1
        <5>3. \A d \in Batchers : d = b => u \in ToSet(Held(d)')
          BY <5>2, InRange
        <5>4. via'[u] \in Batchers /\ via'[u] = b
          BY <3>1, <4>1
        <5> QED BY <5>3, <5>4
      <4>2. CASE via[u] # b
        BY <3>1, <3>2, <4>2 DEF Accepts
      <4> QED BY <4>1, <4>2
    <3> QED BY <3>1, <3>2 DEF Accounted, Accepts
  <2>2. CASE u = n
    <3>1. u \in ToSet(Held(b)')
      BY <1>1, <2>2, InRange
    <3> QED BY <1>0, <2>2, <3>1 DEF Accounted, Accepts
  <2> QED BY <1>0, <2>1, <2>2
<1> QED BY <1>2, <1>3, <1>4, <1>5, <1>6 DEF BooksKept

\* What batcher b sends follows everything it has sent before, and nothing that it
\* holds is passed over.
LEMMA SendingInOrder ==
  ASSUME BookTypes, BooksKept, NEW b \in Batchers, stage[b] # "destroyed",
         NEW rest \in Seq(Nat), Held(b) = batch[b] \o rest,
         stream' = stream \o batch[b], via' = via
  PROVE  SentInOrder' /\ StreamIsAccepted'
<1>0. /\ batch[b] \in Seq(Nat) /\ stream \in Seq(Nat)
      /\ DOMAIN stream = 1..Len(stream) /\ Len(stream) \in Nat
      /\ DOMAIN batch[b] = 1..Len(batch[b]) /\ Len(batch[b]) \in Nat
      /\ DOMAIN stream' = 1..(Len(stream) + Len(batch[b]))
      /\ \A i \in DOMAIN stream : stream'[i] = stream[i]
      /\ \A i \in DOMAIN batch[b] : stream'[Len(stream) + i] = batch[b][i]
  <2>1. batch[b] \in Seq(Nat) /\ stream \in Seq(Nat)
    BY DEF BookTypes
  <2>2. /\ DOMAIN stream = 1..Len(stream) /\ Len(stream) \in Nat
        /\ DOMAIN batch[b] = 1..Len(batch[b]) /\ Len(batch[b]) \in Nat
    BY <2>1, LenProperties
  <2>3. /\ stream \o batch[b] \in Seq(Nat)
        /\ Len(stream \o batch[b]) = Len(stream) + Len(batch[b])
        /\ \A i \in 1..(Len(stream) + Len(batch[b])) :
             (stream \o batch[b])[i] =
                IF i <= Len(stream) THEN stream[i] ELSE batch[b][i - Len(stream)]
    BY <2>1, ConcatProperties
  <2>4. DOMAIN (stream \o batch[b]) = 1..(Len(stream) + Len(batch[b]))
    BY <2>3, LenProperties
  <2> QED BY <2>1, <2>2, <2>3, <2>4
<1>1. /\ DOMAIN Held(b) = 1..(Len(batch[b]) + Len(rest)) /\ Len(rest) \in Nat
      /\ DOMAIN rest = 1..Len(rest)
      /\ \A i \in DOMAIN batch[b] : i \in DOMAIN Held(b) /\ Held(b)[i] = batch[b][i]
      /\ \A i \in DOMAIN Held(b) \ DOMAIN batch[b] :
            /\ i - Len(batch[b]) \in DOMAIN rest
            /\ Held(b)[i] = rest[i - Len(batch[b])]
  BY <1>0, LenProperties, ConcatProperties
<1>2. /\ Rising(Held(b))
      /\ \A i \in DOMAIN Held(b) : Held(b)[i] \in DOMAIN via /\ via[Held(b)[i]] = b
  BY DEF HeldInOrder, BooksKept
<1>3. \A i \in DOMAIN batch[b] : batch[b][i] \in DOMAIN via /\ via[batch[b][i]] = b
  BY <1>1, <1>2
<1>4. \A i \in DOMAIN stream' :
         i \in DOMAIN stream \/ \E k \in DOMAIN batch[b] : i = Len(stream) + k
  <2> SUFFICES ASSUME NEW i \in DOMAIN stream', i \notin DOMAIN stream
               PROVE  \E k \in DOMAIN batch[b] : i = Len(stream) + k
    OBVIOUS
  <2>1. i - Len(stream) \in DOMAIN batch[b] /\ i = Len(stream) + (i - Len(stream))
    BY <1>0
  <2> QED BY <2>1
<1>5. StreamIsAccepted'
  BY <1>0, <1>3, <1>4 DEF StreamIsAccepted, BooksKept
<1>6. SentInOrder'
  <2> SUFFICES ASSUME NEW i \in DOMAIN stream', NEW u \in DOMAIN via,
                      u < stream'[i], via[u] = via[stream'[i]]
               PROVE  \E j \in 1..(i - 1) : stream'[j] = u
    BY DEF SentInOrder
  <2>1. CASE i \in DOMAIN stream
    <3>1. PICK j \in 1..(i - 1) : stream[j] = u
      BY <1>0, <2>1 DEF SentInOrder, BooksKept
    <3> QED BY <1>0, <2>1, <3>1
  <2>2. CASE \E k \in DOMAIN batch[b] : i = Len(stream) + k
    <3>1. PICK k \in DOMAIN batch[b] : i = Len(stream) + k
      BY <2>2
    <3>2. stream'[i] = batch[b][k] /\ via[u] = b
      BY <1>0, <1>3, <3>1
    <3>3. \/ u \in ToSet(stream)
          \/ u \in lost
          \/ u \in ToSet(Held(b))
      BY <3>2 DEF NothingLost, BooksKept
    <3>4. u \notin lost
      BY <3>2 DEF LostIsDestroyed, BooksKept
    <3>5. CASE u \in ToSet(stream)
      <4>1. PICK j \in DOMAIN stream : stream[j] = u
        BY <3>5, InRange
      <4> QED BY <1>0, <3>1, <4>1
    <3>6. CASE u \in ToSet(Held(b))
      <4>1. PICK j \in DOMAIN Held(b) : Held(b)[j] = u
        BY <3>6, InRange
      <4>2. Held(b)[j] < Held(b)[k] /\ k \in DOMAIN Held(b)
        BY <1>1, <3>1, <3>2, <4>1
      <4>2a. Held(b)[k] \in Nat /\ Held(b)[j] \in Nat
        BY <1>2, <4>1, <4>2, LenProperties DEF BookTypes
      <4>3. j < k
        <5> SUFFICES ASSUME k < j \/ k = j PROVE FALSE
          BY <1>0, <1>1, <4>1, <4>2
        <5>1. CASE k < j
          BY <1>2, <4>2, <4>2a, <5>1 DEF Rising
        <5>2. CASE k = j
          BY <4>2, <4>2a, <5>2
        <5> QED BY <5>1, <5>2
      <4>4. j \in DOMAIN batch[b] /\ batch[b][j] = u
        <5>1. j \in 1..(Len(batch[b]) + Len(rest)) /\ k \in 1..Len(batch[b])
          BY <1>0, <1>1, <4>1
        <5>2. j \in 1..Len(batch[b])
          BY <1>0, <1>1, <4>3, <5>1
        <5> QED BY <1>0, <1>1, <4>1, <5>2
      <4>5. Len(stream) + j \in 1..(i - 1) /\ stream'[Len(stream) + j] = u
        <5>1. /\ Len(stream) \in Nat /\ j \in Nat /\ 1 <= j /\ k \in Nat
              /\ i = Len(stream) + k
          BY <1>0, <3>1, <4>4
        <5>2. Len(stream) + j \in 1..(i - 1)
          BY <4>3, <5>1
        <5> QED BY <1>0, <4>4, <5>2
      <4> QED BY <4>5
    <3> QED BY <3>3, <3>4, <3>5, <3>6
  <2> QED BY <1>4, <2>1, <2>2
<1> QED BY <1>5, <1>6

\* What of a batcher's updates is left is held in the same order.
LEMMA SendsKeepsBooks ==
  ASSUME BookTypes, BooksKept, NEW b \in Batchers, Sends(b)
  PROVE  BooksKept'
<1>0. DOMAIN via = 1..Len(via) /\ \A u \in DOMAIN via : via[u] \in Batchers
  BY LenProperties, ElementOfSeq DEF BookTypes
<1>1. /\ batch[b] \in Seq(Nat) /\ stream \in Seq(Nat) /\ Held(b)' \in Seq(Nat)
      /\ Held(b) = batch[b] \o Held(b)' /\ via' = via /\ lost' = lost
      /\ ToSet(stream') = ToSet(stream) \cup ToSet(batch[b])
      /\ ToSet(Held(b)) = ToSet(batch[b]) \cup ToSet(Held(b)')
  BY RangeOfConcat DEF BookTypes, Sends
<1>2. SentInOrder' /\ StreamIsAccepted'
  BY <1>1, SendingInOrder DEF Sends
<1>3. HeldInOrder'
  <2>1. /\ Rising(Held(b)')
        /\ \A i \in DOMAIN Held(b)' : Held(b)'[i] \in DOMAIN via /\ via[Held(b)'[i]] = b
    <3>1. /\ Rising(Held(b))
          /\ \A i \in DOMAIN Held(b) : Held(b)[i] \in DOMAIN via /\ via[Held(b)[i]] = b
      BY DEF HeldInOrder, BooksKept
    <3>2. Rising(Held(b)')
      BY <1>1, <3>1, RisingParts
    <3>3. \A u \in ToSet(Held(b)) : u \in DOMAIN via /\ via[u] = b
      BY <3>1, InRange
    <3>4. \A i \in DOMAIN Held(b)' : Held(b)'[i] \in ToSet(Held(b))
      BY <1>1, InRange
    <3> QED BY <3>2, <3>3, <3>4
  <2>2. ASSUME NEW d \in Batchers
        PROVE  /\ Rising(Held(d)')
               /\ \A i \in DOMAIN Held(d)' :
                    Held(d)'[i] \in DOMAIN via /\ via[Held(d)'[i]] = d
    <3>1. CASE d = b
      BY <2>1, <3>1
    <3>2. CASE d # b
      <4>1. Held(d)' = Held(d)
        BY <3>2 DEF Sends
      <4>2. /\ Rising(Held(d))
            /\ \A i \in DOMAIN Held(d) : Held(d)[i] \in DOMAIN via /\ via[Held(d)[i]] = d
        BY DEF HeldInOrder, BooksKept
      <4> QED BY <4>1, <4>2, Zenon
    <3> QED BY <3>1, <3>2
  <2> QED BY <1>1, <2>2 DEF HeldInOrder, Rising
<1>4. LostIsDestroyed'
  <2> SUFFICES ASSUME NEW u \in lost PROVE u \in DOMAIN via /\ stage'[via[u]] = "destroyed"
    BY <1>1 DEF LostIsDestroyed
  <2>1. u \in DOMAIN via /\ stage[via[u]] = "destroyed"
    BY DEF LostIsDestroyed, BooksKept
  <2> QED BY <1>0, <2>1 DEF Sends
<1>5. NothingLost'
  <2> SUFFICES ASSUME NEW u \in DOMAIN via,
                      u \notin ToSet(stream'), u \notin lost
               PROVE  u \in ToSet(Held(via[u])') /\ stage'[via[u]] # "destroyed"
    BY <1>1 DEF NothingLost
  <2>1. u \in ToSet(Held(via[u])) /\ stage[via[u]] # "destroyed" /\ via[u] \in Batchers
    BY <1>0, <1>1 DEF NothingLost, BooksKept
  <2>2. via'[u] = via[u]
    BY <1>1
  <2>3. CASE via[u] = b
    <3>1. u \in ToSet(Held(b)')
      BY <1>1, <2>1, <2>3
    <3>2. ToSet(<<>>) = {}
      BY DEF ToSet
    <3>3. stage'[b] # "destroyed"
      BY <3>1, <3>2 DEF Sends
    <3>4. \A d \in Batchers : d = b => u \in ToSet(Held(d)')
      BY <3>1
    <3> QED BY <2>1, <2>2, <2>3, <3>3, <3>4
  <2>4. CASE via[u] # b
    <3>1. \A d \in Batchers \ {b} : Held(d)' = Held(d) /\ stage'[d] = stage[d]
      BY DEF Sends
    <3>2. \A d \in Batchers \ {b} :
            d = via[u] => u \in ToSet(Held(d)') /\ stage'[d] # "destroyed"
      BY <2>1, <3>1
    <3> QED BY <2>1, <2>2, <2>4, <3>2
  <2> QED BY <2>3, <2>4
<1> QED BY <1>2, <1>3, <1>4, <1>5 DEF BooksKept

\* An XADD that fails loses sight of no update, whatever Redis has done with it.
LEMMA MissesKeepsBooks ==
  ASSUME BookTypes, BooksKept, NEW b \in Batchers, Misses(b)
  PROVE  BooksKept'
<1>0. /\ DOMAIN via = 1..Len(via) /\ \A u \in DOMAIN via : via[u] \in Batchers
      /\ via' = via
  BY LenProperties, ElementOfSeq DEF BookTypes, Misses
<1>1. PICK rest \in Seq(Nat) : Held(b) = batch[b] \o rest
  BY DEF Misses
<1>2. ToSet(Held(b)) = ToSet(batch[b]) \cup ToSet(rest) /\ ToSet(stream) \subseteq ToSet(stream')
  BY <1>1, RangeOfConcat DEF BookTypes, Misses
<1>3. SentInOrder' /\ StreamIsAccepted'
  <2>1. CASE stream' = stream \o batch[b]
    BY <1>0, <1>1, <2>1, SendingInOrder DEF Misses
  <2>2. CASE stream' = stream
    BY <1>0, <2>2 DEF SentInOrder, StreamIsAccepted, BooksKept
  <2> QED BY <2>1, <2>2 DEF Misses
<1>4. \A d \in Batchers : Held(d)' = Held(d)
  BY DEF Misses
<1>5. HeldInOrder'
  BY <1>0, <1>4, Zenon DEF HeldInOrder, BooksKept, Rising
<1>6. \A u \in ToSet(Held(b)) : u \in DOMAIN via /\ via[u] = b
  BY InRange DEF HeldInOrder, BooksKept
<1>7. LostIsDestroyed'
  <2> SUFFICES ASSUME NEW u \in lost' PROVE u \in DOMAIN via /\ stage'[via[u]] = "destroyed"
    BY <1>0 DEF LostIsDestroyed
  <2>1. CASE u \in lost
    <3>1. u \in DOMAIN via /\ stage[via[u]] = "destroyed"
      BY <2>1 DEF LostIsDestroyed, BooksKept
    <3> QED BY <1>0, <3>1 DEF Misses
  <2>2. CASE u \notin lost
    <3>1. stage'[b] = "destroyed" /\ u \in ToSet(batch[b])
      BY <2>2 DEF Misses
    <3> QED BY <1>2, <1>6, <3>1
  <2> QED BY <2>1, <2>2
<1>8. NothingLost'
  <2> SUFFICES ASSUME NEW u \in DOMAIN via,
                      u \notin ToSet(stream'), u \notin lost'
               PROVE  u \in ToSet(Held(via[u])') /\ stage'[via[u]] # "destroyed"
    BY <1>0 DEF NothingLost
  <2>0. lost \subseteq lost'
    BY DEF Misses
  <2>1. u \in ToSet(Held(via[u])) /\ stage[via[u]] # "destroyed" /\ via[u] \in Batchers
    BY <1>0, <1>2, <2>0 DEF NothingLost, BooksKept
  <2>2. via'[u] = via[u]
    BY <1>0
  <2>3. stage'[via[u]] # "destroyed"
    <3>1. CASE via[u] = b
      BY <2>1, <3>1 DEF Misses
    <3>2. CASE via[u] # b
      BY <2>1, <3>2 DEF Misses
    <3> QED BY <3>1, <3>2
  <2>4. \A d \in Batchers : d = via[u] => u \in ToSet(Held(d)')
    BY <1>4, <2>1
  <2> QED BY <2>1, <2>2, <2>3, <2>4
<1> QED BY <1>3, <1>5, <1>7, <1>8 DEF BooksKept

-----------------------------------------------------------------------------
(* What the operations of a batcher do to it.                                   *)

\* Step leaves batcher d alone.
Untouched(d) ==
  /\ stage'[d] = stage[d] /\ queue'[d] = queue[d] /\ arrived'[d] = arrived[d]
  /\ batch'[d] = batch[d] /\ timer'[d] = timer[d]

\* The three parts of what is held, when some of them are empty.
LEMMA EmptyParts ==
  ASSUME NEW s \in Seq(Nat), NEW t \in Seq(Nat), NEW r \in Seq(Nat)
  PROVE  /\ s \o t \o r \in Seq(Nat)
         /\ s = <<>> /\ r = <<>> => s \o t \o r = t
         /\ t = <<>> => s \o t \o r = s \o r
         /\ t = <<>> /\ r = <<>> => s \o t \o r = s
<1>1. s \o t \in Seq(Nat) /\ (s \o t) \o r \in Seq(Nat)
  BY ConcatProperties
<1>2. s = <<>> => s \o t = t
  BY ConcatEmptySeq
<1>3. t = <<>> => s \o t = s
  BY ConcatEmptySeq
<1>4. r = <<>> => (s \o t) \o r = s \o t
  BY <1>1, ConcatEmptySeq
<1> QED BY <1>1, <1>2, <1>3, <1>4

\* An update appended to the last part is appended to the whole.
LEMMA AppendedLast ==
  ASSUME NEW s \in Seq(Nat), NEW t \in Seq(Nat), NEW u \in Nat
  PROVE  s \o Append(t, u) = Append(s \o t, u)
<1>1. <<u>> \in Seq(Nat) /\ s \o t \in Seq(Nat)
  BY ConcatProperties
<1>2. Append(t, u) = t \o <<u>> /\ Append(s \o t, u) = (s \o t) \o <<u>>
  BY <1>1, AppendIsConcat
<1> QED BY <1>1, <1>2, ConcatAssociative

\* The values of the parts of a batcher.
LEMMA PartTypes ==
  ASSUME BatcherTypes, NEW b \in Batchers
  PROVE  /\ queue[b] \in Seq(Nat) /\ arrived[b] \in Seq(Nat) /\ batch[b] \in Seq(Nat)
         /\ Held(b) \in Seq(Nat)
         /\ stage[b] \in {"unused", "open", "waiting", "flushing", "destroyed"}
<1>1. queue[b] \in Seq(Nat) /\ arrived[b] \in Seq(Nat) /\ batch[b] \in Seq(Nat)
  BY DEF BatcherTypes
<1>2. stage[b] \in {"unused", "open", "waiting", "flushing", "destroyed"}
  BY DEF BatcherTypes
<1> QED BY <1>1, <1>2, EmptyParts DEF Held

\* A batcher that is left alone holds what it held, in the same shape.
LEMMA UntouchedKeeps ==
  ASSUME Shapes, NEW b \in Batchers, ShapeOf(b)',
         \A d \in Batchers \ {b} : Untouched(d)
  PROVE  /\ Shapes'
         /\ \A d \in Batchers \ {b} : Held(d)' = Held(d) /\ stage'[d] = stage[d]
<1>1. ASSUME NEW d \in Batchers \ {b} PROVE ShapeOf(d)' /\ Held(d)' = Held(d)
  BY Zenon DEF Untouched, ShapeOf, Shapes, Flushing, Held
<1>2. ASSUME NEW d \in Batchers PROVE ShapeOf(d)'
  BY <1>1
<1>3. Shapes'
  BY <1>2 DEF Shapes
<1> QED BY <1>1, <1>3 DEF Untouched

\* add() appends the update to what the batcher holds.
LEMMA AddEffect ==
  ASSUME BatcherTypes, Shapes, NEW b \in Batchers, NEW u \in Nat,
         stage[b] = "open", Add(b, u), UNCHANGED stage
  PROVE  /\ BatcherTypes' /\ Shapes'
         /\ Held(b)' = Append(Held(b), u)
         /\ \A d \in Batchers \ {b} : Held(d)' = Held(d)
<1> DEFINE q == Append(queue[b], u)
<1>0. /\ queue[b] \in Seq(Nat) /\ arrived[b] \in Seq(Nat) /\ batch[b] \in Seq(Nat)
      /\ ShapeOf(b)
  BY PartTypes DEF Shapes
<1>1. /\ q \in Seq(Nat) /\ q # <<>> /\ <<>> \in Seq(Nat)
      /\ Append(arrived[b], u) \in Seq(Nat)
  <2>1. q \in Seq(Nat) /\ q # <<>>
    BY <1>0, AppendProperties
  <2>2. Append(arrived[b], u) \in Seq(Nat)
    BY <1>0, AppendProperties
  <2> QED BY <2>1, <2>2, EmptySeq
<1>2. CASE Flushing(b) /\ arrived' = [arrived EXCEPT ![b] = Append(@, u)]
           /\ UNCHANGED <<queue, batch, timer>>
  <2>1. BatcherTypes'
    BY <1>1, <1>2 DEF BatcherTypes
  <2>2. /\ arrived'[b] = Append(arrived[b], u) /\ queue'[b] = <<>> /\ queue[b] = <<>>
        /\ batch'[b] = batch[b]
    BY <1>0, <1>2 DEF BatcherTypes, ShapeOf
  <2>3. ShapeOf(b)'
    BY <1>0, <1>2, <2>2 DEF ShapeOf, Flushing
  <2>4. Held(b) = batch[b] \o arrived[b] /\ Held(b)' = batch[b] \o Append(arrived[b], u)
    BY <1>0, <1>1, <2>2, EmptyParts DEF Held
  <2>5. \A d \in Batchers \ {b} : Untouched(d)
    BY <1>2 DEF Untouched, BatcherTypes
  <2>6. Held(b)' = Append(Held(b), u)
    <3>1. batch[b] \o Append(arrived[b], u) = Append(batch[b] \o arrived[b], u)
      BY <1>0, AppendedLast, Zenon
    <3> QED BY <2>4, <3>1, Zenon
  <2> QED BY <2>1, <2>3, <2>5, <2>6, UntouchedKeeps
<1>3. CASE ~Flushing(b) /\ Flush(b, q) /\ UNCHANGED arrived
  <2>1. BatcherTypes'
    BY <1>1, <1>3 DEF BatcherTypes, Flush
  <2>2. /\ arrived'[b] = <<>> /\ arrived[b] = <<>> /\ batch[b] = <<>>
        /\ queue'[b] = <<>> /\ batch'[b] = q /\ timer'[b] = FALSE
    BY <1>0, <1>3 DEF BatcherTypes, Flush, ShapeOf, Flushing
  <2>3. ShapeOf(b)'
    BY <1>1, <2>2 DEF ShapeOf, Flushing
  <2>4. Held(b) = queue[b] /\ Held(b)' = q
    BY <1>0, <1>1, <2>2, EmptyParts DEF Held
  <2>5. \A d \in Batchers \ {b} : Untouched(d)
    BY <1>3 DEF Untouched, BatcherTypes, Flush
  <2> QED BY <2>1, <2>3, <2>4, <2>5, UntouchedKeeps
<1>4. CASE ~Flushing(b) /\ queue' = [queue EXCEPT ![b] = q]
           /\ timer' = [timer EXCEPT ![b] = TRUE] /\ UNCHANGED <<arrived, batch>>
  <2>1. BatcherTypes'
    BY <1>1, <1>4 DEF BatcherTypes
  <2>2. /\ arrived'[b] = <<>> /\ arrived[b] = <<>> /\ batch[b] = <<>>
        /\ queue'[b] = q /\ batch'[b] = <<>>
    BY <1>0, <1>4 DEF BatcherTypes, ShapeOf, Flushing
  <2>3. ShapeOf(b)'
    BY <1>1, <2>2 DEF ShapeOf, Flushing
  <2>4. Held(b) = queue[b] /\ Held(b)' = q
    BY <1>0, <1>1, <2>2, EmptyParts DEF Held
  <2>5. \A d \in Batchers \ {b} : Untouched(d)
    BY <1>4 DEF Untouched, BatcherTypes
  <2> QED BY <2>1, <2>3, <2>4, <2>5, UntouchedKeeps
<1> QED BY <1>2, <1>3, <1>4 DEF Add

\* A flush with no XADD under way moves what is held.
LEMMA FlushEffect ==
  ASSUME BatcherTypes, Shapes, NEW b \in Batchers, ~Flushing(b), queue[b] # <<>>,
         Flush(b, queue[b]), UNCHANGED arrived,
         NEW s \in {"open", "flushing"}, stage' = [stage EXCEPT ![b] = s]
  PROVE  /\ BatcherTypes' /\ Shapes'
         /\ \A d \in Batchers : Held(d)' = Held(d)
<1>0. /\ queue[b] \in Seq(Nat) /\ <<>> \in Seq(Nat) /\ ShapeOf(b)
  BY PartTypes, EmptySeq DEF Shapes
<1>1. BatcherTypes'
  BY <1>0 DEF BatcherTypes, Flush
<1>2. /\ arrived'[b] = <<>> /\ arrived[b] = <<>> /\ batch[b] = <<>>
      /\ queue'[b] = <<>> /\ batch'[b] = queue[b] /\ timer'[b] = FALSE /\ stage'[b] = s
  BY <1>0 DEF BatcherTypes, Flush, ShapeOf, Flushing
<1>3. ShapeOf(b)'
  BY <1>2 DEF ShapeOf, Flushing
<1>4. Held(b)' = Held(b)
  BY <1>0, <1>2, EmptyParts DEF Held
<1>5. \A d \in Batchers \ {b} : Untouched(d)
  BY DEF Untouched, BatcherTypes, Flush
<1> QED BY <1>1, <1>3, <1>4, <1>5, UntouchedKeeps

\* destroy() up to its first await changes nothing of what is held.
LEMMA DestroyEffect ==
  ASSUME BatcherTypes, Shapes, NEW b, NEW ended \in BOOLEAN, Destroy(b, ended)
  PROVE  /\ BatcherTypes' /\ Shapes' /\ b \in Batchers
         /\ \A d \in Batchers : Held(d)' = Held(d)
         /\ \A d \in Batchers \ {b} : stage'[d] = stage[d]
         /\ stage[b] = "open"
         /\ stage'[b] \in (IF ended THEN {"destroyed"} ELSE {"waiting", "flushing"})
         /\ stage'[b] = "destroyed" => Held(b) = <<>>
<1>0. /\ b \in Batchers /\ stage[b] = "open" /\ UNCHANGED arrived
      /\ queue[b] \in Seq(Nat) /\ arrived[b] \in Seq(Nat) /\ batch[b] \in Seq(Nat)
      /\ ShapeOf(b)
  BY PartTypes DEF Destroy, IsOpen, Shapes
<1>1. CASE Flushing(b) /\ ~ended /\ stage' = [stage EXCEPT ![b] = "waiting"]
           /\ timer' = [timer EXCEPT ![b] = FALSE] /\ UNCHANGED <<queue, batch>>
  <2>1. BatcherTypes'
    BY <1>0, <1>1 DEF BatcherTypes
  <2>2. timer'[b] = FALSE /\ stage'[b] = "waiting"
    BY <1>0, <1>1 DEF BatcherTypes
  <2>3. ShapeOf(b)'
    BY <1>0, <1>1, <2>2 DEF ShapeOf, Flushing
  <2>4. \A d \in Batchers \ {b} : Untouched(d)
    BY <1>0, <1>1 DEF Untouched, BatcherTypes
  <2>5. Held(b)' = Held(b)
    BY <1>0, <1>1 DEF Held
  <2> QED BY <1>0, <1>1, <2>1, <2>2, <2>3, <2>4, <2>5, UntouchedKeeps
<1>2. CASE ~Flushing(b) /\ queue[b] # <<>> /\ ~ended
           /\ stage' = [stage EXCEPT ![b] = "flushing"] /\ Flush(b, queue[b])
  <2>1. stage'[b] = "flushing" /\ \A d \in Batchers \ {b} : stage'[d] = stage[d]
    BY <1>0, <1>2 DEF BatcherTypes
  <2>2. BatcherTypes' /\ Shapes' /\ \A d \in Batchers : Held(d)' = Held(d)
    BY <1>0, <1>2, FlushEffect
  <2> QED BY <1>0, <1>2, <2>1, <2>2
<1>3. CASE ~Flushing(b) /\ queue[b] = <<>> /\ ended
           /\ stage' = [stage EXCEPT ![b] = "destroyed"] /\ UNCHANGED <<queue, batch, timer>>
  <2>1. BatcherTypes'
    BY <1>0, <1>3 DEF BatcherTypes
  <2>2. stage'[b] = "destroyed" /\ timer'[b] = timer[b]
    BY <1>0, <1>3 DEF BatcherTypes
  <2>3. ShapeOf(b)'
    BY <1>0, <1>3, <2>2 DEF ShapeOf, Flushing
  <2>4. \A d \in Batchers \ {b} : Untouched(d)
    BY <1>0, <1>3 DEF Untouched, BatcherTypes
  <2>5. Held(b)' = Held(b)
    BY <1>0, <1>3 DEF Held
  <2>6. Held(b) = <<>>
    BY <1>0, <1>3, EmptyParts DEF Held, ShapeOf, Flushing
  <2> QED BY <1>0, <1>3, <2>1, <2>2, <2>3, <2>4, <2>5, <2>6, UntouchedKeeps
<1> QED BY <1>1, <1>2, <1>3 DEF Destroy

\* After an XADD a batcher holds what the reply has left in its queue.
LEMMA AfterFlushEffect ==
  ASSUME BatcherTypes, Shapes, NEW b \in Batchers, NEW q \in Seq(Nat),
         Flushing(b), AfterFlush(b, q)
  PROVE  /\ BatcherTypes' /\ Shapes'
         /\ Held(b)' = q
         /\ \A d \in Batchers \ {b} : Held(d)' = Held(d) /\ stage'[d] = stage[d]
         /\ stage[b] \in {"open", "waiting", "flushing"}
         /\ stage[b] = "open" => stage'[b] = "open"
         /\ stage[b] = "waiting" => stage'[b] = IF q = <<>> THEN "destroyed" ELSE "flushing"
         /\ stage[b] = "flushing" => stage'[b] = "destroyed"
<1>0. /\ queue[b] = <<>> /\ ~timer[b] /\ stage[b] \in {"open", "waiting", "flushing"}
      /\ <<>> \in Seq(Nat)
  BY EmptySeq DEF Shapes, ShapeOf
<1>1. arrived' = [arrived EXCEPT ![b] = <<>>]
  BY DEF AfterFlush
<1>2. CASE stage[b] = "waiting" /\ q # <<>> /\ Flush(b, q)
           /\ stage' = [stage EXCEPT ![b] = "flushing"]
  <2>1. BatcherTypes'
    BY <1>0, <1>1, <1>2 DEF BatcherTypes, Flush
  <2>2. /\ arrived'[b] = <<>> /\ queue'[b] = <<>> /\ batch'[b] = q
        /\ timer'[b] = FALSE /\ stage'[b] = "flushing"
    BY <1>1, <1>2 DEF BatcherTypes, Flush
  <2>3. ShapeOf(b)'
    BY <1>2, <2>2 DEF ShapeOf, Flushing
  <2>4. Held(b)' = q
    BY <1>0, <2>2, EmptyParts DEF Held
  <2>5. \A d \in Batchers \ {b} : Untouched(d)
    BY <1>1, <1>2 DEF Untouched, BatcherTypes, Flush
  <2> QED BY <1>0, <1>2, <2>1, <2>2, <2>3, <2>4, <2>5, UntouchedKeeps
<1>3. CASE /\ ~(stage[b] = "waiting" /\ q # <<>>)
           /\ batch' = [batch EXCEPT ![b] = <<>>] /\ queue' = [queue EXCEPT ![b] = q]
           /\ UNCHANGED timer
           /\ \/ stage[b] = "open" /\ UNCHANGED stage
              \/ stage[b] # "open" /\ stage' = [stage EXCEPT ![b] = "destroyed"]
  <2>1. BatcherTypes'
    BY <1>0, <1>1, <1>3 DEF BatcherTypes
  <2>2. /\ arrived'[b] = <<>> /\ queue'[b] = q /\ batch'[b] = <<>> /\ timer'[b] = timer[b]
        /\ stage'[b] = IF stage[b] = "open" THEN "open" ELSE "destroyed"
    BY <1>1, <1>3 DEF BatcherTypes
  <2>3. ShapeOf(b)'
    BY <1>0, <2>2 DEF ShapeOf, Flushing
  <2>4. Held(b)' = q
    BY <1>0, <2>2, EmptyParts DEF Held
  <2>5. \A d \in Batchers \ {b} : Untouched(d)
    BY <1>1, <1>3 DEF Untouched, BatcherTypes
  <2> QED BY <1>0, <1>3, <2>1, <2>2, <2>3, <2>4, <2>5, UntouchedKeeps
<1> QED BY <1>2, <1>3 DEF AfterFlush

\* A batcher that is created holds nothing.
LEMMA OpenEffect ==
  ASSUME BatcherTypes, Shapes, NEW b \in Batchers, stage[b] = "unused",
         stage' = [stage EXCEPT ![b] = "open"], UNCHANGED <<queue, arrived, batch, timer>>
  PROVE  /\ BatcherTypes' /\ Shapes' /\ stage'[b] = "open"
         /\ \A d \in Batchers : Held(d)' = Held(d)
         /\ \A d \in Batchers \ {b} : stage'[d] = stage[d]
<1>1. BatcherTypes' /\ stage'[b] = "open"
  BY DEF BatcherTypes
<1>2. ShapeOf(b)
  BY DEF Shapes
<1>3. ShapeOf(b)'
  BY <1>1, <1>2 DEF ShapeOf, Flushing
<1>4. \A d \in Batchers \ {b} : Untouched(d)
  BY DEF Untouched, BatcherTypes
<1>5. Held(b)' = Held(b)
  BY DEF Held
<1> QED BY <1>1, <1>3, <1>4, <1>5, UntouchedKeeps

-----------------------------------------------------------------------------
(* The steps.                                                                   *)

\* What batchers hold is typed.
LEMMA BooksTyped ==
  ASSUME PublishTypeOK
  PROVE  BookTypes
BY PartTypes DEF PublishTypeOK, BatcherTypes, BookTypes

\* The last XADD of a chain's batcher has been answered: the chains it held up stop.
LEMMA ReleasedEffect ==
  ASSUME ChainTypes, HandlesKnown, NEW b \in Batchers, Released(b),
         \A d \in Batchers \ {b} : stage'[d] = stage[d], UNCHANGED <<restarts, closedBy>>
  PROVE  ChainTypes' /\ HandlesKnown' /\ (manager' = "up" => manager = "up")
<1>1. \A c \in Chains : /\ chain'[c] \in {chain[c], "off"}
                       /\ handle'[c] \in {handle[c], NoBatcher}
  BY DEF Released, Stopped
<1>2. ChainTypes'
  BY DEF Released, Stopped, ChainTypes
<1>3. \A c \in Chains : chain'[c] \in {"running", "destroying"} =>
         /\ chain'[c] = chain[c] /\ handle'[c] = handle[c]
         /\ chain'[c] = "destroying" => handle[c] # b
  BY DEF Released, Stopped
<1>4. HandlesKnown'
  BY <1>3 DEF HandlesKnown
<1> QED BY <1>2, <1>4 DEF Released

\* The step begins no destroy(), and a chain that runs after it ran before it or
\* has an open batcher.
ClosesNone ==
  /\ manager' = "up" => manager = "up"
  /\ UNCHANGED closedBy
  /\ \A b \in Batchers :
      /\ stage[b] \in {"unused", "open"} <=> stage'[b] \in {"unused", "open"}
      /\ stage'[b] = "unused" => stage[b] = "unused"
  /\ \A c \in Chains : chain'[c] = "running" =>
        IsOpen(handle[c])' \/ (chain[c] = "running" /\ handle'[c] = handle[c])

LEMMA ClosersStay ==
  ASSUME HandlesKnown, ClosersKnown, ClosesNone
  PROVE  ClosersKnown'
<1>1. \A b \in Batchers :
        /\ stage'[b] \in {"unused", "open"} => closedBy'[b] = {}
        /\ manager' = "up" /\ stage'[b] \notin {"unused", "open"} => closedBy'[b] # {}
  BY DEF ClosersKnown, ClosesNone
<1>2. ASSUME NEW c \in Chains, chain'[c] = "running"
      PROVE  stage'[handle'[c]] # "unused" /\ c \notin closedBy'[handle'[c]]
  <2>1. CASE IsOpen(handle[c])'
    BY <1>1, <2>1 DEF IsOpen
  <2>2. CASE chain[c] = "running" /\ handle'[c] = handle[c]
    <3>1. handle[c] \in Batchers /\ stage[handle[c]] # "unused" /\ c \notin closedBy[handle[c]]
      BY <2>2 DEF HandlesKnown, ClosersKnown
    <3> QED BY <2>2, <3>1 DEF ClosesNone
  <2> QED BY <1>2, <2>1, <2>2 DEF ClosesNone
<1> QED BY <1>1, <1>2 DEF ClosersKnown

\* A publish keeps the invariant.
LEMMA PublishKeeps ==
  ASSUME PublishInv, NEW c \in Chains, Publish(c)
  PROVE  PublishInv'
<1>0. handle[c] \in Batchers
  BY DEF Publish, IsOpen
<1> PICK b \in Batchers : b = handle[c]
  BY <1>0
<1>1. /\ stage[b] = "open" /\ via' = Append(via, b)
      /\ UNCHANGED <<chain, handle, restarts, closedBy, manager, registered, stage, stream, lost>>
  BY DEF Publish, IsOpen, chainVars, processVars
<1>2. Len(via') = Len(via) + 1 /\ Len(via) + 1 \in Nat /\ via' \in Seq(Batchers)
  <2>1. via \in Seq(Batchers)
    BY DEF PublishInv, PublishTypeOK
  <2> QED BY <1>1, <2>1, AppendProperties, LenProperties
<1>3. Add(b, Len(via) + 1)
  BY <1>2 DEF Publish
<1>4. /\ BatcherTypes' /\ Shapes'
      /\ Held(b)' = Append(Held(b), Len(via) + 1)
      /\ \A d \in Batchers \ {b} : Held(d)' = Held(d)
  BY <1>1, <1>2, <1>3, AddEffect DEF PublishInv, PublishTypeOK
<1>5. BooksKept'
  <2>1. Accepts(b)
    BY <1>1, <1>4 DEF Accepts
  <2> QED BY <1>1, <2>1, BooksTyped, AcceptsKeepsBooks DEF PublishInv
<1>6. PublishTypeOK' /\ HandlesKnown'
  BY <1>1, <1>2, <1>4 DEF PublishInv, PublishTypeOK, ChainTypes, HandlesKnown
<1>7. ClosersKnown'
  <2>1. ClosesNone
    BY <1>1 DEF ClosesNone
  <2> QED BY <2>1, ClosersStay DEF PublishInv
<1> QED BY <1>4, <1>5, <1>6, <1>7 DEF PublishInv

\* A step that moves nothing between the queues, and destroys only what is empty.
LEMMA MovesNothing ==
  ASSUME PublishInv, BatcherTypes', Keeps
  PROVE  BooksKept' /\ (ChainTypes' => PublishTypeOK')
<1>1. BooksKept'
  BY BooksTyped, KeepsKeepsBooks DEF PublishInv
<1>2. UNCHANGED <<stream, via>>
  BY DEF Keeps
<1> QED BY <1>1, <1>2 DEF PublishInv, PublishTypeOK

\* A flush by the timer keeps the invariant.
LEMMA FlushTimerKeeps ==
  ASSUME PublishInv, NEW b \in Batchers, FlushTimer(b)
  PROVE  PublishInv'
<1>1. /\ Flush(b, queue[b]) /\ UNCHANGED <<stage, arrived, stream, via, lost>>
      /\ UNCHANGED <<chain, handle, restarts, closedBy, manager, registered>>
  BY DEF FlushTimer, chainVars, processVars, streamVars
<1>2. queue[b] # <<>> /\ ~Flushing(b) /\ stage[b] = "open"
  BY DEF FlushTimer, PublishInv, Shapes, ShapeOf
<1>3. stage' = [stage EXCEPT ![b] = "open"]
  BY <1>1, <1>2 DEF PublishInv, PublishTypeOK, BatcherTypes
<1>4. BatcherTypes' /\ Shapes' /\ \A d \in Batchers : Held(d)' = Held(d)
  BY <1>1, <1>2, <1>3, FlushEffect DEF PublishInv, PublishTypeOK
<1>5. BooksKept' /\ (ChainTypes' => PublishTypeOK')
  <2>1. Keeps
    BY <1>1, <1>4 DEF Keeps
  <2> QED BY <1>4, <2>1, MovesNothing
<1>6. ChainTypes' /\ HandlesKnown'
  BY <1>1 DEF PublishInv, PublishTypeOK, ChainTypes, HandlesKnown
<1>7. ClosersKnown'
  <2>1. ClosesNone
    BY <1>1 DEF ClosesNone
  <2> QED BY <2>1, ClosersStay DEF PublishInv
<1> QED BY <1>4, <1>5, <1>6, <1>7 DEF PublishInv

\* What the end of an XADD does besides the books.
LEMMA AfterFlushKeeps ==
  ASSUME PublishInv, NEW b \in Batchers, NEW q \in Seq(Nat), Flushing(b),
         AfterFlush(b, q), UNCHANGED <<restarts, closedBy>>
  PROVE  ChainTypes' /\ HandlesKnown' /\ ClosersKnown'
<1>1. /\ \A d \in Batchers \ {b} : stage'[d] = stage[d]
      /\ stage[b] = "open" => stage'[b] = "open"
      /\ stage[b] = "waiting" => stage'[b] = IF q = <<>> THEN "destroyed" ELSE "flushing"
      /\ stage[b] = "flushing" => stage'[b] = "destroyed"
      /\ stage[b] \in {"open", "waiting", "flushing"}
  BY AfterFlushEffect DEF PublishInv, PublishTypeOK
<1>2. CASE UNCHANGED <<chain, handle, manager, registered>>
           /\ ((stage[b] = "waiting" /\ q # <<>>) \/ stage[b] = "open")
  <2>1. ChainTypes'
    BY <1>2 DEF PublishInv, PublishTypeOK, ChainTypes
  <2>2. \A d \in Batchers : stage[d] \in {"waiting", "flushing"} =>
            stage'[d] \in {"waiting", "flushing"}
    BY <1>1, <1>2
  <2>3. HandlesKnown'
    BY <1>2, <2>2 DEF PublishInv, HandlesKnown
  <2>4. ClosesNone
    BY <1>1, <1>2 DEF ClosesNone
  <2> QED BY <2>1, <2>3, <2>4, ClosersStay DEF PublishInv
<1>3. CASE Released(b)
  <2>1. ChainTypes' /\ HandlesKnown' /\ (manager' = "up" => manager = "up")
    BY <1>1, <1>3, ReleasedEffect DEF PublishInv, PublishTypeOK
  <2>2. \A c \in Chains : chain'[c] = "running" =>
            chain[c] = "running" /\ handle'[c] = handle[c]
    BY <1>3 DEF Released, Stopped
  <2>3. ClosesNone
    BY <1>1, <2>1, <2>2 DEF ClosesNone
  <2> QED BY <2>1, <2>3, ClosersStay DEF PublishInv
<1> QED BY <1>2, <1>3 DEF AfterFlush

\* An XADD that succeeds keeps the invariant.
LEMMA XaddSucceedsKeeps ==
  ASSUME PublishInv, NEW b \in Batchers, XaddSucceeds(b)
  PROVE  PublishInv'
<1>0. /\ queue[b] \in Seq(Nat) /\ arrived[b] \in Seq(Nat) /\ batch[b] \in Seq(Nat)
      /\ queue[b] = <<>> /\ Flushing(b)
      /\ stage[b] = "flushing" => arrived[b] = <<>>
  BY PartTypes DEF XaddSucceeds, PublishInv, PublishTypeOK, Shapes, ShapeOf
<1>1. /\ AfterFlush(b, arrived[b]) /\ stream' = stream \o batch[b]
      /\ UNCHANGED <<restarts, closedBy, via, lost>>
  BY DEF XaddSucceeds
<1>2. /\ BatcherTypes' /\ Shapes'
      /\ Held(b)' = arrived[b]
      /\ \A d \in Batchers \ {b} : Held(d)' = Held(d) /\ stage'[d] = stage[d]
      /\ stage[b] \in {"open", "waiting", "flushing"}
      /\ stage'[b] = "destroyed" => arrived[b] = <<>>
  BY <1>0, <1>1, AfterFlushEffect DEF PublishInv, PublishTypeOK
<1>3. Held(b) = batch[b] \o arrived[b]
  BY <1>0, EmptyParts DEF Held
<1>4. Sends(b)
  BY <1>0, <1>1, <1>2, <1>3 DEF Sends
<1>5. BooksKept'
  BY <1>4, BooksTyped, SendsKeepsBooks DEF PublishInv
<1>6. ChainTypes' /\ HandlesKnown' /\ ClosersKnown'
  BY <1>0, <1>1, AfterFlushKeeps
<1>7. stream' \in Seq(Nat)
  BY <1>0, <1>1, ConcatProperties DEF PublishInv, PublishTypeOK
<1> QED BY <1>1, <1>2, <1>5, <1>6, <1>7 DEF PublishInv, PublishTypeOK

\* An XADD that fails keeps the invariant.
LEMMA XaddFailsKeeps ==
  ASSUME PublishInv, NEW b \in Batchers, XaddFails(b)
  PROVE  PublishInv'
<1>0. /\ queue[b] \in Seq(Nat) /\ arrived[b] \in Seq(Nat) /\ batch[b] \in Seq(Nat)
      /\ queue[b] = <<>> /\ Flushing(b)
      /\ stage[b] = "flushing" => arrived[b] = <<>>
  BY PartTypes DEF XaddFails, PublishInv, PublishTypeOK, Shapes, ShapeOf
<1>1. /\ AfterFlush(b, Requeued(b)) /\ stream' \in {stream, stream \o batch[b]}
      /\ UNCHANGED <<restarts, closedBy, via>>
      /\ lost' = IF stage[b] = "flushing" THEN lost \cup ToSet(batch[b]) ELSE lost
  BY DEF XaddFails
<1>2. /\ Held(b) = batch[b] \o arrived[b] /\ Requeued(b) = Held(b)
      /\ Requeued(b) \in Seq(Nat)
      /\ stage[b] = "flushing" => Held(b) = batch[b]
  <2>1. Held(b) = batch[b] \o arrived[b]
    BY <1>0, EmptyParts DEF Held
  <2>2. Requeued(b) \in Seq(Nat)
    BY <1>0, ConcatProperties DEF Requeued
  <2>3. arrived[b] = <<>> => batch[b] \o arrived[b] = batch[b]
    BY <1>0, ConcatEmptySeq
  <2> QED BY <1>0, <2>1, <2>2, <2>3 DEF Requeued
<1>3. Requeued(b) # <<>>
  BY <1>0, ConcatEqualIffEmpty DEF Requeued, Flushing
<1>4. /\ BatcherTypes' /\ Shapes'
      /\ Held(b)' = Requeued(b)
      /\ \A d \in Batchers \ {b} : Held(d)' = Held(d) /\ stage'[d] = stage[d]
      /\ stage[b] \in {"open", "waiting", "flushing"}
      /\ stage'[b] = "destroyed" <=> stage[b] = "flushing"
  BY <1>0, <1>1, <1>2, <1>3, AfterFlushEffect DEF PublishInv, PublishTypeOK
<1>5. Misses(b)
  BY <1>0, <1>1, <1>2, <1>4 DEF Misses
<1>6. BooksKept'
  BY <1>5, BooksTyped, MissesKeepsBooks DEF PublishInv
<1>7. ChainTypes' /\ HandlesKnown' /\ ClosersKnown'
  BY <1>0, <1>1, <1>2, AfterFlushKeeps
<1>8. stream' \in Seq(Nat)
  <2>1. stream \in Seq(Nat)
    BY DEF PublishInv, PublishTypeOK
  <2>2. stream \o batch[b] \in Seq(Nat)
    BY <1>0, <2>1, ConcatProperties
  <2> QED BY <1>1, <2>1, <2>2
<1> QED BY <1>1, <1>4, <1>6, <1>7, <1>8 DEF PublishInv, PublishTypeOK

\* A step that leaves the batchers and the stream alone keeps what is known of them.
LEMMA QuietKeeps ==
  ASSUME PublishInv, UNCHANGED batcherVars, UNCHANGED <<stream, via, lost>>
  PROVE  /\ BatcherTypes' /\ Shapes' /\ BooksKept'
         /\ ChainTypes' => PublishTypeOK'
         /\ \A b \in Batchers : stage'[b] = stage[b]
<1>1. UNCHANGED <<stage, queue, arrived, batch, timer>>
  BY DEF batcherVars
<1>2. BatcherTypes'
  BY <1>1 DEF PublishInv, PublishTypeOK, BatcherTypes
<1>3. Shapes'
  BY <1>1, Zenon DEF PublishInv, Shapes, ShapeOf, Flushing
<1>4. Keeps
  BY <1>1 DEF Keeps, Held
<1> QED BY <1>1, <1>2, <1>3, <1>4, MovesNothing

\* destroy() up to its first await, by a chain or by the client.
LEMMA DestroyKeeps ==
  ASSUME PublishInv, NEW b, NEW ended \in BOOLEAN, Destroy(b, ended),
         UNCHANGED <<stream, via, lost>>
  PROVE  /\ BatcherTypes' /\ Shapes' /\ BooksKept'
         /\ ChainTypes' => PublishTypeOK'
         /\ \A d \in Batchers \ {b} : stage'[d] = stage[d]
         /\ stage[b] = "open" /\ b \in Batchers
         /\ ~ended => stage'[b] \in {"waiting", "flushing"}
         /\ ended => stage'[b] = "destroyed"
<1>1. /\ BatcherTypes' /\ Shapes' /\ b \in Batchers
      /\ \A d \in Batchers : Held(d)' = Held(d)
      /\ \A d \in Batchers \ {b} : stage'[d] = stage[d]
      /\ stage[b] = "open"
      /\ stage'[b] \in (IF ended THEN {"destroyed"} ELSE {"waiting", "flushing"})
      /\ stage'[b] = "destroyed" => Held(b) = <<>>
  BY DestroyEffect DEF PublishInv, PublishTypeOK
<1>2. Keeps
  BY <1>1 DEF Keeps
<1> QED BY <1>1, <1>2, MovesNothing

\* The chain that begins the destroy() of its batcher runs no more.
LEMMA StopCloses ==
  ASSUME HandlesKnown, ClosersKnown, closedBy \in [Batchers -> SUBSET Chains],
         NEW c \in Chains, NEW b \in Batchers, chain[c] = "running", b = handle[c],
         closedBy' = IF IsOpen(b) THEN [closedBy EXCEPT ![b] = {c}] ELSE closedBy,
         \A d \in Batchers \ {b} : stage'[d] = stage[d],
         IF stage[b] = "open" THEN stage'[b] \in {"waiting", "flushing", "destroyed"}
                              ELSE stage'[b] = stage[b],
         manager' = "up" => manager = "up",
         \A d \in Chains : chain'[d] = "running" =>
            d # c /\ chain[d] = "running" /\ handle'[d] = handle[d]
  PROVE  ClosersKnown'
<1>1. stage[b] # "unused"
  BY DEF ClosersKnown
<1>2. ASSUME NEW d \in Batchers
      PROVE  /\ stage'[d] \in {"unused", "open"} => closedBy'[d] = {}
             /\ manager' = "up" /\ stage'[d] \notin {"unused", "open"} => closedBy'[d] # {}
  <2>1. CASE d = b
    BY <1>1, <2>1 DEF ClosersKnown, IsOpen
  <2>2. CASE d # b
    BY <2>2 DEF ClosersKnown
  <2> QED BY <2>1, <2>2
<1>3. ASSUME NEW d \in Chains, chain'[d] = "running"
      PROVE  stage'[handle'[d]] # "unused" /\ d \notin closedBy'[handle'[d]]
  <2>1. /\ d # c /\ handle'[d] = handle[d] /\ handle[d] \in Batchers
        /\ stage[handle[d]] # "unused" /\ d \notin closedBy[handle[d]]
    BY <1>3 DEF HandlesKnown, ClosersKnown
  <2>2. CASE handle[d] = b
    BY <2>1, <2>2 DEF IsOpen
  <2>3. CASE handle[d] # b
    BY <2>1, <2>3
  <2> QED BY <2>2, <2>3
<1> QED BY <1>2, <1>3 DEF ClosersKnown

\* The stop of chain c leaves the others as they are.
LEMMA StopChainKeeps ==
  ASSUME PublishInv, NEW c \in Chains, StopChain(c), UNCHANGED <<stream, via, lost, registered>>,
         restarts' \in [Chains -> Nat], manager' = "up" => manager = "up"
  PROVE  PublishInv'
<1>0. /\ chain[c] = "running" /\ handle[c] \in Batchers
      /\ chain \in [Chains -> {"starting", "running", "destroying", "off"}]
      /\ handle \in [Chains -> Batchers \cup {NoBatcher}]
      /\ registered \in Batchers \cup {NoBatcher}
      /\ closedBy \in [Batchers -> SUBSET Chains]
  BY DEF StopChain, PublishInv, HandlesKnown, PublishTypeOK, ChainTypes
<1> PICK b \in Batchers : b = handle[c]
  BY <1>0
<1>c. closedBy' = IF IsOpen(b) THEN [closedBy EXCEPT ![b] = {c}] ELSE closedBy
  BY DEF StopChain
<1>1. ASSUME Destroy(b, FALSE), chain' = [chain EXCEPT ![c] = "destroying"],
             UNCHANGED <<handle, dead>>
      PROVE  PublishInv'
  <2>1. /\ Shapes' /\ BooksKept' /\ (ChainTypes' => PublishTypeOK')
        /\ \A d \in Batchers \ {b} : stage'[d] = stage[d]
        /\ stage'[b] \in {"waiting", "flushing"}
    BY <1>1, DestroyKeeps
  <2>2. ChainTypes' /\ chain'[c] = "destroying" /\ stage[b] = "open"
    BY <1>0, <1>c, <1>1 DEF ChainTypes, Destroy, IsOpen
  <2>3. HandlesKnown'
    <3> SUFFICES ASSUME NEW d \in Chains, chain'[d] \in {"running", "destroying"}
                 PROVE  /\ handle'[d] \in Batchers
                        /\ chain'[d] = "destroying" => stage'[handle'[d]] \in {"waiting", "flushing"}
      BY DEF HandlesKnown
    <3>1. CASE d = c
      BY <1>0, <1>1, <2>1, <3>1
    <3>2. CASE d # c
      <4>1. chain'[d] = chain[d] /\ handle'[d] = handle[d]
        BY <1>0, <1>1, <3>2
      <4> QED BY <2>1, <4>1 DEF PublishInv, HandlesKnown
    <3> QED BY <3>1, <3>2
  <2>4. \A d \in Chains : chain'[d] = "running" =>
            d # c /\ chain[d] = "running" /\ handle'[d] = handle[d]
    BY <1>0, <1>1
  <2>5. ClosersKnown'
    BY <1>0, <1>c, <2>1, <2>2, <2>4, StopCloses DEF PublishInv
  <2> QED BY <2>1, <2>2, <2>3, <2>5 DEF PublishInv
<1>2. ASSUME Stopped({c}),
             /\ Shapes' /\ BooksKept' /\ (ChainTypes' => PublishTypeOK')
             /\ \A d \in Batchers \ {b} : stage'[d] = stage[d]
             /\ IF stage[b] = "open" THEN stage'[b] = "destroyed" ELSE stage'[b] = stage[b]
      PROVE  PublishInv'
  <2>1. ChainTypes' /\ chain'[c] = "off"
    BY <1>0, <1>c, <1>2 DEF ChainTypes, Stopped
  <2>2. HandlesKnown'
    <3> SUFFICES ASSUME NEW d \in Chains, chain'[d] \in {"running", "destroying"}
                 PROVE  /\ handle'[d] \in Batchers
                        /\ chain'[d] = "destroying" => stage'[handle'[d]] \in {"waiting", "flushing"}
      BY DEF HandlesKnown
    <3>1. d # c /\ chain'[d] = chain[d] /\ handle'[d] = handle[d]
      BY <1>2 DEF Stopped
    <3>2. /\ handle[d] \in Batchers
          /\ chain[d] = "destroying" => stage[handle[d]] \in {"waiting", "flushing"}
      BY <3>1 DEF PublishInv, HandlesKnown
    <3>3. handle[d] = b => chain[d] # "destroying" \/ stage[b] # "open"
      BY <3>2
    <3> QED BY <1>2, <3>1, <3>2, <3>3
  <2>3. \A d \in Chains : chain'[d] = "running" =>
            d # c /\ chain[d] = "running" /\ handle'[d] = handle[d]
    BY <1>2 DEF Stopped
  <2>4. ClosersKnown'
    BY <1>0, <1>c, <1>2, <2>3, StopCloses DEF PublishInv
  <2> QED BY <1>2, <2>1, <2>2, <2>4 DEF PublishInv
<1>3. CASE Destroy(b, TRUE) /\ Stopped({c})
  BY <1>2, <1>3, DestroyKeeps
<1>4. CASE ~IsOpen(b) /\ UNCHANGED batcherVars /\ Stopped({c})
  BY <1>2, <1>4, QuietKeeps DEF IsOpen
<1> QED BY <1>1, <1>3, <1>4 DEF StopChain

\* The start of a chain that succeeds.
LEMMA StartSucceedsKeeps ==
  ASSUME PublishInv, NEW c \in Chains, StartSucceeds(c)
  PROVE  PublishInv'
<1>0. /\ UNCHANGED <<closedBy, manager, queue, arrived, batch, timer, stream, via, lost>>
      /\ restarts' = Recovered(c)
      /\ chain' = [chain EXCEPT ![c] = "running"]
      /\ handle' = [handle EXCEPT ![c] = registered']
      /\ chain \in [Chains -> {"starting", "running", "destroying", "off"}]
      /\ handle \in [Chains -> Batchers \cup {NoBatcher}]
      /\ restarts \in [Chains -> Nat]
      /\ closedBy \in [Batchers -> SUBSET Chains]
  BY DEF StartSucceeds, streamVars, PublishInv, PublishTypeOK, ChainTypes
<1>1. /\ registered' \in Batchers /\ stage'[registered'] = "open"
      /\ \A d \in Batchers :
            stage'[d] = stage[d] \/ (stage[d] = "unused" /\ stage'[d] = "open")
      /\ Shapes' /\ BooksKept' /\ (ChainTypes' => PublishTypeOK')
  <2>1. CASE MayShare /\ UNCHANGED <<registered, stage>>
    <3>1. UNCHANGED batcherVars
      BY <1>0, <2>1 DEF batcherVars
    <3> QED BY <1>0, <2>1, <3>1, QuietKeeps DEF MayShare, IsOpen
  <2>2. CASE /\ registered' \in {b \in Batchers : stage[b] = "unused"}
             /\ stage' = [stage EXCEPT ![registered'] = "open"]
    <3> PICK b \in Batchers : b = registered'
      BY <2>2
    <3>1. /\ BatcherTypes' /\ Shapes' /\ stage'[b] = "open"
          /\ \A d \in Batchers : Held(d)' = Held(d)
          /\ \A d \in Batchers \ {b} : stage'[d] = stage[d]
      BY <1>0, <2>2, OpenEffect DEF PublishInv, PublishTypeOK
    <3>2. Keeps
      BY <1>0, <2>2, <3>1 DEF Keeps
    <3> QED BY <2>2, <3>1, <3>2, MovesNothing
  <2> QED BY <2>1, <2>2 DEF StartSucceeds
<1>2. ChainTypes'
  <2>1. restarts' \in [Chains -> Nat]
    BY <1>0 DEF Recovered
  <2> QED BY <1>0, <1>1, <2>1 DEF ChainTypes
<1>3. \A d \in Chains : IF d = c THEN chain'[d] = "running" /\ handle'[d] = registered'
                                ELSE chain'[d] = chain[d] /\ handle'[d] = handle[d]
  BY <1>0
<1>4. HandlesKnown'
  <2> SUFFICES ASSUME NEW d \in Chains, chain'[d] \in {"running", "destroying"}
               PROVE  /\ handle'[d] \in Batchers
                      /\ chain'[d] = "destroying" => stage'[handle'[d]] \in {"waiting", "flushing"}
    BY DEF HandlesKnown
  <2>1. CASE d = c
    BY <1>1, <1>3, <2>1
  <2>2. CASE d # c
    <3>1. /\ handle[d] \in Batchers
          /\ chain[d] = "destroying" => stage[handle[d]] \in {"waiting", "flushing"}
      BY <1>3, <2>2 DEF PublishInv, HandlesKnown
    <3> QED BY <1>1, <1>3, <2>2, <3>1
  <2> QED BY <2>1, <2>2
<1>5. ClosesNone
  BY <1>0, <1>1, <1>3 DEF ClosesNone, IsOpen
<1> QED BY <1>1, <1>2, <1>4, <1>5, ClosersStay DEF PublishInv

\* A step of the chains that touches no batcher and lets none run that did not.
LEMMA ChainOnlyKeeps ==
  ASSUME PublishInv, UNCHANGED batcherVars, UNCHANGED <<stream, via, lost>>,
         ChainTypes', UNCHANGED <<closedBy, handle>>, manager' = "up" => manager = "up",
         \A c \in Chains : chain'[c] \in {"running", "destroying"} => chain'[c] = chain[c]
  PROVE  PublishInv'
<1>1. /\ BatcherTypes' /\ Shapes' /\ BooksKept' /\ PublishTypeOK'
      /\ \A b \in Batchers : stage'[b] = stage[b]
  BY QuietKeeps
<1>2. HandlesKnown'
  BY <1>1 DEF HandlesKnown, PublishInv
<1>3. ClosesNone
  BY <1>1 DEF ClosesNone
<1> QED BY <1>1, <1>2, <1>3, ClosersStay DEF PublishInv

\* The stop of a chain by the watchdog.
LEMMA WatchdogStopsKeeps ==
  ASSUME PublishInv, NEW c \in Chains, WatchdogStops(c)
  PROVE  PublishInv'
<1>1. /\ UNCHANGED <<manager, registered, stream, via, lost>>
      /\ restarts' = [restarts EXCEPT ![c] = @ + 1]
      /\ restarts \in [Chains -> Nat]
  BY DEF WatchdogStops, processVars, streamVars, PublishInv, PublishTypeOK, ChainTypes
<1>2. restarts' \in [Chains -> Nat]
  BY <1>1
<1>3. CASE StopChain(c)
  BY <1>1, <1>2, <1>3, StopChainKeeps
<1>4. CASE UNCHANGED <<chain, handle, dead, closedBy, batcherVars>>
  <2>1. ChainTypes'
    BY <1>1, <1>2, <1>4 DEF ChainTypes, PublishInv, PublishTypeOK
  <2> QED BY <1>1, <1>4, <2>1, ChainOnlyKeeps
<1> QED BY <1>3, <1>4 DEF WatchdogStops

\* The stop of a chain by the shutdown.
LEMMA ManagerStopsKeeps ==
  ASSUME PublishInv, NEW c \in Chains, ManagerStops(c)
  PROVE  PublishInv'
<1>1. /\ UNCHANGED <<restarts, manager, registered, stream, via, lost>>
      /\ restarts' \in [Chains -> Nat]
  BY DEF ManagerStops, streamVars, PublishInv, PublishTypeOK, ChainTypes
<1>2. CASE StopChain(c)
  BY <1>1, <1>2, StopChainKeeps
<1>3. CASE UNCHANGED <<chain, handle, dead, closedBy, batcherVars>>
  <2>1. ChainTypes'
    BY <1>1, <1>3 DEF ChainTypes, PublishInv, PublishTypeOK
  <2> QED BY <1>1, <1>3, <2>1, ChainOnlyKeeps
<1> QED BY <1>2, <1>3 DEF ManagerStops

\* The disconnection of the client.
LEMMA DisconnectKeeps ==
  ASSUME PublishInv, Disconnect
  PROVE  PublishInv'
<1>1. /\ UNCHANGED <<chain, handle, restarts, closedBy, stream, via, lost>>
      /\ manager' # "up" /\ registered' \in {registered, NoBatcher}
  BY DEF Disconnect, chainVars, streamVars
<1>2. ChainTypes'
  BY <1>1 DEF ChainTypes, PublishInv, PublishTypeOK
<1>4. ASSUME NEW ended \in BOOLEAN, Destroy(registered, ended) PROVE PublishInv'
  <2>1. registered \in Batchers
    BY <1>4 DEF Destroy, IsOpen
  <2> PICK b \in Batchers : b = registered
    BY <2>1
  <2>2. Destroy(b, ended)
    BY <1>4
  <2>3. /\ Shapes' /\ BooksKept' /\ PublishTypeOK'
        /\ \A d \in Batchers \ {b} : stage'[d] = stage[d]
        /\ stage[b] = "open" /\ stage'[b] \in {"waiting", "flushing", "destroyed"}
    BY <1>1, <1>2, <2>2, DestroyKeeps
  <2>4. HandlesKnown'
    BY <1>1, <2>3 DEF HandlesKnown, PublishInv
  <2>5. ClosersKnown'
    BY <1>1, <2>3 DEF ClosersKnown, HandlesKnown, PublishInv
  <2> QED BY <2>3, <2>4, <2>5 DEF PublishInv
<1>5. CASE UNCHANGED batcherVars
  BY <1>1, <1>2, <1>5, ChainOnlyKeeps
<1> QED BY <1>4, <1>5 DEF Disconnect

\* The steps of the publishing keep the invariant.
LEMMA PublishStep ==
  ASSUME PublishInv, [PublishNext]_publishVars
  PROVE  PublishInv'
<1>1. CASE UNCHANGED publishVars
  <2>1. /\ UNCHANGED batcherVars /\ UNCHANGED <<stream, via, lost>>
        /\ UNCHANGED <<chain, handle, restarts, closedBy, manager, registered>>
    BY <1>1 DEF publishVars, chainVars, processVars, streamVars
  <2>2. ChainTypes'
    BY <2>1 DEF ChainTypes, PublishInv, PublishTypeOK
  <2> QED BY <2>1, <2>2, ChainOnlyKeeps
<1>2. ASSUME NEW c \in Chains, ChainStep(c) PROVE PublishInv'
  <2>1. CASE StartFails(c) \/ ConnectionLost(c) \/ Reconnected(c) \/ WatchdogStarts(c)
    <3>1. /\ UNCHANGED batcherVars /\ UNCHANGED <<stream, via, lost>>
          /\ UNCHANGED <<handle, closedBy, manager, registered>>
          /\ restarts' = restarts \/ restarts' = Recovered(c)
      BY <2>1 DEF StartFails, ConnectionLost, Reconnected, WatchdogStarts, processVars, streamVars
    <3>2. \E s \in {"off", "starting"} :
              chain' = [chain EXCEPT ![c] = s] \/ chain' = chain
      BY <2>1 DEF StartFails, ConnectionLost, Reconnected, WatchdogStarts
    <3>3. ChainTypes'
      <4>1. restarts' \in [Chains -> Nat]
        BY <3>1 DEF ChainTypes, Recovered, PublishInv, PublishTypeOK
      <4> QED BY <3>1, <3>2, <4>1 DEF ChainTypes, PublishInv, PublishTypeOK
    <3>4. \A d \in Chains : chain'[d] \in {"running", "destroying"} => chain'[d] = chain[d]
      BY <3>2 DEF ChainTypes, PublishInv, PublishTypeOK
    <3> QED BY <3>1, <3>3, <3>4, ChainOnlyKeeps
  <2> QED BY <1>2, <2>1, PublishKeeps, StartSucceedsKeeps, WatchdogStopsKeeps, ManagerStopsKeeps
          DEF ChainStep
<1>3. ASSUME NEW b \in Batchers, BatcherStep(b) PROVE PublishInv'
  BY <1>3, FlushTimerKeeps, XaddSucceedsKeeps, XaddFailsKeeps DEF BatcherStep
<1>4. CASE Shutdown
  <2>1. /\ UNCHANGED batcherVars /\ UNCHANGED <<stream, via, lost>>
        /\ UNCHANGED <<chain, handle, restarts, closedBy, registered>> /\ manager' = "stopping"
    BY <1>4 DEF Shutdown, chainVars, streamVars
  <2>2. ChainTypes'
    BY <2>1 DEF ChainTypes, PublishInv, PublishTypeOK
  <2> QED BY <2>1, <2>2, ChainOnlyKeeps
<1> QED BY <1>1, <1>2, <1>3, <1>4, DisconnectKeeps DEF PublishNext

\* Nothing is held or sent at first.
LEMMA PublishStarts ==
  ASSUME PublishInit
  PROVE  PublishInv
<1>1. /\ <<>> \in Seq(Nat) /\ <<>> \in Seq(Batchers) /\ DOMAIN <<>> = {}
  BY EmptySeq
<1>2. \A b \in Batchers : Held(b) = <<>>
  BY <1>1, EmptyParts DEF PublishInit, Held
<1>3. PublishTypeOK
  BY <1>1 DEF PublishInit, PublishTypeOK, ChainTypes, BatcherTypes
<1>4. HandlesKnown /\ Shapes
  BY DEF PublishInit, HandlesKnown, Shapes, ShapeOf, Flushing
<1>5. BooksKept
  BY <1>1, <1>2 DEF PublishInit, BooksKept, HeldInOrder, Rising, LostIsDestroyed, StreamIsAccepted,
                   NothingLost, SentInOrder
<1>6. ClosersKnown
  BY DEF PublishInit, ClosersKnown
<1> QED BY <1>3, <1>4, <1>5, <1>6 DEF PublishInv

-----------------------------------------------------------------------------
(* The results.                                                                 *)

\* The inductive invariant holds.
THEOREM PublishInvariant == PublishSpec => []PublishInv
BY PublishStarts, PublishStep, PTL DEF PublishSpec

\* NothingLost: however the XADDs of a batcher fail and whenever it is destroyed,
\* each update it has accepted is in the stream, still held, or counted as dropped.
THEOREM NoUpdateLost == PublishSpec => []NothingLost
<1>1. PublishInv => NothingLost
  BY DEF PublishInv, BooksKept
<1> QED BY <1>1, PublishInvariant, PTL

\* SentInOrder: the requeued batches and what arrives during an XADD never let an
\* update reach the stream before an older one of its batcher.
THEOREM NoUpdateOvertakes == PublishSpec => []SentInOrder
<1>1. PublishInv => SentInOrder
  BY DEF PublishInv, BooksKept
<1> QED BY <1>1, PublishInvariant, PTL

\* StopHasFlush: no stop waits for a destroy() that nothing will end, and no timer
\* fires into an XADD that is under way.
THEOREM StopsEnd == PublishSpec => []StopHasFlush
<1>1. PublishInv => StopHasFlush
  BY DEF PublishInv, HandlesKnown, Shapes, ShapeOf, StopHasFlush
<1> QED BY <1>1, PublishInvariant, PTL

\* SilencedByOthers: a running chain whose batcher is destroyed or being destroyed
\* has lost it to the stop of another chain, never to its own restart.
THEOREM SilenceIsShared == PublishSpec => []SilencedByOthers
<1>1. ASSUME PublishInv PROVE SilencedByOthers
  <2> SUFFICES ASSUME NEW c \in Chains, manager = "up", chain[c] = "running", ~IsOpen(handle[c])
               PROVE  \E d \in Chains \ {c} : d \in closedBy[handle[c]]
    BY DEF SilencedByOthers
  <2>1. /\ handle[c] \in Batchers /\ stage[handle[c]] \notin {"unused", "open"}
        /\ c \notin closedBy[handle[c]]
    BY <1>1 DEF PublishInv, HandlesKnown, ClosersKnown, IsOpen
  <2>2. closedBy[handle[c]] # {} /\ closedBy[handle[c]] \subseteq Chains
    BY <1>1, <2>1 DEF PublishInv, ClosersKnown, PublishTypeOK, ChainTypes
  <2> QED BY <2>1, <2>2
<1> QED BY <1>1, PublishInvariant, PTL
=============================================================================
