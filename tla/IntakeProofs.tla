------------------------------- MODULE IntakeProofs -------------------------------
(* What lets opportunities into the pipeline of an engine: the poll loop of its  *)
(* stream consumer, in StreamPolling (the types, and the shape of the loop), and *)
(* the circuit of each chain, in ChainCircuit (the types, the threshold, and the *)
(* attempts of the HALF_OPEN state).                                             *)
EXTENDS StreamPolling, ChainCircuit, FiniteSetTheorems, TLAPS

-----------------------------------------------------------------------------
(* The poll loop.                                                               *)

PollPhases == {"cleanup", "read", "recreate", "batch", "handle", "ack"}

\* The handle of the timer says what is due, isPolling whether a poll is under way.
LoopIsKnown ==
  /\ timersDue = 0 <=> ~pollTimer
  /\ timersDue \in {0, 1}
  /\ isPolling <=> Alive # {}
  /\ \A q \in Alive : pollPromise = q

\* Before start and after stop nothing of the loop is left, but a poll stop waits for.
StoppedIsQuiet ==
  /\ stopCall = "none" /\ ~running => Alive = {} /\ timersDue = 0
  /\ stopCall # "none" => ~running /\ timersDue = 0
  /\ stopCall = "waiting" => pollPromise \in Polls

PollInv == LoopIsKnown /\ StoppedIsQuiet /\ OnePollChain /\ NeverSilent /\ StopIsFinal

\* Entries only change to what an entry can be.
LEMMA BecomesTyped ==
  ASSUME PollTypeOK, NEW es, NEW s \in {"new", "pending", "acked", "dead", "lost"},
         Becomes(es, s)
  PROVE  entry' \in [Entries -> {"unsent", "new", "pending", "acked", "dead", "lost"}]
BY DEF Becomes, PollTypeOK

\* A poll that goes on has typed hands.
LEMMA GoesOnTyped ==
  ASSUME PollTypeOK, NEW q \in Polls, NEW p \in PollPhases \cup {"off"},
         NEW hand \in SUBSET Entries, NEW acks \in SUBSET Entries,
         PollGoesOn(q, p, hand, acks)
  PROVE  /\ pollPhase' \in [Polls -> PollPhases \cup {"off"}]
         /\ inHand' \in [Polls -> SUBSET Entries]
         /\ acking' \in [Polls -> SUBSET Entries]
BY DEF PollGoesOn, PollTypeOK, PollPhases

\* What the loop keeps, as far as a step of a poll can change it.
StepTyped ==
  /\ isPolling' \in BOOLEAN /\ pollTimer' \in BOOLEAN /\ timersDue' \in Nat
  /\ pollPromise' \in Polls \cup {NoPoll}
  /\ pollPhase' \in [Polls -> PollPhases \cup {"off"}]
  /\ inHand' \in [Polls -> SUBSET Entries]
  /\ acking' \in [Polls -> SUBSET Entries]

\* The end of a poll is typed.
LEMMA EndTyped ==
  ASSUME PollTypeOK, NEW q \in Polls, EndPoll(q)
  PROVE  StepTyped
<1>1. PollGoesOn(q, "off", {}, {})
  BY DEF EndPoll
<1>2. /\ pollPhase' \in [Polls -> PollPhases \cup {"off"}]
      /\ inHand' \in [Polls -> SUBSET Entries]
      /\ acking' \in [Polls -> SUBSET Entries]
  BY <1>1, GoesOnTyped
<1>3. isPolling' \in BOOLEAN /\ pollPromise' \in Polls \cup {NoPoll}
  BY DEF EndPoll, PollTypeOK
<1>4. pollTimer' \in BOOLEAN
  BY DEF EndPoll, PollTypeOK
<1>5. timersDue' \in Nat
  BY DEF EndPoll, PollTypeOK
<1> QED BY <1>2, <1>3, <1>4, <1>5 DEF StepTyped

\* So is a poll that goes on.
LEMMA OnTyped ==
  ASSUME PollTypeOK, NEW q \in Polls, NEW p \in PollPhases,
         NEW hand \in SUBSET Entries, NEW acks \in SUBSET Entries,
         PollGoesOn(q, p, hand, acks), UNCHANGED loopVars
  PROVE  StepTyped
<1>1. /\ pollPhase' \in [Polls -> PollPhases \cup {"off"}]
      /\ inHand' \in [Polls -> SUBSET Entries]
      /\ acking' \in [Polls -> SUBSET Entries]
  BY GoesOnTyped
<1> QED BY <1>1 DEF StepTyped, PollTypeOK, loopVars

\* The message after one that has been handled.
LEMMA NextTyped ==
  ASSUME PollTypeOK, NEW q \in Polls, NEW rest \in SUBSET Entries, NextMessage(q, rest)
  PROVE  StepTyped
<1>1. CASE PollGoesOn(q, "handle", rest, {}) /\ UNCHANGED loopVars
  BY <1>1, OnTyped DEF PollPhases
<1>2. CASE EndPoll(q)
  BY <1>2, EndTyped
<1> QED BY <1>1, <1>2 DEF NextMessage

\* With what a poll changes typed, and the rest left alone, the types hold.
LEMMA StepKeepsTypes ==
  ASSUME PollTypeOK, StepTyped, UNCHANGED <<switches, stopCall, configVars>>,
         entry' \in [Entries -> {"unsent", "new", "pending", "acked", "dead", "lost"}],
         groupExists' \in BOOLEAN
  PROVE  PollTypeOK'
BY DEF PollTypeOK, StepTyped, switches, configVars, PollPhases

\* Every step of a poll keeps the types.
LEMMA PollStepTypes ==
  ASSUME PollTypeOK, NEW q \in Polls, PollStep(q)
  PROVE  PollTypeOK'
<1> USE DEF PollPhases
<1>0. /\ inHand[q] \in SUBSET Entries /\ acking[q] \in SUBSET Entries
      /\ groupExists \in BOOLEAN
      /\ entry \in [Entries -> {"unsent", "new", "pending", "acked", "dead", "lost"}]
  BY DEF PollTypeOK
<1>1. CASE CleanedUp(q)
  <2>1. StepTyped
    BY <1>1, OnTyped DEF CleanedUp
  <2> QED BY <1>0, <1>1, <2>1, BecomesTyped, StepKeepsTypes DEF CleanedUp
<1>2. CASE ReadReplies(q)
  <2>1. StepTyped
    <3>1. PICK es \in SUBSET InState("new") :
            PollGoesOn(q, IF batchHandler THEN "batch" ELSE "handle", es, {})
      BY <1>2 DEF ReadReplies
    <3>2. es \in SUBSET Entries
      BY DEF InState
    <3> QED BY <1>2, <3>1, <3>2, OnTyped DEF ReadReplies
  <2> QED BY <1>0, <1>2, <2>1, BecomesTyped, StepKeepsTypes DEF ReadReplies
<1>3. CASE ReadFails(q)
  BY <1>0, <1>3, EndTyped, BecomesTyped, StepKeepsTypes DEF ReadFails
<1>4. CASE GroupMissing(q)
  <2>1. StepTyped
    BY <1>4, OnTyped DEF GroupMissing
  <2> QED BY <1>0, <1>4, <2>1, StepKeepsTypes DEF GroupMissing, streamVars
<1>5. CASE GroupRecreated(q)
  BY <1>0, <1>5, EndTyped, BecomesTyped, StepKeepsTypes DEF GroupRecreated
<1>6. CASE RecreateFails(q)
  BY <1>0, <1>6, EndTyped, StepKeepsTypes DEF RecreateFails, streamVars
<1>7. CASE BatchHandled(q)
  <2>1. StepTyped
    <3>1. PICK done \in SUBSET inHand[q] :
            \/ PollGoesOn(q, "ack", {}, done) /\ UNCHANGED loopVars
            \/ EndPoll(q)
      BY <1>7 DEF BatchHandled
    <3> QED BY <1>0, <3>1, OnTyped, EndTyped
  <2> QED BY <1>0, <1>7, <2>1, StepKeepsTypes DEF BatchHandled, streamVars
<1>8. CASE MessageHandled(q)
  <2>1. StepTyped
    <3>1. PICK e \in inHand[q] :
            \/ PollGoesOn(q, "ack", inHand[q] \ {e}, {e}) /\ UNCHANGED loopVars
            \/ NextMessage(q, inHand[q] \ {e})
      BY <1>8 DEF MessageHandled
    <3>2. inHand[q] \ {e} \in SUBSET Entries /\ {e} \in SUBSET Entries
      BY <1>0
    <3> QED BY <3>1, <3>2, OnTyped, NextTyped
  <2> QED BY <1>0, <1>8, <2>1, StepKeepsTypes DEF MessageHandled, streamVars
<1>9. CASE AckReplies(q)
  BY <1>0, <1>9, NextTyped, BecomesTyped, StepKeepsTypes DEF AckReplies
<1> QED BY <1>1, <1>2, <1>3, <1>4, <1>5, <1>6, <1>7, <1>8, <1>9 DEF PollStep

\* Every variable of the consumer, its polls and its stream keeps its type.
THEOREM PollTypeCorrect == PollSpec => []PollTypeOK
<1>1. PollInit => PollTypeOK
  <2> SUFFICES ASSUME PollInit PROVE PollTypeOK
    OBVIOUS
  <2>1. /\ pollPhase \in [Polls -> PollPhases \cup {"off"}]
        /\ inHand \in [Polls -> SUBSET Entries] /\ acking \in [Polls -> SUBSET Entries]
        /\ entry \in [Entries -> {"unsent", "new", "pending", "acked", "dead", "lost"}]
    BY DEF PollInit
  <2> QED BY <2>1 DEF PollInit, PollTypeOK, PollPhases
<1>2. PollTypeOK /\ [PollNext]_pollVars => PollTypeOK'
  <2> SUFFICES ASSUME PollTypeOK, [PollNext]_pollVars PROVE PollTypeOK'
    OBVIOUS
  <2> USE DEF switches, loopVars, configVars, streamVars
  <2>0. ASSUME SchedulePoll
        PROVE  /\ isPolling' \in BOOLEAN /\ pollTimer' \in BOOLEAN
               /\ pollPromise' \in Polls \cup {NoPoll}
               /\ pollPhase' \in [Polls -> PollPhases \cup {"off"}]
    BY <2>0 DEF SchedulePoll, PollTypeOK, PollPhases
  <2>1. CASE StartConsumer
    BY <2>0, <2>1 DEF StartConsumer, PollTypeOK, PollPhases
  <2>2. CASE TimerFires
    BY <2>0, <2>2 DEF TimerFires, PollTypeOK, PollPhases
  <2>3. CASE PauseConsumer
    BY <2>3 DEF PauseConsumer, PollTypeOK
  <2>4. CASE ResumeConsumer
    <3>1. /\ isPolling' \in BOOLEAN /\ pollTimer' \in BOOLEAN
          /\ pollPromise' \in Polls \cup {NoPoll}
          /\ pollPhase' \in [Polls -> PollPhases \cup {"off"}]
      BY <2>0, <2>4 DEF ResumeConsumer, PollTypeOK, PollPhases
    <3> QED BY <2>4, <3>1 DEF ResumeConsumer, PollTypeOK, PollPhases
  <2>5. CASE StopConsumer
    <3>1. timersDue' \in Nat
      BY <2>5 DEF StopConsumer, PollTypeOK
    <3>2. stopCall' \in {"none", "waiting", "returned"}
      BY <2>5 DEF StopConsumer
    <3> QED BY <2>5, <3>1, <3>2 DEF StopConsumer, PollTypeOK
  <2>6. CASE StopResolves
    BY <2>6 DEF StopResolves, PollTypeOK
  <2>7. ASSUME NEW q \in Polls, PollStep(q) PROVE PollTypeOK'
    BY <2>7, PollStepTypes
  <2>8. ASSUME NEW e \in Entries, Publish(e) PROVE PollTypeOK'
    BY <2>8, BecomesTyped DEF Publish, PollTypeOK
  <2>9. CASE GroupVanishes
    BY <2>9, BecomesTyped DEF GroupVanishes, PollTypeOK
  <2>10. CASE UNCHANGED pollVars
    BY <2>10 DEF pollVars, PollTypeOK
  <2> QED BY <2>1, <2>2, <2>3, <2>4, <2>5, <2>6, <2>7, <2>8, <2>9, <2>10 DEF PollNext
<1> QED BY <1>1, <1>2, PTL DEF PollSpec

-----------------------------------------------------------------------------
\* Nothing of the loop moves.
LEMMA LoopRests ==
  ASSUME PollInv, UNCHANGED <<switches, loopVars, stopCall, pollPhase>>
  PROVE  PollInv'
BY DEF PollInv, LoopIsKnown, StoppedIsQuiet, OnePollChain, NeverSilent, StopIsFinal, Alive,
       switches, loopVars

\* A poll that goes on is the same poll.
LEMMA PollStays ==
  ASSUME PollTypeOK, PollInv, NEW q \in Polls, NEW p, p # "off", pollPhase[q] # "off",
         pollPhase' = [pollPhase EXCEPT ![q] = p],
         UNCHANGED <<switches, loopVars, stopCall>>
  PROVE  PollInv'
<1>1. Alive' = Alive
  BY DEF Alive, PollTypeOK
<1> QED BY <1>1 DEF PollInv, LoopIsKnown, StoppedIsQuiet, OnePollChain, NeverSilent,
                    StopIsFinal, switches, loopVars

\* A poll that ends was the only one, and arms the only timer.
LEMMA PollEnds ==
  ASSUME PollTypeOK, PollInv, NEW q \in Polls, pollPhase[q] # "off",
         EndPoll(q), UNCHANGED <<switches, stopCall>>
  PROVE  PollInv'
<1>1. /\ Alive = {q} /\ timersDue = 0 /\ stopCall # "returned" /\ pollTimer = FALSE
      /\ running => stopCall = "none"
  BY DEF Alive, PollInv, OnePollChain, LoopIsKnown, StoppedIsQuiet, StopIsFinal, PollTypeOK
<1>2. Alive' = {}
  BY <1>1 DEF Alive, EndPoll, PollGoesOn, PollTypeOK
<1> QED BY <1>1, <1>2 DEF EndPoll, PollInv, LoopIsKnown, StoppedIsQuiet, OnePollChain,
                          NeverSilent, StopIsFinal, PollTypeOK, switches

\* A step of a poll lets it go on or ends it.
LEMMA PollStepShape ==
  ASSUME PollTypeOK, NEW q \in Polls, PollStep(q)
  PROVE  /\ pollPhase[q] # "off" /\ UNCHANGED <<switches, stopCall>>
         /\ \/ EndPoll(q)
            \/ /\ UNCHANGED loopVars
               /\ \E p : p # "off" /\ pollPhase' = [pollPhase EXCEPT ![q] = p]
<1>1. CASE CleanedUp(q)
  BY <1>1 DEF CleanedUp, PollGoesOn
<1>2. CASE ReadReplies(q)
  BY <1>2 DEF ReadReplies, PollGoesOn
<1>3. CASE ReadFails(q)
  BY <1>3 DEF ReadFails
<1>4. CASE GroupMissing(q)
  BY <1>4 DEF GroupMissing, PollGoesOn
<1>5. CASE GroupRecreated(q) \/ RecreateFails(q)
  BY <1>5 DEF GroupRecreated, RecreateFails
<1>6. CASE BatchHandled(q)
  BY <1>6 DEF BatchHandled, PollGoesOn
<1>7. CASE MessageHandled(q)
  BY <1>7 DEF MessageHandled, NextMessage, PollGoesOn
<1>8. CASE AckReplies(q)
  BY <1>8 DEF AckReplies, NextMessage, PollGoesOn
<1> QED BY <1>1, <1>2, <1>3, <1>4, <1>5, <1>6, <1>7, <1>8 DEF PollStep

\* schedulePoll, called when neither a poll nor a timer is left, begins one poll.
LEMMA PollBegins ==
  ASSUME PollTypeOK, PollInv, Alive = {}, timersDue' = 0, SchedulePoll, UNCHANGED stopCall,
         running' = TRUE, stopCall = "none"
  PROVE  PollInv'
<1>0. pollTimer' = FALSE
  BY DEF SchedulePoll
<1>1. CASE running' /\ ~pausedPolling'
  <2>1. PICK q \in Polls : /\ pollPromise' = q /\ isPolling' = TRUE
                           /\ \E p \in {"cleanup", "read"} :
                                pollPhase' = [pollPhase EXCEPT ![q] = p]
    BY <1>1 DEF SchedulePoll
  <2>2. Alive' = {q}
    BY <2>1 DEF Alive, PollTypeOK
  <2>3. stopCall' = "none"
    OBVIOUS
  <2>4. LoopIsKnown'
    BY <1>0, <2>1, <2>2 DEF LoopIsKnown
  <2>5. StoppedIsQuiet' /\ StopIsFinal' /\ OnePollChain' /\ NeverSilent'
    BY <1>1, <2>2, <2>3 DEF StoppedIsQuiet, StopIsFinal, OnePollChain, NeverSilent
  <2> QED BY <2>4, <2>5 DEF PollInv
<1>2. CASE ~running' \/ pausedPolling'
  <2>1. isPolling' = FALSE /\ pollPromise' = NoPoll /\ Alive' = {}
    BY <1>2 DEF SchedulePoll, Alive
  <2> QED BY <1>0, <1>2, <2>1 DEF PollInv, LoopIsKnown, StoppedIsQuiet, OnePollChain,
                                  NeverSilent, StopIsFinal
<1> QED BY <1>1, <1>2

\* The shape of the loop is kept by every step.
LEMMA LoopShape == PollTypeOK /\ PollInv /\ [PollNext]_pollVars => PollInv'
<1> SUFFICES ASSUME PollTypeOK, PollInv, [PollNext]_pollVars PROVE PollInv'
  OBVIOUS
<1>1. CASE StartConsumer
  <2>1. Alive = {} /\ timersDue = 0
    BY <1>1 DEF StartConsumer, PollInv, StoppedIsQuiet
  <2> QED BY <1>1, <2>1, PollBegins DEF StartConsumer
<1>2. CASE TimerFires
  <2>1. Alive = {} /\ timersDue = 1
    BY <1>2 DEF TimerFires, PollInv, OnePollChain, LoopIsKnown
  <2>2. running /\ stopCall = "none"
    BY <2>1 DEF PollInv, StoppedIsQuiet
  <2> QED BY <1>2, <2>1, <2>2, PollBegins DEF TimerFires, switches
<1>3. CASE PauseConsumer
  BY <1>3 DEF PauseConsumer, PollInv, LoopIsKnown, StoppedIsQuiet, OnePollChain, NeverSilent,
              StopIsFinal, Alive, loopVars
<1>4. CASE ResumeConsumer
  <2>1. CASE MustRestart /\ SchedulePoll
    <3>1. Alive = {} /\ timersDue = 0 /\ stopCall = "none"
      BY <2>1 DEF MustRestart, PollInv, LoopIsKnown, StoppedIsQuiet
    <3> QED BY <1>4, <2>1, <3>1, PollBegins DEF ResumeConsumer, MustRestart
  <2>2. CASE ~MustRestart /\ UNCHANGED <<isPolling, pollTimer, pollPromise, pollPhase>>
    BY <1>4, <2>2 DEF ResumeConsumer, MustRestart, PollInv, LoopIsKnown, StoppedIsQuiet,
                      OnePollChain, NeverSilent, StopIsFinal, Alive
  <2> QED BY <1>4, <2>1, <2>2 DEF ResumeConsumer
<1>5. CASE StopConsumer
  <2>1. timersDue' = 0 /\ pollTimer' = FALSE /\ Alive' = Alive /\ running' = FALSE
    BY <1>5 DEF StopConsumer, PollInv, LoopIsKnown, Alive
  <2>2. pollPromise = NoPoll => Alive = {}
    BY PollAssumption DEF PollInv, LoopIsKnown, Alive
  <2>3. pollPromise # NoPoll => pollPromise \in Polls
    BY DEF PollTypeOK
  <2> QED BY <1>5, <2>1, <2>2, <2>3
          DEF StopConsumer, PollInv, LoopIsKnown, StoppedIsQuiet, OnePollChain, NeverSilent,
              StopIsFinal
<1>6. CASE StopResolves
  <2>1. Alive = {}
    BY <1>6 DEF StopResolves, PollInv, LoopIsKnown, Alive
  <2> QED BY <1>6, <2>1 DEF StopResolves, PollInv, LoopIsKnown, StoppedIsQuiet, OnePollChain,
                            NeverSilent, StopIsFinal, Alive, switches
<1>7. ASSUME NEW q \in Polls, PollStep(q) PROVE PollInv'
  BY <1>7, PollStepShape, PollStays, PollEnds
<1>8. ASSUME NEW e \in Entries, Publish(e) PROVE PollInv'
  BY <1>8, LoopRests DEF Publish
<1>9. CASE GroupVanishes
  BY <1>9, LoopRests DEF GroupVanishes
<1>10. CASE UNCHANGED pollVars
  BY <1>10, LoopRests DEF pollVars
<1> QED BY <1>1, <1>2, <1>3, <1>4, <1>5, <1>6, <1>7, <1>8, <1>9, <1>10 DEF PollNext

\* The loop keeps its shape.
THEOREM LoopAlways == PollSpec => []PollInv
<1>1. PollInit => PollInv
  BY DEF PollInit, PollInv, LoopIsKnown, StoppedIsQuiet, OnePollChain, NeverSilent,
         StopIsFinal, Alive
<1> QED BY <1>1, LoopShape, PollTypeCorrect, PTL DEF PollSpec

\* Whenever pause, resume and stop are called, at any await of a poll, there is
\* one chain of polls and timers.
THEOREM OneChain == PollSpec => []OnePollChain
<1>1. PollInv => OnePollChain
  BY DEF PollInv
<1> QED BY <1>1, LoopAlways, PTL

\* No order of pause, resume and the end of a poll leaves a running consumer silent.
THEOREM NotSilent == PollSpec => []NeverSilent
<1>1. PollInv => NeverSilent
  BY DEF PollInv
<1> QED BY <1>1, LoopAlways, PTL

\* After stop has returned no poll and no timer of the consumer is left.
THEOREM StopFinal == PollSpec => []StopIsFinal
<1>1. PollInv => StopIsFinal
  BY DEF PollInv
<1> QED BY <1>1, LoopAlways, PTL

-----------------------------------------------------------------------------
(* The circuit of a chain.                                                      *)

\* The breaker's own types.
BreakerTypes ==
  /\ cbState \in {"CLOSED", "OPEN", "HALF_OPEN"}
  /\ consecutiveFailures \in Nat /\ halfOpenAttempts \in Nat
  /\ cooledDown \in BOOLEAN

\* The types of what surrounds it.
TradeTypes ==
  /\ trade \in [Trades -> {"idle", "queued", "admitted", "overrun"}]
  /\ requeued \in [Trades -> Nat]
  /\ probes \subseteq Trades /\ lostProbes \in Nat

\* Whether an attempt is taken, the breaker stays typed.
LEMMA AttemptTyped ==
  ASSUME BreakerTypes, TakeAttempt
  PROVE  BreakerTypes'
<1>1. cbState' \in {"CLOSED", "OPEN", "HALF_OPEN"} /\ consecutiveFailures' \in Nat
      /\ cooledDown' \in BOOLEAN
  BY DEF TakeAttempt, BreakerTypes, breakerVars
<1>2. halfOpenAttempts' \in Nat
  BY DEF TakeAttempt, BreakerTypes, breakerVars
<1> QED BY <1>1, <1>2 DEF BreakerTypes

\* A count of failures is a number.
LEMMA CountTyped == BreakerTypes => CountedFailures \in Nat
BY CircuitAssumption DEF CountedFailures, BreakerTypes

\* The types of the circuit and of the trades of its chain hold always.
THEOREM CircuitTypeCorrect == CircuitSpec => []CircuitTypeOK
<1>1. CircuitInit => CircuitTypeOK
  <2> SUFFICES ASSUME CircuitInit PROVE CircuitTypeOK
    OBVIOUS
  <2>1. /\ trade \in [Trades -> {"idle", "queued", "admitted", "overrun"}]
        /\ requeued \in [Trades -> Nat]
    BY DEF CircuitInit
  <2> QED BY <2>1 DEF CircuitInit, CircuitTypeOK
<1>2. CircuitTypeOK /\ [CircuitNext]_circuitVars => CircuitTypeOK'
  <2> SUFFICES ASSUME BreakerTypes, TradeTypes, [CircuitNext]_circuitVars
               PROVE  BreakerTypes' /\ TradeTypes'
    BY DEF CircuitTypeOK, BreakerTypes, TradeTypes
  <2>1. ASSUME NEW t \in Trades, Arrive(t) PROVE BreakerTypes' /\ TradeTypes'
    BY <2>1 DEF Arrive, BreakerTypes, TradeTypes, breakerVars
  <2>2. ASSUME NEW t \in Trades, Dequeue(t) PROVE BreakerTypes' /\ TradeTypes'
    <3>1. CASE CircuitBlocks(t)
      BY <3>1 DEF CircuitBlocks, BreakerTypes, TradeTypes, breakerVars
    <3>2. CASE PutBackFull(t)
      <4>1. BreakerTypes'
        BY <3>2, AttemptTyped DEF PutBackFull
      <4> QED BY <3>2, <4>1 DEF PutBackFull, TradeTypes
    <3>3. CASE LetIn(t)
      <4>1. BreakerTypes'
        BY <3>3, AttemptTyped DEF LetIn
      <4> QED BY <3>3, <4>1 DEF LetIn, TradeTypes
    <3> QED BY <2>2, <3>1, <3>2, <3>3 DEF Dequeue
  <2>3. ASSUME NEW t \in Trades, TradeTimesOut(t) PROVE BreakerTypes' /\ TradeTypes'
    BY <2>3 DEF TradeTimesOut, BreakerTypes, TradeTypes, breakerVars
  <2>4. ASSUME NEW t \in Trades, Ends(t) PROVE BreakerTypes' /\ TradeTypes'
    <3>1. CASE EndsUnrecorded(t)
      BY <3>1 DEF EndsUnrecorded, BreakerTypes, TradeTypes, breakerVars
    <3>2. CASE RecordFailure(t)
      <4>1. BreakerTypes'
        BY <3>2, CountTyped DEF RecordFailure, EnterCircuit, BreakerTypes
      <4> QED BY <3>2, <4>1 DEF RecordFailure, EnterCircuit, TradeTypes
    <3>3. CASE RecordSuccess(t)
      <4>1. /\ cbState' \in {"CLOSED", "OPEN", "HALF_OPEN"}
            /\ cooledDown' \in BOOLEAN
        BY <3>3 DEF RecordSuccess, EnterCircuit, BreakerTypes, breakerVars
      <4>2. consecutiveFailures' \in Nat /\ halfOpenAttempts' \in Nat
        BY <3>3 DEF RecordSuccess, EnterCircuit, BreakerTypes, breakerVars
      <4> QED BY <3>3, <4>1, <4>2
              DEF RecordSuccess, EnterCircuit, BreakerTypes, TradeTypes
    <3> QED BY <2>4, <3>1, <3>2, <3>3 DEF Ends
  <2>5. CASE CooldownPasses \/ ForceClose \/ ForceOpen
    <3>1. TradeTypes'
      BY <2>5 DEF CooldownPasses, ForceClose, ForceOpen, EnterCircuit, TradeTypes
    <3>2. cbState' \in {"CLOSED", "OPEN", "HALF_OPEN"} /\ cooledDown' \in BOOLEAN
      BY <2>5 DEF CooldownPasses, ForceClose, ForceOpen, EnterCircuit, BreakerTypes
    <3>3. consecutiveFailures' \in Nat /\ halfOpenAttempts' \in Nat
      BY <2>5 DEF CooldownPasses, ForceClose, ForceOpen, EnterCircuit, BreakerTypes
    <3> QED BY <3>1, <3>2, <3>3 DEF BreakerTypes
  <2>6. CASE UNCHANGED circuitVars
    BY <2>6 DEF circuitVars, breakerVars, BreakerTypes, TradeTypes
  <2> QED BY <2>1, <2>2, <2>3, <2>4, <2>5, <2>6 DEF CircuitNext
<1> QED BY <1>1, <1>2, PTL DEF CircuitSpec

-----------------------------------------------------------------------------
\* However answers, late answers and overrides are ordered, a circuit that is
\* closed has counted fewer failures than its threshold.
THEOREM TripsAtThreshold == CircuitSpec => []ClosedBelowThreshold
<1>1. CircuitInit => ClosedBelowThreshold
  BY CircuitAssumption DEF CircuitInit, ClosedBelowThreshold
<1>2. CircuitTypeOK /\ ClosedBelowThreshold /\ [CircuitNext]_circuitVars
        => ClosedBelowThreshold'
  <2> SUFFICES ASSUME CircuitTypeOK, ClosedBelowThreshold, [CircuitNext]_circuitVars
               PROVE  ClosedBelowThreshold'
    OBVIOUS
  <2> USE DEF ClosedBelowThreshold
  <2>1. ASSUME NEW t \in Trades, Dequeue(t) PROVE ClosedBelowThreshold'
    BY <2>1 DEF Dequeue, CircuitBlocks, PutBackFull, LetIn, TakeAttempt, breakerVars
  <2>2. ASSUME NEW t \in Trades, Ends(t) PROVE ClosedBelowThreshold'
    <3>1. CASE EndsUnrecorded(t)
      BY <3>1 DEF EndsUnrecorded, breakerVars
    <3>2. CASE RecordFailure(t)
      BY <3>2 DEF RecordFailure, EnterCircuit
    <3>3. CASE RecordSuccess(t)
      BY <3>3, CircuitAssumption DEF RecordSuccess, EnterCircuit, breakerVars
    <3> QED BY <2>2, <3>1, <3>2, <3>3 DEF Ends
  <2>3. ASSUME NEW t \in Trades, Arrive(t) \/ TradeTimesOut(t) PROVE ClosedBelowThreshold'
    BY <2>3 DEF Arrive, TradeTimesOut, breakerVars
  <2>4. CASE CooldownPasses \/ ForceClose \/ ForceOpen
    BY <2>4, CircuitAssumption DEF CooldownPasses, ForceClose, ForceOpen, EnterCircuit
  <2>5. CASE UNCHANGED circuitVars
    BY <2>5 DEF circuitVars, breakerVars
  <2> QED BY <2>1, <2>2, <2>3, <2>4, <2>5 DEF CircuitNext
<1> QED BY <1>1, <1>2, CircuitTypeCorrect, PTL DEF CircuitSpec

-----------------------------------------------------------------------------
(* The attempts of the HALF_OPEN state.  That as many were used as are under   *)
(* way or lost is not inductive: a trade that was let in might be counted       *)
(* twice.  It is not, because a probe is under way, and what is let in is not.  *)

ProbesUnderWay == \A t \in probes : UnderWay(t)

QuietUnlessHalfOpen == cbState # "HALF_OPEN" => probes = {} /\ lostProbes = 0

ProbeInv == ProbesUnderWay /\ QuietUnlessHalfOpen /\ ProbesAccountedFor

\* The probes are finitely many, and one more or less is one more or less.
LEMMA ProbesCounted ==
  ASSUME CircuitTypeOK, NEW t \in Trades
  PROVE  /\ Cardinality(probes) \in Nat /\ Cardinality({}) = 0
         /\ t \notin probes => Cardinality(probes \cup {t}) = Cardinality(probes) + 1
         /\ t \in probes => Cardinality(probes \ {t}) = Cardinality(probes) - 1
<1>1. IsFiniteSet(probes)
  BY CircuitAssumption, FS_Subset DEF CircuitTypeOK
<1> QED BY <1>1, FS_CardinalityType, FS_AddElement, FS_RemoveElement, FS_EmptySet

\* A period that begins, or ends, has no attempts to account for.
LEMMA NewPeriod ==
  ASSUME NEW s, s # "HALF_OPEN", EnterCircuit(s)
  PROVE  ProbeInv'
BY DEF EnterCircuit, ProbeInv, ProbesUnderWay, QuietUnlessHalfOpen, ProbesAccountedFor

\* No attempt is used or ended.
LEMMA NoProbeMoves ==
  ASSUME ProbeInv, UNCHANGED <<cbState, halfOpenAttempts, probes, lostProbes>>,
         \A t \in probes : UnderWay(t)'
  PROVE  ProbeInv'
BY DEF ProbeInv, ProbesUnderWay, QuietUnlessHalfOpen, ProbesAccountedFor

\* An attempt is used: it is under way from now on, or lost at once.
LEMMA AttemptCounted ==
  ASSUME CircuitTypeOK, ProbeInv, NEW t \in Trades, PutBackFull(t) \/ LetIn(t)
  PROVE  ProbeInv'
<1>1. t \notin probes /\ TakeAttempt
  BY DEF PutBackFull, LetIn, ProbeInv, ProbesUnderWay, UnderWay
<1>2. ProbesUnderWay'
  BY DEF PutBackFull, LetIn, ProbeInv, ProbesUnderWay, UnderWay, CircuitTypeOK
<1>3. CASE cbState = "CLOSED"
  BY <1>1, <1>2, <1>3
  DEF TakeAttempt, breakerVars, PutBackFull, LetIn, ProbeInv, QuietUnlessHalfOpen,
      ProbesAccountedFor
<1>4. CASE cbState # "CLOSED"
  <2>1. /\ cbState' = "HALF_OPEN"
        /\ halfOpenAttempts' = Cardinality(probes) + lostProbes + 1
        /\ halfOpenAttempts' <= HalfOpenMax
    <3>1. CASE cbState = "OPEN"
      <4>1. Cardinality(probes) = 0 /\ lostProbes = 0
        BY <3>1, ProbesCounted DEF ProbeInv, QuietUnlessHalfOpen
      <4> QED BY <1>1, <3>1, <4>1, CircuitAssumption DEF TakeAttempt
    <3>2. CASE cbState = "HALF_OPEN"
      BY <1>1, <3>2, CircuitAssumption
      DEF TakeAttempt, Admits, ProbeInv, ProbesAccountedFor, CircuitTypeOK
    <3> QED BY <1>4, <3>1, <3>2 DEF CircuitTypeOK
  <2>2. Cardinality(probes) \in Nat /\ lostProbes \in Nat
    BY ProbesCounted DEF CircuitTypeOK
  <2>3. Cardinality(probes') + lostProbes' = Cardinality(probes) + lostProbes + 1
    <3>1. CASE PutBackFull(t)
      <4>1. probes' = probes /\ lostProbes' = lostProbes + 1
        BY <1>4, <3>1 DEF PutBackFull
      <4> QED BY <2>2, <4>1
    <3>2. CASE LetIn(t)
      <4>1. probes' = probes \cup {t} /\ lostProbes' = lostProbes
        BY <1>4, <3>2 DEF LetIn
      <4>2. Cardinality(probes \cup {t}) = Cardinality(probes) + 1
        BY <1>1, ProbesCounted
      <4> QED BY <2>2, <4>1, <4>2
    <3> QED BY <3>1, <3>2
  <2> QED BY <1>2, <2>1, <2>3 DEF ProbeInv, QuietUnlessHalfOpen, ProbesAccountedFor
<1> QED BY <1>3, <1>4

\* A trade ends without an answer: if it was an attempt, it is one lost.
LEMMA ProbeLost ==
  ASSUME CircuitTypeOK, ProbeInv, NEW t \in Trades, EndsUnrecorded(t)
  PROVE  ProbeInv'
<1>1. ProbesUnderWay' /\ QuietUnlessHalfOpen'
  BY DEF EndsUnrecorded, ProbeInv, ProbesUnderWay, QuietUnlessHalfOpen, UnderWay,
         CircuitTypeOK, breakerVars
<1>2. CASE t \in probes
  <2>1. Cardinality(probes') = Cardinality(probes) - 1 /\ Cardinality(probes) \in Nat
    BY <1>2, ProbesCounted DEF EndsUnrecorded
  <2> QED BY <1>1, <1>2, <2>1
          DEF EndsUnrecorded, ProbeInv, ProbesAccountedFor, CircuitTypeOK, breakerVars
<1>3. CASE t \notin probes
  <2>1. probes' = probes
    BY <1>3 DEF EndsUnrecorded
  <2> QED BY <1>1, <1>3, <2>1
          DEF EndsUnrecorded, ProbeInv, ProbesAccountedFor, breakerVars
<1> QED BY <1>2, <1>3

\* An attempt of the HALF_OPEN state is never lost track of, nor granted beyond
\* the limit, whatever late answers and overrides come in between.
THEOREM ProbesAlwaysCounted == CircuitSpec => []ProbesAccountedFor
<1>1. CircuitInit => ProbeInv
  BY DEF CircuitInit, ProbeInv, ProbesUnderWay, QuietUnlessHalfOpen, ProbesAccountedFor
<1>2. CircuitTypeOK /\ ProbeInv /\ [CircuitNext]_circuitVars => ProbeInv'
  <2> SUFFICES ASSUME CircuitTypeOK, ProbeInv, [CircuitNext]_circuitVars PROVE ProbeInv'
    OBVIOUS
  <2>0. \A t \in probes : UnderWay(t)
    BY DEF ProbeInv, ProbesUnderWay
  <2>1. ASSUME NEW t \in Trades, Arrive(t) \/ CircuitBlocks(t) \/ TradeTimesOut(t)
        PROVE  ProbeInv'
    <3>1. \A u \in probes : UnderWay(u)'
      BY <2>0, <2>1 DEF Arrive, CircuitBlocks, TradeTimesOut, UnderWay, CircuitTypeOK
    <3> QED BY <2>1, <3>1, NoProbeMoves DEF Arrive, CircuitBlocks, TradeTimesOut, breakerVars
  <2>2. ASSUME NEW t \in Trades, PutBackFull(t) \/ LetIn(t) PROVE ProbeInv'
    BY <2>2, AttemptCounted
  <2>3. ASSUME NEW t \in Trades, EndsUnrecorded(t) PROVE ProbeInv'
    BY <2>3, ProbeLost
  <2>4. ASSUME NEW t \in Trades, RecordFailure(t) \/ RecordSuccess(t) PROVE ProbeInv'
    <3>1. CASE EnterCircuit("OPEN") \/ EnterCircuit("CLOSED")
      BY <3>1, NewPeriod
    <3>2. CASE cbState # "HALF_OPEN" /\ UNCHANGED <<cbState, halfOpenAttempts, probes, lostProbes>>
      BY <3>2, NoProbeMoves DEF ProbeInv, QuietUnlessHalfOpen
    <3> QED BY <2>4, <3>1, <3>2
            DEF RecordFailure, RecordSuccess, CircuitTypeOK, breakerVars
  <2>5. CASE CooldownPasses
    BY <2>0, <2>5, NoProbeMoves DEF CooldownPasses, UnderWay
  <2>6. CASE ForceClose \/ ForceOpen
    BY <2>6, NewPeriod DEF ForceClose, ForceOpen
  <2>7. CASE UNCHANGED circuitVars
    BY <2>0, <2>7, NoProbeMoves DEF circuitVars, breakerVars, UnderWay
  <2> QED BY <2>1, <2>2, <2>3, <2>4, <2>5, <2>6, <2>7 DEF CircuitNext, Dequeue, Ends
<1>3. ProbeInv => ProbesAccountedFor
  BY DEF ProbeInv
<1> QED BY <1>1, <1>2, <1>3, CircuitTypeCorrect, PTL DEF CircuitSpec
=============================================================================
