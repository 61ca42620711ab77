--------------------------- MODULE ForwardingProofs ---------------------------
(* What CoordinatorForwarding promises about every opportunity: the types, that  *)
(* it is forwarded once, that it is acknowledged when its forwarding has come to *)
(* an outcome, and that only a coordinator that has not released forwards it.    *)
EXTENDS CoordinatorForwarding, TLAPS

Lives == {"off", "up", "draining", "stopping", "released", "crashed"}
Fates == {"new", "pending", "leftover", "acked", "skipped", "abandoned"}
Ways == {"none", "refused", "deferred", "dropped", "forwarded", "kept",
         "writing", "lost", "crashed", "xadd", "backoff", "dlq"}

CoordTypes ==
  /\ coordinator \in [Coordinators -> Lives]
  /\ leader \in Coordinators \cup {NoCoordinator}
  /\ batchStage \in [Coordinators -> {"idle", "forwarding", "ack"}]
  /\ failures \in [Coordinators -> Nat]
  /\ circuitOpen \in [Coordinators -> BOOLEAN]

MessageTypes ==
  /\ message \in [Messages -> Fates]
  /\ reader \in [Messages -> Coordinators \cup {NoCoordinator}]
  /\ forward \in [Messages -> Ways]

CountTypes ==
  /\ attempt \in [Messages -> Nat]
  /\ copies \in [Messages -> Nat] /\ lostReplies \in [Messages -> Nat]

\* The types in three parts.
LEMMA TypesSplit == ForwardTypeOK <=> CoordTypes /\ MessageTypes /\ CountTypes
BY DEF ForwardTypeOK, CoordTypes, MessageTypes, CountTypes, UnderWayForward, Lives, Fates, Ways

\* Where a message stands in the group is typed.
LEMMA NowTyped ==
  ASSUME MessageTypes, NEW ms, NEW s \in Fates, Now(ms, s)
  PROVE  message' \in [Messages -> Fates]
BY DEF Now, MessageTypes

\* A router's circuit that is set is set to a truth value.
LEMMA CircuitTyped ==
  ASSUME CoordTypes, NEW i, NEW open \in BOOLEAN,
         circuitOpen' = [circuitOpen EXCEPT ![i] = open]
  PROVE  circuitOpen' \in [Coordinators -> BOOLEAN]
<1>1. CASE open = TRUE
  BY <1>1 DEF CoordTypes
<1>2. CASE open = FALSE
  BY <1>2 DEF CoordTypes
<1> QED BY <1>1, <1>2

\* What a failed attempt leaves in the router is typed.
LEMMA FailureTyped ==
  ASSUME CoordTypes, MessageTypes, CountTypes, NEW m \in Messages, XaddFails(m)
  PROVE  CoordTypes' /\ MessageTypes' /\ CountTypes'
<1> DEFINE i == reader[m]
           count == IF failures[i] < RouterThreshold THEN failures[i] + 1 ELSE failures[i]
           open == circuitOpen[i] \/ count >= RouterThreshold
<1>1. failures' \in [Coordinators -> Nat]
  <2>1. failures' = [failures EXCEPT ![i] = count]
    BY DEF XaddFails
  <2>2. i \in Coordinators => count \in Nat
    BY DEF CoordTypes
  <2> QED BY <2>1, <2>2 DEF CoordTypes
<1>2. circuitOpen' \in [Coordinators -> BOOLEAN]
  <2>1. circuitOpen' = [circuitOpen EXCEPT ![i] = open] /\ open \in BOOLEAN
    BY DEF XaddFails
  <2> HIDE DEF open, i
  <2> QED BY <2>1, CircuitTyped
<1>3. CoordTypes'
  BY <1>1, <1>2 DEF CoordTypes, XaddFails, coordVars
<1>4. AfterFailure(m, open) \in {"dlq", "backoff"}
  BY DEF AfterFailure
<1>5. MessageTypes'
  BY <1>4 DEF MessageTypes, XaddFails, groupVars, Ways
<1>6. attempt[m] + 1 \in Nat
  BY DEF CountTypes
<1>7. attempt' \in [Messages -> Nat]
  BY <1>6 DEF XaddFails, CountTypes
<1>8. CountTypes'
  BY <1>7 DEF CountTypes, XaddFails
<1> QED BY <1>3, <1>5, <1>8

\* The other steps of a forwarding keep the types.
LEMMA ForwardStepTyped ==
  ASSUME CoordTypes, MessageTypes, CountTypes, NEW m \in Messages, ForwardStep(m)
  PROVE  CoordTypes' /\ MessageTypes' /\ CountTypes'
<1>1. CASE XaddSucceeds(m)
  <2>1. circuitOpen' \in [Coordinators -> BOOLEAN]
    BY <1>1, CircuitTyped DEF XaddSucceeds
  <2>2. CoordTypes'
    BY <1>1, <2>1 DEF XaddSucceeds, CoordTypes, coordVars
  <2>3. MessageTypes'
    BY <1>1 DEF XaddSucceeds, MessageTypes, groupVars, Ways
  <2>4. CountTypes'
    BY <1>1 DEF XaddSucceeds, CountTypes
  <2> QED BY <2>2, <2>3, <2>4
<1>2. CASE BackoffEnds(m) \/ DlqAnswers(m) \/ FallbackEnds(m)
  <2>1. CoordTypes' /\ CountTypes'
    BY <1>2
    DEF BackoffEnds, DlqAnswers, FallbackEnds, CoordTypes, CountTypes, coordVars, breakVars, outVars
  <2>2. MessageTypes'
    BY <1>2 DEF BackoffEnds, DlqAnswers, FallbackEnds, MessageTypes, groupVars, Ways
  <2> QED BY <2>1, <2>2
<1> QED BY <1>1, <1>2, FailureTyped DEF ForwardStep

\* Reading, acknowledging, starting, stopping and crashing keep the types.
LEMMA CoordinatorTyped ==
  ASSUME CoordTypes, MessageTypes, CountTypes, NEW i \in Coordinators,
         \/ ReadBatch(i) \/ PollOf(i) \/ StartCoordinator(i) \/ BecomeLeader(i)
         \/ StopCoordinator(i) \/ StopOf(i) \/ CrashCoordinator(i)
  PROVE  CoordTypes' /\ MessageTypes' /\ CountTypes'
<1> USE DEF coordVars, breakVars, taskVars, groupVars, outVars, Lives, Ways
<1>1. CASE ReadBatch(i)
  <2>1. CoordTypes' /\ CountTypes'
    BY <1>1 DEF ReadBatch, CoordTypes, CountTypes
  <2>2. \A cooled \in BOOLEAN : FirstStep(i, cooled) \in Ways
    BY DEF FirstStep
  <2>3. message' \in [Messages -> Fates]
    BY <1>1, NowTyped DEF ReadBatch, Fates
  <2>4. reader' \in [Messages -> Coordinators \cup {NoCoordinator}]
    BY <1>1 DEF ReadBatch, MessageTypes
  <2>5. forward' \in [Messages -> Ways]
    <3>1. ASSUME NEW ms, NEW refused, NEW cooled \in BOOLEAN
          PROVE  [m \in Messages |->
                     IF m \in refused THEN "refused"
                     ELSE IF m \in ms THEN FirstStep(i, cooled) ELSE forward[m]]
                   \in [Messages -> Ways]
      BY <2>2 DEF MessageTypes
    <3> QED BY <1>1, <3>1 DEF ReadBatch
  <2> QED BY <2>1, <2>3, <2>4, <2>5 DEF MessageTypes
<1>2. CASE PollOf(i)
  <2>1. CoordTypes' /\ CountTypes'
    BY <1>2 DEF PollOf, BatchEnds, BatchAcked, CoordTypes, CountTypes
  <2>2. message' \in [Messages -> Fates]
    <3>1. CASE BatchEnds(i)
      BY <3>1, NowTyped DEF BatchEnds, Fates, MessageTypes
    <3>2. CASE BatchAcked(i)
      BY <3>2 DEF BatchAcked, Fates, MessageTypes
    <3> QED BY <1>2, <3>1, <3>2 DEF PollOf
  <2> QED BY <1>2, <2>1, <2>2 DEF PollOf, BatchEnds, BatchAcked, MessageTypes
<1>3. CASE StartCoordinator(i)
  <2>1. CoordTypes' /\ CountTypes'
    BY <1>3 DEF StartCoordinator, CoordTypes, CountTypes
  <2>2. message' \in [Messages -> Fates]
    BY <1>3, NowTyped DEF StartCoordinator, Recovered, Fates
  <2> QED BY <1>3, <2>1, <2>2 DEF StartCoordinator, MessageTypes
<1>4. CASE BecomeLeader(i) \/ StopCoordinator(i) \/ DrainEnds(i)
  BY <1>4 DEF BecomeLeader, StopCoordinator, DrainEnds, CoordTypes, MessageTypes, CountTypes
<1>5. CASE ReleaseLeadership(i)
  BY <1>5 DEF ReleaseLeadership, BreakerGone, CoordTypes, MessageTypes, CountTypes
<1>6. CASE CrashCoordinator(i)
  <2>1. CoordTypes'
    BY <1>6 DEF CrashCoordinator, BreakerGone, CoordTypes
  <2>2. MessageTypes'
    BY <1>6 DEF CrashCoordinator, MessageTypes
  <2>3. CountTypes'
    BY <1>6 DEF CrashCoordinator, CountTypes
  <2> QED BY <2>1, <2>2, <2>3
<1> QED BY <1>1, <1>2, <1>3, <1>4, <1>5, <1>6 DEF StopOf

\* The types of the coordinators and of the messages they forward hold always.
THEOREM ForwardTypeCorrect == ForwardSpec => []ForwardTypeOK
<1>1. ForwardInit => ForwardTypeOK
  <2> SUFFICES ASSUME ForwardInit PROVE CoordTypes /\ MessageTypes /\ CountTypes
    BY TypesSplit
  <2> USE DEF ForwardInit
  <2>1. CoordTypes
    BY DEF CoordTypes, Lives
  <2>2. MessageTypes
    BY DEF MessageTypes, Fates, Ways
  <2>3. CountTypes
    BY DEF CountTypes
  <2> QED BY <2>1, <2>2, <2>3
<1>2. CoordTypes /\ MessageTypes /\ CountTypes /\ [ForwardNext]_forwardVars
        => CoordTypes' /\ MessageTypes' /\ CountTypes'
  <2> SUFFICES ASSUME CoordTypes, MessageTypes, CountTypes, [ForwardNext]_forwardVars
               PROVE  CoordTypes' /\ MessageTypes' /\ CountTypes'
    OBVIOUS
  <2> USE DEF coordVars, breakVars, taskVars, groupVars, outVars
  <2>1. CASE GroupReset
    <3>1. message' \in [Messages -> Fates]
      BY <2>1, NowTyped DEF GroupReset, Fates
    <3> QED BY <2>1, <3>1 DEF GroupReset, CoordTypes, MessageTypes, CountTypes
  <2>2. CASE Demoted \/ LeaseExpires
    BY <2>2 DEF Demoted, LeaseExpires, CoordTypes, MessageTypes, CountTypes
  <2>3. CASE UNCHANGED forwardVars
    BY <2>3 DEF forwardVars, CoordTypes, MessageTypes, CountTypes
  <2> QED BY <2>1, <2>2, <2>3, ForwardStepTyped, CoordinatorTyped DEF ForwardNext
<1>3. ForwardTypeOK /\ [ForwardNext]_forwardVars => ForwardTypeOK'
  <2>1. ForwardTypeOK' <=> CoordTypes' /\ MessageTypes' /\ CountTypes'
    BY DEF ForwardTypeOK, CoordTypes, MessageTypes, CountTypes, UnderWayForward, Lives,
           Fates, Ways
  <2> QED BY <1>2, <2>1, TypesSplit
<1> QED BY <1>1, <1>3, PTL DEF ForwardSpec

-----------------------------------------------------------------------------
(* What is known of every message: it moves on from "none" when it is read, a   *)
(* forwarding is under way only while the batch of its reader is, and its       *)
(* copies are those that were lost and, once forwarded, the one that was not.   *)

NewIsUntouched == \A m \in Messages : message[m] = "new" => forward[m] = "none"

ReadIsBegun ==
  \A m \in Messages :
    /\ message[m] \in {"pending", "leftover"} => forward[m] # "none"
    /\ forward[m] # "none" => reader[m] \in Coordinators

UnderWayInBatch ==
  \A m \in Messages :
    forward[m] \in UnderWayForward => batchStage[reader[m]] = "forwarding"

ReleasedIsIdle ==
  \A i \in Coordinators : coordinator[i] = "released" => batchStage[i] = "idle"

OutcomesKnown ==
  \A m \in Messages :
    /\ forward[m] = "crashed" => coordinator[reader[m]] = "crashed"
    /\ forward[m] = "dropped"
         => coordinator[reader[m]] \in {"draining", "stopping", "released", "crashed"}
    /\ message[m] = "acked" => forward[m] \notin UnderWayForward \cup {"none", "crashed"}

CopiesKnown ==
  \A m \in Messages :
    /\ lostReplies[m] <= copies[m] /\ copies[m] <= 1 + lostReplies[m]
    /\ forward[m] \notin {"forwarded", "crashed"} => copies[m] = lostReplies[m]
    /\ forward[m] = "forwarded" => copies[m] = 1 + lostReplies[m]

Course == NewIsUntouched /\ ReadIsBegun /\ UnderWayInBatch /\ ReleasedIsIdle /\ OutcomesKnown

ForwardInv == Course /\ CopiesKnown

\* A forwarding under way goes on, or comes to an outcome; so does the write of a
\* fallback file.
LEMMA WayChanges ==
  ASSUME CoordTypes, MessageTypes, Course, NEW m \in Messages,
         NEW w, w \notin {"none", "crashed"}, forward' = [forward EXCEPT ![m] = w],
         \/ forward[m] \in UnderWayForward /\ (w = "dropped" => ShuttingDown(reader[m]))
         \/ forward[m] = "writing" /\ w \in {"kept", "lost"},
         UNCHANGED <<coordinator, batchStage, message, reader>>
  PROVE  Course'
<1>1. /\ message[m] # "new" /\ reader[m] \in Coordinators
      /\ forward[m] \in UnderWayForward
           => message[m] # "acked" /\ batchStage[reader[m]] = "forwarding"
  BY DEF Course, NewIsUntouched, OutcomesKnown, ReadIsBegun, UnderWayInBatch, UnderWayForward
<1>2. forward'[m] = w /\ \A n \in Messages \ {m} : forward'[n] = forward[n]
  BY DEF MessageTypes
<1>3. NewIsUntouched' /\ ReadIsBegun' /\ UnderWayInBatch' /\ ReleasedIsIdle'
  BY <1>1, <1>2
  DEF Course, NewIsUntouched, ReadIsBegun, UnderWayInBatch, ReleasedIsIdle, UnderWayForward
<1>4. OutcomesKnown'
  BY <1>1, <1>2 DEF Course, OutcomesKnown, ShuttingDown, UnderWayForward
<1> QED BY <1>3, <1>4 DEF Course

\* Every step of a forwarding keeps the invariant.
LEMMA ForwardStepKeeps ==
  ASSUME CoordTypes, MessageTypes, CountTypes, ForwardInv, NEW m \in Messages, ForwardStep(m)
  PROVE  ForwardInv'
<1> USE DEF ForwardInv, coordVars, groupVars, UnderWayForward
<1>1. CASE XaddSucceeds(m)
  <2>1. Course'
    BY <1>1, WayChanges DEF XaddSucceeds
  <2>2. CopiesKnown'
    BY <1>1 DEF XaddSucceeds, CopiesKnown, MessageTypes, CountTypes
  <2> QED BY <2>1, <2>2
<1>2. CASE XaddFails(m)
  <2>1. PICK w \in {"dlq", "backoff"} : forward' = [forward EXCEPT ![m] = w]
    BY <1>2 DEF XaddFails, AfterFailure
  <2>2. Course'
    BY <1>2, <2>1, WayChanges DEF XaddFails
  <2>3. CopiesKnown'
    BY <1>2, <2>1 DEF XaddFails, CopiesKnown, MessageTypes, CountTypes
  <2> QED BY <2>2, <2>3
<1>3. CASE BackoffEnds(m) \/ DlqAnswers(m) \/ FallbackEnds(m)
  <2>1. PICK w \in {"dropped", "xadd", "kept", "writing", "lost"} :
          /\ forward' = [forward EXCEPT ![m] = w]
          /\ \/ /\ forward[m] \in UnderWayForward
                /\ w = "dropped" => ShuttingDown(reader[m])
             \/ forward[m] = "writing" /\ w \in {"kept", "lost"}
    BY <1>3 DEF BackoffEnds, DlqAnswers, FallbackEnds
  <2>2. Course'
    BY <1>3, <2>1, WayChanges DEF BackoffEnds, DlqAnswers, FallbackEnds
  <2>3. CopiesKnown'
    BY <1>3, <2>1
    DEF BackoffEnds, DlqAnswers, FallbackEnds, CopiesKnown, MessageTypes, outVars
  <2> QED BY <2>2, <2>3
<1> QED BY <1>1, <1>2, <1>3 DEF ForwardStep

\* Messages of the group are settled; their forwarding stays as it is.
LEMMA GroupSettles ==
  ASSUME MessageTypes, ForwardInv, UNCHANGED <<forward, reader, copies, lostReplies>>,
         \A m \in Messages :
           \/ message'[m] = message[m]
           \/ message'[m] \in {"skipped", "abandoned"}
           \/ message'[m] = "leftover" /\ message[m] = "pending"
           \/ /\ message'[m] = "acked"
              /\ forward[m] \notin UnderWayForward \cup {"none", "crashed"},
         UnderWayInBatch', ReleasedIsIdle',
         \A i \in Coordinators :
           \/ coordinator'[i] = coordinator[i]
           \/ coordinator[i] = "off" /\ coordinator'[i] = "up"
  PROVE  ForwardInv'
<1>1. NewIsUntouched' /\ ReadIsBegun'
  BY DEF ForwardInv, Course, NewIsUntouched, ReadIsBegun
<1>2. OutcomesKnown'
  <2> SUFFICES ASSUME NEW m \in Messages
               PROVE  /\ forward[m] = "crashed" => coordinator'[reader[m]] = "crashed"
                      /\ forward[m] = "dropped"
                           => coordinator'[reader[m]]
                                \in {"draining", "stopping", "released", "crashed"}
                      /\ message'[m] = "acked"
                           => forward[m] \notin UnderWayForward \cup {"none", "crashed"}
    BY DEF OutcomesKnown
  <2>1. forward[m] # "none" => reader[m] \in Coordinators
    BY DEF ForwardInv, Course, ReadIsBegun
  <2> QED BY <2>1 DEF ForwardInv, Course, OutcomesKnown
<1>3. CopiesKnown'
  BY DEF ForwardInv, CopiesKnown
<1> QED BY <1>1, <1>2, <1>3 DEF ForwardInv, Course

\* Reading begins the forwarding of what is new, or refuses it.
LEMMA ReadKeeps ==
  ASSUME CoordTypes, MessageTypes, CountTypes, ForwardInv, NEW i \in Coordinators, ReadBatch(i)
  PROVE  ForwardInv'
<1>1. PICK ms \in SUBSET InGroup("new"), cooled \in BOOLEAN :
        /\ Now(ms, "pending")
        /\ reader' = [m \in Messages |-> IF m \in ms THEN i ELSE reader[m]]
        /\ \E refused \in SUBSET ms :
             forward' = [m \in Messages |->
                IF m \in refused THEN "refused"
                ELSE IF m \in ms THEN FirstStep(i, cooled) ELSE forward[m]]
  BY DEF ReadBatch
<1>2. /\ UNCHANGED <<coordinator, copies, lostReplies>>
      /\ coordinator[i] \in {"up", "draining"}
      /\ batchStage' = [batchStage EXCEPT ![i] = "forwarding"]
  BY DEF ReadBatch, coordVars, outVars
<1>3. \A m \in ms : /\ m \in Messages /\ message[m] = "new" /\ forward[m] = "none"
                    /\ message'[m] = "pending" /\ reader'[m] = i
                    /\ forward'[m] \in {"refused", "deferred", "dlq", "dropped", "xadd"}
                    /\ forward'[m] = "dropped" => coordinator[i] = "draining"
  BY <1>1, <1>2 DEF Now, InGroup, FirstStep, ShuttingDown, ForwardInv, Course, NewIsUntouched
<1>4. \A m \in Messages \ ms :
        message'[m] = message[m] /\ reader'[m] = reader[m] /\ forward'[m] = forward[m]
  BY <1>1 DEF Now
<1>5. NewIsUntouched' /\ ReadIsBegun'
  BY <1>3, <1>4 DEF ForwardInv, Course, NewIsUntouched, ReadIsBegun
<1>6. UnderWayInBatch'
  <2> SUFFICES ASSUME NEW m \in Messages, forward'[m] \in UnderWayForward
               PROVE  batchStage'[reader'[m]] = "forwarding"
    BY DEF UnderWayInBatch
  <2>1. CASE m \in ms
    BY <1>2, <1>3, <2>1 DEF CoordTypes
  <2>2. CASE m \notin ms
    BY <1>2, <1>4, <2>2
    DEF CoordTypes, ForwardInv, Course, UnderWayInBatch, ReadIsBegun, UnderWayForward
  <2> QED BY <2>1, <2>2
<1>7. ReleasedIsIdle'
  BY <1>2 DEF ForwardInv, Course, ReleasedIsIdle, CoordTypes
<1>8. OutcomesKnown'
  BY <1>2, <1>3, <1>4 DEF ForwardInv, Course, OutcomesKnown
<1>9. CopiesKnown'
  BY <1>2, <1>3, <1>4 DEF ForwardInv, CopiesKnown
<1> QED BY <1>5, <1>6, <1>7, <1>8, <1>9 DEF ForwardInv, Course

\* The batch comes to its end, and is acknowledged.
LEMMA PollKeeps ==
  ASSUME CoordTypes, MessageTypes, CountTypes, ForwardInv, NEW i \in Coordinators, PollOf(i)
  PROVE  ForwardInv'
<1>1. CASE BatchEnds(i)
  <2>1. /\ \A m \in Messages : message'[m] = message[m] \/ message'[m] = "skipped"
        /\ UNCHANGED <<forward, reader, copies, lostReplies, coordinator>>
        /\ batchStage' = [batchStage EXCEPT ![i] = "ack"]
        /\ Serving(i)
    BY <1>1 DEF BatchEnds, Now, coordVars, taskVars, outVars
  <2>2. UnderWayInBatch'
    BY <1>1, <2>1
    DEF BatchEnds, Forwarding, CoordTypes, ForwardInv, Course, UnderWayInBatch
  <2>3. ReleasedIsIdle'
    BY <2>1 DEF Serving, CoordTypes, ForwardInv, Course, ReleasedIsIdle
  <2> QED BY <2>1, <2>2, <2>3, GroupSettles
<1>2. CASE BatchAcked(i)
  <2>1. /\ UNCHANGED <<forward, reader, copies, lostReplies, coordinator>>
        /\ batchStage[i] = "ack" /\ batchStage' = [batchStage EXCEPT ![i] = "idle"]
        /\ Serving(i)
    BY <1>2 DEF BatchAcked, coordVars, taskVars, outVars
  <2>2. \A m \in Messages : \/ message'[m] = message[m]
                            \/ m \in Batch(i) /\ message'[m] \in {"acked", "leftover"}
    BY <1>2 DEF BatchAcked
  <2>3. \A m \in Batch(i) : forward[m] \notin UnderWayForward \cup {"none", "crashed"}
    BY <2>1
    DEF Batch, Serving, ForwardInv, Course, UnderWayInBatch, OutcomesKnown, ReadIsBegun
  <2>4. UnderWayInBatch'
    BY <2>1 DEF CoordTypes, ForwardInv, Course, UnderWayInBatch
  <2>5. ReleasedIsIdle'
    BY <2>1 DEF CoordTypes, ForwardInv, Course, ReleasedIsIdle
  <2> QED BY <2>1, <2>2, <2>3, <2>4, <2>5, GroupSettles DEF Batch
<1> QED BY <1>1, <1>2 DEF PollOf

\* A coordinator starts and abandons what others have left idle.
LEMMA StartKeeps ==
  ASSUME CoordTypes, MessageTypes, CountTypes, ForwardInv, NEW i \in Coordinators,
         StartCoordinator(i)
  PROVE  ForwardInv'
<1>1. /\ \A m \in Messages : message'[m] = message[m] \/ message'[m] = "abandoned"
      /\ UNCHANGED <<forward, reader, copies, lostReplies, batchStage>>
      /\ coordinator[i] = "off" /\ coordinator' = [coordinator EXCEPT ![i] = "up"]
  BY DEF StartCoordinator, Recovered, Now, taskVars, outVars
<1>2. UnderWayInBatch'
  BY <1>1 DEF ForwardInv, Course, UnderWayInBatch
<1>3. ReleasedIsIdle'
  BY <1>1 DEF CoordTypes, ForwardInv, Course, ReleasedIsIdle
<1>4. \A j \in Coordinators : \/ coordinator'[j] = coordinator[j]
                              \/ coordinator[j] = "off" /\ coordinator'[j] = "up"
  BY <1>1 DEF CoordTypes
<1> QED BY <1>1, <1>2, <1>3, <1>4, GroupSettles

\* A stop goes on; nothing else moves.
LEMMA StopKeeps ==
  ASSUME CoordTypes, MessageTypes, ForwardInv, NEW i \in Coordinators,
         StopCoordinator(i) \/ StopOf(i)
  PROVE  ForwardInv'
<1>1. PICK s \in {"draining", "stopping", "released"} :
        /\ coordinator' = [coordinator EXCEPT ![i] = s]
        /\ coordinator[i] \in {"up", "draining", "stopping"}
        /\ s = "released" => batchStage[i] = "idle"
        /\ UNCHANGED <<message, forward, reader, copies, lostReplies, batchStage>>
  BY DEF StopCoordinator, StopOf, DrainEnds, ReleaseLeadership, ConsumersStopped, taskVars,
         groupVars, outVars
<1>2. /\ coordinator'[i] = s
      /\ \A j \in Coordinators \ {i} : coordinator'[j] = coordinator[j]
  BY <1>1 DEF CoordTypes
<1>3. NewIsUntouched' /\ ReadIsBegun' /\ UnderWayInBatch' /\ CopiesKnown'
  BY <1>1
  DEF ForwardInv, Course, NewIsUntouched, ReadIsBegun, UnderWayInBatch, CopiesKnown
<1>4. ReleasedIsIdle'
  BY <1>1, <1>2 DEF ForwardInv, Course, ReleasedIsIdle
<1>5. OutcomesKnown'
  <2> SUFFICES ASSUME NEW m \in Messages
               PROVE  /\ forward[m] = "crashed" => coordinator'[reader[m]] = "crashed"
                      /\ forward[m] = "dropped"
                           => coordinator'[reader[m]]
                                \in {"draining", "stopping", "released", "crashed"}
                      /\ message[m] = "acked"
                           => forward[m] \notin UnderWayForward \cup {"none", "crashed"}
    BY <1>1 DEF OutcomesKnown
  <2>1. forward[m] # "none" => reader[m] \in Coordinators
    BY DEF ForwardInv, Course, ReadIsBegun
  <2>2. CASE reader[m] = i
    BY <1>1, <1>2, <2>2 DEF ForwardInv, Course, OutcomesKnown
  <2>3. CASE reader[m] # i
    BY <1>2, <2>1, <2>3 DEF ForwardInv, Course, OutcomesKnown
  <2> QED BY <2>2, <2>3
<1> QED BY <1>3, <1>4, <1>5 DEF ForwardInv, Course

\* A crash cuts off what its coordinator had under way.
LEMMA CrashKeeps ==
  ASSUME CoordTypes, MessageTypes, CountTypes, ForwardInv, NEW i \in Coordinators,
         CrashCoordinator(i)
  PROVE  ForwardInv'
<1>1. /\ Serving(i) /\ UNCHANGED <<message, reader, lostReplies>>
      /\ coordinator'[i] = "crashed" /\ batchStage'[i] = "idle"
      /\ \A j \in Coordinators \ {i} :
           coordinator'[j] = coordinator[j] /\ batchStage'[j] = batchStage[j]
  BY DEF CrashCoordinator, groupVars, CoordTypes
<1>2. \A m \in Messages :
        forward'[m] = IF m \in Forwarding(i) THEN "crashed"
                      ELSE IF reader[m] = i /\ forward[m] = "writing" THEN "lost"
                      ELSE forward[m]
  BY DEF CrashCoordinator
<1>3. \A m \in Messages :
        \/ copies'[m] = copies[m]
        \/ m \in Forwarding(i) /\ copies'[m] = copies[m] + 1
  BY DEF CrashCoordinator
<1>4. \A m \in Forwarding(i) :
        /\ m \in Messages /\ reader[m] = i /\ forward[m] \in UnderWayForward
        /\ message[m] # "new" /\ message[m] # "acked"
  BY DEF Forwarding, ForwardInv, Course, NewIsUntouched, OutcomesKnown, UnderWayForward
<1>5. \A m \in Messages : forward[m] # "none" => reader[m] \in Coordinators
  BY DEF ForwardInv, Course, ReadIsBegun
<1>6. NewIsUntouched' /\ ReadIsBegun'
  BY <1>1, <1>2, <1>4 DEF ForwardInv, Course, NewIsUntouched, ReadIsBegun
<1>7. UnderWayInBatch'
  <2> SUFFICES ASSUME NEW m \in Messages, forward'[m] \in UnderWayForward
               PROVE  batchStage'[reader'[m]] = "forwarding"
    BY DEF UnderWayInBatch
  <2>1. m \notin Forwarding(i) /\ forward'[m] = forward[m]
    BY <1>2 DEF UnderWayForward
  <2>2. reader[m] # i /\ reader[m] \in Coordinators
    BY <1>5, <2>1 DEF Forwarding, UnderWayForward
  <2> QED BY <1>1, <2>1, <2>2 DEF ForwardInv, Course, UnderWayInBatch
<1>8. ReleasedIsIdle'
  BY <1>1 DEF ForwardInv, Course, ReleasedIsIdle
<1>9. OutcomesKnown'
  <2> SUFFICES ASSUME NEW m \in Messages
               PROVE  /\ forward'[m] = "crashed" => coordinator'[reader[m]] = "crashed"
                      /\ forward'[m] = "dropped"
                           => coordinator'[reader[m]]
                                \in {"draining", "stopping", "released", "crashed"}
                      /\ message[m] = "acked"
                           => forward'[m] \notin UnderWayForward \cup {"none", "crashed"}
    BY <1>1 DEF OutcomesKnown
  <2>1. CASE m \in Forwarding(i)
    BY <1>1, <1>2, <1>4, <2>1
  <2>2. CASE m \notin Forwarding(i) /\ reader[m] = i
    BY <1>1, <1>2, <2>2 DEF ForwardInv, Course, OutcomesKnown, UnderWayForward
  <2>3. CASE m \notin Forwarding(i) /\ reader[m] # i
    BY <1>1, <1>2, <1>5, <2>3 DEF ForwardInv, Course, OutcomesKnown
  <2> QED BY <2>1, <2>2, <2>3
<1>10. CopiesKnown'
  <2> SUFFICES ASSUME NEW m \in Messages
               PROVE  /\ lostReplies[m] <= copies'[m] /\ copies'[m] <= 1 + lostReplies[m]
                      /\ forward'[m] \notin {"forwarded", "crashed"}
                           => copies'[m] = lostReplies[m]
                      /\ forward'[m] = "forwarded" => copies'[m] = 1 + lostReplies[m]
    BY <1>1 DEF CopiesKnown
  <2>1. CASE m \in Forwarding(i)
    BY <1>2, <1>3, <1>4, <2>1
    DEF ForwardInv, CopiesKnown, UnderWayForward, CountTypes
  <2>2. CASE m \notin Forwarding(i)
    BY <1>2, <1>3, <2>2 DEF ForwardInv, CopiesKnown
  <2> QED BY <2>1, <2>2
<1> QED BY <1>6, <1>7, <1>8, <1>9, <1>10 DEF ForwardInv, Course

\* The invariant of the forwarding holds always.
THEOREM ForwardAlways == ForwardSpec => []ForwardInv
<1>1. ForwardInit => ForwardInv
  BY DEF ForwardInit, ForwardInv, Course, NewIsUntouched, ReadIsBegun, UnderWayInBatch,
         ReleasedIsIdle, OutcomesKnown, CopiesKnown, UnderWayForward
<1>2. ForwardTypeOK /\ ForwardInv /\ [ForwardNext]_forwardVars => ForwardInv'
  <2> SUFFICES ASSUME CoordTypes, MessageTypes, CountTypes, ForwardInv,
                      [ForwardNext]_forwardVars
               PROVE  ForwardInv'
    BY TypesSplit
  <2>1. ASSUME UNCHANGED <<coordinator, batchStage, forward, message, reader, copies,
                           lostReplies>>
        PROVE  ForwardInv'
    BY <2>1 DEF ForwardInv, Course, NewIsUntouched, ReadIsBegun, UnderWayInBatch,
         ReleasedIsIdle, OutcomesKnown, CopiesKnown
  <2> USE DEF coordVars, breakVars, taskVars, groupVars, outVars
  <2>2. CASE GroupReset
    <3>1. \A m \in Messages : message'[m] = message[m] \/ message'[m] = "skipped"
      BY <2>2 DEF GroupReset, Now
    <3>2. UnderWayInBatch' /\ ReleasedIsIdle'
      BY <2>2 DEF GroupReset, ForwardInv, Course, UnderWayInBatch, ReleasedIsIdle
    <3> QED BY <2>2, <3>1, <3>2, GroupSettles DEF GroupReset
  <2>3. CASE Demoted \/ LeaseExpires
    BY <2>1, <2>3 DEF Demoted, LeaseExpires
  <2>4. ASSUME NEW i \in Coordinators, BecomeLeader(i) PROVE ForwardInv'
    BY <2>1, <2>4 DEF BecomeLeader
  <2>5. CASE UNCHANGED forwardVars
    BY <2>1, <2>5 DEF forwardVars
  <2> QED BY <2>2, <2>3, <2>4, <2>5, ForwardStepKeeps, ReadKeeps, PollKeeps, StartKeeps,
             StopKeeps, CrashKeeps
          DEF ForwardNext
<1> QED BY <1>1, <1>2, ForwardTypeCorrect, PTL DEF ForwardSpec

\* However coordinators crash, recover and follow each other, an opportunity has one
\* copy in the execution stream, and one more for every command whose reply was lost.
THEOREM ForwardedOnce == ForwardSpec => []ForwardedAtMostOnce
<1>1. ForwardInv => ForwardedAtMostOnce
  BY DEF ForwardInv, CopiesKnown, ForwardedAtMostOnce
<1> QED BY <1>1, ForwardAlways, PTL

\* Whatever is acknowledged has come to an outcome, which is what its copies say.
THEOREM AckSettles == ForwardSpec => []AckedIsSettled
<1>1. ForwardTypeOK /\ ForwardInv => AckedIsSettled
  BY DEF ForwardTypeOK, ForwardInv, Course, OutcomesKnown, CopiesKnown, AckedIsSettled
<1> QED BY <1>1, ForwardTypeCorrect, ForwardAlways, PTL

\* A coordinator that has released its leadership forwards nothing any more.
THEOREM ReleasedIsSilent == ForwardSpec => NoForwardAfterRelease
<1>1. ForwardTypeOK /\ ForwardInv /\ [ForwardNext]_forwardVars
        => [\A m \in Messages :
              copies'[m] > copies[m] => coordinator[reader[m]] # "released"]_forwardVars
  <2> SUFFICES ASSUME CoordTypes, MessageTypes, CountTypes, ForwardInv,
                      [ForwardNext]_forwardVars, NEW m \in Messages, copies'[m] > copies[m]
               PROVE  coordinator[reader[m]] # "released"
    BY TypesSplit
  <2>1. copies[m] \in Nat
    BY DEF CountTypes
  <2>2. ASSUME forward[m] \in UnderWayForward PROVE coordinator[reader[m]] # "released"
    BY <2>2 DEF ForwardInv, Course, UnderWayInBatch, ReleasedIsIdle, ReadIsBegun,
                UnderWayForward
  <2>3. ASSUME NEW n \in Messages, XaddSucceeds(n) \/ XaddFails(n)
        PROVE  coordinator[reader[m]] # "released"
    <3>1. m = n
      BY <2>1, <2>3 DEF XaddSucceeds, XaddFails, CountTypes
    <3> QED BY <2>2, <2>3, <3>1 DEF XaddSucceeds, XaddFails, UnderWayForward
  <2>4. ASSUME NEW i \in Coordinators, CrashCoordinator(i)
        PROVE  coordinator[reader[m]] # "released"
    <3>1. m \in Forwarding(i)
      BY <2>1, <2>4 DEF CrashCoordinator
    <3> QED BY <2>2, <3>1 DEF Forwarding
  <2>5. copies' # copies
    BY <2>1
  <2> QED BY <2>3, <2>4, <2>5
          DEF ForwardNext, ForwardStep, BackoffEnds, DlqAnswers, FallbackEnds, ReadBatch,
              PollOf, BatchEnds, BatchAcked, StartCoordinator, BecomeLeader, StopCoordinator, StopOf, DrainEnds,
              ReleaseLeadership, GroupReset, Demoted, LeaseExpires, forwardVars, outVars
<1> QED BY <1>1, ForwardTypeCorrect, ForwardAlways, PTL DEF ForwardSpec, NoForwardAfterRelease
=============================================================================
