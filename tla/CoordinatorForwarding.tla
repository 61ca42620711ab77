----------------------- MODULE CoordinatorForwarding -----------------------
(***************************************************************************)
(* How a coordinator turns the opportunities stream into execution         *)
(* requests: handleOpportunityBatch and stop of coordinator.ts, the        *)
(* OpportunityRouter with its SimpleCircuitBreaker, and the recovery of    *)
(* stream-consumer-manager.ts when a coordinator starts.                   *)
(*                                                                         *)
(* All coordinators read the same consumer group, so each message goes to  *)
(* one of them, whichever leads.  The opportunities of a batch are         *)
(* forwarded in parallel, each with its own retries, and the batch is      *)
(* acknowledged when the last of them has come to an outcome.  Leadership  *)
(* is the promise of LeaderElection: at most one instance has it, and it   *)
(* can be lost at any time.  An instance that is gone never comes back: a  *)
(* restarted one has a new consumer name and counts as another.            *)
(***************************************************************************)
EXTENDS Naturals, FiniteSets

CONSTANTS
    Coordinators,       \* coordinator processes that are ever started
    Messages,           \* opportunities, one stream message each
    NoCoordinator,
    MaxRetries,         \* config.maxRetries: attempts to forward
    RouterThreshold     \* failures that open the router's circuit

ASSUME ForwardingAssumption ==
    /\ NoCoordinator \notin Coordinators
    /\ MaxRetries \in Nat \ {0} /\ RouterThreshold \in Nat \ {0}
    /\ IsFiniteSet(Messages)

VARIABLES
    coordinator,    \* off, up, draining, stopping, released or crashed
    leader,
    batchStage,     \* idle, forwarding or ack: the poll of each coordinator
    failures,       \* the router's consecutive failures, up to the threshold
    circuitOpen,
    message,        \* new, pending, leftover, acked, skipped or abandoned in the group
    reader,         \* the coordinator a message was delivered to
    forward,        \* how far the forwarding of a message has come
    attempt,        \* failed attempts of it
    copies,         \* entries of it in the execution stream
    lostReplies     \* history: XADDs executed without the router knowing

coordVars == <<coordinator, leader>>
breakVars == <<failures, circuitOpen>>
taskVars == <<forward, attempt>>
groupVars == <<message, reader>>
outVars == <<copies, lostReplies>>
forwardVars == <<coordVars, batchStage, breakVars, taskVars, groupVars,
                 outVars>>

(* Some coordinators and some messages may already belong to the past.     *)
ForwardInit ==
    /\ coordinator \in [Coordinators -> {"off", "crashed"}]
    /\ leader = NoCoordinator
    /\ batchStage = [i \in Coordinators |-> "idle"]
    /\ failures = [i \in Coordinators |-> 0]
    /\ circuitOpen = [i \in Coordinators |-> FALSE]
    /\ message \in [Messages -> {"new", "skipped"}]
    /\ reader = [m \in Messages |-> NoCoordinator]
    /\ forward = [m \in Messages |-> "none"]
    /\ attempt = [m \in Messages |-> 0]
    /\ copies = [m \in Messages |-> 0]
    /\ lostReplies = [m \in Messages |-> 0]

Serving(i) == coordinator[i] \in {"up", "draining", "stopping"}
\* What a stopped coordinator has left under way goes on until it exits.
StillRuns(i) == Serving(i) \/ coordinator[i] = "released"
ShuttingDown(i) == coordinator[i] \in {"draining", "stopping", "released"}

\* The present batch of a coordinator, and all that is pending in the group for it.
Batch(i) == {m \in Messages : reader[m] = i /\ message[m] = "pending"}
PendingOf(i) == {m \in Messages : reader[m] = i /\ message[m] \in {"pending", "leftover"}}
UnderWayForward == {"xadd", "backoff", "dlq"}
Forwarding(i) == {m \in Messages : reader[m] = i /\ forward[m] \in UnderWayForward}

InGroup(s) == {m \in Messages : message[m] = s}
Now(ms, s) == message' = [m \in Messages |-> IF m \in ms THEN s ELSE message[m]]

-----------------------------------------------------------------------------
(* Reading and the synchronous part of processOpportunityBatch *)

(* forwardToExecutionEngine up to its first await.  The open circuit       *)
(* blocks until its cooldown has passed; from then on it lets any number   *)
(* of attempts pass until one of them fails.                               *)
FirstStep(i, cooled) ==
    IF leader # i THEN "deferred"
    ELSE IF circuitOpen[i] /\ ~cooled THEN "dlq"
    ELSE IF ShuttingDown(i) THEN "dropped" ELSE "xadd"

(* Some of the batch is refused: invalid, duplicate, expired, superseded   *)
(* by a fresher one, shed because the execution stream is deep, or read    *)
(* within the grace period after the start.                                *)
ReadBatch(i) ==
    /\ coordinator[i] \in {"up", "draining"} /\ batchStage[i] = "idle"
    /\ \E ms \in SUBSET InGroup("new") \ {{}}, cooled \in BOOLEAN :
       \E refused \in SUBSET ms :
         /\ Now(ms, "pending")
         /\ reader' = [m \in Messages |-> IF m \in ms THEN i ELSE reader[m]]
         /\ forward' = [m \in Messages |->
                IF m \in refused THEN "refused"
                ELSE IF m \in ms THEN FirstStep(i, cooled) ELSE forward[m]]
    /\ batchStage' = [batchStage EXCEPT ![i] = "forwarding"]
    /\ UNCHANGED <<coordVars, breakVars, attempt, outVars>>

-----------------------------------------------------------------------------
(* The retry loop *)

XaddSucceeds(m) ==
    /\ forward[m] = "xadd" /\ StillRuns(reader[m])
    /\ copies' = [copies EXCEPT ![m] = @ + 1]
    /\ forward' = [forward EXCEPT ![m] = "forwarded"]
    /\ failures' = [failures EXCEPT ![reader[m]] = 0]
    /\ circuitOpen' = [circuitOpen EXCEPT ![reader[m]] = FALSE]
    /\ attempt' = [attempt EXCEPT ![m] = 0]
    /\ UNCHANGED <<coordVars, batchStage, groupVars, lostReplies>>

\* Variant: an outcome that nothing else knows of.
FailureAsError(m, open) ==
    IF open \/ attempt[m] + 1 >= MaxRetries THEN "error" ELSE "backoff"
(* A failed attempt: the circuit opens or stays open and there is no other *)
(* one, the attempts are used up, or the next one waits for its backoff.   *)
AfterFailure(m, open) ==
    IF open \/ attempt[m] + 1 >= MaxRetries THEN "dlq" ELSE "backoff"

(* The error may come after Redis has executed the command.                *)
XaddFails(m) ==
    /\ forward[m] = "xadd" /\ StillRuns(reader[m])
    /\ LET i == reader[m]
           count == IF failures[i] < RouterThreshold THEN failures[i] + 1
                                                     ELSE failures[i]
           open == circuitOpen[i] \/ count >= RouterThreshold
       IN /\ failures' = [failures EXCEPT ![i] = count]
          /\ circuitOpen' = [circuitOpen EXCEPT ![i] = open]
          /\ forward' = [forward EXCEPT ![m] = AfterFailure(m, open)]
          /\ attempt' = [attempt EXCEPT ![m] =
                 IF AfterFailure(m, open) = "backoff" THEN @ + 1 ELSE 0]
    /\ \E executed \in {0, 1} :
         /\ copies' = [copies EXCEPT ![m] = @ + executed]
         /\ lostReplies' = [lostReplies EXCEPT ![m] = @ + executed]
    /\ UNCHANGED <<coordVars, batchStage, groupVars>>

\* Variant: only a leader goes on after the backoff.
BackoffEndsForLeader(m) ==
    /\ forward[m] = "backoff" /\ leader = reader[m]
    /\ forward' = [forward EXCEPT ![m] =
           IF ShuttingDown(reader[m]) THEN "dropped" ELSE "xadd"]
    /\ UNCHANGED <<coordVars, batchStage, breakVars, attempt, groupVars,
                   outVars>>
BackoffEnds(m) ==
    /\ forward[m] = "backoff" /\ StillRuns(reader[m])
    /\ forward' = [forward EXCEPT ![m] =
           IF ShuttingDown(reader[m]) THEN "dropped" ELSE "xadd"]
    /\ UNCHANGED <<coordVars, batchStage, breakVars, attempt, groupVars,
                   outVars>>

(* The forwarding DLQ takes it, or the write of a local file is begun as   *)
(* the last resort; nobody waits for the file.                             *)
DlqAnswers(m) ==
    /\ forward[m] = "dlq" /\ StillRuns(reader[m])
    /\ \E outcome \in {"kept", "writing"} :
         forward' = [forward EXCEPT ![m] = outcome]
    /\ UNCHANGED <<coordVars, batchStage, breakVars, attempt, groupVars,
                   outVars>>

(* The file has the entry; or it is full, the write has failed, or the     *)
(* process exits before: then nothing has the entry.                       *)
FallbackEnds(m) ==
    /\ forward[m] = "writing" /\ StillRuns(reader[m])
    /\ \E outcome \in {"kept", "lost"} :
         forward' = [forward EXCEPT ![m] = outcome]
    /\ UNCHANGED <<coordVars, batchStage, breakVars, attempt, groupVars,
                   outVars>>

-----------------------------------------------------------------------------
(* The end of a batch.  After enough expired opportunities the backlog is  *)
(* skipped: the group is set to the end of the stream.                     *)

\* Variant: the batch does not wait for what it forwards.
BatchEndsEarly(i) ==
    /\ Serving(i) /\ batchStage[i] = "forwarding"
    /\ batchStage' = [batchStage EXCEPT ![i] = "ack"]
    /\ UNCHANGED <<coordVars, breakVars, taskVars, groupVars, outVars>>
BatchEnds(i) ==
    /\ Serving(i) /\ batchStage[i] = "forwarding" /\ Forwarding(i) = {}
    /\ batchStage' = [batchStage EXCEPT ![i] = "ack"]
    /\ \/ UNCHANGED message
       \/ /\ \E m \in Batch(i) : forward[m] = "refused"
          /\ Now(InGroup("new"), "skipped")
    /\ UNCHANGED <<coordVars, breakVars, taskVars, reader, outVars>>

(* The batch is acknowledged together, by one XACK or, when it is large, by *)
(* one pipeline, of which any part may fail.  What is left pending is not   *)
(* read by this consumer again, and no later XACK names it.                 *)
BatchAcked(i) ==
    /\ Serving(i) /\ batchStage[i] = "ack"
    /\ \E left \in SUBSET Batch(i) :
         message' = [m \in Messages |-> IF m \in left THEN "leftover"
                                       ELSE IF m \in Batch(i) THEN "acked" ELSE message[m]]
    /\ batchStage' = [batchStage EXCEPT ![i] = "idle"]
    /\ UNCHANGED <<coordVars, breakVars, taskVars, reader, outVars>>

-----------------------------------------------------------------------------
(* Start, leadership, stop and crash *)

\* Variant: what is claimed is processed again.
Reprocessed(idle) == Now(idle, "new")
(* recoverPendingMessages: what other consumers have left idle is claimed  *)
(* and acknowledged unprocessed, and the rest goes with the consumer.      *)
Recovered(idle) ==
    Now(UNION {PendingOf(reader[m]) : m \in idle}, "abandoned")

StartCoordinator(i) ==
    /\ coordinator[i] = "off"
    /\ coordinator' = [coordinator EXCEPT ![i] = "up"]
    /\ \E idle \in SUBSET {m \in InGroup("pending") \cup InGroup("leftover") :
                              ~(Serving(reader[m]) /\ forward[m] \in UnderWayForward)} :
         Recovered(idle)
    /\ UNCHANGED <<leader, batchStage, breakVars, taskVars, reader,
                   outVars>>

(* The groups are created anew at a start and at every reconnection: the   *)
(* one of the opportunities is set to the end of the stream.               *)
GroupReset ==
    /\ \E i \in Coordinators : Serving(i)
    /\ InGroup("new") # {}
    /\ Now(InGroup("new"), "skipped")
    /\ UNCHANGED <<coordVars, batchStage, breakVars, taskVars, reader, outVars>>

BecomeLeader(i) ==
    /\ Serving(i) /\ leader = NoCoordinator
    /\ leader' = i
    /\ UNCHANGED <<coordinator, batchStage, breakVars, taskVars,
                   groupVars, outVars>>

(* Demoted after failed heartbeats.                                        *)
Demoted ==
    /\ leader # NoCoordinator /\ Serving(leader)
    /\ leader' = NoCoordinator
    /\ UNCHANGED <<coordinator, batchStage, breakVars, taskVars, groupVars,
                   outVars>>

LeaseExpires ==
    /\ leader # NoCoordinator /\ ~Serving(leader)
    /\ leader' = NoCoordinator
    /\ UNCHANGED <<coordinator, batchStage, breakVars, taskVars,
                   groupVars, outVars>>

StopCoordinator(i) ==
    /\ coordinator[i] = "up"
    /\ coordinator' = [coordinator EXCEPT ![i] = "draining"]
    /\ UNCHANGED <<leader, batchStage, breakVars, taskVars, groupVars,
                   outVars>>

\* Variant: the drain lasts until nothing is left to read.
DrainEndsWhenEmpty(i) ==
    /\ coordinator[i] = "draining" /\ InGroup("new") = {}
    /\ coordinator' = [coordinator EXCEPT ![i] = "stopping"]
    /\ UNCHANGED <<leader, batchStage, breakVars, taskVars, groupVars,
                   outVars>>
(* After the 500 ms no new batch is read; the one under way is waited for. *)
DrainEnds(i) ==
    /\ coordinator[i] = "draining"
    /\ coordinator' = [coordinator EXCEPT ![i] = "stopping"]
    /\ UNCHANGED <<leader, batchStage, breakVars, taskVars, groupVars,
                   outVars>>

(* The memory of a process that has ended.                                 *)
BreakerGone(i) ==
    /\ failures' = [failures EXCEPT ![i] = 0]
    /\ circuitOpen' = [circuitOpen EXCEPT ![i] = FALSE]

\* Variant: the batch under way is not waited for.
ConsumersForgotten(i) == coordinator[i] = "stopping"
ConsumersStopped(i) == coordinator[i] = "stopping" /\ batchStage[i] = "idle"

ReleaseLeadership(i) ==
    /\ ConsumersStopped(i)
    /\ coordinator' = [coordinator EXCEPT ![i] = "released"]
    /\ leader' = IF leader = i THEN NoCoordinator ELSE leader
    /\ BreakerGone(i)
    /\ UNCHANGED <<batchStage, taskVars, groupVars, outVars>>

(* Commands that were under way may still reach Redis.                     *)
CrashCoordinator(i) ==
    /\ Serving(i)
    /\ coordinator' = [coordinator EXCEPT ![i] = "crashed"]
    /\ batchStage' = [batchStage EXCEPT ![i] = "idle"]
    /\ LET cut == Forwarding(i) IN
       /\ forward' = [m \in Messages |->
              IF m \in cut THEN "crashed"
              ELSE IF reader[m] = i /\ forward[m] = "writing" THEN "lost" ELSE forward[m]]
       /\ attempt' = [m \in Messages |-> IF m \in cut THEN 0 ELSE attempt[m]]
       /\ \E landed \in SUBSET {m \in cut : forward[m] = "xadd"} :
            copies' = [m \in Messages |->
                IF m \in landed THEN copies[m] + 1 ELSE copies[m]]
    /\ BreakerGone(i)
    /\ UNCHANGED <<leader, groupVars, lostReplies>>

ForwardStep(m) ==
    \/ XaddSucceeds(m) \/ XaddFails(m) \/ BackoffEnds(m)
    \/ DlqAnswers(m) \/ FallbackEnds(m)

PollOf(i) == BatchEnds(i) \/ BatchAcked(i)
StopOf(i) == DrainEnds(i) \/ ReleaseLeadership(i)

ForwardNext ==
    \/ \E m \in Messages : ForwardStep(m)
    \/ \E i \in Coordinators :
         \/ ReadBatch(i) \/ PollOf(i) \/ StartCoordinator(i) \/ BecomeLeader(i)
         \/ StopCoordinator(i) \/ StopOf(i) \/ CrashCoordinator(i)
    \/ GroupReset \/ Demoted \/ LeaseExpires

(* Commands are answered or time out, timers fire, a stop goes on, and the *)
(* lock of a leader that is gone expires.                                  *)
ForwardFairness ==
    /\ WF_forwardVars(LeaseExpires)
    /\ \A m \in Messages : WF_forwardVars(ForwardStep(m))
    /\ \A i \in Coordinators : /\ WF_forwardVars(PollOf(i))
                               /\ WF_forwardVars(StopOf(i))

ForwardSpec == ForwardInit /\ [][ForwardNext]_forwardVars /\ ForwardFairness

-----------------------------------------------------------------------------
ForwardTypeOK ==
    /\ coordinator \in [Coordinators -> {"off", "up", "draining", "stopping",
                                         "released", "crashed"}]
    /\ leader \in Coordinators \cup {NoCoordinator}
    /\ batchStage \in [Coordinators -> {"idle", "forwarding", "ack"}]
    /\ failures \in [Coordinators -> Nat]
    /\ circuitOpen \in [Coordinators -> BOOLEAN]
    /\ message \in [Messages -> {"new", "pending", "leftover", "acked",
                                 "skipped", "abandoned"}]
    /\ reader \in [Messages -> Coordinators \cup {NoCoordinator}]
    /\ forward \in [Messages ->
           {"none", "refused", "deferred", "dropped", "forwarded",
            "kept", "writing", "lost", "crashed"} \cup UnderWayForward]
    /\ attempt \in [Messages -> Nat]
    /\ copies \in [Messages -> Nat] /\ lostReplies \in [Messages -> Nat]

(* An opportunity is forwarded once, plus once for every command that was  *)
(* executed though the router saw it fail, whatever crashes, recoveries    *)
(* and changes of the leader come in between.                              *)
ForwardedAtMostOnce ==
    \A m \in Messages : copies[m] <= 1 + lostReplies[m]

(* A message is acknowledged only when its own forwarding has come to an   *)
(* outcome: what counts as forwarded has a copy the router knows of, and   *)
(* only a coordinator that stops drops what it could have forwarded.  The  *)
(* write of the fallback file counts as an outcome when it is begun.       *)
AckedIsSettled ==
    \A m \in Messages :
        message[m] = "acked" =>
            /\ forward[m] \notin UnderWayForward \cup {"none", "crashed"}
            /\ forward[m] = "forwarded" => copies[m] > lostReplies[m]
            /\ forward[m] = "dropped" => coordinator[reader[m]] # "up"

(* Nothing reaches the execution stream from a coordinator that has        *)
(* released its leadership in stop: its successor forwards alone.          *)
NoForwardAfterRelease ==
    [][\A m \in Messages :
           copies'[m] > copies[m] => coordinator[reader[m]] # "released"]_forwardVars

(* Every forwarding that was begun comes to an outcome, however its        *)
(* attempts and the circuit go, unless its coordinator crashes.  (A        *)
(* message is forwarded once: that none is under way again and again says  *)
(* that none is for ever.)                                                 *)
ForwardingEnds ==
    []<>(\A m \in Messages : forward[m] \notin UnderWayForward)

(* A stop is not held up: the leadership is given up in the end.  (A stop  *)
(* never goes back.)                                                       *)
StopGivesUpLeadership ==
    []<>(\A i \in Coordinators :
            coordinator[i] \in {"off", "up"} \/ (~Serving(i) /\ leader # i))
=============================================================================
