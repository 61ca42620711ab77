---------------------------- MODULE StreamPolling ----------------------------
(***************************************************************************)
(* The poll loop of shared/core/src/redis/stream-consumer.ts: one consumer *)
(* of a group, driven by its timer, with pause and resume called from the  *)
(* callback of the queue at any await of a poll, and stop at any time.     *)
(*                                                                         *)
(* A step is the code between two awaits.  The entries of the stream are   *)
(* followed from XADD to XACK, because a poll that is never started, or    *)
(* that goes on after stop, is noticed by what happens to them.  How long  *)
(* a timer runs (the error backoff among it) is left open: it fires some   *)
(* time after it was set.                                                  *)
(***************************************************************************)
EXTENDS Naturals, FiniteSets

CONSTANTS
    Entries,    \* what is added to the stream
    Polls,      \* poll() calls that may be under way at once
    NoPoll      \* pollPromise before the first poll, or a resolved one

ASSUME PollAssumption == NoPoll \notin Polls /\ IsFiniteSet(Polls)

VARIABLES
    running, pausedPolling, isPolling,
    pollTimer,      \* the handle is not null
    timersDue,      \* timers of this consumer that have yet to fire
    pollPromise,
    stopCall,       \* none, waiting for pollPromise, or returned
    pollPhase,      \* the await each poll is at
    inHand,         \* entries a poll has read and not dealt with
    acking,         \* entries a poll waits for the XACK of
    batchHandler, autoAck,   \* how the consumer is configured
    entry,          \* each entry: unsent, new, pending, acked, dead, lost
    groupExists

switches == <<running, pausedPolling>>
loopVars == <<isPolling, pollTimer, timersDue, pollPromise>>
streamVars == <<entry, groupExists>>
configVars == <<batchHandler, autoAck>>
pollVars == <<switches, loopVars, stopCall, pollPhase, inHand, acking,
              configVars, streamVars>>

PollInit ==
    /\ running = FALSE /\ pausedPolling = FALSE /\ isPolling = FALSE
    /\ pollTimer = FALSE /\ timersDue = 0 /\ pollPromise = NoPoll
    /\ stopCall = "none"
    /\ pollPhase = [q \in Polls |-> "off"]
    /\ inHand = [q \in Polls |-> {}] /\ acking = [q \in Polls |-> {}]
    /\ batchHandler \in BOOLEAN /\ autoAck \in BOOLEAN
    /\ entry = [e \in Entries |-> "unsent"] /\ groupExists = TRUE

InState(s) == {e \in Entries : entry[e] = s}
Becomes(es, s) == entry' = [e \in Entries |-> IF e \in es THEN s ELSE entry[e]]
Alive == {q \in Polls : pollPhase[q] # "off"}

-----------------------------------------------------------------------------
\* Variant: the handle of a timer that has fired is kept.
SchedulePollKeepingTimer ==
    /\ UNCHANGED pollTimer
    /\ \/ /\ running' /\ ~pausedPolling'
          /\ isPolling' = TRUE
          /\ \E q \in Polls \ Alive :
               /\ pollPromise' = q
               /\ pollPhase' = [pollPhase EXCEPT ![q] = "read"]
       \/ /\ ~running' \/ pausedPolling'
          /\ isPolling' = FALSE
          /\ pollPromise' = NoPoll
          /\ UNCHANGED pollPhase
(* schedulePoll forgets the timer that led to it and calls poll, which     *)
(* returns at once unless the consumer runs and is not paused.                   *)
SchedulePoll ==
    /\ pollTimer' = FALSE
    /\ \/ /\ running' /\ ~pausedPolling'
          /\ isPolling' = TRUE
          /\ \E q \in Polls \ Alive :
               /\ pollPromise' = q
               \* every so many polls begin with a look for stuck entries
               /\ \E phase \in {"cleanup", "read"} :
                    pollPhase' = [pollPhase EXCEPT ![q] = phase]
       \/ /\ ~running' \/ pausedPolling'
          /\ isPolling' = FALSE
          /\ pollPromise' = NoPoll
          /\ UNCHANGED pollPhase

StartConsumer ==
    /\ ~running /\ stopCall = "none"
    /\ running' = TRUE
    /\ UNCHANGED <<pausedPolling, timersDue>>
    /\ SchedulePoll
    /\ UNCHANGED <<stopCall, inHand, acking, configVars, streamVars>>

TimerFires ==
    /\ timersDue > 0
    /\ timersDue' = timersDue - 1
    /\ UNCHANGED switches
    /\ SchedulePoll
    /\ UNCHANGED <<stopCall, inHand, acking, configVars, streamVars>>

PauseConsumer ==
    /\ ~pausedPolling
    /\ pausedPolling' = TRUE
    /\ UNCHANGED <<running, loopVars, stopCall, pollPhase, inHand, acking,
                   configVars, streamVars>>

\* Variant: a poll under way is not looked at.
MustRestartUntimed == running /\ ~pollTimer
(* The loop is started again only if nothing would go on by itself.        *)
MustRestart == running /\ ~pollTimer /\ ~isPolling

ResumeConsumer ==
    /\ pausedPolling
    /\ pausedPolling' = FALSE
    /\ UNCHANGED <<running, timersDue>>
    /\ \/ MustRestart /\ SchedulePoll
       \/ ~MustRestart /\ UNCHANGED <<isPolling, pollTimer, pollPromise,
                                      pollPhase>>
    /\ UNCHANGED <<stopCall, inHand, acking, configVars, streamVars>>

\* Variant: the poll is not waited for.
StopAtOnce ==
    /\ stopCall = "none"
    /\ running' = FALSE /\ pollTimer' = FALSE
    /\ timersDue' = IF pollTimer /\ timersDue > 0 THEN timersDue - 1
                                                  ELSE timersDue
    /\ stopCall' = "returned"
    /\ UNCHANGED <<pausedPolling, isPolling, pollPromise, pollPhase, inHand, acking,
                   configVars, streamVars>>
(* stop clears the timer it knows of and waits for the poll it knows of.   *)
StopConsumer ==
    /\ stopCall = "none"
    /\ running' = FALSE
    /\ timersDue' = IF pollTimer /\ timersDue > 0 THEN timersDue - 1
                                                  ELSE timersDue
    /\ pollTimer' = FALSE
    /\ stopCall' = IF pollPromise = NoPoll THEN "returned" ELSE "waiting"
    /\ UNCHANGED <<pausedPolling, isPolling, pollPromise, pollPhase, inHand, acking,
                   configVars, streamVars>>

StopResolves ==
    /\ stopCall = "waiting" /\ pollPhase[pollPromise] = "off"
    /\ stopCall' = "returned"
    /\ pollPromise' = NoPoll
    /\ UNCHANGED <<switches, isPolling, pollTimer, timersDue, pollPhase,
                   inHand, acking, configVars, streamVars>>

-----------------------------------------------------------------------------
(* The awaits of a poll *)

PollGoesOn(q, phase, hand, acks) ==
    /\ pollPhase' = [pollPhase EXCEPT ![q] = phase]
    /\ inHand' = [inHand EXCEPT ![q] = hand]
    /\ acking' = [acking EXCEPT ![q] = acks]

\* Variant: a poll that fails to read does not arm the next one.
EndPollUnlessFailed(q) ==
    /\ PollGoesOn(q, "off", {}, {})
    /\ isPolling' = FALSE
    /\ \/ /\ running /\ ~pausedPolling /\ pollPhase[q] # "read"
          /\ pollTimer' = TRUE
          /\ timersDue' = timersDue + 1
       \/ /\ ~running \/ pausedPolling \/ pollPhase[q] = "read"
          /\ UNCHANGED <<pollTimer, timersDue>>
    /\ UNCHANGED pollPromise
(* However a poll ends, well or in error, it arms the next one itself,     *)
(* after it has said that it no longer runs.                               *)
EndPoll(q) ==
    /\ PollGoesOn(q, "off", {}, {})
    /\ isPolling' = FALSE
    /\ \/ /\ running /\ ~pausedPolling
          /\ pollTimer' = TRUE
          /\ timersDue' = timersDue + 1
       \/ /\ ~running \/ pausedPolling
          /\ UNCHANGED <<pollTimer, timersDue>>
    /\ UNCHANGED pollPromise

(* cleanupStuckPendingMessages: pending entries that others have claimed   *)
(* too often go to the dead letter queue, those for which that fails stay. *)
CleanedUp(q) ==
    /\ pollPhase[q] = "cleanup"
    /\ \E stuck \in SUBSET InState("pending") : Becomes(stuck, "dead")
    /\ PollGoesOn(q, "read", {}, {})
    /\ UNCHANGED <<switches, loopVars, stopCall, configVars, groupExists>>

ReadReplies(q) ==
    /\ pollPhase[q] = "read" /\ groupExists
    /\ \E es \in SUBSET InState("new") \ {{}} :
         /\ Becomes(es, "pending")
         /\ PollGoesOn(q, IF batchHandler THEN "batch" ELSE "handle", es, {})
    /\ UNCHANGED <<switches, loopVars, stopCall, configVars, groupExists>>

\* Variant: a read without a result is begun again within the poll.
ReadAgain(q) ==
    /\ pollPhase[q] = "read" /\ groupExists
    /\ \E es \in SUBSET InState("new") : Becomes(es, "pending")
    /\ UNCHANGED <<switches, loopVars, stopCall, pollPhase, inHand, acking,
                   configVars, groupExists>>
(* Nothing new within the block time, an error, or a reply that is lost    *)
(* after the group has marked the entries as delivered.                    *)
ReadFails(q) ==
    /\ pollPhase[q] = "read" /\ groupExists
    /\ \E es \in SUBSET InState("new") : Becomes(es, "pending")
    /\ EndPoll(q)
    /\ UNCHANGED <<switches, stopCall, configVars, groupExists>>

GroupMissing(q) ==
    /\ pollPhase[q] = "read" /\ ~groupExists
    /\ PollGoesOn(q, "recreate", {}, {})
    /\ UNCHANGED <<switches, loopVars, stopCall, configVars, streamVars>>

(* The group is made anew, from the end of the stream.                     *)
GroupRecreated(q) ==
    /\ pollPhase[q] = "recreate"
    /\ groupExists' = TRUE
    /\ Becomes(InState("new"), "lost")
    /\ EndPoll(q)
    /\ UNCHANGED <<switches, stopCall, configVars>>

RecreateFails(q) ==
    /\ pollPhase[q] = "recreate"
    /\ EndPoll(q)
    /\ UNCHANGED <<switches, stopCall, configVars, streamVars>>

(* The batch handler returns what it has dealt with, or throws.            *)
BatchHandled(q) ==
    /\ pollPhase[q] = "batch"
    /\ \E done \in SUBSET inHand[q] :
         \/ /\ autoAck /\ done # {}
            /\ PollGoesOn(q, "ack", {}, done)
            /\ UNCHANGED loopVars
         \/ /\ ~autoAck \/ done = {}
            /\ EndPoll(q)
    /\ UNCHANGED <<switches, stopCall, configVars, streamVars>>

(* After one message the next, unless stop has been called.                *)
NextMessage(q, rest) ==
    \/ /\ rest # {} /\ running
       /\ PollGoesOn(q, "handle", rest, {})
       /\ UNCHANGED loopVars
    \/ /\ rest = {} \/ ~running
       /\ EndPoll(q)

MessageHandled(q) ==
    /\ pollPhase[q] = "handle"
    /\ \E e \in inHand[q] :
         \/ /\ autoAck
            /\ PollGoesOn(q, "ack", inHand[q] \ {e}, {e})
            /\ UNCHANGED loopVars
         \/ NextMessage(q, inHand[q] \ {e})     \* failed, or not acked here
    /\ UNCHANGED <<switches, stopCall, configVars, streamVars>>

AckReplies(q) ==
    /\ pollPhase[q] = "ack"
    /\ \E done \in SUBSET (acking[q] \cap InState("pending")) :
         Becomes(done, "acked")
    /\ NextMessage(q, inHand[q])
    /\ UNCHANGED <<switches, stopCall, configVars, groupExists>>

-----------------------------------------------------------------------------
(* The stream and its group in Redis *)

Publish(e) ==
    /\ entry[e] = "unsent"
    /\ Becomes({e}, "new")
    /\ UNCHANGED <<switches, loopVars, stopCall, pollPhase, inHand, acking,
                   configVars, groupExists>>

(* Redis restarts without its data: the group and its pending list go.     *)
GroupVanishes ==
    /\ groupExists
    /\ groupExists' = FALSE
    /\ Becomes(InState("pending"), "lost")
    /\ UNCHANGED <<switches, loopVars, stopCall, pollPhase, inHand, acking,
                   configVars>>

PollStep(q) ==
    \/ CleanedUp(q) \/ ReadReplies(q) \/ ReadFails(q) \/ GroupMissing(q)
    \/ GroupRecreated(q) \/ RecreateFails(q) \/ BatchHandled(q)
    \/ MessageHandled(q) \/ AckReplies(q)

PollNext ==
    \/ StartConsumer \/ TimerFires \/ PauseConsumer \/ ResumeConsumer
    \/ StopConsumer \/ StopResolves
    \/ \E q \in Polls : PollStep(q)
    \/ \E e \in Entries : Publish(e)
    \/ GroupVanishes

(* Timers fire, an await comes to an end, and Redis, asked again and again *)
(* for entries or for a new group, answers some time.                      *)
PollFairness ==
    /\ WF_pollVars(TimerFires) /\ WF_pollVars(StopResolves)
    /\ \A q \in Polls : /\ WF_pollVars(PollStep(q))
                        /\ SF_pollVars(ReadReplies(q))
                        /\ SF_pollVars(GroupRecreated(q))

PollSpec == PollInit /\ [][PollNext]_pollVars /\ PollFairness

-----------------------------------------------------------------------------
PollTypeOK ==
    /\ running \in BOOLEAN /\ pausedPolling \in BOOLEAN /\ isPolling \in BOOLEAN
    /\ pollTimer \in BOOLEAN /\ timersDue \in Nat
    /\ pollPromise \in Polls \cup {NoPoll}
    /\ stopCall \in {"none", "waiting", "returned"}
    /\ pollPhase \in [Polls -> {"off", "cleanup", "read", "recreate", "batch",
                                "handle", "ack"}]
    /\ inHand \in [Polls -> SUBSET Entries]
    /\ acking \in [Polls -> SUBSET Entries]
    /\ batchHandler \in BOOLEAN /\ autoAck \in BOOLEAN
    /\ entry \in [Entries -> {"unsent", "new", "pending", "acked", "dead",
                              "lost"}]
    /\ groupExists \in BOOLEAN

(* There is one chain of polls: never two polls under way, nor a poll and  *)
(* a timer that will start another one, whenever resume is called.         *)
OnePollChain ==
    \A q \in Alive : Alive = {q} /\ timersDue = 0

(* A consumer that runs and is not paused is never silent: a poll is under *)
(* way or a timer will start one.                                          *)
NeverSilent ==
    running /\ ~pausedPolling => Alive # {} \/ timersDue > 0

(* Once stop has returned nothing of the consumer is left to read, handle  *)
(* or acknowledge a message.                                               *)
StopIsFinal ==
    stopCall = "returned" => Alive = {} /\ timersDue = 0

(* Every entry of the stream is read by a consumer that runs unpaused:     *)
(* none of them stays new.                                                 *)
NewIsRead ==
    []<>(InState("new") = {} \/ ~running \/ pausedPolling)

(* stop returns, and does not wait for ever: the poll it waits for comes   *)
(* to an end.                                                              *)
StopReturns == []<>(stopCall # "waiting")
=============================================================================
