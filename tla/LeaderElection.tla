--------------------------- MODULE LeaderElection ---------------------------
(***************************************************************************)
(* Which coordinator leads: a Redis key with a time to live, renewed by    *)
(* the heartbeat of its owner, and standby coordinators that stay out of   *)
(* the election until a failed region activates them.                      *)
(*                                                                         *)
(*   leadership-election-service.ts   acquisition, heartbeat, demotion     *)
(*   standby-activation-manager.ts    activation, one at a time            *)
(*   redis/client.ts                  SET NX, check-and-extend, -delete    *)
(*                                                                         *)
(* The instance id holds the start time, so an element of Instances is one *)
(* incarnation of a coordinator that may become leader (the others take no *)
(* part).  A command is sent, is executed by Redis or not, and its reply   *)
(* is handled: three steps, with Latency the longest the three may take.   *)
(***************************************************************************)
EXTENDS Naturals

CONSTANTS
  Instances,
  Standbys,           \* instances configured as standby
  None,               \* the lock key is absent
  LockTtl,            \* lockTtlMs, in ticks
  HeartbeatMin,       \* heartbeatIntervalMs less and plus the jitter
  HeartbeatMax,
  MaxFailures,        \* maxHeartbeatFailures
  Latency,            \* bound: ticks until a command is answered or has failed
  Mortal, Stoppable,  \* bound: instances that may crash, or be stopped
  Unlucky, MaxFaults  \* bound: instances whose commands may fail, and how many may

ASSUME InstancesAssumption ==
  /\ None \notin Instances
  /\ Standbys \subseteq Instances

ASSUME LeaseAssumption ==
  /\ {HeartbeatMin, HeartbeatMax, Latency, MaxFaults} \subseteq Nat
  /\ {LockTtl, MaxFailures} \subseteq Nat \ {0}
  /\ HeartbeatMin <= HeartbeatMax

VARIABLES
  lock,        \* value of the lock key
  ttl,         \* its remaining time to live
  stage,       \* life of the service in an instance
  leader,      \* _isLeader
  standby,     \* isStandby
  failures,    \* consecutiveHeartbeatFailures
  call,        \* call[i][t]: the command thread t of i waits for
  reply,       \* reply[i][t]: what it will be told
  waited,      \* waited[i][t]: time since it was sent
  armed,       \* the heartbeat timer is set
  timer,       \* timer[i]: time since it was set
  missed,      \* history: heartbeats of this leadership that failed, in a row
  faults

electVars == <<stage, leader, standby, failures, missed>>
callVars  == <<call, reply, waited>>
timerVars == <<armed, timer>>
vars == <<lock, ttl, electVars, callVars, timerVars, faults>>

(* Chains of awaits that may be under way at once.  The heartbeat's includes the *)
(* first acquisition, in start().                                                *)
Threads == {"heartbeat", "activation", "stop"}
Calls   == {"none", "setNx", "own", "renew", "release"}
Replies == {"none", "yes", "no", "error"}
Stages  == {"off", "starting", "running", "stopping", "stopped", "down"}

TypeOK ==
  /\ lock \in Instances \cup {None}
  /\ ttl \in 0..LockTtl
  /\ stage \in [Instances -> Stages]
  /\ leader \in [Instances -> BOOLEAN]
  /\ standby \in [Instances -> BOOLEAN]
  /\ failures \in [Instances -> Nat]
  /\ call \in [Instances -> [Threads -> Calls]]
  /\ reply \in [Instances -> [Threads -> Replies]]
  /\ waited \in [Instances -> [Threads -> 0..Latency]]
  /\ armed \in [Instances -> BOOLEAN]
  /\ timer \in [Instances -> 0..HeartbeatMax]
  /\ missed \in [Instances -> Nat]
  /\ faults \in 0..MaxFaults

Init ==
  /\ lock = None
  /\ ttl = 0
  /\ stage = [i \in Instances |-> "off"]
  /\ leader = [i \in Instances |-> FALSE]
  /\ standby = [i \in Instances |-> i \in Standbys]
  /\ failures = [i \in Instances |-> 0]
  /\ call = [i \in Instances |-> [t \in Threads |-> "none"]]
  /\ reply = [i \in Instances |-> [t \in Threads |-> "none"]]
  /\ waited = [i \in Instances |-> [t \in Threads |-> 0]]
  /\ armed = [i \in Instances |-> FALSE]
  /\ timer = [i \in Instances |-> 0]
  /\ missed = [i \in Instances |-> 0]
  /\ faults = 0

-----------------------------------------------------------------------------
(* Commands *)

\* The service has been started and not been stopped: its field "running".
Running(i) == stage[i] \in {"starting", "running"}
Busy(i, t) == call[i][t] # "none"
InFlight(i, t) == Busy(i, t) /\ reply[i][t] = "none"

\* Thread t of i sends command c, or is through and waits for nothing.
Send(i, t, c) ==
  /\ call' = [call EXCEPT ![i][t] = c]
  /\ reply' = [reply EXCEPT ![i][t] = "none"]
  /\ waited' = [waited EXCEPT ![i][t] = 0]
Done(i, t) == Send(i, t, "none")

Answer(i, t, r) == reply' = [reply EXCEPT ![i][t] = r]

\* SET NX with a time to live.
SetNx(i, t) ==
  /\ call[i][t] = "setNx"
  /\ IF lock = None
     THEN lock' = i /\ ttl' = LockTtl /\ Answer(i, t, "yes")
     ELSE UNCHANGED <<lock, ttl>> /\ Answer(i, t, "no")

\* Variants: the script checks the owner and forgets to extend, or it adds a whole
\* lease to the time that is left.
CheckOnly(i) == ttl
AddedTtl(i) == ttl + LockTtl
RenewedTtl(i) == LockTtl

\* renewLockIfOwned
RenewIfOwned(i, t) ==
  /\ call[i][t] \in {"own", "renew"}
  /\ UNCHANGED lock
  /\ IF lock = i
     THEN ttl' = RenewedTtl(i) /\ Answer(i, t, "yes")
     ELSE UNCHANGED ttl /\ Answer(i, t, "no")

\* Variant: the key is deleted, whoever owns it.
Anyones(i) == TRUE
OwnedBy(i) == lock = i

\* releaseLockIfOwned
ReleaseIfOwned(i, t) ==
  /\ call[i][t] = "release"
  /\ IF OwnedBy(i)
     THEN lock' = None /\ ttl' = 0 /\ Answer(i, t, "yes")
     ELSE UNCHANGED <<lock, ttl>> /\ Answer(i, t, "no")

Execute(i, t) ==
  /\ InFlight(i, t)
  /\ SetNx(i, t) \/ RenewIfOwned(i, t) \/ ReleaseIfOwned(i, t)
  /\ UNCHANGED <<electVars, call, waited, timerVars, faults>>

\* The command, executed or not, ends in an error.
Fail(i, t) ==
  /\ Busy(i, t)
  /\ reply[i][t] # "error"
  /\ i \in Unlucky /\ faults < MaxFaults
  /\ faults' = faults + 1
  /\ Answer(i, t, "error")
  /\ UNCHANGED <<lock, ttl, electVars, call, waited, timerVars>>

-----------------------------------------------------------------------------
(* Election *)

Activating(i) == Busy(i, "activation")

\* A standby instance waits for its activation.
MayAcquire(i) == ~standby[i] \/ Activating(i)

\* Variant: a heartbeat that returns early or throws schedules no other.
RearmAfterSuccess(i) ==
  /\ armed' = [armed EXCEPT ![i] = Running(i) /\ reply[i]["heartbeat"] = "yes"]
  /\ timer' = [timer EXCEPT ![i] = 0]

\* scheduleNext: a new timer, unless the service has been stopped.
Rearm(i) ==
  /\ armed' = [armed EXCEPT ![i] = Running(i)]
  /\ timer' = [timer EXCEPT ![i] = 0]

\* start(): tries once, and then at every heartbeat.
Start(i) ==
  /\ stage[i] = "off"
  /\ failures' = [failures EXCEPT ![i] = 0]
  /\ IF MayAcquire(i)
     THEN /\ stage' = [stage EXCEPT ![i] = "starting"]
          /\ Send(i, "heartbeat", "setNx")
          /\ UNCHANGED timerVars
     ELSE /\ stage' = [stage EXCEPT ![i] = "running"]
          /\ armed' = [armed EXCEPT ![i] = TRUE]
          /\ timer' = [timer EXCEPT ![i] = 0]
          /\ UNCHANGED callVars
  /\ UNCHANGED <<lock, ttl, leader, standby, missed, faults>>

\* The timer fires: a leader renews, the others try to acquire.
Heartbeat(i) ==
  /\ armed[i]
  /\ timer[i] >= HeartbeatMin
  /\ IF leader[i] \/ MayAcquire(i)
     THEN /\ armed' = [armed EXCEPT ![i] = FALSE]
          /\ timer' = [timer EXCEPT ![i] = 0]
          /\ Send(i, "heartbeat", IF leader[i] THEN "renew" ELSE "setNx")
     ELSE Rearm(i) /\ UNCHANGED callVars
  /\ UNCHANGED <<lock, ttl, electVars, faults>>

\* activateStandby: refused while another activation is under way.
Activate(i) ==
  /\ Running(i)
  /\ ~Activating(i)
  /\ ~leader[i] /\ standby[i]
  /\ Send(i, "activation", "setNx")
  /\ UNCHANGED <<lock, ttl, electVars, timerVars, faults>>

\* SET NX has found the key: perhaps it is the instance's own.
AskOwnership(i, t) ==
  /\ call[i][t] = "setNx" /\ reply[i][t] = "no"
  /\ Send(i, t, "own")
  /\ UNCHANGED <<lock, ttl, electVars, timerVars, faults>>

\* The end of tryAcquireLeadership; errors count as a refusal.  An activation that
\* acquired ends the standby, a heartbeat is followed by the next.
Acquired(i, t) ==
  /\ call[i][t] \in {"setNx", "own"} /\ reply[i][t] = "yes"
  /\ leader' = [leader EXCEPT ![i] = TRUE]
  /\ missed' = [missed EXCEPT ![i] = 0]
Refused(i, t) ==
  /\ \/ call[i][t] = "own" /\ reply[i][t] = "no"
     \/ call[i][t] \in {"setNx", "own"} /\ reply[i][t] = "error"
  /\ UNCHANGED <<leader, missed>>

EndAttempt(i) ==
  /\ Acquired(i, "heartbeat") \/ Refused(i, "heartbeat")
  /\ Done(i, "heartbeat")
  /\ Rearm(i)
  /\ stage' = [stage EXCEPT ![i] = IF @ = "starting" THEN "running" ELSE @]
  /\ UNCHANGED <<lock, ttl, standby, failures, faults>>

EndActivation(i) ==
  /\ \/ Acquired(i, "activation") /\ standby' = [standby EXCEPT ![i] = FALSE]
     \/ Refused(i, "activation") /\ UNCHANGED standby
  /\ Done(i, "activation")
  /\ UNCHANGED <<lock, ttl, stage, failures, timerVars, faults>>

\* Variant: one failure more than the limit is put up with.
OneTooMany(count) == count > MaxFailures
TooMany(count) == count >= MaxFailures

\* The reply to a leader's renewal.  The count of failures is set back by a
\* renewal only, not when leadership is acquired again.
EndRenewal(i) ==
  LET r     == reply[i]["heartbeat"]
      count == failures[i] + 1 IN
  /\ call[i]["heartbeat"] = "renew"
  /\ \/ /\ r = "yes"
        /\ failures' = [failures EXCEPT ![i] = 0]
        /\ missed' = [missed EXCEPT ![i] = 0]
        /\ UNCHANGED leader
     \/ /\ r = "no"
        /\ leader' = [leader EXCEPT ![i] = FALSE]
        /\ UNCHANGED <<failures, missed>>
     \/ /\ r = "error"
        /\ failures' = [failures EXCEPT ![i] = count]
        /\ missed' = [missed EXCEPT ![i] = @ + 1]
        /\ leader' = [leader EXCEPT ![i] = @ /\ ~TooMany(count)]
  /\ Done(i, "heartbeat")
  /\ Rearm(i)
  /\ UNCHANGED <<lock, ttl, stage, standby, faults>>

\* stop(): no more heartbeats, and leadership is released if it is held now.
Stop(i) ==
  /\ i \in Stoppable
  /\ stage[i] = "running"
  /\ armed' = [armed EXCEPT ![i] = FALSE]
  /\ timer' = [timer EXCEPT ![i] = 0]
  /\ IF leader[i]
     THEN stage' = [stage EXCEPT ![i] = "stopping"] /\ Send(i, "stop", "release")
     ELSE stage' = [stage EXCEPT ![i] = "stopped"] /\ UNCHANGED callVars
  /\ UNCHANGED <<lock, ttl, leader, standby, failures, missed, faults>>

\* Whatever the reply is, the instance does not lead any more.
EndStop(i) ==
  /\ call[i]["stop"] = "release" /\ reply[i]["stop"] # "none"
  /\ leader' = [leader EXCEPT ![i] = FALSE]
  /\ stage' = [stage EXCEPT ![i] = "stopped"]
  /\ Done(i, "stop")
  /\ UNCHANGED <<lock, ttl, standby, failures, missed, timerVars, faults>>

\* The process ends: a crash, or the exit that follows the stop.
Exit(i) ==
  /\ \/ stage[i] \in {"stopping", "stopped"}
     \/ Running(i) /\ i \in Mortal
  /\ stage' = [stage EXCEPT ![i] = "down"]
  /\ leader' = [leader EXCEPT ![i] = FALSE]
  /\ standby' = [standby EXCEPT ![i] = FALSE]
  /\ failures' = [failures EXCEPT ![i] = 0]
  /\ missed' = [missed EXCEPT ![i] = 0]
  /\ call' = [call EXCEPT ![i] = [t \in Threads |-> "none"]]
  /\ reply' = [reply EXCEPT ![i] = [t \in Threads |-> "none"]]
  /\ waited' = [waited EXCEPT ![i] = [t \in Threads |-> 0]]
  /\ armed' = [armed EXCEPT ![i] = FALSE]
  /\ timer' = [timer EXCEPT ![i] = 0]
  /\ UNCHANGED <<lock, ttl, faults>>

\* One unit of time.  Timers fire and commands are answered when they are due.
Tick ==
  /\ \A i \in Instances :
       /\ armed[i] => timer[i] < HeartbeatMax
       /\ \A t \in Threads : Busy(i, t) => waited[i][t] < Latency
  /\ timer' = [i \in Instances |-> IF armed[i] THEN timer[i] + 1 ELSE timer[i]]
  /\ waited' = [i \in Instances |-> [t \in Threads |->
       IF Busy(i, t) THEN waited[i][t] + 1 ELSE waited[i][t]]]
  /\ ttl' = IF ttl > 0 THEN ttl - 1 ELSE 0
  /\ lock' = IF ttl <= 1 THEN None ELSE lock
  /\ UNCHANGED <<electVars, call, reply, armed, faults>>

-----------------------------------------------------------------------------

Service(i) ==
  \/ Start(i) \/ Heartbeat(i) \/ Activate(i)
  \/ EndAttempt(i) \/ EndActivation(i) \/ EndRenewal(i)
  \/ Stop(i) \/ EndStop(i) \/ Exit(i)

Command(i, t) == Execute(i, t) \/ Fail(i, t) \/ AskOwnership(i, t)

Next ==
  \/ \E i \in Instances : Service(i)
  \/ \E i \in Instances, t \in Threads : Command(i, t)
  \/ Tick

Spec == Init /\ [][Next]_vars

\* Each thread goes on and so does time: timers fire, Redis answers, replies are
\* handled.  Nothing makes an instance start, stop, crash or be activated.
Answered(i, t) == Execute(i, t) \/ AskOwnership(i, t)

Fairness ==
  /\ \A i \in Instances :
       /\ WF_vars(Heartbeat(i) \/ Answered(i, "heartbeat") \/ EndAttempt(i) \/ EndRenewal(i))
       /\ WF_vars(Answered(i, "activation") \/ EndActivation(i))
       /\ WF_vars(Answered(i, "stop") \/ EndStop(i))
  /\ WF_vars(Tick)

FairSpec == Spec /\ Fairness

-----------------------------------------------------------------------------
(* Properties *)

\* An instance that acts as leader.  One that is stopping has stopped its consumers.
Leads(i) == leader[i] /\ Running(i)

\* "Only one instance across all nodes can be leader at a time."
OneLeader == \A i, j \in Instances : Leads(i) /\ Leads(j) => i = j

\* The longest a leader may go on without renewing: an acquisition answered late,
\* with an attempt of its own heartbeat still under way, and then k heartbeats.
Budget(k) == 3 * Latency + k * (HeartbeatMax + Latency)

\* A leader holds the lock while the heartbeats it has missed, and the one under
\* way, take less than the lease: leadership is in doubt only after failures.
LeaderInTimeHoldsLock ==
  \A i \in Instances : Leads(i) /\ Budget(missed[i] + 1) < LockTtl => lock = i

\* If the lease outlasts the failures that demote, there is one leader.
OneLeaderIfLeaseOutlasts == Budget(MaxFailures) < LockTtl => OneLeader

\* The lock leaves its owner when its time is over, or when the owner stops.
LockLostOnlyByOwner ==
  [][\A i \in Instances : lock = i /\ lock' # i =>
       ttl = 1 \/ (stage[i] = "stopping" /\ call[i]["stop"] = "release")]_vars

\* A leader is demoted for failing heartbeats only when MaxFailures of them in a
\* row have failed it.
DemotedOnlyAfterFailures ==
  [][\A i \in Instances :
       Leads(i) /\ ~leader'[i] /\ Running(i)' /\ reply[i]["heartbeat"] = "error" =>
         missed'[i] >= MaxFailures]_vars

\* While an instance that is no standby (any more) stays up, somebody who holds the
\* lock leads in the end, however the leader before has gone.
SomebodyLeads ==
  \A i \in Instances :
    (stage[i] = "running" /\ ~standby[i])
      ~> (stage[i] # "running" \/ \E j \in Instances : Leads(j) /\ lock = j)
=============================================================================
