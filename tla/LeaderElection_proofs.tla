----------------------- MODULE LeaderElection_proofs -----------------------
(* The lease of LeaderElection, for every set of instances and every timing. *)
EXTENDS LeaderElection, TLAPS

(* What the threads of an instance may be doing. *)

\* Between heartbeats a timer is set; only a leader renews, only a stop releases.
ThreadsInStep(i) ==
  /\ call[i]["heartbeat"] \in {"none", "setNx", "own", "renew"}
  /\ call[i]["activation"] \in {"none", "setNx", "own"}
  /\ call[i]["stop"] \in {"none", "release"}
  /\ Busy(i, "stop") => stage[i] = "stopping"
  /\ Running(i) => (armed[i] <=> ~Busy(i, "heartbeat"))
  /\ armed[i] => Running(i)
  /\ Running(i) /\ call[i]["heartbeat"] = "renew" => leader[i]
  /\ stage[i] = "off" => ~leader[i] /\ missed[i] = 0 /\ \A t \in Threads : ~Busy(i, t)

\* A leader has missed fewer heartbeats than would have demoted it.
FewMissed(i) == missed[i] <= failures[i] /\ (leader[i] => missed[i] < MaxFailures)

\* The lock key exists while it has time left.
KeyExpires == lock = None <=> ttl = 0

(* The lease *)

\* i renewed the lock at most n units of time ago, or the lease may be over.
Fresh(i, n) == n < LockTtl => lock = i /\ ttl + n >= LockTtl

\* The longest time since a leader's last renewal.  An attempt of its heartbeat may
\* have been under way when its activation made it leader.
SinceRenewal(i) ==
  CASE call[i]["heartbeat"] = "none"  -> Budget(missed[i]) + timer[i]
    [] call[i]["heartbeat"] = "renew" -> Budget(missed[i]) + HeartbeatMax + waited[i]["heartbeat"]
    [] call[i]["heartbeat"] = "setNx" -> Latency + waited[i]["heartbeat"]
    [] call[i]["heartbeat"] = "own"   -> 2 * Latency + waited[i]["heartbeat"]

LeaderFresh(i) == Leads(i) => Fresh(i, SinceRenewal(i))

\* A "yes" on its way was true when Redis gave it.
YesFresh(i) ==
  \A t \in Threads :
    Running(i) /\ call[i][t] \in {"setNx", "own", "renew"} /\ reply[i][t] = "yes"
      => Fresh(i, waited[i][t])

Order == KeyExpires /\ \A i \in Instances : ThreadsInStep(i) /\ FewMissed(i)
Lease == \A i \in Instances : LeaderFresh(i) /\ YesFresh(i)

(* Types *)

LEMMA SendTypes ==
  ASSUME TypeOK, NEW i \in Instances, NEW t \in Threads, NEW c \in Calls, Send(i, t, c)
  PROVE  /\ call' \in [Instances -> [Threads -> Calls]]
         /\ reply' \in [Instances -> [Threads -> Replies]]
         /\ waited' \in [Instances -> [Threads -> 0..Latency]]
BY LeaseAssumption DEF TypeOK, Send, Replies

\* A timer set back stays a timer.
LEMMA ResetTypes ==
  ASSUME TypeOK, NEW i \in Instances, timer' = [timer EXCEPT ![i] = 0]
  PROVE  timer' \in [Instances -> 0..HeartbeatMax]
BY LeaseAssumption DEF TypeOK

\* So does one that is set for the next heartbeat, or left off.
LEMMA RearmTypes ==
  ASSUME TypeOK, NEW i \in Instances, Rearm(i)
  PROVE  armed' \in [Instances -> BOOLEAN] /\ timer' \in [Instances -> 0..HeartbeatMax]
<1>1. Running(i) \in BOOLEAN
  BY DEF Running
<1>2. armed' \in [Instances -> BOOLEAN]
  <2>1. armed' = [armed EXCEPT ![i] = TRUE] \/ armed' = [armed EXCEPT ![i] = FALSE]
    BY <1>1 DEF Rearm
  <2>2. CASE armed' = [armed EXCEPT ![i] = TRUE]
    BY <2>2 DEF TypeOK
  <2>3. CASE armed' = [armed EXCEPT ![i] = FALSE]
    BY <2>3 DEF TypeOK
  <2> QED BY <2>1, <2>2, <2>3
<1>3. timer' \in [Instances -> 0..HeartbeatMax]
  BY ResetTypes DEF Rearm
<1> QED BY <1>2, <1>3

\* What Redis executes, refuses or fails keeps the types.
LEMMA CommandTypes ==
  ASSUME TypeOK, NEW i \in Instances, NEW t \in Threads, Command(i, t)
  PROVE  TypeOK'
<1>1. CASE Execute(i, t)
  <2>1. lock' \in Instances \cup {None} /\ ttl' \in 0..LockTtl
    BY <1>1, LeaseAssumption
    DEF TypeOK, Execute, SetNx, RenewIfOwned, ReleaseIfOwned, RenewedTtl
  <2>2. \E r \in Replies : Answer(i, t, r)
    BY <1>1 DEF Execute, SetNx, RenewIfOwned, ReleaseIfOwned, Replies
  <2>3. reply' \in [Instances -> [Threads -> Replies]]
    BY <2>2 DEF TypeOK, Answer
  <2> QED BY <1>1, <2>1, <2>3 DEF TypeOK, Execute, electVars, timerVars
<1>2. CASE Fail(i, t)
  <2>1. reply' \in [Instances -> [Threads -> Replies]]
    BY <1>2 DEF TypeOK, Fail, Answer, Replies
  <2>2. faults' \in 0..MaxFaults
    BY <1>2, LeaseAssumption DEF TypeOK, Fail
  <2> QED BY <1>2, <2>1, <2>2 DEF TypeOK, Fail, electVars, timerVars
<1>3. CASE AskOwnership(i, t)
  <2>1. "own" \in Calls /\ Send(i, t, "own")
    BY <1>3 DEF Calls, AskOwnership
  <2> QED BY <1>3, <2>1, SendTypes DEF TypeOK, AskOwnership, electVars, timerVars
<1> QED BY <1>1, <1>2, <1>3 DEF Command

\* So does the end of an attempt to acquire.
LEMMA AttemptTypes ==
  ASSUME TypeOK, NEW i \in Instances, NEW t \in Threads, Acquired(i, t) \/ Refused(i, t)
  PROVE  leader' \in [Instances -> BOOLEAN] /\ missed' \in [Instances -> Nat]
<1>1. CASE Acquired(i, t)
  <2>1. leader' \in [Instances -> BOOLEAN]
    BY <1>1 DEF TypeOK, Acquired
  <2>2. missed' \in [Instances -> Nat]
    BY <1>1 DEF TypeOK, Acquired
  <2> QED BY <2>1, <2>2
<1>2. CASE Refused(i, t)
  BY <1>2 DEF TypeOK, Refused
<1> QED BY <1>1, <1>2

\* A renewal makes nobody leader.
LEMMA RenewalKeepsOrEnds ==
  ASSUME TypeOK, NEW i \in Instances, EndRenewal(i)
  PROVE  leader' = leader \/ leader' = [leader EXCEPT ![i] = FALSE]
<1>1. CASE leader' = [leader EXCEPT ![i] = leader[i] /\ ~TooMany(failures[i] + 1)]
  <2>1. CASE leader[i] /\ ~TooMany(failures[i] + 1)
    <3>1. leader' = [leader EXCEPT ![i] = TRUE] /\ leader[i] = TRUE
      BY <1>1, <2>1 DEF TypeOK
    <3> QED BY <3>1 DEF TypeOK
  <2>2. CASE ~(leader[i] /\ ~TooMany(failures[i] + 1))
    BY <1>1, <2>2
  <2> QED BY <2>1, <2>2
<1> QED BY <1>1 DEF EndRenewal

\* So does every step of an instance.
LEMMA ServiceTypes ==
  ASSUME TypeOK, NEW i \in Instances, Service(i)
  PROVE  TypeOK'
<1> USE DEF Threads
<1>1. CASE Start(i)
  <2>1. stage' \in [Instances -> Stages] /\ failures' \in [Instances -> Nat]
    BY <1>1 DEF TypeOK, Start, Stages
  <2>2. CASE MayAcquire(i)
    BY <1>1, <2>1, <2>2, SendTypes DEF TypeOK, Start, Calls, timerVars
  <2>3. CASE ~MayAcquire(i)
    <3>1. armed' \in [Instances -> BOOLEAN]
      <4>1. armed' = [armed EXCEPT ![i] = TRUE]
        BY <1>1, <2>3 DEF Start
      <4> QED BY <4>1 DEF TypeOK
    <3>2. timer' \in [Instances -> 0..HeartbeatMax]
      BY <1>1, <2>3, ResetTypes DEF Start
    <3> QED BY <1>1, <2>1, <2>3, <3>1, <3>2 DEF TypeOK, Start, callVars
  <2> QED BY <2>2, <2>3
<1>2. CASE Heartbeat(i)
  <2>1. CASE leader[i] \/ MayAcquire(i)
    <3>1. \E c \in Calls : Send(i, "heartbeat", c)
      BY <1>2, <2>1 DEF Heartbeat, Calls
    <3>2. timer' \in [Instances -> 0..HeartbeatMax]
      BY <1>2, <2>1, ResetTypes DEF Heartbeat
    <3>3. armed' \in [Instances -> BOOLEAN]
      <4>1. armed' = [armed EXCEPT ![i] = FALSE]
        BY <1>2, <2>1 DEF Heartbeat
      <4> QED BY <4>1 DEF TypeOK
    <3> QED BY <1>2, <3>1, <3>2, <3>3, SendTypes DEF TypeOK, Heartbeat, electVars
  <2>2. CASE ~(leader[i] \/ MayAcquire(i))
    BY <1>2, <2>2, RearmTypes DEF TypeOK, Heartbeat, electVars, callVars
  <2> QED BY <2>1, <2>2
<1>3. CASE Activate(i)
  BY <1>3, SendTypes DEF TypeOK, Activate, Calls, electVars, timerVars
<1>4. CASE EndAttempt(i)
  <2>1. leader' \in [Instances -> BOOLEAN] /\ missed' \in [Instances -> Nat]
    BY <1>4, AttemptTypes DEF EndAttempt
  <2>2. stage' \in [Instances -> Stages]
    BY <1>4 DEF TypeOK, EndAttempt, Stages
  <2>3. "none" \in Calls /\ Send(i, "heartbeat", "none") /\ Rearm(i)
    BY <1>4 DEF EndAttempt, Done, Calls
  <2> QED BY <1>4, <2>1, <2>2, <2>3, SendTypes, RearmTypes DEF TypeOK, EndAttempt
<1>5. CASE EndActivation(i)
  <2>1. leader' \in [Instances -> BOOLEAN] /\ missed' \in [Instances -> Nat]
    BY <1>5, AttemptTypes DEF EndActivation
  <2>3. standby' \in [Instances -> BOOLEAN]
    <3>1. CASE standby' = [standby EXCEPT ![i] = FALSE]
      BY <3>1 DEF TypeOK
    <3>2. CASE UNCHANGED standby
      BY <3>2 DEF TypeOK
    <3> QED BY <1>5, <3>1, <3>2 DEF EndActivation
  <2>2. "none" \in Calls /\ Send(i, "activation", "none")
    BY <1>5 DEF EndActivation, Done, Calls
  <2> QED BY <1>5, <2>1, <2>2, <2>3, SendTypes DEF TypeOK, EndActivation, timerVars
<1>6. CASE EndRenewal(i)
  <2>1. missed' \in [Instances -> Nat] /\ failures' \in [Instances -> Nat]
    <3>1. CASE /\ failures' = [failures EXCEPT ![i] = 0]
               /\ missed' = [missed EXCEPT ![i] = 0]
      BY <3>1 DEF TypeOK
    <3>2. CASE UNCHANGED <<failures, missed>>
      BY <3>2 DEF TypeOK
    <3>3. CASE /\ failures' = [failures EXCEPT ![i] = failures[i] + 1]
               /\ missed' = [missed EXCEPT ![i] = missed[i] + 1]
      BY <3>3 DEF TypeOK
    <3> QED BY <1>6, <3>1, <3>2, <3>3 DEF EndRenewal
  <2>3. leader' = leader \/ leader' = [leader EXCEPT ![i] = FALSE]
    BY <1>6, RenewalKeepsOrEnds
  <2>4. leader' \in [Instances -> BOOLEAN]
    <3>1. CASE leader' = leader
      BY <3>1 DEF TypeOK
    <3>2. CASE leader' = [leader EXCEPT ![i] = FALSE]
      BY <3>2 DEF TypeOK
    <3> QED BY <2>3, <3>1, <3>2
  <2>2. "none" \in Calls /\ Send(i, "heartbeat", "none") /\ Rearm(i)
    BY <1>6 DEF EndRenewal, Done, Calls
  <2> QED BY <1>6, <2>1, <2>2, <2>4, SendTypes, RearmTypes DEF TypeOK, EndRenewal
<1>7. CASE Stop(i)
  <2>1. armed' \in [Instances -> BOOLEAN]
    <3>1. armed' = [armed EXCEPT ![i] = FALSE]
      BY <1>7 DEF Stop
    <3> QED BY <3>1 DEF TypeOK
  <2>3. timer' \in [Instances -> 0..HeartbeatMax]
    BY <1>7, ResetTypes DEF Stop
  <2>4. stage' \in [Instances -> Stages]
    BY <1>7 DEF TypeOK, Stop, Stages
  <2>2. Send(i, "stop", "release") \/ UNCHANGED callVars
    BY <1>7 DEF Stop
  <2> QED BY <1>7, <2>1, <2>2, <2>3, <2>4, SendTypes DEF TypeOK, Stop, Calls, callVars
<1>8. CASE EndStop(i)
  <2>1. leader' \in [Instances -> BOOLEAN]
    BY <1>8 DEF TypeOK, EndStop
  <2>3. stage' \in [Instances -> Stages]
    BY <1>8 DEF TypeOK, EndStop, Stages
  <2>2. "none" \in Calls /\ Send(i, "stop", "none")
    BY <1>8 DEF EndStop, Done, Calls
  <2> QED BY <1>8, <2>1, <2>2, <2>3, SendTypes DEF TypeOK, EndStop, timerVars
<1>9. CASE Exit(i)
  BY <1>9, LeaseAssumption DEF TypeOK, Exit, Stages, Calls, Replies
<1> QED BY <1>1, <1>2, <1>3, <1>4, <1>5, <1>6, <1>7, <1>8, <1>9 DEF Service

\* So does the passing of time.
LEMMA TickTypes == TypeOK /\ Tick => TypeOK'
<1> SUFFICES ASSUME TypeOK, Tick PROVE TypeOK'
  OBVIOUS
<1>1. timer' \in [Instances -> 0..HeartbeatMax]
  BY LeaseAssumption DEF TypeOK, Tick
<1>2. waited' \in [Instances -> [Threads -> 0..Latency]]
  BY LeaseAssumption DEF TypeOK, Tick
<1>3. ttl' \in 0..LockTtl /\ lock' \in Instances \cup {None}
  BY LeaseAssumption DEF TypeOK, Tick
<1> QED BY <1>1, <1>2, <1>3 DEF TypeOK, Tick, electVars

\* Every variable keeps its type, whatever the instances and the timing are.
THEOREM TypeCorrect == Spec => []TypeOK
<1>1. Init => TypeOK
  BY LeaseAssumption DEF Init, TypeOK, Stages, Calls, Replies
<1>2. TypeOK /\ [Next]_vars => TypeOK'
  <2>1. TypeOK /\ UNCHANGED vars => TypeOK'
    BY DEF TypeOK, vars, electVars, callVars, timerVars
  <2> QED BY <2>1, CommandTypes, ServiceTypes, TickTypes DEF Next
<1> QED BY <1>1, <1>2, PTL DEF Spec

(* Effects *)

\* Nothing of instance j changes.
Same(j) ==
  /\ stage'[j] = stage[j] /\ leader'[j] = leader[j]
  /\ failures'[j] = failures[j] /\ missed'[j] = missed[j]
  /\ call'[j] = call[j] /\ reply'[j] = reply[j] /\ waited'[j] = waited[j]
  /\ armed'[j] = armed[j] /\ timer'[j] = timer[j]

\* A command sent waits anew, and nothing else is sent.
LEMMA SendEffect ==
  ASSUME TypeOK, NEW i \in Instances, NEW t \in Threads, NEW c, Send(i, t, c)
  PROVE  /\ call'[i][t] = c /\ reply'[i][t] = "none" /\ waited'[i][t] = 0
         /\ \A u \in Threads \ {t} :
              call'[i][u] = call[i][u] /\ reply'[i][u] = reply[i][u] /\ waited'[i][u] = waited[i][u]
         /\ \A j \in Instances \ {i} :
              call'[j] = call[j] /\ reply'[j] = reply[j] /\ waited'[j] = waited[j]
BY DEF TypeOK, Send

\* One reply at a time.
LEMMA AnswerEffect ==
  ASSUME TypeOK, NEW i \in Instances, NEW t \in Threads, NEW r, Answer(i, t, r)
  PROVE  /\ reply'[i][t] = r
         /\ \A u \in Threads \ {t} : reply'[i][u] = reply[i][u]
         /\ \A j \in Instances \ {i} : reply'[j] = reply[j]
BY DEF TypeOK, Answer

\* The timer of one instance is set.
LEMMA RearmEffect ==
  ASSUME TypeOK, NEW i \in Instances, Rearm(i)
  PROVE  /\ armed'[i] <=> Running(i)
         /\ timer'[i] = 0
         /\ \A j \in Instances \ {i} : armed'[j] = armed[j] /\ timer'[j] = timer[j]
BY DEF TypeOK, Rearm

\* A step of one instance leaves the others alone, and the lock to the commands.
LEMMA ServiceIsLocal ==
  ASSUME TypeOK, NEW i \in Instances, Service(i)
  PROVE  UNCHANGED <<lock, ttl>> /\ \A j \in Instances \ {i} : Same(j)
<1> SUFFICES ASSUME NEW j \in Instances \ {i} PROVE UNCHANGED <<lock, ttl>> /\ Same(j)
  BY DEF Service, Start, Heartbeat, Activate, EndAttempt, EndActivation, EndRenewal, Stop,
         EndStop, Exit
<1> USE DEF Threads
<1>1. CASE Start(i)
  BY <1>1, SendEffect DEF TypeOK, Start, Same, callVars, timerVars
<1>2. CASE Heartbeat(i)
  BY <1>2, SendEffect, RearmEffect DEF TypeOK, Heartbeat, Same, electVars, callVars
<1>3. CASE Activate(i)
  BY <1>3, SendEffect DEF Activate, Same, electVars, timerVars
<1>4. CASE EndAttempt(i)
  BY <1>4, SendEffect, RearmEffect DEF TypeOK, EndAttempt, Acquired, Refused, Done, Same
<1>5. CASE EndActivation(i)
  BY <1>5, SendEffect DEF TypeOK, EndActivation, Acquired, Refused, Done, Same, timerVars
<1>6. CASE EndRenewal(i)
  BY <1>6, SendEffect, RearmEffect DEF TypeOK, EndRenewal, Done, Same
<1>7. CASE Stop(i)
  BY <1>7, SendEffect DEF TypeOK, Stop, Same, callVars
<1>8. CASE EndStop(i)
  BY <1>8, SendEffect DEF TypeOK, EndStop, Done, Same, timerVars
<1>9. CASE Exit(i)
  BY <1>9 DEF TypeOK, Exit, Same
<1> QED BY <1>1, <1>2, <1>3, <1>4, <1>5, <1>6, <1>7, <1>8, <1>9 DEF Service

(* Order *)

LEMMA SameKeepsOrder ==
  ASSUME NEW j \in Instances, Same(j), ThreadsInStep(j), FewMissed(j)
  PROVE  ThreadsInStep(j)' /\ FewMissed(j)'
BY DEF Same, ThreadsInStep, FewMissed, Running, Busy

\* Every step of an instance keeps its threads in step.
LEMMA ServiceOrder ==
  ASSUME TypeOK, Order, NEW i \in Instances, Service(i)
  PROVE  ThreadsInStep(i)' /\ FewMissed(i)'
<1> USE DEF Threads
<1>0. ThreadsInStep(i) /\ FewMissed(i)
  BY DEF Order
<1>1. CASE Start(i)
  <2>1. FewMissed(i)'
    BY <1>0, <1>1 DEF TypeOK, Start, FewMissed, ThreadsInStep
  <2>2. ThreadsInStep(i)'
    BY <1>0, <1>1, SendEffect
    DEF TypeOK, Start, ThreadsInStep, Running, Busy, callVars, timerVars
  <2> QED BY <2>1, <2>2
<1>2. CASE Heartbeat(i)
  <2>1. FewMissed(i)'
    BY <1>0, <1>2 DEF Heartbeat, FewMissed, electVars
  <2>2. ThreadsInStep(i)'
    BY <1>0, <1>2, SendEffect, RearmEffect
    DEF TypeOK, Heartbeat, ThreadsInStep, Running, Busy, electVars, callVars
  <2> QED BY <2>1, <2>2
<1>3. CASE Activate(i)
  <2>1. FewMissed(i)'
    BY <1>0, <1>3 DEF Activate, FewMissed, electVars
  <2>2. ThreadsInStep(i)'
    BY <1>0, <1>3, SendEffect
    DEF Activate, ThreadsInStep, Running, Busy, electVars, timerVars
  <2> QED BY <2>1, <2>2
<1>4. CASE EndAttempt(i)
  <2>1. FewMissed(i)'
    BY <1>0, <1>4, LeaseAssumption DEF TypeOK, EndAttempt, Acquired, Refused, FewMissed
  <2>2. ThreadsInStep(i)'
    <3>1. /\ call'[i]["heartbeat"] = "none"
          /\ call'[i]["activation"] = call[i]["activation"] /\ call'[i]["stop"] = call[i]["stop"]
      BY <1>4, SendEffect DEF EndAttempt, Done
    <3>2. (armed'[i] <=> Running(i)) /\ call[i]["heartbeat"] # "none"
      BY <1>4, RearmEffect DEF EndAttempt, Acquired, Refused
    <3>3. stage'[i] = IF stage[i] = "starting" THEN "running" ELSE stage[i]
      BY <1>4 DEF TypeOK, EndAttempt
    <3> QED BY <1>0, <3>1, <3>2, <3>3 DEF ThreadsInStep, Running, Busy
  <2> QED BY <2>1, <2>2
<1>5. CASE EndActivation(i)
  <2>1. FewMissed(i)'
    BY <1>0, <1>5, LeaseAssumption DEF TypeOK, EndActivation, Acquired, Refused, FewMissed
  <2>2. ThreadsInStep(i)'
    <3>1. /\ call'[i]["activation"] = "none"
          /\ call'[i]["heartbeat"] = call[i]["heartbeat"] /\ call'[i]["stop"] = call[i]["stop"]
      BY <1>5, SendEffect DEF EndActivation, Done
    <3>2. UNCHANGED <<stage, armed>> /\ call[i]["activation"] # "none"
      BY <1>5 DEF EndActivation, Acquired, Refused, timerVars
    <3>3. leader[i] => leader'[i]
      BY <1>5 DEF TypeOK, EndActivation, Acquired, Refused
    <3> QED BY <1>0, <3>1, <3>2, <3>3 DEF ThreadsInStep, Running, Busy
  <2> QED BY <2>1, <2>2
<1>6. CASE EndRenewal(i)
  <2>1. FewMissed(i)'
    <3>1. CASE reply[i]["heartbeat"] = "yes"
      BY <1>0, <1>6, <3>1, LeaseAssumption DEF TypeOK, EndRenewal, FewMissed
    <3>2. CASE reply[i]["heartbeat"] = "no"
      BY <1>0, <1>6, <3>2 DEF TypeOK, EndRenewal, FewMissed
    <3>3. CASE reply[i]["heartbeat"] = "error"
      <4>1. failures'[i] = failures[i] + 1 /\ missed'[i] = missed[i] + 1
        BY <1>6, <3>3 DEF TypeOK, EndRenewal
      <4>2. leader'[i] => failures[i] + 1 < MaxFailures
        <5>1. leader'[i] <=> leader[i] /\ ~TooMany(failures[i] + 1)
          BY <1>6, <3>3 DEF TypeOK, EndRenewal
        <5> QED BY <5>1, LeaseAssumption DEF TooMany, TypeOK
      <4> QED BY <1>0, <4>1, <4>2, LeaseAssumption DEF FewMissed, TypeOK
    <3> QED BY <1>6, <3>1, <3>2, <3>3 DEF EndRenewal
  <2>2. ThreadsInStep(i)'
    <3>1. /\ call'[i]["heartbeat"] = "none"
          /\ call'[i]["activation"] = call[i]["activation"] /\ call'[i]["stop"] = call[i]["stop"]
      BY <1>6, SendEffect DEF EndRenewal, Done
    <3>2. UNCHANGED stage /\ (armed'[i] <=> Running(i)) /\ call[i]["heartbeat"] = "renew"
      BY <1>6, RearmEffect DEF EndRenewal
    <3> QED BY <1>0, <3>1, <3>2 DEF ThreadsInStep, Running, Busy
  <2> QED BY <2>1, <2>2
<1>7. CASE Stop(i)
  <2>1. FewMissed(i)'
    BY <1>0, <1>7 DEF Stop, FewMissed
  <2>2. ThreadsInStep(i)'
    <3>1. ~armed'[i] /\ stage[i] = "running"
      BY <1>7 DEF TypeOK, Stop
    <3>2. CASE leader[i]
      <4>1. stage'[i] = "stopping"
        BY <1>7, <3>2 DEF TypeOK, Stop
      <4>2. /\ call'[i]["stop"] = "release"
            /\ call'[i]["heartbeat"] = call[i]["heartbeat"]
            /\ call'[i]["activation"] = call[i]["activation"]
        BY <1>7, <3>2, SendEffect DEF Stop
      <4> QED BY <1>0, <3>1, <4>1, <4>2 DEF ThreadsInStep, Running, Busy
    <3>3. CASE ~leader[i]
      <4>1. stage'[i] = "stopped" /\ UNCHANGED call
        BY <1>7, <3>3 DEF TypeOK, Stop, callVars
      <4> QED BY <1>0, <3>1, <4>1 DEF ThreadsInStep, Running, Busy
    <3> QED BY <3>2, <3>3
  <2> QED BY <2>1, <2>2
<1>8. CASE EndStop(i)
  <2>1. FewMissed(i)'
    BY <1>0, <1>8 DEF TypeOK, EndStop, FewMissed
  <2>2. ThreadsInStep(i)'
    BY <1>0, <1>8, SendEffect
    DEF TypeOK, EndStop, Done, ThreadsInStep, Running, Busy, timerVars
  <2> QED BY <2>1, <2>2
<1>9. CASE Exit(i)
  BY <1>0, <1>9, LeaseAssumption
  DEF TypeOK, Exit, FewMissed, ThreadsInStep, Running, Busy
<1> QED BY <1>1, <1>2, <1>3, <1>4, <1>5, <1>6, <1>7, <1>8, <1>9 DEF Service

\* A command changes neither the stage, nor who leads, nor the timers.
LEMMA CommandEffect ==
  ASSUME TypeOK, NEW i \in Instances, NEW t \in Threads, Command(i, t)
  PROVE  /\ UNCHANGED <<stage, leader, failures, missed, armed, timer>>
         /\ \A j \in Instances \ {i} : Same(j)
<1>1. CASE Execute(i, t)
  <2>1. \E r : Answer(i, t, r)
    BY <1>1 DEF Execute, SetNx, RenewIfOwned, ReleaseIfOwned
  <2> QED BY <1>1, <2>1, AnswerEffect DEF Execute, Same, electVars, timerVars
<1>2. CASE Fail(i, t)
  BY <1>2, AnswerEffect DEF Fail, Same, electVars, timerVars
<1>3. CASE AskOwnership(i, t)
  BY <1>3, SendEffect DEF AskOwnership, Same, electVars, timerVars
<1> QED BY <1>1, <1>2, <1>3 DEF Command

\* So does every command, for all instances.
LEMMA CommandOrder ==
  ASSUME TypeOK, Order, NEW i \in Instances, NEW t \in Threads, Command(i, t)
  PROVE  Order'
<1>0. ThreadsInStep(i) /\ FewMissed(i) /\ KeyExpires
  BY DEF Order
<1>1. KeyExpires'
  <2>1. CASE Execute(i, t)
    BY <1>0, <2>1, InstancesAssumption, LeaseAssumption
    DEF TypeOK, KeyExpires, Execute, SetNx, RenewIfOwned, RenewedTtl, ReleaseIfOwned
  <2>2. CASE Fail(i, t) \/ AskOwnership(i, t)
    BY <1>0, <2>2 DEF KeyExpires, Fail, AskOwnership
  <2> QED BY <2>1, <2>2 DEF Command
<1>2. ThreadsInStep(i)'
  <2>1. CASE Execute(i, t) \/ Fail(i, t)
    BY <1>0, <2>1, CommandEffect DEF Execute, Fail, ThreadsInStep, Running, Busy
  <2>2. CASE AskOwnership(i, t)
    BY <1>0, <2>2, CommandEffect, SendEffect
    DEF AskOwnership, ThreadsInStep, Running, Busy, Threads
  <2> QED BY <2>1, <2>2 DEF Command
<1>3. FewMissed(i)'
  BY <1>0, CommandEffect DEF FewMissed
<1>4. ASSUME NEW j \in Instances \ {i} PROVE ThreadsInStep(j)' /\ FewMissed(j)'
  BY CommandEffect, SameKeepsOrder DEF Order
<1> QED BY <1>1, <1>2, <1>3, <1>4 DEF Order

\* So does the passing of time.
LEMMA TickOrder == TypeOK /\ Order /\ Tick => Order'
<1> SUFFICES ASSUME TypeOK, Order, Tick PROVE Order'
  OBVIOUS
<1>1. KeyExpires'
  BY InstancesAssumption, LeaseAssumption DEF TypeOK, Order, KeyExpires, Tick
<1>2. ASSUME NEW j \in Instances PROVE ThreadsInStep(j)' /\ FewMissed(j)'
  BY DEF Order, ThreadsInStep, FewMissed, Running, Busy, Tick, electVars
<1> QED BY <1>1, <1>2 DEF Order

\* The threads of an instance, its timer and its leadership fit together.
THEOREM OrderHolds == Spec => []Order
<1>1. Init => Order
  BY LeaseAssumption DEF Init, Order, KeyExpires, ThreadsInStep, FewMissed, Running, Busy, Threads
<1>2. TypeOK /\ Order /\ [Next]_vars => Order'
  <2> SUFFICES ASSUME TypeOK, Order, [Next]_vars PROVE Order'
    OBVIOUS
  <2>1. ASSUME NEW i \in Instances, Service(i) PROVE Order'
    <3>1. KeyExpires'
      BY <2>1, ServiceIsLocal DEF Order, KeyExpires
    <3>2. ASSUME NEW j \in Instances PROVE ThreadsInStep(j)' /\ FewMissed(j)'
      BY <2>1, ServiceIsLocal, ServiceOrder, SameKeepsOrder DEF Order
    <3> QED BY <3>1, <3>2 DEF Order
  <2>2. CASE UNCHANGED vars
    BY <2>2 DEF Order, KeyExpires, ThreadsInStep, FewMissed, Running, Busy, vars, electVars,
                callVars, timerVars
  <2> QED BY <2>1, <2>2, CommandOrder, TickOrder DEF Next
<1> QED BY <1>1, <1>2, TypeCorrect, PTL DEF Spec

(* Lease *)

LEMMA BudgetSteps ==
  ASSUME NEW k \in Nat
  PROVE  /\ Budget(k) \in Nat /\ Budget(k) >= 3 * Latency
         /\ Budget(k + 1) = Budget(k) + HeartbeatMax + Latency
<1> DEFINE H == HeartbeatMax + Latency
<1>1. H \in Nat /\ Latency \in Nat /\ HeartbeatMax \in Nat
  BY LeaseAssumption
<1>2. k * H \in Nat /\ (k + 1) * H = k * H + H
  BY <1>1
<1> HIDE DEF H
<1>3. Budget(k) = 3 * Latency + k * H /\ Budget(k + 1) = 3 * Latency + (k + 1) * H
  BY DEF Budget, H
<1>4. H = HeartbeatMax + Latency
  BY DEF H
<1> QED BY <1>1, <1>2, <1>3, <1>4

\* More heartbeats missed take longer.
LEMMA BudgetGrows ==
  ASSUME NEW k \in Nat, NEW n \in Nat, k <= n
  PROVE  Budget(k) <= Budget(n)
<1> DEFINE H == HeartbeatMax + Latency
<1>1. H \in Nat /\ Latency \in Nat
  BY LeaseAssumption
<1>2. PICK d \in Nat : n = k + d
  BY n - k \in Nat
<1>3. k * H \in Nat /\ d * H \in Nat /\ n * H = k * H + d * H
  BY <1>1, <1>2
<1> HIDE DEF H
<1>4. Budget(k) = 3 * Latency + k * H /\ Budget(n) = 3 * Latency + n * H
  BY DEF Budget, H
<1> QED BY <1>1, <1>3, <1>4

\* A renewal grows older with every unit of time, and with nothing else.
LEMMA FreshAgain ==
  ASSUME TypeOK, NEW i \in Instances, NEW n \in Nat, NEW m \in Nat, n <= m,
         Fresh(i, n), UNCHANGED <<lock, ttl>>
  PROVE  Fresh(i, m)'
BY LeaseAssumption DEF TypeOK, Fresh

\* The time since a renewal is a number.
LEMMA SinceRenewalType ==
  ASSUME TypeOK, NEW i \in Instances, ThreadsInStep(i)
  PROVE  SinceRenewal(i) \in Nat
<1>1. Budget(missed[i]) \in Nat
  BY BudgetSteps DEF TypeOK
<1>2. /\ timer[i] \in Nat /\ waited[i]["heartbeat"] \in Nat
      /\ Latency \in Nat /\ HeartbeatMax \in Nat
  BY LeaseAssumption DEF TypeOK, Threads
<1> QED BY <1>1, <1>2 DEF SinceRenewal, ThreadsInStep

\* When no command is executed, a leader's lease stands if its bound does not fall.
LEMMA LeaderFreshBy ==
  ASSUME TypeOK, TypeOK', NEW i \in Instances, ThreadsInStep(i)', UNCHANGED <<lock, ttl>>,
         NEW n \in Nat, Fresh(i, n), n <= SinceRenewal(i)'
  PROVE  LeaderFresh(i)'
<1>1. SinceRenewal(i)' \in Nat
  <2>1. Budget(missed[i])' \in Nat
    BY BudgetSteps DEF TypeOK
  <2>2. /\ timer'[i] \in Nat /\ waited'[i]["heartbeat"] \in Nat
        /\ Latency \in Nat /\ HeartbeatMax \in Nat
    BY LeaseAssumption DEF TypeOK, Threads
  <2> QED BY <2>1, <2>2 DEF SinceRenewal, ThreadsInStep
<1>2. ASSUME SinceRenewal(i)' < LockTtl
      PROVE  lock' = i /\ ttl' + SinceRenewal(i)' >= LockTtl
  BY <1>1, <1>2, LeaseAssumption DEF TypeOK, Fresh
<1> QED BY <1>2 DEF LeaderFresh, Fresh

\* An instance of which nothing changes keeps its lease.
LEMMA SameKeepsLease ==
  ASSUME NEW j \in Instances, Same(j), UNCHANGED <<lock, ttl>>, LeaderFresh(j), YesFresh(j)
  PROVE  LeaderFresh(j)' /\ YesFresh(j)'
<1>1. SinceRenewal(j)' = SinceRenewal(j)
  BY DEF Same, SinceRenewal
<1>2. LeaderFresh(j)'
  BY <1>1 DEF LeaderFresh, Leads, Running, Fresh, Same
<1>3. YesFresh(j)'
  BY DEF YesFresh, Running, Fresh, Same
<1> QED BY <1>2, <1>3

\* A step of the service leaves replies as they are, or drops them.
LEMMA ServiceYesFresh ==
  ASSUME TypeOK, Order, NEW i \in Instances, YesFresh(i), Service(i)
  PROVE  YesFresh(i)'
<1> USE DEF Threads
<1>1. UNCHANGED <<lock, ttl>> /\ ThreadsInStep(i)
  BY ServiceIsLocal DEF Order
<1>2. ASSUME NEW t \in Threads, Running(i)', call'[i][t] # "none", reply'[i][t] = "yes"
      PROVE  /\ Running(i)
             /\ call'[i][t] = call[i][t] /\ reply'[i][t] = reply[i][t]
             /\ waited'[i][t] = waited[i][t]
  <2>1. CASE Start(i)
    BY <1>1, <1>2, <2>1, SendEffect DEF Start, ThreadsInStep, Busy, callVars
  <2>2. CASE Heartbeat(i)
    BY <1>2, <2>2, SendEffect DEF Heartbeat, Running, electVars, callVars
  <2>3. CASE Activate(i)
    BY <1>2, <2>3, SendEffect DEF Activate
  <2>4. CASE EndAttempt(i)
    <3>1. Running(i)
      BY <1>2, <2>4 DEF TypeOK, EndAttempt, Running
    <3> QED BY <1>2, <2>4, <3>1, SendEffect DEF EndAttempt, Done
  <2>5. CASE EndActivation(i)
    BY <1>2, <2>5, SendEffect DEF EndActivation, Done, Running
  <2>6. CASE EndRenewal(i)
    BY <1>2, <2>6, SendEffect DEF EndRenewal, Done, Running
  <2>7. CASE Stop(i)
    BY <1>2, <2>7 DEF TypeOK, Stop, Running
  <2>8. CASE EndStop(i)
    BY <1>2, <2>8 DEF TypeOK, EndStop, Running
  <2>9. CASE Exit(i)
    BY <1>2, <2>9 DEF TypeOK, Exit, Running
  <2> QED BY <2>1, <2>2, <2>3, <2>4, <2>5, <2>6, <2>7, <2>8, <2>9 DEF Service
<1> QED BY <1>1, <1>2 DEF YesFresh, Fresh

\* Leadership is taken, kept and given up with the lease it is due.
LEMMA ServiceLeaderFresh ==
  ASSUME TypeOK, TypeOK', Order, Order', NEW i \in Instances, LeaderFresh(i), YesFresh(i),
         Service(i)
  PROVE  LeaderFresh(i)'
<1> USE DEF Threads
<1>1. /\ UNCHANGED <<lock, ttl>>
      /\ ThreadsInStep(i) /\ ThreadsInStep(i)'
  BY ServiceIsLocal DEF Order
<1>2. /\ Latency \in Nat /\ HeartbeatMax \in Nat /\ Budget(0) >= 3 * Latency /\ Budget(0) \in Nat
      /\ Budget(missed[i]) \in Nat /\ Budget(missed[i]) >= 3 * Latency
      /\ Budget(missed[i] + 1) = Budget(missed[i]) + HeartbeatMax + Latency
      /\ \A t \in Threads : waited[i][t] \in 0..Latency
      /\ timer[i] \in 0..HeartbeatMax
  BY BudgetSteps, LeaseAssumption DEF TypeOK
<1>3. SinceRenewal(i) \in Nat
  BY <1>1, SinceRenewalType
<1>4. SUFFICES ASSUME Leads(i)'
      PROVE  \E n \in Nat : Fresh(i, n) /\ n <= SinceRenewal(i)'
  BY <1>1, LeaderFreshBy DEF LeaderFresh
<1>5. CASE Start(i)
  BY <1>1, <1>4, <1>5 DEF Start, ThreadsInStep, Leads
<1>6. CASE Heartbeat(i)
  <2>1. Leads(i) /\ Fresh(i, SinceRenewal(i)) /\ call[i]["heartbeat"] = "none"
    BY <1>1, <1>4, <1>6
    DEF Heartbeat, Leads, Running, LeaderFresh, ThreadsInStep, Busy, electVars
  <2>2. SinceRenewal(i) = Budget(missed[i]) + timer[i]
    BY <2>1 DEF SinceRenewal
  <2>3. call'[i]["heartbeat"] = "renew" /\ waited'[i]["heartbeat"] = 0 /\ UNCHANGED missed
    BY <1>6, <2>1, SendEffect DEF Heartbeat, Leads, electVars
  <2>4. SinceRenewal(i)' = Budget(missed[i]) + HeartbeatMax + 0
    BY <2>3 DEF SinceRenewal
  <2>5. SinceRenewal(i) <= SinceRenewal(i)'
    BY <1>2, <2>2, <2>4
  <2> QED BY <1>3, <2>1, <2>5
<1>7. CASE Activate(i)
  BY <1>4, <1>7 DEF Activate, Leads, electVars
<1>8. CASE EndAttempt(i)
  <2>1. Running(i) /\ call[i]["heartbeat"] \in {"setNx", "own"}
    BY <1>4, <1>8 DEF TypeOK, EndAttempt, Acquired, Refused, Leads, Running
  <2>2. call'[i]["heartbeat"] = "none" /\ timer'[i] = 0
    BY <1>8, SendEffect, RearmEffect DEF EndAttempt, Done
  <2>3. SinceRenewal(i)' = Budget(missed'[i]) + 0
    BY <2>2 DEF SinceRenewal
  <2>4. CASE Acquired(i, "heartbeat")
    <3>1. missed'[i] = 0 /\ Fresh(i, waited[i]["heartbeat"])
      BY <2>1, <2>4 DEF TypeOK, Acquired, YesFresh
    <3> QED BY <1>2, <2>3, <3>1
  <2>5. CASE Refused(i, "heartbeat")
    <3>1. Leads(i) /\ missed' = missed /\ Fresh(i, SinceRenewal(i))
      BY <1>4, <2>1, <2>5 DEF Refused, Leads, LeaderFresh
    <3>2. SinceRenewal(i) <= 3 * Latency
      BY <1>2, <2>1 DEF SinceRenewal
    <3> QED BY <1>2, <1>3, <2>3, <3>1, <3>2
  <2> QED BY <1>8, <2>4, <2>5 DEF EndAttempt
<1>9. CASE EndActivation(i)
  <2>1. /\ call'[i]["heartbeat"] = call[i]["heartbeat"] /\ timer'[i] = timer[i]
        /\ waited'[i]["heartbeat"] = waited[i]["heartbeat"]
    BY <1>9, SendEffect DEF EndActivation, Done, timerVars
  <2>2. CASE Acquired(i, "activation")
    <3>1. missed'[i] = 0
      BY <2>2 DEF TypeOK, Acquired
    <3>2. Running(i)
      BY <1>4, <1>9 DEF EndActivation, Leads, Running
    <3>3. Fresh(i, waited[i]["activation"])
      BY <2>2, <3>2 DEF Acquired, YesFresh
    <3>4. SinceRenewal(i)' \in Nat /\ SinceRenewal(i)' >= Latency
      BY <1>1, <1>2, <2>1, <3>1 DEF SinceRenewal, ThreadsInStep
    <3>5. waited[i]["activation"] \in Nat /\ waited[i]["activation"] <= SinceRenewal(i)'
      BY <1>2, <3>4
    <3> QED BY <3>3, <3>5
  <2>3. CASE Refused(i, "activation")
    <3>1. Leads(i) /\ UNCHANGED missed
      BY <1>4, <1>9, <2>3 DEF EndActivation, Refused, Leads, Running
    <3>2. SinceRenewal(i)' = SinceRenewal(i)
      BY <2>1, <3>1 DEF SinceRenewal
    <3> QED BY <1>3, <3>1, <3>2 DEF LeaderFresh
  <2> QED BY <1>9, <2>2, <2>3 DEF EndActivation
<1>10. CASE EndRenewal(i)
  <2>1. leader[i] /\ Running(i)
    BY <1>4, <1>10, RenewalKeepsOrEnds DEF TypeOK, EndRenewal, Leads, Running
  <2>2. call'[i]["heartbeat"] = "none" /\ timer'[i] = 0 /\ call[i]["heartbeat"] = "renew"
    BY <1>10, SendEffect, RearmEffect DEF EndRenewal, Done
  <2>3. SinceRenewal(i)' = Budget(missed'[i]) + 0
    BY <2>2 DEF SinceRenewal
  <2>4. CASE reply[i]["heartbeat"] = "yes"
    <3>1. missed'[i] = 0
      BY <1>10, <2>4 DEF TypeOK, EndRenewal
    <3>2. Fresh(i, waited[i]["heartbeat"])
      BY <2>1, <2>2, <2>4 DEF YesFresh
    <3> QED BY <1>2, <2>3, <3>1, <3>2
  <2>5. CASE reply[i]["heartbeat"] = "no"
    BY <1>4, <1>10, <2>5 DEF TypeOK, EndRenewal, Leads
  <2>6. CASE reply[i]["heartbeat"] = "error"
    <3>1. missed'[i] = missed[i] + 1
      BY <1>10, <2>6 DEF TypeOK, EndRenewal
    <3>2. Fresh(i, SinceRenewal(i))
      BY <2>1 DEF Leads, LeaderFresh
    <3>3. SinceRenewal(i) = Budget(missed[i]) + HeartbeatMax + waited[i]["heartbeat"]
      BY <2>2 DEF SinceRenewal
    <3> QED BY <1>2, <1>3, <2>3, <3>1, <3>2, <3>3
  <2> QED BY <1>10, <2>4, <2>5, <2>6 DEF EndRenewal
<1>11. CASE Stop(i) \/ EndStop(i) \/ Exit(i)
  BY <1>4, <1>11 DEF TypeOK, Stop, EndStop, Exit, Leads, Running
<1> QED BY <1>5, <1>6, <1>7, <1>8, <1>9, <1>10, <1>11 DEF Service

\* Redis takes the lock from a running instance for no reason.
LEMMA ExecuteKeepsFresh ==
  ASSUME TypeOK, Order, NEW i \in Instances, NEW t \in Threads, Execute(i, t),
         NEW k \in Instances, Running(k), NEW n \in Nat, Fresh(k, n)
  PROVE  Fresh(k, n)'
<1>1. CASE SetNx(i, t)
  BY <1>1, InstancesAssumption, LeaseAssumption DEF SetNx, Fresh
<1>2. CASE RenewIfOwned(i, t)
  BY <1>2, LeaseAssumption DEF RenewIfOwned, RenewedTtl, Fresh
<1>3. CASE ReleaseIfOwned(i, t)
  <2>1. k # i
    BY <1>3 DEF Order, ThreadsInStep, ReleaseIfOwned, Running, Busy, Threads
  <2> QED BY <1>3, <2>1 DEF ReleaseIfOwned, OwnedBy, Fresh
<1> QED BY <1>1, <1>2, <1>3 DEF Execute

\* A command of one instance leaves the leases of all in order.
LEMMA ExecuteKeepsLease ==
  ASSUME TypeOK, Order, Lease, NEW i \in Instances, NEW t \in Threads, Execute(i, t)
  PROVE  Lease'
<1> SUFFICES ASSUME NEW k \in Instances PROVE LeaderFresh(k)' /\ YesFresh(k)'
  BY DEF Lease
<1>1. UNCHANGED <<stage, leader, missed, call, waited, armed, timer>>
  BY DEF Execute, electVars, timerVars
<1>2. SinceRenewal(k)' = SinceRenewal(k) /\ SinceRenewal(k) \in Nat
  BY <1>1, SinceRenewalType DEF SinceRenewal, Order
<1>3. LeaderFresh(k)'
  <2> SUFFICES ASSUME Leads(k)' PROVE Fresh(k, SinceRenewal(k))'
    BY DEF LeaderFresh
  <2>1. Running(k) /\ Fresh(k, SinceRenewal(k))
    BY <1>1 DEF Leads, Running, Lease, LeaderFresh
  <2>2. \A n \in Nat : Fresh(k, n) => Fresh(k, n)'
    BY <2>1, ExecuteKeepsFresh
  <2> QED BY <1>2, <2>1, <2>2 DEF Fresh
<1>4. YesFresh(k)'
  <2> SUFFICES ASSUME NEW u \in Threads, Running(k)', call'[k][u] \in {"setNx", "own", "renew"},
                      reply'[k][u] = "yes"
               PROVE  Fresh(k, waited[k][u])'
    BY DEF YesFresh
  <2>1. Running(k) /\ waited[k][u] \in Nat
    BY <1>1, LeaseAssumption DEF Running, TypeOK
  <2>2. \A n \in Nat : Fresh(k, n) => Fresh(k, n)'
    BY <2>1, ExecuteKeepsFresh
  <2>3. CASE k = i /\ u = t
    <3>1. \E r : Answer(i, t, r) /\ (r = "yes" =>
                   call[i][t] = "release" \/ (lock' = i /\ ttl' = LockTtl))
      BY DEF Execute, SetNx, RenewIfOwned, RenewedTtl, ReleaseIfOwned
    <3>2. lock' = k /\ ttl' = LockTtl
      BY <1>1, <2>3, <3>1, AnswerEffect
    <3> QED BY <1>1, <2>1, <3>2, LeaseAssumption DEF Fresh
  <2>4. CASE ~(k = i /\ u = t)
    <3>1. reply[k][u] = "yes"
      <4>1. \E r : Answer(i, t, r)
        BY DEF Execute, SetNx, RenewIfOwned, ReleaseIfOwned
      <4> QED BY <2>4, <4>1, AnswerEffect
    <3>2. Fresh(k, waited[k][u])
      BY <1>1, <2>1, <3>1 DEF Lease, YesFresh
    <3>3. waited[k][u] < LockTtl => lock' = k /\ ttl' + waited[k][u] >= LockTtl
      BY <2>1, <2>2, <3>2 DEF Fresh
    <3> QED BY <1>1, <3>3 DEF Fresh
  <2> QED BY <2>3, <2>4
<1> QED BY <1>3, <1>4

\* So does a command that fails or asks who the owner is.
LEMMA CommandKeepsLease ==
  ASSUME TypeOK, TypeOK', Order, Order', Lease,
         NEW i \in Instances, NEW t \in Threads, Command(i, t)
  PROVE  Lease'
<1>1. CASE Execute(i, t)
  BY <1>1, ExecuteKeepsLease
<1>2. CASE Fail(i, t)
  <2> SUFFICES ASSUME NEW k \in Instances PROVE LeaderFresh(k)' /\ YesFresh(k)'
    BY DEF Lease
  <2>1. UNCHANGED <<lock, ttl, stage, leader, missed, call, waited, armed, timer>>
    BY <1>2 DEF Fail, electVars, timerVars
  <2>2. LeaderFresh(k)'
    BY <2>1 DEF Lease, LeaderFresh, Leads, Running, Fresh, SinceRenewal
  <2>3. \A u \in Threads : reply'[k][u] = "yes" => reply[k][u] = "yes"
    BY <1>2, AnswerEffect DEF Fail
  <2>4. YesFresh(k)'
    BY <2>1, <2>3 DEF Lease, YesFresh, Running, Fresh
  <2> QED BY <2>2, <2>4
<1>3. CASE AskOwnership(i, t)
  <2>1. UNCHANGED <<lock, ttl, stage, leader, missed, armed, timer>>
    BY <1>3 DEF AskOwnership, electVars, timerVars
  <2>2. ASSUME NEW k \in Instances \ {i} PROVE LeaderFresh(k)' /\ YesFresh(k)'
    BY <2>1, CommandEffect, SameKeepsLease DEF Lease
  <2>3. YesFresh(i)'
    BY <1>3, <2>1, SendEffect DEF AskOwnership, Lease, YesFresh, Running, Fresh
  <2>4. LeaderFresh(i)'
    <3> SUFFICES ASSUME Leads(i)' PROVE LeaderFresh(i)'
      BY DEF LeaderFresh
    <3>1. ThreadsInStep(i) /\ ThreadsInStep(i)' /\ SinceRenewal(i) \in Nat
      BY SinceRenewalType DEF Order
    <3>2. Fresh(i, SinceRenewal(i))
      BY <2>1 DEF Lease, LeaderFresh, Leads, Running
    <3>3. SinceRenewal(i) <= SinceRenewal(i)'
      <4>1. CASE t = "heartbeat"
        <5>1. /\ call[i]["heartbeat"] = "setNx" /\ call'[i]["heartbeat"] = "own"
              /\ waited'[i]["heartbeat"] = 0
          BY <1>3, <4>1, SendEffect DEF AskOwnership
        <5>2. SinceRenewal(i) = Latency + waited[i]["heartbeat"]
          BY <5>1 DEF SinceRenewal
        <5>3. SinceRenewal(i)' = 2 * Latency + 0
          BY <5>1 DEF SinceRenewal
        <5>4. waited[i]["heartbeat"] \in 0..Latency
          BY DEF TypeOK, Threads
        <5> QED BY <5>2, <5>3, <5>4, LeaseAssumption
      <4>2. CASE t # "heartbeat"
        <5>1. /\ call'[i]["heartbeat"] = call[i]["heartbeat"]
              /\ waited'[i]["heartbeat"] = waited[i]["heartbeat"]
          BY <1>3, <4>2, SendEffect DEF AskOwnership, Threads
        <5>2. SinceRenewal(i)' = SinceRenewal(i)
          BY <2>1, <5>1 DEF SinceRenewal
        <5> QED BY <3>1, <5>2
      <4> QED BY <4>1, <4>2
    <3> QED BY <2>1, <3>1, <3>2, <3>3, LeaderFreshBy
  <2> QED BY <2>2, <2>3, <2>4 DEF Lease
<1> QED BY <1>1, <1>2, <1>3 DEF Command

\* Time makes renewals older, and the bounds with them.
LEMMA TickKeepsLease ==
  ASSUME TypeOK, Order, Lease, Tick
  PROVE  Lease'
<1> SUFFICES ASSUME NEW k \in Instances PROVE LeaderFresh(k)' /\ YesFresh(k)'
  BY DEF Lease
<1>1. UNCHANGED <<stage, leader, missed, call, reply, armed>>
  BY DEF Tick, electVars
<1>2. \A n \in Nat : Fresh(k, n) =>
        (n + 1 < LockTtl => lock' = k /\ ttl' + (n + 1) >= LockTtl)
  BY LeaseAssumption DEF TypeOK, Tick, Fresh
<1>3. ThreadsInStep(k)
  BY DEF Order
<1>4. LeaderFresh(k)'
  <2> SUFFICES ASSUME Leads(k)' PROVE Fresh(k, SinceRenewal(k))'
    BY DEF LeaderFresh
  <2>1. Leads(k) /\ Fresh(k, SinceRenewal(k)) /\ SinceRenewal(k) \in Nat
    BY <1>1, <1>3, SinceRenewalType DEF Leads, Running, Lease, LeaderFresh
  <2>2. SinceRenewal(k)' = SinceRenewal(k) + 1
    <3>1. CASE call[k]["heartbeat"] = "none"
      <4>1. timer'[k] = timer[k] + 1
        BY <1>3, <2>1, <3>1 DEF Tick, ThreadsInStep, Leads, Busy
      <4>2. SinceRenewal(k) = Budget(missed[k]) + timer[k]
        BY <3>1 DEF SinceRenewal
      <4>3. SinceRenewal(k)' = Budget(missed[k]) + (timer[k] + 1)
        BY <1>1, <3>1, <4>1 DEF SinceRenewal
      <4>4. Budget(missed[k]) \in Nat /\ timer[k] \in Nat
        BY BudgetSteps, LeaseAssumption DEF TypeOK
      <4> QED BY <4>2, <4>3, <4>4
    <3>2. CASE call[k]["heartbeat"] # "none"
      <4>1. waited'[k]["heartbeat"] = waited[k]["heartbeat"] + 1
        BY <3>2 DEF Tick, Busy, Threads
      <4>2. Budget(missed[k]) \in Nat /\ waited[k]["heartbeat"] \in Nat
        BY BudgetSteps, LeaseAssumption DEF TypeOK, Threads
      <4>3. call[k]["heartbeat"] \in {"setNx", "own", "renew"}
        BY <1>3, <3>2 DEF ThreadsInStep
      <4> QED BY <1>1, <4>1, <4>2, <4>3, LeaseAssumption DEF SinceRenewal
    <3> QED BY <3>1, <3>2
  <2> QED BY <1>2, <2>1, <2>2 DEF Fresh
<1>5. YesFresh(k)'
  <2> SUFFICES ASSUME NEW u \in Threads, Running(k)', call'[k][u] \in {"setNx", "own", "renew"},
                      reply'[k][u] = "yes"
               PROVE  Fresh(k, waited[k][u])'
    BY DEF YesFresh
  <2>1. Fresh(k, waited[k][u]) /\ waited[k][u] \in Nat
    BY <1>1, LeaseAssumption DEF Lease, YesFresh, Running, TypeOK
  <2>2. waited'[k][u] = waited[k][u] + 1
    BY <1>1 DEF Tick, Busy
  <2> QED BY <1>2, <2>1, <2>2 DEF Fresh
<1> QED BY <1>4, <1>5

\* Every leader's lease is as young as the heartbeats it has sent and missed allow.
THEOREM LeaseHolds == Spec => []Lease
<1>1. Init => Lease
  BY DEF Init, Lease, LeaderFresh, YesFresh, Leads, Running
<1>2. TypeOK /\ TypeOK' /\ Order /\ Order' /\ Lease /\ [Next]_vars => Lease'
  <2> SUFFICES ASSUME TypeOK, TypeOK', Order, Order', Lease, [Next]_vars PROVE Lease'
    OBVIOUS
  <2>1. ASSUME NEW i \in Instances, Service(i) PROVE Lease'
    <3>1. LeaderFresh(i)' /\ YesFresh(i)'
      BY <2>1, ServiceLeaderFresh, ServiceYesFresh DEF Lease
    <3>2. ASSUME NEW j \in Instances \ {i} PROVE LeaderFresh(j)' /\ YesFresh(j)'
      BY <2>1, ServiceIsLocal, SameKeepsLease DEF Lease
    <3> QED BY <3>1, <3>2 DEF Lease
  <2>2. CASE UNCHANGED vars
    BY <2>2 DEF Lease, LeaderFresh, YesFresh, Leads, Running, Fresh, SinceRenewal, vars,
                electVars, callVars, timerVars
  <2> QED BY <2>1, <2>2, CommandKeepsLease, TickKeepsLease DEF Next
<1> QED BY <1>1, <1>2, TypeCorrect, OrderHolds, PTL DEF Spec

(* What follows *)

LEMMA LeaseCoversMissed ==
  ASSUME TypeOK, Order, Lease, NEW i \in Instances, Leads(i), Budget(missed[i] + 1) < LockTtl
  PROVE  lock = i
<1>1. /\ Budget(missed[i]) \in Nat /\ Budget(missed[i]) >= 3 * Latency
      /\ Budget(missed[i] + 1) = Budget(missed[i]) + HeartbeatMax + Latency
  BY BudgetSteps DEF TypeOK
<1>2. /\ timer[i] \in 0..HeartbeatMax /\ waited[i]["heartbeat"] \in 0..Latency
      /\ Latency \in Nat /\ HeartbeatMax \in Nat /\ LockTtl \in Nat
  BY LeaseAssumption DEF TypeOK, Threads
<1>3. ThreadsInStep(i) /\ Fresh(i, SinceRenewal(i))
  BY DEF Order, Lease, LeaderFresh
<1>4. SinceRenewal(i) \in Nat /\ SinceRenewal(i) <= Budget(missed[i] + 1)
  BY <1>1, <1>2, <1>3 DEF SinceRenewal, ThreadsInStep
<1> QED BY <1>2, <1>1, <1>3, <1>4 DEF Fresh

\* A leader holds the lock while its missed heartbeats take less than the lease.
THEOREM LeaderHoldsLock == Spec => []LeaderInTimeHoldsLock
<1>1. TypeOK /\ Order /\ Lease => LeaderInTimeHoldsLock
  BY LeaseCoversMissed DEF LeaderInTimeHoldsLock
<1> QED BY <1>1, TypeCorrect, OrderHolds, LeaseHolds, PTL

\* If the lease outlasts the failures that demote, at most one instance leads.
THEOREM OneLeaderInTime == Spec => []OneLeaderIfLeaseOutlasts
<1>1. TypeOK /\ Order /\ Lease => OneLeaderIfLeaseOutlasts
  <2> SUFFICES ASSUME TypeOK, Order, Lease, Budget(MaxFailures) < LockTtl,
                      NEW i \in Instances, NEW j \in Instances, Leads(i), Leads(j)
               PROVE  i = j
    BY DEF OneLeaderIfLeaseOutlasts, OneLeader
  <2>1. ASSUME NEW k \in Instances, Leads(k) PROVE lock = k
    <3>1. missed[k] \in Nat /\ missed[k] + 1 <= MaxFailures /\ MaxFailures \in Nat
      BY <2>1, LeaseAssumption DEF TypeOK, Order, FewMissed, Leads
    <3>2. Budget(missed[k] + 1) <= Budget(MaxFailures)
      BY <3>1, BudgetGrows
    <3>3. /\ Budget(missed[k] + 1) \in Nat /\ Budget(MaxFailures) \in Nat
          /\ LockTtl \in Nat
      BY <3>1, BudgetSteps, LeaseAssumption
    <3>4. Budget(missed[k] + 1) < LockTtl
      BY <3>2, <3>3
    <3> QED BY <2>1, <3>4, LeaseCoversMissed
  <2> QED BY <2>1
<1> QED BY <1>1, TypeCorrect, OrderHolds, LeaseHolds, PTL

\* The lock leaves its owner when its time is over, or when the owner stops.
THEOREM OnlyOwnerReleases == Spec => LockLostOnlyByOwner
<1>1. TypeOK /\ Order /\ [Next]_vars =>
        [\A i \in Instances : lock = i /\ lock' # i =>
           ttl = 1 \/ (stage[i] = "stopping" /\ call[i]["stop"] = "release")]_vars
  <2> SUFFICES ASSUME TypeOK, Order, [Next]_vars, NEW i \in Instances, lock = i, lock' # i
               PROVE  ttl = 1 \/ (stage[i] = "stopping" /\ call[i]["stop"] = "release")
    OBVIOUS
  <2>1. ASSUME NEW j \in Instances, NEW t \in Threads, Execute(j, t)
        PROVE  stage[i] = "stopping" /\ call[i]["stop"] = "release"
    <3>1. ReleaseIfOwned(j, t) /\ lock = j
      BY <2>1, InstancesAssumption DEF Execute, SetNx, RenewIfOwned, ReleaseIfOwned, OwnedBy
    <3> QED BY <3>1 DEF ReleaseIfOwned, Order, ThreadsInStep, Busy, Threads
  <2>2. ASSUME NEW j \in Instances, NEW t \in Threads, Fail(j, t) \/ AskOwnership(j, t)
        PROVE  FALSE
    BY <2>2 DEF Fail, AskOwnership
  <2>3. ASSUME NEW j \in Instances, Service(j) PROVE FALSE
    BY <2>3, ServiceIsLocal
  <2>4. CASE Tick
    BY <2>4, InstancesAssumption DEF TypeOK, Order, KeyExpires, Tick
  <2>5. CASE UNCHANGED vars
    BY <2>5 DEF vars
  <2> QED BY <2>1, <2>2, <2>3, <2>4, <2>5 DEF Next, Command
<1> QED BY <1>1, TypeCorrect, OrderHolds, PTL DEF Spec, LockLostOnlyByOwner
=============================================================================
