---------------------------- MODULE MCComponents ----------------------------
(***************************************************************************)
(* One run for the liveness of the components, each modelled in a module   *)
(* of its own: the pipeline of one engine, the breaker of a chain, the     *)
(* polling of a stream and the forwarding of a coordinator.  They share no *)
(* state: focus, fixed by the initial state, says which of them moves, the *)
(* others stay at one initial state of theirs, and the states of the run   *)
(* are those of the components, added up.                                  *)
(***************************************************************************)
EXTENDS MCOpportunityExecution, ChainCircuit, StreamPolling, CoordinatorForwarding

VARIABLE focus

componentVars == <<focus, vars, circuitVars, pollVars, forwardVars>>

CONSTANT k2

\* Two coordinators and a message, or one and two messages.
SmallForwarding ==
    \/ /\ InGroup("new") = Messages \ {m2}
       /\ \A i \in Coordinators : coordinator[i] = "off"
    \/ /\ InGroup("new") = Messages
       /\ \A i \in Coordinators : coordinator[i] = "crashed" <=> i = k2

\* Two messages of one opportunity, and a command may fail; or two of different ones.
SmallExecution == InitAfter({m3}, {}, 0) \/ InitAfter({m2}, {}, MaxFaults)

ComponentsInit ==
    /\ CircuitInit /\ PollInit /\ ForwardInit
    /\ focus \in {"execution", "circuit", "polling", "forwarding"}
    /\ \/ focus = "execution" /\ SmallExecution
       \/ focus # "execution" /\ Init
    /\ \/ focus = "polling"
       \/ ~batchHandler /\ ~autoAck
    /\ \/ focus = "forwarding" /\ SmallForwarding
       \/ focus # "forwarding" /\ InGroup("new") = Messages
             /\ \A i \in Coordinators : coordinator[i] = "off"

ComponentsNext ==
    \/ /\ focus = "execution" /\ Next
       /\ UNCHANGED <<focus, circuitVars, pollVars, forwardVars>>
    \/ /\ focus = "circuit" /\ CircuitNext
       /\ UNCHANGED <<focus, vars, pollVars, forwardVars>>
    \/ /\ focus = "polling" /\ PollNext
       /\ UNCHANGED <<focus, vars, circuitVars, forwardVars>>
    \/ /\ focus = "forwarding" /\ ForwardNext
       /\ UNCHANGED <<focus, vars, circuitVars, pollVars>>

\* The fairness of each module, for the component that moves.
ExecutionFairness ==
    /\ \A i \in Instances :
         /\ WF_vars(focus = "execution" /\ \E m \in Msgs : Fetch(i, m))
         /\ WF_vars(focus = "execution" /\ \E m \in Msgs : Handler(i, m))
         /\ WF_vars(focus = "execution" /\ AckExpired(i))
         /\ WF_vars(focus = "execution" /\ \E m \in Msgs : Replied(i, m))
         /\ WF_vars(focus = "execution" /\ EndRecovery(i))
    /\ \A i \in Instances, m \in Msgs : WF_vars(focus = "execution" /\ Pipeline(i, m))
    /\ \A i \in Instances, o \in Opps : WF_vars(focus = "execution" /\ CleanupStale(i, o))
    /\ WF_vars(focus = "execution" /\ Tick)

OthersFairness ==
    /\ \A t \in Trades :
         /\ WF_circuitVars(focus = "circuit" /\ Arrive(t))
         /\ WF_circuitVars(focus = "circuit" /\ Dequeue(t))
         /\ WF_circuitVars(focus = "circuit" /\ Ends(t))
    /\ WF_circuitVars(focus = "circuit" /\ CooldownPasses)
    /\ WF_pollVars(focus = "polling" /\ TimerFires)
    /\ WF_pollVars(focus = "polling" /\ StopResolves)
    /\ \A q \in Polls : /\ WF_pollVars(focus = "polling" /\ PollStep(q))
                        /\ SF_pollVars(focus = "polling" /\ ReadReplies(q))
                        /\ SF_pollVars(focus = "polling" /\ GroupRecreated(q))
    /\ WF_forwardVars(focus = "forwarding" /\ LeaseExpires)
    /\ \A m \in Messages : WF_forwardVars(focus = "forwarding" /\ ForwardStep(m))
    /\ \A i \in Coordinators :
         /\ WF_forwardVars(focus = "forwarding" /\ PollOf(i))
         /\ WF_forwardVars(focus = "forwarding" /\ StopOf(i))

ComponentsSpec ==
    /\ ComponentsInit /\ [][ComponentsNext]_componentVars
    /\ ExecutionFairness /\ OthersFairness
=============================================================================
