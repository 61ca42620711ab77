---------------------------- MODULE ChainCircuit ----------------------------
(***************************************************************************)
(* The circuit breaker of one chain (execution-engine circuit-breaker.ts,  *)
(* reached through circuit-breaker-manager.ts) and its only client, the    *)
(* dequeue loop and the executions of execution-pipeline.ts.               *)
(*                                                                         *)
(* canExecute is asked when an opportunity is taken out of the queue, and  *)
(* in HALF_OPEN it uses up one of a few attempts.  The answer to an        *)
(* attempt, recordSuccess or recordFailure, comes much later, from the     *)
(* strategy, or never: the chain may be full, the opportunity locked by    *)
(* another instance, stale, or refused by risk management.  An execution   *)
(* that timed out gives its slot back and may still answer afterwards.     *)
(***************************************************************************)
EXTENDS Naturals, FiniteSets

CONSTANTS
    Trades,            \* opportunities of the chain under way at once
    FailureThreshold,  \* config.failureThreshold
    HalfOpenMax,       \* config.halfOpenMaxAttempts
    ChainSlots,        \* maxConcurrentPerChain
    RequeueMax,        \* MAX_CB_REENQUEUE_ATTEMPTS
    FailureCap         \* bound on consecutiveFailures

\* createCircuitBreaker throws on a threshold or an attempt limit below 1.
ASSUME CircuitAssumption ==
    /\ FailureThreshold \in Nat \ {0} /\ HalfOpenMax \in Nat \ {0}
    /\ ChainSlots \in Nat /\ RequeueMax \in Nat
    /\ FailureCap \in Nat /\ FailureCap >= FailureThreshold
    /\ IsFiniteSet(Trades)

VARIABLES
    cbState,               \* CLOSED, OPEN or HALF_OPEN
    consecutiveFailures,
    halfOpenAttempts,
    cooledDown,            \* the cooldown of the open circuit has passed
    trade,                 \* where each opportunity stands
    requeued,              \* cbReenqueueCounts
    probes,                \* history: unanswered trades let in by HALF_OPEN
    lostProbes             \* history: attempts of it that ended unanswered

breakerVars == <<cbState, consecutiveFailures, halfOpenAttempts, cooledDown>>
circuitVars == <<breakerVars, trade, requeued, probes, lostProbes>>

CircuitInit ==
    /\ cbState = "CLOSED" /\ consecutiveFailures = 0
    /\ halfOpenAttempts = 0 /\ cooledDown = FALSE
    /\ trade = [t \in Trades |-> "idle"]
    /\ requeued = [t \in Trades |-> 0]
    /\ probes = {} /\ lostProbes = 0

-----------------------------------------------------------------------------
(* canExecute *)

Admits ==
    \/ cbState = "CLOSED"
    \/ cbState = "OPEN" /\ cooledDown
    \/ cbState = "HALF_OPEN" /\ halfOpenAttempts < HalfOpenMax

\* Variants: a later attempt is not counted; the first of a period is added
\* to those of the last one.
TakeUncounted ==
    /\ Admits
    /\ \/ cbState # "OPEN" /\ UNCHANGED breakerVars
       \/ /\ cbState = "OPEN"
          /\ cbState' = "HALF_OPEN" /\ halfOpenAttempts' = 1
          /\ UNCHANGED <<consecutiveFailures, cooledDown>>
TakeAnother ==
    /\ Admits
    /\ \/ cbState = "CLOSED" /\ UNCHANGED breakerVars
       \/ /\ cbState # "CLOSED"
          /\ cbState' = "HALF_OPEN" /\ halfOpenAttempts' = halfOpenAttempts + 1
          /\ UNCHANGED <<consecutiveFailures, cooledDown>>
(* What a canExecute that answers true changes.                            *)
TakeAttempt ==
    /\ Admits
    /\ \/ cbState = "CLOSED" /\ UNCHANGED breakerVars
       \/ /\ cbState = "OPEN"
          /\ cbState' = "HALF_OPEN"
          /\ halfOpenAttempts' = 1
          /\ UNCHANGED <<consecutiveFailures, cooledDown>>
       \/ /\ cbState = "HALF_OPEN"
          /\ halfOpenAttempts' = halfOpenAttempts + 1
          /\ UNCHANGED <<cbState, consecutiveFailures, cooledDown>>

-----------------------------------------------------------------------------
(* processQueueItems *)

Arrive(t) ==
    /\ trade[t] = "idle"
    /\ trade' = [trade EXCEPT ![t] = "queued"]
    /\ UNCHANGED <<breakerVars, requeued, probes, lostProbes>>

ExecutingOnChain == {t \in Trades : trade[t] = "admitted"}
ChainFull == Cardinality(ExecutingOnChain) >= ChainSlots

(* Blocked: back into the queue, or dropped after too many attempts.       *)
CircuitBlocks(t) ==
    /\ trade[t] = "queued" /\ ~Admits
    /\ \/ /\ requeued[t] + 1 >= RequeueMax
          /\ requeued' = [requeued EXCEPT ![t] = 0]
          /\ trade' = [trade EXCEPT ![t] = "idle"]
       \/ /\ requeued[t] + 1 < RequeueMax
          /\ requeued' = [requeued EXCEPT ![t] = @ + 1]
          /\ UNCHANGED trade
    /\ UNCHANGED <<breakerVars, probes, lostProbes>>

(* The chain is looked at after the circuit: the attempt is already used.  *)
PutBackFull(t) ==
    /\ trade[t] = "queued" /\ ChainFull
    /\ TakeAttempt
    /\ requeued' = [requeued EXCEPT ![t] = 0]
    /\ lostProbes' = IF cbState = "CLOSED" THEN lostProbes ELSE lostProbes + 1
    /\ UNCHANGED <<trade, probes>>

LetIn(t) ==
    /\ trade[t] = "queued" /\ ~ChainFull
    /\ TakeAttempt
    /\ requeued' = [requeued EXCEPT ![t] = 0]
    /\ trade' = [trade EXCEPT ![t] = "admitted"]
    /\ probes' = IF cbState = "CLOSED" THEN probes ELSE probes \cup {t}
    /\ UNCHANGED lostProbes

-----------------------------------------------------------------------------
(* executeOpportunityWithLock and executeOpportunity *)

(* The timer fires: the slot is free, the strategy goes on.                *)
TradeTimesOut(t) ==
    /\ trade[t] = "admitted"
    /\ trade' = [trade EXCEPT ![t] = "overrun"]
    /\ UNCHANGED <<breakerVars, requeued, probes, lostProbes>>

UnderWay(t) == trade[t] \in {"admitted", "overrun"}

(* Executed before, locked elsewhere, Redis down, stale, refused for risk: *)
(* none of these says anything to the breaker.                             *)
EndsUnrecorded(t) ==
    /\ UnderWay(t)
    /\ trade' = [trade EXCEPT ![t] = "idle"]
    /\ probes' = probes \ {t}
    /\ lostProbes' = IF t \in probes THEN lostProbes + 1 ELSE lostProbes
    /\ UNCHANGED <<breakerVars, requeued>>

(* transitionTo: the history starts anew with each period.                 *)
EnterCircuit(state) ==
    /\ cbState' = state
    /\ cooledDown' = FALSE
    /\ probes' = {} /\ lostProbes' = 0
    /\ UNCHANGED halfOpenAttempts

CountedFailures ==
    IF consecutiveFailures < FailureCap THEN consecutiveFailures + 1
                                        ELSE consecutiveFailures

RecordFailure(t) ==
    /\ UnderWay(t)
    /\ trade' = [trade EXCEPT ![t] = "idle"]
    /\ consecutiveFailures' = CountedFailures
    /\ \/ /\ cbState = "CLOSED" /\ CountedFailures >= FailureThreshold
          /\ EnterCircuit("OPEN")
       \/ /\ cbState = "HALF_OPEN"
          /\ EnterCircuit("OPEN")
       \/ /\ \/ cbState = "CLOSED" /\ CountedFailures < FailureThreshold
             \/ cbState = "OPEN"
          /\ UNCHANGED <<cbState, cooledDown, halfOpenAttempts, probes,
                         lostProbes>>
    /\ UNCHANGED requeued

RecordSuccess(t) ==
    /\ UnderWay(t)
    /\ trade' = [trade EXCEPT ![t] = "idle"]
    /\ \/ /\ cbState = "CLOSED"
          /\ consecutiveFailures' = 0
          /\ UNCHANGED <<cbState, cooledDown, halfOpenAttempts, probes,
                         lostProbes>>
       \/ /\ cbState = "HALF_OPEN"
          /\ consecutiveFailures' = 0
          /\ EnterCircuit("CLOSED")
       \/ /\ cbState = "OPEN"
          /\ UNCHANGED <<breakerVars, probes, lostProbes>>
    /\ UNCHANGED requeued

-----------------------------------------------------------------------------
CooldownPasses ==
    /\ cbState = "OPEN" /\ ~cooledDown
    /\ cooledDown' = TRUE
    /\ UNCHANGED <<cbState, consecutiveFailures, halfOpenAttempts, trade,
                   requeued, probes, lostProbes>>

\* Variant: the failures are still counted after the override.
ForceCloseOnly ==
    /\ cbState # "CLOSED"
    /\ EnterCircuit("CLOSED")
    /\ UNCHANGED <<consecutiveFailures, trade, requeued>>
(* The manual overrides of circuit-breaker-api.ts.                         *)
ForceClose ==
    /\ cbState # "CLOSED"
    /\ consecutiveFailures' = 0
    /\ EnterCircuit("CLOSED")
    /\ UNCHANGED <<trade, requeued>>

ForceOpen ==
    /\ cbState # "OPEN"
    /\ EnterCircuit("OPEN")
    /\ UNCHANGED <<consecutiveFailures, trade, requeued>>

Dequeue(t) == CircuitBlocks(t) \/ PutBackFull(t) \/ LetIn(t)
Ends(t) == EndsUnrecorded(t) \/ RecordFailure(t) \/ RecordSuccess(t)

CircuitNext ==
    \/ \E t \in Trades : Arrive(t) \/ Dequeue(t) \/ TradeTimesOut(t) \/ Ends(t)
    \/ CooldownPasses \/ ForceClose \/ ForceOpen

(* Opportunities keep coming, what is queued is dequeued, every execution  *)
(* comes to some end and the clock goes on; nobody need use an override.   *)
CircuitFairness ==
    /\ \A t \in Trades : /\ WF_circuitVars(Arrive(t))
                         /\ WF_circuitVars(Dequeue(t))
                         /\ WF_circuitVars(Ends(t))
    /\ WF_circuitVars(CooldownPasses)

CircuitSpec == CircuitInit /\ [][CircuitNext]_circuitVars /\ CircuitFairness

-----------------------------------------------------------------------------
CircuitTypeOK ==
    /\ cbState \in {"CLOSED", "OPEN", "HALF_OPEN"}
    /\ consecutiveFailures \in Nat /\ halfOpenAttempts \in Nat
    /\ cooledDown \in BOOLEAN
    /\ trade \in [Trades -> {"idle", "queued", "admitted", "overrun"}]
    /\ requeued \in [Trades -> Nat]
    /\ probes \subseteq Trades /\ lostProbes \in Nat

(* An attempt of the HALF_OPEN period is never lost track of: as many were *)
(* used as are under way or ended unanswered, and no more than allowed.    *)
ProbesAccountedFor ==
    cbState = "HALF_OPEN" =>
        /\ halfOpenAttempts = Cardinality(probes) + lostProbes
        /\ halfOpenAttempts <= HalfOpenMax

(* A closed circuit has room for a failure: however success, failure, late *)
(* answers and overrides are ordered, it trips at the threshold.           *)
ClosedBelowThreshold ==
    cbState = "CLOSED" => consecutiveFailures < FailureThreshold

(* A chain under test is opened or closed in the end, unless every attempt *)
(* of the period ended without an answer.                                  *)
HalfOpenDecides ==
    []<>(cbState # "HALF_OPEN" \/ lostProbes = HalfOpenMax)
=============================================================================
