-------------------------- MODULE OpportunityLedger --------------------------
(***************************************************************************)
(* What the execution side promises to whoever requests a trade, in terms  *)
(* of requests and executions only: a request is delivered once and        *)
(* settled once; only delivered requests are executed; and two executions  *)
(* of one trade never run side by side, until somebody has revoked a lock. *)
(* There are no consumers, queues, keys, locks or crashes here.            *)
(***************************************************************************)
EXTENDS Naturals

CONSTANTS Requests, TradeOf, Workers

VARIABLES
    entry,      \* each request: waiting, delivered or settled
    executing,  \* executions under way: <<worker, request>>
    revoked     \* locks taken from their holders by force

ledgerVars == <<entry, executing, revoked>>

LedgerInit ==
    /\ entry = [m \in Requests |-> "waiting"]
    /\ executing = {} /\ revoked = 0

Deliver(m) ==
    /\ entry[m] = "waiting"
    /\ entry' = [entry EXCEPT ![m] = "delivered"]
    /\ UNCHANGED <<executing, revoked>>

\* One acknowledgement may cover several requests.
SettleAll(ms) ==
    /\ \A m \in ms : entry[m] = "delivered"
    /\ entry' = [m \in Requests |-> IF m \in ms THEN "settled" ELSE entry[m]]
    /\ UNCHANGED <<executing, revoked>>

Alone(m) == \A s \in executing : TradeOf[s[2]] # TradeOf[m]

Begin(w, m) ==
    /\ entry[m] # "waiting"
    /\ Alone(m) \/ revoked > 0
    /\ executing' = executing \cup {<<w, m>>}
    /\ UNCHANGED <<entry, revoked>>

\* The worker of several executions may end, or crash.
EndAll(slots) ==
    /\ executing' = executing \ slots
    /\ UNCHANGED <<entry, revoked>>

Revoke ==
    /\ revoked' = revoked + 1
    /\ UNCHANGED <<entry, executing>>

LedgerNext ==
    \/ \E m \in Requests : Deliver(m)
    \/ \E ms \in SUBSET Requests : SettleAll(ms)
    \/ \E w \in Workers, m \in Requests : Begin(w, m)
    \/ \E slots \in SUBSET executing : EndAll(slots)
    \/ Revoke

LedgerSpec == LedgerInit /\ [][LedgerNext]_ledgerVars
=============================================================================
