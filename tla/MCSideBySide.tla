----------------------------- MODULE MCSideBySide -----------------------------
(***************************************************************************)
(* One run for the safety of components that are modelled each in a module *)
(* of its own: the nonces of one wallet on one chain, the price matrix of  *)
(* a detector and the batcher its chains publish through.  They share no   *)
(* state: focus, fixed by the initial state, says which of them moves, and *)
(* the states of the run are those of the three, added up.                 *)
(***************************************************************************)
EXTENDS NonceManager, PriceMatrix, PricePublishing, TLC

VARIABLE focus

\* Callers and chains are exchanged together: where one kind moves the other does
\* not tell the two apart.
PairedAlike ==
    {h \in {[p \in Callers \cup Chains |-> IF p \in Callers THEN f[p] ELSE g[p]] :
                f \in Permutations(Callers), g \in Permutations(Chains)} :
        (\E p \in Callers : h[p] # p) <=> (\E p \in Chains : h[p] # p)}
AllAlike == PairedAlike \cup Permutations(Batchers)

\* All keys have the same hash.
OneBucket(k) == 1

sideVars == <<focus, nonceVars, priceVars, publishVars>>

SideInit ==
    /\ NonceInit /\ PriceInit /\ PublishInit
    /\ focus \in {"nonces", "prices", "publishing"}

\* Only the process that publishes comes to an end.
SideNext ==
    \/ focus = "nonces" /\ NonceNext /\ UNCHANGED <<focus, priceVars, publishVars>>
    \/ focus = "prices" /\ PriceNext /\ UNCHANGED <<focus, nonceVars, publishVars>>
    \/ focus = "publishing" /\ PublishNext /\ UNCHANGED <<focus, nonceVars, priceVars>>
    \/ focus = "publishing" /\ manager = "gone" /\ UNCHANGED sideVars

SideSpec == SideInit /\ [][SideNext]_sideVars
=============================================================================
