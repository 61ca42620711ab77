------------------------ MODULE MCOpportunityExecution ------------------------
(* Small instances of OpportunityExecution for TLC. *)
EXTENDS OpportunityExecution, TLC

CONSTANTS i1, i2, o1, o2, o3, m1, m2, m3, eth

\* Every message carries the same opportunity: duplicates of one request.
Duplicates == [m \in Msgs |-> o1]
\* Every message its own opportunity.
Distinct   == [m \in Msgs |-> CASE m = m1 -> o1 [] m = m2 -> o2 [] m = m3 -> o3]
\* Two messages of one opportunity and one of another.
Siblings   == [m \in Msgs |-> IF m = m3 THEN o2 ELSE o1]
\* All opportunities on one chain.
OneChain   == [o \in Opps |-> eth]

\* Interchangeable instances, messages, and pairs of a message and its opportunity.
InstancesAlike == Permutations(Instances)
MsgsAlike == Permutations(Msgs)
PairsAlike ==
  {(m1 :> m1) @@ (m2 :> m2) @@ (o1 :> o1) @@ (o2 :> o2),
   (m1 :> m2) @@ (m2 :> m1) @@ (o1 :> o2) @@ (o2 :> o1)}
Alike == InstancesAlike \cup MsgsAlike
PairsOrInstancesAlike == InstancesAlike \cup PairsAlike

\* Two instances at work on one message, or, when a command has failed already, one
\* on two of them.
NarrowInit ==
  \/ \E m \in Msgs : InitAfter(Msgs \ {m}, {}, 0)
  \/ \E i \in Instances : InitAfter({}, Instances \ {i}, MaxFaults - 1)
NarrowSpec == NarrowInit /\ [][Next]_vars
=============================================================================
