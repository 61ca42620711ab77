-------------------------- MODULE MCLeaderElection --------------------------
(* Small instances of LeaderElection for TLC. *)
EXTENDS LeaderElection, TLC

CONSTANTS c1, c2

\* Interchangeable instances.
InstancesAlike == Permutations(Instances)
=============================================================================
