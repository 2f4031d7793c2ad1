-------------------------- MODULE MCLeaderElection --------------------------
(* An instance of LeaderElection for TLC. *)
EXTENDS LeaderElection, TLC

CONSTANTS c1, c2, current, older, legacy, l1, l2, l3
=============================================================================
