-------------------------- MODULE MCActiveMessage --------------------------
(* Instances of ActiveMessage for TLC; one .cfg per run. *)
EXTENDS ActiveMessage

CONSTANTS m1, m2, m3, m4, f1, f2

=============================================================================
