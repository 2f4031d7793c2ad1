---------------------------- MODULE MCScheduler -----------------------------
(* Model values and symmetry for the model-checked instance. *)
EXTENDS Scheduler, TLC

CONSTANTS l1, o1, c1, c2, c3, p1, p2

Symmetry == Permutations(Children) \cup Permutations(Prompts)
=============================================================================
