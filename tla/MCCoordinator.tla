--------------------------- MODULE MCCoordinator ----------------------------
(* Request sets and symmetry for the model-checked instances. *)
EXTENDS Coordinator, TLC

CONSTANTS i1, i2, i3, s1, p1, w1

Foreground == [parent |-> s1, prompt |-> p1, run |-> None,
               bg |-> FALSE, toCompletion |-> FALSE, surface |-> TRUE]

Background == [Foreground EXCEPT !.bg = TRUE]

Awaited == [Foreground EXCEPT !.toCompletion = TRUE]

\* A workflow step: awaited to completion, never surfaced to the session.
Step == [Awaited EXCEPT !.run = w1, !.surface = FALSE]

Tasks == {Foreground, Background, Awaited}

TwoTasks == {Foreground, Background}

OneTask == {Background}

Mixed == {Foreground, Step}

\* Child i1's own spawns, next to spawns of the root session.
Nested == {Foreground, [Background EXCEPT !.parent = i1]}

IdSymmetry == Permutations(Ids)
=============================================================================
