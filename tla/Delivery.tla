------------------------------ MODULE Delivery ------------------------------
(***************************************************************************)
(* What the sender of an active message, and the run that closes its       *)
(* child's inbox, are promised.  A message has a fate, which is decided    *)
(* once: its row is in the child's inbox or can never be.  A sender gets   *)
(* one answer; "accepted" and "refused" say what the fate is, "uncertain"  *)
(* says nothing.  Once the inbox has been declared sealed no row enters.   *)
(***************************************************************************)
CONSTANT Msgs

VARIABLES
    fate,    \* per message: "open", "in" or "out"
    answer,  \* per message: "none", "accepted", "refused" or "uncertain"
    sealed   \* somebody was told that the inbox is final

vars == <<fate, answer, sealed>>

Init ==
    /\ fate = [m \in Msgs |-> "open"]
    /\ answer = [m \in Msgs |-> "none"]
    /\ sealed = FALSE

\* What an answer says of the fate it is given at.
Speaks(a, f) ==
    /\ a = "accepted" => f = "in"
    /\ a = "refused" => f = "out"

\* A row is inserted, never into a sealed inbox.
Insert(m) ==
    /\ ~sealed
    /\ fate[m] = "open"
    /\ fate' = [fate EXCEPT ![m] = "in"]
    /\ UNCHANGED <<answer, sealed>>

\* A row is ruled out, before or together with the answer.
Exclude(m) ==
    /\ fate[m] = "open"
    /\ fate' = [fate EXCEPT ![m] = "out"]
    /\ UNCHANGED <<answer, sealed>>

\* The sender is answered; the last answer may seal the inbox.
Answer(m, a) ==
    /\ answer[m] = "none"
    /\ answer' = [answer EXCEPT ![m] = a]
    /\ fate' \in {fate, [fate EXCEPT ![m] = IF @ = "open" THEN "out" ELSE @]}
    /\ Speaks(a, fate'[m])
    /\ sealed' \in {sealed, TRUE}

Seal ==
    /\ sealed' = TRUE
    /\ UNCHANGED <<fate, answer>>

Next ==
    \/ \E m \in Msgs : Insert(m) \/ Exclude(m)
    \/ \E m \in Msgs, a \in {"accepted", "refused", "uncertain"} : Answer(m, a)
    \/ Seal

Spec == Init /\ [][Next]_vars

=============================================================================
