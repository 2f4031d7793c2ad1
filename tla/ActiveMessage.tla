--------------------------- MODULE ActiveMessage ---------------------------
(***************************************************************************)
(* Messages to one running child, from their admission by the coordinator  *)
(* to the answer of their sender: ActiveMessageAdmissionLease              *)
(* (active_message.rs), ActiveMessageLifecycle and ActiveMessageFuture     *)
(* (coordinator/active_message.rs), and the terminalization of the child   *)
(* (coordinator.rs).  Coordinator takes the settled flag of an admission   *)
(* as an input; here it is computed, by the race of two threads on the     *)
(* lease: the host inserts the message's row under commit_admission, while *)
(* the coordinator's thread settles or revokes the lease.  Every step is   *)
(* one atomic access of the lease.                                         *)
(***************************************************************************)
EXTENDS Integers, FiniteSets

CONSTANTS
    Msgs,        \* messages addressed to the child
    Foreign,     \* those whose sender does not own it, or may not address it
    Finalizers,  \* requests of the child's run to close its inbox
    MaxInFlight  \* MAX_ACTIVE_MESSAGE_ADMISSIONS_PER_CHILD

ASSUME MsgsFinite == IsFiniteSet(Msgs)
ASSUME ForeignMsgs == Foreign \subseteq Msgs
ASSUME MaxInFlightPositive == MaxInFlight \in Nat \ {0}

VARIABLES
    lease,       \* per message, the AtomicU8 of its lease
    host,        \* per message, how far the host is in commit_admission
    reply,       \* per message, what its sender was told
    poll,        \* the ActiveMessageFuture the coordinator's thread is polling
    finalizing,  \* the lifecycle is Finalizing
    inFlight,    \* its in_flight
    clean,       \* its disposition is Clean
    fin,         \* per finalizer, what it was told
    cancelled,   \* the child's cancellation token
    output,      \* the run of the child and its output
    actor        \* the coordinator's task

lifecycle == <<finalizing, inFlight, clean>>
child == <<lifecycle, fin, cancelled, output>>
vars == <<lease, host, reply, poll, child, actor>>

Leases == {"Absent", "Open", "Claimed", "Committed", "Revoked"}
HostSteps == {"idle", "claimed", "inserted", "stored"}
Replies == {"none", "accepted", "refused", "uncertain"}

\* ActiveMessageCompletionOutcome.  The host's verdicts Unsupported,
\* ChannelClosed and Rejected differ in the words of the reply only.
Outcomes == {"Admitted", "Refused", "Cancelled", "DeadlineElapsed"}

Idle == [at |-> "idle"]

\* A poll that found its outcome: about to revoke a lease that it read as
\* open, or done with the lease and about to hand over the completion.
Polled == [at : {"revoke", "complete"}, msg : Msgs, outcome : Outcomes, settled : BOOLEAN]

Found(at, m, o, settled) == [at |-> at, msg |-> m, outcome |-> o, settled |-> settled]

TypeOK ==
    /\ lease \in [Msgs -> Leases]
    /\ host \in [Msgs -> HostSteps]
    /\ reply \in [Msgs -> Replies]
    /\ poll \in {Idle} \cup Polled
    /\ finalizing \in BOOLEAN
    /\ inFlight \in Nat
    /\ clean \in BOOLEAN
    /\ fin \in [Finalizers -> {"unasked", "waiting", "clean", "unclean"}]
    /\ cancelled \in BOOLEAN
    /\ output \in {"running", "withheld", "finished", "unproven", "lost"}
    /\ actor \in {"running", "dropping", "gone"}

Init ==
    /\ lease = [m \in Msgs |-> "Absent"]
    /\ host = [m \in Msgs |-> "idle"]
    /\ reply = [m \in Msgs |-> "none"]
    /\ poll = Idle
    /\ finalizing = FALSE
    /\ inFlight = 0
    /\ clean = TRUE
    /\ fin = [f \in Finalizers |-> "unasked"]
    /\ cancelled = FALSE
    /\ output = "running"
    /\ actor = "running"

\* The rows of the child's inbox.
rows == {m \in Msgs : host[m] \in {"inserted", "stored"}}

\* The futures of active_messages: admitted, not yet answered.
Pending == {m \in Msgs : lease[m] # "Absent" /\ reply[m] = "none"}

\* The child is in the coordinator's active map.
ChildActive == output \in {"running", "withheld"}

\* The coordinator's task is between two events.
Free == actor = "running" /\ poll = Idle

-----------------------------------------------------------------------------
(* The host: commit_admission, on the thread of the child's session *)

Claim(m) ==
    /\ lease[m] = "Open"
    /\ lease' = [lease EXCEPT ![m] = "Claimed"]
    /\ host' = [host EXCEPT ![m] = "claimed"]
    /\ UNCHANGED <<reply, poll, child, actor>>

Insert(m) ==
    /\ host[m] = "claimed"
    /\ host' = [host EXCEPT ![m] = "inserted"]
    /\ UNCHANGED <<lease, reply, poll, child, actor>>

Store(m) ==
    /\ host[m] = "inserted"
    /\ host' = [host EXCEPT ![m] = "stored"]
    /\ lease' = [lease EXCEPT ![m] = "Committed"]
    /\ UNCHANGED <<reply, poll, child, actor>>

-----------------------------------------------------------------------------
(* Admission *)

\* The early returns of admit_active_message and begin_admission.
Admissible(m) ==
    /\ ChildActive
    /\ m \notin Foreign
    /\ ~cancelled
    /\ ~finalizing
    /\ inFlight < MaxInFlight

\* Faulty variant: begin_admission does not count.
AdmitUncounted(m) ==
    /\ Free
    /\ lease[m] = "Absent"
    /\ reply[m] = "none"
    /\ Admissible(m)
    /\ lease' = [lease EXCEPT ![m] = "Open"]
    /\ UNCHANGED <<host, reply, poll, child, actor>>

\* admit_active_message
Admit(m) ==
    /\ Free
    /\ lease[m] = "Absent"
    /\ reply[m] = "none"
    /\ Admissible(m)
    /\ lease' = [lease EXCEPT ![m] = "Open"]
    /\ inFlight' = inFlight + 1
    /\ UNCHANGED <<host, reply, poll, finalizing, clean, fin, cancelled, output, actor>>

\* An early return answers at once, without a lease.
RefuseAdmission(m) ==
    /\ Free
    /\ lease[m] = "Absent"
    /\ reply[m] = "none"
    /\ ~Admissible(m)
    /\ reply' = [reply EXCEPT ![m] = "refused"]
    /\ UNCHANGED <<lease, host, poll, child, actor>>

-----------------------------------------------------------------------------
(* Settlement *)

\* Faulty variant: a store instead of a compare-exchange.
RevokedBlindly(m) == [lease EXCEPT ![m] = "Revoked"]

\* revoke: one compare-exchange of Open by Revoked.
Revoked(m) == [lease EXCEPT ![m] = IF @ = "Open" THEN "Revoked" ELSE @]

\* The future is ready: the host gave its verdict, the child was cancelled or
\* the deadline passed.  The first access of the lease, by settle or revoke.
Poll(m, o) ==
    /\ Free
    /\ m \in Pending
    /\ o = "Cancelled" => cancelled
    /\ \/ /\ o = "Admitted"
          /\ poll' = Found("complete", m, o, lease[m] = "Committed")
          /\ UNCHANGED lease
       \/ /\ o = "Refused"
          /\ poll' = Found(IF lease[m] = "Open" THEN "revoke" ELSE "complete",
                           m, o, lease[m] = "Revoked")
          /\ UNCHANGED lease
       \/ /\ o \in {"Cancelled", "DeadlineElapsed"}
          /\ lease' = Revoked(m)
          /\ poll' = Found("complete", m, o, lease'[m] = "Revoked")
    /\ UNCHANGED <<host, reply, child, actor>>

\* Faulty variant: the result of the compare-exchange is ignored.
SettleIgnoresRace ==
    /\ poll.at = "revoke"
    /\ lease' = Revoked(poll.msg)
    /\ poll' = Found("complete", poll.msg, poll.outcome, TRUE)
    /\ UNCHANGED <<host, reply, child, actor>>

\* The compare-exchange of settle, after it read Open.
SettleRevokes ==
    /\ poll.at = "revoke"
    /\ lease' = Revoked(poll.msg)
    /\ poll' = Found("complete", poll.msg, poll.outcome, lease[poll.msg] = "Open")
    /\ UNCHANGED <<host, reply, child, actor>>

\* protocol_outcome_from_completion and lost_completion_outcome
ProtocolOutcome(o, settled) ==
    IF ~settled THEN "uncertain" ELSE IF o = "Admitted" THEN "accepted" ELSE "refused"

LostOutcome(o, settled) ==
    IF ~settled \/ o = "Admitted" THEN "uncertain" ELSE "refused"

\* Faulty variant: the waiters are forgotten.
ResolveNone(isClean) == fin

\* resolve_waiters
ResolveWaiters(isClean) ==
    [f \in Finalizers |->
        IF fin[f] # "waiting" THEN fin[f] ELSE IF isClean THEN "clean" ELSE "unclean"]

\* Faulty variant: the last admission decides alone.
RecordLast(isSettled) == isSettled

\* TerminalDrainDisposition::record
Record(isSettled) == clean /\ isSettled

\* finish_admission takes the last admission of a finalizing child.
Drained == inFlight = 1 /\ finalizing

\* finish_terminalized_child: the output, and the cancellation of a child
\* whose admissions are not proven settled.
Terminalized(isClean) == IF isClean THEN "finished" ELSE "unproven"

\* The polled future is dropped, which revokes a lease that is still open, and
\* finish_active_message handles its completion.
Complete ==
    LET isClean == Record(poll.settled)
        ends == Drained /\ output = "withheld"
    IN  /\ poll.at = "complete"
        /\ poll' = Idle
        /\ lease' = Revoked(poll.msg)
        /\ IF ChildActive
           THEN /\ reply' = [reply EXCEPT ![poll.msg] =
                                ProtocolOutcome(poll.outcome, poll.settled)]
                /\ inFlight' = inFlight - 1
                /\ clean' = isClean
                /\ fin' = IF Drained THEN ResolveWaiters(isClean) ELSE fin
                /\ output' = IF ends THEN Terminalized(isClean) ELSE output
                /\ cancelled' = (cancelled \/ (ends /\ ~isClean))
           ELSE /\ reply' = [reply EXCEPT ![poll.msg] =
                                LostOutcome(poll.outcome, poll.settled)]
                /\ UNCHANGED <<inFlight, clean, fin, output, cancelled>>
        /\ UNCHANGED <<host, finalizing, actor>>

-----------------------------------------------------------------------------
(* The end of the child *)

\* handle_active_message_finalizing
BeginFinalizing(f) ==
    /\ Free
    /\ fin[f] = "unasked"
    /\ IF ChildActive
       THEN /\ finalizing' = TRUE
            /\ fin' = [fin EXCEPT ![f] = IF inFlight # 0 THEN "waiting"
                                         ELSE IF clean THEN "clean" ELSE "unclean"]
       ELSE /\ fin' = [fin EXCEPT ![f] = "unclean"]
            /\ UNCHANGED finalizing
    /\ UNCHANGED <<lease, host, reply, poll, inFlight, clean, cancelled, output, actor>>

\* Faulty variant: the output is not withheld.
TerminalizeAtOnce ==
    /\ Free
    /\ output = "running"
    /\ finalizing' = TRUE
    /\ output' = Terminalized(clean)
    /\ cancelled' = (cancelled \/ ~clean)
    /\ fin' = ResolveWaiters(FALSE)
    /\ UNCHANGED <<lease, host, reply, poll, inFlight, clean, actor>>

\* begin_terminalization.  A child that leaves the active map drops its
\* lifecycle, which answers the finalizers that still wait.
BeginTerminalization ==
    /\ Free
    /\ output = "running"
    /\ finalizing' = TRUE
    /\ output' = IF inFlight # 0 THEN "withheld" ELSE Terminalized(clean)
    /\ cancelled' = (cancelled \/ (inFlight = 0 /\ ~clean))
    /\ fin' = IF inFlight # 0 THEN fin ELSE ResolveWaiters(FALSE)
    /\ UNCHANGED <<lease, host, reply, poll, inFlight, clean, actor>>

\* Any holder of the child's token cancels it.
Cancel ==
    /\ ChildActive
    /\ ~cancelled
    /\ cancelled' = TRUE
    /\ UNCHANGED <<lease, host, reply, poll, lifecycle, fin, output, actor>>

\* The coordinator is dropped where its task waits: cancel_all_children, then
\* every future (each revokes its lease and answers), then the children.
DropCoordinator ==
    /\ Free
    /\ actor' = "dropping"
    /\ cancelled' = (cancelled \/ ChildActive)
    /\ UNCHANGED <<lease, host, reply, poll, lifecycle, fin, output>>

\* Drop of an ActiveMessageFuture that has not completed.
DropFuture(m) ==
    /\ actor = "dropping"
    /\ m \in Pending
    /\ lease' = Revoked(m)
    /\ reply' = [reply EXCEPT ![m] = IF lease'[m] = "Revoked" THEN "refused" ELSE "uncertain"]
    /\ UNCHANGED <<host, poll, child, actor>>

\* Drop of the child's lifecycle, with its finalizers and its output.
DropChildren ==
    /\ actor = "dropping"
    /\ Pending = {}
    /\ actor' = "gone"
    /\ fin' = ResolveWaiters(FALSE)
    /\ output' = IF ChildActive THEN "lost" ELSE output
    /\ UNCHANGED <<lease, host, reply, poll, lifecycle, cancelled>>

-----------------------------------------------------------------------------
HostStep(m) == Claim(m) \/ Insert(m) \/ Store(m)

Next ==
    \/ \E m \in Msgs : HostStep(m)
    \/ \E m \in Msgs : Admit(m) \/ RefuseAdmission(m)
    \/ \E m \in Msgs, o \in Outcomes : Poll(m, o)
    \/ SettleRevokes
    \/ Complete
    \/ \E f \in Finalizers : BeginFinalizing(f)
    \/ BeginTerminalization
    \/ Cancel
    \/ DropCoordinator
    \/ \E m \in Msgs : DropFuture(m)
    \/ DropChildren

Spec == Init /\ [][Next]_vars

\* The coordinator's thread runs: a deadline is polled when it has passed, a
\* poll and a drop are carried to their end.  Nothing is assumed of the host,
\* which may never give a verdict and may stop inside commit_admission.
Fairness ==
    /\ \A m \in Msgs : WF_vars(Poll(m, "DeadlineElapsed"))
    /\ WF_vars(SettleRevokes)
    /\ WF_vars(Complete)
    /\ \A m \in Msgs : WF_vars(DropFuture(m))
    /\ WF_vars(DropChildren)

FairSpec == Spec /\ Fairness

-----------------------------------------------------------------------------
(* Properties *)

\* Somebody relies on the inbox being final: a finalizer was told that it is
\* clean, or the child was filed with the result of its run.
Sealed == output = "finished" \/ \E f \in Finalizers : fin[f] = "clean"

\* A sender told that its message was accepted has a row in the child's inbox,
\* and one that was refused has none and will have none, however the host's
\* commit, the deadline and the drop of the coordinator interleave.
AnswersAreTrue ==
    \A m \in Msgs :
        /\ reply[m] = "accepted" => m \in rows
        /\ reply[m] = "refused" => m \notin rows /\ lease[m] \in {"Absent", "Revoked"}

\* in_flight is the number of futures of the child, and the child outlives
\* them: no completion finds its child gone, or in_flight at zero (the
\* unreachable! of finish_admission).
InFlightMatches ==
    /\ ChildActive /\ actor = "running" => inFlight = Cardinality(Pending)
    /\ ~ChildActive => Pending = {}

\* A clean finalization, or a child filed with its own result, accounts for
\* every row: the inbox holds the accepted messages and nothing else, and no
\* sender was left uncertain, not even before the finalization began.
CleanMeansAccounted ==
    Sealed => /\ rows = {m \in Msgs : reply[m] = "accepted"}
              /\ \A m \in Msgs : reply[m] # "uncertain"

\* A message is ruled out when its lease is revoked, or when its sender is
\* answered without one having been made.
FateOf(m) ==
    IF m \in rows THEN "in"
    ELSE IF lease[m] = "Revoked" \/ (lease[m] = "Absent" /\ reply[m] # "none") THEN "out"
    ELSE "open"

D == INSTANCE Delivery WITH
        fate <- [m \in Msgs |-> FateOf(m)], answer <- reply, sealed <- Sealed

\* The lease implements the promise of Delivery: fates are decided once,
\* definite answers agree with them, and a sealed inbox receives nothing.
DeliveryPromise == D!Spec

\* Even if the host never reacts, every admitted message is answered, so is
\* every finalizer that waits, and the output of an ended run is released.
NothingWaitsForever ==
    /\ \A m \in Msgs : m \in Pending ~> reply[m] # "none"
    /\ \A f \in Finalizers : fin[f] = "waiting" ~> fin[f] # "waiting"
    /\ output = "withheld" ~> output # "withheld"
=============================================================================
