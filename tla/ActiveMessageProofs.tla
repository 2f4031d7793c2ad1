------------------------ MODULE ActiveMessageProofs ------------------------
(***************************************************************************)
(* Proofs about ActiveMessage: the answers are true, in_flight matches, a  *)
(* clean end accounts for every row, and the lease implements Delivery.    *)
(***************************************************************************)
EXTENDS ActiveMessage, FiniteSetTheorems, TLAPS

\* A lease is where the host's commit_admission left it.
HostOK ==
    \A m \in Msgs :
        /\ host[m] = "idle" <=> lease[m] \in {"Absent", "Open", "Revoked"}
        /\ host[m] = "stored" <=> lease[m] = "Committed"

\* An answer is backed by a lease that no longer changes, except that an
\* uncertain one may still be committed.
ReplyOK ==
    \A m \in Msgs :
        /\ reply[m] = "accepted" => lease[m] = "Committed"
        /\ reply[m] = "refused" => lease[m] \in {"Absent", "Revoked"}
        /\ reply[m] = "uncertain" => lease[m] \notin {"Absent", "Open"}

\* What the coordinator's thread knows in the middle of a poll.
PollOK ==
    poll # Idle =>
        /\ poll.msg \in Pending
        /\ ChildActive
        /\ actor = "running"
        /\ poll.at = "revoke" => poll.outcome = "Refused"
        /\ poll.at = "complete" /\ poll.settled =>
             lease[poll.msg] = IF poll.outcome = "Admitted" THEN "Committed" ELSE "Revoked"

\* The disposition remembers every uncertain answer.
CleanOK ==
    ChildActive /\ actor = "running" /\ clean => \A m \in Msgs : reply[m] # "uncertain"

\* Nothing is on its way into a sealed inbox.
SealOK ==
    Sealed => finalizing /\ Pending = {} /\ \A m \in Msgs : reply[m] # "uncertain"

IInv == TypeOK /\ HostOK /\ ReplyOK /\ PollOK /\ InFlightMatches /\ CleanOK /\ SealOK

-----------------------------------------------------------------------------
(* Counting the futures *)

LEMMA PendingFinite == IsFiniteSet(Pending) /\ Cardinality(Pending) \in Nat
<1>1. Pending \subseteq Msgs
  BY DEF Pending
<1>2. IsFiniteSet(Pending)
  BY <1>1, MsgsFinite, FS_Subset
<1> QED
  BY <1>2, FS_CardinalityType

\* A child without admissions in flight has no future.
LEMMA NoneInFlight ==
    ASSUME IInv, ChildActive, actor = "running", inFlight = 0
    PROVE  Pending = {}
<1>1. Cardinality(Pending) = 0
  BY DEF IInv, InFlightMatches
<1> QED
  BY <1>1, PendingFinite, FS_EmptySet

\* A step that moves a lease among its states after Absent, and answers
\* nobody, keeps the futures.
LEMMA SamePending ==
    ASSUME IInv, UNCHANGED reply,
           \A m \in Msgs : lease[m] = "Absent" <=> lease'[m] = "Absent"
    PROVE  Pending' = Pending
  BY DEF Pending

-----------------------------------------------------------------------------
(* The inductive invariant *)

LEMMA InitIInv == Init => IInv
<1> SUFFICES ASSUME Init PROVE IInv
  OBVIOUS
<1>1. TypeOK
  BY DEF Init, TypeOK, Leases, HostSteps, Replies
<1>2. Pending = {}
  BY DEF Init, Pending
<1>3. Cardinality(Pending) = 0
  BY <1>2, FS_EmptySet
<1>4. HostOK /\ ReplyOK /\ PollOK /\ CleanOK
  BY DEF Init, HostOK, ReplyOK, PollOK, CleanOK
<1>5. InFlightMatches /\ SealOK
  BY <1>2, <1>3 DEF Init, InFlightMatches, SealOK, Sealed, ChildActive
<1> QED
  BY <1>1, <1>4, <1>5 DEF IInv

LEMMA HostKeeps ==
    ASSUME IInv, NEW m \in Msgs, HostStep(m)
    PROVE  IInv'
<1> USE DEF IInv, HostStep, Claim, Insert, Store, child, lifecycle
<1>1. TypeOK'
  BY DEF TypeOK, Leases, HostSteps
<1>2. HostOK'
  BY DEF HostOK, TypeOK, Leases, HostSteps
<1>3. Pending' = Pending
  <2>1. \A n \in Msgs : lease[n] = "Absent" <=> lease'[n] = "Absent"
    BY DEF TypeOK, HostOK, Leases, HostSteps
  <2> QED
    BY <2>1, SamePending
<1>4. ReplyOK'
  BY DEF ReplyOK, HostOK, TypeOK, Leases, HostSteps
<1>5. PollOK'
  BY <1>3 DEF PollOK, HostOK, TypeOK, Leases, HostSteps, Polled, ChildActive
<1>6. (InFlightMatches /\ CleanOK /\ SealOK)'
  BY <1>3 DEF InFlightMatches, CleanOK, SealOK, Sealed, ChildActive
<1> QED
  BY <1>1, <1>2, <1>4, <1>5, <1>6

LEMMA AdmitKeeps ==
    ASSUME IInv, NEW m \in Msgs, Admit(m)
    PROVE  IInv'
<1> USE DEF IInv, Admit, Admissible, Free, ChildActive
<1>1. TypeOK'
  BY DEF TypeOK, Leases
<1>2. Pending' = Pending \cup {m} /\ m \notin Pending
  BY DEF Pending, TypeOK
<1>3. Cardinality(Pending') = Cardinality(Pending) + 1
  BY <1>2, PendingFinite, FS_AddElement
<1>4. HostOK' /\ ReplyOK'
  BY DEF HostOK, ReplyOK, TypeOK
<1>5. PollOK' /\ CleanOK' /\ SealOK'
  BY DEF PollOK, CleanOK, SealOK, Sealed
<1>6. InFlightMatches'
  BY <1>3 DEF InFlightMatches
<1> QED
  BY <1>1, <1>4, <1>5, <1>6

LEMMA RefuseKeeps ==
    ASSUME IInv, NEW m \in Msgs, RefuseAdmission(m)
    PROVE  IInv'
<1> USE DEF IInv, RefuseAdmission, Free, child, lifecycle
<1>1. TypeOK'
  BY DEF TypeOK, Replies
<1>2. Pending' = Pending
  BY DEF Pending, TypeOK
<1>3. (HostOK /\ ReplyOK /\ PollOK)'
  BY DEF HostOK, ReplyOK, PollOK, TypeOK
<1>4. (InFlightMatches /\ CleanOK /\ SealOK)'
  BY <1>2 DEF InFlightMatches, CleanOK, SealOK, Sealed, ChildActive, TypeOK
<1> QED
  BY <1>1, <1>3, <1>4

\* What a poll that found its outcome leaves behind.
LEMMA PollFinds ==
    ASSUME IInv, NEW m \in Msgs, NEW o \in Outcomes, Poll(m, o)
    PROVE  \E at \in {"revoke", "complete"}, settled \in BOOLEAN :
              /\ poll' = Found(at, m, o, settled)
              /\ at = "revoke" => o = "Refused"
              /\ at = "complete" /\ settled =>
                   lease'[m] = IF o = "Admitted" THEN "Committed" ELSE "Revoked"
<1> USE DEF Poll
<1>1. CASE o = "Admitted"
  <2>1. poll' = Found("complete", m, o, lease[m] = "Committed") /\ lease' = lease
    BY <1>1
  <2>2. (lease[m] = "Committed") \in BOOLEAN
    OBVIOUS
  <2> QED
    BY <1>1, <2>1, <2>2, Zenon
<1>2. CASE o = "Refused"
  <2>1. poll' = Found(IF lease[m] = "Open" THEN "revoke" ELSE "complete", m, o,
                      lease[m] = "Revoked") /\ lease' = lease
    BY <1>2
  <2>2. (lease[m] = "Revoked") \in BOOLEAN
    OBVIOUS
  <2>3. (IF lease[m] = "Open" THEN "revoke" ELSE "complete") \in {"revoke", "complete"}
    OBVIOUS
  <2>4. o # "Admitted"
    BY <1>2
  <2> QED
    BY <1>2, <2>1, <2>2, <2>3, <2>4, Zenon
<1>3. CASE o \in {"Cancelled", "DeadlineElapsed"}
  <2>1. poll' = Found("complete", m, o, lease'[m] = "Revoked")
    BY <1>3
  <2>2. (lease'[m] = "Revoked") \in BOOLEAN
    OBVIOUS
  <2>3. o # "Admitted"
    BY <1>3
  <2> QED
    BY <2>1, <2>2, <2>3, Zenon
<1> QED
  BY <1>1, <1>2, <1>3 DEF Outcomes

LEMMA PollKeeps ==
    ASSUME IInv, NEW m \in Msgs, NEW o \in Outcomes, Poll(m, o)
    PROVE  IInv'
<1> USE DEF IInv, Poll, Free, Revoked, child, lifecycle
<1>0. PICK at \in {"revoke", "complete"}, settled \in BOOLEAN :
          /\ poll' = Found(at, m, o, settled)
          /\ at = "revoke" => o = "Refused"
          /\ at = "complete" /\ settled =>
               lease'[m] = IF o = "Admitted" THEN "Committed" ELSE "Revoked"
  BY PollFinds
<1>1. TypeOK'
  <2>1. poll' \in Polled
    BY <1>0 DEF Found, Polled
  <2> QED
    BY <2>1 DEF TypeOK, Leases
<1>2. Pending' = Pending
  <2>1. \A n \in Msgs : lease[n] = "Absent" <=> lease'[n] = "Absent"
    BY DEF TypeOK, Leases
  <2> QED
    BY <2>1, SamePending
<1>3. ChildActive
  BY DEF InFlightMatches
<1>4. (HostOK /\ ReplyOK)'
  BY DEF HostOK, ReplyOK, TypeOK, Pending
<1>5. PollOK'
  BY <1>0, <1>2, <1>3 DEF PollOK, ChildActive, Found
<1>6. (InFlightMatches /\ CleanOK /\ SealOK)'
  BY <1>2 DEF InFlightMatches, CleanOK, SealOK, Sealed, ChildActive
<1> QED
  BY <1>1, <1>4, <1>5, <1>6

\* In the middle of a poll the future is a pending one.
LEMMA PolledFacts ==
    ASSUME IInv, poll.at \in {"revoke", "complete"}
    PROVE  /\ poll \in Polled
           /\ poll.msg \in Pending
           /\ poll.msg \in Msgs
           /\ ChildActive
           /\ actor = "running"
  BY DEF IInv, TypeOK, PollOK, Idle, Polled

LEMMA SettleRevokesKeeps ==
    ASSUME IInv, SettleRevokes
    PROVE  IInv'
<1> USE DEF IInv, SettleRevokes, Revoked, child, lifecycle
<1>0. poll \in Polled /\ poll.msg \in Pending /\ poll.msg \in Msgs /\ ChildActive /\ actor = "running"
  BY PolledFacts
<1>1. TypeOK'
  <2>1. poll' \in Polled
    BY <1>0 DEF Found, Polled
  <2> QED
    BY <1>0, <2>1 DEF TypeOK, Leases
<1>2. Pending' = Pending
  <2>1. \A n \in Msgs : lease[n] = "Absent" <=> lease'[n] = "Absent"
    BY <1>0 DEF TypeOK, Leases
  <2> QED
    BY <2>1, SamePending
<1>4. (HostOK /\ ReplyOK)'
  BY <1>0 DEF HostOK, ReplyOK, TypeOK, Pending
<1>5. PollOK'
  <2>1. poll.outcome = "Refused"
    BY <1>0 DEF PollOK, Idle
  <2> QED
    BY <1>0, <1>2, <2>1 DEF PollOK, ChildActive, TypeOK, Found
<1>6. (InFlightMatches /\ CleanOK /\ SealOK)'
  BY <1>2 DEF InFlightMatches, CleanOK, SealOK, Sealed, ChildActive
<1> QED
  BY <1>1, <1>4, <1>5, <1>6

\* Resolved finalizers stay finalizers, and only a clean resolution makes one
\* clean that was not.
LEMMA Resolved ==
    ASSUME IInv, NEW isClean \in BOOLEAN
    PROVE  /\ ResolveWaiters(isClean) \in [Finalizers -> {"unasked", "waiting", "clean", "unclean"}]
           /\ \A f \in Finalizers : fin[f] = "clean" => ResolveWaiters(isClean)[f] = "clean"
           /\ ~isClean => \A f \in Finalizers :
                             ResolveWaiters(isClean)[f] = "clean" => fin[f] = "clean"
  BY DEF IInv, TypeOK, ResolveWaiters

LEMMA CompleteKeeps ==
    ASSUME IInv, Complete
    PROVE  IInv'
<1> DEFINE m == poll.msg
           isClean == clean /\ poll.settled
           drained == inFlight = 1 /\ finalizing
           ends == drained /\ output = "withheld"
           answer == ProtocolOutcome(poll.outcome, poll.settled)
<1>1. /\ poll \in Polled /\ m \in Pending /\ m \in Msgs
      /\ ChildActive /\ actor = "running" /\ poll.at = "complete"
  BY PolledFacts DEF Complete
<1>2. /\ poll' = Idle
      /\ lease' = [lease EXCEPT ![m] = IF @ = "Open" THEN "Revoked" ELSE @]
      /\ reply' = [reply EXCEPT ![m] = answer]
      /\ inFlight' = inFlight - 1
      /\ clean' = isClean
      /\ fin' = IF drained THEN ResolveWaiters(isClean) ELSE fin
      /\ output' = IF ends THEN Terminalized(isClean) ELSE output
      /\ cancelled' = (cancelled \/ (ends /\ ~isClean))
      /\ UNCHANGED <<host, finalizing, actor>>
  BY <1>1 DEF Complete, Revoked, Record, Drained
<1>3. answer \in {"accepted", "refused", "uncertain"}
  BY DEF ProtocolOutcome
<1>4. Pending' = Pending \ {m}
  BY <1>1, <1>2, <1>3 DEF Pending, IInv, TypeOK, Leases
<1>5. inFlight = Cardinality(Pending) /\ Cardinality(Pending') = inFlight - 1
  BY <1>1, <1>4, PendingFinite, FS_RemoveElement DEF IInv, InFlightMatches
<1>6. inFlight - 1 \in Nat /\ (inFlight = 1 => Pending' = {})
  <2>1. IsFiniteSet(Pending')
    BY <1>4, PendingFinite, FS_RemoveElement
  <2>2. Cardinality(Pending') \in Nat
    BY <2>1, FS_CardinalityType
  <2>3. Cardinality(Pending') = 0 => Pending' = {}
    BY <2>1, FS_EmptySet
  <2> QED
    BY <1>5, <2>2, <2>3
<1>7. isClean \in BOOLEAN
  BY <1>1 DEF Polled, IInv, TypeOK
<1>8. TypeOK'
  <2>1. fin' \in [Finalizers -> {"unasked", "waiting", "clean", "unclean"}]
    BY <1>2, <1>7, Resolved DEF IInv, TypeOK
  <2>2. output' \in {"running", "withheld", "finished", "unproven", "lost"}
    BY <1>2 DEF Terminalized, IInv, TypeOK
  <2>3. lease' \in [Msgs -> Leases] /\ reply' \in [Msgs -> Replies]
    BY <1>1, <1>2, <1>3 DEF IInv, TypeOK, Leases, Replies
  <2>4. clean' \in BOOLEAN /\ cancelled' \in BOOLEAN
    BY <1>2, <1>7
  <2> QED
    BY <1>2, <1>6, <2>1, <2>2, <2>3, <2>4 DEF IInv, TypeOK
<1>9. HostOK'
  BY <1>1, <1>2 DEF IInv, TypeOK, HostOK
<1>10. ReplyOK'
  <2>1. /\ answer = "accepted" => lease[m] = "Committed"
        /\ answer = "refused" => lease[m] = "Revoked"
    BY <1>1 DEF ProtocolOutcome, IInv, PollOK, Idle, Polled
  <2>2. lease'[m] \notin {"Absent", "Open"}
    BY <1>1, <1>2 DEF Pending, IInv, TypeOK
  <2>3. \A n \in Msgs \ {m} : lease'[n] = lease[n] /\ reply'[n] = reply[n]
    BY <1>1, <1>2 DEF IInv, TypeOK
  <2>4. reply'[m] = answer /\ (lease[m] # "Open" => lease'[m] = lease[m])
    BY <1>1, <1>2 DEF IInv, TypeOK
  <2> QED
    BY <1>3, <2>1, <2>2, <2>3, <2>4 DEF IInv, ReplyOK
<1>11. PollOK'
  BY <1>2 DEF PollOK
<1>12. clean' => \A n \in Msgs : reply'[n] # "uncertain"
  BY <1>1, <1>2, <1>7 DEF ProtocolOutcome, IInv, CleanOK, TypeOK
<1>13. CleanOK'
  BY <1>12 DEF CleanOK
<1>14. InFlightMatches'
  BY <1>1, <1>2, <1>5, <1>6 DEF InFlightMatches, ChildActive
<1>15. SealOK'
  <2>1. ~Sealed
    BY <1>1 DEF IInv, SealOK
  <2>2. Sealed' => drained /\ isClean
    <3>1. ~drained => ~Sealed'
      BY <1>2, <2>1 DEF Sealed
    <3>2. ~isClean => ~Sealed'
      BY <1>2, <1>7, <2>1, Resolved DEF Sealed, Terminalized
    <3> QED
      BY <3>1, <3>2
  <2> QED
    BY <1>2, <1>6, <1>12, <2>2 DEF SealOK
<1> QED
  BY <1>8, <1>9, <1>10, <1>11, <1>13, <1>14, <1>15 DEF IInv

LEMMA FinalizingKeeps ==
    ASSUME IInv, NEW f \in Finalizers, BeginFinalizing(f)
    PROVE  IInv'
<1> USE DEF IInv, BeginFinalizing, Free
<1>1. TypeOK'
  BY DEF TypeOK
<1>2. Pending' = Pending /\ ChildActive' = ChildActive
  BY DEF Pending, ChildActive
<1>3. (HostOK /\ ReplyOK /\ PollOK)'
  BY DEF HostOK, ReplyOK, PollOK
<1>4. (InFlightMatches /\ CleanOK)'
  BY <1>2 DEF InFlightMatches, CleanOK
<1>5. SealOK'
  <2>1. CASE Sealed
    BY <1>2, <2>1 DEF SealOK
  <2>2. CASE ~Sealed /\ Sealed'
    <3>1. ChildActive /\ inFlight = 0 /\ clean /\ finalizing'
      BY <2>2 DEF Sealed, TypeOK
    <3> QED
      BY <1>2, <3>1, NoneInFlight DEF SealOK, CleanOK
  <2> QED
    BY <2>1, <2>2 DEF SealOK
<1> QED
  BY <1>1, <1>3, <1>4, <1>5

LEMMA TerminalizationKeeps ==
    ASSUME IInv, BeginTerminalization
    PROVE  IInv'
<1> USE DEF IInv, BeginTerminalization, Free
<1>1. TypeOK'
  <2>1. fin' \in [Finalizers -> {"unasked", "waiting", "clean", "unclean"}]
    BY Resolved DEF TypeOK
  <2> QED
    BY <2>1 DEF TypeOK, Terminalized
<1>2. Pending' = Pending /\ ChildActive
  BY DEF Pending, ChildActive
<1>3. inFlight = 0 => Pending = {}
  BY <1>2, NoneInFlight
<1>4. (HostOK /\ ReplyOK /\ PollOK)'
  BY DEF HostOK, ReplyOK, PollOK
<1>5. InFlightMatches'
  BY <1>2, <1>3 DEF InFlightMatches, ChildActive
<1>6. CleanOK'
  BY <1>2 DEF CleanOK
<1>7. SealOK'
  <2>1. CASE Sealed
    BY <1>2, <2>1 DEF SealOK
  <2>2. CASE ~Sealed /\ Sealed'
    <3>1. inFlight = 0 /\ clean
      BY <2>2, Resolved DEF Sealed, Terminalized
    <3> QED
      BY <1>2, <1>3, <3>1 DEF SealOK, CleanOK
  <2> QED
    BY <2>1, <2>2 DEF SealOK
<1> QED
  BY <1>1, <1>4, <1>5, <1>6, <1>7

LEMMA CancelKeeps ==
    ASSUME IInv, Cancel \/ DropCoordinator
    PROVE  IInv'
<1> USE DEF IInv, Cancel, DropCoordinator, lifecycle, Free
<1>1. TypeOK'
  BY DEF TypeOK, ChildActive
<1>2. Pending' = Pending /\ ChildActive' = ChildActive /\ (actor' = "running" => actor = "running")
  BY DEF Pending, ChildActive
<1>3. (HostOK /\ ReplyOK)'
  BY DEF HostOK, ReplyOK
<1>4. PollOK'
  BY <1>2 DEF PollOK
<1>5. (InFlightMatches /\ CleanOK /\ SealOK)'
  BY <1>2 DEF InFlightMatches, CleanOK, SealOK, Sealed
<1> QED
  BY <1>1, <1>3, <1>4, <1>5

LEMMA DropFutureKeeps ==
    ASSUME IInv, NEW m \in Msgs, DropFuture(m)
    PROVE  IInv'
<1> USE DEF IInv, DropFuture, Revoked, child, lifecycle
<1>1. TypeOK'
  BY DEF TypeOK, Leases, Replies
<1>2. poll = Idle /\ ~Sealed
  BY DEF PollOK, SealOK
<1>3. HostOK' /\ ReplyOK'
  BY DEF HostOK, ReplyOK, TypeOK, Pending
<1>4. PollOK' /\ CleanOK' /\ SealOK'
  BY <1>2 DEF PollOK, CleanOK, SealOK, Sealed
<1>5. InFlightMatches'
  BY DEF InFlightMatches, ChildActive
<1> QED
  BY <1>1, <1>3, <1>4, <1>5

LEMMA DropChildrenKeeps ==
    ASSUME IInv, DropChildren
    PROVE  IInv'
<1> USE DEF IInv, DropChildren, lifecycle
<1>1. TypeOK'
  BY Resolved DEF TypeOK
<1>2. poll = Idle /\ Pending' = {}
  BY DEF PollOK, Pending
<1>3. (HostOK /\ ReplyOK)'
  BY DEF HostOK, ReplyOK
<1>4. (PollOK /\ CleanOK /\ InFlightMatches)'
  BY <1>2 DEF PollOK, CleanOK, InFlightMatches
<1>5. SealOK'
  <2>1. Sealed' => Sealed
    BY Resolved DEF Sealed
  <2> QED
    BY <1>2, <2>1 DEF SealOK
<1> QED
  BY <1>1, <1>3, <1>4, <1>5

LEMMA StepKeeps == IInv /\ [Next]_vars => IInv'
<1> SUFFICES ASSUME IInv, [Next]_vars PROVE IInv'
  OBVIOUS
<1>1. CASE UNCHANGED vars
  BY <1>1 DEF vars, child, lifecycle, IInv, TypeOK, HostOK, ReplyOK, PollOK, InFlightMatches,
     CleanOK, SealOK, Sealed, Pending, ChildActive
<1>2. CASE Next
  BY <1>2, HostKeeps, AdmitKeeps, RefuseKeeps, PollKeeps, SettleRevokesKeeps, CompleteKeeps,
     FinalizingKeeps, TerminalizationKeeps, CancelKeeps, DropFutureKeeps, DropChildrenKeeps
     DEF Next
<1> QED
  BY <1>1, <1>2

LEMMA Invariance == Spec => []IInv
  BY InitIInv, StepKeeps, PTL DEF Spec

-----------------------------------------------------------------------------
(* The theorems *)

\* The lease, the lifecycle and the poll of a future are always well formed.
THEOREM MessageTypeCorrect == Spec => []TypeOK
  BY Invariance, PTL DEF IInv

\* What a sender was told of its message is true, and stays true, for any
\* number of messages and any behaviour of the host.
THEOREM AnswersCorrect == Spec => []AnswersAreTrue
<1>1. IInv => AnswersAreTrue
  BY DEF IInv, TypeOK, HostSteps, HostOK, ReplyOK, AnswersAreTrue, rows
<1> QED
  BY <1>1, Invariance, PTL

\* in_flight counts the futures of the child, so finish_admission never meets
\* a count of zero and no completion finds its child gone.
THEOREM InFlightCorrect == Spec => []InFlightMatches
  BY Invariance, PTL DEF IInv

\* A clean end accounts for every row of the inbox.
THEOREM CleanCorrect == Spec => []CleanMeansAccounted
<1>1. IInv => CleanMeansAccounted
  <2> SUFFICES ASSUME IInv, Sealed
               PROVE  /\ rows = {m \in Msgs : reply[m] = "accepted"}
                      /\ \A m \in Msgs : reply[m] # "uncertain"
    BY DEF CleanMeansAccounted
  <2>1. \A m \in Msgs : reply[m] # "uncertain"
    BY DEF IInv, SealOK
  <2>2. \A m \in Msgs : m \in rows <=> reply[m] = "accepted"
    BY <2>1 DEF IInv, SealOK, Pending, rows, TypeOK, HostSteps, Replies, HostOK, ReplyOK
  <2> QED
    BY <2>1, <2>2 DEF rows
<1> QED
  BY <1>1, Invariance, PTL

-----------------------------------------------------------------------------
(* The lease implements Delivery *)

\* What a step must do to the three abstract variables, message by message.
LEMMA FateStutters ==
    ASSUME \A n \in Msgs : FateOf(n)' = FateOf(n), UNCHANGED reply, Sealed' <=> Sealed
    PROVE  UNCHANGED D!vars
  BY DEF D!vars, Sealed

LEMMA FateExcluded ==
    ASSUME NEW m \in Msgs, UNCHANGED reply, Sealed' <=> Sealed,
           FateOf(m) = "open", FateOf(m)' = "out",
           \A n \in Msgs \ {m} : FateOf(n)' = FateOf(n)
    PROVE  D!Exclude(m)
  BY DEF D!Exclude, Sealed

LEMMA FateAnswered ==
    ASSUME NEW m \in Msgs, NEW a \in {"accepted", "refused", "uncertain"},
           reply \in [Msgs -> Replies], reply[m] = "none",
           reply' = [reply EXCEPT ![m] = a], Sealed => Sealed',
           FateOf(m)' = FateOf(m) \/ (FateOf(m) = "open" /\ FateOf(m)' = "out"),
           D!Speaks(a, FateOf(m)'),
           \A n \in Msgs \ {m} : FateOf(n)' = FateOf(n)
    PROVE  D!Answer(m, a)
  BY DEF D!Answer, Sealed

\* No row is on its way into a sealed inbox.
LEMMA SealedNotClaimed ==
    ASSUME IInv, NEW m \in Msgs, host[m] = "claimed"
    PROVE  ~Sealed
  BY DEF IInv, TypeOK, Leases, Replies, HostOK, ReplyOK, SealOK, Pending

LEMMA HostImplements ==
    ASSUME IInv, NEW m \in Msgs, HostStep(m)
    PROVE  UNCHANGED D!vars \/ D!Insert(m)
<1> USE DEF IInv, TypeOK, Leases, HostSteps, HostOK, child, lifecycle
<1>1. (Sealed' <=> Sealed) /\ reply' = reply
  BY DEF HostStep, Claim, Insert, Store, Sealed
<1>2. CASE Claim(m) \/ Store(m)
  <2>1. \A n \in Msgs : FateOf(n)' = FateOf(n)
    BY <1>2 DEF Claim, Store, FateOf, rows
  <2> QED
    BY <1>1, <2>1, FateStutters
<1>3. CASE Insert(m)
  <2>1. ~Sealed
    BY <1>3, SealedNotClaimed DEF Insert
  <2>2. FateOf(m) = "open" /\ FateOf(m)' = "in"
    BY <1>3 DEF Insert, FateOf, rows
  <2>3. \A n \in Msgs \ {m} : FateOf(n)' = FateOf(n)
    BY <1>3 DEF Insert, FateOf, rows
  <2> HIDE DEF IInv
  <2> QED
    BY <1>1, <2>1, <2>2, <2>3 DEF D!Insert, Sealed
<1> QED
  BY <1>2, <1>3 DEF HostStep

LEMMA AdmissionImplements ==
    ASSUME IInv, NEW m \in Msgs, Admit(m) \/ RefuseAdmission(m)
    PROVE  UNCHANGED D!vars \/ D!Answer(m, "refused")
<1> USE DEF IInv, TypeOK, HostOK, child, lifecycle
<1>1. Sealed' <=> Sealed
  BY DEF Admit, RefuseAdmission, Sealed
<1>2. CASE Admit(m)
  <2>1. \A n \in Msgs : FateOf(n)' = FateOf(n)
    BY <1>2 DEF Admit, FateOf, rows
  <2> QED
    BY <1>1, <1>2, <2>1, FateStutters DEF Admit
<1>3. CASE RefuseAdmission(m)
  <2>1. FateOf(m) = "open" /\ FateOf(m)' = "out"
    BY <1>3 DEF RefuseAdmission, FateOf, rows
  <2>2. \A n \in Msgs \ {m} : FateOf(n)' = FateOf(n)
    BY <1>3 DEF RefuseAdmission, FateOf, rows
  <2>3. D!Speaks("refused", FateOf(m)')
    BY <2>1 DEF D!Speaks
  <2> QED
    BY <1>1, <1>3, <2>1, <2>2, <2>3, FateAnswered DEF RefuseAdmission
<1> QED
  BY <1>2, <1>3

\* A lease that a step revokes, or leaves alone, with nobody answered.
LEMMA RevokeImplements ==
    ASSUME IInv, NEW m \in Msgs, m \in Pending, lease' \in {lease, Revoked(m)},
           UNCHANGED <<host, reply, child>>
    PROVE  UNCHANGED D!vars \/ D!Exclude(m)
<1>1. Sealed' <=> Sealed
  BY DEF Sealed, child
<1>2. \A n \in Msgs \ {m} : FateOf(n)' = FateOf(n)
  BY DEF FateOf, rows, Revoked, IInv, TypeOK
<1>3. \/ FateOf(m)' = FateOf(m)
      \/ FateOf(m) = "open" /\ FateOf(m)' = "out"
  BY DEF FateOf, rows, Revoked, IInv, TypeOK
<1> QED
  BY <1>1, <1>2, <1>3, FateStutters, FateExcluded

\* Dropping a future decides an open fate and answers in the same step.
LEMMA DropImplements ==
    ASSUME IInv, NEW m \in Msgs, m \in Pending, NEW a \in {"accepted", "refused", "uncertain"},
           lease' = Revoked(m), reply' = [reply EXCEPT ![m] = a], UNCHANGED host,
           a = "accepted" => lease[m] = "Committed",
           a = "refused" => lease'[m] = "Revoked",
           Sealed => Sealed'
    PROVE  D!Answer(m, a)
<1> USE DEF IInv, TypeOK
<1>1. \A n \in Msgs \ {m} : FateOf(n)' = FateOf(n)
  BY DEF FateOf, rows, Revoked
<1>2. FateOf(m)' = FateOf(m) \/ (FateOf(m) = "open" /\ FateOf(m)' = "out")
  BY DEF FateOf, rows, Revoked, Pending
<1>3. D!Speaks(a, FateOf(m)')
  BY DEF D!Speaks, FateOf, rows, Revoked, HostOK, HostSteps
<1>4. reply[m] = "none"
  BY DEF Pending
<1> QED
  BY <1>1, <1>2, <1>3, <1>4, FateAnswered

LEMMA CompleteImplements ==
    ASSUME IInv, Complete
    PROVE  D!Answer(poll.msg, ProtocolOutcome(poll.outcome, poll.settled))
<1> DEFINE m == poll.msg
           a == ProtocolOutcome(poll.outcome, poll.settled)
<1>1. /\ poll \in Polled /\ m \in Pending /\ m \in Msgs
      /\ ChildActive /\ poll.at = "complete"
  BY PolledFacts DEF Complete
<1>2. a \in {"accepted", "refused", "uncertain"}
  BY DEF ProtocolOutcome
<1>3. /\ lease' = Revoked(m)
      /\ reply' = [reply EXCEPT ![m] = a]
      /\ UNCHANGED host
  BY <1>1 DEF Complete
<1>4. /\ a = "accepted" => lease[m] = "Committed"
      /\ a = "refused" => lease[m] = "Revoked"
  BY <1>1 DEF ProtocolOutcome, IInv, PollOK, Idle, Polled
<1>5. a = "refused" => lease'[m] = "Revoked"
  BY <1>1, <1>3, <1>4 DEF Revoked, IInv, TypeOK
<1>6. Sealed => Sealed'
  BY <1>1 DEF IInv, SealOK
<1> HIDE DEF a, m
<1> QED
  BY <1>1, <1>2, <1>3, <1>4, <1>5, <1>6, DropImplements DEF a, m

\* The remaining steps change no lease and answer no sender.
LEMMA OtherImplements ==
    ASSUME IInv, UNCHANGED <<lease, host, reply>>, Sealed => Sealed'
    PROVE  UNCHANGED D!vars \/ D!Seal
<1>1. \A n \in Msgs : FateOf(n)' = FateOf(n)
  BY DEF FateOf, rows
<1>2. CASE Sealed' <=> Sealed
  BY <1>1, <1>2, FateStutters
<1>3. CASE Sealed' /\ ~Sealed
  BY <1>1, <1>3 DEF D!Seal, Sealed
<1> QED
  BY <1>2, <1>3

LEMMA SealedStays ==
    ASSUME IInv,
           \/ \E f \in Finalizers : BeginFinalizing(f)
           \/ BeginTerminalization \/ Cancel \/ DropCoordinator \/ DropChildren
    PROVE  Sealed => Sealed'
<1>1. output = "finished" => output' = "finished"
  BY DEF BeginFinalizing, BeginTerminalization, Cancel, DropCoordinator, DropChildren, ChildActive
<1>2. \A g \in Finalizers : fin[g] = "clean" => fin'[g] = "clean"
  <2>1. CASE \E f \in Finalizers : BeginFinalizing(f)
    BY <2>1 DEF BeginFinalizing, IInv, TypeOK
  <2>2. CASE BeginTerminalization \/ DropChildren
    BY <2>2, Resolved DEF BeginTerminalization, DropChildren
  <2>3. CASE Cancel \/ DropCoordinator
    BY <2>3 DEF Cancel, DropCoordinator
  <2> QED
    BY <2>1, <2>2, <2>3
<1> QED
  BY <1>1, <1>2 DEF Sealed

LEMMA StepImplements ==
    ASSUME IInv, Next
    PROVE  UNCHANGED D!vars \/ D!Next
<1>1. ASSUME NEW m \in Msgs, HostStep(m) PROVE UNCHANGED D!vars \/ D!Next
  BY <1>1, HostImplements DEF D!Next
<1>2. ASSUME NEW m \in Msgs, Admit(m) \/ RefuseAdmission(m) PROVE UNCHANGED D!vars \/ D!Next
  BY <1>2, AdmissionImplements DEF D!Next
<1>3. ASSUME NEW m \in Msgs, NEW o \in Outcomes, Poll(m, o) PROVE UNCHANGED D!vars \/ D!Next
  <2>1. m \in Pending /\ lease' \in {lease, Revoked(m)} /\ UNCHANGED <<host, reply, child>>
    BY <1>3 DEF Poll
  <2> QED
    BY <1>3, <2>1, RevokeImplements DEF D!Next
<1>4. ASSUME SettleRevokes PROVE UNCHANGED D!vars \/ D!Next
  <2>1. poll.msg \in Pending /\ poll.msg \in Msgs
    BY <1>4, PolledFacts DEF SettleRevokes
  <2>2. lease' = Revoked(poll.msg) /\ UNCHANGED <<host, reply, child>>
    BY <1>4 DEF SettleRevokes
  <2> QED
    BY <2>1, <2>2, RevokeImplements DEF D!Next
<1>5. ASSUME Complete PROVE UNCHANGED D!vars \/ D!Next
  <2>1. poll.msg \in Msgs
    BY <1>5, PolledFacts DEF Complete
  <2>2. ProtocolOutcome(poll.outcome, poll.settled) \in {"accepted", "refused", "uncertain"}
    BY DEF ProtocolOutcome
  <2> QED
    BY <1>5, <2>1, <2>2, CompleteImplements DEF D!Next
<1>6. ASSUME NEW m \in Msgs, DropFuture(m) PROVE UNCHANGED D!vars \/ D!Next
  <2> DEFINE a == IF lease'[m] = "Revoked" THEN "refused" ELSE "uncertain"
  <2>1. Sealed => Sealed'
    BY <1>6 DEF DropFuture, Sealed, child
  <2>2. D!Answer(m, a)
    BY <1>6, <2>1, DropImplements DEF DropFuture
  <2> QED
    BY <2>2 DEF D!Next
<1>7. ASSUME \/ \E f \in Finalizers : BeginFinalizing(f)
             \/ BeginTerminalization \/ Cancel \/ DropCoordinator \/ DropChildren
      PROVE  UNCHANGED D!vars \/ D!Next
  <2>1. UNCHANGED <<lease, host, reply>>
    BY <1>7 DEF BeginFinalizing, BeginTerminalization, Cancel, DropCoordinator, DropChildren
  <2> QED
    BY <1>7, <2>1, SealedStays, OtherImplements DEF D!Next
<1> QED
  BY <1>1, <1>2, <1>3, <1>4, <1>5, <1>6, <1>7 DEF Next

\* The admission lease, raced by the host's commit, the deadline, the
\* cancellation and the drop of the coordinator, implements Delivery.
THEOREM LeaseDelivers == Spec => DeliveryPromise
<1>1. Init => D!Init
  BY DEF Init, D!Init, FateOf, rows, Sealed
<1>2. IInv /\ [Next]_vars => [D!Next]_(D!vars)
  <2>1. ASSUME UNCHANGED vars PROVE UNCHANGED D!vars
    BY <2>1 DEF vars, child, D!vars, FateOf, rows, Sealed
  <2> QED
    BY <2>1, StepImplements
<1> QED
  BY <1>1, <1>2, Invariance, PTL DEF Spec, DeliveryPromise, D!Spec

=============================================================================
