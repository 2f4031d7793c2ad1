----------------------- MODULE CircuitBreakerProofs -------------------------
(***************************************************************************)
(* Proofs about CircuitBreaker for any number of threads and any           *)
(* configuration: every access of check and record keeps the shared state  *)
(* well typed, the window within its cap, and the incremental count of     *)
(* failures equal to the number of failed samples, however calls overlap.  *)
(***************************************************************************)
EXTENDS CircuitBreaker, FiniteSetTheorems, FunctionTheorems, WellFoundedInduction, TLAPS

-----------------------------------------------------------------------------
(* Counting failed samples. *)

FailedAt(es) == {i \in DOMAIN es : es[i].failed}

\* The count is of these positions.
LEMMA CountIs == \A es : CountFailures(es) = Cardinality(FailedAt(es))
  BY DEF CountFailures, FailedAt

\* The positions of failed samples are finite in number.
LEMMA FailedFinite ==
    ASSUME NEW es \in Seq(Sample)
    PROVE  IsFiniteSet(FailedAt(es)) /\ Cardinality(FailedAt(es)) \in Nat
<1>1. FailedAt(es) \in SUBSET (1 .. Len(es)) /\ Len(es) \in Int
  BY DEF FailedAt
<1>2. IsFiniteSet(FailedAt(es))
  <2>1. IsFiniteSet(1 .. Len(es))
    BY <1>1, FS_Interval
  <2> QED
    BY <1>1, <2>1, FS_Subset
<1> QED
  BY <1>2, FS_CardinalityType

\* A pushed sample adds one if it failed.
LEMMA AppendCounts ==
    ASSUME NEW es \in Seq(Sample), NEW s \in Sample
    PROVE  /\ Append(es, s) \in Seq(Sample)
           /\ CountFailures(Append(es, s)) = CountFailures(es) + (IF s.failed THEN 1 ELSE 0)
<1> DEFINE n == Len(es) + 1
<1>1. /\ Append(es, s) \in Seq(Sample) /\ DOMAIN Append(es, s) = 1 .. n
      /\ \A i \in 1 .. Len(es) : Append(es, s)[i] = es[i]
      /\ Append(es, s)[n] = s
      /\ DOMAIN es = 1 .. Len(es) /\ Len(es) \in Nat
  OBVIOUS
<1>2. CASE s.failed
  <2>1. FailedAt(Append(es, s)) = FailedAt(es) \cup {n}
    BY <1>1, <1>2 DEF FailedAt
  <2>2. n \notin FailedAt(es)
    BY <1>1 DEF FailedAt
  <2> HIDE DEF n
  <2>3. Cardinality(FailedAt(es) \cup {n}) = Cardinality(FailedAt(es)) + 1
    BY <2>2, FailedFinite, FS_AddElement
  <2> QED
    BY <1>1, <1>2, <2>1, <2>3, CountIs
<1>3. CASE ~s.failed
  <2>1. FailedAt(Append(es, s)) = FailedAt(es)
    BY <1>1, <1>3 DEF FailedAt
  <2>2. Cardinality(FailedAt(es)) \in Nat
    BY FailedFinite
  <2> QED
    BY <1>1, <1>3, <2>1, <2>2, CountIs
<1> QED
  BY <1>2, <1>3

\* Dropping the samples before position k takes their failures away.
LEMMA SuffixCounts ==
    ASSUME NEW es \in Seq(Sample), NEW k \in 1 .. Len(es) + 1
    PROVE  /\ SubSeq(es, k, Len(es)) \in Seq(Sample)
           /\ Len(SubSeq(es, k, Len(es))) = Len(es) + 1 - k
           /\ CountFailures(SubSeq(es, k, Len(es)))
                = CountFailures(es) - Cardinality({i \in DOMAIN es : i < k /\ es[i].failed})
<1> DEFINE rest == SubSeq(es, k, Len(es))
           early == {i \in DOMAIN es : i < k /\ es[i].failed}
           late == {i \in DOMAIN es : i >= k /\ es[i].failed}
<1>1. /\ rest \in Seq(Sample) /\ Len(rest) = Len(es) + 1 - k /\ Len(es) \in Nat
      /\ DOMAIN rest = 1 .. Len(es) + 1 - k /\ DOMAIN es = 1 .. Len(es)
      /\ \A i \in 1 .. Len(es) + 1 - k : rest[i] = es[i + k - 1]
  OBVIOUS
<1>2. early \in SUBSET FailedAt(es) /\ late \in SUBSET FailedAt(es)
  BY DEF FailedAt
<1>3. /\ early \cup late = FailedAt(es) /\ early \cap late = {}
  BY <1>1 DEF FailedAt
<1>4. \A i \in FailedAt(rest) : i + k - 1 \in late
  BY <1>1 DEF FailedAt
<1>5. \A j \in late : /\ j - k + 1 \in FailedAt(rest)
                      /\ (j - k + 1) + k - 1 = j
  <2> SUFFICES ASSUME NEW j \in late
               PROVE  j - k + 1 \in FailedAt(rest) /\ (j - k + 1) + k - 1 = j
    OBVIOUS
  <2>1. j \in 1 .. Len(es) /\ j >= k /\ es[j].failed
    BY <1>1
  <2>2. j - k + 1 \in 1 .. Len(es) + 1 - k /\ (j - k + 1) + k - 1 = j
    BY <1>1, <2>1
  <2>3. rest[j - k + 1] = es[j]
    BY <1>1, <2>2
  <2> HIDE DEF rest
  <2> QED
    BY <1>1, <2>1, <2>2, <2>3 DEF FailedAt
<1>6. \A i \in FailedAt(rest) : i \in Int
  BY <1>1 DEF FailedAt
<1> HIDE DEF rest, early, late
<1>7. ExistsBijection(FailedAt(rest), late)
  <2> DEFINE f == [i \in FailedAt(rest) |-> i + k - 1]
  <2>1. f \in [FailedAt(rest) -> late]
    BY <1>4
  <2>2. \A i, j \in FailedAt(rest) : f[i] = f[j] => i = j
    BY <1>6
  <2>3. \A t \in late : \E i \in FailedAt(rest) : f[i] = t
    BY <1>5
  <2> HIDE DEF f
  <2>4. f \in Bijection(FailedAt(rest), late)
    BY <2>1, <2>2, <2>3, Fun_IsBij
  <2> QED
    BY <2>4 DEF ExistsBijection
<1>8. /\ IsFiniteSet(FailedAt(rest)) /\ IsFiniteSet(FailedAt(es))
      /\ Cardinality(FailedAt(rest)) \in Nat
  BY <1>1, FailedFinite
<1>9. Cardinality(late) = Cardinality(FailedAt(rest))
  BY <1>7, <1>8, FS_Bijection
<1>10. IsFiniteSet(early) /\ IsFiniteSet(late)
  BY <1>2, <1>8, FS_Subset
<1>11. Cardinality(early) \in Nat /\ Cardinality(late) \in Nat
  BY <1>10, FS_CardinalityType
<1>12. Cardinality(FailedAt(es)) = Cardinality(early) + Cardinality(late)
  <2>1. Cardinality(early \cup late) = Cardinality(early) + Cardinality(late) - Cardinality(early \cap late)
    BY <1>10, FS_Union
  <2>2. Cardinality({}) = 0
    BY FS_EmptySet
  <2>3. Cardinality(early \cup late) = Cardinality(FailedAt(es)) /\ Cardinality(early \cap late) = 0
    BY <1>3, <2>2, Zenon
  <2> QED
    BY <1>11, <2>1, <2>3
<1>13. Cardinality(FailedAt(rest)) = Cardinality(FailedAt(es)) - Cardinality(early)
  BY <1>9, <1>11, <1>12
<1> QED
  BY <1>1, <1>13, CountIs DEF rest, early

-----------------------------------------------------------------------------
(* The window's operations. *)

\* SlidingWindow::push keeps the cap and the count.
LEMMA PushCounts ==
    ASSUME NEW es \in Seq(Sample), Len(es) <= MaxWindow, NEW isFailure \in BOOLEAN, NEW age \in Ages
    PROVE  /\ PushEntries(es, isFailure, age) \in Seq(Sample)
           /\ Len(PushEntries(es, isFailure, age)) <= MaxWindow
           /\ PushCount(es, CountFailures(es), isFailure) = CountFailures(PushEntries(es, isFailure, age))
<1> DEFINE s == [age |-> age, failed |-> isFailure]
           kept == IF Len(es) >= MaxWindow THEN Tail(es) ELSE es
           gone == IF Len(es) >= MaxWindow /\ Head(es).failed THEN 1 ELSE 0
<1>1. s \in Sample /\ s.failed = isFailure
  BY DEF Sample
<1>2. /\ kept \in Seq(Sample) /\ Len(kept) < MaxWindow
      /\ CountFailures(kept) = CountFailures(es) - gone
  <2>1. CASE Len(es) < MaxWindow
    <3>1. kept = es /\ gone = 0
      BY <2>1, CapsType
    <3>2. CountFailures(es) \in Nat
      BY FailedFinite, CountIs
    <3> HIDE DEF kept, gone
    <3> QED
      BY <2>1, <3>1, <3>2
  <2>2. CASE Len(es) >= MaxWindow
    <3>1. Len(es) = MaxWindow /\ MaxWindow \in Nat /\ MaxWindow >= 1 /\ 2 \in 1 .. Len(es) + 1
      BY <2>2, CapsType
    <3>2. kept = SubSeq(es, 2, Len(es)) /\ Head(es) = es[1] /\ 1 \in DOMAIN es
      BY <2>2, <3>1
    <3>3. Cardinality({i \in DOMAIN es : i < 2 /\ es[i].failed}) = gone
      <4>1. CASE es[1].failed
        <5>1. {i \in DOMAIN es : i < 2 /\ es[i].failed} = {1}
          BY <3>2, <4>1
        <5>2. gone = 1
          BY <2>2, <3>2, <4>1
        <5> QED
          BY <5>1, <5>2, FS_Singleton
      <4>2. CASE ~es[1].failed
        <5>1. {i \in DOMAIN es : i < 2 /\ es[i].failed} = {}
          BY <3>2, <4>2
        <5>2. gone = 0
          BY <3>2, <4>2
        <5> QED
          BY <5>1, <5>2, FS_EmptySet
      <4> QED
        BY <4>1, <4>2
    <3> HIDE DEF kept, gone
    <3> QED
      BY <3>1, <3>2, <3>3, SuffixCounts
  <2> QED
    BY <2>1, <2>2, CapsType
<1>3. PushEntries(es, isFailure, age) = Append(kept, s)
  BY DEF PushEntries
<1>4. PushCount(es, CountFailures(es), isFailure) = CountFailures(es) - gone + (IF isFailure THEN 1 ELSE 0)
  BY DEF PushCount
<1> HIDE DEF s, kept, gone
<1>5. /\ Append(kept, s) \in Seq(Sample)
      /\ CountFailures(Append(kept, s)) = CountFailures(kept) + (IF isFailure THEN 1 ELSE 0)
  BY <1>1, <1>2, AppendCounts
<1>6. Len(Append(kept, s)) <= MaxWindow
  BY <1>1, <1>2, CapsType
<1> QED
  BY <1>2, <1>3, <1>4, <1>5, <1>6

\* A nonempty set of positions has a first one.
LEMMA LeastPosition ==
    ASSUME NEW S \in SUBSET Nat, S # {}
    PROVE  \E i \in S : \A j \in S : i <= j
<1>1. PICK i \in S : \A j \in S : ~(<<j, i>> \in OpToRel(<, Nat))
  BY NatLessThanWellFounded, WFMin, Zenon
<1>2. \A j \in S : ~(j < i)
  BY <1>1 DEF OpToRel
<1> QED
  BY <1>2

\* SlidingWindow::evict keeps the cap and the count.
LEMMA EvictCounts ==
    ASSUME NEW es \in Seq(Sample), Len(es) <= MaxWindow, NEW now \in 0 .. Stall
    PROVE  /\ EvictEntries(es, now) \in Seq(Sample)
           /\ Len(EvictEntries(es, now)) <= MaxWindow
           /\ EvictCount(es, CountFailures(es), now) = CountFailures(EvictEntries(es, now))
<1> DEFINE k == FirstLive(es, now)
<1>1. k \in 1 .. Len(es) + 1
  <2>1. CASE Live(es, now) = {}
    BY <2>1 DEF FirstLive
  <2>2. CASE Live(es, now) # {}
    <3>1. Live(es, now) \in SUBSET Nat /\ Live(es, now) \subseteq 1 .. Len(es)
      BY DEF Live
    <3>2. \E i \in Live(es, now) : \A j \in Live(es, now) : i <= j
      BY <2>2, <3>1, LeastPosition
    <3>3. k \in Live(es, now)
      BY <2>2, <3>2 DEF FirstLive
    <3> QED
      BY <3>1, <3>3
  <2> QED
    BY <2>1, <2>2
<1>2. /\ EvictEntries(es, now) = SubSeq(es, k, Len(es))
      /\ EvictCount(es, CountFailures(es), now)
            = CountFailures(es) - Cardinality({i \in DOMAIN es : i < k /\ es[i].failed})
  BY DEF EvictEntries, EvictCount
<1> HIDE DEF k
<1>3. Len(es) + 1 - k <= MaxWindow
  BY <1>1, CapsType
<1> QED
  BY <1>1, <1>2, <1>3, SuffixCounts

-----------------------------------------------------------------------------
(* The invariant, in parts: what every call may touch, and the window. *)

SharedOK ==
    /\ state \in States
    /\ openedAge \in 0 .. OpenDuration
    /\ probes \in 0 .. UsizeMax
    /\ claimedAge \in Ages
    /\ mirror \in BOOLEAN
    /\ healthy \in BOOLEAN

CallsOK ==
    /\ pc \in [Threads -> Steps]
    /\ nowAge \in [Threads -> 0 .. Stall]
    /\ seen \in [Threads -> Ages]
    /\ failed \in [Threads -> BOOLEAN]
    /\ probeAge \in [Threads -> 0 .. NoProbe]

WindowOK ==
    /\ entries \in Seq(Sample)
    /\ Len(entries) <= MaxWindow
    /\ failures = CountFailures(entries)

IInv == SharedOK /\ CallsOK /\ WindowOK

\* The invariant gives both properties.
LEMMA Gives == IInv => TypeOK /\ WindowCounts
<1> SUFFICES ASSUME IInv PROVE TypeOK /\ WindowCounts
  OBVIOUS
<1>1. failures \in Int
  BY FailedFinite, CountIs DEF IInv, WindowOK
<1> QED
  BY <1>1 DEF IInv, SharedOK, CallsOK, WindowOK, TypeOK, WindowCounts

\* How the bounds of time relate.
LEMMA Spans ==
    /\ OpenDuration \in Nat /\ OpenDuration > 0 /\ Horizon \in Nat /\ Stall \in Nat
    /\ Stall <= OpenDuration /\ OpenDuration <= Horizon /\ Stall <= Horizon
    /\ UsizeMax \in Nat
  BY DurationsType, HorizonSuffices, CapsType

\* Initially nothing is recorded.
LEMMA InitOK == Init => IInv
<1> SUFFICES ASSUME Init PROVE IInv
  OBVIOUS
<1>1. SharedOK
  <2>1. state \in States /\ openedAge \in 0 .. OpenDuration /\ probes \in 0 .. UsizeMax /\ claimedAge \in Ages
    BY Spans DEF Init, States, Ages
  <2>2. mirror \in BOOLEAN /\ healthy \in BOOLEAN
    BY Zenon DEF Init
  <2> QED
    BY <2>1, <2>2, Zenon DEF SharedOK
<1>2. CallsOK
  BY Spans DEF Init, CallsOK, Steps, Quiet, Ages, NoProbe
<1>3. WindowOK
  <2>1. entries = << >> /\ entries \in Seq(Sample) /\ Len(entries) = 0 /\ FailedAt(entries) = {}
    BY DEF Init, FailedAt
  <2>2. CountFailures(entries) = 0
    BY <2>1, CountIs, FS_EmptySet
  <2> QED
    BY <2>1, <2>2, CapsType DEF Init, WindowOK
<1> QED
  BY <1>1, <1>2, <1>3 DEF IInv

\* A critical section of push and evict keeps the window's part.
LEMMA RecordKeeps ==
    ASSUME CallsOK, WindowOK, NEW t \in Threads, Record(t)
    PROVE  WindowOK'
<1> DEFINE pushed == PushEntries(entries, failed[t], nowAge[t])
           count == PushCount(entries, failures, failed[t])
<1>1. /\ nowAge[t] \in 0 .. Stall /\ nowAge[t] \in Ages /\ failed[t] \in BOOLEAN
      /\ entries \in Seq(Sample) /\ Len(entries) <= MaxWindow /\ failures = CountFailures(entries)
  BY Spans DEF CallsOK, WindowOK, Ages
<1>2. /\ pushed \in Seq(Sample) /\ Len(pushed) <= MaxWindow
      /\ count = CountFailures(pushed)
  BY <1>1, PushCounts
<1>3. entries' = EvictEntries(pushed, nowAge[t]) /\ failures' = EvictCount(pushed, count, nowAge[t])
  BY DEF Record
<1> HIDE DEF pushed, count
<1>4. /\ EvictEntries(pushed, nowAge[t]) \in Seq(Sample)
      /\ Len(EvictEntries(pushed, nowAge[t])) <= MaxWindow
      /\ EvictCount(pushed, count, nowAge[t]) = CountFailures(EvictEntries(pushed, nowAge[t]))
  BY <1>1, <1>2, EvictCounts
<1> QED
  BY <1>3, <1>4 DEF WindowOK

\* A step that leaves the window alone keeps its part.
LEMMA WindowStays == WindowOK /\ UNCHANGED window => WindowOK'
  BY DEF WindowOK, window

\* Forgetting what a call held keeps the calls' part.
LEMMA ForgetKeeps ==
    ASSUME NEW t \in Threads, CallsOK, Forget(t)
    PROVE  /\ nowAge' \in [Threads -> 0 .. Stall]
           /\ seen' \in [Threads -> Ages]
           /\ failed' \in [Threads -> BOOLEAN]
  BY Spans DEF Forget, CallsOK, Ages

\* check dispatches on the state it loaded.
LEMMA CheckKeeps == ASSUME IInv, NEW t \in Threads, Check(t) PROVE IInv'
<1> USE DEF IInv
<1>1. SharedOK'
  BY DEF Check, Dispatch, SharedOK
<1>2. CallsOK'
  BY DEF Check, Dispatch, Goto, locals, CallsOK, SharedOK, States, Steps, Quiet,
     CheckSteps
<1>3. WindowOK'
  BY WindowStays DEF Check
<1> QED
  BY <1>1, <1>2, <1>3

\* check_open loads the stamp.
LEMMA LoadOpenedKeeps == ASSUME IInv, NEW t \in Threads, LoadOpened(t) PROVE IInv'
<1> USE DEF IInv
<1>1. SharedOK'
  BY DEF LoadOpened, SharedOK
<1>2. CallsOK'
  BY Spans DEF LoadOpened, Goto, SharedOK, CallsOK, Ages, Steps, CheckSteps
<1>3. WindowOK'
  BY WindowStays DEF LoadOpened
<1> QED
  BY <1>1, <1>2, <1>3

\* A request is shed.
LEMMA ShedKeeps == ASSUME IInv, NEW t \in Threads, Shed(t) PROVE IInv'
<1> USE DEF IInv
<1>1. SharedOK'
  BY DEF Shed, SharedOK
<1>2. CallsOK'
  BY ForgetKeeps DEF Shed, Return, Goto, CallsOK, Steps, Quiet, CheckSteps
<1>3. WindowOK'
  BY WindowStays DEF Shed
<1> QED
  BY <1>1, <1>2, <1>3

\* Open to HalfOpen, by one caller.
LEMMA CasHalfOpenKeeps == ASSUME IInv, NEW t \in Threads, CasHalfOpen(t) PROVE IInv'
<1> USE DEF IInv
<1>1. SharedOK'
  BY DEF CasHalfOpen, SharedOK, States
<1>2. CallsOK'
  BY Spans DEF CasHalfOpen, Goto, CallsOK, Ages, Steps, CheckSteps
<1>3. WindowOK'
  BY WindowStays DEF CasHalfOpen
<1> QED
  BY <1>1, <1>2, <1>3

\* The mirror follows.
LEMMA UnmirrorKeeps == ASSUME IInv, NEW t \in Threads, Unmirror(t) PROVE IInv'
<1> USE DEF IInv
<1>1. SharedOK'
  BY DEF Unmirror, SharedOK
<1>2. CallsOK'
  BY DEF Unmirror, Goto, locals, CallsOK, Steps, CheckSteps
<1>3. WindowOK'
  BY WindowStays DEF Unmirror
<1> QED
  BY <1>1, <1>2, <1>3

\* The loser looks again.
LEMMA ReevaluateKeeps == ASSUME IInv, NEW t \in Threads, Reevaluate(t) PROVE IInv'
<1> USE DEF IInv
<1>1. SharedOK'
  BY DEF Reevaluate, Dispatch, SharedOK
<1>2. CallsOK'
  BY DEF Reevaluate, Dispatch, Goto, locals, CallsOK, SharedOK, States, Steps, Quiet,
     CheckSteps
<1>3. WindowOK'
  BY WindowStays DEF Reevaluate
<1> QED
  BY <1>1, <1>2, <1>3

\* A probe reads the clock.
LEMMA ProbeNowKeeps == ASSUME IInv, NEW t \in Threads, ProbeNow(t) PROVE IInv'
<1> USE DEF IInv
<1>1. SharedOK'
  BY DEF ProbeNow, SharedOK
<1>2. CallsOK'
  BY Spans DEF ProbeNow, Goto, CallsOK, Steps, CheckSteps
<1>3. WindowOK'
  BY WindowStays DEF ProbeNow
<1> QED
  BY <1>1, <1>2, <1>3

\* A slot is counted.
LEMMA ProbeAddKeeps == ASSUME IInv, NEW t \in Threads, ProbeAdd(t) PROVE IInv'
<1> USE DEF IInv
<1>1. SharedOK'
  BY Spans DEF ProbeAdd, WrapAdd, SharedOK
<1>2. CallsOK'
  BY DEF ProbeAdd, WrapAdd, Goto, locals, CallsOK, Steps, CheckSteps
<1>3. WindowOK'
  BY WindowStays DEF ProbeAdd
<1> QED
  BY <1>1, <1>2, <1>3

\* A claim is stamped.
LEMMA ClaimKeeps == ASSUME IInv, NEW t \in Threads, Claim(t) PROVE IInv'
<1> USE DEF IInv
<1>1. SharedOK'
  BY Spans DEF Claim, AdmitProbe, SharedOK, CallsOK, Ages
<1>2. CallsOK'
  BY Spans, ForgetKeeps DEF Claim, AdmitProbe, Goto, CallsOK, NoProbe, Steps, Quiet,
     CheckSteps
<1>3. WindowOK'
  BY WindowStays DEF Claim
<1> QED
  BY <1>1, <1>2, <1>3

\* A slot is given back.
LEMMA ProbeSubKeeps == ASSUME IInv, NEW t \in Threads, ProbeSub(t) PROVE IInv'
<1> USE DEF IInv
<1>1. SharedOK'
  BY Spans DEF ProbeSub, WrapSub, SharedOK
<1>2. CallsOK'
  BY DEF ProbeSub, WrapSub, Goto, locals, CallsOK, Steps, CheckSteps
<1>3. WindowOK'
  BY WindowStays DEF ProbeSub
<1> QED
  BY <1>1, <1>2, <1>3

\* The last claim is loaded.
LEMMA LoadLeaseKeeps == ASSUME IInv, NEW t \in Threads, LoadLease(t) PROVE IInv'
<1> USE DEF IInv
<1>1. SharedOK'
  BY DEF LoadLease, SharedOK
<1>2. CallsOK'
  BY Spans, ForgetKeeps DEF LoadLease, Return, Goto, CallsOK, Ages, Steps,
     Quiet, CheckSteps, SharedOK
<1>3. WindowOK'
  BY WindowStays DEF LoadLease
<1> QED
  BY <1>1, <1>2, <1>3

\* An expired claim is exchanged.
LEMMA TakeOverKeeps == ASSUME IInv, NEW t \in Threads, TakeOver(t) PROVE IInv'
<1> USE DEF IInv
<1>1. SharedOK'
  BY Spans DEF TakeOver, AdmitProbe, SharedOK, CallsOK, Ages
<1>2. CallsOK'
  BY Spans, ForgetKeeps DEF TakeOver, AdmitProbe, Return, Goto, CallsOK,
     NoProbe, Steps, Quiet, CheckSteps
<1>3. WindowOK'
  BY WindowStays DEF TakeOver
<1> QED
  BY <1>1, <1>2, <1>3

\* A request is dropped.
LEMMA AbandonKeeps == ASSUME IInv, NEW t \in Threads, Abandon(t) PROVE IInv'
<1> USE DEF IInv
<1>1. SharedOK'
  BY DEF Abandon, SharedOK
<1>2. CallsOK'
  BY Spans DEF Abandon, Goto, locals, CallsOK, NoProbe, Steps, Quiet
<1>3. WindowOK'
  BY WindowStays DEF Abandon
<1> QED
  BY <1>1, <1>2, <1>3

\* record dispatches on the state it loaded.
LEMMA LoadStateKeeps == ASSUME IInv, NEW t \in Threads, LoadState(t) PROVE IInv'
<1> USE DEF IInv
<1>1. SharedOK'
  BY DEF LoadState, SharedOK
<1>2. CallsOK'
  BY ForgetKeeps DEF LoadState, Goto, locals, CallsOK, SharedOK, States, Steps,
     RecordSteps, TripSteps, CloseSteps
<1>3. WindowOK'
  BY WindowStays DEF LoadState
<1> QED
  BY <1>1, <1>2, <1>3

\* A sample of a closed breaker.
LEMMA PushSampleKeeps == ASSUME IInv, NEW t \in Threads, PushSample(t) PROVE IInv'
<1> USE DEF IInv
<1>1. SharedOK'
  BY DEF PushSample, SharedOK
<1>2. CallsOK'
  BY ForgetKeeps DEF PushSample, Goto, CallsOK, Steps, Quiet, RecordSteps, TripSteps
<1>3. WindowOK'
  BY RecordKeeps DEF PushSample
<1> QED
  BY <1>1, <1>2, <1>3

\* A sample of an open breaker.
LEMMA NoteSampleKeeps == ASSUME IInv, NEW t \in Threads, NoteSample(t) PROVE IInv'
<1> USE DEF IInv
<1>1. SharedOK'
  BY DEF NoteSample, SharedOK
<1>2. CallsOK'
  BY ForgetKeeps DEF NoteSample, Return, Goto, CallsOK, Steps, Quiet, RecordSteps
<1>3. WindowOK'
  BY RecordKeeps DEF NoteSample
<1> QED
  BY <1>1, <1>2, <1>3

\* trip stores the state.
LEMMA TripStateKeeps == ASSUME IInv, NEW t \in Threads, TripState(t) PROVE IInv'
<1> USE DEF IInv
<1>1. SharedOK'
  BY DEF TripState, SharedOK, States
<1>2. CallsOK'
  BY DEF TripState, Goto, locals, CallsOK, Steps, TripSteps
<1>3. WindowOK'
  BY WindowStays DEF TripState
<1> QED
  BY <1>1, <1>2, <1>3

\* trip reads the clock.
LEMMA TripNowKeeps == ASSUME IInv, NEW t \in Threads, TripNow(t) PROVE IInv'
<1> USE DEF IInv
<1>1. SharedOK'
  BY DEF TripNow, SharedOK
<1>2. CallsOK'
  BY Spans DEF TripNow, Goto, CallsOK, Steps, TripSteps
<1>3. WindowOK'
  BY WindowStays DEF TripNow
<1> QED
  BY <1>1, <1>2, <1>3

\* trip stamps.
LEMMA TripOpenedKeeps == ASSUME IInv, NEW t \in Threads, TripOpened(t) PROVE IInv'
<1> USE DEF IInv
<1>1. SharedOK'
  BY Spans DEF TripOpened, SharedOK, CallsOK
<1>2. CallsOK'
  BY ForgetKeeps DEF TripOpened, Goto, CallsOK, Steps, TripSteps
<1>3. WindowOK'
  BY WindowStays DEF TripOpened
<1> QED
  BY <1>1, <1>2, <1>3

\* trip resets the probes.
LEMMA TripResetKeeps == ASSUME IInv, NEW t \in Threads, TripReset(t) PROVE IInv'
<1> USE DEF IInv
<1>1. SharedOK'
  BY Spans DEF TripReset, SharedOK
<1>2. CallsOK'
  BY DEF TripReset, Goto, locals, CallsOK, Steps, TripSteps
<1>3. WindowOK'
  BY WindowStays DEF TripReset
<1> QED
  BY <1>1, <1>2, <1>3

\* trip sets the mirror.
LEMMA TripMirrorKeeps == ASSUME IInv, NEW t \in Threads, TripMirror(t) PROVE IInv'
<1> USE DEF IInv
<1>1. SharedOK'
  BY DEF TripMirror, SharedOK
<1>2. CallsOK'
  BY ForgetKeeps DEF TripMirror, Return, Goto, CallsOK, Steps, Quiet, TripSteps
<1>3. WindowOK'
  BY WindowStays DEF TripMirror
<1> QED
  BY <1>1, <1>2, <1>3

\* close stores the state.
LEMMA CloseStateKeeps == ASSUME IInv, NEW t \in Threads, CloseState(t) PROVE IInv'
<1> USE DEF IInv
<1>1. SharedOK'
  BY DEF CloseState, SharedOK, States
<1>2. CallsOK'
  BY DEF CloseState, Goto, locals, CallsOK, Steps, CloseSteps
<1>3. WindowOK'
  BY WindowStays DEF CloseState
<1> QED
  BY <1>1, <1>2, <1>3

\* close clears the window.
LEMMA CloseClearKeeps == ASSUME IInv, NEW t \in Threads, CloseClear(t) PROVE IInv'
<1> USE DEF IInv
<1>1. SharedOK'
  BY DEF CloseClear, SharedOK
<1>2. CallsOK'
  BY DEF CloseClear, Goto, locals, CallsOK, Steps, CloseSteps
<1>3. WindowOK'
  <2>1. entries' = << >> /\ entries' \in Seq(Sample) /\ Len(entries') = 0 /\ FailedAt(entries') = {}
    BY DEF CloseClear, FailedAt
  <2>2. CountFailures(entries') = 0
    BY <2>1, CountIs, FS_EmptySet
  <2> QED
    BY <2>1, <2>2, CapsType DEF CloseClear, WindowOK
<1> QED
  BY <1>1, <1>2, <1>3

\* close resets the probes.
LEMMA CloseResetKeeps == ASSUME IInv, NEW t \in Threads, CloseReset(t) PROVE IInv'
<1> USE DEF IInv
<1>1. SharedOK'
  BY Spans DEF CloseReset, SharedOK
<1>2. CallsOK'
  BY DEF CloseReset, Goto, locals, CallsOK, Steps, CloseSteps
<1>3. WindowOK'
  BY WindowStays DEF CloseReset
<1> QED
  BY <1>1, <1>2, <1>3

\* close clears the mirror.
LEMMA CloseMirrorKeeps == ASSUME IInv, NEW t \in Threads, CloseMirror(t) PROVE IInv'
<1> USE DEF IInv
<1>1. SharedOK'
  BY DEF CloseMirror, SharedOK
<1>2. CallsOK'
  BY ForgetKeeps DEF CloseMirror, Return, Goto, CallsOK, Steps, Quiet, CloseSteps
<1>3. WindowOK'
  BY WindowStays DEF CloseMirror
<1> QED
  BY <1>1, <1>2, <1>3

\* error_rate evicts.
LEMMA ErrorRateKeeps == ASSUME IInv, NEW t \in Threads, ErrorRate(t) PROVE IInv'
<1> USE DEF IInv
<1>1. SharedOK'
  BY DEF ErrorRate, SharedOK
<1>2. CallsOK'
  BY DEF ErrorRate, locals, CallsOK
<1>3. WindowOK'
  <2>1. entries \in Seq(Sample) /\ Len(entries) <= MaxWindow /\ failures = CountFailures(entries) /\ 0 \in 0 .. Stall
    BY Spans DEF WindowOK
  <2>2. entries' = EvictEntries(entries, 0) /\ failures' = EvictCount(entries, failures, 0)
    BY DEF ErrorRate
  <2> QED
    BY <2>1, <2>2, EvictCounts DEF WindowOK
<1> QED
  BY <1>1, <1>2, <1>3

\* record reads the clock.
LEMMA OutcomeKeeps ==
    ASSUME IInv, NEW t \in Threads, NEW isFailure \in BOOLEAN, Outcome(t, isFailure)
    PROVE  IInv'
<1> USE DEF IInv
<1>1. SharedOK'
  BY DEF Outcome, SharedOK
<1>2. CallsOK'
  BY Spans DEF Outcome, Goto, CallsOK, NoProbe, Steps, RecordSteps
<1>3. WindowOK'
  BY WindowStays DEF Outcome
<1> QED
  BY <1>1, <1>2, <1>3

\* Time changes ages, not outcomes.
LEMMA TickKeeps == ASSUME IInv, Tick PROVE IInv'
<1> USE DEF IInv
<1>1. SharedOK'
  BY Spans DEF Tick, SharedOK, Older, Ages
<1>2. CallsOK'
  <2>1. nowAge' \in [Threads -> 0 .. Stall]
    BY Spans DEF Tick, CallsOK
  <2>2. seen' \in [Threads -> Ages]
    BY Spans DEF Tick, CallsOK, Older, Ages
  <2>3. probeAge' \in [Threads -> 0 .. NoProbe]
    BY Spans DEF Tick, CallsOK, Older, NoProbe
  <2> QED
    BY <2>1, <2>2, <2>3 DEF Tick, CallsOK
<1>3. WindowOK'
  <2> DEFINE aged(i) == [entries[i] EXCEPT !.age = Older(@, Horizon)]
  <2>1. entries \in Seq(Sample) /\ entries' = [i \in DOMAIN entries |-> aged(i)] /\ failures' = failures
    BY DEF Tick, WindowOK
  <2>2. \A i \in DOMAIN entries : aged(i) \in Sample /\ aged(i).failed = entries[i].failed
    <3> SUFFICES ASSUME NEW i \in DOMAIN entries
                 PROVE  aged(i) \in Sample /\ aged(i).failed = entries[i].failed
      OBVIOUS
    <3>1. entries[i] \in [age : Ages, failed : BOOLEAN]
      <4>1. entries[i] \in Sample
        BY <2>1
      <4> QED
        BY <4>1 DEF Sample
    <3>2. Older(entries[i].age, Horizon) \in Ages
      BY <3>1, Spans DEF Older, Ages
    <3>3. aged(i) = [age |-> Older(entries[i].age, Horizon), failed |-> entries[i].failed]
      BY <3>1
    <3> HIDE DEF aged
    <3> QED
      BY <3>1, <3>2, <3>3 DEF Sample
  <2>3. DOMAIN entries = 1 .. Len(entries) /\ Len(entries) \in Nat
    BY <2>1
  <2> HIDE DEF aged
  <2>4. /\ entries' \in Seq(Sample) /\ Len(entries') = Len(entries) /\ DOMAIN entries' = DOMAIN entries
        /\ \A i \in DOMAIN entries : entries'[i].failed = entries[i].failed
    BY <2>1, <2>2, <2>3
  <2>5. FailedAt(entries') = FailedAt(entries)
    BY <2>4 DEF FailedAt
  <2>6. CountFailures(entries') = CountFailures(entries)
    BY <2>5, CountIs
  <2> QED
    BY <2>1, <2>4, <2>6 DEF WindowOK
<1> QED
  BY <1>1, <1>2, <1>3

\* The service recovers.
LEMMA HealKeeps == ASSUME IInv, Heal PROVE IInv'
<1> USE DEF IInv
<1>1. SharedOK' /\ CallsOK'
  BY DEF Heal, SharedOK, CallsOK, locals
<1>2. WindowOK'
  BY WindowStays DEF Heal
<1> QED
  BY <1>1, <1>2

\* Every step of every thread keeps the invariant.
LEMMA NextKeeps == IInv /\ [Next]_vars => IInv'
<1> SUFFICES ASSUME IInv, [Next]_vars PROVE IInv'
  OBVIOUS
<1>1. ASSUME NEW t \in Threads, CallStep(t) PROVE IInv'
  BY <1>1, LoadOpenedKeeps, ShedKeeps, CasHalfOpenKeeps, UnmirrorKeeps, 
     ReevaluateKeeps, ProbeNowKeeps, ProbeAddKeeps, ClaimKeeps, 
     ProbeSubKeeps, LoadLeaseKeeps, TakeOverKeeps, LoadStateKeeps, 
     PushSampleKeeps, NoteSampleKeeps, TripStateKeeps, TripNowKeeps, 
     TripOpenedKeeps, TripResetKeeps, TripMirrorKeeps, CloseStateKeeps, 
     CloseClearKeeps, CloseResetKeeps, CloseMirrorKeeps DEF CallStep
<1>2. ASSUME NEW t \in Threads, Check(t) \/ Abandon(t) \/ Finish(t) \/ ErrorRate(t) PROVE IInv'
  BY <1>2, CheckKeeps, AbandonKeeps, OutcomeKeeps, ErrorRateKeeps DEF Finish
<1>3. CASE UNCHANGED vars
  <2>1. SharedOK' /\ CallsOK'
    BY <1>3 DEF vars, locals, IInv, SharedOK, CallsOK
  <2>2. WindowOK'
    BY <1>3, WindowStays DEF vars, IInv
  <2> QED
    BY <2>1, <2>2 DEF IInv
<1> QED
  BY <1>1, <1>2, <1>3, TickKeeps, HealKeeps DEF Next

\* The invariant holds always.
LEMMA Invariant == Spec => []IInv
  BY InitOK, NextKeeps, PTL DEF Spec

\* Every access of every call leaves the breaker well typed, for any number
\* of threads: the wrapping probe counter stays a usize, and the window
\* never exceeds MAX_WINDOW_ENTRIES.
THEOREM BreakerTypeCorrect == Spec => []TypeOK
  BY Invariant, Gives, PTL

\* The incremental failure count of SlidingWindow is always the number of
\* failed samples it holds, through push at the cap, evict and clear, for
\* any number of threads and any interleaving.
THEOREM WindowCountsCorrect == Spec => []WindowCounts
  BY Invariant, Gives, PTL
=============================================================================
