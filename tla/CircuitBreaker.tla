--------------------------- MODULE CircuitBreaker ---------------------------
(***************************************************************************)
(* The shared circuit breaker (xai-circuit-breaker: breaker.rs, window.rs) *)
(* as the requests of a client use it: check, then send, then record, or   *)
(* never record (a dropped future, a status the breaker does not count).   *)
(* The breaker has no lock but the window's: every step below is one       *)
(* access of one atomic, or one critical section of the window's mutex,    *)
(* and the threads interleave between any two.                             *)
(*                                                                         *)
(* Time is kept as ages, not as stamps: an age is the time since a stamp   *)
(* was read from the clock, saturated at Horizon.  Every comparison of two *)
(* stamps in the code is a difference of ages here, and HorizonSuffices    *)
(* makes the saturated differences exact.                                  *)
(***************************************************************************)
EXTENDS Integers, Sequences, FiniteSets

CONSTANTS
    Threads,         \* callers of the breaker
    OpenDuration,    \* config.open_duration, also the lease of a probe
    WindowDuration,  \* config.window_duration
    MinSamples,      \* config.min_samples
    RateNum, RateDen,\* config.error_rate_threshold = RateNum / RateDen
    MaxProbes,       \* config.half_open_max_probes, clamped to at least 1
    MaxWindow,       \* MAX_WINDOW_ENTRIES
    UsizeMax,        \* usize::MAX
    Stall,           \* bound: ticks a call may be suspended holding a stamp
    Horizon          \* bound: age from which ages are not told apart

ASSUME DurationsType == OpenDuration \in Nat \ {0} /\ WindowDuration \in Nat
ASSUME RateType == MinSamples \in Nat /\ RateNum \in Nat /\ RateDen \in Nat \ {0}
ASSUME CapsType ==
    /\ MaxProbes \in Nat \ {0}
    /\ MaxWindow \in Nat \ {0}
    /\ UsizeMax \in Nat
    /\ UsizeMax > MaxProbes
ASSUME HorizonSuffices ==
    /\ Stall \in 1 .. OpenDuration
    /\ Horizon \in Nat
    /\ Horizon >= OpenDuration + Stall
    /\ Horizon > WindowDuration + Stall
    /\ Horizon > 2 * Stall

VARIABLES
    state,       \* state, the authoritative AtomicU8
    openedAge,   \* opened_at_millis
    probes,      \* half_open_probes
    claimedAge,  \* probe_claimed_at_millis
    mirror,      \* is_open_fast
    entries,     \* the window's samples, oldest first
    failures,    \* the window's incremental count of failures
    pc,          \* per thread, the next access of its call
    nowAge,      \* per thread, the clock value the call read
    seen,        \* per thread, the stamp the call loaded
    failed,      \* per thread, the outcome being recorded is Failure
    probeAge,    \* per thread, the age of its claim as a probe (history)
    healthy      \* the service answers every request with a success

window == <<entries, failures>>
locals == <<nowAge, seen, failed>>
vars == <<state, openedAge, probes, claimedAge, mirror, window, pc, locals, probeAge, healthy>>

States == {"Closed", "Open", "HalfOpen"}
Ages == 0 .. Horizon
NoProbe == OpenDuration  \* no claim, or one whose lease is over
Sample == [age : Ages, failed : BOOLEAN]

\* Outside a call: nothing sent, or a request in flight.
Quiet == {"idle", "granted"}
CheckSteps == {"open", "cas", "unmirror", "reeval", "probe", "add", "claim", "sub", "lease", "take"}
RecordSteps == {"load", "push", "note"}
TripSteps == {"trip", "stamp", "opened", "reset", "mirror"}
CloseSteps == {"close", "clear", "release", "unlit"}
Steps == Quiet \cup CheckSteps \cup RecordSteps \cup TripSteps \cup CloseSteps

\* Where the call's clock value, and the stamp it loaded, are still used.
HoldsNow == {"add", "claim", "sub", "lease", "take", "load", "push", "note", "opened"}
HoldsSeen == {"cas", "take"}

Init ==
    /\ state = "Closed"
    /\ openedAge = 0
    /\ probes = 0
    /\ claimedAge = 0
    /\ mirror = FALSE
    /\ entries = << >>
    /\ failures = 0
    /\ pc = [t \in Threads |-> "idle"]
    /\ nowAge = [t \in Threads |-> 0]
    /\ seen = [t \in Threads |-> 0]
    /\ failed = [t \in Threads |-> FALSE]
    /\ probeAge = [t \in Threads |-> NoProbe]
    /\ healthy \in BOOLEAN

-----------------------------------------------------------------------------
(* The sliding window. *)

\* a.saturating_sub(b), of two stamps given by their ages.
Since(age, now) == IF age > now THEN age - now ELSE 0

\* usize arithmetic of an atomic: it wraps.
WrapAdd(n) == IF n = UsizeMax THEN 0 ELSE n + 1
WrapSub(n) == IF n = 0 THEN UsizeMax ELSE n - 1

CountFailures(es) == Cardinality({i \in DOMAIN es : es[i].failed})

\* Faulty variant: the sample dropped at the cap stays in the count.
FaultyPushCount(es, n, isFailure) == n + (IF isFailure THEN 1 ELSE 0)

\* Faulty variant: a full window grows.
FaultyPushEntries(es, isFailure, age) == Append(es, [age |-> age, failed |-> isFailure])

PushEntries(es, isFailure, age) ==
    LET kept == IF Len(es) >= MaxWindow THEN Tail(es) ELSE es
    IN  Append(kept, [age |-> age, failed |-> isFailure])

PushCount(es, n, isFailure) ==
    n - (IF Len(es) >= MaxWindow /\ Head(es).failed THEN 1 ELSE 0)
      + (IF isFailure THEN 1 ELSE 0)

\* The samples evict keeps at clock value now: it stops at the first one
\* that is recent enough, whatever comes behind.
Live(es, now) == {i \in DOMAIN es : es[i].age <= now + WindowDuration}
FirstLive(es, now) ==
    IF Live(es, now) = {} THEN Len(es) + 1
    ELSE CHOOSE i \in Live(es, now) : \A j \in Live(es, now) : i <= j

EvictEntries(es, now) == SubSeq(es, FirstLive(es, now), Len(es))
EvictCount(es, n, now) ==
    n - Cardinality({i \in DOMAIN es : i < FirstLive(es, now) /\ es[i].failed})

\* window.push then window.evict, in one critical section.
Record(t) ==
    LET pushed == PushEntries(entries, failed[t], nowAge[t])
        count == PushCount(entries, failures, failed[t])
    IN  /\ entries' = EvictEntries(pushed, nowAge[t])
        /\ failures' = EvictCount(pushed, count, nowAge[t])

\* sample_count >= min_samples and error_rate >= error_rate_threshold, of a
\* window that holds at least the sample just pushed.
ShouldTrip(es, n) ==
    /\ Len(es) >= MinSamples
    /\ n * RateDen >= RateNum * Len(es)

-----------------------------------------------------------------------------
(* One step of one call. *)

Goto(t, at) == pc' = [pc EXCEPT ![t] = at]

\* What the call held is no longer used.
Forget(t) ==
    /\ nowAge' = [nowAge EXCEPT ![t] = 0]
    /\ seen' = [seen EXCEPT ![t] = 0]
    /\ failed' = [failed EXCEPT ![t] = FALSE]

Return(t) == Goto(t, "idle") /\ Forget(t)

\* Where check goes after it loaded the state: an answer, or one of the two
\* slow paths.
Dispatch(t, open) ==
    Goto(t, CASE state = "Closed" -> "granted"
              [] state = "Open" -> open
              [] state = "HalfOpen" -> "probe")

\* check: load the state.
Check(t) ==
    /\ pc[t] = "idle"
    /\ Dispatch(t, "open")
    /\ UNCHANGED <<state, openedAge, probes, claimedAge, mirror, window, locals, probeAge, healthy>>

\* check_open: load opened_at_millis.
LoadOpened(t) ==
    /\ pc[t] = "open"
    /\ seen' = [seen EXCEPT ![t] = openedAge]
    /\ Goto(t, "cas")
    /\ UNCHANGED <<state, openedAge, probes, claimedAge, mirror, window, nowAge, failed, probeAge, healthy>>

\* check_open: the cool-down has not elapsed, the request is shed.
Shed(t) ==
    /\ pc[t] = "cas"
    /\ seen[t] < OpenDuration
    /\ Return(t)
    /\ UNCHANGED <<state, openedAge, probes, claimedAge, mirror, window, probeAge, healthy>>

\* check_open: the cool-down has elapsed, try Open -> HalfOpen.
CasHalfOpen(t) ==
    /\ pc[t] = "cas"
    /\ seen[t] >= OpenDuration
    /\ IF state = "Open"
       THEN state' = "HalfOpen" /\ Goto(t, "unmirror")
       ELSE UNCHANGED state /\ Goto(t, "reeval")
    /\ seen' = [seen EXCEPT ![t] = 0]
    /\ UNCHANGED <<openedAge, probes, claimedAge, mirror, window, nowAge, failed, probeAge, healthy>>

Unmirror(t) ==
    /\ pc[t] = "unmirror"
    /\ mirror' = FALSE
    /\ Goto(t, "probe")
    /\ UNCHANGED <<state, openedAge, probes, claimedAge, window, locals, probeAge, healthy>>

\* check_open: lost the exchange, load the state again.
Reevaluate(t) ==
    /\ pc[t] = "reeval"
    /\ Dispatch(t, "idle")
    /\ UNCHANGED <<state, openedAge, probes, claimedAge, mirror, window, locals, probeAge, healthy>>

\* try_half_open_probe: read the clock.
ProbeNow(t) ==
    /\ pc[t] = "probe"
    /\ nowAge' = [nowAge EXCEPT ![t] = 0]
    /\ Goto(t, "add")
    /\ UNCHANGED <<state, openedAge, probes, claimedAge, mirror, window, seen, failed, probeAge, healthy>>

\* half_open_probes.fetch_add.
ProbeAdd(t) ==
    /\ pc[t] = "add"
    /\ probes' = WrapAdd(probes)
    /\ Goto(t, IF probes < MaxProbes THEN "claim" ELSE "sub")
    /\ UNCHANGED <<state, openedAge, claimedAge, mirror, window, locals, probeAge, healthy>>

\* The probe is admitted; probeAge remembers since when.
AdmitProbe(t) ==
    /\ probeAge' = [probeAge EXCEPT ![t] = 0]
    /\ Goto(t, "granted")
    /\ Forget(t)

\* A slot was free: stamp the claim.
Claim(t) ==
    /\ pc[t] = "claim"
    /\ claimedAge' = nowAge[t]
    /\ AdmitProbe(t)
    /\ UNCHANGED <<state, openedAge, probes, mirror, window, healthy>>

\* No slot: half_open_probes.fetch_sub.
ProbeSub(t) ==
    /\ pc[t] = "sub"
    /\ probes' = WrapSub(probes)
    /\ Goto(t, "lease")
    /\ UNCHANGED <<state, openedAge, claimedAge, mirror, window, locals, probeAge, healthy>>

\* Faulty variant: a full breaker never reclaims an abandoned slot.
FaultyLoadLease(t) ==
    /\ pc[t] = "lease"
    /\ Return(t)
    /\ UNCHANGED <<state, openedAge, probes, claimedAge, mirror, window, probeAge, healthy>>

\* Load the last claim: expired, it may be taken over; else shed.
LoadLease(t) ==
    /\ pc[t] = "lease"
    /\ IF Since(claimedAge, nowAge[t]) >= OpenDuration
       THEN /\ seen' = [seen EXCEPT ![t] = claimedAge]
            /\ Goto(t, "take")
            /\ UNCHANGED <<nowAge, failed>>
       ELSE Return(t)
    /\ UNCHANGED <<state, openedAge, probes, claimedAge, mirror, window, probeAge, healthy>>

\* Exchange the expired claim for one of this call.
TakeOver(t) ==
    /\ pc[t] = "take"
    /\ IF claimedAge = seen[t]
       THEN claimedAge' = nowAge[t] /\ AdmitProbe(t)
       ELSE Return(t) /\ UNCHANGED <<claimedAge, probeAge>>
    /\ UNCHANGED <<state, openedAge, probes, mirror, window, healthy>>

\* The request ends without a record: its future is dropped, or its status
\* counts neither as a success nor as a failure.
Abandon(t) ==
    /\ pc[t] = "granted"
    /\ Goto(t, "idle")
    /\ probeAge' = [probeAge EXCEPT ![t] = NoProbe]
    /\ UNCHANGED <<state, openedAge, probes, claimedAge, mirror, window, locals, healthy>>

\* record(outcome): read the clock.
Outcome(t, isFailure) ==
    /\ pc[t] = "granted"
    /\ healthy => ~isFailure
    /\ failed' = [failed EXCEPT ![t] = isFailure]
    /\ nowAge' = [nowAge EXCEPT ![t] = 0]
    /\ probeAge' = [probeAge EXCEPT ![t] = NoProbe]
    /\ Goto(t, "load")
    /\ UNCHANGED <<state, openedAge, probes, claimedAge, mirror, window, seen, healthy>>

\* record: load the state it acts on.
LoadState(t) ==
    /\ pc[t] = "load"
    /\ Goto(t, CASE state = "Closed" -> "push"
                 [] state = "Open" -> "note"
                 [] state = "HalfOpen" -> IF failed[t] THEN "trip" ELSE "close")
    /\ IF state = "HalfOpen" THEN Forget(t) ELSE UNCHANGED locals
    /\ UNCHANGED <<state, openedAge, probes, claimedAge, mirror, window, probeAge, healthy>>

\* record, Closed: the sample, and the verdict, under the window's lock.
PushSample(t) ==
    /\ pc[t] = "push"
    /\ Record(t)
    /\ IF ShouldTrip(entries', failures')
       THEN Goto(t, "trip")
       ELSE Goto(t, "idle")
    /\ Forget(t)
    /\ UNCHANGED <<state, openedAge, probes, claimedAge, mirror, probeAge, healthy>>

\* record, Open: the sample only.
NoteSample(t) ==
    /\ pc[t] = "note"
    /\ Record(t)
    /\ Return(t)
    /\ UNCHANGED <<state, openedAge, probes, claimedAge, mirror, probeAge, healthy>>

\* trip: five accesses.
TripState(t) ==
    /\ pc[t] = "trip"
    /\ state' = "Open"
    /\ Goto(t, "stamp")
    /\ UNCHANGED <<openedAge, probes, claimedAge, mirror, window, locals, probeAge, healthy>>

TripNow(t) ==
    /\ pc[t] = "stamp"
    /\ nowAge' = [nowAge EXCEPT ![t] = 0]
    /\ Goto(t, "opened")
    /\ UNCHANGED <<state, openedAge, probes, claimedAge, mirror, window, seen, failed, probeAge, healthy>>

TripOpened(t) ==
    /\ pc[t] = "opened"
    /\ openedAge' = nowAge[t]
    /\ Goto(t, "reset")
    /\ Forget(t)
    /\ UNCHANGED <<state, probes, claimedAge, mirror, window, probeAge, healthy>>

TripReset(t) ==
    /\ pc[t] = "reset"
    /\ probes' = 0
    /\ Goto(t, "mirror")
    /\ UNCHANGED <<state, openedAge, claimedAge, mirror, window, locals, probeAge, healthy>>

TripMirror(t) ==
    /\ pc[t] = "mirror"
    /\ mirror' = TRUE
    /\ Return(t)
    /\ UNCHANGED <<state, openedAge, probes, claimedAge, window, probeAge, healthy>>

\* close: four accesses.
CloseState(t) ==
    /\ pc[t] = "close"
    /\ state' = "Closed"
    /\ Goto(t, "clear")
    /\ UNCHANGED <<openedAge, probes, claimedAge, mirror, window, locals, probeAge, healthy>>

CloseClear(t) ==
    /\ pc[t] = "clear"
    /\ entries' = << >>
    /\ failures' = 0
    /\ Goto(t, "release")
    /\ UNCHANGED <<state, openedAge, probes, claimedAge, mirror, locals, probeAge, healthy>>

CloseReset(t) ==
    /\ pc[t] = "release"
    /\ probes' = 0
    /\ Goto(t, "unlit")
    /\ UNCHANGED <<state, openedAge, claimedAge, mirror, window, locals, probeAge, healthy>>

CloseMirror(t) ==
    /\ pc[t] = "unlit"
    /\ mirror' = FALSE
    /\ Return(t)
    /\ UNCHANGED <<state, openedAge, probes, claimedAge, window, probeAge, healthy>>

\* error_rate: evict under the window's lock.
ErrorRate(t) ==
    /\ pc[t] = "idle"
    /\ entries' = EvictEntries(entries, 0)
    /\ failures' = EvictCount(entries, failures, 0)
    /\ UNCHANGED <<state, openedAge, probes, claimedAge, mirror, pc, locals, probeAge, healthy>>

-----------------------------------------------------------------------------
(* The clock and the service. *)

Older(age, cap) == IF age < cap THEN age + 1 ELSE age

\* Time passes.  A call that holds a stamp is not suspended beyond Stall.
Tick ==
    /\ \A t \in Threads : pc[t] \in HoldsNow => nowAge[t] < Stall
    /\ openedAge' = Older(openedAge, OpenDuration)
    /\ claimedAge' = Older(claimedAge, Horizon)
    /\ entries' = [i \in DOMAIN entries |-> [entries[i] EXCEPT !.age = Older(@, Horizon)]]
    /\ nowAge' = [t \in Threads |-> IF pc[t] \in HoldsNow THEN nowAge[t] + 1 ELSE nowAge[t]]
    /\ seen' = [t \in Threads |-> IF pc[t] \in HoldsSeen THEN Older(seen[t], Horizon) ELSE seen[t]]
    /\ probeAge' = [t \in Threads |-> Older(probeAge[t], NoProbe)]
    /\ UNCHANGED <<state, probes, mirror, failures, pc, failed, healthy>>

\* The service recovers for good.
Heal ==
    /\ ~healthy
    /\ healthy' = TRUE
    /\ UNCHANGED <<state, openedAge, probes, claimedAge, mirror, window, pc, locals, probeAge>>

\* The next step of a call that has begun.
CallStep(t) ==
    \/ LoadOpened(t) \/ Shed(t) \/ CasHalfOpen(t) \/ Unmirror(t) \/ Reevaluate(t)
    \/ ProbeNow(t) \/ ProbeAdd(t) \/ Claim(t) \/ ProbeSub(t) \/ LoadLease(t) \/ TakeOver(t)
    \/ LoadState(t) \/ PushSample(t) \/ NoteSample(t)
    \/ TripState(t) \/ TripNow(t) \/ TripOpened(t) \/ TripReset(t) \/ TripMirror(t)
    \/ CloseState(t) \/ CloseClear(t) \/ CloseReset(t) \/ CloseMirror(t)

Finish(t) == \E isFailure \in BOOLEAN : Outcome(t, isFailure)

Next ==
    \/ \E t \in Threads : Check(t) \/ CallStep(t) \/ Abandon(t) \/ Finish(t) \/ ErrorRate(t)
    \/ Tick
    \/ Heal

Spec == Init /\ [][Next]_vars

\* Fairness: a call that began is scheduled again, callers keep calling and
\* the clock runs; not every admitted request is abandoned.
Fairness ==
    /\ \A t \in Threads : WF_vars(Check(t) \/ CallStep(t))
    /\ SF_vars(\E t \in Threads : Finish(t))
    /\ WF_vars(Tick)

FairSpec == Spec /\ Fairness

-----------------------------------------------------------------------------
(* Properties. *)

\* The shape of the shared atomics, of the window, bounded by its cap, and
\* of what each call holds.
TypeOK ==
    /\ state \in States
    /\ openedAge \in 0 .. OpenDuration
    /\ probes \in 0 .. UsizeMax
    /\ claimedAge \in Ages
    /\ mirror \in BOOLEAN
    /\ entries \in Seq(Sample)
    /\ Len(entries) <= MaxWindow
    /\ failures \in Int
    /\ pc \in [Threads -> Steps]
    /\ nowAge \in [Threads -> 0 .. Stall]
    /\ seen \in [Threads -> Ages]
    /\ failed \in [Threads -> BOOLEAN]
    /\ probeAge \in [Threads -> 0 .. NoProbe]
    /\ healthy \in BOOLEAN

\* The incremental count of the window is the number of its failed samples,
\* through the cap, the evictions and the clears of racing calls: it never
\* underflows, and the rate it gives is the rate of the samples.
WindowCounts == failures = CountFailures(entries)

\* Once the service has recovered the breaker ends up Closed and stays so,
\* whatever races left behind: lost probes, a wrapped probe counter, stale
\* stamps, a late trip.
Recovers == healthy ~> [](state = "Closed")

\* No more probes than slots are in flight within their lease: an expired
\* claim is taken over by one caller (breaker.rs:289).
ProbeBudget == Cardinality({t \in Threads : probeAge[t] < NoProbe}) <= MaxProbes
=============================================================================
