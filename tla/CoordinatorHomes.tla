-------------------------- MODULE CoordinatorHomes --------------------------
(***************************************************************************)
(* Every operator of CoordinatorOps keeps each child in one map and the    *)
(* spawn graph in step with the maps (Homed).  Only the domains of the     *)
(* maps matter: an operator that rewrites entries has the same homes, one  *)
(* that moves a child leaves it, for a moment, with a node and no map.     *)
(***************************************************************************)
EXTENDS CoordinatorTypes

\* u has the same children in the same maps as t.
SameHomes(t, u) ==
    /\ DOMAIN u.queued = DOMAIN t.queued /\ DOMAIN u.pending = DOMAIN t.pending
    /\ DOMAIN u.active = DOMAIN t.active /\ DOMAIN u.completed = DOMAIN t.completed
    /\ DOMAIN u.graph = DOMAIN t.graph

\* Child i has its graph node and is in none of the maps; the rest is homed.
Between(t, i) ==
    /\ DOMAIN t.queued \cap Live(t) = {}
    /\ DOMAIN t.completed \cap (DOMAIN t.queued \cup Live(t)) = {}
    /\ DOMAIN t.pending \cap DOMAIN t.active = {}
    /\ DOMAIN t.graph = Known(t) \cup {i}
    /\ i \notin Known(t)

LEMMA SameHomesHomed ==
    ASSUME NEW t, NEW u, SameHomes(t, u), Homed(t)
    PROVE  Homed(u)
BY DEF SameHomes, Homed, Known, Live

LEMMA FreshHomed == Homed(Fresh)
BY DEF Homed, Known, Live, Fresh

-----------------------------------------------------------------------------
(* Starting and finishing *)

LEMMA StartQueuedHomed ==
    ASSUME NEW t \in State, Homed(t)
    PROVE  Homed(StartQueued(t))
<1> DEFINE S == Startable(t)
           new == [i \in S |-> NewChild(t.queued[i].req, t.queued[i].cancelled,
                                        t.queued[i].awaiting, t.queued[i].timed,
                                        t.queued[i].wake)]
           u == StartQueued(t)
<1>1. S \in SUBSET DOMAIN t.queued
  BY StartableFacts
<1>2. u = [t EXCEPT !.queued = Drop(t.queued, S), !.pending = Merge(t.pending, new)]
  BY DEF StartQueued
<1>3. DOMAIN new = S
  OBVIOUS
<1> HIDE DEF S, new, u
<1>4. DOMAIN u.queued = DOMAIN t.queued \ S /\ DOMAIN u.pending = DOMAIN t.pending \cup S
  BY <1>2, <1>3 DEF State, StateOver, Drop, Restrict, Merge
<1>5. u.active = t.active /\ u.completed = t.completed /\ u.graph = t.graph
  BY <1>2 DEF State, StateOver
<1>6. Homed(u)
  BY <1>1, <1>4, <1>5 DEF Homed, Known, Live
<1> QED
  BY <1>6 DEF u

LEMMA ClearTeardownDrainHomes ==
    ASSUME NEW t \in State, NEW S
    PROVE  SameHomes(t, ClearTeardownDrain(t, S))
BY DEF ClearTeardownDrain, SameHomes, State, StateOver

LEMMA ResolveTeardownDrainsHomes ==
    ASSUME NEW t \in State, NEW S
    PROVE  SameHomes(t, ResolveTeardownDrains(t, S))
BY ClearTeardownDrainHomes DEF ResolveTeardownDrains

LEMMA ResolveRunWaitersHomes ==
    ASSUME NEW t \in State, NEW R
    PROVE  SameHomes(t, ResolveRunWaiters(t, R))
BY DEF ResolveRunWaiters, SameHomes, State, StateOver

LEMMA FinishCancelledQueuedHomed ==
    ASSUME NEW t \in State, Homed(t), NEW R \in SUBSET DOMAIN t.queued
    PROVE  Homed(FinishCancelledQueued(t, R))
<1>1. PICK v \in State, gone \in SUBSET R : EntriesLeave(t, R, v, gone)
  BY FinishCancelledQueuedFacts
<1>2. PICK P : FinishCancelledQueued(t, R) = ResolveTeardownDrains(v, P)
  BY <1>1 DEF EntriesLeave
<1>3. Homed(v)
  BY <1>1 DEF EntriesLeave, Homed, Known, Live
<1> QED
  BY <1>2, <1>3, ResolveTeardownDrainsHomes, SameHomesHomed

LEMMA SweepHomed ==
    ASSUME NEW t \in State, Homed(t)
    PROVE  Homed(Sweep(t))
<1>1. StartQueued(t) \in State /\ Homed(StartQueued(t))
  BY StartQueuedType, StartQueuedHomed
<1> QED
  BY <1>1, FinishCancelledQueuedHomed DEF Sweep

LEMMA RemoveQueuedHomed ==
    ASSUME NEW t \in State, Homed(t), NEW R \in SUBSET DOMAIN t.queued
    PROVE  Homed(RemoveQueued(t, R))
<1> DEFINE t0 == [t EXCEPT !.parked = {m \in t.parked : m[1] \notin R}]
           u == FinishCancelledQueued(t0, R)
<1>1. t0 \in State /\ t0.queued = t.queued /\ SameHomes(t, t0)
  BY DEF State, StateOver, SameHomes
<1> HIDE DEF t0
<1>2. Homed(t0)
  BY <1>1, SameHomesHomed
<1>3. u \in State /\ Homed(u)
  BY <1>1, <1>2, FinishCancelledQueuedType, FinishCancelledQueuedHomed
<1>4. RemoveQueued(t, R) = IF \E i \in R : t.queued[i].wake = None THEN Sweep(u) ELSE u
  BY DEF RemoveQueued, t0
<1> HIDE DEF u
<1> QED
  BY <1>3, <1>4, SweepHomed

\* A child between maps finds a home again, as a record restored or filed.
LEMMA RestoreHomed ==
    ASSUME NEW t \in State, NEW i \in Ids, Between(t, i), NEW d
    PROVE  Homed(Restore(t, i, d))
<1> DEFINE done == IF Expired(d, t.nextAge) THEN t.completed ELSE Put(t.completed, i, d)
           nodes == IF Expired(d, t.nextAge) THEN Drop(t.graph, {i}) ELSE t.graph
           u == [t EXCEPT !.completed = done, !.graph = nodes, !.waiters[i] = "none"]
<1>1. Restore(t, i, d) = u
  BY DEF Restore
<1>2. \/ DOMAIN done = DOMAIN t.completed /\ DOMAIN nodes = DOMAIN t.graph \ {i}
      \/ DOMAIN done = DOMAIN t.completed \cup {i} /\ DOMAIN nodes = DOMAIN t.graph
  BY DEF Put, Drop, Restrict
<1> HIDE DEF done, nodes
<1>3. /\ u.queued = t.queued /\ u.pending = t.pending /\ u.active = t.active
      /\ u.completed = done /\ u.graph = nodes
  BY DEF State, StateOver
<1> HIDE DEF u
<1>4. Homed(u)
  BY <1>2, <1>3 DEF Homed, Between, Known, Live
<1> QED
  BY <1>1, <1>4

LEMMA ConcludeHomed ==
    ASSUME NEW t \in State, NEW i \in Ids, Between(t, i), NEW c, NEW out, NEW rank
    PROVE  Homed(Conclude(t, [j \in {i} |-> c], out, rank))
<1> DEFINE rec == [j \in {i} |-> c]
           u == Conclude(t, rec, out, rank)
<1>1. DOMAIN rec = {i}
  OBVIOUS
<1> HIDE DEF rec
<1>2. /\ u.queued = t.queued /\ u.pending = t.pending /\ u.active = t.active
      /\ u.graph = t.graph /\ DOMAIN u.completed = DOMAIN t.completed \cup {i}
  BY <1>1, ConcludeDomains
<1> HIDE DEF u
<1>3. Homed(u)
  BY <1>2 DEF Homed, Between, Known, Live
<1> QED
  BY <1>3 DEF u, rec

LEMMA FinishChildHomed ==
    ASSUME NEW t \in State, Homed(t), NEW i \in Live(t), NEW out \in Output
    PROVE  Homed(FinishChild(t, i, out))
<1> DEFINE c == ChildOf(t, i)
           u == [t EXCEPT !.pending = Drop(t.pending, {i}), !.active = Drop(t.active, {i}),
                          !.outputs = Drop(t.outputs, {i}),
                          !.parked = {m \in t.parked : m[1] # i}]
           d == [c.wakeOf EXCEPT !.wakeEligible = c.wakeOf.wakeEligible /\ ~c.killed /\ ~c.withdrawn]
           rec == [j \in {i} |-> c]
           rank == [j \in {i} |-> 0]
           filed == Conclude(u, rec, out, rank)
           concluded == ResolveRunWaiters(filed, {c.req.run} \ {None})
           v == IF c.wakeOf # None /\ ~out.success THEN Restore(u, i, d) ELSE concluded
<1>1. i \in Ids /\ c \in Child
  BY LiveFacts
<1>2. u \in State
  <2>1. Drop(t.pending, {i}) \in MapOf(Child) /\ Drop(t.active, {i}) \in MapOf(Child)
    BY StateFields, DropType
  <2>2. Drop(t.outputs, {i}) \in MapOf(Output)
    BY StateFields, DropType
  <2> QED
    BY <2>1, <2>2 DEF State, StateOver
<1>3. Between(u, i)
  <2>1. /\ u.queued = t.queued /\ u.completed = t.completed /\ u.graph = t.graph
        /\ u.pending = Drop(t.pending, {i}) /\ u.active = Drop(t.active, {i})
    BY DEF State, StateOver
  <2>2. /\ DOMAIN Drop(t.pending, {i}) = DOMAIN t.pending \ {i}
        /\ DOMAIN Drop(t.active, {i}) = DOMAIN t.active \ {i}
    BY DEF Drop, Restrict
  <2> HIDE DEF u
  <2> QED
    BY <2>1, <2>2 DEF Between, Homed, Known, Live
<1> HIDE DEF u, c
<1>4. c.wakeOf # None => Restore(u, i, d) \in State /\ Homed(Restore(u, i, d))
  <2>1. c.wakeOf # None => c.wakeOf \in CompletedChild /\ c.killed \in BOOLEAN /\ c.withdrawn \in BOOLEAN
    BY <1>1 DEF Child
  <2>2. c.wakeOf # None => d \in CompletedChild
    BY <2>1 DEF CompletedChild
  <2> HIDE DEF d
  <2> QED
    BY <1>1, <1>2, <1>3, <2>2, RestoreType, RestoreHomed
<1>5. concluded \in State /\ Homed(concluded)
  <2>1. rec \in MapOf(Child) /\ \A j \in DOMAIN rec : rank[j] \in Nat
    BY <1>1, SingletonMap
  <2>2. Homed(filed)
    BY <1>1, <1>2, <1>3, ConcludeHomed
  <2> HIDE DEF rec, rank
  <2>3. filed \in State
    BY <1>2, <2>1, ConcludeType
  <2> HIDE DEF filed
  <2> QED
    BY <2>2, <2>3, ResolveRunWaitersType, ResolveRunWaitersHomes, SameHomesHomed
<1>6. FinishChild(t, i, out) = Sweep(ResolveTeardownDrains(v, {c.req.parent}))
  BY DEF FinishChild, u, c
<1>7. v \in State /\ Homed(v)
  BY <1>4, <1>5
<1> HIDE DEF v
<1>8. /\ ResolveTeardownDrains(v, {c.req.parent}) \in State
      /\ Homed(ResolveTeardownDrains(v, {c.req.parent}))
  BY <1>7, ResolveTeardownDrainsType, ResolveTeardownDrainsHomes, SameHomesHomed
<1> QED
  BY <1>6, <1>8, SweepHomed

LEMMA FinishTerminalizedHomed ==
    ASSUME NEW t \in State, Homed(t), NEW i \in DOMAIN t.active, NEW out \in Output
    PROVE  Homed(FinishTerminalized(t, i, out))
<1> DEFINE u == [t EXCEPT !.active[i].cancelled = TRUE]
           fail == [success |-> FALSE, cancelled |-> TRUE]
<1>1. u \in State
  <2> DEFINE c == [t.active[i] EXCEPT !.cancelled = TRUE]
  <2>1. c \in Child
    <3>1. t.active[i] \in Child
      BY StateFields, MapElement
    <3> QED
      BY <3>1 DEF Child
  <2>2. u = [t EXCEPT !.active[i] = c]
    BY DEF State, StateOver
  <2> HIDE DEF u, c
  <2> QED
    BY <2>1, <2>2, ActiveUpdateType
<1>2. SameHomes(t, u)
  BY DEF SameHomes, State, StateOver
<1>3. i \in Live(t) /\ i \in Live(u)
  BY <1>2 DEF SameHomes, Live
<1>4. fail \in Output
  BY DEF Output
<1> HIDE DEF u, fail
<1>5. Homed(u)
  BY <1>2, SameHomesHomed
<1> QED
  BY <1>1, <1>3, <1>4, <1>5, FinishChildHomed DEF FinishTerminalized, u, fail

LEMMA BeginTerminalizationHomed ==
    ASSUME NEW t \in State, Homed(t), NEW i \in Live(t), NEW out \in Output
    PROVE  Homed(BeginTerminalization(t, i, out))
<1>1. CASE i \notin DOMAIN t.active
  BY <1>1, FinishChildHomed DEF BeginTerminalization
<1>2. CASE i \in DOMAIN t.active
  <2> DEFINE u == [t EXCEPT !.active[i].phase = "Finalizing"]
             held == [u EXCEPT !.outputs = Put(u.outputs, i, out)]
  <2>1. u \in State
    <3> DEFINE c == [t.active[i] EXCEPT !.phase = "Finalizing"]
    <3>1. c \in Child
      <4>1. t.active[i] \in Child
        BY <1>2, StateFields, MapElement
      <4> QED
        BY <4>1 DEF Child
    <3>2. u = [t EXCEPT !.active[i] = c]
      BY DEF State, StateOver
    <3> HIDE DEF u, c
    <3> QED
      BY <1>2, <3>1, <3>2, ActiveUpdateType
  <2>2. SameHomes(t, u)
    BY DEF SameHomes, State, StateOver
  <2>3. BeginTerminalization(t, i, out) =
          IF t.active[i].inFlight = 0 THEN FinishTerminalized(u, i, out) ELSE held
    BY <1>2 DEF BeginTerminalization
  <2> HIDE DEF u
  <2>4. Homed(u) /\ i \in DOMAIN u.active
    BY <1>2, <2>2, SameHomesHomed DEF SameHomes
  <2>5. SameHomes(u, held)
    BY <2>1 DEF SameHomes, State, StateOver
  <2> QED
    BY <2>1, <2>3, <2>4, <2>5, FinishTerminalizedHomed, SameHomesHomed
<1> QED
  BY <1>1, <1>2

-----------------------------------------------------------------------------
(* Callers, turns and the loop's tail *)

LEMMA WithoutGoneCallersHomes ==
    ASSUME NEW t \in State
    PROVE  SameHomes(t, WithoutGoneCallers(t))
<1> DEFINE p == [i \in DOMAIN t.pending |-> Reaped(t, i, t.pending[i])]
           a == [i \in DOMAIN t.active |-> Reaped(t, i, t.active[i])]
           q == [i \in DOMAIN t.queued |->
                   IF t.queued[i].awaiting /\ t.callers[i] = "gone"
                   THEN [t.queued[i] EXCEPT !.awaiting = FALSE, !.timed = FALSE]
                   ELSE t.queued[i]]
<1>1. WithoutGoneCallers(t) = [t EXCEPT !.pending = p, !.active = a, !.queued = q]
  BY DEF WithoutGoneCallers
<1>2. DOMAIN p = DOMAIN t.pending /\ DOMAIN a = DOMAIN t.active /\ DOMAIN q = DOMAIN t.queued
  OBVIOUS
<1> HIDE DEF p, a, q
<1> QED
  BY <1>1, <1>2 DEF SameHomes, State, StateOver

LEMMA ReapHomed ==
    ASSUME NEW t \in State, Homed(t)
    PROVE  Homed(Reap(t))
<1>1. WithoutGoneCallers(t) \in State /\ Homed(WithoutGoneCallers(t))
  BY WithoutGoneCallersType, WithoutGoneCallersHomes, SameHomesHomed
<1> QED
  BY <1>1, RemoveQueuedHomed DEF Reap

LEMMA HandOffHomes ==
    ASSUME NEW t \in State, NEW H, NEW view
    PROVE  SameHomes(t, HandOff(t, H, view))
<1> DEFINE taken(c) == [c EXCEPT !.reply = FALSE, !.handleOnly = TRUE, !.timed = FALSE]
           off == [i \in Ids |-> i \in H]
           p == [i \in DOMAIN t.pending |-> IF off[i] THEN taken(t.pending[i]) ELSE t.pending[i]]
           a == [i \in DOMAIN t.active |-> IF off[i] THEN taken(t.active[i]) ELSE t.active[i]]
           q == [i \in DOMAIN t.queued |->
                   IF off[i] THEN [t.queued[i] EXCEPT !.awaiting = FALSE, !.timed = FALSE]
                   ELSE t.queued[i]]
           k == [i \in Ids |-> IF off[i] /\ t.callers[i] = "waiting" THEN view ELSE t.callers[i]]
<1>1. HandOff(t, H, view) = [t EXCEPT !.pending = p, !.active = a, !.queued = q, !.callers = k]
  BY DEF HandOff
<1>2. DOMAIN p = DOMAIN t.pending /\ DOMAIN a = DOMAIN t.active /\ DOMAIN q = DOMAIN t.queued
  OBVIOUS
<1> HIDE DEF p, a, q, k
<1> QED
  BY <1>1, <1>2 DEF SameHomes, State, StateOver

\* Eviction forgets a completed child together with its node.
LEMMA LoopTailHomed ==
    ASSUME NEW t \in State, Homed(t)
    PROVE  Homed(LoopTail(t))
<1> DEFINE old == Oldest(t)
           waiters == {w \in t.drainWaiters : TurnBlocking(t, w) # {}}
           u == [t EXCEPT !.drainWaiters = waiters, !.completed = Drop(t.completed, old),
                          !.wakes = t.wakes \ old, !.graph = Drop(t.graph, old)]
<1>1. LoopTail(t) = u
  BY DEF LoopTail
<1>2. old \in SUBSET DOMAIN t.completed
  BY DEF Oldest
<1> HIDE DEF old, waiters
<1>3. /\ u.queued = t.queued /\ u.pending = t.pending /\ u.active = t.active
      /\ u.completed = Drop(t.completed, old) /\ u.graph = Drop(t.graph, old)
  BY DEF State, StateOver
<1>4. /\ DOMAIN Drop(t.completed, old) = DOMAIN t.completed \ old
      /\ DOMAIN Drop(t.graph, old) = DOMAIN t.graph \ old
  BY DEF Drop, Restrict
<1> HIDE DEF u
<1>5. Homed(u)
  BY <1>2, <1>3, <1>4 DEF Homed, Known, Live
<1> QED
  BY <1>1, <1>5

-----------------------------------------------------------------------------
(* Spawning *)

\* A child between maps that is started, or queued, has a home.
LEMMA StartChildHomed ==
    ASSUME NEW t \in State, NEW i \in Ids, Between(t, i), NEW c
    PROVE  Homed([t EXCEPT !.pending = Put(t.pending, i, c)])
<1> DEFINE u == [t EXCEPT !.pending = Put(t.pending, i, c)]
<1>1. /\ u.queued = t.queued /\ u.active = t.active /\ u.completed = t.completed
      /\ u.graph = t.graph /\ u.pending = Put(t.pending, i, c)
  BY DEF State, StateOver
<1>2. DOMAIN Put(t.pending, i, c) = DOMAIN t.pending \cup {i}
  BY DEF Put
<1> HIDE DEF u
<1>3. Homed(u)
  BY <1>1, <1>2 DEF Homed, Between, Known, Live
<1> QED
  BY <1>3 DEF u

LEMMA EnqueueHomed ==
    ASSUME NEW t \in State, NEW i \in Ids, Between(t, i), NEW q
    PROVE  Homed([t EXCEPT !.queued = Put(t.queued, i, q)])
<1> DEFINE u == [t EXCEPT !.queued = Put(t.queued, i, q)]
<1>1. /\ u.pending = t.pending /\ u.active = t.active /\ u.completed = t.completed
      /\ u.graph = t.graph /\ u.queued = Put(t.queued, i, q)
  BY DEF State, StateOver
<1>2. DOMAIN Put(t.queued, i, q) = DOMAIN t.queued \cup {i}
  BY DEF Put
<1> HIDE DEF u
<1>3. Homed(u)
  BY <1>1, <1>2 DEF Homed, Between, Known, Live
<1> QED
  BY <1>3 DEF u

LEMMA AdmitSpawnHomed ==
    ASSUME NEW t \in State, NEW i \in Ids, Between(t, i), NEW r \in Request
    PROVE  Homed(AdmitSpawn(t, i, r))
<1> DEFINE q == [req |-> r, ticket |-> NextTicket(t), cancelled |-> FALSE,
                 awaiting |-> TRUE, timed |-> AwaitsInForeground(r), wake |-> None]
           c == [NewChild(r, FALSE, TRUE, FALSE, None) EXCEPT !.handleOnly = r.bg]
           u == [t EXCEPT !.pending = Put(t.pending, i, c)]
           out == [success |-> FALSE, cancelled |-> FALSE]
<1>1. Homed(StartChild(t, i, r, TRUE, None))
  BY StartChildHomed DEF StartChild
<1>2. Homed([t EXCEPT !.queued = Put(t.queued, i, q)])
  BY EnqueueHomed
<1>3. Homed(FinishChild(u, i, out))
  <2>1. c \in Child
    <3>1. NewChild(r, FALSE, TRUE, FALSE, None) \in Child /\ r.bg \in BOOLEAN
      BY NewChildType DEF Request
    <3> QED
      BY <3>1 DEF Child
  <2> HIDE DEF c
  <2>2. Put(t.pending, i, c) \in MapOf(Child)
    BY <2>1, StateFields, PutType
  <2>3. DOMAIN Put(t.pending, i, c) = DOMAIN t.pending \cup {i}
    BY DEF Put
  <2>4. u \in State /\ u.pending = Put(t.pending, i, c)
    BY <2>2 DEF State, StateOver
  <2>5. i \in Live(u)
    BY <2>3, <2>4 DEF Live
  <2>6. out \in Output
    BY DEF Output
  <2>7. Homed(u)
    BY StartChildHomed
  <2> HIDE DEF u, out
  <2> QED
    BY <2>4, <2>5, <2>6, <2>7, FinishChildHomed
<1> HIDE DEF q, c
<1> QED
  BY <1>1, <1>2, <1>3 DEF AdmitSpawn, q, c

LEMMA HandleSpawnHomed ==
    ASSUME NEW t \in State, Homed(t), NEW i \in Ids, NEW r0 \in Request
    PROVE  Homed(HandleSpawn(t, i, r0))
<1>1. Homed(RejectSpawn(t, i))
  <2>1. SameHomes(t, RejectSpawn(t, i))
    BY DEF RejectSpawn, SameHomes, State, StateOver
  <2> QED
    BY <2>1, SameHomesHomed
<1>2. ASSUME NEW w \in State, NEW r \in Request, Registered(t, i, w)
      PROVE  Homed(AdmitSpawn(w, i, r))
  <2>1. Between(w, i)
    BY <1>2 DEF Registered, Between, Homed, Known, Live
  <2> QED
    BY <2>1, AdmitSpawnHomed
<1> QED
  BY <1>1, <1>2, HandleSpawnFacts

-----------------------------------------------------------------------------
(* Cancelling *)

LEMMA CancelLiveHomes ==
    ASSUME NEW t \in State, NEW K, NEW kill \in BOOLEAN, NEW mute \in BOOLEAN
    PROVE  SameHomes(t, CancelLive(t, K, kill, mute))
<1> DEFINE hit(c) == [c EXCEPT !.cancelled = TRUE, !.withdrawn = TRUE,
                               !.killed = c.killed \/ kill,
                               !.req.surface = c.req.surface /\ ~mute]
           p == [i \in DOMAIN t.pending |-> IF i \in K THEN hit(t.pending[i]) ELSE t.pending[i]]
           a == [i \in DOMAIN t.active |-> IF i \in K THEN hit(t.active[i]) ELSE t.active[i]]
           m == {x \in t.parked : x[1] \notin K \cap DOMAIN t.pending}
<1>1. CancelLive(t, K, kill, mute) = [t EXCEPT !.pending = p, !.active = a, !.parked = m]
  BY DEF CancelLive
<1> HIDE DEF hit
<1>2. DOMAIN p = DOMAIN t.pending /\ DOMAIN a = DOMAIN t.active
  OBVIOUS
<1> HIDE DEF p, a, m
<1> QED
  BY <1>1, <1>2 DEF SameHomes, State, StateOver

LEMMA CancelLiveHomed ==
    ASSUME NEW t \in State, Homed(t), NEW K, NEW kill \in BOOLEAN, NEW mute \in BOOLEAN
    PROVE  Homed(CancelLive(t, K, kill, mute))
BY CancelLiveHomes, SameHomesHomed

LEMMA CancelOneHomed ==
    ASSUME NEW t \in State, Homed(t), NEW i \in Ids
    PROVE  Homed(CancelOne(t, i))
BY CancelLiveHomed, RemoveQueuedHomed DEF CancelOne

LEMMA CancelParentPromptHomed ==
    ASSUME NEW t \in State, Homed(t), NEW s, NEW p
    PROVE  Homed(CancelParentPrompt(t, s, p))
<1> DEFINE K == {i \in LiveOf(t, s) : ChildOf(t, i).req.prompt = p}
           u == CancelLive(t, K, FALSE, FALSE)
           R == {i \in QueuedOf(t, s) : t.queued[i].req.prompt = p}
<1>1. u \in State /\ u.queued = t.queued /\ Homed(u)
  <2> HIDE DEF K
  <2> QED
    BY CancelLiveType, CancelLiveHomed
<1>2. R \in SUBSET DOMAIN u.queued
  BY <1>1 DEF QueuedOf
<1>3. CancelParentPrompt(t, s, p) = RemoveQueued(u, R)
  BY DEF CancelParentPrompt
<1> HIDE DEF u, R
<1> QED
  BY <1>1, <1>2, <1>3, RemoveQueuedHomed

LEMMA CancelParentSessionHomed ==
    ASSUME NEW t \in State, Homed(t), NEW s \in Parents
    PROVE  Homed(CancelParentSession(t, s))
<1> DEFINE t0 == [t EXCEPT !.blocked = t.blocked \cup {s}]
           K == {i \in LiveOf(t, s) : ChildOf(t, i).req.run = None}
           u == CancelLive(t0, K, FALSE, FALSE)
           R == {i \in QueuedOf(u, s) : u.queued[i].req.run = None}
           v == RemoveQueued(u, R)
           w == [v EXCEPT !.wakes = v.wakes \ CompletedOf(v, s)]
<1>1. t0 \in State /\ SameHomes(t, t0)
  BY DEF State, StateOver, SameHomes
<1>2. u \in State /\ Homed(u)
  <2> HIDE DEF t0, K
  <2>1. Homed(t0)
    BY <1>1, SameHomesHomed
  <2> QED
    BY <1>1, <2>1, CancelLiveType, CancelLiveHomed
<1>3. R \in SUBSET DOMAIN u.queued
  BY DEF QueuedOf
<1>4. CancelParentSession(t, s) = w
  BY DEF CancelParentSession
<1> HIDE DEF u, R
<1>5. v \in State /\ Homed(v)
  BY <1>2, <1>3, RemoveQueuedType, RemoveQueuedHomed
<1> HIDE DEF v
<1>6. SameHomes(v, w)
  BY <1>5 DEF SameHomes, State, StateOver
<1> QED
  BY <1>4, <1>5, <1>6, SameHomesHomed

LEMMA CancelRunHomed ==
    ASSUME NEW t \in State, Homed(t), NEW run \in Runs, NEW s
    PROVE  Homed(CancelRun(t, run, s))
<1> DEFINE K == {i \in RunOutstanding(t, run) : s \in {None, ChildOf(t, i).req.parent}}
           hit(c) == [c EXCEPT !.cancelled = TRUE]
           p == [i \in DOMAIN t.pending |-> IF i \in K THEN hit(t.pending[i]) ELSE t.pending[i]]
           a == [i \in DOMAIN t.active |-> IF i \in K THEN hit(t.active[i]) ELSE t.active[i]]
           m == {x \in t.parked : x[1] \notin K \cap DOMAIN t.pending}
           u == [t EXCEPT !.pending = p, !.active = a, !.parked = m]
           v == [u EXCEPT !.runWaiters = u.runWaiters \cup {run}]
<1>1. CancelRun(t, run, s) = IF RunOutstanding(t, run) = {} THEN u ELSE v
  BY DEF CancelRun
<1> HIDE DEF hit, K
<1>2. DOMAIN p = DOMAIN t.pending /\ DOMAIN a = DOMAIN t.active
  OBVIOUS
<1> HIDE DEF p, a, m
<1>3. SameHomes(t, u)
  BY <1>2 DEF SameHomes, State, StateOver
<1>4. SameHomes(t, v)
  BY <1>2 DEF SameHomes, State, StateOver
<1> HIDE DEF u, v
<1> QED
  BY <1>1, <1>3, <1>4, SameHomesHomed

LEMMA SilencedHomes ==
    ASSUME NEW t \in State, NEW s
    PROVE  SameHomes(t, Silenced(t, s))
<1> DEFINE t0 == [t EXCEPT !.buffer = {b \in t.buffer : b[1] # s},
                           !.wakes = t.wakes \ CompletedOf(t, s)]
           K == LiveOf(t, s)
           u == CancelLive(t0, K, FALSE, TRUE)
           q == [i \in DOMAIN u.queued |->
                   IF i \in QueuedOf(t, s) THEN [u.queued[i] EXCEPT !.req.surface = FALSE]
                   ELSE u.queued[i]]
           v == [u EXCEPT !.queued = q]
<1>1. t0 \in State /\ SameHomes(t, t0)
  BY DEF State, StateOver, SameHomes
<1>2. Silenced(t, s) = v
  BY DEF Silenced
<1> HIDE DEF t0, K
<1>3. u \in State /\ SameHomes(t0, u)
  BY <1>1, CancelLiveType, CancelLiveHomes
<1> HIDE DEF u
<1>4. DOMAIN q = DOMAIN u.queued
  OBVIOUS
<1> HIDE DEF q
<1>5. SameHomes(u, v)
  BY <1>3, <1>4 DEF SameHomes, State, StateOver
<1> HIDE DEF v
<1> QED
  BY <1>1, <1>2, <1>3, <1>5 DEF SameHomes

LEMMA TeardownHomed ==
    ASSUME NEW t \in State, Homed(t), NEW s \in Parents, NEW responder \in BOOLEAN
    PROVE  Homed(Teardown(t, s, responder))
<1> DEFINE v == Silenced(t, s)
           R == QueuedOf(t, s)
           w == RemoveQueued(v, R)
           closed == [w EXCEPT !.drains = w.drains \cup {s}, !.blocked = w.blocked \cup {s}]
<1>1. Teardown(t, s, responder) = IF responder /\ SessionHasChildren(w, s) THEN closed ELSE w
  BY DEF Teardown
<1>2. v \in State /\ R \in SUBSET DOMAIN v.queued /\ Homed(v)
  BY SilencedType, SilencedHomes, SameHomesHomed DEF QueuedOf
<1> HIDE DEF v, R
<1>3. w \in State /\ Homed(w)
  BY <1>2, RemoveQueuedType, RemoveQueuedHomed
<1> HIDE DEF w
<1>4. SameHomes(w, closed)
  BY <1>3 DEF SameHomes, State, StateOver
<1> QED
  BY <1>1, <1>3, <1>4, SameHomesHomed

-----------------------------------------------------------------------------
(* Messages and wakes *)

LEMMA WakeHomed ==
    ASSUME NEW t \in State, Homed(t), NEW i \in DOMAIN t.completed
    PROVE  Homed(Wake(t, i))
<1> DEFINE d == t.completed[i]
           r == WakeRequest(d.req)
           m == t.parked \cup {<<i, FALSE>>}
           u == [t EXCEPT !.completed = Drop(t.completed, {i}), !.parked = m]
           q == [req |-> r, ticket |-> NextTicket(t), cancelled |-> FALSE,
                 awaiting |-> FALSE, timed |-> FALSE, wake |-> d]
           marked == [t EXCEPT !.wakes = t.wakes \cup {i}]
<1>1. i \in Ids
  BY DomainFacts
<1>2. u \in State
  <2>1. Drop(t.completed, {i}) \in MapOf(CompletedChild)
    BY StateFields, DropType
  <2>2. m \in SUBSET (Ids \X BOOLEAN)
    BY <1>1, ParkedType
  <2> HIDE DEF m
  <2> QED
    BY <2>1, <2>2 DEF State, StateOver
<1>3. Between(u, i)
  <2>1. /\ u.queued = t.queued /\ u.pending = t.pending /\ u.active = t.active
        /\ u.graph = t.graph /\ u.completed = Drop(t.completed, {i})
    BY DEF State, StateOver
  <2>2. DOMAIN Drop(t.completed, {i}) = DOMAIN t.completed \ {i}
    BY DEF Drop, Restrict
  <2> HIDE DEF u
  <2> QED
    BY <2>1, <2>2 DEF Between, Homed, Known, Live
<1>4. SameHomes(t, marked)
  BY DEF SameHomes, State, StateOver
<1> HIDE DEF u, r, d
<1>5. Homed(StartChild(u, i, r, FALSE, d))
  BY <1>1, <1>2, <1>3, StartChildHomed DEF StartChild
<1>6. Homed([u EXCEPT !.queued = Put(u.queued, i, q)])
  BY <1>1, <1>2, <1>3, EnqueueHomed
<1>7. Homed(marked)
  BY <1>4, SameHomesHomed
<1> HIDE DEF q
<1> QED
  BY <1>5, <1>6, <1>7 DEF Wake, u, r, d, q

LEMMA AdmitMessageHomed ==
    ASSUME NEW t \in State, Homed(t), NEW i \in DOMAIN t.active
    PROVE  Homed(AdmitMessage(t, i))
<1> DEFINE n == t.active[i].inFlight + 1
           u == [t EXCEPT !.active[i].inFlight = n]
<1>1. AdmitMessage(t, i) \in {t, u}
  BY DEF AdmitMessage
<1> HIDE DEF n
<1>2. SameHomes(t, u)
  BY DEF SameHomes, State, StateOver
<1> HIDE DEF u
<1> QED
  BY <1>1, <1>2, SameHomesHomed

LEMMA SendMessageHomed ==
    ASSUME NEW t \in State, Homed(t), NEW i \in Ids
    PROVE  Homed(SendMessage(t, i))
<1> DEFINE u == [t EXCEPT !.parked = t.parked \cup {<<i, TRUE>>}]
<1>1. SameHomes(t, u)
  BY DEF SameHomes, State, StateOver
<1>2. Homed(u)
  BY <1>1, SameHomesHomed
<1> QED
  BY <1>2, AdmitMessageHomed, WakeHomed DEF SendMessage

LEMMA AdmitParkedHomed ==
    ASSUME NEW t \in State, Homed(t), NEW i \in DOMAIN t.active
    PROVE  Homed(AdmitParked(t, i))
<1> DEFINE u == [t EXCEPT !.parked = {m \in t.parked : m[1] # i}]
<1>1. u \in State /\ u.active = t.active /\ SameHomes(t, u)
  BY DEF State, StateOver, SameHomes
<1>2. AdmitParked(t, i) = IF <<i, TRUE>> \in t.parked THEN AdmitMessage(u, i) ELSE u
  BY DEF AdmitParked
<1> HIDE DEF u
<1>3. Homed(u)
  BY <1>1, SameHomesHomed
<1> QED
  BY <1>1, <1>2, <1>3, AdmitMessageHomed
=============================================================================
