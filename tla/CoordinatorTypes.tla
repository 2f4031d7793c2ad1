-------------------------- MODULE CoordinatorTypes --------------------------
(***************************************************************************)
(* Every call of the coordinator keeps its record well typed.  One lemma   *)
(* per operator of CoordinatorOps; CoordinatorProofs turns them into       *)
(* Spec => []TypeOK.                                                       *)
(***************************************************************************)
EXTENDS CoordinatorOps, FiniteSetTheorems, WellFoundedInduction, TLAPS

-----------------------------------------------------------------------------
(* Finite sets and maps *)

\* Some element of a finite nonempty set has the greatest value.
LEMMA FiniteHasMaximum ==
    ASSUME NEW D, IsFiniteSet(D), D # {}, NEW v \in [D -> Nat]
    PROVE  \E i \in D : \A j \in D : v[j] <= v[i]
<1> DEFINE Up(i) == {j \in D : v[j] > v[i]}
           F == {Up(i) : i \in D}
<1>1. F \subseteq FiniteSubsetsOf(D) /\ F # {}
  <2>1. FiniteSubsetsOf(D) = SUBSET D
    BY FS_FiniteSubsetsOfFinite
  <2>2. F \subseteq SUBSET D
    OBVIOUS
  <2>3. F # {}
    <3>1. PICK k \in D : TRUE
      OBVIOUS
    <3>2. Up(k) \in F
      OBVIOUS
    <3> QED
      BY <3>2
  <2> QED
    BY <2>1, <2>2, <2>3
<1>2. IsWellFoundedOn(StrictSubsetOrdering(D), FiniteSubsetsOf(D))
  BY FS_StrictSubsetOrderingWellFounded
<1>3. PICK U \in F : \A V \in F : ~(<<V, U>> \in StrictSubsetOrdering(D))
  <2> HIDE DEF F
  <2> QED
    BY <1>1, <1>2, WFMin
<1>4. PICK i \in D : U = Up(i)
  OBVIOUS
<1>5. ASSUME NEW j \in D, v[j] > v[i]
      PROVE  FALSE
  <2>1. Up(j) \subseteq Up(i) /\ j \in Up(i) /\ j \notin Up(j) /\ Up(j) \in F
    BY <1>5
  <2> QED
    BY <2>1, <1>3, <1>4 DEF StrictSubsetOrdering
<1> QED
  BY <1>5

\* Sets of ids are finite.
LEMMA IdSetsFinite ==
    ASSUME NEW S \in SUBSET Ids
    PROVE  IsFiniteSet(S) /\ Cardinality(S) \in Nat
BY IdsFinite, FS_Subset, FS_CardinalityType

\* The same types as sets, the form the prover works with.
MapOf(R) == UNION {[S -> R] : S \in SUBSET Ids}

State == StateOver(MapOf(QueuedSpawn), MapOf(Child), MapOf(Child),
                   MapOf(CompletedChild), MapOf(SpawnNode), MapOf(Output))

LEMMA MapOfDef ==
    ASSUME NEW R, NEW g
    PROVE  g \in MapOf(R) <=> IsMap(g, R)
BY DEF MapOf, IsMap

\* IsState, which TLC evaluates, says membership in State.
LEMMA StateDef ==
    ASSUME NEW t
    PROVE  IsState(t) <=> t \in State
BY MapOfDef DEF State, StateOver, IsState

LEMMA EmptyMap ==
    ASSUME NEW R
    PROVE  [i \in {} |-> None] \in MapOf(R)
BY MapOfDef DEF IsMap

LEMMA PutType ==
    ASSUME NEW R, NEW g \in MapOf(R), NEW k \in Ids, NEW v \in R
    PROVE  Put(g, k, v) \in MapOf(R) /\ DOMAIN Put(g, k, v) = DOMAIN g \cup {k}
BY MapOfDef DEF IsMap, Put

LEMMA DropType ==
    ASSUME NEW R, NEW g \in MapOf(R), NEW S
    PROVE  /\ Drop(g, S) \in MapOf(R) /\ DOMAIN Drop(g, S) = DOMAIN g \ S
           /\ \A x \in DOMAIN g \ S : Drop(g, S)[x] = g[x]
BY MapOfDef DEF IsMap, Drop, Restrict

LEMMA MergeType ==
    ASSUME NEW R, NEW g \in MapOf(R), NEW h \in MapOf(R)
    PROVE  Merge(g, h) \in MapOf(R) /\ DOMAIN Merge(g, h) = DOMAIN g \cup DOMAIN h
BY MapOfDef DEF IsMap, Merge

\* A map rewritten entry by entry.
LEMMA RewriteType ==
    ASSUME NEW R, NEW S \in SUBSET Ids, NEW g \in [S -> R]
    PROVE  g \in MapOf(R) /\ DOMAIN g = S
BY DEF MapOf

LEMMA MapElement ==
    ASSUME NEW R, NEW g \in MapOf(R)
    PROVE  DOMAIN g \in SUBSET Ids /\ \A i \in DOMAIN g : g[i] \in R
BY MapOfDef DEF IsMap

\* What t \in State says of the fields.
LEMMA StateFields ==
    ASSUME NEW t \in State
    PROVE  /\ t.queued \in MapOf(QueuedSpawn)
           /\ t.pending \in MapOf(Child) /\ t.active \in MapOf(Child)
           /\ t.completed \in MapOf(CompletedChild) /\ t.graph \in MapOf(SpawnNode)
           /\ t.outputs \in MapOf(Output) /\ t.nextAge \in Nat
           /\ t.wakes \in SUBSET Ids /\ t.parked \in SUBSET (Ids \X BOOLEAN)
           /\ t.notices \in SUBSET Ids /\ t.waiters \in [Ids -> WaiterView]
           /\ t.drainWaiters \in SUBSET Scopes /\ t.runWaiters \in SUBSET Runs
           /\ t.drains \in SUBSET Parents /\ t.blocked \in SUBSET Parents
           /\ t.buffer \in SUBSET (Parents \X Ids) /\ t.callers \in [Ids -> CallerView]
BY DEF State, StateOver

\* The maps are about ids.
LEMMA DomainFacts ==
    ASSUME NEW t \in State
    PROVE  /\ DOMAIN t.queued \in SUBSET Ids /\ DOMAIN t.pending \in SUBSET Ids
           /\ DOMAIN t.active \in SUBSET Ids /\ DOMAIN t.completed \in SUBSET Ids
           /\ DOMAIN t.graph \in SUBSET Ids /\ DOMAIN t.outputs \in SUBSET Ids
<1>1. DOMAIN t.queued \in SUBSET Ids
  BY StateFields, MapElement
<1>2. DOMAIN t.pending \in SUBSET Ids /\ DOMAIN t.active \in SUBSET Ids
  BY StateFields, MapElement
<1>3. DOMAIN t.completed \in SUBSET Ids
  BY StateFields, MapElement
<1>4. DOMAIN t.graph \in SUBSET Ids
  BY StateFields, MapElement
<1>5. DOMAIN t.outputs \in SUBSET Ids
  BY StateFields, MapElement
<1> QED
  BY <1>1, <1>2, <1>3, <1>4, <1>5

LEMMA FreshType == Fresh \in State
BY EmptyMap DEF State, StateOver, Fresh, CallerView, WaiterView

-----------------------------------------------------------------------------
(* Starting *)

LEMMA LiveFacts ==
    ASSUME NEW t \in State
    PROVE  /\ Live(t) \in SUBSET Ids
           /\ \A i \in Live(t) : ChildOf(t, i) \in Child
BY StateFields, MapElement DEF Live, ChildOf

LEMMA NewChildType ==
    ASSUME NEW r \in Request, NEW x \in BOOLEAN, NEW y \in BOOLEAN, NEW z \in BOOLEAN,
           NEW w \in CompletedChild \cup {None}
    PROVE  NewChild(r, x, y, z, w) \in Child
BY DEF NewChild, Child, Request

LEMMA StartChildType ==
    ASSUME NEW t \in State, NEW i \in Ids, NEW r \in Request, NEW reply \in BOOLEAN,
           NEW w \in CompletedChild \cup {None}
    PROVE  StartChild(t, i, r, reply, w) \in State
<1> DEFINE c == NewChild(r, FALSE, reply, reply /\ AwaitsInForeground(r), w)
<1>1. c \in Child
  BY NewChildType DEF AwaitsInForeground, Request
<1> HIDE DEF c
<1>2. Put(t.pending, i, c) \in MapOf(Child)
  BY <1>1, StateFields, PutType
<1> QED
  BY <1>2 DEF State, StateOver, StartChild, c

LEMMA StartableFacts ==
    ASSUME NEW t \in State
    PROVE  /\ Startable(t) \in SUBSET DOMAIN t.queued
           /\ Startable(t) \in SUBSET Ids
           /\ \A i \in Startable(t) : t.queued[i] \in QueuedSpawn
BY StateFields, MapElement DEF Startable

LEMMA StartQueuedType ==
    ASSUME NEW t \in State
    PROVE  StartQueued(t) \in State
<1> DEFINE S == Startable(t)
           new == [i \in S |-> NewChild(t.queued[i].req, t.queued[i].cancelled,
                                        t.queued[i].awaiting, t.queued[i].timed,
                                        t.queued[i].wake)]
<1>1. \A i \in S : NewChild(t.queued[i].req, t.queued[i].cancelled, t.queued[i].awaiting,
                            t.queued[i].timed, t.queued[i].wake) \in Child
  BY StartableFacts, NewChildType DEF QueuedSpawn
<1>2. new \in MapOf(Child)
  BY <1>1, StartableFacts, RewriteType
<1>3. Drop(t.queued, S) \in MapOf(QueuedSpawn)
  BY StateFields, DropType
<1>4. Merge(t.pending, new) \in MapOf(Child)
  BY <1>2, StateFields, MergeType
<1>5. StartQueued(t) = [t EXCEPT !.queued = Drop(t.queued, S), !.pending = Merge(t.pending, new)]
  BY DEF StartQueued
<1> HIDE DEF S, new
<1> QED
  BY <1>3, <1>4, <1>5 DEF State, StateOver

-----------------------------------------------------------------------------
(* Finishing *)

LEMMA ClearTeardownDrainType ==
    ASSUME NEW t \in State, NEW S
    PROVE  ClearTeardownDrain(t, S) \in State
BY DEF State, StateOver, ClearTeardownDrain

LEMMA ResolveTeardownDrainsType ==
    ASSUME NEW t \in State, NEW S
    PROVE  ResolveTeardownDrains(t, S) \in State
BY ClearTeardownDrainType DEF ResolveTeardownDrains

LEMMA ResolveRunWaitersType ==
    ASSUME NEW t \in State, NEW R
    PROVE  ResolveRunWaiters(t, R) \in State
BY DEF State, StateOver, ResolveRunWaiters

LEMMA TerminalType ==
    ASSUME NEW t \in State, NEW i \in Ids, NEW c \in Child, NEW out \in Output,
           NEW age \in Nat
    PROVE  Terminal(t, i, c, out, age) \in CompletedChild
BY DEF Terminal, Surfaces, CompletedChild, Child, Request, Output

LEMMA CompletionTargetType ==
    ASSUME NEW t \in State, NEW i \in Ids, NEW r \in Request
    PROVE  CompletionTarget(t, i, r) \in SUBSET Parents
BY StateFields, MapElement DEF CompletionTarget, Request, Parents

LEMMA ConcludeType ==
    ASSUME NEW t \in State, NEW rec \in MapOf(Child), NEW out \in Output,
           NEW rank, \A i \in DOMAIN rec : rank[i] \in Nat
    PROVE  Conclude(t, rec, out, rank) \in State
<1> DEFINE K == DOMAIN rec
           told(i) == {<<p, i>> : p \in CompletionTarget(t, i, rec[i].req)}
           done == [i \in K |-> Terminal(t, i, rec[i], out, t.nextAge + rank[i])]
           waiters == [i \in Ids |-> IF i \in K THEN "none" ELSE t.waiters[i]]
           callers == [i \in Ids |-> IF i \in K /\ rec[i].reply /\ t.callers[i] = "waiting"
                                     THEN "result" ELSE t.callers[i]]
           buffer == {m \in t.buffer \cup UNION {told(i) : i \in K} : m[1] \notin K}
           u == [t EXCEPT !.completed = Merge(t.completed, done),
                          !.nextAge = t.nextAge + Cardinality(K),
                          !.parked = {m \in t.parked : m[1] \notin K},
                          !.waiters = waiters, !.callers = callers, !.buffer = buffer]
<1>1. K \in SUBSET Ids /\ \A i \in K : rec[i] \in Child /\ rec[i].req \in Request
  <2>1. K \in SUBSET Ids /\ \A i \in K : rec[i] \in Child
    BY MapElement
  <2> QED
    BY <2>1 DEF Child
<1>2. Cardinality(K) \in Nat
  BY <1>1, IdSetsFinite
<1>3. done \in MapOf(CompletedChild)
  <2>1. \A i \in K : Terminal(t, i, rec[i], out, t.nextAge + rank[i]) \in CompletedChild
    BY <1>1, TerminalType, StateFields
  <2> QED
    BY <2>1, <1>1, RewriteType
<1>4. Merge(t.completed, done) \in MapOf(CompletedChild)
  BY <1>3, StateFields, MergeType
<1>5. waiters \in [Ids -> WaiterView]
  BY StateFields DEF WaiterView
<1>6. callers \in [Ids -> CallerView]
  BY StateFields DEF CallerView
<1>7. buffer \in SUBSET (Parents \X Ids)
  <2>1. \A i \in K : told(i) \in SUBSET (Parents \X Ids)
    BY <1>1, CompletionTargetType
  <2> QED
    BY <2>1, StateFields
<1>8. Conclude(t, rec, out, rank) = u
  BY DEF Conclude
<1>9. t.nextAge + Cardinality(K) \in Nat
  BY <1>2, StateFields
<1> HIDE DEF done, waiters, callers, buffer, K
<1>10. u \in State
  BY <1>4, <1>5, <1>6, <1>7, <1>9 DEF State, StateOver
<1> QED
  BY <1>8, <1>10

\* Concluding files a record for every child of rec and moves nothing else.
LEMMA ConcludeDomains ==
    ASSUME NEW t \in State, NEW rec, NEW out, NEW rank
    PROVE  LET u == Conclude(t, rec, out, rank)
           IN  /\ u.queued = t.queued /\ u.pending = t.pending /\ u.active = t.active
               /\ u.graph = t.graph /\ u.nextAge = t.nextAge + Cardinality(DOMAIN rec)
               /\ DOMAIN u.completed = DOMAIN t.completed \cup DOMAIN rec
<1> DEFINE K == DOMAIN rec
           told(i) == {<<p, i>> : p \in CompletionTarget(t, i, rec[i].req)}
           done == [i \in K |-> Terminal(t, i, rec[i], out, t.nextAge + rank[i])]
           waiters == [i \in Ids |-> IF i \in K THEN "none" ELSE t.waiters[i]]
           callers == [i \in Ids |-> IF i \in K /\ rec[i].reply /\ t.callers[i] = "waiting"
                                     THEN "result" ELSE t.callers[i]]
           buffer == {m \in t.buffer \cup UNION {told(i) : i \in K} : m[1] \notin K}
           age == t.nextAge + Cardinality(K)
           u == [t EXCEPT !.completed = Merge(t.completed, done), !.nextAge = age,
                          !.parked = {m \in t.parked : m[1] \notin K},
                          !.waiters = waiters, !.callers = callers, !.buffer = buffer]
<1>1. Conclude(t, rec, out, rank) = u
  BY DEF Conclude
<1>2. DOMAIN Merge(t.completed, done) = DOMAIN t.completed \cup K
  BY DEF Merge
<1> HIDE DEF done, waiters, callers, buffer, age, K
<1>3. /\ u.queued = t.queued /\ u.pending = t.pending /\ u.active = t.active
      /\ u.graph = t.graph /\ u.nextAge = age
      /\ u.completed = Merge(t.completed, done)
  BY DEF State, StateOver
<1> QED
  BY <1>1, <1>2, <1>3 DEF age, K

\* The map of a single child.
LEMMA SingletonMap ==
    ASSUME NEW R, NEW i \in Ids, NEW v \in R
    PROVE  [j \in {i} |-> v] \in MapOf(R)
BY RewriteType

\* The entries of R leave the queue; the gone ones, whose prior record is too
\* old, are forgotten, the others end up as completed.
EntriesLeave(t, R, v, gone) ==
    /\ \E P : FinishCancelledQueued(t, R) = ResolveTeardownDrains(v, P)
    /\ DOMAIN v.queued = DOMAIN t.queued \ R
    /\ v.pending = t.pending /\ v.active = t.active
    /\ DOMAIN v.completed = DOMAIN t.completed \cup (R \ gone)
    /\ DOMAIN v.graph = DOMAIN t.graph \ gone

LEMMA FinishCancelledQueuedFacts ==
    ASSUME NEW t \in State, NEW R \in SUBSET DOMAIN t.queued
    PROVE  \E v \in State, gone \in SUBSET R : EntriesLeave(t, R, v, gone)
<1> DEFINE W == {i \in R : t.queued[i].wake # None}
           N == R \ W
           rank == [i \in R |-> Cardinality({j \in N : t.queued[j].ticket < t.queued[i].ticket})]
           kept == {i \in W : ~Expired(t.queued[i].wake, t.nextAge + rank[i])}
           rec == [i \in N |->
                     [NewChild(t.queued[i].req, TRUE, t.queued[i].awaiting, FALSE, None)
                        EXCEPT !.handleOnly = t.queued[i].req.bg]]
           out == [success |-> FALSE, cancelled |-> TRUE]
           t0 == [t EXCEPT !.queued = Drop(t.queued, R)]
           u == Conclude(t0, rec, out, rank)
           back == [i \in kept |-> [t.queued[i].wake EXCEPT !.wakeEligible = FALSE]]
           v == [u EXCEPT !.completed = Merge(u.completed, back),
                          !.graph = Drop(u.graph, W \ kept),
                          !.waiters = [i \in Ids |-> IF i \in W THEN "none" ELSE u.waiters[i]]]
           P == {t.queued[i].req.parent : i \in N}
<1>1. R \in SUBSET Ids /\ \A i \in R : t.queued[i] \in QueuedSpawn
  BY StateFields, MapElement
<1>2. t0 \in State
  <2>1. Drop(t.queued, R) \in MapOf(QueuedSpawn)
    BY StateFields, DropType
  <2> QED
    BY <2>1 DEF State, StateOver
<1>3. rec \in MapOf(Child)
  <2>1. ASSUME NEW i \in N
        PROVE  [NewChild(t.queued[i].req, TRUE, t.queued[i].awaiting, FALSE, None)
                  EXCEPT !.handleOnly = t.queued[i].req.bg] \in Child
    <3>1. NewChild(t.queued[i].req, TRUE, t.queued[i].awaiting, FALSE, None) \in Child
      BY <1>1, NewChildType DEF QueuedSpawn
    <3>2. t.queued[i].req.bg \in BOOLEAN
      BY <1>1 DEF QueuedSpawn, Request
    <3> QED
      BY <3>1, <3>2 DEF Child
  <2>2. rec \in [N -> Child] /\ N \in SUBSET Ids
    BY <1>1, <2>1
  <2> QED
    BY <2>2, RewriteType
<1>4. \A i \in DOMAIN rec : rank[i] \in Nat
  <2>1. ASSUME NEW i \in R PROVE rank[i] \in Nat
    <3>1. {j \in N : t.queued[j].ticket < t.queued[i].ticket} \in SUBSET Ids
      BY <1>1
    <3> QED
      BY <3>1, IdSetsFinite
  <2> QED
    BY <2>1
<1>5. out \in Output
  BY DEF Output
<1> HIDE DEF t0, rec, out, rank
<1>6. u \in State
  BY <1>2, <1>3, <1>4, <1>5, ConcludeType
<1> HIDE DEF u
<1>7. back \in MapOf(CompletedChild)
  <2>1. ASSUME NEW i \in kept
        PROVE  [t.queued[i].wake EXCEPT !.wakeEligible = FALSE] \in CompletedChild
    <3>1. t.queued[i].wake \in CompletedChild
      BY <1>1 DEF QueuedSpawn
    <3> QED
      BY <3>1 DEF CompletedChild
  <2>2. back \in [kept -> CompletedChild] /\ kept \in SUBSET Ids
    BY <1>1, <2>1
  <2> QED
    BY <2>2, RewriteType
<1>8. Merge(u.completed, back) \in MapOf(CompletedChild)
  BY <1>6, <1>7, StateFields, MergeType
<1>9. Drop(u.graph, W \ kept) \in MapOf(SpawnNode)
  BY <1>6, StateFields, DropType
<1>10. [i \in Ids |-> IF i \in W THEN "none" ELSE u.waiters[i]] \in [Ids -> WaiterView]
  BY <1>6, StateFields DEF WaiterView
<1> HIDE DEF back, W, kept
<1>11. v \in State
  BY <1>6, <1>8, <1>9, <1>10 DEF State, StateOver
<1>12. FinishCancelledQueued(t, R) = ResolveTeardownDrains(v, P)
  BY DEF FinishCancelledQueued, t0, rec, out, rank, u, back, W, kept
<1>13. DOMAIN rec = N /\ DOMAIN back = kept
  BY DEF rec, back
<1>14. W \in SUBSET R /\ kept \in SUBSET W
  BY DEF W, kept
<1>15. /\ t0.queued = Drop(t.queued, R) /\ t0.pending = t.pending /\ t0.active = t.active
       /\ t0.completed = t.completed /\ t0.graph = t.graph
  BY DEF t0, State, StateOver
<1>16. /\ u.queued = t0.queued /\ u.pending = t0.pending /\ u.active = t0.active
       /\ u.graph = t0.graph /\ DOMAIN u.completed = DOMAIN t0.completed \cup DOMAIN rec
  BY <1>2, ConcludeDomains DEF u
<1>17. /\ v.queued = u.queued /\ v.pending = u.pending /\ v.active = u.active
       /\ v.completed = Merge(u.completed, back) /\ v.graph = Drop(u.graph, W \ kept)
  BY <1>6 DEF State, StateOver
<1>18. DOMAIN Drop(t.queued, R) = DOMAIN t.queued \ R
  BY DEF Drop, Restrict
<1>19. DOMAIN Merge(u.completed, back) = DOMAIN u.completed \cup kept
  BY <1>13 DEF Merge
<1>20. DOMAIN Drop(u.graph, W \ kept) = DOMAIN u.graph \ (W \ kept)
  BY DEF Drop, Restrict
<1> HIDE DEF v, P
<1>21. DOMAIN v.completed = DOMAIN t.completed \cup (R \ (W \ kept))
  BY <1>13, <1>14, <1>15, <1>16, <1>17, <1>19
<1>22. W \ kept \in SUBSET R
  BY <1>14
<1>23. DOMAIN v.queued = DOMAIN t.queued \ R /\ DOMAIN v.graph = DOMAIN t.graph \ (W \ kept)
       /\ v.pending = t.pending /\ v.active = t.active
  BY <1>15, <1>16, <1>17, <1>18, <1>20
<1> DEFINE gone == W \ kept
<1> HIDE DEF gone
<1>24. gone \in SUBSET R
  BY <1>22 DEF gone
<1> WITNESS v \in State, gone \in SUBSET R
<1> QED
  BY <1>12, <1>21, <1>23 DEF gone, EntriesLeave

LEMMA FinishCancelledQueuedType ==
    ASSUME NEW t \in State, NEW R \in SUBSET DOMAIN t.queued
    PROVE  FinishCancelledQueued(t, R) \in State
BY FinishCancelledQueuedFacts, ResolveTeardownDrainsType DEF EntriesLeave

LEMMA SweepType ==
    ASSUME NEW t \in State
    PROVE  Sweep(t) \in State
BY StartQueuedType, FinishCancelledQueuedType DEF Sweep

LEMMA RemoveQueuedType ==
    ASSUME NEW t \in State, NEW R \in SUBSET DOMAIN t.queued
    PROVE  RemoveQueued(t, R) \in State
<1> DEFINE t0 == [t EXCEPT !.parked = {m \in t.parked : m[1] \notin R}]
<1>1. t0 \in State /\ t0.queued = t.queued
  BY DEF State, StateOver
<1>2. FinishCancelledQueued(t0, R) \in State
  <2> HIDE DEF t0
  <2> QED
    BY <1>1, FinishCancelledQueuedType
<1> QED
  BY <1>2, SweepType DEF RemoveQueued

LEMMA RestoreType ==
    ASSUME NEW t \in State, NEW i \in Ids, NEW d \in CompletedChild
    PROVE  Restore(t, i, d) \in State
<1>1. Put(t.completed, i, d) \in MapOf(CompletedChild)
  BY StateFields, PutType
<1>2. Drop(t.graph, {i}) \in MapOf(SpawnNode)
  BY StateFields, DropType
<1> QED
  BY <1>1, <1>2 DEF Restore, State, StateOver, WaiterView

LEMMA FinishChildType ==
    ASSUME NEW t \in State, NEW i \in Live(t), NEW out \in Output
    PROVE  FinishChild(t, i, out) \in State
<1> DEFINE c == ChildOf(t, i)
           u == [t EXCEPT !.pending = Drop(t.pending, {i}), !.active = Drop(t.active, {i}),
                          !.outputs = Drop(t.outputs, {i}),
                          !.parked = {m \in t.parked : m[1] # i}]
           d == [c.wakeOf EXCEPT !.wakeEligible = c.wakeOf.wakeEligible /\ ~c.killed /\ ~c.withdrawn]
           restored == Restore(u, i, d)
           rec == [j \in {i} |-> c]
           rank == [j \in {i} |-> 0]
           concluded == ResolveRunWaiters(Conclude(u, rec, out, rank), {c.req.run} \ {None})
           v == IF c.wakeOf # None /\ ~out.success THEN restored ELSE concluded
<1>1. i \in Ids /\ c \in Child
  BY LiveFacts
<1>2. u \in State
  <2>1. Drop(t.pending, {i}) \in MapOf(Child) /\ Drop(t.active, {i}) \in MapOf(Child)
    BY StateFields, DropType
  <2>2. Drop(t.outputs, {i}) \in MapOf(Output)
    BY StateFields, DropType
  <2> QED
    BY <2>1, <2>2 DEF State, StateOver
<1> HIDE DEF u, c
<1>3. c.wakeOf # None => restored \in State
  <2>1. c.wakeOf # None => c.wakeOf \in CompletedChild /\ c.killed \in BOOLEAN /\ c.withdrawn \in BOOLEAN
    BY <1>1 DEF Child
  <2>2. c.wakeOf # None => d \in CompletedChild
    BY <2>1 DEF CompletedChild
  <2> HIDE DEF d
  <2> QED
    BY <1>1, <1>2, <2>2, RestoreType
<1>4. concluded \in State
  <2>1. rec \in MapOf(Child) /\ \A j \in DOMAIN rec : rank[j] \in Nat
    BY <1>1, SingletonMap
  <2> HIDE DEF rec, rank
  <2>2. Conclude(u, rec, out, rank) \in State
    BY <1>2, <2>1, ConcludeType
  <2> QED
    BY <2>2, ResolveRunWaitersType
<1>5. FinishChild(t, i, out) = Sweep(ResolveTeardownDrains(v, {c.req.parent}))
  BY DEF FinishChild, u, c
<1>6. v \in State
  BY <1>3, <1>4
<1> HIDE DEF v
<1> QED
  BY <1>5, <1>6, ResolveTeardownDrainsType, SweepType

\* One field of one active child is rewritten.
LEMMA ActiveUpdateType ==
    ASSUME NEW t \in State, NEW i \in DOMAIN t.active, NEW c \in Child
    PROVE  [t EXCEPT !.active[i] = c] \in State
<1>1. [t.active EXCEPT ![i] = c] \in MapOf(Child)
  BY StateFields, MapOfDef DEF IsMap
<1> QED
  BY <1>1 DEF State, StateOver

LEMMA FinishTerminalizedType ==
    ASSUME NEW t \in State, NEW i \in DOMAIN t.active, NEW out \in Output
    PROVE  FinishTerminalized(t, i, out) \in State
<1> DEFINE c == [t.active[i] EXCEPT !.cancelled = TRUE]
           u == [t EXCEPT !.active[i].cancelled = TRUE]
           fail == [success |-> FALSE, cancelled |-> TRUE]
<1>1. c \in Child
  <2>1. t.active[i] \in Child
    BY StateFields, MapElement
  <2> QED
    BY <2>1 DEF Child
<1>2. u = [t EXCEPT !.active[i] = c]
  BY DEF State, StateOver
<1>3. u \in State
  <2> HIDE DEF u, c
  <2> QED
    BY <1>1, <1>2, ActiveUpdateType
<1>4. i \in Live(t) /\ i \in Live(u)
  <2>1. DOMAIN u.active = DOMAIN t.active
    BY DEF State, StateOver
  <2> QED
    BY <2>1 DEF Live
<1>5. fail \in Output
  BY DEF Output
<1> HIDE DEF u, fail
<1> QED
  BY <1>3, <1>4, <1>5, FinishChildType DEF FinishTerminalized, u, fail

LEMMA BeginTerminalizationType ==
    ASSUME NEW t \in State, NEW i \in Live(t), NEW out \in Output
    PROVE  BeginTerminalization(t, i, out) \in State
<1>1. CASE i \notin DOMAIN t.active
  BY <1>1, FinishChildType DEF BeginTerminalization
<1>2. CASE i \in DOMAIN t.active
  <2> DEFINE c == [t.active[i] EXCEPT !.phase = "Finalizing"]
             u == [t EXCEPT !.active[i].phase = "Finalizing"]
  <2>1. c \in Child
    <3>1. t.active[i] \in Child
      BY <1>2, StateFields, MapElement
    <3> QED
      BY <3>1 DEF Child
  <2>2. u = [t EXCEPT !.active[i] = c] /\ DOMAIN u.active = DOMAIN t.active
    BY DEF State, StateOver
  <2>3. u \in State /\ i \in DOMAIN u.active
    <3> HIDE DEF u, c
    <3> QED
      BY <1>2, <2>1, <2>2, ActiveUpdateType
  <2> HIDE DEF u
  <2>4. FinishTerminalized(u, i, out) \in State
    BY <2>3, FinishTerminalizedType
  <2>5. Put(u.outputs, i, out) \in MapOf(Output)
    BY <2>3, StateFields, PutType, LiveFacts
  <2>6. [u EXCEPT !.outputs = Put(u.outputs, i, out)] \in State
    BY <2>3, <2>5 DEF State, StateOver
  <2> QED
    BY <1>2, <2>4, <2>6 DEF BeginTerminalization, u
<1> QED
  BY <1>1, <1>2

-----------------------------------------------------------------------------
(* Callers and turns *)

LEMMA ReapedType ==
    ASSUME NEW t, NEW i, NEW c \in Child
    PROVE  Reaped(t, i, c) \in Child
BY DEF Reaped, Child

LEMMA WithoutGoneCallersType ==
    ASSUME NEW t \in State
    PROVE  WithoutGoneCallers(t) \in State
<1> DEFINE p == [i \in DOMAIN t.pending |-> Reaped(t, i, t.pending[i])]
           a == [i \in DOMAIN t.active |-> Reaped(t, i, t.active[i])]
           q == [i \in DOMAIN t.queued |->
                   IF t.queued[i].awaiting /\ t.callers[i] = "gone"
                   THEN [t.queued[i] EXCEPT !.awaiting = FALSE, !.timed = FALSE]
                   ELSE t.queued[i]]
           u == [t EXCEPT !.pending = p, !.active = a, !.queued = q]
<1>1. p \in MapOf(Child) /\ a \in MapOf(Child)
  <2>1. p \in [DOMAIN t.pending -> Child] /\ a \in [DOMAIN t.active -> Child]
    BY StateFields, MapElement, ReapedType
  <2> QED
    BY <2>1, DomainFacts, RewriteType
<1>2. q \in MapOf(QueuedSpawn)
  <2>1. q \in [DOMAIN t.queued -> QueuedSpawn]
    <3>1. \A i \in DOMAIN t.queued : t.queued[i] \in QueuedSpawn
      BY StateFields, MapElement
    <3> QED
      BY <3>1 DEF QueuedSpawn
  <2> QED
    BY <2>1, DomainFacts, RewriteType
<1>3. u \in State
  <2> HIDE DEF p, a, q
  <2> QED
    BY <1>1, <1>2 DEF State, StateOver
<1>4. WithoutGoneCallers(t) = u
  BY DEF WithoutGoneCallers
<1> QED
  BY <1>3, <1>4

LEMMA ReapType ==
    ASSUME NEW t \in State
    PROVE  Reap(t) \in State
BY WithoutGoneCallersType, RemoveQueuedType DEF Reap

LEMMA HandOffType ==
    ASSUME NEW t \in State, NEW H, NEW view \in CallerView
    PROVE  HandOff(t, H, view) \in State
<1> DEFINE taken(c) == [c EXCEPT !.reply = FALSE, !.handleOnly = TRUE, !.timed = FALSE]
           off == [i \in Ids |-> i \in H]
           p == [i \in DOMAIN t.pending |-> IF off[i] THEN taken(t.pending[i]) ELSE t.pending[i]]
           a == [i \in DOMAIN t.active |-> IF off[i] THEN taken(t.active[i]) ELSE t.active[i]]
           q == [i \in DOMAIN t.queued |->
                   IF off[i] THEN [t.queued[i] EXCEPT !.awaiting = FALSE, !.timed = FALSE]
                   ELSE t.queued[i]]
           k == [i \in Ids |-> IF off[i] /\ t.callers[i] = "waiting" THEN view ELSE t.callers[i]]
<1>1. p \in MapOf(Child) /\ a \in MapOf(Child)
  <2>1. \A c \in Child : taken(c) \in Child
    BY DEF Child
  <2>2. p \in [DOMAIN t.pending -> Child] /\ a \in [DOMAIN t.active -> Child]
    <3> HIDE DEF taken, off
    <3> QED
      BY <2>1, StateFields, MapElement
  <2> HIDE DEF p, a
  <2> QED
    BY <2>2, DomainFacts, RewriteType
<1>2. q \in MapOf(QueuedSpawn)
  <2>1. q \in [DOMAIN t.queued -> QueuedSpawn]
    <3>1. \A i \in DOMAIN t.queued : t.queued[i] \in QueuedSpawn
      BY StateFields, MapElement
    <3> QED
      BY <3>1 DEF QueuedSpawn
  <2> HIDE DEF q
  <2> QED
    BY <2>1, DomainFacts, RewriteType
<1>3. k \in [Ids -> CallerView]
  BY StateFields
<1>4. HandOff(t, H, view) = [t EXCEPT !.pending = p, !.active = a, !.queued = q, !.callers = k]
  BY DEF HandOff
<1> HIDE DEF p, a, q, k
<1> QED
  BY <1>1, <1>2, <1>3, <1>4 DEF State, StateOver

LEMMA LoopTailType ==
    ASSUME NEW t \in State
    PROVE  LoopTail(t) \in State
<1>1. Drop(t.completed, Oldest(t)) \in MapOf(CompletedChild)
  BY StateFields, DropType
<1>2. Drop(t.graph, Oldest(t)) \in MapOf(SpawnNode)
  BY StateFields, DropType
<1> QED
  BY <1>1, <1>2 DEF LoopTail, State, StateOver

-----------------------------------------------------------------------------
(* Spawning *)

LEMMA CallerType ==
    ASSUME NEW t \in State, NEW i \in Ids, NEW view \in CallerView
    PROVE  [t EXCEPT !.callers[i] = view] \in State
BY DEF State, StateOver

\* The ticket of a new entry is a number, greater than those in use.
LEMMA NextTicketFacts ==
    ASSUME NEW t \in State
    PROVE  /\ NextTicket(t) \in Nat
           /\ \A i \in DOMAIN t.queued : t.queued[i].ticket < NextTicket(t)
<1> DEFINE D == DOMAIN t.queued
           v == [i \in D |-> t.queued[i].ticket]
           used == {t.queued[i].ticket : i \in D}
           S == {0} \cup {k + 1 : k \in used}
<1>1. IsFiniteSet(D) /\ v \in [D -> Nat]
  <2>1. D \in SUBSET Ids /\ \A i \in D : t.queued[i] \in QueuedSpawn
    BY StateFields, MapElement
  <2> QED
    BY <2>1, IdSetsFinite DEF QueuedSpawn
<1>2. used \subseteq Nat
  BY <1>1
<1>3. \E n \in S : \A k \in used : k < n
  <2>1. CASE D = {}
    BY <2>1
  <2>2. CASE D # {}
    <3>1. PICK i \in D : \A j \in D : v[j] <= v[i]
      <4> HIDE DEF v, D
      <4> QED
        BY <1>1, <2>2, FiniteHasMaximum
    <3>2. v[i] + 1 \in S /\ \A k \in used : k < v[i] + 1
      BY <1>1, <3>1
    <3> QED
      BY <3>2
  <2> QED
    BY <2>1, <2>2
<1>4. NextTicket(t) \in S /\ \A k \in used : k < NextTicket(t)
  <2>1. NextTicket(t) = CHOOSE n \in S : \A k \in used : k < n
    BY DEF NextTicket
  <2> HIDE DEF S, used
  <2> QED
    BY <1>3, <2>1
<1>5. S \subseteq Nat
  <2> HIDE DEF used
  <2> QED
    BY <1>2
<1>6. \A i \in D : t.queued[i].ticket \in used
  OBVIOUS
<1> HIDE DEF S, used
<1> QED
  BY <1>4, <1>5, <1>6

LEMMA EnqueueType ==
    ASSUME NEW t \in State, NEW i \in Ids, NEW q \in QueuedSpawn
    PROVE  [t EXCEPT !.queued = Put(t.queued, i, q)] \in State
<1>1. Put(t.queued, i, q) \in MapOf(QueuedSpawn)
  BY StateFields, PutType
<1> QED
  BY <1>1 DEF State, StateOver

LEMMA AdmitSpawnType ==
    ASSUME NEW t \in State, NEW i \in Ids, NEW r \in Request
    PROVE  AdmitSpawn(t, i, r) \in State
<1> DEFINE q == [req |-> r, ticket |-> NextTicket(t), cancelled |-> FALSE,
                 awaiting |-> TRUE, timed |-> AwaitsInForeground(r), wake |-> None]
           c == [NewChild(r, FALSE, TRUE, FALSE, None) EXCEPT !.handleOnly = r.bg]
           u == [t EXCEPT !.pending = Put(t.pending, i, c)]
           out == [success |-> FALSE, cancelled |-> FALSE]
<1>1. StartChild(t, i, r, TRUE, None) \in State
  BY StartChildType
<1>2. [t EXCEPT !.queued = Put(t.queued, i, q)] \in State
  <2>1. q \in QueuedSpawn
    BY NextTicketFacts DEF QueuedSpawn, AwaitsInForeground, Request
  <2> HIDE DEF q
  <2> QED
    BY <2>1, EnqueueType
<1>3. FinishChild(u, i, out) \in State
  <2>1. c \in Child
    <3>1. NewChild(r, FALSE, TRUE, FALSE, None) \in Child /\ r.bg \in BOOLEAN
      BY NewChildType DEF Request
    <3> QED
      BY <3>1 DEF Child
  <2> HIDE DEF c
  <2>2. Put(t.pending, i, c) \in MapOf(Child) /\ i \in DOMAIN Put(t.pending, i, c)
    <3>1. t.pending \in MapOf(Child)
      BY StateFields
    <3>2. DOMAIN Put(t.pending, i, c) = DOMAIN t.pending \cup {i}
      BY DEF Put
    <3> QED
      BY <2>1, <3>1, <3>2, PutType
  <2>3. u \in State /\ u.pending = Put(t.pending, i, c)
    BY <2>2 DEF State, StateOver
  <2>4. i \in Live(u)
    BY <2>2, <2>3 DEF Live
  <2>5. out \in Output
    BY DEF Output
  <2> HIDE DEF u, out
  <2> QED
    BY <2>3, <2>4, <2>5, FinishChildType
<1> HIDE DEF q, c
<1> QED
  BY <1>1, <1>2, <1>3 DEF AdmitSpawn, q, c

\* w is t with a caller and a graph node for the new child i.
Registered(t, i, w) ==
    /\ i \notin Known(t)
    /\ w.queued = t.queued /\ w.pending = t.pending /\ w.active = t.active
    /\ w.completed = t.completed /\ DOMAIN w.graph = DOMAIN t.graph \cup {i}

\* A spawn is ignored, refused, or registered and admitted.
LEMMA HandleSpawnFacts ==
    ASSUME NEW t \in State, NEW i \in Ids, NEW r0 \in Request
    PROVE  \/ HandleSpawn(t, i, r0) = t
           \/ HandleSpawn(t, i, r0) = RejectSpawn(t, i)
           \/ \E w \in State, r \in Request :
                 Registered(t, i, w) /\ HandleSpawn(t, i, r0) = AdmitSpawn(w, i, r)
<1> DEFINE p == r0.parent
           nested == p \in DOMAIN t.active
           r == IF nested THEN Reparented(r0, t.active[p]) ELSE r0
           node == IF nested THEN NestedNode(t, p, r.parent, r0.surface) ELSE RootNode(p)
           u == [t EXCEPT !.callers[i] = "waiting"]
           w == [u EXCEPT !.graph = Put(u.graph, i, node)]
<1>1. r \in Request
  <2>1. CASE nested
    <3>1. t.active[p] \in Child
      BY <2>1, StateFields, MapElement
    <3>2. t.active[p].req \in Request
      BY <3>1 DEF Child
    <3> QED
      BY <2>1, <3>2 DEF Reparented, Request
  <2> QED
    BY <2>1
<1>2. p \in Parents /\ r.parent \in Parents /\ r0.surface \in BOOLEAN
  BY <1>1 DEF Request
<1>3. ~nested => node \in SpawnNode
  BY <1>2 DEF RootNode, SpawnNode
<1>4. nested /\ p \in DOMAIN t.graph => node \in SpawnNode
  <2> SUFFICES ASSUME nested, p \in DOMAIN t.graph
               PROVE  node \in SpawnNode
    OBVIOUS
  <2>1. t.graph[p] \in SpawnNode /\ p \in Ids
    BY StateFields, MapElement
  <2>2. t.graph[p].chain \in SUBSET Ids
    BY <2>1 DEF SpawnNode
  <2> HIDE DEF r
  <2> QED
    BY <1>2, <2>1, <2>2 DEF NestedNode, SpawnNode
<1>5. u \in State
  BY CallerType DEF CallerView
<1>6. /\ u.queued = t.queued /\ u.pending = t.pending /\ u.active = t.active
      /\ u.completed = t.completed /\ u.graph = t.graph
  BY DEF State, StateOver
<1> HIDE DEF node, r, u
<1>7. node \in SpawnNode => w \in State
  <2>1. node \in SpawnNode => Put(u.graph, i, node) \in MapOf(SpawnNode)
    BY <1>5, StateFields, PutType
  <2> QED
    BY <1>5, <2>1 DEF State, StateOver
<1>8. i \notin Known(t) => Registered(t, i, w)
  <2>1. /\ w.queued = u.queued /\ w.pending = u.pending /\ w.active = u.active
        /\ w.completed = u.completed /\ w.graph = Put(u.graph, i, node)
    BY <1>5 DEF State, StateOver
  <2>2. DOMAIN Put(u.graph, i, node) = DOMAIN u.graph \cup {i}
    BY DEF Put
  <2> HIDE DEF w
  <2> QED
    BY <1>6, <2>1, <2>2 DEF Registered
<1> HIDE DEF w
<1>9. HandleSpawn(t, i, r0) =
        IF i \in Known(t) THEN t
        ELSE IF \/ nested /\ t.active[p].cancelled
                \/ r.run = None /\ r.parent \in t.blocked
                \/ nested /\ p \notin DOMAIN t.graph
        THEN RejectSpawn(t, i) ELSE AdmitSpawn(w, i, r)
  BY DEF HandleSpawn, u, w, node, r
<1> QED
  BY <1>1, <1>3, <1>4, <1>7, <1>8, <1>9

LEMMA HandleSpawnType ==
    ASSUME NEW t \in State, NEW i \in Ids, NEW r0 \in Request
    PROVE  HandleSpawn(t, i, r0) \in State
<1>1. RejectSpawn(t, i) \in State
  BY CallerType DEF RejectSpawn, CallerView
<1> QED
  BY <1>1, HandleSpawnFacts, AdmitSpawnType

-----------------------------------------------------------------------------
(* Cancelling *)

LEMMA CancelLiveType ==
    ASSUME NEW t \in State, NEW K, NEW kill \in BOOLEAN, NEW mute \in BOOLEAN
    PROVE  CancelLive(t, K, kill, mute) \in State /\ CancelLive(t, K, kill, mute).queued = t.queued
<1> DEFINE hit(c) == [c EXCEPT !.cancelled = TRUE, !.withdrawn = TRUE,
                               !.killed = c.killed \/ kill,
                               !.req.surface = c.req.surface /\ ~mute]
           p == [i \in DOMAIN t.pending |-> IF i \in K THEN hit(t.pending[i]) ELSE t.pending[i]]
           a == [i \in DOMAIN t.active |-> IF i \in K THEN hit(t.active[i]) ELSE t.active[i]]
           m == {x \in t.parked : x[1] \notin K \cap DOMAIN t.pending}
<1>1. ASSUME NEW c \in Child
      PROVE  hit(c) \in Child
  <2> DEFINE r == [c.req EXCEPT !.surface = c.req.surface /\ ~mute]
  <2>1. c.req \in Request
    BY DEF Child
  <2>2. r \in Request
    BY <2>1 DEF Request
  <2>3. hit(c) = [c EXCEPT !.cancelled = TRUE, !.withdrawn = TRUE,
                           !.killed = c.killed \/ kill, !.req = r]
    OBVIOUS
  <2> HIDE DEF r
  <2> QED
    BY <2>2, <2>3 DEF Child
<1>2. p \in [DOMAIN t.pending -> Child] /\ a \in [DOMAIN t.active -> Child]
  <2> HIDE DEF hit
  <2> QED
    BY <1>1, StateFields, MapElement
<1>3. CancelLive(t, K, kill, mute) = [t EXCEPT !.pending = p, !.active = a, !.parked = m]
  BY DEF CancelLive
<1>4. m \in SUBSET (Ids \X BOOLEAN)
  BY StateFields
<1> HIDE DEF p, a, m
<1>5. p \in MapOf(Child) /\ a \in MapOf(Child)
  BY <1>2, DomainFacts, RewriteType
<1> QED
  BY <1>3, <1>4, <1>5 DEF State, StateOver

LEMMA CancelOneType ==
    ASSUME NEW t \in State, NEW i \in Ids
    PROVE  CancelOne(t, i) \in State
BY CancelLiveType, RemoveQueuedType DEF CancelOne

LEMMA CancelParentPromptType ==
    ASSUME NEW t \in State, NEW s, NEW p
    PROVE  CancelParentPrompt(t, s, p) \in State
<1> DEFINE K == {i \in LiveOf(t, s) : ChildOf(t, i).req.prompt = p}
           u == CancelLive(t, K, FALSE, FALSE)
           R == {i \in QueuedOf(t, s) : t.queued[i].req.prompt = p}
<1>1. u \in State /\ u.queued = t.queued
  BY CancelLiveType
<1>2. R \in SUBSET DOMAIN u.queued
  BY <1>1 DEF QueuedOf
<1>3. CancelParentPrompt(t, s, p) = RemoveQueued(u, R)
  BY DEF CancelParentPrompt
<1> HIDE DEF u, R
<1> QED
  BY <1>1, <1>2, <1>3, RemoveQueuedType

LEMMA CancelParentSessionType ==
    ASSUME NEW t \in State, NEW s \in Parents
    PROVE  CancelParentSession(t, s) \in State
<1> DEFINE t0 == [t EXCEPT !.blocked = t.blocked \cup {s}]
           K == {i \in LiveOf(t, s) : ChildOf(t, i).req.run = None}
           u == CancelLive(t0, K, FALSE, FALSE)
           R == {i \in QueuedOf(u, s) : u.queued[i].req.run = None}
           v == RemoveQueued(u, R)
<1>1. t0 \in State
  BY DEF State, StateOver
<1>2. u \in State
  <2> HIDE DEF t0, K
  <2> QED
    BY <1>1, CancelLiveType
<1>3. R \in SUBSET DOMAIN u.queued
  BY DEF QueuedOf
<1>4. CancelParentSession(t, s) = [v EXCEPT !.wakes = v.wakes \ CompletedOf(v, s)]
  BY DEF CancelParentSession
<1> HIDE DEF u, R
<1>5. v \in State
  BY <1>2, <1>3, RemoveQueuedType
<1> HIDE DEF v
<1> QED
  BY <1>4, <1>5 DEF State, StateOver

LEMMA CancelRunType ==
    ASSUME NEW t \in State, NEW run \in Runs, NEW s
    PROVE  CancelRun(t, run, s) \in State
<1> DEFINE K == {i \in RunOutstanding(t, run) : s \in {None, ChildOf(t, i).req.parent}}
           hit(c) == [c EXCEPT !.cancelled = TRUE]
           p == [i \in DOMAIN t.pending |-> IF i \in K THEN hit(t.pending[i]) ELSE t.pending[i]]
           a == [i \in DOMAIN t.active |-> IF i \in K THEN hit(t.active[i]) ELSE t.active[i]]
           m == {x \in t.parked : x[1] \notin K \cap DOMAIN t.pending}
           u == [t EXCEPT !.pending = p, !.active = a, !.parked = m]
<1>1. \A c \in Child : hit(c) \in Child
  BY DEF Child
<1>2. p \in [DOMAIN t.pending -> Child] /\ a \in [DOMAIN t.active -> Child]
  <2> HIDE DEF hit, K
  <2> QED
    BY <1>1, StateFields, MapElement
<1>3. CancelRun(t, run, s) = IF RunOutstanding(t, run) = {} THEN u
                             ELSE [u EXCEPT !.runWaiters = u.runWaiters \cup {run}]
  BY DEF CancelRun
<1>4. m \in SUBSET (Ids \X BOOLEAN)
  BY StateFields
<1> HIDE DEF p, a, m
<1>5. p \in MapOf(Child) /\ a \in MapOf(Child)
  BY <1>2, DomainFacts, RewriteType
<1>6. u \in State
  BY <1>4, <1>5 DEF State, StateOver
<1>7. [u EXCEPT !.runWaiters = u.runWaiters \cup {run}] \in State
  BY <1>6 DEF State, StateOver
<1> QED
  BY <1>3, <1>6, <1>7

LEMMA SilencedType ==
    ASSUME NEW t \in State, NEW s
    PROVE  Silenced(t, s) \in State /\ DOMAIN Silenced(t, s).queued = DOMAIN t.queued
<1> DEFINE t0 == [t EXCEPT !.buffer = {b \in t.buffer : b[1] # s},
                           !.wakes = t.wakes \ CompletedOf(t, s)]
           u == CancelLive(t0, LiveOf(t, s), FALSE, TRUE)
           q == [i \in DOMAIN u.queued |->
                   IF i \in QueuedOf(t, s) THEN [u.queued[i] EXCEPT !.req.surface = FALSE]
                   ELSE u.queued[i]]
           v == [u EXCEPT !.queued = q]
<1>1. t0 \in State /\ t0.queued = t.queued
  BY DEF State, StateOver
<1>2. u \in State /\ u.queued = t.queued
  <2> HIDE DEF t0
  <2> QED
    BY <1>1, CancelLiveType
<1> HIDE DEF u
<1>3. q \in [DOMAIN u.queued -> QueuedSpawn]
  <2>1. \A i \in DOMAIN u.queued : u.queued[i] \in QueuedSpawn
    BY <1>2, StateFields, MapElement
  <2> QED
    BY <2>1 DEF QueuedSpawn, Request
<1>4. DOMAIN q = DOMAIN t.queued
  BY <1>2
<1>5. Silenced(t, s) = v
  BY DEF Silenced, u
<1> HIDE DEF q
<1>6. q \in MapOf(QueuedSpawn)
  BY <1>2, <1>3, DomainFacts, RewriteType
<1>7. v \in State /\ v.queued = q
  BY <1>2, <1>6 DEF State, StateOver
<1> QED
  BY <1>4, <1>5, <1>7

LEMMA TeardownType ==
    ASSUME NEW t \in State, NEW s \in Parents, NEW responder \in BOOLEAN
    PROVE  Teardown(t, s, responder) \in State
<1> DEFINE w == RemoveQueued(Silenced(t, s), QueuedOf(t, s))
<1>1. Teardown(t, s, responder) =
        IF responder /\ SessionHasChildren(w, s)
        THEN [w EXCEPT !.drains = w.drains \cup {s}, !.blocked = w.blocked \cup {s}] ELSE w
  BY DEF Teardown
<1>2. w \in State
  BY SilencedType, RemoveQueuedType DEF QueuedOf
<1> HIDE DEF w
<1>3. [w EXCEPT !.drains = w.drains \cup {s}, !.blocked = w.blocked \cup {s}] \in State
  BY <1>2 DEF State, StateOver
<1> QED
  BY <1>1, <1>2, <1>3

-----------------------------------------------------------------------------
(* Messages and wakes *)

LEMMA ParkedType ==
    ASSUME NEW t \in State, NEW i \in Ids, NEW x \in BOOLEAN
    PROVE  t.parked \cup {<<i, x>>} \in SUBSET (Ids \X BOOLEAN)
BY StateFields

LEMMA WakeType ==
    ASSUME NEW t \in State, NEW i \in DOMAIN t.completed
    PROVE  Wake(t, i) \in State
<1> DEFINE d == t.completed[i]
           r == WakeRequest(d.req)
           m == t.parked \cup {<<i, FALSE>>}
           u == [t EXCEPT !.completed = Drop(t.completed, {i}), !.parked = m]
           q == [req |-> r, ticket |-> NextTicket(t), cancelled |-> FALSE,
                 awaiting |-> FALSE, timed |-> FALSE, wake |-> d]
<1>1. i \in Ids /\ d \in CompletedChild
  BY StateFields, MapElement
<1>2. r \in Request
  <2>1. d.req \in Request
    BY <1>1 DEF CompletedChild
  <2> QED
    BY <2>1 DEF WakeRequest, Request
<1>3. u \in State
  <2>1. Drop(t.completed, {i}) \in MapOf(CompletedChild)
    BY StateFields, DropType
  <2>2. m \in SUBSET (Ids \X BOOLEAN)
    BY <1>1, ParkedType
  <2> HIDE DEF m
  <2> QED
    BY <2>1, <2>2 DEF State, StateOver
<1>4. [t EXCEPT !.wakes = t.wakes \cup {i}] \in State
  BY <1>1 DEF State, StateOver
<1> HIDE DEF u, r, d
<1>5. StartChild(u, i, r, FALSE, d) \in State
  BY <1>1, <1>2, <1>3, StartChildType
<1>6. [u EXCEPT !.queued = Put(u.queued, i, q)] \in State
  <2>1. q \in QueuedSpawn
    BY <1>1, <1>2, NextTicketFacts DEF QueuedSpawn
  <2> HIDE DEF q
  <2> QED
    BY <1>1, <1>3, <2>1, EnqueueType
<1> HIDE DEF q
<1> QED
  BY <1>4, <1>5, <1>6 DEF Wake, u, r, d, q

LEMMA AdmitMessageType ==
    ASSUME NEW t \in State, NEW i \in DOMAIN t.active
    PROVE  AdmitMessage(t, i) \in State
<1> DEFINE c == [t.active[i] EXCEPT !.inFlight = t.active[i].inFlight + 1]
           u == [t EXCEPT !.active[i].inFlight = t.active[i].inFlight + 1]
<1>1. c \in Child
  <2>1. t.active[i] \in Child
    BY StateFields, MapElement
  <2> QED
    BY <2>1 DEF Child
<1>2. u = [t EXCEPT !.active[i] = c]
  BY DEF State, StateOver
<1>3. u \in State
  <2> HIDE DEF u, c
  <2> QED
    BY <1>1, <1>2, ActiveUpdateType
<1>4. AdmitMessage(t, i) \in {t, u}
  BY DEF AdmitMessage
<1> QED
  BY <1>3, <1>4

LEMMA SendMessageType ==
    ASSUME NEW t \in State, NEW i \in Ids
    PROVE  SendMessage(t, i) \in State
<1> DEFINE m == t.parked \cup {<<i, TRUE>>}
<1>1. [t EXCEPT !.parked = m] \in State
  <2>1. m \in SUBSET (Ids \X BOOLEAN)
    BY ParkedType
  <2> HIDE DEF m
  <2> QED
    BY <2>1 DEF State, StateOver
<1> QED
  BY <1>1, AdmitMessageType, WakeType DEF SendMessage

LEMMA AdmitParkedType ==
    ASSUME NEW t \in State, NEW i \in DOMAIN t.active
    PROVE  AdmitParked(t, i) \in State
<1> DEFINE u == [t EXCEPT !.parked = {m \in t.parked : m[1] # i}]
<1>1. u \in State /\ u.active = t.active
  BY DEF State, StateOver
<1>2. AdmitParked(t, i) = IF <<i, TRUE>> \in t.parked THEN AdmitMessage(u, i) ELSE u
  BY DEF AdmitParked
<1> HIDE DEF u
<1> QED
  BY <1>1, <1>2, AdmitMessageType
=============================================================================
