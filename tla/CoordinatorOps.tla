--------------------------- MODULE CoordinatorOps ---------------------------
(***************************************************************************)
(* The coordinator's internal calls as functions from one coordinator      *)
(* record to the next: start_child, finish_child, the queue sweep, the     *)
(* cancel paths, wake admission and displacement, caller reaping.  Loops   *)
(* over the queue are written in closed form: entry i of the loop sees the *)
(* entries with a smaller ticket already handled.                          *)
(***************************************************************************)
EXTENDS CoordinatorState

-----------------------------------------------------------------------------
(* Starting *)

NewChild(r, cancelled, reply, timed, wakeOf) ==
    [req |-> r, cancelled |-> cancelled, reply |-> reply, timed |-> timed,
     handleOnly |-> r.bg \/ ~reply, killed |-> FALSE, withdrawn |-> FALSE,
     wakeOf |-> wakeOf, defBg |-> FALSE,
     phase |-> "Open", inFlight |-> 0, clean |-> TRUE]

AwaitsInForeground(r) == ~r.bg /\ ~r.toCompletion

\* start_child from a direct admission: the await budget starts now.
StartChild(t, i, r, reply, wakeOf) ==
    [t EXCEPT !.pending =
        Put(@, i, NewChild(r, FALSE, reply, reply /\ AwaitsInForeground(r), wakeOf))]

\* Entries the sweep starts: not cancelled, and a slot is left once the
\* session's earlier entries took theirs.
StartableIgnoringEarlier(t) ==
    {i \in DOMAIN t.queued : ~t.queued[i].cancelled /\ HasCapacity(t, t.queued[i].req.parent)}

StartableLastFirst(t) ==
    {i \in StartableIgnoringEarlier(t) :
        \A j \in StartableIgnoringEarlier(t) : t.queued[j].ticket <= t.queued[i].ticket}

Startable(t) ==
    LET live == {i \in DOMAIN t.queued : ~t.queued[i].cancelled}
        ahead(i) == {j \in live : /\ t.queued[j].req.parent = t.queued[i].req.parent
                                  /\ t.queued[j].ticket < t.queued[i].ticket}
    IN  {i \in live : Cardinality(Running(t, t.queued[i].req.parent))
                        + Cardinality(ahead(i)) < Limit}

\* The dequeued child keeps the deadline that ran since it was queued.
StartQueuedUntimed(t) ==
    LET S == Startable(t)
    IN  [t EXCEPT
            !.queued = Drop(@, S),
            !.pending = Merge(@, [i \in S |->
                LET q == t.queued[i]
                IN  NewChild(q.req, q.cancelled, q.awaiting, FALSE, q.wake)])]

StartQueued(t) ==
    LET S == Startable(t)
    IN  [t EXCEPT
            !.queued = Drop(@, S),
            !.pending = Merge(@, [i \in S |->
                LET q == t.queued[i]
                IN  NewChild(q.req, q.cancelled, q.awaiting, q.timed, q.wake)])]

-----------------------------------------------------------------------------
(* Finishing *)

ReopenOnly(t, S) == [t EXCEPT !.blocked = @ \ S]

ClearTeardownDrain(t, S) ==
    [t EXCEPT !.drains = @ \ S, !.blocked = @ \ S]

DrainsLeftToBackstop(t, S) == t

\* Drains of the given sessions whose last child is gone.
ResolveTeardownDrains(t, S) ==
    ClearTeardownDrain(t, {s \in S \cap t.drains : ~SessionHasChildren(t, s)})

RunWaitersForgotten(t, R) == t

ResolveRunWaiters(t, R) ==
    [t EXCEPT !.runWaiters = @ \ {r \in R : RunOutstanding(t, r) = {}}]

\* restore_displaced_completion: a record the completed cap would have
\* evicted meanwhile is dropped instead.  base is next_completion_age.
Expired(d, base) == d.age + MaxCompleted < base

\* should_surface: the host announces the completion unless somebody has the
\* result in hand already or the child was put down on purpose.
SurfacesToWaiter(t, i, c, out) == c.req.surface /\ ~out.cancelled /\ ~c.killed

SurfacesOnlyBackgrounded(t, i, c, out) ==
    c.req.surface /\ c.handleOnly /\ ~out.cancelled /\ t.waiters[i] # "open" /\ ~c.killed

Surfaces(t, i, c, out) ==
    LET heard == c.reply /\ t.callers[i] = "waiting"
    IN  /\ c.req.surface /\ (c.handleOnly \/ ~heard)
        /\ ~out.cancelled /\ t.waiters[i] # "open" /\ ~c.killed

\* The terminal record of child c, given its output and completion age.
Terminal(t, i, c, out, age) ==
    [req |-> c.req, age |-> age, published |-> FALSE,
     wakeEligible |-> ~c.killed /\ ~c.cancelled /\ ~out.cancelled,
     success |-> out.success, cancelled |-> out.cancelled,
     surfaced |-> Surfaces(t, i, c, out)]

\* The common tail of finish_child for the children in DOMAIN rec, which have
\* already left the live maps: file the terminal records, answer waiters and
\* spawn callers, buffer the completions, forget what was buffered for them.
\* rank orders them; every one of them takes the next completion age.
Conclude(t, rec, out, rank) ==
    LET C == DOMAIN rec
        told(i) == {<<p, i>> : p \in CompletionTarget(t, i, rec[i].req)}
    IN  [t EXCEPT
            !.completed = Merge(@, [i \in C |->
                             Terminal(t, i, rec[i], out, t.nextAge + rank[i])]),
            !.nextAge = @ + Cardinality(C),
            !.parked = {m \in @ : m[1] \notin C},
            !.waiters = [i \in Ids |-> IF i \in C THEN "none" ELSE @[i]],
            !.callers = [i \in Ids |-> IF i \in C /\ rec[i].reply /\ @[i] = "waiting"
                                       THEN "result" ELSE @[i]],
            !.buffer = {b \in @ \cup UNION {told(i) : i \in C} : b[1] \notin C}]

\* finish_cancelled_queued for each entry of R, in queue order: a withdrawn
\* wake gives its prior record back, anything else ends as a cancelled child
\* that never started.
FinishCancelledQueued(t, R) ==
    LET W == {i \in R : t.queued[i].wake # None}
        N == R \ W
        rank == [i \in R |-> Cardinality({j \in N : t.queued[j].ticket < t.queued[i].ticket})]
        kept == {i \in W : ~Expired(t.queued[i].wake, t.nextAge + rank[i])}
        rec == [i \in N |->
                  [NewChild(t.queued[i].req, TRUE, t.queued[i].awaiting, FALSE, None)
                     EXCEPT !.handleOnly = t.queued[i].req.bg]]
        u == Conclude([t EXCEPT !.queued = Drop(@, R)], rec,
                      [success |-> FALSE, cancelled |-> TRUE], rank)
        v == [u EXCEPT
                !.completed = Merge(@, [i \in kept |->
                                [t.queued[i].wake EXCEPT !.wakeEligible = FALSE]]),
                !.graph = Drop(@, W \ kept),
                !.waiters = [i \in Ids |-> IF i \in W THEN "none" ELSE @[i]]]
    IN  ResolveTeardownDrains(v, {t.queued[i].req.parent : i \in N})

\* start_queued_within_capacity
Sweep(t) ==
    LET u == StartQueued(t)
    IN  FinishCancelledQueued(u, {i \in DOMAIN u.queued : u.queued[i].cancelled})

\* remove_queued; only an entry that ends through finish_child runs the sweep.
RemoveQueued(t, R) ==
    LET u == FinishCancelledQueued([t EXCEPT !.parked = {m \in @ : m[1] \notin R}], R)
    IN  IF \E i \in R : t.queued[i].wake = None THEN Sweep(u) ELSE u

RestoreLeavesNode(t, i, d) ==
    [t EXCEPT !.completed = IF Expired(d, t.nextAge) THEN @ ELSE Put(@, i, d),
              !.waiters[i] = "none"]

RestoreTooStrict(t, i, d) ==
    LET gone == d.age + MaxCompleted <= t.nextAge
    IN  [t EXCEPT !.completed = IF gone THEN @ ELSE Put(@, i, d),
                  !.graph = IF gone THEN Drop(@, {i}) ELSE @,
                  !.waiters[i] = "none"]

\* restore_displaced_completion
Restore(t, i, d) ==
    LET gone == Expired(d, t.nextAge)
    IN  [t EXCEPT !.completed = IF gone THEN @ ELSE Put(@, i, d),
                  !.graph = IF gone THEN Drop(@, {i}) ELSE @,
                  !.waiters[i] = "none"]

FinishWithoutSweep(t, i, out) ==
    Conclude([t EXCEPT !.pending = Drop(@, {i}), !.active = Drop(@, {i}),
                       !.outputs = Drop(@, {i})],
             [j \in {i} |-> ChildOf(t, i)], out, [j \in {i} |-> 0])

\* finish_child.  A wake that failed before its start was settled gives the
\* displaced record back; every other child becomes a terminal record.
FinishChild(t, i, out) ==
    LET c == ChildOf(t, i)
        u == [t EXCEPT !.pending = Drop(@, {i}), !.active = Drop(@, {i}),
                       !.outputs = Drop(@, {i}),
                       !.parked = {m \in @ : m[1] # i}]
        restored ==
            Restore(u, i, [c.wakeOf EXCEPT !.wakeEligible = @ /\ ~c.killed /\ ~c.withdrawn])
        concluded ==
            ResolveRunWaiters(Conclude(u, [j \in {i} |-> c], out, [j \in {i} |-> 0]),
                              {c.req.run} \ {None})
    IN  Sweep(ResolveTeardownDrains(
                 IF c.wakeOf # None /\ ~out.success THEN restored ELSE concluded,
                 {c.req.parent}))

\* finish_terminalized_child: an admission that could not be proven settled
\* turns the result into a cancelled failure.
FinishTerminalized(t, i, out) ==
    IF t.active[i].clean THEN FinishChild(t, i, out)
    ELSE FinishChild([t EXCEPT !.active[i].cancelled = TRUE], i,
                     [success |-> FALSE, cancelled |-> TRUE])

AlwaysWithheld(t, i, out) ==
    IF i \notin DOMAIN t.active THEN FinishChild(t, i, out)
    ELSE [t EXCEPT !.active[i].phase = "Finalizing", !.outputs = Put(@, i, out)]

\* begin_terminalization: the output waits for the in-flight admissions.
BeginTerminalization(t, i, out) ==
    IF i \notin DOMAIN t.active THEN FinishChild(t, i, out)
    ELSE LET u == [t EXCEPT !.active[i].phase = "Finalizing"]
         IN  IF t.active[i].inFlight = 0 THEN FinishTerminalized(u, i, out)
             ELSE [u EXCEPT !.outputs = Put(@, i, out)]

-----------------------------------------------------------------------------
(* Callers and turns *)

\* reap_abandoned_callers: a workflow child loses its caller and is
\* cancelled, a task child goes to the background, a queued one too; then
\* the entries whose token was cancelled leave the queue.
Reaped(t, i, c) ==
    IF c.handleOnly \/ ~c.reply \/ t.callers[i] # "gone" THEN c
    ELSE IF c.req.run # None THEN [c EXCEPT !.reply = FALSE, !.cancelled = TRUE]
    ELSE [c EXCEPT !.reply = FALSE, !.handleOnly = TRUE, !.timed = FALSE]

WithoutGoneCallers(t) ==
    [t EXCEPT
        !.pending = [i \in DOMAIN @ |-> Reaped(t, i, @[i])],
        !.active = [i \in DOMAIN @ |-> Reaped(t, i, @[i])],
        !.queued = [i \in DOMAIN @ |->
                      IF @[i].awaiting /\ t.callers[i] = "gone"
                      THEN [@[i] EXCEPT !.awaiting = FALSE, !.timed = FALSE] ELSE @[i]]]

Reap(t) ==
    LET u == WithoutGoneCallers(t)
    IN  RemoveQueued(u, {i \in DOMAIN u.queued : u.queued[i].cancelled})

\* Take the reply of every child and entry of H and hand it to the background.
HandOffUnanswered(t, H, view) ==
    LET taken(c) == [c EXCEPT !.reply = FALSE, !.handleOnly = TRUE, !.timed = FALSE]
    IN  [t EXCEPT
            !.pending = [i \in DOMAIN @ |-> IF i \in H THEN taken(@[i]) ELSE @[i]],
            !.active = [i \in DOMAIN @ |-> IF i \in H THEN taken(@[i]) ELSE @[i]]]

HandOff(t, H, view) ==
    LET taken(c) == [c EXCEPT !.reply = FALSE, !.handleOnly = TRUE, !.timed = FALSE]
        off == [i \in Ids |-> i \in H]
    IN  [t EXCEPT
            !.pending = [i \in DOMAIN @ |-> IF off[i] THEN taken(@[i]) ELSE @[i]],
            !.active = [i \in DOMAIN @ |-> IF off[i] THEN taken(@[i]) ELSE @[i]],
            !.queued = [i \in DOMAIN @ |->
                          IF off[i] THEN [@[i] EXCEPT !.awaiting = FALSE, !.timed = FALSE]
                          ELSE @[i]],
            !.callers = [i \in Ids |-> IF off[i] /\ @[i] = "waiting" THEN view ELSE @[i]]]

\* resolve_drain_waiters and evict_completed_overflow, after every event.
Oldest(t) == {i \in DOMAIN t.completed :
                Cardinality({j \in DOMAIN t.completed :
                                t.completed[j].age > t.completed[i].age}) >= MaxCompleted}

TailWithoutDrainWaiters(t) ==
    [t EXCEPT !.completed = Drop(@, Oldest(t)), !.wakes = @ \ Oldest(t),
              !.graph = Drop(@, Oldest(t))]

LoopTail(t) ==
    LET old == Oldest(t)
    IN  [t EXCEPT !.drainWaiters = {w \in @ : TurnBlocking(t, w) # {}},
                  !.completed = Drop(@, old), !.wakes = @ \ old,
                  !.graph = Drop(@, old)]

-----------------------------------------------------------------------------
(* Spawning *)

\* rejected_spawn_result and friends: the caller is answered, nothing else.
RejectSpawn(t, i) == [t EXCEPT !.callers[i] = "result"]

\* push_back: behind every entry.
NextTicket(t) ==
    LET used == {t.queued[i].ticket : i \in DOMAIN t.queued}
    IN  CHOOSE n \in {0} \cup {k + 1 : k \in used} : \A k \in used : k < n

\* The admit decision of handle_spawn, once the graph node is in place.
AdmitSpawn(t, i, r) ==
    CASE Admit(t, r) = "Start" -> StartChild(t, i, r, TRUE, None)
      [] Admit(t, r) = "Enqueue" ->
            [t EXCEPT !.queued =
                Put(@, i, [req |-> r, ticket |-> NextTicket(t), cancelled |-> FALSE,
                           awaiting |-> TRUE, timed |-> AwaitsInForeground(r),
                           wake |-> None])]
      [] OTHER ->
            FinishChild([t EXCEPT !.pending =
                            Put(@, i, [NewChild(r, FALSE, TRUE, FALSE, None)
                                         EXCEPT !.handleOnly = r.bg])],
                        i, [success |-> FALSE, cancelled |-> FALSE])

\* reparent_nested_spawn: a nested child is keyed to the root session, its
\* wish to surface moves to its graph node, workflow ownership is inherited.
Reparented(r, spawner) ==
    [r EXCEPT !.parent = spawner.req.parent, !.surface = FALSE,
              !.run = IF @ = None THEN spawner.req.run ELSE @]

\* SpawnGraph::insert_nested, keyed to the root session.
NodeUnderSpawner(t, p, root, surface) ==
    [root |-> p, chain |-> t.graph[p].chain \cup {p}, spawner |-> p, surface |-> surface]

NestedNode(t, p, root, surface) ==
    [root |-> root, chain |-> t.graph[p].chain \cup {p}, spawner |-> p, surface |-> surface]

RootNode(root) == [root |-> root, chain |-> {}, spawner |-> None, surface |-> FALSE]

\* handle_spawn.  A duplicate id, a closed session and a cancelled spawner are
\* refused before the graph learns of the child.
HandleSpawn(t, i, r0) ==
    LET p == r0.parent
        nested == p \in DOMAIN t.active
        r == IF nested THEN Reparented(r0, t.active[p]) ELSE r0
        node == IF nested THEN NestedNode(t, p, r.parent, r0.surface) ELSE RootNode(p)
        u == [t EXCEPT !.callers[i] = "waiting"]
    IN  IF i \in Known(t) THEN t
        ELSE IF \/ nested /\ t.active[p].cancelled
                \/ r.run = None /\ r.parent \in t.blocked
                \/ nested /\ p \notin DOMAIN t.graph
        THEN RejectSpawn(t, i)
        ELSE AdmitSpawn([u EXCEPT !.graph = Put(@, i, node)], i, r)

-----------------------------------------------------------------------------
(* Cancelling *)

\* Cancel the live children of C on behalf of their user or owner.  A
\* pending child's parked messages are rejected at once.
CancelLiveUnmuted(t, C, kill, mute) ==
    LET hit(c) == [c EXCEPT !.cancelled = TRUE, !.withdrawn = TRUE]
    IN  [t EXCEPT
            !.pending = [i \in DOMAIN @ |-> IF i \in C THEN hit(@[i]) ELSE @[i]],
            !.active = [i \in DOMAIN @ |-> IF i \in C THEN hit(@[i]) ELSE @[i]]]

CancelLive(t, C, kill, mute) ==
    LET hit(c) == [c EXCEPT !.cancelled = TRUE, !.withdrawn = TRUE,
                            !.killed = @ \/ kill, !.req.surface = @ /\ ~mute]
    IN  [t EXCEPT
            !.pending = [i \in DOMAIN @ |-> IF i \in C THEN hit(@[i]) ELSE @[i]],
            !.active = [i \in DOMAIN @ |-> IF i \in C THEN hit(@[i]) ELSE @[i]],
            !.parked = {m \in @ : m[1] \notin C \cap DOMAIN t.pending}]

LiveOf(t, s) == {i \in Live(t) : ChildOf(t, i).req.parent = s}

QueuedOf(t, s) == {i \in DOMAIN t.queued : t.queued[i].req.parent = s}

CompletedOf(t, s) == {i \in DOMAIN t.completed : t.completed[i].req.parent = s}

CancelOne(t, i) ==
    IF i \in Live(t) THEN CancelLive(t, {i}, TRUE, FALSE)
    ELSE IF i \in DOMAIN t.queued THEN RemoveQueued(t, {i}) ELSE t

CancelParentPrompt(t, s, p) ==
    RemoveQueued(CancelLive(t, {i \in LiveOf(t, s) : ChildOf(t, i).req.prompt = p},
                            FALSE, FALSE),
                 {i \in QueuedOf(t, s) : t.queued[i].req.prompt = p})

StopKeepsQueue(t, s) ==
    CancelLive([t EXCEPT !.blocked = @ \cup {s}], LiveOf(t, s), FALSE, FALSE)

\* User Stop: close admission, cancel the task children, empty the queue.
CancelParentSession(t, s) ==
    LET u == CancelLive([t EXCEPT !.blocked = @ \cup {s}],
                        {i \in LiveOf(t, s) : ChildOf(t, i).req.run = None}, FALSE, FALSE)
        v == RemoveQueued(u, {i \in QueuedOf(u, s) : u.queued[i].req.run = None})
    IN  [v EXCEPT !.wakes = @ \ CompletedOf(v, s)]

\* A workflow cancel touches the tokens of the run's children (in session s, if
\* given) and waits for all the children of the run.
CancelRun(t, run, s) ==
    LET C == {i \in RunOutstanding(t, run) : s \in {None, ChildOf(t, i).req.parent}}
        hit(c) == [c EXCEPT !.cancelled = TRUE]
        u == [t EXCEPT
                !.pending = [i \in DOMAIN @ |-> IF i \in C THEN hit(@[i]) ELSE @[i]],
                !.active = [i \in DOMAIN @ |-> IF i \in C THEN hit(@[i]) ELSE @[i]],
                !.parked = {m \in @ : m[1] \notin C \cap DOMAIN t.pending}]
    IN  IF RunOutstanding(t, run) = {} THEN u ELSE [u EXCEPT !.runWaiters = @ \cup {run}]

\* Session teardown.  Children are cancelled without a word, live and queued
\* alike.  Only a responder (the delete path) holds admission closed until the
\* children are gone.
Silenced(t, s) ==
    LET u == CancelLive([t EXCEPT !.buffer = {b \in @ : b[1] # s},
                                  !.wakes = @ \ CompletedOf(t, s)],
                        LiveOf(t, s), FALSE, TRUE)
    IN  [u EXCEPT !.queued = [i \in DOMAIN @ |->
                                IF i \in QueuedOf(t, s) THEN [@[i] EXCEPT !.req.surface = FALSE]
                                ELSE @[i]]]

Teardown(t, s, responder) ==
    LET w == RemoveQueued(Silenced(t, s), QueuedOf(t, s))
    IN  IF responder /\ SessionHasChildren(w, s)
        THEN [w EXCEPT !.drains = @ \cup {s}, !.blocked = @ \cup {s}]
        ELSE w

-----------------------------------------------------------------------------
(* Messages and wakes *)

WakeRequest(r) ==
    [r EXCEPT !.bg = TRUE, !.surface = FALSE, !.toCompletion = FALSE, !.prompt = None]

WakeKeepsRecord(t, i) ==
    IF ~t.completed[i].published \/ ~HasCapacity(t, t.completed[i].req.parent) THEN t
    ELSE StartChild(t, i, WakeRequest(t.completed[i].req), FALSE, t.completed[i])

\* wake_completed_child.  The parked wake message has no deadline.
Wake(t, i) ==
    LET d == t.completed[i]
        r == WakeRequest(d.req)
        u == [t EXCEPT !.completed = Drop(@, {i}), !.parked = @ \cup {<<i, FALSE>>}]
    IN  IF ~d.published THEN [t EXCEPT !.wakes = @ \cup {i}]
        ELSE IF r.parent \in t.blocked \/ r.run # None THEN t
        ELSE CASE Admit(t, r) = "Start" -> StartChild(u, i, r, FALSE, d)
               [] Admit(t, r) = "Enqueue" ->
                    [u EXCEPT !.queued =
                        Put(@, i, [req |-> r, ticket |-> NextTicket(t), cancelled |-> FALSE,
                                   awaiting |-> FALSE, timed |-> FALSE, wake |-> d])]
               [] OTHER -> t

\* admit_active_message
AdmitMessage(t, i) ==
    LET c == t.active[i]
    IN  IF c.req.run # None \/ c.cancelled \/ c.phase = "Finalizing"
           \/ c.inFlight >= MaxInFlight
        THEN t ELSE [t EXCEPT !.active[i].inFlight = @ + 1]

\* An authorised message for child i: admitted to an active child, parked
\* (with a deadline) on a starting one, a wake for a completed one.
SendMessage(t, i) ==
    IF i \in DOMAIN t.active THEN AdmitMessage(t, i)
    ELSE IF i \in DOMAIN t.pending \cup DOMAIN t.queued
    THEN LET c == IF i \in DOMAIN t.pending THEN t.pending[i] ELSE t.queued[i]
         IN  IF c.req.run # None \/ c.cancelled THEN t
             ELSE [t EXCEPT !.parked = @ \cup {<<i, TRUE>>}]
    ELSE IF i \in DOMAIN t.completed /\ t.completed[i].req.run = None THEN Wake(t, i)
    ELSE t

AdmitParkedKeepsWake(t, i) ==
    IF <<i, TRUE>> \in t.parked
    THEN AdmitMessage([t EXCEPT !.parked = @ \ {<<i, TRUE>>}], i) ELSE t

\* admit_spawn_ready_messages: the wake's own message is acknowledged, the
\* others go through the active path.
AdmitParked(t, i) ==
    LET u == [t EXCEPT !.parked = {m \in @ : m[1] # i}]
    IN  IF <<i, TRUE>> \in t.parked THEN AdmitMessage(u, i) ELSE u
=============================================================================
