---------------------------- MODULE Coordinator -----------------------------
(***************************************************************************)
(* The subagent coordinator actor: one action per event its select! loop   *)
(* takes (a command, an internal event of a child's runner, a finished     *)
(* run, a settled message admission, a terminal publication, a deadline),  *)
(* and the environment's own steps: callers that drop their receivers,     *)
(* tokens cancelled from outside, the host publishing a terminal record.   *)
(***************************************************************************)
EXTENDS CoordinatorOps

CONSTANTS
    Requests,   \* the spawn requests the environment sends
    Commands,   \* the kinds of event the environment uses
    MaxAge,     \* bound: no spawn or wake once this many children completed
    MaxTicket   \* bound: no spawn or wake once a queue ticket is this large

ASSUME RequestsTyped == Requests \subseteq Request
ASSUME BoundsAreNat == MaxAge \in Nat /\ MaxTicket \in Nat

VARIABLE co     \* the coordinator record of CoordinatorState

vars == <<co>>

Init == co = Fresh

\* Every event ends in the loop's tail; a command is preceded by the reaping
\* of abandoned callers.
Event(t) == co' = LoopTail(t)

Used(kind) == kind \in Commands

WithinBounds ==
    /\ co.nextAge < MaxAge
    /\ \A i \in DOMAIN co.queued : co.queued[i].ticket < MaxTicket

-----------------------------------------------------------------------------
(* Commands *)

Spawn(i, r) ==
    /\ WithinBounds
    /\ r.parent # i
    /\ co.callers[i] \notin {"waiting", "gone"} \/ i \in Known(co)
    /\ Event(HandleSpawn(Reap(co), i, r))

QueryTerminal(i) ==
    /\ Used("query")
    /\ i \in Known(co)
    /\ co' = [co EXCEPT !.waiters[i] = "open"]

\* A blocking query parks only on a live or queued task child.
Query(i) ==
    /\ Used("query")
    /\ LET t == Reap(co)
       IN  /\ i \in Live(t) \cup DOMAIN t.queued
           /\ RequestOf(t, i).run = None
           /\ Event([t EXCEPT !.waiters[i] = "open"])

Cancel(i, s) ==
    /\ Used("cancel")
    /\ Reachable(co, i, s)
    /\ Event(CancelOne(Reap(co), i))

CancelPrompt(s, p) ==
    /\ Used("cancelPrompt")
    /\ Event(CancelParentPrompt(Reap(co), s, p))

Stop(s) ==
    /\ Used("stop")
    /\ Event(CancelParentSession(Reap(co), s))

CancelWorkflow(run, s) ==
    /\ Used("workflow")
    /\ Event(CancelRun(Reap(co), run, s))

TeardownSession(s, responder) ==
    /\ Used("teardown")
    /\ Event(Teardown(Reap(co), s, responder))

\* The next turn reopens admission, except during a delete.
OpenSpawnAdmission(s) ==
    /\ Used("stop") \/ Used("teardown")
    /\ LET t == Reap(co)
       IN  Event([t EXCEPT !.blocked = IF s \in t.drains THEN @ ELSE @ \ {s}])

\* Completions drains the buffered summaries of a session, save the suppressed.
TakeCompletions(s, suppressed) ==
    /\ Used("completions")
    /\ LET t == Reap(co)
       IN  Event([t EXCEPT !.buffer = {b \in @ : b[1] # s \/ b[2] \in suppressed}])

WaitPromptDrained(scope) ==
    /\ Used("drain")
    /\ LET t == Reap(co)
       IN  /\ TurnBlocking(t, scope) # {}
           /\ Event([t EXCEPT !.drainWaiters = @ \cup {scope}])

\* The children whose tool call a hand-off reports.  A live one is taken to
\* the background only if its caller was still owed a reply.
HandedOff(t, scope) ==
    LET mine(r) == ~r.bg /\ InScope(r, scope)
    IN  {i \in Live(t) : mine(ChildOf(t, i).req) /\ ChildOf(t, i).reply}
        \cup {i \in DOMAIN t.queued : mine(t.queued[i].req)}

HandOffForeground(scope) ==
    /\ Used("handOff")
    /\ LET t == Reap(co)
       IN  Event(HandOff(t, HandedOff(t, scope), "released"))

-----------------------------------------------------------------------------
(* Messages *)

Send(i) ==
    /\ Used("message")
    /\ WithinBounds
    /\ Event(SendMessage(co, i))

SettlesTwice(i, settled) ==
    /\ Used("message")
    /\ i \in DOMAIN co.active
    /\ co' = [co EXCEPT !.active[i].inFlight = @ - 1]

\* A host admission future resolved; settled says whether its lease was.
MessageSettles(i, settled) ==
    /\ i \in DOMAIN co.active
    /\ co.active[i].inFlight > 0
    /\ LET t == [co EXCEPT !.active[i].inFlight = @ - 1,
                           !.active[i].clean = @ /\ settled]
       IN  Event(IF t.active[i].inFlight = 0 /\ i \in DOMAIN t.outputs
                 THEN FinishTerminalized(t, i, t.outputs[i]) ELSE t)

\* handle_terminal_published.  Messages parked on the record are rejected in
\* a closed session and replayed otherwise; more says there were several.
TerminalPublished(i, more) ==
    /\ i \in co.notices
    /\ LET t == [co EXCEPT !.notices = @ \ {i}, !.wakes = @ \ {i}]
           closed == /\ i \in DOMAIN co.completed
                     /\ co.completed[i].req.parent \in co.blocked \cup co.drains
       IN  IF closed \/ i \notin co.wakes THEN ~more /\ Event(t)
           ELSE Event(IF more THEN SendMessage(SendMessage(t, i), i)
                      ELSE SendMessage(t, i))

-----------------------------------------------------------------------------
(* The runner of a child: external, known by the events it reports *)

RunLive(i) == i \in Live(co) /\ i \notin DOMAIN co.outputs

\* Started.  A cancelled child stays pending and loses its parked messages;
\* a wake may defer its admission until its start is settled.
Started(i, defer, background) ==
    /\ i \in DOMAIN co.pending
    /\ defer => co.pending[i].wakeOf # None
    /\ background => Used("definition")
    /\ LET c == co.pending[i]
           t == [co EXCEPT
                   !.pending = Drop(@, {i}),
                   !.active = Put(@, i, [c EXCEPT !.defBg = background,
                                            !.wakeOf = IF defer THEN @ ELSE None])]
       IN  Event(IF c.cancelled THEN [co EXCEPT !.parked = {m \in @ : m[1] # i}]
                 ELSE IF defer THEN t ELSE AdmitParked(t, i))

SettleDeferredStart(i, committed) ==
    /\ i \in DOMAIN co.active
    /\ RunLive(i)
    /\ co.active[i].wakeOf # None
    /\ Event(IF committed
             THEN AdmitParked([co EXCEPT !.active[i].wakeOf = None], i)
             ELSE [co EXCEPT !.active[i].req.surface = FALSE,
                             !.active[i].cancelled = TRUE,
                             !.active[i].phase = "Finalizing",
                             !.parked = {m \in @ : m[1] # i}])

Finalizing(i) ==
    /\ Used("message")
    /\ i \in DOMAIN co.active
    /\ RunLive(i)
    /\ Event([co EXCEPT !.active[i].phase = "Finalizing"])

\* The run future ended, with a result or (a failure) in a panic.
RunEnds(i, out) ==
    /\ RunLive(i)
    /\ Event(BeginTerminalization(co, i, out))

-----------------------------------------------------------------------------
(* Time *)

Timed(t) == {i \in Live(t) : ChildOf(t, i).timed} \cup {i \in DOMAIN t.queued : t.queued[i].timed}

Waited(t) == {i \in Ids : t.waiters[i] # "none"}

\* process_deadlines: parked messages, teardown backstops, await budgets and
\* blocking queries whose deadline passed.
ProcessDeadlines(messages, sessions, budgets, queries) ==
    LET t == Reap(co)
        u == ClearTeardownDrain([t EXCEPT !.parked = @ \ (messages \X {TRUE})],
                                sessions \cap t.drains)
        v == HandOff(u, budgets \cap Timed(u), "backgrounded")
    IN  Event([v EXCEPT !.waiters = [i \in Ids |-> IF i \in queries THEN "none" ELSE @[i]]])

\* The four kinds of deadline, one fair action each.
BudgetElapses(i) == i \in Timed(co) /\ ProcessDeadlines({}, {}, {i}, {})

DrainElapses(s) == s \in co.drains /\ ProcessDeadlines({}, {s}, {}, {})

QueryElapses(i) == i \in Waited(co) /\ ProcessDeadlines({}, {}, {}, {i})

ParkedElapses(i) == <<i, TRUE>> \in co.parked /\ ProcessDeadlines({i}, {}, {}, {})

\* Several deadlines can be due at once.
AllElapse == /\ Timed(co) \cup Waited(co) \cup co.drains # {}
             /\ ProcessDeadlines(Ids, Parents, Ids, Ids)

\* The caller-abandoned arm, and the queue's reap interval.
ReapCallers ==
    /\ \/ \E i \in Live(co) : Reaped(co, i, ChildOf(co, i)) # ChildOf(co, i)
       \/ DOMAIN co.queued # {}
    /\ Event(Reap(co))

-----------------------------------------------------------------------------
(* Environment *)

CallerDrops(i) ==
    /\ Used("drop")
    /\ co.callers[i] = "waiting"
    /\ co' = [co EXCEPT !.callers[i] = "gone"]

QueryDrops(i) ==
    /\ Used("query") /\ Used("drop")
    /\ co.waiters[i] = "open"
    /\ co' = [co EXCEPT !.waiters[i] = "closed"]

\* The request's token, which the child keeps from the queue on, is cancelled by
\* its owner.  A wake's token is private; a wake that let go of its displaced
\* record is not told apart from its spawn any more, and may be cancelled too.
TokenCancelled(i) ==
    /\ Used("token")
    /\ \/ /\ i \in DOMAIN co.queued
          /\ co.queued[i].wake = None /\ ~co.queued[i].cancelled
          /\ co' = [co EXCEPT !.queued[i].cancelled = TRUE]
       \/ /\ i \in DOMAIN co.pending
          /\ co.pending[i].wakeOf = None /\ ~co.pending[i].cancelled
          /\ co' = [co EXCEPT !.pending[i].cancelled = TRUE]
       \/ /\ i \in DOMAIN co.active
          /\ co.active[i].wakeOf = None /\ ~co.active[i].cancelled
          /\ co' = [co EXCEPT !.active[i].cancelled = TRUE]

\* The host finished publishing a terminal record.
Publish(i) ==
    /\ Used("publish")
    /\ i \in DOMAIN co.completed
    /\ ~co.completed[i].published
    /\ co' = [co EXCEPT !.completed[i].published = TRUE, !.notices = @ \cup {i}]

-----------------------------------------------------------------------------

RunnerStep(i) ==
    \/ \E defer, background \in BOOLEAN : Started(i, defer, background)
    \/ \E committed \in BOOLEAN : SettleDeferredStart(i, committed)
    \/ Finalizing(i)
    \/ \E out \in Output : RunEnds(i, out)

Next ==
    \/ \E i \in Ids, r \in Requests : Spawn(i, r)
    \/ \E i \in Ids, s \in Parents : Cancel(i, s)
    \/ \E i \in Ids : Query(i)
    \/ \E s \in Sessions, p \in Prompts : CancelPrompt(s, p)
    \/ \E s \in Sessions : Stop(s) \/ OpenSpawnAdmission(s)
    \/ \E s \in Sessions, suppressed \in SUBSET Ids : TakeCompletions(s, suppressed)
    \/ \E run \in Runs, s \in Sessions \cup {None} : CancelWorkflow(run, s)
    \/ \E s \in Sessions, responder \in BOOLEAN : TeardownSession(s, responder)
    \/ \E scope \in Scopes : WaitPromptDrained(scope) \/ HandOffForeground(scope)
    \/ \E i \in Ids : Send(i)
    \/ \E i \in Ids, settled \in BOOLEAN : MessageSettles(i, settled)
    \/ \E i \in Ids, more \in BOOLEAN : TerminalPublished(i, more)
    \/ \E i \in Ids : RunnerStep(i)
    \/ \E i \in Ids : BudgetElapses(i) \/ QueryElapses(i) \/ ParkedElapses(i)
    \/ \E s \in Parents : DrainElapses(s)
    \/ AllElapse
    \/ ReapCallers
    \/ \E i \in Ids : CallerDrops(i) \/ QueryDrops(i) \/ TokenCancelled(i) \/ Publish(i)

Spec == Init /\ [][Next]_vars

\* Fairness.  The actor sleeps until its next deadline and serves it, so an
\* await budget and a delete's backstop do elapse.  Weak fairness is written
\* out with the enabling condition of the action, which TLC evaluates quickly.
Deadlines ==
    /\ \A i \in Ids : []<>(i \notin Timed(co)) \/ []<><<BudgetElapses(i)>>_vars
    /\ \A s \in Sessions : []<>(s \notin co.drains) \/ []<><<DrainElapses(s)>>_vars

\* The runner drives every run future to its end, and every host admission
\* carries a deadline of its own, so a withheld output is released.
Concludes(i) ==
    \/ \E out \in Output : RunEnds(i, out)
    \/ i \in DOMAIN co.outputs /\ \E settled \in BOOLEAN : MessageSettles(i, settled)

RunsEnd == \A i \in Ids : []<>(i \notin Live(co)) \/ []<><<Concludes(i)>>_vars

-----------------------------------------------------------------------------
(* Safety *)

\* Every map, flag and waiter list of the actor has its type.
TypeOK == IsState(co)

\* A child lives in exactly one of the coordinator's maps, and the spawn graph
\* has "one node per child id in any coordinator map" (graph.rs).
OneHome == Homed(co)

\* A session never runs more task children than its limit, through spawns,
\* wakes, dequeues and restores alike.
WithinLimit == \A s \in Parents : Cardinality(Running(co, s)) <= Limit

\* An entry waits in the queue only while its session's slots are all taken:
\* no finish, cancel or teardown forgets to sweep.
QueuedAtCapacity ==
    \A i \in DOMAIN co.queued : ~HasCapacity(co, co.queued[i].req.parent)

\* A caller blocked in spawn() is owed its answer by the entry or child that
\* holds the other end of its channel.
NoStrandedCaller ==
    \A i \in Ids : co.callers[i] = "waiting" =>
        \/ i \in DOMAIN co.queued /\ co.queued[i].awaiting
        \/ i \in Live(co) /\ ChildOf(co, i).reply

\* A blocking query is parked only on a task child that can still finish.
NoStrandedWaiter ==
    \A i \in Ids : co.waiters[i] # "none" =>
        i \in DOMAIN co.queued \cup Live(co) /\ RequestOf(co, i).run = None

\* A turn that waits for its children has a child to wait for, and a cancelled
\* workflow run that waits for its children has one.
NoIdleDrain ==
    /\ \A w \in co.drainWaiters : TurnBlocking(co, w) # {}
    /\ \A r \in co.runWaiters : RunOutstanding(co, r) # {}

\* A session being deleted is closed to spawns and told of no completion, and a
\* closed session has an empty queue: nothing starts in it later from a freed slot.
ClosedMeansQuiet ==
    /\ co.drains \subseteq co.blocked
    /\ \A i \in DOMAIN co.queued : co.queued[i].req.parent \notin co.blocked
    /\ \A b \in co.buffer : b[1] \notin co.drains

\* A message parked on a child waits for a start that is still to come.
ParkedHasStart ==
    \A m \in co.parked :
        \/ m[1] \in DOMAIN co.queued \cup DOMAIN co.pending
        \/ m[1] \in DOMAIN co.active /\ co.active[m[1]].wakeOf # None

\* An output is withheld only from an active child that is closed to messages
\* and has an admission still in flight, whose settling releases it.
WithheldHasAdmission ==
    \A i \in DOMAIN co.outputs :
        i \in DOMAIN co.active /\ co.active[i].phase = "Finalizing" /\ co.active[i].inFlight > 0

\* A foreground result is delivered once: the caller that got it in hand is
\* not told of it again by a surfaced completion.
DeliveredOnce ==
    \A i \in DOMAIN co.completed :
        co.completed[i].surfaced /\ ~co.completed[i].req.bg => co.callers[i] # "result"

\* The two notions of ownership agree: the graph's root, which scopes cancel and
\* kill, is the parent session by which teardown, Stop and admission select; and
\* a spawner is always on its child's chain.
OwnershipAgrees ==
    \A i \in DOMAIN co.graph :
        /\ co.graph[i].root = RequestOf(co, i).parent
        /\ co.graph[i].spawner # None => co.graph[i].spawner \in co.graph[i].chain

-----------------------------------------------------------------------------
(* What a step may never do *)

Entered == {i \in Ids : i \in DOMAIN co'.pending /\ i \notin Live(co)}

\* The queue is first in first out for each session: nothing starts past an
\* entry that was waiting before it and still waits.
NoOvertaking ==
    [][\A i \in Entered, j \in DOMAIN co.queued \cap DOMAIN co'.queued :
          /\ co'.pending[i].req.parent = co.queued[j].req.parent
          /\ co'.pending[i].req.run = None
          => i \in DOMAIN co.queued /\ co.queued[i].ticket < co.queued[j].ticket]_vars

\* No task child starts in a session between a user Stop (or a delete) and the
\* next turn.
ClosedMeansNoStart ==
    [][\A i \in Entered : co'.pending[i].req.run = None =>
          co'.pending[i].req.parent \notin co.blocked]_vars

\* A task child's finished work is reported: to the waiting caller, to a
\* blocking query, or as a surfaced completion.
NothingUnreported ==
    [][\A i \in Live(co) \cap DOMAIN co'.completed :
          LET c == ChildOf(co, i)
              d == co'.completed[i]
          IN  d.age >= co.nextAge /\ c.req.surface /\ ~c.killed /\ ~d.cancelled =>
                \/ d.surfaced
                \/ co.callers[i] = "waiting" /\ co'.callers[i] = "result"
                \/ co.waiters[i] = "open"]_vars

\* The record a wake displaced is never lost: it stays with the wake, comes
\* back, or is replaced by the record of a newer run, until it is older, when
\* the step is over, than the completed map reaches.
DisplacedIsKept ==
    [][\A i \in Live(co) : LET d == ChildOf(co, i).wakeOf
                           IN  d # None /\ i \notin Live(co)' =>
                                 i \in DOMAIN co'.completed \/ Expired(d, co'.nextAge)]_vars

\* A delete stops waiting in the step that takes the session's last child away,
\* whether the child ends or its wake fails.  If a wake was parked on a record of
\* the session, the code may leave the delete to its backstop: neither publication
\* nor eviction looks at the waiting deletes.
DeleteResolved ==
    [][\A s \in co.drains \cap co'.drains :
          /\ SessionHasChildren(co, s)
          /\ \A i \in co.wakes \cap DOMAIN co.completed : co.completed[i].req.parent # s
          => SessionHasChildren(co', s)]_vars

-----------------------------------------------------------------------------
(* What must eventually happen *)

\* A foreground caller with an await budget is released by its deadline even
\* if no child ever ends.
BudgetReleasesCaller ==
    Deadlines =>
      \A i \in Ids : (co.callers[i] = "waiting" /\ i \in Timed(co)) ~> co.callers[i] # "waiting"

\* The backstop ends every delete's wait even if a child never ends.
DeleteEnds == Deadlines => \A s \in Sessions : s \in co.drains ~> s \notin co.drains

\* As long as runs end, a queued spawn leaves the queue.
QueueMoves == RunsEnd => \A i \in Ids : i \in DOMAIN co.queued ~> i \notin DOMAIN co.queued

\* As long as runs end, a waiting turn goes on and so does a cancelled run.
DrainsEnd ==
    RunsEnd =>
      /\ \A w \in Scopes : w \in co.drainWaiters ~> w \notin co.drainWaiters
      /\ \A r \in Runs : r \in co.runWaiters ~> r \notin co.runWaiters
=============================================================================
