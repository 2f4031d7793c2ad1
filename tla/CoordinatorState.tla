-------------------------- MODULE CoordinatorState --------------------------
(***************************************************************************)
(* The state of the subagent coordinator actor and the questions it asks   *)
(* of it: the records of coordinator_state.rs, the admission policy of     *)
(* admission.rs, the spawn graph of coordinator/graph.rs and the scans of  *)
(* coordinator.rs.  Everything here is an operator on a coordinator record *)
(* t, so that a handler can be written as the composition of the calls the *)
(* Rust handler makes.                                                     *)
(***************************************************************************)
EXTENDS Integers, FiniteSets, Functions

CONSTANTS
    Ids,            \* subagent ids; a child's session id is its id
    Sessions,       \* root sessions that own subagents
    Prompts,        \* parent prompts (turns)
    Runs,           \* workflow runs
    None,           \* the absent value of every Option
    MaxConcurrent,  \* SubagentLimits::max_concurrent as configured
    Behavior,       \* SubagentLimits::behavior: "Queue" or "Fail"
    MaxCompleted,   \* MAX_COMPLETED_ENTRIES
    MaxInFlight     \* MAX_ACTIVE_MESSAGE_ADMISSIONS_PER_CHILD

ASSUME IdsFinite == IsFiniteSet(Ids)
ASSUME NoneFresh == None \notin Ids \cup Sessions \cup Prompts \cup Runs
ASSUME SessionsAreNotIds == Sessions \cap Ids = {}
ASSUME LimitConfigured == MaxConcurrent \in Nat /\ Behavior \in {"Queue", "Fail"}
ASSUME BoundsPositive == MaxCompleted \in Nat \ {0} /\ MaxInFlight \in Nat \ {0}

-----------------------------------------------------------------------------
(* Records *)

\* A spawn may name a root session or another child's session as its parent.
Parents == Sessions \cup Ids

Scopes == Sessions \X Prompts

Request ==
    [parent : Parents, prompt : Prompts \cup {None}, run : Runs \cup {None},
     bg : BOOLEAN,            \* run_in_background
     toCompletion : BOOLEAN,  \* await_to_completion
     surface : BOOLEAN]       \* surface_completion

\* A terminal record.  "surfaced" is the should_surface decision handed to
\* the host together with the record.
CompletedChild ==
    [req : Request, age : Nat, published : BOOLEAN, wakeEligible : BOOLEAN,
     success : BOOLEAN, cancelled : BOOLEAN, surfaced : BOOLEAN]

\* PendingChild and ActiveChild.  wakeOf is wake_of while pending and
\* deferred_wake while active; phase, inFlight and clean are the child's
\* ActiveMessageLifecycle, which starts Open, 0 and Clean.
Child ==
    [req : Request,
     cancelled : BOOLEAN,     \* the cancellation token
     reply : BOOLEAN,         \* spawn_reply is Some
     timed : BOOLEAN,         \* foreground_deadline is Some
     handleOnly : BOOLEAN,
     killed : BOOLEAN,        \* explicitly_killed
     withdrawn : BOOLEAN,     \* disposition = Cancelled
     wakeOf : CompletedChild \cup {None},
     defBg : BOOLEAN,         \* definition_background
     phase : {"Open", "Finalizing"}, inFlight : Nat, clean : BOOLEAN]

\* QueuedSpawn.  The ticket orders the entries of the VecDeque.
QueuedSpawn ==
    [req : Request, ticket : Nat, cancelled : BOOLEAN,
     awaiting : BOOLEAN,      \* caller = Awaiting; otherwise Backgrounded
     timed : BOOLEAN,         \* the Awaiting caller has a deadline
     wake : CompletedChild \cup {None}]

\* SpawnNode.  chain holds the spawner sessions between root and child and
\* spawner is its last element.
SpawnNode ==
    [root : Parents, chain : SUBSET Ids, spawner : Ids \cup {None},
     surface : BOOLEAN]

\* SubagentResult.success and .cancelled; a cancelled result is a failure.
Output == {o \in [success : BOOLEAN, cancelled : BOOLEAN] : ~(o.success /\ o.cancelled)}

\* What the caller of spawn() has seen on its result channel.  "released"
\* is a sender dropped unanswered, "gone" a receiver the caller dropped.
CallerView == {"none", "waiting", "result", "backgrounded", "released", "gone"}

\* Blocking queries parked on one id: none, at least one whose receiver is
\* still open, or only closed ones.
WaiterView == {"none", "open", "closed"}

\* A map from some of the ids to R.
IsMap(f, R) == DOMAIN f \subseteq Ids /\ f \in [DOMAIN f -> R]

Put(f, k, v) == [x \in DOMAIN f \cup {k} |-> IF x = k THEN v ELSE f[x]]

Drop(f, S) == Restrict(f, DOMAIN f \ S)

\* g wins over f.
Merge(f, g) ==
    [x \in DOMAIN f \cup DOMAIN g |-> IF x \in DOMAIN g THEN g[x] ELSE f[x]]

\* The initial SubagentCoordinator, with no callers.
Fresh ==
    [queued |-> [i \in {} |-> None], pending |-> [i \in {} |-> None],
     active |-> [i \in {} |-> None], completed |-> [i \in {} |-> None],
     graph |-> [i \in {} |-> None], outputs |-> [i \in {} |-> None],
     nextAge |-> 0, wakes |-> {}, parked |-> {}, notices |-> {},
     waiters |-> [i \in Ids |-> "none"], drainWaiters |-> {},
     runWaiters |-> {}, drains |-> {}, blocked |-> {}, buffer |-> {},
     callers |-> [i \in Ids |-> "none"]]

\* The coordinator records: the fields that are not maps, then the maps.
StateOver(queued, pending, active, completed, graph, outputs) ==
    [queued : queued, pending : pending, active : active, completed : completed,
     graph : graph,
     outputs : outputs,            \* terminal_outputs
     nextAge : Nat,                \* next_completion_age
     wakes : SUBSET Ids,           \* completed children with pending_wakes
     parked : SUBSET (Ids \X BOOLEAN),  \* spawn_ready; TRUE has a deadline
     notices : SUBSET Ids,         \* the terminal_published channel
     waiters : [Ids -> WaiterView], drainWaiters : SUBSET Scopes,
     runWaiters : SUBSET Runs,     \* workflow_cancel_waiters
     drains : SUBSET Parents,      \* teardown_drains
     blocked : SUBSET Parents,     \* spawn_blocked_sessions
     buffer : SUBSET (Parents \X Ids),  \* pending_completions
     callers : [Ids -> CallerView]]

IsState(t) ==
    /\ t \in StateOver({t.queued}, {t.pending}, {t.active}, {t.completed}, {t.graph},
                      {t.outputs})
    /\ IsMap(t.queued, QueuedSpawn)
    /\ IsMap(t.pending, Child) /\ IsMap(t.active, Child)
    /\ IsMap(t.completed, CompletedChild)
    /\ IsMap(t.graph, SpawnNode)
    /\ IsMap(t.outputs, Output)

-----------------------------------------------------------------------------
(* Admission *)

\* Admission::new clamps a configured zero to one slot.
Limit == IF MaxConcurrent = 0 THEN 1 ELSE MaxConcurrent

Live(t) == DOMAIN t.pending \cup DOMAIN t.active

Known(t) == DOMAIN t.queued \cup Live(t) \cup DOMAIN t.completed

\* Every child is in one map, and the graph has a node for each of them.
Homed(t) ==
    /\ DOMAIN t.queued \cap Live(t) = {}
    /\ DOMAIN t.completed \cap (DOMAIN t.queued \cup Live(t)) = {}
    /\ DOMAIN t.pending \cap DOMAIN t.active = {}
    /\ DOMAIN t.graph = Known(t)

ChildOf(t, i) == IF i \in DOMAIN t.active THEN t.active[i] ELSE t.pending[i]

\* Workflow children draw from their run's pool, not from session slots.
Running(t, s) ==
    {i \in Live(t) : ChildOf(t, i).req.parent = s /\ ChildOf(t, i).req.run = None}

HasCapacity(t, s) == Cardinality(Running(t, s)) < Limit

Admit(t, r) ==
    IF r.run # None \/ HasCapacity(t, r.parent) THEN "Start"
    ELSE IF Behavior = "Queue" THEN "Enqueue" ELSE "Reject"

-----------------------------------------------------------------------------
(* Scans *)

RequestOf(t, i) ==
    IF i \in Live(t) THEN ChildOf(t, i).req
    ELSE IF i \in DOMAIN t.queued THEN t.queued[i].req ELSE t.completed[i].req

InScope(r, scope) ==
    r.parent = scope[1] /\ r.prompt = scope[2] /\ r.run = None

\* The children that keep the turn of a scope open.
TurnBlocking(t, scope) ==
    {i \in DOMAIN t.pending : InScope(t.pending[i].req, scope) /\ ~t.pending[i].handleOnly}
    \cup
    {i \in DOMAIN t.active : /\ InScope(t.active[i].req, scope)
                             /\ ~t.active[i].handleOnly /\ ~t.active[i].defBg}
    \cup
    {i \in DOMAIN t.queued : /\ InScope(t.queued[i].req, scope)
                             /\ t.queued[i].awaiting /\ ~t.queued[i].req.bg}

\* Children of any owner, and parked wakes of a completed child.
SessionHasChildren(t, s) ==
    \/ \E i \in Live(t) : ChildOf(t, i).req.parent = s
    \/ \E i \in DOMAIN t.queued : t.queued[i].req.parent = s
    \/ \E i \in t.wakes \cap DOMAIN t.completed : t.completed[i].req.parent = s

RunOutstanding(t, run) == {i \in Live(t) : ChildOf(t, i).req.run = run}

\* A missing node is unreachable.
Reachable(t, i, s) ==
    i \in DOMAIN t.graph /\ (t.graph[i].root = s \/ s \in t.graph[i].chain)

\* The session that is told about a completion: the root for a surfacing
\* task child, the live spawner for a nested one, nobody for a workflow child.
CompletionTarget(t, i, r) ==
    IF r.surface THEN IF r.run # None THEN {} ELSE {r.parent}
    ELSE {p \in DOMAIN t.active :
            /\ i \in DOMAIN t.graph /\ t.graph[i].surface /\ t.graph[i].spawner = p
            /\ ~t.active[p].cancelled}
=============================================================================
