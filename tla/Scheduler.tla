------------------------------ MODULE Scheduler ------------------------------
(***************************************************************************)
(* The scheduler actor: recurring (loop) and one-shot tasks, fired as       *)
(* subagents, with durable removals.                                        *)
(*                                                                         *)
(* The actor serves one command or one wake-up at a time, but its handlers  *)
(* wait: for the writer of the resources file, for the acknowledgement of a *)
(* tombstone, for the subagent coordinator.  Meanwhile tool calls of the    *)
(* session save the resources, the writer works through its queue, children *)
(* register, end and fail, and the process can be restarted from the file.  *)
(*                                                                         *)
(* Time is left out: any task may be due, any wait may time out, and a      *)
(* recurring task expires at some moment.                                   *)
(***************************************************************************)
EXTENDS Naturals, Sequences, FiniteSets, Functions

CONSTANTS
    Loops,          \* recurring tasks
    OneShots,       \* tasks that fire once
    Children,       \* subagent ids (fresh uuids)
    Prompts,        \* task prompts
    Events,         \* the outside events that happen
    MaxTasks,       \* MAX_SCHEDULED_TASKS
    FreshEvery,     \* LOOP_FRESH_CHAIN_EVERY
    MaxRevision,    \* u64::MAX, scaled down
    MaxGeneration,  \* bound on restarts and roll-overs
    MaxQueue,       \* bound on the snapshots waiting for the writer
    None

Tasks == Loops \cup OneShots

ASSUME SchedulerParameters ==
    /\ Loops \cap OneShots = {}
    /\ None \notin Tasks \cup Children
    /\ MaxTasks \in Nat /\ MaxGeneration \in Nat /\ MaxQueue \in Nat
    /\ FreshEvery \in Nat \ {0}
    /\ MaxRevision \in Nat /\ MaxRevision >= 2 /\ MaxRevision >= MaxTasks

VARIABLES
    tasks,          \* SchedulerState::tasks, a partial map
    created,        \* the task ids handed out so far
    expired,        \* the recurring tasks whose expires_at has passed
    blocked,        \* blocked_expiries
    clock,          \* SchedulerClock
    removal,        \* pending_removal
    act,            \* where the actor's handler waits, and its locals
    child,          \* what the coordinator knows of each child
    guards,         \* children whose result a spawned watcher awaits
    queue,          \* commands of the writer of the resources file
    debounced,      \* the writer's pending snapshot
    disk,           \* the resources file
    target,         \* whether a durable notification target is open
    cancelled,      \* cancel_token
    gone            \* tasks whose removal the actor vouched for

store == <<queue, debounced, disk>>
world == <<expired, target, cancelled>>
vars == <<tasks, created, blocked, clock, removal, act, child, guards, store, world, gone>>

Record == [anchor : Children \cup {None}, iterations : 0..FreshEvery,
           reset : BOOLEAN, prompt : Prompts, durable : BOOLEAN]

Snapshots == UNION {[T -> Record] : T \in SUBSET Tasks}

Status == {"unused", "sent", "live", "completed", "failed", "refused"}

Empty == [t \in {} |-> None]

\* The map without the tasks of T, and with task t as r.
Without(m, T) == Restrict(m, DOMAIN m \ T)

With(m, t, r) == [u \in DOMAIN m \cup {t} |-> IF u = t THEN r ELSE m[u]]

-----------------------------------------------------------------------------
(* Versions *)

Version == [generation : 0..MaxGeneration, revision : 0..MaxRevision]

Reservation == [source : Version, generation : 0..MaxGeneration,
                next : 1..MaxRevision, remaining : 1..2, rollover : BOOLEAN]

\* The bound on generations leaves room for n more transitions.
Room(n) == clock.generation < MaxGeneration \/ clock.revision + n <= MaxRevision

\* Faulty variant: the generation rolls over one transition late.
PrepareLate(n) ==
    LET rolls == clock.revision + n > MaxRevision + 1
    IN  [source |-> clock,
         generation |-> IF rolls THEN clock.generation + 1 ELSE clock.generation,
         next |-> IF rolls THEN 1 ELSE clock.revision + 1,
         remaining |-> n, rollover |-> rolls]

\* prepare_transition: a fresh generation once the revisions are used up.
Prepare(n) ==
    LET rolls == clock.revision + n > MaxRevision
    IN  [source |-> clock,
         generation |-> IF rolls THEN clock.generation + 1 ELSE clock.generation,
         next |-> IF rolls THEN 1 ELSE clock.revision + 1,
         remaining |-> n, rollover |-> rolls]

\* What commit_next asserts the clock to be.
ExpectedSource(r) ==
    IF r.rollover THEN r.source ELSE [generation |-> r.generation, revision |-> r.next - 1]

\* commit_next: the version the clock moves to, and the reservation left.
Committed(r) == [generation |-> r.generation, revision |-> r.next]

Rest(r) == [r EXCEPT !.rollover = FALSE, !.remaining = @ - 1,
                     !.next = IF r.remaining > 1 THEN @ + 1 ELSE @]

\* The clock after n commits of a fresh reservation.
After(n) ==
    IF clock.revision + n > MaxRevision
    THEN [generation |-> clock.generation + 1, revision |-> n]
    ELSE [clock EXCEPT !.revision = @ + n]

-----------------------------------------------------------------------------

\* A handler of task t that waits at pc with reservation r; was is the task as
\* the handler found it.
At(pc, kind, t, r, was) ==
    [pc |-> pc, kind |-> kind, task |-> t, reservation |-> r, was |-> was,
     ack |-> "waiting", usable |-> FALSE, child |-> None]

Idle == At("idle", "none", None, None, None)

Init ==
    /\ tasks = Empty /\ disk = Empty /\ debounced = None /\ queue = <<>>
    /\ created = {} /\ expired = {} /\ blocked = {} /\ gone = {}
    /\ clock = [generation |-> 0, revision |-> 0]
    /\ removal = None
    /\ act = Idle
    /\ child = [c \in Children |-> [task |-> None, status |-> "unused", unit |-> FALSE,
                                    transcript |-> {}]]
    /\ guards = {}
    /\ target = TRUE
    /\ cancelled = FALSE

\* The loop is at its select, and has not seen a cancellation.
Ready == act.pc = "idle" /\ ~cancelled

\* The handler returns to the loop.
Done == act' = Idle

\* persist_resources, up to its wait: the snapshot is queued under the lock.
Enqueue(m, next) ==
    /\ queue' = Append(queue, [snapshot |-> m, flush |-> TRUE, awaited |-> TRUE])
    /\ act' = next
    /\ UNCHANGED <<debounced, disk>>

\* The bound on the queue leaves room for one more flush.
Flushable == Len(queue) < MaxQueue

-----------------------------------------------------------------------------
(* Commands *)

NewRecord(p, d) ==
    [anchor |-> None, iterations |-> 0, reset |-> FALSE, prompt |-> p, durable |-> d]

\* Faulty variant: a create is served while a removal holds its reservation.
CreateDuringRemoval(t, p, d) ==
    /\ Ready
    /\ t \notin created
    /\ Cardinality(DOMAIN tasks) < MaxTasks
    /\ Room(1)
    /\ created' = created \cup {t}
    /\ tasks' = With(tasks, t, NewRecord(p, d))
    /\ clock' = After(1)
    /\ UNCHANGED <<blocked, removal, act, child, guards, store, world, gone>>

\* Create, served.  Refused ones leave no trace.
Create(t, p, d) ==
    /\ Ready /\ removal = None
    /\ t \notin created
    /\ Cardinality(DOMAIN tasks) < MaxTasks
    /\ Room(1)
    /\ created' = created \cup {t}
    /\ tasks' = With(tasks, t, NewRecord(p, d))
    /\ clock' = After(1)
    /\ UNCHANGED <<blocked, removal, act, child, guards, store, world, gone>>

\* Faulty variant: a new prompt forgets the previous iteration.
UpdateClearsAnchor(t, p) ==
    /\ Ready /\ removal = None
    /\ t \in DOMAIN tasks
    /\ Room(1)
    /\ tasks' = IF p = tasks[t].prompt THEN tasks
                ELSE [tasks EXCEPT ![t].prompt = p, ![t].anchor = None, ![t].iterations = 0]
    /\ clock' = After(1)
    /\ UNCHANGED <<created, blocked, removal, act, child, guards, store, world, gone>>

\* Update.  A new prompt asks for a fresh transcript and keeps the anchor, for
\* the check for a running iteration; a new interval only moves the next fire.
Update(t, p) ==
    /\ Ready /\ removal = None
    /\ t \in DOMAIN tasks
    /\ Room(1)
    /\ tasks' = IF p = tasks[t].prompt THEN tasks
                ELSE [tasks EXCEPT ![t].prompt = p, ![t].reset = TRUE, ![t].iterations = 0]
    /\ clock' = After(1)
    /\ UNCHANGED <<created, blocked, removal, act, child, guards, store, world, gone>>

\* Delete of a listed task, up to the wait for the file.
DeleteFirst(t) ==
    /\ "delete" \in Events
    /\ Ready /\ removal = None
    /\ t \in DOMAIN tasks
    /\ target
    /\ Room(1) /\ Flushable
    /\ tasks' = Without(tasks, {t})
    /\ removal' = [task |-> t, reservation |-> Prepare(1)]
    /\ Enqueue(tasks', At("saving", "delete", t, None, None))
    /\ UNCHANGED <<created, blocked, clock, child, guards, world, gone>>

\* A Delete of the task whose removal is pending tries again, unless the
\* durable targets are gone: then the reservation is given up.
DeleteAgain ==
    /\ Ready /\ removal # None
    /\ IF target
       THEN /\ Flushable
            /\ Enqueue(tasks, At("saving", "delete", removal.task, None, None))
            /\ UNCHANGED removal
       ELSE /\ removal' = None
            /\ UNCHANGED <<act, store>>
    /\ UNCHANGED <<tasks, created, blocked, clock, child, guards, world, gone>>

-----------------------------------------------------------------------------
(* fire_next_task *)

\* The wake-up is for task t, the first that is due.
Due(t) == Ready /\ removal = None /\ t \in DOMAIN tasks \ blocked

\* A durable task past its expiry, up to the wait for the file.
ExpireDurable(t) ==
    /\ Due(t) /\ t \in expired /\ tasks[t].durable
    /\ IF target
       THEN /\ Room(1) /\ Flushable
            /\ tasks' = Without(tasks, {t})
            /\ Enqueue(tasks', At("saving", "expiry", t, Prepare(1), tasks[t]))
            /\ UNCHANGED blocked
       ELSE /\ blocked' = blocked \cup {t}
            /\ UNCHANGED <<tasks, act, store>>
    /\ UNCHANGED <<created, clock, removal, child, guards, world, gone>>

\* A task that is not durable goes with a best-effort flush.
ExpireSoft(t) ==
    /\ Due(t) /\ t \in expired /\ ~tasks[t].durable
    /\ Room(1) /\ Flushable
    /\ tasks' = Without(tasks, {t})
    /\ Enqueue(tasks', At("saving", "soft", t, Prepare(1), None))
    /\ UNCHANGED <<created, blocked, clock, removal, child, guards, world, gone>>

\* A fire that finds no coordinator is skipped and leaves no trace.  The bounds
\* keep an unused child and room in the queue for the handler.
Fire(t) ==
    /\ Due(t) /\ t \notin expired
    /\ Room(IF t \in OneShots THEN 2 ELSE 1) /\ Flushable
    /\ \E c \in Children : child[c].status = "unused"
    /\ act' = At(IF tasks[t].anchor = None THEN "spawn" ELSE "query", "fire", t,
                 Prepare(IF t \in OneShots THEN 2 ELSE 1), tasks[t])
    /\ UNCHANGED <<tasks, created, blocked, clock, removal, child, guards, store, world, gone>>

\* The coordinator serves its channel in order: an answer to a later request
\* comes after every spawn sent before.
Served == \A c \in Children : child[c].status # "sent"

\* The previous iteration: still there, or over, with an output or without (a
\* failure, or a record the coordinator no longer keeps).
QueryAnswered(known) ==
    /\ act.pc = "query" /\ ~cancelled /\ Served
    /\ LET status == child[act.was.anchor].status
       IN  act' = IF status = "live" THEN Idle
                  ELSE [act EXCEPT !.pc = "unit", !.usable = known /\ status = "completed"]
    /\ UNCHANGED <<tasks, created, blocked, clock, removal, child, guards, store, world, gone>>

\* LoopUnitActive: a child of the task, or a descendant of one, is running.
UnitActive(t) ==
    \E c \in Children : child[c].task = t /\ (child[c].status = "live" \/ child[c].unit)

UnitAnswered ==
    /\ act.pc = "unit" /\ ~cancelled /\ Served
    /\ act' = IF UnitActive(act.task) THEN Idle ELSE [act EXCEPT !.pc = "spawn"]
    /\ UNCHANGED <<tasks, created, blocked, clock, removal, child, guards, store, world, gone>>

\* Whether the new iteration goes on with the transcript of the previous one.
Resumes == ~act.was.reset /\ act.was.iterations < FreshEvery /\ act.usable

\* The anchor moves to the new child before the spawn is sent.
Spawn(c) ==
    /\ act.pc = "spawn"
    /\ child[c].status = "unused"
    /\ IF act.task \in DOMAIN tasks
       THEN /\ tasks' = [tasks EXCEPT
                           ![act.task].anchor = c,
                           ![act.task].iterations = IF Resumes THEN act.was.iterations + 1 ELSE 1,
                           ![act.task].reset = FALSE]
            /\ child' = [child EXCEPT ![c] =
                           [task |-> act.task, status |-> "sent", unit |-> FALSE,
                            transcript |-> {act.was.prompt} \cup
                                (IF Resumes THEN child[act.was.anchor].transcript ELSE {})]]
            /\ act' = [act EXCEPT !.pc = "register", !.child = c]
       ELSE Done /\ UNCHANGED <<tasks, child>>
    /\ UNCHANGED <<created, blocked, clock, removal, guards, store, world, gone>>

\* Faulty variant: the chain reset the aborted spawn consumed is not put back.
RestoreAnchorOnly ==
    [t \in DOMAIN tasks |->
        IF t = act.task THEN [tasks[t] EXCEPT !.anchor = act.was.anchor,
                                              !.iterations = act.was.iterations]
        ELSE tasks[t]]

\* restore_fire_anchor
RestoreFireAnchor ==
    [t \in DOMAIN tasks |->
        IF t = act.task THEN [tasks[t] EXCEPT !.anchor = act.was.anchor,
                                              !.iterations = act.was.iterations,
                                              !.reset = act.was.reset]
        ELSE tasks[t]]

\* The spawn could not be sent, or was refused before it started.
Refused ==
    /\ act.pc = "register" /\ ~cancelled
    /\ child[act.child].status = "refused"
    /\ tasks' = RestoreFireAnchor
    /\ Done
    /\ UNCHANGED <<created, blocked, clock, removal, child, guards, store, world, gone>>

\* Faulty variant: a one-shot whose child is slow to register waits for the
\* next wake-up.
FiredUnlessSlow ==
    /\ act.pc = "register" /\ ~cancelled
    /\ child[act.child].status # "refused"
    /\ IF act.task \in OneShots /\ child[act.child].status = "sent"
       THEN Done /\ UNCHANGED <<tasks, clock, guards, store>>
       ELSE /\ guards' = guards \cup {act.child}
            /\ clock' = Committed(act.reservation)
            /\ IF act.task \in OneShots
               THEN /\ tasks' = Without(tasks, {act.task})
                    /\ Enqueue(tasks', At("saving", "oneshot", act.task, Rest(act.reservation), None))
               ELSE Done /\ UNCHANGED <<tasks, store>>
    /\ UNCHANGED <<created, blocked, removal, child, world, gone>>

\* The child is registered, or the wait for it timed out: the task has fired.
\* A one-shot is removed only now, with a best-effort flush.
Fired ==
    /\ act.pc = "register" /\ ~cancelled
    /\ child[act.child].status # "refused"
    /\ guards' = guards \cup {act.child}
    /\ clock' = Committed(act.reservation)
    /\ IF act.task \in OneShots
       THEN /\ tasks' = Without(tasks, {act.task})
            /\ Enqueue(tasks', At("saving", "oneshot", act.task, Rest(act.reservation), None))
       ELSE Done /\ UNCHANGED <<tasks, store>>
    /\ UNCHANGED <<created, blocked, removal, child, world, gone>>

\* A query that timed out or was dropped, or a cancellation: the fire is skipped.
Skip ==
    /\ \/ act.pc \in {"query", "unit"}
       \/ act.pc = "register" /\ cancelled
    /\ Done
    /\ UNCHANGED <<tasks, created, blocked, clock, removal, child, guards, store, world, gone>>

-----------------------------------------------------------------------------
(* The waits for the file and for the tombstone's acknowledgement *)

Forget(q) == [i \in DOMAIN q |-> [q[i] EXCEPT !.awaited = FALSE]]

\* Faulty variant: the wait for the writer has no timeout.
SaveAnswered(outcome) ==
    /\ act.pc = "saving"
    /\ \/ outcome = act.ack /\ act.ack # "waiting"
       \/ outcome = "unknown" /\ cancelled
    /\ queue' = Forget(queue)
    /\ UNCHANGED <<debounced, disk>>

\* How the wait for a flush ends: with the writer's answer, or, by a timeout or
\* a cancellation, without one.
SaveEnded(outcome) ==
    /\ act.pc = "saving"
    /\ \/ outcome = act.ack /\ act.ack # "waiting"
       \/ outcome = "unknown" /\ (act.ack = "waiting" \/ cancelled)
    /\ queue' = Forget(queue)
    /\ UNCHANGED <<debounced, disk>>

\* publish_durable_removal: the tombstone goes out, its receipt is awaited.
Publish ==
    /\ act' = [act EXCEPT !.pc = "publishing"]
    /\ gone' = gone \cup {act.task}

\* complete_pending_removal: a failure leaves the removal pending.
DeleteSaved(outcome) ==
    /\ act.kind = "delete"
    /\ SaveEnded(outcome)
    /\ IF outcome = "ok" THEN Publish ELSE Done /\ UNCHANGED gone
    /\ UNCHANGED <<tasks, created, blocked, clock, removal, child, guards, world>>

\* A durable expiry that was not written is taken back and blocked; one whose
\* fate is unknown is left absent.
ExpirySaved(outcome) ==
    /\ act.kind = "expiry"
    /\ SaveEnded(outcome)
    /\ CASE outcome = "ok" -> Publish /\ UNCHANGED <<tasks, blocked>>
         [] outcome = "err" -> /\ tasks' = With(tasks, act.task, act.was)
                               /\ blocked' = blocked \cup {act.task}
                               /\ Done /\ UNCHANGED gone
         [] OTHER -> Done /\ UNCHANGED <<tasks, blocked, gone>>
    /\ UNCHANGED <<created, clock, removal, child, guards, world>>

\* The best-effort flush of a soft expiry or of a fired one-shot: the removal
\* is announced anyway, and is final only if the file has it.
BestEffortSaved(outcome) ==
    /\ act.kind \in {"soft", "oneshot"}
    /\ SaveEnded(outcome)
    /\ clock' = Committed(act.reservation)
    /\ gone' = IF outcome = "ok" THEN gone \cup {act.task} ELSE gone
    /\ Done
    /\ UNCHANGED <<tasks, created, blocked, removal, child, guards, world>>

\* The receipt of the tombstone: with it the version is committed.  Without it
\* a delete stays pending, to be repeated, and an expiry is over.
Receipt(acknowledged) ==
    /\ act.pc = "publishing"
    /\ Done
    /\ IF ~acknowledged THEN UNCHANGED <<clock, removal>>
       ELSE IF act.kind = "delete"
       THEN clock' = Committed(removal.reservation) /\ removal' = None
       ELSE clock' = Committed(act.reservation) /\ UNCHANGED removal
    /\ UNCHANGED <<tasks, created, blocked, child, guards, store, world, gone>>

\* The loop sees the cancellation and announces the removal of what is left,
\* which stays in the file.
Stop ==
    /\ act.pc = "idle" /\ cancelled
    /\ Room(Cardinality(DOMAIN tasks))
    /\ clock' = After(Cardinality(DOMAIN tasks))
    /\ act' = At("stopped", "none", None, None, None)
    /\ UNCHANGED <<tasks, created, blocked, removal, child, guards, store, world, gone>>

-----------------------------------------------------------------------------
(* The watcher spawned for each fired child *)

Cleared(c) ==
    [t \in DOMAIN tasks |->
        IF tasks[t].anchor = c THEN [tasks[t] EXCEPT !.anchor = None, !.iterations = 0]
        ELSE tasks[t]]

\* A result with an error clears the anchor; the channel may also be dropped.
Guard(c) ==
    /\ c \in guards
    /\ child[c].status \in {"completed", "failed", "refused"}
    /\ guards' = guards \ {c}
    /\ \/ UNCHANGED tasks
       \/ child[c].status # "completed" /\ tasks' = Cleared(c)
    /\ UNCHANGED <<created, blocked, clock, removal, act, child, store, world, gone>>

-----------------------------------------------------------------------------
(* The writer of the resources file *)

\* Any tool call of the session ends with a save.
Save ==
    /\ Len(queue) + 1 < MaxQueue
    /\ queue' = Append(queue, [snapshot |-> tasks, flush |-> FALSE, awaited |-> FALSE])
    /\ UNCHANGED <<tasks, created, blocked, clock, removal, act, child, guards,
                   debounced, disk, world, gone>>

\* A plain save replaces the pending snapshot.
WriteSave ==
    /\ queue # <<>> /\ ~Head(queue).flush
    /\ debounced' = Head(queue).snapshot
    /\ queue' = Tail(queue)
    /\ UNCHANGED <<tasks, created, blocked, clock, removal, act, child, guards, disk, world, gone>>

\* Faulty variant: the older pending snapshot survives the flush.
FlushKeepsPending(ok, written) ==
    /\ queue # <<>> /\ Head(queue).flush
    /\ queue' = Tail(queue)
    /\ disk' = IF ok \/ written THEN Head(queue).snapshot ELSE disk
    /\ act' = IF Head(queue).awaited THEN [act EXCEPT !.ack = IF ok THEN "ok" ELSE "err"] ELSE act
    /\ UNCHANGED <<tasks, created, blocked, clock, removal, child, guards, debounced, world, gone>>

\* A flush drops the pending snapshot and writes its own.  An error may strike
\* before the file is replaced, or after (the sync of the directory).
WriteFlush(ok, written) ==
    /\ queue # <<>> /\ Head(queue).flush
    /\ queue' = Tail(queue)
    /\ debounced' = None
    /\ disk' = IF ok \/ written THEN Head(queue).snapshot ELSE disk
    /\ act' = IF Head(queue).awaited THEN [act EXCEPT !.ack = IF ok THEN "ok" ELSE "err"] ELSE act
    /\ UNCHANGED <<tasks, created, blocked, clock, removal, child, guards, world, gone>>

\* The debounce interval, a Flush or the end of the channel writes what is
\* pending; a failed write loses it.
WritePending(ok) ==
    /\ debounced # None
    /\ debounced' = None
    /\ disk' = IF ok THEN debounced ELSE disk
    /\ UNCHANGED <<tasks, created, blocked, clock, removal, act, child, guards, queue, world, gone>>

-----------------------------------------------------------------------------
(* The coordinator and its children, known by what they answer *)

Becomes(c, status) ==
    /\ child' = [child EXCEPT ![c].status = status]
    /\ UNCHANGED <<tasks, created, blocked, clock, removal, act, guards, store, world, gone>>

Registers(c) == child[c].status = "sent" /\ Becomes(c, "live")

Refuses(c) == child[c].status = "sent" /\ Becomes(c, "refused")

Ends(c) == child[c].status = "live" /\ \E out \in {"completed", "failed"} : Becomes(c, out)

\* Nested spawns of an iteration, which it does not wait for.
Nests(c) ==
    /\ "nest" \in Events
    /\ child[c].status = "live" \/ child[c].unit
    /\ child' = [child EXCEPT ![c].unit = ~@]
    /\ UNCHANGED <<tasks, created, blocked, clock, removal, act, guards, store, world, gone>>

-----------------------------------------------------------------------------
(* The rest of the world *)

Expires(t) ==
    /\ "expire" \in Events
    /\ t \in created \cap Loops /\ t \notin expired
    /\ expired' = expired \cup {t}
    /\ UNCHANGED <<tasks, created, blocked, clock, removal, act, child, guards, store,
                   target, cancelled, gone>>

TargetCloses ==
    /\ "close" \in Events
    /\ target
    /\ target' = FALSE
    /\ UNCHANGED <<tasks, created, blocked, clock, removal, act, child, guards, store,
                   expired, cancelled, gone>>

Cancels ==
    /\ "cancel" \in Events
    /\ ~cancelled
    /\ cancelled' = TRUE
    /\ UNCHANGED <<tasks, created, blocked, clock, removal, act, child, guards, store,
                   expired, target, gone>>

\* The process ends, in a crash or after Stop, and the session is loaded from
\* the file: the children die with it, and the new coordinator knows none.
Restart ==
    /\ clock.generation < MaxGeneration
    /\ tasks' = disk
    /\ queue' = <<>> /\ debounced' = None /\ UNCHANGED disk
    /\ clock' = [generation |-> clock.generation + 1, revision |-> 0]
    /\ act' = Idle /\ removal' = None /\ blocked' = {} /\ guards' = {}
    /\ target' = TRUE /\ cancelled' = FALSE
    /\ child' = [c \in Children |->
                    [child[c] EXCEPT !.task = None, !.unit = FALSE,
                                     !.status = CASE @ = "live" -> "failed"
                                                  [] @ = "sent" -> "refused"
                                                  [] OTHER -> @]]
    /\ UNCHANGED <<created, expired, gone>>

-----------------------------------------------------------------------------

Outcomes == {"ok", "err", "unknown"}

Handler ==
    \/ \E known \in BOOLEAN : QueryAnswered(known)
    \/ UnitAnswered
    \/ \E c \in Children : Spawn(c)
    \/ Refused \/ Fired \/ Skip
    \/ \E o \in Outcomes : DeleteSaved(o) \/ ExpirySaved(o) \/ BestEffortSaved(o)
    \/ \E acknowledged \in BOOLEAN : Receipt(acknowledged)

Next ==
    \/ \E t \in Tasks, p \in Prompts, d \in BOOLEAN : Create(t, p, d)
    \/ \E t \in Tasks, p \in Prompts : Update(t, p)
    \/ \E t \in Tasks : DeleteFirst(t) \/ ExpireDurable(t) \/ ExpireSoft(t) \/ Fire(t) \/ Expires(t)
    \/ DeleteAgain
    \/ Handler
    \/ Stop
    \/ \E c \in Children : Guard(c) \/ Registers(c) \/ Refuses(c) \/ Ends(c) \/ Nests(c)
    \/ Save \/ WriteSave
    \/ \E ok, written \in BOOLEAN : WriteFlush(ok, written)
    \/ \E ok \in BOOLEAN : WritePending(ok)
    \/ TargetCloses \/ Cancels \/ Restart

Spec == Init /\ [][Next]_vars

\* Every wait of a handler has a timer of its own: when nobody answers, the
\* handler goes on without an answer.  Nothing is assumed of the writer, the
\* consumers or the coordinator.
TimesOut ==
    \/ Skip \/ Fired \/ Refused
    \/ \E c \in Children : Spawn(c)
    \/ \E o \in Outcomes : DeleteSaved(o) \/ ExpirySaved(o) \/ BestEffortSaved(o)
    \/ Receipt(FALSE)

FairSpec == Spec /\ WF_vars(TimesOut)

-----------------------------------------------------------------------------
(* Properties *)

Entry == [snapshot : Snapshots, flush : BOOLEAN, awaited : BOOLEAN]

Handlers == [pc : {"idle", "query", "unit", "spawn", "register", "saving", "publishing", "stopped"},
             kind : {"none", "delete", "expiry", "soft", "fire", "oneshot"},
             task : Tasks \cup {None}, reservation : Reservation \cup {None},
             was : Record \cup {None}, ack : {"waiting", "ok", "err"},
             usable : BOOLEAN, child : Children \cup {None}]

\* The actor's state, the file and the queue of the writer are well typed.
TypeOK ==
    /\ tasks \in Snapshots /\ disk \in Snapshots
    /\ debounced \in Snapshots \cup {None}
    /\ queue \in Seq(Entry)
    /\ created \subseteq Tasks /\ expired \subseteq Tasks /\ blocked \subseteq Tasks /\ gone \subseteq Tasks
    /\ clock \in Version
    /\ removal \in [task : Tasks, reservation : Reservation] \cup {None}
    /\ act \in Handlers
    /\ child \in [Children -> [task : Tasks \cup {None}, status : Status, unit : BOOLEAN,
                               transcript : SUBSET Prompts]]
    /\ guards \subseteq Children
    /\ target \in BOOLEAN /\ cancelled \in BOOLEAN

\* commit_next never meets a clock that moved on since its reservation was made
\* ("stale scheduler reservation"), although a removal keeps its reservation
\* over any number of later commands and a one-shot commits twice.
ReservationFresh ==
    /\ removal # None /\ act.pc # "stopped" => ExpectedSource(removal.reservation) = clock
    /\ act.reservation # None => ExpectedSource(act.reservation) = clock

\* A removal the actor vouched for, by a tombstone of a durable removal or by
\* the flushed absence of a task that went, is final: the task is not in memory,
\* not in the file, and in no snapshot that could still be written there.
NoResurrection ==
    \A t \in gone :
        /\ t \notin DOMAIN tasks \cup DOMAIN disk
        /\ debounced # None => t \notin DOMAIN debounced
        /\ \A i \in DOMAIN queue : t \notin DOMAIN queue[i].snapshot

Of(t, S) == {c \in Children : child[c].task = t /\ child[c].status \in S}

\* At any time at most one iteration of a task is at the coordinator, through
\* skipped, refused and timed-out fires, failures, patches and restarts.
OneIteration == \A t \in Tasks : Cardinality(Of(t, {"sent", "live"})) <= 1

\* Between two restarts a one-shot is started at most once.
OneShotOnce ==
    \A t \in OneShots : Cardinality(Of(t, {"live", "completed", "failed"})) <= 1

\* A loop's transcript is about one prompt: an iteration never goes on with the
\* transcript of an older prompt, whatever fires were aborted in between.
TranscriptKeepsPrompt == \A c \in Children : Cardinality(child[c].transcript) <= 1

\* Every handler returns to the loop, even if nobody ever answers it.
ActorReturns == act.pc \notin {"idle", "stopped"} ~> act.pc \in {"idle", "stopped"}

\* Iterations of a loop do not overlap, their nested children included.
UnitsDontOverlap ==
    \A t \in Tasks : \A c, d \in Of(t, {"live", "completed", "failed"}) :
        /\ child[c].status = "live" \/ child[c].unit
        /\ child[d].status = "live" \/ child[d].unit
        => c = d
=============================================================================
