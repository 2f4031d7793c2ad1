# TLA+ models of the concurrent core of amore-build

amore-build is a terminal coding agent.  Its own logic is spread over some
hundred Rust crates, 1.4 million lines, most of which present, format, parse or
transport.  This project models the parts in which several actors share mutable
state and the order of their steps decides what happens:

* the **subagent coordinator**, the actor that admits, queues, starts, wakes,
  cancels and finishes every child agent, and through which every turn, tool
  call and deleted session waits for its children;
* the **admission lease** by which a message enters a running child while its
  deadline, its sender and the child's end race it;
* the **scheduler** of `/loop` and one-shot tasks, its durable removals and the
  writer of the resources file behind them;
* the **circuit breaker** that all requests of a client share, without a lock;
* the **election of the leader process** by clients that share nothing but two
  paths in the file system.

They are five independent modules, joined where one takes the other's answers as
inputs: `Coordinator` takes from `ActiveMessage` whether a message settled, and
`Scheduler` takes from the coordinator that a child registered, was refused,
ended, or has running descendants.

## Inventory

| part | state | operations | what is hard | here |
|---|---|---|---|---|
| Coordinator actor (`grok_build/task/coordinator.rs`, `coordinator/*.rs`, `admission.rs`) | queued, pending, active, completed children; lineage graph; reply channels; drains; closed sessions | spawn, query, cancel (child, prompt, session, run), teardown, hand-off, finish, deadlines | callers that vanish, deadlines racing results, wakes displacing records, teardown racing spawns | `Coordinator` |
| Active messages (`active_message.rs`) | admission lease, futures, in-flight count, parked messages | send, admit, park, replay, settle, finalize | a lease committed while its deadline fires | `ActiveMessage`, `Delivery` |
| Scheduler actor (`scheduler/actor.rs`, `types.rs`), resources writer | tasks, versions, pending removal, queue of snapshots, file | create, update, delete, expire, fire, save, restart | waits inside handlers, late writes, restarts | `Scheduler` |
| Circuit breaker (`xai-circuit-breaker`) | state, stamps, probe slots, window | check, record, error_rate | transitions of several stores, seen half-way | `CircuitBreaker` |
| Leader (`leader/mod.rs`, `leader/lock.rs`, `agent/app.rs`), file locks (`xai-grok-file-lock`) | lock file, socket, pid | connect_or_spawn, acquire, hand off, evict, stop | crashes, unlinked files, takeover | `LeaderElection` |
| Message targets, quotas | incarnation keys, ledgers | resolve, reserve, release | a message resolved for one incarnation reaching the next | planned |
| Message delivery core, prompt queue, upload queue, workflow journal | queues, files | enqueue, retry, replay | retry of what was done | planned or out of reach |
| Pager, markdown, voice, telemetry, vendored code | presentation | - | - | not modelled |

`PROJECT.json` lists the same parts with their status, and the hazards of the
code at the lines where they bite.

## Modules

| module | stands for |
|---|---|
| `CoordinatorState` | the records of `coordinator_state.rs`, admission, the graph and the scans, as operators on a coordinator record `t` |
| `CoordinatorOps` | the internal calls (`start_child`, `finish_child`, the sweep, the cancel paths, wakes, reaping) as functions from one record to the next |
| `Coordinator` | the actor: one variable `co`, one action per event of the `select!` loop, the environment's steps, the properties |
| `ActiveMessage` | the lease, the futures and the message lifecycle of one child, one action per atomic access of the lease |
| `Delivery` | abstract: what a sender and a finalizer are promised |
| `Scheduler` | the scheduler actor, its waits, the writer of the resources file, restarts |
| `CircuitBreaker` | one action per access of an atomic, or per critical section of the window's mutex |
| `LeaderElection` | clients and leaders as processes, the lock and the socket path as the kernel sees them |
| `MCCoordinator`, `MCActiveMessage`, `MCScheduler`, `MCCircuitBreaker`, `MCLeaderElection` | the instances; one `.cfg` per run |
| `CoordinatorTypes`, `CoordinatorHomes`, `CoordinatorPromises`, `CoordinatorProofs`, `ActiveMessageProofs`, `SchedulerProofs`, `CircuitBreakerProofs`, `LeaderElectionProofs` | the proofs |

Operators that no specification uses (`StartableLastFirst`, `AdmitUncounted`,
`FaultyPushCount` and the like; `PROJECT.json` lists them under `mutants`) are
plausible mistakes in the code, each to be put in the place of the definition it
varies to see that a property notices.

### The coordinator

The actor handles one event to the end before it takes the next, so an event is
one action.  A Rust handler is a chain of calls on `&mut self`, and so is the
action: `Event(HandleSpawn(Reap(co), i, r))` is `reap_abandoned_callers`, then
`handle_spawn`, then the two calls at the end of the loop (`LoopTail`).  The
whole state is one record because that is how the calls compose.

* `queued`, `pending`, `active`, `completed`, `graph`, `outputs` are the maps of
  `SubagentCoordinator`.  The `VecDeque` of the queue is a map with a ticket per
  entry (`push_back` takes a ticket above all others); the order of the
  completed records is their `completion_age`.
* `callers[i]` is what the caller of `spawn()` has seen on its channel.  The
  code has only the sending end; the receiving end is what the promises are
  about.
* `parked`, `wakes`, `notices` are `spawn_ready`, `pending_wakes` and the
  `terminal_published` channel.  Of the messages parked on one child the model
  keeps whether there is a wake message (no deadline) and whether there is any
  other.
* `waiters[i]` collapses the blocking queries on a child to none, some open,
  only closed ones.
* `drains`, `blocked`, `drainWaiters`, `runWaiters`, `buffer` are the teardown
  drains, closed sessions, parked turns, parked workflow cancels and buffered
  completions.

Loops over the queue (`start_queued_within_capacity`, `remove_queued`) are in
closed form: which entries start is decided by the running children and the
entries ahead, which is what the loop computes one entry at a time.

The child runner and the host are external: a run may end at any time with any
result, a start may be reported or not, a wake's start may be deferred and
committed or aborted, publication may come late or never.  The host modelled
supports wakes (`supports_wake()`; one that does not answers a message to a
completed child with a refusal and changes nothing).  A request's token may be
cancelled by its owner while the child is queued, pending or active; a wake that
was committed is not told apart from its first run any more, so its token may be
too, which the code excludes.  `select!` is biased
towards internal events; the model takes events in any order, so its safety
results do not depend on the bias.  `Commands` selects which events an
instance's environment uses; between them the passing runs use them all.

### The lease

`ActiveMessage` opens what `Coordinator` takes as an input, the `settled` flag of
`MessageSettles`.  Here the coordinator is not alone: the host inserts a
message's row on the thread of the child's session.  `Claim`, `Insert` and
`Store` are the compare-exchange, the closure and the store of
`commit_admission`; `Poll` and `SettleRevokes` are the load and the
compare-exchange of `settle` (or the single one of `revoke`) on the
coordinator's thread; `Complete` is the drop of the polled future, which revokes
what is still open, followed by `finish_active_message`.  `FuturesUnordered`
drops a future that is ready before it returns its output, so nothing comes
between the two but host steps that neither reads.  `host` keeps the host's place
apart from `lease`: once it has claimed, it inserts and stores whatever the lease
says.  The host may give any verdict at any time, also a false one, and may stop
inside its closure.  `rows` is the child's inbox.

### The scheduler

The actor serves one command or wake-up at a time, but its handlers wait, and
`act` says where: for the coordinator (`query`, `unit`, `spawn`, `register`), for
the writer (`saving`) or for the acknowledgement of a tombstone (`publishing`).
Between a handler's steps the rest goes on: tool calls of the session save the
resources, the writer works through its queue of snapshots, children register,
end and fail, a target closes, the process restarts from the file.  `clock`,
`Reservation` and `ExpectedSource` are `SchedulerClock` with its versions: a
removal reserves the next ones and commits them later.  `gone` is history: the
tasks whose removal the actor vouched for.  Clock time is left out (any task may
be due, any wait may time out).  `Events` selects the outside events of an
instance.

### The circuit breaker

There is no lock but the window's mutex, so every load, store, exchange and
fetch-add is a step of its own and the threads interleave between any two.  The
model is sequentially consistent; the code's acquire and release orderings allow
a little more (a load may miss another thread's latest store to a different
atomic), and that is outside the model.  Nothing in it reads the mirror.  A request that was admitted
may never be recorded (its future is dropped, or its status counts for nothing).
Time is kept as ages instead of stamps: an age is the time since a stamp was
read, saturated at `Horizon`.  Each comparison of two stamps is a difference of
ages, and `HorizonSuffices` makes the saturated differences exact.  The early
return of `evict`, when the window reaches back before the clock's first instant
(window.rs:42), needs no case of its own: every sample is then within the window,
and the model keeps them all too.  `Stall` bounds
how long a call is suspended while it holds a stamp.  The probe counter wraps at
`UsizeMax`.

### The leader

A path names an inode or nothing; a flock is on the inode a process opened; an
unlinked inode lives on while somebody has it open.  `open`, `flock`, the
write of the pid, each unlink, `bind` and each dial are separate steps, and a process may hang or die at any of them (`MaxFaults`).  A client runs
`connect_or_spawn` once: the fast path, the acquire slot, the wait for a leader
that is starting, the request to relaunch an older one, the eviction of one that
holds the lock and does not answer, the spawn.  The request and the signals may
fail without the client noticing (`VacateFails`, `Signals`).  A call that is
dropped cleans up only where it awaits something with the lock held, which is the
connection to a live leader and the grace of an eviction (`Quits`).  Leaders of
the current release, of an older one and of one that cannot be asked to relaunch
(`Legacy`) may be running before, those of `Lockless` without the lock.

A leader is two tasks.  `pc` is `run_leader`, which owns the lock; `server` is
`run_leader_server`, which owns the socket.  They share a cancellation token.
`run_leader` leaves its wait when the server has ended or when it sees the token
cancelled (app.rs:1346-1354), and in the second case, or after an error
(`StartFails`, also with a server that listens), it does not wait for the server:
the lock is dropped while the server still answers (`serving`, `draining`), runs
its finalizers (`ending`) or has yet to unlink the socket (`ServerUnlinks`,
server.rs:2300), until the process exits (`Exits`).  Both removals take whatever
the path names by then.

Steps that are merged: the existence check and the dial of the fast path; the
release of the lock with the spawn that follows; the second unlink of `Drop` with
the close; the finalizers of the server with its unlink.  The order in which the
drop guard of the token and the lock are dropped is left open.  The pid recorded
in a file is forgotten when the file is unlinked, since it is only read through
the path.  Left out: reuse of pids, the leader's own refusal to relaunch for a
version that is not newer, which `should_evict` decides by the same comparison,
and holders that are not found as on Linux, through `/proc/locks`.

## Runs

| run | instance | what it shows |
|---|---|---|
| `admission` | 3 ids, configured limit 0, which the code clamps to 1 slot; a nested spawner | the limit holds and is used, the queue is in order, owners agree along the lineage, under cancels and cancelled tokens |
| `callers` | 2 ids, 1 slot; foreground, background and awaited requests that hand off, drop, query | nobody waits on nothing; each result is reported once and somewhere; a budget releases its caller |
| `wakes` | 2 ids, 1 slot, 1 completed record kept, 2 admissions in flight; Stop, close, delete | one home per child; messages, wakes, displaced records and withheld outputs; a closed session stays quiet |
| `progress` | 2 ids, 1 slot, a workflow run | a delete, a turn and a queued child go on; a delete ends with its last child |
| `lease` | 4 messages (1 of a stranger), 2 admission places, 1 finalizer | definite answers are true, a clean end accounts for every row, `Delivery` is implemented, nobody waits for ever |
| `scheduler` | 1 loop, 1 one-shot, 1 child, 1 prompt; cancel, close, expire, delete | reservations stay fresh, removals are final, handlers return |
| `scheduler_loops` | the same with 3 children, 2 prompts, nested children | one iteration at a time, one-shots once, transcripts of one prompt |
| `scheduler_units` | the same | expected violation |
| `breaker` | 2 threads, cool-down 1, window 0, 1 sample, 1 probe, counter of 3 values | the window counts, and the breaker recovers |
| `breaker_probes` | 2 threads, window 1, 2 samples | expected violation |
| `leader` | 2 clients; a current, an older or a legacy leader before, the older one with the lock; 2 leaders in all; 3 inodes, 1 fault | one leader unless a lock file was unlinked under another process; every call returns |
| `two_leaders` | 2 clients that may spawn twice, no leader before, 3 in all, 1 fault | expected violation |

`CHECK_DEADLOCK FALSE` throughout: an actor without events waits, and a call
that has returned is over.

**Bounds.**  Two ids with one slot give one running and one waiting child, three
an order among waiting ones.  `MaxCompleted = 1` makes eviction and the aging of
displaced records happen at the second completion; `MaxAge` and `MaxTicket` stop
new spawns and wakes after that many completions and queue entries.  Three
messages for two admission places make saturation, an uncertain admission before
a finalization and a settled one after it happen in one behaviour.  In the
scheduler one recurring and one one-shot task with room for one task make the
cap, the fresh chain (`FreshEvery = 2`), the roll-over of a version
(`MaxRevision = 2`) and one restart happen; `MaxQueue` bounds the snapshots ahead
of the writer.  `breaker` has the smallest durations at which stale, expired and
fresh stamps differ; a window of one sample is at its cap at once, and with three
values the probe counter wraps after one extra decrement.  In `leader` two
clients race each other and every kind of leader; three inodes let a lock file
be replaced twice.  `MaxLeaders` bounds the leaders that are ever started, the one
before included: with two, a hand-off from the leader before to a spawned one and
a race of two spawned ones are complete, and a client that would need a third has
its spawn fail (`SpawnFails`).  With `MaxSelfSpawn = 1` a client's second spawn is
not explored in `leader`; `two_leaders` has it, and three leaders, and stops at its
counterexample.

**Fairness.**
* Coordinator: `BudgetReleasesCaller`, `DeleteEnds`, `QueueMoves` and `DrainsEnd`
  are implications that name what they rest on: `Deadlines`
  (a deadline that has passed is served; the `sleep_until` arm is the last of a
  biased `select!`, so this assumes that the other arms are not ready for ever)
  and, for the last two, `RunsEnd` (a run future ends, and an admission has
  `ACTIVE_MESSAGE_ADMISSION_TIMEOUT`).  Weak fairness is written out with the
  enabling condition of each action.
* Lease: the coordinator's thread polls an elapsed deadline and finishes what it
  began.  Nothing is assumed of the host.
* Scheduler: `TimesOut`.  Each wait of a handler is a tokio timeout, so it goes on
  without an answer.  Nothing is assumed of writer, coordinator or consumers.
  With one child the instance never has a second fire that queries the first, so
  the `query` wait is outside `ActorReturns` there.
* Breaker: a call that began goes on and callers keep calling (weak fairness per
  thread), the clock runs, and not every admitted request is abandoned (strong
  fairness of `Finish` over all threads together).
* Leader: each client's next step, the timer of `zombie_timer` (strong, since
  others reset what it looks at), and four steps of a leader that wait for
  nobody: its pid is written, its drain is bounded, its server's loop sees a
  cancelled token, a dropped lock is unlinked.  At any other step a leader may
  hang.

**What the properties leave out.**

* `OneLeader` excepts behaviours in which a lock file was unlinked while another
  process had it open (`raced`).  Without the exception the property is
  `SingleLeader`, which `two_leaders` refutes.
* That a leader's socket stays is no property of this code: the second unlink of a
  `Drop` and the server's unlink may both come after a successor has bound its
  socket.  What is checked instead is that the clients get by: such a leader holds
  the lock and cannot be dialled, and `ClientsReturn` shows that every call
  connects, replaces it or gives up.
* `DeleteResolved` excepts a session with a wake parked on one of its completed
  records.  `session_has_children` counts such a wake, so the finish of the last
  live child does not end the delete's wait; and neither
  `handle_terminal_published`, which rejects the wake in a session that is being
  deleted (coordinator.rs:650), nor `evict_completed_overflow`, which drops it with
  its record (coordinator.rs:632), resolves the waiting delete.  It then ends by the
  30 s backstop, which `DeleteEnds` counts on.
* `DisplacedIsKept` is about wakes that were started.  A wake that is withdrawn
  from the queue gives its record back by the same `restore_displaced_completion`,
  but no property follows that record.

### What the violations show

`two_leaders` checks what a test of the lock says, "no second leader can acquire
it while the leader is alive" (lock.rs:666).  Two clients start three leaders,
because the first is slow and the wait for it times out.  The first takes the
lock, fails at start and drops it.  `Drop` unlinks the lock file outside the
acquire slot, between the second leader's open and its `try_lock`; when the first
closes the file, the second gets the flock of an inode that no path names.  The
third creates a new lock file and locks that.  Nothing after `try_lock` compares
the file with the path.

`breaker_probes` checks that no more probes are in flight within their lease than
there are slots, as a test of the half-open state states for callers that do not
overlap.  `trip` stores the state before it resets the probe counter: the reset
can land after the next half-open era has admitted a probe, and frees its slot.
The slot and the stamp of its claim are also two atomics, and a caller between
them takes over a slot just claimed.  `Recovers` still holds.

`scheduler_units` checks that iterations of a loop, their nested children
included, do not overlap, as the changelog of 0.2.109 says.
`fire_as_loop_subagent` asks for running descendants only if the task has a
`last_subagent_id`, and the watcher of a failed iteration clears it: a child that
the failed iteration left running is then not seen by the next fire.
`OneIteration`, the same without nested children, holds.

## Proofs

Each theorem is for every value of the constants that the named assumptions
allow: any sets of ids, messages, tasks, threads, clients and leaders, any
limits.  TLC evaluates the assumptions in every run.

**Coordinator.**  All twelve invariants that the runs check, and four of the five
action properties:

| theorem | property | theorem | property |
|---|---|---|---|
| `TypeCorrect` | `TypeOK` | `ClosedStaysQuiet` | `ClosedMeansQuiet` |
| `HomesCorrect` | `OneHome` | `LimitHolds` | `WithinLimit` |
| `CallersAnswered` | `NoStrandedCaller` | `SlotsFilled` | `QueuedAtCapacity` |
| `WaitersAnswered` | `NoStrandedWaiter` | `NobodyWaitsIdly` | `NoIdleDrain` |
| `ResultsDeliveredOnce` | `DeliveredOnce` | `QueueInOrder` | `NoOvertaking` |
| `OwnersAgree` | `OwnershipAgrees` | `ClosedStartsNothing` | `ClosedMeansNoStart` |
| `ParkedAnswered` | `ParkedHasStart` | `WorkReported` | `NothingUnreported` |
| `OutputsReleased` | `WithheldHasAdmission` | `RecordsOutliveWakes` | `DisplacedIsKept` |

The inductive invariant is `Settled /\ Aged`.  `Settled` is types and homes, the
promises of `Kept`, and that each waiting turn has a child to wait for
(`TurnsBlocked`, which only the loop's tail restores).  `Kept` holds the
invariants above and what they need to be inductive: a displaced record is of the
child that displaced it (`WakesGenuine`: same owner, a background wake without a
caller), nobody has heard the result of a child that is still to end
(`Unanswered`), only task children queue and a queued wake's token is never
cancelled (`QueueOfTasks`), no two entries have one ticket (`TicketsDiffer`), a
child whose session is being deleted will not surface (`Muted`), a parked
workflow cancel has a child of its run (`RunsOutstanding`).  `OneHome` alone is not
inductive either, because the scans that decide where a child goes read typed
fields.

One lemma per operator of `CoordinatorOps` follows the call structure.  In the
middle of a handler the promises hold but for the children about to finish and
the entries about to leave the queue (`Good(t, X, Q)`), and an operator does one
of a few things to the record: it only rewrites entries in the direction that no
promise minds (`Eased`), takes a child away (`Departed`), takes entries out of the
queue (`Withdrawn`) or brings one child in (`Joined`, from `Between`, where the
child has its graph node and is in no map).  Each of these keeps the promises, so
a handler does.  The sweep is a counting argument: an entry starts if the running
children and the entries ahead of it are fewer than the limit (`SweepStarts`), so
what starts fits (`StartQueuedFits`) and what stays is at capacity.

The action properties follow from one statement about every step: it is
`Eventful`.  Either everything goes on as it was but for a sweep (`Advances`), or
besides one child ends and leaves a record that is reported or given back
(`Ends`), or one child joins, in an open session without a queue if it starts
(`Begins`).  `Passes`, the part of `Advances` about the queue, is closed under
composition, which is how a handler that reaps, cancels, ends a child and sweeps
is put together.  `Aged` (each record, filed or displaced, took its age from the
counter, and no other has it) is what makes eviction and restore agree: a record
that the tail evicts has `MaxCompleted` newer ones, each with an age of its own
below the counter, so `restore_displaced_completion` would have dropped it too.
An attempt to prove `DisplacedIsKept` against the counter before the step failed
for a good reason: the sweep that follows the restore may file a cancelled entry,
and the tail may then evict the record just given back.  The property is now
measured against the counter after the step.

Two facts about types are not bookkeeping: `NextTicketFacts` (a finite queue has
a ticket above all others), and the in-flight count, which `MessageSettles`
decrements only when positive.  The theorems hold for both behaviours at the
limit; the runs use `Queue`, so of `Fail` only they speak.

**Lease.**  `MessageTypeCorrect`, `AnswersCorrect`, `InFlightCorrect`,
`CleanCorrect`, and `LeaseDelivers`, that `Spec` implements `Delivery` under the
mapping in which a message's fate is *in* when its row is in the inbox, *out* when
its lease is revoked or its sender was turned away without one, and *open*
otherwise.  `IInv` adds what the code relies on silently: the lease is where the
host left it (`HostOK`), an answer is backed by a lease that can no longer
contradict it (`ReplyOK`), what the coordinator's thread read of the lease is
still true when it acts (`PollOK`: nobody leaves `Committed` or `Revoked`), the
disposition remembers uncertain answers (`CleanOK`), and nothing is on its way
into a sealed inbox (`SealOK`).

**Scheduler.**  `SchedulerTypeCorrect`, `ReservationsFresh` (the assertion of
`commit_next` never fires) and `RemovalsFinal` (`NoResurrection`).  The last two
are inductive only with what a handler holds at each of its waits
(`HandlerHolds`: which task, how many versions are left), with `CopiesGenuine`
(each copy of the tasks is of tasks that were created, and few enough that a
restart has a version for each), `AwaitedFlush` (behind the flush that a removal
waits for, no snapshot has its task) and `RemovalHolds` (the task of a removal
under way is not in memory, and after a good acknowledgement in no copy at all).
The argument is about the order of the writer's queue: a snapshot taken before
the removal is ahead of the flush, so it is written over, never after.

`IterationsAlone` (`OneIteration`), `OneShotsFireOnce` (`OneShotOnce`) and
`TranscriptsOfOnePrompt` (`TranscriptKeepsPrompt`) rest on a second invariant,
`Iterations`.  Its part `Counts` says that children belong to tasks that were
created (`ChildrenGenuine`), that a child which is not over is the anchor of its
task or the one a handler found or spawned (`Anchored`), that a task has one such
child (`Single`), and that a one-shot in memory was not started unless its
handler waits for the child or left it to a shutdown (`NotYetFired`).  Its part `Transcripts` follows the
prompt of a transcript through the task's record, each copy of it and the
children that resume it.

**Circuit breaker.**  `BreakerTypeCorrect`, which bounds the window by its cap and
the wrapping counter by its width, and `WindowCountsCorrect`: the incremental
failure count is the number of failed samples, for any number of threads.  The
invariant is their conjunction.  `AppendCounts` and `SuffixCounts` say how a
sample at one end and a prefix at the other change the cardinality of the failed
positions (the suffix by a bijection that shifts positions); `PushCounts` and
`EvictCounts` put them together as `push` and `evict` do.

**Leader.**  `ElectionTypeCorrect` and `AtMostOneLeader` (`OneLeader`), with and
without the acquire slot.  `IInv` is the part of `TypeOK` about files, steps and
locals with `Core`: a flock's holder has the inode open and is past `try_lock`
(`HolderHasOpen`); a file is open only between open and close (`OpenWhileUsed`);
who is past `try_lock` with a file open holds its flock (`OpenMeansHeld`); as
long as no file was unlinked under another process, everybody who locks or owns
has opened the file the path names (`SameFile`).  Two leaders would then have
opened one inode and hold its one flock.  No part of it speaks of the server or
the socket, so the step of the server is proved apart (`ServerKeeps`).

**Only model-checked**: everything that rests on fairness (`NothingWaitsForever`,
`ActorReturns`, `Recovers`, `ClientsReturn` and the coordinator's
`BudgetReleasesCaller`, `DeleteEnds`, `QueueMoves` and `DrainsEnd`), which the
prover does not reason about, and `DeleteResolved`.  Every other invariant and
action property that a passing run checks has a theorem.

## Not modelled

* Coordinator: read-only commands, texts, timestamps, progress; the cap of 256
  buffered completions; usage marks; the advertise flag of a graph node; address
  resolution, sender verification and quotas of messages (a message is authorised
  and names a known child); actor exit and `Drop`; children whose tool call has
  no id.
* Lease: root targets (`finish_root_admission`), whose lifecycle is never
  finalized, and the abort of a deferred start, which `Coordinator` has.
* Scheduler: `List`, the notifications and their texts, clock times, and the
  occurrence journal, which nothing calls yet.
* Breaker: the disabled configuration, telemetry, `force_half_open` (for tests only), and the registry, a locked map
  of independent breakers.
* Leader: the routing of messages inside `run_leader_server`, reconnection of a
  client, Windows pipes, the other users of the lock crate.
* The session side of message delivery, the prompt queue, the upload queue and
  the workflow engine are not modelled yet.  The script interpreter of workflows,
  the terminal UI, rendering, editors, providers' wire formats, telemetry and
  vendored code, which make up nearly all of the repository's lines, have no
  protocol to check or only one with an outside service.

## Plan

1. Done: the coordinator, `ActiveMessage` and `Delivery`, the scheduler, the
   circuit breaker, leader election; their runs; the theorems above.
   Every safety property that a passing run checks is proved, but for
   `DeleteResolved`.
2. `DeleteResolved` as a theorem: one lemma per operator that removes a child,
   beside `Eventful`.
3. An abstract specification of the coordinator's service to one caller (one
   answer for each spawn), with the refinement proved from `Settled` and `Eventful`.
4. Sequential reference for the closed-form queue loops of the coordinator.
5. Message targets and quotas with incarnations; the prompt queue; the upload
   queue with its retries and shutdown.
