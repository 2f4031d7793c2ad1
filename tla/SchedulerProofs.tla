-------------------------- MODULE SchedulerProofs ---------------------------
(***************************************************************************)
(* Theorems about the scheduler actor: its state is well typed, commit_next *)
(* never meets a stale reservation, a removal the actor vouched for is      *)
(* final, iterations of a task do not run side by side, a one-shot starts   *)
(* once and a transcript is about one prompt, for any number of tasks,      *)
(* children and prompts, any roll-over and restart bound and any queue of   *)
(* the writer.                                                             *)
(***************************************************************************)
EXTENDS Scheduler, FiniteSetTheorems, TLAPS

-----------------------------------------------------------------------------
(* The inductive invariant *)

\* No more tasks than Create admits.
Small(S) == IsFiniteSet(S) /\ Cardinality(S) <= MaxTasks

Removals == [task : Tasks, reservation : Reservation]

\* What a handler holds at each of its waits.
HandlerHolds ==
    /\ act.pc \in {"idle", "stopped"} => act.reservation = None
    /\ act.pc \in {"query", "unit", "spawn", "register"} =>
         /\ act.kind = "fire" /\ act.task \in Tasks \cap created /\ act.was \in Record
         /\ act.reservation \in Reservation
         /\ act.reservation.remaining = (IF act.task \in OneShots THEN 2 ELSE 1)
         /\ act.reservation.next + act.reservation.remaining <= MaxRevision + 1
         /\ removal = None
    /\ act.pc = "query" => act.was.anchor # None
    /\ act.usable => act.was.anchor # None
    /\ act.pc = "register" => act.child \in Children
    /\ act.pc = "saving" => act.kind \in {"delete", "expiry", "soft", "oneshot"}
    /\ act.pc = "publishing" => act.kind \in {"delete", "expiry"}
    /\ act.pc \in {"saving", "publishing"} =>
         /\ act.task \in created
         /\ IF act.kind = "delete"
            THEN removal \in Removals /\ removal.task = act.task /\ act.reservation = None
            ELSE removal = None /\ act.reservation \in Reservation
         /\ act.kind = "expiry" => act.was \in Record

\* Every copy of the tasks is small and of tasks that were created.
Genuine(m) == Small(DOMAIN m) /\ DOMAIN m \subseteq created

CopiesGenuine ==
    /\ Genuine(tasks) /\ Genuine(disk)
    /\ debounced # None => Genuine(debounced)
    /\ \A i \in DOMAIN queue : Genuine(queue[i].snapshot)
    /\ act.pc = "saving" /\ act.kind = "expiry" => Small(DOMAIN tasks \cup {act.task})

\* The task of a removal in progress is not in memory, nor in what follows the
\* awaited flush in the queue; once that was written it is nowhere.
Absent(t) ==
    /\ t \notin DOMAIN tasks \cup DOMAIN disk
    /\ debounced # None => t \notin DOMAIN debounced
    /\ \A i \in DOMAIN queue : t \notin DOMAIN queue[i].snapshot

AwaitedFlush ==
    \A i \in DOMAIN queue : queue[i].awaited =>
        /\ queue[i].flush /\ act.pc = "saving"
        /\ \A j \in DOMAIN queue : j >= i => act.task \notin DOMAIN queue[j].snapshot

RemovalHolds ==
    /\ gone \subseteq created
    /\ removal # None => removal.task \in created /\ removal.task \notin DOMAIN tasks
    /\ act.pc = "saving" => act.task \notin DOMAIN tasks
    /\ act.pc = "saving" /\ act.kind = "expiry" => act.task \notin gone
    /\ act.pc = "saving" /\ act.ack = "ok" => Absent(act.task)

IInv == TypeOK /\ HandlerHolds /\ CopiesGenuine /\ ReservationFresh
        /\ AwaitedFlush /\ RemovalHolds /\ NoResurrection

-----------------------------------------------------------------------------
(* Maps, versions and sequences *)

LEMMA SnapshotDef ==
    ASSUME NEW m
    PROVE  m \in Snapshots <=> DOMAIN m \subseteq Tasks /\ m \in [DOMAIN m -> Record]
BY DEF Snapshots

LEMMA EmptyType == Empty \in Snapshots /\ DOMAIN Empty = {}
BY SnapshotDef DEF Empty

LEMMA WithoutType ==
    ASSUME NEW m \in Snapshots, NEW T
    PROVE  Without(m, T) \in Snapshots /\ DOMAIN Without(m, T) = DOMAIN m \ T
BY SnapshotDef DEF Without, Restrict

LEMMA WithType ==
    ASSUME NEW m \in Snapshots, NEW t \in Tasks, NEW r \in Record
    PROVE  With(m, t, r) \in Snapshots /\ DOMAIN With(m, t, r) = DOMAIN m \cup {t}
BY SnapshotDef DEF With

\* A map rewritten task by task.
LEMMA RewriteType ==
    ASSUME NEW m \in Snapshots, NEW g, DOMAIN g = DOMAIN m, g \in [DOMAIN m -> Record]
    PROVE  g \in Snapshots
BY SnapshotDef

LEMMA SnapshotElement ==
    ASSUME NEW m \in Snapshots, NEW t \in DOMAIN m
    PROVE  m[t] \in Record /\ t \in Tasks
BY SnapshotDef

\* The updates of a task's record.
LEMMA RecordUpdates ==
    ASSUME NEW r \in Record, NEW a \in Children \cup {None}, NEW n \in 0..FreshEvery,
           NEW b \in BOOLEAN
    PROVE  /\ \A p \in Prompts : [r EXCEPT !.prompt = p, !.reset = TRUE, !.iterations = 0] \in Record
           /\ [r EXCEPT !.anchor = a, !.iterations = n, !.reset = b] \in Record
           /\ [r EXCEPT !.anchor = a, !.iterations = n] \in Record
<1>1. \A s \in Record :
        /\ [s EXCEPT !.anchor = a] \in Record /\ [s EXCEPT !.iterations = n] \in Record
        /\ [s EXCEPT !.reset = b] \in Record
        /\ \A p \in Prompts : [s EXCEPT !.prompt = p] \in Record
        /\ [s EXCEPT !.reset = TRUE] \in Record
  BY DEF Record
<1>2. \A s \in Record : [s EXCEPT !.iterations = 0] \in Record
  BY SchedulerParameters DEF Record
<1>3. \A p \in Prompts : [[[r EXCEPT !.prompt = p] EXCEPT !.reset = TRUE] EXCEPT !.iterations = 0] \in Record
  BY <1>1, <1>2
<1>4. [[[r EXCEPT !.anchor = a] EXCEPT !.iterations = n] EXCEPT !.reset = b] \in Record
  BY <1>1
<1>5. [[r EXCEPT !.anchor = a] EXCEPT !.iterations = n] \in Record
  BY <1>1
<1> QED
  BY <1>3, <1>4, <1>5, Zenon

LEMMA SmallSubset ==
    ASSUME NEW S, Small(S), NEW T \in SUBSET S
    PROVE  Small(T)
BY FS_Subset, FS_CardinalityType, SchedulerParameters DEF Small

LEMMA SmallAdd ==
    ASSUME NEW S, IsFiniteSet(S), Cardinality(S) < MaxTasks, NEW t
    PROVE  Small(S \cup {t})
<1>1. IsFiniteSet(S \cup {t}) /\ Cardinality(S \cup {t}) \in {Cardinality(S), Cardinality(S) + 1}
  BY FS_AddElement
<1> QED
  BY <1>1, FS_CardinalityType, SchedulerParameters DEF Small

LEMMA SmallEmpty == Small({})
BY FS_EmptySet, SchedulerParameters DEF Small

\* A reservation of one or two versions, made where the bounds leave room.
LEMMA PrepareType ==
    ASSUME clock \in Version, NEW n \in {1, 2}, Room(n)
    PROVE  /\ Prepare(n) \in Reservation
           /\ Prepare(n).remaining = n
           /\ Prepare(n).next + n <= MaxRevision + 1
           /\ ExpectedSource(Prepare(n)) = clock
<1>1. PICK g \in 0..MaxGeneration, v \in 0..MaxRevision : clock = [generation |-> g, revision |-> v]
  BY DEF Version
<1>2. CASE v + n > MaxRevision
  <2>1. Prepare(n) = [source |-> clock, generation |-> g + 1, next |-> 1, remaining |-> n, rollover |-> TRUE]
    BY <1>1, <1>2 DEF Prepare
  <2>2. g + 1 \in 0..MaxGeneration /\ 1 \in 1..MaxRevision /\ 1 + n <= MaxRevision + 1
    BY <1>1, <1>2, SchedulerParameters DEF Room
  <2> QED
    BY <2>1, <2>2 DEF Reservation, ExpectedSource
<1>3. CASE ~(v + n > MaxRevision)
  <2>1. Prepare(n) = [source |-> clock, generation |-> g, next |-> v + 1, remaining |-> n, rollover |-> FALSE]
    <3>1. clock.generation = g /\ clock.revision = v
      BY <1>1
    <3>2. (clock.revision + n > MaxRevision) = FALSE
      BY <3>1, <1>3
    <3> QED
      BY <3>1, <3>2, Zenon DEF Prepare
  <2>2. v + 1 \in 1..MaxRevision /\ v + 1 + n <= MaxRevision + 1 /\ v + 1 - 1 = v
    BY <1>3, SchedulerParameters
  <2> QED
    BY <1>1, <2>1, <2>2 DEF Reservation, ExpectedSource
<1> QED
  BY <1>2, <1>3

LEMMA AfterType ==
    ASSUME clock \in Version, NEW n \in Nat, n <= MaxRevision, Room(n)
    PROVE  After(n) \in Version
BY SchedulerParameters DEF Version, Room, After

LEMMA CommitType ==
    ASSUME NEW r \in Reservation
    PROVE  /\ Committed(r) \in Version
           /\ r.remaining = 2 /\ r.next + 2 <= MaxRevision + 1 =>
                Rest(r) \in Reservation /\ ExpectedSource(Rest(r)) = Committed(r)
<1>1. PICK w \in Version, g \in 0..MaxGeneration, n \in 1..MaxRevision, k \in 1..2, b \in BOOLEAN :
        r = [source |-> w, generation |-> g, next |-> n, remaining |-> k, rollover |-> b]
  BY DEF Reservation
<1>2. Committed(r) = [generation |-> g, revision |-> n]
  BY <1>1 DEF Committed
<1>3. ASSUME r.remaining = 2, r.next + 2 <= MaxRevision + 1
      PROVE  Rest(r) \in Reservation /\ ExpectedSource(Rest(r)) = Committed(r)
  <2>1. Rest(r) = [source |-> w, generation |-> g, next |-> n + 1, remaining |-> 1, rollover |-> FALSE]
    <3>1. r.remaining > 1 /\ r.remaining - 1 = 1 /\ r.next = n
      BY <1>1, <1>3
    <3>2. Rest(r) = [r EXCEPT !.rollover = FALSE, !.remaining = 1, !.next = n + 1]
      BY <3>1, Zenon DEF Rest
    <3> QED
      BY <1>1, <3>2
  <2>2. n + 1 \in 1..MaxRevision /\ n + 1 - 1 = n
    BY <1>1, <1>3, SchedulerParameters
  <2> QED
    BY <1>2, <2>1, <2>2 DEF Reservation, ExpectedSource
<1> QED
  BY <1>2, <1>3, SchedulerParameters DEF Version

Pcs == {"idle", "query", "unit", "spawn", "register", "saving", "publishing", "stopped"}
Kinds == {"none", "delete", "expiry", "soft", "fire", "oneshot"}

LEMMA AtType ==
    ASSUME NEW pc \in Pcs, NEW kind \in Kinds, NEW t \in Tasks \cup {None},
           NEW r \in Reservation \cup {None}, NEW was \in Record \cup {None}
    PROVE  At(pc, kind, t, r, was) \in Handlers
BY DEF At, Handlers, Pcs, Kinds

LEMMA IdleFields ==
    Idle \in Handlers /\ Idle.pc = "idle" /\ Idle.reservation = None /\ Idle.usable = FALSE
BY DEF Idle, At, Handlers

\* The queue after one more entry, after its head went, and after the wait for
\* it was given up.
LEMMA AppendFacts ==
    ASSUME NEW q \in Seq(Entry), NEW e \in Entry
    PROVE  /\ Append(q, e) \in Seq(Entry)
           /\ DOMAIN Append(q, e) = DOMAIN q \cup {Len(q) + 1}
           /\ \A i \in DOMAIN q : i \in Nat /\ i < Len(q) + 1 /\ Append(q, e)[i] = q[i]
           /\ Append(q, e)[Len(q) + 1] = e /\ Len(q) \in Nat
OBVIOUS

LEMMA TailFacts ==
    ASSUME NEW q \in Seq(Entry), q # <<>>
    PROVE  /\ Tail(q) \in Seq(Entry) /\ Head(q) \in Entry /\ Head(q) = q[1] /\ 1 \in DOMAIN q
           /\ \A i \in DOMAIN Tail(q) : i \in Nat /\ i + 1 \in DOMAIN q /\ Tail(q)[i] = q[i + 1]
OBVIOUS

LEMMA ForgetFacts ==
    ASSUME NEW q \in Seq(Entry)
    PROVE  /\ Forget(q) \in Seq(Entry) /\ DOMAIN Forget(q) = DOMAIN q
           /\ \A i \in DOMAIN q : Forget(q)[i].snapshot = q[i].snapshot /\ ~Forget(q)[i].awaited
<1>1. DOMAIN q = 1..Len(q) /\ Len(q) \in Nat /\ \A i \in DOMAIN q : q[i] \in Entry
  OBVIOUS
<1>2. Forget(q) \in [1..Len(q) -> Entry]
  BY <1>1 DEF Forget, Entry
<1>3. Forget(q) \in Seq(Entry)
  BY <1>1, <1>2
<1> QED
  BY <1>1, <1>2, <1>3 DEF Forget, Entry

-----------------------------------------------------------------------------
(* The copies of the tasks: memory, file, pending snapshot and queue *)

\* The part of the invariant about what the copies hold.
CopiesInv == CopiesGenuine /\ AwaitedFlush /\ RemovalHolds /\ NoResurrection

\* A step that touches neither the copies nor a wait for the file.
LEMMA CopiesKept ==
    ASSUME IInv, DOMAIN tasks' = DOMAIN tasks, UNCHANGED <<created, queue, debounced, disk, gone>>,
           removal' \in {removal, None},
           act' = act \/ (act.pc # "saving" /\ act'.pc # "saving")
    PROVE  CopiesInv'
<1>1. CopiesGenuine'
  BY DEF IInv, CopiesGenuine, Genuine
<1>2. AwaitedFlush'
  BY DEF IInv, AwaitedFlush
<1>3. \A t : Absent(t) => Absent(t)'
  BY DEF Absent
<1>4. RemovalHolds'
  BY <1>3 DEF IInv, RemovalHolds
<1>5. NoResurrection'
  BY DEF IInv, NoResurrection
<1> QED
  BY <1>1, <1>2, <1>4, <1>5 DEF CopiesInv

\* A removal begins: the task leaves memory and the flush of what is left is
\* queued and awaited.
LEMMA RemovalStarts ==
    ASSUME IInv, NEW t \in created,
           DOMAIN tasks' = DOMAIN tasks \ {t}, tasks' \in Snapshots,
           queue' = Append(queue, [snapshot |-> tasks', flush |-> TRUE, awaited |-> TRUE]),
           UNCHANGED <<created, debounced, disk, gone>>,
           act.pc # "saving", act'.pc = "saving", act'.task = t, act'.ack = "waiting",
           act'.kind = "expiry" => t \in DOMAIN tasks,
           removal' = None \/ removal'.task = t
    PROVE  CopiesInv'
<1> DEFINE e == [snapshot |-> tasks', flush |-> TRUE, awaited |-> TRUE]
<1>1. queue \in Seq(Entry) /\ e \in Entry
  BY DEF IInv, TypeOK, Entry
<1>2. /\ DOMAIN queue' = DOMAIN queue \cup {Len(queue) + 1}
      /\ \A i \in DOMAIN queue : i \in Nat /\ i < Len(queue) + 1 /\ queue'[i] = queue[i]
      /\ queue'[Len(queue) + 1] = e /\ Len(queue) \in Nat
  BY <1>1, AppendFacts
<1>3. e.snapshot = tasks' /\ e.flush /\ e.awaited
  OBVIOUS
<1> HIDE DEF e
<1>4. Small(DOMAIN tasks') /\ DOMAIN tasks' \subseteq created
  BY SmallSubset DEF IInv, CopiesGenuine, Genuine
<1>5. CopiesGenuine'
  <2>1. Genuine(tasks)' /\ Genuine(disk)' /\ (debounced' # None => Genuine(debounced)')
    BY <1>4 DEF IInv, CopiesGenuine, Genuine
  <2>2. \A i \in DOMAIN queue' : Small(DOMAIN queue'[i].snapshot) /\ DOMAIN queue'[i].snapshot \subseteq created'
    BY <1>2, <1>3, <1>4 DEF IInv, CopiesGenuine, Genuine
  <2>3. act'.kind = "expiry" => Small(DOMAIN tasks' \cup {act'.task})
    <3>1. t \in DOMAIN tasks => DOMAIN tasks' \cup {t} = DOMAIN tasks
      OBVIOUS
    <3> QED
      BY <3>1 DEF IInv, CopiesGenuine, Genuine
  <2> QED
    BY <2>1, <2>2, <2>3 DEF CopiesGenuine, Genuine
<1>6. \A i \in DOMAIN queue : ~queue[i].awaited
  BY DEF IInv, AwaitedFlush
<1>7. AwaitedFlush'
  BY <1>2, <1>3, <1>6 DEF AwaitedFlush
<1>8. RemovalHolds'
  <2>1. act'.kind = "expiry" => act'.task \notin gone'
    BY DEF IInv, NoResurrection
  <2>2. gone' \subseteq created'
    BY DEF IInv, RemovalHolds
  <2> QED
    BY <2>1, <2>2 DEF RemovalHolds
<1>9. NoResurrection'
  BY <1>2, <1>3 DEF IInv, NoResurrection
<1> QED
  BY <1>5, <1>7, <1>8, <1>9 DEF CopiesInv

\* The wait for a flush ends and the task stays out of memory; the removal is
\* vouched for only if the file was written.
LEMMA WaitEnds ==
    ASSUME IInv, NEW outcome, SaveEnded(outcome), UNCHANGED <<tasks, created, removal>>,
           act'.pc # "saving", gone' = gone \/ (outcome = "ok" /\ gone' = gone \cup {act.task})
    PROVE  CopiesInv'
<1>1. /\ queue' = Forget(queue) /\ UNCHANGED <<debounced, disk>> /\ act.pc = "saving"
      /\ outcome = "ok" => act.ack = "ok"
  BY DEF SaveEnded
<1>2. /\ DOMAIN queue' = DOMAIN queue
      /\ \A i \in DOMAIN queue : queue'[i].snapshot = queue[i].snapshot /\ ~queue'[i].awaited
  BY <1>1, ForgetFacts DEF IInv, TypeOK
<1>3. CopiesGenuine'
  BY <1>1, <1>2 DEF IInv, CopiesGenuine, Genuine
<1>4. AwaitedFlush'
  BY <1>2 DEF AwaitedFlush
<1>5. outcome = "ok" => Absent(act.task)
  BY <1>1 DEF IInv, RemovalHolds
<1>6. RemovalHolds'
  BY <1>1 DEF IInv, RemovalHolds, HandlerHolds
<1>7. NoResurrection'
  BY <1>1, <1>2, <1>5 DEF IInv, NoResurrection, Absent
<1> QED
  BY <1>3, <1>4, <1>6, <1>7 DEF CopiesInv

\* A failed write of an expiry is taken back.
LEMMA TakenBack ==
    ASSUME IInv, NEW outcome, SaveEnded(outcome), act.kind = "expiry",
           DOMAIN tasks' = DOMAIN tasks \cup {act.task}, UNCHANGED <<created, removal, gone>>,
           act'.pc # "saving"
    PROVE  CopiesInv'
<1>1. queue' = Forget(queue) /\ UNCHANGED <<debounced, disk>> /\ act.pc = "saving"
  BY DEF SaveEnded
<1>2. /\ DOMAIN queue' = DOMAIN queue
      /\ \A i \in DOMAIN queue : queue'[i].snapshot = queue[i].snapshot /\ ~queue'[i].awaited
  BY <1>1, ForgetFacts DEF IInv, TypeOK
<1>3. act.task \in created /\ act.task \notin gone /\ removal = None
  BY <1>1 DEF IInv, RemovalHolds, HandlerHolds
<1>4. CopiesGenuine'
  <2>1. Genuine(tasks)'
    BY <1>1, <1>3 DEF IInv, CopiesGenuine, Genuine
  <2> QED
    BY <1>1, <1>2, <2>1 DEF IInv, CopiesGenuine, Genuine
<1>5. AwaitedFlush'
  BY <1>2 DEF AwaitedFlush
<1>6. RemovalHolds'
  BY <1>3 DEF IInv, RemovalHolds
<1>7. NoResurrection'
  BY <1>1, <1>2, <1>3 DEF IInv, NoResurrection
<1> QED
  BY <1>4, <1>5, <1>6, <1>7 DEF CopiesInv

LEMMA CreateCopies ==
    ASSUME IInv, NEW t \in Tasks, NEW p \in Prompts, NEW d \in BOOLEAN, Create(t, p, d)
    PROVE  CopiesInv'
<1>1. /\ act.pc = "idle" /\ removal = None /\ t \notin created /\ Cardinality(DOMAIN tasks) < MaxTasks
      /\ created' = created \cup {t} /\ UNCHANGED <<removal, act, queue, debounced, disk, gone>>
  BY DEF Create, Ready, store
<1>2. DOMAIN tasks' = DOMAIN tasks \cup {t}
  BY DEF Create, With
<1>3. CopiesGenuine'
  <2>1. Small(DOMAIN tasks')
    <3>1. IsFiniteSet(DOMAIN tasks)
      BY DEF IInv, CopiesGenuine, Genuine, Small
    <3>2. Small(DOMAIN tasks \cup {t})
      BY <1>1, <3>1, SmallAdd
    <3> QED
      BY <1>2, <3>2
  <2> QED
    BY <1>1, <1>2, <2>1 DEF IInv, CopiesGenuine, Genuine
<1>4. AwaitedFlush'
  BY <1>1 DEF IInv, AwaitedFlush
<1>5. RemovalHolds'
  BY <1>1 DEF IInv, RemovalHolds
<1>6. NoResurrection'
  BY <1>1, <1>2 DEF IInv, NoResurrection, RemovalHolds
<1> QED
  BY <1>3, <1>4, <1>5, <1>6 DEF CopiesInv

LEMMA SaveCopies ==
    ASSUME IInv, Save
    PROVE  CopiesInv'
<1> DEFINE e == [snapshot |-> tasks, flush |-> FALSE, awaited |-> FALSE]
<1>1. queue \in Seq(Entry) /\ e \in Entry /\ queue' = Append(queue, e)
      /\ UNCHANGED <<tasks, created, removal, act, debounced, disk, gone>>
  BY DEF IInv, TypeOK, Entry, Save
<1>2. /\ DOMAIN queue' = DOMAIN queue \cup {Len(queue) + 1}
      /\ \A i \in DOMAIN queue : i \in Nat /\ i < Len(queue) + 1 /\ queue'[i] = queue[i]
      /\ queue'[Len(queue) + 1] = e /\ Len(queue) \in Nat
  BY <1>1, AppendFacts
<1>3. e.snapshot = tasks /\ ~e.awaited
  OBVIOUS
<1> HIDE DEF e
<1>4. CopiesGenuine'
  BY <1>1, <1>2, <1>3 DEF IInv, CopiesGenuine, Genuine
<1>5. AwaitedFlush'
  BY <1>1, <1>2, <1>3 DEF IInv, AwaitedFlush, RemovalHolds
<1>6. \A t : Absent(t) => Absent(t)'
  BY <1>1, <1>2, <1>3 DEF Absent
<1>7. RemovalHolds'
  BY <1>1, <1>6 DEF IInv, RemovalHolds
<1>8. NoResurrection'
  BY <1>1, <1>2, <1>3 DEF IInv, NoResurrection
<1> QED
  BY <1>4, <1>5, <1>7, <1>8 DEF CopiesInv

LEMMA WriteSaveCopies ==
    ASSUME IInv, WriteSave
    PROVE  CopiesInv'
<1>1. /\ queue # <<>> /\ debounced' = Head(queue).snapshot /\ queue' = Tail(queue)
      /\ UNCHANGED <<tasks, created, removal, act, disk, gone>>
  BY DEF WriteSave
<1>2. /\ Head(queue) = queue[1] /\ 1 \in DOMAIN queue
      /\ \A i \in DOMAIN queue' : i \in Nat /\ i + 1 \in DOMAIN queue /\ queue'[i] = queue[i + 1]
  BY <1>1, TailFacts DEF IInv, TypeOK
<1>4. CopiesGenuine'
  BY <1>1, <1>2 DEF IInv, CopiesGenuine, Genuine
<1>5. AwaitedFlush'
  BY <1>1, <1>2 DEF IInv, AwaitedFlush
<1>6. \A t : Absent(t) => Absent(t)'
  BY <1>1, <1>2 DEF Absent
<1>7. RemovalHolds'
  BY <1>1, <1>6 DEF IInv, RemovalHolds
<1>8. NoResurrection'
  BY <1>1, <1>2 DEF IInv, NoResurrection
<1> QED
  BY <1>4, <1>5, <1>7, <1>8 DEF CopiesInv

\* The awaited flush reaches the file: its task is in no older snapshot, as the
\* pending one is dropped, and in no later one.
LEMMA WriteFlushCopies ==
    ASSUME IInv, NEW ok \in BOOLEAN, NEW written \in BOOLEAN, WriteFlush(ok, written)
    PROVE  CopiesInv'
<1>1. /\ queue # <<>> /\ debounced' = None /\ queue' = Tail(queue)
      /\ disk' = (IF ok \/ written THEN Head(queue).snapshot ELSE disk)
      /\ act' = (IF Head(queue).awaited THEN [act EXCEPT !.ack = IF ok THEN "ok" ELSE "err"] ELSE act)
      /\ UNCHANGED <<tasks, created, removal, gone>>
  BY DEF WriteFlush
<1>2. /\ Head(queue) = queue[1] /\ 1 \in DOMAIN queue
      /\ \A i \in DOMAIN queue' : i \in Nat /\ i + 1 \in DOMAIN queue /\ queue'[i] = queue[i + 1]
  BY <1>1, TailFacts DEF IInv, TypeOK
<1>3. /\ act'.pc = act.pc /\ act'.kind = act.kind /\ act'.task = act.task
      /\ queue[1].awaited /\ act'.ack = "ok" => ok
      /\ ~queue[1].awaited => act' = act
  BY <1>1, <1>2 DEF IInv, TypeOK, Handlers
<1>4. CopiesGenuine'
  BY <1>1, <1>2, <1>3 DEF IInv, CopiesGenuine, Genuine
<1>5. AwaitedFlush'
  BY <1>1, <1>2, <1>3 DEF IInv, AwaitedFlush
<1>6. \A t : Absent(t) => Absent(t)'
  BY <1>1, <1>2 DEF Absent
<1>7. ASSUME act'.pc = "saving", act'.ack = "ok" PROVE Absent(act.task)'
  <2>1. CASE queue[1].awaited
    <3>1. \A j \in DOMAIN queue : act.task \notin DOMAIN queue[j].snapshot
      <4>1. \A j \in DOMAIN queue : j >= 1
        BY DEF IInv, TypeOK
      <4> QED
        BY <2>1, <1>2, <4>1 DEF IInv, AwaitedFlush
    <3>2. act.task \notin DOMAIN tasks /\ disk' = queue[1].snapshot
      BY <1>1, <1>2, <1>3, <1>7, <2>1 DEF IInv, RemovalHolds
    <3> QED
      BY <1>1, <1>2, <3>1, <3>2 DEF Absent
  <2>2. CASE ~queue[1].awaited
    BY <1>3, <1>6, <1>7, <2>2 DEF IInv, RemovalHolds
  <2> QED
    BY <2>1, <2>2
<1>8. RemovalHolds'
  BY <1>1, <1>3, <1>7 DEF IInv, RemovalHolds
<1>9. NoResurrection'
  BY <1>1, <1>2 DEF IInv, NoResurrection
<1> QED
  BY <1>4, <1>5, <1>8, <1>9 DEF CopiesInv

LEMMA WritePendingCopies ==
    ASSUME IInv, NEW ok \in BOOLEAN, WritePending(ok)
    PROVE  CopiesInv'
<1>1. /\ debounced # None /\ debounced' = None /\ disk' = (IF ok THEN debounced ELSE disk)
      /\ UNCHANGED <<tasks, created, removal, act, queue, gone>>
  BY DEF WritePending
<1>4. CopiesGenuine'
  BY <1>1 DEF IInv, CopiesGenuine, Genuine
<1>5. AwaitedFlush'
  BY <1>1 DEF IInv, AwaitedFlush
<1>6. \A t : Absent(t) => Absent(t)'
  BY <1>1 DEF Absent
<1>7. RemovalHolds'
  BY <1>1, <1>6 DEF IInv, RemovalHolds
<1>8. NoResurrection'
  BY <1>1 DEF IInv, NoResurrection
<1> QED
  BY <1>4, <1>5, <1>7, <1>8 DEF CopiesInv

LEMMA RestartCopies ==
    ASSUME IInv, Restart
    PROVE  CopiesInv'
<1>1. /\ tasks' = disk /\ queue' = <<>> /\ debounced' = None /\ disk' = disk /\ removal' = None
      /\ act' = Idle /\ act'.pc = "idle" /\ UNCHANGED <<created, gone>>
  BY IdleFields DEF Restart
<1>2. DOMAIN queue' = {}
  BY <1>1
<1>3. CopiesGenuine'
  BY <1>1, <1>2 DEF IInv, CopiesGenuine, Genuine
<1>4. AwaitedFlush'
  BY <1>2 DEF AwaitedFlush
<1>5. RemovalHolds'
  BY <1>1 DEF IInv, RemovalHolds
<1>6. NoResurrection'
  BY <1>1, <1>2 DEF IInv, NoResurrection
<1> QED
  BY <1>3, <1>4, <1>5, <1>6 DEF CopiesInv

-----------------------------------------------------------------------------
(* What the handlers hold *)

ActorInv == HandlerHolds /\ ReservationFresh

LEMMA ActorKept ==
    ASSUME IInv, UNCHANGED <<act, removal, clock>>, created \subseteq created'
    PROVE  ActorInv'
<1>1. HandlerHolds'
  BY DEF IInv, HandlerHolds
<1>2. ReservationFresh'
  BY DEF IInv, ReservationFresh, ExpectedSource
<1> QED
  BY <1>1, <1>2 DEF ActorInv

\* A handler returns: it gives its reservation up, or leaves the pending
\* removal with the clock as it was reserved for.
LEMMA BackToLoop ==
    ASSUME IInv, act' = Idle,
           removal' = None \/ (UNCHANGED <<removal, clock>> /\ act.pc # "stopped")
    PROVE  ActorInv'
<1>1. HandlerHolds'
  BY IdleFields DEF HandlerHolds
<1>2. ReservationFresh'
  <2>1. act'.reservation = None
    BY IdleFields
  <2>2. removal' # None => ExpectedSource(removal.reservation)' = clock'
    BY DEF IInv, ReservationFresh, ExpectedSource
  <2> QED
    BY <2>1, <2>2 DEF ReservationFresh
<1> QED
  BY <1>1, <1>2 DEF ActorInv

\* A removal begins with a reservation of its own.
LEMMA ExpiryHolds ==
    ASSUME IInv, NEW kind \in {"expiry", "soft"}, NEW t \in created, NEW was,
           kind = "expiry" => was \in Record, Room(1),
           act' = At("saving", kind, t, Prepare(1), was), removal' = None,
           UNCHANGED <<clock, created>>
    PROVE  ActorInv'
<1>1. Prepare(1) \in Reservation /\ ExpectedSource(Prepare(1)) = clock
  BY PrepareType DEF IInv, TypeOK
<1>2. /\ act'.pc = "saving" /\ act'.kind = kind /\ act'.task = t /\ act'.reservation = Prepare(1)
      /\ act'.was = was /\ act'.usable = FALSE
  BY DEF At
<1>3. HandlerHolds'
  BY <1>1, <1>2 DEF HandlerHolds
<1>4. ReservationFresh'
  BY <1>1, <1>2 DEF ReservationFresh, ExpectedSource
<1> QED
  BY <1>3, <1>4 DEF ActorInv

\* A delete begins: the pending removal holds the reservation.
LEMMA DeleteHolds ==
    ASSUME IInv, NEW t \in created, act' = At("saving", "delete", t, None, None),
           removal' \in Removals, removal'.task = t, UNCHANGED <<clock, created>>,
           ExpectedSource(removal'.reservation) = clock
    PROVE  ActorInv'
<1>1. /\ act'.pc = "saving" /\ act'.kind = "delete" /\ act'.task = t /\ act'.reservation = None
      /\ act'.usable = FALSE
  BY DEF At
<1>2. HandlerHolds'
  BY <1>1 DEF HandlerHolds
<1>3. ReservationFresh'
  BY <1>1 DEF ReservationFresh, ExpectedSource
<1> QED
  BY <1>2, <1>3 DEF ActorInv

LEMMA FireHolds ==
    ASSUME IInv, NEW t \in Tasks, Fire(t)
    PROVE  ActorInv' /\ act' \in Handlers /\ act'.pc \in {"spawn", "query"}
<1> DEFINE n == IF t \in OneShots THEN 2 ELSE 1
           at == IF tasks[t].anchor = None THEN "spawn" ELSE "query"
<1>1. /\ Room(n) /\ act' = At(at, "fire", t, Prepare(n), tasks[t]) /\ removal = None
      /\ t \in DOMAIN tasks /\ UNCHANGED <<clock, removal, created>>
  BY DEF Fire, Due
<1>2. n \in {1, 2} /\ at \in {"spawn", "query"} /\ (at = "query" => tasks[t].anchor # None)
  OBVIOUS
<1> HIDE DEF at
<1>3. /\ Prepare(n) \in Reservation /\ Prepare(n).remaining = n
      /\ Prepare(n).next + n <= MaxRevision + 1 /\ ExpectedSource(Prepare(n)) = clock
  BY <1>1, <1>2, PrepareType DEF IInv, TypeOK
<1>4. tasks[t] \in Record /\ t \in created
  BY <1>1, SnapshotElement DEF IInv, TypeOK, CopiesGenuine, Genuine
<1>5. /\ act'.pc = at /\ act'.kind = "fire" /\ act'.task = t /\ act'.reservation = Prepare(n)
      /\ act'.was = tasks[t] /\ act'.usable = FALSE
  BY <1>1 DEF At
<1>6. HandlerHolds'
  BY <1>1, <1>2, <1>3, <1>4, <1>5 DEF HandlerHolds
<1>7. ReservationFresh'
  BY <1>1, <1>3, <1>5 DEF ReservationFresh, ExpectedSource
<1>8. act' \in Handlers
  BY <1>1, <1>2, <1>3, <1>4, AtType DEF Pcs, Kinds
<1> QED
  BY <1>2, <1>5, <1>6, <1>7, <1>8 DEF ActorInv

-----------------------------------------------------------------------------
(* One lemma per action *)

LEMMA Parts ==
    ASSUME TypeOK', ActorInv', CopiesInv'
    PROVE  IInv'
BY DEF IInv, ActorInv, CopiesInv

\* A queue with one more flush of the tasks is a queue.
LEMMA EnqueueType ==
    ASSUME IInv, NEW m \in Snapshots,
           queue' = Append(queue, [snapshot |-> m, flush |-> TRUE, awaited |-> TRUE])
    PROVE  queue' \in Seq(Entry)
BY DEF IInv, TypeOK, Entry

LEMMA CreateInv ==
    ASSUME IInv, NEW t \in Tasks, NEW p \in Prompts, NEW d \in BOOLEAN, Create(t, p, d)
    PROVE  IInv'
<1>1. tasks' \in Snapshots
  <2>1. NewRecord(p, d) \in Record
    BY SchedulerParameters DEF NewRecord, Record
  <2>2. tasks' = With(tasks, t, NewRecord(p, d))
    BY DEF Create
  <2> QED
    BY <2>1, <2>2, WithType DEF IInv, TypeOK
<1>2. clock' \in Version
  BY AfterType, SchedulerParameters DEF Create, IInv, TypeOK
<1>3. TypeOK'
  BY <1>1, <1>2 DEF IInv, TypeOK, Create, store, world
<1>4. ActorInv'
  <2>1. act.pc = "idle" /\ removal = None /\ UNCHANGED <<act, removal>> /\ created' = created \cup {t}
    BY DEF Create, Ready
  <2>2. HandlerHolds'
    BY <2>1 DEF IInv, HandlerHolds
  <2>3. ReservationFresh'
    BY <2>1 DEF IInv, HandlerHolds, ReservationFresh
  <2> QED
    BY <2>2, <2>3 DEF ActorInv
<1> QED
  BY <1>3, <1>4, CreateCopies, Parts

LEMMA UpdateInv ==
    ASSUME IInv, NEW t \in Tasks, NEW p \in Prompts, Update(t, p)
    PROVE  IInv'
<1>1. tasks \in Snapshots /\ t \in DOMAIN tasks /\ tasks[t] \in Record
  BY SnapshotElement DEF Update, IInv, TypeOK
<1>2. tasks' \in Snapshots /\ DOMAIN tasks' = DOMAIN tasks
  <2> DEFINE r == [tasks[t] EXCEPT !.prompt = p, !.reset = TRUE, !.iterations = 0]
  <2>1. r \in Record
    <3>1. 0 \in 0..FreshEvery /\ None \in Children \cup {None} /\ TRUE \in BOOLEAN
      BY SchedulerParameters
    <3> QED
      BY <1>1, <3>1, RecordUpdates, Zenon
  <2>2. p # tasks[t].prompt => tasks' = [tasks EXCEPT ![t] = r]
    BY <1>1 DEF Update
  <2>3. p = tasks[t].prompt => tasks' = tasks
    BY DEF Update
  <2> HIDE DEF r
  <2>4. tasks \in [DOMAIN tasks -> Record]
    BY <1>1, SnapshotDef
  <2>5. DOMAIN [tasks EXCEPT ![t] = r] = DOMAIN tasks /\ [tasks EXCEPT ![t] = r] \in [DOMAIN tasks -> Record]
    BY <1>1, <2>1, <2>4
  <2> QED
    BY <1>1, <2>2, <2>3, <2>5, RewriteType
<1>3. clock' \in Version
  BY AfterType, SchedulerParameters DEF Update, IInv, TypeOK
<1>4. TypeOK'
  BY <1>2, <1>3 DEF IInv, TypeOK, Update, store, world
<1>5. ActorInv'
  <2>1. act.pc = "idle" /\ removal = None /\ UNCHANGED <<act, removal>> /\ created' = created
    BY DEF Update, Ready
  <2>2. HandlerHolds'
    BY <2>1 DEF IInv, HandlerHolds
  <2>3. ReservationFresh'
    BY <2>1 DEF IInv, HandlerHolds, ReservationFresh
  <2> QED
    BY <2>2, <2>3 DEF ActorInv
<1>6. CopiesInv'
  BY <1>2, CopiesKept DEF Update, store
<1> QED
  BY <1>4, <1>5, <1>6, Parts

LEMMA DeleteFirstInv ==
    ASSUME IInv, NEW t \in Tasks, DeleteFirst(t)
    PROVE  IInv'
<1> DEFINE a == At("saving", "delete", t, None, None)
<1>1. /\ act.pc = "idle" /\ removal = None /\ t \in DOMAIN tasks /\ Room(1)
      /\ tasks' = Without(tasks, {t}) /\ removal' = [task |-> t, reservation |-> Prepare(1)]
      /\ queue' = Append(queue, [snapshot |-> tasks', flush |-> TRUE, awaited |-> TRUE])
      /\ act' = a /\ UNCHANGED <<debounced, disk>>
      /\ UNCHANGED <<created, blocked, clock, child, guards, expired, target, cancelled, gone>>
  BY DEF DeleteFirst, Ready, Enqueue, world
<1>2. tasks' \in Snapshots /\ DOMAIN tasks' = DOMAIN tasks \ {t} /\ t \in created
  BY <1>1, WithoutType DEF IInv, TypeOK, CopiesGenuine, Genuine
<1>3. Prepare(1) \in Reservation /\ ExpectedSource(Prepare(1)) = clock
  BY <1>1, PrepareType DEF IInv, TypeOK
<1>4. /\ removal' \in Removals /\ removal'.task = t
      /\ removal'.reservation = Prepare(1)
  BY <1>1, <1>3 DEF Removals
<1>5. a \in Handlers
  BY AtType DEF Pcs, Kinds
<1>6. TypeOK'
  BY <1>1, <1>2, <1>4, <1>5, EnqueueType DEF IInv, TypeOK, Removals
<1>8. ActorInv'
  BY <1>1, <1>2, <1>3, <1>4, DeleteHolds
<1>9. CopiesInv'
  <2>1. a.pc = "saving" /\ a.task = t /\ a.ack = "waiting" /\ a.kind = "delete"
    BY DEF At
  <2> QED
    BY <1>1, <1>2, <1>4, <2>1, RemovalStarts
<1> QED
  BY <1>6, <1>8, <1>9, Parts

LEMMA DeleteAgainInv ==
    ASSUME IInv, DeleteAgain
    PROVE  IInv'
<1>1. /\ act.pc = "idle" /\ removal # None /\ UNCHANGED tasks
      /\ UNCHANGED <<created, blocked, clock, child, guards, expired, target, cancelled, gone>>
  BY DEF DeleteAgain, Ready, world
<1>2. CASE target
  <2> DEFINE t == removal.task
             a == At("saving", "delete", t, None, None)
  <2>1. /\ queue' = Append(queue, [snapshot |-> tasks', flush |-> TRUE, awaited |-> TRUE])
        /\ act' = a /\ UNCHANGED <<debounced, disk, removal>>
    BY <1>1, <1>2 DEF DeleteAgain, Enqueue
  <2>2. removal \in Removals /\ t \in Tasks /\ t \in created /\ t \notin DOMAIN tasks
    BY <1>1 DEF IInv, TypeOK, RemovalHolds, Removals
  <2>3. a \in Handlers
    BY <2>2, AtType DEF Pcs, Kinds
  <2>4. TypeOK'
    BY <1>1, <2>1, <2>3, EnqueueType DEF IInv, TypeOK
  <2>5. ActorInv'
    <3>1. ExpectedSource(removal'.reservation) = clock
      BY <1>1, <2>1 DEF IInv, ReservationFresh, ExpectedSource
    <3> QED
      BY <1>1, <2>1, <2>2, <3>1, DeleteHolds
  <2>6. CopiesInv'
    <3>1. a.pc = "saving" /\ a.task = t /\ a.ack = "waiting" /\ a.kind = "delete"
      BY DEF At
    <3>2. DOMAIN tasks' = DOMAIN tasks \ {t} /\ tasks' \in Snapshots
      BY <1>1, <2>2 DEF IInv, TypeOK
    <3> QED
      BY <1>1, <2>1, <2>2, <3>1, <3>2, RemovalStarts
  <2> QED
    BY <2>4, <2>5, <2>6, Parts
<1>3. CASE ~target
  <2>1. removal' = None /\ UNCHANGED <<act, queue, debounced, disk>>
    BY <1>3 DEF DeleteAgain, store
  <2>2. TypeOK'
    BY <1>1, <2>1 DEF IInv, TypeOK
  <2>3. ActorInv'
    BY <1>1, <2>1 DEF IInv, ActorInv, HandlerHolds, ReservationFresh
  <2>4. CopiesInv'
    BY <1>1, <2>1, CopiesKept
  <2> QED
    BY <2>2, <2>3, <2>4, Parts
<1> QED
  BY <1>2, <1>3

\* An expiry that begins, durable or not.
LEMMA ExpiryBegins ==
    ASSUME IInv, NEW t \in Tasks, NEW kind \in {"expiry", "soft"}, NEW was \in Record \cup {None},
           kind = "expiry" => was \in Record, Due(t), Room(1),
           tasks' = Without(tasks, {t}), Enqueue(tasks', At("saving", kind, t, Prepare(1), was)),
           UNCHANGED <<created, blocked, clock, removal, child, guards, world, gone>>
    PROVE  IInv'
<1> DEFINE a == At("saving", kind, t, Prepare(1), was)
<1>1. /\ act.pc = "idle" /\ removal = None /\ t \in DOMAIN tasks
      /\ queue' = Append(queue, [snapshot |-> tasks', flush |-> TRUE, awaited |-> TRUE])
      /\ act' = a /\ UNCHANGED <<debounced, disk, expired, target, cancelled>>
  BY DEF Due, Ready, Enqueue, world
<1>2. tasks' \in Snapshots /\ DOMAIN tasks' = DOMAIN tasks \ {t} /\ t \in created
  BY <1>1, WithoutType DEF IInv, TypeOK, CopiesGenuine, Genuine
<1>3. a \in Handlers
  <2>1. Prepare(1) \in Reservation
    BY PrepareType DEF IInv, TypeOK
  <2> QED
    BY <2>1, AtType DEF Pcs, Kinds
<1>4. TypeOK'
  BY <1>1, <1>2, <1>3, EnqueueType DEF IInv, TypeOK
<1>5. ActorInv'
  BY <1>1, <1>2, ExpiryHolds
<1>6. CopiesInv'
  <2>1. a.pc = "saving" /\ a.task = t /\ a.ack = "waiting"
    BY DEF At
  <2> QED
    BY <1>1, <1>2, <2>1, RemovalStarts
<1> QED
  BY <1>4, <1>5, <1>6, Parts

LEMMA ExpireInv ==
    ASSUME IInv, NEW t \in Tasks, ExpireDurable(t) \/ ExpireSoft(t)
    PROVE  IInv'
<1>1. CASE ExpireSoft(t)
  BY <1>1, ExpiryBegins DEF ExpireSoft
<1>2. CASE ExpireDurable(t) /\ target
  <2>1. tasks[t] \in Record
    BY <1>2, SnapshotElement DEF ExpireDurable, Due, IInv, TypeOK
  <2> QED
    BY <1>2, <2>1, ExpiryBegins DEF ExpireDurable
<1>3. CASE ExpireDurable(t) /\ ~target
  <2>1. /\ blocked' = blocked \cup {t} /\ UNCHANGED <<tasks, act, queue, debounced, disk>>
        /\ UNCHANGED <<created, clock, removal, child, guards, expired, target, cancelled, gone>>
    BY <1>3 DEF ExpireDurable, store, world
  <2>2. TypeOK'
    BY <2>1 DEF IInv, TypeOK
  <2> QED
    BY <2>1, <2>2, ActorKept, CopiesKept, Parts
<1> QED
  BY <1>1, <1>2, <1>3

LEMMA FireInv ==
    ASSUME IInv, NEW t \in Tasks, Fire(t)
    PROVE  IInv'
<1>1. /\ act.pc = "idle" /\ UNCHANGED <<tasks, created, blocked, clock, removal, child, guards>>
      /\ UNCHANGED <<queue, debounced, disk, expired, target, cancelled, gone>>
  BY DEF Fire, Due, Ready, store, world
<1>2. TypeOK'
  BY <1>1, FireHolds DEF IInv, TypeOK
<1>3. CopiesInv'
  BY <1>1, FireHolds, CopiesKept
<1> QED
  BY <1>2, <1>3, FireHolds, Parts

\* A fire goes on to its next wait with what it holds.
LEMMA FireGoesOn ==
    ASSUME IInv, act.pc \in {"query", "unit", "spawn"}, NEW pc \in {"unit", "spawn", "register"},
           NEW u \in BOOLEAN, u => act.was.anchor # None, NEW c \in Children \cup {None},
           pc = "register" => c \in Children,
           act' = [act EXCEPT !.pc = pc, !.usable = u, !.child = c],
           UNCHANGED <<clock, removal, created>>
    PROVE  ActorInv' /\ act' \in Handlers /\ act'.pc = pc
<1>1. act \in Handlers
  BY DEF IInv, TypeOK
<1>2. /\ act'.pc = pc /\ act'.usable = u /\ act'.child = c /\ act'.kind = act.kind /\ act'.task = act.task
      /\ act'.reservation = act.reservation /\ act'.was = act.was
  BY <1>1 DEF Handlers
<1>3. act' \in Handlers
  <2>1. \A h \in Handlers : /\ [h EXCEPT !.pc = pc] \in Handlers /\ [h EXCEPT !.usable = u] \in Handlers
                            /\ [h EXCEPT !.child = c] \in Handlers
    BY DEF Handlers
  <2>2. [[[act EXCEPT !.pc = pc] EXCEPT !.usable = u] EXCEPT !.child = c] \in Handlers
    BY <1>1, <2>1
  <2> QED
    BY <2>2, Zenon
<1>4. HandlerHolds'
  BY <1>2 DEF IInv, HandlerHolds
<1>5. ReservationFresh'
  BY <1>2 DEF IInv, HandlerHolds, ReservationFresh, ExpectedSource
<1> QED
  BY <1>2, <1>3, <1>4, <1>5 DEF ActorInv

LEMMA QueryInv ==
    ASSUME IInv, NEW known \in BOOLEAN, QueryAnswered(known)
    PROVE  IInv'
<1> DEFINE status == child[act.was.anchor].status
           u == known /\ status = "completed"
<1>1. /\ act.pc = "query" /\ act \in Handlers
      /\ UNCHANGED <<tasks, created, blocked, clock, removal, child, guards>>
      /\ UNCHANGED <<queue, debounced, disk, expired, target, cancelled, gone>>
      /\ act' = IF status = "live" THEN Idle ELSE [act EXCEPT !.pc = "unit", !.usable = u]
  BY DEF QueryAnswered, IInv, TypeOK, store, world
<1>2. ActorInv' /\ act' \in Handlers /\ act'.pc \in {"idle", "unit"}
  <2>1. CASE status = "live"
    BY <1>1, <2>1, BackToLoop, IdleFields
  <2>2. CASE status # "live"
    <3>1. act' = [act EXCEPT !.pc = "unit", !.usable = u, !.child = act.child]
      BY <1>1, <2>2 DEF Handlers
    <3>2. u \in BOOLEAN /\ act.child \in Children \cup {None} /\ act.was.anchor # None
      BY <1>1 DEF Handlers, IInv, HandlerHolds
    <3> HIDE DEF u
    <3> QED
      BY <1>1, <3>1, <3>2, FireGoesOn
  <2> QED
    BY <2>1, <2>2
<1>3. TypeOK'
  BY <1>1, <1>2 DEF IInv, TypeOK
<1> QED
  BY <1>1, <1>2, <1>3, CopiesKept, Parts

LEMMA UnitInv ==
    ASSUME IInv, UnitAnswered
    PROVE  IInv'
<1>1. /\ act.pc = "unit" /\ act \in Handlers
      /\ UNCHANGED <<tasks, created, blocked, clock, removal, child, guards>>
      /\ UNCHANGED <<queue, debounced, disk, expired, target, cancelled, gone>>
      /\ act' = Idle \/ act' = [act EXCEPT !.pc = "spawn"]
  BY DEF UnitAnswered, IInv, TypeOK, store, world
<1>2. ActorInv' /\ act' \in Handlers /\ act'.pc \in {"idle", "spawn"}
  <2>1. CASE act' = Idle
    BY <1>1, <2>1, BackToLoop, IdleFields
  <2>2. CASE act' = [act EXCEPT !.pc = "spawn"]
    <3>1. act' = [act EXCEPT !.pc = "spawn", !.usable = act.usable, !.child = act.child]
      BY <1>1, <2>2 DEF Handlers
    <3>2. act.usable \in BOOLEAN /\ act.child \in Children \cup {None} /\ (act.usable => act.was.anchor # None)
      BY <1>1 DEF Handlers, IInv, HandlerHolds
    <3> QED
      BY <1>1, <3>1, <3>2, FireGoesOn
  <2> QED
    BY <1>1, <2>1, <2>2
<1>3. TypeOK'
  BY <1>1, <1>2 DEF IInv, TypeOK
<1> QED
  BY <1>1, <1>2, <1>3, CopiesKept, Parts

LEMMA SkipInv ==
    ASSUME IInv, Skip
    PROVE  IInv'
<1>1. /\ act.pc \in {"query", "unit", "register"} /\ act' = Idle
      /\ UNCHANGED <<tasks, created, blocked, clock, removal, child, guards>>
      /\ UNCHANGED <<queue, debounced, disk, expired, target, cancelled, gone>>
  BY DEF Skip, Done, store, world
<1>2. TypeOK'
  BY <1>1, IdleFields DEF IInv, TypeOK
<1> QED
  BY <1>1, <1>2, BackToLoop, CopiesKept, IdleFields, Parts

ChildRecord == [task : Tasks \cup {None}, status : Status, unit : BOOLEAN, transcript : SUBSET Prompts]

LEMMA SpawnInv ==
    ASSUME IInv, NEW c \in Children, Spawn(c)
    PROVE  IInv'
<1>1. /\ act.pc = "spawn" /\ act \in Handlers
      /\ UNCHANGED <<created, blocked, clock, removal, guards>>
      /\ UNCHANGED <<queue, debounced, disk, expired, target, cancelled, gone>>
  BY DEF Spawn, IInv, TypeOK, store, world
<1>2. act.task \in Tasks /\ act.was \in Record /\ (act.usable => act.was.anchor # None)
  BY <1>1 DEF IInv, HandlerHolds
<1>3. CASE act.task \notin DOMAIN tasks
  <2>1. act' = Idle /\ UNCHANGED <<tasks, child>>
    BY <1>3 DEF Spawn, Done
  <2>2. TypeOK'
    BY <1>1, <2>1, IdleFields DEF IInv, TypeOK
  <2> QED
    BY <1>1, <2>1, <2>2, BackToLoop, CopiesKept, IdleFields, Parts
<1>4. CASE act.task \in DOMAIN tasks
  <2> DEFINE n == IF Resumes THEN act.was.iterations + 1 ELSE 1
             told == {act.was.prompt} \cup (IF Resumes THEN child[act.was.anchor].transcript ELSE {})
             r == [tasks[act.task] EXCEPT !.anchor = c, !.iterations = n, !.reset = FALSE]
             k == [task |-> act.task, status |-> "sent", unit |-> FALSE, transcript |-> told]
  <2>1. /\ tasks' = [tasks EXCEPT ![act.task].anchor = c, ![act.task].iterations = n,
                                  ![act.task].reset = FALSE]
        /\ child' = [child EXCEPT ![c] = k]
        /\ act' = [act EXCEPT !.pc = "register", !.child = c]
    BY <1>4 DEF Spawn
  <2>2. tasks' = [tasks EXCEPT ![act.task] = r]
    BY <1>4, <2>1
  <2>3. r \in Record
    <3>1. n \in 0..FreshEvery
      <4>1. act.was.iterations \in 0..FreshEvery
        BY <1>2 DEF Record
      <4>2. Resumes => act.was.iterations < FreshEvery
        BY DEF Resumes
      <4> QED
        BY <4>1, <4>2, SchedulerParameters
    <3>2. tasks[act.task] \in Record /\ c \in Children \cup {None} /\ FALSE \in BOOLEAN
      BY <1>4, SnapshotElement DEF IInv, TypeOK
    <3> HIDE DEF n
    <3> QED
      BY <3>1, <3>2, RecordUpdates, Zenon
  <2>4. k \in ChildRecord
    <3>1. act.was.prompt \in Prompts /\ act.was.anchor \in Children \cup {None}
      BY <1>2 DEF Record
    <3>2. Resumes => act.was.anchor \in Children
      BY <1>2, <3>1 DEF Resumes
    <3>3. child \in [Children -> ChildRecord]
      BY DEF IInv, TypeOK, ChildRecord
    <3>4. \A d \in Children : child[d].transcript \in SUBSET Prompts
      BY <3>3 DEF ChildRecord
    <3>5. told \in SUBSET Prompts
      BY <3>1, <3>2, <3>4
    <3> HIDE DEF told
    <3> QED
      BY <1>2, <3>5 DEF ChildRecord, Status
  <2>5. child' \in [Children -> ChildRecord]
    <3> HIDE DEF k
    <3> QED
      BY <2>1, <2>4 DEF IInv, TypeOK, ChildRecord
  <2>6. tasks' \in Snapshots /\ DOMAIN tasks' = DOMAIN tasks
    <3>1. tasks \in Snapshots /\ tasks \in [DOMAIN tasks -> Record]
      BY SnapshotDef DEF IInv, TypeOK
    <3> HIDE DEF r
    <3>2. DOMAIN tasks' = DOMAIN tasks /\ tasks' \in [DOMAIN tasks -> Record]
      BY <2>2, <2>3, <3>1
    <3> QED
      BY <3>1, <3>2, RewriteType
  <2>7. ActorInv' /\ act' \in Handlers /\ act'.pc = "register"
    <3>1. act' = [act EXCEPT !.pc = "register", !.usable = act.usable, !.child = c]
      BY <1>1, <2>1 DEF Handlers
    <3>2. act.usable \in BOOLEAN
      BY <1>1 DEF Handlers
    <3> QED
      BY <1>1, <1>2, <3>1, <3>2, FireGoesOn
  <2>8. TypeOK'
    BY <1>1, <2>5, <2>6, <2>7 DEF IInv, TypeOK, ChildRecord
  <2> QED
    BY <1>1, <2>6, <2>7, <2>8, CopiesKept, Parts
<1> QED
  BY <1>3, <1>4

LEMMA RefusedInv ==
    ASSUME IInv, Refused
    PROVE  IInv'
<1>1. /\ act.pc = "register" /\ act' = Idle /\ tasks' = RestoreFireAnchor
      /\ UNCHANGED <<created, blocked, clock, removal, child, guards>>
      /\ UNCHANGED <<queue, debounced, disk, expired, target, cancelled, gone>>
  BY DEF Refused, Done, store, world
<1>2. tasks' \in Snapshots /\ DOMAIN tasks' = DOMAIN tasks
  <2>1. tasks \in Snapshots /\ tasks \in [DOMAIN tasks -> Record]
    BY SnapshotDef DEF IInv, TypeOK
  <2>2. act.was.anchor \in Children \cup {None} /\ act.was.iterations \in 0..FreshEvery /\ act.was.reset \in BOOLEAN
    <3>1. act.was \in Record
      BY <1>1 DEF IInv, HandlerHolds
    <3> QED
      BY <3>1 DEF Record
  <2>3. \A t \in DOMAIN tasks :
          [tasks[t] EXCEPT !.anchor = act.was.anchor, !.iterations = act.was.iterations,
                           !.reset = act.was.reset] \in Record
    <3>1. \A t \in DOMAIN tasks : tasks[t] \in Record
      BY <2>1
    <3> QED
      BY <2>2, <3>1, RecordUpdates, Zenon
  <2>4. DOMAIN tasks' = DOMAIN tasks /\ tasks' \in [DOMAIN tasks -> Record]
    BY <1>1, <2>1, <2>3 DEF RestoreFireAnchor
  <2> QED
    BY <2>1, <2>4, RewriteType
<1>3. TypeOK'
  BY <1>1, <1>2, IdleFields DEF IInv, TypeOK
<1> QED
  BY <1>1, <1>2, <1>3, BackToLoop, CopiesKept, IdleFields, Parts

LEMMA GuardInv ==
    ASSUME IInv, NEW c \in Children, Guard(c)
    PROVE  IInv'
<1>1. /\ guards' = guards \ {c} /\ tasks' \in {tasks, Cleared(c)}
      /\ UNCHANGED <<created, blocked, clock, removal, act, child>>
      /\ UNCHANGED <<queue, debounced, disk, expired, target, cancelled, gone>>
  BY DEF Guard, store, world
<1>2. tasks' \in Snapshots /\ DOMAIN tasks' = DOMAIN tasks
  <2>1. tasks \in Snapshots /\ tasks \in [DOMAIN tasks -> Record]
    BY SnapshotDef DEF IInv, TypeOK
  <2>2. \A t \in DOMAIN tasks : [tasks[t] EXCEPT !.anchor = None, !.iterations = 0] \in Record
    <3>1. (\A t \in DOMAIN tasks : tasks[t] \in Record) /\ 0 \in 0..FreshEvery
          /\ None \in Children \cup {None} /\ TRUE \in BOOLEAN
      BY <2>1, SchedulerParameters
    <3> QED
      BY <3>1, RecordUpdates, Zenon
  <2>3. DOMAIN Cleared(c) = DOMAIN tasks /\ Cleared(c) \in [DOMAIN tasks -> Record]
    BY <2>1, <2>2 DEF Cleared
  <2> QED
    BY <1>1, <2>1, <2>3, RewriteType
<1>3. TypeOK'
  BY <1>1, <1>2 DEF IInv, TypeOK
<1> QED
  BY <1>1, <1>2, <1>3, ActorKept, CopiesKept, Parts

LEMMA FiredInv ==
    ASSUME IInv, Fired
    PROVE  IInv'
<1> DEFINE r == act.reservation
           t == act.task
<1>1. /\ act.pc = "register" /\ act.child \in Children /\ guards' = guards \cup {act.child}
      /\ clock' = Committed(r)
      /\ UNCHANGED <<created, blocked, removal, child, expired, target, cancelled, gone>>
  BY DEF Fired, IInv, HandlerHolds, world
<1>2. /\ r \in Reservation /\ r.next + r.remaining <= MaxRevision + 1 /\ t \in Tasks /\ t \in created
      /\ r.remaining = (IF t \in OneShots THEN 2 ELSE 1) /\ removal = None
  BY <1>1 DEF IInv, HandlerHolds
<1>3. clock' \in Version
  BY <1>1, <1>2, CommitType
<1>4. CASE t \notin OneShots
  <2>1. act' = Idle /\ UNCHANGED <<tasks, queue, debounced, disk>>
    BY <1>4 DEF Fired, Done, store
  <2>2. TypeOK'
    BY <1>1, <1>3, <2>1, IdleFields DEF IInv, TypeOK
  <2> QED
    BY <1>1, <1>2, <2>1, <2>2, BackToLoop, CopiesKept, IdleFields, Parts
<1>5. CASE t \in OneShots
  <2> DEFINE a == At("saving", "oneshot", t, Rest(r), None)
  <2>1. /\ tasks' = Without(tasks, {t}) /\ act' = a /\ UNCHANGED <<debounced, disk>>
        /\ queue' = Append(queue, [snapshot |-> tasks', flush |-> TRUE, awaited |-> TRUE])
    BY <1>5 DEF Fired, Enqueue
  <2>2. tasks' \in Snapshots /\ DOMAIN tasks' = DOMAIN tasks \ {t}
    BY <2>1, WithoutType DEF IInv, TypeOK
  <2>3. Rest(r) \in Reservation /\ ExpectedSource(Rest(r)) = clock'
    BY <1>1, <1>2, <1>5, CommitType
  <2>4. a \in Handlers
    BY <1>2, <2>3, AtType DEF Pcs, Kinds
  <2>5. TypeOK'
    BY <1>1, <1>3, <2>1, <2>2, <2>4, EnqueueType DEF IInv, TypeOK
  <2>6. /\ act'.pc = "saving" /\ act'.kind = "oneshot" /\ act'.task = t /\ act'.ack = "waiting"
        /\ act'.reservation = Rest(r) /\ act'.usable = FALSE
    BY <2>1 DEF At
  <2>7. ActorInv'
    <3>1. HandlerHolds'
      BY <1>1, <1>2, <2>3, <2>6 DEF HandlerHolds
    <3>2. ReservationFresh'
      BY <1>1, <1>2, <2>3, <2>6 DEF ReservationFresh, ExpectedSource
    <3> QED
      BY <3>1, <3>2 DEF ActorInv
  <2>8. CopiesInv'
    BY <1>1, <1>2, <2>1, <2>2, <2>6, RemovalStarts
  <2> QED
    BY <2>5, <2>7, <2>8, Parts
<1> QED
  BY <1>4, <1>5

\* What a handler that waited for a flush goes on with.
LEMMA SaveEndedFacts ==
    ASSUME IInv, NEW outcome, SaveEnded(outcome)
    PROVE  /\ act.pc = "saving" /\ queue' \in Seq(Entry) /\ UNCHANGED <<debounced, disk>>
           /\ act \in Handlers /\ act.task \in created /\ created \subseteq Tasks
BY ForgetFacts DEF SaveEnded, IInv, TypeOK, HandlerHolds

\* The tombstone goes out.
LEMMA PublishHolds ==
    ASSUME IInv, act.pc = "saving", act.kind \in {"delete", "expiry"}, Publish,
           UNCHANGED <<clock, removal, created>>
    PROVE  ActorInv' /\ act' \in Handlers /\ act'.pc = "publishing" /\ gone' \subseteq Tasks
<1>1. act \in Handlers /\ act' = [act EXCEPT !.pc = "publishing"] /\ gone' = gone \cup {act.task}
  BY DEF Publish, IInv, TypeOK
<1>2. /\ act'.pc = "publishing" /\ act'.kind = act.kind /\ act'.task = act.task /\ act' \in Handlers
      /\ act'.reservation = act.reservation /\ act'.was = act.was /\ act'.usable = act.usable
  BY <1>1 DEF Handlers
<1>3. HandlerHolds'
  BY <1>2 DEF IInv, HandlerHolds
<1>4. ReservationFresh'
  BY <1>2 DEF IInv, ReservationFresh, ExpectedSource
<1>5. gone' \subseteq Tasks
  BY <1>1 DEF IInv, HandlerHolds, TypeOK
<1> QED
  BY <1>2, <1>3, <1>4, <1>5 DEF ActorInv

LEMMA DeleteSavedInv ==
    ASSUME IInv, NEW outcome, DeleteSaved(outcome)
    PROVE  IInv'
<1>1. /\ SaveEnded(outcome) /\ act.kind = "delete"
      /\ UNCHANGED <<tasks, created, blocked, clock, removal, child, guards, expired, target, cancelled>>
  BY DEF DeleteSaved, world
<1>2. /\ act.pc = "saving" /\ queue' \in Seq(Entry) /\ UNCHANGED <<debounced, disk>>
  BY <1>1, SaveEndedFacts
<1>3. CASE outcome = "ok"
  <2>1. Publish
    BY <1>3 DEF DeleteSaved
  <2>2. ActorInv' /\ act' \in Handlers /\ act'.pc = "publishing" /\ gone' \subseteq Tasks
    BY <1>1, <1>2, <2>1, PublishHolds
  <2>3. TypeOK'
    BY <1>1, <1>2, <2>2 DEF IInv, TypeOK
  <2>4. CopiesInv'
    BY <1>1, <1>3, <2>1, <2>2, WaitEnds DEF Publish
  <2> QED
    BY <2>2, <2>3, <2>4, Parts
<1>4. CASE outcome # "ok"
  <2>1. act' = Idle /\ gone' = gone
    BY <1>4 DEF DeleteSaved, Done
  <2>2. TypeOK'
    BY <1>1, <1>2, <2>1, IdleFields DEF IInv, TypeOK
  <2>3. CopiesInv'
    BY <1>1, <2>1, IdleFields, WaitEnds
  <2>4. ActorInv'
    BY <1>1, <1>2, <2>1, BackToLoop
  <2> QED
    BY <2>2, <2>3, <2>4, Parts
<1> QED
  BY <1>3, <1>4

LEMMA ExpirySavedInv ==
    ASSUME IInv, NEW outcome, ExpirySaved(outcome)
    PROVE  IInv'
<1>1. /\ SaveEnded(outcome) /\ act.kind = "expiry"
      /\ UNCHANGED <<created, clock, removal, child, guards, expired, target, cancelled>>
  BY DEF ExpirySaved, world
<1>2. /\ act.pc = "saving" /\ queue' \in Seq(Entry) /\ UNCHANGED <<debounced, disk>>
      /\ act.task \in Tasks /\ act.was \in Record
  BY <1>1, SaveEndedFacts DEF IInv, HandlerHolds
<1>3. CASE outcome = "ok"
  <2>1. Publish /\ UNCHANGED <<tasks, blocked>>
    BY <1>3 DEF ExpirySaved
  <2>2. ActorInv' /\ act' \in Handlers /\ act'.pc = "publishing" /\ gone' \subseteq Tasks
    BY <1>1, <1>2, <2>1, PublishHolds
  <2>3. TypeOK'
    BY <1>1, <1>2, <2>1, <2>2 DEF IInv, TypeOK
  <2>4. CopiesInv'
    BY <1>1, <1>3, <2>1, <2>2, WaitEnds DEF Publish
  <2> QED
    BY <2>2, <2>3, <2>4, Parts
<1>4. CASE outcome = "err"
  <2>1. /\ tasks' = With(tasks, act.task, act.was) /\ blocked' = blocked \cup {act.task}
        /\ act' = Idle /\ gone' = gone
    BY <1>4 DEF ExpirySaved, Done
  <2>2. tasks' \in Snapshots /\ DOMAIN tasks' = DOMAIN tasks \cup {act.task}
    BY <1>2, <2>1, WithType DEF IInv, TypeOK
  <2>3. TypeOK'
    BY <1>1, <1>2, <2>1, <2>2, IdleFields DEF IInv, TypeOK
  <2>4. CopiesInv'
    BY <1>1, <2>1, <2>2, IdleFields, TakenBack
  <2>5. ActorInv'
    BY <1>1, <1>2, <2>1, BackToLoop
  <2> QED
    BY <2>3, <2>4, <2>5, Parts
<1>5. CASE outcome \notin {"ok", "err"}
  <2>1. act' = Idle /\ UNCHANGED <<tasks, blocked, gone>>
    BY <1>5 DEF ExpirySaved, Done
  <2>2. TypeOK'
    BY <1>1, <1>2, <2>1, IdleFields DEF IInv, TypeOK
  <2>3. CopiesInv'
    BY <1>1, <2>1, IdleFields, WaitEnds
  <2>4. ActorInv'
    BY <1>1, <1>2, <2>1, BackToLoop
  <2> QED
    BY <2>2, <2>3, <2>4, Parts
<1> QED
  BY <1>3, <1>4, <1>5

LEMMA BestEffortSavedInv ==
    ASSUME IInv, NEW outcome, BestEffortSaved(outcome)
    PROVE  IInv'
<1>1. /\ SaveEnded(outcome) /\ act.kind \in {"soft", "oneshot"} /\ clock' = Committed(act.reservation)
      /\ act' = Idle /\ gone' = (IF outcome = "ok" THEN gone \cup {act.task} ELSE gone)
      /\ UNCHANGED <<tasks, created, blocked, removal, child, guards, expired, target, cancelled>>
  BY DEF BestEffortSaved, Done, world
<1>2. /\ act.pc = "saving" /\ queue' \in Seq(Entry) /\ UNCHANGED <<debounced, disk>>
      /\ act.task \in Tasks
  BY <1>1, SaveEndedFacts
<1>3. act.reservation \in Reservation /\ removal = None
  BY <1>1, <1>2 DEF IInv, HandlerHolds
<1>4. clock' \in Version
  BY <1>1, <1>3, CommitType
<1>5. TypeOK'
  BY <1>1, <1>2, <1>4, IdleFields DEF IInv, TypeOK
<1>6. CopiesInv'
  BY <1>1, IdleFields, WaitEnds
<1>7. ActorInv'
  BY <1>1, <1>3, BackToLoop
<1> QED
  BY <1>5, <1>6, <1>7, Parts

LEMMA ReceiptInv ==
    ASSUME IInv, NEW acknowledged \in BOOLEAN, Receipt(acknowledged)
    PROVE  IInv'
<1>1. /\ act.pc = "publishing" /\ act' = Idle
      /\ UNCHANGED <<tasks, created, blocked, child, guards>>
      /\ UNCHANGED <<queue, debounced, disk, expired, target, cancelled, gone>>
  BY DEF Receipt, Done, store, world
<1>2. \/ UNCHANGED <<clock, removal>>
      \/ removal \in Removals /\ clock' = Committed(removal.reservation) /\ removal' = None
      \/ act.reservation \in Reservation /\ clock' = Committed(act.reservation) /\ removal' = None
  BY <1>1 DEF Receipt, IInv, HandlerHolds
<1>3. clock' \in Version /\ removal' \in Removals \cup {None}
  <2>1. removal \in Removals => removal.reservation \in Reservation
    BY DEF Removals
  <2>2. clock \in Version /\ removal \in Removals \cup {None}
    BY DEF IInv, TypeOK, Removals
  <2> QED
    BY <1>2, <2>1, <2>2, CommitType
<1>4. TypeOK'
  BY <1>1, <1>3, IdleFields DEF IInv, TypeOK, Removals
<1>5. ActorInv'
  BY <1>1, <1>2, BackToLoop
<1>6. CopiesInv'
  BY <1>1, <1>2, CopiesKept, IdleFields
<1> QED
  BY <1>4, <1>5, <1>6, Parts

LEMMA StopInv ==
    ASSUME IInv, Stop
    PROVE  IInv'
<1> DEFINE n == Cardinality(DOMAIN tasks)
           a == At("stopped", "none", None, None, None)
<1>1. /\ act.pc = "idle" /\ Room(n) /\ clock' = After(n) /\ act' = a
      /\ UNCHANGED <<tasks, created, blocked, removal, child, guards>>
      /\ UNCHANGED <<queue, debounced, disk, expired, target, cancelled, gone>>
  BY DEF Stop, store, world
<1>2. clock' \in Version
  <2>1. n \in Nat /\ n <= MaxRevision
    BY FS_CardinalityType, SchedulerParameters DEF IInv, CopiesGenuine, Genuine, Small
  <2> HIDE DEF n
  <2> QED
    BY <1>1, <2>1, AfterType DEF IInv, TypeOK
<1>3. a.pc = "stopped" /\ a.reservation = None /\ a.usable = FALSE /\ a \in Handlers
  BY DEF At, Handlers
<1>4. TypeOK'
  BY <1>1, <1>2, <1>3 DEF IInv, TypeOK
<1>5. ActorInv'
  BY <1>1, <1>3 DEF ActorInv, HandlerHolds, ReservationFresh
<1>6. CopiesInv'
  BY <1>1, <1>3, CopiesKept
<1> QED
  BY <1>4, <1>5, <1>6, Parts

LEMMA SaveInv ==
    ASSUME IInv, Save
    PROVE  IInv'
<1>1. /\ queue' = Append(queue, [snapshot |-> tasks, flush |-> FALSE, awaited |-> FALSE])
      /\ UNCHANGED <<tasks, created, blocked, clock, removal, act, child, guards>>
      /\ UNCHANGED <<debounced, disk, expired, target, cancelled, gone>>
  BY DEF Save, world
<1>2. queue' \in Seq(Entry)
  BY <1>1 DEF IInv, TypeOK, Entry
<1>3. TypeOK'
  BY <1>1, <1>2 DEF IInv, TypeOK
<1> QED
  BY <1>1, <1>3, ActorKept, SaveCopies, Parts

LEMMA WriteSaveInv ==
    ASSUME IInv, WriteSave
    PROVE  IInv'
<1>1. /\ queue # <<>> /\ queue' = Tail(queue) /\ debounced' = Head(queue).snapshot
      /\ UNCHANGED <<tasks, created, blocked, clock, removal, act, child, guards>>
      /\ UNCHANGED <<disk, expired, target, cancelled, gone>>
  BY DEF WriteSave, world
<1>2. queue' \in Seq(Entry) /\ debounced' \in Snapshots
  <2>1. Tail(queue) \in Seq(Entry) /\ Head(queue) \in Entry
    BY <1>1, TailFacts DEF IInv, TypeOK
  <2> QED
    BY <1>1, <2>1 DEF Entry
<1>3. TypeOK'
  BY <1>1, <1>2 DEF IInv, TypeOK
<1> QED
  BY <1>1, <1>3, ActorKept, WriteSaveCopies, Parts

LEMMA WriteFlushInv ==
    ASSUME IInv, NEW ok \in BOOLEAN, NEW written \in BOOLEAN, WriteFlush(ok, written)
    PROVE  IInv'
<1> DEFINE answer == IF ok THEN "ok" ELSE "err"
<1>1. /\ queue # <<>> /\ queue' = Tail(queue) /\ debounced' = None
      /\ disk' = (IF ok \/ written THEN Head(queue).snapshot ELSE disk)
      /\ act' = (IF Head(queue).awaited THEN [act EXCEPT !.ack = answer] ELSE act)
      /\ UNCHANGED <<tasks, created, blocked, clock, removal, child, guards>>
      /\ UNCHANGED <<expired, target, cancelled, gone>>
  BY DEF WriteFlush, world
<1>2. queue' \in Seq(Entry) /\ disk' \in Snapshots
  <2>1. Tail(queue) \in Seq(Entry) /\ Head(queue) \in Entry
    BY <1>1, TailFacts DEF IInv, TypeOK
  <2>2. Head(queue).snapshot \in Snapshots /\ disk \in Snapshots
    BY <2>1 DEF Entry, IInv, TypeOK
  <2> QED
    BY <1>1, <2>1, <2>2
<1>3. act \in Handlers /\ answer \in {"ok", "err"}
  BY DEF IInv, TypeOK
<1>4. /\ act' \in Handlers /\ act'.pc = act.pc /\ act'.kind = act.kind /\ act'.task = act.task
      /\ act'.reservation = act.reservation /\ act'.was = act.was /\ act'.usable = act.usable
      /\ act'.child = act.child
  <2> HIDE DEF answer
  <2>1. CASE Head(queue).awaited
    BY <1>1, <1>3, <2>1 DEF Handlers
  <2>2. CASE ~Head(queue).awaited
    BY <1>1, <1>3, <2>2
  <2> QED
    BY <2>1, <2>2
<1>5. TypeOK'
  BY <1>1, <1>2, <1>4 DEF IInv, TypeOK
<1>6. ActorInv'
  <2>1. HandlerHolds'
    BY <1>1, <1>4 DEF IInv, HandlerHolds
  <2>2. ReservationFresh'
    BY <1>1, <1>4 DEF IInv, ReservationFresh, ExpectedSource
  <2> QED
    BY <2>1, <2>2 DEF ActorInv
<1> QED
  BY <1>5, <1>6, WriteFlushCopies, Parts

LEMMA WritePendingInv ==
    ASSUME IInv, NEW ok \in BOOLEAN, WritePending(ok)
    PROVE  IInv'
<1>1. /\ debounced # None /\ debounced' = None /\ disk' = (IF ok THEN debounced ELSE disk)
      /\ UNCHANGED <<tasks, created, blocked, clock, removal, act, child, guards>>
      /\ UNCHANGED <<queue, expired, target, cancelled, gone>>
  BY DEF WritePending, world
<1>2. TypeOK'
  BY <1>1 DEF IInv, TypeOK
<1> QED
  BY <1>1, <1>2, ActorKept, WritePendingCopies, Parts

\* The children, and the rest of the world.
LEMMA OutsideInv ==
    ASSUME IInv, \/ \E c \in Children : Registers(c) \/ Refuses(c) \/ Ends(c) \/ Nests(c)
                 \/ \E t \in Tasks : Expires(t)
                 \/ TargetCloses \/ Cancels
    PROVE  IInv'
<1>1. /\ UNCHANGED <<tasks, created, blocked, clock, removal, act, guards>>
      /\ UNCHANGED <<queue, debounced, disk, gone>>
  BY DEF Registers, Refuses, Ends, Nests, Becomes, Expires, TargetCloses, Cancels, store
<1>2. child' \in [Children -> ChildRecord]
  <2>1. child \in [Children -> ChildRecord]
    BY DEF IInv, TypeOK, ChildRecord
  <2>2. ASSUME NEW c \in Children, NEW x \in Status, Becomes(c, x) PROVE child' \in [Children -> ChildRecord]
    BY <2>1, <2>2 DEF Becomes, ChildRecord
  <2>3. ASSUME NEW c \in Children, Nests(c) PROVE child' \in [Children -> ChildRecord]
    BY <2>1, <2>3 DEF Nests, ChildRecord
  <2>4. \A x \in {"live", "refused", "completed", "failed"} : x \in Status
    BY DEF Status
  <2> QED
    BY <2>1, <2>2, <2>3, <2>4 DEF Registers, Refuses, Ends, Expires, TargetCloses, Cancels
<1>3. expired' \subseteq Tasks /\ target' \in BOOLEAN /\ cancelled' \in BOOLEAN
  BY DEF IInv, TypeOK, Registers, Refuses, Ends, Nests, Becomes, Expires, TargetCloses, Cancels, world
<1>4. TypeOK'
  BY <1>1, <1>2, <1>3 DEF IInv, TypeOK, ChildRecord
<1> QED
  BY <1>1, <1>4, ActorKept, CopiesKept, Parts

LEMMA RestartInv ==
    ASSUME IInv, Restart
    PROVE  IInv'
<1>1. /\ tasks' = disk /\ queue' = <<>> /\ debounced' = None /\ disk' = disk
      /\ act' = Idle /\ removal' = None /\ blocked' = {} /\ guards' = {}
      /\ target' = TRUE /\ cancelled' = FALSE /\ UNCHANGED <<created, expired, gone>>
  BY DEF Restart
<1>2. clock' \in Version
  <2>1. clock' = [generation |-> clock.generation + 1, revision |-> 0] /\ clock.generation < MaxGeneration
    BY Zenon DEF Restart
  <2> QED
    BY <2>1, SchedulerParameters DEF IInv, TypeOK, Version
<1>3. child' \in [Children -> ChildRecord]
  <2>1. \A c \in Children : child[c] \in ChildRecord
    BY DEF IInv, TypeOK, ChildRecord
  <2>2. \A k \in ChildRecord, x \in Status : [k EXCEPT !.task = None, !.unit = FALSE, !.status = x] \in ChildRecord
    <3>1. \A k \in ChildRecord : [k EXCEPT !.task = None] \in ChildRecord /\ [k EXCEPT !.unit = FALSE] \in ChildRecord
      BY DEF ChildRecord
    <3>2. \A k \in ChildRecord, x \in Status : [k EXCEPT !.status = x] \in ChildRecord
      BY DEF ChildRecord
    <3>3. \A k \in ChildRecord, x \in Status :
            [[[k EXCEPT !.task = None] EXCEPT !.unit = FALSE] EXCEPT !.status = x] \in ChildRecord
      BY <3>1, <3>2
    <3> QED
      BY <3>3, Zenon
  <2> DEFINE over(s) == CASE s = "live" -> "failed" [] s = "sent" -> "refused" [] OTHER -> s
  <2>3. \A s \in Status : over(s) \in Status
    BY DEF Status
  <2>4. \A c \in Children : child[c].status \in Status
    BY <2>1 DEF ChildRecord
  <2>5. child' = [c \in Children |-> [child[c] EXCEPT !.task = None, !.unit = FALSE,
                                                      !.status = over(child[c].status)]]
    BY Zenon DEF Restart
  <2> HIDE DEF over
  <2>6. \A c \in Children : [child[c] EXCEPT !.task = None, !.unit = FALSE, !.status = over(child[c].status)] \in ChildRecord
    BY <2>1, <2>2, <2>3, <2>4, Zenon
  <2> QED
    BY <2>5, <2>6, Zenon
<1>4. TypeOK'
  <2>1. <<>> \in Seq(Entry)
    OBVIOUS
  <2> QED
    BY <1>1, <1>2, <1>3, <2>1, IdleFields DEF IInv, TypeOK, ChildRecord
<1> QED
  BY <1>1, <1>4, BackToLoop, RestartCopies, Parts

-----------------------------------------------------------------------------
(* The theorems *)

LEMMA InitInv ==
    ASSUME Init
    PROVE  IInv
<1>1. DOMAIN tasks = {} /\ DOMAIN disk = {} /\ DOMAIN queue = {} /\ act = Idle
  BY EmptyType DEF Init
<1>2. TypeOK
  <2>1. clock \in Version
    BY SchedulerParameters DEF Init, Version
  <2>2. child \in [Children -> ChildRecord]
    BY DEF Init, ChildRecord, Status
  <2>3. queue \in Seq(Entry) /\ tasks \in Snapshots /\ disk \in Snapshots
    BY EmptyType DEF Init
  <2>4. /\ act \in Handlers /\ debounced = None /\ removal = None /\ guards = {} /\ created = {}
        /\ expired = {} /\ blocked = {} /\ gone = {} /\ target \in BOOLEAN /\ cancelled \in BOOLEAN
    BY IdleFields DEF Init
  <2> QED
    BY <2>1, <2>2, <2>3, <2>4 DEF TypeOK, ChildRecord
<1>3. HandlerHolds /\ ReservationFresh
  BY <1>1, IdleFields DEF Init, HandlerHolds, ReservationFresh
<1>4. CopiesGenuine
  BY <1>1, IdleFields, SmallEmpty DEF Init, CopiesGenuine, Genuine
<1>5. AwaitedFlush /\ RemovalHolds /\ NoResurrection
  BY <1>1, IdleFields DEF Init, AwaitedFlush, RemovalHolds, NoResurrection
<1> QED
  BY <1>2, <1>3, <1>4, <1>5 DEF IInv

LEMMA StepInv ==
    ASSUME IInv, Next
    PROVE  IInv'
<1>1. ASSUME NEW t \in Tasks, NEW p \in Prompts, NEW d \in BOOLEAN, Create(t, p, d) PROVE IInv'
  BY <1>1, CreateInv
<1>2. ASSUME NEW t \in Tasks, NEW p \in Prompts, Update(t, p) PROVE IInv'
  BY <1>2, UpdateInv
<1>3. ASSUME NEW t \in Tasks, DeleteFirst(t) \/ ExpireDurable(t) \/ ExpireSoft(t) \/ Fire(t) \/ Expires(t)
      PROVE  IInv'
  BY <1>3, DeleteFirstInv, ExpireInv, FireInv, OutsideInv
<1>4. ASSUME DeleteAgain \/ Stop \/ Save \/ WriteSave \/ TargetCloses \/ Cancels \/ Restart PROVE IInv'
  BY <1>4, DeleteAgainInv, StopInv, SaveInv, WriteSaveInv, OutsideInv, RestartInv
<1>5. ASSUME Handler PROVE IInv'
  BY <1>5, QueryInv, UnitInv, SpawnInv, RefusedInv, FiredInv, SkipInv, DeleteSavedInv, ExpirySavedInv,
     BestEffortSavedInv, ReceiptInv DEF Handler
<1>6. ASSUME NEW c \in Children, Guard(c) \/ Registers(c) \/ Refuses(c) \/ Ends(c) \/ Nests(c) PROVE IInv'
  BY <1>6, GuardInv, OutsideInv
<1>7. ASSUME NEW ok \in BOOLEAN, NEW written \in BOOLEAN, WriteFlush(ok, written) \/ WritePending(ok)
      PROVE  IInv'
  BY <1>7, WriteFlushInv, WritePendingInv
<1> QED
  BY <1>1, <1>2, <1>3, <1>4, <1>5, <1>6, <1>7 DEF Next

LEMMA StutterInv ==
    ASSUME IInv, UNCHANGED vars
    PROVE  IInv'
<1>1. /\ UNCHANGED <<tasks, created, blocked, clock, removal, act, child, guards>>
      /\ UNCHANGED <<queue, debounced, disk, expired, target, cancelled, gone>>
  BY DEF vars, store, world
<1>2. TypeOK'
  BY <1>1 DEF IInv, TypeOK
<1> QED
  BY <1>1, <1>2, ActorKept, CopiesKept, Parts

LEMMA Invariance == Spec => []IInv
<1>1. Init => IInv
  BY InitInv
<1>2. IInv /\ [Next]_vars => IInv'
  BY StepInv, StutterInv
<1> QED
  BY <1>1, <1>2, PTL DEF Spec

-----------------------------------------------------------------------------
(* The second invariant: what the children tell of the tasks *)

\* At the coordinator, or on the way to it.
Going == {"sent", "live"}

\* On the way to the coordinator, or started.
Begun == {"sent", "live", "completed", "failed"}

Kids(ch, t, S) == {c \in Children : ch[c].task = t /\ ch[c].status \in S}

Firing == {"query", "unit", "spawn", "register"}

\* The handler may still change the task's anchor, or bring the task back.
Pursuing(h) == h.pc \in Firing \/ (h.pc = "saving" /\ h.kind = "expiry")

\* Children belong to tasks that were created, and only loops expire.
ChildrenGenuine ==
    /\ \A c \in Children : child[c].task \in created \cup {None}
    /\ expired \subseteq Loops
    /\ act.pc = "saving" /\ act.kind = "expiry" => act.task \in Loops

\* A task has one iteration that is not over.  It is the anchor of a task that
\* is in memory, and the handler knows what of it is left: the anchor it found,
\* nothing once the coordinator has answered, then the child it spawned.
Anchored ==
    /\ \A t \in DOMAIN tasks : Kids(child, t, Going) \subseteq {tasks[t].anchor}
    /\ act.pc = "query" => Kids(child, act.task, Going) \subseteq {act.was.anchor}
    /\ act.pc \in {"unit", "spawn"} => Kids(child, act.task, Going) = {}
    /\ act.pc = "register" => Kids(child, act.task, Going) \subseteq {act.child}
    /\ act.pc = "saving" /\ act.kind = "expiry" => Kids(child, act.task, Going) \subseteq {act.was.anchor}

Single == \A t \in Tasks : \A c, d \in Kids(child, t, Going) : c = d

\* A one-shot in memory was not started, unless its handler still waits for the
\* child, or left it to a shutdown.
NotYetFired ==
    /\ \A t \in OneShots \cap DOMAIN tasks :
         \/ Kids(child, t, Begun) = {}
         \/ cancelled
         \/ act.pc = "register" /\ act.task = t
    /\ act.pc \in {"query", "unit", "spawn"} /\ act.task \in OneShots => Kids(child, act.task, Begun) = {}
    /\ act.pc = "register" /\ act.task \in OneShots => Kids(child, act.task, Begun) \subseteq {act.child}
    /\ \A t \in OneShots : \A c, d \in Kids(child, t, Begun) : c = d

Counts == ChildrenGenuine /\ Anchored /\ Single /\ NotYetFired

\* A record's anchor is a child that was spawned; unless the record asks for a
\* fresh transcript, that child's is about the record's prompt.
Faithful(ch, r) ==
    r.anchor # None =>
        /\ ch[r.anchor].status # "unused"
        /\ r.reset \/ ch[r.anchor].transcript \subseteq {r.prompt}

AllFaithful(ch, m) == \A t \in DOMAIN m : Faithful(ch, m[t])

Uniform(S) == \A p, q \in S : p = q

\* The tasks in memory, in the file and in what may still be written there.
Copies == {tasks, disk} \cup ({debounced} \ {None}) \cup {queue[i].snapshot : i \in DOMAIN queue}

Transcripts ==
    /\ \A m \in Copies : AllFaithful(child, m)
    /\ Pursuing(act) => Faithful(child, act.was)
    /\ act.pc \in Firing /\ act.task \in DOMAIN tasks => tasks[act.task].prompt = act.was.prompt
    /\ \A c \in Children : Uniform(child[c].transcript)

Iterations == Counts /\ Transcripts

-----------------------------------------------------------------------------
(* What a step leaves of the children *)

\* No child is spawned for a task.
Abates(old, new) ==
    \A t \in Tasks : /\ Kids(new, t, Going) \subseteq Kids(old, t, Going)
                     /\ Kids(new, t, Begun) \subseteq Kids(old, t, Begun)

\* A child that was spawned keeps its transcript.
Lasting(old, new) ==
    \A c \in Children : old[c].status # "unused" =>
        new[c].status # "unused" /\ new[c].transcript = old[c].transcript

LEMMA FaithfulLasts ==
    ASSUME NEW old, NEW new, Lasting(old, new), NEW r \in Record, Faithful(old, r)
    PROVE  Faithful(new, r)
<1>1. r.anchor # None => r.anchor \in Children
  BY DEF Record
<1> QED
  BY <1>1 DEF Faithful, Lasting

LEMMA AllFaithfulLasts ==
    ASSUME NEW old, NEW new, Lasting(old, new), NEW m \in Snapshots, AllFaithful(old, m)
    PROVE  AllFaithful(new, m)
<1>1. \A t \in DOMAIN m : m[t] \in Record
  BY SnapshotElement
<1> QED
  BY <1>1, FaithfulLasts DEF AllFaithful

LEMMA CopiesTyped ==
    ASSUME TypeOK
    PROVE  \A m \in Copies : m \in Snapshots
<1>1. \A i \in DOMAIN queue : queue[i] \in Entry
  BY DEF TypeOK
<1> QED
  BY <1>1 DEF Copies, TypeOK, Entry

\* The copies of the tasks change only by copying the tasks in memory.
CopiesMove == Copies' \subseteq Copies \cup {tasks'}

LEMMA TranscriptsKept ==
    ASSUME IInv, Transcripts, Lasting(child, child'), CopiesMove, AllFaithful(child', tasks'),
           \A c \in Children : Uniform(child'[c].transcript),
           \/ ~Pursuing(act') \/ (Pursuing(act) /\ act'.was = act.was)
           \/ \E t \in DOMAIN tasks : act'.was = tasks[t],
           act'.pc \in Firing /\ act'.task \in DOMAIN tasks' => tasks'[act'.task].prompt = act'.was.prompt
    PROVE  Transcripts'
<1>1. TypeOK /\ tasks \in Snapshots
  BY DEF IInv, TypeOK
<1>2. \A m \in Copies : AllFaithful(child', m)
  BY <1>1, CopiesTyped, AllFaithfulLasts DEF Transcripts
<1>3. \A m \in Copies' : AllFaithful(child', m)
  BY <1>2 DEF CopiesMove
<1>4. Pursuing(act') => Faithful(child', act'.was)
  <2>1. ASSUME Pursuing(act), act'.was = act.was PROVE Faithful(child', act'.was)
    <3>1. act.was \in Record /\ Faithful(child, act.was)
      BY <2>1 DEF IInv, HandlerHolds, Pursuing, Firing, Transcripts
    <3> QED
      BY <2>1, <3>1, FaithfulLasts
  <2>2. ASSUME NEW t \in DOMAIN tasks, act'.was = tasks[t] PROVE Faithful(child', act'.was)
    <3>1. AllFaithful(child', tasks)
      BY <1>2 DEF Copies
    <3> QED
      BY <2>2, <3>1 DEF AllFaithful
  <2> QED
    BY <2>1, <2>2
<1> QED
  BY <1>3, <1>4 DEF Transcripts

LEMMA SameChildren ==
    Abates(child, child) /\ Lasting(child, child)
BY DEF Abates, Lasting

\* Who the handler pursues is a task.
LEMMA PursuedTask ==
    ASSUME IInv, Pursuing(act)
    PROVE  act.task \in Tasks
BY DEF IInv, TypeOK, HandlerHolds, Pursuing, Firing

SameHandler ==
    /\ act'.pc = act.pc /\ act'.kind = act.kind /\ act'.task = act.task
    /\ act'.was = act.was /\ act'.child = act.child

AnchoredTasks(ch, m) == \A t \in DOMAIN m : Kids(ch, t, Going) \subseteq {m[t].anchor}

\* The handler stays where it is.
LEMMA CountsKept ==
    ASSUME IInv, Counts, Abates(child, child'), SameHandler,
           \A c \in Children : child'[c].task \in created' \cup {None},
           expired' \subseteq Loops, cancelled => cancelled', DOMAIN tasks' \subseteq Tasks,
           AnchoredTasks(child', tasks'),
           \A t \in OneShots \cap DOMAIN tasks' : t \in DOMAIN tasks \/ Kids(child', t, Begun) = {}
    PROVE  Counts'
<1>1. Pursuing(act) => act.task \in Tasks
  BY PursuedTask
<1>2. /\ act.pc \in {"query", "unit", "spawn", "register"} => act.task \in Tasks
      /\ act.pc = "saving" /\ act.kind = "expiry" => act.task \in Tasks
  BY <1>1 DEF Pursuing, Firing
<1>3. ChildrenGenuine'
  BY DEF Counts, ChildrenGenuine, SameHandler
<1>4. Anchored'
  BY <1>2 DEF Counts, Anchored, SameHandler, Abates, AnchoredTasks
<1>5. Single'
  BY DEF Counts, Single, Abates
<1>6. NotYetFired'
  <2>1. \A t \in OneShots : t \in Tasks
    BY DEF Tasks
  <2> QED
    BY <1>2, <2>1 DEF Counts, NotYetFired, SameHandler, Abates
<1> QED
  BY <1>3, <1>4, <1>5, <1>6 DEF Counts

\* The handler is back in the loop, or has a removal on its hands.
LEMMA CountsRest ==
    ASSUME IInv, Counts, Abates(child, child'), ~Pursuing(act'),
           \A c \in Children : child'[c].task \in created' \cup {None},
           expired' \subseteq Loops, DOMAIN tasks' \subseteq Tasks,
           AnchoredTasks(child', tasks'),
           \A t \in OneShots \cap DOMAIN tasks' : Kids(child', t, Begun) = {} \/ cancelled'
    PROVE  Counts'
<1>1. act'.pc \notin {"query", "unit", "spawn", "register"} /\ ~(act'.pc = "saving" /\ act'.kind = "expiry")
  BY DEF Pursuing, Firing
<1>2. ChildrenGenuine' /\ Anchored'
  BY <1>1 DEF ChildrenGenuine, Anchored, AnchoredTasks
<1>3. Single'
  BY DEF Counts, Single, Abates
<1>4. NotYetFired'
  <2>1. \A t \in OneShots : t \in Tasks
    BY DEF Tasks
  <2> QED
    BY <1>1, <2>1 DEF Counts, NotYetFired, Abates
<1> QED
  BY <1>2, <1>3, <1>4 DEF Counts

-----------------------------------------------------------------------------
(* The copies of the tasks *)

LEMMA CopiesSame ==
    ASSUME UNCHANGED <<queue, debounced, disk>>
    PROVE  CopiesMove
BY DEF CopiesMove, Copies

LEMMA CopiesQueued ==
    ASSUME IInv, NEW m \in {tasks, tasks'}, m \in Snapshots, NEW f \in BOOLEAN,
           queue' = Append(queue, [snapshot |-> m, flush |-> f, awaited |-> f]),
           UNCHANGED <<debounced, disk>>
    PROVE  CopiesMove
<1> DEFINE e == [snapshot |-> m, flush |-> f, awaited |-> f]
<1>1. queue \in Seq(Entry) /\ e \in Entry /\ e.snapshot = m
  BY DEF IInv, TypeOK, Entry
<1> HIDE DEF e
<1>2. /\ DOMAIN queue' = DOMAIN queue \cup {Len(queue) + 1}
      /\ \A i \in DOMAIN queue : queue'[i] = queue[i]
      /\ queue'[Len(queue) + 1] = e
  BY <1>1, AppendFacts DEF e
<1>3. \A i \in DOMAIN queue' : queue'[i].snapshot = m \/ (i \in DOMAIN queue /\ queue'[i].snapshot = queue[i].snapshot)
  BY <1>1, <1>2
<1> QED
  BY <1>3 DEF CopiesMove, Copies

LEMMA CopiesAnswered ==
    ASSUME IInv, NEW outcome, SaveEnded(outcome)
    PROVE  CopiesMove
<1>1. queue' = Forget(queue) /\ UNCHANGED <<debounced, disk>>
  BY DEF SaveEnded
<1>2. DOMAIN queue' = DOMAIN queue /\ \A i \in DOMAIN queue : queue'[i].snapshot = queue[i].snapshot
  BY <1>1, ForgetFacts DEF IInv, TypeOK
<1> QED
  BY <1>1, <1>2 DEF CopiesMove, Copies

\* The writer copies the head of its queue, or what is pending.
LEMMA CopiesWritten ==
    ASSUME IInv, UNCHANGED tasks,
           \/ WriteSave
           \/ \E ok, written \in BOOLEAN : WriteFlush(ok, written)
           \/ \E ok \in BOOLEAN : WritePending(ok)
    PROVE  CopiesMove
<1>1. ASSUME queue # <<>>, queue' = Tail(queue), debounced' \in {Head(queue).snapshot, None},
             disk' \in {Head(queue).snapshot, disk}
      PROVE  CopiesMove
  <2>1. /\ 1 \in DOMAIN queue /\ Head(queue) = queue[1]
        /\ \A i \in DOMAIN queue' : i + 1 \in DOMAIN queue /\ queue'[i] = queue[i + 1]
    BY <1>1, TailFacts DEF IInv, TypeOK
  <2>2. Head(queue).snapshot \in Copies
    BY <2>1 DEF Copies
  <2>3. \A i \in DOMAIN queue' : queue'[i].snapshot \in Copies
    BY <2>1 DEF Copies
  <2>4. tasks \in Copies /\ disk \in Copies
    BY DEF Copies
  <2>5. tasks' \in Copies /\ disk' \in Copies /\ (debounced' # None => debounced' \in Copies)
    BY <1>1, <2>2, <2>4
  <2> QED
    BY <2>3, <2>5 DEF CopiesMove, Copies
<1>2. CASE WriteSave
  BY <1>1, <1>2 DEF WriteSave
<1>3. ASSUME NEW ok \in BOOLEAN, NEW written \in BOOLEAN, WriteFlush(ok, written) PROVE CopiesMove
  BY <1>1, <1>3 DEF WriteFlush
<1>4. ASSUME NEW ok \in BOOLEAN, WritePending(ok) PROVE CopiesMove
  BY <1>4 DEF WritePending, CopiesMove, Copies
<1> QED
  BY <1>2, <1>3, <1>4

-----------------------------------------------------------------------------
(* Steps that leave the tasks and the handler, and steps that leave a handler *)

LEMMA TasksTyped ==
    ASSUME TypeOK
    PROVE  tasks \in Snapshots /\ DOMAIN tasks \subseteq Tasks /\ tasks \in [DOMAIN tasks -> Record]
BY SnapshotDef DEF TypeOK

LEMMA Watched ==
    ASSUME IInv, Iterations, UNCHANGED <<tasks, created>>, SameHandler, CopiesMove,
           Abates(child, child'), Lasting(child, child'),
           \A c \in Children : child'[c].task \in {child[c].task, None} /\ child'[c].transcript = child[c].transcript,
           expired' \subseteq Loops, cancelled => cancelled'
    PROVE  Iterations'
<1>1. DOMAIN tasks \subseteq Tasks /\ tasks \in Snapshots
  BY TasksTyped DEF IInv
<1>2. AnchoredTasks(child', tasks')
  BY <1>1 DEF Iterations, Counts, Anchored, AnchoredTasks, Abates
<1>3. \A c \in Children : child'[c].task \in created' \cup {None}
  BY DEF Iterations, Counts, ChildrenGenuine
<1>4. Counts'
  BY <1>1, <1>2, <1>3, CountsKept DEF Iterations
<1>5. AllFaithful(child', tasks')
  <2>1. AllFaithful(child, tasks)
    BY DEF Iterations, Transcripts, Copies
  <2> QED
    BY <1>1, <2>1, AllFaithfulLasts
<1>6. Transcripts'
  <2>1. \A c \in Children : Uniform(child'[c].transcript)
    BY DEF Iterations, Transcripts
  <2>2. act'.pc \in Firing /\ act'.task \in DOMAIN tasks' => tasks'[act'.task].prompt = act'.was.prompt
    BY DEF Iterations, Transcripts, SameHandler
  <2> QED
    BY <1>5, <2>1, <2>2, TranscriptsKept DEF Iterations, SameHandler, Pursuing
<1> QED
  BY <1>4, <1>6 DEF Iterations

\* The handler goes back to the loop, or to the removal of a task; a one-shot
\* whose child it waited for leaves with it, unless the actor shuts down.
LEMMA Left ==
    ASSUME IInv, Iterations, ~Pursuing(act'), UNCHANGED <<child, created, expired, cancelled>>, CopiesMove,
           DOMAIN tasks' \subseteq DOMAIN tasks, \A t \in DOMAIN tasks' : tasks'[t] = tasks[t],
           act.pc = "register" /\ act.task \in OneShots => cancelled \/ act.task \notin DOMAIN tasks'
    PROVE  Iterations'
<1>1. DOMAIN tasks \subseteq Tasks /\ tasks \in Snapshots
  BY TasksTyped DEF IInv
<1>2. Abates(child, child') /\ Lasting(child, child')
  BY SameChildren
<1>3. AnchoredTasks(child', tasks')
  BY DEF Iterations, Counts, Anchored, AnchoredTasks
<1>4. /\ \A c \in Children : child'[c].task \in created' \cup {None}
      /\ expired' \subseteq Loops
  BY DEF Iterations, Counts, ChildrenGenuine
<1>5. \A t \in OneShots \cap DOMAIN tasks' : Kids(child', t, Begun) = {} \/ cancelled'
  BY DEF Iterations, Counts, NotYetFired
<1>6. Counts'
  BY <1>1, <1>2, <1>3, <1>4, <1>5, CountsRest DEF Iterations
<1>7. AllFaithful(child', tasks')
  BY DEF Iterations, Transcripts, Copies, AllFaithful
<1>8. act'.pc \notin Firing
  BY DEF Pursuing
<1>9. \A c \in Children : Uniform(child'[c].transcript)
  BY DEF Iterations, Transcripts
<1>10. Transcripts'
  BY <1>2, <1>7, <1>8, <1>9, TranscriptsKept DEF Iterations
<1> QED
  BY <1>6, <1>10 DEF Iterations

\* The handler of task t goes on with its fire, or takes t away to expire it:
\* nothing it did not know is going on.
LEMMA Advances ==
    ASSUME IInv, Iterations, UNCHANGED <<child, created, expired, cancelled>>, CopiesMove,
           DOMAIN tasks' \subseteq DOMAIN tasks, \A t \in DOMAIN tasks' : tasks'[t] = tasks[t],
           (Pursuing(act) /\ act'.was = act.was) \/ \E t \in DOMAIN tasks : act'.was = tasks[t],
           act'.pc \in {"query", "unit", "spawn"} \/ (act'.pc = "saving" /\ act'.kind = "expiry"),
           act.pc # "register",
           act'.pc \in Firing /\ act'.task \in DOMAIN tasks' => tasks'[act'.task].prompt = act'.was.prompt,
           act'.pc = "saving" => act'.task \in Loops,
           act'.pc \in {"query", "saving"} => Kids(child, act'.task, Going) \subseteq {act'.was.anchor},
           act'.pc \in {"unit", "spawn"} => Kids(child, act'.task, Going) = {},
           act'.pc # "saving" /\ act'.task \in OneShots => Kids(child, act'.task, Begun) = {}
    PROVE  Iterations'
<1>1. Lasting(child, child')
  BY SameChildren
<1>2. ChildrenGenuine'
  BY DEF Iterations, Counts, ChildrenGenuine
<1>3. Anchored'
  BY DEF Iterations, Counts, Anchored
<1>4. Single'
  BY DEF Iterations, Counts, Single
<1>5. NotYetFired'
  BY DEF Iterations, Counts, NotYetFired
<1>6. AllFaithful(child', tasks')
  BY DEF Iterations, Transcripts, Copies, AllFaithful
<1>7. \A c \in Children : Uniform(child'[c].transcript)
  BY DEF Iterations, Transcripts
<1>8. Transcripts'
  BY <1>1, <1>6, <1>7, TranscriptsKept DEF Iterations
<1> QED
  BY <1>2, <1>3, <1>4, <1>5, <1>8 DEF Iterations, Counts

-----------------------------------------------------------------------------
(* One lemma per action, or per group of actions with the same effect *)

\* The children come and go, the writer works, tools save, the world moves on.
LEMMA OutsideIterations ==
    ASSUME IInv, Iterations,
           \/ \E c \in Children : Registers(c) \/ Refuses(c) \/ Ends(c) \/ Nests(c)
           \/ \E t \in Tasks : Expires(t)
           \/ TargetCloses \/ Cancels
    PROVE  Iterations'
<1>1. /\ UNCHANGED <<tasks, created, act>> /\ UNCHANGED <<queue, debounced, disk>>
  BY DEF Registers, Refuses, Ends, Nests, Becomes, Expires, TargetCloses, Cancels, store
<1>2. SameHandler /\ CopiesMove
  BY <1>1, CopiesSame DEF SameHandler
<1>3. child \in [Children -> ChildRecord]
  BY DEF IInv, TypeOK, ChildRecord
<1>4. /\ \A c \in Children : child'[c].task = child[c].task /\ child'[c].transcript = child[c].transcript
      /\ \A c \in Children : \/ child'[c].status = child[c].status
                             \/ child[c].status = "sent" /\ child'[c].status \in {"live", "refused"}
                             \/ child[c].status = "live" /\ child'[c].status \in {"completed", "failed"}
  <2>1. ASSUME NEW c \in Children, NEW x \in {"live", "refused", "completed", "failed"}, Becomes(c, x)
        PROVE  \A d \in Children : /\ child'[d].task = child[d].task /\ child'[d].transcript = child[d].transcript
                                   /\ child'[d].status = (IF d = c THEN x ELSE child[d].status)
    BY <1>3, <2>1 DEF Becomes, ChildRecord
  <2>2. ASSUME NEW c \in Children, Nests(c)
        PROVE  \A d \in Children : /\ child'[d].task = child[d].task /\ child'[d].transcript = child[d].transcript
                                   /\ child'[d].status = child[d].status
    BY <1>3, <2>2 DEF Nests, ChildRecord
  <2>3. ASSUME NEW c \in Children, Registers(c) \/ Refuses(c) \/ Ends(c)
        PROVE  \E x \in {"live", "refused", "completed", "failed"} :
                 /\ Becomes(c, x)
                 /\ \/ child[c].status = "sent" /\ x \in {"live", "refused"}
                    \/ child[c].status = "live" /\ x \in {"completed", "failed"}
    BY <2>3 DEF Registers, Refuses, Ends
  <2>4. CASE UNCHANGED child
    BY <2>4
  <2>5. (\E t \in Tasks : Expires(t)) \/ TargetCloses \/ Cancels => UNCHANGED child
    BY DEF Expires, TargetCloses, Cancels
  <2>6. CASE \E c \in Children : Registers(c) \/ Refuses(c) \/ Ends(c)
    BY <2>1, <2>3, <2>6
  <2>7. CASE \E c \in Children : Nests(c)
    BY <2>2, <2>7
  <2> QED
    BY <2>4, <2>5, <2>6, <2>7
<1>5. Abates(child, child') /\ Lasting(child, child')
  BY <1>4 DEF Abates, Lasting, Kids, Going, Begun
<1>6. expired' \subseteq Loops /\ (cancelled => cancelled')
  BY DEF Iterations, Counts, ChildrenGenuine, Registers, Refuses, Ends, Nests, Becomes, Expires, TargetCloses,
         Cancels, world
<1> QED
  BY <1>1, <1>2, <1>4, <1>5, <1>6, Watched

LEMMA WriterIterations ==
    ASSUME IInv, Iterations,
           \/ Save \/ WriteSave
           \/ \E ok, written \in BOOLEAN : WriteFlush(ok, written)
           \/ \E ok \in BOOLEAN : WritePending(ok)
    PROVE  Iterations'
<1>1. UNCHANGED <<tasks, created, child, expired, cancelled>>
  BY DEF Save, WriteSave, WriteFlush, WritePending, world
<1>2. SameHandler
  <2>1. act \in Handlers
    BY DEF IInv, TypeOK
  <2>2. ASSUME NEW x, act' = [act EXCEPT !.ack = x] PROVE SameHandler
    BY <2>1, <2>2 DEF SameHandler, Handlers
  <2>3. (\E x : act' = [act EXCEPT !.ack = x]) \/ act' = act
    BY DEF Save, WriteSave, WriteFlush, WritePending
  <2> QED
    BY <2>2, <2>3 DEF SameHandler
<1>3. CopiesMove
  <2>1. ASSUME Save PROVE CopiesMove
    <3>1. /\ queue' = Append(queue, [snapshot |-> tasks, flush |-> FALSE, awaited |-> FALSE])
          /\ UNCHANGED <<debounced, disk>> /\ tasks \in Snapshots
      BY <2>1 DEF Save, IInv, TypeOK
    <3> QED
      BY <3>1, CopiesQueued
  <2> QED
    BY <1>1, <2>1, CopiesWritten
<1>4. /\ expired' \subseteq Loops
      /\ \A c \in Children : child'[c].task \in {child[c].task, None} /\ child'[c].transcript = child[c].transcript
  BY <1>1 DEF Iterations, Counts, ChildrenGenuine
<1> QED
  BY <1>1, <1>2, <1>3, <1>4, SameChildren, Watched

LEMMA StutterIterations ==
    ASSUME IInv, Iterations, UNCHANGED <<tasks, created, child, expired, cancelled, act, queue, debounced, disk>>
    PROVE  Iterations'
<1>1. SameHandler /\ CopiesMove
  BY CopiesSame DEF SameHandler
<1>2. expired' \subseteq Loops
  BY DEF Iterations, Counts, ChildrenGenuine
<1> QED
  BY <1>1, <1>2, SameChildren, Watched

LEMMA NoKids ==
    ASSUME Iterations, NEW t \in Tasks \ created, NEW S
    PROVE  Kids(child, t, S) = {}
BY SchedulerParameters DEF Iterations, Counts, ChildrenGenuine, Kids

LEMMA CreateIterations ==
    ASSUME IInv, Iterations, NEW t \in Tasks, NEW p \in Prompts, NEW d \in BOOLEAN, Create(t, p, d)
    PROVE  Iterations'
<1>1. /\ t \notin created /\ created' = created \cup {t} /\ tasks' = With(tasks, t, NewRecord(p, d))
      /\ UNCHANGED <<act, child, expired, cancelled>> /\ UNCHANGED <<queue, debounced, disk>>
      /\ act.pc = "idle"
  BY DEF Create, Ready, store, world
<1>2. SameHandler /\ CopiesMove /\ Abates(child, child') /\ Lasting(child, child')
  BY <1>1, CopiesSame, SameChildren DEF SameHandler
<1>3. /\ DOMAIN tasks' = DOMAIN tasks \cup {t} /\ tasks'[t] = NewRecord(p, d)
      /\ \A u \in DOMAIN tasks : u # t => tasks'[u] = tasks[u]
  BY <1>1 DEF With
<1>4. DOMAIN tasks \subseteq Tasks /\ tasks \in Snapshots
  BY TasksTyped DEF IInv
<1>5. \A S : Kids(child, t, S) = {}
  BY <1>1, NoKids
<1>6. AnchoredTasks(child', tasks')
  BY <1>1, <1>3, <1>5 DEF AnchoredTasks, Iterations, Counts, Anchored
<1>7. /\ \A c \in Children : child'[c].task \in created' \cup {None}
      /\ expired' \subseteq Loops
  BY <1>1 DEF Iterations, Counts, ChildrenGenuine
<1>8. Counts'
  BY <1>1, <1>2, <1>3, <1>4, <1>5, <1>6, <1>7, CountsKept DEF Iterations
<1>9. AllFaithful(child', tasks')
  <2>1. NewRecord(p, d).anchor = None
    BY DEF NewRecord
  <2>2. Faithful(child', tasks'[t])
    BY <1>3, <2>1 DEF Faithful
  <2>3. AllFaithful(child, tasks)
    BY DEF Iterations, Transcripts, Copies
  <2> QED
    BY <1>1, <1>3, <2>2, <2>3 DEF AllFaithful
<1>10. /\ \A c \in Children : Uniform(child'[c].transcript)
       /\ act'.pc \notin Firing /\ ~Pursuing(act')
  BY <1>1 DEF Iterations, Transcripts, Firing, Pursuing
<1>11. Transcripts'
  BY <1>1, <1>2, <1>9, <1>10, TranscriptsKept DEF Iterations
<1> QED
  BY <1>8, <1>11 DEF Iterations

\* A step that rewrites the records of the tasks: the anchor of a task whose
\* child is not over stays.
LEMMA Rewritten ==
    ASSUME IInv, Iterations, SameHandler, CopiesMove, UNCHANGED <<child, created, expired, cancelled>>,
           DOMAIN tasks' = DOMAIN tasks,
           \A t \in DOMAIN tasks : Kids(child, t, Going) \subseteq {tasks'[t].anchor},
           AllFaithful(child, tasks'),
           act.pc \in Firing => \A t \in DOMAIN tasks : tasks'[t].prompt = tasks[t].prompt
    PROVE  Iterations'
<1>1. DOMAIN tasks \subseteq Tasks /\ tasks \in Snapshots
  BY TasksTyped DEF IInv
<1>2. Abates(child, child') /\ Lasting(child, child') /\ AnchoredTasks(child', tasks')
  BY SameChildren DEF AnchoredTasks
<1>3. /\ \A c \in Children : child'[c].task \in created' \cup {None}
      /\ expired' \subseteq Loops
  BY DEF Iterations, Counts, ChildrenGenuine
<1>4. Counts'
  BY <1>1, <1>2, <1>3, CountsKept DEF Iterations
<1>5. /\ \A c \in Children : Uniform(child'[c].transcript)
      /\ act'.pc \in Firing /\ act'.task \in DOMAIN tasks' => tasks'[act'.task].prompt = act'.was.prompt
  BY DEF Iterations, Transcripts, SameHandler
<1>6. Transcripts'
  BY <1>2, <1>5, TranscriptsKept DEF Iterations, SameHandler, Pursuing
<1> QED
  BY <1>4, <1>6 DEF Iterations

LEMMA UpdateIterations ==
    ASSUME IInv, Iterations, NEW t \in Tasks, NEW p \in Prompts, Update(t, p)
    PROVE  Iterations'
<1>1. /\ t \in DOMAIN tasks /\ act.pc = "idle"
      /\ tasks' = (IF p = tasks[t].prompt THEN tasks
                   ELSE [tasks EXCEPT ![t].prompt = p, ![t].reset = TRUE, ![t].iterations = 0])
      /\ UNCHANGED <<act, child, created, expired, cancelled>> /\ UNCHANGED <<queue, debounced, disk>>
  BY DEF Update, Ready, store, world
<1>2. SameHandler /\ CopiesMove
  BY <1>1, CopiesSame DEF SameHandler
<1>3. tasks \in [DOMAIN tasks -> Record]
  BY TasksTyped DEF IInv
<1>4. /\ DOMAIN tasks' = DOMAIN tasks
      /\ \A u \in DOMAIN tasks : /\ tasks'[u].anchor = tasks[u].anchor
                                 /\ tasks'[u] = tasks[u] \/ tasks'[u].reset
  <2>1. CASE p = tasks[t].prompt
    BY <1>1, <2>1
  <2>2. CASE p # tasks[t].prompt
    <3> DEFINE r == [tasks[t] EXCEPT !.prompt = p, !.reset = TRUE, !.iterations = 0]
    <3>1. tasks' = [tasks EXCEPT ![t] = r]
      BY <1>1, <2>2
    <3>2. r.anchor = tasks[t].anchor /\ r.reset
      BY <1>1, <1>3 DEF Record
    <3> HIDE DEF r
    <3> QED
      BY <1>1, <1>3, <3>1, <3>2
  <2> QED
    BY <2>1, <2>2
<1>5. AllFaithful(child, tasks')
  <2>1. AllFaithful(child, tasks)
    BY DEF Iterations, Transcripts, Copies
  <2> QED
    BY <1>4, <2>1 DEF AllFaithful, Faithful
<1>6. \A u \in DOMAIN tasks : Kids(child, u, Going) \subseteq {tasks'[u].anchor}
  BY <1>4 DEF Iterations, Counts, Anchored
<1> QED
  BY <1>1, <1>2, <1>4, <1>5, <1>6, Rewritten DEF Firing

LEMMA GuardIterations ==
    ASSUME IInv, Iterations, NEW c \in Children, Guard(c)
    PROVE  Iterations'
<1>1. /\ child[c].status \in {"completed", "failed", "refused"} /\ (tasks' = tasks \/ tasks' = Cleared(c))
      /\ UNCHANGED <<act, child, created, expired, cancelled>> /\ UNCHANGED <<queue, debounced, disk>>
  BY DEF Guard, store, world
<1>2. SameHandler /\ CopiesMove
  BY <1>1, CopiesSame DEF SameHandler
<1>3. tasks \in [DOMAIN tasks -> Record]
  BY TasksTyped DEF IInv
<1>4. /\ DOMAIN tasks' = DOMAIN tasks
      /\ \A u \in DOMAIN tasks : /\ tasks'[u] = tasks[u] \/ (tasks[u].anchor = c /\ tasks'[u].anchor = None)
                                 /\ tasks'[u].prompt = tasks[u].prompt
  <2>1. CASE tasks' = tasks
    BY <2>1
  <2>2. CASE tasks' = Cleared(c)
    <3>1. \A r \in Record : LET s == [r EXCEPT !.anchor = None, !.iterations = 0]
                            IN  s.anchor = None /\ s.prompt = r.prompt
      BY DEF Record
    <3>2. \A u \in DOMAIN tasks : tasks[u] \in Record
      BY <1>3
    <3> QED
      BY <2>2, <3>1, <3>2 DEF Cleared
  <2> QED
    BY <1>1, <2>1, <2>2
<1>5. AllFaithful(child, tasks')
  <2>1. AllFaithful(child, tasks)
    BY DEF Iterations, Transcripts, Copies
  <2> QED
    BY <1>4, <2>1 DEF AllFaithful, Faithful
<1>6. \A u \in DOMAIN tasks : Kids(child, u, Going) \subseteq {tasks'[u].anchor}
  <2>1. \A u \in DOMAIN tasks : Kids(child, u, Going) \subseteq {tasks[u].anchor}
    BY DEF Iterations, Counts, Anchored
  <2>2. \A u : c \notin Kids(child, u, Going)
    BY <1>1 DEF Kids, Going
  <2> QED
    BY <1>4, <2>1, <2>2
<1> QED
  BY <1>1, <1>2, <1>4, <1>5, <1>6, Rewritten

LEMMA IdleRests == ~Pursuing(Idle)
BY DEF Idle, At, Pursuing, Firing

\* The handlers that return to the loop and leave the tasks as they are.
LEMMA ReturnIterations ==
    ASSUME IInv, Iterations, act' = Idle, CopiesMove, UNCHANGED <<tasks, child, created, expired, cancelled>>,
           act.pc = "register" => cancelled \/ act.task \notin OneShots
    PROVE  Iterations'
BY IdleRests, Left

LEMMA SkipIterations ==
    ASSUME IInv, Iterations, Skip
    PROVE  Iterations'
BY CopiesSame, ReturnIterations DEF Skip, Done, store, world

LEMMA ReceiptIterations ==
    ASSUME IInv, Iterations, NEW acknowledged \in BOOLEAN, Receipt(acknowledged)
    PROVE  Iterations'
<1>1. /\ act.pc = "publishing" /\ act' = Idle /\ UNCHANGED <<tasks, child, created, expired, cancelled>>
      /\ UNCHANGED <<queue, debounced, disk>>
  BY DEF Receipt, Done, store, world
<1> QED
  BY <1>1, CopiesSame, ReturnIterations

LEMMA StopIterations ==
    ASSUME IInv, Iterations, Stop
    PROVE  Iterations'
<1>1. /\ act.pc = "idle" /\ act' = At("stopped", "none", None, None, None)
      /\ UNCHANGED <<tasks, child, created, expired, cancelled>> /\ UNCHANGED <<queue, debounced, disk>>
  BY DEF Stop, store, world
<1>2. ~Pursuing(act')
  BY <1>1 DEF At, Pursuing, Firing
<1> QED
  BY <1>1, <1>2, CopiesSame, Left

LEMMA BestEffortIterations ==
    ASSUME IInv, Iterations, NEW outcome, BestEffortSaved(outcome)
    PROVE  Iterations'
<1>1. /\ SaveEnded(outcome) /\ act' = Idle /\ UNCHANGED <<tasks, child, created, expired, cancelled>>
  BY DEF BestEffortSaved, Done, world
<1>2. act.pc = "saving"
  BY <1>1 DEF SaveEnded
<1> QED
  BY <1>1, <1>2, CopiesAnswered, ReturnIterations

\* The tombstone goes out, or the handler returns.
LEMMA AnsweredIterations ==
    ASSUME IInv, Iterations, NEW outcome, SaveEnded(outcome), Publish \/ Done,
           UNCHANGED <<tasks, child, created, expired, cancelled>>
    PROVE  Iterations'
<1>1. act.pc = "saving" /\ act \in Handlers
  BY DEF SaveEnded, IInv, TypeOK
<1>2. ~Pursuing(act')
  <2>1. CASE act' = Idle
    BY <2>1, IdleRests
  <2>2. CASE act' = [act EXCEPT !.pc = "publishing"]
    BY <1>1, <2>2 DEF Handlers, Pursuing, Firing
  <2> QED
    BY <2>1, <2>2 DEF Publish, Done
<1> QED
  BY <1>1, <1>2, CopiesAnswered, Left

LEMMA DeleteSavedIterations ==
    ASSUME IInv, Iterations, NEW outcome, DeleteSaved(outcome)
    PROVE  Iterations'
BY AnsweredIterations DEF DeleteSaved, world

LEMMA ExpirySavedIterations ==
    ASSUME IInv, Iterations, NEW outcome, ExpirySaved(outcome)
    PROVE  Iterations'
<1>1. /\ SaveEnded(outcome) /\ act.kind = "expiry" /\ act.pc = "saving"
      /\ UNCHANGED <<child, created, expired, cancelled>>
  BY DEF ExpirySaved, SaveEnded, world
<1>2. CASE outcome # "err"
  <2>1. (Publish \/ Done) /\ UNCHANGED tasks
    BY <1>2 DEF ExpirySaved
  <2> QED
    BY <1>1, <2>1, AnsweredIterations
<1>3. CASE outcome = "err"
  <2>1. tasks' = With(tasks, act.task, act.was) /\ act' = Idle
    BY <1>3 DEF ExpirySaved, Done
  <2>2. /\ DOMAIN tasks' = DOMAIN tasks \cup {act.task} /\ tasks'[act.task] = act.was
        /\ \A u \in DOMAIN tasks : u # act.task => tasks'[u] = tasks[u]
    BY <2>1 DEF With
  <2>3. act.task \in Loops /\ act.was \in Record /\ DOMAIN tasks \subseteq Tasks
    BY <1>1, TasksTyped DEF Iterations, Counts, ChildrenGenuine, IInv, HandlerHolds
  <2>4. /\ AnchoredTasks(child', tasks') /\ Abates(child, child') /\ Lasting(child, child') /\ CopiesMove
        /\ ~Pursuing(act')
    BY <1>1, <2>1, <2>2, SameChildren, CopiesAnswered, IdleRests DEF AnchoredTasks, Iterations, Counts, Anchored
  <2>5. /\ \A c \in Children : child'[c].task \in created' \cup {None}
        /\ expired' \subseteq Loops
    BY <1>1 DEF Iterations, Counts, ChildrenGenuine
  <2>6. \A t \in OneShots \cap DOMAIN tasks' : Kids(child', t, Begun) = {} \/ cancelled'
    <3>1. act.task \notin OneShots
      BY <2>3, SchedulerParameters
    <3> QED
      BY <1>1, <2>2, <3>1 DEF Iterations, Counts, NotYetFired
  <2>7. Counts'
    <3>1. DOMAIN tasks' \subseteq Tasks
      BY <2>2, <2>3 DEF Tasks
    <3> QED
      BY <2>4, <2>5, <2>6, <3>1, CountsRest DEF Iterations
  <2>8. AllFaithful(child', tasks')
    <3>1. AllFaithful(child, tasks)
      BY DEF Iterations, Transcripts, Copies
    <3>2. Faithful(child, act.was)
      BY <1>1 DEF Iterations, Transcripts, Pursuing
    <3> QED
      BY <1>1, <2>2, <3>1, <3>2 DEF AllFaithful
  <2>9. /\ \A c \in Children : Uniform(child'[c].transcript)
        /\ act'.pc \notin Firing
    BY <1>1, <2>4 DEF Iterations, Transcripts, Pursuing
  <2>10. Transcripts'
    BY <2>4, <2>8, <2>9, TranscriptsKept DEF Iterations
  <2> QED
    BY <2>7, <2>10 DEF Iterations
<1> QED
  BY <1>2, <1>3

\* A removal begins: the task leaves, and the handler waits for the file.
LEMMA RemovedIterations ==
    ASSUME IInv, Iterations, NEW t, NEW kind \in {"delete", "soft", "oneshot"}, NEW r,
           tasks' = Without(tasks, {t}), Enqueue(tasks', At("saving", kind, t, r, None)),
           UNCHANGED <<child, created, expired, cancelled>>,
           act.pc = "register" => act.task = t
    PROVE  Iterations'
<1>1. /\ queue' = Append(queue, [snapshot |-> tasks', flush |-> TRUE, awaited |-> TRUE])
      /\ act' = At("saving", kind, t, r, None) /\ UNCHANGED <<debounced, disk>>
  BY DEF Enqueue
<1>2. tasks' \in Snapshots /\ DOMAIN tasks' = DOMAIN tasks \ {t}
  BY WithoutType DEF IInv, TypeOK
<1>3. \A u \in DOMAIN tasks' : tasks'[u] = tasks[u]
  BY <1>2 DEF Without, Restrict
<1>4. ~Pursuing(act')
  BY <1>1 DEF At, Pursuing, Firing
<1> QED
  BY <1>1, <1>2, <1>3, <1>4, CopiesQueued, Left

LEMMA DeleteFirstIterations ==
    ASSUME IInv, Iterations, NEW t \in Tasks, DeleteFirst(t)
    PROVE  Iterations'
<1>1. /\ act.pc = "idle" /\ tasks' = Without(tasks, {t}) /\ Enqueue(tasks', At("saving", "delete", t, None, None))
      /\ UNCHANGED <<child, created, expired, cancelled>>
  BY DEF DeleteFirst, Ready, world
<1> QED
  BY <1>1, RemovedIterations

LEMMA DeleteAgainIterations ==
    ASSUME IInv, Iterations, DeleteAgain
    PROVE  Iterations'
<1>1. act.pc = "idle" /\ UNCHANGED <<tasks, child, created, expired, cancelled>>
  BY DEF DeleteAgain, Ready, world
<1>2. CASE target
  <2>1. /\ queue' = Append(queue, [snapshot |-> tasks, flush |-> TRUE, awaited |-> TRUE])
        /\ act' = At("saving", "delete", removal.task, None, None) /\ UNCHANGED <<debounced, disk>>
    BY <1>2 DEF DeleteAgain, Enqueue
  <2>2. ~Pursuing(act')
    BY <2>1 DEF At, Pursuing, Firing
  <2>3. tasks \in Snapshots
    BY DEF IInv, TypeOK
  <2> QED
    BY <1>1, <2>1, <2>2, <2>3, CopiesQueued, Left
<1>3. CASE ~target
  <2>1. UNCHANGED <<act, queue, debounced, disk>>
    BY <1>3 DEF DeleteAgain, store
  <2> QED
    BY <1>1, <2>1, StutterIterations
<1> QED
  BY <1>2, <1>3

LEMMA ExpireIterations ==
    ASSUME IInv, Iterations, NEW t \in Tasks, ExpireDurable(t) \/ ExpireSoft(t)
    PROVE  Iterations'
<1>1. CASE ExpireSoft(t)
  <2>1. /\ act.pc = "idle" /\ tasks' = Without(tasks, {t}) /\ Enqueue(tasks', At("saving", "soft", t, Prepare(1), None))
        /\ UNCHANGED <<child, created, expired, cancelled>>
    BY <1>1 DEF ExpireSoft, Due, Ready, world
  <2> QED
    BY <2>1, RemovedIterations
<1>2. CASE ExpireDurable(t) /\ ~target
  <2>1. /\ UNCHANGED <<tasks, act, queue, debounced, disk>>
        /\ UNCHANGED <<child, created, expired, cancelled>>
    BY <1>2 DEF ExpireDurable, store, world
  <2> QED
    BY <2>1, StutterIterations
<1>3. CASE ExpireDurable(t) /\ target
  <2> DEFINE a == At("saving", "expiry", t, Prepare(1), tasks[t])
  <2>1. /\ act.pc = "idle" /\ t \in expired /\ t \in DOMAIN tasks
        /\ tasks' = Without(tasks, {t}) /\ act' = a /\ UNCHANGED <<debounced, disk>>
        /\ queue' = Append(queue, [snapshot |-> tasks', flush |-> TRUE, awaited |-> TRUE])
        /\ UNCHANGED <<child, created, expired, cancelled>>
    BY <1>3 DEF ExpireDurable, Enqueue, Due, Ready, world
  <2>2. tasks' \in Snapshots /\ DOMAIN tasks' = DOMAIN tasks \ {t}
    BY <2>1, WithoutType DEF IInv, TypeOK
  <2>3. \A u \in DOMAIN tasks' : tasks'[u] = tasks[u]
    BY <2>1, <2>2 DEF Without, Restrict
  <2>4. a.pc = "saving" /\ a.kind = "expiry" /\ a.task = t /\ a.was = tasks[t]
    BY DEF At
  <2>5. t \in Loops /\ Kids(child, t, Going) \subseteq {tasks[t].anchor}
    BY <2>1 DEF Iterations, Counts, ChildrenGenuine, Anchored
  <2>6. CopiesMove
    BY <2>1, <2>2, CopiesQueued
  <2> HIDE DEF a
  <2> QED
    BY <2>1, <2>2, <2>3, <2>4, <2>5, <2>6, Advances DEF Firing
<1> QED
  BY <1>1, <1>2, <1>3

LEMMA FireIterations ==
    ASSUME IInv, Iterations, NEW t \in Tasks, Fire(t)
    PROVE  Iterations'
<1> DEFINE pc == IF tasks[t].anchor = None THEN "spawn" ELSE "query"
           r == Prepare(IF t \in OneShots THEN 2 ELSE 1)
           a == At(pc, "fire", t, r, tasks[t])
<1>1. /\ act.pc = "idle" /\ ~cancelled /\ t \in DOMAIN tasks /\ act' = a
      /\ UNCHANGED <<tasks, child, created, expired, cancelled>> /\ UNCHANGED <<queue, debounced, disk>>
  BY DEF Fire, Due, Ready, store, world
<1>2. a.pc = pc /\ a.kind = "fire" /\ a.task = t /\ a.was = tasks[t]
  BY DEF At
<1>3. Kids(child, t, Going) \subseteq {tasks[t].anchor}
  BY <1>1 DEF Iterations, Counts, Anchored
<1>4. pc = "spawn" => Kids(child, t, Going) = {}
  <2>1. None \notin Kids(child, t, Going)
    BY SchedulerParameters DEF Kids
  <2> QED
    BY <1>3, <2>1
<1>5. t \in OneShots => Kids(child, t, Begun) = {}
  BY <1>1 DEF Iterations, Counts, NotYetFired
<1>6. pc \in {"spawn", "query"} /\ CopiesMove
  BY <1>1, CopiesSame
<1> HIDE DEF a, pc, r
<1> QED
  BY <1>1, <1>2, <1>3, <1>4, <1>5, <1>6, Advances

\* A fire goes on to its next wait.
LEMMA ProceedIterations ==
    ASSUME IInv, Iterations, act.pc \in {"query", "unit"}, NEW pc \in {"unit", "spawn"}, NEW u,
           act' = [act EXCEPT !.pc = pc, !.usable = u] \/ act' = [act EXCEPT !.pc = pc],
           UNCHANGED <<tasks, child, created, expired, cancelled>>, UNCHANGED <<queue, debounced, disk>>,
           Kids(child, act.task, Going) = {}
    PROVE  Iterations'
<1>1. act \in Handlers
  BY DEF IInv, TypeOK
<1>2. act'.pc = pc /\ act'.task = act.task /\ act'.was = act.was
  BY <1>1 DEF Handlers
<1>3. Pursuing(act)
  BY DEF Pursuing, Firing
<1>4. /\ act'.pc \in Firing /\ act'.task \in DOMAIN tasks' => tasks'[act'.task].prompt = act'.was.prompt
      /\ act'.task \in OneShots => Kids(child, act'.task, Begun) = {}
  BY <1>2 DEF Iterations, Transcripts, Counts, NotYetFired, Firing
<1> QED
  BY <1>2, <1>3, <1>4, CopiesSame, Advances

LEMMA QueryIterations ==
    ASSUME IInv, Iterations, NEW known \in BOOLEAN, QueryAnswered(known)
    PROVE  Iterations'
<1> DEFINE status == child[act.was.anchor].status
<1>1. /\ act.pc = "query" /\ Served /\ UNCHANGED <<tasks, child, created, expired, cancelled>>
      /\ UNCHANGED <<queue, debounced, disk>>
      /\ act' = IF status = "live" THEN Idle
                ELSE [act EXCEPT !.pc = "unit", !.usable = known /\ status = "completed"]
  BY DEF QueryAnswered, store, world
<1>2. CASE status = "live"
  BY <1>1, <1>2, CopiesSame, ReturnIterations
<1>3. CASE status # "live"
  <2>1. Kids(child, act.task, Going) = {}
    <3>1. Kids(child, act.task, Going) \subseteq {act.was.anchor}
      BY <1>1 DEF Iterations, Counts, Anchored
    <3>2. \A c \in Children : child[c].status # "sent"
      BY <1>1 DEF Served
    <3> QED
      BY <1>3, <3>1, <3>2 DEF Kids, Going
  <2> QED
    BY <1>1, <1>3, <2>1, ProceedIterations
<1> QED
  BY <1>2, <1>3

LEMMA UnitIterations ==
    ASSUME IInv, Iterations, UnitAnswered
    PROVE  Iterations'
<1>1. /\ act.pc = "unit" /\ UNCHANGED <<tasks, child, created, expired, cancelled>>
      /\ UNCHANGED <<queue, debounced, disk>>
      /\ act' = Idle \/ act' = [act EXCEPT !.pc = "spawn"]
  BY DEF UnitAnswered, store, world
<1>2. Kids(child, act.task, Going) = {}
  BY <1>1 DEF Iterations, Counts, Anchored
<1>3. CASE act' = Idle
  BY <1>1, <1>3, CopiesSame, ReturnIterations
<1>4. CASE act' = [act EXCEPT !.pc = "spawn"]
  BY <1>1, <1>2, <1>4, ProceedIterations
<1> QED
  BY <1>1, <1>3, <1>4

LEMMA FiredIterations ==
    ASSUME IInv, Iterations, Fired
    PROVE  Iterations'
<1>1. act.pc = "register" /\ UNCHANGED <<child, created, expired, cancelled>>
  BY DEF Fired, world
<1>2. CASE act.task \notin OneShots
  <2>1. act' = Idle /\ UNCHANGED <<tasks, queue, debounced, disk>>
    BY <1>2 DEF Fired, Done, store
  <2> QED
    BY <1>1, <1>2, <2>1, CopiesSame, ReturnIterations
<1>3. CASE act.task \in OneShots
  <2>1. /\ tasks' = Without(tasks, {act.task})
        /\ Enqueue(tasks', At("saving", "oneshot", act.task, Rest(act.reservation), None))
    BY <1>3 DEF Fired
  <2> QED
    BY <1>1, <2>1, RemovedIterations
<1> QED
  BY <1>2, <1>3

\* The new child is the task's only one that is not over, and goes on only with
\* a transcript about its own prompt.
LEMMA SpawnIterations ==
    ASSUME IInv, IInv', Iterations, NEW c \in Children, Spawn(c)
    PROVE  Iterations'
<1> DEFINE t == act.task
           told == {act.was.prompt} \cup (IF Resumes THEN child[act.was.anchor].transcript ELSE {})
           k == [task |-> t, status |-> "sent", unit |-> FALSE, transcript |-> told]
<1>1. /\ act.pc = "spawn" /\ act \in Handlers /\ child[c].status = "unused"
      /\ UNCHANGED <<created, expired, cancelled>> /\ UNCHANGED <<queue, debounced, disk>>
  BY DEF Spawn, IInv, TypeOK, store, world
<1>2. CASE t \notin DOMAIN tasks
  <2>1. act' = Idle /\ UNCHANGED <<tasks, child>>
    BY <1>2 DEF Spawn, Done
  <2> QED
    BY <1>1, <2>1, CopiesSame, ReturnIterations
<1>3. CASE t \in DOMAIN tasks
  <2> DEFINE n == IF Resumes THEN act.was.iterations + 1 ELSE 1
             r == [tasks[t] EXCEPT !.anchor = c, !.iterations = n, !.reset = FALSE]
  <2>1. /\ tasks' = [tasks EXCEPT ![t].anchor = c, ![t].iterations = n, ![t].reset = FALSE]
        /\ child' = [child EXCEPT ![c] = k] /\ act' = [act EXCEPT !.pc = "register", !.child = c]
    BY <1>3 DEF Spawn
  <2>2. act.was \in Record /\ t \in Tasks /\ t \in created
    BY <1>1 DEF IInv, HandlerHolds
  <2>3. /\ child \in [Children -> ChildRecord] /\ tasks \in [DOMAIN tasks -> Record]
        /\ DOMAIN tasks \subseteq Tasks
    BY TasksTyped DEF IInv, TypeOK, ChildRecord
  <2>4. /\ DOMAIN tasks' = DOMAIN tasks
        /\ tasks'[t].anchor = c /\ tasks'[t].reset = FALSE /\ tasks'[t].prompt = tasks[t].prompt
        /\ \A u \in DOMAIN tasks : u # t => tasks'[u] = tasks[u]
    <3>1. tasks' = [tasks EXCEPT ![t] = r]
      BY <1>3, <2>1
    <3>2. tasks[t] \in Record
      BY <1>3, <2>3
    <3> HIDE DEF n
    <3>3. r.anchor = c /\ r.reset = FALSE /\ r.prompt = tasks[t].prompt
      BY <3>2 DEF Record
    <3> HIDE DEF r
    <3> QED
      BY <1>3, <3>1, <3>3
  <2>5. /\ child'[c].task = t /\ child'[c].status = "sent" /\ child'[c].transcript = told
        /\ \A d \in Children : d # c => child'[d] = child[d]
    <3> HIDE DEF told
    <3>1. k.task = t /\ k.status = "sent" /\ k.transcript = told
      OBVIOUS
    <3> HIDE DEF k
    <3> QED
      BY <2>1, <2>3, <3>1
  <2>6. /\ act'.pc = "register" /\ act'.child = c /\ act'.task = t /\ act'.was = act.was
    BY <1>1, <2>1 DEF Handlers
  <2> HIDE DEF k, told, n, r
  <2>7. Kids(child, t, Going) = {} /\ (t \in OneShots => Kids(child, t, Begun) = {})
    BY <1>1 DEF Iterations, Counts, Anchored, NotYetFired
  <2>8. /\ Kids(child', t, Going) \subseteq {c} /\ (t \in OneShots => Kids(child', t, Begun) \subseteq {c})
        /\ \A u \in Tasks, S \in {Going, Begun} : u # t => Kids(child', u, S) \subseteq Kids(child, u, S)
    BY <2>5, <2>7 DEF Kids
  <2>9. ChildrenGenuine'
    BY <1>1, <2>2, <2>5, <2>6 DEF Iterations, Counts, ChildrenGenuine
  <2>10. Anchored'
    <3>1. \A u \in DOMAIN tasks' : Kids(child', u, Going) \subseteq {tasks'[u].anchor}
      BY <2>3, <2>4, <2>8 DEF Iterations, Counts, Anchored
    <3> QED
      BY <2>6, <2>8, <3>1 DEF Anchored
  <2>11. Single'
    BY <2>8 DEF Iterations, Counts, Single
  <2>12. NotYetFired'
    <3>1. \A u \in OneShots : u \in Tasks
      BY DEF Tasks
    <3>2. \A u \in OneShots : \A d, e \in Kids(child', u, Begun) : d = e
      BY <2>8, <3>1 DEF Iterations, Counts, NotYetFired
    <3>3. \A u \in OneShots \cap DOMAIN tasks' : u = t \/ Kids(child', u, Begun) = {} \/ cancelled'
      BY <1>1, <2>4, <2>8, <3>1 DEF Iterations, Counts, NotYetFired
    <3> QED
      BY <2>6, <2>8, <3>2, <3>3 DEF NotYetFired
  <2>13. told \subseteq {act.was.prompt}
    <3>1. Resumes => act.was.anchor # None /\ ~act.was.reset
      BY DEF Resumes, IInv, HandlerHolds
    <3>2. Faithful(child, act.was)
      BY <1>1 DEF Iterations, Transcripts, Pursuing, Firing
    <3> QED
      BY <3>1, <3>2 DEF Faithful, told
  <2>14. tasks[t].prompt = act.was.prompt
    BY <1>1, <1>3 DEF Iterations, Transcripts, Firing
  <2>15. Lasting(child, child')
    BY <1>1, <2>5 DEF Lasting
  <2>16. AllFaithful(child', tasks')
    <3>1. AllFaithful(child', tasks)
      <4>1. AllFaithful(child, tasks)
        BY DEF Iterations, Transcripts, Copies
      <4> QED
        BY <2>15, <4>1, TasksTyped, AllFaithfulLasts DEF IInv
    <3>2. Faithful(child', tasks'[t])
      BY <2>4, <2>5, <2>13, <2>14 DEF Faithful
    <3> QED
      BY <2>4, <3>1, <3>2 DEF AllFaithful
  <2>17. \A d \in Children : Uniform(child'[d].transcript)
    BY <2>5, <2>13 DEF Iterations, Transcripts, Uniform
  <2>18. Transcripts'
    <3>1. Pursuing(act) /\ CopiesMove
      BY <1>1, CopiesSame DEF Pursuing, Firing
    <3> QED
      BY <2>4, <2>6, <2>14, <2>15, <2>16, <2>17, <3>1, TranscriptsKept DEF Iterations
  <2> QED
    BY <2>9, <2>10, <2>11, <2>12, <2>18 DEF Iterations, Counts
<1> QED
  BY <1>2, <1>3

\* A refused child gives the anchor, and the chain reset, back.
LEMMA RefusedIterations ==
    ASSUME IInv, Iterations, Refused
    PROVE  Iterations'
<1> DEFINE t == act.task
<1>1. /\ act.pc = "register" /\ child[act.child].status = "refused" /\ tasks' = RestoreFireAnchor
      /\ act' = Idle /\ UNCHANGED <<child, created, expired, cancelled>> /\ UNCHANGED <<queue, debounced, disk>>
  BY DEF Refused, Done, store, world
<1>2. act.was \in Record
  BY <1>1 DEF IInv, HandlerHolds
<1>3. tasks \in [DOMAIN tasks -> Record] /\ DOMAIN tasks \subseteq Tasks
  BY TasksTyped DEF IInv
<1>4. /\ DOMAIN tasks' = DOMAIN tasks
      /\ \A u \in DOMAIN tasks : u # t => tasks'[u] = tasks[u]
      /\ t \in DOMAIN tasks => /\ tasks'[t].anchor = act.was.anchor /\ tasks'[t].reset = act.was.reset
                               /\ tasks'[t].prompt = tasks[t].prompt
  <2>1. DOMAIN tasks' = DOMAIN tasks /\ \A u \in DOMAIN tasks : u # t => tasks'[u] = tasks[u]
    BY <1>1 DEF RestoreFireAnchor
  <2>2. ASSUME t \in DOMAIN tasks
        PROVE  /\ tasks'[t].anchor = act.was.anchor /\ tasks'[t].reset = act.was.reset
               /\ tasks'[t].prompt = tasks[t].prompt
    <3> DEFINE r == [tasks[t] EXCEPT !.anchor = act.was.anchor, !.iterations = act.was.iterations,
                                     !.reset = act.was.reset]
    <3>1. tasks'[t] = r /\ tasks[t] \in Record
      BY <1>1, <1>3, <2>2 DEF RestoreFireAnchor
    <3>2. r.anchor = act.was.anchor /\ r.reset = act.was.reset /\ r.prompt = tasks[t].prompt
      BY <3>1 DEF Record
    <3> QED
      BY <3>1, <3>2
  <2> QED
    BY <2>1, <2>2
<1>5. Kids(child, t, Going) = {} /\ (t \in OneShots => Kids(child, t, Begun) = {})
  <2>1. Kids(child, t, Going) \subseteq {act.child} /\ (t \in OneShots => Kids(child, t, Begun) \subseteq {act.child})
    BY <1>1 DEF Iterations, Counts, Anchored, NotYetFired
  <2>2. act.child \notin Kids(child, t, Going) /\ act.child \notin Kids(child, t, Begun)
    BY <1>1 DEF Kids, Going, Begun
  <2> QED
    BY <2>1, <2>2
<1>6. AnchoredTasks(child', tasks')
  BY <1>1, <1>4, <1>5 DEF AnchoredTasks, Iterations, Counts, Anchored
<1>7. \A u \in OneShots \cap DOMAIN tasks' : Kids(child', u, Begun) = {} \/ cancelled'
  BY <1>1, <1>4, <1>5 DEF Iterations, Counts, NotYetFired
<1>8. /\ \A c \in Children : child'[c].task \in created' \cup {None}
      /\ expired' \subseteq Loops
  BY <1>1 DEF Iterations, Counts, ChildrenGenuine
<1>9. ~Pursuing(act') /\ act'.pc \notin Firing /\ Abates(child, child') /\ Lasting(child, child') /\ CopiesMove
  BY <1>1, IdleRests, SameChildren, CopiesSame DEF Pursuing
<1>10. Counts'
  BY <1>3, <1>4, <1>6, <1>7, <1>8, <1>9, CountsRest DEF Iterations
<1>11. AllFaithful(child', tasks')
  <2>1. AllFaithful(child, tasks) /\ Faithful(child, act.was)
    BY <1>1 DEF Iterations, Transcripts, Copies, Pursuing, Firing
  <2>2. t \in DOMAIN tasks => tasks[t].prompt = act.was.prompt
    BY <1>1 DEF Iterations, Transcripts, Firing
  <2>3. t \in DOMAIN tasks => Faithful(child', tasks'[t])
    BY <1>1, <1>4, <2>1, <2>2 DEF Faithful
  <2> QED
    BY <1>1, <1>4, <2>1, <2>3 DEF AllFaithful
<1>12. \A c \in Children : Uniform(child'[c].transcript)
  BY <1>1 DEF Iterations, Transcripts
<1>13. Transcripts'
  BY <1>9, <1>11, <1>12, TranscriptsKept DEF Iterations
<1> QED
  BY <1>10, <1>13 DEF Iterations

LEMMA RestartIterations ==
    ASSUME IInv, Iterations, Restart
    PROVE  Iterations'
<1>1. /\ tasks' = disk /\ queue' = <<>> /\ debounced' = None /\ disk' = disk /\ act' = Idle
      /\ UNCHANGED <<created, expired>>
  BY DEF Restart
<1>2. child \in [Children -> ChildRecord] /\ disk \in Snapshots
  BY DEF IInv, TypeOK, ChildRecord
<1>3. \A c \in Children : /\ child'[c].task = None /\ child'[c].transcript = child[c].transcript
                          /\ child[c].status # "unused" => child'[c].status # "unused"
  <2> DEFINE over(s) == CASE s = "live" -> "failed" [] s = "sent" -> "refused" [] OTHER -> s
  <2>1. \A c \in Children : child'[c] = [child[c] EXCEPT !.task = None, !.unit = FALSE,
                                                         !.status = over(child[c].status)]
    BY Zenon DEF Restart
  <2>2. \A s \in Status : s # "unused" => over(s) # "unused"
    OBVIOUS
  <2> HIDE DEF over
  <2>3. \A c \in Children : child[c] \in ChildRecord /\ child[c].status \in Status
    BY <1>2 DEF ChildRecord
  <2>4. ASSUME NEW c \in Children, NEW x, child'[c] = [child[c] EXCEPT !.task = None, !.unit = FALSE, !.status = x]
        PROVE  child'[c].task = None /\ child'[c].transcript = child[c].transcript /\ child'[c].status = x
    BY <2>3, <2>4 DEF ChildRecord
  <2>5. \A c \in Children : /\ child'[c].task = None /\ child'[c].transcript = child[c].transcript
                            /\ child'[c].status = over(child[c].status)
    BY <2>1, <2>4, Zenon
  <2> QED
    BY <2>2, <2>3, <2>5
<1>4. \A u \in Tasks : \A S : Kids(child', u, S) = {}
  BY <1>3, SchedulerParameters DEF Kids
<1>5. DOMAIN disk \subseteq Tasks
  BY <1>2, SnapshotDef
<1>6. /\ ~Pursuing(act') /\ act'.pc \notin Firing /\ Abates(child, child') /\ Lasting(child, child')
      /\ AnchoredTasks(child', tasks')
  BY <1>1, <1>3, <1>4, <1>5, IdleRests DEF Pursuing, Abates, Lasting, AnchoredTasks
<1>7. /\ \A c \in Children : child'[c].task \in created' \cup {None}
      /\ expired' \subseteq Loops
  BY <1>1, <1>3 DEF Iterations, Counts, ChildrenGenuine
<1>8. Counts'
  BY <1>1, <1>4, <1>5, <1>6, <1>7, CountsRest DEF Iterations
<1>9. CopiesMove
  BY <1>1 DEF CopiesMove, Copies
<1>10. AllFaithful(child', tasks')
  <2>1. AllFaithful(child, disk)
    BY DEF Iterations, Transcripts, Copies
  <2> QED
    BY <1>1, <1>2, <1>6, <2>1, AllFaithfulLasts
<1>11. \A c \in Children : Uniform(child'[c].transcript)
  BY <1>3 DEF Iterations, Transcripts
<1>12. Transcripts'
  BY <1>6, <1>9, <1>10, <1>11, TranscriptsKept DEF Iterations
<1> QED
  BY <1>8, <1>12 DEF Iterations

LEMMA InitIterations ==
    ASSUME Init
    PROVE  Iterations
<1>1. /\ DOMAIN tasks = {} /\ DOMAIN disk = {} /\ debounced = None /\ queue = <<>> /\ act = Idle
      /\ expired = {} /\ \A c \in Children : child[c].task = None /\ child[c].transcript = {}
  BY EmptyType DEF Init
<1>2. /\ ~Pursuing(act) /\ act.pc = "idle"
  BY <1>1, IdleRests, IdleFields
<1>3. \A t \in Tasks : \A S : Kids(child, t, S) = {}
  BY <1>1, SchedulerParameters DEF Kids
<1>4. ChildrenGenuine /\ Anchored /\ Single
  BY <1>1, <1>2, <1>3 DEF ChildrenGenuine, Anchored, Single
<1>5. NotYetFired
  BY <1>1, <1>2, <1>3 DEF NotYetFired, Tasks
<1>6. Transcripts
  <2>1. \A m \in Copies : DOMAIN m = {}
    BY <1>1 DEF Copies
  <2> QED
    BY <1>1, <1>2, <2>1 DEF Transcripts, AllFaithful, Uniform, Firing
<1> QED
  BY <1>4, <1>5, <1>6 DEF Iterations, Counts

LEMMA StepIterations ==
    ASSUME IInv, IInv', Iterations, Next
    PROVE  Iterations'
<1>1. ASSUME NEW t \in Tasks, NEW p \in Prompts, NEW d \in BOOLEAN, Create(t, p, d) PROVE Iterations'
  BY <1>1, CreateIterations
<1>2. ASSUME NEW t \in Tasks, NEW p \in Prompts, Update(t, p) PROVE Iterations'
  BY <1>2, UpdateIterations
<1>3. ASSUME NEW t \in Tasks, DeleteFirst(t) \/ ExpireDurable(t) \/ ExpireSoft(t) \/ Fire(t) \/ Expires(t)
      PROVE  Iterations'
  BY <1>3, DeleteFirstIterations, ExpireIterations, FireIterations, OutsideIterations
<1>4. ASSUME DeleteAgain \/ Stop \/ Save \/ WriteSave \/ TargetCloses \/ Cancels \/ Restart PROVE Iterations'
  BY <1>4, DeleteAgainIterations, StopIterations, WriterIterations, OutsideIterations, RestartIterations
<1>5. ASSUME Handler PROVE Iterations'
  BY <1>5, QueryIterations, UnitIterations, SpawnIterations, RefusedIterations, FiredIterations, SkipIterations,
     DeleteSavedIterations, ExpirySavedIterations, BestEffortIterations, ReceiptIterations DEF Handler
<1>6. ASSUME NEW c \in Children, Guard(c) \/ Registers(c) \/ Refuses(c) \/ Ends(c) \/ Nests(c) PROVE Iterations'
  BY <1>6, GuardIterations, OutsideIterations
<1>7. ASSUME NEW ok \in BOOLEAN, NEW written \in BOOLEAN, WriteFlush(ok, written) \/ WritePending(ok)
      PROVE  Iterations'
  BY <1>7, WriterIterations
<1> QED
  BY <1>1, <1>2, <1>3, <1>4, <1>5, <1>6, <1>7 DEF Next

LEMMA IterationsHold == Spec => []Iterations
<1>1. Init => Iterations
  BY InitIterations
<1>2. IInv /\ IInv' /\ Iterations /\ [Next]_vars => Iterations'
  <2>1. ASSUME IInv, Iterations, UNCHANGED vars PROVE Iterations'
    BY <2>1, StutterIterations DEF vars, store, world
  <2> QED
    BY <2>1, StepIterations
<1> QED
  BY <1>1, <1>2, Invariance, PTL DEF Spec

\* A set whose elements are equal has at most one.
LEMMA AtMostOne ==
    ASSUME NEW S, \A x, y \in S : x = y
    PROVE  Cardinality(S) <= 1
<1>1. CASE S = {}
  BY <1>1, FS_EmptySet
<1>2. ASSUME NEW x \in S PROVE Cardinality(S) <= 1
  <2>1. S = {x}
    BY <1>2
  <2> QED
    BY <2>1, FS_Singleton
<1> QED
  BY <1>1, <1>2

-----------------------------------------------------------------------------

\* The actor's state, the file and the writer's queue stay well typed: no
\* version outgrows u64, at a roll-over or at a shutdown, and no task list
\* outgrows MAX_SCHEDULED_TASKS.
THEOREM SchedulerTypeCorrect == Spec => []TypeOK
<1>1. IInv => TypeOK
  BY DEF IInv
<1> QED
  BY <1>1, Invariance, PTL

\* commit_next never meets a clock that moved on since the reservation.
THEOREM ReservationsFresh == Spec => []ReservationFresh
<1>1. IInv => ReservationFresh
  BY DEF IInv
<1> QED
  BY <1>1, Invariance, PTL

\* A removal the actor vouched for is final, through late flushes, debounced
\* snapshots, failed writes and restarts.
THEOREM RemovalsFinal == Spec => []NoResurrection
<1>1. IInv => NoResurrection
  BY DEF IInv
<1> QED
  BY <1>1, Invariance, PTL

\* At any time at most one iteration of a task is at the coordinator, for any
\* number of skipped, refused and timed-out fires, patches and restarts.
THEOREM IterationsAlone == Spec => []OneIteration
<1>1. Iterations => OneIteration
  <2>1. ASSUME Iterations, NEW t \in Tasks PROVE Cardinality(Of(t, {"sent", "live"})) <= 1
    <3>1. Of(t, {"sent", "live"}) = Kids(child, t, Going)
      BY DEF Of, Kids, Going
    <3>2. \A c, d \in Kids(child, t, Going) : c = d
      BY <2>1 DEF Iterations, Counts, Single
    <3> QED
      BY <3>1, <3>2, AtMostOne
  <2> QED
    BY <2>1 DEF OneIteration
<1> QED
  BY <1>1, IterationsHold, PTL

\* Between two restarts a one-shot is started at most once, whether its child
\* registers late, is refused, or is left to a shutdown.
THEOREM OneShotsFireOnce == Spec => []OneShotOnce
<1>1. Iterations => OneShotOnce
  <2>1. ASSUME Iterations, NEW t \in OneShots PROVE Cardinality(Of(t, {"live", "completed", "failed"})) <= 1
    <3>1. Of(t, {"live", "completed", "failed"}) \subseteq Kids(child, t, Begun)
      BY DEF Of, Kids, Begun
    <3>2. \A c, d \in Kids(child, t, Begun) : c = d
      BY <2>1 DEF Iterations, Counts, NotYetFired
    <3> QED
      BY <3>1, <3>2, AtMostOne
  <2> QED
    BY <2>1 DEF OneShotOnce
<1> QED
  BY <1>1, IterationsHold, PTL

\* An iteration never goes on with the transcript of an older prompt, though
\* anchors come back from refused spawns, failed expiries and the file.
THEOREM TranscriptsOfOnePrompt == Spec => []TranscriptKeepsPrompt
<1>1. Iterations => TranscriptKeepsPrompt
  BY AtMostOne DEF Iterations, Transcripts, Uniform, TranscriptKeepsPrompt
<1> QED
  BY <1>1, IterationsHold, PTL

=============================================================================
