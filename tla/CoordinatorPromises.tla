------------------------ MODULE CoordinatorPromises -------------------------
(***************************************************************************)
(* What the coordinator owes to others: the callers blocked in spawn(),    *)
(* the blocking queries, the messages parked on a child, the sessions that *)
(* are being closed, the slots of a session.  Each promise is a predicate  *)
(* on a coordinator record; every operator of CoordinatorOps keeps them.   *)
(***************************************************************************)
EXTENDS CoordinatorHomes

\* The children that are still to finish: queued, pending or active.  A queued
\* entry and a live child hold the same things under different names.
Present(t) == DOMAIN t.queued \cup Live(t)

\* The child holds the sending end of its caller's channel.
Owes(t, i) == IF i \in Live(t) THEN ChildOf(t, i).reply ELSE t.queued[i].awaiting

\* The terminal record a wake displaced.
Prior(t, i) == IF i \in Live(t) THEN ChildOf(t, i).wakeOf ELSE t.queued[i].wake

-----------------------------------------------------------------------------
(* The promises *)

CallersOwed(t) ==
    \A i \in Ids : t.callers[i] = "waiting" => i \in Present(t) /\ Owes(t, i)

WaitersOwed(t) ==
    \A i \in Ids : t.waiters[i] # "none" => i \in Present(t) /\ RequestOf(t, i).run = None

\* An active child's start is settled once its displaced record is let go.
ParkedOwed(t) ==
    \A m \in t.parked :
        m[1] \in Present(t) /\ (m[1] \in DOMAIN t.active => Prior(t, m[1]) # None)

\* The caller of a foreground child got no result in hand before.
NotHeard(t, i, r) == r.bg \/ t.callers[i] # "result"

Delivered(t) ==
    \A i \in DOMAIN t.completed :
        t.completed[i].surfaced => NotHeard(t, i, t.completed[i].req)

Owned(t) ==
    \A i \in DOMAIN t.graph :
        /\ t.graph[i].root = RequestOf(t, i).parent
        /\ t.graph[i].spawner # None => t.graph[i].spawner \in t.graph[i].chain

\* A wake runs a task child of the same session in the background, without a
\* caller; the record it displaced keeps its own promise.
WakesGenuine(t) ==
    \A i \in Present(t) :
        LET d == Prior(t, i)
            r == RequestOf(t, i)
        IN  d # None => /\ d.req.parent = r.parent /\ d.req.run = None
                        /\ r.run = None /\ r.bg /\ ~Owes(t, i)
                        /\ d.surfaced => NotHeard(t, i, d.req)

\* A foreground child that is still to finish has given its caller no result,
\* and once it is handed to the background it holds no caller.
Unanswered(t) ==
    /\ \A i \in Present(t) : NotHeard(t, i, RequestOf(t, i))
    /\ \A i \in Live(t) :
          ChildOf(t, i).handleOnly /\ ChildOf(t, i).reply => ChildOf(t, i).req.bg

\* Only task children queue, and the token of a queued wake is private.
QueueOfTasks(t) ==
    \A i \in DOMAIN t.queued :
        t.queued[i].req.run = None /\ (t.queued[i].cancelled => t.queued[i].wake = None)

Promised(t) ==
    /\ CallersOwed(t) /\ WaitersOwed(t) /\ ParkedOwed(t) /\ Delivered(t)
    /\ Owned(t) /\ WakesGenuine(t) /\ Unanswered(t) /\ QueueOfTasks(t)

\* Outputs are withheld from closed children with an admission in flight,
\* those of X set aside.
HeldBut(t, X) ==
    \A i \in DOMAIN t.outputs \ X :
        i \in DOMAIN t.active /\ t.active[i].phase = "Finalizing" /\ t.active[i].inFlight > 0

\* The sessions of D are told of no completion and have no child left that
\* would surface in them.
Muted(t, D) ==
    /\ \A b \in t.buffer : b[1] \notin D
    /\ \A i \in Present(t) :
          RequestOf(t, i).parent \in D /\ RequestOf(t, i).run = None
             => ~RequestOf(t, i).surface

\* A session being deleted is a root session, closed and muted; a closed session
\* has no queue, X set aside.
QuietBut(t, X) ==
    /\ t.drains \subseteq t.blocked \cap Sessions
    /\ \A i \in DOMAIN t.queued \ X : t.queued[i].req.parent \notin t.blocked
    /\ Muted(t, t.drains)

RunsOutstanding(t) == \A r \in t.runWaiters : RunOutstanding(t, r) # {}

\* No two entries hold the same place in the queue.
TicketsDiffer(t) ==
    \A i, j \in DOMAIN t.queued : t.queued[i].ticket = t.queued[j].ticket => i = j

\* No session runs more than its limit, X set aside.
FitsBut(t, X) == \A s \in Parents : Cardinality(Running(t, s) \ X) <= Limit

QueueFull(t) == \A i \in DOMAIN t.queued : ~HasCapacity(t, t.queued[i].req.parent)

\* The promises inside a handler: the children of X are about to finish, the
\* entries of Q about to leave the queue, and the sweep is still to come.
Good(t, X, Q) ==
    /\ Promised(t) /\ HeldBut(t, X) /\ QuietBut(t, Q) /\ RunsOutstanding(t)
    /\ TicketsDiffer(t) /\ FitsBut(t, X)

\* The promises between two events.
Kept(t) == Good(t, {}, {}) /\ QueueFull(t)

-----------------------------------------------------------------------------
(* What an operator may do without breaking a promise *)

\* The children of u are children of t, with the same owner; they hold at most
\* what they held, and the callers they held in t are held or let go.
ChildrenOnward(t, u) ==
    /\ \A i \in Present(u) :
          /\ i \in Present(t)
          /\ RequestOf(u, i).parent = RequestOf(t, i).parent
          /\ RequestOf(u, i).run = RequestOf(t, i).run
          /\ RequestOf(u, i).bg = RequestOf(t, i).bg
          /\ Prior(u, i) \in {None, Prior(t, i)}
          /\ Owes(u, i) => Owes(t, i)
    /\ \A i \in Live(u) :
          ChildOf(u, i).handleOnly /\ ChildOf(u, i).reply =>
             ChildOf(u, i).req.bg \/ (i \in Live(t) /\ ChildOf(t, i).handleOnly)
    /\ \A i \in DOMAIN u.queued :
          i \in DOMAIN t.queued /\ (u.queued[i].cancelled => t.queued[i].cancelled
                                                             \/ u.queued[i].wake = None)

\* Nobody waits who did not wait in t, and nobody waits for a child that left.
WaitingOnward(t, u) ==
    /\ \A i \in Ids : u.callers[i] = "waiting" =>
          /\ t.callers[i] = "waiting"
          /\ i \in Present(t) /\ Owes(t, i) => i \in Present(u) /\ Owes(u, i)
    /\ \A i \in Present(u) : u.callers[i] = "result" => t.callers[i] = "result"
    /\ \A i \in Ids : u.waiters[i] # "none" => t.waiters[i] # "none" /\ i \in Present(u)
    /\ \A m \in u.parked :
          /\ m \in t.parked /\ m[1] \in Present(u)
          /\ m[1] \in DOMAIN u.active =>
                \/ Prior(u, m[1]) # None
                \/ m[1] \in DOMAIN t.active /\ Prior(u, m[1]) = Prior(t, m[1])

\* A terminal record is one of t, or the record of a child of t that finished;
\* the graph gains no node.
RecordsOnward(t, u) ==
    /\ \A i \in DOMAIN u.completed :
          LET d == u.completed[i]
          IN  \/ /\ i \in DOMAIN t.completed
                 /\ d.req = t.completed[i].req /\ d.surfaced = t.completed[i].surfaced
                 /\ u.callers[i] = "result" => t.callers[i] = "result"
              \/ /\ i \in Present(t) /\ d.req.parent = RequestOf(t, i).parent
                 /\ d.surfaced => NotHeard(u, i, d.req)
    /\ \A i \in DOMAIN u.graph : i \in DOMAIN t.graph /\ u.graph[i] = t.graph[i]

Onward(t, u) == ChildrenOnward(t, u) /\ WaitingOnward(t, u) /\ RecordsOnward(t, u)

LEMMA OnwardPromised ==
    ASSUME NEW t \in State, NEW u \in State, Homed(t), Homed(u), Promised(t), Onward(t, u)
    PROVE  Promised(u)
<1>1. CallersOwed(u)
  BY DEF Promised, Onward, CallersOwed, WaitingOnward
<1>2. WaitersOwed(u)
  BY DEF Promised, Onward, WaitersOwed, WaitingOnward, ChildrenOnward
<1>3. ParkedOwed(u)
  BY DEF Promised, Onward, ParkedOwed, WaitingOnward, ChildrenOnward
<1>4. Delivered(u)
  BY DEF Promised, Onward, Delivered, RecordsOnward, NotHeard
<1>5. Owned(u)
  <2> SUFFICES ASSUME NEW i \in DOMAIN u.graph
               PROVE  RequestOf(u, i).parent = RequestOf(t, i).parent
    BY DEF Promised, Onward, Owned, RecordsOnward
  <2>1. CASE i \in Present(u)
    BY <2>1 DEF Onward, ChildrenOnward
  <2>2. CASE i \notin Present(u)
    <3>1. i \in DOMAIN u.completed /\ RequestOf(u, i) = u.completed[i].req
      BY <2>2 DEF Homed, Known, Present, RequestOf
    <3>2. i \in DOMAIN t.completed => RequestOf(t, i) = t.completed[i].req
      BY DEF Homed, Known, Live, RequestOf
    <3> QED
      BY <3>1, <3>2 DEF Onward, RecordsOnward
  <2> QED
    BY <2>1, <2>2
<1>6. WakesGenuine(u)
  BY DEF Promised, Onward, WakesGenuine, ChildrenOnward, WaitingOnward, NotHeard
<1>7. Unanswered(u)
  <2>1. \A i \in Present(u) : NotHeard(u, i, RequestOf(u, i))
    BY DEF Promised, Onward, Unanswered, ChildrenOnward, WaitingOnward, NotHeard
  <2>2. ASSUME NEW i \in Live(u), ChildOf(u, i).handleOnly /\ ChildOf(u, i).reply
        PROVE  ChildOf(u, i).req.bg
    <3>1. i \in Present(u) /\ RequestOf(u, i) = ChildOf(u, i).req /\ Owes(u, i) = ChildOf(u, i).reply
      BY DEF Present, RequestOf, Owes
    <3>2. i \in Live(t) => RequestOf(t, i) = ChildOf(t, i).req /\ Owes(t, i) = ChildOf(t, i).reply
      BY DEF RequestOf, Owes
    <3> QED
      BY <2>2, <3>1, <3>2 DEF Promised, Onward, Unanswered, ChildrenOnward
  <2> QED
    BY <2>1, <2>2 DEF Unanswered
<1>8. QueueOfTasks(u)
  <2> SUFFICES ASSUME NEW i \in DOMAIN u.queued
               PROVE  /\ u.queued[i].req.run = None
                      /\ u.queued[i].cancelled => u.queued[i].wake = None
    BY DEF QueueOfTasks
  <2>1. i \in DOMAIN t.queued /\ i \notin Live(u) /\ i \notin Live(t) /\ i \in Present(u)
    BY DEF Onward, ChildrenOnward, Homed, Present
  <2>2. RequestOf(u, i) = u.queued[i].req /\ RequestOf(t, i) = t.queued[i].req
    BY <2>1 DEF RequestOf
  <2>3. Prior(u, i) = u.queued[i].wake /\ Prior(t, i) = t.queued[i].wake
    BY <2>1 DEF Prior
  <2> QED
    BY <2>1, <2>2, <2>3 DEF Promised, Onward, QueueOfTasks, ChildrenOnward
<1> QED
  BY <1>1, <1>2, <1>3, <1>4, <1>5, <1>6, <1>7, <1>8 DEF Promised

-----------------------------------------------------------------------------
(* Operators that move no child *)

\* Child d holds no more than c did; waiting says that its caller still waits.
SofterChild(c, d, waiting) ==
    /\ d.req.parent = c.req.parent /\ d.req.run = c.req.run /\ d.req.bg = c.req.bg
    /\ d.req.surface => c.req.surface
    /\ d.wakeOf \in {None, c.wakeOf}
    /\ d.reply => c.reply
    /\ waiting /\ c.reply => d.reply
    /\ d.handleOnly /\ d.reply => c.handleOnly

SofterEntry(p, q, waiting) ==
    /\ q.req.parent = p.req.parent /\ q.req.run = p.req.run /\ q.req.bg = p.req.bg
    /\ q.req.surface => p.req.surface
    /\ q.wake = p.wake /\ q.ticket = p.ticket
    /\ q.awaiting => p.awaiting
    /\ waiting /\ p.awaiting => q.awaiting
    /\ q.cancelled => p.cancelled \/ q.wake = None

SofterMaps(t, u) ==
    /\ \A i \in DOMAIN t.pending :
          SofterChild(t.pending[i], u.pending[i], u.callers[i] = "waiting")
    /\ \A i \in DOMAIN t.active :
          SofterChild(t.active[i], u.active[i], u.callers[i] = "waiting")
    /\ \A i \in DOMAIN t.queued :
          SofterEntry(t.queued[i], u.queued[i], u.callers[i] = "waiting")

SofterViews(t, u) ==
    /\ \A i \in Ids : u.callers[i] = t.callers[i] \/ u.callers[i] \notin {"waiting", "result"}
    /\ \A i \in Ids : u.waiters[i] # "none" => t.waiters[i] # "none"
    /\ \A m \in u.parked :
          m \in t.parked /\ (m[1] \in DOMAIN t.active =>
                               u.active[m[1]].wakeOf = t.active[m[1]].wakeOf)
    /\ \A i \in DOMAIN t.completed :
          /\ u.completed[i].req = t.completed[i].req
          /\ u.completed[i].surfaced = t.completed[i].surfaced
    /\ u.graph = t.graph

\* Admissions in flight stay, save those of X; sessions open, never close.
SofterRest(t, u, X) ==
    /\ DOMAIN u.outputs \subseteq DOMAIN t.outputs \cup X
    /\ \A i \in DOMAIN t.active \ X :
          /\ t.active[i].phase = "Finalizing" => u.active[i].phase = "Finalizing"
          /\ t.active[i].inFlight > 0 => u.active[i].inFlight > 0
    /\ u.drains \subseteq t.drains \cap u.blocked /\ u.blocked \subseteq t.blocked
    /\ u.buffer \subseteq t.buffer /\ u.runWaiters \subseteq t.runWaiters

Eased(t, u, X) ==
    SameHomes(t, u) /\ SofterMaps(t, u) /\ SofterViews(t, u) /\ SofterRest(t, u, X)

LEMMA EasedChild ==
    ASSUME NEW t, NEW u, SameHomes(t, u), SofterMaps(t, u), NEW i \in Live(t)
    PROVE  i \in Live(u) /\ SofterChild(ChildOf(t, i), ChildOf(u, i), u.callers[i] = "waiting")
BY DEF SameHomes, SofterMaps, Live, ChildOf

LEMMA EasedPresent ==
    ASSUME NEW t, NEW u, SameHomes(t, u), SofterMaps(t, u)
    PROVE  /\ Present(u) = Present(t) /\ Live(u) = Live(t)
           /\ \A i \in Present(t) :
                 /\ RequestOf(u, i).parent = RequestOf(t, i).parent
                 /\ RequestOf(u, i).run = RequestOf(t, i).run
                 /\ RequestOf(u, i).bg = RequestOf(t, i).bg
                 /\ RequestOf(u, i).surface => RequestOf(t, i).surface
                 /\ Prior(u, i) \in {None, Prior(t, i)}
                 /\ Owes(u, i) => Owes(t, i)
                 /\ u.callers[i] = "waiting" /\ Owes(t, i) => Owes(u, i)
<1>1. Present(u) = Present(t) /\ Live(u) = Live(t)
  BY DEF SameHomes, Present, Live
<1>2. ASSUME NEW i \in Live(t)
      PROVE  /\ RequestOf(u, i) = ChildOf(u, i).req /\ RequestOf(t, i) = ChildOf(t, i).req
             /\ Prior(u, i) = ChildOf(u, i).wakeOf /\ Prior(t, i) = ChildOf(t, i).wakeOf
             /\ Owes(u, i) = ChildOf(u, i).reply /\ Owes(t, i) = ChildOf(t, i).reply
  BY <1>1 DEF RequestOf, Prior, Owes
<1>3. ASSUME NEW i \in Present(t), i \notin Live(t)
      PROVE  /\ i \in DOMAIN t.queued
             /\ RequestOf(u, i) = u.queued[i].req /\ RequestOf(t, i) = t.queued[i].req
             /\ Prior(u, i) = u.queued[i].wake /\ Prior(t, i) = t.queued[i].wake
             /\ Owes(u, i) = u.queued[i].awaiting /\ Owes(t, i) = t.queued[i].awaiting
  BY <1>1, <1>3 DEF RequestOf, Prior, Owes, Present, SameHomes
<1>4. ASSUME NEW i \in Present(t), i \notin Live(t)
      PROVE  SofterEntry(t.queued[i], u.queued[i], u.callers[i] = "waiting")
  BY <1>3, <1>4 DEF SofterMaps
<1> QED
  BY <1>1, <1>2, <1>3, <1>4, EasedChild DEF SofterChild, SofterEntry

LEMMA EasedRunning ==
    ASSUME NEW t, NEW u, SameHomes(t, u), SofterMaps(t, u)
    PROVE  /\ \A s : Running(u, s) = Running(t, s)
           /\ \A r : RunOutstanding(u, r) = RunOutstanding(t, r)
<1>1. Live(u) = Live(t)
  BY EasedPresent
<1>2. \A i \in Live(t) : /\ ChildOf(u, i).req.parent = ChildOf(t, i).req.parent
                         /\ ChildOf(u, i).req.run = ChildOf(t, i).req.run
  BY EasedChild DEF SofterChild
<1> QED
  BY <1>1, <1>2 DEF Running, RunOutstanding

LEMMA EasedMuted ==
    ASSUME NEW t, NEW u, SameHomes(t, u), SofterMaps(t, u), u.buffer \subseteq t.buffer,
           NEW D, Muted(t, D)
    PROVE  Muted(u, D)
BY EasedPresent DEF Muted

LEMMA EasedOnward ==
    ASSUME NEW t \in State, NEW u \in State, Homed(t), Promised(t), NEW X, Eased(t, u, X)
    PROVE  Onward(t, u)
<1> USE DEF Eased
<1>1. ChildrenOnward(t, u)
  <2>1. \A i \in Live(u) :
          ChildOf(u, i).handleOnly /\ ChildOf(u, i).reply => i \in Live(t) /\ ChildOf(t, i).handleOnly
    BY EasedPresent, EasedChild DEF SofterChild
  <2>2. \A i \in DOMAIN u.queued :
          i \in DOMAIN t.queued /\ (u.queued[i].cancelled => t.queued[i].cancelled
                                                             \/ u.queued[i].wake = None)
    BY DEF SofterMaps, SofterEntry, SameHomes
  <2> QED
    BY <2>1, <2>2, EasedPresent DEF ChildrenOnward
<1>2. WaitingOnward(t, u)
  <2>1. \A m \in u.parked : m[1] \in DOMAIN u.active => Prior(u, m[1]) = Prior(t, m[1])
    BY DEF SofterViews, SameHomes, Prior, Live, ChildOf
  <2>2. \A m \in u.parked : m \in t.parked /\ m[1] \in Present(t)
    BY DEF SofterViews, Promised, ParkedOwed
  <2>3. \A i \in Ids : u.waiters[i] # "none" => t.waiters[i] # "none" /\ i \in Present(t)
    BY DEF SofterViews, Promised, WaitersOwed
  <2>4. DOMAIN u.active = DOMAIN t.active
    BY DEF SameHomes
  <2>5. Present(t) \in SUBSET Ids
    BY DomainFacts DEF Present, Live
  <2>6. \A i \in Ids : u.callers[i] = "waiting" =>
          t.callers[i] = "waiting" /\ (i \in Present(t) /\ Owes(t, i) => i \in Present(u) /\ Owes(u, i))
    BY EasedPresent DEF SofterViews
  <2>7. \A i \in Present(u) : u.callers[i] = "result" => t.callers[i] = "result"
    BY <2>5, EasedPresent DEF SofterViews
  <2> QED
    BY <2>1, <2>2, <2>3, <2>4, <2>6, <2>7, EasedPresent DEF WaitingOnward
<1>3. RecordsOnward(t, u)
  <2>1. DOMAIN u.completed = DOMAIN t.completed /\ DOMAIN t.completed \in SUBSET Ids
    BY DomainFacts DEF SameHomes
  <2> QED
    BY <2>1 DEF RecordsOnward, SofterViews
<1> QED
  BY <1>1, <1>2, <1>3 DEF Onward

\* An operator that only takes away keeps every promise.
LEMMA EasedGood ==
    ASSUME NEW t \in State, NEW u \in State, Homed(t), NEW X, NEW Q, Good(t, X, Q),
           Eased(t, u, X)
    PROVE  Good(u, X, Q) /\ (QueueFull(t) => QueueFull(u)) /\ Homed(u)
<1>0. SameHomes(t, u) /\ SofterMaps(t, u) /\ SofterViews(t, u) /\ SofterRest(t, u, X) /\ Homed(u)
  BY SameHomesHomed DEF Eased
<1>1. Promised(u)
  BY <1>0, EasedOnward, OnwardPromised DEF Good
<1>2. HeldBut(u, X)
  BY <1>0 DEF Good, HeldBut, SofterRest, SameHomes
<1>3. \A i \in DOMAIN u.queued :
        /\ i \in DOMAIN t.queued /\ u.queued[i].req.parent = t.queued[i].req.parent
        /\ u.queued[i].ticket = t.queued[i].ticket
  BY <1>0 DEF SofterMaps, SofterEntry, SameHomes
<1>4. QuietBut(u, Q)
  <2>1. u.drains \subseteq u.blocked \cap Sessions /\ u.blocked \subseteq t.blocked
    BY <1>0 DEF Good, QuietBut, SofterRest
  <2>2. \A i \in DOMAIN u.queued \ Q : u.queued[i].req.parent \notin u.blocked
    BY <1>3, <2>1 DEF Good, QuietBut
  <2>3. Muted(u, u.drains)
    BY <1>0, EasedMuted DEF Good, QuietBut, SofterRest, Muted
  <2> QED
    BY <2>1, <2>2, <2>3 DEF QuietBut
<1>5. RunsOutstanding(u)
  BY <1>0, EasedRunning DEF Good, RunsOutstanding, SofterRest
<1>6. TicketsDiffer(u)
  BY <1>3 DEF Good, TicketsDiffer
<1>7. FitsBut(u, X)
  BY <1>0, EasedRunning DEF Good, FitsBut
<1>8. QueueFull(t) => QueueFull(u)
  BY <1>0, <1>3, EasedRunning DEF QueueFull, HasCapacity
<1> QED
  BY <1>0, <1>1, <1>2, <1>4, <1>5, <1>6, <1>7, <1>8 DEF Good

LEMMA SofterSelf ==
    ASSUME NEW t, NEW u, u.queued = t.queued, u.pending = t.pending, u.active = t.active
    PROVE  SofterMaps(t, u)
BY DEF SofterMaps, SofterChild, SofterEntry

\* Only waiters, parked messages and the fields that are about sessions change.
LEMMA EasedSameMaps ==
    ASSUME NEW t \in State, NEW u \in State, NEW X,
           u.queued = t.queued, u.pending = t.pending, u.active = t.active,
           u.completed = t.completed, u.graph = t.graph, u.callers = t.callers,
           \A i \in Ids : u.waiters[i] # "none" => t.waiters[i] # "none",
           u.parked \subseteq t.parked, SofterRest(t, u, X)
    PROVE  Eased(t, u, X)
<1>1. SameHomes(t, u) /\ SofterMaps(t, u)
  BY SofterSelf DEF SameHomes
<1>2. SofterViews(t, u)
  BY DEF SofterViews
<1> QED
  BY <1>1, <1>2 DEF Eased

LEMMA EasedKept ==
    ASSUME NEW t \in State, NEW u \in State, Homed(t), Kept(t), Eased(t, u, {})
    PROVE  Kept(u) /\ Homed(u)
BY EasedGood DEF Kept

\* The children are the same; less is parked, buffered, waited for or closed.
LEMMA LessKept ==
    ASSUME NEW t \in State, NEW u \in State, Homed(t), Kept(t),
           u.queued = t.queued, u.pending = t.pending, u.active = t.active,
           u.completed = t.completed, u.graph = t.graph, u.callers = t.callers,
           u.outputs = t.outputs, u.runWaiters = t.runWaiters,
           \A i \in Ids : u.waiters[i] # "none" => t.waiters[i] # "none",
           u.parked \subseteq t.parked, u.buffer \subseteq t.buffer,
           u.drains \subseteq t.drains \cap u.blocked, u.blocked \subseteq t.blocked
    PROVE  Kept(u) /\ Homed(u)
<1>1. SofterRest(t, u, {})
  BY DEF SofterRest
<1>2. Eased(t, u, {})
  BY <1>1, EasedSameMaps
<1> QED
  BY <1>2, EasedKept

LEMMA ClearTeardownDrainEased ==
    ASSUME NEW t \in State, NEW X, NEW Q, QuietBut(t, Q), NEW S
    PROVE  Eased(t, ClearTeardownDrain(t, S), X)
<1> DEFINE u == ClearTeardownDrain(t, S)
<1>1. u \in State
  BY ClearTeardownDrainType
<1>2. /\ u.queued = t.queued /\ u.pending = t.pending /\ u.active = t.active
      /\ u.completed = t.completed /\ u.graph = t.graph /\ u.callers = t.callers
      /\ u.waiters = t.waiters /\ u.parked = t.parked /\ u.outputs = t.outputs
      /\ u.drains = t.drains \ S /\ u.blocked = t.blocked \ S
      /\ u.buffer = t.buffer /\ u.runWaiters = t.runWaiters
  BY DEF ClearTeardownDrain, State, StateOver
<1> HIDE DEF u
<1>3. SofterRest(t, u, X)
  BY <1>2 DEF SofterRest, QuietBut
<1>4. Eased(t, u, X)
  BY <1>1, <1>2, <1>3, EasedSameMaps
<1> QED
  BY <1>4 DEF u

LEMMA ResolveTeardownDrainsEased ==
    ASSUME NEW t \in State, NEW X, NEW Q, QuietBut(t, Q), NEW S
    PROVE  Eased(t, ResolveTeardownDrains(t, S), X)
BY ClearTeardownDrainEased DEF ResolveTeardownDrains

\* One active child changes.
LEMMA ActiveEased ==
    ASSUME NEW t \in State, NEW X, NEW Q, QuietBut(t, Q), NEW i \in DOMAIN t.active,
           NEW c \in Child, SofterChild(t.active[i], c, t.callers[i] = "waiting"),
           \/ c.wakeOf = t.active[i].wakeOf
           \/ \A m \in t.parked : m[1] # i,
           \/ i \in X
           \/ /\ t.active[i].phase = "Finalizing" => c.phase = "Finalizing"
              /\ t.active[i].inFlight > 0 => c.inFlight > 0
    PROVE  Eased(t, [t EXCEPT !.active[i] = c], X)
<1> DEFINE u == [t EXCEPT !.active[i] = c]
<1>1. /\ u.queued = t.queued /\ u.pending = t.pending
      /\ u.completed = t.completed /\ u.graph = t.graph /\ u.callers = t.callers
      /\ u.waiters = t.waiters /\ u.parked = t.parked /\ u.outputs = t.outputs
      /\ u.drains = t.drains /\ u.blocked = t.blocked
      /\ u.buffer = t.buffer /\ u.runWaiters = t.runWaiters
      /\ u.active = [t.active EXCEPT ![i] = c]
  BY DEF State, StateOver
<1>2. DOMAIN u.active = DOMAIN t.active /\ u.active[i] = c
      /\ \A j \in DOMAIN t.active : j # i => u.active[j] = t.active[j]
  <2>1. t.active \in [DOMAIN t.active -> Child]
    BY StateFields, MapOfDef DEF IsMap
  <2> QED
    BY <1>1, <2>1
<1> HIDE DEF u
<1>3. SameHomes(t, u)
  BY <1>1, <1>2 DEF SameHomes
<1>4. SofterMaps(t, u)
  BY <1>1, <1>2 DEF SofterMaps, SofterChild, SofterEntry
<1>5. SofterViews(t, u)
  BY <1>1, <1>2 DEF SofterViews
<1>6. SofterRest(t, u, X)
  BY <1>1, <1>2 DEF SofterRest, QuietBut
<1> QED
  BY <1>3, <1>4, <1>5, <1>6 DEF Eased, u

\* Maps are rewritten entry by entry; the fields about sessions stay.
LEMMA RewriteEased ==
    ASSUME NEW t \in State, NEW X, NEW Q, QuietBut(t, Q), NEW u \in State,
           SameHomes(t, u), SofterMaps(t, u),
           \A i \in DOMAIN t.active :
               /\ u.active[i].wakeOf = t.active[i].wakeOf
               /\ u.active[i].phase = t.active[i].phase
               /\ u.active[i].inFlight = t.active[i].inFlight,
           \A i \in Ids : u.callers[i] = t.callers[i] \/ u.callers[i] \notin {"waiting", "result"},
           u.waiters = t.waiters, u.parked \subseteq t.parked,
           u.completed = t.completed, u.graph = t.graph, u.outputs = t.outputs,
           u.drains = t.drains, u.blocked = t.blocked,
           u.buffer \subseteq t.buffer, u.runWaiters = t.runWaiters
    PROVE  Eased(t, u, X)
<1>1. SofterViews(t, u)
  BY DEF SofterViews
<1>2. SofterRest(t, u, X)
  BY DEF SofterRest, QuietBut
<1> QED
  BY <1>1, <1>2 DEF Eased

LEMMA WithoutGoneCallersEased ==
    ASSUME NEW t \in State, NEW X, NEW Q, QuietBut(t, Q)
    PROVE  Eased(t, WithoutGoneCallers(t), X)
<1> DEFINE p == [i \in DOMAIN t.pending |-> Reaped(t, i, t.pending[i])]
           a == [i \in DOMAIN t.active |-> Reaped(t, i, t.active[i])]
           q == [i \in DOMAIN t.queued |->
                   IF t.queued[i].awaiting /\ t.callers[i] = "gone"
                   THEN [t.queued[i] EXCEPT !.awaiting = FALSE, !.timed = FALSE]
                   ELSE t.queued[i]]
           u == WithoutGoneCallers(t)
<1>1. u = [t EXCEPT !.pending = p, !.active = a, !.queued = q]
  BY DEF WithoutGoneCallers
<1>2. ASSUME NEW i, NEW c \in Child
      PROVE  /\ SofterChild(c, Reaped(t, i, c), t.callers[i] = "waiting")
             /\ Reaped(t, i, c).wakeOf = c.wakeOf /\ Reaped(t, i, c).phase = c.phase
             /\ Reaped(t, i, c).inFlight = c.inFlight
  BY DEF Reaped, SofterChild, Child, Request
<1>3. ASSUME NEW i \in DOMAIN t.queued
      PROVE  SofterEntry(t.queued[i], q[i], t.callers[i] = "waiting")
  <2>1. t.queued[i] \in QueuedSpawn
    BY StateFields, MapElement
  <2> QED
    BY <2>1 DEF SofterEntry, QueuedSpawn
<1>4. /\ \A i \in DOMAIN t.pending : t.pending[i] \in Child /\ p[i] = Reaped(t, i, t.pending[i])
      /\ \A i \in DOMAIN t.active : t.active[i] \in Child /\ a[i] = Reaped(t, i, t.active[i])
  BY StateFields, MapElement
<1>5. u \in State /\ SameHomes(t, u)
  BY WithoutGoneCallersType, WithoutGoneCallersHomes
<1> HIDE DEF p, a, q, u
<1>6. /\ u.pending = p /\ u.active = a /\ u.queued = q /\ u.callers = t.callers
      /\ u.waiters = t.waiters /\ u.parked = t.parked /\ u.outputs = t.outputs
      /\ u.completed = t.completed /\ u.graph = t.graph
      /\ u.drains = t.drains /\ u.blocked = t.blocked
      /\ u.buffer = t.buffer /\ u.runWaiters = t.runWaiters
  BY <1>1 DEF State, StateOver
<1>7. SofterMaps(t, u)
  BY <1>2, <1>3, <1>4, <1>6 DEF SofterMaps
<1>8. Eased(t, u, X)
  BY <1>2, <1>4, <1>5, <1>6, <1>7, RewriteEased
<1> QED
  BY <1>8 DEF u

LEMMA HandOffEased ==
    ASSUME NEW t \in State, NEW X, NEW Q, QuietBut(t, Q), NEW H,
           NEW view \in CallerView \ {"waiting", "result"}
    PROVE  Eased(t, HandOff(t, H, view), X)
<1> DEFINE taken(c) == [c EXCEPT !.reply = FALSE, !.handleOnly = TRUE, !.timed = FALSE]
           off == [i \in Ids |-> i \in H]
           p == [i \in DOMAIN t.pending |-> IF off[i] THEN taken(t.pending[i]) ELSE t.pending[i]]
           a == [i \in DOMAIN t.active |-> IF off[i] THEN taken(t.active[i]) ELSE t.active[i]]
           q == [i \in DOMAIN t.queued |->
                   IF off[i] THEN [t.queued[i] EXCEPT !.awaiting = FALSE, !.timed = FALSE]
                   ELSE t.queued[i]]
           k == [i \in Ids |-> IF off[i] /\ t.callers[i] = "waiting" THEN view ELSE t.callers[i]]
           u == HandOff(t, H, view)
<1>1. u = [t EXCEPT !.pending = p, !.active = a, !.queued = q, !.callers = k]
  BY DEF HandOff
<1>2. ASSUME NEW c \in Child, NEW x \in BOOLEAN, NEW y, y => ~x
      PROVE  LET d == IF x THEN taken(c) ELSE c
             IN  /\ SofterChild(c, d, y)
                 /\ d.wakeOf = c.wakeOf /\ d.phase = c.phase /\ d.inFlight = c.inFlight
  BY <1>2 DEF SofterChild, Child, Request
<1>3. \A i \in Ids : k[i] = "waiting" => ~off[i]
  OBVIOUS
<1>4. ASSUME NEW i \in DOMAIN t.queued
      PROVE  SofterEntry(t.queued[i], q[i], k[i] = "waiting")
  <2>1. t.queued[i] \in QueuedSpawn /\ i \in Ids
    BY StateFields, MapElement
  <2> HIDE DEF off, k
  <2> QED
    BY <1>3, <2>1 DEF SofterEntry, QueuedSpawn
<1>5. /\ \A i \in DOMAIN t.pending : i \in Ids /\ t.pending[i] \in Child
      /\ \A i \in DOMAIN t.active : i \in Ids /\ t.active[i] \in Child
      /\ \A i \in Ids : off[i] \in BOOLEAN
  BY StateFields, MapElement
<1>6. \A i \in Ids : k[i] = t.callers[i] \/ k[i] \notin {"waiting", "result"}
  OBVIOUS
<1> HIDE DEF off, k, taken
<1>7. \A i \in DOMAIN t.pending : SofterChild(t.pending[i], p[i], k[i] = "waiting")
  BY <1>2, <1>3, <1>5
<1>8. \A i \in DOMAIN t.active : /\ SofterChild(t.active[i], a[i], k[i] = "waiting")
                                 /\ a[i].wakeOf = t.active[i].wakeOf
                                 /\ a[i].phase = t.active[i].phase
                                 /\ a[i].inFlight = t.active[i].inFlight
  BY <1>2, <1>3, <1>5
<1>9. u \in State /\ SameHomes(t, u)
  BY HandOffType, HandOffHomes
<1> HIDE DEF p, a, q, u
<1>10. /\ u.pending = p /\ u.active = a /\ u.queued = q /\ u.callers = k
       /\ u.waiters = t.waiters /\ u.parked = t.parked /\ u.outputs = t.outputs
       /\ u.completed = t.completed /\ u.graph = t.graph
       /\ u.drains = t.drains /\ u.blocked = t.blocked
       /\ u.buffer = t.buffer /\ u.runWaiters = t.runWaiters
  BY <1>1 DEF State, StateOver
<1>11. SofterMaps(t, u)
  BY <1>4, <1>7, <1>8, <1>10 DEF SofterMaps
<1>12. Eased(t, u, X)
  BY <1>6, <1>8, <1>9, <1>10, <1>11, RewriteEased
<1> QED
  BY <1>12 DEF u

\* Records that agree on the maps and on who waits make the same promises but
\* for those about sessions and runs.
LEMMA SameMapsGood ==
    ASSUME NEW t, NEW u, NEW X, u.queued = t.queued, u.pending = t.pending, u.active = t.active,
           u.completed = t.completed, u.graph = t.graph, u.callers = t.callers,
           u.waiters = t.waiters, u.parked = t.parked, u.outputs = t.outputs
    PROVE  /\ Promised(t) => Promised(u)
           /\ HeldBut(t, X) => HeldBut(u, X)
           /\ TicketsDiffer(t) => TicketsDiffer(u)
           /\ FitsBut(t, X) => FitsBut(u, X)
           /\ QueueFull(t) => QueueFull(u)
           /\ Homed(t) => Homed(u)
           /\ Present(u) = Present(t) /\ Live(u) = Live(t)
           /\ \A i : RequestOf(u, i) = RequestOf(t, i)
           /\ \A r : RunOutstanding(u, r) = RunOutstanding(t, r)
<1>1. Live(u) = Live(t) /\ Present(u) = Present(t) /\ \A i : ChildOf(u, i) = ChildOf(t, i)
  BY DEF Live, Present, ChildOf
<1>2. \A i : RequestOf(u, i) = RequestOf(t, i) /\ Prior(u, i) = Prior(t, i) /\ Owes(u, i) = Owes(t, i)
  BY <1>1 DEF RequestOf, Prior, Owes
<1>3. \A s : Running(u, s) = Running(t, s) /\ RunOutstanding(u, s) = RunOutstanding(t, s)
  BY <1>1 DEF Running, RunOutstanding
<1>4. CallersOwed(t) /\ WaitersOwed(t) => CallersOwed(u) /\ WaitersOwed(u)
  BY <1>1, <1>2 DEF CallersOwed, WaitersOwed
<1>5. ParkedOwed(t) /\ Delivered(t) => ParkedOwed(u) /\ Delivered(u)
  BY <1>1, <1>2 DEF ParkedOwed, Delivered, NotHeard
<1>6. Owned(t) /\ WakesGenuine(t) => Owned(u) /\ WakesGenuine(u)
  BY <1>1, <1>2 DEF Owned, WakesGenuine, NotHeard
<1>7. Unanswered(t) /\ QueueOfTasks(t) => Unanswered(u) /\ QueueOfTasks(u)
  BY <1>1, <1>2 DEF Unanswered, QueueOfTasks, NotHeard
<1>8. HeldBut(t, X) => HeldBut(u, X)
  BY DEF HeldBut
<1>9. TicketsDiffer(t) => TicketsDiffer(u)
  BY DEF TicketsDiffer
<1>10. FitsBut(t, X) => FitsBut(u, X)
  BY <1>3 DEF FitsBut
<1>11. QueueFull(t) => QueueFull(u)
  BY <1>3 DEF QueueFull, HasCapacity
<1>12. Homed(t) => Homed(u)
  BY <1>1 DEF Homed, Known
<1> QED
  BY <1>1, <1>2, <1>3, <1>4, <1>5, <1>6, <1>7, <1>8, <1>9, <1>10, <1>11, <1>12 DEF Promised

LEMMA CancelLiveEased ==
    ASSUME NEW t \in State, NEW X, NEW Q, QuietBut(t, Q), NEW K,
           NEW kill \in BOOLEAN, NEW mute \in BOOLEAN
    PROVE  LET u == CancelLive(t, K, kill, mute)
           IN  /\ Eased(t, u, X)
               /\ u.queued = t.queued /\ u.blocked = t.blocked /\ u.drains = t.drains
               /\ u.buffer = t.buffer
               /\ mute => \A i \in Live(u) \cap K : ~ChildOf(u, i).req.surface
<1> DEFINE hit(c) == [c EXCEPT !.cancelled = TRUE, !.withdrawn = TRUE,
                               !.killed = c.killed \/ kill,
                               !.req.surface = c.req.surface /\ ~mute]
           p == [i \in DOMAIN t.pending |-> IF i \in K THEN hit(t.pending[i]) ELSE t.pending[i]]
           a == [i \in DOMAIN t.active |-> IF i \in K THEN hit(t.active[i]) ELSE t.active[i]]
           m == {x \in t.parked : x[1] \notin K \cap DOMAIN t.pending}
           u == CancelLive(t, K, kill, mute)
<1>1. u = [t EXCEPT !.pending = p, !.active = a, !.parked = m]
  BY DEF CancelLive
<1>2. ASSUME NEW c \in Child, NEW w
      PROVE  /\ SofterChild(c, hit(c), w) /\ SofterChild(c, c, w)
             /\ hit(c).wakeOf = c.wakeOf /\ hit(c).phase = c.phase
             /\ hit(c).inFlight = c.inFlight
             /\ mute => ~hit(c).req.surface
  <2>1. c.req \in Request
    BY DEF Child
  <2>2. /\ hit(c).req.parent = c.req.parent /\ hit(c).req.run = c.req.run
        /\ hit(c).req.bg = c.req.bg /\ hit(c).req.surface = (c.req.surface /\ ~mute)
        /\ hit(c).wakeOf = c.wakeOf /\ hit(c).reply = c.reply
        /\ hit(c).handleOnly = c.handleOnly
        /\ hit(c).phase = c.phase /\ hit(c).inFlight = c.inFlight
    BY <2>1 DEF Child, Request
  <2> HIDE DEF hit
  <2> QED
    BY <2>2 DEF SofterChild
<1> HIDE DEF hit
<1>3. /\ \A i \in DOMAIN t.pending : t.pending[i] \in Child
      /\ \A i \in DOMAIN t.active : t.active[i] \in Child
  BY StateFields, MapElement
<1>4. \A i \in DOMAIN t.pending : /\ SofterChild(t.pending[i], p[i], t.callers[i] = "waiting")
                                  /\ mute /\ i \in K => ~p[i].req.surface
  BY <1>2, <1>3
<1>5. \A i \in DOMAIN t.active : /\ SofterChild(t.active[i], a[i], t.callers[i] = "waiting")
                                 /\ a[i].wakeOf = t.active[i].wakeOf
                                 /\ a[i].phase = t.active[i].phase
                                 /\ a[i].inFlight = t.active[i].inFlight
                                 /\ mute /\ i \in K => ~a[i].req.surface
  BY <1>2, <1>3
<1>6. u \in State /\ SameHomes(t, u) /\ m \subseteq t.parked
  BY CancelLiveType, CancelLiveHomes
<1>7. \A i \in DOMAIN t.queued : SofterEntry(t.queued[i], t.queued[i], t.callers[i] = "waiting")
  BY DEF SofterEntry
<1> HIDE DEF p, a, m, u
<1>8. /\ u.pending = p /\ u.active = a /\ u.queued = t.queued /\ u.callers = t.callers
      /\ u.waiters = t.waiters /\ u.parked = m /\ u.outputs = t.outputs
      /\ u.completed = t.completed /\ u.graph = t.graph
      /\ u.drains = t.drains /\ u.blocked = t.blocked
      /\ u.buffer = t.buffer /\ u.runWaiters = t.runWaiters
  BY <1>1 DEF State, StateOver
<1>9. SofterMaps(t, u)
  BY <1>4, <1>5, <1>7, <1>8 DEF SofterMaps
<1>10. Eased(t, u, X)
  BY <1>5, <1>6, <1>8, <1>9, RewriteEased
<1>11. mute => \A i \in Live(u) \cap K : ~ChildOf(u, i).req.surface
  BY <1>4, <1>5, <1>6, <1>8 DEF Live, ChildOf, SameHomes
<1> QED
  BY <1>8, <1>10, <1>11 DEF u

\* The tokens of a run's children are cancelled and the run may wait for them.
LEMMA CancelRunGood ==
    ASSUME NEW t \in State, Homed(t), Kept(t), NEW run \in Runs, NEW s
    PROVE  Kept(CancelRun(t, run, s))
<1> DEFINE K == {i \in RunOutstanding(t, run) : s \in {None, ChildOf(t, i).req.parent}}
           hit(c) == [c EXCEPT !.cancelled = TRUE]
           p == [i \in DOMAIN t.pending |-> IF i \in K THEN hit(t.pending[i]) ELSE t.pending[i]]
           a == [i \in DOMAIN t.active |-> IF i \in K THEN hit(t.active[i]) ELSE t.active[i]]
           m == {x \in t.parked : x[1] \notin K \cap DOMAIN t.pending}
           u == [t EXCEPT !.pending = p, !.active = a, !.parked = m]
           v == [u EXCEPT !.runWaiters = u.runWaiters \cup {run}]
<1>1. CancelRun(t, run, s) = IF RunOutstanding(t, run) = {} THEN u ELSE v
  BY DEF CancelRun
<1>2. ASSUME NEW c \in Child, NEW w
      PROVE  /\ SofterChild(c, hit(c), w) /\ SofterChild(c, c, w)
             /\ hit(c).wakeOf = c.wakeOf /\ hit(c).phase = c.phase
             /\ hit(c).inFlight = c.inFlight /\ hit(c) \in Child
  BY DEF SofterChild, Child
<1> HIDE DEF hit, K
<1>3. /\ \A i \in DOMAIN t.pending : t.pending[i] \in Child
      /\ \A i \in DOMAIN t.active : t.active[i] \in Child
  BY StateFields, MapElement
<1>4. \A i \in DOMAIN t.pending : /\ SofterChild(t.pending[i], p[i], t.callers[i] = "waiting")
                                  /\ p[i] \in Child
  BY <1>2, <1>3
<1>5. \A i \in DOMAIN t.active : /\ SofterChild(t.active[i], a[i], t.callers[i] = "waiting")
                                 /\ a[i].wakeOf = t.active[i].wakeOf
                                 /\ a[i].phase = t.active[i].phase
                                 /\ a[i].inFlight = t.active[i].inFlight
                                 /\ a[i] \in Child
  BY <1>2, <1>3
<1>6. p \in MapOf(Child) /\ a \in MapOf(Child)
  <2>1. p \in [DOMAIN t.pending -> Child] /\ a \in [DOMAIN t.active -> Child]
    BY <1>4, <1>5
  <2> HIDE DEF p, a
  <2> QED
    BY <2>1, DomainFacts, RewriteType
<1>7. DOMAIN p = DOMAIN t.pending /\ DOMAIN a = DOMAIN t.active
      /\ m \subseteq t.parked /\ m \in SUBSET (Ids \X BOOLEAN)
  BY StateFields
<1>8. \A i \in DOMAIN t.queued : SofterEntry(t.queued[i], t.queued[i], t.callers[i] = "waiting")
  BY DEF SofterEntry
<1> HIDE DEF p, a, m
<1>9. /\ u.pending = p /\ u.active = a /\ u.queued = t.queued /\ u.callers = t.callers
      /\ u.waiters = t.waiters /\ u.parked = m /\ u.outputs = t.outputs
      /\ u.completed = t.completed /\ u.graph = t.graph
      /\ u.drains = t.drains /\ u.blocked = t.blocked
      /\ u.buffer = t.buffer /\ u.runWaiters = t.runWaiters
      /\ u \in State
  BY <1>6, <1>7 DEF State, StateOver
<1> HIDE DEF u
<1>10. SofterMaps(t, u) /\ SameHomes(t, u)
  BY <1>4, <1>5, <1>7, <1>8, <1>9 DEF SofterMaps, SameHomes
<1>11. Eased(t, u, {})
  BY <1>5, <1>7, <1>9, <1>10, RewriteEased DEF Kept, Good
<1>12. Kept(u)
  BY <1>9, <1>11, EasedGood DEF Kept
<1>13. RunOutstanding(t, run) # {} => Kept(v)
  <2>1. /\ v.queued = u.queued /\ v.pending = u.pending /\ v.active = u.active
        /\ v.completed = u.completed /\ v.graph = u.graph /\ v.callers = u.callers
        /\ v.waiters = u.waiters /\ v.parked = u.parked /\ v.outputs = u.outputs
        /\ v.drains = u.drains /\ v.blocked = u.blocked /\ v.buffer = u.buffer
        /\ v.runWaiters = u.runWaiters \cup {run}
    BY <1>9 DEF State, StateOver
  <2>2. RunOutstanding(t, run) # {} => RunOutstanding(u, run) # {}
    BY <1>10, EasedRunning
  <2> HIDE DEF v
  <2> QED
    BY <1>12, <2>1, <2>2, SameMapsGood DEF Kept, Good, QuietBut, Muted, RunsOutstanding
<1> QED
  BY <1>1, <1>12, <1>13

-----------------------------------------------------------------------------
(* The queue sweep *)

\* Starting entries changes where they are and nothing of what they hold.
LEMMA StartQueuedFacts ==
    ASSUME NEW t \in State, Homed(t)
    PROVE  LET u == StartQueued(t)
               S == Startable(t)
           IN  /\ DOMAIN u.queued = DOMAIN t.queued \ S
               /\ \A i \in DOMAIN u.queued : u.queued[i] = t.queued[i]
               /\ DOMAIN u.pending = DOMAIN t.pending \cup S
               /\ \A i \in DOMAIN t.pending : u.pending[i] = t.pending[i]
               /\ \A i \in S : /\ u.pending[i].req = t.queued[i].req
                               /\ u.pending[i].reply = t.queued[i].awaiting
                               /\ u.pending[i].wakeOf = t.queued[i].wake
                               /\ u.pending[i].cancelled = t.queued[i].cancelled
                               /\ u.pending[i].handleOnly =
                                     (t.queued[i].req.bg \/ ~t.queued[i].awaiting)
               /\ u.active = t.active /\ u.completed = t.completed /\ u.graph = t.graph
               /\ u.callers = t.callers /\ u.waiters = t.waiters /\ u.parked = t.parked
               /\ u.outputs = t.outputs /\ u.drains = t.drains /\ u.blocked = t.blocked
               /\ u.buffer = t.buffer /\ u.runWaiters = t.runWaiters
               /\ u.nextAge = t.nextAge
<1> DEFINE S == Startable(t)
           new == [i \in S |-> NewChild(t.queued[i].req, t.queued[i].cancelled,
                                        t.queued[i].awaiting, t.queued[i].timed,
                                        t.queued[i].wake)]
           u == StartQueued(t)
<1>1. S \in SUBSET DOMAIN t.queued
  BY StartableFacts
<1>2. u = [t EXCEPT !.queued = Drop(t.queued, S), !.pending = Merge(t.pending, new)]
  BY DEF StartQueued
<1>3. DOMAIN new = S /\ \A i \in S : /\ new[i].req = t.queued[i].req
                                    /\ new[i].reply = t.queued[i].awaiting
                                    /\ new[i].wakeOf = t.queued[i].wake
                                    /\ new[i].cancelled = t.queued[i].cancelled
                                    /\ new[i].handleOnly = (t.queued[i].req.bg \/ ~t.queued[i].awaiting)
  BY DEF NewChild
<1> HIDE DEF S, new, u
<1>4. /\ u.queued = Drop(t.queued, S) /\ u.pending = Merge(t.pending, new)
      /\ u.active = t.active /\ u.completed = t.completed /\ u.graph = t.graph
      /\ u.callers = t.callers /\ u.waiters = t.waiters /\ u.parked = t.parked
      /\ u.outputs = t.outputs /\ u.drains = t.drains /\ u.blocked = t.blocked
      /\ u.buffer = t.buffer /\ u.runWaiters = t.runWaiters /\ u.nextAge = t.nextAge
  BY <1>2 DEF State, StateOver
<1>5. DOMAIN u.queued = DOMAIN t.queued \ S /\ \A i \in DOMAIN u.queued : u.queued[i] = t.queued[i]
  BY <1>4 DEF Drop, Restrict
<1>6. /\ DOMAIN u.pending = DOMAIN t.pending \cup S
      /\ \A i \in S : u.pending[i] = new[i]
      /\ \A i \in DOMAIN t.pending \ S : u.pending[i] = t.pending[i]
  BY <1>3, <1>4 DEF Merge
<1>7. DOMAIN t.pending \cap S = {}
  BY <1>1 DEF Homed, Live
<1> QED
  BY <1>3, <1>4, <1>5, <1>6, <1>7 DEF S, u

LEMMA StartQueuedViews ==
    ASSUME NEW t \in State, Homed(t)
    PROVE  LET u == StartQueued(t)
           IN  /\ Present(u) = Present(t) /\ Live(u) = Live(t) \cup Startable(t)
               /\ Live(t) \cap Startable(t) = {}
               /\ \A i \in Live(t) : ChildOf(u, i) = ChildOf(t, i)
               /\ \A i \in Startable(t) : ChildOf(u, i) = u.pending[i]
               /\ \A i \in Present(t) : /\ RequestOf(u, i) = RequestOf(t, i)
                                        /\ Prior(u, i) = Prior(t, i)
                                        /\ Owes(u, i) = Owes(t, i)
<1> DEFINE S == Startable(t)
           u == StartQueued(t)
<1>1. S \in SUBSET DOMAIN t.queued /\ DOMAIN t.queued \cap Live(t) = {}
      /\ DOMAIN t.pending \cap DOMAIN t.active = {}
  BY StartableFacts DEF Homed
<1>2. /\ DOMAIN u.queued = DOMAIN t.queued \ S
      /\ \A i \in DOMAIN u.queued : u.queued[i] = t.queued[i]
      /\ DOMAIN u.pending = DOMAIN t.pending \cup S
      /\ \A i \in DOMAIN t.pending : u.pending[i] = t.pending[i]
      /\ \A i \in S : /\ u.pending[i].req = t.queued[i].req
                      /\ u.pending[i].reply = t.queued[i].awaiting
                      /\ u.pending[i].wakeOf = t.queued[i].wake
      /\ u.active = t.active
  BY StartQueuedFacts
<1> HIDE DEF u, S
<1>3. Present(u) = Present(t) /\ Live(u) = Live(t) \cup S /\ Live(t) \cap S = {}
  BY <1>1, <1>2 DEF Present, Live
<1>4. /\ \A i \in Live(t) : ChildOf(u, i) = ChildOf(t, i)
      /\ \A i \in S : ChildOf(u, i) = u.pending[i]
  BY <1>1, <1>2 DEF Live, ChildOf
<1>5. ASSUME NEW i \in Present(t)
      PROVE  RequestOf(u, i) = RequestOf(t, i) /\ Prior(u, i) = Prior(t, i) /\ Owes(u, i) = Owes(t, i)
  <2>1. CASE i \in Live(t)
    BY <1>3, <1>4, <2>1 DEF RequestOf, Prior, Owes
  <2>2. CASE i \in S
    BY <1>1, <1>2, <1>3, <1>4, <2>2 DEF RequestOf, Prior, Owes
  <2>3. CASE i \notin Live(t) /\ i \notin S
    <3>1. i \in DOMAIN t.queued /\ i \in DOMAIN u.queued /\ i \notin Live(u)
      BY <1>2, <1>3, <2>3 DEF Present
    <3> QED
      BY <1>2, <2>3, <3>1 DEF RequestOf, Prior, Owes
  <2> QED
    BY <2>1, <2>2, <2>3
<1> QED
  BY <1>3, <1>4, <1>5 DEF u, S

LEMMA StartQueuedOnward ==
    ASSUME NEW t \in State, Homed(t), Promised(t)
    PROVE  Onward(t, StartQueued(t))
<1> DEFINE u == StartQueued(t)
<1>1. /\ u.active = t.active /\ u.completed = t.completed /\ u.graph = t.graph
      /\ u.callers = t.callers /\ u.waiters = t.waiters /\ u.parked = t.parked
      /\ DOMAIN u.queued \subseteq DOMAIN t.queued
      /\ \A i \in DOMAIN u.queued : u.queued[i] = t.queued[i]
  BY StartQueuedFacts
<1>2. /\ Present(u) = Present(t) /\ Live(u) = Live(t) \cup Startable(t)
      /\ \A i \in Live(t) : ChildOf(u, i) = ChildOf(t, i)
      /\ \A i \in Present(t) : /\ RequestOf(u, i) = RequestOf(t, i)
                               /\ Prior(u, i) = Prior(t, i) /\ Owes(u, i) = Owes(t, i)
  BY StartQueuedViews
<1>3. \A i \in Startable(t) : ChildOf(u, i).handleOnly /\ ChildOf(u, i).reply => ChildOf(u, i).req.bg
  <2>1. \A i \in Startable(t) : ChildOf(u, i) = u.pending[i]
    BY StartQueuedViews
  <2>2. \A i \in Startable(t) : /\ u.pending[i].req = t.queued[i].req
                                /\ u.pending[i].reply = t.queued[i].awaiting
                                /\ u.pending[i].handleOnly =
                                      (t.queued[i].req.bg \/ ~t.queued[i].awaiting)
    BY StartQueuedFacts
  <2> HIDE DEF u
  <2> QED
    BY <2>1, <2>2
<1> HIDE DEF u
<1>4. ChildrenOnward(t, u)
  BY <1>1, <1>2, <1>3 DEF ChildrenOnward
<1>5. WaitingOnward(t, u)
  <2>1. \A i \in Ids : u.waiters[i] # "none" => i \in Present(u)
    BY <1>1, <1>2 DEF Promised, WaitersOwed
  <2>2. \A m \in u.parked : m[1] \in Present(u)
    BY <1>1, <1>2 DEF Promised, ParkedOwed
  <2>3. \A m \in u.parked : Prior(u, m[1]) = Prior(t, m[1])
    BY <1>2, <2>2
  <2> QED
    BY <1>1, <1>2, <2>1, <2>2, <2>3 DEF WaitingOnward
<1>6. RecordsOnward(t, u)
  BY <1>1 DEF RecordsOnward
<1> QED
  BY <1>4, <1>5, <1>6 DEF Onward, u

\* Entries ahead of i in its session's queue, as Startable counts them.
Waiting(t) == {i \in DOMAIN t.queued : ~t.queued[i].cancelled}

Ahead(t, i) ==
    {j \in Waiting(t) : /\ t.queued[j].req.parent = t.queued[i].req.parent
                        /\ t.queued[j].ticket < t.queued[i].ticket}

LEMMA StartableIs ==
    ASSUME NEW t
    PROVE  Startable(t) =
             {i \in Waiting(t) : Cardinality(Running(t, t.queued[i].req.parent))
                                   + Cardinality(Ahead(t, i)) < Limit}
BY DEF Startable, Waiting, Ahead

LEMMA RunningFinite ==
    ASSUME NEW t \in State, NEW s
    PROVE  /\ Running(t, s) \in SUBSET Ids
           /\ IsFiniteSet(Running(t, s)) /\ Cardinality(Running(t, s)) \in Nat
<1>1. Running(t, s) \in SUBSET Ids
  BY LiveFacts DEF Running
<1> QED
  BY <1>1, IdSetsFinite

LEMMA LimitPositive == Limit \in Nat \ {0}
BY LimitConfigured DEF Limit

LEMMA FiniteHasMinimum ==
    ASSUME NEW D, D # {}, NEW v \in [D -> Nat]
    PROVE  \E i \in D : \A j \in D : v[i] <= v[j]
<1> DEFINE T == {v[i] : i \in D}
<1>1. T \subseteq Nat /\ T # {}
  OBVIOUS
<1>2. PICK n \in T : \A k \in T : ~(<<k, n>> \in OpToRel(<, Nat))
  <2> HIDE DEF T
  <2> QED
    BY <1>1, NatLessThanWellFounded, WFMin, Zenon
<1>3. \A k \in T : ~(k < n) /\ k \in Nat
  <2> HIDE DEF T
  <2> QED
    BY <1>1, <1>2 DEF OpToRel
<1>4. PICK i \in D : n = v[i]
  OBVIOUS
<1>5. \A j \in D : v[j] \in T
  OBVIOUS
<1> QED
  BY <1>1, <1>3, <1>4, <1>5

\* The sweep starts as many of a session's entries as it has free slots, and
\* leaves one waiting only if it filled them: the last one it starts has all the
\* others it starts ahead of it, and everything ahead of the first one it leaves
\* is started.
LEMMA SweepStarts ==
    ASSUME NEW t \in State, TicketsDiffer(t), NEW s,
           Cardinality(Running(t, s)) <= Limit
    PROVE  LET S == {i \in Startable(t) : t.queued[i].req.parent = s}
           IN  /\ IsFiniteSet(S) /\ Cardinality(S) \in Nat
               /\ Cardinality(Running(t, s)) + Cardinality(S) <= Limit
               /\ \A j \in Waiting(t) \ Startable(t) : t.queued[j].req.parent = s =>
                     Cardinality(Running(t, s)) + Cardinality(S) >= Limit
<1> DEFINE S == {i \in Startable(t) : t.queued[i].req.parent = s}
           n == Cardinality(Running(t, s))
<1>0. n <= Limit
  OBVIOUS
<1>1. DOMAIN t.queued \in SUBSET Ids /\ \A i \in DOMAIN t.queued : t.queued[i].ticket \in Nat
  <2>1. DOMAIN t.queued \in SUBSET Ids /\ \A i \in DOMAIN t.queued : t.queued[i] \in QueuedSpawn
    BY StateFields, MapElement
  <2> QED
    BY <2>1 DEF QueuedSpawn
<1>2. Waiting(t) \in SUBSET DOMAIN t.queued /\ S \in SUBSET Waiting(t)
      /\ \A i \in DOMAIN t.queued : Ahead(t, i) \in SUBSET Ids
  BY <1>1, StartableIs DEF Waiting, Ahead
<1>3. IsFiniteSet(S) /\ Cardinality(S) \in Nat
  BY <1>1, <1>2, IdSetsFinite
<1>4. n \in Nat /\ Limit \in Nat
  BY RunningFinite, LimitPositive
<1>5. n + Cardinality(S) <= Limit
  <2>1. CASE S = {}
    <3>1. Cardinality(S) = 0
      BY <2>1, FS_EmptySet
    <3> HIDE DEF S, n
    <3> QED
      BY <1>4, <1>0, <3>1
  <2>2. CASE S # {}
    <3> DEFINE v == [i \in S |-> t.queued[i].ticket]
    <3>1. v \in [S -> Nat]
      BY <1>1, <1>2
    <3>2. PICK m \in S : \A j \in S : v[j] <= v[m]
      <4> HIDE DEF v, S
      <4> QED
        BY <1>3, <2>2, <3>1, FiniteHasMaximum
    <3>3. S \ {m} \in SUBSET Ahead(t, m)
      <4> SUFFICES ASSUME NEW j \in S, j # m
                   PROVE  j \in Ahead(t, m)
        OBVIOUS
      <4>1. t.queued[j].ticket # t.queued[m].ticket
        BY <1>2 DEF TicketsDiffer
      <4>2. t.queued[j].ticket <= t.queued[m].ticket
        BY <3>2
      <4> QED
        BY <1>1, <1>2, <4>1, <4>2 DEF Ahead
    <3>4. m \in Waiting(t) /\ t.queued[m].req.parent = s /\ n + Cardinality(Ahead(t, m)) < Limit
      BY StartableIs
    <3>5. IsFiniteSet(Ahead(t, m)) /\ Cardinality(Ahead(t, m)) \in Nat
      BY <1>2, <3>4, IdSetsFinite
    <3>6. Cardinality(S \ {m}) = Cardinality(S) - 1
      <4> HIDE DEF S
      <4> QED
        BY <1>3, FS_RemoveElement
    <3>7. Cardinality(S \ {m}) <= Cardinality(Ahead(t, m))
      BY <3>3, <3>5, FS_Subset
    <3> HIDE DEF S, n
    <3> QED
      BY <1>3, <1>4, <3>4, <3>5, <3>6, <3>7
  <2> QED
    BY <2>1, <2>2
<1>6. ASSUME NEW j \in Waiting(t) \ Startable(t), t.queued[j].req.parent = s
      PROVE  n + Cardinality(S) >= Limit
  <2> DEFINE L == {i \in Waiting(t) \ Startable(t) : t.queued[i].req.parent = s}
             v == [i \in L |-> t.queued[i].ticket]
  <2>1. v \in [L -> Nat] /\ L # {}
    BY <1>1, <1>2, <1>6
  <2>2. PICK k \in L : \A i \in L : v[k] <= v[i]
    <3> HIDE DEF v, L
    <3> QED
      BY <2>1, FiniteHasMinimum
  <2>3. Ahead(t, k) \in SUBSET S
    <3> SUFFICES ASSUME NEW i \in Ahead(t, k)
                 PROVE  i \in S
      OBVIOUS
    <3>1. i \in Waiting(t) /\ t.queued[i].req.parent = s /\ t.queued[i].ticket < t.queued[k].ticket
      BY DEF Ahead
    <3>2. i \in L => t.queued[k].ticket <= t.queued[i].ticket
      BY <2>2
    <3> QED
      BY <1>1, <1>2, <3>1, <3>2
  <2>4. k \in Waiting(t) /\ ~(n + Cardinality(Ahead(t, k)) < Limit)
    BY StartableIs
  <2>5. Cardinality(Ahead(t, k)) \in Nat
    BY <1>2, <2>4, IdSetsFinite
  <2>6. Cardinality(Ahead(t, k)) <= Cardinality(S)
    BY <1>3, <2>3, FS_Subset
  <2> HIDE DEF S, n
  <2> QED
    BY <1>3, <1>4, <2>4, <2>5, <2>6
<1> QED
  BY <1>3, <1>5, <1>6

\* After the sweep's starts no session is over its limit, and the entries left
\* are cancelled or wait for a full session.
LEMMA StartQueuedFits ==
    ASSUME NEW t \in State, Homed(t), TicketsDiffer(t), FitsBut(t, {}), QueueOfTasks(t)
    PROVE  LET u == StartQueued(t)
           IN  /\ FitsBut(u, {})
               /\ \A i \in DOMAIN u.queued :
                     u.queued[i].cancelled \/ ~HasCapacity(u, u.queued[i].req.parent)
<1> DEFINE u == StartQueued(t)
           Q(s) == {i \in Startable(t) : t.queued[i].req.parent = s}
<1>0. Startable(t) \in SUBSET DOMAIN t.queued
  BY StartableFacts
<1>1. ASSUME NEW s \in Parents
      PROVE  /\ Cardinality(Running(t, s)) <= Limit
             /\ Running(u, s) = Running(t, s) \cup Q(s) /\ Running(t, s) \cap Q(s) = {}
  <2>1. Cardinality(Running(t, s)) <= Limit
    <3>1. Running(t, s) \ {} = Running(t, s)
      OBVIOUS
    <3> QED
      BY <3>1 DEF FitsBut
  <2>2. /\ Live(u) = Live(t) \cup Startable(t) /\ Live(t) \cap Startable(t) = {}
        /\ \A i \in Live(t) : ChildOf(u, i) = ChildOf(t, i)
        /\ \A i \in Startable(t) : ChildOf(u, i) = u.pending[i]
    BY StartQueuedViews
  <2>3. \A i \in Startable(t) : u.pending[i].req = t.queued[i].req
    BY StartQueuedFacts
  <2> HIDE DEF u
  <2>4. Running(u, s) = Running(t, s) \cup Q(s) /\ Running(t, s) \cap Q(s) = {}
    BY <1>0, <2>2, <2>3 DEF Running, QueueOfTasks
  <2> QED
    BY <2>1, <2>4
<1>2. ASSUME NEW s \in Parents
      PROVE  Cardinality(Running(u, s)) = Cardinality(Running(t, s)) + Cardinality(Q(s))
  <2>1. IsFiniteSet(Q(s)) /\ Cardinality(Q(s)) \in Nat
    BY <1>1, SweepStarts
  <2>2. IsFiniteSet(Running(t, s)) /\ Cardinality(Running(t, s)) \in Nat
    BY RunningFinite
  <2> HIDE DEF u, Q
  <2> QED
    BY <1>1, <2>1, <2>2, FS_Union, FS_EmptySet
<1>3. FitsBut(u, {})
  <2> SUFFICES ASSUME NEW s \in Parents
               PROVE  Cardinality(Running(u, s) \ {}) <= Limit
    BY DEF FitsBut
  <2>1. Running(u, s) \ {} = Running(u, s)
    OBVIOUS
  <2>2. Cardinality(Running(t, s)) + Cardinality(Q(s)) <= Limit
    BY <1>1, SweepStarts
  <2> QED
    BY <1>2, <2>1, <2>2
<1>4. ASSUME NEW i \in DOMAIN u.queued, ~u.queued[i].cancelled
      PROVE  ~HasCapacity(u, u.queued[i].req.parent)
  <2>1. i \in DOMAIN t.queued \ Startable(t) /\ u.queued[i] = t.queued[i]
    BY StartQueuedFacts
  <2> DEFINE s == t.queued[i].req.parent
  <2>2. s \in Parents
    <3>1. t.queued[i] \in QueuedSpawn
      BY <2>1, StateFields, MapElement
    <3> QED
      BY <3>1 DEF QueuedSpawn, Request
  <2>3. i \in Waiting(t) \ Startable(t)
    BY <1>4, <2>1 DEF Waiting
  <2>4. Cardinality(Running(t, s)) + Cardinality(Q(s)) >= Limit
    BY <1>1, <2>2, <2>3, SweepStarts
  <2>5. Cardinality(Running(u, s)) >= Limit
    BY <1>2, <2>2, <2>4
  <2>6. Cardinality(Running(u, s)) \in Nat
    BY StartQueuedType, RunningFinite
  <2> HIDE DEF u, s
  <2> QED
    BY <2>1, <2>5, <2>6, LimitPositive DEF HasCapacity, s
<1> QED
  BY <1>3, <1>4

-----------------------------------------------------------------------------
(* Leaving the queue *)

LEMMA ConcludeFacts ==
    ASSUME NEW t \in State, NEW rec, NEW out, NEW rank
    PROVE  LET u == Conclude(t, rec, out, rank)
               K == DOMAIN rec
           IN  /\ u.queued = t.queued /\ u.pending = t.pending /\ u.active = t.active
               /\ u.graph = t.graph /\ u.outputs = t.outputs /\ u.drains = t.drains
               /\ u.blocked = t.blocked /\ u.runWaiters = t.runWaiters
               /\ DOMAIN u.completed = DOMAIN t.completed \cup K
               /\ \A i \in K : /\ u.completed[i].req = rec[i].req
                               /\ u.completed[i].surfaced = Surfaces(t, i, rec[i], out)
               /\ \A i \in DOMAIN t.completed \ K : u.completed[i] = t.completed[i]
               /\ u.parked = {m \in t.parked : m[1] \notin K}
               /\ \A i \in Ids : u.waiters[i] = IF i \in K THEN "none" ELSE t.waiters[i]
               /\ \A i \in Ids : u.callers[i] = IF i \in K /\ rec[i].reply /\ t.callers[i] = "waiting"
                                                THEN "result" ELSE t.callers[i]
               /\ \A b \in u.buffer :
                     b \in t.buffer \/ \E i \in K : b[1] \in CompletionTarget(t, i, rec[i].req)
<1> DEFINE K == DOMAIN rec
           told(i) == {<<p, i>> : p \in CompletionTarget(t, i, rec[i].req)}
           done == [i \in K |-> Terminal(t, i, rec[i], out, t.nextAge + rank[i])]
           waiters == [i \in Ids |-> IF i \in K THEN "none" ELSE t.waiters[i]]
           callers == [i \in Ids |-> IF i \in K /\ rec[i].reply /\ t.callers[i] = "waiting"
                                     THEN "result" ELSE t.callers[i]]
           buffer == {m \in t.buffer \cup UNION {told(i) : i \in K} : m[1] \notin K}
           age == t.nextAge + Cardinality(K)
           parked == {m \in t.parked : m[1] \notin K}
           u == [t EXCEPT !.completed = Merge(t.completed, done), !.nextAge = age,
                          !.parked = parked,
                          !.waiters = waiters, !.callers = callers, !.buffer = buffer]
<1>1. Conclude(t, rec, out, rank) = u
  BY DEF Conclude
<1>2. /\ DOMAIN Merge(t.completed, done) = DOMAIN t.completed \cup K
      /\ \A i \in DOMAIN t.completed \ K : Merge(t.completed, done)[i] = t.completed[i]
      /\ \A i \in K : Merge(t.completed, done)[i] = done[i]
  BY DEF Merge
<1>3. \A i \in K : done[i].req = rec[i].req /\ done[i].surfaced = Surfaces(t, i, rec[i], out)
  BY DEF Terminal
<1>4. \A b \in buffer : b \in t.buffer \/ \E i \in K : b[1] \in CompletionTarget(t, i, rec[i].req)
  OBVIOUS
<1>5. /\ \A i \in Ids : waiters[i] = IF i \in K THEN "none" ELSE t.waiters[i]
      /\ \A i \in Ids : callers[i] = IF i \in K /\ rec[i].reply /\ t.callers[i] = "waiting"
                                     THEN "result" ELSE t.callers[i]
  OBVIOUS
<1> HIDE DEF done, waiters, callers, buffer, age, K, parked
<1>6. /\ u.queued = t.queued /\ u.pending = t.pending /\ u.active = t.active
      /\ u.graph = t.graph /\ u.outputs = t.outputs /\ u.drains = t.drains
      /\ u.blocked = t.blocked /\ u.runWaiters = t.runWaiters
      /\ u.completed = Merge(t.completed, done) /\ u.parked = parked
      /\ u.waiters = waiters /\ u.callers = callers /\ u.buffer = buffer
  BY DEF State, StateOver
<1> HIDE DEF u
<1> QED
  BY <1>1, <1>2, <1>3, <1>4, <1>5, <1>6 DEF K, parked

LEMMA TargetIs ==
    ASSUME NEW t \in State, NEW i, NEW r, NEW p \in CompletionTarget(t, i, r)
    PROVE  p \in Ids \/ (r.surface /\ r.run = None /\ p = r.parent)
BY DomainFacts DEF CompletionTarget

\* The entries of R leave the queue.  A wake that never ran gives the displaced
\* record back, anything else ends as a cancelled child.
Withdrawn(t, R, v) ==
    /\ DOMAIN v.queued = DOMAIN t.queued \ R
    /\ \A i \in DOMAIN v.queued : v.queued[i] = t.queued[i]
    /\ v.pending = t.pending /\ v.active = t.active /\ v.outputs = t.outputs
    /\ v.drains = t.drains /\ v.blocked = t.blocked /\ v.runWaiters = t.runWaiters
    /\ v.parked \subseteq t.parked
    /\ \A m \in v.parked : m[1] \in R => t.queued[m[1]].wake # None
    /\ \A i \in DOMAIN v.completed :
          \/ i \in DOMAIN t.completed /\ v.completed[i] = t.completed[i]
          \/ /\ i \in R /\ t.queued[i].wake = None
             /\ v.completed[i].req = t.queued[i].req /\ ~v.completed[i].surfaced
          \/ /\ i \in R /\ t.queued[i].wake # None
             /\ v.completed[i].req = t.queued[i].wake.req
             /\ v.completed[i].surfaced = t.queued[i].wake.surfaced
    /\ \A i \in DOMAIN v.graph : i \in DOMAIN t.graph /\ v.graph[i] = t.graph[i]
    /\ \A i \in Ids : v.waiters[i] = IF i \in R THEN "none" ELSE t.waiters[i]
    /\ \A i \in Ids : v.callers[i] = IF /\ i \in R /\ t.queued[i].wake = None
                                        /\ t.queued[i].awaiting /\ t.callers[i] = "waiting"
                                     THEN "result" ELSE t.callers[i]
    /\ \A b \in v.buffer :
          \/ b \in t.buffer \/ b[1] \in Ids
          \/ \E i \in R : t.queued[i].req.surface /\ t.queued[i].req.run = None
                          /\ b[1] = t.queued[i].req.parent

LEMMA FinishCancelledQueuedView ==
    ASSUME NEW t \in State, Homed(t), NEW R \in SUBSET DOMAIN t.queued
    PROVE  \E v \in State : /\ Withdrawn(t, R, v) /\ Homed(v)
                            /\ \E P : FinishCancelledQueued(t, R) = ResolveTeardownDrains(v, P)
<1> DEFINE W == {i \in R : t.queued[i].wake # None}
           N == R \ W
           rank == [i \in R |-> Cardinality({j \in N : t.queued[j].ticket < t.queued[i].ticket})]
           kept == {i \in W : ~Expired(t.queued[i].wake, t.nextAge + rank[i])}
           rec == [i \in N |->
                     [NewChild(t.queued[i].req, TRUE, t.queued[i].awaiting, FALSE, None)
                        EXCEPT !.handleOnly = t.queued[i].req.bg]]
           out == [success |-> FALSE, cancelled |-> TRUE]
           t0 == [t EXCEPT !.queued = Drop(t.queued, R)]
           u == Conclude(t0, rec, out, rank)
           back == [i \in kept |-> [t.queued[i].wake EXCEPT !.wakeEligible = FALSE]]
           done == Merge(u.completed, back)
           nodes == Drop(u.graph, W \ kept)
           waiters == [i \in Ids |-> IF i \in W THEN "none" ELSE u.waiters[i]]
           v == [u EXCEPT !.completed = done, !.graph = nodes, !.waiters = waiters]
           P == {t.queued[i].req.parent : i \in N}
<1>0. FinishCancelledQueued(t, R) = ResolveTeardownDrains(v, P)
  BY DEF FinishCancelledQueued
<1>1. R \in SUBSET Ids /\ \A i \in R : t.queued[i] \in QueuedSpawn
  BY StateFields, MapElement
<1>2. t0 \in State
  <2>1. Drop(t.queued, R) \in MapOf(QueuedSpawn)
    BY StateFields, DropType
  <2> QED
    BY <2>1 DEF State, StateOver
<1>3. rec \in MapOf(Child) /\ DOMAIN rec = N
  <2>1. ASSUME NEW i \in N
        PROVE  [NewChild(t.queued[i].req, TRUE, t.queued[i].awaiting, FALSE, None)
                  EXCEPT !.handleOnly = t.queued[i].req.bg] \in Child
    <3>1. NewChild(t.queued[i].req, TRUE, t.queued[i].awaiting, FALSE, None) \in Child
      BY <1>1, NewChildType DEF QueuedSpawn
    <3>2. t.queued[i].req.bg \in BOOLEAN
      BY <1>1 DEF QueuedSpawn, Request
    <3> QED
      BY <3>1, <3>2 DEF Child
  <2>2. rec \in [N -> Child] /\ N \in SUBSET Ids
    BY <1>1, <2>1
  <2> QED
    BY <2>2, RewriteType
<1>4. \A i \in N : rec[i].req = t.queued[i].req /\ rec[i].reply = t.queued[i].awaiting
  BY DEF NewChild
<1>5. \A i \in DOMAIN rec : rank[i] \in Nat
  <2>1. ASSUME NEW i \in R PROVE rank[i] \in Nat
    <3>1. {j \in N : t.queued[j].ticket < t.queued[i].ticket} \in SUBSET Ids
      BY <1>1
    <3> QED
      BY <3>1, IdSetsFinite
  <2> QED
    BY <2>1
<1>6. out \in Output /\ out.cancelled
  BY DEF Output
<1>7. DOMAIN back = kept /\ \A i \in kept : /\ back[i].req = t.queued[i].wake.req
                                           /\ back[i].surfaced = t.queued[i].wake.surfaced
                                           /\ back[i] \in CompletedChild
  BY <1>1 DEF QueuedSpawn, CompletedChild
<1>8. kept \in SUBSET W /\ W \in SUBSET R /\ \A i \in R : i \in W <=> t.queued[i].wake # None
  OBVIOUS
<1>9. /\ t0.queued = Drop(t.queued, R) /\ t0.pending = t.pending /\ t0.active = t.active
      /\ t0.completed = t.completed /\ t0.graph = t.graph /\ t0.outputs = t.outputs
      /\ t0.drains = t.drains /\ t0.blocked = t.blocked /\ t0.runWaiters = t.runWaiters
      /\ t0.parked = t.parked /\ t0.waiters = t.waiters /\ t0.callers = t.callers
      /\ t0.buffer = t.buffer
  BY DEF State, StateOver
<1>10. DOMAIN t0.queued = DOMAIN t.queued \ R /\ \A i \in DOMAIN t0.queued : t0.queued[i] = t.queued[i]
  BY <1>9 DEF Drop, Restrict
<1> HIDE DEF t0, rec, out, rank, kept
<1>11. u \in State
  BY <1>2, <1>3, <1>5, <1>6, ConcludeType
<1>12. /\ u.queued = t0.queued /\ u.pending = t0.pending /\ u.active = t0.active
       /\ u.graph = t0.graph /\ u.outputs = t0.outputs /\ u.drains = t0.drains
       /\ u.blocked = t0.blocked /\ u.runWaiters = t0.runWaiters
       /\ DOMAIN u.completed = DOMAIN t0.completed \cup N
       /\ \A i \in N : /\ u.completed[i].req = rec[i].req
                       /\ u.completed[i].surfaced = Surfaces(t0, i, rec[i], out)
       /\ \A i \in DOMAIN t0.completed \ N : u.completed[i] = t0.completed[i]
       /\ u.parked = {m \in t0.parked : m[1] \notin N}
       /\ \A i \in Ids : u.waiters[i] = IF i \in N THEN "none" ELSE t0.waiters[i]
       /\ \A i \in Ids : u.callers[i] = IF i \in N /\ rec[i].reply /\ t0.callers[i] = "waiting"
                                        THEN "result" ELSE t0.callers[i]
       /\ \A b \in u.buffer :
             b \in t0.buffer \/ \E i \in N : b[1] \in CompletionTarget(t0, i, rec[i].req)
  <2> HIDE DEF N
  <2> QED
    BY <1>2, <1>3, ConcludeFacts
<1>13. \A i \in N : ~u.completed[i].surfaced
  BY <1>6, <1>12 DEF Surfaces
<1>14. \A b \in u.buffer :
          \/ b \in t.buffer \/ b[1] \in Ids
          \/ \E i \in R : t.queued[i].req.surface /\ t.queued[i].req.run = None
                          /\ b[1] = t.queued[i].req.parent
  <2> SUFFICES ASSUME NEW b \in u.buffer, NEW i \in N, b[1] \in CompletionTarget(t0, i, rec[i].req)
               PROVE  b[1] \in Ids \/ (/\ t.queued[i].req.surface /\ t.queued[i].req.run = None
                                       /\ b[1] = t.queued[i].req.parent)
    BY <1>9, <1>12
  <2> HIDE DEF N, u
  <2> QED
    BY <1>2, <1>4, TargetIs
<1> HIDE DEF u, back
<1>15. done \in MapOf(CompletedChild) /\ nodes \in MapOf(SpawnNode) /\ waiters \in [Ids -> WaiterView]
  <2>1. back \in MapOf(CompletedChild)
    <3>1. kept \in SUBSET Ids /\ back \in [kept -> CompletedChild]
      BY <1>1, <1>7, <1>8 DEF back
    <3> QED
      BY <3>1, RewriteType
  <2>2. done \in MapOf(CompletedChild)
    BY <1>11, <2>1, StateFields, MergeType
  <2>3. nodes \in MapOf(SpawnNode)
    BY <1>11, StateFields, DropType
  <2>4. waiters \in [Ids -> WaiterView]
    BY <1>11, StateFields DEF WaiterView
  <2> QED
    BY <2>2, <2>3, <2>4
<1>16. /\ DOMAIN done = DOMAIN u.completed \cup kept
       /\ \A i \in kept : done[i] = back[i]
       /\ \A i \in DOMAIN u.completed \ kept : done[i] = u.completed[i]
  BY <1>7 DEF Merge
<1>17. /\ DOMAIN nodes = DOMAIN u.graph \ (W \ kept)
       /\ \A i \in DOMAIN nodes : nodes[i] = u.graph[i]
  BY DEF Drop, Restrict
<1>18. \A i \in Ids : waiters[i] = IF i \in W THEN "none" ELSE u.waiters[i]
  OBVIOUS
<1> HIDE DEF done, nodes, waiters
<1>19. /\ v \in State /\ v.queued = u.queued /\ v.pending = u.pending /\ v.active = u.active
       /\ v.graph = nodes /\ v.outputs = u.outputs /\ v.drains = u.drains
       /\ v.blocked = u.blocked /\ v.runWaiters = u.runWaiters /\ v.completed = done
       /\ v.parked = u.parked /\ v.waiters = waiters /\ v.callers = u.callers
       /\ v.buffer = u.buffer
  BY <1>11, <1>15 DEF State, StateOver
<1> HIDE DEF v, W
<1>20. ASSUME NEW i \in DOMAIN v.completed
       PROVE  \/ i \in DOMAIN t.completed /\ v.completed[i] = t.completed[i]
              \/ /\ i \in R /\ t.queued[i].wake = None
                 /\ v.completed[i].req = t.queued[i].req /\ ~v.completed[i].surfaced
              \/ /\ i \in R /\ t.queued[i].wake # None
                 /\ v.completed[i].req = t.queued[i].wake.req
                 /\ v.completed[i].surfaced = t.queued[i].wake.surfaced
  <2>1. CASE i \in kept
    BY <1>7, <1>8, <1>16, <1>19, <2>1
  <2>2. CASE i \in N /\ i \notin kept
    BY <1>4, <1>8, <1>12, <1>13, <1>16, <1>19, <2>2
  <2>3. CASE i \notin N /\ i \notin kept
    BY <1>9, <1>12, <1>16, <1>19, <2>3
  <2> QED
    BY <2>1, <2>2, <2>3
<1>21. Withdrawn(t, R, v)
  <2>1. DOMAIN v.queued = DOMAIN t.queued \ R /\ \A i \in DOMAIN v.queued : v.queued[i] = t.queued[i]
    BY <1>10, <1>12, <1>19
  <2>2. \A m \in v.parked : m \in t.parked /\ (m[1] \in R => t.queued[m[1]].wake # None)
    BY <1>8, <1>9, <1>12, <1>19
  <2>3. \A i \in DOMAIN v.graph : i \in DOMAIN t.graph /\ v.graph[i] = t.graph[i]
    BY <1>9, <1>12, <1>17, <1>19
  <2>4. \A i \in Ids : v.waiters[i] = IF i \in R THEN "none" ELSE t.waiters[i]
    BY <1>8, <1>9, <1>12, <1>18, <1>19
  <2>5. \A i \in Ids : v.callers[i] = IF /\ i \in R /\ t.queued[i].wake = None
                                         /\ t.queued[i].awaiting /\ t.callers[i] = "waiting"
                                      THEN "result" ELSE t.callers[i]
    BY <1>4, <1>8, <1>9, <1>12, <1>19
  <2>6. /\ v.pending = t.pending /\ v.active = t.active /\ v.outputs = t.outputs
        /\ v.drains = t.drains /\ v.blocked = t.blocked /\ v.runWaiters = t.runWaiters
    BY <1>9, <1>12, <1>19
  <2>7. \A b \in v.buffer :
          \/ b \in t.buffer \/ b[1] \in Ids
          \/ \E i \in R : t.queued[i].req.surface /\ t.queued[i].req.run = None
                          /\ b[1] = t.queued[i].req.parent
    BY <1>14, <1>19
  <2> QED
    BY <1>20, <2>1, <2>2, <2>3, <2>4, <2>5, <2>6, <2>7 DEF Withdrawn
<1>22. Homed(v)
  <2>1. /\ DOMAIN v.queued = DOMAIN t.queued \ R /\ v.pending = t.pending /\ v.active = t.active
        /\ DOMAIN v.completed = DOMAIN t.completed \cup N \cup kept
        /\ DOMAIN v.graph = DOMAIN t.graph \ (W \ kept)
    BY <1>9, <1>10, <1>12, <1>16, <1>17, <1>19
  <2> QED
    BY <1>8, <2>1 DEF Homed, Known, Live
<1> QED
  BY <1>0, <1>19, <1>21, <1>22

\* Everything but R is still there and holds what it held.
OthersStay(t, R, v) ==
    /\ Present(v) = Present(t) \ R /\ Live(v) = Live(t) /\ Live(t) \cap R = {}
    /\ \A i \in Live(t) : ChildOf(v, i) = ChildOf(t, i)
    /\ \A i \in Present(v) : /\ RequestOf(v, i) = RequestOf(t, i)
                             /\ Prior(v, i) = Prior(t, i) /\ Owes(v, i) = Owes(t, i)
    /\ \A i \in R : /\ i \in Present(t) /\ RequestOf(t, i) = t.queued[i].req
                    /\ Prior(t, i) = t.queued[i].wake /\ Owes(t, i) = t.queued[i].awaiting
    /\ \A s : Running(v, s) = Running(t, s) /\ RunOutstanding(v, s) = RunOutstanding(t, s)

LEMMA WithdrawnViews ==
    ASSUME NEW t \in State, Homed(t), NEW R \in SUBSET DOMAIN t.queued, NEW v, Withdrawn(t, R, v)
    PROVE  OthersStay(t, R, v)
<1>1. /\ DOMAIN v.queued = DOMAIN t.queued \ R
      /\ \A i \in DOMAIN v.queued : v.queued[i] = t.queued[i]
      /\ v.pending = t.pending /\ v.active = t.active
  BY DEF Withdrawn
<1>2. DOMAIN t.queued \cap Live(t) = {}
  BY DEF Homed
<1>3. Live(v) = Live(t) /\ Live(t) \cap R = {} /\ Present(v) = Present(t) \ R
  BY <1>1, <1>2 DEF Live, Present
<1>4. \A i \in Live(t) : ChildOf(v, i) = ChildOf(t, i)
  BY <1>1 DEF ChildOf, Live
<1>5. \A i \in Present(v) : /\ RequestOf(v, i) = RequestOf(t, i)
                            /\ Prior(v, i) = Prior(t, i) /\ Owes(v, i) = Owes(t, i)
  BY <1>1, <1>3, <1>4 DEF Present, RequestOf, Prior, Owes
<1>6. \A i \in R : /\ i \in Present(t) /\ RequestOf(t, i) = t.queued[i].req
                   /\ Prior(t, i) = t.queued[i].wake /\ Owes(t, i) = t.queued[i].awaiting
  BY <1>2 DEF Present, RequestOf, Prior, Owes
<1>7. \A s : Running(v, s) = Running(t, s) /\ RunOutstanding(v, s) = RunOutstanding(t, s)
  BY <1>3, <1>4 DEF Running, RunOutstanding
<1> QED
  BY <1>3, <1>4, <1>5, <1>6, <1>7 DEF OthersStay

LEMMA WithdrawnOnward ==
    ASSUME NEW t \in State, Homed(t), Promised(t), NEW R \in SUBSET DOMAIN t.queued,
           \A m \in t.parked : m[1] \in R => t.queued[m[1]].wake = None,
           NEW v \in State, Withdrawn(t, R, v)
    PROVE  Onward(t, v)
<1>1. /\ Present(v) = Present(t) \ R /\ Live(v) = Live(t)
      /\ \A i \in Live(t) : ChildOf(v, i) = ChildOf(t, i)
      /\ \A i \in Present(v) : /\ RequestOf(v, i) = RequestOf(t, i)
                               /\ Prior(v, i) = Prior(t, i) /\ Owes(v, i) = Owes(t, i)
      /\ \A i \in R : /\ i \in Present(t) /\ RequestOf(t, i) = t.queued[i].req
                      /\ Prior(t, i) = t.queued[i].wake /\ Owes(t, i) = t.queued[i].awaiting
  <2>1. OthersStay(t, R, v)
    BY WithdrawnViews
  <2> QED
    BY <2>1 DEF OthersStay
<1>2. Present(t) \in SUBSET Ids /\ R \in SUBSET Ids /\ DOMAIN t.completed \in SUBSET Ids
      /\ DOMAIN t.completed \cap Present(t) = {}
  BY DomainFacts DEF Present, Live, Homed
<1>3. ChildrenOnward(t, v)
  BY <1>1 DEF ChildrenOnward, Withdrawn
<1>4. \A i \in R : t.queued[i].wake # None =>
        /\ t.queued[i].wake.req.parent = t.queued[i].req.parent /\ ~t.queued[i].awaiting
        /\ t.queued[i].wake.surfaced => NotHeard(t, i, t.queued[i].wake.req)
  BY <1>1 DEF Promised, WakesGenuine
<1>5. WaitingOnward(t, v)
  <2>1. ASSUME NEW i \in Ids, v.callers[i] = "waiting"
        PROVE  /\ t.callers[i] = "waiting"
               /\ i \in Present(t) /\ Owes(t, i) => i \in Present(v) /\ Owes(v, i)
    BY <1>1, <1>4, <2>1 DEF Withdrawn
  <2>2. \A i \in Present(v) : v.callers[i] = "result" => t.callers[i] = "result"
    BY <1>1, <1>2 DEF Withdrawn
  <2>3. \A i \in Ids : v.waiters[i] # "none" => t.waiters[i] # "none" /\ i \in Present(v)
    BY <1>1 DEF Withdrawn, Promised, WaitersOwed
  <2>4. \A m \in v.parked : m \in t.parked /\ m[1] \in Present(v)
    BY <1>1 DEF Withdrawn, Promised, ParkedOwed
  <2>5. v.active = t.active
    BY DEF Withdrawn
  <2> QED
    BY <1>1, <2>1, <2>2, <2>3, <2>4, <2>5 DEF WaitingOnward
<1>6. RecordsOnward(t, v)
  <2>1. \A i \in DOMAIN v.graph : i \in DOMAIN t.graph /\ v.graph[i] = t.graph[i]
    BY DEF Withdrawn
  <2>2. ASSUME NEW i \in DOMAIN v.completed, i \in DOMAIN t.completed, v.completed[i] = t.completed[i]
        PROVE  v.callers[i] = "result" => t.callers[i] = "result"
    BY <1>1, <1>2, <2>2 DEF Withdrawn
  <2>3. ASSUME NEW i \in R, t.queued[i].wake # None
        PROVE  v.callers[i] = t.callers[i]
    BY <1>2, <2>3 DEF Withdrawn
  <2>4. ASSUME NEW i \in DOMAIN v.completed
        PROVE  \/ i \in DOMAIN t.completed /\ v.completed[i] = t.completed[i]
               \/ /\ i \in R /\ v.completed[i].req.parent = RequestOf(t, i).parent
                  /\ v.completed[i].surfaced => NotHeard(v, i, v.completed[i].req)
    BY <1>1, <1>4, <2>3 DEF Withdrawn, NotHeard
  <2> QED
    BY <1>1, <2>1, <2>2, <2>4 DEF RecordsOnward
<1> QED
  BY <1>3, <1>5, <1>6 DEF Onward

LEMMA WithdrawnMuted ==
    ASSUME NEW t \in State, Homed(t), NEW R \in SUBSET DOMAIN t.queued, NEW v, Withdrawn(t, R, v),
           NEW D \in SUBSET Sessions, Muted(t, D)
    PROVE  Muted(v, D)
<1>0. OthersStay(t, R, v)
  BY WithdrawnViews
<1>1. \A i \in Present(v) : i \in Present(t) /\ RequestOf(v, i) = RequestOf(t, i)
  BY <1>0 DEF OthersStay
<1>2. \A i \in R : i \in Present(t) /\ RequestOf(t, i) = t.queued[i].req
  BY <1>0 DEF OthersStay
<1>3. \A b \in v.buffer : b[1] \notin D
  BY <1>2, SessionsAreNotIds DEF Muted, Withdrawn
<1> QED
  BY <1>1, <1>3 DEF Muted

\* The queue of u is part of the queue of t without R.
Shorter(t, R, u) ==
    \A i \in DOMAIN u.queued : i \in DOMAIN t.queued \ R /\ u.queued[i].req = t.queued[i].req

LEMMA FinishCancelledQueuedGood ==
    ASSUME NEW t \in State, Homed(t), NEW R \in SUBSET DOMAIN t.queued,
           NEW Q \in SUBSET R, Good(t, {}, Q),
           \A m \in t.parked : m[1] \in R => t.queued[m[1]].wake = None
    PROVE  LET u == FinishCancelledQueued(t, R)
           IN  /\ Good(u, {}, {}) /\ Shorter(t, R, u)
               /\ \A D \in SUBSET Sessions : Muted(t, D) => Muted(u, D)
               /\ (\A i \in DOMAIN t.queued \ R : ~HasCapacity(t, t.queued[i].req.parent))
                     => QueueFull(u)
<1>1. PICK v \in State : /\ Withdrawn(t, R, v) /\ Homed(v)
                         /\ \E P : FinishCancelledQueued(t, R) = ResolveTeardownDrains(v, P)
  BY FinishCancelledQueuedView
<1>2. PICK P : FinishCancelledQueued(t, R) = ResolveTeardownDrains(v, P)
  BY <1>1
<1> DEFINE u == ResolveTeardownDrains(v, P)
<1>3. Good(v, {}, {})
  <2>1. Promised(v)
    BY <1>1, WithdrawnOnward, OnwardPromised DEF Good
  <2>2. HeldBut(v, {})
    BY <1>1 DEF Good, HeldBut, Withdrawn
  <2>3. QuietBut(v, {})
    <3>1. v.drains = t.drains /\ v.blocked = t.blocked /\ t.drains \in SUBSET Sessions
      BY <1>1 DEF Good, QuietBut, Withdrawn
    <3>2. Muted(v, v.drains)
      BY <1>1, <3>1, WithdrawnMuted DEF Good, QuietBut
    <3>3. \A i \in DOMAIN v.queued : v.queued[i].req.parent \notin v.blocked
      BY <1>1, <3>1 DEF Good, QuietBut, Withdrawn
    <3> QED
      BY <3>1, <3>2, <3>3 DEF Good, QuietBut
  <2>4. RunsOutstanding(v) /\ FitsBut(v, {})
    <3>1. \A s : Running(v, s) = Running(t, s) /\ RunOutstanding(v, s) = RunOutstanding(t, s)
      BY <1>1, WithdrawnViews DEF OthersStay
    <3> QED
      BY <1>1, <3>1 DEF Good, RunsOutstanding, FitsBut, Withdrawn
  <2>5. TicketsDiffer(v)
    BY <1>1 DEF Good, TicketsDiffer, Withdrawn
  <2> QED
    BY <2>1, <2>2, <2>3, <2>4, <2>5 DEF Good
<1>4. Eased(v, u, {}) /\ u \in State
  BY <1>1, <1>3, ResolveTeardownDrainsEased, ResolveTeardownDrainsType DEF Good
<1>5. u.queued = v.queued /\ u.buffer = v.buffer
  BY <1>1 DEF ResolveTeardownDrains, ClearTeardownDrain, State, StateOver
<1> HIDE DEF u
<1>6. Good(u, {}, {}) /\ (QueueFull(v) => QueueFull(u))
  BY <1>1, <1>3, <1>4, EasedGood
<1>7. Shorter(t, R, u)
  BY <1>1, <1>5 DEF Shorter, Withdrawn
<1>8. ASSUME NEW D \in SUBSET Sessions, Muted(t, D)
      PROVE  Muted(u, D)
  <2>1. Muted(v, D)
    BY <1>1, <1>8, WithdrawnMuted
  <2> QED
    BY <1>4, <1>5, <2>1, EasedMuted DEF Eased
<1>9. (\A i \in DOMAIN t.queued \ R : ~HasCapacity(t, t.queued[i].req.parent)) => QueueFull(v)
  <2>1. \A s : Running(v, s) = Running(t, s)
    BY <1>1, WithdrawnViews DEF OthersStay
  <2> QED
    BY <1>1, <2>1 DEF QueueFull, HasCapacity, Withdrawn
<1> QED
  BY <1>2, <1>6, <1>7, <1>8, <1>9 DEF u

\* start_queued_within_capacity leaves no slot free that an entry waits for.
LEMMA SweepKept ==
    ASSUME NEW t \in State, Homed(t), Good(t, {}, {})
    PROVE  /\ Kept(Sweep(t)) /\ Shorter(t, {}, Sweep(t))
           /\ \A D \in SUBSET Sessions : Muted(t, D) => Muted(Sweep(t), D)
<1> DEFINE u == StartQueued(t)
           R == {i \in DOMAIN u.queued : u.queued[i].cancelled}
<1>1. u \in State /\ Homed(u)
  BY StartQueuedType, StartQueuedHomed
<1>2. /\ DOMAIN u.queued \in SUBSET DOMAIN t.queued
      /\ \A i \in DOMAIN u.queued : u.queued[i] = t.queued[i]
      /\ u.active = t.active /\ u.outputs = t.outputs /\ u.drains = t.drains
      /\ u.blocked = t.blocked /\ u.buffer = t.buffer /\ u.runWaiters = t.runWaiters
  BY StartQueuedFacts
<1>3. /\ Present(u) = Present(t) /\ Live(t) \in SUBSET Live(u)
      /\ \A i \in Live(t) : ChildOf(u, i) = ChildOf(t, i)
      /\ \A i \in Present(t) : RequestOf(u, i) = RequestOf(t, i)
  BY StartQueuedViews
<1>4. Promised(u)
  BY <1>1, StartQueuedOnward, OnwardPromised DEF Good
<1>5. FitsBut(u, {}) /\ \A i \in DOMAIN u.queued :
                           u.queued[i].cancelled \/ ~HasCapacity(u, u.queued[i].req.parent)
  BY StartQueuedFits DEF Good, Promised
<1> HIDE DEF u
<1>6. \A D : Muted(t, D) => Muted(u, D)
  BY <1>2, <1>3 DEF Muted
<1>7. Good(u, {}, {})
  <2>1. HeldBut(u, {})
    BY <1>2 DEF Good, HeldBut
  <2>2. QuietBut(u, {})
    BY <1>2, <1>6 DEF Good, QuietBut
  <2>3. RunsOutstanding(u)
    <3>1. \A r : RunOutstanding(t, r) \subseteq RunOutstanding(u, r)
      BY <1>3 DEF RunOutstanding
    <3> QED
      BY <1>2, <3>1 DEF Good, RunsOutstanding
  <2>4. TicketsDiffer(u)
    BY <1>2 DEF Good, TicketsDiffer
  <2> QED
    BY <1>4, <1>5, <2>1, <2>2, <2>3, <2>4 DEF Good
<1>8. \A m \in u.parked : m[1] \in R => u.queued[m[1]].wake = None
  BY <1>4 DEF Promised, QueueOfTasks
<1>9. Sweep(t) = FinishCancelledQueued(u, R)
  BY DEF Sweep, u
<1>10. \A i \in DOMAIN u.queued \ R : ~HasCapacity(u, u.queued[i].req.parent)
  BY <1>5
<1>11. R \in SUBSET DOMAIN u.queued
  OBVIOUS
<1> HIDE DEF R
<1>12. /\ Good(Sweep(t), {}, {}) /\ Shorter(u, R, Sweep(t)) /\ QueueFull(Sweep(t))
       /\ \A D \in SUBSET Sessions : Muted(u, D) => Muted(Sweep(t), D)
  BY <1>1, <1>7, <1>8, <1>9, <1>10, <1>11, FinishCancelledQueuedGood
<1>13. Shorter(t, {}, Sweep(t))
  BY <1>2, <1>12 DEF Shorter
<1> QED
  BY <1>6, <1>12, <1>13 DEF Kept

LEMMA RemoveQueuedKept ==
    ASSUME NEW t \in State, Homed(t), NEW R \in SUBSET DOMAIN t.queued,
           NEW Q \in SUBSET R, Good(t, {}, Q), QueueFull(t)
    PROVE  /\ Kept(RemoveQueued(t, R)) /\ Shorter(t, R, RemoveQueued(t, R))
           /\ \A D \in SUBSET Sessions : Muted(t, D) => Muted(RemoveQueued(t, R), D)
<1> DEFINE t0 == [t EXCEPT !.parked = {m \in t.parked : m[1] \notin R}]
           u == FinishCancelledQueued(t0, R)
<1>1. /\ t0 \in State /\ t0.queued = t.queued /\ t0.pending = t.pending /\ t0.active = t.active
      /\ t0.completed = t.completed /\ t0.graph = t.graph /\ t0.callers = t.callers
      /\ t0.waiters = t.waiters /\ t0.parked = {m \in t.parked : m[1] \notin R}
      /\ t0.outputs = t.outputs /\ t0.drains = t.drains /\ t0.blocked = t.blocked
      /\ t0.buffer = t.buffer /\ t0.runWaiters = t.runWaiters
  BY DEF State, StateOver
<1>2. RemoveQueued(t, R) = IF \E i \in R : t.queued[i].wake = None THEN Sweep(u) ELSE u
  BY DEF RemoveQueued
<1> HIDE DEF t0
<1>3. SofterRest(t, t0, {})
  BY <1>1 DEF SofterRest, Good, QuietBut
<1>4. Eased(t, t0, {})
  BY <1>1, <1>3, EasedSameMaps
<1>5. Good(t0, {}, Q) /\ QueueFull(t0) /\ Homed(t0)
  BY <1>1, <1>4, EasedGood
<1>6. \A D : Muted(t, D) => Muted(t0, D)
  BY <1>1, <1>4, EasedMuted DEF Eased
<1>7. \A m \in t0.parked : m[1] \in R => t0.queued[m[1]].wake = None
  BY <1>1
<1>8. /\ Good(u, {}, {}) /\ Shorter(t0, R, u) /\ QueueFull(u)
      /\ \A D \in SUBSET Sessions : Muted(t0, D) => Muted(u, D)
  BY <1>1, <1>5, <1>7, FinishCancelledQueuedGood DEF QueueFull
<1>9. u \in State /\ Homed(u)
  BY <1>1, <1>5, FinishCancelledQueuedType, FinishCancelledQueuedHomed
<1> HIDE DEF u
<1>10. /\ Kept(Sweep(u)) /\ Shorter(u, {}, Sweep(u))
       /\ \A D \in SUBSET Sessions : Muted(u, D) => Muted(Sweep(u), D)
  BY <1>8, <1>9, SweepKept
<1>11. Shorter(t, R, u) /\ Shorter(t, R, Sweep(u))
  BY <1>1, <1>8, <1>10 DEF Shorter
<1> QED
  BY <1>2, <1>6, <1>8, <1>10, <1>11 DEF Kept

LEMMA ReapKept ==
    ASSUME NEW t \in State, Homed(t), Kept(t)
    PROVE  Kept(Reap(t))
<1> DEFINE u == WithoutGoneCallers(t)
           R == {i \in DOMAIN u.queued : u.queued[i].cancelled}
<1>1. u \in State /\ Eased(t, u, {})
  BY WithoutGoneCallersType, WithoutGoneCallersEased DEF Kept, Good
<1>2. Reap(t) = RemoveQueued(u, R)
  BY DEF Reap
<1> HIDE DEF u
<1>3. Good(u, {}, {}) /\ QueueFull(u) /\ Homed(u)
  BY <1>1, EasedGood DEF Kept
<1>4. R \in SUBSET DOMAIN u.queued /\ {} \in SUBSET R
  OBVIOUS
<1> HIDE DEF R
<1> QED
  BY <1>1, <1>2, <1>3, <1>4, RemoveQueuedKept

-----------------------------------------------------------------------------
(* Finishing a child *)

\* Child i leaves the live maps.  Its caller has its answer, or was let go; a
\* record it leaves under its id keeps the promise of Delivered.
Departed(t, i, v) ==
    /\ v.queued = t.queued
    /\ DOMAIN v.pending = DOMAIN t.pending \ {i} /\ DOMAIN v.active = DOMAIN t.active \ {i}
    /\ \A j \in DOMAIN v.pending : v.pending[j] = t.pending[j]
    /\ \A j \in DOMAIN v.active : v.active[j] = t.active[j]
    /\ DOMAIN v.outputs = DOMAIN t.outputs \ {i}
    /\ v.drains = t.drains /\ v.blocked = t.blocked
    /\ v.runWaiters \subseteq t.runWaiters
    /\ \A r \in v.runWaiters : r # ChildOf(t, i).req.run \/ RunOutstanding(v, r) # {}
    /\ v.parked = {m \in t.parked : m[1] # i}
    /\ \A j \in Ids : v.waiters[j] = IF j = i THEN "none" ELSE t.waiters[j]
    /\ \A j \in Ids \ {i} : v.callers[j] = t.callers[j]
    /\ v.callers[i] = "waiting" => t.callers[i] = "waiting" /\ ~ChildOf(t, i).reply
    /\ \A j \in DOMAIN v.graph : j \in DOMAIN t.graph /\ v.graph[j] = t.graph[j]
    /\ \A j \in DOMAIN v.completed \ {i} :
          j \in DOMAIN t.completed /\ v.completed[j] = t.completed[j]
    /\ i \in DOMAIN v.completed =>
          /\ v.completed[i].req.parent = ChildOf(t, i).req.parent
          /\ v.completed[i].surfaced => NotHeard(v, i, v.completed[i].req)
    /\ \A b \in v.buffer :
          \/ b \in t.buffer \/ b[1] \in Ids
          \/ /\ ChildOf(t, i).req.surface /\ ChildOf(t, i).req.run = None
             /\ b[1] = ChildOf(t, i).req.parent

OthersLeft(t, i, v) ==
    /\ Present(v) = Present(t) \ {i} /\ Live(v) = Live(t) \ {i} /\ i \in Present(t)
    /\ \A j \in Live(v) : ChildOf(v, j) = ChildOf(t, j)
    /\ \A j \in Present(v) : /\ RequestOf(v, j) = RequestOf(t, j)
                             /\ Prior(v, j) = Prior(t, j) /\ Owes(v, j) = Owes(t, j)
    /\ \A s : /\ Running(v, s) = Running(t, s) \ {i}
              /\ RunOutstanding(v, s) = RunOutstanding(t, s) \ {i}

LEMMA DepartedViews ==
    ASSUME NEW t \in State, Homed(t), NEW i \in Live(t), NEW v, Departed(t, i, v)
    PROVE  /\ OthersLeft(t, i, v)
           /\ RequestOf(t, i) = ChildOf(t, i).req
<1>1. /\ v.queued = t.queued
      /\ DOMAIN v.pending = DOMAIN t.pending \ {i} /\ DOMAIN v.active = DOMAIN t.active \ {i}
      /\ \A j \in DOMAIN v.pending : v.pending[j] = t.pending[j]
      /\ \A j \in DOMAIN v.active : v.active[j] = t.active[j]
  BY DEF Departed
<1>2. i \notin DOMAIN t.queued /\ i \notin DOMAIN t.completed
  BY DEF Homed
<1>3. Live(v) = Live(t) \ {i} /\ Present(v) = Present(t) \ {i} /\ i \in Present(t)
  BY <1>1, <1>2 DEF Live, Present
<1>4. \A j \in Live(v) : ChildOf(v, j) = ChildOf(t, j)
  BY <1>1, <1>3 DEF ChildOf, Live
<1>5. \A j \in Present(v) : /\ RequestOf(v, j) = RequestOf(t, j)
                            /\ Prior(v, j) = Prior(t, j) /\ Owes(v, j) = Owes(t, j)
  BY <1>1, <1>3, <1>4 DEF Present, RequestOf, Prior, Owes
<1>6. \A s : /\ Running(v, s) = Running(t, s) \ {i}
             /\ RunOutstanding(v, s) = RunOutstanding(t, s) \ {i}
  BY <1>3, <1>4 DEF Running, RunOutstanding
<1>7. RequestOf(t, i) = ChildOf(t, i).req
  BY DEF RequestOf
<1> QED
  BY <1>3, <1>4, <1>5, <1>6, <1>7 DEF OthersLeft

LEMMA DepartedOnward ==
    ASSUME NEW t \in State, Homed(t), Promised(t), NEW i \in Live(t), NEW v, Departed(t, i, v)
    PROVE  Onward(t, v)
<1>1. OthersLeft(t, i, v) /\ RequestOf(t, i) = ChildOf(t, i).req
  BY DepartedViews
<1>2. /\ Present(v) = Present(t) \ {i} /\ Live(v) = Live(t) \ {i} /\ i \in Present(t)
      /\ \A j \in Live(v) : ChildOf(v, j) = ChildOf(t, j)
      /\ \A j \in Present(v) : /\ RequestOf(v, j) = RequestOf(t, j)
                               /\ Prior(v, j) = Prior(t, j) /\ Owes(v, j) = Owes(t, j)
  BY <1>1 DEF OthersLeft
<1>3. Present(t) \in SUBSET Ids /\ DOMAIN t.completed \in SUBSET Ids
  BY DomainFacts DEF Present, Live
<1>4. ChildrenOnward(t, v)
  <2>1. v.queued = t.queued
    BY DEF Departed
  <2> QED
    BY <1>2, <2>1 DEF ChildrenOnward
<1>5. WaitingOnward(t, v)
  <2>1. Owes(t, i) = ChildOf(t, i).reply
    BY DEF Owes
  <2>2. \A j \in Ids : v.callers[j] = "waiting" =>
          /\ t.callers[j] = "waiting"
          /\ j \in Present(t) /\ Owes(t, j) => j \in Present(v) /\ Owes(v, j)
    BY <1>2, <2>1 DEF Departed
  <2>3. \A j \in Present(v) : v.callers[j] = t.callers[j]
    BY <1>2, <1>3 DEF Departed
  <2>4. \A j \in Ids : v.waiters[j] # "none" => t.waiters[j] # "none" /\ j \in Present(v)
    BY <1>2 DEF Departed, Promised, WaitersOwed
  <2>5. \A m \in v.parked : m \in t.parked /\ m[1] \in Present(v)
    BY <1>2 DEF Departed, Promised, ParkedOwed
  <2>6. DOMAIN v.active \subseteq DOMAIN t.active
    BY DEF Departed
  <2> QED
    BY <1>2, <2>2, <2>3, <2>4, <2>5, <2>6 DEF WaitingOnward
<1>6. RecordsOnward(t, v)
  <2>1. \A j \in DOMAIN v.graph : j \in DOMAIN t.graph /\ v.graph[j] = t.graph[j]
    BY DEF Departed
  <2>2. ASSUME NEW j \in DOMAIN v.completed, j # i
        PROVE  /\ j \in DOMAIN t.completed /\ v.completed[j] = t.completed[j]
               /\ v.callers[j] = t.callers[j]
    BY <1>3, <2>2 DEF Departed
  <2>3. i \in DOMAIN v.completed =>
          /\ v.completed[i].req.parent = RequestOf(t, i).parent
          /\ v.completed[i].surfaced => NotHeard(v, i, v.completed[i].req)
    BY <1>1 DEF Departed
  <2> QED
    BY <1>2, <2>1, <2>2, <2>3 DEF RecordsOnward
<1> QED
  BY <1>4, <1>5, <1>6 DEF Onward

LEMMA DepartedGood ==
    ASSUME NEW t \in State, Homed(t), NEW i \in Live(t), Good(t, {i}, {}),
           NEW v \in State, Homed(v), Departed(t, i, v)
    PROVE  Good(v, {}, {})
<1>1. OthersLeft(t, i, v) /\ RequestOf(t, i) = ChildOf(t, i).req
  BY DepartedViews
<1>2. Promised(v)
  BY DepartedOnward, OnwardPromised DEF Good
<1>3. HeldBut(v, {})
  BY DEF Good, HeldBut, Departed
<1>4. QuietBut(v, {})
  <2>1. v.drains = t.drains /\ v.blocked = t.blocked /\ v.queued = t.queued
        /\ t.drains \in SUBSET Sessions
    BY DEF Departed, Good, QuietBut
  <2>2. \A j \in Present(v) : j \in Present(t) /\ RequestOf(v, j) = RequestOf(t, j)
    BY <1>1 DEF OthersLeft
  <2>3. i \in Present(t)
    BY DEF Present
  <2>4. \A b \in v.buffer : b[1] \notin v.drains
    BY <1>1, <2>1, <2>3, SessionsAreNotIds DEF Departed, Good, QuietBut, Muted
  <2>5. Muted(v, v.drains)
    BY <2>1, <2>2, <2>4 DEF Good, QuietBut, Muted
  <2> QED
    BY <2>1, <2>5 DEF Good, QuietBut
<1>5. RunsOutstanding(v)
  <2> SUFFICES ASSUME NEW r \in v.runWaiters, r # ChildOf(t, i).req.run
               PROVE  RunOutstanding(v, r) # {}
    BY DEF RunsOutstanding, Departed
  <2>1. RunOutstanding(t, r) # {}
    BY DEF Departed, Good, RunsOutstanding
  <2>2. i \notin RunOutstanding(t, r)
    BY DEF RunOutstanding
  <2> QED
    BY <1>1, <2>1, <2>2 DEF OthersLeft
<1>6. TicketsDiffer(v)
  BY DEF Departed, Good, TicketsDiffer
<1>7. FitsBut(v, {})
  <2> SUFFICES ASSUME NEW s \in Parents
               PROVE  Cardinality(Running(v, s) \ {}) <= Limit
    BY DEF FitsBut
  <2>1. Running(v, s) \ {} = Running(t, s) \ {i}
    BY <1>1 DEF OthersLeft
  <2> QED
    BY <2>1 DEF Good, FitsBut
<1> QED
  BY <1>2, <1>3, <1>4, <1>5, <1>6, <1>7 DEF Good

\* finish_child and the sweep after it.
\* The record child i leaves: the one its wake displaced, which is given back
\* unless it has aged out, or a new one.
Ended(t, i, out, v) ==
    LET c == ChildOf(t, i)
    IN  \/ /\ c.wakeOf # None /\ v.nextAge = t.nextAge
           /\ IF i \in DOMAIN v.completed THEN v.completed[i].age = c.wakeOf.age
              ELSE Expired(c.wakeOf, t.nextAge)
        \/ /\ v.nextAge = t.nextAge + 1
           /\ i \in DOMAIN v.completed /\ v.completed[i].age = t.nextAge
           /\ v.completed[i].surfaced = Surfaces(t, i, c, out)
           /\ v.completed[i].cancelled = out.cancelled
           /\ c.reply /\ t.callers[i] = "waiting" => v.callers[i] = "result"

LEMMA FinishChildDeparts ==
    ASSUME NEW t \in State, Homed(t), NEW i \in Live(t), NEW out \in Output, Good(t, {i}, {})
    PROVE  \E v \in State :
              /\ Homed(v) /\ Departed(t, i, v) /\ Ended(t, i, out, v)
              /\ FinishChild(t, i, out) =
                    Sweep(ResolveTeardownDrains(v, {ChildOf(t, i).req.parent}))
<1> DEFINE c == ChildOf(t, i)
           u == [t EXCEPT !.pending = Drop(t.pending, {i}), !.active = Drop(t.active, {i}),
                          !.outputs = Drop(t.outputs, {i}),
                          !.parked = {m \in t.parked : m[1] # i}]
           d == [c.wakeOf EXCEPT !.wakeEligible = c.wakeOf.wakeEligible /\ ~c.killed /\ ~c.withdrawn]
           rec == [j \in {i} |-> c]
           rank == [j \in {i} |-> 0]
           filed == Conclude(u, rec, out, rank)
           concluded == ResolveRunWaiters(filed, {c.req.run} \ {None})
           restored == Restore(u, i, d)
           v == IF c.wakeOf # None /\ ~out.success THEN restored ELSE concluded
<1>1. i \in Ids /\ c \in Child /\ i \in Present(t) /\ i \notin DOMAIN t.completed
  BY LiveFacts DEF Present, Homed
<1>2. /\ RequestOf(t, i) = c.req /\ Prior(t, i) = c.wakeOf /\ Owes(t, i) = c.reply
      /\ NotHeard(t, i, c.req) /\ (c.handleOnly /\ c.reply => c.req.bg)
  <2>1. RequestOf(t, i) = c.req /\ Prior(t, i) = c.wakeOf /\ Owes(t, i) = c.reply
    BY DEF RequestOf, Prior, Owes
  <2>2. NotHeard(t, i, RequestOf(t, i))
    BY <1>1 DEF Good, Promised, Unanswered
  <2>3. c.handleOnly /\ c.reply => c.req.bg
    BY DEF Good, Promised, Unanswered
  <2> QED
    BY <2>1, <2>2, <2>3
<1>3. u \in State
  <2>1. Drop(t.pending, {i}) \in MapOf(Child) /\ Drop(t.active, {i}) \in MapOf(Child)
    BY StateFields, DropType
  <2>2. Drop(t.outputs, {i}) \in MapOf(Output)
    BY StateFields, DropType
  <2> QED
    BY <2>1, <2>2 DEF State, StateOver
<1>4. /\ u.queued = t.queued /\ u.completed = t.completed /\ u.graph = t.graph
      /\ u.pending = Drop(t.pending, {i}) /\ u.active = Drop(t.active, {i})
      /\ u.outputs = Drop(t.outputs, {i}) /\ u.parked = {m \in t.parked : m[1] # i}
      /\ u.drains = t.drains /\ u.blocked = t.blocked /\ u.runWaiters = t.runWaiters
      /\ u.waiters = t.waiters /\ u.callers = t.callers /\ u.buffer = t.buffer
      /\ u.nextAge = t.nextAge
  BY DEF State, StateOver
<1>5. /\ DOMAIN u.pending = DOMAIN t.pending \ {i} /\ DOMAIN u.active = DOMAIN t.active \ {i}
      /\ DOMAIN u.outputs = DOMAIN t.outputs \ {i}
      /\ \A j \in DOMAIN u.pending : u.pending[j] = t.pending[j]
      /\ \A j \in DOMAIN u.active : u.active[j] = t.active[j]
  BY <1>4 DEF Drop, Restrict
<1> HIDE DEF u
<1>6. Between(u, i)
  BY <1>4, <1>5 DEF Between, Homed, Known, Live
<1>7. /\ DOMAIN rec = {i} /\ rec[i] = c /\ rec \in MapOf(Child)
      /\ \A j \in DOMAIN rec : rank[j] \in Nat
  BY <1>1, SingletonMap
<1>8. Homed(filed)
  BY <1>1, <1>3, <1>6, ConcludeHomed
<1> HIDE DEF c, rec, rank
<1>9. filed \in State
  BY <1>3, <1>7, ConcludeType
<1>10. /\ filed.queued = u.queued /\ filed.pending = u.pending /\ filed.active = u.active
       /\ filed.graph = u.graph /\ filed.outputs = u.outputs /\ filed.drains = u.drains
       /\ filed.blocked = u.blocked /\ filed.runWaiters = u.runWaiters
       /\ DOMAIN filed.completed = DOMAIN u.completed \cup DOMAIN rec
       /\ \A j \in DOMAIN rec : /\ filed.completed[j].req = rec[j].req
                                /\ filed.completed[j].surfaced = Surfaces(u, j, rec[j], out)
       /\ \A j \in DOMAIN u.completed \ DOMAIN rec : filed.completed[j] = u.completed[j]
       /\ filed.parked = {m \in u.parked : m[1] \notin DOMAIN rec}
       /\ \A j \in Ids : filed.waiters[j] = IF j \in DOMAIN rec THEN "none" ELSE u.waiters[j]
       /\ \A j \in Ids : filed.callers[j] =
             IF j \in DOMAIN rec /\ rec[j].reply /\ u.callers[j] = "waiting"
             THEN "result" ELSE u.callers[j]
       /\ \A b \in filed.buffer :
             b \in u.buffer \/ \E j \in DOMAIN rec : b[1] \in CompletionTarget(u, j, rec[j].req)
  BY <1>3, ConcludeFacts
<1>20. /\ filed.nextAge = t.nextAge + 1 /\ filed.completed[i].age = t.nextAge
       /\ filed.completed[i].cancelled = out.cancelled
  <2> DEFINE new == [j \in DOMAIN rec |-> Terminal(u, j, rec[j], out, u.nextAge + rank[j])]
  <2>1. filed.completed = Merge(u.completed, new)
    BY <1>3 DEF Conclude, State, StateOver
  <2>2. new[i].age = u.nextAge + rank[i] /\ new[i].cancelled = out.cancelled /\ i \in DOMAIN new
    BY <1>7 DEF Terminal
  <2>3. rank[i] = 0 /\ Cardinality(DOMAIN rec) = 1
    BY <1>7, FS_Singleton DEF rank
  <2>4. filed.nextAge = u.nextAge + Cardinality(DOMAIN rec)
    BY <1>3, ConcludeDomains
  <2> HIDE DEF new
  <2>5. filed.completed[i] = new[i]
    BY <2>1, <2>2 DEF Merge
  <2>6. u.nextAge \in Nat
    BY <1>3, StateFields
  <2> QED
    BY <1>4, <2>2, <2>3, <2>4, <2>5, <2>6
<1> HIDE DEF filed
<1>11. concluded \in State /\ Homed(concluded)
  BY <1>8, <1>9, ResolveRunWaitersType, ResolveRunWaitersHomes, SameHomesHomed
<1>12. Departed(t, i, concluded) /\ Ended(t, i, out, concluded)
  <2>1. /\ concluded.nextAge = filed.nextAge /\ concluded.queued = filed.queued /\ concluded.pending = filed.pending
        /\ concluded.active = filed.active /\ concluded.graph = filed.graph
        /\ concluded.outputs = filed.outputs /\ concluded.drains = filed.drains
        /\ concluded.blocked = filed.blocked /\ concluded.completed = filed.completed
        /\ concluded.parked = filed.parked /\ concluded.waiters = filed.waiters
        /\ concluded.callers = filed.callers /\ concluded.buffer = filed.buffer
        /\ concluded.runWaiters =
              filed.runWaiters \ {r \in {c.req.run} \ {None} : RunOutstanding(filed, r) = {}}
    BY <1>9 DEF ResolveRunWaiters, State, StateOver
  <2>2. \A r : RunOutstanding(concluded, r) = RunOutstanding(filed, r)
    BY <2>1 DEF RunOutstanding, Live, ChildOf
  <2> HIDE DEF concluded
  <2>3. /\ concluded.runWaiters \subseteq t.runWaiters
        /\ \A r \in concluded.runWaiters : r # c.req.run \/ RunOutstanding(concluded, r) # {}
    <3>1. \A r \in t.runWaiters : r # None
      BY StateFields, NoneFresh
    <3> QED
      BY <1>4, <1>10, <2>1, <2>2, <3>1
  <2>4. concluded.parked = {m \in t.parked : m[1] # i}
    BY <1>4, <1>7, <1>10, <2>1
  <2>5. \A j \in Ids : concluded.waiters[j] = IF j = i THEN "none" ELSE t.waiters[j]
    BY <1>4, <1>7, <1>10, <2>1
  <2>6. /\ \A j \in Ids \ {i} : concluded.callers[j] = t.callers[j]
        /\ concluded.callers[i] = IF c.reply /\ t.callers[i] = "waiting"
                                  THEN "result" ELSE t.callers[i]
    BY <1>1, <1>4, <1>7, <1>10, <2>1
  <2>7. \A j \in DOMAIN concluded.completed \ {i} :
          j \in DOMAIN t.completed /\ concluded.completed[j] = t.completed[j]
    BY <1>4, <1>7, <1>10, <2>1
  <2>8. /\ concluded.completed[i].req = c.req
        /\ concluded.completed[i].surfaced = Surfaces(u, i, c, out)
    BY <1>7, <1>10, <2>1
  <2>9. Surfaces(u, i, c, out) => NotHeard(concluded, i, c.req)
    BY <1>2, <1>4, <2>6 DEF Surfaces, NotHeard
  <2>10. \A b \in concluded.buffer :
           \/ b \in t.buffer \/ b[1] \in Ids
           \/ c.req.surface /\ c.req.run = None /\ b[1] = c.req.parent
    BY <1>3, <1>4, <1>7, <1>10, <2>1, TargetIs
  <2>11. /\ concluded.queued = t.queued /\ concluded.pending = u.pending
         /\ concluded.active = u.active /\ concluded.graph = t.graph
         /\ concluded.outputs = u.outputs /\ concluded.drains = t.drains
         /\ concluded.blocked = t.blocked
    BY <1>4, <1>10, <2>1
  <2>12. Departed(t, i, concluded)
    BY <1>5, <2>3, <2>4, <2>5, <2>6, <2>7, <2>8, <2>9, <2>10, <2>11 DEF Departed, c
  <2>13. i \in DOMAIN concluded.completed
    BY <1>7, <1>10, <2>1
  <2>14. Surfaces(u, i, c, out) = Surfaces(t, i, c, out)
    BY <1>4 DEF Surfaces
  <2>15. Ended(t, i, out, concluded)
    BY <1>20, <2>1, <2>6, <2>8, <2>13, <2>14 DEF Ended, c
  <2> QED
    BY <2>12, <2>15
<1>13. ASSUME c.wakeOf # None
       PROVE  /\ restored \in State /\ Homed(restored) /\ Departed(t, i, restored)
              /\ Ended(t, i, out, restored)
  <2>1. c.wakeOf \in CompletedChild /\ c.killed \in BOOLEAN /\ c.withdrawn \in BOOLEAN
    BY <1>1, <1>13 DEF Child
  <2>2. /\ d \in CompletedChild /\ d.req = c.wakeOf.req /\ d.surfaced = c.wakeOf.surfaced
        /\ d.age = c.wakeOf.age
    BY <2>1 DEF CompletedChild
  <2>3. /\ c.wakeOf.req.parent = c.req.parent /\ c.req.run = None /\ ~c.reply
        /\ c.wakeOf.surfaced => NotHeard(t, i, c.wakeOf.req)
    BY <1>1, <1>2, <1>13 DEF Good, Promised, WakesGenuine
  <2> HIDE DEF d
  <2>4. restored \in State /\ Homed(restored)
    BY <1>1, <1>3, <1>6, <2>2, RestoreType, RestoreHomed
  <2> DEFINE done == IF Expired(d, u.nextAge) THEN u.completed ELSE Put(u.completed, i, d)
             nodes == IF Expired(d, u.nextAge) THEN Drop(u.graph, {i}) ELSE u.graph
             open == [u.waiters EXCEPT ![i] = "none"]
  <2>5. restored = [u EXCEPT !.completed = done, !.graph = nodes, !.waiters = open]
    BY DEF Restore
  <2>6. /\ \A j \in DOMAIN done \ {i} : j \in DOMAIN u.completed /\ done[j] = u.completed[j]
        /\ i \in DOMAIN done => done[i] = d
        /\ i \notin DOMAIN done => Expired(d, u.nextAge)
    BY <1>1, <1>4 DEF Put
  <2>7. \A j \in DOMAIN nodes : j \in DOMAIN u.graph /\ nodes[j] = u.graph[j]
    BY DEF Drop, Restrict
  <2>8. \A j \in Ids : open[j] = IF j = i THEN "none" ELSE u.waiters[j]
    BY <1>3, StateFields
  <2> HIDE DEF done, nodes, open
  <2>9. /\ restored.queued = u.queued /\ restored.pending = u.pending
        /\ restored.active = u.active /\ restored.graph = nodes
        /\ restored.outputs = u.outputs /\ restored.drains = u.drains
        /\ restored.blocked = u.blocked /\ restored.completed = done
        /\ restored.parked = u.parked /\ restored.waiters = open
        /\ restored.callers = u.callers /\ restored.buffer = u.buffer
        /\ restored.runWaiters = u.runWaiters /\ restored.nextAge = u.nextAge
    BY <1>3, <2>5 DEF State, StateOver
  <2> HIDE DEF restored
  <2>10. \A r \in restored.runWaiters : r # c.req.run
    BY <1>4, <2>3, <2>9, StateFields, NoneFresh
  <2>11. i \in DOMAIN restored.completed =>
           /\ restored.completed[i].req.parent = c.req.parent
           /\ restored.completed[i].surfaced => NotHeard(restored, i, restored.completed[i].req)
    BY <1>4, <2>2, <2>3, <2>6, <2>9 DEF NotHeard
  <2>12. /\ \A j \in DOMAIN restored.completed \ {i} :
               j \in DOMAIN t.completed /\ restored.completed[j] = t.completed[j]
         /\ \A j \in DOMAIN restored.graph : j \in DOMAIN t.graph /\ restored.graph[j] = t.graph[j]
         /\ \A j \in Ids : restored.waiters[j] = IF j = i THEN "none" ELSE t.waiters[j]
    BY <1>4, <2>6, <2>7, <2>8, <2>9
  <2>13. /\ restored.queued = t.queued /\ restored.pending = u.pending
         /\ restored.active = u.active /\ restored.outputs = u.outputs
         /\ restored.drains = t.drains /\ restored.blocked = t.blocked
         /\ restored.parked = {m \in t.parked : m[1] # i}
         /\ restored.callers = t.callers /\ restored.buffer = t.buffer
         /\ restored.runWaiters = t.runWaiters
    BY <1>4, <2>9
  <2>14. Departed(t, i, restored)
    BY <1>5, <2>3, <2>10, <2>11, <2>12, <2>13 DEF Departed, c
  <2>15. Ended(t, i, out, restored)
    BY <1>4, <1>13, <2>2, <2>6, <2>9 DEF Ended, Expired, c
  <2> QED
    BY <2>4, <2>14, <2>15
<1>14. v \in State /\ Homed(v) /\ Departed(t, i, v) /\ Ended(t, i, out, v)
  BY <1>11, <1>12, <1>13
<1>15. FinishChild(t, i, out) = Sweep(ResolveTeardownDrains(v, {c.req.parent}))
  BY DEF FinishChild, u, c, filed, rec, rank
<1> HIDE DEF v
<1> QED
  BY <1>14, <1>15 DEF c

LEMMA FinishChildKept ==
    ASSUME NEW t \in State, Homed(t), NEW i \in Live(t), NEW out \in Output, Good(t, {i}, {})
    PROVE  Kept(FinishChild(t, i, out))
<1> DEFINE s == {ChildOf(t, i).req.parent}
<1>1. PICK v \in State : /\ Homed(v) /\ Departed(t, i, v)
                         /\ FinishChild(t, i, out) = Sweep(ResolveTeardownDrains(v, s))
  BY FinishChildDeparts
<1> DEFINE w == ResolveTeardownDrains(v, s)
<1>2. Good(v, {}, {})
  BY <1>1, DepartedGood
<1>3. w \in State /\ Eased(v, w, {})
  BY <1>1, <1>2, ResolveTeardownDrainsType, ResolveTeardownDrainsEased DEF Good
<1> HIDE DEF w
<1>4. Good(w, {}, {}) /\ Homed(w)
  BY <1>1, <1>2, <1>3, EasedGood
<1>5. Kept(Sweep(w))
  BY <1>3, <1>4, SweepKept
<1> QED
  BY <1>1, <1>5 DEF w

LEMMA GoodBut ==
    ASSUME NEW t \in State, NEW X, NEW Q, Good(t, {}, Q)
    PROVE  Good(t, X, Q)
<1>1. HeldBut(t, X)
  BY DEF Good, HeldBut
<1>2. FitsBut(t, X)
  <2> SUFFICES ASSUME NEW s \in Parents
               PROVE  Cardinality(Running(t, s) \ X) <= Limit
    BY DEF FitsBut
  <2>1. Running(t, s) \ {} = Running(t, s)
    OBVIOUS
  <2>2. Cardinality(Running(t, s)) <= Limit
    BY <2>1 DEF Good, FitsBut
  <2>3. IsFiniteSet(Running(t, s)) /\ Cardinality(Running(t, s)) \in Nat
    BY RunningFinite
  <2>4. Running(t, s) \ X \in SUBSET Running(t, s)
    OBVIOUS
  <2>5. /\ Cardinality(Running(t, s) \ X) <= Cardinality(Running(t, s))
        /\ IsFiniteSet(Running(t, s) \ X)
    BY <2>3, <2>4, FS_Subset
  <2>6. Cardinality(Running(t, s) \ X) \in Nat
    BY <2>5, FS_CardinalityType
  <2> QED
    BY <2>2, <2>3, <2>5, <2>6, LimitPositive
<1> QED
  BY <1>1, <1>2 DEF Good

\* finish_terminalized_child
LEMMA FinishTerminalizedKept ==
    ASSUME NEW t \in State, Homed(t), NEW i \in DOMAIN t.active, NEW out \in Output,
           Good(t, {i}, {})
    PROVE  Kept(FinishTerminalized(t, i, out))
<1> DEFINE c == [t.active[i] EXCEPT !.cancelled = TRUE]
           u == [t EXCEPT !.active[i].cancelled = TRUE]
           fail == [success |-> FALSE, cancelled |-> TRUE]
<1>1. t.active[i] \in Child
  BY StateFields, MapElement
<1>2. c \in Child /\ SofterChild(t.active[i], c, t.callers[i] = "waiting")
      /\ c.wakeOf = t.active[i].wakeOf
  BY <1>1 DEF Child, SofterChild
<1>3. u = [t EXCEPT !.active[i] = c]
  BY DEF State, StateOver
<1>4. fail \in Output /\ i \in Live(t)
  BY DEF Output, Live
<1>5. FinishTerminalized(t, i, out) =
        IF t.active[i].clean THEN FinishChild(t, i, out) ELSE FinishChild(u, i, fail)
  BY DEF FinishTerminalized
<1> HIDE DEF u, c, fail
<1>6. u \in State /\ Eased(t, u, {i})
  <2>1. u \in State
    BY <1>2, <1>3, ActiveUpdateType
  <2>2. QuietBut(t, {}) /\ i \in {i}
    BY DEF Good
  <2>3. Eased(t, u, {i})
    BY <1>2, <1>3, <2>2, ActiveEased
  <2> QED
    BY <2>1, <2>3
<1>7. Good(u, {i}, {}) /\ Homed(u) /\ i \in Live(u)
  BY <1>4, <1>6, EasedGood, EasedPresent DEF Eased
<1> QED
  BY <1>4, <1>5, <1>6, <1>7, FinishChildKept

\* Admissions in flight and withheld outputs agree again.
LEMMA HeldAgain ==
    ASSUME NEW t \in State, NEW u \in State, Homed(t), Kept(t), NEW X, Eased(t, u, X),
           HeldBut(u, {})
    PROVE  Kept(u) /\ Homed(u)
<1>1. Good(t, X, {}) /\ QueueFull(t)
  BY GoodBut DEF Kept
<1>2. Good(u, X, {}) /\ QueueFull(u) /\ Homed(u)
  BY <1>1, EasedGood
<1>3. FitsBut(u, {})
  BY EasedRunning DEF Kept, Good, FitsBut, Eased
<1> QED
  BY <1>2, <1>3 DEF Kept, Good

\* begin_terminalization
LEMMA BeginTerminalizationKept ==
    ASSUME NEW t \in State, Homed(t), Kept(t), NEW i \in Live(t), NEW out \in Output
    PROVE  Kept(BeginTerminalization(t, i, out))
<1>0. Good(t, {i}, {}) /\ QuietBut(t, {})
  BY GoodBut DEF Kept, Good
<1>1. CASE i \notin DOMAIN t.active
  BY <1>0, <1>1, FinishChildKept DEF BeginTerminalization
<1>2. CASE i \in DOMAIN t.active
  <2> DEFINE c == [t.active[i] EXCEPT !.phase = "Finalizing"]
             u == [t EXCEPT !.active[i].phase = "Finalizing"]
             outs == Put(t.outputs, i, out)
             held == [u EXCEPT !.outputs = Put(u.outputs, i, out)]
  <2>1. t.active[i] \in Child
    BY <1>2, StateFields, MapElement
  <2>2. /\ c \in Child /\ SofterChild(t.active[i], c, t.callers[i] = "waiting")
        /\ c.wakeOf = t.active[i].wakeOf /\ c.phase = "Finalizing"
        /\ c.inFlight = t.active[i].inFlight /\ c.inFlight \in Nat
    BY <2>1 DEF Child, SofterChild
  <2>3. u = [t EXCEPT !.active[i] = c]
    BY <1>2 DEF State, StateOver
  <2>4. BeginTerminalization(t, i, out) =
          IF t.active[i].inFlight = 0 THEN FinishTerminalized(u, i, out) ELSE held
    BY <1>2 DEF BeginTerminalization
  <2> HIDE DEF u, c
  <2>5. u \in State /\ Eased(t, u, {})
    <3>1. u \in State
      BY <1>2, <2>2, <2>3, ActiveUpdateType
    <3>2. Eased(t, u, {})
      BY <1>0, <1>2, <2>2, <2>3, ActiveEased
    <3> QED
      BY <3>1, <3>2
  <2>6. Good(u, {}, {}) /\ QueueFull(u) /\ Homed(u) /\ i \in DOMAIN u.active
    BY <1>2, <2>5, EasedGood DEF Kept, Eased, SameHomes
  <2>7. CASE t.active[i].inFlight = 0
    BY <2>4, <2>5, <2>6, <2>7, GoodBut, FinishTerminalizedKept
  <2>8. CASE t.active[i].inFlight # 0
    <3>1. u.active[i] = c
      BY <1>2, <2>3, StateFields, MapOfDef DEF IsMap, State, StateOver
    <3>2. Put(u.outputs, i, out) \in MapOf(Output)
          /\ DOMAIN Put(u.outputs, i, out) = DOMAIN u.outputs \cup {i}
      <4>1. i \in Ids /\ u.outputs \in MapOf(Output)
        BY <1>2, <2>5, DomainFacts, StateFields
      <4>2. Put(u.outputs, i, out) \in MapOf(Output)
        BY <4>1, PutType
      <4>3. DOMAIN Put(u.outputs, i, out) = DOMAIN u.outputs \cup {i}
        BY DEF Put
      <4> QED
        BY <4>2, <4>3
    <3>3. held \in State
          /\ held.queued = u.queued /\ held.pending = u.pending /\ held.active = u.active
          /\ held.completed = u.completed /\ held.graph = u.graph /\ held.callers = u.callers
          /\ held.waiters = u.waiters /\ held.parked = u.parked
          /\ held.drains = u.drains /\ held.blocked = u.blocked /\ held.buffer = u.buffer
          /\ held.runWaiters = u.runWaiters /\ held.outputs = Put(u.outputs, i, out)
      BY <2>5, <3>2 DEF State, StateOver
    <3> HIDE DEF held
    <3>4. SofterRest(u, held, {i})
      BY <2>6, <3>2, <3>3 DEF SofterRest, Good, QuietBut
    <3>5. Eased(u, held, {i})
      BY <2>5, <3>3, <3>4, EasedSameMaps
    <3>6. HeldBut(held, {})
      BY <2>2, <2>6, <2>8, <3>1, <3>2, <3>3 DEF Good, HeldBut
    <3>7. Kept(u)
      BY <2>6 DEF Kept
    <3> QED
      BY <2>4, <2>5, <2>6, <2>8, <3>3, <3>5, <3>6, <3>7, HeldAgain
  <2> QED
    BY <2>7, <2>8
<1> QED
  BY <1>1, <1>2

-----------------------------------------------------------------------------
(* Messages to active children *)

\* One active child changes, softly.
LEMMA ActiveKept ==
    ASSUME NEW t \in State, Homed(t), Kept(t), NEW i \in DOMAIN t.active,
           NEW c \in Child, SofterChild(t.active[i], c, t.callers[i] = "waiting"),
           \/ c.wakeOf = t.active[i].wakeOf
           \/ \A m \in t.parked : m[1] # i,
           t.active[i].phase = "Finalizing" => c.phase = "Finalizing",
           t.active[i].inFlight > 0 => c.inFlight > 0
    PROVE  Kept([t EXCEPT !.active[i] = c])
<1> DEFINE u == [t EXCEPT !.active[i] = c]
<1>1. u \in State
  BY ActiveUpdateType
<1>2. Eased(t, u, {})
  BY ActiveEased DEF Kept, Good
<1> HIDE DEF u
<1>3. Kept(u)
  BY <1>1, <1>2, EasedGood DEF Kept
<1> QED
  BY <1>3 DEF u

LEMMA AdmitMessageKept ==
    ASSUME NEW t \in State, Homed(t), Kept(t), NEW i \in DOMAIN t.active
    PROVE  Kept(AdmitMessage(t, i))
<1> DEFINE c == [t.active[i] EXCEPT !.inFlight = t.active[i].inFlight + 1]
           u == [t EXCEPT !.active[i].inFlight = t.active[i].inFlight + 1]
<1>1. t.active[i] \in Child
  BY StateFields, MapElement
<1>2. t.active[i].inFlight \in Nat
  BY <1>1 DEF Child
<1>3. /\ c \in Child /\ SofterChild(t.active[i], c, t.callers[i] = "waiting")
      /\ c.wakeOf = t.active[i].wakeOf /\ c.phase = t.active[i].phase
      /\ c.inFlight = t.active[i].inFlight + 1
  BY <1>1, <1>2 DEF Child, SofterChild
<1>4. u = [t EXCEPT !.active[i] = c]
  BY DEF State, StateOver
<1>5. AdmitMessage(t, i) \in {t, u}
  BY DEF AdmitMessage
<1> HIDE DEF u, c
<1>6. c.inFlight > 0
  BY <1>2, <1>3
<1>7. Kept([t EXCEPT !.active[i] = c])
  BY <1>3, <1>6, ActiveKept
<1> QED
  BY <1>4, <1>5, <1>7

\* Once the messages parked on i are taken, what they waited for may go.
LEMMA AdmitParkedKept ==
    ASSUME NEW t \in State, Homed(t), NEW i \in DOMAIN t.active,
           Kept([t EXCEPT !.parked = {m \in t.parked : m[1] # i}])
    PROVE  Kept(AdmitParked(t, i))
<1> DEFINE u == [t EXCEPT !.parked = {m \in t.parked : m[1] # i}]
<1>1. u \in State /\ u.active = t.active /\ SameHomes(t, u)
  BY DEF State, StateOver, SameHomes
<1>2. AdmitParked(t, i) = IF <<i, TRUE>> \in t.parked THEN AdmitMessage(u, i) ELSE u
  BY DEF AdmitParked
<1>3. Kept(u)
  OBVIOUS
<1> HIDE DEF u
<1>4. Homed(u)
  BY <1>1, SameHomesHomed
<1> QED
  BY <1>1, <1>2, <1>3, <1>4, AdmitMessageKept

-----------------------------------------------------------------------------
(* Steps that touch neither the queue nor the live children *)

SameLive(t, u) ==
    /\ u.queued = t.queued /\ u.pending = t.pending /\ u.active = t.active
    /\ u.outputs = t.outputs /\ u.drains = t.drains /\ u.blocked = t.blocked
    /\ u.buffer = t.buffer /\ u.runWaiters = t.runWaiters

LEMMA SameLiveViews ==
    ASSUME NEW t, NEW u, SameLive(t, u)
    PROVE  /\ Present(u) = Present(t) /\ Live(u) = Live(t)
           /\ \A i : ChildOf(u, i) = ChildOf(t, i) /\ Owes(u, i) = Owes(t, i)
                     /\ Prior(u, i) = Prior(t, i)
           /\ \A i \in Present(t) : RequestOf(u, i) = RequestOf(t, i)
<1>1. u.queued = t.queued /\ u.pending = t.pending /\ u.active = t.active
  BY DEF SameLive
<1>2. Live(u) = Live(t) /\ Present(u) = Present(t) /\ \A i : ChildOf(u, i) = ChildOf(t, i)
  BY <1>1 DEF Live, Present, ChildOf
<1>3. \A i \in Present(t) : RequestOf(u, i) = RequestOf(t, i)
  BY <1>1, <1>2 DEF RequestOf, Present
<1>4. \A i : Prior(u, i) = Prior(t, i) /\ Owes(u, i) = Owes(t, i)
  BY <1>1, <1>2 DEF Prior, Owes
<1> QED
  BY <1>2, <1>3, <1>4

LEMMA SameLiveKept ==
    ASSUME NEW t, NEW u, SameLive(t, u), Kept(t), Promised(u)
    PROVE  Kept(u)
<1>1. /\ Present(u) = Present(t) /\ Live(u) = Live(t) /\ \A i : ChildOf(u, i) = ChildOf(t, i)
      /\ \A i \in Present(t) : RequestOf(u, i) = RequestOf(t, i)
  BY SameLiveViews
<1>2. \A s : Running(u, s) = Running(t, s) /\ RunOutstanding(u, s) = RunOutstanding(t, s)
  BY <1>1 DEF Running, RunOutstanding
<1>3. HeldBut(u, {}) /\ TicketsDiffer(u)
  BY DEF SameLive, Kept, Good, HeldBut, TicketsDiffer
<1>4. QuietBut(u, {})
  BY <1>1 DEF SameLive, Kept, Good, QuietBut, Muted
<1>5. RunsOutstanding(u) /\ FitsBut(u, {})
  BY <1>2 DEF SameLive, Kept, Good, RunsOutstanding, FitsBut
<1>6. QueueFull(u)
  BY <1>2 DEF SameLive, Kept, QueueFull, HasCapacity
<1> QED
  BY <1>3, <1>4, <1>5, <1>6 DEF Kept, Good

\* Callers, waiters and parked messages are at most those of t, and so are
\* the records and nodes.
LEMMA SameLiveOnward ==
    ASSUME NEW t \in State, NEW u \in State, Homed(t), Homed(u), SameLive(t, u), Kept(t),
           \A i \in Ids : u.callers[i] = "waiting" => t.callers[i] = "waiting",
           \A i \in Ids : u.callers[i] = "result" => t.callers[i] = "result" \/ i \notin Known(t),
           \A i \in Ids : u.waiters[i] # "none" => t.waiters[i] # "none",
           u.parked \subseteq t.parked,
           \A i \in DOMAIN u.completed :
               /\ i \in DOMAIN t.completed /\ u.completed[i].req = t.completed[i].req
               /\ u.completed[i].surfaced = t.completed[i].surfaced,
           \A i \in DOMAIN u.graph : i \in DOMAIN t.graph /\ u.graph[i] = t.graph[i]
    PROVE  Kept(u)
<1>1. /\ Present(u) = Present(t) /\ Live(u) = Live(t)
      /\ \A i : ChildOf(u, i) = ChildOf(t, i) /\ Owes(u, i) = Owes(t, i)
                /\ Prior(u, i) = Prior(t, i)
      /\ \A i \in Present(t) : RequestOf(u, i) = RequestOf(t, i)
  BY SameLiveViews
<1>2. u.queued = t.queued /\ u.active = t.active /\ Promised(t)
  BY DEF SameLive, Kept, Good
<1>3. Present(t) \in SUBSET Ids /\ DOMAIN t.completed \in SUBSET Ids
      /\ Present(t) \in SUBSET Known(t) /\ DOMAIN t.completed \in SUBSET Known(t)
  BY DomainFacts DEF Present, Live, Known
<1>4. ChildrenOnward(t, u)
  BY <1>1, <1>2 DEF ChildrenOnward
<1>5. WaitingOnward(t, u)
  <2>1. \A i \in Ids : u.waiters[i] # "none" => i \in Present(u)
    BY <1>1, <1>2 DEF Promised, WaitersOwed
  <2>2. \A m \in u.parked : m \in t.parked /\ m[1] \in Present(u)
    BY <1>1, <1>2 DEF Promised, ParkedOwed
  <2>3. \A i \in Present(u) : u.callers[i] = "result" => t.callers[i] = "result"
    BY <1>1, <1>3
  <2> QED
    BY <1>1, <1>2, <2>1, <2>2, <2>3 DEF WaitingOnward
<1>6. RecordsOnward(t, u)
  BY <1>3 DEF RecordsOnward
<1>7. Promised(u)
  BY <1>2, <1>4, <1>5, <1>6, OnwardPromised DEF Onward
<1> QED
  BY <1>7, SameLiveKept

\* The loop's tail forgets old records and drain waiters.
LEMMA LoopTailKept ==
    ASSUME NEW t \in State, Homed(t), Kept(t)
    PROVE  /\ Kept(LoopTail(t))
           /\ \A w \in LoopTail(t).drainWaiters : TurnBlocking(LoopTail(t), w) # {}
<1> DEFINE old == Oldest(t)
           waiters == {w \in t.drainWaiters : TurnBlocking(t, w) # {}}
           u == [t EXCEPT !.drainWaiters = waiters, !.completed = Drop(t.completed, old),
                          !.wakes = t.wakes \ old, !.graph = Drop(t.graph, old)]
<1>1. LoopTail(t) = u
  BY DEF LoopTail
<1>2. u \in State /\ Homed(u)
  BY <1>1, LoopTailType, LoopTailHomed
<1>3. \A w \in waiters : TurnBlocking(t, w) # {}
  OBVIOUS
<1> HIDE DEF old, waiters
<1>4. /\ SameLive(t, u) /\ u.callers = t.callers /\ u.waiters = t.waiters
      /\ u.parked = t.parked /\ u.completed = Drop(t.completed, old)
      /\ u.graph = Drop(t.graph, old) /\ u.drainWaiters = waiters
  BY DEF State, StateOver, SameLive
<1> HIDE DEF u
<1>5. /\ \A i \in DOMAIN u.completed : i \in DOMAIN t.completed /\ u.completed[i] = t.completed[i]
      /\ \A i \in DOMAIN u.graph : i \in DOMAIN t.graph /\ u.graph[i] = t.graph[i]
  BY <1>4 DEF Drop, Restrict
<1>6. Kept(u)
  BY <1>2, <1>4, <1>5, SameLiveOnward
<1>7. \A w : TurnBlocking(u, w) = TurnBlocking(t, w)
  BY <1>4 DEF TurnBlocking, SameLive
<1> QED
  BY <1>1, <1>3, <1>4, <1>6, <1>7

\* A refused spawn leaves its caller an answer and nothing else.
LEMMA RejectSpawnKept ==
    ASSUME NEW t \in State, Homed(t), Kept(t), NEW i \in Ids, i \notin Known(t)
    PROVE  Kept(RejectSpawn(t, i))
<1> DEFINE u == [t EXCEPT !.callers[i] = "result"]
<1>1. u \in State
  BY CallerType DEF CallerView
<1>2. /\ SameLive(t, u) /\ u.completed = t.completed /\ u.graph = t.graph
      /\ u.waiters = t.waiters /\ u.parked = t.parked
      /\ \A j \in Ids : u.callers[j] = IF j = i THEN "result" ELSE t.callers[j]
  BY StateFields DEF State, StateOver, SameLive
<1> HIDE DEF u
<1>3. Homed(u)
  BY <1>2 DEF Homed, Known, Live, SameLive
<1>4. Kept(u)
  BY <1>1, <1>2, <1>3, SameLiveOnward
<1> QED
  BY <1>4 DEF RejectSpawn, u

\* A blocking query parks on a task child that is still to finish.
LEMMA QueryKept ==
    ASSUME NEW t \in State, Homed(t), Kept(t), NEW i \in Present(t), RequestOf(t, i).run = None
    PROVE  Kept([t EXCEPT !.waiters[i] = "open"])
<1> DEFINE u == [t EXCEPT !.waiters[i] = "open"]
<1>0. i \in Ids
  BY DomainFacts DEF Present, Live
<1>1. /\ SameLive(t, u) /\ u.completed = t.completed /\ u.graph = t.graph
      /\ u.callers = t.callers /\ u.parked = t.parked
      /\ \A j \in Ids : u.waiters[j] = IF j = i THEN "open" ELSE t.waiters[j]
  BY <1>0, StateFields DEF State, StateOver, SameLive
<1> HIDE DEF u
<1>2. /\ Present(u) = Present(t) /\ Live(u) = Live(t)
      /\ \A j : ChildOf(u, j) = ChildOf(t, j) /\ Owes(u, j) = Owes(t, j)
                /\ Prior(u, j) = Prior(t, j)
      /\ \A j \in Present(t) : RequestOf(u, j) = RequestOf(t, j)
  BY <1>1, SameLiveViews
<1>3. \A j : RequestOf(u, j) = RequestOf(t, j)
  BY <1>1, <1>2 DEF RequestOf, SameLive
<1>4. Promised(t) /\ u.queued = t.queued /\ u.active = t.active
  BY <1>1 DEF Kept, Good, SameLive
<1>5. CallersOwed(u) /\ WaitersOwed(u)
  BY <1>1, <1>2, <1>3, <1>4 DEF Promised, CallersOwed, WaitersOwed
<1>6. ParkedOwed(u) /\ Delivered(u)
  BY <1>1, <1>2, <1>4 DEF Promised, ParkedOwed, Delivered, NotHeard
<1>7. Owned(u) /\ WakesGenuine(u)
  BY <1>1, <1>2, <1>3, <1>4 DEF Promised, Owned, WakesGenuine, NotHeard
<1>8. Unanswered(u) /\ QueueOfTasks(u)
  BY <1>1, <1>2, <1>4 DEF Promised, Unanswered, QueueOfTasks, NotHeard
<1>9. Kept(u)
  BY <1>1, <1>5, <1>6, <1>7, <1>8, SameLiveKept DEF Promised
<1> QED
  BY <1>9 DEF u

\* A message parks on a child that is still to start.
LEMMA ParkKept ==
    ASSUME NEW t \in State, Homed(t), Kept(t), NEW i \in DOMAIN t.pending \cup DOMAIN t.queued,
           NEW x \in BOOLEAN
    PROVE  Kept([t EXCEPT !.parked = t.parked \cup {<<i, x>>}])
<1> DEFINE u == [t EXCEPT !.parked = t.parked \cup {<<i, x>>}]
<1>1. /\ SameLive(t, u) /\ u.completed = t.completed /\ u.graph = t.graph
      /\ u.callers = t.callers /\ u.waiters = t.waiters
      /\ u.parked = t.parked \cup {<<i, x>>}
  BY DEF State, StateOver, SameLive
<1> HIDE DEF u
<1>2. /\ Present(u) = Present(t) /\ Live(u) = Live(t)
      /\ \A j : ChildOf(u, j) = ChildOf(t, j) /\ Owes(u, j) = Owes(t, j)
                /\ Prior(u, j) = Prior(t, j)
      /\ \A j \in Present(t) : RequestOf(u, j) = RequestOf(t, j)
  BY <1>1, SameLiveViews
<1>3. \A j : RequestOf(u, j) = RequestOf(t, j)
  BY <1>1, <1>2 DEF RequestOf, SameLive
<1>4. Promised(t) /\ u.queued = t.queued /\ u.active = t.active
  BY <1>1 DEF Kept, Good, SameLive
<1>5. CallersOwed(u) /\ WaitersOwed(u)
  BY <1>1, <1>2, <1>3, <1>4 DEF Promised, CallersOwed, WaitersOwed
<1>6. ParkedOwed(u) /\ Delivered(u)
  <2>1. i \in Present(t) /\ i \notin DOMAIN t.active
    BY DEF Homed, Present, Live
  <2>2. ParkedOwed(u)
    BY <1>1, <1>2, <1>4, <2>1 DEF Promised, ParkedOwed
  <2> QED
    BY <1>1, <1>4, <2>2 DEF Promised, Delivered, NotHeard
<1>7. Owned(u) /\ WakesGenuine(u)
  BY <1>1, <1>2, <1>3, <1>4 DEF Promised, Owned, WakesGenuine, NotHeard
<1>8. Unanswered(u) /\ QueueOfTasks(u)
  BY <1>1, <1>2, <1>4 DEF Promised, Unanswered, QueueOfTasks, NotHeard
<1>9. Kept(u)
  BY <1>1, <1>5, <1>6, <1>7, <1>8, SameLiveKept DEF Promised
<1> QED
  BY <1>9 DEF u

-----------------------------------------------------------------------------
(* A child arrives: a spawn, or a wake of a completed one *)

\* What i brings along in w keeps the promises.
Fair(t, i, w) ==
    LET r == RequestOf(w, i)
        d == Prior(w, i)
    IN  /\ w.callers[i] = "waiting" => Owes(w, i)
        /\ NotHeard(w, i, r)
        /\ d # None => /\ d.req.parent = r.parent /\ d.req.run = None
                       /\ r.run = None /\ r.bg /\ ~Owes(w, i)
                       /\ d.surfaced => NotHeard(w, i, d.req)
        /\ r.surface /\ r.run = None => r.parent \notin t.blocked
        /\ i \in DOMAIN w.graph =>
              /\ w.graph[i].root = r.parent
              /\ w.graph[i].spawner # None => w.graph[i].spawner \in w.graph[i].chain

\* Everything else is as it was in t.
Joined(t, i, w) ==
    /\ i \notin Present(t)
    /\ w.active = t.active /\ w.waiters = t.waiters /\ w.outputs = t.outputs
    /\ w.drains = t.drains /\ w.blocked = t.blocked /\ w.buffer = t.buffer
    /\ w.runWaiters = t.runWaiters
    /\ \A j \in Ids \ {i} : w.callers[j] = t.callers[j]
    /\ \A m \in w.parked : m \in t.parked \/ m[1] = i
    /\ \A j \in DOMAIN w.completed :
          j # i /\ j \in DOMAIN t.completed /\ w.completed[j] = t.completed[j]
    /\ \A j \in DOMAIN w.graph \ {i} : j \in DOMAIN t.graph /\ w.graph[j] = t.graph[j]

JoinsPending(t, i, w) ==
    /\ w.queued = t.queued
    /\ DOMAIN w.pending = DOMAIN t.pending \cup {i}
    /\ \A j \in DOMAIN t.pending : w.pending[j] = t.pending[j]
    /\ w.pending[i].handleOnly /\ w.pending[i].reply => w.pending[i].req.bg

JoinsQueue(t, i, w) ==
    /\ w.pending = t.pending
    /\ DOMAIN w.queued = DOMAIN t.queued \cup {i}
    /\ \A j \in DOMAIN t.queued : w.queued[j] = t.queued[j]
    /\ \A j \in DOMAIN t.queued : w.queued[i].ticket # t.queued[j].ticket
    /\ w.queued[i].req.run = None /\ ~w.queued[i].cancelled
    /\ w.queued[i].req.parent \notin t.blocked
    /\ ~HasCapacity(t, w.queued[i].req.parent)

JoinedViews(t, i, w) ==
    /\ Present(w) = Present(t) \cup {i}
    /\ Live(t) \subseteq Live(w) /\ Live(w) \subseteq Live(t) \cup {i}
    /\ \A j \in Live(t) : ChildOf(w, j) = ChildOf(t, j)
    /\ \A j \in Present(t) : /\ RequestOf(w, j) = RequestOf(t, j)
                             /\ Prior(w, j) = Prior(t, j) /\ Owes(w, j) = Owes(t, j)

LEMMA JoinedIs ==
    ASSUME NEW t \in State, Homed(t), NEW i \in Ids, NEW w, Joined(t, i, w),
           JoinsPending(t, i, w) \/ JoinsQueue(t, i, w)
    PROVE  JoinedViews(t, i, w)
<1>1. i \notin Present(t) /\ w.active = t.active
  BY DEF Joined
<1>2. DOMAIN t.pending \cap DOMAIN t.active = {} /\ DOMAIN t.queued \cap Live(t) = {}
  BY DEF Homed
<1>3. /\ Present(w) = Present(t) \cup {i}
      /\ Live(t) \subseteq Live(w) /\ Live(w) \subseteq Live(t) \cup {i}
  BY <1>1 DEF JoinsPending, JoinsQueue, Present, Live
<1>4. \A j \in Live(t) : ChildOf(w, j) = ChildOf(t, j)
  BY <1>1, <1>2 DEF JoinsPending, JoinsQueue, ChildOf, Live
<1>5. \A j \in Present(t) \ Live(t) : /\ j \in DOMAIN t.queued /\ j \in DOMAIN w.queued
                                      /\ w.queued[j] = t.queued[j] /\ j \notin Live(w)
  BY <1>1, <1>3 DEF JoinsPending, JoinsQueue, Present
<1>6. ASSUME NEW j \in Present(t)
      PROVE  /\ RequestOf(w, j) = RequestOf(t, j)
             /\ Prior(w, j) = Prior(t, j) /\ Owes(w, j) = Owes(t, j)
  <2>1. CASE j \in Live(t)
    BY <1>3, <1>4, <2>1 DEF RequestOf, Prior, Owes
  <2>2. CASE j \notin Live(t)
    BY <1>5, <2>2 DEF RequestOf, Prior, Owes
  <2> QED
    BY <2>1, <2>2
<1> QED
  BY <1>3, <1>4, <1>6 DEF JoinedViews

LEMMA JoinedPromised ==
    ASSUME NEW t \in State, Homed(t), Promised(t), NEW i \in Ids, NEW w, Homed(w),
           Joined(t, i, w), Fair(t, i, w), JoinsPending(t, i, w) \/ JoinsQueue(t, i, w)
    PROVE  Promised(w)
<1>1. JoinedViews(t, i, w)
  BY JoinedIs
<1>2. /\ Present(w) = Present(t) \cup {i} /\ i \notin Present(t)
      /\ Live(t) \subseteq Live(w) /\ Live(w) \subseteq Live(t) \cup {i}
      /\ \A j \in Live(t) : ChildOf(w, j) = ChildOf(t, j)
      /\ \A j \in Present(t) : /\ RequestOf(w, j) = RequestOf(t, j)
                               /\ Prior(w, j) = Prior(t, j) /\ Owes(w, j) = Owes(t, j)
  BY <1>1 DEF JoinedViews, Joined
<1>3. Present(t) \in SUBSET Ids /\ DOMAIN t.completed \in SUBSET Ids
      /\ i \notin DOMAIN t.active
  BY <1>2, DomainFacts DEF Present, Live
<1>4. CallersOwed(w)
  BY <1>2 DEF CallersOwed, Promised, Joined, Fair
<1>5. WaitersOwed(w)
  BY <1>2 DEF WaitersOwed, Promised, Joined
<1>6. ParkedOwed(w)
  BY <1>2, <1>3 DEF ParkedOwed, Promised, Joined
<1>7. Delivered(w)
  BY <1>3 DEF Delivered, Promised, Joined, NotHeard
<1>8. Owned(w)
  <2> SUFFICES ASSUME NEW j \in DOMAIN w.graph, j # i
               PROVE  RequestOf(w, j) = RequestOf(t, j) /\ w.graph[j] = t.graph[j] /\ j \in DOMAIN t.graph
    BY DEF Owned, Promised, Fair
  <2>1. j \in DOMAIN t.graph /\ w.graph[j] = t.graph[j]
    BY DEF Joined
  <2>2. CASE j \in Present(t)
    BY <1>2, <2>1, <2>2
  <2>3. CASE j \notin Present(t)
    <3>1. j \notin Present(w)
      BY <1>2, <2>3
    <3>2. /\ j \in DOMAIN w.completed
          /\ RequestOf(w, j) = w.completed[j].req /\ RequestOf(t, j) = t.completed[j].req
      BY <2>3, <3>1 DEF Homed, Known, Present, RequestOf
    <3> QED
      BY <2>1, <3>2 DEF Joined
  <2> QED
    BY <2>2, <2>3
<1>9. WakesGenuine(w)
  <2> SUFFICES ASSUME NEW j \in Present(t), Prior(w, j) # None
               PROVE  LET d == Prior(w, j)
                          r == RequestOf(w, j)
                      IN  /\ d.req.parent = r.parent /\ d.req.run = None
                          /\ r.run = None /\ r.bg /\ ~Owes(w, j)
                          /\ d.surfaced => NotHeard(w, j, d.req)
    BY <1>2 DEF WakesGenuine, Fair
  <2>1. w.callers[j] = t.callers[j]
    BY <1>2, <1>3 DEF Joined
  <2> QED
    BY <1>2, <2>1 DEF Promised, WakesGenuine, NotHeard
<1>10. Unanswered(w)
  <2>1. \A j \in Present(w) : NotHeard(w, j, RequestOf(w, j))
    <3>1. \A j \in Present(t) : w.callers[j] = t.callers[j]
      BY <1>2, <1>3 DEF Joined
    <3> QED
      BY <1>2, <3>1 DEF Unanswered, Promised, Fair, NotHeard
  <2>2. ASSUME NEW j \in Live(w), ChildOf(w, j).handleOnly /\ ChildOf(w, j).reply
        PROVE  ChildOf(w, j).req.bg
    <3>1. CASE j \in Live(t)
      BY <1>2, <2>2, <3>1 DEF Promised, Unanswered
    <3>2. CASE j \notin Live(t)
      <4>1. j = i /\ i \notin DOMAIN w.active
        BY <1>2, <1>3, <3>2 DEF Joined
      <4>2. JoinsPending(t, i, w)
        BY <1>2, <4>1 DEF JoinsQueue, Live, Joined, Present
      <4> QED
        BY <2>2, <4>1, <4>2 DEF JoinsPending, ChildOf
    <3> QED
      BY <3>1, <3>2
  <2> QED
    BY <2>1, <2>2 DEF Unanswered
<1>11. QueueOfTasks(w)
  BY DEF QueueOfTasks, Promised, JoinsPending, JoinsQueue
<1> QED
  BY <1>4, <1>5, <1>6, <1>7, <1>8, <1>9, <1>10, <1>11 DEF Promised

LEMMA JoinedGood ==
    ASSUME NEW t \in State, Homed(t), Kept(t), NEW i \in Ids, NEW w \in State, Homed(w),
           Joined(t, i, w), Fair(t, i, w), JoinsPending(t, i, w) \/ JoinsQueue(t, i, w)
    PROVE  Good(w, {i}, {})
<1>1. JoinedViews(t, i, w)
  BY JoinedIs
<1>2. Promised(w)
  BY JoinedPromised DEF Kept, Good
<1>3. HeldBut(w, {i})
  BY DEF HeldBut, Kept, Good, Joined
<1>4. QuietBut(w, {})
  <2>1. /\ w.drains = t.drains /\ w.blocked = t.blocked /\ w.buffer = t.buffer
        /\ t.drains \subseteq t.blocked
    BY DEF Joined, Kept, Good, QuietBut
  <2>2. \A j \in DOMAIN w.queued : w.queued[j].req.parent \notin w.blocked
    BY <2>1 DEF JoinsPending, JoinsQueue, Kept, Good, QuietBut
  <2>3. Muted(w, w.drains)
    BY <1>1, <2>1 DEF Kept, Good, QuietBut, Muted, JoinedViews, Fair
  <2> QED
    BY <2>1, <2>2, <2>3 DEF Kept, Good, QuietBut
<1>5. RunsOutstanding(w)
  <2>1. \A r : RunOutstanding(t, r) \subseteq RunOutstanding(w, r)
    BY <1>1 DEF RunOutstanding, JoinedViews
  <2> QED
    BY <2>1 DEF Kept, Good, RunsOutstanding, Joined
<1>6. TicketsDiffer(w)
  <2>1. CASE JoinsPending(t, i, w)
    BY <2>1 DEF TicketsDiffer, JoinsPending, Kept, Good
  <2>2. CASE JoinsQueue(t, i, w)
    BY <2>2 DEF TicketsDiffer, JoinsQueue, Kept, Good
  <2> QED
    BY <2>1, <2>2
<1>7. FitsBut(w, {i})
  <2> SUFFICES ASSUME NEW s \in Parents
               PROVE  Cardinality(Running(w, s) \ {i}) <= Limit
    BY DEF FitsBut
  <2>1. i \notin Live(t)
    BY DEF Joined, Present
  <2>2. Running(w, s) \ {i} = Running(t, s) \ {}
    BY <1>1, <2>1 DEF Running, JoinedViews
  <2> QED
    BY <2>2 DEF Kept, Good, FitsBut
<1> QED
  BY <1>2, <1>3, <1>4, <1>5, <1>6, <1>7 DEF Good

LEMMA JoinedKept ==
    ASSUME NEW t \in State, Homed(t), Kept(t), NEW i \in Ids, NEW w \in State, Homed(w),
           Joined(t, i, w), Fair(t, i, w),
           \/ /\ JoinsPending(t, i, w)
              /\ w.pending[i].req.run = None => HasCapacity(t, w.pending[i].req.parent)
           \/ JoinsQueue(t, i, w)
    PROVE  Kept(w)
<1>1. JoinedViews(t, i, w)
  BY JoinedIs
<1>2. Good(w, {i}, {})
  BY JoinedGood
<1>3. i \notin Live(t) /\ i \notin DOMAIN w.active
  BY DEF Joined, Present, Live
<1>4. ASSUME NEW s \in Parents
      PROVE  Cardinality(Running(t, s)) <= Limit
  <2>1. Running(t, s) \ {} = Running(t, s)
    OBVIOUS
  <2> QED
    BY <2>1 DEF Kept, Good, FitsBut
<1>5. \A s : Running(t, s) \in SUBSET Running(w, s)
  BY <1>1 DEF Running, JoinedViews
<1>6. ASSUME NEW s \in Parents
      PROVE  Cardinality(Running(w, s) \ {}) <= Limit
  <2>0. Running(w, s) \ {} = Running(w, s)
    OBVIOUS
  <2>1. CASE Running(w, s) = Running(t, s)
    BY <1>4, <2>0, <2>1
  <2>2. CASE Running(w, s) # Running(t, s)
    <3>1. i \in Running(w, s) /\ Running(w, s) = Running(t, s) \cup {i} /\ i \notin Running(t, s)
      BY <1>1, <1>3, <2>2 DEF Running, JoinedViews
    <3>2. i \in Live(w) /\ ChildOf(w, i).req.parent = s /\ ChildOf(w, i).req.run = None
      BY <3>1 DEF Running
    <3>3. ~JoinsQueue(t, i, w)
      BY <1>3, <3>2 DEF JoinsQueue, Live, Joined
    <3>4. ChildOf(w, i) = w.pending[i]
      BY <1>3 DEF ChildOf
    <3>5. HasCapacity(t, s)
      BY <3>2, <3>3, <3>4
    <3>6. IsFiniteSet(Running(t, s)) /\ Cardinality(Running(t, s)) \in Nat
      BY RunningFinite
    <3>7. Cardinality(Running(w, s)) = Cardinality(Running(t, s)) + 1
      BY <3>1, <3>6, FS_AddElement
    <3> QED
      BY <2>0, <3>5, <3>6, <3>7, LimitPositive DEF HasCapacity
  <2> QED
    BY <2>1, <2>2
<1>7. \A s : ~HasCapacity(t, s) => ~HasCapacity(w, s)
  <2> SUFFICES ASSUME NEW s
               PROVE  Cardinality(Running(w, s)) >= Cardinality(Running(t, s))
    BY RunningFinite, LimitPositive DEF HasCapacity
  <2>1. IsFiniteSet(Running(w, s)) /\ Cardinality(Running(w, s)) \in Nat
        /\ Cardinality(Running(t, s)) \in Nat
    BY RunningFinite
  <2>2. Cardinality(Running(t, s)) <= Cardinality(Running(w, s))
    BY <1>5, <2>1, FS_Subset
  <2> QED
    BY <2>1, <2>2
<1>8. QueueFull(w)
  BY <1>7 DEF QueueFull, Kept, JoinsPending, JoinsQueue
<1>9. HeldBut(w, {})
  BY DEF HeldBut, Kept, Good, Joined
<1>10. FitsBut(w, {})
  BY <1>6 DEF FitsBut
<1> QED
  BY <1>2, <1>8, <1>9, <1>10 DEF Kept, Good

\* Child i is to hold request r, prior record d and, if owes, its caller.
FairFor(t, i, u, r, d, owes) ==
    /\ u.callers[i] = "waiting" => owes
    /\ NotHeard(u, i, r)
    /\ d # None => /\ d.req.parent = r.parent /\ d.req.run = None
                   /\ r.run = None /\ r.bg /\ ~owes
                   /\ d.surfaced => NotHeard(u, i, d.req)
    /\ r.surface /\ r.run = None => r.parent \notin t.blocked
    /\ i \in DOMAIN u.graph =>
          /\ u.graph[i].root = r.parent
          /\ u.graph[i].spawner # None => u.graph[i].spawner \in u.graph[i].chain

\* u is t made ready for child i, which is in no map yet.
Ready(t, i, u) ==
    Joined(t, i, u) /\ Between(u, i) /\ u.queued = t.queued /\ u.pending = t.pending

LEMMA JoinedPut ==
    ASSUME NEW t \in State, NEW u \in State, NEW i \in Ids, Ready(t, i, u),
           NEW w, w.active = u.active, w.waiters = u.waiters, w.outputs = u.outputs,
           w.drains = u.drains, w.blocked = u.blocked, w.buffer = u.buffer,
           w.runWaiters = u.runWaiters, w.callers = u.callers, w.parked = u.parked,
           w.completed = u.completed, w.graph = u.graph
    PROVE  Joined(t, i, w)
BY DEF Ready, Joined

\* start_child.
LEMMA StartJoins ==
    ASSUME NEW t \in State, Homed(t), Kept(t), NEW i \in Ids, NEW u \in State, Ready(t, i, u),
           NEW c \in Child, c.handleOnly /\ c.reply => c.req.bg,
           FairFor(t, i, u, c.req, c.wakeOf, c.reply)
    PROVE  LET w == [u EXCEPT !.pending = Put(u.pending, i, c)]
           IN  /\ w \in State /\ Homed(w) /\ i \in Live(w) /\ Good(w, {i}, {})
               /\ (c.req.run = None => HasCapacity(t, c.req.parent)) => Kept(w)
<1> DEFINE w == [u EXCEPT !.pending = Put(u.pending, i, c)]
<1>1. Put(u.pending, i, c) \in MapOf(Child)
  BY StateFields, PutType
<1>2. /\ DOMAIN Put(u.pending, i, c) = DOMAIN u.pending \cup {i}
      /\ Put(u.pending, i, c)[i] = c
      /\ \A j \in DOMAIN u.pending \ {i} : Put(u.pending, i, c)[j] = u.pending[j]
  BY DEF Put
<1>3. w \in State /\ w.pending = Put(u.pending, i, c)
  BY <1>1 DEF State, StateOver
<1>4. /\ w.queued = u.queued /\ w.active = u.active /\ w.waiters = u.waiters
      /\ w.outputs = u.outputs /\ w.drains = u.drains /\ w.blocked = u.blocked
      /\ w.buffer = u.buffer /\ w.runWaiters = u.runWaiters /\ w.callers = u.callers
      /\ w.parked = u.parked /\ w.completed = u.completed /\ w.graph = u.graph
  BY DEF State, StateOver
<1>5. Homed(w)
  BY StartChildHomed DEF Ready
<1> HIDE DEF w
<1>6. Joined(t, i, w)
  BY <1>4, JoinedPut
<1>7. i \notin DOMAIN u.pending /\ i \notin DOMAIN u.active
  BY DEF Ready, Between, Known, Live
<1>8. JoinsPending(t, i, w) /\ w.pending[i] = c
  BY <1>2, <1>3, <1>4, <1>7 DEF Ready, JoinsPending
<1>9. i \in Live(w) /\ ChildOf(w, i) = c
  BY <1>2, <1>3, <1>4, <1>7 DEF Live, ChildOf
<1>10. RequestOf(w, i) = c.req /\ Prior(w, i) = c.wakeOf /\ Owes(w, i) = c.reply
  BY <1>9 DEF RequestOf, Prior, Owes
<1>11. Fair(t, i, w)
  BY <1>4, <1>10 DEF Fair, FairFor, NotHeard
<1>12. Good(w, {i}, {})
  BY <1>3, <1>5, <1>6, <1>8, <1>11, JoinedGood
<1>13. (c.req.run = None => HasCapacity(t, c.req.parent)) => Kept(w)
  BY <1>3, <1>5, <1>6, <1>8, <1>11, JoinedKept
<1> QED
  BY <1>3, <1>5, <1>9, <1>12, <1>13 DEF w

\* push_back.
LEMMA QueueJoins ==
    ASSUME NEW t \in State, Homed(t), Kept(t), NEW i \in Ids, NEW u \in State, Ready(t, i, u),
           NEW q \in QueuedSpawn, q.ticket = NextTicket(t), q.req.run = None, ~q.cancelled,
           q.req.parent \notin t.blocked, ~HasCapacity(t, q.req.parent),
           FairFor(t, i, u, q.req, q.wake, q.awaiting)
    PROVE  Kept([u EXCEPT !.queued = Put(u.queued, i, q)])
<1> DEFINE w == [u EXCEPT !.queued = Put(u.queued, i, q)]
<1>1. Put(u.queued, i, q) \in MapOf(QueuedSpawn)
  BY StateFields, PutType
<1>2. /\ DOMAIN Put(u.queued, i, q) = DOMAIN u.queued \cup {i}
      /\ Put(u.queued, i, q)[i] = q
      /\ \A j \in DOMAIN u.queued \ {i} : Put(u.queued, i, q)[j] = u.queued[j]
  BY DEF Put
<1>3. w \in State /\ w.queued = Put(u.queued, i, q)
  BY <1>1 DEF State, StateOver
<1>4. /\ w.pending = u.pending /\ w.active = u.active /\ w.waiters = u.waiters
      /\ w.outputs = u.outputs /\ w.drains = u.drains /\ w.blocked = u.blocked
      /\ w.buffer = u.buffer /\ w.runWaiters = u.runWaiters /\ w.callers = u.callers
      /\ w.parked = u.parked /\ w.completed = u.completed /\ w.graph = u.graph
  BY DEF State, StateOver
<1>5. Homed(w)
  BY EnqueueHomed DEF Ready
<1> HIDE DEF w
<1>6. Joined(t, i, w)
  BY <1>4, JoinedPut
<1>7. i \notin DOMAIN u.queued /\ i \notin Live(u)
  BY DEF Ready, Between, Known
<1>8. \A j \in DOMAIN t.queued : t.queued[j].ticket \in Nat
  <2>1. \A j \in DOMAIN t.queued : t.queued[j] \in QueuedSpawn
    BY StateFields, MapElement
  <2> QED
    BY <2>1 DEF QueuedSpawn
<1>9. \A j \in DOMAIN t.queued : q.ticket # t.queued[j].ticket
  BY <1>8, NextTicketFacts
<1>10. JoinsQueue(t, i, w)
  BY <1>2, <1>3, <1>4, <1>7, <1>9 DEF Ready, JoinsQueue
<1>11. i \notin Live(w)
  BY <1>4, <1>7 DEF Live
<1>12. RequestOf(w, i) = q.req /\ Prior(w, i) = q.wake /\ Owes(w, i) = q.awaiting
  BY <1>2, <1>3, <1>11 DEF RequestOf, Prior, Owes
<1>13. Fair(t, i, w)
  BY <1>4, <1>12 DEF Fair, FairFor, NotHeard
<1>14. Kept(w)
  BY <1>3, <1>5, <1>6, <1>10, <1>13, JoinedKept
<1> QED
  BY <1>14 DEF w

\* A record that differs only in the parked wakes.
LEMMA WakesKept ==
    ASSUME NEW t \in State, Homed(t), Kept(t), NEW W \in SUBSET Ids
    PROVE  Kept([t EXCEPT !.wakes = W])
<1> DEFINE u == [t EXCEPT !.wakes = W]
<1>1. u \in State
  BY DEF State, StateOver
<1>2. /\ u.queued = t.queued /\ u.pending = t.pending /\ u.active = t.active
      /\ u.graph = t.graph /\ u.completed = t.completed /\ u.parked = t.parked
      /\ u.waiters = t.waiters /\ u.outputs = t.outputs /\ u.drains = t.drains
      /\ u.blocked = t.blocked /\ u.buffer = t.buffer
      /\ u.runWaiters = t.runWaiters /\ u.callers = t.callers
  BY DEF State, StateOver
<1>3. u.drains \subseteq u.blocked
  BY <1>2 DEF Kept, Good, QuietBut
<1> HIDE DEF u
<1>4. Kept(u)
  BY <1>1, <1>2, <1>3, LessKept
<1> QED
  BY <1>4 DEF u

\* Child i starts, or is queued behind the others, with request r, prior record d
\* and, if owes, its caller.
Starts(i, u, r, d, owes, w) ==
    \E c \in Child : /\ w = [u EXCEPT !.pending = Put(u.pending, i, c)]
                     /\ c.req = r /\ c.wakeOf = d /\ c.reply = owes
                     /\ c.handleOnly /\ c.reply => r.bg

Queues(t, i, u, r, d, owes, w) ==
    \E q \in QueuedSpawn : /\ w = [u EXCEPT !.queued = Put(u.queued, i, q)]
                           /\ q.req = r /\ q.wake = d /\ q.awaiting = owes
                           /\ ~q.cancelled /\ q.ticket = NextTicket(t)

\* It starts only on a free slot and queues only without one.
Admitted(t, i, u, r, d, owes, w) ==
    \/ Starts(i, u, r, d, owes, w) /\ (r.run = None => HasCapacity(t, r.parent))
    \/ Queues(t, i, u, r, d, owes, w) /\ r.run = None /\ ~HasCapacity(t, r.parent)

LEMMA StartsGood ==
    ASSUME NEW t \in State, Homed(t), Kept(t), NEW i \in Ids, NEW u \in State, Ready(t, i, u),
           NEW r, NEW d, NEW owes, FairFor(t, i, u, r, d, owes), NEW w, Starts(i, u, r, d, owes, w)
    PROVE  /\ w \in State /\ Homed(w) /\ i \in Live(w) /\ Good(w, {i}, {})
           /\ (r.run = None => HasCapacity(t, r.parent)) => Kept(w)
<1> PICK c \in Child : /\ w = [u EXCEPT !.pending = Put(u.pending, i, c)]
                       /\ c.req = r /\ c.wakeOf = d /\ c.reply = owes
                       /\ c.handleOnly /\ c.reply => r.bg
  BY DEF Starts
<1>1. FairFor(t, i, u, c.req, c.wakeOf, c.reply)
  OBVIOUS
<1> QED
  BY <1>1, StartJoins

LEMMA AdmittedKept ==
    ASSUME NEW t \in State, Homed(t), Kept(t), NEW i \in Ids, NEW u \in State, Ready(t, i, u),
           NEW r, NEW d, NEW owes, FairFor(t, i, u, r, d, owes),
           r.run = None => r.parent \notin t.blocked, NEW w, Admitted(t, i, u, r, d, owes, w)
    PROVE  Kept(w)
<1>1. CASE Starts(i, u, r, d, owes, w) /\ (r.run = None => HasCapacity(t, r.parent))
  BY <1>1, StartsGood
<1>2. CASE Queues(t, i, u, r, d, owes, w) /\ r.run = None /\ ~HasCapacity(t, r.parent)
  <2> PICK q \in QueuedSpawn : /\ w = [u EXCEPT !.queued = Put(u.queued, i, q)]
                               /\ q.req = r /\ q.wake = d /\ q.awaiting = owes
                               /\ ~q.cancelled /\ q.ticket = NextTicket(t)
    BY <1>2 DEF Queues
  <2>1. FairFor(t, i, u, q.req, q.wake, q.awaiting)
    OBVIOUS
  <2> QED
    BY <1>2, <2>1, QueueJoins
<1> QED
  BY <1>1, <1>2 DEF Admitted

\* wake_completed_child: the record goes with the wake, which runs in the
\* background for the same session.
LEMMA WakeReady ==
    ASSUME NEW t \in State, Homed(t), Kept(t), NEW i \in DOMAIN t.completed,
           t.completed[i].req.run = None
    PROVE  \/ \E W \in SUBSET Ids : Wake(t, i) = [t EXCEPT !.wakes = W]
           \/ \E u \in State, r \in Request :
                 /\ Ready(t, i, u) /\ u.nextAge = t.nextAge
                 /\ FairFor(t, i, u, r, t.completed[i], FALSE)
                 /\ r.run = None /\ r.parent \notin t.blocked
                 /\ Admitted(t, i, u, r, t.completed[i], FALSE, Wake(t, i))
<1> DEFINE d == t.completed[i]
           r == WakeRequest(d.req)
           m == t.parked \cup {<<i, FALSE>>}
           u == [t EXCEPT !.completed = Drop(t.completed, {i}), !.parked = m]
           q == [req |-> r, ticket |-> NextTicket(t), cancelled |-> FALSE,
                 awaiting |-> FALSE, timed |-> FALSE, wake |-> d]
           c == NewChild(r, FALSE, FALSE, FALSE /\ AwaitsInForeground(r), d)
<1>1. i \in Ids /\ d \in CompletedChild /\ d.req \in Request
  <2>1. i \in Ids /\ d \in CompletedChild
    BY StateFields, MapElement
  <2> QED
    BY <2>1 DEF CompletedChild
<1>2. /\ r \in Request /\ r.parent = d.req.parent /\ r.run = None /\ r.bg /\ ~r.surface
  <2> HIDE DEF d
  <2>1. d.req.run = None
    BY DEF d
  <2> QED
    BY <1>1, <2>1 DEF WakeRequest, Request
<1>3. /\ DOMAIN Drop(t.completed, {i}) = DOMAIN t.completed \ {i}
      /\ \A j \in DOMAIN t.completed \ {i} : Drop(t.completed, {i})[j] = t.completed[j]
  BY DEF Drop, Restrict
<1>4. u \in State
  <2>1. Drop(t.completed, {i}) \in MapOf(CompletedChild)
    BY StateFields, DropType
  <2>2. m \in SUBSET (Ids \X BOOLEAN)
    BY <1>1, ParkedType
  <2> HIDE DEF m
  <2> QED
    BY <2>1, <2>2 DEF State, StateOver
<1>5. /\ u.queued = t.queued /\ u.pending = t.pending /\ u.active = t.active
      /\ u.graph = t.graph /\ u.completed = Drop(t.completed, {i}) /\ u.parked = m
      /\ u.waiters = t.waiters /\ u.outputs = t.outputs /\ u.drains = t.drains
      /\ u.blocked = t.blocked /\ u.buffer = t.buffer /\ u.runWaiters = t.runWaiters
      /\ u.callers = t.callers /\ u.nextAge = t.nextAge
  BY DEF State, StateOver
<1> HIDE DEF u
<1>7. Ready(t, i, u)
  <2>1. i \notin Present(t)
    BY DEF Homed, Present
  <2>2. Joined(t, i, u)
    <3>1. <<i, FALSE>>[1] = i
      OBVIOUS
    <3>2. \A x \in m : x \in t.parked \/ x = <<i, FALSE>>
      OBVIOUS
    <3>3. \A x \in u.parked : x \in t.parked \/ x[1] = i
      BY <1>5, <3>1, <3>2
    <3> QED
      BY <1>3, <1>5, <2>1, <3>3 DEF Joined
  <2>3. Between(u, i)
    BY <1>3, <1>5 DEF Between, Homed, Known, Live
  <2> QED
    BY <1>5, <2>2, <2>3 DEF Ready
<1> HIDE DEF r
<1>8. FairFor(t, i, u, r, d, FALSE)
  <2>1. i \notin Present(t) /\ RequestOf(t, i) = d.req
    BY DEF Homed, Present, RequestOf, Live
  <2>2. t.callers[i] # "waiting"
    BY <1>1, <2>1 DEF Kept, Good, Promised, CallersOwed
  <2>3. d.surfaced => NotHeard(t, i, d.req)
    BY DEF Kept, Good, Promised, Delivered
  <2>4. i \in DOMAIN t.graph =>
          /\ t.graph[i].root = d.req.parent
          /\ t.graph[i].spawner # None => t.graph[i].spawner \in t.graph[i].chain
    BY <2>1 DEF Kept, Good, Promised, Owned
  <2> HIDE DEF d
  <2>5. d.req.run = None
    BY DEF d
  <2> QED
    BY <1>2, <1>5, <2>2, <2>3, <2>4, <2>5 DEF FairFor, NotHeard
<1> HIDE DEF d
<1>9. c \in Child /\ c.req = r /\ c.wakeOf = d /\ c.reply = FALSE
  BY <1>1, <1>2, NewChildType DEF NewChild
<1>10. q \in QueuedSpawn
  BY <1>1, <1>2, NextTicketFacts DEF QueuedSpawn
<1>11. CASE Wake(t, i) = t \/ Wake(t, i) = [t EXCEPT !.wakes = t.wakes \cup {i}]
  <2>1. t = [t EXCEPT !.wakes = t.wakes]
    BY DEF State, StateOver
  <2>2. t.wakes \in SUBSET Ids /\ t.wakes \cup {i} \in SUBSET Ids
    BY <1>1, StateFields
  <2> QED
    BY <1>11, <2>1, <2>2
<1>12. CASE ~(~d.published \/ r.parent \in t.blocked \/ r.run # None)
  <2>1. r.parent \notin t.blocked /\ r.run = None
    BY <1>12
  <2>2. CASE HasCapacity(t, r.parent)
    <3>1. Admit(t, r) = "Start"
      BY <2>2 DEF Admit
    <3>2. Wake(t, i) = StartChild(u, i, r, FALSE, d)
      BY <1>12, <3>1 DEF Wake, d, r, u
    <3>3. StartChild(u, i, r, FALSE, d) = [u EXCEPT !.pending = Put(u.pending, i, c)]
      BY DEF StartChild
    <3> HIDE DEF c
    <3>4. Starts(i, u, r, d, FALSE, Wake(t, i))
      BY <1>9, <3>2, <3>3 DEF Starts
    <3> QED
      BY <1>2, <1>4, <1>5, <1>7, <1>8, <2>1, <2>2, <3>4 DEF Admitted, d
  <2>3. CASE ~HasCapacity(t, r.parent) /\ Behavior = "Queue"
    <3>1. Admit(t, r) = "Enqueue"
      BY <2>1, <2>3 DEF Admit
    <3>2. Wake(t, i) = [u EXCEPT !.queued = Put(u.queued, i, q)]
      BY <1>12, <3>1 DEF Wake, d, r, u
    <3>3. q.ticket = NextTicket(t) /\ q.req = r /\ ~q.cancelled /\ q.wake = d /\ q.awaiting = FALSE
      OBVIOUS
    <3> HIDE DEF q
    <3>4. Queues(t, i, u, r, d, FALSE, Wake(t, i))
      BY <1>10, <3>2, <3>3 DEF Queues
    <3> QED
      BY <1>2, <1>4, <1>5, <1>7, <1>8, <2>1, <2>3, <3>4 DEF Admitted, d
  <2>4. CASE ~HasCapacity(t, r.parent) /\ Behavior # "Queue"
    <3>1. Admit(t, r) = "Reject"
      BY <2>1, <2>4 DEF Admit
    <3>2. Wake(t, i) = t
      BY <1>12, <3>1 DEF Wake, d, r, u
    <3> QED
      BY <1>11, <3>2
  <2> QED
    BY <2>2, <2>3, <2>4
<1>13. CASE ~d.published \/ r.parent \in t.blocked \/ r.run # None
  BY <1>11, <1>13 DEF Wake, d, r
<1> QED
  BY <1>12, <1>13

LEMMA WakeKept ==
    ASSUME NEW t \in State, Homed(t), Kept(t), NEW i \in DOMAIN t.completed,
           t.completed[i].req.run = None
    PROVE  Kept(Wake(t, i))
<1>1. i \in Ids
  BY DomainFacts
<1>2. ASSUME NEW W \in SUBSET Ids, Wake(t, i) = [t EXCEPT !.wakes = W] PROVE Kept(Wake(t, i))
  BY <1>2, WakesKept
<1>3. ASSUME NEW u \in State, NEW r \in Request, Ready(t, i, u),
             FairFor(t, i, u, r, t.completed[i], FALSE), r.parent \notin t.blocked,
             Admitted(t, i, u, r, t.completed[i], FALSE, Wake(t, i))
      PROVE  Kept(Wake(t, i))
  BY <1>1, <1>3, AdmittedKept
<1> QED
  BY <1>2, <1>3, WakeReady

LEMMA SendMessageKept ==
    ASSUME NEW t \in State, Homed(t), Kept(t), NEW i \in Ids
    PROVE  Kept(SendMessage(t, i))
<1>1. CASE i \in DOMAIN t.active
  BY <1>1, AdmitMessageKept DEF SendMessage
<1>2. CASE i \notin DOMAIN t.active /\ i \in DOMAIN t.pending \cup DOMAIN t.queued
  BY <1>2, ParkKept DEF SendMessage
<1>3. CASE i \notin DOMAIN t.active /\ i \notin DOMAIN t.pending \cup DOMAIN t.queued
  BY <1>3, WakeKept DEF SendMessage
<1> QED
  BY <1>1, <1>2, <1>3

\* The admit decision of handle_spawn: a spawn that is rejected starts and ends.
LEMMA AdmitSpawnIs ==
    ASSUME NEW t, NEW i \in Ids, NEW u \in State, Ready(t, i, u), NEW r \in Request
    PROVE  \/ Admitted(t, i, u, r, None, TRUE, AdmitSpawn(u, i, r))
           \/ \E w : \E out \in Output :
                 Starts(i, u, r, None, TRUE, w) /\ AdmitSpawn(u, i, r) = FinishChild(w, i, out)
<1> DEFINE c == NewChild(r, FALSE, TRUE, TRUE /\ AwaitsInForeground(r), None)
           q == [req |-> r, ticket |-> NextTicket(u), cancelled |-> FALSE,
                 awaiting |-> TRUE, timed |-> AwaitsInForeground(r), wake |-> None]
           e == [NewChild(r, FALSE, TRUE, FALSE, None) EXCEPT !.handleOnly = r.bg]
           out == [success |-> FALSE, cancelled |-> FALSE]
<1>1. u.pending = t.pending /\ u.active = t.active /\ u.queued = t.queued
  BY DEF Ready, Joined
<1>2. HasCapacity(u, r.parent) <=> HasCapacity(t, r.parent)
  BY <1>1 DEF HasCapacity, Running, Live, ChildOf
<1>3. NextTicket(u) = NextTicket(t)
  BY <1>1 DEF NextTicket
<1>4. CASE r.run # None \/ HasCapacity(t, r.parent)
  <2>1. Admit(u, r) = "Start"
    BY <1>2, <1>4 DEF Admit
  <2>2. AdmitSpawn(u, i, r) = [u EXCEPT !.pending = Put(u.pending, i, c)]
    BY <2>1 DEF AdmitSpawn, StartChild
  <2>3. c \in Child
    <3>1. AwaitsInForeground(r) \in BOOLEAN
      BY DEF AwaitsInForeground
    <3> QED
      BY <3>1, NewChildType
  <2>4. c.req = r /\ c.wakeOf = None /\ c.reply = TRUE /\ (c.handleOnly => r.bg)
    BY DEF NewChild
  <2> HIDE DEF c
  <2>5. Starts(i, u, r, None, TRUE, AdmitSpawn(u, i, r))
    BY <2>2, <2>3, <2>4 DEF Starts
  <2> QED
    BY <1>4, <2>5 DEF Admitted
<1>5. CASE r.run = None /\ ~HasCapacity(t, r.parent) /\ Behavior = "Queue"
  <2>1. Admit(u, r) = "Enqueue"
    BY <1>2, <1>5 DEF Admit
  <2>2. AdmitSpawn(u, i, r) = [u EXCEPT !.queued = Put(u.queued, i, q)]
    BY <2>1 DEF AdmitSpawn
  <2>3. q \in QueuedSpawn
    <3>1. AwaitsInForeground(r) \in BOOLEAN /\ NextTicket(u) \in Nat
      BY NextTicketFacts DEF AwaitsInForeground
    <3> QED
      BY <3>1 DEF QueuedSpawn
  <2>4. q.req = r /\ q.wake = None /\ q.awaiting = TRUE /\ ~q.cancelled /\ q.ticket = NextTicket(t)
    BY <1>3
  <2> HIDE DEF q
  <2>5. Queues(t, i, u, r, None, TRUE, AdmitSpawn(u, i, r))
    BY <2>2, <2>3, <2>4 DEF Queues
  <2> QED
    BY <1>5, <2>5 DEF Admitted
<1>6. CASE r.run = None /\ ~HasCapacity(t, r.parent) /\ Behavior # "Queue"
  <2>1. Admit(u, r) = "Reject"
    BY <1>2, <1>6 DEF Admit
  <2>2. AdmitSpawn(u, i, r) = FinishChild([u EXCEPT !.pending = Put(u.pending, i, e)], i, out)
    BY <2>1 DEF AdmitSpawn
  <2>3. NewChild(r, FALSE, TRUE, FALSE, None) \in Child /\ r.bg \in BOOLEAN
    BY NewChildType DEF Request
  <2>4. e \in Child
    BY <2>3 DEF Child
  <2>5. e.req = r /\ e.wakeOf = None /\ e.reply = TRUE /\ e.handleOnly = r.bg
    BY DEF NewChild
  <2> HIDE DEF e
  <2>6. Starts(i, u, r, None, TRUE, [u EXCEPT !.pending = Put(u.pending, i, e)])
    BY <2>4, <2>5 DEF Starts
  <2>7. out \in Output
    BY DEF Output
  <2> HIDE DEF out
  <2> QED
    BY <2>2, <2>6, <2>7
<1> QED
  BY <1>4, <1>5, <1>6

LEMMA AdmitSpawnKept ==
    ASSUME NEW t \in State, Homed(t), Kept(t), NEW i \in Ids, NEW u \in State, Ready(t, i, u),
           NEW r \in Request, FairFor(t, i, u, r, None, TRUE),
           r.run = None => r.parent \notin t.blocked
    PROVE  Kept(AdmitSpawn(u, i, r))
<1>1. CASE Admitted(t, i, u, r, None, TRUE, AdmitSpawn(u, i, r))
  BY <1>1, AdmittedKept
<1>2. ASSUME NEW w, NEW out \in Output, Starts(i, u, r, None, TRUE, w),
             AdmitSpawn(u, i, r) = FinishChild(w, i, out)
      PROVE  Kept(AdmitSpawn(u, i, r))
  <2>1. w \in State /\ Homed(w) /\ i \in Live(w) /\ Good(w, {i}, {})
    BY <1>2, StartsGood
  <2> QED
    BY <1>2, <2>1, FinishChildKept
<1> QED
  BY <1>1, <1>2, AdmitSpawnIs

\* handle_spawn: a nested child is owned by its spawner's session.
LEMMA HandleSpawnReady ==
    ASSUME NEW t \in State, Homed(t), Kept(t), NEW i \in Ids, NEW r0 \in Request
    PROVE  \/ HandleSpawn(t, i, r0) = t
           \/ i \notin Known(t) /\ HandleSpawn(t, i, r0) = RejectSpawn(t, i)
           \/ \E w \in State, r \in Request :
                 /\ i \notin Known(t) /\ Ready(t, i, w) /\ w.nextAge = t.nextAge
                 /\ FairFor(t, i, w, r, None, TRUE)
                 /\ r.run = None => r.parent \notin t.blocked
                 /\ HandleSpawn(t, i, r0) = AdmitSpawn(w, i, r)
<1> DEFINE p == r0.parent
           nested == p \in DOMAIN t.active
           r == IF nested THEN Reparented(r0, t.active[p]) ELSE r0
           node == IF nested THEN NestedNode(t, p, r.parent, r0.surface) ELSE RootNode(p)
           u == [t EXCEPT !.callers[i] = "waiting"]
           w == [u EXCEPT !.graph = Put(u.graph, i, node)]
           refused == \/ nested /\ t.active[p].cancelled
                      \/ r.run = None /\ r.parent \in t.blocked
                      \/ nested /\ p \notin DOMAIN t.graph
<1>1. CASE i \in Known(t)
  BY <1>1 DEF HandleSpawn
<1>2. CASE i \notin Known(t) /\ refused
  <2>1. HandleSpawn(t, i, r0) = RejectSpawn(t, i)
    BY <1>2 DEF HandleSpawn
  <2> QED
    BY <1>2, <2>1
<1>3. CASE i \notin Known(t) /\ ~refused
  <2>1. HandleSpawn(t, i, r0) = AdmitSpawn(w, i, r)
    BY <1>3 DEF HandleSpawn
  <2>2. r \in Request
    <3>1. CASE nested
      <4>1. t.active[p] \in Child
        BY <3>1, StateFields, MapElement
      <4>2. t.active[p].req \in Request
        BY <4>1 DEF Child
      <4> QED
        BY <3>1, <4>2 DEF Reparented, Request
    <3> QED
      BY <3>1
  <2>3. p \in Parents /\ r.parent \in Parents /\ r0.surface \in BOOLEAN
    BY <2>2 DEF Request
  <2>4. nested => p \in DOMAIN t.graph
    BY <1>3
  <2>5. r.run = None => r.parent \notin t.blocked
    BY <1>3
  <2>6. r.parent = p \/ nested
    OBVIOUS
  <2> HIDE DEF r
  <2>7. /\ node \in SpawnNode
        /\ node.root = r.parent /\ (node.spawner # None => node.spawner \in node.chain)
    <3>1. CASE nested
      <4>1. t.graph[p] \in SpawnNode /\ p \in Ids
        BY <2>4, <3>1, StateFields, MapElement
      <4>2. t.graph[p].chain \in SUBSET Ids
        BY <4>1 DEF SpawnNode
      <4> QED
        BY <2>3, <3>1, <4>1, <4>2 DEF NestedNode, SpawnNode
    <3>2. CASE ~nested
      BY <2>3, <2>6, <3>2 DEF RootNode, SpawnNode
    <3> QED
      BY <3>1, <3>2
  <2> HIDE DEF node
  <2>8. /\ u \in State
        /\ u.queued = t.queued /\ u.pending = t.pending /\ u.active = t.active
        /\ u.graph = t.graph /\ u.completed = t.completed /\ u.parked = t.parked
        /\ u.waiters = t.waiters /\ u.outputs = t.outputs /\ u.drains = t.drains
        /\ u.blocked = t.blocked /\ u.buffer = t.buffer /\ u.runWaiters = t.runWaiters
        /\ u.nextAge = t.nextAge
    <3>1. u \in State
      BY CallerType DEF CallerView
    <3> QED
      BY <3>1 DEF State, StateOver
  <2>9. u.callers[i] = "waiting" /\ \A j \in Ids \ {i} : u.callers[j] = t.callers[j]
    <3>1. t.callers \in [Ids -> CallerView]
      BY StateFields
    <3>2. u.callers = [t.callers EXCEPT ![i] = "waiting"]
      BY DEF State, StateOver
    <3> QED
      BY <3>1, <3>2
  <2> HIDE DEF u
  <2>10. Put(u.graph, i, node) \in MapOf(SpawnNode)
    BY <2>7, <2>8, StateFields, PutType
  <2>11. /\ DOMAIN Put(u.graph, i, node) = DOMAIN u.graph \cup {i}
         /\ Put(u.graph, i, node)[i] = node
         /\ \A j \in DOMAIN u.graph \ {i} : Put(u.graph, i, node)[j] = u.graph[j]
    BY DEF Put
  <2>12. w \in State /\ w.graph = Put(u.graph, i, node)
    BY <2>8, <2>10 DEF State, StateOver
  <2>13. /\ w.queued = u.queued /\ w.pending = u.pending /\ w.active = u.active
         /\ w.completed = u.completed /\ w.parked = u.parked /\ w.callers = u.callers
         /\ w.waiters = u.waiters /\ w.outputs = u.outputs /\ w.drains = u.drains
         /\ w.blocked = u.blocked /\ w.buffer = u.buffer /\ w.runWaiters = u.runWaiters
         /\ w.nextAge = u.nextAge
    BY <2>8 DEF State, StateOver
  <2> HIDE DEF w
  <2>14. Between(w, i)
    <3>1. Live(w) = Live(t) /\ Known(w) = Known(t)
      BY <2>8, <2>13 DEF Known, Live
    <3>2. DOMAIN w.graph = DOMAIN t.graph \cup {i}
      BY <2>8, <2>11, <2>12
    <3> QED
      BY <1>3, <2>8, <2>13, <3>1, <3>2 DEF Between, Homed
  <2>15. Joined(t, i, w)
    <3>1. i \notin Present(t) /\ i \notin DOMAIN t.completed
      BY <1>3 DEF Known, Present
    <3> QED
      BY <2>8, <2>9, <2>11, <2>12, <2>13, <3>1 DEF Joined
  <2>16. Ready(t, i, w)
    BY <2>8, <2>13, <2>14, <2>15 DEF Ready
  <2>17. FairFor(t, i, w, r, None, TRUE)
    BY <2>5, <2>7, <2>9, <2>11, <2>12, <2>13 DEF FairFor, NotHeard
  <2> QED
    BY <1>3, <2>1, <2>2, <2>5, <2>8, <2>12, <2>13, <2>16, <2>17
<1> QED
  BY <1>1, <1>2, <1>3

LEMMA HandleSpawnKept ==
    ASSUME NEW t \in State, Homed(t), Kept(t), NEW i \in Ids, NEW r0 \in Request
    PROVE  Kept(HandleSpawn(t, i, r0))
BY HandleSpawnReady, RejectSpawnKept, AdmitSpawnKept

-----------------------------------------------------------------------------
(* Cancelling *)

LEMMA CancelOneKept ==
    ASSUME NEW t \in State, Homed(t), Kept(t), NEW i \in Ids
    PROVE  Kept(CancelOne(t, i))
<1>1. QuietBut(t, {}) /\ Good(t, {}, {}) /\ QueueFull(t)
  BY DEF Kept, Good
<1>2. CASE i \in Live(t)
  <2>1. CancelOne(t, i) = CancelLive(t, {i}, TRUE, FALSE)
    BY <1>2 DEF CancelOne
  <2>2. CancelLive(t, {i}, TRUE, FALSE) \in State
    BY CancelLiveType
  <2>3. Eased(t, CancelLive(t, {i}, TRUE, FALSE), {})
    BY <1>1, CancelLiveEased
  <2> QED
    BY <2>1, <2>2, <2>3, EasedKept
<1>3. CASE i \notin Live(t) /\ i \in DOMAIN t.queued
  <2>1. CancelOne(t, i) = RemoveQueued(t, {i})
    BY <1>3 DEF CancelOne
  <2>2. {i} \in SUBSET DOMAIN t.queued /\ {} \in SUBSET {i}
    BY <1>3
  <2> QED
    BY <1>1, <2>1, <2>2, RemoveQueuedKept
<1>4. CASE i \notin Live(t) /\ i \notin DOMAIN t.queued
  BY <1>4 DEF CancelOne
<1> QED
  BY <1>2, <1>3, <1>4

LEMMA CancelParentPromptKept ==
    ASSUME NEW t \in State, Homed(t), Kept(t), NEW s, NEW p
    PROVE  Kept(CancelParentPrompt(t, s, p))
<1> DEFINE K == {i \in LiveOf(t, s) : ChildOf(t, i).req.prompt = p}
           u == CancelLive(t, K, FALSE, FALSE)
           R == {i \in QueuedOf(t, s) : t.queued[i].req.prompt = p}
<1>1. CancelParentPrompt(t, s, p) = RemoveQueued(u, R)
  BY DEF CancelParentPrompt
<1> HIDE DEF K
<1>2. u \in State
  BY CancelLiveType
<1>3. Eased(t, u, {}) /\ u.queued = t.queued
  BY CancelLiveEased DEF Kept, Good
<1> HIDE DEF u
<1>4. Kept(u) /\ Homed(u)
  BY <1>2, <1>3, EasedKept
<1>5. R \in SUBSET DOMAIN u.queued /\ {} \in SUBSET R
  BY <1>3 DEF QueuedOf
<1> HIDE DEF R
<1>6. Good(u, {}, {}) /\ QueueFull(u)
  BY <1>4 DEF Kept
<1> QED
  BY <1>1, <1>2, <1>4, <1>5, <1>6, RemoveQueuedKept

\* User Stop: the session is closed while its entries are still to leave.
LEMMA CancelParentSessionKept ==
    ASSUME NEW t \in State, Homed(t), Kept(t), NEW s \in Parents
    PROVE  Kept(CancelParentSession(t, s))
<1> DEFINE t0 == [t EXCEPT !.blocked = t.blocked \cup {s}]
           K == {i \in LiveOf(t, s) : ChildOf(t, i).req.run = None}
           u == CancelLive(t0, K, FALSE, FALSE)
           R == {i \in QueuedOf(u, s) : u.queued[i].req.run = None}
           v == RemoveQueued(u, R)
           Q == QueuedOf(t, s)
<1>1. CancelParentSession(t, s) = [v EXCEPT !.wakes = v.wakes \ CompletedOf(v, s)]
  BY DEF CancelParentSession
<1>2. t0 \in State
  BY DEF State, StateOver
<1>3. /\ t0.queued = t.queued /\ t0.pending = t.pending /\ t0.active = t.active
      /\ t0.graph = t.graph /\ t0.completed = t.completed /\ t0.parked = t.parked
      /\ t0.waiters = t.waiters /\ t0.outputs = t.outputs /\ t0.drains = t.drains
      /\ t0.blocked = t.blocked \cup {s} /\ t0.buffer = t.buffer
      /\ t0.runWaiters = t.runWaiters /\ t0.callers = t.callers
  BY DEF State, StateOver
<1> HIDE DEF t0, K
<1>4. Good(t0, {}, Q) /\ QueueFull(t0) /\ Homed(t0)
  <2>1. /\ Promised(t0) /\ HeldBut(t0, {}) /\ TicketsDiffer(t0) /\ FitsBut(t0, {})
        /\ QueueFull(t0) /\ Homed(t0)
    BY <1>3, SameMapsGood DEF Kept, Good
  <2>2. /\ Present(t0) = Present(t)
        /\ \A i : RequestOf(t0, i) = RequestOf(t, i)
        /\ \A r : RunOutstanding(t0, r) = RunOutstanding(t, r)
    BY <1>3, SameMapsGood
  <2>3. QuietBut(t0, Q)
    BY <1>3, <2>2 DEF Kept, Good, QuietBut, Muted, QueuedOf
  <2>4. RunsOutstanding(t0)
    BY <1>3, <2>2 DEF Kept, Good, RunsOutstanding
  <2> QED
    BY <2>1, <2>3, <2>4 DEF Good
<1>5. u \in State /\ Eased(t0, u, {}) /\ u.queued = t0.queued
  <2>1. u \in State
    BY <1>2, CancelLiveType
  <2>2. QuietBut(t0, Q)
    BY <1>4 DEF Good
  <2> QED
    BY <1>2, <2>1, <2>2, CancelLiveEased
<1> HIDE DEF u
<1>6. Good(u, {}, Q) /\ QueueFull(u) /\ Homed(u)
  BY <1>2, <1>4, <1>5, EasedGood
<1>7. R \in SUBSET DOMAIN u.queued /\ Q \in SUBSET R
  BY <1>3, <1>5 DEF QueuedOf, Kept, Good, Promised, QueueOfTasks
<1> HIDE DEF R, Q
<1>8. Kept(v) /\ v \in State /\ Homed(v)
  BY <1>5, <1>6, <1>7, RemoveQueuedKept, RemoveQueuedType, RemoveQueuedHomed
<1> HIDE DEF v
<1>9. v.wakes \ CompletedOf(v, s) \in SUBSET Ids
  BY <1>8, StateFields
<1> QED
  BY <1>1, <1>8, <1>9, WakesKept

\* Session teardown: the children of s are cancelled without a word.
LEMMA SilencedKept ==
    ASSUME NEW t \in State, Homed(t), Kept(t), NEW s
    PROVE  LET v == Silenced(t, s)
           IN  /\ v \in State /\ Kept(v) /\ Homed(v) /\ Muted(v, {s})
               /\ DOMAIN v.queued = DOMAIN t.queued
               /\ \A i \in DOMAIN t.queued : v.queued[i].req.parent = t.queued[i].req.parent
<1> DEFINE B == {b \in t.buffer : b[1] # s}
           t0 == [t EXCEPT !.buffer = B, !.wakes = t.wakes \ CompletedOf(t, s)]
           K == LiveOf(t, s)
           u == CancelLive(t0, K, FALSE, TRUE)
           q == [i \in DOMAIN u.queued |->
                   IF i \in QueuedOf(t, s) THEN [u.queued[i] EXCEPT !.req.surface = FALSE]
                   ELSE u.queued[i]]
           v == [u EXCEPT !.queued = q]
<1>1. Silenced(t, s) = v
  BY DEF Silenced
<1>2. B \subseteq t.buffer /\ \A b \in B : b[1] # s
  OBVIOUS
<1>3. t0 \in State
  BY DEF State, StateOver
<1>4. /\ t0.queued = t.queued /\ t0.pending = t.pending /\ t0.active = t.active
      /\ t0.graph = t.graph /\ t0.completed = t.completed /\ t0.parked = t.parked
      /\ t0.waiters = t.waiters /\ t0.outputs = t.outputs /\ t0.drains = t.drains
      /\ t0.blocked = t.blocked /\ t0.buffer = B
      /\ t0.runWaiters = t.runWaiters /\ t0.callers = t.callers
  BY DEF State, StateOver
<1> HIDE DEF t0, B
<1>5. Eased(t, t0, {})
  <2>1. SofterRest(t, t0, {})
    BY <1>2, <1>4 DEF SofterRest, Kept, Good, QuietBut
  <2> QED
    BY <1>3, <1>4, <2>1, EasedSameMaps
<1>6. Kept(t0) /\ Homed(t0)
  BY <1>3, <1>5, EasedKept
<1> HIDE DEF K
<1>7. u \in State
  BY <1>3, CancelLiveType
<1>8. /\ Eased(t0, u, {}) /\ u.queued = t0.queued /\ u.blocked = t0.blocked
      /\ u.drains = t0.drains /\ u.buffer = t0.buffer
      /\ \A i \in Live(u) \cap K : ~ChildOf(u, i).req.surface
  BY <1>3, <1>6, CancelLiveEased DEF Kept, Good
<1> HIDE DEF u
<1>9. Kept(u) /\ Homed(u)
  BY <1>3, <1>6, <1>7, <1>8, EasedKept
<1>10. ASSUME NEW i \in DOMAIN u.queued
       PROVE  /\ SofterEntry(u.queued[i], q[i], u.callers[i] = "waiting")
              /\ q[i] \in QueuedSpawn
              /\ i \in QueuedOf(t, s) => ~q[i].req.surface
  <2>1. u.queued[i] \in QueuedSpawn
    BY <1>7, StateFields, MapElement
  <2>2. u.queued[i].req \in Request
    BY <2>1 DEF QueuedSpawn
  <2> QED
    BY <2>1, <2>2 DEF SofterEntry, QueuedSpawn, Request
<1>11. q \in [DOMAIN u.queued -> QueuedSpawn] /\ DOMAIN q = DOMAIN u.queued
  BY <1>10
<1> HIDE DEF q
<1>12. q \in MapOf(QueuedSpawn)
  BY <1>7, <1>11, DomainFacts, RewriteType
<1>13. /\ v.queued = q /\ v.pending = u.pending /\ v.active = u.active
       /\ v.graph = u.graph /\ v.completed = u.completed /\ v.parked = u.parked
       /\ v.waiters = u.waiters /\ v.outputs = u.outputs /\ v.drains = u.drains
       /\ v.blocked = u.blocked /\ v.buffer = u.buffer
       /\ v.runWaiters = u.runWaiters /\ v.callers = u.callers
       /\ v \in State
  BY <1>7, <1>12 DEF State, StateOver
<1> HIDE DEF v
<1>14. SameHomes(u, v)
  BY <1>11, <1>13 DEF SameHomes
<1>15. SofterMaps(u, v)
  BY <1>10, <1>13 DEF SofterMaps, SofterChild
<1>16. Eased(u, v, {})
  <2>1. QuietBut(u, {})
    BY <1>9 DEF Kept, Good
  <2> QED
    BY <1>7, <1>13, <1>14, <1>15, <2>1, RewriteEased
<1>17. Kept(v) /\ Homed(v)
  BY <1>7, <1>9, <1>13, <1>16, EasedKept
<1>18. Muted(v, {s})
  <2>1. \A b \in v.buffer : b[1] \notin {s}
    BY <1>2, <1>4, <1>8, <1>13
  <2>2. ASSUME NEW i \in Present(v), RequestOf(v, i).parent = s
        PROVE  ~RequestOf(v, i).surface
    <3>1. CASE i \in Live(v)
      <4>1. i \in Live(u) /\ ChildOf(v, i) = ChildOf(u, i) /\ RequestOf(v, i) = ChildOf(v, i).req
        BY <1>13, <3>1 DEF Live, ChildOf, RequestOf
      <4>2. Live(u) = Live(t0) /\ Live(t0) = Live(t) /\ ChildOf(t0, i) = ChildOf(t, i)
        <5>1. SameHomes(t0, u)
          BY <1>8 DEF Eased
        <5> QED
          BY <1>4, <5>1 DEF Live, SameHomes, ChildOf
      <4>3. ChildOf(u, i).req.parent = ChildOf(t0, i).req.parent
        BY <1>8, <4>1, <4>2, EasedChild DEF Eased, SofterChild
      <4>4. i \in K
        BY <2>2, <4>1, <4>2, <4>3 DEF K, LiveOf
      <4> QED
        BY <1>8, <4>1, <4>4
    <3>2. CASE i \notin Live(v)
      <4>1. i \in DOMAIN v.queued /\ RequestOf(v, i) = v.queued[i].req
        BY <3>2 DEF Present, RequestOf
      <4>2. i \in DOMAIN u.queued /\ v.queued[i].req.parent = t.queued[i].req.parent
        BY <1>4, <1>8, <1>10, <1>11, <1>13, <4>1 DEF SofterEntry
      <4>3. i \in QueuedOf(t, s)
        BY <1>4, <1>8, <2>2, <4>1, <4>2 DEF QueuedOf
      <4> QED
        BY <1>10, <1>13, <4>1, <4>2, <4>3
    <3> QED
      BY <3>1, <3>2
  <2> QED
    BY <2>1, <2>2 DEF Muted
<1>19. /\ DOMAIN v.queued = DOMAIN t.queued
       /\ \A i \in DOMAIN t.queued : v.queued[i].req.parent = t.queued[i].req.parent
  BY <1>4, <1>8, <1>10, <1>11, <1>13 DEF SofterEntry
<1> QED
  BY <1>1, <1>13, <1>17, <1>18, <1>19

\* A delete closes the session only once its queue is gone and it is muted.
LEMMA TeardownKept ==
    ASSUME NEW t \in State, Homed(t), Kept(t), NEW s \in Sessions, NEW responder \in BOOLEAN
    PROVE  Kept(Teardown(t, s, responder))
<1> DEFINE v == Silenced(t, s)
           R == QueuedOf(t, s)
           w == RemoveQueued(v, R)
           x == [w EXCEPT !.drains = w.drains \cup {s}, !.blocked = w.blocked \cup {s}]
<1>1. Teardown(t, s, responder) = IF responder /\ SessionHasChildren(w, s) THEN x ELSE w
  BY DEF Teardown
<1>2. /\ v \in State /\ Kept(v) /\ Homed(v) /\ Muted(v, {s})
      /\ DOMAIN v.queued = DOMAIN t.queued
      /\ \A i \in DOMAIN t.queued : v.queued[i].req.parent = t.queued[i].req.parent
  BY SilencedKept
<1> HIDE DEF v
<1>3. R \in SUBSET DOMAIN v.queued /\ {} \in SUBSET R /\ {s} \in SUBSET Sessions
  BY <1>2 DEF QueuedOf
<1>4. \A i \in DOMAIN v.queued \ R : v.queued[i].req.parent # s
  BY <1>2 DEF QueuedOf
<1> HIDE DEF R
<1>5. Good(v, {}, {}) /\ QueueFull(v)
  BY <1>2 DEF Kept
<1>6. Kept(w) /\ Shorter(v, R, w) /\ Muted(w, {s})
  BY <1>2, <1>3, <1>5, RemoveQueuedKept
<1>7. w \in State
  BY <1>2, <1>3, RemoveQueuedType
<1> HIDE DEF w
<1>8. /\ x.queued = w.queued /\ x.pending = w.pending /\ x.active = w.active
      /\ x.graph = w.graph /\ x.completed = w.completed /\ x.parked = w.parked
      /\ x.waiters = w.waiters /\ x.outputs = w.outputs /\ x.drains = w.drains \cup {s}
      /\ x.blocked = w.blocked \cup {s} /\ x.buffer = w.buffer
      /\ x.runWaiters = w.runWaiters /\ x.callers = w.callers
  BY <1>7 DEF State, StateOver
<1> HIDE DEF x
<1>9. Kept(x)
  <2>1. /\ Promised(x) /\ HeldBut(x, {}) /\ TicketsDiffer(x) /\ FitsBut(x, {}) /\ QueueFull(x)
    BY <1>6, <1>8, SameMapsGood DEF Kept, Good
  <2>2. /\ Present(x) = Present(w)
        /\ \A i : RequestOf(x, i) = RequestOf(w, i)
        /\ \A r : RunOutstanding(x, r) = RunOutstanding(w, r)
    BY <1>8, SameMapsGood
  <2>3. \A i \in DOMAIN w.queued : w.queued[i].req.parent \notin w.blocked \cup {s}
    BY <1>4, <1>6 DEF Shorter, Kept, Good, QuietBut
  <2>4. Muted(x, x.drains)
    BY <1>6, <1>8, <2>2 DEF Muted, Kept, Good, QuietBut
  <2>5. QuietBut(x, {})
    BY <1>6, <1>8, <2>3, <2>4 DEF Kept, Good, QuietBut
  <2>6. RunsOutstanding(x)
    BY <1>6, <1>8, <2>2 DEF Kept, Good, RunsOutstanding
  <2> QED
    BY <2>1, <2>5, <2>6 DEF Kept, Good
<1> QED
  BY <1>1, <1>6, <1>9

-----------------------------------------------------------------------------
(* The runner of a child reports *)

\* A child that was pending is active; it keeps the messages parked on it only
\* if its start is still to be settled.
LEMMA ActivatedKept ==
    ASSUME NEW t \in State, Homed(t), Kept(t), NEW i \in DOMAIN t.pending, NEW d \in Child,
           d.req = t.pending[i].req, d.reply = t.pending[i].reply,
           d.handleOnly = t.pending[i].handleOnly, d.wakeOf \in {None, t.pending[i].wakeOf},
           NEW P \in SUBSET t.parked, \A m \in P : m[1] = i => d.wakeOf # None
    PROVE  LET u == [t EXCEPT !.pending = Drop(t.pending, {i}),
                              !.active = Put(t.active, i, d), !.parked = P]
           IN  u \in State /\ Homed(u) /\ Kept(u)
<1> DEFINE u == [t EXCEPT !.pending = Drop(t.pending, {i}),
                          !.active = Put(t.active, i, d), !.parked = P]
<1>1. /\ DOMAIN Drop(t.pending, {i}) = DOMAIN t.pending \ {i}
      /\ \A j \in DOMAIN t.pending \ {i} : Drop(t.pending, {i})[j] = t.pending[j]
  BY DEF Drop, Restrict
<1>2. /\ DOMAIN Put(t.active, i, d) = DOMAIN t.active \cup {i}
      /\ Put(t.active, i, d)[i] = d
      /\ \A j \in DOMAIN t.active \ {i} : Put(t.active, i, d)[j] = t.active[j]
  BY DEF Put
<1>3. Drop(t.pending, {i}) \in MapOf(Child) /\ Put(t.active, i, d) \in MapOf(Child)
  <2>1. i \in Ids
    BY DomainFacts
  <2> QED
    BY <2>1, StateFields, DropType, PutType
<1>4. P \in SUBSET (Ids \X BOOLEAN)
  BY StateFields
<1>5. /\ u.queued = t.queued /\ u.pending = Drop(t.pending, {i})
      /\ u.active = Put(t.active, i, d) /\ u.parked = P
      /\ u.graph = t.graph /\ u.completed = t.completed
      /\ u.waiters = t.waiters /\ u.outputs = t.outputs /\ u.drains = t.drains
      /\ u.blocked = t.blocked /\ u.buffer = t.buffer
      /\ u.runWaiters = t.runWaiters /\ u.callers = t.callers
      /\ u \in State
  BY <1>3, <1>4 DEF State, StateOver
<1> HIDE DEF u
<1>6. i \notin DOMAIN t.active /\ i \notin DOMAIN t.queued
  BY DEF Homed, Live
<1>7. /\ DOMAIN u.pending = DOMAIN t.pending \ {i} /\ DOMAIN u.active = DOMAIN t.active \cup {i}
      /\ u.active[i] = d
      /\ \A j \in DOMAIN u.pending : u.pending[j] = t.pending[j]
      /\ \A j \in DOMAIN t.active : u.active[j] = t.active[j]
  BY <1>1, <1>2, <1>5, <1>6
<1>8. Live(u) = Live(t) /\ Present(u) = Present(t) /\ i \in Live(t)
  BY <1>5, <1>7 DEF Live, Present
<1>9. \A j \in Live(t) \ {i} : ChildOf(u, j) = ChildOf(t, j)
  BY <1>6, <1>7 DEF Live, ChildOf
<1>10. ChildOf(u, i) = d /\ ChildOf(t, i) = t.pending[i]
  BY <1>6, <1>7 DEF ChildOf
<1>11. \A j \in Live(t) : /\ ChildOf(u, j).req = ChildOf(t, j).req
                          /\ ChildOf(u, j).reply = ChildOf(t, j).reply
                          /\ ChildOf(u, j).handleOnly = ChildOf(t, j).handleOnly
                          /\ ChildOf(u, j).wakeOf \in {None, ChildOf(t, j).wakeOf}
                          /\ j # i => ChildOf(u, j).wakeOf = ChildOf(t, j).wakeOf
  BY <1>9, <1>10
<1>12. \A j \in Present(t) : /\ RequestOf(u, j) = RequestOf(t, j) /\ Owes(u, j) = Owes(t, j)
                             /\ Prior(u, j) \in {None, Prior(t, j)}
                             /\ j # i => Prior(u, j) = Prior(t, j)
  BY <1>5, <1>8, <1>11 DEF RequestOf, Owes, Prior, Present
<1>13. Prior(u, i) = d.wakeOf
  BY <1>8, <1>10 DEF Prior
<1>14. Homed(u)
  BY <1>5, <1>6, <1>7 DEF Homed, Known, Live
<1>15. Onward(t, u)
  <2>1. ChildrenOnward(t, u)
    BY <1>5, <1>8, <1>11, <1>12 DEF ChildrenOnward
  <2>2. WaitingOnward(t, u)
    <3>1. ASSUME NEW m \in u.parked
          PROVE  /\ m \in t.parked /\ m[1] \in Present(u)
                 /\ m[1] \in DOMAIN u.active =>
                       \/ Prior(u, m[1]) # None
                       \/ m[1] \in DOMAIN t.active /\ Prior(u, m[1]) = Prior(t, m[1])
      <4>1. m \in t.parked /\ m[1] \in Present(t)
        BY <1>5 DEF Kept, Good, Promised, ParkedOwed
      <4>2. CASE m[1] = i
        BY <1>5, <1>8, <1>13, <4>1, <4>2
      <4>3. CASE m[1] # i
        BY <1>7, <1>8, <1>12, <4>1, <4>3
      <4> QED
        BY <4>2, <4>3
    <3>2. \A j \in Ids : u.waiters[j] # "none" => t.waiters[j] # "none" /\ j \in Present(u)
      BY <1>5, <1>8 DEF Kept, Good, Promised, WaitersOwed
    <3> QED
      BY <1>5, <1>8, <1>12, <3>1, <3>2 DEF WaitingOnward
  <2>3. RecordsOnward(t, u)
    BY <1>5 DEF RecordsOnward
  <2> QED
    BY <2>1, <2>2, <2>3 DEF Onward
<1>16. Promised(u)
  BY <1>5, <1>14, <1>15, OnwardPromised DEF Kept, Good
<1>17. HeldBut(u, {})
  BY <1>5, <1>6, <1>7 DEF HeldBut, Kept, Good
<1>18. QuietBut(u, {})
  BY <1>5, <1>8, <1>12 DEF Kept, Good, QuietBut, Muted
<1>19. \A s : Running(u, s) = Running(t, s) /\ RunOutstanding(u, s) = RunOutstanding(t, s)
  BY <1>8, <1>11 DEF Running, RunOutstanding
<1>20. RunsOutstanding(u) /\ TicketsDiffer(u) /\ FitsBut(u, {}) /\ QueueFull(u)
  BY <1>5, <1>19
     DEF Kept, Good, RunsOutstanding, TicketsDiffer, FitsBut, QueueFull, HasCapacity
<1>21. Kept(u)
  BY <1>16, <1>17, <1>18, <1>20 DEF Kept, Good
<1> QED
  BY <1>5, <1>14, <1>21 DEF u

\* Fewer messages are parked.
LEMMA UnparkKept ==
    ASSUME NEW t \in State, Homed(t), Kept(t), NEW P \in SUBSET t.parked
    PROVE  LET u == [t EXCEPT !.parked = P]
           IN  u \in State /\ Homed(u) /\ Kept(u)
<1> DEFINE u == [t EXCEPT !.parked = P]
<1>1. P \in SUBSET (Ids \X BOOLEAN)
  BY StateFields
<1>2. /\ u.queued = t.queued /\ u.pending = t.pending /\ u.active = t.active /\ u.parked = P
      /\ u.graph = t.graph /\ u.completed = t.completed
      /\ u.waiters = t.waiters /\ u.outputs = t.outputs /\ u.drains = t.drains
      /\ u.blocked = t.blocked /\ u.buffer = t.buffer
      /\ u.runWaiters = t.runWaiters /\ u.callers = t.callers
      /\ u \in State
  BY <1>1 DEF State, StateOver
<1> HIDE DEF u
<1>3. u.drains \subseteq u.blocked
  BY <1>2 DEF Kept, Good, QuietBut
<1>4. Kept(u) /\ Homed(u)
  BY <1>2, <1>3, LessKept
<1> QED
  BY <1>2, <1>4 DEF u

-----------------------------------------------------------------------------
(* The initial record, and the steps of the environment *)

LEMMA FreshKept == Kept(Fresh)
<1> DEFINE t == Fresh
<1>1. /\ DOMAIN t.queued = {} /\ DOMAIN t.pending = {} /\ DOMAIN t.active = {}
      /\ DOMAIN t.completed = {} /\ DOMAIN t.graph = {} /\ DOMAIN t.outputs = {}
      /\ t.parked = {} /\ t.runWaiters = {} /\ t.drains = {} /\ t.blocked = {} /\ t.buffer = {}
      /\ \A i \in Ids : t.waiters[i] = "none" /\ t.callers[i] = "none"
  BY DEF Fresh
<1> HIDE DEF t
<1>2. Live(t) = {} /\ Present(t) = {}
  BY <1>1 DEF Live, Present
<1>3. Promised(t)
  BY <1>1, <1>2 DEF Promised, CallersOwed, WaitersOwed, ParkedOwed, Delivered, Owned,
                    WakesGenuine, Unanswered, QueueOfTasks
<1>4. HeldBut(t, {}) /\ QuietBut(t, {}) /\ RunsOutstanding(t) /\ TicketsDiffer(t) /\ QueueFull(t)
  BY <1>1, <1>2 DEF HeldBut, QuietBut, Muted, RunsOutstanding, TicketsDiffer, QueueFull
<1>5. FitsBut(t, {})
  <2>1. \A s : Running(t, s) \ {} = {}
    BY <1>2 DEF Running
  <2>2. Cardinality({}) = 0
    BY FS_EmptySet
  <2> QED
    BY <2>1, <2>2, LimitPositive DEF FitsBut
<1> QED
  BY <1>3, <1>4, <1>5 DEF Kept, Good, t

\* A caller drops its receiver.
LEMMA CallerGoneKept ==
    ASSUME NEW t \in State, Homed(t), Kept(t), NEW i \in Ids
    PROVE  LET u == [t EXCEPT !.callers[i] = "gone"]
           IN  u \in State /\ Homed(u) /\ Kept(u)
<1> DEFINE u == [t EXCEPT !.callers[i] = "gone"]
<1>1. u \in State
  BY CallerType DEF CallerView
<1>2. /\ u.queued = t.queued /\ u.pending = t.pending /\ u.active = t.active
      /\ u.graph = t.graph /\ u.completed = t.completed /\ u.parked = t.parked
      /\ u.waiters = t.waiters /\ u.outputs = t.outputs /\ u.drains = t.drains
      /\ u.blocked = t.blocked /\ u.buffer = t.buffer
      /\ u.runWaiters = t.runWaiters /\ u.callers = [t.callers EXCEPT ![i] = "gone"]
  BY DEF State, StateOver
<1>3. \A j \in Ids : u.callers[j] = t.callers[j] \/ u.callers[j] = "gone"
  <2>1. t.callers \in [Ids -> CallerView]
    BY StateFields
  <2> QED
    BY <1>2, <2>1
<1> HIDE DEF u
<1>4. SameLive(t, u) /\ Homed(u)
  BY <1>2 DEF SameLive, Homed, Known, Live
<1>5. Kept(u)
  BY <1>1, <1>2, <1>3, <1>4, SameLiveOnward
<1> QED
  BY <1>1, <1>4, <1>5 DEF u

\* The token of a queued spawn is cancelled by its owner.
LEMMA QueuedTokenKept ==
    ASSUME NEW t \in State, Homed(t), Kept(t), NEW i \in DOMAIN t.queued, t.queued[i].wake = None
    PROVE  LET u == [t EXCEPT !.queued[i].cancelled = TRUE]
           IN  u \in State /\ Homed(u) /\ Kept(u)
<1> DEFINE q == [t.queued EXCEPT ![i].cancelled = TRUE]
           u == [t EXCEPT !.queued[i].cancelled = TRUE]
<1>1. \A j \in DOMAIN t.queued : t.queued[j] \in QueuedSpawn
  BY StateFields, MapElement
<1>2. t.queued \in [DOMAIN t.queued -> QueuedSpawn]
  BY StateFields, MapOfDef DEF IsMap
<1>3. [t.queued[i] EXCEPT !.cancelled = TRUE] \in QueuedSpawn
  BY <1>1 DEF QueuedSpawn
<1>4. q \in [DOMAIN t.queued -> QueuedSpawn] /\ DOMAIN q = DOMAIN t.queued
  BY <1>2, <1>3
<1>5. ASSUME NEW j \in DOMAIN t.queued
      PROVE  SofterEntry(t.queued[j], q[j], t.callers[j] = "waiting")
  <2>1. CASE j = i
    BY <1>1, <1>2, <2>1 DEF SofterEntry, QueuedSpawn
  <2>2. CASE j # i
    BY <1>2, <2>2 DEF SofterEntry
  <2> QED
    BY <2>1, <2>2
<1>6. u = [t EXCEPT !.queued = q]
  OBVIOUS
<1> HIDE DEF q
<1>7. q \in MapOf(QueuedSpawn)
  BY <1>4, DomainFacts, RewriteType
<1>8. /\ u.queued = q /\ u.pending = t.pending /\ u.active = t.active
      /\ u.graph = t.graph /\ u.completed = t.completed /\ u.parked = t.parked
      /\ u.waiters = t.waiters /\ u.outputs = t.outputs /\ u.drains = t.drains
      /\ u.blocked = t.blocked /\ u.buffer = t.buffer
      /\ u.runWaiters = t.runWaiters /\ u.callers = t.callers
      /\ u \in State
  BY <1>6, <1>7 DEF State, StateOver
<1> HIDE DEF u
<1>9. SofterMaps(t, u) /\ SameHomes(t, u)
  BY <1>4, <1>5, <1>8 DEF SofterMaps, SofterChild, SameHomes
<1>10. Eased(t, u, {})
  <2>1. QuietBut(t, {})
    BY DEF Kept, Good
  <2> QED
    BY <1>8, <1>9, <2>1, RewriteEased
<1>11. Kept(u) /\ Homed(u)
  BY <1>8, <1>10, EasedKept
<1> QED
  BY <1>8, <1>11 DEF u

LEMMA PendingTokenKept ==
    ASSUME NEW t \in State, Homed(t), Kept(t), NEW i \in DOMAIN t.pending
    PROVE  LET u == [t EXCEPT !.pending[i].cancelled = TRUE]
           IN  u \in State /\ Homed(u) /\ Kept(u)
<1> DEFINE q == [t.pending EXCEPT ![i].cancelled = TRUE]
           u == [t EXCEPT !.pending[i].cancelled = TRUE]
<1>1. \A j \in DOMAIN t.pending : t.pending[j] \in Child
  BY StateFields, MapElement
<1>2. t.pending \in [DOMAIN t.pending -> Child]
  BY StateFields, MapOfDef DEF IsMap
<1>3. [t.pending[i] EXCEPT !.cancelled = TRUE] \in Child
  BY <1>1 DEF Child
<1>4. q \in [DOMAIN t.pending -> Child] /\ DOMAIN q = DOMAIN t.pending
  BY <1>2, <1>3
<1>5. ASSUME NEW j \in DOMAIN t.pending
      PROVE  SofterChild(t.pending[j], q[j], t.callers[j] = "waiting")
  <2>1. CASE j = i
    BY <1>1, <1>2, <2>1 DEF SofterChild, Child
  <2>2. CASE j # i
    BY <1>2, <2>2 DEF SofterChild
  <2> QED
    BY <2>1, <2>2
<1>6. u = [t EXCEPT !.pending = q]
  OBVIOUS
<1> HIDE DEF q
<1>7. q \in MapOf(Child)
  BY <1>4, DomainFacts, RewriteType
<1>8. /\ u.queued = t.queued /\ u.pending = q /\ u.active = t.active
      /\ u.graph = t.graph /\ u.completed = t.completed /\ u.parked = t.parked
      /\ u.waiters = t.waiters /\ u.outputs = t.outputs /\ u.drains = t.drains
      /\ u.blocked = t.blocked /\ u.buffer = t.buffer
      /\ u.runWaiters = t.runWaiters /\ u.callers = t.callers
      /\ u \in State
  BY <1>6, <1>7 DEF State, StateOver
<1> HIDE DEF u
<1>9. SofterMaps(t, u) /\ SameHomes(t, u)
  BY <1>4, <1>5, <1>8 DEF SofterMaps, SofterChild, SofterEntry, SameHomes
<1>10. Eased(t, u, {})
  <2>1. QuietBut(t, {})
    BY DEF Kept, Good
  <2> QED
    BY <1>8, <1>9, <2>1, RewriteEased
<1>11. Kept(u) /\ Homed(u)
  BY <1>8, <1>10, EasedKept
<1> QED
  BY <1>8, <1>11 DEF u

LEMMA ActiveTokenKept ==
    ASSUME NEW t \in State, Homed(t), Kept(t), NEW i \in DOMAIN t.active
    PROVE  LET u == [t EXCEPT !.active[i].cancelled = TRUE]
           IN  u \in State /\ Homed(u) /\ Kept(u)
<1> DEFINE c == [t.active[i] EXCEPT !.cancelled = TRUE]
           u == [t EXCEPT !.active[i].cancelled = TRUE]
<1>1. t.active[i] \in Child
  BY StateFields, MapElement
<1>2. /\ c \in Child /\ SofterChild(t.active[i], c, t.callers[i] = "waiting")
      /\ c.wakeOf = t.active[i].wakeOf /\ c.phase = t.active[i].phase
      /\ c.inFlight = t.active[i].inFlight
  BY <1>1 DEF Child, SofterChild
<1>3. u = [t EXCEPT !.active[i] = c]
  OBVIOUS
<1> HIDE DEF c
<1>4. u \in State
  BY <1>2, <1>3, ActiveUpdateType
<1>5. Eased(t, u, {})
  BY <1>2, <1>3, ActiveEased DEF Kept, Good
<1> HIDE DEF u
<1>6. Homed(u) /\ Kept(u)
  BY <1>4, <1>5, EasedKept
<1> QED
  BY <1>4, <1>6 DEF u

\* The host finished publishing a terminal record.
LEMMA PublishedKept ==
    ASSUME NEW t \in State, Homed(t), Kept(t), NEW i \in DOMAIN t.completed
    PROVE  LET u == [t EXCEPT !.completed[i].published = TRUE, !.notices = t.notices \cup {i}]
           IN  u \in State /\ Homed(u) /\ Kept(u)
<1> DEFINE q == [t.completed EXCEPT ![i].published = TRUE]
           u == [t EXCEPT !.completed[i].published = TRUE, !.notices = t.notices \cup {i}]
<1>1. \A j \in DOMAIN t.completed : t.completed[j] \in CompletedChild
  BY StateFields, MapElement
<1>2. t.completed \in [DOMAIN t.completed -> CompletedChild]
  BY StateFields, MapOfDef DEF IsMap
<1>3. [t.completed[i] EXCEPT !.published = TRUE] \in CompletedChild
  BY <1>1 DEF CompletedChild
<1>4. q \in [DOMAIN t.completed -> CompletedChild] /\ DOMAIN q = DOMAIN t.completed
  BY <1>2, <1>3
<1>5. \A j \in DOMAIN t.completed : /\ q[j].req = t.completed[j].req
                                    /\ q[j].surfaced = t.completed[j].surfaced
  BY <1>1, <1>2 DEF CompletedChild
<1>6. u = [t EXCEPT !.completed = q, !.notices = t.notices \cup {i}]
  OBVIOUS
<1> HIDE DEF q
<1>7. q \in MapOf(CompletedChild) /\ i \in Ids
  BY <1>4, DomainFacts, RewriteType
<1>8. /\ u.queued = t.queued /\ u.pending = t.pending /\ u.active = t.active
      /\ u.graph = t.graph /\ u.completed = q /\ u.parked = t.parked
      /\ u.waiters = t.waiters /\ u.outputs = t.outputs /\ u.drains = t.drains
      /\ u.blocked = t.blocked /\ u.buffer = t.buffer
      /\ u.runWaiters = t.runWaiters /\ u.callers = t.callers
      /\ u \in State
  BY <1>6, <1>7 DEF State, StateOver
<1> HIDE DEF u
<1>9. SameLive(t, u) /\ Homed(u)
  BY <1>4, <1>8 DEF SameLive, Homed, Known, Live
<1>10. Kept(u)
  BY <1>4, <1>5, <1>8, <1>9, SameLiveOnward
<1> QED
  BY <1>8, <1>9, <1>10 DEF u
=============================================================================
