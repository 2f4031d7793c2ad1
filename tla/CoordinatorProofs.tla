------------------------- MODULE CoordinatorProofs --------------------------
(***************************************************************************)
(* Theorems about the coordinator actor, for every set of ids, sessions,   *)
(* prompts and runs, every limit and every bound.  The inductive invariant *)
(* is TypeOK, OneHome, the promises of CoordinatorPromises, that every     *)
(* waiting turn has a child to wait for (restored by the loop's tail after *)
(* every event) and that completion ages are taken once (by which evicted  *)
(* records are old ones).  For the action properties every step is shown   *)
(* to be eventful: the children, the queue and the records go on as they   *)
(* were but for the sweep, or one child ends, or one child joins.          *)
(***************************************************************************)
EXTENDS Coordinator, CoordinatorPromises

\* Inside an event.
Sound(t) == t \in State /\ Homed(t) /\ Kept(t)

TurnsBlocked(t) == \A w \in t.drainWaiters : TurnBlocking(t, w) # {}

\* Between two events.
Settled(t) == Sound(t) /\ TurnsBlocked(t)

\* An event ends in the loop's tail.
LEMMA EventSettled ==
    ASSUME NEW t, Sound(t), Event(t)
    PROVE  Settled(co')
<1>1. LoopTail(t) \in State /\ Homed(LoopTail(t))
  BY LoopTailType, LoopTailHomed DEF Sound
<1>2. Kept(LoopTail(t)) /\ \A w \in LoopTail(t).drainWaiters : TurnBlocking(LoopTail(t), w) # {}
  BY LoopTailKept DEF Sound
<1> QED
  BY <1>1, <1>2 DEF Event, Settled, Sound, TurnsBlocked

LEMMA ReapSound ==
    ASSUME NEW t, Sound(t)
    PROVE  Sound(Reap(t))
BY ReapType, ReapHomed, ReapKept DEF Sound

LEMMA CommandSettled ==
    ASSUME Sound(co)
    PROVE  /\ \A i \in Ids, r \in Requests : Spawn(i, r) => Settled(co')
           /\ \A i \in Ids : Query(i) => Settled(co')
           /\ \A i \in Ids, s \in Parents : Cancel(i, s) => Settled(co')
           /\ \A s \in Sessions, p \in Prompts : CancelPrompt(s, p) => Settled(co')
           /\ \A s \in Sessions : Stop(s) \/ OpenSpawnAdmission(s) => Settled(co')
           /\ \A s \in Sessions, suppressed \in SUBSET Ids :
                 TakeCompletions(s, suppressed) => Settled(co')
           /\ \A run \in Runs, s \in Sessions \cup {None} : CancelWorkflow(run, s) => Settled(co')
           /\ \A s \in Sessions, responder \in BOOLEAN :
                 TeardownSession(s, responder) => Settled(co')
           /\ \A scope \in Scopes :
                 WaitPromptDrained(scope) \/ HandOffForeground(scope) => Settled(co')
<1> DEFINE t == Reap(co)
<1>1. Sound(t)
  BY ReapSound
<1>2. t \in State /\ Homed(t) /\ Kept(t)
  BY <1>1 DEF Sound
<1>3. ASSUME NEW i \in Ids, NEW r \in Requests, Spawn(i, r) PROVE Settled(co')
  <2>1. Event(HandleSpawn(t, i, r))
    BY <1>3 DEF Spawn
  <2> HIDE DEF t
  <2>2. Sound(HandleSpawn(t, i, r))
    BY <1>2, HandleSpawnType, HandleSpawnHomed, HandleSpawnKept, RequestsTyped DEF Sound
  <2> QED
    BY <2>1, <2>2, EventSettled
<1>4. ASSUME NEW i \in Ids, Query(i) PROVE Settled(co')
  <2> DEFINE u == [t EXCEPT !.waiters[i] = "open"]
  <2>1. Event(u) /\ i \in Live(t) \cup DOMAIN t.queued /\ RequestOf(t, i).run = None
    BY <1>4 DEF Query
  <2> HIDE DEF t
  <2>2. u \in State /\ SameHomes(t, u)
    BY <1>2 DEF State, StateOver, WaiterView, SameHomes
  <2>3. Kept(u)
    BY <1>2, <2>1, QueryKept DEF Present
  <2> HIDE DEF u
  <2> QED
    BY <1>2, <2>1, <2>2, <2>3, SameHomesHomed, EventSettled DEF Sound
<1>5. ASSUME NEW i \in Ids, NEW s \in Parents, Cancel(i, s) PROVE Settled(co')
  <2>1. Event(CancelOne(t, i))
    BY <1>5 DEF Cancel
  <2> HIDE DEF t
  <2> QED
    BY <1>2, <2>1, CancelOneType, CancelOneHomed, CancelOneKept,
       EventSettled DEF Sound
<1>6. ASSUME NEW s \in Sessions, NEW p \in Prompts, CancelPrompt(s, p) PROVE Settled(co')
  <2>1. Event(CancelParentPrompt(t, s, p))
    BY <1>6 DEF CancelPrompt
  <2> HIDE DEF t
  <2> QED
    BY <1>2, <2>1, CancelParentPromptType, CancelParentPromptHomed, CancelParentPromptKept,
       EventSettled DEF Sound
<1>7. ASSUME NEW s \in Sessions, Stop(s) PROVE Settled(co')
  <2>1. Event(CancelParentSession(t, s)) /\ s \in Parents
    BY <1>7 DEF Stop, Parents
  <2> HIDE DEF t
  <2> QED
    BY <1>2, <2>1, CancelParentSessionType, CancelParentSessionHomed, CancelParentSessionKept,
       EventSettled DEF Sound
<1>8. ASSUME NEW s \in Sessions, OpenSpawnAdmission(s) PROVE Settled(co')
  <2> DEFINE u == [t EXCEPT !.blocked = IF s \in t.drains THEN t.blocked ELSE t.blocked \ {s}]
  <2>1. Event(u)
    BY <1>8 DEF OpenSpawnAdmission
  <2> HIDE DEF t
  <2>2. u \in State
    BY <1>2 DEF State, StateOver
  <2>3. /\ u.queued = t.queued /\ u.pending = t.pending /\ u.active = t.active
        /\ u.graph = t.graph /\ u.completed = t.completed /\ u.parked = t.parked
        /\ u.waiters = t.waiters /\ u.outputs = t.outputs /\ u.drains = t.drains
        /\ u.runWaiters = t.runWaiters /\ u.callers = t.callers
        /\ u.blocked \subseteq t.blocked /\ u.buffer \subseteq t.buffer
        /\ u.drains \subseteq u.blocked
    <3>1. t.drains \subseteq t.blocked
      BY <1>2 DEF Kept, Good, QuietBut
    <3> QED
      BY <1>2, <3>1 DEF State, StateOver
  <2> HIDE DEF u
  <2>4. Kept(u) /\ Homed(u)
    BY <1>2, <2>2, <2>3, LessKept
  <2> QED
    BY <2>1, <2>2, <2>4, EventSettled DEF Sound
<1>9. ASSUME NEW s \in Sessions, NEW suppressed \in SUBSET Ids, TakeCompletions(s, suppressed)
      PROVE  Settled(co')
  <2> DEFINE u == [t EXCEPT !.buffer = {b \in t.buffer : b[1] # s \/ b[2] \in suppressed}]
  <2>1. Event(u)
    BY <1>9 DEF TakeCompletions
  <2> HIDE DEF t
  <2>2. u \in State
    BY <1>2 DEF State, StateOver
  <2>3. /\ u.queued = t.queued /\ u.pending = t.pending /\ u.active = t.active
        /\ u.graph = t.graph /\ u.completed = t.completed /\ u.parked = t.parked
        /\ u.waiters = t.waiters /\ u.outputs = t.outputs /\ u.drains = t.drains
        /\ u.runWaiters = t.runWaiters /\ u.callers = t.callers
        /\ u.blocked \subseteq t.blocked /\ u.buffer \subseteq t.buffer
        /\ u.drains \subseteq u.blocked
    <3>1. t.drains \subseteq t.blocked
      BY <1>2 DEF Kept, Good, QuietBut
    <3> QED
      BY <1>2, <3>1 DEF State, StateOver
  <2> HIDE DEF u
  <2>4. Kept(u) /\ Homed(u)
    BY <1>2, <2>2, <2>3, LessKept
  <2> QED
    BY <2>1, <2>2, <2>4, EventSettled DEF Sound
<1>10. ASSUME NEW run \in Runs, NEW s \in Sessions \cup {None}, CancelWorkflow(run, s)
       PROVE  Settled(co')
  <2>1. Event(CancelRun(t, run, s))
    BY <1>10 DEF CancelWorkflow
  <2> HIDE DEF t
  <2> QED
    BY <1>2, <2>1, CancelRunType, CancelRunHomed, CancelRunGood,
       EventSettled DEF Sound
<1>11. ASSUME NEW s \in Sessions, NEW responder \in BOOLEAN, TeardownSession(s, responder)
       PROVE  Settled(co')
  <2>1. Event(Teardown(t, s, responder)) /\ s \in Parents
    BY <1>11 DEF TeardownSession, Parents
  <2> HIDE DEF t
  <2> QED
    BY <1>2, <2>1, TeardownType, TeardownHomed, TeardownKept,
       EventSettled DEF Sound
<1>12. ASSUME NEW scope \in Scopes, WaitPromptDrained(scope) PROVE Settled(co')
  <2> DEFINE u == [t EXCEPT !.drainWaiters = t.drainWaiters \cup {scope}]
  <2>1. Event(u)
    BY <1>12 DEF WaitPromptDrained
  <2> HIDE DEF t
  <2>2. u \in State
    BY <1>2 DEF State, StateOver
  <2>3. /\ u.queued = t.queued /\ u.pending = t.pending /\ u.active = t.active
        /\ u.graph = t.graph /\ u.completed = t.completed /\ u.parked = t.parked
        /\ u.waiters = t.waiters /\ u.outputs = t.outputs /\ u.drains = t.drains
        /\ u.runWaiters = t.runWaiters /\ u.callers = t.callers
        /\ u.blocked \subseteq t.blocked /\ u.buffer \subseteq t.buffer
        /\ u.drains \subseteq u.blocked
    <3>1. t.drains \subseteq t.blocked
      BY <1>2 DEF Kept, Good, QuietBut
    <3> QED
      BY <1>2, <3>1 DEF State, StateOver
  <2> HIDE DEF u
  <2>4. Kept(u) /\ Homed(u)
    BY <1>2, <2>2, <2>3, LessKept
  <2> QED
    BY <2>1, <2>2, <2>4, EventSettled DEF Sound
<1>13. ASSUME NEW scope \in Scopes, HandOffForeground(scope) PROVE Settled(co')
  <2> DEFINE H == HandedOff(t, scope)
  <2>1. Event(HandOff(t, H, "released"))
    BY <1>13 DEF HandOffForeground
  <2> HIDE DEF t, H
  <2>2. HandOff(t, H, "released") \in State /\ SameHomes(t, HandOff(t, H, "released"))
    BY <1>2, HandOffType, HandOffHomes DEF CallerView
  <2>3. Eased(t, HandOff(t, H, "released"), {})
    BY <1>2, HandOffEased DEF Kept, Good, CallerView
  <2>4. Sound(HandOff(t, H, "released"))
    BY <1>2, <2>2, <2>3, EasedKept DEF Sound
  <2> QED
    BY <2>1, <2>4, EventSettled
<1> QED
  BY <1>3, <1>4, <1>5, <1>6, <1>7, <1>8, <1>9, <1>10, <1>11, <1>12, <1>13

LEMMA MessageSettled ==
    ASSUME Sound(co)
    PROVE  /\ \A i \in Ids : Send(i) => Settled(co')
           /\ \A i \in Ids, settled \in BOOLEAN : MessageSettles(i, settled) => Settled(co')
           /\ \A i \in Ids, more \in BOOLEAN : TerminalPublished(i, more) => Settled(co')
<1>0. co \in State /\ Homed(co) /\ Kept(co)
  BY DEF Sound
<1>1. ASSUME NEW i \in Ids, Send(i) PROVE Settled(co')
  <2>1. Event(SendMessage(co, i))
    BY <1>1 DEF Send
  <2> QED
    BY <1>0, <2>1, SendMessageType, SendMessageHomed, SendMessageKept, EventSettled DEF Sound
<1>2. ASSUME NEW i \in Ids, NEW settled \in BOOLEAN, MessageSettles(i, settled)
      PROVE  Settled(co')
  <2> DEFINE d == [co.active[i] EXCEPT !.inFlight = co.active[i].inFlight - 1,
                                       !.clean = co.active[i].clean /\ settled]
             t == [co EXCEPT !.active[i].inFlight = co.active[i].inFlight - 1,
                             !.active[i].clean = co.active[i].clean /\ settled]
  <2>1. i \in DOMAIN co.active /\ co.active[i].inFlight > 0
    BY <1>2 DEF MessageSettles
  <2>2. d \in Child
    <3>1. co.active[i] \in Child
      BY <1>0, <2>1, StateFields, MapElement
    <3>2. co.active[i].inFlight \in Nat /\ co.active[i].clean \in BOOLEAN
      BY <3>1 DEF Child
    <3>3. co.active[i].inFlight - 1 \in Nat
      BY <2>1, <3>2
    <3> QED
      BY <3>1, <3>2, <3>3 DEF Child
  <2>3. t = [co EXCEPT !.active[i] = d] /\ t.outputs = co.outputs
    BY <1>0, <2>1 DEF State, StateOver
  <2>9. /\ d.req = co.active[i].req /\ d.wakeOf = co.active[i].wakeOf
        /\ d.reply = co.active[i].reply /\ d.handleOnly = co.active[i].handleOnly
        /\ d.phase = co.active[i].phase
    <3>1. co.active[i] \in Child
      BY <1>0, <2>1, StateFields, MapElement
    <3> QED
      BY <3>1 DEF Child
  <2>4. Event(IF t.active[i].inFlight = 0 /\ i \in DOMAIN t.outputs
              THEN FinishTerminalized(t, i, t.outputs[i]) ELSE t)
    BY <1>2 DEF MessageSettles
  <2> HIDE DEF t, d
  <2>5. t \in State
    BY <1>0, <2>1, <2>2, <2>3, ActiveUpdateType
  <2>6. Eased(co, t, {i})
    <3>1. SofterChild(co.active[i], d, co.callers[i] = "waiting") /\ d.wakeOf = co.active[i].wakeOf
      BY <2>9 DEF SofterChild
    <3>2. QuietBut(co, {})
      BY <1>0 DEF Kept, Good
    <3> QED
      BY <1>0, <2>1, <2>2, <2>3, <3>1, <3>2, ActiveEased
  <2>7. Good(t, {i}, {}) /\ Homed(t) /\ i \in DOMAIN t.active
    <3>1. Good(co, {i}, {})
      BY <1>0, GoodBut DEF Kept
    <3>2. SameHomes(co, t)
      BY <2>6 DEF Eased
    <3> QED
      BY <1>0, <2>1, <2>5, <2>6, <3>1, <3>2, EasedGood DEF SameHomes
  <2>8. CASE t.active[i].inFlight = 0 /\ i \in DOMAIN t.outputs
    <3>1. t.outputs[i] \in Output
      BY <2>5, <2>8, StateFields, MapElement
    <3>2. Sound(FinishTerminalized(t, i, t.outputs[i]))
      BY <2>5, <2>7, <3>1, FinishTerminalizedType, FinishTerminalizedHomed, FinishTerminalizedKept
         DEF Sound
    <3> QED
      BY <2>4, <2>8, <3>2, EventSettled
  <2>10. CASE ~(t.active[i].inFlight = 0 /\ i \in DOMAIN t.outputs)
    <3>1. HeldBut(t, {})
      <4>1. \A j \in DOMAIN co.outputs :
              /\ j \in DOMAIN co.active /\ co.active[j].phase = "Finalizing"
              /\ co.active[j].inFlight > 0
        BY <1>0 DEF Kept, Good, HeldBut
      <4>2. t.active[i] = d /\ \A j \in DOMAIN co.active \ {i} : j \in DOMAIN t.active /\ t.active[j] = co.active[j]
        <5>1. t.active = [co.active EXCEPT ![i] = d]
          BY <1>0, <2>3 DEF State, StateOver
        <5> QED
          BY <2>1, <5>1
      <4>3. i \in DOMAIN co.outputs => d.phase = "Finalizing" /\ d.inFlight > 0
        <5>1. d.inFlight \in Nat
          BY <2>2 DEF Child
        <5> QED
          BY <2>3, <2>9, <2>10, <4>1, <4>2, <5>1
      <4> QED
        BY <2>1, <2>3, <2>7, <4>1, <4>2, <4>3 DEF HeldBut
    <3>2. Sound(t)
      BY <1>0, <2>5, <2>6, <3>1, HeldAgain DEF Sound
    <3> QED
      BY <2>4, <2>10, <3>2, EventSettled
  <2> QED
    BY <2>8, <2>10
<1>3. ASSUME NEW i \in Ids, NEW more \in BOOLEAN, TerminalPublished(i, more)
      PROVE  Settled(co')
  <2> DEFINE t == [co EXCEPT !.notices = co.notices \ {i}, !.wakes = co.wakes \ {i}]
  <2>1. t \in State
    BY <1>0 DEF State, StateOver
  <2>6. /\ t.queued = co.queued /\ t.pending = co.pending /\ t.active = co.active
        /\ t.graph = co.graph /\ t.completed = co.completed /\ t.parked = co.parked
        /\ t.waiters = co.waiters /\ t.outputs = co.outputs /\ t.drains = co.drains
        /\ t.runWaiters = co.runWaiters /\ t.callers = co.callers
        /\ t.blocked = co.blocked /\ t.buffer = co.buffer /\ co.drains \subseteq co.blocked
    BY <1>0 DEF State, StateOver, Kept, Good, QuietBut
  <2>2. Event(t) \/ Event(SendMessage(SendMessage(t, i), i)) \/ Event(SendMessage(t, i))
    BY <1>3 DEF TerminalPublished
  <2> HIDE DEF t
  <2>3. Sound(t)
    BY <1>0, <2>1, <2>6, LessKept DEF Sound
  <2>4. Sound(SendMessage(t, i))
    BY <2>3, SendMessageType, SendMessageHomed, SendMessageKept DEF Sound
  <2>5. Sound(SendMessage(SendMessage(t, i), i))
    BY <2>4, SendMessageType, SendMessageHomed, SendMessageKept DEF Sound
  <2> QED
    BY <2>2, <2>3, <2>4, <2>5, EventSettled
<1> QED
  BY <1>1, <1>2, <1>3

LEMMA RunnerSettled ==
    ASSUME Sound(co), NEW i \in Ids, RunnerStep(i)
    PROVE  Settled(co')
<1>0. co \in State /\ Homed(co) /\ Kept(co)
  BY DEF Sound
<1>1. ASSUME NEW defer \in BOOLEAN, NEW background \in BOOLEAN, Started(i, defer, background)
      PROVE  Settled(co')
  <2> DEFINE c == co.pending[i]
             d == [c EXCEPT !.defBg = background,
                            !.wakeOf = IF defer THEN c.wakeOf ELSE None]
             t == [co EXCEPT !.pending = Drop(co.pending, {i}), !.active = Put(co.active, i, d)]
             refused == [co EXCEPT !.parked = {m \in co.parked : m[1] # i}]
  <2>1. i \in DOMAIN co.pending /\ d \in Child
    <3>1. i \in DOMAIN co.pending
      BY <1>1 DEF Started
    <3>2. c \in Child
      BY <1>0, <3>1, StateFields, MapElement
    <3> HIDE DEF c
    <3> QED
      BY <3>1, <3>2 DEF Child
  <2> HIDE DEF d
  <2>3. /\ d.req = c.req /\ d.reply = c.reply /\ d.handleOnly = c.handleOnly
        /\ d.wakeOf \in {None, c.wakeOf}
    <3>1. c \in Child
      BY <1>0, <2>1, StateFields, MapElement
    <3> HIDE DEF c
    <3> QED
      BY <3>1 DEF Child, d
  <2>4. Event(refused) \/ (d.wakeOf # None /\ Event(t)) \/ Event(AdmitParked(t, i))
    <3>1. defer => d.wakeOf # None
      <4>1. c \in Child /\ (defer => c.wakeOf # None)
        BY <1>0, <1>1, <2>1, StateFields, MapElement DEF Started
      <4> HIDE DEF c
      <4> QED
        BY <4>1 DEF Child, d
    <3> QED
      BY <1>1, <3>1 DEF Started, d
  <2> DEFINE P == {m \in co.parked : m[1] # i}
             w == [co EXCEPT !.pending = Drop(co.pending, {i}), !.active = Put(co.active, i, d),
                             !.parked = co.parked]
             x == [co EXCEPT !.pending = Drop(co.pending, {i}), !.active = Put(co.active, i, d),
                             !.parked = P]
  <2>5. P \in SUBSET co.parked /\ co.parked \in SUBSET co.parked /\ \A m \in P : m[1] # i
    OBVIOUS
  <2>6. w = t /\ x = [t EXCEPT !.parked = P] /\ t.parked = co.parked
    BY <1>0 DEF State, StateOver
  <2>7. Sound(refused)
    BY <1>0, <2>5, UnparkKept DEF Sound
  <2> HIDE DEF P
  <2>8. x \in State /\ Homed(x) /\ Kept(x)
    BY <1>0, <2>1, <2>3, <2>5, ActivatedKept
  <2>9. d.wakeOf # None => Sound(t)
    <3>1. d.wakeOf # None => w \in State /\ Homed(w) /\ Kept(w)
      BY <1>0, <2>1, <2>3, <2>5, ActivatedKept
    <3> QED
      BY <2>6, <3>1 DEF Sound
  <2>10. t \in State /\ Homed(t) /\ i \in DOMAIN t.active
    <3>1. /\ DOMAIN Drop(co.pending, {i}) = DOMAIN co.pending \ {i}
          /\ DOMAIN Put(co.active, i, d) = DOMAIN co.active \cup {i}
      BY DEF Drop, Restrict, Put
    <3>2. Drop(co.pending, {i}) \in MapOf(Child)
      BY <1>0, StateFields, DropType
    <3>3. Put(co.active, i, d) \in MapOf(Child)
      BY <1>0, <2>1, StateFields, PutType
    <3>4. t \in State
      BY <1>0, <3>2, <3>3 DEF State, StateOver
    <3>5. /\ t.queued = co.queued /\ t.completed = co.completed /\ t.graph = co.graph
          /\ t.pending = Drop(co.pending, {i}) /\ t.active = Put(co.active, i, d)
      BY <1>0 DEF State, StateOver
    <3> HIDE DEF t
    <3>6. Homed(t) /\ i \in DOMAIN t.active
      BY <1>0, <2>1, <3>1, <3>5 DEF Homed, Known, Live
    <3> QED
      BY <3>4, <3>6
  <2> HIDE DEF t, w, x, refused
  <2>11. Sound(AdmitParked(t, i))
    <3>1. Kept([t EXCEPT !.parked = {m \in t.parked : m[1] # i}])
      BY <2>6, <2>8 DEF P
    <3> QED
      BY <2>10, <3>1, AdmitParkedType, AdmitParkedHomed, AdmitParkedKept DEF Sound
  <2> QED
    BY <2>4, <2>7, <2>9, <2>11, EventSettled
<1>2. ASSUME NEW committed \in BOOLEAN, SettleDeferredStart(i, committed)
      PROVE  Settled(co')
  <2> DEFINE ok == [co.active[i] EXCEPT !.wakeOf = None]
             r == [co.active[i].req EXCEPT !.surface = FALSE]
             ko == [co.active[i] EXCEPT !.req = r, !.cancelled = TRUE, !.phase = "Finalizing"]
             t == [co EXCEPT !.active[i].wakeOf = None]
             u == [co EXCEPT !.active[i].req.surface = FALSE, !.active[i].cancelled = TRUE,
                             !.active[i].phase = "Finalizing",
                             !.parked = {m \in co.parked : m[1] # i}]
             t0 == [co EXCEPT !.parked = {m \in co.parked : m[1] # i}]
  <2>1. i \in DOMAIN co.active
    BY <1>2 DEF SettleDeferredStart
  <2>2. co.active[i] \in Child
    BY <1>0, <2>1, StateFields, MapElement
  <2>3. ok \in Child
    BY <2>2 DEF Child
  <2>4. ko \in Child
    <3>1. r \in Request
      <4>1. co.active[i].req \in Request
        BY <2>2 DEF Child
      <4> QED
        BY <4>1 DEF Request
    <3> HIDE DEF r
    <3> QED
      BY <2>2, <3>1 DEF Child
  <2>5. t = [co EXCEPT !.active[i] = ok]
    BY <1>0, <2>1 DEF State, StateOver
  <2>6. t0 \in State /\ t0.active = co.active /\ SameHomes(co, t0)
    BY <1>0 DEF State, StateOver, SameHomes
  <2>7. u = [t0 EXCEPT !.active[i] = ko]
    BY <1>0, <2>1 DEF State, StateOver
  <2>8. Event(AdmitParked(t, i)) \/ Event(u)
    BY <1>2 DEF SettleDeferredStart
  <2>12. {m \in co.parked : m[1] # i} \in SUBSET co.parked
    OBVIOUS
  <2>13. t0.parked = {m \in co.parked : m[1] # i}
    BY <1>0 DEF State, StateOver
  <2>14. /\ SofterChild(co.active[i], ko, t0.callers[i] = "waiting")
         /\ ko.wakeOf = co.active[i].wakeOf /\ ko.phase = "Finalizing"
         /\ ko.inFlight = co.active[i].inFlight
    <3>1. co.active[i].req \in Request
      BY <2>2 DEF Child
    <3> QED
      BY <2>2, <3>1 DEF SofterChild, Child, Request
  <2>15. /\ SofterChild(co.active[i], ok, t0.callers[i] = "waiting")
         /\ ok.phase = co.active[i].phase /\ ok.inFlight = co.active[i].inFlight
    BY <2>2 DEF SofterChild, Child
  <2> HIDE DEF t, u, t0, ok, ko
  <2>9. Sound(t0) /\ i \in DOMAIN t0.active /\ \A m \in t0.parked : m[1] # i
    BY <1>0, <2>1, <2>6, <2>12, <2>13, UnparkKept DEF Sound, t0
  <2>10. Sound(u)
    <3>1. Kept(u)
      BY <2>4, <2>6, <2>7, <2>9, <2>14, ActiveKept DEF Sound
    <3>2. u \in State
      BY <2>4, <2>6, <2>7, <2>9, ActiveUpdateType
    <3>3. SameHomes(t0, u)
      BY <2>6, <2>7 DEF SameHomes, State, StateOver
    <3> QED
      BY <2>9, <3>1, <3>2, <3>3, SameHomesHomed DEF Sound
  <2>11. Sound(AdmitParked(t, i))
    <3>1. t \in State
      BY <1>0, <2>1, <2>3, <2>5, ActiveUpdateType
    <3>2. SameHomes(co, t)
      BY <1>0, <2>5 DEF SameHomes, State, StateOver
    <3>3. Homed(t) /\ i \in DOMAIN t.active
      BY <1>0, <2>1, <3>2, SameHomesHomed DEF SameHomes
    <3>4. Kept([t0 EXCEPT !.active[i] = ok])
      BY <2>3, <2>6, <2>9, <2>15, ActiveKept DEF Sound
    <3>5. [t EXCEPT !.parked = {m \in t.parked : m[1] # i}] = [t0 EXCEPT !.active[i] = ok]
      BY <1>0, <2>1, <2>5 DEF State, StateOver, t0
    <3> QED
      BY <3>1, <3>3, <3>4, <3>5, AdmitParkedType, AdmitParkedHomed, AdmitParkedKept DEF Sound
  <2> QED
    BY <2>8, <2>10, <2>11, EventSettled
<1>3. ASSUME Finalizing(i) PROVE Settled(co')
  <2> DEFINE d == [co.active[i] EXCEPT !.phase = "Finalizing"]
             t == [co EXCEPT !.active[i].phase = "Finalizing"]
  <2>1. i \in DOMAIN co.active
    BY <1>3 DEF Finalizing
  <2>2. d \in Child
    <3>1. co.active[i] \in Child
      BY <1>0, <2>1, StateFields, MapElement
    <3> QED
      BY <3>1 DEF Child
  <2>3. t = [co EXCEPT !.active[i] = d] /\ SameHomes(co, t)
    BY <1>0 DEF State, StateOver, SameHomes
  <2>4. Event(t)
    BY <1>3 DEF Finalizing
  <2>6. /\ SofterChild(co.active[i], d, co.callers[i] = "waiting")
        /\ d.wakeOf = co.active[i].wakeOf /\ d.phase = "Finalizing"
        /\ d.inFlight = co.active[i].inFlight
    <3>1. co.active[i] \in Child
      BY <1>0, <2>1, StateFields, MapElement
    <3> QED
      BY <3>1 DEF SofterChild, Child
  <2> HIDE DEF t, d
  <2>5. t \in State
    BY <1>0, <2>1, <2>2, <2>3, ActiveUpdateType
  <2>7. Kept(t)
    BY <1>0, <2>1, <2>2, <2>3, <2>6, ActiveKept
  <2> QED
    BY <1>0, <2>3, <2>4, <2>5, <2>7, SameHomesHomed, EventSettled DEF Sound
<1>4. ASSUME NEW out \in Output, RunEnds(i, out) PROVE Settled(co')
  <2>1. i \in Live(co) /\ Event(BeginTerminalization(co, i, out))
    BY <1>4 DEF RunEnds, RunLive
  <2> QED
    BY <1>0, <2>1, BeginTerminalizationType, BeginTerminalizationHomed,
       BeginTerminalizationKept, EventSettled DEF Sound
<1> QED
  BY <1>1, <1>2, <1>3, <1>4 DEF RunnerStep

LEMMA DeadlineSettled ==
    ASSUME Sound(co), NEW messages, NEW sessions, NEW budgets, NEW queries,
           ProcessDeadlines(messages, sessions, budgets, queries)
    PROVE  Settled(co')
<1> DEFINE t == Reap(co)
           t0 == [t EXCEPT !.parked = t.parked \ (messages \X {TRUE})]
           S == sessions \cap t.drains
           u == ClearTeardownDrain(t0, S)
           H == budgets \cap Timed(u)
           v == HandOff(u, H, "backgrounded")
           k == [i \in Ids |-> IF i \in queries THEN "none" ELSE v.waiters[i]]
           w == [v EXCEPT !.waiters = k]
<1>1. Sound(t) /\ t \in State /\ Homed(t) /\ Kept(t)
  BY ReapSound DEF Sound
<1>2. Event(w)
  BY DEF ProcessDeadlines
<1> HIDE DEF t
<1>3. t0 \in State /\ Homed(t0) /\ Kept(t0)
  BY <1>1, UnparkKept
<1> HIDE DEF t0, S
<1>4. u \in State /\ Kept(u) /\ Homed(u)
  <2>1. u \in State /\ Eased(t0, u, {})
    BY <1>3, ClearTeardownDrainType, ClearTeardownDrainEased DEF Kept, Good
  <2> QED
    BY <1>3, <2>1, EasedKept
<1> HIDE DEF u, H
<1>5. v \in State /\ Kept(v) /\ Homed(v)
  <2>1. v \in State /\ Eased(u, v, {})
    BY <1>4, HandOffType, HandOffEased DEF Kept, Good, CallerView
  <2> QED
    BY <1>4, <2>1, EasedKept
<1> HIDE DEF v
<1>6. k \in [Ids -> WaiterView] /\ \A i \in Ids : k[i] # "none" => v.waiters[i] # "none"
  BY <1>5, StateFields DEF WaiterView
<1> HIDE DEF k
<1>7. /\ w.queued = v.queued /\ w.pending = v.pending /\ w.active = v.active
      /\ w.graph = v.graph /\ w.completed = v.completed /\ w.parked = v.parked
      /\ w.waiters = k /\ w.outputs = v.outputs /\ w.drains = v.drains
      /\ w.runWaiters = v.runWaiters /\ w.callers = v.callers
      /\ w.blocked = v.blocked /\ w.buffer = v.buffer
      /\ w \in State
  BY <1>5, <1>6 DEF State, StateOver
<1>8. v.drains \subseteq v.blocked
  BY <1>5 DEF Kept, Good, QuietBut
<1> HIDE DEF w
<1>9. Sound(w)
  BY <1>5, <1>6, <1>7, <1>8, LessKept DEF Sound
<1> QED
  BY <1>2, <1>9, EventSettled

\* What the environment does on its own is followed by no loop tail, and none
\* of it ends what a turn waits for.
LEMMA EnvironmentSettled ==
    ASSUME Settled(co), NEW i \in Ids,
           CallerDrops(i) \/ QueryDrops(i) \/ TokenCancelled(i) \/ Publish(i)
    PROVE  Settled(co')
<1>0. co \in State /\ Homed(co) /\ Kept(co) /\ TurnsBlocked(co)
  BY DEF Settled, Sound
<1>1. CASE CallerDrops(i)
  <2> DEFINE u == [co EXCEPT !.callers[i] = "gone"]
  <2>1. co' = u
    BY <1>1 DEF CallerDrops
  <2>2. u \in State /\ Homed(u) /\ Kept(u)
    BY <1>0, CallerGoneKept
  <2>3. /\ u.queued = co.queued /\ u.pending = co.pending /\ u.active = co.active
        /\ u.drainWaiters = co.drainWaiters
    BY <1>0 DEF State, StateOver
  <2> HIDE DEF u
  <2>4. TurnsBlocked(u)
    BY <1>0, <2>3 DEF TurnsBlocked, TurnBlocking
  <2> QED
    BY <2>1, <2>2, <2>4 DEF Settled, Sound
<1>2. CASE QueryDrops(i)
  <2> DEFINE u == [co EXCEPT !.waiters[i] = "closed"]
  <2>1. co' = u /\ co.waiters[i] = "open"
    BY <1>2 DEF QueryDrops
  <2>2. u \in State
    BY <1>0 DEF State, StateOver, WaiterView
  <2>3. /\ u.queued = co.queued /\ u.pending = co.pending /\ u.active = co.active
        /\ u.graph = co.graph /\ u.completed = co.completed /\ u.parked = co.parked
        /\ u.outputs = co.outputs /\ u.drains = co.drains
        /\ u.runWaiters = co.runWaiters /\ u.callers = co.callers
        /\ u.blocked = co.blocked /\ u.buffer = co.buffer
        /\ u.drainWaiters = co.drainWaiters
        /\ u.waiters = [co.waiters EXCEPT ![i] = "closed"]
    BY <1>0 DEF State, StateOver
  <2>4. co.drains \subseteq co.blocked
    BY <1>0 DEF Kept, Good, QuietBut
  <2>5. \A j \in Ids : u.waiters[j] # "none" => co.waiters[j] # "none"
    <3>1. co.waiters \in [Ids -> WaiterView]
      BY <1>0, StateFields
    <3> QED
      BY <2>1, <2>3, <3>1
  <2> HIDE DEF u
  <2>6. Kept(u) /\ Homed(u)
    BY <1>0, <2>2, <2>3, <2>4, <2>5, LessKept
  <2>7. TurnsBlocked(u)
    BY <1>0, <2>3 DEF TurnsBlocked, TurnBlocking
  <2> QED
    BY <2>1, <2>2, <2>6, <2>7 DEF Settled, Sound
<1>3. CASE /\ TokenCancelled(i) /\ i \in DOMAIN co.queued /\ co.queued[i].wake = None
           /\ co' = [co EXCEPT !.queued[i].cancelled = TRUE]
  <2> DEFINE u == [co EXCEPT !.queued[i].cancelled = TRUE]
  <2>1. u \in State /\ Homed(u) /\ Kept(u)
    BY <1>0, <1>3, QueuedTokenKept
  <2>2. /\ u.queued = [co.queued EXCEPT ![i].cancelled = TRUE]
        /\ u.pending = co.pending /\ u.active = co.active /\ u.drainWaiters = co.drainWaiters
    BY <1>0 DEF State, StateOver
  <2>3. \A j \in DOMAIN co.queued : co.queued[j] \in QueuedSpawn
    BY <1>0, StateFields, MapElement
  <2>4. /\ DOMAIN u.queued = DOMAIN co.queued
        /\ \A j \in DOMAIN co.queued : /\ u.queued[j].req = co.queued[j].req
                                        /\ u.queued[j].awaiting = co.queued[j].awaiting
    BY <1>3, <2>2, <2>3 DEF QueuedSpawn
  <2>5. u = co'
    BY <1>3
  <2> HIDE DEF u
  <2>6. \A s : TurnBlocking(u, s) = TurnBlocking(co, s)
    BY <2>2, <2>4 DEF TurnBlocking
  <2>7. TurnsBlocked(u)
    BY <1>0, <2>2, <2>6 DEF TurnsBlocked
  <2> QED
    BY <2>1, <2>5, <2>7 DEF Settled, Sound
<1>4. CASE /\ TokenCancelled(i) /\ i \in DOMAIN co.pending
           /\ co' = [co EXCEPT !.pending[i].cancelled = TRUE]
  <2> DEFINE u == [co EXCEPT !.pending[i].cancelled = TRUE]
  <2>1. u \in State /\ Homed(u) /\ Kept(u)
    BY <1>0, <1>4, PendingTokenKept
  <2>2. /\ u.pending = [co.pending EXCEPT ![i].cancelled = TRUE]
        /\ u.queued = co.queued /\ u.active = co.active /\ u.drainWaiters = co.drainWaiters
    BY <1>0 DEF State, StateOver
  <2>3. \A j \in DOMAIN co.pending : co.pending[j] \in Child
    BY <1>0, StateFields, MapElement
  <2>4. /\ DOMAIN u.pending = DOMAIN co.pending
        /\ \A j \in DOMAIN co.pending : /\ u.pending[j].req = co.pending[j].req
                                         /\ u.pending[j].handleOnly = co.pending[j].handleOnly
    BY <1>4, <2>2, <2>3 DEF Child
  <2>5. u = co'
    BY <1>4
  <2> HIDE DEF u
  <2>6. \A s : TurnBlocking(u, s) = TurnBlocking(co, s)
    BY <2>2, <2>4 DEF TurnBlocking
  <2>7. TurnsBlocked(u)
    BY <1>0, <2>2, <2>6 DEF TurnsBlocked
  <2> QED
    BY <2>1, <2>5, <2>7 DEF Settled, Sound
<1>5. CASE /\ TokenCancelled(i) /\ i \in DOMAIN co.active
           /\ co' = [co EXCEPT !.active[i].cancelled = TRUE]
  <2> DEFINE u == [co EXCEPT !.active[i].cancelled = TRUE]
  <2>1. u \in State /\ Homed(u) /\ Kept(u)
    BY <1>0, <1>5, ActiveTokenKept
  <2>2. /\ u.active = [co.active EXCEPT ![i].cancelled = TRUE]
        /\ u.queued = co.queued /\ u.pending = co.pending /\ u.drainWaiters = co.drainWaiters
    BY <1>0 DEF State, StateOver
  <2>3. \A j \in DOMAIN co.active : co.active[j] \in Child
    BY <1>0, StateFields, MapElement
  <2>4. /\ DOMAIN u.active = DOMAIN co.active
        /\ \A j \in DOMAIN co.active : /\ u.active[j].req = co.active[j].req
                                         /\ u.active[j].handleOnly = co.active[j].handleOnly
    BY <1>5, <2>2, <2>3 DEF Child
  <2>5. u = co'
    BY <1>5
  <2> HIDE DEF u
  <2>6. \A s : TurnBlocking(u, s) = TurnBlocking(co, s)
    BY <2>2, <2>4 DEF TurnBlocking
  <2>7. TurnsBlocked(u)
    BY <1>0, <2>2, <2>6 DEF TurnsBlocked
  <2> QED
    BY <2>1, <2>5, <2>7 DEF Settled, Sound
<1>6. CASE Publish(i)
  <2> DEFINE u == [co EXCEPT !.completed[i].published = TRUE, !.notices = co.notices \cup {i}]
  <2>1. i \in DOMAIN co.completed /\ co' = u
    BY <1>6 DEF Publish
  <2>2. u \in State /\ Homed(u) /\ Kept(u)
    BY <1>0, <2>1, PublishedKept
  <2>3. /\ u.queued = co.queued /\ u.pending = co.pending /\ u.active = co.active
        /\ u.drainWaiters = co.drainWaiters
    BY <1>0 DEF State, StateOver
  <2> HIDE DEF u
  <2>4. TurnsBlocked(u)
    BY <1>0, <2>3 DEF TurnsBlocked, TurnBlocking
  <2> QED
    BY <2>1, <2>2, <2>4 DEF Settled, Sound
<1> QED
  BY <1>1, <1>2, <1>3, <1>4, <1>5, <1>6 DEF TokenCancelled

-----------------------------------------------------------------------------
(* What a step may do to the children, the queue and the records *)

\* Apart from the children of X, nothing is queued that was not, in the same
\* place; what lives was queued or lived, and what left the queue to live was
\* ahead of what its session still has in it; nothing that lived is gone.
Passes(t, u, X) ==
    /\ \A j \in DOMAIN u.queued \ X :
          /\ j \in DOMAIN t.queued /\ u.queued[j].ticket = t.queued[j].ticket
          /\ u.queued[j].req.parent = t.queued[j].req.parent
    /\ \A i \in Live(u) \ X :
          i \in Present(t) /\ ChildOf(u, i).req.parent = RequestOf(t, i).parent
    /\ \A i \in Live(u) \ (Live(t) \cup X), j \in DOMAIN u.queued \ X :
          u.queued[j].req.parent = ChildOf(u, i).req.parent =>
             t.queued[i].ticket < t.queued[j].ticket
    /\ Live(t) \ X \subseteq Live(u)

\* The children with a terminal record, filed or displaced by a wake.
Recorded(t) == DOMAIN t.completed \cup {i \in Present(t) : Prior(t, i) # None}

AgeOf(t, i) == IF i \in DOMAIN t.completed THEN t.completed[i].age ELSE Prior(t, i).age

\* Completion ages are taken from the counter, each once.
Aged(t) ==
    \A i \in Recorded(t) :
        /\ AgeOf(t, i) < t.nextAge
        /\ \A j \in Recorded(t) \ {i} : AgeOf(t, j) # AgeOf(t, i)

Advances(t, u, X) ==
    Passes(t, u, X) /\ t.nextAge <= u.nextAge /\ (Aged(t) => Aged(u))

LEMMA PassesTogether ==
    ASSUME NEW t, NEW u, NEW v, NEW X, NEW Y, Homed(t), Homed(u),
           Passes(t, u, X), Passes(u, v, Y)
    PROVE  Passes(t, v, X \cup Y)
<1>1. \A j \in DOMAIN v.queued \ (X \cup Y) :
         /\ j \in DOMAIN u.queued /\ j \in DOMAIN t.queued
         /\ v.queued[j].ticket = t.queued[j].ticket /\ u.queued[j].ticket = t.queued[j].ticket
         /\ v.queued[j].req.parent = t.queued[j].req.parent
         /\ u.queued[j].req.parent = t.queued[j].req.parent
  BY DEF Passes
<1>2. ASSUME NEW i \in Live(v) \ (X \cup Y)
      PROVE  /\ i \in Present(t) /\ ChildOf(v, i).req.parent = RequestOf(t, i).parent
             /\ i \in Live(u) => ChildOf(v, i).req.parent = ChildOf(u, i).req.parent
             /\ i \notin Live(u) => i \in DOMAIN u.queued /\ i \in DOMAIN t.queued
                                    /\ u.queued[i].ticket = t.queued[i].ticket
  <2>1. i \in Present(u) /\ ChildOf(v, i).req.parent = RequestOf(u, i).parent
    BY DEF Passes
  <2>2. CASE i \in Live(u)
    BY <2>1, <2>2 DEF Passes, RequestOf
  <2>3. CASE i \notin Live(u)
    <3>1. /\ i \in DOMAIN u.queued /\ RequestOf(u, i) = u.queued[i].req
          /\ i \in DOMAIN t.queued /\ u.queued[i].ticket = t.queued[i].ticket
          /\ u.queued[i].req.parent = t.queued[i].req.parent
      BY <2>1, <2>3 DEF Passes, RequestOf, Present
    <3>2. i \in Present(t) /\ RequestOf(t, i) = t.queued[i].req
      BY <3>1 DEF RequestOf, Present, Homed
    <3> QED
      BY <2>1, <2>3, <3>1, <3>2
  <2> QED
    BY <2>2, <2>3
<1>3. ASSUME NEW i \in Live(v) \ (Live(t) \cup X \cup Y), NEW j \in DOMAIN v.queued \ (X \cup Y),
             v.queued[j].req.parent = ChildOf(v, i).req.parent
      PROVE  t.queued[i].ticket < t.queued[j].ticket
  <2>1. CASE i \in Live(u)
    BY <1>1, <1>2, <1>3, <2>1 DEF Passes
  <2>2. CASE i \notin Live(u)
    BY <1>1, <1>2, <1>3, <2>2 DEF Passes
  <2> QED
    BY <2>1, <2>2
<1>4. Live(t) \ (X \cup Y) \subseteq Live(v)
  BY DEF Passes
<1> QED
  BY <1>1, <1>2, <1>3, <1>4 DEF Passes

LEMMA AdvancesTogether ==
    ASSUME NEW t \in State, NEW u \in State, NEW v \in State, NEW X, NEW Y, Homed(t), Homed(u),
           Advances(t, u, X), Advances(u, v, Y)
    PROVE  Advances(t, v, X \cup Y)
<1>1. t.nextAge \in Nat /\ u.nextAge \in Nat /\ v.nextAge \in Nat
  BY StateFields
<1> QED
  BY <1>1, PassesTogether DEF Advances

\* Most calls are followed by others that end no child.
LEMMA ThenAdvances ==
    ASSUME NEW t \in State, NEW u \in State, NEW v \in State, NEW X, Homed(t), Homed(u),
           Advances(t, u, X), Advances(u, v, {})
    PROVE  Advances(t, v, X)
<1>1. X \cup {} = X
  OBVIOUS
<1> QED
  BY <1>1, AdvancesTogether

LEMMA FirstAdvances ==
    ASSUME NEW t \in State, NEW u \in State, NEW v \in State, NEW X, Homed(t), Homed(u),
           Advances(t, u, {}), Advances(u, v, X)
    PROVE  Advances(t, v, X)
<1>1. {} \cup X = X
  OBVIOUS
<1> QED
  BY <1>1, AdvancesTogether

LEMMA RecordedTyped ==
    ASSUME NEW t \in State, NEW i \in Recorded(t)
    PROVE  AgeOf(t, i) \in Nat /\ i \in Known(t) /\ i \in Ids
<1>1. /\ \A j \in DOMAIN t.completed : t.completed[j] \in CompletedChild
      /\ \A j \in DOMAIN t.queued : t.queued[j] \in QueuedSpawn
  BY StateFields, MapElement
<1>2. \A j \in Live(t) : ChildOf(t, j) \in Child
  BY LiveFacts
<1>3. \A j \in Present(t) : Prior(t, j) \in CompletedChild \cup {None}
  BY <1>1, <1>2 DEF Present, Prior, Child, QueuedSpawn
<1>4. i \in Known(t) /\ i \in Ids
  BY DomainFacts DEF Recorded, Known, Present, Live
<1> QED
  BY <1>1, <1>3, <1>4 DEF CompletedChild, AgeOf, Recorded

\* Records that are carried over, or let go, keep their ages.
LEMMA CarriedAged ==
    ASSUME NEW t, NEW u, u.nextAge = t.nextAge,
           \A i \in Recorded(u) : i \in Recorded(t) /\ AgeOf(u, i) = AgeOf(t, i)
    PROVE  Aged(t) => Aged(u)
BY DEF Aged

\* Every child and every record is where it was.
LEMMA StillAdvances ==
    ASSUME NEW t \in State, NEW u \in State, SameHomes(t, u), SofterMaps(t, u),
           u.nextAge = t.nextAge,
           \A i \in DOMAIN t.completed : u.completed[i].age = t.completed[i].age
    PROVE  Advances(t, u, {})
<1>1. Present(u) = Present(t) /\ Live(u) = Live(t)
      /\ \A i \in Present(t) : /\ RequestOf(u, i).parent = RequestOf(t, i).parent
                               /\ Prior(u, i) \in {None, Prior(t, i)}
  BY EasedPresent
<1>2. \A j \in DOMAIN t.queued : /\ u.queued[j].ticket = t.queued[j].ticket
                                 /\ u.queued[j].req.parent = t.queued[j].req.parent
  BY DEF SofterMaps, SofterEntry
<1>3. Passes(t, u, {})
  <2>1. \A i \in Live(u) : i \in Present(t) /\ RequestOf(u, i) = ChildOf(u, i).req
    BY <1>1 DEF Present, RequestOf
  <2> QED
    BY <1>1, <1>2, <2>1 DEF Passes, SameHomes
<1>4. \A i \in Recorded(u) : i \in Recorded(t) /\ AgeOf(u, i) = AgeOf(t, i)
  BY <1>1 DEF Recorded, AgeOf, SameHomes
<1>5. t.nextAge \in Nat
  BY StateFields
<1> QED
  BY <1>3, <1>4, <1>5, CarriedAged DEF Advances
-----------------------------------------------------------------------------
(* Leaving the queue *)

\* The place of entry i among the entries of N.
Rank(t, N, i) == Cardinality({j \in N : t.queued[j].ticket < t.queued[i].ticket})

LEMMA RankOrders ==
    ASSUME NEW t \in State, TicketsDiffer(t), NEW N \in SUBSET DOMAIN t.queued
    PROVE  /\ Cardinality(N) \in Nat
           /\ \A i \in N : Rank(t, N, i) \in Nat /\ Rank(t, N, i) < Cardinality(N)
           /\ \A i, j \in N : i # j => Rank(t, N, i) # Rank(t, N, j)
<1> DEFINE Before(i) == {j \in N : t.queued[j].ticket < t.queued[i].ticket}
<1>1. N \in SUBSET Ids /\ \A i \in N : t.queued[i].ticket \in Nat
  <2>1. DOMAIN t.queued \in SUBSET Ids /\ \A i \in DOMAIN t.queued : t.queued[i] \in QueuedSpawn
    BY StateFields, MapElement
  <2> QED
    BY <2>1 DEF QueuedSpawn
<1>2. /\ IsFiniteSet(N) /\ Cardinality(N) \in Nat
      /\ \A i \in N : /\ IsFiniteSet(Before(i)) /\ Cardinality(Before(i)) \in Nat
                      /\ Before(i) \in SUBSET N
  <2>1. IsFiniteSet(N) /\ Cardinality(N) \in Nat
    BY <1>1, IdSetsFinite
  <2>2. ASSUME NEW i \in N
        PROVE  /\ IsFiniteSet(Before(i)) /\ Cardinality(Before(i)) \in Nat
               /\ Before(i) \in SUBSET N
    <3>1. Before(i) \in SUBSET Ids /\ Before(i) \in SUBSET N
      BY <1>1
    <3> HIDE DEF Before
    <3> QED
      BY <3>1, IdSetsFinite
  <2> QED
    BY <2>1, <2>2
<1>3. \A i \in N : i \notin Before(i)
  BY <1>1
<1>4. \A i, j \in N : t.queued[i].ticket < t.queued[j].ticket =>
         Before(i) \subseteq Before(j) /\ i \in Before(j)
  BY <1>1
<1>5. \A i \in N : Rank(t, N, i) = Cardinality(Before(i))
  BY DEF Rank
<1> HIDE DEF Before
<1>6. ASSUME NEW i \in N PROVE Cardinality(Before(i)) < Cardinality(N)
  <2>1. Before(i) # N
    BY <1>3
  <2> QED
    BY <1>2, <2>1, FS_Subset
<1>7. ASSUME NEW i \in N, NEW j \in N, t.queued[i].ticket < t.queued[j].ticket
      PROVE  Cardinality(Before(i)) < Cardinality(Before(j))
  <2>1. Before(i) \in SUBSET Before(j) /\ Before(i) # Before(j)
    BY <1>3, <1>4, <1>7
  <2> QED
    BY <1>2, <2>1, FS_Subset
<1>8. ASSUME NEW i \in N, NEW j \in N, i # j PROVE Rank(t, N, i) # Rank(t, N, j)
  <2>1. t.queued[i].ticket < t.queued[j].ticket \/ t.queued[j].ticket < t.queued[i].ticket
    BY <1>1, <1>8 DEF TicketsDiffer
  <2> QED
    BY <1>2, <1>5, <1>7, <2>1
<1> QED
  BY <1>2, <1>5, <1>6, <1>8

\* The entries of N end as new records, the other entries of R give theirs back
\* or lose them.
Files(t, R, N, u) ==
    /\ DOMAIN u.queued = DOMAIN t.queued \ R
    /\ \A i \in DOMAIN u.queued : u.queued[i] = t.queued[i]
    /\ u.pending = t.pending /\ u.active = t.active
    /\ u.nextAge = t.nextAge + Cardinality(N)
    /\ \A i \in DOMAIN t.completed : i \in DOMAIN u.completed /\ u.completed[i] = t.completed[i]
    /\ \A i \in DOMAIN u.completed \ DOMAIN t.completed :
          \/ i \in N /\ u.completed[i].age = t.nextAge + Rank(t, N, i)
          \/ i \in R \ N /\ u.completed[i].age = t.queued[i].wake.age
    /\ \A i \in Ids \ N : u.callers[i] = t.callers[i]
    /\ N = R => u.graph = t.graph
    /\ (\A i \in R : t.queued[i].req.parent \notin t.drains) =>
          u.blocked = t.blocked /\ u.drains = t.drains

LEMMA FinishCancelledQueuedFiles ==
    ASSUME NEW t \in State, Homed(t), NEW R \in SUBSET DOMAIN t.queued
    PROVE  Files(t, R, {i \in R : t.queued[i].wake = None}, FinishCancelledQueued(t, R))
<1> DEFINE W == {i \in R : t.queued[i].wake # None}
           N == R \ W
           rank == [i \in R |-> Cardinality({j \in N : t.queued[j].ticket < t.queued[i].ticket})]
           kept == {i \in W : ~Expired(t.queued[i].wake, t.nextAge + rank[i])}
           rec == [i \in N |->
                     [NewChild(t.queued[i].req, TRUE, t.queued[i].awaiting, FALSE, None)
                        EXCEPT !.handleOnly = t.queued[i].req.bg]]
           out == [success |-> FALSE, cancelled |-> TRUE]
           t0 == [t EXCEPT !.queued = Drop(t.queued, R)]
           new == [i \in N |-> Terminal(t0, i, rec[i], out, t0.nextAge + rank[i])]
           u == Conclude(t0, rec, out, rank)
           back == [i \in kept |-> [t.queued[i].wake EXCEPT !.wakeEligible = FALSE]]
           done == Merge(u.completed, back)
           nodes == Drop(u.graph, W \ kept)
           waiters == [i \in Ids |-> IF i \in W THEN "none" ELSE u.waiters[i]]
           v == [u EXCEPT !.completed = done, !.graph = nodes, !.waiters = waiters]
           P == {t.queued[i].req.parent : i \in N}
           w == ResolveTeardownDrains(v, P)
<1>0. FinishCancelledQueued(t, R) = w
  BY DEF FinishCancelledQueued
<1>1. R \in SUBSET Ids /\ \A i \in R : t.queued[i] \in QueuedSpawn
  BY StateFields, MapElement
<1>2. /\ N = {i \in R : t.queued[i].wake = None} /\ kept \in SUBSET W /\ W \in SUBSET R
      /\ (N = R => W = {}) /\ N \in SUBSET R
  OBVIOUS
<1>3. DOMAIN rec = N /\ \A i \in R : rank[i] = Rank(t, N, i)
  BY DEF Rank
<1>4. DOMAIN back = kept /\ \A i \in kept : back[i].age = t.queued[i].wake.age
  BY <1>1 DEF QueuedSpawn, CompletedChild
<1>5. /\ t0.queued = Drop(t.queued, R) /\ t0.pending = t.pending /\ t0.active = t.active
      /\ t0.completed = t.completed /\ t0.graph = t.graph /\ t0.nextAge = t.nextAge
      /\ t0.callers = t.callers /\ t0.blocked = t.blocked /\ t0.drains = t.drains
      /\ t0 \in State
  <2>1. Drop(t.queued, R) \in MapOf(QueuedSpawn)
    BY StateFields, DropType
  <2> QED
    BY <2>1 DEF State, StateOver
<1>6. DOMAIN t0.queued = DOMAIN t.queued \ R /\ \A i \in DOMAIN t0.queued : t0.queued[i] = t.queued[i]
  BY <1>5 DEF Drop, Restrict
<1> HIDE DEF t0, rec, rank, kept, N, W, back
<1>7. DOMAIN new = N /\ \A i \in N : new[i].age = t0.nextAge + rank[i]
  BY DEF Terminal
<1>8. u.completed = Merge(t0.completed, new)
  BY <1>3, <1>5 DEF Conclude, State, StateOver
<1>9. /\ u.queued = t0.queued /\ u.pending = t0.pending /\ u.active = t0.active
      /\ u.graph = t0.graph /\ u.nextAge = t0.nextAge + Cardinality(N)
  BY <1>3, <1>5, ConcludeDomains
<1>17. \A i \in Ids \ N : u.callers[i] = t.callers[i]
  BY <1>3, <1>5, ConcludeFacts
<1>10. /\ v.queued = u.queued /\ v.pending = u.pending /\ v.active = u.active
       /\ v.completed = done /\ v.graph = nodes /\ v.nextAge = u.nextAge
       /\ v.callers = u.callers
  BY <1>5 DEF Conclude, State, StateOver
<1>11. /\ w.queued = v.queued /\ w.pending = v.pending /\ w.active = v.active
       /\ w.completed = v.completed /\ w.graph = v.graph /\ w.nextAge = v.nextAge
       /\ w.callers = v.callers
  BY <1>5 DEF Conclude, ResolveTeardownDrains, ClearTeardownDrain, State, StateOver
<1>18. (\A i \in R : t.queued[i].req.parent \notin t.drains) =>
          w.blocked = t.blocked /\ w.drains = t.drains
  <2>1. v.blocked = t.blocked /\ v.drains = t.drains
    BY <1>5 DEF Conclude, State, StateOver
  <2>2. \E S \in SUBSET (P \cap t.drains) : w.blocked = t.blocked \ S /\ w.drains = t.drains \ S
    <3> DEFINE S == {s \in P \cap v.drains : ~SessionHasChildren(v, s)}
    <3>2. S \in SUBSET (P \cap t.drains)
      BY <2>1
    <3>3. w.blocked = v.blocked \ S /\ w.drains = v.drains \ S
      BY <1>5 DEF Conclude, ResolveTeardownDrains, ClearTeardownDrain, State, StateOver
    <3> HIDE DEF S
    <3> QED
      BY <2>1, <3>2, <3>3
  <2>3. (\A i \in R : t.queued[i].req.parent \notin t.drains) => P \cap t.drains = {}
    BY <1>2
  <2> QED
    BY <2>2, <2>3
<1> HIDE DEF new, u, v, w
<1>12. /\ DOMAIN done = DOMAIN t.completed \cup N \cup kept
       /\ \A i \in kept : done[i] = back[i]
       /\ \A i \in N \ kept : done[i] = new[i]
       /\ \A i \in DOMAIN t.completed \ (N \cup kept) : done[i] = t.completed[i]
  BY <1>4, <1>5, <1>7, <1>8 DEF Merge
<1>13. N = R => nodes = t.graph
  <2>1. ASSUME N = R PROVE Drop(u.graph, W \ kept) = t.graph
    <3>1. W \ kept = {} /\ u.graph = t.graph
      BY <1>2, <1>5, <1>9, <2>1
    <3>2. t.graph = [x \in DOMAIN t.graph |-> t.graph[x]]
      BY StateFields DEF MapOf
    <3> QED
      BY <3>1, <3>2 DEF Drop, Restrict
  <2> QED
    BY <2>1
<1>14. DOMAIN t.completed \cap R = {}
  BY DEF Homed
<1>15. N \cap kept = {}
  BY <1>2 DEF N
<1> HIDE DEF done, nodes
<1>16. Files(t, R, N, w)
  <2>1. \A i \in DOMAIN w.completed \ DOMAIN t.completed :
          \/ i \in N /\ w.completed[i].age = t.nextAge + Rank(t, N, i)
          \/ i \in R \ N /\ w.completed[i].age = t.queued[i].wake.age
    BY <1>2, <1>3, <1>4, <1>5, <1>7, <1>10, <1>11, <1>12, <1>15
  <2>2. \A i \in DOMAIN t.completed : i \in DOMAIN w.completed /\ w.completed[i] = t.completed[i]
    BY <1>2, <1>10, <1>11, <1>12, <1>14
  <2> QED
    BY <1>5, <1>6, <1>9, <1>10, <1>11, <1>13, <1>17, <1>18, <2>1, <2>2 DEF Files
<1> QED
  BY <1>0, <1>2, <1>16

LEMMA FilesAdvances ==
    ASSUME NEW t \in State, NEW u \in State, Homed(t), Homed(u), TicketsDiffer(t),
           NEW R \in SUBSET DOMAIN t.queued,
           Files(t, R, {i \in R : t.queued[i].wake = None}, u)
    PROVE  Advances(t, u, {}) /\ Live(u) = Live(t)
<1> DEFINE N == {i \in R : t.queued[i].wake = None}
<1>1. Live(u) = Live(t) /\ \A i \in Live(t) : ChildOf(u, i) = ChildOf(t, i)
  BY DEF Files, Live, ChildOf
<1>2. Passes(t, u, {})
  BY <1>1 DEF Files, Passes, Present, RequestOf
<1>3. /\ Cardinality(N) \in Nat
      /\ \A i \in N : Rank(t, N, i) \in Nat /\ Rank(t, N, i) < Cardinality(N)
      /\ \A i, j \in N : i # j => Rank(t, N, i) # Rank(t, N, j)
  BY RankOrders
<1>4. t.nextAge \in Nat /\ u.nextAge = t.nextAge + Cardinality(N)
  BY StateFields DEF Files
<1>5. ASSUME NEW i \in Recorded(u)
      PROVE  \/ i \in Recorded(t) \ N /\ AgeOf(u, i) = AgeOf(t, i)
             \/ i \in N /\ AgeOf(u, i) = t.nextAge + Rank(t, N, i)
  <2>1. CASE i \in DOMAIN t.completed
    BY <2>1 DEF Files, Recorded, AgeOf, Homed
  <2>2. CASE i \in DOMAIN u.completed \ DOMAIN t.completed
    <3>1. \/ i \in N /\ u.completed[i].age = t.nextAge + Rank(t, N, i)
          \/ i \in R \ N /\ u.completed[i].age = t.queued[i].wake.age
      BY <2>2 DEF Files
    <3>2. i \in R => i \in Present(t) /\ Prior(t, i) = t.queued[i].wake
      BY DEF Present, Prior, Homed
    <3> QED
      BY <2>2, <3>1, <3>2 DEF Recorded, AgeOf
  <2>3. CASE i \notin DOMAIN u.completed
    <3>1. i \in Present(u) /\ Prior(u, i) # None /\ i \notin DOMAIN t.completed
      BY <2>3 DEF Recorded, Files
    <3>2. i \in Present(t) /\ i \notin R /\ Prior(u, i) = Prior(t, i)
      BY <1>1, <3>1 DEF Files, Present, Prior, Homed
    <3> QED
      BY <2>3, <3>1, <3>2 DEF Recorded, AgeOf
  <2> QED
    BY <2>1, <2>2, <2>3
<1>6. \A i \in Recorded(t) : AgeOf(t, i) \in Nat
  BY RecordedTyped
<1> HIDE DEF N
<1>7. ASSUME Aged(t) PROVE Aged(u)
  <2>1. \A i \in Recorded(u) : AgeOf(u, i) < u.nextAge
    BY <1>3, <1>4, <1>5, <1>6, <1>7 DEF Aged
  <2>2. ASSUME NEW i \in Recorded(u), NEW j \in Recorded(u) \ {i} PROVE AgeOf(u, j) # AgeOf(u, i)
    <3>1. i # j
      OBVIOUS
    <3>2. CASE i \in N /\ j \in N
      <4>1. /\ AgeOf(u, i) = t.nextAge + Rank(t, N, i) /\ AgeOf(u, j) = t.nextAge + Rank(t, N, j)
            /\ Rank(t, N, i) # Rank(t, N, j)
        BY <1>3, <1>5, <3>1, <3>2
      <4> QED
        BY <1>3, <1>4, <3>2, <4>1
    <3>3. CASE i \notin N \/ j \notin N
      BY <1>3, <1>4, <1>5, <1>6, <1>7, <3>1, <3>3 DEF Aged
    <3> QED
      BY <3>2, <3>3
  <2> QED
    BY <2>1, <2>2 DEF Aged
<1> QED
  BY <1>1, <1>2, <1>3, <1>4, <1>7 DEF Advances

\* What the sweep starts was ahead of everything its session still has queued.
LEMMA StartableFirst ==
    ASSUME NEW t \in State, TicketsDiffer(t), NEW i \in Startable(t),
           NEW j \in Waiting(t) \ Startable(t), t.queued[i].req.parent = t.queued[j].req.parent
    PROVE  t.queued[i].ticket < t.queued[j].ticket
<1>1. i \in Waiting(t) /\ j \in Waiting(t) /\ i # j
      /\ i \in DOMAIN t.queued /\ j \in DOMAIN t.queued
  BY StartableIs DEF Waiting
<1>2. t.queued[i].ticket \in Nat /\ t.queued[j].ticket \in Nat
  <2>1. \A k \in DOMAIN t.queued : t.queued[k] \in QueuedSpawn
    BY StateFields, MapElement
  <2> QED
    BY <1>1, <2>1 DEF QueuedSpawn
<1>3. SUFFICES ASSUME t.queued[j].ticket < t.queued[i].ticket PROVE FALSE
  BY <1>1, <1>2 DEF TicketsDiffer
<1>4. \A k \in Waiting(t) : t.queued[k].ticket \in Nat
  <2>1. \A k \in DOMAIN t.queued : t.queued[k] \in QueuedSpawn
    BY StateFields, MapElement
  <2> QED
    BY <2>1 DEF QueuedSpawn, Waiting
<1>5. Ahead(t, j) \subseteq Ahead(t, i)
  BY <1>2, <1>3, <1>4 DEF Ahead
<1>6. Ahead(t, i) \in SUBSET Ids /\ Ahead(t, j) \in SUBSET Ids
  BY DomainFacts DEF Ahead, Waiting
<1>7. /\ Cardinality(Ahead(t, i)) \in Nat /\ Cardinality(Ahead(t, j)) \in Nat
      /\ Cardinality(Ahead(t, j)) <= Cardinality(Ahead(t, i))
  BY <1>5, <1>6, IdSetsFinite, FS_Subset
<1>8. Cardinality(Running(t, t.queued[i].req.parent)) \in Nat
  BY RunningFinite
<1>9. Cardinality(Running(t, t.queued[i].req.parent)) + Cardinality(Ahead(t, i)) < Limit
  BY StartableIs
<1>10. ~(Cardinality(Running(t, t.queued[i].req.parent)) + Cardinality(Ahead(t, j)) < Limit)
  BY <1>1, StartableIs
<1>11. Limit \in Nat
  BY LimitPositive
<1> HIDE DEF Limit
<1> QED
  BY <1>7, <1>8, <1>9, <1>10, <1>11

\* Terminal records are added, never rewritten.
Keeps(t, u) ==
    \A i \in DOMAIN t.completed : i \in DOMAIN u.completed /\ u.completed[i] = t.completed[i]

LEMMA SweepAdvances ==
    ASSUME NEW t \in State, Homed(t), TicketsDiffer(t), QueueOfTasks(t)
    PROVE  /\ Advances(t, Sweep(t), {}) /\ Keeps(t, Sweep(t)) /\ Sweep(t).graph = t.graph
           /\ \A i \in Ids \ DOMAIN t.queued : Sweep(t).callers[i] = t.callers[i]
           /\ Sweep(t) \in State /\ Homed(Sweep(t))
           /\ (\A i \in DOMAIN t.queued : t.queued[i].req.parent \notin t.drains) =>
                 Sweep(t).blocked = t.blocked
<1> DEFINE u == StartQueued(t)
           R == {i \in DOMAIN u.queued : u.queued[i].cancelled}
           N == {i \in R : u.queued[i].wake = None}
           v == Sweep(t)
<1>1. u \in State /\ Homed(u) /\ v \in State /\ Homed(v)
  BY StartQueuedType, StartQueuedHomed, SweepType, SweepHomed
<1>2. /\ DOMAIN u.queued = DOMAIN t.queued \ Startable(t)
      /\ \A i \in DOMAIN u.queued : u.queued[i] = t.queued[i]
      /\ \A i \in Startable(t) : u.pending[i].req = t.queued[i].req
      /\ u.active = t.active /\ u.completed = t.completed /\ u.graph = t.graph
      /\ u.nextAge = t.nextAge /\ u.callers = t.callers
      /\ u.blocked = t.blocked /\ u.drains = t.drains
  BY StartQueuedFacts
<1>3. /\ Present(u) = Present(t) /\ Live(u) = Live(t) \cup Startable(t)
      /\ \A i \in Live(t) : ChildOf(u, i) = ChildOf(t, i)
      /\ \A i \in Startable(t) : ChildOf(u, i) = u.pending[i]
      /\ \A i \in Present(t) : Prior(u, i) = Prior(t, i)
  BY StartQueuedViews
<1>4. Startable(t) \in SUBSET DOMAIN t.queued
  BY StartableFacts
<1>5. v = FinishCancelledQueued(u, R)
  BY DEF Sweep
<1> HIDE DEF u, v
<1>6. R \in SUBSET DOMAIN u.queued /\ TicketsDiffer(u) /\ N = R
  BY <1>2 DEF TicketsDiffer, QueueOfTasks
<1>7. Files(u, R, N, v)
  BY <1>1, <1>5, <1>6, FinishCancelledQueuedFiles
<1>8. Advances(u, v, {}) /\ Live(v) = Live(u)
  BY <1>1, <1>6, <1>7, FilesAdvances
<1>9. Aged(t) => Aged(u)
  <2>1. \A i \in Recorded(u) : i \in Recorded(t) /\ AgeOf(u, i) = AgeOf(t, i)
    BY <1>2, <1>3 DEF Recorded, AgeOf
  <2> QED
    BY <1>2, <2>1, CarriedAged
<1>10. /\ DOMAIN v.queued = {j \in DOMAIN u.queued : ~u.queued[j].cancelled}
       /\ \A j \in DOMAIN v.queued : v.queued[j] = t.queued[j]
       /\ \A i \in Live(v) : ChildOf(v, i) = ChildOf(u, i)
  BY <1>2, <1>7, <1>8 DEF Files, ChildOf, Live
<1>16. (\A i \in DOMAIN t.queued : t.queued[i].req.parent \notin t.drains) =>
          v.blocked = t.blocked
  BY <1>2, <1>6, <1>7 DEF Files
<1> HIDE DEF R, N
<1>11. \A j \in DOMAIN v.queued : j \in Waiting(t) \ Startable(t) /\ j \in DOMAIN t.queued
  BY <1>2, <1>10 DEF Waiting
<1>12. \A i \in Startable(t) : /\ i \in Present(t) /\ RequestOf(t, i) = t.queued[i].req
                               /\ ChildOf(u, i).req = t.queued[i].req
  BY <1>2, <1>3, <1>4 DEF Present, RequestOf, Homed
<1>13. \A i \in Live(t) : i \in Present(t) /\ RequestOf(t, i) = ChildOf(u, i).req
  BY <1>3 DEF Present, RequestOf
<1>14. Passes(t, v, {})
  <2>1. \A i \in Live(v) \ Live(t), j \in DOMAIN v.queued :
          v.queued[j].req.parent = ChildOf(v, i).req.parent =>
             t.queued[i].ticket < t.queued[j].ticket
    <3> SUFFICES ASSUME NEW i \in Live(v) \ Live(t), NEW j \in DOMAIN v.queued,
                        v.queued[j].req.parent = ChildOf(v, i).req.parent
                 PROVE  t.queued[i].ticket < t.queued[j].ticket
      OBVIOUS
    <3>1. i \in Startable(t) /\ j \in Waiting(t) \ Startable(t)
      BY <1>3, <1>8, <1>11
    <3>2. t.queued[i].req.parent = t.queued[j].req.parent
      BY <1>8, <1>10, <1>12, <3>1
    <3> QED
      BY <3>1, <3>2, StartableFirst
  <2>2. \A i \in Live(v) : i \in Present(t) /\ ChildOf(v, i).req.parent = RequestOf(t, i).parent
    BY <1>3, <1>8, <1>10, <1>12, <1>13
  <2>3. \A j \in DOMAIN v.queued : j \in DOMAIN t.queued /\ v.queued[j] = t.queued[j]
    BY <1>10, <1>11
  <2>4. Live(t) \subseteq Live(v)
    BY <1>3, <1>8
  <2> QED
    BY <2>1, <2>2, <2>3, <2>4 DEF Passes
<1>15. /\ Keeps(t, v) /\ v.graph = t.graph
       /\ \A i \in Ids \ DOMAIN t.queued : v.callers[i] = t.callers[i]
  BY <1>2, <1>6, <1>7 DEF Keeps, Files
<1> QED
  BY <1>1, <1>2, <1>8, <1>9, <1>14, <1>15, <1>16 DEF Advances, v

LEMMA RemoveQueuedAdvances ==
    ASSUME NEW t \in State, Homed(t), TicketsDiffer(t), QueueOfTasks(t),
           NEW R \in SUBSET DOMAIN t.queued
    PROVE  LET u == RemoveQueued(t, R)
           IN  /\ Advances(t, u, {}) /\ u \in State /\ Homed(u)
               /\ (\A i \in R : t.queued[i].wake = None) => u.graph = t.graph
               /\ (\A i \in DOMAIN t.queued : t.queued[i].req.parent \notin t.drains) =>
                     u.blocked = t.blocked
<1> DEFINE t0 == [t EXCEPT !.parked = {m \in t.parked : m[1] \notin R}]
           u == FinishCancelledQueued(t0, R)
           N == {i \in R : t0.queued[i].wake = None}
<1>1. /\ t0 \in State /\ t0.queued = t.queued /\ t0.pending = t.pending /\ t0.active = t.active
      /\ t0.completed = t.completed /\ t0.graph = t.graph /\ t0.nextAge = t.nextAge
      /\ t0.callers = t.callers /\ t0.blocked = t.blocked /\ t0.drains = t.drains
  BY DEF State, StateOver
<1>2. RemoveQueued(t, R) = IF \E i \in R : t.queued[i].wake = None THEN Sweep(u) ELSE u
  BY DEF RemoveQueued
<1> HIDE DEF t0
<1>3. SameHomes(t, t0) /\ SofterMaps(t, t0)
  BY <1>1 DEF SameHomes, SofterMaps, SofterChild, SofterEntry
<1>4. Advances(t, t0, {}) /\ Homed(t0) /\ TicketsDiffer(t0)
  BY <1>1, <1>3, StillAdvances, SameHomesHomed DEF TicketsDiffer
<1>5. u \in State /\ Homed(u)
  BY <1>1, <1>4, FinishCancelledQueuedType, FinishCancelledQueuedHomed
<1>6. Files(t0, R, N, u)
  BY <1>1, <1>4, FinishCancelledQueuedFiles
<1> HIDE DEF u
<1>7. Advances(t0, u, {})
  BY <1>1, <1>4, <1>5, <1>6, FilesAdvances
<1>8. Advances(t, u, {})
  BY <1>1, <1>4, <1>5, <1>7, ThenAdvances
<1>9. TicketsDiffer(u) /\ QueueOfTasks(u)
  BY <1>1, <1>6 DEF Files, TicketsDiffer, QueueOfTasks
<1>10. /\ Advances(u, Sweep(u), {}) /\ Sweep(u).graph = u.graph
       /\ Sweep(u) \in State /\ Homed(Sweep(u))
       /\ (\A i \in DOMAIN u.queued : u.queued[i].req.parent \notin u.drains) =>
             Sweep(u).blocked = u.blocked
  BY <1>5, <1>9, SweepAdvances
<1>13. (\A i \in DOMAIN t.queued : t.queued[i].req.parent \notin t.drains) =>
          /\ u.blocked = t.blocked
          /\ \A i \in DOMAIN u.queued : u.queued[i].req.parent \notin u.drains
  BY <1>1, <1>6 DEF Files
<1>11. Advances(t, Sweep(u), {})
  BY <1>5, <1>8, <1>10, ThenAdvances
<1>12. (\A i \in R : t.queued[i].wake = None) => u.graph = t.graph
  <2>1. (\A i \in R : t.queued[i].wake = None) => N = R
    BY <1>1
  <2> QED
    BY <1>1, <1>6, <2>1 DEF Files
<1> QED
  BY <1>2, <1>5, <1>8, <1>10, <1>11, <1>12, <1>13

LEMMA ReapAdvances ==
    ASSUME NEW t, Sound(t)
    PROVE  Advances(t, Reap(t), {}) /\ Reap(t).graph = t.graph /\ Reap(t).blocked = t.blocked
<1>0. t \in State /\ Homed(t) /\ Kept(t)
  BY DEF Sound
<1> DEFINE u == WithoutGoneCallers(t)
           R == {i \in DOMAIN u.queued : u.queued[i].cancelled}
<1>1. u \in State /\ Eased(t, u, {})
  BY <1>0, WithoutGoneCallersType, WithoutGoneCallersEased DEF Kept, Good
<1>2. /\ u.completed = t.completed /\ u.nextAge = t.nextAge /\ u.graph = t.graph
      /\ u.blocked = t.blocked
  BY <1>0 DEF WithoutGoneCallers, State, StateOver
<1>3. Reap(t) = RemoveQueued(u, R)
  BY DEF Reap
<1> HIDE DEF u
<1>4. Good(u, {}, {}) /\ Homed(u)
  BY <1>0, <1>1, EasedGood DEF Kept
<1>5. TicketsDiffer(u) /\ QueueOfTasks(u)
  BY <1>4 DEF Good, Promised
<1>6. Advances(t, u, {})
  BY <1>0, <1>1, <1>2, StillAdvances DEF Eased
<1>7. R \in SUBSET DOMAIN u.queued /\ \A i \in R : u.queued[i].wake = None
  BY <1>5 DEF QueueOfTasks
<1> HIDE DEF R
<1>8. /\ Advances(u, RemoveQueued(u, R), {}) /\ RemoveQueued(u, R).graph = u.graph
      /\ RemoveQueued(u, R) \in State /\ RemoveQueued(u, R).blocked = u.blocked
  <2>1. \A i \in DOMAIN u.queued : u.queued[i].req.parent \notin u.drains
    BY <1>4 DEF Good, QuietBut
  <2> QED
    BY <1>1, <1>4, <1>5, <1>7, <2>1, RemoveQueuedAdvances
<1> QED
  BY <1>0, <1>1, <1>2, <1>3, <1>4, <1>6, <1>8, ThenAdvances
-----------------------------------------------------------------------------
(* Ending a child *)

\* The record in u of child i of t, which ended, is reported, unless the child
\* was cancelled, put down or told to keep quiet.
Told(t, i, u) ==
    LET c == ChildOf(t, i)
        d == u.completed[i]
    IN  \/ ~c.req.surface \/ c.killed \/ d.cancelled \/ d.surfaced
        \/ t.callers[i] = "waiting" /\ u.callers[i] = "result"
        \/ t.waiters[i] = "open"

\* Child i leaves a new record, or the one its wake displaced; the latter is
\* lost only by age.
Leaves(t, i, u) ==
    LET c == ChildOf(t, i)
    IN  IF i \in DOMAIN u.completed
        THEN \/ c.wakeOf # None /\ u.completed[i].age = c.wakeOf.age
             \/ u.completed[i].age >= t.nextAge /\ Told(t, i, u)
        ELSE c.wakeOf # None => Expired(c.wakeOf, u.nextAge)

Ends(t, i, u) == i \in Live(t) \ Live(u) /\ Advances(t, u, {i}) /\ Leaves(t, i, u)

LEMMA DepartedAdvances ==
    ASSUME NEW t \in State, Homed(t), NEW i \in Live(t), NEW out \in Output,
           NEW v \in State, Homed(v), Departed(t, i, v), Ended(t, i, out, v)
    PROVE  Ends(t, i, v) /\ i \notin DOMAIN v.queued
<1> DEFINE c == ChildOf(t, i)
<1>1. OthersLeft(t, i, v)
  BY DepartedViews
<1>2. t.nextAge \in Nat /\ v.nextAge \in {t.nextAge, t.nextAge + 1}
  BY StateFields DEF Ended
<1>3. i \in Present(t) /\ i \notin DOMAIN t.queued /\ i \notin DOMAIN t.completed
      /\ Prior(t, i) = c.wakeOf
  BY DEF Present, Homed, Prior
<1>4. Passes(t, v, {i})
  <2>1. \A j \in DOMAIN v.queued \ {i} :
          j \in DOMAIN t.queued /\ v.queued[j] = t.queued[j]
    BY DEF Departed
  <2>2. \A j \in Live(v) \ {i} :
          /\ j \in Live(t) /\ j \in Present(t)
          /\ ChildOf(v, j).req = RequestOf(t, j)
    BY <1>1 DEF OthersLeft, Present, RequestOf
  <2>3. Live(t) \ {i} \subseteq Live(v)
    BY <1>1 DEF OthersLeft
  <2> QED
    BY <2>1, <2>2, <2>3 DEF Passes
<1>5. ASSUME NEW j \in Recorded(v)
      PROVE  \/ j \in Recorded(t) /\ AgeOf(v, j) = AgeOf(t, j)
             \/ j = i /\ AgeOf(v, j) = t.nextAge /\ v.nextAge = t.nextAge + 1
  <2>1. CASE j = i
    <3>1. j \in DOMAIN v.completed
      BY <1>1, <2>1 DEF Recorded, OthersLeft
    <3> QED
      BY <1>3, <2>1, <3>1 DEF Ended, Recorded, AgeOf
  <2>2. CASE j # i /\ j \in DOMAIN v.completed
    BY <2>2 DEF Departed, Recorded, AgeOf
  <2>3. CASE j # i /\ j \notin DOMAIN v.completed
    <3>1. j \in Present(v) /\ j \in Present(t) /\ Prior(v, j) = Prior(t, j) /\ Prior(v, j) # None
      BY <1>1, <2>3 DEF Recorded, OthersLeft
    <3>2. j \notin DOMAIN t.completed
      BY <3>1 DEF Homed, Present
    <3> QED
      BY <2>3, <3>1, <3>2 DEF Recorded, AgeOf
  <2> QED
    BY <2>1, <2>2, <2>3
<1>6. ASSUME Aged(t) PROVE Aged(v)
  <2>1. \A j \in Recorded(t) : AgeOf(t, j) \in Nat /\ AgeOf(t, j) < t.nextAge
    BY <1>6, RecordedTyped DEF Aged
  <2>2. \A j \in Recorded(v) : AgeOf(v, j) < v.nextAge
    BY <1>2, <1>5, <2>1
  <2>3. \A j \in Recorded(v) : \A k \in Recorded(v) \ {j} : AgeOf(v, k) # AgeOf(v, j)
    BY <1>2, <1>5, <1>6, <2>1 DEF Aged
  <2> QED
    BY <2>2, <2>3 DEF Aged
<1>7. Advances(t, v, {i})
  BY <1>2, <1>4, <1>6 DEF Advances
<1>8. Leaves(t, i, v)
  <2>1. CASE /\ c.wakeOf # None /\ v.nextAge = t.nextAge
             /\ IF i \in DOMAIN v.completed THEN v.completed[i].age = c.wakeOf.age
                ELSE Expired(c.wakeOf, t.nextAge)
    BY <2>1 DEF Leaves
  <2>2. CASE /\ v.nextAge = t.nextAge + 1
             /\ i \in DOMAIN v.completed /\ v.completed[i].age = t.nextAge
             /\ v.completed[i].surfaced = Surfaces(t, i, c, out)
             /\ v.completed[i].cancelled = out.cancelled
             /\ c.reply /\ t.callers[i] = "waiting" => v.callers[i] = "result"
    <3>1. Told(t, i, v)
      BY <2>2 DEF Told, Surfaces
    <3> QED
      BY <1>2, <2>2, <3>1 DEF Leaves
  <2> QED
    BY <2>1, <2>2 DEF Ended
<1> QED
  BY <1>1, <1>3, <1>7, <1>8 DEF Ends, OthersLeft, Departed

\* The rest of the step neither answers child i again nor touches its record.
LEMMA EndsThen ==
    ASSUME NEW t \in State, NEW v \in State, NEW u \in State, NEW i \in Ids, Homed(t), Homed(v),
           Ends(t, i, v), Advances(v, u, {}), Keeps(v, u), i \notin DOMAIN u.completed \ DOMAIN v.completed,
           i \notin DOMAIN v.queued, u.callers[i] = v.callers[i]
    PROVE  Ends(t, i, u)
<1>1. Advances(t, u, {i})
  BY ThenAdvances DEF Ends
<1>2. i \in Live(t) \ Live(u)
  BY DEF Ends, Advances, Passes, Present
<1>3. v.nextAge \in Nat /\ u.nextAge \in Nat /\ v.nextAge <= u.nextAge
  BY StateFields DEF Advances
<1>4. CASE i \in DOMAIN v.completed
  <2>1. i \in DOMAIN u.completed /\ u.completed[i] = v.completed[i]
    BY <1>4 DEF Keeps
  <2> QED
    BY <1>1, <1>2, <1>4, <2>1 DEF Ends, Leaves, Told
<1>5. CASE i \notin DOMAIN v.completed
  <2>1. i \notin DOMAIN u.completed
    BY <1>5
  <2>2. ChildOf(t, i).wakeOf # None =>
           ChildOf(t, i).wakeOf \in CompletedChild /\ Expired(ChildOf(t, i).wakeOf, v.nextAge)
    <3>1. ChildOf(t, i) \in Child
      BY LiveFacts DEF Ends
    <3> QED
      BY <1>5, <3>1 DEF Ends, Leaves, Child
  <2>3. \A d \in CompletedChild : Expired(d, v.nextAge) => Expired(d, u.nextAge)
    BY <1>3, BoundsPositive DEF Expired, CompletedChild
  <2> QED
    BY <1>1, <1>2, <1>5, <2>1, <2>2, <2>3 DEF Ends, Leaves
<1> QED
  BY <1>4, <1>5
\* finish_child.
LEMMA FinishChildEnds ==
    ASSUME NEW t \in State, Homed(t), NEW i \in Live(t), NEW out \in Output, Good(t, {i}, {})
    PROVE  Ends(t, i, FinishChild(t, i, out))
<1> PICK v \in State :
           /\ Homed(v) /\ Departed(t, i, v) /\ Ended(t, i, out, v)
           /\ FinishChild(t, i, out) =
                 Sweep(ResolveTeardownDrains(v, {ChildOf(t, i).req.parent}))
  BY FinishChildDeparts
<1> DEFINE w == ResolveTeardownDrains(v, {ChildOf(t, i).req.parent})
           u == Sweep(w)
<1>1. Ends(t, i, v) /\ i \notin DOMAIN v.queued
  BY DepartedAdvances
<1>2. Good(v, {}, {}) /\ i \in Ids
  BY DepartedGood, LiveFacts
<1>3. w \in State /\ Eased(v, w, {})
  BY <1>2, ResolveTeardownDrainsType, ResolveTeardownDrainsEased DEF Good
<1>4. Good(w, {}, {}) /\ Homed(w)
  BY <1>2, <1>3, EasedGood
<1>5. /\ w.completed = v.completed /\ w.nextAge = v.nextAge /\ w.callers = v.callers
      /\ w.queued = v.queued /\ w.graph = v.graph
  BY DEF ResolveTeardownDrains, ClearTeardownDrain, State, StateOver
<1> HIDE DEF w
<1>6. Advances(v, w, {})
  BY <1>3, <1>5, StillAdvances DEF Eased
<1>7. TicketsDiffer(w) /\ QueueOfTasks(w)
  BY <1>4 DEF Good, Promised
<1>8. /\ Advances(w, u, {}) /\ Keeps(w, u) /\ u.graph = w.graph
      /\ \A j \in Ids \ DOMAIN w.queued : u.callers[j] = w.callers[j]
      /\ u \in State /\ Homed(u)
  BY <1>3, <1>4, <1>7, SweepAdvances
<1> HIDE DEF u
<1>9. Advances(v, u, {})
  BY <1>3, <1>4, <1>6, <1>8, ThenAdvances
<1>10. Keeps(v, u) /\ u.callers[i] = v.callers[i]
  BY <1>1, <1>2, <1>5, <1>8 DEF Keeps
<1>11. i \notin DOMAIN u.completed \ DOMAIN v.completed
  BY <1>1, <1>5, <1>8 DEF Homed, Known, Ends
<1> QED
  BY <1>1, <1>2, <1>8, <1>9, <1>10, <1>11, EndsThen DEF u, w

\* The child that ends was changed first, in nothing that matters to its end.
LEMMA ThenEnds ==
    ASSUME NEW t \in State, NEW s \in State, NEW u \in State, NEW i \in Ids, Homed(t), Homed(s),
           Advances(t, s, {}), Live(s) = Live(t), Ends(s, i, u), s.nextAge = t.nextAge,
           ChildOf(s, i).wakeOf = ChildOf(t, i).wakeOf, ChildOf(s, i).req = ChildOf(t, i).req,
           ChildOf(s, i).killed = ChildOf(t, i).killed,
           s.callers[i] = t.callers[i], s.waiters[i] = t.waiters[i]
    PROVE  Ends(t, i, u)
<1>1. Advances(t, u, {i})
  BY FirstAdvances DEF Ends
<1>2. Told(s, i, u) => Told(t, i, u)
  BY DEF Told
<1>3. Leaves(t, i, u)
  BY <1>2 DEF Ends, Leaves
<1> QED
  BY <1>1, <1>3 DEF Ends

\* One field of active child i is rewritten.
LEMMA ActiveStill ==
    ASSUME NEW t \in State, Homed(t), NEW i \in DOMAIN t.active, NEW c \in Child,
           SofterChild(t.active[i], c, t.callers[i] = "waiting")
    PROVE  LET s == [t EXCEPT !.active[i] = c]
           IN  /\ s \in State /\ Homed(s) /\ Advances(t, s, {}) /\ Live(s) = Live(t)
               /\ i \in DOMAIN s.active /\ s.active[i] = c
               /\ ChildOf(s, i) = c /\ ChildOf(t, i) = t.active[i]
               /\ s.nextAge = t.nextAge /\ s.callers = t.callers /\ s.waiters = t.waiters
               /\ s.blocked = t.blocked /\ s.outputs = t.outputs
<1> DEFINE s == [t EXCEPT !.active[i] = c]
<1>1. s \in State
  BY ActiveUpdateType
<1>2. /\ s.active = [t.active EXCEPT ![i] = c] /\ s.queued = t.queued /\ s.pending = t.pending
      /\ s.completed = t.completed /\ s.graph = t.graph /\ s.nextAge = t.nextAge
      /\ s.callers = t.callers /\ s.waiters = t.waiters /\ s.blocked = t.blocked
      /\ s.outputs = t.outputs
  BY DEF State, StateOver
<1>3. DOMAIN s.active = DOMAIN t.active /\ s.active[i] = c
      /\ \A j \in DOMAIN t.active \ {i} : s.active[j] = t.active[j]
  BY <1>2
<1> HIDE DEF s
<1>4. SameHomes(t, s) /\ SofterMaps(t, s)
  BY <1>2, <1>3 DEF SameHomes, SofterMaps, SofterChild, SofterEntry
<1>5. Advances(t, s, {}) /\ Homed(s)
  BY <1>1, <1>2, <1>4, StillAdvances, SameHomesHomed
<1>6. Live(s) = Live(t) /\ ChildOf(s, i) = c /\ ChildOf(t, i) = t.active[i]
  BY <1>2, <1>3 DEF Live, ChildOf
<1> QED
  BY <1>1, <1>2, <1>3, <1>5, <1>6 DEF s

\* finish_terminalized_child.
LEMMA FinishTerminalizedEnds ==
    ASSUME NEW t \in State, Homed(t), NEW i \in DOMAIN t.active, NEW out \in Output,
           Good(t, {i}, {})
    PROVE  Ends(t, i, FinishTerminalized(t, i, out))
<1> DEFINE c == [t.active[i] EXCEPT !.cancelled = TRUE]
           s == [t EXCEPT !.active[i] = c]
           no == [success |-> FALSE, cancelled |-> TRUE]
<1>1. i \in Live(t) /\ i \in Ids /\ no \in Output
  BY DomainFacts DEF Live, Output
<1>2. FinishTerminalized(t, i, out) =
         IF t.active[i].clean THEN FinishChild(t, i, out) ELSE FinishChild(s, i, no)
  <2>1. [t EXCEPT !.active[i].cancelled = TRUE] = s
    BY DEF State, StateOver
  <2> QED
    BY <2>1 DEF FinishTerminalized
<1>3. t.active[i] \in Child
  BY StateFields, MapElement
<1>4. /\ c \in Child /\ c.wakeOf = t.active[i].wakeOf /\ c.req = t.active[i].req
      /\ c.killed = t.active[i].killed /\ c.phase = t.active[i].phase
      /\ c.inFlight = t.active[i].inFlight
      /\ SofterChild(t.active[i], c, t.callers[i] = "waiting")
  BY <1>3 DEF Child, SofterChild
<1> HIDE DEF c, no
<1>5. /\ s \in State /\ Homed(s) /\ Advances(t, s, {}) /\ Live(s) = Live(t)
      /\ i \in DOMAIN s.active
      /\ ChildOf(s, i) = c /\ ChildOf(t, i) = t.active[i]
      /\ s.nextAge = t.nextAge /\ s.callers = t.callers /\ s.waiters = t.waiters
  BY <1>4, ActiveStill
<1>6. Good(s, {i}, {})
  <2>1. Eased(t, s, {i})
    BY <1>4, ActiveEased DEF Good
  <2> QED
    BY <1>5, <2>1, EasedGood
<1> HIDE DEF s
<1>7. Ends(s, i, FinishChild(s, i, no)) /\ FinishChild(s, i, no) \in State
  BY <1>1, <1>5, <1>6, FinishChildEnds, FinishChildType
<1>8. Ends(t, i, FinishChild(s, i, no))
  BY <1>1, <1>4, <1>5, <1>7, ThenEnds
<1>9. Ends(t, i, FinishChild(t, i, out))
  BY <1>1, FinishChildEnds
<1> QED
  BY <1>2, <1>8, <1>9
\* Only fields that no child and no record is in are different.
LEMMA AsideAdvances ==
    ASSUME NEW t \in State, NEW u \in State, u.queued = t.queued, u.pending = t.pending,
           u.active = t.active, u.completed = t.completed, u.graph = t.graph,
           u.nextAge = t.nextAge
    PROVE  Advances(t, u, {})
<1>1. SameHomes(t, u) /\ SofterMaps(t, u)
  BY SofterSelf DEF SameHomes
<1> QED
  BY <1>1, StillAdvances

\* begin_terminalization ends the child or withholds its output.
LEMMA BeginTerminalizationEnds ==
    ASSUME NEW t \in State, Homed(t), Kept(t), NEW i \in Live(t), NEW out \in Output
    PROVE  LET u == BeginTerminalization(t, i, out)
           IN  Ends(t, i, u) \/ Advances(t, u, {})
<1> DEFINE c == [t.active[i] EXCEPT !.phase = "Finalizing"]
           s == [t EXCEPT !.active[i] = c]
           h == [s EXCEPT !.outputs = Put(s.outputs, i, out)]
           u == BeginTerminalization(t, i, out)
<1>1. i \in Ids /\ Good(t, {i}, {})
  BY LiveFacts, GoodBut DEF Kept
<1>2. CASE i \notin DOMAIN t.active
  BY <1>1, <1>2, FinishChildEnds DEF BeginTerminalization
<1>3. CASE i \in DOMAIN t.active
  <2>1. u = IF t.active[i].inFlight = 0 THEN FinishTerminalized(s, i, out) ELSE h
    <3>1. [t EXCEPT !.active[i].phase = "Finalizing"] = s
      BY <1>3 DEF State, StateOver
    <3> QED
      BY <1>3, <3>1 DEF BeginTerminalization
  <2>2. t.active[i] \in Child
    BY <1>3, StateFields, MapElement
  <2>3. /\ c \in Child /\ c.wakeOf = t.active[i].wakeOf /\ c.req = t.active[i].req
        /\ c.killed = t.active[i].killed
        /\ SofterChild(t.active[i], c, t.callers[i] = "waiting")
    BY <2>2 DEF Child, SofterChild
  <2> HIDE DEF c
  <2>4. /\ s \in State /\ Homed(s) /\ Advances(t, s, {}) /\ Live(s) = Live(t)
        /\ i \in DOMAIN s.active
        /\ ChildOf(s, i) = c /\ ChildOf(t, i) = t.active[i]
        /\ s.nextAge = t.nextAge /\ s.callers = t.callers /\ s.waiters = t.waiters
    BY <1>3, <2>3, ActiveStill
  <2>5. Good(s, {i}, {})
    <3>1. Eased(t, s, {i})
      BY <1>1, <1>3, <2>3, ActiveEased DEF Good
    <3> QED
      BY <1>1, <2>4, <3>1, EasedGood
  <2> HIDE DEF s
  <2>6. /\ Ends(s, i, FinishTerminalized(s, i, out))
        /\ FinishTerminalized(s, i, out) \in State
    BY <2>4, <2>5, FinishTerminalizedEnds, FinishTerminalizedType
  <2>7. Ends(t, i, FinishTerminalized(s, i, out))
    BY <1>1, <2>3, <2>4, <2>6, ThenEnds
  <2>8. Advances(t, h, {})
    <3>1. Put(s.outputs, i, out) \in MapOf(Output)
      BY <1>1, <2>4, StateFields, PutType
    <3>2. h \in State
      BY <2>4, <3>1 DEF State, StateOver
    <3>3. /\ h.queued = s.queued /\ h.pending = s.pending /\ h.active = s.active
          /\ h.completed = s.completed /\ h.graph = s.graph /\ h.nextAge = s.nextAge
      BY <2>4 DEF State, StateOver
    <3> HIDE DEF h
    <3>4. Advances(s, h, {})
      BY <2>4, <3>2, <3>3, AsideAdvances
    <3> QED
      BY <2>4, <3>2, <3>4, ThenAdvances
  <2> QED
    BY <2>1, <2>7, <2>8
<1> QED
  BY <1>2, <1>3
-----------------------------------------------------------------------------
(* The loop's tail *)

\* Every record but the MaxCompleted newest is evicted, and an evicted record
\* is too old to be given back: the newer ones all took an age of their own.
LEMMA LoopTailEvicts ==
    ASSUME NEW t \in State, Homed(t), Aged(t), NEW i \in Oldest(t)
    PROVE  Expired(t.completed[i], t.nextAge)
<1> DEFINE a == t.completed[i].age
           B == {j \in DOMAIN t.completed : t.completed[j].age > a}
           I == (a + 1)..(t.nextAge - 1)
           g == [j \in B |-> t.completed[j].age]
<1>1. i \in DOMAIN t.completed /\ Cardinality(B) >= MaxCompleted
  BY DEF Oldest
<1>2. \A j \in DOMAIN t.completed : t.completed[j].age \in Nat
  <2>1. \A j \in DOMAIN t.completed : t.completed[j] \in CompletedChild
    BY StateFields, MapElement
  <2> QED
    BY <2>1 DEF CompletedChild
<1>3. t.nextAge \in Nat /\ MaxCompleted \in Nat
  BY StateFields, BoundsPositive
<1>4. \A j \in DOMAIN t.completed : j \in Recorded(t) /\ AgeOf(t, j) = t.completed[j].age
  BY DEF Recorded, AgeOf
<1>5. \A j \in DOMAIN t.completed : t.completed[j].age < t.nextAge
  BY <1>4 DEF Aged
<1>6. \A j \in B : \A k \in B : g[j] = g[k] => j = k
  BY <1>4 DEF Aged
<1>7. g \in [B -> I]
  BY <1>1, <1>2, <1>3, <1>5
<1>8. a \in Nat /\ a < t.nextAge
  BY <1>1, <1>2, <1>5
<1>9. IsFiniteSet(I) /\ Cardinality(I) = t.nextAge - 1 - a
  <2>1. a + 1 \in Int /\ t.nextAge - 1 \in Int /\ a + 1 <= t.nextAge - 1 + 1
    BY <1>3, <1>8
  <2> HIDE DEF a
  <2>2. /\ IsFiniteSet(I)
        /\ Cardinality(I) = IF a + 1 > t.nextAge - 1 THEN 0 ELSE (t.nextAge - 1) - (a + 1) + 1
    BY <2>1, FS_Interval
  <2> QED
    BY <1>3, <1>8, <2>1, <2>2
<1>10. g \in Injection(B, I)
  BY <1>6, <1>7 DEF Injection, IsInjective
<1> HIDE DEF a, g, I
<1>11. Cardinality(B) <= Cardinality(I)
  BY <1>9, <1>10, FS_Injection DEF ExistsInjection
<1>12. B \in SUBSET Ids
  BY DomainFacts
<1> HIDE DEF B
<1>13. Cardinality(B) \in Nat
  BY <1>12, IdSetsFinite
<1>14. a + MaxCompleted < t.nextAge
  BY <1>1, <1>3, <1>8, <1>9, <1>11, <1>13
<1> QED
  BY <1>14 DEF Expired, a
LEMMA LoopTailAdvances ==
    ASSUME NEW t \in State, Homed(t)
    PROVE  LET u == LoopTail(t)
           IN  /\ Advances(t, u, {}) /\ u \in State /\ Homed(u)
               /\ u.queued = t.queued /\ u.pending = t.pending /\ u.active = t.active
               /\ u.callers = t.callers /\ u.nextAge = t.nextAge
               /\ DOMAIN u.completed = DOMAIN t.completed \ Oldest(t)
               /\ \A i \in DOMAIN u.completed : u.completed[i] = t.completed[i]
<1> DEFINE u == LoopTail(t)
<1>1. u \in State /\ Homed(u)
  BY LoopTailType, LoopTailHomed
<1>2. /\ u.queued = t.queued /\ u.pending = t.pending /\ u.active = t.active
      /\ u.callers = t.callers /\ u.nextAge = t.nextAge
      /\ u.completed = Drop(t.completed, Oldest(t))
  BY DEF LoopTail, State, StateOver
<1> HIDE DEF u
<1>3. /\ DOMAIN u.completed = DOMAIN t.completed \ Oldest(t)
      /\ \A i \in DOMAIN u.completed : u.completed[i] = t.completed[i]
  BY <1>2 DEF Drop, Restrict
<1>4. Live(u) = Live(t) /\ Present(u) = Present(t)
      /\ \A i : ChildOf(u, i) = ChildOf(t, i) /\ Prior(u, i) = Prior(t, i)
  BY <1>2 DEF Live, Present, ChildOf, Prior
<1>5. Passes(t, u, {})
  <2>1. \A i \in Live(t) : i \in Present(t) /\ RequestOf(t, i) = ChildOf(t, i).req
    BY DEF Present, RequestOf
  <2> QED
    BY <1>2, <1>4, <2>1 DEF Passes
<1>6. \A i \in Recorded(u) : i \in Recorded(t) /\ AgeOf(u, i) = AgeOf(t, i)
  <2>1. \A i \in Present(t) : i \notin DOMAIN t.completed
    BY DEF Homed, Present
  <2> QED
    BY <1>3, <1>4, <2>1 DEF Recorded, AgeOf
<1>7. t.nextAge \in Nat
  BY StateFields
<1>8. Advances(t, u, {})
  BY <1>2, <1>5, <1>6, <1>7, CarriedAged DEF Advances
<1> QED
  BY <1>1, <1>2, <1>3, <1>8 DEF u

LEMMA LoopTailEnds ==
    ASSUME NEW t \in State, Homed(t), Aged(t), NEW i \in Ids, NEW u \in State, Homed(u),
           Ends(t, i, u)
    PROVE  Ends(t, i, LoopTail(u))
<1> DEFINE w == LoopTail(u)
           c == ChildOf(t, i)
<1>1. /\ Advances(u, w, {}) /\ w \in State
      /\ w.pending = u.pending /\ w.active = u.active
      /\ w.callers = u.callers /\ w.nextAge = u.nextAge
      /\ DOMAIN w.completed = DOMAIN u.completed \ Oldest(u)
      /\ \A j \in DOMAIN w.completed : w.completed[j] = u.completed[j]
  BY LoopTailAdvances
<1> SUFFICES Ends(t, i, w)
  OBVIOUS
<1> HIDE DEF w
<1>2. Advances(t, w, {i})
  BY <1>1, ThenAdvances DEF Ends
<1>3. i \in Live(t) \ Live(w) /\ Live(w) = Live(u)
  BY <1>1 DEF Ends, Live
<1>4. Aged(u) /\ t.nextAge \in Nat /\ u.nextAge \in Nat /\ MaxCompleted \in Nat
  BY StateFields, BoundsPositive DEF Ends, Advances
<1>5. c.wakeOf # None => c.wakeOf.age \in Nat /\ c.wakeOf.age < t.nextAge
  <2>1. c.wakeOf # None => i \in Recorded(t) /\ AgeOf(t, i) = c.wakeOf.age
    BY <1>3 DEF Recorded, AgeOf, Present, Prior, Homed
  <2> QED
    BY <2>1, RecordedTyped DEF Aged
<1>6. CASE i \notin DOMAIN u.completed
  BY <1>1, <1>2, <1>3, <1>6 DEF Ends, Leaves
<1>7. CASE i \in DOMAIN w.completed
  <2>1. i \in DOMAIN u.completed /\ w.completed[i] = u.completed[i]
    BY <1>1, <1>7
  <2> QED
    BY <1>1, <1>2, <1>3, <1>7, <2>1 DEF Ends, Leaves, Told
<1>8. CASE i \in DOMAIN u.completed /\ i \notin DOMAIN w.completed
  <2>1. Expired(u.completed[i], u.nextAge)
    BY <1>1, <1>4, <1>8, LoopTailEvicts
  <2>2. u.completed[i].age \in Nat
    <3>1. u.completed[i] \in CompletedChild
      BY <1>8, StateFields, MapElement
    <3> QED
      BY <3>1 DEF CompletedChild
  <2>3. c.wakeOf # None => Expired(c.wakeOf, w.nextAge)
    <3>1. c.wakeOf # None => c.wakeOf.age <= u.completed[i].age
      BY <1>4, <1>5, <1>8, <2>2 DEF Ends, Leaves
    <3> QED
      BY <1>1, <1>4, <1>5, <2>1, <2>2, <3>1 DEF Expired
  <2> QED
    BY <1>2, <1>3, <1>8, <2>3 DEF Ends, Leaves
<1> QED
  BY <1>6, <1>7, <1>8

\* Child i joins; if it starts at once, its session is open and has no queue.
Begins(t, i, u) ==
    /\ i \notin Present(t) /\ Advances(t, u, {i})
    /\ i \in DOMAIN u.pending /\ u.pending[i].req.run = None =>
          /\ u.pending[i].req.parent \notin t.blocked
          /\ \A j \in DOMAIN t.queued \cap DOMAIN u.queued :
                t.queued[j].req.parent # u.pending[i].req.parent

\* What one event does: at most one child ends, or one joins.
Eventful(t, u) ==
    \/ Advances(t, u, {})
    \/ \E i \in Ids : Ends(t, i, u)
    \/ \E i \in Ids : Begins(t, i, u)

LEMMA LoopTailEventful ==
    ASSUME NEW t \in State, Homed(t), Aged(t), NEW u \in State, Homed(u), Eventful(t, u)
    PROVE  Eventful(t, LoopTail(u))
<1>1. /\ Advances(u, LoopTail(u), {}) /\ LoopTail(u) \in State
      /\ LoopTail(u).pending = u.pending /\ LoopTail(u).queued = u.queued
  BY LoopTailAdvances
<1>2. CASE Advances(t, u, {})
  BY <1>1, <1>2, ThenAdvances DEF Eventful
<1>3. ASSUME NEW i \in Ids, Ends(t, i, u) PROVE Eventful(t, LoopTail(u))
  BY <1>3, LoopTailEnds DEF Eventful
<1>4. ASSUME NEW i \in Ids, Begins(t, i, u) PROVE Eventful(t, LoopTail(u))
  <2>1. Advances(t, LoopTail(u), {i})
    BY <1>1, <1>4, ThenAdvances DEF Begins
  <2> QED
    BY <1>1, <1>4, <2>1 DEF Begins, Eventful
<1> QED
  BY <1>2, <1>3, <1>4 DEF Eventful
-----------------------------------------------------------------------------
(* What a step may never do *)

\* Child i, live in u and not in t, was waiting in t, in a session that is open;
\* or it joins.
Comes(t, u, i) ==
    \/ /\ i \in DOMAIN t.queued
       /\ ChildOf(u, i).req.parent = t.queued[i].req.parent
       /\ \A j \in DOMAIN t.queued \cap DOMAIN u.queued :
             ChildOf(u, i).req.parent = t.queued[j].req.parent =>
                t.queued[i].ticket < t.queued[j].ticket
    \/ Begins(t, i, u)

LEMMA EventfulComes ==
    ASSUME NEW t \in State, Homed(t), NEW u \in State, Homed(u), Eventful(t, u),
           NEW i \in Live(u) \ Live(t)
    PROVE  Comes(t, u, i)
<1>1. ASSUME NEW X, Passes(t, u, X), X \cap DOMAIN t.queued = {}, i \notin X
      PROVE  Comes(t, u, i)
  <2>1. i \in DOMAIN t.queued /\ ChildOf(u, i).req.parent = t.queued[i].req.parent
    BY <1>1 DEF Passes, Present, RequestOf
  <2>2. ASSUME NEW j \in DOMAIN t.queued \cap DOMAIN u.queued,
               ChildOf(u, i).req.parent = t.queued[j].req.parent
        PROVE  t.queued[i].ticket < t.queued[j].ticket
    BY <1>1, <2>2 DEF Passes
  <2> QED
    BY <2>1, <2>2 DEF Comes
<1>2. CASE Advances(t, u, {})
  BY <1>1, <1>2 DEF Advances
<1>3. ASSUME NEW k \in Ids, Ends(t, k, u) PROVE Comes(t, u, i)
  BY <1>1, <1>3 DEF Ends, Advances, Homed
<1>4. ASSUME NEW k \in Ids, Begins(t, k, u) PROVE Comes(t, u, i)
  <2>1. CASE k = i
    BY <1>4, <2>1 DEF Comes
  <2>2. CASE k # i
    BY <1>1, <1>4, <2>2 DEF Begins, Advances, Present
  <2> QED
    BY <2>1, <2>2
<1> QED
  BY <1>2, <1>3, <1>4 DEF Eventful

\* A child that is gone from the live maps ended.
LEMMA EventfulEnds ==
    ASSUME NEW t \in State, Homed(t), NEW u \in State, Homed(u), Eventful(t, u),
           NEW i \in Live(t) \ Live(u)
    PROVE  Ends(t, i, u)
<1>1. CASE Advances(t, u, {})
  BY <1>1 DEF Advances, Passes
<1>2. ASSUME NEW k \in Ids, Ends(t, k, u) PROVE Ends(t, i, u)
  BY <1>2 DEF Ends, Advances, Passes
<1>3. ASSUME NEW k \in Ids, Begins(t, k, u) PROVE Ends(t, i, u)
  BY <1>3 DEF Begins, Advances, Passes, Present
<1> QED
  BY <1>1, <1>2, <1>3 DEF Eventful

LEMMA EventfulMeans ==
    ASSUME Sound(co), Aged(co), Sound(co'), Eventful(co, co')
    PROVE  /\ \A i \in Entered, j \in DOMAIN co.queued \cap DOMAIN co'.queued :
                 /\ co'.pending[i].req.parent = co.queued[j].req.parent
                 /\ co'.pending[i].req.run = None
                 => i \in DOMAIN co.queued /\ co.queued[i].ticket < co.queued[j].ticket
           /\ \A i \in Entered : co'.pending[i].req.run = None =>
                 co'.pending[i].req.parent \notin co.blocked
           /\ \A i \in Live(co) \cap DOMAIN co'.completed :
                 LET c == ChildOf(co, i)
                     d == co'.completed[i]
                 IN  d.age >= co.nextAge /\ c.req.surface /\ ~c.killed /\ ~d.cancelled =>
                       \/ d.surfaced
                       \/ co.callers[i] = "waiting" /\ co'.callers[i] = "result"
                       \/ co.waiters[i] = "open"
           /\ \A i \in Live(co) : LET d == ChildOf(co, i).wakeOf
                                  IN  d # None /\ i \notin Live(co)' =>
                                        i \in DOMAIN co'.completed \/ Expired(d, co'.nextAge)
<1>0. /\ co \in State /\ Homed(co) /\ co' \in State /\ Homed(co')
      /\ \A i \in DOMAIN co.queued : co.queued[i].req.parent \notin co.blocked
  BY DEF Sound, Kept, Good, QuietBut
<1>1. ASSUME NEW i \in Entered
      PROVE  /\ Comes(co, co', i) /\ ChildOf(co', i) = co'.pending[i]
             /\ i \in DOMAIN co'.pending
  <2>1. i \in DOMAIN co'.pending /\ i \in Live(co') \ Live(co)
    BY DEF Entered, Live
  <2>2. ChildOf(co', i) = co'.pending[i]
    BY <1>0, <2>1 DEF ChildOf, Homed
  <2> QED
    BY <1>0, <2>1, <2>2, EventfulComes
<1>2. ASSUME NEW i \in Entered, NEW j \in DOMAIN co.queued \cap DOMAIN co'.queued,
             co'.pending[i].req.parent = co.queued[j].req.parent,
             co'.pending[i].req.run = None
      PROVE  i \in DOMAIN co.queued /\ co.queued[i].ticket < co.queued[j].ticket
  BY <1>1, <1>2 DEF Comes, Begins
<1>3. ASSUME NEW i \in Entered, co'.pending[i].req.run = None
      PROVE  co'.pending[i].req.parent \notin co.blocked
  BY <1>0, <1>1, <1>3 DEF Comes, Begins
<1>4. ASSUME NEW i \in Live(co), i \notin Live(co')
      PROVE  Ends(co, i, co')
  BY <1>0, <1>4, EventfulEnds
<1>5. ASSUME NEW i \in Live(co) \cap DOMAIN co'.completed, co'.completed[i].age >= co.nextAge
      PROVE  Told(co, i, co')
  <2>1. i \notin Live(co')
    BY <1>0 DEF Homed
  <2>2. Leaves(co, i, co')
    BY <1>4, <2>1 DEF Ends
  <2>3. ChildOf(co, i).wakeOf # None =>
           ChildOf(co, i).wakeOf.age \in Nat /\ ChildOf(co, i).wakeOf.age < co.nextAge
    <3>1. ChildOf(co, i).wakeOf # None =>
             i \in Recorded(co) /\ AgeOf(co, i) = ChildOf(co, i).wakeOf.age
      BY <1>0 DEF Recorded, AgeOf, Present, Prior, Homed
    <3> QED
      BY <1>0, <3>1, RecordedTyped DEF Aged
  <2>4. co.nextAge \in Nat
    BY <1>0, StateFields
  <2> QED
    BY <1>5, <2>2, <2>3, <2>4 DEF Leaves
<1>6. ASSUME NEW i \in Live(co), ChildOf(co, i).wakeOf # None, i \notin Live(co')
      PROVE  i \in DOMAIN co'.completed \/ Expired(ChildOf(co, i).wakeOf, co'.nextAge)
  BY <1>4, <1>6 DEF Ends, Leaves
<1>7. Live(co)' = Live(co')
  BY DEF Live
<1> QED
  BY <1>2, <1>3, <1>5, <1>6, <1>7 DEF Told
-----------------------------------------------------------------------------
(* Cancels *)

LEMMA EasedAdvances ==
    ASSUME NEW t \in State, NEW u \in State, NEW X, Eased(t, u, X), u.nextAge = t.nextAge,
           u.completed = t.completed
    PROVE  Advances(t, u, {})
BY StillAdvances DEF Eased

LEMMA CancelLiveAdvances ==
    ASSUME NEW t \in State, NEW Q, QuietBut(t, Q), NEW K, NEW kill \in BOOLEAN,
           NEW mute \in BOOLEAN
    PROVE  LET u == CancelLive(t, K, kill, mute)
           IN  u \in State /\ Advances(t, u, {}) /\ u.queued = t.queued
<1> DEFINE u == CancelLive(t, K, kill, mute)
<1>1. u \in State /\ u.queued = t.queued /\ Eased(t, u, {})
  BY CancelLiveType, CancelLiveEased
<1>2. u.nextAge = t.nextAge /\ u.completed = t.completed
  BY DEF CancelLive, State, StateOver
<1> HIDE DEF u
<1>3. Advances(t, u, {})
  BY <1>1, <1>2, EasedAdvances
<1> QED
  BY <1>1, <1>3 DEF u

\* A cancel of live children, then of queued ones.
LEMMA CancelAdvances ==
    ASSUME NEW t \in State, Homed(t), TicketsDiffer(t), QueueOfTasks(t),
           NEW Q, QuietBut(t, Q), NEW K, NEW kill \in BOOLEAN, NEW mute \in BOOLEAN,
           NEW R \in SUBSET DOMAIN t.queued
    PROVE  LET u == CancelLive(t, K, kill, mute)
           IN  Advances(t, RemoveQueued(u, R), {}) /\ RemoveQueued(u, R) \in State
<1> DEFINE u == CancelLive(t, K, kill, mute)
<1>1. u \in State /\ Advances(t, u, {}) /\ u.queued = t.queued /\ Homed(u)
  BY CancelLiveAdvances, CancelLiveHomed
<1> HIDE DEF u
<1>2. TicketsDiffer(u) /\ QueueOfTasks(u)
  BY <1>1 DEF TicketsDiffer, QueueOfTasks
<1>3. Advances(u, RemoveQueued(u, R), {}) /\ RemoveQueued(u, R) \in State
  BY <1>1, <1>2, RemoveQueuedAdvances
<1>4. Advances(t, RemoveQueued(u, R), {})
  BY <1>1, <1>3, ThenAdvances
<1> QED
  BY <1>3, <1>4 DEF u

LEMMA KeptMeans ==
    ASSUME NEW t, Kept(t)
    PROVE  TicketsDiffer(t) /\ QueueOfTasks(t) /\ QuietBut(t, {})
BY DEF Kept, Good, Promised

LEMMA CancelOneAdvances ==
    ASSUME NEW t \in State, Homed(t), Kept(t), NEW i \in Ids
    PROVE  Advances(t, CancelOne(t, i), {})
<1>1. TicketsDiffer(t) /\ QueueOfTasks(t) /\ QuietBut(t, {})
  BY KeptMeans
<1>2. CASE i \in Live(t)
  BY <1>1, <1>2, CancelLiveAdvances DEF CancelOne
<1>3. CASE i \notin Live(t) /\ i \in DOMAIN t.queued
  <2>1. {i} \in SUBSET DOMAIN t.queued
    BY <1>3
  <2> QED
    BY <1>1, <1>3, <2>1, RemoveQueuedAdvances DEF CancelOne
<1>4. CASE i \notin Live(t) /\ i \notin DOMAIN t.queued
  BY <1>4, AsideAdvances DEF CancelOne
<1> QED
  BY <1>2, <1>3, <1>4

LEMMA CancelParentPromptAdvances ==
    ASSUME NEW t \in State, Homed(t), Kept(t), NEW s, NEW p
    PROVE  Advances(t, CancelParentPrompt(t, s, p), {})
<1> DEFINE K == {i \in LiveOf(t, s) : ChildOf(t, i).req.prompt = p}
           R == {i \in QueuedOf(t, s) : t.queued[i].req.prompt = p}
<1>1. TicketsDiffer(t) /\ QueueOfTasks(t) /\ QuietBut(t, {})
  BY KeptMeans
<1>2. R \in SUBSET DOMAIN t.queued
  BY DEF QueuedOf
<1>3. CancelParentPrompt(t, s, p) = RemoveQueued(CancelLive(t, K, FALSE, FALSE), R)
  BY DEF CancelParentPrompt
<1> HIDE DEF K, R
<1> QED
  BY <1>1, <1>2, <1>3, CancelAdvances

LEMMA CancelParentSessionAdvances ==
    ASSUME NEW t \in State, Homed(t), Kept(t), NEW s \in Parents
    PROVE  Advances(t, CancelParentSession(t, s), {})
<1> DEFINE t0 == [t EXCEPT !.blocked = t.blocked \cup {s}]
           K == {i \in LiveOf(t, s) : ChildOf(t, i).req.run = None}
           u == CancelLive(t0, K, FALSE, FALSE)
           R == {i \in QueuedOf(u, s) : u.queued[i].req.run = None}
           v == RemoveQueued(u, R)
           w == [v EXCEPT !.wakes = v.wakes \ CompletedOf(v, s)]
<1>1. CancelParentSession(t, s) = w
  BY DEF CancelParentSession
<1>2. /\ t0.queued = t.queued /\ t0.pending = t.pending /\ t0.active = t.active
      /\ t0.graph = t.graph /\ t0.completed = t.completed /\ t0.nextAge = t.nextAge
      /\ t0.drains = t.drains /\ t0.buffer = t.buffer
      /\ t0.blocked = t.blocked \cup {s} /\ t0 \in State
  BY DEF State, StateOver
<1> HIDE DEF t0, K
<1>3. Advances(t, t0, {}) /\ Homed(t0)
  BY <1>2, AsideAdvances, SameHomesHomed DEF SameHomes
<1>4. TicketsDiffer(t0) /\ QueueOfTasks(t0)
  BY <1>2, KeptMeans DEF TicketsDiffer, QueueOfTasks
<1>5. QuietBut(t0, DOMAIN t0.queued)
  <2>1. QuietBut(t, {})
    BY KeptMeans
  <2>2. Present(t0) = Present(t) /\ \A i \in Present(t) : RequestOf(t0, i) = RequestOf(t, i)
    BY <1>2 DEF Present, RequestOf, Live, ChildOf
  <2> QED
    BY <1>2, <2>1, <2>2 DEF QuietBut, Muted
<1>6. R \in SUBSET DOMAIN t0.queued
  BY <1>2, <1>5, CancelLiveType DEF QueuedOf
<1> HIDE DEF R
<1>7. Advances(t0, v, {}) /\ v \in State
  BY <1>2, <1>3, <1>4, <1>5, <1>6, CancelAdvances
<1>8. Homed(v)
  BY <1>2, <1>3, <1>6, CancelLiveType, CancelLiveHomed, RemoveQueuedHomed
<1> HIDE DEF v
<1>9. /\ w.queued = v.queued /\ w.pending = v.pending /\ w.active = v.active
      /\ w.graph = v.graph /\ w.completed = v.completed /\ w.nextAge = v.nextAge
      /\ w \in State
  BY <1>7 DEF State, StateOver
<1> HIDE DEF w
<1>10. Advances(v, w, {})
  BY <1>7, <1>9, AsideAdvances
<1>11. Advances(t, v, {})
  BY <1>2, <1>3, <1>7, ThenAdvances
<1> QED
  BY <1>1, <1>7, <1>8, <1>9, <1>10, <1>11, ThenAdvances

\* The maps are rewritten entry by entry: owners, places, displaced records and
\* ages stay.
LEMMA RewriteAdvances ==
    ASSUME NEW t \in State, NEW u \in State, SameHomes(t, u), u.nextAge = t.nextAge,
           u.completed = t.completed,
           \A i \in DOMAIN t.pending : /\ u.pending[i].req.parent = t.pending[i].req.parent
                                       /\ u.pending[i].wakeOf \in {None, t.pending[i].wakeOf},
           \A i \in DOMAIN t.active : /\ u.active[i].req.parent = t.active[i].req.parent
                                      /\ u.active[i].wakeOf \in {None, t.active[i].wakeOf},
           \A i \in DOMAIN t.queued : /\ u.queued[i].req.parent = t.queued[i].req.parent
                                      /\ u.queued[i].wake = t.queued[i].wake
                                      /\ u.queued[i].ticket = t.queued[i].ticket
    PROVE  Advances(t, u, {})
<1>1. Live(u) = Live(t) /\ Present(u) = Present(t)
  BY DEF SameHomes, Live, Present
<1>2. \A i \in Live(t) : /\ ChildOf(u, i).req.parent = ChildOf(t, i).req.parent
                         /\ ChildOf(u, i).wakeOf \in {None, ChildOf(t, i).wakeOf}
  BY DEF SameHomes, Live, ChildOf
<1>3. \A i \in Present(t) : Prior(u, i) \in {None, Prior(t, i)}
  BY <1>1, <1>2 DEF Prior, Present
<1>4. Passes(t, u, {})
  <2>1. \A i \in Live(u) : i \in Present(t) /\ RequestOf(t, i) = ChildOf(t, i).req
    BY <1>1 DEF Present, RequestOf
  <2> QED
    BY <1>1, <1>2, <2>1 DEF Passes, SameHomes
<1>5. \A i \in Recorded(u) : i \in Recorded(t) /\ AgeOf(u, i) = AgeOf(t, i)
  BY <1>1, <1>3 DEF Recorded, AgeOf
<1>6. t.nextAge \in Nat
  BY StateFields
<1> QED
  BY <1>4, <1>5, <1>6, CarriedAged DEF Advances

LEMMA CancelRunAdvances ==
    ASSUME NEW t \in State, NEW run \in Runs, NEW s
    PROVE  Advances(t, CancelRun(t, run, s), {})
<1> DEFINE K == {i \in RunOutstanding(t, run) : s \in {None, ChildOf(t, i).req.parent}}
           hit(c) == [c EXCEPT !.cancelled = TRUE]
           p == [i \in DOMAIN t.pending |-> IF i \in K THEN hit(t.pending[i]) ELSE t.pending[i]]
           a == [i \in DOMAIN t.active |-> IF i \in K THEN hit(t.active[i]) ELSE t.active[i]]
           m == {x \in t.parked : x[1] \notin K \cap DOMAIN t.pending}
           u == [t EXCEPT !.pending = p, !.active = a, !.parked = m]
           v == [u EXCEPT !.runWaiters = u.runWaiters \cup {run}]
           w == CancelRun(t, run, s)
<1>1. w = IF RunOutstanding(t, run) = {} THEN u ELSE v
  BY DEF CancelRun
<1>2. \A c \in Child : hit(c).req = c.req /\ hit(c).wakeOf = c.wakeOf
  BY DEF Child
<1> HIDE DEF hit, K
<1>3. /\ \A i \in DOMAIN t.pending : t.pending[i] \in Child
      /\ \A i \in DOMAIN t.active : t.active[i] \in Child
  BY StateFields, MapElement
<1>4. /\ DOMAIN p = DOMAIN t.pending /\ DOMAIN a = DOMAIN t.active
      /\ \A i \in DOMAIN t.pending : p[i].req = t.pending[i].req /\ p[i].wakeOf = t.pending[i].wakeOf
      /\ \A i \in DOMAIN t.active : a[i].req = t.active[i].req /\ a[i].wakeOf = t.active[i].wakeOf
  BY <1>2, <1>3
<1> HIDE DEF p, a, m
<1>5. /\ w.pending = p /\ w.active = a /\ w.queued = t.queued /\ w.completed = t.completed
      /\ w.graph = t.graph /\ w.nextAge = t.nextAge
  BY <1>1 DEF State, StateOver
<1>6. w \in State
  BY CancelRunType
<1> HIDE DEF w
<1>7. SameHomes(t, w)
  BY <1>4, <1>5 DEF SameHomes
<1>8. Advances(t, w, {})
  BY <1>4, <1>5, <1>6, <1>7, RewriteAdvances
<1> QED
  BY <1>8 DEF w
LEMMA SilencedAdvances ==
    ASSUME NEW t \in State, Homed(t), Kept(t), NEW s
    PROVE  Advances(t, Silenced(t, s), {})
<1> DEFINE t0 == [t EXCEPT !.buffer = {b \in t.buffer : b[1] # s},
                           !.wakes = t.wakes \ CompletedOf(t, s)]
           u == CancelLive(t0, LiveOf(t, s), FALSE, TRUE)
           q == [i \in DOMAIN u.queued |->
                   IF i \in QueuedOf(t, s) THEN [u.queued[i] EXCEPT !.req.surface = FALSE]
                   ELSE u.queued[i]]
           v == [u EXCEPT !.queued = q]
<1>1. Silenced(t, s) = v
  BY DEF Silenced
<1>2. /\ t0.queued = t.queued /\ t0.pending = t.pending /\ t0.active = t.active
      /\ t0.graph = t.graph /\ t0.completed = t.completed /\ t0.nextAge = t.nextAge
      /\ t0.drains = t.drains /\ t0.blocked = t.blocked /\ t0.buffer \subseteq t.buffer
      /\ t0 \in State
  BY DEF State, StateOver
<1> HIDE DEF t0
<1>3. Advances(t, t0, {}) /\ Homed(t0)
  BY <1>2, AsideAdvances, SameHomesHomed DEF SameHomes
<1>4. QuietBut(t0, {})
  <2>1. QuietBut(t, {})
    BY KeptMeans
  <2>2. Present(t0) = Present(t) /\ \A i \in Present(t) : RequestOf(t0, i) = RequestOf(t, i)
    BY <1>2 DEF Present, RequestOf, Live, ChildOf
  <2> QED
    BY <1>2, <2>1, <2>2 DEF QuietBut, Muted
<1>5. u \in State /\ Advances(t0, u, {}) /\ Homed(u)
  BY <1>2, <1>3, <1>4, CancelLiveAdvances, CancelLiveHomed
<1>6. v \in State
  BY <1>1, SilencedType
<1> HIDE DEF u
<1>7. ASSUME NEW i \in DOMAIN u.queued
      PROVE  /\ q[i].req.parent = u.queued[i].req.parent /\ q[i].wake = u.queued[i].wake
             /\ q[i].ticket = u.queued[i].ticket
  <2>1. u.queued[i] \in QueuedSpawn
    BY <1>5, StateFields, MapElement
  <2>2. u.queued[i].req \in Request
    BY <2>1 DEF QueuedSpawn
  <2> QED
    BY <2>1, <2>2 DEF QueuedSpawn, Request
<1>8. DOMAIN q = DOMAIN u.queued
  OBVIOUS
<1> HIDE DEF q
<1>9. /\ v.queued = q /\ v.pending = u.pending /\ v.active = u.active
      /\ v.graph = u.graph /\ v.completed = u.completed /\ v.nextAge = u.nextAge
  BY <1>5 DEF State, StateOver
<1> HIDE DEF v
<1>10. Advances(u, v, {})
  <2>1. SameHomes(u, v)
    BY <1>8, <1>9 DEF SameHomes
  <2> QED
    BY <1>5, <1>6, <1>7, <1>9, <2>1, RewriteAdvances
<1>11. Advances(t, u, {})
  BY <1>2, <1>3, <1>5, ThenAdvances
<1> QED
  BY <1>1, <1>5, <1>6, <1>10, <1>11, ThenAdvances

LEMMA TeardownAdvances ==
    ASSUME NEW t \in State, Homed(t), Kept(t), NEW s \in Sessions, NEW responder \in BOOLEAN
    PROVE  Advances(t, Teardown(t, s, responder), {})
<1> DEFINE u == Silenced(t, s)
           R == QueuedOf(t, s)
           w == RemoveQueued(u, R)
           x == [w EXCEPT !.drains = w.drains \cup {s}, !.blocked = w.blocked \cup {s}]
<1>1. Teardown(t, s, responder) = w \/ Teardown(t, s, responder) = x
  BY DEF Teardown
<1>2. Advances(t, u, {}) /\ u \in State /\ Kept(u) /\ Homed(u) /\ DOMAIN u.queued = DOMAIN t.queued
  BY SilencedAdvances, SilencedKept
<1>3. R \in SUBSET DOMAIN u.queued
  BY <1>2 DEF QueuedOf
<1> HIDE DEF u, R
<1>4. Advances(u, w, {}) /\ w \in State /\ Homed(w)
  BY <1>2, <1>3, KeptMeans, RemoveQueuedAdvances
<1> HIDE DEF w
<1>5. Advances(t, w, {})
  BY <1>2, <1>4, ThenAdvances
<1>6. s \in Parents
  BY DEF Parents
<1>7. /\ x.queued = w.queued /\ x.pending = w.pending /\ x.active = w.active
      /\ x.graph = w.graph /\ x.completed = w.completed /\ x.nextAge = w.nextAge
      /\ x \in State
  BY <1>4, <1>6 DEF State, StateOver
<1> HIDE DEF x
<1>8. Advances(w, x, {})
  BY <1>4, <1>7, AsideAdvances
<1>9. Advances(t, x, {})
  BY <1>4, <1>5, <1>7, <1>8, ThenAdvances
<1> QED
  BY <1>1, <1>5, <1>9

LEMMA HandOffAdvances ==
    ASSUME NEW t \in State, NEW Q, QuietBut(t, Q), NEW H,
           NEW view \in CallerView \ {"waiting", "result"}
    PROVE  Advances(t, HandOff(t, H, view), {})
<1> DEFINE u == HandOff(t, H, view)
<1>1. u \in State /\ Eased(t, u, {})
  BY HandOffType, HandOffEased
<1>2. u.nextAge = t.nextAge /\ u.completed = t.completed
  BY DEF HandOff, State, StateOver
<1> HIDE DEF u
<1>3. Advances(t, u, {})
  BY <1>1, <1>2, EasedAdvances
<1> QED
  BY <1>3 DEF u
-----------------------------------------------------------------------------
(* Messages and the runner's reports *)

LEMMA AdmitMessageAdvances ==
    ASSUME NEW t \in State, Homed(t), NEW i \in DOMAIN t.active
    PROVE  Advances(t, AdmitMessage(t, i), {})
<1> DEFINE c == [t.active[i] EXCEPT !.inFlight = t.active[i].inFlight + 1]
<1>1. t.active[i] \in Child
  BY StateFields, MapElement
<1>2. c \in Child /\ SofterChild(t.active[i], c, t.callers[i] = "waiting")
  BY <1>1 DEF Child, SofterChild
<1>3. AdmitMessage(t, i) = t \/ AdmitMessage(t, i) = [t EXCEPT !.active[i] = c]
  <2>1. [t EXCEPT !.active[i].inFlight = t.active[i].inFlight + 1] = [t EXCEPT !.active[i] = c]
    BY DEF State, StateOver
  <2> QED
    BY <2>1 DEF AdmitMessage
<1> HIDE DEF c
<1>4. Advances(t, [t EXCEPT !.active[i] = c], {})
  BY <1>2, ActiveStill
<1>5. Advances(t, t, {})
  BY AsideAdvances
<1> QED
  BY <1>3, <1>4, <1>5

LEMMA AdmitParkedAdvances ==
    ASSUME NEW t \in State, Homed(t), NEW i \in DOMAIN t.active
    PROVE  Advances(t, AdmitParked(t, i), {})
<1> DEFINE u == [t EXCEPT !.parked = {m \in t.parked : m[1] # i}]
<1>1. /\ u.queued = t.queued /\ u.pending = t.pending /\ u.active = t.active
      /\ u.graph = t.graph /\ u.completed = t.completed /\ u.nextAge = t.nextAge
      /\ u \in State
  BY DEF State, StateOver
<1>2. AdmitParked(t, i) \in {AdmitMessage(u, i), u}
  BY DEF AdmitParked
<1> HIDE DEF u
<1>3. Advances(t, u, {}) /\ Homed(u)
  BY <1>1, AsideAdvances, SameHomesHomed DEF SameHomes
<1>4. Advances(u, AdmitMessage(u, i), {}) /\ AdmitMessage(u, i) \in State
  BY <1>1, <1>3, AdmitMessageAdvances, AdmitMessageType
<1>5. Advances(t, AdmitMessage(u, i), {})
  BY <1>1, <1>3, <1>4, ThenAdvances
<1> QED
  BY <1>2, <1>3, <1>5

\* Child i was pending and is active; it may have let its displaced record go.
LEMMA ActivatedAdvances ==
    ASSUME NEW t \in State, Homed(t), NEW i \in DOMAIN t.pending, NEW d \in Child,
           d.req = t.pending[i].req, d.wakeOf \in {None, t.pending[i].wakeOf}
    PROVE  LET u == [t EXCEPT !.pending = Drop(t.pending, {i}), !.active = Put(t.active, i, d)]
           IN  Advances(t, u, {})
<1> DEFINE p == Drop(t.pending, {i})
           a == Put(t.active, i, d)
           u == [t EXCEPT !.pending = p, !.active = a]
<1>1. /\ DOMAIN p = DOMAIN t.pending \ {i} /\ DOMAIN a = DOMAIN t.active \cup {i}
      /\ a[i] = d /\ \A j \in DOMAIN t.active \ {i} : a[j] = t.active[j]
      /\ \A j \in DOMAIN p : p[j] = t.pending[j]
  BY DEF Drop, Restrict, Put
<1> HIDE DEF p, a
<1>2. /\ u.queued = t.queued /\ u.pending = p /\ u.active = a /\ u.completed = t.completed
      /\ u.nextAge = t.nextAge
  BY DEF State, StateOver
<1>3. i \notin DOMAIN t.active /\ i \in Live(t) /\ i \notin DOMAIN t.queued
  BY DEF Homed, Live
<1> HIDE DEF u
<1>4. Live(u) = Live(t) /\ Present(u) = Present(t)
  BY <1>1, <1>2, <1>3 DEF Live, Present
<1>5. \A j \in Live(t) : /\ ChildOf(u, j).req = ChildOf(t, j).req
                         /\ ChildOf(u, j).wakeOf \in {None, ChildOf(t, j).wakeOf}
  BY <1>1, <1>2, <1>3 DEF ChildOf, Live
<1>6. \A j \in Present(t) : Prior(u, j) \in {None, Prior(t, j)}
  BY <1>2, <1>4, <1>5 DEF Prior
<1>7. Passes(t, u, {})
  <2>1. \A j \in Live(u) : j \in Present(t) /\ RequestOf(t, j) = ChildOf(t, j).req
    BY <1>4 DEF Present, RequestOf
  <2> QED
    BY <1>2, <1>4, <1>5, <2>1 DEF Passes
<1>8. \A j \in Recorded(u) : j \in Recorded(t) /\ AgeOf(u, j) = AgeOf(t, j)
  BY <1>2, <1>4, <1>6 DEF Recorded, AgeOf
<1>9. t.nextAge \in Nat
  BY StateFields
<1>10. Advances(t, u, {})
  BY <1>2, <1>7, <1>8, <1>9, CarriedAged DEF Advances
<1> QED
  BY <1>10 DEF u, p, a

-----------------------------------------------------------------------------
(* Joining *)

LEMMA JoinedAdvances ==
    ASSUME NEW t \in State, Homed(t), NEW i \in Ids, NEW w \in State, Homed(w), Joined(t, i, w),
           JoinsPending(t, i, w) \/ JoinsQueue(t, i, w), w.nextAge = t.nextAge,
           Prior(w, i) # None => i \in DOMAIN t.completed /\ Prior(w, i) = t.completed[i]
    PROVE  Advances(t, w, {i})
<1>1. JoinedViews(t, i, w)
  BY JoinedIs
<1>2. Passes(t, w, {i})
  <2>1. \A j \in DOMAIN w.queued \ {i} :
           /\ j \in DOMAIN t.queued /\ w.queued[j].ticket = t.queued[j].ticket
           /\ w.queued[j].req.parent = t.queued[j].req.parent
    BY DEF JoinsPending, JoinsQueue
  <2>2. \A j \in Live(w) \ {i} :
           j \in Present(t) /\ ChildOf(w, j).req.parent = RequestOf(t, j).parent
    BY <1>1 DEF JoinedViews, Present, RequestOf
  <2>3. Live(w) \ (Live(t) \cup {i}) = {} /\ Live(t) \ {i} \subseteq Live(w)
    BY <1>1 DEF JoinedViews
  <2> QED
    BY <2>1, <2>2, <2>3 DEF Passes
<1>3. Aged(t) => Aged(w)
  <2> SUFFICES ASSUME NEW j \in Recorded(w)
               PROVE  j \in Recorded(t) /\ AgeOf(w, j) = AgeOf(t, j)
    BY CarriedAged
  <2>1. CASE j \in DOMAIN w.completed
    BY <2>1 DEF Joined, Recorded, AgeOf
  <2>2. CASE j \notin DOMAIN w.completed /\ j # i
    <3>1. j \in Present(t) /\ Prior(w, j) = Prior(t, j) /\ Prior(w, j) # None
      BY <1>1, <2>2 DEF JoinedViews, Recorded
    <3>2. j \notin DOMAIN t.completed
      BY <3>1 DEF Homed, Present
    <3> QED
      BY <2>2, <3>1, <3>2 DEF Recorded, AgeOf
  <2>3. CASE j \notin DOMAIN w.completed /\ j = i
    <3>1. Prior(w, i) # None
      BY <2>3 DEF Recorded
    <3> QED
      BY <2>3, <3>1 DEF Recorded, AgeOf
  <2> QED
    BY <2>1, <2>2, <2>3
<1>4. t.nextAge <= w.nextAge
  <2>1. t.nextAge \in Nat
    BY StateFields
  <2> QED
    BY <2>1
<1> QED
  BY <1>2, <1>3, <1>4 DEF Advances

LEMMA StartsAdvances ==
    ASSUME NEW t \in State, Homed(t), Kept(t), NEW i \in Ids, NEW u \in State, Ready(t, i, u),
           u.nextAge = t.nextAge, NEW r, NEW d,
           d # None => i \in DOMAIN t.completed /\ d = t.completed[i],
           NEW owes, FairFor(t, i, u, r, d, owes), NEW w, Starts(i, u, r, d, owes, w)
    PROVE  Advances(t, w, {i}) /\ w.queued = t.queued /\ w.pending[i].req = r
<1>0. w \in State /\ Homed(w)
  BY StartsGood
<1> PICK c \in Child : /\ w = [u EXCEPT !.pending = Put(u.pending, i, c)]
                       /\ c.req = r /\ c.wakeOf = d /\ c.reply = owes
                       /\ c.handleOnly /\ c.reply => r.bg
  BY DEF Starts
<1>1. /\ DOMAIN Put(u.pending, i, c) = DOMAIN u.pending \cup {i}
      /\ Put(u.pending, i, c)[i] = c
      /\ \A j \in DOMAIN u.pending \ {i} : Put(u.pending, i, c)[j] = u.pending[j]
  BY DEF Put
<1>2. /\ w.pending = Put(u.pending, i, c)
      /\ w.queued = u.queued /\ w.active = u.active /\ w.waiters = u.waiters
      /\ w.outputs = u.outputs /\ w.drains = u.drains /\ w.blocked = u.blocked
      /\ w.buffer = u.buffer /\ w.runWaiters = u.runWaiters /\ w.callers = u.callers
      /\ w.parked = u.parked /\ w.completed = u.completed /\ w.graph = u.graph
      /\ w.nextAge = u.nextAge
  BY DEF State, StateOver
<1>3. Joined(t, i, w)
  BY <1>2, JoinedPut
<1>4. i \notin DOMAIN u.pending /\ i \notin DOMAIN u.active
  BY DEF Ready, Between, Known, Live
<1>5. JoinsPending(t, i, w) /\ w.pending[i] = c
  BY <1>1, <1>2, <1>4 DEF Ready, JoinsPending
<1>6. Prior(w, i) = d
  BY <1>1, <1>2, <1>4 DEF Prior, Live, ChildOf
<1>7. w.queued = t.queued /\ w.nextAge = t.nextAge
  BY <1>2 DEF Ready
<1> QED
  BY <1>0, <1>3, <1>5, <1>6, <1>7, JoinedAdvances

LEMMA QueuesAdvances ==
    ASSUME NEW t \in State, Homed(t), Kept(t), NEW i \in Ids, NEW u \in State, Ready(t, i, u),
           u.nextAge = t.nextAge, NEW r, NEW d, r.run = None, r.parent \notin t.blocked,
           ~HasCapacity(t, r.parent),
           d # None => i \in DOMAIN t.completed /\ d = t.completed[i],
           NEW owes, FairFor(t, i, u, r, d, owes), NEW w, Queues(t, i, u, r, d, owes, w)
    PROVE  Advances(t, w, {i}) /\ i \notin DOMAIN w.pending /\ i \in DOMAIN w.queued
<1> PICK q \in QueuedSpawn : /\ w = [u EXCEPT !.queued = Put(u.queued, i, q)]
                             /\ q.req = r /\ q.wake = d /\ q.awaiting = owes
                             /\ ~q.cancelled /\ q.ticket = NextTicket(t)
  BY DEF Queues
<1>1. Put(u.queued, i, q) \in MapOf(QueuedSpawn)
  BY StateFields, PutType
<1>2. /\ DOMAIN Put(u.queued, i, q) = DOMAIN u.queued \cup {i}
      /\ Put(u.queued, i, q)[i] = q
      /\ \A j \in DOMAIN u.queued \ {i} : Put(u.queued, i, q)[j] = u.queued[j]
  BY DEF Put
<1>3. w \in State /\ w.queued = Put(u.queued, i, q)
  BY <1>1 DEF State, StateOver
<1>4. /\ w.pending = u.pending /\ w.active = u.active /\ w.waiters = u.waiters
      /\ w.outputs = u.outputs /\ w.drains = u.drains /\ w.blocked = u.blocked
      /\ w.buffer = u.buffer /\ w.runWaiters = u.runWaiters /\ w.callers = u.callers
      /\ w.parked = u.parked /\ w.completed = u.completed /\ w.graph = u.graph
      /\ w.nextAge = u.nextAge
  BY DEF State, StateOver
<1>5. Homed(w)
  BY EnqueueHomed DEF Ready
<1>6. Joined(t, i, w)
  BY <1>4, JoinedPut
<1>7. i \notin DOMAIN u.queued /\ i \notin Live(u)
  BY DEF Ready, Between, Known
<1>8. \A j \in DOMAIN t.queued : t.queued[j].ticket \in Nat
  <2>1. \A j \in DOMAIN t.queued : t.queued[j] \in QueuedSpawn
    BY StateFields, MapElement
  <2> QED
    BY <2>1 DEF QueuedSpawn
<1>9. \A j \in DOMAIN t.queued : q.ticket # t.queued[j].ticket
  BY <1>8, NextTicketFacts
<1>10. JoinsQueue(t, i, w)
  BY <1>2, <1>3, <1>4, <1>7, <1>9 DEF Ready, JoinsQueue
<1>11. i \notin Live(w)
  BY <1>4, <1>7 DEF Live
<1>12. Prior(w, i) = d
  BY <1>2, <1>3, <1>11 DEF Prior
<1>13. i \notin DOMAIN w.pending /\ i \in DOMAIN w.queued /\ w.nextAge = t.nextAge
  BY <1>2, <1>3, <1>4, <1>11 DEF Live
<1> QED
  BY <1>3, <1>5, <1>6, <1>10, <1>12, <1>13, JoinedAdvances

\* A child that starts at once finds a free slot, so its session has no queue.
LEMMA AdmittedBegins ==
    ASSUME NEW t \in State, Homed(t), Kept(t), NEW i \in Ids, NEW u \in State, Ready(t, i, u),
           u.nextAge = t.nextAge, NEW r, NEW d, r.run = None => r.parent \notin t.blocked,
           d # None => i \in DOMAIN t.completed /\ d = t.completed[i],
           NEW owes, FairFor(t, i, u, r, d, owes), NEW w, Admitted(t, i, u, r, d, owes, w)
    PROVE  Begins(t, i, w) /\ i \in Present(w)
<1>0. i \notin Present(t)
  BY DEF Ready, Joined
<1>1. CASE Starts(i, u, r, d, owes, w) /\ (r.run = None => HasCapacity(t, r.parent))
  <2>1. Advances(t, w, {i}) /\ w.queued = t.queued /\ w.pending[i].req = r
    BY <1>1, StartsAdvances
  <2>2. r.run = None => \A j \in DOMAIN t.queued : t.queued[j].req.parent # r.parent
    BY <1>1 DEF Kept, QueueFull
  <2>3. i \in Live(w)
    BY <1>1, StartsGood
  <2> QED
    BY <1>0, <2>1, <2>2, <2>3 DEF Begins, Present
<1>2. CASE Queues(t, i, u, r, d, owes, w) /\ r.run = None /\ ~HasCapacity(t, r.parent)
  BY <1>0, <1>2, QueuesAdvances DEF Begins, Present
<1> QED
  BY <1>1, <1>2 DEF Admitted

\* A message moves no child.
Minor(t, u) ==
    /\ Advances(t, u, {}) /\ u.queued = t.queued /\ u.pending = t.pending
    /\ DOMAIN u.active = DOMAIN t.active /\ u.blocked = t.blocked

Begun(t, i, u) == Begins(t, i, u) /\ i \in Present(u)

LEMMA MinorTrivially ==
    ASSUME NEW t \in State, NEW u \in State, u.queued = t.queued, u.pending = t.pending,
           u.active = t.active, u.completed = t.completed, u.graph = t.graph,
           u.nextAge = t.nextAge, u.blocked = t.blocked
    PROVE  Minor(t, u)
BY AsideAdvances DEF Minor

LEMMA SendMessageMinor ==
    ASSUME NEW t \in State, Homed(t), NEW i \in Present(t)
    PROVE  Minor(t, SendMessage(t, i))
<1>1. CASE i \in DOMAIN t.active
  <2>1. SendMessage(t, i) = AdmitMessage(t, i)
    BY <1>1 DEF SendMessage
  <2>2. /\ AdmitMessage(t, i).queued = t.queued /\ AdmitMessage(t, i).pending = t.pending
        /\ DOMAIN AdmitMessage(t, i).active = DOMAIN t.active
        /\ AdmitMessage(t, i).blocked = t.blocked
    BY DEF AdmitMessage, State, StateOver
  <2> QED
    BY <1>1, <2>1, <2>2, AdmitMessageAdvances DEF Minor
<1>2. CASE i \notin DOMAIN t.active
  <2> DEFINE u == [t EXCEPT !.parked = t.parked \cup {<<i, TRUE>>}]
  <2>1. i \in DOMAIN t.pending \cup DOMAIN t.queued
    BY <1>2 DEF Present, Live
  <2>2. SendMessage(t, i) = t \/ SendMessage(t, i) = u
    BY <1>2, <2>1 DEF SendMessage
  <2>3. i \in Ids
    BY <2>1, DomainFacts
  <2>4. /\ u.queued = t.queued /\ u.pending = t.pending
        /\ u.active = t.active /\ u.completed = t.completed /\ u.graph = t.graph
        /\ u.nextAge = t.nextAge /\ u.blocked = t.blocked
    BY DEF State, StateOver
  <2>5. SendMessage(t, i) \in State
    BY <2>3, SendMessageType
  <2> HIDE DEF u
  <2> QED
    BY <2>2, <2>4, <2>5, MinorTrivially
<1> QED
  BY <1>1, <1>2

LEMMA SendMessageBegins ==
    ASSUME NEW t \in State, Homed(t), Kept(t), NEW i \in Ids, i \notin Present(t)
    PROVE  Minor(t, SendMessage(t, i)) \/ Begun(t, i, SendMessage(t, i))
<1>0. i \notin DOMAIN t.active /\ i \notin DOMAIN t.pending \cup DOMAIN t.queued
  BY DEF Present, Live
<1>1. CASE i \in DOMAIN t.completed /\ t.completed[i].req.run = None
  <2>1. SendMessage(t, i) = Wake(t, i)
    BY <1>0, <1>1 DEF SendMessage
  <2>2. ASSUME NEW W \in SUBSET Ids, Wake(t, i) = [t EXCEPT !.wakes = W]
        PROVE  Minor(t, Wake(t, i))
    <3> DEFINE u == [t EXCEPT !.wakes = W]
    <3>1. /\ u \in State /\ u.queued = t.queued /\ u.pending = t.pending
          /\ u.active = t.active /\ u.completed = t.completed /\ u.graph = t.graph
          /\ u.nextAge = t.nextAge /\ u.blocked = t.blocked
      BY DEF State, StateOver
    <3>2. Wake(t, i) = u
      BY <2>2
    <3> HIDE DEF u
    <3> QED
      BY <3>1, <3>2, MinorTrivially
  <2>3. ASSUME NEW u \in State, NEW r \in Request, Ready(t, i, u), u.nextAge = t.nextAge,
               FairFor(t, i, u, r, t.completed[i], FALSE), r.run = None, r.parent \notin t.blocked,
               Admitted(t, i, u, r, t.completed[i], FALSE, Wake(t, i))
        PROVE  Begun(t, i, Wake(t, i))
    BY <1>1, <2>3, AdmittedBegins DEF Begun
  <2> QED
    BY <1>1, <2>1, <2>2, <2>3, WakeReady
<1>2. CASE ~(i \in DOMAIN t.completed /\ t.completed[i].req.run = None)
  <2>1. SendMessage(t, i) = t
    BY <1>0, <1>2 DEF SendMessage
  <2> QED
    BY <2>1, MinorTrivially
<1> QED
  BY <1>1, <1>2

\* Two messages parked on one record: the first wakes the child, the second is
\* parked on it.
LEMMA MinorThen ==
    ASSUME NEW t \in State, Homed(t), NEW s \in State, Homed(s), NEW v \in State, NEW i \in Ids,
           Minor(t, s)
    PROVE  (Minor(s, v) => Minor(t, v)) /\ (Begins(s, i, v) => Begins(t, i, v))
<1>1. ASSUME Minor(s, v) PROVE Minor(t, v)
  <2>1. Advances(t, v, {})
    BY <1>1, FirstAdvances DEF Minor
  <2> QED
    BY <1>1, <2>1 DEF Minor
<1>2. ASSUME Begins(s, i, v) PROVE Begins(t, i, v)
  <2>1. Advances(t, v, {i})
    BY <1>2, FirstAdvances DEF Minor, Begins
  <2>2. Present(s) = Present(t) /\ s.blocked = t.blocked /\ s.queued = t.queued
    BY DEF Minor, Present, Live
  <2> QED
    BY <1>2, <2>1, <2>2 DEF Begins
<1> QED
  BY <1>1, <1>2

LEMMA SendMessageEventful ==
    ASSUME NEW t \in State, Homed(t), Kept(t), NEW i \in Ids
    PROVE  Minor(t, SendMessage(t, i)) \/ Begun(t, i, SendMessage(t, i))
BY SendMessageMinor, SendMessageBegins

LEMMA SendTwiceEventful ==
    ASSUME NEW t \in State, Homed(t), Kept(t), NEW i \in Ids
    PROVE  LET v == SendMessage(SendMessage(t, i), i)
           IN  Minor(t, v) \/ Begins(t, i, v)
<1> DEFINE s == SendMessage(t, i)
           v == SendMessage(s, i)
<1>1. s \in State /\ Homed(s) /\ Kept(s)
  BY SendMessageType, SendMessageHomed, SendMessageKept
<1>2. Minor(t, s) \/ Begun(t, i, s)
  BY SendMessageEventful
<1> HIDE DEF s
<1>3. v \in State /\ Homed(v)
  BY <1>1, SendMessageType, SendMessageHomed
<1>4. Minor(s, v) \/ Begins(s, i, v)
  BY <1>1, SendMessageEventful DEF Begun
<1>5. CASE Minor(t, s)
  <2> HIDE DEF v
  <2>1. Minor(t, v) \/ Begins(t, i, v)
    BY <1>1, <1>3, <1>4, <1>5, MinorThen
  <2> QED
    BY <2>1 DEF v, s
<1>6. CASE Begun(t, i, s)
  <2>1. Minor(s, v)
    BY <1>1, <1>6, SendMessageMinor DEF Begun
  <2> HIDE DEF v
  <2>2. Advances(t, v, {i})
    BY <1>1, <1>3, <1>6, <2>1, ThenAdvances DEF Begins, Begun, Minor
  <2>3. Begins(t, i, v)
    BY <1>6, <2>1, <2>2 DEF Begins, Begun, Minor
  <2> QED
    BY <2>3 DEF v, s
<1> QED
  BY <1>2, <1>5, <1>6

\* A spawn that finds no slot and may not wait starts and ends at once.
LEMMA HandleSpawnBegins ==
    ASSUME NEW t \in State, Homed(t), Kept(t), NEW i \in Ids, NEW r0 \in Request
    PROVE  LET v == HandleSpawn(t, i, r0)
           IN  Advances(t, v, {}) \/ (Begins(t, i, v) /\ i \notin Known(t))
<1>1. CASE HandleSpawn(t, i, r0) = t
  BY <1>1, AsideAdvances
<1>2. CASE HandleSpawn(t, i, r0) = RejectSpawn(t, i)
  <2> DEFINE u == RejectSpawn(t, i)
  <2>1. u \in State
    BY <1>2, HandleSpawnType
  <2>2. /\ u.queued = t.queued /\ u.pending = t.pending
        /\ u.active = t.active /\ u.completed = t.completed /\ u.graph = t.graph
        /\ u.nextAge = t.nextAge
    BY DEF State, StateOver, RejectSpawn
  <2>3. Advances(t, u, {})
    <3> HIDE DEF u
    <3> QED
      BY <2>1, <2>2, AsideAdvances
  <2> QED
    BY <1>2, <2>3
<1>3. ASSUME NEW w \in State, NEW r \in Request, i \notin Known(t), Ready(t, i, w),
             w.nextAge = t.nextAge, FairFor(t, i, w, r, None, TRUE),
             r.run = None => r.parent \notin t.blocked,
             HandleSpawn(t, i, r0) = AdmitSpawn(w, i, r)
      PROVE  Begins(t, i, HandleSpawn(t, i, r0)) /\ i \notin Known(t)
  <2>1. CASE Admitted(t, i, w, r, None, TRUE, AdmitSpawn(w, i, r))
    BY <1>3, <2>1, AdmittedBegins
  <2>2. ASSUME NEW x, NEW out \in Output, Starts(i, w, r, None, TRUE, x),
               AdmitSpawn(w, i, r) = FinishChild(x, i, out)
        PROVE  Begins(t, i, AdmitSpawn(w, i, r))
    <3> DEFINE v == FinishChild(x, i, out)
    <3>1. x \in State /\ Homed(x) /\ i \in Live(x) /\ Good(x, {i}, {})
      BY <1>3, <2>2, StartsGood
    <3>2. Advances(t, x, {i})
      BY <1>3, <2>2, StartsAdvances
    <3>3. Ends(x, i, v)
      BY <3>1, FinishChildEnds
    <3>4. v \in State /\ v = AdmitSpawn(w, i, r)
      BY <2>2, <3>1, FinishChildType
    <3> HIDE DEF v
    <3>5. Advances(x, v, {i}) /\ i \notin DOMAIN v.pending
      BY <3>3 DEF Ends, Live
    <3>6. Advances(t, v, {i} \cup {i})
      BY <3>1, <3>2, <3>4, <3>5, AdvancesTogether
    <3>7. {i} \cup {i} = {i} /\ i \notin Present(t)
      BY <1>3 DEF Known, Present
    <3>8. Advances(t, v, {i})
      BY <3>6, <3>7
    <3> QED
      BY <3>4, <3>5, <3>7, <3>8 DEF Begins
  <2> QED
    BY <1>3, <2>1, <2>2, AdmitSpawnIs
<1> QED
  BY <1>1, <1>2, <1>3, HandleSpawnReady

\* The reaping of abandoned callers comes first, and leaves sessions and ids
\* as they were.
LEMMA ReapThenBegins ==
    ASSUME NEW t, Sound(t), NEW i \in Ids, NEW v \in State, Begins(Reap(t), i, v),
           i \notin Known(Reap(t))
    PROVE  Begins(t, i, v)
<1> DEFINE s == Reap(t)
<1>1. Sound(s) /\ t \in State /\ Homed(t)
  BY ReapSound DEF Sound
<1>2. Advances(t, s, {}) /\ s.graph = t.graph /\ s.blocked = t.blocked
  BY ReapAdvances
<1> HIDE DEF s
<1>3. Begins(s, i, v) /\ i \notin Known(s) /\ s \in State /\ Homed(s)
  BY <1>1 DEF s, Sound
<1>4. i \notin Present(t)
  BY <1>1, <1>2, <1>3 DEF Homed, Known, Present
<1>5. Advances(t, v, {i})
  BY <1>1, <1>2, <1>3, FirstAdvances DEF Begins
<1>6. ASSUME NEW j \in DOMAIN t.queued \cap DOMAIN v.queued
      PROVE  j \in DOMAIN s.queued /\ s.queued[j].req.parent = t.queued[j].req.parent
  <2>1. j \notin {i}
    BY <1>4 DEF Present
  <2>2. j \in DOMAIN s.queued
    BY <1>3, <2>1 DEF Begins, Advances, Passes
  <2> QED
    BY <1>2, <2>2 DEF Advances, Passes
<1> QED
  BY <1>2, <1>3, <1>4, <1>5, <1>6 DEF Begins

-----------------------------------------------------------------------------
(* Every step is one of these *)

LEMMA EventEventful ==
    ASSUME Sound(co), Aged(co), NEW t \in State, Homed(t), Eventful(co, t), Event(t)
    PROVE  Eventful(co, co')
BY LoopTailEventful DEF Sound, Event

\* A command: abandoned callers are reaped first.
LEMMA ReapEventful ==
    ASSUME Sound(co), Aged(co), NEW t \in State, Homed(t), Advances(Reap(co), t, {}), Event(t)
    PROVE  Eventful(co, co')
<1>1. Sound(Reap(co)) /\ Advances(co, Reap(co), {})
  BY ReapSound, ReapAdvances
<1>2. Advances(co, t, {})
  BY <1>1, FirstAdvances DEF Sound
<1> QED
  BY <1>2, EventEventful DEF Eventful

\* The command answers, or changes what no child and no record is in.
LEMMA ReapAsideEventful ==
    ASSUME Sound(co), Aged(co), NEW u \in State, Event(u),
           u.queued = Reap(co).queued, u.pending = Reap(co).pending,
           u.active = Reap(co).active, u.completed = Reap(co).completed,
           u.graph = Reap(co).graph, u.nextAge = Reap(co).nextAge
    PROVE  Eventful(co, co')
<1>1. Reap(co) \in State /\ Homed(Reap(co))
  BY ReapSound DEF Sound
<1>2. Advances(Reap(co), u, {}) /\ Homed(u)
  BY <1>1, AsideAdvances DEF Homed, Known, Live
<1> QED
  BY <1>2, ReapEventful

LEMMA CommandEventful ==
    ASSUME Sound(co), Aged(co)
    PROVE  /\ \A i \in Ids, r \in Requests : Spawn(i, r) => Eventful(co, co')
           /\ \A i \in Ids : Query(i) => Eventful(co, co')
           /\ \A i \in Ids, s \in Parents : Cancel(i, s) => Eventful(co, co')
           /\ \A s \in Sessions, p \in Prompts : CancelPrompt(s, p) => Eventful(co, co')
           /\ \A s \in Sessions : Stop(s) \/ OpenSpawnAdmission(s) => Eventful(co, co')
           /\ \A s \in Sessions, suppressed \in SUBSET Ids :
                 TakeCompletions(s, suppressed) => Eventful(co, co')
           /\ \A run \in Runs, s \in Sessions \cup {None} :
                 CancelWorkflow(run, s) => Eventful(co, co')
           /\ \A s \in Sessions, responder \in BOOLEAN :
                 TeardownSession(s, responder) => Eventful(co, co')
           /\ \A scope \in Scopes :
                 WaitPromptDrained(scope) \/ HandOffForeground(scope) => Eventful(co, co')
<1> DEFINE t == Reap(co)
<1>1. t \in State /\ Homed(t) /\ Kept(t)
  BY ReapSound DEF Sound
<1>2. ASSUME NEW i \in Ids, NEW r \in Requests, Spawn(i, r) PROVE Eventful(co, co')
  <2> DEFINE v == HandleSpawn(t, i, r)
  <2>1. Event(v) /\ r \in Request
    BY <1>2, RequestsTyped DEF Spawn
  <2>2. v \in State /\ Homed(v)
    BY <1>1, <2>1, HandleSpawnType, HandleSpawnHomed
  <2>3. Advances(t, v, {}) \/ (Begins(t, i, v) /\ i \notin Known(t))
    BY <1>1, <2>1, HandleSpawnBegins
  <2> HIDE DEF v
  <2>4. CASE Advances(t, v, {})
    BY <2>1, <2>2, <2>4, ReapEventful
  <2>5. CASE Begins(t, i, v) /\ i \notin Known(t)
    <3>1. Begins(co, i, v)
      BY <2>2, <2>5, ReapThenBegins
    <3> QED
      BY <2>1, <2>2, <3>1, EventEventful DEF Eventful
  <2> QED
    BY <2>3, <2>4, <2>5
<1>3. ASSUME NEW i \in Ids, Query(i) PROVE Eventful(co, co')
  <2> DEFINE u == [t EXCEPT !.waiters[i] = "open"]
  <2>1. Event(u)
    BY <1>3 DEF Query
  <2> HIDE DEF t
  <2>2. u \in State
    BY <1>1 DEF State, StateOver, WaiterView
  <2>3. /\ u.queued = t.queued /\ u.pending = t.pending /\ u.active = t.active
        /\ u.completed = t.completed /\ u.graph = t.graph /\ u.nextAge = t.nextAge
    BY <1>1 DEF State, StateOver
  <2> HIDE DEF u
  <2> QED
    BY <2>1, <2>2, <2>3, ReapAsideEventful DEF t
<1>4. ASSUME NEW i \in Ids, NEW s \in Parents, Cancel(i, s) PROVE Eventful(co, co')
  <2>1. Event(CancelOne(t, i))
    BY <1>4 DEF Cancel
  <2>2. Advances(t, CancelOne(t, i), {}) /\ CancelOne(t, i) \in State /\ Homed(CancelOne(t, i))
    BY <1>1, CancelOneAdvances, CancelOneType, CancelOneHomed
  <2> QED
    BY <2>1, <2>2, ReapEventful
<1>5. ASSUME NEW s \in Sessions, NEW p \in Prompts, CancelPrompt(s, p) PROVE Eventful(co, co')
  <2> DEFINE u == CancelParentPrompt(t, s, p)
  <2>1. Event(u)
    BY <1>5 DEF CancelPrompt
  <2>2. Advances(t, u, {}) /\ u \in State /\ Homed(u)
    BY <1>1, CancelParentPromptAdvances, CancelParentPromptType, CancelParentPromptHomed
  <2> QED
    BY <2>1, <2>2, ReapEventful
<1>6. ASSUME NEW s \in Sessions, Stop(s) PROVE Eventful(co, co')
  <2> DEFINE u == CancelParentSession(t, s)
  <2>1. Event(u) /\ s \in Parents
    BY <1>6 DEF Stop, Parents
  <2>2. Advances(t, u, {}) /\ u \in State /\ Homed(u)
    BY <1>1, <2>1, CancelParentSessionAdvances, CancelParentSessionType, CancelParentSessionHomed
  <2> QED
    BY <2>1, <2>2, ReapEventful
<1>7. ASSUME NEW s \in Sessions, OpenSpawnAdmission(s) PROVE Eventful(co, co')
  <2> DEFINE u == [t EXCEPT !.blocked = IF s \in t.drains THEN t.blocked ELSE t.blocked \ {s}]
  <2>1. Event(u)
    BY <1>7 DEF OpenSpawnAdmission
  <2> HIDE DEF t
  <2>2. u \in State
    BY <1>1 DEF State, StateOver
  <2>3. /\ u.queued = t.queued /\ u.pending = t.pending /\ u.active = t.active
        /\ u.completed = t.completed /\ u.graph = t.graph /\ u.nextAge = t.nextAge
    BY <1>1 DEF State, StateOver
  <2> HIDE DEF u
  <2> QED
    BY <2>1, <2>2, <2>3, ReapAsideEventful DEF t
<1>8. ASSUME NEW s \in Sessions, NEW suppressed \in SUBSET Ids, TakeCompletions(s, suppressed)
      PROVE  Eventful(co, co')
  <2> DEFINE u == [t EXCEPT !.buffer = {b \in t.buffer : b[1] # s \/ b[2] \in suppressed}]
  <2>1. Event(u)
    BY <1>8 DEF TakeCompletions
  <2> HIDE DEF t
  <2>2. u \in State
    BY <1>1 DEF State, StateOver
  <2>3. /\ u.queued = t.queued /\ u.pending = t.pending /\ u.active = t.active
        /\ u.completed = t.completed /\ u.graph = t.graph /\ u.nextAge = t.nextAge
    BY <1>1 DEF State, StateOver
  <2> HIDE DEF u
  <2> QED
    BY <2>1, <2>2, <2>3, ReapAsideEventful DEF t
<1>9. ASSUME NEW run \in Runs, NEW s \in Sessions \cup {None}, CancelWorkflow(run, s)
      PROVE  Eventful(co, co')
  <2> DEFINE u == CancelRun(t, run, s)
  <2>1. Event(u)
    BY <1>9 DEF CancelWorkflow
  <2>2. Advances(t, u, {}) /\ u \in State /\ Homed(u)
    BY <1>1, CancelRunAdvances, CancelRunType, CancelRunHomed
  <2> QED
    BY <2>1, <2>2, ReapEventful
<1>10. ASSUME NEW s \in Sessions, NEW responder \in BOOLEAN, TeardownSession(s, responder)
       PROVE  Eventful(co, co')
  <2> DEFINE u == Teardown(t, s, responder)
  <2>1. Event(u) /\ s \in Parents
    BY <1>10 DEF TeardownSession, Parents
  <2>2. Advances(t, u, {}) /\ u \in State /\ Homed(u)
    BY <1>1, <2>1, TeardownAdvances, TeardownType, TeardownHomed
  <2> QED
    BY <2>1, <2>2, ReapEventful
<1>11. ASSUME NEW scope \in Scopes, WaitPromptDrained(scope) PROVE Eventful(co, co')
  <2> DEFINE u == [t EXCEPT !.drainWaiters = t.drainWaiters \cup {scope}]
  <2>1. Event(u)
    BY <1>11 DEF WaitPromptDrained
  <2> HIDE DEF t
  <2>2. u \in State
    BY <1>1 DEF State, StateOver
  <2>3. /\ u.queued = t.queued /\ u.pending = t.pending /\ u.active = t.active
        /\ u.completed = t.completed /\ u.graph = t.graph /\ u.nextAge = t.nextAge
    BY <1>1 DEF State, StateOver
  <2> HIDE DEF u
  <2> QED
    BY <2>1, <2>2, <2>3, ReapAsideEventful DEF t
<1>12. ASSUME NEW scope \in Scopes, HandOffForeground(scope) PROVE Eventful(co, co')
  <2> DEFINE H == HandedOff(t, scope)
             u == HandOff(t, H, "released")
  <2>1. Event(u)
    BY <1>12 DEF HandOffForeground
  <2> HIDE DEF H
  <2>2. u \in State /\ SameHomes(t, u)
    BY <1>1, HandOffType, HandOffHomes DEF CallerView
  <2>3. Advances(t, u, {})
    BY <1>1, KeptMeans, HandOffAdvances DEF CallerView
  <2>4. Homed(u)
    BY <1>1, <2>2, SameHomesHomed
  <2> HIDE DEF u, t
  <2> QED
    BY <2>1, <2>2, <2>3, <2>4, ReapEventful DEF t
<1> QED
  BY <1>2, <1>3, <1>4, <1>5, <1>6, <1>7, <1>8, <1>9, <1>10, <1>11, <1>12

LEMMA MessageEventful ==
    ASSUME Sound(co), Aged(co)
    PROVE  /\ \A i \in Ids : Send(i) => Eventful(co, co')
           /\ \A i \in Ids, settled \in BOOLEAN : MessageSettles(i, settled) => Eventful(co, co')
           /\ \A i \in Ids, more \in BOOLEAN : TerminalPublished(i, more) => Eventful(co, co')
<1>0. co \in State /\ Homed(co) /\ Kept(co)
  BY DEF Sound
<1>1. ASSUME NEW i \in Ids, Send(i) PROVE Eventful(co, co')
  <2>1. Event(SendMessage(co, i))
    BY <1>1 DEF Send
  <2>2. Eventful(co, SendMessage(co, i))
    BY <1>0, SendMessageEventful DEF Eventful, Minor, Begun
  <2> QED
    BY <1>0, <2>1, <2>2, SendMessageType, SendMessageHomed, EventEventful
<1>2. ASSUME NEW i \in Ids, NEW settled \in BOOLEAN, MessageSettles(i, settled)
      PROVE  Eventful(co, co')
  <2> DEFINE d == [co.active[i] EXCEPT !.inFlight = co.active[i].inFlight - 1,
                                       !.clean = co.active[i].clean /\ settled]
             t == [co EXCEPT !.active[i].inFlight = co.active[i].inFlight - 1,
                             !.active[i].clean = co.active[i].clean /\ settled]
  <2>1. i \in DOMAIN co.active /\ co.active[i].inFlight > 0
    BY <1>2 DEF MessageSettles
  <2>2. co.active[i] \in Child
    BY <1>0, <2>1, StateFields, MapElement
  <2>3. d \in Child
    <3>1. co.active[i].inFlight \in Nat /\ co.active[i].clean \in BOOLEAN
      BY <2>2 DEF Child
    <3>2. co.active[i].inFlight - 1 \in Nat
      BY <2>1, <3>1
    <3> QED
      BY <2>2, <3>1, <3>2 DEF Child
  <2>4. t = [co EXCEPT !.active[i] = d] /\ t.outputs = co.outputs
    BY <1>0, <2>1 DEF State, StateOver
  <2>5. /\ d.req = co.active[i].req /\ d.wakeOf = co.active[i].wakeOf
        /\ d.reply = co.active[i].reply /\ d.handleOnly = co.active[i].handleOnly
        /\ d.phase = co.active[i].phase /\ d.killed = co.active[i].killed
    BY <2>2 DEF Child
  <2>6. Event(IF t.active[i].inFlight = 0 /\ i \in DOMAIN t.outputs
              THEN FinishTerminalized(t, i, t.outputs[i]) ELSE t)
    BY <1>2 DEF MessageSettles
  <2> HIDE DEF t, d
  <2>7. SofterChild(co.active[i], d, co.callers[i] = "waiting")
    BY <2>5 DEF SofterChild
  <2>8. /\ t \in State /\ Homed(t) /\ Advances(co, t, {}) /\ Live(t) = Live(co)
        /\ i \in DOMAIN t.active
        /\ ChildOf(t, i) = d /\ ChildOf(co, i) = co.active[i]
        /\ t.nextAge = co.nextAge /\ t.callers = co.callers /\ t.waiters = co.waiters
    BY <1>0, <2>1, <2>3, <2>4, <2>7, ActiveStill
  <2>9. Good(t, {i}, {})
    <3>1. Eased(co, t, {i})
      <4>1. QuietBut(co, {})
        BY <1>0 DEF Kept, Good
      <4> QED
        BY <1>0, <2>1, <2>3, <2>4, <2>5, <2>7, <4>1, ActiveEased
    <3>2. Good(co, {i}, {})
      BY <1>0, GoodBut DEF Kept
    <3> QED
      BY <1>0, <2>8, <3>1, <3>2, EasedGood
  <2>10. CASE t.active[i].inFlight = 0 /\ i \in DOMAIN t.outputs
    <3> DEFINE v == FinishTerminalized(t, i, t.outputs[i])
    <3>1. t.outputs[i] \in Output
      BY <2>8, <2>10, StateFields, MapElement
    <3>2. v \in State /\ Homed(v) /\ Ends(t, i, v)
      BY <2>8, <2>9, <3>1, FinishTerminalizedType, FinishTerminalizedHomed, FinishTerminalizedEnds
    <3>3. Event(v)
      BY <2>6, <2>10
    <3> HIDE DEF v
    <3>4. Ends(co, i, v)
      BY <1>0, <2>5, <2>8, <3>2, ThenEnds
    <3> QED
      BY <3>2, <3>3, <3>4, EventEventful DEF Eventful
  <2>11. CASE ~(t.active[i].inFlight = 0 /\ i \in DOMAIN t.outputs)
    BY <2>6, <2>8, <2>11, EventEventful DEF Eventful
  <2> QED
    BY <2>10, <2>11
<1>3. ASSUME NEW i \in Ids, NEW more \in BOOLEAN, TerminalPublished(i, more)
      PROVE  Eventful(co, co')
  <2> DEFINE t == [co EXCEPT !.notices = co.notices \ {i}, !.wakes = co.wakes \ {i}]
             u == SendMessage(t, i)
             v == SendMessage(u, i)
  <2>1. t \in State
    BY <1>0 DEF State, StateOver
  <2>2. /\ t.queued = co.queued /\ t.pending = co.pending /\ t.active = co.active
        /\ t.graph = co.graph /\ t.completed = co.completed /\ t.parked = co.parked
        /\ t.waiters = co.waiters /\ t.outputs = co.outputs /\ t.drains = co.drains
        /\ t.runWaiters = co.runWaiters /\ t.callers = co.callers
        /\ t.blocked = co.blocked /\ t.buffer = co.buffer /\ co.drains \subseteq co.blocked
        /\ t.nextAge = co.nextAge
    BY <1>0 DEF State, StateOver, Kept, Good, QuietBut
  <2>3. Event(t) \/ Event(v) \/ Event(u)
    BY <1>3 DEF TerminalPublished
  <2> HIDE DEF t
  <2>4. Homed(t) /\ Kept(t) /\ Minor(co, t)
    BY <1>0, <2>1, <2>2, LessKept, MinorTrivially
  <2>5. u \in State /\ Homed(u) /\ (Minor(t, u) \/ Begins(t, i, u))
    BY <2>1, <2>4, SendMessageType, SendMessageHomed, SendMessageEventful DEF Begun
  <2>6. v \in State /\ Homed(v) /\ (Minor(t, v) \/ Begins(t, i, v))
    BY <2>1, <2>4, <2>5, SendMessageType, SendMessageHomed, SendTwiceEventful
  <2> HIDE DEF u, v
  <2>7. Eventful(co, t) /\ Eventful(co, u) /\ Eventful(co, v)
    BY <1>0, <2>1, <2>4, <2>5, <2>6, MinorThen DEF Eventful, Minor
  <2> QED
    BY <2>1, <2>3, <2>4, <2>5, <2>6, <2>7, EventEventful
<1> QED
  BY <1>1, <1>2, <1>3

LEMMA RunnerEventful ==
    ASSUME Sound(co), Aged(co), NEW i \in Ids, RunnerStep(i)
    PROVE  Eventful(co, co')
<1>0. co \in State /\ Homed(co) /\ Kept(co)
  BY DEF Sound
<1> DEFINE P == {m \in co.parked : m[1] # i}
           t0 == [co EXCEPT !.parked = P]
<1>5. t0 \in State /\ Homed(t0) /\ Advances(co, t0, {})
  <2>1. P \in SUBSET co.parked
    OBVIOUS
  <2>2. /\ t0.queued = co.queued /\ t0.pending = co.pending /\ t0.active = co.active
        /\ t0.graph = co.graph /\ t0.completed = co.completed /\ t0.nextAge = co.nextAge
    BY <1>0 DEF State, StateOver
  <2>3. t0 \in State /\ Homed(t0)
    BY <1>0, <2>1, UnparkKept
  <2> HIDE DEF t0
  <2> QED
    BY <1>0, <2>2, <2>3, AsideAdvances
<1>1. ASSUME NEW defer \in BOOLEAN, NEW background \in BOOLEAN, Started(i, defer, background)
      PROVE  Eventful(co, co')
  <2> DEFINE c == co.pending[i]
             d == [c EXCEPT !.defBg = background,
                            !.wakeOf = IF defer THEN c.wakeOf ELSE None]
             t == [co EXCEPT !.pending = Drop(co.pending, {i}), !.active = Put(co.active, i, d)]
  <2>1. i \in DOMAIN co.pending /\ (Event(t0) \/ Event(t) \/ Event(AdmitParked(t, i)))
    BY <1>1 DEF Started
  <2>2. c \in Child
    BY <1>0, <2>1, StateFields, MapElement
  <2>3. d \in Child /\ d.req = c.req /\ d.wakeOf \in {None, c.wakeOf}
    <3> HIDE DEF c
    <3> QED
      BY <2>2 DEF Child
  <2> HIDE DEF d
  <2>4. Advances(co, t, {})
    BY <1>0, <2>1, <2>3, ActivatedAdvances
  <2>5. t \in State /\ Homed(t) /\ i \in DOMAIN t.active
    <3>1. /\ DOMAIN Drop(co.pending, {i}) = DOMAIN co.pending \ {i}
          /\ DOMAIN Put(co.active, i, d) = DOMAIN co.active \cup {i}
      BY DEF Drop, Restrict, Put
    <3>2. Drop(co.pending, {i}) \in MapOf(Child)
      BY <1>0, StateFields, DropType
    <3>3. Put(co.active, i, d) \in MapOf(Child)
      BY <1>0, <2>3, StateFields, PutType
    <3>4. t \in State
      BY <1>0, <3>2, <3>3 DEF State, StateOver
    <3>5. /\ t.queued = co.queued /\ t.completed = co.completed /\ t.graph = co.graph
          /\ t.pending = Drop(co.pending, {i}) /\ t.active = Put(co.active, i, d)
      BY <1>0 DEF State, StateOver
    <3> HIDE DEF t
    <3>6. Homed(t) /\ i \in DOMAIN t.active
      BY <1>0, <2>1, <3>1, <3>5 DEF Homed, Known, Live
    <3> QED
      BY <3>4, <3>6
  <2> HIDE DEF t, t0
  <2>6. /\ AdmitParked(t, i) \in State /\ Homed(AdmitParked(t, i))
        /\ Advances(co, AdmitParked(t, i), {})
    BY <1>0, <2>4, <2>5, AdmitParkedType, AdmitParkedHomed, AdmitParkedAdvances, FirstAdvances
  <2> QED
    BY <1>5, <2>1, <2>4, <2>5, <2>6, EventEventful DEF Eventful
<1>2. ASSUME NEW committed \in BOOLEAN, SettleDeferredStart(i, committed)
      PROVE  Eventful(co, co')
  <2> DEFINE ok == [co.active[i] EXCEPT !.wakeOf = None]
             r == [co.active[i].req EXCEPT !.surface = FALSE]
             ko == [co.active[i] EXCEPT !.req = r, !.cancelled = TRUE, !.phase = "Finalizing"]
             t == [co EXCEPT !.active[i].wakeOf = None]
             u == [co EXCEPT !.active[i].req.surface = FALSE, !.active[i].cancelled = TRUE,
                             !.active[i].phase = "Finalizing", !.parked = P]
  <2>1. i \in DOMAIN co.active /\ (Event(AdmitParked(t, i)) \/ Event(u))
    BY <1>2 DEF SettleDeferredStart
  <2>2. co.active[i] \in Child
    BY <1>0, <2>1, StateFields, MapElement
  <2>3. ok \in Child
    BY <2>2 DEF Child
  <2>4. co.active[i].req \in Request
    BY <2>2 DEF Child
  <2>5. ko \in Child
    <3>1. r \in Request
      BY <2>4 DEF Request
    <3> HIDE DEF r
    <3> QED
      BY <2>2, <3>1 DEF Child
  <2>6. t = [co EXCEPT !.active[i] = ok] /\ u = [t0 EXCEPT !.active[i] = ko]
    BY <1>0, <2>1 DEF State, StateOver
  <2>7. t0.active = co.active /\ t0.callers = co.callers
    BY <1>0 DEF State, StateOver
  <2>8. SofterChild(co.active[i], ko, co.callers[i] = "waiting")
    BY <2>2, <2>4 DEF SofterChild, Child, Request
  <2>9. SofterChild(co.active[i], ok, co.callers[i] = "waiting")
    BY <2>2 DEF SofterChild, Child
  <2> HIDE DEF t, u, t0, ok, ko
  <2>10. t \in State /\ Homed(t) /\ Advances(co, t, {}) /\ i \in DOMAIN t.active
    BY <1>0, <2>1, <2>3, <2>6, <2>9, ActiveStill
  <2>11. u \in State /\ Homed(u) /\ Advances(t0, u, {})
    BY <1>5, <2>1, <2>5, <2>6, <2>7, <2>8, ActiveStill
  <2>12. Advances(co, u, {})
    BY <1>0, <1>5, <2>11, FirstAdvances
  <2>13. /\ AdmitParked(t, i) \in State /\ Homed(AdmitParked(t, i))
         /\ Advances(co, AdmitParked(t, i), {})
    BY <1>0, <2>10, AdmitParkedType, AdmitParkedHomed, AdmitParkedAdvances, FirstAdvances
  <2> QED
    BY <2>1, <2>11, <2>12, <2>13, EventEventful DEF Eventful
<1>3. ASSUME Finalizing(i) PROVE Eventful(co, co')
  <2> DEFINE d == [co.active[i] EXCEPT !.phase = "Finalizing"]
             t == [co EXCEPT !.active[i].phase = "Finalizing"]
  <2>1. i \in DOMAIN co.active /\ Event(t)
    BY <1>3 DEF Finalizing
  <2>2. co.active[i] \in Child
    BY <1>0, <2>1, StateFields, MapElement
  <2>3. d \in Child /\ SofterChild(co.active[i], d, co.callers[i] = "waiting")
    BY <2>2 DEF SofterChild, Child
  <2>4. t = [co EXCEPT !.active[i] = d]
    BY <1>0 DEF State, StateOver
  <2> HIDE DEF t, d
  <2>5. t \in State /\ Homed(t) /\ Advances(co, t, {})
    BY <1>0, <2>1, <2>3, <2>4, ActiveStill
  <2> QED
    BY <2>1, <2>5, EventEventful DEF Eventful
<1>4. ASSUME NEW out \in Output, RunEnds(i, out) PROVE Eventful(co, co')
  <2> DEFINE u == BeginTerminalization(co, i, out)
  <2>1. i \in Live(co) /\ Event(u)
    BY <1>4 DEF RunEnds, RunLive
  <2>2. u \in State /\ Homed(u) /\ (Ends(co, i, u) \/ Advances(co, u, {}))
    BY <1>0, <2>1, BeginTerminalizationType, BeginTerminalizationHomed, BeginTerminalizationEnds
  <2> QED
    BY <2>1, <2>2, EventEventful DEF Eventful
<1> QED
  BY <1>1, <1>2, <1>3, <1>4 DEF RunnerStep

LEMMA DeadlineEventful ==
    ASSUME Sound(co), Aged(co), NEW messages, NEW sessions, NEW budgets, NEW queries,
           ProcessDeadlines(messages, sessions, budgets, queries)
    PROVE  Eventful(co, co')
<1> DEFINE t == Reap(co)
           t0 == [t EXCEPT !.parked = t.parked \ (messages \X {TRUE})]
           S == sessions \cap t.drains
           u == ClearTeardownDrain(t0, S)
           H == budgets \cap Timed(u)
           v == HandOff(u, H, "backgrounded")
           k == [i \in Ids |-> IF i \in queries THEN "none" ELSE v.waiters[i]]
           w == [v EXCEPT !.waiters = k]
<1>1. t \in State /\ Homed(t) /\ Kept(t)
  BY ReapSound DEF Sound
<1>2. Event(w)
  BY DEF ProcessDeadlines
<1> HIDE DEF t
<1>3. t0 \in State /\ Homed(t0) /\ Kept(t0)
  BY <1>1, UnparkKept
<1>4. /\ t0.queued = t.queued /\ t0.pending = t.pending /\ t0.active = t.active
      /\ t0.graph = t.graph /\ t0.completed = t.completed /\ t0.nextAge = t.nextAge
  BY <1>1 DEF State, StateOver
<1> HIDE DEF t0, S
<1>5. u \in State /\ Kept(u)
  <2>1. u \in State /\ Eased(t0, u, {})
    BY <1>3, ClearTeardownDrainType, ClearTeardownDrainEased DEF Kept, Good
  <2> QED
    BY <1>3, <2>1, EasedKept
<1>6. /\ u.queued = t0.queued /\ u.pending = t0.pending /\ u.active = t0.active
      /\ u.graph = t0.graph /\ u.completed = t0.completed /\ u.nextAge = t0.nextAge
  BY <1>3 DEF State, StateOver, ClearTeardownDrain
<1> HIDE DEF u, H
<1>7. Advances(t, u, {}) /\ Homed(u)
  BY <1>1, <1>4, <1>5, <1>6, AsideAdvances DEF Homed, Known, Live
<1>8. v \in State /\ Advances(u, v, {}) /\ SameHomes(u, v)
  BY <1>5, KeptMeans, HandOffType, HandOffHomes, HandOffAdvances DEF CallerView
<1> HIDE DEF v
<1>9. k \in [Ids -> WaiterView]
  BY <1>8, StateFields DEF WaiterView
<1> HIDE DEF k
<1>10. /\ w.queued = v.queued /\ w.pending = v.pending /\ w.active = v.active
       /\ w.graph = v.graph /\ w.completed = v.completed /\ w.nextAge = v.nextAge
  BY <1>8 DEF State, StateOver
<1>11. w \in State
  BY <1>8, <1>9 DEF State, StateOver
<1> HIDE DEF w
<1>12. Homed(v) /\ Homed(w) /\ Advances(v, w, {})
  BY <1>7, <1>8, <1>10, <1>11, SameHomesHomed, AsideAdvances DEF Homed, Known, Live
<1>13. Advances(t, w, {})
  BY <1>1, <1>5, <1>7, <1>8, <1>11, <1>12, FirstAdvances
<1> QED
  BY <1>2, <1>11, <1>12, <1>13, ReapEventful DEF t

LEMMA EnvironmentEventful ==
    ASSUME Sound(co), Sound(co'), NEW i \in Ids,
           CallerDrops(i) \/ QueryDrops(i) \/ TokenCancelled(i) \/ Publish(i)
    PROVE  Eventful(co, co')
<1>0. co \in State /\ Homed(co) /\ co' \in State
  BY DEF Sound
<1> SUFFICES Advances(co, co', {})
  BY DEF Eventful
<1>1. CASE CallerDrops(i)
  <2>1. co' = [co EXCEPT !.callers[i] = "gone"]
    BY <1>1 DEF CallerDrops
  <2>2. /\ co'.queued = co.queued /\ co'.pending = co.pending /\ co'.active = co.active
        /\ co'.graph = co.graph /\ co'.completed = co.completed /\ co'.nextAge = co.nextAge
    BY <1>0, <2>1 DEF State, StateOver
  <2> QED
    BY <1>0, <2>2, AsideAdvances
<1>2. CASE QueryDrops(i)
  <2>1. co' = [co EXCEPT !.waiters[i] = "closed"]
    BY <1>2 DEF QueryDrops
  <2>2. /\ co'.queued = co.queued /\ co'.pending = co.pending /\ co'.active = co.active
        /\ co'.graph = co.graph /\ co'.completed = co.completed /\ co'.nextAge = co.nextAge
    BY <1>0, <2>1 DEF State, StateOver
  <2> QED
    BY <1>0, <2>2, AsideAdvances
<1>3. CASE TokenCancelled(i)
  <2>1. /\ co'.graph = co.graph /\ co'.completed = co.completed /\ co'.nextAge = co.nextAge
        /\ \/ /\ co'.queued = [co.queued EXCEPT ![i].cancelled = TRUE]
              /\ co'.pending = co.pending /\ co'.active = co.active
           \/ /\ co'.pending = [co.pending EXCEPT ![i].cancelled = TRUE]
              /\ co'.queued = co.queued /\ co'.active = co.active
           \/ /\ co'.active = [co.active EXCEPT ![i].cancelled = TRUE]
              /\ co'.queued = co.queued /\ co'.pending = co.pending
    BY <1>0, <1>3 DEF TokenCancelled, State, StateOver
  <2>2. /\ \A j \in DOMAIN co.queued : co.queued[j] \in QueuedSpawn
        /\ \A j \in DOMAIN co.pending : co.pending[j] \in Child
        /\ \A j \in DOMAIN co.active : co.active[j] \in Child
    BY <1>0, StateFields, MapElement
  <2>3. /\ DOMAIN co'.queued = DOMAIN co.queued
        /\ \A j \in DOMAIN co.queued : /\ co'.queued[j].req = co.queued[j].req
                                        /\ co'.queued[j].wake = co.queued[j].wake
                                        /\ co'.queued[j].ticket = co.queued[j].ticket
    BY <2>1, <2>2 DEF QueuedSpawn
  <2>4. /\ DOMAIN co'.pending = DOMAIN co.pending
        /\ \A j \in DOMAIN co.pending : /\ co'.pending[j].req = co.pending[j].req
                                         /\ co'.pending[j].wakeOf = co.pending[j].wakeOf
    BY <2>1, <2>2 DEF Child
  <2>5. /\ DOMAIN co'.active = DOMAIN co.active
        /\ \A j \in DOMAIN co.active : /\ co'.active[j].req = co.active[j].req
                                        /\ co'.active[j].wakeOf = co.active[j].wakeOf
    BY <2>1, <2>2 DEF Child
  <2>6. SameHomes(co, co')
    BY <2>1, <2>3, <2>4, <2>5 DEF SameHomes
  <2> QED
    BY <1>0, <2>1, <2>3, <2>4, <2>5, <2>6, RewriteAdvances
<1>4. CASE Publish(i)
  <2>1. /\ co'.queued = co.queued /\ co'.pending = co.pending /\ co'.active = co.active
        /\ co'.graph = co.graph /\ co'.nextAge = co.nextAge
        /\ co'.completed = [co.completed EXCEPT ![i].published = TRUE]
    BY <1>0, <1>4 DEF Publish, State, StateOver
  <2>2. \A j \in DOMAIN co.completed : co.completed[j] \in CompletedChild
    BY <1>0, StateFields, MapElement
  <2>3. /\ DOMAIN co'.completed = DOMAIN co.completed
        /\ \A j \in DOMAIN co.completed : co'.completed[j].age = co.completed[j].age
    BY <2>1, <2>2 DEF CompletedChild
  <2>4. SameHomes(co, co') /\ SofterMaps(co, co')
    BY <2>1, <2>3 DEF SameHomes, SofterMaps, SofterChild, SofterEntry
  <2> QED
    BY <1>0, <2>1, <2>3, <2>4, StillAdvances
<1> QED
  BY <1>1, <1>2, <1>3, <1>4

-----------------------------------------------------------------------------
(* The inductive invariant *)

\* One step per group of actions.
LEMMA StepSettled ==
    ASSUME Settled(co), [Next]_vars
    PROVE  Settled(co')
<1>0. Sound(co)
  BY DEF Settled
<1>1. CASE UNCHANGED vars
  BY <1>1 DEF vars
<1>2. CASE Next
  <2>1. CASE \E i \in Ids : RunnerStep(i)
    BY <1>0, <2>1, RunnerSettled
  <2>2. CASE \/ \E i \in Ids : BudgetElapses(i) \/ QueryElapses(i) \/ ParkedElapses(i)
             \/ \E s \in Parents : DrainElapses(s)
             \/ AllElapse
    BY <1>0, <2>2, DeadlineSettled
       DEF BudgetElapses, QueryElapses, ParkedElapses, DrainElapses, AllElapse
  <2>3. CASE ReapCallers
    BY <1>0, <2>3, ReapSound, EventSettled DEF ReapCallers
  <2> QED
    BY <1>0, <1>2, <2>1, <2>2, <2>3, CommandSettled, MessageSettled, EnvironmentSettled DEF Next
<1> QED
  BY <1>1, <1>2

LEMMA StepEventful ==
    ASSUME Settled(co), Aged(co), Next
    PROVE  Eventful(co, co') /\ Settled(co') /\ Aged(co')
<1>0. Sound(co) /\ Sound(co') /\ Settled(co')
  BY StepSettled DEF Settled
<1>1. Eventful(co, co')
  <2>1. CASE \E i \in Ids : RunnerStep(i)
    BY <1>0, <2>1, RunnerEventful
  <2>2. CASE \/ \E i \in Ids : BudgetElapses(i) \/ QueryElapses(i) \/ ParkedElapses(i)
             \/ \E s \in Parents : DrainElapses(s)
             \/ AllElapse
    BY <1>0, <2>2, DeadlineEventful
       DEF BudgetElapses, QueryElapses, ParkedElapses, DrainElapses, AllElapse
  <2>3. CASE ReapCallers
    <3>1. Event(Reap(co))
      BY <2>3 DEF ReapCallers
    <3>2. Reap(co) \in State /\ Homed(Reap(co)) /\ Advances(co, Reap(co), {})
      BY <1>0, ReapSound, ReapAdvances DEF Sound
    <3> QED
      BY <1>0, <3>1, <3>2, EventEventful DEF Eventful
  <2> QED
    BY <1>0, <2>1, <2>2, <2>3, CommandEventful, MessageEventful, EnvironmentEventful DEF Next
<1>2. Aged(co')
  BY <1>1 DEF Eventful, Ends, Begins, Advances
<1> QED
  BY <1>0, <1>1, <1>2

LEMMA Inductive == Spec => [](Settled(co) /\ Aged(co))
<1>1. Init => Settled(co) /\ Aged(co)
  <2>1. /\ Fresh.drainWaiters = {} /\ DOMAIN Fresh.completed = {}
        /\ DOMAIN Fresh.queued = {} /\ DOMAIN Fresh.pending = {} /\ DOMAIN Fresh.active = {}
    BY DEF Fresh
  <2>2. Aged(Fresh)
    BY <2>1 DEF Aged, Recorded, Present, Live
  <2> QED
    BY <2>1, <2>2, FreshType, FreshHomed, FreshKept DEF Init, Settled, Sound, TurnsBlocked
<1>2. Settled(co) /\ Aged(co) /\ [Next]_vars => Settled(co)' /\ Aged(co)'
  <2>1. CASE Next
    BY <2>1, StepEventful
  <2>2. CASE UNCHANGED vars
    BY <2>2 DEF vars
  <2> QED
    BY <2>1, <2>2
<1> QED
  BY <1>1, <1>2, PTL DEF Spec

LEMMA SettledMeans ==
    ASSUME Settled(co)
    PROVE  /\ TypeOK /\ OneHome /\ WithinLimit /\ QueuedAtCapacity /\ NoStrandedCaller
           /\ NoStrandedWaiter /\ NoIdleDrain /\ ClosedMeansQuiet /\ ParkedHasStart
           /\ WithheldHasAdmission /\ DeliveredOnce /\ OwnershipAgrees
<1>1. co \in State /\ Homed(co) /\ Kept(co) /\ TurnsBlocked(co)
  BY DEF Settled, Sound
<1>2. /\ Promised(co) /\ HeldBut(co, {}) /\ QuietBut(co, {}) /\ RunsOutstanding(co)
      /\ FitsBut(co, {}) /\ QueueFull(co)
  BY <1>1 DEF Kept, Good
<1>3. TypeOK /\ OneHome
  BY <1>1, StateDef DEF TypeOK, OneHome
<1>4. WithinLimit
  <2>1. \A s : Running(co, s) \ {} = Running(co, s)
    OBVIOUS
  <2> QED
    BY <1>2, <2>1 DEF FitsBut, WithinLimit
<1>5. QueuedAtCapacity
  BY <1>2 DEF QueueFull, QueuedAtCapacity
<1>6. NoStrandedCaller
  BY <1>2 DEF Promised, CallersOwed, Owes, Present, NoStrandedCaller
<1>7. NoStrandedWaiter
  BY <1>2 DEF Promised, WaitersOwed, Present, NoStrandedWaiter
<1>8. NoIdleDrain
  BY <1>1, <1>2 DEF TurnsBlocked, RunsOutstanding, NoIdleDrain
<1>9. ClosedMeansQuiet
  BY <1>2 DEF QuietBut, Muted, ClosedMeansQuiet
<1>10. ParkedHasStart
  BY <1>2 DEF Promised, ParkedOwed, Present, Prior, Live, ChildOf, ParkedHasStart
<1>11. WithheldHasAdmission
  BY <1>2 DEF HeldBut, WithheldHasAdmission
<1>12. DeliveredOnce
  BY <1>2 DEF Promised, Delivered, NotHeard, DeliveredOnce
<1>13. OwnershipAgrees
  BY <1>2 DEF Promised, Owned, OwnershipAgrees
<1> QED
  BY <1>3, <1>4, <1>5, <1>6, <1>7, <1>8, <1>9, <1>10, <1>11, <1>12, <1>13

\* Every event handler and every step of the environment keeps the actor's
\* record well typed, whatever the sizes and bounds.
THEOREM TypeCorrect == Spec => []TypeOK
BY Inductive, SettledMeans, PTL

\* Through every spawn, start, wake, restore, finish and eviction a child is in
\* exactly one of the coordinator's maps, and the spawn graph, by which cancel,
\* kill and messages are scoped, has a node for each child and for no other.
THEOREM HomesCorrect == Spec => []OneHome
BY Inductive, SettledMeans, PTL

\* A caller blocked in spawn() is never forgotten: through queueing, sweeps,
\* starts, hand-offs, reaping, cancels and teardowns some entry or child holds
\* the sender of its result channel until the caller is answered or released.
THEOREM CallersAnswered == Spec => []NoStrandedCaller
BY Inductive, SettledMeans, PTL

\* Every path on which a child leaves (finish_child, a withdrawn wake, an
\* expired record) answers the blocking queries parked on it.
THEOREM WaitersAnswered == Spec => []NoStrandedWaiter
BY Inductive, SettledMeans, PTL

\* A foreground result reaches its caller in hand or as a surfaced completion,
\* never both, also when a wake gives a displaced record back.
THEOREM ResultsDeliveredOnce == Spec => []DeliveredOnce
BY Inductive, SettledMeans, PTL

\* The session that the spawn graph names as a child's root is the session whose
\* slots it takes and whose teardown ends it, for nested, woken and restored
\* children too.
THEOREM OwnersAgree == Spec => []OwnershipAgrees
BY Inductive, SettledMeans, PTL

\* Whoever sends to a child that has not started yet is answered by its start:
\* no message stays parked on a child that is settled, finished or gone.
THEOREM ParkedAnswered == Spec => []ParkedHasStart
BY Inductive, SettledMeans, PTL

\* begin_terminalization withholds an output only while an admission is in
\* flight, and no message opens the child again.
THEOREM OutputsReleased == Spec => []WithheldHasAdmission
BY Inductive, SettledMeans, PTL

\* Stop and delete leave nothing behind: a session that is closed has an empty
\* queue, one that is deleted is closed too and is told of no completion, while
\* finishing children, sweeps and wakes go on.
THEOREM ClosedStaysQuiet == Spec => []ClosedMeansQuiet
BY Inductive, SettledMeans, PTL

\* No session exceeds its limit, however many entries one sweep starts.
THEOREM LimitHolds == Spec => []WithinLimit
BY Inductive, SettledMeans, PTL

\* No slot stays free while an entry of its session waits: every path that
\* frees a slot runs the sweep, and the sweep fills every slot it can.
THEOREM SlotsFilled == Spec => []QueuedAtCapacity
BY Inductive, SettledMeans, PTL

\* Nobody waits for a turn or for a workflow run that has no child left.
THEOREM NobodyWaitsIdly == Spec => []NoIdleDrain
BY Inductive, SettledMeans, PTL

-----------------------------------------------------------------------------
(* What a step may never do *)

LEMMA StepMeans ==
    ASSUME Settled(co), Aged(co), Next
    PROVE  /\ \A i \in Entered, j \in DOMAIN co.queued \cap DOMAIN co'.queued :
                 /\ co'.pending[i].req.parent = co.queued[j].req.parent
                 /\ co'.pending[i].req.run = None
                 => i \in DOMAIN co.queued /\ co.queued[i].ticket < co.queued[j].ticket
           /\ \A i \in Entered : co'.pending[i].req.run = None =>
                 co'.pending[i].req.parent \notin co.blocked
           /\ \A i \in Live(co) \cap DOMAIN co'.completed :
                 LET c == ChildOf(co, i)
                     d == co'.completed[i]
                 IN  d.age >= co.nextAge /\ c.req.surface /\ ~c.killed /\ ~d.cancelled =>
                       \/ d.surfaced
                       \/ co.callers[i] = "waiting" /\ co'.callers[i] = "result"
                       \/ co.waiters[i] = "open"
           /\ \A i \in Live(co) : LET d == ChildOf(co, i).wakeOf
                                  IN  d # None /\ i \notin Live(co)' =>
                                        i \in DOMAIN co'.completed \/ Expired(d, co'.nextAge)
<1>1. Sound(co) /\ Sound(co') /\ Eventful(co, co')
  BY StepEventful DEF Settled
<1> QED
  BY <1>1, EventfulMeans

\* No spawn, wake or sweep starts a task child ahead of an entry of its session
\* that was queued before it and stays queued.
THEOREM QueueInOrder == Spec => NoOvertaking
<1>1. /\ Settled(co) /\ Aged(co) /\ [Next]_vars
      => [\A i \in Entered, j \in DOMAIN co.queued \cap DOMAIN co'.queued :
             /\ co'.pending[i].req.parent = co.queued[j].req.parent
             /\ co'.pending[i].req.run = None
             => i \in DOMAIN co.queued /\ co.queued[i].ticket < co.queued[j].ticket]_vars
  BY StepMeans
<1> QED
  BY <1>1, Inductive, PTL DEF Spec, NoOvertaking

\* From Stop or delete to the next turn no task child of the session starts: not
\* by a spawn, a nested spawn, a wake or a sweep.
THEOREM ClosedStartsNothing == Spec => ClosedMeansNoStart
<1>1. /\ Settled(co) /\ Aged(co) /\ [Next]_vars
      => [\A i \in Entered : co'.pending[i].req.run = None =>
             co'.pending[i].req.parent \notin co.blocked]_vars
  BY StepMeans
<1> QED
  BY <1>1, Inductive, PTL DEF Spec, ClosedMeansNoStart

\* A child that ends by itself and wants to be heard is: by its caller, by a
\* blocking query, or by the host, through withheld outputs and reaped callers.
THEOREM WorkReported == Spec => NothingUnreported
<1>1. /\ Settled(co) /\ Aged(co) /\ [Next]_vars
      => [\A i \in Live(co) \cap DOMAIN co'.completed :
             LET c == ChildOf(co, i)
                 d == co'.completed[i]
             IN  d.age >= co.nextAge /\ c.req.surface /\ ~c.killed /\ ~d.cancelled =>
                   \/ d.surfaced
                   \/ co.callers[i] = "waiting" /\ co'.callers[i] = "result"
                   \/ co.waiters[i] = "open"]_vars
  BY StepMeans
<1> QED
  BY <1>1, Inductive, PTL DEF Spec, NothingUnreported

\* The record that a wake displaced outlives the wake's failure: it is given
\* back, and the eviction that follows in the same event takes it only when it
\* has become older than every record the completed map may hold.
THEOREM RecordsOutliveWakes == Spec => DisplacedIsKept
<1>1. /\ Settled(co) /\ Aged(co) /\ [Next]_vars
      => [\A i \in Live(co) : LET d == ChildOf(co, i).wakeOf
                              IN  d # None /\ i \notin Live(co)' =>
                                    i \in DOMAIN co'.completed \/ Expired(d, co'.nextAge)]_vars
  BY StepMeans
<1> QED
  BY <1>1, Inductive, PTL DEF Spec, DisplacedIsKept
=============================================================================
