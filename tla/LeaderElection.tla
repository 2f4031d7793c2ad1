--------------------------- MODULE LeaderElection ---------------------------
(***************************************************************************)
(* How clients of the leader process find, start and replace it            *)
(* (xai-grok-shell/src/leader/mod.rs, leader/lock.rs, agent/app.rs and the *)
(* crate xai-grok-file-lock).  A lock file whose flock marks the leader, a  *)
(* socket file next to it, clients in connect_or_spawn and leaders in      *)
(* run_leader: processes that share nothing but these two paths.  A leader *)
(* runs two tasks: run_leader itself, which owns the lock, and             *)
(* run_leader_server, which owns the socket and may outlive the lock.      *)
(*                                                                         *)
(* Files are modelled as the kernel sees them: a path names an inode or    *)
(* nothing, a flock is on the inode a process opened, and an unlinked      *)
(* inode lives on while somebody has it open.  Opening, locking, reading,  *)
(* unlinking and binding are separate steps, so every process may be       *)
(* overtaken between them.  Time is left out: a deadline may pass at any   *)
(* moment, and a process may hang or die at any step.                      *)
(***************************************************************************)
EXTENDS Naturals, FiniteSets

CONSTANTS
    Clients,        \* processes that call connect_or_spawn, once each
    Leaders,        \* leader processes, by pid
    Prior,          \* the leaders that may run before the clients arrive
    Lockless,       \* those of a release that kept no lock: their pid is all they leave
    Older,          \* leaders of a release older than the clients'
    Legacy,         \* leaders that cannot be asked to relaunch
    Inodes,         \* inodes of lock files
    Guarded,        \* whether the machine-local acquire slot is usable
    MaxSelfSpawn,   \* MAX_SELF_SPAWN_ATTEMPTS
    MaxEvict,       \* MAX_ZOMBIE_EVICT_ATTEMPTS
    MaxLeaders,     \* bound: leader processes that are ever started
    MaxFaults,      \* bound: crashes, hangs and dropped calls
    None

ASSUME ElectionParameters ==
    /\ Clients \cap Leaders = {}
    /\ Prior \subseteq Leaders
    /\ Lockless \subseteq Prior
    /\ Older \subseteq Leaders
    /\ Legacy \subseteq Leaders
    /\ None \notin Clients \cup Leaders \cup Inodes
    /\ Inodes # {}
    /\ Guarded \in BOOLEAN
    /\ MaxSelfSpawn \in Nat
    /\ MaxEvict \in Nat
    /\ MaxLeaders \in Nat
    /\ MaxFaults \in Nat

Procs == Clients \cup Leaders

VARIABLES
    lockIno,    \* the inode the lock path names
    flock,      \* per inode, the process that holds its flock
    pidFile,    \* per inode, the pid written in it
    sock,       \* the leader whose socket the socket path names
    pc,         \* where each process is
    server,     \* where each leader's run_leader_server task is
    fd,         \* the inode each process has open
    mine,       \* the local variables of each client's call
    faults,     \* how many faults have happened
    raced       \* history: a lock file was unlinked while another process had it open

files == <<lockIno, flock, pidFile, sock>>
vars == <<files, pc, server, fd, mine, faults, raced>>

\* What a call starts with: the leader it deals with, the holder zombie_timer
\* times, evict_attempts, self_spawn_attempts and last_error of a wait.
Fresh == [peer |-> None, timer |-> None, evicted |-> None, evicts |-> 0,
          spawns |-> 0, lastErr |-> "none"]

\* Where a process is between opening the lock file and trying its flock.
Locking == {"flock", "flock1", "flock2"}

\* A call of connect_or_spawn that ended.
Ended == {"connected", "failed", "gone"}

\* Where a client's LeaderLock has was_leader set and is not being dropped.
ClientHolds == {"held", "grace"}

\* Where a leader has its lock, up to the first unlink of its Drop.
LeaderHolds == {"won", "clean", "run", "quit", "drop"}

\* Where the server accepts clients and registers them.
Answering == {"serving", "draining"}

\* Where the socket takes connections and nobody registers them: the server
\* hangs, or its loop is over and the finalizers run.
Silent == {"mute", "ending"}

ServerSteps == {"off", "clear", "bind"} \cup Answering \cup Silent

ClientSteps ==
    {"idle", "open", "flock", "spawn", "await", "wait", "vacate", "kill"}
        \cup ClientHolds \cup {"drop", "dropSock"} \cup Ended

LeaderSteps ==
    {"unborn", "open1", "flock1", "lost", "open2", "flock2"}
        \cup LeaderHolds \cup {"dropSock", "exit", "dead"}

Alive(l) == pc[l] \notin {"unborn", "dead"}

\* read_pid: what the file at the lock path says.
ReadPid == IF lockIno = None THEN None ELSE pidFile[lockIno]

\* connect_to_leader would succeed: the socket path leads to a leader that
\* accepts and registers clients.
Answers == sock # None /\ server[sock] \in Answering

\* What connect_to_leader returns otherwise: the socket refuses, or it takes
\* the connection and never registers the client.
Refusal == IF server[sock] \in Silent THEN "silent" ELSE "refused"

\* live_grok_lock_holder: the pid in the file, if it is the confirmed holder
\* of the flock on that file.
Holder == IF lockIno # None /\ flock[lockIno] = pidFile[lockIno] THEN pidFile[lockIno] ELSE None

-----------------------------------------------------------------------------
(* Opening and locking the lock file, for clients and leaders. *)

Goto(p, step) == pc' = [pc EXCEPT ![p] = step]

Fault == faults < MaxFaults /\ faults' = faults + 1

\* Client c goes to a step with its local variables as given; they end with
\* its call.
Goes(c, step, local) ==
    /\ Goto(c, step)
    /\ mine' = [mine EXCEPT ![c] = IF step \in Ended THEN Fresh ELSE local]

\* What the death of a set of processes does to their files.
Closed(S) ==
    /\ fd' = [p \in Procs |-> IF p \in S THEN None ELSE fd[p]]
    /\ flock' = [i \in Inodes |-> IF flock[i] \in S THEN None ELSE flock[i]]

\* They take their servers with them; a socket stays where it is.
Killed(S) ==
    /\ Closed(S)
    /\ server' = [l \in Leaders |-> IF l \in S THEN "off" ELSE server[l]]

FreeInodes == {i \in Inodes : i # lockIno /\ flock[i] = None /\ \A p \in Procs : fd[p] # i}

SlotFree == Guarded => \A p \in Procs : pc[p] \notin Locking

\* open_target behind the acquire slot: opens the file the path names, or
\* creates it.
Opens(p, from, to) ==
    /\ pc[p] = from
    /\ SlotFree
    /\ IF lockIno # None
         THEN /\ fd' = [fd EXCEPT ![p] = lockIno]
              /\ UNCHANGED <<lockIno, pidFile>>
         ELSE /\ FreeInodes # {}
              /\ LET i == CHOOSE i \in FreeInodes : TRUE
                 IN  /\ fd' = [fd EXCEPT ![p] = i]
                     /\ lockIno' = i
                     /\ pidFile' = [pidFile EXCEPT ![i] = None]
    /\ Goto(p, to)
    /\ UNCHANGED <<flock, sock, server, mine, faults, raced>>

\* Faulty variant: whoever takes the lock records its pid, a client too.
LocksRecordingPid(p, from, to) ==
    /\ pc[p] = from
    /\ flock[fd[p]] = None
    /\ flock' = [flock EXCEPT ![fd[p]] = p]
    /\ pidFile' = [pidFile EXCEPT ![fd[p]] = p]
    /\ Goto(p, to)
    /\ UNCHANGED <<lockIno, sock, server, fd, mine, faults, raced>>

\* try_lock succeeds on the inode that was opened, whatever the path names now.
Locks(p, from, to) ==
    /\ pc[p] = from
    /\ flock[fd[p]] = None
    /\ flock' = [flock EXCEPT ![fd[p]] = p]
    /\ Goto(p, to)
    /\ UNCHANGED <<lockIno, pidFile, sock, server, fd, mine, faults, raced>>

\* try_lock finds another holder; the file is closed.
Contends(p, from, to) ==
    /\ pc[p] = from
    /\ flock[fd[p]] # None
    /\ fd' = [fd EXCEPT ![p] = None]
    /\ Goto(p, to)
    /\ UNCHANGED <<files, server, mine, faults, raced>>

\* Drop of a LeaderLock that was not released: unlink the lock path, then
\* unlink the socket path and close the lock file.  Whatever the paths name by
\* then.  The pid goes with the path: nobody reads an unlinked file.
DropLock(p) ==
    /\ pc[p] = "drop"
    /\ lockIno' = None
    /\ pidFile' = [i \in Inodes |-> IF i = lockIno THEN None ELSE pidFile[i]]
    /\ raced' = (raced \/ \E q \in Procs \ {p} : lockIno # None /\ fd[q] = lockIno)
    /\ Goto(p, "dropSock")
    /\ UNCHANGED <<flock, sock, server, fd, mine, faults>>

DropSock(p) ==
    /\ pc[p] = "dropSock"
    /\ sock' = None
    /\ Closed({p})
    /\ Goto(p, IF p \in Clients THEN "gone" ELSE "exit")
    /\ UNCHANGED <<lockIno, pidFile, server, mine, faults, raced>>

-----------------------------------------------------------------------------
(* connect_or_spawn *)

\* The fast path: dial an existing socket unless the recorded pid is dead, and
\* take the leader unless it is older.
Call(c) ==
    /\ pc[c] = "idle"
    /\ Goto(c, IF Answers /\ (ReadPid # None => Alive(ReadPid)) /\ sock \notin Older
                 THEN "connected" ELSE "open")
    /\ UNCHANGED <<files, server, fd, mine, faults, raced>>

\* AcquireInProgress: another process keeps the slot for the whole grace.
Declines(c) ==
    /\ pc[c] = "open"
    /\ ~SlotFree
    /\ Goes(c, "failed", Fresh)
    /\ UNCHANGED <<files, server, fd, faults, raced>>

\* With the lock held: a live leader answers although it does not hold the lock.
Reached == Answers /\ ReadPid # None /\ Alive(ReadPid)

HeldAdopt(c) ==
    /\ pc[c] = "held"
    /\ Reached /\ sock \notin Older
    /\ Closed({c})
    /\ Goes(c, "connected", Fresh)
    /\ UNCHANGED <<lockIno, pidFile, sock, server, faults, raced>>

\* No such leader: the lock is released, was_leader first, before a leader is
\* spawned.
HeldSpawn(c) ==
    /\ pc[c] = "held"
    /\ ~Reached
    /\ Closed({c})
    /\ Goto(c, "spawn")
    /\ UNCHANGED <<lockIno, pidFile, sock, server, mine, faults, raced>>

\* request_leader_vacate of leader l by client c, which goes on to step: ask l
\* to relaunch, which a leader that drains already declines, or signal the pid
\* in the lock file.
VacateHeeded(c, l, step) ==
    /\ IF l \notin Legacy
         THEN /\ server' = [server EXCEPT ![l] = IF @ = "serving" THEN "draining" ELSE @]
              /\ Goto(c, step)
              /\ UNCHANGED <<fd, flock>>
         ELSE LET victims == {m \in Leaders : m = ReadPid /\ Alive(m)}
              IN  /\ pc' = [p \in Procs |-> IF p = c THEN step
                                             ELSE IF p \in victims THEN "dead" ELSE pc[p]]
                  /\ Killed(victims)
    /\ UNCHANGED faults

\* The request or the signal fails, which the caller does not learn.
VacateFails(c, step) ==
    /\ Goto(c, step)
    /\ Fault
    /\ UNCHANGED <<server, fd, flock>>

Vacate(c, l, step) == VacateHeeded(c, l, step) \/ VacateFails(c, step)

\* evict_leader, up to its wait for the recorded pid.
HeldEvict(c) ==
    /\ pc[c] = "held"
    /\ Reached /\ sock \in Older
    /\ Vacate(c, sock, "grace")
    /\ mine' = [mine EXCEPT ![c].peer = ReadPid]
    /\ UNCHANGED <<lockIno, pidFile, sock, raced>>

\* Client c signals its peer, closes the files of S and goes on; the signal may
\* fail.
Signals(c, S, from, to) ==
    /\ pc[c] = from
    /\ LET victims == {l \in Leaders : l = mine[c].peer /\ Alive(l)}
       IN  \/ /\ pc' = [p \in Procs |-> IF p = c THEN to
                                          ELSE IF p \in victims THEN "dead" ELSE pc[p]]
             /\ Killed(S \cup victims)
             /\ UNCHANGED faults
          \/ /\ victims # {}
             /\ Goto(c, to)
             /\ Closed(S)
             /\ Fault
             /\ UNCHANGED server
    /\ mine' = [mine EXCEPT ![c].peer = None]
    /\ UNCHANGED <<lockIno, pidFile, sock, raced>>

\* The grace of evict_leader ends: the pid is gone, or it is signalled again;
\* then the lock is released.
Graced(c) == Signals(c, {c}, "grace", "spawn")

Started == {l \in Leaders : pc[l] # "unborn"}

Unborn == {l \in Leaders \ Prior : pc[l] = "unborn"}

\* spawn_leader_subprocess, then wait_for_socket_connectable.
Spawn(c) ==
    /\ pc[c] = "spawn"
    /\ Unborn # {} /\ Cardinality(Started) < MaxLeaders
    /\ LET l == CHOOSE l \in Unborn : TRUE
       IN  pc' = [pc EXCEPT ![c] = "await", ![l] = "open1"]
    /\ UNCHANGED <<files, server, fd, mine, faults, raced>>

SpawnFails(c) ==
    /\ pc[c] = "spawn"
    /\ Goes(c, "failed", Fresh)
    /\ UNCHANGED <<files, server, fd, faults, raced>>

\* An attempt of wait_for_socket_connectable fails.
Refused(c) ==
    /\ pc[c] \in {"await", "wait"}
    /\ sock # None /\ ~Answers
    /\ mine' = [mine EXCEPT ![c].lastErr = Refusal]
    /\ UNCHANGED <<files, pc, server, fd, faults, raced>>

\* An attempt succeeds: a spawner takes the leader as it is, a waiter first
\* asks an older one to vacate.
Reaches(c) ==
    /\ pc[c] \in {"await", "wait"}
    /\ Answers
    /\ Goes(c, IF pc[c] = "wait" /\ sock \in Older THEN "vacate" ELSE "connected",
            [mine[c] EXCEPT !.peer = sock, !.timer = None, !.lastErr = "none"])
    /\ UNCHANGED <<files, server, fd, faults, raced>>

Vacates(c) ==
    /\ pc[c] = "vacate"
    /\ Vacate(c, mine[c].peer, "open")
    /\ mine' = [mine EXCEPT ![c].peer = None]
    /\ UNCHANGED <<lockIno, pidFile, sock, raced>>

\* The wait for the spawned leader times out.
AwaitEnds(c) ==
    /\ pc[c] = "await"
    /\ Goes(c, IF mine[c].lastErr = "none" /\ mine[c].spawns + 1 < MaxSelfSpawn
                 THEN "open" ELSE "failed",
            [mine[c] EXCEPT !.spawns = @ + 1])
    /\ UNCHANGED <<files, server, fd, faults, raced>>

\* The wait behind another holder ends with an answer that is no connection.
WaitFails(c) ==
    /\ pc[c] = "wait"
    /\ mine[c].lastErr = "silent"
    /\ Goes(c, "failed", Fresh)
    /\ UNCHANGED <<files, server, fd, faults, raced>>

\* Faulty variant: every round starts the timer anew.
WaitUntimed(c) ==
    /\ pc[c] = "wait"
    /\ mine[c].lastErr # "silent"
    /\ Goes(c, "open", [mine[c] EXCEPT !.timer = None, !.lastErr = "none"])
    /\ UNCHANGED <<files, server, fd, faults, raced>>

\* It times out; zombie_evict_decision: no candidate, or the timer runs.
WaitAgain(c) ==
    /\ pc[c] = "wait"
    /\ mine[c].lastErr # "silent"
    /\ Goes(c, "open", [mine[c] EXCEPT !.timer = Holder, !.lastErr = "none"])
    /\ UNCHANGED <<files, server, fd, faults, raced>>

\* register_evict_attempt
Attempts(c) == IF mine[c].evicted = Holder THEN mine[c].evicts + 1 ELSE 1

\* zombie_evict_decision: the holder being timed is due.
ZombieDue(c) ==
    /\ pc[c] = "wait"
    /\ mine[c].lastErr # "silent"
    /\ Holder # None /\ mine[c].timer = Holder
    /\ Goes(c, IF Attempts(c) <= MaxEvict THEN "kill" ELSE "failed",
            [mine[c] EXCEPT !.timer = None, !.lastErr = "none", !.peer = Holder,
                            !.evicted = Holder, !.evicts = Attempts(c)])
    /\ UNCHANGED <<files, server, fd, faults, raced>>

\* evict_zombie_leader
Kill(c) == Signals(c, {}, "kill", "open")

ClientStep(c) ==
    \/ Opens(c, "open", "flock") \/ Declines(c)
    \/ Locks(c, "flock", "held") \/ Contends(c, "flock", "wait")
    \/ HeldAdopt(c) \/ HeldEvict(c) \/ HeldSpawn(c)
    \/ Graced(c)
    \/ Spawn(c) \/ SpawnFails(c)
    \/ Refused(c) \/ Reaches(c) \/ Vacates(c)
    \/ AwaitEnds(c) \/ WaitFails(c) \/ WaitAgain(c) \/ ZombieDue(c) \/ Kill(c)
    \/ DropLock(c) \/ DropSock(c)

-----------------------------------------------------------------------------
(* run_leader *)

\* Faulty variant: the loser takes the lock file for a stale one and removes it.
LosesBreakingLock(l) ==
    /\ pc[l] = "lost"
    /\ Goto(l, IF sock # None THEN "dead" ELSE "open2")
    /\ lockIno' = IF sock # None THEN lockIno ELSE None
    /\ UNCHANGED <<flock, pidFile, sock, server, fd, mine, faults, raced>>

\* Contention at first: leave if a socket is bound, else keep trying.
Loses(l) ==
    /\ pc[l] = "lost"
    /\ Goto(l, IF sock # None THEN "dead" ELSE "open2")
    /\ UNCHANGED <<files, server, fd, mine, faults, raced>>

\* acquire_reopen_timeout runs out, or the slot is kept for the whole grace.
Leaves(l) ==
    /\ pc[l] = "open2" \/ (pc[l] = "open1" /\ ~SlotFree)
    /\ Goto(l, "dead")
    /\ UNCHANGED <<files, server, fd, mine, faults, raced>>

WritePid(l) ==
    /\ pc[l] = "won"
    /\ pidFile' = [pidFile EXCEPT ![fd[l]] = l]
    /\ Goto(l, "clean")
    /\ UNCHANGED <<lockIno, flock, sock, server, fd, mine, faults, raced>>

\* cleanup_socket, then the server task is spawned.
CleanSocket(l) ==
    /\ pc[l] = "clean"
    /\ sock' = None
    /\ Goto(l, "run")
    /\ server' = [server EXCEPT ![l] = "clear"]
    /\ UNCHANGED <<lockIno, flock, pidFile, fd, mine, faults, raced>>

\* A task of leader l cancels the token that its server and run_leader share:
\* spawn_relaunch_drain, whose grace and flush are bounded.
DrainEnds(l) ==
    /\ pc[l] = "run"
    /\ server[l] = "draining"
    /\ Goto(l, "quit")
    /\ UNCHANGED <<files, server, fd, mine, faults, raced>>

\* The server's end or the token ends run_leader's wait; it does not await the
\* server when it sees the token.  Uploads are drained, and it returns.
Returns(l) ==
    /\ pc[l] = "quit" \/ (pc[l] = "run" /\ server[l] = "off")
    /\ Goto(l, "drop")
    /\ UNCHANGED <<files, server, fd, mine, faults, raced>>

\* The runtime is shut down with whatever the server task has left to do.
Exits(l) ==
    /\ pc[l] = "exit"
    /\ Goto(l, "dead")
    /\ server' = [server EXCEPT ![l] = "off"]
    /\ UNCHANGED <<files, fd, mine, faults, raced>>

-----------------------------------------------------------------------------
(* run_leader_server *)

Serves(l, step) ==
    /\ server' = [server EXCEPT ![l] = step]
    /\ UNCHANGED <<lockIno, flock, pidFile, pc, fd, mine, raced>>

\* The server's own removal of a stale socket.
ServerClears(l) ==
    /\ server[l] = "clear"
    /\ sock' = None
    /\ Serves(l, "bind")
    /\ UNCHANGED faults

\* The bind fails on a path that exists.
Binds(l) ==
    /\ server[l] = "bind"
    /\ IF sock = None THEN sock' = l /\ Serves(l, "serving")
                      ELSE UNCHANGED sock /\ Serves(l, "off")
    /\ UNCHANGED faults

\* The accept loop sees the cancelled token: cancelled by a drain or an update,
\* or by the guard that run_leader drops when it returns.
ServerEnds(l) ==
    /\ server[l] \in Answering
    /\ pc[l] \in {"quit", "drop", "dropSock", "exit"}
    /\ Serves(l, "ending")
    /\ UNCHANGED <<sock, faults>>

\* After the finalizers the socket path is unlinked, whatever it names by then.
ServerUnlinks(l) ==
    /\ server[l] = "ending"
    /\ sock' = None
    /\ Serves(l, "off")
    /\ UNCHANGED faults

ServerStep(l) == ServerClears(l) \/ Binds(l) \/ ServerEnds(l) \/ ServerUnlinks(l)

LeaderStep(l) ==
    \/ Opens(l, "open1", "flock1")
    \/ Locks(l, "flock1", "won") \/ Contends(l, "flock1", "lost")
    \/ Loses(l)
    \/ Opens(l, "open2", "flock2") \/ Leaves(l)
    \/ Locks(l, "flock2", "won") \/ Contends(l, "flock2", "open2")
    \/ WritePid(l) \/ CleanSocket(l)
    \/ DrainEnds(l) \/ Returns(l)
    \/ DropLock(l) \/ DropSock(l) \/ Exits(l)

-----------------------------------------------------------------------------
(* Faults. *)

\* A process dies without unwinding (a signal, an abort): the kernel closes
\* its files, the paths stay.
Crash(p) ==
    /\ pc[p] \notin Ended \cup {"idle", "unborn", "dead"}
    /\ Killed({p})
    /\ Goto(p, IF p \in Clients THEN "gone" ELSE "dead")
    /\ mine' = [c \in Clients |-> IF c = p THEN Fresh ELSE mine[c]]
    /\ Fault
    /\ UNCHANGED <<lockIno, pidFile, sock, raced>>

\* The caller drops the call: a LeaderLock that holds the lock cleans up.  With
\* the lock the call awaits only the connection to a live leader, and its exit.
Quits(c) ==
    /\ pc[c] \notin Ended \cup {"idle", "drop", "dropSock"}
    /\ pc[c] = "held" => sock # None /\ ReadPid # None /\ Alive(ReadPid)
    /\ IF pc[c] \in ClientHolds
         THEN Goto(c, "drop") /\ UNCHANGED <<fd, flock>>
         ELSE Goto(c, "gone") /\ Closed({c})
    /\ mine' = [mine EXCEPT ![c] = Fresh]
    /\ Fault
    /\ UNCHANGED <<lockIno, pidFile, sock, server, raced>>

\* An error of run_leader, before or after its server listens: it returns and
\* drops the lock.
StartFails(l) ==
    /\ pc[l] \in {"won", "clean", "run"}
    /\ Goto(l, "drop")
    /\ Fault
    /\ UNCHANGED <<files, server, fd, mine, raced>>

\* The auto-update checker cancels the token.
Updates(l) ==
    /\ pc[l] = "run"
    /\ server[l] \in Answering
    /\ Goto(l, "quit")
    /\ Fault
    /\ UNCHANGED <<files, server, fd, mine, raced>>

\* The last client disconnects and the server's loop ends.
LastLeaves(l) == server[l] \in Answering /\ Serves(l, "ending") /\ Fault /\ UNCHANGED sock

\* The server stops answering but the process lives on.
Hangs(l) == server[l] \in Answering /\ Serves(l, "mute") /\ Fault /\ UNCHANGED sock

-----------------------------------------------------------------------------
\* No leader runs, or one of an earlier call serves.
Init ==
    \E first \in Prior \cup {None} :
    LET i      == CHOOSE i \in Inodes : TRUE
        locked == first \notin Lockless \cup {None}
    IN  /\ lockIno = IF first = None THEN None ELSE i
        /\ flock = [j \in Inodes |-> IF j = i /\ locked THEN first ELSE None]
        /\ pidFile = [j \in Inodes |-> IF j = i THEN first ELSE None]
        /\ sock = first
        /\ pc = [p \in Procs |-> IF p \in Clients THEN "idle"
                                 ELSE IF p = first THEN "run" ELSE "unborn"]
        /\ server = [l \in Leaders |-> IF l = first THEN "serving" ELSE "off"]
        /\ fd = [p \in Procs |-> IF p = first /\ locked THEN i ELSE None]
        /\ mine = [c \in Clients |-> Fresh]
        /\ faults = 0
        /\ raced = FALSE

Next ==
    \/ \E c \in Clients : Call(c) \/ ClientStep(c) \/ Quits(c)
    \/ \E l \in Leaders : \/ LeaderStep(l) \/ ServerStep(l)
                            \/ StartFails(l) \/ Updates(l) \/ LastLeaves(l) \/ Hangs(l)
    \/ \E p \in Procs : Crash(p)

Spec == Init /\ [][Next]_vars

\* A client's call is scheduled and its deadlines pass.  Leaders may hang at
\* any step but four that wait for nobody: the pid is written, the drain is
\* bounded, the accept loop sees a cancelled token, and a lock that is dropped
\* is unlinked.
Fairness ==
    /\ \A c \in Clients : WF_vars(ClientStep(c)) /\ SF_vars(ZombieDue(c))
    /\ \A l \in Leaders : WF_vars(WritePid(l) \/ DrainEnds(l) \/ ServerEnds(l) \/ DropLock(l))

FairSpec == Spec /\ Fairness

-----------------------------------------------------------------------------
(* Properties. *)

\* The shape of the files, of the processes and of what a client remembers.
TypeOK ==
    /\ lockIno \in Inodes \cup {None}
    /\ flock \in [Inodes -> Procs \cup {None}]
    /\ pidFile \in [Inodes -> Leaders \cup {None}]
    /\ sock \in Leaders \cup {None}
    /\ pc \in [Procs -> ClientSteps \cup LeaderSteps]
    /\ \A c \in Clients : pc[c] \in ClientSteps
    /\ \A l \in Leaders : pc[l] \in LeaderSteps
    /\ server \in [Leaders -> ServerSteps]
    /\ fd \in [Procs -> Inodes \cup {None}]
    /\ mine \in [Clients -> [peer : Leaders \cup {None}, timer : Leaders \cup {None},
                             evicted : Leaders \cup {None}, evicts : Nat, spawns : Nat,
                             lastErr : {"none", "silent", "refused"}]]
    /\ faults \in Nat
    /\ raced \in BOOLEAN

\* Leaders that took the lock and have not begun to give it up.
Leading == {l \in Leaders : pc[l] \in LeaderHolds /\ fd[l] # None}

\* No second leader can acquire the lock while the leader is alive (lock.rs:666).
SingleLeader == \A l, m \in Leading : l = m

\* What the code keeps of it, through crashes, handoffs, evictions and unlinked
\* files: there is one leader unless a lock file was unlinked while another
\* process had it open.
OneLeader == raced \/ SingleLeader

\* Every call of connect_or_spawn returns, whatever leaders and other clients
\* do, and although a server or a dropped lock that comes late may unlink the
\* socket of the next leader: again and again there is a moment when no call is
\* under way.
ClientsReturn == []<>(\A c \in Clients : pc[c] \in Ended \cup {"idle"})
=============================================================================
