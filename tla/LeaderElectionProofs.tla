------------------------ MODULE LeaderElectionProofs ------------------------
(***************************************************************************)
(* Proofs about LeaderElection for any number of clients, leaders and      *)
(* faults: the type invariant, and that there is at most one leader as     *)
(* long as no lock file is unlinked while another process has it open.     *)
(***************************************************************************)
EXTENDS LeaderElection, TLAPS

-----------------------------------------------------------------------------
(* The inductive invariant. *)

\* Where a process holds the lock, until its Drop has unlinked the path.
Owning == ClientHolds \cup LeaderHolds

\* Where a process may have the lock file open at all.
Opening == Locking \cup Owning \cup {"dropSock"}

\* A flock is on an inode that its holder has open, and its holder is past
\* try_lock.
HolderHasOpen ==
    \A i \in Inodes : flock[i] # None => /\ fd[flock[i]] = i
                                         /\ pc[flock[i]] \in Owning \cup {"dropSock"}

\* A file is open between open_target and the close.
OpenWhileUsed ==
    \A p \in Procs : /\ pc[p] \in Locking => fd[p] # None
                     /\ fd[p] # None => pc[p] \in Opening

\* Whoever is past try_lock with a file open holds its flock.
OpenMeansHeld ==
    \A p \in Procs : (pc[p] \in Owning \cup {"dropSock"} /\ fd[p] # None) => flock[fd[p]] = p

\* As long as no lock file was unlinked under another process, everybody who
\* locks or owns has opened the file the path names.
SameFile ==
    raced \/ \A p \in Procs : (pc[p] \in Locking \cup Owning /\ fd[p] # None) => fd[p] = lockIno

Core == HolderHasOpen /\ OpenWhileUsed /\ OpenMeansHeld /\ SameFile

-----------------------------------------------------------------------------
(* The parts of the type invariant. *)

Local == [peer : Leaders \cup {None}, timer : Leaders \cup {None},
          evicted : Leaders \cup {None}, evicts : Nat, spawns : Nat,
          lastErr : {"none", "silent", "refused"}]

FilesOK ==
    /\ lockIno \in Inodes \cup {None}
    /\ flock \in [Inodes -> Procs \cup {None}]
    /\ pidFile \in [Inodes -> Leaders \cup {None}]
    /\ sock \in Leaders \cup {None}
    /\ fd \in [Procs -> Inodes \cup {None}]

StepsOK ==
    /\ pc \in [Procs -> ClientSteps \cup LeaderSteps]
    /\ \A c \in Clients : pc[c] \in ClientSteps
    /\ \A l \in Leaders : pc[l] \in LeaderSteps

ServerOK == server \in [Leaders -> ServerSteps]

LocalsOK == mine \in [Clients -> Local]

HistoryOK == faults \in Nat /\ raced \in BOOLEAN

\* The type invariant is the conjunction of its parts.
LEMMA TypeParts ==
    TypeOK <=> FilesOK /\ StepsOK /\ ServerOK /\ LocalsOK /\ HistoryOK
  BY DEF TypeOK, FilesOK, StepsOK, ServerOK, LocalsOK, HistoryOK, Local

\* No client is a leader, and nothing absent is a process or an inode.
LEMMA Distinct ==
    /\ None \notin Procs /\ None \notin Inodes
    /\ Clients \subseteq Procs /\ Leaders \subseteq Procs
    /\ Clients \cap Leaders = {} /\ None \notin Leaders /\ None \notin Clients
    /\ \A p \in Procs : p \in Clients \/ p \in Leaders
  BY ElectionParameters DEF Procs

\* A client that starts afresh.
LEMMA FreshTyped == Fresh \in Local
  BY DEF Fresh, Local

\* Changing one local variable keeps the record typed.
LEMMA FieldTyped ==
    ASSUME NEW r \in Local
    PROVE  /\ \A l \in Leaders \cup {None} : /\ [r EXCEPT !.peer = l] \in Local
                                             /\ [r EXCEPT !.timer = l] \in Local
                                             /\ [r EXCEPT !.evicted = l] \in Local
           /\ \A n \in Nat : [r EXCEPT !.evicts = n] \in Local /\ [r EXCEPT !.spawns = n] \in Local
           /\ \A e \in {"none", "silent", "refused"} : [r EXCEPT !.lastErr = e] \in Local
  BY DEF Local

\* The fields of a client's local variables.
LEMMA LocalFields ==
    ASSUME LocalsOK, NEW c \in Clients
    PROVE  /\ mine[c] \in Local
           /\ mine[c].peer \in Leaders \cup {None} /\ mine[c].timer \in Leaders \cup {None}
           /\ mine[c].evicted \in Leaders \cup {None}
           /\ mine[c].evicts \in Nat /\ mine[c].spawns \in Nat
  BY DEF LocalsOK, Local

\* Setting the peer of one client.
LEMMA PeerTyped ==
    ASSUME LocalsOK, NEW c \in Clients, NEW l \in Leaders \cup {None},
           mine' = [mine EXCEPT ![c].peer = l]
    PROVE  LocalsOK'
<1>1. [mine[c] EXCEPT !.peer = l] \in Local
  BY LocalFields, FieldTyped
<1> QED
  BY <1>1 DEF LocalsOK

\* Replacing the local variables of one client, or ending its call.
LEMMA GoesTyped ==
    ASSUME LocalsOK, StepsOK, NEW c \in Clients, NEW local \in Local,
           NEW step \in ClientSteps, Goes(c, step, local)
    PROVE  LocalsOK' /\ StepsOK'
<1>1. mine' = [mine EXCEPT ![c] = IF step \in Ended THEN Fresh ELSE local] /\ pc' = [pc EXCEPT ![c] = step]
  BY DEF Goes, Goto
<1>2. (IF step \in Ended THEN Fresh ELSE local) \in Local
  BY FreshTyped
<1> QED
  BY <1>1, <1>2, Distinct DEF LocalsOK, StepsOK

\* One process moves.
LEMMA GotoTyped ==
    ASSUME StepsOK, NEW p \in Procs, NEW step, Goto(p, step),
           p \in Clients => step \in ClientSteps,
           p \in Leaders => step \in LeaderSteps
    PROVE  StepsOK'
<1>1. pc' = [pc EXCEPT ![p] = step] /\ step \in ClientSteps \cup LeaderSteps
  BY Distinct DEF Goto
<1> QED
  BY <1>1, Distinct DEF StepsOK

\* Closing the files of some processes.
LEMMA ClosedTyped ==
    ASSUME FilesOK, NEW S, Closed(S)
    PROVE  /\ fd' \in [Procs -> Inodes \cup {None}]
           /\ flock' \in [Inodes -> Procs \cup {None}]
  BY DEF FilesOK, Closed

-----------------------------------------------------------------------------
(* Moves that keep the rest of the invariant. *)

\* A process that stays an owner, or stays clear of the lock file.
LEMMA GotoKeepsCore ==
    ASSUME FilesOK, StepsOK, Core, NEW p \in Procs, NEW step, Goto(p, step),
           UNCHANGED <<lockIno, flock, fd, raced>>,
           \/ pc[p] \in Owning /\ step \in Owning
           \/ pc[p] \notin Opening /\ step \notin Opening
    PROVE  Core'
<1>1. /\ pc'[p] = step
      /\ \A q \in Procs : q # p => pc'[q] = pc[q]
  BY DEF Goto, StepsOK
<1>2. \A q \in Procs : /\ pc'[q] \in Locking <=> pc[q] \in Locking
                       /\ pc'[q] \in Owning <=> pc[q] \in Owning
                       /\ pc'[q] \in Opening <=> pc[q] \in Opening
                       /\ pc'[q] \in Owning \cup {"dropSock"} <=> pc[q] \in Owning \cup {"dropSock"}
  BY <1>1 DEF Opening, Locking, Owning, ClientHolds, LeaderHolds
<1>3. HolderHasOpen'
  BY <1>2, Distinct DEF Core, HolderHasOpen, FilesOK
<1>4. OpenWhileUsed'
  BY <1>2 DEF Core, OpenWhileUsed
<1>5. OpenMeansHeld'
  BY <1>2 DEF Core, OpenMeansHeld
<1>6. SameFile'
  BY <1>2 DEF Core, SameFile
<1> QED
  BY <1>3, <1>4, <1>5, <1>6 DEF Core

\* Some processes close their files and are then clear of the lock file; of
\* the others each stays an owner or stays put.
LEMMA ClosedKeepsCore ==
    ASSUME FilesOK, StepsOK, Core, NEW S, Closed(S), StepsOK',
           UNCHANGED <<lockIno, raced>>,
           \A p \in S : p \in Procs => pc'[p] \notin Opening,
           \A p \in Procs : p \notin S => \/ pc'[p] = pc[p]
                                          \/ pc[p] \in Owning /\ pc'[p] \in Owning
                                          \/ pc[p] \notin Opening /\ pc'[p] \notin Opening
    PROVE  Core'
<1>1. /\ \A p \in Procs : fd'[p] = IF p \in S THEN None ELSE fd[p]
      /\ \A i \in Inodes : flock'[i] = IF flock[i] \in S THEN None ELSE flock[i]
  BY DEF Closed
<1>2. \A q \in Procs : q \notin S =>
                       /\ pc'[q] \in Locking <=> pc[q] \in Locking
                       /\ pc'[q] \in Owning <=> pc[q] \in Owning
                       /\ pc'[q] \in Opening <=> pc[q] \in Opening
                       /\ pc'[q] \in Owning \cup {"dropSock"} <=> pc[q] \in Owning \cup {"dropSock"}
  BY DEF Opening, Locking, Owning, ClientHolds, LeaderHolds
<1>3. HolderHasOpen'
  <2> SUFFICES ASSUME NEW i \in Inodes, flock'[i] # None
               PROVE  fd'[flock'[i]] = i /\ pc'[flock'[i]] \in Owning \cup {"dropSock"}
    BY DEF HolderHasOpen
  <2>1. flock'[i] = flock[i] /\ flock[i] \notin S /\ flock[i] # None /\ flock[i] \in Procs
    BY <1>1 DEF FilesOK
  <2> QED
    BY <1>1, <1>2, <2>1 DEF Core, HolderHasOpen
<1>4. OpenWhileUsed'
  BY <1>1, <1>2 DEF Core, OpenWhileUsed, Opening
<1>5. OpenMeansHeld'
  <2> SUFFICES ASSUME NEW p \in Procs, pc'[p] \in Owning \cup {"dropSock"}, fd'[p] # None
               PROVE  flock'[fd'[p]] = p
    BY DEF OpenMeansHeld
  <2>1. p \notin S /\ fd'[p] = fd[p] /\ fd[p] \in Inodes
    BY <1>1 DEF FilesOK
  <2> QED
    BY <1>1, <1>2, <2>1 DEF Core, OpenMeansHeld
<1>6. SameFile'
  BY <1>1, <1>2 DEF Core, SameFile
<1> QED
  BY <1>3, <1>4, <1>5, <1>6 DEF Core

\* The server tasks do not matter to the lock; their steps are typed apart.
IInv == FilesOK /\ StepsOK /\ LocalsOK /\ HistoryOK /\ Core

\* The parts of the invariant that an action's proof starts from.
LEMMA Parts ==
    IInv => FilesOK /\ StepsOK /\ LocalsOK /\ HistoryOK /\ Core
  BY DEF IInv

\* The invariant after a step from its parts after it.
LEMMA Whole ==
    ASSUME FilesOK', StepsOK', LocalsOK', HistoryOK', Core'
    PROVE  IInv'
  BY DEF IInv

\* A fault is counted.
LEMMA FaultTyped ==
    ASSUME HistoryOK, Fault, UNCHANGED raced
    PROVE  HistoryOK'
  BY DEF HistoryOK, Fault

-----------------------------------------------------------------------------
(* Opening, locking and dropping the lock. *)

\* Opens keeps the invariant: the file that is opened is the one the path
\* names, or becomes it.
LEMMA OpensKeeps ==
    ASSUME IInv, NEW p \in Procs, NEW from, NEW to, Opens(p, from, to),
           from \notin Opening, to \in Locking,
           p \in Clients => to \in ClientSteps, p \in Leaders => to \in LeaderSteps
    PROVE  IInv'
<1> USE Parts
<1>1. /\ pc[p] = from /\ Goto(p, to)
      /\ UNCHANGED <<flock, sock, mine, faults, raced>>
  BY DEF Opens
<1>2. PICK i \in Inodes : /\ fd' = [fd EXCEPT ![p] = i]
                          /\ lockIno' = i
                          /\ lockIno # None => lockIno = i
                          /\ pidFile' \in [Inodes -> Leaders \cup {None}]
  <2>1. CASE lockIno # None
    <3>1. fd' = [fd EXCEPT ![p] = lockIno] /\ UNCHANGED <<lockIno, pidFile>>
      BY <2>1 DEF Opens
    <3> QED
      BY <2>1, <3>1 DEF FilesOK
  <2>2. CASE lockIno = None
    <3> DEFINE i == CHOOSE j \in FreeInodes : TRUE
    <3>1. FreeInodes # {} /\ fd' = [fd EXCEPT ![p] = i] /\ lockIno' = i /\ pidFile' = [pidFile EXCEPT ![i] = None]
      BY <2>2 DEF Opens
    <3>2. i \in FreeInodes
      BY <3>1
    <3>3. i \in Inodes
      BY <3>2 DEF FreeInodes
    <3> HIDE DEF i
    <3> QED
      BY <2>2, <3>1, <3>3 DEF FilesOK
  <2> QED
    BY <2>1, <2>2
<1>3. StepsOK'
  BY <1>1, GotoTyped
<1>4. /\ pc'[p] = to /\ fd'[p] = i /\ i # None
      /\ \A q \in Procs : q # p => pc'[q] = pc[q] /\ fd'[q] = fd[q]
  BY <1>1, <1>2, Distinct DEF Goto, StepsOK, FilesOK
<1>5. fd[p] = None
  BY <1>1 DEF Core, OpenWhileUsed
<1>6. to \notin Owning \cup {"dropSock"}
  BY DEF Locking, Owning, ClientHolds, LeaderHolds
<1>7. HolderHasOpen'
  BY <1>1, <1>4, <1>5, Distinct DEF Core, HolderHasOpen, FilesOK
<1>8. OpenWhileUsed'
  BY <1>4 DEF Core, OpenWhileUsed, Opening
<1>9. OpenMeansHeld'
  BY <1>1, <1>4, <1>6 DEF Core, OpenMeansHeld
<1>10. SameFile'
  BY <1>1, <1>2, <1>4, <1>5, Distinct DEF Core, SameFile, FilesOK
<1>12. FilesOK' /\ LocalsOK' /\ HistoryOK'
  BY <1>1, <1>2 DEF FilesOK, LocalsOK, HistoryOK
<1> QED
  BY <1>3, <1>7, <1>8, <1>9, <1>10, <1>12, Whole DEF Core

\* Locks keeps the invariant: the flock was free, so nobody else owns the file.
LEMMA LocksKeeps ==
    ASSUME IInv, NEW p \in Procs, NEW from, NEW to, Locks(p, from, to),
           from \in Locking, to \in Owning,
           p \in Clients => to \in ClientSteps, p \in Leaders => to \in LeaderSteps
    PROVE  IInv'
<1> USE Parts
<1>1. /\ pc[p] = from /\ Goto(p, to) /\ flock[fd[p]] = None
      /\ flock' = [flock EXCEPT ![fd[p]] = p]
      /\ UNCHANGED <<lockIno, pidFile, sock, fd, mine, faults, raced>>
  BY DEF Locks
<1>2. fd[p] \in Inodes
  BY <1>1 DEF Core, OpenWhileUsed, FilesOK
<1>3. StepsOK'
  BY <1>1, GotoTyped
<1>4. /\ pc'[p] = to /\ flock'[fd[p]] = p
      /\ \A q \in Procs : q # p => pc'[q] = pc[q]
      /\ \A i \in Inodes : i # fd[p] => flock'[i] = flock[i]
  BY <1>1, <1>2 DEF Goto, StepsOK, FilesOK
<1>5. to \notin Locking
  BY DEF Locking, Owning, ClientHolds, LeaderHolds
<1>6. HolderHasOpen'
  BY <1>1, <1>4, Distinct DEF Core, HolderHasOpen, FilesOK
<1>7. OpenWhileUsed'
  BY <1>1, <1>4, <1>5 DEF Core, OpenWhileUsed, Opening
<1>8. OpenMeansHeld'
  BY <1>1, <1>2, <1>4, Distinct DEF Core, OpenMeansHeld, FilesOK
<1>9. SameFile'
  BY <1>1, <1>4 DEF Core, SameFile
<1>11. FilesOK' /\ LocalsOK' /\ HistoryOK'
  BY <1>1, <1>2 DEF FilesOK, LocalsOK, HistoryOK
<1> QED
  BY <1>3, <1>6, <1>7, <1>8, <1>9, <1>11, Whole DEF Core

\* Contends keeps the invariant: who loses owns nothing.
LEMMA ContendsKeeps ==
    ASSUME IInv, NEW p \in Procs, NEW from, NEW to, Contends(p, from, to),
           from \in Locking, to \notin Opening,
           p \in Clients => to \in ClientSteps, p \in Leaders => to \in LeaderSteps
    PROVE  IInv'
<1> USE Parts
<1>1. /\ pc[p] = from /\ Goto(p, to) /\ fd' = [fd EXCEPT ![p] = None]
      /\ UNCHANGED <<lockIno, flock, pidFile, sock, mine, faults, raced>>
  BY DEF Contends, files
<1>2. StepsOK'
  BY <1>1, GotoTyped
<1>3. /\ pc'[p] = to /\ fd'[p] = None
      /\ \A q \in Procs : q # p => pc'[q] = pc[q] /\ fd'[q] = fd[q]
  BY <1>1 DEF Goto, StepsOK, FilesOK
<1>4. \A i \in Inodes : flock[i] # p
  BY <1>1, Distinct DEF Core, HolderHasOpen, Locking, Owning, ClientHolds, LeaderHolds
<1>5. HolderHasOpen'
  BY <1>1, <1>3, <1>4, Distinct DEF Core, HolderHasOpen, FilesOK
<1>6. OpenWhileUsed'
  BY <1>3 DEF Core, OpenWhileUsed, Opening
<1>7. OpenMeansHeld'
  BY <1>1, <1>3 DEF Core, OpenMeansHeld
<1>8. SameFile'
  BY <1>1, <1>3 DEF Core, SameFile
<1>10. FilesOK' /\ LocalsOK' /\ HistoryOK'
  BY <1>1 DEF FilesOK, LocalsOK, HistoryOK
<1> QED
  BY <1>2, <1>5, <1>6, <1>7, <1>8, <1>10, Whole DEF Core

\* DropLock keeps the invariant: nobody else has the file open, or raced says so.
LEMMA DropLockKeeps ==
    ASSUME IInv, NEW p \in Procs, DropLock(p)
    PROVE  IInv'
<1> USE Parts
<1>1. /\ pc[p] = "drop" /\ Goto(p, "dropSock") /\ lockIno' = None
      /\ raced' = (raced \/ \E q \in Procs \ {p} : lockIno # None /\ fd[q] = lockIno)
      /\ pidFile' = [i \in Inodes |-> IF i = lockIno THEN None ELSE pidFile[i]]
      /\ UNCHANGED <<flock, sock, fd, mine, faults>>
  BY DEF DropLock
<1>2. StepsOK'
  BY <1>1, GotoTyped DEF ClientSteps, LeaderSteps
<1>3. /\ pc'[p] = "dropSock"
      /\ \A q \in Procs : q # p => pc'[q] = pc[q]
  BY <1>1 DEF Goto, StepsOK
<1>4. pc[p] \in Owning /\ pc'[p] \notin Locking /\ pc'[p] \notin Owning
  BY <1>1, <1>3 DEF Locking, Owning, ClientHolds, LeaderHolds
<1>5. HolderHasOpen'
  BY <1>1, <1>3, Distinct DEF Core, HolderHasOpen, FilesOK
<1>6. OpenWhileUsed'
  BY <1>1, <1>3, <1>4 DEF Core, OpenWhileUsed, Opening
<1>7. OpenMeansHeld'
  BY <1>1, <1>3, <1>4 DEF Core, OpenMeansHeld
<1>8. SameFile'
  <2> SUFFICES ASSUME ~raced', NEW q \in Procs, pc'[q] \in Locking \cup Owning, fd'[q] # None
               PROVE  FALSE
    BY DEF SameFile
  <2>1. q # p /\ pc[q] \in Locking \cup Owning /\ fd[q] # None
    BY <1>1, <1>3, <1>4
  <2>2. ~raced /\ ~(lockIno # None /\ fd[q] = lockIno)
    BY <1>1, <2>1
  <2> QED
    BY <2>1, <2>2 DEF Core, SameFile
<1>9. FilesOK' /\ LocalsOK'
  BY <1>1 DEF FilesOK, LocalsOK
<1>10. HistoryOK'
  BY <1>1, Zenon DEF HistoryOK
<1> QED
  BY <1>2, <1>5, <1>6, <1>7, <1>8, <1>9, <1>10, Whole DEF Core

\* DropSock keeps the invariant.
LEMMA DropSockKeeps ==
    ASSUME IInv, NEW p \in Procs, DropSock(p)
    PROVE  IInv'
<1> USE Parts
<1> DEFINE step == IF p \in Clients THEN "gone" ELSE "exit"
<1>1. /\ pc[p] = "dropSock" /\ Goto(p, step) /\ Closed({p}) /\ sock' = None
      /\ UNCHANGED <<lockIno, pidFile, mine, faults, raced>>
  BY DEF DropSock
<1>2. StepsOK'
  <2>1. p \in Clients => step \in ClientSteps
    BY DEF ClientSteps, Ended
  <2>2. p \in Leaders => step \in LeaderSteps
    BY Distinct DEF LeaderSteps
  <2> QED
    BY <1>1, <2>1, <2>2, GotoTyped
<1>3. /\ pc'[p] \notin Opening
      /\ \A q \in Procs : q # p => pc'[q] = pc[q]
  BY <1>1 DEF Goto, StepsOK, Opening, Locking, Owning, ClientHolds, LeaderHolds
<1>4. Core'
  <2>1. \A q \in {p} : q \in Procs => pc'[q] \notin Opening
    BY <1>3
  <2>2. \A q \in Procs : q \notin {p} => pc'[q] = pc[q]
    BY <1>3
  <2> QED
    BY <1>1, <1>2, <2>1, <2>2, ClosedKeepsCore
<1>5. FilesOK' /\ LocalsOK' /\ HistoryOK'
  BY <1>1, ClosedTyped DEF FilesOK, LocalsOK, HistoryOK
<1> QED
  BY <1>2, <1>4, <1>5, Whole

-----------------------------------------------------------------------------
(* The steps of a call of connect_or_spawn. *)

\* A client that only moves, its local variables changed: it owned the lock
\* before and after, or neither.
LEMMA GoesKeeps ==
    ASSUME IInv, NEW c \in Clients, NEW step \in ClientSteps \ Opening, NEW local \in Local,
           pc[c] \notin Opening, Goes(c, step, local),
           UNCHANGED <<files, fd, faults, raced>>
    PROVE  IInv'
<1> USE Parts
<1>1. LocalsOK' /\ StepsOK'
  BY GoesTyped
<1>2. Core'
  <2>1. Goto(c, step)
    BY DEF Goes
  <2> QED
    BY <2>1, Distinct, GotoKeepsCore DEF files
<1>3. FilesOK' /\ HistoryOK'
  BY DEF files, FilesOK, HistoryOK
<1> QED
  BY <1>1, <1>2, <1>3, Whole

\* A process that only moves and never touches the lock file, or owns it before and after.
LEMMA GotoKeeps ==
    ASSUME IInv, NEW p \in Procs, NEW step, Goto(p, step),
           p \in Clients => step \in ClientSteps, p \in Leaders => step \in LeaderSteps,
           \/ pc[p] \in Owning /\ step \in Owning
           \/ pc[p] \notin Opening /\ step \notin Opening,
           FilesOK', HistoryOK', UNCHANGED <<lockIno, flock, fd, mine, raced>>
    PROVE  IInv'
<1> USE Parts
<1>1. StepsOK'
  BY GotoTyped
<1>2. Core'
  BY GotoKeepsCore
<1>3. LocalsOK'
  BY DEF LocalsOK
<1> QED
  BY <1>1, <1>2, <1>3, Whole

\* Where a client is clear of the lock file.
LEMMA Clear ==
    /\ {"idle", "open", "spawn", "await", "wait", "vacate", "kill", "connected", "failed", "gone"}
          \subseteq ClientSteps \ Opening
    /\ {"unborn", "open1", "open2", "lost", "exit", "dead"} \subseteq LeaderSteps \ Opening
    /\ {"won", "clean", "run", "quit", "drop"} \subseteq LeaderSteps \cap Owning
    /\ {"held", "grace"} \subseteq ClientSteps \cap Owning
  BY DEF ClientSteps, LeaderSteps, Opening, Locking, Owning, ClientHolds, LeaderHolds, Ended

\* What a client reads from the lock path.
LEMMA ReadPidTyped ==
    ASSUME FilesOK
    PROVE  ReadPid \in Leaders \cup {None} /\ Holder \in Leaders \cup {None}
<1>1. lockIno # None => pidFile[lockIno] \in Leaders \cup {None}
  BY DEF FilesOK
<1> QED
  BY <1>1 DEF ReadPid, Holder

\* The moves of a client that change no file.
LEMMA ClientMovesKeep ==
    ASSUME IInv, NEW c \in Clients,
           \/ Call(c) \/ Declines(c) \/ SpawnFails(c) \/ Reaches(c)
           \/ AwaitEnds(c) \/ WaitFails(c) \/ WaitAgain(c) \/ ZombieDue(c)
    PROVE  IInv'
<1> USE Parts
<1>0. c \in Procs /\ c \notin Leaders
  BY Distinct
<1>1. CASE Call(c)
  <2> DEFINE step == IF Answers /\ (ReadPid # None => Alive(ReadPid)) /\ sock \notin Older
                       THEN "connected" ELSE "open"
  <2>1. pc[c] = "idle" /\ Goto(c, step) /\ UNCHANGED <<files, fd, mine, faults, raced>>
    BY <1>1 DEF Call
  <2>2. step \in ClientSteps \ Opening /\ pc[c] \notin Opening
    BY <2>1, Clear
  <2> HIDE DEF step
  <2>3. FilesOK' /\ HistoryOK'
    BY <2>1 DEF files, FilesOK, HistoryOK
  <2>4. /\ c \in Clients => step \in ClientSteps
        /\ c \in Leaders => step \in LeaderSteps
        /\ UNCHANGED <<lockIno, flock, fd, mine, raced>>
    BY <1>0, <2>1, <2>2 DEF files
  <2> QED
    BY <1>0, <2>1, <2>2, <2>3, <2>4, GotoKeeps
<1>2. CASE Declines(c)
  <2>1. pc[c] = "open" /\ Goes(c, "failed", Fresh) /\ UNCHANGED <<files, fd, faults, raced>>
    BY <1>2 DEF Declines
  <2> QED
    BY <2>1, FreshTyped, Clear, GoesKeeps
<1>3. CASE SpawnFails(c)
  <2>1. pc[c] = "spawn" /\ Goes(c, "failed", Fresh) /\ UNCHANGED <<files, fd, faults, raced>>
    BY <1>3 DEF SpawnFails
  <2> QED
    BY <2>1, FreshTyped, Clear, GoesKeeps
<1>4. CASE Reaches(c)
  <2> DEFINE step == IF pc[c] = "wait" /\ sock \in Older THEN "vacate" ELSE "connected"
             local == [mine[c] EXCEPT !.peer = sock, !.timer = None, !.lastErr = "none"]
  <2>1. pc[c] \in {"await", "wait"} /\ Goes(c, step, local) /\ UNCHANGED <<files, fd, faults, raced>>
    BY <1>4 DEF Reaches
  <2>2. step \in ClientSteps \ Opening /\ pc[c] \notin Opening
    BY <2>1, Clear
  <2>3. local \in Local
    <3>1. sock \in Leaders \cup {None}
      BY DEF FilesOK
    <3>2. mine[c] \in Local
      BY LocalFields
    <3> QED
      BY <3>1, <3>2 DEF Local
  <2> HIDE DEF step, local
  <2> QED
    BY <2>1, <2>2, <2>3, GoesKeeps
<1>5. CASE AwaitEnds(c)
  <2> DEFINE step == IF mine[c].lastErr = "none" /\ mine[c].spawns + 1 < MaxSelfSpawn
                       THEN "open" ELSE "failed"
             local == [mine[c] EXCEPT !.spawns = @ + 1]
  <2>1. pc[c] = "await" /\ Goes(c, step, local) /\ UNCHANGED <<files, fd, faults, raced>>
    BY <1>5 DEF AwaitEnds
  <2>2. step \in ClientSteps \ Opening /\ pc[c] \notin Opening
    BY <2>1, Clear
  <2>3. local \in Local
    <3>1. mine[c] \in Local /\ mine[c].spawns + 1 \in Nat
      BY LocalFields
    <3> QED
      BY <3>1, FieldTyped
  <2> HIDE DEF step, local
  <2> QED
    BY <2>1, <2>2, <2>3, GoesKeeps
<1>6. CASE WaitFails(c)
  <2>1. pc[c] = "wait" /\ Goes(c, "failed", Fresh) /\ UNCHANGED <<files, fd, faults, raced>>
    BY <1>6 DEF WaitFails
  <2> QED
    BY <2>1, FreshTyped, Clear, GoesKeeps
<1>7. CASE WaitAgain(c)
  <2> DEFINE local == [mine[c] EXCEPT !.timer = Holder, !.lastErr = "none"]
  <2>1. pc[c] = "wait" /\ Goes(c, "open", local) /\ UNCHANGED <<files, fd, faults, raced>>
    BY <1>7 DEF WaitAgain
  <2>2. local \in Local
    BY LocalFields, ReadPidTyped DEF Local
  <2> HIDE DEF local
  <2> QED
    BY <2>1, <2>2, Clear, GoesKeeps
<1>8. CASE ZombieDue(c)
  <2> DEFINE step == IF Attempts(c) <= MaxEvict THEN "kill" ELSE "failed"
             local == [mine[c] EXCEPT !.timer = None, !.lastErr = "none", !.peer = Holder,
                                      !.evicted = Holder, !.evicts = Attempts(c)]
  <2>1. pc[c] = "wait" /\ Goes(c, step, local) /\ UNCHANGED <<files, fd, faults, raced>>
    BY <1>8 DEF ZombieDue
  <2>2. step \in ClientSteps \ Opening /\ pc[c] \notin Opening
    BY <2>1, Clear
  <2>3. local \in Local
    <3>1. Attempts(c) \in Nat
      BY LocalFields DEF Attempts
    <3> QED
      BY <3>1, LocalFields, ReadPidTyped DEF Local
  <2> HIDE DEF step, local
  <2> QED
    BY <2>1, <2>2, <2>3, GoesKeeps
<1> QED
  BY <1>1, <1>2, <1>3, <1>4, <1>5, <1>6, <1>7, <1>8

\* A failed attempt to connect.
LEMMA RefusedKeeps ==
    ASSUME IInv, NEW c \in Clients, Refused(c)
    PROVE  IInv'
<1> USE Parts
<1>1. mine' = [mine EXCEPT ![c].lastErr = Refusal] /\ UNCHANGED <<files, pc, fd, faults, raced>>
  BY DEF Refused
<1>2. [mine[c] EXCEPT !.lastErr = Refusal] \in Local
  BY LocalFields, FieldTyped DEF Refusal
<1>3. LocalsOK'
  BY <1>1, <1>2 DEF LocalsOK
<1>4. FilesOK' /\ StepsOK' /\ HistoryOK'
  BY <1>1 DEF FilesOK, StepsOK, HistoryOK, files
<1>5. Core'
  <2>1. UNCHANGED <<lockIno, flock, pc, fd, raced>>
    BY <1>1 DEF files
  <2> QED
    BY <2>1 DEF Core, HolderHasOpen, OpenWhileUsed, OpenMeansHeld, SameFile
<1> QED
  BY <1>3, <1>4, <1>5, Whole

\* The client starts a leader process.
LEMMA SpawnKeeps ==
    ASSUME IInv, NEW c \in Clients, Spawn(c)
    PROVE  IInv'
<1> USE Parts
<1> DEFINE l == CHOOSE m \in Unborn : TRUE
<1>1. /\ pc[c] = "spawn" /\ Unborn # {}
      /\ pc' = [pc EXCEPT ![c] = "await", ![l] = "open1"]
      /\ UNCHANGED <<files, fd, mine, faults, raced>>
  BY DEF Spawn
<1>0. UNCHANGED <<lockIno, flock, fd, raced>>
  BY <1>1 DEF files
<1>2. l \in Unborn
  BY <1>1
<1>3. l \in Leaders /\ pc[l] = "unborn"
  BY <1>2 DEF Unborn
<1> HIDE DEF l
<1>4. /\ pc'[c] = "await" /\ pc'[l] = "open1"
      /\ \A q \in Procs : q # c /\ q # l => pc'[q] = pc[q]
      /\ pc' \in [Procs -> ClientSteps \cup LeaderSteps]
  BY <1>1, <1>3, Distinct, Clear DEF StepsOK
<1>5. StepsOK'
  BY <1>3, <1>4, Distinct, Clear DEF StepsOK
<1>6. \A q \in Procs : /\ pc'[q] \in Locking <=> pc[q] \in Locking
                       /\ pc'[q] \in Owning <=> pc[q] \in Owning
                       /\ pc'[q] \in Opening <=> pc[q] \in Opening
                       /\ pc'[q] \in Owning \cup {"dropSock"} <=> pc[q] \in Owning \cup {"dropSock"}
  BY <1>1, <1>3, <1>4 DEF Opening, Locking, Owning, ClientHolds, LeaderHolds
<1>7. HolderHasOpen'
  BY <1>0, <1>6, Distinct DEF Core, HolderHasOpen, FilesOK
<1>8. OpenWhileUsed' /\ OpenMeansHeld' /\ SameFile'
  BY <1>0, <1>6, Distinct DEF Core, OpenWhileUsed, OpenMeansHeld, SameFile
<1>9. FilesOK' /\ LocalsOK' /\ HistoryOK'
  BY <1>1 DEF FilesOK, LocalsOK, HistoryOK, files
<1> QED
  BY <1>5, <1>7, <1>8, <1>9, Whole DEF Core

\* One process closes its files and moves on.
LEMMA ClosedOneKeeps ==
    ASSUME IInv, NEW p \in Procs, NEW step, Closed({p}), Goto(p, step),
           p \in Clients => step \in ClientSteps, p \in Leaders => step \in LeaderSteps,
           step \notin Opening, LocalsOK', HistoryOK', UNCHANGED <<lockIno, pidFile, sock, raced>>
    PROVE  IInv'
<1> USE Parts
<1>1. StepsOK'
  BY GotoTyped
<1>2. /\ pc'[p] = step
      /\ \A q \in Procs : q # p => pc'[q] = pc[q]
  BY DEF Goto, StepsOK
<1>3. Core'
  <2>1. \A q \in {p} : q \in Procs => pc'[q] \notin Opening
    BY <1>2
  <2>2. \A q \in Procs : q \notin {p} => pc'[q] = pc[q]
    BY <1>2
  <2> QED
    BY <1>1, <2>1, <2>2, ClosedKeepsCore
<1>4. FilesOK'
  BY ClosedTyped DEF FilesOK
<1> QED
  BY <1>1, <1>3, <1>4, Whole

\* A spawner gives up the lock, to adopt a leader or to start one.
LEMMA HeldKeeps ==
    ASSUME IInv, NEW c \in Clients, HeldAdopt(c) \/ HeldSpawn(c)
    PROVE  IInv'
<1> USE Parts
<1>0. c \in Procs /\ c \notin Leaders
  BY Distinct
<1>1. CASE HeldAdopt(c)
  <2>1. Closed({c}) /\ Goes(c, "connected", Fresh) /\ UNCHANGED <<lockIno, pidFile, sock, faults, raced>>
    BY <1>1 DEF HeldAdopt
  <2>2. LocalsOK'
    BY <2>1, FreshTyped, Clear, GoesTyped
  <2>3. HistoryOK' /\ "connected" \notin Opening /\ "connected" \in ClientSteps
    BY <2>1, Clear DEF HistoryOK
  <2>4. Goto(c, "connected")
    BY <2>1 DEF Goes
  <2> QED
    BY <1>0, <2>1, <2>2, <2>3, <2>4, ClosedOneKeeps
<1>2. CASE HeldSpawn(c)
  <2>1. Closed({c}) /\ Goto(c, "spawn") /\ UNCHANGED <<lockIno, pidFile, sock, mine, faults, raced>>
    BY <1>2 DEF HeldSpawn
  <2>2. LocalsOK' /\ HistoryOK' /\ "spawn" \notin Opening /\ "spawn" \in ClientSteps
    BY <2>1, Clear DEF LocalsOK, HistoryOK
  <2> QED
    BY <1>0, <2>1, <2>2, ClosedOneKeeps
<1> QED
  BY <1>1, <1>2

\* A client moves, and of some leaders that it signals the files are closed.
LEMMA VictimsKeep ==
    ASSUME IInv, NEW c \in Clients, NEW V \in SUBSET Leaders, NEW step \in ClientSteps,
           pc' = [p \in Procs |-> IF p = c THEN step ELSE IF p \in V THEN "dead" ELSE pc[p]],
           Closed(V), LocalsOK', HistoryOK',
           \/ pc[c] \in Owning /\ step \in Owning
           \/ pc[c] \notin Opening /\ step \notin Opening,
           UNCHANGED <<lockIno, pidFile, sock, raced>>
    PROVE  IInv'
<1> USE Parts
<1>0. c \in Procs /\ c \notin Leaders
  BY Distinct
<1>1. /\ pc'[c] = step
      /\ \A q \in V : pc'[q] = "dead"
      /\ \A q \in Procs : q # c /\ q \notin V => pc'[q] = pc[q]
      /\ pc' = [q \in Procs |-> pc'[q]]
  BY <1>0, Distinct
<1>2. StepsOK'
  <2>1. \A d \in Clients : pc'[d] \in ClientSteps
    BY <1>1, Distinct DEF StepsOK
  <2>2. \A m \in Leaders : pc'[m] \in LeaderSteps
    BY <1>0, <1>1, Distinct, Clear DEF StepsOK
  <2> QED
    BY <1>1, <2>1, <2>2, Distinct DEF StepsOK
<1>3. Core'
  <2>1. \A q \in V : q \in Procs => pc'[q] \notin Opening
    BY <1>1, Clear
  <2>2. \A q \in Procs : q \notin V => \/ pc'[q] = pc[q]
                                       \/ pc[q] \in Owning /\ pc'[q] \in Owning
                                       \/ pc[q] \notin Opening /\ pc'[q] \notin Opening
    BY <1>1
  <2> QED
    BY <1>2, <2>1, <2>2, ClosedKeepsCore
<1>4. FilesOK'
  BY ClosedTyped DEF FilesOK
<1> QED
  BY <1>2, <1>3, <1>4, Whole

\* A client asks a leader to vacate: only the client moves, or the leader that
\* cannot be asked dies.
LEMMA VacateKeeps ==
    ASSUME IInv, NEW c \in Clients, NEW l, NEW step \in ClientSteps,
           Vacate(c, l, step), LocalsOK',
           \/ pc[c] \in Owning /\ step \in Owning
           \/ pc[c] \notin Opening /\ step \notin Opening,
           UNCHANGED <<lockIno, pidFile, sock, raced>>
    PROVE  IInv'
<1> USE Parts
<1>0. c \in Procs /\ c \notin Leaders
  BY Distinct
<1>1. HistoryOK'
  <2>1. UNCHANGED faults \/ Fault
    BY DEF Vacate, VacateHeeded, VacateFails
  <2> QED
    BY <2>1, FaultTyped DEF HistoryOK
<1>2. CASE Goto(c, step) /\ UNCHANGED <<fd, flock>>
  <2>1. StepsOK'
    BY <1>0, <1>2, GotoTyped
  <2>2. Core'
    BY <1>0, <1>2, GotoKeepsCore
  <2>3. FilesOK'
    BY <1>2 DEF FilesOK
  <2> QED
    BY <1>1, <2>1, <2>2, <2>3, Whole
<1>3. CASE VacateHeeded(c, l, step) /\ l \in Legacy
  <2> DEFINE V == {m \in Leaders : m = ReadPid /\ Alive(m)}
  <2>1. /\ pc' = [p \in Procs |-> IF p = c THEN step ELSE IF p \in V THEN "dead" ELSE pc[p]]
        /\ Closed(V)
    BY <1>3 DEF VacateHeeded, Killed
  <2>2. V \in SUBSET Leaders
    OBVIOUS
  <2> HIDE DEF V
  <2> QED
    BY <1>1, <2>1, <2>2, VictimsKeep
<1> QED
  BY <1>2, <1>3 DEF Vacate, VacateHeeded, VacateFails

\* The two callers of request_leader_vacate.
LEMMA VacatesKeep ==
    ASSUME IInv, NEW c \in Clients, HeldEvict(c) \/ Vacates(c)
    PROVE  IInv'
<1> USE Parts
<1>1. CASE HeldEvict(c)
  <2>1. /\ pc[c] = "held" /\ Vacate(c, sock, "grace") /\ mine' = [mine EXCEPT ![c].peer = ReadPid]
        /\ UNCHANGED <<lockIno, pidFile, sock, raced>>
    BY <1>1 DEF HeldEvict
  <2>2. LocalsOK'
    BY <2>1, PeerTyped, ReadPidTyped
  <2>3. sock \in Leaders \cup {None} /\ pc[c] \in Owning /\ "grace" \in Owning /\ "grace" \in ClientSteps
    BY <2>1, Clear DEF FilesOK
  <2> QED
    BY <2>1, <2>2, <2>3, VacateKeeps
<1>2. CASE Vacates(c)
  <2>1. /\ pc[c] = "vacate" /\ Vacate(c, mine[c].peer, "open") /\ mine' = [mine EXCEPT ![c].peer = None]
        /\ UNCHANGED <<lockIno, pidFile, sock, raced>>
    BY <1>2 DEF Vacates
  <2>2. LocalsOK'
    BY <2>1, PeerTyped
  <2>3. /\ mine[c].peer \in Leaders \cup {None}
        /\ pc[c] \notin Opening /\ "open" \notin Opening /\ "open" \in ClientSteps
    BY <2>1, Clear, LocalFields
  <2> QED
    BY <2>1, <2>2, <2>3, VacateKeeps
<1> QED
  BY <1>1, <1>2

\* A client signals a leader; it closes its own file, or has none.
LEMMA SignalsKeeps ==
    ASSUME IInv, NEW c \in Clients, NEW S \in SUBSET {c}, NEW from, NEW to \in ClientSteps,
           Signals(c, S, from, to), to \notin Opening,
           from \notin Opening \/ S = {c}
    PROVE  IInv'
<1> USE Parts
<1> DEFINE victims == {l \in Leaders : l = mine[c].peer /\ Alive(l)}
<1>0. c \in Procs /\ c \notin Leaders
  BY Distinct
<1>1. /\ pc[c] = from
      /\ mine' = [mine EXCEPT ![c].peer = None]
      /\ UNCHANGED <<lockIno, pidFile, sock, raced>>
  BY DEF Signals
<1>2. PICK V \in SUBSET Leaders :
        /\ pc' = [p \in Procs |-> IF p = c THEN to ELSE IF p \in V THEN "dead" ELSE pc[p]]
        /\ Closed(S \cup V)
        /\ UNCHANGED faults \/ Fault
  <2>1. CASE /\ pc' = [p \in Procs |-> IF p = c THEN to ELSE IF p \in victims THEN "dead" ELSE pc[p]]
             /\ Closed(S \cup victims)
             /\ UNCHANGED faults
    <3>1. victims \in SUBSET Leaders
      OBVIOUS
    <3> HIDE DEF victims
    <3> QED
      BY <2>1, <3>1
  <2>2. CASE Goto(c, to) /\ Closed(S) /\ Fault
    <3>1. pc' = [p \in Procs |-> IF p = c THEN to ELSE IF p \in {} THEN "dead" ELSE pc[p]]
      BY <1>0, <2>2 DEF Goto, StepsOK
    <3>2. S \cup {} = S /\ {} \in SUBSET Leaders
      OBVIOUS
    <3> QED
      BY <2>2, <3>1, <3>2
  <2> QED
    BY <2>1, <2>2 DEF Signals, Killed
<1>3. LocalsOK'
  BY <1>1, PeerTyped
<1>4. HistoryOK'
  BY <1>1, <1>2, FaultTyped DEF HistoryOK
<1>5. /\ pc'[c] = to
      /\ \A q \in V : pc'[q] = "dead"
      /\ \A q \in Procs : q # c /\ q \notin V => pc'[q] = pc[q]
      /\ pc' = [q \in Procs |-> pc'[q]]
  BY <1>0, <1>2, Distinct
<1>6. StepsOK'
  <2>1. \A d \in Clients : pc'[d] \in ClientSteps
    BY <1>5, Distinct DEF StepsOK
  <2>2. \A m \in Leaders : pc'[m] \in LeaderSteps
    BY <1>0, <1>5, Distinct, Clear DEF StepsOK
  <2> QED
    BY <1>5, <2>1, <2>2, Distinct DEF StepsOK
<1>7. Core'
  <2>1. \A q \in S \cup V : q \in Procs => pc'[q] \notin Opening
    BY <1>5, Clear
  <2>2. \A q \in Procs : q \notin S \cup V =>
                         \/ pc'[q] = pc[q]
                         \/ pc[q] \in Owning /\ pc'[q] \in Owning
                         \/ pc[q] \notin Opening /\ pc'[q] \notin Opening
    BY <1>1, <1>5
  <2> QED
    BY <1>1, <1>2, <1>6, <2>1, <2>2, ClosedKeepsCore
<1>8. FilesOK'
  BY <1>1, <1>2, ClosedTyped DEF FilesOK
<1> QED
  BY <1>3, <1>4, <1>6, <1>7, <1>8, Whole

\* The two places where a client signals a leader.
LEMMA SignalsKeep ==
    ASSUME IInv, NEW c \in Clients, Graced(c) \/ Kill(c)
    PROVE  IInv'
<1>1. CASE Graced(c)
  BY <1>1, Clear, SignalsKeeps DEF Graced
<1>2. CASE Kill(c)
  BY <1>2, Clear, SignalsKeeps DEF Kill
<1> QED
  BY <1>1, <1>2

-----------------------------------------------------------------------------
(* The steps of a leader, and the faults. *)

\* The moves of a leader that change no file but perhaps the socket or the pid.
LEMMA LeaderMovesKeep ==
    ASSUME IInv, NEW l \in Leaders,
           \/ Loses(l) \/ Leaves(l) \/ WritePid(l) \/ CleanSocket(l)
           \/ DrainEnds(l) \/ Returns(l) \/ Exits(l) \/ StartFails(l) \/ Updates(l)
    PROVE  IInv'
<1> USE Parts
<1>0. l \in Procs /\ l \notin Clients
  BY Distinct
<1>1. CASE Loses(l)
  <2> DEFINE step == IF sock # None THEN "dead" ELSE "open2"
  <2>1. pc[l] = "lost" /\ Goto(l, step) /\ UNCHANGED <<files, fd, mine, faults, raced>>
    BY <1>1 DEF Loses
  <2>2. step \in LeaderSteps /\ step \notin Opening /\ pc[l] \notin Opening
    BY <2>1, Clear
  <2>3. FilesOK' /\ HistoryOK' /\ UNCHANGED <<lockIno, flock, fd, mine, raced>>
    BY <2>1 DEF files, FilesOK, HistoryOK
  <2> HIDE DEF step
  <2> QED
    BY <1>0, <2>1, <2>2, <2>3, GotoKeeps
<1>2. CASE Leaves(l) \/ Exits(l)
  <2>1. /\ pc[l] \in {"open1", "open2", "exit"} /\ Goto(l, "dead")
        /\ UNCHANGED <<files, fd, mine, faults, raced>>
    BY <1>2 DEF Leaves, Exits
  <2>2. "dead" \in LeaderSteps /\ "dead" \notin Opening /\ pc[l] \notin Opening
    BY <2>1, Clear
  <2>3. FilesOK' /\ HistoryOK' /\ UNCHANGED <<lockIno, flock, fd, mine, raced>>
    BY <2>1 DEF files, FilesOK, HistoryOK
  <2> QED
    BY <1>0, <2>1, <2>2, <2>3, GotoKeeps
<1>3. CASE WritePid(l)
  <2>1. /\ pc[l] = "won" /\ Goto(l, "clean") /\ pidFile' = [pidFile EXCEPT ![fd[l]] = l]
        /\ UNCHANGED <<lockIno, flock, sock, fd, mine, faults, raced>>
    BY <1>3 DEF WritePid
  <2>2. "clean" \in LeaderSteps /\ "clean" \in Owning /\ pc[l] \in Owning
    BY <2>1, Clear
  <2>3. FilesOK' /\ HistoryOK'
    BY <2>1 DEF FilesOK, HistoryOK
  <2> QED
    BY <1>0, <2>1, <2>2, <2>3, GotoKeeps
<1>4. CASE CleanSocket(l)
  <2>1. /\ pc[l] = "clean" /\ Goto(l, "run") /\ sock' = None
        /\ UNCHANGED <<lockIno, flock, pidFile, fd, mine, faults, raced>>
    BY <1>4 DEF CleanSocket
  <2>2. "run" \in LeaderSteps /\ "run" \in Owning /\ pc[l] \in Owning
    BY <2>1, Clear
  <2>3. FilesOK' /\ HistoryOK'
    BY <2>1 DEF FilesOK, HistoryOK
  <2> QED
    BY <1>0, <2>1, <2>2, <2>3, GotoKeeps
<1>5. CASE DrainEnds(l) \/ Updates(l) \/ Returns(l) \/ StartFails(l)
  <2>1. PICK step \in {"quit", "drop"} :
          /\ pc[l] \in {"won", "clean", "run", "quit"} /\ Goto(l, step)
          /\ UNCHANGED <<files, fd, mine, raced>>
          /\ UNCHANGED faults \/ Fault
    BY <1>5 DEF DrainEnds, Updates, Returns, StartFails
  <2>2. step \in LeaderSteps /\ step \in Owning /\ pc[l] \in Owning
    BY <2>1, Clear
  <2>3. FilesOK' /\ UNCHANGED <<lockIno, flock, fd, mine, raced>>
    BY <2>1 DEF files, FilesOK
  <2>4. HistoryOK'
    BY <2>1, FaultTyped DEF HistoryOK
  <2> QED
    BY <1>0, <2>1, <2>2, <2>3, <2>4, GotoKeeps
<1> QED
  BY <1>1, <1>2, <1>3, <1>4, <1>5

\* The steps of a leader's server, which touch no file but the socket.
LEMMA ServerStepsKeep ==
    ASSUME IInv, NEW l \in Leaders, ServerStep(l) \/ LastLeaves(l) \/ Hangs(l)
    PROVE  IInv'
<1> USE Parts
<1>1. /\ UNCHANGED <<lockIno, flock, pidFile, pc, fd, mine, raced>>
      /\ sock' \in {sock, None, l}
      /\ UNCHANGED faults \/ Fault
  BY DEF ServerStep, ServerClears, Binds, ServerEnds, ServerUnlinks, LastLeaves, Hangs, Serves
<1>2. FilesOK' /\ StepsOK' /\ LocalsOK'
  BY <1>1 DEF FilesOK, StepsOK, LocalsOK
<1>3. HistoryOK'
  BY <1>1, FaultTyped DEF HistoryOK
<1>4. Core'
  BY <1>1 DEF Core, HolderHasOpen, OpenWhileUsed, OpenMeansHeld, SameFile
<1> QED
  BY <1>2, <1>3, <1>4, Whole

\* A process dies; the kernel closes its files.
LEMMA CrashKeeps ==
    ASSUME IInv, NEW p \in Procs, Crash(p)
    PROVE  IInv'
<1> USE Parts
<1> DEFINE step == IF p \in Clients THEN "gone" ELSE "dead"
<1>1. /\ Closed({p}) /\ Goto(p, step) /\ Fault
      /\ mine' = [c \in Clients |-> IF c = p THEN Fresh ELSE mine[c]]
      /\ UNCHANGED <<lockIno, pidFile, sock, raced>>
  BY DEF Crash, Killed
<1>2. LocalsOK'
  BY <1>1, FreshTyped DEF LocalsOK
<1>3. HistoryOK'
  BY <1>1, FaultTyped
<1>4. /\ p \in Clients => step \in ClientSteps
      /\ p \in Leaders => step \in LeaderSteps
      /\ step \notin Opening
  BY Distinct, Clear
<1> HIDE DEF step
<1> QED
  BY <1>1, <1>2, <1>3, <1>4, ClosedOneKeeps

\* A call is dropped.
LEMMA QuitsKeeps ==
    ASSUME IInv, NEW c \in Clients, Quits(c)
    PROVE  IInv'
<1> USE Parts
<1>0. c \in Procs /\ c \notin Leaders
  BY Distinct
<1>1. Fault /\ mine' = [mine EXCEPT ![c] = Fresh] /\ UNCHANGED <<lockIno, pidFile, sock, raced>>
  BY DEF Quits
<1>2. LocalsOK'
  BY <1>1, FreshTyped DEF LocalsOK
<1>3. HistoryOK'
  BY <1>1, FaultTyped
<1>4. CASE pc[c] \in ClientHolds
  <2>1. Goto(c, "drop") /\ UNCHANGED <<fd, flock>>
    BY <1>4 DEF Quits
  <2>2. "drop" \in ClientSteps /\ "drop" \in Owning /\ pc[c] \in Owning
    BY <1>4, Clear DEF ClientSteps, Owning
  <2>3. StepsOK'
    BY <1>0, <2>1, <2>2, GotoTyped
  <2>4. Core'
    BY <1>0, <1>1, <2>1, <2>2, GotoKeepsCore
  <2>5. FilesOK'
    BY <1>1, <2>1 DEF FilesOK
  <2> QED
    BY <1>2, <1>3, <2>3, <2>4, <2>5, Whole
<1>5. CASE pc[c] \notin ClientHolds
  <2>1. Goto(c, "gone") /\ Closed({c})
    BY <1>5 DEF Quits
  <2>2. "gone" \in ClientSteps /\ "gone" \notin Opening
    BY Clear
  <2> QED
    BY <1>0, <1>1, <1>2, <1>3, <2>1, <2>2, ClosedOneKeeps
<1> QED
  BY <1>4, <1>5

-----------------------------------------------------------------------------
(* The invariant of the specification. *)

\* The initial states satisfy the invariant.
LEMMA InitKeeps == Init => IInv
<1> SUFFICES ASSUME Init
             PROVE  IInv
  OBVIOUS
<1> DEFINE i == CHOOSE j \in Inodes : TRUE
           Locked(first) == first \notin Lockless \cup {None}
<1>1. i \in Inodes
  BY ElectionParameters
<1>2. PICK first \in Prior \cup {None} :
        /\ lockIno = IF first = None THEN None ELSE i
        /\ flock = [j \in Inodes |-> IF j = i /\ Locked(first) THEN first ELSE None]
        /\ pidFile = [j \in Inodes |-> IF j = i THEN first ELSE None]
        /\ sock = first
        /\ pc = [p \in Procs |-> IF p \in Clients THEN "idle"
                                 ELSE IF p = first THEN "run" ELSE "unborn"]
        /\ fd = [p \in Procs |-> IF p = first /\ Locked(first) THEN i ELSE None]
        /\ mine = [c \in Clients |-> Fresh]
        /\ faults = 0
        /\ raced = FALSE
  BY DEF Init
<1> HIDE DEF i
<1>3. first \in Leaders \cup {None} /\ first \notin Clients
  BY ElectionParameters
<1>4. FilesOK
  BY <1>1, <1>2, <1>3, Distinct DEF FilesOK
<1>5. StepsOK
  <2>1. \A c \in Clients : pc[c] = "idle"
    BY <1>2, Distinct
  <2>2. \A l \in Leaders : pc[l] \in {"run", "unborn"}
    BY <1>2, Distinct
  <2>3. pc = [p \in Procs |-> pc[p]]
    BY <1>2
  <2> QED
    BY <2>1, <2>2, <2>3, Distinct, Clear DEF StepsOK
<1>6. LocalsOK /\ HistoryOK
  BY <1>2, FreshTyped DEF LocalsOK, HistoryOK
<1>7. \A p \in Procs : /\ pc[p] \notin Locking
                       /\ fd[p] # None => p = first /\ pc[p] = "run" /\ fd[p] = i /\ lockIno = i /\ flock[i] = p
  BY <1>1, <1>2, <1>3, Distinct DEF Locking
<1>8. \A j \in Inodes : flock[j] # None => j = i /\ flock[j] = first /\ first \in Procs /\ fd[first] = i /\ pc[first] = "run"
  BY <1>2, <1>3, Distinct
<1>9. "run" \in Owning /\ "run" \in Opening
  BY Clear DEF Opening
<1>10. HolderHasOpen
  BY <1>8, <1>9 DEF HolderHasOpen
<1>11. OpenWhileUsed /\ OpenMeansHeld /\ SameFile
  BY <1>7, <1>9 DEF OpenWhileUsed, OpenMeansHeld, SameFile
<1> QED
  BY <1>4, <1>5, <1>6, <1>10, <1>11, Zenon DEF IInv, Core

\* Every step keeps the invariant.
LEMMA NextKeeps ==
    ASSUME IInv, [Next]_vars
    PROVE  IInv'
<1>1. CASE UNCHANGED vars
  <2>1. UNCHANGED <<lockIno, flock, pidFile, sock, pc, fd, mine, faults, raced>>
    BY <1>1 DEF vars, files
  <2>2. FilesOK' /\ StepsOK' /\ LocalsOK' /\ HistoryOK'
    BY <2>1, Parts DEF FilesOK, StepsOK, LocalsOK, HistoryOK
  <2>3. Core'
    BY <2>1, Parts DEF Core, HolderHasOpen, OpenWhileUsed, OpenMeansHeld, SameFile
  <2> QED
    BY <2>2, <2>3, Whole
<1>2. ASSUME NEW c \in Clients, Call(c) \/ ClientStep(c) \/ Quits(c)
      PROVE  IInv'
  <2>0. c \in Procs /\ c \notin Leaders
    BY Distinct
  <2>1. CASE Opens(c, "open", "flock")
    <3>1. "open" \notin Opening /\ "flock" \in Locking /\ "flock" \in ClientSteps
      BY DEF Opening, Locking, Owning, ClientHolds, LeaderHolds, ClientSteps
    <3> QED
      BY <2>0, <2>1, <3>1, OpensKeeps
  <2>2. CASE Locks(c, "flock", "held")
    <3>1. "flock" \in Locking /\ "held" \in Owning /\ "held" \in ClientSteps
      BY Clear DEF Locking
    <3> QED
      BY <2>0, <2>2, <3>1, LocksKeeps
  <2>3. CASE Contends(c, "flock", "wait")
    <3>1. "flock" \in Locking /\ "wait" \notin Opening /\ "wait" \in ClientSteps
      BY Clear DEF Locking
    <3> QED
      BY <2>0, <2>3, <3>1, ContendsKeeps
  <2>4. CASE \/ Call(c) \/ Declines(c) \/ SpawnFails(c) \/ Reaches(c)
             \/ AwaitEnds(c) \/ WaitFails(c) \/ WaitAgain(c) \/ ZombieDue(c)
    BY <2>4, ClientMovesKeep
  <2>5. CASE HeldAdopt(c) \/ HeldSpawn(c)
    BY <2>5, HeldKeeps
  <2>6. CASE HeldEvict(c) \/ Vacates(c)
    BY <2>6, VacatesKeep
  <2>7. CASE Graced(c) \/ Kill(c)
    BY <2>7, SignalsKeep
  <2>8. CASE Spawn(c)
    BY <2>8, SpawnKeeps
  <2>9. CASE Refused(c)
    BY <2>9, RefusedKeeps
  <2>10. CASE DropLock(c)
    BY <2>0, <2>10, DropLockKeeps
  <2>11. CASE DropSock(c)
    BY <2>0, <2>11, DropSockKeeps
  <2>12. CASE Quits(c)
    BY <2>12, QuitsKeeps
  <2> QED
    BY <1>2, <2>1, <2>2, <2>3, <2>4, <2>5, <2>6, <2>7, <2>8, <2>9, <2>10, <2>11, <2>12 DEF ClientStep
<1>3. ASSUME NEW l \in Leaders,
             \/ LeaderStep(l) \/ ServerStep(l)
             \/ StartFails(l) \/ Updates(l) \/ LastLeaves(l) \/ Hangs(l)
      PROVE  IInv'
  <2>0. l \in Procs /\ l \notin Clients
    BY Distinct
  <2>1. /\ "open1" \notin Opening /\ "open2" \notin Opening /\ "lost" \notin Opening
        /\ {"flock1", "flock2"} \subseteq Locking \cap LeaderSteps
        /\ "won" \in Owning \cap LeaderSteps /\ "open2" \in LeaderSteps /\ "lost" \in LeaderSteps
    BY Clear DEF Locking, LeaderSteps
  <2>2. CASE Opens(l, "open1", "flock1") \/ Opens(l, "open2", "flock2")
    BY <2>0, <2>1, <2>2, OpensKeeps
  <2>3. CASE Locks(l, "flock1", "won") \/ Locks(l, "flock2", "won")
    BY <2>0, <2>1, <2>3, LocksKeeps
  <2>4. CASE Contends(l, "flock1", "lost") \/ Contends(l, "flock2", "open2")
    BY <2>0, <2>1, <2>4, ContendsKeeps
  <2>5. CASE \/ Loses(l) \/ Leaves(l) \/ WritePid(l) \/ CleanSocket(l)
             \/ DrainEnds(l) \/ Returns(l) \/ Exits(l) \/ StartFails(l) \/ Updates(l)
    BY <2>5, LeaderMovesKeep
  <2>6. CASE DropLock(l)
    BY <2>0, <2>6, DropLockKeeps
  <2>7. CASE DropSock(l)
    BY <2>0, <2>7, DropSockKeeps
  <2>8. CASE ServerStep(l) \/ LastLeaves(l) \/ Hangs(l)
    BY <2>8, ServerStepsKeep
  <2> QED
    BY <1>3, <2>2, <2>3, <2>4, <2>5, <2>6, <2>7, <2>8 DEF LeaderStep
<1>4. ASSUME NEW p \in Procs, Crash(p)
      PROVE  IInv'
  BY <1>4, CrashKeeps
<1> QED
  BY <1>1, <1>2, <1>3, <1>4 DEF Next

\* Every reachable state satisfies the invariant.
LEMMA Invariance == Spec => []IInv
<1>1. IInv /\ [Next]_vars => IInv'
  BY NextKeeps
<1> QED
  BY InitKeeps, <1>1, PTL DEF Spec

\* The server tasks stay within their steps.
LEMMA ServerKeeps ==
    ASSUME ServerOK, [Next]_vars
    PROVE  ServerOK'
<1>1. \/ UNCHANGED server
      \/ \E l \in Leaders, step \in ServerSteps : server' = [server EXCEPT ![l] = step]
      \/ \E S : server' = [l \in Leaders |-> IF l \in S THEN "off" ELSE server[l]]
      \/ \E l : server' = [server EXCEPT ![l] = IF @ = "serving" THEN "draining" ELSE @]
  <2>1. CASE UNCHANGED vars
    BY <2>1 DEF vars
  <2>2. ASSUME NEW c \in Clients, Call(c) \/ ClientStep(c) \/ Quits(c)
        PROVE  \/ UNCHANGED server
               \/ \E S : server' = [l \in Leaders |-> IF l \in S THEN "off" ELSE server[l]]
               \/ \E l : server' = [server EXCEPT ![l] = IF @ = "serving" THEN "draining" ELSE @]
    <3>1. CASE HeldEvict(c)
      BY <3>1, Zenon DEF HeldEvict, Vacate, VacateHeeded, VacateFails, Killed
    <3>2. CASE Vacates(c)
      BY <3>2, Zenon DEF Vacates, Vacate, VacateHeeded, VacateFails, Killed
    <3>3. CASE Graced(c) \/ Kill(c)
      BY <3>3, Zenon DEF Graced, Kill, Signals, Killed
    <3>4. CASE UNCHANGED server
      BY <3>4
    <3> QED
      BY <2>2, <3>1, <3>2, <3>3, <3>4
      DEF Call, Quits, ClientStep, Opens, Declines, Locks, Contends, HeldAdopt, HeldSpawn,
          Spawn, SpawnFails, Refused, Reaches, AwaitEnds, WaitFails, WaitAgain, ZombieDue,
          DropLock, DropSock
  <2>3. ASSUME NEW l \in Leaders,
               \/ LeaderStep(l) \/ ServerStep(l)
               \/ StartFails(l) \/ Updates(l) \/ LastLeaves(l) \/ Hangs(l)
        PROVE  \/ UNCHANGED server
               \/ \E step \in ServerSteps : server' = [server EXCEPT ![l] = step]
    BY <2>3
    DEF LeaderStep, ServerStep, StartFails, Updates, LastLeaves, Hangs, Opens, Locks, Contends,
        Loses, Leaves, WritePid, CleanSocket, DrainEnds, Returns, DropLock, DropSock, Exits,
        ServerClears, Binds, ServerEnds, ServerUnlinks, Serves, ServerSteps, Answering, Silent
  <2>4. ASSUME NEW p \in Procs, Crash(p)
        PROVE  \E S : server' = [l \in Leaders |-> IF l \in S THEN "off" ELSE server[l]]
    BY <2>4, Zenon DEF Crash, Killed
  <2> QED
    BY <2>1, <2>2, <2>3, <2>4 DEF Next
<1>2. "off" \in ServerSteps /\ "draining" \in ServerSteps
  BY DEF ServerSteps, Answering
<1> QED
  BY <1>1, <1>2 DEF ServerOK

\* Files, steps of clients, leaders and servers, and the local variables of
\* clients keep their shape through connect_or_spawn and run_leader.
THEOREM ElectionTypeCorrect == Spec => []TypeOK
<1>1. Init => ServerOK
  BY DEF Init, ServerOK, ServerSteps, Answering
<1>2. ServerOK /\ [Next]_vars => ServerOK'
  BY ServerKeeps
<1>3. IInv /\ ServerOK => TypeOK
  BY Parts, TypeParts
<1> QED
  BY Invariance, <1>1, <1>2, <1>3, PTL DEF Spec

\* At most one leader process owns the lock (lock.rs:666), however many
\* clients and leaders race, crash, hang, hand over and evict each other,
\* unless the Drop of a LeaderLock unlinked a lock file that another process
\* had open.
THEOREM AtMostOneLeader == Spec => []OneLeader
<1>1. IInv => OneLeader
  <2> SUFFICES ASSUME IInv, ~raced, NEW l \in Leading, NEW m \in Leading
               PROVE  l = m
    BY DEF OneLeader, SingleLeader
  <2>1. /\ l \in Procs /\ pc[l] \in Owning /\ fd[l] # None
        /\ m \in Procs /\ pc[m] \in Owning /\ fd[m] # None
    BY Distinct DEF Leading, Owning
  <2>2. fd[l] = lockIno /\ fd[m] = lockIno
    BY <2>1, Parts DEF Core, SameFile
  <2>3. flock[fd[l]] = l /\ flock[fd[m]] = m
    BY <2>1, Parts DEF Core, OpenMeansHeld
  <2> QED
    BY <2>2, <2>3
<1> QED
  BY Invariance, <1>1, PTL

=============================================================================
